----------------------------- MODULE MCSyncPull -----------------------------
(***************************************************************************)
(* Small instances of SyncPull for TLC.                                    *)
(***************************************************************************)
EXTENDS SyncPull

NoLocalIds == {}
OneServerId == {1}
ThreeServerIds == {1, 2, 3}

AllStrategies == {"serverWins", "clientWins", "lastWriteWins"}
OnlyLastWriteWins == {"lastWriteWins"}

=============================================================================
