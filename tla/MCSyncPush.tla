----------------------------- MODULE MCSyncPush -----------------------------
(***************************************************************************)
(* Small instances of SyncPush for TLC.                                    *)
(***************************************************************************)
EXTENDS SyncPushInvariant, TLC

CONSTANTS l1, l2, s1, s2, s3, s4

TwoLocalIds == {l1, l2}
ThreeServerIds == {s1, s2, s3}
FourServerIds == {s1, s2, s3, s4}

NoBlobs == {}
SecondWriteIsABlob == {2}

\* Primary keys are opaque: which local id is used first, and which id the
\* server assigns next, makes no difference.
IdSymmetry == Permutations(TwoLocalIds) \cup Permutations(FourServerIds)

=============================================================================
