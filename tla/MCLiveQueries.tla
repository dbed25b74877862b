--------------------------- MODULE MCLiveQueries ----------------------------
(* LiveQueries on small instances: which query reads which table.          *)
EXTENDS LiveQueries, TLC

CONSTANTS k1, k2, t1

\* Two queries of one table, which the lists read too.
MCTableOf == (k1 :> t1) @@ (k2 :> t1)

=============================================================================
