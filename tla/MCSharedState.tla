--------------------------- MODULE MCSharedState ---------------------------
(***************************************************************************)
(* An instance of SharedState: two lookups and a move; two fetches of one   *)
(* revision and one of another, over one session; a batch of two blocks    *)
(* and a thumbnail; an upload and a download.                              *)
(***************************************************************************)
EXTENDS SharedState

CONSTANTS f1, f2, f3, t1, t2

MCFetch == {f1, f2, f3}
MCTable == {t1, t2}
MCTableOf == [f \in MCFetch |-> IF f = f3 THEN t2 ELSE t1]
=============================================================================
