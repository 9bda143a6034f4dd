----------------------------- MODULE MCKeyWalk -----------------------------
(***************************************************************************)
(* An instance of KeyWalk on its own: three roots, a folder in one of      *)
(* them, and a node in the folder.                                         *)
(***************************************************************************)
EXTENDS KeyWalk

CONSTANTS h, d, s, a, b

MCTrees ==
    {[n \in Node |-> CASE n = a -> r [] n = b -> a [] OTHER -> NoNode] : r \in Root}
MCListings == {{h, d}, {a, b}}
=============================================================================
