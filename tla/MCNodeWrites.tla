---------------------------- MODULE MCNodeWrites ----------------------------
(***************************************************************************)
(* An instance of NodeWrites, each part at the size its hazards need.      *)
(***************************************************************************)
EXTENDS NodeWrites

\* Two nodes side by side, of which a move renames the first.
CONSTANTS n1, n2, f1, f2, x, y
MCStart == {[n \in Item |-> [folder |-> f1, name |-> IF n = n1 THEN x ELSE y]]}
MCRenamings == {[n \in Item |-> IF n = n1 THEN <<y>> ELSE <<>>]}

\* More photos than a chunk holds, two of another volume, one named twice.
CONSTANTS pa, pb, pu, pf, pg
MCRequests == {<<pa>>, <<pb>>, <<pu>>, <<pa, pb>>, <<pb, pa, pu>>, <<pf, pa>>, <<pf, pg>>,
               <<pa, pa>>}

\* Two spellings of one address, and another one.
CONSTANTS e1, E1, e2
MCLower == [e \in Email |-> IF e = E1 THEN e1 ELSE e]
MCInvitees == {<<e1>>, <<e2, E1>>}
=============================================================================
