---------------------------- MODULE MCNodeReads ----------------------------
(***************************************************************************)
(* An instance of NodeReads, each part at the size its hazards need.       *)
(***************************************************************************)
EXTENDS NodeReads

\* The tree: the roots of My Files, a device and a share; a folder in one of the
\* others, which may be moved home, and a node in the folder.
CONSTANTS h, d, s, a, b
MCTrees ==
    {[n \in Node |-> CASE n = a -> r [] n = b -> a [] OTHER -> NoNode] : r \in {d, s}}
MCListings == {{a, b}}

MCPath == <<"x", "y">>

\* The shared folder: two folders side by side, one of them with two levels below.
CONSTANTS top, v, w, x, y
MCTopTrees ==
    {[n \in VisitedLink |-> CASE n = top -> Nowhere [] n \in {v, w} -> top
                              [] n = x -> v [] OTHER -> x]}

\* Files whose thumbnails are asked for: three, and some that are named twice.
CONSTANTS pic1, pic2, pic3
MCPicLists == {<<>>, <<pic1, pic2, pic3>>, <<pic1, pic1>>, <<pic1, pic2, pic1>>}

\* Revisions with all of the attributes, with some that are missing or cannot be, and
\* with a short block first.
Sized(layout, sizes, total) == [layout |-> layout, attrs |-> [sizes |-> sizes, total |-> total]]
MCUploads == {Sized(<<1>>, NoSizes, -1), Sized(<<2, 1>>, <<2>>, 3),
              Sized(<<1, 2>>, <<1, 2>>, 3), Sized(<<1, 1>>, <<2, 0>>, NoSizes)}
MCRanges == {<<0, 1>>, <<1, 2>>, <<2, 5>>}

\* Photos looked for: none, one, a name twice with two contents, an input twice.
In(name, digest) == [name |-> name, digest |-> digest]
MCWanted == {<<>>, <<In("a", "x")>>, <<In("a", "x"), In("a", "y")>>,
             <<In("a", "x"), In("b", "x"), In("a", "x")>>}
=============================================================================
