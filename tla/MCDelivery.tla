------------------------------ MODULE MCDelivery ------------------------------
(***************************************************************************)
(* Constants for model checking Delivery.                                  *)
(***************************************************************************)
EXTENDS Delivery

CONSTANTS t1, t2, id, foreign, blank

\* Texts with and without blocks between them, every kind of block, and every kind
\* of item: reactions with a target of this platform and of another, an incomplete
\* item, files from everywhere, a caption, reply directives and mentions.
Segments ==
    {Text(t1), Text(t2), Broken,
     Block("default", << >>, <<Reaction("reaction_add", id)>>),
     Block("default", << >>, <<Reaction("reaction_add", foreign), Reaction("reaction_remove", id)>>),
     Block("none", <<id>>, << >>),
     Block("default", <<blank>>, << >>),
     Block(foreign, << >>, <<Media("workspace", <<t2>>, "default"), Incomplete>>),
     Block("default", << >>, <<Media("workspace", << >>, id), Media("handle", <<t1>>, "none")>>),
     Block("default", << >>, <<Media("leaving", << >>, "default")>>),
     Block("default", << >>, <<Media("nameless", <<t2>>, "default")>>),
     Block("default", << >>, <<Media("elsewhere", << >>, "default")>>)}

\* Up to MaxSegments segments, the last of which may be an unclosed block.
MaxSegments == 3

MCOutputs ==
    LET closed == BoundedSeq(Segments, MaxSegments)
    IN closed \cup {Append(o, Unclosed) : o \in BoundedSeq(Segments, MaxSegments - 1)}
=============================================================================
