------------------------------- MODULE Selection -------------------------------
(***************************************************************************)
(* The elements of a sequence that a filter lets through.                  *)
(***************************************************************************)
EXTENDS SequencesExt

\* SelectSeq for the elements of a set, as the module Sequences defines it, written
\* out because the provers know no facts about SelectSeq itself.
Those(s, T) ==
    LET kept[n \in 0..Len(s)] ==
            IF n = 0 THEN << >>
            ELSE IF s[n] \in T THEN Append(kept[n - 1], s[n]) ELSE kept[n - 1]
    IN kept[Len(s)]
=============================================================================
