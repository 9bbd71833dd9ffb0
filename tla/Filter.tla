-------------------------------- MODULE Filter --------------------------------
(***************************************************************************)
(* The elements of a sequence that are in a set.                           *)
(***************************************************************************)
EXTENDS SequencesExt

Keep(s, S) == FoldLeft(LAMBDA kept, a : IF a \in S THEN Append(kept, a) ELSE kept, <<>>, s)

=============================================================================
