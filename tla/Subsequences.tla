---------------------------- MODULE Subsequences ----------------------------
(***************************************************************************)
(* The loops of the code that copy a part of a slice.  SelectSeq of the    *)
(* standard modules would do the same, but takes its test as an operator;  *)
(* a set of positions is a value that a theorem can be stated for.         *)
(***************************************************************************)
EXTENDS Naturals, Sequences

(* The elements of s whose positions are in I, in the order of s.          *)
ItemsAt(s, I) ==
  LET upTo[n \in 0 .. Len(s)] ==
        IF n = 0 THEN << >>
        ELSE IF n \in I THEN Append(upTo[n - 1], s[n]) ELSE upTo[n - 1]
  IN  upTo[Len(s)]
=============================================================================
