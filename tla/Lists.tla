------------------------------- MODULE Lists -------------------------------
(***************************************************************************)
(* Filtering a sequence, for the modules that are proved about: SelectSeq  *)
(* takes an operator, and the provers do not look into it.                 *)
(***************************************************************************)
EXTENDS Integers, Sequences

\* The members of s that are in T, in their order.
Filter(s, T) ==
  LET filter[n \in 0 .. Len(s)] ==
        IF n = 0 THEN <<>>
        ELSE IF s[n] \in T THEN Append(filter[n - 1], s[n]) ELSE filter[n - 1]
  IN filter[Len(s)]
=============================================================================
