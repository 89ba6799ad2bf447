---- MODULE Subsequences ----
(***************************************************************************)
(* The filter that lists of the program go through.  It is SelectSeq with  *)
(* the set of what passes, by a function over the length: what it returns  *)
(* is a theorem then, where SelectSeq is opaque to a proof.                *)
(***************************************************************************)
EXTENDS Integers, Sequences

\* The elements of a sequence that are in a set, in their order.
Among(s, S) ==
  LET upTo[n \in 0 .. Len(s)] ==
        IF n = 0 THEN <<>> ELSE IF s[n] \in S THEN Append(upTo[n - 1], s[n]) ELSE upTo[n - 1]
  IN upTo[Len(s)]
====
