------------------------------- MODULE Filtered -------------------------------
(***************************************************************************)
(* Array.prototype.filter and a list comprehension with an if.  As         *)
(* SelectSeq of module Sequences, with the set of what is kept in place of *)
(* the test, and a definition that can be reasoned about.                  *)
(***************************************************************************)
EXTENDS Naturals, Sequences

\* The elements of s that are in S, in their order.
Kept(s, S) ==
  LET upTo[i \in 0 .. Len(s)] ==
        IF i = 0 THEN <<>>
        ELSE IF s[i] \in S THEN Append(upTo[i - 1], s[i]) ELSE upTo[i - 1]
  IN  upTo[Len(s)]
=============================================================================
