------------------------------- MODULE Queues -------------------------------
(****************************************************************************)
(* What the code's deques and dicts do to the order of their items, as a    *)
(* recursive function so that it can be reasoned about (DataFacts).         *)
(****************************************************************************)
EXTENDS Integers, Sequences

\* The items of s that are in S, in their order.
Kept(s, S) ==
  LET upTo[i \in 0 .. Len(s)] ==
        IF i = 0 THEN <<>>
        ELSE IF s[i] \in S THEN Append(upTo[i - 1], s[i]) ELSE upTo[i - 1]
  IN upTo[Len(s)]
=============================================================================
