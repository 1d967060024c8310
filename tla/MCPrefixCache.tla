---------------------------- MODULE MCPrefixCache ----------------------------
(* PrefixCache for TLC: prompts that share a prefix, one that extends past   *)
(* it and one of another token; chains of up to three blocks.                *)
EXTENDS PrefixCache

CONSTANTS r1, r2, r3, r4, x, y

Chains(n) == UNION {[1 .. i -> {x, y}] : i \in 1 .. n}

MCHash2 == Chains(2)
MCHash3 == Chains(3)
Two == {r1, r2}
Three == {r1, r2, r3}
Four == {r1, r2, r3, r4}

\* r1 files <<x, y>>; r2 can share both blocks, r3 the first; r3 goes on with
\* another token, whose block competes with theirs.
MixedPrompt == [r \in Three |-> IF r = r2 THEN <<x, y>> ELSE <<x>>]
MixedSequence == [r \in Three |-> IF r = r3 THEN <<x, x>> ELSE <<x, y>>]
\* One-block requests: r3 has another token.
SingleBlock ==
  [r \in Four |-> IF r = r3 THEN <<y>> ELSE <<x>>]
OneEach ==
  [r \in Three |-> IF r = r3 THEN <<y>> ELSE <<x>>]
==============================================================================
