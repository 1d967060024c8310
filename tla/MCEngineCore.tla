---------------------------- MODULE MCEngineCore ----------------------------
(* Instances of EngineCore.  r1 is prefilled whole and read as a stream, r2, *)
(* of a single response, in chunks.  MCUidReuse has three requests alike.    *)
EXTENDS EngineCore, TLC

CONSTANTS r1, r2, r3

MCChunks == [r \in Request |-> IF r = r2 THEN 2 ELSE 0]
MCTokens == [r \in Request |-> IF r = r2 THEN 1 ELSE 2]

WholeChunks == [r \in Request |-> 0]
TwoTokens == [r \in Request |-> 2]
Alike == Permutations(Request)
==============================================================================
