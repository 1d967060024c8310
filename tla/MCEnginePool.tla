---------------------------- MODULE MCEnginePool ----------------------------
(* EnginePool for TLC: two small models that fit together with the headroom,  *)
(* one that only fits alone, one of the small ones pinned.                    *)
EXTENDS EnginePool, TLC

CONSTANTS small, other, large, h1, h2, a1, a2

Models == {small, other, large}
Sizes == [m \in Models |-> IF m = large THEN 3 ELSE 1]
Handlers == Permutations(Handler)
TwoHandlers == {h1, h2}
OneRoute == {a1}
NoRoute == {}
Pinned == {small}
NonePinned == {}
=============================================================================
