----------------------------- MODULE MCPagedCache ----------------------------
(* PagedCache for TLC: of four blocks only the null block exists at the      *)
(* start, so that the pool grows by two, then by one, then runs out; two      *)
(* hashes and two requests.                                                   *)
EXTENDS PagedCache, TLC

CONSTANTS h1, h2, r1, r2

MCHash == {h1, h2}
MCRequest == {r1, r2}
MCSymmetry == Permutations(MCHash) \cup Permutations(MCRequest)
==============================================================================
