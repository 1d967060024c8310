------------------------------- MODULE Streams -------------------------------
(****************************************************************************)
(* What EngineCore promises the reader of a request: the stream opens once, *)
(* gives responses only while it is open, and ends once: as finished only   *)
(* when the generation has ended, and then after its last response.  (A     *)
(* generation that had to start over gives its responses again.)            *)
(****************************************************************************)
EXTENDS Integers

CONSTANTS Request, Tokens

VARIABLES
  phase,  \* per request: "none", "open", or how it ended
  upto,   \* the last response given
  length  \* the number of responses of the finished generation, 0 before

vars == <<phase, upto, length>>

Init ==
  /\ phase = [r \in Request |-> "none"]
  /\ upto = [r \in Request |-> 0]
  /\ length = [r \in Request |-> 0]

Open(r) ==
  /\ phase[r] = "none"
  /\ phase' = [phase EXCEPT ![r] = "open"]
  /\ UNCHANGED <<upto, length>>

\* Generations end, each once, after at least one response.
Generated ==
  /\ \A r \in Request : length'[r] # length[r] => length[r] = 0 /\ length'[r] \in 1 .. Tokens[r]
  /\ UNCHANGED <<phase, upto>>

\* Responses are given: up to response n.
Give(r, n) ==
  /\ phase[r] = "open"
  /\ upto' = [upto EXCEPT ![r] = n]
  /\ UNCHANGED <<phase, length>>

\* The end, with the last responses, if any.
Finish(r) ==
  /\ phase[r] = "open"
  /\ length[r] > 0
  /\ phase' = [phase EXCEPT ![r] = "finished"]
  /\ upto' = [upto EXCEPT ![r] = length[r]]
  /\ UNCHANGED length

Fail(r, n) ==
  /\ phase[r] = "open"
  /\ phase' = [phase EXCEPT ![r] = "failed"]
  /\ upto' = [upto EXCEPT ![r] = n]
  /\ UNCHANGED length

Leave(r) ==
  /\ phase[r] = "open"
  /\ phase' = [phase EXCEPT ![r] = "left"]
  /\ UNCHANGED <<upto, length>>

Next ==
  \/ Generated
  \/ \E r \in Request :
       \/ Open(r) \/ Finish(r) \/ Leave(r)
       \/ \E n \in 0 .. Tokens[r] : Give(r, n) \/ Fail(r, n)

Spec == Init /\ [][Next]_vars
==============================================================================
