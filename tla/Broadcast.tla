----------------------------- MODULE Broadcast -----------------------------
(***************************************************************************)
(* What a receiver may rely on: a transport is silent or broadcasts the    *)
(* messages of one run of the transmitter, the first after silence, then   *)
(* each next one, none left out or out of turn; runs follow one another,   *)
(* and a run that has fallen silent does not come back.  Any set of        *)
(* transports may fall silent at once.                                     *)
(***************************************************************************)
EXTENDS Naturals

CONSTANT Transports

VARIABLES
  on,    \* for each transport: whether it broadcasts
  run,   \* the run that broadcasts, or did last
  num    \* the number of the run's message on the air, 0 if there is none yet

vars == <<on, run, num>>

Init ==
  /\ on  = [t \in Transports |-> FALSE]
  /\ run = [t \in Transports |-> 0]
  /\ num = [t \in Transports |-> 0]

SwitchOn(t) ==
  /\ ~on[t]
  /\ on' = [on EXCEPT ![t] = TRUE]
  /\ run'[t] > run[t] /\ run' = [run EXCEPT ![t] = run'[t]]
  /\ UNCHANGED num

ShowNext(t) ==
  /\ on[t]
  /\ num' = [num EXCEPT ![t] = @ + 1]
  /\ UNCHANGED <<on, run>>

SwitchOff(T) ==
  /\ on'  = [t \in Transports |-> t \notin T /\ on[t]]
  /\ num' = [t \in Transports |-> IF t \in T THEN 0 ELSE num[t]]
  /\ UNCHANGED run

Next ==
  \/ \E t \in Transports : SwitchOn(t) \/ ShowNext(t)
  \/ \E T \in SUBSET Transports : SwitchOff(T)

Spec == Init /\ [][Next]_vars
=============================================================================
