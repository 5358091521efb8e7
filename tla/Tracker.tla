------------------------------ MODULE Tracker ------------------------------
(***************************************************************************)
(* What the radar's table promises: a bounded set of transmitters that     *)
(* changes in single steps.  A frame is recorded exactly once; recording   *)
(* it adds its sender and displaces at most one other transmitter, nobody  *)
(* if the sender is tracked already; the end of the frame drops its sender *)
(* or nobody; at any time one transmitter may be forgotten.  There are no  *)
(* slots, no stamps and no half-written entries here.                      *)
(***************************************************************************)
EXTENDS Naturals, FiniteSets

CONSTANTS
  Senders,   \* the addresses frames come from
  Visible,   \* those of them that the table can show
  Capacity,  \* how many transmitters it can show at once
  None       \* no sender

VARIABLES
  tracked,   \* the transmitters shown
  hearing,   \* the sender of the frame at hand, or None
  recorded   \* whether that frame has been recorded

vars == <<tracked, hearing, recorded>>

Init == tracked = {} /\ hearing = None /\ recorded = FALSE

Hear(m) ==
  /\ hearing = None
  /\ hearing' = m
  /\ UNCHANGED <<tracked, recorded>>

Record(gone) ==
  /\ hearing # None /\ ~recorded
  /\ Cardinality(gone) <= 1 /\ (hearing \in tracked => gone = {})
  /\ tracked' = (tracked \ gone) \cup ({hearing} \cap Visible)
  /\ Cardinality(tracked') <= Capacity
  /\ recorded' = TRUE
  /\ UNCHANGED hearing

Finish(gone) ==
  /\ recorded
  /\ tracked' = tracked \ gone
  /\ hearing' = None /\ recorded' = FALSE

Forget(m) ==
  /\ tracked' = tracked \ {m}
  /\ UNCHANGED <<hearing, recorded>>

Next ==
  \/ \E m \in Senders : Hear(m)
  \/ \E gone \in SUBSET tracked : Record(gone)
  \/ \E gone \in SUBSET {hearing} : Finish(gone)
  \/ \E m \in tracked : Forget(m)

Spec == Init /\ [][Next]_vars
=============================================================================
