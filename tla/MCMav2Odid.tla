----------------------------- MODULE MCMav2Odid -----------------------------
(* Instance of Mav2Odid: two ID types and NONE for two slots, three pages     *)
(* for two authentication slots, one message of each other kind, one that is  *)
(* out of range, and packs of every outcome of the content check, one with   *)
(* more messages than fit.                                                  *)
EXTENDS Mav2Odid

In(t, s) == [type |-> t, sub |-> s, inRange |-> TRUE]
P(ms)    == [sizeOK |-> TRUE, msgs |-> ms]
K(t, s)  == [type |-> t, sub |-> s]

mcIncoming ==
  { In(BASIC_ID, 0), In(BASIC_ID, 1), In(BASIC_ID, 2),
    In(LOCATION, 0), In(AUTH, 0), In(AUTH, 1), In(AUTH, 2),
    In(SELF_ID, 0), In(SYSTEM, 0),
    [In(OPERATOR_ID, 0) EXCEPT !.inRange = FALSE], In(OPERATOR_ID, 0) }
mcPacks ==
  { P(<< K(SYSTEM, 0), K(LOCATION, 0) >>),
    P(<< K(LOCATION, 0), K(LOCATION, 0) >>), P(<< K(9, 0) >>), P(<< >>),
    P(<< K(BASIC_ID, 1), K(LOCATION, 0), K(SYSTEM, 0) >>),
    [P(<< K(SELF_ID, 0) >>) EXCEPT !.sizeOK = FALSE] }
=============================================================================
