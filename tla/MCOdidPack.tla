----------------------------- MODULE MCOdidPack -----------------------------
(* Instance of OdidPack: the messages of transmit.c and of wifi/sender, a    *)
(* caller with too many authentication pages, and a few frames of others.   *)
EXTENDS OdidPack

K(t, s) == [type |-> t, sub |-> s]
M(t, s) == [type |-> t, sub |-> s, sound |-> TRUE, fix |-> 7]
F(v, h, ms, r, t) == [via |-> v, header |-> h, msgs |-> ms, room |-> r, tail |-> t]

mcTransmit == << K(BASIC_ID, 1), K(BASIC_ID, 4), K(LOCATION, 0),
                 K(AUTH, 0), K(AUTH, 1), K(AUTH, 2),
                 K(SELF_ID, 0), K(SYSTEM, 0), K(OPERATOR_ID, 0) >>
Sender     == << K(BASIC_ID, 2), K(LOCATION, 0),
                 K(AUTH, 0), K(AUTH, 1), K(AUTH, 2), K(AUTH, 3),
                 K(SELF_ID, 0), K(SYSTEM, 0), K(OPERATOR_ID, 0) >>
mcFilled   == { Sender, << >>, [p \in 1 .. 10 |-> K(AUTH, p - 1)] }
\* The Location of an earlier pack, zeroes, and a type that no message has.
mcJunk     == { M(LOCATION, 0), ZeroMessage, M(9, 3) }
mcForeign  ==
  { F("nan", TRUE, << M(BASIC_ID, 0), M(BASIC_ID, 1) >>, 2, TRUE),
    F("beacon", TRUE, << M(BASIC_ID, 1), M(BASIC_ID, 1), M(LOCATION, 0) >>, 3, TRUE),
    F("nan", TRUE, << M(BASIC_ID, 3), M(BASIC_ID, 2), [M(AUTH, 0) EXCEPT !.sound = FALSE] >>, 3, TRUE),
    F("nan", TRUE, << M(AUTH, 15), M(AUTH, 15), M(SYSTEM, 0) >>, 3, FALSE),
    F("beacon", TRUE, << M(PACKED, 0) >>, 1, TRUE),
    F("beacon", TRUE, << M(BASIC_ID, 1), M(BASIC_ID, 2), M(BASIC_ID, 3) >>, 3, TRUE),
    F("nan", FALSE, << M(SELF_ID, 0) >>, 1, TRUE),
    F("nan", TRUE, << M(SELF_ID, 0), M(OPERATOR_ID, 0) >>, 1, TRUE),
    F("beacon", TRUE, << M(SELF_ID, 0), M(OPERATOR_ID, 0) >>, 1, TRUE) }
=============================================================================
