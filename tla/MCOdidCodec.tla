----------------------------- MODULE MCOdidCodec -----------------------------
(* Instance of OdidCodec: whole ranges where they are small, the ends and    *)
(* the class limits of the others, and values just outside.                 *)
EXTENDS OdidCodec

Near(S, d) == UNION { (v - d) .. (v + d) : v \in S }
LimitsOf(s) == { s[k] : k \in DOMAIN s }

mcInputs ==
  [ direction  |-> -5 .. 3620,
    speedH     |-> -5 .. 5105,
    speedV     |-> -640 .. 640,
    altitude   |-> Near({MIN_ALT, 0, 1234, MAX_ALT}, 30),
    timestamp  |-> Near({0, 600, 359999, INV_TIMESTAMP}, 30),
    radius     |-> 0 .. 2600,
    horizontal |-> Near({0} \cup LimitsOf(HorizontalLimits), 5),
    vertical   |-> 0 .. 1510,
    speed      |-> 0 .. 110,
    time       |-> 0 .. 160 ]
=============================================================================
