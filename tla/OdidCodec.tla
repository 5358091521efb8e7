------------------------------ MODULE OdidCodec ------------------------------
(***************************************************************************)
(* The numeric fields of Remote ID messages (opendroneid.c): how a value   *)
(* is squeezed into one or two octets by the transmitter and what the      *)
(* receiver makes of it again.  The repository has two copies of the file; *)
(* the radar's folds a heading of 360 degrees into 0, the drone's does not *)
(* (Wrap360).                                                              *)
(*                                                                         *)
(* Values are integers in a unit that divides the encoding's step:         *)
(*   direction 0.1 degree, horizontal speed 0.05 m/s, vertical speed       *)
(*   0.1 m/s, altitude 0.1 m, timestamp 0.01 s, radius 1 m; accuracies in  *)
(*   0.1 m, 0.1 m/s and 0.01 s.                                            *)
(* The steps of all of these but time are sums of powers of two, so C's    *)
(* float arithmetic is exact where the model's is; a timestamp half way    *)
(* between two tenths may round either way in C and rounds up here.        *)
(***************************************************************************)
EXTENDS Integers, Sequences

CONSTANTS
  Wrap360,   \* whether this copy of encodeDirection() folds 360 into 0
  Inputs     \* Inputs[f]: the values of field f that applications hand over

Measures   == {"direction", "speedH", "speedV", "altitude", "timestamp", "radius"}
Accuracies == {"horizontal", "vertical", "speed", "time"}
Fields     == Measures \cup Accuracies

ASSUME CodecAssumption ==
  /\ Wrap360 \in BOOLEAN
  /\ Inputs \in [Fields -> SUBSET Int]

VARIABLES pc, field, value, octets, shown
vars == <<pc, field, value, octets, shown>>

-----------------------------------------------------------------------------
(***************************************************************************)
(* The encoders and decoders.                                              *)
(***************************************************************************)
MAX_DIR         == 3600
INV_DIR         == 3610
MAX_SPEED_H     == 5085
INV_SPEED_H     == 5100
MIN_SPEED_V     == -620
MAX_SPEED_V     == 620
INV_SPEED_V     == 630
MIN_ALT         == -10000
MAX_ALT         == 317675
MAX_TIMESTAMP   == 360000
INV_TIMESTAMP   == 6553500
MAX_AREA_RADIUS == 2550
UINT16_MAX      == 65535

intRangeMax(v, lo, hi) == IF v < lo THEN lo ELSE IF v > hi THEN hi ELSE v

\* An encoded value; flag is EWDirection, SpeedMult, or not used.
Octets(c, f) == [code |-> c, flag |-> f]

\* The range checks of encodeLocationMessage() and encodeSystemMessage().
InRange(f, v) ==
  CASE f = "direction" -> (0 <= v /\ v <= MAX_DIR) \/ v = INV_DIR
    [] f = "speedH"    -> (0 <= v /\ v <= MAX_SPEED_H) \/ v = INV_SPEED_H
    [] f = "speedV"    -> (MIN_SPEED_V <= v /\ v <= MAX_SPEED_V) \/ v = INV_SPEED_V
    [] f = "altitude"  -> MIN_ALT <= v /\ v <= MAX_ALT
    [] f = "timestamp" -> (0 <= v /\ v <= MAX_TIMESTAMP) \/ v = INV_TIMESTAMP
    [] f = "radius"    -> 0 <= v /\ v <= MAX_AREA_RADIUS
    [] OTHER           -> TRUE

\* Faulty variant: the West half begins one degree late.
encodeDirectionLate(v) ==
  LET deg == (v + 5) \div 10
      d   == IF Wrap360 /\ deg = 360 THEN 0 ELSE deg
  IN  IF d <= 180 THEN Octets(intRangeMax(d, 0, 255), 0)
                  ELSE Octets(intRangeMax(d - 181, 0, 255), 1)

encodeDirection(v) ==
  LET deg == (v + 5) \div 10
      d   == IF Wrap360 /\ deg = 360 THEN 0 ELSE deg
  IN  IF d < 180 THEN Octets(intRangeMax(d, 0, 255), 0)
                 ELSE Octets(intRangeMax(d - 180, 0, 255), 1)
decodeDirection(o) == 10 * (o.code + 180 * o.flag)

\* Faulty variants: the fine steps go on too long; the offset is left out.
encodeSpeedHorizontalLate(v) ==
  IF v <= 1280 THEN Octets(v \div 5, 0)
               ELSE Octets(intRangeMax((v - 1280) \div 15, 0, 255), 1)
decodeSpeedHorizontalNoOffset(o) == IF o.flag = 1 THEN 15 * o.code ELSE 5 * o.code

\* Steps of 0.25 m/s up to 255 of them, then of 0.75 m/s.
encodeSpeedHorizontal(v) ==
  IF v <= 1275 THEN Octets(v \div 5, 0)
               ELSE Octets(intRangeMax((v - 1275) \div 15, 0, 255), 1)
decodeSpeedHorizontal(o) == IF o.flag = 1 THEN 15 * o.code + 1275 ELSE 5 * o.code

\* A C cast truncates towards zero.
encodeSpeedVertical(v) ==
  Octets(intRangeMax(IF v >= 0 THEN v \div 5 ELSE -((-v) \div 5), -128, 127), 0)
decodeSpeedVertical(o) == 5 * o.code

encodeAltitude(v) == Octets(intRangeMax((v + 10000) \div 5, 0, UINT16_MAX), 0)
decodeAltitude(o) == 5 * o.code - 10000

\* Faulty variant: the unknown timestamp is limited like any other.
encodeTimeStampLimited(v) ==
  Octets(intRangeMax((v + 5) \div 10, 0, 36000), 0)

encodeTimeStamp(v) ==
  IF v = INV_TIMESTAMP THEN Octets(UINT16_MAX, 0)
  ELSE Octets(intRangeMax((v + 5) \div 10, 0, 36000), 0)
decodeTimeStamp(o) == IF o.code = UINT16_MAX THEN INV_TIMESTAMP ELSE 10 * o.code

encodeAreaRadius(v) == Octets(intRangeMax(v \div 10, 0, 255), 0)
decodeAreaRadius(o) == 10 * o.code

\* createEnum...Accuracy(): limits[k] is the value that class k stays below,
\* and class 0 is "unknown".
HorizontalLimits == <<185200, 74080, 37040, 18520, 9260, 5556, 1852, 926, 300, 100, 30, 10>>
VerticalLimits   == <<1500, 450, 250, 100, 30, 10>>
SpeedLimits      == <<100, 30, 10, 3>>

Class(limits, v) ==
  IF v <= 0 \/ v >= limits[1] THEN 0
  ELSE CHOOSE k \in DOMAIN limits :
         v < limits[k] /\ (k < Len(limits) => v >= limits[k + 1])

createEnumTimestampAccuracy(v) == IF v <= 0 \/ v > 150 THEN 0 ELSE (v + 9) \div 10

\* Faulty variant: the classes are taken for the next better ones.
decodeAccuracyBelow(limits, k) == IF k = 0 THEN limits[1]
                                  ELSE limits[IF k < Len(limits) THEN k + 1 ELSE k]

\* decodeVerticalAccuracy(), decodeSpeedAccuracy().
decodeAccuracy(limits, k) == IF k = 0 THEN limits[1] ELSE limits[k]

\* The table of decodeHorizontalAccuracy() is the other one but for class 2.
decodeHorizontalAccuracy(k) == IF k = 2 THEN 78080 ELSE decodeAccuracy(HorizontalLimits, k)
decodeTimestampAccuracy(k) == 10 * k

Encode(f, v) ==
  CASE f = "direction"  -> encodeDirection(v)
    [] f = "speedH"     -> encodeSpeedHorizontal(v)
    [] f = "speedV"     -> encodeSpeedVertical(v)
    [] f = "altitude"   -> encodeAltitude(v)
    [] f = "timestamp"  -> encodeTimeStamp(v)
    [] f = "radius"     -> encodeAreaRadius(v)
    [] f = "horizontal" -> Octets(Class(HorizontalLimits, v), 0)
    [] f = "vertical"   -> Octets(Class(VerticalLimits, v), 0)
    [] f = "speed"      -> Octets(Class(SpeedLimits, v), 0)
    [] f = "time"       -> Octets(createEnumTimestampAccuracy(v), 0)

Decode(f, o) ==
  CASE f = "direction"  -> decodeDirection(o)
    [] f = "speedH"     -> decodeSpeedHorizontal(o)
    [] f = "speedV"     -> decodeSpeedVertical(o)
    [] f = "altitude"   -> decodeAltitude(o)
    [] f = "timestamp"  -> decodeTimeStamp(o)
    [] f = "radius"     -> decodeAreaRadius(o)
    [] f = "horizontal" -> decodeHorizontalAccuracy(o.code)
    [] f = "vertical"   -> decodeAccuracy(VerticalLimits, o.code)
    [] f = "speed"      -> decodeAccuracy(SpeedLimits, o.code)
    [] f = "time"       -> decodeTimestampAccuracy(o.code)

-----------------------------------------------------------------------------
(***************************************************************************)
(* One value on its way.                                                   *)
(***************************************************************************)
Init ==
  /\ pc = "filled"
  /\ field \in Fields
  /\ value \in Inputs[field]
  /\ octets = Octets(0, 0)
  /\ shown = 0

EncodeMessage ==
  /\ pc = "filled" /\ InRange(field, value)
  /\ octets' = Encode(field, value)
  /\ pc' = "sent"
  /\ UNCHANGED <<field, value, shown>>

\* ODID_FAIL
Refuse ==
  /\ pc = "filled" /\ ~InRange(field, value)
  /\ pc' = "refused"
  /\ UNCHANGED <<field, value, octets, shown>>

DecodeMessage ==
  /\ pc = "sent"
  /\ shown' = Decode(field, octets)
  /\ pc' = "shown"
  /\ UNCHANGED <<field, value, octets>>

Next == EncodeMessage \/ Refuse \/ DecodeMessage

Spec == Init /\ [][Next]_vars

-----------------------------------------------------------------------------
(***************************************************************************)
(* Properties.                                                             *)
(***************************************************************************)

\* Encoded values fit the octets of their fields (one octet, signed for the
\* vertical speed, two for altitude and time, four bits for an accuracy), so
\* the casts of the encoders lose nothing.
OctetsFit ==
  pc \in {"sent", "shown"} =>
    /\ octets.flag \in {0, 1}
    /\ CASE field = "speedV"                   -> octets.code \in -128 .. 127
         [] field \in {"altitude", "timestamp"} -> octets.code \in 0 .. UINT16_MAX
         [] field \in Accuracies                -> octets.code \in 0 .. 15
         [] OTHER                               -> octets.code \in 0 .. 255

Distance(a, b) == IF a <= b THEN b - a ELSE a - b

\* The shown value is off by less than a step of the encoding: truncation for
\* speeds, altitude and radius, rounding for direction and time.  A direction
\* may come out on the other side of North.
QuantisationError ==
  pc = "shown" =>
    CASE field = "direction" -> \/ Distance(shown, value) <= 5
                                \/ Distance(shown + 3600, value) <= 5
      [] field = "speedH"    -> /\ shown <= value
                                /\ value - shown < IF value <= 1275 THEN 5 ELSE 15
      [] field = "speedV"    -> /\ Distance(shown, value) < 5
                                /\ Distance(shown, 0) <= Distance(value, 0)
      [] field = "altitude"  -> shown <= value /\ value - shown < 5
      [] field = "timestamp" -> Distance(shown, value) <= 5
      [] field = "radius"    -> shown <= value /\ value - shown < 10
      [] OTHER               -> TRUE

\* "Invalid" or "unknown" arrives as such, and no measured value is taken for
\* it.  (An unknown altitude is the lowest one and not told apart from it.)
InvalidIsKept ==
  pc = "shown" =>
    /\ field = "direction" => (shown = INV_DIR <=> value = INV_DIR)
    /\ field = "speedH"    => (shown = INV_SPEED_H <=> value = INV_SPEED_H)
    /\ field = "speedV"    => (shown = INV_SPEED_V <=> value = INV_SPEED_V)
    /\ field = "timestamp" => (shown = INV_TIMESTAMP <=> value = INV_TIMESTAMP)

\* A greater value is never shown as a smaller one, also across the change of
\* the step of the horizontal speed.
OrderKept ==
  pc = "shown" /\ field \in Measures \ {"direction"} /\ InRange(field, value + 1)
    => shown <= Decode(field, Encode(field, value + 1))

\* A known accuracy is never shown better than it was.
AccuracyNotOverstated ==
  pc = "shown" /\ field \in Accuracies /\ octets.code # 0 => shown >= value
=============================================================================
