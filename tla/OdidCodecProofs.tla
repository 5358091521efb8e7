--------------------------- MODULE OdidCodecProofs ---------------------------
(***************************************************************************)
(* Proofs about OdidCodec: the error of the encodings, the markers of      *)
(* unknown values, the order of values, the width of the codes and the     *)
(* accuracy classes, for every value an application may hand over and for  *)
(* both copies of encodeDirection().                                       *)
(***************************************************************************)
EXTENDS OdidCodec, TLAPS

\* What became of the value is determined by the value.
Inv ==
  /\ field \in Fields
  /\ value \in Int
  /\ pc \in {"filled", "sent", "refused", "shown"}
  /\ pc \in {"sent", "shown"} => InRange(field, value)
  /\ pc \in {"sent", "shown"} => octets = Encode(field, value)
  /\ pc = "shown" => shown = Decode(field, Encode(field, value))

-----------------------------------------------------------------------------
(***************************************************************************)
(* Each encoder followed by its decoder.                                   *)
(***************************************************************************)
\* A heading, with and without the fold of 360 degrees into 0.
LEMMA DirectionTrip ==
  ASSUME NEW v \in Int, (0 <= v /\ v <= MAX_DIR) \/ v = INV_DIR
  PROVE  LET s == decodeDirection(encodeDirection(v))
         IN  /\ s \in Int
             /\ Distance(s, v) <= 5 \/ Distance(s + 3600, v) <= 5
             /\ s = INV_DIR <=> v = INV_DIR
<1>1. CASE Wrap360 /\ (v + 5) \div 10 = 360
  BY <1>1 DEF decodeDirection, encodeDirection, Octets, intRangeMax, Distance, MAX_DIR, INV_DIR
<1>2. CASE ~(Wrap360 /\ (v + 5) \div 10 = 360)
  BY <1>2 DEF decodeDirection, encodeDirection, Octets, intRangeMax, Distance, MAX_DIR, INV_DIR
<1> QED
  BY <1>1, <1>2

\* The horizontal speed, on both sides of the change of its step.
LEMMA SpeedHorizontalTrip ==
  ASSUME NEW v \in Int, (0 <= v /\ v <= MAX_SPEED_H) \/ v = INV_SPEED_H
  PROVE  LET s == decodeSpeedHorizontal(encodeSpeedHorizontal(v))
         IN  /\ s \in Int /\ s <= v
             /\ v <= 1275 => v - s < 5 /\ s <= 1275 /\ s % 5 = 0
             /\ v > 1275 => v - s < 15 /\ s >= 1275 /\ (s - 1275) % 15 = 0
             /\ s = INV_SPEED_H <=> v = INV_SPEED_H
BY DEF decodeSpeedHorizontal, encodeSpeedHorizontal, Octets, intRangeMax,
       MAX_SPEED_H, INV_SPEED_H

\* The vertical speed, truncated towards zero.
LEMMA SpeedVerticalTrip ==
  ASSUME NEW v \in Int, (MIN_SPEED_V <= v /\ v <= MAX_SPEED_V) \/ v = INV_SPEED_V
  PROVE  LET s == decodeSpeedVertical(encodeSpeedVertical(v))
         IN  /\ s \in Int
             /\ Distance(s, v) < 5
             /\ Distance(s, 0) <= Distance(v, 0)
             /\ s = INV_SPEED_V <=> v = INV_SPEED_V
BY DEF decodeSpeedVertical, encodeSpeedVertical, Octets, intRangeMax, Distance,
       MIN_SPEED_V, MAX_SPEED_V, INV_SPEED_V

\* An altitude.
LEMMA AltitudeTrip ==
  ASSUME NEW v \in Int, MIN_ALT <= v, v <= MAX_ALT
  PROVE  LET s == decodeAltitude(encodeAltitude(v))
         IN  s \in Int /\ s <= v /\ v - s < 5
BY SMT DEF decodeAltitude, encodeAltitude, Octets, intRangeMax, MIN_ALT, MAX_ALT, UINT16_MAX

\* A timestamp, the unknown one kept apart.
LEMMA TimeStampTrip ==
  ASSUME NEW v \in Int, (0 <= v /\ v <= MAX_TIMESTAMP) \/ v = INV_TIMESTAMP
  PROVE  LET s == decodeTimeStamp(encodeTimeStamp(v))
         IN  /\ s \in Int
             /\ Distance(s, v) <= 5
             /\ s = INV_TIMESTAMP <=> v = INV_TIMESTAMP
BY SMT DEF decodeTimeStamp, encodeTimeStamp, Octets, intRangeMax, Distance,
       MAX_TIMESTAMP, INV_TIMESTAMP, UINT16_MAX

\* The radius of an area.
LEMMA AreaRadiusTrip ==
  ASSUME NEW v \in Int, 0 <= v, v <= MAX_AREA_RADIUS
  PROVE  LET s == decodeAreaRadius(encodeAreaRadius(v))
         IN  s \in Int /\ s <= v /\ v - s < 10
BY SMT DEF decodeAreaRadius, encodeAreaRadius, Octets, intRangeMax, MAX_AREA_RADIUS

\* Neighbouring values keep their order.
LEMMA OrderTrip ==
  ASSUME NEW v \in Int
  PROVE  /\ 0 <= v /\ v <= INV_SPEED_H - 1
            => decodeSpeedHorizontal(encodeSpeedHorizontal(v))
                 <= decodeSpeedHorizontal(encodeSpeedHorizontal(v + 1))
         /\ MIN_SPEED_V <= v /\ v <= INV_SPEED_V - 1
            => decodeSpeedVertical(encodeSpeedVertical(v))
                 <= decodeSpeedVertical(encodeSpeedVertical(v + 1))
         /\ MIN_ALT <= v /\ v <= MAX_ALT - 1
            => decodeAltitude(encodeAltitude(v)) <= decodeAltitude(encodeAltitude(v + 1))
         /\ 0 <= v /\ v <= MAX_TIMESTAMP - 1
            => decodeTimeStamp(encodeTimeStamp(v)) <= decodeTimeStamp(encodeTimeStamp(v + 1))
         /\ 0 <= v /\ v <= MAX_AREA_RADIUS - 1
            => decodeAreaRadius(encodeAreaRadius(v)) <= decodeAreaRadius(encodeAreaRadius(v + 1))
<1> USE DEF Octets, intRangeMax
<1>1. 0 <= v /\ v <= INV_SPEED_H - 1
      => decodeSpeedHorizontal(encodeSpeedHorizontal(v))
           <= decodeSpeedHorizontal(encodeSpeedHorizontal(v + 1))
  BY SMT DEF decodeSpeedHorizontal, encodeSpeedHorizontal, INV_SPEED_H
<1>2. MIN_SPEED_V <= v /\ v <= INV_SPEED_V - 1
      => decodeSpeedVertical(encodeSpeedVertical(v))
           <= decodeSpeedVertical(encodeSpeedVertical(v + 1))
  BY SMT DEF decodeSpeedVertical, encodeSpeedVertical, MIN_SPEED_V, INV_SPEED_V
<1>3. MIN_ALT <= v /\ v <= MAX_ALT - 1
      => decodeAltitude(encodeAltitude(v)) <= decodeAltitude(encodeAltitude(v + 1))
  BY SMT DEF decodeAltitude, encodeAltitude, MIN_ALT, MAX_ALT, UINT16_MAX
<1>4. 0 <= v /\ v <= MAX_TIMESTAMP - 1
      => decodeTimeStamp(encodeTimeStamp(v)) <= decodeTimeStamp(encodeTimeStamp(v + 1))
  BY SMT DEF decodeTimeStamp, encodeTimeStamp, MAX_TIMESTAMP, INV_TIMESTAMP, UINT16_MAX
<1>5. 0 <= v /\ v <= MAX_AREA_RADIUS - 1
      => decodeAreaRadius(encodeAreaRadius(v)) <= decodeAreaRadius(encodeAreaRadius(v + 1))
  BY SMT DEF decodeAreaRadius, encodeAreaRadius, MAX_AREA_RADIUS
<1> QED
  BY <1>1, <1>2, <1>3, <1>4, <1>5

-----------------------------------------------------------------------------
(***************************************************************************)
(* The classes of the accuracies.  The tables fall, so every value below   *)
(* the first limit has a class, and stays below the limit of its class.    *)
(***************************************************************************)

\* If a class fits, the one that is taken does.
LEMMA ClassTaken ==
  ASSUME NEW limits, NEW v,
         v <= 0 \/ v >= limits[1]
         \/ \E k \in DOMAIN limits : v < limits[k] /\ (k < Len(limits) => v >= limits[k + 1])
  PROVE  \/ Class(limits, v) = 0
         \/ Class(limits, v) \in DOMAIN limits /\ v < limits[Class(limits, v)]
<1>1. CASE v <= 0 \/ v >= limits[1]
  <2>1. Class(limits, v) = 0
    BY <1>1, Zenon DEF Class
  <2> QED
    BY <2>1, Zenon
<1>2. CASE ~(v <= 0 \/ v >= limits[1])
  <2> DEFINE Fits(k) == v < limits[k] /\ (k < Len(limits) => v >= limits[k + 1])
             c == CHOOSE k \in DOMAIN limits : Fits(k)
  <2>1. \E k \in DOMAIN limits : Fits(k)
    BY <1>2
  <2>2. Class(limits, v) = c
    BY <1>2 DEF Class
  <2> HIDE DEF Fits
  <2>3. c \in DOMAIN limits /\ Fits(c)
    BY <2>1, Zenon
  <2> HIDE DEF c
  <2> QED
    BY <2>2, <2>3 DEF Fits
<1> QED
  BY <1>1, <1>2

\* createEnumHorizontalAccuracy().
LEMMA HorizontalClass ==
  ASSUME NEW v \in Int
  PROVE  LET k == Class(HorizontalLimits, v)
         IN  k \in 0 .. 12 /\ (k > 0 => v < HorizontalLimits[k])
<1> DEFINE L == HorizontalLimits
           Fits(k) == v < L[k] /\ (k < Len(L) => v >= L[k + 1])
           Known == \E k \in DOMAIN L : Fits(k)
<1>1. /\ Len(L) = 12 /\ DOMAIN L = 1 .. 12
      /\ L[1] = 185200 /\ L[2] = 74080 /\ L[3] = 37040 /\ L[4] = 18520 /\ L[5] = 9260 /\ L[6] = 5556
      /\ L[7] = 1852 /\ L[8] = 926 /\ L[9] = 300 /\ L[10] = 100 /\ L[11] = 30 /\ L[12] = 10
  BY DEF HorizontalLimits
<1> HIDE DEF L
<1>2. 74080 <= v /\ v < 185200 => Known
  BY <1>1
<1>3. 37040 <= v /\ v < 74080 => Known
  BY <1>1
<1>4. 18520 <= v /\ v < 37040 => Known
  BY <1>1
<1>5. 9260 <= v /\ v < 18520 => Known
  BY <1>1
<1>6. 5556 <= v /\ v < 9260 => Known
  BY <1>1
<1>7. 1852 <= v /\ v < 5556 => Known
  BY <1>1
<1>8. 926 <= v /\ v < 1852 => Known
  BY <1>1
<1>9. 300 <= v /\ v < 926 => Known
  BY <1>1
<1>10. 100 <= v /\ v < 300 => Known
  BY <1>1
<1>11. 30 <= v /\ v < 100 => Known
  BY <1>1
<1>12. 10 <= v /\ v < 30 => Known
  BY <1>1
<1>13. v < 10 => Known
  BY <1>1
<1> HIDE DEF Known
<1>14. v >= 185200 \/ Known
  BY <1>2, <1>3, <1>4, <1>5, <1>6, <1>7, <1>8, <1>9, <1>10, <1>11, <1>12, <1>13
<1>15. v <= 0 \/ v >= L[1] \/ Known
  BY <1>1, <1>14
<1>16. \/ Class(L, v) = 0
       \/ Class(L, v) \in DOMAIN L /\ v < L[Class(L, v)]
  BY <1>15, ClassTaken, Zenon DEF Known
<1> QED
  BY <1>1, <1>16 DEF L

\* createEnumVerticalAccuracy().
LEMMA VerticalClass ==
  ASSUME NEW v \in Int
  PROVE  LET k == Class(VerticalLimits, v)
         IN  k \in 0 .. 6 /\ (k > 0 => v < VerticalLimits[k])
<1> DEFINE L == VerticalLimits
           Fits(k) == v < L[k] /\ (k < Len(L) => v >= L[k + 1])
           Known == \E k \in DOMAIN L : Fits(k)
<1>1. /\ Len(L) = 6 /\ DOMAIN L = 1 .. 6
      /\ L[1] = 1500 /\ L[2] = 450 /\ L[3] = 250 /\ L[4] = 100 /\ L[5] = 30 /\ L[6] = 10
  BY DEF VerticalLimits
<1> HIDE DEF L
<1>2. 450 <= v /\ v < 1500 => Known
  BY <1>1
<1>3. 250 <= v /\ v < 450 => Known
  BY <1>1
<1>4. 100 <= v /\ v < 250 => Known
  BY <1>1
<1>5. 30 <= v /\ v < 100 => Known
  BY <1>1
<1>6. 10 <= v /\ v < 30 => Known
  BY <1>1
<1>7. v < 10 => Known
  BY <1>1
<1> HIDE DEF Known
<1>8. v >= 1500 \/ Known
  BY <1>2, <1>3, <1>4, <1>5, <1>6, <1>7
<1>9. v <= 0 \/ v >= L[1] \/ Known
  BY <1>1, <1>8
<1>10. \/ Class(L, v) = 0
       \/ Class(L, v) \in DOMAIN L /\ v < L[Class(L, v)]
  BY <1>9, ClassTaken, Zenon DEF Known
<1> QED
  BY <1>1, <1>10 DEF L

\* createEnumSpeedAccuracy().
LEMMA SpeedClass ==
  ASSUME NEW v \in Int
  PROVE  LET k == Class(SpeedLimits, v)
         IN  k \in 0 .. 4 /\ (k > 0 => v < SpeedLimits[k])
<1> DEFINE L == SpeedLimits
           Fits(k) == v < L[k] /\ (k < Len(L) => v >= L[k + 1])
           Known == \E k \in DOMAIN L : Fits(k)
<1>1. /\ Len(L) = 4 /\ DOMAIN L = 1 .. 4
      /\ L[1] = 100 /\ L[2] = 30 /\ L[3] = 10 /\ L[4] = 3
  BY DEF SpeedLimits
<1> HIDE DEF L
<1>2. 30 <= v /\ v < 100 => Known
  BY <1>1
<1>3. 10 <= v /\ v < 30 => Known
  BY <1>1
<1>4. 3 <= v /\ v < 10 => Known
  BY <1>1
<1>5. v < 3 => Known
  BY <1>1
<1> HIDE DEF Known
<1>6. v >= 100 \/ Known
  BY <1>2, <1>3, <1>4, <1>5
<1>7. v <= 0 \/ v >= L[1] \/ Known
  BY <1>1, <1>6
<1>8. \/ Class(L, v) = 0
      \/ Class(L, v) \in DOMAIN L /\ v < L[Class(L, v)]
  BY <1>7, ClassTaken, Zenon DEF Known
<1> QED
  BY <1>1, <1>8 DEF L

\* createEnumTimestampAccuracy().
LEMMA TimeClass ==
  ASSUME NEW v \in Int
  PROVE  LET k == createEnumTimestampAccuracy(v)
         IN  k \in 0 .. 15 /\ (k > 0 => v <= 10 * k)
BY SMT DEF createEnumTimestampAccuracy

\* The vertical speed in its signed octet.
LEMMA SpeedVerticalCode ==
  ASSUME NEW v \in Int
  PROVE  encodeSpeedVertical(v).flag = 0 /\ encodeSpeedVertical(v).code \in -128 .. 127
BY SMT DEF encodeSpeedVertical, Octets, intRangeMax

\* What the other encoders put into their octets.
LEMMA CodesInRange ==
  ASSUME NEW v \in Int
  PROVE  /\ encodeDirection(v).flag \in {0, 1} /\ encodeDirection(v).code \in 0 .. 255
         /\ InRange("speedH", v) =>
              /\ encodeSpeedHorizontal(v).flag \in {0, 1}
              /\ encodeSpeedHorizontal(v).code \in 0 .. 255
         /\ encodeAltitude(v).flag = 0 /\ encodeAltitude(v).code \in 0 .. UINT16_MAX
         /\ encodeTimeStamp(v).flag = 0 /\ encodeTimeStamp(v).code \in 0 .. UINT16_MAX
         /\ encodeAreaRadius(v).flag = 0 /\ encodeAreaRadius(v).code \in 0 .. 255
<1> USE DEF Octets, intRangeMax
<1>1. encodeDirection(v).flag \in {0, 1} /\ encodeDirection(v).code \in 0 .. 255
  BY SMT DEF encodeDirection
<1>2. InRange("speedH", v) =>
        /\ encodeSpeedHorizontal(v).flag \in {0, 1}
        /\ encodeSpeedHorizontal(v).code \in 0 .. 255
  BY SMT DEF encodeSpeedHorizontal, InRange, MAX_SPEED_H, INV_SPEED_H
<1>3. UINT16_MAX \in Nat /\ UINT16_MAX >= 36000
  BY DEF UINT16_MAX
<1>4. encodeAltitude(v).flag = 0 /\ encodeAltitude(v).code \in 0 .. UINT16_MAX
  BY <1>3, SMT DEF encodeAltitude
<1>5. encodeTimeStamp(v).flag = 0 /\ encodeTimeStamp(v).code \in 0 .. UINT16_MAX
  BY <1>3, SMT DEF encodeTimeStamp
<1>6. encodeAreaRadius(v).flag = 0 /\ encodeAreaRadius(v).code \in 0 .. 255
  BY SMT DEF encodeAreaRadius
<1> QED
  BY <1>1, <1>2, <1>3, <1>4, <1>5, <1>6

-----------------------------------------------------------------------------
(***************************************************************************)
(* The invariant.                                                          *)
(***************************************************************************)
\* It holds at the start.
LEMMA InitInv == Init => Inv
<1> SUFFICES ASSUME Init PROVE Inv
  OBVIOUS
<1>1. field \in Fields /\ value \in Int /\ pc = "filled"
  BY CodecAssumption DEF CodecAssumption, Init
<1> QED
  BY <1>1 DEF Inv

\* Every step keeps it.
LEMMA NextInv == Inv /\ [Next]_vars => Inv'
<1> SUFFICES ASSUME Inv, [Next]_vars PROVE Inv'
  OBVIOUS
<1> USE DEF Inv
<1>1. CASE EncodeMessage
  BY <1>1, Zenon DEF EncodeMessage
<1>2. CASE Refuse
  BY <1>2, Zenon DEF Refuse
<1>3. CASE DecodeMessage
  BY <1>3, Zenon DEF DecodeMessage
<1>4. CASE UNCHANGED vars
  BY <1>4, Zenon DEF vars
<1> QED
  BY <1>1, <1>2, <1>3, <1>4 DEF Next

\* The invariant holds in every reachable state.
THEOREM Invariance == Spec => []Inv
  BY InitInv, NextInv, PTL DEF Spec

\* Every in-range value comes back with less than a step of error, for all
\* values of the fields.
THEOREM ErrorBelowOneStep == Spec => []QuantisationError
<1>1. Inv => QuantisationError
  <2>1. SUFFICES ASSUME Inv, pc = "shown"
                 PROVE  QuantisationError
    BY DEF QuantisationError
  <2>2. /\ field \in Fields /\ value \in Int
        /\ InRange(field, value)
        /\ shown = Decode(field, Encode(field, value))
    BY <2>1 DEF Inv
  <2>3. CASE field = "direction"
    BY <2>2, <2>3, DirectionTrip DEF QuantisationError, InRange, Decode, Encode
  <2>4. CASE field = "speedH"
    BY <2>2, <2>4, SpeedHorizontalTrip DEF QuantisationError, InRange, Decode, Encode
  <2>5. CASE field = "speedV"
    BY <2>2, <2>5, SpeedVerticalTrip DEF QuantisationError, InRange, Decode, Encode
  <2>6. CASE field = "altitude"
    BY <2>2, <2>6, AltitudeTrip DEF QuantisationError, InRange, Decode, Encode
  <2>7. CASE field = "timestamp"
    BY <2>2, <2>7, TimeStampTrip DEF QuantisationError, InRange, Decode, Encode
  <2>8. CASE field = "radius"
    BY <2>2, <2>8, AreaRadiusTrip DEF QuantisationError, InRange, Decode, Encode
  <2>9. CASE field \in Accuracies
    BY <2>9 DEF QuantisationError, Accuracies
  <2> QED
    BY <2>2, <2>3, <2>4, <2>5, <2>6, <2>7, <2>8, <2>9 DEF Fields, Measures
<1> QED
  BY <1>1, Invariance, PTL

\* Unknown values are shown as unknown and no other value is.
THEOREM MarkersSurvive == Spec => []InvalidIsKept
<1>1. Inv => InvalidIsKept
  <2>1. SUFFICES ASSUME Inv, pc = "shown"
                 PROVE  InvalidIsKept
    BY DEF InvalidIsKept
  <2>2. /\ value \in Int
        /\ InRange(field, value)
        /\ shown = Decode(field, Encode(field, value))
    BY <2>1 DEF Inv
  <2>3. field = "direction" => (shown = INV_DIR <=> value = INV_DIR)
    BY <2>2, DirectionTrip DEF InRange, Decode, Encode
  <2>4. field = "speedH" => (shown = INV_SPEED_H <=> value = INV_SPEED_H)
    BY <2>2, SpeedHorizontalTrip DEF InRange, Decode, Encode
  <2>5. field = "speedV" => (shown = INV_SPEED_V <=> value = INV_SPEED_V)
    BY <2>2, SpeedVerticalTrip DEF InRange, Decode, Encode
  <2>6. field = "timestamp" => (shown = INV_TIMESTAMP <=> value = INV_TIMESTAMP)
    BY <2>2, TimeStampTrip DEF InRange, Decode, Encode
  <2> QED
    BY <2>3, <2>4, <2>5, <2>6 DEF InvalidIsKept
<1> QED
  BY <1>1, Invariance, PTL

\* Order is kept over the whole range of every field but the circular one.
THEOREM OrderSurvives == Spec => []OrderKept
<1>1. Inv => OrderKept
  <2>1. SUFFICES ASSUME Inv, pc = "shown", field \in Measures \ {"direction"},
                        InRange(field, value + 1)
                 PROVE  shown <= Decode(field, Encode(field, value + 1))
    BY DEF OrderKept
  <2>2. /\ value \in Int
        /\ InRange(field, value)
        /\ shown = Decode(field, Encode(field, value))
    BY <2>1 DEF Inv
  <2>3. CASE field = "speedH"
    <3>1. 0 <= value /\ value <= INV_SPEED_H - 1
      BY <2>1, <2>2, <2>3, SMT DEF InRange, MAX_SPEED_H, INV_SPEED_H
    <3> QED
      BY <2>2, <2>3, <3>1, OrderTrip DEF Decode, Encode
  <2>4. CASE field = "speedV"
    <3>1. MIN_SPEED_V <= value /\ value <= INV_SPEED_V - 1
      BY <2>1, <2>2, <2>4, SMT DEF InRange, MIN_SPEED_V, MAX_SPEED_V, INV_SPEED_V
    <3> QED
      BY <2>2, <2>4, <3>1, OrderTrip DEF Decode, Encode
  <2>5. CASE field = "altitude"
    <3>1. MIN_ALT <= value /\ value <= MAX_ALT - 1
      BY <2>1, <2>2, <2>5, SMT DEF InRange, MIN_ALT, MAX_ALT
    <3> QED
      BY <2>2, <2>5, <3>1, OrderTrip DEF Decode, Encode
  <2>6. CASE field = "timestamp"
    <3>1. 0 <= value /\ value <= MAX_TIMESTAMP - 1
      BY <2>1, <2>2, <2>6, SMT DEF InRange, MAX_TIMESTAMP, INV_TIMESTAMP
    <3> QED
      BY <2>2, <2>6, <3>1, OrderTrip DEF Decode, Encode
  <2>7. CASE field = "radius"
    <3>1. 0 <= value /\ value <= MAX_AREA_RADIUS - 1
      BY <2>1, <2>2, <2>7, SMT DEF InRange, MAX_AREA_RADIUS
    <3> QED
      BY <2>2, <2>7, <3>1, OrderTrip DEF Decode, Encode
  <2> QED
    BY <2>1, <2>3, <2>4, <2>5, <2>6, <2>7 DEF Measures
<1> QED
  BY <1>1, Invariance, PTL

\* No encoder writes more than the octets of its field hold, for every value
\* that passes the range checks.
THEOREM NoOctetOverflows == Spec => []OctetsFit
<1>1. Inv => OctetsFit
  <2>1. SUFFICES ASSUME Inv, pc \in {"sent", "shown"}
                 PROVE  OctetsFit
    BY DEF OctetsFit
  <2>2. /\ field \in Fields /\ value \in Int
        /\ InRange(field, value)
        /\ octets = Encode(field, value)
    BY <2>1 DEF Inv
  <2>3. CASE field = "direction"
    BY <2>2, <2>3, CodesInRange DEF OctetsFit, Encode, Accuracies
  <2>4. CASE field = "speedH"
    BY <2>2, <2>4, CodesInRange DEF OctetsFit, Encode, Accuracies
  <2>5. CASE field = "speedV"
    <3>1. octets = encodeSpeedVertical(value)
      BY <2>2, <2>5 DEF Encode
    <3>2. octets.flag = 0 /\ octets.code \in -128 .. 127
      BY <2>2, <3>1, SpeedVerticalCode
    <3> QED
      BY <2>5, <3>2 DEF OctetsFit, Accuracies
  <2>6. CASE field = "altitude"
    <3>1. octets = encodeAltitude(value)
      BY <2>2, <2>6 DEF Encode
    <3>2. octets.flag = 0 /\ octets.code \in 0 .. UINT16_MAX
      BY <2>2, <3>1, CodesInRange, Zenon
    <3> QED
      BY <2>6, <3>2 DEF OctetsFit, Accuracies
  <2>7. CASE field = "timestamp"
    <3>1. octets = encodeTimeStamp(value)
      BY <2>2, <2>7 DEF Encode
    <3>2. octets.flag = 0 /\ octets.code \in 0 .. UINT16_MAX
      BY <2>2, <3>1, CodesInRange, Zenon
    <3> QED
      BY <2>7, <3>2 DEF OctetsFit, Accuracies
  <2>8. CASE field = "radius"
    BY <2>2, <2>8, CodesInRange DEF OctetsFit, Encode, Accuracies
  <2>9. CASE field \in Accuracies
    <3>1. \/ octets = Octets(Class(HorizontalLimits, value), 0)
          \/ octets = Octets(Class(VerticalLimits, value), 0)
          \/ octets = Octets(Class(SpeedLimits, value), 0)
          \/ octets = Octets(createEnumTimestampAccuracy(value), 0)
      BY <2>2, <2>9 DEF Encode, Accuracies
    <3>2. /\ Class(HorizontalLimits, value) \in 0 .. 15
          /\ Class(VerticalLimits, value) \in 0 .. 15
          /\ Class(SpeedLimits, value) \in 0 .. 15
          /\ createEnumTimestampAccuracy(value) \in 0 .. 15
      <4>1. Class(HorizontalLimits, value) \in 0 .. 12
        BY <2>2, HorizontalClass
      <4>2. Class(VerticalLimits, value) \in 0 .. 6
        BY <2>2, VerticalClass
      <4>3. Class(SpeedLimits, value) \in 0 .. 4
        BY <2>2, SpeedClass
      <4>4. createEnumTimestampAccuracy(value) \in 0 .. 15
        BY <2>2, TimeClass
      <4> QED
        BY <4>1, <4>2, <4>3, <4>4
    <3>3. octets.flag = 0 /\ octets.code \in 0 .. 15
      BY <3>1, <3>2 DEF Octets
    <3> QED
      BY <2>9, <3>3 DEF OctetsFit, Accuracies
  <2> QED
    BY <2>2, <2>3, <2>4, <2>5, <2>6, <2>7, <2>8, <2>9 DEF Fields, Measures
<1> QED
  BY <1>1, Invariance, PTL

\* No accuracy comes out better than it went in: each class is shown as the
\* limit its values stay below.
THEOREM ClassesAreHonest == Spec => []AccuracyNotOverstated
<1>1. Inv => AccuracyNotOverstated
  <2>1. SUFFICES ASSUME Inv, pc = "shown", field \in Accuracies, octets.code # 0
                 PROVE  shown >= value
    BY DEF AccuracyNotOverstated
  <2>2. /\ value \in Int
        /\ octets = Encode(field, value)
        /\ shown = Decode(field, octets)
    BY <2>1 DEF Inv
  <2>3. CASE field = "horizontal"
    <3> DEFINE k == Class(HorizontalLimits, value)
    <3>1. octets.code = k /\ shown = decodeHorizontalAccuracy(octets.code)
      BY <2>2, <2>3 DEF Encode, Decode, Octets
    <3>2. k \in 1 .. 12 /\ value < HorizontalLimits[k]
      BY <2>1, <2>2, <3>1, HorizontalClass
    <3> HIDE DEF k
    <3>3. HorizontalLimits[k] \in Int /\ HorizontalLimits[2] = 74080
      BY <3>2 DEF HorizontalLimits
    <3>4. shown = IF k = 2 THEN 78080 ELSE HorizontalLimits[k]
      BY <3>1, <3>2 DEF decodeHorizontalAccuracy, decodeAccuracy
    <3> QED
      BY <2>2, <3>2, <3>3, <3>4
  <2>4. CASE field = "vertical"
    <3> DEFINE k == Class(VerticalLimits, value)
    <3>1. octets.code = k /\ shown = decodeAccuracy(VerticalLimits, octets.code)
      BY <2>2, <2>4 DEF Encode, Decode, Octets
    <3>2. k \in 1 .. 6 /\ value < VerticalLimits[k]
      BY <2>1, <2>2, <3>1, VerticalClass
    <3> HIDE DEF k
    <3>3. VerticalLimits[k] \in Int
      BY <3>2 DEF VerticalLimits
    <3>4. shown = VerticalLimits[k]
      BY <3>1, <3>2 DEF decodeAccuracy
    <3> QED
      BY <2>2, <3>2, <3>3, <3>4
  <2>5. CASE field = "speed"
    <3> DEFINE k == Class(SpeedLimits, value)
    <3>1. octets.code = k /\ shown = decodeAccuracy(SpeedLimits, octets.code)
      BY <2>2, <2>5 DEF Encode, Decode, Octets
    <3>2. k \in 1 .. 4 /\ value < SpeedLimits[k]
      BY <2>1, <2>2, <3>1, SpeedClass
    <3> HIDE DEF k
    <3>3. SpeedLimits[k] \in Int
      BY <3>2 DEF SpeedLimits
    <3>4. shown = SpeedLimits[k]
      BY <3>1, <3>2 DEF decodeAccuracy
    <3> QED
      BY <2>2, <3>2, <3>3, <3>4
  <2>6. CASE field = "time"
    <3>1. /\ octets.code = createEnumTimestampAccuracy(value)
          /\ shown = 10 * octets.code
      BY <2>2, <2>6 DEF Encode, Decode, Octets, decodeTimestampAccuracy
    <3> QED
      BY <2>1, <2>2, <3>1, TimeClass
  <2> QED
    BY <2>1, <2>3, <2>4, <2>5, <2>6 DEF Accuracies
<1> QED
  BY <1>1, Invariance, PTL
=============================================================================
