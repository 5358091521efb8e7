--------------------------- MODULE OdidPackProofs ---------------------------
(***************************************************************************)
(* Proofs about OdidPack: for every list of messages that begins with two  *)
(* Basic IDs and the Location, and for all frames of other devices.        *)
(***************************************************************************)
EXTENDS OdidPack, FiniteSetTheorems, TLAPS

\* While create_message_pack() runs: every message but the Location is in its
\* place, and where the Location failed stands a copy of the second Basic ID.
PackInv ==
  app = "transmit" /\ spc = "encode" =>
    /\ entries = Transmit
    /\ Len(messages) <= Len(Transmit)
    /\ \A j \in 1 .. Len(messages) :
         \/ KindOf(messages[j]) = Transmit[j]
         \/ j = 3 /\ messages[3].type = BASIC_ID
    /\ Len(messages) = 2 => scratch.type = BASIC_ID

\* UAS_data holds messages of the frame at hand only.
Held == \A s \in Slots :
          uas[s] = Invalid \/ \E j \in 1 .. Len(frame.msgs) : uas[s] = frame.msgs[j]

\* When that is known: while a pack is decoded, and whenever UAS_data can still
\* reach parse_odid().
HeldInv ==
  \/ rpc \in {"decode", "parsed"}
  \/ rpc = "process" /\ frame.via = "beacon"
  \/ rpc = "processed" /\ (frame.via = "beacon" \/ result)
  => Held

\* The slots that a message may be decoded into.
Home(m) == { s \in Slots : s[1] = m.type /\ (m.type = AUTH => s[2] = m.sub) }

\* None of the first n messages takes the place of the j-th.
Stays(msgs, j, n) ==
  /\ msgs[j].sound
  /\ msgs[j].type = BASIC_ID => msgs[j].sub # ODID_IDTYPE_NONE
  /\ \A k \in j + 1 .. n :
       msgs[k].type = msgs[j].type
         => msgs[j].type \in {BASIC_ID, AUTH} /\ msgs[k].sub # msgs[j].sub

IdType(d, b) == d[<<BASIC_ID, b>>].sub

\* What d holds once n messages have been decoded into it: none is lost; each
\* ID type comes from a message; and the two slots for Basic IDs are filled in
\* their order, with different types.
Decoded(d, msgs, n) ==
  /\ \A j \in 1 .. n : Stays(msgs, j, n) => \E s \in Home(msgs[j]) : d[s] = msgs[j]
  /\ \A b \in {0, 1} : IdType(d, b) # ODID_IDTYPE_NONE =>
       \E j \in 1 .. n : msgs[j].type = BASIC_ID /\ d[<<BASIC_ID, b>>] = msgs[j]
  /\ IdType(d, 1) # ODID_IDTYPE_NONE =>
       IdType(d, 0) # ODID_IDTYPE_NONE /\ IdType(d, 0) # IdType(d, 1)

\* Of a pack that passed checkPackContent(), the messages before the i-th have
\* been decoded; of one that was processed with success, all have.
LossInv ==
  /\ rpc = "decode" =>
       /\ checkPackContent(frame.msgs)
       /\ i <= Len(frame.msgs) + 1
       /\ Decoded(uas, frame.msgs, i - 1)
  /\ rpc \in {"processed", "parsed"} /\ result =>
       Decoded(uas, frame.msgs, Len(frame.msgs))

Inv == TypeOK /\ PackInv /\ AllOrNothing /\ HeldInv /\ LossInv

-----------------------------------------------------------------------------
(***************************************************************************)
(* Facts about the operators.                                              *)
(***************************************************************************)

\* Constants used as values are what they seem.
LEMMA InvalidIsMessage == Invalid \in Message /\ ZeroMessage \in Message
  BY DEF Invalid, ZeroMessage, Message, Nibble, PACKED, BASIC_ID

\* UAS_data after odid_initUasData().
LEMMA ClearedType == Cleared \in [Slots -> Message]
  BY InvalidIsMessage DEF Cleared

\* A pack_enc that was never filled.
LEMMA ZeroPackType == ZeroPack \in Frame
  BY DEF ZeroPack, Frame

\* decodeOpenDroneID() writes the message it was given or leaves a slot alone.
LEMMA DecodeWrites ==
  ASSUME NEW d \in [Slots -> Message], NEW m \in Message
  PROVE  /\ decodeOpenDroneID(d, m) \in [Slots -> Message]
         /\ \A s \in Slots : decodeOpenDroneID(d, m)[s] \in {d[s], m}
<1>1. CASE decodeOpenDroneID(d, m) = d
  BY <1>1
<1>2. CASE \E x : decodeOpenDroneID(d, m) = [d EXCEPT ![x] = m]
  <2>1. PICK x : decodeOpenDroneID(d, m) = [d EXCEPT ![x] = m]
    BY <1>2
  <2>2. [d EXCEPT ![x] = m] \in [Slots -> Message]
    OBVIOUS
  <2>3. \A s \in Slots : [d EXCEPT ![x] = m][s] \in {d[s], m}
    OBVIOUS
  <2> QED
    BY <2>1, <2>2, <2>3
<1> QED
  BY <1>1, <1>2 DEF decodeOpenDroneID

\* A list one short of three has two elements.
LEMMA LengthTwo ==
  ASSUME NEW msgs \in Seq(Message), Len(msgs) + 1 = 3
  PROVE  Len(msgs) = 2
<1>1. PICK n \in Nat : Len(msgs) = n
  OBVIOUS
<1>2. n = 2
  BY <1>1
<1> QED
  BY <1>1, <1>2

\* checkPackContent() bounds the length of a pack.
LEMMA CheckedLength ==
  ASSUME NEW msgs \in Seq(Message), checkPackContent(msgs)
  PROVE  Len(msgs) <= ODID_PACK_MAX_MESSAGES
<1>1. Len(msgs) \in 1 .. ODID_PACK_MAX_MESSAGES
  BY Zenon DEF checkPackContent
<1>2. PICK n \in Nat : Len(msgs) = n
  OBVIOUS
<1>3. n \in 1 .. 9
  BY <1>1, <1>2, Zenon DEF ODID_PACK_MAX_MESSAGES
<1>4. n <= 9
  BY <1>3, SMT
<1> QED
  BY <1>2, <1>4, Zenon DEF ODID_PACK_MAX_MESSAGES

\* checkPackContent() refuses three Basic IDs, wherever they stand.
LEMMA ThreeBasicIDsRefused ==
  ASSUME NEW msgs \in Seq(Message),
         NEW j \in DOMAIN msgs, NEW k \in DOMAIN msgs, NEW l \in DOMAIN msgs,
         j # k, j # l, k # l,
         msgs[j].type = BASIC_ID, msgs[k].type = BASIC_ID, msgs[l].type = BASIC_ID
  PROVE  ~checkPackContent(msgs)
<1> DEFINE B == { n \in DOMAIN msgs : msgs[n].type = BASIC_ID }
<1>1. IsFiniteSet(1 .. Len(msgs)) /\ DOMAIN msgs = 1 .. Len(msgs)
  BY FS_Interval
<1>2. IsFiniteSet(B)
  BY <1>1, FS_Subset
<1> DEFINE T1 == {j}
           T2 == T1 \cup {k}
           T3 == T2 \cup {l}
<1>3. T3 \in SUBSET B /\ k \notin T1 /\ l \notin T2
  OBVIOUS
<1>4. IsFiniteSet(T1) /\ Cardinality(T1) = 1
  BY FS_Singleton, Zenon
<1> HIDE DEF B, T1
<1>5. IsFiniteSet(T2) /\ Cardinality(T2) = 2
  <2>1. IsFiniteSet(T2) /\ Cardinality(T2) = Cardinality(T1) + 1
    BY <1>3, <1>4, FS_AddElement, Zenon
  <2> QED
    BY <1>4, <2>1
<1> HIDE DEF T2
<1>6. Cardinality(T3) = 3
  <2>1. Cardinality(T3) = Cardinality(T2) + 1
    BY <1>3, <1>5, FS_AddElement, Zenon
  <2> QED
    BY <1>5, <2>1
<1> HIDE DEF T3
<1>7. Cardinality(T3) <= Cardinality(B) /\ Cardinality(B) \in Nat
  BY <1>2, <1>3, FS_Subset, FS_CardinalityType
<1>8. Count(msgs, BASIC_ID) = Cardinality(B)
  BY DEF Count, B
<1>9. ~(Count(msgs, BASIC_ID) <= 2)
  BY <1>6, <1>7, <1>8
<1> QED
  BY <1>9 DEF checkPackContent, ODID_BASIC_ID_MAX_MESSAGES

-----------------------------------------------------------------------------
(***************************************************************************)
(* The invariant.                                                          *)
(***************************************************************************)

\* An encoder writes a message of its entry's kind.
LEMMA EncodedKind ==
  ASSUME NEW e \in Kind, loc.fix \in Nat
  PROVE  Encoded(e) \in Message /\ KindOf(Encoded(e)) = e
BY DEF Encoded, Message, Kind, KindOf, Nibble

\* What encodeMessagePack() writes.
LEMMA PackedType ==
  ASSUME messages \in Seq(Message), NEW via \in {"beacon", "nan"}
  PROVE  Packed(via) \in Frame /\ Packed(via).msgs = messages
BY DEF Packed, Frame

\* The invariant holds at the start.
LEMMA InitInv == Init => Inv
<1> SUFFICES ASSUME Init PROVE Inv
  OBVIOUS
<1> USE PackAssumption DEF Init
<1>1. ZeroPack.msgs = <<>> /\ Len(ZeroPack.msgs) = 0
  BY DEF ZeroPack
<1>2. loc \in [fix : 0 .. MaxFix, inRange : BOOLEAN]
  BY DEF PackAssumption
<1>3. /\ entries \in Seq(Kind) /\ messages \in Seq(Message)
      /\ Len(messages) <= ODID_PACK_MAX_MESSAGES
  BY DEF ODID_PACK_MAX_MESSAGES
<1>4. air \in Frame /\ Len(air.msgs) <= ODID_PACK_MAX_MESSAGES /\ frame \in Frame
  BY <1>1, ZeroPackType DEF ODID_PACK_MAX_MESSAGES
<1>5. scratch \in Message /\ uas \in [Slots -> Message]
  BY ClearedType, InvalidIsMessage
<1>6. result \in BOOLEAN
  BY Zenon
<1>7. TypeOK
  BY <1>2, <1>3, <1>4, <1>5, <1>6 DEF TypeOK
<1> QED
  BY <1>7 DEF Inv, PackInv, AllOrNothing, HeldInv, LossInv

\* transmit.c writes no more messages than Transmit has.
LEMMA RoomToEncode ==
  ASSUME TypeOK, PackInv, spc = "encode", Len(messages) < Len(entries),
         app = "library" => Len(messages) < ODID_PACK_MAX_MESSAGES
  PROVE  Len(messages) < ODID_PACK_MAX_MESSAGES
<1>1. CASE app = "library"
  BY <1>1
<1>2. CASE app = "transmit"
  <2>1. Len(messages) < Len(Transmit)
    BY <1>2 DEF PackInv
  <2>2. Len(Transmit) <= ODID_PACK_MAX_MESSAGES
    BY TransmitAssumption DEF TransmitAssumption
  <2>3. PICK n \in Nat : n = Len(Transmit)
    BY PackAssumption DEF PackAssumption
  <2>4. PICK k \in Nat : k = Len(messages)
    BY DEF TypeOK
  <2> QED BY <2>1, <2>2, <2>3, <2>4 DEF ODID_PACK_MAX_MESSAGES
<1> QED BY <1>1, <1>2 DEF TypeOK

\* A message is appended where there is room for one.
LEMMA AppendFits ==
  ASSUME NEW msgs \in Seq(Message), NEW m \in Message, Len(msgs) < ODID_PACK_MAX_MESSAGES
  PROVE  Append(msgs, m) \in Seq(Message) /\ Len(Append(msgs, m)) <= ODID_PACK_MAX_MESSAGES
BY DEF ODID_PACK_MAX_MESSAGES

\* Steps of the transmitter keep the types.
LEMMA TransmitterType ==
  ASSUME TypeOK, PackInv, Transmitter
  PROVE  TypeOK'
<1> USE PackAssumption DEF PackAssumption, TypeOK
<1>0. loc.fix \in Nat
  OBVIOUS
<1>1. CASE NewFix
  <2>1. loc' \in [fix : 0 .. MaxFix, inRange : BOOLEAN]
    BY <1>1 DEF NewFix
  <2> QED
    BY <1>1, <2>1 DEF NewFix, txVars, rxVars
<1>2. CASE CreatePack
  <2>1. messages' \in Seq(Message) /\ Len(messages') <= ODID_PACK_MAX_MESSAGES
    BY <1>2 DEF CreatePack, ODID_PACK_MAX_MESSAGES
  <2> QED
    BY <1>2, <2>1, InvalidIsMessage DEF CreatePack, rxVars
<1>3. CASE BuildPack
  <2>1. messages' \in Seq(Message) /\ Len(messages') <= ODID_PACK_MAX_MESSAGES
    BY <1>3 DEF BuildPack, ODID_PACK_MAX_MESSAGES
  <2> QED
    BY <1>3, <2>1 DEF BuildPack, rxVars
<1>4. CASE EncodeNext
  <2>1. Entry \in Kind
    BY <1>4 DEF EncodeNext, Entry
  <2>2. Encoded(Entry) \in Message
    BY <1>0, <2>1, EncodedKind
  <2>3. Len(messages) < ODID_PACK_MAX_MESSAGES
    BY <1>4, RoomToEncode DEF EncodeNext
  <2>4. messages' \in Seq(Message) /\ Len(messages') <= ODID_PACK_MAX_MESSAGES
    BY <1>4, <2>2, <2>3, AppendFits DEF EncodeNext
  <2> QED
    BY <1>4, <2>2, <2>4 DEF EncodeNext, rxVars
<1>5. CASE EncodeFails
  <2>1. Len(messages) < ODID_PACK_MAX_MESSAGES
    BY <1>5, RoomToEncode DEF EncodeFails
  <2>2. messages' \in Seq(Message) /\ Len(messages') <= ODID_PACK_MAX_MESSAGES
    BY <1>5, <2>1, AppendFits DEF EncodeFails
  <2> QED
    BY <1>5, <2>2 DEF EncodeFails, rxVars
<1>6. CASE \E m \in Junk : EncodeLeavesJunk(m)
  <2>1. messages' \in Seq(Message) /\ Len(messages') <= ODID_PACK_MAX_MESSAGES
    BY <1>6, AppendFits DEF EncodeLeavesJunk
  <2> QED
    BY <1>6, <2>1 DEF EncodeLeavesJunk, rxVars
<1>7. CASE BuildFails
  BY <1>7 DEF BuildFails, rxVars
<1>8. CASE FinishPack
  <2>1. checkPackContent(messages) => Len(messages) <= ODID_PACK_MAX_MESSAGES
    BY CheckedLength
  <2>2. ZeroPack \in Frame /\ Len(ZeroPack.msgs) <= ODID_PACK_MAX_MESSAGES
    BY ZeroPackType DEF ZeroPack, ODID_PACK_MAX_MESSAGES
  <2>3. air' \in Frame /\ Len(air'.msgs) <= ODID_PACK_MAX_MESSAGES
    BY <1>8, <2>1, <2>2, PackedType DEF FinishPack
  <2> QED
    BY <1>8, <2>3 DEF FinishPack, rxVars
<1> QED
  BY <1>1, <1>2, <1>3, <1>4, <1>5, <1>6, <1>7, <1>8 DEF Transmitter

\* Steps of the radar keep the types.
LEMMA RadarType ==
  ASSUME TypeOK, Radar
  PROVE  TypeOK'
<1> USE PackAssumption, ClearedType DEF PackAssumption, TypeOK
<1>1. CASE \E f \in Foreign \cup {air} : Hear(f)
  BY <1>1 DEF Hear, txVars
<1>2. CASE TooShort
  BY <1>2 DEF TooShort, txVars
<1>3. CASE StartDecode
  <2>1. rpc' \in {"decode", "processed"} /\ result' \in BOOLEAN
    BY <1>3, Zenon DEF StartDecode
  <2> QED
    BY <1>3, <2>1 DEF StartDecode, txVars
<1>4. CASE DecodeNext
  <2>1. frame.msgs \in Seq(Message) /\ frame.msgs[i] \in Message
    BY <1>4 DEF DecodeNext, Frame
  <2>2. uas' \in [Slots -> Message]
    BY <1>4, <2>1, DecodeWrites DEF DecodeNext
  <2> QED
    BY <1>4, <2>2 DEF DecodeNext, txVars
<1>5. CASE DecodeDone
  BY <1>5 DEF DecodeDone, txVars
<1>6. CASE ProcessAgain
  BY <1>6 DEF ProcessAgain, txVars
<1>7. CASE Parse \/ Ignore \/ Return
  BY <1>7 DEF Parse, Ignore, Return, txVars
<1> QED
  BY <1>1, <1>2, <1>3, <1>4, <1>5, <1>6, <1>7 DEF Radar

\* What create_message_pack() has copied so far, and what it lets on the air.
LEMMA PackNext ==
  ASSUME TypeOK, PackInv, AllOrNothing, Next
  PROVE  PackInv' /\ AllOrNothing'
<1> USE PackAssumption, TransmitAssumption
    DEF PackAssumption, TransmitAssumption, TypeOK, PackInv, AllOrNothing
<1>0. loc.fix \in Nat
  OBVIOUS
<1>1. CASE NewFix \/ BuildFails
  BY <1>1 DEF NewFix, BuildFails, txVars
<1>2. CASE CreatePack
  BY <1>2 DEF CreatePack
<1>3. CASE BuildPack
  BY <1>3 DEF BuildPack
<1>4. CASE EncodeNext
  <2>1. SUFFICES ASSUME app = "transmit" PROVE PackInv'
    BY <1>4 DEF EncodeNext
  <2>2. Entry \in Kind /\ Entry = Transmit[Len(messages) + 1]
    BY <1>4, <2>1 DEF EncodeNext, Entry
  <2>3. Encoded(Entry) \in Message /\ KindOf(Encoded(Entry)) = Entry
    BY <1>0, <2>2, EncodedKind
  <2>4. Encoded(Entry).type = Entry.type
    BY DEF Encoded
  <2>5. /\ messages' = Append(messages, Encoded(Entry))
        /\ scratch' = Encoded(Entry)
        /\ UNCHANGED <<app, spc, entries>>
    BY <1>4, <2>1 DEF EncodeNext
  <2>6. Len(messages) < Len(Transmit)
    BY <1>4, <2>1 DEF EncodeNext
  <2>7. \A j \in 1 .. Len(messages') :
          \/ KindOf(messages'[j]) = Transmit[j]
          \/ j = 3 /\ messages'[3].type = BASIC_ID
    BY <1>4, <2>1, <2>2, <2>3, <2>5 DEF EncodeNext
  <2>8. Len(messages') = 2 => scratch'.type = BASIC_ID
    BY <2>2, <2>4, <2>5
  <2> QED
    BY <1>4, <2>1, <2>5, <2>6, <2>7, <2>8 DEF EncodeNext
<1>5. CASE EncodeFails
  <2>1. Entry = Transmit[Len(messages) + 1] /\ Len(messages) < Len(Transmit)
    BY <1>5 DEF EncodeFails, Entry
  <2>2. Len(messages) + 1 = 3
    BY <1>5, <2>1 DEF EncodeFails, Encodes
  <2>3. scratch.type = BASIC_ID
    <3>1. Len(messages) = 2
      BY <2>2, LengthTwo
    <3>2. app = "transmit" /\ spc = "encode"
      BY <1>5 DEF EncodeFails
    <3> QED
      BY <3>1, <3>2, Zenon
  <2>4. /\ messages' = Append(messages, scratch)
        /\ UNCHANGED <<app, spc, entries, scratch, air>>
    BY <1>5 DEF EncodeFails
  <2> QED
    BY <1>5, <2>1, <2>2, <2>3, <2>4 DEF EncodeFails
<1>6. CASE \E m \in Junk : EncodeLeavesJunk(m)
  BY <1>6 DEF EncodeLeavesJunk
<1>7. CASE FinishPack
  <2>1. SUFFICES ASSUME app = "transmit", checkPackContent(messages)
                 PROVE  AllOrNothing'
    BY <1>7 DEF FinishPack
  <2>2. air'.msgs = messages
    BY <1>7, <2>1, PackedType DEF FinishPack
  <2>3. entries = Transmit /\ Len(messages) = Len(Transmit)
    BY <1>7, <2>1 DEF FinishPack
  <2>4. KindOf(messages[1]) = Transmit[1] /\ KindOf(messages[2]) = Transmit[2]
    BY <1>7, <2>1, <2>3 DEF FinishPack
  <2>5. messages[1].type = BASIC_ID /\ messages[2].type = BASIC_ID
    BY <2>4 DEF KindOf
  <2>6. messages[3].type # BASIC_ID
    <3>1. 1 \in DOMAIN messages /\ 2 \in DOMAIN messages /\ 3 \in DOMAIN messages
      BY <2>3
    <3> QED
      BY <2>1, <2>5, <3>1, ThreeBasicIDsRefused
  <2>7. \A j \in DOMAIN Transmit : KindOf(messages[j]) = Transmit[j]
    BY <1>7, <2>1, <2>3, <2>6 DEF FinishPack
  <2> QED
    BY <1>7, <2>2, <2>3, <2>7 DEF FinishPack
<1>8. CASE Radar
  BY <1>8 DEF Radar, Hear, TooShort, StartDecode, DecodeNext, DecodeDone,
              ProcessAgain, Parse, Ignore, Return, txVars
<1> QED
  BY <1>1, <1>2, <1>3, <1>4, <1>5, <1>6, <1>7, <1>8 DEF Next, Transmitter

\* What UAS_data holds while the radar goes through a frame.
LEMMA HeldNext ==
  ASSUME TypeOK, HeldInv, Next
  PROVE  HeldInv'
<1> USE DEF HeldInv
<1>0. \A s \in Slots : Cleared[s] = Invalid
  BY DEF Cleared
<1>1. CASE Transmitter
  <2>1. UNCHANGED rxVars
    BY <1>1 DEF Transmitter, NewFix, CreatePack, BuildPack, EncodeNext, EncodeFails,
                EncodeLeavesJunk, BuildFails, FinishPack
  <2> QED
    BY <2>1 DEF rxVars, Held
<1>2. CASE \E f \in Foreign \cup {air} : Hear(f)
  BY <1>0, <1>2 DEF Hear, Held
<1>3. CASE TooShort
  BY <1>3 DEF TooShort, Held
<1>4. CASE StartDecode
  BY <1>0, <1>4 DEF StartDecode, Held
<1>5. CASE DecodeNext
  <2>1. frame.msgs \in Seq(Message) /\ frame.msgs[i] \in Message
    BY <1>5 DEF DecodeNext, Frame, TypeOK
  <2>2. \A s \in Slots : uas'[s] \in {uas[s], frame.msgs[i]}
    BY <1>5, <2>1, DecodeWrites DEF DecodeNext, TypeOK
  <2>3. i \in 1 .. Len(frame.msgs)
    BY <1>5, <2>1 DEF DecodeNext, TypeOK
  <2> QED
    BY <1>5, <2>2, <2>3 DEF DecodeNext, Held
<1>6. CASE DecodeDone
  BY <1>6 DEF DecodeDone, Held
<1>7. CASE ProcessAgain
  BY <1>7 DEF ProcessAgain, Held
<1>8. CASE Parse
  BY <1>8 DEF Parse, Held
<1>9. CASE Ignore \/ Return
  BY <1>9 DEF Ignore, Return, Held
<1> QED
  BY <1>1, <1>2, <1>3, <1>4, <1>5, <1>6, <1>7, <1>8, <1>9 DEF Next, Radar

-----------------------------------------------------------------------------
(***************************************************************************)
(* No message is lost in decoding.                                         *)
(***************************************************************************)

\* The slots a message goes to are members of ODID_UAS_Data.
LEMMA SlotFacts ==
  /\ \A b \in {0, 1} : <<BASIC_ID, b>> \in Slots
  /\ \A p \in Nibble : <<AUTH, p>> \in Slots
  /\ \A t \in {LOCATION, SELF_ID, SYSTEM, OPERATOR_ID} : <<t, 0>> \in Slots
<1>1. \A b \in {0, 1} : <<BASIC_ID, b>> \in Slots
  BY DEF Slots, ODID_BASIC_ID_MAX_MESSAGES
<1>2. \A p \in Nibble : <<AUTH, p>> \in Slots
  BY DEF Slots, Nibble, ODID_AUTH_MAX_PAGES
<1>3. \A t \in {LOCATION, SELF_ID, SYSTEM, OPERATOR_ID} : <<t, 0>> \in Slots
  BY Zenon DEF Slots
<1> QED
  BY <1>1, <1>2, <1>3

\* A slot that was never written counts as one of ID type NONE.
LEMMA StoredTypeIs == \A d, b : StoredType(d, b) = IdType(d, b)
  BY DEF StoredType, IdType, Invalid, ODID_IDTYPE_NONE

\* What decodeOpenDroneID() does, type by type.
LEMMA DecodeCases ==
  ASSUME NEW d, NEW m
  PROVE  /\ m.type = BASIC_ID =>
              \/ /\ decodeOpenDroneID(d, m) = d
                 /\ \A b \in {0, 1} : IdType(d, b) \notin {ODID_IDTYPE_NONE, m.sub}
              \/ \E b \in {0, 1} :
                   /\ decodeOpenDroneID(d, m) = [d EXCEPT ![<<BASIC_ID, b>>] = m]
                   /\ IdType(d, b) \in {ODID_IDTYPE_NONE, m.sub}
                   /\ b = 1 => IdType(d, 0) \notin {ODID_IDTYPE_NONE, m.sub}
         /\ m.type = AUTH =>
              decodeOpenDroneID(d, m) = IF m.sound THEN [d EXCEPT ![<<AUTH, m.sub>>] = m] ELSE d
         /\ m.type \in {LOCATION, SELF_ID, SYSTEM, OPERATOR_ID} =>
              decodeOpenDroneID(d, m) = [d EXCEPT ![<<m.type, 0>>] = m]
<1>1. ASSUME m.type = BASIC_ID
      PROVE  \/ /\ decodeOpenDroneID(d, m) = d
                /\ \A b \in {0, 1} : IdType(d, b) \notin {ODID_IDTYPE_NONE, m.sub}
             \/ \E b \in {0, 1} :
                  /\ decodeOpenDroneID(d, m) = [d EXCEPT ![<<BASIC_ID, b>>] = m]
                  /\ IdType(d, b) \in {ODID_IDTYPE_NONE, m.sub}
                  /\ b = 1 => IdType(d, 0) \notin {ODID_IDTYPE_NONE, m.sub}
  <2> DEFINE B == BasicSlots(d, m.sub)
             first == CHOOSE n \in B : \A k \in B : n <= k
  <2>1. \A b : b \in B <=> b \in {0, 1} /\ IdType(d, b) \in {ODID_IDTYPE_NONE, m.sub}
    <3>1. 0 .. ODID_BASIC_ID_MAX_MESSAGES - 1 = {0, 1}
      BY DEF ODID_BASIC_ID_MAX_MESSAGES
    <3> QED
      BY <3>1, StoredTypeIs, Zenon DEF BasicSlots
  <2>2. decodeOpenDroneID(d, m) = IF B = {} THEN d ELSE [d EXCEPT ![<<BASIC_ID, first>>] = m]
    <3>1. m.type # AUTH /\ m.type \notin {LOCATION, SELF_ID, SYSTEM, OPERATOR_ID}
      BY <1>1 DEF BASIC_ID, LOCATION, AUTH, SELF_ID, SYSTEM, OPERATOR_ID
    <3> QED
      BY <1>1, <3>1, Zenon DEF decodeOpenDroneID
  <2> HIDE DEF B
  <2>3. CASE B = {}
    BY <2>1, <2>2, <2>3, Zenon
  <2>4. CASE B # {}
    <3>1. \E n \in B : \A k \in B : n <= k
      <4>1. CASE 0 \in B
        BY <2>1, <4>1
      <4>2. CASE 0 \notin B
        BY <2>1, <2>4, <4>2
      <4> QED
        BY <4>1, <4>2
    <3>2. first \in B /\ \A k \in B : first <= k
      BY <3>1, Zenon
    <3> HIDE DEF first
    <3>3. first \in {0, 1} /\ (first = 1 => 0 \notin B)
      BY <2>1, <3>2
    <3> QED
      BY <2>1, <2>2, <2>4, <3>2, <3>3, Zenon
  <2> QED
    BY <2>3, <2>4
<1>2. ASSUME m.type = AUTH
      PROVE  decodeOpenDroneID(d, m) = IF m.sound THEN [d EXCEPT ![<<AUTH, m.sub>>] = m] ELSE d
  BY <1>2 DEF decodeOpenDroneID, Decodes, BASIC_ID, AUTH, LOCATION, SELF_ID, SYSTEM, OPERATOR_ID
<1>3. ASSUME m.type \in {LOCATION, SELF_ID, SYSTEM, OPERATOR_ID}
      PROVE  decodeOpenDroneID(d, m) = [d EXCEPT ![<<m.type, 0>>] = m]
  BY <1>3 DEF decodeOpenDroneID, Decodes, BASIC_ID, AUTH, LOCATION, SELF_ID, SYSTEM, OPERATOR_ID
<1> QED
  BY <1>1, <1>2, <1>3, Zenon

\* One more message is decoded.
LEMMA DecodedStep ==
  ASSUME NEW d \in [Slots -> Message], NEW msgs \in Seq(Message), checkPackContent(msgs),
         NEW n \in Nat, n + 1 <= Len(msgs), Decoded(d, msgs, n)
  PROVE  Decoded(decodeOpenDroneID(d, msgs[n + 1]), msgs, n + 1)
<1> DEFINE m == msgs[n + 1]
           e == decodeOpenDroneID(d, m)
<1>1. /\ Len(msgs) \in Nat /\ DOMAIN msgs = 1 .. Len(msgs)
      /\ \A j \in 1 .. n + 1 : j \in DOMAIN msgs /\ msgs[j] \in Message
  OBVIOUS
<1>2. m \in Message /\ m.type \in 0 .. 5
  <2>1. n + 1 \in DOMAIN msgs /\ m \in Message
    BY <1>1
  <2>2. m.type <= OPERATOR_ID
    BY <2>1, Zenon DEF checkPackContent
  <2> QED
    BY <2>1, <2>2 DEF Message, Nibble, OPERATOR_ID
<1>3. ASSUME NEW j \in 1 .. n, Stays(msgs, j, n + 1)
      PROVE  /\ Stays(msgs, j, n)
             /\ m.type = msgs[j].type => m.type \in {BASIC_ID, AUTH} /\ m.sub # msgs[j].sub
  <2>1. n + 1 \in j + 1 .. n + 1 /\ \A k \in j + 1 .. n : k \in j + 1 .. n + 1
    OBVIOUS
  <2> QED
    BY <1>3, <2>1, Zenon DEF Stays
<1>4. \A j \in 1 .. n + 1 : j \in 1 .. n \/ j = n + 1
  OBVIOUS
<1>5. \A j \in 1 .. n : j \in 1 .. n + 1
  OBVIOUS
<1>6. n + 1 \in 1 .. n + 1
  OBVIOUS
<1>7. \A b \in {0, 1} : <<BASIC_ID, b>> \in Slots
  BY SlotFacts
<1> HIDE DEF m, e
<1>8. ASSUME NEW u \in Slots, u \in Home(m), e = [d EXCEPT ![u] = m],
             \A j \in 1 .. n : Stays(msgs, j, n + 1) => ~(u \in Home(msgs[j]) /\ d[u] = msgs[j])
      PROVE  \A j \in 1 .. n + 1 : Stays(msgs, j, n + 1) => \E s \in Home(msgs[j]) : e[s] = msgs[j]
  <2>1. e[u] = m /\ \A s \in Slots : s # u => e[s] = d[s]
    BY <1>8
  <2>2. ASSUME NEW j \in 1 .. n, Stays(msgs, j, n + 1)
        PROVE  \E s \in Home(msgs[j]) : e[s] = msgs[j]
    <3>1. PICK s \in Home(msgs[j]) : d[s] = msgs[j]
      BY <1>3, <2>2, Zenon DEF Decoded
    <3>2. s # u /\ s \in Slots
      BY <1>8, <2>2, <3>1, Zenon DEF Home
    <3> QED
      BY <2>1, <3>1, <3>2, Zenon
  <2> QED
    BY <1>4, <1>8, <2>1, <2>2, Zenon DEF m
<1>9. ASSUME \A b \in {0, 1} : e[<<BASIC_ID, b>>] = d[<<BASIC_ID, b>>]
      PROVE  /\ \A b \in {0, 1} : IdType(e, b) # ODID_IDTYPE_NONE =>
                  \E j \in 1 .. n + 1 : msgs[j].type = BASIC_ID /\ e[<<BASIC_ID, b>>] = msgs[j]
             /\ IdType(e, 1) # ODID_IDTYPE_NONE =>
                  IdType(e, 0) # ODID_IDTYPE_NONE /\ IdType(e, 0) # IdType(e, 1)
  BY <1>5, <1>9, Zenon DEF Decoded, IdType
<1>10. CASE m.type \in {LOCATION, SELF_ID, SYSTEM, OPERATOR_ID}
  <2> DEFINE u == <<m.type, 0>>
  <2>1. u \in Slots /\ u \in Home(m) /\ e = [d EXCEPT ![u] = m]
    <3>1. m.type # AUTH
      BY <1>10 DEF LOCATION, SELF_ID, SYSTEM, OPERATOR_ID, AUTH
    <3> QED
      BY <1>10, <3>1, SlotFacts, DecodeCases DEF Home, e
  <2>2. \A b \in {0, 1} : u # <<BASIC_ID, b>>
    BY <1>10 DEF LOCATION, SELF_ID, SYSTEM, OPERATOR_ID, BASIC_ID
  <2>3. ASSUME NEW j \in 1 .. n, Stays(msgs, j, n + 1), u \in Home(msgs[j]) PROVE FALSE
    <3>1. m.type = msgs[j].type
      BY <2>3 DEF Home
    <3> QED
      BY <1>3, <1>10, <2>3, <3>1 DEF LOCATION, SELF_ID, SYSTEM, OPERATOR_ID, BASIC_ID, AUTH
  <2> HIDE DEF u
  <2>4. \A b \in {0, 1} : e[<<BASIC_ID, b>>] = d[<<BASIC_ID, b>>]
    BY <1>7, <2>1, <2>2
  <2> QED
    BY <1>8, <1>9, <2>1, <2>3, <2>4, Zenon DEF Decoded, e, m
<1>11. CASE m.type = AUTH /\ m.sound
  <2> DEFINE u == <<AUTH, m.sub>>
  <2>1. u \in Slots /\ u \in Home(m) /\ e = [d EXCEPT ![u] = m]
    <3>1. m.sub \in Nibble
      BY <1>2 DEF Message
    <3> QED
      BY <1>11, <3>1, SlotFacts, DecodeCases DEF Home, e
  <2>2. \A b \in {0, 1} : u # <<BASIC_ID, b>>
    BY DEF AUTH, BASIC_ID
  <2>3. ASSUME NEW j \in 1 .. n, Stays(msgs, j, n + 1), u \in Home(msgs[j]) PROVE FALSE
    <3>1. m.type = msgs[j].type /\ msgs[j].sub = m.sub
      BY <1>11, <2>3 DEF Home
    <3> QED
      BY <1>3, <2>3, <3>1, Zenon
  <2> HIDE DEF u
  <2>4. \A b \in {0, 1} : e[<<BASIC_ID, b>>] = d[<<BASIC_ID, b>>]
    BY <1>7, <2>1, <2>2
  <2> QED
    BY <1>8, <1>9, <2>1, <2>3, <2>4, Zenon DEF Decoded, e, m
<1>12. CASE m.type = AUTH /\ ~m.sound
  <2>1. e = d
    BY <1>12, DecodeCases, Zenon DEF e
  <2>2. ~Stays(msgs, n + 1, n + 1)
    BY <1>12, Zenon DEF Stays, m
  <2>3. \A j \in 1 .. n + 1 : Stays(msgs, j, n + 1) => \E s \in Home(msgs[j]) : e[s] = msgs[j]
    BY <1>3, <1>4, <2>1, <2>2, Zenon DEF Decoded
  <2> QED
    BY <1>9, <2>1, <2>3, Zenon DEF Decoded, e, m
<1>13. CASE m.type = BASIC_ID
  <2>1. ASSUME \A b \in {0, 1} : IdType(d, b) \notin {ODID_IDTYPE_NONE, m.sub} PROVE FALSE
    <3>1. PICK j \in 1 .. n : msgs[j].type = BASIC_ID /\ d[<<BASIC_ID, 0>>] = msgs[j]
      BY <2>1, Zenon DEF Decoded
    <3>2. PICK k \in 1 .. n : msgs[k].type = BASIC_ID /\ d[<<BASIC_ID, 1>>] = msgs[k]
      BY <2>1, Zenon DEF Decoded
    <3>3. IdType(d, 0) # IdType(d, 1)
      BY <2>1, Zenon DEF Decoded
    <3>4. j # k
      BY <3>1, <3>2, <3>3, Zenon DEF IdType
    <3>5. /\ j \in DOMAIN msgs /\ k \in DOMAIN msgs /\ n + 1 \in DOMAIN msgs
          /\ j # n + 1 /\ k # n + 1
      BY <1>1
    <3> QED
      BY <1>13, <3>1, <3>2, <3>4, <3>5, ThreeBasicIDsRefused, Zenon DEF m
  <2>2. PICK b \in {0, 1} :
          /\ e = [d EXCEPT ![<<BASIC_ID, b>>] = m]
          /\ IdType(d, b) \in {ODID_IDTYPE_NONE, m.sub}
          /\ b = 1 => IdType(d, 0) \notin {ODID_IDTYPE_NONE, m.sub}
    BY <1>13, <2>1, DecodeCases, Zenon DEF e
  <2> DEFINE u == <<BASIC_ID, b>>
  <2>3. u \in Slots /\ u \in Home(m)
    BY <1>7, <1>13 DEF Home, BASIC_ID, AUTH
  <2>4. ASSUME NEW j \in 1 .. n, Stays(msgs, j, n + 1), u \in Home(msgs[j]), d[u] = msgs[j]
        PROVE  FALSE
    <3>1. msgs[j].type = BASIC_ID /\ msgs[j].sub = IdType(d, b)
      BY <2>4 DEF Home, IdType
    <3>2. msgs[j].sub # ODID_IDTYPE_NONE
      BY <2>4, <3>1, Zenon DEF Stays
    <3>3. m.sub # msgs[j].sub
      BY <1>3, <1>13, <2>4, <3>1, Zenon
    <3> QED
      BY <2>2, <3>1, <3>2, <3>3, Zenon
  <2>5. /\ e[<<BASIC_ID, b>>] = m /\ IdType(e, b) = m.sub
        /\ \A c \in {0, 1} : c # b => e[<<BASIC_ID, c>>] = d[<<BASIC_ID, c>>]
    BY <1>7, <2>2 DEF IdType
  <2>6. \A c \in {0, 1} : c # b => IdType(e, c) = IdType(d, c)
    BY <2>5 DEF IdType
  <2>7. \A j \in 1 .. n + 1 : Stays(msgs, j, n + 1) => \E s \in Home(msgs[j]) : e[s] = msgs[j]
    BY <1>8, <2>2, <2>3, <2>4, Zenon
  <2>8. ASSUME NEW c \in {0, 1}, IdType(e, c) # ODID_IDTYPE_NONE
        PROVE  \E j \in 1 .. n + 1 : msgs[j].type = BASIC_ID /\ e[<<BASIC_ID, c>>] = msgs[j]
    <3>1. CASE c = b
      BY <1>6, <1>13, <2>5, <3>1, Zenon DEF m
    <3>2. CASE c # b
      BY <1>5, <2>5, <2>6, <2>8, <3>2, Zenon DEF Decoded
    <3> QED
      BY <3>1, <3>2
  <2>9. IdType(e, 1) # ODID_IDTYPE_NONE =>
          IdType(e, 0) # ODID_IDTYPE_NONE /\ IdType(e, 0) # IdType(e, 1)
    <3>1. CASE b = 0
      <4>1. IdType(e, 0) = m.sub /\ IdType(e, 1) = IdType(d, 1)
        BY <2>5, <2>6, <3>1
      <4> QED
        BY <2>2, <3>1, <4>1, Zenon DEF Decoded
    <3>2. CASE b = 1
      <4>1. IdType(e, 1) = m.sub /\ IdType(e, 0) = IdType(d, 0)
        BY <2>5, <2>6, <3>2
      <4> QED
        BY <2>2, <3>2, <4>1, Zenon
    <3> QED
      BY <3>1, <3>2
  <2> QED
    BY <2>7, <2>8, <2>9, Zenon DEF Decoded, e, m
<1> QED
  BY <1>2, <1>10, <1>11, <1>12, <1>13
     DEF BASIC_ID, LOCATION, AUTH, SELF_ID, SYSTEM, OPERATOR_ID

\* Nothing has been decoded yet.
LEMMA DecodedStart == \A msgs : Decoded(Cleared, msgs, 0)
<1>1. \A b \in {0, 1} : IdType(Cleared, b) = ODID_IDTYPE_NONE
  BY SlotFacts DEF IdType, Cleared, Invalid, ODID_IDTYPE_NONE
<1>2. 1 .. 0 = {}
  OBVIOUS
<1> QED
  BY <1>1, <1>2 DEF Decoded

\* Every step of the radar keeps what has been decoded.
LEMMA LossNext ==
  ASSUME TypeOK, LossInv, Next
  PROVE  LossInv'
<1> USE DEF LossInv
<1>0. frame.msgs \in Seq(Message) /\ Len(frame.msgs) \in Nat /\ i \in Nat \ {0}
  BY DEF TypeOK, Frame
<1>1. CASE Transmitter
  <2>1. UNCHANGED rxVars
    BY <1>1 DEF Transmitter, NewFix, CreatePack, BuildPack, EncodeNext, EncodeFails,
                EncodeLeavesJunk, BuildFails, FinishPack
  <2> QED
    BY <2>1 DEF rxVars
<1>2. CASE \E f \in Foreign \cup {air} : Hear(f)
  BY <1>2 DEF Hear
<1>3. CASE TooShort
  BY <1>3 DEF TooShort
<1>4. CASE StartDecode
  <2>1. Decoded(uas', frame'.msgs, i' - 1) /\ i' <= Len(frame'.msgs) + 1
    <3>1. uas' = Cleared /\ i' = 1 /\ frame' = frame /\ 1 - 1 = 0
      BY <1>4 DEF StartDecode
    <3>2. Decoded(uas', frame'.msgs, i' - 1)
      BY <3>1, DecodedStart
    <3> QED
      BY <1>0, <3>1, <3>2
  <2> QED
    BY <1>4, <2>1 DEF StartDecode
<1>5. CASE DecodeNext
  <2> DEFINE n == i - 1
  <2>1. n \in Nat /\ n + 1 = i /\ i' - 1 = n + 1 /\ n + 1 <= Len(frame.msgs)
    BY <1>0, <1>5 DEF DecodeNext
  <2>2. uas \in [Slots -> Message] /\ checkPackContent(frame.msgs) /\ Decoded(uas, frame.msgs, n)
    BY <1>5 DEF DecodeNext, TypeOK
  <2> HIDE DEF n
  <2>3. Decoded(decodeOpenDroneID(uas, frame.msgs[n + 1]), frame.msgs, n + 1)
    BY <1>0, <2>1, <2>2, DecodedStep
  <2>4. /\ uas' = decodeOpenDroneID(uas, frame.msgs[n + 1]) /\ UNCHANGED <<rpc, frame>>
        /\ rpc = "decode"
    BY <1>5, <2>1 DEF DecodeNext
  <2>5. i' <= Len(frame.msgs) + 1
    BY <1>0, <1>5 DEF DecodeNext
  <2> QED
    BY <2>1, <2>2, <2>3, <2>4, <2>5
<1>6. CASE DecodeDone
  <2>1. i - 1 = Len(frame.msgs)
    BY <1>0, <1>6 DEF DecodeDone
  <2> QED
    BY <1>6, <2>1 DEF DecodeDone
<1>7. CASE ProcessAgain
  BY <1>7 DEF ProcessAgain
<1>8. CASE Parse
  BY <1>8 DEF Parse
<1>9. CASE Ignore \/ Return
  BY <1>9 DEF Ignore, Return
<1> QED
  BY <1>1, <1>2, <1>3, <1>4, <1>5, <1>6, <1>7, <1>8, <1>9 DEF Next, Radar

-----------------------------------------------------------------------------
\* The invariant holds in every reachable state.
THEOREM Invariance == Spec => []Inv
<1>1. Init => Inv
  BY InitInv
<1>2. Inv /\ [Next]_vars => Inv'
  <2>1. ASSUME Inv, Next PROVE Inv'
    BY <2>1, TransmitterType, RadarType, PackNext, HeldNext, LossNext DEF Inv, Next
  <2>2. ASSUME Inv, UNCHANGED vars PROVE Inv'
    BY <2>2 DEF Inv, TypeOK, PackInv, AllOrNothing, HeldInv, Held, LossInv, vars, txVars, rxVars
  <2> QED
    BY <2>1, <2>2
<1> QED
  BY <1>1, <1>2, PTL DEF Spec

\* The variables keep their types; a pack on the air never exceeds
\* ODID_PACK_MAX_MESSAGES, whatever Filled asks for.
THEOREM TypeCorrect == Spec => []TypeOK
<1>1. Inv => TypeOK
  BY DEF Inv
<1> QED
  BY <1>1, Invariance, PTL

\* create_message_pack() sends all its messages or an empty pack, although no
\* result of an encoder is looked at.
THEOREM SendsAllOrNothing == Spec => []AllOrNothing
<1>1. Inv => AllOrNothing
  BY DEF Inv
<1> QED
  BY <1>1, Invariance, PTL

\* parse_odid() is given nothing of an earlier frame, whatever frames are heard.
THEOREM NothingStaleIsShown == Spec => []ShownIsHeard
<1>1. Inv => ShownIsHeard
  <2>1. ASSUME Inv, rpc = "parsed" PROVE Held
    BY <2>1 DEF Inv, HeldInv
  <2>2. Inv => frame.msgs \in Seq(Message)
    BY DEF Inv, TypeOK, Frame
  <2> QED
    BY <2>1, <2>2 DEF ShownIsHeard, Held
<1> QED
  BY <1>1, Invariance, PTL

\* decodeMessagePack() loses no message of a pack it accepts, for every order
\* of Basic IDs with and without a type, on either processing of the pack.
THEOREM NothingIsLost == Spec => []NothingLost
<1>1. Inv => NothingLost
  <2> SUFFICES ASSUME Inv, rpc = "parsed", result,
                      NEW j \in DOMAIN frame.msgs, Counts(frame.msgs, j)
               PROVE  \E s \in Slots : uas[s] = frame.msgs[j]
    BY DEF NothingLost
  <2> DEFINE msgs == frame.msgs
             n == Len(msgs)
  <2>1. msgs \in Seq(Message)
    BY DEF Inv, TypeOK, Frame
  <2>2. n \in Nat /\ DOMAIN msgs = 1 .. n
    BY <2>1
  <2>3. \A k \in j + 1 .. n : k \in DOMAIN msgs /\ k > j
    BY <2>2
  <2>4. Decoded(uas, msgs, n)
    BY DEF Inv, LossInv
  <2>5. Counts(msgs, j)
    OBVIOUS
  <2> HIDE DEF msgs, n
  <2>6. Stays(msgs, j, n)
    BY <2>3, <2>5, Zenon DEF Stays, Counts
  <2>7. \E s \in Home(msgs[j]) : uas[s] = msgs[j]
    BY <2>2, <2>4, <2>6 DEF Decoded, msgs
  <2> QED
    BY <2>7 DEF Home, msgs
<1> QED
  BY <1>1, Invariance, PTL
=============================================================================
