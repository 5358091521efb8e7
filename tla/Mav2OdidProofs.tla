--------------------------- MODULE Mav2OdidProofs ---------------------------
(***************************************************************************)
(* What the MAVLink bridge keeps and hands out, for any number of slots,   *)
(* pages and messages.                                                     *)
(***************************************************************************)
EXTENDS Mav2Odid, FiniteSetTheorems, TLAPS

\* The ID type and the number of the Basic ID in slot n.
IdType(n)   == enc[<<BASIC_ID, n>>].sub
IdSeq(n)    == enc[<<BASIC_ID, n>>].seq
BasicSlotNr == 0 .. BasicIDs - 1

\* A flag is set only for a message that came in, and a Basic ID with a type
\* came in.  m2o_basicId() relies on neither; m2o_cycleMessages() on both.
ReceivedInv ==
  /\ \A s \in Slots : valid[s] => enc[s].seq > 0
  /\ \A n \in BasicSlotNr : IdType(n) # ODID_IDTYPE_NONE => IdSeq(n) > 0

\* Slots for Basic IDs fill up from the front, and one that has a type never
\* loses it: before a slot in use there is none without a type.
OrderInv ==
  \A i, j \in BasicSlotNr :
    i < j /\ IdSeq(j) > 0 => IdType(i) # ODID_IDTYPE_NONE

\* The parts of the properties that hold up to an overrun.
OneSlotInv ==
  \A i, j \in BasicSlotNr :
    /\ IdType(i) # ODID_IDTYPE_NONE
    /\ IdType(i) = IdType(j)
    => i = j
SentInv == data = Untouched \/ data.seq > 0

Inv == BridgeTypes /\ ReceivedInv /\ OrderInv /\ OneSlotInv /\ SentInv

-----------------------------------------------------------------------------
(* Slots.                                                                  *)

\* Every index the code uses names a member of mav2odid_t.
LEMMA SlotFacts ==
  /\ \A n \in BasicSlotNr : <<BASIC_ID, n>> \in Slots
  /\ \A p \in 0 .. AuthPages - 1 : <<AUTH, p>> \in Slots
  /\ \A t \in Singles : <<t, 0>> \in Slots
  /\ 0 \in BasicSlotNr
BY BridgeAssumption DEF Slots, BasicSlotNr, BridgeAssumption

\* The slots are finitely many.
LEMMA SlotsFinite == IsFiniteSet(Slots)
<1> DEFINE N == BasicIDs + AuthPages
<1>1. IsFiniteSet((0 .. 5) \X (0 .. N))
  <2>1. \A a, b \in Int : IsFiniteSet(a .. b)
    BY FS_Interval
  <2>2. 0 \in Int /\ 5 \in Int /\ N \in Int
    BY BridgeAssumption DEF BridgeAssumption
  <2>3. IsFiniteSet(0 .. 5) /\ IsFiniteSet(0 .. N)
    BY <2>1, <2>2, Zenon
  <2> QED BY <2>3, FS_Product
<1>2. Slots \in SUBSET ((0 .. 5) \X (0 .. N))
  BY BridgeAssumption
  DEF BridgeAssumption, Slots, Singles, BASIC_ID, LOCATION, AUTH, SELF_ID, SYSTEM, OPERATOR_ID
<1> HIDE DEF N
<1> QED BY <1>1, <1>2, FS_Subset

\* The number of valid messages in a pack is a number.
LEMMA NumValidType == NumValid \in Nat
<1> DEFINE V == { s \in Slots : valid[s] }
<1>1. V \in SUBSET Slots
  OBVIOUS
<1> HIDE DEF V
<1>2. IsFiniteSet(V)
  BY <1>1, SlotsFinite, FS_Subset
<1> QED BY <1>2, FS_CardinalityType DEF NumValid, V

-----------------------------------------------------------------------------
(* Initial states and m2o_init().                                          *)

\* A blank mav2odid_t has its types.
LEMMA FreshType ==
  ASSUME NEW e, NEW v, NEW p, NEW pv, NEW idx, Fresh(e, v, p, pv, idx)
  PROVE  /\ e \in [Slots -> Encoded] /\ v \in [Slots -> BOOLEAN]
         /\ p \in [size : 0 .. PackMax, msgs : [1 .. PackMax -> Encoded]]
         /\ pv \in BOOLEAN /\ idx \in 0 .. ScheduleSize - 1
<1>1. \A s \in Slots : Blank(s) \in Encoded
  BY BridgeAssumption
  DEF BridgeAssumption, Slots, Singles, BASIC_ID, LOCATION, AUTH, SELF_ID, SYSTEM,
      OPERATOR_ID, Blank, Encoded
<1>2. e \in [Slots -> Encoded] /\ v \in [Slots -> BOOLEAN]
  BY <1>1 DEF Fresh
<1>3. p \in [size : 0 .. PackMax, msgs : [1 .. PackMax -> Encoded]]
  BY BridgeAssumption DEF BridgeAssumption, Fresh, EmptyPack, Zero, Encoded, BASIC_ID
<1>4. pv \in BOOLEAN
  BY Zenon DEF Fresh
<1>5. idx \in 0 .. ScheduleSize - 1
  BY BridgeAssumption DEF BridgeAssumption, Fresh, ScheduleSize
<1> QED BY <1>2, <1>3, <1>4, <1>5

\* No slot of a blank mav2odid_t holds a Basic ID with a type or a number.
LEMMA FreshBlank ==
  ASSUME NEW e, NEW v, NEW p, NEW pv, NEW idx, Fresh(e, v, p, pv, idx)
  PROVE  /\ \A s \in Slots : v[s] = FALSE
         /\ \A n \in BasicSlotNr : /\ e[<<BASIC_ID, n>>].sub = ODID_IDTYPE_NONE
                                   /\ e[<<BASIC_ID, n>>].seq = 0
<1>1. \A s \in Slots : v[s] = FALSE
  BY Zenon DEF Fresh
<1>2. ASSUME NEW n \in BasicSlotNr
      PROVE  e[<<BASIC_ID, n>>].sub = ODID_IDTYPE_NONE /\ e[<<BASIC_ID, n>>].seq = 0
  BY SlotFacts DEF Fresh, Blank, BASIC_ID, AUTH, ODID_IDTYPE_NONE
<1> QED BY <1>1, <1>2

\* The invariant holds at the start.
LEMMA InitInv == Init => Inv
<1> SUFFICES ASSUME Init PROVE Inv
  OBVIOUS
<1>1. Fresh(enc, valid, pack, packValid, scheduleIdx)
  BY DEF Init
<1>2. BridgeTypes
  <2>1. /\ basicIDIndex \in 0 .. BasicIDs - 1 /\ authIndex \in 0 .. AuthPages - 1
        /\ data \in Encoded /\ seq \in 0 .. MaxSeq
    BY BridgeAssumption DEF BridgeAssumption, Init, Untouched, Encoded, PACKED
  <2> QED BY <1>1, <2>1, FreshType DEF BridgeTypes
<1>3. ReceivedInv /\ OrderInv /\ OneSlotInv
  <2>1. /\ \A s \in Slots : valid[s] = FALSE
        /\ \A n \in BasicSlotNr : IdType(n) = ODID_IDTYPE_NONE /\ IdSeq(n) = 0
    BY <1>1, FreshBlank DEF IdType, IdSeq
  <2>2. ReceivedInv
    BY <2>1 DEF ReceivedInv
  <2>3. OrderInv
    BY <2>1 DEF OrderInv
  <2>4. OneSlotInv
    BY <2>1 DEF OneSlotInv, IdType, BasicSlotNr
  <2> QED BY <2>2, <2>3, <2>4
<1>4. SentInv
  BY DEF Init, SentInv
<1> QED BY <1>2, <1>3, <1>4 DEF Inv

\* m2o_init() keeps it, although it leaves the two statics and the buffer alone.
LEMMA ResetInv == Inv /\ m2o_init => Inv'
<1> SUFFICES ASSUME Inv, m2o_init PROVE Inv'
  OBVIOUS
<1>1. Fresh(enc', valid', pack', packValid', scheduleIdx')
  BY DEF m2o_init
<1>2. BridgeTypes'
  <2>1. UNCHANGED <<basicIDIndex, authIndex, data, seq>>
    BY DEF m2o_init
  <2> QED BY <1>1, <2>1, FreshType DEF Inv, BridgeTypes
<1>3. /\ \A s \in Slots : valid'[s] = FALSE
      /\ \A n \in BasicSlotNr : IdType(n)' = ODID_IDTYPE_NONE /\ IdSeq(n)' = 0
  BY <1>1, FreshBlank DEF IdType, IdSeq
<1>4. ReceivedInv'
  BY <1>3 DEF ReceivedInv
<1>5. OrderInv'
  BY <1>3 DEF OrderInv
<1>6. OneSlotInv'
  BY <1>3 DEF OneSlotInv, IdType, BasicSlotNr
<1>7. SentInv'
  BY DEF m2o_init, Inv, SentInv
<1> QED BY <1>2, <1>4, <1>5, <1>6, <1>7 DEF Inv

-----------------------------------------------------------------------------
(* The converters.                                                         *)

\* Storing a message keeps the types, the flags and the buffer in order.
LEMMA KeepCommon ==
  ASSUME Inv, NEW m \in MavMessage, NEW s \in Slots, Keep(s, m), seq < MaxSeq
  PROVE  BridgeTypes' /\ (\A t \in Slots : valid'[t] => enc'[t].seq > 0) /\ SentInv'
<1> DEFINE e == [type |-> m.type, sub |-> m.sub, seq |-> seq + 1]
<1>1. e \in Encoded /\ e.seq > 0
  BY DEF Inv, BridgeTypes, MavMessage, Encoded
<1>2. enc' = [enc EXCEPT ![s] = e] /\ valid' = [valid EXCEPT ![s] = TRUE]
  BY DEF Keep
<1> HIDE DEF e
<1>3. enc' \in [Slots -> Encoded]
  BY <1>1, <1>2 DEF Inv, BridgeTypes
<1>4. valid' \in [Slots -> BOOLEAN]
  BY <1>2, Zenon DEF Inv, BridgeTypes
<1>5. UNCHANGED <<pack, packValid, cycling>>
  BY DEF Keep
<1>6. seq' \in 0 .. MaxSeq
  BY BridgeAssumption DEF BridgeAssumption, Keep, Inv, BridgeTypes
<1>7. BridgeTypes'
  BY <1>3, <1>4, <1>5, <1>6 DEF Inv, BridgeTypes, cycling
<1>8. ASSUME NEW t \in Slots, valid'[t] PROVE enc'[t].seq > 0
  <2>1. CASE t = s
    BY <1>1, <1>2, <2>1 DEF Inv, BridgeTypes
  <2>2. CASE t # s
    BY <1>2, <1>8, <2>2 DEF Inv, BridgeTypes, ReceivedInv
  <2> QED BY <2>1, <2>2
<1>9. SentInv'
  BY <1>5 DEF Inv, SentInv, cycling
<1> QED BY <1>7, <1>8, <1>9

\* A message that is no Basic ID leaves the Basic IDs alone.
LEMMA OtherInv ==
  ASSUME Inv, NEW m \in MavMessage, NEW s \in Slots, Keep(s, m), seq < MaxSeq,
         s[1] # BASIC_ID
  PROVE  Inv'
<1>1. BridgeTypes' /\ (\A t \in Slots : valid'[t] => enc'[t].seq > 0) /\ SentInv'
  BY KeepCommon
<1>2. \A n \in BasicSlotNr : enc'[<<BASIC_ID, n>>] = enc[<<BASIC_ID, n>>]
  BY SlotFacts DEF Keep, Inv, BridgeTypes
<1>3. \A n \in BasicSlotNr : IdType(n)' = IdType(n) /\ IdSeq(n)' = IdSeq(n)
  BY <1>2 DEF IdType, IdSeq
<1>4. ReceivedInv'
  BY <1>1, <1>3 DEF Inv, ReceivedInv
<1>5. OrderInv'
  BY <1>3 DEF Inv, OrderInv
<1>6. OneSlotInv'
  BY <1>3 DEF Inv, OneSlotInv, IdType, BasicSlotNr
<1> QED BY <1>1, <1>4, <1>5, <1>6 DEF Inv

\* A Basic ID goes to the first slot that is free or of its type.
LEMMA BasicIdInv ==
  ASSUME Inv, NEW m \in MavMessage, m2o_basicId(m)
  PROVE  Inv'
<1>1. PICK n \in BasicSlots(m.sub) :
        (\A k \in BasicSlots(m.sub) : n <= k) /\ Keep(<<BASIC_ID, n>>, m)
  BY DEF m2o_basicId
<1>2. n \in BasicSlotNr /\ IdType(n) \in {ODID_IDTYPE_NONE, m.sub}
  BY <1>1 DEF BasicSlots, BasicSlotNr, IdType
<1>3. \A k \in BasicSlotNr : k < n => IdType(k) # ODID_IDTYPE_NONE /\ IdType(k) # m.sub
  BY <1>1, <1>2, BridgeAssumption DEF BasicSlots, BasicSlotNr, IdType, BridgeAssumption
<1>4. BridgeTypes' /\ (\A t \in Slots : valid'[t] => enc'[t].seq > 0) /\ SentInv'
  <2>1. <<BASIC_ID, n>> \in Slots /\ seq < MaxSeq
    BY <1>2, SlotFacts DEF m2o_basicId
  <2> QED BY <1>1, <2>1, KeepCommon
<1>5. /\ IdType(n)' = m.sub /\ IdSeq(n)' > 0
      /\ \A k \in BasicSlotNr : k # n => IdType(k)' = IdType(k) /\ IdSeq(k)' = IdSeq(k)
  BY <1>1, <1>2, SlotFacts DEF Keep, Inv, BridgeTypes, IdType, IdSeq
<1>6. \A k \in BasicSlotNr : IdType(k) \in Nat /\ IdSeq(k) \in Nat
  BY SlotFacts DEF Inv, BridgeTypes, Encoded, IdType, IdSeq
<1>7. \A k \in BasicSlotNr : k \in Int
  BY DEF BasicSlotNr
<1>8. ReceivedInv'
  BY <1>4, <1>5 DEF Inv, ReceivedInv
<1>9. OrderInv'
  <2> SUFFICES ASSUME NEW i \in BasicSlotNr, NEW j \in BasicSlotNr, i < j, IdSeq(j)' > 0
               PROVE  IdType(i)' # ODID_IDTYPE_NONE
    BY DEF OrderInv
  <2>1. CASE j = n
    BY <2>1, <1>2, <1>3, <1>5, <1>7
  <2>2. CASE j # n /\ i # n
    BY <2>2, <1>5 DEF Inv, OrderInv
  <2>3. CASE j # n /\ i = n
    <3>1. IdType(n) # ODID_IDTYPE_NONE
      BY <2>3, <1>5 DEF Inv, OrderInv
    <3> QED BY <3>1, <2>3, <1>2, <1>5
  <2> QED BY <2>1, <2>2, <2>3
<1>10. OneSlotInv'
  <2>1. ASSUME NEW k \in BasicSlotNr, k # n, m.sub # ODID_IDTYPE_NONE PROVE IdType(k) # m.sub
    <3>1. CASE k < n
      BY <3>1, <1>3
    <3>2. CASE n < k /\ IdType(n) = ODID_IDTYPE_NONE
      <4>1. IdSeq(k) = 0
        BY <3>2, <1>2, <1>6 DEF Inv, OrderInv
      <4> QED BY <4>1, <2>1, <1>6 DEF Inv, ReceivedInv
    <3>3. CASE IdType(n) = m.sub
      BY <3>3, <2>1, <1>2 DEF Inv, OneSlotInv, IdType, BasicSlotNr
    <3> QED BY <3>1, <3>2, <3>3, <1>2, <1>7, <2>1
  <2>2. \A i, j \in BasicSlotNr :
          IdType(i)' # ODID_IDTYPE_NONE /\ IdType(i)' = IdType(j)' => i = j
    <3> SUFFICES ASSUME NEW i \in BasicSlotNr, NEW j \in BasicSlotNr,
                        IdType(i)' # ODID_IDTYPE_NONE, IdType(i)' = IdType(j)', i # j
                 PROVE  FALSE
      OBVIOUS
    <3>1. CASE i = n
      BY <3>1, <2>1, <1>5
    <3>2. CASE j = n
      BY <3>2, <2>1, <1>5
    <3>3. CASE i # n /\ j # n
      BY <3>3, <1>5 DEF Inv, OneSlotInv, IdType, BasicSlotNr
    <3> QED BY <3>1, <3>2, <3>3
  <2> QED BY <2>2 DEF OneSlotInv, IdType, BasicSlotNr
<1> QED BY <1>4, <1>8, <1>9, <1>10 DEF Inv

-----------------------------------------------------------------------------
(* Packs and the schedule.                                                 *)

\* A step that writes the pack alone keeps what is said of the rest.
LEMMA PackStepInv ==
  ASSUME Inv, UNCHANGED <<enc, valid, cycling>>,
         pack' \in [size : 0 .. PackMax, msgs : [1 .. PackMax -> Encoded]],
         packValid' \in BOOLEAN, seq' \in 0 .. MaxSeq
  PROVE  Inv'
<1>1. BridgeTypes'
  BY DEF Inv, BridgeTypes, cycling
<1>2. ReceivedInv' /\ OrderInv' /\ OneSlotInv'
  BY DEF Inv, ReceivedInv, OrderInv, OneSlotInv, IdType, IdSeq
<1>3. SentInv'
  BY DEF Inv, SentInv, cycling
<1> QED BY <1>1, <1>2, <1>3 DEF Inv

\* A pack that is taken over has passed the checks.
LEMMA MessagePackInv ==
  ASSUME Inv, NEW p \in MavPack, m2o_messagePack(p)
  PROVE  Inv'
<1> DEFINE f == [k \in 1 .. PackMax |->
                   IF k <= Len(p.msgs)
                     THEN [type |-> p.msgs[k].type, sub |-> p.msgs[k].sub, seq |-> seq + 1]
                     ELSE pack.msgs[k]]
<1>1. p.msgs \in Seq([type : 0 .. 15, sub : Nat]) /\ Len(p.msgs) \in 1 .. PackMax
  BY DEF MavPack, m2o_messagePack, checkPackContent
<1>2. f \in [1 .. PackMax -> Encoded]
  <2> SUFFICES ASSUME NEW k \in 1 .. PackMax PROVE f[k] \in Encoded
    OBVIOUS
  <2>1. CASE k <= Len(p.msgs)
    <3>1. p.msgs[k] \in [type : 0 .. 15, sub : Nat]
      <4> DEFINE ms == p.msgs
                 T  == [type : 0 .. 15, sub : Nat]
      <4>1. ms \in Seq(T) /\ k \in Nat /\ 1 <= k /\ k <= Len(ms)
        BY <1>1, <2>1
      <4> HIDE DEF ms, T
      <4>2. ms[k] \in T
        BY <4>1
      <4> QED BY <4>2 DEF ms, T
    <3> QED BY <2>1, <3>1 DEF Encoded, Inv, BridgeTypes
  <2>2. CASE ~(k <= Len(p.msgs))
    BY <2>2 DEF Inv, BridgeTypes
  <2> QED BY <2>1, <2>2
<1>3. pack' = [size |-> Len(p.msgs), msgs |-> f]
  BY DEF m2o_messagePack
<1> HIDE DEF f
<1>4. pack' \in [size : 0 .. PackMax, msgs : [1 .. PackMax -> Encoded]]
  BY <1>1, <1>2, <1>3
<1>5. packValid' \in BOOLEAN
  BY Zenon DEF m2o_messagePack
<1>6. seq' \in 0 .. MaxSeq
  BY BridgeAssumption DEF BridgeAssumption, m2o_messagePack, Inv, BridgeTypes
<1>7. UNCHANGED <<enc, valid, cycling>>
  BY DEF m2o_messagePack
<1> QED BY <1>4, <1>5, <1>6, <1>7, PackStepInv

\* A pack that is collected holds messages of the slots.
LEMMA CollectInv == Inv /\ m2o_collectMessagePack => Inv'
<1> SUFFICES ASSUME Inv, m2o_collectMessagePack PROVE Inv'
  OBVIOUS
<1>1. Filled(PackMax) \in [1 .. PackMax -> Encoded]
  <2>1. ASSUME NEW k \in 1 .. PackMax, \E s \in Slots : IsNth(s, k)
        PROVE  enc[CHOOSE s \in Slots : IsNth(s, k)] \in Encoded
    <3>1. (CHOOSE s \in Slots : IsNth(s, k)) \in Slots
      BY <2>1
    <3> QED BY <3>1 DEF Inv, BridgeTypes
  <2>2. \A k \in 1 .. PackMax : pack.msgs[k] \in Encoded
    BY DEF Inv, BridgeTypes
  <2> QED BY <2>1, <2>2, Zenon DEF Filled
<1>2. pack' = [size |-> IF NumValid <= PackMax THEN NumValid ELSE pack.size,
               msgs |-> Filled(PackMax)]
  BY DEF m2o_collectMessagePack
<1>3. pack' \in [size : 0 .. PackMax, msgs : [1 .. PackMax -> Encoded]]
  BY <1>1, <1>2, NumValidType, BridgeAssumption DEF BridgeAssumption, Inv, BridgeTypes
<1>4. packValid' \in BOOLEAN /\ seq' \in 0 .. MaxSeq /\ UNCHANGED <<enc, valid, cycling>>
  BY DEF m2o_collectMessagePack, Inv, BridgeTypes
<1> QED BY <1>3, <1>4, PackStepInv

\* A cycle step that hands out what was received keeps the invariant.
LEMMA CycleStepInv ==
  ASSUME Inv, Advance, data' = data \/ (data' \in Encoded /\ data'.seq > 0),
         basicIDIndex' \in 0 .. BasicIDs - 1, authIndex' \in 0 .. AuthPages - 1
  PROVE  Inv'
<1>1. scheduleIdx' \in 0 .. ScheduleSize - 1
  <2>1. ScheduleSize \in Nat /\ ScheduleSize > 0 /\ scheduleIdx + 1 \in Nat
    BY BridgeAssumption DEF BridgeAssumption, ScheduleSize, Inv, BridgeTypes
  <2> HIDE DEF ScheduleSize
  <2> QED BY <2>1 DEF Advance
<1>2. UNCHANGED <<enc, valid, pack, packValid, seq>>
  BY DEF Advance, stored
<1>3. BridgeTypes'
  BY <1>1, <1>2 DEF Inv, BridgeTypes
<1>4. ReceivedInv' /\ OrderInv' /\ OneSlotInv'
  BY <1>2 DEF Inv, ReceivedInv, OrderInv, OneSlotInv, IdType, IdSeq
<1>5. SentInv'
  BY DEF Inv, SentInv
<1> QED BY <1>3, <1>4, <1>5 DEF Inv

\* If some Basic ID is valid, the first one was received: line 135 copies it.
LEMMA FirstBasicIdReceived ==
  ASSUME Inv, NEW n \in BasicSlotNr, valid[<<BASIC_ID, n>>]
  PROVE  enc[<<BASIC_ID, 0>>] \in Encoded /\ enc[<<BASIC_ID, 0>>].seq > 0
<1>1. enc[<<BASIC_ID, 0>>] \in Encoded
  BY SlotFacts DEF Inv, BridgeTypes
<1>2. IdSeq(n) > 0
  BY SlotFacts DEF Inv, ReceivedInv, IdSeq
<1>3. CASE n = 0
  BY <1>1, <1>2, <1>3 DEF IdSeq
<1>4. CASE n # 0
  <2>1. 0 < n
    BY <1>4 DEF BasicSlotNr
  <2>2. IdType(0) # ODID_IDTYPE_NONE
    BY <2>1, <1>2, SlotFacts DEF Inv, OrderInv
  <2> QED BY <1>1, <2>2, SlotFacts DEF Inv, ReceivedInv, IdSeq
<1> QED BY <1>3, <1>4

\* A cycle step hands out what was received.
LEMMA CycleInv == Inv /\ m2o_cycleMessages => Inv'
<1> SUFFICES ASSUME Inv, m2o_cycleMessages PROVE Inv'
  OBVIOUS
<1>1. CASE CycleBasicID
  <2>1. Advance /\ authIndex' \in 0 .. AuthPages - 1
    BY <1>1 DEF CycleBasicID, Inv, BridgeTypes
  <2>2. CASE UNCHANGED <<basicIDIndex, data>>
    <3>1. basicIDIndex' \in 0 .. BasicIDs - 1 /\ data' = data
      BY <2>2 DEF Inv, BridgeTypes
    <3> QED BY <2>1, <3>1, CycleStepInv
  <2>3. ASSUME NEW k \in 1 .. BasicIDs, valid[<<BASIC_ID, (basicIDIndex + k) % BasicIDs>>],
               basicIDIndex' = (basicIDIndex + k) % BasicIDs, data' = enc[<<BASIC_ID, 0>>]
        PROVE  Inv'
    <3>1. (basicIDIndex + k) % BasicIDs \in BasicSlotNr
      BY BridgeAssumption DEF BridgeAssumption, BasicSlotNr, Inv, BridgeTypes
    <3>2. data' \in Encoded /\ data'.seq > 0
      BY <2>3, <3>1, FirstBasicIdReceived
    <3>3. basicIDIndex' \in 0 .. BasicIDs - 1
      BY <2>3, <3>1 DEF BasicSlotNr
    <3> QED BY <2>1, <3>2, <3>3, CycleStepInv
  <2> QED BY <1>1, <2>2, <2>3 DEF CycleBasicID
<1>2. CASE CycleAuth
  <2>1. Advance /\ basicIDIndex' \in 0 .. BasicIDs - 1
    BY <1>2 DEF CycleAuth, Inv, BridgeTypes
  <2>2. authIndex' \in 0 .. AuthPages - 1
    BY <1>2, BridgeAssumption DEF BridgeAssumption, CycleAuth, Inv, BridgeTypes
  <2>3. data' = data \/ (data' \in Encoded /\ data'.seq > 0)
    <3>1. <<AUTH, authIndex>> \in Slots
      BY SlotFacts DEF Inv, BridgeTypes
    <3> QED BY <1>2, <3>1 DEF CycleAuth, Inv, BridgeTypes, ReceivedInv
  <2> QED BY <2>1, <2>2, <2>3, CycleStepInv
<1>3. CASE CycleSingle
  <2>1. Advance /\ basicIDIndex' \in 0 .. BasicIDs - 1 /\ authIndex' \in 0 .. AuthPages - 1
    BY <1>3 DEF CycleSingle, Inv, BridgeTypes
  <2>2. data' = data \/ (data' \in Encoded /\ data'.seq > 0)
    <3>1. <<Due, 0>> \in Slots
      BY <1>3, SlotFacts DEF CycleSingle
    <3> QED BY <1>3, <3>1 DEF CycleSingle, Inv, BridgeTypes, ReceivedInv
  <2> QED BY <2>1, <2>2, CycleStepInv
<1> QED BY <1>1, <1>2, <1>3 DEF m2o_cycleMessages

-----------------------------------------------------------------------------
(* The theorems.                                                           *)

\* Every step of the bridge that overruns nothing keeps the invariant.
LEMMA BridgeInv == Inv /\ Bridge /\ ~overrun' => Inv'
<1> SUFFICES ASSUME Inv, Bridge, ~overrun' PROVE Inv'
  OBVIOUS
<1>1. CASE m2o_init
  BY <1>1, ResetInv
<1>2. ASSUME NEW m \in Incoming, m2o_basicId(m) PROVE Inv'
  BY <1>2, BasicIdInv, BridgeAssumption DEF BridgeAssumption
<1>3. ASSUME NEW m \in Incoming, m2o_authentication(m) PROVE Inv'
  <2>1. m \in MavMessage /\ m.sub \in 0 .. AuthPages - 1
    BY <1>3, BridgeAssumption DEF BridgeAssumption, m2o_authentication, MavMessage
  <2>2. /\ <<AUTH, m.sub>> \in Slots /\ <<AUTH, m.sub>>[1] # BASIC_ID
        /\ Keep(<<AUTH, m.sub>>, m) /\ seq < MaxSeq
    BY <1>3, <2>1, SlotFacts DEF m2o_authentication, AUTH, BASIC_ID
  <2> QED BY <2>1, <2>2, OtherInv
<1>4. ASSUME NEW m \in Incoming, m2o_single(m) PROVE Inv'
  <2>1. m \in MavMessage
    BY BridgeAssumption DEF BridgeAssumption
  <2>2. /\ <<m.type, 0>> \in Slots /\ <<m.type, 0>>[1] # BASIC_ID
        /\ Keep(<<m.type, 0>>, m) /\ seq < MaxSeq
    BY <1>4, SlotFacts
    DEF m2o_single, Singles, LOCATION, SELF_ID, SYSTEM, OPERATOR_ID, BASIC_ID
  <2> QED BY <2>1, <2>2, OtherInv
<1>5. ASSUME NEW p \in IncomingPacks, m2o_messagePack(p) PROVE Inv'
  BY <1>5, MessagePackInv, BridgeAssumption DEF BridgeAssumption
<1>6. CASE m2o_collectMessagePack
  BY <1>6, CollectInv
<1>7. CASE m2o_cycleMessages
  BY <1>7, CycleInv
<1>8. ASSUME NEW p \in IncomingPacks, m2o_messagePackOverruns(p) PROVE Inv'
  BY <1>8 DEF m2o_messagePackOverruns
<1> QED BY <1>1, <1>2, <1>3, <1>4, <1>5, <1>6, <1>7, <1>8 DEF Bridge

\* What is proved of every state: the flag is one, and before an overrun the
\* invariant holds.
SafeInv == overrun \in BOOLEAN /\ (~overrun => Inv)

\* The flag is never taken back.
LEMMA OverrunStays ==
  ASSUME overrun \in BOOLEAN, [Next]_vars
  PROVE  overrun' \in BOOLEAN /\ (~overrun' => ~overrun)
<1>1. CASE ~overrun /\ Bridge
  <2>1. overrun' = overrun \/ overrun' = TRUE
    BY <1>1, Zenon
    DEF Bridge, m2o_init, m2o_basicId, m2o_authentication, m2o_single, Keep, m2o_messagePack,
        m2o_messagePackOverruns, m2o_collectMessagePack, m2o_cycleMessages, CycleBasicID,
        CycleAuth, CycleSingle, Advance, stored
  <2> QED BY <1>1, <2>1, Zenon
<1>2. CASE UNCHANGED vars
  BY <1>2, Zenon DEF vars, stored
<1> QED BY <1>1, <1>2 DEF Next

\* Every step keeps it.
LEMMA NextInv == SafeInv /\ [Next]_vars => SafeInv'
<1> SUFFICES ASSUME SafeInv, [Next]_vars PROVE SafeInv'
  OBVIOUS
<1>1. overrun' \in BOOLEAN /\ (~overrun' => ~overrun)
  BY OverrunStays DEF SafeInv
<1>2. ASSUME ~overrun' PROVE Inv'
  <2>1. Inv
    BY <1>1, <1>2 DEF SafeInv
  <2>2. CASE Bridge
    BY <1>2, <2>1, <2>2, BridgeInv
  <2>3. CASE UNCHANGED vars
    <3>1. UNCHANGED <<enc, valid, pack, packValid, seq>> /\ UNCHANGED cycling
      BY <2>3 DEF vars, stored
    <3> QED BY <2>1, <3>1, PackStepInv DEF Inv, BridgeTypes
  <2> QED BY <2>2, <2>3 DEF Next
<1> QED BY <1>1, <1>2 DEF SafeInv

\* The invariant of every state, as a theorem of the specification.
LEMMA SafeAlways == Spec => []SafeInv
<1>1. Init => SafeInv
  <2>1. Init => overrun \in BOOLEAN
    BY Zenon DEF Init
  <2> QED BY <2>1, InitInv DEF SafeInv
<1> QED BY <1>1, NextInv, PTL DEF Spec

\* As long as no pack with more messages than fit has come in: MsgPackSize never
\* exceeds the room in messagePackEnc, also when a collection fails, and every
\* index of m2o_cycleMessages() stays inside its array.
THEOREM TypeCorrect == Spec => []TypeOK
<1>1. SafeInv => TypeOK
  BY DEF SafeInv, Inv, TypeOK
<1> QED BY <1>1, SafeAlways, PTL

\* m2o_basicId() gives each ID type one slot at most, for any number of slots.
THEOREM IdTypesAreApart == Spec => []OneSlotPerIdType
<1>1. SafeInv => OneSlotPerIdType
  BY DEF SafeInv, Inv, OneSlotInv, OneSlotPerIdType, IdType, BasicSlotNr
<1> QED BY <1>1, SafeAlways, PTL

\* m2o_cycleMessages() hands out only what came in over MAVLink.
THEOREM NothingBlankIsSent == Spec => []SentWasReceived
<1>1. SafeInv => SentWasReceived
  BY DEF SafeInv, Inv, SentInv, SentWasReceived
<1> QED BY <1>1, SafeAlways, PTL
-----------------------------------------------------------------------------
(***************************************************************************)
(* What a collected pack holds.  The k-th place gets the message of the    *)
(* k-th valid slot, so places of one type belong to different slots of     *)
(* that type, of which there are not too many.                             *)
(***************************************************************************)

\* Every slot holds a message of its own type.
TagInv == \A s \in Slots : enc[s].type = s[1]

DecodableInv == pack.size > 0 => checkPackContent(pack.msgs, pack.size)

PackInv == TagInv /\ DecodableInv

\* How many slots mav2odid_t has for a type.
Bound(t) == IF t = BASIC_ID THEN BasicIDs ELSE IF t = AUTH THEN AuthPages ELSE 1

\* A slot is a type and a number below the bound of the type.
LEMMA SlotShape ==
  ASSUME NEW s \in Slots
  PROVE  s = <<s[1], s[2]>> /\ s[1] \in 0 .. 5 /\ s[2] \in 0 .. Bound(s[1]) - 1
BY BridgeAssumption
DEF BridgeAssumption, Slots, Bound, Singles, BASIC_ID, LOCATION, AUTH, SELF_ID, SYSTEM,
    OPERATOR_ID

\* The order in which m2o_collectMessagePack() goes through the slots.
LEMMA PositionsApart ==
  /\ \A s \in Slots : Position(s) \in Nat
  /\ \A s, t \in Slots : Position(s) = Position(t) => s = t
<1>1. ASSUME NEW s \in Slots
      PROVE  \/ s[1] = BASIC_ID /\ Position(s) = s[2]
             \/ s[1] = LOCATION /\ Position(s) = BasicIDs
             \/ s[1] = AUTH /\ Position(s) = BasicIDs + 1 + s[2]
             \/ s[1] = SELF_ID /\ Position(s) = BasicIDs + AuthPages + 1
             \/ s[1] = SYSTEM /\ Position(s) = BasicIDs + AuthPages + 2
             \/ s[1] = OPERATOR_ID /\ Position(s) = BasicIDs + AuthPages + 3
  BY SlotShape
  DEF Position, BASIC_ID, LOCATION, AUTH, SELF_ID, SYSTEM, OPERATOR_ID
<1> USE BridgeAssumption
    DEF BridgeAssumption, Bound, BASIC_ID, LOCATION, AUTH, SELF_ID, SYSTEM, OPERATOR_ID
<1>2. ASSUME NEW s \in Slots PROVE Position(s) \in Nat
  BY <1>1, SlotShape
<1>3. ASSUME NEW s \in Slots, NEW t \in Slots, Position(s) = Position(t) PROVE s = t
  <2>1. s[1] = t[1] /\ s[2] = t[2]
    BY <1>1, <1>3, SlotShape
  <2> QED BY <2>1, SlotShape
<1> QED BY <1>2, <1>3

\* A finite set whose elements have different positions has a k-th element.
LEMMA EveryRankIsTaken ==
  ASSUME NEW V, IsFiniteSet(V), NEW pos \in [V -> Nat],
         \A x, y \in V : pos[x] = pos[y] => x = y,
         NEW k \in 1 .. Cardinality(V)
  PROVE  \E x \in V : Cardinality({ y \in V : pos[y] < pos[x] }) = k - 1
<1> DEFINE Below(x) == { y \in V : pos[y] < pos[x] }
           n == Cardinality(V)
           R == 0 .. n - 1
           rank == [x \in V |-> Cardinality(Below(x))]
<1>1. n \in Nat
  BY FS_CardinalityType
<1>2. ASSUME NEW x \in V PROVE IsFiniteSet(Below(x)) /\ Cardinality(Below(x)) \in R
  <2>1. Below(x) \in SUBSET (V \ {x})
    OBVIOUS
  <2>2. IsFiniteSet(V \ {x}) /\ Cardinality(V \ {x}) = n - 1
    BY FS_RemoveElement
  <2> HIDE DEF Below
  <2>3. IsFiniteSet(Below(x)) /\ Cardinality(Below(x)) <= n - 1
    BY <2>1, <2>2, FS_Subset
  <2>4. Cardinality(Below(x)) \in Nat
    BY <2>3, FS_CardinalityType
  <2> QED BY <1>1, <2>3, <2>4
<1>3. ASSUME NEW x \in V, NEW y \in V, pos[x] < pos[y]
      PROVE  Cardinality(Below(x)) < Cardinality(Below(y))
  <2>1. Below(x) \cup {x} \in SUBSET Below(y) /\ x \notin Below(x)
    BY <1>3
  <2> HIDE DEF Below
  <2>2. Cardinality(Below(x) \cup {x}) = Cardinality(Below(x)) + 1
    BY <1>2, <2>1, FS_AddElement
  <2>3. Cardinality(Below(x) \cup {x}) <= Cardinality(Below(y))
    BY <1>2, <2>1, FS_Subset
  <2>4. Cardinality(Below(x)) \in Int /\ Cardinality(Below(y)) \in Int
    BY <1>2
  <2> QED BY <2>2, <2>3, <2>4
<1> HIDE DEF Below
<1>4. ASSUME NEW x \in V, NEW y \in V, Cardinality(Below(x)) = Cardinality(Below(y))
      PROVE  x = y
  <2>1. Cardinality(Below(x)) \in Int /\ Cardinality(Below(y)) \in Int
    BY <1>2
  <2>2. ~(pos[x] < pos[y]) /\ ~(pos[y] < pos[x])
    BY <1>3, <1>4, <2>1
  <2>3. pos[x] = pos[y]
    BY <2>2
  <2> QED BY <2>3
<1>5. rank \in Injection(V, R)
  <2>1. rank \in [V -> R]
    BY <1>2
  <2>2. \A x, y \in DOMAIN rank : rank[x] = rank[y] => x = y
    BY <1>4
  <2> HIDE DEF rank
  <2> QED BY <2>1, <2>2, Zenon DEF Injection, IsInjective
<1>6. IsFiniteSet(R) /\ Cardinality(R) = n
  <2>1. n - 1 \in Int
    BY <1>1
  <2>2. IsFiniteSet(R) /\ Cardinality(R) = IF 0 > n - 1 THEN 0 ELSE n - 1 - 0 + 1
    BY <2>1, FS_Interval
  <2> QED BY <1>1, <2>2
<1> HIDE DEF R
<1>7. rank \in Surjection(V, R)
  BY <1>5, <1>6, FS_Injection
<1>8. k - 1 \in R
  BY <1>1 DEF R
<1>9. PICK x \in V : rank[x] = k - 1
  BY <1>7, <1>8, Zenon DEF Surjection
<1> QED BY <1>9 DEF Below

\* As many places as there are valid messages are filled from a slot.
LEMMA PlaceIsFilled ==
  ASSUME valid \in [Slots -> BOOLEAN], NEW k \in 1 .. NumValid
  PROVE  \E s \in Slots : IsNth(s, k)
<1> DEFINE V == { s \in Slots : valid[s] }
<1>1. IsFiniteSet(V) /\ V \subseteq Slots
  <2>1. V \in SUBSET Slots
    OBVIOUS
  <2> HIDE DEF V
  <2> QED BY <2>1, SlotsFinite, FS_Subset
<1>2. /\ \A x \in V : Position(x) \in Nat
      /\ \A x, y \in V : Position(x) = Position(y) => x = y
  BY <1>1, PositionsApart
<1>3. k \in 1 .. Cardinality(V)
  BY DEF NumValid
<1>4. \A x \in V : { y \in V : Position(y) < Position(x) }
                     = { y \in Slots : valid[y] /\ Position(y) < Position(x) }
  OBVIOUS
<1>5. \A x \in V : x \in Slots /\ valid[x]
  OBVIOUS
<1> HIDE DEF V
<1> DEFINE pos == [x \in V |-> Position(x)]
<1>6. pos \in [V -> Nat] /\ \A x \in V : pos[x] = Position(x)
  BY <1>2
<1> HIDE DEF pos
<1>7. \A x, y \in V : pos[x] = pos[y] => x = y
  BY <1>2, <1>6
<1>8. PICK x \in V : Cardinality({ y \in V : pos[y] < pos[x] }) = k - 1
  BY <1>1, <1>3, <1>6, <1>7, EveryRankIsTaken
<1>9. { y \in V : pos[y] < pos[x] } = { y \in Slots : valid[y] /\ Position(y) < Position(x) }
  BY <1>4, <1>6, Zenon
<1> QED BY <1>5, <1>8, <1>9 DEF IsNth

\* checkPackContent() looks at types only.
LEMMA ContentIsTypes ==
  ASSUME NEW a, NEW b, NEW n, \A k \in 1 .. n : a[k].type = b[k].type,
         checkPackContent(a, n)
  PROVE  checkPackContent(b, n)
<1>1. \A t : Count(a, n, t) = Count(b, n, t)
  <2> SUFFICES ASSUME NEW t PROVE Count(a, n, t) = Count(b, n, t)
    OBVIOUS
  <2>1. { k \in 1 .. n : a[k].type = t } = { k \in 1 .. n : b[k].type = t }
    OBVIOUS
  <2> QED BY <2>1, Zenon DEF Count
<1> QED BY <1>1, Zenon DEF checkPackContent

\* The first n messages of a collected pack pass checkPackContent(), if there
\* are as many valid ones.
LEMMA CollectedIsDecodable ==
  ASSUME BridgeTypes, TagInv, NEW n \in 1 .. PackMax, n <= NumValid
  PROVE  checkPackContent(Filled(PackMax), n)
<1> DEFINE F == Filled(PackMax)
           c(k) == CHOOSE s \in Slots : IsNth(s, k)
<1>0. n \in Nat /\ PackMax \in Nat /\ BasicIDs \in Nat /\ AuthPages \in Nat /\ NumValid \in Nat
  BY BridgeAssumption, NumValidType DEF BridgeAssumption
<1>1. ASSUME NEW k \in 1 .. n
      PROVE  c(k) \in Slots /\ IsNth(c(k), k) /\ F[k] = enc[c(k)] /\ F[k].type = c(k)[1]
  <2>1. k \in 1 .. NumValid /\ k \in 1 .. PackMax /\ k <= PackMax
    BY <1>0
  <2>2. \E s \in Slots : IsNth(s, k)
    BY <2>1, PlaceIsFilled DEF BridgeTypes
  <2>3. c(k) \in Slots /\ IsNth(c(k), k)
    BY <2>2, Zenon
  <2>4. F[k] = enc[c(k)]
    BY <2>1, <2>2, Zenon DEF Filled
  <2> HIDE DEF c, F
  <2> QED BY <2>3, <2>4 DEF TagInv
<1> HIDE DEF c, F
<1>2. ASSUME NEW j \in 1 .. n, NEW k \in 1 .. n, c(j) = c(k) PROVE j = k
  <2>1. IsNth(c(j), j) /\ IsNth(c(j), k)
    BY <1>1, <1>2
  <2>2. j - 1 = k - 1
    BY <2>1, Zenon DEF IsNth
  <2> QED BY <2>2
<1>3. \A k \in 1 .. n : F[k].type <= OPERATOR_ID
  BY <1>1, SlotShape DEF OPERATOR_ID
<1>4. ASSUME NEW t PROVE Bound(t) \in Nat \ {0} /\ Count(F, n, t) <= Bound(t)
  <2> DEFINE K == { k \in 1 .. n : F[k].type = t }
             B == 0 .. Bound(t) - 1
             f == [k \in K |-> c(k)[2]]
  <2>1. Bound(t) \in Nat \ {0}
    BY BridgeAssumption DEF BridgeAssumption, Bound
  <2>2. ASSUME NEW k \in K
        PROVE  k \in 1 .. n /\ c(k) = <<t, c(k)[2]>> /\ c(k)[2] \in B
    BY <1>1, SlotShape
  <2>3. f \in Injection(K, B)
    <3>1. f \in [K -> B]
      BY <2>2
    <3>2. ASSUME NEW j \in K, NEW k \in K, f[j] = f[k] PROVE j = k
      <4>1. c(j)[2] = c(k)[2]
        BY <3>2
      <4>2. c(j) = c(k)
        BY <2>2, <4>1, Zenon
      <4> QED BY <1>2, <2>2, <4>2, Zenon
    <3>3. DOMAIN f = K
      OBVIOUS
    <3> HIDE DEF f, K, B
    <3> QED BY <3>1, <3>2, <3>3, Zenon DEF Injection, IsInjective
  <2>4. IsFiniteSet(B) /\ Cardinality(B) = Bound(t)
    <3>1. Bound(t) - 1 \in Int /\ Bound(t) - 1 >= 0
      BY <2>1
    <3>2. IsFiniteSet(B) /\ Cardinality(B) = IF 0 > Bound(t) - 1 THEN 0 ELSE Bound(t) - 1 - 0 + 1
      BY <3>1, FS_Interval
    <3> QED BY <2>1, <3>2
  <2> HIDE DEF B, f
  <2>5. Cardinality(K) <= Cardinality(B)
    BY <2>3, <2>4, FS_Injection
  <2> QED BY <2>1, <2>4, <2>5 DEF Count
<1>5. Count(F, n, BASIC_ID) <= BasicIDs /\ Count(F, n, AUTH) <= AuthPages
  <2>1. Bound(BASIC_ID) = BasicIDs /\ Bound(AUTH) = AuthPages
    BY DEF Bound, BASIC_ID, AUTH
  <2> QED BY <1>4, <2>1
<1>6. ASSUME NEW t \in Singles PROVE Count(F, n, t) <= 1
  <2>1. Bound(t) = 1
    BY DEF Bound, Singles, BASIC_ID, AUTH, LOCATION, SELF_ID, SYSTEM, OPERATOR_ID
  <2> QED BY <1>4, <2>1
<1>7. n \in 1 .. PackMax
  OBVIOUS
<1> QED BY <1>3, <1>5, <1>6, <1>7, Zenon DEF checkPackContent, F

\* It holds at the start and after m2o_init().
LEMMA FreshPack ==
  ASSUME NEW e, NEW v, NEW p, NEW pv, NEW idx, Fresh(e, v, p, pv, idx)
  PROVE  (\A s \in Slots : e[s].type = s[1]) /\ ~(p.size > 0)
BY DEF Fresh, Blank, EmptyPack

\* A message is stored in a slot of its type.
LEMMA KeepPack ==
  ASSUME BridgeTypes, PackInv, NEW m, NEW s \in Slots, Keep(s, m), m.type = s[1]
  PROVE  PackInv'
<1> DEFINE e == [type |-> m.type, sub |-> m.sub, seq |-> seq + 1]
<1>1. enc' = [enc EXCEPT ![s] = e] /\ e.type = s[1] /\ UNCHANGED pack
  BY DEF Keep
<1> HIDE DEF e
<1>2. TagInv'
  BY <1>1 DEF PackInv, TagInv, BridgeTypes
<1>3. DecodableInv'
  BY <1>1 DEF PackInv, DecodableInv
<1> QED BY <1>2, <1>3 DEF PackInv

\* Every step of the bridge that overruns nothing keeps it: a failed collection
\* too, since it has then written every place of the pack.
LEMMA PackBridge == BridgeTypes /\ PackInv /\ Bridge /\ ~overrun' => PackInv'
<1> SUFFICES ASSUME BridgeTypes, PackInv, Bridge, ~overrun' PROVE PackInv'
  OBVIOUS
<1>1. CASE m2o_init
  <2>1. Fresh(enc', valid', pack', packValid', scheduleIdx')
    BY <1>1 DEF m2o_init
  <2>2. (\A s \in Slots : enc'[s].type = s[1]) /\ ~(pack'.size > 0)
    BY <2>1, FreshPack
  <2> QED BY <2>2 DEF PackInv, TagInv, DecodableInv
<1>2. ASSUME NEW m \in Incoming, m2o_basicId(m) PROVE PackInv'
  <2>1. PICK n \in BasicSlots(m.sub) : Keep(<<BASIC_ID, n>>, m)
    BY <1>2 DEF m2o_basicId
  <2>2. <<BASIC_ID, n>> \in Slots /\ m.type = <<BASIC_ID, n>>[1]
    BY <1>2, <2>1, SlotFacts DEF m2o_basicId, BasicSlots, BasicSlotNr
  <2> QED BY <2>1, <2>2, KeepPack
<1>3. ASSUME NEW m \in Incoming, m2o_authentication(m) PROVE PackInv'
  <2>1. m.sub \in 0 .. AuthPages - 1
    BY <1>3, BridgeAssumption DEF BridgeAssumption, m2o_authentication, MavMessage
  <2>2. /\ <<AUTH, m.sub>> \in Slots /\ m.type = <<AUTH, m.sub>>[1]
        /\ Keep(<<AUTH, m.sub>>, m)
    BY <1>3, <2>1, SlotFacts DEF m2o_authentication
  <2> QED BY <2>2, KeepPack
<1>4. ASSUME NEW m \in Incoming, m2o_single(m) PROVE PackInv'
  <2>1. /\ <<m.type, 0>> \in Slots /\ m.type = <<m.type, 0>>[1]
        /\ Keep(<<m.type, 0>>, m)
    BY <1>4, SlotFacts DEF m2o_single
  <2> QED BY <2>1, KeepPack
<1>5. ASSUME NEW p \in IncomingPacks, m2o_messagePack(p) PROVE PackInv'
  <2> DEFINE n == Len(p.msgs)
             f == [k \in 1 .. PackMax |->
                     IF k <= n
                       THEN [type |-> p.msgs[k].type, sub |-> p.msgs[k].sub, seq |-> seq + 1]
                       ELSE pack.msgs[k]]
  <2>1. /\ checkPackContent(p.msgs, n) /\ n \in 1 .. PackMax
        /\ pack' = [size |-> n, msgs |-> f] /\ UNCHANGED enc
    BY <1>5 DEF m2o_messagePack, checkPackContent
  <2>2. \A k \in 1 .. n : p.msgs[k].type = f[k].type
    BY <2>1, BridgeAssumption DEF BridgeAssumption
  <2> HIDE DEF n, f
  <2>3. checkPackContent(f, n)
    BY <2>1, <2>2, ContentIsTypes
  <2>4. pack'.size = n /\ pack'.msgs = f
    BY <2>1
  <2> QED BY <2>1, <2>3, <2>4 DEF PackInv, TagInv, DecodableInv
<1>6. CASE m2o_collectMessagePack
  <2>0. NumValid \in Nat /\ PackMax \in Nat /\ pack.size \in 0 .. PackMax
    BY NumValidType, BridgeAssumption DEF BridgeAssumption, BridgeTypes
  <2>1. /\ pack'.size = IF NumValid <= PackMax THEN NumValid ELSE pack.size
        /\ pack'.msgs = Filled(PackMax) /\ UNCHANGED enc
    BY <1>6 DEF m2o_collectMessagePack
  <2>2. ASSUME pack'.size > 0 PROVE pack'.size \in 1 .. PackMax /\ pack'.size <= NumValid
    BY <2>0, <2>1, <2>2
  <2>3. DecodableInv'
    <3> SUFFICES ASSUME pack'.size > 0 PROVE checkPackContent(pack'.msgs, pack'.size)
      BY DEF DecodableInv
    <3> QED BY <2>1, <2>2, CollectedIsDecodable DEF PackInv
  <2> QED BY <2>1, <2>3 DEF PackInv, TagInv
<1>7. CASE m2o_cycleMessages
  <2>1. UNCHANGED <<enc, pack>>
    BY <1>7 DEF m2o_cycleMessages, CycleBasicID, CycleAuth, CycleSingle, Advance, stored
  <2> QED BY <2>1 DEF PackInv, TagInv, DecodableInv
<1>8. ASSUME NEW p \in IncomingPacks, m2o_messagePackOverruns(p) PROVE PackInv'
  BY <1>8 DEF m2o_messagePackOverruns
<1> QED BY <1>1, <1>2, <1>3, <1>4, <1>5, <1>6, <1>7, <1>8 DEF Bridge

\* And so does every step, until something is overrun.
LEMMA PackNext ==
  SafeInv /\ (~overrun => PackInv) /\ [Next]_vars => (~overrun => PackInv)'
<1> SUFFICES ASSUME SafeInv, ~overrun => PackInv, [Next]_vars, ~overrun' PROVE PackInv'
  OBVIOUS
<1>1. BridgeTypes /\ PackInv
  BY OverrunStays DEF SafeInv, Inv
<1>2. CASE Bridge
  BY <1>1, <1>2, PackBridge
<1>3. CASE UNCHANGED vars
  <2>1. UNCHANGED <<enc, pack>>
    BY <1>3 DEF vars, stored
  <2> QED BY <1>1, <2>1 DEF PackInv, TagInv, DecodableInv
<1> QED BY <1>2, <1>3 DEF Next

\* Whatever was collected or taken over, and however a collection failed, the
\* pack that is held can be decoded.
THEOREM HeldPackAlwaysDecodable == Spec => []HeldPackIsDecodable
<1>1. Init => (~overrun => PackInv)
  BY FreshPack DEF Init, PackInv, TagInv, DecodableInv
<1>2. (~overrun => PackInv) => HeldPackIsDecodable
  BY DEF PackInv, DecodableInv, HeldPackIsDecodable
<1> QED BY <1>1, <1>2, PackNext, SafeAlways, PTL DEF Spec
=============================================================================
