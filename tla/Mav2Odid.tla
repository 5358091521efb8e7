------------------------------ MODULE Mav2Odid ------------------------------
(***************************************************************************)
(* The MAVLink bridge (mav2odid.c).  m2o_parseMavlink() keeps the last     *)
(* message of each kind in encoded form, with a flag that says whether one *)
(* has come in; m2o_cycleMessages() hands them out one at a time by a      *)
(* schedule, for Bluetooth Legacy, and m2o_collectMessagePack() all at     *)
(* once, for the transports that send packs.                               *)
(*                                                                         *)
(* Data.  An encoded message is its type, the number that chooses its slot *)
(* (ID type or page), and seq, which counts the messages taken over: 0 is  *)
(* the empty message m2o_init() puts into every slot.  A message that an   *)
(* encoder or a converter refuses changes nothing and is no step.  Once a  *)
(* pack has been copied past the end of its array (overrun), the behaviour *)
(* of the program is undefined, and the model says no more about it.       *)
(***************************************************************************)
EXTENDS Naturals, Sequences, FiniteSets

CONSTANTS
  BasicIDs,       \* ODID_BASIC_ID_MAX_MESSAGES
  AuthPages,      \* ODID_AUTH_MAX_PAGES
  PackMax,        \* ODID_PACK_MAX_MESSAGES
  Incoming,       \* single messages that arrive over MAVLink
  IncomingPacks,  \* message packs that arrive over MAVLink
  MaxSeq          \* bound: messages taken over; no pack overruns later

BASIC_ID    == 0
LOCATION    == 1
AUTH        == 2
SELF_ID     == 3
SYSTEM      == 4
OPERATOR_ID == 5
PACKED      == 15
Singles     == {LOCATION, SELF_ID, SYSTEM, OPERATOR_ID}
ODID_IDTYPE_NONE == 0

\* inRange: the encoder's range checks pass; sizeOK: SingleMessageSize does.
MavMessage == [type : 0 .. 5, sub : Nat, inRange : BOOLEAN]
MavPack    == [sizeOK : BOOLEAN, msgs : Seq([type : 0 .. 15, sub : Nat])]
Encoded    == [type : 0 .. 15, sub : Nat, seq : Nat]

ASSUME BridgeAssumption ==
  /\ BasicIDs \in Nat \ {0} /\ AuthPages \in Nat \ {0} /\ PackMax \in Nat \ {0}
  /\ Incoming \subseteq MavMessage
  /\ IncomingPacks \subseteq MavPack
  /\ MaxSeq \in Nat

\* The members of mav2odid_t, each with its EncValid flag, and their order in a pack.
Slots == { <<BASIC_ID, n>> : n \in 0 .. BasicIDs - 1 }
           \cup { <<AUTH, p>> : p \in 0 .. AuthPages - 1 }
           \cup { <<t, 0>> : t \in Singles }

Position(s) ==
  CASE s[1] = BASIC_ID    -> s[2]
    [] s[1] = LOCATION    -> BasicIDs
    [] s[1] = AUTH        -> BasicIDs + 1 + s[2]
    [] s[1] = SELF_ID     -> BasicIDs + AuthPages + 1
    [] s[1] = SYSTEM      -> BasicIDs + AuthPages + 2
    [] s[1] = OPERATOR_ID -> BasicIDs + AuthPages + 3

\* DRONEID_SCHEDULER_SIZE and droneidSchedule: every second message is a Location.
ScheduleSize == 2 * (4 + AuthPages)
Schedule(k) ==
  CASE k = 0                 -> BASIC_ID
    [] k % 2 = 1             -> LOCATION
    [] k = 2 * AuthPages + 2 -> SELF_ID
    [] k = 2 * AuthPages + 4 -> SYSTEM
    [] k = 2 * AuthPages + 6 -> OPERATOR_ID
    [] OTHER                 -> AUTH

VARIABLES
  enc, valid,               \* the encoded messages and their EncValid flags
  pack, packValid,          \* messagePackEnc and messagePackEncValid
  scheduleIdx,
  basicIDIndex, authIndex,  \* statics of m2o_cycleMessages()
  data,                     \* the buffer its caller passes
  seq,
  overrun                   \* m2o_messagePack() has written past messagePack.Messages

stored  == <<enc, valid, pack, packValid, seq, overrun>>
cycling == <<scheduleIdx, basicIDIndex, authIndex, data>>
vars    == <<stored, cycling>>

Blank(s)  == [type |-> s[1], sub |-> IF s[1] = AUTH THEN s[2] ELSE 0, seq |-> 0]
Zero      == [type |-> BASIC_ID, sub |-> 0, seq |-> 0]
Untouched == [type |-> PACKED, sub |-> 0, seq |-> 0]
EmptyPack == [size |-> 0, msgs |-> [k \in 1 .. PackMax |-> Zero]]

\* What m2o_init() leaves.  The two statics are not its business.
Fresh(e, v, p, pv, idx) ==
  /\ e = [s \in Slots |-> Blank(s)] /\ v = [s \in Slots |-> FALSE]
  /\ p = EmptyPack /\ pv = FALSE
  /\ idx = 0

Init ==
  /\ Fresh(enc, valid, pack, packValid, scheduleIdx)
  /\ basicIDIndex = 0 /\ authIndex = 0
  /\ data = Untouched /\ seq = 0 /\ overrun = FALSE

m2o_init ==
  /\ Fresh(enc', valid', pack', packValid', scheduleIdx')
  /\ UNCHANGED <<basicIDIndex, authIndex, data, seq, overrun>>

-----------------------------------------------------------------------------
(***************************************************************************)
(* m2o_parseMavlink() and the converters.                                  *)
(***************************************************************************)

Keep(s, m) ==
  /\ enc' = [enc EXCEPT ![s] = [type |-> m.type, sub |-> m.sub, seq |-> seq + 1]]
  /\ valid' = [valid EXCEPT ![s] = TRUE]
  /\ seq' = seq + 1
  /\ UNCHANGED <<pack, packValid, overrun, cycling>>

\* Faulty variant: old data of the same type is not looked for.
FreeBasicSlots(t) ==
  { n \in 0 .. BasicIDs - 1 : enc[<<BASIC_ID, n>>].sub = ODID_IDTYPE_NONE }

\* The slots a Basic ID of type t may be stored in.
BasicSlots(t) ==
  { n \in 0 .. BasicIDs - 1 : enc[<<BASIC_ID, n>>].sub \in {ODID_IDTYPE_NONE, t} }

\* Faulty variant: the slots are searched from the end.
m2o_basicIdLast(m) ==
  /\ m.type = BASIC_ID /\ m.inRange /\ seq < MaxSeq
  /\ \E n \in BasicSlots(m.sub) :
       /\ \A k \in BasicSlots(m.sub) : n >= k
       /\ Keep(<<BASIC_ID, n>>, m)

\* The first free slot, or the one with old data of the same type.
m2o_basicId(m) ==
  /\ m.type = BASIC_ID /\ m.inRange /\ seq < MaxSeq
  /\ \E n \in BasicSlots(m.sub) :
       /\ \A k \in BasicSlots(m.sub) : n <= k
       /\ Keep(<<BASIC_ID, n>>, m)

m2o_authentication(m) ==
  /\ m.type = AUTH /\ m.inRange /\ seq < MaxSeq
  /\ m.sub < AuthPages
  /\ Keep(<<AUTH, m.sub>>, m)

\* m2o_location(), m2o_selfId(), m2o_system() and m2o_operatorId().
m2o_single(m) ==
  /\ m.type \in Singles /\ m.inRange /\ seq < MaxSeq
  /\ Keep(<<m.type, 0>>, m)

Count(msgs, n, t) == Cardinality({ k \in 1 .. n : msgs[k].type = t })

\* checkPackContent() on the first n messages.
checkPackContent(msgs, n) ==
  /\ n \in 1 .. PackMax
  /\ \A k \in 1 .. n : msgs[k].type <= OPERATOR_ID
  /\ Count(msgs, n, BASIC_ID) <= BasicIDs
  /\ Count(msgs, n, AUTH) <= AuthPages
  /\ \A t \in Singles : Count(msgs, n, t) <= 1

\* m2o_messagePack() of a pack that fits; encodeMessagePack() writes as many
\* messages as there are.
m2o_messagePack(p) ==
  /\ p.sizeOK /\ checkPackContent(p.msgs, Len(p.msgs)) /\ seq < MaxSeq
  /\ pack' = [size |-> Len(p.msgs),
              msgs |-> [k \in 1 .. PackMax |->
                          IF k <= Len(p.msgs)
                            THEN [type |-> p.msgs[k].type, sub |-> p.msgs[k].sub, seq |-> seq + 1]
                            ELSE pack.msgs[k]]]
  /\ packValid' = TRUE
  /\ seq' = seq + 1
  /\ UNCHANGED <<enc, valid, overrun, cycling>>

\* A pack with more messages than fit: msg_pack_size messages are copied into
\* the array on the stack before encodeMessagePack() looks at their number.
m2o_messagePackOverruns(p) ==
  /\ Len(p.msgs) > PackMax /\ seq < MaxSeq
  /\ overrun' = TRUE
  /\ UNCHANGED <<enc, valid, pack, packValid, seq, cycling>>

-----------------------------------------------------------------------------
(***************************************************************************)
(* m2o_collectMessagePack().                                               *)
(***************************************************************************)

\* The k-th valid message, in the order of the code.
IsNth(s, k) ==
  /\ valid[s]
  /\ Cardinality({ t \in Slots : valid[t] /\ Position(t) < Position(s) }) = k - 1

\* What Messages holds once the first n places have been tried.
Filled(n) == [k \in 1 .. PackMax |->
                IF k <= n /\ \E s \in Slots : IsNth(s, k)
                  THEN enc[CHOOSE s \in Slots : IsNth(s, k)]
                  ELSE pack.msgs[k]]

NumValid == Cardinality({ s \in Slots : valid[s] })

\* Faulty variants: the size is set although the pack is full; the last place
\* is taken to be past the end.
CollectUnchecked ==
  /\ pack' = [size |-> NumValid, msgs |-> Filled(PackMax)]
  /\ UNCHANGED <<enc, valid, packValid, seq, overrun, cycling>>
CollectStopsEarly ==
  /\ pack' = [size |-> IF NumValid < PackMax THEN NumValid ELSE pack.size,
              msgs |-> Filled(PackMax - 1)]
  /\ UNCHANGED <<enc, valid, packValid, seq, overrun, cycling>>

\* When the messages do not all fit the function fails, after it has copied
\* those that do, and MsgPackSize keeps its old value.
m2o_collectMessagePack ==
  /\ pack' = [size |-> IF NumValid <= PackMax THEN NumValid ELSE pack.size,
              msgs |-> Filled(PackMax)]
  /\ UNCHANGED <<enc, valid, packValid, seq, overrun, cycling>>

-----------------------------------------------------------------------------
(***************************************************************************)
(* m2o_cycleMessages(): the message that is due, if valid, is copied into  *)
(* the caller's buffer; otherwise the buffer keeps what it held.           *)
(***************************************************************************)
Due == Schedule(scheduleIdx)

Advance ==
  /\ scheduleIdx' = (scheduleIdx + 1) % ScheduleSize
  /\ UNCHANGED stored

\* The loop steps basicIDIndex on to the next valid Basic ID, all the way
\* round if there is none, and then copies the first one.
CycleBasicID ==
  /\ Due = BASIC_ID
  /\ LET hit(k) == valid[<<BASIC_ID, (basicIDIndex + k) % BasicIDs>>]
     IN  \/ /\ \A k \in 1 .. BasicIDs : ~hit(k)
            /\ UNCHANGED <<basicIDIndex, data>>
         \/ \E k \in 1 .. BasicIDs :
              /\ hit(k) /\ \A j \in 1 .. k - 1 : ~hit(j)
              /\ basicIDIndex' = (basicIDIndex + k) % BasicIDs
              /\ data' = enc[<<BASIC_ID, 0>>]
  /\ Advance /\ UNCHANGED authIndex

\* Faulty variant: the page stays due until it is valid.
CycleAuthWaits ==
  /\ Due = AUTH
  /\ data' = IF valid[<<AUTH, authIndex>>] THEN enc[<<AUTH, authIndex>>] ELSE data
  /\ authIndex' = IF valid[<<AUTH, authIndex>>] THEN (authIndex + 1) % AuthPages ELSE authIndex
  /\ Advance /\ UNCHANGED basicIDIndex

CycleAuth ==
  /\ Due = AUTH
  /\ data' = IF valid[<<AUTH, authIndex>>] THEN enc[<<AUTH, authIndex>>] ELSE data
  /\ authIndex' = (authIndex + 1) % AuthPages
  /\ Advance /\ UNCHANGED basicIDIndex

CycleSingle ==
  /\ Due \in Singles
  /\ data' = IF valid[<<Due, 0>>] THEN enc[<<Due, 0>>] ELSE data
  /\ Advance /\ UNCHANGED <<basicIDIndex, authIndex>>

m2o_cycleMessages == CycleBasicID \/ CycleAuth \/ CycleSingle

-----------------------------------------------------------------------------
Bridge ==
  \/ m2o_init
  \/ \E m \in Incoming : m2o_basicId(m) \/ m2o_authentication(m) \/ m2o_single(m)
  \/ \E p \in IncomingPacks : m2o_messagePack(p) \/ m2o_messagePackOverruns(p)
  \/ m2o_collectMessagePack
  \/ m2o_cycleMessages

Next ==
  \/ ~overrun /\ Bridge
  \/ overrun /\ UNCHANGED vars

Spec == Init /\ [][Next]_vars

\* The application calls m2o_cycleMessages() periodically.
FairSpec == Spec /\ WF_vars(~overrun /\ m2o_cycleMessages)

-----------------------------------------------------------------------------
(***************************************************************************)
(* Properties.                                                             *)
(***************************************************************************)

(* All of them are about the time before the first pack with more messages *)
(* than fit.                                                               *)

\* The members of mav2odid_t, the statics and the caller's buffer.
BridgeTypes ==
  /\ enc \in [Slots -> Encoded]
  /\ valid \in [Slots -> BOOLEAN]
  /\ pack \in [size : 0 .. PackMax, msgs : [1 .. PackMax -> Encoded]]
  /\ packValid \in BOOLEAN
  /\ scheduleIdx \in 0 .. ScheduleSize - 1
  /\ basicIDIndex \in 0 .. BasicIDs - 1
  /\ authIndex \in 0 .. AuthPages - 1
  /\ data \in Encoded
  /\ seq \in 0 .. MaxSeq

\* The variables' types; as long as no pack with more than
\* ODID_PACK_MAX_MESSAGES messages has come in, MsgPackSize does not exceed the
\* room in messagePackEnc, however m2o_collectMessagePack() fails, and every
\* index of m2o_cycleMessages() stays inside its array.
TypeOK == overrun \in BOOLEAN /\ (~overrun => BridgeTypes)

\* m2o_basicId() never keeps two Basic IDs of one type, in whatever order the
\* types arrive, come again, or come without a type.
OneSlotPerIdType ==
  ~overrun =>
    \A i, j \in 0 .. BasicIDs - 1 :
      /\ enc[<<BASIC_ID, i>>].sub # ODID_IDTYPE_NONE
      /\ enc[<<BASIC_ID, i>>].sub = enc[<<BASIC_ID, j>>].sub
      => i = j

\* What m2o_cycleMessages() hands out came in over MAVLink: never the blank
\* message of m2o_init(), although the flag it tests for a Basic ID is that
\* of one slot and the message it copies that of another.
SentWasReceived == ~overrun => data = Untouched \/ data.seq > 0

\* The pack that messagePackEnc holds is one that decodeMessagePack() accepts,
\* or empty: a collection that fails half way leaves no mixture of old and new
\* messages within the old MsgPackSize.
HeldPackIsDecodable ==
  ~overrun /\ pack.size > 0 => checkPackContent(pack.msgs, pack.size)

\* Every valid message is handed out, or taken back by m2o_init(), whatever
\* basicIDIndex and authIndex m2o_init() found and whichever pages are valid.
\* The exception is a second Basic ID: m2o_cycleMessages() copies the first one
\* in its place.
ValidIsSent ==
  \A s \in {u \in Slots : u[1] # BASIC_ID \/ u[2] = 0} :
    valid[s] ~> (~valid[s] \/ data = enc[s] \/ overrun)
=============================================================================
