------------------------------ MODULE OdidPack ------------------------------
(***************************************************************************)
(* Message packs, from the data of a transmitter to the data of the radar. *)
(*                                                                         *)
(* Two programs fill a pack.  transmit.c (create_message_pack) encodes its *)
(* nine messages one after the other into one scratch buffer and copies    *)
(* the buffer into the pack after each; its GPS thread rewrites the        *)
(* Location meanwhile.  The library (odid_message_build_pack, used by      *)
(* wifi/sender) encodes every message marked valid straight into a pack    *)
(* that lies uninitialised on the stack.  Neither looks at the result of   *)
(* an encoder again.  The radar (callback, odid_message_process_pack,      *)
(* decodeOpenDroneID) decodes a pack message by message into slots that    *)
(* are kept from one frame to the next.                                    *)
(*                                                                         *)
(* Data.  A message is its type nibble, the number that chooses its slot   *)
(* (ID type of a Basic ID, page of an Authentication message), whether its *)
(* other fields pass the decoder's range checks, and the fix it was        *)
(* encoded from.                                                           *)
(***************************************************************************)
EXTENDS Naturals, Sequences, FiniteSets

CONSTANTS
  Transmit,   \* the messages create_message_pack() encodes, in order
  Filled,     \* the messages callers of odid_message_build_pack() mark valid
  Junk,       \* what an uninitialised message of a pack may hold
  Foreign,    \* frames of other devices
  MaxFix      \* bound: fixes the GPS delivers

\* ODID_messagetype_t; the type of a message is the upper half of its first octet.
BASIC_ID    == 0
LOCATION    == 1
AUTH        == 2
SELF_ID     == 3
SYSTEM      == 4
OPERATOR_ID == 5
PACKED      == 15
Nibble      == 0 .. 15

ODID_PACK_MAX_MESSAGES     == 9
ODID_BASIC_ID_MAX_MESSAGES == 2
ODID_AUTH_MAX_PAGES        == 16
ODID_IDTYPE_NONE           == 0

Kind    == [type : Nibble, sub : Nibble]
Message == [type : Nibble, sub : Nibble, sound : BOOLEAN, fix : Nat]
KindOf(m) == [type |-> m.type, sub |-> m.sub]

\* A frame with a pack.  via: a NAN action frame or the vendor element of a
\* beacon; header: the pack's own type and message size are right; room: the
\* messages that fit into the octets received; tail: what follows is in order.
Frame == [via : {"beacon", "nan"}, header : BOOLEAN, msgs : Seq(Message),
          room : Nat, tail : BOOLEAN]

ASSUME PackAssumption ==
  /\ Transmit \in Seq(Kind)
  /\ Filled \subseteq Seq(Kind)
  /\ Junk \subseteq Message
  /\ Foreign \subseteq Frame
  /\ MaxFix \in Nat

\* Two Basic IDs stand before the one Location in create_message_pack(), which
\* writes no more messages than a pack holds.
ASSUME TransmitAssumption ==
  /\ Len(Transmit) >= 3 /\ Len(Transmit) <= ODID_PACK_MAX_MESSAGES
  /\ Transmit[1].type = BASIC_ID /\ Transmit[2].type = BASIC_ID
  /\ \A j \in DOMAIN Transmit : Transmit[j].type = LOCATION <=> j = 3

\* The members of ODID_UAS_Data, each with its Valid flag.
Slots == { <<BASIC_ID, n>> : n \in 0 .. ODID_BASIC_ID_MAX_MESSAGES - 1 }
           \cup { <<AUTH, p>> : p \in 0 .. ODID_AUTH_MAX_PAGES - 1 }
           \cup { <<t, 0>> : t \in {LOCATION, SELF_ID, SYSTEM, OPERATOR_ID} }
Invalid == [type |-> PACKED, sub |-> 0, sound |-> FALSE, fix |-> 0]
Cleared == [s \in Slots |-> Invalid]

VARIABLES
  app,        \* the program this transmitter runs
  loc,        \* uasData->Location: its fix, and whether it is in range
  spc, entries, scratch, messages,      \* create_ / odid_message_build_pack
  air,        \* the frame on the air
  rpc, frame, pass, i, result, uas      \* callback() and UAS_data

txVars == <<spc, entries, scratch, messages, air>>
rxVars == <<rpc, frame, pass, i, result, uas>>
vars   == <<app, loc, txVars, rxVars>>

\* A pack_enc that was never filled: all octets zero.
ZeroPack == [via |-> "beacon", header |-> FALSE, msgs |-> <<>>, room |-> 0, tail |-> TRUE]
ZeroMessage == [type |-> BASIC_ID, sub |-> 0, sound |-> TRUE, fix |-> 0]

Init ==
  /\ app \in {"transmit", "library"}
  /\ loc = [fix |-> 0, inRange |-> TRUE]
  /\ spc = "idle" /\ entries = <<>> /\ scratch = ZeroMessage /\ messages = <<>>
  /\ air = ZeroPack
  /\ rpc = "idle" /\ frame = ZeroPack /\ pass = 0 /\ i = 1 /\ result = FALSE
  /\ uas = Cleared

-----------------------------------------------------------------------------
(***************************************************************************)
(* The transmitter.                                                        *)
(***************************************************************************)

\* A fix is stored; an altitude or a speed may lie outside the encoder's
\* limits.  transmit.c's GPS thread does this at any time, wifi/sender between
\* two packs.
NewFix ==
  /\ loc.fix < MaxFix
  /\ app = "transmit" \/ spc = "idle"
  /\ \E good \in BOOLEAN : loc' = [fix |-> loc.fix + 1, inRange |-> good]
  /\ UNCHANGED <<app, txVars, rxVars>>

\* send_packs() zeroes pack_enc and create_message_pack() its scratch buffer.
CreatePack ==
  /\ spc = "idle" /\ app = "transmit"
  /\ spc' = "encode" /\ entries' = Transmit
  /\ scratch' = ZeroMessage /\ messages' = <<>>
  /\ UNCHANGED <<app, loc, air, rxVars>>

BuildPack ==
  /\ spc = "idle" /\ app = "library"
  /\ \E valid \in Filled : entries' = valid
  /\ spc' = "encode" /\ messages' = <<>>
  /\ UNCHANGED <<app, loc, scratch, air, rxVars>>

Entry == entries[Len(messages) + 1]

\* What the encoders write.  Only the Location's contents change while the
\* programs run, the rest is filled in once with values in range.
Encoded(e) == [type |-> e.type, sub |-> e.sub, sound |-> TRUE,
               fix |-> IF e.type = LOCATION THEN loc.fix ELSE 0]
Encodes(e) == e.type = LOCATION => loc.inRange

\* Faulty variant: odid_message_build_pack() does not look whether there is room
\* for another message.
EncodeNextNoRoom ==
  /\ spc = "encode" /\ Len(messages) < Len(entries)
  /\ Encodes(Entry)
  /\ scratch' = IF app = "transmit" THEN Encoded(Entry) ELSE scratch
  /\ messages' = Append(messages, Encoded(Entry))
  /\ UNCHANGED <<app, loc, spc, entries, air, rxVars>>

EncodeNext ==
  /\ spc = "encode" /\ Len(messages) < Len(entries)
  /\ app = "library" => Len(messages) < ODID_PACK_MAX_MESSAGES
  /\ Encodes(Entry)
  /\ scratch' = IF app = "transmit" THEN Encoded(Entry) ELSE scratch
  /\ messages' = Append(messages, Encoded(Entry))
  /\ UNCHANGED <<app, loc, spc, entries, air, rxVars>>

\* create_message_pack() reports the failure and copies the scratch buffer,
\* which still holds the previous message.
EncodeFails ==
  /\ spc = "encode" /\ Len(messages) < Len(entries)
  /\ app = "transmit" /\ ~Encodes(Entry)
  /\ messages' = Append(messages, scratch)
  /\ UNCHANGED <<app, loc, spc, entries, scratch, air, rxVars>>

\* odid_message_build_pack() counts the message all the same.
EncodeLeavesJunk(m) ==
  /\ spc = "encode" /\ Len(messages) < Len(entries)
  /\ app = "library" /\ Len(messages) < ODID_PACK_MAX_MESSAGES
  /\ ~Encodes(Entry)
  /\ messages' = Append(messages, m)
  /\ UNCHANGED <<app, loc, spc, entries, scratch, air, rxVars>>

\* -EINVAL: no room for another message, or no message at all; -ENOMEM: the
\* caller's buffer is too short for the pack.
BuildFails ==
  /\ spc = "encode" /\ app = "library"
  /\ \/ Len(entries) = 0
     \/ Len(messages) = ODID_PACK_MAX_MESSAGES /\ Len(entries) > Len(messages)
     \/ Len(messages) = Len(entries)
  /\ spc' = "idle"
  /\ UNCHANGED <<app, loc, entries, scratch, messages, air, rxVars>>

Count(msgs, t) == Cardinality({ j \in DOMAIN msgs : msgs[j].type = t })

\* Faulty variant: a third Basic ID is let through.
CheckAllowsThreeBasicIDs(msgs) ==
  /\ Len(msgs) \in 1 .. ODID_PACK_MAX_MESSAGES
  /\ \A j \in DOMAIN msgs : msgs[j].type <= OPERATOR_ID
  /\ Count(msgs, BASIC_ID) <= ODID_BASIC_ID_MAX_MESSAGES + 1
  /\ \A t \in {LOCATION, SELF_ID, SYSTEM, OPERATOR_ID} : Count(msgs, t) <= 1

checkPackContent(msgs) ==
  /\ Len(msgs) \in 1 .. ODID_PACK_MAX_MESSAGES
  /\ \A j \in DOMAIN msgs : msgs[j].type <= OPERATOR_ID
  /\ Count(msgs, BASIC_ID) <= ODID_BASIC_ID_MAX_MESSAGES
  /\ Count(msgs, AUTH) <= ODID_AUTH_MAX_PAGES
  /\ \A t \in {LOCATION, SELF_ID, SYSTEM, OPERATOR_ID} : Count(msgs, t) <= 1

Packed(via) == [via |-> via, header |-> TRUE, msgs |-> messages,
                room |-> Len(messages), tail |-> TRUE]

\* encodeMessagePack().  transmit.c sends whatever pack_enc holds then, the
\* library returns an error and nothing is sent.
FinishPack ==
  /\ spc = "encode" /\ Len(messages) = Len(entries)
  /\ app = "library" => Len(entries) > 0
  /\ air' = IF checkPackContent(messages)
              THEN Packed(IF app = "transmit" THEN "beacon" ELSE "nan")
              ELSE IF app = "transmit" THEN ZeroPack ELSE air
  /\ spc' = "idle"
  /\ UNCHANGED <<app, loc, entries, scratch, messages, rxVars>>

-----------------------------------------------------------------------------
(***************************************************************************)
(* The radar.                                                              *)
(***************************************************************************)

\* callback() clears UAS_data for the vendor element of a beacon only.
Hear(f) ==
  /\ rpc = "idle"
  /\ frame' = f /\ pass' = 1
  /\ uas' = IF f.via = "beacon" THEN Cleared ELSE uas
  /\ rpc' = "process"
  /\ UNCHANGED <<app, loc, txVars, i, result>>

\* odid_message_process_pack() returns -ENOMEM before it touches anything.
TooShort ==
  /\ rpc = "process" /\ Len(frame.msgs) > frame.room
  /\ result' = FALSE /\ rpc' = "processed"
  /\ UNCHANGED <<app, loc, txVars, frame, pass, i, uas>>

\* Faulty variant: the data of the previous frame stays.
StartDecodeKeeps ==
  /\ rpc = "process" /\ Len(frame.msgs) <= frame.room
  /\ i' = 1 /\ result' = FALSE
  /\ rpc' = IF frame.header /\ checkPackContent(frame.msgs)
              THEN "decode" ELSE "processed"
  /\ UNCHANGED <<app, loc, txVars, frame, pass, uas>>

\* odid_initUasData(), then decodeMessagePack() up to its loop.
StartDecode ==
  /\ rpc = "process" /\ Len(frame.msgs) <= frame.room
  /\ uas' = Cleared /\ i' = 1 /\ result' = FALSE
  /\ rpc' = IF frame.header /\ checkPackContent(frame.msgs)
              THEN "decode" ELSE "processed"
  /\ UNCHANGED <<app, loc, txVars, frame, pass>>

\* A slot never written has ID type NONE, as has a Basic ID of that type.
StoredType(d, n) == LET m == d[<<BASIC_ID, n>>]
                    IN  IF m = Invalid THEN ODID_IDTYPE_NONE ELSE m.sub

\* Faulty variant: the search ends one slot early.
BasicSlotsAllButLast(d, t) ==
  { n \in 0 .. ODID_BASIC_ID_MAX_MESSAGES - 2 : StoredType(d, n) \in {ODID_IDTYPE_NONE, t} }

\* The slots a Basic ID of type t may go to; decodeOpenDroneID() takes the first.
BasicSlots(d, t) ==
  { n \in 0 .. ODID_BASIC_ID_MAX_MESSAGES - 1 : StoredType(d, n) \in {ODID_IDTYPE_NONE, t} }

\* The checks of the decoders: only Authentication messages have any that the
\* width of their fields does not make true.
Decodes(m) == m.type = AUTH => m.sound

decodeOpenDroneID(d, m) ==
  CASE m.type = BASIC_ID ->
         IF BasicSlots(d, m.sub) = {} THEN d
         ELSE LET n == CHOOSE n \in BasicSlots(d, m.sub) :
                         \A k \in BasicSlots(d, m.sub) : n <= k
              IN  [d EXCEPT ![<<BASIC_ID, n>>] = m]
    [] m.type = AUTH /\ Decodes(m) ->
         [d EXCEPT ![<<AUTH, m.sub>>] = m]
    [] m.type \in {LOCATION, SELF_ID, SYSTEM, OPERATOR_ID} /\ Decodes(m) ->
         [d EXCEPT ![<<m.type, 0>>] = m]
    [] OTHER -> d

DecodeNext ==
  /\ rpc = "decode" /\ i <= Len(frame.msgs)
  /\ uas' = decodeOpenDroneID(uas, frame.msgs[i])
  /\ i' = i + 1
  /\ UNCHANGED <<app, loc, txVars, rpc, frame, pass, result>>

DecodeDone ==
  /\ rpc = "decode" /\ i > Len(frame.msgs)
  /\ result' = TRUE /\ rpc' = "processed"
  /\ UNCHANGED <<app, loc, txVars, frame, pass, i, uas>>

\* For a beacon the pack is processed a second time, inside Serial.print().
ProcessAgain ==
  /\ rpc = "processed" /\ frame.via = "beacon" /\ pass = 1
  /\ pass' = 2 /\ rpc' = "process"
  /\ UNCHANGED <<app, loc, txVars, frame, i, result, uas>>

\* parse_odid() is called whatever a beacon's pack gave, and for a NAN frame
\* that is in order to its end.
Parse ==
  /\ rpc = "processed"
  /\ IF frame.via = "beacon" THEN pass = 2 ELSE result /\ frame.tail
  /\ rpc' = "parsed"
  /\ UNCHANGED <<app, loc, txVars, frame, pass, i, result, uas>>

Ignore ==
  /\ rpc = "processed" /\ frame.via = "nan" /\ ~(result /\ frame.tail)
  /\ rpc' = "idle"
  /\ UNCHANGED <<app, loc, txVars, frame, pass, i, result, uas>>

Return ==
  /\ rpc = "parsed"
  /\ rpc' = "idle"
  /\ UNCHANGED <<app, loc, txVars, frame, pass, i, result, uas>>

-----------------------------------------------------------------------------
Transmitter ==
  \/ NewFix \/ CreatePack \/ BuildPack \/ EncodeNext \/ EncodeFails
  \/ \E m \in Junk : EncodeLeavesJunk(m)
  \/ BuildFails \/ FinishPack

Radar ==
  \/ \E f \in Foreign \cup {air} : Hear(f)
  \/ TooShort \/ StartDecode \/ DecodeNext \/ DecodeDone
  \/ ProcessAgain \/ Parse \/ Ignore \/ Return

Next == Transmitter \/ Radar

Spec == Init /\ [][Next]_vars

-----------------------------------------------------------------------------
(***************************************************************************)
(* Properties.                                                             *)
(***************************************************************************)

\* The variables' types: what a pack holds, on the air and decoded, are
\* messages; neither program writes past the end of the pack it fills, whatever
\* its caller marked valid, and no pack on the air exceeds
\* ODID_PACK_MAX_MESSAGES.
TypeOK ==
  /\ app \in {"transmit", "library"}
  /\ loc \in [fix : 0 .. MaxFix, inRange : BOOLEAN]
  /\ spc \in {"idle", "encode"}
  /\ entries \in Seq(Kind)
  /\ scratch \in Message
  /\ messages \in Seq(Message) /\ Len(messages) <= ODID_PACK_MAX_MESSAGES
  /\ air \in Frame /\ Len(air.msgs) <= ODID_PACK_MAX_MESSAGES
  /\ rpc \in {"idle", "process", "decode", "processed", "parsed"}
  /\ frame \in Frame
  /\ pass \in 0 .. 2
  /\ i \in Nat \ {0}
  /\ result \in BOOLEAN
  /\ uas \in [Slots -> Message]

\* transmit.c sends all its messages, each in its place, or an empty pack,
\* although create_message_pack() goes on after a failed encoder: the repeated
\* message makes encodeMessagePack() refuse the pack.
AllOrNothing ==
  app = "transmit" =>
    \/ air = ZeroPack
    \/ /\ Len(air.msgs) = Len(Transmit)
       /\ \A j \in DOMAIN Transmit : KindOf(air.msgs[j]) = Transmit[j]

\* What parse_odid() is given comes from the frame at hand, never from one
\* heard before, although UAS_data is a global that a NAN frame does not clear.
ShownIsHeard ==
  rpc = "parsed" =>
    \A s \in Slots : uas[s] # Invalid => \E j \in DOMAIN frame.msgs : uas[s] = frame.msgs[j]

\* A message that decodeOpenDroneID() must not lose: it decodes, has an ID
\* type if it is a Basic ID, and no later message is of its kind.
Counts(msgs, j) ==
  /\ msgs[j].sound
  /\ msgs[j].type = BASIC_ID => msgs[j].sub # ODID_IDTYPE_NONE
  /\ \A k \in DOMAIN msgs :
       k > j /\ msgs[k].type = msgs[j].type
         => msgs[j].type \in {BASIC_ID, AUTH} /\ msgs[k].sub # msgs[j].sub

\* Every such message of a pack that was processed with success is in UAS_data
\* when parse_odid() reads it: the search for a free or matching Basic ID slot
\* loses none, on the second processing of a beacon's pack either.
NothingLost ==
  rpc = "parsed" /\ result =>
    \A j \in DOMAIN frame.msgs :
      Counts(frame.msgs, j) => \E s \in Slots : uas[s] = frame.msgs[j]

\* A pack for which odid_message_build_pack() returns a length holds one
\* encoded message for every message the caller marked valid.
SuccessMeansEncoded ==
  app = "library" /\ air # ZeroPack =>
    \E valid \in Filled :
      /\ Len(air.msgs) = Len(valid)
      /\ \A j \in DOMAIN valid : KindOf(air.msgs[j]) = valid[j]
=============================================================================
