----------------------------- MODULE RadarTable -----------------------------
(***************************************************************************)
(* The radar's table of sighted transmitters (radar_skytrade.ino).         *)
(*                                                                         *)
(* Two threads share `uavs' without a lock.  The Wi-Fi task runs callback()*)
(* for every captured frame: it looks the sender up in the table, claims a *)
(* slot, stamps it and copies what the frame's message packs decode to.    *)
(* The Arduino task runs loop() for ever: it expires slots, prints the     *)
(* flagged ones and keeps the serial link alive.  A step below is a run of *)
(* code with at most one access to memory that the other thread writes.    *)
(*                                                                         *)
(* Data.  A MAC address is its first octet, which the code also uses as    *)
(* the "slot in use" mark, and the other five.  The text of an operator ID *)
(* and the value of a coordinate are abstracted to who broadcast them      *)
(* (Nobody is the empty string and the coordinate 0.0).                    *)
(***************************************************************************)
EXTENDS Integers

CONSTANTS
  MaxUavs,     \* MAX_UAVS, slots that callback() may claim
  Addresses,   \* the source addresses of the frames on the air
  Packs,       \* what one Remote ID element of a frame may decode to
  MaxPacks,    \* bound: Remote ID elements in one frame
  Timeout,     \* the 300000 ms after which a slot expires
  KeepAlive,   \* the 1500000 ms after which an idle link is written to
  ClockMod,    \* 2^32, the range of millis()
  MaxTime      \* bound: the last instant of the model's clock

MacAddress == [first : Nat, rest : Nat]
Nobody     == [first |-> 0, rest |-> 0]

\* What parse_odid() reads of a decoded pack.  other: a valid Basic ID or System
\* message; the operator ID and the location are absent, hold the empty string
\* or latitude 0.0, or real content.
Content == {"absent", "empty", "real"}
UasData == [other : BOOLEAN, oper : Content, loc : Content]

ASSUME RadarAssumption ==
  /\ MaxUavs \in Nat \ {0}
  /\ Addresses \subseteq MacAddress \ {Nobody}
  /\ Packs \subseteq UasData
  /\ MaxPacks \in Nat
  /\ Timeout \in Nat /\ KeepAlive \in Nat /\ MaxTime \in Nat
  /\ ClockMod \in Nat \ {0}

VARIABLES
  now,         \* milliseconds since power up, unbounded in the machine
  mac, last_seen, flag, op_id, lat_d,                  \* uavs[0 .. MAX_UAVS-1]
  cpc, cmac, ci, UAV, packs, uas,                      \* callback()
  lpc, i, msecs, last_json                             \* loop()

clock     == <<now>>
table     == <<mac, last_seen, flag, op_id, lat_d>>
cbVars    == <<cpc, cmac, ci, UAV, packs, uas>>
loopVars  == <<lpc, i, msecs, last_json>>
vars      == <<now, table, cbVars, loopVars>>

Slots  == 0 .. MaxUavs - 1
NoSlot == -1                  \* a NULL UAV pointer

InUse(s) == mac[s].first # 0

\* millis() and the uint32_t difference of two of its results.
Millis(t)        == t % ClockMod
Elapsed(to, from) == IF to >= from THEN to - from ELSE to - from + ClockMod

NoData == [other |-> FALSE, oper |-> "absent", loc |-> "absent"]

\* The table is static storage; setup() has waited 100 ms when the callback is
\* registered, so the clock does not stand at 0.
Init ==
  /\ now = 1
  /\ mac       = [s \in Slots |-> Nobody]
  /\ last_seen = [s \in Slots |-> 0]
  /\ flag      = [s \in Slots |-> FALSE]
  /\ op_id     = [s \in Slots |-> Nobody]
  /\ lat_d     = [s \in Slots |-> Nobody]
  /\ cpc = "idle" /\ cmac = Nobody /\ ci = 0 /\ UAV = NoSlot /\ packs = 0
  /\ uas = NoData
  /\ lpc = "start" /\ i = 0 /\ msecs = 0 /\ last_json = 0

Tick ==
  /\ now < MaxTime
  /\ now' = now + 1
  /\ UNCHANGED <<table, cbVars, loopVars>>

-----------------------------------------------------------------------------
(***************************************************************************)
(* callback() and next_uav(): the Wi-Fi task.                              *)
(***************************************************************************)

\* Any frame sent by m, whether or not it turns out to carry Remote ID.
Receive(m) ==
  /\ cpc = "idle"
  /\ cpc' = "match" /\ cmac' = m
  /\ UNCHANGED <<clock, table, ci, UAV, packs, uas, loopVars>>

\* First loop of next_uav(): compares every slot, the last match wins.
MatchSlot ==
  /\ cpc = "match" /\ ci < MaxUavs
  /\ UAV' = IF mac[ci] = cmac THEN ci ELSE UAV
  /\ ci' = ci + 1
  /\ UNCHANGED <<clock, table, cpc, cmac, packs, uas, loopVars>>

\* Faulty variant: the search for a match stops one slot early.
MatchDoneEarly ==
  /\ cpc = "match" /\ ci = MaxUavs - 1
  /\ cpc' = IF UAV = NoSlot THEN "free" ELSE "claim"
  /\ ci' = 0
  /\ UNCHANGED <<clock, table, cmac, UAV, packs, uas, loopVars>>

MatchDone ==
  /\ cpc = "match" /\ ci = MaxUavs
  /\ cpc' = IF UAV = NoSlot THEN "free" ELSE "claim"
  /\ ci' = 0
  /\ UNCHANGED <<clock, table, cmac, UAV, packs, uas, loopVars>>

\* Second loop of next_uav(): the first slot whose mac[0] is 0.
FreeSlot ==
  /\ cpc = "free" /\ ci < MaxUavs
  /\ IF InUse(ci)
       THEN ci' = ci + 1 /\ UNCHANGED <<cpc, UAV>>
       ELSE UAV' = ci /\ cpc' = "claim" /\ ci' = 0
  /\ UNCHANGED <<clock, table, cmac, packs, uas, loopVars>>

\* Faulty variants: a full table gives the keep-alive row, or the first slot.
TableFullPastEnd ==
  /\ cpc = "free" /\ ci = MaxUavs
  /\ UAV' = MaxUavs
  /\ cpc' = "claim" /\ ci' = 0
  /\ UNCHANGED <<clock, table, cmac, packs, uas, loopVars>>

TableFullFirst ==
  /\ cpc = "free" /\ ci = MaxUavs
  /\ UAV' = 0
  /\ cpc' = "claim" /\ ci' = 0
  /\ UNCHANGED <<clock, table, cmac, packs, uas, loopVars>>

\* No free slot: the last one is taken over.
TableFull ==
  /\ cpc = "free" /\ ci = MaxUavs
  /\ UAV' = MaxUavs - 1
  /\ cpc' = "claim" /\ ci' = 0
  /\ UNCHANGED <<clock, table, cmac, packs, uas, loopVars>>

\* Faulty variant: the address of a slot that is taken over is not replaced.
ClaimKeepsMac ==
  /\ cpc = "claim"
  /\ mac' = IF InUse(UAV) THEN mac ELSE [mac EXCEPT ![UAV] = cmac]
  /\ cpc' = "stamp"
  /\ UNCHANGED <<clock, last_seen, flag, op_id, lat_d,
                 cmac, ci, UAV, packs, uas, loopVars>>

\* memcpy(UAV->mac, ...).  The data of the slot's previous holder stays.
Claim ==
  /\ cpc = "claim"
  /\ mac' = [mac EXCEPT ![UAV] = cmac]
  /\ cpc' = "stamp"
  /\ UNCHANGED <<clock, last_seen, flag, op_id, lat_d,
                 cmac, ci, UAV, packs, uas, loopVars>>

Stamp ==
  /\ cpc = "stamp"
  /\ last_seen' = [last_seen EXCEPT ![UAV] = Millis(now)]
  /\ cpc' = "frame"
  /\ UNCHANGED <<clock, mac, flag, op_id, lat_d,
                 cmac, ci, UAV, packs, uas, loopVars>>

\* One Remote ID element: UAS_data is filled from it and parse_odid() called,
\* which raises the flag before it copies the first valid message.
DecodePack(d) ==
  /\ cpc = "frame" /\ packs < MaxPacks
  /\ packs' = packs + 1
  /\ uas' = d
  /\ flag' = [flag EXCEPT ![UAV] = @ \/ d # NoData]
  /\ cpc' = "copy"
  /\ UNCHANGED <<clock, mac, last_seen, op_id, lat_d,
                 cmac, ci, UAV, loopVars>>

\* The field after the copy of a message with content c, broadcast by cmac.
Copied(c, old) ==
  CASE c = "absent" -> old
    [] c = "empty"  -> Nobody
    [] c = "real"   -> cmac

\* parse_odid() raises the flag again for the second valid message.
Several(d) ==
  \/ d.other /\ (d.oper # "absent" \/ d.loc # "absent")
  \/ d.oper # "absent" /\ d.loc # "absent"

ParseOdid ==
  /\ cpc = "copy"
  /\ flag'     = [flag     EXCEPT ![UAV] = @ \/ Several(uas)]
  /\ op_id'    = [op_id    EXCEPT ![UAV] = Copied(uas.oper, @)]
  /\ lat_d'    = [lat_d    EXCEPT ![UAV] = Copied(uas.loc, @)]
  /\ uas' = NoData
  /\ cpc' = "frame"
  /\ UNCHANGED <<clock, mac, last_seen, cmac, ci, UAV, packs, loopVars>>

\* Faulty variant: a slot is freed only if it has no operator ID and no
\* pack was decoded.
ReleaseUndecoded ==
  /\ cpc = "frame"
  /\ mac' = IF op_id[UAV] = Nobody /\ packs = 0
              THEN [mac EXCEPT ![UAV].first = 0]
              ELSE mac
  /\ cpc' = "idle" /\ cmac' = Nobody /\ UAV' = NoSlot /\ packs' = 0
  /\ UNCHANGED <<clock, last_seen, flag, op_id, lat_d, ci, uas, loopVars>>

\* End of the frame and of callback(): a slot with neither operator ID nor latitude is freed.
Release ==
  /\ cpc = "frame"
  /\ mac' = IF op_id[UAV] = Nobody /\ lat_d[UAV] = Nobody
              THEN [mac EXCEPT ![UAV].first = 0]
              ELSE mac
  /\ cpc' = "idle" /\ cmac' = Nobody /\ UAV' = NoSlot /\ packs' = 0
  /\ UNCHANGED <<clock, last_seen, flag, op_id, lat_d, ci, uas, loopVars>>

Callback ==
  \/ MatchSlot \/ MatchDone \/ FreeSlot \/ TableFull \/ Claim \/ Stamp
  \/ \E d \in Packs : DecodePack(d)
  \/ ParseOdid \/ Release

-----------------------------------------------------------------------------
(***************************************************************************)
(* loop(): the Arduino task.                                               *)
(***************************************************************************)

\* msecs is sampled once for the whole pass over the table.
StartPass ==
  /\ lpc \in {"start", "keepalive"}
  /\ msecs' = Millis(now)
  /\ i' = 0
  /\ lpc' = "check"
  /\ UNCHANGED <<clock, table, cbVars, last_json>>

\* Faulty variant: the wrong period.
ExpiredKeepAlive(s) == last_seen[s] # 0 /\ Elapsed(msecs, last_seen[s]) > KeepAlive

Expired(s) == last_seen[s] # 0 /\ Elapsed(msecs, last_seen[s]) > Timeout

CheckSlot ==
  /\ lpc = "check" /\ i < MaxUavs
  /\ lpc' = IF Expired(i) THEN "expire" ELSE "test"
  /\ UNCHANGED <<clock, table, cbVars, i, msecs, last_json>>

ExpireSlot ==
  /\ lpc = "expire"
  /\ last_seen' = [last_seen EXCEPT ![i] = 0]
  /\ lpc' = "vacate"
  /\ UNCHANGED <<clock, mac, flag, op_id, lat_d, cbVars,
                 i, msecs, last_json>>

\* Faulty variant: the address of an expired slot stays.
VacateSlotNot ==
  /\ lpc = "vacate"
  /\ lpc' = "test"
  /\ UNCHANGED <<clock, table, cbVars, i, msecs, last_json>>

VacateSlot ==
  /\ lpc = "vacate"
  /\ mac' = [mac EXCEPT ![i].first = 0]
  /\ lpc' = "test"
  /\ UNCHANGED <<clock, last_seen, flag, op_id, lat_d, cbVars,
                 i, msecs, last_json>>

TestSlot ==
  /\ lpc = "test"
  /\ lpc' = IF flag[i] THEN "report" ELSE "unflag"
  /\ UNCHANGED <<clock, table, cbVars, i, msecs, last_json>>

\* print_json().  The home position that is also kept here only feeds the
\* locals x_m and y_m, which nothing reads.
Report ==
  /\ lpc = "report"
  /\ lpc' = "unflag"
  /\ UNCHANGED <<clock, table, cbVars, i, msecs, last_json>>

\* These two assignments stand outside the if: they are done for every slot.
Unflag ==
  /\ lpc = "unflag"
  /\ flag' = [flag EXCEPT ![i] = FALSE]
  /\ last_json' = msecs
  /\ i' = i + 1
  /\ lpc' = "check"
  /\ UNCHANGED <<clock, mac, last_seen, op_id, lat_d, cbVars,
                 msecs>>

\* After the for loop.  "keepalive" is "start" with the keep-alive row, index
\* MAX_UAVS, just printed.
EndPass ==
  /\ lpc = "check" /\ i = MaxUavs
  /\ LET idle == Elapsed(msecs, last_json) > KeepAlive
     IN  /\ lpc'       = IF idle THEN "keepalive" ELSE "start"
         /\ last_json' = IF idle THEN msecs ELSE last_json
  /\ UNCHANGED <<clock, table, cbVars, i, msecs>>

Loop ==
  \/ StartPass \/ CheckSlot \/ ExpireSlot \/ VacateSlot \/ TestSlot
  \/ Report \/ Unflag \/ EndPass

-----------------------------------------------------------------------------
Next ==
  \/ Tick
  \/ \E m \in Addresses : Receive(m)
  \/ Callback
  \/ Loop

Spec == Init /\ [][Next]_vars

\* Both tasks are scheduled (the Wi-Fi task on the other core), and time
\* passes; frames need not arrive.
FairSpec == Spec /\ WF_vars(Callback) /\ WF_vars(Loop) /\ WF_vars(Tick)

-----------------------------------------------------------------------------
(***************************************************************************)
(* Properties.                                                             *)
(***************************************************************************)
Sources == Addresses \cup {Nobody}

\* The variables' types; callback() never works on a slot outside those it may
\* claim, nor loop() past the end of the table.
TypeOK ==
  /\ now \in Nat
  /\ mac \in [Slots -> MacAddress]
  /\ last_seen \in [Slots -> Nat]
  /\ flag \in [Slots -> BOOLEAN]
  /\ op_id \in [Slots -> Sources]
  /\ lat_d \in [Slots -> Sources]
  /\ cpc \in {"idle", "match", "free", "claim", "stamp", "frame", "copy"}
  /\ cmac \in Sources
  /\ ci \in 0 .. MaxUavs
  /\ UAV \in Slots \cup {NoSlot}
  /\ packs \in 0 .. MaxPacks
  /\ uas \in UasData
  /\ lpc \in {"start", "check", "expire", "vacate", "test", "report",
            "unflag", "keepalive"}
  /\ i \in 0 .. MaxUavs
  /\ msecs \in Nat
  /\ last_json \in Nat
  /\ cpc \in {"claim", "stamp", "frame", "copy"} => UAV \in Slots
  /\ lpc \in {"expire", "vacate", "test", "report", "unflag"} => i \in Slots
  /\ cpc # "idle" => cmac \in Addresses

\* No transmitter holds two slots, although loop() vacates slots while
\* next_uav() is searching for a match and then for a free slot.
UniqueSlot ==
  \A s, t \in Slots : s # t /\ InUse(s) => mac[s] # mac[t]

\* Every slot in use can expire: until millis() first wraps round, a slot in
\* use carries the time of its last frame, except inside the two windows in
\* which callback() has claimed it and not yet stamped it, or loop() has
\* cleared the stamp and not yet vacated it.  A slot with an address and
\* last_seen = 0 would never be freed by loop().
NoImmortalSlot ==
  now < ClockMod =>
    \A s \in Slots : InUse(s) /\ last_seen[s] = 0 =>
      (cpc = "stamp" /\ UAV = s) \/ (lpc = "vacate" /\ i = s)

\* A slot in use that callback() is not working on holds an operator ID or a
\* position, its holder's or, since line 258 clears nothing, one left by an
\* earlier holder.  So a station without Remote ID keeps no slot that no
\* transmitter has used: however loop() vacates slots during its frame, the
\* slot is free again at the end of callback().  A slot with data in it it does
\* keep until the slot expires.
SlotInUseHasData ==
  \A s \in Slots : InUse(s) /\ UAV # s => op_id[s] # Nobody \/ lat_d[s] # Nobody

\* What parse_odid() copies into a slot in use was broadcast by the address
\* the slot carries: the UAV pointer that callback() obtained from next_uav()
\* stays good however loop() expires slots meanwhile.
CopiedDataIsSenders ==
  [][\A s \in Slots : InUse(s)' =>
       /\ op_id'[s] # op_id[s] => op_id'[s] \in {Nobody, mac'[s]}
       /\ lat_d'[s] # lat_d[s] => lat_d'[s] \in {Nobody, mac'[s]}]_vars

\* Only the last slot is ever taken over from a transmitter that still holds
\* it; any other slot passes to a new address after it was vacated.
OnlyLastSlotIsStolen ==
  [][\A s \in Slots : InUse(s) /\ mac'[s] \notin {mac[s], [mac[s] EXCEPT !.first = 0]}
       => s = MaxUavs - 1]_vars

Silent(s) == InUse(s) /\ last_seen[s] # 0 /\ now - last_seen[s] > Timeout

\* A slot whose transmitter falls silent is vacated, or refreshed, sooner or
\* later (while MaxTime < ClockMod: before millis() wraps round).
SilentSlotIsFreed == \A s \in Slots : Silent(s) ~> ~Silent(s)

\* The addresses that loop() and next_uav() take for slots in use.
Tracked == {mac[s] : s \in {t \in Slots : InUse(t)}}

Table == INSTANCE Tracker WITH
           Senders <- Addresses, Visible <- {m \in Addresses : m.first # 0},
           Capacity <- MaxUavs, None <- Nobody,
           tracked <- Tracked, hearing <- cmac,
           recorded <- cpc \in {"stamp", "frame", "copy"}

\* The two tasks, with their slots, stamps and unlocked writes, implement the
\* atomic set of transmitters of Tracker: however loop() vacates slots between
\* the steps of callback(), a frame enters its sender once, displaces at most
\* one other transmitter and, at its end, drops no other.
ImplementsTracker == Table!Spec

\* README: "When a drone is detected, a longer message like this will be
\* seen": a slot flagged by parse_odid() is printed by loop().
DetectedIsReported ==
  \A s \in Slots : flag[s] ~> (lpc = "report" /\ i = s)

-----------------------------------------------------------------------------
(***************************************************************************)
(* The inductive invariant behind UniqueSlot and OnlyLastSlotIsStolen: what*)
(* callback() knows about the table while it looks for a slot, in spite of *)
(* the slots that loop() vacates under it.                                 *)
(***************************************************************************)
HeldElsewhere(s) == InUse(s) /\ mac[s] = cmac

SearchInv ==
  /\ cpc = "match" /\ UAV = NoSlot => \A s \in 0 .. ci - 1 : ~HeldElsewhere(s)
  /\ cpc = "free" => UAV = NoSlot /\ \A s \in Slots : ~HeldElsewhere(s)
  /\ cpc \in {"match", "claim"} /\ UAV # NoSlot =>
       \A s \in Slots \ {UAV} : ~HeldElsewhere(s)
  /\ cpc = "match" /\ UAV # NoSlot /\ InUse(UAV) => mac[UAV] = cmac
  /\ cpc = "claim" /\ InUse(UAV) => mac[UAV] = cmac \/ UAV = MaxUavs - 1

\* After the claim the slot still carries the sender's address, unless loop()
\* has vacated it.
ClaimInv ==
  /\ cpc \in {"stamp", "frame", "copy"} /\ InUse(UAV) => mac[UAV] = cmac
  /\ cpc = "idle" => UAV = NoSlot /\ cmac = Nobody
  /\ cpc \notin {"match", "free"} => ci = 0

\* The strengthening of SlotInUseHasData: the slot that next_uav() has picked
\* is no exception before it is claimed.
DataInv ==
  \A s \in Slots : InUse(s) /\ (UAV # s \/ cpc \in {"match", "free", "claim"})
    => op_id[s] # Nobody \/ lat_d[s] # Nobody

\* No frame is stamped with the 0 that means "never seen" before millis() wraps
\* round.
ClockInv == now > 0

Inv == TypeOK /\ UniqueSlot /\ SearchInv /\ ClaimInv /\ DataInv /\ ClockInv
       /\ NoImmortalSlot
=============================================================================
