-------------------------- MODULE RadarTableProofs --------------------------
(***************************************************************************)
(* Proofs about RadarTable, for any number of slots, any addresses and any *)
(* timeout.                                                                *)
(***************************************************************************)
EXTENDS RadarTable, FiniteSetTheorems, TLAPS

\* The initial state of the static table is well typed.
LEMMA TypeInit == Init => TypeOK
  <1> SUFFICES ASSUME Init PROVE TypeOK
    OBVIOUS
  <1>1. Nobody \in MacAddress /\ Nobody \in Sources
    BY DEF Nobody, MacAddress, Sources
  <1>2. NoData \in UasData
    BY DEF NoData, UasData, Content
  <1> QED
    BY <1>1, <1>2, RadarAssumption DEF RadarAssumption, Init, TypeOK, Slots, NoSlot

\* A copied field is again an address on the air or Nobody.
LEMMA CopiedType ==
  ASSUME TypeOK, cmac \in Addresses,
         NEW c \in Content, NEW old \in Sources
  PROVE  Copied(c, old) \in Sources
  BY DEF Copied, Content, Sources

\* Every step of either task keeps the types.
LEMMA TypeNext == TypeOK /\ [Next]_vars => TypeOK'
  <1> SUFFICES ASSUME TypeOK, [Next]_vars PROVE TypeOK'
    OBVIOUS
  <1>0. /\ Addresses \subseteq MacAddress
        /\ Nobody \in Sources
        /\ \A m \in MacAddress : [m EXCEPT !.first = 0] \in MacAddress
    <2>1. Addresses \subseteq MacAddress
      BY RadarAssumption DEF RadarAssumption
    <2>2. Nobody \in Sources
      BY DEF Sources
    <2>3. ASSUME NEW m \in MacAddress PROVE [m EXCEPT !.first = 0] \in MacAddress
      BY DEF MacAddress
    <2> QED
      BY <2>1, <2>2, <2>3
  <1> USE RadarAssumption
  <1> USE DEF RadarAssumption, TypeOK, clock, table, cbVars, loopVars, vars
  <1>1. CASE Tick
    BY <1>1 DEF Tick
  <1>2. ASSUME NEW m \in Addresses, Receive(m) PROVE TypeOK'
    BY <1>2 DEF Receive, Sources
  <1>3. CASE MatchSlot
    BY <1>3 DEF MatchSlot, Slots
  <1>4. CASE MatchDone
    BY <1>4 DEF MatchDone, Slots
  <1>5. CASE FreeSlot
    BY <1>5 DEF FreeSlot, Slots
  <1>6. CASE TableFull
    BY <1>6 DEF TableFull, Slots
  <1>7. CASE Claim
    BY <1>7, <1>0 DEF Claim
  <1>8. CASE Stamp
    BY <1>8 DEF Stamp, Millis
  <1>9. ASSUME NEW d \in Packs, DecodePack(d) PROVE TypeOK'
    BY <1>9 DEF DecodePack
  <1>10. CASE ParseOdid
    <2>1. UAV \in Slots /\ cmac \in Addresses /\ uas.oper \in Content /\ uas.loc \in Content
      BY <1>10 DEF ParseOdid, UasData
    <2>2. Copied(uas.oper, op_id[UAV]) \in Sources /\ Copied(uas.loc, lat_d[UAV]) \in Sources
      BY <2>1, CopiedType
    <2>3. NoData \in UasData
      BY DEF NoData, UasData, Content
    <2> QED
      BY <1>10, <2>1, <2>2, <2>3 DEF ParseOdid
  <1>11. CASE Release
    BY <1>11, <1>0 DEF Release
  <1>12. CASE StartPass
    BY <1>12 DEF StartPass, Millis
  <1>13. CASE CheckSlot
    BY <1>13 DEF CheckSlot, Slots
  <1>14. CASE ExpireSlot
    BY <1>14 DEF ExpireSlot
  <1>15. CASE VacateSlot
    BY <1>15, <1>0 DEF VacateSlot
  <1>16. CASE TestSlot
    BY <1>16 DEF TestSlot
  <1>17. CASE Report
    BY <1>17 DEF Report
  <1>18. CASE Unflag
    BY <1>18 DEF Unflag, Slots
  <1>19. CASE EndPass
    BY <1>19 DEF EndPass
  <1>20. CASE UNCHANGED vars
    BY <1>20
  <1> QED
    BY <1>1, <1>2, <1>3, <1>4, <1>5, <1>6, <1>7, <1>8, <1>9, <1>10, <1>11,
       <1>12, <1>13, <1>14, <1>15, <1>16, <1>17, <1>18, <1>19, <1>20
    DEF Next, Callback, Loop

\* Type correctness of the radar's table and of both tasks.
THEOREM TypeCorrect == Spec => []TypeOK
  BY TypeInit, TypeNext, PTL DEF Spec

-----------------------------------------------------------------------------
\* Below 2^32 the clock reads what it is.
LEMMA MillisSmall ==
  ASSUME NEW t \in Nat, t < ClockMod
  PROVE  Millis(t) = t
  BY RadarAssumption DEF RadarAssumption, Millis

\* What loop() does to the table leaves every slot that is in use afterwards as
\* it was.
LEMMA VacateMac ==
  ASSUME TypeOK, NEW t \in Slots, NEW s \in Slots,
         mac' = [mac EXCEPT ![t].first = 0], InUse(s)'
  PROVE  InUse(s) /\ mac'[s] = mac[s] /\ s # t
  <1>1. mac[t] \in MacAddress
    BY DEF TypeOK
  <1>2. [mac[t] EXCEPT !.first = 0].first = 0
    BY <1>1 DEF MacAddress
  <1>3. mac'[t] = [mac[t] EXCEPT !.first = 0] /\ (s # t => mac'[s] = mac[s])
    BY DEF TypeOK
  <1> QED
    BY <1>2, <1>3 DEF InUse

\* No transmitter ever gets a second slot.
LEMMA UniqueNext ==
  Inv /\ [Next]_vars => UniqueSlot'
  <1> SUFFICES ASSUME Inv, [Next]_vars PROVE UniqueSlot'
    OBVIOUS
  <1> USE DEF Inv
  <1>1. CASE Claim
    <2> SUFFICES ASSUME NEW s \in Slots, NEW t \in Slots, s # t, InUse(s)'
                 PROVE  mac'[s] # mac'[t]
      BY DEF UniqueSlot
    <2>1. UAV \in Slots /\ UAV # NoSlot
      BY <1>1, RadarAssumption DEF Claim, TypeOK, Slots, NoSlot, RadarAssumption
    <2>2. /\ mac' = [mac EXCEPT ![UAV] = cmac]
          /\ mac'[UAV] = cmac
          /\ \A r \in Slots \ {UAV} : mac'[r] = mac[r]
      BY <1>1, <2>1 DEF Claim, TypeOK
    <2>3. \A r \in Slots \ {UAV} : InUse(r) => mac[r] # cmac
      BY <1>1, <2>1 DEF Claim, SearchInv, HeldElsewhere
    <2>4. CASE s = UAV
      <3>1. CASE InUse(t)
        BY <2>2, <2>3, <2>4, <3>1
      <3>2. CASE ~InUse(t)
        BY <2>2, <2>4, <3>2 DEF InUse
      <3> QED
        BY <3>1, <3>2
    <2>5. CASE s # UAV
      BY <2>2, <2>3, <2>5 DEF InUse, UniqueSlot
    <2> QED
      BY <2>4, <2>5
  <1>2. ASSUME NEW r \in Slots, mac' = [mac EXCEPT ![r].first = 0]
        PROVE  UniqueSlot'
    <2> SUFFICES ASSUME NEW s \in Slots, NEW t \in Slots, s # t, InUse(s)'
                 PROVE  mac'[s] # mac'[t]
      BY DEF UniqueSlot
    <2>1. InUse(s) /\ mac'[s] = mac[s] /\ mac[s] # mac[t]
      BY <1>2, VacateMac DEF UniqueSlot
    <2>2. CASE InUse(t)'
      BY <1>2, <2>1, <2>2, VacateMac
    <2>3. CASE ~InUse(t)'
      BY <2>1, <2>3 DEF InUse
    <2> QED
      BY <2>2, <2>3
  <1>3. CASE Release
    <2>1. UAV \in Slots
      BY <1>3 DEF Release, TypeOK
    <2> QED
      BY <1>2, <1>3, <2>1 DEF Release, UniqueSlot, InUse
  <1>4. CASE VacateSlot
    BY <1>2, <1>4 DEF VacateSlot, TypeOK
  <1>5. CASE mac' = mac
    BY <1>5 DEF UniqueSlot, InUse
  <1> QED
    BY <1>1, <1>3, <1>4, <1>5
    DEF Next, Callback, Loop, vars, table, Tick, Receive, MatchSlot, MatchDone,
        FreeSlot, TableFull, Stamp, DecodePack, ParseOdid, StartPass, CheckSlot,
        ExpireSlot, TestSlot, Report, Unflag, EndPass

\* What next_uav() has learnt of the table stays true while loop() vacates
\* slots, up to the claim.
LEMMA SearchNext ==
  Inv /\ [Next]_vars => SearchInv'
  <1> SUFFICES ASSUME Inv, [Next]_vars PROVE SearchInv'
    OBVIOUS
  <1> USE RadarAssumption
  <1> USE DEF RadarAssumption, Inv, NoSlot, Slots
  <1>1. ASSUME NEW m \in Addresses, Receive(m) PROVE SearchInv'
    <2>1. cpc' = "match" /\ UAV' = NoSlot /\ ci' = 0
      BY <1>1 DEF Receive, ClaimInv
    <2> QED
      BY <2>1 DEF SearchInv
  <1>2. CASE MatchSlot
    <2>1. /\ ci \in Slots /\ cpc = "match" /\ cpc' = "match"
          /\ ci' = ci + 1 /\ cmac' = cmac /\ mac' = mac
          /\ UAV' = IF mac[ci] = cmac THEN ci ELSE UAV
      BY <1>2 DEF MatchSlot, table, TypeOK
    <2>2. CASE mac[ci] = cmac
      <3>1. UAV' = ci /\ UAV' \in Slots
        BY <2>1, <2>2
      <3>2. \A s \in Slots \ {ci} : ~(InUse(s) /\ mac[s] = cmac)
        BY <2>1, <2>2 DEF UniqueSlot
      <3> QED
        BY <2>1, <2>2, <3>1, <3>2 DEF SearchInv, HeldElsewhere, InUse
    <2>3. CASE mac[ci] # cmac
      BY <2>1, <2>3 DEF SearchInv, HeldElsewhere, InUse, TypeOK
    <2> QED
      BY <2>2, <2>3
  <1>3. CASE MatchDone
    BY <1>3 DEF MatchDone, table, SearchInv, HeldElsewhere, InUse, TypeOK
  <1>4. CASE FreeSlot
    BY <1>4 DEF FreeSlot, table, SearchInv, HeldElsewhere, InUse, TypeOK
  <1>5. CASE TableFull
    BY <1>5 DEF TableFull, table, SearchInv, HeldElsewhere, InUse, TypeOK
  <1>6. CASE Claim \/ Stamp \/ ParseOdid \/ Release
             \/ \E d \in Packs : DecodePack(d)
    BY <1>6 DEF Claim, Stamp, ParseOdid, Release, DecodePack, SearchInv
  <1>7. CASE VacateSlot
    <2>1. i \in Slots /\ mac' = [mac EXCEPT ![i].first = 0]
      BY <1>7 DEF VacateSlot, TypeOK
    <2>2. \A s \in Slots : InUse(s)' => InUse(s) /\ mac'[s] = mac[s]
      BY <2>1, VacateMac
    <2>3. UNCHANGED cbVars
      BY <1>7 DEF VacateSlot
    <2> QED
      BY <2>2, <2>3 DEF SearchInv, HeldElsewhere, cbVars, TypeOK
  <1>8. CASE UNCHANGED <<mac, cbVars>>
    BY <1>8 DEF SearchInv, HeldElsewhere, InUse, cbVars
  <1> QED
    BY <1>1, <1>2, <1>3, <1>4, <1>5, <1>6, <1>7, <1>8
    DEF Next, Callback, Loop, vars, table, Tick, StartPass, CheckSlot,
        ExpireSlot, TestSlot, Report, Unflag, EndPass

\* From the claim to the end of the frame the slot is the sender's or vacated.
LEMMA ClaimNext ==
  Inv /\ [Next]_vars => ClaimInv'
  <1> SUFFICES ASSUME Inv, [Next]_vars PROVE ClaimInv'
    OBVIOUS
  <1> USE DEF Inv
  <1>1. CASE VacateSlot
    <2>1. i \in Slots /\ mac' = [mac EXCEPT ![i].first = 0]
      BY <1>1 DEF VacateSlot, TypeOK
    <2>2. \A s \in Slots : InUse(s)' => InUse(s) /\ mac'[s] = mac[s]
      BY <2>1, VacateMac
    <2>3. UNCHANGED cbVars
      BY <1>1 DEF VacateSlot
    <2> QED
      BY <2>2, <2>3 DEF ClaimInv, cbVars, TypeOK
  <1>2. CASE Claim
    BY <1>2 DEF Claim, ClaimInv, TypeOK
  <1>3. CASE \/ MatchSlot \/ MatchDone \/ FreeSlot \/ TableFull \/ Release
             \/ \E m \in Addresses : Receive(m)
    BY <1>3 DEF MatchSlot, MatchDone, FreeSlot, TableFull, Release, Receive,
                ClaimInv
  <1>4. CASE Stamp \/ ParseOdid \/ \E d \in Packs : DecodePack(d)
    BY <1>4 DEF Stamp, ParseOdid, DecodePack, ClaimInv, InUse
  <1>5. CASE UNCHANGED <<mac, cbVars>>
    BY <1>5 DEF ClaimInv, InUse, cbVars
  <1> QED
    BY <1>1, <1>2, <1>3, <1>4, <1>5
    DEF Next, Callback, Loop, vars, table, Tick, StartPass, CheckSlot,
        ExpireSlot, TestSlot, Report, Unflag, EndPass

\* Only callback() makes a slot used, and it gives back an empty one.
LEMMA DataNext ==
  Inv /\ [Next]_vars => DataInv'
  <1> SUFFICES ASSUME Inv, [Next]_vars PROVE DataInv'
    OBVIOUS
  <1> USE DEF Inv
  <1>1. CASE VacateSlot
    <2>1. i \in Slots /\ mac' = [mac EXCEPT ![i].first = 0]
      BY <1>1 DEF VacateSlot, TypeOK
    <2>2. \A s \in Slots : InUse(s)' => InUse(s)
      BY <2>1, VacateMac
    <2> QED
      BY <1>1, <2>2 DEF VacateSlot, DataInv, cbVars
  <1>2. CASE Release
    <2>1. UAV \in Slots /\ cpc = "frame" /\ cpc' = "idle" /\ UNCHANGED <<op_id, lat_d>>
      BY <1>2 DEF Release, TypeOK
    <2>2. CASE op_id[UAV] = Nobody /\ lat_d[UAV] = Nobody
      <3>1. mac' = [mac EXCEPT ![UAV].first = 0]
        BY <1>2, <2>2 DEF Release
      <3>2. \A s \in Slots : InUse(s)' => InUse(s) /\ s # UAV
        BY <2>1, <3>1, VacateMac
      <3> QED
        BY <2>1, <3>2 DEF DataInv
    <2>3. CASE ~(op_id[UAV] = Nobody /\ lat_d[UAV] = Nobody)
      BY <1>2, <2>1, <2>3 DEF Release, DataInv, InUse
    <2> QED
      BY <2>2, <2>3
  <1>3. CASE Claim
    BY <1>3 DEF Claim, DataInv, InUse, TypeOK
  <1>4. CASE ParseOdid
    BY <1>4 DEF ParseOdid, DataInv, InUse, TypeOK
  <1>5. CASE Stamp \/ \E d \in Packs : DecodePack(d)
    BY <1>5 DEF Stamp, DecodePack, DataInv, InUse
  <1>6. CASE MatchSlot \/ MatchDone \/ FreeSlot \/ TableFull
    BY <1>6 DEF MatchSlot, MatchDone, FreeSlot, TableFull, DataInv, InUse, table
  <1>7. ASSUME NEW m \in Addresses, Receive(m) PROVE DataInv'
    <2>1. UAV = NoSlot /\ \A s \in Slots : s # NoSlot
      BY <1>7, RadarAssumption DEF Receive, ClaimInv, RadarAssumption, Slots, NoSlot
    <2> QED
      BY <1>7, <2>1 DEF Receive, DataInv, InUse, table
  <1>8. CASE UNCHANGED <<mac, op_id, lat_d, cbVars>>
    BY <1>8 DEF DataInv, InUse, cbVars
  <1> QED
    BY <1>1, <1>2, <1>3, <1>4, <1>5, <1>6, <1>7, <1>8
    DEF Next, Callback, Loop, vars, table, Tick, StartPass, CheckSlot,
        ExpireSlot, TestSlot, Report, Unflag, EndPass

\* The clock does not run back.
LEMMA ClockNext ==
  Inv /\ [Next]_vars => ClockInv'
  <1> SUFFICES ASSUME Inv, [Next]_vars PROVE ClockInv'
    OBVIOUS
  <1>1. now \in Nat
    BY DEF Inv, TypeOK
  <1>2. CASE Tick
    BY <1>1, <1>2 DEF Tick, Inv, ClockInv
  <1>3. CASE UNCHANGED now
    BY <1>3 DEF Inv, ClockInv
  <1> QED
    BY <1>2, <1>3
    DEF Next, Callback, Loop, vars, clock, table, cbVars, loopVars, Receive,
        MatchSlot, MatchDone, FreeSlot, TableFull, Claim, Stamp, DecodePack,
        ParseOdid, Release, StartPass, CheckSlot, ExpireSlot, VacateSlot, TestSlot,
        Report, Unflag, EndPass

\* The order of the writes (address before stamp in callback(), stamp before
\* address in loop()) never leaves an address without a stamp behind.
LEMMA NoImmortalNext ==
  Inv /\ [Next]_vars => NoImmortalSlot'
  <1> SUFFICES ASSUME Inv, [Next]_vars, (now < ClockMod)',
                      NEW s \in Slots, (InUse(s) /\ last_seen[s] = 0)'
               PROVE  ((cpc = "stamp" /\ UAV = s) \/ (lpc = "vacate" /\ i = s))'
    BY DEF NoImmortalSlot
  <1>1. now \in Nat /\ ClockMod \in Nat /\ now > 0 /\ now < ClockMod
    BY RadarAssumption
    DEF Inv, TypeOK, ClockInv, RadarAssumption, Next, Callback, Loop, vars,
        clock, Tick, Receive, MatchSlot, MatchDone, FreeSlot, TableFull, Claim,
        Stamp, DecodePack, ParseOdid, Release, StartPass, CheckSlot, ExpireSlot,
        VacateSlot, TestSlot, Report, Unflag, EndPass
  <1>2. InUse(s) /\ last_seen[s] = 0 =>
          (cpc = "stamp" /\ UAV = s) \/ (lpc = "vacate" /\ i = s)
    BY <1>1 DEF Inv, NoImmortalSlot
  <1>3. CASE Claim
    BY <1>2, <1>3 DEF Claim, Inv, TypeOK, InUse, loopVars
  <1>4. CASE Stamp
    BY <1>1, <1>2, <1>4, MillisSmall DEF Stamp, Inv, TypeOK, InUse, loopVars
  <1>5. CASE ExpireSlot
    BY <1>2, <1>5 DEF ExpireSlot, Inv, TypeOK, InUse, cbVars
  <1>6. CASE VacateSlot
    <2>1. InUse(s) /\ s # i
      BY <1>6, VacateMac DEF VacateSlot, Inv, TypeOK
    <2> QED
      BY <1>2, <1>6, <2>1 DEF VacateSlot, cbVars
  <1>7. CASE Release
    <2>1. UAV \in Slots
      BY <1>7 DEF Release, Inv, TypeOK
    <2>2. InUse(s)
      BY <1>7, <2>1, VacateMac DEF Release, InUse, Inv
    <2> QED
      BY <1>2, <1>7, <2>2 DEF Release, loopVars
  <1>8. CASE \/ MatchSlot \/ MatchDone \/ FreeSlot \/ TableFull \/ ParseOdid
             \/ \E d \in Packs : DecodePack(d)
             \/ \E m \in Addresses : Receive(m)
    BY <1>2, <1>8
    DEF InUse, table, loopVars, MatchSlot, MatchDone, FreeSlot, TableFull,
        ParseOdid, DecodePack, Receive
  <1>9. CASE \/ Tick \/ StartPass \/ CheckSlot \/ TestSlot \/ Report \/ Unflag
             \/ EndPass \/ UNCHANGED vars
    BY <1>2, <1>9
    DEF InUse, vars, table, cbVars, loopVars, Tick, StartPass, CheckSlot,
        TestSlot, Report, Unflag, EndPass
  <1> QED
    BY <1>3, <1>4, <1>5, <1>6, <1>7, <1>8, <1>9 DEF Next, Callback, Loop

-----------------------------------------------------------------------------
\* The inductive invariant holds in every reachable state.
THEOREM Invariance == Spec => []Inv
  <1>1. Init => Inv
    <2> SUFFICES ASSUME Init PROVE Inv
      OBVIOUS
    <2>1. TypeOK
      BY TypeInit
    <2>2. \A s \in Slots : ~InUse(s)
      BY DEF Init, InUse, Nobody
    <2> QED
      BY <2>1, <2>2, RadarAssumption
      DEF RadarAssumption, Init, Inv, UniqueSlot, SearchInv, ClaimInv, DataInv,
          ClockInv, NoImmortalSlot
  <1>2. Inv /\ [Next]_vars => Inv'
    BY TypeNext, UniqueNext, SearchNext, ClaimNext, DataNext, ClockNext,
       NoImmortalNext
    DEF Inv
  <1> QED
    BY <1>1, <1>2, PTL DEF Spec

\* No transmitter ever holds two slots of the radar's table.
THEOREM UniqueSlotCorrect == Spec => []UniqueSlot
  <1>1. Inv => UniqueSlot
    BY DEF Inv
  <1> QED
    BY <1>1, Invariance, PTL

\* Before millis() wraps round every slot in use carries the time at which it
\* was last seen, so that loop() can expire it.
THEOREM NoImmortalSlotCorrect == Spec => []NoImmortalSlot
  <1>1. Inv => NoImmortalSlot
    BY DEF Inv
  <1> QED
    BY <1>1, Invariance, PTL

\* A slot in use that callback() is not working on holds an operator ID or a
\* position, its holder's or an earlier holder's: a station without Remote ID
\* keeps no slot that no transmitter has used.
THEOREM SlotInUseHasDataCorrect == Spec => []SlotInUseHasData
  <1>1. Inv => SlotInUseHasData
    BY DEF Inv, DataInv, SlotInUseHasData
  <1> QED
    BY <1>1, Invariance, PTL

\* parse_odid() copies into the sender's slot or into a vacated one.
THEOREM CopiedDataIsSendersCorrect == Spec => CopiedDataIsSenders
  <1>1. ASSUME Inv, [Next]_vars, NEW s \in Slots, InUse(s)'
        PROVE  /\ op_id'[s] # op_id[s] => op_id'[s] \in {Nobody, mac'[s]}
               /\ lat_d'[s] # lat_d[s] => lat_d'[s] \in {Nobody, mac'[s]}
    <2>1. CASE ParseOdid
      <3>1. s # UAV => op_id'[s] = op_id[s] /\ lat_d'[s] = lat_d[s]
        BY <2>1 DEF ParseOdid, Inv, TypeOK
      <3>2. mac' = mac
        BY <2>1 DEF ParseOdid
      <3>3. s = UAV => mac[s] = cmac
        BY <1>1, <2>1, <3>2 DEF ParseOdid, Inv, ClaimInv, InUse
      <3>4. s = UAV => /\ op_id'[s] = Copied(uas.oper, op_id[s])
                       /\ lat_d'[s] = Copied(uas.loc, lat_d[s])
        BY <1>1, <2>1 DEF ParseOdid, Inv, TypeOK
      <3>5. uas.oper \in Content /\ uas.loc \in Content
        BY <1>1 DEF Inv, TypeOK, UasData
      <3> QED
        BY <3>1, <3>2, <3>3, <3>4, <3>5 DEF Copied, Content
    <2>2. CASE UNCHANGED <<op_id, lat_d>>
      BY <2>2
    <2> QED
      BY <1>1, <2>1, <2>2
      DEF Next, Callback, Loop, vars, table, Tick, Receive, MatchSlot,
          MatchDone, FreeSlot, TableFull, Claim, Stamp, DecodePack, Release,
          StartPass, CheckSlot, ExpireSlot, VacateSlot, TestSlot, Report,
          Unflag, EndPass
  <1>2. Inv /\ [Next]_vars =>
          [\A s \in Slots : InUse(s)' =>
             /\ op_id'[s] # op_id[s] => op_id'[s] \in {Nobody, mac'[s]}
             /\ lat_d'[s] # lat_d[s] => lat_d'[s] \in {Nobody, mac'[s]}]_vars
    BY <1>1
  <1> QED
    BY <1>2, Invariance, PTL DEF Spec, CopiedDataIsSenders

\* Only the last slot changes hands while it is in use.
THEOREM OnlyLastSlotIsStolenCorrect == Spec => OnlyLastSlotIsStolen
  <1>1. ASSUME Inv, [Next]_vars, NEW s \in Slots, InUse(s),
               mac'[s] \notin {mac[s], [mac[s] EXCEPT !.first = 0]}
        PROVE  s = MaxUavs - 1
    <2>1. CASE Claim
      BY <1>1, <2>1 DEF Claim, Inv, TypeOK, SearchInv
    <2>2. CASE Release \/ VacateSlot
      BY <1>1, <2>2 DEF Release, VacateSlot, Inv, TypeOK
    <2>3. CASE mac' = mac
      BY <1>1, <2>3
    <2> QED
      BY <1>1, <2>1, <2>2, <2>3
      DEF Next, Callback, Loop, vars, table, Tick, Receive, MatchSlot,
          MatchDone, FreeSlot, TableFull, Stamp, DecodePack, ParseOdid,
          StartPass, CheckSlot, ExpireSlot, TestSlot, Report, Unflag, EndPass
  <1>2. Inv /\ [Next]_vars =>
          [\A s \in Slots :
             InUse(s) /\ mac'[s] \notin {mac[s], [mac[s] EXCEPT !.first = 0]}
               => s = MaxUavs - 1]_vars
    BY <1>1
  <1> QED
    BY <1>2, Invariance, PTL DEF Spec, OnlyLastSlotIsStolen

-----------------------------------------------------------------------------
\* The table never shows more transmitters than it has slots.
LEMMA TrackedBound ==
  ASSUME TypeOK
  PROVE  IsFiniteSet(Tracked) /\ Cardinality(Tracked) <= MaxUavs
  <1> DEFINE S == {t \in Slots : InUse(t)}
             f == [s \in S |-> mac[s]]
  <1>1. IsFiniteSet(Slots) /\ Cardinality(Slots) = MaxUavs
    <2>1. MaxUavs \in Nat \ {0} /\ 0 \in Int /\ MaxUavs - 1 \in Int
      BY RadarAssumption DEF RadarAssumption
    <2> QED
      BY <2>1, FS_Interval DEF Slots
  <1>2. IsFiniteSet(S) /\ Cardinality(S) <= MaxUavs
    <2>1. S \in SUBSET Slots
      OBVIOUS
    <2> QED
      BY <1>1, <2>1, FS_Subset
  <1>3. f \in Surjection(S, Tracked)
    BY DEF Surjection, Tracked
  <1>4. IsFiniteSet(Tracked) /\ Cardinality(Tracked) <= Cardinality(S)
    BY <1>2, <1>3, FS_Surjection
  <1> HIDE DEF S
  <1>5. Cardinality(Tracked) \in Nat /\ Cardinality(S) \in Nat
    BY <1>2, <1>4, FS_CardinalityType
  <1> QED
    BY <1>2, <1>4, <1>5, RadarAssumption DEF RadarAssumption

\* Steps that write no address and keep to their part of callback() are
\* invisible in the abstract table.
LEMMA TableStutters ==
  ASSUME UNCHANGED <<mac, cmac>>,
         (cpc \in {"stamp", "frame", "copy"}) = (cpc' \in {"stamp", "frame", "copy"})
  PROVE  UNCHANGED Table!vars
  BY DEF Table!vars, Tracked, InUse

\* Clearing the first octet of a slot's address takes that address, and no
\* other, out of the abstract set.
LEMMA VacateTracked ==
  ASSUME Inv, NEW t \in Slots, mac' = [mac EXCEPT ![t].first = 0]
  PROVE  Tracked' = Tracked \ (IF InUse(t) THEN {mac[t]} ELSE {})
  <1>1. ASSUME NEW s \in Slots, InUse(s)'
        PROVE  InUse(s) /\ mac'[s] = mac[s] /\ s # t
    BY <1>1, VacateMac DEF Inv
  <1>2. ASSUME NEW s \in Slots, InUse(s), s # t
        PROVE  InUse(s)' /\ mac'[s] = mac[s]
    BY <1>2 DEF Inv, TypeOK, InUse
  <1>3. ASSUME NEW s \in Slots, InUse(s), s # t PROVE InUse(t) => mac[s] # mac[t]
    BY <1>3 DEF Inv, UniqueSlot
  <1>4. ASSUME NEW x \in Tracked' PROVE x \in Tracked \ (IF InUse(t) THEN {mac[t]} ELSE {})
    <2>1. PICK s \in Slots : InUse(s)' /\ x = mac'[s]
      BY <1>4 DEF Tracked
    <2> QED
      BY <2>1, <1>1, <1>3 DEF Tracked
  <1>5. ASSUME NEW x \in Tracked \ (IF InUse(t) THEN {mac[t]} ELSE {}) PROVE x \in Tracked'
    <2>1. PICK s \in Slots : InUse(s) /\ x = mac[s]
      BY <1>5 DEF Tracked
    <2>2. s # t
      BY <1>5, <2>1
    <2> QED
      BY <2>1, <2>2, <1>2 DEF Tracked
  <1> QED
    BY <1>4, <1>5

\* Tracker counts as this module does.
LEMMA SameCardinality == \A S : Table!Cardinality(S) = Cardinality(S)
  BY DEF Cardinality, Table!Cardinality, IsFiniteSet, Table!IsFiniteSet

\* The claim of a slot is the one step that records a frame.
LEMMA ClaimRecords ==
  ASSUME Inv, Claim
  PROVE  \E gone \in SUBSET Tracked : Table!Record(gone)
  <1> DEFINE gone == IF InUse(UAV) /\ mac[UAV] # cmac THEN {mac[UAV]} ELSE {}
             shown == {cmac} \cap {m \in Addresses : m.first # 0}
  <1>1. UAV \in Slots /\ cmac \in Addresses
    BY DEF Claim, Inv, TypeOK
  <1>2. mac'[UAV] = cmac /\ \A s \in Slots : s # UAV => mac'[s] = mac[s]
    BY <1>1 DEF Claim, Inv, TypeOK
  <1>3. \A s \in Slots : s # UAV /\ InUse(s) => mac[s] # cmac
    <2>1. UAV # NoSlot
      BY <1>1, RadarAssumption DEF Slots, NoSlot, RadarAssumption
    <2> QED
      BY <1>1, <2>1 DEF Claim, Inv, SearchInv, HeldElsewhere
  <1>4. \A s \in Slots : s # UAV /\ InUse(s) /\ InUse(UAV) => mac[s] # mac[UAV]
    BY <1>1 DEF Inv, UniqueSlot
  <1>5. gone \in SUBSET Tracked
    BY <1>1 DEF Tracked
  <1>6. cmac \in Tracked => gone = {}
    BY <1>3 DEF Tracked
  <1>7. Tracked' = (Tracked \ gone) \cup shown
    <2>1. ASSUME NEW x \in Tracked' PROVE x \in (Tracked \ gone) \cup shown
      <3>1. PICK s \in Slots : InUse(s)' /\ x = mac'[s]
        BY <2>1 DEF Tracked
      <3>2. CASE s = UAV
        BY <3>1, <3>2, <1>1, <1>2 DEF InUse
      <3>3. CASE s # UAV
        <4>1. InUse(s) /\ x = mac[s]
          BY <3>1, <3>3, <1>2 DEF InUse
        <4> QED
          BY <4>1, <3>3, <1>4 DEF Tracked
      <3> QED
        BY <3>2, <3>3
    <2>2. ASSUME NEW x \in Tracked \ gone PROVE x \in Tracked'
      <3>1. PICK s \in Slots : InUse(s) /\ x = mac[s]
        BY <2>2 DEF Tracked
      <3>2. CASE s = UAV
        <4>1. x = cmac
          BY <2>2, <3>1, <3>2
        <4> QED
          BY <4>1, <3>1, <3>2, <1>1, <1>2 DEF Tracked, InUse
      <3>3. CASE s # UAV
        BY <3>1, <3>3, <1>2 DEF Tracked, InUse
      <3> QED
        BY <3>2, <3>3
    <2>3. ASSUME NEW x \in shown PROVE x \in Tracked'
      BY <2>3, <1>1, <1>2 DEF Tracked, InUse
    <2> QED
      BY <2>1, <2>2, <2>3
  <1>8. Cardinality(gone) <= 1
    <2>1. gone = {} \/ gone = {mac[UAV]}
      OBVIOUS
    <2>2. Cardinality({}) = 0 /\ Cardinality({mac[UAV]}) = 1
      BY FS_EmptySet, FS_Singleton
    <2> HIDE DEF gone
    <2> QED
      BY <2>1, <2>2
  <1>9. Cardinality(Tracked') <= MaxUavs
    <2>1. TypeOK'
      BY TypeNext DEF Inv, Next, Callback
    <2>2. (TypeOK => Cardinality(Tracked) <= MaxUavs)'
      BY TrackedBound, PTL
    <2> QED
      BY <2>1, <2>2
  <1>10. cmac # Nobody
    BY <1>1, RadarAssumption DEF RadarAssumption
  <1>11. /\ ~(cpc \in {"stamp", "frame", "copy"}) /\ UNCHANGED cmac
         /\ (cpc' \in {"stamp", "frame", "copy"}) = TRUE
    BY DEF Claim
  <1> HIDE DEF gone
  <1> WITNESS gone \in SUBSET Tracked
  <1> QED
    BY <1>6, <1>7, <1>8, <1>9, <1>10, <1>11, SameCardinality DEF Table!Record

\* Every step of the two tasks is a step of the abstract table or invisible
\* there.
LEMMA TableStep == Inv /\ [Next]_vars => [Table!Next]_(Table!vars)
  <1> SUFFICES ASSUME Inv, [Next]_vars PROVE [Table!Next]_(Table!vars)
    OBVIOUS
  <1>1. ASSUME NEW m \in Addresses, Receive(m) PROVE Table!Next
    <2>1. cmac = Nobody /\ cmac' = m /\ UNCHANGED mac
      BY <1>1 DEF Receive, Inv, TypeOK, ClaimInv, table
    <2>2. /\ (cpc' \in {"stamp", "frame", "copy"}) = FALSE
          /\ (cpc \in {"stamp", "frame", "copy"}) = FALSE
      BY <1>1 DEF Receive
    <2>3. Table!Hear(m)
      BY <2>1, <2>2 DEF Table!Hear, Tracked, InUse
    <2> QED
      BY <2>3 DEF Table!Next
  <1>2. CASE Claim
    BY <1>2, ClaimRecords DEF Table!Next
  <1>3. CASE Release
    <2>1. UAV \in Slots
      BY <1>3 DEF Release, Inv, TypeOK
    <2>2. InUse(UAV) => mac[UAV] = cmac
      BY <1>3 DEF Release, Inv, ClaimInv
    <2>3. \E gone \in SUBSET {cmac} : Tracked' = Tracked \ gone
      <3>1. CASE mac' = mac
        <4>1. Tracked' = Tracked \ {}
          BY <3>1 DEF Tracked, InUse
        <4> QED
          BY <4>1
      <3>2. CASE mac' = [mac EXCEPT ![UAV].first = 0]
        BY <3>2, <2>1, <2>2, VacateTracked
      <3> QED
        BY <1>3, <3>1, <3>2 DEF Release
    <2>4. /\ (cpc \in {"stamp", "frame", "copy"}) = TRUE
          /\ (cpc' \in {"stamp", "frame", "copy"}) = FALSE
          /\ cmac' = Nobody
      BY <1>3 DEF Release
    <2> QED
      BY <2>3, <2>4 DEF Table!Next, Table!Finish
  <1>4. CASE VacateSlot
    <2>1. i \in Slots /\ mac' = [mac EXCEPT ![i].first = 0]
      BY <1>4 DEF VacateSlot, Inv, TypeOK
    <2>2. Tracked' = Tracked \ (IF InUse(i) THEN {mac[i]} ELSE {})
      BY <2>1, VacateTracked
    <2>3. UNCHANGED cmac /\ (cpc \in {"stamp", "frame", "copy"}) =
                            (cpc' \in {"stamp", "frame", "copy"})
      BY <1>4 DEF VacateSlot, cbVars
    <2>4. CASE InUse(i)
      <3>1. mac[i] \in Tracked
        BY <2>1, <2>4 DEF Tracked
      <3> QED
        BY <2>2, <2>3, <2>4, <3>1 DEF Table!Next, Table!Forget
    <2>5. CASE ~InUse(i)
      BY <2>2, <2>3, <2>5 DEF Table!vars
    <2> QED
      BY <2>4, <2>5
  <1>5. CASE MatchSlot \/ MatchDone \/ FreeSlot \/ TableFull \/ Stamp \/ ParseOdid
    BY <1>5, TableStutters
    DEF MatchSlot, MatchDone, FreeSlot, TableFull, Stamp, ParseOdid, table
  <1>6. ASSUME NEW d \in Packs, DecodePack(d) PROVE UNCHANGED Table!vars
    BY <1>6, TableStutters DEF DecodePack
  <1>7. CASE UNCHANGED <<mac, cbVars>>
    BY <1>7, TableStutters DEF cbVars
  <1> QED
    BY <1>1, <1>2, <1>3, <1>4, <1>5, <1>6, <1>7
    DEF Next, Callback, Loop, vars, table, Tick, StartPass, CheckSlot,
        ExpireSlot, TestSlot, Report, Unflag, EndPass

\* The radar's table implements the atomic set of transmitters.
THEOREM TrackerImplemented == Spec => ImplementsTracker
  <1>1. Init => Table!Init
    <2> SUFFICES ASSUME Init PROVE Table!Init
      OBVIOUS
    <2>1. \A s \in Slots : ~InUse(s)
      BY DEF Init, InUse, Nobody
    <2>2. Tracked = {}
      BY <2>1 DEF Tracked
    <2> QED
      BY <2>2 DEF Init, Table!Init
  <1> QED
    BY <1>1, TableStep, Invariance, PTL DEF Spec, ImplementsTracker, Table!Spec
=============================================================================
