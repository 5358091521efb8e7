--------------------------- MODULE GpsLoopProofs ---------------------------
(***************************************************************************)
(* Proofs about GpsLoop, for all retry limits and all sets of fields: the  *)
(* GPS thread is never the one to give up a gpsd that still reports.       *)
(***************************************************************************)
EXTENDS GpsLoop, SequenceTheorems, TLAPS

(* The counters of the thread and the polls since the last report.          *)
CountOK ==
    /\ retries \in Nat /\ read_retries \in Nat /\ since \in 0..MaxSince
    /\ retries <= MAX_GPS_WAIT_RETRIES + 2
    /\ read_retries <= MAX_GPS_READ_RETRIES + 2

(* Each counter has counted polls since the last report only, and has not   *)
(* passed its limit while the thread runs; the error exit is final.         *)
CountInv ==
    /\ retries <= since /\ read_retries <= since
    /\ gpc # "done" =>
           /\ retries <= MAX_GPS_WAIT_RETRIES + 1
           /\ read_retries <= MAX_GPS_READ_RETRIES + 1
           /\ exit_status # 1

(* The inductive invariant.                                                 *)
Inv == CountOK /\ CountInv /\ NotGivenUpEarly

(* The thread starts with nothing counted.                                  *)
LEMMA InvInit == Init => Inv
BY GpsAssumption DEF GpsAssumption, Init, Inv, CountOK, CountInv, NotGivenUpEarly

(* Every step of either thread, of gpsd or of a signal keeps the invariant. *)
LEMMA InvNext == Inv /\ [Next]_vars => Inv'
<1> SUFFICES ASSUME Inv, [Next]_vars PROVE Inv'
  OBVIOUS
<1> USE GpsAssumption DEF GpsAssumption, Inv, CountOK, CountInv, NotGivenUpEarly
<1>1. CASE SeeKill
  BY <1>1 DEF SeeKill
<1>2. CASE SeeNoKill
  BY <1>2 DEF SeeNoKill
<1>3. CASE TimedOut
  <2>1. /\ since' \in 0..MaxSince /\ retries' \in Nat
        /\ retries' <= since' /\ read_retries' <= since'
    BY <1>3 DEF TimedOut, Polled
  <2>2. CASE retries > MAX_GPS_WAIT_RETRIES
    BY <1>3, <2>1, <2>2 DEF TimedOut, GiveUp
  <2>3. CASE ~(retries > MAX_GPS_WAIT_RETRIES)
    BY <1>3, <2>1, <2>3 DEF TimedOut
  <2> QED
    BY <2>2, <2>3
<1>4. CASE ReadFailed
  <2>1. /\ since' \in 0..MaxSince /\ read_retries' \in Nat
        /\ retries' = 0 /\ read_retries' <= since'
    BY <1>4 DEF ReadFailed, Polled
  <2>2. CASE read_retries > MAX_GPS_READ_RETRIES
    BY <1>4, <2>1, <2>2 DEF ReadFailed, GiveUp
  <2>3. CASE ~(read_retries > MAX_GPS_READ_RETRIES)
    BY <1>4, <2>1, <2>3 DEF ReadFailed
  <2> QED
    BY <2>2, <2>3
<1>5. CASE ReadReport
  BY <1>5 DEF ReadReport
<1>6. CASE WriteField
  BY <1>6 DEF WriteField
<1>7. CASE Processed
  BY <1>7 DEF Processed
<1>8. CASE Main \/ Signal \/ Die \/ UNCHANGED vars
  BY <1>8 DEF Main, StartRound, EncodeField, SendRound, EndRound, Signal,
              Die, vars, gpsVars
<1> QED
  BY <1>1, <1>2, <1>3, <1>4, <1>5, <1>6, <1>7, <1>8 DEF Next, Gps

(* gps_loop gives up only after more polls without a report than one of its *)
(* limits allows.                                                           *)
THEOREM GivesUpOnlySilentGpsd == Spec => []NotGivenUpEarly
<1>1. Inv => NotGivenUpEarly
  BY DEF Inv
<1> QED
  BY <1>1, InvInit, InvNext, PTL DEF Spec

-----------------------------------------------------------------------------
(* The data of the two threads: what process_gps_data still has to write,   *)
(* the fix at hand and both copies of the Location.                         *)
DataOK ==
    /\ todo \in Seq(Fields)
    /\ fix \in 0..MaxFix
    /\ Location \in [Fields -> 0..MaxFix]
    /\ encoded \in [Fields -> 0..MaxFix]
    /\ k \in 0..Len(Encoded)

(* The rest of the types.                                                   *)
ControlOK ==
    /\ gpc \in {"poll", "wait", "process", "done"}
    /\ mpc \in {"loop", "encode", "sent", "cleanup"}
    /\ exit_status \in {-1, 0, 1}
    /\ kill_program \in BOOLEAN /\ dead \in BOOLEAN

(* Every step keeps the control states.                                     *)
LEMMA ControlNext == ControlOK /\ [Next]_vars => ControlOK'
<1> SUFFICES ASSUME ControlOK, [Next]_vars PROVE ControlOK'
  OBVIOUS
<1> USE DEF ControlOK, gpsVars, mainVars
<1>1. CASE SeeKill \/ SeeNoKill \/ ReadReport \/ WriteField \/ Processed
  BY <1>1 DEF SeeKill, SeeNoKill, ReadReport, WriteField, Processed
<1>2. CASE TimedOut \/ ReadFailed
  BY <1>2 DEF TimedOut, ReadFailed, GiveUp
<1>3. CASE Main
  BY <1>3 DEF Main, StartRound, EncodeField, SendRound, EndRound
<1>4. CASE Signal \/ Die
  BY <1>4 DEF Signal, Die
<1>5. CASE UNCHANGED vars
  BY <1>5 DEF vars
<1> QED
  BY <1>1, <1>2, <1>3, <1>4, <1>5 DEF Next, Gps

(* Every step keeps the data: a fix is written only into fields of Location *)
(* and encoded only from them.                                              *)
LEMMA DataNext == DataOK /\ [Next]_vars => DataOK'
<1> SUFFICES ASSUME DataOK, [Next]_vars PROVE DataOK'
  OBVIOUS
<1>0. /\ MaxFix \in Nat /\ Len(Encoded) \in Nat /\ DOMAIN Encoded = 1..Len(Encoded)
      /\ Written2D \in Seq(Fields) /\ Written3D \in Seq(Fields)
  BY GpsAssumption DEF GpsAssumption
<1> DEFINE Quiet == UNCHANGED <<todo, fix, Location, encoded, k>>
<1>1. CASE Quiet
  BY <1>1 DEF DataOK
<1>2. CASE ReadReport
  <2>1. Written2D \o Written3D \in Seq(Fields) /\ <<>> \in Seq(Fields)
    BY <1>0, ConcatProperties, EmptySeq
  <2>2. fix' = fix + 1 /\ fix < MaxFix /\ UNCHANGED <<Location, encoded, k>>
    BY <1>2 DEF ReadReport, mainVars
  <2>3. todo' \in {<<>>, Written2D, Written2D \o Written3D}
    BY <1>2 DEF ReadReport
  <2>4. todo' \in Seq(Fields)
    BY <1>0, <2>1, <2>3, Zenon
  <2>5. fix' \in 0..MaxFix
    BY <1>0, <2>2 DEF DataOK
  <2> QED
    BY <2>2, <2>4, <2>5 DEF DataOK
<1>3. CASE WriteField
  <2>1. Head(todo) \in Fields /\ Tail(todo) \in Seq(Fields)
    BY <1>3, HeadTailProperties DEF WriteField, DataOK
  <2>2. Location' \in [Fields -> 0..MaxFix]
    BY <1>3, <2>1 DEF WriteField, DataOK
  <2>3. todo' = Tail(todo) /\ UNCHANGED <<fix, encoded, k>>
    BY <1>3 DEF WriteField, mainVars
  <2> QED
    BY <2>1, <2>2, <2>3 DEF DataOK
<1>4. CASE StartRound
  BY <1>0, <1>4 DEF StartRound, gpsVars, DataOK
<1>5. CASE EncodeField
  <2>1. k + 1 \in 1..Len(Encoded)
    BY <1>0, <1>5 DEF EncodeField, DataOK
  <2>2. Encoded[k + 1] \in Fields
    BY <1>0, <2>1, Zenon DEF Fields
  <2>3. Location[Encoded[k + 1]] \in 0..MaxFix
    BY <2>2 DEF DataOK
  <2>4. encoded' \in [Fields -> 0..MaxFix]
    BY <1>5, <2>3 DEF EncodeField, DataOK
  <2>5. k' \in 0..Len(Encoded) /\ UNCHANGED <<todo, fix, Location>>
    BY <1>0, <1>5, <2>1 DEF EncodeField, gpsVars
  <2> QED
    BY <2>4, <2>5 DEF DataOK
<1>6. Quiet \/ ReadReport \/ WriteField \/ StartRound \/ EncodeField
  BY DEF Next, Gps, Main, SeeKill, SeeNoKill, TimedOut, ReadFailed, Processed,
         SendRound, EndRound, Signal, Die, vars, gpsVars, mainVars
<1> QED
  BY <1>1, <1>2, <1>3, <1>4, <1>5, <1>6

(* Both threads keep their types; in particular neither retry counter ever  *)
(* exceeds its limit by more than two.                                      *)
THEOREM TypeCorrect == Spec => []TypeOK
<1>1. Init => DataOK /\ ControlOK
  <2> SUFFICES ASSUME Init PROVE DataOK /\ ControlOK
    OBVIOUS
  <2>1. MaxFix \in Nat /\ Len(Encoded) \in Nat
    BY GpsAssumption DEF GpsAssumption
  <2>2. <<>> \in Seq(Fields)
    BY EmptySeq
  <2>3. 0 \in 0..MaxFix /\ 0 \in 0..Len(Encoded)
    BY <2>1
  <2>4. DataOK
    BY <2>2, <2>3, Zenon DEF Init, DataOK
  <2>5. ControlOK
    BY Zenon DEF Init, ControlOK
  <2> QED
    BY <2>4, <2>5
<1>2. Inv /\ DataOK /\ ControlOK => TypeOK
  <2> SUFFICES ASSUME Inv, DataOK, ControlOK PROVE TypeOK
    OBVIOUS
  <2>1. /\ retries \in 0..(MAX_GPS_WAIT_RETRIES + 2)
        /\ read_retries \in 0..(MAX_GPS_READ_RETRIES + 2)
        /\ since \in 0..MaxSince
    BY GpsAssumption DEF GpsAssumption, Inv, CountOK
  <2> QED
    BY <2>1 DEF DataOK, ControlOK, TypeOK
<1> QED
  BY <1>1, <1>2, InvInit, InvNext, DataNext, ControlNext, PTL DEF Spec
=============================================================================
