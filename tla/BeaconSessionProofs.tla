------------------------ MODULE BeaconSessionProofs ------------------------
(***************************************************************************)
(* Proofs about BeaconSession, for every number of messages, queue length, *)
(* stop of hostapd and signal: the variables keep their types, the main    *)
(* thread never waits for a post that a finished request owes it, and the  *)
(* last message is the one that stays on the air.                          *)
(***************************************************************************)
EXTENDS BeaconSession, TLAPS

(* Until the first connection is reported, the ap_interface thread is only  *)
(* where ap_interface_init and hostapd_cli_reconnect can be, and the        *)
(* requests it makes are those of hostapd_cli_reconnect.                    *)
PhaseInv ==
    phase = "init" =>
        /\ apc \in {"open", "send", "reply", "interactive"}
        /\ apc \in {"send", "reply"} =>
               areq \in {"ATTACH", "STA-FIRST", "STA-NEXT"}

(* Requests queued at hostapd: no "set" stands behind the k-th; the "set"   *)
(* of the last message is or will be the last one carried out; and so is    *)
(* an "update_beacon" behind it.                                            *)
NoSetAfter(q, k) == \A j \in 1..Len(q) : j > k => q[j].req # "SET"

LastIsStaged(q, s) ==
    \/ \E k \in 1..Len(q) :
           q[k].req = "SET" /\ q[k].num = Rounds /\ NoSetAfter(q, k)
    \/ NoSetAfter(q, 0) /\ s = Rounds

LastIsShown(q, l) ==
    \/ \E k \in 1..Len(q) : q[k].req = "UPDATE_BEACON" /\ NoSetAfter(q, k)
    \/ NoSetAfter(q, 0) /\ l = Rounds

(* How far the main thread is: its transmission is over, the last "set" was *)
(* sent, the last "update_beacon" was.                                      *)
Leaving == mpc \in {"quit", "quitwait", "join", "joingps", "exited"}

SetSent ==
    \/ Leaving
    \/ msg = Rounds /\ mpc \in {"reply", "wait"}
    \/ msg = Rounds /\ mpc \in {"call", "check", "send"} /\ cmd = "UPDATE_BEACON"

UpdateSent ==
    \/ Leaving
    \/ msg = Rounds /\ mpc \in {"reply", "wait"} /\ cmd = "UPDATE_BEACON"

(* As long as no command is lost and hostapd runs, whatever is true of the  *)
(* replies: what has been sent will be carried out, in this order.          *)
AirInv ==
    ~lost /\ stops = 0 /\ ~UseGps =>
        /\ mpc \notin {"setup", "loop"}
        /\ mpc = "connecting" => cmd = "SET"
        /\ mpc \in {"call", "check", "send", "reply", "wait"} =>
               cmd \in {"SET", "UPDATE_BEACON"}
        /\ SetSent => LastIsStaged(inq, staged)
        /\ UpdateSent => LastIsShown(inq, live)

(* The inductive invariant.                                                 *)
Inv == TypeOK /\ PhaseInv /\ NoLostWakeup /\ AirInv

-----------------------------------------------------------------------------
(* Appending to a queue that has room keeps it within its length.           *)
LEMMA AppendInQueue ==
    ASSUME NEW S, NEW q \in Seq(S), NEW e \in S, Room(q), QueueLen \in Nat
    PROVE  Append(q, e) \in Seq(S) /\ Len(Append(q, e)) <= QueueLen
BY DEF Room

(* Taking the oldest entry of a queue keeps it within its length.           *)
LEMMA TailInQueue ==
    ASSUME NEW S, NEW q \in Seq(S), q # <<>>, Len(q) <= QueueLen,
           QueueLen \in Nat
    PROVE  /\ Tail(q) \in Seq(S) /\ Len(Tail(q)) <= QueueLen
           /\ Head(q) \in S
OBVIOUS

(* Closing the asker's socket changes no other part of the queued requests. *)
LEMMA OrphanedQueue ==
    ASSUME NEW q \in Seq(Message), Len(q) <= QueueLen
    PROVE  LET r == [k \in DOMAIN q |-> [q[k] EXCEPT !.open = FALSE]]
           IN  r \in Seq(Message) /\ Len(r) <= QueueLen
<1> DEFINE r == [k \in DOMAIN q |-> [q[k] EXCEPT !.open = FALSE]]
<1>1. DOMAIN q = 1..Len(q) /\ Len(q) \in Nat
  OBVIOUS
<1>2. \A k \in 1..Len(q) : [q[k] EXCEPT !.open = FALSE] \in Message
  <2> SUFFICES ASSUME NEW k \in 1..Len(q)
               PROVE  [q[k] EXCEPT !.open = FALSE] \in Message
    OBVIOUS
  <2>1. q[k] \in Message
    OBVIOUS
  <2> QED
    BY <2>1 DEF Message
<1>3. r \in [1..Len(q) -> Message]
  BY <1>1, <1>2
<1>4. r \in Seq(Message)
  BY <1>1, <1>3
<1>5. Len(r) = Len(q)
  BY <1>1, <1>3, <1>4
<1> QED
  BY <1>4, <1>5

-----------------------------------------------------------------------------
(* The variables have their types when ap_interface_init is started.        *)
LEMMA TypeInit == Init => TypeOK
<1> SUFFICES ASSUME Init PROVE TypeOK
  OBVIOUS
<1>1. <<>> \in Seq(Message) /\ <<>> \in Seq(Replies) /\ Len(<<>>) = 0
  OBVIOUS
<1>2. /\ inq \in Seq(Message) /\ outq \in Seq(Replies)
      /\ Len(inq) <= QueueLen /\ Len(outq) <= QueueLen
  BY <1>1, BeaconAssumption DEF BeaconAssumption, Init
<1>3. /\ attached \in BOOLEAN /\ terminate \in BOOLEAN
      /\ pending \in BOOLEAN /\ kill_program \in BOOLEAN
      /\ up \in BOOLEAN /\ lost \in BOOLEAN
  BY DEF Init
<1>4. /\ sem \in Nat /\ msg \in 1..Rounds
      /\ staged \in 0..Rounds /\ live \in 0..Rounds
      /\ stops \in 0..MaxStops /\ signals \in 0..MaxSignals
  BY BeaconAssumption DEF BeaconAssumption, Init
<1>5. /\ ctrl_conn = "null" /\ mpc = "connecting" /\ cmd = "SET"
      /\ mctrl = "null" /\ mret = "none" /\ apc = "open" /\ areq = "none"
      /\ phase = "init" /\ disp = "default" /\ gpc = "none"
  BY DEF Init
<1> QED
  BY <1>2, <1>3, <1>4, <1>5 DEF TypeOK, Commands, ApRequests

(* What the end of a request of the main thread sets has its type.          *)
LEMMA ReturnType ==
    ASSUME TypeOK, NEW how \in {"failed", "replied"}, Return(how),
           lost' \in BOOLEAN, outq' \in Seq(Replies), Len(outq') <= QueueLen
    PROVE  TypeOK'
BY DEF TypeOK, Return, apVars, signalVars, hostapdVars

(* What the end of a request of the ap_interface thread sets has its type.  *)
LEMMA ApResultType ==
    ASSUME TypeOK, NEW res, NEW q \in Seq(Replies), Len(q) <= QueueLen,
           ApResult(res, q), apResultUnchanged
    PROVE  TypeOK'
<1>1. <<>> \in Seq(Replies) /\ Len(<<>>) <= QueueLen
  BY BeaconAssumption DEF BeaconAssumption
<1>2. sem' \in Nat
  BY DEF TypeOK, ApResult, Connected
<1>3. attached' \in BOOLEAN
  BY DEF TypeOK, ApResult
<1>4. outq' = q \/ outq' = <<>>
  BY DEF ApResult, Connected
<1>5. apc' \in {"send", "interactive", "top", "close", "shut"}
  BY DEF ApResult, Connected
<1>6. areq' \in {"STA-FIRST", "STA-NEXT", "none"}
  BY DEF ApResult, Connected
<1>7. outq' \in Seq(Replies) /\ Len(outq') <= QueueLen
  BY <1>1, <1>4
<1> QED
  BY <1>2, <1>3, <1>5, <1>6, <1>7
     DEF TypeOK, apResultUnchanged, mainVars, signalVars, ApRequests

(* Every step of a thread, of hostapd or of a signal keeps the types.       *)
LEMMA TypeNext == TypeOK /\ [Next]_vars => TypeOK'
<1> SUFFICES ASSUME TypeOK, [Next]_vars PROVE TypeOK'
  OBVIOUS
<1> USE BeaconAssumption DEF BeaconAssumption
<1>0. /\ inq \in Seq(Message) /\ Len(inq) <= QueueLen
      /\ \A r \in Commands \cup ApRequests : Request(r) \in Message
      /\ <<>> \in Seq(Message) /\ <<>> \in Seq(Replies)
      /\ Len(<<>>) <= QueueLen /\ QueueLen \in Nat
  BY DEF TypeOK, Message, Request
<1>1. CASE MainConnected
  BY <1>1 DEF MainConnected, TypeOK, sessionVars, mainVars, apVars, signalVars, hostapdVars
<1>2. CASE GpsSetup
  BY <1>2 DEF GpsSetup, TypeOK, sessionVars, mainVars, apVars, signalVars, hostapdVars
<1>3. CASE NextRound
  BY <1>3 DEF NextRound, Commands, TypeOK, sessionVars, mainVars, apVars, signalVars, hostapdVars
<1>4. CASE Call
  BY <1>4 DEF Call, TypeOK, sessionVars, mainVars, apVars, signalVars, hostapdVars
<1>5. CASE Check
  <2>1. /\ mpc' \in {"wait", "send"}
        /\ mret' \in {"none", "dropped", "failed", "replied"}
        /\ lost' \in BOOLEAN
    BY <1>5 DEF Check, TypeOK
  <2> QED
    BY <1>5, <2>1 DEF Check, TypeOK, sessionVars, mainVars, apVars, signalVars, hostapdVars
<1>6. CASE Send
  <2>1. inq' \in Seq(Message) /\ Len(inq') <= QueueLen
    <3>1. Request(cmd) \in Message
      BY <1>0 DEF TypeOK
    <3> QED
      BY <1>6, <1>0, <3>1, AppendInQueue DEF Send
  <2> QED
    BY <1>6, <2>1 DEF Send, TypeOK, sessionVars, mainVars, apVars, signalVars, hostapdVars
<1>7. CASE SendFails
  BY <1>7, ReturnType DEF SendFails, TypeOK
<1>8. CASE Receive
  <2>1. Tail(outq) \in Seq(Replies) /\ Len(Tail(outq)) <= QueueLen
    BY <1>8, TailInQueue DEF Receive, TypeOK
  <2> QED
    BY <1>8, <2>1, ReturnType DEF Receive, TypeOK
<1>9. CASE ReceiveFails
  BY <1>9, ReturnType DEF ReceiveFails, TypeOK, NoReply
<1>10. CASE UseClosed
  <2>1. CASE Return("failed") /\ UNCHANGED outq
    BY <1>10, <2>1, ReturnType DEF UseClosed, TypeOK
  <2>2. CASE ~(Return("failed") /\ UNCHANGED outq)
    BY <1>10, <2>2 DEF UseClosed, TypeOK, sessionVars, mainVars, apVars, signalVars, hostapdVars
  <2> QED
    BY <2>1, <2>2
<1>11. CASE Wait
  BY <1>11 DEF Wait, Advance, Commands, TypeOK, sessionVars, mainVars, apVars, signalVars, hostapdVars
<1>12. CASE Quit
  BY <1>12 DEF Quit, Commands, TypeOK, sessionVars, mainVars, apVars, signalVars, hostapdVars
<1>13. CASE QuitWait
  BY <1>13 DEF QuitWait, TypeOK, sessionVars, mainVars, apVars, signalVars, hostapdVars
<1>14. CASE Join
  BY <1>14 DEF Join, TypeOK, sessionVars, mainVars, apVars, signalVars, hostapdVars
<1>15. CASE ApOpen
  BY <1>15 DEF ApOpen, Open, ApRequests, TypeOK, sessionVars, mainVars, apVars, signalVars, hostapdVars
<1>16. CASE ApReopen
  BY <1>16 DEF ApReopen, Open, ApRequests, TypeOK, sessionVars, mainVars, apVars, signalVars, hostapdVars
<1>17. CASE ApSend
  <2>1. inq' \in Seq(Message) /\ Len(inq') <= QueueLen
    <3>1. Request(areq) \in Message
      BY <1>0 DEF TypeOK
    <3> QED
      BY <1>17, <1>0, <3>1, AppendInQueue DEF ApSend
  <2> QED
    BY <1>17, <2>1 DEF ApSend, TypeOK, sessionVars, mainVars, apVars, signalVars, hostapdVars
<1>18. CASE ApReceive
  <2>1. Tail(outq) \in Seq(Replies) /\ Len(Tail(outq)) <= QueueLen
    BY <1>18, TailInQueue DEF ApReceive, TypeOK
  <2> QED
    BY <1>18, <2>1, ApResultType DEF ApReceive
<1>19. CASE ApFails
  BY <1>19, ApResultType DEF ApFails, TypeOK
<1>20. CASE Interactive
  BY <1>20 DEF Interactive, TypeOK, sessionVars, mainVars, apVars, signalVars, hostapdVars
<1>21. CASE Top
  <2>1. terminate' \in BOOLEAN /\ pending' \in BOOLEAN
    BY <1>21, Zenon DEF Top
  <2>2. apc' \in {"close", "eloop"} /\ phase' \in {"init", "run", "leave"}
    BY <1>21 DEF Top, TypeOK
  <2> QED
    BY <1>21, <2>1, <2>2 DEF Top, TypeOK, sessionVars, mainVars, apVars, signalVars, hostapdVars
<1>22. CASE PingTimer
  <2>1. terminate' \in BOOLEAN /\ pending' \in BOOLEAN
    BY <1>22, Zenon DEF PingTimer
  <2>2. apc' \in {"reopen", "send"} /\ areq' \in ApRequests
    BY <1>22 DEF PingTimer, TypeOK, ApRequests
  <2> QED
    BY <1>22, <2>1, <2>2 DEF PingTimer, TypeOK, sessionVars, mainVars, apVars, signalVars, hostapdVars
<1>23. CASE HandleEvent
  <2>1. terminate' \in BOOLEAN /\ pending' \in BOOLEAN
    BY <1>23, Zenon DEF HandleEvent
  <2>2. outq' \in Seq(Replies) /\ Len(outq') <= QueueLen
    BY <1>23, <1>0 DEF HandleEvent, TypeOK
  <2> QED
    BY <1>23, <2>1, <2>2 DEF HandleEvent, TypeOK, sessionVars, mainVars, apVars, signalVars, hostapdVars
<1>24. CASE Close
  BY <1>24 DEF Close, ApRequests, TypeOK, sessionVars, mainVars, apVars, signalVars, hostapdVars
<1>25. CASE Shut
  <2>1. inq' \in Seq(Message) /\ Len(inq') <= QueueLen
    BY <1>25, <1>0, OrphanedQueue DEF Shut
  <2>2. outq' \in Seq(Replies) /\ Len(outq') <= QueueLen
    BY <1>25, <1>0 DEF Shut
  <2>3. /\ ctrl_conn' = "null" /\ attached' \in BOOLEAN
        /\ mctrl' \in {"null", "cur", "stale"} /\ apc' \in {"done", "reopen"}
    BY <1>25 DEF Shut, TypeOK
  <2> QED
    BY <1>25, <2>1, <2>2, <2>3 DEF Shut, TypeOK, sessionVars, mainVars, apVars, signalVars, hostapdVars
<1>26. CASE GpsGivesUp
  BY <1>26 DEF GpsGivesUp, TypeOK, sessionVars, mainVars, apVars, signalVars, hostapdVars
<1>27. CASE GpsStops
  BY <1>27 DEF GpsStops, TypeOK, sessionVars, mainVars, apVars, signalVars, hostapdVars
<1>28. CASE Signal
  BY <1>28 DEF Signal, TypeOK, sessionVars, mainVars, apVars, signalVars, hostapdVars
<1>29. CASE Alarm
  BY <1>29 DEF Alarm, TypeOK, sessionVars, mainVars, apVars, signalVars, hostapdVars
<1>30. CASE Serve
  <2> DEFINE r == Head(inq)
  <2>1. inq' \in Seq(Message) /\ Len(inq') <= QueueLen /\ r \in Message
    BY <1>30, <1>0, TailInQueue DEF Serve
  <2>2. r.num \in 1..Rounds /\ staged' \in 0..Rounds /\ live' \in 0..Rounds
    BY <1>30, <2>1 DEF Serve, Message, TypeOK
  <2>3. Answer(r.req) \in Replies
    BY DEF Answer, Replies
  <2>4. outq' \in Seq(Replies) /\ Len(outq') <= QueueLen
    BY <1>30, <1>0, <2>3, AppendInQueue DEF Serve, TypeOK
  <2> QED
    BY <1>30, <2>1, <2>2, <2>4 DEF Serve, TypeOK, sessionVars, mainVars, apVars, signalVars, hostapdVars
<1>31. CASE Stop
  <2>1. /\ inq' \in Seq(Message) /\ Len(inq') <= QueueLen
        /\ staged' \in 0..Rounds /\ live' \in 0..Rounds
        /\ stops' \in 0..MaxStops
    BY <1>31, <1>0 DEF Stop, TypeOK
  <2>2. ctrl_conn' \in {"null", "open", "dead"} /\ up' \in BOOLEAN
    BY <1>31 DEF Stop, TypeOK
  <2> QED
    BY <1>31, <2>1, <2>2 DEF Stop, TypeOK, sessionVars, mainVars, apVars, signalVars, hostapdVars
<1>32. CASE Start
  BY <1>32 DEF Start, TypeOK, sessionVars, mainVars, apVars, signalVars, hostapdVars
<1>33. CASE UNCHANGED vars
  BY <1>33 DEF vars, TypeOK, sessionVars, mainVars, apVars, signalVars, hostapdVars
<1> QED
  BY <1>1, <1>2, <1>3, <1>4, <1>5, <1>6, <1>7, <1>8, <1>9, <1>10, <1>11, <1>12, <1>13, <1>14, <1>15, <1>16, <1>17, <1>18, <1>19, <1>20, <1>21, <1>22, <1>23, <1>24, <1>25, <1>26, <1>27, <1>28, <1>29, <1>30, <1>31, <1>32, <1>33
    DEF Next, Main, Ap, Gps, Signals

-----------------------------------------------------------------------------
(* The event loop is not reached before the first connection is reported.   *)
LEMMA PhaseNext == TypeOK /\ PhaseInv /\ [Next]_vars => PhaseInv'
<1> SUFFICES ASSUME TypeOK, PhaseInv, [Next]_vars PROVE PhaseInv'
  OBVIOUS
<1> USE DEF PhaseInv
<1>1. ASSUME UNCHANGED <<apc, areq, phase>> PROVE PhaseInv'
  BY <1>1
<1>2. CASE ApOpen
  BY <1>2 DEF ApOpen, Open
<1>3. CASE ApReopen
  BY <1>3 DEF ApReopen, Open
<1>4. CASE ApSend
  BY <1>4 DEF ApSend
<1>5. CASE ApReceive
  BY <1>5 DEF ApReceive, ApResult, Connected, apResultUnchanged
<1>6. CASE ApFails
  BY <1>6 DEF ApFails, ApResult, Connected, apResultUnchanged
<1>7. CASE Interactive
  BY <1>7 DEF Interactive
<1>8. CASE Top
  BY <1>8 DEF Top
<1>9. CASE PingTimer
  BY <1>9 DEF PingTimer
<1>10. CASE HandleEvent
  BY <1>10 DEF HandleEvent
<1>11. CASE Close
  BY <1>11 DEF Close
<1>12. CASE Shut
  BY <1>12 DEF Shut
<1>13. ASSUME MainConnected \/ GpsSetup \/ NextRound \/ Call \/ Check \/ Send \/ SendFails
             \/ Receive \/ ReceiveFails \/ UseClosed \/ Wait \/ Quit \/ QuitWait \/ Join
             \/ GpsGivesUp \/ GpsStops \/ Signal \/ Alarm \/ Serve \/ Stop \/ Start
             \/ UNCHANGED vars
      PROVE  UNCHANGED <<apc, areq, phase>>
  BY <1>13 DEF MainConnected, GpsSetup, NextRound, Call, Check, Send, SendFails, Receive, ReceiveFails, UseClosed, Wait, Quit, QuitWait, Join, GpsGivesUp, GpsStops, Signal, Alarm, Serve, Stop, Start, Return, apVars, vars
<1> QED
  BY <1>1, <1>2, <1>3, <1>4, <1>5, <1>6, <1>7, <1>8, <1>9, <1>10, <1>11, <1>12, <1>13
    DEF Next, Main, Ap, Gps, Signals

(* No step takes away the post that a waiting main thread is owed.          *)
LEMMA WakeupNext ==
    TypeOK /\ PhaseInv /\ NoLostWakeup /\ [Next]_vars => NoLostWakeup'
<1> SUFFICES ASSUME TypeOK, PhaseInv, NoLostWakeup, [Next]_vars
             PROVE  NoLostWakeup'
  OBVIOUS
<1>0. sem \in Nat
  BY DEF TypeOK
<1> USE DEF NoLostWakeup
<1>1. CASE MainConnected
  BY <1>1, <1>0 DEF MainConnected, apVars
<1>2. CASE GpsSetup
  BY <1>2, <1>0 DEF GpsSetup, sessionVars, apVars
<1>3. CASE NextRound
  BY <1>3, <1>0 DEF NextRound, sessionVars, apVars
<1>4. CASE Call
  BY <1>4, <1>0 DEF Call, sessionVars, mainVars, apVars
<1>5. CASE Check
  BY <1>5, <1>0 DEF Check, sessionVars, mainVars, apVars
<1>6. CASE Send
  BY <1>6, <1>0 DEF Send, sessionVars, mainVars, apVars
<1>7. CASE SendFails
  BY <1>7, <1>0 DEF SendFails, Return, sessionVars, mainVars, apVars
<1>8. CASE Receive
  BY <1>8, <1>0 DEF Receive, Return, sessionVars, mainVars, apVars
<1>9. CASE ReceiveFails
  BY <1>9, <1>0 DEF ReceiveFails, Return, sessionVars, mainVars, apVars
<1>10. CASE UseClosed
  BY <1>10, <1>0 DEF UseClosed, Return, sessionVars, mainVars, apVars
<1>11. CASE Wait
  BY <1>11, <1>0 DEF Wait, Advance, apVars
<1>12. CASE Quit
  BY <1>12, <1>0 DEF Quit
<1>13. CASE QuitWait
  BY <1>13, <1>0 DEF QuitWait, apVars
<1>14. CASE Join
  BY <1>14, <1>0 DEF Join, sessionVars, mainVars, apVars
<1>15. CASE ApOpen
  BY <1>15, <1>0 DEF ApOpen, Open, PhaseInv, sessionVars, mainVars, apVars
<1>16. CASE ApReopen
  BY <1>16, <1>0 DEF ApReopen, Open, PhaseInv, sessionVars, mainVars, apVars
<1>17. CASE ApSend
  BY <1>17, <1>0 DEF ApSend, PhaseInv, sessionVars, mainVars, apVars
<1>18. CASE ApReceive
  BY <1>18, <1>0 DEF ApReceive, ApResult, Connected, apResultUnchanged, PhaseInv, sessionVars, mainVars, apVars
<1>19. CASE ApFails
  BY <1>19, <1>0 DEF ApFails, ApResult, Connected, apResultUnchanged, PhaseInv, sessionVars, mainVars, apVars
<1>20. CASE Interactive
  BY <1>20, <1>0 DEF Interactive, PhaseInv, sessionVars, mainVars, apVars
<1>21. CASE Top
  BY <1>21, <1>0 DEF Top, PhaseInv, sessionVars, mainVars, apVars
<1>22. CASE PingTimer
  BY <1>22, <1>0 DEF PingTimer, PhaseInv, sessionVars, mainVars, apVars
<1>23. CASE HandleEvent
  BY <1>23, <1>0 DEF HandleEvent, PhaseInv, sessionVars, mainVars, apVars
<1>24. CASE Close
  BY <1>24, <1>0 DEF Close, PhaseInv, sessionVars, mainVars, apVars
<1>25. CASE Shut
  BY <1>25, <1>0 DEF Shut, PhaseInv, sessionVars, mainVars, apVars
<1>26. CASE GpsGivesUp
  BY <1>26, <1>0 DEF GpsGivesUp, sessionVars, mainVars, apVars
<1>27. CASE GpsStops
  BY <1>27, <1>0 DEF GpsStops, sessionVars, mainVars, apVars
<1>28. CASE Signal
  BY <1>28, <1>0 DEF Signal, sessionVars, mainVars, apVars
<1>29. CASE Alarm
  BY <1>29, <1>0 DEF Alarm, sessionVars, mainVars, apVars
<1>30. CASE Serve
  BY <1>30, <1>0 DEF Serve, sessionVars, mainVars, apVars
<1>31. CASE Stop
  BY <1>31, <1>0 DEF Stop, sessionVars, mainVars, apVars
<1>32. CASE Start
  BY <1>32, <1>0 DEF Start, sessionVars, mainVars, apVars
<1>33. CASE UNCHANGED vars
  BY <1>33 DEF vars, sessionVars, mainVars, apVars
<1> QED
  BY <1>1, <1>2, <1>3, <1>4, <1>5, <1>6, <1>7, <1>8, <1>9, <1>10, <1>11, <1>12, <1>13, <1>14, <1>15, <1>16, <1>17, <1>18, <1>19, <1>20, <1>21, <1>22, <1>23, <1>24, <1>25, <1>26, <1>27, <1>28, <1>29, <1>30, <1>31, <1>32, <1>33
    DEF Next, Main, Ap, Gps, Signals

-----------------------------------------------------------------------------
(* A request that is no "set" changes nothing about the last one.           *)
LEMMA AppendKeepsLast ==
    ASSUME NEW q \in Seq(Message), NEW m \in Message, m.req # "SET"
    PROVE  /\ \A s : LastIsStaged(q, s) => LastIsStaged(Append(q, m), s)
           /\ \A l : LastIsShown(q, l) => LastIsShown(Append(q, m), l)
<1> DEFINE a == Append(q, m)
<1>1. /\ Len(q) \in Nat /\ Len(a) = Len(q) + 1 /\ a[Len(q) + 1] = m
      /\ \A k \in 1..Len(q) : a[k] = q[k]
  OBVIOUS
<1>2. \A k \in 0..Len(q) : NoSetAfter(q, k) => NoSetAfter(a, k)
  BY <1>1 DEF NoSetAfter
<1> HIDE DEF a
<1>3. /\ \A k \in 1..Len(q) : k \in 0..Len(q) /\ k \in 1..Len(a)
      /\ 0 \in 0..Len(q)
  BY <1>1
<1>4. \A s : LastIsStaged(q, s) => LastIsStaged(a, s)
  BY <1>1, <1>2, <1>3, Zenon DEF LastIsStaged
<1>5. \A l : LastIsShown(q, l) => LastIsShown(a, l)
  BY <1>1, <1>2, <1>3, Zenon DEF LastIsShown
<1> QED
  BY <1>4, <1>5 DEF a

(* The request sent last is the last one.                                   *)
LEMMA AppendLast ==
    ASSUME NEW q \in Seq(Message), NEW m \in Message
    PROVE  /\ m.req = "SET" /\ m.num = Rounds => \A s : LastIsStaged(Append(q, m), s)
           /\ m.req = "UPDATE_BEACON" => \A l : LastIsShown(Append(q, m), l)
<1> DEFINE a == Append(q, m)
           n == Len(q) + 1
<1>1. n \in 1..Len(a) /\ a[n] = m /\ NoSetAfter(a, n)
  BY DEF NoSetAfter
<1> HIDE DEF a, n
<1> QED
  BY <1>1, Zenon DEF LastIsStaged, LastIsShown, a

(* What becomes of the last "set" and "update_beacon" when hostapd carries  *)
(* the oldest request out.                                                  *)
LEMMA ServeKeepsLast ==
    ASSUME NEW q \in Seq(Message), q # <<>>, NEW s, NEW l,
           LastIsStaged(q, s)
    PROVE  LET r == Head(q)
           IN  /\ LastIsStaged(Tail(q), IF r.req = "SET" THEN r.num ELSE s)
               /\ LastIsShown(q, l) =>
                    LastIsShown(Tail(q), IF r.req = "UPDATE_BEACON" THEN s ELSE l)
<1> DEFINE t == Tail(q)
           r == Head(q)
           n == Len(q)
<1>1. /\ n \in Nat /\ n > 0 /\ Len(t) = n - 1 /\ r = q[1]
      /\ \A k \in 1..(n - 1) : t[k] = q[k + 1]
  OBVIOUS
<1> HIDE DEF t, r
<1>2. \A k \in 1..n : NoSetAfter(q, k) => NoSetAfter(t, k - 1)
  BY <1>1 DEF NoSetAfter
<1>3. NoSetAfter(q, 0) => NoSetAfter(t, 0) /\ r.req # "SET"
  BY <1>1 DEF NoSetAfter
<1>4. LastIsStaged(t, IF r.req = "SET" THEN r.num ELSE s)
  <2>1. CASE NoSetAfter(q, 0) /\ s = Rounds
    BY <1>3, <2>1 DEF LastIsStaged
  <2>2. CASE \E k \in 1..n : q[k].req = "SET" /\ q[k].num = Rounds /\ NoSetAfter(q, k)
    <3>1. PICK k \in 1..n : q[k].req = "SET" /\ q[k].num = Rounds /\ NoSetAfter(q, k)
      BY <2>2
    <3>2. CASE k = 1
      BY <1>1, <1>2, <3>1, <3>2 DEF LastIsStaged
    <3>3. CASE k # 1
      <4>1. /\ k - 1 \in 1..Len(t) /\ t[k - 1] = q[k]
            /\ NoSetAfter(t, k - 1)
        BY <1>1, <1>2, <3>1, <3>3
      <4> QED
        BY <3>1, <4>1, Zenon DEF LastIsStaged
    <3> QED
      BY <3>2, <3>3
  <2> QED
    BY <2>1, <2>2 DEF LastIsStaged
<1>5. ASSUME LastIsShown(q, l)
      PROVE  LastIsShown(t, IF r.req = "UPDATE_BEACON" THEN s ELSE l)
  <2>1. ASSUME NoSetAfter(q, 0) PROVE s = Rounds
    BY <1>1, <2>1 DEF NoSetAfter, LastIsStaged
  <2>2. CASE NoSetAfter(q, 0) /\ l = Rounds
    BY <1>3, <2>1, <2>2 DEF LastIsShown
  <2>3. CASE \E k \in 1..n : q[k].req = "UPDATE_BEACON" /\ NoSetAfter(q, k)
    <3>1. PICK k \in 1..n : q[k].req = "UPDATE_BEACON" /\ NoSetAfter(q, k)
      BY <2>3
    <3>2. CASE k = 1
      <4>1. r.req = "UPDATE_BEACON" /\ NoSetAfter(q, 0)
        BY <1>1, <3>1, <3>2 DEF NoSetAfter
      <4> QED
        BY <1>3, <2>1, <4>1 DEF LastIsShown
    <3>3. CASE k # 1
      <4>1. /\ k - 1 \in 1..Len(t) /\ t[k - 1] = q[k]
            /\ NoSetAfter(t, k - 1)
        BY <1>1, <1>2, <3>1, <3>3
      <4> QED
        BY <3>1, <4>1, Zenon DEF LastIsShown
    <3> QED
      BY <3>2, <3>3
  <2> QED
    BY <1>5, <2>2, <2>3 DEF LastIsShown
<1> QED
  BY <1>4, <1>5 DEF t, r

(* Closing the connection takes nothing out of hostapd's queue.             *)
LEMMA OrphanedKeepsLast ==
    ASSUME NEW q \in Seq(Message)
    PROVE  LET o == [k \in DOMAIN q |-> [q[k] EXCEPT !.open = FALSE]]
           IN  /\ \A s : LastIsStaged(q, s) => LastIsStaged(o, s)
               /\ \A l : LastIsShown(q, l) => LastIsShown(o, l)
<1> DEFINE o == [k \in DOMAIN q |-> [q[k] EXCEPT !.open = FALSE]]
<1>1. Len(q) \in Nat /\ DOMAIN q = 1..Len(q)
  OBVIOUS
<1>2. DOMAIN o = 1..Len(q)
  BY <1>1
<1>3. Len(o) = Len(q)
  BY <1>1, <1>2
<1>4. ASSUME NEW k \in 1..Len(q) PROVE o[k].req = q[k].req /\ o[k].num = q[k].num
  <2>1. q[k] \in Message
    OBVIOUS
  <2>2. o[k] = [q[k] EXCEPT !.open = FALSE]
    BY <1>1
  <2> HIDE DEF o
  <2> QED
    BY <2>1, <2>2 DEF Message
<1> HIDE DEF o
<1>5. \A k : NoSetAfter(q, k) => NoSetAfter(o, k)
  BY <1>3, <1>4, Zenon DEF NoSetAfter
<1>6. \A s : LastIsStaged(q, s) => LastIsStaged(o, s)
  BY <1>3, <1>4, <1>5, Zenon DEF LastIsStaged
<1>7. \A l : LastIsShown(q, l) => LastIsShown(o, l)
  BY <1>3, <1>4, <1>5, Zenon DEF LastIsShown
<1> QED
  BY <1>6, <1>7 DEF o

(* No step takes the last message back.                                     *)
LEMMA AirNext == TypeOK /\ AirInv /\ [Next]_vars => AirInv'
<1> SUFFICES ASSUME TypeOK, AirInv, [Next]_vars, ~lost', stops' = 0, ~UseGps
             PROVE  AirInv'
  BY DEF AirInv
<1>0. inq \in Seq(Message) /\ msg \in 1..Rounds /\ cmd \in Commands /\ areq \in ApRequests
  BY DEF TypeOK
<1> USE DEF AirInv, SetSent, UpdateSent, Leaving
<1>1. CASE MainConnected
  BY <1>1 DEF MainConnected, hostapdVars
<1>2. CASE GpsSetup \/ NextRound
  BY <1>2 DEF GpsSetup, NextRound, hostapdVars
<1>3. CASE Call
  BY <1>3 DEF Call, hostapdVars
<1>4. CASE Check
  BY <1>4 DEF Check, hostapdVars
<1>5. CASE Send
  <2>1. /\ Request(cmd) \in Message /\ Request(cmd).req = cmd /\ Request(cmd).num = msg
        /\ inq' = Append(inq, Request(cmd)) /\ mpc = "send" /\ mpc' = "reply"
        /\ UNCHANGED <<msg, cmd, lost, staged, live, stops>>
    BY <1>5, <1>0 DEF Send, Request, Message
  <2>2. ~lost /\ stops = 0 /\ cmd \in {"SET", "UPDATE_BEACON"}
    BY <2>1
  <2>3. CASE msg # Rounds
    BY <2>1, <2>2, <2>3
  <2>4. CASE msg = Rounds /\ cmd = "SET"
    <3>1. LastIsStaged(inq', staged')
      BY <1>0, <2>1, <2>4, AppendLast, Zenon
    <3> QED
      BY <2>1, <2>2, <2>4, <3>1
  <2>5. CASE msg = Rounds /\ cmd = "UPDATE_BEACON"
    <3>1. LastIsStaged(inq, staged)
      BY <2>1, <2>2, <2>5
    <3>2. LastIsStaged(inq', staged')
      BY <1>0, <2>1, <2>5, <3>1, AppendKeepsLast
    <3>3. LastIsShown(inq', live')
      BY <1>0, <2>1, <2>5, AppendLast, Zenon
    <3> QED
      BY <2>1, <2>2, <3>2, <3>3
  <2> QED
    BY <2>2, <2>3, <2>4, <2>5
<1>6. CASE SendFails
  BY <1>6 DEF SendFails
<1>7. CASE Receive \/ ReceiveFails
  BY <1>7 DEF Receive, ReceiveFails, Return
<1>8. CASE UseClosed
  BY <1>8 DEF UseClosed
<1>9. CASE Wait
  <2>1. UNCHANGED <<lost, inq, staged, live, stops>> /\ mpc = "wait" /\ Advance
    BY <1>9 DEF Wait, hostapdVars
  <2>2. CASE cmd = "SET"
    BY <2>1, <2>2 DEF Advance
  <2>3. CASE cmd = "UPDATE_BEACON"
    BY <1>0, <2>1, <2>3 DEF Advance
  <2> QED
    BY <2>1, <2>2, <2>3
<1>10. CASE Quit \/ QuitWait \/ Join
  BY <1>10 DEF Quit, QuitWait, Join, hostapdVars
<1>11. CASE ApSend
  <2>1. /\ Request(areq) \in Message /\ Request(areq).req # "SET"
        /\ inq' = Append(inq, Request(areq))
        /\ UNCHANGED <<mpc, msg, cmd, lost, staged, live, stops>>
    BY <1>11, <1>0 DEF ApSend, Request, Message, ApRequests, mainVars
  <2>2. /\ LastIsStaged(inq, staged) => LastIsStaged(inq', staged')
        /\ LastIsShown(inq, live) => LastIsShown(inq', live')
    BY <1>0, <2>1, AppendKeepsLast
  <2> QED
    BY <2>1, <2>2
<1>12. CASE Shut
  <2>1. /\ inq' = [k \in DOMAIN inq |-> [inq[k] EXCEPT !.open = FALSE]]
        /\ UNCHANGED <<mpc, msg, cmd, lost, staged, live, stops>>
    BY <1>12 DEF Shut
  <2>2. /\ LastIsStaged(inq, staged) => LastIsStaged(inq', staged')
        /\ LastIsShown(inq, live) => LastIsShown(inq', live')
    BY <1>0, <2>1, OrphanedKeepsLast
  <2> QED
    BY <2>1, <2>2
<1>13. CASE ApOpen \/ ApReopen \/ ApReceive \/ ApFails \/ Interactive \/ Top \/ PingTimer
            \/ HandleEvent \/ Close
  <2>1. UNCHANGED <<mpc, msg, cmd, lost, inq, staged, live, stops>>
    BY <1>13 DEF ApOpen, ApReopen, ApReceive, ApFails, apResultUnchanged, Interactive, Top,
                 PingTimer, HandleEvent, Close, mainVars, hostapdVars
  <2> QED
    BY <2>1
<1>14. CASE GpsGivesUp \/ GpsStops \/ Signal \/ Alarm \/ Start
  BY <1>14 DEF GpsGivesUp, GpsStops, Signal, Alarm, Start, mainVars, hostapdVars
<1>15. CASE Serve
  <2> DEFINE r == Head(inq)
  <2>1. /\ inq # <<>> /\ inq' = Tail(inq)
        /\ staged' = IF r.req = "SET" THEN r.num ELSE staged
        /\ live' = IF r.req = "UPDATE_BEACON" THEN staged ELSE live
        /\ UNCHANGED <<mpc, msg, cmd, lost, stops>>
    BY <1>15 DEF Serve, mainVars
  <2>2. LastIsStaged(inq, staged) =>
          /\ LastIsStaged(inq', staged')
          /\ LastIsShown(inq, live) => LastIsShown(inq', live')
    BY <1>0, <2>1, ServeKeepsLast
  <2> HIDE DEF r
  <2> QED
    BY <2>1, <2>2
<1>16. CASE Stop
  BY <1>16 DEF Stop, TypeOK
<1>17. CASE UNCHANGED vars
  BY <1>17 DEF vars, mainVars, hostapdVars
<1> QED
  BY <1>1, <1>2, <1>3, <1>4, <1>5, <1>6, <1>7, <1>8, <1>9, <1>10, <1>11, <1>12, <1>13, <1>14, <1>15, <1>16, <1>17
    DEF Next, Main, Ap, Gps, Signals

-----------------------------------------------------------------------------
(* Every step keeps the inductive invariant.                                *)
LEMMA Inductive == Inv /\ [Next]_vars => Inv'
BY TypeNext, PhaseNext, WakeupNext, AirNext DEF Inv

(* The invariant holds from the start of ap_interface_init on.              *)
THEOREM Invariance == Spec => []Inv
<1>1. Init => Inv
  <2>1. Init => PhaseInv /\ NoLostWakeup /\ AirInv
    BY DEF Init, PhaseInv, NoLostWakeup, AirInv, SetSent, UpdateSent, Leaving
  <2> QED
    BY <2>1, TypeInit DEF Inv
<1> QED
  BY <1>1, Inductive, PTL DEF Spec

(* The types of the session's variables, the bounded socket queues and the  *)
(* never negative semaphore among them.                                     *)
THEOREM TypeCorrect == Spec => []TypeOK
<1>1. Inv => TypeOK
  BY DEF Inv
<1> QED
  BY <1>1, Invariance, PTL

(* A command that reached wpa_ctrl_request never leaves the main thread     *)
(* waiting in the sem_wait of wifi_beacon.c.                                *)
THEOREM NoLostWakeupAlways == Spec => []NoLostWakeup
<1>1. Inv => NoLostWakeup
  BY DEF Inv
<1> QED
  BY <1>1, Invariance, PTL

(* The last message stays on the air: for any number of messages, length of *)
(* the queues and slowness of hostapd, a reply read by the wrong thread or  *)
(* a timeout costs no message.                                              *)
THEOREM LastMessageAlways == Spec => []LastMessageStaysOnAir
<1>1. Inv => LastMessageStaysOnAir
  <2> SUFFICES ASSUME Inv, mpc = "exited", ~lost, stops = 0, inq = <<>>, ~UseGps
               PROVE  live = Rounds
    BY DEF LastMessageStaysOnAir
  <2>1. LastIsShown(inq, live)
    BY DEF Inv, AirInv, UpdateSent, Leaving
  <2>2. 1..Len(inq) = {}
    OBVIOUS
  <2> QED
    BY <2>1, <2>2 DEF LastIsShown
<1> QED
  BY <1>1, Invariance, PTL
=============================================================================
