------------------------- MODULE BluetoothAirProofs -------------------------
(***************************************************************************)
(* Proofs about what the adapter of BluetoothHci broadcasts, for any list  *)
(* of messages, any number of runs, passes, stray events and failed reads. *)
(***************************************************************************)
EXTENDS BluetoothHciProofs

-----------------------------------------------------------------------------
(***************************************************************************)
(* Messages that are out of date.  Every message that is to be sent, is    *)
(* queued or is on the air was encoded in the pass it is sent in.          *)
(***************************************************************************)

Fresh(m) == m.is.pass = m.for.pass

FreshCommand == {c \in Command : Fresh(c.msg)}

\* Once a message of a pass has been sent, the buffer is of that pass.
FreshInv ==
  /\ todo \in Seq(FreshCommand)
  /\ cmdq \in Seq(FreshCommand)
  /\ \A t \in Transports : Fresh(air[t].msg)
  /\ stage = "init" => k = 0
  /\ stage = "pass" /\ k > 0 => encoded.pass = pass

\* The lists of commands consist of what Cmd() and Data() make.
LEMMA ListOf ==
  ASSUME NEW S, \A op \in Ops, sets \in SUBSET Transports : Cmd(op, sets) \in S
  PROVE  /\ stop_transmit \in Seq(S)
         /\ \A c \in SUBSET Options : init_bluetooth(c) \in Seq(S)
         /\ \A c \in SUBSET Options : \A m :
              (\A t \in Transports : Data(t, m) \in S) => send_message(c, m) \in Seq(S)
  <1>1. /\ {} \in SUBSET Transports /\ {"4", "5"} \in SUBSET Transports
        /\ \A t \in Transports : {t} \in SUBSET Transports
        /\ "l" \in Transports /\ "4" \in Transports /\ "5" \in Transports
    BY DEF Transports
  <1>2. stop_transmit \in Seq(S)
    <2>1. /\ Cmd("disable", {"l"}) \in S /\ Cmd("disable", {"4", "5"}) \in S
          /\ Cmd("remove", {"4"}) \in S /\ Cmd("remove", {"5"}) \in S
      BY <1>1 DEF Ops
    <2> QED
      BY <2>1 DEF stop_transmit
  <1>3. ASSUME NEW t \in Transports PROVE setup(t) \in Seq(S)
    <2>1. /\ Cmd("reset", {}) \in S /\ Cmd("params", {t}) \in S /\ Cmd("address", {t}) \in S
      BY <1>1 DEF Ops
    <2> QED
      BY <2>1 DEF setup
  <1>4. ASSUME NEW b, NEW s \in Seq(S) PROVE If(b, s) \in Seq(S)
    BY EmptySeq DEF If
  <1>5. ASSUME NEW c \in SUBSET Options PROVE init_bluetooth(c) \in Seq(S)
    <2>1. /\ <<Cmd("reset", {})>> \in Seq(S) /\ <<Cmd("features", {})>> \in Seq(S)
          /\ <<Cmd("enable", {"l"})>> \in Seq(S)
          /\ <<Cmd("enable", c \cap {"4", "5"})>> \in Seq(S)
      <3>1. c \cap {"4", "5"} \in SUBSET Transports
        BY DEF Transports
      <3>2. /\ Cmd("reset", {}) \in S /\ Cmd("features", {}) \in S
            /\ Cmd("enable", {"l"}) \in S /\ Cmd("enable", c \cap {"4", "5"}) \in S
        BY <1>1, <3>1 DEF Ops
      <3> QED
        BY <3>2
    <2>2. /\ setup("l") \in Seq(S) /\ setup("4") \in Seq(S) /\ setup("5") \in Seq(S)
      BY <1>1, <1>3
    <2>3. \A s, t \in Seq(S) : s \o t \in Seq(S)
      BY ConcatProperties
    <2>4. /\ If("l" \in c, setup("l")) \in Seq(S) /\ If("4" \in c, setup("4")) \in Seq(S)
          /\ If("5" \in c, setup("5")) \in Seq(S)
          /\ If("l" \in c, <<Cmd("enable", {"l"})>>) \in Seq(S)
          /\ If("4" \in c, <<Cmd("enable", c \cap {"4", "5"})>>) \in Seq(S)
          /\ If("5" \in c, <<Cmd("enable", c \cap {"4", "5"})>>) \in Seq(S)
      BY <1>4, <2>1, <2>2
    <2> QED
      BY <1>2, <2>1, <2>3, <2>4, Zenon DEF init_bluetooth
  <1>6. ASSUME NEW c \in SUBSET Options, NEW m, \A t \in Transports : Data(t, m) \in S
        PROVE  send_message(c, m) \in Seq(S)
    <2>1. <<Data("l", m)>> \in Seq(S) /\ <<Data("4", m)>> \in Seq(S) /\ <<Data("5", m)>> \in Seq(S)
      <3>1. Data("l", m) \in S /\ Data("4", m) \in S /\ Data("5", m) \in S
        BY <1>1, <1>6
      <3> HIDE DEF Data
      <3> QED
        BY <3>1
    <2>2. /\ If("l" \in c, <<Data("l", m)>>) \in Seq(S) /\ If("4" \in c, <<Data("4", m)>>) \in Seq(S)
          /\ If("5" \in c, <<Data("5", m)>>) \in Seq(S)
      BY <1>4, <2>1
    <2> QED
      BY <2>2, ConcatProperties DEF send_message
  <1> QED
    BY <1>2, <1>5, <1>6

\* A command without a message, and one with a message of this pass.
LEMMA FreshCmd ==
  /\ \A op \in Ops, sets \in SUBSET Transports : Cmd(op, sets) \in FreshCommand
  /\ \A t \in Transports, m \in Message : Fresh(m) => Data(t, m) \in FreshCommand
  <1>1. ASSUME NEW op \in Ops, NEW sets \in SUBSET Transports
        PROVE  Cmd(op, sets) \in FreshCommand
    <2>1. Cmd(op, sets) \in Command
      BY CmdType
    <2>2. Cmd(op, sets).msg = NoMsg /\ Fresh(NoMsg)
      BY DEF Cmd, Fresh, NoMsg, Blank
    <2> QED
      BY <2>1, <2>2 DEF FreshCommand
  <1>2. ASSUME NEW t \in Transports, NEW m \in Message, Fresh(m)
        PROVE  Data(t, m) \in FreshCommand
    <2>1. Data(t, m) \in Command
      BY CmdType
    <2>2. Data(t, m).msg = m
      BY DEF Data, Cmd
    <2> QED
      BY <1>2, <2>1, <2>2 DEF FreshCommand
  <1> QED
    BY <1>1, <1>2

\* A message is sent that was encoded in this pass.
LEMMA FreshTransmit ==
  ASSUME TypeOK, FreshInv, NEW type \in Types, Transmit(type), stage = "pass",
         encoded' \in Content, encoded'.pass = pass
  PROVE  FreshInv'
  <1> DEFINE m == [num |-> num + 1, is |-> encoded', for |-> [type |-> type, pass |-> pass]]
  <1>1. m \in Message /\ Fresh(m)
    BY DEF TypeOK, Message, Content, Fresh
  <1>2. todo' = send_message(config, m)
    BY DEF Transmit
  <1> HIDE DEF m
  <1>3. todo' \in Seq(FreshCommand)
    BY <1>1, <1>2, ListOf, FreshCmd DEF TypeOK
  <1>4. /\ stage' = stage /\ pass' = pass /\ cmdq' = cmdq /\ air' = air
    BY DEF Transmit, programUnchanged, queueVars, adapterVars
  <1> QED
    BY <1>3, <1>4 DEF FreshInv

\* The messages of a pass have types.
LEMMA SingleTypes == \A n \in Nat : n < Len(Singles) => Singles[n + 1] \in Types
  <1> SUFFICES ASSUME NEW n \in Nat, n < Len(Singles) PROVE Singles[n + 1] \in Types
    OBVIOUS
  <1>1. n + 1 \in DOMAIN Singles
    BY HciAssumption DEF HciAssumption
  <1> QED
    BY <1>1, Zenon DEF Types

\* Every step keeps the messages fresh.
LEMMA FreshNext == TypeOK /\ FreshInv /\ [Next]_vars => FreshInv'
  <1> SUFFICES ASSUME TypeOK, FreshInv, [Next]_vars PROVE FreshInv'
    OBVIOUS
  <1> USE DEF queueVars, adapterVars, progVars, programUnchanged
  <1>0. <<>> \in Seq(FreshCommand) /\ stop_transmit \in Seq(FreshCommand)
    BY ListOf, FreshCmd, EmptySeq
  <1>a. todo # <<>> => Head(todo) \in FreshCommand /\ Tail(todo) \in Seq(FreshCommand)
    BY HeadTailProperties DEF FreshInv
  <1>b. cmdq # <<>> => Head(cmdq) \in FreshCommand /\ Tail(cmdq) \in Seq(FreshCommand)
    BY HeadTailProperties DEF FreshInv
  <1>1. ASSUME NEW c \in Configs, Start(c) PROVE FreshInv'
    <2>1. init_bluetooth(c) \in Seq(FreshCommand)
      BY ListOf, FreshCmd DEF Configs
    <2>2. /\ todo' = init_bluetooth(c) /\ stage' = "init" /\ k' = 0
          /\ cmdq' = cmdq /\ air' = air
      BY <1>1 DEF Start
    <2> QED
      BY <2>1, <2>2 DEF FreshInv
  <1>2. CASE SendCmd
    <2> DEFINE h == Head(todo)
               n == sent + 1
    <2>1. h \in FreshCommand /\ run \in Nat /\ n \in Nat
      BY <1>2, <1>a DEF SendCmd, TypeOK
    <2>2. cmdq' = Append(cmdq, [h EXCEPT !.run = run, !.seq = n])
      BY <1>2 DEF SendCmd
    <2> HIDE DEF h, n
    <2> DEFINE d == [h EXCEPT !.run = run, !.seq = n]
    <2>3. d \in FreshCommand
      BY <2>1 DEF FreshCommand, Command
    <2> HIDE DEF d
    <2>4. cmdq' \in Seq(FreshCommand)
      BY <2>2, <2>3, AppendProperties DEF FreshInv, d
    <2> QED
      BY <1>2, <2>4 DEF SendCmd, FreshInv
  <1>3. CASE \E how \in BOOLEAN : Gone(how)
    BY <1>3 DEF Gone, FreshInv
  <1>4. CASE ReadEvent \/ ReadFails
    <2>1. todo # <<>>
      BY <1>4 DEF ReadEvent, ReadFails, TypeOK
    <2> QED
      BY <1>4, <1>a, <2>1 DEF ReadEvent, ReadFails, Returned, FreshInv
  <1>5. CASE InitDone
    <2>1. /\ stage = "init" /\ stage' \in {"pass", "loop", "close"} /\ k' = k
          /\ todo' \in {todo, stop_transmit} /\ cmdq' = cmdq /\ air' = air
      BY <1>5 DEF InitDone
    <2> QED
      BY <1>0, <2>1 DEF FreshInv, TypeOK
  <1>6. CASE NextPass
    <2>1. /\ \/ stage' = "close"
             \/ stage' = "pass" /\ k' = 0
          /\ todo' \in {todo, stop_transmit} /\ cmdq' = cmdq /\ air' = air
      BY <1>6 DEF NextPass
    <2> QED
      BY <1>0, <2>1 DEF FreshInv
  <1>7. CASE PassDone
    <2>1. /\ stage' \in {"loop", "close"}
          /\ todo' \in {todo, stop_transmit} /\ cmdq' = cmdq /\ air' = air
      BY <1>7 DEF PassDone
    <2> QED
      BY <1>0, <2>1 DEF FreshInv
  <1>8. CASE SendPack
    <2>1. "pack" \in Types
      BY DEF Types
    <2>2. encoded' \in Content /\ encoded'.pass = pass
      BY <1>8, <2>1 DEF SendPack, Content, TypeOK
    <2> QED
      BY <1>8, <2>1, <2>2, FreshTransmit DEF SendPack, InPass
  <1>9. CASE SendSingle
    <2>0. k \in Nat /\ k < Len(Singles)
      BY <1>9 DEF SendSingle, TypeOK
    <2>1. Singles[k + 1] \in Types
      BY <2>0, SingleTypes
    <2>2. encoded' \in Content /\ encoded'.pass = pass
      BY <1>9, <2>1 DEF SendSingle, Content, TypeOK
    <2> QED
      BY <1>9, <2>1, <2>2, FreshTransmit DEF SendSingle, InPass
  <1>10. CASE SendUnencoded
    <2>0. k \in Nat /\ k < Len(Singles) /\ Singles[k + 1] = "location"
      BY <1>10 DEF SendUnencoded, TypeOK
    <2>1. Singles[k + 1] \in Types /\ Singles[k + 1] = "location" /\ k \in Nat
      BY <2>0, SingleTypes
    <2>2. k > 0
      BY <2>1, HciAssumption DEF HciAssumption
    <2>3. encoded' \in Content /\ encoded'.pass = pass
      BY <1>10, <2>2 DEF SendUnencoded, InPass, FreshInv, TypeOK
    <2> QED
      BY <1>10, <2>1, <2>3, FreshTransmit DEF SendUnencoded, InPass
  <1>11. CASE Execute
    <2> DEFINE c == Head(cmdq)
    <2>1. c \in FreshCommand /\ cmdq' \in Seq(FreshCommand) /\ UNCHANGED progVars
      BY <1>11, <1>b DEF Execute
    <2>2. Fresh(c.msg) /\ Fresh(NoMsg)
      BY <2>1 DEF FreshCommand, Fresh, NoMsg, Blank
    <2>3. \A t \in Transports : air[t] \in [on : BOOLEAN, run : Nat, msg : Message] /\ Fresh(air[t].msg)
      BY DEF TypeOK, FreshInv
    <2>4. ASSUME NEW t \in Transports PROVE Fresh(air'[t].msg)
      <3>1. CASE Allowed(c) /\ c.op # "enable"
        <4>1. air' = [u \in Transports |-> AirAfter(c, u)]
          BY <1>11, <3>1 DEF Execute
        <4>2. air'[t] = AirAfter(c, t)
          BY <4>1
        <4> DEFINE a == air[t]
        <4>3. AirAfter(c, t) \in { [a EXCEPT !.on = FALSE, !.msg = NoMsg],
                                   [a EXCEPT !.on = FALSE], [a EXCEPT !.msg = c.msg], a }
          BY DEF AirAfter
        <4>4. a \in [on : BOOLEAN, run : Nat, msg : Message] /\ Fresh(a.msg)
          BY <2>3
        <4> HIDE DEF c, a
        <4>5. AirAfter(c, t).msg \in {NoMsg, a.msg, c.msg}
          BY <4>3, <4>4
        <4> QED
          BY <2>2, <4>2, <4>4, <4>5
      <3>2. CASE Allowed(c) /\ c.op = "enable"
        <4>1. PICK T \in SUBSET Transports : EnableAfter(c, T)
          BY <1>11, <3>2 DEF Execute
        <4>2. air'[t] = IF t \in T /\ ~air[t].on THEN [air[t] EXCEPT !.on = TRUE, !.run = c.run]
                                                 ELSE air[t]
          BY <4>1, Zenon DEF EnableAfter
        <4> HIDE DEF c
        <4>3. air'[t].msg = air[t].msg
          BY <2>3, <4>2
        <4> QED
          BY <2>3, <4>3
      <3>3. CASE ~Allowed(c)
        BY <1>11, <2>3, <3>3 DEF Execute
      <3> QED
        BY <3>1, <3>2, <3>3
    <2> QED
      BY <2>1, <2>4 DEF FreshInv
  <1>12. CASE Signal \/ GpsGivesUp \/ Stray \/ UNCHANGED vars
    BY <1>3, <1>12 DEF Signal, GpsGivesUp, Stray, vars, FreshInv
  <1> QED
    BY <1>1, <1>2, <1>3, <1>4, <1>5, <1>6, <1>7, <1>8, <1>9, <1>10, <1>11, <1>12
       DEF Next, Program, SendFails, CloseDone

\* What is on the air was encoded in the pass in which it was sent, also where
\* the encoder of the Location refused and the buffer was sent as it was.
THEOREM NothingStale == Spec => []NothingStaleOnAir
  <1>1. Init => FreshInv
    <2> SUFFICES ASSUME Init PROVE FreshInv
      OBVIOUS
    <2>1. \A t \in Transports : air[t].msg = NoMsg
      BY DEF Init, Silent
    <2>2. Fresh(NoMsg)
      BY DEF Fresh, NoMsg, Blank
    <2> QED
      BY <2>1, <2>2, EmptySeq DEF Init, FreshInv
  <1>2. FreshInv => NothingStaleOnAir
    BY DEF FreshInv, NothingStaleOnAir, Fresh
  <1> QED
    BY <1>1, <1>2, FreshNext, TypeCorrect, PTL DEF Spec

-----------------------------------------------------------------------------
(***************************************************************************)
(* The adapter as a machine of its own.  The commands that are queued, and *)
(* those that the program is bound to queue next, are a program for it;    *)
(* what holds between two of them is stated by a proof outline: a set of   *)
(* states before and after each command.  The program appends to it and    *)
(* the adapter works it off from the front, so an outline is kept by both. *)
(***************************************************************************)

Kind(t) == IF t = "l" THEN "legacy" ELSE "extended"

Adapter ==
  [api : {"any", "legacy", "extended"}, conf : [Transports -> {"none", "params", "ready"}],
   on : SUBSET Transports, run : [Transports -> Nat], num : [Transports -> Nat]]

\* The state that the adapter is in.
Now ==
  [api |-> api, conf |-> conf, on |-> {t \in Transports : air[t].on},
   run |-> [t \in Transports |-> air[t].run],
   num |-> [t \in Transports |-> air[t].msg.num]]

\* A command that has not been sent yet will be one of run r.
RunOf(r, c) == IF c.run = 0 THEN r ELSE c.run

Can(c, a) == ApiOf(c) = "any" \/ a.api \in {"any", ApiOf(c)}

\* The transports that an enable command may switch on.
Choices(c, a) ==
  {T \in SUBSET {t \in c.sets : a.conf[t] = "ready"} :
     (\E t \in Transports : c.sets = {t} /\ a.conf[t] = "ready") => T = c.sets}

Switched(r, c, a, T) ==
  [api |-> ApiOf(c), conf |-> a.conf, on |-> a.on \cup T,
   run |-> [t \in Transports |-> IF t \in T \ a.on THEN RunOf(r, c) ELSE a.run[t]],
   num |-> a.num]

ConfOf(c, a, t) ==
  CASE c.op = "reset" -> "none"
    [] c.op = "params"  /\ t \in c.sets -> "params"
    [] c.op = "address" /\ t \in c.sets /\ a.conf[t] = "params" -> "ready"
    [] c.op = "remove"  /\ t \in c.sets /\ t \notin a.on -> "none"
    [] OTHER -> a.conf[t]

NumOf(c, a, t) ==
  CASE c.op = "reset" -> 0
    [] c.op = "data" /\ t \in c.sets /\ (t = "l" \/ a.conf[t] # "none") -> c.msg.num
    [] OTHER -> a.num[t]

Changed(c, a) ==
  [api |-> IF c.op = "reset" THEN "any" ELSE IF ApiOf(c) = "any" THEN a.api ELSE ApiOf(c),
   conf |-> [t \in Transports |-> ConfOf(c, a, t)],
   on |-> IF c.op = "reset" THEN {} ELSE IF c.op = "disable" THEN a.on \ c.sets ELSE a.on,
   run |-> a.run,
   num |-> [t \in Transports |-> NumOf(c, a, t)]]

\* The states that c, carried out or refused in state a, may leave.
Outcomes(r, c, a) ==
  IF ~Can(c, a) THEN {a}
  ELSE IF c.op = "enable" THEN {Switched(r, c, a, T) : T \in Choices(c, a)}
  ELSE {Changed(c, a)}

\* What a receiver sees of a state, and the steps that Broadcast allows.
Shown(a) == [t \in Transports |-> IF t \in a.on THEN a.num[t] ELSE 0]

Broadcasts(a, b) ==
  \/ b.on = a.on /\ b.run = a.run /\ Shown(b) = Shown(a)
  \/ \E t \in Transports \ a.on :
       /\ b.on = a.on \cup {t} /\ Shown(b) = Shown(a)
       /\ b.run[t] > a.run[t] /\ b.run = [a.run EXCEPT ![t] = b.run[t]]
  \/ \E t \in a.on :
       /\ b.on = a.on /\ b.run = a.run
       /\ Shown(b) = [Shown(a) EXCEPT ![t] = @ + 1]
  \/ \E T \in SUBSET Transports :
       /\ b.on = a.on \ T /\ b.run = a.run
       /\ Shown(b) = [t \in Transports |-> IF t \in T THEN 0 ELSE Shown(a)[t]]

\* Only what is set up is on, in the way of advertising it was set up for; at
\* most one transport is set up; and no broadcast is of a run after r.
Sound(r) ==
  {a \in Adapter :
     /\ \A t \in a.on : a.conf[t] = "ready" /\ a.api = Kind(t)
     /\ \A t, u \in Transports : a.conf[t] # "none" /\ a.conf[u] # "none" => t = u
     /\ \A t \in Transports : a.run[t] <= r}

\* Command c leads from the states of Q1 into those of Q2.
Triple(r, Q1, c, Q2) ==
  \A a \in Q1 : \A b \in Outcomes(r, c, a) : b \in Q2 /\ Broadcasts(a, b)

Goes(a, r, s, Q, P) ==
  /\ a \in P[0] /\ P[Len(s)] \subseteq Q
  /\ \A j \in 1 .. Len(s) : Triple(r, P[j - 1], s[j], P[j])

\* There is a proof outline for the commands s, from state a into Q.
Outline(a, r, s, Q) == \E P \in [0 .. Len(s) -> SUBSET Sound(r)] : Goes(a, r, s, Q, P)

\* Nothing to do: the state is as it is.
LEMMA OutlineEmpty ==
  ASSUME NEW r, NEW Q, NEW a \in Sound(r), a \in Q
  PROVE  Outline(a, r, <<>>, Q)
  <1> DEFINE P == [j \in 0 .. 0 |-> {a}]
  <1>1. P \in [0 .. 0 -> SUBSET Sound(r)]
    OBVIOUS
  <1>2. a \in P[0] /\ P[0] \subseteq Q
    OBVIOUS
  <1>3. Len(<<>>) = 0 /\ 1 .. 0 = {}
    OBVIOUS
  <1> HIDE DEF P
  <1>4. Goes(a, r, <<>>, Q, P)
    BY <1>2, <1>3 DEF Goes
  <1> QED
    BY <1>1, <1>3, <1>4 DEF Outline

\* One command more.
LEMMA OutlineAppend ==
  ASSUME NEW a, NEW r, NEW s \in Seq(Command), NEW c \in Command, NEW Q1, NEW Q2,
         Outline(a, r, s, Q1), Triple(r, Q1, c, Q2), Q2 \subseteq Sound(r)
  PROVE  Outline(a, r, Append(s, c), Q2)
  <1> DEFINE N == Len(s)
             s2 == Append(s, c)
  <1>1. PICK P \in [0 .. N -> SUBSET Sound(r)] : Goes(a, r, s, Q1, P)
    BY DEF Outline
  <1>2. /\ N \in Nat /\ Len(s2) = N + 1 /\ s2[N + 1] = c
        /\ \A j \in 1 .. N : s2[j] = s[j]
    BY AppendProperties, LenProperties
  <1> DEFINE P2 == [j \in 0 .. N + 1 |-> IF j <= N THEN P[j] ELSE Q2]
  <1>3. P2 \in [0 .. N + 1 -> SUBSET Sound(r)]
    BY <1>1, <1>2
  <1>4. /\ \A j \in 0 .. N : P2[j] = P[j]
        /\ P2[N + 1] = Q2
    BY <1>2
  <1> HIDE DEF N, s2, P2
  <1>5. a \in P[0] /\ P[N] \subseteq Q1 /\ \A j \in 1 .. N : Triple(r, P[j - 1], s[j], P[j])
    BY <1>1 DEF Goes, N
  <1>6. \A j \in 1 .. N + 1 : Triple(r, P2[j - 1], s2[j], P2[j])
    <2> SUFFICES ASSUME NEW j \in 1 .. N + 1 PROVE Triple(r, P2[j - 1], s2[j], P2[j])
      OBVIOUS
    <2>1. CASE j \in 1 .. N
      <3>1. P2[j - 1] = P[j - 1] /\ P2[j] = P[j] /\ s2[j] = s[j]
        BY <1>2, <1>4, <2>1
      <3> QED
        BY <1>5, <2>1, <3>1
    <2>2. CASE j = N + 1
      <3>1. P2[j - 1] = P[N] /\ P2[j] = Q2 /\ s2[j] = c
        BY <1>2, <1>4, <2>2
      <3>2. Triple(r, P[N], c, Q2)
        BY <1>5 DEF Triple
      <3> QED
        BY <3>1, <3>2
    <2> QED
      BY <1>2, <2>1, <2>2
  <1>7. a \in P2[0] /\ P2[N + 1] \subseteq Q2
    BY <1>2, <1>4, <1>5
  <1>8. Goes(a, r, s2, Q2, P2)
    BY <1>2, <1>6, <1>7 DEF Goes
  <1>9. Outline(a, r, s2, Q2)
    BY <1>2, <1>3, <1>8 DEF Outline
  <1> QED
    BY <1>9 DEF s2

\* The first command is carried out.
LEMMA OutlineTail ==
  ASSUME NEW a, NEW r, NEW s \in Seq(Command), s # <<>>, NEW Q,
         Outline(a, r, s, Q), NEW b \in Outcomes(r, Head(s), a)
  PROVE  Outline(b, r, Tail(s), Q) /\ Broadcasts(a, b)
  <1> DEFINE N == Len(s)
             s2 == Tail(s)
  <1>1. PICK P \in [0 .. N -> SUBSET Sound(r)] : Goes(a, r, s, Q, P)
    BY DEF Outline
  <1>2. /\ N \in Nat \ {0} /\ Len(s2) = N - 1 /\ Head(s) = s[1]
        /\ \A j \in 1 .. N - 1 : s2[j] = s[j + 1]
    BY HeadTailProperties, EmptySeq
  <1> DEFINE P2 == [j \in 0 .. N - 1 |-> P[j + 1]]
  <1>3. P2 \in [0 .. N - 1 -> SUBSET Sound(r)]
    BY <1>1, <1>2
  <1>4. \A j \in 0 .. N - 1 : P2[j] = P[j + 1]
    BY <1>2
  <1> HIDE DEF N, s2, P2
  <1>5. a \in P[0] /\ P[N] \subseteq Q /\ \A j \in 1 .. N : Triple(r, P[j - 1], s[j], P[j])
    BY <1>1 DEF Goes, N
  <1>6. \A j \in 1 .. N - 1 : Triple(r, P2[j - 1], s2[j], P2[j])
    <2> SUFFICES ASSUME NEW j \in 1 .. N - 1 PROVE Triple(r, P2[j - 1], s2[j], P2[j])
      OBVIOUS
    <2>1. /\ P2[j - 1] = P[j] /\ P2[j] = P[j + 1] /\ s2[j] = s[j + 1]
          /\ j + 1 \in 1 .. N /\ (j + 1) - 1 = j
      BY <1>2, <1>4
    <2> QED
      BY <1>5, <2>1
  <1>7. Triple(r, P[0], s[1], P[1])
    <2>1. 1 \in 1 .. N /\ 1 - 1 = 0
      BY <1>2
    <2> QED
      BY <1>5, <2>1
  <1>8. b \in P[1] /\ Broadcasts(a, b)
    BY <1>2, <1>5, <1>7 DEF Triple
  <1>9. b \in P2[0] /\ P2[N - 1] \subseteq Q
    BY <1>2, <1>4, <1>5, <1>8
  <1>10. Goes(b, r, s2, Q, P2)
    BY <1>2, <1>6, <1>9 DEF Goes
  <1>11. Outline(b, r, s2, Q)
    BY <1>2, <1>3, <1>10 DEF Outline
  <1> QED
    BY <1>8, <1>11 DEF s2

\* The commands at the end are dropped.
LEMMA OutlinePrefix ==
  ASSUME NEW a, NEW r, NEW s \in Seq(Command), NEW l \in Seq(Command), NEW Q,
         Outline(a, r, s \o l, Q)
  PROVE  Outline(a, r, s, Sound(r))
  <1> DEFINE N == Len(s)
             w == s \o l
  <1>1. PICK P \in [0 .. Len(w) -> SUBSET Sound(r)] : Goes(a, r, w, Q, P)
    BY DEF Outline
  <1>2. /\ N \in Nat /\ Len(l) \in Nat /\ Len(w) = N + Len(l)
        /\ \A j \in 1 .. N : w[j] = s[j]
    <2>1. N \in Nat /\ Len(l) \in Nat
      BY LenProperties
    <2>2. /\ Len(w) = Len(s) + Len(l)
          /\ \A j \in 1 .. Len(s) + Len(l) : w[j] = IF j <= Len(s) THEN s[j] ELSE l[j - Len(s)]
      BY ConcatProperties
    <2> QED
      BY <2>1, <2>2
  <1> DEFINE P2 == [j \in 0 .. N |-> P[j]]
  <1> HIDE DEF w, N
  <1>3. P2 \in [0 .. N -> SUBSET Sound(r)]
    <2>1. 0 .. N \subseteq 0 .. Len(w)
      BY <1>2
    <2>2. \A j \in 0 .. N : P[j] \in SUBSET Sound(r)
      BY <1>1, <2>1, Zenon
    <2> QED
      BY <2>2, Zenon
  <1>4. \A j \in 0 .. N : P2[j] = P[j]
    BY Zenon
  <1>5. N \in 0 .. N /\ 0 \in 0 .. N
    BY <1>2
  <1> HIDE DEF P2
  <1>6. a \in P[0] /\ \A j \in 1 .. Len(w) : Triple(r, P[j - 1], w[j], P[j])
    BY <1>1 DEF Goes
  <1>7. \A j \in 1 .. N : Triple(r, P2[j - 1], s[j], P2[j])
    <2> SUFFICES ASSUME NEW j \in 1 .. N PROVE Triple(r, P2[j - 1], s[j], P2[j])
      OBVIOUS
    <2>1. /\ P2[j - 1] = P[j - 1] /\ P2[j] = P[j] /\ w[j] = s[j] /\ j \in 1 .. Len(w)
      BY <1>2, <1>4
    <2> QED
      BY <1>6, <2>1
  <1>8. a \in P2[0] /\ P2[N] \subseteq Sound(r)
    BY <1>3, <1>4, <1>5, <1>6
  <1>9. Goes(a, r, s, Sound(r), P2)
    BY <1>7, <1>8 DEF Goes, N
  <1> QED
    BY <1>3, <1>9 DEF Outline, N

\* Two commands that the adapter cannot tell apart.
Alike(c, rc, d, rd) ==
  /\ d.op = c.op /\ d.sets = c.sets /\ d.msg = c.msg
  /\ RunOf(rd, d) = RunOf(rc, c)

\* Commands are sent, which gives them their run and their number, or another
\* run begins: the outline stays.
LEMMA OutlineAlike ==
  ASSUME NEW a, NEW r, NEW r2, Sound(r) \subseteq Sound(r2),
         NEW s \in Seq(Command), NEW s2 \in Seq(Command), Len(s2) = Len(s),
         \A j \in 1 .. Len(s) : Alike(s[j], r, s2[j], r2),
         NEW Q, NEW Q2, Q \subseteq Q2, Outline(a, r, s, Q)
  PROVE  Outline(a, r2, s2, Q2)
  <1>1. PICK P \in [0 .. Len(s) -> SUBSET Sound(r)] : Goes(a, r, s, Q, P)
    BY DEF Outline
  <1>2. P \in [0 .. Len(s2) -> SUBSET Sound(r2)]
    BY <1>1
  <1>3. ASSUME NEW c, NEW d, Alike(c, r, d, r2), NEW b
        PROVE  Outcomes(r2, d, b) = Outcomes(r, c, b)
    <2>1. ApiOf(d) = ApiOf(c) /\ (Can(d, b) <=> Can(c, b))
      BY <1>3 DEF Alike, ApiOf, Can
    <2>2. Choices(d, b) = Choices(c, b)
      BY <1>3 DEF Alike, Choices
    <2>3. \A T : Switched(r2, d, b, T) = Switched(r, c, b, T)
      BY <1>3, <2>1 DEF Alike, Switched
    <2>4. Changed(d, b) = Changed(c, b)
      <3>1. \A t : ConfOf(d, b, t) = ConfOf(c, b, t) /\ NumOf(d, b, t) = NumOf(c, b, t)
        BY <1>3 DEF Alike, ConfOf, NumOf
      <3> QED
        BY <1>3, <2>1, <3>1 DEF Alike, Changed
    <2>5. d.op = c.op
      BY <1>3 DEF Alike
    <2> QED
      BY <2>1, <2>2, <2>3, <2>4, <2>5, Zenon DEF Outcomes
  <1>4. \A j \in 1 .. Len(s2) : Triple(r2, P[j - 1], s2[j], P[j])
    <2> SUFFICES ASSUME NEW j \in 1 .. Len(s) PROVE Triple(r2, P[j - 1], s2[j], P[j])
      OBVIOUS
    <2>1. Triple(r, P[j - 1], s[j], P[j])
      BY <1>1 DEF Goes
    <2>2. \A b : Outcomes(r2, s2[j], b) = Outcomes(r, s[j], b)
      BY <1>3
    <2> QED
      BY <2>1, <2>2, Zenon DEF Triple
  <1>5. a \in P[0] /\ P[Len(s2)] \subseteq Q2
    BY <1>1 DEF Goes
  <1>6. Goes(a, r2, s2, Q2, P)
    BY <1>4, <1>5 DEF Goes
  <1> QED
    BY <1>2, <1>6 DEF Outline

\* The end of an outline may say less.
LEMMA OutlineWeaken ==
  ASSUME NEW a, NEW r, NEW s, NEW Q, NEW Q2, Q \subseteq Q2, Outline(a, r, s, Q)
  PROVE  Outline(a, r, s, Q2)
  BY DEF Outline, Goes

\* The list l leads from Q1 into Q2, wherever it is appended.
Takes(r, Q1, l, Q2) ==
  /\ l \in Seq(Command)
  /\ \A a, s : s \in Seq(Command) /\ Outline(a, r, s, Q1) => Outline(a, r, s \o l, Q2)

\* A list of one command.
LEMMA TakesOne ==
  ASSUME NEW r, NEW Q1, NEW Q2, NEW c \in Command,
         Triple(r, Q1, c, Q2), Q2 \subseteq Sound(r)
  PROVE  Takes(r, Q1, <<c>>, Q2)
  <1>1. <<c>> \in Seq(Command)
    OBVIOUS
  <1>2. ASSUME NEW a, NEW s, s \in Seq(Command), Outline(a, r, s, Q1)
        PROVE  Outline(a, r, s \o <<c>>, Q2)
    <2>1. Append(s, c) = s \o <<c>>
      BY <1>2, AppendIsConcat
    <2>2. Outline(a, r, Append(s, c), Q2)
      BY <1>2, OutlineAppend
    <2> QED
      BY <2>1, <2>2
  <1> QED
    BY <1>1, <1>2 DEF Takes

\* A list that is left out.
LEMMA TakesNone ==
  ASSUME NEW r, NEW Q1, NEW Q2, Q1 \subseteq Q2
  PROVE  Takes(r, Q1, <<>>, Q2)
  <1>1. <<>> \in Seq(Command)
    BY EmptySeq
  <1>2. ASSUME NEW a, NEW s, s \in Seq(Command), Outline(a, r, s, Q1)
        PROVE  Outline(a, r, s \o <<>>, Q2)
    <2>1. s \o <<>> = s
      BY <1>2, ConcatEmptySeq
    <2> QED
      BY <1>2, <2>1, OutlineWeaken
  <1> QED
    BY <1>1, <1>2 DEF Takes

\* One list after another.
LEMMA TakesThen ==
  ASSUME NEW r, NEW Q1, NEW Q2, NEW Q3, NEW l, NEW l2,
         Takes(r, Q1, l, Q2), Takes(r, Q2, l2, Q3)
  PROVE  Takes(r, Q1, l \o l2, Q3)
  <1>1. l \in Seq(Command) /\ l2 \in Seq(Command)
    BY DEF Takes
  <1>2. l \o l2 \in Seq(Command)
    BY <1>1, ConcatProperties
  <1>3. ASSUME NEW a, NEW s, s \in Seq(Command), Outline(a, r, s, Q1)
        PROVE  Outline(a, r, s \o (l \o l2), Q3)
    <2>1. s \o l \in Seq(Command) /\ Outline(a, r, s \o l, Q2)
      BY <1>1, <1>3, ConcatProperties DEF Takes
    <2>2. Outline(a, r, (s \o l) \o l2, Q3)
      BY <2>1 DEF Takes
    <2>3. (s \o l) \o l2 = s \o (l \o l2)
      BY <1>1, <1>3, ConcatAssociative
    <2> QED
      BY <2>2, <2>3
  <1> QED
    BY <1>2, <1>3 DEF Takes

-----------------------------------------------------------------------------
(***************************************************************************)
(* What each command does.                                                 *)
(***************************************************************************)

\* The states in which a run is set up: before its first command, with nothing
\* on or set up, and with transport t, and no other, on its way to be on.
Before(r) == {a \in Sound(r) : \A t \in Transports : a.run[t] < r}

Empty(r) ==
  {a \in Adapter : /\ a.on = {}
                   /\ \A t \in Transports : /\ a.conf[t] = "none" /\ a.num[t] = 0
                                            /\ a.run[t] < r}

Clean(r) == {a \in Empty(r) : a.api = "any"}

SetUp(r, t, x) ==
  {a \in Adapter : /\ a.on = {} /\ a.api = Kind(t)
                   /\ \A u \in Transports : /\ a.conf[u] = IF u = t THEN x ELSE "none"
                                            /\ a.num[u] = 0 /\ a.run[u] < r}

\* Nothing is switched on, no number is changed where something is on.
LEMMA Fades ==
  ASSUME NEW a \in Adapter, NEW b \in Adapter, b.on \subseteq a.on, b.run = a.run,
         \A t \in b.on : b.num[t] = a.num[t]
  PROVE  Broadcasts(a, b)
  <1> DEFINE T == a.on \ b.on
  <1>1. T \in SUBSET Transports /\ b.on = a.on \ T
    BY DEF Adapter
  <1>2. \A t \in Transports : Shown(b)[t] = IF t \in T THEN 0 ELSE Shown(a)[t]
    BY DEF Shown
  <1>3. Shown(b) = [t \in Transports |-> IF t \in T THEN 0 ELSE Shown(a)[t]]
    BY <1>2 DEF Shown
  <1> HIDE DEF T
  <1> QED
    BY <1>1, <1>3, Zenon DEF Broadcasts

\* Any command but "enable" and "data" only switches off; the types are kept.
LEMMA ChangedType ==
  ASSUME NEW a \in Adapter, NEW c \in Command
  PROVE  /\ Changed(c, a) \in Adapter
         /\ Changed(c, a).on \subseteq a.on
         /\ Changed(c, a).run = a.run
         /\ \A t \in Transports : /\ Changed(c, a).conf[t] = ConfOf(c, a, t)
                                  /\ Changed(c, a).num[t] = NumOf(c, a, t)
  <1>1. ApiOf(c) \in {"any", "legacy", "extended"}
    BY DEF ApiOf
  <1>2. \A t \in Transports : ConfOf(c, a, t) \in {"none", "params", "ready"}
    BY DEF ConfOf, Adapter
  <1>3. \A t \in Transports : NumOf(c, a, t) \in Nat
    BY DEF NumOf, Adapter, Command, Message
  <1>4. [t \in Transports |-> ConfOf(c, a, t)] \in [Transports -> {"none", "params", "ready"}]
    BY <1>2
  <1>5. [t \in Transports |-> NumOf(c, a, t)] \in [Transports -> Nat]
    BY <1>3
  <1> HIDE DEF ConfOf, NumOf
  <1> QED
    BY <1>1, <1>4, <1>5 DEF Changed, Adapter

\* A command that changes nothing that is on.
LEMMA ChangedFades ==
  ASSUME NEW r, NEW a \in Adapter, NEW c \in Command, c.op \notin {"enable", "data"},
         NEW b \in Outcomes(r, c, a)
  PROVE  /\ b \in Adapter /\ b \in {a, Changed(c, a)}
         /\ Broadcasts(a, b)
         /\ Can(c, a) => b = Changed(c, a)
         /\ ~Can(c, a) => b = a
  <1>1. b \in {a, Changed(c, a)} /\ (Can(c, a) => b = Changed(c, a)) /\ (~Can(c, a) => b = a)
    BY DEF Outcomes
  <1>2. CASE b = a
    <2>1. Broadcasts(a, a)
      BY Fades
    <2> QED
      BY <1>1, <1>2, <2>1
  <1>3. CASE b = Changed(c, a)
    <2>1. b \in Adapter /\ b.on \subseteq a.on /\ b.run = a.run
      BY <1>3, ChangedType
    <2>2. ASSUME NEW t \in b.on PROVE b.num[t] = a.num[t]
      <3>1. c.op # "reset"
        BY <1>3, <2>2 DEF Changed
      <3>2. t \in Transports
        BY <2>1 DEF Adapter
      <3>3. NumOf(c, a, t) = a.num[t]
        BY <3>1 DEF NumOf
      <3> QED
        BY <1>3, <3>2, <3>3, ChangedType
    <2> QED
      BY <1>1, <2>1, <2>2, Fades
  <1> QED
    BY <1>1, <1>2, <1>3

\* Facts about the commands of bluetooth.c.
LEMMA CmdFields ==
  \A op, sets : Cmd(op, sets).op = op /\ Cmd(op, sets).sets = sets /\ Cmd(op, sets).run = 0
  BY DEF Cmd

\* A reset leaves nothing on and nothing set up.
LEMMA ResetTriple ==
  ASSUME NEW r \in Nat
  PROVE  Triple(r, Before(r), Cmd("reset", {}), Clean(r))
  <1> DEFINE c == Cmd("reset", {})
  <1>1. c \in Command /\ c.op = "reset"
    BY CmdType, CmdFields DEF Ops
  <1> HIDE DEF c
  <1> SUFFICES ASSUME NEW a \in Before(r), NEW b \in Outcomes(r, c, a)
               PROVE  b \in Clean(r) /\ Broadcasts(a, b)
    BY DEF Triple, c
  <1>2. a \in Adapter /\ \A t \in Transports : a.run[t] < r
    BY DEF Before, Sound
  <1>3. Can(c, a)
    BY <1>1 DEF Can, ApiOf
  <1>4. b \in Adapter /\ b = Changed(c, a) /\ Broadcasts(a, b)
    BY <1>1, <1>2, <1>3, ChangedFades
  <1>5. b.on = {} /\ b.api = "any" /\ b.run = a.run
    BY <1>1, <1>4 DEF Changed
  <1>6. \A t \in Transports : b.conf[t] = "none" /\ b.num[t] = 0
    BY <1>1, <1>2, <1>4, ChangedType DEF ConfOf, NumOf
  <1> QED
    BY <1>2, <1>4, <1>5, <1>6 DEF Clean, Empty

\* With nothing on and nothing set up there is nothing to take down.
LEMMA IdleTriple ==
  ASSUME NEW r \in Nat, NEW op \in {"disable", "remove", "features"},
         NEW sets \in SUBSET Transports
  PROVE  Triple(r, Empty(r), Cmd(op, sets), Empty(r))
  <1> DEFINE c == Cmd(op, sets)
  <1>1. c \in Command /\ c.op = op
    BY CmdType, CmdFields DEF Ops
  <1> HIDE DEF c
  <1> SUFFICES ASSUME NEW a \in Empty(r), NEW b \in Outcomes(r, c, a)
               PROVE  b \in Empty(r) /\ Broadcasts(a, b)
    BY DEF Triple, c
  <1>2. /\ a \in Adapter /\ a.on = {}
        /\ \A t \in Transports : a.conf[t] = "none" /\ a.num[t] = 0 /\ a.run[t] < r
    BY DEF Empty
  <1>3. b \in Adapter /\ b \in {a, Changed(c, a)} /\ Broadcasts(a, b)
    BY <1>1, <1>2, ChangedFades
  <1>4. CASE b = Changed(c, a)
    <2>1. b.on = {} /\ b.run = a.run
      BY <1>2, <1>4, <1>1, ChangedType
    <2>2. \A t \in Transports : ConfOf(c, a, t) = "none" /\ NumOf(c, a, t) = 0
      BY <1>1, <1>2 DEF ConfOf, NumOf
    <2>3. \A t \in Transports : b.conf[t] = "none" /\ b.num[t] = 0
      BY <1>1, <1>2, <1>4, <2>2, ChangedType
    <2> QED
      BY <1>2, <1>3, <2>1, <2>3 DEF Empty
  <1> QED
    BY <1>3, <1>4

\* After a reset, parameters are accepted for either way of advertising.
LEMMA ParamsTriple ==
  ASSUME NEW r \in Nat, NEW t \in Transports
  PROVE  Triple(r, Clean(r), Cmd("params", {t}), SetUp(r, t, "params"))
  <1> DEFINE c == Cmd("params", {t})
  <1>1. c \in Command /\ c.op = "params" /\ c.sets = {t}
    BY CmdType, CmdFields DEF Ops
  <1> HIDE DEF c
  <1> SUFFICES ASSUME NEW a \in Clean(r), NEW b \in Outcomes(r, c, a)
               PROVE  b \in SetUp(r, t, "params") /\ Broadcasts(a, b)
    BY DEF Triple, c
  <1>2. /\ a \in Adapter /\ a.on = {} /\ a.api = "any"
        /\ \A u \in Transports : a.conf[u] = "none" /\ a.num[u] = 0 /\ a.run[u] < r
    BY DEF Clean, Empty
  <1>3. Can(c, a) /\ ApiOf(c) = Kind(t) /\ Kind(t) # "any"
    BY <1>1, <1>2 DEF Can, ApiOf, Kind, Transports
  <1>4. b \in Adapter /\ b = Changed(c, a) /\ Broadcasts(a, b)
    BY <1>1, <1>2, <1>3, ChangedFades
  <1>5. b.on = {} /\ b.run = a.run /\ b.api = Kind(t)
    BY <1>1, <1>2, <1>3, <1>4 DEF Changed
  <1>6. \A u \in Transports : /\ ConfOf(c, a, u) = IF u = t THEN "params" ELSE "none"
                              /\ NumOf(c, a, u) = 0
    BY <1>1, <1>2 DEF ConfOf, NumOf
  <1>7. \A u \in Transports : /\ b.conf[u] = IF u = t THEN "params" ELSE "none"
                              /\ b.num[u] = 0
    BY <1>1, <1>2, <1>4, <1>6, ChangedType
  <1> QED
    BY <1>2, <1>4, <1>5, <1>7 DEF SetUp

\* With parameters, the address makes the transport ready.
LEMMA AddressTriple ==
  ASSUME NEW r \in Nat, NEW t \in Transports
  PROVE  Triple(r, SetUp(r, t, "params"), Cmd("address", {t}), SetUp(r, t, "ready"))
  <1> DEFINE c == Cmd("address", {t})
  <1>1. c \in Command /\ c.op = "address" /\ c.sets = {t}
    BY CmdType, CmdFields DEF Ops
  <1> HIDE DEF c
  <1> SUFFICES ASSUME NEW a \in SetUp(r, t, "params"), NEW b \in Outcomes(r, c, a)
               PROVE  b \in SetUp(r, t, "ready") /\ Broadcasts(a, b)
    BY DEF Triple, c
  <1>2. /\ a \in Adapter /\ a.on = {} /\ a.api = Kind(t)
        /\ \A u \in Transports : /\ a.conf[u] = IF u = t THEN "params" ELSE "none"
                                 /\ a.num[u] = 0 /\ a.run[u] < r
    BY DEF SetUp
  <1>3. ApiOf(c) \in {"any", Kind(t)} /\ Can(c, a)
    BY <1>1, <1>2 DEF Can, ApiOf, Kind, Transports
  <1>4. b \in Adapter /\ b = Changed(c, a) /\ Broadcasts(a, b)
    BY <1>1, <1>2, <1>3, ChangedFades
  <1>5. b.on = {} /\ b.run = a.run /\ b.api = Kind(t)
    BY <1>1, <1>2, <1>3, <1>4 DEF Changed
  <1>6. \A u \in Transports : /\ ConfOf(c, a, u) = IF u = t THEN "ready" ELSE "none"
                              /\ NumOf(c, a, u) = 0
    BY <1>1, <1>2 DEF ConfOf, NumOf
  <1>7. \A u \in Transports : /\ b.conf[u] = IF u = t THEN "ready" ELSE "none"
                              /\ b.num[u] = 0
    BY <1>1, <1>2, <1>4, <1>6, ChangedType
  <1> QED
    BY <1>2, <1>4, <1>5, <1>7 DEF SetUp

\* All of these are states of the adapter before a broadcast of run r.
LEMMA Stages ==
  ASSUME NEW r \in Nat
  PROVE  /\ Clean(r) \subseteq Empty(r) /\ Empty(r) \subseteq Before(r)
         /\ \A t \in Transports, x \in {"params", "ready"} : SetUp(r, t, x) \subseteq Before(r)
         /\ Before(r) \subseteq Sound(r)
  <1>1. \A a \in Adapter : \A t \in Transports : a.run[t] \in Nat
    BY DEF Adapter
  <1>2. ASSUME NEW a \in Empty(r) PROVE a \in Before(r)
    BY <1>1 DEF Empty, Before, Sound
  <1>3. ASSUME NEW t \in Transports, NEW x \in {"params", "ready"}, NEW a \in SetUp(r, t, x)
        PROVE  a \in Before(r)
    <2>1. /\ a \in Adapter /\ a.on = {}
          /\ \A u \in Transports : /\ a.conf[u] = IF u = t THEN x ELSE "none"
                                   /\ a.run[u] < r
      BY DEF SetUp
    <2> QED
      BY <1>1, <2>1 DEF Before, Sound
  <1> QED
    BY <1>2, <1>3 DEF Clean, Before

\* The set-up of a transport, whatever was set up before.
LEMMA SetupTakes ==
  ASSUME NEW r \in Nat, NEW t \in Transports
  PROVE  Takes(r, Before(r), setup(t), SetUp(r, t, "ready"))
  <1> DEFINE c1 == Cmd("reset", {})
             c2 == Cmd("params", {t})
             c3 == Cmd("address", {t})
  <1>1. c1 \in Command /\ c2 \in Command /\ c3 \in Command
    BY CmdType DEF Ops
  <1>2. /\ Triple(r, Before(r), c1, Clean(r)) /\ Triple(r, Clean(r), c2, SetUp(r, t, "params"))
        /\ Triple(r, SetUp(r, t, "params"), c3, SetUp(r, t, "ready"))
    BY ResetTriple, ParamsTriple, AddressTriple
  <1>3. setup(t) = (<<c1>> \o <<c2>>) \o <<c3>>
    BY DEF setup
  <1> HIDE DEF c1, c2, c3
  <1>4. /\ Clean(r) \subseteq Sound(r) /\ SetUp(r, t, "params") \subseteq Sound(r)
        /\ SetUp(r, t, "ready") \subseteq Sound(r)
    BY Stages
  <1>5. /\ Takes(r, Before(r), <<c1>>, Clean(r))
        /\ Takes(r, Clean(r), <<c2>>, SetUp(r, t, "params"))
        /\ Takes(r, SetUp(r, t, "params"), <<c3>>, SetUp(r, t, "ready"))
    BY <1>1, <1>2, <1>4, TakesOne
  <1>6. Takes(r, Before(r), <<c1>> \o <<c2>>, SetUp(r, t, "params"))
    BY <1>5, TakesThen
  <1>7. Takes(r, Before(r), (<<c1>> \o <<c2>>) \o <<c3>>, SetUp(r, t, "ready"))
    BY <1>5, <1>6, TakesThen
  <1> QED
    BY <1>3, <1>7

\* Transport t is set up and, unless an enable command left it out, on with a
\* broadcast of run r that has message n; it is on for certain if sure.
OnWith(r, t, n, sure) ==
  {a \in Sound(r) : /\ a.on \subseteq {t} /\ a.conf[t] = "ready" /\ a.api = Kind(t)
                    /\ t \in a.on => a.run[t] = r /\ a.num[t] = n
                    /\ sure => t \in a.on}

\* As long as it is off, it has no message and was last on in another run.
Enabling(r, t, sure) ==
  {a \in OnWith(r, t, 0, sure) : a.num[t] = 0 /\ (t \notin a.on => a.run[t] < r)}

\* An enable command for t, and perhaps for a transport that is not set up.
LEMMA EnableTriple ==
  ASSUME NEW r \in Nat, NEW t \in Transports, NEW sets \in SUBSET Transports, t \in sets,
         sets = {"l"} \/ sets \subseteq {"4", "5"}
  PROVE  /\ Triple(r, Enabling(r, t, FALSE), Cmd("enable", sets), Enabling(r, t, FALSE))
         /\ sets = {t} =>
              Triple(r, Enabling(r, t, FALSE), Cmd("enable", sets), Enabling(r, t, TRUE))
  <1> DEFINE c == Cmd("enable", sets)
  <1>1. c \in Command /\ c.op = "enable" /\ c.sets = sets /\ RunOf(r, c) = r
    BY CmdType, CmdFields DEF Ops, RunOf
  <1> HIDE DEF c
  <1> SUFFICES ASSUME NEW a \in Enabling(r, t, FALSE), NEW b \in Outcomes(r, c, a)
               PROVE  /\ b \in Enabling(r, t, FALSE) /\ Broadcasts(a, b)
                      /\ sets = {t} => b \in Enabling(r, t, TRUE)
    BY DEF Triple, c
  <1>2. /\ a \in Adapter /\ a.on \subseteq {t} /\ a.conf[t] = "ready" /\ a.api = Kind(t)
        /\ a.num[t] = 0 /\ (t \in a.on => a.run[t] = r) /\ (t \notin a.on => a.run[t] < r)
        /\ \A u \in Transports : u # t => a.conf[u] = "none"
        /\ \A u, v \in Transports : a.conf[u] # "none" /\ a.conf[v] # "none" => u = v
        /\ \A u \in Transports : a.run[u] <= r /\ a.run[u] \in Nat
    BY DEF Enabling, OnWith, Sound, Adapter
  <1>3. ApiOf(c) = Kind(t) /\ Can(c, a)
    BY <1>1, <1>2 DEF ApiOf, Kind, Can, Transports
  <1>4. PICK T \in Choices(c, a) : b = Switched(r, c, a, T)
    BY <1>1, <1>3 DEF Outcomes
  <1>5. T \subseteq {t} /\ (sets = {t} => t \in T)
    BY <1>1, <1>2, <1>4 DEF Choices
  <1>6. /\ b.api = Kind(t) /\ b.conf = a.conf /\ b.num = a.num /\ b.on = a.on \cup T
        /\ b.run = [u \in Transports |-> IF u \in T \ a.on THEN r ELSE a.run[u]]
    BY <1>1, <1>3, <1>4 DEF Switched
  <1>7. b \in Adapter
    <2>1. b = [api |-> b.api, conf |-> b.conf, on |-> b.on, run |-> b.run, num |-> b.num]
      BY <1>4 DEF Switched
    <2>2. Kind(t) \in {"any", "legacy", "extended"}
      BY DEF Kind
    <2>3. b.run \in [Transports -> Nat]
      BY <1>2, <1>6
    <2>4. b.on \in SUBSET Transports
      BY <1>2, <1>5, <1>6
    <2>5. a.conf \in [Transports -> {"none", "params", "ready"}] /\ a.num \in [Transports -> Nat]
      BY <1>2 DEF Adapter
    <2> QED
      BY <1>6, <2>1, <2>2, <2>3, <2>4, <2>5 DEF Adapter
  <1>8. CASE T \subseteq a.on
    <2>1. \A u \in Transports : b.run[u] = a.run[u]
      BY <1>6, <1>8
    <2>2. b.on = a.on /\ b.run = a.run
      <3>1. a.run \in [Transports -> Nat] /\ b.run \in [Transports -> Nat]
        BY <1>2, <1>7 DEF Adapter
      <3> QED
        BY <1>6, <1>8, <2>1, <3>1
    <2>3. Broadcasts(a, b)
      BY <1>2, <1>6, <1>7, <2>2, Fades
    <2> QED
      BY <1>2, <1>5, <1>6, <1>7, <2>2, <2>3 DEF Enabling, OnWith, Sound
  <1>9. CASE ~(T \subseteq a.on)
    <2>1. T = {t} /\ t \notin a.on /\ a.on = {} /\ b.on = {t}
      BY <1>2, <1>5, <1>6, <1>9
    <2>2. b.run[t] = r /\ \A u \in Transports : u # t => b.run[u] = a.run[u]
      BY <1>6, <2>1
    <2>3. Broadcasts(a, b)
      <3>1. b.run = [a.run EXCEPT ![t] = b.run[t]]
        <4>1. a.run \in [Transports -> Nat] /\ b.run \in [Transports -> Nat]
          BY <1>2, <1>7 DEF Adapter
        <4> QED
          BY <2>2, <4>1
      <3>2. \A u \in Transports : Shown(b)[u] = Shown(a)[u]
        BY <1>2, <1>6, <2>1 DEF Shown
      <3>3. Shown(b) = Shown(a)
        BY <3>2 DEF Shown
      <3>4. b.run[t] > a.run[t] /\ t \in Transports \ a.on /\ b.on = a.on \cup {t}
        BY <1>2, <2>1, <2>2
      <3> QED
        BY <3>1, <3>3, <3>4 DEF Broadcasts
    <2>4. \A u \in Transports : b.run[u] <= r
      BY <1>2, <2>2
    <2>5. b \in Sound(r)
      BY <1>2, <1>6, <1>7, <2>1, <2>4 DEF Sound
    <2> QED
      BY <1>2, <1>6, <2>1, <2>2, <2>3, <2>5 DEF Enabling, OnWith
  <1> QED
    BY <1>8, <1>9

\* A message for transport u: where u is not set up nothing changes, otherwise
\* message n + 1 follows message n.
LEMMA DataTriple ==
  ASSUME NEW r \in Nat, NEW t \in Transports, NEW n \in Nat, NEW sure \in BOOLEAN,
         NEW u \in Transports, Kind(u) = Kind(t),
         NEW m \in Message, m.num = n + 1
  PROVE  IF u = t
           THEN Triple(r, OnWith(r, t, n, sure), Data(u, m), OnWith(r, t, n + 1, sure))
           ELSE Triple(r, OnWith(r, t, n, sure), Data(u, m), OnWith(r, t, n, sure))
  <1> DEFINE c == Data(u, m)
             n2 == IF u = t THEN n + 1 ELSE n
  <1>1. c \in Command /\ c.op = "data" /\ c.sets = {u} /\ c.msg = m
    BY CmdType DEF Data, Cmd
  <1> HIDE DEF c
  <1> SUFFICES ASSUME NEW a \in OnWith(r, t, n, sure), NEW b \in Outcomes(r, c, a)
               PROVE  b \in OnWith(r, t, n2, sure) /\ Broadcasts(a, b)
    BY DEF Triple, c
  <1>2. /\ a \in Sound(r) /\ a \in Adapter /\ a.on \subseteq {t} /\ a.conf[t] = "ready"
        /\ a.api = Kind(t) /\ (t \in a.on => a.run[t] = r /\ a.num[t] = n)
        /\ (sure => t \in a.on)
        /\ \A v \in Transports : v # t => a.conf[v] = "none"
    BY DEF OnWith, Sound
  <1>3. ApiOf(c) = Kind(t) /\ Can(c, a) /\ ApiOf(c) # "any"
    BY <1>1, <1>2 DEF ApiOf, Kind, Can, Transports
  <1>4. b = Changed(c, a)
    BY <1>1, <1>3 DEF Outcomes
  <1>5. b \in Adapter /\ b.run = a.run /\ b.on = a.on /\ b.api = a.api
    BY <1>1, <1>2, <1>3, <1>4, ChangedType DEF Changed
  <1>6. \A v \in Transports : ConfOf(c, a, v) = a.conf[v]
    BY <1>1 DEF ConfOf
  <1>7. \A v \in Transports : NumOf(c, a, v) = IF v = u /\ (u = "l" \/ a.conf[u] # "none")
                                               THEN n + 1 ELSE a.num[v]
    BY <1>1 DEF NumOf
  <1>8. \A v \in Transports : /\ b.conf[v] = a.conf[v]
                              /\ b.num[v] = IF v = u /\ u = t THEN n + 1 ELSE a.num[v]
    <2>1. u # t => u # "l" /\ a.conf[u] = "none"
      BY <1>2 DEF Kind
    <2>2. u = t => a.conf[u] # "none"
      BY <1>2
    <2> QED
      BY <1>1, <1>2, <1>4, <1>6, <1>7, <2>1, <2>2, ChangedType
  <1>9. b \in Sound(r)
    BY <1>2, <1>5, <1>8 DEF Sound
  <1>10. b \in OnWith(r, t, n2, sure)
    BY <1>2, <1>5, <1>8, <1>9 DEF OnWith
  <1>11. CASE u = t /\ t \in a.on
    <2>1. Shown(b) = [Shown(a) EXCEPT ![t] = @ + 1]
      <3>1. \A v \in Transports : Shown(b)[v] = IF v = t THEN n + 1 ELSE Shown(a)[v]
        BY <1>5, <1>8, <1>11 DEF Shown
      <3>2. Shown(a)[t] = n
        BY <1>2, <1>11 DEF Shown
      <3>3. DOMAIN Shown(a) = Transports /\ DOMAIN Shown(b) = Transports
            /\ Shown(b) = [v \in Transports |-> Shown(b)[v]]
        BY DEF Shown
      <3> HIDE DEF Shown
      <3> QED
        BY <3>1, <3>2, <3>3
    <2> QED
      BY <1>5, <1>10, <1>11, <2>1 DEF Broadcasts
  <1>12. CASE ~(u = t /\ t \in a.on)
    <2>1. \A v \in b.on : b.num[v] = a.num[v]
      BY <1>2, <1>5, <1>8, <1>12
    <2> QED
      BY <1>2, <1>5, <1>10, <2>1, Fades
  <1> QED
    BY <1>11, <1>12

-----------------------------------------------------------------------------
(***************************************************************************)
(* What the functions of bluetooth.c do with the adapter.                  *)
(***************************************************************************)

Quiet(r) == {a \in Sound(r) : a.on = {}}

\* stop_transmit() silences the adapter: the command that is refused is the one
\* for the way of advertising that is not in use.
LEMMA StopTakes ==
  ASSUME NEW r \in Nat
  PROVE  Takes(r, Sound(r), stop_transmit, Quiet(r))
  <1> DEFINE c1 == Cmd("disable", {"l"})
             c2 == Cmd("disable", {"4", "5"})
             c3 == Cmd("remove", {"4"})
             c4 == Cmd("remove", {"5"})
             Half == {a \in Sound(r) : a.on = {} \/ a.api = "extended"}
  <1>1. c1 \in Command /\ c2 \in Command /\ c3 \in Command /\ c4 \in Command
    BY CmdType DEF Ops, Transports
  <1>2. stop_transmit = ((<<c1>> \o <<c2>>) \o <<c3>>) \o <<c4>>
    BY DEF stop_transmit
  <1>3. /\ c1.op = "disable" /\ c1.sets = {"l"} /\ c2.op = "disable" /\ c2.sets = {"4", "5"}
        /\ c3.op = "remove" /\ c3.sets = {"4"} /\ c4.op = "remove" /\ c4.sets = {"5"}
    BY CmdFields
  <1> HIDE DEF c1, c2, c3, c4
  <1>4. ASSUME NEW c \in Command, c.op \in {"disable", "remove"},
               NEW a \in Sound(r), NEW b \in Outcomes(r, c, a),
               c.op = "disable" \/ a.on = {}
        PROVE  /\ b \in Sound(r) /\ Broadcasts(a, b) /\ b.on \subseteq a.on
               /\ ~Can(c, a) => b = a
               /\ c.op = "disable" /\ Can(c, a) => b.on = a.on \ c.sets
    <2>1. a \in Adapter
      BY DEF Sound
    <2>2. /\ b \in Adapter /\ Broadcasts(a, b) /\ b \in {a, Changed(c, a)}
          /\ (Can(c, a) => b = Changed(c, a)) /\ (~Can(c, a) => b = a)
      BY <1>4, <2>1, ChangedFades
    <2>3. CASE Can(c, a)
      <3>1. b.on \subseteq a.on /\ b.run = a.run
        BY <2>1, <2>2, <2>3, ChangedType
      <3>2. \A t \in Transports : ConfOf(c, a, t) \in {"none", a.conf[t]}
        BY <1>4 DEF ConfOf
      <3>3. \A t \in Transports : b.conf[t] \in {"none", a.conf[t]}
        BY <2>1, <2>2, <2>3, <3>2, ChangedType
      <3>4. c.op = "disable" => \A t \in Transports : b.conf[t] = a.conf[t]
        <4>1. c.op = "disable" => \A t \in Transports : ConfOf(c, a, t) = a.conf[t]
          BY <1>4 DEF ConfOf
        <4> QED
          BY <2>1, <2>2, <2>3, <4>1, ChangedType
      <3>5. b.api = IF ApiOf(c) = "any" THEN a.api ELSE ApiOf(c)
        BY <1>4, <2>2, <2>3 DEF Changed
      <3>6. \A t \in b.on : b.conf[t] = "ready" /\ b.api = Kind(t)
        <4> SUFFICES ASSUME NEW t \in b.on PROVE b.conf[t] = "ready" /\ b.api = Kind(t)
          OBVIOUS
        <4>1. t \in a.on /\ t \in Transports /\ c.op = "disable"
          BY <1>4, <2>2, <3>1 DEF Adapter
        <4>2. a.conf[t] = "ready" /\ a.api = Kind(t) /\ a.api # "any"
          BY <4>1 DEF Sound, Kind
        <4>3. b.api = a.api
          BY <2>3, <3>5, <4>2 DEF Can
        <4> QED
          BY <3>4, <4>1, <4>2, <4>3
      <3>7. \A t, u \in Transports : b.conf[t] # "none" /\ b.conf[u] # "none" => t = u
        BY <3>3 DEF Sound
      <3>8. \A t \in Transports : b.run[t] <= r
        BY <3>1 DEF Sound
      <3>9. c.op = "disable" => b.on = a.on \ c.sets
        BY <2>2, <2>3 DEF Changed
      <3> QED
        BY <2>2, <2>3, <3>1, <3>6, <3>7, <3>8, <3>9 DEF Sound
    <2> QED
      BY <2>2, <2>3
  <1>5. \A a \in Sound(r) : \A t \in a.on : t \in Transports /\ a.api = Kind(t)
    BY DEF Sound, Adapter
  <1>6. Triple(r, Sound(r), c1, Half)
    <2> SUFFICES ASSUME NEW a \in Sound(r), NEW b \in Outcomes(r, c1, a)
                 PROVE  b \in Half /\ Broadcasts(a, b)
      BY DEF Triple
    <2>1. /\ b \in Sound(r) /\ Broadcasts(a, b) /\ (~Can(c1, a) => b = a)
          /\ Can(c1, a) => b.on = a.on \ {"l"}
      BY <1>1, <1>3, <1>4
    <2>2. ApiOf(c1) = "legacy"
      BY <1>3 DEF ApiOf
    <2>3. Can(c1, a) => b.on = {}
      BY <1>5, <2>1, <2>2 DEF Can, Kind, Transports
    <2>4. ~Can(c1, a) => a.api = "extended"
      BY <2>2 DEF Can, Sound, Adapter
    <2> QED
      BY <2>1, <2>3, <2>4
  <1>7. Triple(r, Half, c2, Quiet(r))
    <2> SUFFICES ASSUME NEW a \in Half, NEW b \in Outcomes(r, c2, a)
                 PROVE  b \in Quiet(r) /\ Broadcasts(a, b)
      BY DEF Triple
    <2>1. /\ b \in Sound(r) /\ Broadcasts(a, b) /\ (~Can(c2, a) => b = a)
          /\ Can(c2, a) => b.on = a.on \ {"4", "5"}
      BY <1>1, <1>3, <1>4
    <2>2. ApiOf(c2) = "extended"
      BY <1>3 DEF ApiOf
    <2>3. Can(c2, a) => b.on = {}
      BY <1>5, <2>1, <2>2 DEF Can, Kind, Transports
    <2>4. ~Can(c2, a) => a.on = {}
      BY <2>2 DEF Can
    <2> QED
      BY <2>1, <2>3, <2>4 DEF Quiet
  <1>8. ASSUME NEW c \in {c3, c4} PROVE Triple(r, Quiet(r), c, Quiet(r))
    <2> SUFFICES ASSUME NEW a \in Quiet(r), NEW b \in Outcomes(r, c, a)
                 PROVE  b \in Quiet(r) /\ Broadcasts(a, b)
      BY DEF Triple
    <2>1. c \in Command /\ c.op = "remove" /\ a \in Sound(r) /\ a.on = {}
      BY <1>1, <1>3 DEF Quiet
    <2>2. b \in Sound(r) /\ Broadcasts(a, b) /\ b.on \subseteq a.on
      BY <1>4, <2>1
    <2> QED
      BY <2>1, <2>2 DEF Quiet
  <1>9. Half \subseteq Sound(r) /\ Quiet(r) \subseteq Sound(r)
    BY DEF Quiet
  <1> HIDE DEF Half
  <1>10. /\ Takes(r, Sound(r), <<c1>>, Half) /\ Takes(r, Half, <<c2>>, Quiet(r))
         /\ Takes(r, Quiet(r), <<c3>>, Quiet(r)) /\ Takes(r, Quiet(r), <<c4>>, Quiet(r))
    BY <1>1, <1>6, <1>7, <1>8, <1>9, TakesOne
  <1>11. Takes(r, Sound(r), <<c1>> \o <<c2>>, Quiet(r))
    BY <1>10, TakesThen
  <1>12. Takes(r, Sound(r), (<<c1>> \o <<c2>>) \o <<c3>>, Quiet(r))
    BY <1>10, <1>11, TakesThen
  <1>13. Takes(r, Sound(r), ((<<c1>> \o <<c2>>) \o <<c3>>) \o <<c4>>, Quiet(r))
    BY <1>10, <1>12, TakesThen
  <1> QED
    BY <1>2, <1>13

\* The transport that the set-up leaves ready: with '4' and '5' together, the
\* reset of the second undoes the set-up of the first.
Main(c) == IF "l" \in c THEN "l" ELSE IF "5" \in c THEN "5" ELSE "4"

Sure(c) == ~({"4", "5"} \subseteq c)

Showing(c, r, n) == OnWith(r, Main(c), n, Sure(c))

\* init_bluetooth(), up to the set-up of the first transport.
LEMMA BeginTakes ==
  ASSUME NEW r \in Nat
  PROVE  Takes(r, Before(r), <<Cmd("reset", {})>> \o stop_transmit \o <<Cmd("features", {})>>,
               Before(r))
  <1> DEFINE c0 == Cmd("reset", {})
             c1 == Cmd("disable", {"l"})
             c2 == Cmd("disable", {"4", "5"})
             c3 == Cmd("remove", {"4"})
             c4 == Cmd("remove", {"5"})
             c5 == Cmd("features", {})
  <1>1. /\ c0 \in Command /\ c1 \in Command /\ c2 \in Command /\ c3 \in Command
        /\ c4 \in Command /\ c5 \in Command
    BY CmdType DEF Ops, Transports
  <1>2. stop_transmit = ((<<c1>> \o <<c2>>) \o <<c3>>) \o <<c4>>
    BY DEF stop_transmit
  <1>3. /\ Triple(r, Before(r), c0, Clean(r))
        /\ Triple(r, Empty(r), c1, Empty(r)) /\ Triple(r, Empty(r), c2, Empty(r))
        /\ Triple(r, Empty(r), c3, Empty(r)) /\ Triple(r, Empty(r), c4, Empty(r))
        /\ Triple(r, Empty(r), c5, Empty(r))
    BY ResetTriple, IdleTriple DEF Transports
  <1> HIDE DEF c0, c1, c2, c3, c4, c5
  <1>4. /\ Clean(r) \subseteq Empty(r) /\ Empty(r) \subseteq Before(r)
        /\ Before(r) \subseteq Sound(r) /\ Empty(r) \subseteq Sound(r)
    BY Stages
  <1>5. Triple(r, Before(r), c0, Empty(r)) /\ Triple(r, Empty(r), c5, Before(r))
    BY <1>3, <1>4 DEF Triple
  <1>6. /\ Takes(r, Before(r), <<c0>>, Empty(r)) /\ Takes(r, Empty(r), <<c1>>, Empty(r))
        /\ Takes(r, Empty(r), <<c2>>, Empty(r)) /\ Takes(r, Empty(r), <<c3>>, Empty(r))
        /\ Takes(r, Empty(r), <<c4>>, Empty(r)) /\ Takes(r, Empty(r), <<c5>>, Before(r))
    BY <1>1, <1>3, <1>4, <1>5, TakesOne
  <1> DEFINE l2 == <<c1>> \o <<c2>>
             l3 == l2 \o <<c3>>
             l4 == l3 \o <<c4>>
  <1>7. Takes(r, Empty(r), l2, Empty(r))
    BY <1>6, TakesThen
  <1>8. stop_transmit = l4
    BY <1>2
  <1> HIDE DEF l2
  <1>9. Takes(r, Empty(r), l3, Empty(r))
    BY <1>6, <1>7, TakesThen
  <1> HIDE DEF l3
  <1>10. Takes(r, Empty(r), l4, Empty(r))
    BY <1>6, <1>9, TakesThen
  <1> HIDE DEF l4
  <1>11. Takes(r, Before(r), <<c0>> \o stop_transmit, Empty(r))
    BY <1>6, <1>8, <1>10, TakesThen
  <1>12. Takes(r, Before(r), (<<c0>> \o stop_transmit) \o <<c5>>, Before(r))
    BY <1>6, <1>11, TakesThen
  <1> QED
    BY <1>12 DEF c0, c5

\* Its parts, one after the other.
LEMMA InitChain ==
  ASSUME NEW r \in Nat, NEW c,
         NEW Q1, NEW Q2, NEW Q3, NEW Q4, NEW Q5, NEW Q6,
         Takes(r, Before(r), If("l" \in c, setup("l")), Q1),
         Takes(r, Q1, If("4" \in c, setup("4")), Q2),
         Takes(r, Q2, If("5" \in c, setup("5")), Q3),
         Takes(r, Q3, If("l" \in c, <<Cmd("enable", {"l"})>>), Q4),
         Takes(r, Q4, If("4" \in c, <<Cmd("enable", c \cap {"4", "5"})>>), Q5),
         Takes(r, Q5, If("5" \in c, <<Cmd("enable", c \cap {"4", "5"})>>), Q6)
  PROVE  Takes(r, Before(r), init_bluetooth(c), Q6)
  <1> DEFINE l0 == <<Cmd("reset", {})>> \o stop_transmit \o <<Cmd("features", {})>>
             l1 == l0 \o If("l" \in c, setup("l"))
             l2 == l1 \o If("4" \in c, setup("4"))
             l3 == l2 \o If("5" \in c, setup("5"))
             l4 == l3 \o If("l" \in c, <<Cmd("enable", {"l"})>>)
             l5 == l4 \o If("4" \in c, <<Cmd("enable", c \cap {"4", "5"})>>)
             l6 == l5 \o If("5" \in c, <<Cmd("enable", c \cap {"4", "5"})>>)
  <1>0. init_bluetooth(c) = l6
    BY DEF init_bluetooth
  <1>1. Takes(r, Before(r), l0, Before(r))
    BY BeginTakes
  <1> HIDE DEF l0
  <1>2. Takes(r, Before(r), l1, Q1)
    BY <1>1, TakesThen
  <1> HIDE DEF l1
  <1>3. Takes(r, Before(r), l2, Q2)
    BY <1>2, TakesThen
  <1> HIDE DEF l2
  <1>4. Takes(r, Before(r), l3, Q3)
    BY <1>3, TakesThen
  <1> HIDE DEF l3
  <1>5. Takes(r, Before(r), l4, Q4)
    BY <1>4, TakesThen
  <1> HIDE DEF l4
  <1>6. Takes(r, Before(r), l5, Q5)
    BY <1>5, TakesThen
  <1> HIDE DEF l5
  <1>7. Takes(r, Before(r), l6, Q6)
    BY <1>6, TakesThen
  <1> HIDE DEF l6
  <1> QED
    BY <1>0, <1>7

\* init_bluetooth() leaves the transport asked for on, without a message.
LEMMA InitTakes ==
  ASSUME NEW r \in Nat, NEW c \in Configs
  PROVE  Takes(r, Before(r), init_bluetooth(c), Showing(c, r, 0))
  <1> USE DEF If
  <1>1. /\ "l" \in Transports /\ "4" \in Transports /\ "5" \in Transports
        /\ \A t \in Transports : {t} \in SUBSET Transports
        /\ {"4", "5"} \in SUBSET Transports
    BY DEF Transports
  <1>2. ASSUME NEW t \in Transports
        PROVE  /\ SetUp(r, t, "ready") \subseteq Enabling(r, t, FALSE)
               /\ SetUp(r, t, "ready") \subseteq Before(r)
               /\ Enabling(r, t, FALSE) \subseteq Sound(r)
               /\ Enabling(r, t, TRUE) \subseteq Sound(r)
               /\ Enabling(r, t, TRUE) \subseteq Enabling(r, t, FALSE)
               /\ Enabling(r, t, TRUE) \subseteq OnWith(r, t, 0, TRUE)
               /\ Enabling(r, t, FALSE) \subseteq OnWith(r, t, 0, FALSE)
    <2>1. SetUp(r, t, "ready") \subseteq Before(r) /\ Before(r) \subseteq Sound(r)
      BY Stages
    <2>2. SetUp(r, t, "ready") \subseteq Enabling(r, t, FALSE)
      <3> SUFFICES ASSUME NEW a \in SetUp(r, t, "ready") PROVE a \in Enabling(r, t, FALSE)
        OBVIOUS
      <3>1. /\ a \in Sound(r) /\ a.on = {} /\ a.api = Kind(t) /\ a.conf[t] = "ready"
            /\ a.num[t] = 0 /\ a.run[t] < r
        BY <2>1 DEF SetUp
      <3> QED
        BY <3>1 DEF Enabling, OnWith
    <2> QED
      BY <2>1, <2>2 DEF Enabling, OnWith
  <1>3. \A t \in Transports : Takes(r, Before(r), setup(t), SetUp(r, t, "ready"))
    BY SetupTakes
  <1>4. ASSUME NEW t \in Transports, NEW Q, Q \subseteq Enabling(r, t, FALSE)
        PROVE  /\ Takes(r, Q, <<Cmd("enable", {t})>>, Enabling(r, t, TRUE))
               /\ t \in {"4", "5"} =>
                    Takes(r, Q, <<Cmd("enable", {"4", "5"})>>, Enabling(r, t, FALSE))
    <2>1. Cmd("enable", {t}) \in Command /\ Cmd("enable", {"4", "5"}) \in Command
      BY <1>1, CmdType DEF Ops
    <2>2. {t} = {"l"} \/ {t} \subseteq {"4", "5"}
      BY DEF Transports
    <2>3. Triple(r, Enabling(r, t, FALSE), Cmd("enable", {t}), Enabling(r, t, TRUE))
      BY <1>1, <2>2, EnableTriple
    <2>4. t \in {"4", "5"} =>
            Triple(r, Enabling(r, t, FALSE), Cmd("enable", {"4", "5"}), Enabling(r, t, FALSE))
      BY <1>1, EnableTriple
    <2>5. /\ Triple(r, Q, Cmd("enable", {t}), Enabling(r, t, TRUE))
          /\ t \in {"4", "5"} => Triple(r, Q, Cmd("enable", {"4", "5"}), Enabling(r, t, FALSE))
      BY <1>4, <2>3, <2>4 DEF Triple
    <2> QED
      BY <1>2, <2>1, <2>5, TakesOne
  <1>5. CASE "l" \in c
    <2>1. "4" \notin c /\ "5" \notin c /\ Main(c) = "l" /\ Sure(c)
      BY <1>5 DEF Configs, Accepted, Main, Sure
    <2> DEFINE Q == SetUp(r, "l", "ready")
               E == Enabling(r, "l", TRUE)
    <2>2. /\ Takes(r, Before(r), setup("l"), Q) /\ Takes(r, Q, <<>>, Q)
          /\ Takes(r, Q, <<Cmd("enable", {"l"})>>, E)
          /\ Takes(r, E, <<>>, E) /\ Takes(r, E, <<>>, OnWith(r, "l", 0, TRUE))
      BY <1>1, <1>2, <1>3, <1>4, TakesNone
    <2> HIDE DEF Q, E
    <2>3. Takes(r, Before(r), init_bluetooth(c), OnWith(r, "l", 0, TRUE))
      BY <1>5, <2>1, <2>2, InitChain
    <2>4. OnWith(r, "l", 0, TRUE) = OnWith(r, "l", 0, Sure(c))
      BY <2>1 DEF OnWith
    <2> QED
      BY <2>1, <2>3, <2>4 DEF Showing
  <1>6. CASE "l" \notin c /\ "4" \in c /\ "5" \notin c
    <2>1. Main(c) = "4" /\ Sure(c) /\ c \cap {"4", "5"} = {"4"}
      BY <1>6 DEF Main, Sure
    <2> DEFINE Q == SetUp(r, "4", "ready")
               E == Enabling(r, "4", TRUE)
    <2>2. /\ Takes(r, Before(r), <<>>, Before(r)) /\ Takes(r, Before(r), setup("4"), Q)
          /\ Takes(r, Q, <<>>, Q)
          /\ Takes(r, Q, <<Cmd("enable", c \cap {"4", "5"})>>, E)
          /\ Takes(r, E, <<>>, OnWith(r, "4", 0, TRUE))
      BY <1>1, <1>2, <1>3, <1>4, <2>1, TakesNone
    <2> HIDE DEF Q, E
    <2>3. Takes(r, Before(r), init_bluetooth(c), OnWith(r, "4", 0, TRUE))
      BY <1>6, <2>1, <2>2, InitChain
    <2>4. OnWith(r, "4", 0, TRUE) = OnWith(r, "4", 0, Sure(c))
      BY <2>1 DEF OnWith
    <2> QED
      BY <2>1, <2>3, <2>4 DEF Showing
  <1>7. CASE "l" \notin c /\ "4" \notin c /\ "5" \in c
    <2>1. Main(c) = "5" /\ Sure(c) /\ c \cap {"4", "5"} = {"5"}
      BY <1>7 DEF Main, Sure
    <2> DEFINE Q == SetUp(r, "5", "ready")
               E == Enabling(r, "5", TRUE)
    <2>2. /\ Takes(r, Before(r), <<>>, Before(r)) /\ Takes(r, Before(r), setup("5"), Q)
          /\ Takes(r, Q, <<>>, Q)
          /\ Takes(r, Q, <<Cmd("enable", c \cap {"4", "5"})>>, E)
      BY <1>1, <1>2, <1>3, <1>4, <2>1, TakesNone
    <2> HIDE DEF Q, E
    <2>3. Takes(r, Before(r), init_bluetooth(c), E)
      BY <1>7, <2>1, <2>2, InitChain
    <2>4. E \subseteq OnWith(r, "5", 0, Sure(c))
      BY <1>1, <1>2, <2>1 DEF OnWith, E
    <2> QED
      BY <2>1, <2>3, <2>4, OutlineWeaken DEF Showing, Takes
  <1>8. CASE "l" \notin c /\ "4" \in c /\ "5" \in c
    <2>1. Main(c) = "5" /\ ~Sure(c) /\ c \cap {"4", "5"} = {"4", "5"}
      BY <1>8 DEF Main, Sure
    <2> DEFINE Q4 == SetUp(r, "4", "ready")
               Q5 == SetUp(r, "5", "ready")
               E == Enabling(r, "5", FALSE)
    <2>2. /\ Takes(r, Before(r), <<>>, Before(r)) /\ Takes(r, Before(r), setup("4"), Q4)
          /\ Q4 \subseteq Before(r) /\ Takes(r, Before(r), setup("5"), Q5)
          /\ Takes(r, Q5, <<>>, Q5)
          /\ Takes(r, Q5, <<Cmd("enable", c \cap {"4", "5"})>>, E)
          /\ Takes(r, E, <<Cmd("enable", c \cap {"4", "5"})>>, E)
      BY <1>1, <1>2, <1>3, <1>4, <2>1, TakesNone
    <2>3. E \subseteq OnWith(r, "5", 0, Sure(c))
      BY <1>1, <1>2, <2>1 DEF OnWith
    <2> HIDE DEF Q4, Q5, E
    <2>4. Takes(r, Before(r), setup("4"), Before(r))
      BY <2>2, OutlineWeaken DEF Takes
    <2>5. Takes(r, Before(r), init_bluetooth(c), E)
      BY <1>8, <2>1, <2>2, <2>4, InitChain
    <2> QED
      BY <2>1, <2>3, <2>5, OutlineWeaken DEF Showing, Takes
  <1>9. "l" \in c \/ "4" \in c \/ "5" \in c
    BY DEF Configs, Accepted, Transports
  <1> QED
    BY <1>5, <1>6, <1>7, <1>8, <1>9

\* send_bluetooth_message() and its like: the next message, on each transport.
LEMMA MessageTakes ==
  ASSUME NEW r \in Nat, NEW c \in Configs, NEW n \in Nat, NEW m \in Message, m.num = n + 1
  PROVE  Takes(r, Showing(c, r, n), send_message(c, m), Showing(c, r, n + 1))
  <1> USE DEF If
  <1>1. "l" \in Transports /\ "4" \in Transports /\ "5" \in Transports
    BY DEF Transports
  <1>2. \A t \in Transports : Data(t, m) \in Command
    BY CmdType
  <1>3. \A t, x, sure : OnWith(r, t, x, sure) \subseteq Sound(r)
    BY DEF OnWith
  <1> DEFINE S == Sure(c)
  <1>4. S \in BOOLEAN
    BY DEF Sure
  <1>5. ASSUME NEW t \in Transports
        PROVE  Takes(r, OnWith(r, t, n, S), <<Data(t, m)>>, OnWith(r, t, n + 1, S))
    <2>1. Triple(r, OnWith(r, t, n, S), Data(t, m), OnWith(r, t, n + 1, S))
      BY <1>4, DataTriple
    <2> QED
      BY <1>2, <1>3, <2>1, TakesOne
  <1>6. Takes(r, OnWith(r, "5", n, S), <<Data("4", m)>>, OnWith(r, "5", n, S))
    <2>1. Kind("4") = Kind("5")
      BY DEF Kind
    <2>2. Triple(r, OnWith(r, "5", n, S), Data("4", m), OnWith(r, "5", n, S))
      BY <1>1, <1>4, <2>1, DataTriple
    <2> QED
      BY <1>1, <1>2, <1>3, <2>2, TakesOne
  <1> DEFINE dl == If("l" \in c, <<Data("l", m)>>)
             d4 == If("4" \in c, <<Data("4", m)>>)
             d5 == If("5" \in c, <<Data("5", m)>>)
  <1>7. send_message(c, m) = (dl \o d4) \o d5
    BY DEF send_message
  <1>8. ASSUME NEW Q1, NEW Q2, NEW Q3, NEW Q4,
               Takes(r, Q1, dl, Q2), Takes(r, Q2, d4, Q3), Takes(r, Q3, d5, Q4)
        PROVE  Takes(r, Q1, send_message(c, m), Q4)
    <2> HIDE DEF dl, d4, d5
    <2>1. Takes(r, Q1, dl \o d4, Q3)
      BY <1>8, TakesThen
    <2> QED
      BY <1>7, <1>8, <2>1, TakesThen
  <1> HIDE DEF S
  <1>9. CASE "l" \in c
    <2>1. "4" \notin c /\ "5" \notin c /\ Main(c) = "l"
      BY <1>9 DEF Configs, Accepted, Main
    <2> DEFINE Q1 == OnWith(r, "l", n, S)
               Q2 == OnWith(r, "l", n + 1, S)
    <2>2. Takes(r, Q1, <<Data("l", m)>>, Q2) /\ Takes(r, Q2, <<>>, Q2)
      BY <1>1, <1>5, TakesNone
    <2> HIDE DEF Q1, Q2
    <2>3. Takes(r, Q1, send_message(c, m), Q2)
      BY <1>8, <1>9, <2>1, <2>2
    <2> QED
      BY <2>1, <2>3 DEF Showing, Q1, Q2, S
  <1>10. CASE "l" \notin c /\ "4" \in c /\ "5" \notin c
    <2>1. Main(c) = "4"
      BY <1>10 DEF Main
    <2> DEFINE Q1 == OnWith(r, "4", n, S)
               Q2 == OnWith(r, "4", n + 1, S)
    <2>2. Takes(r, Q1, <<>>, Q1) /\ Takes(r, Q1, <<Data("4", m)>>, Q2) /\ Takes(r, Q2, <<>>, Q2)
      BY <1>1, <1>5, TakesNone
    <2> HIDE DEF Q1, Q2
    <2>3. Takes(r, Q1, send_message(c, m), Q2)
      BY <1>8, <1>10, <2>2
    <2> QED
      BY <2>1, <2>3 DEF Showing, Q1, Q2, S
  <1>11. CASE "l" \notin c /\ "5" \in c
    <2>1. Main(c) = "5"
      BY <1>11 DEF Main
    <2> DEFINE Q1 == OnWith(r, "5", n, S)
               Q2 == OnWith(r, "5", n + 1, S)
    <2>2. Takes(r, Q1, <<>>, Q1) /\ Takes(r, Q1, <<Data("4", m)>>, Q1)
          /\ Takes(r, Q1, <<Data("5", m)>>, Q2)
      BY <1>1, <1>5, <1>6, TakesNone
    <2> HIDE DEF Q1, Q2
    <2>3. Takes(r, Q1, d4, Q1)
      BY <2>2
    <2>4. Takes(r, Q1, send_message(c, m), Q2)
      BY <1>8, <1>11, <2>2, <2>3
    <2> QED
      BY <2>1, <2>4 DEF Showing, Q1, Q2, S
  <1>12. "l" \in c \/ "4" \in c \/ "5" \in c
    BY DEF Configs, Accepted, Transports
  <1> QED
    BY <1>9, <1>10, <1>11, <1>12

-----------------------------------------------------------------------------
(***************************************************************************)
(* The program and the adapter together.                                   *)
(***************************************************************************)

\* The adapter of the model is the machine described.
LEMMA NowType == TypeOK => Now \in Adapter
  <1> SUFFICES ASSUME TypeOK PROVE Now \in Adapter
    OBVIOUS
  <1>1. \A t \in Transports : air[t].run \in Nat /\ air[t].msg.num \in Nat
    BY DEF TypeOK, Message
  <1>2. /\ [t \in Transports |-> air[t].run] \in [Transports -> Nat]
        /\ [t \in Transports |-> air[t].msg.num] \in [Transports -> Nat]
        /\ {t \in Transports : air[t].on} \in SUBSET Transports
    BY <1>1
  <1> QED
    BY <1>2 DEF Now, Adapter, TypeOK

\* What Execute does to it.
LEMMA ExecuteOutcome ==
  ASSUME TypeOK, Execute, Head(cmdq).run # 0
  PROVE  Now' \in Outcomes(run, Head(cmdq), Now)
  <1> DEFINE c == Head(cmdq)
  <1>1. c \in Command
    BY HeadTailProperties DEF Execute, TypeOK
  <1>2. RunOf(run, c) = c.run
    BY DEF RunOf
  <1>3. Now.api = api /\ Now.conf = conf /\ Now.on = {t \in Transports : air[t].on}
        /\ \A t \in Transports : Now.run[t] = air[t].run /\ Now.num[t] = air[t].msg.num
    BY DEF Now
  <1>4. Can(c, Now) <=> Allowed(c)
    BY <1>3 DEF Can, Allowed
  <1>5. \A t \in Transports : air[t] \in [on : BOOLEAN, run : Nat, msg : Message]
    BY DEF TypeOK
  <1>6. \A t \in Transports : t \in Now.on <=> air[t].on
    BY <1>3
  <1>7. CASE ~Allowed(c)
    <2>1. Now' = Now
      BY <1>7 DEF Execute, adapterVars, Now
    <2> QED
      BY <1>4, <1>7, <2>1 DEF Outcomes
  <1>8. CASE Allowed(c) /\ c.op # "enable"
    <2>1. /\ conf' = [t \in Transports |-> ConfAfter(c, t)]
          /\ air'  = [t \in Transports |-> AirAfter(c, t)]
          /\ api' = IF c.op = "reset" THEN "any"
                    ELSE IF ApiOf(c) = "any" THEN api ELSE ApiOf(c)
      BY <1>8 DEF Execute
    <2> HIDE DEF c
    <2>2. ASSUME NEW t \in Transports
          PROVE  /\ ConfAfter(c, t) = ConfOf(c, Now, t)
                 /\ AirAfter(c, t).run = air[t].run
                 /\ AirAfter(c, t).msg.num = NumOf(c, Now, t)
                 /\ AirAfter(c, t).on <=> t \in Changed(c, Now).on
      <3>1. ConfAfter(c, t) = ConfOf(c, Now, t)
        BY <1>3, <1>6 DEF ConfAfter, ConfOf
      <3>2. air[t] \in [on : BOOLEAN, run : Nat, msg : Message] /\ c.msg \in Message /\ NoMsg.num = 0
        BY <1>1, <1>5 DEF Command, NoMsg
      <3>3. CASE c.op = "reset"
        <4>1. AirAfter(c, t) = [air[t] EXCEPT !.on = FALSE, !.msg = NoMsg]
          BY <3>3 DEF AirAfter
        <4>2. NumOf(c, Now, t) = 0 /\ Changed(c, Now).on = {}
          BY <3>3 DEF NumOf, Changed
        <4> QED
          BY <3>1, <3>2, <4>1, <4>2
      <3>4. CASE c.op = "disable"
        <4>1. AirAfter(c, t) = IF t \in c.sets THEN [air[t] EXCEPT !.on = FALSE] ELSE air[t]
          BY <3>4 DEF AirAfter
        <4>2. NumOf(c, Now, t) = air[t].msg.num /\ Changed(c, Now).on = Now.on \ c.sets
          BY <1>3, <3>4 DEF NumOf, Changed
        <4> QED
          BY <1>6, <3>1, <3>2, <4>1, <4>2
      <3>5. CASE c.op = "data"
        <4>1. AirAfter(c, t) = IF t \in c.sets /\ (t = "l" \/ conf[t] # "none")
                               THEN [air[t] EXCEPT !.msg = c.msg] ELSE air[t]
          BY <3>5 DEF AirAfter
        <4>2. /\ NumOf(c, Now, t) = IF t \in c.sets /\ (t = "l" \/ conf[t] # "none")
                                    THEN c.msg.num ELSE air[t].msg.num
              /\ Changed(c, Now).on = Now.on
          BY <1>3, <3>5 DEF NumOf, Changed
        <4> QED
          BY <1>6, <3>1, <3>2, <4>1, <4>2
      <3>6. CASE c.op \notin {"reset", "disable", "data"}
        <4>1. AirAfter(c, t) = air[t]
          BY <3>6 DEF AirAfter
        <4>2. NumOf(c, Now, t) = air[t].msg.num /\ Changed(c, Now).on = Now.on
          BY <1>3, <3>6 DEF NumOf, Changed
        <4> QED
          BY <1>6, <3>1, <4>1, <4>2
      <3> QED
        BY <3>3, <3>4, <3>5, <3>6
    <2>3. Now' = [api |-> api', conf |-> conf', on |-> {t \in Transports : air'[t].on},
                  run |-> [t \in Transports |-> air'[t].run],
                  num |-> [t \in Transports |-> air'[t].msg.num]]
      BY DEF Now
    <2>4. \A t \in Transports : air'[t] = AirAfter(c, t)
      BY <2>1
    <2>5. conf' = [t \in Transports |-> ConfOf(c, Now, t)]
      BY <2>1, <2>2
    <2>6. [t \in Transports |-> air'[t].run] = Now.run
      BY <2>2, <2>4 DEF Now
    <2>7. [t \in Transports |-> air'[t].msg.num] = [t \in Transports |-> NumOf(c, Now, t)]
      BY <2>2, <2>4
    <2>8. {t \in Transports : air'[t].on} = Changed(c, Now).on
      <3>1. Now.on \subseteq Transports /\ Changed(c, Now).on \subseteq Now.on
        BY <1>1, NowType, ChangedType DEF Adapter
      <3>2. \A t \in Transports : air'[t].on <=> t \in Changed(c, Now).on
        BY <2>2, <2>4, Zenon
      <3> QED
        BY <3>1, <3>2, Zenon
    <2>9. Now' = Changed(c, Now)
      BY <1>3, <2>1, <2>3, <2>5, <2>6, <2>7, <2>8 DEF Changed
    <2> QED
      BY <1>4, <1>8, <2>9 DEF Outcomes, c
  <1>9. CASE Allowed(c) /\ c.op = "enable"
    <2>1. PICK T \in SUBSET Transports : EnableAfter(c, T)
      BY <1>9 DEF Execute
    <2>2. api' = ApiOf(c) /\ conf' = conf
      BY <1>9 DEF Execute
    <2>3. T \in Choices(c, Now)
      BY <1>3, <2>1, Zenon DEF EnableAfter, Choices
    <2>4. air' = [t \in Transports |->
                    IF t \in T /\ ~air[t].on THEN [air[t] EXCEPT !.on = TRUE, !.run = c.run]
                                             ELSE air[t]]
      BY <2>1, Zenon DEF EnableAfter
    <2> HIDE DEF c
    <2>5. ASSUME NEW t \in Transports
          PROVE  /\ air'[t].msg = air[t].msg
                 /\ air'[t].run = IF t \in T \ Now.on THEN c.run ELSE air[t].run
                 /\ air'[t].on <=> t \in Now.on \cup T
      <3>1. air'[t] = IF t \in T /\ ~air[t].on THEN [air[t] EXCEPT !.on = TRUE, !.run = c.run]
                                               ELSE air[t]
        BY <2>4, Zenon
      <3> QED
        BY <1>5, <1>6, <3>1
    <2>6. [t \in Transports |-> air'[t].msg.num] = Now.num
      BY <2>5 DEF Now
    <2>7. [t \in Transports |-> air'[t].run]
            = [t \in Transports |-> IF t \in T \ Now.on THEN RunOf(run, c) ELSE Now.run[t]]
      BY <1>2, <1>3, <2>5 DEF c
    <2>8. {t \in Transports : air'[t].on} = Now.on \cup T
      <3>1. Now.on \subseteq Transports /\ T \subseteq Transports
        BY <1>3
      <3>2. \A t \in Transports : air'[t].on <=> t \in Now.on \cup T
        BY <2>5, Zenon
      <3> QED
        BY <3>1, <3>2, Zenon
    <2>9. Now' = [api |-> api', conf |-> conf', on |-> {t \in Transports : air'[t].on},
                  run |-> [t \in Transports |-> air'[t].run],
                  num |-> [t \in Transports |-> air'[t].msg.num]]
      BY DEF Now
    <2>10. Now' = Switched(run, c, Now, T)
      BY <1>3, <2>2, <2>6, <2>7, <2>8, <2>9 DEF Switched
    <2> QED
      BY <1>4, <1>9, <2>3, <2>10 DEF Outcomes, c
  <1> QED
    BY <1>7, <1>8, <1>9

Unsent == {c \in Command : c.run = 0}
Sent   == {c \in Command : c.run # 0}

\* The commands that the program is bound to send, all that the adapter has
\* still to carry out, and what holds once it has.
Rest == IF pc = "idle" THEN <<>> ELSE IF pc = "read" THEN Tail(todo) ELSE todo

Pending == cmdq \o Rest

Expected ==
  IF pc = "idle" THEN (IF closed THEN Quiet(run) ELSE Sound(run))
  ELSE IF stage = "close" THEN Quiet(run) ELSE Showing(config, run, num)

AirInv ==
  /\ cmdq \in Seq(Sent) /\ todo \in Seq(Unsent)
  /\ closed => pc = "idle"
  /\ pc # "idle" => config \in Configs /\ run # 0
  /\ pc # "idle" /\ stage = "loop" => todo = <<>>
  /\ Outline(Now, run, Pending, Expected)

\* Whatever is expected is sound.
LEMMA ExpectedSound == Expected \subseteq Sound(run)
  BY DEF Expected, Quiet, Showing, OnWith

\* The commands of the lists have not been sent.
LEMMA UnsentLists ==
  /\ stop_transmit \in Seq(Unsent) /\ \A c \in SUBSET Options : init_bluetooth(c) \in Seq(Unsent)
  /\ \A c \in SUBSET Options, m \in Message : send_message(c, m) \in Seq(Unsent)
  <1>1. \A op \in Ops, sets \in SUBSET Transports : Cmd(op, sets) \in Unsent
    BY CmdType, CmdFields DEF Unsent
  <1>2. \A t \in Transports, m \in Message : Data(t, m) \in Unsent
    <2> SUFFICES ASSUME NEW t \in Transports, NEW m \in Message PROVE Data(t, m) \in Unsent
      OBVIOUS
    <2>1. Data(t, m) \in Command /\ Data(t, m).run = 0
      BY CmdType DEF Data, Cmd
    <2> QED
      BY <2>1 DEF Unsent
  <1> QED
    BY <1>1, <1>2, ListOf

\* Both queues hold commands.
LEMMA Queues ==
  ASSUME TypeOK
  PROVE  /\ cmdq \in Seq(Command) /\ Rest \in Seq(Command) /\ Pending \in Seq(Command)
         /\ Rest = <<>> => Pending = cmdq
  <1>1. cmdq \in Seq(Command) /\ todo \in Seq(Command) /\ <<>> \in Seq(Command)
    BY EmptySeq DEF TypeOK
  <1>2. Rest \in Seq(Command)
    <2>1. pc = "read" => Tail(todo) \in Seq(Command)
      BY <1>1, HeadTailProperties DEF TypeOK
    <2> QED
      BY <1>1, <2>1 DEF Rest
  <1> QED
    BY <1>1, <1>2, ConcatProperties, ConcatEmptySeq DEF Pending

\* The first command of what is pending.
LEMMA HeadTailConcat ==
  ASSUME NEW s \in Seq(Command), s # <<>>, NEW l \in Seq(Command)
  PROVE  s \o l # <<>> /\ Head(s \o l) = Head(s) /\ Tail(s \o l) = Tail(s) \o l
  <1> DEFINE w == s \o l
             v == Tail(s) \o l
  <1>1. /\ Len(s) \in Nat \ {0} /\ Len(l) \in Nat /\ Tail(s) \in Seq(Command)
        /\ Len(Tail(s)) = Len(s) - 1 /\ \A j \in 1 .. Len(s) - 1 : Tail(s)[j] = s[j + 1]
        /\ Head(s) = s[1]
    BY HeadTailProperties, EmptySeq, LenProperties
  <1>2. /\ w \in Seq(Command) /\ Len(w) = Len(s) + Len(l)
        /\ \A j \in 1 .. Len(s) + Len(l) : w[j] = IF j <= Len(s) THEN s[j] ELSE l[j - Len(s)]
    BY ConcatProperties
  <1>3. /\ v \in Seq(Command) /\ Len(v) = Len(Tail(s)) + Len(l)
        /\ \A j \in 1 .. Len(Tail(s)) + Len(l) :
             v[j] = IF j <= Len(Tail(s)) THEN Tail(s)[j] ELSE l[j - Len(Tail(s))]
    BY <1>1, ConcatProperties
  <1> HIDE DEF w, v
  <1>4. w # <<>>
    BY <1>1, <1>2
  <1>5. /\ Tail(w) \in Seq(Command) /\ Len(Tail(w)) = Len(w) - 1 /\ Head(w) = w[1]
        /\ \A j \in 1 .. Len(w) - 1 : Tail(w)[j] = w[j + 1]
    BY <1>2, <1>4, HeadTailProperties
  <1>6. Len(Tail(w)) = Len(v) /\ Head(w) = Head(s)
    BY <1>1, <1>2, <1>3, <1>5
  <1>7. \A j \in 1 .. Len(v) : Tail(w)[j] = v[j]
    <2> SUFFICES ASSUME NEW j \in 1 .. Len(s) - 1 + Len(l) PROVE Tail(w)[j] = v[j]
      BY <1>1, <1>3
    <2>1. Tail(w)[j] = w[j + 1] /\ j + 1 \in 1 .. Len(s) + Len(l)
      BY <1>1, <1>2, <1>5
    <2>2. CASE j <= Len(s) - 1
      <3>1. w[j + 1] = s[j + 1]
        BY <1>1, <1>2, <2>1, <2>2
      <3>2. v[j] = Tail(s)[j]
        BY <1>1, <1>3, <2>2
      <3>3. Tail(s)[j] = s[j + 1]
        BY <1>1, <2>2
      <3> QED
        BY <2>1, <3>1, <3>2, <3>3, Zenon
    <2>3. CASE j > Len(s) - 1
      <3>1. w[j + 1] = l[(j + 1) - Len(s)]
        BY <1>1, <1>2, <2>1, <2>3
      <3>2. v[j] = l[j - (Len(s) - 1)]
        BY <1>1, <1>3, <2>3
      <3>3. (j + 1) - Len(s) = j - (Len(s) - 1)
        BY <1>1
      <3> QED
        BY <2>1, <3>1, <3>2, <3>3, Zenon
    <2>4. j <= Len(s) - 1 \/ j > Len(s) - 1
      BY <1>1
    <2> QED
      BY <2>2, <2>3, <2>4, Zenon
  <1>8. Tail(w) = v
    BY <1>3, <1>5, <1>6, <1>7, SeqEqual
  <1> QED
    BY <1>4, <1>6, <1>8 DEF w, v

\* The program appends a list of commands.
LEMMA AirAppends ==
  ASSUME TypeOK, AirInv, pc = "cmd", todo = <<>>, NEW l, NEW Q, NEW Q2, Expected \subseteq Q,
         Takes(run, Q, l, Q2)
  PROVE  Outline(Now, run, cmdq \o l, Q2)
  <1>1. Rest = <<>>
    BY DEF Rest
  <1>2. Outline(Now, run, cmdq, Expected)
    BY <1>1, Queues DEF AirInv
  <1>3. Outline(Now, run, cmdq, Q)
    BY <1>2, OutlineWeaken
  <1> QED
    BY <1>3, Queues DEF Takes

\* The program appends stop_transmit().
LEMMA AirStops ==
  ASSUME TypeOK, AirInv, pc = "cmd", todo = <<>>
  PROVE  Outline(Now, run, cmdq \o stop_transmit, Quiet(run))
  <1>1. run \in Nat
    BY DEF TypeOK
  <1> QED
    BY <1>1, AirAppends, ExpectedSound, StopTakes

\* The program appends a message.
LEMMA AirTransmit ==
  ASSUME TypeOK, AirInv, InPass, NEW type \in Types, Transmit(type), encoded' \in Content
  PROVE  AirInv'
  <1> DEFINE m == [num |-> num + 1, is |-> encoded', for |-> [type |-> type, pass |-> pass]]
  <1>1. m \in Message /\ m.num = num + 1
    BY DEF TypeOK, Message, Content
  <1>2. todo' = send_message(config, m)
    BY DEF Transmit
  <1> HIDE DEF m
  <1>3. /\ pc' = "cmd" /\ pc = "cmd" /\ stage' = "pass" /\ stage = "pass" /\ todo = <<>>
        /\ num' = num + 1 /\ config' = config /\ run' = run /\ closed' = closed
        /\ cmdq' = cmdq /\ Now' = Now
    BY DEF InPass, Transmit, programUnchanged, queueVars, adapterVars, Now
  <1>4. config \in Configs /\ run # 0 /\ run \in Nat /\ num \in Nat /\ config \in SUBSET Options
    BY <1>3 DEF AirInv, TypeOK
  <1>5. Expected = Showing(config, run, num) /\ Expected' = Showing(config, run, num + 1)
    BY <1>3 DEF Expected
  <1>6. Pending' = cmdq \o send_message(config, m)
    BY <1>2, <1>3 DEF Pending, Rest
  <1>7. Takes(run, Showing(config, run, num), send_message(config, m), Showing(config, run, num + 1))
    BY <1>1, <1>4, MessageTakes
  <1>8. Outline(Now, run, cmdq \o send_message(config, m), Showing(config, run, num + 1))
    BY <1>3, <1>5, <1>7, AirAppends
  <1>9. todo' \in Seq(Unsent)
    BY <1>1, <1>2, <1>4, UnsentLists
  <1> QED
    BY <1>3, <1>4, <1>5, <1>6, <1>8, <1>9 DEF AirInv

\* Every step keeps the outline.
LEMMA AirNext == TypeOK /\ AirInv /\ [Next]_vars => AirInv'
  <1> SUFFICES ASSUME TypeOK, AirInv, [Next]_vars PROVE AirInv'
    OBVIOUS
  <1> USE DEF queueVars, adapterVars, progVars, programUnchanged
  <1>0. /\ run \in Nat /\ cmdq \in Seq(Command) /\ todo \in Seq(Command)
        /\ config \in SUBSET Options
    BY DEF TypeOK
  <1>1. ASSUME NEW c \in Configs, Start(c) PROVE AirInv'
    <2>1. /\ pc = "idle" /\ pc' = "cmd" /\ stage' = "init" /\ num' = 0 /\ config' = c
          /\ run' = run + 1 /\ closed' = FALSE /\ todo' = init_bluetooth(c)
          /\ cmdq' = cmdq /\ Now' = Now
      BY <1>1 DEF Start, Now
    <2>2. Outline(Now, run, cmdq, Sound(run))
      <3>1. Pending = cmdq
        BY <2>1, Queues DEF Rest
      <3> QED
        BY <3>1, ExpectedSound, OutlineWeaken DEF AirInv
    <2>3. Sound(run) \subseteq Sound(run + 1) /\ Sound(run) \subseteq Before(run + 1)
      <3>1. ASSUME NEW a \in Sound(run), NEW t \in Transports
            PROVE  a.run[t] <= run + 1 /\ a.run[t] < run + 1
        BY <1>0 DEF Sound, Adapter
      <3> QED
        BY <3>1 DEF Sound, Before
    <2>4. \A j \in 1 .. Len(cmdq) : Alike(cmdq[j], run, cmdq[j], run + 1)
      <3>1. \A j \in 1 .. Len(cmdq) : cmdq[j] \in Sent
        BY ElementOfSeq DEF AirInv
      <3> QED
        BY <3>1 DEF Alike, RunOf, Sent
    <2>5. Outline(Now, run + 1, cmdq, Before(run + 1))
      BY <1>0, <2>2, <2>3, <2>4, OutlineAlike
    <2>6. Outline(Now, run + 1, cmdq \o init_bluetooth(c), Showing(c, run + 1, 0))
      BY <1>0, <2>5, InitTakes DEF Takes
    <2>7. Pending' = cmdq \o init_bluetooth(c) /\ Expected' = Showing(c, run + 1, 0)
      BY <2>1 DEF Pending, Rest, Expected
    <2>8. c \in SUBSET Options /\ todo' \in Seq(Unsent) /\ run' # 0
      BY <1>0, <2>1, UnsentLists DEF Configs
    <2> QED
      BY <2>1, <2>6, <2>7, <2>8 DEF AirInv
  <1>2. CASE SendCmd
    <2> DEFINE h == Head(todo)
               n == sent + 1
    <2>1. /\ h \in Unsent /\ h = todo[1] /\ Tail(todo) \in Seq(Command) /\ n \in Nat
          /\ Len(todo) \in Nat \ {0} /\ Len(Tail(todo)) = Len(todo) - 1
          /\ \A j \in 1 .. Len(todo) - 1 : Tail(todo)[j] = todo[j + 1]
      <3>1. todo # <<>> /\ todo \in Seq(Unsent) /\ sent \in Nat
        BY <1>2 DEF SendCmd, AirInv, TypeOK
      <3>2. h \in Unsent /\ Len(todo) \in Nat \ {0}
        BY <3>1, HeadTailProperties, EmptySeq
      <3> QED
        BY <1>0, <3>1, <3>2, HeadTailProperties
    <2>2. cmdq' = Append(cmdq, [h EXCEPT !.run = run, !.seq = n])
      BY <1>2 DEF SendCmd
    <2>3. /\ pc = "cmd" /\ pc' = "read" /\ UNCHANGED <<stage, config, todo, num, closed, run>>
          /\ Now' = Now
      BY <1>2 DEF SendCmd, Now
    <2>4. run # 0 /\ config \in Configs
      BY <2>3 DEF AirInv
    <2> HIDE DEF h, n
    <2> DEFINE d == [h EXCEPT !.run = run, !.seq = n]
    <2>5. d \in Sent /\ d \in Command /\ Alike(h, run, d, run)
      <3>1. h \in Command /\ h.run = 0
        BY <2>1 DEF Unsent
      <3>2. /\ d \in Command /\ d.run = run /\ d.op = h.op /\ d.sets = h.sets /\ d.msg = h.msg
        BY <1>0, <2>1, <3>1 DEF Command
      <3> QED
        BY <2>4, <3>1, <3>2 DEF Alike, RunOf, Sent
    <2> HIDE DEF d
    <2>6. cmdq' = Append(cmdq, d)
      BY <2>2 DEF d
    <2>7. Append(cmdq, d) \in Seq(Sent)
      BY <2>5, AppendProperties DEF AirInv
    <2> DEFINE N == Len(cmdq)
               q == Append(cmdq, d)
    <2>8. /\ N \in Nat /\ q \in Seq(Command) /\ Len(q) = N + 1 /\ q[N + 1] = d
          /\ \A j \in 1 .. N : q[j] = cmdq[j]
      BY <1>0, <2>5, AppendProperties, LenProperties
    <2>9. Pending = cmdq \o todo /\ Pending' = q \o Tail(todo) /\ Expected' = Expected
      BY <2>3, <2>6 DEF Pending, Rest, Expected
    <2> HIDE DEF N, q
    <2>10. /\ cmdq \o todo \in Seq(Command) /\ Len(cmdq \o todo) = N + Len(todo)
           /\ \A j \in 1 .. N + Len(todo) :
                (cmdq \o todo)[j] = IF j <= N THEN cmdq[j] ELSE todo[j - N]
      BY <1>0, ConcatProperties DEF N
    <2>11. /\ q \o Tail(todo) \in Seq(Command)
           /\ Len(q \o Tail(todo)) = Len(q) + Len(Tail(todo))
           /\ \A j \in 1 .. Len(q) + Len(Tail(todo)) :
                (q \o Tail(todo))[j] = IF j <= Len(q) THEN q[j] ELSE Tail(todo)[j - Len(q)]
      BY <2>1, <2>8, ConcatProperties
    <2>12. Len(q) + Len(Tail(todo)) = N + Len(todo)
      BY <2>1, <2>8
    <2>13. \A j \in 1 .. N + Len(todo) : Alike((cmdq \o todo)[j], run, (q \o Tail(todo))[j], run)
      <3> SUFFICES ASSUME NEW j \in 1 .. N + Len(todo)
                   PROVE  Alike((cmdq \o todo)[j], run, (q \o Tail(todo))[j], run)
        OBVIOUS
      <3>1. \A x : Alike(x, run, x, run)
        BY DEF Alike
      <3>2. CASE j <= N
        <4>1. (cmdq \o todo)[j] = cmdq[j] /\ (q \o Tail(todo))[j] = cmdq[j]
          BY <2>1, <2>8, <2>10, <2>11, <2>12, <3>2
        <4> QED
          BY <3>1, <4>1
      <3>3. CASE j = N + 1
        <4>1. (cmdq \o todo)[j] = h /\ (q \o Tail(todo))[j] = d
          BY <2>1, <2>8, <2>10, <2>11, <2>12, <3>3
        <4> QED
          BY <2>5, <4>1
      <3>4. CASE j > N + 1
        <4>1. j - N - 1 \in 1 .. Len(todo) - 1 /\ (j - N - 1) + 1 = j - N /\ j - (N + 1) = j - N - 1
          BY <2>1, <2>8, <3>4
        <4>2. (cmdq \o todo)[j] = todo[j - N] /\ (q \o Tail(todo))[j] = Tail(todo)[j - N - 1]
          BY <2>1, <2>8, <2>10, <2>11, <2>12, <3>4, <4>1
        <4>3. Tail(todo)[j - N - 1] = todo[j - N]
          BY <2>1, <4>1
        <4> QED
          BY <3>1, <4>2, <4>3
      <3>5. j <= N \/ j = N + 1 \/ j > N + 1
        BY <2>1, <2>8
      <3> QED
        BY <3>2, <3>3, <3>4, <3>5, Zenon
    <2>14. Outline(Now, run, cmdq \o todo, Expected)
      BY <2>9 DEF AirInv
    <2>15. Outline(Now, run, q \o Tail(todo), Expected)
      BY <2>10, <2>11, <2>12, <2>13, <2>14, OutlineAlike
    <2> QED
      BY <2>3, <2>6, <2>7, <2>9, <2>15 DEF AirInv
  <1>3. CASE Gone(FALSE)
    <2>1. /\ pc' = "idle" /\ closed' = FALSE /\ cmdq' = cmdq /\ todo' = todo /\ run' = run
          /\ Now' = Now
      BY <1>3 DEF Gone, Now
    <2>2. Pending' = cmdq /\ Expected' = Sound(run)
      <3>1. cmdq \o <<>> = cmdq
        BY <1>0, ConcatEmptySeq
      <3> QED
        BY <2>1, <3>1 DEF Pending, Rest, Expected
    <2>3. Outline(Now, run, cmdq, Sound(run))
      BY Queues, OutlinePrefix DEF AirInv, Pending
    <2> QED
      BY <2>1, <2>2, <2>3 DEF AirInv
  <1>4. CASE CloseDone
    <2>1. /\ pc = "cmd" /\ stage = "close" /\ todo = <<>> /\ pc' = "idle" /\ closed' = TRUE
          /\ cmdq' = cmdq /\ todo' = todo /\ run' = run /\ Now' = Now
      BY <1>4 DEF CloseDone, Gone, Now
    <2>2. Pending' = Pending /\ Expected' = Expected
      BY <2>1 DEF Pending, Rest, Expected
    <2> QED
      BY <2>1, <2>2 DEF AirInv
  <1>5. CASE ReadEvent \/ ReadFails
    <2>1. /\ pc = "read" /\ pc' = "cmd" /\ todo' = Tail(todo) /\ Now' = Now
          /\ UNCHANGED <<stage, config, num, closed, run, cmdq>>
      BY <1>5 DEF ReadEvent, ReadFails, Returned, Now
    <2>2. Pending' = Pending /\ Expected' = Expected
      BY <2>1 DEF Pending, Rest, Expected
    <2>3. todo # <<>>
      BY <2>1 DEF TypeOK
    <2>4. Tail(todo) \in Seq(Unsent)
      BY <2>3, HeadTailProperties DEF AirInv
    <2> QED
      BY <2>1, <2>2, <2>3, <2>4 DEF AirInv
  <1>6. ASSUME pc = "cmd", pc' = "cmd", todo = <<>>, todo' = stop_transmit, stage' = "close",
               Now' = Now, UNCHANGED <<config, closed, run, cmdq>>
        PROVE  AirInv'
    <2>1. Pending' = cmdq \o stop_transmit /\ Expected' = Quiet(run)
      BY <1>6 DEF Pending, Rest, Expected
    <2>2. Outline(Now, run, cmdq \o stop_transmit, Quiet(run))
      BY <1>6, AirStops
    <2>3. stop_transmit \in Seq(Unsent)
      BY UnsentLists
    <2> QED
      BY <1>6, <2>1, <2>2, <2>3 DEF AirInv
  <1>7. ASSUME pc = "cmd", pc' = "cmd", todo = <<>>, todo' = <<>>,
               stage # "close", stage' # "close",
               Now' = Now, UNCHANGED <<config, closed, run, num, cmdq>>
        PROVE  AirInv'
    <2>1. Pending' = Pending /\ Expected' = Expected
      BY <1>7 DEF Pending, Rest, Expected
    <2> QED
      BY <1>7, <2>1 DEF AirInv
  <1>8. CASE InitDone \/ NextPass \/ PassDone
    <2>1. Now' = Now /\ UNCHANGED <<config, closed, run, num, cmdq, pc>> /\ pc = "cmd"
      BY <1>8 DEF InitDone, NextPass, PassDone, InPass, Now
    <2>2. todo = <<>>
      BY <1>8, <2>1 DEF InitDone, NextPass, PassDone, InPass, AirInv
    <2>3. stage # "close"
      BY <1>8 DEF InitDone, NextPass, PassDone, InPass
    <2>4. \/ todo' = stop_transmit /\ stage' = "close"
          \/ todo' = todo /\ stage' # "close"
      BY <1>8 DEF InitDone, NextPass, PassDone, InPass
    <2> QED
      BY <1>6, <1>7, <2>1, <2>2, <2>3, <2>4
  <1>9. CASE SendPack
    <2>1. "pack" \in Types
      BY DEF Types
    <2>2. encoded' \in Content
      BY <1>9, <2>1 DEF SendPack, Content, TypeOK
    <2> QED
      BY <1>9, <2>1, <2>2, AirTransmit DEF SendPack
  <1>10. CASE SendSingle
    <2>1. Singles[k + 1] \in Types
      BY <1>10, SingleTypes DEF SendSingle, TypeOK
    <2>2. encoded' \in Content
      BY <1>10, <2>1 DEF SendSingle, Content, TypeOK
    <2> QED
      BY <1>10, <2>1, <2>2, AirTransmit DEF SendSingle
  <1>11. CASE SendUnencoded
    <2>1. Singles[k + 1] \in Types /\ Singles[k + 1] = "location"
      BY <1>11, SingleTypes DEF SendUnencoded, TypeOK
    <2>2. encoded' \in Content
      BY <1>11 DEF SendUnencoded, TypeOK
    <2> QED
      BY <1>11, <2>1, <2>2, AirTransmit DEF SendUnencoded
  <1>12. CASE Execute
    <2>1. /\ cmdq # <<>> /\ cmdq' = Tail(cmdq)
          /\ UNCHANGED <<pc, stage, config, todo, num, closed, run>>
      BY <1>12 DEF Execute
    <2>2. Head(cmdq) \in Sent /\ Tail(cmdq) \in Seq(Sent)
      BY <2>1, HeadTailProperties DEF AirInv
    <2>3. Head(cmdq).run # 0
      BY <2>2 DEF Sent
    <2>4. Now' \in Outcomes(run, Head(cmdq), Now)
      BY <1>12, <2>3, ExecuteOutcome
    <2>5. Rest' = Rest /\ Expected' = Expected /\ Pending' = Tail(cmdq) \o Rest
      BY <2>1 DEF Rest, Pending, Expected
    <2>6. Pending # <<>> /\ Head(Pending) = Head(cmdq) /\ Tail(Pending) = Tail(cmdq) \o Rest
      <3> HIDE DEF Rest
      <3>1. Rest \in Seq(Command)
        BY Queues
      <3> QED
        BY <1>0, <2>1, <3>1, HeadTailConcat DEF Pending
    <2>7. Outline(Now', run, Tail(Pending), Expected)
      BY <2>4, <2>6, Queues, OutlineTail DEF AirInv
    <2> QED
      BY <2>1, <2>2, <2>5, <2>6, <2>7 DEF AirInv
  <1>13. CASE UNCHANGED <<pc, stage, config, todo, num, closed, run, cmdq, api, conf, air>>
    <2>1. Now' = Now /\ Pending' = Pending /\ Expected' = Expected
      BY <1>13 DEF Now, Pending, Rest, Expected
    <2> QED
      BY <1>13, <2>1 DEF AirInv
  <1>14. CASE Signal \/ GpsGivesUp \/ Stray \/ UNCHANGED vars
    BY <1>3, <1>13, <1>14 DEF Signal, GpsGivesUp, Stray, vars
  <1> QED
    BY <1>1, <1>2, <1>3, <1>4, <1>5, <1>8, <1>9, <1>10, <1>11, <1>12, <1>14
       DEF Next, Program, SendFails

-----------------------------------------------------------------------------
(***************************************************************************)
(* What the outline shows.                                                 *)
(***************************************************************************)

\* The outline holds from the start.
LEMMA AirAlways == Spec => []AirInv
  <1>1. Init => AirInv
    <2> SUFFICES ASSUME Init PROVE AirInv
      OBVIOUS
    <2>1. /\ cmdq = <<>> /\ todo = <<>> /\ pc = "idle" /\ closed = FALSE /\ run = 0
          /\ conf = [t \in Transports |-> "none"] /\ \A t \in Transports : air[t] = Silent
      BY DEF Init
    <2>2. TypeOK
      BY InitTypes
    <2>3. Now \in Adapter
      BY <2>2, NowType
    <2>4. /\ Now.on = {} /\ \A t \in Transports : Now.conf[t] = "none" /\ Now.run[t] = 0
      BY <2>1 DEF Now, Silent
    <2>5. Now \in Sound(0)
      BY <2>3, <2>4 DEF Sound
    <2>6. Pending = <<>> /\ Expected = Sound(0)
      <3>1. Pending = cmdq
        BY <2>1, <2>2, Queues DEF Rest
      <3> QED
        BY <2>1, <3>1 DEF Expected
    <2>7. Outline(Now, run, Pending, Expected)
      BY <2>1, <2>5, <2>6, OutlineEmpty
    <2> QED
      BY <2>1, <2>7, EmptySeq DEF AirInv
  <1> QED
    BY <1>1, AirNext, TypeCorrect, PTL DEF Spec

\* With nothing left to carry out, the adapter is as expected.
LEMMA CaughtUp ==
  ASSUME TypeOK, AirInv, cmdq = <<>>, Rest = <<>>
  PROVE  Now \in Expected
  <1>1. Pending = <<>>
    BY Queues
  <1>2. PICK P \in [0 .. Len(<<>>) -> SUBSET Sound(run)] : Goes(Now, run, <<>>, Expected, P)
    BY <1>1 DEF AirInv, Outline
  <1>3. Len(<<>>) = 0
    OBVIOUS
  <1> QED
    BY <1>2, <1>3 DEF Goes

\* After close_bluetooth() the adapter is silent, as soon as it has carried out
\* what was sent, in each mode of advertising and whatever happened before.
THEOREM CloseSilences == Spec => []OffAfterClose
  <1>1. TypeOK /\ AirInv => OffAfterClose
    <2> SUFFICES ASSUME TypeOK, AirInv, closed, cmdq = <<>>, NEW t \in Transports
                 PROVE  ~air[t].on
      BY DEF OffAfterClose
    <2>1. pc = "idle"
      BY DEF AirInv
    <2>2. Rest = <<>> /\ Expected = Quiet(run)
      BY <2>1 DEF Rest, Expected
    <2>3. Now.on = {}
      BY <2>2, CaughtUp DEF Quiet
    <2> QED
      BY <2>3 DEF Now
  <1> QED
    BY <1>1, AirAlways, TypeCorrect, PTL

\* Between two messages, every transport asked for broadcasts the last one as
\* soon as the adapter has caught up.
THEOREM LastSentShown == Spec => []LastSentIsOnAir
  <1>1. TypeOK /\ AirInv => LastSentIsOnAir
    <2> SUFFICES ASSUME TypeOK, AirInv, InPass, cmdq = <<>>, ~({"4", "5"} \subseteq config),
                        NEW t \in config \cap Transports
                 PROVE  air[t].on /\ air[t].run = run /\ air[t].msg.num = num
      BY DEF LastSentIsOnAir
    <2>1. pc = "cmd" /\ stage = "pass" /\ todo = <<>> /\ config \in Configs
      BY DEF InPass, AirInv
    <2>2. Rest = <<>> /\ Expected = Showing(config, run, num)
      BY <2>1 DEF Rest, Expected
    <2>3. Main(config) = t /\ Sure(config)
      BY <2>1 DEF Main, Sure, Configs, Accepted, Transports
    <2>4. t \in Now.on /\ Now.run[t] = run /\ Now.num[t] = num
      BY <2>2, <2>3, CaughtUp DEF Showing, OnWith
    <2> QED
      BY <2>4 DEF Now
  <1> QED
    BY <1>1, AirAlways, TypeCorrect, PTL

\* What a receiver sees changes as Broadcast allows.
LEMMA BroadcastStep ==
  ASSUME TypeOK, AirInv, [Next]_vars
  PROVE  air' = air \/ Broadcasts(Now, Now')
  <1>1. CASE Execute
    <2>1. cmdq # <<>>
      BY <1>1 DEF Execute
    <2>2. Head(cmdq) \in Sent
      BY <2>1, HeadTailProperties DEF AirInv
    <2>3. Now' \in Outcomes(run, Head(cmdq), Now)
      BY <1>1, <2>2, ExecuteOutcome DEF Sent
    <2>4. Pending # <<>> /\ Head(Pending) = Head(cmdq)
      <3>1. Rest \in Seq(Command) /\ cmdq \in Seq(Command)
        BY Queues
      <3> HIDE DEF Rest
      <3> QED
        BY <2>1, <3>1, HeadTailConcat DEF Pending
    <2> QED
      BY <2>3, <2>4, Queues, OutlineTail DEF AirInv
  <1>2. CASE ~Execute
    BY <1>2, StepKinds DEF Start, Gone, SendCmd, ReadEvent, ReadFails, Returned, Stray, Aside,
                           adapterVars
  <1> QED
    BY <1>1, <1>2

\* The steps of the adapter are those of Broadcast.
LEMMA MappedStep ==
  ASSUME TypeOK, TypeOK', Broadcasts(Now, Now')
  PROVE  [OnAir!Next]_(OnAir!vars)
  <1> DEFINE on   == [t \in Transports |-> air[t].on]
             on1  == [t \in Transports |-> air'[t].on]
             rn   == [t \in Transports |-> air[t].run]
             rn1  == [t \in Transports |-> air'[t].run]
             num0 == [t \in Transports |-> IF air[t].on THEN air[t].msg.num ELSE 0]
             num1 == [t \in Transports |-> IF air'[t].on THEN air'[t].msg.num ELSE 0]
  <1>1. /\ Now.run = rn /\ Now'.run = rn1
        /\ Now.on = {t \in Transports : air[t].on} /\ Now'.on = {t \in Transports : air'[t].on}
        /\ \A t \in Transports : Now.num[t] = air[t].msg.num /\ Now'.num[t] = air'[t].msg.num
    BY DEF Now
  <1>2. \A t \in Transports : /\ air[t].on \in BOOLEAN /\ air'[t].on \in BOOLEAN
                              /\ air[t].msg.num \in Nat /\ air'[t].msg.num \in Nat
    BY DEF TypeOK, Message
  <1>3. Shown(Now) = num0 /\ Shown(Now') = num1
    <2>1. \A t \in Transports : /\ t \in Now.on <=> air[t].on
                                /\ t \in Now'.on <=> air'[t].on
      BY <1>1
    <2> QED
      BY <1>1, <2>1 DEF Shown
  <1>4. CASE Now'.on = Now.on /\ Now'.run = Now.run /\ Shown(Now') = Shown(Now)
    <2>1. \A t \in Transports : air'[t].on = air[t].on
      BY <1>1, <1>2, <1>4, Zenon
    <2>2. on1 = on /\ rn1 = rn /\ num1 = num0
      BY <1>1, <1>3, <1>4, <2>1
    <2> QED
      BY <2>2 DEF OnAir!vars
  <1>5. ASSUME NEW t \in Transports \ Now.on, Now'.on = Now.on \cup {t}, Shown(Now') = Shown(Now),
               Now'.run[t] > Now.run[t], Now'.run = [Now.run EXCEPT ![t] = Now'.run[t]]
        PROVE  OnAir!SwitchOn(t)
    <2>1. \A u \in Transports : air'[u].on = IF u = t THEN TRUE ELSE air[u].on
      <3>1. /\ \A u \in Transports : u \in Now'.on <=> air'[u].on
            /\ \A u \in Transports : u \in Now.on <=> air[u].on
        BY <1>1, Zenon
      <3>2. air'[t].on = TRUE
        BY <1>2, <1>5, <3>1, Zenon
      <3>3. ASSUME NEW u \in Transports, u # t PROVE air'[u].on = air[u].on
        <4>1. u \in Now'.on <=> u \in Now.on
          BY <1>5, <3>3, Zenon
        <4> QED
          BY <1>2, <3>1, <4>1, Zenon
      <3> QED
        BY <3>2, <3>3, Zenon
    <2>2. on1 = [on EXCEPT ![t] = TRUE] /\ ~on[t]
      BY <1>1, <1>5, <2>1
    <2>3. rn1[t] > rn[t] /\ rn1 = [rn EXCEPT ![t] = rn1[t]] /\ num1 = num0
      BY <1>1, <1>3, <1>5
    <2> HIDE DEF on, on1, rn, rn1, num0, num1
    <2> QED
      BY <2>2, <2>3 DEF OnAir!SwitchOn, on, on1, rn, rn1, num0, num1
  <1>6. ASSUME NEW t \in Now.on, Now'.on = Now.on, Now'.run = Now.run,
               Shown(Now') = [Shown(Now) EXCEPT ![t] = @ + 1]
        PROVE  OnAir!ShowNext(t)
    <2>1. \A u \in Transports : air'[u].on = air[u].on
      BY <1>1, <1>2, <1>6, Zenon
    <2>2. on1 = on /\ on[t]
      BY <1>1, <1>6, <2>1
    <2>3. rn1 = rn /\ num1 = [num0 EXCEPT ![t] = @ + 1]
      BY <1>1, <1>3, <1>6
    <2> QED
      BY <2>2, <2>3 DEF OnAir!ShowNext
  <1>7. ASSUME NEW T \in SUBSET Transports, Now'.on = Now.on \ T, Now'.run = Now.run,
               Shown(Now') = [t \in Transports |-> IF t \in T THEN 0 ELSE Shown(Now)[t]]
        PROVE  OnAir!SwitchOff(T)
    <2>1. \A u \in Transports : air'[u].on = (u \notin T /\ on[u])
      BY <1>1, <1>2, <1>7, Zenon
    <2>2. on1 = [t \in Transports |-> t \notin T /\ on[t]]
      BY <2>1, Zenon
    <2>3. rn1 = rn /\ num1 = [t \in Transports |-> IF t \in T THEN 0 ELSE num0[t]]
      <3> HIDE DEF rn, rn1, num0, num1
      <3>1. rn1 = rn
        BY <1>1, <1>7, Zenon
      <3>2. num1 = [t \in Transports |-> IF t \in T THEN 0 ELSE num0[t]]
        BY <1>3, <1>7, Zenon
      <3> QED
        BY <3>1, <3>2, Zenon
    <2> QED
      BY <2>2, <2>3, Zenon DEF OnAir!SwitchOff
  <1>8. Now.on \subseteq Transports
    BY <1>1
  <1> QED
    BY <1>4, <1>5, <1>6, <1>7, <1>8, Zenon DEF Broadcasts, OnAir!Next

\* The transmitter implements the broadcast of the messages of one run after
\* another, each in its turn.
THEOREM BroadcastImplemented == Spec => ImplementsBroadcast
  <1>1. Init => OnAir!Init
    <2> SUFFICES ASSUME Init PROVE OnAir!Init
      OBVIOUS
    <2>1. \A t \in Transports : air[t].on = FALSE /\ air[t].run = 0
      BY DEF Init, Silent
    <2> QED
      BY <2>1, Zenon DEF OnAir!Init
  <1>2. TypeOK /\ TypeOK' /\ AirInv /\ [Next]_vars => [OnAir!Next]_(OnAir!vars)
    <2> SUFFICES ASSUME TypeOK, TypeOK', AirInv, [Next]_vars
                 PROVE  [OnAir!Next]_(OnAir!vars)
      OBVIOUS
    <2>1. CASE air' = air
      BY <2>1 DEF OnAir!vars
    <2>2. CASE Broadcasts(Now, Now')
      BY <2>2, MappedStep
    <2> QED
      BY <2>1, <2>2, BroadcastStep
  <1> QED
    BY <1>1, <1>2, AirAlways, TypeCorrect, PTL DEF Spec, ImplementsBroadcast, OnAir!Spec
=============================================================================
