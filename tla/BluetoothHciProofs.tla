------------------------- MODULE BluetoothHciProofs -------------------------
(***************************************************************************)
(* Proofs about BluetoothHci, for any list of messages, any number of      *)
(* runs, passes, stray events and failed reads.                            *)
(***************************************************************************)
EXTENDS BluetoothHci, SequenceTheorems, TLAPS

-----------------------------------------------------------------------------
(***************************************************************************)
(* The lists of commands.                                                  *)
(***************************************************************************)

\* Every command that a function of bluetooth.c sends is well formed.
LEMMA CmdType ==
  /\ NoMsg \in Message
  /\ \A op \in Ops, sets \in SUBSET Transports : Cmd(op, sets) \in Command
  /\ \A t \in Transports, m \in Message : Data(t, m) \in Command
  <1>1. Blank \in Content /\ NoMsg \in Message
    BY DEF Blank, Content, Types, NoMsg, Message
  <1>2. ASSUME NEW op \in Ops, NEW sets \in SUBSET Transports
        PROVE  Cmd(op, sets) \in Command
    BY <1>1 DEF Cmd, Command
  <1>3. ASSUME NEW t \in Transports, NEW m \in Message
        PROVE  Data(t, m) \in Command
    <2>1. Cmd("data", {t}) \in Command
      BY <1>2 DEF Ops
    <2> QED
      BY <2>1 DEF Data, Command
  <1> QED
    BY <1>1, <1>2, <1>3

\* stop_transmit(), the set-up of a transport, and what is sent for a message.
LEMMA ListType ==
  /\ stop_transmit \in Seq(Command)
  /\ \A t \in Transports : setup(t) \in Seq(Command)
  /\ \A c \in SUBSET Options, m \in Message : send_message(c, m) \in Seq(Command)
  <1>1. stop_transmit \in Seq(Command)
    <2>1. /\ Cmd("disable", {"l"}) \in Command
          /\ Cmd("disable", {"4", "5"}) \in Command
          /\ Cmd("remove", {"4"}) \in Command
          /\ Cmd("remove", {"5"}) \in Command
      BY CmdType DEF Ops, Transports
    <2> QED
      BY <2>1 DEF stop_transmit
  <1>2. ASSUME NEW t \in Transports PROVE setup(t) \in Seq(Command)
    <2>1. /\ Cmd("reset", {}) \in Command
          /\ Cmd("params", {t}) \in Command
          /\ Cmd("address", {t}) \in Command
      BY CmdType DEF Ops
    <2> QED
      BY <2>1 DEF setup
  <1>3. ASSUME NEW c \in SUBSET Options, NEW m \in Message
        PROVE  send_message(c, m) \in Seq(Command)
    <2>1. /\ Data("l", m) \in Command
          /\ Data("4", m) \in Command
          /\ Data("5", m) \in Command
      BY CmdType DEF Transports
    <2>2. /\ If("l" \in c, <<Data("l", m)>>) \in Seq(Command)
          /\ If("4" \in c, <<Data("4", m)>>) \in Seq(Command)
          /\ If("5" \in c, <<Data("5", m)>>) \in Seq(Command)
      BY <2>1 DEF If
    <2> QED
      BY <2>2, ConcatProperties DEF send_message
  <1> QED
    BY <1>1, <1>2, <1>3

\* init_bluetooth() begins with a reset.
LEMMA InitList ==
  ASSUME NEW c \in SUBSET Options
  PROVE  /\ init_bluetooth(c) \in Seq(Command)
         /\ init_bluetooth(c) # <<>>
         /\ Head(init_bluetooth(c)).op = "reset"
  <1> DEFINE reset == <<Cmd("reset", {})>>
             enable == If("4" \in c, <<Cmd("enable", c \cap {"4", "5"})>>)
             enable5 == If("5" \in c, <<Cmd("enable", c \cap {"4", "5"})>>)
             enablel == If("l" \in c, <<Cmd("enable", {"l"})>>)
             features == <<Cmd("features", {})>>
             sl == If("l" \in c, setup("l"))
             s4 == If("4" \in c, setup("4"))
             s5 == If("5" \in c, setup("5"))
  <1>1. /\ Cmd("reset", {}) \in Command /\ Cmd("features", {}) \in Command
        /\ Cmd("enable", {"l"}) \in Command
        /\ Cmd("enable", c \cap {"4", "5"}) \in Command
    <2>1. {} \in SUBSET Transports /\ {"l"} \in SUBSET Transports
          /\ c \cap {"4", "5"} \in SUBSET Transports
      BY DEF Transports
    <2> QED
      BY <2>1, CmdType DEF Ops
  <1>2. /\ reset \in Seq(Command) /\ features \in Seq(Command)
        /\ enablel \in Seq(Command)
        /\ enable \in Seq(Command)
        /\ enable5 \in Seq(Command)
    BY <1>1 DEF If
  <1>3. sl \in Seq(Command) /\ s4 \in Seq(Command) /\ s5 \in Seq(Command)
    BY ListType DEF If, Transports
  <1>4. Len(reset) = 1 /\ reset[1].op = "reset"
    BY DEF Cmd
  <1>5. stop_transmit \in Seq(Command)
    BY ListType
  <1>6. init_bluetooth(c) =
          reset \o stop_transmit \o features \o sl \o s4 \o s5 \o enablel \o enable \o enable5
    BY DEF init_bluetooth
  <1> HIDE DEF reset, features, enablel, enable, enable5, sl, s4, s5
  <1> DEFINE a1 == reset \o stop_transmit
             a2 == a1 \o features
             a3 == a2 \o sl
             a4 == a3 \o s4
             a5 == a4 \o s5
             a6 == a5 \o enablel
             a7 == a6 \o enable
  <1> DEFINE Good(s) == s \in Seq(Command) /\ Len(s) >= 1 /\ s[1].op = "reset"
  <1>7. \A s, t \in Seq(Command) : Good(s) => Good(s \o t)
    <2> SUFFICES ASSUME NEW s \in Seq(Command), NEW t \in Seq(Command), Good(s)
                 PROVE  Good(s \o t)
      OBVIOUS
    <2>1. /\ s \o t \in Seq(Command)
          /\ Len(s \o t) = Len(s) + Len(t)
          /\ \A j \in 1 .. Len(s) + Len(t) :
               (s \o t)[j] = IF j <= Len(s) THEN s[j] ELSE t[j - Len(s)]
      BY ConcatProperties
    <2>2. Len(s) \in Nat /\ Len(t) \in Nat
      BY LenProperties
    <2> QED
      BY <2>1, <2>2
  <1>8. Good(reset)
    BY <1>2, <1>4
  <1> HIDE DEF Good
  <1>9. Good(a1)
    BY <1>8, <1>7, <1>2, <1>5
  <1>10. Good(a2) /\ a1 \in Seq(Command)
    BY <1>9, <1>7, <1>2 DEF Good
  <1>11. Good(a3) /\ a2 \in Seq(Command)
    BY <1>10, <1>7, <1>3 DEF Good
  <1>12. Good(a4) /\ a3 \in Seq(Command)
    BY <1>11, <1>7, <1>3 DEF Good
  <1>13. Good(a5) /\ a4 \in Seq(Command)
    BY <1>12, <1>7, <1>3 DEF Good
  <1>14. Good(a6) /\ a5 \in Seq(Command)
    BY <1>13, <1>7, <1>2 DEF Good
  <1>15. Good(a7) /\ a6 \in Seq(Command)
    BY <1>14, <1>7, <1>2 DEF Good
  <1>16. Good(a7 \o enable5)
    BY <1>15, <1>7, <1>2 DEF Good
  <1>17. Good(init_bluetooth(c))
    BY <1>6, <1>16
  <1> HIDE DEF a1, a2, a3, a4, a5, a6, a7
  <1> QED
    BY <1>17, HeadTailProperties DEF Good

-----------------------------------------------------------------------------
(***************************************************************************)
(* Types.                                                                  *)
(***************************************************************************)

\* What a message sent for a place in the pass gives to be done.
LEMMA TransmitType ==
  ASSUME TypeOK, NEW type \in Types, Transmit(type), encoded' \in Content,
         pc = "cmd"
  PROVE  TypeOK'
  <1>1. [num |-> num + 1, is |-> encoded', for |-> [type |-> type, pass |-> pass]] \in Message
    BY DEF TypeOK, Message, Content
  <1>2. todo' \in Seq(Command)
    BY <1>1, ListType DEF TypeOK, Transmit
  <1> QED
    BY <1>2 DEF TypeOK, Transmit, programUnchanged, queueVars, adapterVars

\* The set-up and the broadcast of a transport after any command.
LEMMA AfterType ==
  ASSUME TypeOK, NEW c \in Command, NEW t \in Transports
  PROVE  /\ ConfAfter(c, t) \in {"none", "params", "ready"}
         /\ AirAfter(c, t) \in [on : BOOLEAN, run : Nat, msg : Message]
  <1>1. conf[t] \in {"none", "params", "ready"} /\ air[t] \in [on : BOOLEAN, run : Nat, msg : Message]
    BY DEF TypeOK
  <1>2. c.msg \in Message /\ NoMsg \in Message
    BY CmdType DEF Command
  <1>3. ConfAfter(c, t) \in {"none", "params", "ready"}
    BY <1>1 DEF ConfAfter
  <1>4. /\ [air[t] EXCEPT !.on = FALSE, !.msg = NoMsg] \in [on : BOOLEAN, run : Nat, msg : Message]
        /\ [air[t] EXCEPT !.on = FALSE] \in [on : BOOLEAN, run : Nat, msg : Message]
        /\ [air[t] EXCEPT !.msg = c.msg] \in [on : BOOLEAN, run : Nat, msg : Message]
    BY <1>1, <1>2
  <1> QED
    BY <1>1, <1>3, <1>4 DEF AirAfter

\* A command carried out or refused.
LEMMA ExecuteType == TypeOK /\ Execute => TypeOK'
  <1> SUFFICES ASSUME TypeOK, Execute PROVE TypeOK'
    OBVIOUS
  <1> DEFINE c == Head(cmdq)
             Air == [on : BOOLEAN, run : Nat, msg : Message]
  <1>1. /\ c \in Command /\ Tail(cmdq) \in Seq(Command)
        /\ Len(cmdq) \in Nat \ {0} /\ Len(Tail(cmdq)) = Len(cmdq) - 1
    BY HeadTailProperties, EmptySeq DEF Execute, TypeOK
  <1>2. cmdq' \in Seq(Command) /\ old' \in 0 .. Len(cmdq') /\ slips' \in Nat
    BY <1>1 DEF Execute, TypeOK
  <1>3. evtq' \in Seq(Nat)
    <2>1. c.seq \in Nat
      BY <1>1 DEF Command
    <2>2. (IF old > 0 THEN 0 ELSE c.seq) \in Nat
      BY <2>1
    <2> HIDE DEF c
    <2> QED
      BY <2>2, AppendProperties DEF Execute, TypeOK, c
  <1>4. ApiOf(c) \in {"any", "legacy", "extended"}
    BY DEF ApiOf
  <1>5. /\ api' \in {"any", "legacy", "extended"}
        /\ conf' \in [Transports -> {"none", "params", "ready"}]
        /\ air' \in [Transports -> Air]
    <2>1. CASE Allowed(c) /\ c.op # "enable"
      <3>1. \A t \in Transports : ConfAfter(c, t) \in {"none", "params", "ready"} /\ AirAfter(c, t) \in Air
        BY <1>1, AfterType
      <3>2. /\ conf' = [t \in Transports |-> ConfAfter(c, t)]
            /\ air'  = [t \in Transports |-> AirAfter(c, t)]
            /\ api' = IF c.op = "reset" THEN "any"
                      ELSE IF ApiOf(c) = "any" THEN api ELSE ApiOf(c)
        BY <2>1 DEF Execute
      <3> QED
        BY <3>1, <3>2, <1>4 DEF TypeOK
    <2>2. CASE Allowed(c) /\ c.op = "enable"
      <3>1. /\ api' = ApiOf(c) /\ UNCHANGED conf
            /\ \E T \in SUBSET Transports : EnableAfter(c, T)
        BY <2>2 DEF Execute
      <3>2. PICK T \in SUBSET Transports : EnableAfter(c, T)
        BY <3>1
      <3>3. c.run \in Nat
        BY <1>1 DEF Command
      <3>4. \A t \in Transports :
              air[t] \in Air /\ [air[t] EXCEPT !.on = TRUE, !.run = c.run] \in Air
        BY <3>3 DEF TypeOK
      <3>5. \A t \in Transports :
              (IF t \in T /\ ~air[t].on THEN [air[t] EXCEPT !.on = TRUE, !.run = c.run]
                                       ELSE air[t]) \in Air
        BY <3>4, Zenon
      <3>6. air' = [t \in Transports |->
              IF t \in T /\ ~air[t].on THEN [air[t] EXCEPT !.on = TRUE, !.run = c.run]
                                       ELSE air[t]]
        BY <3>2, Zenon DEF EnableAfter
      <3>7. air' \in [Transports -> Air]
        BY <3>5, <3>6, Zenon
      <3> QED
        BY <3>1, <3>7, <1>4 DEF TypeOK
    <2>3. CASE ~Allowed(c)
      BY <2>3 DEF Execute, adapterVars, TypeOK
    <2> QED
      BY <2>1, <2>2, <2>3
  <1>6. UNCHANGED progVars
    BY DEF Execute
  <1> QED
    BY <1>2, <1>3, <1>5, <1>6 DEF TypeOK, progVars

\* hci_send_cmd() queues the first of the commands to be sent.
LEMMA SendCmdAppends ==
  ASSUME TypeOK, SendCmd
  PROVE  \E c \in Command : /\ cmdq' = Append(cmdq, c)
                            /\ c.op = Head(todo).op /\ c.run = run
  <1> DEFINE h == Head(todo)
             n == sent + 1
  <1>1. h \in Command /\ run \in Nat /\ n \in Nat
    BY HeadTailProperties DEF SendCmd, TypeOK
  <1>2. cmdq' = Append(cmdq, [h EXCEPT !.run = run, !.seq = n])
    BY DEF SendCmd
  <1> HIDE DEF h, n
  <1> DEFINE c == [h EXCEPT !.run = run, !.seq = n]
  <1>3. c \in Command /\ c.op = h.op /\ c.run = run
    BY <1>1 DEF Command
  <1> HIDE DEF c
  <1>4. cmdq' = Append(cmdq, c)
    BY <1>2 DEF c
  <1> QED
    BY <1>3, <1>4 DEF h

\* Every step keeps the types.
LEMMA TypeNext == TypeOK /\ [Next]_vars => TypeOK'
  <1> SUFFICES ASSUME TypeOK, [Next]_vars PROVE TypeOK'
    OBVIOUS
  <1> USE DEF queueVars, adapterVars, progVars
  <1>0. Blank \in Content
    BY DEF Blank, Content, Types
  <1>1. ASSUME NEW c \in Configs, Start(c) PROVE TypeOK'
    <2>1. c \in SUBSET Options
      BY DEF Configs
    <2>2. init_bluetooth(c) \in Seq(Command)
      BY <2>1, InitList
    <2>3. Len(cmdq) \in Nat
      BY LenProperties DEF TypeOK
    <2>4. <<>> \in Seq(Nat)
      BY EmptySeq
    <2>5. /\ todo' \in Seq(Command) /\ evtq' \in Seq(Nat) /\ cmdq' \in Seq(Command)
          /\ config' \in SUBSET Options /\ encoded' \in Content
          /\ pc' = "cmd" /\ stage' = "init" /\ disp' = "default"
          /\ kill_program' = FALSE /\ closed' = FALSE
          /\ pass' = 0 /\ k' = 0 /\ num' = 0 /\ sent' = 0 /\ slips' = 0
          /\ run' = run + 1 /\ old' = Len(cmdq) /\ cmdq' = cmdq
          /\ api' = api /\ conf' = conf /\ air' = air
      BY <1>0, <1>1, <2>1, <2>2, <2>4, Zenon DEF Start, TypeOK
    <2>6. old' \in 0 .. Len(cmdq')
      BY <2>3, <2>5
    <2>7. run' \in Nat /\ 0 \in Nat
      BY <2>5 DEF TypeOK
    <2> QED
      BY <2>5, <2>6, <2>7, Zenon DEF TypeOK
  <1>2. CASE SendCmd
    <2>1. PICK c \in Command : cmdq' = Append(cmdq, c)
      BY <1>2, SendCmdAppends
    <2>2. Append(cmdq, c) \in Seq(Command) /\ Len(Append(cmdq, c)) = Len(cmdq) + 1
      BY AppendProperties DEF TypeOK
    <2>3. Len(cmdq) \in Nat
      BY LenProperties DEF TypeOK
    <2>4. /\ sent' = sent + 1 /\ pc' = "read" /\ todo # <<>>
          /\ UNCHANGED <<stage, config, todo, encoded, pass, k, num, disp,
                         kill_program, closed, run, evtq, old, slips, api, conf, air>>
      BY <1>2 DEF SendCmd
    <2> QED
      BY <2>1, <2>2, <2>3, <2>4 DEF TypeOK
  <1>3. CASE SendFails \/ CloseDone \/ \E how \in BOOLEAN : Gone(how)
    <2>1. <<>> \in Seq(Nat)
      BY EmptySeq
    <2> QED
      BY <1>3, <2>1 DEF SendFails, CloseDone, Gone, TypeOK
  <1>4. CASE ReadEvent \/ ReadFails
    <2>1. pc = "read" /\ Returned
      BY <1>4 DEF ReadEvent, ReadFails
    <2>2. todo \in Seq(Command) /\ todo # <<>>
      BY <2>1 DEF TypeOK
    <2>3. Tail(todo) \in Seq(Command)
      BY <2>2, HeadTailProperties
    <2>4. evtq' \in Seq(Nat) /\ slips' \in Nat
      <3>1. CASE ReadEvent
        <4>1. evtq \in Seq(Nat) /\ evtq # <<>> /\ evtq' = Tail(evtq) /\ slips' = slips
          BY <3>1 DEF ReadEvent, TypeOK
        <4>2. Tail(evtq) \in Seq(Nat)
          BY <4>1, HeadTailProperties
        <4> QED
          BY <4>1, <4>2 DEF TypeOK
      <3>2. CASE ReadFails
        BY <3>2 DEF ReadFails, TypeOK
      <3> QED
        BY <1>4, <3>1, <3>2
    <2> QED
      BY <2>1, <2>3, <2>4 DEF Returned, TypeOK
  <1>5. CASE InitDone
    <2>1. stop_transmit \in Seq(Command)
      BY ListType
    <2>2. /\ pc' = pc /\ pc = "cmd" /\ encoded' = encoded /\ k' = k /\ num' = num
          /\ kill_program' = kill_program /\ programUnchanged
          /\ disp' \in {"default", "sig_handler"}
      BY <1>5 DEF InitDone, TypeOK
    <2>3. stage' \in {"init", "loop", "pass", "close"} /\ pass' \in Nat /\ todo' \in Seq(Command)
      <3>1. pass \in Nat /\ todo \in Seq(Command)
        BY DEF TypeOK
      <3>2. \/ stage' = "pass" /\ pass' = 1 /\ todo' = todo
            \/ stage' = "loop" /\ pass' = pass /\ todo' = todo
            \/ stage' = "close" /\ pass' = pass /\ todo' = stop_transmit
        BY <1>5, Zenon DEF InitDone
      <3> HIDE DEF TypeOK
      <3> QED
        BY <2>1, <3>1, <3>2
    <2> QED
      BY <2>2, <2>3 DEF programUnchanged, TypeOK
  <1>6. CASE NextPass
    BY <1>6, <1>0, ListType DEF NextPass, programUnchanged, TypeOK
  <1>7. CASE PassDone
    BY <1>7, ListType DEF PassDone, InPass, programUnchanged, TypeOK
  <1>8. CASE SendPack
    <2>1. "pack" \in Types /\ encoded' \in Content
      BY <1>8 DEF SendPack, Types, Content, TypeOK
    <2> QED
      BY <1>8, <2>1, TransmitType DEF SendPack, InPass
  <1>9. CASE SendSingle \/ SendUnencoded
    <2>1. Singles[k + 1] \in Types
      <3>1. k + 1 \in DOMAIN Singles
        BY <1>9, HciAssumption DEF SendSingle, SendUnencoded, HciAssumption, TypeOK
      <3> QED
        BY <3>1 DEF Types
    <2>2. encoded' \in Content
      BY <1>9, <2>1 DEF SendSingle, SendUnencoded, Content, TypeOK
    <2> QED
      BY <1>9, <2>1, <2>2, TransmitType DEF SendSingle, SendUnencoded, InPass
  <1>10. CASE Signal \/ GpsGivesUp
    <2>1. <<>> \in Seq(Nat)
      BY EmptySeq
    <2> QED
      BY <1>10, <2>1 DEF Signal, Gone, GpsGivesUp, TypeOK
  <1>11. CASE Execute
    BY <1>11, ExecuteType
  <1>12. CASE Stray
    BY <1>12, AppendProperties DEF Stray, TypeOK
  <1>13. CASE UNCHANGED vars
    BY <1>13 DEF vars, TypeOK
  <1> QED
    BY <1>1, <1>2, <1>3, <1>4, <1>5, <1>6, <1>7, <1>8, <1>9, <1>10, <1>11,
       <1>12, <1>13
    DEF Next, Program

\* The types hold at the start.
LEMMA InitTypes == Init => TypeOK
  <1> SUFFICES ASSUME Init PROVE TypeOK
    OBVIOUS
  <1>1. Blank \in Content /\ NoMsg \in Message
    BY CmdType DEF Blank, Content, Types
  <1>2. Silent \in [on : BOOLEAN, run : Nat, msg : Message]
    BY <1>1 DEF Silent
  <1>3. air \in [Transports -> [on : BOOLEAN, run : Nat, msg : Message]]
    BY <1>2, Zenon DEF Init
  <1>4. /\ conf \in [Transports -> {"none", "params", "ready"}]
        /\ api \in {"any", "legacy", "extended"}
    BY DEF Init
  <1>5. Len(cmdq) = 0 /\ cmdq \in Seq(Command) /\ evtq \in Seq(Nat) /\ todo \in Seq(Command)
    BY EmptySeq DEF Init
  <1>6. old \in 0 .. Len(cmdq)
    BY <1>5 DEF Init
  <1> QED
    BY <1>1, <1>3, <1>4, <1>5, <1>6 DEF Init, TypeOK

\* Types are kept by every run of the transmitter, however often it is killed
\* and started again: in particular the read of send_cmd() is always that of a
\* command still on its list, and the commands of earlier runs are a prefix of
\* the adapter's queue.
THEOREM TypeCorrect == Spec => []TypeOK
  BY InitTypes, TypeNext, PTL DEF Spec

-----------------------------------------------------------------------------
(***************************************************************************)
(* Answers and commands.  Besides the start of a run, only the sending, the *)
(* execution and the reading of a command, and the two kinds of slip, move *)
(* the balance; each moves both of its sides.                              *)
(***************************************************************************)

\* The steps that touch neither of the queues nor the counters of a run.
Aside == UNCHANGED <<run, sent, evtq, cmdq, old, slips, air>> /\ pc' = pc

\* Every other step is one of those listed.
LEMMA StepKinds ==
  ASSUME [Next]_vars
  PROVE  \/ \E c \in Configs : Start(c)
         \/ \E how \in BOOLEAN : Gone(how)
         \/ SendCmd \/ ReadEvent \/ ReadFails \/ Execute \/ Stray
         \/ Aside /\ stage' = stage /\ todo' = todo
         \/ Aside /\ ~(pc = "cmd" /\ stage = "init" /\ todo # <<>>)
  <1> USE DEF Aside, queueVars, adapterVars, progVars
  <1>1. CASE SendFails \/ CloseDone
    BY <1>1 DEF SendFails, CloseDone
  <1>2. CASE InitDone \/ NextPass \/ PassDone
    BY <1>2 DEF InitDone, NextPass, PassDone, InPass, programUnchanged
  <1>3. CASE SendPack \/ SendSingle \/ SendUnencoded
    BY <1>3 DEF SendPack, SendSingle, SendUnencoded, Transmit, InPass, programUnchanged
  <1>4. CASE Signal \/ GpsGivesUp
    BY <1>4 DEF Signal, GpsGivesUp
  <1>5. CASE UNCHANGED vars
    BY <1>5 DEF vars
  <1> QED
    BY <1>1, <1>2, <1>3, <1>4, <1>5 DEF Next, Program

\* How a step changes the lengths of the two queues.
LEMMA Lengths ==
  ASSUME TypeOK
  PROVE  /\ Len(evtq) \in Nat /\ Len(cmdq) \in Nat
         /\ \A n \in Nat : Len(Append(evtq, n)) = Len(evtq) + 1
         /\ evtq # <<>> => Len(Tail(evtq)) = Len(evtq) - 1
         /\ cmdq # <<>> => Len(Tail(cmdq)) = Len(cmdq) - 1 /\ Len(cmdq) > 0
         /\ SendCmd => Len(cmdq') = Len(cmdq) + 1
  <1>1. Len(evtq) \in Nat /\ Len(cmdq) \in Nat
    BY LenProperties DEF TypeOK
  <1>2. \A n \in Nat : Len(Append(evtq, n)) = Len(evtq) + 1
    BY AppendProperties DEF TypeOK
  <1>3. evtq # <<>> => Len(Tail(evtq)) = Len(evtq) - 1
    BY HeadTailProperties DEF TypeOK
  <1>4. cmdq # <<>> => Len(Tail(cmdq)) = Len(cmdq) - 1 /\ Len(cmdq) > 0
    BY HeadTailProperties, EmptySeq, <1>1 DEF TypeOK
  <1>5. SendCmd => Len(cmdq') = Len(cmdq) + 1
    BY SendCmdAppends, AppendProperties DEF TypeOK
  <1> QED
    BY <1>1, <1>2, <1>3, <1>4, <1>5

\* Every stray event and failed read puts the program one event behind, and
\* nothing else does: what is in the socket or still to be carried out is one
\* answer for each of them, and the one that send_cmd() is waiting for.
THEOREM InStep == Spec => []AnswersInStep
  <1>1. Init => AnswersInStep
    BY DEF Init, AnswersInStep
  <1>2. TypeOK /\ AnswersInStep /\ [Next]_vars => AnswersInStep'
    <2> SUFFICES ASSUME TypeOK, AnswersInStep, [Next]_vars PROVE AnswersInStep'
      OBVIOUS
    <2> USE Lengths
    <2>0. slips \in Nat /\ old \in 0 .. Len(cmdq) /\ sent \in Nat
      BY DEF TypeOK
    <2>1. ASSUME NEW c \in Configs, Start(c) PROVE AnswersInStep'
      <3>1. /\ pc' = "cmd" /\ slips' = 0 /\ Len(evtq') = 0
            /\ old' = Len(cmdq) /\ cmdq' = cmdq
        BY <2>1 DEF Start
      <3> QED
        BY <3>1 DEF AnswersInStep, Own
    <2>2. ASSUME NEW how \in BOOLEAN, Gone(how) PROVE AnswersInStep'
      BY <2>2 DEF Gone, AnswersInStep
    <2>3. CASE SendCmd
      BY <2>0, <2>3 DEF SendCmd, AnswersInStep, Own
    <2>4. CASE ReadEvent
      BY <2>0, <2>4 DEF ReadEvent, Returned, AnswersInStep, Own
    <2>5. CASE ReadFails
      BY <2>0, <2>5 DEF ReadFails, Returned, AnswersInStep, Own
    <2>6. CASE Execute
      <3>1. pc' = pc /\ Len(cmdq') = Len(cmdq) - 1 /\ Len(cmdq) > 0
        BY <2>6 DEF Execute, progVars
      <3>2. pc # "idle" => Len(evtq') = Len(evtq) + 1
        <4>1. Head(cmdq) \in Command
          BY <2>6, HeadTailProperties DEF Execute, TypeOK
        <4>2. (IF old > 0 THEN 0 ELSE Head(cmdq).seq) \in Nat
          BY <4>1 DEF Command
        <4> QED
          BY <2>6, <4>2 DEF Execute
      <3>3. /\ old' = IF old > 0 THEN old - 1 ELSE 0
            /\ slips' = IF pc # "idle" /\ old > 0 THEN slips + 1 ELSE slips
        BY <2>6 DEF Execute
      <3> QED
        BY <2>0, <3>1, <3>2, <3>3 DEF AnswersInStep, Own
    <2>7. CASE Stray
      <3>1. /\ pc' = pc /\ slips' = slips + 1 /\ evtq' = Append(evtq, 0)
            /\ cmdq' = cmdq /\ old' = old
        BY <2>7 DEF Stray, progVars
      <3>2. Len(evtq') = Len(evtq) + 1
        BY <3>1
      <3>3. Own' = Own /\ Own \in Int
        BY <2>0, <3>1 DEF Own
      <3> QED
        BY <2>0, <3>1, <3>2, <3>3, Lengths DEF AnswersInStep
    <2>8. CASE Aside
      BY <2>8 DEF Aside, AnswersInStep, Own
    <2> QED
      BY StepKinds, <2>1, <2>2, <2>3, <2>4, <2>5, <2>6, <2>7, <2>8
  <1> QED
    BY <1>1, <1>2, TypeCorrect, PTL DEF Spec

\* The blocking read of send_cmd() never waits for an event that cannot come:
\* one is in the socket, or a command is still to be carried out and answered.
THEOREM ReadIsAnswered == Spec => [](pc = "read" => evtq # <<>> \/ cmdq # <<>>)
  <1>1. TypeOK /\ AnswersInStep => (pc = "read" => evtq # <<>> \/ cmdq # <<>>)
    <2> SUFFICES ASSUME TypeOK, AnswersInStep, pc = "read", evtq = <<>>, cmdq = <<>>
                 PROVE  FALSE
      OBVIOUS
    <2>1. Len(evtq) = 0 /\ Len(cmdq) = 0 /\ old = 0 /\ slips \in Nat
      BY DEF TypeOK
    <2> QED
      BY <2>1 DEF AnswersInStep, Own
  <1> QED
    BY <1>1, TypeCorrect, InStep, PTL

-----------------------------------------------------------------------------
(***************************************************************************)
(* What a killed run leaves behind.  The queue is worked off in order, so  *)
(* as long as none of this run's commands has been carried out the first   *)
(* of them, a reset, is still there; and once it has been, only this run's *)
(* commands are left, which can switch on no other run's broadcast.        *)
(***************************************************************************)

\* How the commands of a run lie in the queue, and that its first is a reset.
QueueInv ==
  /\ Own <= sent
  /\ old > 0 => sent = Own
  /\ \A j \in 1 .. Len(cmdq) : cmdq[j].run <= run /\ (j > old => cmdq[j].run = run)
  /\ pc = "read" => sent > 0
  /\ pc = "cmd" /\ sent = 0 => stage = "init" /\ todo # <<>> /\ Head(todo).op = "reset"
  /\ sent = Own /\ sent > 0 => cmdq[old + 1].op = "reset"

\* No broadcast is of a run to come.
RunsInOrder == \A t \in Transports : air[t].run <= run

\* A command that is carried out: a reset silences every transport, and no
\* other command switches on a broadcast of another run than its own.
LEMMA ExecuteAir ==
  ASSUME TypeOK, Execute
  PROVE  /\ Head(cmdq).op = "reset" => \A t \in Transports : ~air'[t].on
         /\ \A t \in Transports :
              \/ air'[t].run = air[t].run /\ (air'[t].on => air[t].on)
              \/ air'[t].run = Head(cmdq).run
  <1> DEFINE c == Head(cmdq)
  <1>1. \A t \in Transports : air[t] \in [on : BOOLEAN, run : Nat, msg : Message]
    BY DEF TypeOK
  <1>2. CASE Allowed(c) /\ c.op # "enable"
    <2>1. air' = [t \in Transports |-> AirAfter(c, t)]
      BY <1>2 DEF Execute
    <2> SUFFICES ASSUME NEW t \in Transports
                 PROVE  /\ c.op = "reset" => ~air'[t].on
                        /\ air'[t].run = air[t].run /\ (air'[t].on => air[t].on)
      BY Zenon
    <2>2. air'[t] = AirAfter(c, t)
      BY <2>1
    <2> HIDE DEF c
    <2> DEFINE a == air[t]
    <2>3. a \in [on : BOOLEAN, run : Nat, msg : Message]
      BY <1>1
    <2>4. AirAfter(c, t) \in { [a EXCEPT !.on = FALSE, !.msg = NoMsg],
                               [a EXCEPT !.on = FALSE], [a EXCEPT !.msg = c.msg], a }
      BY DEF AirAfter
    <2>5. c.op = "reset" => AirAfter(c, t) = [a EXCEPT !.on = FALSE, !.msg = NoMsg]
      BY DEF AirAfter
    <2> HIDE DEF a
    <2>6. /\ c.op = "reset" => ~AirAfter(c, t).on
          /\ AirAfter(c, t).run = a.run /\ (AirAfter(c, t).on => a.on)
      BY <2>3, <2>4, <2>5
    <2> QED
      BY <2>2, <2>6 DEF a
  <1>3. CASE Allowed(c) /\ c.op = "enable"
    <2>1. PICK T \in SUBSET Transports : EnableAfter(c, T)
      BY <1>3 DEF Execute
    <2> SUFFICES ASSUME NEW t \in Transports
                 PROVE  \/ air'[t].run = air[t].run /\ (air'[t].on => air[t].on)
                        \/ air'[t].run = c.run
      BY <1>3, Zenon
    <2>2. air' = [u \in Transports |->
                    IF u \in T /\ ~air[u].on THEN [air[u] EXCEPT !.on = TRUE, !.run = c.run]
                                             ELSE air[u]]
      BY <2>1, Zenon DEF EnableAfter
    <2>3. air'[t] = IF t \in T /\ ~air[t].on THEN [air[t] EXCEPT !.on = TRUE, !.run = c.run]
                                             ELSE air[t]
      BY <2>2, Zenon
    <2> HIDE DEF c
    <2> QED
      BY <1>1, <2>3
  <1>4. CASE ~Allowed(c)
    <2>1. air' = air
      BY <1>4 DEF Execute, adapterVars
    <2>2. c.op # "reset"
      BY <1>4 DEF Allowed, ApiOf
    <2> QED
      BY <2>1, <2>2
  <1> QED
    BY <1>2, <1>3, <1>4

\* The order of the queue is kept by every step.
LEMMA QueueNext == TypeOK /\ QueueInv /\ [Next]_vars => QueueInv'
  <1> SUFFICES ASSUME TypeOK, QueueInv, [Next]_vars PROVE QueueInv'
    OBVIOUS
  <1>0. /\ Len(cmdq) \in Nat /\ old \in 0 .. Len(cmdq) /\ sent \in Nat /\ run \in Nat
        /\ \A j \in 1 .. Len(cmdq) : cmdq[j].run \in Nat
    <2>1. \A j \in 1 .. Len(cmdq) : cmdq[j] \in Command
      BY ElementOfSeq DEF TypeOK
    <2> QED
      BY <2>1, Lengths DEF TypeOK, Command
  <1>a. Own = Len(cmdq) - old /\ Own <= sent /\ (old > 0 => sent = Own)
    BY DEF QueueInv, Own
  <1>1. ASSUME NEW c \in Configs, Start(c) PROVE QueueInv'
    <2>1. /\ pc' = "cmd" /\ sent' = 0 /\ run' = run + 1 /\ stage' = "init"
          /\ old' = Len(cmdq) /\ cmdq' = cmdq /\ todo' = init_bluetooth(c)
      BY <1>1 DEF Start
    <2>2. todo' # <<>> /\ Head(todo').op = "reset"
      BY <2>1, InitList DEF Configs
    <2>3. \A j \in 1 .. Len(cmdq') : cmdq'[j].run <= run' /\ ~(j > old')
      BY <1>0, <2>1 DEF QueueInv
    <2> QED
      BY <1>0, <2>1, <2>2, <2>3 DEF QueueInv, Own
  <1>2. CASE SendCmd
    <2>1. PICK c \in Command : /\ cmdq' = Append(cmdq, c)
                               /\ c.op = Head(todo).op /\ c.run = run
      BY <1>2, SendCmdAppends
    <2>2. /\ Len(cmdq') = Len(cmdq) + 1 /\ cmdq'[Len(cmdq) + 1] = c
          /\ \A j \in 1 .. Len(cmdq) : cmdq'[j] = cmdq[j]
      BY <2>1, AppendProperties DEF TypeOK
    <2>3. /\ pc = "cmd" /\ pc' = "read" /\ sent' = sent + 1
          /\ old' = old /\ run' = run
      BY <1>2 DEF SendCmd
    <2>4. \A j \in 1 .. Len(cmdq') :
            cmdq'[j].run <= run' /\ (j > old' => cmdq'[j].run = run')
      <3> SUFFICES ASSUME NEW j \in 1 .. Len(cmdq) + 1
                   PROVE  cmdq'[j].run <= run /\ (j > old => cmdq'[j].run = run)
        BY <2>2, <2>3
      <3>1. CASE j = Len(cmdq) + 1
        BY <1>0, <2>1, <2>2, <3>1
      <3>2. CASE j \in 1 .. Len(cmdq)
        BY <2>2, <3>2 DEF QueueInv
      <3> QED
        BY <1>0, <3>1, <3>2
    <2>5. sent' = Own' => cmdq'[old' + 1].op = "reset"
      <3> SUFFICES ASSUME sent = Len(cmdq) - old PROVE cmdq'[old + 1].op = "reset"
        BY <1>0, <2>2, <2>3 DEF Own
      <3>1. CASE sent = 0
        <4>1. old + 1 = Len(cmdq) + 1 /\ Head(todo).op = "reset"
          BY <1>0, <2>3, <3>1 DEF QueueInv
        <4> QED
          BY <2>1, <2>2, <4>1
      <3>2. CASE sent > 0
        <4>1. old + 1 \in 1 .. Len(cmdq) /\ cmdq[old + 1].op = "reset"
          BY <1>0, <3>2 DEF QueueInv, Own
        <4> QED
          BY <2>2, <4>1
      <3> QED
        BY <1>0, <3>1, <3>2
    <2>6. Own' = Own + 1
      BY <1>0, <2>2, <2>3 DEF Own
    <2>7. Own' <= sent' /\ (old' > 0 => sent' = Own') /\ sent' > 0
      <3> DEFINE n == Own
                 n1 == Own'
      <3>1. n \in Int /\ n1 = n + 1 /\ n <= sent /\ (old > 0 => sent = n)
        BY <1>0, <1>a, <2>6
      <3> HIDE DEF n, n1
      <3>2. n1 <= sent' /\ (old' > 0 => sent' = n1) /\ sent' > 0
        BY <1>0, <2>3, <3>1
      <3> QED
        BY <3>2 DEF n1
    <2> QED
      BY <2>3, <2>4, <2>5, <2>7 DEF QueueInv
  <1>3. CASE Execute
    <2>1. /\ cmdq # <<>> /\ cmdq' = Tail(cmdq)
          /\ old' = IF old > 0 THEN old - 1 ELSE 0
          /\ UNCHANGED <<pc, stage, todo, run, sent>>
      BY <1>3 DEF Execute, progVars
    <2>2. /\ Len(cmdq') = Len(cmdq) - 1 /\ Len(cmdq) > 0
          /\ \A j \in 1 .. Len(cmdq') : cmdq'[j] = cmdq[j + 1]
      BY <2>1, HeadTailProperties, Lengths DEF TypeOK
    <2>3. \A j \in 1 .. Len(cmdq') :
            cmdq'[j].run <= run' /\ (j > old' => cmdq'[j].run = run')
      BY <1>0, <2>1, <2>2 DEF QueueInv
    <2>4. CASE old > 0
      <3>1. Own' = Own /\ old' + 1 = old /\ sent = Own /\ old \in 1 .. Len(cmdq)
        <4>1. Own' = Len(cmdq') - old'
          BY DEF Own
        <4> QED
          BY <1>0, <1>a, <2>1, <2>2, <2>4, <4>1
      <3>2. sent > 0 => cmdq'[old' + 1].op = "reset"
        <4> SUFFICES ASSUME sent > 0 PROVE cmdq'[old].op = "reset"
          BY <3>1
        <4>1. old \in 1 .. Len(cmdq') /\ cmdq[old + 1].op = "reset"
          BY <1>0, <2>2, <3>1 DEF Own, QueueInv
        <4> QED
          BY <2>2, <4>1
      <3> QED
        BY <1>0, <2>1, <2>3, <3>1, <3>2 DEF QueueInv
    <2>5. CASE old = 0
      <3>1. Own' = Own - 1 /\ old' = 0 /\ Own' < sent
        <4>1. Own' = Len(cmdq') - old'
          BY DEF Own
        <4> QED
          BY <1>0, <1>a, <2>1, <2>2, <2>5, <4>1
      <3> QED
        BY <1>0, <2>1, <2>3, <3>1 DEF QueueInv, Own
    <2> QED
      BY <1>0, <2>4, <2>5
  <1>4. CASE UNCHANGED <<run, sent, cmdq, old>> /\ pc' = "idle"
    BY <1>4 DEF QueueInv, Own
  <1>5. CASE /\ UNCHANGED <<run, sent, cmdq, old>> /\ pc' = "cmd" /\ pc = "read"
    BY <1>0, <1>5 DEF QueueInv, Own
  <1>6. CASE UNCHANGED <<run, sent, cmdq, old, pc, stage, todo>>
    BY <1>6 DEF QueueInv, Own
  <1>7. CASE Aside /\ ~(pc = "cmd" /\ stage = "init" /\ todo # <<>>)
    BY <1>0, <1>7 DEF Aside, QueueInv, Own
  <1>8. \/ \E c \in Configs : Start(c)
        \/ SendCmd \/ Execute
        \/ UNCHANGED <<run, sent, cmdq, old>> /\ pc' = "idle"
        \/ UNCHANGED <<run, sent, cmdq, old>> /\ pc' = "cmd" /\ pc = "read"
        \/ UNCHANGED <<run, sent, cmdq, old, pc, stage, todo>>
        \/ Aside /\ ~(pc = "cmd" /\ stage = "init" /\ todo # <<>>)
    BY StepKinds DEF Gone, ReadEvent, ReadFails, Returned, Stray, Aside, progVars
  <1> QED
    BY <1>1, <1>2, <1>3, <1>4, <1>5, <1>6, <1>7, <1>8

\* The broadcasts after a step are of this run, or the reset is still to come.
LEMMA LeftoverNext ==
  TypeOK /\ QueueInv /\ RunsInOrder /\ LeftoverEndsWithReset /\ [Next]_vars
    => RunsInOrder' /\ LeftoverEndsWithReset'
  <1> SUFFICES ASSUME TypeOK, QueueInv, RunsInOrder, LeftoverEndsWithReset, [Next]_vars
               PROVE  RunsInOrder' /\ LeftoverEndsWithReset'
    OBVIOUS
  <1>0. /\ Len(cmdq) \in Nat /\ old \in 0 .. Len(cmdq) /\ sent \in Nat /\ run \in Nat
        /\ \A t \in Transports : air[t].run \in Nat
    BY Lengths DEF TypeOK
  <1>1. ASSUME NEW c \in Configs, Start(c) PROVE RunsInOrder' /\ LeftoverEndsWithReset'
    <2>1. /\ sent' = 0 /\ run' = run + 1 /\ old' = Len(cmdq) /\ cmdq' = cmdq /\ air' = air
      BY <1>1 DEF Start, adapterVars
    <2> QED
      BY <1>0, <2>1 DEF RunsInOrder, LeftoverEndsWithReset, Own
  <1>2. CASE SendCmd
    <2>1. sent' = sent + 1 /\ run' = run /\ old' = old /\ air' = air
      BY <1>2 DEF SendCmd, adapterVars
    <2>2. Own' = Own + 1
      BY <1>0, <1>2, <2>1, Lengths DEF Own
    <2> QED
      BY <1>0, <2>1, <2>2 DEF RunsInOrder, LeftoverEndsWithReset, Own
  <1>3. CASE Execute
    <2> DEFINE c == Head(cmdq)
    <2>1. /\ cmdq # <<>> /\ cmdq' = Tail(cmdq) /\ run' = run /\ sent' = sent
          /\ old' = IF old > 0 THEN old - 1 ELSE 0
      BY <1>3 DEF Execute, progVars
    <2>2. /\ Len(cmdq') = Len(cmdq) - 1 /\ Len(cmdq) > 0 /\ c = cmdq[1]
      BY <2>1, HeadTailProperties, Lengths DEF TypeOK
    <2>3. c.run <= run /\ (old = 0 => c.run = run)
      BY <1>0, <2>2 DEF QueueInv
    <2>4. \A t \in Transports :
            \/ air'[t].run = air[t].run /\ (air'[t].on => air[t].on)
            \/ air'[t].run = c.run
      BY <1>3, ExecuteAir
    <2>5. RunsInOrder'
      BY <2>1, <2>3, <2>4 DEF RunsInOrder
    <2>6. CASE old > 0
      <3>1. sent = Own /\ Own' = Own
        BY <1>0, <2>1, <2>2, <2>6 DEF QueueInv, Own
      <3> QED
        BY <2>1, <2>5, <3>1 DEF LeftoverEndsWithReset
    <2>7. CASE old = 0 /\ sent = Own
      <3>1. c.op = "reset"
        BY <1>0, <2>2, <2>7 DEF QueueInv, Own
      <3>2. \A t \in Transports : ~air'[t].on
        BY <1>3, <3>1, ExecuteAir
      <3> QED
        BY <2>5, <3>2 DEF LeftoverEndsWithReset
    <2>8. CASE old = 0 /\ sent # Own
      <3>1. \A t \in Transports : air[t].on => ~(air[t].run < run)
        BY <2>8 DEF LeftoverEndsWithReset
      <3>2. \A t \in Transports : air'[t].on => ~(air'[t].run < run)
        BY <1>0, <2>3, <2>4, <2>8, <3>1
      <3> QED
        BY <2>1, <2>5, <3>2 DEF LeftoverEndsWithReset
    <2> QED
      BY <1>0, <2>6, <2>7, <2>8
  <1>4. CASE UNCHANGED <<run, sent, cmdq, old, air>>
    BY <1>4 DEF RunsInOrder, LeftoverEndsWithReset, Own
  <1>5. \/ \E c \in Configs : Start(c)
        \/ SendCmd \/ Execute
        \/ UNCHANGED <<run, sent, cmdq, old, air>>
    BY StepKinds DEF Gone, ReadEvent, ReadFails, Returned, Stray, Aside, progVars, adapterVars
  <1> QED
    BY <1>1, <1>2, <1>3, <1>4, <1>5

\* Whatever a killed run left on the air, and whatever of its commands is still
\* queued when the program is started again, is gone once the first command of
\* the new run has been carried out.
THEOREM LeftoversEnd == Spec => []LeftoverEndsWithReset
  <1> DEFINE I == QueueInv /\ RunsInOrder /\ LeftoverEndsWithReset
  <1>1. Init => I
    <2> SUFFICES ASSUME Init PROVE I
      OBVIOUS
    <2>1. \A t \in Transports : air[t].on = FALSE /\ air[t].run = 0
      BY DEF Init, Silent
    <2>2. Len(cmdq) = 0 /\ old = 0 /\ sent = 0 /\ run = 0 /\ pc = "idle"
      BY DEF Init
    <2> QED
      BY <2>1, <2>2 DEF QueueInv, RunsInOrder, LeftoverEndsWithReset, Own
  <1>2. TypeOK /\ I /\ [Next]_vars => I'
    BY QueueNext, LeftoverNext
  <1> QED
    BY <1>1, <1>2, TypeCorrect, PTL DEF Spec
=============================================================================
