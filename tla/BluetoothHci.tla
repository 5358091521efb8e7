---------------------------- MODULE BluetoothHci ----------------------------
(***************************************************************************)
(* The Bluetooth transmitter of digital_drone (bluetooth.c, and the parts  *)
(* of transmit.c that drive it): HCI commands set up, feed and take down   *)
(* the advertising of one adapter.  send_cmd() hands a command to the      *)
(* adapter's queue and then reads one event, any event, from its socket;   *)
(* what the event says is printed and otherwise ignored.                   *)
(*                                                                         *)
(* The program may be killed at any point, its commands still queued and   *)
(* its broadcast on, and be started again.  The adapter, the kernel's      *)
(* queues and the other programs that use the adapter are external: they   *)
(* are modelled as the transmitter relies on them.                         *)
(***************************************************************************)
EXTENDS Integers, Sequences

CONSTANTS
  Singles,      \* the types of the messages of send_single_messages, in order
  PackRepeats,  \* how often send_packs sends its pack: 10
  MaxPasses,    \* bound: passes of the transmit loop
  MaxRuns,      \* bound: how often the program is started
  MaxSlips      \* bound: foreign events and failed reads in one run

ASSUME HciAssumption ==
  /\ Len(Singles) \in Nat \ {0} /\ DOMAIN Singles = 1 .. Len(Singles)
  /\ Singles[1] # "location"
  /\ PackRepeats \in Nat \ {0}
  /\ MaxPasses \in Nat \ {0}
  /\ MaxRuns \in Nat
  /\ MaxSlips \in Nat

VARIABLES
  pc,           \* "idle" (no program), "cmd", "read" (in send_cmd's read)
  stage,        \* "init", "loop" (its head), "pass", "close"
  config,       \* the options given on the command line
  todo,         \* commands that the present function has still to send
  encoded,      \* the message buffer of send_single_messages
  pass, k,      \* number of the pass; messages sent in it
  num,          \* messages sent in this run
  disp,         \* disposition of SIGINT and SIGTERM
  kill_program,
  closed,       \* the last run ended in close_bluetooth
  run,          \* number of this run of the program
  sent, slips,  \* this run: commands sent; stray events and failed reads
  evtq,         \* events in the program's socket: the command answered, or 0
  cmdq,         \* commands the adapter has still to carry out
  old,          \* how many of them, at the front, are of earlier runs
  api,          \* adapter: the commands that decided its way of advertising
  conf,         \* adapter: set-up of each transport
  air           \* adapter: what each transport broadcasts

progVars == <<pc, stage, config, todo, encoded, pass, k, num, disp,
              kill_program, closed, run, sent>>
queueVars == <<evtq, cmdq, old, slips>>
adapterVars == <<api, conf, air>>
vars == <<progVars, queueVars, adapterVars>>

Options    == {"l", "4", "5", "p", "g"}
Transports == {"l", "4", "5"}

\* parse_command_line, without the Wi-Fi Beacon.
Accepted(c) ==
  /\ c \cap Transports # {}
  /\ ~("l" \in c /\ ("4" \in c \/ "5" \in c))
  /\ ~("p" \in c /\ ("l" \in c \/ "4" \in c))
Configs == {c \in SUBSET Options : Accepted(c)}

-----------------------------------------------------------------------------
(***************************************************************************)
(* Commands.  A message is its number in the run, its type and the pass in *)
(* which it was encoded; "for" is the pass and the type it is sent for.    *)
(***************************************************************************)
Types   == {Singles[j] : j \in DOMAIN Singles} \cup {"pack", "none"}
Content == [type : Types, pass : Nat]
Blank   == [type |-> "none", pass |-> 0]
NoMsg == [num |-> 0, is |-> Blank, for |-> Blank]
Message == [num : Nat, is : Content, for : Content]

Ops == {"reset", "features", "params", "address", "data", "enable", "disable",
        "remove"}
Command == [op : Ops, sets : SUBSET Transports, msg : Message, run : Nat,
            seq : Nat]

Cmd(op, sets) == [op |-> op, sets |-> sets, msg |-> NoMsg, run |-> 0, seq |-> 0]
Data(t, m)    == [Cmd("data", {t}) EXCEPT !.msg = m]

\* Faulty variant: the extended advertising is not disabled.
stop_transmit_legacy_only ==
  <<Cmd("disable", {"l"}), Cmd("remove", {"4"}), Cmd("remove", {"5"})>>

stop_transmit ==
  <<Cmd("disable", {"l"}), Cmd("disable", {"4", "5"}),
    Cmd("remove", {"4"}), Cmd("remove", {"5"})>>

\* Faulty variant: no reset before a transport is set up.
setup_no_reset(t) == <<Cmd("params", {t}), Cmd("address", {t})>>

setup(t) == <<Cmd("reset", {}), Cmd("params", {t}), Cmd("address", {t})>>

If(b, s) == IF b THEN s ELSE <<>>

\* Faulty variant: the adapter is not reset at the start.
init_bluetooth_no_reset(c) ==
  stop_transmit \o <<Cmd("features", {})>>
  \o If("l" \in c, setup("l")) \o If("4" \in c, setup("4")) \o If("5" \in c, setup("5"))
  \o If("l" \in c, <<Cmd("enable", {"l"})>>)
  \o If("4" \in c, <<Cmd("enable", c \cap {"4", "5"})>>)
  \o If("5" \in c, <<Cmd("enable", c \cap {"4", "5"})>>)

init_bluetooth(c) ==
  <<Cmd("reset", {})>> \o stop_transmit \o <<Cmd("features", {})>>
  \o If("l" \in c, setup("l")) \o If("4" \in c, setup("4")) \o If("5" \in c, setup("5"))
  \o If("l" \in c, <<Cmd("enable", {"l"})>>)
  \o If("4" \in c, <<Cmd("enable", c \cap {"4", "5"})>>)
  \o If("5" \in c, <<Cmd("enable", c \cap {"4", "5"})>>)

\* send_bluetooth_message, ..._extended_api and ..._pack.
send_message(c, m) ==
  If("l" \in c, <<Data("l", m)>>) \o If("4" \in c, <<Data("4", m)>>)
  \o If("5" \in c, <<Data("5", m)>>)

Silent == [on |-> FALSE, run |-> 0, msg |-> NoMsg]

Init ==
  /\ pc = "idle" /\ stage = "init" /\ config = {} /\ todo = <<>>
  /\ encoded = Blank /\ pass = 0 /\ k = 0 /\ num = 0
  /\ disp = "default" /\ kill_program = FALSE /\ closed = FALSE
  /\ run = 0 /\ sent = 0 /\ slips = 0
  /\ evtq = <<>> /\ cmdq = <<>> /\ old = 0
  /\ api = "any"
  /\ conf = [t \in Transports |-> "none"]
  /\ air  = [t \in Transports |-> Silent]

-----------------------------------------------------------------------------
(***************************************************************************)
(* The program.                                                            *)
(***************************************************************************)

\* main() up to init_bluetooth: the socket opened by open_hci_device gets the
\* events from now on, answers to commands of a killed run among them.
Start(c) ==
  /\ pc = "idle" /\ run < MaxRuns
  /\ run' = run + 1 /\ sent' = 0 /\ slips' = 0
  /\ config' = c
  /\ pc' = "cmd" /\ stage' = "init" /\ todo' = init_bluetooth(c)
  /\ encoded' = Blank /\ pass' = 0 /\ k' = 0 /\ num' = 0
  /\ disp' = "default" /\ kill_program' = FALSE /\ closed' = FALSE
  /\ evtq' = <<>> /\ old' = Len(cmdq)
  /\ UNCHANGED <<cmdq, adapterVars>>

\* Faulty variant: the command is taken off the list before its answer is read.
SendCmdDrops ==
  /\ pc = "cmd" /\ todo # <<>>
  /\ sent' = sent + 1
  /\ cmdq' = Append(cmdq, [Head(todo) EXCEPT !.run = run, !.seq = sent + 1])
  /\ pc' = "read" /\ todo' = Tail(todo)
  /\ UNCHANGED <<stage, config, encoded, pass, k, num, disp,
                 kill_program, closed, run, evtq, old, slips, adapterVars>>

\* hci_send_cmd: the command is queued, and send_cmd() goes on to its read.
SendCmd ==
  /\ pc = "cmd" /\ todo # <<>>
  /\ sent' = sent + 1
  /\ cmdq' = Append(cmdq, [Head(todo) EXCEPT !.run = run, !.seq = sent + 1])
  /\ pc' = "read"
  /\ UNCHANGED <<stage, config, todo, encoded, pass, k, num, disp,
                 kill_program, closed, run, evtq, old, slips, adapterVars>>

\* The process is gone, by a signal or by exit(); its commands stay queued.
Gone(how) ==
  /\ pc' = "idle" /\ closed' = how
  /\ evtq' = <<>>
  /\ UNCHANGED <<stage, config, todo, encoded, pass, k, num, disp,
                 kill_program, run, sent, cmdq, old, slips, adapterVars>>

\* hci_send_cmd fails: exit(EXIT_FAILURE), without close_bluetooth.
SendFails == pc = "cmd" /\ todo # <<>> /\ Gone(FALSE)

\* send_cmd() returns.
Returned ==
  /\ pc' = "cmd" /\ todo' = Tail(todo)
  /\ UNCHANGED <<stage, config, encoded, pass, k, num, disp, kill_program,
                 closed, run, sent, cmdq, old, adapterVars>>

\* Faulty variant: an event that answers another command is read past.
ReadEventSkipsOthers ==
  /\ pc = "read" /\ evtq # <<>>
  /\ evtq' = Tail(evtq)
  /\ IF Head(evtq) = sent
       THEN Returned /\ UNCHANGED slips
       ELSE UNCHANGED <<progVars, cmdq, old, slips, adapterVars>>

\* Faulty variant: any other event than the answer is left in the socket.
ReadEventOwnOnly ==
  /\ pc = "read" /\ evtq # <<>> /\ Head(evtq) = sent
  /\ evtq' = Tail(evtq)
  /\ Returned
  /\ UNCHANGED slips

\* One event is read, whatever it answers.  Its parameters go into rparam, which
\* has room for those of the program's own commands; what a longer foreign
\* event does there, other than end the process (Signal), is not modelled.
ReadEvent ==
  /\ pc = "read" /\ evtq # <<>>
  /\ evtq' = Tail(evtq)
  /\ Returned
  /\ UNCHANGED slips

\* read() fails: send_cmd() returns, and the answer is still to come.
ReadFails ==
  /\ pc = "read" /\ slips < MaxSlips
  /\ slips' = slips + 1
  /\ Returned
  /\ UNCHANGED evtq

programUnchanged == UNCHANGED <<config, run, sent, closed, queueVars, adapterVars>>

\* main() after init_bluetooth: without 'g' one pass; with 'g' the signals are
\* caught, and the loop entered, or left at once if gpsd cannot be opened.
InitDone ==
  /\ pc = "cmd" /\ stage = "init" /\ todo = <<>>
  /\ disp' = IF "g" \in config THEN "sig_handler" ELSE disp
  /\ \/ "g" \notin config /\ stage' = "pass" /\ pass' = 1 /\ UNCHANGED todo
     \/ "g" \in config /\ stage' = "loop" /\ UNCHANGED <<pass, todo>>
     \/ "g" \in config /\ stage' = "close" /\ todo' = stop_transmit /\ UNCHANGED pass
  /\ UNCHANGED <<pc, encoded, k, num, kill_program>>
  /\ programUnchanged

\* The head of the transmit loop.
NextPass ==
  /\ pc = "cmd" /\ stage = "loop"
  /\ IF kill_program
       THEN stage' = "close" /\ todo' = stop_transmit /\ UNCHANGED <<pass, encoded, k>>
       ELSE /\ pass < MaxPasses
            /\ stage' = "pass" /\ pass' = pass + 1 /\ encoded' = Blank /\ k' = 0
            /\ UNCHANGED todo
  /\ UNCHANGED <<pc, num, disp, kill_program>>
  /\ programUnchanged

InPass == pc = "cmd" /\ stage = "pass" /\ todo = <<>>

\* Faulty variant: a message is left out while the adapter is behind.
TransmitIfCaughtUp(type) ==
  /\ k' = k + 1 /\ num' = num + 1
  /\ todo' = If(cmdq = <<>>, send_message(config,
               [num |-> num + 1, is |-> encoded', for |-> [type |-> type, pass |-> pass]]))
  /\ UNCHANGED <<pc, stage, pass, disp, kill_program>>
  /\ programUnchanged

\* The message in the buffer is sent for a message of the given type.
Transmit(type) ==
  /\ k' = k + 1 /\ num' = num + 1
  /\ todo' = send_message(config,
               [num |-> num + 1, is |-> encoded', for |-> [type |-> type, pass |-> pass]])
  /\ UNCHANGED <<pc, stage, pass, disp, kill_program>>
  /\ programUnchanged

\* Faulty variant: the pack of an earlier pass is sent again.
SendPackOnce ==
  /\ InPass /\ "p" \in config /\ k < PackRepeats
  /\ encoded' = IF num = 0 THEN [type |-> "pack", pass |-> pass] ELSE encoded
  /\ Transmit("pack")

\* send_packs: the pack is made once in a pass (OdidPack models how).
SendPack ==
  /\ InPass /\ "p" \in config /\ k < PackRepeats
  /\ encoded' = [type |-> "pack", pass |-> pass]
  /\ Transmit("pack")

SendSingle ==
  /\ InPass /\ "p" \notin config /\ k < Len(Singles)
  /\ encoded' = [type |-> Singles[k + 1], pass |-> pass]
  /\ Transmit(Singles[k + 1])

\* encodeLocationMessage refuses values from the GPS: the buffer, as the
\* encoder before left it, is sent in the Location's place.
SendUnencoded ==
  /\ InPass /\ "p" \notin config /\ "g" \in config
  /\ k < Len(Singles) /\ Singles[k + 1] = "location"
  /\ UNCHANGED encoded
  /\ Transmit("location")

PassLength == IF "p" \in config THEN PackRepeats ELSE Len(Singles)

PassDone ==
  /\ InPass /\ k = PassLength
  /\ IF "g" \in config THEN stage' = "loop" /\ UNCHANGED todo
                       ELSE stage' = "close" /\ todo' = stop_transmit
  /\ UNCHANGED <<pc, encoded, pass, k, num, disp, kill_program>>
  /\ programUnchanged

\* close_bluetooth has sent its commands: hci_close_dev, exit.  The joins of
\* cleanup() in between return or fault; the run is over either way.
CloseDone == pc = "cmd" /\ stage = "close" /\ todo = <<>> /\ Gone(TRUE)

Program ==
  \/ SendCmd \/ ReadEvent \/ InitDone \/ NextPass
  \/ SendPack \/ SendSingle \/ SendUnencoded \/ PassDone \/ CloseDone

\* A signal ends the process, SIGKILL (whose handler main() cannot set) also
\* after SIGINT and SIGTERM are caught.
Signal ==
  /\ pc # "idle"
  /\ \/ Gone(FALSE)
     \/ /\ disp = "sig_handler" /\ kill_program' = TRUE
        /\ UNCHANGED <<pc, stage, config, todo, encoded, pass, k, num, disp,
                       closed, run, sent, queueVars, adapterVars>>

\* gps_loop gives up (GpsLoop models when).
GpsGivesUp ==
  /\ pc # "idle" /\ disp = "sig_handler"
  /\ kill_program' = TRUE
  /\ UNCHANGED <<pc, stage, config, todo, encoded, pass, k, num, disp, closed,
                 run, sent, queueVars, adapterVars>>

-----------------------------------------------------------------------------
(***************************************************************************)
(* The adapter and its other users.                                        *)
(***************************************************************************)

\* The older and the extended advertising commands exclude each other until
\* the next reset; which of them c belongs to.
ApiOf(c) ==
  IF c.op \in {"reset", "features"} \/ (c.op = "address" /\ c.sets = {"l"}) THEN "any"
  ELSE IF "l" \in c.sets THEN "legacy" ELSE "extended"

Allowed(c) == ApiOf(c) = "any" \/ api \in {"any", ApiOf(c)}

\* What c, carried out, leaves of the set-up and the broadcast of t.
ConfAfter(c, t) ==
  CASE c.op = "reset" -> "none"
    [] c.op = "params"  /\ t \in c.sets -> "params"
    [] c.op = "address" /\ t \in c.sets /\ conf[t] = "params" -> "ready"
    [] c.op = "remove"  /\ t \in c.sets /\ ~air[t].on -> "none"
    [] OTHER -> conf[t]

\* Advertising data is taken to be accepted.  An adapter might refuse the pack
\* with no message in it that follows a failed encoding, since the command is
\* longer than the data it announces; SendPack stands for packs that are filled.
AirAfter(c, t) ==
  CASE c.op = "reset" -> [air[t] EXCEPT !.on = FALSE, !.msg = NoMsg]
    [] c.op = "disable" /\ t \in c.sets -> [air[t] EXCEPT !.on = FALSE]
    [] c.op = "data" /\ t \in c.sets /\ (t = "l" \/ conf[t] # "none")
         -> [air[t] EXCEPT !.msg = c.msg]
    [] OTHER -> air[t]

\* A transport is switched on only with parameters and an address.  The command
\* for two sets is not laid out as the HCI specification has it (buf[2] and
\* buf[3] of bluetooth.c:325): any of the sets named may result.
EnableAfter(c, T) ==
  /\ T \subseteq {t \in c.sets : conf[t] = "ready"}
  /\ (\E t \in Transports : c.sets = {t} /\ conf[t] = "ready") => T = c.sets
  /\ air' = [t \in Transports |->
               IF t \in T /\ ~air[t].on THEN [air[t] EXCEPT !.on = TRUE, !.run = c.run]
                                        ELSE air[t]]

\* A command of the queue is carried out, or refused, and answered.
Execute ==
  /\ cmdq # <<>>
  /\ LET c == Head(cmdq)
     IN  /\ \/ /\ Allowed(c) /\ c.op # "enable"
               /\ conf' = [t \in Transports |-> ConfAfter(c, t)]
               /\ air'  = [t \in Transports |-> AirAfter(c, t)]
               /\ api' = IF c.op = "reset" THEN "any"
                         ELSE IF ApiOf(c) = "any" THEN api ELSE ApiOf(c)
            \/ /\ Allowed(c) /\ c.op = "enable"
               /\ \E T \in SUBSET Transports : EnableAfter(c, T)
               /\ api' = ApiOf(c) /\ UNCHANGED conf
            \/ ~Allowed(c) /\ UNCHANGED adapterVars
         /\ evtq' = IF pc = "idle" THEN evtq
                    ELSE Append(evtq, IF old > 0 THEN 0 ELSE c.seq)
  /\ cmdq' = Tail(cmdq)
  /\ old' = IF old > 0 THEN old - 1 ELSE 0
  /\ slips' = IF pc # "idle" /\ old > 0 THEN slips + 1 ELSE slips
  /\ UNCHANGED progVars

\* An event that is no answer to this program: hci_filter_all_events.
Stray ==
  /\ pc # "idle" /\ slips < MaxSlips
  /\ slips' = slips + 1
  /\ evtq' = Append(evtq, 0)
  /\ UNCHANGED <<progVars, cmdq, old, adapterVars>>

-----------------------------------------------------------------------------
Next ==
  \/ \E c \in Configs : Start(c)
  \/ Program \/ SendFails \/ ReadFails \/ Signal \/ GpsGivesUp
  \/ Execute \/ Stray

Spec == Init /\ [][Next]_vars

\* The program runs and the adapter works off its queue; nothing forces
\* signals, failures, foreign events or a new start.
FairSpec == Spec /\ WF_vars(Program) /\ WF_vars(Execute)

-----------------------------------------------------------------------------
(***************************************************************************)
(* Properties.                                                             *)
(***************************************************************************)

\* Every variable holds a value of its type.
TypeOK ==
  /\ pc \in {"idle", "cmd", "read"}
  /\ stage \in {"init", "loop", "pass", "close"}
  /\ config \in SUBSET Options
  /\ todo \in Seq(Command) /\ (pc = "read" => todo # <<>>)
  /\ encoded \in Content
  /\ pass \in Nat /\ k \in Nat /\ num \in Nat
  /\ disp \in {"default", "sig_handler"}
  /\ kill_program \in BOOLEAN /\ closed \in BOOLEAN
  /\ run \in Nat /\ sent \in Nat /\ slips \in Nat
  /\ evtq \in Seq(Nat)
  /\ cmdq \in Seq(Command) /\ old \in 0 .. Len(cmdq)
  /\ api \in {"any", "legacy", "extended"}
  /\ conf \in [Transports -> {"none", "params", "ready"}]
  /\ air \in [Transports -> [on : BOOLEAN, run : Nat, msg : Message]]

\* Commands of this run that are still to be carried out.
Own == Len(cmdq) - old

\* Answers and commands keep step: every stray event and every failed read puts
\* the program one event behind, for the rest of the run and no more; so the
\* read of send_cmd(), which has no timeout, always has an answer to come.
AnswersInStep ==
  pc # "idle" => Len(evtq) + Own = slips + (IF pc = "read" THEN 1 ELSE 0)

\* close_bluetooth() silences the adapter, in each mode, although half of the
\* commands of stop_transmit() are refused there and no answer is looked at.
OffAfterClose ==
  closed /\ cmdq = <<>> => \A t \in Transports : ~air[t].on

\* What a killed run left on the air is gone once the first command of the
\* next run, the reset, has been carried out.
LeftoverEndsWithReset ==
  \A t \in Transports : air[t].on /\ air[t].run < run => sent = Own

\* Between two messages, once the adapter has caught up, every transport asked
\* for broadcasts the last message sent (but for '4' and '5' together, where
\* the reset of the one undoes the set-up of the other).
LastSentIsOnAir ==
  InPass /\ cmdq = <<>> /\ ~({"4", "5"} \subseteq config) =>
    \A t \in config \cap Transports :
      air[t].on /\ air[t].run = run /\ air[t].msg.num = num

\* A message on the air was encoded in the pass in which it was sent: where an
\* encoder fails, what takes its place is not out of date.
NothingStaleOnAir ==
  \A t \in Transports : air[t].on => air[t].msg.is.pass = air[t].msg.for.pass

\* Once a run has but one pass to make, or has been told to end, it ends: no
\* read waits for ever, whatever events were read before.
RunEnds ==
  pc # "idle" /\ ("g" \notin config \/ kill_program) ~> pc = "idle"

OnAir == INSTANCE Broadcast WITH
           on  <- [t \in Transports |-> air[t].on],
           run <- [t \in Transports |-> air[t].run],
           num <- [t \in Transports |-> IF air[t].on THEN air[t].msg.num ELSE 0]

\* The transmitter, with its queues, strays, kills and restarts, implements a
\* broadcast that shows the messages of one run after another, in order.
ImplementsBroadcast == OnAir!Spec
=============================================================================
