--------------------------- MODULE BeaconSession ---------------------------
(***************************************************************************)
(* The Wi-Fi Beacon transmitter of digital_drone: the main thread          *)
(* (transmit.c, wifi_beacon.c) hands its messages to hostapd through the    *)
(* control connection that a second thread (ap_interface.c) opens, watches *)
(* with PINGs, and re-opens.  Both threads send requests on, and read      *)
(* replies from, the same socket, and a counting semaphore is posted when  *)
(* a request returns, whoever made it.  A third thread reads the GPS.      *)
(*                                                                         *)
(* hostapd and the kernel's socket queues are external: they are modelled  *)
(* as the transmitter sees them.                                           *)
(***************************************************************************)
EXTENDS Integers, Sequences

CONSTANTS
    Rounds,     \* messages per pass: 9 single messages, or 10 sends of a pack
    UseGps,     \* the 'g' option: transmit until kill_program is set
    QueueLen,   \* datagrams a socket queue holds
    MaxStops,   \* how often hostapd may be stopped (it is always restarted)
    MaxSignals, \* how often SIGINT/SIGTERM may be sent
    SlowHostapd,\* hostapd may take more than ten seconds to serve a request
    MaxSem      \* bound: no PING is sent while the semaphore has this value,
                \* but for the one the event loop may send before it ends

ASSUME BeaconAssumption ==
    /\ Rounds \in Nat \ {0}
    /\ UseGps \in BOOLEAN
    /\ QueueLen \in Nat \ {0}
    /\ MaxStops \in Nat
    /\ MaxSignals \in Nat
    /\ SlowHostapd \in BOOLEAN
    /\ MaxSem \in Nat \ {0}

VARIABLES
    sem,       \* the value of "semaphore"
    ctrl_conn, \* the control connection: "null", "open", or "dead" once the
               \* hostapd it was opened to is gone
    attached,  \* hostapd_cli_attached: the event handler is registered
    mpc,       \* main thread: where it is
    msg,       \* main thread: number of the message being transmitted
    cmd,       \* main thread: the command being executed
    mctrl,     \* main thread: the connection its request was given
    mret,      \* main thread: how the last request ended
    apc,       \* ap_interface thread: where it is
    areq,      \* ap_interface thread: its own request in progress
    phase,     \* ap_interface thread: connecting, running or leaving
    terminate, \* eloop.terminate
    pending,   \* eloop.pending_terminate: a signal waits for the event loop
    disp,      \* the disposition of SIGINT and SIGTERM
    kill_program,
    gpc,       \* gps_loop thread
    up,        \* hostapd is running
    inq,       \* requests queued at hostapd's socket
    outq,      \* replies queued at the transmitter's socket
    staged,    \* hostapd: message in vendor_elements, 0 for the configured one
    live,      \* hostapd: message being broadcast
    lost,      \* some command was dropped, refused or given a dead connection
    stops, signals

sessionVars == <<sem, ctrl_conn, attached>>
mainVars == <<mpc, msg, cmd, mctrl, mret, lost>>
apVars == <<apc, areq, phase, terminate>>
signalVars == <<pending, disp, kill_program, signals>>
hostapdVars == <<up, inq, outq, staged, live, stops>>
vars == <<sessionVars, mainVars, apVars, signalVars, hostapdVars, gpc>>

Commands == {"SET", "UPDATE_BEACON", "QUIT"}
ApRequests == {"none", "ATTACH", "STA-FIRST", "STA-NEXT", "PING", "DETACH"}
Replies == {"OK", "PONG", "EMPTY", "FAIL"}

(* The states in which the process no longer runs: a normal exit, an exit  *)
(* forced by a signal, or a fault after the use of a dead connection.       *)
over == mpc \in {"exited", "killed", "crashed"}

(* A datagram put into a socket queue, if it has room.                      *)
Room(q) == Len(q) < QueueLen

(* A request times out, or finds that the other thread has just read the     *)
(* reply: nothing is readable, nor will be unless hostapd is slow.          *)
NoReply ==
    /\ outq = <<>>
    /\ SlowHostapd \/ \A k \in DOMAIN inq : ~inq[k].open

(* What hostapd is asked: open says that the asker's socket still exists.   *)
Message == [req : Commands \cup ApRequests, num : 1..Rounds, open : BOOLEAN]
Request(r) == [req |-> r, num |-> msg, open |-> TRUE]

Init ==
    /\ sem = 0 /\ ctrl_conn = "null" /\ attached = FALSE
    /\ mpc = "connecting" /\ msg = 1 /\ cmd = "SET"
    /\ mctrl = "null" /\ mret = "none" /\ lost = FALSE
    /\ apc = "open" /\ areq = "none" /\ phase = "init" /\ terminate = FALSE
    /\ pending = FALSE /\ disp = "default" /\ kill_program = FALSE
    /\ signals = 0
    /\ up = FALSE /\ inq = <<>> /\ outq = <<>>
    /\ staged = 0 /\ live = 0 /\ stops = 0
    /\ gpc = "none"

-----------------------------------------------------------------------------
(* The main thread.                                                        *)

(* main: the sem_wait that follows pthread_create of ap_interface_init.     *)
MainConnected ==
    /\ mpc = "connecting" /\ sem > 0
    /\ sem' = sem - 1
    /\ mpc' = IF UseGps THEN "setup" ELSE "call"
    /\ UNCHANGED <<ctrl_conn, attached, msg, cmd, mctrl, mret, lost, apVars,
                   signalVars, hostapdVars, gpc>>

(* main with 'g': take over the signals, then open gpsd and start gps_loop, *)
(* or clean up if gpsd cannot be opened.                                    *)
GpsSetup ==
    /\ mpc = "setup"
    /\ disp' = "sig_handler"
    /\ \/ mpc' = "loop" /\ gpc' = "run"
       \/ mpc' = "quit" /\ UNCHANGED gpc
    /\ UNCHANGED <<sessionVars, msg, cmd, mctrl, mret, lost, apVars, pending,
                   kill_program, signals, hostapdVars>>

(* main with 'g': the test at the head of the transmit loop.                *)
NextRound ==
    /\ mpc = "loop"
    /\ mpc' = IF kill_program THEN "quit" ELSE "call"
    /\ msg' = 1 /\ cmd' = "SET"
    /\ UNCHANGED <<sessionVars, mctrl, mret, lost, apVars, signalVars,
                   hostapdVars, gpc>>

(* wpa_request(ctrl_conn, ...): the argument is read before the test.       *)
Call ==
    /\ mpc = "call"
    /\ mctrl' = IF ctrl_conn = "null" THEN "null" ELSE "cur"
    /\ mpc' = "check"
    /\ UNCHANGED <<sessionVars, msg, cmd, mret, lost, apVars, signalVars,
                   hostapdVars, gpc>>

(* _wpa_ctrl_command: without a connection the command is dropped, and the  *)
(* semaphore is not posted.                                                 *)
Check ==
    /\ mpc = "check"
    /\ IF ctrl_conn = "null"
       THEN mpc' = "wait" /\ mret' = "dropped" /\ lost' = TRUE
       ELSE mpc' = "send" /\ UNCHANGED <<mret, lost>>
    /\ UNCHANGED <<sessionVars, msg, cmd, mctrl, apVars, signalVars,
                   hostapdVars, gpc>>

(* Faulty variant: a full queue at hostapd is not noticed.                  *)
SendIgnoresFull ==
    /\ mpc = "send" /\ mctrl = "cur" /\ ctrl_conn = "open"
    /\ inq' = Append(inq, Request(cmd))
    /\ mpc' = "reply"
    /\ UNCHANGED <<sessionVars, msg, cmd, mctrl, mret, lost, apVars,
                   signalVars, up, outq, staged, live, stops, gpc>>

(* wpa_ctrl_request: send.                                                  *)
Send ==
    /\ mpc = "send" /\ mctrl = "cur" /\ ctrl_conn = "open" /\ Room(inq)
    /\ inq' = Append(inq, Request(cmd))
    /\ mpc' = "reply"
    /\ UNCHANGED <<sessionVars, msg, cmd, mctrl, mret, lost, apVars,
                   signalVars, up, outq, staged, live, stops, gpc>>

(* Faulty variant: the semaphore is posted behind the error returns.        *)
ReturnPostsOnSuccess(how) ==
    /\ sem' = IF how = "replied" THEN sem + 1 ELSE sem
    /\ mret' = how
    /\ mpc' = "wait"
    /\ UNCHANGED <<ctrl_conn, attached, msg, cmd, mctrl, apVars, signalVars,
                   up, inq, staged, live, stops, gpc>>

(* The request has ended; _wpa_ctrl_command posts whatever its result was.  *)
Return(how) ==
    /\ sem' = sem + 1
    /\ mret' = how
    /\ mpc' = "wait"
    /\ UNCHANGED <<ctrl_conn, attached, msg, cmd, mctrl, apVars, signalVars,
                   up, inq, staged, live, stops, gpc>>

(* send fails: hostapd is gone, or its queue stayed full.                   *)
SendFails ==
    /\ mpc = "send" /\ mctrl = "cur" /\ (ctrl_conn = "dead" \/ ~Room(inq))
    /\ Return("failed")
    /\ lost' = TRUE
    /\ UNCHANGED outq

(* recv returns the oldest reply in the socket, whatever it answers.        *)
Receive ==
    /\ mpc = "reply" /\ mctrl = "cur" /\ outq # <<>>
    /\ outq' = Tail(outq)
    /\ Return("replied")
    /\ UNCHANGED lost

(* Ten seconds without a reply, or the other thread read it first.          *)
ReceiveFails ==
    /\ mpc = "reply" /\ mctrl = "cur" /\ NoReply
    /\ Return("failed")
    /\ UNCHANGED <<lost, outq>>

(* The request uses a connection the other thread has closed since it was   *)
(* read: undefined, it fails or the program faults.  A NULL one faults.     *)
UseClosed ==
    /\ mpc \in {"send", "reply"} /\ mctrl # "cur"
    /\ lost' = TRUE
    /\ \/ mctrl = "stale" /\ Return("failed") /\ UNCHANGED outq
       \/ /\ mpc' = "crashed"
          /\ UNCHANGED <<sessionVars, msg, cmd, mctrl, mret, apVars,
                         signalVars, hostapdVars, gpc>>

(* Faulty variant: the last message is set but the beacon is not updated.   *)
AdvanceSkipsUpdate ==
    \/ /\ cmd = "SET" /\ msg < Rounds
       /\ cmd' = "UPDATE_BEACON" /\ mpc' = "call" /\ msg' = msg
    \/ /\ cmd = "UPDATE_BEACON"
       /\ cmd' = "SET" /\ mpc' = "call" /\ msg' = msg + 1
    \/ /\ cmd = "SET" /\ msg = Rounds
       /\ mpc' = IF UseGps THEN "loop" ELSE "quit"
       /\ UNCHANGED <<cmd, msg>>

(* What follows a command: send_beacon_message and send_beacon_message_pack *)
(* send "set" and then "update_beacon"; send_single_messages and send_packs *)
(* go on to the next message.                                               *)
Advance ==
    \/ /\ cmd = "SET"
       /\ cmd' = "UPDATE_BEACON" /\ mpc' = "call" /\ msg' = msg
    \/ /\ cmd = "UPDATE_BEACON" /\ msg < Rounds
       /\ cmd' = "SET" /\ mpc' = "call" /\ msg' = msg + 1
    \/ /\ cmd = "UPDATE_BEACON" /\ msg = Rounds
       /\ mpc' = IF UseGps THEN "loop" ELSE "quit"
       /\ UNCHANGED <<cmd, msg>>

(* The sem_wait after wpa_request.                                          *)
Wait ==
    /\ mpc = "wait" /\ sem > 0
    /\ sem' = sem - 1
    /\ Advance
    /\ UNCHANGED <<ctrl_conn, attached, mctrl, mret, lost, apVars, signalVars,
                   hostapdVars, gpc>>

(* Faulty variant: the quit handler leaves the event loop running.          *)
QuitKeepsLoop ==
    /\ mpc = "quit"
    /\ cmd' = "QUIT" /\ mret' = "replied"
    /\ sem' = sem + 1
    /\ mpc' = "quitwait"
    /\ UNCHANGED <<ctrl_conn, attached, msg, mctrl, lost, apVars, signalVars,
                   hostapdVars, gpc>>

(* cleanup: send_quit, whose handler runs in this thread.                   *)
Quit ==
    /\ mpc = "quit"
    /\ cmd' = "QUIT" /\ mret' = "replied"
    /\ terminate' = TRUE
    /\ sem' = sem + 1
    /\ mpc' = "quitwait"
    /\ UNCHANGED <<ctrl_conn, attached, msg, mctrl, lost, apc, areq, phase,
                   signalVars, hostapdVars, gpc>>

QuitWait ==
    /\ mpc = "quitwait" /\ sem > 0
    /\ sem' = sem - 1
    /\ mpc' = "join"
    /\ UNCHANGED <<ctrl_conn, attached, msg, cmd, mctrl, mret, lost, apVars,
                   signalVars, hostapdVars, gpc>>

(* cleanup: join the ap_interface thread, then the GPS thread.  Joining a   *)
(* thread that was never created is undefined.                              *)
Join ==
    /\ \/ /\ mpc = "join" /\ apc = "done"
          /\ mpc' = IF UseGps THEN "joingps" ELSE "exited"
       \/ mpc = "joingps" /\ gpc = "done" /\ mpc' = "exited"
       \/ mpc = "joingps" /\ gpc = "none" /\ mpc' \in {"exited", "crashed"}
    /\ UNCHANGED <<sessionVars, msg, cmd, mctrl, mret, lost, apVars,
                   signalVars, hostapdVars, gpc>>

-----------------------------------------------------------------------------
(* The ap_interface thread.                                                *)

(* hostapd_cli_reconnect: open the connection and attach.                   *)
Open ==
    /\ up
    /\ ctrl_conn' = "open"
    /\ areq' = "ATTACH" /\ apc' = "send"

(* ap_interface_init: try until hostapd is there.                           *)
ApOpen ==
    /\ apc = "open" /\ Open
    /\ UNCHANGED <<sem, attached, mainVars, phase, terminate, signalVars,
                   hostapdVars, gpc>>

(* Faulty variant: a lost connection is given up.                           *)
ApReopenNever ==
    /\ apc = "reopen"
    /\ apc' = "top"
    /\ UNCHANGED <<sessionVars, areq, mainVars, phase, terminate, signalVars,
                   hostapdVars, gpc>>

(* hostapd_cli_ping: one attempt to re-open; the next is one PING later.    *)
ApReopen ==
    /\ apc = "reopen"
    /\ IF up THEN Open
             ELSE apc' = "top" /\ UNCHANGED <<ctrl_conn, areq>>
    /\ UNCHANGED <<sem, attached, mainVars, phase, terminate, signalVars,
                   hostapdVars, gpc>>

(* wpa_ctrl_request, as the other thread calls it.                          *)
ApSend ==
    /\ apc = "send" /\ ctrl_conn = "open" /\ Room(inq)
    /\ inq' = Append(inq, Request(areq))
    /\ apc' = "reply"
    /\ UNCHANGED <<sessionVars, mainVars, areq, phase, terminate, signalVars,
                   up, outq, staged, live, stops, gpc>>

(* hostapd_cli_reconnect returns, to ap_interface_init, which posts, or to  *)
(* hostapd_cli_ping, which reads what is pending; q is what is queued.      *)
Connected(q) ==
    /\ areq' = "none"
    /\ \/ /\ phase = "init"
          /\ sem' = sem + 1 /\ apc' = "interactive" /\ outq' = q
       \/ /\ phase = "run"
          /\ sem' = sem /\ apc' = "top" /\ outq' = <<>>

(* The request areq ended with the reply res, or with "error".              *)
ApResult(res, q) ==
    \/ /\ areq = "ATTACH" /\ res = "OK"
       /\ attached' = TRUE /\ areq' = "STA-FIRST" /\ apc' = "send"
       /\ outq' = q /\ UNCHANGED sem
    \/ areq = "ATTACH" /\ res # "OK" /\ Connected(q) /\ UNCHANGED attached
    \/ /\ areq \in {"STA-FIRST", "STA-NEXT"} /\ res \notin {"FAIL", "error"}
       /\ areq' = "STA-NEXT" /\ apc' = "send" /\ outq' = q
       /\ UNCHANGED <<sem, attached>>
    \/ /\ areq \in {"STA-FIRST", "STA-NEXT"} /\ res \in {"FAIL", "error"}
       /\ Connected(q) /\ UNCHANGED attached
    \/ /\ areq = "PING"
       /\ sem' = sem + 1 /\ areq' = "none"
       /\ IF res = "error" THEN apc' = "close" /\ outq' = q
                           ELSE apc' = "top" /\ outq' = <<>>
       /\ UNCHANGED attached
    \/ /\ areq = "DETACH"
       /\ areq' = "none" /\ apc' = "shut" /\ outq' = q
       /\ UNCHANGED <<sem, attached>>

apResultUnchanged == UNCHANGED <<ctrl_conn, mainVars, phase, terminate,
                                 signalVars, up, inq, staged, live, stops, gpc>>

ApReceive ==
    /\ apc = "reply" /\ outq # <<>>
    /\ ApResult(Head(outq), Tail(outq))
    /\ apResultUnchanged

ApFails ==
    /\ \/ apc = "send" /\ (ctrl_conn = "dead" \/ ~Room(inq))
       \/ apc = "reply" /\ NoReply
    /\ ApResult("error", outq)
    /\ apResultUnchanged

(* hostapd_cli_interactive: the event loop takes the signals.               *)
Interactive ==
    /\ apc = "interactive"
    /\ phase' = "run" /\ disp' = "eloop" /\ apc' = "top"
    /\ UNCHANGED <<sessionVars, mainVars, areq, terminate, pending,
                   kill_program, signals, hostapdVars, gpc>>

(* The head of the event loop: end, take a pending signal, or sleep.        *)
Top ==
    /\ apc = "top"
    /\ pending' = (pending /\ terminate)
    /\ terminate' = FALSE
    /\ IF terminate \/ pending
       THEN apc' = "close" /\ phase' = "leave"
       ELSE apc' = "eloop" /\ UNCHANGED phase
    /\ UNCHANGED <<sessionVars, mainVars, areq, disp, kill_program, signals,
                   hostapdVars, gpc>>

(* The event loop wakes up: signals first, then the PING timer ...          *)
PingTimer ==
    /\ apc = "eloop"
    /\ sem < MaxSem \/ terminate \/ pending \/ ctrl_conn = "null"
    /\ terminate' = (terminate \/ pending) /\ pending' = FALSE
    /\ IF ctrl_conn = "null" THEN apc' = "reopen" /\ UNCHANGED areq
                             ELSE apc' = "send" /\ areq' = "PING"
    /\ UNCHANGED <<sessionVars, mainVars, phase, disp, kill_program, signals,
                   hostapdVars, gpc>>

(* ... or the registered socket: what is readable is read and printed.      *)
HandleEvent ==
    /\ apc = "eloop"
    /\ \/ pending /\ UNCHANGED outq
       \/ attached /\ outq # <<>> /\ outq' = <<>>
    /\ terminate' = (terminate \/ pending) /\ pending' = FALSE
    /\ apc' = "top"
    /\ UNCHANGED <<sessionVars, mainVars, areq, phase, disp, kill_program,
                   signals, up, inq, staged, live, stops, gpc>>

(* hostapd_cli_close_connection, called with and without a connection.      *)
Close ==
    /\ apc = "close"
    /\ \/ ctrl_conn = "null" /\ apc' = "done" /\ UNCHANGED areq
       \/ ctrl_conn # "null" /\ ~attached /\ apc' = "shut" /\ UNCHANGED areq
       \/ ctrl_conn # "null" /\ attached /\ apc' = "send" /\ areq' = "DETACH"
    /\ UNCHANGED <<sessionVars, mainVars, phase, terminate, signalVars,
                   hostapdVars, gpc>>

(* wpa_ctrl_close: the socket and what is queued in it are gone, and replies *)
(* to requests still queued at hostapd have nowhere to go.                  *)
Shut ==
    /\ apc = "shut"
    /\ ctrl_conn' = "null" /\ attached' = FALSE
    /\ outq' = <<>>
    /\ inq' = [k \in DOMAIN inq |-> [inq[k] EXCEPT !.open = FALSE]]
    /\ mctrl' = IF mctrl = "cur" THEN "stale" ELSE mctrl
    /\ apc' = IF phase = "leave" THEN "done" ELSE "reopen"
    /\ UNCHANGED <<sem, mpc, msg, cmd, mret, lost, areq, phase, terminate,
                   signalVars, up, staged, live, stops, gpc>>

-----------------------------------------------------------------------------
(* Signals and the GPS thread.                                             *)

Signal ==
    /\ signals < MaxSignals
    /\ signals' = signals + 1
    /\ mpc' = IF disp = "default" THEN "killed" ELSE mpc
    /\ pending' = (pending \/ disp = "eloop")
    /\ kill_program' = (kill_program \/ disp = "sig_handler")
    /\ UNCHANGED <<sessionVars, msg, cmd, mctrl, mret, lost, apVars, disp,
                   hostapdVars, gpc>>

(* eloop_handle_alarm: two seconds after the signal the event loop has not   *)
(* come to it, held up by a request, by the closing of the connection or by *)
(* the scheduler.                                                           *)
Alarm ==
    /\ pending
    /\ mpc' = "killed"
    /\ UNCHANGED <<sessionVars, msg, cmd, mctrl, mret, lost, apVars,
                   signalVars, hostapdVars, gpc>>

(* Faulty variant: the thread gives up without stopping the transmission.   *)
GpsGivesUpAlone ==
    /\ gpc = "run"
    /\ gpc' = "done"
    /\ UNCHANGED <<sessionVars, mainVars, apVars, signalVars, hostapdVars>>

(* gps_loop gives up after too many failures (GpsLoop models when).         *)
GpsGivesUp ==
    /\ gpc = "run"
    /\ kill_program' = TRUE
    /\ gpc' = "done"
    /\ UNCHANGED <<sessionVars, mainVars, apVars, pending, disp, signals,
                   hostapdVars>>

GpsStops ==
    /\ gpc = "run" /\ kill_program
    /\ gpc' = "done"
    /\ UNCHANGED <<sessionVars, mainVars, apVars, signalVars, hostapdVars>>

-----------------------------------------------------------------------------
(* hostapd.                                                                *)

Answer(r) ==
    CASE r = "PING" -> "PONG"
      [] r = "STA-FIRST" -> "EMPTY"
      [] r = "STA-NEXT" -> "FAIL"
      [] OTHER -> "OK"

(* One request is carried out and answered; sending an answer waits until   *)
(* the asker's socket has room.                                             *)
Serve ==
    /\ up /\ inq # <<>>
    /\ LET r == Head(inq)
           answered == r.open /\ ~over
       IN  /\ answered => Room(outq)
           /\ outq' = IF answered THEN Append(outq, Answer(r.req)) ELSE outq
           /\ staged' = IF r.req = "SET" THEN r.num ELSE staged
           /\ live' = IF r.req = "UPDATE_BEACON" THEN staged ELSE live
    /\ inq' = Tail(inq)
    /\ UNCHANGED <<sessionVars, mainVars, apVars, signalVars, up, stops, gpc>>

Stop ==
    /\ up /\ stops < MaxStops
    /\ stops' = stops + 1
    /\ up' = FALSE /\ inq' = <<>> /\ staged' = 0 /\ live' = 0
    /\ ctrl_conn' = IF ctrl_conn = "open" THEN "dead" ELSE ctrl_conn
    /\ UNCHANGED <<sem, attached, mainVars, apVars, signalVars, outq, gpc>>

Start ==
    /\ ~up
    /\ up' = TRUE
    /\ UNCHANGED <<sessionVars, mainVars, apVars, signalVars, inq, outq,
                   staged, live, stops, gpc>>

-----------------------------------------------------------------------------
Main ==
    /\ ~over
    /\ \/ MainConnected \/ GpsSetup \/ NextRound
       \/ Call \/ Check \/ Send \/ SendFails \/ Receive \/ ReceiveFails
       \/ UseClosed \/ Wait \/ Quit \/ QuitWait \/ Join

Ap ==
    /\ ~over
    /\ \/ ApOpen \/ ApReopen \/ ApSend \/ ApReceive \/ ApFails
       \/ Interactive \/ Top \/ PingTimer \/ HandleEvent \/ Close \/ Shut

Gps == ~over /\ (GpsGivesUp \/ GpsStops)

Signals == ~over /\ (Signal \/ Alarm)

Next == Main \/ Ap \/ Gps \/ Signals \/ Serve \/ Stop \/ Start

Spec == Init /\ [][Next]_vars

(* Every thread of a running process is scheduled, hostapd serves its queue *)
(* and is started again after every stop.                                   *)
Fairness ==
    /\ WF_vars(Main) /\ WF_vars(Ap) /\ WF_vars(~over /\ GpsStops)
    /\ WF_vars(Serve) /\ WF_vars(Start)

FairSpec == Spec /\ Fairness

-----------------------------------------------------------------------------
(* Properties.                                                             *)

(* Every variable holds a value of its type.                                *)
TypeOK ==
    /\ sem \in Nat /\ attached \in BOOLEAN
    /\ ctrl_conn \in {"null", "open", "dead"}
    /\ mpc \in {"connecting", "setup", "loop", "call", "check", "send",
                "reply", "wait", "quit", "quitwait", "join", "joingps",
                "exited", "killed", "crashed"}
    /\ msg \in 1..Rounds /\ cmd \in Commands
    /\ mctrl \in {"null", "cur", "stale"}
    /\ mret \in {"none", "dropped", "failed", "replied"}
    /\ apc \in {"open", "reopen", "send", "reply", "interactive", "top",
                "eloop", "close", "shut", "done"}
    /\ areq \in ApRequests
    /\ phase \in {"init", "run", "leave"} /\ terminate \in BOOLEAN
    /\ pending \in BOOLEAN /\ kill_program \in BOOLEAN
    /\ disp \in {"default", "eloop", "sig_handler"}
    /\ gpc \in {"none", "run", "done"}
    /\ up \in BOOLEAN /\ lost \in BOOLEAN
    /\ inq \in Seq(Message)
    /\ outq \in Seq(Replies)
    /\ Len(inq) <= QueueLen /\ Len(outq) <= QueueLen
    /\ staged \in 0..Rounds /\ live \in 0..Rounds
    /\ stops \in 0..MaxStops /\ signals \in 0..MaxSignals

(* The main thread is held up in sem_wait only before the first connection  *)
(* or after a dropped command: a command that reached wpa_ctrl_request, in  *)
(* whatever way it ended, never leaves it waiting, although the posts of    *)
(* PINGs and of commands are not told apart.                                *)
NoLostWakeup ==
    /\ mpc \in {"wait", "quitwait"} /\ sem = 0 => mret = "dropped"
    /\ mpc = "connecting" /\ sem = 0 =>
           phase = "init" /\ apc # "interactive"

(* If hostapd was never stopped, nothing was dropped or refused, and the    *)
(* program ended by itself, then what stays on the air, once hostapd has    *)
(* carried out what is queued, is the last message: replies read by the     *)
(* wrong thread and timeouts may mislead the transmitter about when a       *)
(* command was carried out, not about whether it is.                        *)
LastMessageStaysOnAir ==
    mpc = "exited" /\ ~lost /\ stops = 0 /\ inq = <<>> /\ ~UseGps =>
        live = Rounds

(* Without signals, a transmission without 'g' comes to its end, however    *)
(* often hostapd is stopped and started again: the PINGs of the other       *)
(* thread release a main thread whose command was dropped.                  *)
Finishes == <>over

(* Once cleanup has begun the process ends: the quit command always stops   *)
(* the event loop, and the joins return.                                    *)
CleanupFinishes == mpc = "quit" ~> over

(* When the GPS thread ends, the transmission ends, unless a signal came:   *)
(* one that reaches the event loop instead of sig_handler may close the     *)
(* connection under the main thread for good.                               *)
GpsEndStopsProgram == gpc = "done" ~> over \/ signals > 0

(* ap_interface.c:183, "Indicate the command has been processed to the      *)
(* end": when the semaphore is posted after a "set" that got its reply,     *)
(* hostapd has carried the "set" out.                                       *)
ProcessedToTheEnd ==
    mpc = "wait" /\ cmd = "SET" /\ mret = "replied" /\ stops = 0 =>
        staged = msg
=============================================================================
