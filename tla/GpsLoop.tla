------------------------------ MODULE GpsLoop ------------------------------
(***************************************************************************)
(* The 'g' mode of digital_drone/transmit.c: gps_loop polls gpsd, counts   *)
(* its failures, and copies every fix into uasData->Location while the main *)
(* thread encodes Location messages from it.  Nothing but kill_program,    *)
(* which is not protected either, is shared besides Location.              *)
(*                                                                         *)
(* A value of a Location field is abstracted to the number of the fix it   *)
(* came from, 0 for the one odid_initLocationData gave it.                 *)
(***************************************************************************)
EXTENDS Integers, Sequences

CONSTANTS
    MAX_GPS_WAIT_RETRIES,
    MAX_GPS_READ_RETRIES,
    Written2D,  \* the fields process_gps_data writes for a 2D fix, in order
    Written3D,  \* the fields it adds for a 3D fix, in order
    Optional,   \* those of them that are skipped unless finite
    Encoded,    \* the fields encodeLocationMessage reads, in order
    MaxFix,     \* bound: number of fixes gpsd delivers
    MaxSince    \* bound: where the count of polls without a report saturates

Fields == {Encoded[k] : k \in DOMAIN Encoded}

ASSUME GpsAssumption ==
    /\ MAX_GPS_WAIT_RETRIES \in Nat /\ MAX_GPS_READ_RETRIES \in Nat
    /\ MaxFix \in Nat
    /\ MaxSince \in Nat
    /\ MaxSince > MAX_GPS_WAIT_RETRIES + 1
    /\ MaxSince > MAX_GPS_READ_RETRIES + 1
    /\ Len(Encoded) \in Nat /\ DOMAIN Encoded = 1..Len(Encoded)
    /\ Written2D \in Seq(Fields) /\ Written3D \in Seq(Fields)

VARIABLES
    gpc,          \* gps_loop: where it is
    retries, read_retries,
    todo,         \* process_gps_data: the fields of this fix still to write
    fix,          \* gpsdata->fix: number of the last fix read
    exit_status,  \* args->exit_status
    kill_program,
    Location,     \* uasData->Location
    mpc,          \* the main thread: at its loop, encoding, or in cleanup
    k,            \* encodeLocationMessage: fields encoded so far
    encoded,      \* the message being encoded
    dead,         \* gpsd delivers no report any more
    since         \* polls since the last report (history)

gpsVars == <<gpc, retries, read_retries, todo, fix, exit_status, since>>
mainVars == <<mpc, k, encoded>>
vars == <<gpsVars, mainVars, kill_program, Location, dead>>

Init ==
    /\ gpc = "poll" /\ retries = 0 /\ read_retries = 0
    /\ todo = <<>> /\ fix = 0 /\ exit_status = -1
    /\ kill_program = FALSE
    /\ Location = [f \in Fields |-> 0]
    /\ mpc = "loop" /\ k = 0 /\ encoded = [f \in Fields |-> 0]
    /\ dead = FALSE /\ since = 0

-----------------------------------------------------------------------------
(* The GPS thread.                                                         *)

Polled == since' = IF since < MaxSince THEN since + 1 ELSE since

(* pthread_exit after too many failures.                                    *)
GiveUp ==
    /\ kill_program' = TRUE
    /\ exit_status' = 1
    /\ gpc' = "done"

(* The head of the loop.                                                    *)
SeeKill ==
    /\ gpc = "poll" /\ kill_program
    /\ gpc' = "done" /\ exit_status' = 0
    /\ UNCHANGED <<retries, read_retries, todo, fix, since, mainVars,
                   kill_program, Location, dead>>

SeeNoKill ==
    /\ gpc = "poll" /\ ~kill_program
    /\ gpc' = "wait"
    /\ UNCHANGED <<retries, read_retries, todo, fix, exit_status, since,
                   mainVars, kill_program, Location, dead>>

(* Faulty variant: the number of timeouts is not limited.                   *)
TimedOutUnlimited ==
    /\ gpc = "wait"
    /\ retries' = retries + 1
    /\ Polled
    /\ gpc' = "poll"
    /\ UNCHANGED <<read_retries, todo, fix, exit_status, kill_program,
                   mainVars, Location, dead>>

(* gps_waiting returns false: half a second without data.                   *)
TimedOut ==
    /\ gpc = "wait"
    /\ retries' = retries + 1
    /\ Polled
    /\ IF retries > MAX_GPS_WAIT_RETRIES
       THEN GiveUp
       ELSE gpc' = "poll" /\ UNCHANGED <<kill_program, exit_status>>
    /\ UNCHANGED <<read_retries, todo, fix, mainVars, Location, dead>>

(* Faulty variant: both counters are reset when the socket is ready.        *)
ReadFailedForgets ==
    /\ gpc = "wait"
    /\ retries' = 0
    /\ read_retries' = 1
    /\ Polled
    /\ gpc' = "poll"
    /\ UNCHANGED <<todo, fix, exit_status, kill_program, mainVars, Location,
                   dead>>

(* gps_waiting returns true and gps_read fails.                             *)
ReadFailed ==
    /\ gpc = "wait"
    /\ retries' = 0
    /\ read_retries' = read_retries + 1
    /\ Polled
    /\ IF read_retries > MAX_GPS_READ_RETRIES
       THEN GiveUp
       ELSE gpc' = "poll" /\ UNCHANGED <<kill_program, exit_status>>
    /\ UNCHANGED <<todo, fix, mainVars, Location, dead>>

(* Faulty variant: a report does not reset the count of failed reads.       *)
ReadReportKeepsCount ==
    /\ gpc = "wait" /\ ~dead /\ fix < MaxFix
    /\ retries' = 0 /\ since' = 0
    /\ fix' = fix + 1
    /\ todo' \in {<<>>, Written2D, Written2D \o Written3D}
    /\ gpc' = "process"
    /\ UNCHANGED <<read_retries, exit_status, mainVars, kill_program,
                   Location, dead>>

(* gps_read succeeds; process_gps_data starts with the mode of the fix.     *)
ReadReport ==
    /\ gpc = "wait" /\ ~dead /\ fix < MaxFix
    /\ retries' = 0 /\ read_retries' = 0 /\ since' = 0
    /\ fix' = fix + 1
    /\ todo' \in {<<>>, Written2D, Written2D \o Written3D}
    /\ gpc' = "process"
    /\ UNCHANGED <<exit_status, mainVars, kill_program, Location, dead>>

(* process_gps_data: one assignment, or a field that is not finite.         *)
WriteField ==
    /\ gpc = "process" /\ todo # <<>>
    /\ \/ Location' = [Location EXCEPT ![Head(todo)] = fix]
       \/ Head(todo) \in Optional /\ UNCHANGED Location
    /\ todo' = Tail(todo)
    /\ UNCHANGED <<gpc, retries, read_retries, fix, exit_status, since,
                   mainVars, kill_program, dead>>

Processed ==
    /\ gpc = "process" /\ todo = <<>>
    /\ gpc' = "poll"
    /\ UNCHANGED <<retries, read_retries, todo, fix, exit_status, since,
                   mainVars, kill_program, Location, dead>>

-----------------------------------------------------------------------------
(* The main thread.                                                        *)

(* The head of the transmit loop.                                           *)
StartRound ==
    /\ mpc = "loop"
    /\ mpc' = IF kill_program THEN "cleanup" ELSE "encode"
    /\ k' = 0
    /\ UNCHANGED <<gpsVars, encoded, kill_program, Location, dead>>

(* encodeLocationMessage: one field.                                        *)
EncodeField ==
    /\ mpc = "encode" /\ k < Len(Encoded)
    /\ k' = k + 1
    /\ encoded' = [encoded EXCEPT ![Encoded[k + 1]] = Location[Encoded[k + 1]]]
    /\ UNCHANGED <<gpsVars, mpc, kill_program, Location, dead>>

(* The message is complete and is sent, once or in ten packs.               *)
SendRound ==
    /\ mpc = "encode" /\ k = Len(Encoded)
    /\ mpc' = "sent"
    /\ UNCHANGED <<gpsVars, k, encoded, kill_program, Location, dead>>

EndRound ==
    /\ mpc = "sent"
    /\ mpc' = "loop"
    /\ UNCHANGED <<gpsVars, k, encoded, kill_program, Location, dead>>

(* sig_handler.                                                             *)
Signal ==
    /\ kill_program' = TRUE
    /\ UNCHANGED <<gpsVars, mainVars, Location, dead>>

(* gpsd stops delivering reports.                                           *)
Die ==
    /\ ~dead /\ dead' = TRUE
    /\ UNCHANGED <<gpsVars, mainVars, kill_program, Location>>

Gps == \/ SeeKill \/ SeeNoKill \/ TimedOut \/ ReadFailed \/ ReadReport
       \/ WriteField \/ Processed
Main == StartRound \/ EncodeField \/ SendRound \/ EndRound
Next == Gps \/ Main \/ Signal \/ Die

Spec == Init /\ [][Next]_vars

(* Both threads are scheduled; nothing is assumed of gpsd or of signals.    *)
FairSpec == Spec /\ WF_vars(Gps) /\ WF_vars(Main)

-----------------------------------------------------------------------------
(* Every variable holds a value of its type.                                *)
TypeOK ==
    /\ gpc \in {"poll", "wait", "process", "done"}
    /\ retries \in 0..(MAX_GPS_WAIT_RETRIES + 2)
    /\ read_retries \in 0..(MAX_GPS_READ_RETRIES + 2)
    /\ todo \in Seq(Fields)
    /\ fix \in 0..MaxFix /\ exit_status \in {-1, 0, 1}
    /\ kill_program \in BOOLEAN /\ dead \in BOOLEAN
    /\ Location \in [Fields -> 0..MaxFix]
    /\ encoded \in [Fields -> 0..MaxFix]
    /\ mpc \in {"loop", "encode", "sent", "cleanup"}
    /\ k \in 0..Len(Encoded)
    /\ since \in 0..MaxSince

(* gps_loop does not give up on a gpsd that reports now and then: it exits  *)
(* with an error only after more failed polls since the last report than    *)
(* one of its limits allows, although the two counters are reset at         *)
(* different places.                                                        *)
NotGivenUpEarly ==
    exit_status = 1 =>
        \/ since > MAX_GPS_WAIT_RETRIES + 1
        \/ since > MAX_GPS_READ_RETRIES + 1

(* A gpsd that delivers nothing any more is given up, however timeouts and  *)
(* failing reads alternate, and the transmission ends.                      *)
DeadGpsdIsGivenUp == dead ~> gpc = "done" /\ mpc = "cleanup"

(* transmit.c:264, "dynamically update location messages after each loop of *)
(* messages": Location does not change during a loop of messages, so the    *)
(* fields of a sent message that every fix writes are of one fix.           *)
SentFromOneFix ==
    mpc = "sent" =>
        \A i, j \in DOMAIN Written2D :
            {Written2D[i], Written2D[j]} \cap Optional = {} =>
                encoded[Written2D[i]] = encoded[Written2D[j]]
=============================================================================
