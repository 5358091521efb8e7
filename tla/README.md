# TLA+ models of the Remote ID drone and radar

Specifications, model-checking configurations and machine-checked proofs for the
programs of this repository:

* the **radar** (`src/radar_esp32/radar_skytrade`), an ESP32 sketch that listens
  to Wi-Fi frames in promiscuous mode, decodes Remote ID messages and prints the
  drones it hears on its serial port;
* the **digital drone** (`src/digital_drone`), a Linux program `transmit` that
  simulates a drone: it broadcasts Remote ID messages through hostapd (Wi-Fi
  Beacon) or a Bluetooth adapter, with fixed data or with positions from gpsd;
* the **OpenDroneID library** both are built on (`core-c/libopendroneid`, and the
  radar's own copy of it), with a Wi-Fi NaN sender application and a MAVLink
  bridge.

`bluez`, `gpsd` and `hostapd` are vendored third-party code and appear here only
as the programs above see them.

## 1. Inventory

| Part | State it keeps | Operations | Interacts with |
|---|---|---|---|
| Radar table (`radar_skytrade.ino`) | `uavs[]` (address, stamp, flag, copied data), `last_json` | `callback()` with `next_uav()`, `parse_odid()`; `loop()` | two tasks share `uavs` without a lock; the Wi-Fi driver calls `callback()` |
| Beacon session (`transmit.c`, `wifi_beacon.c`, `ap_interface.c`) | `ctrl_conn`, `semaphore`, `hostapd_cli_attached`, `kill_program`, the event loop's flags | send message, update beacon, quit, cleanup; connect, attach, PING, reconnect, event handler, close | main thread, ap_interface thread and signal handlers share one socket to hostapd and one semaphore |
| GPS thread (`transmit.c`, `gpsmod.c`) | `retries`, `read_retries`, `uasData->Location` | poll, read, `process_gps_data()`, give up | writes what the main thread encodes; sets `kill_program` |
| Message packs (`transmit.c`, `wifi.c`, `opendroneid.c`) | the pack being built, the radar's global `UAS_data` | `create_message_pack()`, `odid_message_build_pack()`, `encodeMessagePack()`; `odid_message_process_pack()`, `decodeOpenDroneID()` | packs go from either transmitter through the air to the radar |
| Codec (`opendroneid.c`) | none | encode and decode each field | called by all the above |
| MAVLink bridge (`mav2odid.c`) | encoded messages with valid flags, schedule index | parse, cycle, collect pack | uses the codec |
| Bluetooth (`bluetooth.c`, driven by `transmit.c`) | HCI socket, the adapter's advertising sets, the message buffer | initialise, send a message or a pack, close | commands go to the adapter's queue; one HCI event, whichever comes first, is read for each; a killed run leaves queue and broadcast to the next |
| NaN sender (`wifi/sender`) | `drone`, netlink socket | adopt GPS data, send | uses the pack builder |

What is hard about them:

* *Concurrency without locks*: the radar's two tasks on `uavs`; the drone's two
  threads on one control socket; the GPS thread writing what is being encoded;
  `main()` and the ap_interface thread both installing signal handlers.
* *Failure*: hostapd stopped and restarted under a transmission; a slow hostapd;
  a gpsd that falls silent; encoders whose results are printed and ignored; a
  Bluetooth run that is killed while its broadcast is on and its commands queued.
* *Ordering*: replies on the shared socket are not matched to requests; the
  semaphore does not say which request it was posted for; slots are claimed and
  expired by writing two fields in opposite orders; Bluetooth commands are paired
  with events by their number alone.
* *Boundaries*: an unsigned difference of clock samples; a full table; the step
  change of the speed encoding; markers for "unknown" next to measured values.

`PROJECT.json` lists these one by one, at their lines, under `hazards`, with the
properties that would catch each going wrong.

## 2. Modules

Every component has a specification (`X.tla`), a module `MCX.tla` with the small
sets TLC needs, and its theorems in `XProofs.tla` (for Bluetooth also in
`BluetoothAirProofs.tla`).

### RadarTable

State: the fields of `uavs[0 .. MAX_UAVS-1]` as functions of the slot, and the
locals of the two tasks that survive from one step to the next (`cpc`, `cmac`,
`ci`, `UAV`, `packs`, `uas` of `callback()`; `lpc`, `i`, `msecs`, `last_json` of
`loop()`). A step is a stretch of code with at most one access to memory that the
other task writes.

`Receive` starts `callback()`; `MatchSlot`, `MatchDone`, `FreeSlot` and
`TableFull` are `next_uav()`; `Claim` and `Stamp` write address and time;
`DecodePack` and `ParseOdid` handle one Remote ID element of the frame; `Release`
is the test at the end that frees a slot without data. `StartPass`, `CheckSlot`,
`ExpireSlot`, `VacateSlot`, `TestSlot`, `Report`, `Unflag` and `EndPass` are
`loop()`, the last two with the assignments that stand outside the `if`.

An address is its first octet (which the code also uses as the "in use" mark) and
the rest; an operator ID or a latitude is the address that broadcast it. Left
out: the wording of the output, signal strength, SSID, frame counters, and the
home position, which only feeds locals that nothing reads.

### Tracker

What the table promises to whoever reads it: a bounded set of transmitters that
changes in single steps (`Hear`, `Record`, `Finish`, `Forget`). `RadarTable`
implements it (`ImplementsTracker`): `tracked` is the set of addresses in slots
whose first octet is set, `hearing` the sender `callback()` is working on, and a
frame is recorded once its address is in a slot. So all interleavings of the two
tasks come to this: a frame enters its sender once, displaces at most one other
transmitter (nobody if the sender is there already), and drops no other at its end.

### BeaconSession

`Main` is `main()` from the first `sem_wait` through the transmit loop to
`cleanup()`: `Call` reads `ctrl_conn` as an argument, `Check` tests it, `Send` and
`Receive` (or their failures, or `UseClosed`, the use of a connection that was
closed meanwhile) are `wpa_ctrl_request`, `Wait` is the `sem_wait`. `Ap` is the
ap_interface thread: open, attach, station list, event loop with its PING timer
and its event handler, close. `Serve`, `Stop` and `Start` are hostapd, with a
bounded queue of datagrams in each direction; a reply carries no mark of the
request it answers, as in the protocol. `Signal` and `Alarm` model the signals,
whose disposition (`disp`) is set by both threads in whatever order they run; the
alarm of the event loop may go off before the loop comes round again.

Undefined behaviour is a choice: a request on a freed connection fails or faults,
and the join of a GPS thread that was never created returns or faults. The
octets of messages, the sleeps and Bluetooth (see BluetoothHci) are left out; the
access point has no stations.

### GpsLoop

`TimedOut`, `ReadFailed`, `ReadReport`, `WriteField` and `Processed` are
`gps_loop()` and `process_gps_data()`, one assignment to `Location` a step;
`StartRound`, `EncodeField`, `SendRound` and `EndRound` are the main thread, which
reads the same fields. A field's value is the number of the fix it came from.
`since` is a history variable: polls since the last report.

### OdidPack

One transmitter, running either `create_message_pack()` of `transmit.c` or the
library's `odid_message_build_pack()`, and the radar. The former encodes into one
scratch buffer and copies it after each message, failed or not (`EncodeFails`);
the latter encodes into uninitialised stack memory (`EncodeLeavesJunk`, over the
set `Junk`). `BuildFails` is every error return of the library's builders, the lack
of room in the frame included. `FinishPack` is `encodeMessagePack()` with `checkPackContent`. On the
radar `Hear`, `TooShort`, `StartDecode`, `DecodeNext`, `DecodeDone`, `ProcessAgain`,
`Parse` and `Ignore` are the path through `callback()`, for NAN action frames and
beacons, also for frames of other devices (`Foreign`).

A message is its type, the number that chooses its slot, whether the decoder
accepts its fields, and its fix. Only the Location can fail to encode: the other
messages are filled in once with values in range.

### OdidCodec

The encoders and decoders of direction, speeds, altitude, time and area radius,
and the accuracy classes, as operators on integers in a unit that divides the
step of the encoding. A value goes through `EncodeMessage` (or `Refuse`, the range
checks) and `DecodeMessage`. `Wrap360` distinguishes the two copies of
`encodeDirection()`: the run takes the drone's, which encodes, and the proofs cover
both. A timestamp half way between two tenths may round either way
in C and rounds up here. Latitude and longitude (double arithmetic) are left out.

### Mav2Odid

State: the encoded messages of a `mav2odid_t` with their `EncValid` flags, as
functions of the slot, `messagePackEnc`, the schedule's index, the two statics of
`m2o_cycleMessages()` and the buffer of its caller. `m2o_basicId`,
`m2o_authentication`, `m2o_single` and `m2o_messagePack` are the converters behind
`m2o_parseMavlink()`; what they refuse changes nothing, with one exception. The
number of messages in a MAVLink pack is an octet off the wire, and lines 405-407
copy that many into an array on the stack before `encodeMessagePack()` compares the
number with the array's size. `m2o_messagePackOverruns` is that copy for a pack that
does not fit: what the program does from there on is undefined, so the model
records it in `overrun` and says nothing of what follows. All properties are about
the time before. `m2o_collectMessagePack`
keeps the old size when it fails, after the copies it made. `CycleBasicID`,
`CycleAuth` and `CycleSingle` are the cases of `m2o_cycleMessages()`. `m2o_init` may
come again at any time; it leaves the statics alone. A message is its type, its
slot number and a running number, 0 for the blanks of `m2o_init()`. There is one
instance; MAVLink framing and the functions back to MAVLink are left out.

### BluetoothHci and Broadcast

`Start` is a run of the program with one of the option sets that
`parse_command_line()` accepts (`Configs`), up to `init_bluetooth()`. A function of
`bluetooth.c` is the list of commands it sends (`stop_transmit`, `setup`,
`init_bluetooth`, `send_message`); `todo` holds what is left of it. `SendCmd`,
`SendFails`, `ReadEvent` and `ReadFails` are `send_cmd()`, in two steps because the
program may be killed, and the adapter may work, between the write and the read.
`InitDone`, `NextPass`, `SendPack`, `SendSingle`, `SendUnencoded` (a Location that the
encoder refuses; the buffer is sent as it is), `PassDone` and `CloseDone` are
`main()` with `send_packs()` and `send_single_messages()`. `Signal` kills the process
at any point (SIGKILL is never caught) or, once `main()` has installed its handler,
sets `kill_program`; `GpsGivesUp` sets it
too. A process that is gone leaves its commands queued and its broadcast on.

A command carries the run it belongs to, its number in the run and, for data, the
message: its number in the run, its type, the pass in which it was encoded and the
one it was sent for. Counters, octets, intervals and addresses are left out.

The adapter is external. It carries out its queue in order, answers each command
with one event, and, as the HCI specification has it, refuses extended commands
after legacy ones (and the other way round) until a reset, forgets its sets at a
reset, enables a set only with parameters and an address, and keeps a set that is
enabled. Events go to the socket of whoever runs; those of an earlier run's
commands, and of other programs (`Stray`), arrive there as well.

`Broadcast` is what a receiver may rely on: a transport is silent, or shows the
messages of one run after another, none left out and none out of turn; a run that
has fallen silent does not come back. `BluetoothHci` implements it
(`ImplementsBroadcast`).

### How the modules fit together

`BeaconSession` and `BluetoothHci` leave open *when* the GPS thread gives up
(`GpsGivesUp`); `GpsLoop` says when. They are the two transports of one main loop;
each models `main()` as it runs with that transport. `GpsLoop` follows the fields of one Location message,
`OdidPack` what becomes of a Location that cannot be encoded, `OdidCodec` what
becomes of its numbers. `RadarTable` takes a decoded pack (`uas`) as input, which
is what `OdidPack` ends with.

## 3. Model checking

| Run | Shows |
|---|---|
| `radar_table` | no transmitter holds two slots, only the last slot is taken over from its holder, a slot in use holds data (of its holder or of an earlier one) and the stamp that lets it expire, data is copied only into the sender's slot, a silent slot is freed or heard again, and the whole implements `Tracker` |
| `radar_report` | *violated*: a flag raised between `loop()`'s test and its clear is lost, and the drone is not printed |
| `beacon_live` | without signals: the main thread is stuck in `sem_wait` only after a dropped command, a transmission that nothing disturbed leaves its last message on the air, and every transmission ends, through a stop and restart of hostapd |
| `beacon_gps` | with `g`: cleanup always ends, and the end of the GPS thread ends the program unless a signal came |
| `beacon_processed` | *violated*: the main thread takes the reply to a PING for its own and goes on before hostapd has carried out its command |
| `gps_give_up` | the GPS thread gives up only a gpsd that was silent for longer than a limit, and gives up every dead one |
| `gps_one_fix` | *violated*: a Location message is sent with the latitude of one fix and the longitude of another |
| `odid_pack` | `transmit.c` sends all messages or an empty pack, and no sender writes past the pack it fills; the radar shows only what the frame at hand holds, and loses none of it |
| `pack_success` | *violated*: the library returns success for a pack with stack contents in place of the Location |
| `odid_codec` | every field fits its octets, comes back within a step, in order, with "unknown" kept apart |
| `mav_bridge` | until a pack with more messages than fit comes in: one slot for each ID type; only messages that came in are handed out; the pack held is decodable also after a failed collection; every valid message but a second Basic ID has its turn |
| `bluetooth` | answers and commands keep step but for one event for each stray event or failed read, so no read waits in vain; a run that is closed leaves silence; what a killed run left is gone with the first command of the next; the last message sent is on the air once the adapter has caught up; what replaces a failed Location is of the same pass; a run ends; the whole implements `Broadcast` |

The four violations are disagreements between the code and what its comments,
help text or documents say; `findings` in `PROJECT.json` quotes both sides.

### Bounds

* `radar_*`: two slots (one in `radar_report`) are enough for a match, a free
  slot, a full table and a second slot for the same address; three addresses, one
  with first octet 0. `Timeout` 0 and `MaxTime` 2 let a slot expire at every
  point of `callback()` and be claimed again. `MaxPacks` = 1 element a
  frame. `ClockMod` = 16 lies above `MaxTime`, so the difference that wraps is the
  one in line 160 and not the clock; after the wrap of `millis()` at 49.7 days a
  slot stamped with 0 looks unseen, which the properties except explicitly.
* `beacon_*`: one or two messages (`Rounds`) stand for the nine or ten; a queue of
  two datagrams (`QueueLen`) holds a command and a PING at once; one stop of
  hostapd (`MaxStops`), in `beacon_gps` one signal (`MaxSignals`). `MaxSem` stops further PINGs
  while the semaphore has spare posts, which keeps the state finite: further
  posts only make later waits return at once, which one spare post already does.
* `gps_*`: limits 2 and 1 instead of 60 and 5 (the counters are compared with
  their limits and with nothing else); two fixes (`MaxFix`) are enough to mix;
  `MaxSince` lies above both limits.
* `odid_pack`: the messages of `transmit.c` and of the NaN sender, a caller with
  too many authentication pages, one with none, nine frames of other devices, and
  two fixes, in range or not.
* `odid_codec`: every direction, horizontal and vertical speed and radius in
  units of the model (`Wrap360` = FALSE, the copy that the drone is built from), a
  neighbourhood of the ends, 0 and a middle value for
  altitude and time, and of every limit for accuracies.

* `mav_*`: two slots for Basic IDs, as in the code, with two types and NONE; two
  pages, of which a third is refused; a pack of two messages, so that three valid
  ones overflow it, and so does an incoming pack of three; three messages taken
  over (`MaxSeq`), enough for a pack and then a failed collection.

* `bluetooth`: two runs (`MaxRuns`), so that the second finds what the first left;
  two passes (`MaxPasses`) of three single messages or two packs (`PackRepeats`),
  so that a pass can meet messages of the one before; two slips (`MaxSlips`: stray
  events and failed reads in a run; events for commands of a killed run come on
  top), so that the program can be more than one event behind. All accepted
  combinations of options.

Deadlock is checked for the radar, the packs and the bridge, which run for ever. The
transmitter is a program that ends, and a codec run is one value's way, so those
configurations switch the check off; that they end only where they should is
what `Finishes`, `CleanupFinishes`, `NoLostWakeup` and `RunEnds` say.

### Fairness

* Radar: weak fairness of both tasks and of the clock. FreeRTOS schedules
  `loop()`, the Wi-Fi task runs on the other core and returns from every callback.
  Frames need not arrive.
* Beacon: weak fairness of each thread of the running process, of hostapd's
  service of its queue, and of its restart after each of finitely many stops
  (without hostapd the program waits by design). The GPS thread need not give up;
  signals need not come.
* Bridge: weak fairness of `m2o_cycleMessages()`, which its comment expects to be
  called periodically. MAVLink messages need not arrive.
* Bluetooth: weak fairness of the program and of the adapter's work on its queue.
  Failures, signals, foreign events and a second start need not come.
* GPS: weak fairness of both threads. `gps_waiting` returns after half a second
  at most; nothing is assumed of gpsd.

## 4. Proofs

TLAPS proves, for all values of the constants that satisfy the named assumptions:

* **RadarTableProofs** (`RadarAssumption`): `TypeOK`, `UniqueSlot`,
  `NoImmortalSlot`, `SlotInUseHasData`, and the action properties
  `CopiedDataIsSenders` and `OnlyLastSlotIsStolen`, for any
  number of slots and addresses. The inductive invariant `Inv` adds to them what
  `callback()` knows: `SearchInv` (slots already compared do not hold the sender's
  address, and stay so, because `loop()` only ever clears an address), `ClaimInv`
  (the chosen slot is still the sender's or vacated), `DataInv` and `ClockInv` (the clock is not 0, the mark
  of a slot that was never stamped).
  `UniqueSlot` alone is not inductive: nothing in it says that a search that has
  passed a slot need not look back.
  `TrackerImplemented` is the refinement: `TableStep` maps every step to a step of
  `Tracker` or a stutter. The steps that write an address are the hard ones:
  `ClaimRecords` needs `UniqueSlot` (overwriting a slot displaces its holder, who is
  nowhere else) and `SearchInv` (a sender that is tracked is matched, so that
  nobody is displaced), `VacateTracked` that clearing a slot removes one address.
* **BeaconSessionProofs** (`BeaconAssumption`): `TypeOK`, `NoLostWakeup` and
  `LastMessageStaysOnAir`, for any number of messages, queue lengths, restarts and
  signals. The strengthening `PhaseInv` says what the ap_interface thread may be
  doing before it first posts the semaphore. `AirInv` is about the contents of
  hostapd's queue: once the last `SET` has been sent, it is either queued with no
  other `SET` behind it or staged with none queued, and likewise for what the last
  `UPDATE_BEACON` will show. Serving a request takes it from the queue and puts it
  into effect; the other thread's `PING`s only append. Which thread reads which
  reply, the part that the code gets wrong, does not occur in it.
* **GpsLoopProofs** (`GpsAssumption`): `TypeOK` and `NotGivenUpEarly`, for all limits
  and lists of fields. `CountInv` bounds both counters by `since`, which neither reset
  alone gives; that the counters stop two past their limits needs it as well.
* **OdidPackProofs** (`PackAssumption`, `TransmitAssumption`): `TypeOK`,
  `AllOrNothing` and `ShownIsHeard`, for all lists of messages that begin, like
  that of `transmit.c`, with two Basic IDs and the Location and fit into a pack, and
  for all frames of others. That no program writes past its pack, which is part of
  `TypeOK`, rests on this assumption for `transmit.c` and on the test before each
  message for the library (`RoomToEncode`). `PackInv` says where a pack under construction may differ from what was
  asked for: only in the Location's place, where a failure leaves a third Basic
  ID, which `checkPackContent` refuses (`ThreeBasicIDsRefused`). `HeldInv` says at
  which points `UAS_data` may be trusted. `NothingLost` needs `LossInv`: after n
  messages of a pack, each that none of the first n replaces is in a slot of its
  kind, every typed Basic ID slot holds one of those messages, and the two slots
  are filled in their order with different types. A Basic ID that finds no slot
  would then be the third of the pack, which `checkPackContent` has refused
  (`DecodedStep`). The induction over the messages is the decoder's own loop, so
  that no induction over data is needed.
* **OdidCodecProofs** (`CodecAssumption`): `OctetsFit`, `QuantisationError`,
  `InvalidIsKept`, `OrderKept` and `AccuracyNotOverstated` for all values, from one
  lemma for each field's way through encoder and decoder, and one for each table
  of accuracy classes (`ClassTaken`: a value stays below the limit of the class
  that is chosen for it).
* **Mav2OdidProofs** (`BridgeAssumption`): `TypeOK`, `OneSlotPerIdType`,
  `SentWasReceived` and `HeldPackIsDecodable`, for any number of slots and pages and
  all inputs. `SafeInv` is the inductive invariant up to an overrun, after which
  nothing is claimed (`OverrunStays`). `HeldPackIsDecodable` rests on `TagInv` (each buffer holds a message of its own
  kind) and on the collected messages being the valid slots in their order:
  `EveryRankIsTaken` shows that counting the valid slots before one gives each
  place of the pack to exactly one of them, so that no place is left as it was.
  `OrderInv`
  says that Basic ID slots fill from the front and keep a type once they have one;
  without it neither of the two is inductive: a slot without a type might open up
  before one that holds the type at hand, and the first slot, which line 135
  copies, might still be blank when a later one is valid.

* **BluetoothHciProofs** (`HciAssumption`): `TypeOK`, `AnswersInStep` and
  `LeftoverEndsWithReset`, for any list of messages and any number of runs, passes
  and slips; and `ReadIsAnswered`, which follows: a read that has no timeout never
  waits for an event that cannot come. `LeftoverEndsWithReset` rests on `QueueInv`:
  commands of earlier runs lie at the front of the queue, none of this run's has
  been carried out while one of theirs is left, and until then the first of this
  run's, if it has sent any, is the reset of `init_bluetooth()` (`InitList`).
* **BluetoothAirProofs** (`HciAssumption`): `NothingStaleOnAir`, `OffAfterClose`,
  `LastSentIsOnAir` and the refinement `ImplementsBroadcast`, again for any list of
  messages and any number of runs, passes and slips. `FreshInv` gives the first:
  whatever is to be sent, queued or on the air was encoded in the pass it is sent
  in. The others are about commands that are still to be carried out, so their
  invariant is a proof outline in Hoare's manner. The adapter is a machine of its
  own (`Adapter`, `Outcomes`), and `Pending`, the commands queued and those that the
  program is bound to queue next, is a program for it. `AirInv` says that there is
  an outline for that program: a set of adapter states before and after each
  command, each command leading from its set into the next by a step that
  `Broadcast` allows, from the present state to the ones `Expected` (silence after
  `close_bluetooth()`, the last message shown in a pass). Appending the commands
  of a list extends an outline at its end, carrying out a command shortens it at
  its front, and a kill cuts it off (`OutlineAppend`, `OutlineTail`,
  `OutlinePrefix`). What remains is one triple for each kind of command
  (`ResetTriple` ... `DataTriple`) and for each list the program queues (`InitTakes`,
  `MessageTakes`, `StopTakes`). `ExecuteOutcome` ties the machine to the action
  `Execute`, and `MappedStep` the allowed steps to `Broadcast`.

The invariants about queues and packs (`AirInv` of the beacon and of Bluetooth,
`LossInv`, `PackInv` of the bridge) were checked by TLC on the instance of the
component's run before they were proved.

With that every safety invariant, action property and refinement that a passing run
checks is also a theorem. Only model-checked are the liveness properties
(`SilentSlotIsFreed`, `Finishes`, `GpsEndStopsProgram`, `CleanupFinishes`,
`DeadGpsdIsGivenUp`, `ValidIsSent`, `RunEnds`): they hold under fairness, and reasoning
about fairness needs ENABLED, which is out of the prover's reach. The properties
of the runs that expect a violation are false, and TLC shows why.

## 5. Observations without a run of their own

* `radar_skytrade.ino:189` sets `last_json` for every slot of every pass, so the
  keep-alive row of line 191 ("Keep the serial link active") is never printed.
* `transmit.c:349` tests its counter before incrementing it, and with `>`: the
  thread makes 62 tries where `gpsmod.h:10` speaks of 60.
* The drone's copy of `encodeDirection()` (`opendroneid.c:167`) lacks the radar's
  fold of 360 degrees, and `decodeDirection()`, documented as 0 - 359, returns 360.
* `decodeHorizontalAccuracy()` (`opendroneid.c:1206`) returns 7808 m for a class
  that ends at 7408 m.
* `main()` installs its signal handlers after the ap_interface thread's `sem_post`
  and that thread installs its own after it too. If the thread comes last, SIGINT
  ends its event loop and closes the connection; the main thread's next command
  is dropped and it waits for ever. This is why `Finishes` is checked without
  signals and `GpsEndStopsProgram` excepts them. The help text says "It can be
  difficult to stop the transmit instance."
* `m2o_authentication2Mavlink()` (`mav2odid.c:557`) has the sizes of page 0 and of the
  other pages exchanged.
* The statics of `m2o_cycleMessages()` (`mav2odid.c:126`) are shared by all instances:
  two that are cycled in turn each hand out every second page only.
* `m2o_cycleMessages()` (`mav2odid.c:135`) steps `basicIDIndex` to the next valid Basic
  ID and then copies from the start of `basicIdEnc`: a second Basic ID is never
  handed out, although line 22 speaks of several cycles "to get them all
  transmitted". `ValidIsSent` excepts it.
* With `4` and `5` together, the `hci_reset()` before the set-up of the second
  (`bluetooth.c:373`) undoes the set-up of the first, and the command that enables two
  sets (`bluetooth.c:323`) puts both handles side by side where the HCI
  specification has a duration after each. What follows depends on the adapter;
  `parse_command_line()` warns of it, and `README_jp.md:142` reports that only one
  of the two was broadcast. `LastSentIsOnAir` excepts the combination.
* `send_packs()` (`transmit.c:247`) counts the packs of both transports with one
  counter, so that with `b` and `5` each transport shows every second value.
* If the Location fails to encode in single-message mode, the message before it is
  sent again under the Location's counter (`transmit.c:177`).
* A slot is claimed without clearing the data of its previous holder, so a row
  may combine two drones, and a station that sends no Remote ID at all keeps a slot
  that it is given second hand until it expires (`radar_skytrade.ino:256`, `:333`):
  `SlotInUseHasData` says only that it gets no slot that was never used.
* `radar_skytrade.ino:160` subtracts unsigned numbers: a transmitter that
  `callback()` stamps after the pass has sampled `msecs` seems silent for 49 days and
  is dropped at once. Nothing says how long one is kept, so there is no property to
  violate; its next frame enters it again.
* `mav2odid.c:405` copies as many messages as the MAVLink pack announces before line
  409 checks the number (see `m2o_messagePackOverruns`).
* `send_cmd()` (`bluetooth.c:81`) copies the parameters of an event into `rparam[10]` by
  the event's own length. The answers to the program's commands fit; one to a
  command of another program need not.

## 6. Not modelled, and the plan

Not modelled, and why:

* octet formatting (frames, JSON, hexadecimal, HCI parameters) and netlink I/O:
  straight-line code without state of its own;
* latitude and longitude: double arithmetic, out of reach of both tools;
* what an HCI event of another program that is longer than `rparam` does to the
  stack; the model takes such an event as any other, or the program as killed;
* an adapter that refuses the data of an unfilled pack (`bluetooth.c:296`), and what
  is then left on the air: `AirAfter` takes data for an enabled set as accepted;
* the message counters, which nothing in the repository reads;
* failures of the ap_interface thread before its first connection: the main thread
  then waits for ever in its first `sem_wait`, and nothing says otherwise;
* tests, earlier sketches, stand-alone scripts;
* the vendored trees (`bluez`, `gpsd`, `hostapd`), which are nearly all of the
  repository's lines: third-party programs with specifications of their own, here
  modelled where the transmitter relies on them (hostapd's control connection,
  the Bluetooth adapter's queue, libgps).

Next, in this order:

1. An abstract specification of the session ("the current message is on the air")
   for `BeaconSession`, and the proof that it is implemented.
2. Two instances of the bridge; the failure paths of start-up.
