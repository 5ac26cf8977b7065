# A TLA+ model of the Main_L151 water-valve unit

Main_L151 is the firmware of a main unit that shuts a building's water valve. It
drives two valve motors, watches a water wire and a freeze sensor, serves two keys,
and talks by 433 MHz radio to water sensors, one door unit and one gateway. What it
promises is simple to say: *when there is water, frost or silence, the valve is shut;
what was shut from afar is not opened at the unit.* How it keeps that promise is
spread over a dozen handlers in five threads and the timer thread, all writing the
same few variables.

This directory holds the model, the TLC runs and the TLAPS proofs. Every run is
listed with what it checks in `PROJECT.json`; `map` there gives, for every definition
that models code, the lines it was translated from.

## 1. Inventory

Threads: the soft-timer thread (highest priority, 4), `button_task` and `RTC_Scan`
(5), the radio task (8), `radio_send` (9), `key_response_t` and `main` (10).

| Component | State it keeps | Operations | What makes it correct |
|---|---|---|---|
| Status arbiter, `applications/Status.c` | `Now_Status`, priority in `NowStatusEvent`, `Delay_Timer` | `Warning_Enable_Num` and nine callbacks, `Warning_Disable`, `BackToNormal`, closing delay | a closing warning is shown only over a shut valve; a shown warning is not replaced by a less urgent one |
| Motors and self-test, `Moto.c` | `ValveStatus`, `LastFlag` (also in flash), pins `Turn1/2`, four self-test timers, `Moto_Detect_Timer`, edge counts, fail flags | `Moto_Open`, `Moto_Close`, `Moto_Detect`, timer and edge callbacks, `Moto_Init` | a valve closed from afar (`OtherOff`) is opened only from afar; the self-test gives outputs and inputs back |
| Water scan, `Work.c` | `WarningPastStatus`, `WarningStatus`, `Water_Alarm_Pause` | one-second scan, `WaterScan_Clear` | no change from a dry or lost wire is compared away; standing water shuts the valve |
| Freeze sensor, `ADCwork.c` | `NTC_State` | one-second check with hysteresis | a thaw restores the position found and never lifts a lock |
| Key handler, `key.c` | `Last_Close_Flag`, `Learn_Timer`, key semaphores | ON, OFF, long OFF (learn), both (wipe), factory OFF | a key never overrides a lock or a closing warning |
| Buttons, `packages/button-v1.0.1/button.c`, `device.c` | press states and counters per key, long-press counts, five semaphores | sample both keys every 10 ms, callbacks to semaphores | everything is erased only with both keys held; a hold is not also a click |
| Key-value store, `packages/EasyFlash-v4.1.0/src/ef_env.c` | sectors and nodes in flash with their statuses, `gc_request` | set, collect, wipe, recover at boot | a set happens or does not, wherever the power fails; the store never fills for good |
| Hourly thread, `RTCWork.c` | `RTC_Counter`, `RTC_Hours` | hourly tick: self-test every 120 h, presence sweep every 25 h | a silent sensor is reported, a live one is not |
| Radio decoder, `radio/Radio_Decoder.c` | `Learn_Flag`, `Gw_Flag` | nine commands of units, seven of the gateway, learn mode | a slave's alarm is stored before it is forgotten; learn mode ends |
| Device table, `storage/flashwork.c` | `Global_Device` and its copy in flash: slots, roles, alarm flags, presence | add, replace, delete, wipe, reload, presence | an id has one slot; what a restart loads is explained by the operations, cut short or not |
| Gateway link, `gateway.c` | heartbeat flags, sync cursor | heartbeat, sync, uploads | the link state follows what was heard |
| Send queue, `Radio_Encoder.c` | queue of ten, two completions | enqueue, send, wait, three retries | a report is sent, and retried unless acknowledged |
| Radio driver, `Radio_433.c`, `Radio_Common.c` | driver state, transmit timer | receive, transmit steps | a transmission ends and reception resumes |
| Factory mode, `factory.c` | `Factory_Flag` | pin sampled at boot | |
| Lamps and beeper, `led.c` | outputs | | |

How they interact: calls only. Every source of events (timers, keys, radio, hourly
thread) calls the arbiter, the arbiter's callbacks call `Moto_Close`, and
`Warning_Disable` clears the scan. Three variables couple everything: `Now_Status`
decides which commands are obeyed, the priority which warnings are accepted,
`LastFlag` which motor calls are permitted. `LastFlag`, the device table and the
alarm flags survive a power loss; the rest does not.

The hard parts: alarms of several sources overlapping; a close against the timers of a
self-test; decisions on values saved much earlier (`NTC_State`, `WarningPastStatus`,
`Last_Close_Flag`); `Moto_Close` refusing while its caller goes on; power loss between
two flash writes, and between two writes inside one of them; learn mode, in which sensors
are not heard; and preemption between threads that share everything without a lock. `PROJECT.json` lists these as hazards,
each at its line, with the properties that cover it.

## 2. Modules

    ValveCore -- Valve -- ValveProps                                 (TLC)
                           |  |  \
               ValveInterlock  |   ValveProofs                        (TLAPS)
                          AlarmTable
                              |
    DeviceTable -+-- AlarmFlags -- AlarmProofs                       (TLC, TLAPS)
                 +-- Presence -- PresenceProofs                      (TLC, TLAPS)
                 +-- TableProofs                                     (TLAPS)
    Radio -- RadioProofs                                             (TLC, TLAPS)
    Buttons -- ButtonsProofs                                         (TLC, TLAPS)
    EnvStore -- EnvProofs -- EnvAtomic                               (TLC, TLAPS)
    ValvePreempt                                                     (TLC)

A line to the right is EXTENDS; a line down to ValveInterlock or AlarmTable is an
INSTANCE with a refinement mapping.

* **ValveCore** declares the state and has the operations all handlers share:
  `Moto_Open`, `Moto_Close`, `Moto_Detect` (`Moto.c`), `Warning_Enable`,
  `Warning_Notify`, `Warning_Disable`, `BackToNormal` (`Status.c`), `WaterScan_Clear`.
* **Valve** has one action per handler: the scan and the freeze check, each one-shot
  timer, the edge interrupt, the hour, each key in each status, each radio and gateway
  command, learning and deleting a device, the wipe, and power loss.
* **ValveInterlock** is the abstract specification: a valve that is open or shut, a lock,
  whether the last move was a remote open, and an alarm that is none, freeze or leak. It
  says which of the four a step may change, and leaves out statuses, priorities, timers
  and storage.
* **ValveProps** states the properties, the inductive invariant `IInv` and the refinement
  mappings: `open` is `ValveStatus = 1`, `locked` is `LastFlag = OtherOff`, `remote` is
  `LastFlag = OtherOpen`, `alarm` is the kind of warning `Now_Status` shows.
* **DeviceTable** is the table of `flashwork.c`: numbered slots with ids, the highest slot
  in use, the slots that play the door unit and the gateway. It is written through to flash
  key by key, so memory and flash agree between operations, but for keys of slots above the
  count: `Key` is what flash holds for each slot, `ID` what memory has of it. `TornNum`,
  `TornPart` and `TornDelete` are a power loss between two writes of a learn or a deletion,
  `TornWipe` one between two sectors of a wipe, after which each key is gone or still there.
* **Presence** is what the table keeps by slot about who is still there: the hour counters,
  the marks `Alive` and `GetMesssage`, the sweep, and `Offline_React` at the end of a frame.
* **AlarmFlags** is the alarm flags over the table: in memory by slot, in flash by id.
* **AlarmTable** is the abstract table without slots. `Valve` uses exactly this view
  (`ImplementsTable`), and `AlarmFlags` shows that slots provide it as long as no id holds two
  of them (`SlotsImplementTable`), so the valve's results do not depend on how slots are given out.
* **Radio** is the way out and in: the queue `rf_en_mq`, the thread `radio_send` with its two
  completions, waits and retries, the transceiver's states as `rf_433_task` moves them, and the
  timer that restarts it. It shares no variable with the others: the handlers of `Valve` make
  frames and read nothing back.
* **Buttons** is the way from a key to a handler of `Valve`: the scanner `button.c` for both
  keys, the counters of `device.c` that turn long events into one of five semaphores, and the
  loop of `key.c` that takes and serves them. `Valve` starts where a branch of the loop is entered.
* **EnvStore** is the store under `flashwork.c`: sectors of nodes, `set_env`, allocation,
  `gc_collect`, `ef_env_set_default` and the recovery in `ef_load_env`, one step per flash
  write. `AtomicSet` is what `Valve` and the table modules assume of one `ef_set_env`.
* **ValvePreempt** is `Moto_Open` and `Moto_Close` once more, not as one step but as the code
  runs them: test and status, wait for the store's lock, write, drive the outputs, by three
  threads of different priority. It shows what the atomic handlers of `Valve` hide.

The runs instantiate these modules directly: the `MC*.cfg` files give the constants of a passing run,
the `Finding_*.cfg` files those of a disagreement. The instances are small enough without symmetry.

Correspondence with the code:

* The priority field of `NowStatusEvent` is `priority`. `Key_Pause_Flag` and
  `Water_Alarm_Pause` are always written together and are `Pause_Flag`. `Turn`, `Act`,
  `Det` and `SenorIrq` are the output pins, the running `MotoN_Timer_Act` and
  `MotoN_Timer_Detect`, and the enabled edge interrupts. `timers` has the running ones of
  `Delay_Timer`, `Learn_Timer` and `Moto_Detect_Timer`.
* `OpenedStatus` and `ClosedStatus` give what `Moto_Open` and `Moto_Close` leave in
  `Now_Status`; most callers overwrite it afterwards, and an action states the final value.
* A frame is its sender and its command. `alive`, a parameter of the radio actions, says
  whether the table's presence flags then show every sensor alive, which decides
  `Offline_React`. `off` in `RTC_Timer_Entry` says whether the sweep found a silent sensor.
* `SlaveAlarm` holds the alarm flags in RAM, which belong to a table slot: `Freed` stands
  for the slot of a deleted device that kept its flag, and `Inherited` lets the next
  learned device have it. `StoredAlarm` holds the flags in flash, which belong to a device.
  A boot loads the flags of registered devices.
* `Turn_Flag` counts edges up to 2, the only value the code asks about. This is the only
  bound inside `Valve`.
* In `Presence`, of `Now_Status` only "Offline or not" is kept: `StatusReplaced` is any other
  handler taking the status, and whether the arbiter accepts the Offline warning is left open.
  Four history variables: `silent[s]`, the powered hours since the device in slot `s` was
  heard or came there, counted up to `2 * Cap` and not set back by a restart (0 in a free slot);
  `settled`, the slots whose device was heard again after it was learned or was there at boot;
  `up`, the hours since the last boot, up to `Cap`; `mixed`, whether that boot found an id in two
  slots. A sweep over such a table is modelled as well: `Device_AliveChange` looks the id up
  again and marks the higher slot.
* In `Radio` a frame is a reply to a unit or a report to the gateway, with or without an answer
  asked for, and its number. A copy is sent in steps, `Begin` (interrupts masked, the first attempt
  at the transmit mode), `ModeSet` or `ModeFailed` (an attempt is two loops of 50 ms at most; two
  failed ones, each with `rf_restart`, end it) and `Start` (state, interrupt, timer), because the
  timer thread and a receive that was blocked come in between. `rf_433_task` runs above `radio_send`, so its handlers are one step,
  except a receive: its handler may wait for EasyFlash's lock, which a lower thread can hold,
  and `Continue` is what follows. `AX5043Receiver_Continuous` records the state of a receiver
  whether its mode came up or was given up. The transceiver (`chip`) is external: it may or may
  not raise an interrupt a state waits for, each mode may or may not come up, and it reports done
  for a transmission or, receiving, for a frame received. Answers of the gateway come at any
  time, as they carry no identity. Time is counted in ticks of 100 ms: an attempt is 1, the waits
  are 2 and 4, the timer is 10. `MaxFrames` bounds the frames of a behaviour.
* In `Buttons` a sample reads any level: a paused key (self-test) reads released like any other.
  `BUTTON_UP` lasts only inside one call of `Button_Cycle_Process`, so it is not a state. `held` is
  a history variable: samples the key has read pressed, up to `HeldMax`. The loop's five tries
  are one step or several, with scans in between, and a branch takes up to `MaxLag` scans. After
  an erase the unit resets. The thresholds are constants (200, 25, 15, 255, 6 in the code) and
  small in the run.
* In `EnvStore` a node takes one of `Cap` slots of a sector (4096 bytes in the code, some ninety
  nodes). A node without header has no key, one without value no value: that is a failed CRC.
  `pc` is the next flash write or the decision before one. `abandoned` is a history
  variable: a value was left behind, by a recovery that ended early (see `Readable` below), or by
  a move that found no room when no collection follows that would try again.
  `MaxLoss` bounds the power losses of a behaviour.
* The water wire is an input (`wire`) that changes at any time.
* Definitions marked *Faulty* are plausible wrong versions of the definition that follows
  them. No specification uses them: replacing the definition by one shows which property
  would notice.

## 3. What is checked

In Valve and the table modules handlers run to completion: an action is a whole callback, a pass of the key thread, a
frame, an hour. Between them everything interleaves, timers expire in any order, and
power may be lost, also between the two flash writes of the slave-alarm and close
commands, between the writes of one table operation and, in the table modules, inside a wipe. One `ef_set_env` is atomic there;
`EnvStore` shows how far it is.

| Run | Instance | Properties |
|---|---|---|
| `valve_alarms` | one sensor and the door unit, all wire states and temperatures, no end switches | `AlarmShut`, `ThawKeepsLock`, `ScanArmed`, `SlaveAlarmStored`, `NoDowngrade`, `ImplementsInterlock`, `ImplementsTable` |
| `valve_live` | one end switch, the door unit, dry or wet wire, factory pin low or high, fair | `TypeOK`, `LockedShut`, `SelfTestSound`, `PauseEnds`, `OutputRestored`, `LearnEnds`, `WaterShuts` |
| `alarm_flags` | a sensor, two door units, a gateway, two slots, torn writes and wipes | `TableTypeOK`, `OneSlotKept`, `OneDoorKept`, `SlotsImplementTable` |
| `presence` | a sensor, a door unit, two slots, a period of two hours, torn writes and wipes | `TypeOK`, `DetectedInTime`, `OfflineJustified`, `MarkedOnlyIfSilent` |
| `radio` | a queue of two, three frames, fair | `TypeOK`, `HoldBounded`, `QueueOrder`, `RecoveryArmed`, `ListensAgain` |
| `keys` | both keys, thresholds of 1 to 4 samples, a branch of one scan, fair | `TypeOK`, `CountsThisHold`, `EraseNeedsBothHeld`, `ClickIsShort`, `OffAnswered`, `HoldAnswered` |
| `env_store` | one key and the default one, two sectors of five nodes, two power losses, fair | `TypeOK`, `WholeNodes`, `ReadsBack`, `SpareSector`, `RoomToWrite`, `AtomicSet`, `BootEnds` |

Why these bounds are enough. Units differ to the valve only in being the door unit or not
and in having their alarm flag set: one sensor and the door give every combination of
senders, and with both flags set also "one cleared, one left". One end switch gives every
overlap of self-tests; the two motors share nothing but the pause and the close, and the
proofs cover both. Two slots with more ids than slots give a
full table, a hole below the highest slot, reuse of every hole by every kind of device, and a key
left above the count by a wipe cut short and brought back beside its owner's new slot;
two slots and a period of two hours give the sweep every phase relative to a device falling
silent, being deleted, being replaced and to restarts. A gateway in the sweep is left to the
proofs. Three frames and a queue of two give an overflow, a
reply overtaking reports, and a frame taken up while the timer of the one before still runs.
A long time above, at and below each threshold happens with thresholds of a few samples, and
a hold of seven is past them all; two scans per branch (663,626 states) pass too. Two
sectors of five nodes fill, wrap around and are collected, with one sector in use and one
spare every collection depends on the spare, and the second loss can hit the recovery from
the first. The firmware has four sectors: three sectors of four nodes (403,636 states, under
3 minutes) and three of three (240,626 states) pass too, with the same losses, and so do four
sectors, and two keys, with one loss. Three losses with
three nodes a sector, or two with two, do lose data: each loss can burn a node, until a
collection finds no room for a move and formats all the same. That is why `SpareSector` and
`RoomToWrite` speak of roomy stores, in which a sector has a slot for every key, one for every
node torn by a power loss, and one more; the store of `env_store` is roomy throughout.
What a small instance leaves out the proofs supply: every safety property of these runs is
also a theorem for all values of the constants.

What the properties say:

* `LockedShut`, `AlarmShut`: locked means shut with both outputs low and no timer left to
  raise them; so does a closing warning on display.
* `SelfTestSound`, `PauseEnds`, `OutputRestored`: an output of an open valve is low, and
  the inputs are paused, only while a timer runs that undoes it, and it does.
* `ThawKeepsLock`: a unit that will reopen when it thaws was not locked meanwhile.
* `SlaveAlarmStored`: once memory and flash agree about a device's alarm flag they go on to while
  it is in the table. A restart that meets the slave-alarm status comes up locked, and in alarm
  again if any flag behind it is recorded; the flags that are not were inherited with a slot or
  left in a freed one (`Flash_Set_SlaveAlarmFlag` writes nothing for them). A restart between the
  two writes of the handler comes up locked and in alarm.
* `ScanArmed`, `WaterShuts`: the scan's memory never hides the next change after it acted on a
  dry or a lost wire (after water it compares repeated codes away until it is cleared,
  `Work.c:116`); with standing water outside learn mode the valve is shut again and again, whoever opens it.
* `NoDowngrade`: a shown warning gives way only to one at least as urgent, or is cleared.
* `OneSlotKept`: an id comes to hold two slots in one way only, a learn cut short after the count
  was raised over a key still in flash, and only a wipe cut short leaves such a key.
  `OneDoorKept`: that a door unit in the table is the one `DoorNum` names is lost only by a
  torn write, never by a whole operation.
* `HoldBounded`: the waits and mode switches of one frame add up to 2.8 s at most, failing ones
  included; what threads above `radio_send` take meanwhile comes on top. `QueueOrder`: replies go before reports,
  and reports keep their order, so an alarm never arrives after its end.
* `RecoveryArmed`, `ListensAgain`: whenever the transceiver is not receiving, something is under
  way that brings it back, and it does once the frames are sent, whichever interrupts were lost,
  with two exceptions: the driver gave up the receive mode (`GaveUp`), or a receiver turned on
  under a copy reported a frame as the end of that copy (`Crossed`). There only the next frame
  sent brings the unit back; section 3 has both.
* `DetectedInTime`: no device stays marked alive through two periods of silence, restarts
  included, once the unit has been up for a period, whatever the
  phase of the sweep and whoever had the slot before. `MarkedOnlyIfSilent`: one heard since it
  was learned is marked dead only after a whole silent period. `OfflineJustified`: the Offline
  status is raised only over a registered sensor marked dead and ends, outside learn mode, with
  the last of them; the one thing that keeps it longer is a free slot marked dead. All three leave
  out boots that found an id in two slots (`mixed`).
* `SlotsImplementTable`, `ImplementsTable`: registrations and alarm flags change as
  AlarmTable allows, the first in every step from a state in which no id holds two slots. Its one surprise is part of the code: a flag in memory belongs to the
  slot, outlives its device, and passes to the next one.
* `CountsThisHold`, `EraseNeedsBothHeld`: what a key counted is gone with its release, so the
  erase of all devices is requested only while both keys are down and have been all along.
  `ClickIsShort`: the release that ends a hold is not also a click.
* `OffAnswered`, `HoldAnswered`: a click of OFF is served, unless ON was clicked in the
  same pass or an erase resets the unit, and so is a lasting hold of OFF alone. Served means its
  branch is entered: what that does depends on the status (`Valve`): OFF closes, or in a warning
  status silences; a hold starts or ends learn mode, or in a warning status only logs.
* `WholeNodes`: a status never runs ahead of the data. `AtomicSet`: what the flash says a key is
  worth changes in one step, to the value asked for, and no loss, collection or recovery changes
  it. `ReadsBack`: between operations a read returns just that. `SpareSector`: a sector stays free
  for the next collection. `RoomToWrite`: a collection finds room for every node that it will
  erase, recovery gives up only to collect first, and a write does not fail after its
  collection; `do_gc` relies on the first without looking. `BootEnds`: every call and every boot
  ends.
* `LearnEnds`: learn mode, in which sensors are not heard, ends.
* `ImplementsInterlock`: every step, restarts between flash writes included, is allowed by
  the interlock: an alarm shuts, a lock is lifted only by a remote open or a wipe, a thaw
  restores. The wipe is one step here.

**Fairness.** `Fairness` is weak fairness of the one-shot timers of self-test and learn
mode: the timer thread has the highest priority of the application, so an armed timer
expires. `FairSpec` adds strong fairness of the scan: it runs every second and a pause of
the inputs lasts at most about eight seconds with minutes between self-tests, so it also
runs between two pauses. `LearnEnds` holds because the learn timer is fair; every learn
frame restarts it (30 s), and a learn frame is a step that leaves it armed, so what is
assumed is that learn traffic does not arrive forever at intervals under 30 s.
In `Radio`, `FairSpec` has the threads run, time pass and the timer expire, and one thing of
the transceiver: a radio that reported done while still busy reports once more, as the
handler of `tx_waitdone` relies on. Every other interrupt may be lost. `ListensAgain` is about
the end of the traffic: each copy restarts the 1 s timer and a stuck transceiver is fed a copy
at least every 800 ms, so it is only restarted when the sender pauses.
In `Buttons` the scan runs every 10 ms and then sleeps, so it is weakly fair; the key loop has a lower
priority and is disabled while a scan is under way, but gets its turn between any two, so it
is strongly fair. In `EnvStore` the operation under way goes on while there is power; nobody
has to call anything, and power losses are bounded, so a boot is not interrupted for ever.
No fairness is assumed of keys, frames, hours or the wire.

### Disagreements found

Five runs show the code doing other than a message or comment in it says. Each checks
one property and is expected to be violated; `PROJECT.json` has the lines.

* `finding_open_in_water` (`RemoteOpenRefusedInWater`): remote close, wire lost, ON gives status
  Open over a shut, locked valve; a closing delay started then is not stopped by the water
  alarm, whose close is refused; it takes the unit out of the alarm, and a remote open
  succeeds in standing water.
* `finding_motofail_sticks` (`PassedTestLifts`): a good self-test announces the end of the
  motor alarm and leaves status MotoFail.
* `finding_sensor_as_gateway` (`SensorNotGateway`): deleting a gateway keeps `GatewayNum`, so the
  next sensor in that slot is taken for the gateway and its silence raises no warning.
* `finding_value_unreadable` (`Readable`): recovery stops at the first unfinished node. A power
  loss while a value is replaced by a node at a lower address leaves the old node behind that
  point, marked for deletion: the next boot does not find the key, though its value is in the
  flash. A later collection can even bring it back beside a newer one. `AtomicSet` and
  `ReadsBack` are therefore about behaviours in which nothing was `abandoned` yet.
* `finding_preempted_open` (`AlreadyOff`): a remote open waiting for the flash is preempted by the
  closing delay, which shuts and locks the valve; the open then raises the outputs. The
  next remote close logs "Moto is alreay otheroff" and drives nothing.

`WaterShuts` is therefore checked without the lost-wire case: with it, the first finding
is a counterexample.

The model shows further behaviour worth knowing that no line of the code denies as plainly:

* When the main unit's own wire gets wet and dry again under a slave's alarm, the status
  becomes the acknowledgeable one (`Status.c:112`); after OFF a remote open is obeyed with the
  slave's flag still set, though a restart in that state would refuse to open.
* While a self-test pauses the inputs, the scan reads a dry connected wire (`Work.c:73`) and
  reports a lost wire as reconnected.
* `Offline_React` counts free slots (`flashwork.c:679`), so status Offline can outlast the return of
  every sensor when a slot below the highest one is free and not marked alive: deleting the sensor
  that is offline does not end it. `OfflineJustified` names this case and allows no other.
* A wipe cut short can leave a slot's key in flash without the count (`ef_env.c:1551`; the next boot
  starts over only if every sector is bad). Learning the same device again into a lower slot and
  losing power in the next learn, after the count was raised, gives it two slots: deleting it
  then leaves it in the table. `OneSlotKept` shows that it takes both losses.
* A restart sets every silence counter and the sweep's hours back (`flashwork.c:706`). A unit that
  restarts more often than every 25 hours never reports a silent sensor; hence `up` in
  `DetectedInTime`.
* A water alarm of a device that inherited its slot's flag is not written to flash
  (`flashwork.c:761`): a restart comes up locked, but not in alarm.
* A low-battery report raises the priority to 4 without changing the status (`Status.c:85`), so
  freeze, motor and lost-wire warnings are refused until something calls `Warning_Disable`.
* Keys: one sample of 10 ms is a press (`BUTTON_DEBOUNCE_TIME` is 1, while `button.h` speaks of
  40 ms); the second of two quick presses is swallowed as a double click nobody attached to;
  ON and OFF clicked in one pass of the loop only open; a hold of two to four seconds is
  neither a click nor a long press; the first long event can come early, as
  `Button_Cycle` is never reset and `Long_Time` not after a double click.
* A power loss inside the deletion of a door unit (`flashwork.c:491`) leaves `DoorNum` at a free
  slot; a sensor learned there has its water alarms dropped as replies of the door unit. This
  is why `OneDoorKept` excepts torn writes.
* A device learned into a used slot inherits its silence counter and marks
  (`flashwork.c:373`), so it can be reported offline early: `MarkedOnlyIfSilent` speaks of
  devices heard since they were learned.
* An answer of the gateway that comes late ends the retries of the next report, even one whose
  copy was lost because a receive that had waited for the flash lock switched the transceiver
  back (`Radio_433.c:117`). So no property here says that an answered report was transmitted.
* `AX5043SetOperationMode_RX` gives up after two attempts (`Radio_Common.c:121`), and line 218 records
  `trxstate_rx` all the same, with the timer stopped: the unit is deaf, water alarms of its
  sensors included, until it sends a frame itself. A copy has the 1 s timer behind it, the
  receive mode nothing.
* A receive that ends while a copy is being started turns the receiver on under it
  (`Radio_433.c:117`). The interrupts of that receiver then pass for those of the copy; if a
  received frame is taken for its end, the timer is stopped in state `tx_waitdone` and the
  frame is never read, until the next frame is sent.
* A store that is not roomy can lose more than space. With two sectors of two nodes and one power
  loss, TLC finds a boot that never ends: recovery finds no room, asks for a collection, the
  collection frees nothing, and `ef_load_env` starts again. The unit is far from it: it writes
  some sixty keys of one node each into four sectors of some ninety.
* A device deleted in alarm keeps its flag in flash; learned again, it raises the alarm at
  the next restart (`AlarmTable`, `Load`).

## 4. What is proved

`ValveProofs` proves, for every value of the constants allowed by the named assumptions
(`DoorAssumption`, `FreedAssumption`, `SensorsAssumption`, `WiresAssumption`,
`VoltsAssumption`, `TestPinsAssumption`), that `IInv` is invariant (`Invariance`), and from
it `TypeCorrect`, `LockedStaysShut`, `AlarmsAreShut`, `SelfTestIsSound`,
`ThawRespectsLock`, `ScanStaysArmed`; and of its steps
`NeverDowngraded`, `SlaveAlarmIsStored`, `Refinement` (`Spec => ImplementsInterlock`) and `TableRefinement`
(`Spec => ImplementsTable`).

For every number of slots, every period and every set of ids (`MaxSlotAssumption`,
`IdsAssumption`, `CapAssumption`), `TableProofs` proves `OneSlotKeeps` (`OneSlotKept`) and `DoorKept`
(`OneDoorKept`) of `TornSpec` (power may fail anywhere), `OneSlotInvariance` of `WholeWipeSpec` (no wipe is
cut short: no id holds two slots) and, of `TableSpec` (whole operations only), `OneDoorOnly`; `PresenceProofs` proves `PresenceInvariance` and from it `SilenceDetected`
(`DetectedInTime`), `NoSettledEarly` (`MarkedOnlyIfSilent`) and `OfflineHasCause`;
`AlarmProofs` proves `SlotsRefine` (`Spec => SlotsImplementTable`).

For every queue length and number of frames (`RadioAssumption`), `RadioProofs` proves
`RadioInvariance` and from it `FrameTime` (`HoldBounded`), `FramesInOrder` (`QueueOrder`) and
`DeafOnlyIf` (`RecoveryArmed`).

For any thresholds (`ButtonsAssumption`), `ButtonsProofs` proves `TypeCorrect`, `CountsOfThisHold`,
`EraseOnlyBothHeld` and `ClickOnlyShort`. For any sectors, nodes per sector, keys, values and
power losses (`EnvAssumption`), `EnvProofs` proves `TypeCorrect` and `NodesWhole`, and `EnvAtomic`
`AtomicSetHolds` (`AtomicSet`), `ReadsBackHolds`, `SpareSectorHolds` and `RoomToWriteHolds`. `TableTypes`,
`PresenceTypes` and `RadioTypes` are the type invariants of the other modules.

Why the strengthening is needed: none of the properties is inductive alone. `AlarmShut`
needs `LockedShut`, because a refused close leaves the valve as it was, and refusal means
locked. `LockedShut` needs `SelfTestSound`, because the timers left by a self-test move the
outputs. `ThawKeepsLock` needs `SelfTestSound` and `LockedShut`, since the saved position 1
means open, hence not locked, at the time of saving, and the lock is only written by
handlers that leave the freeze status. `NoDowngrade` and the refinement need
`PriorityShown`: the arbiter's priority is at least that of the warning shown, so a less
urgent one is refused.

The argument follows the shape of the code. `IInv` is split into the part the motor
operations keep (`MotoOK`), the arbiter's (`StatusOK`), the scan's (`ScanOK`), the link
between status and storage (`LinkOK`) and types. One lemma per shared operation
(`CloseOK`, `OpenOK`, `DetectOK`, `EnableOK`, `NotifyOK`, ...) says what it keeps and what it
leaves; one lemma per group of handlers (`ScanStepOK`, `NTCStep`, `TimerStep`, `KeyStep`,
`RadioStep`, ...) puts them together. The refinement sorts steps into the interlock's kinds.

For presence the strengthening is `PInv`. A set mark `GetMesssage` means the device was heard
since the last sweep, so its silence is at most the hours counted since (`HeardBound`); a clear
mark on a live slot means the counter has run at least as long as the sweep's (`Counting`), so
it reaches the cap by the next sweep, which marks the device dead. `SilenceBound` is the other
direction: for a settled device the counter never runs ahead of the silence. `Unused` says that
slots above the highest one are not alive, so a slot that comes into use starts dead. A boot sets
the counters back and not the silence, so `HeardBound` has a second case: no more hours since the
boot than on the sweep's count. All of these need an id to have one slot (the sweep marks the
slot where it finds the id), so `PInv` has them unless `mixed`; the boot that could break
`OneSlotEach` decides that.

For the table, a learn that is not cut short writes the slot's key itself, and gives an id only
to a table without it; a deletion or a wipe only takes keys away. So two slots with one id come
only from a key above the count that the count is raised over, which is `TornNum` with a
`Leftover`. Whole operations and torn learns write keys at or below the new count and never lower
the count, so a `Leftover` comes only from `TornWipe`.

The refinement of AlarmTable needs `OneSlotEach` before the step: an operation on an id acts on one slot, so adding or
removing that slot's flag is adding or removing that id's.

`SlaveAlarmStored` is a statement about steps: that a flag stays recorded follows from the
table's steps (`EveryTable`, `RecordKept`), that a restart comes up locked from `SlaveAlarmLocked`, a
conjunct of `IInv`: behind a shown slave alarm stand a flag in memory and the lock.

For the radio, `HoldBounded` needs `HeldSoFar`, what a frame may have used by where the sender is
and how many copies were sent again: each takes at most eight ticks, the last one four.
`RecoveryArmed` needs `NotSending`: a state that says receiving is not that of a sender.
`QueueOrder` needs `Numbered`: a report put at the tail bears a number above all others.

For the keys, the erase needs a bound on each counter by the length of the hold: a count `c` means
at least `(c - 1)` cycles and a sample have been read pressed, and a count is only there while its key is down. For the
store, a step that finishes a node must know what earlier steps wrote: `Stage` says, for each
place of a write, which of header and value are in the flash and that the node is the last of
its sector; `Control` ties a collection to the request it will return to.

That a set is atomic (`EnvAtomic`) rests on `JInv`: until something was abandoned, the store is
`Consistent`. Call a node with status WRITE *written* and one with PRE_DELETE *marked*. `Unique`
says a key has one written node, none while its successor is being written, and that a marked
node differs from the node that counts only in a dirty sector; that is what makes an
interrupted collection harmless, which cannot tell a node that was being moved from one that was
being replaced. `Recovered` says where marked nodes may be: outside recovery only the one the
current write replaces; in recovery only where its iteration has not been yet; none when it
ends without asking for a collection. `Swept` is the same for a collection: the sectors behind it are clean,
and the one it is in has no live node before its position, so the erase takes nothing that
counts. `TargetReady` and `OldReady` say how far the new node has come and what the old one still
is, `Shape` that statuses of a sector fit its contents, `Phase` when recovery is on. Each
action has a lemma `Atom_...`; then what a key is worth is computed before and after the four
steps that change a live node (`StoreMarkOld`, `StoreCommit`, `StoreDeleteOld`, `StoreWipe`), all
others leaving the live nodes alone (`QuietStep`).

That there is room rests on `RInv`: in a roomy store, until something was abandoned, the store is
`Spacious`. `Fits` is the heart: a *clean* sector is not full, because what it holds besides one
node for each key (`Unique` again, counted by `Count`) was torn by a power loss, at most one node
for each, or is being written; a node that was replaced makes its sector dirty. So a clean sector
always has room (`CleanRoom`), and a collection needs one clean sector (`Refuge`) and gives back
the one it empties. `Spare` follows that sector through the steps: there is an empty one, or a
collection is under way, or was stopped by a power loss and boot will resume it, or a header is
missing and boot will write it. `Asked` and `Headers` say when a collection is asked for and which
sectors lack a header. One lemma `Room_...` for each action. The condition `Roomy` counts all losses
since the store was made, though a collection clears what they left; counting per collection
would allow more.

Model-checked only: the liveness properties, as fairness and ENABLED are out of the prover's
reach, and the counterexamples of the findings.

## 5. Limits, and what is not modelled

* In Valve handlers are atomic. The code has no locks, and a handler of a low-priority thread can be
  preempted by the timer thread; `ValvePreempt` shows what that does to the motor commands. Alarms
  and the self-test are not in that module, so races with them (a close preempted by an Act
  timer between `rt_pin_write` and `rt_timer_stop`, an alarm raised between a test of
  `Now_Status` and the command) are not explored.
* The boot is one step; in the code radio and keys run before `Moto_Init`.
* In `Valve` the wipe is one step, followed by the reset. A wipe cut short, which can keep or lose
  the close flag apart from the registrations, is modelled in the table modules only.
* In `Valve` the door role follows the device id. A power loss inside adding or deleting a
  door unit can separate them, as `DeviceTable` shows.
* `EnvStore` takes a flash write as done or not done; a write torn inside a word and a chip
  that reports errors are left out. The address caches of `ef_env.c` are left out. `ef_del_env`,
  values too long and the auto-update are not used by the unit.
* Frames whose id is 0 and boots without a working flash chip are left out.
* The gateway link (`gateway.c`) reaches only the lamp and the reports, so no property here could
  tell it apart; the antenna switch copies a level to two pins.
* Not modelled: lamps, beeper, uploads to the gateway, battery and signal levels, frame
  parsing, hardware set-up, RTOS, HAL, vendored packages other than the button scanner and
  the key-value store. They are by far the most of the repository's lines (RT-Thread with
  every component, the STM32 HAL twice), and the unit uses a small part of them through
  interfaces that appear here as timers, threads by priority, pins and flash writes.

## 6. Plan

1. Valve, its interlock, runs and proofs (done).
2. DeviceTable, AlarmTable and AlarmFlags, Presence, their runs and proofs (done).
3. Radio: queue, sender and driver, its run and proofs (done).
4. Buttons: scanner, counters, key loop, its run and proofs (done).
5. EnvStore: the store write by write, its runs, and the proofs of types, whole nodes, atomic sets,
   reads, the spare sector and room (done).
6. ValvePreempt: the motor commands preempted (done); alarms and self-test timers in it are left.
7. Left: proofs about ValvePreempt; the boot window before `Moto_Init`.
