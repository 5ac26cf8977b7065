------------------------------ MODULE Presence ------------------------------
(***************************************************************************)
(* Which learned devices are still there: the hourly counters and the      *)
(* sweep every Cap hours (applications/RTCWork.c, storage/flashwork.c),    *)
(* the frames that count as signs of life (radio/Radio_Decoder.c) and the  *)
(* device table under them all.                                            *)
(*                                                                         *)
(* Of Now_Status only whether it is Offline is kept.  Four history         *)
(* variables: silent[s], the powered hours (up to 2 * Cap) since the       *)
(* device in slot s was last heard or came into the slot, restarts         *)
(* notwithstanding, 0 in a free slot; settled, the slots whose device was  *)
(* heard again after it was learned, or was there at boot; up, the hours   *)
(* (up to Cap) since the last boot; mixed, whether that boot found an id   *)
(* in two slots.                                                           *)
(***************************************************************************)
EXTENDS DeviceTable

CONSTANT Cap    \* 25 hours, the period of the sweep and the top of ID_Time

ASSUME CapAssumption == Cap \in Nat \ {0}

VARIABLES
    ID_Time, Alive, GetMesssage,    \* by slot, in memory only
    StoredAlive,                    \* ids whose alive flag is set in flash
    RTC_Counter, Learn_Flag, offline,
    silent, settled, up, mixed

slotVars == <<ID_Time, Alive, GetMesssage>>
bootVars == <<up, mixed>>
histVars == <<silent, settled, bootVars>>
vars == <<tableVars, slotVars, StoredAlive, RTC_Counter, Learn_Flag, offline, histVars>>

Zero == [s \in Slot |-> 0]

Init ==
    /\ TableInit
    /\ ID_Time = Zero /\ Alive = Zero /\ GetMesssage = Zero
    /\ StoredAlive = {}
    /\ RTC_Counter = 0 /\ Learn_Flag = 0 /\ offline = FALSE
    /\ silent = Zero /\ settled = {} /\ up = 0 /\ mixed = FALSE

-----------------------------------------------------------------------------
(***************************************************************************)
(* A frame.                                                                *)
(***************************************************************************)
\* Device_AliveChange(d, 1) for the d in slot s: flash is written only when
\* one of the two marks of the slot moves.
Device_AliveChange(s, d) ==
    /\ Alive' = [Alive EXCEPT ![s] = 1] /\ GetMesssage' = [GetMesssage EXCEPT ![s] = 1]
    /\ StoredAlive' = IF Alive[s] = 1 /\ GetMesssage[s] = 1 THEN StoredAlive
                      ELSE StoredAlive \cup {d}
    /\ silent' = [silent EXCEPT ![s] = 0] /\ settled' = settled \cup {s}

\* Some slot, free ones included, other than those of the door unit and the
\* gateway is marked dead.
SomeDead(alive) == \E s \in 1..Num : alive[s] = 0 /\ s # DoorNum /\ s # GatewayNum

\* Faulty: nothing looks whether the warning still holds.
Offline_React_None(alive) == UNCHANGED offline

\* The status Offline ends when no such slot is left.
Offline_React(alive) == offline' = (offline /\ SomeDead(alive))

\* A frame outside learn mode: the mark, and at the end of DataSolve
\* Clear_Device_Time and Offline_React.
NormalSolve(d) ==
    /\ Learn_Flag = 0
    /\ \E s \in Slot :
         /\ Found(s, d)
         /\ Device_AliveChange(s, d)
         /\ ID_Time' = [ID_Time EXCEPT ![s] = 0]
    /\ Offline_React(Alive')
    /\ UNCHANGED <<tableVars, RTC_Counter, Learn_Flag, bootVars>>

\* A frame in learn mode of a known device only sets the mark.
LearnKnown(d) ==
    /\ Learn_Flag = 1
    /\ \E s \in Slot : Found(s, d) /\ Device_AliveChange(s, d)
    /\ UNCHANGED <<tableVars, ID_Time, RTC_Counter, Learn_Flag, offline, bootVars>>

\* A learn frame of an unknown device: the slot keeps its counters and marks.
LearnNew(d) ==
    /\ Learn_Flag = 1
    /\ \E s \in Slot :
         /\ Learn(s, d)
         /\ silent' = [silent EXCEPT ![s] = 0] /\ settled' = settled \ {s}
    /\ UNCHANGED <<slotVars, StoredAlive, RTC_Counter, Learn_Flag, offline, bootVars>>

\* Learn mode starts in a normal status only; leaving it clears the status.
Start_Learn ==
    /\ Learn_Flag = 0 /\ ~offline
    /\ Learn_Flag' = 1
    /\ UNCHANGED <<tableVars, slotVars, StoredAlive, RTC_Counter, offline, histVars>>

Stop_Learn ==
    /\ Learn_Flag = 1
    /\ Learn_Flag' = 0 /\ offline' = FALSE
    /\ UNCHANGED <<tableVars, slotVars, StoredAlive, RTC_Counter, histVars>>

\* Another handler replaces the status Offline.
StatusReplaced ==
    /\ offline /\ offline' = FALSE
    /\ UNCHANGED <<tableVars, slotVars, StoredAlive, RTC_Counter, Learn_Flag, histVars>>

\* Gateway command 6.
Delete(d) ==
    /\ Delete_Device(d)
    /\ silent' = [s \in Slot |-> IF ID'[s] = None THEN 0 ELSE silent[s]]
    /\ settled' = {s \in settled : ID'[s] # None}
    /\ UNCHANGED <<slotVars, StoredAlive, RTC_Counter, Learn_Flag, offline, bootVars>>

-----------------------------------------------------------------------------
(***************************************************************************)
(* The hourly thread.                                                      *)
(***************************************************************************)
\* Faulty: counters not held at the cap, and counters held one short of it.
Aged_Uncapped(s) == IF s <= Num THEN ID_Time[s] + 1 ELSE ID_Time[s]
Aged_Short(s) == IF s <= Num /\ ID_Time[s] < Cap - 1 THEN ID_Time[s] + 1 ELSE ID_Time[s]

\* ID_Time[s] after Update_All_Time.
Aged(s) == IF s <= Num /\ ID_Time[s] < Cap THEN ID_Time[s] + 1 ELSE ID_Time[s]

Older ==
    /\ silent' = [s \in Slot |-> IF ID[s] # None /\ silent[s] < 2 * Cap THEN silent[s] + 1 ELSE silent[s]]
    /\ up' = IF up < Cap THEN up + 1 ELSE up

\* Faulty: a message since the last sweep does not count.
Overdue_Deaf(s) == s <= Num /\ Aged(s) = Cap /\ ID[s] # None

\* The slots Detect_All_Time finds silent.
Overdue(s) == s <= Num /\ Aged(s) = Cap /\ GetMesssage[s] = 0 /\ ID[s] # None

\* The slots it marks dead: Device_AliveChange looks the id up again.
MarkedDead(s) == \E t \in Slot : Overdue(t) /\ (t = DoorNum \/ t # GatewayNum) /\ Found(s, ID[t])

\* The slots Clear_All_Time starts afresh.
Cleared(s) == s <= Num /\ (Aged(s) < Cap \/ (GetMesssage[s] = 1 /\ ~MarkedDead(s)))

Update_All_Time ==
    /\ RTC_Counter < Cap - 1
    /\ RTC_Counter' = RTC_Counter + 1
    /\ ID_Time' = [s \in Slot |-> Aged(s)]
    /\ UNCHANGED <<Alive, GetMesssage, StoredAlive, offline>>

\* A sensor marked dead raises the Offline warning, which the arbiter may
\* refuse.
Detect_All_Time ==
    /\ RTC_Counter >= Cap - 1
    /\ RTC_Counter' = 0
    /\ Alive' = [s \in Slot |-> IF MarkedDead(s) THEN 0 ELSE Alive[s]]
    /\ StoredAlive' =
         StoredAlive \ {ID[s] : s \in {t \in Slot : MarkedDead(t) /\ (Alive[t] = 1 \/ GetMesssage[t] = 1)}}
    /\ ID_Time' = [s \in Slot |-> IF Cleared(s) THEN 0 ELSE Aged(s)]
    /\ GetMesssage' = [s \in Slot |-> IF Cleared(s) \/ MarkedDead(s) THEN 0 ELSE GetMesssage[s]]
    /\ \/ offline' = offline
       \/ offline' = TRUE /\ \E s \in Slot : Overdue(s) /\ s # DoorNum /\ s # GatewayNum

Hour ==
    /\ Update_All_Time \/ Detect_All_Time
    /\ Older
    /\ UNCHANGED <<tableVars, Learn_Flag, settled, mixed>>

-----------------------------------------------------------------------------
(***************************************************************************)
(* Restarts.                                                               *)
(***************************************************************************)
\* Boot over what flash holds now.  All counters start at zero, whatever the
\* silence before.
LoadDevice2Memory ==
    /\ ID_Time' = Zero /\ GetMesssage' = Zero
    /\ Alive' = [s \in Slot |-> IF ID'[s] \in StoredAlive' THEN 1 ELSE 0]
    /\ RTC_Counter' = 0 /\ Learn_Flag' = 0 /\ offline' = FALSE
    /\ silent' = [s \in Slot |-> IF ID'[s] = ID[s] THEN silent[s] ELSE 0]
    /\ settled' = {s \in Slot : ID'[s] # None}
    /\ up' = 0 /\ mixed' = ~OneSlotEach'

Reset == UNCHANGED <<tableVars, StoredAlive>> /\ LoadDevice2Memory

\* Power lost between two writes of one table operation: devices are added in
\* learn mode only, deleted and wiped at any time.
TornReset ==
    /\ \/ TornStep /\ (Learn_Flag = 1 \/ \E d \in Ids : TornDelete(d)) /\ UNCHANGED StoredAlive
       \/ TornWipe /\ StoredAlive' \in SUBSET StoredAlive
    /\ LoadDevice2Memory

\* Both keys: everything stored and everything in memory but the hour count
\* is cleared; the status stays until the reset three seconds later.
Wipe ==
    /\ DeleteAllDevice
    /\ ID_Time' = Zero /\ Alive' = Zero /\ GetMesssage' = Zero
    /\ StoredAlive' = {}
    /\ silent' = Zero /\ settled' = {}
    /\ UNCHANGED <<RTC_Counter, Learn_Flag, offline, bootVars>>

Next ==
    \/ \E d \in Ids : NormalSolve(d) \/ LearnKnown(d) \/ LearnNew(d) \/ Delete(d)
    \/ Start_Learn \/ Stop_Learn \/ StatusReplaced
    \/ Hour \/ Reset \/ TornReset \/ Wipe

Spec == Init /\ [][Next]_vars

-----------------------------------------------------------------------------
TypeOK ==
    /\ TableTypeOK
    /\ ID_Time \in [Slot -> 0..Cap]
    /\ Alive \in [Slot -> {0, 1}] /\ GetMesssage \in [Slot -> {0, 1}]
    /\ StoredAlive \subseteq Ids
    /\ RTC_Counter \in 0..(Cap - 1)
    /\ Learn_Flag \in {0, 1} /\ offline \in BOOLEAN
    /\ silent \in [Slot -> 0..(2 * Cap)] /\ settled \subseteq Slot
    /\ up \in 0..Cap /\ mixed \in BOOLEAN

\* A slot the sweep may mark dead: its device, unless it plays the gateway.
Watched(s) == s <= Num /\ ID[s] # None /\ (s = DoorNum \/ s # GatewayNum)

\* Once the unit has been up for a period, no device stays marked alive through
\* two periods of silence, whatever the phase of the sweep when it fell silent,
\* the restarts since and whoever had its slot before.  A unit that restarts
\* within every period never sweeps, and finds nobody silent.
DetectedInTime ==
    \A s \in Slot : ~mixed /\ up = Cap /\ Watched(s) /\ silent[s] = 2 * Cap => Alive[s] = 0

\* A device that was heard since it was learned is marked dead only after a
\* whole period without a frame.
MarkedOnlyIfSilent ==
    [][Hour /\ ~mixed => \A s \in settled : Alive[s] = 1 /\ Alive'[s] = 0 => silent'[s] >= Cap]_vars

\* A registered sensor is marked dead; a slot nobody holds is.
SensorDead == \E s \in 1..Num : ID[s] # None /\ Alive[s] = 0 /\ s # DoorNum /\ s # GatewayNum
FreeDead   == \E s \in 1..Num : ID[s] = None /\ Alive[s] = 0

\* The Offline status is raised only over a registered sensor that is marked
\* dead.  It ends outside learn mode with the last of them, whatever frames,
\* deletions and sweeps come in between, with one exception: a free slot marked
\* dead, which Offline_React takes for a sensor, keeps it.
OfflineJustified ==
    /\ [](offline /\ Learn_Flag = 0 /\ Num # 0 /\ ~mixed => SensorDead \/ FreeDead)
    /\ [][~offline /\ offline' /\ ~mixed => SensorDead']_vars

(***************************************************************************)
(* The strengthening the proof of DetectedInTime needs: a slot whose mark  *)
(* is set was heard since the last sweep, and one whose mark is not has    *)
(* a counter that will reach the cap by the next sweep; slots never used   *)
(* are not alive.                                                          *)
(***************************************************************************)
Counting == \A s \in Slot : s <= Num /\ Alive[s] = 1 /\ GetMesssage[s] = 0 => ID_Time[s] >= RTC_Counter

Unused == \A s \in Slot : s > Num => Alive[s] = 0

\* A boot sets the counters back, so before the first sweep after it only the
\* hours since then are accounted for.
HeardBound ==
    \A s \in Slot : Watched(s) /\ Alive[s] = 1 =>
        \/ silent[s] <= IF GetMesssage[s] = 1 THEN RTC_Counter ELSE Cap + RTC_Counter
        \/ GetMesssage[s] = 0 /\ up <= RTC_Counter

SilenceBound == \A s \in settled : ID[s] # None /\ (GetMesssage[s] = 0 => ID_Time[s] <= silent[s])

Bounds == Unused /\ Counting /\ HeardBound /\ SilenceBound

\* A boot that finds an id in two slots leaves the sweep without its bounds.
PInv == TypeOK /\ (mixed \/ (OneSlotEach /\ Bounds))
=============================================================================
