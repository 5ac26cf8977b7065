----------------------------- MODULE AlarmFlags -----------------------------
(***************************************************************************)
(* The water-alarm flags of the learned devices (storage/flashwork.c): in  *)
(* memory by slot, in flash by id, over the device table.                  *)
(***************************************************************************)
EXTENDS DeviceTable

VARIABLES
    SlaveAlarm,     \* the slots whose flag is set in memory
    StoredAlarm     \* the ids whose flag is set in flash

alarmVars == <<SlaveAlarm, StoredAlarm>>
vars == <<tableVars, alarmVars>>

Init == TableInit /\ SlaveAlarm = {} /\ StoredAlarm = {}

\* Water alarm of d: command 4 with data 1, taken as an echo when d plays the
\* door unit.  Flash is written only when the flag of the slot moves.
Set_SlaveAlarmFlag(d) ==
    /\ ~(DoorNum # 0 /\ ID[DoorNum] = d)
    /\ \E s \in Slot :
         /\ Found(s, d)
         /\ SlaveAlarm' = SlaveAlarm \cup {s}
         /\ StoredAlarm' = IF s \in SlaveAlarm THEN StoredAlarm ELSE StoredAlarm \cup {d}
    /\ UNCHANGED tableVars

\* Faulty: the flag cleared in memory only.
Clear_SlaveAlarmFlag_Unsaved(d) ==
    /\ \E s \in Slot : Found(s, d) /\ SlaveAlarm' = SlaveAlarm \ {s}
    /\ UNCHANGED <<tableVars, StoredAlarm>>

\* Close command of d, command 6.
Clear_SlaveAlarmFlag(d) ==
    /\ \E s \in Slot :
         /\ Found(s, d)
         /\ SlaveAlarm' = SlaveAlarm \ {s}
         /\ StoredAlarm' = IF s \in SlaveAlarm THEN StoredAlarm \ {d} ELSE StoredAlarm
    /\ UNCHANGED tableVars

\* Learning and deleting leave the flags where they are.
LearnOrDelete ==
    /\ \/ \E s \in Slot, d \in Ids : Learn(s, d)
       \/ \E d \in Ids : Delete_Device(d)
    /\ UNCHANGED alarmVars

Wipe == DeleteAllDevice /\ SlaveAlarm' = {} /\ StoredAlarm' = {}

\* Boot over what flash holds now.
LoadDevice2Memory == SlaveAlarm' = {s \in Slot : ID'[s] \in StoredAlarm'}

Reset ==
    /\ \/ (UNCHANGED tableVars \/ TornStep) /\ UNCHANGED StoredAlarm
       \/ TornWipe /\ StoredAlarm' \in SUBSET StoredAlarm
    /\ LoadDevice2Memory

Next ==
    \/ \E d \in Ids : Set_SlaveAlarmFlag(d) \/ Clear_SlaveAlarmFlag(d)
    \/ LearnOrDelete \/ Wipe \/ Reset

Spec == Init /\ [][Next]_vars

-----------------------------------------------------------------------------
Table ==
    INSTANCE AlarmTable WITH
        Units <- Ids, Freed <- None,
        Registered <- {ID[s] : s \in Slot} \ {None},
        SlaveAlarm <- {ID[s] : s \in SlaveAlarm}

\* Slots, lowest-free allocation, parts and writes cut short, a wipe's among
\* them, are one way to be the table without slots that the valve control
\* relies on, as long as no id holds two slots: every step from such a state,
\* the restart that ends it included, is a step of that table.
SlotsImplementTable == Table!Init /\ [][OneSlotEach => Table!Next]_(Table!atVars)
=============================================================================
