---------------------------- MODULE ValveProps -----------------------------
(***************************************************************************)
(* What Valve is meant to guarantee.                                       *)
(***************************************************************************)
EXTENDS Valve

(***************************************************************************)
(* Safety.                                                                 *)
(***************************************************************************)
\* Warnings whose callback closes the valve, and all that show in Now_Status.
ClosingAlarms ==
    {"SlaverWaterAlarmActive", "SlaverUltraLowPower", "MasterWaterAlarmActive",
     "NTCWarning", "Offline"}
Alarms == ClosingAlarms \cup {"MasterLostPeak", "MotoFail"}

MotorsOff == ValveStatus = 0 /\ \A m \in Motor : Turn[m] = 0

\* A valve closed by remote command, delay or slave alarm (LastFlag is
\* OtherOff) is shut, both outputs are low, and no self-test timer is left
\* that would drive them high again: Moto_Close must have stopped them all.
LockedShut == LastFlag = OtherOff => MotorsOff /\ Act = {} /\ Det = {}

\* While Now_Status shows a warning that closes the valve, the valve is shut
\* and both outputs are low, whatever closed it and whatever Moto_Close refused.
AlarmShut == Now_Status \in ClosingAlarms => MotorsOff

\* The self-test only borrows the outputs: a closed valve has none running and
\* both low; an open one has an output low only while the timer that raises it
\* again is running; the inputs are paused only while a timer runs that will
\* resume them.
SelfTestSound ==
    /\ ValveStatus = 0 => MotorsOff /\ Act = {} /\ Det = {}
    /\ ValveStatus = 1 => \A m \in Motor : Turn[m] = 0 => m \in Act
    /\ Pause_Flag = 1 => Act \cup Det # {}

\* A frozen unit that will reopen by itself when it thaws is not one that was
\* closed from afar meanwhile.
ThawKeepsLock == Now_Status = "NTCWarning" /\ NTC_State = 1 => LastFlag # OtherOff

SlaveAlarmShown == Now_Status = "SlaverWaterAlarmActive"

\* Behind a shown slave alarm stand a flag in memory and the lock.
SlaveAlarmLocked == SlaveAlarmShown /\ wiping = 0 => SlaveAlarm # {} /\ LastFlag = OtherOff

\* Memory and flash agree about the alarm flag of d.
Recorded(d) == d \in SlaveAlarm <=> d \in StoredAlarm

\* A slave alarm survives in flash.  Once memory and flash agree about the flag
\* of a device they go on to while it stays in the table.  A restart that meets
\* a shown alarm comes up locked, and shows it again if flash has any flag
\* behind it: only flags a device inherited with its slot, or left there when it
\* was deleted, are lost.  Power lost between the two writes of the handler
\* brings up a locked unit in alarm as well.
SlaveAlarmStored ==
    [][/\ \A d \in Registered \cap Registered' : Recorded(d) => Recorded(d)'
       /\ Reset /\ SlaveAlarmShown /\ wiping = 0
            => /\ LastFlag' = OtherOff /\ ValveStatus' = 0
               /\ SlaveAlarmShown' \/ \A d \in Registered \cap SlaveAlarm : ~Recorded(d)
       /\ (\E d \in Devices : ResetInAlarm(d))
            => SlaveAlarmShown' /\ LastFlag' = OtherOff /\ ValveStatus' = 0]_vars

\* The transition code the scan compares with never suppresses a transition
\* out of the status it last acted on: with WarningPastStatus 0 the codes of
\* "lost" and "water" are clear, with 1 those of "back" and "water".
ScanArmed ==
    /\ WarningPastStatus = 0 => WarningStatus \notin {4, 8}
    /\ WarningPastStatus = 1 => WarningStatus \notin {16, 32}

\* A shown warning is replaced by a less urgent one only after it was cleared.
NoDowngrade ==
    [][(Now_Status \in Alarms /\ Now_Status' \in Alarms)
         => (EventPriority[Now_Status] <= EventPriority[Now_Status'])]_vars

\* The arbiter's priority is at least that of the warning shown, so a warning
\* less urgent than the one shown is refused.
PriorityShown == Now_Status \in Alarms => priority >= EventPriority[Now_Status]

\* The conjunction that every step preserves.
IInv ==
    /\ TypeOK
    /\ LockedShut /\ SelfTestSound
    /\ AlarmShut /\ PriorityShown
    /\ ThawKeepsLock /\ SlaveAlarmLocked
    /\ ScanArmed

\* What the shown status means to the interlock.
AlarmKind ==
    IF Now_Status = "NTCWarning" THEN "freeze"
    ELSE IF Now_Status \in ClosingAlarms THEN "leak" ELSE "none"

Interlock ==
    INSTANCE ValveInterlock WITH
        open <- ValveStatus = 1, locked <- LastFlag = OtherOff,
        remote <- LastFlag = OtherOpen, alarm <- AlarmKind

\* Every step of the unit, restarts between flash writes included, is a step
\* the interlock allows.
ImplementsInterlock == Interlock!Spec

Table == INSTANCE AlarmTable WITH Units <- Devices

\* What the unit does with registrations and alarm flags, whatever else the
\* same handlers do and wherever a restart cuts them short, is what the table
\* without slots allows.
ImplementsTable == Table!Spec

(***************************************************************************)
(* Liveness.                                                               *)
(***************************************************************************)
\* A self-test gives the inputs back.
PauseEnds == (Pause_Flag = 1) ~> (Pause_Flag = 0)

\* A self-test gives each output back to an open valve.
OutputRestored == \A m \in Motor : (Turn[m] = 0 /\ ValveStatus = 1) ~> (Turn[m] = 1 \/ ValveStatus = 0)

\* Learn mode, in which sensors are not heard, ends.
LearnEnds == (Learn_Flag = 1) ~> (Learn_Flag = 0)

\* If the wire stays wet and learn mode is left for good, the valve is shut
\* again and again, whatever else opens it.
WaterShuts == <>[](wire = "wet" /\ Learn_Flag = 0) => []<>(ValveStatus = 0)

(***************************************************************************)
(* What comments and messages of the source say and the code does not do.  *)
(***************************************************************************)
\* A remote open fails "because device is warning" while the wire is wet, the
\* scan has acted on the water and nobody acknowledged it.
RemoteOpenRefusedInWater ==
    [][wire = "wet" /\ WarningPastStatus = 2 /\ Learn_Flag = 0
         /\ ValveStatus = 0 /\ ValveStatus' = 1 => LastFlag' # OtherOpen]_vars

\* A self-test that finds both motors good lifts the motor warning.
PassedTestLifts ==
    [][\A m \in Motor :
         m \in Det /\ m \notin Det' /\ ValveStatus' = 1 /\ Turn_Flag[m] = 2
           /\ Moto_Fail_FLag' = [k \in Motor |-> 0] /\ Act' = {} /\ Det' = {}
         => Now_Status' # "MotoFail"]_vars
=============================================================================
