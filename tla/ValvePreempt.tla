--------------------------- MODULE ValvePreempt ----------------------------
(***************************************************************************)
(* The motor commands of applications/Moto.c step by step, as the three    *)
(* threads that call them can interrupt each other.  Valve.tla takes each  *)
(* command as one step; here a command tests the permission and sets the   *)
(* status, waits for the flash, writes, and only then drives the outputs.  *)
(*                                                                         *)
(* The timer thread has priority 4, the radio 8, the keys 10.  A thread    *)
(* runs when no higher one can: each is asleep, waits for the flash lock,  *)
(* or waits for the chip (sfud delays a tick between two looks at it).     *)
(*                                                                         *)
(* Alarms and the motor self-test are left out: Now_Status is Open or      *)
(* Close, and the two outputs, which move together, are Turn.  Of the      *)
(* remote commands those of the gateway are here; the ones of other units  *)
(* call Moto_Open and Moto_Close in the same way.                          *)
(***************************************************************************)
EXTENDS Naturals

NormalOff  == 1
OtherOff   == 2
NormalOpen == 3
OtherOpen  == 4

Thread == {"timer", "radio", "key"}
Higher == [timer |-> {}, radio |-> {"timer"}, key |-> {"timer", "radio"}]

VARIABLES
    Now_Status, ValveStatus, LastFlag,
    Moto,       \* the flag in flash
    Turn,       \* the outputs
    Delay,      \* the delay timer runs
    pc, flag,   \* where each thread is, and the ActFlag of its command
    lock,       \* the thread that holds the flash
    said        \* the last step logged that the valve was off already

vars == <<Now_Status, ValveStatus, LastFlag, Moto, Turn, Delay,
          pc, flag, lock, said>>

\* Moto_Init has opened the valve.
Init ==
    /\ Now_Status = "Open" /\ ValveStatus = 1 /\ LastFlag = NormalOpen
    /\ Moto = NormalOpen /\ Turn = 1 /\ Delay = FALSE
    /\ pc = [t \in Thread |-> "idle"] /\ flag = [t \in Thread |-> NormalOpen]
    /\ lock = "none" /\ said = FALSE

Runs(t) ==
    \A u \in Higher[t] : \/ pc[u] \in {"idle", "write"}
                         \/ pc[u] = "wait" /\ lock # "none"

At(t, place) == pc[t] = place /\ Runs(t)
Goto(t, place) == pc' = [pc EXCEPT ![t] = place]

\* A handler of thread t has made its tests and calls Moto_Open or Moto_Close.
Call(t, ActFlag) ==
    /\ At(t, "idle") /\ Goto(t, "call")
    /\ flag' = [flag EXCEPT ![t] = ActFlag]
    /\ said' = FALSE
    /\ UNCHANGED <<Now_Status, ValveStatus, LastFlag, Moto, Turn, lock>>

-----------------------------------------------------------------------------
\* The callers.

Delay_Timer_Callback ==
    Delay /\ Delay' = FALSE /\ Call("timer", OtherOff)

Remote_Open == Call("radio", OtherOpen) /\ UNCHANGED Delay

Remote_Close == Call("radio", OtherOff) /\ UNCHANGED Delay

\* The door is reported open, or closed.
Delay_Timer_Door ==
    /\ At("radio", "idle") /\ said' = FALSE
    /\ (Delay' = TRUE /\ Now_Status = "Open") \/ Delay' = FALSE
    /\ UNCHANGED <<Now_Status, ValveStatus, LastFlag, Moto, Turn,
                   pc, flag, lock>>

Key_On ==
    Now_Status = "Close" /\ Call("key", NormalOpen) /\ UNCHANGED Delay

Key_Off ==
    Now_Status = "Open" /\ Call("key", NormalOff) /\ UNCHANGED Delay

-----------------------------------------------------------------------------
\* Moto_Open and Moto_Close.

Opens(t) == flag[t] \in {NormalOpen, OtherOpen}

\* The permission, and the status the command leaves.
Permitted(t) ==
    /\ At(t, "call") /\ Goto(t, "wait")
    /\ LastFlag # OtherOff \/ flag[t] = OtherOpen
    /\ Now_Status' = IF Opens(t) THEN "Open" ELSE "Close"
    /\ ValveStatus' = IF Opens(t) THEN 1 ELSE 0
    /\ LastFlag' = flag[t]
    /\ said' = FALSE
    /\ UNCHANGED <<Moto, Turn, Delay, flag, lock>>

\* "Moto is alreay otheroff": no output is driven.
AlreadyOtherOff(t) ==
    /\ At(t, "call") /\ Goto(t, "idle")
    /\ LastFlag = OtherOff /\ flag[t] = OtherOff
    /\ Now_Status' = "Close" /\ ValveStatus' = 0 /\ Delay' = FALSE
    /\ said' = TRUE
    /\ UNCHANGED <<LastFlag, Moto, Turn, flag, lock>>

NoPermissions(t) ==
    /\ At(t, "call") /\ Goto(t, "idle")
    /\ LastFlag = OtherOff /\ flag[t] \in {NormalOff, NormalOpen}
    /\ said' = FALSE
    /\ UNCHANGED <<Now_Status, ValveStatus, LastFlag, Moto, Turn,
                   Delay, flag, lock>>

\* Flash_Moto_Change: wait for the lock of the store, then write.
EnvLock(t) ==
    /\ At(t, "wait") /\ Goto(t, "write")
    /\ lock = "none" /\ lock' = t /\ said' = FALSE
    /\ UNCHANGED <<Now_Status, ValveStatus, LastFlag, Moto, Turn,
                   Delay, flag>>

Flash_Moto_Change(t) ==
    /\ At(t, "write") /\ Goto(t, "drive")
    /\ Moto' = flag[t] /\ lock' = "none" /\ said' = FALSE
    /\ UNCHANGED <<Now_Status, ValveStatus, LastFlag, Turn, Delay, flag>>

\* The outputs and Delay_Timer_Stop.
Drive(t) ==
    /\ At(t, "drive") /\ Goto(t, "idle")
    /\ Turn' = IF Opens(t) THEN 1 ELSE 0
    /\ Delay' = FALSE /\ said' = FALSE
    /\ UNCHANGED <<Now_Status, ValveStatus, LastFlag, Moto, flag, lock>>

Next ==
    \/ Delay_Timer_Callback \/ Remote_Open \/ Remote_Close \/ Delay_Timer_Door
    \/ Key_On \/ Key_Off
    \/ \E t \in Thread : \/ Permitted(t) \/ AlreadyOtherOff(t) \/ NoPermissions(t)
                         \/ EnvLock(t) \/ Flash_Moto_Change(t) \/ Drive(t)

Spec == Init /\ [][Next]_vars

-----------------------------------------------------------------------------
\* When Moto_Close logs "Moto is alreay otheroff" (Moto.c:122) and drives
\* nothing, and no other command is under way, the outputs are off.
AlreadyOff == said /\ (\A t \in Thread : pc[t] = "idle") => Turn = 0
=============================================================================
