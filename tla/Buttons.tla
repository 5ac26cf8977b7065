------------------------------ MODULE Buttons ------------------------------
(***************************************************************************)
(* The two keys: the button scanner (packages/button-v1.0.1/button.c), the *)
(* callbacks that turn its events into semaphores (applications/device.c)  *)
(* and the loop that takes them (applications/key.c).  ON is K0, OFF is    *)
(* K1; OFF held starts learn mode, both held erase every device.           *)
(*                                                                         *)
(* The button thread samples both keys every 10 ms, K1 first, and is not   *)
(* interrupted by the key thread in between.  BUTTON_DEBOUNCE_TIME is 1    *)
(* (rtconfig.h:217), so a changed level acts in the sample that sees it.   *)
(***************************************************************************)
EXTENDS Naturals

CONSTANTS
    BUTTON_LONG_TIME,    \* samples until a press is long, 200
    BUTTON_LONG_CYCLE,   \* samples from one long event to the next, 25
    BUTTON_DOUBLE_TIME,  \* samples in which a second press is swallowed, 15
    LongMax,             \* where Long_Time goes back to BUTTON_LONG_TIME, 0xFF
    LongCount,           \* long events counted before one is passed on, 6
    HeldMax,             \* bound: samples of one hold that are told apart
    MaxLag               \* bound: scans of the keys during one pass of the loop

ASSUME ButtonsAssumption ==
    /\ BUTTON_LONG_TIME \in Nat \ {0} /\ BUTTON_LONG_CYCLE \in Nat \ {0}
    /\ BUTTON_DOUBLE_TIME \in Nat \ {0}
    /\ LongMax \in Nat /\ BUTTON_LONG_TIME < LongMax
    /\ LongCount \in Nat \ {0}
    /\ HeldMax \in Nat
    /\ (LongCount + 1) * BUTTON_LONG_CYCLE + 1 <= HeldMax
    /\ BUTTON_LONG_TIME + BUTTON_LONG_CYCLE <= HeldMax
    /\ MaxLag \in Nat \ {0}

Key == {"K0", "K1"}
Event == {"K0", "K1", "K0_Long", "K1_Long", "K0_K1_Long"}
State == {"NONE_TRIGGER", "BUTTON_DOWM", "BUTTON_DOUBLE", "BUTTON_LONG"}

VARIABLES
    turn,              \* the key Button_Process comes to next
    Button_State,
    Button_Last_State,
    Timer_Count,       \* samples since a click
    Long_Time,         \* samples of the press, at most LongMax - 1
    Button_Cycle,      \* samples since the last long event
    Long_Flag,         \* this press had a long event
    Long_Sem_Counter,  \* device.c: long events of this press
    OnceFlag,          \* device.c: this press was passed on
    Sem,               \* the five semaphores
    at,                \* semaphores this pass of the key loop has tried
    taken,             \* ... and got
    served,            \* the event the last pass acted on
    lag,               \* scans since the last pass of the key loop
    held               \* history: samples the key has read pressed

scanVars == <<turn, Button_State, Button_Last_State, Timer_Count, Long_Time,
              Button_Cycle, Long_Flag, Long_Sem_Counter, OnceFlag, held>>
loopVars == <<at, taken, served>>
vars == <<scanVars, Sem, loopVars, lag>>

Init ==
    /\ turn = "K1"
    /\ Button_State = [k \in Key |-> "NONE_TRIGGER"]
    /\ Button_Last_State = [k \in Key |-> "NONE_TRIGGER"]
    /\ Timer_Count = [k \in Key |-> 0]
    /\ Long_Time = [k \in Key |-> 0]
    /\ Button_Cycle = [k \in Key |-> 0]
    /\ Long_Flag = [k \in Key |-> FALSE]
    /\ Long_Sem_Counter = [k \in Key |-> 0]
    /\ OnceFlag = [k \in Key |-> FALSE]
    /\ Sem = [e \in Event |-> 0]
    /\ at = 0 /\ taken = {} /\ served = "none"
    /\ lag = 0
    /\ held = [k \in Key |-> 0]

Other(k) == IF k = "K1" THEN "K0" ELSE "K1"
Post(e) == Sem' = [Sem EXCEPT ![e] = @ + 1]

-----------------------------------------------------------------------------
\* device.c: what a long event of a key does.  The first LongCount + 1 only
\* count; then K0 alone is a long ON, K1 a long OFF or, with K0 held as long,
\* the request to erase everything.

CountLong(k) ==
    /\ ~OnceFlag[k] /\ Long_Sem_Counter[k] <= LongCount
    /\ Long_Sem_Counter' = [Long_Sem_Counter EXCEPT ![k] = @ + 1]
    /\ UNCHANGED <<OnceFlag, Sem>>

K0_LongSem_Release ==
    \/ CountLong("K0")
    \/ /\ ~OnceFlag["K0"] /\ Long_Sem_Counter["K0"] > LongCount
       /\ Long_Sem_Counter["K1"] = 0
       /\ OnceFlag' = [OnceFlag EXCEPT !["K0"] = TRUE]
       /\ Post("K0_Long")
       /\ UNCHANGED Long_Sem_Counter
    \/ /\ \/ OnceFlag["K0"]
          \/ Long_Sem_Counter["K0"] > LongCount /\ Long_Sem_Counter["K1"] # 0
       /\ UNCHANGED <<Long_Sem_Counter, OnceFlag, Sem>>

\* Faulty: the erase request does not ask for the other key.
BothHeld_Any == Long_Sem_Counter["K0"] >= 0

BothHeld == Long_Sem_Counter["K0"] > LongCount - 1

K1_LongSem_Release ==
    \/ CountLong("K1")
    \/ /\ ~OnceFlag["K1"] /\ Long_Sem_Counter["K1"] > LongCount
       /\ OnceFlag' = [OnceFlag EXCEPT !["K1"] = TRUE]
       /\ Post(IF BothHeld THEN "K0_K1_Long" ELSE "K1_Long")
       /\ UNCHANGED Long_Sem_Counter
    \/ OnceFlag["K1"] /\ UNCHANGED <<Long_Sem_Counter, OnceFlag, Sem>>

LongSem_Release(k) ==
    IF k = "K0" THEN K0_LongSem_Release ELSE K1_LongSem_Release

\* Faulty: the count of a released key is kept.
LongFree_Release_KeepsCount(k) ==
    /\ OnceFlag' = [OnceFlag EXCEPT ![k] = FALSE]
    /\ UNCHANGED <<Long_Sem_Counter, Sem>>

\* Faulty: a released key stays marked as passed on.
LongFree_Release_KeepsOnce(k) ==
    /\ Long_Sem_Counter' = [Long_Sem_Counter EXCEPT ![k] = 0]
    /\ UNCHANGED <<OnceFlag, Sem>>

LongFree_Release(k) ==
    /\ OnceFlag' = [OnceFlag EXCEPT ![k] = FALSE]
    /\ Long_Sem_Counter' = [Long_Sem_Counter EXCEPT ![k] = 0]
    /\ UNCHANGED Sem

-----------------------------------------------------------------------------
\* button.c: Button_Cycle_Process of key k, by the level it reads.

\* Faulty: the overflow of the count is not caught.
LongTimeAfter_Runs(n) == n

\* Long_Time is 8 bits wide and is set back before it can overflow.
LongTimeAfter(n) == IF n = LongMax THEN BUTTON_LONG_TIME ELSE n

\* Pressed, and still so: count, and from BUTTON_LONG_TIME on report a long
\* event every BUTTON_LONG_CYCLE samples.
Pressed(k) ==
    LET n    == Long_Time[k] + 1
        long == n >= BUTTON_LONG_TIME
        fire == long /\ Button_Cycle[k] + 1 >= BUTTON_LONG_CYCLE
    IN  /\ Button_State' = [Button_State EXCEPT ![k] = "BUTTON_DOWM"]
        /\ Long_Time' = [Long_Time EXCEPT ![k] = LongTimeAfter(n)]
        /\ held' = [held EXCEPT ![k] = IF @ < HeldMax THEN @ + 1 ELSE @]
        /\ Button_Cycle' = [Button_Cycle EXCEPT
                               ![k] = IF fire THEN 0 ELSE IF long THEN @ + 1 ELSE @]
        /\ \/ /\ fire
              /\ Long_Flag' = [Long_Flag EXCEPT ![k] = TRUE]
              /\ LongSem_Release(k)
           \/ /\ ~fire
              /\ UNCHANGED <<Long_Flag, Long_Sem_Counter, OnceFlag, Sem>>
        /\ UNCHANGED <<Button_Last_State, Timer_Count>>

\* Released after a long event: no click.
ReleasedLong(k) ==
    /\ Long_Flag[k]
    /\ Long_Flag' = [Long_Flag EXCEPT ![k] = FALSE]
    /\ LongFree_Release(k)
    /\ Long_Time' = [Long_Time EXCEPT ![k] = 0]
    /\ Button_State' = [Button_State EXCEPT ![k] = "NONE_TRIGGER"]
    /\ Button_Last_State' = [Button_Last_State EXCEPT ![k] = "BUTTON_LONG"]
    /\ UNCHANGED Timer_Count

SecondPress(k) == Timer_Count[k] <= BUTTON_DOUBLE_TIME
                  /\ Button_Last_State[k] = "BUTTON_DOUBLE"

\* The second of two quick presses: a double click, which nobody attached to.
ReleasedDouble(k) ==
    /\ ~Long_Flag[k] /\ SecondPress(k)
    /\ Button_State' = [Button_State EXCEPT ![k] = "NONE_TRIGGER"]
    /\ Button_Last_State' = [Button_Last_State EXCEPT ![k] = "NONE_TRIGGER"]
    /\ UNCHANGED <<Long_Flag, Long_Time, Timer_Count, Long_Sem_Counter, OnceFlag, Sem>>

\* Faulty: a press that had a long event may also end as a click.
ReleasedClick_Long(k) ==
    /\ ~SecondPress(k)
    /\ Post(k)
    /\ Timer_Count' = [Timer_Count EXCEPT ![k] = 0]
    /\ Long_Time' = [Long_Time EXCEPT ![k] = 0]
    /\ Button_State' = [Button_State EXCEPT ![k] = "BUTTON_DOUBLE"]
    /\ Button_Last_State' = [Button_Last_State EXCEPT ![k] = "BUTTON_DOUBLE"]
    /\ UNCHANGED <<Long_Flag, Long_Sem_Counter, OnceFlag>>

\* K0_Sem_Release, K1_Sem_Release
ReleasedClick(k) ==
    /\ ~Long_Flag[k] /\ ~SecondPress(k)
    /\ Post(k)
    /\ Timer_Count' = [Timer_Count EXCEPT ![k] = 0]
    /\ Long_Time' = [Long_Time EXCEPT ![k] = 0]
    /\ Button_State' = [Button_State EXCEPT ![k] = "BUTTON_DOUBLE"]
    /\ Button_Last_State' = [Button_Last_State EXCEPT ![k] = "BUTTON_DOUBLE"]
    /\ UNCHANGED <<Long_Flag, Long_Sem_Counter, OnceFlag>>

Released(k) ==
    /\ Button_State[k] = "BUTTON_DOWM"
    /\ ReleasedLong(k) \/ ReleasedDouble(k) \/ ReleasedClick(k)
    /\ held' = [held EXCEPT ![k] = 0]
    /\ UNCHANGED Button_Cycle

\* Not pressed: after a click, wait for a second one.
Waiting(k) ==
    /\ Button_State[k] = "BUTTON_DOUBLE"
    /\ Timer_Count' = [Timer_Count EXCEPT ![k] = @ + 1]
    /\ LET over == Timer_Count[k] + 1 >= BUTTON_DOUBLE_TIME
       IN  /\ Button_State' = [Button_State EXCEPT ![k] = IF over THEN "NONE_TRIGGER" ELSE @]
           /\ Button_Last_State' = [Button_Last_State EXCEPT
                                       ![k] = IF over THEN "NONE_TRIGGER" ELSE @]
    /\ UNCHANGED <<Long_Time, Button_Cycle, Long_Flag, Long_Sem_Counter,
                   OnceFlag, Sem, held>>

Resting(k) ==
    /\ Button_State[k] = "NONE_TRIGGER"
    /\ UNCHANGED <<Button_State, Button_Last_State, Timer_Count, Long_Time,
                   Button_Cycle, Long_Flag, Long_Sem_Counter, OnceFlag, Sem, held>>

\* The level read is any, also when the motor self-test pauses the keys and
\* Read_K0_Level and Read_K1_Level answer released.
Button_Cycle_Process(k) ==
    /\ turn = k
    /\ k = "K1" => lag < MaxLag
    /\ turn' = Other(k)
    /\ lag' = IF k = "K1" THEN lag + 1 ELSE lag
    /\ Pressed(k) \/ Released(k) \/ Waiting(k) \/ Resting(k)
    /\ UNCHANGED loopVars

-----------------------------------------------------------------------------
\* key.c: a pass of the loop tries the five semaphores in one order and acts
\* on the first it got in another; what else it got is dropped.  A scan can
\* come between two of the tries.

TakeOrder == <<"K0", "K0_Long", "K1", "K1_Long", "K0_K1_Long">>
ActOrder == <<"K0", "K1", "K0_K1_Long", "K0_Long", "K1_Long">>

FirstOf(order, T) ==
    order[CHOOSE i \in 1..5 : order[i] \in T /\ \A j \in 1..(i - 1) : order[j] \notin T]

\* Faulty: the branches are in the order of the tries.
Acts_InOrder(T) == IF T = {} THEN "none" ELSE FirstOf(TakeOrder, T)

Acts(T) == IF T = {} THEN "none" ELSE FirstOf(ActOrder, T)

\* The tries up to the n-th, without a scan between them.
Take(n) ==
    LET got == {e \in Event : Sem[e] > 0 /\ \E i \in (at + 1)..n : TakeOrder[i] = e}
    IN  /\ Sem' = [e \in Event |-> IF e \in got THEN Sem[e] - 1 ELSE Sem[e]]
        /\ \/ /\ n < 5
              /\ at' = n /\ taken' = taken \cup got /\ served' = "none"
              /\ UNCHANGED lag
           \/ /\ n = 5
              /\ at' = 0 /\ taken' = {} /\ served' = Acts(taken \cup got)
              /\ lag' = 0

\* The scan has the higher priority, and the loop ends with an erase.
Key_Reponse_Callback ==
    /\ turn = "K1" /\ served # "K0_K1_Long"
    /\ \E n \in (at + 1)..5 : Take(n)
    /\ UNCHANGED scanVars

\* DeleteAllDevice, 3 s of beeping, then rt_hw_cpu_reset.
Erase ==
    /\ served = "K0_K1_Long"
    /\ turn' = "K1"
    /\ Button_State' = [k \in Key |-> "NONE_TRIGGER"]
    /\ Button_Last_State' = [k \in Key |-> "NONE_TRIGGER"]
    /\ Timer_Count' = [k \in Key |-> 0]
    /\ Long_Time' = [k \in Key |-> 0]
    /\ Button_Cycle' = [k \in Key |-> 0]
    /\ Long_Flag' = [k \in Key |-> FALSE]
    /\ Long_Sem_Counter' = [k \in Key |-> 0]
    /\ OnceFlag' = [k \in Key |-> FALSE]
    /\ Sem' = [e \in Event |-> 0]
    /\ at' = 0 /\ taken' = {} /\ served' = "none"
    /\ lag' = 0
    /\ held' = [k \in Key |-> 0]

Next ==
    \/ \E k \in Key : Button_Cycle_Process(k)
    \/ Key_Reponse_Callback
    \/ Erase

Spec == Init /\ [][Next]_vars

\* The scan runs every 10 ms and sleeps in between, so the loop, which also
\* sleeps 10 ms at a time, is let through again and again.
FairSpec ==
    /\ Spec
    /\ WF_vars(\E k \in Key : Button_Cycle_Process(k))
    /\ SF_vars(Key_Reponse_Callback)
    /\ WF_vars(Erase)

-----------------------------------------------------------------------------
(***************************************************************************)
(* Properties                                                              *)
(***************************************************************************)

\* Type correctness: the counts of button.c and device.c stay in their range,
\* Long_Time below its 8-bit limit.
TypeOK ==
    /\ turn \in Key
    /\ Button_State \in [Key -> State] /\ Button_Last_State \in [Key -> State]
    /\ Timer_Count \in [Key -> 0..BUTTON_DOUBLE_TIME]
    /\ Long_Time \in [Key -> 0..(LongMax - 1)]
    /\ Button_Cycle \in [Key -> 0..(BUTTON_LONG_CYCLE - 1)]
    /\ Long_Flag \in [Key -> BOOLEAN]
    /\ Long_Sem_Counter \in [Key -> 0..(LongCount + 1)]
    /\ OnceFlag \in [Key -> BOOLEAN]
    /\ Sem \in [Event -> Nat]
    /\ at \in 0..4 /\ taken \in SUBSET Event /\ served \in Event \cup {"none"}
    /\ lag \in 0..MaxLag
    /\ held \in [Key -> 0..HeldMax]

\* What a press left in the counters of device.c is gone when the key is up:
\* no hold is counted on the strength of an earlier one.
CountsThisHold ==
    \A k \in Key : Long_Sem_Counter[k] > 0 \/ OnceFlag[k] =>
        Button_State[k] = "BUTTON_DOWM" /\ Long_Flag[k]

\* The request that erases every device is posted only while both keys are
\* down, OFF for more than LongCount + 1 long cycles and ON for more than
\* LongCount - 1 of them, without a release seen in between.
EraseNeedsBothHeld ==
    [][Sem'["K0_K1_Long"] > Sem["K0_K1_Long"] =>
          /\ \A k \in Key : Button_State'[k] = "BUTTON_DOWM"
          /\ held'["K1"] > (LongCount + 1) * BUTTON_LONG_CYCLE
          /\ held'["K0"] > (LongCount - 1) * BUTTON_LONG_CYCLE]_vars

\* A click, which opens or closes the valve, is posted only by the release of
\* a key held for less than BUTTON_LONG_TIME + BUTTON_LONG_CYCLE samples: the
\* end of a hold that learns or erases is not also a click.
ClickIsShort ==
    [][\A k \in Key : Sem'[k] > Sem[k] =>
          0 < held[k] /\ held[k] < BUTTON_LONG_TIME + BUTTON_LONG_CYCLE]_vars

\* A click of OFF is answered: the loop closes the valve, or opens it for a
\* click of ON it took in the same pass, or the unit resets after an erase.
OffAnswered == Sem["K1"] > 0 ~> served \in {"K0", "K1", "K0_K1_Long"}

\* Every hold of OFF that lasts, while ON is not touched, starts or ends learn
\* mode: no event of the hold is lost to what the loop was busy with.
HoldAnswered ==
    [](Button_State["K0"] # "BUTTON_DOWM") =>
        (held["K1"] = 1 ~> held["K1"] = 0 \/ served = "K1_Long")
=============================================================================
