--------------------------- MODULE ButtonsProofs ---------------------------
(***************************************************************************)
(* Proofs about the keys, for every choice of the times and counts.        *)
(***************************************************************************)
EXTENDS Buttons, TLAPS

\* What ties the counters of a press to the samples it has been held: each
\* counted long event stands for one long cycle, and a press without a long
\* event has not yet filled its first.
HoldOK(k) ==
    /\ Button_State[k] = "BUTTON_DOWM" <=> held[k] > 0
    /\ Button_State[k] = "BUTTON_DOUBLE" => Timer_Count[k] < BUTTON_DOUBLE_TIME
    /\ Long_Flag[k] => held[k] > 0
    /\ Long_Sem_Counter[k] > 0 \/ OnceFlag[k] => Long_Flag[k]
    /\ Long_Sem_Counter[k] > 0 =>
          \/ held[k] = HeldMax
          \/ held[k] > (Long_Sem_Counter[k] - 1) * BUTTON_LONG_CYCLE + Button_Cycle[k]
    /\ ~Long_Flag[k] /\ held[k] < BUTTON_LONG_TIME => held[k] <= Long_Time[k]
    /\ ~Long_Flag[k] /\ held[k] >= BUTTON_LONG_TIME =>
          /\ Long_Time[k] >= BUTTON_LONG_TIME
          /\ held[k] < BUTTON_LONG_TIME + Button_Cycle[k]

IInv == TypeOK /\ \A k \in Key : HoldOK(k)

\* The part of the state that belongs to one key is left alone.
Spares(k) ==
    /\ Button_State'[k] = Button_State[k] /\ held'[k] = held[k]
    /\ Timer_Count'[k] = Timer_Count[k]
    /\ Long_Time'[k] = Long_Time[k] /\ Button_Cycle'[k] = Button_Cycle[k]
    /\ Long_Flag'[k] = Long_Flag[k] /\ OnceFlag'[k] = OnceFlag[k]
    /\ Long_Sem_Counter'[k] = Long_Sem_Counter[k]

LEMMA SparesHold == ASSUME NEW k \in Key, HoldOK(k), Spares(k) PROVE HoldOK(k)'
  BY DEF HoldOK, Spares

LEMMA Constants ==
    /\ BUTTON_LONG_TIME \in Nat /\ BUTTON_LONG_TIME > 0
    /\ BUTTON_LONG_CYCLE \in Nat /\ BUTTON_LONG_CYCLE > 0
    /\ BUTTON_DOUBLE_TIME \in Nat /\ BUTTON_DOUBLE_TIME > 0
    /\ LongMax \in Nat /\ BUTTON_LONG_TIME < LongMax
    /\ LongCount \in Nat /\ LongCount > 0
    /\ HeldMax \in Nat /\ HeldMax > 0
    /\ BUTTON_LONG_TIME + BUTTON_LONG_CYCLE <= HeldMax
    /\ (LongCount + 1) * BUTTON_LONG_CYCLE + 1 <= HeldMax
    /\ MaxLag \in Nat /\ MaxLag > 0
  BY ButtonsAssumption

LEMMA Cycles ==
    ASSUME NEW n \in Nat, NEW c \in Nat
    PROVE  /\ n * c \in Nat
           /\ (n + 1) * c = n * c + c
  BY SMT

-----------------------------------------------------------------------------
\* What a long event does to the counters: nothing, one more, or passed on.
LEMMA LongEvent ==
    ASSUME TypeOK, NEW k \in Key, LongSem_Release(k)
    PROVE  /\ Sem' \in [Event -> Nat]
           /\ Long_Sem_Counter' \in [Key -> 0..(LongCount + 1)]
           /\ OnceFlag' \in [Key -> BOOLEAN]
           /\ \A j \in Key : j # k => /\ Long_Sem_Counter'[j] = Long_Sem_Counter[j]
                                      /\ OnceFlag'[j] = OnceFlag[j]
           /\ Long_Sem_Counter'[k] \in {Long_Sem_Counter[k], Long_Sem_Counter[k] + 1}
           /\ \A i \in Key : Sem'[i] = Sem[i]
           /\ Sem'["K0_K1_Long"] > Sem["K0_K1_Long"] =>
                 k = "K1" /\ BothHeld /\ Long_Sem_Counter["K1"] > LongCount
<1> USE Constants
<1>1. CASE CountLong(k)
  BY <1>1 DEF CountLong, TypeOK, Event, Key
<1>2. CASE k = "K0" /\ ~CountLong(k)
  <2>1. CASE UNCHANGED <<Long_Sem_Counter, OnceFlag, Sem>>
    BY <1>2, <2>1 DEF TypeOK, Event, Key
  <2>2. CASE /\ OnceFlag' = [OnceFlag EXCEPT !["K0"] = TRUE]
             /\ Post("K0_Long")
             /\ UNCHANGED Long_Sem_Counter
    BY <1>2, <2>2 DEF Post, TypeOK, Event, Key
  <2> QED BY <1>2, <2>1, <2>2 DEF LongSem_Release, K0_LongSem_Release
<1>3. CASE k = "K1" /\ ~CountLong(k)
  <2>1. CASE OnceFlag["K1"] /\ UNCHANGED <<Long_Sem_Counter, OnceFlag, Sem>>
    BY <1>3, <2>1 DEF TypeOK, Event, Key
  <2>2. CASE /\ ~OnceFlag["K1"] /\ Long_Sem_Counter["K1"] > LongCount
             /\ OnceFlag' = [OnceFlag EXCEPT !["K1"] = TRUE]
             /\ Post(IF BothHeld THEN "K0_K1_Long" ELSE "K1_Long")
             /\ UNCHANGED Long_Sem_Counter
    <3>1. CASE BothHeld
      BY <1>3, <2>2, <3>1 DEF Post, TypeOK, Event, Key
    <3>2. CASE ~BothHeld
      BY <1>3, <2>2, <3>2 DEF Post, TypeOK, Event, Key
    <3> QED BY <3>1, <3>2
  <2> QED BY <1>3, <2>1, <2>2 DEF LongSem_Release, K1_LongSem_Release
<1> QED BY <1>1, <1>2, <1>3 DEF Key

\* A sample that reads the key pressed.
LEMMA PressedStep ==
    ASSUME IInv, NEW k \in Key, Pressed(k)
    PROVE  /\ Sem' \in [Event -> Nat]
           /\ Button_State' \in [Key -> State] /\ Long_Time' \in [Key -> 0..(LongMax - 1)]
           /\ Button_Cycle' \in [Key -> 0..(BUTTON_LONG_CYCLE - 1)]
           /\ Long_Flag' \in [Key -> BOOLEAN]
           /\ Long_Sem_Counter' \in [Key -> 0..(LongCount + 1)]
           /\ OnceFlag' \in [Key -> BOOLEAN] /\ held' \in [Key -> 0..HeldMax]
           /\ HoldOK(k)'
           /\ \A j \in Key : j # k => Spares(j)
           /\ \A i \in Key : Sem'[i] = Sem[i]
           /\ Sem'["K0_K1_Long"] > Sem["K0_K1_Long"] =>
                 /\ k = "K1" /\ BothHeld
                 /\ held'["K1"] > (LongCount + 1) * BUTTON_LONG_CYCLE
<1> DEFINE n == Long_Time[k] + 1
           long == n >= BUTTON_LONG_TIME
           fire == long /\ Button_Cycle[k] + 1 >= BUTTON_LONG_CYCLE
<1> USE Constants
<1>1. /\ Button_State' = [Button_State EXCEPT ![k] = "BUTTON_DOWM"]
      /\ Long_Time' = [Long_Time EXCEPT ![k] = LongTimeAfter(n)]
      /\ held' = [held EXCEPT ![k] = IF held[k] < HeldMax THEN held[k] + 1 ELSE held[k]]
      /\ Button_Cycle' = [Button_Cycle EXCEPT
            ![k] = IF fire THEN 0 ELSE IF long THEN Button_Cycle[k] + 1 ELSE Button_Cycle[k]]
  BY DEF Pressed
<1>2. /\ Button_State' \in [Key -> State] /\ Long_Time' \in [Key -> 0..(LongMax - 1)]
      /\ Button_Cycle' \in [Key -> 0..(BUTTON_LONG_CYCLE - 1)]
      /\ held' \in [Key -> 0..HeldMax]
  <2>1. LongTimeAfter(n) \in 0..(LongMax - 1)
    BY DEF IInv, TypeOK, LongTimeAfter
  <2>2. (IF fire THEN 0 ELSE IF long THEN Button_Cycle[k] + 1 ELSE Button_Cycle[k])
           \in 0..(BUTTON_LONG_CYCLE - 1)
    BY DEF IInv, TypeOK
  <2> QED BY <1>1, <2>1, <2>2 DEF IInv, TypeOK, State
<1>3. /\ held[k] \in 0..HeldMax /\ Long_Time[k] \in 0..(LongMax - 1)
      /\ Button_Cycle[k] \in 0..(BUTTON_LONG_CYCLE - 1)
      /\ Long_Sem_Counter[k] \in 0..(LongCount + 1)
      /\ Long_Flag[k] \in BOOLEAN /\ OnceFlag[k] \in BOOLEAN
      /\ HoldOK(k)
  BY DEF IInv, TypeOK
<1>4. /\ Button_State'[k] = "BUTTON_DOWM"
      /\ Long_Time'[k] = LongTimeAfter(n)
      /\ held'[k] = IF held[k] < HeldMax THEN held[k] + 1 ELSE held[k]
      /\ Button_Cycle'[k] = IF fire THEN 0
                            ELSE IF long THEN Button_Cycle[k] + 1 ELSE Button_Cycle[k]
      /\ held'[k] > 0 /\ Timer_Count' = Timer_Count
  BY <1>1, <1>3 DEF IInv, TypeOK, Pressed
<1>5. CASE ~fire
  <2>1. UNCHANGED <<Long_Flag, Long_Sem_Counter, OnceFlag, Sem>>
    BY <1>5 DEF Pressed
  <2>2. HoldOK(k)'
    <3>1. Long_Sem_Counter'[k] > 0 =>
             \/ held'[k] = HeldMax
             \/ held'[k] > (Long_Sem_Counter'[k] - 1) * BUTTON_LONG_CYCLE + Button_Cycle'[k]
      <4> SUFFICES ASSUME Long_Sem_Counter[k] > 0
                   PROVE  \/ held'[k] = HeldMax
                          \/ held'[k] > (Long_Sem_Counter[k] - 1) * BUTTON_LONG_CYCLE
                                           + Button_Cycle'[k]
        BY <2>1
      <4> DEFINE x == (Long_Sem_Counter[k] - 1) * BUTTON_LONG_CYCLE
      <4>1. x \in Nat
        BY <1>3, Cycles
      <4>2. held[k] = HeldMax \/ held[k] > x + Button_Cycle[k]
        BY <1>3 DEF HoldOK
      <4> HIDE DEF x
      <4>3. held'[k] = HeldMax \/ held'[k] > x + Button_Cycle'[k]
        BY <1>3, <1>4, <1>5, <4>1, <4>2
      <4> QED BY <4>3 DEF x
    <3>2. ~Long_Flag[k] =>
             /\ held'[k] < BUTTON_LONG_TIME => held'[k] <= Long_Time'[k]
             /\ held'[k] >= BUTTON_LONG_TIME =>
                   /\ Long_Time'[k] >= BUTTON_LONG_TIME
                   /\ held'[k] < BUTTON_LONG_TIME + Button_Cycle'[k]
      BY <1>3, <1>4, <1>5 DEF HoldOK, LongTimeAfter
    <3> QED BY <1>3, <1>4, <2>1, <3>1, <3>2 DEF HoldOK
  <2>3. \A j \in Key : j # k => Spares(j)
    BY <1>1, <1>4, <2>1 DEF Spares, IInv, TypeOK
  <2> QED BY <1>2, <2>1, <2>2, <2>3 DEF IInv, TypeOK, Event
<1>6. CASE fire
  <2>1. /\ Long_Flag' = [Long_Flag EXCEPT ![k] = TRUE]
        /\ LongSem_Release(k)
    BY <1>6 DEF Pressed
  <2>2. Long_Flag' \in [Key -> BOOLEAN] /\ Long_Flag'[k]
    BY <2>1 DEF IInv, TypeOK
  <2>3. /\ Sem' \in [Event -> Nat]
        /\ Long_Sem_Counter' \in [Key -> 0..(LongCount + 1)]
        /\ OnceFlag' \in [Key -> BOOLEAN]
        /\ \A j \in Key : j # k => /\ Long_Sem_Counter'[j] = Long_Sem_Counter[j]
                                   /\ OnceFlag'[j] = OnceFlag[j]
        /\ Long_Sem_Counter'[k] \in {Long_Sem_Counter[k], Long_Sem_Counter[k] + 1}
        /\ \A i \in Key : Sem'[i] = Sem[i]
        /\ Sem'["K0_K1_Long"] > Sem["K0_K1_Long"] =>
              k = "K1" /\ BothHeld /\ Long_Sem_Counter["K1"] > LongCount
    BY <2>1, LongEvent DEF IInv
  <2>4. Long_Sem_Counter[k] > 0 =>
           \/ held'[k] = HeldMax
           \/ held'[k] > Long_Sem_Counter[k] * BUTTON_LONG_CYCLE
    <3> SUFFICES ASSUME Long_Sem_Counter[k] > 0
                 PROVE  \/ held'[k] = HeldMax
                        \/ held'[k] > Long_Sem_Counter[k] * BUTTON_LONG_CYCLE
      OBVIOUS
    <3> DEFINE x == (Long_Sem_Counter[k] - 1) * BUTTON_LONG_CYCLE
               y == Long_Sem_Counter[k] * BUTTON_LONG_CYCLE
    <3>1. x \in Nat /\ y = x + BUTTON_LONG_CYCLE
      <4>1. Long_Sem_Counter[k] - 1 \in Nat
        BY <1>3
      <4>2. (Long_Sem_Counter[k] - 1) + 1 = Long_Sem_Counter[k]
        BY <1>3
      <4> QED BY <4>1, <4>2, Cycles
    <3>2. held[k] = HeldMax \/ held[k] > x + Button_Cycle[k]
      BY <1>3 DEF HoldOK
    <3> HIDE DEF x, y
    <3>3. held'[k] = HeldMax \/ held'[k] > y
      BY <1>3, <1>4, <1>6, <3>1, <3>2
    <3> QED BY <3>3 DEF y
  <2>5. Long_Sem_Counter'[k] > 0 =>
           \/ held'[k] = HeldMax
           \/ held'[k] > (Long_Sem_Counter'[k] - 1) * BUTTON_LONG_CYCLE + Button_Cycle'[k]
    <3>1. Button_Cycle'[k] = 0
      BY <1>4, <1>6
    <3>2. CASE Long_Sem_Counter'[k] = Long_Sem_Counter[k] + 1 /\ Long_Sem_Counter[k] > 0
      <4>1. (Long_Sem_Counter'[k] - 1) = Long_Sem_Counter[k]
        BY <1>3, <3>2
      <4>2. Long_Sem_Counter[k] * BUTTON_LONG_CYCLE \in Nat
        <5>1. Long_Sem_Counter[k] \in Nat
          BY <1>3
        <5> QED BY <5>1, Cycles
      <4> QED BY <2>4, <3>1, <3>2, <4>1, <4>2
    <3>3. CASE Long_Sem_Counter'[k] = Long_Sem_Counter[k] + 1 /\ Long_Sem_Counter[k] = 0
      <4>1. (Long_Sem_Counter'[k] - 1) * BUTTON_LONG_CYCLE = 0
        BY <3>3
      <4> QED BY <1>4, <3>1, <4>1
    <3>4. CASE Long_Sem_Counter'[k] = Long_Sem_Counter[k] /\ Long_Sem_Counter[k] > 0
      <4> DEFINE x == (Long_Sem_Counter[k] - 1) * BUTTON_LONG_CYCLE
                 y == Long_Sem_Counter[k] * BUTTON_LONG_CYCLE
      <4>1. x \in Nat /\ y = x + BUTTON_LONG_CYCLE
        <5>1. Long_Sem_Counter[k] - 1 \in Nat
          BY <1>3, <3>4
        <5>2. (Long_Sem_Counter[k] - 1) + 1 = Long_Sem_Counter[k]
          BY <1>3
        <5> QED BY <5>1, <5>2, Cycles
      <4>2. held'[k] = HeldMax \/ held'[k] > y
        BY <2>4, <3>4
      <4>3. held'[k] \in Nat
        BY <1>2
      <4> HIDE DEF x, y
      <4>4. held'[k] = HeldMax \/ held'[k] > x + Button_Cycle'[k]
        BY <3>1, <4>1, <4>2, <4>3
      <4> QED BY <3>4, <4>4 DEF x
    <3> QED BY <1>3, <2>3, <3>2, <3>3, <3>4
  <2>6. HoldOK(k)'
    BY <1>4, <2>2, <2>5 DEF HoldOK
  <2>7. \A j \in Key : j # k => Spares(j)
    BY <1>1, <1>4, <2>1, <2>3 DEF Spares, IInv, TypeOK
  <2>8. Sem'["K0_K1_Long"] > Sem["K0_K1_Long"] =>
           held'["K1"] > (LongCount + 1) * BUTTON_LONG_CYCLE
    <3> SUFFICES ASSUME k = "K1", Long_Sem_Counter["K1"] > LongCount
                 PROVE  held'["K1"] > (LongCount + 1) * BUTTON_LONG_CYCLE
      BY <2>3
    <3>1. Long_Sem_Counter[k] = LongCount + 1
      BY <1>3
    <3>2. (LongCount + 1) * BUTTON_LONG_CYCLE \in Nat
      BY Cycles
    <3> QED BY <2>4, <3>1, <3>2
  <2> QED BY <1>2, <2>2, <2>3, <2>6, <2>7, <2>8
<1> QED BY <1>5, <1>6

-----------------------------------------------------------------------------
\* A sample that reads the key up.
LEMMA UpStep ==
    ASSUME IInv, NEW k \in Key, Released(k) \/ Waiting(k) \/ Resting(k)
    PROVE  /\ Sem' \in [Event -> Nat]
           /\ Button_State' \in [Key -> State] /\ Button_Last_State' \in [Key -> State]
           /\ Timer_Count' \in [Key -> 0..BUTTON_DOUBLE_TIME]
           /\ Long_Time' \in [Key -> 0..(LongMax - 1)]
           /\ Button_Cycle' = Button_Cycle
           /\ Long_Flag' \in [Key -> BOOLEAN]
           /\ Long_Sem_Counter' \in [Key -> 0..(LongCount + 1)]
           /\ OnceFlag' \in [Key -> BOOLEAN] /\ held' \in [Key -> 0..HeldMax]
           /\ HoldOK(k)'
           /\ \A j \in Key : j # k => Spares(j)
           /\ Sem'["K0_K1_Long"] = Sem["K0_K1_Long"]
           /\ \A i \in Key : Sem'[i] > Sem[i] =>
                 0 < held[i] /\ held[i] < BUTTON_LONG_TIME + BUTTON_LONG_CYCLE
<1> USE Constants
<1>1. TypeOK /\ HoldOK(k)
  BY DEF IInv
<1>2. CASE Released(k) /\ ReleasedLong(k)
  <2>1. /\ Button_State' \in [Key -> State] /\ Button_Last_State' \in [Key -> State]
        /\ Long_Time' \in [Key -> 0..(LongMax - 1)]
        /\ Long_Flag' \in [Key -> BOOLEAN] /\ OnceFlag' \in [Key -> BOOLEAN]
        /\ Long_Sem_Counter' \in [Key -> 0..(LongCount + 1)]
        /\ held' \in [Key -> 0..HeldMax]
    BY <1>1, <1>2 DEF Released, ReleasedLong, LongFree_Release, TypeOK, State
  <2>2. UNCHANGED <<Button_Cycle, Timer_Count, Sem>>
    BY <1>2 DEF Released, ReleasedLong, LongFree_Release
  <2>3. HoldOK(k)' /\ \A j \in Key : j # k => Spares(j)
    BY <1>1, <1>2 DEF Released, ReleasedLong, LongFree_Release, TypeOK, HoldOK, Spares
  <2> QED BY <1>1, <2>1, <2>2, <2>3 DEF TypeOK, Event, Key
<1>3. CASE Released(k) /\ ReleasedDouble(k)
  BY <1>1, <1>3 DEF Released, ReleasedDouble, TypeOK, HoldOK, Spares, State, Event, Key
<1>4. CASE Released(k) /\ ReleasedClick(k)
  <2>1. Sem' \in [Event -> Nat] /\ Sem'["K0_K1_Long"] = Sem["K0_K1_Long"]
    BY <1>1, <1>4 DEF ReleasedClick, Post, TypeOK, Event, Key
  <2>2. \A i \in Key : Sem'[i] > Sem[i] =>
           0 < held[i] /\ held[i] < BUTTON_LONG_TIME + BUTTON_LONG_CYCLE
    <3>1. \A i \in Key : Sem'[i] > Sem[i] => i = k
      BY <1>1, <1>4 DEF ReleasedClick, Post, TypeOK, Event, Key
    <3>2. 0 < held[k] /\ held[k] < BUTTON_LONG_TIME + BUTTON_LONG_CYCLE
      BY <1>1, <1>4 DEF Released, ReleasedClick, TypeOK, HoldOK
    <3> QED BY <3>1, <3>2
  <2>3. /\ Button_State' \in [Key -> State] /\ Button_Last_State' \in [Key -> State]
        /\ Timer_Count' \in [Key -> 0..BUTTON_DOUBLE_TIME]
        /\ Long_Time' \in [Key -> 0..(LongMax - 1)]
        /\ held' \in [Key -> 0..HeldMax]
    BY <1>1, <1>4 DEF Released, ReleasedClick, TypeOK, State
  <2>4. UNCHANGED <<Button_Cycle, Long_Flag, Long_Sem_Counter, OnceFlag>>
    BY <1>4 DEF Released, ReleasedClick
  <2>5. HoldOK(k)' /\ \A j \in Key : j # k => Spares(j)
    BY <1>1, <1>4 DEF Released, ReleasedClick, TypeOK, HoldOK, Spares
  <2> QED BY <1>1, <2>1, <2>2, <2>3, <2>4, <2>5 DEF TypeOK
<1>5. CASE Waiting(k)
  <2>1. /\ Sem' = Sem /\ UNCHANGED <<Long_Time, Button_Cycle, Long_Flag, Long_Sem_Counter,
                                     OnceFlag, held>>
    BY <1>5 DEF Waiting
  <2>2. Button_State' \in [Key -> State] /\ Button_Last_State' \in [Key -> State]
    BY <1>1, <1>5 DEF Waiting, TypeOK, State
  <2>3. Timer_Count' \in [Key -> 0..BUTTON_DOUBLE_TIME]
    BY <1>1, <1>5 DEF Waiting, TypeOK, HoldOK
  <2>4. HoldOK(k)' /\ \A j \in Key : j # k => Spares(j)
    BY <1>1, <1>5, <2>1 DEF Waiting, TypeOK, HoldOK, Spares, State
  <2> QED BY <1>1, <2>1, <2>2, <2>3, <2>4 DEF TypeOK, Event, Key
<1>6. CASE Resting(k)
  BY <1>1, <1>6 DEF Resting, TypeOK, HoldOK, Spares, Event, Key
<1> QED BY <1>2, <1>3, <1>4, <1>5, <1>6 DEF Released

\* What the loop acts on is one of the events, or nothing.
LEMMA ActsType ==
    ASSUME NEW T \in SUBSET Event
    PROVE  Acts(T) \in Event \cup {"none"}
<1>1. \A i \in 1..5 : ActOrder[i] \in Event
  BY DEF ActOrder, Event
<1>2. CASE T # {}
  <2>1. \E i \in 1..5 : ActOrder[i] \in T /\ \A j \in 1..(i - 1) : ActOrder[j] \notin T
    <3>1. CASE "K0" \in T
      <4> WITNESS 1 \in 1..5
      <4> QED BY <3>1 DEF ActOrder
    <3>2. CASE "K0" \notin T /\ "K1" \in T
      <4> WITNESS 2 \in 1..5
      <4> QED BY <3>2 DEF ActOrder
    <3>3. CASE "K0" \notin T /\ "K1" \notin T /\ "K0_K1_Long" \in T
      <4> WITNESS 3 \in 1..5
      <4> QED BY <3>3 DEF ActOrder
    <3>4. CASE "K0" \notin T /\ "K1" \notin T /\ "K0_K1_Long" \notin T /\ "K0_Long" \in T
      <4> WITNESS 4 \in 1..5
      <4> QED BY <3>4 DEF ActOrder
    <3>5. CASE T = {"K1_Long"}
      <4> WITNESS 5 \in 1..5
      <4> QED BY <3>5 DEF ActOrder
    <3> QED BY <1>2, <3>1, <3>2, <3>3, <3>4, <3>5 DEF Event
  <2>2. FirstOf(ActOrder, T) \in Event
    BY <1>1, <2>1 DEF FirstOf
  <2> QED BY <1>2, <2>2 DEF Acts
<1> QED BY <1>2 DEF Acts

-----------------------------------------------------------------------------
LEMMA InitIInv == Init => IInv
  BY Constants DEF Init, IInv, TypeOK, HoldOK, State, Event, Key

\* A scan of one key: the invariant, and what it posts.
LEMMA ScanStep ==
    ASSUME IInv, NEW k \in Key, Button_Cycle_Process(k)
    PROVE  /\ IInv'
           /\ Sem'["K0_K1_Long"] > Sem["K0_K1_Long"] =>
                 /\ k = "K1" /\ BothHeld /\ Pressed(k)
                 /\ held'["K1"] > (LongCount + 1) * BUTTON_LONG_CYCLE
           /\ \A i \in Key : Sem'[i] > Sem[i] =>
                 0 < held[i] /\ held[i] < BUTTON_LONG_TIME + BUTTON_LONG_CYCLE
<1>1. /\ turn' \in Key /\ lag' \in 0..MaxLag
      /\ at' \in 0..4 /\ taken' \in SUBSET Event /\ served' \in Event \cup {"none"}
  <2>1. turn' \in Key /\ lag' \in 0..MaxLag
    BY Constants DEF Button_Cycle_Process, Other, IInv, TypeOK, Key
  <2> QED BY <2>1 DEF Button_Cycle_Process, loopVars, IInv, TypeOK
<1>2. CASE Pressed(k)
  <2>1. UNCHANGED <<Button_Last_State, Timer_Count>>
    BY <1>2 DEF Pressed
  <2>2. TypeOK'
    BY <1>1, <1>2, <2>1, PressedStep DEF IInv, TypeOK
  <2>3. \A j \in Key : HoldOK(j)'
    <3>1. \A j \in Key : j # k => Spares(j)
      BY <1>2, PressedStep
    <3>2. HoldOK(k)'
      BY <1>2, PressedStep
    <3> QED BY <3>1, <3>2, SparesHold DEF IInv
  <2>4. \A i \in Key : Sem'[i] = Sem[i] /\ Sem[i] \in Nat
    BY <1>2, PressedStep DEF IInv, TypeOK, Event, Key
  <2>5. Sem'["K0_K1_Long"] > Sem["K0_K1_Long"] =>
           /\ k = "K1" /\ BothHeld
           /\ held'["K1"] > (LongCount + 1) * BUTTON_LONG_CYCLE
    BY <1>2, PressedStep
  <2> QED BY <1>2, <2>2, <2>3, <2>4, <2>5 DEF IInv
<1>3. CASE Released(k) \/ Waiting(k) \/ Resting(k)
  <2>1. TypeOK'
    BY <1>1, <1>3, UpStep DEF IInv, TypeOK
  <2>2. \A j \in Key : HoldOK(j)'
    <3>1. \A j \in Key : j # k => Spares(j)
      BY <1>3, UpStep
    <3>2. HoldOK(k)'
      BY <1>3, UpStep
    <3> QED BY <3>1, <3>2, SparesHold DEF IInv
  <2>3. /\ Sem'["K0_K1_Long"] = Sem["K0_K1_Long"] /\ Sem["K0_K1_Long"] \in Nat
        /\ \A i \in Key : Sem'[i] > Sem[i] =>
              0 < held[i] /\ held[i] < BUTTON_LONG_TIME + BUTTON_LONG_CYCLE
    BY <1>3, UpStep DEF IInv, TypeOK, Event
  <2> QED BY <2>1, <2>2, <2>3 DEF IInv
<1> QED BY <1>2, <1>3 DEF Button_Cycle_Process

\* A pass of the key loop leaves the keys alone and posts nothing.
LEMMA LoopStep ==
    ASSUME IInv, Key_Reponse_Callback
    PROVE  IInv' /\ \A e \in Event : ~(Sem'[e] > Sem[e])
<1> PICK n \in (at + 1)..5 : Take(n)
  BY DEF Key_Reponse_Callback
<1> DEFINE got == {e \in Event : Sem[e] > 0 /\ \E i \in (at + 1)..n : TakeOrder[i] = e}
<1>1. UNCHANGED scanVars /\ TypeOK
  BY DEF Key_Reponse_Callback, IInv
<1>2. /\ Sem' = [e \in Event |-> IF e \in got THEN Sem[e] - 1 ELSE Sem[e]]
      /\ \/ /\ n < 5
            /\ at' = n /\ taken' = taken \cup got /\ served' = "none"
            /\ UNCHANGED lag
         \/ /\ n = 5
            /\ at' = 0 /\ taken' = {} /\ served' = Acts(taken \cup got)
            /\ lag' = 0
  BY DEF Take
<1>3. got \in SUBSET Event /\ \A e \in got : Sem[e] > 0
  OBVIOUS
<1> HIDE DEF got
<1>4. Sem' \in [Event -> Nat] /\ \A e \in Event : ~(Sem'[e] > Sem[e])
  BY <1>1, <1>2, <1>3 DEF TypeOK
<1>5. /\ at' \in 0..4 /\ taken' \in SUBSET Event /\ served' \in Event \cup {"none"}
      /\ lag' \in 0..MaxLag
  <2>1. taken \cup got \in SUBSET Event
    BY <1>1, <1>3 DEF TypeOK
  <2>2. Acts(taken \cup got) \in Event \cup {"none"}
    BY <2>1, ActsType
  <2> QED BY <1>1, <1>2, <2>1, <2>2, Constants DEF TypeOK
<1>6. TypeOK'
  BY <1>1, <1>4, <1>5 DEF TypeOK, scanVars
<1>7. \A k \in Key : HoldOK(k)'
  BY <1>1 DEF IInv, HoldOK, scanVars
<1> QED BY <1>4, <1>6, <1>7 DEF IInv

LEMMA EraseStep ==
    ASSUME IInv, Erase
    PROVE  IInv' /\ \A e \in Event : ~(Sem'[e] > Sem[e])
<1>1. IInv'
  BY Constants DEF Erase, IInv, TypeOK, HoldOK, State, Event, Key
<1> QED BY <1>1 DEF Erase, IInv, TypeOK

LEMMA StutterStep == ASSUME IInv, UNCHANGED vars PROVE IInv'
  BY DEF IInv, TypeOK, HoldOK, vars, scanVars, loopVars

\* The counters and the holds of the keys agree in every reachable state.
THEOREM Invariance == Spec => []IInv
<1>1. IInv /\ [Next]_vars => IInv'
  BY ScanStep, LoopStep, EraseStep, StutterStep DEF Next
<1> QED BY <1>1, InitIInv, PTL DEF Spec

\* Type correctness of the scanner (button.c), its callbacks (device.c) and
\* the key loop (key.c): no counter leaves its range, Long_Time stays below
\* its 8-bit limit however long a key is held.
THEOREM TypeCorrect == Spec => []TypeOK
  BY Invariance, PTL DEF IInv

\* No hold of a key is counted on the strength of an earlier one (device.c).
THEOREM CountsOfThisHold == Spec => []CountsThisHold
<1>1. IInv => CountsThisHold
  BY DEF IInv, TypeOK, HoldOK, CountsThisHold
<1> QED BY <1>1, Invariance, PTL

\* The request to erase every device needs both keys held (device.c), for all
\* values of the times: OFF for LongCount + 1 long cycles, ON for LongCount - 1.
THEOREM EraseOnlyBothHeld == Spec => EraseNeedsBothHeld
<1> DEFINE Held == Sem'["K0_K1_Long"] > Sem["K0_K1_Long"] =>
                     /\ \A k \in Key : Button_State'[k] = "BUTTON_DOWM"
                     /\ held'["K1"] > (LongCount + 1) * BUTTON_LONG_CYCLE
                     /\ held'["K0"] > (LongCount - 1) * BUTTON_LONG_CYCLE
<1>1. ASSUME IInv, NEW k \in Key, Button_Cycle_Process(k)
      PROVE  Held
  <2> SUFFICES ASSUME Sem'["K0_K1_Long"] > Sem["K0_K1_Long"]
               PROVE  /\ \A j \in Key : Button_State'[j] = "BUTTON_DOWM"
                      /\ held'["K1"] > (LongCount + 1) * BUTTON_LONG_CYCLE
                      /\ held'["K0"] > (LongCount - 1) * BUTTON_LONG_CYCLE
    OBVIOUS
  <2>1. /\ k = "K1" /\ BothHeld /\ Pressed(k)
        /\ held'["K1"] > (LongCount + 1) * BUTTON_LONG_CYCLE
    BY <1>1, ScanStep
  <2>2. /\ Button_State'["K1"] = "BUTTON_DOWM"
        /\ Button_State'["K0"] = Button_State["K0"] /\ held'["K0"] = held["K0"]
    BY <1>1, <2>1 DEF Pressed, IInv, TypeOK, Key
  <2>3. /\ Long_Sem_Counter["K0"] \in {LongCount, LongCount + 1}
        /\ HoldOK("K0") /\ held["K0"] \in 0..HeldMax
        /\ Button_Cycle["K0"] \in 0..(BUTTON_LONG_CYCLE - 1)
    BY <1>1, <2>1, Constants DEF BothHeld, IInv, TypeOK, Key
  <2> DEFINE x == (LongCount - 1) * BUTTON_LONG_CYCLE
             y == LongCount * BUTTON_LONG_CYCLE
             z == (LongCount + 1) * BUTTON_LONG_CYCLE
  <2>4. x \in Nat /\ y = x + BUTTON_LONG_CYCLE /\ z = y + BUTTON_LONG_CYCLE
    <3>1. LongCount - 1 \in Nat /\ (LongCount - 1) + 1 = LongCount /\ LongCount \in Nat
      BY Constants
    <3> QED BY <3>1, Constants, Cycles
  <2>5. held["K0"] > 0 /\ held["K0"] > x
    <3>1. \/ held["K0"] = HeldMax
          \/ held["K0"] > x + Button_Cycle["K0"]
          \/ held["K0"] > y + Button_Cycle["K0"]
      <4>1. Long_Sem_Counter["K0"] = LongCount + 1 => Long_Sem_Counter["K0"] - 1 = LongCount
        BY Constants
      <4> QED BY <2>3, <4>1, Constants DEF HoldOK
    <3>2. z + 1 <= HeldMax
      BY Constants
    <3> HIDE DEF x, y, z
    <3> QED BY <2>3, <2>4, <3>1, <3>2, Constants
  <2>6. Button_State["K0"] = "BUTTON_DOWM"
    BY <2>3, <2>5 DEF HoldOK
  <2> QED BY <2>1, <2>2, <2>5, <2>6 DEF Key
<1>2. ASSUME IInv, [Next]_vars
      PROVE  Held
  <2>1. CASE Key_Reponse_Callback \/ Erase
    BY <1>2, <2>1, LoopStep, EraseStep DEF Event
  <2>2. CASE UNCHANGED vars
    BY <1>2, <2>2 DEF vars, IInv, TypeOK, Event
  <2> QED BY <1>1, <1>2, <2>1, <2>2 DEF Next
<1>3. IInv /\ [Next]_vars => [Held]_vars
  BY <1>2
<1> QED BY <1>3, Invariance, PTL DEF Spec, EraseNeedsBothHeld

\* A click comes only from a short press (button.c, BUTTON_UP): the end of a
\* hold that counted as long never also opens or closes the valve.
THEOREM ClickOnlyShort == Spec => ClickIsShort
<1> DEFINE Short == \A k \in Key : Sem'[k] > Sem[k] =>
                      0 < held[k] /\ held[k] < BUTTON_LONG_TIME + BUTTON_LONG_CYCLE
<1>1. ASSUME IInv, [Next]_vars
      PROVE  Short
  <2>1. CASE \E k \in Key : Button_Cycle_Process(k)
    BY <1>1, <2>1, ScanStep
  <2>2. CASE Key_Reponse_Callback \/ Erase
    BY <1>1, <2>2, LoopStep, EraseStep DEF Event, Key
  <2>3. CASE UNCHANGED vars
    BY <1>1, <2>3 DEF vars, IInv, TypeOK, Event, Key
  <2> QED BY <1>1, <2>1, <2>2, <2>3 DEF Next
<1>2. IInv /\ [Next]_vars => [Short]_vars
  BY <1>1
<1> QED BY <1>2, Invariance, PTL DEF Spec, ClickIsShort
=============================================================================
