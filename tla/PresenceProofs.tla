--------------------------- MODULE PresenceProofs ---------------------------
(***************************************************************************)
(* The presence sweep detects in time and marks no settled device early,   *)
(* for every table size, every period and every mix of ids.                *)
(***************************************************************************)
EXTENDS Presence, TableProofs

\* The types of what is kept beside the table.
SideTyped ==
    /\ ID_Time \in [Slot -> 0..Cap]
    /\ Alive \in [Slot -> {0, 1}] /\ GetMesssage \in [Slot -> {0, 1}]
    /\ StoredAlive \subseteq Ids
    /\ RTC_Counter \in 0..(Cap - 1)
    /\ Learn_Flag \in {0, 1} /\ offline \in BOOLEAN
    /\ silent \in [Slot -> 0..(2 * Cap)] /\ settled \subseteq Slot
    /\ up \in 0..Cap /\ mixed \in BOOLEAN

LEMMA TypeParts ==
    /\ TypeOK <=> TableTypeOK /\ SideTyped
    /\ TypeOK' <=> TableTypeOK' /\ SideTyped'
BY DEF TypeOK, SideTyped

\* Zeroed counters have their types.
LEMMA ZeroTyped ==
    /\ Zero \in [Slot -> 0..Cap] /\ Zero \in [Slot -> {0, 1}] /\ Zero \in [Slot -> 0..(2 * Cap)]
    /\ 0 \in 0..(Cap - 1) /\ 0 \in 0..Cap
    /\ \A s \in Slot : Zero[s] = 0
BY CapAssumption DEF Zero

\* A boot establishes the bounds, whatever the table.
LEMMA BootInv ==
    ASSUME SideTyped, TableTypeOK', StoredAlive' \subseteq Ids, LoadDevice2Memory
    PROVE  TypeOK' /\ Bounds' /\ mixed' = ~OneSlotEach'
<1>1. /\ silent' \in [Slot -> 0..(2 * Cap)] /\ Alive' \in [Slot -> {0, 1}]
      /\ \A s \in Slot : Alive'[s] = IF ID'[s] \in StoredAlive' THEN 1 ELSE 0
  BY CapAssumption DEF SideTyped, LoadDevice2Memory
<1>2. mixed' = ~OneSlotEach' /\ OneSlotEach' \in BOOLEAN
  BY DEF LoadDevice2Memory, OneSlotEach
<1>3. SideTyped'
  BY <1>1, <1>2, ZeroTyped DEF SideTyped, LoadDevice2Memory
<1>4. Bounds'
  <2>1. \A s \in Slot : ID_Time'[s] = 0 /\ GetMesssage'[s] = 0 /\ silent'[s] \in 0..(2 * Cap)
    BY <1>1, ZeroTyped DEF LoadDevice2Memory
  <2>2. RTC_Counter' = 0 /\ up' = 0 /\ settled' = {s \in Slot : ID'[s] # None}
    BY DEF LoadDevice2Memory
  <2>3. Unused'
    <3> SUFFICES ASSUME NEW s \in Slot, s > Num' PROVE Alive'[s] = 0
      BY DEF Unused
    <3>1. ID'[s] = None
      BY IDFacts, SlotFacts
    <3> QED BY <1>1, <3>1, IdsAssumption
  <2> QED BY <2>1, <2>2, <2>3, CapAssumption DEF Bounds, Counting, HeardBound, SilenceBound
<1> QED BY <1>2, <1>3, <1>4, TypeParts

\* A sign of life in slot s.  The counter of the slot may be cleared as well.
LEMMA HeardInv ==
    ASSUME TypeOK, NEW s \in Slot, NEW d \in Ids, Found(s, d), Device_AliveChange(s, d),
           ID_Time' = ID_Time \/ ID_Time' = [ID_Time EXCEPT ![s] = 0],
           UNCHANGED <<tableVars, RTC_Counter, Learn_Flag, bootVars>>, offline' \in BOOLEAN
    PROVE  TypeOK' /\ (Bounds => Bounds')
<1>1. TableTypeOK /\ SideTyped
  BY TypeParts
<1>2. TableTypeOK' /\ ID' = ID
  BY <1>1, SameID DEF TableTypeOK, tableVars
<1>3. /\ Alive' \in [Slot -> {0, 1}] /\ GetMesssage' \in [Slot -> {0, 1}]
      /\ silent' \in [Slot -> 0..(2 * Cap)] /\ ID_Time' \in [Slot -> 0..Cap]
      /\ \A t \in Slot : /\ Alive'[t] = IF t = s THEN 1 ELSE Alive[t]
                         /\ GetMesssage'[t] = IF t = s THEN 1 ELSE GetMesssage[t]
                         /\ silent'[t] = IF t = s THEN 0 ELSE silent[t]
                         /\ t # s => ID_Time'[t] = ID_Time[t]
  BY <1>1, CapAssumption DEF SideTyped, Device_AliveChange
<1>4. SideTyped'
  BY <1>1, <1>3 DEF SideTyped, Device_AliveChange, bootVars
<1>5. settled' = settled \cup {s} /\ RTC_Counter' = RTC_Counter /\ RTC_Counter \in Nat /\ up' = up
  BY <1>1, CapAssumption DEF Device_AliveChange, SideTyped, bootVars
<1>6. Num' = Num /\ DoorNum' = DoorNum /\ GatewayNum' = GatewayNum
  BY DEF tableVars
<1>7. ASSUME Bounds PROVE Bounds'
  <2>1. Counting'
    BY <1>3, <1>5, <1>6, <1>7 DEF Bounds, Counting
  <2>2. HeardBound'
    BY <1>2, <1>3, <1>5, <1>6, <1>7 DEF Bounds, HeardBound, Watched
  <2>3. SilenceBound'
    BY <1>1, <1>2, <1>3, <1>5, <1>7, IdsAssumption DEF Bounds, SilenceBound, SideTyped, Found
  <2>4. Unused'
    BY <1>1, <1>3, <1>6, <1>7, SlotFacts DEF Bounds, Unused, Found, TableTypeOK
  <2> QED BY <2>1, <2>2, <2>3, <2>4 DEF Bounds
<1> QED BY <1>2, <1>4, <1>7, TypeParts

\* A new device in slot s: only its silence starts afresh.
LEMMA LearnNewInv ==
    ASSUME TypeOK, NEW d \in Ids, LearnNew(d)
    PROVE  TypeOK' /\ (OneSlotEach => OneSlotEach') /\ (Bounds => Bounds')
<1>1. TableTypeOK /\ SideTyped
  BY TypeParts
<1>2. PICK s \in Slot : Learn(s, d) /\ silent' = [silent EXCEPT ![s] = 0] /\ settled' = settled \ {s}
  BY DEF LearnNew
<1>3. /\ TableTypeOK' /\ Take(s, d) /\ s <= Num + 1 /\ ~Flash_Get_Key_Valid(d)
      /\ DoorNum' \in {DoorNum, s} /\ GatewayNum' \in {GatewayNum, s}
  BY <1>1, <1>2, LearnFacts
<1>4. OneSlotEach => OneSlotEach'
  BY <1>1, <1>3, TakeUnique
<1>5. /\ silent' \in [Slot -> 0..(2 * Cap)]
      /\ \A t \in Slot : silent'[t] = IF t = s THEN 0 ELSE silent[t]
  BY <1>1, <1>2, CapAssumption DEF SideTyped
<1>6. UNCHANGED <<ID_Time, Alive, GetMesssage, StoredAlive, RTC_Counter, Learn_Flag, offline, up, mixed>>
  BY DEF LearnNew, slotVars, bootVars
<1>7. SideTyped'
  BY <1>1, <1>2, <1>5, <1>6 DEF SideTyped
<1>8. /\ Num <= Num' /\ Num \in Nat /\ Num' \in Nat /\ s \in Nat
      /\ \A t \in Slot : ID'[t] = IF t = s THEN d ELSE ID[t]
  BY <1>1, <1>3, TakeFacts, IDFacts, SlotFacts
<1>9. RTC_Counter \in Nat
  BY <1>1, CapAssumption DEF SideTyped
<1>10. ASSUME Bounds PROVE Bounds'
  <2>1. SilenceBound'
    BY <1>1, <1>2, <1>5, <1>6, <1>8, <1>10 DEF Bounds, SilenceBound, SideTyped
  <2>2. Unused'
    BY <1>6, <1>8, <1>10, SlotFacts DEF Bounds, Unused
  <2>3. Counting'
    <3> SUFFICES ASSUME NEW t \in Slot, t <= Num', Alive[t] = 1, GetMesssage[t] = 0
                 PROVE  ID_Time[t] >= RTC_Counter
      BY <1>6 DEF Counting
    <3>1. t <= Num
      BY <1>8, <1>10, SlotFacts DEF Bounds, Unused
    <3> QED BY <1>10, <3>1 DEF Bounds, Counting
  <2>4. HeardBound'
    <3> SUFFICES ASSUME NEW t \in Slot, Watched(t)', Alive[t] = 1
                 PROVE  \/ silent'[t] <= IF GetMesssage[t] = 1 THEN RTC_Counter ELSE Cap + RTC_Counter
                        \/ GetMesssage[t] = 0 /\ up <= RTC_Counter
      BY <1>6 DEF HeardBound
    <3>1. CASE t = s
      BY <1>5, <1>9, <3>1, CapAssumption
    <3>2. CASE t # s
      <4>1. ID'[t] = ID[t] /\ ID[t] # None /\ t <= Num
        BY <1>1, <1>8, <3>2, IDFacts DEF Watched
      <4>2. t = DoorNum \/ t # GatewayNum
        <5>1. CASE GatewayNum' = GatewayNum
          BY <1>3, <3>2, <5>1 DEF Watched
        <5>2. CASE GatewayNum' # GatewayNum
          <6>1. PartSlot(GatewayNum, s) /\ s # GatewayNum
            BY <1>2, <1>3, <5>2 DEF Learn, Add_Device, Add_DoorDevice, Add_GatewayDevice
          <6>2. ~Played(GatewayNum)
            BY <6>1 DEF PartSlot
          <6> QED BY <4>1, <6>2, SlotFacts DEF Played
        <5> QED BY <5>1, <5>2
      <4>3. Watched(t)
        BY <4>1, <4>2 DEF Watched
      <4> QED BY <1>5, <1>10, <3>2, <4>3 DEF Bounds, HeardBound
    <3> QED BY <3>1, <3>2
  <2> QED BY <2>1, <2>2, <2>3, <2>4 DEF Bounds
<1> QED BY <1>3, <1>4, <1>7, <1>10, TypeParts

\* While ids are unique the sweep marks the slots it finds silent.
LEMMA MarkedFacts ==
    ASSUME TableTypeOK, OneSlotEach, NEW s \in Slot
    PROVE  MarkedDead(s) <=> Overdue(s) /\ (s = DoorNum \/ s # GatewayNum)
<1>1. ASSUME NEW t \in Slot, Overdue(t), Found(s, ID[t]) PROVE t = s
  BY <1>1, IDFacts DEF Found, Overdue, OneSlotEach
<1>2. ASSUME Overdue(s) PROVE Found(s, ID[s])
  <2>1. s \in 1..Num
    BY <1>2, IDFacts DEF Overdue
  <2>2. \A t \in 1..Num : t > s => ID[t] # ID[s]
    <3> SUFFICES ASSUME NEW t \in 1..Num, t > s, ID[t] = ID[s] PROVE FALSE
      OBVIOUS
    <3>1. t \in Slot
      BY IDFacts, MaxSlotAssumption DEF Slot
    <3> QED BY <1>2, <3>1, SlotFacts DEF Overdue, OneSlotEach
  <2> QED BY <2>1, <2>2 DEF Found
<1> QED BY <1>1, <1>2 DEF MarkedDead

\* An hour keeps the types.
LEMMA HourTyped ==
    ASSUME TypeOK, Hour
    PROVE  /\ TypeOK' /\ ID' = ID
           /\ UNCHANGED <<Num, DoorNum, GatewayNum, settled, Learn_Flag, mixed>>
           /\ \A s \in Slot : silent'[s] = IF ID[s] # None /\ silent[s] < 2 * Cap
                                           THEN silent[s] + 1 ELSE silent[s]
           /\ up' = IF up < Cap THEN up + 1 ELSE up
           /\ \A s \in Slot : Aged(s) \in 0..Cap
<1>1. TableTypeOK /\ SideTyped
  BY TypeParts
<1>2. TableTypeOK' /\ ID' = ID /\ UNCHANGED <<Num, DoorNum, GatewayNum, settled, Learn_Flag, mixed>>
  BY <1>1, SameID DEF Hour, tableVars, TableTypeOK
<1>3. /\ silent' \in [Slot -> 0..(2 * Cap)] /\ up' \in 0..Cap
      /\ \A s \in Slot : silent'[s] = IF ID[s] # None /\ silent[s] < 2 * Cap
                                       THEN silent[s] + 1 ELSE silent[s]
      /\ up' = IF up < Cap THEN up + 1 ELSE up
  BY <1>1, CapAssumption DEF Hour, Older, SideTyped
<1>4. \A s \in Slot : Aged(s) \in 0..Cap
  BY <1>1, CapAssumption DEF Aged, SideTyped
<1>5. /\ Alive' \in [Slot -> {0, 1}] /\ GetMesssage' \in [Slot -> {0, 1}] /\ ID_Time' \in [Slot -> 0..Cap]
      /\ StoredAlive' \subseteq Ids /\ RTC_Counter' \in 0..(Cap - 1)
  <2>1. CASE Update_All_Time
    BY <1>1, <1>4, <2>1, CapAssumption DEF Update_All_Time, SideTyped
  <2>2. CASE Detect_All_Time
    BY <1>1, <1>4, <2>2, CapAssumption DEF Detect_All_Time, SideTyped
  <2> QED BY <2>1, <2>2 DEF Hour
<1>6. offline' \in BOOLEAN
  BY <1>1 DEF Hour, Update_All_Time, Detect_All_Time, SideTyped
<1>7. SideTyped'
  BY <1>1, <1>2, <1>3, <1>5, <1>6 DEF SideTyped
<1> QED BY <1>2, <1>3, <1>4, <1>7, TypeParts

\* The counters and the silences grow together, and the sweep leaves no mark
\* behind that the next one could not account for.
LEMMA HourInv == ASSUME TypeOK, OneSlotEach, Bounds, Hour PROVE Bounds'
<1>1. TableTypeOK /\ SideTyped
  BY TypeParts
<1>2. UNCHANGED <<Num, ID, DoorNum, GatewayNum, settled>>
  BY HourTyped
<1>3. /\ \A s \in Slot : silent'[s] = IF ID[s] # None /\ silent[s] < 2 * Cap
                                       THEN silent[s] + 1 ELSE silent[s]
      /\ up' = IF up < Cap THEN up + 1 ELSE up
  BY HourTyped
<1>4. \A s \in Slot : /\ Aged(s) \in 0..Cap
                      /\ Aged(s) = IF s <= Num /\ ID_Time[s] < Cap THEN ID_Time[s] + 1 ELSE ID_Time[s]
                      /\ ID_Time[s] \in 0..Cap /\ silent[s] \in 0..(2 * Cap)
                      /\ Alive[s] \in {0, 1} /\ GetMesssage[s] \in {0, 1}
  BY <1>1, CapAssumption DEF Aged, SideTyped
<1>5. RTC_Counter \in 0..(Cap - 1) /\ settled \subseteq Slot /\ up \in 0..Cap
  BY <1>1 DEF SideTyped
<1>6. CASE Update_All_Time
  <2>1. /\ RTC_Counter' = RTC_Counter + 1 /\ RTC_Counter' \in 0..(Cap - 1)
        /\ \A s \in Slot : ID_Time'[s] = Aged(s)
        /\ Alive' = Alive /\ GetMesssage' = GetMesssage
    BY <1>5, <1>6, CapAssumption DEF Update_All_Time
  <2>2. Counting'
    BY <1>2, <1>4, <1>5, <1>6, <2>1, CapAssumption DEF Bounds, Counting, Update_All_Time
  <2>3. HeardBound'
    BY <1>2, <1>3, <1>4, <1>5, <2>1, CapAssumption DEF Bounds, HeardBound, Watched
  <2>4. SilenceBound'
    BY <1>2, <1>3, <1>4, <1>5, <2>1, CapAssumption DEF Bounds, SilenceBound
  <2>5. Unused'
    BY <1>2, <2>1 DEF Bounds, Unused
  <2> QED BY <2>2, <2>3, <2>4, <2>5 DEF Bounds
<1>7. CASE Detect_All_Time
  <2>1. /\ RTC_Counter = Cap - 1 /\ RTC_Counter' = 0
        /\ \A s \in Slot : /\ Alive'[s] = IF MarkedDead(s) THEN 0 ELSE Alive[s]
                           /\ ID_Time'[s] = IF Cleared(s) THEN 0 ELSE Aged(s)
                           /\ GetMesssage'[s] = IF Cleared(s) \/ MarkedDead(s) THEN 0 ELSE GetMesssage[s]
    BY <1>5, <1>7, CapAssumption DEF Detect_All_Time
  <2>2. \A s \in Slot : MarkedDead(s) => GetMesssage[s] = 0
    BY <1>1, MarkedFacts DEF Overdue
  <2>3. \A s \in Slot : ID_Time'[s] \in Nat
    BY <1>4, <2>1, CapAssumption
  <2>4. Counting'
    BY <2>1, <2>3 DEF Counting
  <2>5. HeardBound'
    <3> SUFFICES ASSUME NEW s \in Slot, Watched(s), Alive'[s] = 1
                 PROVE  silent'[s] <= IF GetMesssage'[s] = 1 THEN 0 ELSE Cap
      BY <1>2, <2>1, CapAssumption DEF HeardBound, Watched
    <3>1. Alive[s] = 1 /\ ~MarkedDead(s) /\ s <= Num
      BY <1>4, <2>1 DEF Watched
    <3>2. ~Overdue(s)
      BY <1>1, <3>1, MarkedFacts DEF Watched
    <3>3. GetMesssage[s] = 1
      BY <1>4, <1>5, <2>1, <3>1, <3>2, CapAssumption DEF Bounds, Counting, Overdue, Watched
    <3>4. silent[s] <= Cap - 1
      BY <2>1, <3>1, <3>3 DEF Bounds, HeardBound
    <3>5. GetMesssage'[s] = 0
      BY <2>1, <3>1, <3>3 DEF Cleared
    <3> QED BY <1>3, <1>4, <3>4, <3>5, CapAssumption
  <2>6. SilenceBound'
    <3> SUFFICES ASSUME NEW s \in settled
                 PROVE  ID[s] # None /\ (GetMesssage'[s] = 0 => ID_Time'[s] <= silent'[s])
      BY <1>2 DEF SilenceBound
    <3>1. s \in Slot /\ ID[s] # None /\ (GetMesssage[s] = 0 => ID_Time[s] <= silent[s])
      BY <1>5 DEF Bounds, SilenceBound
    <3>2. silent'[s] \in Nat /\ silent'[s] = IF silent[s] < 2 * Cap THEN silent[s] + 1 ELSE silent[s]
      BY <1>3, <1>4, <3>1, CapAssumption
    <3>3. GetMesssage[s] = 0 => Aged(s) <= silent'[s]
      BY <1>4, <3>1, <3>2, CapAssumption
    <3>4. ~Cleared(s) /\ GetMesssage'[s] = 0 => GetMesssage[s] = 0
      BY <1>4, <2>1, <2>2, <3>1
    <3> QED BY <2>1, <3>1, <3>2, <3>3, <3>4
  <2>7. Unused'
    BY <1>2, <2>1 DEF Bounds, Unused
  <2> QED BY <2>4, <2>5, <2>6, <2>7 DEF Bounds
<1> QED BY <1>6, <1>7 DEF Hour

\* Deleting a device frees its slot and moves no counter; the history of the
\* slot ends.
LEMMA DeletePInv ==
    ASSUME TypeOK, NEW d \in Ids, Delete(d)
    PROVE  TypeOK' /\ (OneSlotEach => OneSlotEach') /\ (Bounds => Bounds')
<1>1. TableTypeOK /\ SideTyped
  BY TypeParts
<1>2. /\ TableTypeOK' /\ Num' = Num /\ GatewayNum' = GatewayNum /\ DoorNum' \in {0, DoorNum}
      /\ \E s \in Slot : \A t \in Slot : ID'[t] = IF t = s THEN None ELSE ID[t]
  BY <1>1, DeleteFacts DEF Delete
<1>3. \A t \in Slot : ID'[t] # None => ID'[t] = ID[t]
  BY <1>2
<1>4. UNCHANGED <<ID_Time, Alive, GetMesssage, StoredAlive, RTC_Counter, Learn_Flag, offline, up, mixed>>
  BY DEF Delete, slotVars, bootVars
<1>5. /\ settled' = {s \in settled : ID'[s] # None}
      /\ silent' \in [Slot -> 0..(2 * Cap)]
      /\ \A t \in Slot : ID'[t] # None => silent'[t] = silent[t]
  BY <1>1, CapAssumption DEF Delete, SideTyped
<1>6. SideTyped'
  BY <1>1, <1>4, <1>5 DEF SideTyped
<1>7. OneSlotEach => OneSlotEach'
  BY <1>2 DEF OneSlotEach
<1>8. ASSUME Bounds PROVE Bounds'
  <2>1. \A t \in Slot : Watched(t)' => Watched(t) /\ silent'[t] = silent[t]
    BY <1>2, <1>3, <1>5, SlotFacts DEF Watched
  <2>2. HeardBound'
    BY <1>4, <1>8, <2>1 DEF Bounds, HeardBound
  <2>3. SilenceBound'
    BY <1>1, <1>4, <1>5, <1>8 DEF Bounds, SilenceBound, SideTyped
  <2>4. Unused' /\ Counting'
    BY <1>2, <1>4, <1>8 DEF Bounds, Unused, Counting
  <2> QED BY <2>2, <2>3, <2>4 DEF Bounds
<1> QED BY <1>2, <1>6, <1>7, <1>8, TypeParts

\* A wipe zeroes what the bounds speak of.
LEMMA WipePInv == ASSUME TypeOK, Wipe PROVE TypeOK' /\ OneSlotEach' /\ Bounds'
<1>1. SideTyped /\ TableTypeOK' /\ OneSlotEach'
  BY TypeParts, WipeFacts DEF Wipe
<1>2. SideTyped'
  BY <1>1, ZeroTyped DEF Wipe, SideTyped, bootVars
<1>3. \A s \in Slot : Alive'[s] = 0 /\ ID_Time'[s] = 0 /\ silent'[s] = 0
  BY ZeroTyped DEF Wipe
<1>4. settled' = {}
  BY DEF Wipe
<1> QED BY <1>1, <1>2, <1>3, <1>4, TypeParts DEF Bounds, Unused, Counting, HeardBound, SilenceBound

\* Steps that only move the status or the learn mode.
LEMMA StatusPInv ==
    ASSUME TypeOK, UNCHANGED <<tableVars, slotVars, StoredAlive, RTC_Counter, histVars>>,
           Learn_Flag' \in {0, 1}, offline' \in BOOLEAN
    PROVE  TypeOK' /\ (OneSlotEach => OneSlotEach') /\ (Bounds => Bounds')
<1>1. ID' = ID
  BY SameID
<1> QED BY <1>1 DEF TypeOK, TableTypeOK, OneSlotEach, Bounds, Unused, Counting, HeardBound,
           SilenceBound, Watched, tableVars, slotVars, histVars, bootVars

LEMMA InitPInv == Init => PInv
<1> SUFFICES ASSUME Init PROVE PInv
  OBVIOUS
<1>1. TableTypeOK /\ OneSlotEach
  BY TableInitInv DEF Init
<1>2. SideTyped
  BY ZeroTyped DEF Init, SideTyped
<1>3. Bounds
  BY ZeroTyped DEF Init, Bounds, Unused, Counting, HeardBound, SilenceBound
<1> QED BY <1>1, <1>2, <1>3, TypeParts DEF PInv

\* A restart, out of an operation cut short or not.
LEMMA ResetPInv == ASSUME TypeOK, Reset \/ TornReset PROVE PInv'
<1>1. TableTypeOK /\ SideTyped
  BY TypeParts
<1>2. [TableNext \/ TornWrite]_tableVars /\ StoredAlive' \subseteq Ids /\ LoadDevice2Memory
  BY <1>1 DEF Reset, TornReset, TornWrite, SideTyped
<1>3. TableTypeOK'
  BY <1>1, <1>2, TableTyped
<1> QED BY <1>1, <1>2, <1>3, BootInv DEF PInv

LEMMA NextPInv == ASSUME PInv, [Next]_vars PROVE PInv'
<1> USE DEF PInv
<1>1. SideTyped
  BY TypeParts
<1>2. ASSUME NEW d \in Ids, NormalSolve(d) PROVE PInv'
  <2>1. offline' \in BOOLEAN
    BY <1>1, <1>2 DEF NormalSolve, Offline_React, SideTyped
  <2>2. TypeOK' /\ (Bounds => Bounds')
    BY <1>2, <2>1, HeardInv DEF NormalSolve
  <2>3. mixed' = mixed /\ ID' = ID
    BY <1>2, SameID DEF NormalSolve, bootVars
  <2> QED BY <2>2, <2>3 DEF OneSlotEach
<1>3. ASSUME NEW d \in Ids, LearnKnown(d) PROVE PInv'
  <2>1. offline' \in BOOLEAN
    BY <1>1, <1>3 DEF LearnKnown, SideTyped
  <2>2. TypeOK' /\ (Bounds => Bounds')
    BY <1>3, <2>1, HeardInv DEF LearnKnown
  <2>3. mixed' = mixed /\ ID' = ID
    BY <1>3, SameID DEF LearnKnown, bootVars
  <2> QED BY <2>2, <2>3 DEF OneSlotEach
<1>4. CASE Start_Learn \/ Stop_Learn \/ StatusReplaced \/ UNCHANGED vars
  <2>1. /\ UNCHANGED <<tableVars, slotVars, StoredAlive, RTC_Counter, histVars>>
        /\ Learn_Flag' \in {0, 1} /\ offline' \in BOOLEAN /\ mixed' = mixed
    BY <1>1, <1>4 DEF Start_Learn, Stop_Learn, StatusReplaced, SideTyped, vars, histVars, bootVars
  <2> QED BY <2>1, StatusPInv
<1>5. ASSUME NEW d \in Ids, LearnNew(d) \/ Delete(d) PROVE PInv'
  <2>1. mixed' = mixed
    BY <1>5 DEF LearnNew, Delete, bootVars
  <2> QED BY <1>5, <2>1, LearnNewInv, DeletePInv
<1>6. CASE Hour
  <2>1. TypeOK' /\ mixed' = mixed /\ ID' = ID
    BY <1>6, HourTyped
  <2> QED BY <1>6, <2>1, HourInv DEF OneSlotEach
<1> QED BY <1>2, <1>3, <1>4, <1>5, <1>6, WipePInv, ResetPInv DEF Next

\* The invariant the results rest on.
THEOREM PresenceInvariance == Spec => []PInv
BY InitPInv, NextPInv, PTL DEF Spec

\* Type correctness of the presence table (RTCWork.c, flashwork.c): no counter
\* of a slot runs past the period, whatever resets, torn writes and sweeps come.
THEOREM PresenceTypes == Spec => []TypeOK
BY PresenceInvariance, PTL DEF PInv

\* Two periods of silence, restarts included, are noticed once the unit has
\* been up for one period (Detect_All_Time), unless its last boot found an id
\* in two slots.
THEOREM SilenceDetected == Spec => []DetectedInTime
<1>1. PInv => DetectedInTime
  <2> SUFFICES ASSUME PInv, ~mixed, up = Cap,
                      NEW s \in Slot, Watched(s), silent[s] = 2 * Cap, Alive[s] # 0
               PROVE  FALSE
    BY DEF DetectedInTime
  <2>1. Alive[s] = 1 /\ RTC_Counter \in 0..(Cap - 1)
    BY DEF PInv, TypeOK
  <2>2. silent[s] <= RTC_Counter \/ silent[s] <= Cap + RTC_Counter \/ up <= RTC_Counter
    BY <2>1 DEF PInv, Bounds, HeardBound
  <2> QED BY <2>1, <2>2, CapAssumption
<1> QED BY <1>1, PresenceInvariance, PTL

\* A settled device is marked dead only after a whole period of silence
\* (GetMesssage and Clear_All_Time).
THEOREM NoSettledEarly == Spec => MarkedOnlyIfSilent
<1>1. ASSUME PInv, Hour, ~mixed
      PROVE  \A s \in settled : Alive[s] = 1 /\ Alive'[s] = 0 => silent'[s] >= Cap
  <2> SUFFICES ASSUME NEW s \in settled, Alive[s] = 1, Alive'[s] = 0 PROVE silent'[s] >= Cap
    OBVIOUS
  <2>1. s \in Slot /\ ID_Time[s] \in 0..Cap /\ silent[s] \in 0..(2 * Cap) /\ TableTypeOK /\ OneSlotEach
    BY <1>1 DEF PInv, TypeOK
  <2>2. silent'[s] = IF silent[s] < 2 * Cap THEN silent[s] + 1 ELSE silent[s]
    BY <1>1, <2>1 DEF Hour, Older, PInv, Bounds, SilenceBound
  <2>3. MarkedDead(s)
    BY <1>1, <2>1 DEF Hour, Update_All_Time, Detect_All_Time
  <2>4. Aged(s) = Cap /\ GetMesssage[s] = 0
    BY <2>1, <2>3, MarkedFacts DEF Overdue
  <2>5. ID_Time[s] <= silent[s] /\ Aged(s) <= ID_Time[s] + 1
    BY <1>1, <2>1, <2>4, CapAssumption DEF PInv, Bounds, SilenceBound, Aged
  <2> QED BY <2>1, <2>2, <2>4, <2>5, CapAssumption
<1> QED BY <1>1, PresenceInvariance, PTL DEF Spec, MarkedOnlyIfSilent

\* The status between two frames.
Standing == offline /\ Learn_Flag = 0 /\ Num # 0 /\ ~mixed => SensorDead \/ FreeDead

\* A sweep raises Offline over a registered sensor it marks dead.
LEMMA RaisedOver == ASSUME PInv, ~mixed, [Next]_vars, ~offline, offline' PROVE SensorDead'
<1>1. Hour /\ Detect_All_Time
  BY DEF Next, vars, NormalSolve, Offline_React, LearnKnown, LearnNew, Delete, Start_Learn, Stop_Learn,
     StatusReplaced, Reset, TornReset, LoadDevice2Memory, Wipe, Hour, Update_All_Time
<1>2. PICK s \in Slot : Overdue(s) /\ s # DoorNum /\ s # GatewayNum
  BY <1>1 DEF Detect_All_Time
<1>3. UNCHANGED <<Num, ID, DoorNum, GatewayNum>> /\ TableTypeOK /\ OneSlotEach
  BY <1>1, HourTyped DEF PInv, TypeOK
<1>4. Alive'[s] = 0
  BY <1>1, <1>2, <1>3, MarkedFacts DEF Detect_All_Time
<1>5. s \in 1..Num /\ ID[s] # None
  BY <1>2, <1>3, IDFacts DEF Overdue
<1> QED BY <1>2, <1>3, <1>4, <1>5 DEF SensorDead

LEMMA StandingStep == ASSUME PInv, Standing, [Next]_vars PROVE Standing'
<1> SUFFICES ASSUME offline', Learn_Flag' = 0, Num' # 0, ~mixed' PROVE SensorDead' \/ FreeDead'
  BY DEF Standing
<1> USE DEF SensorDead, FreeDead
<1>1. TableTypeOK /\ Num \in Nat /\ 1..Num \subseteq Slot
  BY IDFacts, MaxSlotAssumption DEF PInv, TypeOK, Slot
<1>2. ASSUME NEW d \in Ids, NormalSolve(d) PROVE SensorDead' \/ FreeDead'
  <2>1. SomeDead(Alive') /\ UNCHANGED <<Num, DoorNum, GatewayNum>> /\ ID' = ID
    BY <1>2, SameID DEF NormalSolve, Offline_React, tableVars
  <2> QED BY <2>1 DEF SomeDead
<1>3. ASSUME NEW d \in Ids, LearnKnown(d) \/ LearnNew(d) PROVE FALSE
  <2>1. Learn_Flag = 1 /\ Learn_Flag' = Learn_Flag
    BY <1>3 DEF LearnKnown, LearnNew
  <2> QED BY <2>1
<1>4. CASE Start_Learn \/ Stop_Learn \/ StatusReplaced \/ Reset \/ TornReset \/ Wipe
  BY <1>4 DEF Start_Learn, Stop_Learn, StatusReplaced, Reset, TornReset, LoadDevice2Memory, Wipe,
     DeleteAllDevice
<1>5. ASSUME offline, mixed' = mixed, Num' = Num, Learn_Flag' = Learn_Flag, GatewayNum' = GatewayNum,
             DoorNum' \in {0, DoorNum}, \A s \in Slot : Alive[s] = 0 => Alive'[s] = 0,
             \A s \in Slot : ID'[s] = ID[s] \/ ID'[s] = None
      PROVE  SensorDead' \/ FreeDead'
  <2>1. PICK s \in 1..Num : Alive[s] = 0 /\ (ID[s] = None \/ (s # DoorNum /\ s # GatewayNum))
    BY <1>5 DEF Standing
  <2>2. s \in Slot /\ s # 0
    BY <1>1, <2>1
  <2> QED BY <1>5, <2>1, <2>2
<1>6. ASSUME NEW d \in Ids, Delete(d) PROVE SensorDead' \/ FreeDead'
  <2>1. /\ UNCHANGED <<Num, GatewayNum, Alive, Learn_Flag, offline, mixed>> /\ DoorNum' \in {0, DoorNum}
        /\ \A s \in Slot : ID'[s] = ID[s] \/ ID'[s] = None
    BY <1>1, <1>6, DeleteFacts DEF Delete, slotVars, bootVars
  <2> QED BY <1>5, <2>1
<1>7. CASE Hour
  <2>1. UNCHANGED <<Num, ID, DoorNum, GatewayNum, Learn_Flag, mixed>>
    BY <1>7, HourTyped DEF PInv
  <2>2. \A s \in Slot : Alive[s] = 0 => Alive'[s] = 0
    BY <1>7 DEF Hour, Update_All_Time, Detect_All_Time
  <2>3. CASE offline
    BY <1>5, <2>1, <2>2, <2>3
  <2>4. CASE ~offline
    BY <2>1, <2>4, RaisedOver
  <2> QED BY <2>3, <2>4
<1>8. CASE UNCHANGED vars
  <2>1. UNCHANGED <<Num, ID, DoorNum, GatewayNum, Learn_Flag, mixed, Alive, offline>>
    BY <1>8, SameID DEF vars, tableVars, slotVars, histVars, bootVars
  <2> QED BY <1>5, <2>1
<1> QED BY <1>2, <1>3, <1>4, <1>6, <1>7, <1>8 DEF Next

\* Offline is raised over a registered sensor and outlives the last one only
\* through a free slot marked dead (Detect_All_Time, Offline_React).
THEOREM OfflineHasCause == Spec => OfflineJustified
<1>1. Init => Standing
  BY DEF Init, Standing
<1>2. PInv /\ [Next]_vars => [~offline /\ offline' /\ ~mixed => SensorDead']_vars
  BY RaisedOver
<1>3. Spec => []Standing
  BY <1>1, StandingStep, PresenceInvariance, PTL DEF Spec
<1>4. Standing <=> (offline /\ Learn_Flag = 0 /\ Num # 0 /\ ~mixed => SensorDead \/ FreeDead)
  BY DEF Standing
<1> QED BY <1>2, <1>3, <1>4, PresenceInvariance, PTL DEF Spec, OfflineJustified
=============================================================================
