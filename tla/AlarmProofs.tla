---------------------------- MODULE AlarmProofs ----------------------------
(***************************************************************************)
(* The alarm flags by slot implement the table without slots, whatever is  *)
(* cut short, as long as no id holds two slots.                            *)
(***************************************************************************)
EXTENDS AlarmFlags, TableProofs

AInv == TableTypeOK /\ SlaveAlarm \subseteq Slot /\ StoredAlarm \subseteq Ids

\* The abstract state.
Holders == {ID[s] : s \in Slot} \ {None}
Marked  == {ID[s] : s \in SlaveAlarm}

LEMMA AInvHolds == Spec => []AInv
<1>1. Init => AInv
  BY TableInitInv DEF Init, AInv
<1>2. ASSUME AInv, [Next]_vars PROVE AInv'
  <2>1. [TableNext \/ TornWrite]_tableVars
    BY <1>2 DEF Next, vars, Set_SlaveAlarmFlag, Clear_SlaveAlarmFlag, LearnOrDelete, Wipe, Reset,
       TableNext, TornWrite
  <2>2. TableTypeOK'
    BY <1>2, <2>1, TableTyped DEF AInv
  <2>3. SlaveAlarm' \subseteq Slot /\ StoredAlarm' \subseteq Ids
    BY <1>2 DEF AInv, Next, vars, alarmVars, Set_SlaveAlarmFlag, Clear_SlaveAlarmFlag, LearnOrDelete,
       Wipe, Reset, LoadDevice2Memory
  <2> QED BY <2>2, <2>3 DEF AInv
<1> QED BY <1>1, <1>2, PTL DEF Spec

\* Every id in the table is a Holder, and its slot decides its flag.
LEMMA FoundFacts ==
    ASSUME AInv, OneSlotEach, NEW s \in Slot, NEW d \in Ids, Found(s, d)
    PROVE  /\ ID[s] = d /\ d \in Holders /\ d # None
           /\ d \in Marked <=> s \in SlaveAlarm
           /\ \A t \in Slot : ID[t] = d => t = s
BY IdsAssumption DEF Found, Holders, Marked, AInv, OneSlotEach

\* An unknown id holds no slot.
LEMMA UnknownFacts ==
    ASSUME AInv, NEW d \in Ids, ~Flash_Get_Key_Valid(d)
    PROVE  d \notin Holders /\ \A t \in Slot : ID[t] # d
BY UnknownID DEF Holders, AInv

\* What giving slot s to d does to the abstract state.
LEMMA TakeAbstract ==
    ASSUME AInv, OneSlotEach, NEW s \in Slot, NEW d \in Ids, ~Flash_Get_Key_Valid(d),
           Take(s, d), s <= Num + 1
    PROVE  /\ ID[s] = None => Holders' = Holders \cup {d}
           /\ ID[s] # None => Holders' = (Holders \ {ID[s]}) \cup {d}
           /\ SlaveAlarm' = SlaveAlarm /\ s \notin SlaveAlarm => Marked' = Marked
           /\ (SlaveAlarm' = SlaveAlarm /\ s \in SlaveAlarm /\ ID[s] # None)
                => Marked' = (Marked \ {ID[s]}) \cup {d}
           /\ (SlaveAlarm' = SlaveAlarm /\ s \in SlaveAlarm /\ ID[s] = None)
                => Marked' \in {Marked \cup {d}, (Marked \ {None}) \cup {d}}
<1>1. \A t \in Slot : ID'[t] = IF t = s THEN d ELSE ID[t]
  BY TakeFacts DEF AInv
<1>2. d # None /\ \A t \in Slot : ID[t] # d
  BY UnknownFacts, IdsAssumption
<1>3. \A t \in Slot : ID[t] = ID[s] /\ ID[s] # None => t = s
  BY DEF OneSlotEach
<1>4. SlaveAlarm \subseteq Slot
  BY DEF AInv
<1>5. ID[s] = None => Holders' = Holders \cup {d}
  BY <1>1, <1>2 DEF Holders
<1>6. ID[s] # None => Holders' = (Holders \ {ID[s]}) \cup {d}
  BY <1>1, <1>2, <1>3 DEF Holders
<1>7. SlaveAlarm' = SlaveAlarm /\ s \notin SlaveAlarm => Marked' = Marked
  BY <1>1, <1>4 DEF Marked
<1>8. (SlaveAlarm' = SlaveAlarm /\ s \in SlaveAlarm /\ ID[s] # None)
        => Marked' = (Marked \ {ID[s]}) \cup {d}
  BY <1>1, <1>2, <1>3, <1>4 DEF Marked
<1>9. ASSUME SlaveAlarm' = SlaveAlarm, s \in SlaveAlarm, ID[s] = None
      PROVE  Marked' \in {Marked \cup {d}, (Marked \ {None}) \cup {d}}
  <2>1. CASE \E t \in SlaveAlarm : t # s /\ ID[t] = None
    <3>1. Marked' = Marked \cup {d}
      BY <1>1, <1>4, <1>9, <2>1 DEF Marked
    <3> QED BY <3>1
  <2>2. CASE ~\E t \in SlaveAlarm : t # s /\ ID[t] = None
    <3>1. Marked' = (Marked \ {None}) \cup {d}
      BY <1>1, <1>2, <1>4, <1>9, <2>2 DEF Marked
    <3> QED BY <3>1
  <2> QED BY <2>1, <2>2
<1> QED BY <1>5, <1>6, <1>7, <1>8, <1>9

\* What freeing the slot of d does to it.
LEMMA FreeAbstract ==
    ASSUME AInv, OneSlotEach, NEW s \in Slot, NEW d \in Ids, Found(s, d),
           \A t \in Slot : ID'[t] = IF t = s THEN None ELSE ID[t]
    PROVE  /\ Holders' = Holders \ {d}
           /\ SlaveAlarm' = SlaveAlarm =>
                Marked' = IF d \in Marked THEN (Marked \ {d}) \cup {None} ELSE Marked
<1>1. \A t \in Slot : ID'[t] = IF t = s THEN None ELSE ID[t]
  OBVIOUS
<1>2. ID[s] = d /\ d # None /\ (d \in Marked <=> s \in SlaveAlarm) /\ \A t \in Slot : ID[t] = d => t = s
  BY FoundFacts
<1>3. SlaveAlarm \subseteq Slot
  BY DEF AInv
<1>4. Holders' = Holders \ {d}
  BY <1>1, <1>2 DEF Holders
<1>5. ASSUME SlaveAlarm' = SlaveAlarm
      PROVE  Marked' = IF d \in Marked THEN (Marked \ {d}) \cup {None} ELSE Marked
  <2>1. CASE s \in SlaveAlarm
    BY <1>1, <1>2, <1>3, <1>5, <2>1 DEF Marked
  <2>2. CASE s \notin SlaveAlarm
    BY <1>1, <1>2, <1>3, <1>5, <2>2 DEF Marked
  <2> QED BY <2>1, <2>2
<1> QED BY <1>4, <1>5

\* A boot reads back the flags of exactly the learned devices.
LEMMA LoadAbstract ==
    ASSUME AInv', LoadDevice2Memory
    PROVE  Marked' = StoredAlarm' \cap Holders'
<1>1. SlaveAlarm' = {s \in Slot : ID'[s] \in StoredAlarm'}
  BY DEF LoadDevice2Memory
<1>2. None \notin StoredAlarm'
  BY IdsAssumption DEF AInv
<1> QED BY <1>1, <1>2 DEF Marked, Holders

\* Learning is Add or Replace.
LEMMA LearnStep ==
    ASSUME AInv, OneSlotEach, NEW s \in Slot, NEW d \in Ids, Learn(s, d), UNCHANGED alarmVars
    PROVE  Table!Next
<1>1. ~Flash_Get_Key_Valid(d) /\ Take(s, d) /\ s <= Num + 1 /\ UNCHANGED <<SlaveAlarm, StoredAlarm>>
  BY LearnFacts DEF AInv, alarmVars
<1>2. d \notin Holders
  BY <1>1, UnknownFacts
<1>3. CASE ID[s] = None
  <2>1. Holders' = Holders \cup {d}
    BY <1>1, <1>3, TakeAbstract
  <2>2. CASE s \in SlaveAlarm
    <3>1. Marked' \in {Marked \cup {d}, (Marked \ {None}) \cup {d}} /\ None \in Marked
      BY <1>1, <1>3, <2>2, TakeAbstract DEF Marked
    <3>2. Table!Add(d)
      BY <1>1, <1>2, <2>1, <3>1 DEF Table!Add, Table!Passed, Holders, Marked
    <3> QED BY <3>2 DEF Table!Next
  <2>3. CASE s \notin SlaveAlarm
    <3>1. Marked' = Marked
      BY <1>1, <2>3, TakeAbstract
    <3>2. Table!Add(d)
      BY <1>1, <1>2, <2>1, <3>1 DEF Table!Add, Holders, Marked
    <3> QED BY <3>2 DEF Table!Next
  <2> QED BY <2>2, <2>3
<1>4. CASE ID[s] # None
  <2>1. ID[s] \in Ids /\ ID[s] \in Holders
    BY <1>4, IDFacts DEF AInv, Holders
  <2>2. Holders' = (Holders \ {ID[s]}) \cup {d}
    BY <1>1, <1>4, TakeAbstract
  <2>3. ID[s] \in Marked <=> s \in SlaveAlarm
    BY <1>4 DEF Marked, AInv, OneSlotEach
  <2>4. Marked' = IF ID[s] \in Marked THEN (Marked \ {ID[s]}) \cup {d} ELSE Marked
    BY <1>1, <1>4, <2>3, TakeAbstract
  <2>5. Table!Replace(ID[s], d)
    BY <1>1, <1>2, <2>1, <2>2, <2>4 DEF Table!Replace, Table!Passed, Holders, Marked
  <2> QED BY <2>1, <2>5 DEF Table!Next
<1> QED BY <1>3, <1>4

\* A restart is Restart or, out of an operation cut short, RestartWithin or
\* RestartInWipe.
LEMMA ResetStep == ASSUME AInv, AInv', OneSlotEach, Reset PROVE Table!Next
<1>1. Marked' = StoredAlarm' \cap Holders'
  BY LoadAbstract DEF Reset
<1>2. ASSUME NEW x \in Ids, NEW d \in Ids, StoredAlarm' = StoredAlarm,
             Holders' \in {Holders, Holders \ {d}, Holders \cup {d}, (Holders \ {x}) \cup {d}}
      PROVE  Table!Next
  <2>1. Table!RestartWithin(x, d)
    BY <1>1, <1>2 DEF Table!RestartWithin, Table!Load, Holders, Marked
  <2> QED BY <2>1 DEF Table!Next
<1>3. ASSUME StoredAlarm' = StoredAlarm, Holders' = Holders PROVE Table!Next
  <2>1. Table!Restart
    BY <1>1, <1>3 DEF Table!Restart, Table!Load, Holders, Marked
  <2> QED BY <2>1 DEF Table!Next
<1>4. CASE UNCHANGED <<tableVars, StoredAlarm>>
  BY <1>3, <1>4, SameID DEF Holders
<1>5. CASE TornNum /\ UNCHANGED StoredAlarm
  <2>1. PICK s \in Slot : \A t \in Slot : ID'[t] = IF t = s THEN Key[t] ELSE ID[t]
    BY <1>5, TornNumFacts DEF AInv
  <2>2. CASE ID[s] = None /\ Key[s] # None
    <3>1. Key[s] \in Ids
      BY <2>2 DEF AInv, TableTypeOK
    <3>2. Holders' = Holders \cup {Key[s]}
      BY <2>1, <2>2, <3>1 DEF Holders
    <3> QED BY <1>2, <1>5, <3>1, <3>2
  <2>3. CASE ID[s] # None \/ Key[s] = None
    <3>1. ID[s] = Key[s]
      BY <2>3, IDFacts DEF AInv
    <3>2. \A t \in Slot : ID'[t] = ID[t]
      BY <2>1, <3>1
    <3> QED BY <1>3, <1>5, <3>2 DEF Holders
  <2> QED BY <2>2, <2>3
<1>6. ASSUME NEW s \in Slot, NEW d \in Ids, TornPart(s, d), UNCHANGED StoredAlarm PROVE Table!Next
  <2>1. ~Flash_Get_Key_Valid(d) /\ Take(s, d) /\ s <= Num + 1
    BY <1>6, TornPartFacts DEF AInv
  <2>2. CASE ID[s] = None
    BY <1>2, <1>6, <2>1, <2>2, TakeAbstract
  <2>3. CASE ID[s] # None
    <3>1. ID[s] \in Ids
      BY <2>3, IDFacts DEF AInv
    <3> QED BY <1>2, <1>6, <2>1, <2>3, <3>1, TakeAbstract
  <2> QED BY <2>2, <2>3
<1>7. ASSUME NEW d \in Ids, TornDelete(d), UNCHANGED StoredAlarm PROVE Table!Next
  <2>1. PICK s \in Slot : Found(s, d) /\ \A t \in Slot : ID'[t] = IF t = s THEN None ELSE ID[t]
    BY <1>7, DeleteFacts DEF AInv
  <2> QED BY <1>2, <1>7, <2>1, FreeAbstract
<1>8. CASE TornWipe /\ StoredAlarm' \in SUBSET StoredAlarm
  <2>1. \A s \in Slot : ID'[s] \in {None, ID[s]}
    BY <1>8, TornWipeFacts DEF AInv
  <2>2. Holders' \in SUBSET Holders
    BY <2>1 DEF Holders
  <2>3. Table!RestartInWipe
    BY <1>1, <1>8, <2>2 DEF Table!RestartInWipe, Table!Load, Holders, Marked
  <2> QED BY <2>3 DEF Table!Next
<1> QED BY <1>4, <1>5, <1>6, <1>7, <1>8 DEF Reset, TornStep

\* The flags by slot implement the table without slots that the valve control
\* is checked against (Flash_Set_SlaveAlarmFlag, Delete_Device, Add_Device...),
\* in every step from a state in which no id holds two slots.
THEOREM SlotsRefine == Spec => SlotsImplementTable
<1>1. Init => Table!Init
  BY DEF Init, TableInit, Table!Init, ID
<1>2. ASSUME AInv, AInv', OneSlotEach, [Next]_vars PROVE [Table!Next]_(Table!atVars)
  <2>1. ASSUME NEW d \in Ids, Set_SlaveAlarmFlag(d) PROVE Table!Next
    <3>1. PICK s \in Slot : /\ Found(s, d) /\ SlaveAlarm' = SlaveAlarm \cup {s}
                           /\ StoredAlarm' = IF s \in SlaveAlarm THEN StoredAlarm ELSE StoredAlarm \cup {d}
      BY <2>1 DEF Set_SlaveAlarmFlag
    <3>2. ID' = ID /\ ID[s] = d /\ d \in Holders /\ (d \in Marked <=> s \in SlaveAlarm)
      BY <1>2, <2>1, <3>1, FoundFacts, SameID DEF Set_SlaveAlarmFlag
    <3>3. Marked' = Marked \cup {d} /\ Holders' = Holders
      BY <3>1, <3>2 DEF Marked, Holders
    <3>4. Table!Raise(d)
      BY <3>1, <3>2, <3>3 DEF Table!Raise, Marked, Holders
    <3> QED BY <3>4 DEF Table!Next
  <2>2. ASSUME NEW d \in Ids, Clear_SlaveAlarmFlag(d) PROVE Table!Next
    <3>1. PICK s \in Slot : /\ Found(s, d) /\ SlaveAlarm' = SlaveAlarm \ {s}
                           /\ StoredAlarm' = IF s \in SlaveAlarm THEN StoredAlarm \ {d} ELSE StoredAlarm
      BY <2>2 DEF Clear_SlaveAlarmFlag
    <3>2. /\ ID' = ID /\ ID[s] = d /\ d \in Holders /\ (d \in Marked <=> s \in SlaveAlarm)
          /\ \A t \in Slot : ID[t] = d => t = s
      BY <1>2, <2>2, <3>1, FoundFacts, SameID DEF Clear_SlaveAlarmFlag
    <3>3. Marked' = Marked \ {d} /\ Holders' = Holders
      BY <1>2, <3>1, <3>2 DEF Marked, Holders, AInv
    <3>4. Table!Lower(d)
      BY <3>1, <3>2, <3>3 DEF Table!Lower, Marked, Holders
    <3> QED BY <3>4 DEF Table!Next
  <2>3. ASSUME NEW d \in Ids, Delete_Device(d), UNCHANGED alarmVars PROVE Table!Next
    <3>1. PICK s \in Slot : Found(s, d) /\ \A t \in Slot : ID'[t] = IF t = s THEN None ELSE ID[t]
      BY <1>2, <2>3, DeleteFacts DEF AInv
    <3>2. /\ Holders' = Holders \ {d} /\ d \in Holders /\ StoredAlarm' = StoredAlarm
          /\ Marked' = IF d \in Marked THEN (Marked \ {d}) \cup {None} ELSE Marked
      BY <1>2, <2>3, <3>1, FreeAbstract, FoundFacts DEF alarmVars
    <3>3. Table!Delete(d)
      BY <3>2 DEF Table!Delete, Table!Passed, Marked, Holders
    <3> QED BY <3>3 DEF Table!Next
  <2>4. CASE LearnOrDelete
    BY <1>2, <2>3, <2>4, LearnStep DEF LearnOrDelete
  <2>5. CASE Wipe
    <3>1. Table!Wipe
      BY <2>5, WipeFacts DEF Wipe, Table!Wipe
    <3> QED BY <3>1 DEF Table!Next
  <2>6. CASE Reset
    BY <1>2, <2>6, ResetStep
  <2>7. CASE UNCHANGED vars
    BY <2>7, SameID DEF vars, alarmVars, Table!atVars
  <2> QED BY <1>2, <2>1, <2>2, <2>4, <2>5, <2>6, <2>7 DEF Next
<1>3. AInv /\ AInv' /\ [Next]_vars => [OneSlotEach => Table!Next]_(Table!atVars)
  BY <1>2
<1> QED BY <1>1, <1>3, AInvHolds, PTL DEF Spec, SlotsImplementTable
=============================================================================
