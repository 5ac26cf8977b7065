---------------------------- MODULE TableProofs ----------------------------
(***************************************************************************)
(* The device table keeps one slot for each id and one door unit, whatever *)
(* is cut short; what can take the one or the other away.                  *)
(***************************************************************************)
EXTENDS DeviceTable, TLAPS

\* Slots are positive naturals.
LEMMA SlotFacts == Slot \subseteq Nat \ {0} /\ \A n \in 0..MaxSlot : n # 0 => n \in Slot
BY MaxSlotAssumption DEF Slot

\* Memory holds the keys up to the count, now and after a step.
LEMMA IDFacts ==
    /\ TableTypeOK =>
         /\ Num \in Nat /\ Num <= MaxSlot /\ ID \in [Slot -> Ids \cup {None}]
         /\ \A s \in Slot : ID[s] = IF s <= Num THEN Key[s] ELSE None
         /\ \A s \in Slot : ID[s] # None => s \in 1..Num
    /\ TableTypeOK' =>
         /\ Num' \in Nat /\ Num' <= MaxSlot /\ ID' \in [Slot -> Ids \cup {None}]
         /\ \A s \in Slot : ID'[s] = IF s <= Num' THEN Key'[s] ELSE None
         /\ \A s \in Slot : ID'[s] # None => s \in 1..Num'
BY MaxSlotAssumption, SlotFacts DEF TableTypeOK, ID

\* Unchanged keys and count leave memory as it is.
LEMMA SameID == UNCHANGED tableVars => ID' = ID
BY DEF tableVars, ID

\* A free slot is at most one beyond the count, and so is the slot of a part.
LEMMA FreeSlotRange ==
    ASSUME TableTypeOK, NEW s \in Slot, Get_LearnNums_Valid(s)
    PROVE  s <= Num + 1
<1> SUFFICES ASSUME s > Num + 1 PROVE FALSE
  BY SlotFacts, IDFacts
<1>1. Num + 1 \in Slot /\ Num + 1 < s
  BY IDFacts, MaxSlotAssumption DEF Slot
<1>2. ID[Num + 1] = None
  BY <1>1, IDFacts
<1> QED BY <1>1, <1>2 DEF Get_LearnNums_Valid

LEMMA PartSlotRange ==
    ASSUME TableTypeOK, NEW n \in 0..MaxSlot, NEW s \in Slot, PartSlot(n, s)
    PROVE  s <= Num + 1
<1>1. CASE Played(n)
  BY <1>1, IDFacts, SlotFacts DEF PartSlot, Played
<1>2. CASE ~Played(n)
  BY <1>2, FreeSlotRange DEF PartSlot
<1> QED BY <1>1, <1>2

\* A slot given away: the types, and what memory and flash hold then.
LEMMA TakeFacts ==
    ASSUME TableTypeOK, NEW s \in Slot, NEW d \in Ids, Take(s, d), s <= Num + 1
    PROVE  /\ Num' \in 0..MaxSlot /\ Key' \in [Slot -> Ids \cup {None}] /\ Num <= Num' /\ s <= Num'
           /\ \A t \in Slot : ID'[t] = IF t = s THEN d ELSE ID[t]
           /\ Leftover' => Leftover
<1>1. Num' = Raised(s) /\ Num' \in 0..MaxSlot /\ s <= Num' /\ Num <= Num' /\ Num \in 0..MaxSlot
  BY MaxSlotAssumption DEF Take, Raised, Slot, TableTypeOK
<1>2. Key' \in [Slot -> Ids \cup {None}] /\ \A t \in Slot : Key'[t] = IF t = s THEN d ELSE Key[t]
  BY DEF Take, TableTypeOK
<1>3. \A t \in Slot : ID'[t] = IF t = s THEN d ELSE ID[t]
  <2> SUFFICES ASSUME NEW t \in Slot PROVE ID'[t] = IF t = s THEN d ELSE ID[t]
    OBVIOUS
  <2>1. ID'[t] = (IF t <= Num' THEN Key'[t] ELSE None) /\ ID[t] = IF t <= Num THEN Key[t] ELSE None
    BY DEF ID
  <2>2. t # s => (t <= Num' <=> t <= Num)
    BY <1>1, SlotFacts, MaxSlotAssumption DEF Raised
  <2> QED BY <1>1, <1>2, <2>1, <2>2
<1>4. Leftover' => Leftover
  BY <1>1, <1>2, SlotFacts, MaxSlotAssumption DEF Leftover
<1> QED BY <1>1, <1>2, <1>3, <1>4

\* A slot freed.
LEMMA FreeFacts ==
    ASSUME TableTypeOK, NEW s \in Slot, Key' = [Key EXCEPT ![s] = None], Num' = Num
    PROVE  /\ Num' \in 0..MaxSlot /\ Key' \in [Slot -> Ids \cup {None}]
           /\ \A t \in Slot : ID'[t] = IF t = s THEN None ELSE ID[t]
           /\ Leftover' => Leftover
<1>1. Key' \in [Slot -> Ids \cup {None}] /\ \A t \in Slot : Key'[t] = IF t = s THEN None ELSE Key[t]
  BY DEF TableTypeOK
<1> QED BY <1>1 DEF TableTypeOK, ID, Leftover

\* What a learn does to the table, apart from which slot it takes.
LEMMA LearnFacts ==
    ASSUME TableTypeOK, NEW s \in Slot, NEW d \in Ids, Learn(s, d)
    PROVE  /\ TableTypeOK' /\ Take(s, d) /\ s <= Num + 1 /\ ~Flash_Get_Key_Valid(d)
           /\ DoorNum' \in {DoorNum, s} /\ GatewayNum' \in {GatewayNum, s}
<1>1. Take(s, d) /\ ~Flash_Get_Key_Valid(d) /\ DoorNum' \in {DoorNum, s} /\ GatewayNum' \in {GatewayNum, s}
  BY DEF Learn, Add_Device, Add_DoorDevice, Add_GatewayDevice
<1>2. s <= Num + 1
  BY FreeSlotRange, PartSlotRange DEF Learn, Add_Device, Add_DoorDevice, Add_GatewayDevice, TableTypeOK
<1>3. s \in 0..MaxSlot
  BY MaxSlotAssumption DEF Slot
<1> QED BY <1>1, <1>2, <1>3, TakeFacts DEF TableTypeOK

\* And what a deletion does.
LEMMA DeleteFacts ==
    ASSUME TableTypeOK, NEW d \in Ids, Delete_Device(d) \/ TornDelete(d)
    PROVE  /\ TableTypeOK' /\ Num' = Num /\ GatewayNum' = GatewayNum /\ DoorNum' \in {0, DoorNum}
           /\ Leftover' => Leftover
           /\ \E s \in Slot : Found(s, d) /\ \A t \in Slot : ID'[t] = IF t = s THEN None ELSE ID[t]
<1>1. PICK s \in Slot : Found(s, d) /\ Key' = [Key EXCEPT ![s] = None]
  BY DEF Delete_Device, TornDelete
<1>2. 0 \in 0..MaxSlot /\ Num' = Num /\ GatewayNum' = GatewayNum /\ DoorNum' \in {0, DoorNum}
  BY MaxSlotAssumption DEF Delete_Device, TornDelete
<1> QED BY <1>1, <1>2, FreeFacts DEF TableTypeOK

\* And a wipe cut short.
LEMMA TornWipeFacts ==
    ASSUME TableTypeOK, TornWipe
    PROVE  /\ TableTypeOK'
           /\ Num' \in {0, Num} /\ DoorNum' \in {0, DoorNum} /\ GatewayNum' \in {0, GatewayNum}
           /\ \A s \in Slot : ID'[s] \in {None, ID[s]}
<1>1. PICK lost \in SUBSET {s \in Slot : Key[s] # None} :
        Key' = [s \in Slot |-> IF s \in lost THEN None ELSE Key[s]]
  BY DEF TornWipe
<1>2. Num' \in {0, Num} /\ DoorNum' \in {0, DoorNum} /\ GatewayNum' \in {0, GatewayNum}
  BY DEF TornWipe
<1>3. Key' \in [Slot -> Ids \cup {None}] /\ \A s \in Slot : Key'[s] \in {None, Key[s]}
  BY <1>1 DEF TableTypeOK
<1>4. TableTypeOK'
  BY <1>2, <1>3, MaxSlotAssumption DEF TableTypeOK
<1>5. \A s \in Slot : ID'[s] \in {None, ID[s]}
  BY <1>2, <1>3, <1>4, IDFacts, SlotFacts
<1> QED BY <1>2, <1>4, <1>5

\* And a learn cut short after Learn_Nums: the keys it was raised over show.
LEMMA TornNumFacts ==
    ASSUME TableTypeOK, TornNum
    PROVE  /\ TableTypeOK' /\ Num <= Num' /\ UNCHANGED <<Key, DoorNum, GatewayNum>>
           /\ \E s \in Slot : \A t \in Slot : ID'[t] = IF t = s THEN Key[t] ELSE ID[t]
           /\ Leftover' => Leftover
           /\ ~Leftover => ID' = ID
<1>1. PICK s \in Slot : Get_LearnNums_Valid(s) /\ Num' = Raised(s)
  BY DEF TornNum
<1>2. UNCHANGED <<Key, DoorNum, GatewayNum>>
  BY DEF TornNum
<1>3. s <= Num + 1 /\ Num' \in 0..MaxSlot /\ Num \in 0..MaxSlot /\ Num <= Num' /\ s <= Num' /\ s \in Nat
  BY <1>1, FreeSlotRange, MaxSlotAssumption DEF Raised, Slot, TableTypeOK
<1>4. TableTypeOK'
  BY <1>2, <1>3 DEF TableTypeOK
<1>5. \A t \in Slot : ID'[t] = IF t = s THEN Key[t] ELSE ID[t]
  <2> SUFFICES ASSUME NEW t \in Slot PROVE ID'[t] = IF t = s THEN Key[t] ELSE ID[t]
    OBVIOUS
  <2>1. ID'[t] = (IF t <= Num' THEN Key[t] ELSE None) /\ ID[t] = IF t <= Num THEN Key[t] ELSE None
    BY <1>2 DEF ID
  <2>2. t # s => (t <= Num' <=> t <= Num)
    BY <1>1, <1>3, SlotFacts, MaxSlotAssumption DEF Raised
  <2> QED BY <1>3, <2>1, <2>2
<1>6. Leftover' => Leftover
  BY <1>2, <1>3, SlotFacts, MaxSlotAssumption DEF Leftover
<1>7. ~Leftover => ID' = ID
  <2> SUFFICES ASSUME ~Leftover, NEW t \in Slot PROVE ID'[t] = ID[t]
    BY DEF ID
  <2>1. t > Num => Key[t] = None
    BY DEF Leftover
  <2>2. ID[t] = IF t <= Num THEN Key[t] ELSE None
    BY DEF ID
  <2> QED BY <1>3, <1>5, <2>1, <2>2, SlotFacts
<1> QED BY <1>2, <1>3, <1>4, <1>5, <1>6, <1>7

\* An unknown id is in no slot of memory.
LEMMA UnknownID ==
    ASSUME TableTypeOK, NEW d \in Ids, ~Flash_Get_Key_Valid(d)
    PROVE  \A t \in Slot : ID[t] # d
BY IDFacts, IdsAssumption DEF Flash_Get_Key_Valid

\* An unknown id may be put into a slot.
LEMMA TakeUnique ==
    ASSUME TableTypeOK, NEW s \in Slot, NEW d \in Ids, ~Flash_Get_Key_Valid(d), Take(s, d), s <= Num + 1
    PROVE  OneSlotEach => OneSlotEach'
<1>1. \A t \in Slot : ID'[t] = IF t = s THEN d ELSE ID[t]
  BY TakeFacts
<1> QED BY <1>1, UnknownID DEF OneSlotEach

\* TornPart takes a slot as a whole learn does.
LEMMA TornPartFacts ==
    ASSUME TableTypeOK, NEW s \in Slot, NEW d \in Ids, TornPart(s, d)
    PROVE  TableTypeOK' /\ Take(s, d) /\ s <= Num + 1 /\ ~Flash_Get_Key_Valid(d)
<1>1. Take(s, d) /\ s <= Num + 1 /\ ~Flash_Get_Key_Valid(d)
  BY PartSlotRange DEF TornPart, TableTypeOK
<1> QED BY <1>1, TakeFacts DEF TornPart, TableTypeOK

LEMMA TableInitInv == TableInit => TableTypeOK /\ OneSlotEach /\ ~Leftover
BY MaxSlotAssumption DEF TableInit, TableTypeOK, OneSlotEach, Leftover, ID

\* A whole wipe empties the table.
LEMMA WipeFacts == DeleteAllDevice => TableTypeOK' /\ OneSlotEach' /\ ~Leftover' /\ \A s \in Slot : ID'[s] = None
BY MaxSlotAssumption DEF DeleteAllDevice, TableTypeOK, OneSlotEach, Leftover, ID

\* Every step keeps the types.
LEMMA TableTyped == ASSUME TableTypeOK, [TableNext \/ TornWrite]_tableVars PROVE TableTypeOK'
<1>1. CASE UNCHANGED tableVars
  BY <1>1 DEF tableVars, TableTypeOK
<1> QED BY <1>1, LearnFacts, DeleteFacts, WipeFacts, TornNumFacts, TornPartFacts, TornWipeFacts
        DEF TableNext, TornWrite, TornStep

\* What a step does to OneSlotEach and Leftover.
LEMMA UniqueStep ==
    ASSUME TableTypeOK, [TableNext \/ TornWrite]_tableVars
    PROVE  /\ OneSlotEach /\ ~OneSlotEach' => Leftover /\ TornNum
           /\ ~Leftover /\ Leftover' => TornWipe
<1>1. ASSUME NEW s \in Slot, NEW d \in Ids, Learn(s, d) \/ TornPart(s, d)
      PROVE  (OneSlotEach => OneSlotEach') /\ (Leftover' => Leftover)
  BY <1>1, LearnFacts, TornPartFacts, TakeFacts, TakeUnique
<1>2. ASSUME NEW d \in Ids, Delete_Device(d) \/ TornDelete(d)
      PROVE  (OneSlotEach => OneSlotEach') /\ (Leftover' => Leftover)
  <2>1. PICK s \in Slot : \A t \in Slot : ID'[t] = IF t = s THEN None ELSE ID[t]
    BY <1>2, DeleteFacts
  <2> QED BY <1>2, <2>1, DeleteFacts DEF OneSlotEach
<1>3. CASE TornNum
  BY <1>3, TornNumFacts DEF OneSlotEach
<1>4. CASE TornWipe
  BY <1>4, TornWipeFacts DEF OneSlotEach
<1>5. CASE UNCHANGED tableVars
  <2>1. ID' = ID /\ Leftover' = Leftover
    BY <1>5, SameID DEF tableVars, Leftover
  <2> QED BY <2>1 DEF OneSlotEach
<1> QED BY <1>1, <1>2, <1>3, <1>4, <1>5, WipeFacts DEF TableNext, TornWrite, TornStep

\* Type correctness of the device table (flashwork.c) on its own, whatever is
\* cut short: counts and part numbers stay within the slots.
THEOREM TableTypes == TornSpec => []TableTypeOK
BY TableInitInv, TableTyped, PTL DEF TornSpec

\* One id in two slots takes a wipe cut short and then a learn cut short
\* (Get_LearnNums_Valid raises Learn_Nums before the slot's key is written).
THEOREM OneSlotKeeps == TornSpec => OneSlotKept
<1>1. TableTypeOK /\ [TableNext \/ TornWrite]_tableVars
        => [/\ OneSlotEach /\ ~OneSlotEach' => Leftover /\ TornNum
            /\ ~Leftover /\ Leftover' => TornWipe]_tableVars
  BY UniqueStep
<1> QED BY <1>1, TableTypes, PTL DEF TornSpec, OneSlotKept

\* So while power never fails inside ef_env_set_default no id ever holds two
\* slots, whatever learns and deletions are cut short.
THEOREM OneSlotInvariance == WholeWipeSpec => []OneSlotEach
<1> DEFINE Inv == TableTypeOK /\ OneSlotEach /\ ~Leftover
<1>1. Inv /\ [TableNext \/ TornStep]_tableVars => Inv'
  <2> SUFFICES ASSUME Inv, [TableNext \/ TornStep]_tableVars PROVE Inv'
    OBVIOUS
  <2>1. TableTypeOK' /\ OneSlotEach'
    BY TableTyped, UniqueStep DEF TornWrite
  <2>2. CASE \E s \in Slot, d \in Ids : Learn(s, d) \/ TornPart(s, d)
    BY <2>1, <2>2, LearnFacts, TornPartFacts, TakeFacts
  <2>3. CASE \E d \in Ids : Delete_Device(d) \/ TornDelete(d)
    BY <2>1, <2>3, DeleteFacts
  <2>4. CASE UNCHANGED tableVars
    BY <2>1, <2>4 DEF tableVars, Leftover
  <2> QED BY <2>1, <2>2, <2>3, <2>4, TornNumFacts, WipeFacts DEF TableNext, TornStep
<1>2. TableInit => Inv
  BY TableInitInv
<1>3. Inv => OneSlotEach
  OBVIOUS
<1> QED BY <1>1, <1>2, <1>3, PTL DEF WholeWipeSpec

\* A whole operation keeps the one door unit in its slot (Add_DoorDevice
\* replaces the unit that plays the part).
LEMMA DoorStep == TableTypeOK /\ OneDoor /\ [TableNext]_tableVars => OneDoor'
<1> SUFFICES ASSUME TableTypeOK, OneDoor, [TableNext]_tableVars,
                    NEW t \in Slot, ID'[t] \in Doors
             PROVE  t = DoorNum'
  BY DEF OneDoor
<1> USE DEF OneDoor
<1>1. ASSUME NEW s \in Slot, NEW d \in Ids, Learn(s, d) PROVE t = DoorNum'
  <2>1. ID'[t] = IF t = s THEN d ELSE ID[t]
    BY <1>1, LearnFacts, TakeFacts
  <2>2. CASE d \in Doors
    <3>1. Add_DoorDevice(s, d) /\ DoorNum' = s
      BY <1>1, <2>2, IdsAssumption DEF Learn, Add_Device, Add_GatewayDevice, Add_DoorDevice
    <3>2. ASSUME t # s PROVE FALSE
      <4>1. ID[t] \in Doors /\ t = DoorNum /\ ID[t] # None
        BY <2>1, <3>2, IdsAssumption DEF Ids
      <4>2. Played(DoorNum)
        BY <4>1, SlotFacts DEF Played
      <4> QED BY <3>1, <3>2, <4>1, <4>2 DEF Add_DoorDevice, PartSlot
    <3> QED BY <3>1, <3>2
  <2>3. CASE d \notin Doors
    BY <1>1, <2>1, <2>3 DEF Learn, Add_Device, Add_GatewayDevice, Add_DoorDevice
  <2> QED BY <2>2, <2>3
<1>2. ASSUME NEW d \in Ids, Delete_Device(d) PROVE t = DoorNum'
  <2>1. PICK s \in Slot : Found(s, d) /\ \A u \in Slot : ID'[u] = IF u = s THEN None ELSE ID[u]
    BY <1>2, DeleteFacts
  <2>2. t # s /\ ID[t] \in Doors /\ t = DoorNum
    BY <2>1, IdsAssumption DEF Ids
  <2>3. d \notin Doors
    BY <2>1, <2>2 DEF Found
  <2> QED BY <1>2, <2>2, <2>3 DEF Delete_Device
<1>3. CASE DeleteAllDevice
  BY <1>3, WipeFacts, IdsAssumption DEF Ids
<1>4. CASE UNCHANGED tableVars
  BY <1>4, SameID DEF tableVars
<1> QED BY <1>1, <1>2, <1>3, <1>4 DEF TableNext

\* Whatever was cut short before, a whole operation of flashwork.c keeps the
\* link between the door unit and DoorNum.
THEOREM DoorKept == TornSpec => OneDoorKept
<1>1. TableTypeOK /\ [TableNext \/ TornWrite]_tableVars => [TableNext /\ OneDoor => OneDoor']_tableVars
  BY DoorStep
<1> QED BY <1>1, TableTypes, PTL DEF TornSpec, OneDoorKept

\* So while nothing is cut short, every door unit in the table is the one
\* DoorNum names.
THEOREM OneDoorOnly == TableSpec => []OneDoor
<1>1. TableInit => OneDoor
  BY IdsAssumption DEF TableInit, OneDoor, Ids, ID
<1>2. [TableNext]_tableVars => [TableNext \/ TornWrite]_tableVars
  OBVIOUS
<1>3. TableSpec => TornSpec
  BY <1>2, PTL DEF TableSpec, TornSpec
<1> QED BY <1>1, <1>3, TableTypes, DoorStep, PTL DEF TableSpec
=============================================================================
