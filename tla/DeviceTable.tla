---------------------------- MODULE DeviceTable ----------------------------
(***************************************************************************)
(* The table of learned devices (storage/flashwork.c): numbered slots that *)
(* hold device ids, the highest slot in use, and the slots that play the   *)
(* parts of door unit and gateway.  Every change is written through to     *)
(* flash key by key, so memory and flash agree except between two writes   *)
(* of one operation; a power loss there leaves a torn operation behind.    *)
(* Memory holds the slots up to Num only: a key of flash beyond, which a   *)
(* wipe cut short can leave, is not loaded.                                *)
(***************************************************************************)
EXTENDS Naturals

CONSTANTS
    Slavers,    \* ids below 30000000
    Doors,      \* ids from 30000000 to 39999999
    Gateways,   \* ids from 40000000 to 49999999
    MaxSlot     \* MaxSupport - 1, which is 12

Ids  == Slavers \cup Doors \cup Gateways
Slot == 1..MaxSlot

\* The id of a free slot.
None == 0

ASSUME MaxSlotAssumption == MaxSlot \in Nat \ {0}
ASSUME IdsAssumption ==
    /\ None \notin Ids
    /\ Slavers \cap Doors = {} /\ Slavers \cap Gateways = {} /\ Doors \cap Gateways = {}

VARIABLES
    Num,                    \* Learn_Nums
    Key,                    \* the id flash holds for each slot
    DoorNum, GatewayNum

tableVars == <<Num, Key, DoorNum, GatewayNum>>

\* Global_Device.ID, in memory.
ID == [s \in Slot |-> IF s <= Num THEN Key[s] ELSE None]

TableInit == Num = 0 /\ Key = [s \in Slot |-> None] /\ DoorNum = 0 /\ GatewayNum = 0

-----------------------------------------------------------------------------
\* The slot a scan for id d stops at; scans run from Num down to 1.
Found(s, d) == s \in 1..Num /\ ID[s] = d /\ \A t \in 1..Num : t > s => ID[t] # d

Flash_Get_Key_Valid(d) == \E s \in 1..Num : ID[s] = d

\* GetDoorID and GetGatewayID find somebody in the part's slot n.
Played(n) == n # 0 /\ ID[n] # None

\* The lowest free slot; there is none in a full table.
Get_LearnNums_Valid(s) == s \in Slot /\ ID[s] = None /\ \A t \in Slot : t < s => ID[t] # None

\* Faulty: Num raised to the size of the table, and Num not raised at all.
Raised_Full(s) == IF s > Num THEN MaxSlot + 1 ELSE Num
Raised_Never(s) == Num

Raised(s) == IF s > Num THEN s ELSE Num

\* Slot s is given to d: Learn_Nums first, then the key of the slot.
Take(s, d) == Num' = Raised(s) /\ Key' = [Key EXCEPT ![s] = d]

Add_Device(s, d) ==
    /\ d \in Slavers
    /\ Get_LearnNums_Valid(s)
    /\ Take(s, d)
    /\ UNCHANGED <<DoorNum, GatewayNum>>

\* Faulty: a new unit always goes to a free slot.
PartSlot_Free(n, s) == Get_LearnNums_Valid(s)

\* The slot a new door unit or gateway goes to: that of the one it replaces.
PartSlot(n, s) == IF Played(n) THEN s = n ELSE Get_LearnNums_Valid(s)

Add_DoorDevice(s, d) ==
    /\ d \in Doors
    /\ PartSlot(DoorNum, s)
    /\ Take(s, d)
    /\ DoorNum' = s
    /\ UNCHANGED GatewayNum

Add_GatewayDevice(s, d) ==
    /\ d \in Gateways
    /\ PartSlot(GatewayNum, s)
    /\ Take(s, d)
    /\ GatewayNum' = s
    /\ UNCHANGED DoorNum

\* A learn frame of an id that is not in the table gives it slot s.
Learn(s, d) ==
    /\ ~Flash_Get_Key_Valid(d)
    /\ Add_Device(s, d) \/ Add_DoorDevice(s, d) \/ Add_GatewayDevice(s, d)

\* DoorNum is reset with a door unit; GatewayNum is not with a gateway.
Delete_Device(d) ==
    /\ \E s \in Slot : Found(s, d) /\ Key' = [Key EXCEPT ![s] = None]
    /\ DoorNum' = IF d \in Doors THEN 0 ELSE DoorNum
    /\ UNCHANGED <<Num, GatewayNum>>

DeleteAllDevice == Num' = 0 /\ Key' = [s \in Slot |-> None] /\ DoorNum' = 0 /\ GatewayNum' = 0

-----------------------------------------------------------------------------
(***************************************************************************)
(* Power lost between two writes of one operation.                         *)
(***************************************************************************)
\* After Learn_Nums, before the key of the slot.
TornNum ==
    /\ \E s \in Slot : Get_LearnNums_Valid(s) /\ Num' = Raised(s)
    /\ UNCHANGED <<Key, DoorNum, GatewayNum>>

\* After the key of the slot, before the number of the part.
TornPart(s, d) ==
    /\ ~Flash_Get_Key_Valid(d)
    /\ \/ d \in Doors /\ PartSlot(DoorNum, s)
       \/ d \in Gateways /\ PartSlot(GatewayNum, s)
    /\ Take(s, d)
    /\ UNCHANGED <<DoorNum, GatewayNum>>

\* After the key of a door unit's slot was cleared, before DoorNum was.
TornDelete(d) ==
    /\ d \in Doors
    /\ \E s \in Slot : Found(s, d) /\ Key' = [Key EXCEPT ![s] = None]
    /\ UNCHANGED <<Num, DoorNum, GatewayNum>>

\* One operation of a learn or a deletion is cut short.
TornStep ==
    \/ TornNum
    \/ \E s \in Slot, d \in Ids : TornPart(s, d)
    \/ \E d \in Ids : TornDelete(d)

\* A wipe is cut short.  ef_env_set_default formats one sector after the other
\* and the next boot starts over only when no sector is left, so each key is
\* gone or still there.
TornWipe ==
    /\ Num' \in {0, Num} /\ DoorNum' \in {0, DoorNum} /\ GatewayNum' \in {0, GatewayNum}
    /\ \E lost \in SUBSET {s \in Slot : Key[s] # None} :
         Key' = [s \in Slot |-> IF s \in lost THEN None ELSE Key[s]]

TornWrite == TornStep \/ TornWipe

TableNext ==
    \/ \E s \in Slot, d \in Ids : Learn(s, d)
    \/ \E d \in Ids : Delete_Device(d)
    \/ DeleteAllDevice

\* The table while power never fails inside an operation, while it never fails
\* inside a wipe, and when it may fail anywhere.
TableSpec     == TableInit /\ [][TableNext]_tableVars
WholeWipeSpec == TableInit /\ [][TableNext \/ TornStep]_tableVars
TornSpec      == TableInit /\ [][TableNext \/ TornWrite]_tableVars

-----------------------------------------------------------------------------
TableTypeOK ==
    /\ Num \in 0..MaxSlot
    /\ Key \in [Slot -> Ids \cup {None}]
    /\ DoorNum \in 0..MaxSlot /\ GatewayNum \in 0..MaxSlot

\* No id holds two slots, so an operation on an id acts on the slot of that
\* device.
OneSlotEach == \A s, t \in Slot : ID[s] = ID[t] /\ ID[s] # None => s = t

\* Flash holds a key beyond the count.
Leftover == \E s \in Slot : s > Num /\ Key[s] # None

\* An id comes to hold two slots in one way only: power fails after Learn_Nums
\* was raised over a key left in flash, before that key is overwritten; and
\* such a key is left by a wipe cut short and by nothing else.
OneSlotKept ==
    [][/\ OneSlotEach /\ ~OneSlotEach' => Leftover /\ TornNum
       /\ ~Leftover /\ Leftover' => TornWipe]_tableVars

\* Every door unit in the table is the one DoorNum names: there is at most one
\* and it is never taken for a sensor.
OneDoor == \A s \in Slot : ID[s] \in Doors => s = DoorNum

\* A whole operation keeps OneDoor, whatever was cut short before: only power
\* lost inside Add_DoorDevice, Delete_Device or a wipe takes it away.
OneDoorKept == [][TableNext /\ OneDoor => OneDoor']_tableVars

(***************************************************************************)
(* What the source says and does not do.                                   *)
(***************************************************************************)
\* The slot reported as "Gateway is Offline", for which no warning is raised,
\* holds no sensor.
SensorNotGateway == GatewayNum # 0 => ID[GatewayNum] \notin Slavers
=============================================================================
