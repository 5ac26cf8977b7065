----------------------------- MODULE EnvProofs -----------------------------
(***************************************************************************)
(* Proofs about the key-value store, for any keys, values, sectors, nodes  *)
(* per sector and number of power losses.                                  *)
(***************************************************************************)
EXTENDS EnvStore, WellFoundedInduction, TLAPS

USE DEF Sector, Job

WritePCs == {"mark", "markdirty", "alloc", "claim", "prewrite", "header", "body",
             "commit", "delete", "deldirty", "done"}

InRange(a) == a[1] \in Sectors /\ a[2] \in 1..Len(sec[a[1]].nodes)

\* What is already written, and known, at each place of a write.
Stage ==
    /\ pc \in WritePCs => job.by # "none"
    /\ pc \in WritePCs \ {"delete", "deldirty", "done"} => job.key # NoVal /\ job.val # NoVal
    /\ pc = "mark" => /\ InRange(job.old)
                      /\ At(job.old).key # NoVal /\ At(job.old).val # NoVal
    /\ pc \in {"mark", "markdirty"} /\ job.by = "set" => job.to \in Sectors
    /\ pc \in {"claim", "prewrite", "header", "body", "commit"} => job.to \in Sectors
    /\ pc \in {"header", "body", "commit"} => Len(sec[job.to].nodes) > 0
    /\ pc \in {"body", "commit"} => At(Target).key # NoVal
    /\ pc = "commit" => At(Target).val # NoVal

\* A collection is under way: only then does somebody wait for its end.
InGC == pc \in {"gc", "gcnode", "format"} \/ (pc \in WritePCs /\ job.by = "gc")

Control ==
    /\ ~InGC => gcret = "idle"
    /\ pc = "new" \/ gcret = "new" => req[1] # NoVal /\ req[2] # NoVal

IInv == TypeOK /\ WholeNodes /\ Stage /\ Control

SecType ==
    sec \in [Sectors -> Sector]

RamType ==
    /\ pc \in PCs
    /\ req \in (Keys \cup {NoVal}) \X (Values \cup {NoVal})
    /\ job \in Job
    /\ gcret \in Returns
    /\ gcat \in Nat \X Nat
    /\ at \in Nat \X Nat
    /\ gc_request \in BOOLEAN /\ already_gc \in BOOLEAN
    /\ in_recovery_check \in BOOLEAN /\ abandoned \in BOOLEAN
    /\ failed \in Nat /\ losses \in Nat

LEMMA Types == (TypeOK <=> SecType /\ RamType) /\ (TypeOK' <=> SecType' /\ RamType')
  BY DEF TypeOK, SecType, RamType

-----------------------------------------------------------------------------
\* The least element of a set of naturals, and the first address of a set.

LEMMA MinIn ==
    ASSUME NEW S \in SUBSET Nat, S # {}
    PROVE  Min(S) \in S
<1> DEFINE Lt == {ss \in Nat \X Nat : ss[1] < ss[2]}
<1>1. IsWellFoundedOn(Lt, Nat)
  BY NatLessThanWellFounded DEF OpToRel
<1>2. PICK x \in S : \A y \in S : ~(<<y, x>> \in Lt)
  BY <1>1, WFMin
<1>3. ASSUME NEW y \in S PROVE x <= y
  <2>1. x \in Nat /\ y \in Nat /\ <<y, x>> \in Nat \X Nat
    OBVIOUS
  <2>2. ~(y < x)
    BY <1>2, <2>1
  <2> QED BY <2>1, <2>2
<1> QED BY <1>2, <1>3 DEF Min

LEMMA FirstIn ==
    ASSUME NEW S \in SUBSET (Nat \X Nat), S # {}
    PROVE  First(S) \in S
<1> DEFINE A == {a[1] : a \in S}
           s == Min(A)
           B == {a[2] : a \in {b \in S : b[1] = s}}
<1>1. A \in SUBSET Nat /\ A # {}
  OBVIOUS
<1>2. s \in A
  BY <1>1, MinIn
<1>3. B \in SUBSET Nat /\ B # {}
  BY <1>2
<1>4. Min(B) \in B
  BY <1>3, MinIn
<1>5. PICK b \in S : b[1] = s /\ b[2] = Min(B)
  BY <1>4
<1>6. b = <<s, Min(B)>>
  BY <1>5
<1> QED BY <1>5, <1>6 DEF First

LEMMA SectorNat == Sectors \in SUBSET Nat
  BY EnvAssumption DEF Sectors

LEMMA AddrsIn ==
    /\ Addrs \in SUBSET (Nat \X Nat)
    /\ \A a \in Addrs : InRange(a) /\ a \in Nat \X Nat
  BY EnvAssumption DEF Addrs, InRange, Sectors

LEMMA NodeAt == ASSUME SecType, NEW a, InRange(a) PROVE At(a) \in Node
  BY DEF SecType, InRange, At

LEMMA AllocIn == alloc_env # 0 => alloc_env \in Sectors
<1>1. UsingWithRoom # {} => Min(UsingWithRoom) \in Sectors
  BY MinIn, SectorNat DEF UsingWithRoom
<1>2. Empty # {} => Min(Empty) \in Sectors
  BY MinIn, SectorNat DEF Empty
<1> QED BY <1>1, <1>2 DEF alloc_env

-----------------------------------------------------------------------------
\* Writes to the flash.

\* One node is overwritten; out of range nothing is.
LEMMA OverwriteNode ==
    ASSUME SecType, NEW a, NEW n, InRange(a) => n \in Node, SetNode(a, n)
    PROVE  /\ SecType'
           /\ \A s \in Sectors :
                 /\ Len(sec'[s].nodes) = Len(sec[s].nodes)
                 /\ \A i \in 1..Len(sec[s].nodes) :
                       sec'[s].nodes[i] = IF s = a[1] /\ i = a[2] THEN n ELSE sec[s].nodes[i]
<1>1. CASE InRange(a)
  <2>1. [sec[a[1]].nodes EXCEPT ![a[2]] = n] \in Seq(Node)
    BY <1>1 DEF SecType, InRange
  <2>2. sec' = [sec EXCEPT ![a[1]] =
                  [sec[a[1]] EXCEPT !.nodes = [sec[a[1]].nodes EXCEPT ![a[2]] = n]]]
    BY <1>1 DEF SetNode
  <2>3. SecType'
    BY <1>1, <2>1, <2>2 DEF SecType, InRange
  <2>4. sec'[a[1]].nodes = [sec[a[1]].nodes EXCEPT ![a[2]] = n]
    BY <1>1, <2>2 DEF SecType, InRange
  <2>5. \A s \in Sectors : s # a[1] => sec'[s] = sec[s]
    BY <2>2 DEF SecType
  <2>6. sec[a[1]].nodes \in Seq(Node)
    BY <1>1 DEF SecType, InRange
  <2> QED BY <1>1, <2>3, <2>4, <2>5, <2>6 DEF InRange
<1>2. CASE a[1] \in Sectors /\ a[2] \notin 1..Len(sec[a[1]].nodes)
  <2>1. [sec[a[1]].nodes EXCEPT ![a[2]] = n] = sec[a[1]].nodes
    BY <1>2 DEF SecType
  <2>2. sec' = [sec EXCEPT ![a[1]] =
                  [sec[a[1]] EXCEPT !.nodes = [sec[a[1]].nodes EXCEPT ![a[2]] = n]]]
    BY <1>2 DEF SetNode
  <2>3. sec' = sec
    BY <1>2, <2>1, <2>2 DEF SecType
  <2> QED BY <1>2, <2>3 DEF SecType
<1>3. CASE a[1] \notin Sectors
  <2>1. sec' = sec
    BY <1>3 DEF SetNode, SecType
  <2> QED BY <1>3, <2>1 DEF SecType
<1> QED BY <1>1, <1>2, <1>3 DEF InRange

\* ... and a node that says it is finished stays whole.
LEMMA OverwriteWhole ==
    ASSUME SecType, WholeNodes, NEW a, NEW n, InRange(a) => n \in Node, SetNode(a, n),
           InRange(a) /\ n.st \in {"WRITE", "PRE_DELETE"} => n.key # NoVal /\ n.val # NoVal
    PROVE  WholeNodes'
<1> SUFFICES ASSUME NEW s \in Sectors, NEW i \in 1..Len(sec'[s].nodes),
                    sec'[s].nodes[i].st \in {"WRITE", "PRE_DELETE"}
             PROVE  sec'[s].nodes[i].key # NoVal /\ sec'[s].nodes[i].val # NoVal
  BY DEF WholeNodes
<1>1. i \in 1..Len(sec[s].nodes)
  BY OverwriteNode
<1>2. sec'[s].nodes[i] = IF s = a[1] /\ i = a[2] THEN n ELSE sec[s].nodes[i]
  BY <1>1, OverwriteNode
<1> QED BY <1>1, <1>2 DEF WholeNodes, InRange

\* A sector gets new statuses and keeps its nodes, or is formatted.
LEMMA SectorWrite ==
    ASSUME SecType, WholeNodes, NEW s, NEW r,
           s \in Sectors => /\ r \in Sector
                            /\ r.nodes = sec[s].nodes \/ r.nodes = << >>,
           sec' = [sec EXCEPT ![s] = r]
    PROVE  SecType' /\ WholeNodes'
<1>1. SecType'
  BY DEF SecType
<1>2. \A t \in Sectors : sec'[t].nodes = sec[t].nodes \/ sec'[t].nodes = << >>
  BY DEF SecType
<1> QED BY <1>1, <1>2 DEF WholeNodes

-----------------------------------------------------------------------------
\* Every step keeps the invariant.

LEMMA KeyVal == NoVal \notin Keys /\ NoVal \notin Values /\ Author \in Keys /\ Rick \in Values
  BY EnvAssumption

LEMMA NoNodeType == NoNode \in Nat \X Nat
  BY DEF NoNode

LEMMA Same ==
    ASSUME IInv, UNCHANGED sec
    PROVE  SecType' /\ WholeNodes'
  BY Types DEF IInv, WholeNodes, SecType

LEMMA Enter ==
    ASSUME IInv, NEW r \in Returns, EnterGC(r)
    PROVE  /\ pc' = "gc" \/ pc' = r
           /\ pc' \in PCs /\ gcret' \in Returns /\ gcat' \in Nat \X Nat
           /\ gc_request' \in BOOLEAN
           /\ pc' = "gc" => gcret' = r
           /\ pc' # "gc" => gcret' = gcret
<1>1. NoNode \in Nat \X Nat
  BY NoNodeType
<1>2. r \in PCs /\ "gc" \in PCs
  BY DEF Returns, PCs
<1>3. gcat \in Nat \X Nat /\ gcret \in Returns
  BY DEF IInv, TypeOK
<1> QED BY <1>1, <1>2, <1>3 DEF EnterGC, Returns

LEMMA StepCall ==
    ASSUME IInv, Call
    PROVE  IInv'
<1>1. SecType' /\ WholeNodes'
  BY Same DEF Call, ef_set_env, ef_env_set_default
<1>2. CASE \E k \in Keys \ {Author}, v \in Values \ {Rick} : ef_set_env(k, v)
  <2>1. RamType'
    <3>1. req' \in (Keys \cup {NoVal}) \X (Values \cup {NoVal})
      BY <1>2 DEF ef_set_env
    <3> QED BY <1>2, <3>1 DEF IInv, TypeOK, RamType, ef_set_env, PCs
  <2>2. Stage'
    BY <1>2 DEF Stage, ef_set_env, WritePCs
  <2>3. Control'
    BY <1>2, KeyVal DEF IInv, Control, InGC, ef_set_env, WritePCs
  <2> QED BY <1>1, <2>1, <2>2, <2>3, Types DEF IInv
<1>3. CASE ef_env_set_default
  <2>1. RamType'
    BY <1>3 DEF IInv, TypeOK, RamType, ef_env_set_default, PCs, Returns
  <2>2. Stage'
    BY <1>3 DEF Stage, ef_env_set_default, WritePCs
  <2>3. Control'
    BY <1>3 DEF IInv, Control, InGC, ef_env_set_default, WritePCs
  <2> QED BY <1>1, <2>1, <2>2, <2>3, Types DEF IInv
<1> QED BY <1>2, <1>3 DEF Call

LEMMA StepNewEnv ==
    ASSUME IInv, NewEnv
    PROVE  IInv'
<1>1. SecType' /\ WholeNodes'
  BY Same DEF NewEnv
<1>2. alloc_env \in Sectors /\ alloc_env \in Nat
  BY AllocIn, SectorNat DEF NewEnv
<1>3. /\ req[1] \in Keys \cup {NoVal} /\ req[2] \in Values \cup {NoVal}
      /\ req[1] # NoVal /\ req[2] # NoVal
  BY DEF IInv, TypeOK, Control, NewEnv
<1>4. \A a \in FindEnv(req[1]) : /\ InRange(a) /\ a \in Nat \X Nat
                                 /\ At(a).key # NoVal /\ At(a).val # NoVal
  BY AddrsIn DEF FindEnv, crc_is_ok
<1>5. RamType'
  <2>1. job' \in Job
    <3>1. PICK a \in Nat \X Nat, who \in {"set", "default"} : job' = NewJob(who, a)
      BY <1>4, NoNodeType DEF NewEnv
    <3> QED BY <1>2, <1>3, <3>1 DEF NewJob
  <2>2. pc' \in PCs
    BY DEF NewEnv, PCs
  <2> QED BY <2>1, <2>2 DEF IInv, TypeOK, RamType, NewEnv
<1>6. /\ job'.by \in {"set", "default"} /\ job'.key = req[1] /\ job'.val = req[2]
      /\ job'.to = alloc_env
      /\ pc' \in {"claim", "mark"}
      /\ pc' = "mark" => job'.old \in FindEnv(req[1])
  BY DEF NewEnv, NewJob
<1>7. sec' = sec
  BY DEF NewEnv
<1>8. Stage'
  BY <1>2, <1>3, <1>4, <1>6, <1>7 DEF Stage, WritePCs, InRange, At
<1>9. Control'
  BY <1>6 DEF IInv, Control, InGC, NewEnv, WritePCs
<1> QED BY <1>1, <1>5, <1>8, <1>9, Types DEF IInv

LEMMA StepNewEnvFails ==
    ASSUME IInv, NewEnvFails
    PROVE  IInv'
<1>1. SecType' /\ WholeNodes'
  BY Same DEF NewEnvFails
<1>2. CASE (gc_request \/ AllocAsksGC) /\ ~already_gc
  <2>1. EnterGC("new") /\ UNCHANGED req /\ already_gc' = TRUE
    BY <1>2 DEF NewEnvFails
  <2>2. /\ pc' = "gc" \/ pc' = "new"
        /\ pc' \in PCs /\ gcret' \in Returns /\ gcat' \in Nat \X Nat
        /\ gc_request' \in BOOLEAN
        /\ pc' # "gc" => gcret' = gcret
    BY <2>1, Enter DEF Returns
  <2>3. RamType'
    BY <2>1, <2>2 DEF IInv, TypeOK, RamType, NewEnvFails
  <2>4. Stage'
    BY <2>2 DEF Stage, WritePCs
  <2>5. Control'
    BY <2>1, <2>2 DEF IInv, Control, InGC, NewEnvFails, WritePCs
  <2> QED BY <1>1, <2>3, <2>4, <2>5, Types DEF IInv
<1>3. CASE ~((gc_request \/ AllocAsksGC) /\ ~already_gc)
  <2>1. /\ pc' \in {"recgc", "idle"} /\ gc_request' = (gc_request \/ AllocAsksGC)
        /\ req' = <<NoVal, NoVal>> /\ UNCHANGED <<already_gc, gcret, gcat>>
    BY <1>3 DEF NewEnvFails
  <2>2. gc_request' \in BOOLEAN
    BY <2>1
  <2>3. RamType'
    BY <2>1, <2>2 DEF IInv, TypeOK, RamType, NewEnvFails, PCs
  <2>4. Stage'
    BY <2>1 DEF Stage, WritePCs
  <2>5. Control'
    BY <2>1 DEF IInv, Control, InGC, NewEnvFails, WritePCs
  <2> QED BY <1>1, <2>3, <2>4, <2>5, Types DEF IInv
<1> QED BY <1>2, <1>3

LEMMA StepMarkOld ==
    ASSUME IInv, MarkOld
    PROVE  IInv'
<1> DEFINE n == [At(job.old) EXCEPT !.st = "PRE_DELETE"]
<1>1. SetNode(job.old, n) /\ SecType /\ WholeNodes
  BY Types DEF MarkOld, SetStatus, IInv
<1>2. InRange(job.old) /\ At(job.old).key # NoVal /\ At(job.old).val # NoVal
  BY DEF IInv, Stage, MarkOld
<1>3. n \in Node /\ n.key # NoVal /\ n.val # NoVal
  BY <1>1, <1>2, NodeAt DEF Node
<1>4. SecType' /\ WholeNodes'
  <2> HIDE DEF n
  <2> QED BY <1>1, <1>3, OverwriteNode, OverwriteWhole
<1>5. RamType'
  BY DEF IInv, TypeOK, RamType, MarkOld, RestOfRAM, PCs
<1>6. Stage'
  BY DEF IInv, Stage, MarkOld, WritePCs
<1>7. Control'
  BY DEF IInv, Control, InGC, MarkOld, RestOfRAM, WritePCs
<1> QED BY <1>4, <1>5, <1>6, <1>7, Types DEF IInv

LEMMA Dirtied ==
    ASSUME IInv, NEW s, DirtySector(s)
    PROVE  SecType' /\ WholeNodes'
<1>1. CASE sec[s].dirty = "FALSE"
  <2>1. sec' = [sec EXCEPT ![s] = [sec[s] EXCEPT !.dirty = "TRUE"]]
    BY <1>1 DEF DirtySector
  <2>2. SecType /\ WholeNodes
    BY Types DEF IInv
  <2>3. s \in Sectors =>
          /\ [sec[s] EXCEPT !.dirty = "TRUE"] \in Sector
          /\ [sec[s] EXCEPT !.dirty = "TRUE"].nodes = sec[s].nodes
    BY <2>2 DEF SecType
  <2> QED BY <2>1, <2>2, <2>3, SectorWrite
<1>2. CASE sec[s].dirty # "FALSE"
  BY <1>2, Same DEF DirtySector
<1> QED BY <1>1, <1>2

LEMMA StepMarkOldDirty ==
    ASSUME IInv, MarkOldDirty
    PROVE  IInv'
<1>1. SecType' /\ WholeNodes'
  BY Dirtied DEF MarkOldDirty
<1>2. RamType'
  BY DEF IInv, TypeOK, RamType, MarkOldDirty, RestOfRAM, PCs
<1>3. Stage'
  BY DEF IInv, Stage, MarkOldDirty, WritePCs
<1>4. Control'
  BY DEF IInv, Control, InGC, MarkOldDirty, RestOfRAM, WritePCs
<1> QED BY <1>1, <1>2, <1>3, <1>4, Types DEF IInv

LEMMA StepDeleteOldDirty ==
    ASSUME IInv, DeleteOldDirty
    PROVE  IInv'
<1>1. SecType' /\ WholeNodes'
  BY Dirtied DEF DeleteOldDirty
<1>2. RamType'
  BY DEF IInv, TypeOK, RamType, DeleteOldDirty, RestOfRAM, PCs
<1>3. Stage'
  BY DEF IInv, Stage, DeleteOldDirty, WritePCs
<1>4. Control'
  BY DEF IInv, Control, InGC, DeleteOldDirty, RestOfRAM, WritePCs
<1> QED BY <1>1, <1>2, <1>3, <1>4, Types DEF IInv

LEMMA StepUpdateSecStatus ==
    ASSUME IInv, UpdateSecStatus
    PROVE  IInv'
<1> DEFINE full == sec[job.to].store = "USING" /\ Len(sec[job.to].nodes) + 1 >= Cap
           r == [sec[job.to] EXCEPT !.store = IF full THEN "FULL" ELSE "USING"]
<1>1. SecType /\ WholeNodes /\ job.to \in Sectors
  BY Types DEF IInv, Stage, UpdateSecStatus
<1>2. sec' = [sec EXCEPT ![job.to] = r] /\ job' = [job EXCEPT !.is_full = full]
  BY DEF UpdateSecStatus
<1>3. /\ r \in Sector
      /\ r.nodes = sec[job.to].nodes
  <2> HIDE DEF full
  <2> QED BY <1>1 DEF SecType
<1>4. full \in BOOLEAN
  OBVIOUS
<1>5. SecType' /\ WholeNodes'
  <2> HIDE DEF r
  <2> QED BY <1>1, <1>2, <1>3, SectorWrite
<1>6. /\ job' \in Job
      /\ job'.by = job.by /\ job'.key = job.key /\ job'.val = job.val /\ job'.to = job.to
  <2> HIDE DEF full
  <2> QED BY <1>2, <1>4 DEF IInv, TypeOK
<1> HIDE DEF full, r
<1>7. RamType'
  BY <1>6 DEF IInv, TypeOK, RamType, UpdateSecStatus, RestOfRAM, PCs
<1>8. pc = "claim" /\ pc' = "prewrite" /\ req' = req /\ gcret' = gcret
  BY DEF UpdateSecStatus, RestOfRAM
<1>9. Stage'
  BY <1>1, <1>6, <1>8 DEF IInv, Stage, WritePCs
<1>10. Control'
  BY <1>6, <1>8 DEF IInv, Control, InGC, WritePCs
<1> QED BY <1>5, <1>7, <1>9, <1>10, Types DEF IInv

LEMMA StepWritePreWrite ==
    ASSUME IInv, WritePreWrite
    PROVE  IInv'
<1> DEFINE n == [st |-> "PRE_WRITE", key |-> NoVal, val |-> NoVal]
<1>1. SecType /\ WholeNodes /\ job.to \in Sectors
  BY Types DEF IInv, Stage, WritePreWrite
<1>2. n \in Node /\ n.st = "PRE_WRITE"
  BY DEF Node
<1>3. sec' = [sec EXCEPT ![job.to] =
                 [sec[job.to] EXCEPT !.nodes = Append(sec[job.to].nodes, n)]]
  BY <1>1 DEF WritePreWrite, SecType
<1> HIDE DEF n
<1>4. sec[job.to].nodes \in Seq(Node)
  BY <1>1 DEF SecType
<1>5. SecType'
  <2>1. Append(sec[job.to].nodes, n) \in Seq(Node)
    BY <1>2, <1>4
  <2> QED BY <1>1, <1>3, <2>1 DEF SecType
<1>6. sec'[job.to].nodes = Append(sec[job.to].nodes, n)
  BY <1>1, <1>3 DEF SecType
<1>7. \A s \in Sectors : s # job.to => sec'[s] = sec[s]
  BY <1>3, <1>1 DEF SecType
<1>8. WholeNodes'
  <2> SUFFICES ASSUME NEW s \in Sectors, NEW i \in 1..Len(sec'[s].nodes),
                      sec'[s].nodes[i].st \in {"WRITE", "PRE_DELETE"}
               PROVE  sec'[s].nodes[i].key # NoVal /\ sec'[s].nodes[i].val # NoVal
    BY DEF WholeNodes
  <2>1. CASE s = job.to
    <3>1. i \in 1..Len(sec[s].nodes) => sec'[s].nodes[i] = sec[s].nodes[i]
      BY <2>1, <1>4, <1>6
    <3>2. i \notin 1..Len(sec[s].nodes) => sec'[s].nodes[i] = n
      BY <2>1, <1>4, <1>6
    <3> QED BY <1>1, <1>2, <3>1, <3>2 DEF WholeNodes
  <2>2. CASE s # job.to
    BY <1>1, <1>7, <2>2 DEF WholeNodes
  <2> QED BY <2>1, <2>2
<1>9. Len(sec'[job.to].nodes) > 0
  BY <1>4, <1>6
<1>10. RamType'
  BY DEF IInv, TypeOK, RamType, WritePreWrite, RestOfRAM, PCs
<1>11. Stage'
  BY <1>1, <1>9 DEF IInv, Stage, WritePreWrite, WritePCs
<1>12. Control'
  BY DEF IInv, Control, InGC, WritePreWrite, RestOfRAM, WritePCs
<1> QED BY <1>5, <1>8, <1>10, <1>11, <1>12, Types DEF IInv

\* The node being written is the last one of its sector.
LEMMA TargetIn ==
    ASSUME IInv, pc \in {"header", "body", "commit"}
    PROVE  /\ SecType /\ WholeNodes /\ job.to \in Sectors
           /\ InRange(Target) /\ At(Target) \in Node
           /\ job.key \in Keys /\ job.val \in Values
           /\ Target[1] = job.to /\ Target[2] = Len(sec[job.to].nodes)
<1>1. SecType /\ WholeNodes
  BY Types DEF IInv
<1>2. job.to \in Sectors /\ Len(sec[job.to].nodes) > 0 /\ job.key # NoVal /\ job.val # NoVal
  BY DEF IInv, Stage, WritePCs
<1>3. sec[job.to].nodes \in Seq(Node)
  BY <1>1, <1>2 DEF SecType
<1>4. InRange(Target)
  BY <1>2, <1>3 DEF InRange, Target
<1>5. job.key \in Keys /\ job.val \in Values
  BY <1>2 DEF IInv, TypeOK
<1> QED BY <1>1, <1>2, <1>4, <1>5, NodeAt DEF Target

\* After the write it is that node.
LEMMA TargetAfter ==
    ASSUME IInv, pc \in {"header", "body", "commit"}, NEW n \in Node,
           SetNode(Target, n), UNCHANGED job,
           n.st \in {"WRITE", "PRE_DELETE"} => n.key # NoVal /\ n.val # NoVal
    PROVE  /\ SecType' /\ WholeNodes'
           /\ At(Target)' = n
           /\ Len(sec'[job.to].nodes) > 0
<1>1. /\ SecType /\ WholeNodes /\ job.to \in Sectors /\ InRange(Target)
      /\ Target[1] = job.to /\ Target[2] = Len(sec[job.to].nodes)
  BY TargetIn
<1>2. SecType' /\ WholeNodes'
  BY <1>1, OverwriteNode, OverwriteWhole
<1>3. /\ Len(sec'[job.to].nodes) = Len(sec[job.to].nodes)
      /\ sec'[job.to].nodes[Len(sec[job.to].nodes)] = n
  BY <1>1, OverwriteNode DEF InRange
<1>4. At(Target)' = n
  BY <1>3 DEF At, Target
<1>5. Len(sec[job.to].nodes) > 0
  BY DEF IInv, Stage
<1> QED BY <1>2, <1>3, <1>4, <1>5

LEMMA StepWriteHeader ==
    ASSUME IInv, WriteHeader
    PROVE  IInv'
<1> DEFINE n == [At(Target) EXCEPT !.key = job.key]
<1>1. /\ SetNode(Target, n) /\ UNCHANGED <<job, req, gcret>>
      /\ pc = "header" /\ pc' = "body"
  BY DEF WriteHeader, RestOfRAM
<1>2. At(Target) \in Node /\ job.key \in Keys /\ job.to \in Sectors
  BY <1>1, TargetIn
<1>3. n \in Node /\ n.key # NoVal /\ n.st = At(Target).st /\ n.val = At(Target).val
  BY <1>2, KeyVal DEF Node
<1>4. n.st \in {"WRITE", "PRE_DELETE"} => n.val # NoVal
  <2>1. WholeNodes /\ InRange(Target)
    BY <1>1, TargetIn
  <2> QED BY <2>1, <1>3 DEF WholeNodes, InRange, At
<1> HIDE DEF n
<1>5. SecType' /\ WholeNodes' /\ At(Target)' = n /\ Len(sec'[job.to].nodes) > 0
  BY <1>1, <1>3, <1>4, TargetAfter
<1>6. RamType'
  BY DEF IInv, TypeOK, RamType, WriteHeader, RestOfRAM, PCs
<1>7. Stage'
  BY <1>1, <1>2, <1>3, <1>5 DEF IInv, Stage, WritePCs
<1>8. Control'
  BY <1>1 DEF IInv, Control, InGC, WritePCs
<1> QED BY <1>5, <1>6, <1>7, <1>8, Types DEF IInv

LEMMA StepWriteValue ==
    ASSUME IInv, WriteValue
    PROVE  IInv'
<1> DEFINE n == [At(Target) EXCEPT !.val = job.val]
<1>1. /\ SetNode(Target, n) /\ UNCHANGED <<job, req, gcret>>
      /\ pc = "body" /\ pc' = "commit"
  BY DEF WriteValue, RestOfRAM
<1>2. At(Target) \in Node /\ job.val \in Values /\ job.to \in Sectors
  BY <1>1, TargetIn
<1>3. At(Target).key # NoVal
  BY <1>1 DEF IInv, Stage
<1>4. n \in Node /\ n.key # NoVal /\ n.val # NoVal
  BY <1>2, <1>3, KeyVal DEF Node
<1> HIDE DEF n
<1>5. SecType' /\ WholeNodes' /\ At(Target)' = n /\ Len(sec'[job.to].nodes) > 0
  BY <1>1, <1>4, TargetAfter
<1>6. RamType'
  BY DEF IInv, TypeOK, RamType, WriteValue, RestOfRAM, PCs
<1>7. Stage'
  BY <1>1, <1>2, <1>4, <1>5 DEF IInv, Stage, WritePCs
<1>8. Control'
  BY <1>1 DEF IInv, Control, InGC, WritePCs
<1> QED BY <1>5, <1>6, <1>7, <1>8, Types DEF IInv

LEMMA StepWriteCommit ==
    ASSUME IInv, WriteCommit
    PROVE  IInv'
<1> DEFINE n == [At(Target) EXCEPT !.st = "WRITE"]
<1>1. /\ SetNode(Target, n) /\ UNCHANGED <<job, req, gcret>>
      /\ pc = "commit" /\ pc' \in {"done", "delete"}
      /\ gc_request' \in BOOLEAN
  BY DEF WriteCommit, SetStatus
<1>2. At(Target) \in Node
  BY <1>1, TargetIn
<1>3. At(Target).key # NoVal /\ At(Target).val # NoVal
  BY <1>1 DEF IInv, Stage
<1>4. n \in Node /\ n.key # NoVal /\ n.val # NoVal
  BY <1>2, <1>3 DEF Node
<1> HIDE DEF n
<1>5. SecType' /\ WholeNodes'
  BY <1>1, <1>4, TargetAfter
<1>6. RamType'
  BY <1>1 DEF IInv, TypeOK, RamType, WriteCommit, PCs
<1>7. Stage'
  BY <1>1 DEF IInv, Stage, WritePCs
<1>8. Control'
  BY <1>1 DEF IInv, Control, InGC, WritePCs
<1> QED BY <1>5, <1>6, <1>7, <1>8, Types DEF IInv

LEMMA StepDeleteOld ==
    ASSUME IInv, DeleteOld
    PROVE  IInv'
<1>1. Dead \in Node /\ Dead.st = "DELETED"
  BY DEF Dead, Node
<1>2. SecType' /\ WholeNodes'
  BY <1>1, OverwriteNode, OverwriteWhole, Types DEF IInv, DeleteOld
<1>3. RamType'
  BY DEF IInv, TypeOK, RamType, DeleteOld, RestOfRAM, PCs
<1>4. Stage'
  BY DEF IInv, Stage, DeleteOld, WritePCs
<1>5. Control'
  BY DEF IInv, Control, InGC, DeleteOld, RestOfRAM, WritePCs
<1> QED BY <1>2, <1>3, <1>4, <1>5, Types DEF IInv

LEMMA NoJobType == NoJob \in Job
  BY NoNodeType DEF NoJob

LEMMA StepDone ==
    ASSUME IInv, Done
    PROVE  IInv'
<1>1. SecType' /\ WholeNodes'
  BY Same DEF Done
<1>2. job.by \in {"gc", "rec", "default", "set"}
  BY DEF IInv, Stage, TypeOK, Done, WritePCs
<1>3. job' = NoJob /\ UNCHANGED <<already_gc, in_recovery_check, at, failed, losses, abandoned>>
      /\ req' = IF job.by \in {"set", "default"} THEN <<NoVal, NoVal>> ELSE req
  BY DEF Done
<1>4. req' \in (Keys \cup {NoVal}) \X (Values \cup {NoVal})
  BY <1>3 DEF IInv, TypeOK
<1>5. CASE /\ pc' \in {"gcnode", "recenv", "recgc", "idle"} /\ UNCHANGED <<gc_request, gcret, gcat>>
           /\ pc' = "gcnode" => job.by = "gc"
           /\ job.by = "gc" => pc' = "gcnode"
  <2>1. RamType'
    BY <1>3, <1>4, <1>5, NoJobType DEF IInv, TypeOK, RamType, PCs
  <2>2. Stage'
    BY <1>5 DEF Stage, WritePCs
  <2>3. Control'
    BY <1>2, <1>3, <1>5 DEF IInv, Control, InGC, WritePCs, Done
  <2> QED BY <1>1, <2>1, <2>2, <2>3, Types DEF IInv
<1>6. CASE job.by = "set" /\ EnterGC("idle")
  <2>1. /\ pc' = "gc" \/ pc' = "idle"
        /\ pc' \in PCs /\ gcret' \in Returns /\ gcat' \in Nat \X Nat
        /\ gc_request' \in BOOLEAN
        /\ pc' = "gc" => gcret' = "idle"
        /\ pc' # "gc" => gcret' = gcret
    BY <1>6, Enter DEF Returns
  <2>2. gcret = "idle"
    BY <1>6 DEF IInv, Control, InGC, Done
  <2>3. RamType'
    BY <1>3, <1>4, <2>1, NoJobType DEF IInv, TypeOK, RamType
  <2>4. Stage'
    BY <2>1 DEF Stage, WritePCs
  <2>5. Control'
    BY <2>1, <2>2 DEF Control, InGC
  <2> QED BY <1>1, <2>3, <2>4, <2>5, Types DEF IInv
<1> QED BY <1>2, <1>5, <1>6 DEF Done

-----------------------------------------------------------------------------
\* Garbage collection.

LEMMA BlankFresh ==
    /\ Blank \in Sector
    /\ Fresh \in Sector
    /\ Blank.nodes = << >> /\ Fresh.nodes = << >>
<1>1. << >> \in Seq(Node)
  OBVIOUS
<1>2. /\ Blank \in Sector
      /\ Blank.nodes = << >>
  BY <1>1 DEF Blank
<1> QED BY <1>2 DEF Fresh

LEMMA Formatted ==
    ASSUME IInv, NEW s, sec' = [sec EXCEPT ![s] = Blank] \/ sec' = [sec EXCEPT ![s] = Fresh]
    PROVE  SecType' /\ WholeNodes'
  BY BlankFresh, SectorWrite, Types DEF IInv

\* A step outside the writes of a node only moves between these places.
LEMMA Elsewhere ==
    ASSUME pc' \notin WritePCs
    PROVE  Stage'
  BY DEF Stage, WritePCs

LEMMA StepGCSector ==
    ASSUME IInv, GCSector
    PROVE  IInv'
<1> DEFINE s == Min(DirtyAfter(gcat[1]))
           r == [sec[s] EXCEPT !.dirty = "GC"]
<1>1. s \in Sectors /\ s \in Nat
  BY MinIn, SectorNat DEF DirtyAfter, GCSector
<1>2. SecType /\ WholeNodes
  BY Types DEF IInv
<1>3. sec' = [sec EXCEPT ![s] = r] /\ gcat' = <<s, 0>>
  BY DEF GCSector
<1> HIDE DEF s
<1>4. /\ r \in Sector
      /\ r.nodes = sec[s].nodes
  BY <1>1, <1>2 DEF SecType
<1>5. SecType' /\ WholeNodes'
  <2> HIDE DEF r
  <2> QED BY <1>2, <1>3, <1>4, SectorWrite
<1>6. gcat' \in Nat \X Nat
  BY <1>1, <1>3
<1>7. RamType'
  BY <1>6 DEF IInv, TypeOK, RamType, GCSector, PCs
<1>8. Stage'
  BY Elsewhere DEF GCSector, WritePCs
<1>9. Control'
  BY DEF IInv, Control, InGC, GCSector
<1> QED BY <1>5, <1>7, <1>8, <1>9, Types DEF IInv

LEMMA StepGCEnd ==
    ASSUME IInv, GCEnd
    PROVE  IInv'
<1>1. SecType' /\ WholeNodes'
  BY Same DEF GCEnd
<1>2. pc' \in Returns
  BY DEF IInv, TypeOK, GCEnd
<1>3. RamType'
  BY <1>2, NoNodeType DEF IInv, TypeOK, RamType, GCEnd, PCs, Returns
<1>4. Stage'
  BY <1>2, Elsewhere DEF Returns, WritePCs
<1>5. Control'
  BY <1>2 DEF IInv, Control, InGC, GCEnd, Returns, WritePCs
<1> QED BY <1>1, <1>3, <1>4, <1>5, Types DEF IInv

LEMMA MoveJobType ==
    ASSUME SecType, NEW who \in {"gc", "rec"}, NEW a \in Addrs, crc_is_ok(a)
    PROVE  /\ MoveJob(who, a) \in Job
           /\ MoveJob(who, a).by = who /\ MoveJob(who, a).old = a
           /\ MoveJob(who, a).key # NoVal /\ MoveJob(who, a).val # NoVal
<1>1. InRange(a) /\ a \in Nat \X Nat
  BY AddrsIn
<1>2. At(a) \in Node /\ At(a).key # NoVal /\ At(a).val # NoVal
  BY <1>1, NodeAt DEF crc_is_ok
<1>3. At(a).key \in Keys \cup {NoVal} /\ At(a).val \in Values \cup {NoVal}
  BY <1>2 DEF Node
<1> QED BY <1>1, <1>2, <1>3 DEF MoveJob

LEMMA StepGCMove ==
    ASSUME IInv, GCMove
    PROVE  IInv'
<1> DEFINE a == First(LiveAfter(gcat))
<1>1. SecType' /\ WholeNodes' /\ SecType
  BY Same, Types DEF GCMove, IInv
<1>2. a \in LiveAfter(gcat)
  BY FirstIn, AddrsIn DEF LiveAfter, GCMove
<1>3. a \in Addrs /\ crc_is_ok(a)
  BY <1>2 DEF LiveAfter
<1>4. InRange(a) /\ a \in Nat \X Nat /\ At(a).key # NoVal /\ At(a).val # NoVal
  BY <1>3, AddrsIn DEF crc_is_ok
<1>5. gcat' = a /\ job' = MoveJob("gc", a) /\ pc' \in {"mark", "alloc"} /\ sec' = sec
      /\ UNCHANGED <<req, gcret>> /\ pc = "gcnode"
  BY DEF GCMove
<1> HIDE DEF a
<1>6. /\ job' \in Job
      /\ job'.by = "gc" /\ job'.old = a /\ job'.key # NoVal /\ job'.val # NoVal
  BY <1>1, <1>3, <1>5, MoveJobType
<1>7. RamType'
  BY <1>4, <1>5, <1>6 DEF IInv, TypeOK, RamType, GCMove, PCs
<1>8. Stage'
  BY <1>4, <1>5, <1>6 DEF Stage, WritePCs, InRange, At
<1>9. Control'
  BY <1>5, <1>6 DEF IInv, Control, InGC, WritePCs
<1> QED BY <1>1, <1>7, <1>8, <1>9, Types DEF IInv

LEMMA StepMoveAlloc ==
    ASSUME IInv, MoveAlloc
    PROVE  IInv'
<1>1. SecType' /\ WholeNodes'
  BY Same DEF MoveAlloc
<1>2. alloc_env \in Sectors /\ alloc_env \in Nat
  BY AllocIn, SectorNat DEF MoveAlloc
<1>3. /\ pc = "alloc" /\ UNCHANGED <<req, gcret>>
      /\ \/ pc' = "delete" /\ job' = job
         \/ pc' = "claim" /\ job' = [job EXCEPT !.to = alloc_env]
  BY DEF MoveAlloc, RestOfRAM
<1>4. job \in Job
  BY DEF IInv, TypeOK
<1>5. /\ job' \in Job
      /\ job'.by = job.by /\ job'.key = job.key /\ job'.val = job.val
      /\ pc' = "claim" => job'.to \in Sectors
  BY <1>2, <1>3, <1>4
<1>6. RamType'
  BY <1>3, <1>5 DEF IInv, TypeOK, RamType, MoveAlloc, RestOfRAM, PCs
<1>7. Stage'
  BY <1>3, <1>5 DEF IInv, Stage, WritePCs
<1>8. Control'
  BY <1>3, <1>5 DEF IInv, Control, InGC, WritePCs
<1> QED BY <1>1, <1>6, <1>7, <1>8, Types DEF IInv

LEMMA StepMoveFails ==
    ASSUME IInv, MoveFails
    PROVE  IInv'
<1>1. SecType' /\ WholeNodes'
  BY Same DEF MoveFails
<1>2. gc_request' \in BOOLEAN /\ pc' \in {"gcnode", "recend"} /\ job' = NoJob
  BY DEF MoveFails
<1>3. RamType'
  BY <1>2, NoJobType DEF IInv, TypeOK, RamType, MoveFails, PCs
<1>4. Stage'
  BY <1>2, Elsewhere DEF WritePCs
<1>5. Control'
  BY DEF IInv, Control, InGC, MoveFails, WritePCs
<1> QED BY <1>1, <1>3, <1>4, <1>5, Types DEF IInv

LEMMA StepGCErase ==
    ASSUME IInv, GCErase \/ GCFormat
    PROVE  IInv'
<1>1. SecType' /\ WholeNodes'
  BY Formatted DEF GCErase, GCFormat
<1>2. RamType'
  BY DEF IInv, TypeOK, RamType, GCErase, GCFormat, RestOfRAM, PCs
<1>3. Stage'
  BY Elsewhere DEF GCErase, GCFormat, WritePCs
<1>4. Control'
  BY DEF IInv, Control, InGC, GCErase, GCFormat, RestOfRAM
<1> QED BY <1>1, <1>2, <1>3, <1>4, Types DEF IInv

-----------------------------------------------------------------------------
\* The wipe, the recovery at boot and the loss of power.

LEMMA StepWipe ==
    ASSUME IInv, Wipe
    PROVE  IInv'
<1>1. SecType' /\ WholeNodes'
  BY Formatted, Same DEF Wipe, WipeErase, WipeFormat, WipeDefault
<1>2. at[1] \in Nat /\ at \in Nat \X Nat
  BY DEF IInv, TypeOK
<1>3. at' \in Nat \X Nat
  BY <1>2, NoNodeType DEF Wipe, WipeErase, WipeFormat, WipeDefault, RestOfRAM
<1>4. req' \in (Keys \cup {NoVal}) \X (Values \cup {NoVal})
  BY KeyVal DEF IInv, TypeOK, Wipe, WipeErase, WipeFormat, WipeDefault, RestOfRAM
<1>5. RamType'
  BY <1>3, <1>4 DEF IInv, TypeOK, RamType, Wipe, WipeErase, WipeFormat, WipeDefault,
                    RestOfRAM, PCs
<1>6. Stage'
  BY Elsewhere DEF Wipe, WipeErase, WipeFormat, WipeDefault, WritePCs
<1>7. Control'
  BY KeyVal DEF IInv, Control, InGC, Wipe, WipeErase, WipeFormat, WipeDefault,
                RestOfRAM, WritePCs
<1> QED BY <1>1, <1>5, <1>6, <1>7, Types DEF IInv

LEMMA StepCheckHeaders ==
    ASSUME IInv, CheckHeader \/ CheckHeadersDone
    PROVE  IInv'
<1>1. SecType' /\ WholeNodes'
  BY Formatted, Same DEF CheckHeader, CheckHeadersDone
<1>2. at' \in Nat \X Nat
  BY DEF IInv, TypeOK, CheckHeader, CheckHeadersDone
<1>3. RamType'
  BY <1>2 DEF IInv, TypeOK, RamType, CheckHeader, CheckHeadersDone, PCs
<1>4. Stage'
  BY Elsewhere DEF CheckHeader, CheckHeadersDone, WritePCs
<1>5. Control'
  BY DEF IInv, Control, InGC, CheckHeader, CheckHeadersDone, WritePCs
<1> QED BY <1>1, <1>3, <1>4, <1>5, Types DEF IInv

LEMMA StepResumeGC ==
    ASSUME IInv, ResumeGC
    PROVE  IInv'
<1>1. SecType' /\ WholeNodes'
  BY Same DEF ResumeGC
<1>2. gcret = "idle" /\ pc = "recgc"
  BY DEF IInv, Control, InGC, ResumeGC, WritePCs
<1>3. at' \in Nat \X Nat
  <2>1. Interrupted # {} => Min(Interrupted) \in Nat
    BY MinIn, SectorNat DEF Interrupted
  <2> QED BY <2>1, NoNodeType DEF ResumeGC
<1>4. /\ pc' \in {"gc", "recgc", "recenv"}
      /\ gcret' \in Returns /\ gcat' \in Nat \X Nat /\ gc_request' \in BOOLEAN
      /\ pc' # "gc" => gcret' = "idle"
      /\ gcret' # "new"
  <2>1. CASE Interrupted # {}
    <3>1. EnterGC("recgc")
      BY <2>1 DEF ResumeGC
    <3> QED BY <1>2, <3>1, Enter DEF Returns
  <2>2. CASE Interrupted = {}
    BY <1>2, <2>2 DEF IInv, TypeOK, ResumeGC, Returns
  <2> QED BY <2>1, <2>2
<1>5. RamType'
  BY <1>3, <1>4 DEF IInv, TypeOK, RamType, ResumeGC, PCs
<1>6. Stage'
  BY <1>4, Elsewhere DEF WritePCs
<1>7. Control'
  BY <1>4 DEF Control, InGC
<1> QED BY <1>1, <1>5, <1>6, <1>7, Types DEF IInv

LEMMA StepRecoverOld ==
    ASSUME IInv, RecoverOld
    PROVE  IInv'
<1> DEFINE a == First(Unfinished)
<1>1. SecType' /\ WholeNodes' /\ SecType
  BY Same, Types DEF RecoverOld, IInv
<1>2. a \in Unfinished
  BY FirstIn, AddrsIn DEF Unfinished, RecoverOld
<1>3. a \in Addrs /\ crc_is_ok(a) /\ a \in Nat \X Nat
  BY <1>2, AddrsIn DEF Unfinished, RecoverOld
<1>4. at' = a /\ job' = MoveJob("rec", a) /\ pc' = "alloc" /\ pc = "recenv"
      /\ UNCHANGED <<req, gcret>>
  BY DEF RecoverOld
<1> HIDE DEF a
<1>5. /\ job' \in Job
      /\ job'.by = "rec" /\ job'.key # NoVal /\ job'.val # NoVal
  BY <1>1, <1>3, <1>4, MoveJobType
<1>6. RamType'
  BY <1>3, <1>4, <1>5 DEF IInv, TypeOK, RamType, RecoverOld, PCs
<1>7. Stage'
  BY <1>4, <1>5 DEF Stage, WritePCs
<1>8. Control'
  BY <1>4, <1>5 DEF IInv, Control, InGC, WritePCs
<1> QED BY <1>1, <1>6, <1>7, <1>8, Types DEF IInv

LEMMA StepDropUnfinished ==
    ASSUME IInv, DropUnfinished
    PROVE  IInv'
<1> DEFINE n == [Dead EXCEPT !.st = "ERR_HDR"]
<1>1. n \in Node /\ n.st = "ERR_HDR"
  BY DEF Dead, Node
<1>2. SetNode(First(Unfinished), n) /\ abandoned' \in BOOLEAN
  BY DEF DropUnfinished
<1>3. SecType' /\ WholeNodes'
  <2> HIDE DEF n
  <2> QED BY <1>1, <1>2, OverwriteNode, OverwriteWhole, Types DEF IInv
<1>4. RamType'
  BY <1>2 DEF IInv, TypeOK, RamType, DropUnfinished, PCs
<1>5. Stage'
  BY Elsewhere DEF DropUnfinished, WritePCs
<1>6. Control'
  BY DEF IInv, Control, InGC, DropUnfinished, WritePCs
<1> QED BY <1>3, <1>4, <1>5, <1>6, Types DEF IInv

LEMMA StepRecoverNoMore ==
    ASSUME IInv, RecoverNoMore
    PROVE  IInv'
<1>1. SecType' /\ WholeNodes'
  BY Same DEF RecoverNoMore
<1>2. RamType'
  BY DEF IInv, TypeOK, RamType, RecoverNoMore, RestOfRAM, PCs
<1>3. Stage'
  BY Elsewhere DEF RecoverNoMore, WritePCs
<1>4. Control'
  BY DEF IInv, Control, InGC, RecoverNoMore, RestOfRAM, WritePCs
<1> QED BY <1>1, <1>2, <1>3, <1>4, Types DEF IInv

LEMMA StepRecoverEnd ==
    ASSUME IInv, RecoverEnd
    PROVE  IInv'
<1>1. SecType' /\ WholeNodes'
  BY Same DEF RecoverEnd
<1>2. gcret = "idle" /\ pc = "recend"
  BY DEF IInv, Control, InGC, RecoverEnd, WritePCs
<1>3. at' \in Nat \X Nat /\ in_recovery_check' \in BOOLEAN
  BY NoNodeType DEF IInv, TypeOK, RecoverEnd
<1>4. /\ pc' \in {"gc", "recenv", "idle"}
      /\ gcret' \in Returns /\ gcat' \in Nat \X Nat /\ gc_request' \in BOOLEAN
      /\ pc' # "gc" => gcret' = "idle"
      /\ gcret' # "new"
  <2>1. CASE gc_request
    <3>1. EnterGC("recenv")
      BY <2>1 DEF RecoverEnd
    <3> QED BY <1>2, <3>1, Enter DEF Returns
  <2>2. CASE ~gc_request
    BY <1>2, <2>2 DEF IInv, TypeOK, RecoverEnd, Returns
  <2> QED BY <2>1, <2>2
<1>5. RamType'
  BY <1>3, <1>4 DEF IInv, TypeOK, RamType, RecoverEnd, PCs
<1>6. Stage'
  BY <1>4, Elsewhere DEF WritePCs
<1>7. Control'
  BY <1>4 DEF Control, InGC
<1> QED BY <1>1, <1>5, <1>6, <1>7, Types DEF IInv

LEMMA StepPowerLoss ==
    ASSUME IInv, PowerLoss
    PROVE  IInv'
<1>1. SecType' /\ WholeNodes'
  BY Same DEF PowerLoss
<1>2. req' \in (Keys \cup {NoVal}) \X (Values \cup {NoVal})
  BY DEF PowerLoss
<1>3. RamType'
  <2>1. losses' \in Nat /\ abandoned' \in BOOLEAN
    BY DEF IInv, TypeOK, PowerLoss
  <2> QED BY <1>2, <2>1, NoJobType, NoNodeType DEF RamType, PowerLoss, PCs, Returns
<1>4. Stage'
  BY Elsewhere DEF PowerLoss, WritePCs
<1>5. Control'
  BY DEF Control, PowerLoss
<1> QED BY <1>1, <1>3, <1>4, <1>5, Types DEF IInv

LEMMA InitIInv == Init => IInv
<1> SUFFICES ASSUME Init PROVE IInv
  OBVIOUS
<1>1. SecType /\ WholeNodes
  BY BlankFresh DEF Init, SecType, WholeNodes
<1>2. req \in (Keys \cup {NoVal}) \X (Values \cup {NoVal})
  BY DEF Init
<1>3. RamType
  BY <1>2, NoJobType, NoNodeType DEF Init, RamType, PCs, Returns
<1>4. Stage /\ Control
  BY DEF Init, Stage, Control, WritePCs
<1> QED BY <1>1, <1>3, <1>4, Types DEF IInv

LEMMA Stutter ==
    ASSUME IInv, UNCHANGED vars
    PROVE  IInv'
<1>1. SecType' /\ WholeNodes'
  BY Same DEF vars
<1>2. RamType'
  BY DEF IInv, TypeOK, RamType, vars, ram
<1>3. Stage'
  BY DEF IInv, Stage, vars, ram, InRange, At, Target
<1>4. Control'
  BY DEF IInv, Control, InGC, vars, ram
<1> QED BY <1>1, <1>2, <1>3, <1>4, Types DEF IInv

-----------------------------------------------------------------------------
\* The inductive invariant: types, whole nodes, what each stage of a write has
\* already put into the flash, and who waits for a collection.
THEOREM Invariance == Spec => []IInv
<1>1. ASSUME IInv, Write PROVE IInv'
  BY <1>1, StepNewEnv, StepNewEnvFails, StepMarkOld, StepMarkOldDirty,
     StepUpdateSecStatus, StepWritePreWrite, StepWriteHeader, StepWriteValue,
     StepWriteCommit, StepDeleteOld, StepDeleteOldDirty, StepDone DEF Write
<1>2. ASSUME IInv, Collect PROVE IInv'
  BY <1>2, StepGCSector, StepGCEnd, StepGCMove, StepMoveAlloc, StepMoveFails,
     StepGCErase DEF Collect
<1>3. ASSUME IInv, Boot PROVE IInv'
  BY <1>3, StepCheckHeaders, StepResumeGC, StepRecoverOld, StepDropUnfinished,
     StepRecoverNoMore, StepRecoverEnd DEF Boot
<1>4. ASSUME IInv, [Next]_vars PROVE IInv'
  BY <1>1, <1>2, <1>3, <1>4, StepCall, StepWipe, StepPowerLoss, Stutter DEF Next, Work
<1> QED BY <1>4, InitIInv, PTL DEF Spec

\* Every status and every continuation of ef_env.c is one it declares, for any
\* number of sectors, nodes, keys and power losses.
THEOREM TypeCorrect == Spec => []TypeOK
<1>1. IInv => TypeOK
  BY DEF IInv
<1> QED BY <1>1, Invariance, PTL

\* A node whose status says it is finished has its header and its value,
\* wherever and however often the power failed.
THEOREM NodesWhole == Spec => []WholeNodes
<1>1. IInv => WholeNodes
  BY DEF IInv
<1> QED BY <1>1, Invariance, PTL
=============================================================================
