------------------------------ MODULE EnvStore ------------------------------
(***************************************************************************)
(* The key-value store in the SPI flash that holds the valve position, the *)
(* device table and the alarm marks: EasyFlash V4.1 in NG mode             *)
(* (packages/EasyFlash-v4.1.0/src/ef_env.c), as storage/flashwork.c uses   *)
(* it.  The flash survives a power loss, everything else does not; every   *)
(* write that changes the flash is a step of its own, and the power may    *)
(* fail between any two of them.                                           *)
(*                                                                         *)
(* Abstractions.  A node takes one of Cap slots of its sector.  A node     *)
(* whose header is not written has no key, one whose value is not written  *)
(* has no value: its CRC fails.  The data of a deleted node is never read  *)
(* and is dropped.  The RAM caches of addresses answer what a search of    *)
(* the flash would; the callers' lock makes an operation atomic for        *)
(* other threads.                                                          *)
(***************************************************************************)
EXTENDS Naturals, Sequences, FiniteSets, FiniteSetsExt

CONSTANTS
    Keys,        \* names of values; one of them is the default set
    Values,
    Author,      \* the key of default_env_set
    Rick,        \* and its value
    NoVal,       \* not written, or not there
    SECTOR_NUM,  \* sectors of the ENV area
    Cap,         \* nodes one sector holds
    MaxLoss      \* bound: power losses of a behaviour

EF_GC_EMPTY_SEC_THRESHOLD == 1

ASSUME EnvAssumption ==
    /\ SECTOR_NUM \in Nat /\ SECTOR_NUM > EF_GC_EMPTY_SEC_THRESHOLD
    /\ Cap \in Nat /\ Cap > 1
    /\ MaxLoss \in Nat
    /\ IsFiniteSet(Keys)
    /\ Author \in Keys /\ Rick \in Values
    /\ NoVal \notin Values /\ NoVal \notin Keys

Sectors == 1..SECTOR_NUM

VARIABLES
    sec,          \* the flash: header, statuses and nodes of every sector
    pc,           \* the flash write, or the decision before one, that is next
    req,          \* the pair that set_env was asked to store
    already_gc,   \* new_env has collected once for this request
    job,          \* the node being written: for whom, what, where, instead of what
    gc_request,
    gcret,        \* who called gc_collect
    gcat,         \* gc_collect's position: sector, node
    in_recovery_check,
    at,           \* ef_load_env's position: sector, node
    failed,       \* check_failed_count
    losses,
    abandoned     \* history: a value was left behind (by recovery, or for want of room)

ram == <<pc, req, already_gc, job, gc_request, gcret, gcat,
         in_recovery_check, at, failed>>
vars == <<sec, ram, losses, abandoned>>

-----------------------------------------------------------------------------
\* The flash.

Node == [st: {"PRE_WRITE", "WRITE", "PRE_DELETE", "DELETED", "ERR_HDR"},
         key: Keys \cup {NoVal}, val: Values \cup {NoVal}]
Sector == [ok: BOOLEAN, store: {"EMPTY", "USING", "FULL"},
           dirty: {"FALSE", "TRUE", "GC"}, nodes: Seq(Node)]
NoNode == <<0, 0>>

\* A sector whose header has no magic word: erased, or never formatted.
Blank == [ok |-> FALSE, store |-> "EMPTY", dirty |-> "FALSE", nodes |-> <<>>]
\* format_sector() ends with this header.
Fresh == [Blank EXCEPT !.ok = TRUE]

Addrs == {a \in Sectors \X (1..Cap) :
             sec[a[1]].store # "EMPTY" /\ a[2] <= Len(sec[a[1]].nodes)}
At(a) == sec[a[1]].nodes[a[2]]
Before(a, b) == a[1] < b[1] \/ (a[1] = b[1] /\ a[2] < b[2])
\* The first address of S: the lowest sector, in it the lowest slot.
First(S) == LET s == Min({a[1] : a \in S})
            IN  <<s, Min({a[2] : a \in {b \in S : b[1] = s}})>>

crc_is_ok(a) == At(a).key # NoVal /\ At(a).val # NoVal

\* find_env_cb: the nodes a search for key k accepts.
FindEnv(k) == {a \in Addrs : crc_is_ok(a) /\ At(a).st = "WRITE" /\ At(a).key = k}

SetNode(a, n) == sec' = [sec EXCEPT ![a[1]].nodes[a[2]] = n]
SetStatus(a, st) == SetNode(a, [At(a) EXCEPT !.st = st])
Dead == [st |-> "DELETED", key |-> NoVal, val |-> NoVal]

Empty == {s \in Sectors : sec[s].ok /\ sec[s].store = "EMPTY"}

-----------------------------------------------------------------------------
\* Allocation.

\* alloc_env_cb
Usable(s) ==
    /\ sec[s].ok
    /\ Len(sec[s].nodes) < Cap
    /\ \/ sec[s].dirty = "FALSE"
       \/ sec[s].dirty = "TRUE" /\ ~gc_request

UsingWithRoom == {s \in Sectors : sec[s].store = "USING" /\ Usable(s)}

\* Faulty: ordinary writes may take the last empty sector.
alloc_env_LastEmpty ==
    IF UsingWithRoom # {} THEN Min(UsingWithRoom)
    ELSE IF Empty # {} THEN Min(Empty) ELSE 0

\* Faulty: a collection may not take the last empty sector either.
alloc_env_KeepsLast ==
    IF UsingWithRoom # {} THEN Min(UsingWithRoom)
    ELSE IF Cardinality(Empty) > EF_GC_EMPTY_SEC_THRESHOLD THEN Min(Empty) ELSE 0

\* The sector alloc_env() finds, 0 for FAILED_ADDR: one in use first, and
\* the last empty one only while a collection is asked for.
alloc_env ==
    IF UsingWithRoom # {} THEN Min(UsingWithRoom)
    ELSE IF Empty # {} /\ (Cardinality(Empty) > EF_GC_EMPTY_SEC_THRESHOLD \/ gc_request)
         THEN Min(Empty)
         ELSE 0

\* alloc_env() gives up and asks for a collection.
AllocAsksGC ==
    /\ UsingWithRoom = {}
    /\ Cardinality(Empty) \in 1..EF_GC_EMPTY_SEC_THRESHOLD

\* gc_collect() is called with the request made, to go on at r.  With more
\* empty sectors than the threshold it only clears the request.
EnterGC(r) ==
    IF Cardinality(Empty) <= EF_GC_EMPTY_SEC_THRESHOLD
    THEN pc' = "gc" /\ gcret' = r /\ gcat' = NoNode /\ gc_request' = TRUE
    ELSE pc' = r /\ gc_request' = FALSE /\ UNCHANGED <<gcret, gcat>>

-----------------------------------------------------------------------------
\* ef_set_env(): make room, mark the old node, write the new one, delete the
\* old one, collect.

Job == [by: {"none", "set", "default", "gc", "rec"}, key: Keys \cup {NoVal},
        val: Values \cup {NoVal}, old: Nat \X Nat, to: Nat, is_full: BOOLEAN]
NoJob == [by |-> "none", key |-> NoVal, val |-> NoVal, old |-> NoNode,
          to |-> 0, is_full |-> FALSE]

ef_set_env(k, v) ==
    /\ pc = "idle"
    /\ pc' = "new"
    /\ req' = <<k, v>>
    /\ already_gc' = FALSE
    /\ UNCHANGED <<sec, job, gc_request, gcret, gcat, in_recovery_check, at,
                   failed, losses, abandoned>>

NewJob(who, a) == [by |-> who, key |-> req[1], val |-> req[2], old |-> a,
                   to |-> alloc_env, is_full |-> FALSE]

\* new_env() finds a sector, find_env() the node that will be replaced; for
\* the default set nothing is looked for.
NewEnv ==
    /\ pc = "new"
    /\ alloc_env # 0
    /\ \/ /\ req[1] = Author
          /\ job' = NewJob("default", NoNode) /\ pc' = "claim"
       \/ /\ req[1] # Author /\ FindEnv(req[1]) = {}
          /\ job' = NewJob("set", NoNode) /\ pc' = "claim"
       \/ /\ req[1] # Author
          /\ \E a \in FindEnv(req[1]) : job' = NewJob("set", a)
          /\ pc' = "mark"
    /\ UNCHANGED <<sec, req, already_gc, gc_request, gcret, gcat,
                   in_recovery_check, at, failed, losses, abandoned>>

\* new_env() finds none: collect once and try again, else EF_ENV_FULL.
NewEnvFails ==
    /\ pc = "new"
    /\ alloc_env = 0
    /\ IF (gc_request \/ AllocAsksGC) /\ ~already_gc
       THEN /\ already_gc' = TRUE
            /\ EnterGC("new")
            /\ UNCHANGED req
       ELSE /\ pc' = IF in_recovery_check THEN "recgc" ELSE "idle"
            /\ gc_request' = (gc_request \/ AllocAsksGC)
            /\ req' = <<NoVal, NoVal>>
            /\ UNCHANGED <<already_gc, gcret, gcat>>
    /\ UNCHANGED <<sec, job, in_recovery_check, at, failed, losses, abandoned>>

-----------------------------------------------------------------------------
\* The writes that set_env() and move_env() share.

RestOfRAM == <<req, already_gc, gc_request, gcret, gcat, in_recovery_check,
               at, failed, losses, abandoned>>

\* Faulty: the old node is deleted before the new one is written.
MarkOld_Deletes ==
    /\ pc = "mark"
    /\ SetStatus(job.old, "DELETED")
    /\ pc' = "markdirty"
    /\ UNCHANGED <<job, RestOfRAM>>

\* del_env(.., false): the old node becomes PRE_DELETE ...
MarkOld ==
    /\ pc = "mark"
    /\ SetStatus(job.old, "PRE_DELETE")
    /\ pc' = "markdirty"
    /\ UNCHANGED <<job, RestOfRAM>>

DirtySector(s) ==
    sec' = IF sec[s].dirty = "FALSE" THEN [sec EXCEPT ![s].dirty = "TRUE"] ELSE sec

\* ... and its sector dirty.
MarkOldDirty ==
    /\ pc = "markdirty"
    /\ DirtySector(job.old[1])
    /\ pc' = IF job.by = "set" THEN "claim" ELSE "alloc"
    /\ UNCHANGED <<job, RestOfRAM>>

\* Faulty: a status that does not exist.
UpdateSecStatus_Unused ==
    /\ pc = "claim"
    /\ LET s    == job.to
           full == sec[s].store = "USING" /\ Len(sec[s].nodes) + 1 >= Cap
       IN  /\ sec' = [sec EXCEPT ![s].store = IF full THEN "FULL" ELSE "UNUSED"]
           /\ job' = [job EXCEPT !.is_full = full]
    /\ pc' = "prewrite"
    /\ UNCHANGED RestOfRAM

\* update_sec_status()
UpdateSecStatus ==
    /\ pc = "claim"
    /\ LET s    == job.to
           full == sec[s].store = "USING" /\ Len(sec[s].nodes) + 1 >= Cap
       IN  /\ sec' = [sec EXCEPT ![s].store = IF full THEN "FULL" ELSE "USING"]
           /\ job' = [job EXCEPT !.is_full = full]
    /\ pc' = "prewrite"
    /\ UNCHANGED RestOfRAM

Target == <<job.to, Len(sec[job.to].nodes)>>

\* write_env_hdr(): the status first ...
WritePreWrite ==
    /\ pc = "prewrite"
    /\ sec' = [sec EXCEPT ![job.to].nodes =
                  Append(@, [st |-> "PRE_WRITE", key |-> NoVal, val |-> NoVal])]
    /\ pc' = "header"
    /\ UNCHANGED <<job, RestOfRAM>>

\* Faulty: the status says WRITE before the value is written.
WriteHeader_WriteFirst ==
    /\ pc = "header"
    /\ SetNode(Target, [At(Target) EXCEPT !.key = job.key, !.st = "WRITE"])
    /\ pc' = "body"
    /\ UNCHANGED <<job, RestOfRAM>>

\* ... then magic word, lengths and CRC.
WriteHeader ==
    /\ pc = "header"
    /\ SetNode(Target, [At(Target) EXCEPT !.key = job.key])
    /\ pc' = "body"
    /\ UNCHANGED <<job, RestOfRAM>>

\* align_write() of name and value
WriteValue ==
    /\ pc = "body"
    /\ SetNode(Target, [At(Target) EXCEPT !.val = job.val])
    /\ pc' = "commit"
    /\ UNCHANGED <<job, RestOfRAM>>

\* The node becomes WRITE; create_env_blob() asks for a collection when the
\* sector is now full.
WriteCommit ==
    /\ pc = "commit"
    /\ SetStatus(Target, "WRITE")
    /\ gc_request' = (gc_request \/ (job.by \in {"set", "default"} /\ job.is_full))
    /\ pc' = IF job.old = NoNode THEN "done" ELSE "delete"
    /\ UNCHANGED <<req, already_gc, job, gcret, gcat, in_recovery_check, at,
                   failed, losses, abandoned>>

\* del_env(.., true)
DeleteOld ==
    /\ pc = "delete"
    /\ SetNode(job.old, Dead)
    /\ pc' = "deldirty"
    /\ UNCHANGED <<job, RestOfRAM>>

DeleteOldDirty ==
    /\ pc = "deldirty"
    /\ DirtySector(job.old[1])
    /\ pc' = "done"
    /\ UNCHANGED <<job, RestOfRAM>>

\* The return: set_env() collects if asked to, a move goes back to its loop.
Done ==
    /\ pc = "done"
    /\ CASE job.by = "gc"  -> pc' = "gcnode" /\ UNCHANGED <<gc_request, gcret, gcat>>
         [] job.by = "rec" -> pc' = "recenv" /\ UNCHANGED <<gc_request, gcret, gcat>>
         [] job.by = "default" ->
              /\ pc' = IF in_recovery_check THEN "recgc" ELSE "idle"
              /\ UNCHANGED <<gc_request, gcret, gcat>>
         [] job.by = "set" ->
              IF gc_request
              THEN EnterGC("idle")
              ELSE pc' = "idle" /\ UNCHANGED <<gc_request, gcret, gcat>>
    /\ job' = NoJob
    /\ req' = IF job.by \in {"set", "default"} THEN <<NoVal, NoVal>> ELSE req
    /\ UNCHANGED <<sec, already_gc, in_recovery_check, at, failed, losses, abandoned>>

-----------------------------------------------------------------------------
\* Garbage collection: do_gc() for every dirty sector in address order.

DirtyAfter(s) == {t \in Sectors : t > s /\ sec[t].ok /\ sec[t].dirty \in {"TRUE", "GC"}}

GCSector ==
    /\ pc = "gc"
    /\ DirtyAfter(gcat[1]) # {}
    /\ LET s == Min(DirtyAfter(gcat[1]))
       IN  sec' = [sec EXCEPT ![s].dirty = "GC"] /\ gcat' = <<s, 0>>
    /\ pc' = "gcnode"
    /\ UNCHANGED <<req, already_gc, job, gc_request, gcret, in_recovery_check,
                   at, failed, losses, abandoned>>

\* Faulty: the request is not taken back.
GCEnd_KeepsRequest ==
    /\ pc = "gc"
    /\ DirtyAfter(gcat[1]) = {}
    /\ pc' = gcret
    /\ gcat' = NoNode
    /\ gcret' = "idle"
    /\ UNCHANGED <<sec, req, already_gc, job, gc_request, in_recovery_check, at,
                   failed, losses, abandoned>>

GCEnd ==
    /\ pc = "gc"
    /\ DirtyAfter(gcat[1]) = {}
    /\ gc_request' = FALSE
    /\ pc' = gcret
    /\ gcat' = NoNode
    /\ gcret' = "idle"
    /\ UNCHANGED <<sec, req, already_gc, job, in_recovery_check, at, failed,
                   losses, abandoned>>

\* The nodes of the sector, after a, that still count.
LiveAfter(a) == {b \in Addrs : /\ b[1] = a[1] /\ b[2] > a[2]
                               /\ crc_is_ok(b)
                               /\ At(b).st \in {"WRITE", "PRE_DELETE"}}

MoveJob(who, a) == [by |-> who, key |-> At(a).key, val |-> At(a).val, old |-> a,
                    to |-> 0, is_full |-> FALSE]

\* move_env() of the next live node of the sector.
GCMove ==
    /\ pc = "gcnode"
    /\ LiveAfter(gcat) # {}
    /\ LET a == First(LiveAfter(gcat))
       IN  /\ gcat' = a
           /\ job' = MoveJob("gc", a)
           /\ pc' = IF At(a).st = "WRITE" THEN "mark" ELSE "alloc"
    /\ UNCHANGED <<sec, req, already_gc, gc_request, gcret, in_recovery_check,
                   at, failed, losses, abandoned>>

\* Faulty: recovery copies without looking for a finished copy.
MoveAlloc_AlwaysCopy ==
    /\ pc = "alloc"
    /\ alloc_env # 0
    /\ pc' = "claim" /\ job' = [job EXCEPT !.to = alloc_env]
    /\ UNCHANGED <<sec, RestOfRAM>>

\* move_env(): room for the copy; during recovery a finished copy is enough.
MoveAlloc ==
    /\ pc = "alloc"
    /\ alloc_env # 0
    /\ IF in_recovery_check /\ FindEnv(job.key) # {}
       THEN pc' = "delete" /\ UNCHANGED job
       ELSE pc' = "claim" /\ job' = [job EXCEPT !.to = alloc_env]
    /\ UNCHANGED <<sec, RestOfRAM>>

\* move_env() returns EF_ENV_FULL: do_gc() goes on, and will erase the node
\* that was not moved; recovery stops, and is repeated only after a collection.
MoveFails ==
    /\ pc = "alloc"
    /\ alloc_env = 0
    /\ gc_request' = (gc_request \/ AllocAsksGC)
    /\ pc' = IF job.by = "gc" THEN "gcnode" ELSE "recend"
    /\ job' = NoJob
    /\ abandoned' = (abandoned \/ job.by = "gc" \/ ~gc_request')
    /\ UNCHANGED <<sec, req, already_gc, gcret, gcat, in_recovery_check, at,
                   failed, losses>>

\* format_sector(), whether or not every move succeeded: erase ...
GCErase ==
    /\ pc = "gcnode"
    /\ LiveAfter(gcat) = {}
    /\ sec' = [sec EXCEPT ![gcat[1]] = Blank]
    /\ pc' = "format"
    /\ UNCHANGED <<job, RestOfRAM>>

\* ... and write the header.
GCFormat ==
    /\ pc = "format"
    /\ sec' = [sec EXCEPT ![gcat[1]] = Fresh]
    /\ pc' = "gc"
    /\ UNCHANGED <<job, RestOfRAM>>

-----------------------------------------------------------------------------
\* ef_env_set_default(): format every sector, then store the default set.

ef_env_set_default ==
    /\ pc = "idle"
    /\ pc' = "wipe"
    /\ at' = <<1, 0>>
    /\ UNCHANGED <<sec, req, already_gc, job, gc_request, gcret, gcat,
                   in_recovery_check, failed, losses, abandoned>>

WipeErase ==
    /\ pc = "wipe"
    /\ at[1] <= SECTOR_NUM
    /\ sec' = [sec EXCEPT ![at[1]] = Blank]
    /\ pc' = "wipeformat"
    /\ UNCHANGED <<job, RestOfRAM>>

WipeFormat ==
    /\ pc = "wipeformat"
    /\ sec' = [sec EXCEPT ![at[1]] = Fresh]
    /\ at' = <<at[1] + 1, 0>>
    /\ pc' = "wipe"
    /\ UNCHANGED <<req, already_gc, job, gc_request, gcret, gcat,
                   in_recovery_check, failed, losses, abandoned>>

WipeDefault ==
    /\ pc = "wipe"
    /\ at[1] > SECTOR_NUM
    /\ at' = NoNode
    /\ req' = <<Author, Rick>>
    /\ already_gc' = FALSE
    /\ pc' = "new"
    /\ UNCHANGED <<sec, job, gc_request, gcret, gcat, in_recovery_check,
                   failed, losses, abandoned>>

-----------------------------------------------------------------------------
\* ef_load_env(): recovery at boot.

Bad == {s \in Sectors : ~sec[s].ok}

\* check_sec_hdr_cb
CheckHeader ==
    /\ pc = "hdr"
    /\ Bad # {}
    /\ sec' = [sec EXCEPT ![Min(Bad)] = Fresh]
    /\ failed' = failed + 1
    /\ UNCHANGED <<pc, req, already_gc, job, gc_request, gcret, gcat,
                   in_recovery_check, at, losses, abandoned>>

CheckHeadersDone ==
    /\ pc = "hdr"
    /\ Bad = {}
    /\ IF failed = SECTOR_NUM
       THEN pc' = "wipe" /\ at' = <<1, 0>>
       ELSE pc' = "recgc" /\ UNCHANGED at
    /\ failed' = 0
    /\ UNCHANGED <<sec, req, already_gc, job, gc_request, gcret, gcat,
                   in_recovery_check, losses, abandoned>>

Interrupted == {s \in Sectors : s > at[1] /\ sec[s].ok /\ sec[s].dirty = "GC"}

\* check_and_recovery_gc_cb: a collection that the power loss interrupted.
ResumeGC ==
    /\ pc = "recgc"
    /\ IF Interrupted # {}
       THEN /\ at' = <<Min(Interrupted), 0>>
            /\ EnterGC("recgc")
       ELSE /\ at' = NoNode
            /\ pc' = "recenv"
            /\ UNCHANGED <<gc_request, gcret, gcat>>
    /\ UNCHANGED <<sec, req, already_gc, job, in_recovery_check, failed, losses, abandoned>>

\* The nodes after the iterator that check_and_recovery_env_cb acts on: a
\* value that was being replaced, a node that was being written.
Unfinished == {b \in Addrs : /\ at = NoNode \/ Before(at, b)
                             /\ \/ At(b).st = "PRE_DELETE" /\ crc_is_ok(b)
                                \/ At(b).st = "PRE_WRITE" /\ At(b).key # NoVal}

RecoverOld ==
    /\ pc = "recenv"
    /\ Unfinished # {}
    /\ LET a == First(Unfinished)
       IN  /\ At(a).st = "PRE_DELETE"
           /\ at' = a
           /\ job' = MoveJob("rec", a)
    /\ pc' = "alloc"
    /\ UNCHANGED <<sec, req, already_gc, gc_request, gcret, gcat,
                   in_recovery_check, failed, losses, abandoned>>

\* An unfinished node becomes ERR_HDR, and the callback returns true: the
\* iteration ends here.
DropUnfinished ==
    /\ pc = "recenv"
    /\ Unfinished # {}
    /\ LET a == First(Unfinished)
       IN  /\ At(a).st = "PRE_WRITE"
           /\ SetNode(a, [Dead EXCEPT !.st = "ERR_HDR"])
           /\ abandoned' = (abandoned \/ \E b \in Unfinished : At(b).st = "PRE_DELETE")
    /\ pc' = "recend"
    /\ UNCHANGED <<req, already_gc, job, gc_request, gcret, gcat,
                   in_recovery_check, at, failed, losses>>

RecoverNoMore ==
    /\ pc = "recenv"
    /\ Unfinished = {}
    /\ pc' = "recend"
    /\ UNCHANGED <<sec, job, RestOfRAM>>

\* Once more after a collection, if an allocation asked for one.
RecoverEnd ==
    /\ pc = "recend"
    /\ at' = NoNode
    /\ IF gc_request
       THEN EnterGC("recenv") /\ UNCHANGED in_recovery_check
       ELSE pc' = "idle" /\ in_recovery_check' = FALSE /\ UNCHANGED <<gc_request, gcret, gcat>>
    /\ UNCHANGED <<sec, req, already_gc, job, failed, losses, abandoned>>

-----------------------------------------------------------------------------
\* The power fails before the next flash write, and comes back.
PowerLoss ==
    /\ losses < MaxLoss
    /\ losses' = losses + 1
    /\ pc' = "hdr"
    /\ req' = <<NoVal, NoVal>>
    /\ already_gc' = FALSE
    /\ job' = NoJob
    /\ gc_request' = FALSE
    /\ gcret' = "idle"
    /\ gcat' = NoNode
    /\ in_recovery_check' = TRUE
    /\ at' = NoNode
    /\ failed' = 0
    /\ UNCHANGED <<sec, abandoned>>

\* A new unit: a blank chip and the first boot.
Init ==
    /\ sec = [s \in Sectors |-> Blank]
    /\ pc = "hdr"
    /\ req = <<NoVal, NoVal>>
    /\ already_gc = FALSE
    /\ job = NoJob
    /\ gc_request = FALSE
    /\ gcret = "idle"
    /\ gcat = NoNode
    /\ in_recovery_check = TRUE
    /\ at = NoNode
    /\ failed = 0
    /\ losses = 0
    /\ abandoned = FALSE

Boot == CheckHeader \/ CheckHeadersDone \/ ResumeGC \/ RecoverOld
        \/ DropUnfinished \/ RecoverNoMore \/ RecoverEnd

Write == NewEnv \/ NewEnvFails \/ MarkOld \/ MarkOldDirty \/ UpdateSecStatus
         \/ WritePreWrite \/ WriteHeader \/ WriteValue \/ WriteCommit
         \/ DeleteOld \/ DeleteOldDirty \/ Done

Collect == GCSector \/ GCEnd \/ GCMove \/ MoveAlloc \/ MoveFails \/ GCErase
           \/ GCFormat

Wipe == WipeErase \/ WipeFormat \/ WipeDefault

Call == \/ \E k \in Keys \ {Author}, v \in Values \ {Rick} : ef_set_env(k, v)
        \/ ef_env_set_default

Work == Boot \/ Write \/ Collect \/ Wipe

Next == Call \/ Work \/ PowerLoss

Spec == Init /\ [][Next]_vars

\* The operation that the caller waits for goes on as long as there is power.
FairSpec == Spec /\ WF_vars(Work)

-----------------------------------------------------------------------------
\* Properties.

PCs == {"idle", "new", "mark", "markdirty", "claim", "prewrite", "header",
        "body", "commit", "delete", "deldirty", "done", "gc", "gcnode",
        "format", "alloc", "wipe", "wipeformat", "hdr", "recgc", "recenv",
        "recend"}
Returns == {"idle", "new", "recgc", "recenv"}

\* Type correctness: every status is one of ef_env.h, every step continues at
\* a place of ef_env.c.
TypeOK ==
    /\ sec \in [Sectors -> Sector]
    /\ pc \in PCs
    /\ req \in (Keys \cup {NoVal}) \X (Values \cup {NoVal})
    /\ job \in Job
    /\ gcret \in Returns
    /\ gcat \in Nat \X Nat
    /\ at \in Nat \X Nat
    /\ gc_request \in BOOLEAN /\ already_gc \in BOOLEAN
    /\ in_recovery_check \in BOOLEAN /\ abandoned \in BOOLEAN
    /\ failed \in Nat /\ losses \in Nat

\* A node that says it is finished is finished: wherever the power failed, a
\* node with status WRITE or PRE_DELETE has its header and its value, so its
\* CRC holds and a read never returns half a value.
WholeNodes ==
    \A s \in Sectors : \A i \in 1..Len(sec[s].nodes) :
        sec[s].nodes[i].st \in {"WRITE", "PRE_DELETE"} =>
            sec[s].nodes[i].key # NoVal /\ sec[s].nodes[i].val # NoVal

\* What the flash says a key is worth: its finished node, or else the one
\* that a node not yet finished was to replace.
Replaced(k) == {a \in Addrs : crc_is_ok(a) /\ At(a).st = "PRE_DELETE" /\ At(a).key = k}
Stored(k) == CASE FindEnv(k) # {} -> At(First(FindEnv(k))).val
               [] FindEnv(k) = {} /\ Replaced(k) # {} -> At(First(Replaced(k))).val
               [] OTHER -> NoVal
store == [k \in Keys |-> Stored(k)]

\* ef_set_env() is atomic: what the flash says a key is worth changes in one
\* step, the one that finishes its node, to the value asked for.  No
\* power loss, collection, resumed collection or recovery changes it; a wipe
\* only takes values away.  (Until a value was once abandoned: see Readable.)
AtomicSet ==
    [][\/ abandoned'
       \/ store' = store
       \/ /\ pc = "commit" /\ job.by \in {"set", "default"}
          /\ store' = [store EXCEPT ![job.key] = job.val]
       \/ pc = "wipe" /\ \A k \in Keys : store'[k] \in {store[k], NoVal}]_vars

\* Between operations a read sees what the flash says: no key has a second
\* node that a search could find instead, and none was left half replaced.
\* (Again until a value was once abandoned.)
ReadsBack ==
    (pc = "idle" /\ ~abandoned) =>
        \A k \in Keys : Cardinality(FindEnv(k)) <= 1 /\ Replaced(k) = {}

\* A sector holds a node of every key and one torn by each loss of power.
Roomy == Cardinality(Keys) + losses < Cap

\* Between operations there is an empty sector left for the next collection
\* to move into: neither writes nor recoveries use up the spare one.
\* (Here and below: in a roomy store, until a value was abandoned.)
SpareSector == (Roomy /\ ~abandoned /\ pc = "idle") => Empty # {}

\* There is room for every write: a collection can move every node that it
\* will erase, recovery does not give up without asking for a collection, and
\* after the collection new_env() does not answer EF_ENV_FULL.
RoomToWrite ==
    Roomy /\ ~abandoned =>
        /\ pc = "alloc" => alloc_env # 0 \/ (job.by = "rec" /\ AllocAsksGC)
        /\ pc = "new" /\ already_gc => alloc_env # 0

\* Every call returns and every boot ends: the retries of new_env() and of
\* ef_load_env() do not go on for ever.
BootEnds == (pc # "idle") ~> (pc = "idle")

\* docs/zh/design.md:89 promises recovery from a power loss in any operation:
\* between operations, a key whose value is still in the flash can be read.
Readable ==
    pc = "idle" => \A k \in Keys : store[k] # NoVal => FindEnv(k) # {}
=============================================================================
