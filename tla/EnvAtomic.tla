----------------------------- MODULE EnvAtomic -----------------------------
(***************************************************************************)
(* The promises of the key-value store, for any keys, values, sectors,     *)
(* nodes per sector and number of power losses.  First consistency: until  *)
(* a value had to be abandoned, ef_set_env() is atomic and a read sees     *)
(* what was stored.  Then room: in a roomy store a spare sector is always  *)
(* left, and every move and every write after a collection finds room.     *)
(*                                                                         *)
(* Each part is an invariant stated place by place (Consistent, Spacious), *)
(* one lemma per action (Atom_..., Room_...) and the theorems that follow. *)
(***************************************************************************)
EXTENDS EnvProofs, FiniteSetTheorems

\* Nodes that count: finished ones, and those marked as being replaced.
Written == {a \in Addrs : At(a).st = "WRITE"}
Marked  == {a \in Addrs : At(a).st = "PRE_DELETE"}
Live    == Written \cup Marked
Clean(s) == sec[s].dirty = "FALSE"

FillPCs == {"claim", "prewrite", "header", "body", "commit"}
\* A write for p is under way, at one of the places S.
JobOf(p, S) == pc \in S /\ job.by = p

\* A sector without nodes is blank or fresh; only one with a header has nodes.
Shape ==
    \A s \in Sectors :
        /\ ~sec[s].ok => sec[s].store = "EMPTY"
        /\ sec[s].store = "EMPTY" => sec[s] \in {Blank, Fresh}
        /\ Len(sec[s].nodes) <= Cap
        /\ sec[s].store = "USING" => Len(sec[s].nodes) < Cap

\* The sector that a write was given, and how far the node in it has come.
TargetReady ==
    /\ pc \in FillPCs \/ JobOf("set", {"mark", "markdirty"}) =>
          sec[job.to].ok /\ sec[job.to].dirty # "GC" /\ Len(sec[job.to].nodes) <= Cap
    /\ pc = "claim" \/ JobOf("set", {"mark", "markdirty"}) =>
          Len(sec[job.to].nodes) < Cap /\ sec[job.to].store # "FULL"
    /\ pc = "prewrite" =>
          /\ sec[job.to].store # "EMPTY" /\ Len(sec[job.to].nodes) < Cap
          /\ sec[job.to].store = "USING" => Len(sec[job.to].nodes) + 1 < Cap
    /\ pc \in {"header", "body", "commit"} => Target \in Addrs /\ At(Target).st = "PRE_WRITE"
    /\ pc = "commit" => At(Target).key = job.key /\ At(Target).val = job.val
    /\ pc = "body" => At(Target).key = job.key

\* The node that a write replaces: who has one, and what it still is.
OldReady ==
    /\ pc \in {"mark", "markdirty"} => job.by \in {"set", "gc"}
    /\ pc = "alloc" => job.by \in {"gc", "rec"}
    /\ job.by \in {"gc", "rec"} /\ pc \in WritePCs => job.old # NoNode
    /\ pc \in {"mark", "markdirty", "alloc", "delete", "deldirty"} => job.old # NoNode
    /\ job.by = "default" /\ pc \in WritePCs => job.old = NoNode /\ job.key = Author
    /\ pc = "mark" => job.old \in Written
    /\ pc \in {"markdirty", "alloc", "delete"} \cup FillPCs /\ job.old # NoNode =>
          job.old \in Marked
    /\ pc = "deldirty" => job.old \in Addrs
    /\ pc \in {"mark", "markdirty", "alloc", "delete"} \cup FillPCs /\ job.old # NoNode =>
          At(job.old).key = job.key
    /\ pc \in WritePCs \ {"deldirty", "done"} /\ job.by \in {"gc", "rec"} =>
          At(job.old).val = job.val
    /\ JobOf("set", FillPCs \cup {"delete"}) /\ job.old # NoNode => ~Clean(job.old[1])
    /\ pc = "delete" => \E w \in Written : At(w).key = job.key

\* A collection: the sectors behind it are clean, the one it is in is marked
\* GC and has no live node before the current one.
Swept ==
    /\ pc = "gc" => \A t \in Sectors : t <= gcat[1] => Clean(t)
    /\ pc \in {"gcnode", "format"} \/ JobOf("gc", WritePCs) =>
          gcat[1] \in Sectors /\ \A t \in Sectors : t < gcat[1] => Clean(t)
    /\ pc = "gcnode" \/ JobOf("gc", WritePCs) =>
          sec[gcat[1]].dirty = "GC"
    /\ pc = "format" => \A a \in Live : a[1] # gcat[1]
    /\ JobOf("gc", WritePCs) => gcat = job.old
    /\ pc = "gcnode" \/ JobOf("gc", {"deldirty", "done"}) =>
          \A a \in Live : a[1] = gcat[1] => a[2] > gcat[2]
    /\ JobOf("gc", WritePCs) =>
          \A a \in Live : a[1] = gcat[1] => a[2] >= gcat[2]

\* One finished node for a key; none while its successor is being written;
\* nodes that differ from a marked one only where a collection will see it.
Unique ==
    /\ \A a, b \in Written : At(a).key = At(b).key => a = b
    /\ \A a \in Marked, b \in Live :
          At(a).key = At(b).key /\ Clean(a[1]) => At(a).val = At(b).val
    /\ pc \in FillPCs \cup {"markdirty"} \/ (pc = "alloc" /\ ~in_recovery_check) =>
          \A a \in Written : At(a).key # job.key

\* Where marked nodes may be, place by place.
Recovered ==
    /\ ~in_recovery_check =>
          \A a \in Marked : a = job.old /\ pc \in FillPCs \cup {"markdirty", "alloc", "delete"}
    /\ pc = "recenv" => \A a \in Marked : at = NoNode \/ Before(at, a)
    /\ JobOf("rec", WritePCs) =>
          at = job.old /\ \A a \in Marked : a = at \/ Before(at, a)
    /\ JobOf("rec", {"deldirty", "done"}) => \A a \in Marked : Before(at, a)
    /\ gcret = "recenv" => at = NoNode
    /\ pc = "recend" /\ ~gc_request => Marked = {}
    /\ pc \in {"wipe", "wipeformat"} => Marked = {} /\ \A a \in Live : a[1] >= at[1]
    /\ pc \in {"wipe", "wipeformat"} => at[1] > 0
    /\ pc = "wipeformat" => at[1] \in Sectors /\ \A a \in Live : a[1] > at[1]
    /\ (pc = "new" \/ gcret = "new") /\ req[1] = Author => Live = {}
    /\ JobOf("default", FillPCs) => Live = {}

\* When recovery is on.
Phase ==
    /\ in_recovery_check => /\ pc # "idle" /\ ~JobOf("set", WritePCs)
                            /\ InGC => gcret # "idle"
                            /\ pc = "new" \/ gcret = "new" => req[1] = Author
    /\ ~in_recovery_check => /\ pc \notin {"hdr", "recgc", "recenv", "recend"}
                             /\ ~JobOf("rec", WritePCs)
                             /\ gcret \in {"idle", "new"}
    /\ pc = "hdr" => failed <= Cardinality({s \in Sectors : sec[s] = Fresh})

Consistent == Shape /\ TargetReady /\ OldReady /\ Swept /\ Unique /\ Recovered /\ Phase
JInv == ~abandoned => Consistent


-----------------------------------------------------------------------------
\* The first address of a set.

LEMMA MinLeast ==
    ASSUME NEW S \in SUBSET Nat, S # {}
    PROVE  Min(S) \in S /\ \A y \in S : Min(S) <= y
<1> DEFINE Lt == {ss \in Nat \X Nat : ss[1] < ss[2]}
<1>1. IsWellFoundedOn(Lt, Nat)
  BY NatLessThanWellFounded DEF OpToRel
<1>2. PICK x \in S : \A y \in S : ~(<<y, x>> \in Lt)
  BY <1>1, WFMin
<1>3. ASSUME NEW y \in S PROVE x <= y
  <2>1. x \in Nat /\ y \in Nat /\ <<y, x>> \in Nat \X Nat
    OBVIOUS
  <2>2. ~(y < x)
    BY <1>2, <2>1
  <2> QED BY <2>1, <2>2
<1> QED BY <1>2, <1>3 DEF Min

LEMMA FirstLeast ==
    ASSUME NEW S \in SUBSET (Nat \X Nat), S # {}
    PROVE  First(S) \in S /\ \A b \in S : First(S) = b \/ Before(First(S), b)
<1> DEFINE A == {a[1] : a \in S}
           s == Min(A)
           B == {a[2] : a \in {b \in S : b[1] = s}}
<1>1. First(S) \in S
  BY FirstIn
<1>2. A \in SUBSET Nat /\ A # {}
  OBVIOUS
<1>3. s \in A /\ \A y \in A : s <= y
  BY <1>2, MinLeast
<1>4. B \in SUBSET Nat /\ B # {}
  BY <1>3
<1>5. Min(B) \in B /\ \A y \in B : Min(B) <= y
  BY <1>4, MinLeast
<1>6. First(S) = <<s, Min(B)>>
  BY DEF First
<1> SUFFICES ASSUME NEW b \in S PROVE First(S) = b \/ Before(First(S), b)
  BY <1>1
<1>7. s <= b[1] /\ (b[1] = s => Min(B) <= b[2])
  BY <1>3, <1>5
<1>8. b[1] \in Nat /\ b[2] \in Nat /\ b = <<b[1], b[2]>>
  OBVIOUS
<1> HIDE DEF A, s, B
<1>9. s \in Nat /\ Min(B) \in Nat
  BY <1>2, <1>3, <1>4, <1>5
<1> QED BY <1>6, <1>7, <1>8, <1>9 DEF Before

LEMMA FirstIs ==
    ASSUME NEW S \in SUBSET (Nat \X Nat), NEW a \in S,
           \A b \in S : a = b \/ Before(a, b)
    PROVE  First(S) = a
<1>1. First(S) \in S /\ (First(S) = a \/ Before(First(S), a))
  BY FirstLeast
<1>2. a = First(S) \/ Before(a, First(S))
  BY <1>1
<1>3. /\ a[1] \in Nat /\ a[2] \in Nat
      /\ First(S)[1] \in Nat /\ First(S)[2] \in Nat
  BY <1>1
<1> QED BY <1>1, <1>2, <1>3 DEF Before

-----------------------------------------------------------------------------
\* What the flash holds after each kind of write.

LEMMA AddrNat == \A a \in Addrs : a \in Nat \X Nat /\ a[1] \in Sectors /\ a[2] \in Nat /\ a[1] \in Nat
  BY EnvAssumption DEF Addrs, Sectors

LEMMA AddrNode == ASSUME IInv, NEW a \in Addrs PROVE At(a) \in Node
<1>1. InRange(a) /\ SecType
  BY AddrsIn, Types DEF IInv
<1> QED BY <1>1, NodeAt

LEMMA LiveIn ==
    /\ Written \subseteq Addrs /\ Marked \subseteq Addrs /\ Live \subseteq Addrs
    /\ Written \cap Marked = {}
  BY DEF Written, Marked, Live

LEMMA LiveWhole ==
    ASSUME IInv, NEW a \in Live
    PROVE  At(a).key \in Keys /\ At(a).val \in Values /\ crc_is_ok(a)
<1>1. a \in Addrs /\ InRange(a) /\ At(a).st \in {"WRITE", "PRE_DELETE"}
  BY AddrsIn DEF Live, Written, Marked
<1>2. At(a).key # NoVal /\ At(a).val # NoVal
  BY <1>1 DEF IInv, WholeNodes, InRange, At
<1> QED BY <1>1, <1>2, AddrNode DEF Node, crc_is_ok

\* Statuses, headers and lengths of all sectors stay as they are.
SameHeaders ==
    \A s \in Sectors : /\ sec'[s].ok = sec[s].ok /\ sec'[s].store = sec[s].store
                       /\ sec'[s].dirty = sec[s].dirty
                       /\ Len(sec'[s].nodes) = Len(sec[s].nodes)

SameNodes == Addrs' = Addrs /\ \A a \in Addrs : At(a)' = At(a)

\* One node is overwritten.
LEMMA NodeStep ==
    ASSUME IInv, NEW x \in Addrs, NEW n \in Node, SetNode(x, n)
    PROVE  /\ Addrs' = Addrs
           /\ \A a \in Addrs : At(a)' = IF a = x THEN n ELSE At(a)
           /\ SameHeaders
<1>1. SecType /\ InRange(x)
  BY Types, AddrsIn DEF IInv
<1>2. \A s \in Sectors :
         /\ Len(sec'[s].nodes) = Len(sec[s].nodes)
         /\ \A i \in 1..Len(sec[s].nodes) :
               sec'[s].nodes[i] = IF s = x[1] /\ i = x[2] THEN n ELSE sec[s].nodes[i]
  BY <1>1, OverwriteNode
<1>3. sec' = [sec EXCEPT ![x[1]] =
                [sec[x[1]] EXCEPT !.nodes = [sec[x[1]].nodes EXCEPT ![x[2]] = n]]]
  BY <1>1 DEF SetNode, InRange
<1>4. \A s \in Sectors : /\ sec'[s].ok = sec[s].ok /\ sec'[s].store = sec[s].store
                         /\ sec'[s].dirty = sec[s].dirty
  BY <1>1, <1>3 DEF SecType, Sector
<1>5. Addrs' = Addrs
  <2>1. \A a \in Sectors \X (1..Cap) : a[1] \in Sectors
    OBVIOUS
  <2> QED BY <1>2, <1>4, <2>1 DEF Addrs
<1>6. ASSUME NEW a \in Addrs PROVE At(a)' = IF a = x THEN n ELSE At(a)
  <2>1. InRange(a) /\ a \in Nat \X Nat /\ x \in Nat \X Nat
    BY AddrsIn
  <2>2. (a[1] = x[1] /\ a[2] = x[2]) <=> a = x
    BY <2>1
  <2> QED BY <1>2, <2>1, <2>2 DEF At, InRange
<1> QED BY <1>2, <1>4, <1>5, <1>6 DEF SameHeaders

\* One node is added.
LEMMA AppendStep ==
    ASSUME IInv, NEW s \in Sectors, NEW n \in Node, NEW y, y = <<s, Len(sec[s].nodes) + 1>>,
           sec[s].store # "EMPTY", Len(sec[s].nodes) < Cap,
           sec' = [sec EXCEPT ![s].nodes = Append(@, n)]
    PROVE  /\ Addrs' = Addrs \cup {y} /\ y \notin Addrs
           /\ \A a \in Addrs : At(a)' = At(a)
           /\ At(y)' = n
           /\ \A t \in Sectors : /\ sec'[t].ok = sec[t].ok /\ sec'[t].store = sec[t].store
                                 /\ sec'[t].dirty = sec[t].dirty
                                 /\ t # s => sec'[t] = sec[t]
           /\ Len(sec'[s].nodes) = Len(sec[s].nodes) + 1
<1> DEFINE l == Len(sec[s].nodes)
<1>1. SecType
  BY Types DEF IInv
<1>2. sec[s].nodes \in Seq(Node) /\ l \in Nat
  BY <1>1 DEF SecType, Sector
<1>3. sec' = [sec EXCEPT ![s] = [sec[s] EXCEPT !.nodes = Append(sec[s].nodes, n)]]
  OBVIOUS
<1>4. /\ sec'[s].nodes = Append(sec[s].nodes, n)
      /\ \A t \in Sectors : /\ sec'[t].ok = sec[t].ok /\ sec'[t].store = sec[t].store
                            /\ sec'[t].dirty = sec[t].dirty
                            /\ t # s => sec'[t] = sec[t]
  BY <1>1, <1>3 DEF SecType, Sector
<1>5. /\ Len(sec'[s].nodes) = l + 1
      /\ sec'[s].nodes[l + 1] = n
      /\ \A i \in 1..l : sec'[s].nodes[i] = sec[s].nodes[i]
  BY <1>2, <1>4
<1>6. y \notin Addrs
  BY <1>2 DEF Addrs
<1>7. Addrs' = Addrs \cup {y}
  <2>1. ASSUME NEW a \in Sectors \X (1..Cap), a[1] = s
        PROVE  a[2] <= l + 1 <=> (a[2] <= l \/ a = y)
    BY <1>2, <2>1, EnvAssumption
  <2>2. y \in Sectors \X (1..Cap)
    BY <1>2, EnvAssumption
  <2>3. \A a \in Sectors \X (1..Cap) : a[1] \in Sectors
    OBVIOUS
  <2> HIDE DEF l
  <2>4. ASSUME NEW a \in Sectors \X (1..Cap)
        PROVE  a \in Addrs' <=> a \in Addrs \/ a = y
    <3>1. CASE a[1] = s
      BY <1>4, <1>5, <2>1, <2>3, <3>1 DEF Addrs, l
    <3>2. CASE a[1] # s
      BY <1>4, <2>3, <3>2 DEF Addrs
    <3> QED BY <3>1, <3>2
  <2> QED BY <2>2, <2>4 DEF Addrs
<1>8. ASSUME NEW a \in Addrs PROVE At(a)' = At(a)
  <2>1. InRange(a)
    BY AddrsIn
  <2> QED BY <1>4, <1>5, <2>1 DEF At, InRange
<1>9. At(y)' = n
  BY <1>5 DEF At
<1> QED BY <1>4, <1>5, <1>6, <1>7, <1>8, <1>9

\* A sector gets new statuses and keeps its nodes.
LEMMA HeaderStep ==
    ASSUME IInv, Shape, NEW s \in Sectors, NEW r,
           r.nodes = sec[s].nodes, r.store = "EMPTY" => sec[s].store = "EMPTY",
           sec' = [sec EXCEPT ![s] = r]
    PROVE  /\ SameNodes
           /\ sec'[s] = r
           /\ \A t \in Sectors : t # s => sec'[t] = sec[t]
<1>1. sec'[s] = r /\ \A t \in Sectors : t # s => sec'[t] = sec[t]
  BY Types DEF IInv, SecType
<1>2. \A t \in Sectors : sec'[t].nodes = sec[t].nodes
  BY <1>1
<1>3. sec[s].store = "EMPTY" => sec[s].nodes = << >>
  BY BlankFresh DEF Shape
<1>4. ASSUME NEW a \in Sectors \X (1..Cap)
      PROVE  a \in Addrs' <=> a \in Addrs
  <2>1. a[1] \in Sectors /\ a[2] \in Nat /\ a[2] > 0
    BY EnvAssumption
  <2>2. CASE a[1] # s
    BY <1>1, <2>1, <2>2 DEF Addrs
  <2>3. CASE a[1] = s /\ sec[s].store = "EMPTY"
    <3>1. Len(sec[s].nodes) = 0 /\ Len(sec'[s].nodes) = 0
      BY <1>2, <1>3, <2>3
    <3> QED BY <2>1, <2>3, <3>1 DEF Addrs
  <2>4. CASE a[1] = s /\ sec[s].store # "EMPTY"
    BY <1>1, <1>2, <2>1, <2>4 DEF Addrs
  <2> QED BY <2>2, <2>3, <2>4
<1>5. Addrs' = Addrs
  BY <1>4 DEF Addrs
<1>6. \A a \in Addrs : At(a)' = At(a)
  BY <1>2, AddrNat DEF At
<1> QED BY <1>1, <1>5, <1>6 DEF SameNodes

\* A sector is erased, or erased and given a header.
LEMMA FormatStep ==
    ASSUME IInv, NEW s \in Sectors, NEW r \in {Blank, Fresh},
           sec' = [sec EXCEPT ![s] = r]
    PROVE  /\ Addrs' = {a \in Addrs : a[1] # s}
           /\ \A a \in Addrs' : At(a)' = At(a)
           /\ sec'[s] = r
           /\ \A t \in Sectors : t # s => sec'[t] = sec[t]
<1>1. sec'[s] = r /\ \A t \in Sectors : t # s => sec'[t] = sec[t]
  BY Types DEF IInv, SecType
<1>2. r.store = "EMPTY"
  BY DEF Blank, Fresh
<1>3. Addrs' = {a \in Addrs : a[1] # s}
  <2>1. \A a \in Sectors \X (1..Cap) : a[1] \in Sectors
    OBVIOUS
  <2> QED BY <1>1, <1>2, <2>1 DEF Addrs
<1>4. \A a \in Addrs' : At(a)' = At(a)
  BY <1>1, <1>3, AddrNat DEF At
<1> QED BY <1>1, <1>3, <1>4

-----------------------------------------------------------------------------
\* What a key is worth, in terms of the live nodes.

OneWritten == \A a, b \in Written : At(a).key = At(b).key => a = b

\* f is the first marked node of key k.
FirstOf(f, k) ==
    At(f).key = k /\ \A b \in Marked : At(b).key = k => f = b \/ Before(f, b)

Worth ==
    \A k \in Keys :
        /\ \A a \in Written : At(a).key = k => store[k] = At(a).val
        /\ (\A a \in Written : At(a).key # k) =>
              /\ \A f \in Marked : FirstOf(f, k) => store[k] = At(f).val
              /\ (\A a \in Marked : At(a).key # k) => store[k] = NoVal
        /\ (\E a \in Marked : At(a).key = k) => \E f \in Marked : FirstOf(f, k)

LEMMA Found ==
    ASSUME IInv, NEW k
    PROVE  /\ FindEnv(k) = {a \in Written : At(a).key = k}
           /\ Replaced(k) = {a \in Marked : At(a).key = k}
<1>1. \A a \in Live : crc_is_ok(a)
  BY LiveWhole
<1> QED BY <1>1 DEF FindEnv, Replaced, Live, Written, Marked

LEMMA WorthHolds == IInv /\ OneWritten => Worth
<1> SUFFICES ASSUME IInv, OneWritten, NEW k \in Keys
             PROVE  /\ \A a \in Written : At(a).key = k => store[k] = At(a).val
                    /\ (\A a \in Written : At(a).key # k) =>
                          /\ \A f \in Marked : FirstOf(f, k) => store[k] = At(f).val
                          /\ (\A a \in Marked : At(a).key # k) => store[k] = NoVal
                    /\ (\E a \in Marked : At(a).key = k) => \E f \in Marked : FirstOf(f, k)
  BY DEF Worth
<1> DEFINE F == FindEnv(k)
           R == Replaced(k)
<1>1. F = {a \in Written : At(a).key = k} /\ R = {a \in Marked : At(a).key = k}
  BY Found
<1>2. F \in SUBSET (Nat \X Nat) /\ R \in SUBSET (Nat \X Nat)
  BY <1>1, AddrsIn, LiveIn
<1>3. store[k] = Stored(k)
  BY DEF store
<1>4. /\ F # {} => Stored(k) = At(First(F)).val
      /\ F = {} /\ R # {} => Stored(k) = At(First(R)).val
      /\ F = {} /\ R = {} => Stored(k) = NoVal
  BY DEF Stored
<1> HIDE DEF F, R
<1>5. ASSUME NEW a \in Written, At(a).key = k PROVE store[k] = At(a).val
  <2>1. a \in F /\ \A b \in F : a = b \/ Before(a, b)
    BY <1>1, <1>5 DEF OneWritten
  <2>2. First(F) = a
    BY <1>2, <2>1, FirstIs
  <2> QED BY <1>3, <1>4, <2>1, <2>2
<1>6. ASSUME \A a \in Written : At(a).key # k
      PROVE  /\ \A f \in Marked : FirstOf(f, k) => store[k] = At(f).val
             /\ (\A a \in Marked : At(a).key # k) => store[k] = NoVal
  <2>1. F = {}
    BY <1>1, <1>6
  <2>2. ASSUME NEW f \in Marked, FirstOf(f, k) PROVE store[k] = At(f).val
    <3>1. f \in R /\ \A b \in R : f = b \/ Before(f, b)
      BY <1>1, <2>2 DEF FirstOf
    <3>2. First(R) = f
      BY <1>2, <3>1, FirstIs
    <3> QED BY <1>3, <1>4, <2>1, <3>1, <3>2
  <2>3. (\A a \in Marked : At(a).key # k) => R = {}
    BY <1>1
  <2> QED BY <1>3, <1>4, <2>1, <2>2, <2>3
<1>7. ASSUME NEW a \in Marked, At(a).key = k PROVE \E f \in Marked : FirstOf(f, k)
  <2>1. R # {}
    BY <1>1, <1>7
  <2>2. First(R) \in R /\ \A b \in R : First(R) = b \/ Before(First(R), b)
    BY <1>2, <2>1, FirstLeast
  <2>3. First(R) \in Marked /\ At(First(R)).key = k
    BY <1>1, <2>2
  <2> QED BY <1>1, <2>2, <2>3 DEF FirstOf
<1> QED BY <1>5, <1>6, <1>7

LEMMA WorthNext == IInv' /\ OneWritten' => Worth'
  BY WorthHolds, PTL

LEMMA StoreFun ==
    ASSUME NEW v, \A k \in Keys : store'[k] = v[k]
    PROVE  /\ v = [k \in Keys |-> v[k]] => store' = v
           /\ \A j, x : (v = [store EXCEPT ![j] = x]) => store' = v
           /\ (v = store) => store' = v
  BY DEF store

-----------------------------------------------------------------------------
\* The live nodes after each kind of write.

LEMMA NodeLive ==
    ASSUME NEW x \in Addrs, NEW n, Addrs' = Addrs,
           \A a \in Addrs : At(a)' = IF a = x THEN n ELSE At(a)
    PROVE  /\ Written' = IF n.st = "WRITE" THEN Written \cup {x} ELSE Written \ {x}
           /\ Marked' = IF n.st = "PRE_DELETE" THEN Marked \cup {x} ELSE Marked \ {x}
           /\ Live' = IF n.st \in {"WRITE", "PRE_DELETE"} THEN Live \cup {x} ELSE Live \ {x}
  BY DEF Written, Marked, Live

SameLive ==
    /\ Written' = Written /\ Marked' = Marked /\ Live' = Live
    /\ \A a \in Live : At(a)' = At(a)

LEMMA SameNodesLive == SameNodes => SameLive
  BY DEF SameNodes, SameLive, Written, Marked, Live

LEMMA SameSec ==
    ASSUME sec' = sec
    PROVE  /\ SameNodes /\ SameLive
           /\ \A t : Clean(t)' = Clean(t)
           /\ Shape => Shape'
           /\ Empty' = Empty
<1>1. SameNodes
  BY DEF SameNodes, Addrs, At
<1> QED BY <1>1, SameNodesLive DEF Clean, Shape, Empty

LEMMA AppendLive ==
    ASSUME NEW y, NEW n, n.st = "PRE_WRITE", y \notin Addrs, Addrs' = Addrs \cup {y},
           \A a \in Addrs : At(a)' = At(a), At(y)' = n
    PROVE  SameLive
  BY DEF SameLive, Written, Marked, Live

LEMMA FormatLive ==
    ASSUME NEW s, Addrs' = {a \in Addrs : a[1] # s}, \A a \in Addrs' : At(a)' = At(a)
    PROVE  /\ Written' = {a \in Written : a[1] # s}
           /\ Marked' = {a \in Marked : a[1] # s}
           /\ Live' = {a \in Live : a[1] # s}
           /\ \A a \in Live' : At(a)' = At(a)
  BY DEF Written, Marked, Live

\* What a key is worth depends on the live nodes alone.
LEMMA SameStore ==
    ASSUME SameLive, IInv, IInv', OneWritten
    PROVE  OneWritten' /\ store' = store
<1>1. OneWritten'
  BY LiveIn DEF OneWritten, SameLive, Live
<1>2. Worth /\ Worth'
  BY <1>1, WorthHolds, WorthNext
<1>3. ASSUME NEW k \in Keys PROVE store'[k] = store[k]
  <2>1. CASE \E a \in Written : At(a).key = k
    BY <1>2, <2>1 DEF Worth, SameLive, Live
  <2>2. CASE (\A a \in Written : At(a).key # k) /\ \E a \in Marked : At(a).key = k
    <3>1. PICK f \in Marked : FirstOf(f, k)
      BY <1>2, <2>2 DEF Worth
    <3>2. FirstOf(f, k)' /\ f \in Marked' /\ At(f)' = At(f)
      BY <3>1 DEF FirstOf, SameLive, Live
    <3>3. \A a \in Written' : At(a)'.key # k
      BY <2>2 DEF SameLive, Live
    <3> QED BY <1>2, <2>2, <3>1, <3>2, <3>3 DEF Worth
  <2>3. CASE \A a \in Live : At(a).key # k
    BY <1>2, <2>3 DEF Worth, SameLive, Live
  <2> QED BY <2>1, <2>2, <2>3 DEF Live
<1> QED BY <1>1, <1>3, StoreFun

-----------------------------------------------------------------------------
\* Every step keeps the store consistent: first the steps that only decide.

USE DEF FillPCs, JobOf, WritePCs, InGC

LEMMA AllocReady ==
    ASSUME IInv, Shape, alloc_env # 0
    PROVE  /\ alloc_env \in Sectors
           /\ sec[alloc_env].ok /\ sec[alloc_env].dirty # "GC"
           /\ Len(sec[alloc_env].nodes) < Cap /\ sec[alloc_env].store # "FULL"
<1>1. UsingWithRoom # {} => Min(UsingWithRoom) \in UsingWithRoom
  BY MinIn, SectorNat DEF UsingWithRoom
<1>2. Empty # {} => Min(Empty) \in Empty
  BY MinIn, SectorNat DEF Empty
<1>3. ASSUME NEW s \in UsingWithRoom
      PROVE  s \in Sectors /\ sec[s].ok /\ sec[s].dirty # "GC" /\ Len(sec[s].nodes) < Cap
             /\ sec[s].store # "FULL"
  BY DEF UsingWithRoom, Usable
<1>4. ASSUME NEW s \in Empty
      PROVE  s \in Sectors /\ sec[s].ok /\ sec[s].dirty # "GC" /\ Len(sec[s].nodes) < Cap
             /\ sec[s].store # "FULL"
  BY EnvAssumption DEF Empty, Shape, Blank, Fresh
<1> QED BY <1>1, <1>2, <1>3, <1>4 DEF alloc_env

LEMMA NoNodeFirst == NoNode[1] = 0 /\ NoNode[2] = 0
  BY DEF NoNode

LEMMA NoLossless == \A a \in Addrs : a # NoNode
  BY AddrNat, EnvAssumption DEF NoNode, Sectors

LEMMA Atom_set ==
    ASSUME IInv, Consistent, NEW k \in Keys \ {Author}, NEW v, ef_set_env(k, v)
    PROVE  Consistent'
<1>1. SameLive /\ Shape' /\ (\A t : Clean(t)' = Clean(t)) /\ gcret = "idle"
  BY SameSec DEF Consistent, ef_set_env, IInv, Control
<1>2. TargetReady' /\ OldReady'
  BY DEF TargetReady, OldReady, ef_set_env
<1>3. Swept'
  BY DEF Swept, ef_set_env
<1>4. Unique'
  BY <1>1 DEF Consistent, Unique, SameLive, Live, ef_set_env
<1>5. Recovered' /\ Phase'
  BY <1>1 DEF Consistent, Recovered, Phase, SameLive, ef_set_env
<1> QED BY <1>1, <1>2, <1>3, <1>4, <1>5 DEF Consistent

LEMMA Atom_default ==
    ASSUME IInv, Consistent, ef_env_set_default
    PROVE  Consistent'
<1>1. SameLive /\ Shape' /\ (\A t : Clean(t)' = Clean(t)) /\ gcret = "idle"
  BY SameSec DEF Consistent, ef_env_set_default, IInv, Control
<1>2. TargetReady' /\ OldReady'
  BY DEF TargetReady, OldReady, ef_env_set_default
<1>3. Swept'
  BY DEF Swept, ef_env_set_default
<1>4. Unique'
  BY <1>1 DEF Consistent, Unique, SameLive, Live, ef_env_set_default
<1>5. \A a \in Live : a[1] >= 1
  BY LiveIn, AddrNat, EnvAssumption DEF Sectors
<1>6. Recovered' /\ Phase'
  BY <1>1, <1>5 DEF Consistent, Recovered, Phase, SameLive, ef_env_set_default
<1> QED BY <1>1, <1>2, <1>3, <1>4, <1>6 DEF Consistent

LEMMA Atom_NewEnv ==
    ASSUME IInv, Consistent, NewEnv
    PROVE  Consistent'
<1>1. /\ SameLive /\ Shape' /\ (\A t : Clean(t)' = Clean(t)) /\ gcret = "idle"
      /\ sec' = sec /\ pc = "new"
      /\ UNCHANGED <<gc_request, gcret, gcat, in_recovery_check, at, req, failed>>
  BY SameSec DEF Consistent, NewEnv, IInv, Control
<1>2. /\ alloc_env \in Sectors
      /\ sec[alloc_env].ok /\ sec[alloc_env].dirty # "GC"
      /\ Len(sec[alloc_env].nodes) < Cap /\ sec[alloc_env].store # "FULL"
      /\ Len(sec[alloc_env].nodes) <= Cap
  BY AllocReady, Types, EnvAssumption DEF NewEnv, Consistent, IInv, SecType
<1>3. FindEnv(req[1]) = {a \in Written : At(a).key = req[1]}
  BY Found
<1>4. \/ /\ req[1] = Author /\ job' = NewJob("default", NoNode) /\ pc' = "claim"
      \/ /\ req[1] # Author /\ FindEnv(req[1]) = {}
         /\ job' = NewJob("set", NoNode) /\ pc' = "claim"
      \/ /\ req[1] # Author /\ pc' = "mark"
         /\ \E a \in FindEnv(req[1]) : job' = NewJob("set", a)
  BY DEF NewEnv
<1>5. /\ job'.by \in {"set", "default"} /\ job'.key = req[1] /\ job'.to = alloc_env
      /\ pc' \in {"claim", "mark"}
      /\ job'.by = "default" => req[1] = Author /\ job'.old = NoNode /\ pc' = "claim"
      /\ job'.by = "set" => req[1] # Author
      /\ pc' = "mark" => job'.old \in Written /\ At(job'.old).key = req[1]
      /\ pc' = "claim" => job'.old = NoNode
      /\ job'.by = "set" /\ pc' = "claim" => \A a \in Written : At(a).key # req[1]
  BY <1>3, <1>4 DEF NewJob
<1>6. (req[1] = Author => Live = {}) /\ (req[1] # Author => ~in_recovery_check)
      /\ (~in_recovery_check => Marked = {})
  BY <1>1 DEF Consistent, Recovered, Phase
<1>7. TargetReady'
  BY <1>1, <1>2, <1>5 DEF TargetReady
<1>8. OldReady'
  <2>1. pc' = "mark" => job'.old # NoNode
    BY <1>5, NoLossless, LiveIn
  <2>2. pc' = "mark" => At(job.old)'.key = job'.key
    BY <1>1, <1>5 DEF At
  <2>3. pc' = "mark" => job'.old \in Written'
    BY <1>1, <1>5 DEF SameLive
  <2> QED BY <1>5, <2>1, <2>2, <2>3 DEF OldReady
<1>9. Swept'
  BY <1>5 DEF Swept
<1>10. Unique'
  BY <1>1, <1>5, <1>6 DEF Consistent, Unique, SameLive, Live
<1>11. Recovered'
  BY <1>1, <1>5, <1>6 DEF Recovered, SameLive
<1>12. Phase'
  BY <1>1, <1>5, <1>6 DEF Consistent, Phase
<1> QED BY <1>1, <1>7, <1>8, <1>9, <1>10, <1>11, <1>12 DEF Consistent

LEMMA Entering ==
    ASSUME IInv, NEW r \in Returns, EnterGC(r), gcret = "idle"
    PROVE  /\ pc' \in {"gc", r}
           /\ pc' = "gc" => gcat'[1] = 0 /\ gcret' = r
           /\ pc' = r => gcret' = "idle"
  BY NoNodeFirst DEF EnterGC, Returns

LEMMA Atom_NewEnvFails ==
    ASSUME IInv, Consistent, NewEnvFails
    PROVE  Consistent'
<1>1. /\ SameLive /\ Shape' /\ (\A t : Clean(t)' = Clean(t)) /\ gcret = "idle"
      /\ pc = "new" /\ UNCHANGED <<job, in_recovery_check, at, failed>>
  BY SameSec DEF Consistent, NewEnvFails, IInv, Control
<1>2. \/ pc' = "gc" /\ gcret' = "new" /\ req' = req /\ gcat'[1] = 0
      \/ pc' = "new" /\ gcret' = "idle" /\ req' = req
      \/ /\ pc' = (IF in_recovery_check THEN "recgc" ELSE "idle")
         /\ req'[1] = NoVal /\ gcret' = "idle"
  <2>1. EnterGC("new") => /\ pc' \in {"gc", "new"}
                          /\ pc' = "gc" => gcat'[1] = 0 /\ gcret' = "new"
                          /\ pc' = "new" => gcret' = "idle"
    BY <1>1, Entering DEF Returns
  <2> QED BY <1>1, <2>1 DEF NewEnvFails
<1>3. (req[1] = Author => Live = {}) /\ (req[1] # Author => ~in_recovery_check)
      /\ (~in_recovery_check => Marked = {})
  BY <1>1 DEF Consistent, Recovered, Phase
<1>4. TargetReady' /\ OldReady'
  BY <1>2 DEF TargetReady, OldReady
<1>5. Swept'
  BY <1>2, SectorNat, EnvAssumption DEF Swept, Sectors
<1>6. Unique'
  BY <1>1, <1>2 DEF Consistent, Unique, SameLive, Live
<1>7. Recovered'
  BY <1>1, <1>2, <1>3, KeyVal DEF Recovered, SameLive
<1>8. Phase'
  BY <1>1, <1>2, <1>3 DEF Consistent, Phase
<1> QED BY <1>1, <1>4, <1>5, <1>6, <1>7, <1>8 DEF Consistent

LEMMA Atom_Done ==
    ASSUME IInv, Consistent, Done
    PROVE  Consistent'
<1>1. /\ SameLive /\ Shape' /\ (\A t : Clean(t)' = Clean(t))
      /\ (job.by # "gc" => gcret = "idle")
      /\ pc = "done" /\ UNCHANGED <<in_recovery_check, at, failed>> /\ job'.by = "none"
      /\ job.by \in {"gc", "rec", "default", "set"} /\ req'[1] \in {NoVal, req[1]}
  <2>1. sec' = sec /\ pc = "done" /\ UNCHANGED <<in_recovery_check, at, failed>> /\ job' = NoJob
        /\ req' \in {<<NoVal, NoVal>>, req}
    BY DEF Done
  <2>2. job.by \in {"gc", "rec", "default", "set"} /\ (job.by # "gc" => gcret = "idle")
    BY <2>1 DEF IInv, Control, Stage, TypeOK, Job
  <2> QED BY <2>1, <2>2, SameSec DEF Consistent, NoJob
<1>2. \/ job.by = "gc" /\ pc' = "gcnode" /\ UNCHANGED <<gcat, gcret, req>>
      \/ job.by = "rec" /\ pc' = "recenv" /\ gcret' = "idle"
      \/ /\ job.by = "default" /\ pc' = (IF in_recovery_check THEN "recgc" ELSE "idle")
         /\ gcret' = "idle"
      \/ job.by = "set" /\ pc' = "idle" /\ gcret' = "idle"
      \/ job.by = "set" /\ pc' = "gc" /\ gcret' = "idle" /\ gcat'[1] = 0
  <2>1. CASE job.by = "set" /\ gc_request
    <3>1. EnterGC("idle") /\ gcret = "idle"
      BY <1>1, <2>1 DEF Done
    <3> QED BY <2>1, <3>1, Entering DEF Returns
  <2> QED BY <1>1, <2>1 DEF Done
<1>3. /\ ~in_recovery_check => Marked = {} /\ job.by # "rec"
      /\ in_recovery_check => job.by # "set"
      /\ ~in_recovery_check => gcret \in {"idle", "new"}
  BY <1>1 DEF Consistent, Recovered, Phase
<1>4. TargetReady' /\ OldReady'
  BY <1>1, <1>2 DEF TargetReady, OldReady
<1>5. Swept'
  <2>1. CASE pc' = "gcnode"
    BY <1>1, <1>2, <2>1 DEF Consistent, Swept, SameLive, Clean, Done
  <2>2. CASE pc' # "gcnode"
    BY <1>2, <2>2, EnvAssumption DEF Swept, Sectors
  <2> QED BY <2>1, <2>2
<1>6. Unique'
  BY <1>1, <1>2 DEF Consistent, Unique, SameLive, Live
<1>7. Recovered'
  BY <1>1, <1>2, <1>3, KeyVal DEF Consistent, Recovered, SameLive
<1>8. Phase'
  BY <1>1, <1>2, <1>3, KeyVal DEF Consistent, Phase
<1> QED BY <1>1, <1>4, <1>5, <1>6, <1>7, <1>8 DEF Consistent

LEMMA Atom_GCEnd ==
    ASSUME IInv, Consistent, GCEnd
    PROVE  Consistent'
<1>1. /\ SameLive /\ Shape' /\ (\A t : Clean(t)' = Clean(t))
      /\ pc = "gc" /\ UNCHANGED <<job, req, in_recovery_check, at, failed>>
      /\ pc' = gcret /\ gcret' = "idle" /\ gcret \in {"idle", "new", "recgc", "recenv"}
  BY SameSec DEF Consistent, GCEnd, IInv, TypeOK, Returns
<1>2. TargetReady' /\ OldReady'
  BY <1>1 DEF TargetReady, OldReady
<1>3. Swept'
  BY <1>1 DEF Swept
<1>4. Unique'
  BY <1>1 DEF Consistent, Unique, SameLive, Live
<1>5. Recovered'
  BY <1>1 DEF Consistent, Recovered, SameLive
<1>6. Phase'
  BY <1>1 DEF Consistent, Phase
<1> QED BY <1>1, <1>2, <1>3, <1>4, <1>5, <1>6 DEF Consistent

LEMMA LiveAfterIs ==
    ASSUME IInv, NEW a
    PROVE  LiveAfter(a) = {b \in Live : b[1] = a[1] /\ b[2] > a[2]}
<1>1. \A b \in Live : crc_is_ok(b)
  BY LiveWhole
<1> QED BY <1>1 DEF LiveAfter, Live, Written, Marked

LEMMA Atom_GCMove ==
    ASSUME IInv, Consistent, GCMove
    PROVE  Consistent'
<1> DEFINE a == First(LiveAfter(gcat))
<1>1. /\ SameLive /\ Shape' /\ (\A t : Clean(t)' = Clean(t)) /\ sec' = sec
      /\ pc = "gcnode" /\ UNCHANGED <<req, gcret, in_recovery_check, at, failed>>
  BY SameSec DEF Consistent, GCMove
<1>2. LiveAfter(gcat) = {b \in Live : b[1] = gcat[1] /\ b[2] > gcat[2]}
  BY LiveAfterIs
<1>3. LiveAfter(gcat) \in SUBSET (Nat \X Nat)
  BY <1>2, LiveIn, AddrsIn
<1>4. a \in LiveAfter(gcat) /\ \A b \in LiveAfter(gcat) : a = b \/ Before(a, b)
  BY <1>3, FirstLeast DEF GCMove
<1>5. gcat' = a /\ job' = MoveJob("gc", a) /\ pc' = (IF At(a).st = "WRITE" THEN "mark" ELSE "alloc")
  BY DEF GCMove
<1> HIDE DEF a
<1>6. /\ job'.by = "gc" /\ job'.key = At(a).key /\ job'.val = At(a).val /\ job'.old = a
      /\ pc' \in {"mark", "alloc"} /\ a \in Live /\ a # NoNode
      /\ pc' = "mark" => a \in Written
      /\ pc' = "alloc" => a \in Marked
  BY <1>2, <1>4, <1>5, NoLossless, LiveIn DEF MoveJob, Live, Written, Marked
<1>7. ~in_recovery_check => Marked = {} /\ pc' = "mark"
  BY <1>1, <1>6 DEF Consistent, Recovered
<1>8. a[1] = gcat[1] /\ gcat'[1] = gcat[1]
  BY <1>2, <1>4, <1>5
<1>9. TargetReady'
  BY <1>6 DEF TargetReady
<1>10. OldReady'
  <2>1. At(job.old)' = At(a)
    BY <1>1, <1>6 DEF At
  <2> QED BY <1>1, <1>6, <2>1 DEF OldReady, SameLive
<1>11. Swept'
  <2>1. \A b \in Live : b[1] = a[1] => b[2] >= a[2]
    <3>1. \A b \in Live : b[1] = a[1] => b \in LiveAfter(gcat)
      BY <1>1, <1>2, <1>8 DEF Consistent, Swept
    <3>2. \A b \in Live : b[1] \in Nat /\ b[2] \in Nat
      BY LiveIn, AddrNat
    <3> QED BY <1>4, <1>6, <3>1, <3>2 DEF Before
  <2> QED BY <1>1, <1>5, <1>6, <1>8, <2>1 DEF Consistent, Swept, SameLive, Clean
<1>12. Unique'
  BY <1>1, <1>6, <1>7 DEF Consistent, Unique, SameLive, Live
<1>13. Recovered'
  BY <1>1, <1>6, <1>7 DEF Consistent, Recovered, SameLive
<1>14. Phase'
  BY <1>1, <1>6 DEF Consistent, Phase
<1> QED BY <1>1, <1>9, <1>10, <1>11, <1>12, <1>13, <1>14 DEF Consistent

LEMMA Atom_MoveAlloc ==
    ASSUME IInv, Consistent, MoveAlloc
    PROVE  Consistent'
<1>1. /\ SameLive /\ Shape' /\ (\A t : Clean(t)' = Clean(t)) /\ sec' = sec /\ pc = "alloc"
      /\ UNCHANGED <<req, gc_request, gcat, gcret, in_recovery_check, at, failed>>
      /\ job \in Job
  BY SameSec DEF Consistent, MoveAlloc, RestOfRAM, IInv, TypeOK
<1>2. /\ alloc_env \in Sectors
      /\ sec[alloc_env].ok /\ sec[alloc_env].dirty # "GC"
      /\ Len(sec[alloc_env].nodes) < Cap /\ sec[alloc_env].store # "FULL"
      /\ Len(sec[alloc_env].nodes) <= Cap
  BY AllocReady, Types, EnvAssumption DEF MoveAlloc, Consistent, IInv, SecType
<1>3. FindEnv(job.key) = {a \in Written : At(a).key = job.key}
  BY Found
<1>4. \/ in_recovery_check /\ FindEnv(job.key) # {} /\ pc' = "delete" /\ job' = job
      \/ /\ ~in_recovery_check \/ FindEnv(job.key) = {}
         /\ pc' = "claim" /\ job' = [job EXCEPT !.to = alloc_env]
  BY DEF MoveAlloc
<1>5. /\ job'.by = job.by /\ job'.key = job.key /\ job'.val = job.val /\ job'.old = job.old
      /\ pc' \in {"claim", "delete"}
      /\ pc' = "claim" => job'.to = alloc_env
      /\ pc' = "delete" => \E w \in Written : At(w).key = job.key
      /\ pc' = "claim" /\ in_recovery_check => \A w \in Written : At(w).key # job.key
  <2>1. CASE pc' = "delete"
    BY <1>3, <1>4, <2>1
  <2>2. CASE pc' # "delete"
    <3>1. job' = [job EXCEPT !.to = alloc_env] /\ pc' = "claim"
      BY <1>4, <2>2
    <3>2. in_recovery_check => \A w \in Written : At(w).key # job.key
      BY <1>3, <1>4, <2>2
    <3> QED BY <1>1, <3>1, <3>2 DEF Job
  <2> QED BY <2>1, <2>2
<1>6. job.by \in {"gc", "rec"} /\ job.old \in Marked /\ job.old # NoNode
      /\ At(job.old).key = job.key /\ At(job.old).val = job.val
  BY <1>1 DEF Consistent, OldReady
<1>7. TargetReady'
  BY <1>1, <1>2, <1>5, <1>6 DEF TargetReady
<1>8. OldReady'
  <2>1. At(job.old)' = At(job.old)
    BY <1>1, <1>5 DEF At
  <2>2. pc' = "delete" => \E w \in Written' : At(w)'.key = job'.key
    BY <1>1, <1>5 DEF SameLive, Live
  <2> QED BY <1>1, <1>5, <1>6, <2>1, <2>2 DEF OldReady, SameLive
<1>9. Swept'
  BY <1>1, <1>5, <1>6 DEF Consistent, Swept, SameLive, Clean
<1>10. Unique'
  BY <1>1, <1>5, <1>6 DEF Consistent, Unique, SameLive, Live
<1>11. Recovered'
  BY <1>1, <1>5, <1>6 DEF Consistent, Recovered, SameLive
<1>12. Phase'
  BY <1>1, <1>5, <1>6 DEF Consistent, Phase
<1> QED BY <1>1, <1>7, <1>8, <1>9, <1>10, <1>11, <1>12 DEF Consistent

LEMMA Atom_MoveFails ==
    ASSUME IInv, Consistent, ~abandoned', MoveFails
    PROVE  Consistent'
<1>1. /\ SameLive /\ Shape' /\ (\A t : Clean(t)' = Clean(t)) /\ sec' = sec
      /\ pc = "alloc" /\ UNCHANGED <<req, gcret, in_recovery_check, at, failed>>
      /\ job.by \in {"gc", "rec"}
  BY SameSec DEF Consistent, OldReady, MoveFails
<1>2. job.by = "rec" /\ pc' = "recend" /\ gc_request'
  BY <1>1 DEF MoveFails
<1>3. TargetReady' /\ OldReady' /\ Swept'
  BY <1>2 DEF TargetReady, OldReady, Swept
<1>4. Unique'
  BY <1>1, <1>2 DEF Consistent, Unique, SameLive, Live
<1>5. Recovered'
  BY <1>1, <1>2 DEF Consistent, Recovered, Phase, SameLive
<1>6. Phase'
  BY <1>1, <1>2 DEF Consistent, Phase
<1> QED BY <1>1, <1>3, <1>4, <1>5, <1>6 DEF Consistent

LEMMA SectorsFinite ==
    IsFiniteSet(Sectors) /\ Cardinality(Sectors) = SECTOR_NUM
  BY EnvAssumption, FS_Interval DEF Sectors

Freshes == {s \in Sectors : sec[s] = Fresh}

LEMMA FreshCount ==
    /\ Cardinality(Freshes) \in Nat
    /\ Cardinality(Freshes) >= SECTOR_NUM => Freshes = Sectors
<1>1. Freshes \subseteq Sectors
  BY DEF Freshes
<1>2. IsFiniteSet(Freshes) /\ Cardinality(Freshes) \in Nat
  BY <1>1, SectorsFinite, FS_Subset, FS_CardinalityType
<1>3. /\ Cardinality(Freshes) <= Cardinality(Sectors)
      /\ Cardinality(Sectors) = Cardinality(Freshes) => Sectors = Freshes
  BY <1>1, SectorsFinite, FS_Subset
<1>4. Cardinality(Sectors) = SECTOR_NUM /\ SECTOR_NUM \in Nat
  BY SectorsFinite, EnvAssumption
<1> QED BY <1>2, <1>3, <1>4

LEMMA Atom_WipeDefault ==
    ASSUME IInv, Consistent, WipeDefault
    PROVE  Consistent'
<1>1. /\ SameLive /\ Shape' /\ (\A t : Clean(t)' = Clean(t))
      /\ pc = "wipe" /\ pc' = "new" /\ gcret = "idle" /\ req'[1] = Author
      /\ UNCHANGED <<gcret, in_recovery_check, failed, job>> /\ at[1] > SECTOR_NUM
  BY SameSec DEF Consistent, WipeDefault, IInv, Control
<1>2. Live = {}
  <2>1. \A a \in Live : a[1] >= at[1]
    BY <1>1 DEF Consistent, Recovered
  <2>2. \A a \in Live : a[1] \in 1..SECTOR_NUM
    BY LiveIn, AddrNat DEF Sectors
  <2>3. at[1] \in Nat
    BY DEF IInv, TypeOK
  <2> QED BY <1>1, <2>1, <2>2, <2>3, EnvAssumption
<1>3. TargetReady' /\ OldReady' /\ Swept'
  BY <1>1 DEF TargetReady, OldReady, Swept
<1>4. Unique'
  BY <1>1 DEF Consistent, Unique, SameLive, Live
<1>5. Recovered' /\ Phase'
  BY <1>1, <1>2 DEF Consistent, Recovered, Phase, SameLive, Live
<1> QED BY <1>1, <1>3, <1>4, <1>5 DEF Consistent

LEMMA Atom_CheckHeadersDone ==
    ASSUME IInv, Consistent, CheckHeadersDone
    PROVE  Consistent'
<1>1. /\ SameLive /\ Shape' /\ (\A t : Clean(t)' = Clean(t))
      /\ pc = "hdr" /\ pc' \in {"wipe", "recgc"} /\ gcret = "idle" /\ in_recovery_check
      /\ UNCHANGED <<gcret, in_recovery_check, job, req>>
      /\ (pc' = "wipe" => failed = SECTOR_NUM /\ at'[1] = 1)
  BY SameSec DEF Consistent, CheckHeadersDone, IInv, Control, Phase
<1>2. pc' = "wipe" => Live = {}
  <2>1. SUFFICES ASSUME failed = SECTOR_NUM PROVE Addrs = {}
    BY <1>1, LiveIn
  <2>2. failed <= Cardinality(Freshes)
    BY <1>1 DEF Consistent, Phase, Freshes
  <2>3. Freshes = Sectors
    BY <2>1, <2>2, FreshCount
  <2>4. \A s \in Sectors : sec[s].store = "EMPTY"
    BY <2>3 DEF Freshes, Fresh, Blank
  <2> QED BY <2>4, AddrNat DEF Addrs
<1>3. TargetReady' /\ OldReady' /\ Swept'
  BY <1>1 DEF TargetReady, OldReady, Swept
<1>4. Unique'
  BY <1>1 DEF Consistent, Unique, SameLive, Live
<1>5. Recovered' /\ Phase'
  BY <1>1, <1>2, KeyVal DEF Consistent, Recovered, Phase, SameLive, Live
<1> QED BY <1>1, <1>3, <1>4, <1>5 DEF Consistent

LEMMA Atom_ResumeGC ==
    ASSUME IInv, Consistent, ResumeGC
    PROVE  Consistent'
<1>1. /\ SameLive /\ Shape' /\ (\A t : Clean(t)' = Clean(t))
      /\ pc = "recgc" /\ gcret = "idle" /\ in_recovery_check
      /\ UNCHANGED <<in_recovery_check, job, req>>
  BY SameSec DEF Consistent, ResumeGC, IInv, Control, Phase
<1>2. \/ pc' = "gc" /\ gcat'[1] = 0 /\ gcret' = "recgc"
      \/ pc' = "recgc" /\ gcret' = "idle"
      \/ pc' = "recenv" /\ at' = NoNode /\ gcret' = "idle"
  <2>1. CASE Interrupted # {}
    <3>1. EnterGC("recgc")
      BY <2>1 DEF ResumeGC
    <3> QED BY <1>1, <3>1, Entering DEF Returns
  <2>2. CASE Interrupted = {}
    BY <1>1, <2>2 DEF ResumeGC
  <2> QED BY <2>1, <2>2
<1>3. TargetReady' /\ OldReady'
  BY <1>2 DEF TargetReady, OldReady
<1>4. Swept'
  BY <1>2, EnvAssumption DEF Swept, Sectors
<1>5. Unique'
  BY <1>1, <1>2 DEF Consistent, Unique, SameLive, Live
<1>6. Recovered' /\ Phase'
  BY <1>1, <1>2 DEF Consistent, Recovered, Phase, SameLive
<1> QED BY <1>1, <1>3, <1>4, <1>5, <1>6 DEF Consistent

LEMMA UnfinishedIs ==
    ASSUME IInv, Consistent, pc = "recenv"
    PROVE  /\ Marked \subseteq Unfinished
           /\ Unfinished \in SUBSET (Nat \X Nat)
           /\ \A b \in Unfinished : At(b).st = "PRE_DELETE" => b \in Marked
<1>1. \A b \in Marked : crc_is_ok(b) /\ b \in Addrs /\ (at = NoNode \/ Before(at, b))
  BY LiveWhole, LiveIn DEF Live, Consistent, Recovered
<1> QED BY <1>1, AddrsIn DEF Unfinished, Marked

LEMMA Atom_RecoverOld ==
    ASSUME IInv, Consistent, RecoverOld
    PROVE  Consistent'
<1> DEFINE a == First(Unfinished)
<1>1. /\ SameLive /\ Shape' /\ (\A t : Clean(t)' = Clean(t)) /\ sec' = sec
      /\ pc = "recenv" /\ gcret = "idle" /\ in_recovery_check
      /\ UNCHANGED <<in_recovery_check, req, gcret>>
  BY SameSec DEF Consistent, RecoverOld, IInv, Control, Phase
<1>2. a \in Unfinished /\ \A b \in Unfinished : a = b \/ Before(a, b)
  BY <1>1, UnfinishedIs, FirstLeast DEF RecoverOld
<1>3. at' = a /\ job' = MoveJob("rec", a) /\ pc' = "alloc" /\ At(a).st = "PRE_DELETE"
  BY DEF RecoverOld
<1> HIDE DEF a
<1>4. a \in Marked /\ a # NoNode /\ \A b \in Marked : a = b \/ Before(a, b)
  BY <1>1, <1>2, <1>3, UnfinishedIs, NoLossless, LiveIn
<1>5. job'.by = "rec" /\ job'.key = At(a).key /\ job'.val = At(a).val /\ job'.old = a
  BY <1>3 DEF MoveJob
<1>6. TargetReady' /\ Swept'
  BY <1>3, <1>5 DEF TargetReady, Swept
<1>7. OldReady'
  <2>1. At(job.old)' = At(a)
    BY <1>1, <1>5 DEF At
  <2> QED BY <1>1, <1>3, <1>4, <1>5, <2>1 DEF OldReady, SameLive
<1>8. Unique'
  BY <1>1, <1>3 DEF Consistent, Unique, SameLive, Live
<1>9. Recovered'
  BY <1>1, <1>3, <1>4, <1>5 DEF Consistent, Recovered, SameLive
<1>10. Phase'
  BY <1>1, <1>3, <1>5 DEF Consistent, Phase
<1> QED BY <1>1, <1>6, <1>7, <1>8, <1>9, <1>10 DEF Consistent

LEMMA Atom_RecoverNoMore ==
    ASSUME IInv, Consistent, RecoverNoMore
    PROVE  Consistent'
<1>1. /\ SameLive /\ Shape' /\ (\A t : Clean(t)' = Clean(t))
      /\ pc = "recenv" /\ pc' = "recend" /\ gcret = "idle" /\ in_recovery_check
      /\ UNCHANGED <<in_recovery_check, req, gcret, job>> /\ Unfinished = {}
  BY SameSec DEF Consistent, RecoverNoMore, RestOfRAM, IInv, Control, Phase
<1>2. Marked = {}
  BY <1>1, UnfinishedIs
<1>3. TargetReady' /\ OldReady' /\ Swept'
  BY <1>1 DEF TargetReady, OldReady, Swept
<1>4. Unique'
  BY <1>1 DEF Consistent, Unique, SameLive, Live
<1>5. Recovered' /\ Phase'
  BY <1>1, <1>2 DEF Consistent, Recovered, Phase, SameLive
<1> QED BY <1>1, <1>3, <1>4, <1>5 DEF Consistent

LEMMA Atom_RecoverEnd ==
    ASSUME IInv, Consistent, RecoverEnd
    PROVE  Consistent'
<1>1. /\ SameLive /\ Shape' /\ (\A t : Clean(t)' = Clean(t)) /\ at' = NoNode
      /\ pc = "recend" /\ gcret = "idle" /\ in_recovery_check
      /\ UNCHANGED <<req, job>>
  BY SameSec DEF Consistent, RecoverEnd, IInv, Control, Phase
<1>2. \/ pc' = "gc" /\ gcat'[1] = 0 /\ gcret' = "recenv" /\ in_recovery_check'
      \/ pc' = "recenv" /\ gcret' = "idle" /\ in_recovery_check'
      \/ pc' = "idle" /\ gcret' = "idle" /\ ~in_recovery_check' /\ ~gc_request
  <2>1. CASE gc_request
    <3>1. EnterGC("recenv") /\ in_recovery_check' = in_recovery_check
      BY <2>1 DEF RecoverEnd
    <3> QED BY <1>1, <3>1, Entering DEF Returns
  <2>2. CASE ~gc_request
    BY <1>1, <2>2 DEF RecoverEnd
  <2> QED BY <2>1, <2>2
<1>3. TargetReady' /\ OldReady'
  BY <1>2 DEF TargetReady, OldReady
<1>4. Swept'
  BY <1>2, EnvAssumption DEF Swept, Sectors
<1>5. Unique'
  BY <1>1, <1>2 DEF Consistent, Unique, SameLive, Live
<1>6. Recovered' /\ Phase'
  BY <1>1, <1>2 DEF Consistent, Recovered, Phase, SameLive
<1> QED BY <1>1, <1>3, <1>4, <1>5, <1>6 DEF Consistent

LEMMA Atom_PowerLoss ==
    ASSUME IInv, Consistent, PowerLoss
    PROVE  Consistent'
<1>1. /\ SameLive /\ Shape' /\ (\A t : Clean(t)' = Clean(t)) /\ sec' = sec
      /\ pc' = "hdr" /\ gcret' = "idle" /\ in_recovery_check' /\ failed' = 0
  BY SameSec DEF Consistent, PowerLoss
<1>2. TargetReady' /\ OldReady' /\ Swept'
  BY <1>1 DEF TargetReady, OldReady, Swept
<1>3. Unique'
  BY <1>1 DEF Consistent, Unique, SameLive, Live
<1>4. Recovered'
  BY <1>1 DEF Recovered
<1>5. failed' <= Cardinality(Freshes)'
  <2>1. (Cardinality(Freshes) \in Nat)'
    BY FreshCount, PTL
  <2> QED BY <1>1, <2>1
<1>6. Phase'
  BY <1>1, <1>5 DEF Phase, Freshes
<1> QED BY <1>1, <1>2, <1>3, <1>4, <1>6 DEF Consistent

-----------------------------------------------------------------------------
\* The steps that write the flash.

LEMMA DirtyStep ==
    ASSUME IInv, Shape, NEW s \in Sectors, sec[s].store # "EMPTY", DirtySector(s)
    PROVE  /\ SameNodes /\ SameLive /\ Shape'
           /\ \A t \in Sectors :
                 /\ sec'[t].ok = sec[t].ok /\ sec'[t].store = sec[t].store
                 /\ sec'[t].nodes = sec[t].nodes
                 /\ sec[t].dirty # "GC" => sec'[t].dirty # "GC"
                 /\ t # s \/ ~Clean(s) => sec'[t].dirty = sec[t].dirty
                 /\ Clean(t)' <=> Clean(t) /\ t # s
           /\ sec[s].dirty = "GC" => sec' = sec
<1>1. CASE sec[s].dirty = "FALSE"
  <2> DEFINE r == [sec[s] EXCEPT !.dirty = "TRUE"]
  <2>1. sec' = [sec EXCEPT ![s] = r]
    BY <1>1 DEF DirtySector
  <2>2. sec[s] \in Sector
    BY Types DEF IInv, SecType
  <2>3. r.nodes = sec[s].nodes /\ r.store = sec[s].store /\ r.ok = sec[s].ok /\ r.dirty = "TRUE"
    BY <2>2 DEF Sector
  <2> HIDE DEF r
  <2>4. /\ SameNodes
        /\ sec'[s] = r
        /\ \A t \in Sectors : t # s => sec'[t] = sec[t]
    BY <2>1, <2>3, HeaderStep
  <2>5. Shape'
    BY <2>3, <2>4 DEF Shape
  <2> QED BY <1>1, <2>3, <2>4, <2>5, SameNodesLive DEF Clean
<1>2. CASE sec[s].dirty # "FALSE"
  BY <1>2, SameSec DEF DirtySector, Clean
<1> QED BY <1>1, <1>2

LEMMA Atom_MarkOldDirty ==
    ASSUME IInv, Consistent, MarkOldDirty
    PROVE  Consistent' /\ SameLive
<1> DEFINE s == job.old[1]
<1>1. /\ pc = "markdirty" /\ pc' = (IF job.by = "set" THEN "claim" ELSE "alloc")
      /\ UNCHANGED <<job, req, gc_request, gcret, gcat, in_recovery_check, at, failed>>
      /\ DirtySector(s)
  BY DEF MarkOldDirty, RestOfRAM
<1>2. /\ job.by \in {"set", "gc"} /\ job.old # NoNode /\ job.old \in Marked
      /\ At(job.old).key = job.key
      /\ job.by = "gc" => At(job.old).val = job.val
  BY <1>1 DEF Consistent, OldReady
<1>3. s \in Sectors /\ sec[s].store # "EMPTY" /\ job.old \in Addrs
  BY <1>2, LiveIn, AddrNat DEF Addrs
<1> HIDE DEF s
<1>4. /\ SameNodes /\ SameLive /\ Shape'
      /\ \A t \in Sectors :
            /\ sec'[t].ok = sec[t].ok /\ sec'[t].store = sec[t].store
            /\ sec'[t].nodes = sec[t].nodes
            /\ sec[t].dirty # "GC" => sec'[t].dirty # "GC"
            /\ t # s \/ ~Clean(s) => sec'[t].dirty = sec[t].dirty
            /\ Clean(t)' <=> Clean(t) /\ t # s
      /\ sec[s].dirty = "GC" => sec' = sec
  BY <1>1, <1>3, DirtyStep DEF Consistent
<1>5. TargetReady'
  <2>1. job.by = "set" => job.to \in Sectors
    BY <1>1 DEF IInv, Stage
  <2> QED BY <1>1, <1>2, <1>4, <2>1 DEF Consistent, TargetReady
<1>6. OldReady'
  <2>1. At(job.old)' = At(job.old)
    BY <1>1, <1>3, <1>4, AddrNat DEF At
  <2>2. job.by = "set" => ~Clean(job.old[1])'
    BY <1>1, <1>3, <1>4 DEF Clean, s
  <2> QED BY <1>1, <1>2, <1>4, <2>1, <2>2 DEF OldReady, SameLive, Clean
<1>7. Swept'
  <2>1. job.by = "gc" => s = gcat[1] /\ sec[s].dirty = "GC"
    BY <1>1 DEF Consistent, Swept, s
  <2>2. job.by = "gc" => sec' = sec
    BY <1>4, <2>1
  <2> QED BY <1>1, <1>4, <2>2 DEF Consistent, Swept, SameLive, Clean
<1>8. Unique'
  <2>1. \A a \in Marked : a[1] \in Sectors
    BY LiveIn, AddrNat
  <2> QED BY <1>1, <1>2, <1>4, <2>1 DEF Consistent, Unique, SameLive, Live
<1>9. Recovered'
  BY <1>1, <1>2, <1>4 DEF Consistent, Recovered, SameLive
<1>10. Phase'
  BY <1>1, <1>2 DEF Consistent, Phase
<1> QED BY <1>4, <1>5, <1>6, <1>7, <1>8, <1>9, <1>10 DEF Consistent

LEMMA Atom_DeleteOldDirty ==
    ASSUME IInv, Consistent, DeleteOldDirty
    PROVE  Consistent' /\ SameLive
<1> DEFINE s == job.old[1]
<1>1. /\ pc = "deldirty" /\ pc' = "done"
      /\ UNCHANGED <<job, req, gc_request, gcret, gcat, in_recovery_check, at, failed>>
      /\ DirtySector(s)
  BY DEF DeleteOldDirty, RestOfRAM
<1>2. job.old \in Addrs /\ (job.by = "default" => job.old = NoNode) /\ job.old # NoNode
  BY <1>1 DEF Consistent, OldReady
<1>3. s \in Sectors /\ sec[s].store # "EMPTY"
  BY <1>2, AddrNat DEF Addrs
<1> HIDE DEF s
<1>4. /\ SameNodes /\ SameLive /\ Shape'
      /\ \A t \in Sectors : Clean(t)' <=> Clean(t) /\ t # s
      /\ sec[s].dirty = "GC" => sec' = sec
  BY <1>1, <1>3, DirtyStep DEF Consistent
<1>5. TargetReady'
  BY <1>1 DEF TargetReady
<1>6. OldReady'
  BY <1>1, <1>2 DEF Consistent, OldReady
<1>7. Swept'
  <2>1. job.by = "gc" => s = gcat[1] /\ sec[s].dirty = "GC"
    BY <1>1 DEF Consistent, Swept, s
  <2>2. job.by = "gc" => sec' = sec
    BY <1>4, <2>1
  <2> QED BY <1>1, <1>4, <2>2 DEF Consistent, Swept, SameLive, Clean
<1>8. Unique'
  <2>1. \A a \in Marked : a[1] \in Sectors
    BY LiveIn, AddrNat
  <2> QED BY <1>1, <1>4, <2>1 DEF Consistent, Unique, SameLive, Live
<1>9. Recovered'
  BY <1>1, <1>4 DEF Consistent, Recovered, SameLive
<1>10. Phase'
  BY <1>1 DEF Consistent, Phase
<1> QED BY <1>4, <1>5, <1>6, <1>7, <1>8, <1>9, <1>10 DEF Consistent

LEMMA Atom_UpdateSecStatus ==
    ASSUME IInv, Consistent, UpdateSecStatus
    PROVE  Consistent' /\ SameLive
<1> DEFINE s == job.to
           full == sec[s].store = "USING" /\ Len(sec[s].nodes) + 1 >= Cap
           r == [sec[s] EXCEPT !.store = IF full THEN "FULL" ELSE "USING"]
<1>1. /\ pc = "claim" /\ pc' = "prewrite"
      /\ UNCHANGED <<req, gc_request, gcret, gcat, in_recovery_check, at, failed>>
      /\ sec' = [sec EXCEPT ![s] = r] /\ job' = [job EXCEPT !.is_full = full]
  BY DEF UpdateSecStatus, RestOfRAM
<1>2. s \in Sectors /\ sec[s] \in Sector /\ job \in Job /\ Len(sec[s].nodes) \in Nat
  BY <1>1, Types DEF IInv, Stage, SecType, TypeOK, Sector
<1>3. /\ job'.by = job.by /\ job'.key = job.key /\ job'.val = job.val /\ job'.to = s
      /\ job'.old = job.old
  BY <1>1, <1>2 DEF Job
<1>4. /\ sec[s].ok /\ sec[s].dirty # "GC" /\ Len(sec[s].nodes) < Cap
      /\ sec[s].store # "FULL"
  BY <1>1 DEF Consistent, TargetReady
<1>5. /\ r.nodes = sec[s].nodes /\ r.ok = sec[s].ok /\ r.dirty = sec[s].dirty
      /\ r.store \in {"USING", "FULL"}
      /\ r.store = "USING" => ~full
  BY <1>2 DEF Sector
<1>6. Len(sec[s].nodes) + 1 < Cap \/ r.store = "FULL"
  <2>1. CASE sec[s].store = "USING"
    BY <1>2, <1>5, <2>1, EnvAssumption
  <2>2. CASE sec[s].store # "USING"
    <3>1. sec[s].store = "EMPTY"
      BY <1>2, <1>4, <2>2 DEF Sector
    <3>2. Len(sec[s].nodes) = 0
      BY <1>2, <3>1 DEF Consistent, Shape, Blank, Fresh
    <3> QED BY <3>2, EnvAssumption
  <2> QED BY <2>1, <2>2
<1> HIDE DEF r, full
<1>7. /\ SameNodes
      /\ sec'[s] = r
      /\ \A t \in Sectors : t # s => sec'[t] = sec[t]
  BY <1>1, <1>2, <1>5, HeaderStep DEF Consistent
<1>8. SameLive /\ (\A t \in Sectors : sec'[t].dirty = sec[t].dirty /\ sec'[t].nodes = sec[t].nodes)
      /\ \A t \in Sectors : Clean(t)' = Clean(t)
  BY <1>5, <1>7, SameNodesLive DEF Clean
<1>9. Shape'
  BY <1>2, <1>4, <1>5, <1>6, <1>7, EnvAssumption DEF Consistent, Shape
<1>10. TargetReady'
  <2>1. /\ sec'[job'.to] = r /\ r.ok /\ r.dirty # "GC" /\ Len(r.nodes) < Cap /\ Len(r.nodes) <= Cap
        /\ r.store # "EMPTY"
        /\ r.store = "USING" => Len(r.nodes) + 1 < Cap
    BY <1>2, <1>3, <1>4, <1>5, <1>6, <1>7, EnvAssumption
  <2> QED BY <1>1, <2>1 DEF TargetReady
<1>11. OldReady'
  <2>1. job.old # NoNode => At(job.old)' = At(job.old) /\ job.old[1] \in Sectors
    <3>1. job.old # NoNode => job.old \in Marked
      BY <1>1 DEF Consistent, OldReady
    <3> QED BY <1>3, <1>8, <3>1, AddrNat, LiveIn DEF At
  <2> QED BY <1>1, <1>3, <1>8, <2>1 DEF Consistent, OldReady, SameLive, Clean
<1>12. Swept'
  BY <1>1, <1>3, <1>8 DEF Consistent, Swept, SameLive
<1>13. Unique'
  <2>1. \A a \in Marked : a[1] \in Sectors
    BY LiveIn, AddrNat
  <2> QED BY <1>1, <1>3, <1>8, <2>1 DEF Consistent, Unique, SameLive, Live
<1>14. Recovered'
  BY <1>1, <1>3, <1>8 DEF Consistent, Recovered, SameLive
<1>15. Phase'
  BY <1>1, <1>3 DEF Consistent, Phase
<1> QED BY <1>8, <1>9, <1>10, <1>11, <1>12, <1>13, <1>14, <1>15 DEF Consistent

\* While the new node is being written nothing else of the write changes.
LEMMA FillStep ==
    ASSUME IInv, Consistent, SameLive, NEW q \in {"header", "body", "commit"},
           pc \in {"prewrite", "header", "body"}, pc' = q,
           UNCHANGED <<job, req, gc_request, gcret, gcat, in_recovery_check, at, failed>>,
           \A t \in Sectors : sec'[t].ok = sec[t].ok /\ sec'[t].dirty = sec[t].dirty,
           \A a \in Live : At(a)' = At(a)
    PROVE  OldReady' /\ Swept' /\ Unique' /\ Recovered' /\ Phase'
<1>1. \A t \in Sectors : Clean(t)' = Clean(t)
  BY DEF Clean
<1>2. \A a \in Live : a[1] \in Sectors
  BY LiveIn, AddrNat
<1>3. OldReady'
  <2>1. job.old # NoNode => At(job.old)' = At(job.old) /\ job.old[1] \in Sectors
    <3>1. job.old # NoNode => job.old \in Marked
      BY DEF Consistent, OldReady
    <3>2. \A a \in Live : At(a)' = At(a)
      OBVIOUS
    <3>3. job' = job
      OBVIOUS
    <3> QED BY <1>2, <3>1, <3>2, <3>3 DEF At, Live
  <2> QED BY <1>1, <2>1 DEF Consistent, OldReady, SameLive, Clean
<1>4. Swept'
  BY <1>1 DEF Consistent, Swept, SameLive
<1>5. Unique'
  BY <1>1, <1>2 DEF Consistent, Unique, SameLive, Live
<1>6. Recovered'
  BY DEF Consistent, Recovered, SameLive
<1>7. Phase'
  BY DEF Consistent, Phase
<1> QED BY <1>3, <1>4, <1>5, <1>6, <1>7

LEMMA Atom_WritePreWrite ==
    ASSUME IInv, Consistent, WritePreWrite
    PROVE  Consistent' /\ SameLive
<1> DEFINE s == job.to
           n == [st |-> "PRE_WRITE", key |-> NoVal, val |-> NoVal]
           y == <<s, Len(sec[s].nodes) + 1>>
<1>1. /\ pc = "prewrite" /\ pc' = "header"
      /\ UNCHANGED <<job, req, gc_request, gcret, gcat, in_recovery_check, at, failed>>
      /\ sec' = [sec EXCEPT ![s].nodes = Append(@, n)]
  BY DEF WritePreWrite, RestOfRAM
<1>2. s \in Sectors /\ Len(sec[s].nodes) \in Nat
  BY <1>1, Types DEF IInv, Stage, SecType, Sector
<1>3. /\ sec[s].ok /\ sec[s].dirty # "GC" /\ Len(sec[s].nodes) < Cap
      /\ sec[s].store # "EMPTY"
      /\ sec[s].store = "USING" => Len(sec[s].nodes) + 1 < Cap
  BY <1>1 DEF Consistent, TargetReady
<1>4. n \in Node /\ n.st = "PRE_WRITE"
  BY DEF Node
<1> HIDE DEF n
<1>5. /\ Addrs' = Addrs \cup {y} /\ y \notin Addrs
      /\ \A a \in Addrs : At(a)' = At(a)
      /\ \A t \in Sectors : /\ sec'[t].ok = sec[t].ok /\ sec'[t].store = sec[t].store
                            /\ sec'[t].dirty = sec[t].dirty
                            /\ t # s => sec'[t] = sec[t]
      /\ Len(sec'[s].nodes) = Len(sec[s].nodes) + 1
  BY <1>1, <1>2, <1>3, <1>4, AppendStep
<1>6. PICK z : z = y
  OBVIOUS
<1>7. At(z)' = n
  <2>1. sec[s] \in Sector /\ sec \in [Sectors -> Sector]
    BY <1>2, Types DEF IInv, SecType
  <2>2. sec'[s].nodes = Append(sec[s].nodes, n) /\ sec[s].nodes \in Seq(Node)
    BY <1>1, <1>2, <2>1 DEF Sector
  <2>3. sec'[s].nodes[Len(sec[s].nodes) + 1] = n
    BY <1>4, <2>2
  <2> QED BY <1>6, <2>3 DEF At
<1>8. SameLive
  BY <1>4, <1>5, <1>6, <1>7, AppendLive
<1>9. Shape'
  BY <1>2, <1>3, <1>5, EnvAssumption DEF Consistent, Shape
<1>10. TargetReady'
  <2>1. Target' = z
    BY <1>1, <1>5, <1>6 DEF Target
  <2>2. (Target \in Addrs)' /\ (At(Target).st = "PRE_WRITE")'
    BY <1>4, <1>5, <1>6, <1>7, <2>1 DEF At
  <2> QED BY <1>1, <1>2, <1>3, <1>5, <2>2, EnvAssumption DEF TargetReady
<1>11. \A a \in Live : At(a)' = At(a)
  BY <1>5, LiveIn
<1>12. OldReady' /\ Swept' /\ Unique' /\ Recovered' /\ Phase'
  BY <1>1, <1>5, <1>8, <1>11, FillStep
<1> QED BY <1>8, <1>9, <1>10, <1>12 DEF Consistent

LEMMA TargetWrite ==
    ASSUME IInv, Consistent, pc \in {"header", "body", "commit"}, NEW n \in Node,
           SetNode(Target, n), job' = job
    PROVE  /\ Target \in Addrs /\ At(Target) \in Node /\ At(Target).st = "PRE_WRITE"
           /\ Addrs' = Addrs /\ Target' = Target /\ SameHeaders /\ Shape'
           /\ \A a \in Addrs : At(a)' = IF a = Target THEN n ELSE At(a)
           /\ At(Target)' = n
<1>1. Target \in Addrs /\ At(Target).st = "PRE_WRITE" /\ job.to \in Sectors
  BY DEF Consistent, TargetReady, IInv, Stage
<1>2. At(Target) \in Node
  BY <1>1, AddrNode
<1> DEFINE x == Target
<1>3. SetNode(x, n) /\ x \in Addrs /\ x = <<job.to, Len(sec[job.to].nodes)>>
  BY <1>1 DEF Target
<1> HIDE DEF x
<1>4. /\ Addrs' = Addrs
      /\ \A a \in Addrs : At(a)' = IF a = x THEN n ELSE At(a)
      /\ SameHeaders
  BY <1>3, NodeStep
<1>5. Target' = x
  BY <1>1, <1>3, <1>4 DEF Target, SameHeaders
<1>6. PICK z \in Addrs : z = x
  BY <1>3
<1>7. At(z)' = n /\ z = Target' /\ z = Target
  BY <1>3, <1>4, <1>5, <1>6 DEF x
<1>8. At(Target)' = n
  BY <1>7 DEF At
<1>9. Shape'
  <2>1. \A s \in Sectors : sec'[s] \in Sector /\ sec[s] \in Sector
    <3>1. SecType /\ SecType'
      BY <1>1, <1>3, Types, OverwriteNode, AddrsIn DEF IInv
    <3> QED BY <3>1 DEF SecType
  <2>2. \A s \in Sectors : sec[s].store = "EMPTY" => sec'[s] = sec[s]
    <3>1. sec[x[1]].store # "EMPTY" /\ x[1] \in Sectors
      BY <1>3, AddrNat DEF Addrs
    <3>2. \A s \in Sectors : s # x[1] => sec'[s] = sec[s]
      BY <1>3, <3>1, Types DEF SetNode, IInv, SecType
    <3> QED BY <3>1, <3>2
  <2> QED BY <1>4, <2>2 DEF Consistent, Shape, SameHeaders
<1> QED BY <1>1, <1>2, <1>3, <1>4, <1>5, <1>8, <1>9 DEF x

LEMMA Atom_WriteHeader ==
    ASSUME IInv, Consistent, WriteHeader \/ WriteValue
    PROVE  Consistent' /\ SameLive
<1> DEFINE n == IF pc = "header" THEN [At(Target) EXCEPT !.key = job.key]
                ELSE [At(Target) EXCEPT !.val = job.val]
<1>1. /\ pc \in {"header", "body"} /\ pc' = (IF pc = "header" THEN "body" ELSE "commit")
      /\ UNCHANGED <<job, req, gc_request, gcret, gcat, in_recovery_check, at, failed>>
      /\ SetNode(Target, n)
  BY DEF WriteHeader, WriteValue, RestOfRAM
<1>2. /\ Target \in Addrs /\ At(Target).st = "PRE_WRITE"
      /\ job.to \in Sectors
      /\ sec[job.to].ok /\ sec[job.to].dirty # "GC" /\ Len(sec[job.to].nodes) <= Cap
      /\ pc = "body" => At(Target).key = job.key
  BY <1>1 DEF Consistent, TargetReady, IInv, Stage
<1>3. At(Target) \in Node
  BY <1>2, AddrNode
<1>4. /\ n \in Node /\ n.st = "PRE_WRITE" /\ n.key = job.key
      /\ pc = "body" => n.val = job.val
  BY <1>1, <1>2, <1>3 DEF Node, IInv, TypeOK, Job
<1> HIDE DEF n
<1>5. /\ Addrs' = Addrs /\ Target' = Target /\ SameHeaders /\ Shape'
      /\ \A a \in Addrs : At(a)' = IF a = Target THEN n ELSE At(a)
      /\ At(Target)' = n
  BY <1>1, <1>4, TargetWrite
<1>6. Target \notin Live
  BY <1>2 DEF Live, Written, Marked
<1>7. PICK x \in Addrs : x = Target
  BY <1>2
<1>8. SameLive
  <2>1. \A a \in Addrs : At(a)' = IF a = x THEN n ELSE At(a)
    BY <1>5, <1>7
  <2>2. /\ Written' = Written \ {x} /\ Marked' = Marked \ {x} /\ Live' = Live \ {x}
    BY <1>4, <1>5, <2>1, NodeLive
  <2> QED BY <1>6, <1>7, <2>1, <2>2, LiveIn DEF SameLive, Live
<1>9. TargetReady'
  <2>1. (Target \in Addrs)' /\ (At(Target).st = "PRE_WRITE" /\ At(Target).key = job.key)'
        /\ (pc = "body" => (At(Target).val = job.val)')
    BY <1>1, <1>2, <1>4, <1>5
  <2> QED BY <1>1, <1>2, <1>5, <2>1 DEF TargetReady, SameHeaders
<1>10. OldReady' /\ Swept' /\ Unique' /\ Recovered' /\ Phase'
  BY <1>1, <1>5, <1>8, FillStep DEF SameHeaders, SameLive
<1> QED BY <1>8, <1>5, <1>9, <1>10 DEF Consistent

\* The new node counts from here on.
LEMMA CommitLive ==
    ASSUME IInv, Consistent, WriteCommit
    PROVE  /\ Target \in Addrs /\ Target \notin Live
           /\ Written' = Written \cup {Target} /\ Marked' = Marked /\ Live' = Live \cup {Target}
           /\ \A a \in Live : At(a)' = At(a)
           /\ \A a \in {Target} : At(a)'.key = job.key /\ At(a)'.val = job.val
           /\ SameHeaders /\ Shape'
           /\ \A w \in Written : At(w).key # job.key
<1> DEFINE n == [At(Target) EXCEPT !.st = "WRITE"]
<1>1. pc = "commit" /\ SetNode(Target, n) /\ job' = job
  BY DEF WriteCommit, SetStatus
<1>2. /\ Target \in Addrs /\ At(Target).st = "PRE_WRITE"
      /\ At(Target).key = job.key /\ At(Target).val = job.val
      /\ \A w \in Written : At(w).key # job.key
  BY <1>1 DEF Consistent, TargetReady, Unique
<1>3. At(Target) \in Node
  BY <1>2, AddrNode
<1>4. /\ n \in Node /\ n.st = "WRITE"
      /\ n.key = job.key /\ n.val = job.val
  BY <1>2, <1>3 DEF Node
<1> HIDE DEF n
<1>5. /\ Addrs' = Addrs /\ SameHeaders /\ Shape'
      /\ \A a \in Addrs : At(a)' = IF a = Target THEN n ELSE At(a)
  BY <1>1, <1>4, TargetWrite
<1>6. Target \notin Live
  BY <1>2 DEF Live, Written, Marked
<1>7. PICK x \in Addrs : x = Target
  BY <1>2
<1>8. \A a \in Addrs : At(a)' = IF a = x THEN n ELSE At(a)
  BY <1>5, <1>7
<1>9. /\ Written' = Written \cup {x} /\ Marked' = Marked \ {x} /\ Live' = Live \cup {x}
  BY <1>4, <1>5, <1>8, NodeLive
<1>10. Marked' = Marked
  BY <1>6, <1>7, <1>9 DEF Live
<1>11. \A a \in Live : At(a)' = At(a)
  BY <1>6, <1>7, <1>8, LiveIn
<1> QED BY <1>2, <1>4, <1>5, <1>6, <1>7, <1>8, <1>9, <1>10, <1>11

\* Who already holds the value that a move writes once more.
LEMMA SameValue ==
    ASSUME IInv, Consistent, pc = "commit"
    PROVE  \A a \in Marked : At(a).key = job.key /\ Clean(a[1]) => At(a).val = job.val
<1> SUFFICES ASSUME NEW a \in Marked, At(a).key = job.key, Clean(a[1])
             PROVE  At(a).val = job.val
  OBVIOUS
<1>1. job.by \in {"set", "default", "gc", "rec"}
  BY DEF IInv, Stage, TypeOK, Job
<1>2. CASE job.by \in {"gc", "rec"}
  <2>1. job.old \in Marked /\ At(job.old).key = job.key /\ At(job.old).val = job.val
    BY <1>2 DEF Consistent, OldReady
  <2> QED BY <2>1 DEF Consistent, Unique, Live
<1>3. CASE job.by = "default"
  BY <1>3 DEF Consistent, Recovered, Live
<1>4. CASE job.by = "set"
  <2>1. a = job.old
    BY <1>4 DEF Consistent, Recovered, Phase
  <2>2. a # NoNode
    BY NoLossless, LiveIn
  <2> QED BY <1>4, <2>1, <2>2 DEF Consistent, OldReady
<1> QED BY <1>1, <1>2, <1>3, <1>4

LEMMA Atom_WriteCommit ==
    ASSUME IInv, Consistent, WriteCommit
    PROVE  Consistent'
<1>1. /\ pc = "commit" /\ pc' = (IF job.old = NoNode THEN "done" ELSE "delete")
      /\ UNCHANGED <<job, req, gcret, gcat, in_recovery_check, at, failed>>
  BY DEF WriteCommit
<1>2. PICK x \in Addrs : x = Target
  BY CommitLive
<1>3. /\ x \notin Live
      /\ Written' = Written \cup {x} /\ Marked' = Marked /\ Live' = Live \cup {x}
      /\ \A a \in Live : At(a)' = At(a)
      /\ At(x)'.key = job.key /\ At(x)'.val = job.val
      /\ SameHeaders /\ Shape'
      /\ \A w \in Written : At(w).key # job.key
  BY <1>2, CommitLive
<1>4. /\ \A t \in Sectors : Clean(t)' = Clean(t)
      /\ \A t \in Sectors : sec'[t].dirty = sec[t].dirty
  BY <1>3 DEF Clean, SameHeaders
<1>5. \A a \in Live' : a[1] \in Sectors
  BY <1>3, LiveIn, AddrNat
<1>6. job.by \in {"gc", "rec"} => pc' = "delete"
  BY <1>1 DEF Consistent, OldReady
<1>7. TargetReady'
  BY <1>1 DEF TargetReady
<1>8. OldReady'
  <2>1. job.old # NoNode => job.old \in Marked /\ At(job.old)' = At(job.old)
    <3>1. job.old # NoNode => job.old \in Marked
      BY <1>1 DEF Consistent, OldReady
    <3>2. PICK o : o = job.old /\ o = job'.old
      BY <1>1
    <3>3. o # NoNode => At(o)' = At(o)
      BY <1>3, <3>1, <3>2 DEF Live
    <3> QED BY <3>1, <3>2, <3>3 DEF At
  <2>2. \E w \in Written' : At(w)'.key = job'.key
    BY <1>1, <1>3
  <2>3. job.old # NoNode => job.old[1] \in Sectors
    BY <2>1, LiveIn, AddrNat
  <2> QED BY <1>1, <1>3, <1>4, <2>1, <2>2, <2>3 DEF Consistent, OldReady, Clean
<1>9. Swept'
  <2>1. job.by = "gc" => x[1] # gcat[1]
    BY <1>1, <1>2 DEF Consistent, TargetReady, Swept, Target
  <2> QED BY <1>1, <1>3, <1>4, <1>6, <2>1 DEF Consistent, Swept
<1>10. Unique'
  <2>1. \A a, b \in Written' : At(a)'.key = At(b)'.key => a = b
    BY <1>3 DEF Consistent, Unique, Live
  <2>2. ASSUME NEW a \in Marked, NEW b \in Live', At(a)'.key = At(b)'.key, Clean(a[1])
        PROVE  At(a)'.val = At(b)'.val
    <3>1. At(a)' = At(a)
      BY <1>3 DEF Live
    <3>2. CASE b = x
      <4>1. At(a).key = job.key
        BY <1>3, <2>2, <3>1, <3>2
      <4> QED BY <1>1, <1>3, <2>2, <3>1, <3>2, <4>1, SameValue
    <3>3. CASE b # x
      <4>1. b \in Live /\ At(b)' = At(b)
        BY <1>3, <3>3
      <4> QED BY <2>2, <3>1, <4>1 DEF Consistent, Unique
    <3> QED BY <3>2, <3>3
  <2>3. \A a \in Marked : a[1] \in Sectors
    BY LiveIn, AddrNat
  <2> QED BY <1>1, <1>3, <1>4, <2>1, <2>2, <2>3 DEF Unique
<1>11. Recovered'
  <2>1. job.by = "gc" => ~(gcret = "new" /\ req[1] = Author)
    <3>1. job.by = "gc" => job.old \in Live
      BY <1>1 DEF Consistent, OldReady, Live
    <3> QED BY <3>1 DEF Consistent, Recovered
  <2>2. job.by # "gc" => gcret = "idle"
    BY <1>1 DEF IInv, Control
  <2>3. ~in_recovery_check => \A a \in Marked : a = job.old /\ a # NoNode
    BY <1>1, NoLossless, LiveIn DEF Consistent, Recovered
  <2> QED BY <1>1, <1>3, <1>6, <2>1, <2>2, <2>3 DEF Consistent, Recovered
<1>12. Phase'
  BY <1>1 DEF Consistent, Phase
<1> QED BY <1>3, <1>7, <1>8, <1>9, <1>10, <1>11, <1>12 DEF Consistent

\* A node in the range of its sector is overwritten: the shape stays.
LEMMA NodeShape ==
    ASSUME IInv, Shape, NEW x \in Addrs, NEW n \in Node, SetNode(x, n)
    PROVE  Shape'
<1>1. SameHeaders
  BY NodeStep
<1>2. sec[x[1]].store # "EMPTY" /\ x[1] \in Sectors
  BY AddrNat DEF Addrs
<1>3. \A s \in Sectors : s # x[1] => sec'[s] = sec[s]
  BY <1>2, Types DEF SetNode, IInv, SecType
<1> QED BY <1>1, <1>2, <1>3 DEF Shape, SameHeaders

LEMMA DeleteLive ==
    ASSUME IInv, Consistent, DeleteOld
    PROVE  /\ job.old \in Marked
           /\ Written' = Written /\ Marked' = Marked \ {job.old} /\ Live' = Live \ {job.old}
           /\ \A a \in Live' : At(a)' = At(a)
           /\ Addrs' = Addrs /\ SameHeaders /\ Shape'
<1>1. pc = "delete" /\ SetNode(job.old, Dead) /\ job.old \in Marked
  BY DEF DeleteOld, Consistent, OldReady
<1>2. PICK x \in Addrs : x = job.old
  BY <1>1, LiveIn
<1>3. Dead \in Node /\ Dead.st = "DELETED" /\ SetNode(x, Dead)
  BY <1>1, <1>2 DEF Dead, Node
<1>4. /\ Addrs' = Addrs
      /\ \A a \in Addrs : At(a)' = IF a = x THEN Dead ELSE At(a)
      /\ SameHeaders /\ Shape'
  BY <1>3, NodeStep, NodeShape DEF Consistent
<1>5. /\ Written' = Written \ {x} /\ Marked' = Marked \ {x} /\ Live' = Live \ {x}
  BY <1>3, <1>4, NodeLive
<1> QED BY <1>1, <1>2, <1>4, <1>5, LiveIn

LEMMA Atom_DeleteOld ==
    ASSUME IInv, Consistent, DeleteOld
    PROVE  Consistent'
<1>1. /\ pc = "delete" /\ pc' = "deldirty"
      /\ UNCHANGED <<job, req, gc_request, gcret, gcat, in_recovery_check, at, failed>>
  BY DEF DeleteOld, RestOfRAM
<1>2. PICK x \in Addrs : x = job.old
  BY DeleteLive, LiveIn
<1>3. /\ x \in Marked
      /\ Written' = Written /\ Marked' = Marked \ {x} /\ Live' = Live \ {x}
      /\ \A a \in Live' : At(a)' = At(a)
      /\ Addrs' = Addrs /\ SameHeaders /\ Shape'
  BY <1>2, DeleteLive
<1>4. /\ \A t \in Sectors : Clean(t)' = Clean(t)
      /\ \A t \in Sectors : sec'[t].dirty = sec[t].dirty
  BY <1>3 DEF Clean, SameHeaders
<1>5. TargetReady'
  BY <1>1 DEF TargetReady
<1>6. OldReady'
  BY <1>1, <1>2, <1>3 DEF Consistent, OldReady
<1>7. Swept'
  <2>1. job.by = "gc" => x = gcat
    BY <1>1, <1>2 DEF Consistent, Swept
  <2>2. \A a \in Live : a \in Nat \X Nat
    BY LiveIn, AddrNat
  <2>3. \A a \in Live' : a[1] = x[1] => a[2] # x[2]
    BY <1>3, <2>2 DEF Live
  <2>4. job.by = "gc" => \A a \in Live' : a[1] = gcat[1] => a[2] > gcat[2]
    <3>1. job.by = "gc" => \A a \in Live : a[1] = gcat[1] => a[2] >= gcat[2]
      BY <1>1 DEF Consistent, Swept
    <3>2. gcat[2] \in Nat
      BY DEF IInv, TypeOK
    <3> QED BY <1>3, <2>1, <2>2, <2>3, <3>1, <3>2
  <2> QED BY <1>1, <1>3, <1>4, <2>4 DEF Consistent, Swept
<1>8. Unique'
  <2>1. \A a \in Live : a[1] \in Sectors
    BY LiveIn, AddrNat
  <2>2. Live' = Written' \cup Marked'
    BY DEF Live
  <2>3. \A a \in Written : At(a)' = At(a)
    BY <1>3, <2>2
  <2>4. \A a \in Marked' : At(a)' = At(a) /\ a \in Marked /\ Clean(a[1])' = Clean(a[1])
    BY <1>3, <1>4, <2>1, <2>2 DEF Live
  <2>5. \A a \in Live' : At(a)' = At(a) /\ a \in Live
    BY <1>3
  <2> QED BY <1>1, <1>3, <2>3, <2>4, <2>5 DEF Consistent, Unique
<1>9. Recovered'
  BY <1>1, <1>2, <1>3 DEF Consistent, Recovered
<1>10. Phase'
  BY <1>1 DEF Consistent, Phase
<1> QED BY <1>3, <1>5, <1>6, <1>7, <1>8, <1>9, <1>10 DEF Consistent

LEMMA MarkLive ==
    ASSUME IInv, Consistent, MarkOld
    PROVE  /\ job.old \in Written
           /\ Written' = Written \ {job.old} /\ Marked' = Marked \cup {job.old} /\ Live' = Live
           /\ \A a \in Live : At(a)'.key = At(a).key /\ At(a)'.val = At(a).val
           /\ SameHeaders /\ Shape'
<1>1. pc = "mark" /\ SetStatus(job.old, "PRE_DELETE") /\ job.old \in Written
  BY DEF MarkOld, Consistent, OldReady
<1>2. PICK x \in Addrs : x = job.old
  BY <1>1, LiveIn
<1> DEFINE n == [At(x) EXCEPT !.st = "PRE_DELETE"]
<1>3. At(x) \in Node
  BY AddrNode
<1>4. n \in Node /\ n.st = "PRE_DELETE" /\ n.key = At(x).key /\ n.val = At(x).val
  BY <1>3 DEF Node
<1>5. SetNode(x, n)
  BY <1>1, <1>2 DEF SetStatus
<1> HIDE DEF n
<1>6. /\ Addrs' = Addrs
      /\ \A a \in Addrs : At(a)' = IF a = x THEN n ELSE At(a)
      /\ SameHeaders /\ Shape'
  BY <1>4, <1>5, NodeStep, NodeShape DEF Consistent
<1>7. /\ Written' = Written \ {x} /\ Marked' = Marked \cup {x} /\ Live' = Live \cup {x}
  BY <1>4, <1>6, NodeLive
<1>8. \A a \in Live : At(a)'.key = At(a).key /\ At(a)'.val = At(a).val
  BY <1>4, <1>6, LiveIn
<1> QED BY <1>1, <1>2, <1>6, <1>7, <1>8 DEF Live

LEMMA Atom_MarkOld ==
    ASSUME IInv, Consistent, MarkOld
    PROVE  Consistent'
<1>1. /\ pc = "mark" /\ pc' = "markdirty" /\ job.by \in {"set", "gc"}
      /\ UNCHANGED <<job, req, gc_request, gcret, gcat, in_recovery_check, at, failed>>
  BY DEF MarkOld, RestOfRAM, Consistent, OldReady
<1>2. PICK x \in Addrs : x = job.old
  BY MarkLive, LiveIn
<1>3. /\ x \in Written
      /\ Written' = Written \ {x} /\ Marked' = Marked \cup {x} /\ Live' = Live
      /\ \A a \in Live : At(a)'.key = At(a).key /\ At(a)'.val = At(a).val
      /\ SameHeaders /\ Shape'
  BY <1>2, MarkLive
<1>4. /\ \A t \in Sectors : Clean(t)' = Clean(t)
      /\ \A t \in Sectors : sec'[t].dirty = sec[t].dirty
  BY <1>3 DEF Clean, SameHeaders
<1>5. x[1] \in Sectors /\ \A a \in Live : a[1] \in Sectors
  BY LiveIn, AddrNat
<1>6. /\ job.old # NoNode /\ At(x).key = job.key
      /\ job.by = "gc" => At(x).val = job.val /\ ~Clean(x[1])
  BY <1>1, <1>2 DEF Consistent, OldReady, Swept, Clean
<1>7. ~in_recovery_check => Marked = {}
  BY <1>1 DEF Consistent, Recovered
<1>8. job.by = "set" => ~in_recovery_check
  BY <1>1 DEF Consistent, Phase
<1>9. TargetReady'
  <2>1. job.by = "set" => job.to \in Sectors
    BY <1>1 DEF IInv, Stage
  <2> QED BY <1>1, <1>3, <2>1 DEF Consistent, TargetReady, SameHeaders
<1>10. OldReady'
  <2>1. At(x)'.key = job.key /\ (job.by = "gc" => At(x)'.val = job.val) /\ x = job'.old
    BY <1>1, <1>2, <1>3, <1>6 DEF Live
  <2>2. (At(job.old).key = job.key)' /\ (job.by = "gc" => (At(job.old).val = job.val)')
    BY <1>1, <2>1 DEF At
  <2> QED BY <1>1, <1>2, <1>3, <1>6, <2>2 DEF OldReady
<1>11. Swept'
  BY <1>1, <1>3, <1>4 DEF Consistent, Swept
<1>12. Unique'
  <2>1. \A a \in Written : a \in Live
    BY DEF Live
  <2>2. \A a, b \in Written' : At(a)'.key = At(b)'.key => a = b
    BY <1>3, <2>1 DEF Consistent, Unique
  <2>3. \A a \in Written' : At(a)'.key # job'.key
    BY <1>1, <1>3, <1>6, <2>1 DEF Consistent, Unique
  <2>4. ASSUME NEW a \in Marked', NEW b \in Live, At(a).key = At(b).key, Clean(a[1])
        PROVE  At(a).val = At(b).val
    <3>1. CASE a \in Marked
      BY <2>4, <3>1 DEF Consistent, Unique
    <3>2. CASE a = x
      <4>1. job.by = "set" /\ Marked = {}
        BY <1>1, <1>6, <1>7, <1>8, <2>4, <3>2
      <4>2. b \in Written
        BY <4>1 DEF Live
      <4> QED BY <1>3, <2>4, <3>2, <4>2 DEF Consistent, Unique
    <3> QED BY <1>3, <3>1, <3>2
  <2>5. Marked' \subseteq Live
    BY <1>3 DEF Live
  <2> QED BY <1>1, <1>3, <1>4, <1>5, <2>2, <2>3, <2>4, <2>5 DEF Unique
<1>13. Recovered'
  <2>1. job.by = "gc" => ~(gcret = "new" /\ req[1] = Author)
    BY <1>3 DEF Consistent, Recovered, Live
  <2>2. job.by # "gc" => gcret = "idle"
    BY <1>1 DEF IInv, Control
  <2> QED BY <1>1, <1>2, <1>3, <1>7, <2>1, <2>2 DEF Consistent, Recovered
<1>14. Phase'
  BY <1>1 DEF Consistent, Phase
<1> QED BY <1>3, <1>9, <1>10, <1>11, <1>12, <1>13, <1>14 DEF Consistent

LEMMA Atom_GCSector ==
    ASSUME IInv, Consistent, GCSector
    PROVE  Consistent' /\ SameLive
<1> DEFINE D == DirtyAfter(gcat[1])
           s == Min(D)
           r == [sec[s] EXCEPT !.dirty = "GC"]
<1>1. /\ pc = "gc" /\ pc' = "gcnode" /\ gcat' = <<s, 0>>
      /\ UNCHANGED <<job, req, gc_request, gcret, in_recovery_check, at, failed>>
      /\ sec' = [sec EXCEPT ![s] = r] /\ D # {}
  BY DEF GCSector
<1>2. s \in D /\ \A t \in D : s <= t
  BY <1>1, MinLeast, SectorNat DEF DirtyAfter
<1>3. s \in Sectors /\ sec[s].dirty \in {"TRUE", "GC"} /\ sec[s] \in Sector /\ s \in Nat
  BY <1>2, Types, SectorNat DEF DirtyAfter, IInv, SecType
<1>4. \A t \in Sectors : t < s => Clean(t)
  <2> SUFFICES ASSUME NEW t \in Sectors, t < s PROVE Clean(t)
    OBVIOUS
  <2>1. t \in Nat /\ gcat[1] \in Nat
    BY SectorNat DEF IInv, TypeOK
  <2>2. CASE t <= gcat[1]
    BY <1>1, <2>2 DEF Consistent, Swept
  <2>3. CASE t > gcat[1]
    <3>1. t \notin D
      BY <1>2, <1>3, <2>1
    <3>2. ~sec[t].ok \/ sec[t].dirty \notin {"TRUE", "GC"}
      BY <2>3, <3>1 DEF DirtyAfter
    <3>3. sec[t] \in Sector
      BY Types DEF IInv, SecType
    <3>4. ~sec[t].ok => sec[t].dirty = "FALSE"
      BY DEF Consistent, Shape, Blank, Fresh
    <3> QED BY <3>2, <3>3, <3>4 DEF Clean, Sector
  <2> QED BY <2>1, <2>2, <2>3
<1>5. /\ r.nodes = sec[s].nodes /\ r.store = sec[s].store /\ r.ok = sec[s].ok /\ r.dirty = "GC"
      /\ sec[s].store # "EMPTY"
  BY <1>3 DEF Sector, Consistent, Shape, Blank, Fresh
<1> HIDE DEF D, s, r
<1>6. /\ SameNodes
      /\ sec'[s] = r
      /\ \A t \in Sectors : t # s => sec'[t] = sec[t]
  BY <1>1, <1>3, <1>5, HeaderStep DEF Consistent
<1>7. SameLive /\ Shape'
  BY <1>5, <1>6, SameNodesLive DEF Consistent, Shape
<1>8. \A t \in Sectors : /\ t # s => Clean(t)' = Clean(t)
                         /\ Clean(t)' => Clean(t)
  BY <1>5, <1>6 DEF Clean
<1>9. TargetReady' /\ OldReady'
  BY <1>1 DEF TargetReady, OldReady
<1>10. Swept'
  <2>1. gcat'[1] = s /\ gcat'[2] = 0
    BY <1>1
  <2>2. \A t \in Sectors : t < s => Clean(t)'
    BY <1>3, <1>4, <1>8, SectorNat
  <2>3. \A a \in Live : a[2] > 0
    BY LiveIn, EnvAssumption DEF Addrs
  <2> QED BY <1>1, <1>3, <1>5, <1>6, <1>7, <2>1, <2>2, <2>3 DEF Swept, SameLive
<1>11. Unique'
  <2>1. \A a \in Marked : a[1] \in Sectors
    BY LiveIn, AddrNat
  <2> QED BY <1>1, <1>7, <1>8, <2>1 DEF Consistent, Unique, SameLive, Live
<1>12. Recovered'
  BY <1>1, <1>7 DEF Consistent, Recovered, SameLive
<1>13. Phase'
  BY <1>1 DEF Consistent, Phase
<1> QED BY <1>7, <1>9, <1>10, <1>11, <1>12, <1>13 DEF Consistent

\* A sector without live nodes is erased, or given a header.
LEMMA EraseStep ==
    ASSUME IInv, Shape, NEW s \in Sectors, NEW r \in {Blank, Fresh},
           sec' = [sec EXCEPT ![s] = r], \A a \in Live : a[1] # s
    PROVE  /\ SameLive /\ Shape'
           /\ sec'[s] = r
           /\ \A t \in Sectors : t # s => sec'[t] = sec[t] /\ Clean(t)' = Clean(t)
           /\ Clean(s)'
<1>1. /\ Addrs' = {a \in Addrs : a[1] # s}
      /\ \A a \in Addrs' : At(a)' = At(a)
      /\ sec'[s] = r
      /\ \A t \in Sectors : t # s => sec'[t] = sec[t]
  BY FormatStep
<1>2. /\ Written' = {a \in Written : a[1] # s}
      /\ Marked' = {a \in Marked : a[1] # s}
      /\ Live' = {a \in Live : a[1] # s}
      /\ \A a \in Live' : At(a)' = At(a)
  BY <1>1, FormatLive
<1>3. SameLive
  BY <1>2 DEF SameLive, Live
<1>4. r.store = "EMPTY" /\ r.nodes = << >> /\ r.dirty = "FALSE"
  BY DEF Blank, Fresh
<1>5. Len(r.nodes) <= Cap
  BY <1>4, EnvAssumption
<1>6. Shape'
  BY <1>1, <1>4, <1>5 DEF Shape
<1> QED BY <1>1, <1>3, <1>4, <1>6 DEF Clean

LEMMA Atom_GCErase ==
    ASSUME IInv, Consistent, GCErase
    PROVE  Consistent' /\ SameLive
<1> DEFINE s == gcat[1]
<1>1. /\ pc = "gcnode" /\ pc' = "format"
      /\ UNCHANGED <<job, req, gc_request, gcret, gcat, in_recovery_check, at, failed>>
      /\ sec' = [sec EXCEPT ![s] = Blank] /\ LiveAfter(gcat) = {}
  BY DEF GCErase, RestOfRAM
<1>2. /\ s \in Sectors
      /\ \A t \in Sectors : t < s => Clean(t)
      /\ \A a \in Live : a[1] = s => a[2] > gcat[2]
  BY <1>1 DEF Consistent, Swept
<1>3. \A a \in Live : a[1] # s
  BY <1>1, <1>2, LiveAfterIs
<1> HIDE DEF s
<1>4. /\ SameLive /\ Shape'
      /\ \A t \in Sectors : t # s => sec'[t] = sec[t] /\ Clean(t)' = Clean(t)
  BY <1>1, <1>2, <1>3, EraseStep DEF Consistent
<1>5. TargetReady' /\ OldReady'
  BY <1>1 DEF TargetReady, OldReady
<1>6. Swept'
  <2>1. \A t \in Sectors : t < s => Clean(t)'
    BY <1>2, <1>4, SectorNat
  <2> QED BY <1>1, <1>2, <1>3, <1>4, <2>1 DEF Swept, SameLive, s
<1>7. Unique'
  <2>1. \A a \in Marked : a[1] \in Sectors /\ a[1] # s
    BY <1>3, LiveIn, AddrNat DEF Live
  <2> QED BY <1>1, <1>4, <2>1 DEF Consistent, Unique, SameLive, Live
<1>8. Recovered'
  BY <1>1, <1>4 DEF Consistent, Recovered, SameLive
<1>9. Phase'
  BY <1>1 DEF Consistent, Phase
<1> QED BY <1>4, <1>5, <1>6, <1>7, <1>8, <1>9 DEF Consistent

LEMMA Atom_GCFormat ==
    ASSUME IInv, Consistent, GCFormat
    PROVE  Consistent' /\ SameLive
<1>1. /\ pc = "format" /\ pc' = "gc"
      /\ UNCHANGED <<job, req, gc_request, gcret, gcat, in_recovery_check, at, failed>>
      /\ sec' = [sec EXCEPT ![gcat[1]] = Fresh]
  BY DEF GCFormat, RestOfRAM
<1>2. PICK s \in Sectors : /\ s = gcat[1]
                           /\ \A t \in Sectors : t < s => Clean(t)
                           /\ \A a \in Live : a[1] # s
  BY <1>1 DEF Consistent, Swept
<1>3. /\ SameLive /\ Shape'
      /\ \A t \in Sectors : t # s => sec'[t] = sec[t] /\ Clean(t)' = Clean(t)
      /\ Clean(s)'
  BY <1>1, <1>2, EraseStep DEF Consistent
<1>4. TargetReady' /\ OldReady'
  BY <1>1 DEF TargetReady, OldReady
<1>5. Swept'
  <2>1. \A t \in Sectors : t <= s => Clean(t)'
    BY <1>2, <1>3, SectorNat
  <2> QED BY <1>1, <1>2, <2>1 DEF Swept
<1>6. Unique'
  <2>1. \A a \in Marked : a[1] \in Sectors /\ a[1] # s
    BY <1>2, LiveIn, AddrNat DEF Live
  <2> QED BY <1>1, <1>3, <2>1 DEF Consistent, Unique, SameLive, Live
<1>7. Recovered'
  BY <1>1, <1>3 DEF Consistent, Recovered, SameLive
<1>8. Phase'
  BY <1>1 DEF Consistent, Phase
<1> QED BY <1>3, <1>4, <1>5, <1>6, <1>7, <1>8 DEF Consistent

LEMMA WipeLive ==
    ASSUME IInv, Consistent, WipeErase
    PROVE  /\ at[1] \in Sectors
           /\ Written' = {a \in Written : a[1] # at[1]} /\ Marked = {} /\ Marked' = {}
           /\ Live' = {a \in Live : a[1] # at[1]}
           /\ \A a \in Live' : At(a)' = At(a)
           /\ Shape'
           /\ \A t \in Sectors : t # at[1] => Clean(t)' = Clean(t)
<1>1. pc = "wipe" /\ at[1] <= SECTOR_NUM /\ sec' = [sec EXCEPT ![at[1]] = Blank]
  BY DEF WipeErase
<1>2. at[1] \in Sectors /\ Marked = {}
  BY <1>1, EnvAssumption DEF Consistent, Recovered, IInv, TypeOK, Sectors
<1>3. PICK s \in Sectors : s = at[1]
  BY <1>2
<1>4. /\ Addrs' = {a \in Addrs : a[1] # s}
      /\ \A a \in Addrs' : At(a)' = At(a)
      /\ sec'[s] = Blank
      /\ \A t \in Sectors : t # s => sec'[t] = sec[t]
  BY <1>1, <1>3, FormatStep
<1>5. /\ Written' = {a \in Written : a[1] # s}
      /\ Marked' = {a \in Marked : a[1] # s}
      /\ Live' = {a \in Live : a[1] # s}
      /\ \A a \in Live' : At(a)' = At(a)
  BY <1>4, FormatLive
<1>6. Blank.store = "EMPTY" /\ Len(Blank.nodes) <= Cap
  BY EnvAssumption DEF Blank
<1>7. Shape'
  BY <1>4, <1>6 DEF Consistent, Shape
<1> QED BY <1>2, <1>3, <1>4, <1>5, <1>7 DEF Clean

LEMMA Atom_WipeErase ==
    ASSUME IInv, Consistent, WipeErase
    PROVE  Consistent'
<1>1. /\ pc = "wipe" /\ pc' = "wipeformat"
      /\ UNCHANGED <<job, req, gc_request, gcret, gcat, in_recovery_check, at, failed>>
  BY DEF WipeErase, RestOfRAM
<1>2. PICK s \in Sectors : s = at[1] /\ s = at'[1]
  BY <1>1, WipeLive
<1>3. /\ Written' = {a \in Written : a[1] # s} /\ Marked = {} /\ Marked' = {}
      /\ Live' = {a \in Live : a[1] # s}
      /\ \A a \in Live' : At(a)' = At(a)
      /\ Shape'
  BY <1>2, WipeLive
<1>4. TargetReady' /\ OldReady' /\ Swept'
  BY <1>1 DEF TargetReady, OldReady, Swept
<1>5. Unique'
  <2>1. Written' \subseteq Live' /\ Written' \subseteq Written
    BY <1>3 DEF Live
  <2> QED BY <1>1, <1>3, <2>1 DEF Consistent, Unique
<1>6. Recovered'
  <2>1. \A a \in Live' : a[1] > s /\ a[1] >= s
    <3>1. \A a \in Live : a[1] >= s /\ a[1] \in Nat
      BY <1>1, <1>2, LiveIn, AddrNat DEF Consistent, Recovered
    <3>2. s \in Nat
      BY SectorNat
    <3> QED BY <1>3, <3>1, <3>2
  <2>2. gcret = "idle" /\ s > 0
    BY <1>1, <1>2 DEF IInv, Control, Consistent, Recovered
  <2> QED BY <1>1, <1>2, <1>3, <2>1, <2>2 DEF Recovered
<1>7. Phase'
  BY <1>1 DEF Consistent, Phase
<1> QED BY <1>3, <1>4, <1>5, <1>6, <1>7 DEF Consistent

LEMMA Atom_WipeFormat ==
    ASSUME IInv, Consistent, WipeFormat
    PROVE  Consistent' /\ SameLive
<1> DEFINE s == at[1]
<1>1. /\ pc = "wipeformat" /\ pc' = "wipe" /\ at' = <<s + 1, 0>>
      /\ UNCHANGED <<job, req, gc_request, gcret, gcat, in_recovery_check, failed>>
      /\ sec' = [sec EXCEPT ![s] = Fresh]
  BY DEF WipeFormat
<1>2. s \in Sectors /\ Marked = {} /\ \A a \in Live : a[1] > s
  BY <1>1 DEF Consistent, Recovered
<1>3. s \in Nat /\ \A a \in Live : a[1] \in Nat
  BY <1>2, LiveIn, AddrNat, SectorNat
<1> HIDE DEF s
<1>4. SameLive /\ Shape'
  <2>1. \A a \in Live : a[1] # s
    BY <1>2, <1>3
  <2> QED BY <1>1, <1>2, <2>1, EraseStep DEF Consistent
<1>5. TargetReady' /\ OldReady' /\ Swept'
  BY <1>1 DEF TargetReady, OldReady, Swept
<1>6. Unique'
  BY <1>1, <1>2, <1>4 DEF Consistent, Unique, SameLive, Live
<1>7. Recovered'
  <2>1. at'[1] = s + 1 /\ at'[1] > 0
    BY <1>1, <1>3
  <2>2. \A a \in Live : a[1] >= s + 1
    BY <1>2, <1>3
  <2>3. gcret = "idle"
    BY <1>1 DEF IInv, Control
  <2> QED BY <1>1, <1>2, <1>4, <2>1, <2>2, <2>3 DEF Recovered, SameLive
<1>8. Phase'
  BY <1>1 DEF Consistent, Phase
<1> QED BY <1>4, <1>5, <1>6, <1>7, <1>8 DEF Consistent

LEMMA Atom_CheckHeader ==
    ASSUME IInv, Consistent, CheckHeader
    PROVE  Consistent' /\ SameLive
<1>1. /\ pc = "hdr" /\ pc' = "hdr" /\ failed' = failed + 1 /\ Bad # {}
      /\ UNCHANGED <<job, req, gc_request, gcret, gcat, in_recovery_check, at>>
      /\ sec' = [sec EXCEPT ![Min(Bad)] = Fresh]
  BY DEF CheckHeader
<1>2. PICK s \in Sectors : s = Min(Bad) /\ ~sec[s].ok
  <2>1. Min(Bad) \in Bad
    BY <1>1, MinIn, SectorNat DEF Bad
  <2> QED BY <2>1 DEF Bad
<1>3. sec[s].store = "EMPTY" /\ sec[s].dirty = "FALSE"
  BY <1>2 DEF Consistent, Shape, Blank, Fresh
<1>4. \A a \in Live : a[1] # s
  BY <1>3, LiveIn DEF Addrs
<1>5. /\ SameLive /\ Shape' /\ sec'[s] = Fresh
      /\ \A t \in Sectors : t # s => sec'[t] = sec[t] /\ Clean(t)' = Clean(t)
      /\ Clean(s)'
  BY <1>1, <1>2, <1>4, EraseStep DEF Consistent
<1>6. TargetReady' /\ OldReady' /\ Swept'
  BY <1>1 DEF TargetReady, OldReady, Swept
<1>7. Unique'
  <2>1. \A a \in Marked : a[1] \in Sectors /\ a[1] # s
    BY <1>4, LiveIn, AddrNat DEF Live
  <2> QED BY <1>1, <1>5, <2>1 DEF Consistent, Unique, SameLive, Live
<1>8. Recovered'
  BY <1>1, <1>5 DEF Consistent, Recovered, SameLive
<1>9. Phase'
  <2>1. Freshes' = Freshes \cup {s} /\ s \notin Freshes
    BY <1>2, <1>5 DEF Freshes, Fresh, Blank
  <2>2. IsFiniteSet(Freshes) /\ Cardinality(Freshes) \in Nat
    BY SectorsFinite, FS_Subset, FS_CardinalityType DEF Freshes
  <2>3. Cardinality(Freshes') = Cardinality(Freshes) + 1
    BY <2>1, <2>2, FS_AddElement
  <2>4. failed <= Cardinality(Freshes) /\ failed \in Nat
    BY <1>1 DEF Consistent, Phase, Freshes, IInv, TypeOK
  <2>5. failed' <= Cardinality(Freshes')
    BY <1>1, <2>2, <2>3, <2>4
  <2> QED BY <1>1, <2>5 DEF Consistent, Phase, Freshes
<1> QED BY <1>5, <1>6, <1>7, <1>8, <1>9 DEF Consistent

LEMMA Atom_DropUnfinished ==
    ASSUME IInv, Consistent, ~abandoned', DropUnfinished
    PROVE  Consistent' /\ SameLive
<1> DEFINE x == First(Unfinished)
           n == [Dead EXCEPT !.st = "ERR_HDR"]
<1>1. /\ pc = "recenv" /\ pc' = "recend" /\ Unfinished # {}
      /\ UNCHANGED <<job, req, gc_request, gcret, gcat, in_recovery_check, at, failed>>
      /\ At(x).st = "PRE_WRITE" /\ SetNode(x, n)
      /\ ~\E b \in Unfinished : At(b).st = "PRE_DELETE"
  BY DEF DropUnfinished
<1>2. x \in Addrs
  BY <1>1, UnfinishedIs, FirstIn DEF Unfinished
<1>3. Marked = {}
  BY <1>1, UnfinishedIs DEF Marked
<1>4. n \in Node /\ n.st = "ERR_HDR"
  BY DEF Dead, Node
<1> HIDE DEF x, n
<1>5. /\ Addrs' = Addrs
      /\ \A a \in Addrs : At(a)' = IF a = x THEN n ELSE At(a)
      /\ SameHeaders /\ Shape'
  BY <1>1, <1>2, <1>4, NodeStep, NodeShape DEF Consistent
<1>6. SameLive
  <2>1. x \notin Live
    BY <1>1 DEF Live, Written, Marked
  <2>2. Written' = Written \ {x} /\ Marked' = Marked \ {x} /\ Live' = Live \ {x}
    BY <1>2, <1>4, <1>5, NodeLive
  <2> QED BY <1>5, <2>1, <2>2, LiveIn DEF SameLive, Live
<1>7. TargetReady' /\ OldReady' /\ Swept'
  BY <1>1 DEF TargetReady, OldReady, Swept
<1>8. Unique'
  BY <1>1, <1>3, <1>6 DEF Consistent, Unique, SameLive, Live
<1>9. Recovered'
  BY <1>1, <1>3, <1>6 DEF Consistent, Recovered, SameLive
<1>10. Phase'
  BY <1>1 DEF Consistent, Phase
<1> QED BY <1>5, <1>6, <1>7, <1>8, <1>9, <1>10 DEF Consistent

-----------------------------------------------------------------------------
\* The invariant.

LEMMA InitConsistent == Init => Consistent
<1> SUFFICES ASSUME Init PROVE Consistent
  OBVIOUS
<1>1. /\ sec = [s \in Sectors |-> Blank] /\ pc = "hdr" /\ in_recovery_check
      /\ gcret = "idle" /\ failed = 0
  BY DEF Init
<1>2. \A s \in Sectors : sec[s] = Blank
  BY <1>1
<1>3. Addrs = {}
  <2>1. \A a \in Sectors \X (1..Cap) : a[1] \in Sectors
    OBVIOUS
  <2> QED BY <1>2, <2>1 DEF Addrs, Blank
<1>4. Live = {} /\ Written = {} /\ Marked = {}
  BY <1>3, LiveIn
<1>5. Shape
  BY <1>2, EnvAssumption DEF Shape, Blank
<1>6. TargetReady /\ OldReady /\ Swept
  BY <1>1 DEF TargetReady, OldReady, Swept
<1>7. Unique /\ Recovered
  BY <1>1, <1>4 DEF Unique, Recovered
<1>8. failed <= Cardinality(Freshes)
  BY <1>1, FreshCount
<1>9. Phase
  BY <1>1, <1>8 DEF Phase, Freshes
<1> QED BY <1>5, <1>6, <1>7, <1>9 DEF Consistent

LEMMA StutterConsistent ==
    ASSUME IInv, Consistent, UNCHANGED vars
    PROVE  Consistent'
<1>1. /\ SameLive /\ Shape' /\ SameNodes /\ (\A t : Clean(t)' = Clean(t)) /\ sec' = sec
      /\ UNCHANGED <<pc, job, req, gc_request, gcret, gcat, in_recovery_check, at, failed>>
  BY SameSec DEF vars, ram, Consistent
<1>2. TargetReady'
  BY <1>1 DEF Consistent, TargetReady, Target, SameNodes, At
<1>3. OldReady'
  <2>1. (\E w \in Written : At(w).key = job.key) => \E w \in Written' : At(w)'.key = job'.key
    BY <1>1 DEF SameLive, Live
  <2>2. At(job.old)' = At(job.old) /\ Clean(job.old[1])' = Clean(job.old[1])
    BY <1>1 DEF At, Clean
  <2>3. Written' = Written /\ Marked' = Marked /\ Addrs' = Addrs
    BY <1>1 DEF SameLive, SameNodes
  <2> QED BY <1>1, <2>1, <2>2, <2>3 DEF Consistent, OldReady
<1>4. Swept' /\ Unique' /\ Recovered' /\ Phase'
  BY <1>1 DEF Consistent, Swept, Unique, Recovered, Phase, SameLive, Live
<1> QED BY <1>1, <1>2, <1>3, <1>4 DEF Consistent

LEMMA AbandonedStays ==
    ASSUME IInv, [Next]_vars, ~abandoned'
    PROVE  ~abandoned
<1>1. CASE Call
  BY <1>1 DEF Call, ef_set_env, ef_env_set_default
<1>2. CASE Boot
  BY <1>2 DEF Boot, CheckHeader, CheckHeadersDone, ResumeGC, RecoverOld, DropUnfinished,
              RecoverNoMore, RecoverEnd, RestOfRAM
<1>3. CASE Write
  BY <1>3 DEF Write, NewEnv, NewEnvFails, MarkOld, MarkOldDirty, UpdateSecStatus,
              WritePreWrite, WriteHeader, WriteValue, WriteCommit, DeleteOld,
              DeleteOldDirty, Done, RestOfRAM
<1>4. CASE Collect
  BY <1>4 DEF Collect, GCSector, GCEnd, GCMove, MoveAlloc, MoveFails, GCErase, GCFormat,
              RestOfRAM
<1>5. CASE Wipe
  BY <1>5 DEF Wipe, WipeErase, WipeFormat, WipeDefault, RestOfRAM
<1>6. CASE PowerLoss
  BY <1>6 DEF PowerLoss
<1>7. CASE UNCHANGED vars
  BY <1>7 DEF vars
<1> QED BY <1>1, <1>2, <1>3, <1>4, <1>5, <1>6, <1>7 DEF Next, Work

LEMMA StepConsistent ==
    ASSUME IInv, Consistent, ~abandoned', [Next]_vars
    PROVE  Consistent'
<1>1. CASE Call
  BY <1>1, Atom_set, Atom_default DEF Call
<1>2. CASE Boot
  BY <1>2, Atom_CheckHeader, Atom_CheckHeadersDone, Atom_ResumeGC, Atom_RecoverOld,
     Atom_DropUnfinished, Atom_RecoverNoMore, Atom_RecoverEnd DEF Boot
<1>3. CASE Write
  BY <1>3, Atom_NewEnv, Atom_NewEnvFails, Atom_MarkOld, Atom_MarkOldDirty,
     Atom_UpdateSecStatus, Atom_WritePreWrite, Atom_WriteHeader, Atom_WriteCommit,
     Atom_DeleteOld, Atom_DeleteOldDirty, Atom_Done DEF Write
<1>4. CASE Collect
  BY <1>4, Atom_GCSector, Atom_GCEnd, Atom_GCMove, Atom_MoveAlloc, Atom_MoveFails,
     Atom_GCErase, Atom_GCFormat DEF Collect
<1>5. CASE Wipe
  BY <1>5, Atom_WipeErase, Atom_WipeFormat, Atom_WipeDefault DEF Wipe
<1>6. CASE PowerLoss
  BY <1>6, Atom_PowerLoss
<1>7. CASE UNCHANGED vars
  BY <1>7, StutterConsistent
<1> QED BY <1>1, <1>2, <1>3, <1>4, <1>5, <1>6, <1>7 DEF Next, Work

\* The store stays consistent through every write, collection, wipe, recovery
\* and loss of power, until a value has to be abandoned.
THEOREM StaysConsistent == Spec => []JInv
<1>1. Init => JInv
  BY InitConsistent DEF JInv
<1>2. IInv /\ JInv /\ [Next]_vars => JInv'
  BY AbandonedStays, StepConsistent DEF JInv
<1> QED BY <1>1, <1>2, Invariance, PTL DEF Spec

\* Between operations every key has at most one finished node and none that is
\* half replaced: a read of ef_get_env() finds the value that was stored.
THEOREM ReadsBackHolds == Spec => []ReadsBack
<1>1. ASSUME IInv, JInv PROVE ReadsBack
  <2> SUFFICES ASSUME pc = "idle", ~abandoned, NEW k \in Keys
               PROVE  Cardinality(FindEnv(k)) <= 1 /\ Replaced(k) = {}
    BY DEF ReadsBack
  <2>1. /\ FindEnv(k) = {a \in Written : At(a).key = k}
        /\ Replaced(k) = {a \in Marked : At(a).key = k}
    BY <1>1, Found
  <2>2. Consistent
    BY <1>1 DEF JInv
  <2>3. Marked = {}
    BY <2>2 DEF Consistent, Phase, Recovered
  <2>4. CASE FindEnv(k) = {}
    BY <2>1, <2>3, <2>4, FS_EmptySet
  <2>5. CASE FindEnv(k) # {}
    <3>1. PICK a : FindEnv(k) = {a}
      BY <2>1, <2>2, <2>5 DEF Consistent, Unique
    <3> QED BY <2>1, <2>3, <3>1, FS_Singleton
  <2> QED BY <2>4, <2>5
<1> QED BY <1>1, Invariance, StaysConsistent, PTL

-----------------------------------------------------------------------------
\* What a key is worth after the steps that change what counts.

\* A key none of whose nodes changes is worth what it was.
LEMMA OtherKey ==
    ASSUME Worth, Worth', NEW k \in Keys,
           \A a : (a \in Written' /\ At(a)'.key = k) <=> (a \in Written /\ At(a).key = k),
           \A a : (a \in Marked' /\ At(a)'.key = k) <=> (a \in Marked /\ At(a).key = k),
           \A a \in Live : At(a).key = k => At(a)'.val = At(a).val
    PROVE  store'[k] = store[k]
<1>1. CASE \E a \in Written : At(a).key = k
  BY <1>1 DEF Worth, Live
<1>2. CASE (\A a \in Written : At(a).key # k) /\ \E a \in Marked : At(a).key = k
  <2>1. PICK f \in Marked : FirstOf(f, k)
    BY <1>2 DEF Worth
  <2>2. FirstOf(f, k)' /\ f \in Marked' /\ At(f)'.val = At(f).val
    BY <2>1 DEF FirstOf, Live
  <2>3. \A a \in Written' : At(a)'.key # k
    BY <1>2
  <2> QED BY <1>2, <2>1, <2>2, <2>3 DEF Worth
<1>3. CASE (\A a \in Written : At(a).key # k) /\ (\A a \in Marked : At(a).key # k)
  BY <1>3 DEF Worth
<1> QED BY <1>1, <1>2, <1>3

LEMMA ConsistentWorth ==
    /\ IInv /\ Consistent => OneWritten /\ Worth
    /\ IInv' /\ Consistent' => OneWritten' /\ Worth'
<1>1. Consistent => OneWritten
  BY DEF Consistent, Unique, OneWritten
<1>2. Consistent' => OneWritten'
  BY DEF Consistent, Unique, OneWritten
<1> QED BY <1>1, <1>2, WorthHolds, WorthNext

\* The marked nodes of a collected key that come before the one in hand lie in
\* sectors already swept, and say the same.
LEMMA EarlierSame ==
    ASSUME IInv, Consistent, pc \in WritePCs \ {"deldirty", "done"},
           job.by \in {"gc", "rec"}, job.old \in Live,
           NEW f \in Marked, At(f).key = job.key, Before(f, job.old)
    PROVE  At(f).val = job.val
<1>1. At(job.old).key = job.key /\ At(job.old).val = job.val /\ job.old # NoNode
  BY LiveIn, NoLossless DEF Consistent, OldReady
<1>2. f[1] \in Nat /\ f[2] \in Nat /\ job.old[1] \in Nat /\ job.old[2] \in Nat
      /\ f[1] \in Sectors /\ f \in Live
  BY LiveIn, AddrNat DEF Live
<1>3. CASE job.by = "gc"
  <2>1. gcat = job.old /\ \A a \in Live : a[1] = gcat[1] => a[2] >= gcat[2]
    BY <1>3 DEF Consistent, Swept
  <2>2. f[1] < gcat[1]
    BY <1>2, <2>1 DEF Before
  <2>3. Clean(f[1])
    BY <1>2, <1>3, <2>2 DEF Consistent, Swept
  <2> QED BY <1>1, <2>3 DEF Consistent, Unique
<1>4. CASE job.by = "rec"
  <2>1. at = job.old /\ (f = at \/ Before(at, f))
    BY <1>4 DEF Consistent, Recovered
  <2> QED BY <1>2, <2>1 DEF Before
<1> QED BY <1>3, <1>4

LEMMA StoreMarkOld ==
    ASSUME IInv, IInv', Consistent, Consistent', MarkOld
    PROVE  store' = store
<1>1. Worth /\ Worth'
  BY ConsistentWorth
<1>2. pc = "mark" /\ job.by \in {"set", "gc"} /\ job.old \in Written /\ At(job.old).key = job.key
      /\ job.old # NoNode
  BY DEF MarkOld, Consistent, OldReady
<1>3. PICK x \in Addrs : x = job.old
  BY <1>2, LiveIn
<1>4. /\ x \in Written
      /\ Written' = Written \ {x} /\ Marked' = Marked \cup {x} /\ Live' = Live
      /\ \A a \in Live : At(a)'.key = At(a).key /\ At(a)'.val = At(a).val
  BY <1>3, MarkLive
<1>5. Written \subseteq Live /\ Marked \subseteq Live
  BY DEF Live
<1>6. ASSUME NEW k \in Keys PROVE store'[k] = store[k]
  <2>1. CASE k # job.key
    <3>1. At(x).key # k
      BY <1>2, <1>3, <2>1
    <3>2. /\ \A a : (a \in Written' /\ At(a)'.key = k) <=> (a \in Written /\ At(a).key = k)
          /\ \A a : (a \in Marked' /\ At(a)'.key = k) <=> (a \in Marked /\ At(a).key = k)
          /\ \A a \in Live : At(a).key = k => At(a)'.val = At(a).val
      BY <1>4, <1>5, <3>1
    <3> QED BY <1>1, <3>2, OtherKey
  <2>2. CASE k = job.key
    <3>1. store[k] = At(x).val
      BY <1>1, <1>2, <1>3, <2>2 DEF Worth
    <3>2. \A a \in Written' : At(a)'.key # k
      BY <1>2, <1>3, <1>4, <1>5, <2>2 DEF Consistent, Unique
    <3>3. x \in Marked' /\ At(x)'.key = k
      BY <1>2, <1>3, <1>4, <1>5, <2>2
    <3>4. PICK f \in Marked' : FirstOf(f, k)'
      BY <1>1, <3>3 DEF Worth
    <3>5. store'[k] = At(f)'.val /\ At(f)'.key = k /\ (f = x \/ Before(f, x))
      BY <1>1, <3>2, <3>3, <3>4 DEF Worth, FirstOf
    <3>6. CASE f = x
      BY <1>4, <1>5, <3>1, <3>5, <3>6
    <3>7. CASE f # x
      <4>1. f \in Marked /\ At(f).key = job.key /\ At(f)'.val = At(f).val /\ Before(f, job.old)
        BY <1>3, <1>4, <1>5, <2>2, <3>4, <3>5, <3>7
      <4>2. job.by = "gc"
        BY <1>2, <4>1 DEF Consistent, Recovered, Phase
      <4>3. At(f).val = job.val /\ At(x).val = job.val
        BY <1>2, <1>3, <1>5, <4>1, <4>2, EarlierSame DEF Consistent, OldReady
      <4> QED BY <3>1, <3>5, <4>1, <4>3
    <3> QED BY <3>6, <3>7
  <2> QED BY <2>1, <2>2
<1> QED BY <1>6, StoreFun

LEMMA StoreCommit ==
    ASSUME IInv, IInv', Consistent, Consistent', WriteCommit
    PROVE  \/ job.by \in {"set", "default"} /\ store' = [store EXCEPT ![job.key] = job.val]
           \/ store' = store
<1>1. Worth /\ Worth'
  BY ConsistentWorth
<1>2. PICK x \in Addrs : x = Target
  BY CommitLive
<1>3. /\ x \notin Live
      /\ Written' = Written \cup {x} /\ Marked' = Marked /\ Live' = Live \cup {x}
      /\ \A a \in Live : At(a)' = At(a)
      /\ At(x)'.key = job.key /\ At(x)'.val = job.val
      /\ \A w \in Written : At(w).key # job.key
  BY <1>2, CommitLive
<1>4. Written \subseteq Live /\ Marked \subseteq Live
  BY DEF Live
<1>5. pc = "commit" /\ job.key \in Keys /\ job.by \in {"set", "default", "gc", "rec"}
  BY DEF WriteCommit, IInv, Stage, TypeOK, Job
<1>6. ASSUME NEW k \in Keys, k # job.key PROVE store'[k] = store[k]
  <2>1. /\ \A a : (a \in Written' /\ At(a)'.key = k) <=> (a \in Written /\ At(a).key = k)
        /\ \A a : (a \in Marked' /\ At(a)'.key = k) <=> (a \in Marked /\ At(a).key = k)
        /\ \A a \in Live : At(a).key = k => At(a)'.val = At(a).val
    BY <1>3, <1>4, <1>6
  <2> QED BY <1>1, <2>1, OtherKey
<1>7. store'[job.key] = job.val
  BY <1>1, <1>3, <1>5 DEF Worth
<1>8. CASE job.by \in {"set", "default"}
  <2>1. \A k \in Keys : store'[k] = [store EXCEPT ![job.key] = job.val][k]
    BY <1>6, <1>7 DEF store
  <2>2. store' = [store EXCEPT ![job.key] = job.val]
    BY <2>1 DEF store
  <2> QED BY <1>8, <2>2
<1>9. CASE job.by \in {"gc", "rec"}
  <2>1. job.old \in Marked /\ At(job.old).key = job.key /\ At(job.old).val = job.val
    BY <1>5, <1>9 DEF Consistent, OldReady
  <2>2. PICK f \in Marked : FirstOf(f, job.key)
    BY <1>1, <1>5, <2>1 DEF Worth
  <2>3. /\ store[job.key] = At(f).val /\ At(f).key = job.key
        /\ f = job.old \/ Before(f, job.old)
    BY <1>1, <1>3, <1>5, <2>1, <2>2 DEF Worth, FirstOf
  <2>4. At(f).val = job.val
    BY <1>4, <1>5, <1>9, <2>1, <2>3, EarlierSame
  <2>5. \A k \in Keys : store'[k] = store[k]
    BY <1>6, <1>7, <2>3, <2>4
  <2> QED BY <2>5, StoreFun
<1> QED BY <1>5, <1>8, <1>9

LEMMA StoreDeleteOld ==
    ASSUME IInv, IInv', Consistent, Consistent', DeleteOld
    PROVE  store' = store
<1>1. Worth /\ Worth'
  BY ConsistentWorth
<1>2. pc = "delete" /\ job.old \in Marked /\ At(job.old).key = job.key /\ job.old # NoNode
  BY DEF DeleteOld, Consistent, OldReady
<1>3. PICK x \in Addrs : x = job.old
  BY <1>2, LiveIn
<1>4. /\ Written' = Written /\ Marked' = Marked \ {x} /\ Live' = Live \ {x}
      /\ \A a \in Live' : At(a)' = At(a)
  BY <1>3, DeleteLive
<1>5. \A a \in Written : a \in Live' /\ a # x
  BY <1>2, <1>3, <1>4, LiveIn DEF Live
<1>6. ASSUME NEW k \in Keys PROVE store'[k] = store[k]
  <2>1. CASE k # job.key
    <3>1. At(x).key # k /\ Marked \subseteq Live
      BY <1>2, <1>3, <2>1 DEF Live
    <3>2. /\ \A a : (a \in Written' /\ At(a)'.key = k) <=> (a \in Written /\ At(a).key = k)
          /\ \A a : (a \in Marked' /\ At(a)'.key = k) <=> (a \in Marked /\ At(a).key = k)
          /\ \A a \in Live : At(a).key = k => At(a)'.val = At(a).val
      BY <1>4, <1>5, <3>1
    <3> QED BY <1>1, <3>2, OtherKey
  <2>2. CASE k = job.key
    <3>1. PICK w \in Written : At(w).key = job.key
      BY <1>2 DEF Consistent, OldReady
    <3>2. At(w)' = At(w) /\ w \in Written'
      BY <1>4, <1>5
    <3> QED BY <1>1, <2>2, <3>1, <3>2 DEF Worth
  <2> QED BY <2>1, <2>2
<1> QED BY <1>6, StoreFun

LEMMA StoreWipe ==
    ASSUME IInv, IInv', Consistent, Consistent', WipeErase
    PROVE  pc = "wipe" /\ \A k \in Keys : store'[k] \in {store[k], NoVal}
<1>1. Worth /\ Worth'
  BY ConsistentWorth
<1>2. PICK s \in Sectors : s = at[1]
  BY WipeLive
<1>3. /\ Written' = {a \in Written : a[1] # s} /\ Marked' = {}
      /\ Live' = {a \in Live : a[1] # s}
      /\ \A a \in Live' : At(a)' = At(a)
  BY <1>2, WipeLive
<1>4. Written' \subseteq Live' /\ Written' \subseteq Written
  BY <1>3 DEF Live
<1>5. ASSUME NEW k \in Keys PROVE store'[k] \in {store[k], NoVal}
  <2>1. CASE \E a \in Written' : At(a)'.key = k
    BY <1>1, <1>3, <1>4, <2>1 DEF Worth
  <2>2. CASE \A a \in Written' : At(a)'.key # k
    BY <1>1, <1>3, <2>2 DEF Worth
  <2> QED BY <2>1, <2>2
<1> QED BY <1>5 DEF WipeErase

\* The steps that leave the live nodes alone.
LEMMA QuietStep ==
    ASSUME IInv, Consistent, ~abandoned', [Next]_vars,
           ~MarkOld, ~WriteCommit, ~DeleteOld, ~WipeErase
    PROVE  SameLive
<1>1. CASE \/ MarkOldDirty \/ DeleteOldDirty \/ UpdateSecStatus \/ WritePreWrite
           \/ WriteHeader \/ WriteValue
  BY <1>1, Atom_MarkOldDirty, Atom_DeleteOldDirty, Atom_UpdateSecStatus,
     Atom_WritePreWrite, Atom_WriteHeader
<1>2. CASE GCSector \/ GCErase \/ GCFormat \/ WipeFormat \/ CheckHeader \/ DropUnfinished
  BY <1>2, Atom_GCSector, Atom_GCErase, Atom_GCFormat, Atom_WipeFormat,
     Atom_CheckHeader, Atom_DropUnfinished
<1>3. CASE \/ Call \/ CheckHeadersDone \/ ResumeGC \/ RecoverOld \/ RecoverNoMore
           \/ RecoverEnd \/ NewEnv \/ NewEnvFails \/ Done \/ GCEnd \/ GCMove
           \/ MoveAlloc \/ MoveFails \/ WipeDefault \/ PowerLoss \/ UNCHANGED vars
  <2>1. sec' = sec
    BY <1>3 DEF Call, ef_set_env, ef_env_set_default, CheckHeadersDone, ResumeGC,
                RecoverOld, RecoverNoMore, RecoverEnd, NewEnv, NewEnvFails, Done,
                GCEnd, GCMove, MoveAlloc, MoveFails, WipeDefault, PowerLoss, vars
  <2> QED BY <2>1, SameSec
<1> QED BY <1>1, <1>2, <1>3 DEF Next, Work, Boot, Write, Collect, Wipe

\* ef_set_env() is atomic for any keys, values, sectors, nodes per sector and
\* number of power losses: until a value has to be abandoned, what the flash
\* says a key is worth changes only when its new node is finished, or is wiped.
THEOREM AtomicSetHolds == Spec => AtomicSet
<1> DEFINE A == \/ abandoned'
                \/ store' = store
                \/ /\ pc = "commit" /\ job.by \in {"set", "default"}
                   /\ store' = [store EXCEPT ![job.key] = job.val]
                \/ pc = "wipe" /\ \A k \in Keys : store'[k] \in {store[k], NoVal}
<1>1. ASSUME IInv, IInv', JInv, JInv', [Next]_vars PROVE A
  <2> SUFFICES ASSUME ~abandoned' PROVE A
    OBVIOUS
  <2>1. Consistent /\ Consistent'
    BY <1>1, AbandonedStays DEF JInv
  <2>2. CASE MarkOld
    BY <1>1, <2>1, <2>2, StoreMarkOld
  <2>3. CASE WriteCommit
    BY <1>1, <2>1, <2>3, StoreCommit DEF WriteCommit
  <2>4. CASE DeleteOld
    BY <1>1, <2>1, <2>4, StoreDeleteOld
  <2>5. CASE WipeErase
    BY <1>1, <2>1, <2>5, StoreWipe
  <2>6. CASE ~MarkOld /\ ~WriteCommit /\ ~DeleteOld /\ ~WipeErase
    BY <1>1, <2>1, <2>6, QuietStep, SameStore, ConsistentWorth
  <2> QED BY <2>2, <2>3, <2>4, <2>5, <2>6
<1>2. IInv /\ IInv' /\ JInv /\ JInv' /\ [Next]_vars => [A]_vars
  BY <1>1
<1> QED BY <1>2, Invariance, StaysConsistent, PTL DEF Spec, AtomicSet

-----------------------------------------------------------------------------
\* Room.  In a roomy store a clean sector never fills up, so that a collection
\* needs one sector to move into and gives back the one it collected.

\* A header is there, and the sector was being collected when it was last left.
Stopped(t) == t \in Sectors /\ sec[t].ok /\ sec[t].dirty = "GC"
Refuge == \E t \in Sectors : sec[t].ok /\ Clean(t)

Junk(s) == {a \in Addrs : a[1] = s /\ At(a).st # "WRITE"}
Pending(s) == IF \/ pc \in {"header", "body", "commit"} /\ job.to = s
                 \/ pc = "markdirty" /\ job.old[1] = s
              THEN 1 ELSE 0

\* A clean sector is not full: what it holds besides the values was torn by a
\* loss of power, or is being written.
Fits ==
    \A s \in Sectors : Clean(s) =>
        sec[s].store # "FULL" /\ Cardinality(Junk(s)) <= losses + Pending(s)

\* A collection is asked for only in it, or just before it.
Asked ==
    /\ InGC => gc_request
    /\ gc_request => InGC \/ pc = "recend" \/ JobOf("set", {"delete", "deldirty", "done"})

\* Who is without a header: a sector just erased, or any of them at boot.
Headers ==
    /\ \A s \in Sectors : ~sec[s].ok =>
          \/ pc = "hdr"
          \/ pc = "format" /\ s = gcat[1]
          \/ pc = "wipeformat" /\ s = at[1]
    /\ pc = "format" => ~sec[gcat[1]].ok
    /\ pc = "wipeformat" => ~sec[at[1]].ok
    /\ pc = "new" /\ already_gc => \A s \in Sectors : Clean(s)
    /\ pc \in {"wipe", "wipeformat"} => \A s \in Sectors : s < at[1] => sec[s] = Fresh
    /\ pc = "new" /\ req[1] = Author => \A s \in Sectors : sec[s] = Fresh
    /\ gcret = "new" => req[1] # Author
    /\ JobOf("default", {"claim"}) => sec[job.to].store = "EMPTY"
    /\ JobOf("default", {"prewrite", "header", "body", "commit"}) => ~job.is_full

\* Where the next collection will find, or get, its empty sector.
Spare ==
    /\ ~InGC /\ pc \notin {"wipeformat", "hdr", "recgc"} => Empty # {}
    /\ (pc = "claim" /\ job.by # "gc") \/ JobOf("set", {"mark", "markdirty"}) =>
          Empty \ {job.to} # {}
    /\ InGC => Refuge
    /\ pc = "gc" => Empty # {} \/ \E t \in Sectors : t > gcat[1] /\ Stopped(t)
    /\ pc = "hdr" => at = NoNode /\ (Empty # {} \/ Bad # {} \/ (Refuge /\ \E t \in Sectors : Stopped(t)))
    /\ pc = "recgc" =>
          Empty # {} \/ (Refuge /\ \E t \in Sectors : t > at[1] /\ Stopped(t))

Spacious == Fits /\ Asked /\ Headers /\ Spare
RInv == Roomy /\ ~abandoned => Spacious

LEMMA AddrsFinite ==
    /\ IsFiniteSet(Addrs)
    /\ \A s : IsFiniteSet(Junk(s)) /\ Cardinality(Junk(s)) \in Nat
    /\ \A s : IsFiniteSet(Junk(s)') /\ Cardinality(Junk(s)') \in Nat
<1>1. IsFiniteSet(Sectors \X (1..Cap))
  <2>1. 1 \in Int /\ Cap \in Int
    BY EnvAssumption
  <2>2. IsFiniteSet(1..Cap)
    BY <2>1, FS_Interval
  <2> QED BY <2>2, SectorsFinite, FS_Product
<1>2. IsFiniteSet(Addrs) /\ IsFiniteSet(Addrs')
  BY <1>1, FS_Subset DEF Addrs
<1>3. ASSUME NEW s PROVE IsFiniteSet(Junk(s)) /\ Cardinality(Junk(s)) \in Nat
  BY <1>2, FS_Subset, FS_CardinalityType DEF Junk
<1>4. ASSUME NEW s PROVE IsFiniteSet(Junk(s)') /\ Cardinality(Junk(s)') \in Nat
  BY <1>2, FS_Subset, FS_CardinalityType DEF Junk
<1> QED BY <1>2, <1>3, <1>4

\* A sector with room for one more value of a key has a node for the others
\* at most, and junk.
LEMMA Count ==
    ASSUME IInv, Consistent, pc = "claim", NEW s \in Sectors, sec[s].store # "EMPTY"
    PROVE  Len(sec[s].nodes) + 1 <= Cardinality(Keys) + Cardinality(Junk(s))
<1> DEFINE L == Len(sec[s].nodes)
           W == {a \in Written : a[1] = s}
           S == {a \in Addrs : a[1] = s}
           K == Keys \ {job.key}
<1>1. L \in Nat /\ L <= Cap
  BY Types DEF IInv, SecType, Sector, Consistent, Shape
<1>2. IsFiniteSet(S) /\ IsFiniteSet(W) /\ IsFiniteSet(Junk(s)) /\ Cardinality(Junk(s)) \in Nat
      /\ Cardinality(W) \in Nat
  BY AddrsFinite, FS_Subset, FS_CardinalityType, LiveIn
<1>3. S = Junk(s) \cup W /\ Junk(s) \cap W = {}
  BY DEF Junk, Written
<1>4. Cardinality(S) = Cardinality(Junk(s)) + Cardinality(W)
  <2>1. Cardinality(S) = Cardinality(Junk(s)) + Cardinality(W) - Cardinality(Junk(s) \cap W)
    BY <1>2, <1>3, FS_Union
  <2>2. Cardinality(Junk(s) \cap W) = 0
    BY <1>3, FS_EmptySet
  <2> HIDE DEF S, W
  <2> QED BY <1>2, <2>1, <2>2
<1>5. L <= Cardinality(S)
  <2> DEFINE f == [i \in 1..L |-> <<s, i>>]
  <2>1. f \in Injection(1..L, S)
    <3>1. \A i \in 1..L : <<s, i>> \in S
      BY <1>1, EnvAssumption DEF Addrs
    <3>2. \A i, j \in 1..L : f[i] = f[j] => i = j
      OBVIOUS
    <3> QED BY <3>1, <3>2 DEF Injection, IsInjective
  <2>2. Cardinality(1..L) <= Cardinality(S)
    BY <1>2, <2>1, FS_Injection
  <2>3. Cardinality(1..L) = L
    <3> HIDE DEF L
    <3>1. 1 \in Int /\ L \in Int /\ L \in Nat
      BY <1>1
    <3>2. Cardinality(1..L) = IF 1 > L THEN 0 ELSE L - 1 + 1
      BY <3>1, FS_Interval
    <3> QED BY <3>1, <3>2
  <2> QED BY <2>2, <2>3
<1>6. Cardinality(W) + 1 <= Cardinality(Keys)
  <2> DEFINE g == [a \in W |-> At(a).key]
  <2>1. job.key \in Keys
    BY DEF IInv, Stage, TypeOK, Job
  <2>2. IsFiniteSet(Keys) /\ Cardinality(Keys) \in Nat
    BY EnvAssumption, FS_CardinalityType
  <2>3. IsFiniteSet(K) /\ Cardinality(K) = Cardinality(Keys) - 1
    BY <2>1, <2>2, FS_RemoveElement
  <2>4. g \in Injection(W, K)
    <3>1. \A a \in W : At(a).key \in K
      BY LiveWhole DEF Live, Consistent, Unique
    <3>2. \A a, b \in W : g[a] = g[b] => a = b
      BY DEF Consistent, Unique
    <3> QED BY <3>1, <3>2 DEF Injection, IsInjective
  <2>5. Cardinality(W) <= Cardinality(K)
    BY <2>3, <2>4, FS_Injection
  <2> HIDE DEF W, K
  <2> QED BY <1>2, <2>2, <2>3, <2>5
<1>7. Cardinality(Keys) \in Nat
  BY EnvAssumption, FS_CardinalityType
<1> HIDE DEF L, W, S
<1>8. Cardinality(S) \in Nat
  BY <1>2, FS_CardinalityType
<1>9. L + 1 <= Cardinality(Keys) + Cardinality(Junk(s))
  BY <1>1, <1>2, <1>4, <1>5, <1>6, <1>7, <1>8
<1> QED BY <1>9 DEF L

\* In a roomy store a write does not fill a clean sector.
LEMMA CleanRoom ==
    ASSUME IInv, Consistent, Roomy, Fits, pc = "claim", Clean(job.to)
    PROVE  ~(sec[job.to].store = "USING" /\ Len(sec[job.to].nodes) + 1 >= Cap)
<1> SUFFICES ASSUME sec[job.to].store = "USING"
             PROVE  ~(Len(sec[job.to].nodes) + 1 >= Cap)
  OBVIOUS
<1>1. job.to \in Sectors /\ Len(sec[job.to].nodes) \in Nat
  BY Types DEF IInv, Stage, SecType, Sector
<1>2. Len(sec[job.to].nodes) + 1 <= Cardinality(Keys) + Cardinality(Junk(job.to))
  BY <1>1, Count
<1>3. Cardinality(Junk(job.to)) <= losses + Pending(job.to) /\ Pending(job.to) = 0
  BY <1>1 DEF Fits, Pending
<1>4. Cardinality(Keys) + losses < Cap /\ losses \in Nat /\ Cardinality(Keys) \in Nat
      /\ Cardinality(Junk(job.to)) \in Nat
  BY EnvAssumption, FS_CardinalityType, AddrsFinite DEF Roomy, IInv, TypeOK
<1> QED BY <1>1, <1>2, <1>3, <1>4, EnvAssumption

-----------------------------------------------------------------------------
\* Allocation.

LEMMA EmptyFinite ==
    /\ IsFiniteSet(Empty) /\ Cardinality(Empty) \in Nat
    /\ Empty # {} <=> Cardinality(Empty) >= 1
    /\ \A x : Cardinality(Empty) > 1 => Empty \ {x} # {}
<1>1. IsFiniteSet(Empty) /\ Cardinality(Empty) \in Nat
  BY SectorsFinite, FS_Subset, FS_CardinalityType DEF Empty
<1>2. Cardinality(Empty) = 0 <=> Empty = {}
  BY <1>1, FS_EmptySet
<1>3. ASSUME NEW x, Empty \ {x} = {} PROVE Cardinality(Empty) <= 1
  <2>1. Empty \in SUBSET {x}
    BY <1>3
  <2>2. IsFiniteSet({x}) /\ Cardinality({x}) = 1
    BY FS_Singleton
  <2> QED BY <2>1, <2>2, FS_Subset
<1>4. Empty # {} <=> Cardinality(Empty) >= 1
  BY <1>1, <1>2
<1>5. \A x : Cardinality(Empty) > 1 => Empty \ {x} # {}
  BY <1>1, <1>3
<1> QED BY <1>1, <1>4, <1>5

LEMMA EmptyFresh ==
    ASSUME Shape
    PROVE  \A s \in Empty : s \in Sectors /\ sec[s] = Fresh /\ Clean(s) /\ sec[s].ok
<1>1. ASSUME NEW s \in Empty PROVE s \in Sectors /\ sec[s] = Fresh
  <2>1. sec[s] \in {Blank, Fresh} /\ sec[s].ok /\ s \in Sectors
    BY DEF Shape, Empty
  <2> QED BY <2>1 DEF Blank
<1>2. Fresh.dirty = "FALSE" /\ Fresh.ok
  BY DEF Fresh, Blank
<1> QED BY <1>1, <1>2 DEF Clean

\* Outside a collection the last empty sector is not given away.
LEMMA AllocSpare ==
    ASSUME ~gc_request, Empty # {}, alloc_env # 0
    PROVE  Empty \ {alloc_env} # {}
<1>1. CASE UsingWithRoom # {}
  <2>1. Min(UsingWithRoom) \in UsingWithRoom
    BY <1>1, MinIn, SectorNat DEF UsingWithRoom
  <2> QED BY <1>1, <2>1 DEF alloc_env, UsingWithRoom, Empty
<1>2. CASE UsingWithRoom = {}
  <2>1. Cardinality(Empty) > 1
    BY <1>2 DEF alloc_env, EF_GC_EMPTY_SEC_THRESHOLD
  <2> QED BY <2>1, EmptyFinite
<1> QED BY <1>1, <1>2

LEMMA AllocAsks ==
    ASSUME ~gc_request, Empty # {}, alloc_env = 0
    PROVE  AllocAsksGC
<1>1. UsingWithRoom # {} => Min(UsingWithRoom) # 0
  BY MinIn, SectorNat, EnvAssumption DEF UsingWithRoom, Sectors
<1>2. Empty # {} => Min(Empty) # 0
  BY MinIn, SectorNat, EnvAssumption DEF Empty, Sectors
<1>3. UsingWithRoom = {} /\ ~(Cardinality(Empty) > 1)
  BY <1>1, <1>2 DEF alloc_env, EF_GC_EMPTY_SEC_THRESHOLD
<1>4. Cardinality(Empty) \in 1..1
  BY <1>3, EmptyFinite
<1> QED BY <1>3, <1>4 DEF AllocAsksGC, EF_GC_EMPTY_SEC_THRESHOLD

\* A clean sector can be used, or is empty.
LEMMA CleanUsable ==
    ASSUME IInv, Consistent, Fits, NEW s \in Sectors, sec[s].ok, Clean(s)
    PROVE  s \in UsingWithRoom \/ s \in Empty
<1>1. sec[s] \in Sector
  BY Types DEF IInv, SecType
<1>2. sec[s].store \in {"EMPTY", "USING"}
  BY <1>1 DEF Fits, Sector
<1> QED BY <1>2 DEF UsingWithRoom, Empty, Usable, Consistent, Shape, Clean

LEMMA AllocFound ==
    /\ UsingWithRoom # {} => alloc_env # 0
    /\ Empty # {} /\ (gc_request \/ Cardinality(Empty) > 1) => alloc_env # 0
<1>1. UsingWithRoom # {} => Min(UsingWithRoom) # 0
  BY MinIn, SectorNat, EnvAssumption DEF UsingWithRoom, Sectors
<1>2. Empty # {} => Min(Empty) # 0
  BY MinIn, SectorNat, EnvAssumption DEF Empty, Sectors
<1> QED BY <1>1, <1>2 DEF alloc_env, EF_GC_EMPTY_SEC_THRESHOLD

\* When all sectors are clean, a write finds room without a collection.
LEMMA AllCleanAlloc ==
    ASSUME IInv, Consistent, Fits, \A s \in Sectors : sec[s].ok /\ Clean(s)
    PROVE  alloc_env # 0
<1>1. CASE UsingWithRoom # {}
  BY <1>1, AllocFound
<1>2. CASE UsingWithRoom = {}
  <2>1. Empty = Sectors
    BY <1>2, CleanUsable DEF Empty
  <2>2. Cardinality(Empty) > 1
    BY <2>1, SectorsFinite, EnvAssumption DEF EF_GC_EMPTY_SEC_THRESHOLD
  <2> QED BY <2>2, EmptyFinite, AllocFound
<1> QED BY <1>1, <1>2

-----------------------------------------------------------------------------
\* The steps that leave the flash as it is.

LEMMA SameFlash ==
    ASSUME sec' = sec
    PROVE  /\ \A s : Clean(s)' = Clean(s) /\ Junk(s)' = Junk(s) /\ Stopped(s)' = Stopped(s)
           /\ Refuge' = Refuge /\ Empty' = Empty /\ Bad' = Bad
  BY DEF Clean, Junk, Addrs, At, Stopped, Refuge, Empty, Bad

LEMMA EmptyNoJunk ==
    ASSUME NEW s
    PROVE  /\ sec[s].store = "EMPTY" => Cardinality(Junk(s)) = 0
           /\ sec'[s].store = "EMPTY" => Cardinality(Junk(s)') = 0
<1>1. (sec[s].store = "EMPTY" => Junk(s) = {}) /\ (sec'[s].store = "EMPTY" => Junk(s)' = {})
  BY DEF Junk, Addrs
<1>2. Cardinality({}) = 0
  BY FS_EmptySet
<1> QED BY <1>1, <1>2

\* Junk comes from a write that is pending, or the sector is empty now.
LEMMA FitsStep ==
    ASSUME IInv, Fits, losses' = losses,
           \A s \in Sectors : Clean(s)' =>
              \/ sec'[s].store = "EMPTY"
              \/ /\ Clean(s) /\ sec'[s].store # "FULL"
                 /\ Cardinality(Junk(s)') + Pending(s) <= Cardinality(Junk(s)) + Pending(s)'
    PROVE  Fits'
<1>1. losses \in Nat
  BY DEF IInv, TypeOK
<1>2. SUFFICES ASSUME NEW s \in Sectors, Clean(s)'
               PROVE  sec'[s].store # "FULL" /\ Cardinality(Junk(s)') <= losses' + Pending(s)'
  BY DEF Fits
<1>3. /\ Cardinality(Junk(s)) \in Nat /\ Cardinality(Junk(s)') \in Nat
      /\ Pending(s) \in Nat /\ Pending(s)' \in Nat
  BY AddrsFinite DEF Pending
<1>4. CASE sec'[s].store = "EMPTY"
  BY <1>1, <1>3, <1>4, EmptyNoJunk
<1>5. CASE Clean(s) /\ sec'[s].store # "FULL"
           /\ Cardinality(Junk(s)') + Pending(s) <= Cardinality(Junk(s)) + Pending(s)'
  <2>1. Cardinality(Junk(s)) <= losses + Pending(s)
    BY <1>5 DEF Fits
  <2> QED BY <1>1, <1>3, <1>5, <2>1
<1> QED BY <1>2, <1>4, <1>5

PendingPCs == {"header", "body", "commit", "markdirty"}

LEMMA FitsStays ==
    ASSUME IInv, Fits, sec' = sec, losses' = losses, pc \notin PendingPCs, pc' \notin PendingPCs
    PROVE  Fits'
<1>1. \A s : Pending(s) = 0 /\ Pending(s)' = 0
  BY DEF Pending, PendingPCs
<1>2. \A s : Clean(s)' = Clean(s) /\ Junk(s)' = Junk(s)
  BY SameFlash
<1> QED BY <1>1, <1>2, AddrsFinite, FitsStep DEF Fits

LEMMA Room_set ==
    ASSUME IInv, Consistent, Spacious, NEW k \in Keys \ {Author}, NEW v, ef_set_env(k, v)
    PROVE  Spacious'
<1>1. /\ sec' = sec /\ pc = "idle" /\ pc' = "new" /\ req'[1] # Author /\ ~already_gc'
      /\ UNCHANGED <<job, gc_request, gcret, losses>> /\ gcret = "idle"
  BY DEF ef_set_env, IInv, Control, InGC, WritePCs
<1>2. Fits'
  BY <1>1, FitsStays DEF Spacious, PendingPCs
<1>3. Asked'
  BY <1>1 DEF Spacious, Asked, InGC, WritePCs, JobOf
<1>4. Headers'
  BY <1>1, SameFlash DEF Spacious, Headers, JobOf
<1>5. Spare'
  BY <1>1, SameFlash DEF Spacious, Spare, InGC, WritePCs, JobOf
<1> QED BY <1>2, <1>3, <1>4, <1>5 DEF Spacious

LEMMA Room_default ==
    ASSUME IInv, Consistent, Spacious, ef_env_set_default
    PROVE  Spacious'
<1>1. /\ sec' = sec /\ pc = "idle" /\ pc' = "wipe" /\ at'[1] = 1
      /\ UNCHANGED <<job, gc_request, gcret, losses, req>> /\ gcret = "idle"
  BY DEF ef_env_set_default, IInv, Control, InGC, WritePCs
<1>2. Fits'
  BY <1>1, FitsStays DEF Spacious, PendingPCs
<1>3. Asked'
  BY <1>1 DEF Spacious, Asked, InGC, WritePCs, JobOf
<1>4. Headers'
  <2>1. \A s \in Sectors : ~(s < 1)
    BY EnvAssumption DEF Sectors
  <2> QED BY <1>1, <2>1, SameFlash DEF Spacious, Headers, JobOf
<1>5. Spare'
  BY <1>1, SameFlash DEF Spacious, Spare, InGC, WritePCs, JobOf
<1> QED BY <1>2, <1>3, <1>4, <1>5 DEF Spacious

LEMMA Room_NewEnv ==
    ASSUME IInv, Consistent, Spacious, NewEnv
    PROVE  Spacious'
<1>1. /\ sec' = sec /\ pc = "new" /\ pc' \in {"claim", "mark"} /\ job'.to = alloc_env
      /\ job'.by \in {"set", "default"} /\ alloc_env # 0
      /\ UNCHANGED <<gc_request, gcret, losses, req>> /\ gcret = "idle"
      /\ job'.by = "default" => req[1] = Author
  BY DEF NewEnv, NewJob, IInv, Control, InGC, WritePCs
<1>2. ~gc_request /\ Empty # {} /\ ~InGC
  BY <1>1 DEF Spacious, Asked, Spare, InGC, WritePCs, JobOf
<1>3. Empty \ {alloc_env} # {}
  BY <1>1, <1>2, AllocSpare
<1>4. job'.by = "default" => sec[alloc_env].store = "EMPTY"
  <2>1. SUFFICES ASSUME job'.by = "default" PROVE sec[alloc_env] = Fresh
    BY DEF Fresh, Blank
  <2>2. \A s \in Sectors : sec[s] = Fresh
    BY <1>1, <2>1 DEF Spacious, Headers
  <2> QED BY <1>1, <2>2, AllocIn
<1>5. Fits'
  BY <1>1, FitsStays DEF Spacious, PendingPCs
<1>6. Asked'
  BY <1>1, <1>2 DEF Asked, InGC, WritePCs, JobOf
<1>7. Headers'
  BY <1>1, <1>4, SameFlash DEF Spacious, Headers, JobOf
<1>8. Spare'
  BY <1>1, <1>2, <1>3, SameFlash DEF Spare, InGC, WritePCs, JobOf
<1> QED BY <1>5, <1>6, <1>7, <1>8 DEF Spacious

LEMMA EmptyRefuge == Shape /\ Empty # {} => Refuge
  BY EmptyFresh DEF Refuge

\* With an empty sector left, a collection can begin.
LEMMA EnterRoom ==
    ASSUME IInv, Consistent, Empty # {}, Fits, NEW r \in {"idle", "recgc", "recenv"}, EnterGC(r), gcret = "idle",
           sec' = sec, losses' = losses, job' \in {job, NoJob}, pc \notin WritePCs \/ pc = "done",
           pc \notin {"format", "hdr", "wipeformat", "new"}, Headers
    PROVE  Spacious'
<1>1. \/ pc' = "gc" /\ gcret' = r /\ gc_request'
      \/ pc' = r /\ gcret' = "idle" /\ ~gc_request'
  BY DEF EnterGC
<1>2. Refuge
  BY EmptyRefuge DEF Consistent
<1>3. Fits'
  BY <1>1, FitsStays DEF PendingPCs, WritePCs
<1>4. Asked'
  BY <1>1 DEF Asked, InGC, WritePCs, JobOf
<1>5. Headers'
  BY <1>1, SameFlash DEF Headers, JobOf
<1>6. Spare'
  BY <1>1, <1>2, SameFlash DEF Spare, InGC, WritePCs, JobOf
<1> QED BY <1>3, <1>4, <1>5, <1>6 DEF Spacious

LEMMA Room_NewEnvFails ==
    ASSUME IInv, Consistent, Roomy, Spacious, NewEnvFails
    PROVE  Spacious'
<1>1. /\ sec' = sec /\ pc = "new" /\ alloc_env = 0 /\ losses' = losses
      /\ gcret = "idle" /\ ~gc_request /\ Empty # {}
      /\ \A s \in Sectors : sec[s].ok
  BY DEF NewEnvFails, IInv, Control, Spacious, Asked, Spare, Headers, InGC, WritePCs, JobOf
<1>2. ~already_gc /\ req[1] # Author
  <2>1. ~\A s \in Sectors : Clean(s)
    BY <1>1, AllCleanAlloc DEF Spacious
  <2>2. Fresh.dirty = "FALSE"
    BY DEF Fresh, Blank
  <2> QED BY <1>1, <2>1, <2>2 DEF Spacious, Headers, Clean
<1>3. AllocAsksGC
  BY <1>1, AllocAsks
<1>4. EnterGC("new") /\ req' = req
  BY <1>2, <1>3 DEF NewEnvFails
<1>5. Cardinality(Empty) <= EF_GC_EMPTY_SEC_THRESHOLD
  BY <1>3 DEF AllocAsksGC, EF_GC_EMPTY_SEC_THRESHOLD
<1>6. pc' = "gc" /\ gcret' = "new" /\ gc_request'
  BY <1>4, <1>5 DEF EnterGC
<1>7. Refuge
  BY <1>1, EmptyRefuge DEF Consistent
<1>8. Fits'
  BY <1>1, <1>6, FitsStays DEF Spacious, PendingPCs
<1>9. Asked'
  BY <1>6 DEF Asked, InGC, WritePCs, JobOf
<1>10. Headers'
  BY <1>1, <1>2, <1>4, <1>6, SameFlash DEF Spacious, Headers, JobOf
<1>11. Spare'
  BY <1>1, <1>6, <1>7, SameFlash DEF Spare, InGC, WritePCs, JobOf
<1> QED BY <1>8, <1>9, <1>10, <1>11 DEF Spacious

LEMMA Room_Done ==
    ASSUME IInv, Consistent, Spacious, Done
    PROVE  Spacious'
<1>1. /\ sec' = sec /\ pc = "done" /\ losses' = losses /\ job' = NoJob
      /\ job.by \in {"gc", "rec", "default", "set"} /\ (job.by # "gc" => gcret = "idle")
      /\ job.by = "gc" => req' = req
  BY DEF Done, IInv, Control, Stage, TypeOK, Job, InGC, WritePCs
<1>2. /\ job.by # "gc" => Empty # {}
      /\ job.by = "gc" => Refuge /\ gc_request
      /\ job.by \in {"rec", "default"} => ~gc_request
  BY <1>1 DEF Spacious, Spare, Asked, InGC, WritePCs, JobOf
<1>3. CASE job.by = "set" /\ gc_request
  <2>1. EnterGC("idle")
    BY <1>3 DEF Done
  <2> QED BY <1>1, <1>2, <1>3, <2>1, EnterRoom DEF Spacious
<1>4. CASE ~(job.by = "set" /\ gc_request)
  <2>1. /\ pc' = IF job.by = "gc" THEN "gcnode"
                 ELSE IF job.by = "rec" THEN "recenv"
                 ELSE IF job.by = "default" /\ in_recovery_check THEN "recgc" ELSE "idle"
        /\ UNCHANGED <<gc_request, gcret>>
    BY <1>1, <1>4 DEF Done
  <2>2. Fits'
    BY <1>1, <2>1, FitsStays DEF Spacious, PendingPCs
  <2>3. Asked'
    BY <1>1, <1>2, <1>4, <2>1 DEF Asked, InGC, WritePCs, JobOf
  <2>4. Headers'
    BY <1>1, <2>1, SameFlash DEF Spacious, Headers, JobOf
  <2>5. Spare'
    BY <1>1, <1>2, <2>1, SameFlash DEF Spare, InGC, WritePCs, JobOf
  <2> QED BY <2>2, <2>3, <2>4, <2>5 DEF Spacious
<1> QED BY <1>3, <1>4

LEMMA Room_GCEnd ==
    ASSUME IInv, Consistent, Spacious, GCEnd
    PROVE  Spacious'
<1>1. /\ sec' = sec /\ pc = "gc" /\ losses' = losses /\ ~gc_request' /\ pc' = gcret /\ gcret' = "idle"
      /\ pc' \in {"idle", "new", "recgc", "recenv"} /\ DirtyAfter(gcat[1]) = {}
      /\ UNCHANGED <<req, job>> /\ \A s \in Sectors : sec[s].ok
      /\ gcat[1] \in Nat
  BY DEF GCEnd, IInv, TypeOK, Returns, Spacious, Headers
<1>2. \A s \in Sectors : Clean(s)
  <2>1. \A s \in Sectors : s <= gcat[1] => Clean(s)
    BY <1>1 DEF Consistent, Swept
  <2>2. \A s \in Sectors : s > gcat[1] => sec[s].dirty \notin {"TRUE", "GC"}
    BY <1>1 DEF DirtyAfter
  <2>3. \A s \in Sectors : sec[s].dirty \in {"FALSE", "TRUE", "GC"} /\ s \in Nat
    BY Types, SectorNat DEF IInv, SecType, Sector
  <2> QED BY <1>1, <2>1, <2>2, <2>3 DEF Clean
<1>3. Empty # {}
  <2>1. \A t \in Sectors : ~Stopped(t)
    BY <1>2 DEF Stopped, Clean
  <2> QED BY <1>1, <2>1 DEF Spacious, Spare
<1>4. Fits'
  BY <1>1, FitsStays DEF Spacious, PendingPCs
<1>5. Asked'
  BY <1>1 DEF Asked, InGC, WritePCs, JobOf
<1>6. Headers'
  BY <1>1, <1>2, SameFlash DEF Spacious, Headers, JobOf
<1>7. Spare'
  BY <1>1, <1>3, SameFlash DEF Spare, InGC, WritePCs, JobOf
<1> QED BY <1>4, <1>5, <1>6, <1>7 DEF Spacious

LEMMA Room_GCMove ==
    ASSUME IInv, Consistent, Spacious, GCMove
    PROVE  Spacious'
<1>1. /\ sec' = sec /\ pc = "gcnode" /\ pc' \in {"mark", "alloc"} /\ job'.by = "gc"
      /\ UNCHANGED <<gc_request, gcret, req, losses>>
  BY DEF GCMove, MoveJob
<1>2. gc_request /\ Refuge
  BY <1>1 DEF Spacious, Asked, Spare, InGC
<1>3. Fits'
  BY <1>1, FitsStays DEF Spacious, PendingPCs
<1>4. Asked'
  BY <1>1, <1>2 DEF Asked, InGC, WritePCs
<1>5. Headers'
  BY <1>1, SameFlash DEF Spacious, Headers, JobOf
<1>6. Spare'
  BY <1>1, <1>2, SameFlash DEF Spare, InGC, WritePCs, JobOf
<1> QED BY <1>3, <1>4, <1>5, <1>6 DEF Spacious

LEMMA Room_MoveAlloc ==
    ASSUME IInv, Consistent, Spacious, MoveAlloc
    PROVE  Spacious'
<1>1. /\ sec' = sec /\ pc = "alloc" /\ pc' \in {"claim", "delete"} /\ alloc_env # 0
      /\ job'.by = job.by /\ job.by \in {"gc", "rec"} /\ (pc' = "claim" => job'.to = alloc_env)
      /\ UNCHANGED <<gc_request, gcret, req, losses>>
  <2>1. job \in Job
    BY DEF IInv, TypeOK
  <2>2. pc = "alloc" /\ pc' \in {"claim", "delete"} /\ job' \in {job, [job EXCEPT !.to = alloc_env]}
        /\ (pc' = "claim" => job' = [job EXCEPT !.to = alloc_env])
    BY DEF MoveAlloc
  <2> QED BY <2>1, <2>2 DEF MoveAlloc, RestOfRAM, Job, Consistent, OldReady
<1>2. /\ job.by = "gc" => gc_request /\ Refuge
      /\ job.by # "gc" => ~gc_request /\ Empty # {} /\ Empty \ {alloc_env} # {}
  <2>1. /\ job.by = "gc" => gc_request /\ Refuge
        /\ job.by # "gc" => ~gc_request /\ Empty # {}
    BY <1>1 DEF Spacious, Asked, Spare, InGC, WritePCs, JobOf
  <2> QED BY <1>1, <2>1, AllocSpare
<1>3. Fits'
  BY <1>1, FitsStays DEF Spacious, PendingPCs
<1>4. Asked'
  BY <1>1, <1>2 DEF Asked, InGC, WritePCs
<1>5. Headers'
  BY <1>1, SameFlash DEF Spacious, Headers, JobOf
<1>6. Spare'
  BY <1>1, <1>2, SameFlash DEF Spare, InGC, WritePCs, JobOf
<1> QED BY <1>3, <1>4, <1>5, <1>6 DEF Spacious

LEMMA Room_MoveFails ==
    ASSUME IInv, Consistent, Spacious, ~abandoned', MoveFails
    PROVE  Spacious'
<1>1. /\ sec' = sec /\ pc = "alloc" /\ pc' = "recend" /\ gc_request' /\ job' = NoJob
      /\ job.by = "rec" /\ UNCHANGED <<gcret, req, losses>>
  BY DEF MoveFails, Consistent, OldReady
<1>2. Empty # {} /\ gcret = "idle"
  BY <1>1 DEF Spacious, Spare, InGC, WritePCs, IInv, Control
<1>3. Fits'
  BY <1>1, FitsStays DEF Spacious, PendingPCs
<1>4. Asked'
  BY <1>1 DEF Asked, InGC, WritePCs
<1>5. Headers'
  BY <1>1, <1>2, SameFlash DEF Spacious, Headers, JobOf
<1>6. Spare'
  BY <1>1, <1>2, SameFlash DEF Spare, InGC, WritePCs, JobOf
<1> QED BY <1>3, <1>4, <1>5, <1>6 DEF Spacious

LEMMA Room_WipeDefault ==
    ASSUME IInv, Consistent, Spacious, WipeDefault
    PROVE  Spacious'
<1>1. /\ sec' = sec /\ pc = "wipe" /\ pc' = "new" /\ ~already_gc' /\ at[1] > SECTOR_NUM
      /\ UNCHANGED <<gc_request, gcret, losses, job>> /\ gcret = "idle" /\ at[1] \in Nat
  BY DEF WipeDefault, IInv, Control, InGC, WritePCs, TypeOK
<1>2. \A s \in Sectors : sec[s] = Fresh
  <2>1. \A s \in Sectors : s < at[1]
    BY <1>1, EnvAssumption DEF Sectors
  <2> QED BY <1>1, <2>1 DEF Spacious, Headers
<1>3. ~gc_request /\ Empty # {}
  BY <1>1 DEF Spacious, Asked, Spare, InGC, WritePCs, JobOf
<1>4. Fits'
  BY <1>1, FitsStays DEF Spacious, PendingPCs
<1>5. Asked'
  BY <1>1, <1>3 DEF Asked, InGC, WritePCs
<1>6. Headers'
  BY <1>1, <1>2, SameFlash DEF Spacious, Headers, JobOf
<1>7. Spare'
  BY <1>1, <1>3, SameFlash DEF Spare, InGC, WritePCs, JobOf
<1> QED BY <1>4, <1>5, <1>6, <1>7 DEF Spacious

LEMMA Room_CheckHeadersDone ==
    ASSUME IInv, Consistent, Spacious, CheckHeadersDone
    PROVE  Spacious'
<1>1. /\ sec' = sec /\ pc = "hdr" /\ Bad = {} /\ UNCHANGED <<gc_request, gcret, losses, job>>
      /\ gcret = "idle"
      /\ \/ pc' = "wipe" /\ failed = SECTOR_NUM /\ at'[1] = 1
         \/ pc' = "recgc" /\ at' = at
  BY DEF CheckHeadersDone, IInv, Control, InGC, WritePCs
<1>2. \A s \in Sectors : sec[s].ok
  BY <1>1 DEF Bad
<1>3. ~gc_request
  BY <1>1 DEF Spacious, Asked, InGC, WritePCs, JobOf
<1>4. pc' = "wipe" => Empty # {}
  <2>1. SUFFICES ASSUME failed = SECTOR_NUM PROVE Empty # {}
    BY <1>1
  <2>2. failed <= Cardinality(Freshes)
    BY <1>1 DEF Consistent, Phase, Freshes
  <2>3. Freshes = Sectors
    BY <2>1, <2>2, FreshCount
  <2>4. Fresh.ok /\ Fresh.store = "EMPTY" /\ 1 \in Sectors
    BY EnvAssumption DEF Fresh, Blank, Sectors, EF_GC_EMPTY_SEC_THRESHOLD
  <2> QED BY <2>3, <2>4 DEF Freshes, Empty
<1>5. pc' = "recgc" => Empty # {} \/ (Refuge /\ \E t \in Sectors : t > at'[1] /\ Stopped(t))
  <2>1. at = NoNode /\ (Empty # {} \/ (Refuge /\ \E t \in Sectors : Stopped(t)))
    BY <1>1 DEF Spacious, Spare
  <2>2. \A t \in Sectors : t > 0
    BY EnvAssumption DEF Sectors
  <2> QED BY <1>1, <2>1, <2>2, NoNodeFirst
<1>6. Fits'
  BY <1>1, FitsStays DEF Spacious, PendingPCs
<1>7. Asked'
  BY <1>1, <1>3 DEF Asked, InGC, WritePCs
<1>8. Headers'
  <2>1. \A s \in Sectors : ~(s < 1)
    BY EnvAssumption DEF Sectors
  <2> QED BY <1>1, <1>2, <2>1, SameFlash DEF Headers, JobOf
<1>9. Spare'
  <2>1. pc' = "recgc" => Empty' # {} \/ (Refuge' /\ \E t \in Sectors : t > at'[1] /\ Stopped(t)')
    BY <1>1, <1>5, SameFlash
  <2> QED BY <1>1, <1>4, <2>1, SameFlash DEF Spare, InGC, WritePCs, JobOf
<1> QED BY <1>6, <1>7, <1>8, <1>9 DEF Spacious

LEMMA Room_ResumeGC ==
    ASSUME IInv, Consistent, Spacious, ResumeGC
    PROVE  Spacious'
<1>1. /\ sec' = sec /\ pc = "recgc" /\ losses' = losses /\ job' = job /\ gcret = "idle" /\ ~gc_request
      /\ \A s \in Sectors : sec[s].ok
  BY DEF ResumeGC, IInv, Control, InGC, WritePCs, Spacious, Asked, JobOf, Headers
<1>2. Empty # {} \/ (Refuge /\ Interrupted # {})
  BY <1>1 DEF Spacious, Spare, Interrupted, Stopped
<1>3. Refuge
  BY <1>2, EmptyRefuge DEF Consistent
<1>4. CASE pc' = "gc"
  <2>1. gcat' = NoNode /\ gcret' = "recgc" /\ gc_request'
    BY <1>1, <1>4 DEF ResumeGC, EnterGC
  <2>2. Empty # {} \/ \E t \in Sectors : t > gcat'[1] /\ Stopped(t)
    <3>1. \A t \in Sectors : t > 0
      BY EnvAssumption DEF Sectors
    <3>2. \A t \in Interrupted : t \in Sectors /\ Stopped(t)
      BY DEF Interrupted, Stopped
    <3> QED BY <1>2, <2>1, <3>1, <3>2, NoNodeFirst
  <2>3. Empty' # {} \/ \E t \in Sectors : t > gcat'[1] /\ Stopped(t)'
    BY <1>1, <2>2, SameFlash
  <2>4. Fits'
    BY <1>1, <1>4, FitsStays DEF Spacious, PendingPCs
  <2>5. Asked'
    BY <1>4, <2>1 DEF Asked, InGC, WritePCs
  <2>6. Headers'
    BY <1>1, <1>4, <2>1, SameFlash DEF Headers, JobOf
  <2>7. Spare'
    BY <1>1, <1>3, <1>4, <2>3, SameFlash DEF Spare, InGC, WritePCs, JobOf
  <2> QED BY <2>4, <2>5, <2>6, <2>7 DEF Spacious
<1>5. CASE pc' # "gc"
  <2>1. pc' \in {"recgc", "recenv"} /\ Empty # {} /\ gcret' = "idle" /\ ~gc_request'
    <3>1. CASE Interrupted = {}
      BY <1>1, <1>2, <3>1 DEF ResumeGC
    <3>2. CASE Interrupted # {}
      <4>1. EnterGC("recgc")
        BY <3>2 DEF ResumeGC
      <4>2. Cardinality(Empty) > 1
        BY <1>5, <4>1, EmptyFinite DEF EnterGC, EF_GC_EMPTY_SEC_THRESHOLD
      <4>3. Empty # {}
        BY <4>2, EmptyFinite
      <4> QED BY <1>1, <1>5, <4>1, <4>3 DEF EnterGC
    <3> QED BY <3>1, <3>2
  <2>2. Fits'
    BY <1>1, <2>1, FitsStays DEF Spacious, PendingPCs
  <2>3. Asked'
    BY <2>1 DEF Asked, InGC, WritePCs
  <2>4. Headers'
    BY <1>1, <2>1, SameFlash DEF Headers, JobOf
  <2>5. Spare'
    BY <1>1, <2>1, SameFlash DEF Spare, InGC, WritePCs, JobOf
  <2> QED BY <2>2, <2>3, <2>4, <2>5 DEF Spacious
<1> QED BY <1>4, <1>5

LEMMA Room_RecoverOld ==
    ASSUME IInv, Consistent, Spacious, RecoverOld
    PROVE  Spacious'
<1>1. /\ sec' = sec /\ pc = "recenv" /\ pc' = "alloc" /\ job'.by = "rec"
      /\ UNCHANGED <<gc_request, gcret, losses>> /\ gcret = "idle"
  BY DEF RecoverOld, MoveJob, IInv, Control, InGC, WritePCs
<1>2. ~gc_request /\ Empty # {}
  BY <1>1 DEF Spacious, Asked, Spare, InGC, WritePCs, JobOf
<1>3. Fits'
  BY <1>1, FitsStays DEF Spacious, PendingPCs
<1>4. Asked'
  BY <1>1, <1>2 DEF Asked, InGC, WritePCs
<1>5. Headers'
  BY <1>1, SameFlash DEF Spacious, Headers, JobOf
<1>6. Spare'
  BY <1>1, <1>2, SameFlash DEF Spare, InGC, WritePCs, JobOf
<1> QED BY <1>3, <1>4, <1>5, <1>6 DEF Spacious

LEMMA Room_RecoverNoMore ==
    ASSUME IInv, Consistent, Spacious, RecoverNoMore
    PROVE  Spacious'
<1>1. /\ sec' = sec /\ pc = "recenv" /\ pc' = "recend" /\ job' = job
      /\ UNCHANGED <<gc_request, gcret, losses>> /\ gcret = "idle"
  BY DEF RecoverNoMore, RestOfRAM, IInv, Control, InGC, WritePCs
<1>2. ~gc_request /\ Empty # {}
  BY <1>1 DEF Spacious, Asked, Spare, InGC, WritePCs, JobOf
<1>3. Fits'
  BY <1>1, FitsStays DEF Spacious, PendingPCs
<1>4. Asked'
  BY <1>1, <1>2 DEF Asked, InGC, WritePCs
<1>5. Headers'
  BY <1>1, SameFlash DEF Spacious, Headers, JobOf
<1>6. Spare'
  BY <1>1, <1>2, SameFlash DEF Spare, InGC, WritePCs, JobOf
<1> QED BY <1>3, <1>4, <1>5, <1>6 DEF Spacious

LEMMA Room_RecoverEnd ==
    ASSUME IInv, Consistent, Spacious, RecoverEnd
    PROVE  Spacious'
<1>1. /\ sec' = sec /\ pc = "recend" /\ job' = job /\ losses' = losses /\ gcret = "idle" /\ Empty # {}
  BY DEF RecoverEnd, IInv, Control, InGC, WritePCs, Spacious, Spare
<1>2. CASE gc_request
  <2>1. EnterGC("recenv")
    BY <1>2 DEF RecoverEnd
  <2> QED BY <1>1, <2>1, EnterRoom DEF Spacious, WritePCs
<1>3. CASE ~gc_request
  <2>1. pc' = "idle" /\ UNCHANGED <<gc_request, gcret>>
    BY <1>3 DEF RecoverEnd
  <2>2. Fits'
    BY <1>1, <2>1, FitsStays DEF Spacious, PendingPCs
  <2>3. Asked'
    BY <1>3, <2>1 DEF Asked, InGC, WritePCs
  <2>4. Headers'
    BY <1>1, <2>1, SameFlash DEF Spacious, Headers, JobOf
  <2>5. Spare'
    BY <1>1, <2>1, SameFlash DEF Spare, InGC, WritePCs, JobOf
  <2> QED BY <2>2, <2>3, <2>4, <2>5 DEF Spacious
<1> QED BY <1>2, <1>3

\* Each loss of power leaves at most the pending node behind.
LEMMA Room_PowerLoss ==
    ASSUME IInv, Consistent, Spacious, PowerLoss
    PROVE  Spacious'
<1>1. /\ sec' = sec /\ pc' = "hdr" /\ at' = NoNode /\ losses' = losses + 1 /\ job' = NoJob
      /\ ~gc_request' /\ gcret' = "idle" /\ losses \in Nat
  BY DEF PowerLoss, IInv, TypeOK
<1>2. Fits'
  <2>1. SUFFICES ASSUME NEW s \in Sectors, Clean(s)'
                 PROVE  sec'[s].store # "FULL" /\ Cardinality(Junk(s)') <= losses' + Pending(s)'
    BY DEF Fits
  <2>2. Clean(s) /\ Junk(s)' = Junk(s) /\ Pending(s) \in {0, 1} /\ Pending(s)' = 0
    BY <1>1, <2>1, SameFlash DEF Pending
  <2>3. sec[s].store # "FULL" /\ Cardinality(Junk(s)) <= losses + Pending(s)
    BY <2>2 DEF Spacious, Fits
  <2> QED BY <1>1, <2>2, <2>3, AddrsFinite
<1>3. Empty # {} \/ Bad # {} \/ (Refuge /\ \E t \in Sectors : Stopped(t))
  <2>1. CASE ~InGC /\ pc \notin {"wipeformat", "hdr", "recgc"}
    BY <2>1 DEF Spacious, Spare
  <2>2. CASE pc = "wipeformat"
    BY <2>2 DEF Spacious, Headers, Bad, Consistent, Recovered
  <2>3. CASE pc \in {"hdr", "recgc", "gc"}
    <3>1. pc = "gc" => InGC
      BY DEF InGC
    <3> QED BY <2>3, <3>1 DEF Spacious, Spare
  <2>4. CASE pc = "format"
    BY <2>4 DEF Spacious, Headers, Bad, Consistent, Swept
  <2>5. CASE pc = "gcnode" \/ JobOf("gc", WritePCs)
    <3>1. gcat[1] \in Sectors /\ sec[gcat[1]].dirty = "GC"
      BY <2>5 DEF Consistent, Swept
    <3>2. sec[gcat[1]].ok
      <4>1. Blank.dirty = "FALSE" /\ Fresh.dirty = "FALSE"
        BY DEF Blank, Fresh
      <4>2. sec[gcat[1]] \notin {Blank, Fresh}
        BY <3>1, <4>1
      <4> QED BY <3>1, <4>2 DEF Consistent, Shape
    <3>3. Refuge
      BY <2>5 DEF Spacious, Spare, InGC, JobOf
    <3> QED BY <3>1, <3>2, <3>3 DEF Stopped
  <2> QED BY <2>1, <2>2, <2>3, <2>4, <2>5 DEF InGC, JobOf
<1>4. Asked'
  BY <1>1 DEF Asked, InGC, WritePCs
<1>5. Headers'
  BY <1>1 DEF Headers, JobOf
<1>6. Spare'
  <2>1. Empty' # {} \/ Bad' # {} \/ (Refuge' /\ \E t \in Sectors : Stopped(t)')
    BY <1>1, <1>3, SameFlash
  <2> QED BY <1>1, <2>1 DEF Spare, InGC, WritePCs, JobOf
<1> QED BY <1>2, <1>4, <1>5, <1>6 DEF Spacious

-----------------------------------------------------------------------------
\* The steps that write the flash.

LEMMA NodeJunk ==
    ASSUME NEW x \in Addrs, NEW n, Addrs' = Addrs,
           \A a \in Addrs : At(a)' = IF a = x THEN n ELSE At(a)
    PROVE  \A s : Junk(s)' = IF x[1] # s THEN Junk(s)
                             ELSE IF n.st = "WRITE" THEN Junk(s) \ {x} ELSE Junk(s) \cup {x}
  BY DEF Junk

\* One node more, or less, of junk.
LEMMA JunkCount ==
    ASSUME NEW s, NEW x
    PROVE  /\ Cardinality(Junk(s) \cup {x}) <= Cardinality(Junk(s)) + 1
           /\ x \in Junk(s) => Cardinality(Junk(s) \ {x}) = Cardinality(Junk(s)) - 1
<1>1. IsFiniteSet(Junk(s)) /\ Cardinality(Junk(s)) \in Nat
  BY AddrsFinite
<1>2. Cardinality(Junk(s) \cup {x}) \in {Cardinality(Junk(s)), Cardinality(Junk(s)) + 1}
  BY <1>1, FS_AddElement
<1>3. x \in Junk(s) => Cardinality(Junk(s) \ {x}) = Cardinality(Junk(s)) - 1
  BY <1>1, FS_RemoveElement
<1> QED BY <1>1, <1>2, <1>3

\* A step of a write that changes no store status keeps the spare sector.
LEMMA WriteKeepsSpare ==
    ASSUME Spacious, \A s \in Sectors : sec'[s].ok = sec[s].ok /\ sec'[s].store = sec[s].store,
           InGC /\ Refuge => Refuge',
           job' = job, gcret' = gcret, req' = req, gc_request' = gc_request,
           \/ pc = "mark" /\ pc' = "markdirty"
           \/ pc = "markdirty" /\ pc' = IF job.by = "set" THEN "claim" ELSE "alloc"
           \/ pc \in {"prewrite", "header", "body"} /\ pc' \in {"header", "body", "commit"}
           \/ pc = "delete" /\ pc' = "deldirty"
           \/ pc = "deldirty" /\ pc' = "done"
    PROVE  Asked' /\ Headers' /\ Spare'
<1>1. Empty' = Empty
  BY DEF Empty
<1>2. InGC' <=> InGC
  BY DEF InGC, WritePCs
<1>3. Asked'
  BY <1>2 DEF Spacious, Asked, JobOf
<1>4. Headers'
  BY DEF Spacious, Headers, JobOf
<1>5. Spare'
  BY <1>1, <1>2 DEF Spacious, Spare, JobOf
<1> QED BY <1>3, <1>4, <1>5

\* The node that a write begins, or marks, is pending.
LEMMA PendingJunk ==
    ASSUME NEW z, NEW x,
           \A s : Junk(s)' = IF s = z THEN Junk(s) \cup {x} ELSE Junk(s),
           \A s : Pending(s) = 0 /\ Pending(s)' = IF s = z THEN 1 ELSE 0
    PROVE  \A s : Cardinality(Junk(s)') + Pending(s) <= Cardinality(Junk(s)) + Pending(s)'
<1> SUFFICES ASSUME NEW s
             PROVE  Cardinality(Junk(s)') + Pending(s) <= Cardinality(Junk(s)) + Pending(s)'
  OBVIOUS
<1>1. Cardinality(Junk(s)) \in Nat /\ Cardinality(Junk(s)') \in Nat
  BY AddrsFinite
<1>2. CASE s = z
  <2>1. Junk(s)' = Junk(s) \cup {x} /\ Pending(s) = 0 /\ Pending(s)' = 1
    BY <1>2
  <2>2. Cardinality(Junk(s)') <= Cardinality(Junk(s)) + 1
    BY <2>1, JunkCount
  <2> QED BY <1>1, <2>1, <2>2
<1>3. CASE s # z
  <2>1. Junk(s)' = Junk(s) /\ Pending(s) = 0 /\ Pending(s)' = 0
    BY <1>3
  <2> QED BY <1>1, <2>1
<1> QED BY <1>2, <1>3

\* A node that is junk stays junk.
LEMMA QuietNode ==
    ASSUME IInv, Fits, losses' = losses, SameHeaders, NEW x \in Addrs, NEW n, Addrs' = Addrs,
           \A a \in Addrs : At(a)' = IF a = x THEN n ELSE At(a),
           At(x).st # "WRITE", n.st # "WRITE", \A s \in Sectors : Pending(s)' = Pending(s)
    PROVE  Fits'
<1>1. \A s : Junk(s)' = Junk(s)
  BY NodeJunk DEF Junk
<1>2. \A s \in Sectors : Clean(s)' => Clean(s) /\ sec'[s].store = sec[s].store
  BY DEF SameHeaders, Clean
<1>3. \A s \in Sectors : Cardinality(Junk(s)) \in Nat /\ Pending(s) \in Nat
  BY AddrsFinite DEF Pending
<1> QED BY <1>1, <1>2, <1>3, FitsStep DEF Fits

LEMMA Room_MarkOld ==
    ASSUME IInv, Consistent, Spacious, MarkOld
    PROVE  Spacious'
<1>1. /\ pc = "mark" /\ pc' = "markdirty" /\ SetStatus(job.old, "PRE_DELETE")
      /\ UNCHANGED <<job, req, gc_request, gcret, losses>> /\ job.old \in Written
  BY DEF MarkOld, RestOfRAM, Consistent, OldReady
<1>2. PICK x \in Addrs : x = job.old
  BY <1>1, LiveIn
<1> DEFINE n == [At(x) EXCEPT !.st = "PRE_DELETE"]
<1>3. n \in Node /\ n.st = "PRE_DELETE"
  BY AddrNode DEF Node
<1>4. SetNode(x, n)
  BY <1>1, <1>2 DEF SetStatus
<1> HIDE DEF n
<1>5. /\ Addrs' = Addrs
      /\ \A a \in Addrs : At(a)' = IF a = x THEN n ELSE At(a)
      /\ SameHeaders
  BY <1>3, <1>4, NodeStep
<1>6. Fits'
  <2>1. \A s : Junk(s)' = IF s = x[1] THEN Junk(s) \cup {x} ELSE Junk(s)
    BY <1>3, <1>5, NodeJunk
  <2>2. \A s : Pending(s) = 0 /\ Pending(s)' = IF s = x[1] THEN 1 ELSE 0
    BY <1>1, <1>2 DEF Pending
  <2>3. \A s \in Sectors : Clean(s)' => Clean(s) /\ sec'[s].store = sec[s].store
    BY <1>5 DEF SameHeaders, Clean
  <2>4. \A s \in Sectors : Cardinality(Junk(s)') + Pending(s) <= Cardinality(Junk(s)) + Pending(s)'
    BY <2>1, <2>2, PendingJunk
  <2> QED BY <1>1, <2>3, <2>4, FitsStep DEF Spacious, Fits
<1>7. InGC /\ Refuge => Refuge'
  BY <1>5 DEF Refuge, Clean, SameHeaders
<1>8. Asked' /\ Headers' /\ Spare'
  BY <1>1, <1>5, <1>7, WriteKeepsSpare DEF SameHeaders
<1> QED BY <1>6, <1>8 DEF Spacious

\* The old node's sector becomes dirty.
LEMMA DirtyRoom ==
    ASSUME IInv, Consistent, Spacious, NEW s \in Sectors, s = job.old[1], sec[s].store # "EMPTY",
           DirtySector(s), losses' = losses, job' = job, JobOf("gc", WritePCs) => s = gcat[1],
           pc \in {"markdirty", "deldirty"}, pc' \notin PendingPCs
    PROVE  /\ Fits' /\ (InGC /\ Refuge => Refuge')
           /\ \A t \in Sectors : sec'[t].ok = sec[t].ok /\ sec'[t].store = sec[t].store
<1>1. /\ SameNodes
      /\ \A t \in Sectors : /\ sec'[t].ok = sec[t].ok /\ sec'[t].store = sec[t].store
                            /\ Clean(t)' <=> Clean(t) /\ t # s
      /\ sec[s].dirty = "GC" => sec' = sec
  BY DirtyStep DEF Consistent
<1>2. \A t : Junk(t)' = Junk(t)
  BY <1>1 DEF SameNodes, Junk
<1>3. \A t : Pending(t)' = 0 /\ (t # s => Pending(t) = 0)
  BY DEF Pending, PendingPCs
<1>4. \A t \in Sectors : Cardinality(Junk(t)) \in Nat
  BY AddrsFinite
<1>5. Fits'
  BY <1>1, <1>2, <1>3, <1>4, FitsStep DEF Spacious, Fits
<1>6. InGC => sec' = sec
  BY <1>1 DEF InGC, JobOf, WritePCs, Consistent, Swept
<1>7. InGC /\ Refuge => Refuge'
  BY <1>6, SameFlash
<1> QED BY <1>1, <1>5, <1>7

LEMMA Room_MarkOldDirty ==
    ASSUME IInv, Consistent, Spacious, MarkOldDirty
    PROVE  Spacious'
<1>1. /\ pc = "markdirty" /\ pc' = IF job.by = "set" THEN "claim" ELSE "alloc"
      /\ UNCHANGED <<job, req, gc_request, gcret, losses>> /\ DirtySector(job.old[1])
      /\ job.old \in Addrs
  BY LiveIn DEF MarkOldDirty, RestOfRAM, Consistent, OldReady
<1>2. PICK s \in Sectors : s = job.old[1]
  BY <1>1, AddrNat
<1>3. sec[s].store # "EMPTY" /\ (JobOf("gc", WritePCs) => s = gcat[1])
  BY <1>1, <1>2 DEF Addrs, Consistent, Swept
<1>4. /\ Fits' /\ (InGC /\ Refuge => Refuge')
      /\ \A t \in Sectors : sec'[t].ok = sec[t].ok /\ sec'[t].store = sec[t].store
  BY <1>1, <1>2, <1>3, DirtyRoom DEF PendingPCs
<1>5. Asked' /\ Headers' /\ Spare'
  BY <1>1, <1>4, WriteKeepsSpare
<1> QED BY <1>4, <1>5 DEF Spacious

LEMMA Room_DeleteOldDirty ==
    ASSUME IInv, Consistent, Spacious, DeleteOldDirty
    PROVE  Spacious'
<1>1. /\ pc = "deldirty" /\ pc' = "done"
      /\ UNCHANGED <<job, req, gc_request, gcret, losses>> /\ DirtySector(job.old[1])
      /\ job.old \in Addrs
  BY DEF DeleteOldDirty, RestOfRAM, Consistent, OldReady
<1>2. PICK s \in Sectors : s = job.old[1]
  BY <1>1, AddrNat
<1>3. sec[s].store # "EMPTY" /\ (JobOf("gc", WritePCs) => s = gcat[1])
  BY <1>1, <1>2 DEF Addrs, Consistent, Swept
<1>4. /\ Fits' /\ (InGC /\ Refuge => Refuge')
      /\ \A t \in Sectors : sec'[t].ok = sec[t].ok /\ sec'[t].store = sec[t].store
  BY <1>1, <1>2, <1>3, DirtyRoom DEF PendingPCs
<1>5. Asked' /\ Headers' /\ Spare'
  BY <1>1, <1>4, WriteKeepsSpare
<1> QED BY <1>4, <1>5 DEF Spacious

LEMMA Room_UpdateSecStatus ==
    ASSUME IInv, Consistent, Roomy, Spacious, UpdateSecStatus
    PROVE  Spacious'
<1>1. PICK s \in Sectors : s = job.to
  BY DEF UpdateSecStatus, IInv, Stage
<1> DEFINE full == sec[s].store = "USING" /\ Len(sec[s].nodes) + 1 >= Cap
           r == [sec[s] EXCEPT !.store = IF full THEN "FULL" ELSE "USING"]
<1>2. /\ pc = "claim" /\ pc' = "prewrite" /\ sec' = [sec EXCEPT ![s] = r]
      /\ job' = [job EXCEPT !.is_full = full]
      /\ UNCHANGED <<gc_request, gcret, req, losses>>
  BY <1>1 DEF UpdateSecStatus, RestOfRAM
<1>3. sec[s] \in Sector /\ job \in Job
  BY Types DEF IInv, SecType, RamType
<1>4. /\ r.ok = sec[s].ok /\ r.dirty = sec[s].dirty /\ r.nodes = sec[s].nodes
      /\ r.store = IF full THEN "FULL" ELSE "USING"
      /\ job'.by = job.by /\ job'.to = s /\ (job'.is_full <=> full)
  BY <1>1, <1>2, <1>3 DEF Sector, Job
<1>5. Clean(s) => ~full
  BY <1>1, <1>2, CleanRoom DEF Spacious
<1>6. job.by = "default" => ~full
  BY <1>1, <1>2 DEF Spacious, Headers, JobOf
<1> HIDE DEF full, r
<1>7. SameNodes /\ sec'[s] = r /\ \A t \in Sectors : t # s => sec'[t] = sec[t]
  BY <1>2, <1>4, HeaderStep DEF Consistent
<1>8. /\ \A t \in Sectors : sec'[t].ok = sec[t].ok /\ sec'[t].dirty = sec[t].dirty
      /\ Empty \ {s} \subseteq Empty'
  BY <1>4, <1>7 DEF Empty
<1>9. Fits'
  <2>1. \A t : Junk(t)' = Junk(t) /\ Pending(t)' = 0 /\ Pending(t) = 0
    BY <1>2, <1>7 DEF SameNodes, Junk, Pending
  <2>2. \A t \in Sectors : Clean(t)' => Clean(t) /\ sec'[t].store # "FULL"
    BY <1>4, <1>5, <1>7 DEF Clean, Spacious, Fits
  <2>3. \A t \in Sectors : Cardinality(Junk(t)) \in Nat
    BY AddrsFinite
  <2> QED BY <1>2, <2>1, <2>2, <2>3, FitsStep DEF Spacious
<1>10. Asked'
  BY <1>2, <1>4 DEF Spacious, Asked, InGC, WritePCs, JobOf
<1>11. Headers'
  BY <1>2, <1>4, <1>6, <1>8 DEF Spacious, Headers, JobOf
<1>12. Spare'
  <2>1. job.by = "gc" => Refuge'
    <3>1. job.by = "gc" => Refuge
      BY <1>2 DEF Spacious, Spare, InGC, WritePCs
    <3> QED BY <1>8, <3>1 DEF Refuge, Clean
  <2>2. job.by # "gc" => Empty' # {}
    BY <1>1, <1>2, <1>8 DEF Spacious, Spare
  <2> QED BY <1>2, <1>4, <2>1, <2>2 DEF Spare, InGC, WritePCs, JobOf
<1> QED BY <1>9, <1>10, <1>11, <1>12 DEF Spacious

LEMMA Room_WritePreWrite ==
    ASSUME IInv, Consistent, Spacious, WritePreWrite
    PROVE  Spacious'
<1>1. PICK s \in Sectors : s = job.to
  BY DEF WritePreWrite, IInv, Stage
<1> DEFINE n == [st |-> "PRE_WRITE", key |-> NoVal, val |-> NoVal]
           L == Len(sec[s].nodes)
<1>2. /\ pc = "prewrite" /\ pc' = "header" /\ sec' = [sec EXCEPT ![s].nodes = Append(@, n)]
      /\ UNCHANGED <<job, gc_request, gcret, req, losses>>
  BY <1>1 DEF WritePreWrite, RestOfRAM
<1>3. n \in Node /\ n.st = "PRE_WRITE"
  BY DEF Node
<1>4. sec[s].store # "EMPTY" /\ L < Cap
  BY <1>1, <1>2 DEF Consistent, TargetReady
<1>5. PICK y : y = <<s, L + 1>>
  OBVIOUS
<1> HIDE DEF n
<1>6. /\ Addrs' = Addrs \cup {y} /\ y \notin Addrs
      /\ \A a \in Addrs : At(a)' = At(a)
      /\ At(y)' = n
      /\ \A t \in Sectors : /\ sec'[t].ok = sec[t].ok /\ sec'[t].store = sec[t].store
                            /\ sec'[t].dirty = sec[t].dirty
  BY <1>2, <1>3, <1>4, <1>5, AppendStep
<1>7. Fits'
  <2>1. \A t : Junk(t)' = IF t = s THEN Junk(t) \cup {y} ELSE Junk(t)
    BY <1>3, <1>5, <1>6 DEF Junk
  <2>2. \A t : Pending(t) = 0 /\ Pending(t)' = IF t = s THEN 1 ELSE 0
    BY <1>1, <1>2 DEF Pending
  <2>3. \A t \in Sectors : Clean(t)' => Clean(t) /\ sec'[t].store = sec[t].store
    BY <1>6 DEF Clean
  <2>4. \A t \in Sectors : Cardinality(Junk(t)') + Pending(t) <= Cardinality(Junk(t)) + Pending(t)'
    BY <2>1, <2>2, PendingJunk
  <2> QED BY <1>2, <2>3, <2>4, FitsStep DEF Spacious, Fits
<1>8. InGC /\ Refuge => Refuge'
  BY <1>6 DEF Refuge, Clean
<1>9. Asked' /\ Headers' /\ Spare'
  BY <1>2, <1>6, <1>8, WriteKeepsSpare
<1> QED BY <1>7, <1>9 DEF Spacious

LEMMA Room_Fill ==
    ASSUME IInv, Consistent, Spacious, NEW n \in Node, n.st # "WRITE", SetNode(Target, n),
           pc \in {"header", "body"}, pc' \in {"body", "commit"},
           UNCHANGED <<job, req, gc_request, gcret, losses>>
    PROVE  Spacious'
<1>1. /\ Target \in Addrs /\ At(Target).st = "PRE_WRITE" /\ Addrs' = Addrs /\ SameHeaders
      /\ \A a \in Addrs : At(a)' = IF a = Target THEN n ELSE At(a)
  BY TargetWrite
<1>2. \A s : Pending(s)' = Pending(s)
  BY DEF Pending
<1>3. PICK x \in Addrs : x = Target
  BY <1>1
<1>4. Fits'
  BY <1>1, <1>2, <1>3, QuietNode DEF Spacious
<1>5. InGC /\ Refuge => Refuge'
  BY <1>1 DEF Refuge, Clean, SameHeaders
<1>6. Asked' /\ Headers' /\ Spare'
  BY <1>1, <1>5, WriteKeepsSpare DEF SameHeaders
<1> QED BY <1>4, <1>6 DEF Spacious

LEMMA TargetNode ==
    ASSUME IInv, Consistent, pc \in {"header", "body", "commit"}
    PROVE  Target \in Addrs /\ At(Target) \in Node /\ At(Target).st = "PRE_WRITE" /\ job \in Job
  BY AddrNode DEF Consistent, TargetReady, IInv, TypeOK

LEMMA Room_WriteHeader ==
    ASSUME IInv, Consistent, Spacious, WriteHeader
    PROVE  Spacious'
<1> DEFINE n == [At(Target) EXCEPT !.key = job.key]
<1>1. /\ pc = "header" /\ pc' = "body" /\ SetNode(Target, n)
      /\ UNCHANGED <<job, req, gc_request, gcret, losses>>
  BY DEF WriteHeader, RestOfRAM
<1>2. n \in Node /\ n.st # "WRITE"
  BY <1>1, TargetNode DEF Node, Job
<1> HIDE DEF n
<1> QED BY <1>1, <1>2, Room_Fill

LEMMA Room_WriteValue ==
    ASSUME IInv, Consistent, Spacious, WriteValue
    PROVE  Spacious'
<1> DEFINE n == [At(Target) EXCEPT !.val = job.val]
<1>1. /\ pc = "body" /\ pc' = "commit" /\ SetNode(Target, n)
      /\ UNCHANGED <<job, req, gc_request, gcret, losses>>
  BY DEF WriteValue, RestOfRAM
<1>2. n \in Node /\ n.st # "WRITE"
  BY <1>1, TargetNode DEF Node, Job
<1> HIDE DEF n
<1> QED BY <1>1, <1>2, Room_Fill

LEMMA Room_WriteCommit ==
    ASSUME IInv, Consistent, Spacious, WriteCommit
    PROVE  Spacious'
<1> DEFINE n == [At(Target) EXCEPT !.st = "WRITE"]
<1>1. /\ pc = "commit" /\ pc' \in {"done", "delete"} /\ SetNode(Target, n)
      /\ gc_request' = (gc_request \/ (job.by \in {"set", "default"} /\ job.is_full))
      /\ UNCHANGED <<job, req, gcret, losses>>
  BY DEF WriteCommit, SetStatus
<1>2. n \in Node /\ n.st = "WRITE"
  BY <1>1, TargetNode DEF Node
<1> HIDE DEF n
<1>3. /\ Target \in Addrs /\ At(Target).st = "PRE_WRITE" /\ Addrs' = Addrs /\ SameHeaders
      /\ \A a \in Addrs : At(a)' = IF a = Target THEN n ELSE At(a)
  BY <1>1, <1>2, TargetWrite
<1>4. PICK x \in Addrs : x = Target
  BY <1>3
<1>5. x[1] = job.to /\ x \in Junk(x[1])
  BY <1>3, <1>4 DEF Target, Junk
<1>6. Fits'
  <2>1. \A s : Junk(s)' = IF s = x[1] THEN Junk(s) \ {x} ELSE Junk(s)
    BY <1>2, <1>3, <1>4, NodeJunk
  <2>2. \A s : Pending(s) = (IF s = x[1] THEN 1 ELSE 0) /\ Pending(s)' = 0
    BY <1>1, <1>5 DEF Pending
  <2>3. ASSUME NEW s \in Sectors
        PROVE  Cardinality(Junk(s)') + Pending(s) <= Cardinality(Junk(s)) + Pending(s)'
    <3>1. Cardinality(Junk(s)) \in Nat
      BY AddrsFinite
    <3>2. CASE s = x[1]
      <4>1. Cardinality(Junk(s)') = Cardinality(Junk(s)) - 1 /\ Pending(s) = 1 /\ Pending(s)' = 0
        BY <1>5, <2>1, <2>2, <3>2, JunkCount
      <4> QED BY <3>1, <4>1
    <3>3. CASE s # x[1]
      <4>1. Junk(s)' = Junk(s) /\ Pending(s) = 0 /\ Pending(s)' = 0
        BY <2>1, <2>2, <3>3
      <4> QED BY <3>1, <4>1
    <3> QED BY <3>2, <3>3
  <2>4. \A s \in Sectors : Clean(s)' => Clean(s) /\ sec'[s].store = sec[s].store
    BY <1>3 DEF SameHeaders, Clean
  <2> QED BY <1>1, <2>3, <2>4, FitsStep DEF Spacious, Fits
<1>7. Empty' = Empty /\ (Refuge => Refuge')
  BY <1>3 DEF SameHeaders, Refuge, Clean, Empty
<1>8. job.by \in {"set", "default", "gc", "rec"}
  BY <1>1 DEF IInv, Stage, TypeOK, Job, WritePCs
<1>9. Asked'
  <2>1. job.by = "default" => ~job.is_full
    BY <1>1 DEF Spacious, Headers, JobOf
  <2>2. /\ job.by = "gc" => gc_request
        /\ job.by # "gc" => ~gc_request
    BY <1>1 DEF Spacious, Asked, InGC, WritePCs, JobOf
  <2>3. gc_request' => job.by \in {"gc", "set"}
    BY <1>1, <1>8, <2>1, <2>2
  <2> QED BY <1>1, <1>8, <2>2, <2>3 DEF Asked, InGC, WritePCs, JobOf
<1>10. Headers'
  BY <1>1, <1>3 DEF Spacious, Headers, SameHeaders, JobOf
<1>11. Spare'
  BY <1>1, <1>7 DEF Spacious, Spare, InGC, WritePCs, JobOf
<1> QED BY <1>6, <1>9, <1>10, <1>11 DEF Spacious

LEMMA Room_DeleteOld ==
    ASSUME IInv, Consistent, Spacious, DeleteOld
    PROVE  Spacious'
<1>1. /\ pc = "delete" /\ pc' = "deldirty" /\ SetNode(job.old, Dead)
      /\ UNCHANGED <<job, req, gc_request, gcret, losses>> /\ job.old \in Marked
  BY DEF DeleteOld, RestOfRAM, Consistent, OldReady
<1>2. PICK x \in Addrs : x = job.old /\ At(x).st # "WRITE"
  BY <1>1 DEF Marked
<1>3. Dead \in Node /\ Dead.st # "WRITE"
  BY DEF Dead, Node
<1>4. /\ Addrs' = Addrs
      /\ \A a \in Addrs : At(a)' = IF a = x THEN Dead ELSE At(a)
      /\ SameHeaders
  BY <1>1, <1>2, <1>3, NodeStep
<1>5. \A s : Pending(s)' = Pending(s)
  BY <1>1 DEF Pending
<1>6. Fits'
  BY <1>1, <1>2, <1>3, <1>4, <1>5, QuietNode DEF Spacious
<1>7. InGC /\ Refuge => Refuge'
  BY <1>4 DEF Refuge, Clean, SameHeaders
<1>8. Asked' /\ Headers' /\ Spare'
  BY <1>1, <1>4, <1>7, WriteKeepsSpare DEF SameHeaders
<1> QED BY <1>6, <1>8 DEF Spacious

LEMMA Room_DropUnfinished ==
    ASSUME IInv, Consistent, Spacious, DropUnfinished
    PROVE  Spacious'
<1> DEFINE n == [Dead EXCEPT !.st = "ERR_HDR"]
<1>1. /\ pc = "recenv" /\ pc' = "recend" /\ Unfinished # {}
      /\ UNCHANGED <<job, req, gc_request, gcret, losses>>
      /\ At(First(Unfinished)).st = "PRE_WRITE" /\ SetNode(First(Unfinished), n)
  BY DEF DropUnfinished
<1>2. First(Unfinished) \in Addrs
  BY <1>1, UnfinishedIs, FirstIn DEF Unfinished
<1>3. PICK x \in Addrs : x = First(Unfinished)
  BY <1>2
<1>4. n \in Node /\ n.st # "WRITE"
  BY DEF Dead, Node
<1> HIDE DEF n
<1>5. /\ Addrs' = Addrs
      /\ \A a \in Addrs : At(a)' = IF a = x THEN n ELSE At(a)
      /\ SameHeaders
  BY <1>1, <1>3, <1>4, NodeStep
<1>6. Fits'
  <2>1. \A s : Pending(s)' = Pending(s)
    BY <1>1 DEF Pending
  <2>2. At(x).st # "WRITE"
    BY <1>1, <1>3
  <2> QED BY <1>1, <1>4, <1>5, <2>1, <2>2, QuietNode DEF Spacious
<1>7. Empty' = Empty
  BY <1>5 DEF Empty, SameHeaders
<1>8. ~gc_request /\ Empty # {} /\ gcret = "idle"
  BY <1>1 DEF Spacious, Asked, Spare, InGC, WritePCs, JobOf, IInv, Control
<1>9. Asked'
  BY <1>1, <1>8 DEF Asked, InGC, WritePCs
<1>10. Headers'
  BY <1>1, <1>5, <1>8 DEF Spacious, Headers, SameHeaders, JobOf
<1>11. Spare'
  BY <1>1, <1>7, <1>8 DEF Spare, InGC, WritePCs, JobOf
<1> QED BY <1>6, <1>9, <1>10, <1>11 DEF Spacious

LEMMA FreshEmpty == /\ Fresh.ok /\ Fresh.store = "EMPTY" /\ Fresh.dirty = "FALSE"
                    /\ ~Blank.ok /\ Blank.store = "EMPTY" /\ Blank.dirty = "FALSE"
  BY DEF Fresh, Blank

LEMMA Room_GCSector ==
    ASSUME IInv, Consistent, Spacious, GCSector
    PROVE  Spacious'
<1> DEFINE D == DirtyAfter(gcat[1])
<1>1. Min(D) \in D
  <2>1. D \in SUBSET Nat /\ D # {}
    BY SectorNat DEF GCSector, DirtyAfter
  <2> QED BY <2>1, MinIn
<1>2. PICK s \in Sectors : s = Min(D) /\ ~Clean(s)
  BY <1>1 DEF DirtyAfter, Clean
<1> DEFINE r == [sec[s] EXCEPT !.dirty = "GC"]
<1>3. /\ pc = "gc" /\ pc' = "gcnode" /\ sec' = [sec EXCEPT ![s] = r]
      /\ UNCHANGED <<job, gc_request, gcret, req, losses>>
  BY <1>2 DEF GCSector
<1>4. sec[s] \in Sector
  BY Types DEF IInv, SecType
<1>5. r.ok = sec[s].ok /\ r.dirty = "GC" /\ r.nodes = sec[s].nodes /\ r.store = sec[s].store
  BY <1>4 DEF Sector
<1> HIDE DEF r
<1>6. SameNodes /\ sec'[s] = r /\ \A t \in Sectors : t # s => sec'[t] = sec[t]
  BY <1>3, <1>5, HeaderStep DEF Consistent
<1>7. gc_request /\ Refuge
  BY <1>3 DEF Spacious, Asked, Spare, InGC
<1>8. Fits'
  <2>1. \A t : Junk(t)' = Junk(t) /\ Pending(t)' = 0 /\ Pending(t) = 0
    BY <1>3, <1>6 DEF SameNodes, Junk, Pending
  <2>2. \A t \in Sectors : Clean(t)' => Clean(t) /\ sec'[t].store # "FULL"
    BY <1>5, <1>6 DEF Clean, Spacious, Fits
  <2>3. \A t \in Sectors : Cardinality(Junk(t)) \in Nat
    BY AddrsFinite
  <2> QED BY <1>3, <2>1, <2>2, <2>3, FitsStep DEF Spacious
<1>9. Asked'
  BY <1>3, <1>7 DEF Asked, InGC
<1>10. Headers'
  <2>1. \A t \in Sectors : sec'[t].ok = sec[t].ok
    BY <1>5, <1>6
  <2> QED BY <1>3, <2>1 DEF Spacious, Headers, JobOf
<1>11. Spare'
  <2>1. Refuge'
    BY <1>2, <1>6, <1>7 DEF Refuge, Clean
  <2> QED BY <1>3, <2>1 DEF Spare, InGC, JobOf
<1> QED BY <1>8, <1>9, <1>10, <1>11 DEF Spacious

\* An erased or a formatted sector holds nothing, the others are as before.
LEMMA FormatFits ==
    ASSUME IInv, Fits, NEW s \in Sectors, NEW r \in {Blank, Fresh}, losses' = losses,
           sec' = [sec EXCEPT ![s] = r], pc \notin PendingPCs, pc' \notin PendingPCs
    PROVE  /\ Fits' /\ sec'[s] = r /\ \A t \in Sectors : t # s => sec'[t] = sec[t]
           /\ r = Fresh => s \in Empty'
<1>1. /\ Addrs' = {a \in Addrs : a[1] # s}
      /\ \A a \in Addrs' : At(a)' = At(a)
      /\ sec'[s] = r
      /\ \A t \in Sectors : t # s => sec'[t] = sec[t]
  BY FormatStep
<1>2. \A t : t # s => Junk(t)' = Junk(t)
  BY <1>1 DEF Junk
<1>3. \A t : Pending(t)' = 0 /\ Pending(t) = 0
  BY DEF Pending, PendingPCs
<1>4. \A t \in Sectors : Cardinality(Junk(t)) \in Nat
  BY AddrsFinite
<1>5. Fits'
  <2>1. \A t \in Sectors : t # s /\ Clean(t)' => Clean(t) /\ sec'[t].store # "FULL"
    BY <1>1 DEF Clean, Fits
  <2>2. sec'[s].store = "EMPTY"
    BY <1>1, FreshEmpty
  <2> QED BY <1>2, <1>3, <1>4, <2>1, <2>2, FitsStep
<1> QED BY <1>1, <1>5, FreshEmpty DEF Empty

LEMMA Room_GCErase ==
    ASSUME IInv, Consistent, Spacious, GCErase
    PROVE  Spacious'
<1>1. PICK s \in Sectors : s = gcat[1]
  BY DEF GCErase, Consistent, Swept
<1>2. /\ pc = "gcnode" /\ pc' = "format" /\ sec' = [sec EXCEPT ![s] = Blank]
      /\ UNCHANGED <<job, gc_request, gcret, gcat, req, losses>>
  BY <1>1 DEF GCErase, RestOfRAM
<1>3. /\ Fits' /\ sec'[s] = Blank /\ \A t \in Sectors : t # s => sec'[t] = sec[t]
  BY <1>2, FormatFits DEF Spacious, PendingPCs
<1>4. gc_request /\ Refuge
  BY <1>2 DEF Spacious, Asked, Spare, InGC
<1>5. Asked'
  BY <1>2, <1>4 DEF Asked, InGC
<1>6. Headers'
  BY <1>1, <1>2, <1>3, FreshEmpty DEF Spacious, Headers, JobOf
<1>7. Spare'
  <2>1. ~Clean(s)
    BY <1>1, <1>2 DEF Consistent, Swept, Clean
  <2>2. Refuge'
    BY <1>3, <1>4, <2>1 DEF Refuge, Clean
  <2> QED BY <1>2, <2>2 DEF Spare, InGC, JobOf
<1> QED BY <1>3, <1>5, <1>6, <1>7 DEF Spacious

LEMMA Room_GCFormat ==
    ASSUME IInv, Consistent, Spacious, GCFormat
    PROVE  Spacious'
<1>1. PICK s \in Sectors : s = gcat[1]
  BY DEF GCFormat, Consistent, Swept
<1>2. /\ pc = "format" /\ pc' = "gc" /\ sec' = [sec EXCEPT ![s] = Fresh]
      /\ UNCHANGED <<job, gc_request, gcret, gcat, req, losses>>
  BY <1>1 DEF GCFormat, RestOfRAM
<1>3. /\ Fits' /\ sec'[s] = Fresh /\ \A t \in Sectors : t # s => sec'[t] = sec[t]
      /\ s \in Empty'
  BY <1>2, FormatFits DEF Spacious, PendingPCs
<1>4. gc_request
  BY <1>2 DEF Spacious, Asked, InGC
<1>5. Asked'
  BY <1>2, <1>4 DEF Asked, InGC
<1>6. Headers'
  BY <1>1, <1>2, <1>3, FreshEmpty DEF Spacious, Headers, JobOf
<1>7. Spare'
  <2>1. Refuge'
    BY <1>3, FreshEmpty DEF Refuge, Clean
  <2> QED BY <1>2, <1>3, <2>1 DEF Spare, InGC, JobOf
<1> QED BY <1>3, <1>5, <1>6, <1>7 DEF Spacious

LEMMA Room_WipeErase ==
    ASSUME IInv, Consistent, Spacious, WipeErase
    PROVE  Spacious'
<1>1. PICK s \in Sectors : s = at[1]
  BY EnvAssumption DEF WipeErase, IInv, TypeOK, Sectors, Consistent, Recovered
<1>2. /\ pc = "wipe" /\ pc' = "wipeformat" /\ sec' = [sec EXCEPT ![s] = Blank]
      /\ UNCHANGED <<job, gc_request, gcret, at, req, losses>> /\ gcret = "idle"
  BY <1>1 DEF WipeErase, RestOfRAM, IInv, Control, InGC, WritePCs
<1>3. /\ Fits' /\ sec'[s] = Blank /\ \A t \in Sectors : t # s => sec'[t] = sec[t]
  BY <1>2, FormatFits DEF Spacious, PendingPCs
<1>4. ~gc_request
  BY <1>2 DEF Spacious, Asked, InGC, WritePCs, JobOf
<1>5. Asked'
  BY <1>2, <1>4 DEF Asked, InGC, WritePCs
<1>6. Headers'
  <2>1. \A t \in Sectors : t < at[1] => sec[t] = Fresh /\ t # s
    BY <1>1, <1>2, SectorNat DEF Spacious, Headers
  <2> QED BY <1>1, <1>2, <1>3, <2>1, FreshEmpty DEF Spacious, Headers, JobOf
<1>7. Spare'
  BY <1>2 DEF Spare, InGC, WritePCs, JobOf
<1> QED BY <1>3, <1>5, <1>6, <1>7 DEF Spacious

LEMMA Room_WipeFormat ==
    ASSUME IInv, Consistent, Spacious, WipeFormat
    PROVE  Spacious'
<1>1. PICK s \in Sectors : s = at[1]
  BY DEF WipeFormat, Consistent, Recovered
<1>2. /\ pc = "wipeformat" /\ pc' = "wipe" /\ sec' = [sec EXCEPT ![s] = Fresh]
      /\ UNCHANGED <<job, gc_request, gcret, req, losses>> /\ gcret = "idle" /\ at'[1] = s + 1
  BY <1>1 DEF WipeFormat, IInv, Control, InGC, WritePCs
<1>3. /\ Fits' /\ sec'[s] = Fresh /\ \A t \in Sectors : t # s => sec'[t] = sec[t]
      /\ s \in Empty'
  BY <1>2, FormatFits DEF Spacious, PendingPCs
<1>4. ~gc_request
  BY <1>2 DEF Spacious, Asked, InGC, WritePCs, JobOf
<1>5. Asked'
  BY <1>2, <1>4 DEF Asked, InGC, WritePCs
<1>6. Headers'
  <2>1. \A t \in Sectors : t < s + 1 => t = s \/ t < at[1]
    BY <1>1, SectorNat
  <2>2. \A t \in Sectors : t < s + 1 => sec'[t] = Fresh
    BY <1>2, <1>3, <2>1 DEF Spacious, Headers
  <2>3. \A t \in Sectors : sec'[t].ok
    BY <1>1, <1>2, <1>3, FreshEmpty DEF Spacious, Headers
  <2> QED BY <1>2, <2>2, <2>3 DEF Headers, JobOf
<1>7. Spare'
  BY <1>2, <1>3 DEF Spare, InGC, WritePCs, JobOf
<1> QED BY <1>3, <1>5, <1>6, <1>7 DEF Spacious

LEMMA Room_CheckHeader ==
    ASSUME IInv, Consistent, Spacious, CheckHeader
    PROVE  Spacious'
<1>1. PICK s \in Sectors : s = Min(Bad)
  BY MinIn, SectorNat DEF CheckHeader, Bad
<1>2. /\ pc = "hdr" /\ pc' = "hdr" /\ sec' = [sec EXCEPT ![s] = Fresh]
      /\ UNCHANGED <<job, gc_request, gcret, at, req, losses>> /\ gcret = "idle"
  BY <1>1 DEF CheckHeader, IInv, Control, InGC, WritePCs
<1>3. Fits' /\ s \in Empty'
  BY <1>2, FormatFits DEF Spacious, PendingPCs
<1>4. ~gc_request /\ at = NoNode
  BY <1>2 DEF Spacious, Asked, Spare, InGC, WritePCs, JobOf
<1>5. Asked'
  BY <1>2, <1>4 DEF Asked, InGC, WritePCs
<1>6. Headers'
  BY <1>2 DEF Headers, JobOf
<1>7. Spare'
  BY <1>2, <1>3, <1>4 DEF Spare, InGC, WritePCs, JobOf
<1> QED BY <1>3, <1>5, <1>6, <1>7 DEF Spacious

-----------------------------------------------------------------------------
\* The theorems about room.

LEMMA InitRoom == Init => Spacious
<1> SUFFICES ASSUME Init PROVE Spacious
  OBVIOUS
<1>1. /\ pc = "hdr" /\ at = NoNode /\ ~gc_request /\ gcret = "idle" /\ losses = 0
      /\ \A s \in Sectors : sec[s] = Blank
  BY DEF Init
<1>2. 1 \in Sectors
  BY EnvAssumption DEF Sectors, EF_GC_EMPTY_SEC_THRESHOLD
<1>3. Fits
  <2>1. \A s \in Sectors : sec[s].store = "EMPTY" /\ Pending(s) = 0
    BY <1>1, FreshEmpty DEF Pending
  <2> QED BY <1>1, <2>1, EmptyNoJunk DEF Fits
<1>4. Bad # {}
  BY <1>1, <1>2, FreshEmpty DEF Bad
<1>5. Asked
  BY <1>1 DEF Asked, InGC, WritePCs
<1>6. Headers
  BY <1>1 DEF Headers, JobOf
<1>7. Spare
  BY <1>1, <1>4 DEF Spare, InGC, WritePCs, JobOf
<1> QED BY <1>3, <1>5, <1>6, <1>7 DEF Spacious

LEMMA RoomyBefore ==
    ASSUME IInv, Roomy', [Next]_vars
    PROVE  Roomy
<1>1. losses' \in {losses, losses + 1}
  <2>1. CASE Call
    BY <2>1 DEF Call, ef_set_env, ef_env_set_default
  <2>2. CASE Boot
    BY <2>2 DEF Boot, CheckHeader, CheckHeadersDone, ResumeGC, RecoverOld, DropUnfinished,
                RecoverNoMore, RecoverEnd, RestOfRAM
  <2>3. CASE Write
    BY <2>3 DEF Write, NewEnv, NewEnvFails, MarkOld, MarkOldDirty, UpdateSecStatus,
                WritePreWrite, WriteHeader, WriteValue, WriteCommit, DeleteOld,
                DeleteOldDirty, Done, RestOfRAM
  <2>4. CASE Collect
    BY <2>4 DEF Collect, GCSector, GCEnd, GCMove, MoveAlloc, MoveFails, GCErase, GCFormat,
                RestOfRAM
  <2>5. CASE Wipe
    BY <2>5 DEF Wipe, WipeErase, WipeFormat, WipeDefault, RestOfRAM
  <2>6. CASE PowerLoss
    BY <2>6 DEF PowerLoss
  <2>7. CASE UNCHANGED vars
    BY <2>7 DEF vars
  <2> QED BY <2>1, <2>2, <2>3, <2>4, <2>5, <2>6, <2>7 DEF Next, Work
<1>2. losses \in Nat /\ Cardinality(Keys) \in Nat /\ Cap \in Nat
  BY EnvAssumption, FS_CardinalityType DEF IInv, TypeOK
<1> QED BY <1>1, <1>2 DEF Roomy

LEMMA StutterRoom ==
    ASSUME Spacious, UNCHANGED vars
    PROVE  Spacious'
<1>1. sec' = sec /\ UNCHANGED <<pc, job, gc_request, gcret, gcat, at, req, already_gc, losses>>
  BY DEF vars, ram
<1>2. (\A s : Clean(s)' = Clean(s) /\ Junk(s)' = Junk(s) /\ Stopped(s)' = Stopped(s))
      /\ Refuge' = Refuge /\ Empty' = Empty /\ Bad' = Bad
  BY <1>1, SameFlash
<1>3. (\A s : Pending(s)' = Pending(s)) /\ (InGC' <=> InGC)
  BY <1>1 DEF Pending, InGC
<1>4. Fits'
  BY <1>1, <1>2, <1>3 DEF Spacious, Fits
<1>5. Asked'
  BY <1>1, <1>3 DEF Spacious, Asked, JobOf
<1>6. Headers'
  BY <1>1, <1>2 DEF Spacious, Headers, JobOf
<1>7. Spare'
  BY <1>1, <1>2, <1>3 DEF Spacious, Spare, JobOf
<1> QED BY <1>4, <1>5, <1>6, <1>7 DEF Spacious

LEMMA StepRoom ==
    ASSUME IInv, Consistent, Roomy, Spacious, ~abandoned', [Next]_vars
    PROVE  Spacious'
<1>1. CASE Call
  BY <1>1, Room_set, Room_default DEF Call
<1>2. CASE Boot
  BY <1>2, Room_CheckHeader, Room_CheckHeadersDone, Room_ResumeGC, Room_RecoverOld,
     Room_DropUnfinished, Room_RecoverNoMore, Room_RecoverEnd DEF Boot
<1>3. CASE Write
  BY <1>3, Room_NewEnv, Room_NewEnvFails, Room_MarkOld, Room_MarkOldDirty,
     Room_UpdateSecStatus, Room_WritePreWrite, Room_WriteHeader, Room_WriteValue,
     Room_WriteCommit, Room_DeleteOld, Room_DeleteOldDirty, Room_Done DEF Write
<1>4. CASE Collect
  BY <1>4, Room_GCSector, Room_GCEnd, Room_GCMove, Room_MoveAlloc, Room_MoveFails,
     Room_GCErase, Room_GCFormat DEF Collect
<1>5. CASE Wipe
  BY <1>5, Room_WipeErase, Room_WipeFormat, Room_WipeDefault DEF Wipe
<1>6. CASE PowerLoss
  BY <1>6, Room_PowerLoss
<1>7. CASE UNCHANGED vars
  BY <1>7, StutterRoom
<1> QED BY <1>1, <1>2, <1>3, <1>4, <1>5, <1>6, <1>7 DEF Next, Work

\* A roomy store keeps its room: no clean sector fills up, and every step
\* leaves, or is about to give back, a sector for the next collection.
THEOREM StaysRoomy == Spec => []RInv
<1>1. Init => RInv
  BY InitRoom DEF RInv
<1>2. IInv /\ JInv /\ RInv /\ [Next]_vars => RInv'
  <2> SUFFICES ASSUME IInv, JInv, RInv, [Next]_vars, Roomy', ~abandoned' PROVE Spacious'
    BY DEF RInv
  <2>1. Roomy /\ ~abandoned
    BY RoomyBefore, AbandonedStays
  <2>2. Consistent /\ Spacious
    BY <2>1 DEF JInv, RInv
  <2> QED BY <2>1, <2>2, StepRoom
<1> QED BY <1>1, <1>2, Invariance, StaysConsistent, PTL DEF Spec

\* Neither writes nor collections nor recoveries use up the last empty sector
\* of ef_env.c, for any keys, sectors, nodes per sector and number of losses.
THEOREM SpareSectorHolds == Spec => []SpareSector
<1>1. IInv /\ RInv => SpareSector
  BY DEF IInv, RInv, Spacious, Spare, SpareSector, InGC, WritePCs
<1> QED BY <1>1, Invariance, StaysRoomy, PTL

\* A move of gc_collect() always finds room, so that what format_sector()
\* erases was copied; recovery gives up only to collect first; and new_env()
\* does not fail after its collection.
THEOREM RoomToWriteHolds == Spec => []RoomToWrite
<1>1. ASSUME IInv, JInv, RInv PROVE RoomToWrite
  <2> SUFFICES ASSUME Roomy, ~abandoned
               PROVE  /\ pc = "alloc" => alloc_env # 0 \/ (job.by = "rec" /\ AllocAsksGC)
                      /\ pc = "new" /\ already_gc => alloc_env # 0
    BY DEF RoomToWrite
  <2>1. Consistent /\ Spacious
    BY <1>1 DEF JInv, RInv
  <2>2. CASE pc = "alloc"
    <3>1. job.by \in {"gc", "rec"}
      BY <2>1, <2>2 DEF Consistent, OldReady
    <3>2. CASE job.by = "gc"
      <4>1. gc_request /\ Refuge
        BY <2>1, <2>2, <3>2 DEF Spacious, Asked, Spare, InGC, WritePCs
      <4>2. PICK t \in Sectors : sec[t].ok /\ Clean(t)
        BY <4>1 DEF Refuge
      <4>3. t \in UsingWithRoom \/ t \in Empty
        BY <1>1, <2>1, <4>2, CleanUsable DEF Spacious
      <4>4. alloc_env # 0
        BY <4>1, <4>3, AllocFound
      <4> QED BY <2>2, <4>4
    <3>3. CASE job.by = "rec"
      <4>1. ~gc_request /\ Empty # {}
        BY <2>1, <2>2, <3>3 DEF Spacious, Asked, Spare, InGC, WritePCs, JobOf
      <4> QED BY <2>2, <3>3, <4>1, AllocAsks
    <3> QED BY <3>1, <3>2, <3>3
  <2>3. CASE pc = "new" /\ already_gc
    <3>1. \A s \in Sectors : sec[s].ok /\ Clean(s)
      BY <2>1, <2>3 DEF Spacious, Headers
    <3> QED BY <1>1, <2>1, <2>3, <3>1, AllCleanAlloc DEF Spacious
  <2> QED BY <2>2, <2>3
<1> QED BY <1>1, Invariance, StaysConsistent, StaysRoomy, PTL
=============================================================================
