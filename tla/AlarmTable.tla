----------------------------- MODULE AlarmTable -----------------------------
(***************************************************************************)
(* The table of devices as the valve control sees it, without slots: who   *)
(* is learned, whose alarm flag stands in memory and whose in flash.  A    *)
(* flag in memory belongs to a slot, so it outlives its device: as Freed   *)
(* while the slot is free, then as a flag of the next device there.        *)
(***************************************************************************)
CONSTANTS Units, Freed

VARIABLES Registered, SlaveAlarm, StoredAlarm

atVars == <<Registered, SlaveAlarm, StoredAlarm>>

Init == Registered = {} /\ SlaveAlarm = {} /\ StoredAlarm = {}

Raise(d) ==
    /\ d \in Registered
    /\ SlaveAlarm' = SlaveAlarm \cup {d}
    /\ StoredAlarm' = IF d \in SlaveAlarm THEN StoredAlarm ELSE StoredAlarm \cup {d}
    /\ UNCHANGED Registered

Lower(d) ==
    /\ d \in Registered
    /\ SlaveAlarm' = SlaveAlarm \ {d}
    /\ StoredAlarm' = IF d \in SlaveAlarm THEN StoredAlarm \ {d} ELSE StoredAlarm
    /\ UNCHANGED Registered

\* The flags once the slot of x, or a free one when x is Freed, went to y.
Passed(x, y) == IF x \in SlaveAlarm THEN (SlaveAlarm \ {x}) \cup {y} ELSE SlaveAlarm

Delete(d) ==
    /\ d \in Registered
    /\ Registered' = Registered \ {d}
    /\ SlaveAlarm' = Passed(d, Freed)
    /\ UNCHANGED StoredAlarm

\* d takes a free slot, which carries a flag or not.
Add(d) ==
    /\ d \notin Registered
    /\ Registered' = Registered \cup {d}
    /\ \/ SlaveAlarm' = SlaveAlarm
       \/ Freed \in SlaveAlarm /\ SlaveAlarm' \in {SlaveAlarm \cup {d}, Passed(Freed, d)}
    /\ UNCHANGED StoredAlarm

\* d takes the slot of x.
Replace(x, d) ==
    /\ x \in Registered /\ d \notin Registered
    /\ Registered' = (Registered \ {x}) \cup {d}
    /\ SlaveAlarm' = Passed(x, d)
    /\ UNCHANGED StoredAlarm

Wipe == Registered' = {} /\ SlaveAlarm' = {} /\ StoredAlarm' = {}

\* A boot.
Load == SlaveAlarm' = StoredAlarm' \cap Registered'

Restart == UNCHANGED <<Registered, StoredAlarm>> /\ Load

\* A boot out of a half-done operation on d, which was to replace x or nobody.
RestartWithin(x, d) ==
    /\ Registered' \in {Registered, Registered \ {d}, Registered \cup {d}, (Registered \ {x}) \cup {d}}
    /\ StoredAlarm' \in {StoredAlarm, StoredAlarm \ {d}, StoredAlarm \cup {d}}
    /\ Load

\* A boot out of a half-done wipe.
RestartInWipe ==
    /\ Registered' \in SUBSET Registered /\ StoredAlarm' \in SUBSET StoredAlarm
    /\ Load

Next ==
    \/ \E d \in Units : Raise(d) \/ Lower(d) \/ Delete(d) \/ Add(d)
    \/ \E x, d \in Units : Replace(x, d) \/ RestartWithin(x, d)
    \/ Wipe \/ Restart \/ RestartInWipe

Spec == Init /\ [][Next]_atVars
=============================================================================
