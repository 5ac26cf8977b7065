--------------------------- MODULE ValveInterlock ---------------------------
(***************************************************************************)
(* What the unit promises about its valve, with no motors, timers, scan    *)
(* or device table: four facts and the only ways they may change.          *)
(*   open    the valve is driven open                                      *)
(*   locked  it was closed from afar and only a remote open may undo that  *)
(*   remote  its last move was such a remote open                          *)
(*   alarm   a warning holds it shut: "freeze" lifts by itself, "leak"     *)
(*           does not                                                      *)
(* The lock survives a restart; an alarm need not.                         *)
(***************************************************************************)
VARIABLES open, locked, remote, alarm

ilVars == <<open, locked, remote, alarm>>

Init == open = TRUE /\ locked = FALSE /\ remote = FALSE /\ alarm = "none"

\* A local open or close: neither over the lock nor out of an alarm.
LocalMove(o) ==
    /\ ~locked /\ alarm = "none"
    /\ open' = o /\ remote' = FALSE
    /\ UNCHANGED <<locked, alarm>>

\* A remote open lifts the lock, but not an alarm.
RemoteOpen ==
    /\ alarm = "none"
    /\ open' = TRUE /\ locked' = FALSE /\ remote' = TRUE
    /\ UNCHANGED alarm

\* A close from afar (or the end of a closing delay).
Lock == open' = FALSE /\ locked' = TRUE /\ remote' = FALSE /\ alarm' = "none"

\* A warning closes the valve; a leak is never demoted to a freeze.
Raise(a) ==
    /\ alarm = "leak" => a = "leak"
    /\ open' = FALSE
    /\ alarm' = a
    /\ locked' \in BOOLEAN /\ (locked => locked')
    /\ remote' \in BOOLEAN /\ (remote' => remote)

\* The warning ends and the valve stays where it is.
Clear == alarm' = "none" /\ UNCHANGED <<open, locked, remote>>

\* Only the end of a freeze may open the valve again, and never over the lock.
Thaw(o) ==
    /\ alarm = "freeze" /\ ~locked
    /\ open' = o /\ alarm' = "none" /\ remote' = FALSE
    /\ UNCHANGED locked

\* Stored settings erased by the user.
Wipe == locked' = FALSE /\ remote' = FALSE /\ UNCHANGED <<open, alarm>>

\* After a power cut the valve opens unless it is locked.
Restart == alarm' = "none" /\ open' = ~locked /\ remote' = FALSE /\ UNCHANGED locked

Next ==
    \/ \E o \in BOOLEAN : LocalMove(o) \/ Thaw(o)
    \/ \E a \in {"freeze", "leak"} : Raise(a)
    \/ RemoteOpen \/ Lock \/ Clear \/ Wipe \/ Restart

Spec == Init /\ [][Next]_ilVars
=============================================================================
