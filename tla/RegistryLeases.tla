---------------------------- MODULE RegistryLeases ----------------------------
(***************************************************************************)
(* What registering with the sidecar promises, with processes, ports and  *)
(* error handling abstracted away.  A node id is leased once: it becomes   *)
(* live when the start that draws it begins and retired when that start    *)
(* ends, and it is never live again.  Only a live node is added to or     *)
(* removed from the registry, and removing a node ends its lease.  A node *)
(* whose lease ended without a removal may stay listed.                   *)
(***************************************************************************)
CONSTANT NodeIds   \* the node ids a start can draw

VARIABLES
    registry,  \* the node ids the registry lists
    live,      \* the node ids of starts that have begun and not ended
    retired    \* the node ids of starts that have ended

vars == <<registry, live, retired>>

Init ==
    /\ registry = {}
    /\ live = {}
    /\ retired = {}

\* A start draws an id nobody has held.
Start(n) ==
    /\ n \notin live \cup retired
    /\ live' = live \cup {n}
    /\ UNCHANGED <<registry, retired>>

\* A live node is listed.
Add(n) ==
    /\ n \in live
    /\ registry' = registry \cup {n}
    /\ UNCHANGED <<live, retired>>

\* A live node is unlisted, and its start ends.
Remove(n) ==
    /\ n \in live
    /\ registry' = registry \ {n}
    /\ live' = live \ {n}
    /\ retired' = retired \cup {n}

\* A live node's start ends; the registry keeps whatever it lists.
End(n) ==
    /\ n \in live
    /\ live' = live \ {n}
    /\ retired' = retired \cup {n}
    /\ UNCHANGED registry

Next == \E n \in NodeIds : Start(n) \/ Add(n) \/ Remove(n) \/ End(n)

Spec == Init /\ [][Next]_vars

=============================================================================
