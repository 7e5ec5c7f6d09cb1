------------------------------ MODULE ToolCache ------------------------------
(***************************************************************************)
(* What the tool registry cache of GoMicroToolkit promises (spec 3, 4.2,   *)
(* 5), independent of requests, threads and error handling:               *)
(*   - the snapshot starts unpopulated and, once populated, is always one  *)
(*     whole tool list the gateway has published; it is never reset;      *)
(*   - a read (list_tools / get_tools) returns the snapshot as it is at    *)
(*     that moment, with "unpopulated" read as the empty list.            *)
(* It says nothing of which published list wins when fetches race.        *)
(***************************************************************************)
EXTENDS Naturals, Sequences

CONSTANTS
    Threads,     \* callers reading the cache
    Catalog,     \* Catalog[v]: the tool list published at version v
    NoSnapshot   \* the unpopulated cache; also "this caller holds no read"

VARIABLES
    snapshot,    \* the cached tool list, or NoSnapshot
    published,   \* the gateway's latest version
    seen         \* seen[t]: the list caller t's last read returned

vars == <<snapshot, published, seen>>

Init ==
    /\ snapshot = NoSnapshot
    /\ published = 1
    /\ seen = [t \in Threads |-> NoSnapshot]

\* The gateway publishes its next list.
Publish ==
    /\ published + 1 \in 1..Len(Catalog)
    /\ published' = published + 1
    /\ UNCHANGED <<snapshot, seen>>

\* The cache is replaced, as a whole, by some list the gateway has published.
Replace ==
    /\ \E v \in 1..published : snapshot' = Catalog[v]
    /\ UNCHANGED <<published, seen>>

\* Caller t reads the cache as it is now.
Read(t) ==
    /\ seen' = [seen EXCEPT ![t] = IF snapshot = NoSnapshot THEN <<>> ELSE snapshot]
    /\ UNCHANGED <<snapshot, published>>

\* Caller t moves on to another operation and drops what it read.
Forget(t) ==
    /\ seen' = [seen EXCEPT ![t] = NoSnapshot]
    /\ UNCHANGED <<snapshot, published>>

Next == Publish \/ Replace \/ \E t \in Threads : Read(t) \/ Forget(t)

Spec == Init /\ [][Next]_vars

=============================================================================
