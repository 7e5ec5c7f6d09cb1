--------------------------- MODULE ToolkitProofs ---------------------------
(***************************************************************************)
(* Proofs about Toolkit for every number of threads and every sequence of  *)
(* gateway catalogs: type correctness and the copy-on-write property       *)
(* SnapshotWhole.                                                          *)
(***************************************************************************)
EXTENDS Toolkit, TLAPS

(***************************************************************************)
(* SnapshotWhole alone is not inductive: DiscoveryFetched assigns          *)
(* Catalog[resp[t].ver], so the answer a thread holds must itself carry a  *)
(* version the gateway has already published.                             *)
(***************************************************************************)
RespServed ==
    \A t \in Threads :
        op[t].kind \in Discovery /\ resp[t].outcome = "ok" => resp[t].ver \in 1..gv

IInv == TypeOK /\ RespServed /\ SnapshotWhole

USE ThreadsAssumption, CatalogAssumption, NoSnapshotAssumption, FiltersAssumption

\* Every version up to the gateway's current one indexes a tool list.
LEMMA CatalogEntries ==
    ASSUME NEW v \in Versions
    PROVE  Catalog[v] \in Snapshots
BY DEF Versions, Snapshots

(***************************************************************************)
(* The initial state: no snapshot, version 1, every thread idle.           *)
(***************************************************************************)
LEMMA InitIInv == Init => IInv
<1> SUFFICES ASSUME Init PROVE IInv
    OBVIOUS
<1>1. 1 \in Versions
    BY DEF Versions
<1>2. NoOp \in Op
    BY DEF NoOp, Op, NoArgFilter, Filter, OpKinds
<1>3. TypeOK
    BY <1>1, <1>2 DEF Init, TypeOK, NoResp, ResultKinds, Snapshots
<1>4. RespServed
    BY DEF Init, RespServed, NoOp, Discovery
<1>5. SnapshotWhole
    BY DEF Init, SnapshotWhole
<1>6. QED
    BY <1>3, <1>4, <1>5 DEF IInv

(***************************************************************************)
(* A thread entering an operation (with or without a request) touches only *)
(* its own entries of pc, op, resp, res and nreq, and resets resp[t].       *)
(***************************************************************************)
LEMMA SendRequestIInv ==
    ASSUME IInv, NEW t \in Threads, NEW o \in Op, SendRequest(t, o)
    PROVE  IInv'
<1>1. TypeOK'
    BY DEF IInv, TypeOK, SendRequest, NoResp
<1>2. RespServed'
    BY DEF IInv, TypeOK, RespServed, SendRequest, NoResp
<1>3. SnapshotWhole'
    BY DEF IInv, SnapshotWhole, SendRequest
<1>4. QED
    BY <1>1, <1>2, <1>3 DEF IInv

LEMMA FinishIInv ==
    ASSUME IInv, NEW t \in Threads, NEW o \in Op, NEW kind \in ResultKinds,
           NEW snap \in Snapshots, Finish(t, o, kind, snap)
    PROVE  IInv'
<1>1. TypeOK'
    BY DEF IInv, TypeOK, Finish, NoResp
<1>2. RespServed'
    BY DEF IInv, TypeOK, RespServed, Finish, NoResp
<1>3. SnapshotWhole'
    BY DEF IInv, SnapshotWhole, Finish
<1>4. QED
    BY <1>1, <1>2, <1>3 DEF IInv

\* The snapshot list_tools and get_tools return without a request.
LEMMA CachedOrEmptyType ==
    ASSUME TypeOK PROVE CachedOrEmpty \in Snapshots
BY DEF TypeOK, CachedOrEmpty, Snapshots

LEMMA NextIInv == IInv /\ [Next]_vars => IInv'
<1> SUFFICES ASSUME IInv, [Next]_vars PROVE IInv'
    OBVIOUS
<1>0. TypeOK
    BY DEF IInv
<1>1. CASE Deploy
    <2>1. gv' \in Versions /\ gv <= gv'
        BY <1>0, <1>1 DEF Deploy, TypeOK, Versions
    <2>2. TypeOK'
        BY <1>1, <2>1 DEF IInv, TypeOK, Deploy
    <2>3. RespServed'
        BY <1>1, <2>1 DEF IInv, TypeOK, RespServed, Deploy, Versions
    <2>4. SnapshotWhole'
        BY <1>1, <2>1 DEF IInv, TypeOK, SnapshotWhole, Deploy, Versions
    <2>5. QED
        BY <2>2, <2>3, <2>4 DEF IInv
<1>2. ASSUME NEW t \in Threads, StartRefresh(t) PROVE IInv'
    <2>1. [NoOp EXCEPT !.kind = "refresh"] \in Op
        BY DEF NoOp, Op, NoArgFilter, Filter, OpKinds
    <2>2. QED
        BY <1>2, <2>1, SendRequestIInv DEF StartRefresh
<1>3. ASSUME NEW t \in Threads, StartList(t) PROVE IInv'
    <2>1. [NoOp EXCEPT !.kind = "list"] \in Op
        BY DEF NoOp, Op, NoArgFilter, Filter, OpKinds
    <2>2. QED
        BY <1>3, <2>1, <1>0, SendRequestIInv, FinishIInv, CachedOrEmptyType
        DEF StartList, ResultKinds
<1>4. ASSUME NEW t \in Threads, NEW f \in Filters, StartGet(t, f) PROVE IInv'
    <2>1. [NoOp EXCEPT !.kind = "get", !.filter = f] \in Op
        BY DEF NoOp, Op, NoArgFilter, Filter, OpKinds
    <2>2. QED
        BY <1>4, <2>1, <1>0, SendRequestIInv, FinishIInv, CachedOrEmptyType
        DEF StartGet, ResultKinds
<1>5. ASSUME NEW t \in Threads, NEW a \in {"valid", "malformed"}, StartCall(t, a)
      PROVE IInv'
    <2>1. [NoOp EXCEPT !.kind = "call", !.args = a] \in Op
        BY DEF NoOp, Op, NoArgFilter, Filter, OpKinds
    <2>2. <<>> \in Snapshots
        BY DEF Snapshots
    <2>3. QED
        BY <1>5, <2>1, <2>2, SendRequestIInv, FinishIInv DEF StartCall, ResultKinds
<1>6. ASSUME NEW t \in Threads, Respond(t) PROVE IInv'
    <2>1. TypeOK'
        BY <1>0, <1>6 DEF TypeOK, Respond, PostOutcomes, Versions
    <2>2. RespServed'
        <3>1. PICK o \in GetOutcomes :
                 resp' = [resp EXCEPT ![t] =
                            [outcome |-> o,
                             ver |-> IF op[t].kind # "call" /\ o = "ok" THEN gv ELSE 0]]
            BY <1>6 DEF Respond, PostOutcomes
        <3>2. gv \in 1..gv
            BY <1>0 DEF TypeOK, Versions
        <3>3. SUFFICES ASSUME NEW s \in Threads,
                              op'[s].kind \in Discovery, resp'[s].outcome = "ok"
                       PROVE  resp'[s].ver \in 1..gv'
            BY DEF RespServed
        <3>4. op' = op /\ gv' = gv
            BY <1>6 DEF Respond
        <3>5. CASE s = t
            <4>1. op[t].kind # "call"
                BY <3>3, <3>4, <3>5 DEF Discovery
            <4>2. resp'[t] = [outcome |-> o, ver |-> IF o = "ok" THEN gv ELSE 0]
                BY <1>0, <3>1, <4>1 DEF TypeOK
            <4>3. QED
                BY <3>2, <3>3, <3>4, <3>5, <4>2
        <3>6. CASE s # t
            BY <1>0, <3>1, <3>3, <3>4, <3>6 DEF IInv, TypeOK, RespServed
        <3>7. QED
            BY <3>5, <3>6
    <2>3. SnapshotWhole'
        BY <1>6 DEF IInv, SnapshotWhole, Respond
    <2>4. QED
        BY <2>1, <2>2, <2>3 DEF IInv
<1>7. ASSUME NEW t \in Threads, DiscoveryFailed(t) PROVE IInv'
    <2>1. TypeOK'
        BY <1>0, <1>7 DEF TypeOK, DiscoveryFailed, MakeRequestError, ResultKinds, Snapshots
    <2>2. RespServed'
        BY <1>7 DEF IInv, RespServed, DiscoveryFailed
    <2>3. SnapshotWhole'
        BY <1>7 DEF IInv, SnapshotWhole, DiscoveryFailed
    <2>4. QED
        BY <2>1, <2>2, <2>3 DEF IInv
<1>8. ASSUME NEW t \in Threads, DiscoveryFetched(t) PROVE IInv'
    <2>1. resp[t].ver \in 1..gv
        BY <1>8 DEF IInv, RespServed, DiscoveryFetched
    <2>2. resp[t].ver \in Versions
        BY <2>1, <1>0 DEF TypeOK, Versions
    <2>3. cache' \in Snapshots
        BY <1>8, <2>2, CatalogEntries DEF DiscoveryFetched
    <2>4. TypeOK'
        <3>1. CASE op[t].kind = "refresh"
            <4>1. pc' = [pc EXCEPT ![t] = "idle"]
                  /\ res' = [res EXCEPT ![t] = [kind |-> "ok", snap |-> <<>>]]
                  /\ lazyOk' = lazyOk
                BY <1>8, <3>1 DEF DiscoveryFetched
            <4>2. res' \in [Threads -> [kind : ResultKinds, snap : Snapshots]]
                BY <1>0, <4>1 DEF TypeOK, ResultKinds, Snapshots
            <4>3. QED
                BY <1>0, <1>8, <2>3, <4>1, <4>2 DEF TypeOK, DiscoveryFetched
        <3>2. CASE op[t].kind \in {"list", "get"}
            <4>1. pc' = [pc EXCEPT ![t] = "ret"] /\ lazyOk' = lazyOk + 1 /\ res' = res
                BY <1>8, <3>2 DEF DiscoveryFetched
            <4>2. pc' \in [Threads -> {"idle", "wait", "responded", "ret"}]
                  /\ lazyOk' \in Nat
                BY <1>0, <4>1 DEF TypeOK
            <4>3. QED
                BY <1>0, <1>8, <2>3, <4>1, <4>2 DEF TypeOK, DiscoveryFetched
        <3>3. QED
            BY <1>8, <3>1, <3>2 DEF DiscoveryFetched
    <2>5. RespServed'
        BY <1>8 DEF IInv, RespServed, DiscoveryFetched
    <2>6. SnapshotWhole'
        BY <1>8, <2>1 DEF SnapshotWhole, DiscoveryFetched
    <2>7. QED
        BY <2>4, <2>5, <2>6 DEF IInv
<1>9. ASSUME NEW t \in Threads, Return(t) PROVE IInv'
    <2>1. TypeOK'
        BY <1>0, <1>9, CachedOrEmptyType DEF TypeOK, Return, ResultKinds
    <2>2. RespServed' /\ SnapshotWhole'
        BY <1>9 DEF IInv, RespServed, SnapshotWhole, Return
    <2>3. QED
        BY <2>1, <2>2 DEF IInv
<1>10. ASSUME NEW t \in Threads, CompleteCall(t) PROVE IInv'
    <2>1. TypeOK'
        BY <1>0, <1>10 DEF TypeOK, CompleteCall, MakeRequestError, ResultKinds, Snapshots
    <2>2. RespServed' /\ SnapshotWhole'
        BY <1>10 DEF IInv, RespServed, SnapshotWhole, CompleteCall
    <2>3. QED
        BY <2>1, <2>2 DEF IInv
<1>11. CASE UNCHANGED vars
    BY <1>11 DEF vars, IInv, TypeOK, RespServed, SnapshotWhole
<1>12. QED
    BY <1>1, <1>2, <1>3, <1>4, <1>5, <1>6, <1>7, <1>8, <1>9, <1>10, <1>11
    DEF Next, Thread

(***************************************************************************)
(* Type correctness of the toolkit's state, for every set of threads and   *)
(* every sequence of catalogs: self._tools is None or a tool list, every   *)
(* answer held carries a published version.                                *)
(***************************************************************************)
THEOREM TypeCorrect == Spec => []TypeOK
<1>1. Spec => []IInv
    BY InitIInv, NextIInv, PTL DEF Spec
<1>2. QED
    BY <1>1, PTL DEF IInv

(***************************************************************************)
(* Copy-on-write (spec section 5), for any number of concurrent callers    *)
(* and any gateway history: self._tools is always None or exactly one      *)
(* tool list the gateway has published, never a partial or merged one.     *)
(***************************************************************************)
THEOREM SnapshotWholeHolds == Spec => []SnapshotWhole
<1>1. Spec => []IInv
    BY InitIInv, NextIInv, PTL DEF Spec
<1>2. QED
    BY <1>1, PTL DEF IInv

=============================================================================
