-------------------------- MODULE ToolkitInvariants --------------------------
(***************************************************************************)
(* Proofs of the toolkit's error classification (ResultClassified) and of *)
(* the bound on lazy discoveries (LazyFetchBounded), for every number of   *)
(* threads and every sequence of gateway catalogs.                         *)
(***************************************************************************)
EXTENDS ToolkitProofs, FiniteSetTheorems

(***************************************************************************)
(* ResultClassified alone is not inductive.  A malformed call never sends *)
(* a request, so its thread is idle with GoMicroToolError and no request   *)
(* (MalformedLocal); and the lazy path reaches its Return only after a    *)
(* parsed 2xx answer (RetFetched), so the "ok" that Return records matches *)
(* the answer the thread holds.  Every conjunct is about one thread.       *)
(***************************************************************************)
MalformedLocal(t) ==
    op[t].kind = "call" /\ op[t].args = "malformed" =>
        pc[t] = "idle" /\ res[t].kind = "Tool" /\ nreq[t] = 0

RetFetched(t) == pc[t] = "ret" => resp[t].outcome = "ok" /\ op[t].kind \in {"list", "get"}

ClassifiedAt(t) ==
    Done(t) =>
        /\ op[t].kind = "call" /\ op[t].args = "malformed" =>
              res[t].kind = "Tool" /\ nreq[t] = 0
        /\ nreq[t] = 1 /\ resp[t].outcome \in {"ok", "401", "403"} \cup TransportFailures =>
              res[t].kind = ExpectedKind(resp[t].outcome)

TInv(t) == MalformedLocal(t) /\ RetFetched(t) /\ ClassifiedAt(t)

CInv == IInv /\ \A t \in Threads : TInv(t)

(***************************************************************************)
(* LazyFetchBounded alone is not inductive.  The threads whose lazy       *)
(* discovery is in flight may each still succeed, so they count against   *)
(* the bound too; and a lazy request is only sent while the cache is None, *)
(* when no lazy discovery has succeeded yet.                               *)
(***************************************************************************)
LazyInFlight ==
    {t \in Threads : pc[t] \in {"wait", "responded"} /\ op[t].kind \in {"list", "get"}}

LazyBudget == lazyOk + Cardinality(LazyInFlight) <= Cardinality(Threads)

NoneBeforeLazy == cache = NoSnapshot => lazyOk = 0

LInv == IInv /\ LazyBudget /\ NoneBeforeLazy

USE ThreadsAssumption, CatalogAssumption, NoSnapshotAssumption, FiltersAssumption

\* A step of thread t leaves every other thread's entries alone.
Untouched(t) ==
    \A s \in Threads \ {t} :
        /\ pc'[s] = pc[s] /\ op'[s] = op[s] /\ resp'[s] = resp[s]
        /\ res'[s] = res[s] /\ nreq'[s] = nreq[s]

LEMMA ThreadFrame ==
    ASSUME NEW s, TInv(s), pc'[s] = pc[s], op'[s] = op[s], resp'[s] = resp[s],
           res'[s] = res[s], nreq'[s] = nreq[s]
    PROVE  TInv(s)'
BY DEF TInv, MalformedLocal, RetFetched, ClassifiedAt, Done

(***************************************************************************)
(* A step of one thread that keeps IInv and that thread's conjuncts keeps  *)
(* CInv.                                                                   *)
(***************************************************************************)
LEMMA LocalStep ==
    ASSUME CInv, IInv', NEW t \in Threads, Untouched(t), TInv(t)'
    PROVE  CInv'
BY ThreadFrame DEF CInv, Untouched

\* A parsed 2xx is no error.
LEMMA ExpectedOk == ExpectedKind("ok") = "ok"
BY DEF ExpectedKind, TransportFailures

LEMMA InitCInv == Init => CInv
<1> SUFFICES ASSUME Init PROVE CInv
    OBVIOUS
<1>1. IInv
    BY InitIInv
<1>2. \A t \in Threads : TInv(t)
    BY DEF Init, NoOp, TInv, MalformedLocal, RetFetched, ClassifiedAt, Done
<1>3. QED
    BY <1>1, <1>2 DEF CInv

\* Entering an operation with a request (anything but a malformed call).
LEMMA SendRequestCInv ==
    ASSUME CInv, NEW t \in Threads, NEW o \in Op, SendRequest(t, o),
           ~(o.kind = "call" /\ o.args = "malformed")
    PROVE  CInv'
<1>1. IInv'
    BY SendRequestIInv DEF CInv
<1>2. Untouched(t) /\ pc'[t] = "wait" /\ op'[t] = o
    BY DEF CInv, IInv, TypeOK, SendRequest, Untouched
<1>3. TInv(t)'
    BY <1>2 DEF TInv, MalformedLocal, RetFetched, ClassifiedAt, Done
<1>4. QED
    BY <1>1, <1>2, <1>3, LocalStep

\* Entering an operation and returning at once, without a request.
LEMMA FinishCInv ==
    ASSUME CInv, NEW t \in Threads, NEW o \in Op, NEW kind \in ResultKinds,
           NEW snap \in Snapshots, Finish(t, o, kind, snap),
           o.kind = "call" /\ o.args = "malformed" => kind = "Tool"
    PROVE  CInv'
<1>1. IInv'
    BY FinishIInv DEF CInv
<1>2. Untouched(t) /\ pc'[t] = "idle" /\ op'[t] = o /\ nreq'[t] = 0
      /\ res'[t] = [kind |-> kind, snap |-> snap]
    BY DEF CInv, IInv, TypeOK, Finish, Untouched
<1>3. TInv(t)'
    BY <1>2 DEF TInv, MalformedLocal, RetFetched, ClassifiedAt, Done
<1>4. QED
    BY <1>1, <1>2, <1>3, LocalStep

LEMMA NextCInv == CInv /\ [Next]_vars => CInv'
<1> SUFFICES ASSUME CInv, [Next]_vars PROVE CInv'
    OBVIOUS
<1>0. IInv /\ TypeOK /\ IInv'
    BY NextIInv DEF CInv, IInv
<1>1. CASE Deploy
    BY <1>0, <1>1 DEF Deploy, CInv, TInv, MalformedLocal, RetFetched, ClassifiedAt, Done
<1>2. ASSUME NEW t \in Threads, StartRefresh(t) PROVE CInv'
    <2>1. [NoOp EXCEPT !.kind = "refresh"] \in Op
        BY DEF NoOp, Op, NoArgFilter, Filter, OpKinds
    <2>2. QED
        BY <1>2, <2>1, SendRequestCInv DEF StartRefresh, NoOp
<1>3. ASSUME NEW t \in Threads, StartList(t) PROVE CInv'
    <2>1. [NoOp EXCEPT !.kind = "list"] \in Op
        BY DEF NoOp, Op, NoArgFilter, Filter, OpKinds
    <2>2. QED
        BY <1>0, <1>3, <2>1, SendRequestCInv, FinishCInv, CachedOrEmptyType
        DEF StartList, ResultKinds, NoOp
<1>4. ASSUME NEW t \in Threads, NEW f \in Filters, StartGet(t, f) PROVE CInv'
    <2>1. [NoOp EXCEPT !.kind = "get", !.filter = f] \in Op
        BY DEF NoOp, Op, NoArgFilter, Filter, OpKinds
    <2>2. QED
        BY <1>0, <1>4, <2>1, SendRequestCInv, FinishCInv, CachedOrEmptyType
        DEF StartGet, ResultKinds, NoOp
<1>5. ASSUME NEW t \in Threads, NEW a \in {"valid", "malformed"}, StartCall(t, a)
      PROVE  CInv'
    <2> DEFINE o == [NoOp EXCEPT !.kind = "call", !.args = a]
    <2>1. o \in Op /\ o.kind = "call" /\ o.args = a
        BY DEF NoOp, Op, NoArgFilter, Filter, OpKinds
    <2>2. CASE a = "malformed"
        <3>1. Finish(t, o, "Tool", <<>>)
            BY <1>5, <2>2 DEF StartCall
        <3>2. <<>> \in Snapshots /\ "Tool" \in ResultKinds
            BY DEF Snapshots, ResultKinds
        <3>3. QED
            BY <2>1, <3>1, <3>2, FinishCInv
    <2>3. CASE a # "malformed"
        <3>1. SendRequest(t, o)
            BY <1>5, <2>3 DEF StartCall
        <3>2. QED
            BY <2>1, <2>3, <3>1, SendRequestCInv
    <2>4. QED
        BY <2>2, <2>3
<1>6. ASSUME NEW t \in Threads, Respond(t) PROVE CInv'
    <2>1. Untouched(t) /\ pc[t] = "wait" /\ pc'[t] = "responded"
          /\ op'[t] = op[t] /\ res'[t] = res[t] /\ nreq'[t] = nreq[t]
        BY <1>0, <1>6 DEF Respond, TypeOK, Untouched
    <2>2. TInv(t)'
        BY <2>1 DEF CInv, TInv, MalformedLocal, RetFetched, ClassifiedAt, Done
    <2>3. QED
        BY <1>0, <2>1, <2>2, LocalStep
<1>7. ASSUME NEW t \in Threads, DiscoveryFailed(t) PROVE CInv'
    <2> DEFINE o == resp[t].outcome
    <2>1. Untouched(t) /\ pc'[t] = "idle" /\ op'[t] = op[t] /\ op[t].kind \in Discovery
          /\ resp'[t] = resp[t] /\ nreq'[t] = nreq[t] /\ o # "ok"
          /\ res'[t].kind = IF MakeRequestError(o) # "none" THEN MakeRequestError(o)
                            ELSE "Unclassified"
        BY <1>0, <1>7 DEF DiscoveryFailed, TypeOK, Untouched
    <2>2. o \in {"401", "403"} \cup TransportFailures => res'[t].kind = ExpectedKind(o)
        BY <2>1 DEF MakeRequestError, ExpectedKind, TransportFailures
    <2>3. TInv(t)'
        BY <2>1, <2>2 DEF TInv, MalformedLocal, RetFetched, ClassifiedAt, Done, Discovery
    <2>4. QED
        BY <1>0, <2>1, <2>3, LocalStep
<1>8. ASSUME NEW t \in Threads, DiscoveryFetched(t) PROVE CInv'
    <2>1. Untouched(t) /\ op'[t] = op[t] /\ op[t].kind \in Discovery
          /\ resp'[t] = resp[t] /\ nreq'[t] = nreq[t] /\ resp[t].outcome = "ok"
        BY <1>0, <1>8 DEF DiscoveryFetched, TypeOK, Untouched
    <2>2. CASE op[t].kind = "refresh"
        <3>1. pc'[t] = "idle" /\ res'[t].kind = "ok"
            BY <1>0, <1>8, <2>2 DEF DiscoveryFetched, TypeOK
        <3>2. TInv(t)'
            BY <2>1, <2>2, <3>1, ExpectedOk DEF TInv, MalformedLocal, RetFetched,
                                                ClassifiedAt, Done
        <3>3. QED
            BY <1>0, <2>1, <3>2, LocalStep
    <2>3. CASE op[t].kind \in {"list", "get"}
        <3>1. pc'[t] = "ret"
            BY <1>0, <1>8, <2>3 DEF DiscoveryFetched, TypeOK
        <3>2. TInv(t)'
            BY <2>1, <2>3, <3>1 DEF TInv, MalformedLocal, RetFetched, ClassifiedAt, Done
        <3>3. QED
            BY <1>0, <2>1, <3>2, LocalStep
    <2>4. QED
        BY <2>1, <2>2, <2>3 DEF Discovery
<1>9. ASSUME NEW t \in Threads, Return(t) PROVE CInv'
    <2>1. Untouched(t) /\ op'[t] = op[t] /\ resp'[t] = resp[t] /\ nreq'[t] = nreq[t]
          /\ pc'[t] = "idle" /\ res'[t].kind = "ok"
        BY <1>0, <1>9 DEF Return, TypeOK, Untouched
    <2>2. resp[t].outcome = "ok" /\ op[t].kind \in {"list", "get"}
        BY <1>9 DEF Return, CInv, TInv, RetFetched
    <2>3. TInv(t)'
        BY <2>1, <2>2, ExpectedOk DEF TInv, MalformedLocal, RetFetched, ClassifiedAt, Done
    <2>4. QED
        BY <1>0, <2>1, <2>3, LocalStep
<1>10. ASSUME NEW t \in Threads, CompleteCall(t) PROVE CInv'
    <2> DEFINE o == resp[t].outcome
               err == MakeRequestError(o)
    <2>1. Untouched(t) /\ op'[t] = op[t] /\ resp'[t] = resp[t] /\ nreq'[t] = nreq[t]
          /\ pc'[t] = "idle" /\ op[t].kind = "call" /\ pc[t] = "responded"
          /\ res'[t].kind = CASE err # "none"  -> err
                              [] o = "bad_body" -> "Tool"
                              [] OTHER          -> "ok"
        BY <1>0, <1>10 DEF CompleteCall, TypeOK, Untouched
    <2>2. op[t].args # "malformed"
        BY <2>1 DEF CInv, TInv, MalformedLocal
    <2>3. o \in {"ok", "401", "403"} \cup TransportFailures => res'[t].kind = ExpectedKind(o)
        BY <2>1 DEF MakeRequestError, ExpectedKind, TransportFailures
    <2>4. TInv(t)'
        BY <2>1, <2>2, <2>3 DEF TInv, MalformedLocal, RetFetched, ClassifiedAt, Done
    <2>5. QED
        BY <1>0, <2>1, <2>4, LocalStep
<1>11. CASE UNCHANGED vars
    BY <1>11 DEF vars, CInv, IInv, TypeOK, RespServed, SnapshotWhole, TInv,
                 MalformedLocal, RetFetched, ClassifiedAt, Done
<1>12. QED
    BY <1>1, <1>2, <1>3, <1>4, <1>5, <1>6, <1>7, <1>8, <1>9, <1>10, <1>11
    DEF Next, Thread

(***************************************************************************)
(* For every number of threads and every gateway history: every finished   *)
(* operation raised what the spec's taxonomy says for the answer it got.  *)
(* A malformed call raised GoMicroToolError without a request; a 401/403   *)
(* raised GoMicroAuthError; a connection failure or timeout raised         *)
(* GoMicroConnectionError; a parsed 2xx returned normally.                 *)
(***************************************************************************)
THEOREM ErrorsClassified == Spec => []ResultClassified
<1>1. CInv => ResultClassified
    BY DEF CInv, TInv, ClassifiedAt, ResultClassified
<1>2. Spec => []CInv
    BY InitCInv, NextCInv, PTL DEF Spec
<1>3. QED
    BY <1>1, <1>2, PTL

-----------------------------------------------------------------------------
(* The bound on lazy discoveries. *)

\* The threads whose lazy discovery is in flight are finitely many.
LEMMA InFlightFinite ==
    /\ IsFiniteSet(LazyInFlight) /\ Cardinality(LazyInFlight) <= Cardinality(Threads)
    /\ IsFiniteSet(LazyInFlight') /\ Cardinality(LazyInFlight') <= Cardinality(Threads)
    /\ Cardinality(LazyInFlight) \in Nat /\ Cardinality(LazyInFlight') \in Nat
    /\ Cardinality(Threads) \in Nat
<1>1. LazyInFlight \subseteq Threads /\ LazyInFlight' \subseteq Threads
    BY DEF LazyInFlight
<1>2. QED
    BY <1>1, FS_Subset, FS_CardinalityType

(***************************************************************************)
(* A step of thread t that moves no other thread changes the in-flight set *)
(* at most by t.                                                           *)
(***************************************************************************)
LEMMA InFlightOthers ==
    ASSUME NEW t \in Threads, \A s \in Threads \ {t} : pc'[s] = pc[s] /\ op'[s] = op[s]
    PROVE  /\ (t \in LazyInFlight) = (t \in LazyInFlight') => LazyInFlight' = LazyInFlight
           /\ t \in LazyInFlight /\ t \notin LazyInFlight' => LazyInFlight' = LazyInFlight \ {t}
           /\ t \notin LazyInFlight /\ t \in LazyInFlight' => LazyInFlight' = LazyInFlight \cup {t}
BY DEF LazyInFlight

LEMMA InitLInv == Init => LInv
<1> SUFFICES ASSUME Init PROVE LInv
    OBVIOUS
<1>1. IInv
    BY InitIInv
<1>2. LazyInFlight = {}
    BY DEF Init, LazyInFlight
<1>3. Cardinality(Threads) \in Nat
    BY FS_CardinalityType
<1>4. QED
    BY <1>1, <1>2, <1>3, FS_EmptySet DEF LInv, LazyBudget, NoneBeforeLazy, Init

(***************************************************************************)
(* A thread step that neither changes the in-flight set, nor lazyOk, nor   *)
(* sets the cache back to None keeps the budget.                           *)
(***************************************************************************)
LEMMA QuietStep ==
    ASSUME LInv, IInv', NEW t \in Threads,
           \A s \in Threads \ {t} : pc'[s] = pc[s] /\ op'[s] = op[s],
           (t \in LazyInFlight) = (t \in LazyInFlight'), lazyOk' = lazyOk, cache' = cache
    PROVE  LInv'
BY InFlightOthers DEF LInv, LazyBudget, NoneBeforeLazy

\* Untouched, for the in-flight set.
LEMMA UntouchedPcOp ==
    ASSUME NEW t \in Threads, Untouched(t)
    PROVE  \A s \in Threads \ {t} : pc'[s] = pc[s] /\ op'[s] = op[s]
BY DEF Untouched

\* Entering an operation with a request.
LEMMA SendRequestLInv ==
    ASSUME LInv, NEW t \in Threads, NEW o \in Op, SendRequest(t, o), pc[t] = "idle",
           o.kind \in {"list", "get"} => cache = NoSnapshot
    PROVE  LInv'
<1>0. TypeOK /\ IInv' /\ Untouched(t) /\ pc'[t] = "wait" /\ op'[t] = o
      /\ UNCHANGED <<cache, lazyOk>>
    BY SendRequestIInv DEF LInv, IInv, TypeOK, SendRequest, Untouched
<1>1. t \notin LazyInFlight
    BY DEF LazyInFlight
<1>2. CASE o.kind \in {"list", "get"}
    <2>1. LazyInFlight' = LazyInFlight \cup {t}
        BY <1>0, <1>1, <1>2, UntouchedPcOp, InFlightOthers DEF LazyInFlight
    <2>2. lazyOk = 0
        BY <1>0, <1>2 DEF LInv, NoneBeforeLazy
    <2>3. TypeOK'
        BY <1>0 DEF IInv
    <2>4. Cardinality(LazyInFlight') <= Cardinality(Threads) /\ Cardinality(LazyInFlight') \in Nat
        BY InFlightFinite
    <2>5. QED
        BY <1>0, <2>2, <2>4 DEF LInv, LazyBudget, NoneBeforeLazy
<1>3. CASE o.kind \notin {"list", "get"}
    BY <1>0, <1>1, <1>3, UntouchedPcOp, QuietStep DEF LazyInFlight
<1>4. QED
    BY <1>2, <1>3

\* Entering an operation and returning at once.
LEMMA FinishLInv ==
    ASSUME LInv, NEW t \in Threads, NEW o \in Op, NEW kind \in ResultKinds,
           NEW snap \in Snapshots, Finish(t, o, kind, snap), pc[t] = "idle"
    PROVE  LInv'
<1>0. IInv' /\ Untouched(t) /\ pc'[t] = "idle" /\ UNCHANGED <<cache, lazyOk>>
    BY FinishIInv DEF LInv, IInv, TypeOK, Finish, Untouched
<1>1. QED
    BY <1>0, UntouchedPcOp, QuietStep DEF LazyInFlight

LEMMA NextLInv == LInv /\ [Next]_vars => LInv'
<1> SUFFICES ASSUME LInv, [Next]_vars PROVE LInv'
    OBVIOUS
<1>0. IInv /\ TypeOK /\ IInv'
    BY NextIInv DEF LInv, IInv
<1>1. CASE Deploy
    BY <1>0, <1>1 DEF Deploy, LInv, LazyBudget, NoneBeforeLazy, LazyInFlight
<1>2. ASSUME NEW t \in Threads, StartRefresh(t) PROVE LInv'
    <2>1. [NoOp EXCEPT !.kind = "refresh"] \in Op
        BY DEF NoOp, Op, NoArgFilter, Filter, OpKinds
    <2>2. QED
        BY <1>2, <2>1, SendRequestLInv DEF StartRefresh, NoOp
<1>3. ASSUME NEW t \in Threads, StartList(t) PROVE LInv'
    <2>1. [NoOp EXCEPT !.kind = "list"] \in Op
        BY DEF NoOp, Op, NoArgFilter, Filter, OpKinds
    <2>2. QED
        BY <1>0, <1>3, <2>1, SendRequestLInv, FinishLInv, CachedOrEmptyType
        DEF StartList, ResultKinds, NoOp
<1>4. ASSUME NEW t \in Threads, NEW f \in Filters, StartGet(t, f) PROVE LInv'
    <2>1. [NoOp EXCEPT !.kind = "get", !.filter = f] \in Op
        BY DEF NoOp, Op, NoArgFilter, Filter, OpKinds
    <2>2. QED
        BY <1>0, <1>4, <2>1, SendRequestLInv, FinishLInv, CachedOrEmptyType
        DEF StartGet, ResultKinds, NoOp
<1>5. ASSUME NEW t \in Threads, NEW a \in {"valid", "malformed"}, StartCall(t, a)
      PROVE  LInv'
    <2> DEFINE o == [NoOp EXCEPT !.kind = "call", !.args = a]
    <2>0. <<>> \in Snapshots /\ "Tool" \in ResultKinds
        BY DEF Snapshots, ResultKinds
    <2>1. o \in Op /\ o.kind = "call" /\ <<>> \in Snapshots /\ "Tool" \in ResultKinds
        BY <2>0 DEF NoOp, Op, NoArgFilter, Filter, OpKinds
    <2>2. pc[t] = "idle"
        BY <1>5 DEF StartCall
    <2>3. CASE a = "malformed"
        <3>1. Finish(t, o, "Tool", <<>>)
            BY <1>5, <2>3 DEF StartCall
        <3>2. QED
            BY <2>1, <2>2, <3>1, FinishLInv
    <2>4. CASE a # "malformed"
        <3>1. SendRequest(t, o)
            BY <1>5, <2>4 DEF StartCall
        <3>2. QED
            BY <2>1, <2>2, <3>1, SendRequestLInv
    <2>5. QED
        BY <2>3, <2>4
<1>6. ASSUME NEW t \in Threads, Respond(t) PROVE LInv'
    <2>1. Untouched(t) /\ pc[t] = "wait" /\ pc'[t] = "responded" /\ op'[t] = op[t]
          /\ UNCHANGED <<cache, lazyOk>>
        BY <1>0, <1>6 DEF Respond, TypeOK, Untouched
    <2>2. QED
        BY <1>0, <2>1, UntouchedPcOp, QuietStep DEF LazyInFlight
<1>7. ASSUME NEW t \in Threads, DiscoveryFailed(t) PROVE LInv'
    <2>1. Untouched(t) /\ pc'[t] = "idle" /\ UNCHANGED <<cache, lazyOk>>
        BY <1>0, <1>7 DEF DiscoveryFailed, TypeOK, Untouched
    <2>2. CASE t \in LazyInFlight
        <3>1. LazyInFlight' = LazyInFlight \ {t}
            BY <2>1, <2>2, UntouchedPcOp, InFlightOthers DEF LazyInFlight
        <3>2. Cardinality(LazyInFlight') < Cardinality(LazyInFlight)
            BY <1>0, <2>2, <3>1, InFlightFinite, FS_RemoveElement
        <3>3. QED
            BY <1>0, <2>1, <3>2, InFlightFinite DEF LInv, LazyBudget, NoneBeforeLazy, TypeOK
    <2>3. CASE t \notin LazyInFlight
        BY <1>0, <2>1, <2>3, UntouchedPcOp, QuietStep DEF LazyInFlight
    <2>4. QED
        BY <2>2, <2>3
<1>8. ASSUME NEW t \in Threads, DiscoveryFetched(t) PROVE LInv'
    <2>1. Untouched(t) /\ op'[t] = op[t] /\ pc[t] = "responded" /\ op[t].kind \in Discovery
        BY <1>0, <1>8 DEF DiscoveryFetched, TypeOK, Untouched
    <2>2. cache' # NoSnapshot
        <3>1. resp[t].ver \in Versions
            BY <1>0, <1>8 DEF IInv, RespServed, DiscoveryFetched, TypeOK, Versions
        <3>2. QED
            BY <1>8, <3>1, CatalogEntries DEF DiscoveryFetched, Snapshots
    <2>3. CASE op[t].kind = "refresh"
        <3>1. pc'[t] = "idle" /\ lazyOk' = lazyOk
            BY <1>0, <1>8, <2>3 DEF DiscoveryFetched, TypeOK
        <3>2. LazyInFlight' = LazyInFlight
            BY <2>1, <2>3, <3>1, UntouchedPcOp, InFlightOthers DEF LazyInFlight
        <3>3. QED
            BY <2>2, <3>1, <3>2, <1>0 DEF LInv, LazyBudget, NoneBeforeLazy
    <2>4. CASE op[t].kind \in {"list", "get"}
        <3>1. pc'[t] = "ret" /\ lazyOk' = lazyOk + 1
            BY <1>0, <1>8, <2>4 DEF DiscoveryFetched, TypeOK
        <3>2. t \in LazyInFlight /\ LazyInFlight' = LazyInFlight \ {t}
            BY <2>1, <2>4, <3>1, UntouchedPcOp, InFlightOthers DEF LazyInFlight
        <3>3. Cardinality(LazyInFlight') = Cardinality(LazyInFlight) - 1
            BY <1>0, <3>2, InFlightFinite, FS_RemoveElement
        <3>4. QED
            BY <1>0, <2>2, <3>1, <3>3, InFlightFinite DEF LInv, LazyBudget, NoneBeforeLazy,
                                                      TypeOK
    <2>5. QED
        BY <2>1, <2>3, <2>4 DEF Discovery
<1>9. ASSUME NEW t \in Threads, Return(t) \/ CompleteCall(t) PROVE LInv'
    <2>1. Untouched(t) /\ pc[t] \in {"ret", "responded"} /\ pc'[t] = "idle" /\ op'[t] = op[t]
          /\ (pc[t] = "responded" => op[t].kind = "call") /\ UNCHANGED <<cache, lazyOk>>
        BY <1>0, <1>9 DEF Return, CompleteCall, TypeOK, Untouched
    <2>2. QED
        BY <1>0, <2>1, UntouchedPcOp, QuietStep DEF LazyInFlight
<1>10. CASE UNCHANGED vars
    BY <1>0, <1>10 DEF vars, LInv, LazyBudget, NoneBeforeLazy, LazyInFlight
<1>11. QED
    BY <1>1, <1>2, <1>3, <1>4, <1>5, <1>6, <1>7, <1>8, <1>9, <1>10 DEF Next, Thread

(***************************************************************************)
(* For every number of threads and every gateway history: list_tools and  *)
(* get_tools discover lazily at most once per thread over the toolkit's   *)
(* life, because they fetch only while self._tools is None and a fetched  *)
(* list, even an empty one, is never None again.                          *)
(***************************************************************************)
THEOREM LazyFetchesBounded == Spec => []LazyFetchBounded
<1>1. LInv => LazyFetchBounded
    <2> SUFFICES ASSUME LInv PROVE LazyFetchBounded
        OBVIOUS
    <2>1. TypeOK
        BY DEF LInv, IInv
    <2>2. QED
        BY <2>1, InFlightFinite DEF LInv, LazyBudget, LazyFetchBounded, TypeOK
<1>2. Spec => []LInv
    BY InitLInv, NextLInv, PTL DEF Spec
<1>3. QED
    BY <1>1, <1>2, PTL

=============================================================================
