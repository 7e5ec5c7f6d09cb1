------------------------- MODULE ToolkitRefinement -------------------------
(***************************************************************************)
(* Proof that Toolkit implements the abstract cache ToolCache under the    *)
(* refinement mapping TC of Toolkit, resting on the inductive invariant   *)
(* IInv of ToolkitProofs.                                                  *)
(***************************************************************************)
EXTENDS ToolkitProofs

USE ThreadsAssumption, CatalogAssumption, NoSnapshotAssumption, FiltersAssumption

\* The abstract callers' reads under the refinement mapping.
seenBar == [t \in Threads |-> ReadResult(t)]

(***************************************************************************)
(* A step that leaves every other thread's mapped read alone moves only    *)
(* t's entry of seenBar.                                                   *)
(***************************************************************************)
LEMMA SeenStep ==
    ASSUME NEW t \in Threads, \A s \in Threads \ {t} : ReadResult(s)' = ReadResult(s)
    PROVE  seenBar' = [seenBar EXCEPT ![t] = ReadResult(t)']
BY DEF seenBar

(***************************************************************************)
(* A thread entering an operation through a request holds no read.        *)
(***************************************************************************)
LEMMA SendRequestForgets ==
    ASSUME TypeOK, NEW t \in Threads, NEW o \in Op, SendRequest(t, o)
    PROVE  TC!Forget(t)
<1>1. \A s \in Threads \ {t} : ReadResult(s)' = ReadResult(s)
    BY DEF SendRequest, ReadResult, TypeOK
<1>2. ReadResult(t)' = NoSnapshot
    BY DEF SendRequest, ReadResult, TypeOK
<1>3. QED
    BY <1>1, <1>2, SeenStep DEF SendRequest, TC!Forget

(***************************************************************************)
(* A thread entering an operation and returning at once reads the cache if *)
(* it returned the cached list from list_tools/get_tools, and otherwise    *)
(* holds no read.                                                          *)
(***************************************************************************)
LEMMA FinishReadsOrForgets ==
    ASSUME TypeOK, NEW t \in Threads, NEW o \in Op, NEW kind, NEW snap,
           Finish(t, o, kind, snap),
           kind = "ok" /\ o.kind \in {"list", "get"} => snap = CachedOrEmpty
    PROVE  TC!Read(t) \/ TC!Forget(t)
<1>1. seenBar' = [seenBar EXCEPT ![t] = ReadResult(t)']
    <2>1. \A s \in Threads \ {t} : ReadResult(s)' = ReadResult(s)
        BY DEF Finish, ReadResult, TypeOK
    <2>2. QED
        BY <2>1, SeenStep
<1>2. CASE kind = "ok" /\ o.kind \in {"list", "get"}
    <2>1. ReadResult(t)' = CachedOrEmpty
        BY <1>2 DEF Finish, ReadResult, TypeOK
    <2>2. QED
        BY <1>1, <2>1 DEF Finish, TC!Read, CachedOrEmpty, seenBar
<1>3. CASE ~(kind = "ok" /\ o.kind \in {"list", "get"})
    <2>1. ReadResult(t)' = NoSnapshot
        BY <1>3 DEF Finish, ReadResult, TypeOK
    <2>2. QED
        BY <1>1, <2>1 DEF Finish, TC!Forget, seenBar
<1>4. QED
    BY <1>2, <1>3

\* list_tools and get_tools, which share their first branch.
LEMMA LazyStartRefines ==
    ASSUME TypeOK, NEW t \in Threads, NEW o \in Op, o.kind \in {"list", "get"},
           IF cache = NoSnapshot THEN SendRequest(t, o) ELSE Finish(t, o, "ok", CachedOrEmpty)
    PROVE  [TC!Next]_TC!vars
<1>1. CASE cache = NoSnapshot
    BY <1>1, SendRequestForgets DEF TC!Next
<1>2. CASE cache # NoSnapshot
    BY <1>2, FinishReadsOrForgets DEF TC!Next
<1>3. QED
    BY <1>1, <1>2

(***************************************************************************)
(* Under the mapping, each toolkit step is an abstract step or a stutter:  *)
(* Deploy publishes, DiscoveryFetched replaces, a list/get that returns    *)
(* reads, a thread entering another operation forgets, the rest stutter.   *)
(***************************************************************************)
LEMMA NextRefines == IInv /\ [Next]_vars => [TC!Next]_TC!vars
<1> SUFFICES ASSUME IInv, [Next]_vars PROVE [TC!Next]_TC!vars
    OBVIOUS
<1>0. TypeOK
    BY DEF IInv
<1>1. CASE Deploy
    <2>1. TC!Publish
        BY <1>1 DEF Deploy, Versions, TC!Publish, seenBar, ReadResult
    <2>2. QED
        BY <2>1 DEF TC!Next
<1>2. ASSUME NEW t \in Threads, StartRefresh(t) PROVE [TC!Next]_TC!vars
    <2>1. [NoOp EXCEPT !.kind = "refresh"] \in Op
        BY DEF NoOp, Op, NoArgFilter, Filter, OpKinds
    <2>2. QED
        BY <1>0, <1>2, <2>1, SendRequestForgets DEF StartRefresh, TC!Next
<1>3. ASSUME NEW t \in Threads, StartList(t) PROVE [TC!Next]_TC!vars
    <2>1. [NoOp EXCEPT !.kind = "list"] \in Op
        BY DEF NoOp, Op, NoArgFilter, Filter, OpKinds
    <2>2. IF cache = NoSnapshot THEN SendRequest(t, [NoOp EXCEPT !.kind = "list"])
          ELSE Finish(t, [NoOp EXCEPT !.kind = "list"], "ok", CachedOrEmpty)
        BY <1>3 DEF StartList
    <2>3. [NoOp EXCEPT !.kind = "list"].kind \in {"list", "get"}
        BY DEF NoOp
    <2>4. QED
        BY <1>0, <2>1, <2>2, <2>3, LazyStartRefines
<1>4. ASSUME NEW t \in Threads, NEW f \in Filters, StartGet(t, f) PROVE [TC!Next]_TC!vars
    <2>1. [NoOp EXCEPT !.kind = "get", !.filter = f] \in Op
        BY DEF NoOp, Op, NoArgFilter, Filter, OpKinds
    <2>2. IF cache = NoSnapshot THEN SendRequest(t, [NoOp EXCEPT !.kind = "get", !.filter = f])
          ELSE Finish(t, [NoOp EXCEPT !.kind = "get", !.filter = f], "ok", CachedOrEmpty)
        BY <1>4 DEF StartGet
    <2>3. [NoOp EXCEPT !.kind = "get", !.filter = f].kind \in {"list", "get"}
        BY DEF NoOp
    <2>4. QED
        BY <1>0, <2>1, <2>2, <2>3, LazyStartRefines
<1>5. ASSUME NEW t \in Threads, NEW a \in {"valid", "malformed"}, StartCall(t, a)
      PROVE  [TC!Next]_TC!vars
    <2>1. [NoOp EXCEPT !.kind = "call", !.args = a] \in Op
        BY DEF NoOp, Op, NoArgFilter, Filter, OpKinds
    <2>2. CASE a = "malformed"
        BY <1>0, <1>5, <2>1, <2>2, FinishReadsOrForgets DEF StartCall, TC!Next
    <2>3. CASE a # "malformed"
        BY <1>0, <1>5, <2>1, <2>3, SendRequestForgets DEF StartCall, TC!Next
    <2>4. QED
        BY <2>2, <2>3
<1>6. ASSUME NEW t \in Threads, Respond(t) \/ DiscoveryFailed(t) \/ CompleteCall(t)
      PROVE  UNCHANGED <<cache, gv, seenBar>>
    <2>1. seenBar' = [seenBar EXCEPT ![t] = ReadResult(t)']
        <3>1. \A s \in Threads \ {t} : ReadResult(s)' = ReadResult(s)
            BY <1>0, <1>6 DEF Respond, DiscoveryFailed, CompleteCall, ReadResult, TypeOK
        <3>2. QED
            BY <3>1, SeenStep
    <2>2. ReadResult(t)' = ReadResult(t)
        BY <1>0, <1>6 DEF Respond, DiscoveryFailed, CompleteCall, ReadResult, TypeOK,
                          MakeRequestError, Discovery
    <2>3. QED
        BY <1>0, <1>6, <2>1, <2>2 DEF Respond, DiscoveryFailed, CompleteCall, seenBar, TypeOK
<1>7. ASSUME NEW t \in Threads, DiscoveryFetched(t) PROVE TC!Replace
    <2>1. seenBar' = [seenBar EXCEPT ![t] = ReadResult(t)']
        <3>1. \A s \in Threads \ {t} : ReadResult(s)' = ReadResult(s)
            BY <1>0, <1>7 DEF DiscoveryFetched, ReadResult, TypeOK
        <3>2. QED
            BY <3>1, SeenStep
    <2>2. ReadResult(t)' = NoSnapshot /\ ReadResult(t) = NoSnapshot
        BY <1>0, <1>7 DEF DiscoveryFetched, ReadResult, TypeOK
    <2>3. UNCHANGED seenBar
        BY <1>0, <2>1, <2>2 DEF seenBar, TypeOK
    <2>4. resp[t].ver \in 1..gv
        BY <1>7 DEF IInv, RespServed, DiscoveryFetched
    <2>5. QED
        BY <1>7, <2>3, <2>4 DEF DiscoveryFetched, TC!Replace, seenBar
<1>8. ASSUME NEW t \in Threads, Return(t) PROVE [TC!Next]_TC!vars
    <2>1. seenBar' = [seenBar EXCEPT ![t] = ReadResult(t)']
        <3>1. \A s \in Threads \ {t} : ReadResult(s)' = ReadResult(s)
            BY <1>0, <1>8 DEF Return, ReadResult, TypeOK
        <3>2. QED
            BY <3>1, SeenStep
    <2>2. CASE op[t].kind \in {"list", "get"}
        <3>1. ReadResult(t)' = CachedOrEmpty
            BY <1>0, <1>8, <2>2 DEF Return, ReadResult, TypeOK
        <3>2. TC!Read(t)
            BY <1>8, <2>1, <3>1 DEF Return, TC!Read, CachedOrEmpty, seenBar
        <3>3. QED
            BY <3>2 DEF TC!Next
    <2>3. CASE op[t].kind \notin {"list", "get"}
        <3>1. ReadResult(t)' = NoSnapshot /\ ReadResult(t) = NoSnapshot
            BY <1>0, <1>8, <2>3 DEF Return, ReadResult, TypeOK
        <3>2. UNCHANGED seenBar
            BY <1>0, <2>1, <3>1 DEF seenBar, TypeOK
        <3>3. QED
            BY <1>8, <3>2 DEF Return, TC!vars, seenBar
    <2>4. QED
        BY <2>2, <2>3
<1>9. CASE UNCHANGED vars
    BY <1>9 DEF vars, TC!vars, seenBar, ReadResult
<1>10. QED
    <2>1. ASSUME NEW t \in Threads, Thread(t) PROVE [TC!Next]_TC!vars
        <3>1. CASE Respond(t) \/ DiscoveryFailed(t) \/ CompleteCall(t)
            BY <3>1, <1>6 DEF TC!vars, seenBar
        <3>2. CASE DiscoveryFetched(t)
            BY <3>2, <1>7 DEF TC!Next
        <3>3. QED
            BY <2>1, <1>2, <1>3, <1>4, <1>5, <1>8, <3>1, <3>2 DEF Thread
    <2>2. QED
        BY <1>1, <1>9, <2>1 DEF Next

(***************************************************************************)
(* The toolkit implements the abstract cache (spec 4.2 and 5), for every   *)
(* number of threads and every sequence of catalogs: self._tools is only  *)
(* ever replaced by a whole published list and never reset, and           *)
(* list_tools/get_tools return the cache as it is when they read it.      *)
(***************************************************************************)
THEOREM Refinement == Spec => ToolCacheSpec
<1>1. Init => TC!Init
    BY DEF Init, TC!Init, ReadResult, NoOp
<1>2. Spec => []IInv
    BY InitIInv, NextIInv, PTL DEF Spec
<1>3. QED
    BY <1>1, <1>2, NextRefines, PTL DEF Spec, ToolCacheSpec, TC!Spec, seenBar

=============================================================================
