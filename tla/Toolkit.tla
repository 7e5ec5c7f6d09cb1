------------------------------ MODULE Toolkit ------------------------------
(***************************************************************************)
(* GoMicroToolkit (toolkit.py) shared by several caller threads, against   *)
(* an MCP gateway whose published tool list changes over time.            *)
(*                                                                         *)
(* The toolkit's only shared state is self._tools, the cached snapshot     *)
(* (`cache`, NoSnapshot for None).  Every public operation is split at    *)
(* the points where another thread or the gateway can act in between:     *)
(*   Start    - the caller enters the method and, if it must, sends the   *)
(*              request (self._session.request);                          *)
(*   Respond  - the gateway (or the network, or the timeout) answers;     *)
(*   Complete - _make_request classifies the answer and the method        *)
(*              parses it and, for a discovery, assigns self._tools;      *)
(*   Return   - list_tools / get_tools re-read self._tools and return.    *)
(* The gateway is the environment: it publishes Catalog[gv] and may move  *)
(* to the next version at any time (Deploy).                              *)
(***************************************************************************)
EXTENDS ToolSelector, Naturals, FiniteSets

CONSTANTS
    Threads,     \* caller threads sharing one toolkit instance
    Catalog,     \* Catalog[v]: the tool list the gateway publishes at version v
    NoSnapshot,  \* self._tools is None: never fetched (a model value)
    RetryCount,  \* GoMicroConfig.retry_count (never read by the code)
    Filters      \* the get_tools argument combinations callers use

ASSUME ThreadsAssumption == Threads # {} /\ IsFiniteSet(Threads)
ASSUME CatalogAssumption == Catalog \in Seq(Seq(ToolRec)) /\ Len(Catalog) > 0
ASSUME NoSnapshotAssumption == NoSnapshot \notin Seq(ToolRec)
ASSUME RetryCountAssumption == RetryCount \in Nat
ASSUME FiltersAssumption == Filters \subseteq Filter

Versions == 1..Len(Catalog)

(***************************************************************************)
(* What a request can come back with.  "http_error" is a non-2xx status    *)
(* other than 401/403 (raise_for_status), "transient" a                   *)
(* requests.ConnectionError (DNS, TCP, TLS) or requests.Timeout, which     *)
(* _make_request treats alike but for the message wording;                *)
(* "bad_body" a 2xx whose body is not JSON, "bad_record" a 2xx tool list  *)
(* with a record lacking name, service or endpoint.                       *)
(***************************************************************************)
TransportFailures == {"http_error", "transient"}
GetOutcomes == {"ok", "401", "403", "bad_body", "bad_record"} \cup TransportFailures
PostOutcomes == GetOutcomes \ {"bad_record"}

\* The exception a caller sees: a GoMicroError subclass (exceptions.py), a
\* raw exception that escapes unclassified, or none ("ok").
ResultKinds == {"none", "ok", "Auth", "Connection", "Tool", "Unclassified"}

OpKinds == {"none", "refresh", "list", "get", "call"}
Discovery == {"refresh", "list", "get"}

NoArgFilter == [service |-> NoFilter, pattern |-> NoFilter,
                include |-> NoFilter, exclude |-> NoFilter]
Op == [kind : OpKinds, filter : Filter, args : {"valid", "malformed"}]
NoOp == [kind |-> "none", filter |-> NoArgFilter, args |-> "valid"]
NoResp == [outcome |-> "none", ver |-> 0]

VARIABLES
    cache,   \* self._tools
    gv,      \* the gateway's current catalog version
    pc,      \* where each thread is in its current operation
    op,      \* the operation (and its arguments) each thread is in
    resp,    \* the answer to each thread's request: outcome and version
    res,     \* how each thread's last operation ended, and the snapshot it read
    nreq,    \* requests sent by each thread's current operation
    lazyOk   \* discoveries made by the lazy path of list_tools/get_tools

vars == <<cache, gv, pc, op, resp, res, nreq, lazyOk>>

Snapshots == Seq(ToolRec)

TypeOK ==
    /\ cache \in Snapshots \cup {NoSnapshot}
    /\ gv \in Versions
    /\ pc \in [Threads -> {"idle", "wait", "responded", "ret"}]
    /\ op \in [Threads -> Op]
    /\ resp \in [Threads -> [outcome : GetOutcomes \cup {"none"}, ver : Versions \cup {0}]]
    /\ res \in [Threads -> [kind : ResultKinds, snap : Snapshots]]
    /\ nreq \in [Threads -> 0..1]
    /\ lazyOk \in Nat

\* GoMicroToolkit.__init__: self._tools = None, no request sent.
Init ==
    /\ cache = NoSnapshot
    /\ gv = 1
    /\ pc = [t \in Threads |-> "idle"]
    /\ op = [t \in Threads |-> NoOp]
    /\ resp = [t \in Threads |-> NoResp]
    /\ res = [t \in Threads |-> [kind |-> "none", snap |-> <<>>]]
    /\ nreq = [t \in Threads |-> 0]
    /\ lazyOk = 0

-----------------------------------------------------------------------------
(* Steps shared by the operations. *)

\* Mutant: a retry wrapper around _session.request sends each request twice.
SendRequestTwice(t, o) ==
    /\ pc' = [pc EXCEPT ![t] = "wait"]
    /\ op' = [op EXCEPT ![t] = o]
    /\ resp' = [resp EXCEPT ![t] = NoResp]
    /\ nreq' = [nreq EXCEPT ![t] = 2]
    /\ UNCHANGED <<cache, gv, res, lazyOk>>

\* Thread t enters an operation and sends its request.
SendRequest(t, o) ==
    /\ pc' = [pc EXCEPT ![t] = "wait"]
    /\ op' = [op EXCEPT ![t] = o]
    /\ resp' = [resp EXCEPT ![t] = NoResp]
    /\ nreq' = [nreq EXCEPT ![t] = 1]
    /\ UNCHANGED <<cache, gv, res, lazyOk>>

\* Thread t enters an operation and returns without a request.
Finish(t, o, kind, snap) ==
    /\ pc' = [pc EXCEPT ![t] = "idle"]
    /\ op' = [op EXCEPT ![t] = o]
    /\ res' = [res EXCEPT ![t] = [kind |-> kind, snap |-> snap]]
    /\ resp' = [resp EXCEPT ![t] = NoResp]
    /\ nreq' = [nreq EXCEPT ![t] = 0]
    /\ UNCHANGED <<cache, gv, lazyOk>>

\* `self._tools or []`
CachedOrEmpty == IF cache = NoSnapshot THEN <<>> ELSE cache

\* Mutant: the `elif status_code == 403` branch is dropped, so 403 reaches
\* raise_for_status and becomes a GoMicroConnectionError.
MakeRequestErrorNo403(o) ==
    IF o = "401" THEN "Auth"
    ELSE IF o \in TransportFailures \cup {"403"} THEN "Connection"
    ELSE "none"

(***************************************************************************)
(* _make_request: the exception it raises for an answer, or "none" when it *)
(* returns the response.  401 and 403 raise GoMicroAuthError inside the   *)
(* try; neither is a RequestException, so they pass the except clauses.    *)
(* raise_for_status's HTTPError, ConnectionError and Timeout become        *)
(* GoMicroConnectionError.  A 2xx is returned unparsed.                   *)
(***************************************************************************)
MakeRequestError(o) ==
    IF o \in {"401", "403"} THEN "Auth"
    ELSE IF o \in TransportFailures THEN "Connection"
    ELSE "none"

-----------------------------------------------------------------------------
(* Operations of GoMicroToolkit. *)

\* refresh(): always sends GET /mcp/tools.
StartRefresh(t) ==
    /\ pc[t] = "idle"
    /\ SendRequest(t, [NoOp EXCEPT !.kind = "refresh"])

\* Mutant: list_tools tests `if not self._tools:`, so an empty snapshot is
\* fetched again on every call.
StartListFalsy(t) ==
    /\ pc[t] = "idle"
    /\ LET o == [NoOp EXCEPT !.kind = "list"] IN
       IF cache = NoSnapshot \/ cache = <<>> THEN SendRequest(t, o)
       ELSE Finish(t, o, "ok", CachedOrEmpty)

\* list_tools(): fetches only while self._tools is None.
StartList(t) ==
    /\ pc[t] = "idle"
    /\ LET o == [NoOp EXCEPT !.kind = "list"] IN
       IF cache = NoSnapshot THEN SendRequest(t, o)
       ELSE Finish(t, o, "ok", CachedOrEmpty)

\* Mutant: get_tools refreshes on every call instead of using the cache.
StartGetRefreshing(t, f) ==
    /\ pc[t] = "idle"
    /\ SendRequest(t, [NoOp EXCEPT !.kind = "get", !.filter = f])

\* Mutant: get_tools drops its lazy `if self._tools is None: self.refresh()`
\* and filters `self._tools or []` at once.
StartGetNoFetch(t, f) ==
    /\ pc[t] = "idle"
    /\ Finish(t, [NoOp EXCEPT !.kind = "get", !.filter = f], "ok", CachedOrEmpty)

\* get_tools(...): as list_tools, then filters what it read.
StartGet(t, f) ==
    /\ pc[t] = "idle"
    /\ LET o == [NoOp EXCEPT !.kind = "get", !.filter = f] IN
       IF cache = NoSnapshot THEN SendRequest(t, o)
       ELSE Finish(t, o, "ok", CachedOrEmpty)

\* call_tool(name, arguments): json.loads before any request.  The tool name
\* is passed through to the gateway untouched and decides nothing here.
StartCall(t, a) ==
    /\ pc[t] = "idle"
    /\ LET o == [NoOp EXCEPT !.kind = "call", !.args = a] IN
       IF a = "malformed" THEN Finish(t, o, "Tool", <<>>)
       ELSE SendRequest(t, o)

\* The gateway answers thread t's request (or the network fails, or the
\* timeout passed to requests fires).  A 2xx tool list is the gateway's
\* current version; no other answer carries one.
Respond(t) ==
    /\ pc[t] = "wait"
    /\ \E o \in IF op[t].kind = "call" THEN PostOutcomes ELSE GetOutcomes :
          resp' = [resp EXCEPT ![t] =
                     [outcome |-> o,
                      ver |-> IF op[t].kind # "call" /\ o = "ok" THEN gv ELSE 0]]
    /\ pc' = [pc EXCEPT ![t] = "responded"]
    /\ UNCHANGED <<cache, gv, op, res, nreq, lazyOk>>

(***************************************************************************)
(* The rest of refresh() after _make_request: response.json() and the      *)
(* record lookups tool["name"] ... raise JSONDecodeError / KeyError, which *)
(* nothing catches; otherwise the whole list is built and then assigned    *)
(* to self._tools in one step.  list_tools/get_tools then go on to Return. *)
(***************************************************************************)
\* Mutant: get_tools/list_tools loop `while self._tools is None: refresh()`
\* and swallow the error, so a failed lazy discovery is simply re-sent.
DiscoveryFailedRetryLoop(t) ==
    LET o == resp[t].outcome IN
    /\ pc[t] = "responded"
    /\ op[t].kind \in Discovery
    /\ o # "ok"
    /\ IF op[t].kind \in {"list", "get"}
       THEN /\ pc' = [pc EXCEPT ![t] = "wait"]
            /\ UNCHANGED res
       ELSE /\ pc' = [pc EXCEPT ![t] = "idle"]
            /\ res' = [res EXCEPT ![t] =
                         [kind |-> IF MakeRequestError(o) # "none" THEN MakeRequestError(o)
                                   ELSE "Unclassified",
                          snap |-> <<>>]]
    /\ UNCHANGED <<cache, gv, op, resp, nreq, lazyOk>>

DiscoveryFailed(t) ==
    LET o == resp[t].outcome IN
    /\ pc[t] = "responded"
    /\ op[t].kind \in Discovery
    /\ o # "ok"
    /\ pc' = [pc EXCEPT ![t] = "idle"]
    /\ res' = [res EXCEPT ![t] =
                 [kind |-> IF MakeRequestError(o) # "none" THEN MakeRequestError(o)
                           ELSE "Unclassified",
                  snap |-> <<>>]]
    /\ UNCHANGED <<cache, gv, op, resp, nreq, lazyOk>>

\* Mutant: refresh() merges the new list into the old one instead of
\* replacing it.
DiscoveryFetchedMerging(t) ==
    /\ pc[t] = "responded"
    /\ op[t].kind \in Discovery
    /\ resp[t].outcome = "ok"
    /\ cache' = IF cache = NoSnapshot THEN Catalog[resp[t].ver]
                ELSE cache \o Catalog[resp[t].ver]
    /\ \/ /\ op[t].kind = "refresh"
          /\ pc' = [pc EXCEPT ![t] = "idle"]
          /\ res' = [res EXCEPT ![t] = [kind |-> "ok", snap |-> <<>>]]
          /\ UNCHANGED lazyOk
       \/ /\ op[t].kind \in {"list", "get"}
          /\ pc' = [pc EXCEPT ![t] = "ret"]
          /\ lazyOk' = lazyOk + 1
          /\ UNCHANGED res
    /\ UNCHANGED <<gv, op, resp, nreq>>

DiscoveryFetched(t) ==
    /\ pc[t] = "responded"
    /\ op[t].kind \in Discovery
    /\ resp[t].outcome = "ok"
    /\ cache' = Catalog[resp[t].ver]
    /\ \/ /\ op[t].kind = "refresh"
          /\ pc' = [pc EXCEPT ![t] = "idle"]
          /\ res' = [res EXCEPT ![t] = [kind |-> "ok", snap |-> <<>>]]
          /\ UNCHANGED lazyOk
       \/ /\ op[t].kind \in {"list", "get"}
          /\ pc' = [pc EXCEPT ![t] = "ret"]
          /\ lazyOk' = lazyOk + 1
          /\ UNCHANGED res
    /\ UNCHANGED <<gv, op, resp, nreq>>

\* Mutant: the lazy path returns the list its own refresh fetched instead of
\* re-reading self._tools.
ReturnOwnFetch(t) ==
    /\ pc[t] = "ret"
    /\ pc' = [pc EXCEPT ![t] = "idle"]
    /\ res' = [res EXCEPT ![t] = [kind |-> "ok", snap |-> Catalog[resp[t].ver]]]
    /\ UNCHANGED <<cache, gv, op, resp, nreq, lazyOk>>

\* list_tools / get_tools after their implicit refresh: `self._tools or []`.
Return(t) ==
    /\ pc[t] = "ret"
    /\ pc' = [pc EXCEPT ![t] = "idle"]
    /\ res' = [res EXCEPT ![t] = [kind |-> "ok", snap |-> CachedOrEmpty]]
    /\ UNCHANGED <<cache, gv, op, resp, nreq, lazyOk>>

(***************************************************************************)
(* The rest of call_tool: response.json() raises requests' JSONDecodeError *)
(* on a non-JSON body, a RequestException that call_tool turns into        *)
(* GoMicroToolError; the Gomicro errors of _make_request pass through.    *)
(***************************************************************************)
CompleteCall(t) ==
    LET o == resp[t].outcome
        err == MakeRequestError(o)
    IN
    /\ pc[t] = "responded"
    /\ op[t].kind = "call"
    /\ pc' = [pc EXCEPT ![t] = "idle"]
    /\ res' = [res EXCEPT ![t] =
                 [kind |-> CASE err # "none"  -> err
                             [] o = "bad_body" -> "Tool"
                             [] OTHER          -> "ok",
                  snap |-> <<>>]]
    /\ UNCHANGED <<cache, gv, op, resp, nreq, lazyOk>>

\* The gateway publishes its next catalog version.
Deploy ==
    /\ gv + 1 \in Versions
    /\ gv' = gv + 1
    /\ UNCHANGED <<cache, pc, op, resp, res, nreq, lazyOk>>

-----------------------------------------------------------------------------

Thread(t) ==
    \/ StartRefresh(t)
    \/ StartList(t)
    \/ \E f \in Filters : StartGet(t, f)
    \/ \E a \in {"valid", "malformed"} : StartCall(t, a)
    \/ Respond(t)
    \/ DiscoveryFailed(t)
    \/ DiscoveryFetched(t)
    \/ CompleteCall(t)
    \/ Return(t)

Next == Deploy \/ \E t \in Threads : Thread(t)

(***************************************************************************)
(* Every request is bounded by the timeout _make_request passes to         *)
(* requests, so an answer (possibly the timeout) always comes; the rest of *)
(* an operation is local code.  Starting an operation is the caller's      *)
(* choice and gets no fairness.                                           *)
(***************************************************************************)
Fairness ==
    \A t \in Threads :
        /\ WF_vars(Respond(t))
        /\ WF_vars(DiscoveryFailed(t))
        /\ WF_vars(DiscoveryFetched(t))
        /\ WF_vars(CompleteCall(t))
        /\ WF_vars(Return(t))

Spec == Init /\ [][Next]_vars /\ Fairness

-----------------------------------------------------------------------------
(* Properties. *)

\* The names get_tools returned to thread t, from the snapshot it read.
GetToolsResult(t) == ToolNames(GetToolsSelect(res[t].snap, op[t].filter))

\* A thread that has finished an operation.
Done(t) == pc[t] = "idle" /\ op[t].kind # "none"

(***************************************************************************)
(* Copy-on-write: whatever threads interleave and however the gateway      *)
(* changes, self._tools is None or exactly a tool list the gateway has     *)
(* published, never a part of one nor a mix of two (refresh builds the     *)
(* list before assigning it).                                              *)
(***************************************************************************)
SnapshotWhole == cache = NoSnapshot \/ \E v \in 1..gv : cache = Catalog[v]

\* The error taxonomy of the spec for an HTTP answer.
ExpectedKind(o) ==
    CASE o = "ok"                -> "ok"
      [] o \in {"401", "403"}    -> "Auth"
      [] o \in TransportFailures -> "Connection"

(***************************************************************************)
(* Error classification of _make_request / call_tool: a malformed argument *)
(* string fails as GoMicroToolError before any request is sent; a 401 or   *)
(* 403 surfaces as GoMicroAuthError, any other non-2xx status, connection  *)
(* failure or timeout as GoMicroConnectionError, to every operation.       *)
(***************************************************************************)
ResultClassified ==
    \A t \in Threads : Done(t) =>
        /\ op[t].kind = "call" /\ op[t].args = "malformed" =>
              res[t].kind = "Tool" /\ nreq[t] = 0
        /\ nreq[t] = 1 /\ resp[t].outcome \in {"ok", "401", "403"} \cup TransportFailures =>
              res[t].kind = ExpectedKind(resp[t].outcome)

(***************************************************************************)
(* get_tools returns, in their cached order, exactly the tools that pass   *)
(* every given filter: the four successive comprehensions compose as an    *)
(* AND, on every snapshot callers really read.                            *)
(***************************************************************************)
SelectionMatchesFilters ==
    \A t \in Threads : Done(t) /\ op[t].kind = "get" /\ res[t].kind = "ok" =>
        GetToolsResult(t) = ToolNames(RefSelect(res[t].snap, op[t].filter))

(***************************************************************************)
(* Lazy discovery happens once: list_tools/get_tools fetch only while      *)
(* self._tools is None, and a fetched empty list is not None, so over the  *)
(* client's life at most one lazy fetch per thread racing on the first     *)
(* access succeeds.                                                        *)
(***************************************************************************)
LazyFetchBounded == lazyOk <= Cardinality(Threads)

(***************************************************************************)
(* Every operation a caller starts returns or raises: each request ends in *)
(* an answer or the configured timeout, and nothing after it blocks.       *)
(***************************************************************************)
OpCompletes == \A t \in Threads : pc[t] # "idle" ~> pc[t] = "idle"

(***************************************************************************)
(* Refinement: the toolkit implements the abstract cache of ToolCache.    *)
(* self._tools is the snapshot, the gateway's version is the published   *)
(* one, and what a finished list_tools/get_tools returned is the caller's *)
(* read; every other operation holds no read.                            *)
(***************************************************************************)
ReadResult(t) ==
    IF pc[t] = "idle" /\ op[t].kind \in {"list", "get"} /\ res[t].kind = "ok"
    THEN res[t].snap ELSE NoSnapshot

TC == INSTANCE ToolCache
        WITH snapshot <- cache, published <- gv,
             seen <- [t \in Threads |-> ReadResult(t)]

(***************************************************************************)
(* Every interleaving of the toolkit's threads and the gateway is a        *)
(* behaviour of the abstract cache: self._tools is only ever replaced by a *)
(* whole published list, and list_tools/get_tools return the cache as it *)
(* is at the moment they read it (the lazy path re-reads self._tools      *)
(* after its refresh, so it returns whatever list is cached by then).    *)
(***************************************************************************)
ToolCacheSpec == TC!Spec

-----------------------------------------------------------------------------
(* What the spec says and the code does not do (checked as violations). *)

(***************************************************************************)
(* Spec 4.5/7: a transient failure (connection error, timeout) is retried  *)
(* up to retry_count times before GoMicroConnectionError surfaces.         *)
(* _make_request sends one request and never reads retry_count.            *)
(***************************************************************************)
TransientFailuresRetried ==
    \A t \in Threads :
        Done(t) /\ resp[t].outcome = "transient" =>
            nreq[t] >= RetryCount + 1

(***************************************************************************)
(* Spec 4.3: an empty include list selects nothing.  get_tools tests      *)
(* `if include:`, so include=[] skips the stage and returns every tool.    *)
(***************************************************************************)
EmptyIncludeSelectsNothing ==
    \A t \in Threads :
        Done(t) /\ op[t].kind = "get" /\ res[t].kind = "ok" /\ op[t].filter.include = {} =>
            GetToolsResult(t) = <<>>

(***************************************************************************)
(* Spec 4.2/7: discovery either succeeds or fails with a classified error  *)
(* (Auth or Connection).  refresh() lets response.json()'s JSONDecodeError *)
(* and a missing record field's KeyError escape unclassified.              *)
(***************************************************************************)
DiscoveryFailuresClassified ==
    \A t \in Threads :
        Done(t) /\ op[t].kind \in Discovery => res[t].kind \in {"ok", "Auth", "Connection"}

=============================================================================
