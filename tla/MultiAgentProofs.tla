-------------------------- MODULE MultiAgentProofs --------------------------
(***************************************************************************)
(* Proof that the agents of multi_agent.py select their tools from one     *)
(* snapshot, for every catalog history, every list of selections and      *)
(* every number of tool calls.                                            *)
(***************************************************************************)
EXTENDS MultiAgent, ToolkitRefinement

(***************************************************************************)
(* AgentsShareSnapshot alone is not inductive.  Every snapshot the script *)
(* has read is the cache itself (SharedCache), which holds because the    *)
(* script never calls refresh(), and because a lazy fetch is only in      *)
(* flight while the cache is still None, so the one assignment of         *)
(* self._tools happens before any agent is built.                         *)
(***************************************************************************)
ScriptType ==
    /\ stage \in {"select", "run", "done", "crashed"}
    /\ got \in Seq(Snapshots)
    /\ calls \in Nat
    /\ stage = "select" => Len(got) < Len(Selections)

NoRefresh == op[Agent].kind \in {"none", "get", "call"}

SelectsOnlyGet == stage = "select" => op[Agent].kind \in {"none", "get"}

LazyPending ==
    /\ pc[Agent] \in {"wait", "responded"} /\ op[Agent].kind = "get" => cache = NoSnapshot
    /\ pc[Agent] = "ret" => cache # NoSnapshot

SharedCache == \A i \in DOMAIN got : got[i] = cache

MAInv == IInv /\ ScriptType /\ NoRefresh /\ SelectsOnlyGet /\ LazyPending /\ SharedCache

USE ThreadsAssumption, CatalogAssumption, NoSnapshotAssumption, FiltersAssumption,
    AgentAssumption, SelectionsAssumption, MaxCallsAssumption

\* No snapshot is the cache's None.
LEMMA NoSnapshotNotRead == NoSnapshot \notin Snapshots
BY DEF Snapshots

LEMMA MAInitInv == MAInit => MAInv
<1> SUFFICES ASSUME MAInit PROVE MAInv
    OBVIOUS
<1>1. IInv
    BY InitIInv DEF MAInit
<1>2. QED
    BY <1>1 DEF MAInit, Init, NoOp, MAInv, ScriptType, NoRefresh, SelectsOnlyGet,
                LazyPending, SharedCache

(***************************************************************************)
(* Every step of the script is a step of the toolkit it drives.            *)
(***************************************************************************)
LEMMA ToolkitStep == MAInv /\ [MANext]_allVars => [Next]_vars
<1> SUFFICES ASSUME MAInv, [MANext]_allVars PROVE [Next]_vars
    OBVIOUS
<1>1. CASE SelectTools
    <2>1. Selections[Len(got) + 1] \in Filters
        BY <1>1 DEF SelectTools, MAInv, ScriptType
    <2>2. QED
        BY <1>1, <2>1 DEF SelectTools, Next, Thread
<1>2. CASE RunTool
    BY <1>2 DEF RunTool, Next, Thread
<1>3. CASE Proceed
    BY <1>3 DEF Proceed, Next, Thread
<1>4. QED
    BY <1>1, <1>2, <1>3 DEF MANext, Next, allVars, vars

(***************************************************************************)
(* Advance when main() is still blocked, was raised into, or is past the   *)
(* selection: no snapshot is recorded and the selection is not resumed.    *)
(***************************************************************************)
LEMMA AdvanceKeeps ==
    ASSUME ScriptType, Advance, calls' \in Nat,
           pc'[Agent] # "idle" \/ res'[Agent].kind # "ok" \/ stage # "select"
    PROVE  ScriptType' /\ got' = got /\ (stage' = "select" => stage = "select")
BY DEF ScriptType, Advance

(***************************************************************************)
(* Advance when a get_tools returns the cache during the selection: the    *)
(* next agent's tools are the cache.                                       *)
(***************************************************************************)
LEMMA AdvanceAppends ==
    ASSUME ScriptType, SharedCache, Advance, calls' \in Nat, stage = "select",
           cache \in Snapshots, cache' = cache,
           pc'[Agent] = "idle", res'[Agent] = [kind |-> "ok", snap |-> cache]
    PROVE  ScriptType' /\ SharedCache' /\ stage' \in {"select", "run"}
<1>1. got' = Append(got, cache)
    BY DEF Advance
<1>2. Len(got') = Len(got) + 1 /\ Len(got) + 1 <= Len(Selections)
    BY <1>1 DEF ScriptType
<1>3. ScriptType'
    BY <1>1, <1>2 DEF ScriptType, Advance
<1>4. SharedCache'
    BY <1>1 DEF SharedCache, ScriptType
<1>5. QED
    BY <1>3, <1>4 DEF Advance

(***************************************************************************)
(* The script-side conjuncts survive a step that keeps the script's view   *)
(* of the toolkit: stage and got untouched, op, pc and cache as before.    *)
(***************************************************************************)
LEMMA MANextInv == MAInv /\ [MANext]_allVars => MAInv'
<1> SUFFICES ASSUME MAInv, [MANext]_allVars PROVE MAInv'
    OBVIOUS
<1>0. IInv' /\ TypeOK /\ ScriptType /\ NoRefresh /\ SelectsOnlyGet /\ LazyPending
      /\ SharedCache /\ Agent \in Threads
    BY ToolkitStep, NextIInv DEF MAInv, IInv
<1>1. CASE Deploy /\ UNCHANGED scriptVars
    BY <1>0, <1>1 DEF Deploy, scriptVars, MAInv, ScriptType, NoRefresh, SelectsOnlyGet,
                      LazyPending, SharedCache
<1>2. CASE SelectTools
    <2> DEFINE f == Selections[Len(got) + 1]
               o == [NoOp EXCEPT !.kind = "get", !.filter = f]
    <2>1. stage = "select" /\ calls' = calls /\ Advance /\ pc[Agent] = "idle"
        BY <1>2 DEF SelectTools, StartGet
    <2>2. CASE cache = NoSnapshot
        <3>1. SendRequest(Agent, o)
            BY <1>2, <2>2 DEF SelectTools, StartGet
        <3>2. pc'[Agent] = "wait" /\ op'[Agent] = o /\ UNCHANGED cache
            BY <1>0, <3>1 DEF SendRequest, TypeOK
        <3>3. ScriptType' /\ got' = got /\ stage' = stage
            <4>1. calls' \in Nat
                BY <1>0, <2>1 DEF ScriptType
            <4>2. ScriptType' /\ got' = got
                BY <1>0, <3>2, <4>1, <2>1, AdvanceKeeps
            <4>3. stage' = stage
                BY <2>1, <3>2 DEF Advance
            <4>4. QED
                BY <4>2, <4>3
        <3>4. QED
            BY <1>0, <2>2, <3>2, <3>3 DEF MAInv, NoRefresh, SelectsOnlyGet, LazyPending,
                                         SharedCache, NoOp
    <2>3. CASE cache # NoSnapshot
        <3>1. Finish(Agent, o, "ok", cache)
            BY <1>2, <2>3 DEF SelectTools, StartGet, CachedOrEmpty
        <3>2. pc'[Agent] = "idle" /\ op'[Agent] = o /\ UNCHANGED cache
              /\ res'[Agent] = [kind |-> "ok", snap |-> cache]
            BY <1>0, <3>1 DEF Finish, TypeOK
        <3>3. cache \in Snapshots
            BY <1>0, <2>3 DEF TypeOK
        <3>4. ScriptType' /\ SharedCache' /\ stage' \in {"select", "run"}
            BY <1>0, <2>1, <3>2, <3>3, AdvanceAppends DEF ScriptType
        <3>5. QED
            BY <1>0, <3>2, <3>4 DEF MAInv, NoRefresh, SelectsOnlyGet, LazyPending, NoOp
    <2>4. QED
        BY <2>2, <2>3
<1>3. CASE RunTool
    <2>1. stage = "run" /\ calls' \in Nat /\ Advance
        BY <1>3, <1>0 DEF RunTool, ScriptType
    <2>2. PICK a \in {"valid", "malformed"} : StartCall(Agent, a)
        BY <1>3 DEF RunTool
    <2>3. op'[Agent].kind = "call" /\ UNCHANGED cache /\ pc'[Agent] # "ret"
        <3> DEFINE o == [NoOp EXCEPT !.kind = "call", !.args = a]
        <3>0. o.kind = "call"
            BY DEF NoOp
        <3>1. CASE a = "malformed"
            <4>1. Finish(Agent, o, "Tool", <<>>)
                BY <2>2, <3>1 DEF StartCall
            <4>2. QED
                BY <1>0, <3>0, <4>1 DEF Finish, TypeOK
        <3>2. CASE a # "malformed"
            <4>1. SendRequest(Agent, o)
                BY <2>2, <3>2 DEF StartCall
            <4>2. QED
                BY <1>0, <3>0, <4>1 DEF SendRequest, TypeOK
        <3>3. QED
            BY <3>1, <3>2
    <2>4. ScriptType' /\ got' = got /\ stage' # "select"
        BY <1>0, <2>1, AdvanceKeeps
    <2>5. QED
        BY <1>0, <2>3, <2>4 DEF MAInv, NoRefresh, SelectsOnlyGet, LazyPending, SharedCache
<1>4. CASE Proceed
    <2>1. calls' = calls /\ calls' \in Nat /\ Advance
        BY <1>0, <1>4 DEF Proceed, ScriptType
    <2>2. CASE Respond(Agent)
        <3>1. pc[Agent] = "wait" /\ pc'[Agent] = "responded" /\ UNCHANGED <<op, cache>>
            BY <1>0, <2>2 DEF Respond, TypeOK
        <3>2. ScriptType' /\ got' = got /\ (stage' = "select" => stage = "select")
            BY <1>0, <2>1, <3>1, AdvanceKeeps DEF ScriptType
        <3>3. QED
            BY <1>0, <3>1, <3>2 DEF MAInv, NoRefresh, SelectsOnlyGet, LazyPending, SharedCache
    <2>3. CASE DiscoveryFailed(Agent)
        <3>1. pc'[Agent] = "idle" /\ res'[Agent].kind # "ok" /\ UNCHANGED <<op, cache>>
            BY <1>0, <2>3 DEF DiscoveryFailed, MakeRequestError, TypeOK
        <3>2. ScriptType' /\ got' = got /\ (stage' = "select" => stage = "select")
            BY <1>0, <2>1, <3>1, AdvanceKeeps DEF ScriptType
        <3>3. QED
            BY <1>0, <3>1, <3>2 DEF MAInv, NoRefresh, SelectsOnlyGet, LazyPending, SharedCache
    <2>4. CASE DiscoveryFetched(Agent)
        <3>1. op[Agent].kind = "get" /\ pc[Agent] = "responded"
            BY <1>0, <2>4 DEF DiscoveryFetched, NoRefresh, Discovery
        <3>2. got = <<>>
            <4>1. cache = NoSnapshot
                BY <1>0, <3>1 DEF LazyPending
            <4>2. \A i \in DOMAIN got : got[i] \in Snapshots
                BY <1>0 DEF ScriptType
            <4>3. QED
                BY <1>0, <4>1, <4>2, NoSnapshotNotRead DEF SharedCache, ScriptType
        <3>3. pc'[Agent] = "ret" /\ UNCHANGED op
            BY <1>0, <2>4, <3>1 DEF DiscoveryFetched, TypeOK
        <3>4. cache' # NoSnapshot
            <4>1. resp[Agent].ver \in 1..gv /\ gv \in Versions
                BY <1>0, <2>4, <3>1 DEF DiscoveryFetched, MAInv, IInv, RespServed, Discovery,
                                        TypeOK
            <4>2. QED
                BY <4>1, <2>4, CatalogEntries, NoSnapshotNotRead DEF DiscoveryFetched, Versions
        <3>5. ScriptType' /\ got' = got /\ (stage' = "select" => stage = "select")
            BY <1>0, <2>1, <3>3, AdvanceKeeps DEF ScriptType
        <3>6. QED
            BY <1>0, <3>2, <3>3, <3>4, <3>5 DEF MAInv, NoRefresh, SelectsOnlyGet, LazyPending,
                                               SharedCache
    <2>5. CASE CompleteCall(Agent)
        <3>1. op[Agent].kind = "call" /\ pc'[Agent] = "idle" /\ UNCHANGED <<op, cache>>
            BY <1>0, <2>5 DEF CompleteCall, TypeOK
        <3>2. stage # "select"
            BY <1>0, <3>1 DEF SelectsOnlyGet
        <3>3. ScriptType' /\ got' = got /\ stage' # "select"
            BY <1>0, <2>1, <3>2, AdvanceKeeps DEF ScriptType
        <3>4. QED
            BY <1>0, <3>1, <3>3 DEF MAInv, NoRefresh, SelectsOnlyGet, LazyPending, SharedCache
    <2>6. CASE Return(Agent)
        <3>1. cache # NoSnapshot /\ cache \in Snapshots
            BY <1>0, <2>6 DEF Return, LazyPending, TypeOK
        <3>2. pc'[Agent] = "idle" /\ UNCHANGED <<op, cache>>
              /\ res'[Agent] = [kind |-> "ok", snap |-> cache]
            BY <1>0, <2>6, <3>1 DEF Return, CachedOrEmpty, TypeOK
        <3>3. ScriptType' /\ SharedCache' /\ (stage' = "select" => stage = "select")
            <4>1. CASE stage = "select"
                BY <1>0, <2>1, <3>1, <3>2, <4>1, AdvanceAppends
            <4>2. CASE stage # "select"
                BY <1>0, <2>1, <3>2, <4>2, AdvanceKeeps DEF SharedCache
            <4>3. QED
                BY <4>1, <4>2
        <3>4. QED
            BY <1>0, <3>2, <3>3 DEF MAInv, NoRefresh, SelectsOnlyGet, LazyPending
    <2>7. QED
        BY <1>4, <2>2, <2>3, <2>4, <2>5, <2>6 DEF Proceed
<1>5. CASE UNCHANGED allVars
    BY <1>0, <1>5 DEF allVars, vars, scriptVars, MAInv, ScriptType, NoRefresh,
                      SelectsOnlyGet, LazyPending, SharedCache
<1>6. QED
    BY <1>1, <1>2, <1>3, <1>4, <1>5 DEF MANext

(***************************************************************************)
(* For every catalog history, every list of get_tools filters and every    *)
(* number of tool calls: the agents multi_agent.py builds all select from  *)
(* one snapshot, even when the gateway redeploys between the get_tools    *)
(* calls, because only the first call fetches and nothing calls refresh(). *)
(***************************************************************************)
THEOREM AgentsShareOneSnapshot == MASpec => []AgentsShareSnapshot
<1>1. MAInv => AgentsShareSnapshot
    BY DEF MAInv, SharedCache, AgentsShareSnapshot
<1>2. MASpec => []MAInv
    BY MAInitInv, MANextInv, PTL DEF MASpec
<1>3. QED
    BY <1>1, <1>2, PTL

(***************************************************************************)
(* For every catalog history and every list of selections: each agent of   *)
(* multi_agent.py is built from a catalog the gateway published, never     *)
(* from the `self._tools or []` of a cache get_tools did not populate.    *)
(* Every snapshot read is the cache (SharedCache), a read snapshot is not  *)
(* None, and a cache that is not None holds a published catalog           *)
(* (SnapshotWhole).                                                        *)
(***************************************************************************)
THEOREM AgentsSeePublished == MASpec => []AgentsSeePublishedCatalog
<1>1. MAInv => AgentsSeePublishedCatalog
    <2> SUFFICES ASSUME MAInv, NEW i \in DOMAIN got
                 PROVE  \E v \in 1..gv : got[i] = Catalog[v]
        BY DEF AgentsSeePublishedCatalog
    <2>1. got[i] = cache /\ got[i] \in Snapshots
        BY DEF MAInv, SharedCache, ScriptType
    <2>2. cache # NoSnapshot
        BY <2>1, NoSnapshotNotRead
    <2>3. QED
        BY <2>1, <2>2 DEF MAInv, IInv, SnapshotWhole
<1>2. MASpec => []MAInv
    BY MAInitInv, MANextInv, PTL DEF MASpec
<1>3. QED
    BY <1>1, <1>2, PTL

(***************************************************************************)
(* Composition: the toolkit driven by multi_agent.py's main() still        *)
(* implements the abstract cache ToolCache: every script step is a toolkit *)
(* step (ToolkitStep), and every toolkit step maps to a ToolCache step or  *)
(* a stutter (NextRefines).                                                *)
(***************************************************************************)
THEOREM ScriptRefinesCache == MASpec => ToolCacheSpec
<1>1. MAInit => TC!Init
    BY DEF MAInit, Init, TC!Init, ReadResult, NoOp
<1>2. MASpec => []MAInv
    BY MAInitInv, MANextInv, PTL DEF MASpec
<1>3. MAInv /\ [MANext]_allVars => [TC!Next]_TC!vars
    BY ToolkitStep, NextRefines DEF MAInv
<1>4. QED
    BY <1>1, <1>2, <1>3, PTL DEF MASpec, ToolCacheSpec, TC!Spec, seenBar

=============================================================================
