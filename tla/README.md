# TLA+ verification of the go-micro Python client (langchain-go-micro)

This directory holds TLA+ models of the Python code in this repository. The core is
`GoMicroToolkit` (`src/contrib/langchain-go-micro/langchain_go_micro/toolkit.py`), a
client that discovers tools on an MCP gateway, caches them, filters them and calls them
over HTTP. The directory also holds TLC configurations and TLAPS proofs.

## 1. Inventory

### Components and their state

| Component | Source | State | Operations |
|---|---|---|---|
| Configuration and session | `toolkit.py` 19-37, 75-116 | `GoMicroConfig` (immutable): url, token, timeout 30, retry_count 3, retry_delay 1.0, verify_ssl. A `requests.Session` carrying a Bearer header. | `from_gateway`, `__init__` (no network) |
| Tool registry cache | `toolkit.py` 166-187, 306-319 | `self._tools`: `None` (never fetched) or a list, replaced wholesale | `refresh` (always GETs `/mcp/tools`), `list_tools` (GETs only while `None`) |
| Tool selector | `toolkit.py` 189-236 | none (pure) | `get_tools(service_filter, name_pattern, include, exclude)`: lazy fetch, then four comprehensions in order |
| Invocation adapter | `toolkit.py` 238-267 | none. A closure over a tool name and the toolkit. | `tool_func(arguments)` calls `call_tool(name, arguments)` |
| Request execution | `toolkit.py` 118-164, 269-304; `exceptions.py` | none (one linear request per call) | `_make_request` classifies an answer. `call_tool` parses the arguments, POSTs `/mcp/call` and serializes the reply. |
| MCP gateway | Go, not under `src/` | its published tool list | answers GET/POST |
| Agent examples | `contrib/.../examples/multi_agent.py`, `basic_agent.py` | the agents' tool lists | `get_tools` per agent, then tool calls through the agents' runs |
| Example servers and sidecar registry | `src/examples/proxy/python/*`, `greeter/srv/python/*` | per start, a node id (uuid4 drawn at import); the sidecar's registry of node ids; port 4000 | register (POST), `run_simple` on localhost:4000, deregister (DELETE; proxy scripts only) |
| Greeter clients | `src/examples/greeter/cli/python/*` | none | one JSON-RPC POST |

### How they interact

The caller calls the toolkit synchronously. The toolkit calls the gateway over HTTP
through the shared session. The only shared mutable state is `self._tools`, which is
shared by every thread using one toolkit. The spec (§5) does not require thread safety,
but it does require copy-on-write: a reader sees the old or the new snapshot in full.

### What is hard

- Several callers on one toolkit can interleave. The lazy fetch is a check-then-act, so
  two threads can both fetch, and two refreshes can be assigned in the opposite order to
  their answers.
- The gateway can change its catalog between a request and its answer.
- Every class of answer must map to the right exception: 2xx, 401, 403, other status,
  connection failure, timeout, non-JSON body, or an incomplete record. A failure halfway
  through parsing must leave the cache untouched.
- Python truthiness at the empty boundary: `include=[]`, `service_filter=""`, and a
  fetched `[]` that is not `None`.
- Termination depends on the request timeout.

### Properties that make each component correct

- Cache: the snapshot is always whole and published. It changes only on a parsed 2xx.
  The lazy fetch happens once.
- Selector: the result is the AND of the given filters, in the original order.
- Request execution: Auth for 401/403. Connection for other statuses, transport failures
  and timeouts. Tool for malformed arguments, with no request sent. Transient failures
  are retried (spec only).
- Every operation terminates.

## 2. Modules and how they map to the code

| Module | Models |
|---|---|
| `ToolSelector.tla` | `GoMicroTool` reduced to name and service (`ToolRec`). The `get_tools` arguments (`Filter`). Python truthiness per argument (`ServiceGiven` ...). The four comprehensions (`ByService` ... `ByExclude`, composed in `GetToolsSelect`). The adapter's name binding (`ToolNames`). `RefSelect` is the reference (AND of filters). |
| `Toolkit.tla` | One toolkit shared by `Threads`, against a gateway publishing `Catalog[1..]`. Variables: `cache` = `self._tools` (`NoSnapshot` = `None`), `gv` = the gateway version, and per thread `pc`, `op` (operation and arguments), `resp` (the answer), `res` (exception kind and snapshot read), `nreq` (requests sent). `lazyOk` is a history counter. |
| `MCToolkit.tla` | The TLC instance: the fixture's tool names, three catalog versions (two tools; empty; a redeploy) and filter sets. |
| `ToolkitProofs.tla` | TLAPS proofs for `Toolkit`. |
| `ToolkitInvariants.tla` | TLAPS proofs of `ResultClassified` and `LazyFetchBounded`. |
| `ToolCache.tla` | The abstract cache the spec promises (§4.2, §5): a published catalog history, a snapshot that is `NoSnapshot` or replaced whole by a published version, and what each caller last read. |
| `ToolkitRefinement.tla` | The TLAPS proof that `Toolkit` implements `ToolCache`. |
| `Registration.tla` | The server scripts and the sidecar registry: per process `pc`, `launch` (starts so far), the shared `registry` and `port`, and the history `ended` of how each start ended. |
| `MCRegistration.tla` | One proxy script, one sidecar script and one plain server, each started twice. |
| `RegistrationProofs.tla` | TLAPS proof of `StaleNodeHasCause`. |
| `RegistryLeases.tla` | The abstract registry that registering promises: node ids are leased (`Start` draws one nobody has held, `End` retires it), only a `live` node is listed (`Add`) or unlisted (`Remove`, which also retires it), and a `retired` node is never live again. |
| `RegistrationRefinement.tla` | The TLAPS proof that `Registration` implements `RegistryLeases`. |
| `MultiAgent.tla` | `multi_agent.py`'s `main()` as the one thread `Agent` of `Toolkit`: `stage`, the snapshots `got` read by the agents' `get_tools`, and the tool calls made. |
| `MCMultiAgent.tla` | The `users` and `blog` selections against `MCToolkit`'s gateway. |
| `MultiAgentProofs.tla` | TLAPS proof of `AgentsShareSnapshot`. |

Actions of `Toolkit` and the code they model:

- `StartRefresh`: `refresh` up to `_session.request`.
- `StartList`: `list_tools`. It sends a request if the cache is `None`, otherwise it
  returns the cache at once.
- `StartGet(t, f)`: `get_tools`. The result is `GetToolsSelect` of the snapshot read.
- `StartCall(t, a)`: `call_tool`. A malformed argument string raises
  `GoMicroToolError` before any request.
- `Respond(t)`: the gateway, the network or the timeout answers. A 2xx discovery carries
  the current catalog version.
- `DiscoveryFailed(t)`: `_make_request` raises Auth or Connection, or `response.json()`
  or `tool["name"]` raises an unclassified exception. The cache is unchanged.
- `DiscoveryFetched(t)`: the list is built and assigned to `self._tools` in one step.
- `Return(t)`: the lazy path re-reads `self._tools or []`.
- `CompleteCall(t)`: `call_tool` after the request. A non-JSON body raises
  `GoMicroToolError`.
- `Deploy`: the gateway publishes its next version.

Each operation is split at the points where another thread or the gateway can act.
Everything between two such points is local Python, executed without interruption as
far as `self._tools` is concerned.

The refinement mapping (`TC` in `Toolkit`): `snapshot <- cache`, `published <- gv`, and
a thread's read is `res[t].snap` while it sits idle after a successful `list_tools` or
`get_tools`, `NoSnapshot` otherwise. `Deploy` maps to `Publish`, `DiscoveryFetched` to
`Replace`, a `list`/`get` that returns to `Read`, the start of any other operation to
`Forget`, the rest to stutters.

Actions of `Registration` (one process `s` of the host):

- `Launch(s)`: the script is started; a fresh node id is drawn (`Node(s)` is
  `<<s, launch[s]>>`, fixed for the start as the module-level `service` dict is).
- `Register(s)`: `requests.post` to the sidecar. The node is listed, or the sidecar
  answers an error status that nobody reads, or the connection fails and the uncaught
  exception ends the script.
- `Bind(s)`: `run_simple('localhost', 4000, ...)`. It raises when another process holds
  the port.
- `Interrupt(s)`: Ctrl-C ends `run_simple`; the proxy scripts go on to deregister,
  `sidecar_server.py` and the plain server end.
- `Deregister(s)`: `requests.delete` with the node id of this start, or a failed
  connection.
- `Kill(s)`: the process dies wherever it is (a signal, a crash).

The refinement mapping `RL` (in `Registration.tla`) sends the sidecar's `registry` to the
abstract one. `live` is the set of current nodes `Node(s)` of the processes that are not
down. `retired` is the set of nodes of the recorded endings. Under it:
- `Launch` is `Start` of the new node;
- a `Register` that lists the node is `Add`;
- a clean `Deregister` is `Remove`;
- every exit (a failed POST, a failed bind, Ctrl-C without deregister, a failed DELETE,
  a kill) is `End`;
- the rest (an ignored error status, a successful bind, Ctrl-C before deregister) are
  stutters.

Actions of `MultiAgent`: `SelectTools` (the next `get_tools(service_filter=...)`),
`RunTool` (an agent's run calls a tool through `call_tool`), `Proceed` (the toolkit
operation `main()` is blocked in takes its next step) and the gateway's `Deploy`.
`Advance` is the rest of `main()` after a toolkit call returns: an exception ends the
script, a tool list becomes the next agent's, the last one starts the runs.

Abstractions:
- Endpoint, description, example, scopes, metadata and the Authorization header decide
  no control flow and are left out.
- A regex is the set of names `re.match` accepts.
- `ConnectionError` and `Timeout` are one outcome, `transient`. The code treats them
  alike except for the message text.
- The tool name passed to `call_tool` is dropped, because nothing in the client depends
  on it.

## 3. Runs

| Run | cfg | Result | What it shows |
|---|---|---|---|
| toolkit_safety | `MCToolkit.cfg` | pass, 828,566 states | See the list below. |
| toolkit_liveness | `MCToolkitLive.cfg` | pass, 417,639 states | `OpCompletes`: every started operation returns or raises. |
| retry_divergence | `MCRetry.cfg` | violation | A transient failure surfaces after 1 request. Spec §4.5 says retry_count retries. |
| empty_include_divergence | `MCEmptyInclude.cfg` | violation | `include=[]` returns every tool. Spec §4.3 says it returns none. |
| discovery_error_divergence | `MCDiscoveryError.cfg` | violation | A non-JSON 2xx or an incomplete record escapes `refresh` as a non-GoMicro exception. |
| registration_safety | `MCRegistration.cfg` | pass, 239,420 states | `StaleNodeHasCause`: every node in the registry belongs to a live registered start, or to a start that ended without a successful DELETE. `RegistryLeasesSpec` (refinement): the host implements `RegistryLeases`, so no start reuses a node id and only the current start's node is POSTed or DELETEd. |
| multi_agent | `MCMultiAgent.cfg` | pass, 318 states | `AgentsShareSnapshot`: both agents select from one snapshot despite redeploys. `AgentsSeePublishedCatalog`: that snapshot is a catalog the gateway published, never the `self._tools or []` of an unpopulated cache. |

The toolkit_safety run checks these properties:
- `SnapshotWhole`: the cache is `None` or exactly one published catalog.
- `ResultClassified`: the exception matches the spec's taxonomy.
- `SelectionMatchesFilters`: `get_tools` equals the spec's selection (§4.3): each
  supplied filter is one condition, AND-ed, order kept. The filters apply a non-empty
  include, a pattern, a service and an exclude, alone and together, to non-empty
  catalogs. The reference treats only `None` as absent. The code's `include=[]` and
  `service_filter=""` disagree with it, so they are left to empty_include_divergence.
- `LazyFetchBounded`: lazy fetches ≤ |Threads|.
- `ToolCacheSpec` (refinement): the toolkit implements `ToolCache`. A lazy
  `list_tools`/`get_tools` must return `self._tools` as it is when it returns, not the
  list its own request fetched.

Bounds of the example runs:
- Registration: three processes, one of each script kind, each started twice. Two
  starts of one script are the least that can leave a stale node next to a live one, and
  three processes let two of them fight for port 4000 while the third holds it. Four
  processes took over four minutes with no new kind of behaviour.
- Multi-agent: the script's own two selections and three tool calls, against the three
  catalog versions of `MCToolkit`, so a redeploy can fall between the two `get_tools`.

Bounds:
- Two threads are the smallest number that can race on the lazy fetch and on refresh
  ordering.
- Three catalog versions include an empty one, so "fetched, empty" differs from "never
  fetched", and a redeploy that changes both membership and order.
- The filter sets cover every stage with a non-empty argument: service with exclude,
  pattern with include, include alone. The include lists name tools that are present
  in some catalogs and absent from others. The empty include has its own run.
- Threads are a symmetry set in the safety run. Symmetry is not used in the liveness
  run.
- The liveness run uses one filter and two catalog versions to stay within time. Filter
  data does not affect termination.

Every property of the passing runs has a mutant: a plausible bug that TLC catches (see
`mutants` in `PROJECT.json`):
- each request sent twice;
- `refresh` merging into the old list;
- the 403 branch dropped;
- the include stage dropped;
- `if not self._tools` instead of `is None`;
- a lazy fetch looping until it succeeds;
- the lazy path returning its own fetch instead of re-reading `self._tools`;
- `get_tools` refreshing on every call;
- `get_tools` skipping its lazy refresh;
- the node id rebuilt at register or at deregister;
- one fixed node id for every start of a script instead of a uuid drawn at import.

### Fairness

Weak fairness is assumed for `Respond`, `DiscoveryFailed`, `DiscoveryFetched`,
`CompleteCall` and `Return` of each thread:
- `Respond`: `_make_request` passes `timeout=config.timeout` to every request, so an
  answer or a timeout always comes.
- The other four actions are local code.

Starting an operation is the caller's choice, so it has no fairness. `MultiAgent` is
checked for safety only and assumes no fairness: its termination is the toolkit's
`OpCompletes` again. `Registration` assumes no fairness at all:
`proxy.register` and `proxy.deregister` pass no timeout to requests, so a sidecar that
never answers blocks a script for ever, and a user may never press Ctrl-C.

Caveat for `Toolkit`: requests'
timeout bounds connect and each socket read, not the whole transfer. A server that
trickles bytes defeats it (listed as a hazard).

## 4. Proofs (TLAPS)

- `ToolkitProofs`: `TypeCorrect == Spec => []TypeOK` and
  `SnapshotWholeHolds == Spec => []SnapshotWhole`.
- `ToolkitRefinement`: `Refinement == Spec => ToolCacheSpec`. `Init` maps to `TC!Init`;
  `NextRefines` shows, one step per action and under `IInv`, that every toolkit step is
  a `ToolCache` step or a stutter. `Replace` needs `RespServed` (the fetched version is
  published).
- `RegistrationProofs`: `StaleNodesExplained == Spec => []StaleNodeHasCause` for every
  set of scripts and every `MaxLaunches`. The inductive invariant adds
  `NodesFromPastStarts` (no listed node carries a start number beyond `launch`, so a
  new start's node is not listed), `RegisteringUnlisted` (a process about to POST is not
  listed yet) and `RunningStarted`. The lemma `ExitAccounts` shows that any non-clean
  exit accounts for the exiting node.
- `MultiAgentProofs`: `AgentsShareOneSnapshot == MASpec => []AgentsShareSnapshot`. Every
  script step is a `Toolkit` step (`ToolkitStep`), so `IInv` carries over. The script
  part adds `SharedCache` (every snapshot read is the cache itself), `NoRefresh`,
  `SelectsOnlyGet` and `LazyPending` (a lazy fetch is in flight only while the cache is
  `None`, and the return after it finds the cache set). Together they show that the one
  assignment of `self._tools` comes before any agent's tools are read. The same module
  proves `AgentsSeePublished == MASpec => []AgentsSeePublishedCatalog`. A snapshot read is
  the cache (`SharedCache`), and it is not `None`. By `SnapshotWhole`, such a cache is a
  published catalog. It also proves the composed refinement
  `ScriptRefinesCache == MASpec => ToolCacheSpec`. Every script step is a toolkit step
  (`ToolkitStep`), and every toolkit step refines `ToolCache` (`NextRefines`), so the
  toolkit driven by `main()` still implements the abstract cache.
- `RegistrationProofs` also proves `RegistrationTypeCorrect == Spec => []TypeOK` from the
  same inductive invariant.
- `RegistrationRefinement`: `RegistrationRefinesLeases == Spec => RegistryLeasesSpec`
  for every set of scripts and every `MaxLaunches`.
  - `Init` maps to `RL!Init`. `NextRefines` takes one step per action and shows, under
    `RInv`, that every host step is a `RegistryLeases` step or a stutter.
  - `RInv` is `IInv` of `RegistrationProofs` plus `EndedFromPastStarts`: every recorded
    ending names a node whose start number is ≤ `launch` of its script. This is what
    makes a new start's node `<<s, launch[s] + 1>>` fresh (`LaunchStarts`). It is not
    in the running set, because `s` is down and a node names its script
    (`NodeNamesScript`).
  - Lemmas on the mapped sets: `LiveKept`, `LiveExit` and `LiveLaunch` give `live`
    after each kind of step. `ExitRetires` shows that every exit moves the node from
    `live` to `retired`. `ExitEnds` and `RunningStutters` turn exits and quiet steps
    into `End` and stutters.
  - TLC checked `RInv` on the registration_safety instance before the proof was
    written.
- `ToolkitInvariants`: `ErrorsClassified == Spec => []ResultClassified` and
  `LazyFetchesBounded == Spec => []LazyFetchBounded`.
  - `ResultClassified` is strengthened, thread by thread, into `TInv(t)`:
    - `MalformedLocal(t)`: a malformed call is idle with GoMicroToolError and no
      request, so `CompleteCall` never finishes one.
    - `RetFetched(t)`: a thread at the lazy `Return` holds a parsed 2xx answer, so the
      "ok" it records matches that answer.
  - Every action changes only its own thread's entries (`Untouched`). The lemma
    `LocalStep` therefore reduces each step to the acting thread.
  - `LazyFetchBounded` is strengthened to `LazyBudget`: successful lazy discoveries
    plus the threads with a lazy request in flight are at most `|Threads|`.
  - `NoneBeforeLazy` adds that no lazy discovery has succeeded while the cache is
    `None`. This is why a new lazy request, sent only while the cache is `None`, fits
    in the budget. The proof counts with `FS_Subset` and `FS_RemoveElement` of
    `FiniteSetTheorems`.
  - TLC checked both strengthened invariants (`CInv`, `LInv`) on the toolkit_safety
    instance before the proofs were written.

The toolkit theorems hold for every non-empty finite `Threads` and every non-empty `Catalog \in
Seq(Seq(ToolRec))`. These are the named `ASSUME`s of `Toolkit` and `ToolSelector`.

`SnapshotWhole` is not inductive alone, because `DiscoveryFetched` assigns
`Catalog[resp[t].ver]`. The inductive invariant is
`IInv == TypeOK /\ RespServed /\ SnapshotWhole`, where `RespServed` says that every 2xx
discovery answer a thread holds carries a version ≤ `gv`. That is true because `Respond`
stamps the current `gv` and `Deploy` only increases `gv`. `IInv` was first checked with
TLC on the safety instance.

The proof has one step per action. Lemmas cover the two shared step shapes
(`SendRequestIInv`, `FinishIInv`) and `CatalogEntries`.

The following are checked by TLC only:
- liveness (`OpCompletes`), which TLAPS cannot handle (ENABLED and fairness);
- the selector reference check, which needs induction over `SelectSeq`;
- `SelectionMatchesFilters`: `get_tools` composes four `SelectSeq` filters and the
  reference is one `SelectSeq` of their conjunction. Showing they are equal for every
  snapshot is an induction over sequences, which the installed provers cannot do (the
  library's induction theorems take an operator parameter). TLC checks it on the
  fixture catalogs and every filter set of `MCToolkit`.

## 5. Not modelled

- The greeter clients: one POST each, with no state.
- `basic_agent.py` has no run of its own: it is `MultiAgent` with one unfiltered
  selection.
- The request handlers of the example servers (`Say.Hello`, `/greeter`), which are
  stateless.
- The Authorization header, TLS and message wording.
- `requests.Session` thread safety.

## 6. Plan for later sittings

1. Call a tool by name: the gateway answers from its current catalog, so stale Tool
   objects (hazard at `toolkit.py:256`) can be expressed.
2. A `MultiAgent` instance with a failing gateway and more tool calls; a composition of
   `Registration` with a client that calls through the sidecar.
