----------------------------- MODULE Registration -----------------------------
(***************************************************************************)
(* The server scripts of the examples and the sidecar registry they        *)
(* register with (src/examples/proxy/python, greeter/srv/python).         *)
(*                                                                         *)
(* Each script is a process that may be started several times on one     *)
(* host.  A start draws a fresh node id (uuid4), a registering script      *)
(* POSTs its node to the sidecar's /registry, then run_simple binds        *)
(* localhost:4000 and serves until interrupted; the proxy scripts then     *)
(* DELETE their node.  The registry is the sidecar's: a set of node ids.  *)
(* Neither requests call passes a timeout and neither answer is read, so  *)
(* a POST or DELETE either reaches the registry or raises (uncaught); an *)
(* error status answered by the registry is ignored.                      *)
(***************************************************************************)
EXTENDS Naturals, FiniteSets

CONSTANTS
    Servers,      \* script processes that can run on the host
    Script,       \* Script[s]: "proxy" (register + deregister), "sidecar"
                  \* (register only), "plain" (neither)
    MaxLaunches,  \* how many times each script is started
    NoProcess     \* port 4000 is free (a model value)

ASSUME ScriptAssumption == Script \in [Servers -> {"proxy", "sidecar", "plain"}]
ASSUME MaxLaunchesAssumption == MaxLaunches \in Nat
ASSUME NoProcessAssumption == NoProcess \notin Servers

\* How a start of a script ended: "clean" only when the DELETE reached the
\* registry.
Endings == {"register_failed", "bind_failed", "killed", "no_deregister",
            "deregister_failed", "clean"}

VARIABLES
    pc,        \* pc[s]: where process s is in its script
    launch,    \* launch[s]: how many times s has been started
    registry,  \* the node ids the sidecar lists for go.micro.srv.greeter
    port,      \* the process listening on localhost:4000, or NoProcess
    ended      \* history: how each finished start ended

vars == <<pc, launch, registry, port, ended>>

\* The node id of the current start of s: "go.micro.srv.greeter-" + uuid4,
\* drawn at import, so fresh for each start and fixed for its lifetime.
Node(s) == <<s, launch[s]>>

Nodes == Servers \X (1..MaxLaunches)

TypeOK ==
    /\ pc \in [Servers -> {"down", "registering", "binding", "serving", "deregistering"}]
    /\ launch \in [Servers -> 0..MaxLaunches]
    /\ registry \subseteq Nodes
    /\ port \in Servers \cup {NoProcess}
    /\ ended \subseteq [node : Nodes, how : Endings]

Init ==
    /\ pc = [s \in Servers |-> "down"]
    /\ launch = [s \in Servers |-> 0]
    /\ registry = {}
    /\ port = NoProcess
    /\ ended = {}

\* Process s exits: its start is recorded as ending `how`.
Exit(s, how) ==
    /\ pc' = [pc EXCEPT ![s] = "down"]
    /\ ended' = ended \cup {[node |-> Node(s), how |-> how]}

\* Mutant: the node id is a constant of the script rather than a uuid drawn
\* at each start, so every start of s reuses its first id.
LaunchSameId(s) ==
    /\ pc[s] = "down"
    /\ launch[s] < MaxLaunches
    /\ launch' = [launch EXCEPT ![s] = IF @ = 0 THEN 1 ELSE @]
    /\ pc' = [pc EXCEPT ![s] = IF Script[s] = "plain" THEN "binding" ELSE "registering"]
    /\ UNCHANGED <<registry, port, ended>>

\* The script is started; the registering ones call register() first.
Launch(s) ==
    /\ pc[s] = "down"
    /\ launch[s] < MaxLaunches
    /\ launch' = [launch EXCEPT ![s] = @ + 1]
    /\ pc' = [pc EXCEPT ![s] = IF Script[s] = "plain" THEN "binding" ELSE "registering"]
    /\ UNCHANGED <<registry, port, ended>>

\* Mutant: register() builds its payload, and so a uuid, anew at the POST.
RegisterFreshId(s) ==
    /\ pc[s] = "registering"
    /\ \/ /\ registry' = registry \cup {<<s, 0>>}
          /\ pc' = [pc EXCEPT ![s] = "binding"]
          /\ UNCHANGED ended
       \/ /\ pc' = [pc EXCEPT ![s] = "binding"]
          /\ UNCHANGED <<registry, ended>>
       \/ /\ Exit(s, "register_failed")
          /\ UNCHANGED registry
    /\ UNCHANGED <<launch, port>>

\* requests.post(registry_uri, ...): the sidecar adds the node, or answers an
\* error status that nobody reads, or the connection fails and the
\* uncaught ConnectionError ends the script before run_simple.
Register(s) ==
    /\ pc[s] = "registering"
    /\ \/ /\ registry' = registry \cup {Node(s)}
          /\ pc' = [pc EXCEPT ![s] = "binding"]
          /\ UNCHANGED ended
       \/ /\ pc' = [pc EXCEPT ![s] = "binding"]
          /\ UNCHANGED <<registry, ended>>
       \/ /\ Exit(s, "register_failed")
          /\ UNCHANGED registry
    /\ UNCHANGED <<launch, port>>

\* run_simple('localhost', 4000, app): binding a port another process holds
\* raises, and the script ends without reaching deregister.
Bind(s) ==
    /\ pc[s] = "binding"
    /\ IF port = NoProcess
       THEN /\ port' = s
            /\ pc' = [pc EXCEPT ![s] = "serving"]
            /\ UNCHANGED ended
       ELSE /\ Exit(s, "bind_failed")
            /\ UNCHANGED port
    /\ UNCHANGED <<launch, registry>>

\* Ctrl-C: run_simple returns; the proxy scripts go on to deregister, the
\* others end there.
Interrupt(s) ==
    /\ pc[s] = "serving"
    /\ port' = NoProcess
    /\ IF Script[s] = "proxy"
       THEN /\ pc' = [pc EXCEPT ![s] = "deregistering"]
            /\ UNCHANGED ended
       ELSE Exit(s, "no_deregister")
    /\ UNCHANGED <<launch, registry>>

\* Mutant: deregister is sent a service dict built anew, with a new uuid.
DeregisterFreshId(s) ==
    /\ pc[s] = "deregistering"
    /\ \/ /\ registry' = registry \ {<<s, 0>>}
          /\ Exit(s, "clean")
       \/ /\ Exit(s, "deregister_failed")
          /\ UNCHANGED registry
    /\ UNCHANGED <<launch, port>>

\* requests.delete(registry_uri, ...) with the node registered at start.
Deregister(s) ==
    /\ pc[s] = "deregistering"
    /\ \/ /\ registry' = registry \ {Node(s)}
          /\ Exit(s, "clean")
       \/ /\ Exit(s, "deregister_failed")
          /\ UNCHANGED registry
    /\ UNCHANGED <<launch, port>>

\* The process is killed (SIGTERM, SIGKILL, a crash) wherever it is.
Kill(s) ==
    /\ pc[s] # "down"
    /\ Exit(s, "killed")
    /\ port' = IF port = s THEN NoProcess ELSE port
    /\ UNCHANGED <<launch, registry>>

Next ==
    \E s \in Servers :
        \/ Launch(s) \/ Register(s) \/ Bind(s) \/ Interrupt(s)
        \/ Deregister(s) \/ Kill(s)

Spec == Init /\ [][Next]_vars

-----------------------------------------------------------------------------
(***************************************************************************)
(* A node the sidecar lists either belongs to the current start of a      *)
(* process that has registered and not yet exited, or to a start that     *)
(* ended without a successful DELETE: killed, failed to bind port 4000    *)
(* after registering, failed to reach the registry on exit, or never      *)
(* deregisters (sidecar_server.py).  A start that exited cleanly leaves   *)
(* nothing behind.                                                         *)
(***************************************************************************)
StaleNodeHasCause ==
    \A n \in registry :
        \/ n = Node(n[1]) /\ pc[n[1]] \in {"binding", "serving", "deregistering"}
        \/ \E e \in ended : e.node = n /\ e.how # "clean"


(***************************************************************************)
(* Refinement: the host implements the abstract registry of              *)
(* RegistryLeases.  The live nodes are the current nodes of the running   *)
(* processes, the retired ones those of the recorded endings; the         *)
(* sidecar's registry is the abstract one.                                *)
(***************************************************************************)
RL == INSTANCE RegistryLeases
        WITH NodeIds <- Nodes,
             live <- {Node(s) : s \in {x \in Servers : pc[x] # "down"}},
             retired <- {e.node : e \in ended}

(***************************************************************************)
(* Every behaviour of the scripts is one of the abstract registry: each   *)
(* start draws a node id no earlier start held (uuid4 at import), only    *)
(* the current start's node is POSTed or DELETEd, and a clean DELETE ends *)
(* the start; kills, bind failures and failed requests only end it.      *)
(***************************************************************************)
RegistryLeasesSpec == RL!Spec

=============================================================================
