----------------------- MODULE RegistrationRefinement -----------------------
(***************************************************************************)
(* Proof that the host of server scripts implements the abstract registry *)
(* RegistryLeases under the refinement mapping RL of Registration, for    *)
(* every set of scripts and every number of starts.                        *)
(***************************************************************************)
EXTENDS RegistrationProofs

USE ScriptAssumption, MaxLaunchesAssumption, NoProcessAssumption

\* The abstract live and retired nodes under the refinement mapping.
liveBar == {Node(s) : s \in {x \in Servers : pc[x] # "down"}}
retiredBar == {e.node : e \in ended}

(***************************************************************************)
(* A start draws a fresh id only if no recorded ending carries a start    *)
(* number beyond its script's count of starts: every ended node is one of *)
(* a past start.  Together with IInv this is the invariant the refinement *)
(* rests on.                                                               *)
(***************************************************************************)
EndedFromPastStarts == \A e \in ended : e.node[2] <= launch[e.node[1]]

RInv == IInv /\ EndedFromPastStarts

LEMMA InitRInv == Init => RInv
BY InitIInv DEF Init, RInv, EndedFromPastStarts

LEMMA NextRInv == RInv /\ [Next]_vars => RInv'
<1> SUFFICES ASSUME RInv, [Next]_vars PROVE RInv'
    OBVIOUS
<1>1. IInv'
    BY NextIInv DEF RInv
<1>2. TypeOK /\ EndedFromPastStarts /\ RunningStarted
    BY DEF RInv, IInv
<1>3. ASSUME NEW s \in Servers, NEW how \in Endings, Exit(s, how), launch' = launch
      PROVE  EndedFromPastStarts'
    BY <1>2, <1>3 DEF Exit, EndedFromPastStarts, Node, TypeOK
<1>4. ASSUME NEW s \in Servers, Launch(s) PROVE EndedFromPastStarts'
    BY <1>2, <1>4 DEF Launch, EndedFromPastStarts, TypeOK, Nodes
<1>5. ASSUME NEW s \in Servers,
             Register(s) \/ Bind(s) \/ Interrupt(s) \/ Deregister(s) \/ Kill(s)
      PROVE  EndedFromPastStarts'
    <2>1. launch' = launch /\ (ended' = ended \/ \E how \in Endings : Exit(s, how))
        BY <1>5 DEF Register, Bind, Interrupt, Deregister, Kill, Endings
    <2>2. QED
        BY <1>2, <1>3, <2>1 DEF EndedFromPastStarts
<1>6. ASSUME UNCHANGED vars PROVE EndedFromPastStarts'
    BY <1>2, <1>6 DEF vars, EndedFromPastStarts
<1>7. EndedFromPastStarts'
    BY <1>4, <1>5, <1>6 DEF Next
<1>8. QED
    BY <1>1, <1>7 DEF RInv


(***************************************************************************)
(* The current nodes of two processes differ: a node id names the script  *)
(* that drew it.                                                           *)
(***************************************************************************)
LEMMA NodeNamesScript ==
    ASSUME NEW s \in Servers, NEW x \in Servers, x # s
    PROVE  Node(x) # Node(s) /\ Node(x)' # Node(s)'
BY DEF Node

\* A step of s that keeps it running, and every count of starts, keeps liveBar.
LEMMA LiveKept ==
    ASSUME TypeOK, NEW s \in Servers, NEW v, v # "down", pc[s] # "down",
           pc' = [pc EXCEPT ![s] = v], launch' = launch
    PROVE  liveBar' = liveBar
BY DEF liveBar, Node, TypeOK

\* Process s exits: its current node leaves liveBar.
LEMMA LiveExit ==
    ASSUME TypeOK, NEW s \in Servers, pc[s] # "down",
           pc' = [pc EXCEPT ![s] = "down"], launch' = launch
    PROVE  liveBar' = liveBar \ {Node(s)}
<1>1. \A x \in Servers : Node(x)' = Node(x) /\ (x # s => Node(x) # Node(s))
    BY NodeNamesScript DEF Node
<1>2. {x \in Servers : pc'[x] # "down"} = {x \in Servers : pc[x] # "down"} \ {s}
    BY DEF TypeOK
<1>3. liveBar' = {Node(x) : x \in {y \in Servers : pc[y] # "down"} \ {s}}
    BY <1>1, <1>2 DEF liveBar
<1>4. QED
    BY <1>1, <1>3 DEF liveBar

\* Process s is started: the node of its new start joins liveBar.
LEMMA LiveLaunch ==
    ASSUME TypeOK, NEW s \in Servers, NEW v, v # "down", pc[s] = "down",
           pc' = [pc EXCEPT ![s] = v], launch' = [launch EXCEPT ![s] = @ + 1]
    PROVE  liveBar' = liveBar \cup {Node(s)'}
<1>1. \A x \in Servers \ {s} : Node(x)' = Node(x)
    BY DEF Node, TypeOK
<1>2. QED
    BY <1>1 DEF liveBar, TypeOK

(***************************************************************************)
(* Exit(s, how) of a running process retires its node: the node leaves    *)
(* liveBar and joins retiredBar, whatever the step does to the registry.  *)
(***************************************************************************)
LEMMA ExitRetires ==
    ASSUME TypeOK, NEW s \in Servers, NEW how, Exit(s, how), pc[s] # "down",
           launch' = launch
    PROVE  /\ Node(s) \in liveBar
           /\ liveBar' = liveBar \ {Node(s)}
           /\ retiredBar' = retiredBar \cup {Node(s)}
<1>1. liveBar' = liveBar \ {Node(s)}
    BY LiveExit DEF Exit
<1>2. ended' = ended \cup {[node |-> Node(s), how |-> how]}
    BY DEF Exit
<1>3. ASSUME NEW n PROVE n \in retiredBar' <=> n \in retiredBar \cup {Node(s)}
    <2>1. ASSUME NEW e \in ended', e.node = n PROVE n \in retiredBar \cup {Node(s)}
        BY <1>2, <2>1 DEF retiredBar
    <2>2. CASE n = Node(s)
        <3>1. [node |-> Node(s), how |-> how] \in ended'
            BY <1>2
        <3>2. QED
            BY <2>2, <3>1 DEF retiredBar
    <2>3. CASE n \in retiredBar
        BY <1>2, <2>3 DEF retiredBar
    <2>4. QED
        BY <2>1, <2>2, <2>3 DEF retiredBar
<1>4. Node(s) \in liveBar
    BY DEF liveBar
<1>5. QED
    BY <1>1, <1>3, <1>4

\* An exit that leaves the registry alone is the abstract End of the node.
LEMMA ExitEnds ==
    ASSUME TypeOK, NEW s \in Servers, NEW how, Exit(s, how), pc[s] # "down",
           UNCHANGED <<launch, registry>>, Node(s) \in Nodes
    PROVE  [RL!Next]_RL!vars
<1>1. \E n \in Nodes : RL!End(n)
    BY ExitRetires DEF RL!End, liveBar, retiredBar
<1>2. QED
    BY <1>1 DEF RL!Next

\* A step of a running process that keeps it running and records no ending
\* is invisible to the abstract registry.
LEMMA RunningStutters ==
    ASSUME TypeOK, NEW s \in Servers, NEW v, v # "down", pc[s] # "down",
           pc' = [pc EXCEPT ![s] = v], UNCHANGED <<launch, registry, ended>>
    PROVE  UNCHANGED <<registry, liveBar, retiredBar>>
BY LiveKept DEF retiredBar


(***************************************************************************)
(* A start draws a fresh node: <<s, launch[s] + 1>> is no running          *)
(* process's node, since s is down and a node names its script, and no    *)
(* ended start's node, since those carry numbers up to launch[s].         *)
(***************************************************************************)
LEMMA LaunchStarts ==
    ASSUME RInv, NEW s \in Servers, Launch(s)
    PROVE  RL!Start(<<s, launch[s] + 1>>) /\ <<s, launch[s] + 1>> \in Nodes
<1>1. TypeOK /\ EndedFromPastStarts
    BY DEF RInv, IInv
<1>2. Node(s)' = <<s, launch[s] + 1>> /\ <<s, launch[s] + 1>> \in Nodes
    BY <1>1 DEF Launch, Node, Nodes, TypeOK
<1>3. <<s, launch[s] + 1>> \notin liveBar
    BY <1>1, <1>2 DEF Launch, liveBar, Node, TypeOK
<1>4. <<s, launch[s] + 1>> \notin retiredBar
    BY <1>1, <1>2 DEF Launch, retiredBar, EndedFromPastStarts, TypeOK, Nodes
<1>5. liveBar' = liveBar \cup {<<s, launch[s] + 1>>}
    <2>1. pc' = [pc EXCEPT ![s] = IF Script[s] = "plain" THEN "binding" ELSE "registering"]
        BY DEF Launch
    <2>2. QED
        BY <1>1, <1>2, <2>1, LiveLaunch DEF Launch
<1>6. retiredBar' = retiredBar
    BY DEF Launch, retiredBar
<1>7. QED
    BY <1>2, <1>3, <1>4, <1>5, <1>6 DEF Launch, RL!Start, liveBar, retiredBar

(***************************************************************************)
(* Every step of the host is a step of the abstract registry or leaves   *)
(* the mapped state alone.                                                *)
(***************************************************************************)
LEMMA NextRefines == RInv /\ [Next]_vars => [RL!Next]_RL!vars
<1> SUFFICES ASSUME RInv, [Next]_vars PROVE [RL!Next]_RL!vars
    OBVIOUS
<1>0. TypeOK /\ RunningStarted
    BY DEF RInv, IInv
<1> DEFINE Stutter == UNCHANGED <<registry, liveBar, retiredBar>>
<1>1. Stutter => [RL!Next]_RL!vars
    BY DEF RL!vars, liveBar, retiredBar
<1>3. ASSUME NEW s \in Servers, Launch(s) PROVE [RL!Next]_RL!vars
    <2>1. RL!Start(<<s, launch[s] + 1>>) /\ <<s, launch[s] + 1>> \in Nodes
        BY <1>3, LaunchStarts
    <2>2. \E n \in Nodes : RL!Start(n)
        BY <2>1 DEF RL!Start
    <2>3. QED
        BY <2>2 DEF RL!Next
<1>4. ASSUME NEW s \in Servers, Register(s) PROVE [RL!Next]_RL!vars
    <2>1. pc[s] = "registering" /\ Node(s) \in Nodes
        BY <1>0, <1>4 DEF Register, RunningStarted, Node, Nodes
    <2>2. CASE registry' = registry \cup {Node(s)} /\ pc' = [pc EXCEPT ![s] = "binding"]
               /\ UNCHANGED <<ended, launch, port>>
        <3>1. \E n \in Nodes : RL!Add(n)
            BY <1>0, <2>1, <2>2, LiveKept DEF RL!Add, liveBar, retiredBar
        <3>2. QED
            BY <3>1 DEF RL!Next
    <2>3. CASE pc' = [pc EXCEPT ![s] = "binding"] /\ UNCHANGED <<registry, ended, launch, port>>
        BY <1>0, <1>1, <2>1, <2>3, RunningStutters
    <2>4. CASE Exit(s, "register_failed") /\ UNCHANGED <<registry, launch, port>>
        BY <1>0, <2>1, <2>4, ExitEnds
    <2>5. QED
        BY <1>4, <2>2, <2>3, <2>4 DEF Register
<1>5. ASSUME NEW s \in Servers, Bind(s) PROVE [RL!Next]_RL!vars
    <2>1. pc[s] = "binding" /\ Node(s) \in Nodes
        BY <1>0, <1>5 DEF Bind, RunningStarted, Node, Nodes
    <2>2. CASE port = NoProcess
        BY <1>0, <1>1, <1>5, <2>1, <2>2, RunningStutters DEF Bind
    <2>3. CASE port # NoProcess
        BY <1>0, <1>5, <2>1, <2>3, ExitEnds DEF Bind
    <2>4. QED
        BY <2>2, <2>3
<1>6. ASSUME NEW s \in Servers, Interrupt(s) PROVE [RL!Next]_RL!vars
    <2>1. pc[s] = "serving" /\ Node(s) \in Nodes
        BY <1>0, <1>6 DEF Interrupt, RunningStarted, Node, Nodes
    <2>2. CASE Script[s] = "proxy"
        BY <1>0, <1>1, <1>6, <2>1, <2>2, RunningStutters DEF Interrupt
    <2>3. CASE Script[s] # "proxy"
        BY <1>0, <1>6, <2>1, <2>3, ExitEnds DEF Interrupt
    <2>4. QED
        BY <2>2, <2>3
<1>7. ASSUME NEW s \in Servers, Deregister(s) PROVE [RL!Next]_RL!vars
    <2>1. pc[s] = "deregistering" /\ Node(s) \in Nodes
        BY <1>0, <1>7 DEF Deregister, RunningStarted, Node, Nodes
    <2>2. CASE registry' = registry \ {Node(s)} /\ Exit(s, "clean")
        <3>1. \E n \in Nodes : RL!Remove(n)
            BY <1>0, <1>7, <2>1, <2>2, ExitRetires DEF Deregister, RL!Remove, liveBar, retiredBar
        <3>2. QED
            BY <3>1 DEF RL!Next
    <2>3. CASE Exit(s, "deregister_failed") /\ UNCHANGED registry
        BY <1>0, <1>7, <2>1, <2>3, ExitEnds DEF Deregister
    <2>4. QED
        BY <1>7, <2>2, <2>3 DEF Deregister
<1>8. ASSUME NEW s \in Servers, Kill(s) PROVE [RL!Next]_RL!vars
    <2>1. Node(s) \in Nodes
        BY <1>0, <1>8 DEF Kill, RunningStarted, Node, Nodes
    <2>2. QED
        BY <1>0, <1>8, <2>1, ExitEnds DEF Kill
<1>9. CASE UNCHANGED vars
    <2>1. pc' = pc /\ launch' = launch /\ registry' = registry /\ ended' = ended
        BY <1>9 DEF vars
    <2>2. liveBar' = liveBar /\ retiredBar' = retiredBar
        BY <2>1 DEF liveBar, retiredBar, Node
    <2>3. QED
        BY <2>1, <2>2 DEF RL!vars, liveBar, retiredBar
<1>10. QED
    BY <1>3, <1>4, <1>5, <1>6, <1>7, <1>8, <1>9 DEF Next

(***************************************************************************)
(* For every set of server scripts and every number of starts, with any   *)
(* kills, bind failures, failed requests and ignored error statuses: the  *)
(* host behaves as the abstract registry.  Each start draws a node id no   *)
(* earlier start held, only the current start's node is POSTed or         *)
(* DELETEd, and a node once retired is never registered again.           *)
(***************************************************************************)
THEOREM RegistrationRefinesLeases == Spec => RegistryLeasesSpec
<1>1. Init => RL!Init
    BY DEF Init, RL!Init, liveBar, retiredBar
<1>2. Spec => []RInv
    BY InitRInv, NextRInv, PTL DEF Spec
<1>3. QED
    BY <1>1, <1>2, NextRefines, PTL DEF Spec, RegistryLeasesSpec, RL!Spec, liveBar, retiredBar

=============================================================================
