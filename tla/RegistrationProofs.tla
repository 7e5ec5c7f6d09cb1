------------------------- MODULE RegistrationProofs -------------------------
(***************************************************************************)
(* Proof that StaleNodeHasCause holds for every set of scripts and every  *)
(* number of starts.                                                       *)
(***************************************************************************)
EXTENDS Registration, TLAPS

(***************************************************************************)
(* StaleNodeHasCause alone is not inductive.  Launch makes <<s, k+1>> the  *)
(* current node of s, so no registered node may carry a start number      *)
(* beyond launch[s]; Register adds Node(s) to the registry, and the        *)
(* failing branch exits with "register_failed", so a registering process's *)
(* node must not be listed yet.                                           *)
(***************************************************************************)
NodesFromPastStarts == \A n \in registry : n[2] <= launch[n[1]]

RegisteringUnlisted == \A s \in Servers : pc[s] = "registering" => Node(s) \notin registry

\* A running process has been started, so its node is one of Nodes.
RunningStarted == \A s \in Servers : pc[s] # "down" => launch[s] \in 1..MaxLaunches

IInv == TypeOK /\ RunningStarted /\ NodesFromPastStarts /\ RegisteringUnlisted
        /\ StaleNodeHasCause

USE ScriptAssumption, MaxLaunchesAssumption, NoProcessAssumption

LEMMA InitIInv == Init => IInv
BY DEF Init, IInv, TypeOK, RunningStarted, NodesFromPastStarts, RegisteringUnlisted,
       StaleNodeHasCause

(***************************************************************************)
(* Exit(s, how) records a non-clean ending for s's current node, which then *)
(* accounts for that node if it is listed.                                 *)
(***************************************************************************)
LEMMA ExitAccounts ==
    ASSUME IInv, NEW s \in Servers, NEW how \in Endings, Exit(s, how),
           how # "clean", UNCHANGED <<launch, registry>>
    PROVE  StaleNodeHasCause'
<1> SUFFICES ASSUME NEW n \in registry'
             PROVE  \/ n = Node(n[1])' /\ pc'[n[1]] \in {"binding", "serving", "deregistering"}
                    \/ \E e \in ended' : e.node = n /\ e.how # "clean"
    BY DEF StaleNodeHasCause
<1>1. CASE n = Node(s)
    <2>1. [node |-> Node(s), how |-> how] \in ended'
        BY DEF Exit
    <2>2. QED
        BY <1>1, <2>1
<1>2. CASE n # Node(s)
    <2>1. n \in Nodes
        BY DEF IInv, TypeOK
    <2>2. n[1] # s \/ n # Node(n[1])
        BY <1>2
    <2>3. QED
        BY <2>1, <2>2 DEF IInv, TypeOK, StaleNodeHasCause, Exit, Node, Nodes
<1>3. QED
    BY <1>1, <1>2

(***************************************************************************)
(* A process exiting without a successful DELETE keeps the invariant,      *)
(* wherever in its script it was.                                          *)
(***************************************************************************)
LEMMA ExitIInv ==
    ASSUME IInv, NEW s \in Servers, NEW how \in Endings \ {"clean"}, Exit(s, how),
           pc[s] # "down", UNCHANGED <<launch, registry>>, port' \in Servers \cup {NoProcess}
    PROVE  IInv'
<1>1. TypeOK' /\ RunningStarted'
    BY DEF IInv, TypeOK, RunningStarted, Exit, Node, Nodes
<1>2. NodesFromPastStarts' /\ RegisteringUnlisted'
    BY DEF IInv, TypeOK, Exit, NodesFromPastStarts, RegisteringUnlisted, Node
<1>3. StaleNodeHasCause'
    BY ExitAccounts
<1>4. QED
    BY <1>1, <1>2, <1>3 DEF IInv

LEMMA NextIInv == IInv /\ [Next]_vars => IInv'
<1> SUFFICES ASSUME IInv, [Next]_vars PROVE IInv'
    OBVIOUS
<1>0. TypeOK /\ RunningStarted /\ NodesFromPastStarts /\ RegisteringUnlisted
      /\ StaleNodeHasCause
    BY DEF IInv
<1>1. ASSUME NEW s \in Servers, Launch(s) PROVE IInv'
    <2>1. TypeOK' /\ RunningStarted'
        BY <1>0, <1>1 DEF Launch, TypeOK, RunningStarted
    <2>2. NodesFromPastStarts'
        BY <1>0, <1>1 DEF Launch, TypeOK, NodesFromPastStarts, Nodes
    <2>3. RegisteringUnlisted'
        BY <1>0, <1>1 DEF Launch, TypeOK, NodesFromPastStarts, RegisteringUnlisted, Node, Nodes
    <2>4. StaleNodeHasCause'
        BY <1>0, <1>1 DEF Launch, TypeOK, NodesFromPastStarts, StaleNodeHasCause, Node, Nodes
    <2>5. QED
        BY <2>1, <2>2, <2>3, <2>4 DEF IInv
<1>2. ASSUME NEW s \in Servers, Register(s) PROVE IInv'
    <2>0. launch[s] \in 1..MaxLaunches /\ Node(s) \notin registry
        BY <1>0, <1>2 DEF Register, RunningStarted, RegisteringUnlisted
    <2>1. CASE registry' = registry \cup {Node(s)} /\ pc' = [pc EXCEPT ![s] = "binding"]
               /\ UNCHANGED <<ended, launch, port>>
        <3>1. TypeOK' /\ RunningStarted'
            BY <1>0, <2>0, <2>1 DEF TypeOK, RunningStarted, Node, Nodes
        <3>2. NodesFromPastStarts' /\ RegisteringUnlisted'
            BY <1>0, <2>0, <2>1 DEF TypeOK, NodesFromPastStarts, RegisteringUnlisted, Node
        <3>3. StaleNodeHasCause'
            BY <1>0, <2>1 DEF TypeOK, StaleNodeHasCause, Node
        <3>4. QED
            BY <3>1, <3>2, <3>3 DEF IInv
    <2>2. CASE pc' = [pc EXCEPT ![s] = "binding"] /\ UNCHANGED <<registry, ended, launch, port>>
        <3>1. TypeOK' /\ RunningStarted' /\ NodesFromPastStarts' /\ RegisteringUnlisted'
            BY <1>0, <2>0, <2>2 DEF TypeOK, RunningStarted, NodesFromPastStarts,
                                   RegisteringUnlisted, Node
        <3>2. StaleNodeHasCause'
            BY <1>0, <2>0, <2>2 DEF TypeOK, StaleNodeHasCause, Node
        <3>3. QED
            BY <3>1, <3>2 DEF IInv
    <2>3. CASE Exit(s, "register_failed") /\ UNCHANGED <<registry, launch, port>>
        BY <1>0, <1>2, <2>3, ExitIInv DEF Register, Endings, TypeOK
    <2>4. QED
        BY <1>2, <2>1, <2>2, <2>3 DEF Register
<1>3. ASSUME NEW s \in Servers, Bind(s) PROVE IInv'
    <2>1. CASE port = NoProcess
        <3>1. port' = s /\ pc' = [pc EXCEPT ![s] = "serving"]
              /\ UNCHANGED <<launch, registry, ended>>
            BY <1>3, <2>1 DEF Bind
        <3>2. QED
            BY <1>0, <1>3, <3>1 DEF Bind, IInv, TypeOK, RunningStarted, NodesFromPastStarts,
                                   RegisteringUnlisted, StaleNodeHasCause, Node
    <2>2. CASE port # NoProcess
        BY <1>0, <1>3, <2>2, ExitIInv DEF Bind, Endings, TypeOK
    <2>3. QED
        BY <2>1, <2>2
<1>4. ASSUME NEW s \in Servers, Interrupt(s) PROVE IInv'
    <2>1. CASE Script[s] = "proxy"
        <3>1. port' = NoProcess /\ pc' = [pc EXCEPT ![s] = "deregistering"]
              /\ UNCHANGED <<launch, registry, ended>>
            BY <1>4, <2>1 DEF Interrupt
        <3>2. QED
            BY <1>0, <1>4, <3>1 DEF Interrupt, IInv, TypeOK, RunningStarted,
                                   NodesFromPastStarts, RegisteringUnlisted, StaleNodeHasCause, Node
    <2>2. CASE Script[s] # "proxy"
        BY <1>0, <1>4, <2>2, ExitIInv DEF Interrupt, Endings
    <2>3. QED
        BY <2>1, <2>2
<1>5. ASSUME NEW s \in Servers, Deregister(s) PROVE IInv'
    <2>1. CASE registry' = registry \ {Node(s)} /\ Exit(s, "clean")
        <3>1. TypeOK' /\ RunningStarted'
            BY <1>0, <1>5, <2>1 DEF Deregister, TypeOK, RunningStarted, Exit, Endings, Node, Nodes
        <3>2. NodesFromPastStarts' /\ RegisteringUnlisted'
            BY <1>0, <1>5, <2>1 DEF Deregister, TypeOK, Exit, NodesFromPastStarts,
                                   RegisteringUnlisted, Node
        <3>3. StaleNodeHasCause'
            <4> SUFFICES ASSUME NEW n \in registry'
                         PROVE  \/ n = Node(n[1])' /\ pc'[n[1]] \in {"binding", "serving", "deregistering"}
                                \/ \E e \in ended' : e.node = n /\ e.how # "clean"
                BY DEF StaleNodeHasCause
            <4>1. n \in registry /\ n # Node(s) /\ n \in Nodes
                BY <1>0, <2>1 DEF TypeOK
            <4>2. n[1] \in Servers /\ (n[1] = s => n # Node(n[1]))
                BY <4>1 DEF Nodes, Node
            <4>3. QED
                BY <1>0, <1>5, <2>1, <4>1, <4>2 DEF Deregister, Exit, StaleNodeHasCause, TypeOK, Node
        <3>4. QED
            BY <3>1, <3>2, <3>3 DEF IInv
    <2>2. CASE Exit(s, "deregister_failed") /\ UNCHANGED registry
        BY <1>0, <1>5, <2>2, ExitIInv DEF Deregister, Endings, TypeOK
    <2>3. QED
        BY <1>5, <2>1, <2>2 DEF Deregister
<1>6. ASSUME NEW s \in Servers, Kill(s) PROVE IInv'
    BY <1>0, <1>6, ExitIInv DEF Kill, Endings, TypeOK
<1>7. CASE UNCHANGED vars
    BY <1>0, <1>7 DEF vars, IInv, TypeOK, RunningStarted, NodesFromPastStarts,
                      RegisteringUnlisted, StaleNodeHasCause, Node
<1>8. QED
    BY <1>1, <1>2, <1>3, <1>4, <1>5, <1>6, <1>7 DEF Next

(***************************************************************************)
(* For every set of server scripts and every number of starts, with any   *)
(* kills, bind failures and unreachable registries: every node the sidecar *)
(* lists is the current node of a running registered process, or was left *)
(* by a start that ended without a successful DELETE.                     *)
(***************************************************************************)
THEOREM StaleNodesExplained == Spec => []StaleNodeHasCause
<1>1. Spec => []IInv
    BY InitIInv, NextIInv, PTL DEF Spec
<1>2. QED
    BY <1>1, PTL DEF IInv

(***************************************************************************)
(* For every set of server scripts and every number of starts: each       *)
(* process is at a point of its script, starts stay within MaxLaunches,    *)
(* the registry lists only node ids some start drew, one process or none   *)
(* holds port 4000, and each recorded ending names such a node.            *)
(***************************************************************************)
THEOREM RegistrationTypeCorrect == Spec => []TypeOK
<1>1. Spec => []IInv
    BY InitIInv, NextIInv, PTL DEF Spec
<1>2. QED
    BY <1>1, PTL DEF IInv

=============================================================================
