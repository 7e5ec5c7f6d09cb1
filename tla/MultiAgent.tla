----------------------------- MODULE MultiAgent -----------------------------
(***************************************************************************)
(* The multi-agent example (examples/multi_agent.py) driving one           *)
(* GoMicroToolkit while the gateway may redeploy.  The script is one       *)
(* thread, Agent, of Toolkit: it calls get_tools once per entry of        *)
(* Selections (service_filter="users", then "blog"), each result becoming *)
(* one agent's tools, and then the agents' runs call tools, at most        *)
(* MaxCalls times in all.  Any exception a toolkit operation raises is     *)
(* uncaught and ends main().  The LLM's choice of tool and arguments is    *)
(* the nondeterministic argument of call_tool.                             *)
(***************************************************************************)
EXTENDS Toolkit

CONSTANTS
    Agent,        \* the script's thread
    Selections,   \* the get_tools filters, in the order main() applies them
    MaxCalls      \* tool calls made by the agents' runs

ASSUME AgentAssumption == Threads = {Agent}
ASSUME SelectionsAssumption == Selections \in Seq(Filters) /\ Len(Selections) > 0
ASSUME MaxCallsAssumption == MaxCalls \in Nat

VARIABLES
    stage,   \* "select" (building agents), "run", "done" or "crashed"
    got,     \* got[i]: the snapshot the i-th get_tools read
    calls    \* tool calls started so far

scriptVars == <<stage, got, calls>>
allVars == <<vars, scriptVars>>

MAInit ==
    /\ Init
    /\ stage = "select"
    /\ got = <<>>
    /\ calls = 0

(***************************************************************************)
(* What main() does when the toolkit operation it is in returns: a raised  *)
(* exception ends the script; a get_tools result becomes the next agent's  *)
(* tools, the last one starting the runs; the runs end after MaxCalls.     *)
(***************************************************************************)
Advance ==
    IF pc'[Agent] # "idle" THEN UNCHANGED <<stage, got>>
    ELSE IF res'[Agent].kind # "ok" THEN stage' = "crashed" /\ UNCHANGED got
    ELSE IF stage = "select"
         THEN /\ got' = Append(got, res'[Agent].snap)
              /\ stage' = IF Len(got') = Len(Selections) THEN "run" ELSE "select"
         ELSE /\ stage' = IF calls' = MaxCalls THEN "done" ELSE "run"
              /\ UNCHANGED got

\* toolkit.get_tools(service_filter=...) for the next agent.
SelectTools ==
    /\ stage = "select"
    /\ StartGet(Agent, Selections[Len(got) + 1])
    /\ UNCHANGED calls
    /\ Advance

\* An agent's run picks a tool and calls it (tool_func -> call_tool).
RunTool ==
    /\ stage = "run"
    /\ calls < MaxCalls
    /\ \E a \in {"valid", "malformed"} : StartCall(Agent, a)
    /\ calls' = calls + 1
    /\ Advance

\* The rest of the toolkit operation main() is blocked in.
Proceed ==
    /\ \/ Respond(Agent) \/ DiscoveryFailed(Agent) \/ DiscoveryFetched(Agent)
       \/ CompleteCall(Agent) \/ Return(Agent)
    /\ UNCHANGED calls
    /\ Advance

MANext ==
    \/ Deploy /\ UNCHANGED scriptVars
    \/ SelectTools
    \/ RunTool
    \/ Proceed

MASpec == MAInit /\ [][MANext]_allVars

-----------------------------------------------------------------------------
(***************************************************************************)
(* The agents split one catalog: the first get_tools populates the cache  *)
(* and the later ones re-read it without a request, so every agent's      *)
(* tools are selected from the same snapshot even when the gateway        *)
(* redeploys while the agents are being built.                            *)
(***************************************************************************)
AgentsShareSnapshot == \A i, j \in DOMAIN got : got[i] = got[j]

(***************************************************************************)
(* Every agent is built from a catalog the gateway has published: the      *)
(* first get_tools fetches before it filters, so `self._tools or []` never *)
(* hands an agent the empty list of a cache that was never populated.     *)
(***************************************************************************)
AgentsSeePublishedCatalog == \A i \in DOMAIN got : \E v \in 1..gv : got[i] = Catalog[v]

=============================================================================
