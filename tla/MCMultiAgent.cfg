\* multi_agent.py: two get_tools calls, then three tool calls, while the
\* gateway moves through three catalog versions.
CONSTANTS
    Agent = Agent
    Threads = {Agent}
    NoFilter = NoFilter
    NoSnapshot = NoSnapshot
    RetryCount = 3
    MaxCalls = 3
    Names <- MCNames
    Services <- MCServices
    Catalog <- MCCatalog
    Filters <- MCAgentFilters
    Selections <- MCSelections
SPECIFICATION MASpec
\* main() returns or raises, and then nothing runs any more.
CHECK_DEADLOCK FALSE
INVARIANTS
    AgentsShareSnapshot
    AgentsSeePublishedCatalog
