---------------------------- MODULE MCAgentGraph ----------------------------
(* Values of AgentGraph's constants for TLC. *)
EXTENDS AgentGraph, MCPlanner

MCRoleSets == {{"support_user"}, {"sales_user"}, {"admin", "sales_user"}}
MCTwoRoleSets == {{"support_user"}, {"sales_user"}}

MCTools == {"get_open_issues", "recommend_next_action", "search_customers"}
MCFewTools == {"get_open_issues", "recommend_next_action"}

\* Every branch of the rule planner, without a key.
MCRuleRequests ==
    [query: MCQueries, confirmed: {"none", "Apex"}, roles: MCRoleSets,
     key: {FALSE}, proposes: {{}}, faults: {{"node"}}]

\* A key that always works: the LLM's choices are the interesting part.
MCLlmRequests ==
    [query: MCFewQueries, confirmed: {"none", "Apex"}, roles: MCTwoRoleSets,
     key: {TRUE}, proposes: {MCTools}, faults: {{}}]

\* One query, with everything that may fail.
MCFailingRequests ==
    [query: MCOneQuery, confirmed: {"none"}, roles: MCTwoRoleSets,
     key: {TRUE}, proposes: {MCFewTools}, faults: {Faults}]

MCRequests == MCRuleRequests \cup MCLlmRequests \cup MCFailingRequests

\* An LLM that may raise, and nothing else that fails.
MCFallbackRequests == {[sent EXCEPT !.faults = {"llm"}] : sent \in MCFailingRequests}

=============================================================================
