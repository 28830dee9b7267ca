----------------------------- MODULE SyncAgent -----------------------------
(***************************************************************************)
(* One request to POST /query: run_agent of app/agents/orchestrator.py.    *)
(* The plan is made once, by the LLM or the rules, and its steps run one   *)
(* after the other. Nothing is caught on the way: what a tool raises, the  *)
(* 403 of a write without a role and the 400 of a write without an issue   *)
(* all end the request where they happen.                                  *)
(***************************************************************************)
EXTENDS RulePlanner, Naturals

CONSTANTS
    Queries,
    RoleSets,
    LlmTools,       \* the tools that an LLM plan can hold
    MaxPlan,        \* bound: steps of an LLM plan
    KeyConfigured,  \* the plan may be the LLM's
    ToolsMayFail,   \* a tool, or the LLM in the answer, may raise
    RedisMayFail    \* the session event may not be stored

Roles == {"support_user", "sales_user", "admin"}

ASSUME SyncAssumption ==
    /\ Queries \subseteq QueryTypes
    /\ RoleSets \subseteq SUBSET Roles
    /\ LlmTools \subseteq Tools
    /\ MaxPlan \in Nat
    /\ {KeyConfigured, ToolsMayFail, RedisMayFail} \subseteq BOOLEAN

VARIABLES
    request,    \* query and roles; never changes
    pc,         \* the part of run_agent about to run, or how it ended
    todo,       \* the plan's steps not yet run
    customer,   \* customer_name
    issues,     \* the customer whose issues are loaded; NoName: empty list
    profile,    \* the customer whose profile is set; NoName: none
    allIssues,  \* all_issues is not empty
    resolved,   \* search_resolved
    followed,   \* history: the follow-up after a search has run
    writes,     \* database writes, per tool
    recorded    \* the session event is stored

work == <<customer, issues, profile, allIssues, resolved, followed>>
syncVars == <<request, pc, todo, work, writes, recorded>>

Ended == {"answered", "blocked", "forbidden", "bad_request", "failed"}

WriteRoles == [tool \in WriteTools |-> {"support_user", "admin"}]

\* Fault: the role is asked of the first write tool of the registry only.
MayWriteRegistered(tool) ==
    tool = "recommend_next_action" => request.roles \cap WriteRoles[tool] # {}

\* require_role
MayWrite(tool) == request.roles \cap WriteRoles[tool] # {}

SyncTypeOK ==
    /\ request \in [query: Queries, roles: RoleSets]
    /\ pc \in {"guard", "plan", "tools", "follow_up", "follow_up_issues", "answer"} \cup Ended
    /\ todo \in Seq(Tools)
    /\ {customer, issues, profile} \subseteq CustomerNames
    /\ {allIssues, resolved, followed, recorded} \subseteq BOOLEAN
    /\ writes \in [WriteTools -> Nat]

SyncInit ==
    /\ request \in [query: Queries, roles: RoleSets]
    /\ pc = "guard"
    /\ todo = <<>>
    /\ customer = NoName
    /\ issues = NoName
    /\ profile = NoName
    /\ allIssues = FALSE
    /\ resolved = FALSE
    /\ followed = FALSE
    /\ writes = [t \in WriteTools |-> 0]
    /\ recorded = FALSE

-----------------------------------------------------------------------------

CheckPrompt ==
    /\ pc = "guard"
    /\ pc' = IF request.query.blocked THEN "blocked" ELSE "plan"
    /\ UNCHANGED <<request, todo, work, writes, recorded>>

\* build_llm_plan replaces the plan of a cross-customer query, and one for a
\* customer that a query without a capitalised name does not mention.
Overridden(name) ==
    \/ request.query.cross
    \/ /\ name \notin {NoName, request.query.preName, request.query.planName}
       /\ ~request.query.capitalised

\* Any plan the LLM can return; its steps do not carry the arguments that
\* run_agent uses.
LlmPlans ==
    {IF Overridden(name) THEN Plan(NoName, <<"list_all_open_issues">>) ELSE Plan(name, steps) :
        name \in CustomerNames, steps \in UNION {[1..n -> LlmTools] : n \in 0..MaxPlan}}

\* build_plan: the rules plan when there is no key or the LLM call raises.
MakePlan ==
    /\ pc = "plan"
    /\ \E plan \in {BuildRulePlan(request.query)}
                        \cup (IF KeyConfigured THEN LlmPlans ELSE {}) :
        /\ todo' = plan.steps
        /\ customer' = plan.customer
    /\ pc' = "tools"
    /\ UNCHANGED <<request, issues, profile, allIssues, resolved, followed,
                   writes, recorded>>

-----------------------------------------------------------------------------
(* The tool loop *)

Running(tool) == pc = "tools" /\ todo # <<>> /\ Head(todo) = tool

Done == todo' = Tail(todo) /\ pc' = "tools"

SearchCustomers ==
    /\ Running("search_customers")
    /\ \/ UNCHANGED work
       \/ /\ \E name \in Names : Directory[name].exact /\ customer' = name
          /\ resolved' = TRUE
          /\ UNCHANGED <<issues, profile, allIssues, followed>>
    /\ Done
    /\ UNCHANGED <<request, writes, recorded>>

ListAllOpenIssues ==
    /\ Running("list_all_open_issues")
    /\ allIssues' \in BOOLEAN
    /\ Done
    /\ UNCHANGED <<request, customer, issues, profile, resolved, followed,
                   writes, recorded>>

\* Fault: the row that says access is restricted is taken for an issue.
LookedUpRaw == Resolved(customer) \cup {NoName, "restricted"}

\* Fault: a tool that finds nothing leaves what was fetched before it.
LookedUpOrKept == Resolved(customer) \cup {NoName, issues}

\* What a per-customer tool may find: a customer that the name resolves to, or
\* nothing, as when row-level security hides its issues.
LookedUp == Resolved(customer) \cup {NoName}

GetCustomerProfile ==
    /\ Running("get_customer_profile")
    /\ profile' \in LookedUp
    /\ Done
    /\ UNCHANGED <<request, customer, issues, allIssues, resolved, followed,
                   writes, recorded>>

GetOpenIssues ==
    /\ Running("get_open_issues")
    /\ issues' \in LookedUp
    /\ Done
    /\ UNCHANGED <<request, customer, profile, allIssues, resolved, followed,
                   writes, recorded>>

\* get_issue_history, skipped without an issue, and semantic_search_issues
\* leave nothing that later steps read.
ReadOnly ==
    /\ Running("get_issue_history") \/ Running("semantic_search_issues")
    /\ Done
    /\ UNCHANGED <<request, work, writes, recorded>>

SomeIssue == issues # NoName

\* The role is checked before the issue, and both before the write. An invalid
\* status writes nothing.
RunWriteTool(tool) ==
    /\ Running(tool)
    /\ MayWrite(tool)
    /\ SomeIssue
    /\ \/ writes' = [writes EXCEPT ![tool] = @ + 1]
       \/ tool = "update_issue_status" /\ UNCHANGED writes
    /\ Done
    /\ UNCHANGED <<request, work, recorded>>

Forbid(tool) ==
    /\ Running(tool)
    /\ ~MayWrite(tool)
    /\ pc' = "forbidden"
    /\ UNCHANGED <<request, todo, work, writes, recorded>>

RefuseWithoutIssue(tool) ==
    /\ Running(tool)
    /\ MayWrite(tool)
    /\ ~SomeIssue
    /\ pc' = "bad_request"
    /\ UNCHANGED <<request, todo, work, writes, recorded>>

\* After the loop: a search that found its one customer is followed up when no
\* step has fetched that customer.
EndTools ==
    /\ pc = "tools"
    /\ todo = <<>>
    /\ pc' = IF resolved /\ profile = NoName /\ ~allIssues THEN "follow_up" ELSE "answer"
    /\ UNCHANGED <<request, todo, work, writes, recorded>>

FollowUpProfile ==
    /\ pc = "follow_up"
    /\ profile' \in LookedUp
    /\ pc' = "follow_up_issues"
    /\ UNCHANGED <<request, todo, customer, issues, allIssues, resolved, followed,
                   writes, recorded>>

FollowUpIssues ==
    /\ pc = "follow_up_issues"
    /\ issues' \in LookedUp
    /\ followed' = TRUE
    /\ pc' = "answer"
    /\ UNCHANGED <<request, todo, customer, profile, allIssues, resolved,
                   writes, recorded>>

-----------------------------------------------------------------------------

\* The risk agent, the answer and then the session event, whose errors
\* append_session_event swallows.
Answer ==
    /\ pc = "answer"
    /\ recorded' = TRUE \/ (RedisMayFail /\ UNCHANGED recorded)
    /\ pc' = "answered"
    /\ UNCHANGED <<request, todo, work, writes>>

Fail ==
    /\ ToolsMayFail
    /\ pc \notin {"guard", "plan"} \cup Ended
    /\ pc' = "failed"
    /\ UNCHANGED <<request, todo, work, writes, recorded>>

Stop == pc \in Ended /\ UNCHANGED syncVars

RunTool ==
    \/ SearchCustomers
    \/ ListAllOpenIssues
    \/ GetCustomerProfile
    \/ GetOpenIssues
    \/ ReadOnly
    \/ \E tool \in WriteTools :
        RunWriteTool(tool) \/ Forbid(tool) \/ RefuseWithoutIssue(tool)

SyncNext ==
    \/ CheckPrompt
    \/ MakePlan
    \/ RunTool
    \/ EndTools
    \/ FollowUpProfile
    \/ FollowUpIssues
    \/ Answer
    \/ Fail
    \/ Stop

SyncSpec == SyncInit /\ [][SyncNext]_syncVars

-----------------------------------------------------------------------------
(* Properties *)

\* The issues and the profile that an answer rests on are of the customer it
\* names, whatever order the plan searched and fetched in. The follow-up sees to
\* that after a search, but is skipped when a step has fetched a profile or all
\* issues: only a plan that holds a search and such a step can mix two customers.
AnswerOnCustomer ==
    pc = "answered" =>
        \/ {issues, profile} \subseteq Resolved(customer) \cup {NoName}
        \/ resolved /\ ~followed /\ (profile # NoName \/ allIssues)

\* The contract of one request.
ContractStatus ==
    CASE pc = "answered"                   -> "answered"
      [] pc \in {"failed", "bad_request"}  -> "lost"
      [] pc \in {"blocked", "forbidden"}   -> "declined"
      [] OTHER                             -> "open"

Contract == INSTANCE RequestContract WITH
                Kinds    <- WriteTools,
                allowed  <- {t \in WriteTools : request.roles \cap WriteRoles[t] # {}},
                lossy    <- RedisMayFail,
                status   <- ContractStatus,
                changes  <- writes,
                recorded <- recorded

ImplementsContract == Contract!ContractSpec

=============================================================================
