----------------------------- MODULE AgentGraph -----------------------------
(***************************************************************************)
(* One request to POST /query/stream: run_agent_stream and the LangGraph   *)
(* loop of app/agents/graph_orchestrator.py,                               *)
(*                                                                         *)
(*   guard -> cache -> pre_flight -> think -> rbac_gate -> execute -+      *)
(*                                    ^  |                          |      *)
(*                                    |  +-> risk_assess -> answer  |      *)
(*                                    +-----------------------------+      *)
(*                                                                         *)
(* think asks the LLM for a batch of tools, or pops one step of a rule     *)
(* plan when there is no LLM or the call raises. execute runs the batch on *)
(* one thread per tool, all reading the state as it was before the batch.  *)
(*                                                                         *)
(* Left out: texts, tool outputs, the trace written to Redis and the RLS   *)
(* note. The steps list is kept as a bag (how many steps each tool left),  *)
(* which is all that called_tools and the properties read.                 *)
(*                                                                         *)
(* A definition whose comment begins with "Fault:" is not part of the      *)
(* specification: it is a faulty variant of the definition that follows,   *)
(* with which a property must fail.                                        *)
(***************************************************************************)
EXTENDS RulePlanner, Naturals

CONSTANTS
    Requests,        \* the requests, each with what may fail while it runs
    MaxBatch,        \* bound: tools in one LLM batch
    RecursionLimit,  \* LangGraph's bound on supersteps
    NotBuilt         \* plan_queue = None

MAX_ITERATIONS == 6

Roles == {"support_user", "sales_user", "admin"}

\* What may fail in the deployment that serves a request:
\*   llm    an LLM call may raise, which falls back to the rules
\*   audit  the insert into write_audit may fail
\*   node   a lookup outside any try block may raise
\*   redis  the session event may not be stored
Faults == {"llm", "audit", "node", "redis"}

\* confirmed is the confirmed_customer that is sent, key whether OPENAI_API_KEY
\* is set, and proposes the tools that the LLM may ask for.
RequestTypes ==
    [query: QueryTypes, confirmed: CustomerNames, roles: SUBSET Roles,
     key: BOOLEAN, proposes: SUBSET Tools, faults: SUBSET Faults]

ASSUME AgentAssumption ==
    /\ Requests \subseteq RequestTypes
    /\ MaxBatch \in Nat \ {0}
    /\ RecursionLimit \in Nat
    /\ NotBuilt \notin Seq(Tools)

VARIABLES
    request,     \* the request served; never changes
    pc,          \* the node about to run, or how the request ended
    supersteps,  \* nodes LangGraph has run
    iteration,
    customer,    \* customer_name
    issues,      \* the customer whose issues are loaded; NoName: empty list
    profile,     \* the customer whose profile is set; NoName: none
    steps,       \* how many entries of steps each tool has left
    nextTools,   \* next_tools
    nextTool,    \* next_tool
    planQueue,   \* plan_queue
    workers,     \* the threads of the batch being executed
    audited,     \* rows of write_audit, per tool
    writes,      \* database writes, per tool
    recorded     \* the session event is stored

graph == <<supersteps, iteration, customer, issues, profile, steps,
           nextTools, nextTool, planQueue>>
vars == <<request, pc, graph, workers, audited, writes, recorded>>

-----------------------------------------------------------------------------
(* State *)

Ended == {"rejected", "cached", "disambiguation", "refused",
          "answered", "aborted", "disconnected"}
Nodes == {"pre_flight", "think", "rbac_gate", "execute", "risk_assess"}
Places == {"guard", "cache_lookup", "running", "answer"} \cup Nodes \cup Ended

\* What the LLM can ask for in one call: next_tools is never left empty.
Batches(tools) == UNION {[1..n -> tools \cup {"done"}] : n \in 1..MaxBatch}

\* key names the part of the state a tool's result replaces, val the customer
\* the part is then about; step is whether the tool left an entry in steps.
Workers == [stage: {"start", "audited", "finished"}, step: BOOLEAN,
            key: {"none", "profile", "issues", "customer"}, val: CustomerNames]

Worker(stage, step, key, val) ==
    [stage |-> stage, step |-> step, key |-> key, val |-> val]

NewWorker == Worker("start", FALSE, "none", NoName)

WriteToolRegistry == [tool \in WriteTools |-> {"support_user", "admin"}]

MayFail(part) == part \in request.faults

MayWrite(tool) == request.roles \cap WriteToolRegistry[tool] # {}

TypeOK ==
    /\ request \in Requests
    /\ pc \in Places
    /\ supersteps \in Nat
    /\ iteration \in Nat
    /\ customer \in CustomerNames
    /\ issues \in CustomerNames
    /\ profile \in CustomerNames
    /\ steps \in [Tools -> Nat]
    /\ nextTools \in Batches(Tools) \cup {<<>>}
    /\ nextTool \in Tools \cup {"", "done"}
    /\ planQueue \in Seq(Tools) \cup {NotBuilt}
    /\ workers \in UNION {[S -> Workers] : S \in SUBSET (1..MaxBatch)}
    /\ audited \in [WriteTools -> Nat]
    /\ writes \in [WriteTools -> Nat]
    /\ recorded \in BOOLEAN

Init ==
    /\ request \in Requests
    /\ pc = "guard"
    /\ supersteps = 0
    /\ iteration = 0
    /\ customer = NoName
    /\ issues = NoName
    /\ profile = NoName
    /\ steps = [t \in Tools |-> 0]
    /\ nextTools = <<>>
    /\ nextTool = ""
    /\ planQueue = NotBuilt
    /\ workers = <<>>
    /\ audited = [t \in WriteTools |-> 0]
    /\ writes = [t \in WriteTools |-> 0]
    /\ recorded = FALSE

-----------------------------------------------------------------------------
(* Before the graph *)

CheckPrompt ==
    /\ pc = "guard"
    /\ pc' = IF request.query.blocked THEN "rejected" ELSE "cache_lookup"
    /\ UNCHANGED <<request, graph, workers, audited, writes, recorded>>

\* The cache is skipped when the caller confirms a customer. What it holds
\* is another module's matter: here a lookup may hit or miss.
CacheLookup ==
    /\ pc = "cache_lookup"
    /\ \/ pc' = "pre_flight"
       \/ request.confirmed = NoName /\ pc' = "cached"
    /\ UNCHANGED <<request, graph, workers, audited, writes, recorded>>

\* Fault: a run without the recursion limit's count.
RunNodeUncounted(node) ==
    /\ pc = node
    /\ UNCHANGED supersteps

\* LangGraph counts each node it runs and runs none beyond its limit.
RunNode(node) ==
    /\ pc = node
    /\ supersteps < RecursionLimit
    /\ supersteps' = supersteps + 1

\* _pre_flight, and the stream's early return on its matches.
PreFlight ==
    LET name == request.query.preName IN
    /\ RunNode("pre_flight")
    /\ \/ /\ request.confirmed # NoName
          /\ customer' = request.confirmed
          /\ pc' = "think"
       \/ /\ request.confirmed = NoName
          /\ name = NoName \/ (name # NoName /\ Directory[name].matches = {})
          /\ customer' = NoName
          /\ pc' = "think"
       \/ /\ request.confirmed = NoName
          /\ name # NoName
          /\ Directory[name].exact
          /\ customer' \in Directory[name].matches
          /\ pc' = "think"
       \/ /\ request.confirmed = NoName
          /\ name # NoName
          /\ Directory[name].matches # {}
          /\ ~Directory[name].exact
          /\ customer' = name
          /\ pc' = "disambiguation"
    /\ UNCHANGED <<request, iteration, issues, profile, steps, nextTools,
                   nextTool, planQueue, workers, audited, writes, recorded>>

-----------------------------------------------------------------------------
(* Think *)

\* Fault: the bound is compared with > instead of >=.
AfterThinkOneMore(tools, tool, n) ==
    LET done == IF tools # <<>> THEN \A i \in DOMAIN tools : tools[i] = "done"
                                ELSE tool = "done"
    IN  IF done \/ n > MAX_ITERATIONS THEN "risk_assess" ELSE "rbac_gate"

\* Fault: half the iterations.
AfterThinkStopsShort(tools, tool, n) ==
    LET done == IF tools # <<>> THEN \A i \in DOMAIN tools : tools[i] = "done"
                                ELSE tool = "done"
    IN  IF done \/ n >= MAX_ITERATIONS \div 2 THEN "risk_assess" ELSE "rbac_gate"

\* _after_think: a non-empty next_tools decides alone, next_tool otherwise.
AfterThink(tools, tool, n) ==
    LET done == IF tools # <<>> THEN \A i \in DOMAIN tools : tools[i] = "done"
                                ELSE tool = "done"
    IN  IF done \/ n >= MAX_ITERATIONS THEN "risk_assess" ELSE "rbac_gate"

\* Fault: called tools are not remembered.
CalledNever(tool) == FALSE

Called(tool) == tool # "done" /\ steps[tool] > 0

\* _think_llm when the call succeeds. Tools already called are dropped from
\* the batch, and a batch with nothing left becomes <<"done">>: any batch of
\* uncalled tools can come out, and only those.
ThinkLlm ==
    /\ request.key
    /\ RunNode("think")
    /\ \E batch \in Batches(request.proposes) :
        /\ \A i \in DOMAIN batch : ~Called(batch[i])
        /\ nextTools' = batch
        /\ nextTool' = batch[1]
    /\ iteration' = iteration + 1
    /\ pc' = AfterThink(nextTools', nextTool', iteration')
    /\ UNCHANGED <<request, customer, issues, profile, steps, planQueue,
                   workers, audited, writes, recorded>>

Rest(queue) == Tail(queue)

\* _think_rule, alone or after _think_llm raised. The first call builds the
\* plan and takes the customer name from it. No call touches next_tools, and
\* the call that finds the queue empty leaves the iteration count alone.
ThinkRule ==
    LET build == planQueue = NotBuilt
        plan  == BuildRulePlan(request.query)
        queue == IF build THEN plan.steps ELSE planQueue
    IN
    /\ ~request.key \/ MayFail("llm")
    /\ RunNode("think")
    /\ customer' = IF build THEN plan.customer ELSE customer
    /\ \/ /\ queue # <<>>
          /\ nextTool' = Head(queue)
          /\ planQueue' = Rest(queue)
          /\ iteration' = iteration + 1
       \/ /\ queue = <<>>
          /\ nextTool' = "done"
          /\ planQueue' = <<>>
          /\ UNCHANGED iteration
    /\ pc' = AfterThink(nextTools, nextTool', iteration')
    /\ UNCHANGED <<request, issues, profile, steps, nextTools,
                   workers, audited, writes, recorded>>

-----------------------------------------------------------------------------
(* Gate and execution *)

\* The tools the gate checks and execute runs: next_tools, or next_tool alone.
Requested == IF nextTools # <<>> THEN nextTools ELSE <<nextTool>>

\* Fault: only the first tool of a batch is checked.
RefusedByFirst == nextTool \in WriteTools /\ ~MayWrite(nextTool)

\* Fault: only the LLM's batches are checked.
RefusedInBatch ==
    \E i \in DOMAIN nextTools : nextTools[i] \in WriteTools /\ ~MayWrite(nextTools[i])

Refused ==
    \E i \in DOMAIN Requested : Requested[i] \in WriteTools /\ ~MayWrite(Requested[i])

RbacGate ==
    /\ RunNode("rbac_gate")
    /\ pc' = IF Refused THEN "refused" ELSE "execute"
    /\ UNCHANGED <<request, iteration, customer, issues, profile, steps, nextTools,
                   nextTool, planQueue, workers, audited, writes, recorded>>

\* _execute hands every requested tool but "done" to a thread of its own.
Submit ==
    /\ RunNode("execute")
    /\ pc' = "running"
    /\ workers' = [i \in {j \in DOMAIN Requested : Requested[j] # "done"} |-> NewWorker]
    /\ UNCHANGED <<request, iteration, customer, issues, profile, steps, nextTools,
                   nextTool, planQueue, audited, writes, recorded>>

Finish(i, step, key, val) ==
    workers' = [workers EXCEPT ![i] = Worker("finished", step, key, val)]

\* Fault: one audit row stands for all the request's uses of a tool.
AuditOncePerRequest(i) ==
    /\ pc = "running"
    /\ workers[i].stage = "start"
    /\ Requested[i] \in WriteTools
    /\ issues # NoName
    /\ audited' = [audited EXCEPT ![Requested[i]] = 1]
    /\ workers' = [workers EXCEPT ![i].stage = "audited"]
    /\ UNCHANGED <<request, pc, graph, writes, recorded>>

\* Fault: the audit goes to Redis only.
AuditInRedis(i) ==
    /\ pc = "running"
    /\ workers[i].stage = "start"
    /\ Requested[i] \in WriteTools
    /\ issues # NoName
    /\ workers' = [workers EXCEPT ![i].stage = "audited"]
    /\ UNCHANGED <<request, pc, graph, audited, writes, recorded>>

\* Fault: the test that an issue is loaded is gone.
AuditWithoutIssue(i) ==
    /\ pc = "running"
    /\ workers[i].stage = "start"
    /\ Requested[i] \in WriteTools
    /\ audited' = [audited EXCEPT ![Requested[i]] = @ + 1]
    /\ workers' = [workers EXCEPT ![i].stage = "audited"]
    /\ UNCHANGED <<request, pc, graph, writes, recorded>>

\* _audit_write, on the write tools' own branch and before the tool. Its two
\* stores swallow their errors; the row counted is PostgreSQL's.
AuditWrite(i) ==
    /\ pc = "running"
    /\ workers[i].stage = "start"
    /\ Requested[i] \in WriteTools
    /\ issues # NoName
    /\ \/ audited' = [audited EXCEPT ![Requested[i]] = @ + 1]
       \/ MayFail("audit") /\ UNCHANGED audited
    /\ workers' = [workers EXCEPT ![i].stage = "audited"]
    /\ UNCHANGED <<request, pc, graph, writes, recorded>>

\* recommend_next_action and update_issue_status. The tool writes; or it
\* returns or raises without having written (an invalid status, an error).
RunWriteTool(i) ==
    /\ pc = "running"
    /\ workers[i].stage = "audited"
    /\ \/ writes' = [writes EXCEPT ![Requested[i]] = @ + 1]
       \/ UNCHANGED writes
    /\ Finish(i, TRUE, "none", NoName)
    /\ UNCHANGED <<request, pc, graph, audited, recorded>>

\* Tools that work on the primary issue do nothing when no issue is loaded,
\* and leave no step.
NeedsIssue(tool) == tool \in WriteTools \cup {"get_issue_history"}

SkipTool(i) ==
    /\ pc = "running"
    /\ workers[i].stage = "start"
    /\ NeedsIssue(Requested[i])
    /\ issues = NoName
    /\ Finish(i, FALSE, "none", NoName)
    /\ UNCHANGED <<request, pc, graph, audited, writes, recorded>>

\* Fault: the tools look the confirmed customer up, the state keeps another.
LookedUpConfirmed ==
    Resolved(IF request.confirmed # NoName THEN request.confirmed ELSE customer)
        \cup {NoName}

\* What per-customer tools may find: a customer that the state's name resolves
\* to, whatever name the LLM passes as an argument, or nothing.
LookedUp == Resolved(customer) \cup {NoName}

\* The read tools. Any of them may raise; a profile or issues not found replace
\* what was loaded before.
RunReadTool(i) ==
    /\ pc = "running"
    /\ workers[i].stage = "start"
    /\ Requested[i] \in ReadTools
    /\ NeedsIssue(Requested[i]) => issues # NoName
    /\ \/ Finish(i, TRUE, "none", NoName)
       \/ /\ Requested[i] = "get_customer_profile"
          /\ \E found \in LookedUp : Finish(i, TRUE, "profile", found)
       \/ /\ Requested[i] = "get_open_issues"
          /\ \E found \in LookedUp : Finish(i, TRUE, "issues", found)
       \/ /\ Requested[i] = "search_customers"
          /\ \E resolved \in Names :
                /\ Directory[resolved].exact
                /\ Finish(i, TRUE, "customer", resolved)
    /\ UNCHANGED <<request, pc, graph, audited, writes, recorded>>

\* The workers whose result replaces a part of the state; results are merged
\* in batch order, so the last of them decides.
Wrote(key) == {i \in DOMAIN workers : workers[i].key = key}

\* Fault: the key of a result is stored in place of its value.
MergeResult(key, old, new) ==
    \/ Wrote(key) = {} /\ new = old
    \/ \E last \in Wrote(key) :
          /\ \A i \in Wrote(key) : i <= last
          /\ new = workers[last].key

Merge(key, old, new) ==
    \/ Wrote(key) = {} /\ new = old
    \/ \E last \in Wrote(key) :
          /\ \A i \in Wrote(key) : i <= last
          /\ new = workers[last].val

StepsLeft(tool) == {i \in DOMAIN workers : workers[i].step /\ Requested[i] = tool}

\* The end of _execute. A follow-up plan that search_customers returns is not
\* among the parts merged.
Join ==
    /\ pc = "running"
    /\ \A i \in DOMAIN workers : workers[i].stage = "finished"
    /\ Merge("customer", customer, customer')
    /\ Merge("issues", issues, issues')
    /\ Merge("profile", profile, profile')
    /\ steps' = [t \in Tools |-> steps[t] + Cardinality(StepsLeft(t))]
    /\ workers' = <<>>
    /\ pc' = "think"
    /\ UNCHANGED <<request, supersteps, iteration, nextTools, nextTool, planQueue,
                   audited, writes, recorded>>

-----------------------------------------------------------------------------
(* After the loop *)

\* Fault: the session event is appended before the answer is streamed.
RiskAssessRecords ==
    /\ RunNode("risk_assess")
    /\ pc' = "answer"
    /\ recorded' = TRUE
    /\ UNCHANGED <<request, iteration, customer, issues, profile, steps, nextTools,
                   nextTool, planQueue, workers, audited, writes>>

RiskAssess ==
    /\ RunNode("risk_assess")
    /\ pc' = "answer"
    /\ UNCHANGED <<request, iteration, customer, issues, profile, steps, nextTools,
                   nextTool, planQueue, workers, audited, writes, recorded>>

\* The planning summary and the answer are streamed, then the event is
\* appended to the session, the answer cached and the memories extracted.
\* append_session_event swallows the errors of Redis.
Record ==
    /\ pc = "answer"
    /\ \/ recorded' = TRUE
       \/ MayFail("redis") /\ UNCHANGED recorded
    /\ pc' = "answered"
    /\ UNCHANGED <<request, graph, workers, audited, writes>>

\* The client goes while an event is being yielded: the generator is closed
\* there and nothing after it runs. Events are yielded after each think, after
\* a batch that left a step, and after the risk assessment.
ClientGone ==
    /\ \/ pc \in {"rbac_gate", "risk_assess", "answer"}
       \/ pc = "think" /\ \E t \in Tools : steps[t] > 0
    /\ pc' = "disconnected"
    /\ UNCHANGED <<request, graph, workers, audited, writes, recorded>>

\* A node raises outside any try block, or LangGraph's limit is reached.
Abort ==
    /\ \/ MayFail("node") /\ pc \in {"pre_flight", "think"}
       \/ pc \in Nodes /\ supersteps >= RecursionLimit
    /\ pc' = "aborted"
    /\ UNCHANGED <<request, graph, workers, audited, writes, recorded>>

Stop == pc \in Ended /\ UNCHANGED vars

-----------------------------------------------------------------------------

RunWorker(i) == AuditWrite(i) \/ RunWriteTool(i) \/ SkipTool(i) \/ RunReadTool(i)

Agent ==
    \/ CheckPrompt
    \/ CacheLookup
    \/ PreFlight
    \/ ThinkLlm
    \/ ThinkRule
    \/ RbacGate
    \/ Submit
    \/ \E i \in DOMAIN workers : RunWorker(i)
    \/ Join
    \/ RiskAssess
    \/ Record
    \/ Abort

Next == Agent \/ ClientGone \/ Stop

Spec == Init /\ [][Next]_vars

\* The generator runs as long as its client reads, and every LLM and database
\* call returns or raises (both have timeouts); the client may go at any time.
FairSpec == Spec /\ WF_vars(Agent)

-----------------------------------------------------------------------------
(* Properties *)

\* No tool changes the database for a user whose roles do not allow it,
\* whatever path chose the tool: the LLM, a rule plan or a batch left over
\* from an earlier iteration. (_rbac_gate and _execute pick their tools
\* separately.)
WritesAuthorised == \A t \in WriteTools : writes[t] + audited[t] > 0 => MayWrite(t)

\* As long as PostgreSQL takes the audit rows, every write has one of its own,
\* at every moment of a parallel batch.
WritesAudited == MayFail("audit") \/ \A t \in WriteTools : writes[t] <= audited[t]

\* A write tool reaches the database only after get_open_issues has run: the
\* planner's "Requires get_open_issues first".
WritesNeedIssues ==
    \A t \in WriteTools : writes[t] > 0 => steps["get_open_issues"] > 0

\* The iteration count stays within its bound although nothing but
\* _after_think compares it, and the last think's tools are not run. As long as
\* no LLM call raises, the bound also bounds the work, with the thinks that are
\* not counted: the loop ends after so many nodes (LangGraph's own limit is
\* more). A call that raises after a batch leads to thinks on an empty queue
\* that are not counted and run the batch again, up to LangGraph's limit.
IterationBounded ==
    /\ iteration <= MAX_ITERATIONS
    /\ pc \in {"rbac_gate", "execute", "running"} => iteration < MAX_ITERATIONS
    /\ MayFail("llm") \/ supersteps <= 3 * MAX_ITERATIONS

\* No tool of the batch that is submitted has left a step before.
SubmitsNewTools ==
    pc' = "running" /\ pc = "execute" =>
        \A i \in DOMAIN workers' : steps[Requested[i]] = 0

\* As long as no LLM call raises, no tool runs again once it has left a step
\* (the filter in _think_llm; the queue of _think_rule).
NoToolRepeated == [][MayFail("llm") \/ SubmitsNewTools]_vars

\* "Safety: drop tools already called this turn" (_think_llm), which the code
\* does not keep when an LLM call raises.
ToolsNeverRepeat == [][SubmitsNewTools]_vars

\* An answer made by the rules rests on the whole plan: every step of it ran,
\* except those that had no issue to work on.
RulePlanCompleted ==
    pc = "answered" /\ ~request.key =>
        \A i \in DOMAIN BuildRulePlan(request.query).steps :
            LET t == BuildRulePlan(request.query).steps[i] IN
            steps[t] = 1 \/ (NeedsIssue(t) /\ issues = NoName)

\* The issues and the profile at hand, from which history is read, writes are
\* made and risk is assessed, are of a customer that the state's name resolves to.
DataOfCustomer == {issues, profile} \subseteq Resolved(customer) \cup {NoName}

\* The data at hand and the customer named part only where a search of the LLM's
\* batch finds another customer, or where the rules take over from the LLM and
\* put the name in their plan; by the rules alone they never do.
DataFollowsCustomer ==
    [][DataOfCustomer /\ ~DataOfCustomer' =>
            /\ request.key
            /\ \/ pc = "running" /\ Wrote("customer") # {}
               \/ pc = "think" /\ planQueue = NotBuilt /\ planQueue' # NotBuilt]_vars

\* The contract of one request, which the graph implements.
ContractStatus ==
    CASE pc = "answered"                    -> "answered"
      [] pc \in {"aborted", "disconnected"} -> "lost"
      [] pc \in {"rejected", "cached", "disambiguation", "refused"} -> "declined"
      [] OTHER                              -> "open"

Contract == INSTANCE RequestContract WITH
                Kinds    <- WriteTools,
                allowed  <- {t \in WriteTools : MayWrite(t)},
                lossy    <- MayFail("redis"),
                status   <- ContractStatus,
                changes  <- writes,
                recorded <- recorded

ImplementsContract == Contract!ContractSpec

\* Every request ends: answered, refused, cut off or aborted.
Terminates == <>(pc \in Ended)

=============================================================================
