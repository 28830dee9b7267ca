-------------------------- MODULE AgentGraphProofs --------------------------
(***************************************************************************)
(* Theorems of AgentGraph, for every directory, set of queries, set of     *)
(* tools, batch size, recursion limit and combination of failures.         *)
(***************************************************************************)
EXTENDS AgentGraph, FiniteSetTheorems, SequenceTheorems, TLAPS

-----------------------------------------------------------------------------
(* Plans and batches *)

\* A rule plan names a known customer or none, and its steps are tools.
LEMMA RulePlanType ==
    ASSUME NEW q \in QueryTypes
    PROVE  /\ BuildRulePlan(q).customer \in CustomerNames
           /\ BuildRulePlan(q).steps \in Seq(Tools)
<1>1. CustomerSteps(q) \in Seq(Tools)
  <2>1. \A c \in BOOLEAN, t \in Tools : StepIf(c, t) \in Seq(Tools)
    BY DEF StepIf
  <2>2. \A W : Mentions(q, W) \in BOOLEAN
    BY DEF Mentions
  <2>3. {"get_customer_profile", "get_open_issues", "get_issue_history",
         "recommend_next_action"} \subseteq Tools
    BY DEF Tools, ReadTools, WriteTools
  <2>4. <<"get_customer_profile">> \in Seq(Tools)
    BY <2>3
  <2>5. /\ StepIf(Mentions(q, IssueWords), "get_open_issues") \in Seq(Tools)
        /\ StepIf(Mentions(q, HistoryWords), "get_issue_history") \in Seq(Tools)
        /\ StepIf(Mentions(q, ActionWords), "recommend_next_action") \in Seq(Tools)
    BY <2>1, <2>2, <2>3
  <2>6. QED
    BY <2>4, <2>5 DEF CustomerSteps
<1>2. q.planName \in CustomerNames
  BY DEF QueryTypes
<1>3. \A name \in CustomerNames, plan \in Seq(Tools) :
            /\ Plan(name, plan).customer \in CustomerNames
            /\ Plan(name, plan).steps \in Seq(Tools)
  BY DEF Plan
<1>4. \A t \in Tools : <<t>> \in Seq(Tools)
  OBVIOUS
<1>5. /\ NoName \in CustomerNames
      /\ {"semantic_search_issues", "list_all_open_issues", "search_customers"} \subseteq Tools
  BY DEF CustomerNames, Tools, ReadTools
<1>6. \E name \in CustomerNames, plan \in Seq(Tools) : BuildRulePlan(q) = Plan(name, plan)
  BY <1>1, <1>2, <1>4, <1>5 DEF BuildRulePlan
<1>7. QED
  BY <1>3, <1>6

\* The tools execute runs are tools, "done" or nothing.
LEMMA RequestedType ==
    ASSUME TypeOK
    PROVE  /\ DOMAIN Requested \subseteq 1..MaxBatch
           /\ \A i \in DOMAIN Requested : Requested[i] \in Tools \cup {"", "done"}
<1>1. CASE nextTools # <<>>
  <2>1. PICK n \in 1..MaxBatch : nextTools \in [1..n -> Tools \cup {"done"}]
    BY <1>1 DEF TypeOK, Batches
  <2>2. Requested = nextTools /\ DOMAIN nextTools = 1..n
    BY <1>1, <2>1 DEF Requested
  <2>3. 1..n \subseteq 1..MaxBatch
    BY AgentAssumption
  <2>4. \A i \in 1..n : nextTools[i] \in Tools \cup {"done"}
    BY <2>1
  <2>5. QED
    BY <2>2, <2>3, <2>4
<1>2. CASE nextTools = <<>>
  <2>1. Requested = <<nextTool>> /\ nextTool \in Tools \cup {"", "done"}
    BY <1>2 DEF TypeOK, Requested
  <2>2. \A tool : DOMAIN <<tool>> = {1} /\ <<tool>>[1] = tool
    OBVIOUS
  <2>3. DOMAIN Requested = {1} /\ Requested[1] = nextTool
    BY <2>1, <2>2, Zenon
  <2>4. 1 \in 1..MaxBatch
    BY AgentAssumption
  <2>5. QED
    BY <2>1, <2>3, <2>4
<1>3. QED
  BY <1>1, <1>2

-----------------------------------------------------------------------------
(* Type correctness *)

\* What the merge of a batch's results can store.
LEMMA MergeType ==
    ASSUME TypeOK, NEW key, NEW old \in CustomerNames, NEW new, Merge(key, old, new)
    PROVE  new \in CustomerNames
<1>1. PICK S \in SUBSET (1..MaxBatch) : workers \in [S -> Workers]
  BY DEF TypeOK
<1>2. \A i \in DOMAIN workers : workers[i].val \in CustomerNames
  BY <1>1 DEF Workers
<1>3. QED
  BY <1>2 DEF Merge, Wrote

\* Every worker record that Finish stores has the type of a worker.
LEMMA WorkersType ==
    ASSUME TypeOK, NEW i \in DOMAIN workers, NEW w \in Workers,
           workers' = [workers EXCEPT ![i] = w]
    PROVE  workers' \in UNION {[S -> Workers] : S \in SUBSET (1..MaxBatch)}
<1>1. PICK S \in SUBSET (1..MaxBatch) : workers \in [S -> Workers]
  BY DEF TypeOK
<1>2. workers' \in [S -> Workers]
  BY <1>1
<1>3. QED
  BY <1>2

LEMMA CustomerOfRequest ==
    ASSUME TypeOK
    PROVE  /\ request.confirmed \in CustomerNames
           /\ request.query \in QueryTypes
           /\ request.query.preName \in CustomerNames
BY AgentAssumption DEF TypeOK, RequestTypes, QueryTypes

\* A lookup gives a customer or nothing.
LEMMA LookedUpType ==
    ASSUME TypeOK PROVE LookedUp \subseteq CustomerNames
<1>1. \A n \in Names : Directory[n].matches \subseteq Names
  BY DirectoryAssumption DEF DirectoryAnswers
<1>2. KnownCustomers \subseteq Names
  BY <1>1 DEF KnownCustomers
<1>3. customer \in Names \/ customer = NoName
  BY DEF TypeOK, CustomerNames
<1>4. Resolved(customer) \subseteq Names
  BY <1>1, <1>2, <1>3 DEF Resolved
<1>5. QED
  BY <1>4 DEF LookedUp, CustomerNames

\* A node runs at its place and is counted.
LEMMA NodeRuns ==
    ASSUME TypeOK, NEW node, RunNode(node)
    PROVE  pc = node /\ supersteps' = supersteps + 1 /\ supersteps' \in Nat
<1>1. supersteps \in Nat
  BY DEF TypeOK
<1>2. QED
  BY <1>1 DEF RunNode

\* Where think leads.
LEMMA AfterThinkType ==
    ASSUME NEW tools, NEW tool, NEW n
    PROVE  AfterThink(tools, tool, n) \in {"risk_assess", "rbac_gate"}
BY DEF AfterThink

LEMMA PlacesOfNodes ==
    {"think", "disambiguation", "risk_assess", "rbac_gate", "refused", "execute",
     "running", "answer"} \subseteq Places
BY DEF Places, Nodes, Ended

LEMMA TypesOfCounters ==
    ASSUME TypeOK
    PROVE  /\ supersteps \in Nat
           /\ iteration \in Nat
           /\ audited \in [WriteTools -> Nat]
           /\ writes \in [WriteTools -> Nat]
           /\ steps \in [Tools -> Nat]
BY DEF TypeOK

\* The types of the state hold in every reachable state.
LEMMA TypeStep == TypeOK /\ [Next]_vars => TypeOK'
<1> SUFFICES ASSUME TypeOK, [Next]_vars PROVE TypeOK'
  OBVIOUS
<1> USE DEF graph
<1>1. CASE CheckPrompt
  BY <1>1 DEF CheckPrompt, TypeOK, Places, Ended, Nodes
<1>2. CASE CacheLookup
  BY <1>2 DEF CacheLookup, TypeOK, Places, Ended, Nodes
<1>3. CASE PreFlight
  <2>1. customer' \in CustomerNames
    BY <1>3, CustomerOfRequest, DirectoryAssumption
       DEF PreFlight, CustomerNames, DirectoryAnswers
  <2>2. pc' \in Places /\ supersteps' \in Nat
    BY <1>3, NodeRuns, PlacesOfNodes DEF PreFlight
  <2>3. QED
    BY <1>3, <2>1, <2>2 DEF PreFlight, TypeOK
<1>4. CASE ThinkLlm
  <2>1. PICK batch \in Batches(request.proposes) :
            nextTools' = batch /\ nextTool' = batch[1]
    BY <1>4 DEF ThinkLlm
  <2>2. request.proposes \subseteq Tools
    BY AgentAssumption DEF TypeOK, RequestTypes
  <2>3. PICK n \in 1..MaxBatch : batch \in [1..n -> request.proposes \cup {"done"}]
    BY <2>1 DEF Batches
  <2>4. batch \in [1..n -> Tools \cup {"done"}] /\ 1 \in 1..n
    BY <2>2, <2>3, AgentAssumption
  <2>5. nextTools' \in Batches(Tools)
    BY <2>1, <2>4 DEF Batches
  <2>6. nextTool' \in Tools \cup {"", "done"}
    BY <2>1, <2>4
  <2>7. pc' \in Places /\ supersteps' \in Nat /\ iteration' \in Nat
    BY <1>4, NodeRuns, AfterThinkType, TypesOfCounters, PlacesOfNodes DEF ThinkLlm
  <2>8. QED
    BY <1>4, <2>5, <2>6, <2>7 DEF ThinkLlm, TypeOK
<1>5. CASE ThinkRule
  <2> DEFINE plan == BuildRulePlan(request.query)
             queue == IF planQueue = NotBuilt THEN plan.steps ELSE planQueue
  <2>1. plan.customer \in CustomerNames /\ plan.steps \in Seq(Tools)
    BY CustomerOfRequest, RulePlanType
  <2>2. queue \in Seq(Tools)
    BY <2>1 DEF TypeOK
  <2>3. customer' \in CustomerNames
    BY <1>5, <2>1 DEF ThinkRule, TypeOK
  <2>4. CASE queue # <<>> /\ nextTool' = Head(queue) /\ planQueue' = Rest(queue)
             /\ iteration' = iteration + 1
    <3>1. nextTool' \in Tools /\ planQueue' \in Seq(Tools) /\ iteration' \in Nat
      <4> HIDE DEF queue
      <4>1. QED
        BY <2>2, <2>4, TypesOfCounters DEF Rest
    <3>2. pc' \in Places /\ supersteps' \in Nat
      BY <1>5, NodeRuns, AfterThinkType, PlacesOfNodes DEF ThinkRule
    <3>3. QED
      BY <1>5, <2>3, <3>1, <3>2 DEF ThinkRule, TypeOK
  <2>5. CASE nextTool' = "done" /\ planQueue' = <<>> /\ UNCHANGED iteration
    <3>1. pc' \in Places /\ supersteps' \in Nat
      BY <1>5, NodeRuns, AfterThinkType, PlacesOfNodes DEF ThinkRule
    <3>2. planQueue' \in Seq(Tools)
      BY <2>5
    <3>3. QED
      BY <1>5, <2>3, <2>5, <3>1, <3>2 DEF ThinkRule, TypeOK
  <2>6. QED
    BY <1>5, <2>4, <2>5 DEF ThinkRule
<1>6. CASE RbacGate
  <2>1. pc' \in Places /\ supersteps' \in Nat
    BY <1>6, NodeRuns, PlacesOfNodes DEF RbacGate
  <2>2. QED
    BY <1>6, <2>1 DEF RbacGate, TypeOK
<1>7. CASE Submit
  <2> DEFINE S == {j \in DOMAIN Requested : Requested[j] # "done"}
  <2>1. S \subseteq 1..MaxBatch
    BY RequestedType
  <2>2. NewWorker \in Workers
    BY DEF NewWorker, Worker, Workers, CustomerNames
  <2>3. workers' \in [S -> Workers]
    BY <1>7, <2>2 DEF Submit
  <2>4. workers' \in UNION {[D -> Workers] : D \in SUBSET (1..MaxBatch)}
    BY <2>1, <2>3
  <2>5. QED
    <3>1. pc' \in Places /\ supersteps' \in Nat
      BY <1>7, NodeRuns, PlacesOfNodes DEF Submit
    <3>2. QED
      BY <1>7, <2>4, <3>1 DEF Submit, TypeOK
<1>8. ASSUME NEW i \in DOMAIN workers, RunWorker(i) PROVE TypeOK'
  <2>1. \A step \in BOOLEAN, key \in {"none", "profile", "issues", "customer"},
           val \in CustomerNames : Worker("finished", step, key, val) \in Workers
    BY DEF Worker, Workers
  <2>2. NoName \in CustomerNames /\ customer \in CustomerNames
    BY DEF CustomerNames, TypeOK
  <2>3. CASE AuditWrite(i)
    <3>1. PICK S \in SUBSET (1..MaxBatch) : workers \in [S -> Workers]
      BY DEF TypeOK
    <3>2. workers' \in [S -> Workers]
      BY <2>3, <3>1 DEF AuditWrite, Workers
    <3>3. audited' \in [WriteTools -> Nat]
      BY <2>3, TypesOfCounters DEF AuditWrite
    <3>4. QED
      BY <2>3, <3>2, <3>3 DEF AuditWrite, TypeOK
  <2>4. CASE RunWriteTool(i)
    <3>1. writes' \in [WriteTools -> Nat]
      BY <2>4, TypesOfCounters DEF RunWriteTool
    <3>2. \E w \in Workers : workers' = [workers EXCEPT ![i] = w]
      BY <2>1, <2>2, <2>4 DEF RunWriteTool, Finish
    <3>3. QED
      BY <2>4, <3>1, <3>2, WorkersType DEF RunWriteTool, TypeOK
  <2>5. CASE SkipTool(i)
    <3>1. \E w \in Workers : workers' = [workers EXCEPT ![i] = w]
      BY <2>1, <2>2, <2>5 DEF SkipTool, Finish
    <3>2. QED
      BY <2>5, <3>1, WorkersType DEF SkipTool, TypeOK
  <2>6. CASE RunReadTool(i)
    <3>1. \E w \in Workers : workers' = [workers EXCEPT ![i] = w]
      BY <2>1, <2>2, <2>6, LookedUpType DEF RunReadTool, Finish, CustomerNames
    <3>2. QED
      BY <2>6, <3>1, WorkersType DEF RunReadTool, TypeOK
  <2>7. QED
    BY <1>8, <2>3, <2>4, <2>5, <2>6 DEF RunWorker
<1>9. CASE Join
  <2>1. customer' \in CustomerNames /\ issues' \in CustomerNames /\ profile' \in CustomerNames
    BY <1>9, MergeType DEF Join, TypeOK
  <2>2. PICK S \in SUBSET (1..MaxBatch) : workers \in [S -> Workers]
    BY DEF TypeOK
  <2>3. \A t \in Tools : Cardinality(StepsLeft(t)) \in Nat
    <3>1. IsFiniteSet(1..MaxBatch)
      BY FS_Interval, AgentAssumption
    <3>2. \A t : StepsLeft(t) \subseteq 1..MaxBatch
      BY <2>2 DEF StepsLeft
    <3>3. QED
      BY <3>1, <3>2, FS_Subset, FS_CardinalityType
  <2>4. steps' \in [Tools -> Nat]
    BY <1>9, <2>3, TypesOfCounters DEF Join
  <2>5. workers' \in UNION {[D -> Workers] : D \in SUBSET (1..MaxBatch)}
    <3>1. workers' \in [{} -> Workers]
      BY <1>9 DEF Join
    <3>2. QED
      BY <3>1
  <2>6. QED
    BY <1>9, <2>1, <2>4, <2>5 DEF Join, TypeOK, Places, Nodes
<1>10. CASE RiskAssess
  <2>1. pc' \in Places /\ supersteps' \in Nat
    BY <1>10, NodeRuns, PlacesOfNodes DEF RiskAssess
  <2>2. QED
    BY <1>10, <2>1 DEF RiskAssess, TypeOK
<1>11. CASE Record
  BY <1>11 DEF Record, TypeOK, Places, Ended
<1>12. CASE Abort
  BY <1>12 DEF Abort, TypeOK, Places, Ended
<1>13. CASE ClientGone
  BY <1>13 DEF ClientGone, TypeOK, Places, Ended
<1>14. CASE UNCHANGED vars
  BY <1>14 DEF vars, TypeOK
<1>15. QED
  BY <1>1, <1>2, <1>3, <1>4, <1>5, <1>6, <1>7, <1>8, <1>9, <1>10, <1>11, <1>12,
     <1>13, <1>14 DEF Next, Agent, Stop

LEMMA TypeInit == Init => TypeOK
<1> SUFFICES ASSUME Init PROVE TypeOK
  OBVIOUS
<1>1. workers \in [{} -> Workers]
  <2>1. workers = <<>>
    BY DEF Init
  <2>2. QED
    BY <2>1
<1>2. workers \in UNION {[S -> Workers] : S \in SUBSET (1..MaxBatch)}
  BY <1>1
<1>3. QED
  BY <1>2 DEF Init, TypeOK, Places, CustomerNames

\* Every variable stays in its range, whatever the LLM answers and whichever calls
\* raise: the fields of AgentState, the threads of a batch and what they merge.
THEOREM TypeCorrect == Spec => []TypeOK
BY TypeInit, TypeStep, PTL DEF Spec

-----------------------------------------------------------------------------
(* Role safety *)

\* The inductive invariant behind WritesAuthorised. What the gate saw is what
\* the threads run: once it has let the batch through, no tool of the batch is
\* refused, and a thread that has passed the audit step runs a write tool.
GateHolds == pc \in {"execute", "running"} => ~Refused

ThreadsInBatch ==
    \A i \in DOMAIN workers :
        /\ pc = "running"
        /\ i \in DOMAIN Requested
        /\ workers[i].stage = "audited" => Requested[i] \in WriteTools

SafetyInv == TypeOK /\ GateHolds /\ ThreadsInBatch /\ WritesAuthorised

\* Neither the request nor what the gate compares changes while a batch runs.
LEMMA RequestKept == Next => UNCHANGED request
BY DEF Next, Agent, CheckPrompt, CacheLookup, PreFlight, ThinkLlm, ThinkRule, RbacGate,
       Submit, RunWorker, AuditWrite, RunWriteTool, SkipTool, RunReadTool, Join,
       RiskAssess, Record, Abort, ClientGone, Stop, vars

\* Writes and audit rows come from the threads alone.
LEMMA WritesOfThreads ==
    ASSUME Next
    PROVE  \/ UNCHANGED <<audited, writes>>
           \/ \E i \in DOMAIN workers : AuditWrite(i) \/ RunWriteTool(i)
BY DEF Next, Agent, CheckPrompt, CacheLookup, PreFlight, ThinkLlm, ThinkRule, RbacGate,
       Submit, RunWorker, AuditWrite, RunWriteTool, SkipTool, RunReadTool, Join,
       RiskAssess, Record, Abort, ClientGone, Stop, vars

\* Only an allowed tool's count grows, so the counts stay authorised.
LEMMA AuthorisedStep ==
    ASSUME SafetyInv, Next PROVE WritesAuthorised'
<1>1. request' = request
  BY RequestKept
<1>2. \A t \in WriteTools : MayWrite(t)' <=> MayWrite(t)
  BY <1>1 DEF MayWrite
<1>3. CASE UNCHANGED <<audited, writes>>
  BY <1>2, <1>3 DEF SafetyInv, WritesAuthorised
<1>4. ASSUME NEW i \in DOMAIN workers, AuditWrite(i) \/ RunWriteTool(i)
      PROVE  WritesAuthorised'
  <2>1. pc = "running" /\ i \in DOMAIN Requested /\ Requested[i] \in WriteTools
    BY <1>4 DEF SafetyInv, ThreadsInBatch, AuditWrite, RunWriteTool
  <2>2. MayWrite(Requested[i])
    BY <2>1 DEF SafetyInv, GateHolds, Refused
  <2>3. \A t \in WriteTools : t # Requested[i] => audited'[t] = audited[t] /\ writes'[t] = writes[t]
    BY <1>4, TypesOfCounters DEF SafetyInv, AuditWrite, RunWriteTool
  <2>4. QED
    BY <1>2, <2>2, <2>3 DEF SafetyInv, WritesAuthorised
<1>5. QED
  BY <1>3, <1>4, WritesOfThreads

\* Requested and the gate's verdict depend on the batch and the roles only.
LEMMA SameBatch ==
    ASSUME UNCHANGED <<request, nextTools, nextTool>>
    PROVE  Requested' = Requested /\ Refused' = Refused
BY DEF Requested, Refused, MayWrite

LEMMA SafetyStep == SafetyInv /\ [Next]_vars => SafetyInv'
<1> SUFFICES ASSUME SafetyInv, [Next]_vars PROVE SafetyInv'
  OBVIOUS
<1>1. TypeOK'
  BY TypeStep DEF SafetyInv
<1>2. CASE UNCHANGED vars
  <2>1. UNCHANGED <<request, pc, nextTools, nextTool, workers, audited, writes>>
    BY <1>2 DEF vars, graph
  <2>2. Requested' = Requested /\ Refused' = Refused
    BY <2>1, SameBatch
  <2>3. GateHolds' /\ ThreadsInBatch'
    BY <2>1, <2>2 DEF SafetyInv, GateHolds, ThreadsInBatch
  <2>4. WritesAuthorised'
    BY <2>1 DEF SafetyInv, WritesAuthorised, MayWrite
  <2>5. QED
    BY <1>1, <2>3, <2>4 DEF SafetyInv
<1>3. CASE Next
  <2>1. WritesAuthorised'
    BY <1>3, AuthorisedStep
  <2>2. CASE CheckPrompt \/ CacheLookup \/ PreFlight \/ ThinkLlm \/ ThinkRule
             \/ RiskAssess \/ Record \/ Abort \/ ClientGone
    <3>1. pc # "running" /\ pc' \notin {"execute", "running"} /\ workers' = workers
      BY <2>2, AfterThinkType
         DEF CheckPrompt, CacheLookup, PreFlight, ThinkLlm, ThinkRule, RiskAssess,
             Record, Abort, ClientGone, RunNode, Nodes
    <3>2. DOMAIN workers = {}
      BY <3>1 DEF SafetyInv, ThreadsInBatch
    <3>3. QED
      BY <1>1, <2>1, <3>1, <3>2 DEF SafetyInv, GateHolds, ThreadsInBatch
  <2>3. CASE RbacGate
    <3>1. Requested' = Requested /\ Refused' = Refused
      BY <2>3, SameBatch DEF RbacGate
    <3>2. pc # "running" /\ workers' = workers
      BY <2>3 DEF RbacGate, RunNode
    <3>3. DOMAIN workers = {}
      BY <3>2 DEF SafetyInv, ThreadsInBatch
    <3>4. GateHolds'
      BY <2>3, <3>1 DEF RbacGate, GateHolds
    <3>5. QED
      BY <1>1, <2>1, <3>2, <3>3, <3>4 DEF SafetyInv, ThreadsInBatch
  <2>4. CASE Submit
    <3>1. Requested' = Requested /\ Refused' = Refused
      BY <2>4, SameBatch DEF Submit
    <3>2. pc = "execute" /\ pc' = "running"
      BY <2>4 DEF Submit, RunNode
    <3>3. GateHolds'
      BY <3>1, <3>2 DEF SafetyInv, GateHolds
    <3>4. \A i \in DOMAIN workers' : i \in DOMAIN Requested /\ workers'[i].stage = "start"
      BY <2>4 DEF Submit, NewWorker, Worker
    <3>5. QED
      BY <1>1, <2>1, <3>1, <3>2, <3>3, <3>4 DEF SafetyInv, ThreadsInBatch
  <2>5. ASSUME NEW i \in DOMAIN workers, RunWorker(i) PROVE SafetyInv'
    <3>1. UNCHANGED <<request, pc, nextTools, nextTool>>
      BY <2>5 DEF RunWorker, AuditWrite, RunWriteTool, SkipTool, RunReadTool, graph
    <3>2. Requested' = Requested /\ Refused' = Refused
      BY <3>1, SameBatch
    <3>3. DOMAIN workers' = DOMAIN workers
      BY <2>5 DEF RunWorker, AuditWrite, RunWriteTool, SkipTool, RunReadTool, Finish
    <3>4. PICK S \in SUBSET (1..MaxBatch) : workers \in [S -> Workers]
      BY DEF SafetyInv, TypeOK
    <3>5. \A j \in DOMAIN workers : workers'[j].stage = "audited" => Requested[j] \in WriteTools
      <4>1. CASE AuditWrite(i)
        BY <3>4, <4>1 DEF AuditWrite, SafetyInv, ThreadsInBatch, Workers
      <4>2. CASE RunWriteTool(i) \/ SkipTool(i) \/ RunReadTool(i)
        BY <3>4, <4>2 DEF RunWriteTool, SkipTool, RunReadTool, Finish, Worker,
                          SafetyInv, ThreadsInBatch
      <4>3. QED
        BY <2>5, <4>1, <4>2 DEF RunWorker
    <3>6. QED
      BY <1>1, <2>1, <3>1, <3>2, <3>3, <3>5 DEF SafetyInv, GateHolds, ThreadsInBatch
  <2>6. CASE Join
    <3>1. pc' = "think" /\ DOMAIN workers' = {}
      BY <2>6 DEF Join
    <3>2. QED
      BY <1>1, <2>1, <3>1 DEF SafetyInv, GateHolds, ThreadsInBatch
  <2>7. CASE Stop
    BY <1>2, <2>7 DEF Stop
  <2>8. QED
    BY <1>3, <2>2, <2>3, <2>4, <2>5, <2>6, <2>7 DEF Next, Agent
<1>4. QED
  BY <1>2, <1>3

LEMMA RoleInit == Init => SafetyInv
<1> SUFFICES ASSUME Init PROVE SafetyInv
  OBVIOUS
<1>1. TypeOK
  BY TypeInit
<1>2. workers = <<>> /\ pc = "guard"
  BY DEF Init
<1>3. GateHolds /\ ThreadsInBatch
  BY <1>2 DEF GateHolds, ThreadsInBatch
<1>4. \A t \in WriteTools : audited[t] = 0 /\ writes[t] = 0
  BY DEF Init
<1>5. QED
  BY <1>1, <1>3, <1>4 DEF SafetyInv, WritesAuthorised

\* No write tool changes the database for a user whose roles do not allow it,
\* by any path through the LLM, the rule plan or a batch left over from an
\* earlier iteration (_rbac_gate, _execute).
THEOREM RoleSafety == Spec => []WritesAuthorised
<1>1. Init => SafetyInv
  BY RoleInit
<1>2. SafetyInv => WritesAuthorised
  BY DEF SafetyInv
<1>3. QED
  BY <1>1, <1>2, SafetyStep, PTL DEF Spec

\* While no LLM call raises, each turn of the loop is three nodes and is counted,
\* but for the last think on an empty queue.
NodesCounted ==
    ~MayFail("llm") =>
        /\ ~request.key => nextTools = <<>>
        /\ pc \in {"guard", "cache_lookup", "pre_flight"} => supersteps = 0 /\ iteration = 0
        /\ pc \in {"think", "running"} => supersteps = 3 * iteration + 1
        /\ pc = "rbac_gate" => supersteps = 3 * iteration - 1
        /\ pc = "execute" => supersteps = 3 * iteration
        /\ pc = "risk_assess" => supersteps < 18
        /\ supersteps <= 18

CountInv ==
    /\ TypeOK
    /\ IterationBounded
    /\ NodesCounted
    /\ pc \in {"guard", "cache_lookup", "pre_flight", "think"} => iteration < MAX_ITERATIONS

\* Where a think leads, and with which counts.
LEMMA ThinkCounted ==
    ASSUME CountInv, ThinkLlm \/ ThinkRule
    PROVE  /\ request' = request
           /\ pc = "think" /\ iteration < MAX_ITERATIONS
           /\ supersteps' = supersteps + 1
           /\ iteration' \in {iteration, iteration + 1}
           /\ pc' \in {"risk_assess", "rbac_gate"}
           /\ pc' = "rbac_gate" => iteration' < MAX_ITERATIONS
           /\ ~MayFail("llm") =>
                 /\ ~request.key => nextTools' = <<>>
                 /\ pc' = "rbac_gate" => iteration' = iteration + 1
<1>1. /\ request' = request
      /\ pc = "think" /\ iteration < MAX_ITERATIONS /\ supersteps' = supersteps + 1
  BY DEF CountInv, ThinkLlm, ThinkRule, RunNode
<1>2. iteration' \in {iteration, iteration + 1} /\ iteration' \in Nat
  BY TypesOfCounters DEF CountInv, ThinkLlm, ThinkRule
<1>3. \E tools, tool : pc' = AfterThink(tools, tool, iteration')
  BY DEF ThinkLlm, ThinkRule
<1>4. /\ pc' \in {"risk_assess", "rbac_gate"}
      /\ pc' = "rbac_gate" => iteration' < MAX_ITERATIONS
  BY <1>2, <1>3 DEF AfterThink, MAX_ITERATIONS
<1>5. ASSUME ~MayFail("llm")
      PROVE  /\ ~request.key => nextTools' = <<>>
             /\ pc' = "rbac_gate" => iteration' = iteration + 1
  <2>1. CASE ThinkLlm
    BY <2>1 DEF ThinkLlm
  <2>2. CASE ThinkRule
    <3>1. ~request.key /\ nextTools' = nextTools /\ nextTools = <<>>
      BY <1>5, <2>2 DEF ThinkRule, CountInv, NodesCounted
    <3>2. pc' = AfterThink(<<>>, nextTool', iteration')
      BY <2>2, <3>1 DEF ThinkRule
    <3>3. nextTool' = "done" \/ iteration' = iteration + 1
      BY <2>2 DEF ThinkRule
    <3>4. QED
      BY <3>1, <3>2, <3>3 DEF AfterThink
  <2>3. QED
    BY <2>1, <2>2
<1>6. QED
  BY <1>1, <1>2, <1>4, <1>5

LEMMA CountInvThink ==
    ASSUME CountInv, TypeOK', ThinkLlm \/ ThinkRule PROVE CountInv'
<1>1. iteration \in Nat /\ supersteps \in Nat /\ iteration' \in Nat /\ supersteps' \in Nat
  BY DEF CountInv, TypeOK
<1>2. MayFail("llm")' = MayFail("llm")
  BY ThinkCounted DEF MayFail
<1>3. iteration' <= MAX_ITERATIONS
  BY <1>1, ThinkCounted DEF MAX_ITERATIONS
<1>4. ~MayFail("llm") => supersteps = 3 * iteration + 1 /\ supersteps' <= 17
  BY <1>1, ThinkCounted DEF CountInv, NodesCounted, MAX_ITERATIONS
<1>5. NodesCounted'
  <2>1. request' = request
    BY ThinkCounted
  <2>2. CASE MayFail("llm")
    BY <2>1, <2>2 DEF NodesCounted, MayFail
  <2>3. CASE ~MayFail("llm")
    <3>1. ~request.key => nextTools' = <<>>
      BY <2>3, ThinkCounted
    <3>2. pc' = "risk_assess" \/ (pc' = "rbac_gate" /\ iteration' = iteration + 1)
      BY <2>3, ThinkCounted
    <3>3. supersteps = 3 * iteration + 1 /\ supersteps' <= 17 /\ supersteps' = supersteps + 1
      BY <1>4, <2>3, ThinkCounted
    <3>4. pc' = "rbac_gate" => supersteps' = 3 * iteration' - 1
      BY <1>1, <3>2, <3>3
    <3>5. supersteps' < 18
      BY <1>1, <3>3
    <3>6. ~request'.key => nextTools' = <<>>
      BY <2>1, <3>1
    <3>7. supersteps' <= 18
      BY <1>1, <3>3
    <3>8. pc' = "risk_assess" \/ pc' = "rbac_gate"
      BY <3>2
    <3>9. QED
      BY <3>4, <3>5, <3>6, <3>7, <3>8 DEF NodesCounted
  <2>4. QED
    BY <2>2, <2>3
<1>6. IterationBounded'
  BY <1>1, <1>2, <1>3, <1>4, ThinkCounted DEF IterationBounded, MAX_ITERATIONS
<1>7. QED
  BY <1>5, <1>6, ThinkCounted DEF CountInv

LEMMA CountInvElse ==
    ASSUME CountInv, TypeOK', [Next]_vars, ~(ThinkLlm \/ ThinkRule) PROVE CountInv'
<1>1. iteration \in Nat /\ supersteps \in Nat
  BY DEF CountInv, TypeOK
<1>2. UNCHANGED <<request, iteration, nextTools>>
  BY DEF Next, Agent, CheckPrompt, CacheLookup, PreFlight, RbacGate, Submit,
         RunWorker, AuditWrite, RunWriteTool, SkipTool, RunReadTool, Join,
         RiskAssess, Record, Abort, ClientGone, Stop, vars, graph
<1>3. MayFail("llm")' = MayFail("llm") /\ request'.key = request.key
  BY <1>2 DEF MayFail
<1>4. \/ /\ supersteps' = supersteps
         /\ \/ pc' = pc
            \/ pc' \in {"answer", "answered"} \cup (Ended \ {"disambiguation", "refused"})
            \/ pc \in {"guard", "cache_lookup"} /\ pc' \in {"cache_lookup", "pre_flight"}
            \/ pc = "running" /\ pc' = "think"
      \/ /\ supersteps' = supersteps + 1
         /\ \/ pc = "pre_flight" /\ pc' \in {"think", "disambiguation"}
            \/ pc = "rbac_gate" /\ pc' \in {"execute", "refused"}
            \/ pc = "execute" /\ pc' = "running"
            \/ pc = "risk_assess" /\ pc' = "answer"
  BY DEF Next, Agent, CheckPrompt, CacheLookup, PreFlight, RbacGate, Submit,
         RunWorker, AuditWrite, RunWriteTool, SkipTool, RunReadTool, Join,
         RiskAssess, Record, Abort, ClientGone, Stop, vars, graph, RunNode, Ended
<1>5. /\ pc' \in {"rbac_gate", "execute", "running"} => iteration < MAX_ITERATIONS
      /\ pc' \in {"guard", "cache_lookup", "pre_flight", "think"} => iteration < MAX_ITERATIONS
      /\ iteration <= MAX_ITERATIONS
  BY <1>4 DEF CountInv, IterationBounded, Ended
<1>6. ASSUME ~MayFail("llm") PROVE NodesCounted' /\ supersteps' <= 18
  <2>1. ~request.key => nextTools = <<>>
    BY <1>6 DEF CountInv, NodesCounted
  <2>2. QED
    BY <1>1, <1>2, <1>3, <1>4, <1>6, <2>1
       DEF CountInv, IterationBounded, NodesCounted, MAX_ITERATIONS, Ended
<1>7. NodesCounted'
  BY <1>3, <1>6 DEF NodesCounted
<1>8. IterationBounded'
  BY <1>2, <1>3, <1>5, <1>6 DEF IterationBounded, MAX_ITERATIONS
<1>9. QED
  BY <1>2, <1>5, <1>7, <1>8 DEF CountInv

\* The iteration count never passes MAX_ITERATIONS and a batch runs only below it,
\* for any number of LLM failures; and while no LLM call raises, the graph runs no
\* more nodes than that many turns of the loop take (_after_think).
THEOREM IterationSafety == Spec => []IterationBounded
<1>1. Init => CountInv
  <2> SUFFICES ASSUME Init PROVE CountInv
    OBVIOUS
  <2>1. pc = "guard" /\ iteration = 0 /\ supersteps = 0 /\ nextTools = <<>>
    BY DEF Init
  <2>2. QED
    BY <2>1, TypeInit DEF CountInv, IterationBounded, NodesCounted, MAX_ITERATIONS
<1>2. CountInv /\ [Next]_vars => CountInv'
  BY TypeStep, CountInvThink, CountInvElse DEF CountInv
<1>3. CountInv => IterationBounded
  BY DEF CountInv
<1>4. QED
  BY <1>1, <1>2, <1>3, PTL DEF Spec

-----------------------------------------------------------------------------
(* The contract of one request *)

OpenPlaces == {"guard", "cache_lookup", "running", "answer"} \cup Nodes
DeclinedPlaces == {"rejected", "cached", "disambiguation", "refused"}

LEMMA StatusOfPlace ==
    /\ pc \in OpenPlaces => ContractStatus = "open"
    /\ pc = "answered" => ContractStatus = "answered"
    /\ pc \in {"aborted", "disconnected"} => ContractStatus = "lost"
    /\ pc \in DeclinedPlaces => ContractStatus = "declined"
BY DEF ContractStatus, OpenPlaces, DeclinedPlaces, Nodes

LEMMA StatusOfPlacePrimed ==
    /\ pc' \in OpenPlaces => ContractStatus' = "open"
    /\ pc' = "answered" => ContractStatus' = "answered"
    /\ pc' \in {"aborted", "disconnected"} => ContractStatus' = "lost"
    /\ pc' \in DeclinedPlaces => ContractStatus' = "declined"
BY DEF ContractStatus, OpenPlaces, DeclinedPlaces, Nodes

NothingWritten == \A t \in WriteTools : writes[t] = 0

\* Nothing is written before the graph has thought for the first time.
ContractInv ==
    /\ SafetyInv
    /\ pc \in {"guard", "cache_lookup", "pre_flight"} => NothingWritten

LEMMA ContractInvStep == ContractInv /\ [Next]_vars => ContractInv'
<1> SUFFICES ASSUME ContractInv, [Next]_vars PROVE ContractInv'
  OBVIOUS
<1>1. SafetyInv'
  BY SafetyStep DEF ContractInv
<1>2. CASE pc' \in {"guard", "cache_lookup", "pre_flight"}
  <2>1. CASE UNCHANGED vars
    BY <1>1, <2>1 DEF ContractInv, NothingWritten, vars
  <2>2. CASE Next
    <3>1. CheckPrompt \/ CacheLookup
      BY <1>2, <2>2, AfterThinkType
         DEF Next, Agent, PreFlight, ThinkLlm, ThinkRule, RbacGate, Submit, RunWorker,
             AuditWrite, RunWriteTool, SkipTool, RunReadTool, Join, RiskAssess, Record,
             Abort, ClientGone, Stop, Ended, vars
    <3>2. pc \in {"guard", "cache_lookup"} /\ writes' = writes
      BY <3>1 DEF CheckPrompt, CacheLookup
    <3>3. QED
      BY <1>1, <3>2 DEF ContractInv, NothingWritten
  <2>3. QED
    BY <2>1, <2>2
<1>3. QED
  BY <1>1, <1>2 DEF ContractInv

\* The gate refuses a tool only to a user who may use none, for all write tools
\* admit the same roles; so a refused request has written nothing.
LEMMA RefusedUntouched ==
    ASSUME SafetyInv, Refused PROVE NothingWritten
<1>1. PICK t \in WriteTools : ~MayWrite(t)
  BY DEF Refused
<1>2. \A u \in WriteTools : ~MayWrite(u)
  BY <1>1 DEF MayWrite, WriteToolRegistry
<1>3. \A u \in WriteTools : writes[u] \in Nat /\ audited[u] \in Nat
  BY TypesOfCounters DEF SafetyInv
<1>4. QED
  BY <1>2, <1>3 DEF SafetyInv, WritesAuthorised, NothingWritten

LEMMA ContractStep ==
    ASSUME ContractInv, [Next]_vars
    PROVE  [Contract!ContractNext]_(Contract!contractVars)
<1> DEFINE allowed == {t \in WriteTools : MayWrite(t)}
           lossy == MayFail("redis")
<1> USE DEF Contract!ContractNext, Contract!contractVars
<1>1. request' = request => allowed' = allowed /\ lossy' = lossy
  BY DEF MayWrite, MayFail
<1>2. request' = request
  BY RequestKept DEF vars
<1>3. allowed' = allowed /\ lossy' = lossy
  BY <1>1, <1>2
<1>4. NothingWritten => writes = [t \in WriteTools |-> 0]
  BY TypesOfCounters DEF NothingWritten, ContractInv, SafetyInv
<1>5. ASSUME pc \in OpenPlaces, pc' \in OpenPlaces, UNCHANGED <<writes, recorded>>
      PROVE  UNCHANGED Contract!contractVars
  BY <1>3, <1>5, StatusOfPlace, StatusOfPlacePrimed
<1>6. ASSUME pc \in OpenPlaces, pc' \in DeclinedPlaces, NothingWritten,
             UNCHANGED <<writes, recorded>>
      PROVE  Contract!Decline
  BY <1>3, <1>4, <1>6, StatusOfPlace, StatusOfPlacePrimed DEF Contract!Decline
<1>7. CASE CheckPrompt \/ CacheLookup \/ PreFlight
  <2>1. /\ pc \in {"guard", "cache_lookup", "pre_flight"}
        /\ pc' \in {"cache_lookup", "pre_flight", "think"} \cup DeclinedPlaces
        /\ UNCHANGED <<writes, recorded>>
    BY <1>7 DEF CheckPrompt, CacheLookup, PreFlight, RunNode, DeclinedPlaces
  <2>2. NothingWritten
    BY <2>1 DEF ContractInv
  <2>3. QED
    BY <1>5, <1>6, <2>1, <2>2 DEF OpenPlaces, Nodes
<1>8. CASE ThinkLlm \/ ThinkRule \/ Submit \/ Join \/ RiskAssess
  <2>1. pc \in OpenPlaces /\ pc' \in OpenPlaces /\ UNCHANGED <<writes, recorded>>
    BY <1>8, AfterThinkType
       DEF ThinkLlm, ThinkRule, Submit, Join, RiskAssess, RunNode, OpenPlaces, Nodes
  <2>2. QED
    BY <1>5, <2>1
<1>9. CASE RbacGate
  <2>1. pc = "rbac_gate" /\ UNCHANGED <<writes, recorded>>
    BY <1>9 DEF RbacGate, RunNode
  <2>2. CASE Refused
    BY <1>6, <1>9, <2>1, <2>2, RefusedUntouched
       DEF RbacGate, ContractInv, OpenPlaces, Nodes, DeclinedPlaces
  <2>3. CASE ~Refused
    BY <1>5, <1>9, <2>1, <2>3 DEF RbacGate, OpenPlaces, Nodes
  <2>4. QED
    BY <2>2, <2>3
<1>10. ASSUME NEW i \in DOMAIN workers, RunWorker(i)
       PROVE  [Contract!ContractNext]_(Contract!contractVars)
  <2>1. pc = "running" /\ pc' = "running" /\ recorded' = recorded
    BY <1>10 DEF RunWorker, AuditWrite, RunWriteTool, SkipTool, RunReadTool
  <2>2. CASE writes' = writes
    BY <1>5, <2>1, <2>2 DEF OpenPlaces
  <2>3. CASE RunWriteTool(i) /\ writes' = [writes EXCEPT ![Requested[i]] = @ + 1]
    <3>1. i \in DOMAIN Requested /\ Requested[i] \in WriteTools
      BY <2>3 DEF RunWriteTool, ContractInv, SafetyInv, ThreadsInBatch
    <3>2. Requested[i] \in allowed
      BY <2>1, <3>1 DEF ContractInv, SafetyInv, GateHolds, Refused
    <3>3. Contract!Change(Requested[i])
      BY <1>3, <2>1, <2>3, StatusOfPlace, StatusOfPlacePrimed
         DEF Contract!Change, OpenPlaces
    <3>4. QED
      BY <3>2, <3>3
  <2>4. QED
    BY <1>10, <2>2, <2>3 DEF RunWorker, AuditWrite, RunWriteTool, SkipTool, RunReadTool
<1>11. CASE Record
  <2>1. Contract!Answer
    BY <1>3, <1>11, StatusOfPlace, StatusOfPlacePrimed
       DEF Record, Contract!Answer, OpenPlaces
  <2>2. QED
    BY <2>1
<1>12. CASE Abort \/ ClientGone
  <2>1. /\ pc \in OpenPlaces /\ pc' \in {"aborted", "disconnected"}
        /\ UNCHANGED <<writes, recorded>>
    BY <1>12 DEF Abort, ClientGone, OpenPlaces, Nodes
  <2>2. Contract!Lose
    BY <1>3, <2>1, StatusOfPlace, StatusOfPlacePrimed DEF Contract!Lose
  <2>3. QED
    BY <2>2
<1>13. CASE UNCHANGED vars
  BY <1>3, <1>13 DEF vars, ContractStatus
<1>14. QED
  BY <1>7, <1>8, <1>9, <1>10, <1>11, <1>12, <1>13 DEF Next, Agent, Stop

\* The request keeps its contract: writes only while it is open and only of the
\* allowed kinds, one ending, a session event only when it was answered, and then
\* unless Redis may lose it, and no write at all when it was declined
\* (run_agent_stream, append_session_event).
THEOREM KeepsContract == Spec => ImplementsContract
<1>1. Init => ContractInv /\ Contract!ContractInit
  <2> SUFFICES ASSUME Init PROVE ContractInv /\ Contract!ContractInit
    OBVIOUS
  <2>1. SafetyInv
    BY RoleInit
  <2>2. pc = "guard" /\ recorded = FALSE /\ writes = [t \in WriteTools |-> 0]
    BY DEF Init
  <2>3. ContractInv
    BY <2>1, <2>2 DEF ContractInv, NothingWritten
  <2>4. Contract!ContractInit
    BY <2>2, StatusOfPlace DEF Contract!ContractInit, OpenPlaces, MayFail
  <2>5. QED
    BY <2>3, <2>4
<1>2. ContractInv /\ [Next]_vars => [Contract!ContractNext]_(Contract!contractVars)
  BY ContractStep
<1>3. QED
  BY <1>1, <1>2, ContractInvStep, PTL DEF Spec, ImplementsContract, Contract!ContractSpec

-----------------------------------------------------------------------------
(* One batch, step by step *)

\* Only execute has threads: in every other step of the graph there is none,
\* and nothing the threads work on changes.
LEMMA StepKinds ==
    ASSUME SafetyInv, [Next]_vars
    PROVE  \/ /\ DOMAIN workers = {}
              /\ UNCHANGED <<issues, steps, workers, audited, writes>>
           \/ UNCHANGED vars
           \/ Submit
           \/ \E i \in DOMAIN workers : RunWorker(i)
           \/ Join
<1>1. CASE UNCHANGED vars
  BY <1>1
<1>2. CASE Stop
  BY <1>2 DEF Stop
<1>3. CASE Submit \/ Join \/ \E i \in DOMAIN workers : RunWorker(i)
  BY <1>3
<1>4. CASE CheckPrompt \/ CacheLookup \/ PreFlight \/ ThinkLlm \/ ThinkRule \/ RbacGate
           \/ RiskAssess \/ Record \/ Abort \/ ClientGone
  <2>1. pc # "running" /\ UNCHANGED <<issues, steps, workers, audited, writes>>
    BY <1>4 DEF CheckPrompt, CacheLookup, PreFlight, ThinkLlm, ThinkRule, RbacGate,
                RiskAssess, Record, Abort, ClientGone, RunNode, Nodes, graph
  <2>2. DOMAIN workers = {}
    BY <2>1 DEF SafetyInv, ThreadsInBatch
  <2>3. QED
    BY <2>1, <2>2
<1>5. QED
  BY <1>1, <1>2, <1>3, <1>4 DEF Next, Agent

\* A thread reads and writes no part of the graph's state: its batch stays.
LEMMA BatchKept ==
    ASSUME NEW i \in DOMAIN workers, RunWorker(i)
    PROVE  /\ UNCHANGED <<request, pc, graph>>
           /\ Requested' = Requested
           /\ DOMAIN workers' = DOMAIN workers
           /\ \A j \in DOMAIN workers : j # i => workers'[j] = workers[j]
<1>1. UNCHANGED <<request, pc, graph>>
  BY DEF RunWorker, AuditWrite, RunWriteTool, SkipTool, RunReadTool
<1>2. Requested' = Requested
  BY <1>1 DEF Requested, graph
<1>3. DOMAIN workers' = DOMAIN workers /\ \A j \in DOMAIN workers : j # i => workers'[j] = workers[j]
  BY DEF RunWorker, AuditWrite, RunWriteTool, SkipTool, RunReadTool, Finish
<1>4. QED
  BY <1>1, <1>2, <1>3

\* Sets of threads are finite.
LEMMA ThreadsFinite ==
    ASSUME TypeOK, NEW S, S \subseteq DOMAIN workers
    PROVE  IsFiniteSet(S) /\ Cardinality(S) \in Nat
<1>1. PICK D \in SUBSET (1..MaxBatch) : workers \in [D -> Workers]
  BY DEF TypeOK
<1>2. IsFiniteSet(1..MaxBatch)
  BY FS_Interval, AgentAssumption
<1>3. S \subseteq 1..MaxBatch
  BY <1>1
<1>4. IsFiniteSet(S)
  BY <1>2, <1>3, FS_Subset
<1>5. QED
  BY <1>4, FS_CardinalityType

-----------------------------------------------------------------------------
(* Audit *)

\* The threads that have passed the audit step and not yet run tool t.
AtAudit(t) == {i \in DOMAIN workers : workers[i].stage = "audited" /\ Requested[i] = t}

\* The rows are ahead of the writes by the threads that are between the two.
RowsAhead ==
    MayFail("audit")
        \/ \A t \in WriteTools : writes[t] + Cardinality(AtAudit(t)) <= audited[t]

\* A thread that leaves its audit step adds itself to the threads there.
LEMMA RowsAheadOfAudit ==
    ASSUME SafetyInv, RowsAhead, ~MayFail("audit"),
           NEW i \in DOMAIN workers, AuditWrite(i), NEW t \in WriteTools
    PROVE  writes'[t] + Cardinality(AtAudit(t)') <= audited'[t]
<1>1. Requested' = Requested /\ DOMAIN workers' = DOMAIN workers
      /\ \A j \in DOMAIN workers : j # i => workers'[j] = workers[j]
  BY BatchKept DEF RunWorker
<1>2. writes' = writes /\ workers[i].stage = "start"
  BY DEF AuditWrite
<1>3. writes[t] \in Nat /\ audited[t] \in Nat /\ audited \in [WriteTools -> Nat]
  BY TypesOfCounters DEF SafetyInv
<1>4. audited' = [audited EXCEPT ![Requested[i]] = @ + 1]
  BY DEF AuditWrite
<1>5. IsFiniteSet(AtAudit(t)) /\ Cardinality(AtAudit(t)) \in Nat
  BY ThreadsFinite DEF SafetyInv, AtAudit
<1>6. writes[t] + Cardinality(AtAudit(t)) <= audited[t]
  BY DEF RowsAhead
<1>7. workers'[i].stage = "audited"
  <2>1. PICK D \in SUBSET (1..MaxBatch) : workers \in [D -> Workers]
    BY DEF SafetyInv, TypeOK
  <2>2. QED
    BY <2>1 DEF AuditWrite, Workers
<1>8. CASE t = Requested[i]
  <2>1. AtAudit(t)' = AtAudit(t) \cup {i} /\ i \notin AtAudit(t)
    BY <1>1, <1>2, <1>7, <1>8 DEF AtAudit
  <2>2. Cardinality(AtAudit(t)') = Cardinality(AtAudit(t)) + 1
    BY <1>5, <2>1, FS_AddElement
  <2>3. audited'[t] = audited[t] + 1
    BY <1>3, <1>4, <1>8
  <2>4. writes[t] + (Cardinality(AtAudit(t)) + 1) <= audited[t] + 1
    BY <1>3, <1>5, <1>6
  <2>5. QED
    BY <1>2, <2>2, <2>3, <2>4
<1>9. CASE t # Requested[i]
  <2>1. AtAudit(t)' = AtAudit(t)
    BY <1>1, <1>9 DEF AtAudit
  <2>2. audited'[t] = audited[t]
    BY <1>3, <1>4, <1>9
  <2>3. QED
    BY <1>2, <1>6, <2>1, <2>2
<1>10. QED
  BY <1>8, <1>9

\* A thread that runs its write tool leaves the threads at their audit step.
LEMMA RowsAheadOfWrite ==
    ASSUME SafetyInv, RowsAhead, ~MayFail("audit"),
           NEW i \in DOMAIN workers, RunWriteTool(i), NEW t \in WriteTools
    PROVE  writes'[t] + Cardinality(AtAudit(t)') <= audited'[t]
<1>1. Requested' = Requested /\ DOMAIN workers' = DOMAIN workers
      /\ \A j \in DOMAIN workers : j # i => workers'[j] = workers[j]
  BY BatchKept DEF RunWorker
<1>2. audited' = audited /\ workers[i].stage = "audited"
  BY DEF RunWriteTool
<1>3. writes[t] \in Nat /\ audited[t] \in Nat /\ writes \in [WriteTools -> Nat]
  BY TypesOfCounters DEF SafetyInv
<1>4. writes' = [writes EXCEPT ![Requested[i]] = @ + 1] \/ writes' = writes
  BY DEF RunWriteTool
<1>5. IsFiniteSet(AtAudit(t)) /\ Cardinality(AtAudit(t)) \in Nat
  BY ThreadsFinite DEF SafetyInv, AtAudit
<1>6. writes[t] + Cardinality(AtAudit(t)) <= audited[t]
  BY DEF RowsAhead
<1>7. workers'[i].stage = "finished"
  BY DEF RunWriteTool, Finish, Worker
<1>8. CASE t = Requested[i]
  <2>1. AtAudit(t)' = AtAudit(t) \ {i} /\ i \in AtAudit(t)
    BY <1>1, <1>2, <1>7, <1>8 DEF AtAudit
  <2>2. Cardinality(AtAudit(t)') = Cardinality(AtAudit(t)) - 1
    BY <1>5, <2>1, FS_RemoveElement
  <2>3. writes'[t] \in {writes[t], writes[t] + 1}
    BY <1>3, <1>4, <1>8
  <2>4. \A n \in {writes[t], writes[t] + 1} : n + (Cardinality(AtAudit(t)) - 1) <= audited[t]
    BY <1>3, <1>5, <1>6
  <2>5. QED
    BY <1>2, <2>2, <2>3, <2>4
<1>9. CASE t # Requested[i]
  <2>1. AtAudit(t)' = AtAudit(t)
    BY <1>1, <1>9 DEF AtAudit
  <2>2. writes'[t] = writes[t]
    BY <1>3, <1>4, <1>9
  <2>3. QED
    BY <1>2, <1>6, <2>1, <2>2
<1>10. QED
  BY <1>8, <1>9

LEMMA RowsAheadStep == SafetyInv /\ RowsAhead /\ [Next]_vars => RowsAhead'
<1> SUFFICES ASSUME SafetyInv, RowsAhead, [Next]_vars PROVE RowsAhead'
  OBVIOUS
<1>1. request' = request
  BY RequestKept DEF vars
<1>2. MayFail("audit")' <=> MayFail("audit")
  BY <1>1 DEF MayFail
<1>3. CASE MayFail("audit")
  BY <1>2, <1>3 DEF RowsAhead
<1>4. CASE ~MayFail("audit")
  <2> SUFFICES ASSUME NEW t \in WriteTools
               PROVE  writes'[t] + Cardinality(AtAudit(t)') <= audited'[t]
    BY DEF RowsAhead
  <2>1. writes[t] + Cardinality(AtAudit(t)) <= audited[t]
    BY <1>4 DEF RowsAhead
  <2>2. writes[t] \in Nat /\ audited[t] \in Nat /\ Cardinality(AtAudit(t)) \in Nat
    BY TypesOfCounters, ThreadsFinite DEF SafetyInv, AtAudit
  <2>3. ASSUME AtAudit(t)' = {}, UNCHANGED <<audited, writes>>
        PROVE  writes'[t] + Cardinality(AtAudit(t)') <= audited'[t]
    <3>1. Cardinality(AtAudit(t)') = 0
      BY <2>3, FS_EmptySet
    <3>2. writes[t] + 0 <= audited[t]
      BY <2>1, <2>2
    <3>3. QED
      BY <2>3, <3>1, <3>2
  <2>4. ASSUME NEW i \in DOMAIN workers, RunWorker(i)
        PROVE  writes'[t] + Cardinality(AtAudit(t)') <= audited'[t]
    <3>1. CASE AuditWrite(i)
      BY <1>4, <3>1, RowsAheadOfAudit
    <3>2. CASE RunWriteTool(i)
      BY <1>4, <3>2, RowsAheadOfWrite
    <3>3. CASE SkipTool(i) \/ RunReadTool(i)
      <4>1. workers[i].stage = "start" /\ workers'[i].stage = "finished"
            /\ UNCHANGED <<audited, writes>>
        BY <3>3 DEF SkipTool, RunReadTool, Finish, Worker
      <4>2. AtAudit(t)' = AtAudit(t)
        BY <2>4, <4>1, BatchKept DEF AtAudit
      <4>3. QED
        BY <2>1, <4>1, <4>2
    <3>4. QED
      BY <2>4, <3>1, <3>2, <3>3 DEF RunWorker
  <2>5. CASE DOMAIN workers = {} /\ UNCHANGED <<issues, steps, workers, audited, writes>>
    BY <2>3, <2>5 DEF AtAudit
  <2>6. CASE Submit
    <3>1. \A i \in DOMAIN workers' : workers'[i].stage = "start"
      BY <2>6 DEF Submit, NewWorker, Worker
    <3>2. QED
      BY <2>3, <2>6, <3>1 DEF Submit, AtAudit
  <2>7. CASE Join
    <3>1. DOMAIN workers' = {} /\ UNCHANGED <<audited, writes>>
      BY <2>7 DEF Join
    <3>2. QED
      BY <2>3, <3>1 DEF AtAudit
  <2>8. CASE UNCHANGED vars
    <3>1. AtAudit(t)' = AtAudit(t)
      BY <2>8 DEF vars, graph, AtAudit, Requested
    <3>2. QED
      BY <2>1, <2>8, <3>1 DEF vars
  <2>9. QED
    BY <2>4, <2>5, <2>6, <2>7, <2>8, StepKinds
<1>5. QED
  BY <1>3, <1>4

\* While PostgreSQL takes the audit rows, no write is without one, at any moment
\* of a batch of any size (_audit_write, run before the tool it is about).
THEOREM AuditPrecedesWrites == Spec => []WritesAudited
<1>1. Init => RowsAhead
  <2> SUFFICES ASSUME Init, NEW t \in WriteTools
               PROVE  writes[t] + Cardinality(AtAudit(t)) <= audited[t]
    BY DEF RowsAhead
  <2>1. writes[t] = 0 /\ audited[t] = 0
    BY DEF Init
  <2>2. workers = <<>>
    BY DEF Init
  <2>3. AtAudit(t) = {}
    BY <2>2 DEF AtAudit
  <2>4. QED
    BY <2>1, <2>3, FS_EmptySet
<1>2. SafetyInv /\ RowsAhead => WritesAudited
  <2> SUFFICES ASSUME SafetyInv, RowsAhead, ~MayFail("audit"), NEW t \in WriteTools
               PROVE  writes[t] <= audited[t]
    BY DEF WritesAudited
  <2>1. writes[t] \in Nat /\ audited[t] \in Nat /\ Cardinality(AtAudit(t)) \in Nat
    BY TypesOfCounters, ThreadsFinite DEF SafetyInv, AtAudit
  <2>2. QED
    BY <2>1 DEF RowsAhead
<1>3. QED
  BY <1>1, <1>2, RoleInit, SafetyStep, RowsAheadStep, PTL DEF Spec

-----------------------------------------------------------------------------
(* Writes and the issues they are made on *)

\* Issues are loaded by get_open_issues alone, whose thread leaves a step, and
\* a thread that may write has found some.
IssuesLookedUp ==
    /\ issues # NoName => steps["get_open_issues"] > 0
    /\ \A i \in DOMAIN workers :
          /\ workers[i].stage = "audited" => issues # NoName
          /\ workers[i].key = "issues" => /\ workers[i].step
                                          /\ Requested[i] = "get_open_issues"

WritesInv == SafetyInv /\ IssuesLookedUp /\ WritesNeedIssues

LEMMA OpenIssuesIsTool == "get_open_issues" \in Tools
BY DEF Tools, ReadTools

\* What a thread leaves behind in its record.
LEMMA IssuesOfThread ==
    ASSUME WritesInv, NEW i \in DOMAIN workers, RunWorker(i)
    PROVE  IssuesLookedUp'
<1>1. /\ UNCHANGED <<issues, steps>>
      /\ Requested' = Requested
      /\ DOMAIN workers' = DOMAIN workers
      /\ \A j \in DOMAIN workers : j # i => workers'[j] = workers[j]
  BY BatchKept DEF graph
<1>2. PICK S \in SUBSET (1..MaxBatch) : workers \in [S -> Workers]
  BY DEF WritesInv, SafetyInv, TypeOK
<1>3. CASE AuditWrite(i)
  <2>1. issues # NoName /\ workers'[i].key = workers[i].key
        /\ workers'[i].step = workers[i].step
    BY <1>2, <1>3 DEF AuditWrite, Workers
  <2>2. QED
    BY <1>1, <2>1 DEF WritesInv, IssuesLookedUp
<1>4. CASE RunWriteTool(i) \/ SkipTool(i)
  <2>1. workers'[i].stage = "finished" /\ workers'[i].key = "none"
    BY <1>4 DEF RunWriteTool, SkipTool, Finish, Worker
  <2>2. QED
    BY <1>1, <2>1 DEF WritesInv, IssuesLookedUp
<1>5. CASE RunReadTool(i)
  <2>1. /\ workers'[i].stage = "finished"
        /\ workers'[i].key = "issues" => /\ workers'[i].step
                                         /\ Requested[i] = "get_open_issues"
    BY <1>5 DEF RunReadTool, Finish, Worker
  <2>2. QED
    BY <1>1, <2>1 DEF WritesInv, IssuesLookedUp
<1>6. QED
  BY <1>3, <1>4, <1>5 DEF RunWorker

\* Join counts the steps that the threads left, so a count never falls, and the
\* thread that loaded the issues raises its tool's.
LEMMA StepsCounted ==
    ASSUME TypeOK, Join, NEW t \in Tools
    PROVE  /\ steps'[t] >= steps[t]
           /\ \A i \in StepsLeft(t) : steps'[t] > 0
<1>1. steps'[t] = steps[t] + Cardinality(StepsLeft(t))
  BY DEF Join
<1>2. steps[t] \in Nat
  BY TypesOfCounters
<1>3. IsFiniteSet(StepsLeft(t)) /\ Cardinality(StepsLeft(t)) \in Nat
  BY ThreadsFinite DEF StepsLeft
<1>4. StepsLeft(t) # {} => Cardinality(StepsLeft(t)) # 0
  BY <1>3, FS_EmptySet
<1>5. PICK c \in Nat : c = Cardinality(StepsLeft(t))
  BY <1>3
<1>6. steps[t] + c >= steps[t] /\ (c # 0 => steps[t] + c > 0)
  BY <1>2
<1>7. QED
  BY <1>1, <1>4, <1>5, <1>6

LEMMA WritesInvStep == WritesInv /\ [Next]_vars => WritesInv'
<1> SUFFICES ASSUME WritesInv, [Next]_vars PROVE WritesInv'
  OBVIOUS
<1>1. SafetyInv'
  BY SafetyStep DEF WritesInv
<1>2. CASE DOMAIN workers = {} /\ UNCHANGED <<issues, steps, workers, audited, writes>>
  BY <1>1, <1>2 DEF WritesInv, IssuesLookedUp, WritesNeedIssues
<1>3. CASE UNCHANGED vars
  BY <1>1, <1>3 DEF vars, graph, WritesInv, IssuesLookedUp, WritesNeedIssues, Requested
<1>4. CASE Submit
  <2>1. UNCHANGED <<issues, steps, writes>>
    BY <1>4 DEF Submit
  <2>2. \A i \in DOMAIN workers' : workers'[i].stage = "start" /\ workers'[i].key = "none"
    BY <1>4 DEF Submit, NewWorker, Worker
  <2>3. QED
    BY <1>1, <2>1, <2>2 DEF WritesInv, IssuesLookedUp, WritesNeedIssues
<1>5. ASSUME NEW i \in DOMAIN workers, RunWorker(i) PROVE WritesInv'
  <2>1. IssuesLookedUp'
    BY <1>5, IssuesOfThread
  <2>2. steps' = steps
    BY <1>5, BatchKept DEF graph
  <2>3. CASE writes' = writes
    BY <1>1, <2>1, <2>2, <2>3 DEF WritesInv, WritesNeedIssues
  <2>4. CASE RunWriteTool(i)
    <3>1. steps["get_open_issues"] > 0
      BY <2>4 DEF RunWriteTool, WritesInv, IssuesLookedUp
    <3>2. QED
      BY <1>1, <2>1, <2>2, <3>1 DEF WritesInv, WritesNeedIssues
  <2>5. QED
    BY <1>5, <2>3, <2>4 DEF RunWorker, AuditWrite, SkipTool, RunReadTool
<1>6. CASE Join
  <2>1. DOMAIN workers' = {} /\ writes' = writes
    BY <1>6 DEF Join
  <2>2. steps["get_open_issues"] \in Nat /\ steps'["get_open_issues"] \in Nat
    BY <1>1, OpenIssuesIsTool, TypesOfCounters DEF WritesInv, SafetyInv, TypeOK
  <2>3. steps'["get_open_issues"] >= steps["get_open_issues"]
    BY <1>6, StepsCounted, OpenIssuesIsTool DEF WritesInv, SafetyInv
  <2>4. PICK n \in Nat : n = steps'["get_open_issues"]
    BY <2>2
  <2>5. steps["get_open_issues"] > 0 => n > 0
    BY <2>2, <2>3, <2>4
  <2>6. ASSUME issues' # NoName PROVE n > 0
    <3>1. CASE issues' = issues
      BY <2>5, <2>6, <3>1 DEF WritesInv, IssuesLookedUp
    <3>2. CASE Wrote("issues") # {}
      <4>1. PICK i \in Wrote("issues") : TRUE
        BY <3>2
      <4>2. i \in StepsLeft("get_open_issues")
        BY <4>1 DEF Wrote, StepsLeft, WritesInv, IssuesLookedUp
      <4>3. QED
        BY <1>6, <2>4, <4>2, StepsCounted, OpenIssuesIsTool DEF WritesInv, SafetyInv
    <3>3. QED
      BY <1>6, <3>1, <3>2 DEF Join, Merge
  <2>7. \A t \in WriteTools : writes'[t] > 0 => n > 0
    BY <2>1, <2>5 DEF WritesInv, WritesNeedIssues
  <2>8. QED
    BY <1>1, <2>1, <2>4, <2>6, <2>7 DEF WritesInv, IssuesLookedUp, WritesNeedIssues
<1>7. QED
  BY <1>2, <1>3, <1>4, <1>5, <1>6, StepKinds DEF WritesInv

\* No write tool has written before get_open_issues has left a step, whatever
\* the LLM asks for and in whatever order the threads of a batch run (_execute's
\* guard on open_issues, read from the state before the batch).
THEOREM WritesFollowIssues == Spec => []WritesNeedIssues
<1>1. Init => WritesInv
  <2> SUFFICES ASSUME Init PROVE WritesInv
    OBVIOUS
  <2>1. SafetyInv
    BY RoleInit
  <2>2. issues = NoName /\ workers = <<>> /\ \A t \in WriteTools : writes[t] = 0
    BY DEF Init
  <2>3. QED
    BY <2>1, <2>2 DEF WritesInv, IssuesLookedUp, WritesNeedIssues
<1>2. WritesInv => WritesNeedIssues
  BY DEF WritesInv
<1>3. QED
  BY <1>1, <1>2, WritesInvStep, PTL DEF Spec

-----------------------------------------------------------------------------
(* Rule plans *)

\* The order of the customer steps; 0 for the tools that are no such step.
Rank == [t \in Tools |->
           CASE t = "get_customer_profile"  -> 1
             [] t = "get_open_issues"       -> 2
             [] t = "get_issue_history"     -> 3
             [] t = "recommend_next_action" -> 4
             [] OTHER                       -> 0]

\* The steps of p come in that order, each at most once, none beyond rank k.
Ascending(p, k) ==
    /\ p \in Seq(Tools)
    /\ Len(p) <= k
    /\ \A i \in 1..Len(p) : Rank[p[i]] \in 1..k
    /\ \A i, j \in 1..Len(p) : i < j => Rank[p[i]] < Rank[p[j]]

LEMMA AscendingExtended ==
    ASSUME NEW k \in Nat, NEW p, Ascending(p, k), NEW c,
           NEW t \in Tools, Rank[t] = k + 1
    PROVE  Ascending(p \o StepIf(c, t), k + 1)
<1>1. p \in Seq(Tools) /\ Len(p) \in Nat /\ Len(p) <= k
  BY LenProperties DEF Ascending
<1>2. CASE StepIf(c, t) = <<>>
  <2>1. p \o StepIf(c, t) = p
    BY <1>1, <1>2, ConcatEmptySeq
  <2>2. Ascending(p, k + 1)
    BY <1>1 DEF Ascending
  <2>3. QED
    BY <2>1, <2>2
<1>3. CASE StepIf(c, t) = <<t>>
  <2> DEFINE longer == p \o <<t>>
  <2>1. <<t>> \in Seq(Tools) /\ Len(<<t>>) = 1 /\ <<t>>[1] = t
    OBVIOUS
  <2>2. longer \in Seq(Tools) /\ Len(longer) = Len(p) + 1
    BY <1>1, <2>1, ConcatProperties
  <2>3. \A i \in 1..Len(p) + 1 : longer[i] = IF i <= Len(p) THEN p[i] ELSE <<t>>[i - Len(p)]
    BY <1>1, <2>1, ConcatProperties
  <2> HIDE DEF longer
  <2>4. \A i \in 1..Len(p) : longer[i] = p[i]
    BY <1>1, <2>3
  <2>5. longer[Len(p) + 1] = t
    BY <1>1, <2>1, <2>3
  <2>6. \A i \in 1..Len(longer) : i \in 1..Len(p) \/ i = Len(p) + 1
    BY <1>1, <2>2
  <2>7. /\ \A i \in 1..Len(p) : Rank[p[i]] \in 1..k
        /\ \A i, j \in 1..Len(p) : i < j => Rank[p[i]] < Rank[p[j]]
    BY DEF Ascending
  <2>8. \A i \in 1..Len(longer) : Rank[longer[i]] \in 1..(k + 1)
    BY <2>4, <2>5, <2>6, <2>7
  <2>9. \A i, j \in 1..Len(longer) : i < j => Rank[longer[i]] < Rank[longer[j]]
    <3> SUFFICES ASSUME NEW i \in 1..Len(longer), NEW j \in 1..Len(longer), i < j
                 PROVE  Rank[longer[i]] < Rank[longer[j]]
      OBVIOUS
    <3>1. i \in 1..Len(p)
      BY <1>1, <2>2
    <3>2. CASE j \in 1..Len(p)
      BY <2>4, <2>7, <3>1, <3>2
    <3>3. CASE j = Len(p) + 1
      BY <2>4, <2>5, <2>7, <3>1, <3>3
    <3>4. QED
      BY <2>6, <3>2, <3>3
  <2>10. Len(longer) <= k + 1
    BY <1>1, <2>2
  <2>11. QED
    BY <1>3, <2>2, <2>8, <2>9, <2>10 DEF Ascending, longer
<1>4. QED
  BY <1>2, <1>3 DEF StepIf

\* What the model needs to know of a plan: it is short enough for the loop, it
\* has no step twice, issues are opened before the steps that need one, and a
\* search for the customer excludes the steps that load the customer's data.
WellFormed(p) ==
    /\ p \in Seq(Tools)
    /\ Len(p) < MAX_ITERATIONS
    /\ \A i, j \in 1..Len(p) : p[i] = p[j] => i = j
    /\ \A i, j \in 1..Len(p) : p[i] = "get_open_issues" /\ NeedsIssue(p[j]) => i < j
    /\ \A i, j \in 1..Len(p) :
          p[i] = "search_customers" => p[j] \notin {"get_open_issues", "get_customer_profile"}

LEMMA ToolNames ==
    {"list_all_open_issues", "get_customer_profile", "get_open_issues", "get_issue_history",
     "semantic_search_issues", "search_customers", "recommend_next_action"} \subseteq Tools
BY DEF Tools, ReadTools, WriteTools

LEMMA CustomerStepsWellFormed == ASSUME NEW q PROVE WellFormed(CustomerSteps(q))
<1> DEFINE p == CustomerSteps(q)
<1>1. /\ Rank["get_customer_profile"] = 1
      /\ Rank["get_open_issues"] = 2
      /\ Rank["get_issue_history"] = 3
      /\ Rank["recommend_next_action"] = 4
  BY ToolNames DEF Rank
<1>2. Ascending(<<"get_customer_profile">>, 1)
  <2>1. /\ <<"get_customer_profile">> \in Seq(Tools)
        /\ Len(<<"get_customer_profile">>) = 1
        /\ <<"get_customer_profile">>[1] = "get_customer_profile"
    BY ToolNames
  <2>2. QED
    BY <1>1, <2>1 DEF Ascending
<1>3. Ascending(p, 4)
  <2>1. Ascending(<<"get_customer_profile">>
                    \o StepIf(Mentions(q, IssueWords), "get_open_issues"), 2)
    BY <1>1, <1>2, ToolNames, AscendingExtended
  <2>2. Ascending(<<"get_customer_profile">>
                    \o StepIf(Mentions(q, IssueWords), "get_open_issues")
                    \o StepIf(Mentions(q, HistoryWords), "get_issue_history"), 3)
    BY <1>1, <2>1, ToolNames, AscendingExtended
  <2>3. QED
    BY <1>1, <2>2, ToolNames, AscendingExtended DEF CustomerSteps
<1> HIDE DEF p
<1>4. p \in Seq(Tools) /\ \A i \in 1..Len(p) : p[i] \in Tools
  BY <1>3, ElementOfSeq DEF Ascending
<1>5. Len(p) \in Nat /\ Len(p) < MAX_ITERATIONS
  BY <1>3, <1>4, LenProperties DEF Ascending, MAX_ITERATIONS
<1>6. \A i, j \in 1..Len(p) : p[i] = p[j] => i = j
  BY <1>3 DEF Ascending
<1>7. \A t \in Tools : NeedsIssue(t) /\ Rank[t] # 0 => Rank[t] > 2
  BY DEF NeedsIssue, WriteTools, Rank, Tools, ReadTools
<1>8. \A i, j \in 1..Len(p) : p[i] = "get_open_issues" /\ NeedsIssue(p[j]) => i < j
  BY <1>1, <1>3, <1>4, <1>7 DEF Ascending
<1>9. Rank["search_customers"] = 0
  BY ToolNames DEF Rank
<1>10. \A i \in 1..Len(p) : p[i] # "search_customers"
  BY <1>3, <1>9 DEF Ascending
<1>11. QED
  BY <1>4, <1>5, <1>6, <1>8, <1>10 DEF WellFormed, p

LEMMA OneStepWellFormed ==
    ASSUME NEW t \in Tools, ~NeedsIssue(t) PROVE WellFormed(<<t>>)
<1>1. <<t>> \in Seq(Tools) /\ Len(<<t>>) = 1 /\ <<t>>[1] = t
  OBVIOUS
<1>2. QED
  BY <1>1 DEF WellFormed, MAX_ITERATIONS

\* Every rule plan is such a plan.
LEMMA RulePlanWellFormed == \A q : WellFormed(BuildRulePlan(q).steps)
<1>1. \A t \in {"semantic_search_issues", "list_all_open_issues", "search_customers"} :
            WellFormed(<<t>>)
  BY OneStepWellFormed, ToolNames DEF NeedsIssue, WriteTools
<1>2. \A name, p : Plan(name, p).steps = p
  BY DEF Plan
<1>3. QED
  BY <1>1, <1>2, CustomerStepsWellFormed DEF BuildRulePlan

-----------------------------------------------------------------------------
(* Requests served by the rules *)

RuleSteps == BuildRulePlan(request.query).steps

Before == {"guard", "cache_lookup", "pre_flight"}
Batching == {"rbac_gate", "execute", "running"}
After == {"risk_assess", "answer", "answered"}

\* The iteration count is the number of steps taken from the plan, and the queue
\* is what is left of it; the loop is left only when nothing is.
QueueInv ==
    /\ nextTools = <<>>
    /\ pc \in Before => planQueue = NotBuilt
    /\ planQueue = NotBuilt =>
          /\ pc \notin Batching \cup After
          /\ iteration = 0
          /\ steps = [t \in Tools |-> 0]
          /\ issues = NoName /\ profile = NoName
    /\ planQueue # NotBuilt =>
          /\ iteration \in 0..Len(RuleSteps)
          /\ planQueue = SubSeq(RuleSteps, iteration + 1, Len(RuleSteps))
    /\ pc \in Batching => iteration > 0 /\ nextTool = RuleSteps[iteration]
    /\ pc \in After => iteration = Len(RuleSteps)

\* The data at hand come from the plan's own steps; a thread that leaves no step
\* had no issue to work on.
ThreadsInv ==
    /\ issues # NoName => \E i \in 1..Len(RuleSteps) : RuleSteps[i] = "get_open_issues"
    /\ profile # NoName => \E i \in 1..Len(RuleSteps) : RuleSteps[i] = "get_customer_profile"
    /\ pc = "running" => 1 \in DOMAIN workers
    /\ \A i \in DOMAIN workers :
          /\ workers[i].key = "issues" => Requested[i] = "get_open_issues"
          /\ workers[i].key = "profile" => Requested[i] = "get_customer_profile"
          /\ workers[i].key = "customer" => Requested[i] = "search_customers"
          /\ workers[i].stage = "finished" /\ ~workers[i].step =>
                /\ NeedsIssue(Requested[i])
                /\ issues = NoName
                /\ workers[i].key = "none"

\* How many steps of the plan are over; the one being executed is not.
Ran == IF pc \in Batching THEN iteration - 1 ELSE iteration

StepOver(i) ==
    steps[RuleSteps[i]] = 1 \/ (NeedsIssue(RuleSteps[i]) /\ issues = NoName)

\* The steps of the plan are over in the plan's order.
InOrder ==
    pc \notin Ended \ {"answered"} =>
        /\ \A i \in 1..Ran : StepOver(i)
        /\ \A i \in 1..Len(RuleSteps) : i > Ran => steps[RuleSteps[i]] = 0

RulesInv == SafetyInv /\ (~request.key => QueueInv /\ ThreadsInv /\ InOrder)

LEMMA RuleStepsWellFormed ==
    /\ WellFormed(RuleSteps)
    /\ Len(RuleSteps) \in Nat
    /\ \A i \in 1..Len(RuleSteps) : RuleSteps[i] \in Tools /\ RuleSteps[i] # "done"
<1>1. WellFormed(RuleSteps)
  BY RulePlanWellFormed DEF RuleSteps
<1>2. RuleSteps \in Seq(Tools)
  BY <1>1 DEF WellFormed
<1>3. Len(RuleSteps) \in Nat /\ \A i \in 1..Len(RuleSteps) : RuleSteps[i] \in Tools
  BY <1>2, LenProperties, ElementOfSeq
<1>4. "done" \notin Tools
  BY DEF Tools, ReadTools, WriteTools
<1>5. QED
  BY <1>1, <1>3, <1>4

\* The queue that a call of _think_rule works on is the rest of the plan,
\* whether it is the first call or a later one.
LEMMA QueueOfThink ==
    ASSUME QueueInv, NEW queue,
           queue = IF planQueue = NotBuilt THEN RuleSteps ELSE planQueue
    PROVE  /\ iteration \in 0..Len(RuleSteps)
           /\ queue = SubSeq(RuleSteps, iteration + 1, Len(RuleSteps))
           /\ queue = <<>> => iteration = Len(RuleSteps)
           /\ queue # <<>> =>
                /\ iteration + 1 \in 1..Len(RuleSteps)
                /\ Head(queue) = RuleSteps[iteration + 1]
                /\ Tail(queue) = SubSeq(RuleSteps, iteration + 2, Len(RuleSteps))
<1>1. RuleSteps \in Seq(Tools) /\ Len(RuleSteps) \in Nat
  BY RuleStepsWellFormed DEF WellFormed
<1>2. /\ iteration \in 0..Len(RuleSteps)
      /\ queue = SubSeq(RuleSteps, iteration + 1, Len(RuleSteps))
  <2>1. CASE planQueue = NotBuilt
    BY <1>1, <2>1, SubSeqFull DEF QueueInv
  <2>2. CASE planQueue # NotBuilt
    BY <2>2 DEF QueueInv
  <2>3. QED
    BY <2>1, <2>2
<1>3. CASE iteration = Len(RuleSteps)
  <2>1. Len(RuleSteps) < iteration + 1 /\ iteration + 1 \in Int
    BY <1>1, <1>3
  <2>2. queue = <<>>
    BY <1>1, <1>2, <2>1, SubSeqEmpty
  <2>3. QED
    BY <1>2, <1>3, <2>2
<1>4. CASE iteration # Len(RuleSteps)
  <2>1. iteration + 1 \in 1..Len(RuleSteps) /\ Len(RuleSteps) \in (iteration + 1)..Len(RuleSteps)
    BY <1>1, <1>2, <1>4
  <2>2. /\ Head(queue) = RuleSteps[iteration + 1]
        /\ Tail(queue) = SubSeq(RuleSteps, (iteration + 1) + 1, Len(RuleSteps))
    BY <1>1, <1>2, <2>1, HeadTailOfSubSeq
  <2>3. (iteration + 1) + 1 = iteration + 2
    BY <1>2
  <2>4. Len(queue) # 0
    <3>1. \A i \in (iteration + 1)..Len(RuleSteps) : RuleSteps[i] \in Tools
      BY <1>1, <1>2, RuleStepsWellFormed
    <3>2. Len(queue) = Len(RuleSteps) - (iteration + 1) + 1
      BY <1>1, <1>2, <2>1, <3>1, SubSeqProperties
    <3>3. QED
      BY <1>1, <2>1, <3>2
  <2>5. queue # <<>>
    BY <2>4
  <2>6. QED
    BY <1>2, <2>1, <2>2, <2>3, <2>5
<1>5. QED
  BY <1>3, <1>4

\* A request without a key runs one tool at a time: the step it has taken.
LEMMA OneThread ==
    ASSUME RulesInv, ~request.key
    PROVE  /\ Requested = <<nextTool>>
           /\ DOMAIN Requested = {1} /\ Requested[1] = nextTool
           /\ DOMAIN workers \subseteq {1}
           /\ pc = "running" => DOMAIN workers = {1}
<1>1. nextTools = <<>>
  BY DEF RulesInv, QueueInv
<1>2. Requested = <<nextTool>>
  BY <1>1 DEF Requested
<1>3. \A tool : DOMAIN <<tool>> = {1} /\ <<tool>>[1] = tool
  OBVIOUS
<1>4. DOMAIN Requested = {1} /\ Requested[1] = nextTool
  BY <1>2, <1>3, Zenon
<1>5. DOMAIN workers \subseteq {1}
  BY <1>4 DEF RulesInv, SafetyInv, ThreadsInBatch
<1>6. QED
  BY <1>2, <1>4, <1>5 DEF RulesInv, ThreadsInv

\* Steps that only move the request on keep everything the rules rely on.
LEMMA RulesMoveOn ==
    ASSUME RulesInv, ~request.key,
           UNCHANGED <<request, iteration, issues, profile, steps, nextTools, nextTool,
                       planQueue, workers>>,
           \/ pc' = pc
           \/ pc' \in Ended \ {"answered"}
           \/ pc \in Before /\ pc' \in Before \cup {"think"}
           \/ pc = "rbac_gate" /\ pc' = "execute"
           \/ pc \in After /\ pc' \in After
    PROVE  QueueInv' /\ ThreadsInv' /\ InOrder'
<1>1. Requested' = Requested /\ RuleSteps' = RuleSteps
  BY DEF Requested, RuleSteps
<1>2. QueueInv /\ ThreadsInv /\ InOrder
  BY DEF RulesInv
<1>3. QueueInv'
  BY <1>1, <1>2 DEF QueueInv, Before, Batching, After, Ended
<1>5. pc' = "running" => pc = "running"
  BY DEF Before, After, Ended
<1>6. ThreadsInv'
  BY <1>1, <1>2, <1>5 DEF ThreadsInv
<1>7. InOrder'
  <2>1. pc' \notin Ended \ {"answered"} => pc \notin Ended \ {"answered"}
    BY DEF Before, After, Ended
  <2>2. pc' \notin Ended \ {"answered"} => (pc' \in Batching <=> pc \in Batching)
    BY DEF Before, Batching, After, Ended
  <2>3. pc' \notin Ended \ {"answered"} => Ran' = Ran
    BY <2>2 DEF Ran
  <2>4. \A i : StepOver(i)' <=> StepOver(i)
    BY <1>1 DEF StepOver
  <2>5. QED
    BY <1>1, <1>2, <2>1, <2>3, <2>4 DEF InOrder
<1>8. QED
  BY <1>3, <1>6, <1>7

\* A call of _think_rule takes one step off the queue, or finds it empty and
\* leaves the loop; the iteration bound never stops a plan.
LEMMA RulesThink ==
    ASSUME RulesInv, ~request.key, ThinkRule
    PROVE  QueueInv' /\ ThreadsInv' /\ InOrder'
<1> DEFINE queue == IF planQueue = NotBuilt THEN RuleSteps ELSE planQueue
<1>1. UNCHANGED <<request, issues, profile, steps, nextTools, workers>> /\ pc = "think"
  BY DEF ThinkRule, RunNode
<1>2. RuleSteps' = RuleSteps
  BY <1>1 DEF RuleSteps
<1>3. QueueInv /\ ThreadsInv /\ InOrder /\ nextTools = <<>>
  BY DEF RulesInv, QueueInv
<1>4. DOMAIN workers = {}
  BY <1>1 DEF RulesInv, SafetyInv, ThreadsInBatch
<1>6. /\ RuleSteps \in Seq(Tools)
      /\ Len(RuleSteps) \in Nat
      /\ Len(RuleSteps) < MAX_ITERATIONS
      /\ \A i \in 1..Len(RuleSteps) : RuleSteps[i] \in Tools /\ RuleSteps[i] # "done"
  BY RuleStepsWellFormed DEF WellFormed
<1>7. /\ iteration \in 0..Len(RuleSteps)
      /\ queue = SubSeq(RuleSteps, iteration + 1, Len(RuleSteps))
      /\ queue = <<>> => iteration = Len(RuleSteps)
      /\ queue # <<>> =>
            /\ iteration + 1 \in 1..Len(RuleSteps)
            /\ Head(queue) = RuleSteps[iteration + 1]
            /\ Tail(queue) = SubSeq(RuleSteps, iteration + 2, Len(RuleSteps))
  BY <1>3, QueueOfThink
<1>8. pc' = AfterThink(<<>>, nextTool', iteration')
  BY <1>3 DEF ThinkRule
<1>9. \/ queue # <<>> /\ nextTool' = Head(queue) /\ planQueue' = Tail(queue)
            /\ iteration' = iteration + 1
      \/ queue = <<>> /\ nextTool' = "done" /\ planQueue' = <<>> /\ iteration' = iteration
  BY DEF ThinkRule, Rest, RuleSteps
<1>10. \A n \in Int : SubSeq(RuleSteps, n, Len(RuleSteps)) # NotBuilt \/ n < 1
  <2> SUFFICES ASSUME NEW n \in Int, ~(n < 1)
               PROVE  SubSeq(RuleSteps, n, Len(RuleSteps)) \in Seq(Tools)
    BY AgentAssumption
  <2>1. \A i \in n..Len(RuleSteps) : RuleSteps[i] \in Tools
    BY <1>6
  <2>2. QED
    BY <1>6, <2>1, SubSeqProperties
<1> HIDE DEF queue
<1>11. CASE queue # <<>>
  <2>1. PICK n \in 1..Len(RuleSteps) : n = iteration + 1
    BY <1>7, <1>11
  <2>2. /\ iteration' = n
        /\ nextTool' = RuleSteps[n]
        /\ planQueue' = SubSeq(RuleSteps, n + 1, Len(RuleSteps))
    <3>1. n + 1 = iteration + 2
      BY <1>7, <2>1
    <3>2. QED
      BY <1>7, <1>9, <1>11, <2>1, <3>1
  <2>3. ~(n >= MAX_ITERATIONS) /\ n \in 0..Len(RuleSteps) /\ n > 0 /\ n + 1 \in Int /\ ~(n + 1 < 1)
    BY <1>6 DEF MAX_ITERATIONS
  <2>4. pc' = "rbac_gate"
    BY <1>6, <1>8, <2>2, <2>3 DEF AfterThink
  <2>5. planQueue' # NotBuilt
    BY <1>10, <2>2, <2>3
  <2>6. QueueInv'
    BY <1>1, <1>2, <1>3, <2>2, <2>3, <2>4, <2>5 DEF QueueInv, Before, Batching, After
  <2>7. Ran = n - 1 /\ Ran' = n - 1
    BY <1>1, <1>7, <2>1, <2>2, <2>4 DEF Ran, Batching
  <2>8. QED
    BY <1>1, <1>2, <1>3, <1>4, <2>4, <2>6, <2>7
       DEF ThreadsInv, InOrder, StepOver, Ended
<1>12. CASE queue = <<>>
  <2>1. PICK n \in Nat : n = iteration /\ n = Len(RuleSteps)
    BY <1>6, <1>7, <1>12
  <2>2. iteration' = n /\ nextTool' = "done" /\ planQueue' = <<>>
    BY <1>9, <1>12, <2>1
  <2>3. SubSeq(RuleSteps, n + 1, Len(RuleSteps)) = <<>>
    BY <1>7, <1>12, <2>1
  <2>4. pc' = "risk_assess"
    BY <1>8, <2>2 DEF AfterThink
  <2>5. planQueue' # NotBuilt
    <3>1. <<>> \in Seq(Tools)
      OBVIOUS
    <3>2. QED
      BY <2>2, <3>1, AgentAssumption
  <2>6. n \in 0..Len(RuleSteps)
    BY <2>1
  <2>7. QueueInv'
    BY <1>1, <1>2, <1>3, <2>1, <2>2, <2>3, <2>4, <2>5, <2>6
       DEF QueueInv, Before, Batching, After
  <2>8. Ran = n /\ Ran' = n
    BY <1>1, <2>1, <2>2, <2>4 DEF Ran, Batching
  <2>9. QED
    BY <1>1, <1>2, <1>3, <1>4, <2>4, <2>7, <2>8
       DEF ThreadsInv, InOrder, StepOver, Ended
<1>13. QED
  BY <1>11, <1>12

\* The step taken is handed to one thread.
LEMMA RulesSubmit ==
    ASSUME RulesInv, ~request.key, Submit
    PROVE  QueueInv' /\ ThreadsInv' /\ InOrder'
<1>1. /\ UNCHANGED <<request, iteration, issues, profile, steps, nextTools, nextTool, planQueue>>
      /\ pc = "execute" /\ pc' = "running"
  BY DEF Submit, RunNode
<1>2. Requested' = Requested /\ RuleSteps' = RuleSteps
  BY <1>1 DEF Requested, RuleSteps
<1>3. QueueInv /\ ThreadsInv /\ InOrder
  BY DEF RulesInv
<1>4. QueueInv'
  BY <1>1, <1>2, <1>3 DEF QueueInv, Before, Batching, After
<1>5. iteration \in 1..Len(RuleSteps) /\ nextTool = RuleSteps[iteration]
  <2>1. planQueue # NotBuilt
    BY <1>1, <1>3 DEF QueueInv, Batching
  <2>2. QED
    BY <1>1, <1>3, <2>1, RuleStepsWellFormed DEF QueueInv, Batching
<1>6. DOMAIN Requested = {1} /\ Requested[1] = nextTool /\ nextTool # "done"
  BY <1>5, OneThread, RuleStepsWellFormed
<1>7. 1 \in DOMAIN workers' /\ \A i \in DOMAIN workers' : workers'[i] = NewWorker
  BY <1>6 DEF Submit
<1>8. ThreadsInv'
  BY <1>1, <1>2, <1>3, <1>7 DEF ThreadsInv, NewWorker, Worker
<1>9. InOrder'
  BY <1>1, <1>2, <1>3 DEF InOrder, Ran, StepOver, Batching, Ended
<1>10. QED
  BY <1>4, <1>8, <1>9

\* What a thread may leave behind.
LEMMA RulesThread ==
    ASSUME RulesInv, ~request.key, NEW i \in DOMAIN workers, RunWorker(i)
    PROVE  QueueInv' /\ ThreadsInv' /\ InOrder'
<1>1. /\ UNCHANGED <<request, pc, graph>>
      /\ Requested' = Requested
      /\ DOMAIN workers' = DOMAIN workers
      /\ \A j \in DOMAIN workers : j # i => workers'[j] = workers[j]
  BY BatchKept
<1>2. QueueInv /\ ThreadsInv /\ InOrder
  BY DEF RulesInv
<1>3. RuleSteps' = RuleSteps
  BY <1>1 DEF RuleSteps
<1>4. QueueInv' /\ InOrder'
  BY <1>1, <1>2, <1>3 DEF QueueInv, InOrder, Ran, StepOver, graph
<1>5. PICK S \in SUBSET (1..MaxBatch) : workers \in [S -> Workers]
  BY DEF RulesInv, SafetyInv, TypeOK
<1>6. /\ workers'[i].key = "issues" => Requested[i] = "get_open_issues"
      /\ workers'[i].key = "profile" => Requested[i] = "get_customer_profile"
      /\ workers'[i].key = "customer" => Requested[i] = "search_customers"
      /\ workers'[i].stage = "finished" /\ ~workers'[i].step =>
            /\ NeedsIssue(Requested[i])
            /\ issues = NoName
            /\ workers'[i].key = "none"
  <2>1. CASE AuditWrite(i)
    <3>1. workers'[i] = [workers[i] EXCEPT !.stage = "audited"]
      BY <1>5, <2>1 DEF AuditWrite
    <3>2. workers'[i].stage = "audited" /\ workers'[i].key = workers[i].key
          /\ workers'[i].val = workers[i].val
      BY <1>5, <3>1 DEF Workers
    <3>3. QED
      BY <1>2, <3>2 DEF ThreadsInv
  <2>2. CASE RunWriteTool(i)
    BY <2>2 DEF RunWriteTool, Finish, Worker
  <2>3. CASE SkipTool(i)
    BY <2>3 DEF SkipTool, Finish, Worker
  <2>4. CASE RunReadTool(i)
    BY <2>4 DEF RunReadTool, Finish, Worker
  <2>5. QED
    BY <2>1, <2>2, <2>3, <2>4 DEF RunWorker
<1>7. ThreadsInv'
  BY <1>1, <1>2, <1>3, <1>6 DEF ThreadsInv, graph
<1>8. QED
  BY <1>4, <1>7

\* Of the one thread's step, counted when the batch is joined.
LEMMA RulesStepCounted ==
    ASSUME RulesInv, ~request.key, Join, NEW t \in Tools
    PROVE  steps'[t] = IF workers[1].step /\ t = nextTool THEN steps[t] + 1 ELSE steps[t]
<1>1. pc = "running" /\ steps'[t] = steps[t] + Cardinality(StepsLeft(t))
  BY DEF Join
<1>2. DOMAIN workers = {1} /\ Requested[1] = nextTool
  BY <1>1, OneThread
<1>3. steps[t] \in Nat
  BY TypesOfCounters DEF RulesInv, SafetyInv
<1>4. CASE workers[1].step /\ t = nextTool
  <2>1. StepsLeft(t) = {1}
    BY <1>2, <1>4 DEF StepsLeft
  <2>2. Cardinality(StepsLeft(t)) = 1
    BY <2>1, FS_Singleton
  <2>3. QED
    BY <1>1, <1>4, <2>2
<1>5. CASE ~(workers[1].step /\ t = nextTool)
  <2>1. StepsLeft(t) = {}
    BY <1>2, <1>5 DEF StepsLeft
  <2>2. Cardinality(StepsLeft(t)) = 0
    BY <2>1, FS_EmptySet
  <2>3. steps[t] + 0 = steps[t]
    BY <1>3
  <2>4. QED
    BY <1>1, <1>5, <2>2, <2>3
<1>6. QED
  BY <1>4, <1>5

\* Of the one thread's result, stored when the batch is joined.
LEMMA RulesMerged ==
    ASSUME RulesInv, ~request.key, Join
    PROVE  /\ issues' = IF workers[1].key = "issues" THEN workers[1].val ELSE issues
           /\ profile' = IF workers[1].key = "profile" THEN workers[1].val ELSE profile
<1>1. DOMAIN workers = {1}
  BY OneThread DEF Join
<1>2. ASSUME NEW key, NEW old, NEW new, Merge(key, old, new)
      PROVE  new = IF workers[1].key = key THEN workers[1].val ELSE old
  <2>1. CASE workers[1].key = key
    <3>1. Wrote(key) = {1}
      BY <1>1, <2>1 DEF Wrote
    <3>2. QED
      BY <1>2, <2>1, <3>1 DEF Merge
  <2>2. CASE workers[1].key # key
    <3>1. Wrote(key) = {}
      BY <1>1, <2>2 DEF Wrote
    <3>2. QED
      BY <1>2, <2>2, <3>1 DEF Merge
  <2>3. QED
    BY <2>1, <2>2
<1>3. Merge("issues", issues, issues') /\ Merge("profile", profile, profile')
  BY DEF Join
<1>4. QED
  BY <1>2, <1>3

\* The thread's step is over, and the steps before it stay so: get_open_issues,
\* which alone could give a skipped step its issue, comes before that step.
LEMMA RulesJoin ==
    ASSUME RulesInv, ~request.key, Join
    PROVE  QueueInv' /\ ThreadsInv' /\ InOrder'
<1>1. /\ UNCHANGED <<request, iteration, nextTools, nextTool, planQueue>>
      /\ pc = "running" /\ pc' = "think" /\ DOMAIN workers' = {}
  BY DEF Join
<1>2. RuleSteps' = RuleSteps
  BY <1>1 DEF RuleSteps
<1>3. QueueInv /\ ThreadsInv /\ InOrder
  BY DEF RulesInv
<1>4. /\ planQueue # NotBuilt
      /\ iteration \in 1..Len(RuleSteps)
      /\ nextTool = RuleSteps[iteration]
  <2>1. planQueue # NotBuilt
    BY <1>1, <1>3 DEF QueueInv, Batching
  <2>2. QED
    BY <1>1, <1>3, <2>1, RuleStepsWellFormed DEF QueueInv, Batching
<1>5. QueueInv'
  BY <1>1, <1>2, <1>3, <1>4 DEF QueueInv, Before, Batching, After
<1>6. DOMAIN workers = {1} /\ Requested[1] = nextTool /\ workers[1].stage = "finished"
  BY <1>1, OneThread DEF Join
<1>7. /\ workers[1].key = "issues" => nextTool = "get_open_issues"
      /\ workers[1].key = "profile" => nextTool = "get_customer_profile"
      /\ ~workers[1].step => NeedsIssue(nextTool) /\ issues = NoName /\ workers[1].key = "none"
  BY <1>3, <1>6 DEF ThreadsInv
<1>8. /\ issues' = IF workers[1].key = "issues" THEN workers[1].val ELSE issues
      /\ profile' = IF workers[1].key = "profile" THEN workers[1].val ELSE profile
  BY RulesMerged
<1>9. /\ \A i, j \in 1..Len(RuleSteps) : RuleSteps[i] = RuleSteps[j] => i = j
      /\ \A i, j \in 1..Len(RuleSteps) :
            RuleSteps[i] = "get_open_issues" /\ NeedsIssue(RuleSteps[j]) => i < j
      /\ \A i \in 1..Len(RuleSteps) : RuleSteps[i] \in Tools
      /\ Len(RuleSteps) \in Nat
  BY RuleStepsWellFormed DEF WellFormed
<1>10. ThreadsInv'
  <2>1. issues' # NoName => \E i \in 1..Len(RuleSteps) : RuleSteps[i] = "get_open_issues"
    BY <1>3, <1>4, <1>7, <1>8 DEF ThreadsInv
  <2>2. profile' # NoName => \E i \in 1..Len(RuleSteps) : RuleSteps[i] = "get_customer_profile"
    BY <1>3, <1>4, <1>7, <1>8 DEF ThreadsInv
  <2>3. QED
    BY <1>1, <1>2, <2>1, <2>2 DEF ThreadsInv
<1>11. Ran = iteration - 1 /\ Ran' = iteration
  BY <1>1 DEF Ran, Batching
<1>12. \A i \in 1..Len(RuleSteps) :
           steps'[RuleSteps[i]] = IF workers[1].step /\ i = iteration
                                     THEN steps[RuleSteps[i]] + 1
                                     ELSE steps[RuleSteps[i]]
  BY <1>4, <1>9, RulesStepCounted
<1>13. /\ \A i \in 1..(iteration - 1) : StepOver(i)
       /\ \A i \in 1..Len(RuleSteps) : i > iteration - 1 => steps[RuleSteps[i]] = 0
  BY <1>1, <1>3, <1>11 DEF InOrder, Ended
<1>14. \A i \in 1..Len(RuleSteps) : i > iteration => steps'[RuleSteps[i]] = 0
  BY <1>4, <1>12, <1>13
<1>15. \A i \in 1..iteration : StepOver(i)'
  <2> SUFFICES ASSUME NEW i \in 1..iteration PROVE StepOver(i)'
    OBVIOUS
  <2>1. CASE i = iteration
    <3>1. CASE workers[1].step
      <4>1. steps[RuleSteps[i]] = 0
        BY <1>4, <1>13, <2>1
      <4>2. steps'[RuleSteps[i]] = 1
        BY <1>4, <1>12, <2>1, <3>1, <4>1
      <4>3. QED
        BY <1>2, <4>2 DEF StepOver
    <3>2. CASE ~workers[1].step
      <4>1. NeedsIssue(RuleSteps[i]) /\ issues' = NoName
        BY <1>4, <1>7, <1>8, <2>1, <3>2
      <4>2. QED
        BY <1>2, <4>1 DEF StepOver
    <3>3. QED
      BY <3>1, <3>2
  <2>2. CASE i # iteration
    <3>1. i \in 1..(iteration - 1) /\ i \in 1..Len(RuleSteps) /\ i < iteration
      BY <1>4, <1>9, <2>2
    <3>2. CASE steps[RuleSteps[i]] = 1
      BY <1>2, <1>12, <2>2, <3>1, <3>2 DEF StepOver
    <3>3. CASE NeedsIssue(RuleSteps[i]) /\ issues = NoName
      <4>1. ~(iteration < i)
        BY <1>4, <1>9, <3>1
      <4>2. nextTool # "get_open_issues"
        BY <1>4, <1>9, <3>1, <3>3, <4>1
      <4>3. issues' = NoName
        BY <1>7, <1>8, <3>3, <4>2
      <4>4. QED
        BY <1>2, <3>3, <4>3 DEF StepOver
    <3>4. QED
      BY <1>13, <3>1, <3>2, <3>3 DEF StepOver
  <2>3. QED
    BY <2>1, <2>2
<1>16. InOrder'
  BY <1>2, <1>11, <1>14, <1>15 DEF InOrder
<1>17. QED
  BY <1>5, <1>10, <1>16

LEMMA RulesInvStep == RulesInv /\ [Next]_vars => RulesInv'
<1> SUFFICES ASSUME RulesInv, [Next]_vars PROVE RulesInv'
  OBVIOUS
<1>1. SafetyInv' /\ request' = request
  BY SafetyStep, RequestKept DEF RulesInv, vars
<1> SUFFICES ASSUME ~request.key PROVE QueueInv' /\ ThreadsInv' /\ InOrder'
  BY <1>1 DEF RulesInv
<1>2. CASE CheckPrompt \/ CacheLookup \/ PreFlight \/ RbacGate \/ RiskAssess \/ Record
           \/ Abort \/ ClientGone
  <2>1. UNCHANGED <<request, iteration, issues, profile, steps, nextTools, nextTool,
                    planQueue, workers>>
    BY <1>2 DEF CheckPrompt, CacheLookup, PreFlight, RbacGate, RiskAssess, Record, Abort,
                ClientGone, graph, RunNode, Before
  <2>2. \/ pc' \in Ended \ {"answered"}
        \/ pc \in Before /\ pc' \in Before \cup {"think"}
        \/ pc = "rbac_gate" /\ pc' = "execute"
        \/ pc \in After /\ pc' \in After
    BY <1>2 DEF CheckPrompt, CacheLookup, PreFlight, RbacGate, RiskAssess, Record, Abort,
                ClientGone, RunNode, Before, After, Ended
  <2>3. QED
    BY <2>1, <2>2, RulesMoveOn
<1>3. CASE UNCHANGED vars
  BY <1>3, RulesMoveOn DEF vars, graph
<1>4. ~ThinkLlm
  BY DEF ThinkLlm
<1>5. CASE ThinkRule
  BY <1>5, RulesThink
<1>6. CASE Submit
  BY <1>6, RulesSubmit
<1>7. ASSUME NEW i \in DOMAIN workers, RunWorker(i)
      PROVE  QueueInv' /\ ThreadsInv' /\ InOrder'
  BY <1>7, RulesThread
<1>8. CASE Join
  BY <1>8, RulesJoin
<1>9. QED
  BY <1>2, <1>3, <1>4, <1>5, <1>6, <1>7, <1>8 DEF Next, Agent, Stop

LEMMA RulesInit == Init => RulesInv
<1> SUFFICES ASSUME Init PROVE RulesInv
  OBVIOUS
<1>1. SafetyInv
  BY RoleInit
<1>2. /\ pc = "guard" /\ iteration = 0 /\ issues = NoName /\ profile = NoName
      /\ nextTools = <<>>
      /\ steps = [t \in Tools |-> 0] /\ planQueue = NotBuilt /\ workers = <<>>
  BY DEF Init
<1>3. QueueInv
  BY <1>2 DEF QueueInv, Before, Batching, After
<1>4. ThreadsInv
  BY <1>2 DEF ThreadsInv
<1>5. Ran = 0 /\ \A i \in 1..0 : FALSE
  BY <1>2 DEF Ran, Batching
<1>6. InOrder
  BY <1>2, <1>5, RuleStepsWellFormed DEF InOrder
<1>7. QED
  BY <1>1, <1>3, <1>4, <1>6 DEF RulesInv

-----------------------------------------------------------------------------
(* The data at hand and the customer *)

\* What the threads of a batch bring is of the customer that the batch's tools look
\* up, and before the loop there is no data; by the rules alone there is none
\* before the plan is built, nor in the run of a search.
FetchedOfCustomer ==
    /\ pc \in Before => issues = NoName /\ profile = NoName
    /\ \A i \in DOMAIN workers :
          workers[i].key \in {"issues", "profile"} => workers[i].val \in LookedUp

LEMMA FetchedOfCustomerStep == RulesInv /\ FetchedOfCustomer /\ [Next]_vars => FetchedOfCustomer'
<1> SUFFICES ASSUME RulesInv, FetchedOfCustomer, [Next]_vars PROVE FetchedOfCustomer'
  OBVIOUS
<1>1. CASE UNCHANGED vars
  BY <1>1 DEF FetchedOfCustomer, LookedUp, vars, graph
<1>2. CASE CheckPrompt \/ CacheLookup
  BY <1>2 DEF CheckPrompt, CacheLookup, FetchedOfCustomer, LookedUp, graph, Before
<1>3. CASE PreFlight \/ ThinkLlm \/ ThinkRule \/ RbacGate \/ RiskAssess \/ Record \/ Abort
           \/ ClientGone
  <2>1. pc # "running" /\ workers' = workers /\ pc' \notin Before
    BY <1>3, AfterThinkType
       DEF PreFlight, ThinkLlm, ThinkRule, RbacGate, RiskAssess, Record, Abort, ClientGone,
           RunNode, Before, Nodes
  <2>2. DOMAIN workers' = {}
    BY <2>1 DEF RulesInv, SafetyInv, ThreadsInBatch
  <2>3. QED
    BY <2>1, <2>2 DEF FetchedOfCustomer
<1>4. CASE Submit
  BY <1>4 DEF Submit, FetchedOfCustomer, NewWorker, Worker, Before
<1>5. ASSUME NEW i \in DOMAIN workers, RunWorker(i) PROVE FetchedOfCustomer'
  <2>1. PICK S \in SUBSET (1..MaxBatch) : workers \in [S -> Workers]
    BY DEF RulesInv, SafetyInv, TypeOK
  <2>2. /\ UNCHANGED <<pc, graph>>
        /\ DOMAIN workers' = DOMAIN workers
        /\ \A j \in DOMAIN workers : j # i => workers'[j] = workers[j]
    BY <1>5, BatchKept DEF RulesInv, SafetyInv
  <2>3. LookedUp' = LookedUp
    BY <2>2 DEF LookedUp, graph
  <2>4. workers'[i].key \in {"issues", "profile"} => workers'[i].val \in LookedUp
    <3>1. CASE AuditWrite(i)
      <4>1. workers'[i] = [workers[i] EXCEPT !.stage = "audited"]
        BY <2>1, <3>1 DEF AuditWrite
      <4>2. workers'[i].key = workers[i].key /\ workers'[i].val = workers[i].val
        BY <1>5, <2>1, <4>1 DEF Workers
      <4>3. QED
        BY <4>2 DEF FetchedOfCustomer
    <3>2. CASE RunWriteTool(i) \/ SkipTool(i)
      BY <3>2 DEF RunWriteTool, SkipTool, Finish, Worker
    <3>3. CASE RunReadTool(i)
      BY <3>3 DEF RunReadTool, Finish, Worker
    <3>4. QED
      BY <1>5, <3>1, <3>2, <3>3 DEF RunWorker
  <2>5. QED
    BY <2>2, <2>3, <2>4 DEF FetchedOfCustomer, graph
<1>6. CASE Join
  BY <1>6 DEF Join, FetchedOfCustomer, Before
<1>7. QED
  BY <1>1, <1>2, <1>3, <1>4, <1>5, <1>6 DEF Next, Agent, Stop

\* A batch that leaves the name alone brings data of that name's customer.
LEMMA JoinKeepsData ==
    ASSUME RulesInv, FetchedOfCustomer, DataOfCustomer, Join, Wrote("customer") = {}
    PROVE  DataOfCustomer'
<1>1. customer' = customer
  BY DEF Join, Merge
<1>2. ASSUME NEW key \in {"issues", "profile"}, NEW old \in LookedUp, NEW new,
             Merge(key, old, new)
      PROVE  new \in LookedUp
  BY <1>2 DEF FetchedOfCustomer, Merge, Wrote
<1>3. issues \in LookedUp /\ profile \in LookedUp
  BY DEF DataOfCustomer, LookedUp
<1>4. issues' \in LookedUp /\ profile' \in LookedUp
  BY <1>2, <1>3 DEF Join
<1>5. QED
  BY <1>1, <1>4 DEF DataOfCustomer, LookedUp

\* By the rules, a batch that sets the name is the search, without any data.
LEMMA RulesSearchAlone ==
    ASSUME RulesInv, ~request.key, Join, Wrote("customer") # {}
    PROVE  DataOfCustomer'
<1>1. pc = "running" /\ QueueInv /\ ThreadsInv
  BY DEF RulesInv, Join
<1>2. DOMAIN workers = {1} /\ Requested[1] = nextTool
  BY <1>1, OneThread
<1>3. workers[1].key = "customer" /\ nextTool = "search_customers"
  BY <1>1, <1>2 DEF Wrote, ThreadsInv
<1>4. iteration \in 1..Len(RuleSteps) /\ nextTool = RuleSteps[iteration]
  <2>1. planQueue # NotBuilt
    BY <1>1 DEF QueueInv, Batching
  <2>2. QED
    BY <1>1, <2>1, RuleStepsWellFormed DEF QueueInv, Batching
<1>5. \A j \in 1..Len(RuleSteps) :
          RuleSteps[j] \notin {"get_open_issues", "get_customer_profile"}
  BY <1>3, <1>4, RuleStepsWellFormed DEF WellFormed
<1>6. issues = NoName /\ profile = NoName
  BY <1>1, <1>5 DEF ThreadsInv
<1>7. issues' = NoName /\ profile' = NoName
  BY <1>3, <1>6, RulesMerged
<1>8. QED
  BY <1>7 DEF DataOfCustomer

LEMMA DataStep ==
    ASSUME RulesInv, FetchedOfCustomer, [Next]_vars, DataOfCustomer, ~DataOfCustomer'
    PROVE  /\ request.key
           /\ \/ pc = "running" /\ Wrote("customer") # {}
              \/ pc = "think" /\ planQueue = NotBuilt /\ planQueue' # NotBuilt
<1>1. ~UNCHANGED <<customer, issues, profile>>
  BY DEF DataOfCustomer
<1>2. PreFlight \/ ThinkRule \/ Join
  BY <1>1 DEF Next, Agent, CheckPrompt, CacheLookup, ThinkLlm, RbacGate, Submit, RunWorker,
              AuditWrite, RunWriteTool, SkipTool, RunReadTool, RiskAssess, Record, Abort,
              ClientGone, Stop, vars, graph
<1>3. CASE PreFlight
  <2>1. issues' = NoName /\ profile' = NoName
    BY <1>3 DEF PreFlight, RunNode, FetchedOfCustomer, Before
  <2>2. QED
    BY <2>1 DEF DataOfCustomer
<1>4. CASE ThinkRule
  <2>1. pc = "think" /\ issues' = issues /\ profile' = profile
    BY <1>4 DEF ThinkRule, RunNode
  <2>2. planQueue = NotBuilt
    BY <1>1, <1>4 DEF ThinkRule
  <2>3. planQueue' # NotBuilt
    <3>1. RuleSteps \in Seq(Tools)
      BY RuleStepsWellFormed DEF WellFormed
    <3>2. planQueue' = <<>> \/ (RuleSteps # <<>> /\ planQueue' = Tail(RuleSteps))
      BY <1>4, <2>2 DEF ThinkRule, Rest, RuleSteps
    <3>3. RuleSteps # <<>> => Tail(RuleSteps) \in Seq(Tools)
      BY <3>1, HeadTailProperties
    <3>4. <<>> \in Seq(Tools)
      OBVIOUS
    <3>5. planQueue' \in Seq(Tools)
      BY <3>2, <3>3, <3>4
    <3>6. QED
      BY <3>5, AgentAssumption
  <2>4. CASE ~request.key
    <3>1. issues = NoName /\ profile = NoName
      BY <2>2, <2>4 DEF RulesInv, QueueInv
    <3>2. QED
      BY <2>1, <3>1 DEF DataOfCustomer
  <2>5. QED
    BY <2>1, <2>2, <2>3, <2>4
<1>5. CASE Join
  <2>1. pc = "running" /\ Wrote("customer") # {}
    BY <1>5, JoinKeepsData DEF Join
  <2>2. request.key
    BY <1>5, <2>1, RulesSearchAlone
  <2>3. QED
    BY <2>1, <2>2
<1>6. QED
  BY <1>2, <1>3, <1>4, <1>5

\* The issues and the profile at hand stay those of a customer that the state's name
\* resolves to, for every directory, query and answer of the LLM, but for a search
\* in the LLM's batch and the rules' taking over from it (_execute's merge, and
\* _think_rule, which sets customer_name when it builds the plan).
THEOREM DataStaysWithCustomer == Spec => DataFollowsCustomer
<1>1. Init => FetchedOfCustomer
  <2> SUFFICES ASSUME Init PROVE FetchedOfCustomer
    OBVIOUS
  <2>1. issues = NoName /\ profile = NoName /\ workers = <<>>
    BY DEF Init
  <2>2. QED
    BY <2>1 DEF FetchedOfCustomer
<1>2. RulesInv /\ FetchedOfCustomer /\ [Next]_vars =>
        [DataOfCustomer /\ ~DataOfCustomer' =>
            /\ request.key
            /\ \/ pc = "running" /\ Wrote("customer") # {}
               \/ pc = "think" /\ planQueue = NotBuilt /\ planQueue' # NotBuilt]_vars
  BY DataStep
<1>3. QED
  BY <1>1, <1>2, RulesInit, RulesInvStep, FetchedOfCustomerStep, PTL
     DEF Spec, DataFollowsCustomer

-----------------------------------------------------------------------------
(* Answers made by the rules *)

\* An answer made by the rules rests on every step of its plan, but for those
\* that had no issue to work on: MAX_ITERATIONS never cuts a plan short.
THEOREM RulePlanRuns == Spec => []RulePlanCompleted
<1>1. RulesInv => RulePlanCompleted
  <2> SUFFICES ASSUME RulesInv, pc = "answered", ~request.key,
                      NEW i \in DOMAIN RuleSteps
               PROVE  StepOver(i)
    BY DEF RulePlanCompleted, RuleSteps, StepOver
  <2>1. i \in 1..Len(RuleSteps)
    BY RuleStepsWellFormed, LenProperties DEF WellFormed
  <2>2. Ran = Len(RuleSteps)
    BY DEF RulesInv, QueueInv, Ran, Batching, After
  <2>3. QED
    BY <2>1, <2>2 DEF RulesInv, InOrder
<1>2. QED
  BY <1>1, RulesInit, RulesInvStep, PTL DEF Spec

-----------------------------------------------------------------------------
(* No tool runs twice *)

\* With a key and no failing call, the batch on its way to execute is the one
\* that the filter in _think_llm has let through.
BatchFiltered ==
    request.key /\ ~MayFail("llm") /\ pc \in {"rbac_gate", "execute"} =>
        \A i \in DOMAIN Requested : Requested[i] # "done" => steps[Requested[i]] = 0

LEMMA BatchFilteredStep == RulesInv /\ BatchFiltered /\ [Next]_vars => BatchFiltered'
<1> SUFFICES ASSUME RulesInv, BatchFiltered, [Next]_vars,
                    (request.key /\ ~MayFail("llm") /\ pc \in {"rbac_gate", "execute"})'
             PROVE  (\A i \in DOMAIN Requested :
                        Requested[i] # "done" => steps[Requested[i]] = 0)'
  BY DEF BatchFiltered
<1>1. request' = request
  BY RequestKept DEF vars
<1>2. request.key /\ ~MayFail("llm") /\ pc' \in {"rbac_gate", "execute"}
  BY <1>1 DEF MayFail
<1>3. CASE ThinkLlm
  <2>1. PICK batch \in Batches(request.proposes) :
            /\ \A i \in DOMAIN batch : ~Called(batch[i])
            /\ nextTools' = batch
    BY <1>3 DEF ThinkLlm
  <2>2. request.proposes \subseteq Tools
    BY AgentAssumption DEF RulesInv, SafetyInv, TypeOK, RequestTypes
  <2>3. PICK n \in 1..MaxBatch : batch \in [1..n -> request.proposes \cup {"done"}]
    BY <2>1 DEF Batches
  <2>4. DOMAIN batch = 1..n /\ 1 \in 1..n
    BY <2>3, AgentAssumption
  <2>5. batch # <<>>
    BY <2>4
  <2>6. Requested' = batch
    BY <2>1, <2>5 DEF Requested
  <2>7. \A i \in 1..n : batch[i] \in Tools \cup {"done"}
    BY <2>2, <2>3
  <2>8. \A t \in Tools : steps[t] \in Nat
    BY TypesOfCounters DEF RulesInv, SafetyInv
  <2>9. \A i \in 1..n : batch[i] # "done" => steps[batch[i]] = 0
    BY <2>1, <2>4, <2>7, <2>8 DEF Called
  <2>10. steps' = steps
    BY <1>3 DEF ThinkLlm
  <2>11. QED
    BY <2>4, <2>6, <2>9, <2>10
<1>4. CASE RbacGate
  <2>1. UNCHANGED <<nextTools, nextTool, steps>> /\ pc = "rbac_gate"
    BY <1>4 DEF RbacGate, RunNode
  <2>2. Requested' = Requested
    BY <2>1 DEF Requested
  <2>3. QED
    BY <1>2, <2>1, <2>2 DEF BatchFiltered
<1>5. CASE UNCHANGED vars
  <2>1. Requested' = Requested /\ steps' = steps /\ pc' = pc
    BY <1>5 DEF vars, graph, Requested
  <2>2. QED
    BY <1>2, <2>1 DEF BatchFiltered
<1>6. ~ThinkRule
  BY <1>2 DEF ThinkRule
<1>7. ~(CheckPrompt \/ CacheLookup \/ PreFlight \/ Submit \/ Join \/ RiskAssess \/ Record
          \/ Abort \/ ClientGone)
  BY <1>2 DEF CheckPrompt, CacheLookup, PreFlight, Submit, Join, RiskAssess, Record,
              Abort, ClientGone
<1>8. \A i \in DOMAIN workers : ~RunWorker(i)
  BY <1>2 DEF RunWorker, AuditWrite, RunWriteTool, SkipTool, RunReadTool
<1>9. QED
  BY <1>3, <1>4, <1>5, <1>6, <1>7, <1>8 DEF Next, Agent, Stop

\* The plan's next step has left none, so the rules submit new tools as well.
LEMMA SubmitStep ==
    ASSUME RulesInv, BatchFiltered, [Next]_vars
    PROVE  MayFail("llm") \/ SubmitsNewTools
<1> SUFFICES ASSUME ~MayFail("llm"), pc = "execute", pc' = "running",
                    NEW i \in DOMAIN workers'
             PROVE  steps[Requested[i]] = 0
  BY DEF SubmitsNewTools
<1>1. Submit
  BY AfterThinkType
     DEF Next, Agent, CheckPrompt, CacheLookup, PreFlight, ThinkLlm, ThinkRule, RbacGate,
         RunWorker, AuditWrite, RunWriteTool, SkipTool, RunReadTool, Join, RiskAssess,
         Record, Abort, ClientGone, Stop, Ended, vars, RunNode
<1>2. i \in DOMAIN Requested /\ Requested[i] # "done"
  BY <1>1 DEF Submit
<1>3. CASE request.key
  BY <1>2, <1>3 DEF BatchFiltered
<1>4. CASE ~request.key
  <2>1. QueueInv /\ InOrder
    BY <1>4 DEF RulesInv
  <2>2. Requested[i] = nextTool
    BY <1>2, <1>4, OneThread
  <2>3. planQueue # NotBuilt
    BY <2>1 DEF QueueInv, Batching
  <2>4. iteration \in 1..Len(RuleSteps) /\ nextTool = RuleSteps[iteration]
    BY <2>1, <2>3, RuleStepsWellFormed DEF QueueInv, Batching
  <2>5. Ran = iteration - 1
    BY DEF Ran, Batching
  <2>6. steps[RuleSteps[iteration]] = 0
    BY <2>1, <2>4, <2>5 DEF InOrder, Ended
  <2>7. QED
    BY <2>2, <2>4, <2>6
<1>5. QED
  BY <1>3, <1>4

\* Unless an LLM call raises, no tool is submitted that has left a step before,
\* by the filter in _think_llm and by the queue in _think_rule alike.
THEOREM ToolsRunOnce == Spec => NoToolRepeated
<1>1. Init => BatchFiltered
  BY DEF Init, BatchFiltered
<1>2. RulesInv /\ BatchFiltered /\ [Next]_vars => [MayFail("llm") \/ SubmitsNewTools]_vars
  BY SubmitStep
<1>3. QED
  BY <1>1, <1>2, RulesInit, RulesInvStep, BatchFilteredStep, PTL DEF Spec, NoToolRepeated

=============================================================================
