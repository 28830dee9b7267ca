------------------------- MODULE SyncAndRedisProofs -------------------------
(***************************************************************************)
(* Theorems of SyncAgent, the agent behind POST /query, and of RedisStores,*)
(* its session history and the alert marks: for every directory, set of    *)
(* queries, set of roles, set of tools an LLM plan can hold and length of  *)
(* such a plan; and for every number of requests, users and customers,     *)
(* every cap and every expiry. The two have no state in common.            *)
(***************************************************************************)
EXTENDS SyncAgent, RedisStores,
        FiniteSetTheorems, SequenceTheorems, NaturalsInduction, TLAPS

-----------------------------------------------------------------------------
(* SyncAgent: plans *)

\* A rule plan names a known customer or none, and its steps are tools.
LEMMA RulePlanType ==
    ASSUME NEW q \in QueryTypes
    PROVE  /\ BuildRulePlan(q).customer \in CustomerNames
           /\ BuildRulePlan(q).steps \in Seq(Tools)
<1>1. \A c \in BOOLEAN, t \in Tools : StepIf(c, t) \in Seq(Tools)
  BY DEF StepIf
<1>2. \A W : Mentions(q, W) \in BOOLEAN
  BY DEF Mentions
<1>3. {"get_customer_profile", "get_open_issues", "get_issue_history", "search_customers",
       "recommend_next_action", "semantic_search_issues", "list_all_open_issues"}
          \subseteq Tools
  BY DEF Tools, ReadTools, WriteTools
<1>4. \A t \in Tools : <<t>> \in Seq(Tools)
  OBVIOUS
<1>5. /\ StepIf(Mentions(q, IssueWords), "get_open_issues") \in Seq(Tools)
      /\ StepIf(Mentions(q, HistoryWords), "get_issue_history") \in Seq(Tools)
      /\ StepIf(Mentions(q, ActionWords), "recommend_next_action") \in Seq(Tools)
  BY <1>1, <1>2, <1>3
<1>6. CustomerSteps(q) \in Seq(Tools)
  <2>1. <<"get_customer_profile">> \in Seq(Tools)
    BY <1>3, <1>4
  <2> QED
    BY <1>5, <2>1 DEF CustomerSteps
<1>7. q.planName \in CustomerNames /\ NoName \in CustomerNames
  BY DEF QueryTypes, CustomerNames
<1>8. \E name \in CustomerNames, steps \in Seq(Tools) : BuildRulePlan(q) = Plan(name, steps)
  BY <1>3, <1>4, <1>6, <1>7 DEF BuildRulePlan
<1> QED
  BY <1>8 DEF Plan

\* So does any plan the LLM can return.
LEMMA LlmPlanType ==
    ASSUME NEW plan \in LlmPlans
    PROVE  plan.customer \in CustomerNames /\ plan.steps \in Seq(Tools)
<1>1. CASE plan = Plan(NoName, <<"list_all_open_issues">>)
  <2>1. "list_all_open_issues" \in Tools /\ NoName \in CustomerNames
    BY DEF Tools, ReadTools, CustomerNames
  <2>2. <<"list_all_open_issues">> \in Seq(Tools)
    BY <2>1
  <2> QED
    BY <1>1, <2>1, <2>2 DEF Plan
<1>2. ASSUME NEW name \in CustomerNames,
             NEW steps \in UNION {[1..n -> LlmTools] : n \in 0..MaxPlan},
             plan = Plan(name, steps)
      PROVE  plan.customer \in CustomerNames /\ plan.steps \in Seq(Tools)
  <2>1. PICK n \in 0..MaxPlan : steps \in [1..n -> LlmTools]
    OBVIOUS
  <2>2. n \in Nat /\ \A i \in 1..n : steps[i] \in Tools
    BY <2>1, SyncAssumption
  <2>3. steps \in [1..n -> Tools]
    BY <2>1, <2>2
  <2>4. steps \in Seq(Tools)
    BY <2>2, <2>3
  <2> QED
    BY <1>2, <2>4 DEF Plan
<1> QED
  BY <1>1, <1>2 DEF LlmPlans

-----------------------------------------------------------------------------
(* SyncAgent: type correctness *)

\* The plan replaces the steps and the customer.
LEMMA PlanType ==
    ASSUME SyncTypeOK, MakePlan
    PROVE  SyncTypeOK'
<1>1. PICK plan \in {BuildRulePlan(request.query)}
                        \cup (IF KeyConfigured THEN LlmPlans ELSE {}) :
            todo' = plan.steps /\ customer' = plan.customer
  BY DEF MakePlan
<1>2. request.query \in QueryTypes
  BY SyncAssumption DEF SyncTypeOK
<1>3. plan.customer \in CustomerNames /\ plan.steps \in Seq(Tools)
  BY <1>1, <1>2, RulePlanType, LlmPlanType
<1> QED
  BY <1>1, <1>3 DEF SyncTypeOK, MakePlan

\* What a tool fetches is of a customer or nothing.
LEMMA LookedUpType ==
    ASSUME SyncTypeOK PROVE LookedUp \subseteq CustomerNames
<1>1. \A n \in Names : Directory[n].matches \subseteq Names
  BY DirectoryAssumption DEF DirectoryAnswers
<1>2. KnownCustomers \subseteq Names
  BY <1>1 DEF KnownCustomers
<1>3. customer \in Names \/ customer = NoName
  BY DEF SyncTypeOK, CustomerNames
<1>4. Resolved(customer) \subseteq Names
  BY <1>1, <1>2, <1>3 DEF Resolved
<1> QED
  BY <1>4 DEF LookedUp, CustomerNames

\* A read tool loads what belongs to the customer at hand, or nothing.
LEMMA ReadType ==
    ASSUME SyncTypeOK,
           SearchCustomers \/ ListAllOpenIssues \/ GetCustomerProfile \/ GetOpenIssues
                \/ ReadOnly
    PROVE  SyncTypeOK'
<1>1. NoName \in CustomerNames /\ Names \subseteq CustomerNames
  BY DEF CustomerNames
<1>2. todo # <<>> /\ todo' = Tail(todo) /\ pc' = "tools"
  BY DEF SearchCustomers, ListAllOpenIssues, GetCustomerProfile, GetOpenIssues, ReadOnly,
         Running, Done
<1>3. todo' \in Seq(Tools)
  BY <1>2, HeadTailProperties DEF SyncTypeOK
<1>4. CASE SearchCustomers
  BY <1>1, <1>2, <1>3, <1>4 DEF SyncTypeOK, SearchCustomers, work
<1>5. CASE ListAllOpenIssues
  BY <1>2, <1>3, <1>5 DEF SyncTypeOK, ListAllOpenIssues
<1>6. CASE GetCustomerProfile
  BY <1>2, <1>3, <1>6, LookedUpType DEF SyncTypeOK, GetCustomerProfile
<1>7. CASE GetOpenIssues
  BY <1>2, <1>3, <1>7, LookedUpType DEF SyncTypeOK, GetOpenIssues
<1>8. CASE ReadOnly
  BY <1>2, <1>3, <1>8 DEF SyncTypeOK, ReadOnly, work
<1> QED
  BY <1>4, <1>5, <1>6, <1>7, <1>8

\* A write tool counts its write or ends the request.
LEMMA WriteType ==
    ASSUME SyncTypeOK, NEW tool \in WriteTools,
           RunWriteTool(tool) \/ Forbid(tool) \/ RefuseWithoutIssue(tool)
    PROVE  SyncTypeOK'
<1>1. CASE RunWriteTool(tool)
  <2>1. todo' \in Seq(Tools)
    BY <1>1, HeadTailProperties DEF SyncTypeOK, RunWriteTool, Running, Done
  <2>2. writes' \in [WriteTools -> Nat]
    BY <1>1 DEF SyncTypeOK, RunWriteTool
  <2> QED
    BY <1>1, <2>1, <2>2 DEF SyncTypeOK, RunWriteTool, Done, work
<1>2. CASE Forbid(tool) \/ RefuseWithoutIssue(tool)
  BY <1>2 DEF SyncTypeOK, Forbid, RefuseWithoutIssue, Ended, work
<1> QED
  BY <1>1, <1>2

\* Every step keeps the types.
LEMMA TypeStep ==
    ASSUME SyncTypeOK, [SyncNext]_syncVars
    PROVE  SyncTypeOK'
<1>1. CASE CheckPrompt
  BY <1>1 DEF SyncTypeOK, CheckPrompt, Ended, work
<1>2. CASE MakePlan
  BY <1>2, PlanType
<1>3. CASE RunTool
  BY <1>3, ReadType, WriteType DEF RunTool
<1>4. CASE EndTools
  BY <1>4 DEF SyncTypeOK, EndTools, work
<1>5. CASE FollowUpProfile
  BY <1>5, LookedUpType DEF SyncTypeOK, FollowUpProfile
<1>6. CASE FollowUpIssues
  BY <1>6, LookedUpType DEF SyncTypeOK, FollowUpIssues
<1>7. CASE Answer
  BY <1>7 DEF SyncTypeOK, Answer, Ended, work
<1>8. CASE Fail
  BY <1>8 DEF SyncTypeOK, Fail, Ended, work
<1>9. CASE UNCHANGED syncVars
  BY <1>9 DEF SyncTypeOK, syncVars, work
<1> QED
  BY <1>1, <1>2, <1>3, <1>4, <1>5, <1>6, <1>7, <1>8, <1>9 DEF SyncNext, Stop

\* The initial states are well formed.
LEMMA TypeInit == SyncInit => SyncTypeOK
<1> SUFFICES ASSUME SyncInit
             PROVE  SyncTypeOK
  OBVIOUS
<1>1. todo \in Seq(Tools)
  BY DEF SyncInit
<1>2. writes \in [WriteTools -> Nat]
  BY DEF SyncInit
<1>3. {customer, issues, profile} \subseteq CustomerNames
  BY DEF SyncInit, CustomerNames
<1>4. {allIssues, resolved, followed, recorded} \subseteq BOOLEAN
  BY DEF SyncInit
<1> QED
  BY <1>1, <1>2, <1>3, <1>4 DEF SyncInit, SyncTypeOK

\* Every variable stays in its range: whatever plan the LLM returns, what is
\* loaded belongs to a customer of the directory or to none.
THEOREM SyncTypeCorrect == SyncSpec => []SyncTypeOK
<1>1. SyncTypeOK /\ [SyncNext]_syncVars => SyncTypeOK'
  BY TypeStep
<1> QED
  BY <1>1, TypeInit, PTL DEF SyncSpec

-----------------------------------------------------------------------------
(* SyncAgent: the follow-up *)

OfCustomer == {issues, profile} \subseteq LookedUp

BeforeFollowUp == {"guard", "plan", "tools", "follow_up", "follow_up_issues"}

\* Until a search has set the customer, the data are the customer's. After one, the
\* loop may end with another customer's data, but then the follow-up fetches both
\* anew, or a profile or all issues make it unnecessary.
FollowedUp ==
    /\ ~resolved => OfCustomer
    /\ pc \in {"guard", "plan"} => issues = NoName /\ profile = NoName
    /\ pc \in BeforeFollowUp => ~followed
    /\ pc = "follow_up_issues" => profile \in LookedUp
    /\ pc \in {"answer", "answered"} =>
          OfCustomer \/ (resolved /\ ~followed /\ (profile # NoName \/ allIssues))

\* A step of the loop fetches for the customer at hand, or searches for another.
LEMMA FollowedUpTool ==
    ASSUME FollowedUp, RunTool
    PROVE  FollowedUp'
<1>1. pc = "tools" /\ ~followed
  BY DEF FollowedUp, BeforeFollowUp, RunTool, SearchCustomers, ListAllOpenIssues,
         GetCustomerProfile, GetOpenIssues, ReadOnly, RunWriteTool, Forbid,
         RefuseWithoutIssue, Running
<1>2. followed' = followed /\ pc' \in {"tools", "forbidden", "bad_request"}
  BY DEF RunTool, SearchCustomers, ListAllOpenIssues, GetCustomerProfile, GetOpenIssues,
         ReadOnly, RunWriteTool, Forbid, RefuseWithoutIssue, Done, work
<1>3. ~resolved' => OfCustomer'
  <2>1. CASE SearchCustomers \/ ListAllOpenIssues
    BY <2>1 DEF SearchCustomers, ListAllOpenIssues, FollowedUp, OfCustomer, LookedUp, work
  <2>2. CASE GetCustomerProfile \/ GetOpenIssues
    BY <2>2 DEF GetCustomerProfile, GetOpenIssues, FollowedUp, OfCustomer, LookedUp
  <2>3. CASE ReadOnly \/ \E tool \in WriteTools :
                RunWriteTool(tool) \/ Forbid(tool) \/ RefuseWithoutIssue(tool)
    BY <2>3 DEF ReadOnly, RunWriteTool, Forbid, RefuseWithoutIssue, FollowedUp,
                OfCustomer, LookedUp, work
  <2> QED
    BY <2>1, <2>2, <2>3 DEF RunTool
<1> QED
  BY <1>1, <1>2, <1>3 DEF FollowedUp

\* Every step keeps it; only those that lead to the answer have it to establish.
LEMMA FollowedUpStep ==
    ASSUME FollowedUp, [SyncNext]_syncVars
    PROVE  FollowedUp'
<1>1. CASE CheckPrompt \/ Fail
  BY <1>1 DEF FollowedUp, OfCustomer, LookedUp, BeforeFollowUp, CheckPrompt, Fail, work
<1>2. CASE MakePlan
  BY <1>2 DEF FollowedUp, OfCustomer, LookedUp, BeforeFollowUp, MakePlan
<1>3. CASE RunTool
  BY <1>3, FollowedUpTool
<1>4. CASE EndTools
  BY <1>4 DEF FollowedUp, OfCustomer, LookedUp, BeforeFollowUp, EndTools, work
<1>5. CASE FollowUpProfile
  BY <1>5 DEF FollowedUp, OfCustomer, LookedUp, BeforeFollowUp, FollowUpProfile
<1>6. CASE FollowUpIssues
  BY <1>6 DEF FollowedUp, OfCustomer, LookedUp, BeforeFollowUp, FollowUpIssues
<1>7. CASE Answer
  BY <1>7 DEF FollowedUp, OfCustomer, LookedUp, BeforeFollowUp, Answer, work
<1>8. CASE UNCHANGED syncVars
  BY <1>8 DEF FollowedUp, OfCustomer, LookedUp, BeforeFollowUp, syncVars, work
<1> QED
  BY <1>1, <1>2, <1>3, <1>4, <1>5, <1>6, <1>7, <1>8 DEF SyncNext, Stop

\* An answer rests on the issues and the profile of the customer it names, whatever
\* plan it was made by, unless the plan searched for the customer after steps whose
\* results let run_agent skip the follow-up.
THEOREM AnswersOnCustomer == SyncSpec => []AnswerOnCustomer
<1>1. SyncInit => FollowedUp
  BY DEF SyncInit, FollowedUp, OfCustomer, LookedUp, BeforeFollowUp
<1>2. FollowedUp /\ [SyncNext]_syncVars => FollowedUp'
  BY FollowedUpStep
<1>3. FollowedUp => AnswerOnCustomer
  BY DEF FollowedUp, AnswerOnCustomer, OfCustomer, LookedUp
<1> QED
  BY <1>1, <1>2, <1>3, PTL DEF SyncSpec

-----------------------------------------------------------------------------
(* SyncAgent: the contract *)

NothingWritten == \A tool \in WriteTools : writes[tool] = 0

\* A refusal comes before any write: all write tools ask for the same roles, so
\* a user whom require_role sends away at one has passed it at none before.
WritesPermitted ==
    /\ \A tool \in WriteTools : writes[tool] # 0 => MayWrite(tool)
    /\ pc \in {"guard", "plan"} => NothingWritten

\* Only RunWriteTool writes, and it asks for the role.
LEMMA WritesPermittedStep ==
    ASSUME SyncTypeOK, WritesPermitted, [SyncNext]_syncVars
    PROVE  WritesPermitted'
<1>1. request' = request
  BY DEF SyncNext, CheckPrompt, MakePlan, RunTool, SearchCustomers, ListAllOpenIssues,
         GetCustomerProfile, GetOpenIssues, ReadOnly, RunWriteTool, Forbid,
         RefuseWithoutIssue, EndTools, FollowUpProfile, FollowUpIssues, Answer, Fail,
         Stop, syncVars
<1>2. \A tool \in WriteTools : MayWrite(tool)' <=> MayWrite(tool)
  BY <1>1 DEF MayWrite
<1>3. ASSUME NEW tool \in WriteTools, RunWriteTool(tool)
      PROVE  WritesPermitted'
  <2>1. pc' = "tools" /\ MayWrite(tool)
    BY <1>3 DEF RunWriteTool, Done
  <2>2. \A t \in WriteTools : t # tool => writes'[t] = writes[t]
    BY <1>3 DEF RunWriteTool, SyncTypeOK
  <2> QED
    BY <1>2, <2>1, <2>2 DEF WritesPermitted
<1>4. CASE /\ writes' = writes
           /\ pc' \in {"guard", "plan"} => pc \in {"guard", "plan"}
  BY <1>2, <1>4 DEF WritesPermitted, NothingWritten
<1>5. CASE ~\E tool \in WriteTools : RunWriteTool(tool)
  <2>1. writes' = writes /\ (pc' \in {"guard", "plan"} => pc \in {"guard", "plan"})
    BY <1>5 DEF SyncNext, CheckPrompt, MakePlan, RunTool, SearchCustomers, ListAllOpenIssues,
                GetCustomerProfile, GetOpenIssues, ReadOnly, Forbid, RefuseWithoutIssue,
                EndTools, FollowUpProfile, FollowUpIssues, Answer, Fail, Stop, Done, syncVars
  <2> QED
    BY <1>4, <2>1
<1> QED
  BY <1>3, <1>5

OpenPlaces == {"guard", "plan", "tools", "follow_up", "follow_up_issues", "answer"}

\* The contract's status, place by place.
LEMMA StatusOfPlace ==
    /\ pc \in OpenPlaces => ContractStatus = "open"
    /\ pc = "answered" => ContractStatus = "answered"
    /\ pc \in {"failed", "bad_request"} => ContractStatus = "lost"
    /\ pc \in {"blocked", "forbidden"} => ContractStatus = "declined"
BY DEF ContractStatus, OpenPlaces

\* The same after a step.
LEMMA StatusOfPlacePrimed ==
    /\ pc' \in OpenPlaces => ContractStatus' = "open"
    /\ pc' = "answered" => ContractStatus' = "answered"
    /\ pc' \in {"failed", "bad_request"} => ContractStatus' = "lost"
    /\ pc' \in {"blocked", "forbidden"} => ContractStatus' = "declined"
BY DEF ContractStatus, OpenPlaces

\* Every step of a request is one of the contract, or changes nothing it sees.
LEMMA ContractStep ==
    ASSUME SyncTypeOK, WritesPermitted, [SyncNext]_syncVars
    PROVE  [Contract!ContractNext]_(Contract!contractVars)
<1> DEFINE allowed == {t \in WriteTools : request.roles \cap WriteRoles[t] # {}}
<1> USE DEF Contract!ContractNext, Contract!contractVars
<1>1. request' = request
  BY DEF SyncNext, CheckPrompt, MakePlan, RunTool, SearchCustomers, ListAllOpenIssues,
         GetCustomerProfile, GetOpenIssues, ReadOnly, RunWriteTool, Forbid,
         RefuseWithoutIssue, EndTools, FollowUpProfile, FollowUpIssues, Answer, Fail,
         Stop, syncVars
<1>2. allowed' = allowed
  BY <1>1
<1>3. NothingWritten => writes = [t \in WriteTools |-> 0]
  BY DEF NothingWritten, SyncTypeOK
<1>4. ASSUME pc \in OpenPlaces, pc' \in OpenPlaces, UNCHANGED <<writes, recorded>>
      PROVE  UNCHANGED Contract!contractVars
  BY <1>2, <1>4, StatusOfPlace, StatusOfPlacePrimed
<1>5. ASSUME pc \in OpenPlaces, pc' \in {"blocked", "forbidden"}, NothingWritten,
             UNCHANGED <<writes, recorded>>
      PROVE  Contract!Decline
  BY <1>2, <1>3, <1>5, StatusOfPlace, StatusOfPlacePrimed DEF Contract!Decline
<1>6. ASSUME pc \in OpenPlaces, pc' \in {"failed", "bad_request"},
             UNCHANGED <<writes, recorded>>
      PROVE  Contract!Lose
  BY <1>2, <1>6, StatusOfPlace, StatusOfPlacePrimed DEF Contract!Lose
<1>7. CASE CheckPrompt
  <2>1. /\ pc = "guard" /\ pc' \in {"blocked", "plan"}
        /\ UNCHANGED <<writes, recorded>>
    BY <1>7 DEF CheckPrompt
  <2> QED
    BY <1>4, <1>5, <2>1 DEF WritesPermitted, OpenPlaces
<1>8. CASE \/ MakePlan \/ SearchCustomers \/ ListAllOpenIssues \/ GetCustomerProfile
           \/ GetOpenIssues \/ ReadOnly \/ EndTools \/ FollowUpProfile \/ FollowUpIssues
  <2>1. pc \in OpenPlaces /\ pc' \in OpenPlaces /\ UNCHANGED <<writes, recorded>>
    BY <1>8 DEF MakePlan, SearchCustomers, ListAllOpenIssues, GetCustomerProfile,
                GetOpenIssues, ReadOnly, EndTools, FollowUpProfile, FollowUpIssues,
                Running, Done, OpenPlaces
  <2> QED
    BY <1>4, <2>1
<1>9. ASSUME NEW tool \in WriteTools, RunWriteTool(tool)
      PROVE  [Contract!ContractNext]_(Contract!contractVars)
  <2>1. /\ pc = "tools" /\ pc' = "tools" /\ recorded' = recorded
        /\ tool \in allowed
    BY <1>9 DEF RunWriteTool, Running, Done, MayWrite
  <2>2. CASE writes' = writes
    BY <1>4, <2>1, <2>2 DEF OpenPlaces
  <2>3. CASE writes' = [writes EXCEPT ![tool] = @ + 1]
    <3>1. Contract!Change(tool)
      BY <1>2, <2>1, <2>3, StatusOfPlace, StatusOfPlacePrimed
         DEF Contract!Change, OpenPlaces
    <3> QED
      BY <2>1, <3>1
  <2> QED
    BY <1>9, <2>2, <2>3 DEF RunWriteTool
<1>10. ASSUME NEW tool \in WriteTools, Forbid(tool)
       PROVE  [Contract!ContractNext]_(Contract!contractVars)
  <2>1. /\ pc = "tools" /\ pc' = "forbidden" /\ UNCHANGED <<writes, recorded>>
        /\ ~MayWrite(tool)
    BY <1>10 DEF Forbid, Running
  <2>2. \A t \in WriteTools : ~MayWrite(t)
    BY <2>1 DEF MayWrite, WriteRoles
  <2>3. NothingWritten
    BY <2>2 DEF WritesPermitted, NothingWritten
  <2> QED
    BY <1>5, <2>1, <2>3 DEF OpenPlaces
<1>11. ASSUME NEW tool \in WriteTools, RefuseWithoutIssue(tool)
       PROVE  [Contract!ContractNext]_(Contract!contractVars)
  <2>1. pc = "tools" /\ pc' = "bad_request" /\ UNCHANGED <<writes, recorded>>
    BY <1>11 DEF RefuseWithoutIssue, Running
  <2> QED
    BY <1>6, <2>1 DEF OpenPlaces
<1>12. CASE Answer
  <2>1. Contract!Answer
    BY <1>2, <1>12, StatusOfPlace, StatusOfPlacePrimed
       DEF Answer, Contract!Answer, OpenPlaces
  <2> QED
    BY <2>1
<1>13. CASE Fail
  <2>1. pc \in OpenPlaces /\ pc' = "failed" /\ UNCHANGED <<writes, recorded>>
    BY <1>13 DEF Fail, SyncTypeOK, OpenPlaces
  <2> QED
    BY <1>6, <2>1
<1>14. CASE UNCHANGED syncVars
  BY <1>2, <1>14 DEF syncVars, ContractStatus
<1> QED
  BY <1>7, <1>8, <1>9, <1>10, <1>11, <1>12, <1>13, <1>14 DEF SyncNext, RunTool, Stop

\* POST /query keeps the contract that POST /query/stream keeps: writes only
\* while the request is open and only of the kinds its user's roles allow, one
\* ending, an event only when it was answered, and then unless Redis may lose it,
\* and no write when it was declined, although nothing is rolled back when require_role raises (run_agent).
THEOREM KeepsContract == SyncSpec => ImplementsContract
<1>1. SyncInit => WritesPermitted /\ Contract!ContractInit
  <2> SUFFICES ASSUME SyncInit
               PROVE  WritesPermitted /\ Contract!ContractInit
    OBVIOUS
  <2>1. pc = "guard" /\ recorded = FALSE /\ writes = [t \in WriteTools |-> 0]
    BY DEF SyncInit
  <2>2. WritesPermitted
    BY <2>1 DEF WritesPermitted, NothingWritten
  <2>3. Contract!ContractInit
    BY <2>1, StatusOfPlace, SyncAssumption DEF Contract!ContractInit, OpenPlaces
  <2> QED
    BY <2>2, <2>3
<1>2. SyncTypeOK /\ WritesPermitted /\ [SyncNext]_syncVars => WritesPermitted'
  BY WritesPermittedStep
<1>3. SyncTypeOK /\ WritesPermitted /\ [SyncNext]_syncVars
          => [Contract!ContractNext]_(Contract!contractVars)
  BY ContractStep
<1> QED
  BY <1>1, <1>2, <1>3, SyncTypeCorrect, PTL
     DEF SyncSpec, ImplementsContract, Contract!ContractSpec

-----------------------------------------------------------------------------
(* Sequences of a bounded length *)

LEMMA FunctionIsSequence ==
    ASSUME NEW S, NEW n \in Nat, NEW s \in [1..n -> S]
    PROVE  s \in Seq(S) /\ Len(s) = n
OBVIOUS

\* The sets of sequences that the session's types are made of.
LEMMA BoundedSequences ==
    ASSUME NEW S, NEW max \in Nat
    PROVE  \A s : s \in UNION {[1..n -> S] : n \in 0..max}
                    <=> s \in Seq(S) /\ Len(s) <= max
<1> SUFFICES ASSUME NEW s
             PROVE  s \in UNION {[1..n -> S] : n \in 0..max} <=> s \in Seq(S) /\ Len(s) <= max
  OBVIOUS
<1>1. ASSUME NEW n \in 0..max, s \in [1..n -> S] PROVE s \in Seq(S) /\ Len(s) <= max
  BY <1>1
<1>2. ASSUME s \in Seq(S), Len(s) <= max
      PROVE  \E n \in 0..max : s \in [1..n -> S]
  <2>1. Len(s) \in 0..max /\ s \in [1..Len(s) -> S]
    BY <1>2, LenProperties
  <2>2. QED
    BY <2>1
<1>3. QED
  BY <1>1, <1>2

\* A sequence without repetition is no longer than the set it is drawn from.
LEMMA DistinctIsShort ==
    ASSUME NEW S, IsFiniteSet(S), NEW s \in Seq(S),
           \A i, j \in DOMAIN s : s[i] = s[j] => i = j
    PROVE  Len(s) <= Cardinality(S)
<1>1. Len(s) \in Nat /\ s \in [1..Len(s) -> S] /\ DOMAIN s = 1..Len(s)
  BY LenProperties
<1>2. s \in Injection(1..Len(s), S)
  BY <1>1 DEF Injection, IsInjective
<1>3. Cardinality(1..Len(s)) <= Cardinality(S)
  BY <1>2, FS_Injection
<1>4. Cardinality(1..Len(s)) = Len(s)
  BY <1>1, FS_Interval
<1>5. QED
  BY <1>3, <1>4

\* As many places follow the i-th of n.
LEMMA SizeOfRest ==
    ASSUME NEW n \in Nat, NEW i \in 1..n
    PROVE  IsFiniteSet((i + 1)..n) /\ Cardinality((i + 1)..n) = n - i
<1>1. i + 1 \in Int /\ n \in Int
  OBVIOUS
<1>2. /\ IsFiniteSet((i + 1)..n)
      /\ Cardinality((i + 1)..n) = IF i + 1 > n THEN 0 ELSE n - (i + 1) + 1
  BY <1>1, FS_Interval
<1>3. QED
  BY <1>2

-----------------------------------------------------------------------------
(* The session *)

\* The log has each event once, that of a request that is through.
LogInv ==
    /\ \A i, j \in DOMAIN log : log[i] = log[j] => i = j
    /\ \A i \in DOMAIN log : appender[log[i]].at = "after"

\* The elements of s are in l, in the same order.
InOrder(s, l) ==
    /\ \A p \in DOMAIN s : \E i \in DOMAIN l : s[p] = l[i]
    /\ \A p, q \in DOMAIN s, i, j \in DOMAIN l :
            s[p] = l[i] /\ s[q] = l[j] /\ p < q => i < j

\* What a request has fetched was the history when the log was seen events long;
\* if nothing has been stored since, the history is that still, or has gone.
FetchInv ==
    \A r \in Requests : appender[r].at = "fetched" =>
        /\ InOrder(appender[r].state, log)
        /\ appender[r].seen <= Len(log)
        /\ ~appender[r].blind /\ appender[r].seen = Len(log) =>
                history \in {appender[r].state, <<>>}

SessionInv == SessionTypeOK /\ LogInv /\ InOrder(history, log) /\ FetchInv

LEMMA HistoryTypes ==
    /\ \A s : s \in Histories <=> s \in Seq(Requests) /\ Len(s) <= MaxHistory
    /\ Cardinality(Requests) \in Nat
    /\ \A s : s \in UNION {[1..n -> Requests] : n \in 0..Cardinality(Requests)}
                <=> s \in Seq(Requests) /\ Len(s) <= Cardinality(Requests)
<1>1. MaxHistory \in Nat /\ IsFiniteSet(Requests)
  BY SessionAssumption
<1>2. Cardinality(Requests) \in Nat
  BY <1>1, FS_CardinalityType
<1>3. QED
  BY <1>1, <1>2, BoundedSequences DEF Histories

\* What is kept is the end of the history, short enough for one event more.
LEMMA KeepIsEnd ==
    ASSUME NEW s \in Histories
    PROVE  /\ Keep(s) \in Seq(Requests)
           /\ Len(Keep(s)) < MaxHistory
           /\ \E d \in Nat : /\ Len(Keep(s)) = Len(s) - d
                             /\ d > 0 => Len(Keep(s)) = MaxHistory - 1
                             /\ \A p \in 1..Len(Keep(s)) : Keep(s)[p] = s[p + d]
<1>1. s \in Seq(Requests) /\ Len(s) \in Nat /\ Len(s) <= MaxHistory
  BY HistoryTypes, LenProperties
<1>2. MaxHistory \in Nat /\ MaxHistory >= 2
  BY SessionAssumption
<1>3. CASE Len(s) < MaxHistory
  <2>1. Keep(s) = s
    BY <1>3 DEF Keep
  <2>2. \A p \in 1..Len(s) : s[p] = s[p + 0]
    BY <1>1
  <2>3. 0 \in Nat /\ Len(s) = Len(s) - 0 /\ ~(0 > 0)
    BY <1>1
  <2>4. QED
    BY <1>1, <1>3, <2>1, <2>2, <2>3
<1>4. CASE ~(Len(s) < MaxHistory)
  <2>1. Len(s) = MaxHistory
    BY <1>1, <1>2, <1>4
  <2>2. Keep(s) = SubSeq(s, 2, MaxHistory)
    <3>1. Len(s) - MaxHistory + 2 = 2
      BY <1>2, <2>1
    <3>2. QED
      BY <1>4, <2>1, <3>1 DEF Keep
  <2>3. \A i \in 2..MaxHistory : s[i] \in Requests
    BY <1>1, <1>2, <2>1, ElementOfSeq
  <2>4. /\ SubSeq(s, 2, MaxHistory) \in Seq(Requests)
        /\ Len(SubSeq(s, 2, MaxHistory)) = IF 2 <= MaxHistory THEN MaxHistory - 2 + 1 ELSE 0
        /\ \A i \in 1..MaxHistory - 2 + 1 : SubSeq(s, 2, MaxHistory)[i] = s[2 + i - 1]
    BY <1>2, <2>3, SubSeqProperties
  <2>5. /\ Keep(s) \in Seq(Requests)
        /\ Len(Keep(s)) = MaxHistory - 1
        /\ \A p \in 1..(MaxHistory - 1) : Keep(s)[p] = s[p + 1]
    BY <1>2, <2>2, <2>4
  <2>6. 1 \in Nat /\ MaxHistory - 1 = Len(s) - 1 /\ MaxHistory - 1 < MaxHistory
    BY <1>2, <2>1
  <2>7. QED
    BY <2>5, <2>6
<1>5. QED
  BY <1>3, <1>4

\* The history that a store leaves.
LEMMA StoredHistory ==
    ASSUME NEW s \in Histories, NEW r \in Requests
    PROVE  /\ Append(Keep(s), r) \in Histories
           /\ Append(Keep(s), r) # <<>>
           /\ DOMAIN Append(Keep(s), r) = 1..(Len(Keep(s)) + 1)
           /\ Append(Keep(s), r)[Len(Keep(s)) + 1] = r
           /\ \A p \in 1..Len(Keep(s)) : Append(Keep(s), r)[p] = Keep(s)[p]
<1>1. Keep(s) \in Seq(Requests) /\ Len(Keep(s)) \in Nat /\ Len(Keep(s)) < MaxHistory
  BY KeepIsEnd, LenProperties
<1>2. MaxHistory \in Nat
  BY SessionAssumption
<1> DEFINE kept == Keep(s)
<1> HIDE DEF kept
<1>3. kept \in Seq(Requests) /\ Len(kept) \in Nat /\ Len(kept) < MaxHistory
  BY <1>1 DEF kept
<1>4. /\ Append(kept, r) \in Seq(Requests)
      /\ Len(Append(kept, r)) = Len(kept) + 1
      /\ Append(kept, r)[Len(kept) + 1] = r
      /\ \A p \in 1..Len(kept) : Append(kept, r)[p] = kept[p]
  BY <1>3
<1>5. DOMAIN Append(kept, r) = 1..(Len(kept) + 1)
  BY <1>4, LenProperties
<1>6. Len(Append(kept, r)) <= MaxHistory
  BY <1>2, <1>3, <1>4
<1>7. Append(kept, r) \in Histories
  BY <1>4, <1>6, HistoryTypes
<1>8. Append(kept, r) # <<>>
  BY <1>3, AppendProperties
<1>9. QED
  BY <1>4, <1>5, <1>7, <1>8 DEF kept

LEMMA SessionStart == SessionInit => SessionInv
<1> SUFFICES ASSUME SessionInit PROVE SessionInv
  OBVIOUS
<1>1. /\ history = Earlier /\ log = Earlier
      /\ left = IF Earlier = <<>> THEN 0 ELSE SessionTTL
      /\ appender = [r \in Requests |->
                        IF r \in ToSet(Earlier) THEN [at |-> "after"] ELSE [at |-> "before"]]
  BY DEF SessionInit
<1>2. /\ Earlier \in Seq(Requests) /\ Len(Earlier) <= MaxHistory
      /\ \A i, j \in DOMAIN Earlier : Earlier[i] = Earlier[j] => i = j
      /\ SessionTTL \in Nat \ {0} /\ IsFiniteSet(Requests)
  BY SessionAssumption
<1>3. Len(Earlier) <= Cardinality(Requests)
  BY <1>2, DistinctIsShort
<1>4. Earlier \in Histories
  BY <1>2, HistoryTypes
<1>5. \A r \in Requests : appender[r].at # "fetched"
  BY <1>1
<1>6. SessionTypeOK
  <2>1. appender \in [Requests -> Appenders]
    BY <1>1 DEF Appenders
  <2>2. left \in 0..SessionTTL /\ (left = 0) = (history = <<>>)
    BY <1>1, <1>2
  <2>3. log \in UNION {[1..n -> Requests] : n \in 0..Cardinality(Requests)}
    BY <1>1, <1>2, <1>3, HistoryTypes
  <2>4. QED
    BY <1>1, <1>4, <2>1, <2>2, <2>3 DEF SessionTypeOK
<1>7. DOMAIN Earlier \subseteq Nat /\ \A i \in DOMAIN Earlier : Earlier[i] \in Requests
  BY <1>2, LenProperties, ElementOfSeq
<1>8. LogInv
  <2>1. \A i \in DOMAIN Earlier : Earlier[i] \in ToSet(Earlier)
    BY DEF ToSet
  <2>2. QED
    BY <1>1, <1>2, <1>7, <2>1 DEF LogInv
<1>9. InOrder(history, log)
  BY <1>1, <1>2, <1>7 DEF InOrder
<1>10. FetchInv
  BY <1>5 DEF FetchInv
<1>11. QED
  BY <1>6, <1>8, <1>9, <1>10 DEF SessionInv

\* What the appenders are made of.
LEMMA FetchedTypes ==
    ASSUME SessionTypeOK, NEW r \in Requests, appender[r].at = "fetched"
    PROVE  /\ appender[r].state \in Histories
           /\ appender[r].seen \in 0..Cardinality(Requests)
           /\ appender[r].blind \in BOOLEAN
<1>1. appender[r] \in Appenders
  BY DEF SessionTypeOK
<1>2. QED
  BY <1>1 DEF Appenders

\* The log is a sequence, and no sequence is in its order as far as it is empty.
LEMMA LogTypes ==
    ASSUME SessionTypeOK
    PROVE  /\ log \in Seq(Requests) /\ Len(log) \in Nat
           /\ DOMAIN log = 1..Len(log)
           /\ Len(log) <= Cardinality(Requests)
           /\ \A i \in DOMAIN log : log[i] \in Requests
<1>1. log \in Seq(Requests) /\ Len(log) <= Cardinality(Requests)
  BY HistoryTypes DEF SessionTypeOK
<1>2. QED
  BY <1>1, LenProperties, ElementOfSeq

LEMMA NothingInOrder == <<>> \in Histories /\ InOrder(<<>>, log)
<1>1. <<>> \in Seq(Requests) /\ Len(<<>>) = 0
  BY EmptySeq
<1>2. MaxHistory \in Nat
  BY SessionAssumption
<1>3. PICK none : none = <<>>
  OBVIOUS
<1>4. none \in Histories
  <2>1. none \in Seq(Requests) /\ Len(none) = 0
    BY <1>1, <1>3
  <2>2. Len(none) <= MaxHistory
    BY <1>2, <2>1
  <2>3. QED
    BY <2>1, <2>2, HistoryTypes
<1>5. DOMAIN none = {}
  BY <1>3
<1>6. InOrder(none, log)
  BY <1>5 DEF InOrder
<1>7. QED
  BY <1>3, <1>4, <1>6

LEMMA FetchKeeps ==
    ASSUME SessionInv, NEW r \in Requests, FetchHistory(r)
    PROVE  SessionInv'
<1>1. PICK state \in Histories, blind \in BOOLEAN :
            /\ appender' = [appender EXCEPT ![r] = Fetched(state, blind)]
            /\ InOrder(state, log)
            /\ ~blind => state = history
  BY NothingInOrder DEF FetchHistory, SessionInv, SessionTypeOK
<1>2. history' = history /\ left' = left /\ log' = log
  BY DEF FetchHistory
<1>3. SessionTypeOK /\ LogInv /\ InOrder(history, log) /\ FetchInv
  BY DEF SessionInv
<1>4. Len(log) \in Nat /\ Len(log) <= Cardinality(Requests) /\ Cardinality(Requests) \in Nat
  BY <1>3, LogTypes, HistoryTypes
<1>5. SessionTypeOK'
  <2>1. Len(log) \in 0..Cardinality(Requests)
    BY <1>4
  <2>2. Fetched(state, blind) \in Appenders
    BY <2>1 DEF Fetched, Appenders
  <2>3. appender' \in [Requests -> Appenders]
    BY <1>1, <1>3, <2>2 DEF SessionTypeOK
  <2>4. QED
    BY <1>2, <1>3, <2>3 DEF SessionTypeOK
<1>6. LogInv'
  <2>1. appender[r].at = "before"
    BY DEF FetchHistory
  <2>2. \A i \in DOMAIN log : log[i] # r /\ log[i] \in Requests
    BY <1>3, <2>1, LogTypes DEF LogInv
  <2>3. \A i \in DOMAIN log : appender'[log[i]] = appender[log[i]]
    BY <1>1, <1>3, <2>2 DEF SessionTypeOK
  <2>4. QED
    BY <1>2, <1>3, <2>3 DEF LogInv
<1>7. InOrder(history, log)'
  BY <1>2, <1>3 DEF InOrder
<1>8. FetchInv'
  <2> SUFFICES ASSUME NEW x \in Requests, appender'[x].at = "fetched"
               PROVE  /\ InOrder(appender[x].state, log)'
                      /\ appender'[x].seen <= Len(log)
                      /\ ~appender'[x].blind /\ appender'[x].seen = Len(log) =>
                                history \in {appender'[x].state, <<>>}
    BY <1>2 DEF FetchInv
  <2>1. CASE x = r
    <3>1. /\ appender'[x].state = state /\ appender'[x].seen = Len(log)
          /\ appender'[x].blind = blind
      BY <1>1, <1>3, <2>1 DEF SessionTypeOK, Fetched
    <3>2. InOrder(appender[x].state, log)'
      BY <1>1, <1>2, <3>1 DEF InOrder
    <3>3. QED
      BY <1>1, <1>4, <3>1, <3>2
  <2>2. CASE x # r
    <3>1. appender'[x] = appender[x]
      BY <1>1, <1>3, <2>2 DEF SessionTypeOK
    <3>2. QED
      BY <1>2, <1>3, <3>1 DEF FetchInv, InOrder
  <2>3. QED
    BY <2>1, <2>2
<1>9. QED
  BY <1>5, <1>6, <1>7, <1>8 DEF SessionInv

\* An event that is new to l may be added to it, and to it and to what is kept of s.
LEMMA OrderGrows ==
    ASSUME NEW l \in Seq(Requests), NEW r \in Requests, \A i \in DOMAIN l : l[i] # r,
           NEW s \in Histories, InOrder(s, l)
    PROVE  /\ InOrder(s, Append(l, r))
           /\ InOrder(Append(Keep(s), r), Append(l, r))
<1> DEFINE grown == Append(l, r)
           kept == Keep(s)
           stored == Append(kept, r)
<1>1. /\ Len(l) \in Nat /\ DOMAIN l = 1..Len(l)
      /\ DOMAIN grown = 1..(Len(l) + 1) /\ grown[Len(l) + 1] = r
      /\ \A i \in 1..Len(l) : grown[i] = l[i]
  BY LenProperties, AppendProperties
<1>2. s \in Seq(Requests) /\ Len(s) \in Nat /\ DOMAIN s = 1..Len(s)
  BY HistoryTypes, LenProperties
<1>3. PICK d \in Nat : Len(kept) = Len(s) - d /\ \A p \in 1..Len(kept) : kept[p] = s[p + d]
  BY KeepIsEnd
<1>4. Len(kept) \in Nat
  BY KeepIsEnd, LenProperties
<1>5. /\ DOMAIN stored = 1..(Len(kept) + 1) /\ stored[Len(kept) + 1] = r
      /\ \A p \in 1..Len(kept) : stored[p] = kept[p]
  BY StoredHistory
<1> HIDE DEF grown, kept, stored
<1>6. \A p \in DOMAIN s : \E i \in DOMAIN l : s[p] = l[i]
  BY DEF InOrder
<1>7. \A p \in DOMAIN s : s[p] # r
  BY <1>6
<1>8. \A i \in DOMAIN grown : i \in 1..Len(l) \/ i = Len(l) + 1
  BY <1>1
<1>9. InOrder(s, grown)
  <2>1. \A p \in DOMAIN s : \E i \in DOMAIN grown : s[p] = grown[i]
    <3> SUFFICES ASSUME NEW p \in DOMAIN s PROVE \E i \in DOMAIN grown : s[p] = grown[i]
      OBVIOUS
    <3>1. PICK i \in DOMAIN l : s[p] = l[i]
      BY <1>6
    <3>2. i \in DOMAIN grown /\ grown[i] = l[i]
      BY <1>1
    <3>3. QED
      BY <3>1, <3>2
  <2>2. ASSUME NEW p \in DOMAIN s, NEW q \in DOMAIN s, NEW i \in DOMAIN grown,
               NEW j \in DOMAIN grown, s[p] = grown[i], s[q] = grown[j], p < q
        PROVE  i < j
    <3>1. i \in 1..Len(l) /\ j \in 1..Len(l)
      BY <1>1, <1>7, <1>8, <2>2
    <3>2. s[p] = l[i] /\ s[q] = l[j]
      BY <1>1, <2>2, <3>1
    <3>3. QED
      BY <1>1, <2>2, <3>1, <3>2 DEF InOrder
  <2>3. QED
    BY <2>1, <2>2 DEF InOrder
<1>10. InOrder(stored, grown)
  <2>1. \A p \in DOMAIN stored : \/ p = Len(kept) + 1 /\ stored[p] = r
                                 \/ /\ p \in 1..Len(kept) /\ p + d \in DOMAIN s
                                    /\ stored[p] = s[p + d]
    BY <1>2, <1>3, <1>4, <1>5
  <2>2. \A p \in DOMAIN stored : \E i \in DOMAIN grown : stored[p] = grown[i]
    <3> SUFFICES ASSUME NEW p \in DOMAIN stored PROVE \E i \in DOMAIN grown : stored[p] = grown[i]
      OBVIOUS
    <3>1. CASE stored[p] = r
      BY <1>1, <3>1
    <3>2. CASE p + d \in DOMAIN s /\ stored[p] = s[p + d]
      BY <1>9, <3>2 DEF InOrder
    <3>3. QED
      BY <2>1, <3>1, <3>2
  <2>3. ASSUME NEW p \in DOMAIN stored, NEW q \in DOMAIN stored, NEW i \in DOMAIN grown,
               NEW j \in DOMAIN grown, stored[p] = grown[i], stored[q] = grown[j], p < q
        PROVE  i < j
    <3>1. p \in 1..Len(kept) /\ p + d \in DOMAIN s /\ stored[p] = s[p + d]
      BY <1>4, <1>5, <2>1, <2>3
    <3>2. i \in 1..Len(l)
      BY <1>1, <1>7, <1>8, <2>3, <3>1
    <3>3. CASE q = Len(kept) + 1 /\ stored[q] = r
      <4>1. j = Len(l) + 1
        BY <1>1, <1>8, <2>3, <3>3
      <4>2. QED
        BY <1>1, <3>2, <4>1
    <3>4. CASE q \in 1..Len(kept) /\ q + d \in DOMAIN s /\ stored[q] = s[q + d]
      <4>1. p + d < q + d
        BY <1>3, <1>4, <2>3, <3>1, <3>4
      <4>2. QED
        BY <1>9, <2>3, <3>1, <3>4, <4>1 DEF InOrder
    <3>5. QED
      BY <2>1, <3>3, <3>4
  <2>4. QED
    BY <2>2, <2>3 DEF InOrder
<1>11. QED
  BY <1>9, <1>10 DEF grown, kept, stored

\* A request that has fetched is not in the log.
LEMMA FetchedIsNew ==
    ASSUME SessionInv, NEW r \in Requests, appender[r].at = "fetched"
    PROVE  \A i \in DOMAIN log : log[i] # r
BY DEF SessionInv, LogInv

\* A call that has no effect.
LEMMA GiveUpKeeps ==
    ASSUME SessionInv, NEW r \in Requests, appender[r].at = "fetched",
           UNCHANGED <<history, left, log>>,
           appender' = [appender EXCEPT ![r] = [at |-> "after"]]
    PROVE  SessionInv'
<1>1. SessionTypeOK /\ LogInv /\ InOrder(history, log) /\ FetchInv
  BY DEF SessionInv
<1>2. \A x \in Requests : appender'[x] = IF x = r THEN [at |-> "after"] ELSE appender[x]
  BY <1>1 DEF SessionTypeOK
<1>3. SessionTypeOK'
  <2>1. appender' \in [Requests -> Appenders]
    BY <1>1 DEF SessionTypeOK, Appenders
  <2>2. QED
    BY <1>1, <2>1 DEF SessionTypeOK
<1>4. LogInv'
  BY <1>1, <1>2, LogTypes DEF LogInv
<1>5. InOrder(history, log)'
  BY <1>1 DEF InOrder
<1>6. FetchInv'
  <2> SUFFICES ASSUME NEW x \in Requests, appender'[x].at = "fetched"
               PROVE  /\ InOrder(appender[x].state, log)'
                      /\ appender'[x].seen <= Len(log)
                      /\ ~appender'[x].blind /\ appender'[x].seen = Len(log) =>
                                history \in {appender'[x].state, <<>>}
    BY DEF FetchInv
  <2>1. appender'[x] = appender[x]
    BY <1>2
  <2>2. QED
    BY <1>1, <2>1 DEF FetchInv, InOrder
<1>7. QED
  BY <1>3, <1>4, <1>5, <1>6 DEF SessionInv

LEMMA StoreKeeps ==
    ASSUME SessionInv, NEW r \in Requests, appender[r].at = "fetched", Store(r),
           appender' = [appender EXCEPT ![r] = [at |-> "after"]]
    PROVE  SessionInv'
<1>1. SessionTypeOK /\ LogInv /\ InOrder(history, log) /\ FetchInv
  BY DEF SessionInv
<1>2. PICK s \in Histories : s = appender[r].state /\ InOrder(s, log)
  BY <1>1, FetchedTypes DEF FetchInv
<1>3. history' = Append(Keep(s), r) /\ left' = SessionTTL /\ log' = Append(log, r)
  BY <1>2 DEF Store
<1>4. \A x \in Requests : appender'[x] = IF x = r THEN [at |-> "after"] ELSE appender[x]
  BY <1>1 DEF SessionTypeOK
<1>5. \A i \in DOMAIN log : log[i] # r
  BY FetchedIsNew
<1>6. PICK l \in Seq(Requests) : l = log
  BY <1>1, LogTypes
<1>7. PICK grown : grown = Append(l, r)
  OBVIOUS
<1>8. /\ Len(l) \in Nat /\ DOMAIN l = 1..Len(l)
      /\ grown \in Seq(Requests) /\ Len(grown) = Len(l) + 1
      /\ DOMAIN grown = 1..(Len(l) + 1) /\ grown[Len(l) + 1] = r
      /\ \A i \in 1..Len(l) : grown[i] = l[i]
  BY <1>7, LenProperties, AppendProperties
<1>9. log' = grown
  BY <1>3, <1>6, <1>7
<1>10. \A i, j \in DOMAIN grown : grown[i] = grown[j] => i = j
  <2>1. \A i, j \in DOMAIN l : l[i] = l[j] => i = j
    BY <1>1, <1>6 DEF LogInv
  <2>2. \A i \in DOMAIN grown : \/ i \in DOMAIN l /\ grown[i] = l[i] /\ l[i] # r
                                \/ i = Len(l) + 1 /\ grown[i] = r
    BY <1>5, <1>6, <1>8
  <2>3. QED
    BY <2>1, <2>2
<1>11. Len(grown) <= Cardinality(Requests)
  BY <1>8, <1>10, DistinctIsShort, SessionAssumption
<1>12. SessionTypeOK'
  <2>1. appender' \in [Requests -> Appenders]
    BY <1>1 DEF SessionTypeOK, Appenders
  <2>2. history' \in Histories /\ history' # <<>>
    BY <1>3, StoredHistory
  <2>3. left' \in 0..SessionTTL /\ left' # 0
    BY <1>3, SessionAssumption
  <2>4. log' \in UNION {[1..n -> Requests] : n \in 0..Cardinality(Requests)}
    BY <1>8, <1>9, <1>11, HistoryTypes
  <2>5. (left' = 0) = (history' = <<>>)
    BY <2>2, <2>3
  <2>6. QED
    BY <2>1, <2>2, <2>3, <2>4, <2>5 DEF SessionTypeOK
<1>13. LogInv'
  <2>1. \A i \in DOMAIN grown : appender'[grown[i]].at = "after"
    <3> SUFFICES ASSUME NEW i \in DOMAIN grown PROVE appender'[grown[i]].at = "after"
      OBVIOUS
    <3>1. CASE grown[i] = r
      BY <1>4, <3>1
    <3>2. CASE i \in DOMAIN l /\ grown[i] = l[i]
      <4>1. l[i] \in Requests /\ l[i] # r /\ appender[l[i]].at = "after"
        BY <1>1, <1>5, <1>6, <3>2, LogTypes DEF LogInv
      <4>2. QED
        BY <1>4, <3>2, <4>1
    <3>3. QED
      BY <1>8, <3>1, <3>2
  <2>2. QED
    BY <1>9, <1>10, <2>1 DEF LogInv
<1>14. InOrder(history, log)'
  <2>1. InOrder(Append(Keep(s), r), Append(log, r))
    BY <1>2, <1>5, <1>6, OrderGrows
  <2>2. QED
    BY <1>3, <2>1 DEF InOrder
<1>15. FetchInv'
  <2> SUFFICES ASSUME NEW x \in Requests, appender'[x].at = "fetched"
               PROVE  /\ InOrder(appender[x].state, log)'
                      /\ appender'[x].seen <= Len(log)'
                      /\ appender'[x].seen # Len(log)'
    BY DEF FetchInv
  <2>1. appender'[x] = appender[x] /\ appender[x].at = "fetched"
    BY <1>4
  <2>2. PICK state \in Histories : state = appender[x].state /\ InOrder(state, log)
    BY <1>1, <2>1, FetchedTypes DEF FetchInv
  <2>3. InOrder(state, Append(log, r))
    BY <1>5, <1>6, <2>2, OrderGrows
  <2>4. InOrder(appender[x].state, log)'
    <3>1. appender'[x].state = state
      BY <2>1, <2>2
    <3>2. InOrder(appender'[x].state, log')
      BY <1>3, <2>3, <3>1
    <3>3. QED
      BY <3>2 DEF InOrder
  <2>5. PICK n \in Nat : n = appender[x].seen
    BY <1>1, <2>1, FetchedTypes
  <2>6. n <= Len(l)
    BY <1>1, <1>6, <2>1, <2>5 DEF FetchInv
  <2>7. n <= Len(grown) /\ n # Len(grown)
    BY <1>8, <2>6
  <2>8. QED
    BY <1>9, <2>1, <2>4, <2>5, <2>7
<1>16. QED
  BY <1>12, <1>13, <1>14, <1>15 DEF SessionInv

LEMMA StoreHistoryKeeps ==
    ASSUME SessionInv, NEW r \in Requests, StoreHistory(r)
    PROVE  SessionInv'
<1>1. CASE Store(r)
  BY <1>1, StoreKeeps DEF StoreHistory
<1>2. CASE ~Store(r)
  BY <1>2, GiveUpKeeps DEF StoreHistory
<1>3. QED
  BY <1>1, <1>2

\* A tick, a restart of Redis, and a step that is not the session's.
LEMMA OthersKeep ==
    ASSUME SessionInv, SessionAges \/ SessionLost \/ UNCHANGED sessionVars
    PROVE  SessionInv'
<1>1. SessionTypeOK /\ LogInv /\ InOrder(history, log) /\ FetchInv
  BY DEF SessionInv
<1>2. /\ appender' = appender /\ log' = log
      /\ history' \in {history, <<>>}
      /\ left' \in 0..SessionTTL /\ (left' = 0) = (history' = <<>>)
  <2>1. SessionTTL \in Nat \ {0}
    BY SessionAssumption
  <2>2. PICK n \in 0..SessionTTL : n = left
    BY <1>1 DEF SessionTypeOK
  <2>3. CASE SessionAges
    <3>1. (IF n = 0 THEN 0 ELSE n - 1) \in 0..SessionTTL
      BY <2>1, <2>2
    <3>2. (IF n = 0 THEN 0 ELSE n - 1) = 0 <=> n <= 1
      BY <2>1, <2>2
    <3>3. left' = (IF n = 0 THEN 0 ELSE n - 1) /\ history' = IF n <= 1 THEN <<>> ELSE history
      BY <2>2, <2>3 DEF SessionAges
    <3>4. n = 0 <=> history = <<>>
      BY <1>1, <2>2 DEF SessionTypeOK
    <3>5. ~(n <= 1) => history # <<>>
      BY <2>2, <3>4
    <3>6. left' = 0 <=> history' = <<>>
      <4>1. CASE n <= 1
        BY <3>2, <3>3, <4>1
      <4>2. CASE ~(n <= 1)
        BY <3>2, <3>3, <3>5, <4>2
      <4>3. QED
        BY <4>1, <4>2
    <3>7. (left' = 0) = (history' = <<>>)
      BY <3>6
    <3>8. appender' = appender /\ log' = log /\ history' \in {history, <<>>}
      BY <2>3, <3>3 DEF SessionAges
    <3>9. QED
      BY <3>1, <3>3, <3>7, <3>8
  <2>4. CASE SessionLost
    BY <2>1, <2>4 DEF SessionLost
  <2>5. CASE UNCHANGED sessionVars
    BY <1>1, <2>5 DEF sessionVars, SessionTypeOK
  <2>6. QED
    BY <2>3, <2>4, <2>5
<1>3. SessionTypeOK'
  BY <1>1, <1>2, NothingInOrder DEF SessionTypeOK
<1>4. LogInv'
  BY <1>1, <1>2 DEF LogInv
<1>5. InOrder(history, log)'
  <2>1. InOrder(history', log)
    BY <1>1, <1>2, NothingInOrder
  <2>2. QED
    BY <1>2, <2>1 DEF InOrder
<1>6. FetchInv'
  <2> SUFFICES ASSUME NEW x \in Requests, appender[x].at = "fetched"
               PROVE  /\ InOrder(appender[x].state, log)'
                      /\ appender[x].seen <= Len(log)
                      /\ ~appender[x].blind /\ appender[x].seen = Len(log) =>
                                history' \in {appender[x].state, <<>>}
    BY <1>2 DEF FetchInv
  <2>1. QED
    BY <1>1, <1>2 DEF FetchInv, InOrder
<1>7. QED
  BY <1>3, <1>4, <1>5, <1>6 DEF SessionInv

\* As many events of the log are later than one of s as elements of s are.
LEMMA LaterInLog ==
    ASSUME NEW l \in Seq(Requests), \A i, j \in DOMAIN l : l[i] = l[j] => i = j,
           NEW s \in Seq(Requests), InOrder(s, l),
           NEW p \in DOMAIN s, NEW i \in DOMAIN l, s[p] = l[i]
    PROVE  Len(l) - i >= Len(s) - p
<1>1. /\ Len(l) \in Nat /\ DOMAIN l = 1..Len(l) /\ Len(s) \in Nat /\ DOMAIN s = 1..Len(s)
  BY LenProperties
<1> DEFINE at(q) == CHOOSE j \in DOMAIN l : s[q] = l[j]
           f == [q \in (p + 1)..Len(s) |-> at(q)]
<1>2. ASSUME NEW q \in (p + 1)..Len(s)
      PROVE  at(q) \in DOMAIN l /\ s[q] = l[at(q)] /\ q \in DOMAIN s /\ p < q
  <2>1. q \in DOMAIN s /\ p < q
    BY <1>1
  <2>2. \E j \in DOMAIN l : s[q] = l[j]
    BY <2>1 DEF InOrder
  <2>3. QED
    BY <2>1, <2>2
<1> HIDE DEF at
<1>3. \A q \in (p + 1)..Len(s) : at(q) \in (i + 1)..Len(l)
  <2> SUFFICES ASSUME NEW q \in (p + 1)..Len(s) PROVE at(q) \in (i + 1)..Len(l)
    OBVIOUS
  <2>1. i < at(q)
    BY <1>2 DEF InOrder
  <2>2. at(q) \in 1..Len(l)
    BY <1>1, <1>2
  <2>3. QED
    BY <1>1, <2>1, <2>2
<1>4. \A q, t \in (p + 1)..Len(s) : at(q) = at(t) => q = t
  <2> SUFFICES ASSUME NEW q \in (p + 1)..Len(s), NEW t \in (p + 1)..Len(s), at(q) = at(t), q # t
               PROVE  FALSE
    OBVIOUS
  <2>1. at(q) \in Nat /\ at(t) \in Nat
    BY <1>1, <1>2
  <2>2. q < t => at(q) < at(t)
    BY <1>2 DEF InOrder
  <2>3. t < q => at(t) < at(q)
    BY <1>2 DEF InOrder
  <2>4. q < t \/ t < q
    BY <1>1
  <2>5. QED
    BY <2>1, <2>2, <2>3, <2>4
<1>5. f \in Injection((p + 1)..Len(s), (i + 1)..Len(l))
  BY <1>3, <1>4 DEF Injection, IsInjective
<1>6. IsFiniteSet((i + 1)..Len(l)) /\ Cardinality((i + 1)..Len(l)) = Len(l) - i
  BY <1>1, SizeOfRest
<1>7. Cardinality((p + 1)..Len(s)) = Len(s) - p
  BY <1>1, SizeOfRest
<1>8. Cardinality((p + 1)..Len(s)) <= Cardinality((i + 1)..Len(l))
  BY <1>5, <1>6, FS_Injection
<1>9. QED
  BY <1>1, <1>6, <1>7, <1>8

\* What one step of LossExcused says.
LossExcusedStep ==
    \A i \in DOMAIN log :
        log[i] \in ToSet(history) /\ log[i] \notin ToSet(history') =>
            \/ history' = <<>>
            \/ \E r \in Requests : /\ appender[r].at = "fetched"
                                   /\ appender'[r].at = "after"
                                   /\ Excused(r, i)

\* A store drops no event that it has no excuse for.
LEMMA StoreExcused ==
    ASSUME SessionInv, NEW r \in Requests, appender[r].at = "fetched", Store(r),
           appender' = [appender EXCEPT ![r] = [at |-> "after"]]
    PROVE  LossExcusedStep
<1> SUFFICES ASSUME NEW i \in DOMAIN log, log[i] \in ToSet(history), log[i] \notin ToSet(history'),
                    ~Excused(r, i)
             PROVE  FALSE
  <2>1. appender'[r].at = "after"
    BY DEF SessionInv, SessionTypeOK
  <2>2. QED
    BY <2>1 DEF LossExcusedStep
<1>1. SessionTypeOK /\ LogInv /\ FetchInv
  BY DEF SessionInv
<1>2. PICK s \in Histories : s = appender[r].state /\ InOrder(s, log)
  BY <1>1, FetchedTypes DEF FetchInv
<1>3. PICK l \in Seq(Requests) : l = log /\ \A x, y \in DOMAIN l : l[x] = l[y] => x = y
  BY <1>1, LogTypes DEF LogInv
<1>4. PICK n \in Nat : n = appender[r].seen /\ n <= Len(l)
  BY <1>1, <1>3, FetchedTypes DEF FetchInv
<1>5. /\ ~appender[r].blind
      /\ l[i] \in ToSet(s) \/ ~(n < Len(l))
      /\ ~(Len(l) - i >= MaxHistory - 1)
  BY <1>2, <1>3, <1>4 DEF Excused, After
<1>6. Len(l) \in Nat /\ DOMAIN l = 1..Len(l) /\ i \in 1..Len(l)
  BY <1>3, LenProperties
<1>7. l[i] \in ToSet(s)
  <2>1. CASE ~(n < Len(l))
    <3>1. n = Len(l)
      BY <1>4, <1>6, <2>1
    <3>2. history \in {s, <<>>}
      BY <1>1, <1>2, <1>3, <1>4, <1>5, <3>1 DEF FetchInv
    <3>3. history # <<>>
      BY DEF ToSet
    <3>4. QED
      BY <1>3, <3>2, <3>3
  <2>2. QED
    BY <1>5, <2>1
<1>8. s \in Seq(Requests) /\ Len(s) \in Nat /\ DOMAIN s = 1..Len(s)
  BY HistoryTypes, LenProperties
<1>9. PICK p \in 1..Len(s) : s[p] = l[i]
  BY <1>7, <1>8 DEF ToSet
<1> DEFINE kept == Keep(s)
           stored == Append(kept, r)
<1>10. PICK d \in Nat : /\ Len(kept) = Len(s) - d
                        /\ d > 0 => Len(kept) = MaxHistory - 1
                        /\ \A x \in 1..Len(kept) : kept[x] = s[x + d]
  BY KeepIsEnd
<1>11. Len(kept) \in Nat
  BY KeepIsEnd, LenProperties
<1>12. /\ DOMAIN stored = 1..(Len(kept) + 1)
       /\ \A x \in 1..Len(kept) : stored[x] = kept[x]
  BY StoredHistory
<1>13. \A x \in DOMAIN stored : stored[x] # l[i]
  <2>1. history' = stored
    BY <1>2 DEF Store
  <2>2. QED
    BY <1>3, <2>1 DEF ToSet
<1> HIDE DEF kept, stored
<1>14. p <= d
  <2> SUFFICES ASSUME ~(p <= d) PROVE FALSE
    OBVIOUS
  <2>1. p - d \in 1..Len(kept) /\ (p - d) + d = p
    BY <1>8, <1>9, <1>10, <1>11
  <2>2. stored[p - d] = s[p]
    BY <1>10, <1>12, <2>1
  <2>3. p - d \in DOMAIN stored
    BY <1>11, <1>12, <2>1
  <2>4. QED
    BY <1>9, <1>13, <2>2, <2>3
<1>15. Len(kept) = MaxHistory - 1
  BY <1>9, <1>10, <1>14
<1>16. Len(l) - i >= Len(s) - p
  BY <1>2, <1>3, <1>8, <1>9, LaterInLog
<1>17. MaxHistory \in Nat
  BY SessionAssumption
<1>18. QED
  BY <1>5, <1>6, <1>8, <1>9, <1>10, <1>14, <1>15, <1>16, <1>17

\* Every step of the session keeps its invariant, and drops no event without an excuse.
LEMMA SessionSteps ==
    ASSUME SessionInv,
           SessionStep \/ SessionAges \/ SessionLost \/ UNCHANGED sessionVars
    PROVE  SessionInv' /\ (LossExcusedStep \/ UNCHANGED sessionVars)
<1>1. CASE SessionStep
  <2>1. PICK r \in Requests : FetchHistory(r) \/ StoreHistory(r)
    BY <1>1 DEF SessionStep
  <2>2. CASE FetchHistory(r)
    BY <2>2, FetchKeeps DEF FetchHistory, LossExcusedStep
  <2>3. CASE StoreHistory(r)
    <3>1. SessionInv'
      BY <2>3, StoreHistoryKeeps
    <3>2. LossExcusedStep
      BY <2>3, StoreExcused DEF StoreHistory, LossExcusedStep
    <3>3. QED
      BY <3>1, <3>2
  <2>4. QED
    BY <2>1, <2>2, <2>3
<1>2. CASE SessionAges \/ SessionLost \/ UNCHANGED sessionVars
  <2>1. SessionInv'
    BY <1>2, OthersKeep
  <2>2. SessionAges \/ SessionLost => history' = history \/ history' = <<>>
    BY DEF SessionAges, SessionLost
  <2>3. SessionAges \/ SessionLost => LossExcusedStep
    BY <2>2 DEF LossExcusedStep
  <2>4. QED
    BY <1>2, <2>1, <2>3
<1>3. QED
  BY <1>1, <1>2

-----------------------------------------------------------------------------
(* The alerts *)

\* The alert that a poll has come to is one of those that it has to do.
LEMMA AtHandIsToDo ==
    ASSUME NEW g, poll[g].todo \in (SUBSET AlertKeys) \ {{}}
    PROVE  AtHand(g) \in poll[g].todo /\ AtHand(g) \in AlertKeys
<1> DEFINE waiting == poll[g].todo
           places == {key[1] : key \in waiting}
           less == {pair \in Nat \X Nat : pair[1] < pair[2]}
<1>1. waiting \subseteq AlertKeys /\ waiting # {}
  OBVIOUS
<1> HIDE DEF waiting
<1>2. \A key \in waiting : key[1] \in Nat
  BY <1>1, AlertAssumption DEF AlertKeys, Customers
<1>3. places \subseteq Nat /\ places # {}
  BY <1>1, <1>2
<1>4. IsWellFoundedOn(less, Nat)
  BY NatLessThanWellFounded DEF OpToRel
<1> HIDE DEF places
<1>5. PICK least \in places : \A other \in places : least <= other
  <2>1. PICK least \in places : \A other \in places : ~(<<other, least>> \in less)
    BY <1>3, <1>4, WFMin
  <2>2. ASSUME NEW other \in places PROVE least <= other
    <3>1. other \in Nat /\ least \in Nat /\ <<other, least>> \in Nat \X Nat
      BY <1>3
    <3>2. ~(other < least)
      BY <2>1, <3>1
    <3>3. QED
      BY <3>1, <3>2
  <2>3. QED
    BY <2>2
<1>6. \E key \in waiting : \A other \in waiting : key[1] <= other[1]
  BY <1>5 DEF places
<1>7. AtHand(g) \in waiting
  BY <1>6 DEF AtHand, waiting
<1>8. QED
  BY <1>1, <1>7 DEF waiting

\* Ageing takes a tick from each window and drops those that end, the first ones.
LEMMA ShorterWindows ==
    ASSUME NEW w \in Windows
    PROVE  /\ Shorter(w) \in Windows
           /\ Len(Shorter(w)) <= Len(w)
           /\ \A i \in DOMAIN Shorter(w) : \E j \in DOMAIN w : Shorter(w)[i] = w[j] - 1
<1> DEFINE n == Len(w)
           ended == {i \in DOMAIN w : w[i] = 1}
           k == Cardinality(ended)
           still == SubSeq(w, k + 1, n)
           shorter == [i \in DOMAIN still |-> still[i] - 1]
<1>1. AlertTTL \in Nat \ {0}
  BY AlertAssumption
<1>2. /\ w \in Seq(1..AlertTTL) /\ n \in Nat /\ DOMAIN w = 1..n
      /\ \A i \in 1..n : w[i] \in 1..AlertTTL
      /\ \A i, j \in 1..n : i < j => w[i] <= w[j]
  BY LenProperties, ElementOfSeq DEF Windows
<1> HIDE DEF n
<1>3. IsFiniteSet(ended) /\ k \in 0..n
  <2>1. IsFiniteSet(1..n) /\ Cardinality(1..n) = n
    <3>1. 1 \in Int /\ n \in Int /\ (1 > n => n = 0) /\ n - 1 + 1 = n
      BY <1>2
    <3>2. QED
      BY <1>2, <3>1, FS_Interval
  <2>2. ended \in SUBSET (1..n)
    BY <1>2
  <2> HIDE DEF ended
  <2>3. IsFiniteSet(ended) /\ Cardinality(ended) <= n
    BY <2>1, <2>2, FS_Subset
  <2>4. QED
    BY <1>2, <2>3, FS_CardinalityType
<1>4. ASSUME NEW i \in (k + 1)..n
      PROVE  w[i] \in 2..AlertTTL
  <2>1. i \in 1..n /\ w[i] \in 1..AlertTTL
    BY <1>2, <1>3
  <2>2. ASSUME w[i] = 1
        PROVE  FALSE
    <3>1. \A j \in 1..i : w[j] = 1
      <4>1. TAKE j \in 1..i
      <4>2. j \in 1..n /\ w[j] \in 1..AlertTTL
        BY <1>2, <2>1
      <4>3. w[j] <= 1
        BY <1>2, <2>1, <2>2, <4>2
      <4>4. QED
        BY <4>2, <4>3, <1>1
    <3>2. 1..i \in SUBSET ended
      BY <1>2, <2>1, <3>1
    <3>3. IsFiniteSet(1..i) /\ Cardinality(1..i) = i
      <4>1. 1 \in Int /\ i \in Int /\ ~(1 > i) /\ i - 1 + 1 = i
        BY <2>1
      <4>2. QED
        BY <2>1, <4>1, FS_Interval
    <3> HIDE DEF ended
    <3>4. i <= k
      BY <1>3, <3>2, <3>3, FS_Subset
    <3>5. QED
      BY <1>3, <3>4
  <2>3. QED
    BY <1>1, <2>1, <2>2
<1> HIDE DEF k, ended
<1>5. /\ still \in Seq(1..AlertTTL)
      /\ Len(still) = n - k
      /\ \A i \in 1..(n - k) : still[i] = w[k + i] /\ k + i \in (k + 1)..n
  <2>1. k + 1 \in Int /\ n \in Int /\ k \in Nat /\ n - k \in Nat
    BY <1>2, <1>3
  <2>2. \A i \in (k + 1)..n : w[i] \in 1..AlertTTL
    BY <1>2, <1>3
  <2>3. /\ still \in Seq(1..AlertTTL)
        /\ Len(still) = IF k + 1 <= n THEN n - (k + 1) + 1 ELSE 0
        /\ \A i \in 1..(n - (k + 1) + 1) : still[i] = w[(k + 1) + i - 1]
    BY <2>1, <2>2, SubSeqProperties
  <2>4. \A i \in 1..(n - k) : i \in 1..(n - (k + 1) + 1) /\ (k + 1) + i - 1 = k + i /\ k + i \in (k + 1)..n
    BY <1>2, <1>3
  <2>5. Len(still) = n - k
    BY <2>1, <2>3
  <2>6. QED
    BY <2>3, <2>4, <2>5
<1>6. DOMAIN still = 1..(n - k)
  BY <1>5, LenProperties
<1>7. shorter = Shorter(w)
  BY DEF Shorter, shorter, still, n, k, ended
<1> HIDE DEF still
<1>8. \A i \in 1..(n - k) : /\ shorter[i] = w[k + i] - 1
                            /\ shorter[i] \in 1..AlertTTL
                            /\ k + i \in 1..n
  <2>1. TAKE i \in 1..(n - k)
  <2>2. shorter[i] = w[k + i] - 1 /\ k + i \in (k + 1)..n
    BY <1>5, <1>6
  <2>3. w[k + i] \in 2..AlertTTL
    BY <1>4, <2>2
  <2>4. w[k + i] - 1 \in 1..AlertTTL
    BY <1>1, <2>3
  <2>5. QED
    BY <1>2, <1>3, <2>2, <2>4
<1>9. n - k \in Nat /\ n - k <= n
  BY <1>2, <1>3
<1>10. shorter \in [1..(n - k) -> 1..AlertTTL] /\ DOMAIN shorter = 1..(n - k)
  BY <1>6, <1>8
<1> HIDE DEF shorter
<1>11. shorter \in Seq(1..AlertTTL) /\ Len(shorter) = n - k
  <2>1. PICK m \in Nat : m = n - k
    BY <1>9
  <2>2. shorter \in [1..m -> 1..AlertTTL]
    BY <1>10, <2>1
  <2>3. shorter \in Seq(1..AlertTTL) /\ Len(shorter) = m
    BY <2>2, FunctionIsSequence
  <2>4. QED
    BY <2>1, <2>3
<1>12. \A i, j \in 1..(n - k) : i < j => shorter[i] <= shorter[j]
  <2> SUFFICES ASSUME NEW i \in 1..(n - k), NEW j \in 1..(n - k), i < j
               PROVE  shorter[i] <= shorter[j]
    OBVIOUS
  <2>1. k + i \in 1..n /\ k + j \in 1..n /\ k + i < k + j
    BY <1>2, <1>3, <1>8
  <2>2. w[k + i] <= w[k + j] /\ w[k + i] \in 1..AlertTTL /\ w[k + j] \in 1..AlertTTL
    BY <1>2, <2>1
  <2>3. w[k + i] - 1 <= w[k + j] - 1
    BY <1>1, <2>2
  <2>4. QED
    BY <1>8, <2>3
<1>13. shorter \in Windows
  BY <1>10, <1>11, <1>12 DEF Windows
<1>14. \A i \in DOMAIN shorter : \E j \in DOMAIN w : shorter[i] = w[j] - 1
  BY <1>2, <1>8, <1>10
<1>15. QED
  BY <1>7, <1>9, <1>11, <1>13, <1>14 DEF n

\* The polls that have found no mark for the alert, and are about to send it.
Setting(k) == {g \in Polls : poll[g].at = "set" /\ AtHand(g) = k}

\* An alert that was sent and marked has the mark for its window; so while there
\* is no mark no poll has sent it within a TTL, and those that have and those that
\* are about to are no more than the polls.
MarkCovers == \A k \in AlertKeys : \A i \in DOMAIN fresh[k] : fresh[k][i] <= mark[k]
SendersBounded ==
    \A k \in AlertKeys : Len(fresh[k]) + Cardinality(Setting(k)) <= Cardinality(Polls)

\* The poll has the alert before it.
Pending(g, k) == poll[g].at # "none" /\ k \in poll[g].todo

\* A mark is as old as the silence at least; without one, the next poll on
\* time ends the silence.
SilenceOf(k) ==
    /\ silent[k] > 0 => level[k[1]] = k[2]
    /\ mark[k] > 0 => silent[k] + mark[k] <= AlertTTL
    /\ \A w \in Watching : silent[k] <= AlertTTL + IF Pending(w, k) THEN PollGap ELSE since[w]

AlertInv ==
    /\ AlertTypeOK
    /\ MarkCovers
    /\ SendersBounded
    /\ \A k \in AlertKeys : SilenceOf(k)

LEMMA AlertNumbers ==
    /\ AlertTTL \in Nat \ {0} /\ PollGap \in Nat \ {0}
    /\ Cardinality(Polls) \in Nat /\ IsFiniteSet(Polls)
    /\ Watching \subseteq Polls
    /\ AlertKeys \subseteq Keys
BY AlertAssumption, FS_CardinalityType DEF AlertKeys, Keys

LEMMA SettingIsFinite ==
    \A k : IsFiniteSet(Setting(k)) /\ Cardinality(Setting(k)) \in Nat
                                   /\ Cardinality(Setting(k)) <= Cardinality(Polls)
<1> SUFFICES ASSUME NEW k
             PROVE  /\ IsFiniteSet(Setting(k)) /\ Cardinality(Setting(k)) \in Nat
                    /\ Cardinality(Setting(k)) <= Cardinality(Polls)
  OBVIOUS
<1>1. Setting(k) \in SUBSET Polls
  BY DEF Setting
<1>2. QED
  BY <1>1, AlertNumbers, FS_Subset, FS_CardinalityType

LEMMA NoWindows == <<>> \in Windows
<1>1. PICK none : none = <<>>
  OBVIOUS
<1>2. none \in Seq(1..AlertTTL) /\ DOMAIN none = {}
  BY <1>1, EmptySeq
<1>3. none \in Windows
  BY <1>2 DEF Windows
<1>4. QED
  BY <1>1, <1>3

LEMMA AlertStart == AlertInit => AlertInv
<1> SUFFICES ASSUME AlertInit PROVE AlertInv
  OBVIOUS
<1>1. <<>> \in Windows
  BY NoWindows
<1>2. AlertTypeOK
  BY <1>1, AlertNumbers DEF AlertInit, AlertTypeOK, PollStates, NoPoll
<1>3. MarkCovers
  <2>1. ASSUME NEW k \in AlertKeys PROVE DOMAIN fresh[k] = {}
    BY DEF AlertInit
  <2>2. QED
    BY <2>1 DEF MarkCovers
<1>4. SendersBounded
  <2> SUFFICES ASSUME NEW k \in AlertKeys
               PROVE  Len(fresh[k]) + Cardinality(Setting(k)) <= Cardinality(Polls)
    BY DEF SendersBounded
  <2>1. fresh[k] = <<>>
    BY DEF AlertInit
  <2>2. Len(fresh[k]) = 0
    BY <2>1, EmptySeq
  <2>3. QED
    BY <2>2, SettingIsFinite, AlertNumbers
<1>5. ASSUME NEW k \in AlertKeys PROVE SilenceOf(k)
  <2>1. silent[k] = 0 /\ mark[k] = 0 /\ \A w \in Watching : since[w] = 0
    BY AlertNumbers DEF AlertInit
  <2>2. QED
    BY <2>1, AlertNumbers DEF SilenceOf
<1>6. QED
  BY <1>2, <1>3, <1>4, <1>5 DEF AlertInv

\* The types of what the steps read.
LEMMA AlertReads ==
    ASSUME AlertTypeOK
    PROVE  /\ \A k \in AlertKeys : /\ fresh[k] \in Windows
                                   /\ mark[k] \in Nat /\ mark[k] <= AlertTTL
                                   /\ silent[k] \in Nat
           /\ \A w \in Watching : since[w] \in Nat /\ since[w] <= PollGap
           /\ \A g \in Polls : poll[g].at # "none" =>
                    /\ poll[g].todo \in (SUBSET AlertKeys) \ {{}}
                    /\ AtHand(g) \in poll[g].todo /\ AtHand(g) \in AlertKeys
           /\ \A k \in AlertKeys : Len(fresh[k]) \in Nat
<1>1. \A k \in AlertKeys : /\ fresh[k] \in Windows
                           /\ mark[k] \in Nat /\ mark[k] <= AlertTTL
                           /\ silent[k] \in Nat
  BY AlertNumbers DEF AlertTypeOK
<1>2. \A w \in Watching : since[w] \in Nat /\ since[w] <= PollGap
  BY AlertNumbers DEF AlertTypeOK
<1>3. ASSUME NEW g \in Polls, poll[g].at # "none"
      PROVE  /\ poll[g].todo \in (SUBSET AlertKeys) \ {{}}
             /\ AtHand(g) \in poll[g].todo /\ AtHand(g) \in AlertKeys
  <2>1. poll[g] \in PollStates
    BY DEF AlertTypeOK
  <2>2. poll[g].todo \in (SUBSET AlertKeys) \ {{}}
    BY <1>3, <2>1 DEF PollStates
  <2>3. QED
    BY <2>2, AtHandIsToDo
<1>4. \A k \in AlertKeys : Len(fresh[k]) \in Nat
  BY <1>1, LenProperties DEF Windows
<1>5. QED
  BY <1>1, <1>2, <1>3, <1>4

\* A poll begins or goes on to the next alert: it is about to send none.
LEMMA PollMoves ==
    ASSUME AlertTypeOK, NEW g \in Polls, NEW waiting \in SUBSET AlertKeys,
           poll' = [poll EXCEPT ![g] = Polling(waiting)]
    PROVE  /\ poll' \in [Polls -> PollStates]
           /\ \A k : Setting(k)' = Setting(k) \ {g}
           /\ \A v \in Polls : v # g => poll'[v] = poll[v]
           /\ \A k : Pending(g, k)' <=> k \in waiting
<1>1. poll \in [Polls -> PollStates]
  BY DEF AlertTypeOK
<1>2. Polling(waiting) \in PollStates /\ Polling(waiting).at # "set"
  BY DEF Polling, NoPoll, PollStates
<1>3. poll'[g] = Polling(waiting) /\ \A v \in Polls : v # g => poll'[v] = poll[v]
  BY <1>1
<1>4. \A k : Setting(k)' = Setting(k) \ {g}
  BY <1>2, <1>3 DEF Setting, AtHand
<1>5. \A k : Pending(g, k)' <=> k \in waiting
  BY <1>3 DEF Pending, Polling, NoPoll
<1>6. QED
  BY <1>1, <1>2, <1>3, <1>4, <1>5

\* A poll that has found no mark is about to send the alert.
LEMMA PollSets ==
    ASSUME AlertTypeOK, NEW g \in Polls, poll[g].at = "look",
           poll' = [poll EXCEPT ![g].at = "set"]
    PROVE  /\ poll' \in [Polls -> PollStates]
           /\ \A k : Setting(k)' = IF k = AtHand(g) THEN Setting(k) \cup {g} ELSE Setting(k)
           /\ \A v \in Polls : \A k : Pending(v, k)' <=> Pending(v, k)
<1>1. poll \in [Polls -> PollStates] /\ poll[g] \in PollStates
  BY DEF AlertTypeOK
<1>2. \A v \in Polls : v # g => poll'[v] = poll[v]
  BY <1>1
<1>3. poll'[g].at = "set" /\ poll'[g].todo = poll[g].todo /\ poll'[g] \in PollStates
  BY <1>1 DEF PollStates
<1>4. poll' \in [Polls -> PollStates]
  BY <1>1, <1>3
<1>5. AtHand(g)' = AtHand(g) /\ \A v \in Polls : v # g => AtHand(v)' = AtHand(v)
  BY <1>2, <1>3 DEF AtHand
<1>6. \A k : Setting(k)' = IF k = AtHand(g) THEN Setting(k) \cup {g} ELSE Setting(k)
  BY <1>2, <1>3, <1>5 DEF Setting
<1>7. \A v \in Polls : \A k : Pending(v, k)' <=> Pending(v, k)
  BY <1>2, <1>3 DEF Pending
<1>8. QED
  BY <1>4, <1>6, <1>7

LEMMA SilenceEnds ==
    ASSUME NEW k \in AlertKeys, silent'[k] = 0, mark'[k] \in Nat, mark'[k] <= AlertTTL,
           \A w \in Watching : since'[w] \in Nat
    PROVE  SilenceOf(k)'
<1>1. ASSUME NEW w \in Watching
      PROVE  0 <= AlertTTL + IF Pending(w, k)' THEN PollGap ELSE since'[w]
  <2>1. PICK n \in Nat : n = since'[w]
    OBVIOUS
  <2>2. 0 <= AlertTTL + PollGap /\ 0 <= AlertTTL + n
    BY AlertNumbers, <2>1
  <2>3. QED
    BY <2>1, <2>2
<1>2. ~(silent'[k] > 0)
  OBVIOUS
<1>3. PICK m \in Nat : m = mark'[k] /\ m <= AlertTTL
  OBVIOUS
<1>4. 0 + m <= AlertTTL
  BY <1>3
<1>5. QED
  BY <1>1, <1>2, <1>3, <1>4 DEF SilenceOf

\* The silence lasts, and each poll on time goes on as before, or has the alert
\* before it, or the silence is short of a TTL.
LEMMA SilenceStays ==
    ASSUME AlertInv, NEW k \in AlertKeys, silent'[k] = silent[k], level' = level,
           mark'[k] \in {mark[k], 0},
           \A w \in Watching :
                /\ since'[w] \in Nat
                /\ \/ silent[k] <= AlertTTL
                   \/ Pending(w, k)'
                   \/ ~Pending(w, k) /\ ~Pending(w, k)' /\ since'[w] = since[w]
    PROVE  SilenceOf(k)'
<1>1. AlertTypeOK /\ SilenceOf(k)
  BY DEF AlertInv
<1>2. PICK s \in Nat, m \in Nat : s = silent[k] /\ m = mark[k]
  BY <1>1, AlertReads
<1>3. ASSUME NEW w \in Watching
      PROVE  s <= AlertTTL + IF Pending(w, k)' THEN PollGap ELSE since'[w]
  <2>1. PICK n \in Nat : n = since'[w]
    OBVIOUS
  <2>2. PICK o \in Nat : o = since[w] /\ o <= PollGap
    BY <1>1, AlertReads
  <2>3. s <= AlertTTL + IF Pending(w, k) THEN PollGap ELSE o
    BY <1>1, <1>2, <2>2 DEF SilenceOf
  <2>4. s <= AlertTTL + PollGap
    BY <2>2, <2>3, AlertNumbers
  <2>5. CASE s <= AlertTTL
    <3>1. s <= AlertTTL + PollGap /\ s <= AlertTTL + n
      BY <2>1, <2>5, AlertNumbers
    <3>2. QED
      BY <2>1, <3>1
  <2>6. CASE Pending(w, k)'
    BY <2>4, <2>6
  <2>7. CASE ~Pending(w, k) /\ ~Pending(w, k)' /\ since'[w] = since[w]
    BY <2>2, <2>3, <2>7
  <2>8. QED
    BY <1>2, <2>5, <2>6, <2>7
<1>4. s > 0 => level'[k[1]] = k[2]
  BY <1>1, <1>2 DEF SilenceOf
<1>5. mark'[k] > 0 => s + mark'[k] <= AlertTTL
  <2>1. m > 0 => s + m <= AlertTTL
    BY <1>1, <1>2 DEF SilenceOf
  <2>2. mark'[k] = m \/ mark'[k] = 0
    BY <1>2
  <2>3. CASE mark'[k] = m
    BY <2>1, <2>3
  <2>4. CASE mark'[k] = 0
    BY <2>4
  <2>5. QED
    BY <2>2, <2>3, <2>4
<1>6. silent'[k] = s
  BY <1>2
<1>7. QED
  BY <1>3, <1>4, <1>5, <1>6 DEF SilenceOf

\* Nothing of the alerts' own changes.
LEMMA SendersStay ==
    ASSUME AlertInv, UNCHANGED fresh, NEW k \in AlertKeys,
           Setting(k)' \in SUBSET Setting(k)
    PROVE  Len(fresh'[k]) + Cardinality(Setting(k)') <= Cardinality(Polls)
<1>1. PICK n \in Nat : n = Len(fresh[k])
  BY AlertReads DEF AlertInv
<1>2. PICK old \in Nat, new \in Nat : /\ old = Cardinality(Setting(k))
                                      /\ new = Cardinality(Setting(k)')
                                      /\ new <= old
  BY SettingIsFinite, FS_Subset, FS_CardinalityType
<1>3. n + old <= Cardinality(Polls)
  BY <1>1, <1>2 DEF AlertInv, SendersBounded
<1>4. n + new <= Cardinality(Polls)
  BY <1>2, <1>3, AlertNumbers
<1>5. QED
  BY <1>1, <1>2, <1>4

LEMMA HealthKeeps ==
    ASSUME AlertInv, NEW c \in Customers, HealthChanges(c)
    PROVE  AlertInv'
<1>1. AlertTypeOK /\ MarkCovers /\ SendersBounded /\ \A k \in AlertKeys : SilenceOf(k)
  BY DEF AlertInv
<1>2. /\ mark' = mark /\ poll' = poll /\ since' = since /\ listed' = listed /\ fresh' = fresh
      /\ silent' = [k \in AlertKeys |-> IF k[1] = c THEN 0 ELSE silent[k]]
      /\ level' \in [Customers -> AlertTypes \cup {"none"}]
      /\ \A d \in Customers : d # c => level'[d] = level[d]
  BY <1>1 DEF HealthChanges, AlertTypeOK
<1>3. AlertTypeOK'
  BY <1>1, <1>2 DEF AlertTypeOK
<1>4. MarkCovers'
  BY <1>1, <1>2 DEF MarkCovers
<1>5. \A k : Setting(k)' = Setting(k) /\ \A w : Pending(w, k)' <=> Pending(w, k)
  BY <1>2 DEF Setting, AtHand, Pending
<1>6. SendersBounded'
  BY <1>2, <1>5, SendersStay DEF SendersBounded
<1>7. ASSUME NEW k \in AlertKeys PROVE SilenceOf(k)'
  <2>1. \A w \in Watching : since'[w] \in Nat
    BY <1>1, <1>2, AlertReads
  <2>2. CASE k[1] = c
    BY <1>1, <1>2, <2>1, <2>2, SilenceEnds, AlertReads
  <2>3. CASE k[1] # c
    <3>1. k[1] \in Customers
      BY DEF AlertKeys
    <3>2. level'[k[1]] = level[k[1]] /\ silent'[k] = silent[k]
      BY <1>2, <2>3, <3>1
    <3>3. \A w \in Watching : Pending(w, k)' <=> Pending(w, k)
      BY <1>5
    <3>4. QED
      BY <1>1, <1>2, <3>2, <3>3 DEF SilenceOf
  <2>4. QED
    BY <2>2, <2>3
<1>8. QED
  BY <1>3, <1>4, <1>6, <1>7 DEF AlertInv

LEMMA StartPollKeeps ==
    ASSUME AlertInv, NEW g \in Polls, StartPoll(g)
    PROVE  AlertInv'
<1>1. AlertTypeOK /\ MarkCovers /\ SendersBounded /\ \A k \in AlertKeys : SilenceOf(k)
  BY DEF AlertInv
<1>2. /\ level' = level /\ mark' = mark /\ listed' = listed /\ fresh' = fresh /\ silent' = silent
      /\ poll' = [poll EXCEPT ![g] = Polling(Called(UserOf[g]))]
      /\ since' = [w \in Watching |-> IF w = g THEN 0 ELSE since[w]]
  BY DEF StartPoll
<1>3. Called(UserOf[g]) \in SUBSET AlertKeys
  BY DEF Called
<1>4. /\ poll' \in [Polls -> PollStates]
      /\ \A k : Setting(k)' = Setting(k) \ {g}
      /\ \A v \in Polls : v # g => poll'[v] = poll[v]
      /\ \A k : Pending(g, k)' <=> k \in Called(UserOf[g])
  BY <1>1, <1>2, <1>3, PollMoves
<1>5. since' \in [Watching -> 0..PollGap]
  BY <1>1, <1>2, AlertNumbers DEF AlertTypeOK
<1>6. AlertTypeOK'
  BY <1>1, <1>2, <1>4, <1>5 DEF AlertTypeOK
<1>7. MarkCovers'
  BY <1>1, <1>2 DEF MarkCovers
<1>8. SendersBounded'
  BY <1>2, <1>4, SendersStay DEF SendersBounded
<1>9. ASSUME NEW k \in AlertKeys PROVE SilenceOf(k)'
  <2>1. ASSUME NEW w \in Watching
        PROVE  /\ since'[w] \in Nat
               /\ \/ silent[k] <= AlertTTL
                  \/ Pending(w, k)'
                  \/ ~Pending(w, k) /\ ~Pending(w, k)' /\ since'[w] = since[w]
    <3>1. since'[w] \in Nat
      BY <1>5, AlertNumbers
    <3>2. CASE w # g
      <4>1. poll'[w] = poll[w] /\ since'[w] = since[w]
        BY <1>2, <1>4, <3>2, AlertNumbers
      <4>2. Pending(w, k)' <=> Pending(w, k)
        BY <4>1 DEF Pending
      <4>3. QED
        BY <3>1, <4>1, <4>2
    <3>3. CASE w = g
      <4>1. CASE silent[k] > 0
        <5>1. level[k[1]] = k[2] /\ k[1] \in Customers
          BY <1>1, <4>1 DEF SilenceOf, AlertKeys
        <5>2. Visible[UserOf[g]] = Customers
          BY <3>3, AlertAssumption
        <5>3. k \in Called(UserOf[g])
          BY <5>1, <5>2 DEF Called
        <5>4. QED
          BY <1>4, <3>1, <3>3, <5>3
      <4>2. CASE ~(silent[k] > 0)
        <5>1. silent[k] \in Nat
          BY <1>1, AlertReads
        <5>2. silent[k] <= AlertTTL
          BY <4>2, <5>1, AlertNumbers
        <5>3. QED
          BY <3>1, <5>2
      <4>3. QED
        BY <4>1, <4>2
    <3>4. QED
      BY <3>2, <3>3
  <2>2. silent'[k] = silent[k] /\ mark'[k] \in {mark[k], 0}
    BY <1>2
  <2>3. QED
    BY <1>2, <2>1, <2>2, SilenceStays
<1>10. QED
  BY <1>6, <1>7, <1>8, <1>9 DEF AlertInv

\* A mark that is found, or not looked for, ends no silence longer than a TTL
\* and sends nothing that counts.
LEMMA LookKeeps ==
    ASSUME AlertInv, NEW g \in Polls, LookForMark(g)
    PROVE  AlertInv'
<1> DEFINE key == AtHand(g)
<1>1. AlertTypeOK /\ MarkCovers /\ SendersBounded /\ \A k \in AlertKeys : SilenceOf(k)
  BY DEF AlertInv
<1>2. /\ level' = level /\ mark' = mark /\ since' = since /\ listed' = listed /\ fresh' = fresh
      /\ poll[g].at = "look"
  BY DEF LookForMark
<1>3. key \in AlertKeys /\ poll[g].todo \in SUBSET AlertKeys /\ key \in poll[g].todo
  BY <1>1, <1>2, AlertReads
<1>4. \/ mark[key] > 0 /\ NextAlert(g) /\ silent' = silent
      \/ mark[key] = 0 /\ poll' = [poll EXCEPT ![g].at = "set"] /\ silent' = silent
      \/ NextAlert(g) /\ silent' = [silent EXCEPT ![key] = 0]
  BY DEF LookForMark
<1> HIDE DEF key
<1>5. MarkCovers'
  BY <1>1, <1>2 DEF MarkCovers
<1>6. \A w \in Watching : since'[w] \in Nat
  BY <1>1, <1>2, AlertReads
<1>7. CASE mark[key] = 0 /\ poll' = [poll EXCEPT ![g].at = "set"] /\ silent' = silent
  <2>1. /\ poll' \in [Polls -> PollStates]
        /\ \A k : Setting(k)' = IF k = key THEN Setting(k) \cup {g} ELSE Setting(k)
        /\ \A v \in Polls : \A k : Pending(v, k)' <=> Pending(v, k)
    BY <1>1, <1>2, <1>7, PollSets DEF key
  <2>2. AlertTypeOK'
    BY <1>1, <1>2, <1>7, <2>1 DEF AlertTypeOK
  <2>3. SendersBounded'
    <3> SUFFICES ASSUME NEW k \in AlertKeys
                 PROVE  Len(fresh'[k]) + Cardinality(Setting(k)') <= Cardinality(Polls)
      BY DEF SendersBounded
    <3>1. CASE k # key
      <4>1. Setting(k)' \in SUBSET Setting(k)
        BY <2>1, <3>1
      <4>2. QED
        BY <1>2, <4>1, SendersStay
    <3>2. CASE k = key
      <4>1. fresh[k] \in Seq(1..AlertTTL) /\ Len(fresh[k]) \in Nat
        BY <1>1, AlertReads DEF Windows
      <4>2. DOMAIN fresh[k] = 1..Len(fresh[k]) /\ \A i \in DOMAIN fresh[k] : fresh[k][i] \in 1..AlertTTL
        BY <4>1, LenProperties, ElementOfSeq
      <4>3. \A i \in DOMAIN fresh[k] : fresh[k][i] <= 0
        BY <1>1, <1>7, <3>2 DEF MarkCovers
      <4>4. DOMAIN fresh[k] = {}
        BY <4>2, <4>3, AlertNumbers
      <4>5. Len(fresh[k]) = 0
        BY <4>1, <4>2, <4>4
      <4>6. Setting(k)' \in SUBSET Polls
        BY DEF Setting
      <4>7. Cardinality(Setting(k)') <= Cardinality(Polls) /\ Cardinality(Setting(k)') \in Nat
        BY <4>6, AlertNumbers, FS_Subset, FS_CardinalityType
      <4>8. QED
        BY <1>2, <4>5, <4>7, AlertNumbers
    <3>3. QED
      BY <3>1, <3>2
  <2>4. ASSUME NEW k \in AlertKeys PROVE SilenceOf(k)'
    <3>1. silent'[k] = silent[k] /\ mark'[k] = mark[k]
      BY <1>2, <1>7
    <3>2. \A w \in Watching : Pending(w, k)' <=> Pending(w, k)
      BY <2>1, AlertNumbers
    <3>3. QED
      BY <1>1, <1>2, <3>1, <3>2 DEF SilenceOf
  <2>5. QED
    BY <1>5, <2>2, <2>3, <2>4 DEF AlertInv
<1>8. CASE /\ NextAlert(g)
           /\ \/ mark[key] > 0 /\ silent' = silent
              \/ silent' = [silent EXCEPT ![key] = 0]
  <2>1. poll' = [poll EXCEPT ![g] = Polling(poll[g].todo \ {key})]
    BY <1>8 DEF NextAlert, key
  <2>2. PICK waiting \in SUBSET AlertKeys : waiting = poll[g].todo \ {key}
    BY <1>3
  <2>3. /\ poll' \in [Polls -> PollStates]
        /\ \A k : Setting(k)' = Setting(k) \ {g}
        /\ \A v \in Polls : v # g => poll'[v] = poll[v]
        /\ \A k : Pending(g, k)' <=> k \in waiting
    <3>1. poll' = [poll EXCEPT ![g] = Polling(waiting)]
      BY <2>1, <2>2
    <3>2. AlertTypeOK
      BY <1>1
    <3>3. QED
      BY <3>1, <3>2, PollMoves
  <2>4. silent' \in [AlertKeys -> Nat] /\ \A k \in AlertKeys : k # key => silent'[k] = silent[k]
    <3>1. silent \in [AlertKeys -> Nat] /\ 0 \in Nat
      BY <1>1 DEF AlertTypeOK
    <3>2. CASE silent' = silent
      BY <3>1, <3>2
    <3>3. CASE silent' = [silent EXCEPT ![key] = 0]
      BY <1>3, <3>1, <3>3
    <3>4. QED
      BY <1>8, <3>2, <3>3
  <2>5. AlertTypeOK'
    BY <1>1, <1>2, <2>3, <2>4 DEF AlertTypeOK
  <2>6. SendersBounded'
    BY <1>2, <2>3, SendersStay DEF SendersBounded
  <2>7. ASSUME NEW k \in AlertKeys PROVE SilenceOf(k)'
    <3>1. CASE k # key
      <4>1. ASSUME NEW w \in Watching PROVE Pending(w, k)' <=> Pending(w, k)
        <5>1. CASE w = g
          BY <1>2, <2>2, <2>3, <3>1, <5>1 DEF Pending
        <5>2. CASE w # g
          BY <2>3, <5>2, AlertNumbers DEF Pending
        <5>3. QED
          BY <5>1, <5>2
      <4>2. silent'[k] = silent[k] /\ mark'[k] = mark[k]
        BY <1>2, <2>4, <3>1
      <4>3. QED
        BY <1>1, <1>2, <4>1, <4>2 DEF SilenceOf
    <3>2. CASE k = key /\ mark[key] > 0 /\ silent' = silent
      <4>1. PICK s \in Nat, m \in Nat : s = silent[k] /\ m = mark[k]
        BY <1>1, AlertReads
      <4>2. s + m <= AlertTTL /\ m > 0
        BY <1>1, <3>2, <4>1 DEF SilenceOf
      <4>3. silent[k] <= AlertTTL
        BY <4>1, <4>2, AlertNumbers
      <4>4. silent'[k] = silent[k] /\ mark'[k] \in {mark[k], 0}
        BY <1>2, <3>2
      <4>5. QED
        BY <1>2, <1>6, <4>3, <4>4, SilenceStays
    <3>3. CASE k = key /\ silent' = [silent EXCEPT ![key] = 0]
      <4>1. silent'[k] = 0
        BY <1>1, <1>3, <3>3 DEF AlertTypeOK
      <4>2. QED
        BY <1>1, <1>2, <1>6, <4>1, SilenceEnds, AlertReads
    <3>4. QED
      BY <1>8, <3>1, <3>2, <3>3
  <2>8. QED
    BY <1>5, <2>5, <2>6, <2>7 DEF AlertInv
<1>9. QED
  BY <1>4, <1>7, <1>8

LEMMA SetMarkKeeps ==
    ASSUME AlertInv, NEW g \in Polls, SetMark(g)
    PROVE  AlertInv'
<1>1. AlertTypeOK /\ MarkCovers /\ SendersBounded /\ \A k \in AlertKeys : SilenceOf(k)
  BY DEF AlertInv
<1>2. PICK key \in AlertKeys : key = AtHand(g) /\ key \in poll[g].todo
  BY <1>1, AlertReads DEF SetMark
<1>3. /\ level' = level /\ since' = since /\ listed' = listed
      /\ poll[g].at = "set"
      /\ NextAlert(g)
      /\ silent' = [silent EXCEPT ![key] = 0]
      /\ \/ /\ mark' = [mark EXCEPT ![key] = AlertTTL]
            /\ fresh' = [fresh EXCEPT ![key] = Append(fresh[key], AlertTTL)]
         \/ mark' = mark /\ fresh' = fresh
  BY <1>2 DEF SetMark
<1>4. PICK waiting \in SUBSET AlertKeys : waiting = poll[g].todo \ {key}
  BY <1>1, <1>3, AlertReads
<1>5. /\ poll' \in [Polls -> PollStates]
      /\ \A k : Setting(k)' = Setting(k) \ {g}
      /\ \A v \in Polls : v # g => poll'[v] = poll[v]
      /\ \A k : Pending(g, k)' <=> k \in waiting
  <2>1. poll' = [poll EXCEPT ![g] = Polling(waiting)]
    BY <1>2, <1>3, <1>4 DEF NextAlert
  <2>2. AlertTypeOK
    BY <1>1
  <2>3. QED
    BY <2>1, <2>2, PollMoves
<1>6. PICK old \in Windows : old = fresh[key]
  BY <1>1, AlertReads
<1>7. PICK new : new = Append(old, AlertTTL)
  OBVIOUS
<1>8. /\ old \in Seq(1..AlertTTL) /\ Len(old) \in Nat /\ DOMAIN old = 1..Len(old)
      /\ new \in Seq(1..AlertTTL) /\ Len(new) = Len(old) + 1
      /\ DOMAIN new = 1..(Len(old) + 1) /\ new[Len(old) + 1] = AlertTTL
      /\ \A i \in 1..Len(old) : new[i] = old[i] /\ old[i] \in 1..AlertTTL
      /\ \A i, j \in 1..Len(old) : i < j => old[i] <= old[j]
  <2>1. AlertTTL \in 1..AlertTTL
    BY AlertNumbers
  <2>2. /\ old \in Seq(1..AlertTTL) /\ Len(old) \in Nat /\ DOMAIN old = 1..Len(old)
        /\ \A i, j \in DOMAIN old : i < j => old[i] <= old[j]
    BY LenProperties DEF Windows
  <2>3. /\ new \in Seq(1..AlertTTL) /\ Len(new) = Len(old) + 1
        /\ \A i \in 1..Len(old) : new[i] = old[i]
        /\ new[Len(old) + 1] = AlertTTL
    BY <1>7, <2>1, <2>2, AppendProperties
  <2>4. DOMAIN new = 1..(Len(old) + 1)
    BY <2>3, LenProperties
  <2>5. \A i \in 1..Len(old) : old[i] \in 1..AlertTTL
    BY <2>2, ElementOfSeq
  <2>6. QED
    BY <2>2, <2>3, <2>4, <2>5
<1>9. \A i \in DOMAIN new : new[i] \in Nat /\ new[i] <= AlertTTL
  BY <1>8, ElementOfSeq, AlertNumbers
<1>10. new \in Windows
  <2>1. ASSUME NEW i \in DOMAIN new, NEW j \in DOMAIN new, i < j PROVE new[i] <= new[j]
    <3>1. i \in 1..Len(old)
      BY <1>8, <2>1
    <3>2. CASE j \in 1..Len(old)
      BY <1>8, <2>1, <3>1, <3>2
    <3>3. CASE j = Len(old) + 1
      BY <1>8, <1>9, <3>3
    <3>4. QED
      BY <1>8, <3>2, <3>3
  <2>2. QED
    BY <1>8, <2>1 DEF Windows
<1>11. /\ fresh' \in [AlertKeys -> Windows]
       /\ mark' \in [Keys -> 0..AlertTTL]
       /\ \A k \in AlertKeys : k # key => fresh'[k] = fresh[k] /\ mark'[k] = mark[k]
       /\ \/ fresh'[key] = new /\ mark'[key] = AlertTTL
          \/ fresh' = fresh /\ mark' = mark
  <2>1. fresh \in [AlertKeys -> Windows] /\ mark \in [Keys -> 0..AlertTTL]
    BY <1>1 DEF AlertTypeOK
  <2>2. CASE mark' = mark /\ fresh' = fresh
    BY <2>1, <2>2
  <2>3. CASE mark' = [mark EXCEPT ![key] = AlertTTL] /\ fresh' = [fresh EXCEPT ![key] = new]
    <3>1. AlertTTL \in 0..AlertTTL /\ key \in Keys
      BY AlertNumbers
    <3>2. QED
      BY <1>10, <2>1, <2>3, <3>1, AlertNumbers
  <2>4. QED
    BY <1>3, <1>6, <1>7, <2>2, <2>3
<1>12. silent' \in [AlertKeys -> Nat] /\ silent'[key] = 0
       /\ \A k \in AlertKeys : k # key => silent'[k] = silent[k]
  BY <1>1, <1>3 DEF AlertTypeOK
<1>13. AlertTypeOK'
  BY <1>1, <1>3, <1>5, <1>11, <1>12 DEF AlertTypeOK
<1>14. MarkCovers'
  <2> SUFFICES ASSUME NEW k \in AlertKeys, NEW i \in DOMAIN fresh'[k]
               PROVE  fresh'[k][i] <= mark'[k]
    BY DEF MarkCovers
  <2>1. CASE fresh'[k] = fresh[k] /\ mark'[k] = mark[k]
    BY <1>1, <2>1 DEF MarkCovers
  <2>2. CASE k = key /\ fresh'[key] = new /\ mark'[key] = AlertTTL
    BY <1>9, <2>2
  <2>3. QED
    BY <1>11, <2>1, <2>2
<1>15. SendersBounded'
  <2> SUFFICES ASSUME NEW k \in AlertKeys
               PROVE  Len(fresh'[k]) + Cardinality(Setting(k)') <= Cardinality(Polls)
    BY DEF SendersBounded
  <2>1. PICK n \in Nat, before \in Nat, after \in Nat :
             /\ n = Len(fresh[k]) /\ before = Cardinality(Setting(k))
             /\ after = Cardinality(Setting(k)') /\ after <= before
             /\ g \in Setting(k) => after = before - 1
    <3>1. Setting(k)' = Setting(k) \ {g}
      BY <1>5
    <3>2. IsFiniteSet(Setting(k)) /\ Cardinality(Setting(k)) \in Nat
      BY SettingIsFinite
    <3>3. /\ Cardinality(Setting(k) \ {g}) \in Nat
          /\ Cardinality(Setting(k) \ {g}) <= Cardinality(Setting(k))
      BY <3>2, FS_Subset, FS_CardinalityType
    <3>4. g \in Setting(k) => Cardinality(Setting(k) \ {g}) = Cardinality(Setting(k)) - 1
      BY <3>2, FS_RemoveElement
    <3>5. Len(fresh[k]) \in Nat
      BY <1>1, AlertReads
    <3>6. QED
      BY <3>1, <3>2, <3>3, <3>4, <3>5
  <2>2. n + before <= Cardinality(Polls)
    BY <1>1, <2>1 DEF SendersBounded
  <2>3. CASE fresh'[k] = fresh[k]
    <3>1. n + after <= Cardinality(Polls)
      BY <2>1, <2>2, AlertNumbers
    <3>2. QED
      BY <2>1, <2>3, <3>1
  <2>4. CASE k = key /\ fresh'[key] = new
    <3>1. g \in Setting(k)
      BY <1>2, <1>3, <2>4 DEF Setting
    <3>2. n + 1 + after <= Cardinality(Polls)
      BY <2>1, <2>2, <3>1, AlertNumbers
    <3>3. Len(fresh'[k]) = n + 1
      BY <1>6, <1>8, <2>1, <2>4
    <3>4. QED
      BY <2>1, <3>2, <3>3
  <2>5. QED
    BY <1>11, <2>3, <2>4
<1>16. ASSUME NEW k \in AlertKeys PROVE SilenceOf(k)'
  <2>1. CASE k = key
    <3>1. mark'[k] \in Nat /\ mark'[k] <= AlertTTL
      BY <1>11, AlertNumbers
    <3>2. \A w \in Watching : since'[w] \in Nat
      BY <1>1, <1>3, AlertReads
    <3>3. QED
      BY <1>12, <2>1, <3>1, <3>2, SilenceEnds
  <2>2. CASE k # key
    <3>1. ASSUME NEW w \in Watching PROVE Pending(w, k)' <=> Pending(w, k)
      <4>1. CASE w = g
        BY <1>3, <1>4, <1>5, <2>2, <4>1 DEF Pending
      <4>2. CASE w # g
        BY <1>5, <4>2, AlertNumbers DEF Pending
      <4>3. QED
        BY <4>1, <4>2
    <3>2. silent'[k] = silent[k] /\ mark'[k] = mark[k]
      BY <1>11, <1>12, <2>2
    <3>3. QED
      BY <1>1, <1>3, <3>1, <3>2 DEF SilenceOf
  <2>3. QED
    BY <2>1, <2>2
<1>17. QED
  BY <1>13, <1>14, <1>15, <1>16 DEF AlertInv

\* The key that an acknowledgement clears is the mark of no alert.
LEMMA BriefingsKeep ==
    ASSUME AlertInv,
           \/ \E c \in Customers, source \in Sources :
                    BriefingStored(c, source) \/ AcknowledgeBriefing(c, source)
           \/ UNCHANGED alertVars
    PROVE  AlertInv'
<1>1. AlertTypeOK /\ MarkCovers /\ SendersBounded /\ \A k \in AlertKeys : SilenceOf(k)
  BY DEF AlertInv
<1>2. /\ UNCHANGED <<level, poll, since, fresh, silent>>
      /\ mark' \in [Keys -> 0..AlertTTL]
      /\ \A k \in AlertKeys : mark'[k] = mark[k]
      /\ listed' \subseteq Customers \X Sources
  <2>1. mark \in [Keys -> 0..AlertTTL] /\ listed \subseteq Customers \X Sources
    BY <1>1 DEF AlertTypeOK
  <2>2. CASE UNCHANGED alertVars
    BY <2>1, <2>2 DEF alertVars
  <2>3. ASSUME NEW c \in Customers, NEW source \in Sources, BriefingStored(c, source)
        PROVE  <1>2!1 /\ mark' = mark /\ listed' \subseteq Customers \X Sources
    BY <2>1, <2>3 DEF BriefingStored
  <2>4. ASSUME NEW c \in Customers, NEW source \in Sources, AcknowledgeBriefing(c, source)
        PROVE  /\ <1>2!1
               /\ mark' \in [Keys -> 0..AlertTTL]
               /\ \A k \in AlertKeys : mark'[k] = mark[k]
               /\ listed' \subseteq Customers \X Sources
    <3>1. source \notin AlertTypes
      BY AlertAssumption DEF AlertTypes
    <3>2. <<c, source>> \notin AlertKeys
      BY <3>1 DEF AlertKeys
    <3>3. mark' \in {mark, [mark EXCEPT ![<<c, source>>] = 0]}
      BY <2>4 DEF AcknowledgeBriefing
    <3>4. 0 \in 0..AlertTTL
      BY AlertNumbers
    <3>5. mark' \in [Keys -> 0..AlertTTL]
      BY <2>1, <3>3, <3>4
    <3>6. \A k \in AlertKeys : mark'[k] = mark[k]
      BY <2>1, <3>2, <3>3, AlertNumbers
    <3>7. QED
      BY <2>1, <2>4, <3>5, <3>6 DEF AcknowledgeBriefing
  <2>5. QED
    BY <2>1, <2>2, <2>3, <2>4
<1>3. AlertTypeOK'
  BY <1>1, <1>2 DEF AlertTypeOK
<1>4. MarkCovers'
  BY <1>1, <1>2 DEF MarkCovers
<1>5. \A k : Setting(k)' = Setting(k) /\ \A w : Pending(w, k)' <=> Pending(w, k)
  BY <1>2 DEF Setting, AtHand, Pending
<1>6. SendersBounded'
  BY <1>2, <1>5, SendersStay DEF SendersBounded
<1>7. \A k \in AlertKeys : SilenceOf(k)'
  BY <1>1, <1>2, <1>5 DEF SilenceOf
<1>8. QED
  BY <1>3, <1>4, <1>6, <1>7 DEF AlertInv

LEMMA AgeKeeps ==
    ASSUME AlertInv, AlertsAge
    PROVE  AlertInv'
<1>1. AlertTypeOK /\ MarkCovers /\ SendersBounded /\ \A k \in AlertKeys : SilenceOf(k)
  BY DEF AlertInv
<1>2. /\ level' = level /\ poll' = poll /\ listed' = listed
      /\ \A g \in Watching : poll[g] = NoPoll /\ since[g] < PollGap
      /\ mark' = [k \in Keys |-> Less(mark[k])]
      /\ since' = [g \in Watching |-> since[g] + 1]
      /\ fresh' = [k \in AlertKeys |-> Shorter(fresh[k])]
      /\ silent' = [k \in AlertKeys |-> IF level[k[1]] = k[2] THEN silent[k] + 1 ELSE 0]
  BY DEF AlertsAge, OnTime
<1>3. AlertTypeOK'
  <2>1. since' \in [Watching -> 0..PollGap]
    <3>1. \A g \in Watching : since[g] + 1 \in 0..PollGap
      BY <1>1, <1>2, AlertReads, AlertNumbers
    <3>2. QED
      BY <1>2, <3>1
  <2>2. mark' \in [Keys -> 0..AlertTTL]
    <3>1. \A n \in 0..AlertTTL : Less(n) \in 0..AlertTTL
      BY AlertNumbers DEF Less
    <3>2. \A k \in Keys : mark[k] \in 0..AlertTTL
      BY <1>1 DEF AlertTypeOK
    <3>3. QED
      BY <1>2, <3>1, <3>2
  <2>3. fresh' \in [AlertKeys -> Windows]
    BY <1>1, <1>2, AlertReads, ShorterWindows
  <2>4. silent' \in [AlertKeys -> Nat]
    BY <1>1, <1>2, AlertReads
  <2>5. QED
    BY <1>1, <1>2, <2>1, <2>2, <2>3, <2>4 DEF AlertTypeOK
<1>4. MarkCovers'
  <2> SUFFICES ASSUME NEW k \in AlertKeys, NEW i \in DOMAIN fresh'[k]
               PROVE  fresh'[k][i] <= mark'[k]
    BY DEF MarkCovers
  <2>1. PICK w \in Windows : w = fresh[k]
    BY <1>1, AlertReads
  <2>2. fresh'[k] = Shorter(w)
    BY <1>2, <2>1
  <2>3. PICK j \in DOMAIN w : fresh'[k][i] = w[j] - 1
    BY <2>2, ShorterWindows
  <2>4. PICK m \in Nat : m = mark[k]
    BY <1>1, AlertReads
  <2>5. w[j] <= m
    BY <1>1, <2>1, <2>4 DEF MarkCovers
  <2>6. w[j] \in 1..AlertTTL
    <3>1. w \in Seq(1..AlertTTL)
      BY DEF Windows
    <3>2. QED
      BY <3>1, LenProperties, ElementOfSeq
  <2>7. w[j] - 1 <= Less(m)
    BY <2>4, <2>5, <2>6, AlertNumbers DEF Less
  <2>8. mark'[k] = Less(m)
    BY <1>2, <2>4, AlertNumbers
  <2>9. QED
    BY <2>3, <2>7, <2>8
<1>5. \A k : Setting(k)' = Setting(k) /\ \A w : Pending(w, k)' <=> Pending(w, k)
  BY <1>2 DEF Setting, AtHand, Pending
<1>6. SendersBounded'
  <2> SUFFICES ASSUME NEW k \in AlertKeys
               PROVE  Len(fresh'[k]) + Cardinality(Setting(k)') <= Cardinality(Polls)
    BY DEF SendersBounded
  <2>1. PICK w \in Windows : w = fresh[k]
    BY <1>1, AlertReads
  <2>2. fresh'[k] = Shorter(w) /\ Len(Shorter(w)) <= Len(w)
    BY <1>2, <2>1, ShorterWindows
  <2>3. Len(w) \in Nat /\ Len(Shorter(w)) \in Nat
    BY <2>1, ShorterWindows, LenProperties DEF Windows
  <2>4. PICK n \in Nat : n = Cardinality(Setting(k))
    BY SettingIsFinite
  <2>5. Len(w) + n <= Cardinality(Polls)
    BY <1>1, <2>1, <2>4 DEF SendersBounded
  <2>6. Len(Shorter(w)) + n <= Cardinality(Polls)
    BY <2>2, <2>3, <2>4, <2>5, AlertNumbers
  <2>7. QED
    BY <1>5, <2>2, <2>4, <2>6
<1>7. ASSUME NEW k \in AlertKeys PROVE SilenceOf(k)'
  <2>1. PICK s \in Nat, m \in Nat : s = silent[k] /\ m = mark[k]
    BY <1>1, AlertReads
  <2>2. mark'[k] = Less(m)
    BY <1>2, <2>1, AlertNumbers
  <2>3. CASE level[k[1]] # k[2]
    <3>1. silent'[k] = 0
      BY <1>2, <2>3
    <3>2. mark'[k] \in Nat /\ mark'[k] <= AlertTTL
      <4>1. m <= AlertTTL
        BY <1>1, <2>1, AlertReads
      <4>2. Less(m) \in Nat /\ Less(m) <= AlertTTL
        BY <2>1, <4>1, AlertNumbers DEF Less
      <4>3. QED
        BY <2>2, <4>2
    <3>3. \A w \in Watching : since'[w] \in Nat
      BY <1>1, <1>2, AlertReads
    <3>4. QED
      BY <3>1, <3>2, <3>3, SilenceEnds
  <2>4. CASE level[k[1]] = k[2]
    <3>1. silent'[k] = s + 1 /\ level'[k[1]] = k[2]
      BY <1>2, <2>1, <2>4
    <3>2. Less(m) > 0 => s + 1 + Less(m) <= AlertTTL
      <4>1. m > 0 => s + m <= AlertTTL
        BY <1>1, <2>1 DEF SilenceOf
      <4>2. QED
        BY <2>1, <4>1, AlertNumbers DEF Less
    <3>3. ASSUME NEW w \in Watching
          PROVE  s + 1 <= AlertTTL + IF Pending(w, k)' THEN PollGap ELSE since'[w]
      <4>1. PICK o \in Nat : o = since[w]
        BY <1>1, AlertReads
      <4>2. ~Pending(w, k)
        BY <1>2 DEF Pending, NoPoll
      <4>3. s <= AlertTTL + o
        BY <1>1, <2>1, <4>1, <4>2 DEF SilenceOf
      <4>4. since'[w] = o + 1
        BY <1>2, <4>1
      <4>5. s + 1 <= AlertTTL + (o + 1)
        BY <2>1, <4>1, <4>3, AlertNumbers
      <4>6. QED
        BY <1>5, <4>2, <4>4, <4>5
    <3>4. QED
      BY <2>2, <3>1, <3>2, <3>3 DEF SilenceOf
  <2>5. QED
    BY <2>3, <2>4
<1>8. QED
  BY <1>3, <1>4, <1>6, <1>7 DEF AlertInv

LEMMA LostKeeps ==
    ASSUME AlertInv, MarksLost
    PROVE  AlertInv'
<1>1. AlertTypeOK /\ \A k \in AlertKeys : SilenceOf(k)
  BY DEF AlertInv
<1>2. /\ UNCHANGED <<level, poll, since, listed, silent>>
      /\ mark' = [k \in Keys |-> 0] /\ fresh' = [k \in AlertKeys |-> <<>>]
  BY DEF MarksLost
<1>3. <<>> \in Windows
  BY NoWindows
<1>4. AlertTypeOK'
  BY <1>1, <1>2, <1>3, AlertNumbers DEF AlertTypeOK
<1>5. MarkCovers'
  <2>1. ASSUME NEW k \in AlertKeys PROVE DOMAIN fresh'[k] = {}
    BY <1>2
  <2>2. QED
    BY <2>1 DEF MarkCovers
<1>6. \A k : Setting(k)' = Setting(k) /\ \A w : Pending(w, k)' <=> Pending(w, k)
  BY <1>2 DEF Setting, AtHand, Pending
<1>7. SendersBounded'
  <2> SUFFICES ASSUME NEW k \in AlertKeys
               PROVE  Len(fresh'[k]) + Cardinality(Setting(k)') <= Cardinality(Polls)
    BY DEF SendersBounded
  <2>1. fresh'[k] = <<>>
    BY <1>2
  <2>2. Len(fresh'[k]) = 0
    BY <2>1, EmptySeq
  <2>3. QED
    BY <1>6, <2>2, SettingIsFinite, AlertNumbers
<1>8. ASSUME NEW k \in AlertKeys PROVE SilenceOf(k)'
  <2>1. mark'[k] = 0 /\ silent'[k] = silent[k] /\ level' = level /\ since' = since
    BY <1>2, AlertNumbers
  <2>2. \A w \in Watching : Pending(w, k)' <=> Pending(w, k)
    BY <1>6
  <2>3. QED
    BY <1>1, <2>1, <2>2 DEF SilenceOf
<1>9. QED
  BY <1>4, <1>5, <1>7, <1>8 DEF AlertInv

LEMMA AlertSteps ==
    ASSUME AlertInv, AlertStep \/ AlertsAge \/ MarksLost \/ UNCHANGED alertVars
    PROVE  AlertInv'
<1>1. CASE AlertStep
  BY <1>1, HealthKeeps, StartPollKeeps, LookKeeps, SetMarkKeeps, BriefingsKeep DEF AlertStep
<1>2. CASE AlertsAge
  BY <1>2, AgeKeeps
<1>3. CASE MarksLost
  BY <1>3, LostKeeps
<1>4. CASE UNCHANGED alertVars
  BY <1>4, BriefingsKeep
<1>5. QED
  BY <1>1, <1>2, <1>3, <1>4

-----------------------------------------------------------------------------
(* The two in one Redis *)

\* Both inductive invariants hold of every state, and every step of the session
\* has its excuse.
LEMMA RedisInvariants ==
    Spec => [](SessionInv /\ AlertInv) /\ [][LossExcusedStep]_sessionVars
<1>1. Init => SessionInv /\ AlertInv
  BY SessionStart, AlertStart DEF Init
<1>2. SessionInv /\ AlertInv /\ [Next]_vars
        => (SessionInv /\ AlertInv)' /\ (LossExcusedStep \/ UNCHANGED sessionVars)
  <2> SUFFICES ASSUME SessionInv, AlertInv, [Next]_vars
               PROVE  /\ SessionInv' /\ AlertInv'
                      /\ LossExcusedStep \/ UNCHANGED sessionVars
    OBVIOUS
  <2>1. /\ SessionStep \/ SessionAges \/ SessionLost \/ UNCHANGED sessionVars
        /\ AlertStep \/ AlertsAge \/ MarksLost \/ UNCHANGED alertVars
    BY DEF Next, Tick, RedisRestarts, vars
  <2>2. QED
    BY <2>1, SessionSteps, AlertSteps
<1>3. QED
  BY <1>1, <1>2, PTL DEF Spec

\* The stores keep to their types: the history never has more than _MAX_HISTORY
\* events, whatever overlaps (append_session_event), and an absent key, and no
\* other, reads as empty.
THEOREM TypeCorrect == Spec => []TypeOK
<1>1. SessionInv /\ AlertInv => TypeOK
  BY DEF SessionInv, AlertInv, TypeOK
<1>2. QED
  BY <1>1, RedisInvariants, PTL

\* Two requests that do not overlap lose none of the newest events: a store drops
\* an event only if its request could not read the history, or fetched it before
\* another store, or has _MAX_HISTORY - 1 newer events to keep.
THEOREM LossesExcused == Spec => LossExcused
<1>1. Spec => [][LossExcusedStep]_sessionVars
  BY RedisInvariants, PTL
<1>2. QED
  BY <1>1 DEF LossExcused, LossExcusedStep

\* Of the alerts that are marked no more fall within the TTL of should_send_alert
\* than polls of get_alerts may run at a time, of one user or of several, however
\* they overlap or stall and however often each is repeated.
THEOREM AlertsPerWindow == Spec => []AlertsBounded
<1>1. SessionInv /\ AlertInv => AlertsBounded
  <2> SUFFICES ASSUME AlertInv, NEW k \in AlertKeys
               PROVE  Len(fresh[k]) <= Cardinality(Polls)
    BY DEF AlertsBounded
  <2>1. PICK n \in Nat, m \in Nat : n = Len(fresh[k]) /\ m = Cardinality(Setting(k))
    BY AlertReads, SettingIsFinite DEF AlertInv
  <2>2. n + m <= Cardinality(Polls)
    BY <2>1 DEF AlertInv, SendersBounded
  <2>3. QED
    BY <2>1, <2>2, AlertNumbers
<1>2. QED
  BY <1>1, RedisInvariants, PTL

\* Where one poll on time sees every customer, no alert that is called for stays
\* unsent for longer than a TTL and a poll, although should_send_alert lets every
\* poll find the same mark.
THEOREM SilenceEnded ==
    ASSUME Watching # {}
    PROVE  Spec => []SilenceBounded
<1>1. SessionInv /\ AlertInv => SilenceBounded
  <2> SUFFICES ASSUME AlertInv, NEW k \in AlertKeys
               PROVE  silent[k] <= AlertTTL + PollGap
    BY DEF SilenceBounded
  <2>1. PICK w \in Watching : TRUE
    OBVIOUS
  <2>2. PICK s \in Nat, o \in Nat : s = silent[k] /\ o = since[w] /\ o <= PollGap
    BY AlertReads DEF AlertInv
  <2>3. s <= AlertTTL + IF Pending(w, k) THEN PollGap ELSE o
    BY <2>2 DEF AlertInv, SilenceOf
  <2>4. QED
    BY <2>2, <2>3, AlertNumbers
<1>2. QED
  BY <1>1, RedisInvariants, PTL

=============================================================================
