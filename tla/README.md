# Acme Operations Assistant: TLA+ verification project

The program under `src/` is a customer-operations assistant: a FastAPI service
that answers questions about customers and their issues with an LLM agent, runs
background jobs that watch the customers, and keeps its state in PostgreSQL
(customers, issues, briefings, audit) and Redis (sessions, caches, locks). This
directory models its core in TLA+, checks the models with TLC and proves most of
the safety properties that TLC checks for every value of the constants with TLAPS.

Contents: 1 the system, 2 the modules, 3 the runs, 4 the proofs, 5 where the code
and its own documentation differ, 6 what is not modelled, 7 the plan.

## 1. The system

| Part | Code | State it keeps | Operations | What is hard |
|---|---|---|---|---|
| Agent graph | `app/agents/graph_orchestrator.py` | the LangGraph state of one request; audit rows; database writes | guard, cache lookup, pre-flight, think (LLM or rules), role gate, parallel tool batch, risk assessment, answer and what is recorded after it | threads of a batch work from one snapshot; the LLM may answer anything or raise at any call; the client may go |
| Rule planner | `app/agents/planner.py` | none | `build_rule_plan`, `build_llm_plan`, `build_plan` | keyword lists choose steps independently of what the steps need |
| Synchronous agent | `app/agents/orchestrator.py` | one request's plan and results | plan once, run its steps in turn, follow up a search, answer | any step may end the request after a write |
| Answer cache | `app/services/query_cache.py` | Redis keys with a TTL; rows of `query_cache` | lookup and store in two layers | background stores, failures, keys that forget part of the request |
| Profile cache, sessions | `app/services/memory_service.py` | Redis keys with a TTL | get and set, append an event to a history | read, change and write back without a lock |
| Briefing store | `app/repositories/briefing_repo.py` | `briefings`, `health_snapshots` | store with dedup, list, acknowledge, snapshot | the dedup's check and its insert are not atomic |
| Health sweep | `app/services/autonomous_agent.py` | `lock:health_sweep` in Redis | a sweep per pod every 15 minutes under the lock; `POST /briefings/sweep` | crashes, a lock that only expires, sweeps without it |
| Churn signal | `app/services/autonomous_agent.py` | `lock:churn_signal`, snapshots | daily comparison of every customer with its snapshot | exceptions between two transactions; overlapping runs |
| CDC listener | `app/services/cdc_listener.py`, triggers in `app/main.py` | one LISTEN connection per pod | escalation on a new note; embedding on a changed issue | notifications go to every pod, are lost while it reconnects, and may cause more of themselves |
| Issues and embeddings | `app/repositories/issue_repo.py`, `embedding_service.py`, `app/main.py` | `issues`, `issue_history`, `issues.embedding`, its index | update a status, note it, backfill embeddings at start and every five minutes, build the index | two commits per update; threads of every pod |
| Alerts | `app/services/alert_service.py`, `GET /alerts` | `alert:dedup:*` in Redis | send once an hour, clear on acknowledgement | check and set are two calls; one key for all users |
| Authentication | `app/auth/security.py` | the JWKS cache | decode a token, roles, `require_role` | refresh on expiry, fetch errors, threads that fetch at once, a clock that starts with the host |
| Tools and row-level security | `app/services/tools.py`, `app/repositories/*_repo.py`, `mcp_server/server.py` | none | reads by MCP or SQL, filtered by account owner | the two sources are filtered in different places and at different moments |
| Persistent memory | `persistent_memory.py` | `persistent_memory` | extract and store facts | background threads |
| Risk agent | `risk_action_agent.py`, `skills/customer_escalation.py` | none | primary issue, risk level | ranks and thresholds |
| Web client | `src/web/` | React state | chat stream, polling | answers that arrive late |
| Evaluation, observability | `evals/`, `app/observability/` | logs | | |

How the parts meet: a request enters through `api/routes.py` into one of the two
agents; both plan with the planner, read and write through the tools, and append
to the session. The graph agent alone consults and fills the answer cache and
writes the audit. The sweep, the churn signal and the listener run in threads of
every pod and meet in the `briefings` table, in which the users acknowledge. A
note or a status written by an agent is what the triggers notify the listeners of.

What makes each part correct is stated as properties below, and the places where
it could go wrong are the `hazards` of `PROJECT.json`, each at its line.

## 2. The modules

Names follow the source: an action is named after the function or the part of it
that it stands for, a variable after the field. The theorems about a module `M`
are in `MProofs`, but for those that `StoreProofs` and `SyncAndRedisProofs` gather
(section 4). `PROJECT.json` maps every
definition to its lines. A definition whose comment begins with *Fault:* is not
part of a specification: it is a faulty variant of the definition after it, and
shows that the properties notice that fault.

**RulePlanner** is `build_rule_plan` as operators. A query is reduced to what
the planner tests: the keyword classes it contains, the customer name each of
the two extractors reads, and whether it is semantic or about all customers.
`Directory` stands for the customers table as `find_customer_matches` answers
for each name. `Resolved` is `resolve_customer_name`, which the tools that take a
customer call: a full name gives its customer, a fragment may give any customer
(the first that matches a word of it, or the most similar one).

**RequestContract** is the abstract specification of one request: it changes the
database only while open and only in ways its user's roles allow; it ends once,
as answered (and only then recorded, unless the record may be lost), declined (and then nothing has changed) or
lost (and then its writes stay, unrecorded).

**AgentGraph** is one request to `POST /query/stream`. `pc` is the node about to
run, the other variables are fields of `AgentState`. `ThinkLlm` and `ThinkRule`
are the two ways through `_think`; `Submit`, one `RunWorker` per thread and
`Join` are `_execute`, so the threads of a batch interleave with every audit and
write of theirs. `RunNode` adds LangGraph's superstep count and limit. Lists of
steps are kept as a bag of tool names, issues and a profile as the customer they
belong to, which is one that the state's name resolves to (`LookedUp`). The module implements `RequestContract` (`ImplementsContract`).
**AgentGraphProofs** holds its theorems, **MCPlanner** and **MCAgentGraph** the
values for TLC.

**SyncAgent** is one request to `POST /query`, over the same planner and the same
contract: one plan, an action per branch of the tool loop, the 403 and 400 that
end it, the follow-up after a search, whose having run the ghost `followed`
remembers. It shows what the two agents share and
where they differ: nothing here is caught, and a refusal ends the loop where it
occurs.

**QueryCache** is the answer cache with the profile cache beneath it. Two layers,
a lookup that tries one after the other, runs that overlap and hand their answers to
storing threads, which store in any order, late, or fail. A run finds the profile in
the cache (`RunOnCached`), or reads it (`ReadProfile`) and caches it as a later step
(`RunOnRead`), when another run may have cached a newer one. An answer keeps whom it
was made for, about which customer, and the age of its oldest data. A user stands
for a user name with its roles, which the key always takes together.

**SessionMemory** is `append_session_event`: the fetch and the store of a history
as two calls of Redis, each of which may raise. `Earlier` are the events that the
session has begun with; `log` remembers every event ever stored, for `LossExcused`.
**AlertDedup** is `GET /alerts` with the dedup keys, and the acknowledgement that
tries to clear one. `Polls` are the polls that may run at a time, of one user or of
several: the client starts one on a timer, whether the last has come back or not. A poll goes through the customers in the order of the list
(`AtHand`); `fresh` and `silent` remember, per key, the alerts sent within a TTL and
how long one is called for and not sent. Each has
the parts of a tick and of a restart that concern it; **RedisStores** composes the
two over one Redis, which restarts and ages for both at once.

**IssueStore** is the `issues` table: `update_issue_status` with its two commits,
the trigger `issue_cdc`, the pods' backfill threads and the `issue_updated`
channel of their listeners. `EmbedOne` stores nothing, as the code does (section 5).

**IssueReads** is one read of issues for a user (`tool_get_open_issues`,
`tool_list_all_open_issues`), one action per statement: the MCP server's answer,
the filter by names that follows it, SQL in its place, the second statement that
finds whom to name in the access notice. `Transfer` and `UpdateStatus` change the
tables in between. `Assess` gives the rows to **RiskRubric**: `select_primary_issue`
as an order on rows, and the risk level as the highest of a set of floors, which
is what raising `risk_int` step by step amounts to; `DocumentedLevel` is the
rubric of the docstring. **IssueReadsProofs** holds the theorems of both.

**JwksCache** is `_get_jwks` with its module globals, run by threads: the clock is
read, the endpoint asked, the keys and their time written by two statements. What
the module keeps is the age of the keys, for the code compares nothing else.

**Briefings** is the `briefings` table for one customer and one source, as
operators: the recent unacknowledged rows in the order of their age, the check, the
insert, the acknowledgement and the passing of time, which makes the first rows
old (`Aged`). Three modules extend it:

- **HealthSweep**: the sweep threads of all pods, the Redis lock as a countdown,
  the admin's manual sweep, crash and restart of a pod, restart of Redis. No timeout
  ends a sweep: it may run longer than its lock (`Outlasts`). The check and the insert of
  `store_briefing` are two steps, as they are two statements in the code.
- **Escalation**: the trigger, one listener per pod with its queue of
  notifications, and `check_issue_escalation` in four steps.
- **ChurnSignal**: the daily run with its one read of the customers, and one
  transaction each for the snapshot's read, the briefing and the snapshot.

Clocks count down (`sleep`, `lock`, `left`), so no bound on time is needed.
`Tick` waits for a thread that is due, which says that a sleeping thread wakes
on time.

## 3. The runs

| Run | What it shows | Instance |
|---|---|---|
| `AgentRequests` | no unauthorised or unaudited write during a parallel batch, no tool run in two batches, no write before its issues are read, plans run to their end, the data at hand parts from the customer named only by two named ways, at most six counted iterations and, unless an LLM call raises, the nodes of six, the contract kept, every request ends | without a key: every branch of the planner (11 queries), 3 role sets, confirmed and not; a key that works: 2 queries, 2 role sets, 3 LLM tools; and one query for which the LLM, the audit table, the nodes and Redis may all fail; batches of 2 |
| `SyncAgent` | every LLM plan of up to three steps and every rule plan: an answer rests on the data of the customer it names, but for plans whose search is not followed up because a step has fetched a profile or all issues; the contract (writes only with a role, one end) | 11 queries, 3 role sets, 6 LLM tools |
| `QueryCache` | no user is served another's answer; the exact layer's answers rest on data no older than the two TTLs and the delays of the two writes together, in whatever order runs cache and stores land | 2 users, of whom one asks a query that names the customer and the other an ambiguous one; TTLs of 2 ticks, profiles cached and answers stored up to 1 late, 2 runs between read and write, 3 stores pending, 1 request that Redis fails |
| `HealthSweep` | sweeps overlap only when one has outlasted its lock, lacked it or lost it with Redis, and duplicate only after that, even then at most one row per sweeper; the gap between sweeps is bounded; a customer at risk is surfaced again and again | 2 pods (1 steady), 1 admin, 1 customer that changes, sweeps that last up to a tick longer than the lock, 1 fault |
| `Escalation` | no note on an urgent issue goes unseen; never more recent escalations of a customer than pods | 2 pods (1 steady), 2 issues of one customer, queues of 2 |
| `ChurnSignal` | every worsening is briefed, and once but for runs that raise | 2 pods, 2 customers, 1 run that raises |
| `RedisStores` | a session loses an event only to the cap, the expiry, a restart, a failed call or a request that overlapped; of the alerts that were marked, no more fall within a window than polls overlap; no alert stays silent longer than the window and a poll | 4 requests of which one has begun the session, a history of 3; 2 polls at a time of one user who sees the one customer, of which one is on time; calls that raise, with or without effect; restarts |
| `IssueStore` | an issue's history ends with its status but for updates cut short or overtaken; each issue is embedded and indexed in the end; notifications of stored embeddings run dry | 1 issue, 2 requests, 2 pods (1 steady), 3 updates, 2 failures (of a pod, a request, a connection, a backfill or an index pass) |
| `IssueReads` | no row of another owner by either path; no empty list without a notice or a reason; the level of the documented rubric; the primary issue is the gravest | 2 customers with 2 issues and 1, a restricted and an unrestricted owner, one transfer and one status change between any two statements, two gradings of the issues |
| `JwksCache` | how long a published key may be refused, and a withdrawn one accepted | 2 keys and 3 threads (symmetric), a TTL of 4 ticks, a retry after 1, fetches of up to 2 |
| `AgentStaleBatch`, `AlertDismissed` | divergences, section 5 | |

Why these bounds. The agent's loop is bounded by the code itself (six
iterations, or LangGraph's limit), so the runs explore it whole; what is bounded is the choice in one
think. Two tools in a batch are enough for two threads to race and for a write
beside a read; three LLM tools are one read that loads, one write and one that
changes the customer. Two pods are the smallest number that can race, and the
third actor of `HealthSweep` is the admin. `SweepInterval` 3, `LockTTL` 2,
`DedupWindow` 6 and `StartDelay` 1 keep the order and the ratio that matter of
900 s, 870 s, 1800 s and 30 s: the lock expires shortly before its owner wakes,
and a briefing stays recent for two intervals. `MaxRun` 3 lets a sweep end before
its lock does, or go on after it and into the sweep of the next pod: nothing in the
code ends a sweep that takes longer than 870 s. `MaxFaults` bounds crashes, restarts of
Redis, sweeps that raise and sweeps without the lock together; the code's own steps are
not bounded. One fault is what a run of five minutes has room for beside sweeps that
outlast the lock, which are no fault and need none; the theorems allow any number.

`QueryCache` needs two runs between the read of a profile and its `setex` for the
older one to be written last, and `ReadDelay` 1 for it to be older by then;
`StoreDelay` 1 does the same for two stores. Its bound on the age is reached. The
delays are bounds of the model: nothing in the code limits them but the timeouts of
the calls in between. `RedisStores` has two polls of one user, as two tabs or a slow
answer give them: two are enough for both to find the mark missing.

A history of three and four requests are needed for an event that comes back: one
request stores, a second, which fetched before, drops its event, a third, which
fetched in between, brings it back, and a fourth, which fetched before that, drops it
again. With a history of two the cap excuses every loss, and an earlier, stronger form of
`LossExcused`, which did not allow for this, passed; trying to prove it for every
`MaxHistory` showed it false. One of the four has stored before the run starts, which
loses nothing, as the others all may start after it. Three threads for one to fetch while two tear the keys and
their time apart. `Ttl` 4, `Retry` 1 and `MaxFetch` 2 keep the order of 300 s,
30 s and the timeout of 10 s on each phase of a call: a retry is shorter than a TTL, and several
fetches fit in one. `MaxFetch` is a bound of the model, as the timeout is one of each phase
and not of the whole call. Fetches longer than the pause are included too, though 30 s is more
than a phase may take. `MaxUpdates` 3 lets two requests overlap and a third repair what they
left; `MaxFailures` 2 lets a pod stop and its successor's backfill fail. A variant
of `IssueStore` with two issues, one request and one failure has been checked
too and shows the same. `IssueReads` needs one change of each kind: the call has at
most four statements, and each property names one moment at which something
held; the theorems cover any number of changes.

Fairness. `AgentGraph`: the request's own steps are weakly fair, since the
generator is driven by the server and each LLM, HTTP or SQL call it waits for
returns or raises; a client that leaves is never required to. `HealthSweep`:
time and the pods' threads are weakly fair; admins, users, customers, crashes
and restarts are not. `Escalation`: each listener's own steps are weakly fair;
connections that break and come back are not. `IssueStore`: the listeners of all
pods and the backfill threads of steady ones are weakly fair, as threads that
only sleep, wait or call what returns; failures are finitely many, so that the
embedding API answers in the end, and so are updates of a status, without which
notifications would never cease. One pod is assumed to stay up (`Steady`) in these
three: with every pod down nothing can be promised. No strong fairness is used.

Deadlock is checked in every run but `IssueReads`, where the call is over: elsewhere
an ended request stutters by `Stop`, or the system goes on for ever.

The type invariants of `JwksCache` and `IssueStore` are proved (section 4) and in no
run's list; so is that of `IssueReads`.

## 4. The proofs

Every theorem is about a specification for all values of its constants that its
assumptions allow; the assumptions are named in the modules (`DirectoryAssumption`,
`AgentAssumption`, `ReadsAssumption`, `StoreAssumption`, `JwksAssumption`,
`CacheAssumption`, `BriefingsAssumption`, `SweepAssumption`, `SessionAssumption`,
`AlertAssumption`, `EscalationAssumption`, `ChurnAssumption`) and the runs evaluate them.
They say what the constants are (sets, numbers, their order) and that pods, admins, users
and requests are finitely many, which counting them needs. Four theorems have a hypothesis of their own, named below. Each
inductive invariant was checked by TLC on the run of its module before it was proved.

`AgentGraphProofs` proves, for every set of queries, directory, role sets,
batch size, recursion limit and choice of what may fail:

- `TypeCorrect`: `Spec => []TypeOK`.
- `RoleSafety`: `Spec => []WritesAuthorised`. Not inductive as it stands: a write
  is authorised because the gate looked at the batch before, so the
  strengthening says of every state in which a batch is about to run or running
  that each write tool in it is one the roles allow. The gate and `_execute`
  read the tools separately; that both read `Requested` of one state is what the
  proof rests on.
- `IterationSafety`: `Spec => []IterationBounded`, from an invariant that relates
  `iteration` to the place (between the think and the next one it is below six) and, while
  no LLM call raises, to the nodes run: three per iteration (`NodesCounted`). With a call
  that raises the second part is false, and section 5 says what happens then.
- `AuditPrecedesWrites`: `Spec => []WritesAudited`. The property compares two counts
  of a tool, so the invariant (`RowsAhead`) counts too: the rows are the writes and,
  besides, the threads that have written their row and not yet run their tool.
- `WritesFollowIssues`: `Spec => []WritesNeedIssues`, from `WritesInv`: a
  thread that is past its audit has found issues in the state, and issues get into the
  state by `get_open_issues` alone, whose thread leaves a step (`IssuesLookedUp`).
- `DataStaysWithCustomer`: `Spec => DataFollowsCustomer`, an action property, and
  `RulePlanRuns`: `Spec => []RulePlanCompleted`, both from `RulesInv`, and the first also
  from `FetchedOfCustomer`: what the threads of a batch bring is of a customer that the
  name in the state resolves to. `RulesInv` says that the
  queue is what is left of the rule plan after `iteration` steps (`QueueInv`), what the
  threads of a step bring back (`ThreadsInv`) and that the steps taken are over, in
  order, while those to come have not run (`InOrder`). It rests on lemmas about every
  plan of `build_rule_plan`: it names each tool once and a tool after those it needs.
- `ToolsRunOnce`: `Spec => NoToolRepeated`, an action property. By the LLM it is the
  filter (`BatchFiltered`), by the rules the queue.
- `KeepsContract`: `Spec => ImplementsContract`. Each step of the graph is a step
  of the contract or leaves its variables alone. It needs that nothing is
  recorded before the answer, and that a request refused for its roles has
  written nothing, which follows from `WritesAuthorised` because both write
  tools ask for the same roles.

`BriefingsProofs` has the lemmas about a customer's board that the next three modules
rest on: each operation of the briefing store gives a board in the order of age, and only
`Insert` makes it longer.

`HealthSweepProofs` proves, for any pods, admins, customers and intervals in the order of
the code's:

- `TypeCorrect`, which includes that a board stays in the order of age (`AgedType` of
  `BriefingsProofs`).
- `SweepsExclude`: `Spec => []OneSweepAtATime`, for sweeps of any length. `Exclusive` says
  why: until a sweep has lacked or lost the lock, a pod that sweeps got the lock when it
  began, so that what it has run and what is left of the lock make `LockTTL` together, at
  least: when another finds the lock free, it has run that long.
- `SweepsKeepComing`: `Spec => []SweepGapBounded`, under `Steady # {}`. `Regular`
  relates the clock of a steady pod, the lock and the time since the last sweep: the
  lock is never older than that sweep, a sweep in progress began no earlier than the last
  one, and the pod wakes before the bound.
- `DuplicatesExcluded`: `Spec => []NoDuplicateBriefings`. `RowsBounded` counts, per
  customer, rows and sweepers about to insert together; `RowsUnique` says that while
  every sweep has been under its lock there is at most one row, and none when the one
  sweeper is about to insert.

`EscalationProofs` proves, for any pods, issues and customers, and queues of any length:

- `TypeCorrect`.
- `DuplicatesAtMostPods`: `Spec => []DuplicatesBounded`. A briefing and a listener about to
  insert one count alike (`RowsBounded`): a listener joins the others only while there is
  no briefing.
- `NotesKept`: `Spec => []NotesHeld`, what `NoteSurfaced` rests on besides fairness: a
  note on an urgent issue that no briefing answers yet is in the queue or in the hands of
  every pod that stays up, whatever the others lose.

`ChurnSignalProofs` proves, for any pods, number of customers and of runs that raise:

- `TypeCorrect`, with Redis up or down.
- `BriefedOnce`: `Spec => []TransitionBriefedOnce`, and `WorseningBriefed`:
  `Spec => EachTransitionBriefed`, an action property, both under `~RedisDown`, without
  which they fail (section 6). `Alone` says that the lock keeps runs apart; `Unbriefed` that
  a run finds no recent briefing of a customer it has yet to come to, because the lock
  outlasts the dedup window, so that the dedup never swallows a transition;
  `FlagsCounted` counts briefings without a snapshot; and `Reported` says that what a run
  read is still the snapshot when it saves, and that a worse one has been reported.

`SyncAndRedisProofs` has the theorems of the synchronous agent and of its session history
and the alert marks in Redis. For every directory, role set and set of LLM plans it proves
`SyncTypeCorrect`, `AnswersOnCustomer`: `SyncSpec => []AnswerOnCustomer` (`FollowedUp`: until
a search sets the customer the data are the customer's, and after one the follow-up
fetches both anew or has a reason not to) and
`KeepsContract`: `SyncSpec => ImplementsContract`, the same contract by an agent that has
no gate. Its `WritesPermitted` is what `require_role` leaves behind: a write has only been
made of a tool the roles allow, and as both write tools ask for the same roles, a
refusal comes before any write.

Of `RedisStores` it proves, for any requests, users, polls, customers, cap and expiries:

- `TypeCorrect`, for both stores.
- `LossesExcused`: `Spec => LossExcused`, an action property. `SessionInv` says that the
  history and whatever a request has fetched have their events in the order of the log
  (`InOrder`), and that a request since whose fetch nobody has stored has fetched
  the history there is. From the order it follows, by counting (`LaterInLog`),
  that an event the cap cuts off has as many later ones in the log.
- `AlertsPerWindow`: `Spec => []AlertsBounded`. `SendersBounded` counts the alerts of a
  window and the polls about to send one more; that there are none of the former when a
  poll finds no mark is `MarkCovers`.
- `SilenceEnded`: `Spec => []SilenceBounded`, under `Watching # {}`: without a poll
  on time nothing is promised. `SilenceOf` bounds the silence by what is used
  up of the mark, and by that poll's clock.

`IssueReadsProofs` proves, for every set of issues, customers and owners and any
number of changes between the statements of a call:

- `TypeCorrect`, with the fact that an access notice is looked up for a customer only.
- `RlsHolds`: `Spec => []OwnRowsOnly`, and `NoticeGiven`: `Spec => []EmptyExplained`.
  The properties speak of moments that have passed, which the ghosts `held`,
  `taken`, `bare` and `orphaned` collect. The invariant `ReadInv` says that the
  ghosts cover the present (`GhostsWitness`), and why an empty answer of the MCP
  server or of SQL is empty while the call goes on (`EmptyFromMcp`, `NothingSeen`).
- `LevelAsDocumented`: `Spec => []RubricAsDocumented`, from `RubricFollowed`, which
  equates the raised level and the documented rubric for every set of rows; and
  `PrimaryIsGravest`: `Spec => []PrimaryCarriesRisk`, from `RanksAgree`: the two
  tables of ranks never order two severities differently.

`StoreProofs` has the theorems about what is kept between requests, three modules with no
state in common. Of `QueryCache` it proves, for any users, queries, customers, TTLs,
delays of the writes and overlapping runs, `TypeCorrect`, `OwnAnswers`: `Spec => []OwnAnswersOnly` (`OwnInv`: each
answer lies under the key of its own user; an answer that waits names its key
itself) and `ExactFresh`: `Spec => []ExactAnswersFresh`. For the latter `AgeInv`
bounds an age by what has been used up on the way: of the delay of the profile's
`setex`, of the profile's TTL, then of the delay of the store, then of the entry's TTL.

Of `JwksCache` it proves, for any keys, threads, TTL, pause and length of a fetch,
`JwksTypeCorrect`, `PublishedSafe` and `WithdrawnSafe`. Both properties follow from one
invariant about keys the module is wrong about, in either direction
(`ExcuseInv`): an answer on its way is excused for as long as it may be kept,
the cache until it expires, and, while a thread has written keys and not yet
their time, for a whole TTL, which is what makes the two unlocked writes harmless.

Of `IssueStore` it proves, for any issues, requests, pods, updates and failures,
`StoreTypeCorrect` and `HistoryKept`: `StoreSpec => []StatusNoted`. The types alone are not
inductive: that an embedding or a note is of a row that exists rests on the
workers and requests naming rows they have found (`MissingInserted`,
`NotesInserted`). `HistoryInv` adds that an issue that is not torn has at most one
pending note, of its present status.

What stays with TLC. Liveness (`Terminates`, `RiskSurfaced`, `NoteSurfaced`,
`Searchable`, `NotificationsCease`) is out of the provers' reach, as it needs ENABLED.
Every safety property of a passing run is stated by a theorem.

## 5. Where the code and its documentation differ

Shown by runs that TLC refutes:

- `AgentStaleBatch`: `_think_rule` does not clear `next_tools`. When an LLM batch
  has run and the next LLM call raises, the gate and `_execute` take the old
  batch again, a second write included, against the filter of
  `graph_orchestrator.py:337`. `_after_think` looks at the same stale batch.
- `AlertDismissed`: acknowledging a briefing clears the alert key named by the
  briefing's source, and alerts are marked under their type, against
  `routes.py:143`: a dismissed customer stays silent until the mark expires.

Seen in the models and not listed as findings:

- The first rule step replaces the customer the user has confirmed by the name
  the planner reads from the query.
- Whether an answer is cached depends on words of the query
  (`query_cache.py:27`), not on the tools that ran, so a request that writes may be
  answered from the cache when it is repeated, without writing
  (`query_cache.py:15` means to exclude that).
- The answer for a confirmed customer is stored under the key of the unconfirmed
  query (`graph_orchestrator.py:834`), which from then on is answered without the
  confirmation that `graph_orchestrator.py:230` would ask for.
- `_embed_single_issue` stores no embedding: in `:e::vector` (`cdc_listener.py:43`)
  the text is no parameter to SQLAlchemy, the statement is refused and the
  exception swallowed. So a changed row is embedded by the next backfill, within
  five minutes, not "immediately" (`cdc_listener.py:6`), and the listener never
  rebuilds the index. If the parameter were bound, each stored embedding, itself
  an update of `issues`, would notify every listener again without end: the mutant
  of `NotificationsCease` is that change.
- An update whose request dies between its two commits, or two updates of one
  issue that overlap, leave a history that does not end with the status, until
  the next update (`torn` in `IssueStore`).
- The docstring of the escalation summary says "> 7 days" in one list and
  "7+ days" in the other; the code follows the second (`DocumentedLevel`). An
  amber account is never Low, which only the docstring's last line says.
- `StatusRank` never decides on a primary issue of a customer: the rows assessed
  are open issues only.
- An error body of the key endpoint is kept in place of good keys for the TTL,
  and a host younger than the TTL serves the empty key set it started with:
  both are among the excuses of `JwksCache`. After a failed fetch the next
  attempt is 30 s later; the comment at `security.py:31` says the next request
  retries, the one on the line after it says 30 s.
- An access notice may be missing, or name nobody, for an account that has just
  changed hands or has no owner (`EmptyExplained`).
- With an LLM that raises after a batch, `_think_rule` at an empty queue no longer
  counts iterations, so that more than six thinks and batches run until LangGraph's
  limit ends the request, against "Maximum 6 ReAct iterations per query"
  (`docs/architecture.md:106`). `IterationBounded` says of such a request only that the
  count stays in its bound.
- A cached answer may rest on data older than the "up to 15 minutes" of
  `docs/design-tradeoffs.md:66`: on top of the 900 s of the first layer come up to 900 s
  of the profile cache, the time from the profile's read to its `setex` and from the
  answer to its storing (`ExactAnswersFresh`, whose bound is reached), and a row of the
  second layer has no expiry at all.
- `docs/architecture.md:223` says that the JWKS cache "is process-level and never
  refreshed"; the code fetches again when the keys are 300 s old
  (`security.py:21`). `PublishedAccepted` and `WithdrawnRefused` speak of the code.
- "The same alert won't re-fire within 1 hour" (`routes.py:96`,
  `docs/architecture.md:213`) holds of polls one after another, while nobody restarts
  Redis and its calls succeed. Polls that overlap, also two of one user, may each send it
  (`AlertsBounded`).
- The tools look a customer up by `resolve_customer_name`, which takes a fragment to the
  first match: by the rules a fragment that stands for several customers, or the name of
  the plan in place of the confirmed one, may fetch the data of a customer the user did
  not mean. `DataOfCustomer` allows whatever the name resolves to.
- A synchronous plan such as profile of A, issues of A, search
  that finds B is not followed up and answers about B on A's issues: the exception
  in `AnswerOnCustomer`.
- `append_session_event` swallows the errors of Redis: an answered request may leave no
  session event (`lossy` in `RequestContract`).
- A sweep longer than 870 s loses its lock and goes on beside the next pod's;
  so does one during which Redis restarts.
- Some keyword combinations plan a recommendation or the history without
  fetching issues, and the step is skipped in silence (`SkipTool`).
- The follow-up plan that `search_customers` returns in rule mode is not among
  the fields `_execute` merges (`Join`), so the agent stops after the search.
- `POST /query` never writes an audit row: only the graph calls `_audit_write`.
- A manual sweep, and every pod's listener, can duplicate a briefing that the
  dedup should suppress. `NoDuplicateBriefings` and `DuplicatesBounded` state
  how far the dedup goes; TLC finds both bounds reached.
- Two overlapping requests of a session lose one's event; `LossExcused` states how far
  that goes.
- The dedup does not look at `trigger_issue_id`: a second urgent issue of a
  customer leaves no briefing of its own within half an hour.
- With Redis down (`RedisDown = TRUE` in `ChurnSignal`) overlapping churn runs can
  save a snapshot that hides a worsening, so that `EachTransitionBriefed` fails, and
  can brief one transition twice, so that `TransitionBriefedOnce` fails.
- A long-lived fact ("null for long-lived facts", `persistent_memory.py:118`) that is
  learned again under a key whose row has expired keeps the expiry in the past
  (`persistent_memory.py:87`), and is never read. Read in the code; no module has it.
- The similarity query of the cache's second layer writes `:emb::vector`, where
  the other queries write `CAST(:emb AS vector)`. If the driver does not bind
  it, the layer never answers; the model takes either case
  (`SemanticLookups`).

## 6. What is not modelled

Texts, prompts, formatting and the streaming protocol; the regular expressions
that extract names and keywords (the queries enumerate their outcomes); vector
search (its results are choices) and the matching in name resolution (which customer of
those possible a fragment gives is a choice of `Resolved`); the LIMIT and the owner
filter of the list of briefings; the trace and the logs;
the web client; the evaluation harness; rate limiting and the prompt guard (pure
tests of the text: `blocked` is their outcome); what is in a token beside its key
(issuer, azp, roles); `create_next_action` and the persistent memory (one
statement each); the rebuild of the index by the listener, which its failing
update never reaches; migrations and build files; `run_agent_stream` of
`agents/orchestrator.py`, which `routes.py` imports and no route calls.

Four hazards have no property, and `PROJECT.json` says why of each: the code
exposes them by design or the properties one would state are false of it.

## 7. Plan

What can be checked of the system's state is modelled, and the safety properties of
the passing runs are proved. What is left is to prove the safety parts of the liveness
properties, as `NotesKept` is for `NoteSurfaced`:

1. `AgentGraph`: a measure that every step between the start and the answer decreases, for
   `Terminates`.
2. `IssueStore`: an issue without an embedding is still found by a backfill to come, for
   `Searchable`.
3. `HealthSweep`: a customer at risk is on the list of the sweep that goes on, or of the
   next one, for `RiskSurfaced`.
