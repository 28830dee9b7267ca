---------------------------- MODULE ChurnSignal ----------------------------
(***************************************************************************)
(* The churn signal of app/services/autonomous_agent.py. Once a day a pod  *)
(* that gets lock:churn_signal compares each customer's health_status with *)
(* the last snapshot of it, stores a briefing when it has become worse and *)
(* saves the new snapshot. The pod reads the customers once, at the start; *)
(* each briefing and each snapshot is a transaction of its own.            *)
(*                                                                         *)
(* The lock's 23 hours outlast a run and the half hour for which a         *)
(* briefing is recent: LockExpires waits for both.                         *)
(***************************************************************************)
EXTENDS Briefings, FiniteSets, FiniteSetsExt

CONSTANTS
    Pods,
    CustomerCount,
    RedisDown,      \* every pod runs, at any time
    MaxFailures,    \* bound: runs that raise
    NoSnapshot

Customers == 1..CustomerCount       \* in the order of their names
Health == {"green", "amber", "red"}

\* A briefing's health_status is kept in its trigger, which churn briefings
\* do not use.
ASSUME ChurnAssumption ==
    /\ CustomerCount \in Nat \ {0}
    /\ Triggers = Health
    /\ NoSnapshot \notin Health
    /\ RedisDown \in BOOLEAN
    /\ MaxFailures \in Nat

VARIABLES
    health,     \* customers.health_status
    snapshot,   \* health_snapshots
    locked,     \* lock:churn_signal is set
    run,        \* what each pod is doing
    board,      \* the churn_signal briefings, per customer
    flags,      \* history: briefings stored since the customer's snapshot was saved
    failures,   \* runs that have raised
    told        \* history: the health last reported, or last saved as no worse

vars == <<health, snapshot, locked, run, board, flags, failures, told>>

\* todo: customers not done; seen: their health as read; previous: the
\* snapshot of the customer at hand.
Runs == [at: {"idle", "list", "previous", "check", "insert", "save"},
         todo: SUBSET Customers,
         seen: [Customers -> Health],
         previous: Health \cup {NoSnapshot}]

MaxFlags == 2 + MaxFailures

Idle == [at |-> "idle", todo |-> {}, seen |-> [c \in Customers |-> "green"],
         previous |-> NoSnapshot]

Busy(p) == run[p].at # "idle"

Current(p) == Min(run[p].todo)
Seen(p) == run[p].seen[Current(p)]

TypeOK ==
    /\ health \in [Customers -> Health]
    /\ snapshot \in [Customers -> Health \cup {NoSnapshot}]
    /\ locked \in BOOLEAN
    /\ run \in [Pods -> Runs]
    /\ board \in [Customers -> Boards]
    /\ flags \in [Customers -> 0..MaxFlags]
    /\ failures \in 0..MaxFailures
    /\ told \in [Customers -> Health \cup {NoSnapshot}]

Init ==
    /\ health \in [Customers -> Health]
    /\ snapshot = [c \in Customers |-> NoSnapshot]
    /\ locked = FALSE
    /\ run = [p \in Pods |-> Idle]
    /\ board = [c \in Customers |-> EmptyBoard]
    /\ flags = [c \in Customers |-> 0]
    /\ failures = 0
    /\ told = [c \in Customers |-> NoSnapshot]

-----------------------------------------------------------------------------

\* Fault: the comparison misses the step from green straight to red.
WorseByOne(before, now) == <<before, now>> \in {<<"green", "amber">>, <<"amber", "red">>}

Worse(before, now) ==
    <<before, now>> \in {<<"green", "amber">>, <<"green", "red">>, <<"amber", "red">>}

Wake(p) ==
    /\ ~Busy(p)
    /\ IF RedisDown THEN UNCHANGED locked ELSE ~locked /\ locked' = TRUE
    /\ run' = [run EXCEPT ![p].at = "list"]
    /\ UNCHANGED <<health, snapshot, board, flags, failures, told>>

ListCustomers(p) ==
    /\ run[p].at = "list"
    /\ run' = [run EXCEPT ![p].at = "previous", ![p].todo = Customers, ![p].seen = health]
    /\ UNCHANGED <<health, snapshot, locked, board, flags, failures, told>>

\* get_last_health_snapshot and the comparison.
ReadSnapshot(p) ==
    /\ run[p].at = "previous"
    /\ run' = [run EXCEPT ![p].previous = snapshot[Current(p)],
                          ![p].at = IF Worse(snapshot[Current(p)], Seen(p))
                                    THEN "check" ELSE "save"]
    /\ UNCHANGED <<health, snapshot, locked, board, flags, failures, told>>

CheckBriefing(p) ==
    /\ run[p].at = "check"
    /\ run' = [run EXCEPT ![p].at = IF Duplicate(board[Current(p)]) THEN "save" ELSE "insert"]
    /\ UNCHANGED <<health, snapshot, locked, board, flags, failures, told>>

InsertBriefing(p) ==
    LET c == Current(p) IN
    /\ run[p].at = "insert"
    /\ flags[c] < MaxFlags
    /\ board' = [board EXCEPT ![c] = Insert(@, Seen(p))]
    /\ flags' = [flags EXCEPT ![c] = @ + 1]
    /\ told' = [told EXCEPT ![c] = Seen(p)]
    /\ run' = [run EXCEPT ![p].at = "save"]
    /\ UNCHANGED <<health, snapshot, locked, failures>>

\* The run after the customer at hand.
NextCustomer(p) ==
    IF run[p].todo = {Current(p)}
    THEN Idle
    ELSE [run[p] EXCEPT !.at = "previous", !.todo = @ \ {Current(p)},
                        !.previous = NoSnapshot]

\* Fault: a snapshot once stored is never updated.
KeepSnapshot(p) ==
    IF snapshot[Current(p)] = NoSnapshot THEN Seen(p) ELSE snapshot[Current(p)]

NewSnapshot(p) == Seen(p)

\* store_health_snapshot
SaveSnapshot(p) ==
    LET c == Current(p) IN
    /\ run[p].at = "save"
    /\ snapshot' = [snapshot EXCEPT ![c] = NewSnapshot(p)]
    /\ flags' = [flags EXCEPT ![c] = IF NewSnapshot(p) = Seen(p) THEN 0 ELSE @]
    /\ told' = [told EXCEPT ![c] = IF Worse(run[p].previous, Seen(p)) THEN @ ELSE Seen(p)]
    /\ run' = [run EXCEPT ![p] = NextCustomer(p)]
    /\ UNCHANGED <<health, locked, board, failures>>

\* run_churn_signal swallows the exception.
FailRun(p) ==
    /\ Busy(p)
    /\ failures < MaxFailures
    /\ failures' = failures + 1
    /\ run' = [run EXCEPT ![p] = Idle]
    /\ UNCHANGED <<health, snapshot, locked, board, flags, told>>

-----------------------------------------------------------------------------

LockExpires ==
    /\ locked
    /\ \A p \in Pods : ~Busy(p)
    /\ \A c \in Customers : board[c].recent = <<>>
    /\ locked' = FALSE
    /\ UNCHANGED <<health, snapshot, run, board, flags, failures, told>>

Tick ==
    /\ \E c \in Customers : board[c].recent # <<>>
    /\ board' = [c \in Customers |-> Aged(board[c])]
    /\ UNCHANGED <<health, snapshot, locked, run, flags, failures, told>>

AcknowledgeBriefing(c) ==
    /\ \E b \in Acknowledge(board[c]) : board' = [board EXCEPT ![c] = b]
    /\ UNCHANGED <<health, snapshot, locked, run, flags, failures, told>>

HealthChanges(c) ==
    /\ \E h \in Health \ {health[c]} : health' = [health EXCEPT ![c] = h]
    /\ UNCHANGED <<snapshot, locked, run, board, flags, failures, told>>

RunStep(p) ==
    \/ ListCustomers(p)
    \/ ReadSnapshot(p)
    \/ CheckBriefing(p)
    \/ InsertBriefing(p)
    \/ SaveSnapshot(p)

Next ==
    \/ \E p \in Pods : Wake(p) \/ RunStep(p) \/ FailRun(p)
    \/ \E c \in Customers : AcknowledgeBriefing(c) \/ HealthChanges(c)
    \/ LockExpires
    \/ Tick

Spec == Init /\ [][Next]_vars

-----------------------------------------------------------------------------
(* Properties *)

\* One transition is briefed once: no second briefing for a customer before
\* the snapshot that the first one was about has been saved, but for one more
\* after each run that raised, in case it raised between the two.
TransitionBriefedOnce == \A c \in Customers : flags[c] <= 1 + failures

\* run_churn_signal: "Generates a churn-risk briefing for each transition".
\* When a customer's snapshot becomes worse, a briefing has reported the
\* customer's new health.
EachTransitionBriefed ==
    [][\A c \in Customers :
        <<snapshot[c], snapshot'[c]>> \in {<<"green", "amber">>, <<"green", "red">>,
                                           <<"amber", "red">>}
            => told[c] = snapshot'[c]]_vars

=============================================================================
