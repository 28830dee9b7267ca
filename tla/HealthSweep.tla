---------------------------- MODULE HealthSweep ----------------------------
(***************************************************************************)
(* The health sweep of app/services/autonomous_agent.py. In every pod a    *)
(* thread wakes every SweepInterval and sweeps if it gets the Redis lock   *)
(* lock:health_sweep; an admin's POST /briefings/sweep sweeps at once and  *)
(* asks for no lock. A sweep reads the customers, then the open issues,    *)
(* then stores a briefing for each customer at risk unless it finds one    *)
(* that is unacknowledged and recent.                                      *)
(*                                                                         *)
(* Clocks count down, so that the state space is finite without a bound on *)
(* time. Tick is one unit of it, and waits for a thread that is due. A     *)
(* sweep has no timeout: it may last longer than the lock it took, and a   *)
(* restart of Redis may take the lock from it.                             *)
(***************************************************************************)
EXTENDS Briefings, FiniteSets, FiniteSetsExt

CONSTANTS
    Pods,
    Steady,         \* pods that never crash
    Admins,         \* callers of POST /briefings/sweep
    CustomerCount,
    Changing,       \* customers whose health and issues change
    SweepInterval,  \* 900 s
    LockTTL,        \* 870 s
    StartDelay,     \* 30 s
    MaxRun,         \* bound: ticks a sweep can last, more than LockTTL or less
    MaxFaults,      \* bound: crashes, restarts of Redis, sweeps that raise and
                    \* sweeps that ask for no lock or cannot reach it
    NoIssue,        \* trigger_issue_id = NULL
    RedisMayFail    \* the lock may be out of reach

Customers == 1..CustomerCount       \* in the order of their names
Sweepers == Pods \cup Admins

ASSUME SweepAssumption ==
    /\ IsFiniteSet(Sweepers)
    /\ Steady \subseteq Pods
    /\ Pods \cap Admins = {}
    /\ CustomerCount \in Nat
    /\ NoIssue \in Triggers
    /\ Changing \subseteq Customers
    /\ {SweepInterval, LockTTL, StartDelay, MaxRun, MaxFaults} \subseteq Nat
    /\ 0 < LockTTL /\ LockTTL < SweepInterval
    /\ StartDelay <= SweepInterval
    /\ RedisMayFail \in BOOLEAN

VARIABLES
    up,         \* pods running
    sleep,      \* time until the pod's thread wakes; 0: it is due, or sweeping
    lock,       \* time until lock:health_sweep expires; 0: it is free
    sweep,      \* what each sweeper is doing
    unhealthy,  \* customers whose health_status is red or amber
    withIssues, \* customers with an open issue
    board,      \* the health_sweep briefings, per customer
    sinceSweep, \* history: time since a pod last began a sweep
    unlocked,   \* history: some sweep has begun without the lock, or Redis lost
                \* the lock of one
    outlasted,  \* history: some pod's sweep has outlasted its lock
    faults

history == <<sinceSweep, unlocked, outlasted>>
vars == <<up, sleep, lock, sweep, unhealthy, withIssues, board, history, faults>>

\* todo: customers still to look at; ran: ticks since the sweep began.
Sweeps == [at: {"idle", "customers", "issues", "check", "insert"},
           todo: SUBSET Customers, ran: 0..MaxRun]

Idle == [at |-> "idle", todo |-> {}, ran |-> 0]
Begun == [Idle EXCEPT !.at = "customers"]

Busy(w) == sweep[w].at # "idle"

\* The sweep was begun LockTTL ago or more.
Outlasts(w) == Busy(w) /\ sweep[w].ran >= LockTTL

GapBound == SweepInterval + (IF MaxRun > LockTTL THEN MaxRun ELSE LockTTL)

TypeOK ==
    /\ up \subseteq Pods
    /\ sleep \in [Pods -> 0..SweepInterval]
    /\ lock \in 0..LockTTL
    /\ sweep \in [Sweepers -> Sweeps]
    /\ unhealthy \subseteq Customers
    /\ withIssues \subseteq Customers
    /\ board \in [Customers -> Boards]
    /\ sinceSweep \in 0..GapBound + 1
    /\ unlocked \in BOOLEAN
    /\ outlasted \in BOOLEAN
    /\ faults \in 0..MaxFaults

\* Pods may have started up to SweepInterval apart.
Init ==
    /\ up = Pods
    /\ sleep \in [Pods -> StartDelay..SweepInterval]
    /\ lock = 0
    /\ sweep = [w \in Sweepers |-> Idle]
    /\ unhealthy \in SUBSET Customers
    /\ withIssues = unhealthy
    /\ board = [c \in Customers |-> EmptyBoard]
    /\ sinceSweep = 0
    /\ unlocked = FALSE
    /\ outlasted = FALSE
    /\ faults = 0

-----------------------------------------------------------------------------
(* The threads *)

\* One of the events that MaxFaults bounds.
Fault == faults < MaxFaults /\ faults' = faults + 1

\* Fault: SET without NX.
LockFreeAlways == TRUE

LockFree == lock = 0

\* The thread wakes, tries the lock and begins its sweep or sleeps again.
Wake(p) ==
    /\ p \in up
    /\ sleep[p] = 0
    /\ ~Busy(p)
    /\ \/ /\ LockFree
          /\ lock' = LockTTL
          /\ sweep' = [sweep EXCEPT ![p] = Begun]
          /\ sinceSweep' = 0
          /\ UNCHANGED <<sleep, unlocked, faults>>
       \/ /\ ~LockFree
          /\ sleep' = [sleep EXCEPT ![p] = SweepInterval]
          /\ UNCHANGED <<lock, sweep, sinceSweep, unlocked, faults>>
       \/ /\ RedisMayFail
          /\ Fault
          /\ sweep' = [sweep EXCEPT ![p] = Begun]
          /\ sinceSweep' = 0
          /\ unlocked' = TRUE
          /\ UNCHANGED <<sleep, lock>>
    /\ UNCHANGED <<up, unhealthy, withIssues, board, outlasted>>

\* POST /briefings/sweep: trigger_sweep.
TriggerSweep(admin) ==
    /\ ~Busy(admin)
    /\ Fault
    /\ sweep' = [sweep EXCEPT ![admin] = Begun]
    /\ unlocked' = TRUE
    /\ UNCHANGED <<up, sleep, lock, unhealthy, withIssues, board, sinceSweep, outlasted>>

ReadCustomers(w) ==
    /\ sweep[w].at = "customers"
    /\ sweep' = [sweep EXCEPT ![w].at = "issues", ![w].todo = unhealthy]
    /\ UNCHANGED <<up, sleep, lock, unhealthy, withIssues, board, history, faults>>

\* get_open_issues_for_at_risk_customers reads the health again.
ReadIssues(w) ==
    /\ sweep[w].at = "issues"
    /\ sweep' = [sweep EXCEPT ![w].at = "check",
                              ![w].todo = @ \cap unhealthy \cap withIssues]
    /\ UNCHANGED <<up, sleep, lock, unhealthy, withIssues, board, history, faults>>

\* The customer a sweep is at: the loop follows the customers' names.
Current(w) == Min(sweep[w].todo)

\* Fault: the board is not looked at before the insert.
FindsNothing(w) == FALSE

FindsDuplicate(w) == Duplicate(board[Current(w)])

\* The SELECT of store_briefing.
CheckBriefing(w) ==
    /\ sweep[w].at = "check"
    /\ sweep[w].todo # {}
    /\ sweep' = IF FindsDuplicate(w)
                THEN [sweep EXCEPT ![w].todo = @ \ {Current(w)}]
                ELSE [sweep EXCEPT ![w].at = "insert"]
    /\ UNCHANGED <<up, sleep, lock, unhealthy, withIssues, board, history, faults>>

\* Its INSERT, committed.
InsertBriefing(w) ==
    /\ sweep[w].at = "insert"
    /\ board' = [board EXCEPT ![Current(w)] = Insert(@, NoIssue)]
    /\ sweep' = [sweep EXCEPT ![w].at = "check", ![w].todo = @ \ {Current(w)}]
    /\ UNCHANGED <<up, sleep, lock, unhealthy, withIssues, history, faults>>

\* The thread goes back to sleep. The lock is left to expire.
EndSweep(w) ==
    /\ sweep' = [sweep EXCEPT ![w] = Idle]
    /\ sleep' = [p \in Pods |-> IF p = w THEN SweepInterval ELSE sleep[p]]
    /\ UNCHANGED <<up, lock, unhealthy, withIssues, board, history>>

FinishSweep(w) ==
    /\ sweep[w].at = "check"
    /\ sweep[w].todo = {}
    /\ EndSweep(w)
    /\ UNCHANGED faults

\* An exception anywhere in the sweep, which run_health_sweep swallows.
RaiseSweep(w) ==
    /\ Busy(w)
    /\ Fault
    /\ EndSweep(w)

-----------------------------------------------------------------------------
(* Time, crashes and the rest of the system *)

\* Fault: SET without EX.
LockLeftForever == lock

LockLeft == IF lock = 0 THEN 0 ELSE lock - 1

CountDown(left) == IF left = 0 THEN 0 ELSE left - 1

Tick ==
    /\ \A p \in up : sleep[p] > 0 \/ Busy(p)
    /\ \A w \in Sweepers : Busy(w) => sweep[w].ran < MaxRun
    /\ sleep' = [p \in Pods |-> CountDown(sleep[p])]
    /\ lock' = LockLeft
    /\ sweep' = [w \in Sweepers |->
                    IF Busy(w) THEN [sweep[w] EXCEPT !.ran = @ + 1] ELSE sweep[w]]
    /\ board' = [c \in Customers |-> Aged(board[c])]
    /\ sinceSweep' = Min({sinceSweep + 1, GapBound + 1})
    /\ outlasted' = (outlasted \/ \E p \in Pods : Outlasts(p)')
    /\ UNCHANGED <<up, unhealthy, withIssues, unlocked, faults>>

\* Redis keeps nothing over a restart (docker-compose.yml): the lock is free,
\* whoever is sweeping under it.
RedisRestarts ==
    /\ lock > 0
    /\ Fault
    /\ lock' = 0
    /\ unlocked' = (unlocked \/ \E p \in Pods : Busy(p))
    /\ UNCHANGED <<up, sleep, sweep, unhealthy, withIssues, board, sinceSweep, outlasted>>

Crash(p) ==
    /\ p \in up \ Steady
    /\ Fault
    /\ up' = up \ {p}
    /\ sweep' = [sweep EXCEPT ![p] = Idle]
    /\ UNCHANGED <<sleep, lock, unhealthy, withIssues, board, history>>

\* start_autonomous_scheduler
Restart(p) ==
    /\ p \in Pods \ up
    /\ up' = up \cup {p}
    /\ sleep' = [sleep EXCEPT ![p] = StartDelay]
    /\ UNCHANGED <<lock, sweep, unhealthy, withIssues, board, history, faults>>

\* POST /briefings/{id}/acknowledge
AcknowledgeBriefing(c) ==
    /\ \E b \in Acknowledge(board[c]) : board' = [board EXCEPT ![c] = b]
    /\ UNCHANGED <<up, sleep, lock, sweep, unhealthy, withIssues, history, faults>>

CustomerChanges(c) ==
    /\ \/ /\ unhealthy' = SymDiff(unhealthy, {c})
          /\ UNCHANGED withIssues
       \/ /\ withIssues' = SymDiff(withIssues, {c})
          /\ UNCHANGED unhealthy
    /\ UNCHANGED <<up, sleep, lock, sweep, board, history, faults>>

-----------------------------------------------------------------------------

SweepStep(w) ==
    \/ ReadCustomers(w)
    \/ ReadIssues(w)
    \/ CheckBriefing(w)
    \/ InsertBriefing(w)
    \/ FinishSweep(w)

Next ==
    \/ \E p \in Pods : Wake(p)
    \/ \E admin \in Admins : TriggerSweep(admin)
    \/ \E w \in Sweepers : SweepStep(w)
    \/ Tick
    \/ RedisRestarts
    \/ \E w \in Sweepers : RaiseSweep(w)
    \/ \E p \in Pods : Crash(p) \/ Restart(p)
    \/ \E c \in Customers : AcknowledgeBriefing(c)
    \/ \E c \in Changing : CustomerChanges(c)

Spec == Init /\ [][Next]_vars

\* Time passes and the threads run: nothing is assumed of admins, users,
\* customers, crashes or restarts.
FairSpec ==
    /\ Spec
    /\ WF_vars(Tick)
    /\ \A p \in Pods : WF_vars(Wake(p))
    /\ \A w \in Sweepers : WF_vars(SweepStep(w))

-----------------------------------------------------------------------------
(* Properties *)

AtRisk(c) == c \in unhealthy \cap withIssues

\* store_briefing's dedup: no customer has two unacknowledged health_sweep
\* briefings less than 30 minutes old. Nothing in the table enforces it; it
\* rests on the lock. Once a sweep has run without it, or longer than it, there
\* can be as many as there are sweepers, and never more.
NoDuplicateBriefings ==
    \A c \in Customers :
        Len(board[c].recent) <=
            IF unlocked \/ outlasted THEN Cardinality(Sweepers) ELSE 1

\* Nobody releases the lock and nothing stops a sweep when it expires, so two
\* pods can sweep at the same time. But only when one of them has been at it for
\* the lock's whole TTL, or one never had the lock or lost it with Redis.
OneSweepAtATime ==
    unlocked \/ \A p, q \in Pods : p # q /\ Busy(p) /\ Busy(q) => Outlasts(p) \/ Outlasts(q)

\* Sweeps keep coming: with one pod that stays up, a sweep begins at least
\* every SweepInterval + LockTTL (or the time a sweep can last, if that is
\* longer), whoever held the lock, crashed with it, outlasted or lost it.
SweepGapBounded == sinceSweep <= GapBound

\* A customer that stays at risk has an unacknowledged briefing again and
\* again, whatever the users acknowledge and the other pods do.
RiskSurfaced == \A c \in Customers : []<>(~AtRisk(c) \/ Unacknowledged(board[c]))

=============================================================================
