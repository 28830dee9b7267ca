-------------------------- MODULE HealthSweepProofs --------------------------
(***************************************************************************)
(* Theorems of HealthSweep, for every set of pods and of admins, number of *)
(* customers, interval, lock time and number of faults.                    *)
(***************************************************************************)
EXTENDS HealthSweep, BriefingsProofs

-----------------------------------------------------------------------------
(* Type correctness *)

\* What the assumptions say of each constant by itself.
LEMMA ConstantsType ==
    /\ SweepInterval \in Nat /\ LockTTL \in Nat /\ StartDelay \in Nat
    /\ MaxRun \in Nat /\ MaxFaults \in Nat
    /\ GapBound \in Nat
    /\ SweepInterval + LockTTL <= GapBound /\ SweepInterval + MaxRun <= GapBound
    /\ 0 < LockTTL /\ LockTTL < SweepInterval /\ StartDelay <= SweepInterval
BY SweepAssumption DEF GapBound

\* A sweeper idle, or one that has just begun, has a well-formed state.
LEMMA SweepsType ==
    /\ Idle \in Sweeps /\ Idle.at = "idle"
    /\ Begun \in Sweeps /\ Begun.at = "customers" /\ Begun.ran = 0
BY ConstantsType DEF Sweeps, Idle, Begun

\* The history clock stops at its cap.
LEMMA CappedClock ==
    ASSUME NEW n \in 0..GapBound + 1
    PROVE  /\ Min({n + 1, GapBound + 1}) \in 0..GapBound + 1
           /\ Min({n + 1, GapBound + 1}) <= n + 1
BY ConstantsType DEF Min

\* The initial states are well formed.
LEMMA InitType == Init => TypeOK
<1> SUFFICES ASSUME Init
             PROVE  TypeOK
  OBVIOUS
<1>1. sleep \in [Pods -> 0..SweepInterval]
  <2>1. StartDelay..SweepInterval \subseteq 0..SweepInterval
    BY ConstantsType
  <2> QED
    BY <2>1 DEF Init
<1>2. lock \in 0..LockTTL /\ sinceSweep \in 0..GapBound + 1 /\ faults \in 0..MaxFaults
  BY ConstantsType DEF Init
<1>3. sweep \in [Sweepers -> Sweeps] /\ board \in [Customers -> Boards]
  BY SweepsType, InsertType DEF Init
<1> QED
  BY <1>1, <1>2, <1>3 DEF Init, TypeOK

\* A thread that wakes keeps the types.
LEMMA WakeType ==
    ASSUME TypeOK, NEW p \in Pods, Wake(p)
    PROVE  TypeOK'
<1>1. sleep' \in [Pods -> 0..SweepInterval]
  BY ConstantsType DEF TypeOK, Wake
<1>2. lock' \in 0..LockTTL
  BY ConstantsType DEF TypeOK, Wake
<1>3. sweep' \in [Sweepers -> Sweeps]
  BY SweepsType DEF TypeOK, Wake, Sweepers
<1>4. sinceSweep' \in 0..GapBound + 1
  BY ConstantsType DEF TypeOK, Wake
<1>5. unlocked' \in BOOLEAN /\ outlasted' \in BOOLEAN
  BY DEF TypeOK, Wake
<1>6. faults' \in 0..MaxFaults
  BY ConstantsType DEF TypeOK, Wake, Fault
<1> QED
  BY <1>1, <1>2, <1>3, <1>4, <1>5, <1>6 DEF TypeOK, Wake

\* So does an admin who starts a sweep.
LEMMA TriggerType ==
    ASSUME TypeOK, NEW admin \in Admins, TriggerSweep(admin)
    PROVE  TypeOK'
<1>1. sweep' \in [Sweepers -> Sweeps]
  BY SweepsType DEF TypeOK, TriggerSweep, Sweepers
<1>2. unlocked' \in BOOLEAN /\ faults' \in 0..MaxFaults
  BY ConstantsType DEF TypeOK, TriggerSweep, Fault
<1> QED
  BY <1>1, <1>2 DEF TypeOK, TriggerSweep

\* The steps of a sweep in progress change its state, and InsertBriefing one
\* board.
LEMMA StepType ==
    ASSUME TypeOK, NEW w \in Sweepers, SweepStep(w)
    PROVE  TypeOK'
<1>1. sweep[w] \in Sweeps
  BY DEF TypeOK
<1>2. CASE ReadCustomers(w)
  <2>1. sweep' \in [Sweepers -> Sweeps]
    BY <1>1, <1>2 DEF TypeOK, ReadCustomers, Sweeps
  <2> QED
    BY <1>2, <2>1 DEF TypeOK, ReadCustomers, history
<1>3. CASE ReadIssues(w)
  <2>1. sweep' \in [Sweepers -> Sweeps]
    BY <1>1, <1>3 DEF TypeOK, ReadIssues, Sweeps
  <2> QED
    BY <1>3, <2>1 DEF TypeOK, ReadIssues, history
<1>4. CASE CheckBriefing(w)
  <2>1. sweep' \in [Sweepers -> Sweeps]
    BY <1>1, <1>4 DEF TypeOK, CheckBriefing, Sweeps
  <2> QED
    BY <1>4, <2>1 DEF TypeOK, CheckBriefing, history
<1>5. CASE InsertBriefing(w)
  <2>1. sweep' \in [Sweepers -> Sweeps]
    BY <1>1, <1>5 DEF TypeOK, InsertBriefing, Sweeps
  <2>2. board' \in [Customers -> Boards]
    BY <1>5, InsertType, SweepAssumption DEF TypeOK, InsertBriefing
  <2> QED
    BY <1>5, <2>1, <2>2 DEF TypeOK, InsertBriefing, history
<1>6. CASE FinishSweep(w)
  <2>1. sweep' \in [Sweepers -> Sweeps] /\ sleep' \in [Pods -> 0..SweepInterval]
    BY <1>6, SweepsType, ConstantsType DEF TypeOK, FinishSweep, EndSweep
  <2> QED
    BY <1>6, <2>1 DEF TypeOK, FinishSweep, EndSweep, history
<1> QED
  BY <1>2, <1>3, <1>4, <1>5, <1>6 DEF SweepStep

\* A tick moves every clock by one, within its range.
LEMMA TickType ==
    ASSUME TypeOK, Tick
    PROVE  TypeOK'
<1>1. sleep' \in [Pods -> 0..SweepInterval]
  BY ConstantsType DEF TypeOK, Tick, CountDown
<1>2. lock' \in 0..LockTTL
  BY ConstantsType DEF TypeOK, Tick, LockLeft
<1>3. sweep' \in [Sweepers -> Sweeps]
  <2>1. ASSUME NEW w \in Sweepers
        PROVE  (IF Busy(w) THEN [sweep[w] EXCEPT !.ran = @ + 1] ELSE sweep[w]) \in Sweeps
    BY ConstantsType DEF TypeOK, Tick, Sweeps
  <2> QED
    BY <2>1 DEF Tick
<1>4. board' \in [Customers -> Boards]
  BY AgedType DEF TypeOK, Tick
<1>5. sinceSweep' \in 0..GapBound + 1
  BY CappedClock DEF TypeOK, Tick
<1>6. outlasted' \in BOOLEAN
  BY DEF TypeOK, Tick
<1> QED
  BY <1>1, <1>2, <1>3, <1>4, <1>5, <1>6 DEF TypeOK, Tick

\* Restarts of Redis, sweeps that raise, crashes, restarts, acknowledgements and the
\* customers' changes keep the types too.
LEMMA EventType ==
    ASSUME TypeOK,
           \/ RedisRestarts
           \/ \E w \in Sweepers : RaiseSweep(w)
           \/ \E p \in Pods : Crash(p) \/ Restart(p)
           \/ \E c \in Customers : AcknowledgeBriefing(c)
           \/ \E c \in Changing : CustomerChanges(c)
    PROVE  TypeOK'
<1>1. ASSUME NEW w \in Sweepers, RaiseSweep(w)
      PROVE  TypeOK'
  <2>1. sweep' \in [Sweepers -> Sweeps] /\ sleep' \in [Pods -> 0..SweepInterval]
    BY <1>1, SweepsType, ConstantsType DEF TypeOK, RaiseSweep, EndSweep
  <2>2. faults' \in 0..MaxFaults
    BY <1>1, ConstantsType DEF TypeOK, RaiseSweep, Fault
  <2> QED
    BY <1>1, <2>1, <2>2 DEF TypeOK, RaiseSweep, EndSweep, history
<1>2. ASSUME NEW p \in Pods, Crash(p)
      PROVE  TypeOK'
  <2>1. sweep' \in [Sweepers -> Sweeps]
    BY <1>2, SweepsType DEF TypeOK, Crash
  <2>2. faults' \in 0..MaxFaults
    BY <1>2, ConstantsType DEF TypeOK, Crash, Fault
  <2> QED
    BY <1>2, <2>1, <2>2 DEF TypeOK, Crash, history
<1>3. ASSUME NEW p \in Pods, Restart(p)
      PROVE  TypeOK'
  BY <1>3, ConstantsType DEF TypeOK, Restart, history
<1>4. ASSUME NEW c \in Customers, AcknowledgeBriefing(c)
      PROVE  TypeOK'
  <2>1. PICK b \in Acknowledge(board[c]) : board' = [board EXCEPT ![c] = b]
    BY <1>4 DEF AcknowledgeBriefing
  <2>2. board' \in [Customers -> Boards]
    BY <2>1, AcknowledgeType DEF TypeOK
  <2> QED
    BY <1>4, <2>2 DEF TypeOK, AcknowledgeBriefing, history
<1>5. ASSUME NEW c \in Changing, CustomerChanges(c)
      PROVE  TypeOK'
  <2>1. unhealthy' \subseteq Customers /\ withIssues' \subseteq Customers
    BY <1>5, SweepAssumption DEF TypeOK, CustomerChanges, SymDiff
  <2> QED
    BY <1>5, <2>1 DEF TypeOK, CustomerChanges, history
<1>6. CASE RedisRestarts
  <2>1. lock' \in 0..LockTTL /\ faults' \in 0..MaxFaults /\ unlocked' \in BOOLEAN
    BY <1>6, ConstantsType DEF TypeOK, RedisRestarts, Fault
  <2> QED
    BY <1>6, <2>1 DEF TypeOK, RedisRestarts
<1> QED
  BY <1>1, <1>2, <1>3, <1>4, <1>5, <1>6

\* Every variable stays in its range: in particular no clock leaves its bounds,
\* a sweep never outlasts MaxRun (whatever MaxRun is), and the rows of a board stay in order of age.
THEOREM TypeCorrect == Spec => []TypeOK
<1>1. Init => TypeOK
  BY InitType
<1>2. TypeOK /\ [Next]_vars => TypeOK'
  <2> SUFFICES ASSUME TypeOK, [Next]_vars
               PROVE  TypeOK'
    OBVIOUS
  <2>1. CASE \E p \in Pods : Wake(p)
    BY <2>1, WakeType
  <2>2. CASE \E admin \in Admins : TriggerSweep(admin)
    BY <2>2, TriggerType
  <2>3. CASE \E w \in Sweepers : SweepStep(w)
    BY <2>3, StepType
  <2>4. CASE Tick
    BY <2>4, TickType
  <2>5. CASE \/ RedisRestarts
             \/ \E w \in Sweepers : RaiseSweep(w)
             \/ \E p \in Pods : Crash(p) \/ Restart(p)
             \/ \E c \in Customers : AcknowledgeBriefing(c)
             \/ \E c \in Changing : CustomerChanges(c)
    BY <2>5, EventType
  <2>6. CASE UNCHANGED vars
    BY <2>6 DEF vars, TypeOK, history
  <2> QED
    BY <2>1, <2>2, <2>3, <2>4, <2>5, <2>6 DEF Next
<1> QED
  BY <1>1, <1>2, PTL DEF Spec

-----------------------------------------------------------------------------
(* Mutual exclusion *)

\* What the lock excludes although nobody releases it: a pod that sweeps under it
\* took it at most sweep[p].ran ticks ago, so while it is free to be taken by
\* another pod, the sweep has outlasted it.
Exclusive ==
    ~unlocked =>
        /\ \A w \in Admins : ~Busy(w)
        /\ \A p \in Pods : Busy(p) => LockTTL <= lock + sweep[p].ran
        /\ \A p, q \in Pods : p # q /\ Busy(p) /\ Busy(q) => Outlasts(p) \/ Outlasts(q)
        /\ \A p \in Pods : Outlasts(p) => outlasted

\* A sweep that is busy after a step of another sweep, or of its own, was busy
\* before the step and has run as long.
Goes(w) ==
    \A v \in Sweepers : Busy(v)' => Busy(v) /\ sweep'[v].ran = sweep[v].ran

\* The steps of a sweep in progress, its end and a crash start no sweep.
LEMMA StepGoes ==
    ASSUME TypeOK, NEW w \in Sweepers,
           SweepStep(w) \/ RaiseSweep(w) \/ Crash(w)
    PROVE  Goes(w) /\ UNCHANGED <<lock, unlocked, outlasted>>
<1>1. CASE ReadCustomers(w)
  BY <1>1 DEF TypeOK, Sweeps, Goes, Busy, ReadCustomers, history
<1>2. CASE ReadIssues(w)
  BY <1>2 DEF TypeOK, Sweeps, Goes, Busy, ReadIssues, history
<1>3. CASE CheckBriefing(w)
  BY <1>3 DEF TypeOK, Sweeps, Goes, Busy, CheckBriefing, history
<1>4. CASE InsertBriefing(w)
  BY <1>4 DEF TypeOK, Sweeps, Goes, Busy, InsertBriefing, history
<1>5. CASE FinishSweep(w) \/ RaiseSweep(w)
  BY <1>5, SweepsType
     DEF TypeOK, Sweeps, Goes, Busy, FinishSweep, RaiseSweep, EndSweep, history
<1>6. CASE Crash(w)
  BY <1>6, SweepsType DEF TypeOK, Sweeps, Goes, Busy, Crash, history
<1> QED
  BY <1>1, <1>2, <1>3, <1>4, <1>5, <1>6 DEF SweepStep

\* The lock a waking thread finds free has expired under every sweep before.
LEMMA WakeExcludes ==
    ASSUME TypeOK, Exclusive, NEW p \in Pods, Wake(p)
    PROVE  Exclusive'
<1>1. outlasted' = outlasted
  BY DEF Wake
<1>2. CASE LockFree /\ lock' = LockTTL /\ sweep' = [sweep EXCEPT ![p] = Begun]
  <2> SUFFICES ASSUME ~unlocked'
               PROVE  /\ \A w \in Admins : ~Busy(w)'
                      /\ \A q \in Pods : Busy(q)' => LockTTL <= lock' + sweep'[q].ran
                      /\ \A q, r \in Pods :
                            q # r /\ Busy(q)' /\ Busy(r)' => Outlasts(q)' \/ Outlasts(r)'
                      /\ \A q \in Pods : Outlasts(q)' => outlasted'
    BY DEF Exclusive
  <2>1. ~unlocked
    BY DEF Wake, TypeOK
  <2>2. \A q \in Sweepers : q # p => sweep'[q] = sweep[q]
    BY <1>2 DEF TypeOK
  <2>3. sweep'[p] = Begun
    BY <1>2 DEF TypeOK, Sweepers
  <2>4. ASSUME NEW q \in Pods, q # p, Busy(q)'
        PROVE  Outlasts(q) /\ Outlasts(q)' /\ LockTTL <= lock' + sweep'[q].ran
    <3>1. sweep[q].ran \in 0..MaxRun /\ sweep'[q] = sweep[q]
      BY <2>2, <2>4 DEF TypeOK, Sweeps, Sweepers
    <3>2. Busy(q) /\ LockTTL <= lock + sweep[q].ran /\ lock = 0
      BY <1>2, <2>1, <2>4, <3>1 DEF Exclusive, Busy, LockFree
    <3>3. sweep[q].ran >= LockTTL
      BY <3>1, <3>2, ConstantsType
    <3> QED
      BY <1>2, <2>4, <3>1, <3>2, <3>3, ConstantsType DEF Outlasts
  <2>5. ~Outlasts(p)'
    BY <2>3, SweepsType, ConstantsType DEF Outlasts
  <2>6. LockTTL <= lock' + sweep'[p].ran
    BY <1>2, <2>3, SweepsType, ConstantsType
  <2>7. \A w \in Admins : ~Busy(w)'
    BY <2>1, <2>2, SweepAssumption DEF Exclusive, Busy, Sweepers
  <2>8. \A q \in Pods : Outlasts(q)' => outlasted'
    <3> SUFFICES ASSUME NEW q \in Pods, Outlasts(q)' PROVE outlasted
      BY <1>1
    <3>1. q # p /\ Busy(q)'
      BY <2>5 DEF Outlasts
    <3>2. Outlasts(q)
      BY <2>4, <3>1
    <3> QED
      BY <2>1, <3>2 DEF Exclusive
  <2> QED
    BY <2>4, <2>6, <2>7, <2>8
<1>3. CASE unlocked' = TRUE
  BY <1>3 DEF Exclusive
<1>4. CASE UNCHANGED <<lock, sweep, unlocked>>
  BY <1>1, <1>4 DEF Exclusive, Busy, Outlasts
<1> QED
  BY <1>2, <1>3, <1>4 DEF Wake

\* A tick takes one from the lock and adds one to the sweeps in progress.
LEMMA TickExcludes ==
    ASSUME TypeOK, Exclusive, Tick
    PROVE  Exclusive'
<1> SUFFICES ASSUME ~unlocked'
             PROVE  /\ \A w \in Admins : ~Busy(w)'
                    /\ \A q \in Pods : Busy(q)' => LockTTL <= lock' + sweep'[q].ran
                    /\ \A q, r \in Pods :
                          q # r /\ Busy(q)' /\ Busy(r)' => Outlasts(q)' \/ Outlasts(r)'
                    /\ \A q \in Pods : Outlasts(q)' => outlasted'
  BY DEF Exclusive
<1>1. ~unlocked
  BY DEF Tick
<1>2. \A w \in Sweepers : Busy(w)' => Busy(w)
  BY DEF TypeOK, Tick, Busy
<1>3. ASSUME NEW q \in Pods, Busy(q)'
      PROVE  /\ Busy(q)
             /\ LockTTL <= lock' + sweep'[q].ran
             /\ Outlasts(q) => Outlasts(q)'
  <2>1. sweep[q] \in Sweeps /\ sweep[q].ran \in 0..MaxRun /\ q \in Sweepers /\ Busy(q)
    BY <1>2, <1>3 DEF TypeOK, Sweeps, Sweepers
  <2>2. sweep'[q].ran = sweep[q].ran + 1
    BY <2>1 DEF Tick, Sweeps
  <2>3. LockTTL <= lock + sweep[q].ran
    BY <1>1, <2>1 DEF Exclusive
  <2>4. lock \in Nat /\ lock' = IF lock = 0 THEN 0 ELSE lock - 1
    BY ConstantsType DEF Tick, LockLeft, TypeOK
  <2>5. LockTTL <= lock' + sweep'[q].ran
    BY <2>1, <2>2, <2>3, <2>4, ConstantsType
  <2>6. Outlasts(q) => sweep'[q].ran >= LockTTL
    BY <2>1, <2>2, ConstantsType DEF Outlasts
  <2> QED
    BY <1>3, <2>1, <2>5, <2>6 DEF Outlasts
<1>4. \A q, r \in Pods : q # r /\ Busy(q)' /\ Busy(r)' => Outlasts(q)' \/ Outlasts(r)'
  BY <1>1, <1>3 DEF Exclusive
<1>5. \A q \in Pods : Outlasts(q)' => outlasted'
  BY DEF Tick
<1> QED
  BY <1>1, <1>2, <1>3, <1>4, <1>5 DEF Exclusive, Sweepers

\* Every step keeps two pods from sweeping under one lock while no sweep goes
\* without it.
LEMMA NextExcludes ==
    ASSUME TypeOK, Exclusive, [Next]_vars
    PROVE  Exclusive'
<1>1. CASE \E p \in Pods : Wake(p)
  BY <1>1, WakeExcludes
<1>2. CASE \E admin \in Admins : TriggerSweep(admin)
  BY <1>2 DEF TriggerSweep, Exclusive
<1>3. CASE \/ \E w \in Sweepers : SweepStep(w) \/ RaiseSweep(w)
           \/ \E p \in Pods : Crash(p)
  <2>1. PICK w \in Sweepers : SweepStep(w) \/ RaiseSweep(w) \/ Crash(w)
    BY <1>3 DEF Sweepers
  <2>2. Goes(w) /\ UNCHANGED <<lock, unlocked, outlasted>>
    BY <2>1, StepGoes
  <2>3. \A q \in Pods : Busy(q)' => /\ Busy(q)
                                    /\ sweep'[q].ran = sweep[q].ran
                                    /\ Outlasts(q)' <=> Outlasts(q)
    BY <2>2 DEF Goes, Outlasts, Sweepers
  <2>4. \A q \in Pods : Outlasts(q)' => Outlasts(q)
    BY <2>3 DEF Outlasts
  <2> SUFFICES ASSUME ~unlocked'
               PROVE  /\ \A v \in Admins : ~Busy(v)'
                      /\ \A q \in Pods : Busy(q)' => LockTTL <= lock' + sweep'[q].ran
                      /\ \A q, r \in Pods :
                            q # r /\ Busy(q)' /\ Busy(r)' => Outlasts(q)' \/ Outlasts(r)'
                      /\ \A q \in Pods : Outlasts(q)' => outlasted'
    BY DEF Exclusive
  <2>5. \A v \in Admins : ~Busy(v)'
    BY <2>2 DEF Goes, Exclusive, Sweepers
  <2> QED
    BY <2>2, <2>3, <2>4, <2>5 DEF Exclusive
<1>4. CASE Tick
  BY <1>4, TickExcludes
<1>5. CASE RedisRestarts
  <2> SUFFICES ASSUME ~unlocked' PROVE Exclusive'
    BY DEF Exclusive
  <2>1. ~unlocked /\ \A p \in Pods : ~Busy(p)
    BY <1>5 DEF RedisRestarts
  <2>2. \A w \in Admins : ~Busy(w)
    BY <2>1 DEF Exclusive
  <2>3. sweep' = sweep
    BY <1>5 DEF RedisRestarts
  <2> QED
    BY <2>1, <2>2, <2>3 DEF Exclusive, Busy, Outlasts
<1>6. CASE UNCHANGED <<lock, sweep, unlocked, outlasted>>
  BY <1>6 DEF Exclusive, Busy, Outlasts
<1>7. ASSUME \/ \E p \in Pods : Restart(p)
             \/ \E c \in Customers : AcknowledgeBriefing(c)
             \/ \E c \in Changing : CustomerChanges(c)
             \/ UNCHANGED vars
      PROVE  UNCHANGED <<lock, sweep, unlocked, outlasted>>
  BY <1>7 DEF Restart, AcknowledgeBriefing, CustomerChanges, vars, history
<1> QED
  BY <1>1, <1>2, <1>3, <1>4, <1>5, <1>6, <1>7 DEF Next

LEMMA InitExcludes == Init => Exclusive
BY SweepsType DEF Init, Exclusive, Busy, Outlasts, Sweepers

\* Two pods sweep at the same time only when one of them has been at it for 870 s:
\* SET NX EX 870 without a release excludes any other sweep for as long as the lock
\* lives, however long the sweeps are, while Redis answers and keeps it and no admin
\* asks for a sweep (run_health_sweep, _try_acquire_lock).
THEOREM SweepsExclude == Spec => []OneSweepAtATime
<1>1. Exclusive => OneSweepAtATime
  BY DEF Exclusive, OneSweepAtATime
<1>2. TypeOK /\ Exclusive /\ [Next]_vars => Exclusive'
  BY NextExcludes
<1> QED
  BY <1>1, <1>2, InitExcludes, TypeCorrect, PTL DEF Spec

-----------------------------------------------------------------------------
(* Regular sweeps *)

\* Why a sweep is never far: a lock that is held was taken when a sweep began,
\* a pod that sweeps began no earlier than sinceSweep, and a steady pod that
\* sleeps will wake before the gap is over. Its sleep may start when the lock of
\* another pod, which has crashed since, is about to expire.
Regular ==
    /\ Steady \subseteq up
    /\ lock > 0 => sinceSweep + lock <= LockTTL
    /\ \A p \in Pods : Busy(p) => sinceSweep <= sweep[p].ran
    /\ \A p \in Steady : ~Busy(p) => sinceSweep + sleep[p] <= GapBound

\* A thread that wakes begins a sweep, or finds the lock of one that began less
\* than LockTTL ago.
LEMMA WakeRegular ==
    ASSUME TypeOK, Regular, NEW p \in Pods, Wake(p)
    PROVE  Regular'
<1>1. CASE sweep' = [sweep EXCEPT ![p] = Begun] /\ sinceSweep' = 0
  <2>1. lock' \in 0..LockTTL
    BY WakeType DEF TypeOK
  <2>2. \A q \in Pods : sweep'[q].ran \in 0..MaxRun
    BY WakeType DEF TypeOK, Sweeps, Sweepers
  <2>3. \A q \in Pods : sleep'[q] \in 0..SweepInterval
    BY WakeType DEF TypeOK
  <2>4. up' = up
    BY DEF Wake
  <2> QED
    BY <1>1, <2>1, <2>2, <2>3, <2>4, ConstantsType, SweepAssumption DEF Regular
<1>2. CASE /\ ~LockFree
           /\ sleep' = [sleep EXCEPT ![p] = SweepInterval]
           /\ UNCHANGED <<lock, sweep, sinceSweep>>
  <2>1. lock \in 0..LockTTL /\ lock # 0 /\ sinceSweep \in Nat
    BY <1>2, ConstantsType DEF LockFree, TypeOK
  <2>2. sinceSweep + SweepInterval <= GapBound
    BY <2>1, ConstantsType DEF Regular
  <2>3. \A q \in Steady : sleep'[q] = IF q = p THEN SweepInterval ELSE sleep[q]
    BY <1>2, SweepAssumption DEF TypeOK
  <2>4. up' = up
    BY DEF Wake
  <2> QED
    BY <1>2, <2>2, <2>3, <2>4 DEF Regular, Busy
<1> QED
  BY <1>1, <1>2 DEF Wake

\* A sweep that goes on leaves the clocks alone.
LEMMA StepRegular ==
    ASSUME TypeOK, Regular, NEW w \in Sweepers,
           ReadCustomers(w) \/ ReadIssues(w) \/ CheckBriefing(w) \/ InsertBriefing(w)
    PROVE  Regular'
<1>1. /\ UNCHANGED <<up, sleep, lock, sinceSweep>>
      /\ sweep'[w].at # "idle" /\ sweep[w].at # "idle"
      /\ sweep'[w].ran = sweep[w].ran
      /\ \A v \in Sweepers \ {w} : sweep'[v] = sweep[v]
  <2>1. CASE ReadCustomers(w)
    BY <2>1 DEF TypeOK, Sweeps, ReadCustomers, history
  <2>2. CASE ReadIssues(w)
    BY <2>2 DEF TypeOK, Sweeps, ReadIssues, history
  <2>3. CASE CheckBriefing(w)
    BY <2>3 DEF TypeOK, Sweeps, CheckBriefing, history
  <2>4. CASE InsertBriefing(w)
    BY <2>4 DEF TypeOK, Sweeps, InsertBriefing, history
  <2> QED
    BY <2>1, <2>2, <2>3, <2>4
<1>2. \A v \in Sweepers : (Busy(v)' <=> Busy(v)) /\ sweep'[v].ran = sweep[v].ran
  BY <1>1 DEF Busy
<1> QED
  BY <1>1, <1>2, SweepAssumption DEF Regular, Sweepers

\* A pod goes back to sleep at most MaxRun after it began its sweep.
LEMMA EndRegular ==
    ASSUME TypeOK, Regular, NEW w \in Sweepers, Busy(w), EndSweep(w)
    PROVE  Regular'
<1>1. /\ UNCHANGED <<up, lock, sinceSweep>>
      /\ ~Busy(w)'
      /\ \A v \in Sweepers \ {w} : sweep'[v] = sweep[v]
      /\ \A p \in Pods : sleep'[p] = IF p = w THEN SweepInterval ELSE sleep[p]
  BY SweepsType DEF TypeOK, EndSweep, Busy, history
<1>2. \A p \in Pods : p # w => sweep'[p] = sweep[p]
  BY <1>1 DEF Sweepers
<1>3. w \in Pods => sinceSweep + SweepInterval <= GapBound
  <2>1. w \in Pods => sinceSweep <= sweep[w].ran
    BY DEF Regular
  <2>2. sweep[w].ran \in 0..MaxRun /\ sinceSweep \in Nat
    BY ConstantsType DEF TypeOK, Sweeps
  <2> QED
    BY <2>1, <2>2, ConstantsType
<1> QED
  BY <1>1, <1>2, <1>3, SweepAssumption DEF Regular, Busy

\* A tick adds one to sinceSweep and takes one from every clock it is added to:
\* no steady pod that is due is left asleep.
LEMMA TickRegular ==
    ASSUME TypeOK, Regular, Tick
    PROVE  Regular'
<1>1. sinceSweep \in Nat /\ sinceSweep' \in Nat /\ sinceSweep' <= sinceSweep + 1
  BY CappedClock, ConstantsType DEF TypeOK, Tick
<1>2. lock' > 0 => sinceSweep' + lock' <= LockTTL
  <2>1. lock' > 0 => lock > 0 /\ lock' = lock - 1
    BY ConstantsType DEF TypeOK, Tick, LockLeft
  <2>2. lock \in Nat
    BY ConstantsType DEF TypeOK
  <2>3. HAVE lock' > 0
  <2>4. sinceSweep + lock <= LockTTL
    BY <2>1, <2>3 DEF Regular
  <2>5. lock' = lock - 1
    BY <2>1, <2>3
  <2>6. PICK now \in Nat : now = sinceSweep' /\ now <= sinceSweep + 1
    BY <1>1
  <2>7. now + (lock - 1) <= LockTTL
    <3>1. sinceSweep \in Nat /\ now <= sinceSweep + 1
      BY <1>1, <2>6
    <3> QED
      BY <2>2, <2>4, <3>1, ConstantsType
  <2> QED
    BY <2>5, <2>6, <2>7
<1>3. \A w \in Sweepers : (Busy(w)' <=> Busy(w)) /\ (Busy(w) => sweep'[w].ran = sweep[w].ran + 1)
  BY DEF TypeOK, Tick, Busy, Sweeps
<1>4. ASSUME NEW p \in Pods, Busy(p)'
      PROVE  sinceSweep' <= sweep'[p].ran
  <2>1. Busy(p) /\ sweep'[p].ran = sweep[p].ran + 1 /\ sweep[p].ran \in 0..MaxRun
    BY <1>3, <1>4 DEF TypeOK, Sweeps, Sweepers
  <2>2. sinceSweep <= sweep[p].ran
    BY <2>1 DEF Regular
  <2> QED
    BY <1>1, <2>1, <2>2, ConstantsType
<1>5. ASSUME NEW p \in Steady, ~Busy(p)'
      PROVE  sinceSweep' + sleep'[p] <= GapBound
  <2>1. p \in Pods /\ p \in up /\ ~Busy(p)
    BY <1>3, <1>5, SweepAssumption DEF Regular, Sweepers
  <2>2. sleep[p] \in 0..SweepInterval /\ sleep[p] # 0 /\ sleep'[p] = sleep[p] - 1
    BY <2>1, ConstantsType DEF TypeOK, Tick, CountDown
  <2>3. sinceSweep + sleep[p] <= GapBound
    BY <2>1 DEF Regular
  <2> QED
    BY <1>1, <2>2, <2>3, ConstantsType
<1>6. up' = up
  BY DEF Tick
<1> QED
  BY <1>2, <1>4, <1>5, <1>6 DEF Regular

\* Every step keeps the next sweep within the gap.
LEMMA NextRegular ==
    ASSUME TypeOK, Regular, [Next]_vars
    PROVE  Regular'
<1>1. CASE \E p \in Pods : Wake(p)
  BY <1>1, WakeRegular
<1>2. ASSUME NEW admin \in Admins, TriggerSweep(admin)
      PROVE  Regular'
  <2>1. \A p \in Pods : sweep'[p] = sweep[p]
    BY <1>2, SweepAssumption DEF TriggerSweep, TypeOK, Sweepers
  <2> QED
    BY <1>2, <2>1, SweepAssumption DEF TriggerSweep, Regular, Busy
<1>3. CASE \E w \in Sweepers : ReadCustomers(w) \/ ReadIssues(w)
                                    \/ CheckBriefing(w) \/ InsertBriefing(w)
  BY <1>3, StepRegular
<1>4. CASE \E w \in Sweepers : FinishSweep(w) \/ RaiseSweep(w)
  BY <1>4, EndRegular DEF FinishSweep, RaiseSweep, Busy
<1>5. CASE Tick
  BY <1>5, TickRegular
<1>6. ASSUME NEW p \in Pods, Crash(p)
      PROVE  Regular'
  <2>1. /\ p \notin Steady /\ up' = up \ {p} /\ ~Busy(p)'
        /\ \A q \in Pods : q # p => sweep'[q] = sweep[q]
        /\ UNCHANGED <<sleep, lock, sinceSweep>>
    BY <1>6, SweepsType DEF Crash, TypeOK, Sweepers, Busy, history
  <2> QED
    BY <2>1, SweepAssumption DEF Regular, Busy
<1>7. ASSUME NEW p \in Pods, Restart(p)
      PROVE  Regular'
  <2>1. /\ p \notin Steady /\ up' = up \cup {p}
        /\ \A q \in Pods : q # p => sleep'[q] = sleep[q]
        /\ UNCHANGED <<sweep, lock, sinceSweep>>
    BY <1>7 DEF Restart, TypeOK, Regular, history
  <2> QED
    BY <2>1, SweepAssumption DEF Regular, Busy
<1>8. CASE UNCHANGED <<up, sleep, sweep, sinceSweep>> /\ lock' \in {lock, 0}
  BY <1>8 DEF Regular, Busy
<1>9. ASSUME \/ \E c \in Customers : AcknowledgeBriefing(c)
             \/ \E c \in Changing : CustomerChanges(c)
             \/ RedisRestarts
             \/ UNCHANGED vars
      PROVE  UNCHANGED <<up, sleep, sweep, sinceSweep>> /\ lock' \in {lock, 0}
  BY <1>9 DEF AcknowledgeBriefing, CustomerChanges, RedisRestarts, vars, history
<1> QED
  BY <1>1, <1>2, <1>3, <1>4, <1>5, <1>6, <1>7, <1>8, <1>9 DEF Next, SweepStep

\* With a pod that stays up, a sweep begins at least every SweepInterval + LockTTL,
\* or SweepInterval + the time a sweep lasts, if that is more; however often Redis
\* is out of reach or restarts, sweeps raise and the pods that hold the lock crash:
\* _sweep_worker sleeps a whole interval whether it swept or not, so that the lock
\* it met may expire just after.
THEOREM SweepsKeepComing ==
    ASSUME Steady # {}
    PROVE  Spec => []SweepGapBounded
<1>1. Init => Regular
  <2> SUFFICES ASSUME Init
               PROVE  Regular
    OBVIOUS
  <2>1. \A p \in Pods : ~Busy(p)
    BY SweepsType DEF Init, Busy, Sweepers
  <2>2. \A p \in Pods : sleep[p] \in 0..SweepInterval
    BY InitType DEF TypeOK
  <2> QED
    BY <2>1, <2>2, ConstantsType, SweepAssumption DEF Init, Regular
<1>2. TypeOK /\ Regular /\ [Next]_vars => Regular'
  BY NextRegular
<1>3. TypeOK /\ Regular => SweepGapBounded
  <2> SUFFICES ASSUME TypeOK, Regular
               PROVE  SweepGapBounded
    OBVIOUS
  <2>1. PICK p \in Steady : TRUE
    OBVIOUS
  <2>2. /\ p \in Pods /\ sinceSweep \in Nat
        /\ sleep[p] \in 0..SweepInterval
        /\ sweep[p].ran \in 0..MaxRun
    BY ConstantsType, SweepAssumption DEF TypeOK, Sweeps, Sweepers
  <2>3. CASE Busy(p)
    <3>1. sinceSweep <= sweep[p].ran
      BY <2>2, <2>3 DEF Regular
    <3> QED
      BY <2>2, <3>1, ConstantsType DEF SweepGapBounded
  <2>4. CASE ~Busy(p)
    <3>1. sinceSweep + sleep[p] <= GapBound
      BY <2>4 DEF Regular
    <3> QED
      BY <2>2, <3>1, ConstantsType DEF SweepGapBounded
  <2> QED
    BY <2>3, <2>4
<1> QED
  BY <1>1, <1>2, <1>3, TypeCorrect, PTL DEF Spec

-----------------------------------------------------------------------------
(* Duplicate briefings *)

\* The sweepers that have found the customer's board empty and are about to
\* insert a briefing.
Inserting(c) == {w \in Sweepers : sweep[w].at = "insert" /\ Current(w) = c}

\* A row and a sweeper about to insert one count alike: a sweeper joins the
\* second group only while there is no row.
RowsBounded ==
    \A c \in Customers :
        Len(board[c].recent) + Cardinality(Inserting(c)) <= Cardinality(Sweepers)

\* While the lock holds, the one sweeper that is about to insert still finds no
\* row.
LockHeld == ~unlocked /\ ~outlasted

RowsUnique ==
    LockHeld =>
        \A c \in Customers :
            /\ Len(board[c].recent) <= 1
            /\ Inserting(c) # {} => board[c].recent = <<>>

\* There are finitely many sweepers about to insert, and no more than sweepers;
\* and a board has a length.
LEMMA Counts ==
    ASSUME TypeOK, NEW c \in Customers
    PROVE  /\ Len(board[c].recent) \in Nat
           /\ board[c] \in Boards
           /\ board[c].recent = <<>> <=> Len(board[c].recent) = 0
           /\ IsFiniteSet(Inserting(c))
           /\ Cardinality(Inserting(c)) \in Nat
           /\ Cardinality(Inserting(c)) <= Cardinality(Sweepers)
           /\ Cardinality(Sweepers) \in Nat
<1>1. board[c] \in Boards /\ board[c].recent \in Seq(Rows)
  BY DEF TypeOK, Boards
<1>2. Inserting(c) \in SUBSET Sweepers
  BY DEF Inserting
<1>3. IsFiniteSet(Sweepers)
  BY SweepAssumption
<1>4. IsFiniteSet(Inserting(c)) /\ Cardinality(Inserting(c)) <= Cardinality(Sweepers)
  BY <1>2, <1>3, FS_Subset
<1>5. Cardinality(Inserting(c)) \in Nat /\ Cardinality(Sweepers) \in Nat
  BY <1>3, <1>4, FS_CardinalityType
<1>6. Len(board[c].recent) \in Nat /\ (board[c].recent = <<>> <=> Len(board[c].recent) = 0)
  BY <1>1, EmptySeq
<1> QED
  BY <1>1, <1>4, <1>5, <1>6

\* A step that makes no sweeper about to insert and no board longer.
Shrinks ==
    /\ \A w \in Sweepers : sweep'[w].at = "insert" =>
            sweep[w].at = "insert" /\ sweep'[w].todo = sweep[w].todo
    /\ \A c \in Customers : Len(board'[c].recent) <= Len(board[c].recent)
    /\ LockHeld' => LockHeld

\* Such a step disturbs neither count.
LEMMA ShrinkingKeeps ==
    ASSUME TypeOK, TypeOK', Shrinks, RowsBounded, RowsUnique
    PROVE  RowsBounded' /\ RowsUnique'
<1>1. ASSUME NEW c \in Customers
      PROVE  /\ Inserting(c)' \in SUBSET Inserting(c)
             /\ Cardinality(Inserting(c)') <= Cardinality(Inserting(c))
             /\ Cardinality(Inserting(c)') \in Nat
             /\ Len(board'[c].recent) \in Nat
             /\ board'[c].recent = <<>> <=> Len(board'[c].recent) = 0
  <2>1. Inserting(c)' \in SUBSET Inserting(c)
    BY DEF Inserting, Shrinks, Current
  <2>2. IsFiniteSet(Inserting(c))
    BY Counts
  <2>3. /\ IsFiniteSet(Inserting(c)')
        /\ Cardinality(Inserting(c)') <= Cardinality(Inserting(c))
    BY <2>1, <2>2, FS_Subset
  <2>4. Cardinality(Inserting(c)') \in Nat
    BY <2>3, FS_CardinalityType
  <2>5. board'[c].recent \in Seq(Rows)
    BY DEF TypeOK, Boards
  <2> QED
    BY <2>1, <2>3, <2>4, <2>5, EmptySeq
<1>2. RowsBounded'
  <2> SUFFICES ASSUME NEW c \in Customers
               PROVE  Len(board'[c].recent) + Cardinality(Inserting(c)')
                        <= Cardinality(Sweepers)
    BY DEF RowsBounded
  <2>1. Len(board[c].recent) + Cardinality(Inserting(c)) <= Cardinality(Sweepers)
    BY DEF RowsBounded
  <2>2. Len(board'[c].recent) <= Len(board[c].recent)
    BY DEF Shrinks
  <2> QED
    BY <1>1, <2>1, <2>2, Counts
<1>3. RowsUnique'
  <2> SUFFICES ASSUME LockHeld', NEW c \in Customers
               PROVE  /\ Len(board'[c].recent) <= 1
                      /\ Inserting(c)' # {} => board'[c].recent = <<>>
    BY DEF RowsUnique
  <2>1. /\ Len(board[c].recent) <= 1
        /\ Inserting(c) # {} => board[c].recent = <<>>
    BY DEF RowsUnique, Shrinks
  <2>2. Len(board'[c].recent) <= Len(board[c].recent)
    BY DEF Shrinks
  <2>3. Inserting(c)' # {} => Inserting(c) # {}
    BY <1>1
  <2> QED
    BY <1>1, <2>1, <2>2, <2>3, Counts
<1> QED
  BY <1>2, <1>3

\* A sweeper that finds the board empty joins those about to insert: they are
\* sweepers, and there is no row.
LEMMA CheckKeeps ==
    ASSUME TypeOK, TypeOK', RowsBounded, RowsUnique,
           NEW w \in Sweepers, CheckBriefing(w)
    PROVE  RowsBounded' /\ RowsUnique'
<1>1. CASE FindsDuplicate(w)
  <2>1. Shrinks
    BY <1>1 DEF CheckBriefing, Shrinks, TypeOK, Sweeps, LockHeld, history
  <2> QED
    BY <2>1, ShrinkingKeeps
<1>2. CASE ~FindsDuplicate(w)
  <2>1. /\ sweep' = [sweep EXCEPT ![w].at = "insert"]
        /\ board' = board /\ LockHeld' = LockHeld
    BY <1>2 DEF CheckBriefing, LockHeld, history
  <2>2. \A v \in Sweepers : Current(v)' = Current(v)
    BY <2>1 DEF TypeOK, Sweeps, Current
  <2>3. ASSUME NEW c \in Customers, c # Current(w)
        PROVE  Inserting(c)' = Inserting(c)
    <3>1. \A v \in Sweepers : v # w => sweep'[v].at = sweep[v].at
      BY <2>1 DEF TypeOK
    <3> QED
      BY <2>2, <2>3, <3>1 DEF Inserting
  <2>4. ASSUME NEW c \in Customers, c = Current(w)
        PROVE  board[c].recent = <<>> /\ Len(board[c].recent) = 0
    BY <1>2, <2>4, Counts DEF FindsDuplicate, Duplicate
  <2>5. \A c \in Customers : /\ Cardinality(Inserting(c)') \in Nat
                             /\ Cardinality(Inserting(c)') <= Cardinality(Sweepers)
                             /\ Cardinality(Sweepers) \in Nat
    <3>1. TAKE c \in Customers
    <3>2. Inserting(c)' \in SUBSET Sweepers
      BY DEF Inserting
    <3>3. IsFiniteSet(Sweepers)
      BY SweepAssumption
    <3>4. IsFiniteSet(Inserting(c)') /\ Cardinality(Inserting(c)') <= Cardinality(Sweepers)
      BY <3>2, <3>3, FS_Subset
    <3> QED
      BY <3>3, <3>4, FS_CardinalityType
  <2>6. RowsBounded'
    <3> SUFFICES ASSUME NEW c \in Customers
                 PROVE  Len(board[c].recent) + Cardinality(Inserting(c)')
                            <= Cardinality(Sweepers)
      BY <2>1 DEF RowsBounded
    <3>1. CASE c = Current(w)
      BY <2>4, <2>5, <3>1
    <3>2. CASE c # Current(w)
      BY <2>3, <3>2 DEF RowsBounded
    <3> QED
      BY <3>1, <3>2
  <2>7. RowsUnique'
    <3> SUFFICES ASSUME LockHeld, NEW c \in Customers
                 PROVE  /\ Len(board[c].recent) <= 1
                        /\ Inserting(c)' # {} => board[c].recent = <<>>
      BY <2>1 DEF RowsUnique
    <3>1. CASE c = Current(w)
      BY <2>4, <3>1
    <3>2. CASE c # Current(w)
      BY <2>3, <3>2 DEF RowsUnique
    <3> QED
      BY <3>1, <3>2
  <2> QED
    BY <2>6, <2>7
<1> QED
  BY <1>1, <1>2

\* A sweeper that inserts leaves those about to insert, and while the lock holds
\* it was the only one.
LEMMA InsertKeeps ==
    ASSUME TypeOK, TypeOK', Exclusive, RowsBounded, RowsUnique,
           NEW w \in Sweepers, InsertBriefing(w)
    PROVE  RowsBounded' /\ RowsUnique'
<1> DEFINE cur == Current(w)
<1>1. /\ sweep[w].at = "insert"
      /\ board' = [board EXCEPT ![cur] = Insert(@, NoIssue)]
      /\ sweep' = [sweep EXCEPT ![w].at = "check", ![w].todo = @ \ {cur}]
      /\ LockHeld' = LockHeld
  BY DEF InsertBriefing, LockHeld, history
<1> HIDE DEF cur
<1>2. \A v \in Sweepers : v # w => sweep'[v] = sweep[v] /\ Current(v)' = Current(v)
  BY <1>1 DEF TypeOK, Current
<1>3. sweep'[w].at = "check"
  BY <1>1 DEF TypeOK, Sweeps
<1>4. \A c \in Customers : Inserting(c)' = Inserting(c) \ {w}
  BY <1>2, <1>3 DEF Inserting
<1>5. \A c \in Customers : c # cur => board'[c] = board[c]
  BY <1>1 DEF TypeOK
<1>6. \A c \in Customers : c = cur => Len(board'[c].recent) = Len(board[c].recent) + 1
  <2>1. \A c \in Customers : c = cur => board'[c] = Insert(board[c], NoIssue)
    BY <1>1 DEF TypeOK
  <2> QED
    BY <2>1, Counts, InsertType, SweepAssumption
<1>7. \A c \in Customers : c = cur => w \in Inserting(c)
  BY <1>1 DEF Inserting, cur
<1>8. RowsBounded'
  <2> SUFFICES ASSUME NEW c \in Customers
               PROVE  Len(board'[c].recent) + Cardinality(Inserting(c)')
                        <= Cardinality(Sweepers)
    BY DEF RowsBounded
  <2>1. Len(board[c].recent) + Cardinality(Inserting(c)) <= Cardinality(Sweepers)
    BY DEF RowsBounded
  <2>2. Cardinality(Inserting(c) \ {w}) =
            IF w \in Inserting(c) THEN Cardinality(Inserting(c)) - 1
            ELSE Cardinality(Inserting(c))
    BY Counts, FS_RemoveElement
  <2>3. Cardinality(Inserting(c)') = Cardinality(Inserting(c) \ {w})
    BY <1>4
  <2>4. CASE c = cur
    <3>1. Len(board'[c].recent) = Len(board[c].recent) + 1
      BY <1>6, <2>4
    <3>2. Cardinality(Inserting(c)') = Cardinality(Inserting(c)) - 1
      BY <1>7, <2>2, <2>3, <2>4
    <3> QED
      BY <2>1, <3>1, <3>2, Counts
  <2>5. CASE c # cur
    <3>1. Len(board'[c].recent) = Len(board[c].recent)
      BY <1>5, <2>5
    <3>2. Cardinality(Inserting(c)') <= Cardinality(Inserting(c))
      BY <2>2, <2>3, Counts
    <3>3. Cardinality(Inserting(c)') \in Nat
      BY <2>2, <2>3, Counts, FS_EmptySet
    <3> QED
      BY <2>1, <3>1, <3>2, <3>3, Counts
  <2> QED
    BY <2>4, <2>5
<1>9. RowsUnique'
  <2> SUFFICES ASSUME LockHeld, NEW c \in Customers
               PROVE  /\ Len(board'[c].recent) <= 1
                      /\ Inserting(c)' # {} => board'[c].recent = <<>>
    BY <1>1 DEF RowsUnique
  <2>1. w \in Pods /\ \A v \in Sweepers : v # w => ~Busy(v)
    <3>1. Busy(w) /\ \A v \in Admins : ~Busy(v)
      BY <1>1 DEF Exclusive, Busy, LockHeld
    <3> QED
      BY <3>1 DEF Exclusive, LockHeld, Sweepers
  <2>2. Inserting(c)' = {}
    BY <1>4, <2>1 DEF Inserting, Busy
  <2>3. Len(board'[c].recent) <= 1
    <3>1. CASE c = cur
      <4>1. board[c].recent = <<>>
        BY <1>7, <3>1 DEF RowsUnique
      <4> QED
        BY <1>6, <3>1, <4>1, Counts
    <3>2. CASE c # cur
      BY <1>5, <3>2 DEF RowsUnique
    <3> QED
      BY <3>1, <3>2
  <2> QED
    BY <2>2, <2>3
<1> QED
  BY <1>8, <1>9

\* The steps that neither find a board empty nor insert.
LEMMA OthersShrink ==
    ASSUME TypeOK,
           \/ \E p \in Pods : Wake(p) \/ Crash(p) \/ Restart(p)
           \/ \E admin \in Admins : TriggerSweep(admin)
           \/ \E w \in Sweepers : \/ ReadCustomers(w) \/ ReadIssues(w)
                                  \/ FinishSweep(w) \/ RaiseSweep(w)
           \/ Tick
           \/ RedisRestarts
           \/ \E c \in Customers : AcknowledgeBriefing(c)
           \/ \E c \in Changing : CustomerChanges(c)
           \/ UNCHANGED vars
    PROVE  Shrinks
<1> USE DEF LockHeld, history
<1> DEFINE Still == \A c \in Customers : Len(board[c].recent) <= Len(board[c].recent)
<1>1. Still
  BY Counts
<1>2. ASSUME NEW p \in Pods, Wake(p)
      PROVE  Shrinks
  <2>1. UNCHANGED sweep \/ sweep' = [sweep EXCEPT ![p] = Begun]
    BY <1>2 DEF Wake
  <2>2. board' = board /\ (LockHeld' => LockHeld)
    BY <1>2 DEF Wake
  <2> QED
    BY <1>1, <2>1, <2>2, SweepsType DEF Shrinks, TypeOK
<1>3. ASSUME NEW p \in Pods, Crash(p)
      PROVE  Shrinks
  BY <1>1, <1>3, SweepsType DEF Crash, Shrinks, TypeOK
<1>4. ASSUME NEW p \in Pods, Restart(p)
      PROVE  Shrinks
  BY <1>1, <1>4 DEF Restart, Shrinks
<1>5. ASSUME NEW admin \in Admins, TriggerSweep(admin)
      PROVE  Shrinks
  BY <1>1, <1>5, SweepsType DEF TriggerSweep, Shrinks, TypeOK
<1>6. ASSUME NEW w \in Sweepers, ReadCustomers(w)
      PROVE  Shrinks
  BY <1>1, <1>6 DEF ReadCustomers, Shrinks, TypeOK, Sweeps
<1>7. ASSUME NEW w \in Sweepers, ReadIssues(w)
      PROVE  Shrinks
  BY <1>1, <1>7 DEF ReadIssues, Shrinks, TypeOK, Sweeps
<1>8. ASSUME NEW w \in Sweepers, FinishSweep(w) \/ RaiseSweep(w)
      PROVE  Shrinks
  BY <1>1, <1>8, SweepsType DEF FinishSweep, RaiseSweep, EndSweep, Shrinks, TypeOK
<1>9. CASE Tick
  <2>1. \A c \in Customers : Len(board'[c].recent) <= Len(board[c].recent)
    BY <1>9, Counts, AgedType DEF Tick
  <2>2. \A w \in Sweepers : sweep'[w].at = sweep[w].at /\ sweep'[w].todo = sweep[w].todo
    BY <1>9 DEF Tick, TypeOK, Sweeps
  <2> QED
    BY <1>9, <2>1, <2>2 DEF Tick, Shrinks
<1>10. ASSUME NEW c \in Customers, AcknowledgeBriefing(c)
       PROVE  Shrinks
  <2>1. PICK b \in Acknowledge(board[c]) : board' = [board EXCEPT ![c] = b]
    BY <1>10 DEF AcknowledgeBriefing
  <2>2. Len(b.recent) <= Len(board[c].recent)
    BY Counts, AcknowledgeType
  <2>3. \A d \in Customers : Len(board'[d].recent) <= Len(board[d].recent)
    BY <1>1, <2>1, <2>2 DEF TypeOK
  <2> QED
    BY <1>10, <2>3 DEF AcknowledgeBriefing, Shrinks
<1>11. ASSUME NEW c \in Changing, CustomerChanges(c)
       PROVE  Shrinks
  BY <1>1, <1>11 DEF CustomerChanges, Shrinks
<1>12. CASE UNCHANGED vars
  BY <1>1, <1>12 DEF vars, Shrinks
<1>13. CASE RedisRestarts
  BY <1>1, <1>13 DEF RedisRestarts, Shrinks
<1> QED
  BY <1>2, <1>3, <1>4, <1>5, <1>6, <1>7, <1>8, <1>9, <1>10, <1>11, <1>12, <1>13

\* No customer has two recent unacknowledged health_sweep briefings while every
\* sweep took the lock and ended within its time; once one has gone without it, lost
\* it with Redis or outlasted it, there are no more of them than sweepers: store_briefing's SELECT and INSERT are two steps of a session
\* with nothing between them that excludes another.
THEOREM DuplicatesExcluded == Spec => []NoDuplicateBriefings
<1>1. Init => RowsBounded /\ RowsUnique
  <2> SUFFICES ASSUME Init
               PROVE  RowsBounded /\ RowsUnique
    OBVIOUS
  <2>1. TypeOK
    BY InitType
  <2>2. \A c \in Customers : Inserting(c) = {}
    BY SweepsType DEF Init, Inserting
  <2>3. \A c \in Customers : board[c].recent = <<>>
    BY DEF Init, EmptyBoard
  <2>4. \A c \in Customers : Cardinality(Inserting(c)) = 0
    BY <2>2, FS_EmptySet
  <2> QED
    BY <2>1, <2>2, <2>3, <2>4, Counts DEF RowsBounded, RowsUnique
<1>2. /\ TypeOK /\ TypeOK' /\ Exclusive /\ RowsBounded /\ RowsUnique
      /\ [Next]_vars
      => RowsBounded' /\ RowsUnique'
  <2> SUFFICES ASSUME TypeOK, TypeOK', Exclusive, RowsBounded, RowsUnique, [Next]_vars
               PROVE  RowsBounded' /\ RowsUnique'
    OBVIOUS
  <2>1. CASE \E w \in Sweepers : CheckBriefing(w)
    BY <2>1, CheckKeeps
  <2>2. CASE \E w \in Sweepers : InsertBriefing(w)
    BY <2>2, InsertKeeps
  <2>3. CASE \/ \E p \in Pods : Wake(p) \/ Crash(p) \/ Restart(p)
             \/ \E admin \in Admins : TriggerSweep(admin)
             \/ \E w \in Sweepers : \/ ReadCustomers(w) \/ ReadIssues(w)
                                    \/ FinishSweep(w) \/ RaiseSweep(w)
             \/ Tick
             \/ RedisRestarts
             \/ \E c \in Customers : AcknowledgeBriefing(c)
             \/ \E c \in Changing : CustomerChanges(c)
             \/ UNCHANGED vars
    <3>1. Shrinks
      BY <2>3, OthersShrink
    <3> QED
      BY <3>1, ShrinkingKeeps
  <2> QED
    BY <2>1, <2>2, <2>3 DEF Next, SweepStep
<1>3. Init => Exclusive
  BY InitExcludes
<1>4. TypeOK /\ Exclusive /\ [Next]_vars => Exclusive'
  BY NextExcludes
<1>5. TypeOK /\ RowsBounded /\ RowsUnique => NoDuplicateBriefings
  BY Counts DEF RowsBounded, RowsUnique, NoDuplicateBriefings, LockHeld
<1> QED
  BY <1>1, <1>2, <1>3, <1>4, <1>5, TypeCorrect, PTL DEF Spec

=============================================================================
