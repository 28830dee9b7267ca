------------------------- MODULE ChurnSignalProofs --------------------------
(***************************************************************************)
(* Theorems of ChurnSignal, for any pods, number of customers and number   *)
(* of runs that raise; those on briefings while the lock is within reach.  *)
(***************************************************************************)
EXTENDS ChurnSignal, BriefingsProofs, NaturalsInduction

-----------------------------------------------------------------------------
(* Type correctness *)

\* The run has read the customers and is not through with them.
Working(p) == run[p].at \notin {"idle", "list"}

\* A run that works has a customer at hand.
TypeInv == TypeOK /\ \A p \in Pods : Working(p) => run[p].todo # {}

LEMMA RunsType ==
    /\ Idle \in Runs /\ Idle.at = "idle"
    /\ Health \subseteq Triggers
    /\ MaxFailures \in Nat /\ MaxFlags \in Nat
    /\ Customers # {}
<1>1. 1 \in Customers
  BY ChurnAssumption DEF Customers
<1> QED
  BY <1>1, ChurnAssumption DEF Runs, Idle, Health, MaxFlags

\* The customers are numbers, so that there is a first one of those to do.
LEMMA AtHand ==
    ASSUME NEW p, run[p] \in Runs, run[p].todo # {}
    PROVE  /\ Current(p) \in run[p].todo
           /\ Current(p) \in Customers
           /\ Seen(p) \in Health
<1> DEFINE todo == run[p].todo
           less == {pair \in Nat \X Nat : pair[1] < pair[2]}
<1>1. todo \subseteq Customers /\ todo # {}
  BY DEF Runs
<1> HIDE DEF todo
<1>2. todo \subseteq Nat
  BY <1>1, ChurnAssumption DEF Customers
<1>3. IsWellFoundedOn(less, Nat)
  BY NatLessThanWellFounded DEF OpToRel
<1>4. PICK least \in todo : \A other \in todo : ~(<<other, least>> \in less)
  BY <1>1, <1>2, <1>3, WFMin
<1>5. ASSUME NEW other \in todo
      PROVE  least =< other
  <2>1. other \in Nat /\ least \in Nat /\ <<other, least>> \in Nat \X Nat
    BY <1>2
  <2>2. ~(other < least)
    BY <1>4, <2>1
  <2> QED
    BY <2>1, <2>2
<1>6. Current(p) \in todo
  BY <1>5 DEF Current, Min, todo
<1> QED
  BY <1>1, <1>6 DEF Seen, Runs, todo

LEMMA InitType == Init => TypeInv
<1> SUFFICES ASSUME Init
             PROVE  TypeInv
  OBVIOUS
<1>1. board \in [Customers -> Boards]
  BY InsertType DEF Init
<1>2. /\ flags \in [Customers -> 0..MaxFlags]
      /\ failures \in 0..MaxFailures
  BY RunsType DEF Init
<1>3. run \in [Pods -> Runs] /\ \A p \in Pods : ~Working(p)
  BY RunsType DEF Init, Working
<1>4. /\ health \in [Customers -> Health]
      /\ snapshot \in [Customers -> Health \cup {NoSnapshot}]
      /\ told \in [Customers -> Health \cup {NoSnapshot}]
      /\ locked \in BOOLEAN
  BY DEF Init
<1> QED
  BY <1>1, <1>2, <1>3, <1>4 DEF TypeInv, TypeOK

LEMMA StepType ==
    ASSUME TypeInv, NEW p \in Pods, Wake(p) \/ RunStep(p) \/ FailRun(p)
    PROVE  TypeInv'
<1> USE RunsType
<1>0. run[p] \in Runs /\ \A q \in Pods : Working(q) => run[q].todo # {}
  BY DEF TypeInv, TypeOK
<1>1. CASE Wake(p)
  <2>1. run' \in [Pods -> Runs] /\ run'[p].at = "list" /\ locked' \in BOOLEAN
    BY <1>1, <1>0 DEF Wake, TypeInv, TypeOK, Runs
  <2>2. \A q \in Pods : q # p => run'[q] = run[q]
    BY <1>1 DEF Wake, TypeInv, TypeOK
  <2> QED
    BY <1>0, <1>1, <2>1, <2>2 DEF Wake, TypeInv, TypeOK, Working
<1>2. CASE ListCustomers(p)
  <2>1. run' \in [Pods -> Runs] /\ run'[p].todo = Customers
    BY <1>2, <1>0 DEF ListCustomers, TypeInv, TypeOK, Runs
  <2>2. \A q \in Pods : q # p => run'[q] = run[q]
    BY <1>2 DEF ListCustomers, TypeInv, TypeOK
  <2> QED
    BY <1>0, <1>2, <2>1, <2>2 DEF ListCustomers, TypeInv, TypeOK, Working
<1>3. CASE ReadSnapshot(p)
  <2>1. run[p].todo # {} /\ run[p].at = "previous"
    BY <1>0, <1>3 DEF ReadSnapshot, Working
  <2>2. snapshot[Current(p)] \in Health \cup {NoSnapshot}
    BY <1>0, <2>1, AtHand DEF TypeInv, TypeOK
  <2>3. run' \in [Pods -> Runs] /\ run'[p].todo = run[p].todo
    BY <1>3, <1>0, <2>2 DEF ReadSnapshot, TypeInv, TypeOK, Runs
  <2>4. \A q \in Pods : q # p => run'[q] = run[q]
    BY <1>3 DEF ReadSnapshot, TypeInv, TypeOK
  <2> QED
    BY <1>0, <1>3, <2>1, <2>3, <2>4 DEF ReadSnapshot, TypeInv, TypeOK, Working
<1>4. CASE CheckBriefing(p)
  <2>1. run[p].todo # {}
    BY <1>0, <1>4 DEF CheckBriefing, Working
  <2>2. run' \in [Pods -> Runs] /\ run'[p].todo = run[p].todo
    BY <1>4, <1>0 DEF CheckBriefing, TypeInv, TypeOK, Runs
  <2>3. \A q \in Pods : q # p => run'[q] = run[q]
    BY <1>4 DEF CheckBriefing, TypeInv, TypeOK
  <2> QED
    BY <1>0, <1>4, <2>1, <2>2, <2>3 DEF CheckBriefing, TypeInv, TypeOK, Working
<1>5. CASE InsertBriefing(p)
  <2>1. run[p].todo # {} /\ run[p].at = "insert"
    BY <1>0, <1>5 DEF InsertBriefing, Working
  <2>2. Current(p) \in Customers /\ Seen(p) \in Health
    BY <1>0, <2>1, AtHand
  <2>3. Insert(board[Current(p)], Seen(p)) \in Boards
    BY <2>2, InsertType DEF TypeInv, TypeOK
  <2>4. flags[Current(p)] + 1 \in 0..MaxFlags
    BY <1>5, <2>2 DEF InsertBriefing, TypeInv, TypeOK
  <2>5. /\ board' \in [Customers -> Boards]
        /\ flags' \in [Customers -> 0..MaxFlags]
        /\ told' \in [Customers -> Health \cup {NoSnapshot}]
    BY <1>5, <2>2, <2>3, <2>4 DEF InsertBriefing, TypeInv, TypeOK
  <2>6. run' \in [Pods -> Runs] /\ run'[p].todo = run[p].todo
    BY <1>5, <1>0 DEF InsertBriefing, TypeInv, TypeOK, Runs
  <2>7. \A q \in Pods : q # p => run'[q] = run[q]
    BY <1>5 DEF InsertBriefing, TypeInv, TypeOK
  <2> QED
    BY <1>0, <1>5, <2>1, <2>5, <2>6, <2>7 DEF InsertBriefing, TypeInv, TypeOK, Working
<1>6. CASE SaveSnapshot(p)
  <2>1. run[p].todo # {} /\ run[p].at = "save"
    BY <1>0, <1>6 DEF SaveSnapshot, Working
  <2>2. Current(p) \in Customers /\ Current(p) \in run[p].todo /\ Seen(p) \in Health
    BY <1>0, <2>1, AtHand
  <2>3. /\ snapshot' \in [Customers -> Health \cup {NoSnapshot}]
        /\ flags' \in [Customers -> 0..MaxFlags]
        /\ told' \in [Customers -> Health \cup {NoSnapshot}]
    BY <1>6, <2>2 DEF SaveSnapshot, NewSnapshot, TypeInv, TypeOK
  <2>4. /\ NextCustomer(p) \in Runs
        /\ NextCustomer(p).at \notin {"idle", "list"} => NextCustomer(p).todo # {}
    BY <1>0, <2>2 DEF NextCustomer, Runs
  <2>5. run' = [run EXCEPT ![p] = NextCustomer(p)]
    BY <1>6 DEF SaveSnapshot
  <2>6. /\ run' \in [Pods -> Runs]
        /\ run'[p] = NextCustomer(p)
        /\ \A q \in Pods : q # p => run'[q] = run[q]
    BY <2>4, <2>5 DEF TypeInv, TypeOK
  <2>7. \A q \in Pods : Working(q)' => run'[q].todo # {}
    BY <1>0, <2>4, <2>6 DEF Working
  <2> QED
    BY <1>6, <2>3, <2>6, <2>7 DEF SaveSnapshot, TypeInv, TypeOK
<1>7. CASE FailRun(p)
  <2>1. failures' \in 0..MaxFailures
    BY <1>7 DEF FailRun, TypeInv, TypeOK
  <2>2. /\ run' \in [Pods -> Runs]
        /\ run'[p].at = "idle"
        /\ \A q \in Pods : q # p => run'[q] = run[q]
    BY <1>7 DEF FailRun, TypeInv, TypeOK
  <2> QED
    BY <1>0, <1>7, <2>1, <2>2 DEF FailRun, TypeInv, TypeOK, Working
<1> QED
  BY <1>1, <1>2, <1>3, <1>4, <1>5, <1>6, <1>7 DEF RunStep

LEMMA EventType ==
    ASSUME TypeInv,
           \/ \E c \in Customers : AcknowledgeBriefing(c) \/ HealthChanges(c)
           \/ LockExpires \/ Tick \/ UNCHANGED vars
    PROVE  TypeInv'
<1>1. ASSUME NEW c \in Customers, AcknowledgeBriefing(c)
      PROVE  TypeInv'
  <2>1. PICK b \in Acknowledge(board[c]) : board' = [board EXCEPT ![c] = b]
    BY <1>1 DEF AcknowledgeBriefing
  <2>2. b \in Boards
    BY AcknowledgeType DEF TypeInv, TypeOK
  <2>3. board' \in [Customers -> Boards]
    BY <2>1, <2>2 DEF TypeInv, TypeOK
  <2> QED
    BY <1>1, <2>3 DEF AcknowledgeBriefing, TypeInv, TypeOK, Working
<1>2. ASSUME NEW c \in Customers, HealthChanges(c)
      PROVE  TypeInv'
  BY <1>2 DEF HealthChanges, TypeInv, TypeOK, Working
<1>3. CASE LockExpires
  BY <1>3 DEF LockExpires, TypeInv, TypeOK, Working
<1>4. CASE Tick
  <2>1. \A c \in Customers : Aged(board[c]) \in Boards
    BY AgedType DEF TypeInv, TypeOK
  <2>2. board' \in [Customers -> Boards]
    BY <1>4, <2>1 DEF Tick
  <2> QED
    BY <1>4, <2>2 DEF Tick, TypeInv, TypeOK, Working
<1>5. CASE UNCHANGED vars
  BY <1>5 DEF vars, TypeInv, TypeOK, Working
<1> QED
  BY <1>1, <1>2, <1>3, <1>4, <1>5

LEMMA NextType ==
    ASSUME TypeInv, [Next]_vars
    PROVE  TypeInv'
BY StepType, EventType DEF Next

\* The runs have a customer at hand while they work, and the boards of the churn
\* briefings stay in the order of age, with Redis up or down.
THEOREM TypeCorrect == Spec => []TypeOK
<1>1. Init => TypeInv
  BY InitType
<1>2. TypeInv /\ [Next]_vars => TypeInv'
  BY NextType
<1>3. TypeInv => TypeOK
  BY DEF TypeInv
<1> QED
  BY <1>1, <1>2, <1>3, PTL DEF Spec

-----------------------------------------------------------------------------
(* One run at a time *)

\* The lock excludes: while a run lasts, the lock is set and there is no other.
Alone ==
    /\ \A p \in Pods : Busy(p) => locked
    /\ \A p, q \in Pods : Busy(p) /\ Busy(q) => p = q

\* The customers that the run has yet to come to have no recent briefing.
NoneYet(p) ==
    \A c \in Customers :
        \/ run[p].at = "list"
        \/ Working(p) /\ c \in run[p].todo /\ ~(run[p].at = "save" /\ c = Current(p))
        => board[c].recent = <<>>

\* LockExpires waits until no briefing is recent, so a run finds none that it has
\* not stored itself.
Unbriefed ==
    /\ ~locked => \A c \in Customers : board[c].recent = <<>>
    /\ \A p \in Pods : NoneYet(p)

\* About to save the customer's snapshot.
Saving(p, c) == run[p].at = "save" /\ Current(p) = c

\* A briefing without a snapshot saved after it: that of a run which is about to
\* save, or one per run that raised in between.
FlagsCounted ==
    \A c \in Customers :
        /\ flags[c] <= 1 + failures
        /\ (\A p \in Pods : ~Saving(p, c)) => flags[c] <= failures

\* What a run has read is still the snapshot when it saves a new one; and if that
\* is worse, it has reported it.
ReportedBy(p) ==
    /\ run[p].at \in {"check", "insert", "save"} => run[p].previous = snapshot[Current(p)]
    /\ run[p].at = "save" /\ Worse(run[p].previous, Seen(p)) => told[Current(p)] = Seen(p)

Reported == \A p \in Pods : ReportedBy(p)

RunInv == Alone /\ Unbriefed /\ FlagsCounted /\ Reported

\* While a run lasts, all other pods are idle.
LEMMA OthersIdle ==
    ASSUME Alone, NEW p \in Pods, Busy(p)
    PROVE  locked /\ \A q \in Pods : q # p => run[q].at = "idle"
BY DEF Alone, Busy

\* After a step of a pod, while the others are idle, only the pod's own part of
\* the invariant is left to show.
LEMMA OwnPart ==
    ASSUME NEW p \in Pods,
           \A q \in Pods : q # p => run'[q].at = "idle",
           Busy(p)' => locked',
           ~locked' => \A c \in Customers : board'[c].recent = <<>>,
           NoneYet(p)',
           \A c \in Customers : /\ flags'[c] <= 1 + failures'
                                /\ ~Saving(p, c)' => flags'[c] <= failures',
           ReportedBy(p)'
    PROVE  RunInv'
<1>1. Alone'
  BY DEF Alone, Busy
<1>2. \A q \in Pods : q # p => NoneYet(q)' /\ ReportedBy(q)'
  BY DEF NoneYet, Working, ReportedBy
<1> QED
  BY <1>1, <1>2 DEF RunInv, Unbriefed, FlagsCounted, Reported

\* A run begins with the lock, hence when no briefing is recent.
LEMMA WakeKeeps ==
    ASSUME ~RedisDown, TypeInv, RunInv, NEW p \in Pods, Wake(p)
    PROVE  RunInv'
<1>1. /\ ~locked /\ locked' = TRUE
      /\ run' = [run EXCEPT ![p].at = "list"]
      /\ UNCHANGED <<board, flags, failures>>
  BY DEF Wake
<1>2. \A q \in Pods : run[q].at = "idle"
  BY <1>1 DEF RunInv, Alone, Busy
<1>3. \A q \in Pods : q # p => run'[q].at = "idle"
  BY <1>1, <1>2 DEF TypeInv, TypeOK
<1>4. run'[p].at = "list"
  BY <1>1 DEF TypeInv, TypeOK, Runs
<1>5. \A c \in Customers : board[c].recent = <<>>
  BY <1>1 DEF RunInv, Unbriefed
<1>6. \A c \in Customers : flags[c] <= 1 + failures /\ flags[c] <= failures
  BY <1>2 DEF RunInv, FlagsCounted, Saving
<1>7. NoneYet(p)' /\ ReportedBy(p)'
  BY <1>1, <1>4, <1>5 DEF NoneYet, ReportedBy
<1> QED
  BY <1>1, <1>3, <1>6, <1>7, OwnPart

\* A run that is not about to save leaves the counts of briefings alone until it
\* inserts one.
LEMMA NotSaving ==
    ASSUME RunInv, NEW p \in Pods, Busy(p), run[p].at # "save"
    PROVE  \A c \in Customers : flags[c] <= 1 + failures /\ flags[c] <= failures
BY OthersIdle DEF RunInv, FlagsCounted, Saving

LEMMA ListKeeps ==
    ASSUME TypeInv, RunInv, NEW p \in Pods, ListCustomers(p)
    PROVE  RunInv'
<1>1. /\ run[p].at = "list" /\ Busy(p)
      /\ run' = [run EXCEPT ![p].at = "previous", ![p].todo = Customers, ![p].seen = health]
      /\ UNCHANGED <<locked, board, flags, failures>>
  BY DEF ListCustomers, Busy
<1>2. locked /\ \A q \in Pods : q # p => run'[q].at = "idle"
  BY <1>1, OthersIdle DEF RunInv, TypeInv, TypeOK
<1>3. run'[p].at = "previous"
  BY <1>1 DEF TypeInv, TypeOK, Runs
<1>4. \A c \in Customers : board[c].recent = <<>>
  BY <1>1 DEF RunInv, Unbriefed, NoneYet
<1>5. NoneYet(p)' /\ ReportedBy(p)'
  BY <1>1, <1>3, <1>4 DEF NoneYet, ReportedBy
<1>6. \A c \in Customers : flags[c] <= 1 + failures /\ flags[c] <= failures
  BY <1>1, NotSaving
<1> QED
  BY <1>1, <1>2, <1>5, <1>6, OwnPart

LEMMA ReadKeeps ==
    ASSUME TypeInv, RunInv, NEW p \in Pods, ReadSnapshot(p)
    PROVE  RunInv'
<1>1. /\ run[p].at = "previous" /\ Busy(p) /\ Working(p)
      /\ UNCHANGED <<snapshot, locked, board, flags, failures, told>>
  BY DEF ReadSnapshot, Busy, Working
<1>2. locked /\ \A q \in Pods : q # p => run'[q].at = "idle"
  BY <1>1, OthersIdle DEF ReadSnapshot, RunInv, TypeInv, TypeOK
<1>3. /\ run'[p].at = IF Worse(snapshot[Current(p)], Seen(p)) THEN "check" ELSE "save"
      /\ run'[p].previous = snapshot[Current(p)]
      /\ run'[p].todo = run[p].todo
      /\ run'[p].seen = run[p].seen
  BY DEF ReadSnapshot, TypeInv, TypeOK, Runs
<1>4. Current(p)' = Current(p) /\ Seen(p)' = Seen(p)
  BY <1>3 DEF Current, Seen
<1>5. NoneYet(p)'
  BY <1>1, <1>3 DEF NoneYet, RunInv, Unbriefed
<1>6. ReportedBy(p)'
  BY <1>1, <1>3, <1>4 DEF ReportedBy
<1>7. \A c \in Customers : flags[c] <= 1 + failures /\ flags[c] <= failures
  BY <1>1, NotSaving
<1> QED
  BY <1>1, <1>2, <1>5, <1>6, <1>7, OwnPart

\* The customer at hand has no recent briefing, so the run goes on to insert one.
LEMMA CheckKeeps ==
    ASSUME TypeInv, RunInv, NEW p \in Pods, CheckBriefing(p)
    PROVE  RunInv'
<1>1. /\ run[p].at = "check" /\ Busy(p) /\ Working(p)
      /\ UNCHANGED <<snapshot, locked, board, flags, failures, told>>
  BY DEF CheckBriefing, Busy, Working
<1>2. locked /\ \A q \in Pods : q # p => run'[q].at = "idle"
  BY <1>1, OthersIdle DEF CheckBriefing, RunInv, TypeInv, TypeOK
<1>3. Current(p) \in run[p].todo /\ Current(p) \in Customers
  BY <1>1, AtHand DEF TypeInv, TypeOK
<1>4. ~Duplicate(board[Current(p)])
  BY <1>1, <1>3 DEF NoneYet, RunInv, Unbriefed, Duplicate
<1>5. /\ run'[p].at = "insert"
      /\ run'[p].previous = run[p].previous
      /\ run'[p].todo = run[p].todo
      /\ run'[p].seen = run[p].seen
  BY <1>4 DEF CheckBriefing, TypeInv, TypeOK, Runs
<1>6. Current(p)' = Current(p)
  BY <1>5 DEF Current
<1>7. NoneYet(p)'
  BY <1>1, <1>5 DEF NoneYet, RunInv, Unbriefed
<1>8. ReportedBy(p)'
  BY <1>1, <1>5, <1>6 DEF ReportedBy, RunInv, Reported
<1>9. \A c \in Customers : flags[c] <= 1 + failures /\ flags[c] <= failures
  BY <1>1, NotSaving
<1> QED
  BY <1>1, <1>2, <1>7, <1>8, <1>9, OwnPart

\* The briefing inserted is the one of the run that is now about to save.
LEMMA InsertKeeps ==
    ASSUME TypeInv, RunInv, NEW p \in Pods, InsertBriefing(p)
    PROVE  RunInv'
<1>1. /\ run[p].at = "insert" /\ Busy(p) /\ Working(p)
      /\ board' = [board EXCEPT ![Current(p)] = Insert(@, Seen(p))]
      /\ flags' = [flags EXCEPT ![Current(p)] = @ + 1]
      /\ told' = [told EXCEPT ![Current(p)] = Seen(p)]
      /\ UNCHANGED <<snapshot, locked, failures>>
  BY DEF InsertBriefing, Busy, Working
<1>2. locked /\ \A q \in Pods : q # p => run'[q].at = "idle"
  BY <1>1, OthersIdle DEF InsertBriefing, RunInv, TypeInv, TypeOK
<1>3. Current(p) \in Customers
  BY <1>1, AtHand DEF TypeInv, TypeOK
<1>4. /\ run'[p].at = "save"
      /\ run'[p].previous = run[p].previous
      /\ run'[p].todo = run[p].todo
      /\ run'[p].seen = run[p].seen
  BY DEF InsertBriefing, TypeInv, TypeOK, Runs
<1>5. Current(p)' = Current(p) /\ Seen(p)' = Seen(p)
  BY <1>4 DEF Current, Seen
<1>6. NoneYet(p)'
  <2>1. \A c \in Customers : c # Current(p) => board'[c] = board[c]
    BY <1>1 DEF TypeInv, TypeOK
  <2> QED
    BY <1>1, <1>4, <1>5, <2>1 DEF NoneYet, RunInv, Unbriefed
<1>7. ReportedBy(p)'
  <2>1. told'[Current(p)] = Seen(p)
    BY <1>1, <1>3 DEF TypeInv, TypeOK
  <2>2. run[p].previous = snapshot[Current(p)]
    BY <1>1 DEF RunInv, Reported, ReportedBy
  <2> QED
    BY <1>1, <1>4, <1>5, <2>1, <2>2 DEF ReportedBy
<1>8. ASSUME NEW c \in Customers
      PROVE  flags'[c] <= 1 + failures' /\ (~Saving(p, c)' => flags'[c] <= failures')
  <2>1. flags[c] <= failures /\ flags[c] \in Nat /\ failures \in Nat
    BY <1>1, NotSaving, RunsType DEF TypeInv, TypeOK
  <2>2. flags'[c] = IF c = Current(p) THEN flags[c] + 1 ELSE flags[c]
    BY <1>1 DEF TypeInv, TypeOK
  <2>3. Saving(p, c)' <=> c = Current(p)
    BY <1>4, <1>5 DEF Saving
  <2> QED
    BY <1>1, <2>1, <2>2, <2>3
<1> QED
  BY <1>1, <1>2, <1>6, <1>7, <1>8, OwnPart

\* The snapshot saved, the count begins anew and the customer is done.
LEMMA SaveKeeps ==
    ASSUME TypeInv, RunInv, NEW p \in Pods, SaveSnapshot(p)
    PROVE  RunInv'
<1>1. /\ run[p].at = "save" /\ Busy(p) /\ Working(p)
      /\ run' = [run EXCEPT ![p] = NextCustomer(p)]
      /\ flags' = [flags EXCEPT ![Current(p)] = 0]
      /\ UNCHANGED <<locked, board, failures>>
  BY DEF SaveSnapshot, NewSnapshot, Busy, Working
<1>2. locked /\ \A q \in Pods : q # p => run'[q].at = "idle"
  BY <1>1, OthersIdle DEF RunInv, TypeInv, TypeOK
<1>3. run'[p] = NextCustomer(p) /\ run[p] \in Runs
  BY <1>1 DEF TypeInv, TypeOK
<1>4. \/ run'[p].at = "idle"
      \/ run'[p].at = "previous" /\ run'[p].todo = run[p].todo \ {Current(p)}
  BY <1>3, RunsType DEF NextCustomer, Runs
<1>5. NoneYet(p)'
  BY <1>1, <1>4 DEF NoneYet, Working, RunInv, Unbriefed
<1>6. ReportedBy(p)'
  BY <1>4 DEF ReportedBy
<1>7. ASSUME NEW c \in Customers
      PROVE  flags'[c] <= 1 + failures' /\ flags'[c] <= failures'
  <2>1. flags[c] \in Nat /\ failures \in Nat
    BY RunsType DEF TypeInv, TypeOK
  <2>2. CASE c = Current(p)
    BY <1>1, <2>1, <2>2 DEF TypeInv, TypeOK
  <2>3. CASE c # Current(p)
    <3>1. \A q \in Pods : ~Saving(q, c)
      BY <1>1, <2>3, OthersIdle DEF Saving, RunInv
    <3>2. flags'[c] = flags[c]
      BY <1>1, <2>3 DEF TypeInv, TypeOK
    <3> QED
      BY <1>1, <2>1, <3>1, <3>2 DEF RunInv, FlagsCounted
  <2> QED
    BY <2>2, <2>3
<1> QED
  BY <1>1, <1>2, <1>5, <1>6, <1>7, OwnPart

\* A run that raises leaves at most one briefing without its snapshot.
LEMMA FailKeeps ==
    ASSUME TypeInv, RunInv, NEW p \in Pods, FailRun(p)
    PROVE  RunInv'
<1>1. /\ Busy(p)
      /\ failures' = failures + 1
      /\ run' = [run EXCEPT ![p] = Idle]
      /\ UNCHANGED <<locked, board, flags>>
  BY DEF FailRun
<1>2. locked /\ \A q \in Pods : q # p => run'[q].at = "idle"
  BY <1>1, OthersIdle DEF RunInv, TypeInv, TypeOK
<1>3. run'[p].at = "idle"
  BY <1>1, RunsType DEF TypeInv, TypeOK
<1>4. NoneYet(p)' /\ ReportedBy(p)'
  BY <1>3 DEF NoneYet, Working, ReportedBy
<1>5. ASSUME NEW c \in Customers
      PROVE  flags'[c] <= 1 + failures' /\ flags'[c] <= failures'
  <2>1. flags[c] \in Nat /\ failures \in Nat /\ flags[c] <= 1 + failures
    BY RunsType DEF TypeInv, TypeOK, RunInv, FlagsCounted
  <2> QED
    BY <1>1, <2>1
<1> QED
  BY <1>1, <1>2, <1>4, <1>5, OwnPart

\* The steps of others leave the runs alone and store no briefing.
LEMMA EventKeeps ==
    ASSUME TypeInv, RunInv,
           \/ \E c \in Customers : AcknowledgeBriefing(c) \/ HealthChanges(c)
           \/ LockExpires \/ Tick \/ UNCHANGED vars
    PROVE  RunInv'
<1>1. UNCHANGED <<run, snapshot, flags, failures, told>>
  BY DEF AcknowledgeBriefing, HealthChanges, LockExpires, Tick, vars
<1>2. \A c \in Customers : board[c].recent = <<>> => board'[c].recent = <<>>
  <2>1. ASSUME NEW b \in Boards, NEW d \in Boards, b.recent = <<>>,
               Len(d.recent) <= Len(b.recent)
        PROVE  d.recent = <<>>
    <3>1. d.recent \in Seq(Rows) /\ Len(b.recent) = 0
      BY <2>1 DEF Boards
    <3>2. Len(d.recent) = 0
      BY <2>1, <3>1
    <3> QED
      BY <3>1, <3>2, EmptySeq
  <2>2. \A c \in Customers : board[c] \in Boards
    BY DEF TypeInv, TypeOK
  <2>3. ASSUME NEW c \in Customers, AcknowledgeBriefing(c), NEW d \in Customers,
               board[d].recent = <<>>
        PROVE  board'[d].recent = <<>>
    <3>1. PICK b \in Acknowledge(board[c]) : board' = [board EXCEPT ![c] = b]
      BY <2>3 DEF AcknowledgeBriefing
    <3>2. b \in Boards /\ Len(b.recent) <= Len(board[c].recent)
      BY <2>2, AcknowledgeType
    <3>3. board'[d] = IF d = c THEN b ELSE board[d]
      BY <3>1 DEF TypeInv, TypeOK
    <3> QED
      BY <2>1, <2>2, <2>3, <3>2, <3>3
  <2>4. CASE Tick
    <3>1. \A c \in Customers : /\ board'[c] = Aged(board[c])
                               /\ Aged(board[c]) \in Boards
                               /\ Len(Aged(board[c]).recent) <= Len(board[c].recent)
      BY <2>2, <2>4, AgedType DEF Tick
    <3> QED
      BY <2>1, <2>2, <3>1
  <2>5. ASSUME (\E c \in Customers : HealthChanges(c)) \/ LockExpires \/ UNCHANGED vars
        PROVE  board' = board
    BY <2>5 DEF HealthChanges, LockExpires, vars
  <2> QED
    BY <2>3, <2>4, <2>5
<1>3. \/ UNCHANGED locked
      \/ LockExpires
  BY DEF AcknowledgeBriefing, HealthChanges, Tick, vars
<1>4. Alone'
  BY <1>1, <1>3 DEF RunInv, Alone, Busy, LockExpires
<1>5. Unbriefed'
  <2>1. ~locked' => \A c \in Customers : board[c].recent = <<>>
    BY <1>3 DEF RunInv, Unbriefed, LockExpires
  <2>2. \A p \in Pods : NoneYet(p)'
    BY <1>1, <1>2 DEF RunInv, Unbriefed, NoneYet, Working, Current
  <2> QED
    BY <1>2, <2>1, <2>2 DEF Unbriefed
<1>6. FlagsCounted' /\ Reported'
  BY <1>1 DEF RunInv, FlagsCounted, Saving, Reported, ReportedBy, Current, Seen
<1> QED
  BY <1>4, <1>5, <1>6 DEF RunInv

LEMMA RunKeeps ==
    ASSUME ~RedisDown, TypeInv, RunInv, [Next]_vars
    PROVE  RunInv'
BY WakeKeeps, ListKeeps, ReadKeeps, CheckKeeps, InsertKeeps, SaveKeeps, FailKeeps, EventKeeps
   DEF Next, RunStep

LEMMA RunBegins == Init => RunInv
<1> SUFFICES ASSUME Init
             PROVE  RunInv
  OBVIOUS
<1>1. \A p \in Pods : run[p].at = "idle"
  BY RunsType DEF Init
<1>2. \A c \in Customers : board[c].recent = <<>> /\ flags[c] = 0
  BY DEF Init, EmptyBoard
<1>3. Alone /\ Reported
  BY <1>1 DEF Alone, Busy, Reported, ReportedBy
<1>4. Unbriefed
  BY <1>2 DEF Unbriefed, NoneYet
<1>5. FlagsCounted
  BY <1>2 DEF FlagsCounted, Init
<1> QED
  BY <1>3, <1>4, <1>5 DEF RunInv

-----------------------------------------------------------------------------
(* The theorems *)

\* While Redis is up, no transition is briefed twice before its snapshot is saved,
\* but for one more after each run that raised: the lock of 23 hours keeps runs
\* apart, and each saves the customer's snapshot before it goes on to the next.
THEOREM BriefedOnce ==
    ASSUME ~RedisDown
    PROVE  Spec => []TransitionBriefedOnce
<1>1. Init => TypeInv /\ RunInv
  BY InitType, RunBegins
<1>2. TypeInv /\ RunInv /\ [Next]_vars => TypeInv' /\ RunInv'
  BY NextType, RunKeeps
<1>3. RunInv => TransitionBriefedOnce
  BY DEF RunInv, FlagsCounted, TransitionBriefedOnce
<1> QED
  BY <1>1, <1>2, <1>3, PTL DEF Spec

\* While Redis is up, a snapshot becomes worse only when a briefing has reported
\* the customer's new health: what store_briefing finds is never a briefing of an
\* earlier run, which would let the transition pass unreported.
THEOREM WorseningBriefed ==
    ASSUME ~RedisDown
    PROVE  Spec => EachTransitionBriefed
<1>1. Init => TypeInv /\ RunInv
  BY InitType, RunBegins
<1>2. TypeInv /\ RunInv /\ [Next]_vars => TypeInv' /\ RunInv'
  BY NextType, RunKeeps
<1> DEFINE Told == \A c \in Customers : Worse(snapshot[c], snapshot'[c]) => told[c] = snapshot'[c]
<1>3. \A h, g \in Health \cup {NoSnapshot} : Worse(h, g) => h # g
  BY DEF Worse
<1>4. TypeInv /\ RunInv /\ [Next]_vars => [Told]_vars
  <2> SUFFICES ASSUME TypeInv, RunInv, [Next]_vars, NEW c \in Customers,
                      Worse(snapshot[c], snapshot'[c])
               PROVE  told[c] = snapshot'[c]
    OBVIOUS
  <2>1. TypeInv'
    BY NextType
  <2>2. snapshot[c] # snapshot'[c]
    BY <1>3, <2>1 DEF TypeInv, TypeOK
  <2>3. PICK p \in Pods : SaveSnapshot(p)
    BY <2>2 DEF Next, Wake, RunStep, ListCustomers, ReadSnapshot, CheckBriefing, InsertBriefing,
                FailRun, AcknowledgeBriefing, HealthChanges, LockExpires, Tick, vars
  <2>4. run[p].at = "save" /\ snapshot' = [snapshot EXCEPT ![Current(p)] = Seen(p)]
    BY <2>3 DEF SaveSnapshot, NewSnapshot
  <2>5. c = Current(p) /\ snapshot'[c] = Seen(p)
    BY <2>2, <2>4 DEF TypeInv, TypeOK
  <2>6. run[p].previous = snapshot[c]
    BY <2>4, <2>5 DEF RunInv, Reported, ReportedBy
  <2> QED
    BY <2>4, <2>5, <2>6 DEF RunInv, Reported, ReportedBy
<1>5. EachTransitionBriefed <=> [][Told]_vars
  BY DEF EachTransitionBriefed, Worse
<1> QED
  BY <1>1, <1>2, <1>4, <1>5, PTL DEF Spec

=============================================================================
