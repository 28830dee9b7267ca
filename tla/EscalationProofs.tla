-------------------------- MODULE EscalationProofs --------------------------
(***************************************************************************)
(* Theorems of Escalation, for any pods, issues and customers, and queues  *)
(* of any length.                                                          *)
(***************************************************************************)
EXTENDS Escalation, BriefingsProofs

-----------------------------------------------------------------------------
(* Type correctness *)

\* What a listener may be doing, and for which customer.
LEMMA HandlersType ==
    /\ Idle \in Handlers /\ Idle.at = "idle"
    /\ \A i \in Issues, at \in {"read", "check", "insert"} :
            [at |-> at, issue |-> i] \in Handlers
    /\ \A h \in Handlers : h.at # "idle" =>
            /\ h.issue \in Issues
            /\ h = [at |-> h.at, issue |-> h.issue]
            /\ CustomerOf[h.issue] \in Customers
BY EscalationAssumption DEF Handlers, Idle

LEMMA InitType == Init => TypeOK
<1> SUFFICES ASSUME Init
             PROVE  TypeOK
  OBVIOUS
<1>1. EmptyBoard \in Boards
  BY InsertType
<1> QED
  BY <1>1, HandlersType DEF Init, TypeOK

\* A listener that goes on holds on to its issue.
LEMMA GoOnType ==
    ASSUME TypeOK, NEW p \in Pods, ~Handling(p, "idle"), NEW at \in {"read", "check", "insert"},
           handler' = [handler EXCEPT ![p].at = at]
    PROVE  /\ handler' \in [Pods -> Handlers]
           /\ handler'[p] = [at |-> at, issue |-> handler[p].issue]
<1>1. handler[p] \in Handlers /\ handler[p].at # "idle"
  BY DEF TypeOK, Handling
<1>2. handler[p].issue \in Issues /\ handler[p] = [at |-> handler[p].at, issue |-> handler[p].issue]
  BY <1>1, HandlersType
<1>3. [handler[p] EXCEPT !.at = at] = [at |-> at, issue |-> handler[p].issue]
  BY <1>2
<1>4. [handler[p] EXCEPT !.at = at] \in Handlers
  BY <1>2, <1>3, HandlersType
<1> QED
  BY <1>3, <1>4 DEF TypeOK

LEMMA ListenerType ==
    ASSUME TypeOK, NEW p \in Pods, Listener(p)
    PROVE  TypeOK'
<1> USE HandlersType
<1>1. CASE TakeNotification(p)
  <2>1. queue[p] \in Seq(Issues) /\ queue[p] # <<>>
    BY <1>1 DEF TakeNotification, TypeOK
  <2>2. Head(queue[p]) \in Issues /\ Tail(queue[p]) \in Seq(Issues)
    BY <2>1, HeadTailProperties
  <2>3. [at |-> "read", issue |-> Head(queue[p])] \in Handlers
    BY <2>2
  <2>4. queue' \in [Pods -> Seq(Issues)] /\ handler' \in [Pods -> Handlers]
    BY <1>1, <2>2, <2>3 DEF TakeNotification, TypeOK
  <2> QED
    BY <1>1, <2>4 DEF TakeNotification, TypeOK
<1>2. CASE ReadIssue(p)
  <2>1. handler' \in [Pods -> Handlers]
    <3>1. CASE Urgent(handler[p].issue)
      BY <1>2, <3>1, GoOnType DEF ReadIssue, Handling
    <3>2. CASE ~Urgent(handler[p].issue)
      BY <1>2, <3>2 DEF ReadIssue, TypeOK
    <3> QED
      BY <3>1, <3>2
  <2> QED
    BY <1>2, <2>1 DEF ReadIssue, TypeOK
<1>3. CASE CheckBriefing(p)
  <2>1. handler' \in [Pods -> Handlers] /\ unseen' \subseteq Issues
    <3>1. CASE FindsDuplicate(p)
      BY <1>3, <3>1 DEF CheckBriefing, TypeOK
    <3>2. CASE ~FindsDuplicate(p)
      BY <1>3, <3>2, GoOnType DEF CheckBriefing, Handling, TypeOK
    <3> QED
      BY <3>1, <3>2
  <2> QED
    BY <1>3, <2>1 DEF CheckBriefing, TypeOK
<1>4. CASE InsertBriefing(p)
  <2>1. handler[p] \in Handlers /\ handler[p].at = "insert"
    BY <1>4 DEF InsertBriefing, Handling, TypeOK
  <2>2. CustomerOf[handler[p].issue] \in Customers /\ handler[p].issue \in Triggers
    BY <2>1, EscalationAssumption
  <2>3. Insert(board[CustomerOf[handler[p].issue]], handler[p].issue) \in Boards
    BY <2>2, InsertType DEF TypeOK
  <2>4. /\ board' \in [Customers -> Boards]
        /\ handler' \in [Pods -> Handlers]
        /\ unseen' \subseteq Issues
    BY <1>4, <2>2, <2>3 DEF InsertBriefing, TypeOK
  <2> QED
    BY <1>4, <2>4 DEF InsertBriefing, TypeOK
<1> QED
  BY <1>1, <1>2, <1>3, <1>4 DEF Listener

LEMMA NextType ==
    ASSUME TypeOK, [Next]_vars
    PROVE  TypeOK'
<1> USE HandlersType
<1>1. ASSUME NEW i \in Issues, AddNote(i)
      PROVE  TypeOK'
  <2>1. \A p \in Pods : Append(queue[p], i) \in Seq(Issues)
    BY AppendProperties DEF TypeOK
  <2>2. queue' \in [Pods -> Seq(Issues)]
    BY <1>1, <2>1 DEF AddNote, TypeOK
  <2>3. unseen' \subseteq Issues
    BY <1>1 DEF AddNote, TypeOK
  <2> QED
    BY <1>1, <2>2, <2>3 DEF AddNote, TypeOK
<1>2. ASSUME NEW i \in Issues, IssueChanges(i)
      PROVE  TypeOK'
  <2>1. urgent' \subseteq Issues /\ unseen' \subseteq Issues
    BY <1>2 DEF IssueChanges, TypeOK
  <2> QED
    BY <1>2, <2>1 DEF IssueChanges, TypeOK
<1>3. ASSUME NEW p \in Pods, FailHandler(p) \/ LoseConnection(p) \/ StopPod(p) \/ Reconnect(p)
      PROVE  TypeOK'
  <2>1. <<>> \in Seq(Issues)
    OBVIOUS
  <2> QED
    BY <1>3, <2>1 DEF FailHandler, LoseConnection, StopPod, Reconnect, TypeOK
<1>4. ASSUME NEW c \in Customers, AcknowledgeBriefing(c)
      PROVE  TypeOK'
  <2>1. PICK b \in Acknowledge(board[c]) : board' = [board EXCEPT ![c] = b]
    BY <1>4 DEF AcknowledgeBriefing
  <2>2. b \in Boards
    BY AcknowledgeType DEF TypeOK
  <2>3. board' \in [Customers -> Boards]
    BY <2>1, <2>2 DEF TypeOK
  <2> QED
    BY <1>4, <2>3 DEF AcknowledgeBriefing, TypeOK
<1>5. CASE Tick
  <2>1. \A c \in Customers : Aged(board[c]) \in Boards
    BY AgedType DEF TypeOK
  <2>2. board' \in [Customers -> Boards]
    BY <1>5, <2>1 DEF Tick
  <2> QED
    BY <1>5, <2>2 DEF Tick, TypeOK
<1>6. CASE UNCHANGED vars
  BY <1>6 DEF vars, TypeOK
<1> QED
  BY <1>1, <1>2, <1>3, <1>4, <1>5, <1>6, ListenerType DEF Next

\* The notifications of a listener are of issues, and the boards of the
\* escalation briefings stay in the order of age.
THEOREM TypeCorrect == Spec => []TypeOK
<1>1. Init => TypeOK
  BY InitType
<1>2. TypeOK /\ [Next]_vars => TypeOK'
  BY NextType
<1> QED
  BY <1>1, <1>2, PTL DEF Spec

-----------------------------------------------------------------------------
(* Duplicate briefings *)

\* The pods that have found the customer's board empty and are about to insert a
\* briefing.
Inserting(c) == {p \in Pods : Handling(p, "insert") /\ CustomerOf[handler[p].issue] = c}

\* A row and a pod about to insert one count alike: a pod joins the second group
\* only while there is no row, and by its insert it leaves that group.
RowsBounded ==
    \A c \in Customers :
        Len(board[c].recent) + Cardinality(Inserting(c)) <= Cardinality(Pods)

\* Sets of pods are finite, and a board has a length.
LEMMA Counts ==
    /\ Cardinality(Pods) \in Nat
    /\ \A ps \in SUBSET Pods : /\ IsFiniteSet(ps)
                               /\ Cardinality(ps) \in Nat
                               /\ Cardinality(ps) <= Cardinality(Pods)
    /\ \A b \in Boards : /\ Len(b.recent) \in Nat
                         /\ b.recent = <<>> <=> Len(b.recent) = 0
<1>1. IsFiniteSet(Pods)
  BY EscalationAssumption
<1>2. \A ps \in SUBSET Pods : IsFiniteSet(ps) /\ Cardinality(ps) <= Cardinality(Pods)
  BY <1>1, FS_Subset
<1>3. \A ps \in SUBSET Pods : Cardinality(ps) \in Nat
  BY <1>2, FS_CardinalityType
<1>4. \A b \in Boards : b.recent \in Seq(Rows)
  BY DEF Boards
<1>5. \A b \in Boards : Len(b.recent) \in Nat /\ (b.recent = <<>> <=> Len(b.recent) = 0)
  BY <1>4, EmptySeq
<1> QED
  BY <1>1, <1>2, <1>3, <1>5, FS_CardinalityType

\* A step that makes no pod about to insert and no board longer.
Shrinks ==
    /\ \A p \in Pods : handler'[p].at = "insert" => handler'[p] = handler[p]
    /\ \A c \in Customers : Len(board'[c].recent) <= Len(board[c].recent)

LEMMA ShrinkingKeeps ==
    ASSUME TypeOK, TypeOK', Shrinks, RowsBounded
    PROVE  RowsBounded'
<1> SUFFICES ASSUME NEW c \in Customers
             PROVE  Len(board'[c].recent) + Cardinality(Inserting(c)') <= Cardinality(Pods)
  BY DEF RowsBounded
<1>1. Inserting(c)' \in SUBSET Inserting(c) /\ Inserting(c) \in SUBSET Pods
  BY DEF Inserting, Handling, Shrinks
<1>2. IsFiniteSet(Inserting(c)) /\ Inserting(c)' \in SUBSET Pods
  BY <1>1, Counts
<1>3. Cardinality(Inserting(c)') <= Cardinality(Inserting(c))
  BY <1>1, <1>2, FS_Subset
<1>4. Cardinality(Inserting(c)') \in Nat /\ Cardinality(Inserting(c)) \in Nat
  BY <1>1, <1>2, Counts
<1>5. Len(board[c].recent) \in Nat /\ Len(board'[c].recent) \in Nat
  BY Counts DEF TypeOK
<1>6. Len(board'[c].recent) <= Len(board[c].recent)
  BY DEF Shrinks
<1>7. Len(board[c].recent) + Cardinality(Inserting(c)) <= Cardinality(Pods)
  BY DEF RowsBounded
<1> QED
  BY <1>3, <1>4, <1>5, <1>6, <1>7, Counts

\* A pod that finds the board empty joins those about to insert: they are pods,
\* and there is no row.
LEMMA CheckKeeps ==
    ASSUME TypeOK, TypeOK', RowsBounded, NEW p \in Pods, CheckBriefing(p)
    PROVE  RowsBounded'
<1> DEFINE cur == CustomerOf[handler[p].issue]
<1>1. board' = board /\ Handling(p, "check") /\ handler[p].at # "idle"
  BY DEF CheckBriefing, Handling
<1>2. \A c \in Customers : Len(board[c].recent) <= Len(board[c].recent)
  BY Counts DEF TypeOK
<1>3. CASE FindsDuplicate(p)
  <2>1. Shrinks
    BY <1>1, <1>2, <1>3, HandlersType DEF CheckBriefing, Shrinks, TypeOK
  <2> QED
    BY <2>1, ShrinkingKeeps
<1>4. CASE ~FindsDuplicate(p)
  <2>1. /\ handler' = [handler EXCEPT ![p].at = "insert"]
        /\ handler'[p] = [at |-> "insert", issue |-> handler[p].issue]
    BY <1>1, <1>4, GoOnType DEF CheckBriefing, Handling
  <2>2. \A q \in Pods : q # p => handler'[q] = handler[q]
    BY <2>1 DEF TypeOK
  <2>3. board[cur].recent = <<>>
    BY <1>4 DEF FindsDuplicate, Duplicate, BoardOf
  <2> SUFFICES ASSUME NEW c \in Customers
               PROVE  Len(board[c].recent) + Cardinality(Inserting(c)') <= Cardinality(Pods)
    BY <1>1 DEF RowsBounded
  <2>4. CASE c = cur
    <3>1. Len(board[c].recent) = 0
      BY <2>3, <2>4, Counts DEF TypeOK
    <3>2. Inserting(c)' \in SUBSET Pods
      BY DEF Inserting
    <3> QED
      BY <3>1, <3>2, Counts
  <2>5. CASE c # cur
    <3>1. Inserting(c)' = Inserting(c)
      BY <1>1, <2>1, <2>2, <2>5 DEF Inserting, Handling
    <3> QED
      BY <3>1 DEF RowsBounded
  <2> QED
    BY <2>4, <2>5
<1> QED
  BY <1>3, <1>4

\* A pod that inserts leaves those about to insert.
LEMMA InsertKeeps ==
    ASSUME TypeOK, TypeOK', RowsBounded, NEW p \in Pods, InsertBriefing(p)
    PROVE  RowsBounded'
<1> DEFINE cur == CustomerOf[handler[p].issue]
<1>1. /\ handler[p].at = "insert"
      /\ board' = [board EXCEPT ![cur] = Insert(@, handler[p].issue)]
      /\ handler' = [handler EXCEPT ![p] = Idle]
  BY DEF InsertBriefing, Handling
<1>2. handler[p].issue \in Triggers
  BY <1>1, HandlersType, EscalationAssumption DEF TypeOK
<1>3. \A c \in Customers : Inserting(c)' = Inserting(c) \ {p}
  <2>1. handler'[p].at = "idle" /\ \A q \in Pods : q # p => handler'[q] = handler[q]
    BY <1>1, HandlersType DEF TypeOK
  <2> QED
    BY <2>1 DEF Inserting, Handling
<1>4. \A c \in Customers : c = cur => p \in Inserting(c)
  BY <1>1 DEF Inserting, Handling
<1>5. \A c \in Customers : c = cur => board'[c] = Insert(board[c], handler[p].issue)
  BY <1>1 DEF TypeOK
<1>6. \A c \in Customers : c # cur => board'[c] = board[c]
  BY <1>1 DEF TypeOK
<1> HIDE DEF cur
<1> SUFFICES ASSUME NEW c \in Customers
             PROVE  Len(board'[c].recent) + Cardinality(Inserting(c)') <= Cardinality(Pods)
  BY DEF RowsBounded
<1>7. Len(board[c].recent) + Cardinality(Inserting(c)) <= Cardinality(Pods)
  BY DEF RowsBounded
<1>8. /\ Inserting(c) \in SUBSET Pods
      /\ board[c] \in Boards
      /\ Len(board[c].recent) \in Nat
      /\ IsFiniteSet(Inserting(c))
      /\ Cardinality(Inserting(c)) \in Nat
  BY Counts DEF Inserting, TypeOK
<1>9. Cardinality(Inserting(c)') =
        IF p \in Inserting(c) THEN Cardinality(Inserting(c)) - 1 ELSE Cardinality(Inserting(c))
  BY <1>3, <1>8, FS_RemoveElement
<1>10. CASE c = cur
  <2>1. Len(board'[c].recent) = Len(board[c].recent) + 1
    BY <1>2, <1>5, <1>8, <1>10, InsertType
  <2>2. Cardinality(Inserting(c)') = Cardinality(Inserting(c)) - 1
    BY <1>4, <1>9, <1>10
  <2> QED
    BY <1>7, <1>8, <2>1, <2>2, Counts
<1>11. CASE c # cur
  <2>1. Len(board'[c].recent) = Len(board[c].recent)
    BY <1>6, <1>11
  <2> QED
    BY <1>7, <1>8, <1>9, <2>1, Counts
<1> QED
  BY <1>10, <1>11

\* The steps that neither find a board empty nor insert.
LEMMA OthersShrink ==
    ASSUME TypeOK,
           \/ \E i \in Issues : AddNote(i) \/ IssueChanges(i)
           \/ \E p \in Pods : \/ TakeNotification(p) \/ ReadIssue(p) \/ FailHandler(p)
                              \/ LoseConnection(p) \/ StopPod(p) \/ Reconnect(p)
           \/ \E c \in Customers : AcknowledgeBriefing(c)
           \/ Tick
           \/ UNCHANGED vars
    PROVE  Shrinks
<1>1. \A c \in Customers : board[c] \in Boards /\ Len(board[c].recent) <= Len(board[c].recent)
  BY Counts DEF TypeOK
<1>2. ASSUME NEW i \in Issues, AddNote(i) \/ IssueChanges(i)
      PROVE  Shrinks
  BY <1>1, <1>2 DEF AddNote, IssueChanges, Shrinks
<1>3. ASSUME NEW p \in Pods, TakeNotification(p)
      PROVE  Shrinks
  <2>1. handler' = [handler EXCEPT ![p] = [at |-> "read", issue |-> Head(queue[p])]]
    BY <1>3 DEF TakeNotification
  <2> QED
    BY <1>1, <1>3, <2>1 DEF TakeNotification, Shrinks, TypeOK
<1>4. ASSUME NEW p \in Pods, ReadIssue(p)
      PROVE  Shrinks
  <2>1. /\ board' = board
        /\ \A q \in Pods : q # p => handler'[q] = handler[q]
    BY <1>4 DEF ReadIssue, TypeOK
  <2>2. handler'[p].at # "insert"
    <3>1. CASE Urgent(handler[p].issue)
      BY <1>4, <3>1, GoOnType DEF ReadIssue, Handling
    <3>2. CASE ~Urgent(handler[p].issue)
      BY <1>4, <3>2, HandlersType DEF ReadIssue, TypeOK
    <3> QED
      BY <3>1, <3>2
  <2> QED
    BY <1>1, <2>1, <2>2 DEF Shrinks
<1>5. ASSUME NEW p \in Pods, FailHandler(p) \/ LoseConnection(p) \/ StopPod(p) \/ Reconnect(p)
      PROVE  Shrinks
  BY <1>1, <1>5, HandlersType
     DEF FailHandler, LoseConnection, StopPod, Reconnect, Shrinks, TypeOK
<1>6. ASSUME NEW c \in Customers, AcknowledgeBriefing(c)
      PROVE  Shrinks
  <2>1. PICK b \in Acknowledge(board[c]) : board' = [board EXCEPT ![c] = b]
    BY <1>6 DEF AcknowledgeBriefing
  <2>2. Len(b.recent) <= Len(board[c].recent)
    BY <1>1, AcknowledgeType
  <2>3. \A d \in Customers : Len(board'[d].recent) <= Len(board[d].recent)
    BY <1>1, <2>1, <2>2 DEF TypeOK
  <2> QED
    BY <1>6, <2>3 DEF AcknowledgeBriefing, Shrinks
<1>7. CASE Tick
  BY <1>1, <1>7, AgedType DEF Tick, Shrinks
<1>8. CASE UNCHANGED vars
  BY <1>1, <1>8 DEF vars, Shrinks
<1> QED
  BY <1>2, <1>3, <1>4, <1>5, <1>6, <1>7, <1>8

\* Every pod hears of every note, and store_briefing's SELECT and INSERT exclude
\* nobody: a customer may have as many recent unacknowledged escalation briefings
\* as there are pods, and never one more, however often notes are added, briefings
\* acknowledged, connections lost and pods stopped.
THEOREM DuplicatesAtMostPods == Spec => []DuplicatesBounded
<1>1. Init => RowsBounded
  <2> SUFFICES ASSUME Init, NEW c \in Customers
               PROVE  Len(board[c].recent) + Cardinality(Inserting(c)) <= Cardinality(Pods)
    BY DEF RowsBounded
  <2>1. Inserting(c) = {} /\ board[c].recent = <<>>
    BY HandlersType DEF Init, Inserting, Handling, EmptyBoard
  <2>2. Cardinality(Inserting(c)) = 0 /\ Len(board[c].recent) = 0
    BY <2>1, FS_EmptySet
  <2> QED
    BY <2>2, Counts
<1>2. TypeOK /\ TypeOK' /\ RowsBounded /\ [Next]_vars => RowsBounded'
  <2> SUFFICES ASSUME TypeOK, TypeOK', RowsBounded, [Next]_vars
               PROVE  RowsBounded'
    OBVIOUS
  <2>1. CASE \E p \in Pods : CheckBriefing(p)
    BY <2>1, CheckKeeps
  <2>2. CASE \E p \in Pods : InsertBriefing(p)
    BY <2>2, InsertKeeps
  <2>3. CASE \/ \E i \in Issues : AddNote(i) \/ IssueChanges(i)
             \/ \E p \in Pods : \/ TakeNotification(p) \/ ReadIssue(p) \/ FailHandler(p)
                                \/ LoseConnection(p) \/ StopPod(p) \/ Reconnect(p)
             \/ \E c \in Customers : AcknowledgeBriefing(c)
             \/ Tick
             \/ UNCHANGED vars
    BY <2>3, OthersShrink, ShrinkingKeeps
  <2> QED
    BY <2>1, <2>2, <2>3 DEF Next, Listener
<1>3. TypeOK /\ RowsBounded => DuplicatesBounded
  <2> SUFFICES ASSUME TypeOK, RowsBounded, NEW c \in Customers
               PROVE  Len(board[c].recent) <= Cardinality(Pods)
    BY DEF DuplicatesBounded
  <2>1. Inserting(c) \in SUBSET Pods /\ board[c] \in Boards
    BY DEF Inserting, TypeOK
  <2>2. Cardinality(Inserting(c)) \in Nat /\ Len(board[c].recent) \in Nat
    BY <2>1, Counts
  <2>3. Len(board[c].recent) + Cardinality(Inserting(c)) <= Cardinality(Pods)
    BY DEF RowsBounded
  <2> QED
    BY <2>2, <2>3, Counts
<1> QED
  BY <1>1, <1>2, <1>3, TypeCorrect, PTL DEF Spec

-----------------------------------------------------------------------------
(* Notes are not lost to all *)

\* The note is in the pod's queue or in its listener's hands.
Holds(p, issue) ==
    \/ \E k \in 1..Len(queue[p]) : queue[p][k] = issue
    \/ ~Handling(p, "idle") /\ handler[p].issue = issue

\* The safety part of NoteSurfaced: until there is a briefing for it, a note on an
\* issue that is still urgent is held by every pod that stays up, whatever the
\* other pods lose.
NotesHeld ==
    /\ unseen \subseteq urgent
    /\ Steady \subseteq listening
    /\ \A p \in Steady, issue \in unseen : Holds(p, issue)

\* A queue grows at its end and shrinks at its head.
LEMMA QueueFacts ==
    ASSUME NEW s \in Seq(Issues)
    PROVE  /\ \A i \in Issues :
                /\ \E k \in 1..Len(Append(s, i)) : Append(s, i)[k] = i
                /\ \A j \in Issues :
                        (\E k \in 1..Len(s) : s[k] = j)
                            => \E k \in 1..Len(Append(s, i)) : Append(s, i)[k] = j
           /\ s # <<>> => \A j \in Issues :
                (\E k \in 1..Len(s) : s[k] = j)
                    => j = Head(s) \/ \E k \in 1..Len(Tail(s)) : Tail(s)[k] = j
<1>1. ASSUME NEW i \in Issues
      PROVE  /\ \E k \in 1..Len(Append(s, i)) : Append(s, i)[k] = i
             /\ \A j \in Issues :
                    (\E k \in 1..Len(s) : s[k] = j)
                        => \E k \in 1..Len(Append(s, i)) : Append(s, i)[k] = j
  <2>1. /\ Len(s) \in Nat
        /\ Len(Append(s, i)) = Len(s) + 1
        /\ Append(s, i)[Len(s) + 1] = i
        /\ \A k \in 1..Len(s) : Append(s, i)[k] = s[k]
    BY AppendProperties
  <2>2. Len(s) + 1 \in 1..Len(Append(s, i)) /\ 1..Len(s) \subseteq 1..Len(Append(s, i))
    BY <2>1
  <2> QED
    BY <2>1, <2>2
<1>2. ASSUME s # <<>>, NEW j \in Issues, NEW k \in 1..Len(s), s[k] = j
      PROVE  j = Head(s) \/ \E l \in 1..Len(Tail(s)) : Tail(s)[l] = j
  <2>1. /\ Len(s) \in Nat
        /\ Head(s) = s[1]
        /\ Len(Tail(s)) = Len(s) - 1
        /\ \A l \in 1..Len(Tail(s)) : Tail(s)[l] = s[l + 1]
    BY <1>2, HeadTailProperties
  <2>2. k = 1 \/ (k - 1 \in 1..Len(Tail(s)) /\ (k - 1) + 1 = k)
    BY <2>1
  <2> QED
    BY <1>2, <2>1, <2>2
<1> QED
  BY <1>1, <1>2

\* A listener lets go of a note only when its issue has ceased to be urgent or
\* is seen.
LEMMA ListenerHolds ==
    ASSUME TypeOK, NotesHeld, NEW p \in Pods, Listener(p)
    PROVE  NotesHeld'
<1>1. UNCHANGED <<urgent, listening>> /\ unseen' \subseteq unseen
  BY DEF Listener, TakeNotification, ReadIssue, CheckBriefing, InsertBriefing
<1>2. \A q \in Pods : q # p => queue'[q] = queue[q] /\ handler'[q] = handler[q]
  BY DEF Listener, TakeNotification, ReadIssue, CheckBriefing, InsertBriefing, TypeOK
<1>3. ASSUME NEW issue \in unseen', Holds(p, issue)
      PROVE  Holds(p, issue)'
  <2>1. issue \in Issues /\ issue \in unseen /\ issue \in urgent
    BY <1>1 DEF TypeOK, NotesHeld
  <2>2. CASE TakeNotification(p)
    <3>1. /\ handler'[p] = [at |-> "read", issue |-> Head(queue[p])]
          /\ queue'[p] = Tail(queue[p])
          /\ queue[p] \in Seq(Issues) /\ queue[p] # <<>>
          /\ Handling(p, "idle")
      BY <2>2 DEF TakeNotification, TypeOK
    <3>2. issue = Head(queue[p]) \/ \E k \in 1..Len(Tail(queue[p])) : Tail(queue[p])[k] = issue
      BY <1>3, <2>1, <3>1, QueueFacts DEF Holds
    <3> QED
      BY <3>1, <3>2 DEF Holds, Handling
  <2>3. CASE ReadIssue(p)
    <3>1. CASE Urgent(handler[p].issue)
      <4>1. handler'[p] = [at |-> "check", issue |-> handler[p].issue] /\ queue' = queue
        BY <2>3, <3>1, GoOnType DEF ReadIssue, Handling
      <4> QED
        BY <1>3, <4>1 DEF Holds, Handling
    <3>2. CASE ~Urgent(handler[p].issue)
      <4>1. handler[p].issue # issue /\ queue' = queue
        BY <2>1, <2>3, <3>2 DEF Urgent, ReadIssue
      <4> QED
        BY <1>3, <4>1 DEF Holds
    <3> QED
      BY <3>1, <3>2
  <2>4. CASE CheckBriefing(p)
    <3>1. CASE FindsDuplicate(p)
      <4>1. handler[p].issue # issue /\ queue' = queue
        BY <2>1, <2>4, <3>1 DEF CheckBriefing, Siblings
      <4> QED
        BY <1>3, <4>1 DEF Holds
    <3>2. CASE ~FindsDuplicate(p)
      <4>1. handler'[p] = [at |-> "insert", issue |-> handler[p].issue] /\ queue' = queue
        BY <2>4, <3>2, GoOnType DEF CheckBriefing, Handling
      <4> QED
        BY <1>3, <4>1 DEF Holds, Handling
    <3> QED
      BY <3>1, <3>2
  <2>5. CASE InsertBriefing(p)
    <3>1. handler[p].issue # issue /\ queue' = queue
      BY <2>1, <2>5 DEF InsertBriefing, Siblings
    <3> QED
      BY <1>3, <3>1 DEF Holds
  <2> QED
    BY <2>2, <2>3, <2>4, <2>5 DEF Listener
<1>4. \A q \in Steady, issue \in unseen' : Holds(q, issue)'
  <2> SUFFICES ASSUME NEW q \in Steady, NEW issue \in unseen'
               PROVE  Holds(q, issue)'
    OBVIOUS
  <2>1. q \in Pods /\ Holds(q, issue)
    BY <1>1, EscalationAssumption DEF NotesHeld
  <2>2. CASE q = p
    BY <1>3, <2>1, <2>2
  <2>3. CASE q # p
    BY <1>2, <2>1, <2>3 DEF Holds, Handling
  <2> QED
    BY <2>2, <2>3
<1> QED
  BY <1>1, <1>4 DEF NotesHeld

LEMMA NextHolds ==
    ASSUME TypeOK, NotesHeld, [Next]_vars
    PROVE  NotesHeld'
<1>1. ASSUME NEW i \in Issues, AddNote(i)
      PROVE  NotesHeld'
  <2>1. \A p \in Steady : /\ queue[p] \in Seq(Issues)
                          /\ queue'[p] = Append(queue[p], i)
                          /\ handler'[p] = handler[p]
    BY <1>1, EscalationAssumption DEF AddNote, NotesHeld, TypeOK
  <2>2. unseen' \subseteq urgent' /\ listening' = listening
    BY <1>1 DEF AddNote, NotesHeld
  <2>3. ASSUME NEW p \in Steady, NEW issue \in unseen'
        PROVE  Holds(p, issue)'
    <3>1. issue \in Issues /\ (issue = i \/ Holds(p, issue))
      BY <1>1 DEF AddNote, NotesHeld, TypeOK
    <3>2. \/ \E k \in 1..Len(Append(queue[p], i)) : Append(queue[p], i)[k] = issue
          \/ ~Handling(p, "idle") /\ handler[p].issue = issue
      BY <2>1, <3>1, QueueFacts DEF Holds
    <3> QED
      BY <2>1, <3>2 DEF Holds, Handling
  <2> QED
    BY <2>2, <2>3 DEF NotesHeld
<1>2. ASSUME NEW i \in Issues, IssueChanges(i)
      PROVE  NotesHeld'
  <2>1. unseen' \subseteq unseen /\ unseen' \subseteq urgent'
    BY <1>2 DEF IssueChanges, NotesHeld
  <2> QED
    BY <1>2, <2>1 DEF IssueChanges, NotesHeld, Holds, Handling
<1>3. ASSUME NEW p \in Pods, FailHandler(p) \/ LoseConnection(p) \/ StopPod(p) \/ Reconnect(p)
      PROVE  NotesHeld'
  <2>1. p \notin Steady /\ UNCHANGED <<urgent, unseen>> /\ Steady \subseteq listening'
    BY <1>3 DEF FailHandler, LoseConnection, StopPod, Reconnect, NotesHeld
  <2>2. \A q \in Steady : queue'[q] = queue[q] /\ handler'[q] = handler[q]
    BY <1>3, <2>1, EscalationAssumption
       DEF FailHandler, LoseConnection, StopPod, Reconnect, TypeOK
  <2> QED
    BY <2>1, <2>2 DEF NotesHeld, Holds, Handling
<1>4. ASSUME UNCHANGED <<urgent, listening, queue, handler, unseen>>
      PROVE  NotesHeld'
  BY <1>4 DEF NotesHeld, Holds, Handling
<1>5. CASE (\E c \in Customers : AcknowledgeBriefing(c)) \/ Tick \/ UNCHANGED vars
  BY <1>4, <1>5 DEF AcknowledgeBriefing, Tick, vars
<1> QED
  BY <1>1, <1>2, <1>3, <1>5, ListenerHolds DEF Next

\* What NoteSurfaced rests on besides fairness: a note on an urgent issue that no
\* briefing answers yet is waiting at every steady pod, so that one of them will
\* get to it, although every other pod may have lost it.
THEOREM NotesKept == Spec => []NotesHeld
<1>1. Init => NotesHeld
  BY EscalationAssumption DEF Init, NotesHeld
<1>2. TypeOK /\ NotesHeld /\ [Next]_vars => NotesHeld'
  BY NextHolds
<1> QED
  BY <1>1, <1>2, TypeCorrect, PTL DEF Spec

=============================================================================
