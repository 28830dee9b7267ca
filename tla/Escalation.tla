----------------------------- MODULE Escalation -----------------------------
(***************************************************************************)
(* Escalation briefings: app/services/cdc_listener.py and                  *)
(* check_issue_escalation of app/services/autonomous_agent.py.             *)
(*                                                                         *)
(* A note added to an issue makes PostgreSQL notify every connection that  *)
(* listens, so every pod's listener gets it. A listener handles its        *)
(* notifications one at a time: it reads the issue and, if that is open    *)
(* and severe, stores a briefing for its customer unless it finds a recent *)
(* unacknowledged one. What is notified while a listener is not connected  *)
(* is lost to it.                                                          *)
(***************************************************************************)
EXTENDS Briefings, FiniteSets

CONSTANTS
    Pods,
    Steady,         \* pods that stay up and connected, and whose handler never raises
    Issues,
    Customers,
    CustomerOf,     \* the customer of an issue
    MaxQueue        \* bound: notifications waiting at a listener

ASSUME EscalationAssumption ==
    /\ IsFiniteSet(Pods)
    /\ Steady \subseteq Pods
    /\ CustomerOf \in [Issues -> Customers]
    /\ Triggers = Issues
    /\ MaxQueue \in Nat

VARIABLES
    urgent,     \* issues that are critical or high, and open or in progress
    listening,  \* pods whose listener is connected
    queue,      \* notifications not yet handled, per pod
    handler,    \* what the pod's listener is doing, and on which issue
    board,      \* the escalation_cdc briefings, per customer
    unseen      \* history: noted urgent issues whose customer had no briefing since

vars == <<urgent, listening, queue, handler, board, unseen>>

Handlers == [at: {"idle"}] \cup [at: {"read", "check", "insert"}, issue: Issues]

Idle == [at |-> "idle"]

Handling(p, at) == handler[p].at = at

BoardOf(p) == board[CustomerOf[handler[p].issue]]

TypeOK ==
    /\ urgent \subseteq Issues
    /\ listening \subseteq Pods
    /\ queue \in [Pods -> Seq(Issues)]
    /\ handler \in [Pods -> Handlers]
    /\ board \in [Customers -> Boards]
    /\ unseen \subseteq Issues

Init ==
    /\ urgent \in SUBSET Issues
    /\ listening = Pods
    /\ queue = [p \in Pods |-> <<>>]
    /\ handler = [p \in Pods |-> Idle]
    /\ board = [c \in Customers |-> EmptyBoard]
    /\ unseen = {}

-----------------------------------------------------------------------------

\* The trigger issue_note_cdc: pg_notify reaches every listening session.
AddNote(issue) ==
    /\ \A p \in listening : Len(queue[p]) < MaxQueue
    /\ queue' = [p \in Pods |->
                    IF p \in listening THEN Append(queue[p], issue) ELSE queue[p]]
    /\ unseen' = IF issue \in urgent THEN unseen \cup {issue} ELSE unseen
    /\ UNCHANGED <<urgent, listening, handler, board>>

TakeNotification(p) ==
    /\ Handling(p, "idle")
    /\ queue[p] # <<>>
    /\ handler' = [handler EXCEPT ![p] = [at |-> "read", issue |-> Head(queue[p])]]
    /\ queue' = [queue EXCEPT ![p] = Tail(@)]
    /\ UNCHANGED <<urgent, listening, board, unseen>>

\* Fault: the test of the status is inverted.
UrgentInverted(issue) == issue \notin urgent

\* Open or in progress, and critical or high.
Urgent(issue) == issue \in urgent

ReadIssue(p) ==
    /\ Handling(p, "read")
    /\ handler' = IF Urgent(handler[p].issue)
                  THEN [handler EXCEPT ![p].at = "check"]
                  ELSE [handler EXCEPT ![p] = Idle]
    /\ UNCHANGED <<urgent, listening, queue, board, unseen>>

\* The issues that a briefing of the issue's customer makes seen.
Siblings(issue) == {i \in Issues : CustomerOf[i] = CustomerOf[issue]}

\* Fault: the board is not looked at before the insert.
FindsNothing(p) == FALSE

FindsDuplicate(p) == Duplicate(BoardOf(p))

CheckBriefing(p) ==
    /\ Handling(p, "check")
    /\ IF FindsDuplicate(p)
       THEN /\ handler' = [handler EXCEPT ![p] = Idle]
            /\ unseen' = unseen \ Siblings(handler[p].issue)
       ELSE /\ handler' = [handler EXCEPT ![p].at = "insert"]
            /\ UNCHANGED unseen
    /\ UNCHANGED <<urgent, listening, queue, board>>

InsertBriefing(p) ==
    LET issue == handler[p].issue IN
    /\ Handling(p, "insert")
    /\ board' = [board EXCEPT ![CustomerOf[issue]] = Insert(@, issue)]
    /\ handler' = [handler EXCEPT ![p] = Idle]
    /\ unseen' = unseen \ Siblings(issue)
    /\ UNCHANGED <<urgent, listening, queue>>

\* An exception between the read and the insert, which check_issue_escalation
\* swallows.
FailHandler(p) ==
    /\ p \notin Steady
    /\ ~Handling(p, "idle")
    /\ handler' = [handler EXCEPT ![p] = Idle]
    /\ UNCHANGED <<urgent, listening, queue, board, unseen>>

\* The connection breaks: what it had received and not handed over is lost.
LoseConnection(p) ==
    /\ p \in listening \ Steady
    /\ listening' = listening \ {p}
    /\ queue' = [queue EXCEPT ![p] = <<>>]
    /\ UNCHANGED <<urgent, handler, board, unseen>>

\* The pod stops, whatever its listener was doing.
StopPod(p) ==
    /\ p \in Pods \ Steady
    /\ listening' = listening \ {p}
    /\ queue' = [queue EXCEPT ![p] = <<>>]
    /\ handler' = [handler EXCEPT ![p] = Idle]
    /\ UNCHANGED <<urgent, board, unseen>>

\* LISTEN on a new connection, after a restart or ten seconds' pause.
Reconnect(p) ==
    /\ p \notin listening
    /\ Handling(p, "idle")
    /\ listening' = listening \cup {p}
    /\ UNCHANGED <<urgent, queue, handler, board, unseen>>

\* POST /briefings/{id}/acknowledge
AcknowledgeBriefing(c) ==
    /\ \E b \in Acknowledge(board[c]) : board' = [board EXCEPT ![c] = b]
    /\ UNCHANGED <<urgent, listening, queue, handler, unseen>>

\* update_issue_status, or an edit of the table: a change that makes an issue
\* urgent is no note yet, and one that settles it leaves nothing to surface.
IssueChanges(issue) ==
    /\ IF issue \in urgent
       THEN urgent' = urgent \ {issue} /\ unseen' = unseen \ {issue}
       ELSE urgent' = urgent \cup {issue} /\ UNCHANGED unseen
    /\ UNCHANGED <<listening, queue, handler, board>>

Tick ==
    /\ \E c \in Customers : board[c].recent # <<>>
    /\ board' = [c \in Customers |-> Aged(board[c])]
    /\ UNCHANGED <<urgent, listening, queue, handler, unseen>>

-----------------------------------------------------------------------------

Listener(p) ==
    \/ TakeNotification(p)
    \/ ReadIssue(p)
    \/ CheckBriefing(p)
    \/ InsertBriefing(p)

Next ==
    \/ \E issue \in Issues : AddNote(issue) \/ IssueChanges(issue)
    \/ \E p \in Pods :
        Listener(p) \/ FailHandler(p) \/ LoseConnection(p) \/ StopPod(p) \/ Reconnect(p)
    \/ \E c \in Customers : AcknowledgeBriefing(c)
    \/ Tick

Spec == Init /\ [][Next]_vars

\* The listener threads run. Nothing is assumed of the rest.
FairSpec == Spec /\ \A p \in Pods : WF_vars(Listener(p))

-----------------------------------------------------------------------------
(* Properties *)

\* store_briefing's dedup, as far as it goes: a customer's recent
\* unacknowledged escalation briefings are never more than the pods, whatever
\* is noted, acknowledged or lost. With one pod there is no duplicate.
DuplicatesBounded ==
    \A c \in Customers : Len(board[c].recent) <= Cardinality(Pods)

\* A note on an urgent issue does not go unseen: if the issue stays urgent,
\* some listener finds or stores a briefing for its customer, although other
\* listeners lose the note and other issues' notes queue up before it.
NoteSurfaced == \A issue \in Issues : issue \in unseen ~> issue \notin unseen

=============================================================================
