----------------------------- MODULE AlertDedup -----------------------------
(***************************************************************************)
(* Proactive alerts: GET /alerts of app/api/routes.py and the dedup keys   *)
(* of app/services/alert_service.py. Browsers poll on a timer that does    *)
(* not wait for the previous poll, so that polls overlap, those of one     *)
(* user too; one key per customer and alert type serves all users. The key *)
(* is looked for in one call of Redis and set in another, and an error     *)
(* sends the alert.                                                        *)
(*                                                                         *)
(* Polls are the GET /alerts that may run at a time: each stands for any   *)
(* number of polls one after another.                                      *)
(*                                                                         *)
(* Acknowledging a briefing clears a key too, but the one named by the     *)
(* briefing's source, under which no alert is ever marked.                 *)
(***************************************************************************)
EXTENDS Naturals, Sequences, FiniteSets

CONSTANTS
    Users,
    Polls,          \* the polls that may run at a time, of any users
    UserOf,         \* [Polls -> Users]
    Watching,       \* polls on time, of users who see every customer
    CustomerCount,
    Visible,        \* the customers that each user sees
    Sources,        \* the sources of briefings
    AlertTTL,       \* _DEDUP_TTL, in ticks
    PollGap,        \* ticks between two polls of a browser
    AlertsFail      \* a call of Redis may raise

Customers == 1..CustomerCount       \* in the order of the list

ASSUME AlertAssumption ==
    /\ IsFiniteSet(Polls)
    /\ UserOf \in [Polls -> Users]
    /\ CustomerCount \in Nat
    /\ Watching \subseteq Polls
    /\ Visible \in [Users -> SUBSET Customers]
    /\ \A g \in Watching : Visible[UserOf[g]] = Customers
    /\ Sources \subseteq {"health_sweep", "escalation_cdc", "churn_signal"}
    /\ AlertTTL \in Nat \ {0}
    /\ PollGap \in Nat \ {0}
    /\ AlertsFail \in BOOLEAN

AlertTypes == {"critical", "warning"}

\* alert:dedup:<type>:<customer>
Keys == Customers \X (AlertTypes \cup Sources)
AlertKeys == Customers \X AlertTypes

VARIABLES
    level,      \* the alert type a customer's health and open issues call for
    mark,       \* ticks until a dedup key expires; 0: absent
    poll,       \* how far each poll is
    since,      \* ticks since a watching poll last began
    listed,     \* the unacknowledged briefings, per customer and source
    fresh,      \* ghost: per key, the ticks left of each alert sent within the TTL
    silent      \* ghost: per key, how long it is called for and not sent

alertVars == <<level, mark, poll, since, listed, fresh, silent>>

NoPoll == [at |-> "none"]

\* todo: the alerts of the list that the poll has not been through.
PollStates == [at: {"none"}] \cup [at: {"look", "set"}, todo: (SUBSET AlertKeys) \ {{}}]

\* The ticks left of the alerts sent for one key, oldest first.
Windows == {w \in Seq(1..AlertTTL) : \A i, j \in DOMAIN w : i < j => w[i] <= w[j]}

AlertTypeOK ==
    /\ level \in [Customers -> AlertTypes \cup {"none"}]
    /\ mark \in [Keys -> 0..AlertTTL]
    /\ poll \in [Polls -> PollStates]
    /\ since \in [Watching -> 0..PollGap]
    /\ listed \subseteq Customers \X Sources
    /\ fresh \in [AlertKeys -> Windows]
    /\ silent \in [AlertKeys -> Nat]

AlertInit ==
    /\ level = [c \in Customers |-> "none"]
    /\ mark = [k \in Keys |-> 0]
    /\ poll = [g \in Polls |-> NoPoll]
    /\ since = [g \in Watching |-> 0]
    /\ listed = {}
    /\ fresh = [k \in AlertKeys |-> <<>>]
    /\ silent = [k \in AlertKeys |-> 0]

-----------------------------------------------------------------------------

\* red with an open issue, amber with two, or neither: any change is possible.
HealthChanges(c) ==
    /\ \E new \in AlertTypes \cup {"none"} :
        /\ new # level[c]
        /\ level' = [level EXCEPT ![c] = new]
    /\ silent' = [k \in AlertKeys |-> IF k[1] = c THEN 0 ELSE silent[k]]
    /\ UNCHANGED <<mark, poll, since, listed, fresh>>

\* What list_all_customers returns to the user, as the alerts it calls for.
Called(u) == {key \in AlertKeys : key[1] \in Visible[u] /\ level[key[1]] = key[2]}

Polling(todo) == IF todo = {} THEN NoPoll ELSE [at |-> "look", todo |-> todo]

StartPoll(g) ==
    /\ poll[g] = NoPoll
    /\ poll' = [poll EXCEPT ![g] = Polling(Called(UserOf[g]))]
    /\ since' = [w \in Watching |-> IF w = g THEN 0 ELSE since[w]]
    /\ UNCHANGED <<level, mark, listed, fresh, silent>>

\* The alert that the loop over the list has come to.
AtHand(g) == CHOOSE key \in poll[g].todo : \A other \in poll[g].todo : key[1] <= other[1]

NextAlert(g) == poll' = [poll EXCEPT ![g] = Polling(poll[g].todo \ {AtHand(g)})]

\* Fault: the key found is set again, a window that slides with every poll.
LookAndRenew(g) ==
    /\ poll[g].at = "look"
    /\ LET key == AtHand(g) IN
       \/ /\ mark[key] > 0
          /\ mark' = [mark EXCEPT ![key] = AlertTTL]
          /\ NextAlert(g)
       \/ /\ mark[key] = 0
          /\ poll' = [poll EXCEPT ![g].at = "set"]
          /\ UNCHANGED mark
    /\ UNCHANGED <<level, since, listed, fresh, silent>>

\* r.exists of should_send_alert; an error sends the alert at once.
LookForMark(g) ==
    /\ poll[g].at = "look"
    /\ LET key == AtHand(g) IN
       \/ /\ mark[key] > 0
          /\ NextAlert(g)
          /\ UNCHANGED silent
       \/ /\ mark[key] = 0
          /\ poll' = [poll EXCEPT ![g].at = "set"]
          /\ UNCHANGED silent
       \/ /\ AlertsFail
          /\ NextAlert(g)
          /\ silent' = [silent EXCEPT ![key] = 0]
    /\ UNCHANGED <<level, mark, since, listed, fresh>>

\* Fault: the key is not set.
SetNothing(g) ==
    /\ poll[g].at = "set"
    /\ LET key == AtHand(g) IN
       /\ fresh' = [fresh EXCEPT ![key] = Append(@, AlertTTL)]
       /\ silent' = [silent EXCEPT ![key] = 0]
    /\ NextAlert(g)
    /\ UNCHANGED <<level, mark, since, listed>>

\* r.setex; the alert is sent whether it raises or not.
SetMark(g) ==
    /\ poll[g].at = "set"
    /\ LET key == AtHand(g) IN
       /\ \/ /\ mark' = [mark EXCEPT ![key] = AlertTTL]
             /\ fresh' = [fresh EXCEPT ![key] = Append(@, AlertTTL)]
          \/ AlertsFail /\ UNCHANGED <<mark, fresh>>
       /\ silent' = [silent EXCEPT ![key] = 0]
    /\ NextAlert(g)
    /\ UNCHANGED <<level, since, listed>>

\* store_briefing, by the sweep or the listener.
BriefingStored(c, source) ==
    /\ listed' = listed \cup {<<c, source>>}
    /\ UNCHANGED <<level, mark, poll, since, fresh, silent>>

\* POST /briefings/{id}/acknowledge, where clear_alert swallows its errors.
AcknowledgeBriefing(c, source) ==
    /\ <<c, source>> \in listed
    /\ listed' = listed \ {<<c, source>>}
    /\ \/ mark' = [mark EXCEPT ![<<c, source>>] = 0]
       \/ AlertsFail /\ UNCHANGED mark
    /\ UNCHANGED <<level, poll, since, fresh, silent>>

AlertStep ==
    \/ \E c \in Customers : HealthChanges(c)
    \/ \E c \in Customers, source \in Sources :
            BriefingStored(c, source) \/ AcknowledgeBriefing(c, source)
    \/ \E g \in Polls : StartPoll(g) \/ LookForMark(g) \/ SetMark(g)

\* A poll that begins anew in time and takes less than a tick.
OnTime(g) == poll[g] = NoPoll /\ since[g] < PollGap

Less(n) == IF n = 0 THEN 0 ELSE n - 1

\* The windows that end are the oldest ones.
Shorter(w) ==
    LET ended == {i \in DOMAIN w : w[i] = 1}
        still == SubSeq(w, Cardinality(ended) + 1, Len(w))
    IN  [i \in DOMAIN still |-> still[i] - 1]

AlertsAge ==
    /\ \A g \in Watching : OnTime(g)
    /\ mark' = [k \in Keys |-> Less(mark[k])]
    /\ since' = [g \in Watching |-> since[g] + 1]
    /\ fresh' = [k \in AlertKeys |-> Shorter(fresh[k])]
    /\ silent' = [k \in AlertKeys |->
                    IF level[k[1]] = k[2] THEN silent[k] + 1 ELSE 0]
    /\ UNCHANGED <<level, poll, listed>>

\* A restart of Redis, which keeps nothing. The TTL's window starts anew.
MarksLost ==
    /\ mark' = [k \in Keys |-> 0]
    /\ fresh' = [k \in AlertKeys |-> <<>>]
    /\ UNCHANGED <<level, poll, since, listed, silent>>

-----------------------------------------------------------------------------
(* Properties *)

\* "The same alert won't re-fire within 1 hour" (get_alerts), as far as two
\* calls of Redis can promise it: of the alerts that were marked, as many fall
\* within a TTL as polls may run at a time, and no more, however they overlap,
\* stall or fail, however often each is repeated, and whatever is acknowledged.
AlertsBounded == \A k \in AlertKeys : Len(fresh[k]) <= Cardinality(Polls)

\* The marks do not silence an alert for good: as long as one poll on time sees
\* the customer, the alert that is called for is sent to somebody within the TTL
\* and a poll, although the polls find the marks that any other poll leaves.
SilenceBounded == \A k \in AlertKeys : silent[k] <= AlertTTL + PollGap

\* "allowing the same customer to trigger a new alert after the user dismisses"
\* (acknowledge_briefing_route): the dismissal leaves no mark of the customer.
DismissalRearms ==
    [][\A b \in listed \ listed' : \A t \in AlertTypes : mark'[<<b[1], t>>] = 0]_alertVars

=============================================================================
