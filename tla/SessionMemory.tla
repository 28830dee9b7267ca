--------------------------- MODULE SessionMemory ---------------------------
(***************************************************************************)
(* The history of one session in Redis: append_session_event of            *)
(* app/services/memory_service.py, called once by every request that ends  *)
(* with an answer. The history is fetched, extended and stored back by two *)
(* calls with no lock between them, and a fetch that fails passes for an   *)
(* empty history.                                                          *)
(*                                                                         *)
(* An event is named by its request. A call that raises may have reached   *)
(* Redis or not.                                                           *)
(***************************************************************************)
EXTENDS Naturals, Sequences, SequencesExt, FiniteSets

CONSTANTS
    Requests,       \* the requests of the session that are answered
    Earlier,        \* those of them that have stored their events at the start
    MaxHistory,     \* _MAX_HISTORY
    SessionTTL,     \* _SESSION_TTL, in ticks
    SessionFails    \* a call of Redis may raise

ASSUME SessionAssumption ==
    /\ IsFiniteSet(Requests)
    /\ MaxHistory \in Nat /\ MaxHistory >= 2
    /\ Earlier \in Seq(Requests) /\ Len(Earlier) <= MaxHistory
    /\ \A i, j \in DOMAIN Earlier : Earlier[i] = Earlier[j] => i = j
    /\ SessionTTL \in Nat \ {0}
    /\ SessionFails \in BOOLEAN

VARIABLES
    history,    \* session:<id>; an absent key reads as <<>>
    left,       \* ticks until the key expires
    appender,   \* how far each request is, and the history it fetched
    log         \* ghost: the events stored, in the order of the stores

sessionVars == <<history, left, appender, log>>

Histories == UNION {[1..n -> Requests] : n \in 0..MaxHistory}

\* seen is the length of the log at the fetch, a ghost.
Appenders ==
    [at: {"before", "after"}]
        \cup [at: {"fetched"}, state: Histories, seen: 0..Cardinality(Requests), blind: BOOLEAN]

SessionTypeOK ==
    /\ history \in Histories
    /\ left \in 0..SessionTTL
    /\ (left = 0) = (history = <<>>)
    /\ appender \in [Requests -> Appenders]
    /\ log \in UNION {[1..n -> Requests] : n \in 0..Cardinality(Requests)}

SessionInit ==
    /\ history = Earlier
    /\ left = IF Earlier = <<>> THEN 0 ELSE SessionTTL
    /\ appender = [r \in Requests |->
                        IF r \in ToSet(Earlier) THEN [at |-> "after"] ELSE [at |-> "before"]]
    /\ log = Earlier

-----------------------------------------------------------------------------

Fetched(state, blind) ==
    [at |-> "fetched", state |-> state, seen |-> Len(log), blind |-> blind]

\* get_session_context: a RedisError reads as an empty history.
FetchHistory(r) ==
    /\ appender[r].at = "before"
    /\ \/ appender' = [appender EXCEPT ![r] = Fetched(history, FALSE)]
       \/ SessionFails /\ appender' = [appender EXCEPT ![r] = Fetched(<<>>, TRUE)]
    /\ UNCHANGED <<history, left, log>>

\* Fault: the oldest events are kept in place of the newest.
KeepOldest(state) ==
    IF Len(state) < MaxHistory THEN state ELSE SubSeq(state, 1, MaxHistory - 1)

\* Fault: one event too many is kept.
KeepFull(state) ==
    IF Len(state) <= MaxHistory THEN state
    ELSE SubSeq(state, Len(state) - MaxHistory + 1, Len(state))

\* history[-(_MAX_HISTORY - 1):]
Keep(state) ==
    IF Len(state) < MaxHistory THEN state
    ELSE SubSeq(state, Len(state) - MaxHistory + 2, Len(state))

Store(r) ==
    /\ history' = Append(Keep(appender[r].state), r)
    /\ left' = SessionTTL
    /\ log' = Append(log, r)

\* The rest of append_session_event, whose caller does not see an error.
StoreHistory(r) ==
    /\ appender[r].at = "fetched"
    /\ Store(r) \/ (SessionFails /\ UNCHANGED <<history, left, log>>)
    /\ appender' = [appender EXCEPT ![r] = [at |-> "after"]]

SessionStep == \E r \in Requests : FetchHistory(r) \/ StoreHistory(r)

\* The parts of a tick and of a restart of Redis that concern the session.
SessionAges ==
    /\ left' = IF left = 0 THEN 0 ELSE left - 1
    /\ history' = IF left <= 1 THEN <<>> ELSE history
    /\ UNCHANGED <<appender, log>>

SessionLost ==
    /\ left' = 0
    /\ history' = <<>>
    /\ UNCHANGED <<appender, log>>

-----------------------------------------------------------------------------
(* Properties *)

After(i) == Len(log) - i

\* Why the store of r may drop the event that is i-th in the log: r could not
\* read; the event was not in what r read, and another request has stored since;
\* or newer events fill the history.
Excused(r, i) ==
    \/ appender[r].blind
    \/ log[i] \notin ToSet(appender[r].state) /\ appender[r].seen < Len(log)
    \/ After(i) >= MaxHistory - 1

\* An event leaves the history by expiry, by a restart of Redis or by a store
\* that is excused, so two requests that do not overlap never lose an event of
\* the last _MAX_HISTORY (append_session_event: "keep last N-1 before appending").
LossExcused ==
    [][\A i \in DOMAIN log :
            log[i] \in ToSet(history) /\ log[i] \notin ToSet(history') =>
                \/ history' = <<>>
                \/ \E r \in Requests : /\ appender[r].at = "fetched"
                                       /\ appender'[r].at = "after"
                                       /\ Excused(r, i)]_sessionVars

=============================================================================
