----------------------------- MODULE IssueStore -----------------------------
(***************************************************************************)
(* The issues table, its history and its embeddings: update_issue_status   *)
(* of app/repositories/issue_repo.py, the issue_updated channel of         *)
(* app/services/cdc_listener.py, the backfill of                           *)
(* app/services/embedding_service.py and the life of a pod in app/main.py. *)
(*                                                                         *)
(* A status and its entry in the history are two transactions. Every       *)
(* insert or update of an issue, that of its embedding included, notifies  *)
(* every listening pod. Escalation has the other channel, issue_note_added. *)
(***************************************************************************)
EXTENDS FiniteSets, Integers

CONSTANTS
    Issues,
    Statuses,       \* _ALLOWED_STATUSES
    NewStatus,      \* the status an issue is inserted with
    Writers,        \* requests that may be updating a status at once
    Pods,
    Steady,         \* pods that stay up and connected
    MaxUpdates,     \* bound: updates of a status
    MaxFailures     \* bound: crashes, lost connections, failed backfills and index passes

ASSUME StoreAssumption ==
    /\ NewStatus \in Statuses
    /\ Steady \subseteq Pods
    /\ MaxUpdates \in Nat /\ MaxFailures \in Nat

VARIABLES
    issues,     \* the rows: the issues inserted so far
    status,     \* of an issue, once inserted
    noted,      \* the status that the issue's history ends with
    writer,     \* what each request is doing
    embedded,   \* issues whose embedding is not NULL
    index,      \* whether issues_embedding_hnsw exists
    pod,        \* what a pod is: stopped, starting, or serving, with a listener or not
    inbox,      \* issues with a notification waiting at a pod
    worker,     \* what a pod's thread embedding-backfill is doing, lifespan at first
    count,      \* of updates and failures, bounded
    torn        \* ghost: issues an update of which was cut short or overtaken

rows == <<issues, status, noted>>
vectors == <<embedded, index>>
pods == <<pod, inbox, worker>>
storeVars == <<rows, vectors, pods, writer, count, torn>>

IdleWriter == [at |-> "idle"]

\* A request that has committed a status and not yet its note.
Pending(i) == {w \in Writers : writer[w].at = "note" /\ writer[w].issue = i}

WriterStates == [at: {"idle"}] \cup [at: {"note"}, issue: Issues, status: Statuses]

\* missing: the rows found without an embedding.
WorkerStates ==
    [at: {"sleep", "select", "index"}] \cup [at: {"update"}, missing: SUBSET Issues]

Asleep == [at |-> "sleep"]

StoreTypeOK ==
    /\ issues \subseteq Issues
    /\ {status, noted} \subseteq [Issues -> Statuses]
    /\ writer \in [Writers -> WriterStates]
    /\ embedded \subseteq issues
    /\ index \in BOOLEAN
    /\ pod \in [Pods -> {"stopped", "starting", "deaf", "listening"}]
    /\ inbox \in [Pods -> SUBSET issues]
    /\ worker \in [Pods -> WorkerStates]
    /\ count \in [updates: 0..MaxUpdates, failures: 0..MaxFailures]
    /\ torn \subseteq issues

StoreInit ==
    /\ issues \in SUBSET Issues
    /\ status = [i \in Issues |-> NewStatus]
    /\ noted = status
    /\ writer = [w \in Writers |-> IdleWriter]
    /\ embedded = {}
    /\ index = FALSE
    /\ pod = [p \in Pods |-> "stopped"]
    /\ inbox = [p \in Pods |-> {}]
    /\ worker = [p \in Pods |-> Asleep]
    /\ count = [updates |-> 0, failures |-> 0]
    /\ torn = {}

\* The trigger issue_cdc, on commit: pg_notify reaches every listening session.
Notified(box, changed) ==
    [p \in Pods |-> IF pod[p] = "listening" THEN box[p] \cup changed ELSE box[p]]

Fail ==
    /\ count.failures < MaxFailures
    /\ count' = [count EXCEPT !.failures = @ + 1]

-----------------------------------------------------------------------------
(* Rows *)

\* INSERT INTO issues, from outside the application.
InsertIssue(i) ==
    /\ i \notin issues
    /\ issues' = issues \cup {i}
    /\ inbox' = Notified(inbox, {i})
    /\ UNCHANGED <<status, noted, vectors, pod, worker, writer, count, torn>>

\* update_issue_status up to its first commit. An issue that does not exist or
\* a status that is not allowed changes nothing and leaves no note.
UpdateStatus(w, i, s) ==
    /\ writer[w].at = "idle"
    /\ i \in issues
    /\ count.updates < MaxUpdates
    /\ count' = [count EXCEPT !.updates = @ + 1]
    /\ status' = [status EXCEPT ![i] = s]
    /\ writer' = [writer EXCEPT ![w] = [at |-> "note", issue |-> i, status |-> s]]
    /\ inbox' = Notified(inbox, {i})
    /\ torn' = IF Pending(i) = {} THEN torn \ {i} ELSE torn \cup {i}
    /\ UNCHANGED <<issues, noted, vectors, pod, worker>>

\* Fault: only a resolution is noted.
NoteOfResolution(i, s) == [noted EXCEPT ![i] = IF s = NewStatus THEN @ ELSE s]

NoteOf(i, s) == [noted EXCEPT ![i] = s]

\* The second commit.
AddNote(w) ==
    /\ writer[w].at = "note"
    /\ noted' = NoteOf(writer[w].issue, writer[w].status)
    /\ writer' = [writer EXCEPT ![w] = IdleWriter]
    /\ UNCHANGED <<issues, status, vectors, pods, count, torn>>

\* The request dies between the two commits, or the second one raises.
CutShort(w) ==
    /\ writer[w].at = "note"
    /\ Fail
    /\ writer' = [writer EXCEPT ![w] = IdleWriter]
    /\ torn' = torn \cup {writer[w].issue}
    /\ UNCHANGED <<rows, vectors, pods>>

-----------------------------------------------------------------------------
(* The backfill *)

Working(p, at) == worker[p].at = at

\* lifespan: the migrations, then the first backfill.
StartPod(p) ==
    /\ pod[p] = "stopped"
    /\ pod' = [pod EXCEPT ![p] = "starting"]
    /\ worker' = [worker EXCEPT ![p] = [at |-> "select"]]
    /\ UNCHANGED <<rows, vectors, inbox, writer, count, torn>>

\* Five minutes have passed; the worker is started after the first backfill.
WakeWorker(p) ==
    /\ pod[p] \in {"deaf", "listening"}
    /\ Working(p, "sleep")
    /\ worker' = [worker EXCEPT ![p] = [at |-> "select"]]
    /\ UNCHANGED <<rows, vectors, pod, inbox, writer, count, torn>>

SelectMissing(p) ==
    /\ Working(p, "select")
    /\ LET missing == issues \ embedded IN
       worker' = [worker EXCEPT ![p] = IF missing = {} THEN [at |-> "index"]
                                       ELSE [at |-> "update", missing |-> missing]]
    /\ UNCHANGED <<rows, vectors, pod, inbox, writer, count, torn>>

\* One transaction for all the rows, other pods' embeddings overwritten.
UpdateMissing(p) ==
    /\ Working(p, "update")
    /\ embedded' = embedded \cup worker[p].missing
    /\ inbox' = Notified(inbox, worker[p].missing)
    /\ worker' = [worker EXCEPT ![p] = [at |-> "index"]]
    /\ UNCHANGED <<rows, index, pod, writer, count, torn>>

\* embed_batch returns no embedding of any row, or a statement raises.
FailBackfill(p) ==
    /\ Working(p, "select") \/ Working(p, "update")
    /\ Fail
    /\ worker' = [worker EXCEPT ![p] = [at |-> "index"]]
    /\ UNCHANGED <<rows, vectors, pod, inbox, writer, torn>>

\* Fault: the first backfill alone is followed by the index.
IndexAtStart(p) == index \/ (embedded # {} /\ pod[p] = "starting")

IndexAfter(p) == index \/ embedded # {}

\* What follows the index pass: the worker sleeps, and the first time the threads start.
EndBackfill(p) ==
    /\ Working(p, "index")
    /\ worker' = [worker EXCEPT ![p] = Asleep]
    /\ pod' = [pod EXCEPT ![p] = IF @ = "starting" THEN "deaf" ELSE @]
    /\ UNCHANGED <<rows, embedded, inbox, writer, torn>>

\* _run_hnsw_index
BuildIndex(p) ==
    /\ index' = IndexAfter(p)
    /\ UNCHANGED count
    /\ EndBackfill(p)

\* The count or CREATE INDEX raises, which is logged and no more.
FailIndex(p) ==
    /\ Fail
    /\ UNCHANGED index
    /\ EndBackfill(p)

-----------------------------------------------------------------------------
(* The listener *)

\* LISTEN issue_updated, at first or ten seconds after an error.
Listen(p) ==
    /\ pod[p] = "deaf"
    /\ pod' = [pod EXCEPT ![p] = "listening"]
    /\ UNCHANGED <<rows, vectors, inbox, worker, writer, count, torn>>

\* Fault: the parameter is bound, the UPDATE succeeds and notifies.
BoundEmbedding(p, i) ==
    /\ embedded' = embedded \cup {i}
    /\ inbox' = Notified([inbox EXCEPT ![p] = @ \ {i}], {i})

\* _embed_single_issue. With or without an answer of the API it stores nothing:
\* text() finds no parameter in `:e::vector`, the UPDATE is refused and the
\* exception swallowed.
EmbedOne(p, i) ==
    /\ inbox' = [inbox EXCEPT ![p] = @ \ {i}]
    /\ UNCHANGED embedded

HandleNotification(p) ==
    /\ pod[p] = "listening"
    /\ \E i \in inbox[p] : EmbedOne(p, i)
    /\ UNCHANGED <<rows, index, pod, worker, writer, count, torn>>

\* The connection breaks, with what waited on it.
LoseConnection(p) ==
    /\ p \notin Steady
    /\ pod[p] = "listening"
    /\ Fail
    /\ pod' = [pod EXCEPT ![p] = "deaf"]
    /\ inbox' = [inbox EXCEPT ![p] = {}]
    /\ UNCHANGED <<rows, vectors, worker, writer, torn>>

StopPod(p) ==
    /\ p \notin Steady
    /\ pod[p] # "stopped"
    /\ Fail
    /\ pod' = [pod EXCEPT ![p] = "stopped"]
    /\ inbox' = [inbox EXCEPT ![p] = {}]
    /\ worker' = [worker EXCEPT ![p] = Asleep]
    /\ UNCHANGED <<rows, vectors, writer, torn>>

-----------------------------------------------------------------------------

Backfill(p) ==
    StartPod(p) \/ WakeWorker(p) \/ SelectMissing(p) \/ UpdateMissing(p) \/ BuildIndex(p)

Listener(p) == Listen(p) \/ HandleNotification(p)

StoreNext ==
    \/ \E i \in Issues : InsertIssue(i)
    \/ \E w \in Writers :
        \/ \E i \in Issues, s \in Statuses : UpdateStatus(w, i, s)
        \/ AddNote(w) \/ CutShort(w)
    \/ \E p \in Pods :
        \/ Backfill(p) \/ FailBackfill(p) \/ FailIndex(p) \/ Listener(p)
        \/ LoseConnection(p) \/ StopPod(p)

StoreSpec == StoreInit /\ [][StoreNext]_storeVars

\* The threads of a steady pod run, and requests are carried on with. Failures
\* are finitely many, so that the API answers in the end.
FairStoreSpec ==
    /\ StoreSpec
    /\ \A p \in Pods : WF_storeVars(Listener(p))
    /\ \A p \in Steady : WF_storeVars(Backfill(p))

-----------------------------------------------------------------------------
(* Properties *)

\* The history of an issue ends with its status, although the two are committed
\* apart: but for a request that is about to write its note, only an update cut
\* short or overtaken by another leaves them different, and only until the next.
StatusNoted ==
    \A i \in issues : status[i] # noted[i] => Pending(i) # {} \/ i \in torn

\* "Any issue inserted after startup is embedded" and found by semantic search:
\* whatever notification is lost and whichever pod stops, each issue gets an
\* embedding, and the index over them is built.
Searchable == \A i \in Issues : i \in issues ~> i \in embedded /\ index

\* Every stored embedding is itself an update, which notifies every pod again.
\* Once statuses are no longer updated the notifications run dry all the same.
NotificationsCease == <>[](\A p \in Pods : inbox[p] = {})

=============================================================================
