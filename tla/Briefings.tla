----------------------------- MODULE Briefings -----------------------------
(***************************************************************************)
(* The briefings table of app/repositories/briefing_repo.py, as seen for   *)
(* one customer and one source: the unacknowledged rows. Time is counted   *)
(* in ticks; a row is recent for DedupWindow of them (30 minutes).         *)
(* Acknowledged rows are left out: no query of the code reads them.        *)
(***************************************************************************)
EXTENDS Naturals, Sequences, FiniteSets, SequencesExt

CONSTANTS
    DedupWindow,
    Triggers        \* values of trigger_issue_id

ASSUME BriefingsAssumption == DedupWindow \in Nat \ {0}

\* left: how long the row stays recent.
Rows == [left: 1..DedupWindow, trigger: Triggers]

\* recent: the recent rows, oldest first.
\* older: there are unacknowledged rows that are no longer recent.
Boards == {b \in [recent: Seq(Rows), older: BOOLEAN] :
                \A i, j \in DOMAIN b.recent : i < j => b.recent[i].left <= b.recent[j].left}

EmptyBoard == [recent |-> <<>>, older |-> FALSE]

\* The SELECT of store_briefing.
Duplicate(board) == board.recent # <<>>

\* Fault: the new row is dated in the future.
InsertAhead(board, trigger) ==
    [board EXCEPT !.recent = Append(@, [left |-> DedupWindow + 1, trigger |-> trigger])]

\* Its INSERT, in the same session but not under any lock or constraint.
Insert(board, trigger) ==
    [board EXCEPT !.recent = Append(@, [left |-> DedupWindow, trigger |-> trigger])]

\* There is a row for the WHERE clause of get_recent_briefings to find, whoever asks.
Unacknowledged(board) == board.recent # <<>> \/ board.older

\* acknowledge_briefing on one of the unacknowledged rows.
Acknowledge(board) ==
    {[board EXCEPT !.recent = RemoveAt(@, i)] : i \in DOMAIN board.recent}
        \cup (IF board.older THEN {board, [board EXCEPT !.older = FALSE]} ELSE {})

\* The rows that cease to be recent are the oldest ones.
Aged(board) ==
    LET expired == {i \in DOMAIN board.recent : board.recent[i].left = 1}
        still   == SubSeq(board.recent, Cardinality(expired) + 1, Len(board.recent))
    IN  [recent |-> [i \in DOMAIN still |-> [still[i] EXCEPT !.left = @ - 1]],
         older  |-> board.older \/ expired # {}]

=============================================================================
