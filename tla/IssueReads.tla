----------------------------- MODULE IssueReads -----------------------------
(***************************************************************************)
(* One read of issues on behalf of a user, by tool_get_open_issues or      *)
(* tool_list_all_open_issues of app/services/tools.py, and the assessment  *)
(* of what it returns.                                                     *)
(*                                                                         *)
(* The rows come from the MCP server, which knows no users and whose       *)
(* answer is filtered by the names of the customers the user owns; or, if  *)
(* it is unavailable, from SQL with the filter in the query. Each          *)
(* statement sees the tables of its own moment: customers change hands and *)
(* issues change status in between. What changes after the call is of no   *)
(* concern here.                                                           *)
(***************************************************************************)
EXTENDS RiskRubric

CONSTANTS
    Issues,         \* issue ids
    Customers,
    CustomerOf,     \* the customer of an issue
    Gradings,       \* the severities that issues may have, functions of issues
    Owners,         \* account owners
    NoOwner,        \* account_owner is NULL
    Restricted,     \* the owners without the roles admin and support_user
    Portfolio,      \* tool_list_all_open_issues, in place of a customer
    Transfers,      \* bound: changes of owner
    Moves           \* bound: changes of status

ASSUME ReadsAssumption ==
    /\ Issues \subseteq Nat
    /\ CustomerOf \in [Issues -> Customers]
    /\ Gradings \subseteq [Issues -> Severities]
    /\ NoOwner \notin Owners
    /\ Restricted \subseteq Owners
    /\ Portfolio \notin Customers
    /\ Transfers \in Nat /\ Moves \in Nat

VARIABLES
    owner,      \* account_owner of a customer
    status,     \* of an issue
    severity,   \* of an issue; the application never changes it
    call,       \* the call: whose, what it asks, how far it is, what it holds
    judgement,  \* of the risk agent, and the health and history it was given
    changes,    \* changes of owner and of status so far, bounded
    held,       \* ghost: customers the user has owned at some moment of the call
    taken,      \* ghost: customers the user has come to own during the call
    bare,       \* ghost: customers with no open issue at some moment of the call
    orphaned    \* ghost: customers without an owner at some moment of the call

tables == <<owner, status, severity, changes>>
ghosts == <<held, taken, bare, orphaned>>
vars == <<tables, call, judgement, ghosts>>

-----------------------------------------------------------------------------
(* State *)

\* _rls_owner. The user is one of those who own accounts.
ApplyRls == call.user \in Restricted

Rows == [id: Issues, severity: Severities, status: IssueStatuses, customer: Customers]

Row(i) == [id |-> i, severity |-> severity[i], status |-> status[i],
           customer |-> CustomerOf[i]]

Stages == {"start", "mcp", "sql", "notice", "returned", "assessed"}

\* notice is the owner that the notice names, or NoOwner.
Calls == [user: Owners, asks: Customers \cup {Portfolio}, at: Stages,
          rows: SUBSET Rows, notice: Owners \cup {NoOwner}]

TypeOK ==
    /\ owner \in [Customers -> Owners \cup {NoOwner}]
    /\ status \in [Issues -> IssueStatuses]
    /\ severity \in Gradings
    /\ call \in Calls
    /\ changes \in [owner: 0..Transfers, status: 0..Moves]
    /\ judgement \in [health: Healths, history: Histories, level: RiskLevels,
                      primary: SUBSET Rows]
    /\ {held, taken, bare, orphaned} \subseteq SUBSET Customers

OpenOf(c) == {i \in Issues : CustomerOf[i] = c /\ status[i] = "open"}

Owned == {c \in Customers : owner[c] = call.user}
Bare == {c \in Customers : OpenOf(c) = {}}

Init ==
    /\ owner \in [Customers -> Owners \cup {NoOwner}]
    /\ status \in [Issues -> {"open", "in_progress", "resolved"}]
    /\ severity \in Gradings
    /\ \E user \in Owners, asks \in Customers \cup {Portfolio} :
        call = [user |-> user, asks |-> asks, at |-> "start", rows |-> {},
                notice |-> NoOwner]
    /\ judgement = [health |-> "unknown", history |-> "none", level |-> "Low",
                    primary |-> {}]
    /\ changes = [owner |-> 0, status |-> 0]
    /\ held = Owned
    /\ taken = {}
    /\ bare = Bare
    /\ orphaned = {c \in Customers : owner[c] = NoOwner}

-----------------------------------------------------------------------------
(* The tables change *)

Running == call.at \notin {"returned", "assessed"}

\* An account gets another owner.
Transfer(c, o) ==
    /\ Running
    /\ changes.owner < Transfers
    /\ o # owner[c]
    /\ owner' = [owner EXCEPT ![c] = o]
    /\ changes' = [changes EXCEPT !.owner = @ + 1]
    /\ held' = IF o = call.user THEN held \cup {c} ELSE held
    /\ taken' = IF o = call.user THEN taken \cup {c} ELSE taken
    /\ orphaned' = IF o = NoOwner THEN orphaned \cup {c} ELSE orphaned
    /\ UNCHANGED <<status, severity, call, judgement, bare>>

\* update_issue_status of another request: any status, from any status.
UpdateStatus(i, s) ==
    /\ Running
    /\ changes.status < Moves
    /\ s # status[i]
    /\ status' = [status EXCEPT ![i] = s]
    /\ changes' = [changes EXCEPT !.status = @ + 1]
    /\ bare' = bare \cup Bare'
    /\ UNCHANGED <<owner, severity, call, judgement, held, taken, orphaned>>

-----------------------------------------------------------------------------
(* The call *)

\* The statuses each of the two tools asks for.
Asked == IF call.asks = Portfolio THEN {"open", "in_progress"} ELSE {"open"}

Wanted == {i \in Issues : /\ call.asks \in {CustomerOf[i], Portfolio}
                          /\ status[i] \in Asked}

Return(rows, notice) ==
    call' = [call EXCEPT !.at = "returned", !.rows = rows, !.notice = notice]

\* _mcp_get: the rows, or None on a timeout, an error or another status than 200.
AskMcp ==
    /\ call.at = "start"
    /\ \/ call' = [call EXCEPT !.at = "mcp", !.rows = {Row(i) : i \in Wanted}]
       \/ call' = [call EXCEPT !.at = "sql"]
    /\ UNCHANGED <<tables, judgement, ghosts>>

\* Fault: the names are those of the customers with any owner.
AllowedOwned == {c \in Customers : owner[c] # NoOwner}

\* get_allowed_customer_names
Allowed == Owned

\* Fault: rows filtered away are not asked for again.
FilterOnly ==
    /\ call.at = "mcp"
    /\ IF ~ApplyRls
       THEN Return(call.rows, NoOwner)
       ELSE Return({row \in call.rows : row.customer \in Allowed}, NoOwner)
    /\ UNCHANGED <<tables, judgement, ghosts>>

\* _apply_rls_to_issues. Of one customer's rows all pass or none, and if none
\* of some does, SQL is asked for the notice.
FilterMcp ==
    /\ call.at = "mcp"
    /\ LET kept == {row \in call.rows : row.customer \in Allowed} IN
       IF ~ApplyRls
       THEN Return(call.rows, NoOwner)
       ELSE IF call.rows # {} /\ kept = {} /\ call.asks # Portfolio
       THEN call' = [call EXCEPT !.at = "sql", !.rows = {}]
       ELSE Return(kept, NoOwner)
    /\ UNCHANGED <<tables, judgement, ghosts>>

\* get_open_issues_for_customer and get_all_issues_filtered.
AskSql ==
    /\ call.at = "sql"
    /\ LET seen == {i \in Wanted : ApplyRls => CustomerOf[i] \in Owned} IN
       IF ApplyRls /\ seen = {} /\ call.asks # Portfolio
       THEN call' = [call EXCEPT !.at = "notice"]
       ELSE Return({Row(i) : i \in seen}, NoOwner)
    /\ UNCHANGED <<tables, judgement, ghosts>>

\* The second statement of get_open_issues_for_customer.
LookUpOwner ==
    /\ call.at = "notice"
    /\ Return({}, IF call.asks \in Owned THEN NoOwner ELSE owner[call.asks])
    /\ UNCHANGED <<tables, judgement, ghosts>>

\* run_risk_action_agent on the rows of a customer, with the profile and the
\* history that other tools have read. A notice is not among the rows.
Assess ==
    /\ call.at = "returned"
    /\ call.asks # Portfolio
    /\ call' = [call EXCEPT !.at = "assessed"]
    /\ \E health \in Healths, history \in Histories, primary \in SUBSET call.rows :
        /\ \/ primary = {} /\ call.rows = {}
           \/ \E row \in call.rows : primary = {row} /\ IsPrimary(row, call.rows)
        /\ judgement' = [health |-> health, history |-> history, primary |-> primary,
                         level |-> RiskLevel(health, call.rows, history)]
    /\ UNCHANGED <<tables, ghosts>>

Call == AskMcp \/ FilterMcp \/ AskSql \/ LookUpOwner \/ Assess

Next ==
    \/ Call
    \/ \E c \in Customers, o \in Owners \cup {NoOwner} : Transfer(c, o)
    \/ \E i \in Issues, s \in IssueStatuses : UpdateStatus(i, s)

Spec == Init /\ [][Next]_vars

-----------------------------------------------------------------------------
(* Properties *)

Returned == call.at \in {"returned", "assessed"}

\* Row-level security across both paths: every row a restricted user gets is of
\* a customer who was the user's at some moment of the call, although the rows
\* of the MCP server and the names they are filtered by are read apart.
OwnRowsOnly ==
    Returned /\ ApplyRls => \A row \in call.rows : row.customer \in held

\* "surface an explicit access warning instead of a confusing empty list"
\* (tool_get_open_issues): if a restricted user gets an empty list of a customer
\* and no notice then, at some moment of the call, the customer had nothing open
\* or no owner to name, or came to the user.
EmptyExplained ==
    /\ Returned /\ ApplyRls /\ call.asks # Portfolio
    /\ call.rows = {} /\ call.notice = NoOwner
    => call.asks \in bare \cup taken \cup orphaned

\* customer_escalation_summary raises the level step by step; what comes out is
\* the rubric of its docstring on the rows the user may see.
RubricAsDocumented ==
    call.at = "assessed" =>
        judgement.level = DocumentedLevel(judgement.health, call.rows, judgement.history)

\* Two modules rank severities by two tables that differ about unknown ones. They
\* agree on the primary issue: no other issue raises the level above its own.
PrimaryCarriesRisk ==
    call.at = "assessed" =>
        \A row \in judgement.primary : \A other \in call.rows :
            RubricRank[row.severity] >= RubricRank[other.severity]

=============================================================================
