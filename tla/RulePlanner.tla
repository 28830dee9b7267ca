---------------------------- MODULE RulePlanner ----------------------------
(***************************************************************************)
(* The deterministic planner of app/agents/planner.py: the plan that       *)
(* build_rule_plan derives from a query, and the follow-up plan that       *)
(* graph_orchestrator derives after a customer search.                     *)
(*                                                                         *)
(* A query is abstracted to what the planner tests in it: the keyword      *)
(* classes its text contains and the customer name each extractor reads.   *)
(* Regular expressions and substring searches are not modelled.            *)
(***************************************************************************)
EXTENDS Sequences, FiniteSets

CONSTANTS
    Names,      \* full customer names and name fragments a query can contain
    NoName,     \* the empty string: no customer
    Directory   \* the customers table as find_customer_matches answers for it

\* The customers a text may stand for, and whether it is a full name.
DirectoryAnswers == [matches: SUBSET Names, exact: BOOLEAN]

ASSUME DirectoryAssumption ==
    /\ NoName \notin Names
    /\ Directory \in [Names -> DirectoryAnswers]
    /\ \A n \in Names : Directory[n].exact =>
            \E full \in Names : Directory[n].matches = {full}

CustomerNames == Names \cup {NoName}

KnownCustomers == UNION {Directory[n].matches : n \in Names}

\* resolve_customer_name: the customers that a lookup by this name may reach. A
\* fragment reaches whichever customer comes first of those it may stand for, or
\* the most similar one, which find_customer_matches need not have listed.
Resolved(name) ==
    IF name = NoName THEN {}
    ELSE IF Directory[name].exact THEN Directory[name].matches
    ELSE KnownCustomers

-----------------------------------------------------------------------------
(* Tools *)

WriteTools == {"recommend_next_action", "update_issue_status"}

ReadTools == {"list_all_open_issues", "get_customer_profile",
              "get_open_issues", "get_issue_history",
              "semantic_search_issues", "search_customers"}

Tools == ReadTools \cup WriteTools

-----------------------------------------------------------------------------
(* Queries *)

\* One member per class of words the keyword lists do not tell apart:
\*   status        status, summary, summarise, summarize, history
\*   issue         issue, open, progress
\*   latest        latest, update
\*   next_action   next action
\*   suggest       suggest, recommend
\*   create_action create action
Words == {"status", "issue", "latest", "next_action", "suggest", "create_action"}

IssueWords    == {"status", "issue", "next_action"}
HistoryWords  == {"status", "latest"}
ActionWords   == {"next_action", "suggest", "create_action"}

\* preName is what _extract_name_candidate reads before the graph starts,
\* planName what build_rule_plan reads; a capitalised name is read by both.
QueryTypes ==
    [blocked: BOOLEAN, semantic: BOOLEAN, cross: BOOLEAN, capitalised: BOOLEAN,
     preName: CustomerNames, planName: CustomerNames, words: SUBSET Words]

Mentions(q, words) == q.words \cap words # {}

StepIf(condition, tool) == IF condition THEN <<tool>> ELSE <<>>

-----------------------------------------------------------------------------
(* Plans *)

Plan(name, steps) == [customer |-> name, steps |-> steps]

\* The steps for a customer that the directory knows. Each keyword list adds
\* its own step; none of them looks at the steps the others added.
CustomerSteps(q) ==
    <<"get_customer_profile">>
        \o StepIf(Mentions(q, IssueWords), "get_open_issues")
        \o StepIf(Mentions(q, HistoryWords), "get_issue_history")
        \o StepIf(Mentions(q, ActionWords), "recommend_next_action")

BuildRulePlan(q) ==
    IF q.semantic /\ ~q.capitalised
        THEN Plan(NoName, <<"semantic_search_issues">>)
    ELSE IF q.cross \/ q.planName = NoName
        THEN Plan(NoName, <<"list_all_open_issues">>)
    ELSE IF Directory[q.planName].matches = {}
        THEN Plan(q.planName, <<"search_customers">>)
    ELSE Plan(q.planName, CustomerSteps(q))

=============================================================================
