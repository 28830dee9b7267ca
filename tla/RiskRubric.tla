----------------------------- MODULE RiskRubric -----------------------------
(***************************************************************************)
(* What the risk agent concludes from the rows it is given: the primary    *)
(* issue of app/agents/risk_action_agent.py and the risk level of          *)
(* app/skills/customer_escalation.py. The texts are left out.              *)
(***************************************************************************)
EXTENDS Integers, FiniteSets

Severities == {"critical", "high", "medium", "low", "other"}
IssueStatuses == {"open", "in_progress", "waiting", "resolved"}
Healths == {"red", "amber", "green", "unknown"}

\* The history of the primary issue: no entry, or days since the last one.
\* Seven days are a case of their own: the boundary, where the docstring differs.
Histories == {"none", "recent", "week", "older"}

-----------------------------------------------------------------------------
(* The primary issue *)

\* _SEVERITY_RANK.get(..., 0)
PrimaryRank ==
    [s \in Severities |->
        CASE s = "critical" -> 4 [] s = "high" -> 3 [] s = "medium" -> 2
          [] s = "low" -> 1 [] OTHER -> 0]

StatusRank ==
    [s \in IssueStatuses |->
        CASE s = "open" -> 4 [] s = "in_progress" -> 3 [] s = "waiting" -> 2 [] OTHER -> 1]

\* Fault: the most recent issue.
AtLeastById(a, b) == a.id >= b.id

\* The order of the key by which select_primary_issue takes the maximum:
\* severity, then status, then id.
AtLeast(a, b) ==
    \/ PrimaryRank[a.severity] > PrimaryRank[b.severity]
    \/ /\ PrimaryRank[a.severity] = PrimaryRank[b.severity]
       /\ \/ StatusRank[a.status] > StatusRank[b.status]
          \/ StatusRank[a.status] = StatusRank[b.status] /\ a.id >= b.id

IsPrimary(row, rows) == row \in rows /\ \A other \in rows : AtLeast(row, other)

-----------------------------------------------------------------------------
(* The risk level *)

\* severity_rank.get(..., 1)
RubricRank ==
    [s \in Severities |->
        CASE s = "critical" -> 4 [] s = "high" -> 3 [] s = "medium" -> 2 [] OTHER -> 1]

SeverityFloors(rows) == {RubricRank[row.severity] : row \in rows}

Many(rows) == \E a, b \in rows : a # b

\* Fault: an amber account is not raised by its many issues.
HealthFloorsFlat(health, rows) ==
    (IF health = "red" THEN {4} ELSE {}) \cup (IF health = "amber" THEN {2} ELSE {})

HealthFloors(health, rows) ==
    (IF health = "red" THEN {4} ELSE {})
        \cup (IF health = "amber" THEN {2} ELSE {})
        \cup (IF health = "amber" /\ Many(rows) THEN {3} ELSE {})

CountFloors(rows) == IF Many(rows) THEN {2} ELSE {}

\* days_stale >= 7, or no history at all.
HistoryFloors(history) == IF history = "recent" THEN {} ELSE {2}

\* risk_int is raised to each floor in turn.
Floors(health, rows, history) ==
    {0} \cup SeverityFloors(rows) \cup HealthFloors(health, rows)
        \cup CountFloors(rows) \cup HistoryFloors(history)

\* risk_map: the level of the highest floor.
RiskLevel(health, rows, history) ==
    LET reaches(n) == \E floor \in Floors(health, rows, history) : floor >= n
    IN  IF reaches(4) THEN "Critical"
        ELSE IF reaches(3) THEN "High"
        ELSE IF reaches(2) THEN "Medium"
        ELSE "Low"

RiskLevels == {"Critical", "High", "Medium", "Low"}

-----------------------------------------------------------------------------
(* The rubric of the docstring *)

HasSeverity(rows, s) == \E row \in rows : row.severity = s

\* "applied in priority order". An amber account is never Low, as the last line
\* says. On seven days its two lists differ ("last update > 7 days ago" and "7+
\* days old"); this is the second.
DocumentedLevel(health, rows, history) ==
    IF HasSeverity(rows, "critical") \/ health = "red" THEN "Critical"
    ELSE IF HasSeverity(rows, "high") \/ (health = "amber" /\ Many(rows)) THEN "High"
    ELSE IF \/ HasSeverity(rows, "medium") \/ Many(rows)
            \/ history \in {"none", "week", "older"} \/ health = "amber" THEN "Medium"
    ELSE "Low"

=============================================================================
