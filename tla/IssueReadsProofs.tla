-------------------------- MODULE IssueReadsProofs --------------------------
(***************************************************************************)
(* What IssueReads promises, for any issues, customers, owners and any     *)
(* number of changes between the statements of a call.                     *)
(***************************************************************************)
EXTENDS IssueReads, TLAPS

-----------------------------------------------------------------------------
(* The rubric *)

\* A floor comes from an issue, the health, the number of issues or the history.
LEMMA FloorsReached ==
    ASSUME NEW rows, NEW health, NEW history, NEW n \in Nat,
           \A row \in rows : row.severity \in Severities
    PROVE  (\E floor \in Floors(health, rows, history) : floor >= n) <=>
              \/ 0 >= n
              \/ \E row \in rows : RubricRank[row.severity] >= n
              \/ health = "red" /\ 4 >= n
              \/ health = "amber" /\ 2 >= n
              \/ health = "amber" /\ Many(rows) /\ 3 >= n
              \/ Many(rows) /\ 2 >= n
              \/ history # "recent" /\ 2 >= n
  BY DEF Floors, SeverityFloors, HealthFloors, CountFloors, HistoryFloors

\* The ranks of the rubric, compared with the floors.
LEMMA RubricRanks ==
    ASSUME NEW s \in Severities
    PROVE  /\ RubricRank[s] >= 4 <=> s = "critical"
           /\ RubricRank[s] >= 3 <=> s \in {"critical", "high"}
           /\ RubricRank[s] >= 2 <=> s \in {"critical", "high", "medium"}
           /\ RubricRank[s] \in 1..4
  BY DEF RubricRank, Severities

\* customer_escalation_summary and its docstring agree on every set of issues.
THEOREM RubricFollowed ==
    ASSUME NEW rows, \A row \in rows : row.severity \in Severities,
           NEW health \in Healths, NEW history \in Histories
    PROVE  RiskLevel(health, rows, history) = DocumentedLevel(health, rows, history)
<1> DEFINE Reaches(n) == \E floor \in Floors(health, rows, history) : floor >= n
<1>1. Reaches(4) <=> HasSeverity(rows, "critical") \/ health = "red"
  <2>1. Reaches(4) <=> (\E row \in rows : RubricRank[row.severity] >= 4) \/ health = "red"
    BY FloorsReached
  <2> QED
    BY <2>1, RubricRanks DEF HasSeverity
<1>2. Reaches(3) <=> \/ HasSeverity(rows, "critical") \/ HasSeverity(rows, "high")
                     \/ health = "red" \/ (health = "amber" /\ Many(rows))
  <2>1. Reaches(3) <=> \/ \E row \in rows : RubricRank[row.severity] >= 3
                       \/ health = "red" \/ (health = "amber" /\ Many(rows))
    BY FloorsReached
  <2> QED
    BY <2>1, RubricRanks DEF HasSeverity
<1>3. Reaches(2) <=> \/ HasSeverity(rows, "critical") \/ HasSeverity(rows, "high")
                     \/ HasSeverity(rows, "medium")
                     \/ health \in {"red", "amber"} \/ Many(rows) \/ history # "recent"
  <2>1. Reaches(2) <=> \/ \E row \in rows : RubricRank[row.severity] >= 2
                       \/ health \in {"red", "amber"} \/ Many(rows) \/ history # "recent"
    BY FloorsReached
  <2> QED
    BY <2>1, RubricRanks DEF HasSeverity
<1>4. RiskLevel(health, rows, history) =
        IF Reaches(4) THEN "Critical" ELSE IF Reaches(3) THEN "High"
        ELSE IF Reaches(2) THEN "Medium" ELSE "Low"
  BY DEF RiskLevel
<1> HIDE DEF Reaches
<1> QED
  BY <1>1, <1>2, <1>3, <1>4 DEF DocumentedLevel, Histories

\* The two tables of ranks never order two severities differently.
LEMMA RanksAgree ==
    ASSUME NEW a, NEW b, a.severity \in Severities, b.severity \in Severities,
           AtLeast(a, b)
    PROVE  RubricRank[a.severity] >= RubricRank[b.severity]
  BY DEF AtLeast, PrimaryRank, RubricRank, Severities

-----------------------------------------------------------------------------
(* Type correctness *)

\* The row of an issue is a row.
LEMMA RowsTyped ==
    ASSUME TypeOK, NEW i \in Issues
    PROVE  Row(i) \in Rows
  BY ReadsAssumption DEF TypeOK, Row, Rows

\* A call starts with typed variables.
LEMMA InitTypeOK == Init => TypeOK
<1> SUFFICES ASSUME Init PROVE TypeOK
  OBVIOUS
<1>1. owner \in [Customers -> Owners \cup {NoOwner}]
  BY DEF Init
<1>2. /\ status \in [Issues -> IssueStatuses]
      /\ severity \in Gradings
  BY DEF Init, IssueStatuses
<1>3. call \in Calls
  BY DEF Init, Calls, Stages
<1>4. judgement \in [health: Healths, history: Histories, level: RiskLevels,
                     primary: SUBSET Rows]
  BY DEF Init, Healths, Histories, RiskLevels
<1>5. changes \in [owner: 0..Transfers, status: 0..Moves]
  BY ReadsAssumption DEF Init
<1>6. {held, taken, bare, orphaned} \subseteq SUBSET Customers
  BY DEF Init, Owned, Bare
<1> QED
  BY <1>1, <1>2, <1>3, <1>4, <1>5, <1>6 DEF TypeOK

\* The access notice is looked up for a customer, never for the portfolio.
NoticeOfCustomer == call.at = "notice" => call.asks \in Customers

\* A return with typed rows and a typed notice leaves a typed call.
LEMMA ReturnTyped ==
    ASSUME TypeOK, NEW rows \in SUBSET Rows, NEW notice \in Owners \cup {NoOwner},
           Return(rows, notice)
    PROVE  call' \in Calls /\ call'.at = "returned"
  BY DEF Return, TypeOK, Calls, Stages

\* A step of the call leaves the tables and the ghosts alone; what it puts into
\* the call is typed.
LEMMA CallTyped ==
    ASSUME TypeOK, NoticeOfCustomer, Call
    PROVE  call' \in Calls /\ NoticeOfCustomer' /\ UNCHANGED <<tables, ghosts>>
<1>1. CASE AskMcp
  <2>1. {Row(i) : i \in Wanted} \subseteq Rows
    BY RowsTyped DEF Wanted
  <2> QED
    BY <1>1, <2>1 DEF AskMcp, TypeOK, Calls, Stages, NoticeOfCustomer
<1>2. CASE FilterMcp
  <2> DEFINE kept == {row \in call.rows : row.customer \in Allowed}
  <2>1. call.rows \in SUBSET Rows /\ kept \in SUBSET Rows
    BY DEF TypeOK, Calls
  <2>2. UNCHANGED <<tables, ghosts>>
    BY <1>2 DEF FilterMcp
  <2> HIDE DEF kept
  <2>3. \/ Return(call.rows, NoOwner) \/ Return(kept, NoOwner)
        \/ call' = [call EXCEPT !.at = "sql", !.rows = {}]
    BY <1>2 DEF FilterMcp, kept
  <2>4. CASE call' = [call EXCEPT !.at = "sql", !.rows = {}]
    BY <2>2, <2>4 DEF TypeOK, Calls, Stages, NoticeOfCustomer
  <2> QED
    BY <2>1, <2>2, <2>3, <2>4, ReturnTyped DEF NoticeOfCustomer
<1>3. CASE AskSql
  <2> DEFINE seen == {i \in Wanted : ApplyRls => CustomerOf[i] \in Owned}
  <2>1. {Row(i) : i \in seen} \in SUBSET Rows
    BY RowsTyped DEF Wanted
  <2>2. UNCHANGED <<tables, ghosts>>
    BY <1>3 DEF AskSql
  <2>3. \/ call' = [call EXCEPT !.at = "notice"] /\ call.asks # Portfolio
        \/ Return({Row(i) : i \in seen}, NoOwner)
    BY <1>3 DEF AskSql
  <2> HIDE DEF seen
  <2>4. CASE call' = [call EXCEPT !.at = "notice"] /\ call.asks # Portfolio
    BY <2>2, <2>4 DEF TypeOK, Calls, Stages, NoticeOfCustomer
  <2> QED
    BY <2>1, <2>2, <2>3, <2>4, ReturnTyped DEF NoticeOfCustomer
<1>4. CASE LookUpOwner
  <2>1. call.asks \in Customers
    BY <1>4 DEF LookUpOwner, NoticeOfCustomer
  <2>2. owner[call.asks] \in Owners \cup {NoOwner}
    BY <2>1 DEF TypeOK
  <2> QED
    BY <1>4, <2>2, ReturnTyped DEF LookUpOwner, NoticeOfCustomer
<1>5. CASE Assess
  BY <1>5 DEF Assess, TypeOK, Calls, Stages, NoticeOfCustomer
<1> QED
  BY <1>1, <1>2, <1>3, <1>4, <1>5 DEF Call

\* A change of owner keeps the types.
LEMMA TransferTyped ==
    ASSUME TypeOK, NEW c \in Customers, NEW o \in Owners \cup {NoOwner}, Transfer(c, o)
    PROVE  TypeOK'
<1>1. /\ owner' \in [Customers -> Owners \cup {NoOwner}]
      /\ status' \in [Issues -> IssueStatuses]
      /\ severity' \in Gradings
  BY DEF Transfer, TypeOK
<1>2. changes' \in [owner: 0..Transfers, status: 0..Moves]
  BY ReadsAssumption DEF Transfer, TypeOK
<1>3. {held, taken, bare, orphaned}' \subseteq SUBSET Customers
  BY DEF Transfer, TypeOK
<1> QED
  BY <1>1, <1>2, <1>3 DEF Transfer, TypeOK

\* A change of status keeps the types.
LEMMA UpdateTyped ==
    ASSUME TypeOK, NEW i \in Issues, NEW s \in IssueStatuses, UpdateStatus(i, s)
    PROVE  TypeOK'
<1>1. /\ owner' \in [Customers -> Owners \cup {NoOwner}]
      /\ status' \in [Issues -> IssueStatuses]
      /\ severity' \in Gradings
  BY DEF UpdateStatus, TypeOK
<1>2. changes' \in [owner: 0..Transfers, status: 0..Moves]
  BY ReadsAssumption DEF UpdateStatus, TypeOK
<1>3. {held, taken, bare, orphaned}' \subseteq SUBSET Customers
  BY DEF UpdateStatus, TypeOK, Bare
<1> QED
  BY <1>1, <1>2, <1>3 DEF UpdateStatus, TypeOK

\* The risk level is one of the four.
LEMMA RiskLevelTyped ==
    ASSUME NEW health, NEW rows, NEW history
    PROVE  RiskLevel(health, rows, history) \in RiskLevels
  BY DEF RiskLevel, RiskLevels

\* A step of the call leaves a typed judgement.
LEMMA JudgementTyped ==
    ASSUME TypeOK, Call
    PROVE  judgement' \in [health: Healths, history: Histories, level: RiskLevels,
                           primary: SUBSET Rows]
<1>1. CASE Assess
  <2>1. PICK health \in Healths, history \in Histories, primary \in SUBSET call.rows :
            judgement' = [health |-> health, history |-> history, primary |-> primary,
                          level |-> RiskLevel(health, call.rows, history)]
    BY <1>1 DEF Assess
  <2>2. primary \in SUBSET Rows
    BY DEF TypeOK, Calls
  <2> QED
    BY <2>1, <2>2, RiskLevelTyped
<1>2. CASE ~Assess
  BY <1>2 DEF Call, AskMcp, FilterMcp, AskSql, LookUpOwner, TypeOK
<1> QED
  BY <1>1, <1>2

\* Every step keeps the types, and the notice to customers.
LEMMA NextTyped ==
    ASSUME TypeOK, NoticeOfCustomer, Next
    PROVE  TypeOK' /\ NoticeOfCustomer'
<1>1. CASE Call
  <2>1. UNCHANGED tables /\ UNCHANGED ghosts
    BY <1>1, CallTyped
  <2> QED
    BY <1>1, <2>1, CallTyped, JudgementTyped DEF TypeOK, tables, ghosts
<1>2. CASE \E c \in Customers, o \in Owners \cup {NoOwner} : Transfer(c, o)
  BY <1>2, TransferTyped DEF Transfer, NoticeOfCustomer
<1>3. CASE \E i \in Issues, s \in IssueStatuses : UpdateStatus(i, s)
  BY <1>3, UpdateTyped DEF UpdateStatus, NoticeOfCustomer
<1> QED
  BY <1>1, <1>2, <1>3 DEF Next

\* Type correctness of every call, whatever the tables do meanwhile.
THEOREM TypeCorrect == Spec => []TypeOK
<1>1. Init => TypeOK /\ NoticeOfCustomer
  <2>1. Init => call.at = "start"
    BY DEF Init
  <2> QED
    BY InitTypeOK, <2>1 DEF NoticeOfCustomer
<1>2. TypeOK /\ NoticeOfCustomer /\ [Next]_vars => TypeOK' /\ NoticeOfCustomer'
  <2> SUFFICES ASSUME TypeOK, NoticeOfCustomer, [Next]_vars
               PROVE  TypeOK' /\ NoticeOfCustomer'
    OBVIOUS
  <2>1. CASE UNCHANGED vars
    BY <2>1 DEF vars, tables, ghosts, TypeOK, NoticeOfCustomer
  <2> QED
    BY <2>1, NextTyped
<1> QED
  BY <1>1, <1>2, PTL DEF Spec

-----------------------------------------------------------------------------
(* What the user gets *)

\* The ghosts see the tables: what is owned, open or without an owner now has
\* been so at a moment of the call.
GhostsWitness ==
    /\ Owned \subseteq held
    /\ Bare \subseteq bare
    /\ {c \in Customers : owner[c] = NoOwner} \subseteq orphaned

\* Why the rows from MCP may be empty, and why SQL found nothing to return.
EmptyFromMcp ==
    call.at = "mcp" /\ call.asks # Portfolio /\ call.rows = {} => call.asks \in bare

NothingSeen ==
    call.at = "notice" => call.asks \in bare \cup taken \/ call.asks \notin Owned

ReadInv ==
    /\ TypeOK
    /\ NoticeOfCustomer
    /\ GhostsWitness
    /\ EmptyFromMcp
    /\ NothingSeen
    /\ OwnRowsOnly
    /\ EmptyExplained

\* The invariant holds before the call reads anything.
LEMMA InitReadInv == Init => ReadInv
<1> SUFFICES ASSUME Init PROVE ReadInv
  OBVIOUS
<1>1. TypeOK
  BY InitTypeOK
<1>2. GhostsWitness
  BY DEF Init, GhostsWitness
<1>3. call.at = "start"
  BY DEF Init
<1> QED
  BY <1>1, <1>2, <1>3 DEF ReadInv, NoticeOfCustomer, EmptyFromMcp, NothingSeen,
     OwnRowsOnly, EmptyExplained, Returned

\* A customer of whom no wanted issue exists has nothing open.
LEMMA NoneWanted ==
    ASSUME TypeOK, call.asks \in Customers, Wanted = {}
    PROVE  call.asks \in Bare
<1>1. call.asks # Portfolio
  BY ReadsAssumption
<1>2. \A i \in Issues : CustomerOf[i] = call.asks => status[i] # "open"
  BY <1>1 DEF Wanted, Asked
<1> QED
  BY <1>2 DEF Bare, OpenOf

\* What is not asked of the portfolio is asked of a customer.
LEMMA AskedOfCustomer ==
    ASSUME TypeOK, call.asks # Portfolio
    PROVE  call.asks \in Customers
  BY DEF TypeOK, Calls

\* While the tables and the ghosts stay, so do the facts about them alone.
LEMMA SameTables ==
    ASSUME TypeOK, GhostsWitness, UNCHANGED <<tables, ghosts>>, call'.user = call.user
    PROVE  GhostsWitness' /\ Owned' = Owned /\ ApplyRls' = ApplyRls
  BY DEF GhostsWitness, tables, ghosts, Owned, Bare, OpenOf, ApplyRls

\* An empty answer of the MCP server shows a customer with nothing open.
LEMMA AskMcpReads ==
    ASSUME ReadInv, AskMcp
    PROVE  EmptyFromMcp' /\ NothingSeen' /\ OwnRowsOnly' /\ EmptyExplained'
<1>1. call'.at \in {"mcp", "sql"} /\ call'.asks = call.asks
  BY DEF AskMcp, ReadInv, TypeOK, Calls
<1>2. EmptyFromMcp'
  <2> SUFFICES ASSUME call'.at = "mcp", call'.asks # Portfolio, call'.rows = {}
               PROVE  call'.asks \in bare'
    BY DEF EmptyFromMcp
  <2>1. call'.rows = {Row(i) : i \in Wanted} /\ bare' = bare
    BY DEF AskMcp, ghosts, ReadInv, TypeOK, Calls
  <2>2. Wanted = {}
    BY <2>1
  <2>3. call.asks \in Bare
    BY <1>1, <2>2, AskedOfCustomer, NoneWanted DEF ReadInv
  <2> QED
    BY <1>1, <2>1, <2>3 DEF ReadInv, GhostsWitness
<1> QED
  BY <1>1, <1>2 DEF NothingSeen, OwnRowsOnly, EmptyExplained, Returned

\* The names the rows are filtered by are of customers owned at that moment.
LEMMA FilterMcpReads ==
    ASSUME ReadInv, FilterMcp
    PROVE  EmptyFromMcp' /\ NothingSeen' /\ OwnRowsOnly' /\ EmptyExplained'
<1> DEFINE kept == {row \in call.rows : row.customer \in Allowed}
<1>1. /\ call'.user = call.user /\ call'.asks = call.asks
      /\ call'.at \in {"sql", "returned"}
      /\ UNCHANGED <<tables, ghosts>>
      /\ call'.at = "returned" => IF ApplyRls THEN call'.rows = kept ELSE call'.rows = call.rows
  BY DEF FilterMcp, Return, ReadInv, TypeOK, Calls
<1>2. call'.at = "returned" /\ ApplyRls /\ call.asks # Portfolio /\ kept = {} => call.rows = {}
  BY DEF FilterMcp, Return, ReadInv, TypeOK, Calls
<1>3. ApplyRls' = ApplyRls /\ held' = held /\ bare' = bare
  BY <1>1, SameTables DEF ReadInv, ghosts
<1>4. OwnRowsOnly'
  <2>1. \A row \in kept : row.customer \in held
    BY DEF Allowed, ReadInv, GhostsWitness
  <2> QED
    BY <1>1, <1>3, <2>1 DEF OwnRowsOnly, Returned
<1>5. EmptyExplained'
  BY <1>1, <1>2, <1>3 DEF EmptyExplained, Returned, ReadInv, EmptyFromMcp, FilterMcp
<1> QED
  BY <1>1, <1>4, <1>5 DEF EmptyFromMcp, NothingSeen

\* The rows of SQL are of customers owned at that moment.
LEMMA AskSqlReads ==
    ASSUME ReadInv, AskSql
    PROVE  EmptyFromMcp' /\ NothingSeen' /\ OwnRowsOnly' /\ EmptyExplained'
<1> DEFINE seen == {i \in Wanted : ApplyRls => CustomerOf[i] \in Owned}
<1>1. /\ call'.user = call.user /\ call'.asks = call.asks
      /\ call'.at \in {"notice", "returned"}
      /\ UNCHANGED <<tables, ghosts>>
      /\ call'.at = "returned" => call'.rows = {Row(i) : i \in seen}
      /\ call'.at = "notice" => ApplyRls /\ seen = {} /\ call.asks # Portfolio
      /\ call'.at = "returned" => ~(ApplyRls /\ seen = {} /\ call.asks # Portfolio)
  BY DEF AskSql, Return, ReadInv, TypeOK, Calls
<1>2. /\ ApplyRls' = ApplyRls /\ Owned' = Owned
      /\ held' = held /\ bare' = bare /\ taken' = taken
  BY <1>1, SameTables DEF ReadInv, ghosts
<1>3. OwnRowsOnly'
  <2>1. \A i \in seen : ApplyRls => Row(i).customer \in held
    BY DEF Row, ReadInv, GhostsWitness
  <2> QED
    BY <1>1, <1>2, <2>1 DEF OwnRowsOnly, Returned
<1>4. EmptyExplained'
  BY <1>1, <1>2 DEF EmptyExplained, Returned
<1>5. NothingSeen'
  <2> SUFFICES ASSUME call'.at = "notice", call.asks \in Owned
               PROVE  call.asks \in bare
    BY <1>1, <1>2 DEF NothingSeen
  <2>1. ApplyRls /\ seen = {} /\ call.asks # Portfolio
    BY <1>1
  <2>2. \A i \in Wanted : CustomerOf[i] = call.asks
    BY <2>1 DEF Wanted
  <2>3. Wanted = {}
    BY <2>1, <2>2
  <2> QED
    BY <2>1, <2>3, AskedOfCustomer, NoneWanted DEF ReadInv, GhostsWitness
<1> QED
  BY <1>1, <1>3, <1>4, <1>5 DEF EmptyFromMcp

\* The notice is missing only for an account just received or without an owner.
LEMMA LookUpOwnerReads ==
    ASSUME ReadInv, LookUpOwner
    PROVE  EmptyFromMcp' /\ NothingSeen' /\ OwnRowsOnly' /\ EmptyExplained'
<1>1. /\ call'.user = call.user /\ call'.asks = call.asks
      /\ call'.at = "returned" /\ call'.rows = {}
      /\ call'.notice = IF call.asks \in Owned THEN NoOwner ELSE owner[call.asks]
      /\ call.at = "notice"
      /\ UNCHANGED ghosts
  BY DEF LookUpOwner, Return, ReadInv, TypeOK, Calls
<1>2. call'.notice = NoOwner => call.asks \in bare \cup taken \cup orphaned
  <2>1. call.asks \in Customers
    BY <1>1 DEF ReadInv, NoticeOfCustomer
  <2> QED
    BY <1>1, <2>1 DEF ReadInv, NothingSeen, GhostsWitness
<1> QED
  BY <1>1, <1>2 DEF EmptyFromMcp, NothingSeen, OwnRowsOnly, EmptyExplained, ghosts

\* An assessment leaves alone what was returned.
LEMMA AssessReads ==
    ASSUME ReadInv, Assess
    PROVE  EmptyFromMcp' /\ NothingSeen' /\ OwnRowsOnly' /\ EmptyExplained'
<1>1. /\ call' = [call EXCEPT !.at = "assessed"] /\ call.at = "returned"
      /\ UNCHANGED ghosts
  BY DEF Assess
<1>2. /\ call'.at = "assessed"
      /\ \A f \in {"user", "asks", "rows", "notice"} : call'[f] = call[f]
  BY <1>1 DEF ReadInv, TypeOK, Calls
<1> QED
  BY <1>1, <1>2 DEF EmptyFromMcp, NothingSeen, OwnRowsOnly, EmptyExplained, Returned,
     ghosts, ReadInv, ApplyRls

\* A change of owner reaches every ghost that speaks of owners.
LEMMA TransferReads ==
    ASSUME ReadInv, NEW c \in Customers, NEW o \in Owners \cup {NoOwner}, Transfer(c, o)
    PROVE  /\ GhostsWitness' /\ EmptyFromMcp' /\ NothingSeen'
           /\ OwnRowsOnly' /\ EmptyExplained'
<1>1. /\ owner' = [owner EXCEPT ![c] = o]
      /\ held' = IF o = call.user THEN held \cup {c} ELSE held
      /\ taken' = IF o = call.user THEN taken \cup {c} ELSE taken
      /\ orphaned' = IF o = NoOwner THEN orphaned \cup {c} ELSE orphaned
      /\ UNCHANGED <<status, call, bare>>
      /\ ~Returned
  BY DEF Transfer, Running, Returned
<1>2. owner \in [Customers -> Owners \cup {NoOwner}]
  BY DEF ReadInv, TypeOK
<1>3. Bare' \subseteq bare'
  BY <1>1 DEF ReadInv, GhostsWitness, Bare, OpenOf
<1>4. Owned' \subseteq held' /\ Owned' \subseteq Owned \cup taken'
  <2>1. \A d \in Customers : owner'[d] = IF d = c THEN o ELSE owner[d]
    BY <1>1, <1>2
  <2> QED
    BY <1>1, <2>1 DEF Owned, ReadInv, GhostsWitness
<1>5. {d \in Customers : owner[d] = NoOwner}' \subseteq orphaned'
  <2>1. \A d \in Customers : owner'[d] = IF d = c THEN o ELSE owner[d]
    BY <1>1, <1>2
  <2> QED
    BY <1>1, <2>1 DEF ReadInv, GhostsWitness
<1>6. GhostsWitness'
  BY <1>3, <1>4, <1>5 DEF GhostsWitness
<1>7. NothingSeen'
  BY <1>1, <1>4 DEF NothingSeen, ReadInv
<1>8. EmptyFromMcp'
  BY <1>1 DEF EmptyFromMcp, ReadInv
<1>9. ~Returned'
  BY <1>1 DEF Returned
<1> QED
  BY <1>6, <1>7, <1>8, <1>9 DEF OwnRowsOnly, EmptyExplained

\* A change of status reaches the ghost of customers with nothing open.
LEMMA UpdateReads ==
    ASSUME ReadInv, NEW i \in Issues, NEW s \in IssueStatuses, UpdateStatus(i, s)
    PROVE  /\ GhostsWitness' /\ EmptyFromMcp' /\ NothingSeen'
           /\ OwnRowsOnly' /\ EmptyExplained'
<1>1. /\ bare' = bare \cup Bare'
      /\ UNCHANGED <<owner, call, held, taken, orphaned>>
      /\ ~Returned
  BY DEF UpdateStatus, Running, Returned
<1>2. Owned' = Owned
  BY <1>1 DEF Owned
<1>3. GhostsWitness'
  BY <1>1, <1>2 DEF GhostsWitness, ReadInv
<1>4. ~Returned'
  BY <1>1 DEF Returned
<1> QED
  BY <1>1, <1>2, <1>3, <1>4
     DEF ReadInv, EmptyFromMcp, NothingSeen, OwnRowsOnly, EmptyExplained

\* Every step of the call keeps the invariant.
LEMMA CallReads ==
    ASSUME ReadInv, Call
    PROVE  /\ GhostsWitness' /\ EmptyFromMcp' /\ NothingSeen'
           /\ OwnRowsOnly' /\ EmptyExplained'
<1>1. call'.user = call.user
  BY DEF ReadInv, TypeOK, Calls, Call, AskMcp, FilterMcp, AskSql, LookUpOwner, Assess, Return
<1>2. UNCHANGED <<tables, ghosts>>
  BY CallTyped DEF ReadInv
<1>3. GhostsWitness'
  BY <1>1, <1>2, SameTables DEF ReadInv
<1> QED
  BY <1>3, AskMcpReads, FilterMcpReads, AskSqlReads, LookUpOwnerReads, AssessReads DEF Call

\* Every step keeps the invariant.
LEMMA NextReadInv ==
    ASSUME ReadInv, [Next]_vars
    PROVE  ReadInv'
<1>1. CASE UNCHANGED vars
  BY <1>1 DEF vars, tables, ghosts, ReadInv, TypeOK, NoticeOfCustomer, GhostsWitness,
     Owned, Bare, OpenOf, EmptyFromMcp, NothingSeen, OwnRowsOnly, EmptyExplained,
     Returned, ApplyRls
<1>2. CASE Next
  <2>1. TypeOK' /\ NoticeOfCustomer'
    BY <1>2, NextTyped DEF ReadInv
  <2>2. /\ GhostsWitness' /\ EmptyFromMcp' /\ NothingSeen'
        /\ OwnRowsOnly' /\ EmptyExplained'
    BY <1>2, CallReads, TransferReads, UpdateReads DEF Next
  <2> QED
    BY <2>1, <2>2 DEF ReadInv
<1> QED
  BY <1>1, <1>2

\* The filtered copy of the MCP server's rows holds no customer of others, however
\* the accounts change hands between the statements.
THEOREM RlsHolds == Spec => []OwnRowsOnly
<1>1. ReadInv /\ [Next]_vars => ReadInv'
  BY NextReadInv
<1>2. ReadInv => OwnRowsOnly
  BY DEF ReadInv
<1> QED
  BY InitReadInv, <1>1, <1>2, PTL DEF Spec

\* The notice is missing from an empty answer only for the three reasons named.
THEOREM NoticeGiven == Spec => []EmptyExplained
<1>1. ReadInv /\ [Next]_vars => ReadInv'
  BY NextReadInv
<1>2. ReadInv => EmptyExplained
  BY DEF ReadInv
<1> QED
  BY InitReadInv, <1>1, <1>2, PTL DEF Spec

-----------------------------------------------------------------------------
(* What the risk agent concludes *)

\* The judgement is of the rows that the call still holds.
JudgementInv == TypeOK /\ NoticeOfCustomer /\ RubricAsDocumented /\ PrimaryCarriesRisk

\* The rows a call holds have known severities.
LEMMA SeveritiesTyped ==
    ASSUME TypeOK
    PROVE  \A row \in call.rows : row.severity \in Severities
  BY DEF TypeOK, Calls, Rows

\* An assessment judges the rows it leaves in the call.
LEMMA AssessJudges ==
    ASSUME TypeOK, Assess
    PROVE  RubricAsDocumented' /\ PrimaryCarriesRisk'
<1>1. call'.rows = call.rows
  BY DEF Assess, TypeOK, Calls
<1>2. PICK health \in Healths, history \in Histories, primary \in SUBSET call.rows :
        /\ \/ primary = {} /\ call.rows = {}
           \/ \E row \in call.rows : primary = {row} /\ IsPrimary(row, call.rows)
        /\ judgement' = [health |-> health, history |-> history, primary |-> primary,
                         level |-> RiskLevel(health, call.rows, history)]
  BY DEF Assess
<1>3. RiskLevel(health, call.rows, history) = DocumentedLevel(health, call.rows, history)
  BY SeveritiesTyped, RubricFollowed
<1>4. \A row \in primary : \A other \in call.rows :
        RubricRank[row.severity] >= RubricRank[other.severity]
  BY <1>2, SeveritiesTyped, RanksAgree DEF IsPrimary
<1> QED
  BY <1>1, <1>2, <1>3, <1>4 DEF RubricAsDocumented, PrimaryCarriesRisk

\* Every step keeps the judgement true of the rows.
LEMMA NextJudgementInv ==
    ASSUME JudgementInv, [Next]_vars
    PROVE  JudgementInv'
<1>1. TypeOK /\ NoticeOfCustomer
  BY DEF JudgementInv
<1>2. CASE UNCHANGED vars
  BY <1>2 DEF vars, tables, ghosts, JudgementInv, TypeOK, NoticeOfCustomer,
     RubricAsDocumented, PrimaryCarriesRisk
<1>3. CASE Assess
  BY <1>1, <1>3, NextTyped, AssessJudges DEF Next, Call, JudgementInv
<1>4. CASE AskMcp \/ FilterMcp \/ AskSql \/ LookUpOwner
  <2>1. call'.at # "assessed"
    BY <1>1, <1>4 DEF AskMcp, FilterMcp, AskSql, LookUpOwner, Return, TypeOK, Calls
  <2>2. UNCHANGED judgement
    BY <1>4 DEF AskMcp, FilterMcp, AskSql, LookUpOwner
  <2>3. PrimaryCarriesRisk' /\ RubricAsDocumented'
    BY <2>1 DEF PrimaryCarriesRisk, RubricAsDocumented
  <2> QED
    BY <1>1, <1>4, <2>3, NextTyped DEF Next, Call, JudgementInv
<1>5. CASE \/ \E c \in Customers, o \in Owners \cup {NoOwner} : Transfer(c, o)
           \/ \E i \in Issues, s \in IssueStatuses : UpdateStatus(i, s)
  <2>1. UNCHANGED <<call, judgement>>
    BY <1>5 DEF Transfer, UpdateStatus
  <2>2. PrimaryCarriesRisk' /\ RubricAsDocumented'
    BY <2>1 DEF PrimaryCarriesRisk, RubricAsDocumented, JudgementInv
  <2> QED
    BY <1>1, <1>5, <2>2, NextTyped DEF Next, JudgementInv
<1> QED
  BY <1>2, <1>3, <1>4, <1>5 DEF Next, Call

\* The level of every assessment is that of the documented rubric.
THEOREM LevelAsDocumented == Spec => []RubricAsDocumented
<1>1. Init => JudgementInv
  <2>1. Init => call.at = "start" /\ judgement.primary = {}
    BY DEF Init
  <2> QED
    BY InitTypeOK, <2>1
       DEF JudgementInv, NoticeOfCustomer, RubricAsDocumented, PrimaryCarriesRisk
<1>2. JudgementInv /\ [Next]_vars => JudgementInv'
  BY NextJudgementInv
<1>3. JudgementInv => RubricAsDocumented
  BY DEF JudgementInv
<1> QED
  BY <1>1, <1>2, <1>3, PTL DEF Spec

\* The primary issue of every assessment bears the gravest severity of its rows.
THEOREM PrimaryIsGravest == Spec => []PrimaryCarriesRisk
<1>1. Init => JudgementInv
  <2>1. Init => call.at = "start" /\ judgement.primary = {}
    BY DEF Init
  <2> QED
    BY InitTypeOK, <2>1
       DEF JudgementInv, NoticeOfCustomer, RubricAsDocumented, PrimaryCarriesRisk
<1>2. JudgementInv /\ [Next]_vars => JudgementInv'
  BY NextJudgementInv
<1>3. JudgementInv => PrimaryCarriesRisk
  BY DEF JudgementInv
<1> QED
  BY <1>1, <1>2, <1>3, PTL DEF Spec

=============================================================================
