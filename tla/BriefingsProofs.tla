-------------------------- MODULE BriefingsProofs ---------------------------
(***************************************************************************)
(* What the operations of Briefings make of a board, for the components    *)
(* that keep one: every operation gives a board, and only Insert makes it  *)
(* longer.                                                                 *)
(***************************************************************************)
EXTENDS Briefings, FiniteSetTheorems, SequenceTheorems, TLAPS

\* A board starts without rows, and a row inserted is the newest.
LEMMA InsertType ==
    /\ EmptyBoard \in Boards
    /\ \A b \in Boards, t \in Triggers :
            /\ Insert(b, t) \in Boards
            /\ Len(Insert(b, t).recent) = Len(b.recent) + 1
<1> USE BriefingsAssumption
<1>1. EmptyBoard \in Boards
  BY DEF EmptyBoard, Boards
<1>2. ASSUME NEW b \in Boards, NEW t \in Triggers
      PROVE  /\ Insert(b, t) \in Boards
             /\ Len(Insert(b, t).recent) = Len(b.recent) + 1
  <2> DEFINE row == [left |-> DedupWindow, trigger |-> t]
             longer == Append(b.recent, row)
  <2>1. b.recent \in Seq(Rows) /\ row \in Rows /\ b \in [recent: Seq(Rows), older: BOOLEAN]
    BY DEF Boards, Rows
  <2>2. /\ longer \in Seq(Rows)
        /\ Len(longer) = Len(b.recent) + 1
        /\ \A i \in 1..Len(b.recent) : longer[i] = b.recent[i]
        /\ longer[Len(b.recent) + 1] = row
    BY <2>1, AppendProperties
  <2>3. \A i, j \in DOMAIN longer : i < j => longer[i].left <= longer[j].left
    <3>1. TAKE i, j \in DOMAIN longer
    <3>2. HAVE i < j
    <3>3. i \in 1..Len(b.recent) /\ j \in 1..Len(b.recent) + 1
      BY <2>1, <2>2, <3>2
    <3>4. CASE j = Len(b.recent) + 1
      <4>1. longer[j].left = DedupWindow
        BY <2>2, <3>4
      <4>2. longer[i] \in Rows
        BY <2>1, <2>2, <3>3
      <4> HIDE DEF longer
      <4> QED
        BY <4>1, <4>2 DEF Rows
    <3>5. CASE j # Len(b.recent) + 1
      <4>1. j \in DOMAIN b.recent /\ i \in DOMAIN b.recent
        BY <2>1, <3>3, <3>5
      <4>2. b.recent[i].left <= b.recent[j].left
        BY <3>2, <4>1 DEF Boards
      <4> QED
        BY <2>1, <2>2, <3>3, <4>1, <4>2
    <3> QED
      BY <3>4, <3>5
  <2>4. Insert(b, t) = [recent |-> longer, older |-> b.older]
    BY <2>1 DEF Insert
  <2> HIDE DEF longer
  <2> QED
    BY <2>1, <2>2, <2>3, <2>4 DEF Boards
<1> QED
  BY <1>1, <1>2

\* RemoveAt takes one element out and keeps the order of the others.
LEMMA RemoveAtFacts ==
    ASSUME NEW S, NEW s \in Seq(S), NEW i \in 1..Len(s)
    PROVE  /\ RemoveAt(s, i) \in Seq(S)
           /\ Len(RemoveAt(s, i)) = Len(s) - 1
           /\ \A k \in 1..Len(s) - 1 :
                RemoveAt(s, i)[k] = IF k < i THEN s[k] ELSE s[k + 1]
<1> DEFINE before == SubSeq(s, 1, i - 1)
           after == SubSeq(s, i + 1, Len(s))
<1>1. Len(s) \in Nat /\ i \in 1..Len(s) /\ \A k \in 1..Len(s) : s[k] \in S
  OBVIOUS
<1>2. /\ before \in Seq(S)
      /\ Len(before) = i - 1
      /\ \A k \in 1..i - 1 : before[k] = s[k]
  <2>1. 1 \in Int /\ i - 1 \in Int /\ \A k \in 1..i - 1 : s[k] \in S
    BY <1>1
  <2> QED
    BY <1>1, <2>1, SubSeqProperties
<1>3. /\ after \in Seq(S)
      /\ Len(after) = Len(s) - i
      /\ \A k \in 1..Len(s) - i : after[k] = s[i + k]
  <2>1. i + 1 \in Int /\ Len(s) \in Int /\ \A k \in i + 1..Len(s) : s[k] \in S
    BY <1>1
  <2>2. /\ after \in Seq(S)
        /\ Len(after) = IF i + 1 <= Len(s) THEN Len(s) - (i + 1) + 1 ELSE 0
        /\ \A k \in 1..Len(s) - (i + 1) + 1 : after[k] = s[i + 1 + k - 1]
    BY <2>1, SubSeqProperties
  <2>3. Len(after) = Len(s) - i
    BY <1>1, <2>2
  <2>4. ASSUME NEW k \in 1..Len(s) - i
        PROVE  after[k] = s[i + k]
    <3>1. k \in 1..Len(s) - (i + 1) + 1 /\ i + 1 + k - 1 = i + k
      BY <1>1
    <3> QED
      BY <2>2, <3>1
  <2> QED
    BY <2>2, <2>3, <2>4
<1>4. RemoveAt(s, i) = before \o after
  BY DEF RemoveAt
<1> HIDE DEF before, after
<1>5. /\ before \o after \in Seq(S)
      /\ Len(before \o after) = Len(before) + Len(after)
      /\ \A k \in 1..Len(before) + Len(after) : (before \o after)[k] =
            IF k <= Len(before) THEN before[k] ELSE after[k - Len(before)]
  BY <1>2, <1>3, ConcatProperties
<1>6. Len(before) + Len(after) = Len(s) - 1
  BY <1>1, <1>2, <1>3
<1>7. ASSUME NEW k \in 1..Len(s) - 1
      PROVE  (before \o after)[k] = IF k < i THEN s[k] ELSE s[k + 1]
  <2>1. CASE k < i
    <3>1. k \in 1..i - 1 /\ k <= Len(before)
      BY <1>1, <1>2, <2>1
    <3> QED
      BY <1>2, <1>5, <1>6, <2>1, <3>1
  <2>2. CASE ~(k < i)
    <3>1. ~(k <= Len(before)) /\ k - (i - 1) \in 1..Len(s) - i /\ i + (k - (i - 1)) = k + 1
      BY <1>1, <1>2, <2>2
    <3>2. (before \o after)[k] = after[k - (i - 1)]
      BY <1>2, <1>5, <1>6, <3>1
    <3> QED
      BY <1>3, <2>2, <3>1, <3>2
  <2> QED
    BY <2>1, <2>2
<1> QED
  BY <1>4, <1>5, <1>6, <1>7

\* A row acknowledged is no longer listed, and the others keep their order.
LEMMA AcknowledgeType ==
    ASSUME NEW b \in Boards, NEW a \in Acknowledge(b)
    PROVE  a \in Boards /\ Len(a.recent) <= Len(b.recent)
<1> DEFINE n == Len(b.recent)
<1>1. /\ b \in [recent: Seq(Rows), older: BOOLEAN]
      /\ b.recent \in Seq(Rows)
      /\ n \in Nat
      /\ DOMAIN b.recent = 1..n
  BY DEF Boards
<1>2. CASE a = b
  BY <1>1, <1>2
<1>3. CASE a = [b EXCEPT !.older = FALSE]
  <2>1. a.recent = b.recent /\ a \in [recent: Seq(Rows), older: BOOLEAN]
    BY <1>1, <1>3
  <2> QED
    BY <1>1, <2>1 DEF Boards
<1>4. ASSUME NEW i \in DOMAIN b.recent, a = [b EXCEPT !.recent = RemoveAt(@, i)]
      PROVE  a \in Boards /\ Len(a.recent) <= Len(b.recent)
  <2> DEFINE rest == RemoveAt(b.recent, i)
  <2>1. i \in 1..n
    BY <1>1
  <2>2. /\ rest \in Seq(Rows)
        /\ Len(rest) = n - 1
        /\ \A k \in 1..n - 1 : rest[k] = IF k < i THEN b.recent[k] ELSE b.recent[k + 1]
    BY <1>1, <2>1, RemoveAtFacts
  <2>3. a = [recent |-> rest, older |-> b.older]
    BY <1>1, <1>4
  <2>4. \A j, k \in 1..n : j < k => b.recent[j].left <= b.recent[k].left
    BY <1>1 DEF Boards
  <2> HIDE DEF rest, n
  <2>5. \A j, k \in DOMAIN rest : j < k => rest[j].left <= rest[k].left
    <3>1. TAKE j, k \in DOMAIN rest
    <3>2. HAVE j < k
    <3> DEFINE shift(m) == IF m < i THEN m ELSE m + 1
    <3>3. j \in 1..n - 1 /\ k \in 1..n - 1
      BY <2>2
    <3>4. shift(j) \in 1..n /\ shift(k) \in 1..n /\ shift(j) < shift(k)
      BY <1>1, <2>1, <3>2, <3>3
    <3>5. rest[j] = b.recent[shift(j)] /\ rest[k] = b.recent[shift(k)]
      BY <2>2, <3>3
    <3> HIDE DEF shift
    <3> QED
      BY <2>4, <3>4, <3>5
  <2>6. a \in Boards
    BY <1>1, <2>2, <2>3, <2>5 DEF Boards
  <2>7. Len(a.recent) <= n
    BY <1>1, <2>2, <2>3
  <2> QED
    BY <2>6, <2>7 DEF n
<1> QED
  BY <1>2, <1>3, <1>4 DEF Acknowledge

\* Of the rows in order of age, those that expire are the first, so none that
\* stays has run out.
LEMMA AgedType ==
    ASSUME NEW b \in Boards
    PROVE  Aged(b) \in Boards /\ Len(Aged(b).recent) <= Len(b.recent)
<1> DEFINE n == Len(b.recent)
           expired == {i \in DOMAIN b.recent : b.recent[i].left = 1}
           k == Cardinality(expired)
           still == SubSeq(b.recent, k + 1, n)
           younger == [i \in DOMAIN still |-> [still[i] EXCEPT !.left = @ - 1]]
<1>1. /\ b.recent \in Seq(Rows)
      /\ b.older \in BOOLEAN
      /\ n \in Nat
      /\ DOMAIN b.recent = 1..n
      /\ \A i \in 1..n : b.recent[i] \in Rows
      /\ \A i, j \in 1..n : i < j => b.recent[i].left <= b.recent[j].left
  BY DEF Boards
<1> HIDE DEF n
<1>2. IsFiniteSet(expired) /\ k \in 0..n
  <2>1. IsFiniteSet(1..n) /\ Cardinality(1..n) = n
    <3>1. 1 \in Int /\ n \in Int /\ (1 > n => n = 0) /\ n - 1 + 1 = n
      BY <1>1
    <3> QED
      BY <1>1, <3>1, FS_Interval
  <2>2. expired \in SUBSET (1..n)
    BY <1>1
  <2> HIDE DEF expired
  <2>3. IsFiniteSet(expired) /\ Cardinality(expired) <= n
    BY <2>1, <2>2, FS_Subset
  <2> QED
    BY <1>1, <2>3, FS_CardinalityType
<1>3. ASSUME NEW i \in k + 1..n
      PROVE  b.recent[i].left \in 2..DedupWindow
  <2>1. i \in 1..n /\ b.recent[i] \in Rows
    BY <1>1, <1>2
  <2>2. ASSUME b.recent[i].left = 1
        PROVE  FALSE
    <3>1. \A j \in 1..i : b.recent[j].left = 1
      <4>1. TAKE j \in 1..i
      <4>2. j \in 1..n /\ b.recent[j].left \in 1..DedupWindow
        BY <1>1, <2>1 DEF Rows
      <4>3. b.recent[j].left <= 1
        BY <1>1, <2>1, <2>2, <4>2
      <4> QED
        BY <4>2, <4>3, BriefingsAssumption
    <3>2. 1..i \in SUBSET expired
      BY <1>1, <2>1, <3>1
    <3>3. IsFiniteSet(1..i) /\ Cardinality(1..i) = i
      <4>1. 1 \in Int /\ i \in Int /\ ~(1 > i) /\ i - 1 + 1 = i
        BY <2>1
      <4> QED
        BY <2>1, <4>1, FS_Interval
    <3> HIDE DEF expired
    <3>4. i <= k
      BY <1>2, <3>2, <3>3, FS_Subset
    <3> QED
      BY <1>2, <3>4
  <2> QED
    BY <2>1, <2>2, BriefingsAssumption DEF Rows
<1> HIDE DEF k, expired
<1>4. /\ still \in Seq(Rows)
      /\ Len(still) <= n
      /\ \A i \in 1..Len(still) : k + i \in k + 1..n /\ still[i] = b.recent[k + i]
  <2>1. k + 1 \in Int /\ n \in Int /\ \A i \in k + 1..n : b.recent[i] \in Rows
    BY <1>1, <1>2
  <2>2. /\ still \in Seq(Rows)
        /\ Len(still) = IF k + 1 <= n THEN n - (k + 1) + 1 ELSE 0
        /\ \A i \in 1..n - (k + 1) + 1 : still[i] = b.recent[k + 1 + i - 1]
    BY <2>1, SubSeqProperties
  <2> HIDE DEF still
  <2>3. Len(still) <= n
    BY <1>1, <1>2, <2>2
  <2>4. ASSUME NEW i \in 1..Len(still)
        PROVE  k + i \in k + 1..n /\ still[i] = b.recent[k + i]
    <3>1. i \in 1..n - (k + 1) + 1 /\ k + 1 + i - 1 = k + i /\ k + i \in k + 1..n
      BY <1>1, <1>2, <2>2
    <3> QED
      BY <2>2, <3>1
  <2> QED
    BY <2>2, <2>3, <2>4
<1>5. Aged(b) = [recent |-> younger, older |-> b.older \/ expired # {}]
  BY DEF Aged, n, expired, k
<1> HIDE DEF still
<1>6. Len(still) \in Nat /\ DOMAIN still = 1..Len(still)
  BY <1>4
<1>7. ASSUME NEW i \in 1..Len(still)
      PROVE  /\ younger[i] \in Rows
             /\ younger[i].left = b.recent[k + i].left - 1
  <2>1. /\ k + i \in k + 1..n
        /\ still[i] = b.recent[k + i]
        /\ k + i \in 1..n
    BY <1>1, <1>2, <1>4
  <2>2. b.recent[k + i] \in Rows /\ b.recent[k + i].left \in 2..DedupWindow
    BY <1>1, <1>3, <2>1
  <2>3. younger[i] = [b.recent[k + i] EXCEPT !.left = @ - 1]
    BY <1>6, <2>1
  <2> QED
    BY <2>2, <2>3, BriefingsAssumption DEF Rows
<1>8. younger \in Seq(Rows) /\ Len(younger) = Len(still)
  <2>1. younger \in [1..Len(still) -> Rows]
    BY <1>6, <1>7
  <2> HIDE DEF younger
  <2> QED
    BY <1>6, <2>1
<1>9. \A i, j \in DOMAIN younger : i < j => younger[i].left <= younger[j].left
  <2>1. TAKE i, j \in DOMAIN younger
  <2>2. HAVE i < j
  <2>3. i \in 1..Len(still) /\ j \in 1..Len(still)
    BY <1>6
  <2>4. /\ k + i \in 1..n /\ k + j \in 1..n /\ k + i < k + j
        /\ b.recent[k + i] \in Rows /\ b.recent[k + j] \in Rows
    BY <1>1, <1>2, <1>4, <2>2, <2>3
  <2>5. b.recent[k + i].left <= b.recent[k + j].left
    BY <1>1, <2>4
  <2> HIDE DEF younger
  <2> QED
    BY <1>7, <2>3, <2>4, <2>5 DEF Rows
<1> HIDE DEF younger
<1>10. (b.older \/ expired # {}) \in BOOLEAN
  BY <1>1
<1>11. Aged(b) \in Boards
  BY <1>5, <1>8, <1>9, <1>10 DEF Boards
<1>12. Len(Aged(b).recent) <= n
  BY <1>4, <1>5, <1>8
<1> QED
  BY <1>11, <1>12 DEF n

=============================================================================
