---------------------------- MODULE Rooms_proofs ----------------------------
(***************************************************************************)
(* What holds inside a room for every value of the constants: the running  *)
(* summary, the documents and briefings, what is posted and the summons    *)
(* that sets off, and the audit chain.  Each part proves what its          *)
(* component promises, under the component's own specification, from an    *)
(* inductive invariant given at the head of the part; a lemma for each     *)
(* kind of step says what the step leaves of it.  What a sum, a sequence   *)
(* or a chain of hashes comes to is proved by the first place where it     *)
(* would not.  The last part, side by side, carries the promises over to   *)
(* all of them together.                                                   *)
(***************************************************************************)
EXTENDS MCRooms, FiniteSetTheorems, WellFoundedInduction, SequenceTheorems, TLAPS

\* A set of numbers that is not empty has a first.
LEMMA FirstOfNumbers == ASSUME NEW S \in SUBSET Nat, S # {} PROVE \E first \in S : \A n \in S : first <= n
<1> DEFINE Less == OpToRel(<, Nat)
<1>2. PICK first \in S : \A h \in S : ~(<<h, first>> \in Less)
  <2>1. IsWellFoundedOn(Less, Nat)
    BY NatLessThanWellFounded
  <2> HIDE DEF Less
  <2> QED BY <2>1, WFMin
<1>3. Less = {pair \in Nat \X Nat : pair[1] < pair[2]}
  BY Zenon DEF OpToRel
<1> HIDE DEF Less
<1>4. \A h, k \in Nat : h < k => <<h, k>> \in Less
  BY <1>3
<1>5. \A h \in S : first \in Nat /\ h \in Nat /\ ~(h < first)
  BY <1>2, <1>4
<1>6. \A h \in S : first <= h
  BY <1>5
<1> QED BY <1>6, Zenon

\* A bounded one has a last.
LEMMA LastOfNumbers == ASSUME NEW n \in Nat, NEW S \in SUBSET (0..n), S # {}
    PROVE Max(S) \in S /\ \A m \in S : m <= Max(S)
<1> DEFINE Below == {n - m : m \in S}
<1>1. Below \in SUBSET Nat /\ Below # {}
  <2>1. \A m \in S : m \in 0..n /\ n - m \in Nat
    <3> SUFFICES ASSUME NEW m \in S PROVE m \in 0..n /\ n - m \in Nat
      OBVIOUS
    <3>1. m \in 0..n
      OBVIOUS
    <3> QED BY <3>1
  <2> QED BY <2>1
<1>2. PICK first \in Below : \A k \in Below : first <= k
  <2> HIDE DEF Below
  <2> QED BY <1>1, FirstOfNumbers
<1>3. PICK last \in S : first = n - last
  BY <1>2
<1>4. \A m \in S : n - m \in Below
  OBVIOUS
<1>5. \A m \in S : m \in 0..n /\ n - last <= n - m
  BY <1>2, <1>3, <1>4
<1>6. last \in 0..n /\ \A m \in S : last >= m
  BY <1>5
<1>7. Max(S) \in S /\ \A m \in S : Max(S) >= m
  BY <1>6, Zenon DEF Max
<1> QED BY <1>7

-----------------------------------------------------------------------------
(* The running summary. *)

FoldPc == {"none", "count", "batch", "append", "over"}
FoldRow == [pc : FoldPc, prev : Summary, takes : 0..MaxFold, batch : SUBSET Messages]

SummaryTyped ==
    /\ taken \in 0..MaxMessages /\ committed \subseteq 1..taken /\ late \subseteq committed
    /\ summaries \in Seq(Summary)
    /\ fold \in [Folds -> FoldRow]

\* A summary was made from each message up to the seq it covers, but for the late ones, and from nothing else.
Whole(s) ==
    /\ \A m \in committed \ late : m <= s.covers => m \in s.from
    /\ s.from \subseteq 1..s.covers /\ s.count = Cardinality(s.from)

SummariesWhole == \A i \in DOMAIN summaries : Whole(summaries[i])

\* What a run read is a summary that is there.
ReadsASummary == \A f \in Folds :
    fold[f].prev = NoSummary \/ \E i \in DOMAIN summaries : summaries[i] = fold[f].prev

\* A run that goes on leaves a window beyond what it is going to take.
TailIsLong == \A f \in Folds : fold[f].pc = "batch" =>
    fold[f].takes > 0 /\ Cardinality(After(fold[f].prev.covers)) >= fold[f].takes + Window

\* A batch follows what its summary covers, without a hole but for the late ones, and a window follows it.
BatchFollows(s, b) ==
    /\ b \subseteq committed /\ Cardinality(b) <= MaxFold
    /\ \A m \in b : m > s.covers
    /\ \A m \in committed \ late : s.covers < m /\ m <= Max(b) => m \in b
    /\ Cardinality({m \in committed : m > Max(b)}) >= Window

BatchesFollow == \A f \in Folds :
    /\ fold[f].pc \in {"none", "count", "batch"} => fold[f].batch = {}
    /\ fold[f].pc = "append" => fold[f].batch # {}
    /\ fold[f].batch # {} => BatchFollows(fold[f].prev, fold[f].batch)

\* A window follows what a summary covers.
WindowFollows == \A i \in DOMAIN summaries : Cardinality(After(summaries[i].covers)) >= Window

SummaryInv == SummaryTyped /\ SummariesWhole /\ ReadsASummary /\ TailIsLong /\ BatchesFollow /\ WindowFollows

\* The oldest `n` of a set of messages: at most so many, everything before the last of them, and the rest after.
LEMMA OldestOnes == ASSUME NEW S \in SUBSET Messages, NEW n \in Nat, n > 0, Cardinality(S) >= n
    PROVE  /\ Oldest(S, n) # {} /\ Oldest(S, n) \subseteq S /\ Cardinality(Oldest(S, n)) <= n
           /\ \A m \in S : m <= Max(Oldest(S, n)) => m \in Oldest(S, n)
           /\ Cardinality({m \in S : m > Max(Oldest(S, n))}) >= Cardinality(S) - n
<1> DEFINE Before(m) == {o \in S : o < m}
           O == Oldest(S, n)
<1>1. MaxMessages \in Nat /\ S \subseteq Nat /\ S \subseteq 0..MaxMessages /\ S \subseteq 1..MaxMessages
  BY SummaryAssumption DEF Messages
<1>2. IsFiniteSet(S) /\ Cardinality(S) \in Nat
  <2>1. IsFiniteSet(1..MaxMessages)
    BY <1>1, 1 \in Int /\ MaxMessages \in Int, FS_Interval
  <2> QED BY <1>1, <2>1, FS_Subset, FS_CardinalityType
<1>3. \A m : IsFiniteSet(Before(m)) /\ Cardinality(Before(m)) \in Nat
  <2>1. \A m : Before(m) \in SUBSET S
    OBVIOUS
  <2> HIDE DEF Before
  <2> QED BY <1>2, <2>1, FS_Subset, FS_CardinalityType
<1>4. S # {}
  BY <1>2, FS_EmptySet
<1>5. O = {m \in S : Cardinality(Before(m)) < n}
  BY DEF Oldest
<1>6. O # {}
  <2>1. PICK first \in S : \A m \in S : first <= m
    BY <1>1, <1>4, FirstOfNumbers
  <2>2. Before(first) = {}
    <3>1. \A m \in S : first \in Nat /\ m \in Nat /\ ~(m < first)
      <4> SUFFICES ASSUME NEW m \in S PROVE first \in Nat /\ m \in Nat /\ ~(m < first)
        OBVIOUS
      <4>1. first \in Nat /\ m \in Nat /\ first <= m
        BY <1>1, <2>1
      <4> QED BY <4>1
    <3> QED BY <3>1
  <2>3. Cardinality(Before(first)) = 0
    BY <2>2, FS_EmptySet, Zenon
  <2> QED BY <1>5, <2>3
<1> DEFINE b == Max(O)
<1>7. b \in O /\ \A m \in O : m <= b
  <2>1. O \in SUBSET (0..MaxMessages)
    BY <1>1, <1>5
  <2> HIDE DEF O
  <2> QED BY <1>1, <1>6, <2>1, LastOfNumbers
<1>8. b \in S /\ Cardinality(Before(b)) < n
  BY <1>5, <1>7
<1>9. Cardinality(O) <= n
  <2>1. O \subseteq Before(b) \cup {b}
    <3> SUFFICES ASSUME NEW m \in O, m # b PROVE m \in Before(b)
      OBVIOUS
    <3>1. m \in S /\ m <= b /\ m \in Nat /\ b \in Nat
      BY <1>1, <1>5, <1>7, <1>8
    <3> QED BY <3>1
  <2>2. IsFiniteSet(Before(b) \cup {b}) /\ Cardinality(Before(b) \cup {b}) <= Cardinality(Before(b)) + 1
    <3> HIDE DEF Before, b
    <3> QED BY <1>3, FS_AddElement
  <2>3. Cardinality(O) <= Cardinality(Before(b) \cup {b}) /\ Cardinality(O) \in Nat
        /\ Cardinality(Before(b) \cup {b}) \in Nat
    <3> HIDE DEF Before, b, O
    <3> QED BY <2>1, <2>2, FS_Subset, FS_CardinalityType
  <2>4. Cardinality(Before(b)) \in Nat
    BY <1>3
  <2> HIDE DEF Before, b, O
  <2> QED BY <1>8, <2>2, <2>3, <2>4
<1>10. ASSUME NEW m \in S, m <= b PROVE m \in O
  <2>1. Before(m) \subseteq Before(b)
    <3> SUFFICES ASSUME NEW o \in S, o < m PROVE o < b
      OBVIOUS
    <3>1. o \in Nat /\ m \in Nat /\ b \in Nat /\ m <= b
      <4> HIDE DEF b
      <4> QED BY <1>1, <1>8, <1>10
    <3> HIDE DEF b
    <3> QED BY <3>1
  <2>2. Cardinality(Before(m)) <= Cardinality(Before(b)) /\ Cardinality(Before(m)) \in Nat
        /\ Cardinality(Before(b)) \in Nat
    <3> HIDE DEF Before, b
    <3> QED BY <1>3, <2>1, FS_Subset
  <2> QED BY <1>5, <1>8, <2>2
<1>11. Cardinality({m \in S : m > b}) >= Cardinality(S) - n
  <2> DEFINE Rest == {m \in S : m > b}
  <2>1. S = O \cup Rest
    <3>1. ASSUME NEW m \in S PROVE m > b \/ m <= b
      <4>1. m \in Nat /\ b \in Nat
        BY <1>1, <1>8
      <4> HIDE DEF b
      <4> QED BY <4>1
    <3> QED BY <1>5, <1>10, <3>1
  <2>2. IsFiniteSet(O) /\ IsFiniteSet(Rest) /\ Cardinality(O) \in Nat /\ Cardinality(Rest) \in Nat
    <3>1. O \subseteq S /\ Rest \subseteq S
      BY <2>1
    <3> HIDE DEF O, Rest
    <3> QED BY <1>2, <3>1, FS_Subset, FS_CardinalityType
  <2>3. /\ Cardinality(O \cup Rest) = Cardinality(O) + Cardinality(Rest) - Cardinality(O \cap Rest)
        /\ Cardinality(O \cap Rest) \in Nat
    <3> HIDE DEF O, Rest
    <3> QED BY <2>2, FS_Union, FS_Intersection, FS_CardinalityType
  <2>4. Cardinality(S) = Cardinality(O) + Cardinality(Rest) - Cardinality(O \cap Rest)
    <3> HIDE DEF O, Rest
    <3> QED BY <2>1, <2>3
  <2> HIDE DEF O, Rest
  <2>5. Cardinality(Rest) >= Cardinality(S) - n
    BY <1>2, <1>9, <2>2, <2>3, <2>4
  <2> QED BY <2>5 DEF Rest
<1> QED BY <1>5, <1>6, <1>9, <1>10, <1>11

\* The sets of messages are finite, and a larger one has more.
LEMMA MessagesCount == ASSUME NEW S \in SUBSET Messages, NEW T \in SUBSET S
    PROVE  /\ IsFiniteSet(S) /\ IsFiniteSet(T) /\ Cardinality(S) \in Nat /\ Cardinality(T) \in Nat
           /\ Cardinality(T) <= Cardinality(S) /\ Cardinality(S) <= MaxMessages
<1>1. IsFiniteSet(1..MaxMessages) /\ Cardinality(1..MaxMessages) <= MaxMessages
  BY SummaryAssumption, 1 \in Int /\ MaxMessages \in Int, FS_Interval
<1>2. IsFiniteSet(S) /\ Cardinality(S) <= Cardinality(1..MaxMessages) /\ Cardinality(S) \in Nat
  BY <1>1, FS_Subset, FS_CardinalityType DEF Messages
<1>3. Cardinality(1..MaxMessages) \in Nat /\ MaxMessages \in Nat
  BY <1>1, FS_CardinalityType, SummaryAssumption
<1>4. IsFiniteSet(T) /\ Cardinality(T) <= Cardinality(S) /\ Cardinality(T) \in Nat
  BY <1>2, FS_Subset, FS_CardinalityType
<1> QED BY <1>1, <1>2, <1>3, <1>4

\* The last of a batch is one of it.
LEMMA LastOfBatch == ASSUME NEW b \in SUBSET Messages, b # {} PROVE Max(b) \in b /\ \A m \in b : m <= Max(b)
<1>1. MaxMessages \in Nat /\ b \in SUBSET (0..MaxMessages)
  BY SummaryAssumption DEF Messages
<1> QED BY <1>1, LastOfNumbers

\* A message that commits is in the tail, and late where a fold has gone past it.
LEMMA CommitKeepsMemory == ASSUME SummaryInv, NEW n \in Messages, CommitMessage(n) PROVE SummaryInv'
<1>1. /\ n \in 1..taken /\ n \notin committed /\ committed' = committed \cup {n}
      /\ late' = (IF Passed(n) THEN late \cup {n} ELSE late)
      /\ UNCHANGED <<taken, summaries, fold>>
  BY DEF CommitMessage
<1>2. SummaryTyped /\ committed \subseteq Messages /\ committed' \subseteq Messages /\ MaxMessages \in Nat
  BY <1>1, SummaryAssumption DEF SummaryInv, SummaryTyped, Messages
<1>3. SummaryTyped'
  BY <1>1, <1>2 DEF SummaryTyped
<1>4. \A m \in committed' \ late' : m \in committed \ late \/ (m = n /\ ~Passed(n))
  BY <1>1
<1>5. SummariesWhole'
  <2> SUFFICES ASSUME NEW i \in DOMAIN summaries
               PROVE  /\ \A m \in committed' \ late' : m <= summaries[i].covers => m \in summaries[i].from
                      /\ summaries[i].from \subseteq 1..summaries[i].covers
                      /\ summaries[i].count = Cardinality(summaries[i].from)
    BY <1>1 DEF SummariesWhole, Whole
  <2>1. Whole(summaries[i])
    BY DEF SummaryInv, SummariesWhole
  <2>2. ASSUME NEW m \in committed' \ late', m <= summaries[i].covers PROVE m \in summaries[i].from
    BY <1>4, <2>1, <2>2 DEF Whole, Passed
  <2> QED BY <2>1, <2>2 DEF Whole
<1>6. ReadsASummary'
  BY <1>1 DEF SummaryInv, ReadsASummary
<1>7. TailIsLong'
  <2> SUFFICES ASSUME NEW f \in Folds, fold[f].pc = "batch"
               PROVE  fold[f].takes > 0 /\ Cardinality({m \in committed' : m > fold[f].prev.covers}) >= fold[f].takes + Window
    BY <1>1 DEF TailIsLong, After
  <2> DEFINE A == After(fold[f].prev.covers)
             B == {m \in committed' : m > fold[f].prev.covers}
  <2>1. fold[f].takes > 0 /\ Cardinality(A) >= fold[f].takes + Window
    BY DEF SummaryInv, TailIsLong
  <2>2. A \subseteq B /\ B \subseteq Messages
    BY <1>1, <1>2 DEF After
  <2>3. fold[f].takes \in Nat /\ Window \in Nat
    BY <1>2, SummaryAssumption DEF SummaryTyped, FoldRow
  <2>4. Cardinality(A) <= Cardinality(B) /\ Cardinality(A) \in Nat /\ Cardinality(B) \in Nat
    <3> HIDE DEF A, B
    <3> QED BY <2>2, MessagesCount
  <2> HIDE DEF A
  <2>5. Cardinality(B) >= fold[f].takes + Window
    <3> HIDE DEF B
    <3> QED BY <2>1, <2>3, <2>4
  <2> QED BY <2>1, <2>5
<1>8. BatchesFollow'
  <2> SUFFICES ASSUME NEW f \in Folds
               PROVE  /\ fold[f].pc \in {"none", "count", "batch"} => fold[f].batch = {}
                      /\ fold[f].pc = "append" => fold[f].batch # {}
                      /\ fold[f].batch # {} => BatchFollows(fold[f].prev, fold[f].batch)'
    BY <1>1 DEF BatchesFollow
  <2>1. /\ fold[f].pc \in {"none", "count", "batch"} => fold[f].batch = {}
        /\ fold[f].pc = "append" => fold[f].batch # {}
    BY DEF SummaryInv, BatchesFollow
  <2>2. ASSUME fold[f].batch # {} PROVE BatchFollows(fold[f].prev, fold[f].batch)'
    <3> DEFINE b == fold[f].batch
               A == {m \in committed : m > Max(b)}
               B == {m \in committed' : m > Max(b)}
    <3>1. BatchFollows(fold[f].prev, b)
      BY <2>2 DEF SummaryInv, BatchesFollow
    <3>2. A \subseteq B /\ B \subseteq Messages
      BY <1>1, <1>2
    <3>3. Cardinality(A) <= Cardinality(B) /\ Cardinality(A) \in Nat /\ Cardinality(B) \in Nat
      <4> HIDE DEF A, B
      <4> QED BY <3>2, MessagesCount
    <3>4. Cardinality(B) >= Window
      <4>1. Cardinality(A) >= Window
        BY <3>1 DEF BatchFollows
      <4> HIDE DEF A, B
      <4> QED BY <3>3, <4>1, SummaryAssumption
    <3>5. b \in SUBSET Messages
      BY <1>2 DEF SummaryTyped, FoldRow
    <3>6. Max(b) \in b
      BY <2>2, <3>5, LastOfBatch
    <3>7. ASSUME NEW m \in committed' \ late', fold[f].prev.covers < m, m <= Max(b) PROVE m \in b
      BY <1>4, <3>1, <3>6, <3>7 DEF BatchFollows, Passed
    <3>8. b \subseteq committed' /\ Cardinality(b) <= MaxFold /\ \A m \in b : m > fold[f].prev.covers
      BY <1>1, <3>1 DEF BatchFollows
    <3>9. fold' = fold
      BY <1>1
    <3> QED BY <3>4, <3>7, <3>8, <3>9 DEF BatchFollows
  <2> QED BY <2>1, <2>2
<1>9. WindowFollows'
  <2> SUFFICES ASSUME NEW i \in DOMAIN summaries
               PROVE  Cardinality({m \in committed' : m > summaries[i].covers}) >= Window
    BY <1>1 DEF WindowFollows, After
  <2> DEFINE A == After(summaries[i].covers)
             B == {m \in committed' : m > summaries[i].covers}
  <2>1. Cardinality(A) >= Window
    BY DEF SummaryInv, WindowFollows
  <2>2. A \subseteq B /\ B \subseteq Messages
    BY <1>1, <1>2 DEF After
  <2> HIDE DEF A
  <2>3. Cardinality(B) >= Window
    <3> HIDE DEF B
    <3> QED BY <2>1, <2>2, MessagesCount, SummaryAssumption
  <2> QED BY <2>3
<1> QED BY <1>3, <1>5, <1>6, <1>7, <1>8, <1>9 DEF SummaryInv

\* A run that moves keeps the memory when its new place does.
LEMMA FoldMoves == ASSUME SummaryInv, NEW f \in Folds, NEW now \in FoldRow, fold' = [fold EXCEPT ![f] = now],
        UNCHANGED <<taken, committed, late, summaries>>,
        now.prev = NoSummary \/ \E i \in DOMAIN summaries : summaries[i] = now.prev,
        now.pc = "batch" => now.takes > 0 /\ Cardinality(After(now.prev.covers)) >= now.takes + Window,
        now.pc \in {"none", "count", "batch"} => now.batch = {},
        now.pc = "append" => now.batch # {},
        now.batch # {} => BatchFollows(now.prev, now.batch)
    PROVE  SummaryInv'
<1>1. fold \in [Folds -> FoldRow]
  BY DEF SummaryInv, SummaryTyped
<1>2. fold' \in [Folds -> FoldRow] /\ fold'[f] = now /\ \A o \in Folds \ {f} : fold'[o] = fold[o]
  <2> HIDE DEF FoldRow
  <2> QED BY <1>1
<1>3. SummaryTyped'
  BY <1>2 DEF SummaryInv, SummaryTyped
<1>4. SummariesWhole'
  BY DEF SummaryInv, SummariesWhole, Whole
<1>5. ReadsASummary'
  BY <1>2 DEF SummaryInv, ReadsASummary
<1>6. \A n : After(n)' = After(n)
  BY DEF After
<1>7. TailIsLong'
  <2> SUFFICES ASSUME NEW o \in Folds, fold'[o].pc = "batch"
               PROVE  fold'[o].takes > 0 /\ Cardinality(After(fold'[o].prev.covers)) >= fold'[o].takes + Window
    BY <1>6 DEF TailIsLong, After
  <2>1. CASE o = f
    BY <1>2, <2>1
  <2>2. CASE o # f
    BY <1>2, <2>2 DEF SummaryInv, TailIsLong
  <2> QED BY <2>1, <2>2
<1>8. \A s, b : BatchFollows(s, b)' <=> BatchFollows(s, b)
  BY DEF BatchFollows
<1>9. BatchesFollow'
  <2> SUFFICES ASSUME NEW o \in Folds
               PROVE  /\ fold'[o].pc \in {"none", "count", "batch"} => fold'[o].batch = {}
                      /\ fold'[o].pc = "append" => fold'[o].batch # {}
                      /\ fold'[o].batch # {} => BatchFollows(fold'[o].prev, fold'[o].batch)
    BY <1>8 DEF BatchesFollow, BatchFollows
  <2>1. CASE o = f
    BY <1>2, <2>1
  <2>2. CASE o # f
    BY <1>2, <2>2 DEF SummaryInv, BatchesFollow
  <2> QED BY <2>1, <2>2
<1>10. WindowFollows'
  BY <1>6 DEF SummaryInv, WindowFollows, After
<1> QED BY <1>3, <1>4, <1>5, <1>7, <1>9, <1>10 DEF SummaryInv

\* What a run keeps of its place whatever it does.
LEMMA FoldPlace == ASSUME SummaryInv, NEW f \in Folds
    PROVE  /\ fold[f] \in FoldRow /\ fold \in [Folds -> FoldRow]
           /\ fold[f].pc \in FoldPc /\ fold[f].prev \in Summary /\ fold[f].takes \in 0..MaxFold
           /\ fold[f].batch \in SUBSET Messages /\ fold[f].prev.covers \in 0..MaxMessages
           /\ fold[f].prev = NoSummary \/ \E i \in DOMAIN summaries : summaries[i] = fold[f].prev
           /\ fold[f].batch # {} => BatchFollows(fold[f].prev, fold[f].batch)
           /\ fold[f].pc \in {"none", "count", "batch"} => fold[f].batch = {}
           /\ MaxFold \in Nat \ {0} /\ Window \in Nat /\ Trigger \in Nat /\ MaxMessages \in Nat
<1>1. fold[f] \in FoldRow /\ fold \in [Folds -> FoldRow]
  BY DEF SummaryInv, SummaryTyped
<1>2. /\ fold[f].pc \in FoldPc /\ fold[f].prev \in Summary /\ fold[f].takes \in 0..MaxFold
      /\ fold[f].batch \in SUBSET Messages
  BY <1>1 DEF FoldRow
<1>3. fold[f].prev.covers \in 0..MaxMessages
  BY <1>2 DEF Summary
<1>4. fold[f].prev = NoSummary \/ \E i \in DOMAIN summaries : summaries[i] = fold[f].prev
  BY DEF SummaryInv, ReadsASummary
<1>5. /\ fold[f].batch # {} => BatchFollows(fold[f].prev, fold[f].batch)
      /\ fold[f].pc \in {"none", "count", "batch"} => fold[f].batch = {}
  BY DEF SummaryInv, BatchesFollow
<1> QED BY <1>1, <1>2, <1>3, <1>4, <1>5, SummaryAssumption

\* The latest summary is one of them, or there is none.
LEMMA LatestIsThere == ASSUME SummaryInv
    PROVE  LatestSummary \in Summary /\ (LatestSummary = NoSummary \/ \E i \in DOMAIN summaries : summaries[i] = LatestSummary)
<1>1. summaries \in Seq(Summary)
  BY DEF SummaryInv, SummaryTyped
<1>2. CASE summaries = <<>>
  <2>1. NoSummary \in Summary
    BY SummaryAssumption DEF NoSummary, Summary
  <2> QED BY <1>2, <2>1 DEF LatestSummary
<1>3. CASE summaries # <<>>
  <2>1. Len(summaries) \in DOMAIN summaries /\ summaries[Len(summaries)] \in Summary
    <3> HIDE DEF Summary
    <3> QED BY <1>1, <1>3
  <2> QED BY <1>3, <2>1 DEF LatestSummary
<1> QED BY <1>2, <1>3

\* The messages there are have seqs that were taken.
LEMMA CommittedMessages == ASSUME SummaryInv
    PROVE committed \subseteq Messages /\ committed \subseteq Nat /\ \A n : After(n) \subseteq committed
<1>1. committed \subseteq 1..taken /\ taken \in 0..MaxMessages /\ MaxMessages \in Nat
  BY SummaryAssumption DEF SummaryInv, SummaryTyped
<1>2. 1..taken \subseteq 1..MaxMessages /\ 1..taken \subseteq Nat
  BY <1>1
<1> QED BY <1>1, <1>2 DEF Messages, After

\* A run begins from the latest summary.
LEMMA ReadLatestKeeps == ASSUME SummaryInv, NEW f \in Folds, ReadLatest(f) PROVE SummaryInv'
<1> DEFINE now == [fold[f] EXCEPT !.pc = "count", !.prev = LatestSummary]
<1>1. fold' = [fold EXCEPT ![f] = now] /\ UNCHANGED <<taken, committed, late, summaries>>
  BY FoldPlace DEF ReadLatest
<1>2. fold[f].pc = "none" /\ fold[f].batch = {}
  BY FoldPlace DEF ReadLatest
<1>3. now \in FoldRow /\ now.pc = "count" /\ now.prev = LatestSummary /\ now.batch = {}
  BY <1>2, FoldPlace, LatestIsThere DEF FoldRow, FoldPc
<1> HIDE DEF now
<1> QED BY <1>1, <1>3, LatestIsThere, FoldMoves

\* It goes on when the tail has outgrown the window and a batch.
LEMMA CountTailKeeps == ASSUME SummaryInv, NEW f \in Folds, CountTail(f) PROVE SummaryInv'
<1> DEFINE tail == Cardinality(After(fold[f].prev.covers))
<1>1. /\ fold[f].pc = "count" /\ fold[f].batch = {}
      /\ UNCHANGED <<taken, committed, late, summaries>>
  BY FoldPlace DEF CountTail
<1>2. CASE tail <= Window + Trigger
  <2> DEFINE now == [fold[f] EXCEPT !.pc = "over"]
  <2>1. fold' = [fold EXCEPT ![f] = now]
    BY <1>2, FoldPlace DEF CountTail
  <2>2. now \in FoldRow /\ now.pc = "over" /\ now.prev = fold[f].prev /\ now.batch = {}
    BY <1>1, FoldPlace DEF FoldRow, FoldPc
  <2> HIDE DEF now
  <2> QED BY <1>1, <2>1, <2>2, FoldPlace, FoldMoves
<1>3. CASE ~(tail <= Window + Trigger)
  <2> DEFINE k == AtMost(tail - Window, MaxFold)
             now == [fold[f] EXCEPT !.pc = "batch", !.takes = k]
  <2>1. fold' = [fold EXCEPT ![f] = now]
    BY <1>3, FoldPlace DEF CountTail
  <2>2. tail \in Nat /\ Window \in Nat /\ Trigger \in Nat /\ MaxFold \in Nat /\ MaxFold > 0
    <3>1. After(fold[f].prev.covers) \in SUBSET Messages
      BY CommittedMessages
    <3> QED BY <3>1, MessagesCount, SummaryAssumption
  <2>3. k \in 0..MaxFold /\ k > 0 /\ tail >= k + Window
    <3> HIDE DEF tail
    <3> QED BY <1>3, <2>2 DEF AtMost
  <2>4. now \in FoldRow /\ now.pc = "batch" /\ now.prev = fold[f].prev /\ now.batch = {} /\ now.takes = k
    <3> HIDE DEF k
    <3> QED BY <1>1, <2>3, FoldPlace DEF FoldRow, FoldPc
  <2>5. now.takes > 0 /\ Cardinality(After(now.prev.covers)) >= now.takes + Window
    <3> HIDE DEF now, k
    <3> QED BY <2>3, <2>4
  <2> HIDE DEF now, k, tail
  <2> QED BY <1>1, <2>1, <2>4, <2>5, FoldPlace, FoldMoves
<1> QED BY <1>2, <1>3

\* Its batch follows what its summary covers.
LEMMA ReadBatchKeeps == ASSUME SummaryInv, NEW f \in Folds, ReadBatch(f) PROVE SummaryInv'
<1> DEFINE S == After(fold[f].prev.covers)
           n == fold[f].takes
           b == Oldest(S, n)
           now == [fold[f] EXCEPT !.pc = "append", !.batch = b]
<1>1. /\ fold[f].pc = "batch" /\ UNCHANGED <<taken, committed, late, summaries>>
      /\ fold' = [fold EXCEPT ![f] = now]
  BY FoldPlace DEF ReadBatch
<1>2. /\ S \in SUBSET Messages /\ S \subseteq committed /\ committed \subseteq Messages /\ committed \subseteq Nat
      /\ n \in Nat /\ n > 0 /\ n <= MaxFold /\ MaxFold \in Nat /\ Window \in Nat
      /\ Cardinality(S) >= n + Window /\ Cardinality(S) \in Nat
  <2>1. S \in SUBSET Messages /\ S \subseteq committed /\ committed \subseteq Messages /\ committed \subseteq Nat
    BY CommittedMessages
  <2>2. n > 0 /\ Cardinality(S) >= n + Window
    BY <1>1 DEF SummaryInv, TailIsLong
  <2>3. n \in Nat /\ n <= MaxFold /\ MaxFold \in Nat /\ Window \in Nat
    BY FoldPlace
  <2> QED BY <2>1, <2>2, <2>3, MessagesCount
<1>3. Cardinality(S) >= n
  <2> HIDE DEF S, n
  <2> QED BY <1>2
<1>4. /\ b # {} /\ b \subseteq S /\ Cardinality(b) <= n
      /\ \A m \in S : m <= Max(b) => m \in b
      /\ Cardinality({m \in S : m > Max(b)}) >= Cardinality(S) - n
  <2> HIDE DEF S, n
  <2> QED BY <1>2, <1>3, OldestOnes
<1>5. b \in SUBSET Messages /\ Max(b) \in b /\ Max(b) \in S /\ Max(b) \in Nat
  <2> HIDE DEF S, n, b
  <2> QED BY <1>2, <1>4, LastOfBatch
<1>6. now \in FoldRow /\ now.pc = "append" /\ now.prev = fold[f].prev /\ now.batch = b
  <2> HIDE DEF b
  <2> QED BY <1>5, FoldPlace DEF FoldRow, FoldPc
<1>7. \A m \in committed : m \in S <=> m > fold[f].prev.covers
  BY DEF After
<1>8. BatchFollows(fold[f].prev, b)
  <2>1. Cardinality(b) <= MaxFold
    <3>1. Cardinality(b) \in Nat
      <4> HIDE DEF b
      <4> QED BY <1>5, MessagesCount
    <3> HIDE DEF b, n
    <3> QED BY <1>2, <1>4, <3>1
  <2>2. ASSUME NEW m \in committed, fold[f].prev.covers < m, m <= Max(b) PROVE m \in b
    <3>1. m > fold[f].prev.covers
      BY <1>2, <2>2, FoldPlace
    <3> HIDE DEF b, S
    <3> QED BY <1>4, <1>7, <2>2, <3>1
  <2>3. Cardinality({m \in committed : m > Max(b)}) >= Window
    <3> DEFINE A == {m \in S : m > Max(b)}
               B == {m \in committed : m > Max(b)}
    <3>1. A \subseteq B /\ B \subseteq Messages
      BY <1>2
    <3>2. Cardinality(A) <= Cardinality(B) /\ Cardinality(A) \in Nat /\ Cardinality(B) \in Nat
      <4> HIDE DEF A, B
      <4> QED BY <3>1, MessagesCount
    <3>3. Cardinality(A) >= Cardinality(S) - n
      BY <1>4
    <3> HIDE DEF A, S, n
    <3>4. Cardinality(B) >= Window
      <4> HIDE DEF B
      <4> QED BY <1>2, <3>2, <3>3
    <3> QED BY <3>4
  <2>4. b \subseteq committed /\ \A m \in b : m > fold[f].prev.covers
    <3> HIDE DEF b, S
    <3> QED BY <1>2, <1>4, <1>7
  <2> HIDE DEF b
  <2> QED BY <2>1, <2>2, <2>3, <2>4 DEF BatchFollows
<1> HIDE DEF now, b
<1> QED BY <1>1, <1>4, <1>6, <1>8, FoldPlace, FoldMoves

\* A run that gives up leaves what there is.
LEMMA GiveUpKeeps == ASSUME SummaryInv, NEW f \in Folds, GiveUp(f) PROVE SummaryInv'
<1> DEFINE now == [fold[f] EXCEPT !.pc = "over"]
<1>1. fold' = [fold EXCEPT ![f] = now] /\ UNCHANGED <<taken, committed, late, summaries>>
  BY FoldPlace DEF GiveUp
<1>2. now \in FoldRow /\ now.pc = "over" /\ now.prev = fold[f].prev /\ now.batch = fold[f].batch
  BY FoldPlace DEF FoldRow, FoldPc
<1> HIDE DEF now
<1> QED BY <1>1, <1>2, FoldPlace, FoldMoves

\* The earlier summary and a batch that follows it make one that is whole.
LEMMA FoldedIsWhole == ASSUME SummaryInv, NEW f \in Folds, fold[f].pc = "append"
    PROVE  Folded(fold[f].prev, fold[f].batch) \in Summary /\ Whole(Folded(fold[f].prev, fold[f].batch))
<1> DEFINE p == fold[f].prev
           b == fold[f].batch
           s == Folded(p, b)
<1>1. b \in SUBSET Messages /\ b # {} /\ BatchFollows(p, b) /\ p \in Summary /\ p.covers \in 0..MaxMessages
  <2>1. b # {}
    BY DEF SummaryInv, BatchesFollow
  <2> QED BY <2>1, FoldPlace
<1>2. p = NoSummary \/ Whole(p)
  BY FoldPlace DEF SummaryInv, SummariesWhole
<1>3. p.from \subseteq 1..p.covers /\ p.count = Cardinality(p.from)
      /\ \A m \in committed \ late : m <= p.covers => m \in p.from
  <2>1. CASE p = NoSummary
    <3>1. p.covers = 0 /\ p.from = {} /\ p.count = 0
      BY <2>1 DEF NoSummary
    <3>2. \A m \in committed : ~(m <= 0)
      BY CommittedMessages, SummaryAssumption DEF Messages
    <3> HIDE DEF p
    <3> QED BY <3>1, <3>2, FS_EmptySet
  <2>2. CASE Whole(p)
    BY <2>2 DEF Whole
  <2> QED BY <1>2, <2>1, <2>2
<1> DEFINE last == Max(b)
<1>4. last \in b /\ last \in Messages /\ \A m \in b : m <= last
  BY <1>1, LastOfBatch
<1>5. s.covers = last /\ s.from = p.from \cup b /\ s.count = p.count + Cardinality(b)
  BY DEF Folded
<1>6. \A m \in b : m > p.covers
  BY <1>1 DEF BatchFollows
<1>7. p.from \cap b = {} /\ p.from \subseteq Messages
  <2> HIDE DEF b, p
  <2>1. p.covers \in Nat /\ p.covers <= MaxMessages /\ MaxMessages \in Nat
    BY <1>1, SummaryAssumption
  <2>2. \A m \in p.from : m \in Nat /\ m <= p.covers /\ 1 <= m
    BY <1>3, <2>1
  <2>3. \A m \in b : ~(m <= p.covers)
    BY <1>1, <1>6, <2>1 DEF Messages
  <2> QED BY <2>1, <2>2, <2>3 DEF Messages
<1>8. s.from \in SUBSET Messages /\ s.count = Cardinality(s.from) /\ s.count \in 0..MaxMessages
  <2>1. IsFiniteSet(b) /\ IsFiniteSet(p.from) /\ Cardinality(b) \in Nat /\ Cardinality(p.from) \in Nat
    <3> HIDE DEF b, p
    <3> QED BY <1>1, <1>7, MessagesCount
  <2>2. Cardinality(p.from \cup b) = Cardinality(p.from) + Cardinality(b) - Cardinality(p.from \cap b)
    <3> HIDE DEF b, p
    <3> QED BY <2>1, FS_Union
  <2>3. Cardinality(p.from \cap b) = 0
    <3> HIDE DEF b, p
    <3> QED BY <1>7, FS_EmptySet, Zenon
  <2>4. p.from \cup b \in SUBSET Messages
    BY <1>1, <1>7
  <2>5. Cardinality(p.from \cup b) <= MaxMessages /\ Cardinality(p.from \cup b) \in Nat
    <3> HIDE DEF b, p
    <3> QED BY <2>4, MessagesCount
  <2>6. Cardinality(p.from \cup b) = p.count + Cardinality(b)
    <3> HIDE DEF b, p
    <3> QED BY <1>3, <2>1, <2>2, <2>3
  <2>7. MaxMessages \in Nat
    BY SummaryAssumption
  <2> HIDE DEF b, p, s
  <2> QED BY <1>5, <2>4, <2>5, <2>6, <2>7
<1>9. s \in Summary
  <2>1. s = [covers |-> last, count |-> s.count, from |-> s.from]
    BY DEF Folded
  <2>2. last \in 0..MaxMessages
    BY <1>4, SummaryAssumption DEF Messages
  <2> HIDE DEF s, last
  <2> QED BY <1>8, <2>1, <2>2 DEF Summary
<1>10. ASSUME NEW m \in committed \ late, m <= s.covers PROVE m \in s.from
  <2>1. m \in Nat /\ p.covers \in Nat
    BY CommittedMessages, <1>1
  <2>2. CASE m <= p.covers
    BY <1>3, <1>5, <2>2
  <2>3. CASE ~(m <= p.covers)
    <3>1. p.covers < m /\ m <= Max(b)
      <4> HIDE DEF p, b, s
      <4> QED BY <1>5, <1>10, <2>1, <2>3
    <3>2. m \in b
      <4> HIDE DEF p, b, s
      <4> QED BY <1>1, <3>1 DEF BatchFollows
    <3> QED BY <1>5, <3>2
  <2> QED BY <2>2, <2>3
<1>11. s.from \subseteq 1..s.covers
  <2>1. last \in Nat /\ p.covers \in Nat /\ p.covers < last
    BY <1>1, <1>4, <1>6, SummaryAssumption DEF Messages
  <2>2. \A m \in p.from : m \in Nat /\ m <= p.covers /\ 1 <= m
    <3> HIDE DEF p
    <3> QED BY <1>1, <1>3
  <2>3. \A m \in b : m \in Nat /\ 1 <= m /\ m <= last
    <3> HIDE DEF b, last
    <3> QED BY <1>1, <1>4, SummaryAssumption DEF Messages
  <2> HIDE DEF p, b, s, last
  <2> QED BY <1>5, <2>1, <2>2, <2>3
<1>12. Whole(s)
  <2> HIDE DEF s
  <2> QED BY <1>8, <1>10, <1>11 DEF Whole
<1> QED BY <1>9, <1>12

\* A summary is added, or one that covers as much was before it.
LEMMA AppendSummaryKeeps == ASSUME SummaryInv, NEW f \in Folds, AppendSummary(f) PROVE SummaryInv'
<1> DEFINE s == Folded(fold[f].prev, fold[f].batch)
           now == [fold[f] EXCEPT !.pc = "over"]
<1>1. /\ fold[f].pc = "append" /\ fold' = [fold EXCEPT ![f] = now] /\ UNCHANGED <<taken, committed, late>>
      /\ summaries' = summaries \/ summaries' = Append(summaries, s)
  BY FoldPlace DEF AppendSummary
<1>2. now \in FoldRow /\ now.pc = "over" /\ now.prev = fold[f].prev /\ now.batch = fold[f].batch
  BY FoldPlace DEF FoldRow, FoldPc
<1>3. s \in Summary /\ Whole(s) /\ summaries \in Seq(Summary)
  BY <1>1, FoldedIsWhole DEF SummaryInv, SummaryTyped
<1>4. /\ summaries' \in Seq(Summary)
      /\ \A i \in DOMAIN summaries : i \in DOMAIN summaries' /\ summaries'[i] = summaries[i]
      /\ \A i \in DOMAIN summaries' : i \in DOMAIN summaries \/ summaries'[i] = s
  <2> HIDE DEF s
  <2>1. CASE summaries' = summaries
    BY <1>3, <2>1
  <2>2. CASE summaries' = Append(summaries, s)
    <3> HIDE DEF Summary
    <3> QED BY <1>3, <2>2, AppendProperties
  <2> QED BY <1>1, <2>1, <2>2
<1> HIDE DEF s, now
<1>5. fold' \in [Folds -> FoldRow] /\ fold'[f] = now /\ \A o \in Folds \ {f} : fold'[o] = fold[o]
  <2> HIDE DEF FoldRow
  <2> QED BY <1>1, <1>2, FoldPlace
<1>6. \A o \in Folds : fold'[o].prev = fold[o].prev /\ fold'[o].batch = fold[o].batch
      /\ (fold'[o].pc = fold[o].pc \/ fold'[o].pc = "over")
  BY <1>2, <1>5
<1>7. SummaryTyped'
  BY <1>1, <1>4, <1>5 DEF SummaryInv, SummaryTyped
<1>8. SummariesWhole'
  <2>1. \A i \in DOMAIN summaries' : Whole(summaries'[i])
    BY <1>3, <1>4 DEF SummaryInv, SummariesWhole
  <2> QED BY <1>1, <2>1 DEF SummariesWhole, Whole
<1>9. ReadsASummary'
  BY <1>4, <1>6 DEF SummaryInv, ReadsASummary
<1>10. TailIsLong'
  <2> SUFFICES ASSUME NEW o \in Folds, fold'[o].pc = "batch"
               PROVE  fold'[o].takes > 0 /\ Cardinality(After(fold'[o].prev.covers)) >= fold'[o].takes + Window
    BY <1>1 DEF TailIsLong, After
  <2>1. o # f
    BY <1>2, <1>5
  <2> QED BY <1>5, <2>1 DEF SummaryInv, TailIsLong
<1>11. BatchesFollow'
  BY <1>1, <1>6 DEF SummaryInv, BatchesFollow, BatchFollows
<1>12. Cardinality(After(s.covers)) >= Window
  <2>1. fold[f].batch # {} /\ fold[f].batch \in SUBSET Messages
    BY <1>1, FoldPlace DEF SummaryInv, BatchesFollow
  <2>2. BatchFollows(fold[f].prev, fold[f].batch)
    BY <2>1 DEF SummaryInv, BatchesFollow
  <2>3. s.covers = Max(fold[f].batch)
    BY DEF s, Folded
  <2> QED BY <2>2, <2>3 DEF BatchFollows, After
<1>13. WindowFollows'
  <2>1. \A i \in DOMAIN summaries' : Cardinality(After(summaries'[i].covers)) >= Window
    BY <1>4, <1>12 DEF SummaryInv, WindowFollows
  <2> QED BY <1>1, <2>1 DEF WindowFollows, After
<1> QED BY <1>7, <1>8, <1>9, <1>10, <1>11, <1>13 DEF SummaryInv

\* At first there is nothing to forget.
LEMMA MemoryBegins == ASSUME SummaryInit PROVE SummaryInv
<1>1. MaxMessages \in Nat /\ MaxFold \in Nat
  BY SummaryAssumption
<1>2. NoFold \in FoldRow /\ NoFold.pc = "none" /\ NoFold.batch = {} /\ NoFold.prev = NoSummary
  BY <1>1 DEF NoFold, FoldRow, FoldPc, NoSummary, Summary
<1>3. SummaryTyped
  <2>1. fold \in [Folds -> FoldRow]
    <3> HIDE DEF FoldRow, NoFold
    <3> QED BY <1>2 DEF SummaryInit
  <2>2. summaries \in Seq(Summary)
    <3> HIDE DEF Summary
    <3> QED BY DEF SummaryInit
  <2> QED BY <1>1, <2>1, <2>2 DEF SummaryInit, SummaryTyped
<1>4. SummariesWhole
  BY DEF SummaryInit, SummariesWhole
<1>6. WindowFollows
  BY DEF SummaryInit, WindowFollows
<1>5. ReadsASummary /\ TailIsLong /\ BatchesFollow
  <2> HIDE DEF NoFold
  <2> QED BY <1>2 DEF SummaryInit, ReadsASummary, TailIsLong, BatchesFollow
<1> QED BY <1>3, <1>4, <1>5, <1>6 DEF SummaryInv

\* No step of the summary forgets.
LEMMA MemoryGoesOn == SummaryInv /\ [SummaryNext]_summaryVars => SummaryInv'
<1> SUFFICES ASSUME SummaryInv, [SummaryNext]_summaryVars PROVE SummaryInv'
  OBVIOUS
<1>1. ASSUME UNCHANGED summaryVars PROVE SummaryInv'
  <2> USE <1>1 DEF summaryVars
  <2>1. SummaryTyped' /\ ReadsASummary'
    BY DEF SummaryInv, SummaryTyped, ReadsASummary
  <2>2. SummariesWhole'
    BY DEF SummaryInv, SummariesWhole, Whole
  <2>3. TailIsLong'
    BY DEF SummaryInv, TailIsLong, After
  <2>4. BatchesFollow'
    BY DEF SummaryInv, BatchesFollow, BatchFollows
  <2>5. WindowFollows'
    BY DEF SummaryInv, WindowFollows, After
  <2> QED BY <2>1, <2>2, <2>3, <2>4, <2>5 DEF SummaryInv
<1>2. ASSUME TakeSeq PROVE SummaryInv'
  <2> USE <1>2 DEF TakeSeq
  <2>1. SummaryTyped'
    BY SummaryAssumption DEF SummaryInv, SummaryTyped
  <2>2. SummariesWhole' /\ ReadsASummary'
    BY DEF SummaryInv, SummariesWhole, Whole, ReadsASummary
  <2>3. TailIsLong'
    BY DEF SummaryInv, TailIsLong, After
  <2>4. BatchesFollow'
    BY DEF SummaryInv, BatchesFollow, BatchFollows
  <2>5. WindowFollows'
    BY DEF SummaryInv, WindowFollows, After
  <2> QED BY <2>1, <2>2, <2>3, <2>4, <2>5 DEF SummaryInv
<1> QED BY <1>1, <1>2, CommitKeepsMemory, ReadLatestKeeps, CountTailKeeps, ReadBatchKeeps, GiveUpKeeps,
           AppendSummaryKeeps DEF SummaryNext

\* The invariant holds, and with it the types.
LEMMA SummaryInvHolds == SummarySpec => []SummaryInv
BY MemoryBegins, MemoryGoesOn, PTL DEF SummarySpec

\* Every variable of the summary keeps its type, and a batch its limit.
LEMMA SummaryTypes == SummarySpec => []SummaryTypeOK
<1>1. ASSUME SummaryInv PROVE SummaryTypeOK
  <2>1. \A i \in DOMAIN summaries : summaries[i] \in Summary
    <3> HIDE DEF Summary
    <3> QED BY <1>1 DEF SummaryInv, SummaryTyped
  <2>2. \A f \in Folds : Cardinality(fold[f].batch) <= MaxFold
    <3> SUFFICES ASSUME NEW f \in Folds PROVE Cardinality(fold[f].batch) <= MaxFold
      OBVIOUS
    <3>1. CASE fold[f].batch = {}
      <4>1. Cardinality(fold[f].batch) = 0
        BY <3>1, FS_EmptySet
      <4> QED BY <4>1, SummaryAssumption
    <3>2. CASE fold[f].batch # {}
      BY <1>1, <3>2 DEF SummaryInv, BatchesFollow, BatchFollows
    <3> QED BY <3>1, <3>2
  <2> QED BY <1>1, <2>1, <2>2 DEF SummaryInv, SummaryTyped, SummaryTypeOK, FoldRow, FoldPc
<1> QED BY <1>1, SummaryInvHolds, PTL

\* The messages newer than one, in a tail.
Newer(m, S) == {o \in S : o > m}

\* A message the window leaves out: the tail is longer than what starts a fold, and all the window holds is newer.
LEMMA OutOfTheWindow == ASSUME SummaryInv, NEW m \in committed, m > Floor, m \notin Verbatim
    PROVE  FoldIsDue /\ \A o \in Verbatim : o > m
<1> DEFINE A == After(Floor)
           n == Window + Trigger
<1>1. A \subseteq Messages /\ m \in A /\ Messages \subseteq Nat /\ n \in Nat
  BY CommittedMessages, SummaryAssumption DEF After, Messages
<1>2. \A o \in A : Newer(o, A) \subseteq A /\ Cardinality(Newer(o, A)) \in Nat
  <2> HIDE DEF A
  <2> SUFFICES ASSUME NEW o \in A PROVE Newer(o, A) \subseteq A /\ Cardinality(Newer(o, A)) \in Nat
    OBVIOUS
  <2>1. Newer(o, A) \subseteq A
    BY DEF Newer
  <2> QED BY <1>1, <2>1, MessagesCount
<1>3. Verbatim = {o \in A : Cardinality(Newer(o, A)) < n}
  BY DEF Verbatim, Newest, Newer
<1> HIDE DEF A, n
<1>4. Cardinality(Newer(m, A)) >= n
  BY <1>1, <1>2, <1>3
<1>5. FoldIsDue
  <2>1. Newer(m, A) \cup {m} \in SUBSET A /\ m \notin Newer(m, A)
    <3>1. ~(m > m)
      BY <1>1
    <3> QED BY <1>1, <1>2, <3>1 DEF Newer
  <2>2. IsFiniteSet(Newer(m, A)) /\ IsFiniteSet(A) /\ Cardinality(A) \in Nat
    BY <1>1, <1>2, MessagesCount
  <2>3. Cardinality(Newer(m, A) \cup {m}) = Cardinality(Newer(m, A)) + 1
    BY <2>1, <2>2, FS_AddElement
  <2>4. Cardinality(Newer(m, A) \cup {m}) <= Cardinality(A)
    BY <1>1, <2>1, MessagesCount
  <2>5. Cardinality(A) > n
    BY <1>1, <1>2, <1>4, <2>2, <2>3, <2>4
  <2> QED BY <2>5 DEF FoldIsDue, A, n
<1>6. ASSUME NEW o \in Verbatim PROVE o > m
  <2>1. o \in A /\ Cardinality(Newer(o, A)) < n
    BY <1>3
  <2>2. o \in Nat /\ m \in Nat
    BY <1>1, <2>1
  <2>3. SUFFICES ASSUME o <= m PROVE FALSE
    BY <2>2
  <2>4. Newer(m, A) \in SUBSET Newer(o, A)
    <3> SUFFICES ASSUME NEW x \in A, x > m PROVE x > o
      BY DEF Newer
    <3>1. x \in Nat
      BY <1>1
    <3> QED BY <2>2, <2>3, <3>1
  <2>5. Newer(o, A) \subseteq Messages
    BY <1>1, <1>2, <2>1
  <2>6. Cardinality(Newer(m, A)) <= Cardinality(Newer(o, A))
    BY <2>4, <2>5, MessagesCount
  <2> QED BY <1>1, <1>2, <1>4, <2>1, <2>6
<1> QED BY <1>5, <1>6

\* One that a window's worth of messages does not follow is beyond the latest summary, and in the window.
LEMMA LatestInTheWindow == ASSUME SummaryInv, NEW m \in committed, Cardinality(Newer(m, committed)) < Window
    PROVE  m \in Verbatim
<1>1. committed \subseteq Messages /\ Messages \subseteq Nat /\ Window \in Nat /\ Trigger \in Nat /\ Floor \in Nat
  <2>1. LatestSummary.covers \in 0..MaxMessages
    BY LatestIsThere DEF Summary
  <2> QED BY <2>1, CommittedMessages, SummaryAssumption DEF Messages, Floor
<1>2. Newer(m, committed) \in SUBSET committed
  BY DEF Newer
<1>3. m > Floor
  <2>1. CASE LatestSummary = NoSummary
    BY <1>1, <2>1 DEF Floor, NoSummary, Messages
  <2>2. CASE LatestSummary # NoSummary
    <3>1. Cardinality(After(Floor)) >= Window
      BY <2>2, LatestIsThere DEF SummaryInv, WindowFollows, Floor
    <3>2. SUFFICES ASSUME m <= Floor PROVE FALSE
      BY <1>1
    <3>3. After(Floor) \in SUBSET Newer(m, committed)
      <4> SUFFICES ASSUME NEW x \in committed, x > Floor PROVE x > m
        BY DEF After, Newer
      <4>1. x \in Nat /\ m \in Nat
        BY <1>1
      <4> QED BY <1>1, <3>2, <4>1
    <3>4. Newer(m, committed) \in SUBSET Messages
      BY <1>1, <1>2
    <3>5. Cardinality(After(Floor)) <= Cardinality(Newer(m, committed)) /\ Cardinality(After(Floor)) \in Nat
          /\ Cardinality(Newer(m, committed)) \in Nat
      BY <3>3, <3>4, MessagesCount
    <3> QED BY <1>1, <3>1, <3>5
  <2> QED BY <2>1, <2>2
<1>4. m \in After(Floor) /\ Newer(m, After(Floor)) \in SUBSET Newer(m, committed)
  BY <1>3 DEF After, Newer
<1>5. Newer(m, committed) \in SUBSET Messages
  BY <1>1, <1>2
<1>6. Cardinality(Newer(m, After(Floor))) <= Cardinality(Newer(m, committed))
      /\ Cardinality(Newer(m, After(Floor))) \in Nat /\ Cardinality(Newer(m, committed)) \in Nat
  BY <1>4, <1>5, MessagesCount
<1>7. Cardinality(Newer(m, After(Floor))) < Window + Trigger
  BY <1>1, <1>6
<1> QED BY <1>4, <1>7 DEF Verbatim, Newest, Newer

\* However many processes fold at once (summary.ts), every summary was made from each message up to the seq it
\* covers, but for the late ones; a summon (assembly.ts) is given each message, folded or word for word, but for
\* the late ones and, while a fold is due, the oldest of the tail; and always a window of the latest word for word.
THEOREM MemoryIsWholeHolds == SummarySpec => []MemoryIsWhole
<1>1. ASSUME SummaryInv PROVE NothingForgotten
  <2>1. \A i \in DOMAIN summaries :
            /\ {m \in committed \ late : m <= summaries[i].covers} \subseteq summaries[i].from
            /\ summaries[i].count = Cardinality(summaries[i].from)
    BY <1>1 DEF SummaryInv, SummariesWhole, Whole
  <2>2. ASSUME NEW m \in committed \ (LatestSummary.from \cup Verbatim)
        PROVE  IF m <= Floor THEN m \in late ELSE FoldIsDue /\ \A o \in Verbatim : o > m
    <3>1. m \in Nat /\ m >= 1 /\ LatestSummary.covers \in Nat
      BY <1>1, CommittedMessages, LatestIsThere, SummaryAssumption DEF Summary, Messages
    <3>2. ASSUME m <= Floor PROVE m \in late
      <4>1. LatestSummary # NoSummary
        BY <3>1, <3>2 DEF Floor, NoSummary
      <4>2. Whole(LatestSummary)
        BY <1>1, <4>1, LatestIsThere DEF SummaryInv, SummariesWhole
      <4> QED BY <2>2, <3>2, <4>2 DEF Whole, Floor
    <3>3. ASSUME ~(m <= Floor) PROVE FoldIsDue /\ \A o \in Verbatim : o > m
      <4>1. m > Floor
        BY <3>1, <3>3 DEF Floor
      <4> QED BY <1>1, <2>2, <4>1, OutOfTheWindow
    <3> QED BY <3>2, <3>3
  <2> QED BY <2>1, <2>2 DEF NothingForgotten
<1>2. ASSUME SummaryInv PROVE RecentStayVerbatim
  BY <1>2, LatestInTheWindow DEF RecentStayVerbatim, Newest, Newer
<1> QED BY <1>1, <1>2, SummaryInvHolds, PTL DEF MemoryIsWhole

-----------------------------------------------------------------------------
(* The documents of a room. *)

UploadPc == {"none", "insert", "append", "done", "full", "dead"}
RemovalPc == {"none", "update", "append", "done", "unknown", "dead"}
PaperEvents == {"added", "removed"} \X Uploads

DocumentsTyped ==
    /\ upload \in [Uploads -> UploadPc] /\ document \in [Uploads -> {"none", "held", "removed"}]
    /\ removal \in [Removals -> RemovalPc] /\ papers \in Seq(PaperEvents) /\ crowded \subseteq Uploads

\* The log says so of an upload.
Says(what, u) == \E i \in DOMAIN papers : papers[i] = <<what, u>>

\* A call has taken a document back.
TookBack(r) == removal[r] \in {"append", "done", "dead"}

\* Where the upload of a document is.
UploadsAgree == \A u \in Uploads :
    /\ upload[u] \in {"none", "insert", "full"} => document[u] = "none"
    /\ upload[u] \in {"append", "done"} => document[u] # "none"
    /\ Says("added", u) => upload[u] = "done"

\* What was taken back was taken back by one call, and is announced when that call is done.
RemovalsAgree ==
    /\ \A r \in Removals : TookBack(r) => document[DocumentOf[r]] = "removed"
    /\ \A r, o \in Removals : TookBack(r) /\ TookBack(o) /\ DocumentOf[r] = DocumentOf[o] => r = o
    /\ \A u \in Uploads : document[u] = "removed" => \E r \in Removals : DocumentOf[r] = u /\ TookBack(r)
    /\ \A r \in Removals : removal[r] = "done" => Says("removed", DocumentOf[r])
    /\ \A u \in Uploads : Says("removed", u) => \E r \in Removals : DocumentOf[r] = u /\ removal[r] = "done"

SaidOfOnce == \A i, j \in DOMAIN papers : papers[i] = papers[j] => i = j

DocumentInv == DocumentsTyped /\ UploadsAgree /\ RemovalsAgree /\ SaidOfOnce

\* The documents, the calls about them and what is said of them.
LEMMA DocumentPlace == ASSUME DocumentInv
    PROVE  /\ upload \in [Uploads -> UploadPc] /\ document \in [Uploads -> {"none", "held", "removed"}]
           /\ removal \in [Removals -> RemovalPc] /\ papers \in Seq(PaperEvents)
           /\ UploadsAgree /\ RemovalsAgree /\ SaidOfOnce /\ DocumentOf \in [Removals -> Uploads]
BY PaperAssumption DEF DocumentInv, DocumentsTyped

\* A call reads how much the room holds.
LEMMA ReadHeldKeeps == ASSUME DocumentInv, NEW u \in Uploads, ReadHeld(u) PROVE DocumentInv'
<1> USE DocumentPlace
<1>1. PICK to \in {"insert", "full"} : upload' = [upload EXCEPT ![u] = to]
  BY DEF ReadHeld
<1>2. upload[u] = "none" /\ UNCHANGED <<document, removal, papers, crowded>>
  BY DEF ReadHeld
<1>3. DocumentsTyped'
  BY <1>1, <1>2 DEF DocumentInv, DocumentsTyped, UploadPc
<1>4. UploadsAgree'
  BY <1>1, <1>2 DEF UploadsAgree, Says
<1>5. RemovalsAgree' /\ SaidOfOnce'
  BY <1>2 DEF RemovalsAgree, SaidOfOnce, Says, TookBack
<1> QED BY <1>3, <1>4, <1>5 DEF DocumentInv

\* It writes the document, or is refused.
LEMMA AddDocumentKeeps == ASSUME DocumentInv, NEW u \in Uploads, AddDocument(u) PROVE DocumentInv'
<1> USE DocumentPlace
<1>1. /\ upload[u] = "insert" /\ upload' = [upload EXCEPT ![u] = "append"]
      /\ document' = [document EXCEPT ![u] = "held"] /\ UNCHANGED <<removal, papers>>
  BY DEF AddDocument
<1>2. document[u] = "none"
  BY <1>1 DEF UploadsAgree
<1>3. DocumentsTyped'
  BY <1>1 DEF DocumentInv, DocumentsTyped, UploadPc, AddDocument
<1>4. UploadsAgree'
  BY <1>1 DEF UploadsAgree, Says
<1>5. RemovalsAgree'
  BY <1>1, <1>2 DEF RemovalsAgree, Says, TookBack
<1>6. SaidOfOnce'
  BY <1>1 DEF SaidOfOnce
<1> QED BY <1>3, <1>4, <1>5, <1>6 DEF DocumentInv

\* What one more event says.
LEMMA SaysMore == ASSUME papers \in Seq(PaperEvents), NEW what \in {"added", "removed"}, NEW d \in Uploads,
        papers' = Append(papers, <<what, d>>)
    PROVE  /\ papers' \in Seq(PaperEvents)
           /\ \A k \in {"added", "removed"}, u \in Uploads : Says(k, u)' <=> (Says(k, u) \/ (k = what /\ u = d))
           /\ SaidOfOnce /\ ~Says(what, d) => SaidOfOnce'
<1>1. <<what, d>> \in PaperEvents
  BY DEF PaperEvents
<1>2. /\ papers' \in Seq(PaperEvents) /\ Len(papers') = Len(papers) + 1
      /\ \A i \in 1..Len(papers) : papers'[i] = papers[i]
      /\ papers'[Len(papers) + 1] = <<what, d>>
  <2> HIDE DEF PaperEvents
  <2> QED BY <1>1, AppendProperties
<1>3. DOMAIN papers = 1..Len(papers) /\ Len(papers) \in Nat /\ DOMAIN papers' = 1..(Len(papers) + 1)
  <2> HIDE DEF PaperEvents
  <2> QED BY <1>2, LenProperties
<1>4. \A k \in {"added", "removed"}, u \in Uploads : Says(k, u)' <=> (Says(k, u) \/ (k = what /\ u = d))
  <2> SUFFICES ASSUME NEW k \in {"added", "removed"}, NEW u \in Uploads
               PROVE  (\E i \in DOMAIN papers' : papers'[i] = <<k, u>>)
                        <=> (\E i \in DOMAIN papers : papers[i] = <<k, u>>) \/ (k = what /\ u = d)
    BY DEF Says
  <2>1. <<k, u>> = <<what, d>> <=> k = what /\ u = d
    OBVIOUS
  <2>2. \A i : i \in 1..(Len(papers) + 1) <=> i \in 1..Len(papers) \/ i = Len(papers) + 1
    BY <1>3
  <2> QED BY <1>2, <1>3, <2>1, <2>2
<1>5. ASSUME SaidOfOnce, ~Says(what, d) PROVE SaidOfOnce'
  <2> SUFFICES ASSUME NEW i \in DOMAIN papers', NEW j \in DOMAIN papers', papers'[i] = papers'[j] PROVE i = j
    BY DEF SaidOfOnce
  <2> DEFINE n == Len(papers) + 1
  <2>1. (i \in DOMAIN papers /\ papers'[i] = papers[i]) \/ (i = n /\ papers'[i] = <<what, d>>)
    BY <1>2, <1>3
  <2>2. (j \in DOMAIN papers /\ papers'[j] = papers[j]) \/ (j = n /\ papers'[j] = <<what, d>>)
    BY <1>2, <1>3
  <2> HIDE DEF n
  <2> QED BY <1>5, <2>1, <2>2 DEF SaidOfOnce, Says
<1> QED BY <1>2, <1>4, <1>5

\* It says so in the log.
LEMMA AppendAddedKeeps == ASSUME DocumentInv, NEW u \in Uploads, AppendAdded(u) PROVE DocumentInv'
<1> USE DocumentPlace
<1>1. /\ upload[u] = "append" /\ upload' = [upload EXCEPT ![u] = "done"]
      /\ papers' = Append(papers, <<"added", u>>) /\ UNCHANGED <<document, removal, crowded>>
  BY DEF AppendAdded
<1>2. ~Says("added", u)
  BY <1>1 DEF UploadsAgree
<1>3. /\ papers' \in Seq(PaperEvents) /\ SaidOfOnce'
      /\ \A o \in Uploads : (Says("added", o)' <=> Says("added", o) \/ o = u)
      /\ \A o \in Uploads : (Says("removed", o)' <=> Says("removed", o))
  BY <1>1, <1>2, SaysMore
<1>4. DocumentsTyped'
  BY <1>1, <1>3 DEF DocumentInv, DocumentsTyped, UploadPc
<1>5. UploadsAgree'
  BY <1>1, <1>3 DEF UploadsAgree
<1>6. \A r \in Removals : TookBack(r)' <=> TookBack(r)
  BY <1>1 DEF TookBack
<1>7. RemovalsAgree'
  BY <1>1, <1>3, <1>6 DEF RemovalsAgree
<1> QED BY <1>3, <1>4, <1>5, <1>7 DEF DocumentInv

\* A removal finds the document it is about.
LEMMA FindDocumentKeeps == ASSUME DocumentInv, NEW r \in Removals, FindDocument(r) PROVE DocumentInv'
<1> USE DocumentPlace
<1>1. PICK to \in {"update", "unknown"} : removal' = [removal EXCEPT ![r] = to]
  BY DEF FindDocument
<1>2. removal[r] = "none" /\ UNCHANGED <<upload, document, papers, crowded>>
  BY DEF FindDocument
<1>3. DocumentsTyped'
  BY <1>1, <1>2 DEF DocumentInv, DocumentsTyped, RemovalPc
<1>4. UploadsAgree' /\ SaidOfOnce'
  BY <1>2 DEF UploadsAgree, SaidOfOnce, Says
<1>5. \A o \in Removals : (TookBack(o)' <=> TookBack(o)) /\ (removal'[o] = "done" <=> removal[o] = "done")
  BY <1>1, <1>2 DEF TookBack
<1>6. RemovalsAgree'
  BY <1>2, <1>5 DEF RemovalsAgree, Says
<1> QED BY <1>3, <1>4, <1>6 DEF DocumentInv

\* It marks it removed, unless another has.
LEMMA RemoveDocumentKeeps == ASSUME DocumentInv, NEW r \in Removals, RemoveDocument(r) PROVE DocumentInv'
<1> USE DocumentPlace
<1> DEFINE d == DocumentOf[r]
<1>1. removal[r] = "update" /\ UNCHANGED <<upload, papers, crowded>> /\ d \in Uploads
  BY DEF RemoveDocument
<1>2. CASE document[d] = "held"
  <2>1. document' = [document EXCEPT ![d] = "removed"] /\ removal' = [removal EXCEPT ![r] = "append"]
    BY <1>2 DEF RemoveDocument, TakesBack
  <2>2. DocumentsTyped'
    BY <1>1, <2>1 DEF DocumentInv, DocumentsTyped, RemovalPc
  <2>3. UploadsAgree' /\ SaidOfOnce'
    BY <1>1, <1>2, <2>1 DEF UploadsAgree, SaidOfOnce, Says
  <2>4. \A o \in Removals : (TookBack(o)' <=> TookBack(o) \/ o = r) /\ (removal'[o] = "done" <=> removal[o] = "done")
    BY <1>1, <2>1 DEF TookBack
  <2>5. \A o \in Removals : TookBack(o) => DocumentOf[o] # d
    BY <1>2 DEF RemovalsAgree
  <2>6. \A u \in Uploads : document'[u] = IF u = d THEN "removed" ELSE document[u]
    BY <1>1, <2>1
  <2>7. \A u \in Uploads : (Says("removed", u)' <=> Says("removed", u))
    BY <1>1 DEF Says
  <2>8. RemovalsAgree'
    BY <1>1, <2>4, <2>5, <2>6, <2>7 DEF RemovalsAgree
  <2> QED BY <2>2, <2>3, <2>8 DEF DocumentInv
<1>3. CASE document[d] # "held"
  <2>1. document' = document /\ removal' = [removal EXCEPT ![r] = "unknown"]
    BY <1>3 DEF RemoveDocument, TakesBack
  <2>2. DocumentsTyped'
    BY <1>1, <2>1 DEF DocumentInv, DocumentsTyped, RemovalPc
  <2>3. UploadsAgree' /\ SaidOfOnce'
    BY <1>1, <2>1 DEF UploadsAgree, SaidOfOnce, Says
  <2>4. \A o \in Removals : (TookBack(o)' <=> TookBack(o)) /\ (removal'[o] = "done" <=> removal[o] = "done")
    BY <1>1, <2>1 DEF TookBack
  <2>5. RemovalsAgree'
    BY <1>1, <2>1, <2>4 DEF RemovalsAgree, Says
  <2> QED BY <2>2, <2>3, <2>5 DEF DocumentInv
<1> QED BY <1>2, <1>3

\* It says so in the log.
LEMMA AppendRemovedKeeps == ASSUME DocumentInv, NEW r \in Removals, AppendRemoved(r) PROVE DocumentInv'
<1> USE DocumentPlace
<1> DEFINE d == DocumentOf[r]
<1>1. /\ removal[r] = "append" /\ removal' = [removal EXCEPT ![r] = "done"]
      /\ papers' = Append(papers, <<"removed", d>>) /\ UNCHANGED <<upload, document, crowded>> /\ d \in Uploads
  BY DEF AppendRemoved
<1>2. ~Says("removed", d)
  BY <1>1 DEF RemovalsAgree, TookBack
<1>3. /\ papers' \in Seq(PaperEvents) /\ SaidOfOnce'
      /\ \A o \in Uploads : (Says("removed", o)' <=> Says("removed", o) \/ o = d)
      /\ \A o \in Uploads : (Says("added", o)' <=> Says("added", o))
  <2> HIDE DEF d
  <2> QED BY <1>1, <1>2, SaysMore
<1>4. DocumentsTyped'
  BY <1>1, <1>3 DEF DocumentInv, DocumentsTyped, RemovalPc
<1>5. UploadsAgree'
  BY <1>1, <1>3 DEF UploadsAgree
<1>6. \A o \in Removals : (TookBack(o)' <=> TookBack(o)) /\ (removal'[o] = "done" <=> removal[o] = "done" \/ o = r)
  BY <1>1 DEF TookBack
<1>7. RemovalsAgree'
  BY <1>1, <1>3, <1>6 DEF RemovalsAgree
<1> QED BY <1>3, <1>4, <1>5, <1>7 DEF DocumentInv

\* A call ends where it is.
LEMMA DocumentCallDiesKeeps == ASSUME DocumentInv, DocumentCallDies PROVE DocumentInv'
<1> USE DocumentPlace
<1>1. UNCHANGED <<document, papers, crowded>>
  BY DEF DocumentCallDies
<1>2. CASE \E u \in Uploads : upload[u] = "append" /\ upload' = [upload EXCEPT ![u] = "dead"] /\ UNCHANGED removal
  <2>1. PICK u \in Uploads : upload[u] = "append" /\ upload' = [upload EXCEPT ![u] = "dead"] /\ UNCHANGED removal
    BY <1>2
  <2>2. DocumentsTyped'
    BY <1>1, <2>1 DEF DocumentInv, DocumentsTyped, UploadPc
  <2>3. UploadsAgree'
    BY <1>1, <2>1 DEF UploadsAgree, Says
  <2>4. RemovalsAgree' /\ SaidOfOnce'
    BY <1>1, <2>1 DEF RemovalsAgree, SaidOfOnce, Says, TookBack
  <2> QED BY <2>2, <2>3, <2>4 DEF DocumentInv
<1>3. CASE \E r \in Removals : removal[r] = "append" /\ removal' = [removal EXCEPT ![r] = "dead"] /\ UNCHANGED upload
  <2>1. PICK r \in Removals : removal[r] = "append" /\ removal' = [removal EXCEPT ![r] = "dead"] /\ UNCHANGED upload
    BY <1>3
  <2>2. DocumentsTyped'
    BY <1>1, <2>1 DEF DocumentInv, DocumentsTyped, RemovalPc
  <2>3. UploadsAgree' /\ SaidOfOnce'
    BY <1>1, <2>1 DEF UploadsAgree, SaidOfOnce, Says
  <2>4. \A o \in Removals : (TookBack(o)' <=> TookBack(o)) /\ (removal'[o] = "done" <=> removal[o] = "done")
    BY <2>1 DEF TookBack
  <2>5. RemovalsAgree'
    BY <1>1, <2>4 DEF RemovalsAgree, Says
  <2> QED BY <2>2, <2>3, <2>5 DEF DocumentInv
<1> QED BY <1>2, <1>3 DEF DocumentCallDies

\* A step that is not about documents.
LEMMA DocumentsStay == ASSUME DocumentInv, UNCHANGED documentVars PROVE DocumentInv'
<1> USE DEF documentVars
<1>1. DocumentsTyped'
  BY DEF DocumentInv, DocumentsTyped
<1>2. UploadsAgree' /\ SaidOfOnce'
  BY DEF DocumentInv, UploadsAgree, SaidOfOnce, Says
<1>3. RemovalsAgree'
  BY DEF DocumentInv, RemovalsAgree, Says, TookBack
<1> QED BY <1>1, <1>2, <1>3 DEF DocumentInv

\* A room begins with none.
LEMMA DocumentsBegin == ASSUME PapersInit PROVE DocumentInv
<1>1. papers = <<>> /\ papers \in Seq(PaperEvents)
  BY DEF PapersInit
<1>2. DocumentsTyped
  BY <1>1 DEF PapersInit, DocumentsTyped, UploadPc, RemovalPc
<1>3. UploadsAgree /\ RemovalsAgree /\ SaidOfOnce
  BY <1>1, PaperAssumption DEF PapersInit, UploadsAgree, RemovalsAgree, SaidOfOnce, Says, TookBack
<1> QED BY <1>2, <1>3 DEF DocumentInv

\* From the invariant, what the log of documents says.
LEMMA DocumentInvSays == ASSUME DocumentInv PROVE DocumentsAnnounced
<1> USE DocumentPlace
<1>1. \A what \in {"added", "removed"} : \A u : u \in Announced(what) <=> u \in Uploads /\ Says(what, u)
  <2> SUFFICES ASSUME NEW what \in {"added", "removed"}, NEW u
               PROVE  u \in Announced(what) <=> u \in Uploads /\ Says(what, u)
    OBVIOUS
  <2>1. \A i \in DOMAIN papers : papers[i] \in PaperEvents
    <3> HIDE DEF PaperEvents
    <3> QED OBVIOUS
  <2>2. \A i \in DOMAIN papers : papers[i] = <<papers[i][1], papers[i][2]>> /\ papers[i][2] \in Uploads
    BY <2>1 DEF PaperEvents
  <2>3. u \in Announced(what) <=> \E i \in DOMAIN papers : papers[i][1] = what /\ papers[i][2] = u
    BY DEF Announced
  <2>4. \A i \in DOMAIN papers : papers[i] = <<what, u>> <=> papers[i][1] = what /\ papers[i][2] = u
    BY <2>2
  <2> QED BY <2>2, <2>3, <2>4 DEF Says
<1>2. \A u \in Announced("added") : document[u] # "none"
  BY <1>1 DEF UploadsAgree
<1>3. \A u \in Announced("removed") : document[u] = "removed"
  BY <1>1 DEF RemovalsAgree, TookBack
<1>4. ASSUME NEW u \in Uploads, upload[u] = "done",
             \A r \in Removals : DocumentOf[r] = u => removal[r] \in {"none", "done", "unknown"}
      PROVE  u \in Held <=> u \notin Announced("removed")
  <2>1. document[u] \in {"held", "removed"}
    BY <1>4 DEF UploadsAgree
  <2>2. ASSUME document[u] = "removed" PROVE u \in Announced("removed")
    <3>1. PICK r \in Removals : DocumentOf[r] = u /\ TookBack(r)
      BY <2>2 DEF RemovalsAgree
    <3>2. removal[r] = "done"
      BY <1>4, <3>1 DEF TookBack
    <3> QED BY <1>1, <3>1, <3>2 DEF RemovalsAgree
  <2> QED BY <1>3, <2>1, <2>2 DEF Held
<1> QED BY <1>2, <1>3, <1>4 DEF DocumentsAnnounced, SaidOfOnce

-----------------------------------------------------------------------------
(* The briefing of a room. *)

CallRow == [pc : {"none", "wait", "insert", "written", "done", "absent", "failed"},
            saw : Sets \cup {Nothing}, holds : Sets \cup {Nothing}]
Framing == ({"set"} \X Sets \X (Sets \cup {Nothing})) \cup ({"cleared"} \X (Sets \cup {Nothing}))

BriefingTyped ==
    /\ briefing \in [Sets -> {"none", "active", "cleared"}] /\ call \in [BriefingCalls -> CallRow]
    /\ framings \in Seq(Framing)

\* A call has the active row, or has put its own in the index.
Locks(c) == call[c].pc = "written" \/ (call[c].pc = "insert" /\ call[c].holds # Nothing)

CallsAgree ==
    /\ \A c \in BriefingCalls : call[c].pc \in {"none", "wait"} => call[c].holds = Nothing
    /\ \A c \in BriefingCalls : Locks(c) /\ call[c].holds # Nothing => call[c].holds \in Active
    /\ \A c \in BriefingCalls : call[c].pc = "written" => Active \subseteq {call[c].holds}
    /\ \A c \in Clears : Locks(c) => call[c].holds # Nothing
    /\ \A c \in Clears : call[c].pc # "insert"
    /\ \A b \in Sets : call[b].pc # "done" => briefing[b] = "none"

OneLocks == \A c, o \in BriefingCalls : Locks(c) /\ Locks(o) => c = o

BriefingInv == BriefingTyped /\ CallsAgree /\ OneLocks /\ BriefingLogIsTheTable

\* The briefings and the calls that set or clear one.
LEMMA BriefingPlace == ASSUME BriefingInv
    PROVE  /\ briefing \in [Sets -> {"none", "active", "cleared"}] /\ call \in [BriefingCalls -> CallRow]
           /\ framings \in Seq(Framing) /\ CallsAgree /\ OneLocks /\ BriefingLogIsTheTable
           /\ Sets \subseteq BriefingCalls /\ Clears \subseteq BriefingCalls /\ Sets \cap Clears = {} /\ Nothing \notin Sets
           /\ Active \subseteq Sets
           /\ \A a, b \in Active : a = b
BY PaperAssumption DEF BriefingInv, BriefingTyped, BriefingCalls, Nothing, BriefingLogIsTheTable, Active

\* A call that moves and writes nothing keeps what the log says.
LEMMA CallMoves == ASSUME BriefingInv, NEW c \in BriefingCalls, NEW now \in CallRow, call' = [call EXCEPT ![c] = now],
        UNCHANGED <<briefing, framings>>,
        now.pc \in {"none", "wait"} => now.holds = Nothing,
        (now.pc = "written" \/ (now.pc = "insert" /\ now.holds # Nothing)) =>
            /\ now.holds # Nothing => now.holds \in Active
            /\ c \in Clears => now.holds # Nothing
            /\ \A o \in BriefingCalls \ {c} : ~Locks(o),
        now.pc = "written" => Active \subseteq {now.holds},
        c \in Clears => now.pc # "insert",
        c \in Sets => now.pc # "done" /\ briefing[c] = "none"
    PROVE  BriefingInv'
<1> USE BriefingPlace
<1>1. call' \in [BriefingCalls -> CallRow] /\ call'[c] = now /\ \A o \in BriefingCalls \ {c} : call'[o] = call[o]
  <2> HIDE DEF CallRow
  <2> QED OBVIOUS
<1>2. BriefingTyped'
  BY <1>1 DEF BriefingTyped
<1>3. Active' = Active
  BY DEF Active
<1>4. /\ Locks(c)' <=> (now.pc = "written" \/ (now.pc = "insert" /\ now.holds # Nothing))
      /\ \A o \in BriefingCalls \ {c} : Locks(o)' <=> Locks(o)
  BY <1>1 DEF Locks
<1>5. CallsAgree'
  BY <1>1, <1>3, <1>4 DEF CallsAgree
<1>6. OneLocks'
  BY <1>4 DEF OneLocks
<1>7. BriefingLogIsTheTable'
  BY DEF BriefingLogIsTheTable, Active, FramedAfter
<1> QED BY <1>2, <1>5, <1>6, <1>7 DEF BriefingInv

\* A call reads the active briefing.
LEMMA SelectActiveKeeps == ASSUME BriefingInv, NEW c \in BriefingCalls, SelectActive(c) PROVE BriefingInv'
<1> USE BriefingPlace
<1>1. call[c].pc = "none" /\ call[c].holds = Nothing /\ call[c] \in CallRow /\ UNCHANGED <<briefing, framings>>
  BY DEF SelectActive, CallsAgree
<1>2. c \in Sets => briefing[c] = "none"
  BY <1>1 DEF CallsAgree
<1>3. CASE Active = {} /\ call' = [call EXCEPT ![c].pc = IF c \in Sets THEN "insert" ELSE "absent"]
  <2> DEFINE now == [call[c] EXCEPT !.pc = IF c \in Sets THEN "insert" ELSE "absent"]
  <2>1. call' = [call EXCEPT ![c] = now]
    BY <1>3
  <2>2. now \in CallRow /\ now.pc = (IF c \in Sets THEN "insert" ELSE "absent") /\ now.holds = Nothing
    BY <1>1 DEF CallRow
  <2> HIDE DEF now
  <2> QED BY <1>1, <1>2, <2>1, <2>2, CallMoves
<1>4. CASE \E b \in Active : call' = [call EXCEPT ![c].pc = "wait", ![c].saw = b]
  <2>1. PICK b \in Active : call' = [call EXCEPT ![c].pc = "wait", ![c].saw = b]
    BY <1>4
  <2> DEFINE now == [call[c] EXCEPT !.pc = "wait", !.saw = b]
  <2>2. call' = [call EXCEPT ![c] = now]
    BY <2>1
  <2>3. now \in CallRow /\ now.pc = "wait" /\ now.holds = Nothing
    BY <1>1 DEF CallRow
  <2> HIDE DEF now
  <2> QED BY <1>1, <1>2, <2>2, <2>3, CallMoves
<1> QED BY <1>3, <1>4 DEF SelectActive

\* A call that gets the lock is alone with it.
LEMMA FreeOfOthers == ASSUME BriefingInv, NEW c \in BriefingCalls, Free(c)
    PROVE  \A o \in BriefingCalls \ {c} : ~Locks(o)
BY DEF Free, Locks

\* It locks the active briefing.
LEMMA LockActiveKeeps == ASSUME BriefingInv, NEW c \in BriefingCalls, LockActive(c) PROVE BriefingInv'
<1> USE BriefingPlace
<1>1. /\ call[c].pc = "wait" /\ call[c].holds = Nothing /\ call[c] \in CallRow /\ call[c].saw \in Sets \cup {Nothing}
      /\ UNCHANGED <<briefing, framings>> /\ \A o \in BriefingCalls \ {c} : ~Locks(o)
  <2>1. call[c].pc = "wait" /\ call[c] \in CallRow /\ UNCHANGED <<briefing, framings>> /\ Free(c)
    BY DEF LockActive
  <2> QED BY <2>1, FreeOfOthers DEF CallsAgree, CallRow
<1>2. c \in Sets => briefing[c] = "none"
  BY <1>1 DEF CallsAgree
<1>3. CASE call[c].saw \in Active
  <2> DEFINE now == [call[c] EXCEPT !.holds = call[c].saw, !.pc = IF c \in Sets THEN "insert" ELSE "written"]
  <2>1. call' = [call EXCEPT ![c] = now]
    BY <1>3 DEF LockActive
  <2>2. now \in CallRow /\ now.pc = (IF c \in Sets THEN "insert" ELSE "written") /\ now.holds = call[c].saw
    BY <1>1 DEF CallRow
  <2>3. now.holds \in Active /\ now.holds # Nothing /\ Active \subseteq {now.holds}
    BY <1>3, <2>2
  <2> HIDE DEF now
  <2> QED BY <1>1, <1>2, <2>1, <2>2, <2>3, CallMoves DEF BriefingCalls
<1>4. CASE call[c].saw \notin Active
  <2> DEFINE now == [call[c] EXCEPT !.pc = IF c \in Sets THEN "insert" ELSE "absent"]
  <2>1. call' = [call EXCEPT ![c] = now]
    BY <1>4 DEF LockActive
  <2>2. now \in CallRow /\ now.pc = (IF c \in Sets THEN "insert" ELSE "absent") /\ now.holds = Nothing
    BY <1>1 DEF CallRow
  <2> HIDE DEF now
  <2> QED BY <1>1, <1>2, <2>1, <2>2, CallMoves
<1> QED BY <1>3, <1>4

\* It writes its own over it.
LEMMA InsertBriefingKeeps == ASSUME BriefingInv, NEW b \in Sets, InsertBriefing(b) PROVE BriefingInv'
<1> USE BriefingPlace
<1>1. /\ call[b].pc = "insert" /\ call[b] \in CallRow /\ UNCHANGED <<briefing, framings>>
      /\ \A o \in BriefingCalls \ {b} : ~Locks(o)
  <2>1. Free(b) /\ b \in BriefingCalls
    BY DEF InsertBriefing
  <2> QED BY <2>1, FreeOfOthers DEF InsertBriefing
<1>2. briefing[b] = "none" /\ (call[b].holds # Nothing => call[b].holds \in Active)
  BY <1>1 DEF CallsAgree, Locks
<1> DEFINE now == [call[b] EXCEPT !.pc = IF Active \subseteq {call[b].holds} THEN "written" ELSE "failed"]
<1>3. call' = [call EXCEPT ![b] = now]
  BY DEF InsertBriefing
<1>4. /\ now \in CallRow /\ now.holds = call[b].holds
      /\ now.pc = (IF Active \subseteq {call[b].holds} THEN "written" ELSE "failed")
  BY <1>1 DEF CallRow
<1> HIDE DEF now
<1> QED BY <1>1, <1>2, <1>3, <1>4, CallMoves

\* A transaction is rolled back.
LEMMA RollBackKeeps == ASSUME BriefingInv, NEW c \in BriefingCalls, RollBackBriefing(c) PROVE BriefingInv'
<1> USE BriefingPlace
<1>1. call[c].pc \in {"wait", "insert", "written"} /\ call[c] \in CallRow /\ UNCHANGED <<briefing, framings>>
  BY DEF RollBackBriefing
<1>2. c \in Sets => briefing[c] = "none"
  BY <1>1 DEF CallsAgree
<1> DEFINE now == [call[c] EXCEPT !.pc = "failed"]
<1>3. call' = [call EXCEPT ![c] = now]
  BY DEF RollBackBriefing
<1>4. now \in CallRow /\ now.pc = "failed"
  BY <1>1 DEF CallRow
<1> HIDE DEF now
<1> QED BY <1>1, <1>2, <1>3, <1>4, CallMoves

\* It commits, and the log has its event.
LEMMA CommitBriefingKeeps == ASSUME BriefingInv, NEW c \in BriefingCalls, CommitBriefing(c) PROVE BriefingInv'
<1> USE BriefingPlace
<1> DEFINE h == call[c].holds
           said == IF c \in Sets THEN <<"set", c, h>> ELSE <<"cleared", h>>
           n == Len(framings) + 1
<1>1. /\ call[c].pc = "written" /\ call' = [call EXCEPT ![c].pc = "done"] /\ call[c] \in CallRow
      /\ briefing' = [b \in Sets |-> IF b = c THEN "active" ELSE IF b = h THEN "cleared" ELSE briefing[b]]
      /\ framings' = Append(framings, said)
  BY DEF CommitBriefing
<1>2. h \in Sets \cup {Nothing} /\ Locks(c) /\ Active \subseteq {h} /\ (h # Nothing => h \in Active)
  BY <1>1 DEF CallRow, CallsAgree, Locks
<1>3. /\ c \in Sets => briefing[c] = "none" /\ c # h
      /\ c \in Clears => h # Nothing
  BY <1>1, <1>2 DEF CallsAgree, Active
<1>4. c \in Sets \/ (c \in Clears /\ c \notin Sets)
  BY DEF BriefingCalls
<1>5. said \in Framing
  BY <1>2, <1>4 DEF Framing
<1> DEFINE now == [call[c] EXCEPT !.pc = "done"]
<1>6. call' = [call EXCEPT ![c] = now]
  BY <1>1
<1>7. now \in CallRow /\ now.pc = "done" /\ now.holds = h
  BY <1>1 DEF CallRow
<1>8. call' \in [BriefingCalls -> CallRow] /\ call'[c] = now /\ \A o \in BriefingCalls \ {c} : call'[o] = call[o]
  <2> HIDE DEF CallRow, now
  <2> QED BY <1>6, <1>7
<1>9. /\ framings' \in Seq(Framing) /\ Len(framings') = n /\ n \in Nat /\ n > 0 /\ Len(framings) = n - 1
      /\ DOMAIN framings = 1..(n - 1) /\ DOMAIN framings' = 1..n
      /\ \A i \in 1..(n - 1) : framings'[i] = framings[i]
      /\ framings'[n] = said
  <2>1. /\ framings' \in Seq(Framing) /\ Len(framings') = Len(framings) + 1
        /\ \A i \in 1..Len(framings) : framings'[i] = framings[i]
        /\ framings'[Len(framings) + 1] = said
    <3> HIDE DEF Framing, said
    <3> QED BY <1>1, <1>5, AppendProperties
  <2>2. Len(framings) \in Nat /\ DOMAIN framings = 1..Len(framings) /\ DOMAIN framings' = 1..(Len(framings) + 1)
    <3> HIDE DEF Framing
    <3> QED BY <2>1, LenProperties
  <2> HIDE DEF said
  <2> QED BY <2>1, <2>2
<1>10. briefing' \in [Sets -> {"none", "active", "cleared"}]
  BY <1>1
<1>11. BriefingTyped'
  BY <1>8, <1>9, <1>10 DEF BriefingTyped
<1>12. Active' = (IF c \in Sets THEN {c} ELSE {})
  <2>1. \A b \in Sets : briefing'[b] = "active" <=> b = c
    BY <1>1, <1>2 DEF Active
  <2> QED BY <2>1, <1>4 DEF Active
<1>13. ~Locks(c)' /\ \A o \in BriefingCalls \ {c} : ~Locks(o) /\ ~Locks(o)'
  BY <1>2, <1>7, <1>8 DEF OneLocks, Locks
<1>14. CallsAgree'
  <2>1. ASSUME NEW o \in BriefingCalls, call'[o].pc \in {"none", "wait"} PROVE call'[o].holds = Nothing
    BY <1>7, <1>8, <2>1 DEF CallsAgree
  <2>2. \A o \in BriefingCalls : ~Locks(o)' /\ call'[o].pc # "written"
    BY <1>13 DEF Locks
  <2>3. \A o \in Clears : call'[o].pc # "insert"
    BY <1>7, <1>8 DEF CallsAgree
  <2>4. ASSUME NEW b \in Sets, call'[b].pc # "done" PROVE briefing'[b] = "none"
    <3>1. b # c /\ briefing[b] = "none"
      BY <1>7, <1>8, <2>4 DEF CallsAgree
    <3>2. b # h
      BY <1>2, <3>1 DEF Active
    <3> QED BY <1>1, <3>1, <3>2
  <2> QED BY <2>1, <2>2, <2>3, <2>4 DEF CallsAgree
<1>15. OneLocks'
  BY <1>13 DEF OneLocks
<1>16. \A k \in 0..(n - 1) : FramedAfter(k)' = FramedAfter(k)
  <2> SUFFICES ASSUME NEW k \in 0..(n - 1)
               PROVE  (IF k = 0 \/ framings'[k][1] = "cleared" THEN Nothing ELSE framings'[k][2])
                        = (IF k = 0 \/ framings[k][1] = "cleared" THEN Nothing ELSE framings[k][2])
    BY DEF FramedAfter
  <2>1. k = 0 \/ k \in 1..(n - 1)
    BY <1>9
  <2> QED BY <1>9, <2>1
<1>17. FramedAfter(n - 1) = h
  <2>1. Active = {FramedAfter(n - 1)} \ {Nothing}
    BY <1>9 DEF BriefingLogIsTheTable
  <2>2. CASE h = Nothing
    <3>1. Nothing \notin Active
      OBVIOUS
    <3> QED BY <1>2, <2>1, <2>2, <3>1
  <2>3. CASE h # Nothing
    BY <1>2, <2>1, <2>3
  <2> QED BY <2>2, <2>3
<1>18. framings'[n][IF framings'[n][1] = "set" THEN 3 ELSE 2] = h
       /\ (IF framings'[n][1] = "cleared" THEN Nothing ELSE framings'[n][2]) = (IF c \in Sets THEN c ELSE Nothing)
  BY <1>9
<1>19. BriefingLogIsTheTable'
  <2>1. ASSUME NEW i \in DOMAIN framings'
        PROVE  framings'[i][IF framings'[i][1] = "set" THEN 3 ELSE 2] = FramedAfter(i - 1)'
    <3>1. i \in 1..n /\ i - 1 \in 0..(n - 1)
      BY <1>9
    <3>2. FramedAfter(i - 1)' = FramedAfter(i - 1)
      BY <1>16, <3>1
    <3>3. CASE i = n
      <4> HIDE DEF n, h
      <4> QED BY <1>17, <1>18, <3>2, <3>3
    <3>4. CASE i # n
      <4>1. i \in 1..(n - 1) /\ i \in DOMAIN framings
        BY <1>9, <3>1, <3>4
      <4>2. framings[i][IF framings[i][1] = "set" THEN 3 ELSE 2] = FramedAfter(i - 1)
        BY <4>1 DEF BriefingLogIsTheTable
      <4> QED BY <1>9, <3>2, <4>1, <4>2
    <3> QED BY <3>3, <3>4
  <2>2. PICK k \in Nat : k = n
    BY <1>9
  <2>3. FramedAfter(k)' = (IF c \in Sets THEN c ELSE Nothing) /\ Len(framings') = k
    BY <1>9, <1>18, <2>2 DEF FramedAfter
  <2>4. Active' = {FramedAfter(k)'} \ {Nothing}
    BY <1>4, <1>12, <2>3
  <2>5. Active' = {FramedAfter(Len(framings))'} \ {Nothing}
    BY <2>3, <2>4
  <2> QED BY <2>1, <2>5 DEF BriefingLogIsTheTable
<1> QED BY <1>11, <1>14, <1>15, <1>19 DEF BriefingInv

\* A step that is not about briefings.
LEMMA BriefingStays == ASSUME BriefingInv, UNCHANGED briefingVars PROVE BriefingInv'
<1> USE DEF briefingVars
<1>1. BriefingTyped' /\ OneLocks'
  BY DEF BriefingInv, BriefingTyped, OneLocks, Locks
<1>2. CallsAgree'
  BY DEF BriefingInv, CallsAgree, Locks, Active
<1>3. BriefingLogIsTheTable'
  BY DEF BriefingInv, BriefingLogIsTheTable, FramedAfter, Active
<1> QED BY <1>1, <1>2, <1>3 DEF BriefingInv

\* A room begins without one.
LEMMA BriefingBegins == ASSUME PapersInit PROVE BriefingInv
<1>1. framings = <<>> /\ framings \in Seq(Framing)
  BY DEF PapersInit
<1>2. NoCall \in CallRow /\ NoCall.pc = "none" /\ NoCall.holds = Nothing
  BY DEF NoCall, CallRow
<1>3. \A c \in BriefingCalls : call[c].pc = "none" /\ call[c].holds = Nothing
  <2> HIDE DEF NoCall
  <2> QED BY <1>2 DEF PapersInit
<1>4. BriefingTyped
  <2> HIDE DEF NoCall, CallRow
  <2> QED BY <1>1, <1>2 DEF PapersInit, BriefingTyped
<1>5. CallsAgree /\ OneLocks
  BY <1>3 DEF PapersInit, CallsAgree, OneLocks, Locks, BriefingCalls
<1>6. Active = {} /\ FramedAfter(0) = Nothing /\ Len(framings) = 0
  BY <1>1 DEF PapersInit, Active, FramedAfter
<1>7. BriefingLogIsTheTable
  BY <1>1, <1>6 DEF BriefingLogIsTheTable
<1> QED BY <1>4, <1>5, <1>7 DEF BriefingInv

\* Every step keeps both.
LEMMA PapersGoOn == DocumentInv /\ BriefingInv /\ [PapersNext]_paperVars => (DocumentInv /\ BriefingInv)'
<1> SUFFICES ASSUME DocumentInv, BriefingInv, [PapersNext]_paperVars PROVE DocumentInv' /\ BriefingInv'
  OBVIOUS
<1>1. ASSUME UNCHANGED paperVars PROVE DocumentInv' /\ BriefingInv'
  BY <1>1, DocumentsStay, BriefingStays DEF paperVars
<1>2. ASSUME NEW u \in Uploads, ReadHeld(u) \/ AddDocument(u) \/ AppendAdded(u) PROVE DocumentInv' /\ BriefingInv'
  <2>1. UNCHANGED briefingVars
    BY <1>2 DEF ReadHeld, AddDocument, AppendAdded
  <2> QED BY <1>2, <2>1, BriefingStays, ReadHeldKeeps, AddDocumentKeeps, AppendAddedKeeps
<1>3. ASSUME NEW r \in Removals, FindDocument(r) \/ RemoveDocument(r) \/ AppendRemoved(r) PROVE DocumentInv' /\ BriefingInv'
  <2>1. UNCHANGED briefingVars
    BY <1>3 DEF FindDocument, RemoveDocument, AppendRemoved
  <2> QED BY <1>3, <2>1, BriefingStays, FindDocumentKeeps, RemoveDocumentKeeps, AppendRemovedKeeps
<1>4. ASSUME DocumentCallDies PROVE DocumentInv' /\ BriefingInv'
  <2>1. UNCHANGED briefingVars
    BY <1>4 DEF DocumentCallDies
  <2> QED BY <1>4, <2>1, BriefingStays, DocumentCallDiesKeeps
<1>5. ASSUME NEW c \in BriefingCalls, SelectActive(c) \/ LockActive(c) \/ CommitBriefing(c) \/ RollBackBriefing(c)
      PROVE  DocumentInv' /\ BriefingInv'
  <2>1. UNCHANGED documentVars
    BY <1>5 DEF SelectActive, LockActive, CommitBriefing, RollBackBriefing
  <2> QED BY <1>5, <2>1, DocumentsStay, SelectActiveKeeps, LockActiveKeeps, CommitBriefingKeeps, RollBackKeeps
<1>6. ASSUME NEW b \in Sets, InsertBriefing(b) PROVE DocumentInv' /\ BriefingInv'
  <2>1. UNCHANGED documentVars
    BY <1>6 DEF InsertBriefing
  <2> QED BY <1>6, <2>1, DocumentsStay, InsertBriefingKeeps
<1> QED BY <1>1, <1>2, <1>3, <1>4, <1>5, <1>6 DEF PapersNext

\* They hold always.
LEMMA PapersInvHolds == PapersSpec => [](DocumentInv /\ BriefingInv)
BY DocumentsBegin, BriefingBegins, PapersGoOn, PTL DEF PapersSpec

\* The log and the table of documents agree: what is announced is there, once, and what was taken back was
\* announced when every call about it has ended alive.
THEOREM DocumentsAnnouncedHolds == PapersSpec => []DocumentsAnnounced
BY PapersInvHolds, DocumentInvSays, PTL

\* However sets and clears are interleaved, each briefing event names the briefing that was active by the log
\* before it, and the one active by the log is the row that is active.
THEOREM BriefingLogIsTheTableHolds == PapersSpec => []BriefingLogIsTheTable
<1>1. BriefingInv => BriefingLogIsTheTable
  BY DEF BriefingInv
<1> QED BY <1>1, PapersInvHolds, PTL

-----------------------------------------------------------------------------
(* The characters of a room's documents. *)

\* The element a sum goes on with, and the equation that defines the sums over the subsets of D.
One(s) == CHOOSE u \in s : TRUE
Sums(g, D) == g = [s \in SUBSET D |-> IF s = {} THEN 0 ELSE SizeOf[One(s)] + g[s \ {One(s)}]]

\* The equation holds of sets of at most n elements.
SumsUpTo(g, D, n) ==
    /\ g \in [SUBSET D -> Nat]
    /\ \A s \in SUBSET D : Cardinality(s) <= n => g[s] = IF s = {} THEN 0 ELSE SizeOf[One(s)] + g[s \ {One(s)}]

\* Finite sets of uploads, one element fewer.
LEMMA OneLess == ASSUME NEW D \in SUBSET Uploads, D # {}
    PROVE  /\ One(D) \in D /\ SizeOf[One(D)] \in Nat /\ D \ {One(D)} \in SUBSET Uploads
           /\ IsFiniteSet(D) /\ Cardinality(D) \in Nat /\ Cardinality(D) > 0
           /\ Cardinality(D \ {One(D)}) = Cardinality(D) - 1
<1>1. One(D) \in D
  BY Zenon DEF One
<1>2. IsFiniteSet(D) /\ Cardinality(D) \in Nat
  BY PaperAssumption, FS_Subset, FS_CardinalityType
<1>3. Cardinality(D \ {One(D)}) = Cardinality(D) - 1 /\ Cardinality(D) # 0
  BY <1>1, <1>2, FS_RemoveElement, FS_EmptySet
<1> QED BY <1>1, <1>2, <1>3, PaperAssumption

\* There are partial sums of any number of documents.
LEMMA SumsUpToAny == ASSUME NEW D \in SUBSET Uploads, NEW n \in Nat PROVE \E g : SumsUpTo(g, D, n)
<1>1. \A s \in SUBSET D : s # {} => /\ One(s) \in s /\ SizeOf[One(s)] \in Nat /\ s \ {One(s)} \in SUBSET D
                                    /\ Cardinality(s) \in Nat /\ Cardinality(s) > 0
                                    /\ Cardinality(s \ {One(s)}) = Cardinality(s) - 1
  BY OneLess
<1>2. Cardinality({}) = 0
  BY FS_EmptySet
<1> DEFINE Bad == {k \in Nat : ~\E g : SumsUpTo(g, D, k)}
<1>3. SUFFICES ASSUME Bad # {} PROVE FALSE
  OBVIOUS
<1>4. PICK k \in Bad : \A o \in Bad : k <= o
  <2>1. Bad \in SUBSET Nat
    OBVIOUS
  <2> HIDE DEF Bad
  <2> QED BY <1>3, <2>1, FirstOfNumbers
<1>5. k \in Nat /\ ~\E g : SumsUpTo(g, D, k)
  BY <1>4
<1>6. CASE k = 0
  <2> DEFINE g == [s \in SUBSET D |-> 0]
  <2>1. SumsUpTo(g, D, 0)
    <3>1. ASSUME NEW s \in SUBSET D, Cardinality(s) <= 0
          PROVE  g[s] = IF s = {} THEN 0 ELSE SizeOf[One(s)] + g[s \ {One(s)}]
      <4>1. s # {} => Cardinality(s) \in Nat /\ Cardinality(s) > 0
        BY <1>1
      <4>2. s = {}
        <5> DEFINE c == Cardinality(s)
        <5>1. c <= 0 /\ (s # {} => c \in Nat /\ c > 0)
          BY <3>1, <4>1
        <5> HIDE DEF c
        <5> QED BY <5>1
      <4> QED BY <4>2
    <3>2. g \in [SUBSET D -> Nat]
      OBVIOUS
    <3> HIDE DEF g
    <3> QED BY <3>1, <3>2 DEF SumsUpTo
  <2> QED BY <1>5, <1>6, <2>1
<1>7. CASE k # 0
  <2>1. k - 1 \in Nat /\ ~(k - 1 \in Bad)
    <3>1. k - 1 \in Nat /\ ~(k <= k - 1)
      BY <1>5, <1>7
    <3> HIDE DEF Bad
    <3> QED BY <1>4, <3>1
  <2>2. PICK g : SumsUpTo(g, D, k - 1)
    BY <2>1
  <2> DEFINE next(s) == IF s = {} THEN 0 ELSE SizeOf[One(s)] + g[s \ {One(s)}]
             h == [s \in SUBSET D |-> IF Cardinality(s) <= k - 1 THEN g[s] ELSE next(s)]
  <2>3. g \in [SUBSET D -> Nat] /\ \A s \in SUBSET D : Cardinality(s) <= k - 1 => g[s] = next(s)
    BY <2>2, Zenon DEF SumsUpTo
  <2>4. ASSUME NEW s \in SUBSET D PROVE next(s) \in Nat
    <3>1. CASE s = {}
      BY <3>1
    <3>2. CASE s # {}
      <4>1. SizeOf[One(s)] \in Nat /\ s \ {One(s)} \in SUBSET D
        BY <1>1, <3>2
      <4>2. g[s \ {One(s)}] \in Nat
        BY <2>3, <4>1
      <4> DEFINE a == SizeOf[One(s)]
                 c == g[s \ {One(s)}]
      <4>3. a \in Nat /\ c \in Nat
        BY <4>1, <4>2
      <4>4. next(s) = a + c
        BY <3>2
      <4> HIDE DEF a, c, next
      <4> QED BY <4>3, <4>4
    <3> QED BY <3>1, <3>2
  <2>5. \A s \in SUBSET D : h[s] = next(s)
    <3> HIDE DEF next
    <3> QED BY <2>3
  <2>6. h \in [SUBSET D -> Nat]
    <3> HIDE DEF next
    <3> QED BY <2>3, <2>4
  <2>7. ASSUME NEW s \in SUBSET D, Cardinality(s) <= k
        PROVE  h[s] = IF s = {} THEN 0 ELSE SizeOf[One(s)] + h[s \ {One(s)}]
    <3>1. CASE s = {}
      BY <2>5, <3>1
    <3>2. CASE s # {}
      <4>1. s \ {One(s)} \in SUBSET D /\ Cardinality(s \ {One(s)}) <= k - 1
        <5>1. Cardinality(s) \in Nat /\ Cardinality(s \ {One(s)}) = Cardinality(s) - 1 /\ s \ {One(s)} \in SUBSET D
          BY <1>1, <3>2
        <5> QED BY <1>5, <2>7, <5>1
      <4>2. h[s \ {One(s)}] = g[s \ {One(s)}]
        <5> DEFINE r == s \ {One(s)}
        <5> HIDE DEF r, next
        <5> QED BY <4>1 DEF r
      <4>3. h[s] = SizeOf[One(s)] + g[s \ {One(s)}]
        <5> HIDE DEF h
        <5> QED BY <2>5, <3>2
      <4> QED BY <3>2, <4>2, <4>3
    <3> QED BY <3>1, <3>2
  <2>8. SumsUpTo(h, D, k)
    <3> HIDE DEF h
    <3> QED BY <2>6, <2>7 DEF SumsUpTo
  <2> QED BY <1>5, <2>8
<1> QED BY <1>6, <1>7

\* So there is a function of the sums, and Total is its value.
LEMMA SumsThere == ASSUME NEW D \in SUBSET Uploads PROVE \E g \in [SUBSET D -> Nat] : Sums(g, D) /\ Total(D) = g[D]
<1> DEFINE n == Cardinality(D)
<1>1. IsFiniteSet(D) /\ n \in Nat
  BY PaperAssumption, FS_Subset, FS_CardinalityType
<1>2. PICK f : SumsUpTo(f, D, n)
  <2> HIDE DEF n
  <2> QED BY <1>1, SumsUpToAny
<1>3. \A s \in SUBSET D : Cardinality(s) <= n
  BY <1>1, FS_Subset
<1>4. f \in [SUBSET D -> Nat] /\ Sums(f, D)
  <2>1. f \in [SUBSET D -> Nat]
    BY <1>2 DEF SumsUpTo
  <2>2. \A s \in SUBSET D : f[s] = IF s = {} THEN 0 ELSE SizeOf[One(s)] + f[s \ {One(s)}]
    BY <1>2, <1>3, Zenon DEF SumsUpTo
  <2> QED BY <2>1, <2>2 DEF Sums
<1> DEFINE g == CHOOSE e : Sums(e, D)
<1>5. Sums(g, D)
  BY <1>4, Zenon
<1>6. Total(D) = g[D]
  BY DEF Total, MapThenSumSet, MapThenFoldSet, Sums, One
<1>7. g \in [SUBSET D -> Nat]
  <2> HIDE DEF g
  <2>1. g = [s \in SUBSET D |-> g[s]]
    BY <1>5 DEF Sums
  <2>2. \A s \in SUBSET D : g[s] = IF s = {} THEN 0 ELSE SizeOf[One(s)] + g[s \ {One(s)}]
    BY <1>5 DEF Sums
  <2> DEFINE Bad == {Cardinality(s) : s \in {r \in SUBSET D : g[r] \notin Nat}}
  <2>3. \A s \in SUBSET D : Cardinality(s) \in Nat
    BY <1>1, FS_Subset, FS_CardinalityType
  <2>4. ASSUME Bad # {} PROVE FALSE
    <3>1. Bad \in SUBSET Nat
      BY <2>3
    <3>2. PICK k \in Bad : \A o \in Bad : k <= o
      <4> HIDE DEF Bad
      <4> QED BY <2>4, <3>1, FirstOfNumbers
    <3>3. PICK s \in SUBSET D : g[s] \notin Nat /\ k = Cardinality(s)
      BY <3>2
    <3>4. s # {}
      BY <2>2, <3>3
    <3>5. s \ {One(s)} \in SUBSET D /\ Cardinality(s \ {One(s)}) = k - 1 /\ SizeOf[One(s)] \in Nat /\ k \in Nat
      BY <3>3, <3>4, OneLess
    <3>6. g[s \ {One(s)}] \in Nat
      <4>1. g[s \ {One(s)}] \notin Nat => k - 1 \in Bad
        BY <3>5
      <4>2. ~(k <= k - 1)
        BY <3>5
      <4> HIDE DEF Bad
      <4> QED BY <3>2, <4>1, <4>2
    <3>7. g[s] = SizeOf[One(s)] + g[s \ {One(s)}]
      BY <2>2, <3>4
    <3> QED BY <3>3, <3>5, <3>6, <3>7
  <2>5. \A s \in SUBSET D : g[s] \in Nat
    BY <2>4
  <2> QED BY <2>1, <2>5
<1> HIDE DEF g
<1> QED BY <1>5, <1>6, <1>7

\* A set has one sum, whatever it is part of.
LEMMA SumsAgree == ASSUME NEW D \in SUBSET Uploads, NEW E \in SUBSET D, NEW g, NEW h, Sums(g, D), Sums(h, E)
    PROVE  \A s \in SUBSET E : g[s] = h[s]
<1>1. \A s \in SUBSET E : g[s] = IF s = {} THEN 0 ELSE SizeOf[One(s)] + g[s \ {One(s)}]
  BY DEF Sums
<1>2. \A s \in SUBSET E : h[s] = IF s = {} THEN 0 ELSE SizeOf[One(s)] + h[s \ {One(s)}]
  BY DEF Sums
<1> DEFINE Bad == {Cardinality(s) : s \in {r \in SUBSET E : g[r] # h[r]}}
<1>3. ASSUME Bad # {} PROVE FALSE
  <2>1. \A s \in SUBSET E : Cardinality(s) \in Nat
    BY PaperAssumption, FS_Subset, FS_CardinalityType
  <2>2. Bad \in SUBSET Nat
    BY <2>1
  <2>3. PICK k \in Bad : \A o \in Bad : k <= o
    <3> HIDE DEF Bad
    <3> QED BY <1>3, <2>2, FirstOfNumbers
  <2>4. PICK s \in SUBSET E : g[s] # h[s] /\ k = Cardinality(s)
    BY <2>3
  <2>5. s # {}
    BY <1>1, <1>2, <2>4
  <2>6. s \ {One(s)} \in SUBSET E /\ Cardinality(s \ {One(s)}) = k - 1 /\ k \in Nat
    BY <2>4, <2>5, OneLess
  <2>7. g[s \ {One(s)}] = h[s \ {One(s)}]
    <3>1. g[s \ {One(s)}] # h[s \ {One(s)}] => k - 1 \in Bad
      BY <2>6
    <3>2. ~(k <= k - 1)
      BY <2>6
    <3> HIDE DEF Bad
    <3> QED BY <2>3, <3>1, <3>2
  <2> QED BY <1>1, <1>2, <2>4, <2>5, <2>7
<1> QED BY <1>3

\* Total is a number; of nothing it is zero, and one document adds its own size.
LEMMA TotalOfOne == ASSUME NEW D \in SUBSET Uploads
    PROVE  /\ Total(D) \in Nat
           /\ D = {} => Total(D) = 0
           /\ D # {} => Total(D) = SizeOf[One(D)] + Total(D \ {One(D)})
<1>1. PICK g \in [SUBSET D -> Nat] : Sums(g, D) /\ Total(D) = g[D]
  BY SumsThere
<1>2. g[D] = IF D = {} THEN 0 ELSE SizeOf[One(D)] + g[D \ {One(D)}]
  BY <1>1, D \in SUBSET D DEF Sums
<1>3. Total(D) \in Nat
  BY <1>1, D \in SUBSET D
<1>4. ASSUME D # {} PROVE Total(D) = SizeOf[One(D)] + Total(D \ {One(D)})
  <2> DEFINE E == D \ {One(D)}
  <2>1. E \in SUBSET Uploads /\ E \in SUBSET D
    OBVIOUS
  <2> HIDE DEF E
  <2>2. PICK h \in [SUBSET E -> Nat] : Sums(h, E) /\ Total(E) = h[E]
    BY <2>1, SumsThere
  <2>3. g[E] = h[E]
    BY <1>1, <2>1, <2>2, E \in SUBSET E, SumsAgree
  <2>4. g[D] = SizeOf[One(D)] + g[E]
    BY <1>2, <1>4 DEF E
  <2> QED BY <1>1, <2>2, <2>3, <2>4 DEF E
<1> QED BY <1>1, <1>2, <1>3, <1>4

\* Whichever document is counted last.
LEMMA TotalAdds == ASSUME NEW D \in SUBSET Uploads, NEW u \in Uploads, u \notin D
    PROVE  Total(D \cup {u}) = Total(D) + SizeOf[u]
<1> DEFINE Adds(E, v) == Total(E \cup {v}) = Total(E) + SizeOf[v]
           Some == {E \in SUBSET Uploads : \E v \in Uploads \ E : ~Adds(E, v)}
           Bad == {Cardinality(E) : E \in Some}
<1>1. ASSUME Bad # {} PROVE FALSE
  <2>1. \A E \in SUBSET Uploads : Cardinality(E) \in Nat
    BY PaperAssumption, FS_Subset, FS_CardinalityType
  <2>2. Bad \in SUBSET Nat
    <3> HIDE DEF Adds
    <3> QED BY <2>1
  <2>3. PICK k \in Bad : \A o \in Bad : k <= o
    <3> HIDE DEF Bad
    <3> QED BY <1>1, <2>2, FirstOfNumbers
  <2>0. PICK E \in SUBSET Uploads : (\E v \in Uploads \ E : ~Adds(E, v)) /\ k = Cardinality(E)
    <3> HIDE DEF Adds
    <3> QED BY <2>3
  <2>4. PICK v \in Uploads \ E : ~Adds(E, v) /\ k = Cardinality(E)
    <3> HIDE DEF Adds
    <3> QED BY <2>0
  <2> DEFINE F == E \cup {v}
             e == One(F)
             R == E \ {e}
  <2>5. F \in SUBSET Uploads /\ F # {} /\ e \in F /\ Total(F) = SizeOf[e] + Total(F \ {e}) /\ SizeOf[v] \in Nat
    <3>1. F \in SUBSET Uploads /\ F # {}
      OBVIOUS
    <3> HIDE DEF F
    <3> QED BY <3>1, OneLess, TotalOfOne, PaperAssumption
  <2>6. e # v
    <3> SUFFICES ASSUME e = v PROVE FALSE
      OBVIOUS
    <3>1. F \ {e} = E
      <4> HIDE DEF e
      <4> QED BY <2>4
    <3>2. Total(E) \in Nat
      BY TotalOfOne
    <3>3. Total(F) = SizeOf[v] + Total(E)
      <4> HIDE DEF F, e
      <4> QED BY <2>5, <3>1
    <3>4. Total(F) = Total(E) + SizeOf[v]
      <4> HIDE DEF F, e
      <4> QED BY <2>5, <3>2, <3>3
    <3> QED BY <2>4, <3>4
  <2>7. /\ e \in E /\ F \ {e} = R \cup {v} /\ R \in SUBSET Uploads /\ v \in Uploads \ R
        /\ e \in Uploads \ R /\ E = R \cup {e}
    <3> HIDE DEF e
    <3> QED BY <2>4, <2>5, <2>6
  <2>8. k \in Nat /\ Cardinality(R) = k - 1
    <3> HIDE DEF e
    <3> QED BY <2>1, <2>4, <2>7, PaperAssumption, FS_Subset, FS_RemoveElement
  <2>9. \A w \in Uploads \ R : Adds(R, w)
    <3>1. (\E w \in Uploads \ R : ~Adds(R, w)) => k - 1 \in Bad
      <4> HIDE DEF Adds, R
      <4> QED BY <2>7, <2>8
    <3>2. ~(k <= k - 1)
      BY <2>8
    <3> HIDE DEF Bad, Adds
    <3> QED BY <2>3, <3>1, <3>2
  <2>10. Total(E) = Total(R) + SizeOf[e] /\ Total(R \cup {v}) = Total(R) + SizeOf[v]
    <3>1. Adds(R, e) /\ Adds(R, v)
      <4> HIDE DEF R, e, Adds
      <4> QED BY <2>7, <2>9
    <3>2. R \cup {e} = E
      BY <2>7
    <3> HIDE DEF R, e
    <3> QED BY <3>1, <3>2
  <2>11. Total(R) \in Nat /\ SizeOf[e] \in Nat /\ SizeOf[v] \in Nat
    <3> HIDE DEF R, e
    <3> QED BY <2>7, TotalOfOne, PaperAssumption
  <2>12. Total(F) = SizeOf[e] + Total(R \cup {v})
    <3> HIDE DEF F, R, e
    <3> QED BY <2>5, <2>7
  <2>13. Total(F) = Total(E) + SizeOf[v]
    <3> HIDE DEF F, R, e
    <3> QED BY <2>10, <2>11, <2>12
  <2> QED BY <2>4, <2>13
<1>2. D \notin Some
  <2>1. D \in Some => Cardinality(D) \in Bad
    <3> HIDE DEF Some
    <3> QED OBVIOUS
  <2> HIDE DEF Some, Bad
  <2> QED BY <1>1, <2>1
<1> HIDE DEF Adds
<1>3. Adds(D, u)
  BY <1>2
<1> QED BY <1>3 DEF Adds

\* Fewer documents are no more characters.
LEMMA TotalGrows == ASSUME NEW D \in SUBSET Uploads, NEW E \in SUBSET D PROVE Total(E) <= Total(D)
<1> DEFINE Some == {C \in SUBSET D : E \subseteq C /\ Total(E) > Total(C)}
           Bad == {Cardinality(C) : C \in Some}
<1>1. ASSUME Bad # {} PROVE FALSE
  <2>1. \A C \in SUBSET D : Cardinality(C) \in Nat /\ IsFiniteSet(C)
    BY PaperAssumption, FS_Subset, FS_CardinalityType
  <2>2. Bad \in SUBSET Nat
    BY <2>1
  <2>3. PICK k \in Bad : \A o \in Bad : k <= o
    <3> HIDE DEF Bad
    <3> QED BY <1>1, <2>2, FirstOfNumbers
  <2>4. PICK C \in SUBSET D : E \subseteq C /\ Total(E) > Total(C) /\ k = Cardinality(C)
    BY <2>3
  <2>5. Total(E) \in Nat /\ Total(C) \in Nat
    BY TotalOfOne
  <2>6. E # C
    BY <2>4, <2>5
  <2>7. PICK u \in C \ E : TRUE
    BY <2>4, <2>6
  <2> DEFINE R == C \ {u}
  <2>8. R \in SUBSET Uploads /\ R \in SUBSET D /\ u \in Uploads /\ u \notin R /\ R \cup {u} = C /\ E \subseteq R
    BY <2>4, <2>7
  <2>9. Total(C) = Total(R) + SizeOf[u] /\ Total(R) \in Nat /\ SizeOf[u] \in Nat
    <3>1. Total(R \cup {u}) = Total(R) + SizeOf[u] /\ Total(R) \in Nat /\ SizeOf[u] \in Nat
      <4> HIDE DEF R
      <4> QED BY <2>8, TotalAdds, TotalOfOne, PaperAssumption
    <3> QED BY <2>8, <3>1
  <2>10. k \in Nat /\ Cardinality(R) = k - 1
    BY <2>1, <2>4, <2>7, FS_RemoveElement
  <2>11. Total(E) > Total(R)
    <3> HIDE DEF R
    <3> QED BY <2>4, <2>5, <2>9
  <2>12. k - 1 \in Bad
    <3> HIDE DEF R
    <3> QED BY <2>8, <2>10, <2>11
  <2>13. ~(k <= k - 1)
    BY <2>10
  <2> HIDE DEF Bad
  <2> QED BY <2>3, <2>12, <2>13
<1>2. D \notin Some
  <2>1. D \in Some => Cardinality(D) \in Bad
    <3> HIDE DEF Some
    <3> QED OBVIOUS
  <2> HIDE DEF Some, Bad
  <2> QED BY <1>1, <2>1
<1>3. Total(E) \in Nat /\ Total(D) \in Nat
  BY TotalOfOne
<1> QED BY <1>2, <1>3

\* What the room holds, less the crowded, fits; and so it would with an upload that read the total and was not
\* overtaken since.
QuotaInv ==
    /\ QuotaUnlessRaced
    /\ \A u \in Uploads : upload[u] = "insert" /\ u \notin crowded => Total(Held) + SizeOf[u] <= RoomCap

\* With fewer documents in the room the same uploads fit.
LEMMA QuotaShrinks == ASSUME QuotaInv, Held' \subseteq Held, crowded' = crowded,
        \A u \in Uploads : upload'[u] = "insert" /\ u \notin crowded => upload[u] = "insert"
    PROVE  QuotaInv'
<1>1. Held \in SUBSET Uploads /\ Held \ crowded \in SUBSET Uploads
  BY DEF Held
<1> DEFINE H == Held
           H1 == Held'
           K == Held \ crowded
           K1 == Held' \ crowded
<1>2. H1 \in SUBSET H /\ K1 \in SUBSET K /\ H \in SUBSET Uploads /\ K \in SUBSET Uploads
  BY <1>1
<1>3. /\ Total(H1) <= Total(H) /\ Total(K1) <= Total(K) /\ Total(H1) \in Nat /\ Total(H) \in Nat
      /\ Total(K1) \in Nat /\ Total(K) \in Nat
  <2>1. H1 \in SUBSET Uploads /\ K1 \in SUBSET Uploads
    BY <1>2
  <2> HIDE DEF H, H1, K, K1
  <2> QED BY <1>2, <2>1, TotalGrows, TotalOfOne
<1>4. RoomCap \in Nat /\ \A u \in Uploads : SizeOf[u] \in Nat
  BY PaperAssumption
<1>5. Total(K1) <= RoomCap
  <2>1. Total(K) <= RoomCap
    BY DEF QuotaInv, QuotaUnlessRaced
  <2> HIDE DEF K, K1
  <2> QED BY <1>3, <1>4, <2>1
<1>6. ASSUME NEW u \in Uploads, upload'[u] = "insert", u \notin crowded PROVE Total(H1) + SizeOf[u] <= RoomCap
  <2>1. Total(H) + SizeOf[u] <= RoomCap
    BY <1>6 DEF QuotaInv
  <2> HIDE DEF H, H1
  <2> QED BY <1>3, <1>4, <2>1
<1>7. Total(Held \ crowded)' = Total(K1) /\ Total(Held)' = Total(H1)
  OBVIOUS
<1> QED BY <1>5, <1>6, <1>7 DEF QuotaInv, QuotaUnlessRaced

\* An upload that reads that it fits, fits; one that another overtakes is crowded.
LEMMA ReadHeldQuota == ASSUME DocumentInv, QuotaInv, NEW u \in Uploads, ReadHeld(u) PROVE QuotaInv'
<1>1. /\ upload[u] = "none" /\ upload' = [upload EXCEPT ![u] = IF Fits(u) THEN "insert" ELSE "full"]
      /\ UNCHANGED <<document, crowded>> /\ upload \in [Uploads -> UploadPc]
  BY DocumentPlace DEF ReadHeld
<1>2. Held' = Held
  BY <1>1 DEF Held
<1>3. QuotaUnlessRaced'
  BY <1>1, <1>2 DEF QuotaInv, QuotaUnlessRaced
<1>4. ASSUME NEW o \in Uploads, upload'[o] = "insert", o \notin crowded PROVE Total(Held) + SizeOf[o] <= RoomCap
  <2>1. CASE o = u
    <3>1. Fits(u)
      BY <1>1, <1>4, <2>1
    <3> QED BY <2>1, <3>1 DEF Fits
  <2>2. CASE o # u
    BY <1>1, <1>4, <2>2 DEF QuotaInv
  <2> QED BY <2>1, <2>2
<1>5. Total(Held)' = Total(Held)
  BY <1>2
<1> QED BY <1>1, <1>3, <1>4, <1>5 DEF QuotaInv

\* The one write that adds to what a room holds.
LEMMA AddDocumentQuota == ASSUME DocumentInv, QuotaInv, NEW u \in Uploads, AddDocument(u) PROVE QuotaInv'
<1>1. /\ upload[u] = "insert" /\ upload' = [upload EXCEPT ![u] = "append"] /\ upload \in [Uploads -> UploadPc]
      /\ document' = [document EXCEPT ![u] = "held"] /\ document \in [Uploads -> {"none", "held", "removed"}]
      /\ crowded' = crowded \cup {v \in Uploads \ {u} : upload[v] = "insert"}
  BY DocumentPlace DEF AddDocument
<1> DEFINE H == Held
           K == Held \ crowded
           K1 == Held' \ crowded'
<1>2. Held' = H \cup {u} /\ u \notin H /\ H \in SUBSET Uploads
  BY <1>1, DocumentPlace DEF Held, UploadsAgree
<1>3. Total(K) <= RoomCap /\ Total(H) \in Nat /\ SizeOf[u] \in Nat /\ RoomCap \in Nat
  <2>1. Total(K) <= RoomCap
    BY DEF QuotaInv, QuotaUnlessRaced
  <2> QED BY <1>2, <2>1, TotalOfOne, PaperAssumption
<1>4. Total(K1) <= RoomCap
  <2>1. CASE u \in crowded
    <3>1. K1 \in SUBSET K /\ K \in SUBSET Uploads /\ K1 \in SUBSET Uploads
      BY <1>1, <1>2, <2>1
    <3>2. Total(K1) <= Total(K) /\ Total(K1) \in Nat /\ Total(K) \in Nat
      <4> HIDE DEF K, K1
      <4> QED BY <3>1, TotalGrows, TotalOfOne
    <3> HIDE DEF K, K1
    <3> QED BY <1>3, <3>2
  <2>2. CASE u \notin crowded
    <3>1. Total(H) + SizeOf[u] <= RoomCap
      BY <1>1, <2>2 DEF QuotaInv
    <3> DEFINE G == H \cup {u}
    <3>2. K1 \in SUBSET G /\ G \in SUBSET Uploads /\ K1 \in SUBSET Uploads
      BY <1>1, <1>2
    <3>3. Total(G) = Total(H) + SizeOf[u]
      <4> HIDE DEF H
      <4> QED BY <1>2, TotalAdds
    <3>4. Total(K1) <= Total(G) /\ Total(K1) \in Nat /\ Total(G) \in Nat
      <4> HIDE DEF K1, G
      <4> QED BY <3>2, TotalGrows, TotalOfOne
    <3> HIDE DEF K1, G, H
    <3> QED BY <1>3, <3>1, <3>3, <3>4
  <2> QED BY <2>1, <2>2
<1>5. \A o \in Uploads : ~(upload'[o] = "insert" /\ o \notin crowded')
  BY <1>1
<1>6. Total(Held \ crowded)' = Total(K1)
  OBVIOUS
<1> QED BY <1>4, <1>5, <1>6 DEF QuotaInv, QuotaUnlessRaced

\* Nothing is held at the start.
LEMMA QuotaBegins == ASSUME PapersInit PROVE QuotaInv
<1>1. Held = {} /\ Held \ crowded = {}
  BY DEF PapersInit, Held
<1>2. Total({}) = 0
  BY TotalOfOne
<1>3. QuotaUnlessRaced
  BY <1>1, <1>2, PaperAssumption DEF QuotaUnlessRaced
<1>4. \A u \in Uploads : upload[u] # "insert"
  BY DEF PapersInit
<1> QED BY <1>3, <1>4 DEF QuotaInv

\* Every step keeps the quota.
LEMMA QuotaGoesOn == DocumentInv /\ QuotaInv /\ [PapersNext]_paperVars => QuotaInv'
<1> SUFFICES ASSUME DocumentInv, QuotaInv, [PapersNext]_paperVars PROVE QuotaInv'
  OBVIOUS
<1> USE DocumentPlace
<1>1. ASSUME UNCHANGED documentVars PROVE QuotaInv'
  <2>1. Held' = Held /\ crowded' = crowded /\ upload' = upload
    BY <1>1 DEF documentVars, Held
  <2> QED BY <2>1, QuotaShrinks
<1>2. ASSUME NEW u \in Uploads, AppendAdded(u) PROVE QuotaInv'
  <2>1. Held' = Held /\ crowded' = crowded /\ upload' = [upload EXCEPT ![u] = "done"]
    BY <1>2 DEF AppendAdded, Held
  <2> QED BY <2>1, QuotaShrinks
<1>3. ASSUME NEW r \in Removals, FindDocument(r) \/ AppendRemoved(r) PROVE QuotaInv'
  <2>1. Held' = Held /\ crowded' = crowded /\ upload' = upload
    BY <1>3 DEF FindDocument, AppendRemoved, Held
  <2> QED BY <2>1, QuotaShrinks
<1>4. ASSUME NEW r \in Removals, RemoveDocument(r) PROVE QuotaInv'
  <2>1. crowded' = crowded /\ upload' = upload
    BY <1>4 DEF RemoveDocument
  <2>2. document' = document \/ document' = [document EXCEPT ![DocumentOf[r]] = "removed"]
    BY <1>4 DEF RemoveDocument
  <2>3. Held' \subseteq Held
    BY <2>2 DEF Held
  <2> QED BY <2>1, <2>3, QuotaShrinks
<1>5. ASSUME DocumentCallDies PROVE QuotaInv'
  <2>1. Held' = Held /\ crowded' = crowded
    BY <1>5 DEF DocumentCallDies, Held
  <2>2. \A u \in Uploads : upload'[u] = "insert" => upload[u] = "insert"
    BY <1>5 DEF DocumentCallDies
  <2> QED BY <2>1, <2>2, QuotaShrinks
<1>6. ASSUME NEW c \in BriefingCalls,
             SelectActive(c) \/ LockActive(c) \/ CommitBriefing(c) \/ RollBackBriefing(c) \/ InsertBriefing(c)
      PROVE  UNCHANGED documentVars
  BY <1>6 DEF SelectActive, LockActive, CommitBriefing, RollBackBriefing, InsertBriefing
<1>7. UNCHANGED paperVars => UNCHANGED documentVars
  BY DEF paperVars
<1>8. \A b \in Sets : b \in BriefingCalls
  BY DEF BriefingCalls
<1> QED BY <1>1, <1>2, <1>3, <1>4, <1>5, <1>6, <1>7, <1>8, ReadHeldQuota, AddDocumentQuota DEF PapersNext

\* The papers of a room are what its log says they are, within its quota but for the uploads that another overtook
\* between the read of the total and the insert (commands/document.ts, commands/briefing.ts).
THEOREM PapersAgreeHolds == PapersSpec => []PapersAgree
<1>1. PapersInit => QuotaInv
  BY QuotaBegins
<1>2. QuotaInv => QuotaUnlessRaced
  BY DEF QuotaInv
<1> QED BY <1>1, <1>2, QuotaGoesOn, PapersInvHolds, DocumentsAnnouncedHolds, BriefingLogIsTheTableHolds, PTL
        DEF PapersSpec, PapersAgree

\* Every variable of the papers keeps its type, and a room has one briefing.
LEMMA PapersTypes == PapersSpec => []PapersTypeOK
<1> DEFINE Few == paperFaults \in 0..MaxPaperFaults
<1>1. PapersInit => Few
  BY PaperAssumption DEF PapersInit
<1>2. Few /\ [PapersNext]_paperVars => Few'
  <2> SUFFICES ASSUME Few, [PapersNext]_paperVars PROVE Few'
    OBVIOUS
  <2>1. ASSUME UNCHANGED paperFaults PROVE Few'
    BY <2>1
  <2>2. ASSUME paperFaults < MaxPaperFaults /\ paperFaults' = paperFaults + 1 PROVE Few'
    BY <2>2, PaperAssumption
  <2>3. UNCHANGED paperVars => UNCHANGED paperFaults
    BY DEF paperVars
  <2>4. ASSUME NEW u \in Uploads, ReadHeld(u) \/ AddDocument(u) \/ AppendAdded(u) PROVE UNCHANGED paperFaults
    BY <2>4 DEF ReadHeld, AddDocument, AppendAdded
  <2>5. ASSUME NEW r \in Removals, FindDocument(r) \/ RemoveDocument(r) \/ AppendRemoved(r) PROVE UNCHANGED paperFaults
    BY <2>5 DEF FindDocument, RemoveDocument, AppendRemoved
  <2>6. ASSUME NEW c \in BriefingCalls, SelectActive(c) \/ LockActive(c) \/ CommitBriefing(c) PROVE UNCHANGED paperFaults
    BY <2>6 DEF SelectActive, LockActive, CommitBriefing
  <2>7. ASSUME NEW b \in Sets, InsertBriefing(b) PROVE UNCHANGED paperFaults
    BY <2>7 DEF InsertBriefing
  <2>8. ASSUME NEW c \in BriefingCalls, RollBackBriefing(c)
        PROVE  paperFaults < MaxPaperFaults /\ paperFaults' = paperFaults + 1
    BY <2>8 DEF RollBackBriefing
  <2>9. ASSUME DocumentCallDies PROVE paperFaults < MaxPaperFaults /\ paperFaults' = paperFaults + 1
    BY <2>9 DEF DocumentCallDies
  <2> QED BY <2>1, <2>2, <2>3, <2>4, <2>5, <2>6, <2>7, <2>8, <2>9 DEF PapersNext
<1>3. ASSUME DocumentInv, BriefingInv, Few PROVE PapersTypeOK
  <2>1. \A i \in DOMAIN papers : papers[i] \in {"added", "removed"} \X Uploads
    <3>1. papers \in Seq(PaperEvents)
      BY <1>3, DocumentPlace
    <3>2. \A i \in DOMAIN papers : papers[i] \in PaperEvents
      <4> HIDE DEF PaperEvents
      <4> QED BY <3>1
    <3> QED BY <3>2 DEF PaperEvents
  <2>2. \A a, b \in Sets : briefing[a] = "active" /\ briefing[b] = "active" => a = b
    BY <1>3, BriefingPlace DEF Active
  <2>3. call \in [BriefingCalls -> [pc : {"none", "wait", "insert", "written", "done", "absent", "failed"},
                                    saw : Sets \cup {Nothing}, holds : Sets \cup {Nothing}]]
    BY <1>3, BriefingPlace DEF CallRow
  <2> QED BY <1>3, <2>1, <2>2, <2>3, BriefingPlace DEF DocumentInv, DocumentsTyped, UploadPc, RemovalPc, PapersTypeOK
<1> QED BY <1>1, <1>2, <1>3, PapersInvHolds, PTL DEF PapersSpec

-----------------------------------------------------------------------------
(* Messages and their summons. *)

Pcs == {"none", "box", "wire", "queue"} \cup Running \cup Over
PageRow == [box : PagePosts \cup {Nil}, pending : PagePosts \cup {Nil}, conn : 0..MaxConns, up : BOOLEAN, stopped : BOOLEAN]
SocketRow == [wire : Seq(PagePosts), queue : Seq(PagePosts), accepted : {"opening", "yes", "refused", "failed"}]
PostRow == [pc : Pcs, conn : 0..MaxConns, todo : SUBSET Agents, cur : Agents \cup {Nil}, heard : Nat, since : Nat]
Message == [id : Ids, by : People, names : SUBSET (Agents \cup {Stranger})]
Telling == {"unknown", "noroute", "summon"} \X Ids \X (Agents \cup {Nil})

PostTyped ==
    /\ page \in PageRow /\ socket \in [Conns -> SocketRow] /\ post \in [Posts -> PostRow]
    /\ log \in Seq(Message) /\ told \subseteq Telling /\ turns \in [Ids \X Agents -> Nat]
    /\ stranded \subseteq Ids \X Agents /\ acted \in Nat
    /\ \A p \in Posts : post[p].cur # Nil <=> post[p].pc \in {"noroute", "insert", "announce"}
    /\ attended \subseteq Posts /\ given \subseteq Ids /\ postFaults \in 0..MaxPostFaults

\* Before its command begins, and once its message is in the log.
Early == {"none", "box", "wire", "queue"}
Later == {"notice", "next", "noroute", "insert", "announce", "done"}

\* A step that is not the command's own: a post stays as it is, waits elsewhere or is taken, or a fault ends it.
Aside(p) ==
    \/ post'[p] = post[p]
    \/ /\ post[p].pc \in Early /\ post'[p].pc \in Early \cup {"append", "lost", "dropped", "dead"}
    \/ /\ post[p].pc \in Running /\ post'[p].pc \in {"failed", "dead"}
       /\ post[p].pc = "announce" => <<Id(p), post[p].cur>> \in stranded'

\* The kinds of a post's places.
LEMMA Places ==
    /\ Running \cap Over = {} /\ Early \cap (Running \cup Over) = {} /\ Pcs = Early \cup Running \cup Over
    /\ Later = (Running \ {"append"}) \cup {"done"} /\ "append" \in Running /\ "append" \notin Later
    /\ "box" \notin Over /\ "wire" \notin Over /\ "queue" \notin Over /\ "append" \notin Over /\ "next" \notin Over
    /\ "announce" \notin Over /\ {"done", "failed", "dead", "lost", "dropped"} = Over
BY DEF Running, Over, Early, Later, Pcs

\* Who posts, and under which id.
LEMMA PostsAre ==
    /\ PagePosts \subseteq Posts /\ DoorPosts \subseteq Posts /\ PagePosts \subseteq Nat \ {0} /\ Nil \notin Agents
    /\ \A p \in Posts : Id(p) \in Ids /\ By(p) \in People /\ NamesOf[p] \subseteq Agents \cup {Stranger}
    /\ \A p \in PagePosts : Id(p) = p /\ By(p) = Person
    /\ \A p \in DoorPosts : p \notin PagePosts /\ Id(p) = IdOf[p] /\ By(p) = AuthorOf[p] /\ Id(p) \notin PagePosts
    /\ \A p \in Posts : p \in PagePosts \/ p \in DoorPosts
    /\ \A p \in Posts : By(p) = Bot => p \in DoorPosts
    /\ Person \notin Agents /\ Bot \in Agents /\ Stranger \notin Agents /\ TagLimit \in Nat \ {0}
    /\ ScanLimit \in Nat \ {0}
    /\ MaxConns \in Nat /\ MaxPostFaults \in Nat
BY PostingAssumption DEF Posts, Ids, People, Id, By, Nil

\* What moving a set of posts does to each.
LEMMA MovedRows == ASSUME post \in [Posts -> PostRow], NEW P \in SUBSET Posts, NEW to \in Pcs, post' = Moved(P, to)
    PROVE  /\ post' \in [Posts -> PostRow]
           /\ \A p \in Posts \ P : post'[p] = post[p]
           /\ \A p \in P : /\ post'[p].pc = to /\ post'[p].conn = post[p].conn /\ post'[p].heard = post[p].heard /\ post'[p].since = post[p].since
                           /\ post'[p].todo = (IF to \in Over THEN {} ELSE post[p].todo)
                           /\ post'[p].cur = (IF to \in {"next"} \cup Over THEN Nil ELSE post[p].cur)
<1> DEFINE now(p) == [post[p] EXCEPT !.pc = to, !.todo = IF to \in Over THEN {} ELSE @,
                                     !.cur = IF to \in {"next"} \cup Over THEN Nil ELSE @]
<1>1. post' = [p \in Posts |-> IF p \notin P THEN post[p] ELSE now(p)]
  BY DEF Moved
<1>2. ASSUME NEW p \in Posts
      PROVE  /\ now(p) \in PostRow /\ now(p).pc = to /\ now(p).conn = post[p].conn /\ now(p).heard = post[p].heard /\ now(p).since = post[p].since
             /\ now(p).todo = (IF to \in Over THEN {} ELSE post[p].todo)
             /\ now(p).cur = (IF to \in {"next"} \cup Over THEN Nil ELSE post[p].cur)
  <2>1. post[p] \in PostRow
    BY <1>2
  <2> HIDE DEF Pcs
  <2>2. post[p] \in [pc : Pcs, conn : 0..MaxConns, todo : SUBSET Agents, cur : Agents \cup {Nil}, heard : Nat, since : Nat]
    BY <2>1 DEF PostRow
  <2> QED BY <2>2 DEF PostRow
<1> HIDE DEF now, PostRow
<1>3. \A p \in Posts : post'[p] = IF p \notin P THEN post[p] ELSE now(p)
  BY <1>1
<1>4. post' \in [Posts -> PostRow]
  BY <1>1, <1>2
<1>5. \A p \in P : p \in Posts /\ post'[p] = now(p)
  BY <1>3
<1> QED BY <1>2, <1>3, <1>4, <1>5

\* A sequence that grows, and one that is taken from.
Inc(s) == \A i, j \in DOMAIN s : i < j => s[i] < s[j]

\* One more at the end.
LEMMA AppendIn == ASSUME NEW S \in SUBSET Nat, NEW s \in Seq(S), NEW e \in S
    PROVE  /\ Append(s, e) \in Seq(S) /\ In(Append(s, e)) = In(s) \cup {e} /\ In(s) \subseteq S
           /\ Inc(s) /\ (\A n \in In(s) : n < e) => Inc(Append(s, e))
<1> DEFINE t == Append(s, e)
           n == Len(s)
<1>1. t \in Seq(S) /\ Len(t) = n + 1 /\ n \in Nat /\ (\A i \in 1..n : t[i] = s[i]) /\ t[n + 1] = e
  BY AppendProperties, LenProperties
<1>2. DOMAIN s = 1..n /\ DOMAIN t = 1..(n + 1) /\ \A i \in 1..n : s[i] \in S
  BY <1>1, LenProperties, ElementOfSeq
<1> HIDE DEF t, n
<1>3. In(t) = In(s) \cup {e}
  <2>1. \A i \in 1..(n + 1) : i \in 1..n \/ i = n + 1
    BY <1>1
  <2>2. \A i \in 1..n : i \in 1..(n + 1)
    BY <1>1
  <2>3. n + 1 \in 1..(n + 1)
    BY <1>1
  <2> QED BY <1>1, <1>2, <2>1, <2>2, <2>3 DEF In
<1>4. In(s) \subseteq S
  BY <1>2 DEF In
<1>5. ASSUME Inc(s), \A k \in In(s) : k < e PROVE Inc(t)
  <2> SUFFICES ASSUME NEW i \in 1..(n + 1), NEW j \in 1..(n + 1), i < j PROVE t[i] < t[j]
    BY <1>2 DEF Inc
  <2>1. i \in 1..n /\ (j \in 1..n \/ j = n + 1)
    BY <1>1
  <2>2. s[i] \in In(s)
    BY <1>2, <2>1 DEF In
  <2> QED BY <1>1, <1>2, <1>5, <2>1, <2>2 DEF Inc
<1> QED BY <1>1, <1>3, <1>4, <1>5 DEF t

\* One less at the front.
LEMMA TailIn == ASSUME NEW S \in SUBSET Nat, NEW s \in Seq(S), s # <<>>
    PROVE  /\ Tail(s) \in Seq(S) /\ Head(s) \in S /\ In(s) \subseteq S /\ In(s) = {Head(s)} \cup In(Tail(s))
           /\ Inc(s) => Inc(Tail(s)) /\ \A n \in In(Tail(s)) : Head(s) < n
<1> DEFINE t == Tail(s)
           n == Len(s)
<1>1. t \in Seq(S) /\ Len(t) = n - 1 /\ n \in Nat /\ n > 0 /\ (\A i \in 1..(n - 1) : t[i] = s[i + 1]) /\ Head(s) = s[1] /\ s[1] \in S
  <2>1. Head(s) = s[1]
    OBVIOUS
  <2>2. n \in Nat /\ n # 0
    BY EmptySeq, LenProperties
  <2> QED BY <2>1, <2>2, HeadTailProperties
<1>2. DOMAIN s = 1..n /\ DOMAIN t = 1..(n - 1) /\ \A i \in 1..n : s[i] \in S
  BY <1>1, LenProperties, ElementOfSeq
<1> HIDE DEF t, n
<1>3. \A i \in 1..n : i = 1 \/ (i - 1 \in 1..(n - 1) /\ s[i] = t[i - 1])
  BY <1>1
<1>4. \A i \in 1..(n - 1) : i + 1 \in 1..n
  BY <1>1
<1>5. 1 \in 1..n
  BY <1>1
<1>6. In(s) = {Head(s)} \cup In(t)
  <2>1. ASSUME NEW i \in 1..n PROVE s[i] \in {s[1]} \cup In(t)
    BY <1>2, <1>3 DEF In
  <2>2. ASSUME NEW i \in 1..(n - 1) PROVE t[i] \in In(s)
    BY <1>1, <1>2, <1>4 DEF In
  <2>3. s[1] \in In(s)
    BY <1>2, <1>5 DEF In
  <2>4. In(s) = {s[i] : i \in 1..n} /\ In(t) = {t[i] : i \in 1..(n - 1)}
    BY <1>2 DEF In
  <2> QED BY <1>1, <2>1, <2>2, <2>3, <2>4
<1>7. In(s) \subseteq S
  BY <1>2 DEF In
<1>8. ASSUME Inc(s) PROVE Inc(t) /\ \A k \in In(t) : Head(s) < k
  <2>1. ASSUME NEW i \in 1..(n - 1), NEW j \in 1..(n - 1), i < j PROVE t[i] < t[j]
    <3>1. i + 1 < j + 1
      BY <2>1
    <3> QED BY <1>1, <1>2, <1>4, <1>8, <2>1, <3>1 DEF Inc
  <2>2. ASSUME NEW i \in 1..(n - 1) PROVE s[1] < t[i]
    <3>1. 1 < i + 1
      BY <2>2
    <3> QED BY <1>1, <1>2, <1>4, <1>5, <1>8, <3>1 DEF Inc
  <2> QED BY <1>1, <1>2, <2>1, <2>2 DEF Inc, In
<1> QED BY <1>1, <1>6, <1>7, <1>8 DEF t

\* The page: once refused it stays down with its text given back; what is in its box is the newest post.
PageHolds ==
    /\ page.stopped => ~page.up /\ (page.box = Nil => page.pending = Nil)
    /\ page.up => page.conn \in Conns
    /\ page.box # Nil /\ ~page.stopped =>
         post[page.box].pc = "box" /\ \A o \in PagePosts : post[o].pc # "none" => o <= page.box
    /\ \A p \in PagePosts : post[p].pc \in {"none", "box"} => post[p].conn = 0
    /\ \A o, p \in PagePosts : o < p /\ post[p].pc # "none" => post[o].pc # "none"

\* What waits behind a socket waits in the order it was typed, and what waits is there.
Waiting(p) == post[p].pc \in {"wire", "queue"}
Behind(c) == In(socket[c].queue) \cup In(socket[c].wire)

LinesHold ==
    /\ \A c \in Conns :
         /\ Inc(socket[c].queue) /\ Inc(socket[c].wire)
         /\ \A p \in In(socket[c].queue), q \in In(socket[c].wire) : p < q
         /\ \A p \in Behind(c) : Waiting(p) /\ post[p].conn = c
    /\ \A p \in PagePosts : Waiting(p) => post[p].conn \in Conns /\ p \in Behind(post[p].conn)

\* One post of a connection runs at a time, and no post overtakes an earlier one.
Overtakes(p, q) == p < q /\ post[p].conn = post[q].conn /\ post[q].conn # 0

NoneOvertakes ==
    /\ \A p, q \in PagePosts : post[p].conn = post[q].conn /\ post[p].conn # 0
         /\ post[p].pc \in Running /\ post[q].pc \in Running => p = q
    /\ \A p, q \in PagePosts : Overtakes(p, q) /\ Waiting(p) => post[q].pc \notin Running
    /\ \A p, q \in PagePosts : Overtakes(p, q) /\ (Waiting(p) \/ post[p].pc = "append") => \A j \in DOMAIN log : log[j].id # q

\* The log has a message once, and that of each post whose command is past its append.
LogHolds ==
    /\ \A i, j \in DOMAIN log : log[i].id = log[j].id => i = j
    /\ \A q \in PagePosts, j \in DOMAIN log : log[j].id = q => post[q].pc \in Later \cup {"failed", "dead"}
    /\ \A p \in Posts : post[p].pc \in Later => \E i \in DOMAIN log : log[i].id = Id(p)

\* On its way to defer the turn of a summon.
Announces(p, s) == post[p].pc = "announce" /\ <<Id(p), post[p].cur>> = s

\* A turn is deferred by whoever appended its summon, and by nobody else; one that never is, a fault stranded.
SummonsHold ==
    /\ \A p, q \in Posts : post[p].pc = "announce" /\ post[q].pc = "announce" /\ Id(p) = Id(q)
         /\ post[p].cur = post[q].cur => p = q
    /\ \A p \in Posts : post[p].pc = "announce" =>
         <<"summon", Id(p), post[p].cur>> \in told /\ turns[<<Id(p), post[p].cur>>] = 0
    /\ \A s \in Ids \X Agents : turns[s] <= 1 /\ (turns[s] > 0 => <<"summon", s[1], s[2]>> \in told)
    /\ \A s \in Unstarted : s \in stranded \/ \E p \in Posts : Announces(p, s)
    /\ stranded \subseteq Unstarted /\ \A p \in Posts : post[p].pc = "announce" => <<Id(p), post[p].cur>> \notin stranded

\* What a message's names still wait for.
TagsOf(p) == post[p].pc \in Later /\ By(p) \notin Agents =>
    /\ \A a \in Called(Id(p), log) \cap Agents :
         \/ a \in post[p].todo \/ (a = post[p].cur /\ post[p].pc \in {"noroute", "insert", "announce"}) \/ Answered(Id(p), a)
    /\ Stranger \in Called(Id(p), log) => post[p].pc = "notice" \/ <<"unknown", Id(p), Nil>> \in told
    /\ post[p].pc = "done" => post[p].todo = {}

TagsHold == \A p \in Posts : TagsOf(p)

\* A tag was pushed out of a listing by as many as one holds, or as many messages as it looks through.
Between(S, i, h) == {k \in S : i < k /\ k <= h}
PushedOut(i, h) == Cardinality(Between(Tagging, i, h)) >= TagLimit \/ Cardinality(Between(Others, i, h)) >= ScanLimit

\* Why a listing, made when the log had `h` messages and Bot had acted after `s` of them, left a tag out.
Missed(i, h, s) == h < i \/ i <= s \/ PushedOut(i, h)

\* Why a tag is behind a message of Bot's own.
Cleared(i) == \E p \in DoorPosts, j \in Own :
    log[j].id = Id(p) /\ i < j /\ post[p].pc # "none" /\ Missed(i, post[p].heard, post[p].since)

\* What Bot was not given when it listed its tags it had been given, or it had acted since, or its listing was full.
BotHolds ==
    /\ \A p \in Posts : post[p].heard <= Len(log)
    /\ \A i \in Tagging : log[i].id \notin given /\ (\E j \in Own : i < j) => Cleared(i)
    /\ \A p \in DoorPosts, i \in Tagging : By(p) = Bot /\ post[p].pc # "none" /\ i <= post[p].heard
         /\ log[i].id \notin given => Cleared(i) \/ Missed(i, post[p].heard, post[p].since)

PostInv == /\ PostTyped /\ PageHolds /\ LinesHold /\ NoneOvertakes
           /\ LogHolds /\ InOrder /\ SummonsHold /\ TagsHold /\ BotHolds

\* What the invariant says of a post, a socket and the page.
LEMMA PostPlace == ASSUME PostTyped
    PROVE  /\ \A p \in Posts : /\ post[p] \in PostRow /\ post[p].pc \in Pcs /\ post[p].conn \in 0..MaxConns
                               /\ post[p].todo \subseteq Agents /\ post[p].cur \in Agents \cup {Nil} /\ post[p].heard \in Nat /\ post[p].since \in Nat
           /\ \A c \in Conns : socket[c] \in SocketRow /\ socket[c].wire \in Seq(PagePosts) /\ socket[c].queue \in Seq(PagePosts)
           /\ page.box \in PagePosts \cup {Nil} /\ page.pending \in PagePosts \cup {Nil} /\ page.conn \in 0..MaxConns
           /\ page.up \in BOOLEAN /\ page.stopped \in BOOLEAN
<1>1. ASSUME NEW p \in Posts
      PROVE  /\ post[p] \in PostRow /\ post[p].pc \in Pcs /\ post[p].conn \in 0..MaxConns
             /\ post[p].todo \subseteq Agents /\ post[p].cur \in Agents \cup {Nil} /\ post[p].heard \in Nat /\ post[p].since \in Nat
  <2>1. post[p] \in PostRow
    BY <1>1 DEF PostTyped
  <2> QED BY <2>1 DEF PostRow
<1>2. ASSUME NEW c \in Conns
      PROVE socket[c] \in SocketRow /\ socket[c].wire \in Seq(PagePosts) /\ socket[c].queue \in Seq(PagePosts)
  <2>1. socket[c] \in SocketRow
    BY <1>2 DEF PostTyped
  <2> QED BY <2>1 DEF SocketRow
<1>3. page \in PageRow
  BY DEF PostTyped
<1>4. /\ page.box \in PagePosts \cup {Nil} /\ page.pending \in PagePosts \cup {Nil} /\ page.conn \in 0..MaxConns
      /\ page.up \in BOOLEAN /\ page.stopped \in BOOLEAN
  BY <1>3 DEF PageRow
<1> QED BY <1>1, <1>2, <1>4

\* Sequences of posts, as sets.
LEMMA LinesIn == ASSUME PostTyped
    PROVE  \A c \in Conns : /\ In(socket[c].wire) \subseteq PagePosts /\ In(socket[c].queue) \subseteq PagePosts
                            /\ Behind(c) \subseteq PagePosts
<1>1. ASSUME NEW s \in Seq(PagePosts) PROVE In(s) \subseteq PagePosts
  BY <1>1 DEF In
<1> QED BY <1>1, PostPlace DEF Behind

-----------------------------------------------------------------------------
(* Steps that are not the command's own. *)

\* They leave the log and what it led to; the posts go aside.
AsideStep == UNCHANGED <<log, told, turns>> /\ (\A p \in Posts : Aside(p) /\ post'[p].conn \in 0..MaxConns)
             /\ stranded \subseteq stranded'
             /\ \A s \in stranded' \ stranded : \E p \in Posts : Announces(p, s) /\ post'[p].pc # "announce"

\* The log stays true of the posts when none of them writes,
LEMMA AsideLog == ASSUME PostTyped, LogHolds, AsideStep PROVE LogHolds'
<1> USE Places, PostPlace, PostsAre
<1>1. \A p \in Posts : post'[p].pc \in Later => post[p].pc \in Later
  BY DEF AsideStep, Aside, Later, Early
<1>2. \A p \in Posts : post[p].pc \in Later \cup {"failed", "dead"} => post'[p].pc \in Later \cup {"failed", "dead"}
  BY DEF AsideStep, Aside, Later, Early
<1> QED BY <1>1, <1>2 DEF LogHolds, AsideStep

\* so do the summons that were said,
LEMMA AsideSummons == ASSUME PostTyped, SummonsHold, AsideStep PROVE SummonsHold'
<1> USE Places, PostPlace, PostsAre
<1>1. \A p \in Posts : post'[p].pc = "announce" => post'[p] = post[p]
  BY DEF AsideStep, Aside, Early
<1>2. \A p \in Posts : post[p].pc = "announce" => post'[p] = post[p] \/ <<Id(p), post[p].cur>> \in stranded'
  BY DEF AsideStep, Aside, Early
<1>3. Unstarted' = Unstarted /\ UNCHANGED <<told, turns>>
  BY DEF Unstarted, AsideStep
<1>4. ASSUME NEW s \in Unstarted PROVE s \in stranded' \/ \E p \in Posts : Announces(p, s)'
  <2>1. CASE s \in stranded
    BY <2>1 DEF AsideStep
  <2>2. CASE \E p \in Posts : Announces(p, s)
    <3>1. PICK p \in Posts : Announces(p, s)
      BY <2>2
    <3> QED BY <1>2, <3>1 DEF Announces
  <2> QED BY <2>1, <2>2 DEF SummonsHold
<1>5. ASSUME NEW s \in stranded', s \notin stranded
      PROVE  s \in Unstarted /\ \E p \in Posts : Announces(p, s) /\ post'[p].pc # "announce"
  <2>1. PICK p \in Posts : Announces(p, s) /\ post'[p].pc # "announce"
    BY <1>5 DEF AsideStep
  <2>2. post[p].cur \in Agents /\ s = <<Id(p), post[p].cur>>
    BY <2>1 DEF Announces, PostTyped
  <2>3. <<"summon", Id(p), post[p].cur>> \in told /\ turns[s] = 0
    BY <2>1, <2>2 DEF SummonsHold, Announces
  <2> QED BY <2>1, <2>2, <2>3 DEF Unstarted
<1>6. ASSUME NEW p \in Posts, post'[p].pc = "announce" PROVE <<Id(p), post'[p].cur>> \notin stranded'
  <2>1. post'[p] = post[p] /\ post[p].pc = "announce" /\ <<Id(p), post[p].cur>> \notin stranded
    BY <1>1, <1>6 DEF SummonsHold
  <2>2. SUFFICES ASSUME <<Id(p), post[p].cur>> \in stranded' PROVE FALSE
    BY <2>1
  <2>3. PICK q \in Posts : Announces(q, <<Id(p), post[p].cur>>) /\ post'[q].pc # "announce"
    BY <1>5, <2>1, <2>2
  <2>4. q = p
    BY <2>1, <2>3 DEF SummonsHold, Announces
  <2> QED BY <1>6, <2>3, <2>4
<1>7. stranded' \subseteq Unstarted'
  BY <1>3, <1>5 DEF SummonsHold
<1> QED BY <1>1, <1>3, <1>4, <1>6, <1>7 DEF SummonsHold

\* and the tags that were ruled on.
LEMMA AsideTags == ASSUME PostTyped, TagsHold, AsideStep PROVE TagsHold'
<1> USE Places, PostPlace, PostsAre
<1>1. \A p \in Posts : post'[p].pc \in Later => post'[p] = post[p]
  BY DEF AsideStep, Aside, Early, Later
<1>2. \A p \in Posts : Called(Id(p), log)' = Called(Id(p), log) /\ \A a : (Answered(Id(p), a)' <=> Answered(Id(p), a))
  BY DEF AsideStep, Called, Said, Answered
<1>3. UNCHANGED <<log, told>>
  BY DEF AsideStep
<1> QED BY <1>1, <1>2, <1>3 DEF TagsHold, TagsOf

\* And unless one of them is Bot's call, what it was given stays right.
LEMMA AsideBot == ASSUME PostTyped, BotHolds, AsideStep, given' = given,
        \A p \in Posts : post'[p].heard = post[p].heard /\ post'[p].since = post[p].since /\ (p \in PagePosts \/ (post'[p].pc = "none" <=> post[p].pc = "none"))
    PROVE  BotHolds'
<1> USE PostsAre
<1>1. /\ \A p \in Posts : post'[p].heard = post[p].heard /\ post'[p].since = post[p].since
      /\ \A p \in DoorPosts : post'[p].pc = "none" <=> post[p].pc = "none"
      /\ log' = log
  BY DEF AsideStep
<1>2. Own' = Own /\ Tagging' = Tagging /\ Others' = Others
  BY <1>1 DEF Own, Tagging, Others
<1>3. \A i, h, t : Missed(i, h, t)' <=> Missed(i, h, t)
  BY <1>2 DEF Missed, PushedOut, Between
<1>4. \A i : Cleared(i)' <=> Cleared(i)
  BY <1>1, <1>2, <1>3 DEF Cleared
<1> QED BY <1>1, <1>2, <1>3, <1>4 DEF BotHolds

\* With the log and the posts' connections as they are, so is the order of the log.
LEMMA AsideOrder == ASSUME PostTyped, InOrder, log' = log,
        \A p \in PagePosts : post'[p].conn = post[p].conn \/ \A i \in DOMAIN log : log[i].id # p
    PROVE  InOrder'
BY DEF InOrder

\* Moving one post.
LEMMA MovedOne == ASSUME post \in [Posts -> PostRow], NEW p \in Posts, NEW to \in Pcs, post' = Moved({p}, to)
    PROVE  /\ post' \in [Posts -> PostRow]
           /\ \A o \in Posts \ {p} : post'[o] = post[o]
           /\ post'[p].pc = to /\ post'[p].conn = post[p].conn /\ post'[p].heard = post[p].heard /\ post'[p].since = post[p].since
           /\ post'[p].todo = (IF to \in Over THEN {} ELSE post[p].todo)
           /\ post'[p].cur = (IF to \in {"next"} \cup Over THEN Nil ELSE post[p].cur)
<1>1. {p} \in SUBSET Posts /\ p \in {p}
  OBVIOUS
<1> QED BY <1>1, MovedRows

\* The part of the types that a move of posts can disturb.
PostsTyped == post \in [Posts -> PostRow] /\ \A p \in Posts : post[p].cur # Nil <=> post[p].pc \in {"noroute", "insert", "announce"}

\* A move keeps the types when the place it moves to agrees with whether a member is being called.
LEMMA MovedTyped == ASSUME PostsTyped, NEW P \in SUBSET Posts, NEW to \in Pcs, post' = Moved(P, to),
        \/ to \in {"next"} \cup Over
        \/ to \in Early \cup {"append"} /\ \A p \in P : post[p].pc \in Early
        \/ to = "announce" /\ \A p \in P : post[p].pc = "insert"
    PROVE  PostsTyped'
<1> USE Places
<1>1. post' \in [Posts -> PostRow] /\ (\A p \in Posts \ P : post'[p] = post[p])
      /\ \A p \in P : post'[p].pc = to /\ post'[p].cur = (IF to \in {"next"} \cup Over THEN Nil ELSE post[p].cur)
  BY MovedRows DEF PostsTyped
<1>2. CASE to \in {"next"} \cup Over
  BY <1>1, <1>2 DEF PostsTyped, Over
<1>3. CASE to \in Early \cup {"append"} /\ \A p \in P : post[p].pc \in Early
  BY <1>1, <1>3 DEF PostsTyped, Over, Early
<1>4. CASE to = "announce" /\ \A p \in P : post[p].pc = "insert"
  BY <1>1, <1>4 DEF PostsTyped, Over, Early
<1> QED BY <1>2, <1>3, <1>4

\* Steps that leave the page, the lines behind the sockets, or the running posts as they are.
PageStays == page' = page /\ \A p \in PagePosts : /\ post'[p].conn = post[p].conn
                                                  /\ post'[p].pc = "none" <=> post[p].pc = "none"
                                                  /\ post'[p].pc = "box" <=> post[p].pc = "box"

LinesStay == /\ \A c \in Conns : socket'[c].queue = socket[c].queue /\ socket'[c].wire = socket[c].wire
             /\ \A p \in PagePosts : (Waiting(p)' <=> Waiting(p)) /\ (Waiting(p) => post'[p].conn = post[p].conn)

NoneStarts == \A p \in PagePosts :
    /\ post'[p].conn = post[p].conn /\ (Waiting(p)' => Waiting(p))
    /\ post'[p].pc \in Running => post[p].pc \in Running
    /\ post'[p].pc = "append" => post[p].pc = "append"

\* What the page has is so still.
LEMMA PageStaysHolds == ASSUME PostTyped, PageHolds, PageStays PROVE PageHolds'
<1>1. page.box \in PagePosts \cup {Nil}
  BY PostPlace
<1>2. page' = page
  BY DEF PageStays
<1>3. page.box # Nil /\ ~page.stopped => post'[page.box].pc = "box" /\ \A o \in PagePosts : post'[o].pc # "none" => o <= page.box
  BY <1>1 DEF PageHolds, PageStays
<1>4. \A p \in PagePosts : post'[p].pc \in {"none", "box"} => post'[p].conn = 0
  BY DEF PageHolds, PageStays
<1>5. \A o, p \in PagePosts : o < p /\ post'[p].pc # "none" => post'[o].pc # "none"
  BY DEF PageHolds, PageStays
<1> QED BY <1>2, <1>3, <1>4, <1>5 DEF PageHolds

\* What is on the lines is so still.
LEMMA LinesStayHold == ASSUME PostTyped, LinesHold, LinesStay PROVE LinesHold'
<1>1. \A c \in Conns : Behind(c)' = Behind(c)
  BY DEF LinesStay, Behind, In
<1>2. ASSUME NEW c \in Conns
      PROVE  /\ Inc(socket'[c].queue) /\ Inc(socket'[c].wire)
             /\ \A p \in In(socket'[c].queue), q \in In(socket'[c].wire) : p < q
  BY <1>2 DEF LinesHold, LinesStay
<1>3. ASSUME NEW c \in Conns, NEW p \in Behind(c) PROVE Waiting(p)' /\ post'[p].conn = c
  <2>1. p \in PagePosts
    BY <1>3, LinesIn
  <2>2. Waiting(p) /\ post[p].conn = c
    BY <1>3 DEF LinesHold
  <2> QED BY <2>1, <2>2 DEF LinesStay
<1>4. ASSUME NEW p \in PagePosts, Waiting(p)' PROVE post'[p].conn \in Conns /\ p \in Behind(post[p].conn) /\ post'[p].conn = post[p].conn
  BY <1>4 DEF LinesHold, LinesStay
<1> QED BY <1>1, <1>2, <1>3, <1>4 DEF LinesHold

\* Nobody overtakes where nobody starts.
LEMMA NoneStartsHolds == ASSUME PostTyped, NoneOvertakes, NoneStarts, log' = log PROVE NoneOvertakes'
<1>1. \A p, q \in PagePosts : Overtakes(p, q)' <=> Overtakes(p, q)
  BY DEF Overtakes, NoneStarts
<1>2. ASSUME NEW p \in PagePosts, NEW q \in PagePosts, post'[p].conn = post'[q].conn /\ post'[p].conn # 0,
             post'[p].pc \in Running /\ post'[q].pc \in Running
      PROVE  p = q
  BY <1>2 DEF NoneOvertakes, NoneStarts
<1>3. ASSUME NEW p \in PagePosts, NEW q \in PagePosts, Overtakes(p, q)', Waiting(p)' PROVE post'[q].pc \notin Running
  BY <1>1, <1>3 DEF NoneOvertakes, NoneStarts
<1>4. ASSUME NEW p \in PagePosts, NEW q \in PagePosts, Overtakes(p, q)', Waiting(p)' \/ post'[p].pc = "append"
      PROVE  \A j \in DOMAIN log' : log'[j].id # q
  BY <1>1, <1>4 DEF NoneOvertakes, NoneStarts
<1> QED BY <1>2, <1>3, <1>4 DEF NoneOvertakes

\* The whole of a step that is not the command's own, but for the parts it disturbs.
LEMMA AsideHolds == ASSUME PostInv, PostTyped', AsideStep, PageHolds', LinesHold', NoneOvertakes', BotHolds',
        \A p \in PagePosts : post'[p].conn = post[p].conn \/ \A i \in DOMAIN log : log[i].id # p
    PROVE  PostInv'
BY AsideLog, AsideSummons, AsideTags, AsideOrder DEF PostInv, AsideStep

\* The member types.
LEMMA WriteHolds == ASSUME PostInv, NEW p \in PagePosts, Write(p) PROVE PostInv'
<1> USE PostsAre, Places, PostPlace DEF PostInv
<1>1. /\ page.box = Nil /\ ~page.stopped /\ post[p].pc = "none" /\ (\A o \in PagePosts : o < p => post[o].pc # "none")
      /\ page' = [page EXCEPT !.box = p] /\ post' = Moved({p}, "box")
      /\ UNCHANGED <<socket, log, told, turns, stranded, acted, attended, given, postFaults>>
  BY DEF Write, commandVars
<1>2. p \in Posts /\ {p} \in SUBSET Posts /\ "box" \in Pcs
  BY DEF Early
<1>3. /\ \A o \in Posts \ {p} : post'[o] = post[o]
      /\ post'[p].pc = "box" /\ post'[p].conn = post[p].conn /\ post'[p].heard = post[p].heard /\ post'[p].since = post[p].since
  <2>1. post \in [Posts -> PostRow] /\ post' = Moved({p}, "box")
    BY <1>1 DEF PostTyped
  <2> HIDE PostsAre, Places, PostPlace DEF PostInv
  <2> QED BY ONLY <1>2, <2>1, MovedOne
<1>4. PostsTyped'
  <2>1. "box" \in Early /\ post[p].pc \in Early
    BY <1>1 DEF Early
  <2>2. PostsTyped
    BY DEF PostsTyped, PostTyped
  <2> QED BY <1>1, <1>2, <2>1, <2>2, MovedTyped
<1>5. page' \in PageRow /\ page'.box = p /\ page'.pending = page.pending /\ page'.conn = page.conn
      /\ page'.up = page.up /\ page'.stopped = page.stopped
  <2>1. page \in PageRow
    BY DEF PostTyped
  <2> QED BY <1>1, <2>1 DEF PageRow
<1>6. PostTyped'
  BY <1>1, <1>4, <1>5 DEF PostTyped, PostsTyped
<1>7. AsideStep
  <2>1. \A o \in Posts : Aside(o)
    BY <1>1, <1>3 DEF Aside, Early
  <2>2. \A o \in Posts : post'[o].conn \in 0..MaxConns
    BY <1>2, <1>3
  <2> QED BY <1>1, <2>1, <2>2 DEF AsideStep, PostTyped
<1>8. PageHolds'
  <2>1. \A o \in PagePosts : post'[o].pc # "none" => o <= p
    <3> SUFFICES ASSUME NEW o \in PagePosts, post'[o].pc # "none", o # p PROVE o <= p
      BY DEF PageHolds
    <3>1. post[o].pc # "none"
      BY <1>3
    <3>2. ~ (p < o)
      BY <1>1, <3>1 DEF PageHolds
    <3> QED BY <3>2
  <2>2. \A o \in PagePosts : post'[o].pc \in {"none", "box"} => post'[o].conn = 0
    BY <1>1, <1>3, ZenonT(60) DEF PageHolds
  <2>3. ASSUME NEW o \in PagePosts, NEW q \in PagePosts, o < q, post'[q].pc # "none" PROVE post'[o].pc # "none"
    <3>1. CASE o = p
      BY <1>3, <3>1
    <3>2. CASE o # p /\ q = p
      BY <1>1, <1>3, <2>3, <3>2
    <3>3. CASE o # p /\ q # p
      BY <1>3, <2>3, <3>3 DEF PageHolds
    <3> QED BY <3>1, <3>2, <3>3
  <2>4. (page'.stopped => ~page'.up /\ (page'.box = Nil => page'.pending = Nil)) /\ (page'.up => page'.conn \in Conns)
    BY <1>1, <1>5 DEF PageHolds
  <2>5. post'[page'.box].pc = "box" /\ \A o \in PagePosts : post'[o].pc # "none" => o <= page'.box
    BY <1>3, <1>5, <2>1
  <2> QED BY <2>2, <2>3, <2>4, <2>5 DEF PageHolds
<1>9. LinesStay /\ NoneStarts
  BY <1>1, <1>3 DEF LinesStay, NoneStarts, Waiting, Early
<1>10. BotHolds'
  BY <1>1, <1>3, <1>7, AsideBot
<1> QED BY <1>1, <1>3, <1>6, <1>7, <1>8, <1>9, <1>10, LinesStayHold, NoneStartsHolds, AsideHolds

\* The page opens a connection.
LEMMA ConnectHolds == ASSUME PostInv, Connect PROVE PostInv'
<1> USE PostsAre, Places, PostPlace DEF PostInv
<1>1. /\ ~page.up /\ ~page.stopped /\ page.conn < MaxConns /\ page' = [page EXCEPT !.conn = @ + 1, !.up = TRUE]
      /\ UNCHANGED <<socket, post, log, told, turns, stranded, acted, attended, given, postFaults>>
  BY DEF Connect, commandVars
<1>2. page' \in PageRow /\ page'.box = page.box /\ page'.pending = page.pending /\ page'.conn = page.conn + 1
      /\ page'.up = TRUE /\ page'.stopped = page.stopped /\ page.conn + 1 \in Conns
  <2>1. page \in PageRow
    BY DEF PostTyped
  <2>2. page.conn + 1 \in Conns /\ page.conn + 1 \in 0..MaxConns
    BY <1>1 DEF Conns
  <2> QED BY <1>1, <2>1, <2>2 DEF PageRow
<1>3. PostTyped'
  BY <1>1, <1>2 DEF PostTyped
<1>4. AsideStep
  BY <1>1 DEF AsideStep, Aside, PostTyped
<1>5. PageHolds'
  BY <1>1, <1>2 DEF PageHolds
<1>6. LinesStay /\ NoneStarts
  BY <1>1 DEF LinesStay, NoneStarts, Waiting
<1>7. BotHolds'
  BY <1>1, <1>4, AsideBot
<1> QED BY <1>1, <1>3, <1>4, <1>5, <1>6, <1>7, LinesStayHold, NoneStartsHolds, AsideHolds
\* Nothing is in an empty sequence.
LEMMA NothingIn == In(<<>>) = {} /\ Inc(<<>>)
BY DEF In, Inc

\* What the types say of one post's row after two of its fields are set.
LEMMA RowSent == ASSUME NEW row \in PostRow, NEW c \in 0..MaxConns
    PROVE  [row EXCEPT !.pc = "wire", !.conn = c] \in PostRow
BY Places DEF PostRow, Early

\* The page hands its text to the socket.
LEMMA SubmitHolds == ASSUME PostInv, Submit PROVE PostInv'
<1>0. PICK q, c : q = page.box /\ c = page.conn
  OBVIOUS
<1> DEFINE row == [post[q] EXCEPT !.pc = "wire", !.conn = c]
           line == [socket[c] EXCEPT !.wire = Append(@, q)]
<1>1. /\ q # Nil /\ page.up /\ page' = [page EXCEPT !.box = Nil, !.pending = q]
      /\ socket' = [socket EXCEPT ![c].wire = Append(@, q)]
      /\ post' = [post EXCEPT ![q].pc = "wire", ![q].conn = c]
      /\ UNCHANGED <<log, told, turns, stranded, acted, attended, given, postFaults>>
  BY <1>0 DEF Submit, commandVars
<1>2. PostTyped /\ PageHolds /\ LinesHold /\ NoneOvertakes /\ LogHolds /\ InOrder /\ SummonsHold /\ TagsHold /\ BotHolds
  BY DEF PostInv
<1>3. /\ q \in PagePosts /\ c \in Conns /\ c \in 0..MaxConns /\ ~page.stopped /\ q \in Posts
      /\ post[q].pc = "box" /\ \A o \in PagePosts : post[o].pc # "none" => o <= q
  <2>1. q \in PagePosts /\ c \in 0..MaxConns
    BY <1>0, <1>1, <1>2, PostPlace
  <2>2. ~page.stopped /\ c \in Conns
    BY <1>0, <1>1, <1>2 DEF PageHolds
  <2> QED BY <1>0, <1>1, <1>2, <2>1, <2>2, PostsAre DEF PageHolds
<1>4. post' = [post EXCEPT ![q] = row] /\ row \in PostRow /\ post \in [Posts -> PostRow]
  <2>1. post \in [Posts -> PostRow] /\ post[q] \in PostRow
    BY <1>2, <1>3 DEF PostTyped
  <2>2. row \in PostRow
    BY <1>3, <2>1, RowSent
  <2> QED BY <1>1, <1>3, <2>1, <2>2
<1>5. row.pc = "wire" /\ row.conn = c /\ row.cur = post[q].cur /\ row.heard = post[q].heard /\ row.since = post[q].since
  <2>1. post[q] \in PostRow
    BY <1>3, <1>4
  <2> QED BY <2>1 DEF PostRow
<1>6. socket' = [socket EXCEPT ![c] = line] /\ line.queue = socket[c].queue /\ line.wire = Append(socket[c].wire, q) /\ line \in SocketRow
      /\ socket \in [Conns -> SocketRow]
  <2>1. socket \in [Conns -> SocketRow] /\ socket[c] \in SocketRow /\ socket[c].wire \in Seq(PagePosts)
    BY <1>2, <1>3, PostPlace DEF PostTyped
  <2>2. Append(socket[c].wire, q) \in Seq(PagePosts)
    BY <1>3, <2>1
  <2> QED BY <1>1, <1>3, <2>1, <2>2 DEF SocketRow
<1>7. page' \in PageRow /\ page'.box = Nil /\ page'.pending = q /\ page'.conn = c /\ page'.up = page.up /\ page'.stopped = page.stopped
  <2>1. page \in PageRow
    BY <1>2 DEF PostTyped
  <2> QED BY <1>0, <1>1, <1>3, <2>1 DEF PageRow
<1> HIDE DEF row, line
<1>8. post' \in [Posts -> PostRow] /\ (\A o \in Posts \ {q} : post'[o] = post[o]) /\ post'[q] = row
  BY <1>3, <1>4
<1>9. socket' \in [Conns -> SocketRow] /\ (\A d \in Conns \ {c} : socket'[d] = socket[d]) /\ socket'[c] = line
  BY <1>3, <1>6
<1>10. q \in Nat /\ c # 0 /\ c \in Nat
  <2>1. PagePosts \subseteq Nat \ {0} /\ MaxConns \in Nat
    BY PostsAre
  <2>2. c \in 1..MaxConns
    BY <1>3 DEF Conns
  <2> QED BY <1>3, <2>1, <2>2
<1>11. PostTyped'
  <2>1. \A o \in Posts : post'[o].cur # Nil <=> post'[o].pc \in {"noroute", "insert", "announce"}
    BY <1>2, <1>3, <1>5, <1>8 DEF PostTyped
  <2> QED BY <1>1, <1>2, <1>7, <1>8, <1>9, <2>1 DEF PostTyped
<1>12. AsideStep
  <2>1. \A o \in Posts : Aside(o)
    BY <1>3, <1>5, <1>8 DEF Aside, Early
  <2>2. \A o \in Posts : post'[o].conn \in 0..MaxConns
    BY <1>2, <1>3, <1>5, <1>8, PostPlace
  <2> QED BY <1>1, <1>2, <2>1, <2>2 DEF AsideStep, PostTyped
<1>13. PageHolds'
  BY <1>1, <1>2, <1>3, <1>5, <1>7, <1>8, PostsAre DEF PageHolds
<1>14. \A d \in Conns : \A p \in Behind(d) : p \in PagePosts /\ p # q /\ p < q /\ post[p].conn = d /\ Waiting(p)
  <2> SUFFICES ASSUME NEW d \in Conns, NEW p \in Behind(d) PROVE p \in PagePosts /\ p # q /\ p < q /\ post[p].conn = d /\ Waiting(p)
    OBVIOUS
  <2>1. p \in PagePosts /\ Waiting(p) /\ post[p].conn = d
    BY <1>2, LinesIn DEF LinesHold
  <2>2. p # q /\ p <= q /\ p \in Nat
    BY <1>3, <2>1, PostsAre DEF Waiting
  <2> QED BY <1>10, <2>1, <2>2
<1>15. /\ In(line.wire) = In(socket[c].wire) \cup {q} /\ Inc(line.wire)
  <2>1. socket[c].wire \in Seq(PagePosts) /\ PagePosts \in SUBSET Nat
    BY <1>2, <1>3, PostPlace, PostsAre
  <2>2. Inc(socket[c].wire) /\ \A n \in In(socket[c].wire) : n < q
    BY <1>2, <1>3, <1>14 DEF LinesHold, Behind
  <2> QED BY <1>3, <1>6, <2>1, <2>2, AppendIn
<1>16. LinesHold'
  <2>1. \A d \in Conns : Behind(d)' = IF d = c THEN Behind(d) \cup {q} ELSE Behind(d)
    BY <1>3, <1>6, <1>9, <1>15 DEF Behind
  <2>2. ASSUME NEW d \in Conns
        PROVE  /\ Inc(socket'[d].queue) /\ Inc(socket'[d].wire)
               /\ \A p \in In(socket'[d].queue), o \in In(socket'[d].wire) : p < o
    <3>1. CASE d = c
      <4>1. Inc(socket'[d].queue) /\ Inc(socket'[d].wire)
        BY <1>2, <1>3, <1>6, <1>9, <1>15, <3>1 DEF LinesHold
      <4>2. \A p \in In(socket[c].queue), o \in In(line.wire) : p < o
        BY <1>2, <1>3, <1>14, <1>15 DEF LinesHold, Behind
      <4> QED BY <1>6, <1>9, <3>1, <4>1, <4>2
    <3>2. CASE d # c
      BY <1>2, <1>9, <3>2 DEF LinesHold
    <3> QED BY <3>1, <3>2
  <2>3. ASSUME NEW d \in Conns, NEW p \in Behind(d)' PROVE Waiting(p)' /\ post'[p].conn = d
    <3>1. CASE p = q
      BY <1>5, <1>8, <1>14, <2>1, <2>3, <3>1 DEF Waiting
    <3>2. CASE p # q
      <4>1. p \in Behind(d)
        BY <2>1, <2>3, <3>2
      <4>2. p \in Posts /\ post'[p] = post[p] /\ Waiting(p) /\ post[p].conn = d
        BY <1>8, <1>14, <3>2, <4>1, PostsAre
      <4> QED BY <4>2 DEF Waiting
    <3> QED BY <3>1, <3>2
  <2>4. ASSUME NEW p \in PagePosts, Waiting(p)' PROVE \E d \in Conns : post'[p].conn = d /\ p \in Behind(d)'
    <3>1. CASE p = q
      <4>1. post'[p].conn = c /\ p \in Behind(c)'
        BY <1>3, <1>5, <1>8, <2>1, <3>1
      <4> QED BY <1>3, <4>1
    <3>2. CASE p # q
      <4>1. Waiting(p) /\ post'[p].conn = post[p].conn
        <5>1. p \in Posts /\ post'[p] = post[p]
          BY <1>8, <3>2, PostsAre
        <5> QED BY <2>4, <5>1 DEF Waiting
      <4>2. PICK d \in Conns : d = post[p].conn /\ p \in Behind(d)
        BY <1>2, <4>1 DEF LinesHold
      <4>3. p \in Behind(d)'
        BY <2>1, <4>2
      <4> QED BY <4>1, <4>2, <4>3
    <3> QED BY <3>1, <3>2
  <2> QED BY <2>2, <2>3, <2>4 DEF LinesHold
<1>17. \A j \in DOMAIN log : log[j].id # q
  BY <1>2, <1>3 DEF LogHolds, Later
<1>18. NoneOvertakes'
  <2>1. ASSUME NEW p \in PagePosts, NEW o \in PagePosts, Overtakes(p, o)' PROVE p # q /\ (o # q => Overtakes(p, o))
    <3>1. p < o /\ post'[p].conn = post'[o].conn /\ post'[o].conn # 0
      BY <2>1 DEF Overtakes
    <3>2. ASSUME p = q PROVE FALSE
      <4>1. o # q /\ p \in Nat /\ o \in Nat
        BY <3>1, <3>2, PostsAre
      <4>2. post[o].conn # 0 /\ post[o].pc # "none"
        BY <1>2, <1>8, <3>1, <4>1, PostsAre DEF PageHolds
      <4> QED BY <1>3, <3>1, <3>2, <4>1, <4>2
    <3> QED BY <1>8, <3>1, <3>2, PostsAre DEF Overtakes
  <2>2. post'[q].pc \notin Running
    BY <1>5, <1>8, Places DEF Early
  <2>3. ASSUME NEW p \in PagePosts, NEW o \in PagePosts, post'[p].conn = post'[o].conn /\ post'[p].conn # 0,
               post'[p].pc \in Running /\ post'[o].pc \in Running
        PROVE  p = o
    BY <1>2, <1>8, <2>2, <2>3, PostsAre DEF NoneOvertakes
  <2>4. ASSUME NEW p \in PagePosts, NEW o \in PagePosts, Overtakes(p, o)', Waiting(p)' PROVE post'[o].pc \notin Running
    BY <1>2, <1>8, <2>1, <2>2, <2>4, PostsAre DEF NoneOvertakes, Waiting
  <2>5. ASSUME NEW p \in PagePosts, NEW o \in PagePosts, Overtakes(p, o)', Waiting(p)' \/ post'[p].pc = "append"
        PROVE  \A j \in DOMAIN log' : log'[j].id # o
    BY <1>1, <1>2, <1>8, <1>17, <2>1, <2>5, PostsAre DEF NoneOvertakes, Waiting
  <2> QED BY <2>3, <2>4, <2>5 DEF NoneOvertakes
<1>19. BotHolds'
  BY <1>1, <1>2, <1>3, <1>5, <1>8, <1>12, AsideBot
<1> QED BY <1>1, <1>8, <1>11, <1>12, <1>13, <1>16, <1>17, <1>18, <1>19, AsideHolds, PostsAre

\* A connection ends: what is on its wire is lost.
LEMMA CutHolds == ASSUME PostInv, page.up, socket' = [socket EXCEPT ![page.conn].wire = <<>>], post' = Cut,
        UNCHANGED <<log, told, turns, stranded, acted, attended, given, postFaults>>
    PROVE  /\ PostsTyped' /\ socket' \in [Conns -> SocketRow] /\ AsideStep /\ LinesHold' /\ NoneOvertakes' /\ BotHolds'
           /\ \A p \in PagePosts : /\ post'[p].conn = post[p].conn
                                   /\ post'[p].pc = "none" <=> post[p].pc = "none"
                                   /\ post'[p].pc = "box" <=> post[p].pc = "box"
<1>0. PICK c : c = page.conn
  OBVIOUS
<1> DEFINE P == In(socket[c].wire)
           line == [socket[c] EXCEPT !.wire = <<>>]
<1>1. PostTyped /\ PageHolds /\ LinesHold /\ NoneOvertakes /\ BotHolds
  BY DEF PostInv
<1>2. c \in Conns
  BY <1>0, <1>1 DEF PageHolds
<1>3. /\ socket' = [socket EXCEPT ![c] = line] /\ line \in SocketRow /\ line.queue = socket[c].queue /\ line.wire = <<>>
      /\ socket \in [Conns -> SocketRow]
  <2>1. socket \in [Conns -> SocketRow] /\ socket[c] \in SocketRow
    BY <1>1, <1>2 DEF PostTyped
  <2>2. <<>> \in Seq(PagePosts)
    OBVIOUS
  <2> QED BY <1>0, <1>2, <2>1, <2>2 DEF SocketRow
<1> HIDE DEF line
<1>4. socket' \in [Conns -> SocketRow] /\ (\A d \in Conns \ {c} : socket'[d] = socket[d]) /\ socket'[c] = line
  BY <1>2, <1>3
<1>5. P \subseteq PagePosts /\ \A p \in P : Waiting(p) /\ post[p].conn = c
  BY <1>1, <1>2, LinesIn DEF LinesHold, Behind
<1>6. post' = Moved(P, "lost")
  BY <1>0 DEF Cut
<1> HIDE DEF P
<1>7. P \in SUBSET Posts /\ "lost" \in Pcs /\ "lost" \in Over /\ post \in [Posts -> PostRow]
  BY <1>1, <1>5, PostsAre, Places DEF Over, PostTyped
<1>8. /\ \A p \in Posts \ P : post'[p] = post[p]
      /\ \A p \in P : post'[p].pc = "lost" /\ post'[p].conn = post[p].conn /\ post'[p].heard = post[p].heard /\ post'[p].since = post[p].since
  BY ONLY <1>6, <1>7, MovedRows
<1>9. PostsTyped'
  <2>1. PostsTyped
    BY <1>1 DEF PostsTyped, PostTyped
  <2> QED BY ONLY <1>6, <1>7, <2>1, MovedTyped
<1>10. \A p \in Posts : post'[p].heard = post[p].heard /\ post'[p].since = post[p].since /\ post'[p].conn = post[p].conn
  BY <1>8
<1>11. AsideStep
  <2>1. \A o \in Posts : Aside(o)
    BY <1>5, <1>8 DEF Aside, Early, Waiting
  <2>2. \A o \in Posts : post'[o].conn \in 0..MaxConns
    BY <1>1, <1>10, PostPlace
  <2> QED BY <1>1, <2>1, <2>2 DEF AsideStep, PostTyped
<1>12. \A p \in PagePosts : /\ post'[p].conn = post[p].conn
                            /\ post'[p].pc = "none" <=> post[p].pc = "none"
                            /\ post'[p].pc = "box" <=> post[p].pc = "box"
                            /\ Waiting(p)' <=> (Waiting(p) /\ p \notin P)
  BY <1>5, <1>8, PostsAre DEF Waiting
<1>13. NoneStarts
  <2>1. "lost" \notin Running
    BY <1>7, Places
  <2> QED BY <1>8, <1>12, <2>1, PostsAre DEF NoneStarts, Waiting
<1>14. \A p \in PagePosts : p < p => FALSE
  BY PostsAre
<1>15. \A p \in In(socket[c].queue) : p \notin P
  <2> SUFFICES ASSUME NEW p \in In(socket[c].queue), p \in P PROVE FALSE
    OBVIOUS
  <2>1. p < p /\ p \in PagePosts
    BY <1>1, <1>2, <1>5 DEF LinesHold, P
  <2> QED BY <1>14, <2>1
<1>16. LinesHold'
  <2>1. \A d \in Conns : Behind(d)' = IF d = c THEN In(socket[c].queue) ELSE Behind(d)
    BY <1>2, <1>3, <1>4, NothingIn DEF Behind
  <2>2. ASSUME NEW d \in Conns
        PROVE  /\ Inc(socket'[d].queue) /\ Inc(socket'[d].wire)
               /\ \A p \in In(socket'[d].queue), o \in In(socket'[d].wire) : p < o
    <3>1. CASE d = c
      BY <1>1, <1>2, <1>3, <1>4, <3>1, NothingIn DEF LinesHold
    <3>2. CASE d # c
      BY <1>1, <1>4, <3>2 DEF LinesHold
    <3> QED BY <3>1, <3>2
  <2>3. ASSUME NEW d \in Conns, NEW p \in Behind(d)' PROVE Waiting(p)' /\ post'[p].conn = d
    <3>1. p \in Behind(d) /\ p \notin P
      <4>1. CASE d = c
        BY <1>15, <2>1, <2>3, <4>1 DEF Behind
      <4>2. CASE d # c
        BY <1>1, <1>5, <2>1, <2>3, <4>2 DEF LinesHold
      <4> QED BY <4>1, <4>2
    <3>2. p \in PagePosts /\ Waiting(p) /\ post[p].conn = d
      BY <1>1, <3>1, LinesIn DEF LinesHold
    <3> QED BY <1>12, <3>1, <3>2
  <2>4. ASSUME NEW p \in PagePosts, Waiting(p)' PROVE \E d \in Conns : post'[p].conn = d /\ p \in Behind(d)'
    <3>1. Waiting(p) /\ p \notin P /\ post'[p].conn = post[p].conn
      BY <1>12, <2>4
    <3>2. PICK d \in Conns : d = post[p].conn /\ p \in Behind(d)
      BY <1>1, <3>1 DEF LinesHold
    <3>3. d = c => p \in In(socket[c].queue)
      BY <3>1, <3>2 DEF Behind, P
    <3>4. p \in Behind(d)'
      BY <2>1, <3>2, <3>3
    <3> QED BY <3>1, <3>2, <3>4
  <2> QED BY <2>2, <2>3, <2>4 DEF LinesHold
<1>17. NoneOvertakes'
  BY <1>1, <1>13, NoneStartsHolds
<1>18. BotHolds'
  <2>1. \A p \in DoorPosts : p \notin P
    BY <1>5, PostsAre
  <2>2. \A p \in Posts : post'[p].heard = post[p].heard /\ post'[p].since = post[p].since /\ (p \in PagePosts \/ (post'[p].pc = "none" <=> post[p].pc = "none"))
    BY <1>8, <1>10, <2>1, PostsAre
  <2> QED BY <1>1, <1>11, <2>2, AsideBot
<1> QED BY <1>4, <1>9, <1>11, <1>12, <1>16, <1>17, <1>18
\* What Drop and ShowRefusal leave of the page.
LEMMA DownHolds == ASSUME PostInv, page' \in PageRow, ~page'.up, page'.box = page.box \/ page'.stopped,
        page'.stopped => (page.stopped \/ (page'.box = Nil => page'.pending = Nil)) /\ (page.stopped => page'.box = page.box /\ page'.pending = page.pending),
        \A p \in PagePosts : /\ post'[p].conn = post[p].conn
                             /\ post'[p].pc = "none" <=> post[p].pc = "none"
                             /\ post'[p].pc = "box" <=> post[p].pc = "box",
        page.stopped => page'.stopped
    PROVE  PageHolds'
<1>1. PageHolds /\ PostTyped
  BY DEF PostInv
<1>2. page'.stopped => (page'.box = Nil => page'.pending = Nil)
  BY <1>1 DEF PageHolds
<1>3. \A p \in PagePosts : post'[p].pc \in {"none", "box"} => post'[p].conn = 0
  BY <1>1 DEF PageHolds
<1>4. \A o, p \in PagePosts : o < p /\ post'[p].pc # "none" => post'[o].pc # "none"
  BY <1>1 DEF PageHolds
<1>5. ASSUME page'.box # Nil, ~page'.stopped
      PROVE  post'[page'.box].pc = "box" /\ \A o \in PagePosts : post'[o].pc # "none" => o <= page'.box
  <2>1. page'.box = page.box /\ page.box \in PagePosts /\ ~page.stopped
    BY <1>1, <1>5, PostPlace
  <2>2. post[page.box].pc = "box" /\ \A o \in PagePosts : post[o].pc # "none" => o <= page.box
    BY <1>1, <1>5, <2>1 DEF PageHolds
  <2> QED BY <2>1, <2>2
<1> QED BY <1>2, <1>3, <1>4, <1>5 DEF PageHolds

\* The connection drops.
LEMMA DropHolds == ASSUME PostInv, Drop PROVE PostInv'
<1>1. /\ page.up /\ page' = [page EXCEPT !.up = FALSE] /\ socket' = [socket EXCEPT ![page.conn].wire = <<>>] /\ post' = Cut
      /\ UNCHANGED <<log, told, turns, stranded, acted, attended, given, postFaults>>
  BY DEF Drop, commandVars
<1>2. PostTyped
  BY DEF PostInv
<1>3. page' \in PageRow /\ ~page'.up /\ page'.box = page.box /\ page'.pending = page.pending /\ page'.stopped = page.stopped
  <2>1. page \in PageRow
    BY <1>2 DEF PostTyped
  <2> QED BY <1>1, <2>1 DEF PageRow
<1>4. /\ PostsTyped' /\ socket' \in [Conns -> SocketRow] /\ AsideStep /\ LinesHold' /\ NoneOvertakes' /\ BotHolds'
      /\ \A p \in PagePosts : /\ post'[p].conn = post[p].conn
                              /\ post'[p].pc = "none" <=> post[p].pc = "none"
                              /\ post'[p].pc = "box" <=> post[p].pc = "box"
  BY <1>1, CutHolds
<1>5. PageHolds'
  BY <1>3, <1>4, DownHolds
<1>6. PostTyped'
  BY <1>1, <1>2, <1>3, <1>4 DEF PostTyped, PostsTyped
<1> QED BY <1>4, <1>5, <1>6, AsideHolds

\* The page shows a refusal.
LEMMA ShowRefusalHolds == ASSUME PostInv, ShowRefusal PROVE PostInv'
<1>1. /\ page.up /\ page' = [page EXCEPT !.up = FALSE, !.stopped = TRUE, !.box = GivenBack]
      /\ socket' = [socket EXCEPT ![page.conn].wire = <<>>] /\ post' = Cut
      /\ UNCHANGED <<log, told, turns, stranded, acted, attended, given, postFaults>>
  BY DEF ShowRefusal, commandVars
<1>2. PostTyped /\ ~page.stopped
  BY <1>1 DEF PostInv, PageHolds
<1>3. GivenBack \in PagePosts \cup {Nil} /\ (GivenBack = Nil => page.pending = Nil)
  BY <1>2, PostPlace DEF GivenBack
<1>4. page' \in PageRow /\ ~page'.up /\ page'.box = GivenBack /\ page'.pending = page.pending /\ page'.stopped
  <2>1. page \in PageRow
    BY <1>2 DEF PostTyped
  <2> QED BY <1>1, <1>3, <2>1 DEF PageRow
<1>5. /\ PostsTyped' /\ socket' \in [Conns -> SocketRow] /\ AsideStep /\ LinesHold' /\ NoneOvertakes' /\ BotHolds'
      /\ \A p \in PagePosts : /\ post'[p].conn = post[p].conn
                              /\ post'[p].pc = "none" <=> post[p].pc = "none"
                              /\ post'[p].pc = "box" <=> post[p].pc = "box"
  BY <1>1, CutHolds
<1>6. PageHolds'
  BY <1>2, <1>3, <1>4, <1>5, DownHolds
<1>7. PostTyped'
  BY <1>1, <1>2, <1>4, <1>5 DEF PostTyped, PostsTyped
<1> QED BY <1>5, <1>6, <1>7, AsideHolds

\* A socket is settled.
LEMMA SettleHolds == ASSUME PostInv, NEW c \in Conns, NEW how \in {"yes", "refused", "failed"}, Settle(c, how) PROVE PostInv'
<1> DEFINE line == [socket[c] EXCEPT !.accepted = how]
<1>1. /\ socket' = [socket EXCEPT ![c].accepted = how]
      /\ UNCHANGED <<page, post, log, told, turns, stranded, acted, attended, given, postFaults>>
  BY DEF Settle, commandVars
<1>2. PostTyped /\ PageHolds /\ LinesHold /\ NoneOvertakes /\ BotHolds
  BY DEF PostInv
<1>3. socket' = [socket EXCEPT ![c] = line] /\ line \in SocketRow /\ line.queue = socket[c].queue /\ line.wire = socket[c].wire
      /\ socket \in [Conns -> SocketRow]
  <2>1. socket \in [Conns -> SocketRow] /\ socket[c] \in SocketRow
    BY <1>2 DEF PostTyped
  <2> QED BY <1>1, <2>1 DEF SocketRow
<1> HIDE DEF line
<1>4. socket' \in [Conns -> SocketRow] /\ \A d \in Conns : socket'[d].queue = socket[d].queue /\ socket'[d].wire = socket[d].wire
  BY <1>3
<1>5. PostTyped'
  BY <1>1, <1>2, <1>4 DEF PostTyped
<1>6. AsideStep
  BY <1>1, <1>2, PostPlace DEF AsideStep, Aside, PostTyped
<1>7. LinesStay /\ NoneStarts /\ PageStays
  BY <1>1, <1>4 DEF LinesStay, NoneStarts, PageStays, Waiting
<1>8. BotHolds'
  BY <1>1, <1>2, <1>6, AsideBot
<1> QED BY <1>1, <1>2, <1>5, <1>6, <1>7, <1>8, PageStaysHolds, LinesStayHold, NoneStartsHolds, AsideHolds

\* One more fault is within the bound and is not none.
LEMMA FaultCounts ==
    /\ \A f \in 0..MaxPostFaults : f < MaxPostFaults => f + 1 \in 0..MaxPostFaults /\ f + 1 > 0
    /\ \A f : f > 0 /\ f \in 0..MaxPostFaults => f # 0
BY PostingAssumption

\* What a fault strands: the summons of those it ends before they deferred a turn.
LEMMA StrandedAre == ASSUME PostTyped, NEW P \in SUBSET Posts
    PROVE  /\ Stranded(P) \subseteq Ids \X Agents /\ stranded \subseteq Stranded(P)
           /\ \A p \in P : post[p].pc = "announce" => <<Id(p), post[p].cur>> \in Stranded(P)
           /\ \A s \in Stranded(P) \ stranded : \E p \in P : post[p].pc = "announce" /\ s = <<Id(p), post[p].cur>>
<1>1. ASSUME NEW p \in P, post[p].pc = "announce" PROVE <<Id(p), post[p].cur>> \in Ids \X Agents
  BY <1>1, PostPlace, PostsAre DEF PostTyped
<1> QED BY <1>1 DEF Stranded, PostTyped

\* A fault in a command.
LEMMA FailPostHolds == ASSUME PostInv, NEW p \in Posts, FailPost(p) PROVE PostInv'
<1>1. /\ postFaults < MaxPostFaults /\ postFaults' = postFaults + 1
      /\ post[p].pc \in Running /\ post' = Moved({p}, "failed") /\ stranded' = Stranded({p})
      /\ UNCHANGED <<page, socket, log, told, turns, acted, attended, given>>
  BY DEF FailPost, commandVars
<1>2. PostTyped /\ PageHolds /\ LinesHold /\ NoneOvertakes /\ BotHolds
  BY DEF PostInv
<1>3. "failed" \in Pcs /\ "failed" \in Over /\ post \in [Posts -> PostRow] /\ PostsTyped /\ {p} \in SUBSET Posts
  BY <1>2, Places DEF Over, PostTyped, PostsTyped
<1>4. /\ \A o \in Posts \ {p} : post'[o] = post[o]
      /\ post'[p].pc = "failed" /\ post'[p].conn = post[p].conn /\ post'[p].heard = post[p].heard /\ post'[p].since = post[p].since
  BY ONLY <1>1, <1>3, MovedOne
<1>5. PostsTyped'
  BY ONLY <1>1, <1>3, MovedTyped
<1>6. postFaults' \in 0..MaxPostFaults /\ postFaults' > 0
  BY <1>1, <1>2, FaultCounts DEF PostTyped
<1>7. PostTyped'
  BY <1>1, <1>2, <1>3, <1>5, <1>6, StrandedAre DEF PostTyped, PostsTyped
<1>8. AsideStep
  <2>1. \A o \in Posts : Aside(o)
    BY <1>1, <1>2, <1>3, <1>4, StrandedAre DEF Aside
  <2>2. \A o \in Posts : post'[o].conn \in 0..MaxConns
    BY <1>2, <1>4, PostPlace
  <2>3. stranded \subseteq stranded' /\ \A s \in stranded' \ stranded : Announces(p, s)
    BY <1>1, <1>2, <1>3, StrandedAre DEF Announces
  <2> QED BY <1>1, <1>4, <2>1, <2>2, <2>3 DEF AsideStep
<1>9. post[p].pc \notin {"none", "box", "wire", "queue"} /\ "failed" \notin Running
  BY <1>1, <1>3, Places DEF Early
<1>10. LinesStay /\ NoneStarts /\ PageStays
  BY <1>1, <1>4, <1>9, PostsAre DEF LinesStay, NoneStarts, PageStays, Waiting
<1>11. BotHolds'
  <2>1. \A o \in Posts : post'[o].heard = post[o].heard /\ post'[o].since = post[o].since /\ (post'[o].pc = "none" <=> post[o].pc = "none")
    BY <1>4, <1>9
  <2> QED BY <1>1, <1>2, <1>8, <2>1, AsideBot
<1>12. \A o \in PagePosts : post'[o].conn = post[o].conn
  BY <1>4, PostsAre
<1> QED BY <1>1, <1>2, <1>7, <1>8, <1>10, <1>11, <1>12, PageStaysHolds, LinesStayHold, NoneStartsHolds, AsideHolds

\* The server ends under everything.
LEMMA CrashServerHolds == ASSUME PostInv, CrashServer PROVE PostInv'
<1> DEFINE P == {p \in Posts : post[p].pc \in Running \cup {"queue", "wire"}}
<1>1. /\ postFaults < MaxPostFaults /\ postFaults' = postFaults + 1
      /\ post' = Moved(P, "dead") /\ page' = [page EXCEPT !.up = FALSE]
      /\ socket' = [c \in Conns |-> [socket[c] EXCEPT !.wire = <<>>, !.queue = <<>>]]
      /\ stranded' = Stranded(Posts)
      /\ UNCHANGED <<log, told, turns, acted, attended, given>>
  BY DEF CrashServer, commandVars
<1>2. PostTyped /\ PageHolds /\ LinesHold /\ NoneOvertakes /\ BotHolds
  BY DEF PostInv
<1>3. "dead" \in Pcs /\ "dead" \in Over /\ post \in [Posts -> PostRow] /\ PostsTyped /\ P \in SUBSET Posts
  BY <1>2, Places DEF Over, PostTyped, PostsTyped
<1>4. \A p \in Posts : p \in P <=> post[p].pc \in Running \cup {"queue", "wire"}
  OBVIOUS
<1> HIDE DEF P
<1>5. /\ \A o \in Posts \ P : post'[o] = post[o]
      /\ \A o \in P : post'[o].pc = "dead" /\ post'[o].conn = post[o].conn /\ post'[o].heard = post[o].heard /\ post'[o].since = post[o].since
  BY ONLY <1>1, <1>3, MovedRows
<1>6. PostsTyped'
  BY ONLY <1>1, <1>3, MovedTyped
<1>7. postFaults' \in 0..MaxPostFaults /\ postFaults' > 0
  BY <1>1, <1>2, FaultCounts DEF PostTyped
<1>8. page' \in PageRow /\ ~page'.up /\ page'.box = page.box /\ page'.pending = page.pending /\ page'.stopped = page.stopped
  <2>1. page \in PageRow
    BY <1>2 DEF PostTyped
  <2> QED BY <1>1, <2>1 DEF PageRow
<1>9. socket' \in [Conns -> SocketRow] /\ \A c \in Conns : socket'[c].wire = <<>> /\ socket'[c].queue = <<>>
  <2> DEFINE line(c) == [socket[c] EXCEPT !.wire = <<>>, !.queue = <<>>]
  <2>1. ASSUME NEW c \in Conns PROVE line(c) \in SocketRow /\ line(c).wire = <<>> /\ line(c).queue = <<>>
    <3>1. socket[c] \in SocketRow
      BY <1>2, <2>1 DEF PostTyped
    <3>2. <<>> \in Seq(PagePosts)
      OBVIOUS
    <3> QED BY <3>1, <3>2 DEF SocketRow
  <2>2. socket' = [c \in Conns |-> line(c)]
    BY <1>1
  <2> HIDE DEF line
  <2> QED BY <2>1, <2>2
<1>10. PostTyped'
  BY <1>1, <1>2, <1>6, <1>7, <1>8, <1>9, StrandedAre DEF PostTyped, PostsTyped
<1>11. \A o \in Posts : post'[o].conn = post[o].conn /\ post'[o].heard = post[o].heard /\ post'[o].since = post[o].since
  BY <1>5
<1>12. AsideStep
  <2>1. \A o \in Posts : Aside(o)
    BY <1>1, <1>2, <1>4, <1>5, StrandedAre DEF Aside, Early
  <2>2. \A o \in Posts : post'[o].conn \in 0..MaxConns
    BY <1>2, <1>11, PostPlace
  <2>3. stranded \subseteq stranded' /\ \A s \in stranded' \ stranded : \E o \in Posts : Announces(o, s)
    BY <1>1, <1>2, StrandedAre DEF Announces
  <2>4. \A o \in Posts : post[o].pc = "announce" => post'[o].pc # "announce"
    BY <1>4, <1>5 DEF Running, Early
  <2> QED BY <1>1, <2>1, <2>2, <2>3, <2>4 DEF AsideStep, Announces
<1>13. \A o \in Posts : /\ post'[o].pc = "none" <=> post[o].pc = "none"
                        /\ post'[o].pc = "box" <=> post[o].pc = "box"
                        /\ ~Waiting(o)' /\ (post'[o].pc \in Running => FALSE)
  <2> SUFFICES ASSUME NEW o \in Posts
               PROVE /\ post'[o].pc = "none" <=> post[o].pc = "none"
                     /\ post'[o].pc = "box" <=> post[o].pc = "box"
                     /\ ~Waiting(o)' /\ (post'[o].pc \in Running => FALSE)
    OBVIOUS
  <2>1. CASE o \in P
    BY <1>3, <1>4, <1>5, <2>1, Places DEF Waiting, Early
  <2>2. CASE o \notin P
    BY <1>4, <1>5, <2>2 DEF Waiting
  <2> QED BY <2>1, <2>2
<1>14. PageHolds'
  BY <1>8, <1>11, <1>13, PostsAre, DownHolds
<1>15. LinesHold'
  <2>1. \A c \in Conns : Behind(c)' = {} /\ Inc(socket'[c].queue) /\ Inc(socket'[c].wire) /\ In(socket'[c].queue) = {}
    BY <1>9, NothingIn DEF Behind
  <2> QED BY <1>13, <2>1, PostsAre DEF LinesHold
<1>16. NoneStarts
  BY <1>11, <1>13, PostsAre, Places DEF NoneStarts
<1>17. BotHolds'
  BY <1>1, <1>2, <1>11, <1>12, <1>13, AsideBot
<1> QED BY <1>1, <1>2, <1>10, <1>11, <1>12, <1>14, <1>15, <1>16, <1>17, PostsAre, NoneStartsHolds, AsideHolds
\* A frame reaches the queue of its socket.
LEMMA ReceiveHolds == ASSUME PostInv, Receive PROVE PostInv'
<1>0. PICK c, h : c = page.conn /\ h = Head(socket[page.conn].wire)
  OBVIOUS
<1> DEFINE line == [socket[c] EXCEPT !.wire = Tail(@), !.queue = Append(@, h)]
<1>1. /\ page.up /\ socket[c].wire # <<>> /\ h = Head(socket[c].wire)
      /\ socket' = [socket EXCEPT ![c].wire = Tail(@), ![c].queue = Append(@, h)]
      /\ post' = Moved({h}, "queue")
      /\ UNCHANGED <<page, log, told, turns, stranded, acted, attended, given, postFaults>>
  BY <1>0 DEF Receive, commandVars
<1>2. PostTyped /\ PageHolds /\ LinesHold /\ NoneOvertakes /\ BotHolds
  BY DEF PostInv
<1>3. c \in Conns
  BY <1>0, <1>1, <1>2 DEF PageHolds
<1>4. socket \in [Conns -> SocketRow] /\ socket[c] \in SocketRow /\ socket[c].wire \in Seq(PagePosts) /\ socket[c].queue \in Seq(PagePosts)
  BY <1>2, <1>3, PostPlace DEF PostTyped
<1>5. /\ Tail(socket[c].wire) \in Seq(PagePosts) /\ h \in PagePosts
      /\ In(socket[c].wire) = {h} \cup In(Tail(socket[c].wire))
      /\ Inc(Tail(socket[c].wire)) /\ \A n \in In(Tail(socket[c].wire)) : h < n
  <2>1. PagePosts \in SUBSET Nat /\ Inc(socket[c].wire)
    BY <1>2, <1>3, PostsAre DEF LinesHold
  <2> QED BY <1>1, <1>4, <2>1, TailIn
<1>6. /\ Append(socket[c].queue, h) \in Seq(PagePosts)
      /\ In(Append(socket[c].queue, h)) = In(socket[c].queue) \cup {h} /\ Inc(Append(socket[c].queue, h))
  <2>1. PagePosts \in SUBSET Nat /\ Inc(socket[c].queue) /\ \A n \in In(socket[c].queue) : n < h
    BY <1>2, <1>3, <1>5, PostsAre DEF LinesHold
  <2> QED BY <1>4, <1>5, <2>1, AppendIn
<1>7. socket' = [socket EXCEPT ![c] = line] /\ line \in SocketRow
      /\ line.queue = Append(socket[c].queue, h) /\ line.wire = Tail(socket[c].wire)
  BY <1>1, <1>3, <1>4, <1>5, <1>6 DEF SocketRow
<1> HIDE DEF line
<1>8. socket' \in [Conns -> SocketRow] /\ (\A d \in Conns \ {c} : socket'[d] = socket[d]) /\ socket'[c] = line
  BY <1>3, <1>4, <1>7
<1>9. h \in Posts /\ {h} \in SUBSET Posts /\ Waiting(h) /\ post[h].conn = c /\ post[h].pc \in Early
      /\ "queue" \in Pcs /\ "queue" \in Early /\ post \in [Posts -> PostRow] /\ PostsTyped
  <2>1. h \in Behind(c)
    BY <1>5 DEF Behind
  <2> QED BY <1>2, <1>3, <1>5, <2>1, PostsAre, Places DEF LinesHold, Waiting, Early, PostTyped, PostsTyped
<1>10. /\ \A o \in Posts \ {h} : post'[o] = post[o]
       /\ post'[h].pc = "queue" /\ post'[h].conn = post[h].conn /\ post'[h].heard = post[h].heard /\ post'[h].since = post[h].since
  BY ONLY <1>1, <1>9, MovedOne
<1>11. PostsTyped'
  BY ONLY <1>1, <1>9, MovedTyped
<1>12. PostTyped'
  BY <1>1, <1>2, <1>8, <1>11 DEF PostTyped, PostsTyped
<1>13. AsideStep
  <2>1. \A o \in Posts : Aside(o)
    BY <1>9, <1>10 DEF Aside
  <2>2. \A o \in Posts : post'[o].conn \in 0..MaxConns
    BY <1>2, <1>9, <1>10, PostPlace
  <2> QED BY <1>1, <1>2, <2>1, <2>2 DEF AsideStep, PostTyped
<1>14. \A p \in PagePosts : (Waiting(p)' <=> Waiting(p)) /\ post'[p].conn = post[p].conn
  BY <1>9, <1>10, PostsAre DEF Waiting
<1>15. NoneStarts /\ PageStays
  <2>1. "queue" \notin Running
    BY Places DEF Early
  <2> QED BY <1>1, <1>9, <1>10, <1>14, <2>1, PostsAre, ZenonT(60) DEF NoneStarts, PageStays, Waiting
<1>16. LinesHold'
  <2>1. \A d \in Conns : Behind(d)' = Behind(d)
    BY <1>3, <1>5, <1>6, <1>7, <1>8 DEF Behind
  <2>2. ASSUME NEW d \in Conns
        PROVE  /\ Inc(socket'[d].queue) /\ Inc(socket'[d].wire)
               /\ \A p \in In(socket'[d].queue), o \in In(socket'[d].wire) : p < o
    <3>1. CASE d = c
      <4>1. \A p \in In(socket[c].queue) \cup {h}, o \in In(Tail(socket[c].wire)) : p < o
        BY <1>2, <1>3, <1>5 DEF LinesHold
      <4> QED BY <1>5, <1>6, <1>7, <1>8, <3>1, <4>1
    <3>2. CASE d # c
      BY <1>2, <1>8, <3>2 DEF LinesHold
    <3> QED BY <3>1, <3>2
  <2>3. ASSUME NEW d \in Conns, NEW p \in Behind(d) PROVE Waiting(p)' /\ post'[p].conn = d
    BY <1>2, <1>14, <2>3, LinesIn DEF LinesHold
  <2>4. ASSUME NEW p \in PagePosts, Waiting(p)' PROVE post'[p].conn \in Conns /\ p \in Behind(post[p].conn) /\ post'[p].conn = post[p].conn
    BY <1>2, <1>14, <2>4 DEF LinesHold
  <2> QED BY <2>1, <2>2, <2>3, <2>4 DEF LinesHold
<1>17. BotHolds'
  <2>1. \A o \in Posts : post'[o].heard = post[o].heard /\ post'[o].since = post[o].since /\ (post'[o].pc = "none" <=> post[o].pc = "none")
    BY <1>9, <1>10 DEF Waiting
  <2> QED BY <1>1, <1>2, <1>13, <2>1, AsideBot
<1> QED BY <1>1, <1>2, <1>12, <1>13, <1>14, <1>15, <1>16, <1>17, PageStaysHolds, NoneStartsHolds, AsideHolds

\* A frame is taken from the queue of its socket, to be handled or let go.
LEMMA TakeHolds == ASSUME PostInv, NEW c \in Conns, Take(c) PROVE PostInv'
<1>0. PICK h, to : h = Head(socket[c].queue) /\ to = IF socket[c].accepted = "yes" THEN "append" ELSE "dropped"
  OBVIOUS
<1> DEFINE line == [socket[c] EXCEPT !.queue = Tail(@)]
<1>1. /\ socket[c].queue # <<>> /\ Quiet(c)
      /\ socket' = [socket EXCEPT ![c].queue = Tail(@)]
      /\ post' = Moved({h}, to) /\ to \in {"append", "dropped"}
      /\ UNCHANGED <<page, log, told, turns, stranded, acted, attended, given, postFaults>>
  BY <1>0 DEF Take, commandVars
<1>2. PostTyped /\ PageHolds /\ LinesHold /\ NoneOvertakes /\ BotHolds
  BY DEF PostInv
<1>3. socket \in [Conns -> SocketRow] /\ socket[c] \in SocketRow /\ socket[c].wire \in Seq(PagePosts) /\ socket[c].queue \in Seq(PagePosts)
  BY <1>2, PostPlace DEF PostTyped
<1>4. /\ Tail(socket[c].queue) \in Seq(PagePosts) /\ h \in PagePosts
      /\ In(socket[c].queue) = {h} \cup In(Tail(socket[c].queue))
      /\ Inc(Tail(socket[c].queue)) /\ \A n \in In(Tail(socket[c].queue)) : h < n
  <2>1. PagePosts \in SUBSET Nat /\ Inc(socket[c].queue)
    BY <1>2, PostsAre DEF LinesHold
  <2> QED BY <1>0, <1>1, <1>3, <2>1, TailIn
<1>5. socket' = [socket EXCEPT ![c] = line] /\ line \in SocketRow
      /\ line.queue = Tail(socket[c].queue) /\ line.wire = socket[c].wire
  BY <1>1, <1>3, <1>4 DEF SocketRow
<1> HIDE DEF line
<1>6. socket' \in [Conns -> SocketRow] /\ (\A d \in Conns \ {c} : socket'[d] = socket[d]) /\ socket'[c] = line
  BY <1>3, <1>5
<1>7. h \in Posts /\ {h} \in SUBSET Posts /\ Waiting(h) /\ post[h].conn = c /\ post[h].pc \in Early
      /\ post \in [Posts -> PostRow] /\ PostsTyped
  <2>1. h \in Behind(c)
    BY <1>4 DEF Behind
  <2> QED BY <1>2, <1>4, <2>1, PostsAre, Places DEF LinesHold, Waiting, Early, PostTyped, PostsTyped
<1>8. to \in Pcs /\ to \notin {"none", "box", "wire", "queue"} /\ (to \in Over \/ to \in Early \cup {"append"})
  BY <1>1, Places DEF Early, Over
<1>9. /\ \A o \in Posts \ {h} : post'[o] = post[o]
      /\ post'[h].pc = to /\ post'[h].conn = c /\ post'[h].heard = post[h].heard /\ post'[h].since = post[h].since
  BY ONLY <1>1, <1>7, <1>8, MovedOne
<1>10. PostsTyped'
  <2>1. \A p \in {h} : post[p].pc \in Early
    BY <1>7
  <2> QED BY ONLY <1>1, <1>7, <1>8, <2>1, MovedTyped
<1>11. PostTyped'
  BY <1>1, <1>2, <1>6, <1>10 DEF PostTyped, PostsTyped
<1>12. AsideStep
  <2>1. \A o \in Posts : Aside(o)
    BY <1>1, <1>7, <1>9 DEF Aside
  <2>2. \A o \in Posts : post'[o].conn \in 0..MaxConns
    BY <1>2, <1>7, <1>9, PostPlace
  <2> QED BY <1>1, <1>2, <2>1, <2>2 DEF AsideStep, PostTyped
<1>13. \A p \in PagePosts : (Waiting(p)' <=> (Waiting(p) /\ p # h)) /\ post'[p].conn = post[p].conn
  BY <1>7, <1>8, <1>9, PostsAre DEF Waiting
<1>14. PageStays
  BY <1>1, <1>7, <1>8, <1>9, <1>13, PostsAre DEF PageStays, Waiting
<1>15. \A p \in Behind(c) : p = h \/ h < p
  BY <1>2, <1>4 DEF Behind, LinesHold
<1>16. h \notin In(Tail(socket[c].queue)) /\ h \notin In(socket[c].wire)
  <2>1. ~(h < h)
    BY <1>4, PostsAre
  <2> QED BY <1>2, <1>4, <2>1 DEF LinesHold
<1>17. LinesHold'
  <2>1. \A d \in Conns : Behind(d)' = Behind(d) \ {h}
    <3>1. Behind(c)' = Behind(c) \ {h}
      BY <1>4, <1>5, <1>6, <1>16 DEF Behind
    <3>2. ASSUME NEW d \in Conns, d # c PROVE Behind(d)' = Behind(d) /\ h \notin Behind(d)
      BY <1>2, <1>6, <1>7, <3>2 DEF Behind, LinesHold
    <3> QED BY <3>1, <3>2
  <2>2. ASSUME NEW d \in Conns
        PROVE  /\ Inc(socket'[d].queue) /\ Inc(socket'[d].wire)
               /\ \A p \in In(socket'[d].queue), o \in In(socket'[d].wire) : p < o
    <3>1. CASE d = c
      BY <1>2, <1>4, <1>5, <1>6, <3>1 DEF LinesHold
    <3>2. CASE d # c
      BY <1>2, <1>6, <3>2 DEF LinesHold
    <3> QED BY <3>1, <3>2
  <2>3. ASSUME NEW d \in Conns, NEW p \in Behind(d), p # h PROVE Waiting(p)' /\ post'[p].conn = d
    BY <1>2, <1>13, <2>3, LinesIn DEF LinesHold
  <2>4. ASSUME NEW p \in PagePosts, Waiting(p)'
        PROVE  p # h /\ post'[p].conn \in Conns /\ p \in Behind(post[p].conn) /\ post'[p].conn = post[p].conn
    BY <1>2, <1>13, <2>4 DEF LinesHold
  <2> QED BY <2>1, <2>2, <2>3, <2>4 DEF LinesHold
<1>18. NoneOvertakes'
  <2>1. \A p, o \in PagePosts : Overtakes(p, o)' <=> Overtakes(p, o)
    BY <1>13 DEF Overtakes
  <2>2. ASSUME NEW p \in PagePosts, NEW o \in PagePosts, post'[p].conn = post'[o].conn /\ post'[p].conn # 0,
               post'[p].pc \in Running /\ post'[o].pc \in Running
        PROVE  p = o
    <3>1. ASSUME p = h, o # h PROVE FALSE
      BY <1>1, <1>7, <1>9, <1>13, <2>2, <3>1, PostsAre DEF Quiet
    <3>2. ASSUME p # h, o = h PROVE FALSE
      BY <1>1, <1>7, <1>9, <1>13, <2>2, <3>2, PostsAre DEF Quiet
    <3>3. CASE p # h /\ o # h
      BY <1>2, <1>9, <1>13, <2>2, <3>3, PostsAre DEF NoneOvertakes
    <3> QED BY <3>1, <3>2, <3>3
  <2>3. ASSUME NEW p \in PagePosts, NEW o \in PagePosts, Overtakes(p, o)', Waiting(p)' PROVE post'[o].pc \notin Running
    <3>1. Overtakes(p, o) /\ Waiting(p) /\ p # h
      BY <1>13, <2>1, <2>3
    <3>2. ASSUME o = h PROVE FALSE
      <4>1. post[p].conn = c /\ p < h
        BY <1>7, <3>1, <3>2 DEF Overtakes
      <4>2. p \in Behind(c)
        BY <1>2, <3>1, <4>1 DEF LinesHold
      <4>3. h < p
        BY <1>15, <3>1, <4>2
      <4> QED BY <1>4, <4>1, <4>3, PostsAre
    <3> QED BY <1>2, <1>9, <3>1, <3>2, PostsAre DEF NoneOvertakes
  <2>4. ASSUME NEW p \in PagePosts, NEW o \in PagePosts, Overtakes(p, o)', Waiting(p)' \/ post'[p].pc = "append"
        PROVE  \A j \in DOMAIN log' : log'[j].id # o
    <3>1. Waiting(p) \/ post[p].pc = "append"
      BY <1>7, <1>9, <1>13, <2>4, PostsAre
    <3> QED BY <1>1, <1>2, <2>1, <2>4, <3>1 DEF NoneOvertakes
  <2> QED BY <2>2, <2>3, <2>4 DEF NoneOvertakes
<1>19. BotHolds'
  <2>1. \A o \in Posts : post'[o].heard = post[o].heard /\ post'[o].since = post[o].since /\ (post'[o].pc = "none" <=> post[o].pc = "none")
    BY <1>7, <1>8, <1>9 DEF Waiting
  <2> QED BY <1>1, <1>2, <1>12, <2>1, AsideBot
<1> QED BY <1>1, <1>2, <1>11, <1>12, <1>13, <1>14, <1>17, <1>18, <1>19, PageStaysHolds, AsideHolds
\* The log and the tags in it are finitely many.
LEMMA TagsAre == ASSUME PostTyped
    PROVE  /\ Len(log) \in Nat /\ DOMAIN log = 1..Len(log) /\ (\A i \in DOMAIN log : log[i] \in Message /\ i \in Nat /\ i <= Len(log))
           /\ Own \subseteq DOMAIN log /\ Others \subseteq DOMAIN log /\ Tagging \subseteq Others /\ Own \cap Tagging = {}
           /\ Tagging \subseteq DOMAIN log
           /\ IsFiniteSet(DOMAIN log)
<1>1. log \in Seq(Message)
  BY DEF PostTyped
<1>2. Len(log) \in Nat /\ DOMAIN log = 1..Len(log) /\ \A i \in DOMAIN log : log[i] \in Message
  BY <1>1, LenProperties, ElementOfSeq
<1>3. IsFiniteSet(1..Len(log))
  BY <1>2, FS_Interval
<1> QED BY <1>2, <1>3 DEF Own, Tagging, Others

\* What there is between two places, there is of a larger set.
LEMMA MoreBetween == ASSUME NEW D, IsFiniteSet(D), NEW T \in SUBSET D, NEW S \in SUBSET T, NEW i, NEW h, NEW n \in Nat,
        Cardinality(Between(S, i, h)) >= n
    PROVE  Cardinality(Between(T, i, h)) >= n
<1>1. Between(S, i, h) \in SUBSET Between(T, i, h) /\ Between(T, i, h) \in SUBSET D
  BY DEF Between
<1>2. IsFiniteSet(Between(T, i, h)) /\ IsFiniteSet(Between(S, i, h))
      /\ Cardinality(Between(S, i, h)) <= Cardinality(Between(T, i, h))
  BY <1>1, FS_Subset
<1>3. Cardinality(Between(S, i, h)) \in Nat /\ Cardinality(Between(T, i, h)) \in Nat
  BY <1>2, FS_CardinalityType
<1> QED BY <1>2, <1>3

\* A listing that leaves a tag out is full of later ones, or has looked through as many messages as it may.
LEMMA LeftOut == ASSUME PostTyped, NEW i \in Tagging, i > acted, \A j \in Own : j < i, i \notin PendingTags
    PROVE  PushedOut(i, Len(log))
<1>1. /\ Tagging \subseteq Others /\ Others \subseteq DOMAIN log /\ DOMAIN log \subseteq Nat
      /\ IsFiniteSet(DOMAIN log) /\ \A k \in DOMAIN log : k <= Len(log)
  BY TagsAre
<1>2. Scanned \subseteq Unread /\ Unread \subseteq Others /\ i \in Unread
  BY <1>1 DEF Scanned, Unread
<1>3. ASSUME NEW S \in SUBSET Others PROVE {j \in S : j > i} = Between(S, i, Len(log))
  <2>1. \A j \in S : j \in Nat /\ i \in Nat /\ j <= Len(log)
    BY <1>1
  <2> QED BY <2>1 DEF Between
<1>4. ASSUME NEW S \in SUBSET Others PROVE Cardinality(Between(S, i, Len(log))) \in Nat
  <2>1. Between(S, i, Len(log)) \in SUBSET DOMAIN log
    BY <1>1 DEF Between
  <2> QED BY <1>1, <2>1, FS_Subset, FS_CardinalityType
<1>5. CASE i \notin Scanned
  <2>1. ~(Cardinality({j \in Unread : j > i}) < ScanLimit)
    BY <1>2, <1>5 DEF Scanned
  <2> DEFINE U == Unread
  <2>2. U \in SUBSET Others /\ ~(Cardinality({j \in U : j > i}) < ScanLimit)
    BY <1>2, <2>1
  <2> HIDE DEF U
  <2>3. Cardinality(Between(U, i, Len(log))) \in Nat /\ ~(Cardinality(Between(U, i, Len(log))) < ScanLimit)
    <3>1. {j \in U : j > i} = Between(U, i, Len(log)) /\ Cardinality(Between(U, i, Len(log))) \in Nat
      BY <1>3, <1>4, <2>2
    <3> QED BY <2>2, <3>1, Zenon
  <2>4. Cardinality(Between(U, i, Len(log))) >= ScanLimit
    BY <2>3, PostsAre
  <2>5. Cardinality(Between(Others, i, Len(log))) >= ScanLimit
    BY <1>1, <2>2, <2>4, PostsAre, MoreBetween
  <2> QED BY <2>5 DEF PushedOut
<1>6. CASE i \in Scanned
  <2> DEFINE S == Scanned \cap Tagging
  <2>1. S \subseteq Tagging /\ S \subseteq Others /\ i \in S
    BY <1>1, <1>6
  <2>2. ~(Cardinality({j \in S : j > i}) < TagLimit)
    BY <2>1 DEF PendingTags, LatestTags
  <2> HIDE DEF S
  <2>3. Cardinality(Between(S, i, Len(log))) \in Nat /\ ~(Cardinality(Between(S, i, Len(log))) < TagLimit)
    <3>1. {j \in S : j > i} = Between(S, i, Len(log)) /\ Cardinality(Between(S, i, Len(log))) \in Nat
      BY <1>3, <1>4, <2>1
    <3> QED BY <2>2, <3>1, Zenon
  <2>4. Cardinality(Between(S, i, Len(log))) >= TagLimit
    BY <2>3, PostsAre
  <2>5. Cardinality(Between(Tagging, i, Len(log))) >= TagLimit
    BY <1>1, <2>1, <2>4, PostsAre, MoreBetween
  <2> QED BY <2>5 DEF PushedOut
<1> QED BY <1>5, <1>6

\* A command begins.
LEMMA RowCalled == ASSUME NEW row \in PostRow, NEW h \in Nat, NEW t \in Nat
    PROVE [row EXCEPT !.pc = "append", !.heard = h, !.since = t] \in PostRow
BY Places DEF PostRow

\* A call of the door.
LEMMA CallHolds == ASSUME PostInv, NEW p \in DoorPosts, Call(p) PROVE PostInv'
<1>0. PICK h, t : h = (IF By(p) = Bot THEN Len(log) ELSE 0) /\ t = (IF By(p) = Bot THEN acted ELSE 0)
  OBVIOUS
<1> DEFINE row == [post[p] EXCEPT !.pc = "append", !.heard = h, !.since = t]
<1>1. /\ post[p].pc = "none" /\ post' = [post EXCEPT ![p].pc = "append", ![p].heard = h, ![p].since = t]
      /\ given' = (IF By(p) = Bot THEN given \cup {log[i].id : i \in PendingTags} ELSE given)
      /\ UNCHANGED <<page, socket, log, told, turns, stranded, acted, attended, postFaults>>
  BY <1>0 DEF Call
<1>2. PostTyped /\ PageHolds /\ LinesHold /\ NoneOvertakes /\ BotHolds
  BY DEF PostInv
<1>3. p \in Posts /\ p \notin PagePosts /\ h \in Nat /\ h <= Len(log) /\ Len(log) \in Nat /\ t \in Nat
  BY <1>0, <1>2, TagsAre, PostsAre DEF PostTyped
<1>4. post' = [post EXCEPT ![p] = row] /\ row \in PostRow /\ post \in [Posts -> PostRow]
  <2>1. post \in [Posts -> PostRow] /\ post[p] \in PostRow
    BY <1>2, <1>3 DEF PostTyped
  <2>2. row \in PostRow
    BY <1>3, <2>1, RowCalled
  <2> QED BY <1>1, <1>3, <2>1, <2>2
<1>5. row.pc = "append" /\ row.conn = post[p].conn /\ row.cur = post[p].cur /\ row.heard = h /\ row.since = t
  <2>1. post[p] \in PostRow
    BY <1>3, <1>4
  <2> QED BY <2>1 DEF PostRow
<1> HIDE DEF row
<1>6. post' \in [Posts -> PostRow] /\ (\A o \in Posts \ {p} : post'[o] = post[o]) /\ post'[p] = row
  BY <1>3, <1>4
<1>7. given' \subseteq Ids /\ given \subseteq given'
  <2>1. \A i \in PendingTags : i \in DOMAIN log
    BY <1>2, TagsAre DEF PendingTags, LatestTags
  <2>2. \A i \in DOMAIN log : log[i].id \in Ids
    <3>1. \A m \in Message : m.id \in Ids
      BY DEF Message
    <3> QED BY <1>2, <3>1, TagsAre
  <2>3. given \subseteq Ids
    BY <1>2 DEF PostTyped
  <2> QED BY <1>1, <2>1, <2>2, <2>3
<1>8. PostTyped'
  <2>1. \A o \in Posts : post'[o].cur # Nil <=> post'[o].pc \in {"noroute", "insert", "announce"}
    BY <1>1, <1>2, <1>3, <1>5, <1>6 DEF PostTyped
  <2> QED BY <1>1, <1>2, <1>6, <1>7, <2>1 DEF PostTyped
<1>9. AsideStep
  <2>1. \A o \in Posts : Aside(o)
    BY <1>1, <1>5, <1>6 DEF Aside, Early
  <2>2. \A o \in Posts : post'[o].conn \in 0..MaxConns
    BY <1>2, <1>3, <1>5, <1>6, PostPlace
  <2> QED BY <1>1, <1>2, <2>1, <2>2 DEF AsideStep, PostTyped
<1>10. \A o \in PagePosts : post'[o] = post[o]
  BY <1>3, <1>6, PostsAre
<1>11. LinesStay /\ NoneStarts /\ PageStays
  BY <1>1, <1>10 DEF LinesStay, NoneStarts, PageStays, Waiting
<1>12. BotHolds'
  <2>1. Own' = Own /\ Tagging' = Tagging /\ Others' = Others
    BY <1>1 DEF Own, Tagging, Others
  <2>2. \A i, n, u : Missed(i, n, u)' <=> Missed(i, n, u)
    BY <2>1 DEF Missed, PushedOut, Between
  <2>3. ASSUME NEW i, Cleared(i) PROVE Cleared(i)'
    <3>1. PICK o \in DoorPosts, j \in Own :
              log[j].id = Id(o) /\ i < j /\ post[o].pc # "none" /\ Missed(i, post[o].heard, post[o].since)
      BY <2>3 DEF Cleared
    <3>2. o # p /\ o \in Posts /\ post'[o] = post[o]
      BY <1>1, <1>6, <3>1, PostsAre
    <3> QED BY <1>1, <2>1, <2>2, <3>1, <3>2 DEF Cleared
  <2>4. \A o \in Posts : post'[o].heard <= Len(log)
    BY <1>2, <1>3, <1>5, <1>6 DEF BotHolds
  <2>5. \A i \in Tagging : log[i].id \notin given' /\ (\E j \in Own : i < j) => Cleared(i)'
    BY <1>2, <1>7, <2>3 DEF BotHolds
  <2>6. ASSUME NEW o \in DoorPosts, NEW i \in Tagging, By(o) = Bot, post'[o].pc # "none", i <= post'[o].heard, log[i].id \notin given'
        PROVE  Cleared(i)' \/ Missed(i, post'[o].heard, post'[o].since)
    <3>1. CASE o # p
      <4>1. post'[o] = post[o] /\ log[i].id \notin given
        BY <1>6, <1>7, <2>6, <3>1, PostsAre
      <4>2. Cleared(i) \/ Missed(i, post[o].heard, post[o].since)
        BY <1>2, <2>6, <4>1 DEF BotHolds
      <4> QED BY <2>3, <4>1, <4>2
    <3>2. CASE o = p
      <4>1. post'[o].heard = Len(log) /\ post'[o].since = acted /\ log[i].id \notin given /\ i \notin PendingTags
        BY <1>0, <1>1, <1>5, <1>6, <2>6, <3>2
      <4>2. CASE \A j \in Own : j < i
        <5>1. i \in Nat /\ acted \in Nat
          BY <1>2, TagsAre DEF PostTyped
        <5>2. i <= acted \/ PushedOut(i, Len(log))
          BY <1>2, <4>1, <4>2, <5>1, LeftOut
        <5> QED BY <4>1, <5>2 DEF Missed
      <4>3. CASE \E j \in Own : ~(j < i)
        <5>1. PICK j \in Own : ~(j < i)
          BY <4>3
        <5>2. j # i /\ j \in Nat /\ i \in Nat
          BY <1>2, TagsAre
        <5>3. i < j
          BY <5>1, <5>2
        <5> QED BY <1>2, <2>3, <4>1, <5>3 DEF BotHolds
      <4> QED BY <4>2, <4>3
    <3> QED BY <3>1, <3>2
  <2>7. ASSUME NEW o \in DoorPosts, NEW i \in Tagging', By(o) = Bot, post'[o].pc # "none", i <= post'[o].heard, log'[i].id \notin given'
        PROVE  (Cleared(i) \/ Missed(i, post[o].heard, post[o].since))'
    <3>1. Cleared(i)' \/ Missed(i, post'[o].heard, post'[o].since)
      BY <1>1, <2>1, <2>6, <2>7
    <3> QED BY <2>1, <3>1 DEF Missed, PushedOut
  <2> QED BY <1>1, <2>1, <2>4, <2>5, <2>7 DEF BotHolds
<1> QED BY <1>1, <1>2, <1>8, <1>9, <1>10, <1>11, <1>12, PageStaysHolds, LinesStayHold, NoneStartsHolds, AsideHolds
-----------------------------------------------------------------------------
(* Steps of the command. *)

\* Under one id a log holds one message, and that is the one it is asked for.
LEMMA SaidIs == ASSUME NEW e, \A i, j \in DOMAIN e : e[i].id = e[j].id => i = j, NEW i \in DOMAIN e
    PROVE  Said(e[i].id, e) = e[i]
<1>1. e[i] \in In(e)
  BY DEF In
<1>2. \A m \in In(e) : m.id = e[i].id => m = e[i]
  BY DEF In
<1> QED BY <1>1, <1>2 DEF Said

\* What a command's step other than its append does: it moves one post on, tells more, and takes nothing back.
LEMMA CommandKeeps == ASSUME PostInv, NEW p \in Posts, PostTyped', UNCHANGED <<page, socket, log, stranded, given, postFaults>>, told \subseteq told',
        post[p].pc \in Later, post[p].pc # "done", post'[p].pc \in Later, post'[p].conn = post[p].conn, post'[p].heard = post[p].heard /\ post'[p].since = post[p].since,
        \A o \in Posts \ {p} : post'[o] = post[o], SummonsHold', TagsOf(p)'
    PROVE  PostInv'
<1>1. PostTyped /\ PageHolds /\ LinesHold /\ NoneOvertakes /\ LogHolds /\ InOrder /\ TagsHold /\ BotHolds
  BY DEF PostInv
<1>2. /\ post[p].pc \notin {"none", "box", "wire", "queue", "append"} /\ post'[p].pc \notin {"none", "box", "wire", "queue", "append"}
      /\ post'[p].pc # "done" => post'[p].pc \in Running
  BY Places DEF Later, Early
<1>3. post[p].pc \in Running
  BY Places
<1>4. \A o \in Posts : post'[o].conn = post[o].conn /\ post'[o].heard = post[o].heard /\ post'[o].since = post[o].since
  OBVIOUS
<1>5. LinesStay /\ PageStays /\ NoneStarts
  <2>1. ASSUME NEW o \in Posts
        PROVE  /\ Waiting(o)' <=> Waiting(o)
               /\ post'[o].pc = "none" <=> post[o].pc = "none"
               /\ post'[o].pc = "box" <=> post[o].pc = "box"
               /\ post'[o].pc = "append" => post[o].pc = "append"
               /\ post'[o].pc \in Running => post[o].pc \in Running
    <3>1. CASE o = p
      BY <1>2, <1>3, <3>1 DEF Waiting
    <3>2. CASE o # p
      BY <3>2 DEF Waiting
    <3> QED BY <3>1, <3>2
  <2>2. \A o \in PagePosts : o \in Posts
    BY PostsAre
  <2> QED BY <1>4, <2>1, <2>2 DEF LinesStay, PageStays, NoneStarts
<1>6. LogHolds'
  <2>1. \A o \in Posts : (post'[o].pc \in Later <=> post[o].pc \in Later) /\ (o = p \/ post'[o].pc = post[o].pc)
    OBVIOUS
  <2>2. \A q \in PagePosts, j \in DOMAIN log : log[j].id = q => post'[q].pc \in Later \cup {"failed", "dead"}
    BY <1>1, <2>1, PostsAre DEF LogHolds
  <2>3. \A o \in Posts : post'[o].pc \in Later => \E i \in DOMAIN log : log[i].id = Id(o)
    BY <1>1, <2>1 DEF LogHolds
  <2> QED BY <1>1, <2>2, <2>3 DEF LogHolds
<1>7. InOrder'
  BY <1>1, <1>4, AsideOrder, PostsAre
<1>8. TagsHold'
  <2>1. ASSUME NEW o \in Posts, o # p PROVE TagsOf(o)'
    <3>1. post'[o] = post[o] /\ TagsOf(o)
      BY <1>1, <2>1 DEF TagsHold
    <3>2. Called(Id(o), log)' = Called(Id(o), log) /\ \A a : Answered(Id(o), a) => Answered(Id(o), a)'
      BY DEF Called, Said, Answered
    <3> QED BY <3>1, <3>2 DEF TagsOf
  <2> QED BY <2>1 DEF TagsHold
<1>9. BotHolds'
  <2>1. Own' = Own /\ Tagging' = Tagging /\ Others' = Others
    BY DEF Own, Tagging, Others
  <2>2. \A i, n, u : Missed(i, n, u)' <=> Missed(i, n, u)
    BY <2>1 DEF Missed, PushedOut, Between
  <2>3. \A o \in Posts : post'[o].pc = "none" <=> post[o].pc = "none"
    BY <1>2
  <2>4. \A i : Cleared(i)' <=> Cleared(i)
    BY <1>4, <2>1, <2>2, <2>3, PostsAre DEF Cleared
  <2> QED BY <1>1, <1>4, <2>1, <2>2, <2>3, <2>4, PostsAre DEF BotHolds
<1> QED BY <1>1, <1>5, <1>6, <1>7, <1>8, <1>9, PageStaysHolds, LinesStayHold, NoneStartsHolds DEF PostInv
\* A step of the command that neither appends a summon nor starts a turn.
LEMMA SummonsKept == ASSUME PostTyped, SummonsHold, NEW p \in Posts, UNCHANGED <<turns, stranded>>, told \subseteq told',
        \A s \in told' \ told : s[1] # "summon",
        post[p].pc # "announce", post'[p].pc # "announce", \A o \in Posts \ {p} : post'[o] = post[o]
    PROVE  SummonsHold'
<1>1. \A o \in Posts : post'[o].pc = "announce" <=> post[o].pc = "announce"
  OBVIOUS
<1>2. \A o \in Posts : post[o].pc = "announce" => post'[o] = post[o]
  OBVIOUS
<1>3. \A id, a : <<"summon", id, a>> \in told' <=> <<"summon", id, a>> \in told
  OBVIOUS
<1>4. Unstarted' = Unstarted
  BY <1>3 DEF Unstarted
<1>5. \A o \in Posts, s \in Unstarted : Announces(o, s) => Announces(o, s)'
  BY <1>2 DEF Announces
<1>6. \A s \in Unstarted' : s \in stranded' \/ \E o \in Posts : Announces(o, s)'
  BY <1>4, <1>5 DEF SummonsHold
<1>7. stranded' \subseteq Unstarted'
  BY <1>4 DEF SummonsHold
<1> QED BY <1>1, <1>2, <1>3, <1>6, <1>7 DEF SummonsHold

\* The steps that move one post on to its next summon, or to its end.
LEMMA StepRow == ASSUME PostInv, NEW p \in Posts, NEW from \in Later, NEW to \in {"next", "done"}, Step(p, from, to)
    PROVE  /\ PostsTyped' /\ \A o \in Posts \ {p} : post'[o] = post[o]
           /\ post[p].pc = from /\ post'[p].pc = to /\ post'[p].conn = post[p].conn /\ post'[p].heard = post[p].heard /\ post'[p].since = post[p].since
           /\ post'[p].cur = Nil /\ (to = "next" => post'[p].todo = post[p].todo) /\ (to = "done" => post'[p].todo = {})
<1>1. post \in [Posts -> PostRow] /\ PostsTyped /\ post' = Moved({p}, to) /\ to \in Pcs /\ {p} \in SUBSET Posts /\ post[p].pc = from
  BY Places DEF PostInv, PostTyped, PostsTyped, Step, Later, Over
<1>2. to \in {"next"} \cup Over /\ "next" \notin Over /\ "done" \in Over
  BY DEF Over
<1>3. PostsTyped'
  BY ONLY <1>1, <1>2, MovedTyped
<1>4. /\ \A o \in Posts \ {p} : post'[o] = post[o]
      /\ post'[p].pc = to /\ post'[p].conn = post[p].conn /\ post'[p].heard = post[p].heard /\ post'[p].since = post[p].since
      /\ post'[p].todo = (IF to \in Over THEN {} ELSE post[p].todo)
      /\ post'[p].cur = (IF to \in {"next"} \cup Over THEN Nil ELSE post[p].cur)
  BY ONLY <1>1, MovedOne
<1> QED BY <1>1, <1>2, <1>3, <1>4

\* What the step of a command leaves typed, when it tells or starts what it may.
LEMMA CommandTyped == ASSUME PostTyped, PostsTyped', Keeps, UNCHANGED log, acted' \in Nat, told' \subseteq Telling, turns' \in [Ids \X Agents -> Nat], attended' \subseteq Posts
    PROVE  PostTyped' /\ UNCHANGED <<page, socket, log, stranded, given, postFaults>>
BY DEF PostTyped, PostsTyped, Keeps

\* The room is told of names that are nobody's.
LEMMA AppendNoticeHolds == ASSUME PostInv, NEW p \in Posts, AppendNotice(p) PROVE PostInv'
<1>1. /\ Step(p, "notice", "next") /\ told' = told \cup {<<"unknown", Id(p), Nil>>} /\ UNCHANGED <<log, turns, acted, attended>> /\ Keeps
  BY DEF AppendNotice
<1>2. PostTyped /\ SummonsHold /\ TagsOf(p) /\ "notice" \in Later /\ "next" \in Later
  BY DEF PostInv, TagsHold, Later
<1>3. /\ PostsTyped' /\ \A o \in Posts \ {p} : post'[o] = post[o]
      /\ post[p].pc = "notice" /\ post'[p].pc = "next" /\ post'[p].conn = post[p].conn /\ post'[p].heard = post[p].heard /\ post'[p].since = post[p].since
      /\ post'[p].todo = post[p].todo
  <2>1. "next" \in {"next", "done"} /\ "done" \in {"next", "done"}
    OBVIOUS
  <2> QED BY <1>1, <1>2, <2>1, StepRow
<1>4. PostTyped' /\ UNCHANGED <<page, socket, log, stranded, given, postFaults>>
  <2>1. told' \subseteq Telling
    BY <1>1, <1>2, PostsAre DEF PostTyped, Telling
  <2>2. turns' \in [Ids \X Agents -> Nat] /\ attended' \subseteq Posts /\ acted' \in Nat
    BY <1>1, <1>2 DEF PostTyped
  <2> QED BY <1>1, <1>2, <1>3, <2>1, <2>2, CommandTyped
<1>5. SummonsHold'
  BY <1>1, <1>2, <1>3, <1>4, SummonsKept
<1>6. TagsOf(p)'
  <2>1. Called(Id(p), log)' = Called(Id(p), log) /\ \A a : Answered(Id(p), a) => Answered(Id(p), a)'
    BY <1>1 DEF Called, Said, Answered
  <2>2. <<"unknown", Id(p), Nil>> \in told'
    BY <1>1
  <2> QED BY <1>2, <1>3, <2>1, <2>2 DEF TagsOf
<1> QED BY <1>1, <1>2, <1>3, <1>4, <1>5, <1>6, CommandKeeps

\* The room is told that there is no way to a member.
LEMMA AppendNoRouteHolds == ASSUME PostInv, NEW p \in Posts, AppendNoRoute(p) PROVE PostInv'
<1>0. PICK a : a = post[p].cur
  OBVIOUS
<1>1. /\ Step(p, "noroute", "next") /\ told' = told \cup {<<"noroute", Id(p), a>>} /\ UNCHANGED <<log, turns, acted, attended>> /\ Keeps
  BY <1>0 DEF AppendNoRoute
<1>2. PostTyped /\ SummonsHold /\ TagsOf(p) /\ "noroute" \in Later /\ "next" \in Later
  BY DEF PostInv, TagsHold, Later
<1>3. /\ PostsTyped' /\ \A o \in Posts \ {p} : post'[o] = post[o]
      /\ post[p].pc = "noroute" /\ post'[p].pc = "next" /\ post'[p].conn = post[p].conn /\ post'[p].heard = post[p].heard /\ post'[p].since = post[p].since
      /\ post'[p].todo = post[p].todo
  <2>1. "next" \in {"next", "done"} /\ "done" \in {"next", "done"}
    OBVIOUS
  <2> QED BY <1>1, <1>2, <2>1, StepRow
<1>4. PostTyped' /\ UNCHANGED <<page, socket, log, stranded, given, postFaults>>
  <2>1. a \in Agents \cup {Nil}
    BY <1>0, <1>2, PostPlace
  <2>2. told' \subseteq Telling
    BY <1>1, <1>2, <2>1, PostsAre DEF PostTyped, Telling
  <2>3. turns' \in [Ids \X Agents -> Nat] /\ attended' \subseteq Posts /\ acted' \in Nat
    BY <1>1, <1>2 DEF PostTyped
  <2> QED BY <1>1, <1>2, <1>3, <2>2, <2>3, CommandTyped
<1>5. SummonsHold'
  BY <1>1, <1>2, <1>3, <1>4, SummonsKept
<1>6. TagsOf(p)'
  <2>1. Called(Id(p), log)' = Called(Id(p), log) /\ \A b : Answered(Id(p), b) => Answered(Id(p), b)'
    BY <1>1 DEF Called, Said, Answered
  <2>2. Answered(Id(p), a)' /\ told \subseteq told'
    BY <1>1 DEF Answered
  <2> QED BY <1>0, <1>2, <1>3, <2>1, <2>2 DEF TagsOf
<1> QED BY <1>1, <1>2, <1>3, <1>4, <1>5, <1>6, CommandKeeps

\* The command comes to its end.
LEMMA EndPostHolds == ASSUME PostInv, NEW p \in Posts, EndPost(p) PROVE PostInv'
<1>1. /\ post[p].todo = {} /\ Step(p, "next", "done") /\ attended' = attended \cup {p} /\ UNCHANGED <<log, told, turns, acted>> /\ Keeps
  BY DEF EndPost, AllSummoned
<1>2. PostTyped /\ SummonsHold /\ TagsOf(p) /\ "done" \in Later /\ "next" \in Later
  BY DEF PostInv, TagsHold, Later
<1>3. /\ PostsTyped' /\ \A o \in Posts \ {p} : post'[o] = post[o]
      /\ post[p].pc = "next" /\ post'[p].pc = "done" /\ post'[p].conn = post[p].conn /\ post'[p].heard = post[p].heard /\ post'[p].since = post[p].since
      /\ post'[p].todo = {}
  <2>1. "next" \in {"next", "done"} /\ "done" \in {"next", "done"}
    OBVIOUS
  <2> QED BY <1>1, <1>2, <2>1, StepRow
<1>4. PostTyped' /\ UNCHANGED <<page, socket, log, stranded, given, postFaults>>
  <2>1. told' \subseteq Telling /\ turns' \in [Ids \X Agents -> Nat] /\ attended' \subseteq Posts /\ acted' \in Nat
    BY <1>1, <1>2 DEF PostTyped
  <2> QED BY <1>1, <1>2, <1>3, <2>1, CommandTyped
<1>5. SummonsHold'
  BY <1>1, <1>2, <1>3, <1>4, SummonsKept
<1>6. TagsOf(p)'
  <2>1. Called(Id(p), log)' = Called(Id(p), log) /\ \A a : Answered(Id(p), a) => Answered(Id(p), a)'
    BY <1>1 DEF Called, Said, Answered
  <2> QED BY <1>1, <1>2, <1>3, <2>1 DEF TagsOf
<1> QED BY <1>1, <1>2, <1>3, <1>4, <1>5, <1>6, CommandKeeps

\* A turn is deferred.
LEMMA DeferTurnHolds == ASSUME PostInv, NEW p \in Posts, DeferTurn(p) PROVE PostInv'
<1>0. PICK s, a : s = <<Id(p), a>> /\ a = post[p].cur
  OBVIOUS
<1>1. /\ Step(p, "announce", "next") /\ turns' = [turns EXCEPT ![s] = @ + 1] /\ acted' \in Nat /\ UNCHANGED <<log, told, attended>> /\ Keeps
  <2>1. acted \in Nat /\ Len(log) \in Nat
    BY TagsAre DEF PostInv, PostTyped
  <2> QED BY <1>0, <2>1 DEF DeferTurn
<1>2. PostTyped /\ SummonsHold /\ TagsOf(p) /\ "announce" \in Later /\ "next" \in Later
  BY DEF PostInv, TagsHold, Later
<1>3. /\ PostsTyped' /\ \A o \in Posts \ {p} : post'[o] = post[o]
      /\ post[p].pc = "announce" /\ post'[p].pc = "next" /\ post'[p].conn = post[p].conn /\ post'[p].heard = post[p].heard /\ post'[p].since = post[p].since
      /\ post'[p].todo = post[p].todo
  <2>1. "next" \in {"next", "done"} /\ "done" \in {"next", "done"}
    OBVIOUS
  <2> QED BY <1>1, <1>2, <2>1, StepRow
<1>4. s \in Ids \X Agents /\ <<"summon", s[1], s[2]>> \in told /\ turns[s] = 0
  <2>1. post[p].cur \in Agents
    BY <1>2, <1>3, PostPlace DEF PostTyped
  <2> QED BY <1>0, <1>2, <1>3, <2>1, PostsAre DEF SummonsHold
<1>5. turns' \in [Ids \X Agents -> Nat] /\ turns'[s] = 1 /\ \A t \in (Ids \X Agents) \ {s} : turns'[t] = turns[t]
  BY <1>1, <1>2, <1>4 DEF PostTyped
<1>6. PostTyped' /\ UNCHANGED <<page, socket, log, stranded, given, postFaults>>
  <2>1. told' \subseteq Telling /\ attended' \subseteq Posts
    BY <1>1, <1>2 DEF PostTyped
  <2> QED BY <1>1, <1>2, <1>3, <1>5, <2>1, CommandTyped
<1>7. \A o \in Posts : post'[o].pc = "announce" => o # p /\ post'[o] = post[o] /\ <<Id(o), post[o].cur>> # s /\ <<Id(o), post[o].cur>> \in Ids \X Agents
  <2> SUFFICES ASSUME NEW o \in Posts, post'[o].pc = "announce"
               PROVE  o # p /\ post'[o] = post[o] /\ <<Id(o), post[o].cur>> # s /\ <<Id(o), post[o].cur>> \in Ids \X Agents
    OBVIOUS
  <2>1. o # p /\ post'[o] = post[o]
    BY <1>3
  <2>2. post[o].cur \in Agents
    BY <1>2, <2>1, PostPlace DEF PostTyped
  <2>3. Id(o) # Id(p) \/ post[o].cur # post[p].cur
    BY <1>2, <1>3, <2>1 DEF SummonsHold
  <2> QED BY <1>0, <2>1, <2>2, <2>3, PostsAre
<1>8. SummonsHold'
  <2>1. \A o, q \in Posts : post'[o].pc = "announce" /\ post'[q].pc = "announce" /\ Id(o) = Id(q) /\ post'[o].cur = post'[q].cur => o = q
    BY <1>2, <1>7 DEF SummonsHold
  <2>2. \A o \in Posts : post'[o].pc = "announce" =>
           <<"summon", Id(o), post'[o].cur>> \in told' /\ turns'[<<Id(o), post'[o].cur>>] = 0
    BY <1>1, <1>2, <1>5, <1>7, ZenonT(60) DEF SummonsHold
  <2>3. \A t \in Ids \X Agents : turns'[t] <= 1 /\ (turns'[t] > 0 => <<"summon", t[1], t[2]>> \in told')
    <3> SUFFICES ASSUME NEW t \in Ids \X Agents PROVE turns'[t] <= 1 /\ (turns'[t] > 0 => <<"summon", t[1], t[2]>> \in told')
      OBVIOUS
    <3>1. CASE t = s
      BY <1>1, <1>4, <1>5, <3>1
    <3>2. CASE t # s
      BY <1>1, <1>2, <1>5, <3>2 DEF SummonsHold
    <3> QED BY <3>1, <3>2
  <2>5. s \notin stranded /\ stranded' = stranded
    BY <1>0, <1>2, <1>3, <1>6 DEF SummonsHold
  <2>6. stranded' \subseteq Unstarted'
    <3> SUFFICES ASSUME NEW t \in stranded PROVE t \in Unstarted'
      BY <2>5
    <3>1. t \in Ids \X Agents /\ t # s /\ <<"summon", t[1], t[2]>> \in told /\ turns[t] = 0
      BY <1>2, <2>5 DEF SummonsHold, Unstarted
    <3> QED BY <1>1, <1>5, <3>1 DEF Unstarted
  <2>7. \A o \in Posts : post'[o].pc = "announce" => <<Id(o), post'[o].cur>> \notin stranded'
    BY <1>2, <1>7, <2>5 DEF SummonsHold
  <2>4. ASSUME NEW t \in Unstarted', t \notin stranded' PROVE \E o \in Posts : Announces(o, t)'
    <3>1. t # s /\ t \in Unstarted
      BY <1>1, <1>5, <2>4 DEF Unstarted
    <3>2. PICK o \in Posts : Announces(o, t)
      BY <1>2, <2>4, <2>5, <3>1 DEF SummonsHold
    <3>3. o # p
      BY <1>0, <3>1, <3>2 DEF Announces
    <3>4. post'[o] = post[o]
      BY <1>3, <3>3
    <3> QED BY <3>2, <3>4 DEF Announces
  <2> QED BY <2>1, <2>2, <2>3, <2>4, <2>6, <2>7 DEF SummonsHold
<1>9. TagsOf(p)'
  <2>1. Called(Id(p), log)' = Called(Id(p), log) /\ \A b : Answered(Id(p), b) => Answered(Id(p), b)'
    BY <1>1 DEF Called, Said, Answered
  <2>2. Answered(Id(p), a)'
    BY <1>0, <1>1, <1>4 DEF Answered
  <2> QED BY <1>0, <1>1, <1>2, <1>3, <2>1, <2>2 DEF TagsOf
<1> QED BY <1>1, <1>2, <1>3, <1>6, <1>8, <1>9, CommandKeeps
\* A summon is put in the log, unless it is there.
LEMMA AppendSummonHolds == ASSUME PostInv, NEW p \in Posts, AppendSummon(p) PROVE PostInv'
<1>0. PICK s, a : s = <<Id(p), a>> /\ a = post[p].cur
  OBVIOUS
<1>1. /\ post[p].pc = "insert" /\ told' = told \cup {<<"summon", Id(p), a>>} /\ UNCHANGED <<log, turns, acted, attended>> /\ Keeps
      /\ Step(p, "insert", IF <<"summon", Id(p), a>> \in told THEN "next" ELSE "announce")
  BY <1>0 DEF AppendSummon, Step, AfterSummon
<1>2. /\ PostTyped /\ SummonsHold /\ TagsOf(p) /\ PostsTyped /\ {"insert", "next", "announce"} \subseteq Later
      /\ "next" \in {"next", "done"} /\ post \in [Posts -> PostRow]
  BY DEF PostInv, TagsHold, Later, PostTyped, PostsTyped
<1>3. s \in Ids \X Agents /\ a \in Agents
  <2>1. post[p].cur \in Agents
    BY <1>1, <1>2, PostPlace DEF PostTyped
  <2> QED BY <1>0, <2>1, PostsAre
<1>4. told' \subseteq Telling /\ turns' \in [Ids \X Agents -> Nat] /\ attended' \subseteq Posts /\ acted' \in Nat
  BY <1>1, <1>2, <1>3, PostsAre DEF PostTyped, Telling
<1>5. /\ Called(Id(p), log)' = Called(Id(p), log) /\ \A b : Answered(Id(p), b) => Answered(Id(p), b)'
      /\ Answered(Id(p), a)' /\ told \subseteq told'
  BY <1>1 DEF Called, Said, Answered
<1>6. CASE <<"summon", Id(p), a>> \in told
  <2>1. Step(p, "insert", "next")
    BY <1>1, <1>6
  <2>2. /\ PostsTyped' /\ \A o \in Posts \ {p} : post'[o] = post[o]
        /\ post'[p].pc = "next" /\ post'[p].conn = post[p].conn /\ post'[p].heard = post[p].heard /\ post'[p].since = post[p].since
        /\ post'[p].todo = post[p].todo /\ post'[p].cur = Nil
    BY <1>2, <2>1, StepRow
  <2>3. PostTyped' /\ UNCHANGED <<page, socket, log, stranded, given, postFaults>>
    BY <1>1, <1>2, <1>4, <2>2, CommandTyped
  <2>4. told' = told
    BY <1>1, <1>6
  <2>5. SummonsHold'
    BY <1>1, <1>2, <2>2, <2>3, <2>4, SummonsKept
  <2>6. TagsOf(p)'
    BY <1>0, <1>1, <1>2, <1>5, <2>2 DEF TagsOf
  <2> QED BY <1>1, <1>2, <2>2, <2>3, <2>4, <2>5, <2>6, CommandKeeps
<1>7. CASE <<"summon", Id(p), a>> \notin told
  <2>1. post' = Moved({p}, "announce") /\ "announce" \in Pcs /\ "announce" \notin Over /\ {p} \in SUBSET Posts
    <3>1. "announce" \in Pcs /\ "announce" \notin Over
      BY DEF Pcs, Running, Over
    <3>2. post' = Moved({p}, "announce")
      BY <1>1, <1>7 DEF Step
    <3> QED BY <3>1, <3>2
  <2>2. PostsTyped'
    <3>1. \A o \in {p} : post[o].pc = "insert"
      BY <1>1
    <3> QED BY ONLY <1>2, <2>1, <3>1, MovedTyped
  <2>3. /\ \A o \in Posts \ {p} : post'[o] = post[o]
        /\ post'[p].pc = "announce" /\ post'[p].conn = post[p].conn /\ post'[p].heard = post[p].heard /\ post'[p].since = post[p].since
        /\ post'[p].todo = post[p].todo /\ post'[p].cur = a
    <3>1. \A o \in Posts \ {p} : post'[o] = post[o]
      BY ONLY <1>2, <2>1, MovedOne
    <3>2. /\ post'[p].pc = "announce" /\ post'[p].conn = post[p].conn /\ post'[p].heard = post[p].heard /\ post'[p].since = post[p].since
          /\ post'[p].todo = (IF "announce" \in Over THEN {} ELSE post[p].todo)
          /\ post'[p].cur = (IF "announce" \in {"next"} \cup Over THEN Nil ELSE post[p].cur)
      BY ONLY <1>2, <2>1, MovedOne
    <3> QED BY <1>0, <2>1, <3>1, <3>2
  <2>4. PostTyped' /\ UNCHANGED <<page, socket, log, stranded, given, postFaults>>
    BY <1>1, <1>2, <1>4, <2>2, CommandTyped
  <2>5. turns[s] = 0
    <3>1. turns[s] \in Nat /\ ~(turns[s] > 0)
      BY <1>0, <1>2, <1>3, <1>7 DEF SummonsHold, PostTyped
    <3> QED BY <3>1
  <2>6. \A o \in Posts : o # p /\ post[o].pc = "announce" => <<Id(o), post[o].cur>> # s
    BY <1>0, <1>2, <1>7 DEF SummonsHold
  <2>7. SummonsHold'
    <3>1. \A o, q \in Posts : post'[o].pc = "announce" /\ post'[q].pc = "announce" /\ Id(o) = Id(q) /\ post'[o].cur = post'[q].cur => o = q
      <4> SUFFICES ASSUME NEW o \in Posts, NEW q \in Posts, post'[o].pc = "announce", post'[q].pc = "announce",
                          Id(o) = Id(q), post'[o].cur = post'[q].cur
                   PROVE o = q
        OBVIOUS
      <4>1. CASE o = p
        BY <1>0, <2>3, <2>6, <4>1
      <4>2. CASE q = p
        BY <1>0, <2>3, <2>6, <4>2
      <4>3. CASE o # p /\ q # p
        BY <1>2, <2>3, <4>3 DEF SummonsHold
      <4> QED BY <4>1, <4>2, <4>3
    <3>2. \A o \in Posts : post'[o].pc = "announce" =>
             <<"summon", Id(o), post'[o].cur>> \in told' /\ turns'[<<Id(o), post'[o].cur>>] = 0
      <4> SUFFICES ASSUME NEW o \in Posts, post'[o].pc = "announce"
                   PROVE  <<"summon", Id(o), post'[o].cur>> \in told' /\ turns'[<<Id(o), post'[o].cur>>] = 0
        OBVIOUS
      <4>1. CASE o = p
        BY <1>0, <1>1, <2>3, <2>5, <4>1
      <4>2. CASE o # p
        BY <1>1, <1>2, <2>3, <4>2 DEF SummonsHold
      <4> QED BY <4>1, <4>2
    <3>3. \A t \in Ids \X Agents : turns'[t] <= 1 /\ (turns'[t] > 0 => <<"summon", t[1], t[2]>> \in told')
      BY <1>1, <1>2 DEF SummonsHold
    <3>5. stranded' = stranded /\ s \notin stranded
      BY <1>0, <1>2, <1>7, <2>4 DEF SummonsHold, Unstarted
    <3>6. stranded' \subseteq Unstarted'
      BY <1>1, <1>2, <3>5 DEF SummonsHold, Unstarted
    <3>7. \A o \in Posts : post'[o].pc = "announce" => <<Id(o), post'[o].cur>> \notin stranded'
      <4> SUFFICES ASSUME NEW o \in Posts, post'[o].pc = "announce" PROVE <<Id(o), post'[o].cur>> \notin stranded
        BY <3>5
      <4>1. CASE o = p
        BY <1>0, <2>3, <3>5, <4>1
      <4>2. CASE o # p
        BY <1>2, <2>3, <4>2 DEF SummonsHold
      <4> QED BY <4>1, <4>2
    <3>4. ASSUME NEW t \in Unstarted', t \notin stranded' PROVE \E o \in Posts : Announces(o, t)'
      <4>1. CASE t = s
        BY <1>0, <2>3, <4>1 DEF Announces
      <4>2. CASE t # s
        <5>1. t \in Ids \X Agents /\ <<"summon", t[1], t[2]>> \in told' /\ turns[t] = 0
          BY <1>1, <3>4 DEF Unstarted
        <5>2. t = <<t[1], t[2]>>
          BY <5>1
        <5>3. <<"summon", t[1], t[2]>> # <<"summon", Id(p), a>>
          BY <1>0, <4>2, <5>2
        <5>4. t \in Unstarted
          BY <1>1, <5>1, <5>3 DEF Unstarted
        <5>5. PICK o \in Posts : Announces(o, t)
          BY <1>2, <3>4, <3>5, <5>4 DEF SummonsHold
        <5>6. o # p
          BY <1>1, <5>5 DEF Announces
        <5>7. post'[o] = post[o]
          BY <2>3, <5>6
        <5> QED BY <5>5, <5>7 DEF Announces
      <4> QED BY <4>1, <4>2
    <3> QED BY <3>1, <3>2, <3>3, <3>4, <3>6, <3>7 DEF SummonsHold
  <2>8. TagsOf(p)'
    BY <1>0, <1>1, <1>2, <1>5, <2>3 DEF TagsOf
  <2> QED BY <1>1, <1>2, <1>5, <2>3, <2>4, <2>7, <2>8, CommandKeeps
<1> QED BY <1>6, <1>7

\* It takes a name up.
LEMMA RowBegun == ASSUME NEW row \in PostRow, NEW a \in Agents
    PROVE  /\ [row EXCEPT !.todo = @ \ {a}] \in PostRow
           /\ \A pc \in {"insert", "noroute"} : [row EXCEPT !.todo = @ \ {a}, !.cur = a, !.pc = pc] \in PostRow
BY Places DEF PostRow, Later

\* The next member that a message names is taken up, or an agent's message calls nobody.
LEMMA BeginSummonHolds == ASSUME PostInv, NEW p \in Posts, BeginSummon(p) PROVE PostInv'
<1>1. PICK a \in post[p].todo :
        /\ post[p].pc = "next"
        /\ IF By(p) \in Agents THEN post' = [post EXCEPT ![p].todo = @ \ {a}]
           ELSE \E pc \in {"insert", "noroute"} :
                  post' = [post EXCEPT ![p].todo = @ \ {a}, ![p].cur = a, ![p].pc = pc]
        /\ UNCHANGED <<log, told, turns, acted, attended>> /\ Keeps
  BY DEF BeginSummon
<1>2. /\ PostTyped /\ SummonsHold /\ TagsOf(p) /\ PostsTyped /\ {"insert", "next", "noroute"} \subseteq Later
      /\ post \in [Posts -> PostRow] /\ post[p] \in PostRow /\ a \in Agents /\ a # Nil /\ post[p].cur = Nil
  <2>1. PostTyped /\ SummonsHold /\ TagsOf(p) /\ PostsTyped /\ {"insert", "next", "noroute"} \subseteq Later /\ post \in [Posts -> PostRow]
    BY DEF PostInv, TagsHold, Later, PostTyped, PostsTyped
  <2>2. post[p] \in PostRow /\ a \in Agents
    BY <2>1, PostPlace
  <2>3. post[p].cur = Nil
    BY <1>1, <2>1 DEF PostsTyped
  <2> QED BY <2>1, <2>2, <2>3, PostsAre
<1>3. told' \subseteq Telling /\ turns' \in [Ids \X Agents -> Nat] /\ attended' \subseteq Posts /\ acted' \in Nat
  BY <1>1, <1>2 DEF PostTyped
<1>4. Called(Id(p), log)' = Called(Id(p), log) /\ \A b : Answered(Id(p), b)' <=> Answered(Id(p), b)
  BY <1>1 DEF Called, Said, Answered
<1>5. PICK row \in PostRow :
        /\ post' = [post EXCEPT ![p] = row] /\ row.conn = post[p].conn /\ row.heard = post[p].heard /\ row.since = post[p].since /\ row.todo = post[p].todo \ {a}
        /\ By(p) \in Agents => row.pc = "next" /\ row.cur = Nil
        /\ By(p) \notin Agents => row.pc \in {"insert", "noroute"} /\ row.cur = a
  <2>1. CASE By(p) \in Agents
    <3> DEFINE row == [post[p] EXCEPT !.todo = @ \ {a}]
    <3>1. row \in PostRow
      BY <1>2, RowBegun
    <3>2. row.conn = post[p].conn /\ row.heard = post[p].heard /\ row.since = post[p].since /\ row.todo = post[p].todo \ {a} /\ row.pc = "next" /\ row.cur = Nil
      BY <1>1, <1>2 DEF PostRow
    <3>3. post' = [post EXCEPT ![p] = row]
      BY <1>1, <1>2, <2>1
    <3> QED BY <2>1, <3>1, <3>2, <3>3
  <2>2. CASE By(p) \notin Agents
    <3>1. PICK pc \in {"insert", "noroute"} : post' = [post EXCEPT ![p].todo = @ \ {a}, ![p].cur = a, ![p].pc = pc]
      BY <1>1, <2>2
    <3> DEFINE row == [post[p] EXCEPT !.todo = @ \ {a}, !.cur = a, !.pc = pc]
    <3>2. row \in PostRow
      BY <1>2, RowBegun
    <3>3. row.conn = post[p].conn /\ row.heard = post[p].heard /\ row.since = post[p].since /\ row.todo = post[p].todo \ {a} /\ row.pc = pc /\ row.cur = a
      BY <1>1, <1>2 DEF PostRow
    <3>4. post' = [post EXCEPT ![p] = row]
      BY <1>2, <3>1
    <3> QED BY <2>2, <3>2, <3>3, <3>4
  <2> QED BY <2>1, <2>2
<1>6. post' \in [Posts -> PostRow] /\ post'[p] = row /\ \A o \in Posts \ {p} : post'[o] = post[o]
  BY <1>2, <1>5
<1>7. row.pc \in {"next", "insert", "noroute"} /\ (row.cur # Nil <=> row.pc \in {"insert", "noroute"})
  BY <1>2, <1>5
<1>8. PostTyped' /\ UNCHANGED <<page, socket, log, stranded, given, postFaults>>
  <2>1. PostsTyped'
    BY <1>2, <1>6, <1>7 DEF PostsTyped
  <2> QED BY <1>1, <1>2, <1>3, <2>1, CommandTyped
<1>9. SummonsHold'
  BY <1>1, <1>2, <1>6, <1>7, <1>8, SummonsKept
<1>10. TagsOf(p)'
  BY <1>1, <1>2, <1>4, <1>5, <1>6, <1>7 DEF TagsOf
<1> QED BY <1>1, <1>2, <1>5, <1>6, <1>7, <1>8, <1>9, <1>10, CommandKeeps
\* A message is inserted under its id once.
LEMMA OnceIs == ASSUME PostTyped, LogHolds, NEW m \in Message, log' = Once(m)
    PROVE  /\ log' \in Seq(Message) /\ Len(log') \in Nat /\ DOMAIN log' = 1..Len(log') /\ Len(log) <= Len(log')
           /\ \A i \in DOMAIN log : i \in DOMAIN log' /\ log'[i] = log[i]
           /\ \A i \in DOMAIN log' : \/ i \in DOMAIN log
                                     \/ i = Len(log) + 1 /\ log'[i] = m /\ \A j \in DOMAIN log : log[j].id # m.id
           /\ \E i \in DOMAIN log' : log'[i].id = m.id
           /\ \A i, j \in DOMAIN log' : log'[i].id = log'[j].id => i = j
<1>1. log \in Seq(Message) /\ Len(log) \in Nat /\ DOMAIN log = 1..Len(log)
  BY TagsAre DEF PostTyped
<1>2. CASE \E i \in DOMAIN log : log[i].id = m.id
  <2>1. log' = log
    BY <1>2 DEF Once
  <2> QED BY <1>1, <1>2, <2>1 DEF LogHolds
<1>3. CASE \A i \in DOMAIN log : log[i].id # m.id
  <2>1. log' = Append(log, m)
    BY <1>3 DEF Once
  <2>2. /\ log' \in Seq(Message) /\ Len(log') = Len(log) + 1 /\ (\A i \in 1..Len(log) : log'[i] = log[i]) /\ log'[Len(log) + 1] = m
    BY <1>1, <2>1, AppendProperties
  <2>3. DOMAIN log' = 1..(Len(log) + 1)
    BY <2>2, LenProperties
  <2>4. \A i \in 1..(Len(log) + 1) : i \in 1..Len(log) \/ i = Len(log) + 1
    BY <1>1
  <2>5. Len(log) + 1 \in 1..(Len(log) + 1) /\ 1..Len(log) \subseteq 1..(Len(log) + 1) /\ Len(log) + 1 \notin 1..Len(log)
    BY <1>1
  <2>6. \A i \in DOMAIN log' : i \in DOMAIN log \/ (i = Len(log) + 1 /\ log'[i] = m)
    <3> SUFFICES ASSUME NEW i \in DOMAIN log', i \notin DOMAIN log PROVE i = Len(log) + 1 /\ log'[i] = m
      OBVIOUS
    <3>1. i = Len(log) + 1
      BY <1>1, <2>3, <2>4
    <3> QED BY <2>2, <3>1
  <2>7. ASSUME NEW i \in DOMAIN log', NEW j \in DOMAIN log', log'[i].id = log'[j].id PROVE i = j
    <3>1. CASE i \in DOMAIN log /\ j \in DOMAIN log
      BY <1>1, <2>2, <2>7, <3>1 DEF LogHolds
    <3>2. CASE i \notin DOMAIN log /\ j \notin DOMAIN log
      BY <2>6, <3>2
    <3>3. CASE i \in DOMAIN log /\ j \notin DOMAIN log
      BY <1>1, <1>3, <2>2, <2>6, <2>7, <3>3
    <3>4. CASE i \notin DOMAIN log /\ j \in DOMAIN log
      BY <1>1, <1>3, <2>2, <2>6, <2>7, <3>4
    <3> QED BY <3>1, <3>2, <3>3, <3>4
  <2>8. \E i \in DOMAIN log' : log'[i].id = m.id
    BY <2>2, <2>3, <2>5
  <2>9. Len(log) <= Len(log') /\ Len(log') \in Nat
    BY <1>1, <2>2
  <2> QED BY <1>1, <1>3, <2>2, <2>3, <2>5, <2>6, <2>7, <2>8, <2>9
<1> QED BY <1>2, <1>3

\* It has ruled on its names.
LEMMA RowRuled == ASSUME NEW row \in PostRow, NEW todo \in SUBSET Agents
    PROVE  \A pc \in {"notice", "next"} : [row EXCEPT !.pc = pc, !.todo = todo] \in PostRow
BY Places DEF PostRow, Later

\* The message of a post is put in the log, and its names are ruled on.
LEMMA AppendMessageHolds == ASSUME PostInv, NEW p \in Posts, AppendMessage(p) PROVE PostInv'
<1> DEFINE m == [id |-> Id(p), by |-> By(p), names |-> NamesOf[p]]
<1>0. PICK called, pc : called = Called(Id(p), log') /\ pc = IF Stranger \in called THEN "notice" ELSE "next"
  OBVIOUS
<1>1. /\ post[p].pc = "append" /\ log' = Once(m)
      /\ post' = [post EXCEPT ![p].pc = pc, ![p].todo = called \cap Agents]
      /\ UNCHANGED <<page, socket, told, turns, stranded, acted, attended, given, postFaults>>
  BY <1>0 DEF AppendMessage, Keeps
<1>2. PostTyped /\ PageHolds /\ LinesHold /\ NoneOvertakes /\ LogHolds /\ InOrder /\ SummonsHold /\ TagsHold /\ BotHolds
  BY DEF PostInv
<1>3. m \in Message /\ m.id = Id(p) /\ m.by = By(p)
  BY PostsAre DEF Message
<1> HIDE DEF m
<1>4. /\ log' \in Seq(Message) /\ Len(log') \in Nat /\ DOMAIN log' = 1..Len(log') /\ Len(log) <= Len(log')
      /\ \A i \in DOMAIN log : i \in DOMAIN log' /\ log'[i] = log[i]
      /\ \A i \in DOMAIN log' : \/ i \in DOMAIN log
                                \/ i = Len(log) + 1 /\ log'[i] = m /\ \A j \in DOMAIN log : log[j].id # Id(p)
      /\ \E i \in DOMAIN log' : log'[i].id = Id(p)
      /\ \A i, j \in DOMAIN log' : log'[i].id = log'[j].id => i = j
  BY <1>1, <1>2, <1>3, OnceIs
<1>5. PICK row \in PostRow : /\ post' = [post EXCEPT ![p] = row] /\ row.pc = pc /\ row.todo = called \cap Agents
                             /\ row.conn = post[p].conn /\ row.heard = post[p].heard /\ row.since = post[p].since /\ row.cur = post[p].cur
  <2> DEFINE row == [post[p] EXCEPT !.pc = pc, !.todo = called \cap Agents]
  <2>1. post \in [Posts -> PostRow] /\ post[p] \in PostRow /\ called \cap Agents \in SUBSET Agents /\ pc \in {"notice", "next"}
    BY <1>0, <1>2 DEF PostTyped
  <2>2. row \in PostRow
    BY <2>1, RowRuled
  <2>3. row.pc = pc /\ row.todo = called \cap Agents /\ row.conn = post[p].conn /\ row.heard = post[p].heard /\ row.since = post[p].since /\ row.cur = post[p].cur
    BY <2>1 DEF PostRow
  <2>4. post' = [post EXCEPT ![p] = row]
    BY <1>1, <2>1
  <2> HIDE DEF row
  <2> QED BY <2>2, <2>3, <2>4
<1>6. post' \in [Posts -> PostRow] /\ post'[p] = row /\ (\A o \in Posts \ {p} : post'[o] = post[o]) /\ pc \in {"notice", "next"}
  BY <1>0, <1>2, <1>5 DEF PostTyped
<1>7. PostTyped'
  <2>1. \A o \in Posts : post'[o].cur # Nil <=> post'[o].pc \in {"noroute", "insert", "announce"}
    BY <1>1, <1>2, <1>5, <1>6 DEF PostTyped
  <2> QED BY <1>1, <1>2, <1>4, <1>6, <2>1 DEF PostTyped
<1>8. \A o \in Posts : post'[o].conn = post[o].conn /\ post'[o].heard = post[o].heard /\ post'[o].since = post[o].since
  BY <1>5, <1>6
<1>9. /\ pc \in Later /\ pc \in Running /\ post[p].pc \in Running /\ pc \notin {"none", "box", "wire", "queue", "append", "announce", "done"}
      /\ post[p].pc \notin Later
  BY <1>1, <1>6, Places DEF Later
<1>10. LinesStay /\ PageStays
  BY <1>1, <1>5, <1>6, <1>8, <1>9, PostsAre DEF LinesStay, PageStays, Waiting
<1>11. \A o, q \in PagePosts : Overtakes(o, q)' <=> Overtakes(o, q)
  BY <1>8, PostsAre DEF Overtakes
\* Whose message is new is being appended.
<1>12. \A q \in PagePosts : \A j \in DOMAIN log' : log'[j].id = q /\ j \notin DOMAIN log => q = p
  <2>1. Id(p) \in PagePosts => Id(p) = p
    BY PostsAre
  <2>2. \A j \in DOMAIN log' : j \notin DOMAIN log => log'[j].id = Id(p)
    <3>1. \A j \in DOMAIN log' : j \notin DOMAIN log => log'[j] = m
      BY <1>4
    <3> QED BY <1>3, <3>1
  <2> QED BY <2>1, <2>2
<1>13. NoneOvertakes'
  <2>1. ASSUME NEW o \in PagePosts, NEW q \in PagePosts, post'[o].conn = post'[q].conn /\ post'[o].conn # 0,
               post'[o].pc \in Running /\ post'[q].pc \in Running
        PROVE  o = q
    <3>1. post[o].pc \in Running /\ post[q].pc \in Running
      BY <1>6, <1>9, <2>1, PostsAre
    <3> QED BY <1>2, <1>8, <2>1, <3>1, PostsAre DEF NoneOvertakes
  <2>2. ASSUME NEW o \in PagePosts, NEW q \in PagePosts, Overtakes(o, q)', Waiting(o)' PROVE post'[q].pc \notin Running
    <3>1. Waiting(o) /\ Overtakes(o, q)
      BY <1>5, <1>6, <1>9, <1>11, <2>2, PostsAre DEF Waiting
    <3> QED BY <1>2, <1>6, <1>9, <3>1, PostsAre DEF NoneOvertakes
  <2>3. ASSUME NEW o \in PagePosts, NEW q \in PagePosts, Overtakes(o, q)', Waiting(o)' \/ post'[o].pc = "append",
               NEW j \in DOMAIN log', log'[j].id = q
        PROVE  FALSE
    <3>1. (Waiting(o) \/ post[o].pc = "append") /\ Overtakes(o, q) /\ o # p
      BY <1>5, <1>6, <1>9, <1>11, <2>3, PostsAre DEF Waiting
    <3>2. j \notin DOMAIN log
      BY <1>2, <1>4, <2>3, <3>1 DEF NoneOvertakes
    <3>3. q = p
      BY <1>12, <2>3, <3>2
    <3>4. post[o].pc = "append"
      BY <1>2, <1>9, <3>1, <3>3 DEF NoneOvertakes
    <3>5. o = q
      BY <1>1, <1>2, <1>9, <3>1, <3>3, <3>4 DEF NoneOvertakes, Overtakes
    <3> QED BY <3>1, <3>3, <3>5
  <2> QED BY <2>1, <2>2, <2>3 DEF NoneOvertakes
<1>14. LogHolds'
  <2>1. ASSUME NEW q \in PagePosts, NEW j \in DOMAIN log', log'[j].id = q PROVE post'[q].pc \in Later \cup {"failed", "dead"}
    <3>1. CASE q = p
      BY <1>5, <1>6, <1>9, <3>1
    <3>2. CASE q # p
      <4>1. j \in DOMAIN log /\ log[j].id = q
        BY <1>4, <1>12, <2>1, <3>2
      <4> QED BY <1>2, <1>6, <3>2, <4>1, PostsAre DEF LogHolds
    <3> QED BY <3>1, <3>2
  <2>2. ASSUME NEW o \in Posts, post'[o].pc \in Later PROVE \E i \in DOMAIN log' : log'[i].id = Id(o)
    <3>1. CASE o = p
      BY <1>4, <3>1
    <3>2. CASE o # p
      <4>1. PICK i \in DOMAIN log : log[i].id = Id(o)
        BY <1>2, <1>6, <2>2, <3>2 DEF LogHolds
      <4> QED BY <1>4, <4>1
    <3> QED BY <3>1, <3>2
  <2> QED BY <1>4, <2>1, <2>2 DEF LogHolds
<1>15. \A i \in DOMAIN log' : i \notin DOMAIN log => i = Len(log) + 1
  BY <1>4
<1>16. Len(log) \in Nat /\ (\A i \in DOMAIN log : i \in Nat /\ i <= Len(log)) /\ Own \subseteq DOMAIN log /\ Tagging \subseteq DOMAIN log
       /\ Others \subseteq DOMAIN log /\ IsFiniteSet(DOMAIN log)
  BY <1>2, TagsAre
<1>17. InOrder'
  <2> SUFFICES ASSUME NEW o \in PagePosts, NEW q \in PagePosts, Overtakes(o, q)',
                      NEW i \in DOMAIN log', NEW j \in DOMAIN log', log'[i].id = o, log'[j].id = q
               PROVE  i < j
    BY DEF InOrder, Overtakes
  <2>1. Overtakes(o, q) /\ o # q
    <3>1. o < q /\ o \in Nat /\ q \in Nat
      BY <1>11, PostsAre DEF Overtakes
    <3> QED BY <1>11, <3>1
  <2>2. CASE i \in DOMAIN log /\ j \in DOMAIN log
    BY <1>2, <1>4, <2>1, <2>2 DEF InOrder, Overtakes
  <2>3. CASE i \in DOMAIN log /\ j \notin DOMAIN log
    <3>1. j = Len(log) + 1 /\ i <= Len(log) /\ Len(log) \in Nat /\ i \in Nat
      BY <1>15, <1>16, <2>3
    <3> QED BY <3>1
  <2>4. CASE i \notin DOMAIN log /\ j \in DOMAIN log
    <3>1. o = p /\ log[j].id = q
      BY <1>4, <1>12, <2>4
    <3> QED BY <1>1, <1>2, <2>1, <2>4, <3>1 DEF NoneOvertakes
  <2>5. CASE i \notin DOMAIN log /\ j \notin DOMAIN log
    BY <1>12, <2>1, <2>5
  <2> QED BY <2>2, <2>3, <2>4, <2>5
<1>18. SummonsHold'
  <2>1. \A s \in told' \ told : s[1] # "summon"
    BY <1>1
  <2>2. post[p].pc # "announce" /\ post'[p].pc # "announce"
    BY <1>1, <1>5, <1>6, <1>9
  <2>3. UNCHANGED <<turns, stranded>> /\ told \subseteq told'
    BY <1>1
  <2> QED BY <1>2, <1>6, <2>1, <2>2, <2>3, SummonsKept
<1>19. TagsHold'
  <2>1. ASSUME NEW o \in Posts, o # p PROVE TagsOf(o)'
    <3>1. ASSUME post[o].pc \in Later PROVE Called(Id(o), log') = Called(Id(o), log)
      <4>1. PICK i \in DOMAIN log : log[i].id = Id(o)
        BY <1>2, <3>1 DEF LogHolds
      <4>2. Said(log[i].id, log) = log[i]
        BY <1>2, SaidIs DEF LogHolds
      <4>3. i \in DOMAIN log' /\ log'[i] = log[i]
        BY <1>4
      <4>4. Said(log'[i].id, log') = log'[i]
        BY <1>4, <4>3, SaidIs
      <4> QED BY <4>1, <4>2, <4>3, <4>4 DEF Called
    <3>2. Called(Id(o), log)' = Called(Id(o), log')
      OBVIOUS
    <3>3. \A a : Answered(Id(o), a)' <=> Answered(Id(o), a)
      BY <1>1 DEF Answered
    <3>4. post'[o] = post[o] /\ TagsOf(o) /\ told' = told
      BY <1>1, <1>2, <1>6, <2>1 DEF TagsHold
    <3> QED BY <3>1, <3>2, <3>3, <3>4 DEF TagsOf
  <2>2. TagsOf(p)'
    <3>1. Called(Id(p), log)' = called
      BY <1>0
    <3>2. post'[p].todo = called \cap Agents /\ post'[p].pc = pc /\ (Stranger \in called => pc = "notice") /\ pc # "done"
      BY <1>0, <1>5, <1>6
    <3> QED BY <3>1, <3>2 DEF TagsOf
  <2> QED BY <2>1, <2>2 DEF TagsHold
<1>20. Own \subseteq Own' /\ Tagging \subseteq Tagging' /\ Others \subseteq Others' /\ Tagging' \subseteq DOMAIN log'
       /\ Others' \subseteq DOMAIN log' /\ \A i \in DOMAIN log : (i \in Own' <=> i \in Own) /\ (i \in Tagging' <=> i \in Tagging)
  BY <1>4 DEF Own, Tagging, Others
<1>21. ASSUME NEW i, NEW h, NEW t, Missed(i, h, t) PROVE Missed(i, h, t)'
  <2>1. IsFiniteSet(DOMAIN log')
    BY <1>4, FS_Interval
  <2>2. CASE Cardinality(Between(Tagging, i, h)) >= TagLimit
    <3>1. Cardinality(Between(Tagging', i, h)) >= TagLimit
      BY <1>20, <2>1, <2>2, PostsAre, MoreBetween
    <3> QED BY <3>1 DEF Missed, PushedOut, Between
  <2>3. CASE Cardinality(Between(Others, i, h)) >= ScanLimit
    <3>1. Cardinality(Between(Others', i, h)) >= ScanLimit
      BY <1>20, <2>1, <2>3, PostsAre, MoreBetween
    <3> QED BY <3>1 DEF Missed, PushedOut, Between
  <2> QED BY <1>21, <2>2, <2>3 DEF Missed, PushedOut
<1>22. \A o \in Posts : post'[o].pc # "none" <=> post[o].pc # "none"
  BY <1>1, <1>5, <1>6, <1>9
<1>23. ASSUME NEW i, Cleared(i) PROVE Cleared(i)'
  <2>1. PICK o \in DoorPosts, j \in Own :
            log[j].id = Id(o) /\ i < j /\ post[o].pc # "none" /\ Missed(i, post[o].heard, post[o].since)
    BY <1>23 DEF Cleared
  <2>2. j \in Own' /\ log'[j] = log[j]
    BY <1>4, <1>16, <1>20, <2>1
  <2>3. PICK h, t : h = post[o].heard /\ t = post[o].since
    OBVIOUS
  <2>4. post'[o].heard = h /\ post'[o].since = t /\ post'[o].pc # "none"
    BY <1>8, <1>22, <2>1, <2>3, PostsAre
  <2>5. Missed(i, h, t)'
    BY <1>21, <2>1, <2>3
  <2>6. Missed(i, post[o].heard, post[o].since)'
    BY <2>4, <2>5 DEF Missed, PushedOut
  <2> QED BY <2>1, <2>2, <2>4, <2>6 DEF Cleared
<1>24. BotHolds'
  <2>1. \A o \in Posts : post'[o].heard <= Len(log')
    <3> SUFFICES ASSUME NEW o \in Posts PROVE post'[o].heard <= Len(log')
      OBVIOUS
    <3>1. post'[o].heard = post[o].heard /\ post[o].heard <= Len(log) /\ post[o].heard \in Nat
      BY <1>2, <1>8, PostPlace DEF BotHolds
    <3> QED BY <1>4, <1>16, <3>1
  <2>2. ASSUME NEW i \in Tagging', log'[i].id \notin given', NEW j \in Own', i < j PROVE Cleared(i)'
    <3>1. i \in DOMAIN log' /\ j \in DOMAIN log' /\ i \in Nat /\ j \in Nat
      BY <1>4, <1>20 DEF Own
    <3>2. i \in DOMAIN log
      <4>1. i # Len(log) + 1
        <5>1. j <= Len(log) + 1
          BY <1>15, <1>16, <3>1
        <5> QED BY <1>16, <2>2, <3>1, <5>1
      <4> QED BY <1>15, <3>1, <4>1
    <3>3. i \in Tagging /\ log[i].id \notin given
      BY <1>1, <1>4, <1>20, <2>2, <3>2
    <3>4. CASE j \in DOMAIN log
      BY <1>2, <1>20, <1>23, <2>2, <3>3, <3>4 DEF BotHolds
    <3>5. CASE j \notin DOMAIN log
      <4>1. log'[j] = m /\ By(p) = Bot
        BY <1>3, <1>4, <2>2, <3>1, <3>5 DEF Own
      <4>2. p \in DoorPosts /\ post[p].pc # "none" /\ log'[j].id = Id(p)
        BY <1>1, <1>3, <4>1, PostsAre
      <4>3. PICK h, t : h = post[p].heard /\ t = post[p].since /\ h \in Nat
        BY <1>2, PostPlace
      <4>4. Cleared(i) \/ Missed(i, h, t)
        <5>1. h < i \/ i <= h
          BY <3>1, <4>3
        <5>2. CASE i <= h
          BY <1>2, <3>3, <4>1, <4>2, <4>3, <5>2 DEF BotHolds
        <5> QED BY <5>1, <5>2 DEF Missed
      <4>5. ASSUME Missed(i, h, t) PROVE Cleared(i)'
        <5>1. Missed(i, h, t)'
          BY <1>21, <4>5
        <5>2. post'[p].heard = h /\ post'[p].since = t
          BY <1>8, <4>3
        <5>3. Missed(i, post[p].heard, post[p].since)'
          BY <5>1, <5>2 DEF Missed, PushedOut
        <5>4. post'[p].pc # "none"
          BY <1>22, <4>2
        <5> QED BY <2>2, <4>2, <5>3, <5>4 DEF Cleared
      <4> QED BY <1>23, <4>4, <4>5
    <3> QED BY <3>4, <3>5
  <2>3. ASSUME NEW o \in DoorPosts, NEW i \in Tagging', By(o) = Bot, post'[o].pc # "none", i <= post'[o].heard, log'[i].id \notin given'
        PROVE  (Cleared(i) \/ Missed(i, post[o].heard, post[o].since))'
    <3>1. PICK h, t : h = post[o].heard /\ t = post[o].since /\ h \in Nat /\ h <= Len(log)
      BY <1>2, PostPlace, PostsAre DEF BotHolds
    <3>2. post'[o].heard = h /\ post'[o].since = t /\ o \in Posts /\ post[o].pc # "none"
      BY <1>8, <1>22, <2>3, <3>1, PostsAre
    <3>3. i \in DOMAIN log
      <4>1. i \in DOMAIN log' /\ i \in Nat
        BY <1>4, <1>20
      <4>2. i # Len(log) + 1
        BY <1>16, <2>3, <3>1, <3>2, <4>1
      <4> QED BY <1>15, <4>1, <4>2
    <3>4. i \in Tagging /\ log[i].id \notin given
      BY <1>1, <1>4, <1>20, <2>3, <3>3
    <3>5. Cleared(i) \/ Missed(i, h, t)
      BY <1>2, <2>3, <3>1, <3>2, <3>4 DEF BotHolds
    <3>6. Cleared(i)' \/ Missed(i, h, t)'
      BY <1>21, <1>23, <3>5
    <3> QED BY <3>2, <3>6 DEF Missed, PushedOut
  <2> QED BY <2>1, <2>2, <2>3 DEF BotHolds
<1> QED BY <1>2, <1>7, <1>10, <1>13, <1>14, <1>17, <1>18, <1>19, <1>24, PageStaysHolds, LinesStayHold DEF PostInv
-----------------------------------------------------------------------------
(* Together. *)

\* At first nobody has said anything.
LEMMA PostBegins == PostInit => PostInv
<1> SUFFICES ASSUME PostInit PROVE PostInv
  OBVIOUS
<1> DEFINE row == [pc |-> "none", conn |-> 0, todo |-> {}, cur |-> Nil, heard |-> 0, since |-> 0]
           line == [wire |-> <<>>, queue |-> <<>>, accepted |-> "opening"]
<1>1. row \in PostRow
  BY PostingAssumption, Places DEF PostRow, Early
<1>2. line \in SocketRow
  <2>1. <<>> \in Seq(PagePosts)
    OBVIOUS
  <2> QED BY <2>1 DEF SocketRow
<1>3. page \in PageRow
  BY PostingAssumption DEF PostInit, PageRow
<1>4. socket = [c \in Conns |-> line] /\ post = [p \in Posts |-> row]
  BY DEF PostInit
<1>5. /\ \A c \in Conns : socket[c].wire = <<>> /\ socket[c].queue = <<>>
      /\ \A p \in Posts : post[p].pc = "none" /\ post[p].conn = 0 /\ post[p].cur = Nil /\ post[p].heard = 0
  BY <1>4
<1> HIDE DEF row, line
<1>6. /\ stranded = {} /\ acted = 0 /\ log = <<>> /\ told = {} /\ turns = [s \in Ids \X Agents |-> 0] /\ attended = {} /\ given = {} /\ postFaults = 0
      /\ page.box = Nil /\ page.stopped = FALSE /\ page.up = FALSE
  BY DEF PostInit
<1>7. PostTyped
  <2>1. socket \in [Conns -> SocketRow] /\ post \in [Posts -> PostRow]
    BY <1>1, <1>2, <1>4
  <2>2. <<>> \in Seq(Message) /\ turns \in [Ids \X Agents -> Nat]
    BY <1>6
  <2>3. postFaults \in 0..MaxPostFaults
    BY <1>6, PostsAre
  <2>4. \A p \in Posts : post[p].cur # Nil <=> post[p].pc \in {"noroute", "insert", "announce"}
    BY <1>5
  <2> QED BY <1>3, <1>6, <2>1, <2>2, <2>3, <2>4 DEF PostTyped
<1>8. PageHolds
  BY <1>5, <1>6, PostsAre DEF PageHolds
<1>9. LinesHold
  BY <1>5, NothingIn, PostsAre DEF LinesHold, Waiting, Behind
<1>10. DOMAIN log = {} /\ Len(log) = 0
  BY <1>6
<1>11. "none" \notin Running /\ "none" \notin Later
  BY Places DEF Early, Later
<1>12. NoneOvertakes /\ LogHolds /\ InOrder /\ TagsHold
  BY <1>5, <1>10, <1>11, PostsAre DEF NoneOvertakes, LogHolds, InOrder, TagsHold, TagsOf, Overtakes
<1>13. SummonsHold
  BY <1>5, <1>6 DEF SummonsHold, Unstarted
<1>14. BotHolds
  BY <1>5, <1>10 DEF BotHolds, Own, Tagging, Others
<1> QED BY <1>7, <1>8, <1>9, <1>12, <1>13, <1>14 DEF PostInv

\* Bot acts elsewhere, which nothing of the posts is about.
LEMMA ActElsewhereHolds == ASSUME PostInv, ActElsewhere PROVE PostInv'
<1>1. /\ UNCHANGED <<page, socket, post, log, told, turns, stranded, attended, given, postFaults>>
      /\ acted' = Len(log) /\ Len(log) \in Nat
  BY TagsAre DEF ActElsewhere, PostInv
<1>2. PostTyped /\ PageHolds /\ LinesHold /\ NoneOvertakes /\ BotHolds
  BY DEF PostInv
<1>3. PostTyped'
  BY <1>1, <1>2 DEF PostTyped
<1>4. AsideStep
  BY <1>1, <1>2, PostPlace DEF AsideStep, Aside, PostTyped
<1>5. LinesStay /\ NoneStarts /\ PageStays
  BY <1>1 DEF LinesStay, NoneStarts, PageStays, Waiting
<1>6. BotHolds'
  BY <1>1, <1>2, <1>4, AsideBot
<1> QED BY <1>1, <1>2, <1>3, <1>4, <1>5, <1>6, PageStaysHolds, LinesStayHold, NoneStartsHolds, AsideHolds

\* Every step keeps the invariant.
LEMMA PostSteps == PostInv /\ [PostNext]_postVars => PostInv'
<1> SUFFICES ASSUME PostInv, [PostNext]_postVars PROVE PostInv'
  OBVIOUS
<1>1. CASE \E p \in PagePosts : Write(p)
  BY <1>1, WriteHolds
<1>2. CASE Connect \/ Submit \/ Drop \/ ShowRefusal \/ Receive
  BY <1>2, ConnectHolds, SubmitHolds, DropHolds, ShowRefusalHolds, ReceiveHolds
<1>3. CASE \E c \in Conns : Take(c) \/ \E how \in {"yes", "refused", "failed"} : Settle(c, how)
  BY <1>3, TakeHolds, SettleHolds
<1>4. CASE \E p \in DoorPosts : Call(p)
  BY <1>4, CallHolds
<1>5. CASE \E p \in Posts : CommandStep(p) \/ FailPost(p)
  BY <1>5, AppendMessageHolds, AppendNoticeHolds, BeginSummonHolds, AppendNoRouteHolds, AppendSummonHolds, DeferTurnHolds,
     EndPostHolds, FailPostHolds DEF CommandStep
<1>6. CASE CrashServer
  BY <1>6, CrashServerHolds
<1>7. CASE UNCHANGED postVars
  <2>1. UNCHANGED <<page, socket, post, log, told, turns, stranded, acted, attended, given, postFaults>>
    BY <1>7 DEF postVars
  <2>2. PostTyped /\ PageHolds /\ LinesHold /\ NoneOvertakes /\ BotHolds
    BY DEF PostInv
  <2>3. PostTyped'
    BY <2>1, <2>2 DEF PostTyped
  <2>4. AsideStep
    BY <2>1, <2>2, PostPlace DEF AsideStep, Aside, PostTyped
  <2>5. LinesStay /\ NoneStarts /\ PageStays
    BY <2>1 DEF LinesStay, NoneStarts, PageStays, Waiting
  <2>6. BotHolds'
    BY <2>1, <2>2, <2>4, AsideBot
  <2> QED BY <2>1, <2>2, <2>3, <2>4, <2>5, <2>6, PageStaysHolds, LinesStayHold, NoneStartsHolds, AsideHolds
<1> QED BY <1>1, <1>2, <1>3, <1>4, <1>5, <1>6, <1>7, ActElsewhereHolds DEF PostNext

\* The posts keep their invariant.
LEMMA PostInvHolds == PostSpec => []PostInv
<1> QED BY PostBegins, PostSteps, PTL DEF PostSpec

\* The invariant says what the posts promise.
LEMMA InvSaysPostsHold == PostInv => PostsHold
<1> SUFFICES ASSUME PostInv PROVE PostsHold
  OBVIOUS
<1>1. PostTyped /\ PageHolds /\ LogHolds /\ InOrder /\ SummonsHold /\ TagsHold /\ BotHolds
  BY DEF PostInv
<1>2. RetriesAreSafe
  <2> DEFINE Announcing == {<<Id(p), post[p].cur>> : p \in {q \in Posts : post[q].pc = "announce"}}
  <2>1. Unstarted \subseteq stranded \cup Announcing
    BY <1>1 DEF SummonsHold, Announces
  <2>2. ASSUME NEW p \in Posts, post[p].pc = "announce" PROVE <<Id(p), post[p].cur>> \in Unstarted
    <3>1. post[p].cur \in Agents
      BY <1>1, <2>2, PostPlace DEF PostTyped
    <3> QED BY <1>1, <2>2, <3>1, PostsAre DEF SummonsHold, Unstarted
  <2>3. stranded \cup Announcing \subseteq Unstarted
    BY <1>1, <2>2 DEF SummonsHold
  <2>4. SummonsStart
    BY <1>1, <2>1, <2>3 DEF SummonsStart, SummonsHold
  <2> QED BY <1>1, <2>4 DEF RetriesAreSafe, SaidOnce, LogHolds, SummonsHold
<1>3. TextIsSomewhere
  <2> SUFFICES ASSUME NEW p \in PagePosts, post[p].pc \notin {"none", "box", "wire", "queue"}
               PROVE  \/ page.box = p \/ post[p].pc \in Running
                      \/ \E i \in DOMAIN log : log[i].id = p
                      \/ post[p].pc \in {"failed", "dead"}
                      \/ post[p].pc \in {"lost", "dropped"} /\ (~page.stopped \/ p # page.pending \/ page.box # Nil)
    BY DEF TextIsSomewhere
  <2>1. p \in Posts /\ Id(p) = p /\ p # Nil /\ post[p].pc \in Pcs
    BY <1>1, PostPlace, PostsAre DEF Nil
  <2>2. post[p].pc \in Running \cup {"done", "failed", "dead", "lost", "dropped"}
    BY <2>1, Places DEF Early
  <2>3. CASE post[p].pc = "done"
    <3>1. post[p].pc \in Later
      BY <2>3 DEF Later
    <3> QED BY <1>1, <2>1, <3>1 DEF LogHolds
  <2>4. CASE post[p].pc \in {"lost", "dropped"}
    BY <1>1, <2>1, <2>4 DEF PageHolds
  <2> QED BY <2>2, <2>3, <2>4
<1>4. TagsAnswered
  <2> SUFFICES ASSUME NEW p \in Posts, post[p].pc = "done", By(p) \notin Agents
               PROVE  /\ \A a \in Called(Id(p), log) \cap Agents : Answered(Id(p), a)
                      /\ Stranger \in Called(Id(p), log) => <<"unknown", Id(p), Nil>> \in told
    BY DEF TagsAnswered
  <2>1. TagsOf(p) /\ "done" \in Later
    BY <1>1 DEF TagsHold, Later
  <2> QED BY <2>1 DEF TagsOf
<1>5. TagsReachBot
  BY <1>1 DEF BotHolds, TagsReachBot, Cleared, Missed, PushedOut, Between
<1> QED BY <1>1, <1>2, <1>3, <1>4, <1>5 DEF PostsHold, PostsArrive

(* A message that is said again and again is in the log once, in the order   *)
(* it was typed, with at most one summon and one turn for each it named, and *)
(* a summon without a turn is one that a fault stranded; no text is lost     *)
(* without a reason, and no tag before Bot's listing but to its limits or to *)
(* an event of Bot's own (Room.tsx, server.ts, commands/postMessage.ts,      *)
(* commands/summon.ts, mentions.ts).                                         *)
THEOREM PostsHoldHolds == PostSpec => []PostsHold
<1> QED BY PostInvHolds, InvSaysPostsHold, PTL
-----------------------------------------------------------------------------
(* The audit chain. *)

Triples == {0, 1} \X {0, 1} \X Commitments
EventRow == [state : {"none", "pending", "in", "deleted"}, body : {0, 1}, envelope : {0, 1}]
AnchorRow == [pc : {"idle", "locked", "head", "append", "over"}, head : History, todo : SUBSET Commitments, saw : SUBSET Commitments]

AuditTyped ==
    /\ event \in [Commitments -> EventRow] /\ chain \in Seq(Row) /\ anchor \in [Anchors -> AnchorRow]
    /\ \A a \in Anchors : anchor[a].todo \subseteq anchor[a].saw
    /\ roots \subseteq History /\ damages \in 0..MaxDamages /\ anchorCrashes \in 0..MaxAnchorCrashes

\* What is chained up to a row, as it was made.
Past(i) == [k \in 1..i |-> <<0, 0, chain[k].source>>]

\* Until it is damaged, the chain holds commitments that are there, as they were made, once each, and every entry is its history.
ChainClean == damages = 0 =>
    /\ \A e \in Commitments : event[e].body = 0 /\ event[e].envelope = 0
    /\ \A i \in DOMAIN chain : /\ chain[i].body = 0 /\ chain[i].envelope = 0 /\ event[chain[i].source].state = "in"
                               /\ chain[i].prev = Past(i - 1) /\ chain[i].entry = Past(i)
    /\ \A i, j \in DOMAIN chain : chain[i].source = chain[j].source => i = j

\* One anchor runs at a time.
OneAnchors == \A a, b \in Anchors : a # b => anchor[a].pc \in {"idle", "over"} \/ anchor[b].pc \in {"idle", "over"}

\* What an anchor has read is still so.
AnchorsRead == damages = 0 => \A a \in Anchors :
    /\ anchor[a].pc \in {"head", "append"} => anchor[a].head = HeadEntry
    /\ anchor[a].pc = "append" => /\ anchor[a].todo \cap Chained = {} /\ anchor[a].saw \subseteq Chained \cup anchor[a].todo
                                  /\ \A e \in anchor[a].todo : event[e].state = "in"
    /\ anchor[a].pc = "over" => anchor[a].saw \subseteq Chained

\* Nothing else than what was made is behind a root that was sent out.
RootsClean == \A root \in roots : \A k \in DOMAIN root : root[k][1] = 0 /\ root[k][2] = 0

AuditInv == AuditTyped /\ ChainClean /\ OneAnchors /\ AnchorsRead /\ RootsClean

\* A history is a sequence of what was chained.
LEMMA HistoryIs == History = Seq(Triples) /\ Genesis \in History /\ Genesis = <<>>
BY DEF History, Triples, Genesis

\* What is chained: the body, the envelope and the source.
LEMMA TripleIs == \A b, v \in {0, 1}, e \in Commitments :
    <<b, v, e>> \in Triples /\ <<b, v, e>>[1] = b /\ <<b, v, e>>[2] = v /\ <<b, v, e>>[3] = e
BY DEF Triples

\* The rows of the chain and of the table of anchors, and the events.
LEMMA ChainPlace == ASSUME AuditTyped
    PROVE  /\ Len(chain) \in Nat /\ DOMAIN chain = 1..Len(chain)
           /\ \A i \in DOMAIN chain : /\ chain[i] \in Row /\ chain[i].source \in Commitments /\ chain[i].body \in {0, 1}
                                      /\ chain[i].envelope \in {0, 1} /\ chain[i].prev \in History /\ chain[i].entry \in History
           /\ \A a \in Anchors : /\ anchor[a] \in AnchorRow /\ anchor[a].head \in History
                                 /\ anchor[a].pc \in {"idle", "locked", "head", "append", "over"}
                                 /\ anchor[a].todo \in SUBSET Commitments /\ anchor[a].saw \in SUBSET Commitments
           /\ \A e \in Commitments : /\ event[e] \in EventRow /\ event[e].body \in {0, 1} /\ event[e].envelope \in {0, 1}
                                     /\ event[e].state \in {"none", "pending", "in", "deleted"}
<1>1. Len(chain) \in Nat /\ DOMAIN chain = 1..Len(chain) /\ \A i \in DOMAIN chain : chain[i] \in Row
  <2>1. chain \in Seq(Row)
    BY DEF AuditTyped
  <2> QED BY <2>1, LenProperties, ElementOfSeq
<1>2. \A r \in Row : r.source \in Commitments /\ r.body \in {0, 1} /\ r.envelope \in {0, 1} /\ r.prev \in History /\ r.entry \in History
  BY DEF Row
<1>3. \A r \in AnchorRow : /\ r.head \in History /\ r.pc \in {"idle", "locked", "head", "append", "over"}
                           /\ r.todo \in SUBSET Commitments /\ r.saw \in SUBSET Commitments
  BY DEF AnchorRow
<1>4. \A r \in EventRow : r.body \in {0, 1} /\ r.envelope \in {0, 1} /\ r.state \in {"none", "pending", "in", "deleted"}
  BY DEF EventRow
<1>5. (\A a \in Anchors : anchor[a] \in AnchorRow) /\ \A e \in Commitments : event[e] \in EventRow
  BY DEF AuditTyped
<1> QED BY <1>1, <1>2, <1>3, <1>4, <1>5

\* The past of a chain is a history.
LEMMA PastIs == ASSUME AuditTyped, NEW i \in 0..Len(chain)
    PROVE  Past(i) \in Seq(Triples) /\ Len(Past(i)) = i /\ \A k \in 1..i : Past(i)[k] = <<0, 0, chain[k].source>>
<1>1. Len(chain) \in Nat /\ \A k \in 1..i : k \in DOMAIN chain /\ chain[k].source \in Commitments
  BY ChainPlace
<1>2. \A k \in 1..i : <<0, 0, chain[k].source>> \in Triples
  BY <1>1, TripleIs
<1>3. Past(i) = [k \in 1..i |-> <<0, 0, chain[k].source>>] /\ i \in Nat
  BY <1>1 DEF Past
<1>4. Past(i) \in [1..i -> Triples]
  BY <1>2, <1>3
<1>5. Past(i) \in Seq(Triples)
  BY <1>3, <1>4
<1>6. DOMAIN Past(i) = 1..i
  BY <1>3
<1>7. Len(Past(i)) = i
  BY <1>3, <1>5, <1>6, LenProperties
<1> QED BY <1>3, <1>5, <1>7

\* The i-th row made behind a head for the commitments of a sequence.
LinkedRow(r, head, s, i) ==
    /\ r.source = s[i] /\ r.body = event[s[i]].body /\ r.envelope = event[s[i]].envelope
    /\ r.prev \in History /\ r.entry = Append(r.prev, <<r.body, r.envelope, r.source>>)
    /\ Len(r.prev) = Len(head) + (i - 1)
    /\ \A k \in 1..Len(head) : r.prev[k] = head[k]
    /\ \A k \in 1..(i - 1) : r.prev[Len(head) + k] = <<event[s[k]].body, event[s[k]].envelope, s[k]>>

\* The rows an anchor makes: each takes up where the one before it ends.
LEMMA RowsAre == ASSUME AuditTyped, NEW head \in History, NEW S \in SUBSET Commitments, NEW s \in InSeqOrder(S)
    PROVE  /\ RowsFor(head, s) \in Seq(Row) /\ Len(RowsFor(head, s)) = Len(s) /\ Len(s) \in Nat /\ DOMAIN s = 1..Len(s)
           /\ (\A e \in S : \E i \in 1..Len(s) : s[i] = e) /\ (\A i \in 1..Len(s) : s[i] \in S)
           /\ \A i, j \in 1..Len(s) : s[i] = s[j] => i = j
           /\ \A i \in 1..Len(s) : LinkedRow(RowsFor(head, s)[i], head, s, i)
<1>1. S \subseteq Nat /\ IsFiniteSet(S) /\ Cardinality(S) \in Nat
  <2>1. IsFiniteSet(S)
    BY AuditAssumption, FS_Subset
  <2> QED BY <2>1, AuditAssumption, FS_CardinalityType
<1>2. /\ s \in [1..Cardinality(S) -> S] /\ (\A e \in S : \E i \in DOMAIN s : s[i] = e)
      /\ \A i, j \in DOMAIN s : i < j => s[i] < s[j]
  BY DEF InSeqOrder, Range
<1>3. s \in Seq(S) /\ Len(s) = Cardinality(S) /\ DOMAIN s = 1..Len(s) /\ \A i \in 1..Len(s) : s[i] \in S /\ s[i] \in Commitments
  <2>1. s \in Seq(S)
    BY <1>1, <1>2
  <2>2. DOMAIN s = 1..Cardinality(S) /\ DOMAIN s = 1..Len(s) /\ Len(s) \in Nat
    BY <1>2, <2>1, LenProperties
  <2>3. Len(s) = Cardinality(S)
    BY <1>1, <2>2
  <2> QED BY <1>2, <2>1, <2>2, <2>3
<1> DEFINE n == Len(s)
           link(i) == <<event[s[i]].body, event[s[i]].envelope, s[i]>>
           before(i) == LinkedTo(head, SubSeq(s, 1, i - 1))
           rows == RowsFor(head, s)
           row(i) == [source |-> s[i], body |-> event[s[i]].body, envelope |-> event[s[i]].envelope, prev |-> before(i),
                      entry |-> Entry(before(i), event[s[i]].body, event[s[i]].envelope, s[i])]
<1>4. n \in Nat
  BY <1>1, <1>3
<1>5. \A i \in 1..n : event[s[i]].body \in {0, 1} /\ event[s[i]].envelope \in {0, 1} /\ link(i) \in Triples
  BY <1>3, ChainPlace, TripleIs
<1>6. ASSUME NEW i \in 1..n
      PROVE  /\ before(i) \in Seq(Triples) /\ Len(before(i)) = Len(head) + (i - 1)
             /\ \A k \in 1..Len(head) : before(i)[k] = head[k]
             /\ \A k \in 1..(i - 1) : before(i)[Len(head) + k] = link(k)
  <2> DEFINE t == SubSeq(s, 1, i - 1)
             u == [k \in DOMAIN t |-> <<event[t[k]].body, event[t[k]].envelope, t[k]>>]
  <2>1. i - 1 \in Nat /\ i \in Nat /\ 1..(i - 1) \subseteq 1..n
    BY <1>4, <1>6
  <2>2. t \in Seq(S) /\ Len(t) = i - 1 /\ DOMAIN t = 1..(i - 1) /\ \A k \in 1..(i - 1) : t[k] = s[k]
    <3>1. \A k \in 1..(i - 1) : s[k] \in S
      BY <1>3, <2>1
    <3>2. t \in Seq(S) /\ Len(t) = (IF 1 <= i - 1 THEN (i - 1) - 1 + 1 ELSE 0) /\ \A k \in 1..((i - 1) - 1 + 1) : t[k] = s[1 + k - 1]
      BY <2>1, <3>1, SubSeqProperties
    <3> HIDE DEF t
    <3>3. Len(t) = i - 1
      BY <2>1, <3>2
    <3>4. \A k \in 1..(i - 1) : t[k] = s[k]
      BY <2>1, <3>2
    <3> QED BY <3>2, <3>3, <3>4, LenProperties
  <2> HIDE DEF t
  <2>3. u = [k \in 1..(i - 1) |-> link(k)]
    BY <2>2
  <2> HIDE DEF u
  <2>4. u \in [1..(i - 1) -> Triples]
    BY <1>5, <2>1, <2>3
  <2>5. u \in Seq(Triples)
    BY <2>1, <2>4
  <2>6. Len(u) = i - 1
    <3>1. DOMAIN u = 1..(i - 1) /\ DOMAIN u = 1..Len(u) /\ Len(u) \in Nat
      BY <2>4, <2>5, LenProperties
    <3> QED BY <2>1, <3>1
  <2>7. before(i) = head \o u
    BY DEF LinkedTo, u, t
  <2>8. head \in Seq(Triples) /\ Len(head) \in Nat
    BY HistoryIs, LenProperties
  <2>9. /\ before(i) \in Seq(Triples) /\ Len(before(i)) = Len(head) + Len(u)
        /\ \A k \in 1..(Len(head) + Len(u)) : before(i)[k] = IF k <= Len(head) THEN head[k] ELSE u[k - Len(head)]
    BY <2>5, <2>7, <2>8, ConcatProperties, ZenonT(60)
  <2> HIDE DEF before, link
  <2>10. ASSUME NEW k \in 1..Len(head) PROVE before(i)[k] = head[k]
    BY <2>1, <2>6, <2>8, <2>9
  <2>11. ASSUME NEW k \in 1..(i - 1) PROVE before(i)[Len(head) + k] = link(k)
    <3>1. Len(head) + k \in 1..(Len(head) + Len(u)) /\ ~(Len(head) + k <= Len(head)) /\ (Len(head) + k) - Len(head) = k
      BY <2>1, <2>6, <2>8
    <3>2. before(i)[Len(head) + k] = u[k]
      BY <2>9, <3>1
    <3> QED BY <2>3, <3>2
  <2> QED BY <2>6, <2>9, <2>10, <2>11
<1> HIDE DEF before
<1>7. rows = [i \in 1..n |-> row(i)]
  BY <1>3 DEF RowsFor, before
<1>8. ASSUME NEW i \in 1..n
      PROVE  /\ row(i) \in Row /\ row(i).entry = Append(before(i), link(i)) /\ row(i).source = s[i] /\ row(i).body = event[s[i]].body
             /\ row(i).envelope = event[s[i]].envelope /\ row(i).prev = before(i)
  <2>1. before(i) \in History /\ s[i] \in Commitments /\ event[s[i]].body \in {0, 1} /\ event[s[i]].envelope \in {0, 1}
    BY <1>3, <1>5, <1>6, HistoryIs
  <2>2. Append(before(i), link(i)) \in History
    BY <1>5, <1>6, HistoryIs, AppendProperties
  <2> QED BY <2>1, <2>2 DEF Row, Entry
<1> HIDE DEF row
<1>9. rows \in [1..n -> Row]
  BY <1>7, <1>8
<1>10. rows \in Seq(Row)
  BY <1>4, <1>9
<1>11. Len(rows) = n
  <2>1. DOMAIN rows = 1..n /\ DOMAIN rows = 1..Len(rows) /\ Len(rows) \in Nat
    BY <1>9, <1>10, LenProperties
  <2> QED BY <1>4, <2>1
<1>12. \A i, j \in 1..n : s[i] = s[j] => i = j
  <2> SUFFICES ASSUME NEW i \in 1..n, NEW j \in 1..n, s[i] = s[j], i # j PROVE FALSE
    OBVIOUS
  <2>1. s[i] \in Nat /\ (i < j \/ j < i) /\ i \in DOMAIN s /\ j \in DOMAIN s
    <3>1. s[i] \in S /\ i \in DOMAIN s /\ j \in DOMAIN s
      BY <1>3
    <3>2. s[i] \in Nat
      BY <1>1, <3>1
    <3>3. i < j \/ j < i
      BY <1>4
    <3> QED BY <3>1, <3>2, <3>3
  <2>2. s[i] < s[j] \/ s[j] < s[i]
    BY <1>2, <2>1
  <2> HIDE DEF row, rows, link, n
  <2>3. ~(s[i] < s[i])
    BY <2>1
  <2> QED BY <2>2, <2>3
<1>13. \A i \in 1..n : rows[i] = row(i)
  BY <1>7
<1> HIDE DEF rows
<1>14. ASSUME NEW i \in 1..n
       PROVE  /\ rows[i].source = s[i] /\ rows[i].body = event[s[i]].body /\ rows[i].envelope = event[s[i]].envelope
              /\ rows[i].prev \in History /\ rows[i].entry = Append(rows[i].prev, <<rows[i].body, rows[i].envelope, rows[i].source>>)
              /\ Len(rows[i].prev) = Len(head) + (i - 1)
              /\ \A k \in 1..Len(head) : rows[i].prev[k] = head[k]
              /\ \A k \in 1..(i - 1) : rows[i].prev[Len(head) + k] = link(k)
  <2>1. rows[i] = row(i)
    BY <1>13
  <2>2. rows[i].source = s[i] /\ rows[i].body = event[s[i]].body /\ rows[i].envelope = event[s[i]].envelope /\ rows[i].prev = before(i)
    BY <1>8, <2>1
  <2>3. rows[i].entry = Append(before(i), link(i)) /\ link(i) = <<rows[i].body, rows[i].envelope, rows[i].source>>
    BY <1>8, <2>1, <2>2
  <2> HIDE DEF link
  <2> QED BY <1>6, <2>2, <2>3, HistoryIs
<1>15. \A i \in 1..n : LinkedRow(rows[i], head, s, i)
  BY <1>14 DEF LinkedRow
<1> QED BY <1>2, <1>3, <1>4, <1>10, <1>11, <1>12, <1>15 DEF rows
\* A history is the sources it was made from.
LEMMA MadeOf == ASSUME NEW h \in Seq(Triples), NEW c, NEW i \in Nat, Len(h) = i, \A k \in 1..i : h[k] = <<0, 0, c[k].source>>
    PROVE  h = [k \in 1..i |-> <<0, 0, c[k].source>>]
<1>1. h \in [1..i -> Triples]
  BY LenProperties
<1> QED BY <1>1

\* In an undamaged chain, the last entry is the whole past.
LEMMA HeadIs == ASSUME AuditInv, damages = 0 PROVE HeadEntry = Past(Len(chain)) /\ HeadEntry \in History
<1>1. AuditTyped /\ ChainClean
  BY DEF AuditInv
<1>2. Len(chain) \in Nat /\ DOMAIN chain = 1..Len(chain) /\ chain \in Seq(Row)
  BY <1>1, ChainPlace DEF AuditTyped
<1>3. CASE chain = <<>>
  <2>1. Len(chain) = 0
    BY <1>3
  <2>2. Past(0) = <<>>
    <3>1. Past(0) \in Seq(Triples) /\ Len(Past(0)) = 0
      BY <1>1, <2>1, PastIs
    <3> QED BY <3>1, EmptySeq
  <2> QED BY <1>3, <2>1, <2>2, HistoryIs DEF HeadEntry
<1>4. CASE chain # <<>>
  <2>1. Len(chain) \in 1..Len(chain)
    <3>1. Len(chain) \in Nat \ {0}
      BY <1>2, <1>4, EmptySeq
    <3> QED BY <3>1
  <2> QED BY <1>1, <1>2, <1>4, <2>1, ChainPlace DEF HeadEntry, ChainClean
<1> QED BY <1>3, <1>4

\* An anchor goes on, alone and with what it has read.
LEMMA AnchorMoves == ASSUME AuditInv, NEW a \in Anchors, NEW row \in AnchorRow, anchor' = [anchor EXCEPT ![a] = row], row.todo \subseteq row.saw,
        row.pc \in {"idle", "over"} \/ anchor[a].pc \notin {"idle", "over"} \/ NobodyAnchors(a),
        UNCHANGED <<event, chain, roots, damages>>, anchorCrashes' \in 0..MaxAnchorCrashes,
        damages = 0 =>
          /\ row.pc \in {"head", "append"} => row.head = HeadEntry
          /\ row.pc = "append" => /\ row.todo \cap Chained = {} /\ row.saw \subseteq Chained \cup row.todo
                                  /\ \A e \in row.todo : event[e].state = "in"
          /\ row.pc = "over" => row.saw \subseteq Chained
    PROVE  AuditInv'
<1>1. AuditTyped /\ ChainClean /\ OneAnchors /\ AnchorsRead /\ RootsClean
  BY DEF AuditInv
<1>2. anchor' \in [Anchors -> AnchorRow] /\ anchor'[a] = row /\ \A b \in Anchors \ {a} : anchor'[b] = anchor[b]
  BY <1>1 DEF AuditTyped
<1>3. AuditTyped'
  BY <1>1, <1>2 DEF AuditTyped
<1>4. ChainClean'
  BY <1>1 DEF ChainClean, Past
<1>5. OneAnchors'
  <2> SUFFICES ASSUME NEW b \in Anchors, NEW d \in Anchors, b # d, anchor'[b].pc \notin {"idle", "over"}, anchor'[d].pc \notin {"idle", "over"}
               PROVE  FALSE
    BY DEF OneAnchors
  <2>1. CASE b # a /\ d # a
    BY <1>1, <1>2, <2>1 DEF OneAnchors
  <2>2. CASE b = a
    BY <1>1, <1>2, <2>2 DEF OneAnchors, NobodyAnchors
  <2>3. CASE d = a
    BY <1>1, <1>2, <2>3 DEF OneAnchors, NobodyAnchors
  <2> QED BY <2>1, <2>2, <2>3
<1>6. Chained' = Chained /\ HeadEntry' = HeadEntry
  BY DEF Chained, HeadEntry
<1>7. AnchorsRead'
  <2> SUFFICES ASSUME damages = 0, NEW b \in Anchors
               PROVE  /\ anchor'[b].pc \in {"head", "append"} => anchor'[b].head = HeadEntry
                      /\ anchor'[b].pc = "append" => /\ anchor'[b].todo \cap Chained = {} /\ anchor'[b].saw \subseteq Chained \cup anchor'[b].todo
                                                     /\ \A e \in anchor'[b].todo : event[e].state = "in"
                      /\ anchor'[b].pc = "over" => anchor'[b].saw \subseteq Chained
    BY <1>6 DEF AnchorsRead
  <2>1. CASE b = a
    BY <1>2, <2>1
  <2>2. CASE b # a
    BY <1>1, <1>2, <2>2 DEF AnchorsRead
  <2> QED BY <2>1, <2>2
<1>8. RootsClean'
  BY <1>1 DEF RootsClean
<1> QED BY <1>3, <1>4, <1>5, <1>7, <1>8 DEF AuditInv

\* The four steps of an anchor before its commit.
LEMMA AnchorStepHolds == ASSUME AuditInv, NEW a \in Anchors, TakeLock(a) \/ ReadHead(a) \/ ReadUnchained(a) \/ AnchorFails(a) PROVE AuditInv'
<1>1. AuditTyped /\ anchor \in [Anchors -> AnchorRow] /\ anchor[a] \in AnchorRow /\ anchor[a].todo \subseteq anchor[a].saw
      /\ anchorCrashes \in 0..MaxAnchorCrashes /\ AnchorsRead
  BY DEF AuditInv, AuditTyped
<1>2. /\ IdleAnchor \in AnchorRow /\ IdleAnchor.pc = "idle" /\ IdleAnchor.todo = {} /\ IdleAnchor.saw = {}
      /\ [IdleAnchor EXCEPT !.pc = "locked"] \in AnchorRow /\ [IdleAnchor EXCEPT !.pc = "locked"].pc = "locked"
      /\ [IdleAnchor EXCEPT !.pc = "locked"].todo = {} /\ [IdleAnchor EXCEPT !.pc = "locked"].saw = {}
  BY HistoryIs DEF IdleAnchor, AnchorRow
<1>3. CASE TakeLock(a)
  <2> DEFINE row == [IdleAnchor EXCEPT !.pc = "locked"]
  <2>1. anchor' = [anchor EXCEPT ![a] = row] /\ NobodyAnchors(a) /\ UNCHANGED <<event, chain, roots, damages, anchorCrashes>>
    BY <1>3 DEF TakeLock
  <2> HIDE DEF row
  <2>2. row \in AnchorRow /\ row.pc = "locked" /\ row.todo \subseteq row.saw
    BY <1>2 DEF row
  <2> QED BY <1>1, <2>1, <2>2, AnchorMoves
<1>4. CASE AnchorFails(a)
  <2>1. /\ anchor' = [anchor EXCEPT ![a] = IdleAnchor] /\ UNCHANGED <<event, chain, roots, damages>>
        /\ anchorCrashes < MaxAnchorCrashes /\ anchorCrashes' = anchorCrashes + 1
    BY <1>4 DEF AnchorFails
  <2>2. anchorCrashes' \in 0..MaxAnchorCrashes
    BY <1>1, <2>1, AuditAssumption
  <2>3. IdleAnchor.pc \in {"idle", "over"} /\ IdleAnchor.pc \notin {"head", "append", "over"} /\ IdleAnchor.todo \subseteq IdleAnchor.saw
    BY <1>2
  <2> QED BY <1>2, <2>1, <2>2, <2>3, AnchorMoves
<1>5. CASE ReadHead(a)
  <2> DEFINE row == [anchor[a] EXCEPT !.pc = "head", !.head = HeadEntry]
  <2>1. anchor' = [anchor EXCEPT ![a] = row] /\ anchor[a].pc = "locked" /\ UNCHANGED <<event, chain, roots, damages, anchorCrashes>>
    BY <1>1, <1>5 DEF ReadHead
  <2>2. HeadEntry \in History
    <3>1. CASE chain = <<>>
      BY <3>1, HistoryIs DEF HeadEntry
    <3>2. CASE chain # <<>>
      <4>1. chain \in Seq(Row)
        BY <1>1 DEF AuditTyped
      <4>2. Len(chain) \in Nat \ {0}
        BY <3>2, <4>1, EmptySeq
      <4>3. Len(chain) \in DOMAIN chain
        BY <1>1, <4>2, ChainPlace
      <4> QED BY <1>1, <3>2, <4>3, ChainPlace DEF HeadEntry
    <3> QED BY <3>1, <3>2
  <2>3. row \in AnchorRow /\ row.pc = "head" /\ row.head = HeadEntry /\ row.todo \subseteq row.saw
    BY <1>1, <2>2 DEF AnchorRow
  <2> HIDE DEF row
  <2> QED BY <1>1, <2>1, <2>3, AnchorMoves
<1>6. CASE ReadUnchained(a)
  <2> DEFINE row == [anchor[a] EXCEPT !.pc = "append", !.todo = Unchained, !.saw = There]
  <2>1. anchor' = [anchor EXCEPT ![a] = row] /\ anchor[a].pc = "head" /\ UNCHANGED <<event, chain, roots, damages, anchorCrashes>>
    BY <1>1, <1>6 DEF ReadUnchained
  <2>2. There \in SUBSET Commitments /\ Unchained \in SUBSET Commitments
    BY DEF There, Unchained
  <2>3. row \in AnchorRow /\ row.pc = "append" /\ row.head = anchor[a].head /\ row.todo = Unchained /\ row.saw = There
    BY <1>1, <2>2 DEF AnchorRow
  <2> HIDE DEF row
  <2>4. row.todo \subseteq row.saw /\ row.todo \cap Chained = {} /\ row.saw \subseteq Chained \cup row.todo /\ \A e \in row.todo : event[e].state = "in"
    BY <2>3 DEF Unchained, There
  <2>5. damages = 0 => row.head = HeadEntry
    BY <1>1, <2>1, <2>3 DEF AnchorsRead
  <2> QED BY <1>1, <2>1, <2>3, <2>4, <2>5, AnchorMoves
<1> QED BY <1>3, <1>4, <1>5, <1>6

\* A commitment is inserted.
LEMMA InsertHolds == ASSUME AuditInv, NEW e \in Commitments, BeginInsert(e) \/ CommitInsert(e) PROVE AuditInv'
<1>1. AuditTyped /\ ChainClean /\ OneAnchors /\ AnchorsRead /\ RootsClean
  BY DEF AuditInv
<1>2. PICK st \in {"pending", "in"} : /\ event' = [event EXCEPT ![e].state = st] /\ event[e].state \notin {"in", "deleted"}
                                      /\ UNCHANGED <<chain, anchor, roots, damages, anchorCrashes>>
  BY DEF BeginInsert, CommitInsert
<1> DEFINE row == [event[e] EXCEPT !.state = st]
<1>3. event' = [event EXCEPT ![e] = row] /\ row \in EventRow /\ row.body = event[e].body /\ row.envelope = event[e].envelope /\ row.state = st
      /\ event \in [Commitments -> EventRow]
  <2>1. event \in [Commitments -> EventRow] /\ event[e] \in EventRow
    BY <1>1 DEF AuditTyped
  <2> QED BY <1>2, <2>1 DEF EventRow
<1> HIDE DEF row
<1>4. /\ event' \in [Commitments -> EventRow] /\ event'[e] = row /\ \A d \in Commitments \ {e} : event'[d] = event[d]
  BY <1>3
<1>5. \A d \in Commitments : event'[d].body = event[d].body /\ event'[d].envelope = event[d].envelope
                             /\ (event[d].state = "in" => event'[d].state = "in")
  BY <1>2, <1>3, <1>4
<1>6. AuditTyped'
  BY <1>1, <1>2, <1>4 DEF AuditTyped
<1>7. ChainClean'
  <2> SUFFICES ASSUME damages = 0 PROVE ChainClean'
    BY <1>2 DEF ChainClean
  <2>1. \A i : Past(i)' = Past(i)
    BY <1>2 DEF Past
  <2>2. \A i \in DOMAIN chain : chain[i].source \in Commitments
    BY <1>1, ChainPlace
  <2>3. \A d \in Commitments : event'[d].body = 0 /\ event'[d].envelope = 0
    BY <1>1, <1>5 DEF ChainClean
  <2>4. \A i \in DOMAIN chain : /\ chain[i].body = 0 /\ chain[i].envelope = 0 /\ event'[chain[i].source].state = "in"
                                /\ chain[i].prev = Past(i - 1) /\ chain[i].entry = Past(i)
    BY <1>1, <1>5, <2>2 DEF ChainClean
  <2>5. \A i, j \in DOMAIN chain : chain[i].source = chain[j].source => i = j
    BY <1>1 DEF ChainClean
  <2> QED BY <1>2, <2>1, <2>3, <2>4, <2>5 DEF ChainClean
<1>8. OneAnchors' /\ RootsClean'
  BY <1>1, <1>2 DEF OneAnchors, RootsClean
<1>9. AnchorsRead'
  <2>1. Chained' = Chained /\ HeadEntry' = HeadEntry
    BY <1>2 DEF Chained, HeadEntry
  <2>2. \A a \in Anchors : anchor[a].todo \subseteq Commitments
    BY <1>1, ChainPlace
  <2> QED BY <1>1, <1>2, <1>5, <2>1, <2>2 DEF AnchorsRead
<1> QED BY <1>6, <1>7, <1>8, <1>9 DEF AuditInv

\* The chain with the rows an anchor made behind it.
LEMMA JoinedIs == ASSUME AuditTyped, NEW head \in History, NEW S \in SUBSET Commitments, NEW s \in InSeqOrder(S), NEW c, c = chain \o RowsFor(head, s)
    PROVE  /\ c \in Seq(Row) /\ Len(c) = Len(chain) + Len(s) /\ DOMAIN c = 1..(Len(chain) + Len(s))
           /\ \A i \in 1..Len(chain) : c[i] = chain[i]
           /\ \A j \in 1..Len(s) : c[Len(chain) + j] = RowsFor(head, s)[j]
<1> DEFINE rows == RowsFor(head, s)
<1>1. rows \in Seq(Row) /\ Len(rows) = Len(s) /\ Len(s) \in Nat
  BY RowsAre
<1>2. chain \in Seq(Row) /\ Len(chain) \in Nat
  BY ChainPlace DEF AuditTyped
<1>3. c = chain \o rows
  OBVIOUS
<1> HIDE DEF rows
<1>4. /\ c \in Seq(Row) /\ Len(c) = Len(chain) + Len(rows)
      /\ \A i \in 1..(Len(chain) + Len(rows)) : c[i] = IF i <= Len(chain) THEN chain[i] ELSE rows[i - Len(chain)]
  <2>1. /\ chain \o rows \in Seq(Row) /\ Len(chain \o rows) = Len(chain) + Len(rows)
        /\ \A i \in 1..(Len(chain) + Len(rows)) : (chain \o rows)[i] = IF i <= Len(chain) THEN chain[i] ELSE rows[i - Len(chain)]
    BY <1>1, <1>2, ConcatProperties
  <2> QED BY ONLY <2>1, <1>3, Zenon
<1>5. DOMAIN c = 1..Len(c)
  BY <1>4, LenProperties
<1>6. ASSUME NEW i \in 1..Len(chain) PROVE c[i] = chain[i]
  <2>1. i \in 1..(Len(chain) + Len(rows)) /\ i <= Len(chain)
    BY <1>1, <1>2
  <2> QED BY <1>4, <2>1
<1>7. ASSUME NEW j \in 1..Len(s) PROVE c[Len(chain) + j] = rows[j]
  <2>1. Len(chain) + j \in 1..(Len(chain) + Len(rows)) /\ ~(Len(chain) + j <= Len(chain)) /\ (Len(chain) + j) - Len(chain) = j
    BY <1>1, <1>2
  <2> QED BY <1>4, <2>1
<1> QED BY <1>1, <1>4, <1>5, <1>6, <1>7 DEF rows

\* A chain is the history of what was committed.
CleanRows(c) == \A i \in DOMAIN c :
    /\ c[i].body = 0 /\ c[i].envelope = 0 /\ event[c[i].source].state = "in"
    /\ c[i].prev = [k \in 1..(i - 1) |-> <<0, 0, c[k].source>>] /\ c[i].entry = [k \in 1..i |-> <<0, 0, c[k].source>>]

Sources(c) == {c[i].source : i \in DOMAIN c}
OnceEach(c) == \A i, j \in DOMAIN c : c[i].source = c[j].source => i = j

\* The rows made behind an undamaged chain are its history.
LEMMA JoinedClean == ASSUME AuditInv, damages = 0, NEW S \in SUBSET Commitments, NEW s \in InSeqOrder(S), NEW c, c = chain \o RowsFor(Past(Len(chain)), s),
        \A e \in S : event[e].state = "in" /\ e \notin Chained
    PROVE  CleanRows(c) /\ OnceEach(c) /\ Chained \cup S = Sources(c)
<1>0. PICK n, m, head, rows : n = Len(chain) /\ m = Len(s) /\ head = Past(n) /\ rows = RowsFor(head, s)
  OBVIOUS
<1>1. AuditTyped /\ ChainClean /\ n \in Nat /\ DOMAIN chain = 1..n
  BY <1>0, ChainPlace DEF AuditInv
<1>2. head \in History /\ Len(head) = n /\ \A k \in 1..n : head[k] = <<0, 0, chain[k].source>>
  <2>1. n \in 0..n
    BY <1>1
  <2>2. head \in Seq(Triples) /\ Len(head) = n /\ \A k \in 1..n : head[k] = <<0, 0, chain[k].source>>
    BY <1>0, <1>1, <2>1, PastIs
  <2> QED BY <2>2, HistoryIs
<1>3. c = chain \o rows /\ c = chain \o RowsFor(head, s)
  BY <1>0
<1>3a. rows = RowsFor(head, s) /\ m = Len(s) /\ n = Len(chain)
  BY <1>0
<1>4. m \in Nat /\ DOMAIN c = 1..(n + m) /\ (\A i \in 1..n : c[i] = chain[i]) /\ \A j \in 1..m : c[n + j] = rows[j]
  <2>1. Len(s) \in Nat
    BY <1>1, <1>2, RowsAre
  <2>2. /\ DOMAIN c = 1..(Len(chain) + Len(s)) /\ \A i \in 1..Len(chain) : c[i] = chain[i]
        /\ \A j \in 1..Len(s) : c[Len(chain) + j] = RowsFor(head, s)[j]
    <3>1. DOMAIN c = 1..(Len(chain) + Len(s))
      BY <1>1, <1>2, <1>3, JoinedIs
    <3>2. \A i \in 1..Len(chain) : c[i] = chain[i]
      BY <1>1, <1>2, <1>3, JoinedIs
    <3>3. \A j \in 1..Len(s) : c[Len(chain) + j] = RowsFor(head, s)[j]
      BY <1>1, <1>2, <1>3, JoinedIs
    <3> QED BY <3>1, <3>2, <3>3
  <2> QED BY <1>3a, <2>1, <2>2
<1>5. /\ (\A e \in S : \E i \in 1..m : s[i] = e) /\ (\A i \in 1..m : s[i] \in S) /\ \A i, j \in 1..m : s[i] = s[j] => i = j
  BY <1>1, <1>2, <1>3a, RowsAre
<1>6. ASSUME NEW i \in 1..m
      PROVE  /\ rows[i].source = s[i] /\ rows[i].body = event[s[i]].body /\ rows[i].envelope = event[s[i]].envelope
             /\ rows[i].prev \in History /\ rows[i].entry = Append(rows[i].prev, <<rows[i].body, rows[i].envelope, rows[i].source>>)
             /\ Len(rows[i].prev) = n + (i - 1)
             /\ \A k \in 1..n : rows[i].prev[k] = head[k]
             /\ \A k \in 1..(i - 1) : rows[i].prev[n + k] = <<event[s[k]].body, event[s[k]].envelope, s[k]>>
  <2>1. LinkedRow(RowsFor(head, s)[i], head, s, i)
    BY <1>1, <1>2, <1>3a, RowsAre
  <2>2. LinkedRow(rows[i], head, s, i) /\ Len(head) = n
    BY <1>2, <1>3a, <2>1
  <2> QED BY <2>2 DEF LinkedRow
<1>7. \A e \in Commitments : event[e].body = 0 /\ event[e].envelope = 0
  BY <1>1 DEF ChainClean
<1>8. \A i \in 1..m : s[i] \in Commitments
  BY <1>5
<1>9. (\A k \in 1..n : c[k].source = chain[k].source) /\ \A k \in 1..m : c[n + k].source = s[k]
  BY <1>4, <1>6
<1>10. ASSUME NEW i \in 1..n
       PROVE  /\ c[i].body = 0 /\ c[i].envelope = 0 /\ event[c[i].source].state = "in"
              /\ c[i].prev = [k \in 1..(i - 1) |-> <<0, 0, c[k].source>>] /\ c[i].entry = [k \in 1..i |-> <<0, 0, c[k].source>>]
  <2>1. c[i] = chain[i]
    BY <1>4
  <2>2. /\ chain[i].body = 0 /\ chain[i].envelope = 0 /\ event[chain[i].source].state = "in"
        /\ chain[i].prev = Past(i - 1) /\ chain[i].entry = Past(i)
    BY <1>1 DEF ChainClean
  <2>3. 1..i \subseteq 1..n /\ 1..(i - 1) \subseteq 1..n
    BY <1>1
  <2>4. Past(i - 1) = [k \in 1..(i - 1) |-> <<0, 0, c[k].source>>]
    BY <1>9, <2>3 DEF Past
  <2>5. Past(i) = [k \in 1..i |-> <<0, 0, c[k].source>>]
    BY <1>9, <2>3 DEF Past
  <2> QED BY <2>1, <2>2, <2>4, <2>5
<1>11. ASSUME NEW j \in 1..m, NEW i, i = n + j
       PROVE  /\ c[i].body = 0 /\ c[i].envelope = 0 /\ event[c[i].source].state = "in"
              /\ c[i].prev = [k \in 1..(i - 1) |-> <<0, 0, c[k].source>>] /\ c[i].entry = [k \in 1..i |-> <<0, 0, c[k].source>>]
  <2> DEFINE before == rows[j].prev
             entry == rows[j].entry
  <2>1. c[i] = rows[j] /\ rows[j].source = s[j] /\ s[j] \in S /\ rows[j].body = 0 /\ rows[j].envelope = 0
    <3>1. s[j] \in Commitments /\ s[j] \in S
      BY <1>5, <1>8
    <3>2. event[s[j]].body = 0 /\ event[s[j]].envelope = 0
      BY <1>7, <3>1
    <3>3. rows[j].body = event[s[j]].body /\ rows[j].envelope = event[s[j]].envelope /\ rows[j].source = s[j]
      BY <1>6, Zenon
    <3> QED BY <1>4, <1>11, <3>1, <3>2, <3>3
  <2>2. before \in Seq(Triples) /\ i - 1 \in Nat /\ Len(before) = i - 1
    BY <1>1, <1>4, <1>6, <1>11, HistoryIs
  <2>3. \A k \in 1..n : before[k] = <<0, 0, c[k].source>>
    BY <1>2, <1>6, <1>9
  <2>4. \A k \in 1..(j - 1) : before[n + k] = <<0, 0, c[n + k].source>>
    <3>1. 1..(j - 1) \subseteq 1..m
      BY <1>4
    <3> QED BY <1>6, <1>7, <1>8, <1>9, <3>1, ZenonT(60)
  <2>5. entry = Append(before, <<0, 0, c[i].source>>) /\ c[i].source \in Commitments
    BY <1>6, <1>8, <1>11, <2>1
  <2> HIDE DEF before, entry
  <2>6. ASSUME NEW k \in 1..(i - 1) PROVE before[k] = <<0, 0, c[k].source>>
    <3>1. CASE k \in 1..n
      BY <2>3, <3>1
    <3>2. CASE k \notin 1..n
      <4>1. k - n \in 1..(j - 1) /\ n + (k - n) = k
        BY <1>1, <1>4, <1>11, <3>2
      <4> QED BY <2>4, <4>1
    <3> QED BY <3>1, <3>2
  <2>7. before = [k \in 1..(i - 1) |-> <<0, 0, c[k].source>>]
    <3>1. before \in [1..(i - 1) -> Triples]
      BY <2>2, LenProperties
    <3> QED BY <2>6, <3>1
  <2> DEFINE last == <<0, 0, c[i].source>>
  <2>8. last \in Triples
    BY <2>5, TripleIs
  <2> HIDE DEF last
  <2>9. /\ entry \in Seq(Triples) /\ Len(entry) = i /\ entry[i] = last
        /\ \A k \in 1..(i - 1) : entry[k] = before[k]
    <3>1. entry = Append(before, last)
      BY <2>5 DEF last
    <3>2. /\ Append(before, last) \in Seq(Triples) /\ Len(Append(before, last)) = Len(before) + 1
          /\ (\A h \in 1..Len(before) : Append(before, last)[h] = before[h]) /\ Append(before, last)[Len(before) + 1] = last
      BY <2>2, <2>8, AppendProperties
    <3>3. Len(before) + 1 = i
      BY <1>1, <1>4, <1>11, <2>2
    <3> QED BY <2>2, <3>1, <3>2, <3>3
  <2>10. ASSUME NEW k \in 1..(i) PROVE entry[k] = <<0, 0, c[k].source>>
    <3>1. CASE k = i
      BY <2>9, <3>1 DEF last
    <3>2. CASE k # i
      <4>1. k \in 1..(i - 1)
        BY <1>1, <1>4, <1>11, <3>2
      <4> QED BY <2>6, <2>9, <4>1
    <3> QED BY <3>1, <3>2
  <2>11. i \in Nat
    BY <1>1, <1>4, <1>11
  <2>12. entry = [k \in 1..i |-> <<0, 0, c[k].source>>]
    <3>1. entry \in [1..(i) -> Triples]
      BY <2>9, <2>11, LenProperties
    <3> QED BY <2>10, <3>1
  <2> QED BY <2>1, <2>7, <2>12 DEF before, entry
<1>12. \A i \in 1..(n + m) : i \in 1..n \/ \E j \in 1..m : i = n + j
  <2> SUFFICES ASSUME NEW i \in 1..(n + m), i \notin 1..n PROVE \E j \in 1..m : i = n + j
    OBVIOUS
  <2>1. i - n \in 1..m /\ i = n + (i - n)
    BY <1>1, <1>4
  <2> QED BY <2>1
<1>13. ASSUME NEW i \in DOMAIN c
       PROVE  /\ c[i].body = 0 /\ c[i].envelope = 0 /\ event[c[i].source].state = "in"
              /\ c[i].prev = [k \in 1..(i - 1) |-> <<0, 0, c[k].source>>] /\ c[i].entry = [k \in 1..i |-> <<0, 0, c[k].source>>]
  <2>1. CASE i \in 1..n
    BY <1>10, <2>1
  <2>2. CASE \E j \in 1..m : i = n + j
    <3>1. PICK j \in 1..m : i = n + j
      BY <2>2
    <3> QED BY <1>11, <3>1
  <2> QED BY <1>4, <1>12, <2>1, <2>2
<1>14. (\A i \in 1..n : c[i].source \in Chained) /\ \A j \in 1..m : c[n + j].source \notin Chained /\ c[n + j].source \in S
  BY <1>1, <1>4, <1>5, <1>9 DEF Chained
<1>15. ASSUME NEW i \in DOMAIN c, NEW j \in DOMAIN c, c[i].source = c[j].source PROVE i = j
  <2>1. CASE i \in 1..n /\ j \in 1..n
    BY <1>1, <1>9, <1>15, <2>1 DEF ChainClean
  <2>2. CASE i \in 1..n /\ j \notin 1..n
    BY <1>4, <1>12, <1>14, <1>15, <2>2, ZenonT(60)
  <2>3. CASE i \notin 1..n /\ j \in 1..n
    BY <1>4, <1>12, <1>14, <1>15, <2>3, ZenonT(60)
  <2>4. CASE i \notin 1..n /\ j \notin 1..n
    <3>1. PICK g \in 1..m, h \in 1..m : i = n + g /\ j = n + h
      BY <1>4, <1>12, <2>4
    <3> QED BY <1>5, <1>9, <1>15, <3>1
  <2> QED BY <2>1, <2>2, <2>3, <2>4
<1>16. Chained \cup S = {c[i].source : i \in DOMAIN c}
  <2>1. 1..n \subseteq DOMAIN c /\ \A j \in 1..m : n + j \in DOMAIN c
    BY <1>1, <1>4
  <2>2. ASSUME NEW e \in Chained PROVE \E i \in DOMAIN c : c[i].source = e
    BY <1>1, <1>9, <2>1 DEF Chained
  <2>3. ASSUME NEW e \in S PROVE \E i \in DOMAIN c : c[i].source = e
    BY <1>5, <1>9, <2>1
  <2>4. ASSUME NEW i \in DOMAIN c PROVE c[i].source \in Chained \cup S
    BY <1>4, <1>12, <1>14, ZenonT(60)
  <2> QED BY <2>2, <2>3, <2>4
<1>17. CleanRows(c)
  BY <1>13 DEF CleanRows
<1>18. OnceEach(c)
  BY <1>15 DEF OnceEach
<1> QED BY <1>16, <1>17, <1>18 DEF Sources

\* An anchor commits.
LEMMA CommitAnchorHolds == ASSUME AuditInv, NEW a \in Anchors, CommitAnchor(a) PROVE AuditInv'
<1>1. AuditTyped /\ ChainClean /\ OneAnchors /\ AnchorsRead /\ RootsClean
  BY DEF AuditInv
<1> DEFINE row == [IdleAnchor EXCEPT !.pc = "over", !.saw = anchor[a].saw]
<1>2. /\ anchor[a].pc = "append" /\ anchor' = [anchor EXCEPT ![a] = row] /\ UNCHANGED <<event, damages, anchorCrashes>>
      /\ roots' = IF damages = 0 /\ chain' # <<>> THEN roots \cup {chain'[Len(chain')].entry} ELSE roots
  BY DEF CommitAnchor
<1>3. anchor[a].todo \in SUBSET Commitments /\ anchor[a].saw \in SUBSET Commitments /\ anchor[a].head \in History
  BY <1>1, ChainPlace
<1>4. row \in AnchorRow /\ row.pc = "over" /\ row.saw = anchor[a].saw /\ row.todo = {}
  BY <1>3, HistoryIs DEF IdleAnchor, AnchorRow
<1> HIDE DEF row
<1>5. anchor' \in [Anchors -> AnchorRow] /\ anchor'[a] = row /\ \A b \in Anchors \ {a} : anchor'[b] = anchor[b]
  BY <1>1, <1>2, <1>4 DEF AuditTyped
<1>6. chain' \in Seq(Row)
  <2>1. CASE anchor[a].todo \cap Chained = {}
    <3>1. PICK s \in InSeqOrder(anchor[a].todo) : chain' = chain \o RowsFor(anchor[a].head, s)
      BY <2>1 DEF CommitAnchor
    <3> QED BY <1>1, <1>3, <3>1, JoinedIs
  <2>2. CASE anchor[a].todo \cap Chained # {}
    BY <1>1, <2>2 DEF CommitAnchor, AuditTyped
  <2> QED BY <2>1, <2>2
<1>7. chain' # <<>> => Len(chain') \in DOMAIN chain' /\ chain'[Len(chain')].entry \in History
  <2> SUFFICES ASSUME chain' # <<>> PROVE Len(chain') \in DOMAIN chain' /\ chain'[Len(chain')].entry \in History
    OBVIOUS
  <2>1. Len(chain') \in Nat \ {0} /\ DOMAIN chain' = 1..Len(chain')
    BY <1>6, EmptySeq, LenProperties
  <2>2. Len(chain') \in 1..Len(chain')
    BY <2>1
  <2>3. chain'[Len(chain')] \in Row
    BY <1>6, <2>1, <2>2, ElementOfSeq
  <2> QED BY <2>1, <2>2, <2>3 DEF Row
<1>8. AuditTyped'
  <2>1. roots' \subseteq History
    BY <1>1, <1>2, <1>7 DEF AuditTyped
  <2> QED BY <1>1, <1>2, <1>4, <1>5, <1>6, <2>1 DEF AuditTyped
<1>9. OneAnchors'
  <2> SUFFICES ASSUME NEW b \in Anchors, NEW d \in Anchors, b # d PROVE anchor'[b].pc \in {"idle", "over"} \/ anchor'[d].pc \in {"idle", "over"}
    BY DEF OneAnchors
  <2> QED BY <1>1, <1>4, <1>5 DEF OneAnchors
<1>10. CASE damages # 0
  <2>1. roots' = roots /\ damages' # 0
    BY <1>2, <1>10
  <2>2. ChainClean' /\ AnchorsRead' /\ RootsClean'
    BY <1>1, <2>1 DEF ChainClean, AnchorsRead, RootsClean
  <2> QED BY <1>8, <1>9, <2>2 DEF AuditInv
<1>11. CASE damages = 0
  <2>1. /\ anchor[a].head = HeadEntry /\ anchor[a].todo \cap Chained = {} /\ anchor[a].saw \subseteq Chained \cup anchor[a].todo
        /\ \A e \in anchor[a].todo : event[e].state = "in"
    BY <1>1, <1>2, <1>11 DEF AnchorsRead
  <2>2. HeadEntry = Past(Len(chain))
    BY <1>11, HeadIs
  <2>3. PICK s \in InSeqOrder(anchor[a].todo) : chain' = chain \o RowsFor(Past(Len(chain)), s)
    BY <2>1, <2>2 DEF CommitAnchor
  <2>4. /\ \A i \in DOMAIN chain' :
             /\ chain'[i].body = 0 /\ chain'[i].envelope = 0 /\ event[chain'[i].source].state = "in"
             /\ chain'[i].prev = [k \in 1..(i - 1) |-> <<0, 0, chain'[k].source>>] /\ chain'[i].entry = [k \in 1..i |-> <<0, 0, chain'[k].source>>]
        /\ \A i, j \in DOMAIN chain' : chain'[i].source = chain'[j].source => i = j
        /\ Chained \cup anchor[a].todo = {chain'[i].source : i \in DOMAIN chain'}
    <3>1. \A e \in anchor[a].todo : event[e].state = "in" /\ e \notin Chained
      BY <2>1
    <3>2. PICK c : c = chain'
      OBVIOUS
    <3>3. c = chain \o RowsFor(Past(Len(chain)), s)
      BY <2>3, <3>2
    <3>4. CleanRows(c) /\ OnceEach(c) /\ Chained \cup anchor[a].todo = Sources(c)
      BY <1>3, <1>11, <3>1, <3>3, JoinedClean
    <3>5. (\A i \in DOMAIN c :
             /\ c[i].body = 0 /\ c[i].envelope = 0 /\ event[c[i].source].state = "in"
             /\ c[i].prev = [k \in 1..(i - 1) |-> <<0, 0, c[k].source>>] /\ c[i].entry = [k \in 1..i |-> <<0, 0, c[k].source>>])
          /\ (\A i, j \in DOMAIN c : c[i].source = c[j].source => i = j)
          /\ Chained \cup anchor[a].todo = {c[i].source : i \in DOMAIN c}
      BY <3>4 DEF CleanRows, OnceEach, Sources
    <3> QED BY <3>2, <3>5
  <2>5. ChainClean'
    <3>1. \A e \in Commitments : event'[e].body = 0 /\ event'[e].envelope = 0
      BY <1>1, <1>2, <1>11 DEF ChainClean
    <3> QED BY <1>2, <2>4, <3>1 DEF ChainClean, Past
  <2>6. Chained' = Chained \cup anchor[a].todo
    BY <2>4 DEF Chained
  <2>7. ASSUME NEW b \in Anchors, b # a PROVE anchor'[b] = anchor[b] /\ anchor[b].pc \in {"idle", "over"}
    BY <1>1, <1>2, <1>5, <2>7 DEF OneAnchors
  <2>8. AnchorsRead'
    <3> SUFFICES ASSUME NEW b \in Anchors
                 PROVE  anchor'[b].pc \in {"idle", "over"} /\ (anchor'[b].pc = "over" => anchor'[b].saw \subseteq Chained \cup anchor[a].todo)
      BY <2>6 DEF AnchorsRead
    <3>1. CASE b = a
      BY <1>4, <1>5, <2>1, <3>1
    <3>2. CASE b # a
      BY <1>1, <1>11, <2>7, <3>2 DEF AnchorsRead
    <3> QED BY <3>1, <3>2
  <2>9. RootsClean'
    <3> SUFFICES ASSUME NEW root \in roots', NEW k \in DOMAIN root PROVE root[k][1] = 0 /\ root[k][2] = 0
      BY DEF RootsClean
    <3>1. CASE root \in roots
      BY <1>1, <3>1 DEF RootsClean
    <3>2. CASE chain' # <<>> /\ root = chain'[Len(chain')].entry
      <4>1. PICK n \in DOMAIN chain' : n = Len(chain')
        BY <1>7, <3>2
      <4>2. root = [h \in 1..n |-> <<0, 0, chain'[h].source>>]
        BY <2>4, <3>2, <4>1
      <4>3. k \in 1..n
        BY <4>2
      <4> QED BY <4>2, <4>3
    <3> QED BY <1>2, <3>1, <3>2
  <2> QED BY <1>8, <1>9, <2>5, <2>8, <2>9 DEF AuditInv
<1> QED BY <1>10, <1>11

\* Storage changes one row of the chain, or one event.
LEMMA DamageTyped == ASSUME AuditTyped, NEW i \in DOMAIN chain,
        (DamagedEvent(chain[i].source) /\ UNCHANGED chain) \/ (DamagedRow(i) /\ UNCHANGED event) \/ Rewritten(i)
    PROVE  event' \in [Commitments -> EventRow] /\ chain' \in Seq(Row)
<1>1. /\ event \in [Commitments -> EventRow] /\ chain \in Seq(Row) /\ Len(chain) \in Nat /\ DOMAIN chain = 1..Len(chain)
      /\ i \in 1..Len(chain) /\ chain[i] \in Row /\ chain[i].source \in Commitments /\ event[chain[i].source] \in EventRow
  BY ChainPlace DEF AuditTyped
<1>2. \A e \in Commitments : /\ [event EXCEPT ![e].body = 1] \in [Commitments -> EventRow]
                             /\ [event EXCEPT ![e].envelope = 1] \in [Commitments -> EventRow]
                             /\ [event EXCEPT ![e].state = "deleted"] \in [Commitments -> EventRow]
  <2> SUFFICES ASSUME NEW e \in Commitments
               PROVE  /\ [event EXCEPT ![e].body = 1] \in [Commitments -> EventRow]
                      /\ [event EXCEPT ![e].envelope = 1] \in [Commitments -> EventRow]
                      /\ [event EXCEPT ![e].state = "deleted"] \in [Commitments -> EventRow]
    OBVIOUS
  <2>1. event[e] \in EventRow
    BY <1>1
  <2>2. /\ [event[e] EXCEPT !.body = 1] \in EventRow /\ [event[e] EXCEPT !.envelope = 1] \in EventRow
        /\ [event[e] EXCEPT !.state = "deleted"] \in EventRow
    BY <2>1 DEF EventRow
  <2>3. \A row \in EventRow : [event EXCEPT ![e] = row] \in [Commitments -> EventRow]
    BY <1>1
  <2> QED BY <1>1, <2>2, <2>3
<1>3. CASE DamagedEvent(chain[i].source) /\ UNCHANGED chain
  BY <1>1, <1>2, <1>3 DEF DamagedEvent
<1>4. CASE DamagedRow(i) /\ UNCHANGED event
  <2>1. \A row \in Row : [chain EXCEPT ![i] = row] \in Seq(Row)
    BY <1>1, ExceptSeq
  <2>2. /\ [chain[i] EXCEPT !.body = 1] \in Row /\ [chain[i] EXCEPT !.envelope = 1] \in Row
        /\ [chain[i] EXCEPT !.prev = Genesis] \in Row
    BY <1>1, HistoryIs DEF Row
  <2>3. RemoveAt(chain, i) \in Seq(Row)
    <3> DEFINE front == SubSeq(chain, 1, i - 1)
               back == SubSeq(chain, i + 1, Len(chain))
    <3>1. front \in Seq(Row) /\ back \in Seq(Row)
      <4>1. (\A k \in 1..(i - 1) : chain[k] \in Row) /\ \A k \in (i + 1)..Len(chain) : chain[k] \in Row
        <5>1. 1..(i - 1) \subseteq 1..Len(chain) /\ (i + 1)..Len(chain) \subseteq 1..Len(chain)
          BY <1>1
        <5> QED BY <1>1, <5>1, ElementOfSeq
      <4> QED BY <1>1, <4>1, SubSeqProperties
    <3>2. RemoveAt(chain, i) = front \o back
      BY DEF RemoveAt
    <3> HIDE DEF front, back
    <3> QED BY <3>1, <3>2, ConcatProperties
  <2> QED BY <1>1, <1>4, <2>1, <2>2, <2>3 DEF DamagedRow
<1>5. CASE Rewritten(i)
  <2> DEFINE link(k) == <<IF k = i THEN 1 ELSE chain[k].body, chain[k].envelope, chain[k].source>>
             upto(n) == [k \in 1..n |-> link(k)]
             row(k) == [chain[k] EXCEPT !.body = IF k = i THEN 1 ELSE @, !.prev = upto(k - 1), !.entry = upto(k)]
  <2>1. event' = [event EXCEPT ![chain[i].source].body = 1] /\ chain' = [k \in DOMAIN chain |-> row(k)]
    BY <1>5 DEF Rewritten
  <2>2. ASSUME NEW k \in 1..Len(chain)
        PROVE  chain[k] \in Row /\ link(k) \in Triples /\ (IF k = i THEN 1 ELSE chain[k].body) \in {0, 1}
    <3>1. chain[k] \in Row /\ chain[k].source \in Commitments /\ chain[k].envelope \in {0, 1} /\ (IF k = i THEN 1 ELSE chain[k].body) \in {0, 1}
      BY <1>1, ChainPlace
    <3> QED BY <3>1, TripleIs
  <2> HIDE DEF link
  <2>3. ASSUME NEW n \in 0..Len(chain) PROVE upto(n) \in History
    <3>1. n \in Nat /\ 1..n \subseteq 1..Len(chain)
      BY <1>1
    <3>2. upto(n) \in [1..n -> Triples]
      BY <2>2, <3>1
    <3>3. upto(n) \in Seq(Triples)
      BY <3>1, <3>2
    <3> QED BY <3>3, HistoryIs
  <2> HIDE DEF upto
  <2>4. ASSUME NEW k \in 1..Len(chain) PROVE row(k) \in Row
    <3>1. k - 1 \in 0..Len(chain) /\ k \in 0..Len(chain)
      BY <1>1
    <3>2. PICK b \in {0, 1}, p \in History, q \in History : b = (IF k = i THEN 1 ELSE chain[k].body) /\ p = upto(k - 1) /\ q = upto(k)
      BY <2>2, <2>3, <3>1
    <3>3. row(k) = [chain[k] EXCEPT !.body = b, !.prev = p, !.entry = q]
      BY <2>2, <3>2
    <3>4. [chain[k] EXCEPT !.body = b, !.prev = p, !.entry = q] \in Row
      BY <2>2 DEF Row
    <3> QED BY <3>3, <3>4
  <2> HIDE DEF row
  <2>5. chain' \in [1..Len(chain) -> Row]
    BY <1>1, <2>1, <2>4
  <2>6. chain' \in Seq(Row)
    BY <1>1, <2>5
  <2> QED BY <1>1, <1>2, <2>1, <2>6
<1> QED BY <1>3, <1>4, <1>5

\* Storage is damaged.
LEMMA DamageHolds == ASSUME AuditInv, Damage PROVE AuditInv'
<1>1. AuditTyped /\ ChainClean /\ OneAnchors /\ AnchorsRead /\ RootsClean
  BY DEF AuditInv
<1>2. damages < MaxDamages /\ damages' = damages + 1 /\ UNCHANGED <<anchor, roots, anchorCrashes>>
  BY DEF Damage
<1>3. event' \in [Commitments -> EventRow] /\ chain' \in Seq(Row)
  <2>1. PICK i \in DOMAIN chain : (DamagedEvent(chain[i].source) /\ UNCHANGED chain) \/ (DamagedRow(i) /\ UNCHANGED event) \/ Rewritten(i)
    BY DEF Damage
  <2> QED BY <1>1, <2>1, DamageTyped
<1>4. damages' \in 0..MaxDamages /\ damages' # 0
  <2>1. damages \in 0..MaxDamages
    BY <1>1 DEF AuditTyped
  <2> QED BY <1>2, <2>1, AuditAssumption
<1>5. AuditTyped'
  BY <1>1, <1>2, <1>3, <1>4 DEF AuditTyped
<1>6. ChainClean' /\ AnchorsRead'
  BY <1>4 DEF ChainClean, AnchorsRead
<1>7. OneAnchors' /\ RootsClean'
  BY <1>1, <1>2 DEF OneAnchors, RootsClean
<1> QED BY <1>5, <1>6, <1>7 DEF AuditInv

\* It holds at the start,
LEMMA AuditStarts == ASSUME AuditInit PROVE AuditInv
<1>1. /\ event = [e \in Commitments |-> [state |-> "none", body |-> 0, envelope |-> 0]]
      /\ chain = <<>> /\ anchor = [a \in Anchors |-> IdleAnchor] /\ roots = {} /\ damages = 0 /\ anchorCrashes = 0
  BY DEF AuditInit
<1>2. IdleAnchor \in AnchorRow /\ IdleAnchor.pc = "idle" /\ IdleAnchor.todo = {} /\ IdleAnchor.saw = {}
  BY HistoryIs DEF IdleAnchor, AnchorRow
<1>3. \A a \in Anchors : anchor[a] = IdleAnchor
  BY <1>1
<1>4. chain \in Seq(Row) /\ DOMAIN chain = {}
  BY <1>1
<1>5. AuditTyped
  BY <1>1, <1>2, <1>3, <1>4, AuditAssumption DEF AuditTyped, EventRow
<1>6. ChainClean
  BY <1>1, <1>4 DEF ChainClean
<1>7. OneAnchors /\ RootsClean
  BY <1>1, <1>2, <1>3 DEF OneAnchors, RootsClean
<1>8. AnchorsRead
  BY <1>2, <1>3 DEF AnchorsRead
<1> QED BY <1>5, <1>6, <1>7, <1>8 DEF AuditInv

\* and every step keeps it.
LEMMA AuditSteps == ASSUME AuditInv, [AuditNext]_auditVars PROVE AuditInv'
<1>1. CASE AuditNext
  <2>1. CASE \E e \in Commitments : BeginInsert(e) \/ CommitInsert(e)
    BY <2>1, InsertHolds
  <2>2. CASE \E a \in Anchors : TakeLock(a) \/ ReadHead(a) \/ ReadUnchained(a) \/ CommitAnchor(a) \/ AnchorFails(a)
    BY <2>2, AnchorStepHolds, CommitAnchorHolds
  <2>3. CASE Damage
    BY <2>3, DamageHolds
  <2> QED BY <1>1, <2>1, <2>2, <2>3 DEF AuditNext
<1>2. CASE UNCHANGED auditVars
  <2>1. AuditTyped /\ ChainClean /\ OneAnchors /\ AnchorsRead /\ RootsClean /\ UNCHANGED <<event, chain, anchor, roots, damages, anchorCrashes>>
    BY <1>2 DEF auditVars, AuditInv
  <2>2. AuditTyped' /\ OneAnchors' /\ RootsClean'
    BY <2>1 DEF AuditTyped, OneAnchors, RootsClean
  <2>3. ChainClean'
    BY <2>1 DEF ChainClean, Past
  <2>4. Chained' = Chained /\ HeadEntry' = HeadEntry
    BY <2>1 DEF Chained, HeadEntry
  <2>5. AnchorsRead'
    BY <2>1, <2>4 DEF AnchorsRead
  <2> QED BY <2>2, <2>3, <2>5 DEF AuditInv
<1> QED BY <1>1, <1>2

\* The chain is built under its invariant.
LEMMA AuditInvHolds == AuditSpec => []AuditInv
BY AuditStarts, AuditSteps, PTL DEF AuditSpec

\* Rows that follow each other and recompute hold, in every entry, all that was chained up to there.
LEMMA LinkedRows == ASSUME NEW c \in Seq(Row), NEW before \in History, \A i \in DOMAIN c : Follows(c, i, before) /\ Recomputes(c[i])
    PROVE  \A i \in DOMAIN c : /\ Len(c[i].entry) = Len(before) + i
                               /\ \A k \in 1..i : c[i].entry[Len(before) + k] = <<c[k].body, c[k].envelope, c[k].source>>
<1> DEFINE link(k) == <<c[k].body, c[k].envelope, c[k].source>>
           P(i) == Len(c[i].entry) = Len(before) + i /\ \A k \in 1..i : c[i].entry[Len(before) + k] = link(k)
           Bad == {i \in DOMAIN c : ~P(i)}
<1>1. DOMAIN c = 1..Len(c) /\ Len(c) \in Nat /\ before \in Seq(Triples) /\ Len(before) \in Nat
  BY LenProperties, HistoryIs
<1>2. ASSUME NEW i \in DOMAIN c
      PROVE  /\ c[i] \in Row /\ c[i].prev \in Seq(Triples) /\ c[i].entry \in Seq(Triples) /\ link(i) \in Triples
             /\ c[i].entry = Append(c[i].prev, link(i)) /\ c[i].prev = (IF i = 1 THEN before ELSE c[i - 1].entry)
  <2>1. c[i] \in Row
    BY <1>1, ElementOfSeq
  <2>2. c[i].prev \in Seq(Triples) /\ c[i].entry \in Seq(Triples) /\ c[i].body \in {0, 1} /\ c[i].envelope \in {0, 1} /\ c[i].source \in Commitments
    BY <2>1, HistoryIs DEF Row
  <2>3. link(i) \in Triples
    BY <2>2, TripleIs
  <2> QED BY <2>1, <2>2, <2>3 DEF Follows, Recomputes, Entry
<1> HIDE DEF link
<1>3. ASSUME NEW i \in DOMAIN c, i # 1 => i - 1 \in DOMAIN c /\ P(i - 1) PROVE P(i)
  <2>1. PICK p \in Seq(Triples), e \in Seq(Triples) : p = c[i].prev /\ e = c[i].entry /\ e = Append(p, link(i)) /\ link(i) \in Triples
    BY <1>2
  <2>2. /\ Len(e) = Len(p) + 1 /\ (\A k \in 1..Len(p) : e[k] = p[k]) /\ e[Len(p) + 1] = link(i) /\ Len(p) \in Nat
    BY <2>1, AppendProperties, LenProperties
  <2>3. i \in Nat /\ i >= 1
    BY <1>1
  <2>4. Len(p) = Len(before) + (i - 1) /\ \A k \in 1..(i - 1) : p[Len(before) + k] = link(k)
    <3>1. CASE i = 1
      BY <1>1, <1>2, <2>1, <3>1
    <3>2. CASE i # 1
      <4>1. p = c[i - 1].entry /\ P(i - 1)
        BY <1>2, <1>3, <2>1, <3>2
      <4> QED BY <4>1
    <3> QED BY <3>1, <3>2
  <2>5. Len(e) = Len(before) + i
    BY <1>1, <2>2, <2>3, <2>4
  <2>6. ASSUME NEW k \in 1..i PROVE e[Len(before) + k] = link(k)
    <3>1. CASE k = i
      <4>1. Len(before) + k = Len(p) + 1
        BY <1>1, <2>3, <2>4, <3>1
      <4> QED BY <2>2, <3>1, <4>1
    <3>2. CASE k # i
      <4>1. k \in 1..(i - 1) /\ Len(before) + k \in 1..Len(p)
        BY <1>1, <2>3, <2>4, <3>2
      <4> QED BY <2>2, <2>4, <4>1
    <3> QED BY <3>1, <3>2
  <2> QED BY <2>1, <2>5, <2>6
<1> HIDE DEF P
<1>4. Bad = {}
  <2> SUFFICES ASSUME Bad # {} PROVE FALSE
    OBVIOUS
  <2>1. Bad \in SUBSET Nat
    BY <1>1
  <2> HIDE DEF Bad
  <2>2. PICK i \in Bad : \A k \in Bad : i <= k
    BY <2>1, FirstOfNumbers
  <2>3. i \in DOMAIN c /\ ~P(i) /\ \A k \in DOMAIN c : k < i => P(k)
    <3>1. i \in DOMAIN c /\ ~P(i)
      BY DEF Bad
    <3>2. ASSUME NEW k \in DOMAIN c, k < i PROVE P(k)
      <4>1. k \notin Bad
        BY <1>1, <2>2, <3>1, <3>2
      <4> QED BY <4>1 DEF Bad
    <3> QED BY <3>1, <3>2
  <2>4. i # 1 => i - 1 \in DOMAIN c /\ i - 1 < i
    BY <1>1, <2>3
  <2> QED BY <1>3, <2>3, <2>4
<1>5. \A i \in DOMAIN c : P(i)
  BY <1>4
<1> QED BY <1>5 DEF P, link

\* Damage is found.
LEMMA DamageFound == AuditInv => DamageIsFound
<1> SUFFICES ASSUME AuditInv, Verified, NEW root \in roots, NEW i \in DOMAIN chain, chain[i].entry = root, NEW k \in DOMAIN root
             PROVE  root[k][3] \in Chained /\ event[root[k][3]] = [state |-> "in", body |-> 0, envelope |-> 0]
  BY DEF DamageIsFound
<1>1. AuditTyped /\ RootsClean /\ chain \in Seq(Row) /\ Genesis \in History /\ Len(Genesis) = 0
  BY HistoryIs DEF AuditInv, AuditTyped
<1>2. Len(root) = i /\ root \in Seq(Triples) /\ i \in Nat /\ \A h \in 1..i : root[h] = <<chain[h].body, chain[h].envelope, chain[h].source>>
  <2>1. \A j \in DOMAIN chain : Follows(chain, j, Genesis) /\ Recomputes(chain[j])
    BY DEF Verified
  <2>2. i \in Nat /\ root \in Seq(Triples)
    BY <1>1, ChainPlace, HistoryIs
  <2>3. Len(chain[i].entry) = 0 + i /\ \A h \in 1..i : chain[i].entry[0 + h] = <<chain[h].body, chain[h].envelope, chain[h].source>>
    BY <1>1, <2>1, LinkedRows
  <2>4. \A h \in 1..i : 0 + h = h
    BY <2>2
  <2> QED BY <2>2, <2>3, <2>4
<1>3. k \in 1..i /\ k \in DOMAIN chain
  <2>1. k \in 1..i
    BY <1>2, LenProperties
  <2> QED BY <1>1, <1>2, <2>1, ChainPlace
<1>4. root[k] = <<chain[k].body, chain[k].envelope, chain[k].source>> /\ root[k][1] = 0 /\ root[k][2] = 0
  BY <1>1, <1>2, <1>3 DEF RootsClean
<1>5. PICK s \in Commitments : s = chain[k].source
  BY <1>1, <1>3, ChainPlace
<1>6. root[k][3] = s /\ chain[k].body = 0 /\ chain[k].envelope = 0
  BY <1>4, <1>5
<1>7. event[s].state = "in" /\ event[s].envelope = 0 /\ event[s].body = 0
  BY <1>3, <1>5, <1>6 DEF Verified, SourceMatches
<1>8. event[s] = [state |-> "in", body |-> 0, envelope |-> 0]
  <2>1. event[s] \in EventRow
    BY <1>1, ChainPlace
  <2> QED BY <1>7, <2>1 DEF EventRow
<1>9. s \in Chained
  BY <1>3, <1>5 DEF Chained
<1> QED BY <1>6, <1>8, <1>9

\* The path of a receipt is the chain from its entry on.
LEMMA PathIs == ASSUME AuditTyped, NEW i \in DOMAIN chain
    PROVE  LET path == SubSeq(chain, i, Len(chain)) IN
           /\ path \in Seq(Row) /\ Len(path) = Len(chain) - i + 1 /\ DOMAIN path = 1..(Len(chain) - i + 1) /\ path[1] = chain[i] /\ path # <<>>
           /\ \A j \in 1..(Len(chain) - i + 1) : path[j] = chain[i + j - 1]
<1> DEFINE path == SubSeq(chain, i, Len(chain))
<1>1. chain \in Seq(Row) /\ Len(chain) \in Nat /\ DOMAIN chain = 1..Len(chain) /\ i \in 1..Len(chain) /\ \A k \in i..Len(chain) : chain[k] \in Row
  <2>1. chain \in Seq(Row) /\ Len(chain) \in Nat /\ DOMAIN chain = 1..Len(chain) /\ \A k \in DOMAIN chain : chain[k] \in Row
    BY ChainPlace DEF AuditTyped
  <2>2. i \in 1..Len(chain) /\ i..Len(chain) \subseteq 1..Len(chain)
    BY <2>1
  <2> QED BY <2>1, <2>2
<1>2. /\ path \in Seq(Row) /\ Len(path) = (IF i <= Len(chain) THEN Len(chain) - i + 1 ELSE 0)
      /\ \A j \in 1..(Len(chain) - i + 1) : path[j] = chain[i + j - 1]
  BY <1>1, SubSeqProperties
<1> HIDE DEF path
<1>3. Len(path) = Len(chain) - i + 1 /\ 1 \in 1..(Len(chain) - i + 1) /\ i + 1 - 1 = i
  BY <1>1, <1>2
<1>4. DOMAIN path = 1..(Len(chain) - i + 1) /\ path[1] = chain[i]
  BY <1>2, <1>3, LenProperties
<1>5. path # <<>>
  BY <1>3, <1>4
<1> QED BY <1>2, <1>3, <1>4, <1>5 DEF path

\* A receipt that verifies proves its outcome.
LEMMA ReceiptIsProof == AuditInv => ReceiptProves
<1> SUFFICES ASSUME AuditInv, NEW i \in Receipts, NEW shown \in {0, 1}, NEW body \in {0, 1},
                    ReceiptHolds([Receipt(i) EXCEPT !.payload = shown, !.self.body = body]),
                    [Receipt(i) EXCEPT !.payload = shown, !.self.body = body].root \in roots
             PROVE  shown = 0
  BY DEF ReceiptProves
<1>1. AuditTyped /\ RootsClean /\ i \in DOMAIN chain
  BY DEF AuditInv, Receipts
<1>2. PICK path, root, rc : /\ path = SubSeq(chain, i, Len(chain)) /\ root = HeadEntry /\ rc = [Receipt(i) EXCEPT !.payload = shown, !.self.body = body]
  OBVIOUS
<1>3. chain[i] \in Row /\ chain[i].prev \in Seq(Triples) /\ chain[i].entry \in Seq(Triples) /\ chain[i].source \in Commitments
      /\ chain[i].body \in {0, 1} /\ chain[i].envelope \in {0, 1}
  BY <1>1, ChainPlace, HistoryIs
<1>4. PICK self \in Row : self = [chain[i] EXCEPT !.body = body]
  BY <1>3 DEF Row
<1>5. self.body = body /\ self.envelope = chain[i].envelope /\ self.source = chain[i].source /\ self.prev = chain[i].prev /\ self.entry = chain[i].entry
  BY <1>3, <1>4 DEF Row
<1>6. rc.payload = shown /\ rc.self = self /\ rc.path = path /\ rc.root = root
  BY <1>2, <1>4 DEF Receipt
<1>7. ReceiptHolds(rc) /\ root \in roots
  BY <1>2, <1>6
<1>8. /\ shown = self.body /\ Recomputes(self) /\ path[Len(path)].entry = root
      /\ \A j \in DOMAIN path : Follows(path, j, path[1].prev) /\ Recomputes(path[j])
  BY <1>6, <1>7 DEF ReceiptHolds, ReceiptEntry
<1>9. PICK n \in Nat \ {0} : path \in Seq(Row) /\ Len(path) = n /\ DOMAIN path = 1..n /\ path[1] = chain[i]
  <2>1. Len(chain) - i + 1 \in Nat \ {0}
    BY <1>1, ChainPlace
  <2>2. path \in Seq(Row) /\ Len(path) = Len(chain) - i + 1 /\ DOMAIN path = 1..(Len(chain) - i + 1) /\ path[1] = chain[i]
    BY <1>1, <1>2, PathIs
  <2> QED BY <2>1, <2>2
<1> DEFINE link(b) == <<b, chain[i].envelope, chain[i].source>>
<1>10. PICK before \in Seq(Triples) : before = chain[i].prev
  BY <1>3
<1>11. chain[i].entry = Append(before, link(body)) /\ chain[i].entry = Append(before, link(chain[i].body))
  <2>1. Recomputes(path[1]) /\ 1 \in DOMAIN path
    BY <1>8, <1>9
  <2> QED BY <1>5, <1>8, <1>9, <1>10, <2>1 DEF Recomputes, Entry
<1>12. \A b \in {0, 1} : link(b) \in Triples /\ link(b)[1] = b
  BY <1>3, TripleIs
<1> HIDE DEF link
<1>13. link(body) = link(chain[i].body)
  <2>1. Append(before, link(body))[Len(before) + 1] = link(body) /\ Append(before, link(chain[i].body))[Len(before) + 1] = link(chain[i].body)
    BY <1>3, <1>10, <1>12, AppendProperties
  <2> QED BY <1>11, <2>1
<1>14. body = chain[i].body
  BY <1>3, <1>12, <1>13
<1>15. /\ Len(path[n].entry) = Len(before) + n
       /\ path[n].entry[Len(before) + 1] = <<path[1].body, path[1].envelope, path[1].source>>
  <2>1. n \in DOMAIN path /\ 1 \in 1..n
    BY <1>9
  <2>2. \A j \in DOMAIN path : Follows(path, j, before) /\ Recomputes(path[j])
    BY <1>8, <1>9, <1>10
  <2>3. before \in History
    BY <1>10, HistoryIs
  <2>4. \A j \in DOMAIN path : /\ Len(path[j].entry) = Len(before) + j
                               /\ \A k \in 1..j : path[j].entry[Len(before) + k] = <<path[k].body, path[k].envelope, path[k].source>>
    BY <1>9, <2>2, <2>3, LinkedRows
  <2> QED BY <2>1, <2>4
<1>16. Len(before) + 1 \in DOMAIN root /\ root[Len(before) + 1] = link(chain[i].body)
  <2>1. root \in Seq(Triples) /\ Len(root) = Len(before) + n /\ Len(before) \in Nat
    <3>1. root \in Seq(Triples)
      BY <1>1, <1>7, HistoryIs DEF AuditTyped
    <3> QED BY <1>8, <1>9, <1>10, <1>15, <3>1, LenProperties
  <2>2. Len(before) + 1 \in 1..Len(root)
    BY <2>1
  <2> QED BY <1>8, <1>9, <1>15, <2>1, <2>2, LenProperties DEF link
<1>17. link(chain[i].body)[1] = 0
  BY <1>1, <1>7, <1>16 DEF RootsClean
<1> QED BY <1>3, <1>5, <1>8, <1>12, <1>14, <1>17

\* An undamaged chain verifies, and so does every receipt from it.
LEMMA UndamagedDoes == AuditInv => UndamagedVerifies
<1> SUFFICES ASSUME AuditInv, damages = 0
             PROVE  /\ Verified /\ \A i, j \in DOMAIN chain : chain[i].source = chain[j].source => i = j
                    /\ \A i \in Receipts : ReceiptHolds(Receipt(i))
  BY DEF UndamagedVerifies
<1>1. AuditTyped /\ ChainClean /\ chain \in Seq(Row) /\ Len(chain) \in Nat /\ DOMAIN chain = 1..Len(chain)
  BY ChainPlace DEF AuditInv, AuditTyped
<1>2. ASSUME NEW i \in DOMAIN chain PROVE Recomputes(chain[i]) /\ SourceMatches(chain[i])
  <2>1. i \in 1..Len(chain) /\ i \in 0..Len(chain) /\ i - 1 \in 0..Len(chain) /\ i \in Nat
    BY <1>1
  <2>2. PICK source \in Commitments : source = chain[i].source
    BY <1>1, ChainPlace
  <2>3. /\ chain[i].body = 0 /\ chain[i].envelope = 0 /\ event[source].state = "in" /\ event[source].body = 0 /\ event[source].envelope = 0
        /\ chain[i].prev = Past(i - 1) /\ chain[i].entry = Past(i)
    BY <1>1, <2>2 DEF ChainClean
  <2>4. PICK p \in Seq(Triples), q \in Seq(Triples) : /\ p = Past(i - 1) /\ q = Past(i) /\ Len(p) = i - 1 /\ Len(q) = i
                                                      /\ (\A k \in 1..(i - 1) : p[k] = <<0, 0, chain[k].source>>)
                                                      /\ \A k \in 1..i : q[k] = <<0, 0, chain[k].source>>
    BY <1>1, <2>1, PastIs
  <2> DEFINE last == <<0, 0, source>>
  <2>5. last \in Triples /\ last = q[i]
    BY <2>1, <2>2, <2>4, TripleIs
  <2> HIDE DEF last
  <2>6. /\ Append(p, last) \in Seq(Triples) /\ Len(Append(p, last)) = i /\ Append(p, last)[i] = last
        /\ \A k \in 1..(i - 1) : Append(p, last)[k] = p[k]
    <3>1. /\ Append(p, last) \in Seq(Triples) /\ Len(Append(p, last)) = Len(p) + 1 /\ Append(p, last)[Len(p) + 1] = last
          /\ \A k \in 1..Len(p) : Append(p, last)[k] = p[k]
      BY <2>5, AppendProperties
    <3>2. Len(p) + 1 = i
      BY <2>1, <2>4
    <3> QED BY <2>4, <3>1, <3>2
  <2>7. \A k \in 1..i : Append(p, last)[k] = q[k]
    <3> SUFFICES ASSUME NEW k \in 1..i PROVE Append(p, last)[k] = q[k]
      OBVIOUS
    <3>1. CASE k = i
      BY <2>5, <2>6, <3>1
    <3>2. CASE k # i
      <4>1. k \in 1..(i - 1)
        BY <2>1, <3>2
      <4> QED BY <2>4, <2>6, <4>1
    <3> QED BY <3>1, <3>2
  <2>8. Append(p, last) = q
    BY <2>4, <2>6, <2>7, SeqEqual
  <2>9. Recomputes(chain[i])
    BY <2>2, <2>3, <2>4, <2>8 DEF Recomputes, Entry, last
  <2>10. SourceMatches(chain[i])
    BY <2>2, <2>3 DEF SourceMatches
  <2> QED BY <2>9, <2>10
<1>3. ASSUME NEW i \in DOMAIN chain PROVE chain[i].prev = (IF i = 1 THEN Genesis ELSE chain[i - 1].entry)
  <2>1. chain[i].prev = Past(i - 1) /\ \A j \in DOMAIN chain : chain[j].entry = Past(j)
    BY <1>1 DEF ChainClean
  <2>2. CASE i = 1
    <3>1. 0 \in 0..Len(chain) /\ i - 1 = 0
      BY <1>1, <2>2
    <3>2. Past(0) \in Seq(Triples) /\ Len(Past(0)) = 0
      BY <1>1, <3>1, PastIs
    <3>3. Past(0) = <<>>
      BY <3>2, EmptySeq
    <3> QED BY <2>1, <2>2, <3>1, <3>3, HistoryIs
  <2>3. CASE i # 1
    <3>1. i - 1 \in DOMAIN chain
      BY <1>1, <2>3
    <3> QED BY <2>1, <2>3, <3>1
  <2> QED BY <2>2, <2>3
<1>4. Verified
  BY <1>2, <1>3 DEF Verified, Follows
<1>5. ASSUME NEW i \in Receipts PROVE ReceiptHolds(Receipt(i))
  <2>1. i \in DOMAIN chain
    BY DEF Receipts
  <2>2. PICK path, n, rc : path = SubSeq(chain, i, Len(chain)) /\ n = Len(chain) - i + 1 /\ rc = Receipt(i)
    OBVIOUS
  <2>3. /\ rc.payload = event[chain[i].source].body /\ rc.self = chain[i] /\ rc.path = path /\ rc.root = HeadEntry
    BY <2>2 DEF Receipt
  <2>4. /\ path # <<>> /\ path[1] = chain[i] /\ Len(path) = n /\ DOMAIN path = 1..n /\ n \in Nat /\ n >= 1
        /\ \A j \in 1..n : path[j] = chain[i + j - 1]
    <3>1. Len(chain) - i + 1 \in Nat /\ Len(chain) - i + 1 >= 1
      BY <1>1, <2>1
    <3>2. /\ path # <<>> /\ path[1] = chain[i] /\ Len(path) = Len(chain) - i + 1 /\ DOMAIN path = 1..(Len(chain) - i + 1)
          /\ \A j \in 1..(Len(chain) - i + 1) : path[j] = chain[i + j - 1]
      BY <1>1, <2>1, <2>2, PathIs
    <3> QED BY <2>2, <3>1, <3>2
  <2>5. ReceiptEntry(rc)
    <3>1. SourceMatches(chain[i]) /\ Recomputes(chain[i])
      BY <1>2, <2>1
    <3> QED BY <2>3, <3>1 DEF ReceiptEntry, SourceMatches
  <2>6. ASSUME NEW j \in 1..n PROVE Recomputes(path[j]) /\ Follows(path, j, path[1].prev)
    <3>1. PICK g \in DOMAIN chain : g = i + j - 1 /\ path[j] = chain[g]
      <4>1. i + j - 1 \in DOMAIN chain
        BY <1>1, <2>1, <2>2
      <4> QED BY <2>4, <4>1
    <3>2. Recomputes(path[j])
      BY <1>2, <3>1
    <3>3. CASE j = 1
      BY <3>2, <3>3 DEF Follows
    <3>4. CASE j # 1
      <4>1. j - 1 \in 1..n /\ i + (j - 1) - 1 = g - 1 /\ g # 1
        BY <1>1, <2>1, <2>4, <3>1, <3>4
      <4>2. path[j - 1] = chain[g - 1]
        BY <2>4, <4>1
      <4> QED BY <1>3, <3>1, <3>2, <3>4, <4>1, <4>2 DEF Follows
    <3> QED BY <3>2, <3>3, <3>4
  <2>7. path[n].entry = HeadEntry
    <3>1. i + n - 1 = Len(chain) /\ n \in 1..n /\ chain # <<>>
      BY <1>1, <2>1, <2>2, <2>4
    <3> QED BY <2>4, <3>1 DEF HeadEntry
  <2>8. ReceiptHolds(rc)
    BY <2>3, <2>4, <2>5, <2>6, <2>7 DEF ReceiptHolds
  <2> QED BY <2>2, <2>8
<1> QED BY <1>1, <1>4, <1>5 DEF ChainClean

\* No silent hole.
LEMMA NoHole == AuditInv => NoSilentHole
BY DEF AuditInv, AnchorsRead, NoSilentHole

\* Of two chains, how far they agree is a number there is.
LEMMA CommonIs == ASSUME NEW min \in Nat, NEW x, NEW y
    PROVE \E n \in 0..min : (\A i \in 1..n : Agree(x[i], y[i])) /\ (n < min => ~Agree(x[n + 1], y[n + 1]))
<1> DEFINE Ends == {n \in 0..min : n < min => ~Agree(x[n + 1], y[n + 1])}
<1>1. Ends \in SUBSET Nat /\ min \in Ends
  OBVIOUS
<1>2. Ends # {}
  BY <1>1
<1>3. PICK n \in Ends : \A k \in Ends : n <= k
  <2> HIDE DEF Ends
  <2> QED BY <1>1, <1>2, FirstOfNumbers
<1>4. n \in 0..min /\ (n < min => ~Agree(x[n + 1], y[n + 1]))
  OBVIOUS
<1>5. ASSUME NEW i \in 1..n PROVE Agree(x[i], y[i])
  <2>1. i - 1 \in 0..min /\ i - 1 < n /\ i - 1 < min /\ (i - 1) + 1 = i
    BY <1>4
  <2>2. i - 1 \notin Ends
    <3> HIDE DEF Ends
    <3> QED BY <1>1, <1>3, <2>1
  <2> QED BY <2>1, <2>2
<1> QED BY <1>4, <1>5

\* The comparison tells a chain that lags from another history.
LEMMA ReconcileDoes == AuditInv => ReconcileTells
<1> SUFFICES ASSUME AuditInv, NEW root \in roots
             PROVE  Reconciled(Entries, ViewOf(root)) \in {"in_sync", "local_ahead"}
                        <=> /\ Len(root) <= Len(chain)
                            /\ \A i \in DOMAIN root : chain[i].entry = SubSeq(root, 1, i)
  BY DEF ReconcileTells
<1>1. AuditTyped /\ Len(chain) \in Nat /\ DOMAIN chain = 1..Len(chain) /\ \A i \in DOMAIN chain : chain[i].entry \in History
  BY ChainPlace DEF AuditInv
<1>2. root \in Seq(Triples) /\ Len(root) \in Nat /\ DOMAIN root = 1..Len(root)
  BY <1>1, HistoryIs, LenProperties DEF AuditTyped
<1>3. PICK x, y, n, m : x = Entries /\ y = ViewOf(root) /\ n = Len(chain) /\ m = Len(root)
  OBVIOUS
<1>4. n \in Nat /\ m \in Nat
  BY <1>1, <1>2, <1>3
<1>5. Len(x) = n /\ \A i \in 1..n : x[i] = chain[i].entry
  <2>1. x = [i \in 1..n |-> chain[i].entry]
    BY <1>1, <1>3 DEF Entries
  <2>2. x \in [1..n -> History]
    BY <1>1, <1>3, <2>1
  <2>3. x \in Seq(History) /\ DOMAIN x = 1..n
    BY <1>4, <2>2
  <2>4. Len(x) \in Nat /\ DOMAIN x = 1..Len(x)
    BY <2>3, LenProperties
  <2> QED BY <1>4, <2>1, <2>3, <2>4
<1>6. Len(y) = m /\ \A i \in 1..m : y[i] = SubSeq(root, 1, i)
  <2>1. y = [i \in 1..m |-> SubSeq(root, 1, i)]
    BY <1>2, <1>3 DEF ViewOf
  <2>2. \A i \in 1..m : SubSeq(root, 1, i) \in Seq(Triples)
    <3> SUFFICES ASSUME NEW i \in 1..m PROVE SubSeq(root, 1, i) \in Seq(Triples)
      OBVIOUS
    <3>1. \A k \in 1..i : root[k] \in Triples
      <4>1. 1..i \subseteq 1..Len(root)
        BY <1>3, <1>4
      <4> QED BY <1>2, <4>1, ElementOfSeq
    <3> QED BY <1>4, <3>1, SubSeqProperties
  <2>3. y \in [1..m -> Seq(Triples)]
    BY <2>1, <2>2
  <2>4. y \in Seq(Seq(Triples)) /\ DOMAIN y = 1..m
    BY <1>4, <2>3
  <2>5. Len(y) \in Nat /\ DOMAIN y = 1..Len(y)
    BY <2>4, LenProperties
  <2> QED BY <1>4, <2>1, <2>4, <2>5
<1> DEFINE min == IF Len(x) < Len(y) THEN Len(x) ELSE Len(y)
           Shared(k) == (\A i \in 1..k : Agree(x[i], y[i])) /\ (k < min => ~Agree(x[k + 1], y[k + 1]))
           common == CHOOSE k \in 0..min : Shared(k)
<1>7. min = (IF n < m THEN n ELSE m) /\ min \in Nat
  BY <1>4, <1>5, <1>6
<1>8. Reconciled(x, y) = IF common < min THEN (IF common = 0 THEN "unrelated" ELSE "forked")
                         ELSE IF Len(x) = Len(y) THEN "in_sync" ELSE IF common = Len(x) THEN "remote_ahead" ELSE "local_ahead"
  BY Zenon DEF Reconciled
<1>9. common \in 0..min /\ Shared(common)
  <2>1. \E k \in 0..min : Shared(k)
    <3> HIDE DEF min
    <3> QED BY <1>7, CommonIs
  <2>2. common = CHOOSE k \in 0..min : Shared(k)
    OBVIOUS
  <2> HIDE DEF Shared, common
  <2> QED BY <2>1, <2>2, Zenon
<1> HIDE DEF min, common
<1>10. Reconciled(x, y) = IF common < min THEN (IF common = 0 THEN "unrelated" ELSE "forked")
                          ELSE IF n = m THEN "in_sync" ELSE IF common = n THEN "remote_ahead" ELSE "local_ahead"
  BY <1>5, <1>6, <1>8
<1>11. Reconciled(x, y) \in {"in_sync", "local_ahead"} <=> common = min /\ m <= n
  <2>1. CASE common < min
    <3>1. Reconciled(x, y) = "unrelated" \/ Reconciled(x, y) = "forked"
      BY <1>10, <2>1
    <3> QED BY <1>7, <1>9, <2>1, <3>1
  <2>2. CASE ~(common < min)
    <3>1. common = min
      BY <1>7, <1>9, <2>2
    <3>2. CASE n = m
      BY <1>4, <1>10, <2>2, <3>1, <3>2
    <3>3. CASE n < m
      BY <1>4, <1>7, <1>10, <2>2, <3>1, <3>3
    <3>4. CASE m < n
      BY <1>4, <1>7, <1>10, <2>2, <3>1, <3>4
    <3> QED BY <1>4, <3>2, <3>3, <3>4
  <2> QED BY <2>1, <2>2
<1>12. ASSUME m <= n PROVE common = min <=> \A i \in 1..m : x[i] = y[i]
  <2>1. min = m
    BY <1>4, <1>7, <1>12
  <2>2. ASSUME common = min PROVE \A i \in 1..m : x[i] = y[i]
    BY <1>9, <2>1, <2>2 DEF Agree
  <2>3. ASSUME \A i \in 1..m : x[i] = y[i], common # min PROVE FALSE
    <3>1. common < min /\ common + 1 \in 1..m
      BY <1>4, <1>9, <2>1, <2>3
    <3> QED BY <1>9, <2>3, <3>1 DEF Agree
  <2> QED BY <2>2, <2>3
<1>13. ASSUME m <= n PROVE (\A i \in 1..m : x[i] = y[i]) <=> \A i \in 1..m : chain[i].entry = SubSeq(root, 1, i)
  <2>1. 1..m \subseteq 1..n
    BY <1>4, <1>13
  <2> QED BY <1>5, <1>6, <2>1
<1>14. Reconciled(x, y) \in {"in_sync", "local_ahead"} <=> m <= n /\ \A i \in 1..m : chain[i].entry = SubSeq(root, 1, i)
  BY <1>11, <1>12, <1>13
<1> QED BY <1>2, <1>3, <1>14

\* The audit chain: it never forks on its own, it has no silent hole, and what a third party can check tells the truth, whatever anchors
\* run at once, in whichever order commitments commit, and whatever storage does to a row or to an event.
THEOREM AuditHoldsHolds == AuditSpec => []AuditHolds
<1>1. AuditInv => AuditHolds
  BY DamageFound, ReceiptIsProof, UndamagedDoes, NoHole, ReconcileDoes DEF AuditHolds, ChainIsWhole, EvidenceIsTrue
<1> QED BY <1>1, AuditInvHolds, PTL

-----------------------------------------------------------------------------
(* Side by side. *)

\* A post has the type of one.
LEMMA PostTypes == PostTyped => PostTypeOK
<1> SUFFICES ASSUME PostTyped PROVE PostTypeOK
  OBVIOUS
<1>1. /\ page \in [box : PagePosts \cup {Nil}, pending : PagePosts \cup {Nil}, conn : 0..MaxConns, up : BOOLEAN, stopped : BOOLEAN]
      /\ socket \in [Conns -> [wire : Seq(PagePosts), queue : Seq(PagePosts), accepted : {"opening", "yes", "refused", "failed"}]]
  BY DEF PostTyped, PageRow, SocketRow
<1>2. post \in [Posts -> [pc : {"none", "box", "wire", "queue"} \cup Running \cup Over,
                          conn : 0..MaxConns, todo : SUBSET Agents, cur : Agents \cup {Nil}, heard : Nat, since : Nat]]
  BY DEF PostTyped, PostRow, Pcs
<1>3. \A i \in DOMAIN log : log[i].id \in Ids /\ log[i].by \in People /\ log[i].names \subseteq Agents \cup {Stranger}
  <2>1. \A i \in DOMAIN log : log[i] \in Message
    BY ElementOfSeq, LenProperties DEF PostTyped
  <2> QED BY <2>1 DEF Message
<1>4. told \subseteq {"unknown", "noroute", "summon"} \X Ids \X (Agents \cup {Nil})
  BY DEF PostTyped, Telling
<1> QED BY <1>1, <1>2, <1>3, <1>4 DEF PostTyped, PostTypeOK

\* So have an event, the chain and an anchor.
LEMMA AuditTypes == AuditTyped => AuditTypeOK
<1> SUFFICES ASSUME AuditTyped PROVE AuditTypeOK
  OBVIOUS
<1>1. event \in [Commitments -> [state : {"none", "pending", "in", "deleted"}, body : {0, 1}, envelope : {0, 1}]]
  BY DEF AuditTyped, EventRow
<1> QED BY <1>1, ChainPlace DEF AuditTyped, AuditTypeOK

\* The components beside one another: a behaviour of all of them is one of each.
LEMMA EachBegins == Init => PostInit /\ PapersInit /\ SummaryInit /\ AuditInit
BY DEF Init

\* A step of one component is a step of it, and leaves the others as they are.
LEMMA EachGoesOn == [Next]_roomVars => [PostNext]_postVars /\ [PapersNext]_paperVars /\ [SummaryNext]_summaryVars /\ [AuditNext]_auditVars
<1>1. CASE UNCHANGED roomVars
  BY <1>1 DEF roomVars
<1>2. CASE Next
  BY <1>2 DEF Next
<1> QED BY <1>1, <1>2

\* So each keeps to its own specification.
LEMMA EachIsItself == Spec => PostSpec /\ PapersSpec /\ SummarySpec /\ AuditSpec
BY EachBegins, EachGoesOn, PTL DEF Spec, PostSpec, PapersSpec, SummarySpec, AuditSpec

\* What is said in a room, pinned to it, remembered of it and chained from it keeps its promises in any behaviour in which each of
\* them moves as its own module says.
THEOREM RoomsKeepTheirWord == Spec => [](PostsHold /\ PapersAgree /\ MemoryIsWhole /\ AuditHolds)
BY EachIsItself, PostsHoldHolds, PapersAgreeHolds, MemoryIsWholeHolds, AuditHoldsHolds, PTL

\* Every variable of a room keeps its type.
THEOREM TypeInvariant == Spec => []TypeOK
<1>1. PostInv => PostTypeOK
  BY PostTypes DEF PostInv
<1>2. AuditInv => AuditTypeOK
  BY AuditTypes DEF AuditInv
<1>3. PostTypeOK /\ PapersTypeOK /\ SummaryTypeOK /\ AuditTypeOK => TypeOK
  BY DEF TypeOK
<1> QED BY <1>1, <1>2, <1>3, EachIsItself, PostInvHolds, AuditInvHolds, PapersTypes, SummaryTypes, PTL
=============================================================================
