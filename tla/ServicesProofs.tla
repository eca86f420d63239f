--------------------------- MODULE ServicesProofs ---------------------------
(***************************************************************************)
(* Proofs about Services, for any number of requests and rows of each      *)
(* service, any limit and any window.                                      *)
(***************************************************************************)
EXTENDS Services, FiniteSetTheorems, SequenceTheorems, TLAPS

historyVars == <<turn, limiterVars, approvalVars, memoryVars, workspaceVars,
                 departmentVars, bridgeVars>>

\* A step of the whole is a step of one service and leaves the others alone, so
\* what a service preserves by itself holds of it here.
LEMMA StepOfEach ==
    ASSUME [HistoryNext]_historyVars
    PROVE  /\ [LimiterNext]_limiterVars
           /\ [A!Next]_approvalVars
           /\ [MemoryNext]_memoryVars
           /\ [WorkspaceNext]_workspaceVars
           /\ [DepartmentNext]_departmentVars
           /\ [BridgeNext]_bridgeVars
BY DEF HistoryNext, historyVars, limiterVars, approvalVars, memoryVars, workspaceVars,
       departmentVars, bridgeVars

-----------------------------------------------------------------------------
(* RateLimiter *)

\* The ages of attempts, oldest first.
Ages == {ages \in Seq(0..R!Window) : \A i, j \in 1..Len(ages) : i < j => ages[i] >= ages[j]}

LEMMA WindowIsNatural == R!Window \in Nat /\ R!Window > 0
<1>1. \A x, y \in Nat \ {0} : x * y \in Nat /\ x * y > 0
  OBVIOUS
<1> QED
  BY <1>1, ServicesAssumption DEF R!Window, R!LimiterAssumption

LEMMA AgesFields ==
    ASSUME NEW ages \in Ages
    PROVE  /\ Len(ages) \in Nat /\ DOMAIN ages = 1..Len(ages)
           /\ \A i \in 1..Len(ages) : ages[i] \in 0..R!Window
           /\ \A i, j \in 1..Len(ages) : i < j => ages[i] >= ages[j]
<1>1. ages \in Seq(0..R!Window)
  BY DEF Ages
<1>2. Len(ages) \in Nat /\ ages \in [1..Len(ages) -> 0..R!Window] /\ DOMAIN ages = 1..Len(ages)
  BY <1>1, LenProperties
<1> QED
  BY <1>2 DEF Ages

LEMMA AgesOf ==
    ASSUME NEW n \in Nat, NEW f \in [1..n -> 0..R!Window],
           \A i, j \in 1..n : i < j => f[i] >= f[j]
    PROVE  f \in Ages /\ Len(f) = n
<1>1. f \in Seq(0..R!Window)
  BY SeqDef
<1>2. Len(f) = n
  BY <1>1, LenProperties
<1> QED
  BY <1>1, <1>2 DEF Ages

\* Those that no longer count come first.
LEMMA ExpiredFirst ==
    ASSUME NEW ages \in Ages
    PROVE  \E n \in 0..Len(ages) : \A i \in 1..Len(ages) : ages[i] < R!Window <=> i > n
<1> DEFINE E == {i \in 1..Len(ages) : ~(ages[i] < R!Window)}
           n == Cardinality(E)
<1>1. /\ Len(ages) \in Nat
      /\ \A i \in 1..Len(ages) : ages[i] \in 0..R!Window
      /\ \A i, j \in 1..Len(ages) : i < j => ages[i] >= ages[j]
  BY AgesFields
<1>2. \A m \in Nat : IsFiniteSet(1..m) /\ Cardinality(1..m) = m
  BY FS_Interval
<1>3. /\ IsFiniteSet(E) /\ n \in 0..Len(ages)
      /\ \A m \in Nat : E \subseteq 1..m => n <= m
      /\ \A m \in Nat : 1..m \subseteq E => m <= n
  <2>1. IsFiniteSet(E)
    BY <1>1, <1>2, FS_Subset
  <2>2. n \in Nat
    BY <2>1, FS_CardinalityType
  <2>3. \A m \in Nat : E \subseteq 1..m => n <= m
    BY <1>2, FS_Subset
  <2>4. \A m \in Nat : 1..m \subseteq E => m <= n
    BY <1>2, <2>1, FS_Subset
  <2>5. n <= Len(ages)
    BY <1>1, <2>3
  <2>6. n \in 0..Len(ages)
    BY <1>1, <2>2, <2>5
  <2> HIDE DEF E
  <2> QED
    BY <2>1, <2>3, <2>4, <2>6
<1>4. ASSUME NEW i \in 1..Len(ages) PROVE ages[i] < R!Window <=> i > n
  <2>1. CASE ages[i] < R!Window
    <3>1. E \subseteq 1..(i - 1)
      BY <1>1, <2>1, WindowIsNatural
    <3> QED
      BY <1>1, <1>3, <2>1, <3>1
  <2>2. CASE ~(ages[i] < R!Window)
    <3>1. 1..i \subseteq E
      BY <1>1, <2>2, WindowIsNatural
    <3>2. i \in Nat /\ n \in Nat
      BY <1>1, <1>3
    <3>3. i <= n
      BY <1>3, <3>1, <3>2
    <3> QED
      BY <2>2, <3>2, <3>3
  <2> QED
    BY <2>1, <2>2
<1> QED
  BY <1>3, <1>4

\* What pruning keeps, where the first n do not count and the others do.
LEMMA PrunedFrom ==
    ASSUME NEW ages \in Ages, NEW n \in 0..Len(ages),
           \A i \in 1..Len(ages) : ages[i] < R!Window <=> i > n
    PROVE  /\ R!Pruned(ages) \in Ages
           /\ Len(R!Pruned(ages)) = Len(ages) - n
           /\ \A i \in 1..(Len(ages) - n) : R!Pruned(ages)[i] = ages[n + i]
<1> DEFINE Splits(i) == \A j \in DOMAIN ages : ages[j] < R!Window <=> j >= i
           first == CHOOSE i \in 1..(Len(ages) + 1) : Splits(i)
<1>1. /\ Len(ages) \in Nat /\ DOMAIN ages = 1..Len(ages)
      /\ \A i \in 1..Len(ages) : ages[i] \in 0..R!Window
      /\ \A i, j \in 1..Len(ages) : i < j => ages[i] >= ages[j]
  BY AgesFields
<1>2. n + 1 \in 1..(Len(ages) + 1) /\ Splits(n + 1)
  BY <1>1
<1>3. first \in 1..(Len(ages) + 1) /\ Splits(first)
  BY <1>2
<1>4. R!Pruned(ages) = SubSeq(ages, first, Len(ages))
  BY DEF R!Pruned
<1> HIDE DEF first
<1>5. first = n + 1
  <2>1. CASE first < n + 1
    BY <1>1, <1>2, <1>3, <2>1
  <2>2. CASE first > n + 1
    BY <1>1, <1>2, <1>3, <2>2
  <2> QED
    BY <1>1, <1>3, <2>1, <2>2
<1>6. /\ R!Pruned(ages) \in Seq(0..R!Window)
      /\ Len(R!Pruned(ages)) = Len(ages) - n
      /\ \A i \in 1..(Len(ages) - n) : R!Pruned(ages)[i] = ages[n + i]
  <2>1. \A i \in (n + 1)..Len(ages) : ages[i] \in 0..R!Window
    BY <1>1
  <2> DEFINE from == n + 1
             to == Len(ages)
  <2>2. from \in Int /\ to \in Int /\ \A i \in from..to : ages[i] \in 0..R!Window
    BY <1>1, <2>1
  <2> HIDE DEF from, to
  <2>3. /\ SubSeq(ages, from, to) \in Seq(0..R!Window)
        /\ Len(SubSeq(ages, from, to)) = IF from <= to THEN to - from + 1 ELSE 0
        /\ \A i \in 1..(to - from + 1) : SubSeq(ages, from, to)[i] = ages[from + i - 1]
    BY <2>2, SubSeqProperties
  <2>4. R!Pruned(ages) = SubSeq(ages, from, to)
    BY <1>4, <1>5 DEF from, to
  <2>5. from <= to + 1 /\ to - from + 1 = Len(ages) - n /\ Len(ages) - n \in Nat
    BY <1>1 DEF from, to
  <2>6. \A i \in 1..(Len(ages) - n) : from + i - 1 = n + i
    BY <1>1 DEF from
  <2>7. Len(R!Pruned(ages)) = Len(ages) - n
    BY <2>2, <2>3, <2>4, <2>5
  <2> QED
    BY <2>3, <2>4, <2>5, <2>6, <2>7
<1>7. \A i, j \in 1..(Len(ages) - n) : i < j => ages[n + i] >= ages[n + j]
  BY <1>1
<1> QED
  BY <1>1, <1>6, <1>7 DEF Ages

LEMMA PrunedSequence ==
    ASSUME NEW ages \in Ages
    PROVE  /\ R!Pruned(ages) \in Ages
           /\ Len(R!Pruned(ages)) <= Len(ages)
           /\ \A i \in 1..Len(R!Pruned(ages)) : R!Pruned(ages)[i] < R!Window
<1>1. PICK n \in 0..Len(ages) : \A i \in 1..Len(ages) : ages[i] < R!Window <=> i > n
  BY ExpiredFirst
<1>2. Len(ages) \in Nat
  BY AgesFields
<1>3. /\ R!Pruned(ages) \in Ages
      /\ Len(R!Pruned(ages)) = Len(ages) - n
      /\ \A i \in 1..(Len(ages) - n) : R!Pruned(ages)[i] = ages[n + i]
  BY <1>1, PrunedFrom
<1>4. \A i \in 1..(Len(ages) - n) : n + i \in 1..Len(ages) /\ n + i > n
  BY <1>2
<1> QED
  BY <1>1, <1>2, <1>3, <1>4

\* What counts is kept as it is.
LEMMA NothingPruned ==
    ASSUME NEW ages \in Ages, \A i \in 1..Len(ages) : ages[i] < R!Window
    PROVE  R!Pruned(ages) = ages
<1>1. /\ Len(ages) \in Nat /\ ages \in Seq(0..R!Window) /\ 0 \in 0..Len(ages)
      /\ \A i \in 1..Len(ages) : ages[i] < R!Window <=> i > 0
  BY AgesFields DEF Ages
<1>2. /\ R!Pruned(ages) \in Ages
      /\ Len(R!Pruned(ages)) = Len(ages) - 0
      /\ \A i \in 1..(Len(ages) - 0) : R!Pruned(ages)[i] = ages[0 + i]
  BY <1>1, PrunedFrom
<1>3. /\ R!Pruned(ages) \in Seq(0..R!Window)
      /\ Len(R!Pruned(ages)) = Len(ages)
      /\ \A i \in 1..Len(R!Pruned(ages)) : R!Pruned(ages)[i] = ages[i]
  BY <1>1, <1>2 DEF Ages
<1> QED
  BY <1>1, <1>3, SeqEqual

LEMMA PrunedTwice ==
    ASSUME NEW ages \in Ages
    PROVE  R!Pruned(R!Pruned(ages)) = R!Pruned(ages)
BY PrunedSequence, NothingPruned

LEMMA NoAges == <<>> \in Ages /\ R!Pruned(<<>>) = <<>> /\ Len(<<>>) = 0
<1>1. <<>> \in Ages /\ Len(<<>>) = 0
  BY EmptySeq DEF Ages
<1> QED
  BY <1>1, NothingPruned

\* A failed attempt counts.
LEMMA AttemptAdded ==
    ASSUME NEW ages \in Ages
    PROVE  LET more == Append(R!Pruned(ages), 0) IN
           /\ more \in Ages
           /\ R!Pruned(more) = more
           /\ Len(more) = Len(R!Pruned(ages)) + 1
<1> DEFINE s == R!Pruned(ages)
           more == Append(s, 0)
<1>1. /\ s \in Ages /\ s \in Seq(0..R!Window) /\ Len(s) \in Nat
      /\ \A i \in 1..Len(s) : s[i] \in 0..R!Window /\ s[i] < R!Window
      /\ \A i, j \in 1..Len(s) : i < j => s[i] >= s[j]
  BY PrunedSequence, AgesFields DEF Ages
<1>2. 0 \in 0..R!Window /\ 0 < R!Window
  BY WindowIsNatural
<1> HIDE DEF s
<1>3. /\ more \in Seq(0..R!Window) /\ Len(more) = Len(s) + 1
      /\ \A i \in 1..Len(s) : more[i] = s[i]
      /\ more[Len(s) + 1] = 0
  BY <1>1, <1>2, AppendProperties
<1> HIDE DEF more
<1>4. /\ \A i \in 1..Len(more) : more[i] < R!Window
      /\ \A i, j \in 1..Len(more) : i < j => more[i] >= more[j]
  BY <1>1, <1>2, <1>3
<1>5. more \in Ages
  BY <1>3, <1>4 DEF Ages
<1> QED
  BY <1>3, <1>4, <1>5, NothingPruned DEF more, s

\* When time passes no attempt begins to count; and while none ceases to, the
\* oldest is a tick older.
LEMMA AttemptsAge ==
    ASSUME NEW ages \in Ages
    PROVE  LET older == [i \in DOMAIN ages |->
                           IF ages[i] < R!Window THEN ages[i] + 1 ELSE R!Window] IN
           /\ older \in Ages
           /\ Len(R!Pruned(older)) <= Len(R!Pruned(ages))
           /\ Len(R!Pruned(older)) = Len(R!Pruned(ages)) /\ Len(R!Pruned(ages)) > 0
                 => R!Pruned(older)[1] = R!Pruned(ages)[1] + 1
<1> DEFINE older == [i \in DOMAIN ages |->
                       IF ages[i] < R!Window THEN ages[i] + 1 ELSE R!Window]
<1>1. /\ Len(ages) \in Nat /\ DOMAIN ages = 1..Len(ages)
      /\ \A i \in 1..Len(ages) : ages[i] \in 0..R!Window
      /\ \A i, j \in 1..Len(ages) : i < j => ages[i] >= ages[j]
  BY AgesFields
<1>2. /\ older \in [1..Len(ages) -> 0..R!Window]
      /\ \A i, j \in 1..Len(ages) : i < j => older[i] >= older[j]
      /\ \A i \in 1..Len(ages) : older[i] = IF ages[i] < R!Window THEN ages[i] + 1 ELSE R!Window
  BY <1>1, WindowIsNatural
<1> HIDE DEF older
<1>3. older \in Ages /\ Len(older) = Len(ages)
  BY <1>1, <1>2, AgesOf
<1>4. PICK n \in 0..Len(ages) : \A i \in 1..Len(ages) : ages[i] < R!Window <=> i > n
  BY ExpiredFirst
<1>5. PICK m \in 0..Len(ages) : \A i \in 1..Len(ages) : older[i] < R!Window <=> i > m
  BY <1>3, ExpiredFirst
<1>6. n <= m
  <2>1. SUFFICES ASSUME m < n PROVE FALSE
    BY <1>1
  <2>2. n \in 1..Len(ages) /\ n > m /\ ~(n > n)
    BY <1>1, <2>1
  <2> QED
    BY <1>1, <1>2, <1>4, <1>5, <2>2, WindowIsNatural
<1>7. /\ Len(R!Pruned(ages)) = Len(ages) - n
      /\ \A i \in 1..(Len(ages) - n) : R!Pruned(ages)[i] = ages[n + i]
  BY <1>4, PrunedFrom
<1>8. /\ Len(R!Pruned(older)) = Len(ages) - m
      /\ \A i \in 1..(Len(ages) - m) : R!Pruned(older)[i] = older[m + i]
  BY <1>3, <1>5, PrunedFrom
<1>9. ASSUME m = n, Len(ages) - n > 0 PROVE R!Pruned(older)[1] = R!Pruned(ages)[1] + 1
  <2>1. n + 1 \in 1..Len(ages) /\ 1 \in 1..(Len(ages) - n)
    BY <1>1, <1>9
  <2>2. R!Pruned(ages)[1] = ages[n + 1] /\ R!Pruned(older)[1] = older[n + 1]
    BY <1>7, <1>8, <1>9, <2>1
  <2> QED
    BY <1>2, <1>4, <2>1, <2>2
<1> QED
  BY <1>1, <1>3, <1>6, <1>7, <1>8, <1>9 DEF older

\* The requests in flight of a client.
Workers(c) == {h \in Handler : working[h] = c}

\* While the requests of a client do not overlap, the one in flight has room for
\* its attempt, and the client waits at least until its oldest attempt ends.
Single(c) ==
    /\ ~Overlaps(c)
    /\ Len(R!Counted(c)) <= MaxRequests
    /\ Workers(c) # {} => Len(R!Counted(c)) < MaxRequests
    /\ due[c] # None /\ R!Refuses(c) => due[c] >= R!Window - R!Counted(c)[1]

LimiterInv ==
    /\ attempts \in [Client -> Ages]
    /\ working \in [Handler -> Client \cup {None}]
    /\ due \in [Client -> Nat \cup {None}]
    /\ \A c \in Client :
          Len(R!Counted(c)) + Cardinality(Workers(c)) <= MaxRequests - 1 + Cardinality(Handler)
    /\ \A c \in Client \ overlapped : Single(c)

LEMMA CountedAges ==
    ASSUME LimiterInv, NEW c \in Client
    PROVE  /\ attempts[c] \in Ages /\ R!Counted(c) \in Ages
           /\ Len(R!Counted(c)) \in Nat
           /\ \A i \in 1..Len(R!Counted(c)) : R!Counted(c)[i] \in 0..(R!Window - 1)
<1>1. attempts[c] \in Ages
  BY DEF LimiterInv
<1>2. R!Counted(c) \in Ages /\ \A i \in 1..Len(R!Counted(c)) : R!Counted(c)[i] < R!Window
  BY <1>1, PrunedSequence DEF R!Counted
<1>3. \A i \in 1..Len(R!Counted(c)) : R!Counted(c)[i] \in 0..R!Window
  BY <1>2, AgesFields
<1>4. Len(R!Counted(c)) \in Nat
  BY <1>2, AgesFields
<1> QED
  BY <1>1, <1>2, <1>3, <1>4, WindowIsNatural

LEMMA WorkersCounted ==
    ASSUME NEW S \in SUBSET Handler
    PROVE  /\ Cardinality(S) \in Nat /\ Cardinality(Handler) \in Nat
           /\ Cardinality(S) <= Cardinality(Handler)
           /\ \A T \in SUBSET S : Cardinality(T) <= Cardinality(S)
           /\ \A h \in S : Cardinality(S \ {h}) = Cardinality(S) - 1
<1>1. IsFiniteSet(Handler) /\ IsFiniteSet(S)
  BY ServicesAssumption, FS_Subset
<1> QED
  BY <1>1, FS_Subset, FS_CardinalityType, FS_RemoveElement

\* What a step does to the attempts of c that count, and to its requests.
LimiterEffect(c) ==
    \/ UNCHANGED R!Counted(c) /\ UNCHANGED Workers(c)
    \/ /\ UNCHANGED R!Counted(c) /\ ~R!Refuses(c)
       /\ \E h \in Handler \ Workers(c) : Workers(c)' = Workers(c) \cup {h}
    \/ /\ \E h \in Workers(c) : Workers(c)' = Workers(c) \ {h}
       /\ Len(R!Counted(c)') <= Len(R!Counted(c)) + 1
    \/ R!Counted(c)' = <<>> /\ Workers(c)' = {}
    \/ Len(R!Counted(c)') <= Len(R!Counted(c)) /\ UNCHANGED Workers(c)

\* The attempts that are recorded count, and pruning once is enough.
LEMMA RecordedAges ==
    ASSUME LimiterInv
    PROVE  /\ <<>> \in Ages /\ R!Pruned(<<>>) = <<>> /\ Len(<<>>) = 0
           /\ \A c \in Client :
                 /\ R!Counted(c) \in Ages /\ Len(R!Counted(c)) \in Nat
                 /\ R!Pruned(R!Counted(c)) = R!Counted(c)
                 /\ Append(R!Counted(c), 0) \in Ages
                 /\ R!Pruned(Append(R!Counted(c), 0)) = Append(R!Counted(c), 0)
                 /\ Len(Append(R!Counted(c), 0)) = Len(R!Counted(c)) + 1
BY NoAges, CountedAges, PrunedTwice, AttemptAdded DEF R!Counted, LimiterInv

LEMMA LimiterTyped ==
    ASSUME LimiterInv, R!Next
    PROVE  /\ attempts' \in [Client -> Ages]
           /\ working' \in [Handler -> Client \cup {None}]
<1> USE DEF LimiterInv
<1>1. CASE \E h \in Handler : \E c \in Client : R!Refuse(h, c) \/ R!Admit(h, c)
  BY <1>1, RecordedAges DEF R!Refuse, R!Admit
<1>2. ASSUME NEW h \in Handler, R!Deny(h) \/ R!Grant(h) \/ R!Fail(h)
      PROVE  /\ attempts' \in [Client -> Ages]
             /\ working' \in [Handler -> Client \cup {None}]
  <2>1. working[h] \in Client
    BY <1>2 DEF R!Deny, R!Grant, R!Fail
  <2>2. CASE R!Deny(h)
    BY <2>1, <2>2, RecordedAges DEF R!Deny
  <2>3. CASE R!Grant(h)
    BY <2>1, <2>3, RecordedAges DEF R!Grant
  <2>4. CASE R!Fail(h)
    BY <2>1, <2>4, RecordedAges DEF R!Fail
  <2> QED
    BY <1>2, <2>2, <2>3, <2>4
<1>3. CASE R!Restart
  BY <1>3, RecordedAges DEF R!Restart
<1>4. CASE R!Tick
  <2>1. \A c \in Client : attempts'[c] \in Ages
    BY <1>4, AttemptsAge DEF R!Tick
  <2> QED
    BY <1>4, <2>1 DEF R!Tick
<1> QED
  BY <1>1, <1>2, <1>3, <1>4 DEF R!Next

LEMMA LimiterEffects ==
    ASSUME LimiterInv, R!Next, NEW c \in Client
    PROVE  LimiterEffect(c)
<1> USE DEF LimiterInv
<1>1. None \notin Client
  BY ServicesAssumption DEF R!LimiterAssumption
<1>2. /\ R!Pruned(<<>>) = <<>> /\ Len(<<>>) = 0 /\ Len(R!Counted(c)) \in Nat
      /\ R!Pruned(R!Counted(c)) = R!Counted(c)
      /\ R!Pruned(Append(R!Counted(c), 0)) = Append(R!Counted(c), 0)
      /\ Len(Append(R!Counted(c), 0)) = Len(R!Counted(c)) + 1
  BY RecordedAges
<1>3. CASE \E h \in Handler, x \in Client : R!Refuse(h, x)
  <2>1. R!Counted(c)' = R!Counted(c) /\ UNCHANGED working
    BY <1>2, <1>3 DEF R!Refuse, R!Counted
  <2> QED
    BY <2>1 DEF LimiterEffect, Workers
<1>4. ASSUME NEW h \in Handler, NEW x \in Client, R!Admit(h, x)
      PROVE  LimiterEffect(c)
  <2>1. R!Counted(c)' = R!Counted(c)
    BY <1>2, <1>4 DEF R!Admit, R!Counted
  <2>2. CASE x = c
    <3>1. h \notin Workers(c) /\ Workers(c)' = Workers(c) \cup {h}
      BY <1>1, <1>4, <2>2 DEF R!Admit, Workers
    <3> QED
      BY <1>4, <2>1, <2>2, <3>1 DEF LimiterEffect, R!Admit
  <2>3. CASE x # c
    <3>1. Workers(c)' = Workers(c)
      BY <1>1, <1>4, <2>3 DEF R!Admit, Workers
    <3> QED
      BY <2>1, <3>1 DEF LimiterEffect
  <2> QED
    BY <2>2, <2>3
<1>5. ASSUME NEW h \in Handler, R!Deny(h) \/ R!Grant(h) \/ R!Fail(h)
      PROVE  LimiterEffect(c)
  <2>1. working[h] \in Client /\ working' = [working EXCEPT ![h] = None]
    BY <1>5 DEF R!Deny, R!Grant, R!Fail
  <2>2. CASE working[h] = c
    <3>1. h \in Workers(c) /\ Workers(c)' = Workers(c) \ {h}
      BY <1>1, <2>1, <2>2 DEF Workers
    <3>2. CASE R!Deny(h)
      <4>1. R!Counted(c)' = Append(R!Counted(c), 0)
        BY <1>2, <2>2, <3>2 DEF R!Deny, R!Counted
      <4> QED
        BY <1>2, <3>1, <4>1 DEF LimiterEffect
    <3>3. CASE R!Grant(h)
      <4>1. R!Counted(c)' = <<>>
        BY <1>2, <2>2, <3>3 DEF R!Grant, R!Counted
      <4>2. Len(R!Counted(c)') <= Len(R!Counted(c)) + 1
        BY <1>2, <4>1
      <4> QED
        BY <3>1, <4>2 DEF LimiterEffect
    <3>4. CASE R!Fail(h)
      <4>1. R!Counted(c)' = R!Counted(c)
        BY <3>4 DEF R!Fail, R!Counted
      <4> QED
        BY <1>2, <3>1, <4>1 DEF LimiterEffect
    <3> QED
      BY <1>5, <3>2, <3>3, <3>4
  <2>3. CASE working[h] # c
    <3>1. Workers(c)' = Workers(c)
      BY <1>1, <2>1, <2>3 DEF Workers
    <3>2. R!Counted(c)' = R!Counted(c)
      BY <1>5, <2>3 DEF R!Deny, R!Grant, R!Fail, R!Counted
    <3> QED
      BY <3>1, <3>2 DEF LimiterEffect
  <2> QED
    BY <2>2, <2>3
<1>6. CASE R!Restart
  BY <1>1, <1>2, <1>6 DEF R!Restart, R!Counted, Workers, LimiterEffect
<1>7. CASE R!Tick
  <2>1. Len(R!Counted(c)') <= Len(R!Counted(c)) /\ UNCHANGED working
    BY <1>7, AttemptsAge DEF R!Tick, R!Counted
  <2> QED
    BY <2>1 DEF LimiterEffect, Workers
<1> QED
  BY <1>3, <1>4, <1>5, <1>6, <1>7 DEF R!Next

\* The wait a refused client is told is longer than its oldest attempt counts.
LEMMA WaitIsLongEnough ==
    ASSUME LimiterInv, NEW c \in Client, R!Refuses(c)
    PROVE  /\ 1 \in 1..Len(R!Counted(c))
           /\ R!RetryAfter(c) * Second \in Nat
           /\ R!RetryAfter(c) * Second > R!Window - R!Counted(c)[1]
<1>1. MaxRequests \in Nat \ {0} /\ Second \in Nat \ {0} /\ R!Window \in Nat
  BY ServicesAssumption, WindowIsNatural DEF R!LimiterAssumption
<1>2. 1 \in 1..Len(R!Counted(c))
  BY <1>1, CountedAges DEF R!Refuses
<1>3. R!Counted(c)[1] \in 0..(R!Window - 1)
  BY <1>2, CountedAges
<1>4. R!Window - R!Counted(c)[1] \in Nat
  BY <1>1, <1>3
<1>5. ASSUME NEW x \in Nat, NEW y \in Nat \ {0}
      PROVE  (x \div y + 1) * y \in Nat /\ (x \div y + 1) * y > x
  <2>1. x \div y \in Int /\ (x \div y + 1) * y > x
    BY <1>5
  <2>2. (x \div y + 1) * y \in Int
    BY <1>5, <2>1
  <2> QED
    BY <1>5, <2>1, <2>2
<1> QED
  BY <1>1, <1>2, <1>4, <1>5 DEF R!RetryAfter

\* No step takes the wait of a client that is still refused below what is left
\* of its oldest attempt.
LEMMA WaitStaysLongEnough ==
    ASSUME LimiterInv, LimiterNext, NEW c \in Client, Single(c),
           due'[c] # None, R!Refuses(c)'
    PROVE  due'[c] >= R!Window - R!Counted(c)'[1]
<1>1. /\ MaxRequests \in Nat \ {0} /\ R!Window \in Nat /\ None \notin Nat
      /\ due[c] \in Nat \cup {None}
  BY ServicesAssumption, WindowIsNatural DEF R!LimiterAssumption, LimiterInv
<1>2. CASE \E h \in Handler : R!Refuse(h, c)
  <2>1. R!Counted(c)' = R!Counted(c) /\ R!Refuses(c)
    BY <1>2, CountedAges, PrunedTwice DEF R!Refuse, R!Counted, LimiterInv
  <2>2. due'[c] = Told(c)
    BY <1>2 DEF LimiterNext
  <2>3. /\ R!RetryAfter(c) * Second \in Nat
        /\ R!RetryAfter(c) * Second > R!Window - R!Counted(c)[1]
        /\ R!Counted(c)[1] \in 0..(R!Window - 1)
    BY <2>1, WaitIsLongEnough, CountedAges
  <2> QED
    BY <1>1, <2>1, <2>2, <2>3 DEF Told, Single
<1>3. CASE /\ ~\E h \in Handler : R!Refuse(h, c)
           /\ \E h \in Handler : R!Admit(h, c) \/ (working[h] = c /\ working'[h] = None)
  BY <1>3 DEF LimiterNext
<1>4. CASE /\ ~\E h \in Handler : R!Refuse(h, c)
           /\ ~\E h \in Handler : R!Admit(h, c) \/ (working[h] = c /\ working'[h] = None)
  <2>1. due'[c] = IF R!Tick /\ due[c] \notin {None, 0} THEN due[c] - 1 ELSE due[c]
    BY <1>4 DEF LimiterNext
  <2>2. CASE R!Tick
    <3>1. /\ Len(R!Counted(c)') <= Len(R!Counted(c))
          /\ Len(R!Counted(c)') = Len(R!Counted(c)) /\ Len(R!Counted(c)) > 0
                => R!Counted(c)'[1] = R!Counted(c)[1] + 1
      BY <2>2, AttemptsAge DEF R!Tick, R!Counted, LimiterInv
    <3>2. Len(R!Counted(c)') >= MaxRequests /\ Len(R!Counted(c)) <= MaxRequests
      BY DEF R!Refuses, Single
    <3>3. Len(R!Counted(c)') \in Nat
      BY <2>2, AttemptsAge, AgesFields, PrunedSequence DEF R!Tick, R!Counted, LimiterInv
    <3>4. R!Refuses(c) /\ R!Counted(c)'[1] = R!Counted(c)[1] + 1
      BY <1>1, <3>1, <3>2, <3>3, CountedAges DEF R!Refuses
    <3>5. R!Counted(c)[1] \in 0..(R!Window - 1)
      BY <3>4, WaitIsLongEnough, CountedAges
    <3> QED
      BY <1>1, <2>1, <2>2, <3>4, <3>5 DEF Single
  <2>3. CASE ~R!Tick
    <3>1. due'[c] = due[c]
      BY <2>1, <2>3
    <3>2. R!Counted(c)' = R!Counted(c)
      <4>1. CASE R!Restart
        <5>1. R!Counted(c)' = <<>>
          BY <4>1, NoAges DEF R!Restart, R!Counted
        <5> QED
          BY <1>1, <5>1, NoAges DEF R!Refuses
      <4>2. CASE \E h \in Handler : R!Deny(h) \/ R!Grant(h) \/ R!Fail(h)
        <5>1. PICK h \in Handler : R!Deny(h) \/ R!Grant(h) \/ R!Fail(h)
          BY <4>2
        <5>2. working'[h] = None
          BY <5>1 DEF R!Deny, R!Grant, R!Fail, LimiterInv
        <5>3. working[h] # c
          BY <1>4, <5>2
        <5> QED
          BY <5>1, <5>3 DEF R!Deny, R!Grant, R!Fail, R!Counted, LimiterInv
      <4>3. CASE \E h \in Handler, x \in Client : R!Refuse(h, x) \/ R!Admit(h, x)
        BY <1>4, <4>3 DEF R!Refuse, R!Admit, R!Counted, LimiterInv
      <4> QED
        BY <2>3, <4>1, <4>2, <4>3 DEF LimiterNext, R!Next
    <3> QED
      BY <3>1, <3>2 DEF Single, R!Refuses
  <2> QED
    BY <2>2, <2>3
<1> QED
  BY <1>2, <1>3, <1>4

LEMMA LimiterStart == LimiterInit => LimiterInv
<1> SUFFICES ASSUME LimiterInit PROVE LimiterInv
  OBVIOUS
<1>1. MaxRequests \in Nat \ {0} /\ None \notin Client /\ IsFiniteSet(Handler)
  BY ServicesAssumption DEF R!LimiterAssumption
<1>2. attempts \in [Client -> Ages] /\ \A c \in Client : R!Counted(c) = <<>>
  BY NoAges DEF LimiterInit, R!Init, R!Counted
<1>3. \A c \in Client : Workers(c) = {} /\ ~Overlaps(c) /\ due[c] = None
  BY <1>1 DEF LimiterInit, R!Init, Workers, Overlaps
<1>4. /\ Cardinality({}) = 0 /\ Cardinality(Handler) \in Nat
      /\ 0 <= MaxRequests - 1 + Cardinality(Handler)
  BY <1>1, FS_EmptySet, FS_CardinalityType
<1>5. \A c \in Client :
         Len(R!Counted(c)) + Cardinality(Workers(c)) <= MaxRequests - 1 + Cardinality(Handler)
  <2> TAKE c \in Client
  <2>1. Len(R!Counted(c)) = 0 /\ Cardinality(Workers(c)) = 0
    BY <1>2, <1>3, <1>4, NoAges
  <2> QED
    BY <1>4, <2>1
<1>6. \A c \in Client : Single(c)
  BY <1>1, <1>2, <1>3, NoAges DEF Single
<1> QED
  BY <1>2, <1>5, <1>6 DEF LimiterInit, R!Init, LimiterInv

LEMMA LimiterStep == LimiterInv /\ [LimiterNext]_limiterVars => LimiterInv'
<1> SUFFICES ASSUME LimiterInv, [LimiterNext]_limiterVars PROVE LimiterInv'
  OBVIOUS
<1>1. CASE UNCHANGED limiterVars
  BY <1>1 DEF limiterVars, LimiterInv, Single, Overlaps, Workers, R!Counted, R!Refuses
<1>2. CASE LimiterNext
  <2>1. MaxRequests \in Nat \ {0}
    BY ServicesAssumption DEF R!LimiterAssumption
  <2>2. ASSUME NEW c \in Client
        PROVE  due'[c] \in Nat \cup {None}
    <3>1. due[c] \in Nat \cup {None}
      BY DEF LimiterInv
    <3>2. \A h \in Handler : R!Refuse(h, c) => Told(c) \in Nat
      BY <3>1, WaitIsLongEnough DEF R!Refuse, Told
    <3> QED
      BY <1>2, <3>1, <3>2 DEF LimiterNext
  <2>3. due' \in [Client -> Nat \cup {None}]
    BY <1>2, <2>2 DEF LimiterNext
  <2>4. ASSUME NEW c \in Client
        PROVE  /\ LimiterEffect(c)
               /\ Len(R!Counted(c)) \in Nat /\ Len(R!Counted(c)') \in Nat
               /\ Workers(c) \in SUBSET Handler /\ Workers(c)' \in SUBSET Handler
    <3>1. R!Next /\ attempts'[c] \in Ages /\ LimiterEffect(c)
      BY <1>2, LimiterTyped, LimiterEffects DEF LimiterNext
    <3>2. Len(R!Counted(c)') \in Nat
      BY <3>1, PrunedSequence, AgesFields DEF R!Counted
    <3> QED
      BY <3>1, <3>2, CountedAges DEF Workers
  <2>5. ASSUME NEW c \in Client
        PROVE  Len(R!Counted(c)') + Cardinality(Workers(c)') <=
                  MaxRequests - 1 + Cardinality(Handler)
    <3> DEFINE n == Len(R!Counted(c))
               m == Len(R!Counted(c)')
               before == Workers(c)
               after == Workers(c)'
    <3>1. /\ n \in Nat /\ m \in Nat
          /\ Cardinality(before) \in Nat /\ Cardinality(after) \in Nat
          /\ Cardinality(Handler) \in Nat /\ Cardinality(after) <= Cardinality(Handler)
          /\ n + Cardinality(before) <= MaxRequests - 1 + Cardinality(Handler)
      BY <2>4, WorkersCounted DEF LimiterInv
    <3>2. CASE m <= n /\ after = before
      BY <2>1, <3>1, <3>2
    <3>3. CASE m = n /\ ~R!Refuses(c)
      BY <2>1, <3>1, <3>3 DEF R!Refuses
    <3>4. CASE m <= n + 1 /\ \E h \in before : after = before \ {h}
      <4>1. Cardinality(after) = Cardinality(before) - 1
        BY <2>4, <3>4, WorkersCounted
      <4>2. m <= n + 1
        BY <3>4
      <4>3. m + Cardinality(after) <= MaxRequests - 1 + Cardinality(Handler)
        <5> HIDE DEF n, m, before, after
        <5> QED
          BY <2>1, <3>1, <4>1, <4>2
      <4> QED
        BY <4>3
    <3>5. CASE m = 0 /\ after = {}
      <4>1. Cardinality(after) = 0
        BY <3>5, FS_EmptySet
      <4> QED
        BY <2>1, <3>1, <3>5, <4>1
    <3> QED
      BY <2>4, <3>1, <3>2, <3>3, <3>4, <3>5, NoAges DEF LimiterEffect
  <2>6. ASSUME NEW c \in Client \ overlapped' PROVE Single(c)'
    <3>1. ~Overlaps(c)' /\ (c \notin overlapped \/ R!Counted(c)' = <<>>)
      BY <1>2, <2>6 DEF LimiterNext
    <3>2. CASE R!Counted(c)' = <<>>
      BY <2>1, <3>1, <3>2, NoAges DEF Single, R!Refuses
    <3>3. CASE c \notin overlapped
      <4>1. Single(c)
        BY <3>3 DEF LimiterInv
      <4>2. due'[c] # None /\ R!Refuses(c)' => due'[c] >= R!Window - R!Counted(c)'[1]
        BY <1>2, <4>1, WaitStaysLongEnough
      <4>3. /\ Len(R!Counted(c)') <= MaxRequests
            /\ Workers(c)' # {} => Len(R!Counted(c)') < MaxRequests
        <5>1. \A h, k \in Workers(c) : h = k
          BY <4>1 DEF Single, Overlaps, Workers
        <5> QED
          BY <2>1, <2>4, <4>1, <5>1, NoAges DEF LimiterEffect, Single, R!Refuses
      <4> QED
        BY <3>1, <4>2, <4>3 DEF Single
    <3> QED
      BY <3>1, <3>2, <3>3
  <2>7. attempts' \in [Client -> Ages] /\ working' \in [Handler -> Client \cup {None}]
    BY <1>2, LimiterTyped DEF LimiterNext
  <2> QED
    BY <2>3, <2>5, <2>6, <2>7 DEF LimiterInv
<1> QED
  BY <1>1, <1>2

LEMMA LimiterInvariance == HistorySpec => []LimiterInv
<1>1. HistoryInit => LimiterInv
  BY LimiterStart DEF HistoryInit
<1>2. LimiterInv /\ [HistoryNext]_historyVars => LimiterInv'
  BY StepOfEach, LimiterStep
<1> QED
  BY <1>1, <1>2, PTL DEF HistorySpec, historyVars

\* No more failed attempts count than the limit allows, and than the requests
\* that overlap can add to it.
THEOREM AttemptsAreBounded == HistorySpec => []AttemptsBounded
<1>1. ASSUME LimiterInv PROVE AttemptsBounded
  <2> SUFFICES ASSUME NEW c \in Client
               PROVE  /\ Len(R!Counted(c)) <= MaxRequests - 1 + Cardinality(Handler)
                      /\ c \notin overlapped => Len(R!Counted(c)) <= MaxRequests
    BY DEF AttemptsBounded
  <2>1. /\ MaxRequests \in Nat \ {0} /\ Len(R!Counted(c)) \in Nat
        /\ Cardinality(Workers(c)) \in Nat /\ Cardinality(Handler) \in Nat
    BY <1>1, ServicesAssumption, CountedAges, WorkersCounted DEF R!LimiterAssumption, Workers
  <2> QED
    BY <1>1, <2>1 DEF LimiterInv, Single
<1> QED
  BY <1>1, LimiterInvariance, PTL

\* A refused client that waits as long as it is told is let through.
THEOREM RetryAfterIsHonest == HistorySpec => []RetryAfterHonest
<1>1. ASSUME LimiterInv PROVE RetryAfterHonest
  <2> SUFFICES ASSUME NEW c \in Client, due[c] = 0, R!Refuses(c)
               PROVE  c \in overlapped
    BY DEF RetryAfterHonest
  <2>1. R!Counted(c)[1] \in 0..(R!Window - 1) /\ R!Window \in Nat /\ 0 # None
    BY <1>1, WaitIsLongEnough, CountedAges, WindowIsNatural, ServicesAssumption
  <2>2. CASE c \notin overlapped
    BY <1>1, <2>1, <2>2 DEF LimiterInv, Single
  <2> QED
    BY <2>2
<1> QED
  BY <1>1, LimiterInvariance, PTL

-----------------------------------------------------------------------------
(* Approvals *)

\* The request h has the row of its approval locked.
Deciding(h, a) == areq[h].pc = "decided" /\ areq[h].approval = a

\* A request that has locked an approval is alone with it, and it is pending.
ApprovalsInv ==
    /\ A!TypeOK
    /\ \A h \in Handler :
          areq[h].pc # "idle" => areq[h].approval \in DOMAIN approvals
    /\ \A h \in Handler, a \in Approval :
          Deciding(h, a) => /\ A!Pending(a)
                            /\ \A k \in Handler \ {h} : ~Deciding(k, a)

LEMMA ApprovalFields ==
    ASSUME NEW r \in A!Request
    PROVE  /\ r.pc \in {"idle", "deciding", "decided"}
           /\ r.pc # "idle" => r.approval \in Approval /\ r.decision \in A!Decision
           /\ r.pc = "deciding" =>
                /\ [r EXCEPT !.pc = "decided"] \in A!Request
                /\ [r EXCEPT !.pc = "decided"].pc = "decided"
                /\ [r EXCEPT !.pc = "decided"].approval = r.approval
BY DEF A!Request

LEMMA ApprovalIdle == A!Idle \in A!Request /\ A!Idle.pc = "idle"
BY DEF A!Idle, A!Request

LEMMA ApprovalsInit == A!Init => ApprovalsInv
BY ApprovalIdle DEF A!Init, ApprovalsInv, A!TypeOK, A!IsTable, A!EmptyTable, Deciding

LEMMA ApprovalsStep == ApprovalsInv /\ [A!Next]_approvalVars => ApprovalsInv'
<1> SUFFICES ASSUME ApprovalsInv, [A!Next]_approvalVars PROVE ApprovalsInv'
  OBVIOUS
<1> USE DEF ApprovalsInv, A!TypeOK
<1>1. ASSUME NEW a \in Approval, A!CreateApproval(a)
      PROVE  ApprovalsInv'
  <2>1. [status |-> "PENDING"] \in A!ApprovalRow
    BY DEF A!ApprovalRow
  <2>2. /\ A!IsTable(approvals', Approval, A!ApprovalRow)
        /\ DOMAIN approvals' = DOMAIN approvals \cup {a}
        /\ \A x \in DOMAIN approvals : approvals'[x] = approvals[x]
    BY <1>1, <2>1 DEF A!CreateApproval, A!IsTable, A!Inserted
  <2> QED
    BY <1>1, <2>2 DEF A!CreateApproval, A!Pending, Deciding
<1>2. ASSUME NEW h \in Handler, NEW a \in Approval, NEW d \in A!Decision,
             A!DecideBegin(h, a, d)
      PROVE  ApprovalsInv'
  <2>1. [pc |-> "deciding", approval |-> a, decision |-> d] \in A!Request
    BY DEF A!Request
  <2> QED
    BY <1>2, <2>1 DEF A!DecideBegin, A!Pending, Deciding
<1>3. ASSUME NEW h \in Handler, A!DecideLock(h)
      PROVE  ApprovalsInv'
  <2> DEFINE r == [areq[h] EXCEPT !.pc = "decided"]
  <2>1. areq' = [areq EXCEPT ![h] = r] /\ UNCHANGED approvals
    BY <1>3 DEF A!DecideLock
  <2>2. r \in A!Request /\ r.pc = "decided" /\ r.approval = areq[h].approval
    BY <1>3, ApprovalFields DEF A!DecideLock
  <2>3. \A k \in Handler : ~Deciding(k, areq[h].approval)
    BY <1>3 DEF A!DecideLock, A!Unlocked, Deciding
  <2>4. A!Pending(areq[h].approval) /\ areq[h].approval \in DOMAIN approvals
    BY <1>3 DEF A!DecideLock
  <2> HIDE DEF r
  <2> QED
    BY <2>1, <2>2, <2>3, <2>4 DEF A!Pending, Deciding
<1>4. ASSUME NEW h \in Handler, A!DecideCommit(h)
      PROVE  ApprovalsInv'
  <2>1. /\ areq[h].approval \in DOMAIN approvals
        /\ [status |-> areq[h].decision, by |-> h] \in A!ApprovalRow
    BY <1>4, ApprovalFields DEF A!DecideCommit, A!ApprovalRow
  <2>2. /\ A!IsTable(approvals', Approval, A!ApprovalRow)
        /\ DOMAIN approvals' = DOMAIN approvals
        /\ \A x \in DOMAIN approvals \ {areq[h].approval} : approvals'[x] = approvals[x]
    BY <1>4, <2>1 DEF A!DecideCommit, A!IsTable
  <2>3. areq' = [areq EXCEPT ![h] = A!Idle]
    BY <1>4 DEF A!DecideCommit, A!EndRequest
  <2>4. \A k \in Handler \ {h} : ~Deciding(k, areq[h].approval)
    BY <1>4, ApprovalFields DEF A!DecideCommit, Deciding
  <2> QED
    BY <2>2, <2>3, <2>4, ApprovalIdle DEF A!Pending, Deciding, A!IsTable
<1>5. ASSUME NEW h \in Handler, A!DecideDeny(h) \/ A!Abort(h)
      PROVE  ApprovalsInv'
  BY <1>5, ApprovalIdle DEF A!DecideDeny, A!Abort, A!EndRequest, A!Pending, Deciding
<1>6. CASE UNCHANGED approvalVars
  BY <1>6 DEF approvalVars, A!Pending, Deciding
<1> QED
  BY <1>1, <1>2, <1>3, <1>4, <1>5, <1>6 DEF A!Next

LEMMA ApprovalsInvariance == HistorySpec => []ApprovalsInv
<1>1. HistoryInit => ApprovalsInv
  BY ApprovalsInit DEF HistoryInit
<1>2. ApprovalsInv /\ [HistoryNext]_historyVars => ApprovalsInv'
  BY StepOfEach, ApprovalsStep
<1> QED
  BY <1>1, <1>2, PTL DEF HistorySpec, historyVars

\* A decision stands, whoever else decides the same approval at the same time.
THEOREM DecisionsStand == HistorySpec => DecisionStands
<1> DEFINE Stands == \A a \in DOMAIN approvals :
                        ~A!Pending(a) => a \in DOMAIN approvals' /\ approvals'[a] = approvals[a]
<1>1. ASSUME ApprovalsInv, A!Next PROVE Stands
  <2> TAKE a \in DOMAIN approvals
  <2> HAVE ~A!Pending(a)
  <2>1. ASSUME NEW h \in Handler, A!DecideCommit(h)
        PROVE  a \in DOMAIN approvals' /\ approvals'[a] = approvals[a]
    <3>1. Deciding(h, areq[h].approval) /\ areq[h].approval \in Approval
      BY <1>1, <2>1, ApprovalFields DEF A!DecideCommit, Deciding, ApprovalsInv, A!TypeOK
    <3>2. a # areq[h].approval
      BY <1>1, <3>1 DEF ApprovalsInv
    <3> QED
      BY <2>1, <3>2 DEF A!DecideCommit
  <2> QED
    BY <1>1, <2>1 DEF A!Next, A!CreateApproval, A!Inserted, A!DecideBegin, A!DecideLock,
                      A!DecideDeny, A!Abort
<1>2. ApprovalsInv /\ [HistoryNext]_historyVars => [Stands]_(A!approvalVars)
  BY <1>1, StepOfEach DEF approvalVars, A!approvalVars
<1> QED
  BY <1>2, ApprovalsInvariance, PTL DEF HistorySpec, historyVars, DecisionStands, A!DecisionStands

-----------------------------------------------------------------------------
(* Memories *)

\* The rows in S are one row at most, without counting them.
AtMostOne(S) == \A x, y \in S : x = y

LEMMA AtMostOneCounted == ASSUME NEW S, AtMostOne(S) PROVE Cardinality(S) <= 1
<1>1. CASE S = {}
  BY <1>1, FS_EmptySet
<1>2. CASE S # {}
  <2>1. PICK x : S = {x}
    BY <1>2 DEF AtMostOne
  <2>2. Cardinality({x}) = 1
    BY FS_Singleton, Zenon
  <2> QED
    BY <2>1, <2>2
<1> QED
  BY <1>1, <1>2

\* What a request that stores an item has seen of it is still true, while no
\* other request stores it.
SoundStore(h, i) ==
    /\ mreq[h].pc = "inserting" => M!RowsOf(i) = {}
    /\ mreq[h].pc = "updating" => mreq[h].seen = memories[mreq[h].memory].version

\* Each store is counted, and one request at a time stores an item.
Counts(i) ==
    /\ AtMostOne(M!RowsOf(i))
    /\ M!RowsOf(i) = {} => stores[i] = 0
    /\ \A r \in M!RowsOf(i) : memories[r].version = stores[i]
    /\ \A h, k \in Handler : Stores(h, i) /\ Stores(k, i) => h = k
    /\ \A h \in Handler : Stores(h, i) => SoundStore(h, i)

MemoriesInv ==
    /\ M!TypeOK
    /\ stores \in [Item -> Nat]
    /\ \A h \in Handler : mreq[h].pc = "updating" => mreq[h].memory \in DOMAIN memories
    /\ \A i \in Item \ raced : Counts(i)

LEMMA StoreFields ==
    ASSUME NEW r \in M!Request
    PROVE  /\ r.pc \in {"idle", "inserting", "updating"}
           /\ r.pc = "inserting" => r.item \in Item
           /\ r.pc = "updating" => r.memory \in Memory /\ r.seen \in Nat
BY DEF M!Request

LEMMA StoreIdle == M!Idle \in M!Request /\ M!Idle.pc = "idle"
BY DEF M!Idle, M!Request

LEMMA MemoriesInit == MemoryInit => MemoriesInv
BY StoreIdle DEF MemoryInit, M!Init, MemoriesInv, M!TypeOK, M!IsTable, M!EmptyTable,
                 Counts, AtMostOne, M!RowsOf, Stores, SoundStore

\* The history of a step says which stores have met after it.
LEMMA NotRaced ==
    ASSUME MemoryNext, NEW i \in Item, i \notin raced'
    PROVE  /\ i \notin raced
           /\ \A h, k \in Handler : Stores(h, i)' /\ Stores(k, i)' => h = k
BY DEF MemoryNext

LEMMA StoresTyped ==
    ASSUME stores \in [Item -> Nat], MemoryNext
    PROVE  stores' \in [Item -> Nat]
<1>1. \A i \in Item : stores[i] \in Nat /\ stores[i] + 1 \in Nat
  OBVIOUS
<1> QED
  BY <1>1 DEF MemoryNext

\* A step that changes no row, and the request h alone.
LEMMA StoreUncommitted ==
    ASSUME MemoriesInv, MemoryNext, UNCHANGED memories,
           \A i \in Item \ raced : stores'[i] = stores[i],
           NEW h \in Handler, NEW r \in M!Request, mreq' = [mreq EXCEPT ![h] = r],
           r.pc = "inserting" => M!RowsOf(r.item) = {},
           r.pc = "updating" => /\ r.memory \in DOMAIN memories
                                /\ r.seen = memories[r.memory].version
    PROVE  MemoriesInv'
<1>1. /\ mreq'[h] = r
      /\ \A k \in Handler \ {h} : mreq'[k] = mreq[k]
      /\ mreq' \in [Handler -> M!Request]
  BY DEF MemoriesInv, M!TypeOK
<1>2. ASSUME NEW i \in Item \ raced' PROVE Counts(i)'
  <2>1. Counts(i) /\ \A k, l \in Handler : Stores(k, i)' /\ Stores(l, i)' => k = l
    BY <1>2, NotRaced DEF MemoriesInv
  <2>2. M!RowsOf(i)' = M!RowsOf(i)
    BY DEF M!RowsOf
  <2>3. ASSUME NEW k \in Handler, Stores(k, i)' PROVE SoundStore(k, i)'
    <3>1. CASE k = h
      BY <1>1, <2>2, <2>3, <3>1 DEF Stores, SoundStore
    <3>2. CASE k # h
      <4>1. Stores(k, i) /\ SoundStore(k, i)
        BY <1>1, <2>1, <2>3, <3>2 DEF Stores, Counts
      <4> QED
        BY <1>1, <2>2, <3>2, <4>1 DEF SoundStore
    <3> QED
      BY <3>1, <3>2
  <2>4. stores'[i] = stores[i]
    BY <1>2, NotRaced
  <2> QED
    BY <2>1, <2>2, <2>3, <2>4 DEF Counts
<1> QED
  BY <1>1, <1>2, StoresTyped DEF MemoriesInv, M!TypeOK

\* Which item a commit of h stores.
LEMMA StoredByCommit ==
    ASSUME MemoriesInv, MemoryNext, NEW h \in Handler, NEW i \in Item, Stores(h, i),
           M!UpdateCommit(h) \/ \E r \in Memory : M!InsertCommit(h, r)
    PROVE  stores' = [stores EXCEPT ![i] = @ + 1]
<1>1. mreq' = [mreq EXCEPT ![h] = M!Idle] /\ mreq \in [Handler -> M!Request]
  BY DEF MemoriesInv, M!TypeOK, M!UpdateCommit, M!InsertCommit, M!EndRequest
<1>2. ASSUME NEW k \in Handler \ {h}
      PROVE  ~M!UpdateCommit(k) /\ \A r \in Memory : ~M!InsertCommit(k, r)
  BY <1>1, <1>2, StoreIdle DEF M!UpdateCommit, M!InsertCommit, M!EndRequest
<1>3. \A j \in Item : Stored(j) <=> Stores(h, j)
  BY <1>2 DEF Stored
<1>4. \A j \in Item : Stores(h, j) <=> j = i
  BY DEF Stores
<1> QED
  BY <1>3, <1>4 DEF MemoryNext, MemoriesInv

LEMMA InsertCounted ==
    ASSUME MemoriesInv, MemoryNext, NEW h \in Handler, NEW r \in Memory,
           M!InsertCommit(h, r)
    PROVE  MemoriesInv'
<1> DEFINE i == mreq[h].item
           row == [item |-> i, version |-> 1]
<1>1. i \in Item /\ mreq[h].pc = "inserting" /\ Stores(h, i)
  BY StoreFields DEF M!InsertCommit, MemoriesInv, M!TypeOK, Stores
<1>2. stores' = [stores EXCEPT ![i] = @ + 1]
  BY <1>1, StoredByCommit
<1>3. row \in M!MemoryRow /\ row.item = i /\ row.version = 1
  BY <1>1 DEF M!MemoryRow
<1>4. /\ M!IsTable(memories', Memory, M!MemoryRow)
      /\ DOMAIN memories' = DOMAIN memories \cup {r}
      /\ r \notin DOMAIN memories
      /\ memories'[r] = row
      /\ \A x \in DOMAIN memories : memories'[x] = memories[x]
  BY <1>3 DEF M!InsertCommit, MemoriesInv, M!TypeOK, M!IsTable, M!Inserted
<1>5. /\ mreq' = [mreq EXCEPT ![h] = M!Idle]
      /\ mreq' \in [Handler -> M!Request]
      /\ mreq'[h].pc = "idle"
      /\ \A k \in Handler \ {h} : mreq'[k] = mreq[k]
  BY StoreIdle DEF M!InsertCommit, M!EndRequest, MemoriesInv, M!TypeOK
<1> HIDE DEF row
<1>6. ASSUME NEW j \in Item \ raced' PROVE Counts(j)'
  <2>1. Counts(j) /\ \A k, l \in Handler : Stores(k, j)' /\ Stores(l, j)' => k = l
    BY <1>6, NotRaced DEF MemoriesInv
  <2>2. \A k \in Handler : Stores(k, j)' => k # h /\ Stores(k, j)
    BY <1>4, <1>5 DEF Stores, MemoriesInv
  <2>3. CASE j = i
    <3>1. M!RowsOf(j) = {} /\ stores[j] = 0
      BY <1>1, <2>1, <2>3 DEF Counts, SoundStore
    <3>2. M!RowsOf(j)' = {r}
      BY <1>3, <1>4, <2>3, <3>1 DEF M!RowsOf
    <3>3. stores'[j] = 1
      BY <1>2, <2>3, <3>1 DEF MemoriesInv
    <3>4. \A k \in Handler : ~Stores(k, j)'
      BY <1>1, <2>1, <2>2, <2>3 DEF Counts
    <3> QED
      BY <1>3, <1>4, <3>2, <3>3, <3>4 DEF Counts, AtMostOne
  <2>4. CASE j # i
    <3>1. M!RowsOf(j)' = M!RowsOf(j) /\ \A x \in M!RowsOf(j) : memories'[x] = memories[x]
      BY <1>3, <1>4, <2>4 DEF M!RowsOf
    <3>2. stores'[j] = stores[j]
      BY <1>2, <2>4 DEF MemoriesInv
    <3>3. \A k \in Handler : Stores(k, j)' => SoundStore(k, j)'
      BY <1>4, <1>5, <2>1, <2>2, <3>1 DEF Counts, SoundStore, MemoriesInv
    <3> QED
      BY <2>1, <3>1, <3>2, <3>3 DEF Counts
  <2> QED
    BY <2>3, <2>4
<1>7. stores' \in [Item -> Nat]
  BY StoresTyped DEF MemoriesInv
<1> QED
  BY <1>4, <1>5, <1>6, <1>7 DEF MemoriesInv, M!TypeOK

LEMMA UpdateCounted ==
    ASSUME MemoriesInv, MemoryNext, NEW h \in Handler, M!UpdateCommit(h)
    PROVE  MemoriesInv'
<1> DEFINE m == mreq[h].memory
           i == memories[m].item
           row == [memories[m] EXCEPT !.version = mreq[h].seen + 1]
<1>1. /\ mreq[h].pc = "updating" /\ m \in DOMAIN memories /\ mreq[h].seen \in Nat
      /\ memories[m] \in M!MemoryRow
  BY StoreFields DEF M!UpdateCommit, MemoriesInv, M!TypeOK, M!IsTable
<1>2. i \in Item /\ Stores(h, i)
  BY <1>1 DEF M!MemoryRow, Stores
<1>3. stores' = [stores EXCEPT ![i] = @ + 1]
  BY <1>2, StoredByCommit
<1>4. row \in M!MemoryRow /\ row.item = i /\ row.version = mreq[h].seen + 1
  BY <1>1 DEF M!MemoryRow
<1>5. memories' = [memories EXCEPT ![m] = row]
  BY DEF M!UpdateCommit
<1>6. /\ M!IsTable(memories', Memory, M!MemoryRow)
      /\ DOMAIN memories' = DOMAIN memories
      /\ memories'[m] = row
      /\ \A x \in DOMAIN memories \ {m} : memories'[x] = memories[x]
  BY <1>1, <1>4, <1>5 DEF MemoriesInv, M!TypeOK, M!IsTable
<1>7. /\ mreq' \in [Handler -> M!Request]
      /\ mreq'[h].pc = "idle"
      /\ \A k \in Handler \ {h} : mreq'[k] = mreq[k]
  BY StoreIdle DEF M!UpdateCommit, M!EndRequest, MemoriesInv, M!TypeOK
<1> HIDE DEF row
<1>8. ASSUME NEW j \in Item \ raced' PROVE Counts(j)'
  <2>1. Counts(j) /\ \A k, l \in Handler : Stores(k, j)' /\ Stores(l, j)' => k = l
    BY <1>8, NotRaced DEF MemoriesInv
  <2>2. \A k \in Handler : Stores(k, j)' => k # h /\ Stores(k, j)
    BY <1>1, <1>4, <1>6, <1>7 DEF Stores, MemoriesInv
  <2>3. M!RowsOf(j)' = M!RowsOf(j)
    BY <1>1, <1>4, <1>6 DEF M!RowsOf
  <2>4. CASE j = i
    <3>1. M!RowsOf(j) = {m} /\ mreq[h].seen = stores[j]
      BY <1>1, <1>2, <2>1, <2>4 DEF Counts, SoundStore, AtMostOne, M!RowsOf
    <3>2. stores'[j] = mreq[h].seen + 1
      BY <1>2, <1>3, <2>4, <3>1 DEF MemoriesInv
    <3>3. \A k \in Handler : ~Stores(k, j)'
      BY <1>2, <2>1, <2>2, <2>4 DEF Counts
    <3> QED
      BY <1>4, <1>6, <2>3, <3>1, <3>2, <3>3 DEF Counts, AtMostOne
  <2>5. CASE j # i
    <3>1. \A x \in M!RowsOf(j) : memories'[x] = memories[x]
      BY <1>6, <2>5 DEF M!RowsOf
    <3>2. stores'[j] = stores[j]
      BY <1>3, <2>5 DEF MemoriesInv
    <3>3. ASSUME NEW k \in Handler, Stores(k, j)' PROVE SoundStore(k, j)'
      <4>1. Stores(k, j) /\ SoundStore(k, j) /\ k # h
        BY <2>1, <2>2, <3>3 DEF Counts
      <4>2. mreq[k].pc = "updating" => mreq[k].memory \in M!RowsOf(j)
        BY <4>1 DEF Stores, M!RowsOf, MemoriesInv
      <4> QED
        BY <1>7, <2>3, <3>1, <4>1, <4>2 DEF SoundStore
    <3> QED
      BY <2>1, <2>3, <3>1, <3>2, <3>3 DEF Counts
  <2> QED
    BY <2>4, <2>5
<1>9. stores' \in [Item -> Nat]
  BY StoresTyped DEF MemoriesInv
<1> QED
  BY <1>6, <1>7, <1>8, <1>9 DEF MemoriesInv, M!TypeOK

\* A rollback counts as no store: what it leaves is not what a commit would.
LEMMA NothingStored ==
    ASSUME MemoriesInv, MemoryNext, UNCHANGED memories,
           NEW i \in Item \ raced
    PROVE  stores'[i] = stores[i]
<1>1. ASSUME NEW h \in Handler, Stores(h, i), M!UpdateCommit(h)
      PROVE  FALSE
  <2> DEFINE m == mreq[h].memory
  <2>1. mreq[h].pc = "updating" /\ mreq[h].seen \in Nat /\ m \in DOMAIN memories
    BY <1>1, StoreFields DEF M!UpdateCommit, MemoriesInv, M!TypeOK
  <2>2. mreq[h].seen = memories[m].version
    BY <1>1, <2>1 DEF MemoriesInv, Counts, SoundStore
  <2>3. memories[m] = [memories[m] EXCEPT !.version = mreq[h].seen + 1]
    BY <1>1, <2>1 DEF M!UpdateCommit
  <2>4. memories[m].version = mreq[h].seen + 1
    BY <2>1, <2>3 DEF MemoriesInv, M!TypeOK, M!IsTable, M!MemoryRow
  <2> QED
    BY <2>1, <2>2, <2>4
<1>2. ASSUME NEW h \in Handler, NEW r \in Memory, M!InsertCommit(h, r)
      PROVE  FALSE
  BY <1>2 DEF M!InsertCommit, M!Inserted
<1>3. ~Stored(i)
  BY <1>1, <1>2 DEF Stored
<1> QED
  BY <1>3 DEF MemoryNext

LEMMA MemoriesStep == MemoriesInv /\ [MemoryNext]_memoryVars => MemoriesInv'
<1> SUFFICES ASSUME MemoriesInv, [MemoryNext]_memoryVars PROVE MemoriesInv'
  OBVIOUS
<1>1. CASE UNCHANGED memoryVars
  BY <1>1 DEF memoryVars, MemoriesInv, M!TypeOK, Counts, AtMostOne, M!RowsOf, Stores, SoundStore
<1>2. ASSUME MemoryNext, NEW h \in Handler, NEW i \in Item, M!FindNone(h, i)
      PROVE  MemoriesInv'
  <2>1. [pc |-> "inserting", item |-> i] \in M!Request
    BY DEF M!Request
  <2>2. UNCHANGED memories /\ M!RowsOf(i) = {}
    BY <1>2 DEF M!FindNone, M!Matches
  <2> QED
    BY <1>2, <2>1, <2>2, NothingStored, StoreUncommitted DEF M!FindNone
<1>3. ASSUME MemoryNext, NEW h \in Handler, NEW i \in Item, M!FindOne(h, i)
      PROVE  MemoriesInv'
  <2>1. PICK r \in Memory :
           /\ M!RowsOf(i) = {r}
           /\ mreq' = [mreq EXCEPT ![h] = [pc |-> "updating", memory |-> r,
                                           seen |-> memories[r].version]]
    BY <1>3 DEF M!FindOne, M!Matches
  <2>2. r \in DOMAIN memories
    BY <2>1 DEF M!RowsOf
  <2>3. [pc |-> "updating", memory |-> r, seen |-> memories[r].version] \in M!Request
    BY <2>2 DEF M!Request, MemoriesInv, M!TypeOK, M!IsTable, M!MemoryRow
  <2>4. UNCHANGED memories
    BY <1>3 DEF M!FindOne
  <2> QED
    BY <1>3, <2>1, <2>2, <2>3, <2>4, NothingStored, StoreUncommitted
<1>4. ASSUME MemoryNext, NEW h \in Handler, M!Abort(h)
      PROVE  MemoriesInv'
  <2>1. UNCHANGED memories /\ mreq' = [mreq EXCEPT ![h] = M!Idle]
    BY <1>4 DEF M!Abort, M!EndRequest
  <2> QED
    BY <1>4, <2>1, StoreIdle, NothingStored, StoreUncommitted
<1>5. ASSUME MemoryNext, NEW h \in Handler, NEW i \in Item, M!FindRaises(h, i)
      PROVE  MemoriesInv'
  <2>1. UNCHANGED <<memories, mreq>>
    BY <1>5 DEF M!FindRaises, M!memoryVars
  <2>2. ASSUME NEW j \in Item \ raced' PROVE Counts(j)'
    <3>1. Counts(j) /\ stores'[j] = stores[j]
      BY <1>5, <2>1, <2>2, NothingStored, NotRaced DEF MemoriesInv
    <3>2. M!RowsOf(j)' = M!RowsOf(j)
      BY <2>1 DEF M!RowsOf
    <3>3. \A k \in Handler : Stores(k, j)' = Stores(k, j) /\ SoundStore(k, j)' = SoundStore(k, j)
      BY <2>1, <3>2 DEF Stores, SoundStore
    <3> QED
      BY <2>1, <3>1, <3>2, <3>3 DEF Counts
  <2> QED
    BY <1>5, <2>1, <2>2, StoresTyped DEF MemoriesInv, M!TypeOK
<1> QED
  BY <1>1, <1>2, <1>3, <1>4, <1>5, InsertCounted, UpdateCounted DEF MemoryNext, M!Next

LEMMA MemoriesInvariance == HistorySpec => []MemoriesInv
<1>1. HistoryInit => MemoriesInv
  BY MemoriesInit DEF HistoryInit
<1>2. MemoriesInv /\ [HistoryNext]_historyVars => MemoriesInv'
  BY StepOfEach, MemoriesStep
<1> QED
  BY <1>1, <1>2, PTL DEF HistorySpec, historyVars

\* Every store of an item is counted in its version and an item has one row,
\* unless two requests were storing it at the same time.
THEOREM StoresAreCounted == HistorySpec => []StoresCounted
<1>1. MemoriesInv => StoresCounted
  BY AtMostOneCounted DEF MemoriesInv, Counts, StoresCounted
<1> QED
  BY <1>1, MemoriesInvariance, PTL

-----------------------------------------------------------------------------
(* Departments *)

\* A department that is shut is not open, a request that is alone in changing a
\* status has seen the one it has, and whoever has got past its check of a shut
\* department was in flight when it was shut.
DepartmentsInv ==
    /\ D!TypeOK
    /\ shut \subseteq Department
    /\ \A h \in Handler : dreq[h].pc = "changing" => D!Exists(dreq[h].name)
    /\ \A d \in shut : ~D!Active(d)
    /\ \A h, k \in Handler, d \in Department :
          h # k /\ Changing(h, d) /\ Changing(k, d) => h \in met
    /\ \A h \in Handler \ met, d \in Department :
          Changing(h, d) => dreq[h].seen = departments[d]
    /\ \A h \in Handler, d \in shut :
          \/ Admitting(h) /\ dreq[h].what.from = d
          \/ dreq[h].pc = "admitted" /\ dreq[h].what.to = d
          => <<h, d>> \in early

LEMMA ChangeFields ==
    ASSUME NEW r \in D!Request
    PROVE  /\ r.pc \in {"idle", "proposing", "changing", "admitting", "admitted"}
           /\ r.pc \in {"proposing", "changing"} => r.name \in Department
           /\ r.pc = "changing" => r.seen \in D!Status /\ r.to \in {"ACTIVE", "SUSPENDED"}
           /\ r.pc = "admitting" =>
                /\ [r EXCEPT !.pc = "admitted"] \in D!Request
                /\ [r EXCEPT !.pc = "admitted"].pc = "admitted"
                /\ [r EXCEPT !.pc = "admitted"].what = r.what
BY DEF D!Request

LEMMA ChangeIdle == D!Idle \in D!Request /\ D!Idle.pc = "idle"
BY DEF D!Idle, D!Request

LEMMA DepartmentsInit == DepartmentInit => DepartmentsInv
<1> SUFFICES ASSUME DepartmentInit PROVE DepartmentsInv
  OBVIOUS
<1>1. D!TypeOK /\ \A h \in Handler : dreq[h].pc = "idle"
  BY ChangeIdle, ServicesAssumption
     DEF DepartmentInit, D!Init, D!TypeOK, D!IsTable, D!Status, D!DepartmentsAssumption
<1>2. \A d \in shut : ~D!Active(d)
  BY DEF DepartmentInit, D!Init, D!Active, D!Exists
<1> QED
  BY <1>1, <1>2 DEF DepartmentInit, DepartmentsInv, Changing, Admitting

\* A step changes no row, or inserts a proposal, or is the commit of a change;
\* and one request moves, to what its checks allow.
LEMMA DepartmentSteps ==
    ASSUME DepartmentsInv, D!Next
    PROVE  \E h \in Handler, r \in D!Request :
              /\ dreq' = [dreq EXCEPT ![h] = r]
              /\ \/ UNCHANGED departments
                 \/ D!ProposeCommit(h) \/ D!ChangeCommit(h)
              /\ r.pc = "changing" =>
                    /\ UNCHANGED departments
                    /\ D!Exists(r.name) /\ r.seen = departments[r.name]
              /\ r.pc = "admitting" => UNCHANGED departments /\ D!Active(r.what.from)
              /\ r.pc = "admitted" =>
                    /\ UNCHANGED departments
                    /\ dreq[h].pc = "admitting" /\ dreq[h].what = r.what
                    /\ r.what.to # None => D!Active(r.what.to)
<1> USE DEF DepartmentsInv, D!TypeOK
<1>1. ASSUME NEW h \in Handler, NEW d \in Department, D!ProposeRead(h, d)
      PROVE  [pc |-> "proposing", name |-> d] \in D!Request
  BY DEF D!Request
<1>2. ASSUME NEW h \in Handler, NEW d \in Department, NEW to \in {"ACTIVE", "SUSPENDED"},
             D!ChangeRead(h, d, to)
      PROVE  [pc |-> "changing", name |-> d, to |-> to, seen |-> departments[d]] \in D!Request
  BY <1>2 DEF D!Request, D!ChangeRead, D!Exists, D!IsTable
<1>3. ASSUME NEW h \in Handler, NEW what \in D!Admission, D!AdmitRead(h, what)
      PROVE  [pc |-> "admitting", what |-> what] \in D!Request
  BY DEF D!Request
<1>4. PICK h \in Handler :
        \/ \E d \in Department :
              \/ D!ProposeRead(h, d)
              \/ \E to \in {"ACTIVE", "SUSPENDED"} : D!ChangeRead(h, d, to)
        \/ \E what \in D!Admission : D!AdmitRead(h, what)
        \/ D!ProposeCommit(h) \/ D!ProposeRefused(h)
        \/ D!ChangeCommit(h)
        \/ D!AdmitCheck(h) \/ D!AdmitCommit(h)
        \/ D!Abort(h)
  BY DEF D!Next
<1>5. CASE \E d \in Department : D!ProposeRead(h, d)
  BY <1>1, <1>5 DEF D!ProposeRead
<1>6. CASE \E d \in Department, to \in {"ACTIVE", "SUSPENDED"} : D!ChangeRead(h, d, to)
  BY <1>2, <1>6 DEF D!ChangeRead
<1>7. CASE \E what \in D!Admission : D!AdmitRead(h, what)
  BY <1>3, <1>7 DEF D!AdmitRead
<1>8. CASE D!AdmitCheck(h)
  <2> DEFINE r == [dreq[h] EXCEPT !.pc = "admitted"]
  <2>1. r \in D!Request /\ r.pc = "admitted" /\ r.what = dreq[h].what
    BY <1>8, ChangeFields DEF D!AdmitCheck
  <2>2. dreq' = [dreq EXCEPT ![h] = r]
    BY <1>8 DEF D!AdmitCheck
  <2> HIDE DEF r
  <2> QED
    BY <1>8, <2>1, <2>2 DEF D!AdmitCheck
<1>9. CASE \/ D!ProposeCommit(h) \/ D!ProposeRefused(h) \/ D!ChangeCommit(h)
            \/ D!AdmitCommit(h) \/ D!Abort(h)
  BY <1>9, ChangeIdle
     DEF D!ProposeCommit, D!ProposeRefused, D!ChangeCommit, D!AdmitCommit, D!Abort,
         D!EndRequest
<1> QED
  BY <1>4, <1>5, <1>6, <1>7, <1>8, <1>9

\* What the two commits do to the rows.
LEMMA DepartmentRows ==
    ASSUME DepartmentsInv, NEW h \in Handler,
           \/ UNCHANGED departments
           \/ D!ProposeCommit(h) \/ D!ChangeCommit(h)
    PROVE  /\ D!IsTable(departments', Department, D!Status)
           /\ DOMAIN departments \subseteq DOMAIN departments'
           /\ \A d \in DOMAIN departments :
                 departments'[d] # departments[d] =>
                    /\ D!ChangeCommit(h) /\ Changing(h, d)
                    /\ departments'[d] = dreq[h].to
           /\ \A d \in DOMAIN departments' \ DOMAIN departments : departments'[d] = "PROPOSED"
<1> USE DEF DepartmentsInv, D!TypeOK
<1>1. CASE UNCHANGED departments
  BY <1>1
<1>2. CASE D!ProposeCommit(h)
  BY <1>2, ChangeFields DEF D!ProposeCommit, D!Inserted, D!Exists, D!IsTable, D!Status
<1>3. CASE D!ChangeCommit(h)
  <2>1. dreq[h].name \in DOMAIN departments /\ dreq[h].to \in D!Status
    BY <1>3, ChangeFields DEF D!ChangeCommit, D!Exists, D!Status
  <2> QED
    BY <1>3, <2>1 DEF D!ChangeCommit, Changing, D!IsTable
<1> QED
  BY <1>1, <1>2, <1>3

LEMMA DepartmentsStep == DepartmentsInv /\ [DepartmentNext]_departmentVars => DepartmentsInv'
<1> SUFFICES ASSUME DepartmentsInv, [DepartmentNext]_departmentVars PROVE DepartmentsInv'
  OBVIOUS
<1>1. CASE UNCHANGED departmentVars
  BY <1>1 DEF departmentVars, DepartmentsInv, D!TypeOK, D!Exists, D!Active, Changing, Admitting
<1>2. CASE DepartmentNext
  <2>1. PICK h \in Handler, r \in D!Request :
              /\ dreq' = [dreq EXCEPT ![h] = r]
              /\ \/ UNCHANGED departments
                 \/ D!ProposeCommit(h) \/ D!ChangeCommit(h)
              /\ r.pc = "changing" =>
                    /\ UNCHANGED departments
                    /\ D!Exists(r.name) /\ r.seen = departments[r.name]
              /\ r.pc = "admitting" => UNCHANGED departments /\ D!Active(r.what.from)
              /\ r.pc = "admitted" =>
                    /\ UNCHANGED departments
                    /\ dreq[h].pc = "admitting" /\ dreq[h].what = r.what
                    /\ r.what.to # None => D!Active(r.what.to)
    BY <1>2, DepartmentSteps DEF DepartmentNext
  <2>2. /\ D!IsTable(departments', Department, D!Status)
        /\ DOMAIN departments \subseteq DOMAIN departments'
        /\ \A d \in DOMAIN departments :
              departments'[d] # departments[d] =>
                 /\ D!ChangeCommit(h) /\ Changing(h, d)
                 /\ departments'[d] = dreq[h].to
        /\ \A d \in DOMAIN departments' \ DOMAIN departments : departments'[d] = "PROPOSED"
    BY <2>1, DepartmentRows
  <2>3. /\ dreq' \in [Handler -> D!Request]
        /\ dreq'[h] = r
        /\ \A k \in Handler \ {h} : dreq'[k] = dreq[k]
    BY <2>1 DEF DepartmentsInv, D!TypeOK
  <2>4. D!TypeOK' /\ shut' \subseteq Department
    BY <1>2, <2>2, <2>3 DEF D!TypeOK, DepartmentNext
  <2>5. \A k \in Handler : dreq'[k].pc = "changing" => dreq'[k].name \in DOMAIN departments'
    BY <2>1, <2>2, <2>3 DEF DepartmentsInv, D!Exists
  <2>6. ASSUME NEW d \in shut' PROVE ~D!Active(d)'
    <3>1. CASE Shutting(d)
      <4>1. PICK k \in Handler \ met :
               Changing(k, d) /\ dreq[k].to = "SUSPENDED" /\ D!ChangeCommit(k)
        BY <3>1 DEF Shutting
      <4>2. d \in DOMAIN departments /\ dreq[k].seen = departments[d] /\ dreq[k].name = d
        BY <2>4, <2>6, <4>1 DEF DepartmentsInv, Changing, D!Exists
      <4>3. departments'[d] = "SUSPENDED"
        BY <4>1, <4>2 DEF D!ChangeCommit
      <4> QED
        BY <4>3 DEF D!Active
    <3>2. CASE d \in shut /\ ~Approving(d)
      <4>1. ~D!Active(d) /\ d \in Department
        BY <3>2 DEF DepartmentsInv
      <4>2. CASE ~D!Exists(d)
        BY <2>2, <4>2 DEF D!Exists, D!Active
      <4>3. CASE D!Exists(d)
        <5>1. D!ChangeCommit(h) /\ Changing(h, d) => dreq[h].to = "SUSPENDED"
          BY <3>2, ChangeFields DEF Approving, Changing, DepartmentsInv, D!TypeOK
        <5> QED
          BY <2>2, <4>1, <4>3, <5>1 DEF D!Exists, D!Active
      <4> QED
        BY <4>2, <4>3
    <3> QED
      BY <1>2, <2>6, <3>1, <3>2 DEF DepartmentNext
  <2>7. \A k, l \in Handler, d \in Department :
           k # l /\ Changing(k, d)' /\ Changing(l, d)' => k \in met'
    BY <1>2 DEF DepartmentNext
  <2>8. ASSUME NEW k \in Handler \ met', NEW d \in Department, Changing(k, d)'
        PROVE  dreq'[k].seen = departments'[d]
    <3>1. k \notin met /\ \A l \in Handler \ {k} : ~Changing(l, d)'
      BY <1>2, <2>8 DEF DepartmentNext
    <3>2. CASE k = h
      BY <2>1, <2>3, <2>8, <3>2 DEF Changing
    <3>3. CASE k # h
      <4>1. Changing(k, d) /\ dreq'[k] = dreq[k] /\ d \in DOMAIN departments
        BY <2>3, <2>8, <3>3 DEF Changing, DepartmentsInv, D!Exists
      <4>2. ~Changing(h, d)
        BY <3>1, <3>3, <4>1 DEF DepartmentsInv
      <4> QED
        BY <2>2, <3>1, <4>1, <4>2 DEF DepartmentsInv
    <3> QED
      BY <3>2, <3>3
  <2>9. ASSUME NEW k \in Handler, NEW d \in shut',
               \/ Admitting(k)' /\ dreq'[k].what.from = d
               \/ dreq'[k].pc = "admitted" /\ dreq'[k].what.to = d
        PROVE  <<k, d>> \in early'
    <3>1. d \in Department /\ Admitting(k)'
      BY <2>4, <2>9 DEF Admitting
    <3>2. CASE Shutting(d)
      BY <1>2, <3>1, <3>2 DEF DepartmentNext
    <3>3. CASE d \in shut
      <4>1. ~D!Active(d) /\ d # None
        BY <3>1, <3>3, ServicesAssumption DEF DepartmentsInv, D!DepartmentsAssumption
      <4>2. \/ Admitting(k) /\ dreq[k].what.from = d
            \/ dreq[k].pc = "admitted" /\ dreq[k].what.to = d
        BY <2>1, <2>3, <2>9, <4>1 DEF Admitting
      <4> QED
        BY <1>2, <3>1, <3>3, <4>2 DEF DepartmentsInv, DepartmentNext
    <3> QED
      BY <1>2, <2>9, <3>2, <3>3 DEF DepartmentNext
  <2> QED
    BY <2>4, <2>5, <2>6, <2>7, <2>8, <2>9 DEF DepartmentsInv, D!Exists
<1> QED
  BY <1>1, <1>2

LEMMA DepartmentsInvariance == HistorySpec => []DepartmentsInv
<1>1. HistoryInit => DepartmentsInv
  BY DepartmentsInit DEF HistoryInit
<1>2. DepartmentsInv /\ [HistoryNext]_historyVars => DepartmentsInv'
  BY StepOfEach, DepartmentsStep
<1> QED
  BY <1>1, <1>2, PTL DEF HistorySpec, historyVars

\* A suspension shuts a department to every request that begins afterwards, and
\* a proposal is shut until it is approved.
THEOREM SuspensionsHold == HistorySpec => []SuspensionHolds
<1>1. DepartmentsInv => SuspensionHolds
  BY DEF DepartmentsInv, SuspensionHolds, Admitting
<1> QED
  BY <1>1, DepartmentsInvariance, PTL

-----------------------------------------------------------------------------
(* Bridges *)

\* A bridge that nobody was approving and revoking at the same time is REVOKED
\* once it has been revoked; then nobody is approving it, and what a request
\* that revokes it again has seen is still true.
Uncrossed(b) ==
    /\ bridges[b].revoked => bridges[b].status = "REVOKED"
    /\ InFlight(b, "approving") => ~bridges[b].revoked /\ ~InFlight(b, "revoking")
    /\ \A k \in Handler :
          breq[k].pc = "revoking" /\ breq[k].bridge = b /\ breq[k].seen = "REVOKED"
              => bridges[b].status = "REVOKED"

\* Whatever has met, a bridge that waits has not been revoked.
Waiting(b) ==
    bridges[b].status = "PENDING" =>
        /\ ~bridges[b].revoked
        /\ \A k \in Handler :
              breq[k].pc = "revoking" /\ breq[k].bridge = b => breq[k].seen = "PENDING"

BridgesInv ==
    /\ B!TypeOK
    /\ \A k \in Handler : breq[k].pc # "idle" => breq[k].bridge \in DOMAIN bridges
    /\ \A b \in DOMAIN bridges : Waiting(b)
    /\ \A b \in DOMAIN bridges \ crossed : Uncrossed(b)

LEMMA RevokeFields ==
    ASSUME NEW r \in B!Request
    PROVE  /\ r.pc \in {"idle", "approving", "revoking"}
           /\ r.pc # "idle" => r.bridge \in Bridge
           /\ r.pc = "revoking" => r.seen \in B!BridgeStatus
BY DEF B!Request

LEMMA RevokeIdle == B!Idle \in B!Request /\ B!Idle.pc = "idle"
BY DEF B!Idle, B!Request

LEMMA BridgesInit == BridgeInit => BridgesInv
BY RevokeIdle DEF BridgeInit, B!Init, BridgesInv, B!TypeOK, B!IsTable, B!EmptyTable

\* Bridges that have not met keep that from before.
LEMMA NotCrossed ==
    ASSUME BridgeNext, NEW b \in Bridge, b \notin crossed'
    PROVE  b \notin crossed /\ ~(InFlight(b, "approving")' /\ InFlight(b, "revoking")')
BY DEF BridgeNext

\* A request reads a bridge, or ends without a commit.
LEMMA BridgeUncommitted ==
    ASSUME BridgesInv, BridgeNext, UNCHANGED <<bridges, now>>,
           NEW h \in Handler, NEW r \in B!Request, breq' = [breq EXCEPT ![h] = r],
           r.pc = "approving" => /\ r.bridge \in DOMAIN bridges
                                 /\ bridges[r.bridge].status = "PENDING",
           r.pc = "revoking" => /\ r.bridge \in DOMAIN bridges
                                /\ r.seen = bridges[r.bridge].status
    PROVE  BridgesInv'
<1>1. /\ breq' \in [Handler -> B!Request]
      /\ breq'[h] = r
      /\ \A k \in Handler \ {h} : breq'[k] = breq[k]
  BY DEF BridgesInv, B!TypeOK
<1>2. B!TypeOK' /\ \A k \in Handler : breq'[k].pc # "idle" => breq'[k].bridge \in DOMAIN bridges'
  BY <1>1, RevokeFields DEF BridgesInv, B!TypeOK
<1>3. ASSUME NEW b \in DOMAIN bridges PROVE Waiting(b)'
  BY <1>1 DEF BridgesInv, Waiting
<1>4. ASSUME NEW b \in DOMAIN bridges \ crossed' PROVE Uncrossed(b)'
  <2>1. /\ b \in Bridge /\ Uncrossed(b) /\ Waiting(b)
        /\ ~(InFlight(b, "approving")' /\ InFlight(b, "revoking")')
    BY <1>4, NotCrossed DEF BridgesInv, B!TypeOK, B!IsTable
  <2>2. InFlight(b, "approving")' => ~bridges[b].revoked
    BY <1>1, <2>1 DEF InFlight, Uncrossed, Waiting
  <2> QED
    BY <1>1, <2>1, <2>2 DEF Uncrossed
<1> QED
  BY <1>2, <1>3, <1>4 DEF BridgesInv

\* The commit of h writes `status' and sets `revoked', or `approved'.
LEMMA BridgeCommitted ==
    ASSUME BridgesInv, BridgeNext, NEW h \in Handler,
           B!ApproveCommit(h) \/ B!RevokeCommit(h)
    PROVE  BridgesInv'
<1> DEFINE b == breq[h].bridge
           kept == B!RevokeCommit(h) /\ breq[h].seen = "REVOKED"
<1>1. /\ b \in DOMAIN bridges /\ b \in Bridge /\ breq[h].pc # "idle"
      /\ bridges[b] \in B!BridgeRow
  BY DEF B!ApproveCommit, B!RevokeCommit, BridgesInv, B!TypeOK, B!IsTable
<1>2. /\ breq' \in [Handler -> B!Request]
      /\ breq'[h].pc = "idle"
      /\ \A k \in Handler \ {h} : breq'[k] = breq[k]
  BY RevokeIdle DEF B!ApproveCommit, B!RevokeCommit, B!EndRequest, BridgesInv, B!TypeOK
<1>3. /\ DOMAIN bridges' = DOMAIN bridges
      /\ \A x \in DOMAIN bridges \ {b} : bridges'[x] = bridges[x]
  BY <1>1 DEF B!ApproveCommit, B!RevokeCommit, BridgesInv, B!TypeOK, B!IsTable
<1>4. CASE B!ApproveCommit(h)
  <2>1. /\ bridges'[b] \in B!BridgeRow
        /\ bridges'[b].status = "ACTIVE" /\ bridges'[b].revoked = bridges[b].revoked
    BY <1>1, <1>4 DEF B!ApproveCommit, B!BridgeRow, B!BridgeStatus, BridgesInv, B!TypeOK, B!IsTable
  <2>2. B!TypeOK' /\ \A k \in Handler : breq'[k].pc # "idle" => breq'[k].bridge \in DOMAIN bridges'
    BY <1>1, <1>2, <1>3, <1>4, <2>1 DEF BridgesInv, B!TypeOK, B!IsTable, B!ApproveCommit
  <2>3. ASSUME NEW x \in DOMAIN bridges PROVE Waiting(x)'
    BY <1>2, <1>3, <2>1 DEF BridgesInv, Waiting
  <2>4. ASSUME NEW x \in DOMAIN bridges \ crossed' PROVE Uncrossed(x)'
    <3>1. x \in Bridge /\ Uncrossed(x) /\ ~(InFlight(x, "approving")' /\ InFlight(x, "revoking")')
      BY <2>4, NotCrossed DEF BridgesInv, B!TypeOK, B!IsTable
    <3>2. CASE x = b
      <4>1. InFlight(x, "approving")
        BY <1>4, <3>2 DEF InFlight, B!ApproveCommit
      <4>2. ~bridges[b].revoked /\ ~InFlight(x, "revoking")
        BY <3>1, <3>2, <4>1 DEF Uncrossed
      <4>3. ~InFlight(x, "revoking")'
        BY <1>2, <4>2 DEF InFlight
      <4> QED
        BY <2>1, <3>2, <4>2, <4>3 DEF Uncrossed, InFlight
    <3>3. CASE x # b
      BY <1>2, <1>3, <3>1, <3>3 DEF Uncrossed, InFlight
    <3> QED
      BY <3>2, <3>3
  <2> QED
    BY <1>3, <2>2, <2>3, <2>4 DEF BridgesInv
<1>5. CASE B!RevokeCommit(h)
  <2>1. /\ bridges'[b] \in B!BridgeRow
        /\ bridges'[b].status = IF breq[h].seen = "REVOKED" THEN bridges[b].status ELSE "REVOKED"
        /\ bridges'[b].revoked = TRUE
    BY <1>1, <1>5 DEF B!RevokeCommit, B!BridgeRow, B!BridgeStatus, BridgesInv, B!TypeOK, B!IsTable
  <2>2. B!TypeOK' /\ \A k \in Handler : breq'[k].pc # "idle" => breq'[k].bridge \in DOMAIN bridges'
    BY <1>1, <1>2, <1>3, <1>5, <2>1 DEF BridgesInv, B!TypeOK, B!IsTable, B!RevokeCommit
  <2>3. breq[h].pc = "revoking"
    BY <1>5 DEF B!RevokeCommit
  <2>4. ASSUME NEW x \in DOMAIN bridges PROVE Waiting(x)'
    BY <1>1, <1>2, <1>3, <2>1, <2>3 DEF BridgesInv, Waiting
  <2>5. ASSUME NEW x \in DOMAIN bridges \ crossed' PROVE Uncrossed(x)'
    <3>1. x \in Bridge /\ Uncrossed(x)
      BY <2>5, NotCrossed DEF BridgesInv, B!TypeOK, B!IsTable
    <3>2. CASE x = b
      <4>1. InFlight(x, "revoking")
        BY <2>3, <3>2 DEF InFlight
      <4>2. ~InFlight(x, "approving")
        BY <3>1, <3>2, <4>1 DEF Uncrossed
      <4>3. ~InFlight(x, "approving")'
        BY <1>2, <4>2 DEF InFlight
      <4>4. bridges'[b].status = "REVOKED"
        BY <2>1, <2>3, <3>1, <3>2 DEF Uncrossed
      <4> QED
        BY <3>2, <4>3, <4>4 DEF Uncrossed
    <3>3. CASE x # b
      BY <1>2, <1>3, <3>1, <3>3 DEF Uncrossed, InFlight
    <3> QED
      BY <3>2, <3>3
  <2> QED
    BY <1>3, <2>2, <2>4, <2>5 DEF BridgesInv
<1> QED
  BY <1>4, <1>5

LEMMA BridgesStep == BridgesInv /\ [BridgeNext]_bridgeVars => BridgesInv'
<1> SUFFICES ASSUME BridgesInv, [BridgeNext]_bridgeVars PROVE BridgesInv'
  OBVIOUS
<1>1. CASE UNCHANGED bridgeVars
  BY <1>1 DEF bridgeVars, BridgesInv, B!TypeOK, Waiting, Uncrossed, InFlight
<1>2. ASSUME BridgeNext, NEW b \in Bridge, NEW d \in Department, NEW e \in Department,
             NEW x \in 1..(MaxTime + 1), B!RequestBridge(b, d, e, x)
      PROVE  BridgesInv'
  <2> DEFINE row == [ends |-> {d, e}, expires |-> x, status |-> "PENDING",
                     approved |-> FALSE, revoked |-> FALSE]
  <2>1. row \in B!BridgeRow /\ row.status = "PENDING" /\ row.revoked = FALSE
    BY ServicesAssumption DEF B!BridgeRow, B!BridgeStatus, B!BridgesAssumption
  <2>2. bridges' = B!Inserted(bridges, b, row) /\ b \notin DOMAIN bridges /\ UNCHANGED <<now, breq>>
    BY <1>2 DEF B!RequestBridge
  <2> HIDE DEF row
  <2>3. /\ B!IsTable(bridges', Bridge, B!BridgeRow)
        /\ DOMAIN bridges' = DOMAIN bridges \cup {b}
        /\ bridges'[b] = row
        /\ \A y \in DOMAIN bridges : bridges'[y] = bridges[y]
    BY <2>1, <2>2 DEF BridgesInv, B!TypeOK, B!IsTable, B!Inserted
  <2>4. \A k \in Handler : breq[k].pc # "idle" => breq[k].bridge # b
    BY <2>2 DEF BridgesInv
  <2>5. \A y \in DOMAIN bridges' : Waiting(y)'
    BY <2>1, <2>2, <2>3, <2>4, RevokeFields DEF BridgesInv, Waiting
  <2>6. \A y \in DOMAIN bridges' \ crossed' : Uncrossed(y)'
    <3> TAKE y \in DOMAIN bridges' \ crossed'
    <3>1. y \in Bridge /\ y \notin crossed
      BY <1>2, <2>3, NotCrossed DEF B!IsTable
    <3>2. CASE y = b
      BY <2>1, <2>2, <2>3, <2>4, <3>2 DEF Uncrossed, InFlight
    <3>3. CASE y # b
      BY <2>2, <2>3, <3>1, <3>3 DEF BridgesInv, Uncrossed, InFlight
    <3> QED
      BY <3>2, <3>3
  <2> QED
    BY <2>2, <2>3, <2>5, <2>6 DEF BridgesInv, B!TypeOK
<1>3. ASSUME BridgeNext, NEW h \in Handler, NEW b \in Bridge, B!ApproveRead(h, b)
      PROVE  BridgesInv'
  <2>1. [pc |-> "approving", bridge |-> b] \in B!Request
    BY DEF B!Request
  <2> QED
    BY <1>3, <2>1, BridgeUncommitted DEF B!ApproveRead
<1>4. ASSUME BridgeNext, NEW h \in Handler, NEW b \in Bridge, B!RevokeRead(h, b)
      PROVE  BridgesInv'
  <2>1. [pc |-> "revoking", bridge |-> b, seen |-> bridges[b].status] \in B!Request
    BY <1>4 DEF B!Request, B!RevokeRead, BridgesInv, B!TypeOK, B!IsTable, B!BridgeRow
  <2> QED
    BY <1>4, <2>1, BridgeUncommitted DEF B!RevokeRead
<1>5. ASSUME BridgeNext, NEW h \in Handler, B!Abort(h)
      PROVE  BridgesInv'
  BY <1>5, RevokeIdle, BridgeUncommitted DEF B!Abort, B!EndRequest
<1>6. ASSUME BridgeNext, B!Tick
      PROVE  BridgesInv'
  <2>1. UNCHANGED <<bridges, breq>> /\ now' \in Nat
    BY <1>6 DEF B!Tick, BridgesInv, B!TypeOK
  <2>2. \A b \in DOMAIN bridges \ crossed' : Uncrossed(b)'
    BY <1>6, <2>1 DEF BridgeNext, BridgesInv, Uncrossed, InFlight
  <2> QED
    BY <2>1, <2>2 DEF BridgesInv, B!TypeOK, Waiting
<1> QED
  BY <1>1, <1>2, <1>3, <1>4, <1>5, <1>6, BridgeCommitted DEF BridgeNext, B!Next

LEMMA BridgesInvariance == HistorySpec => []BridgesInv
<1>1. HistoryInit => BridgesInv
  BY BridgesInit DEF HistoryInit
<1>2. BridgesInv /\ [HistoryNext]_historyVars => BridgesInv'
  BY StepOfEach, BridgesStep
<1> QED
  BY <1>1, <1>2, PTL DEF HistorySpec, historyVars

\* Only a race between an approval and a revocation reopens a revoked bridge.
THEOREM RevokedBridgesStayShut == HistorySpec => []OnlyRacesReopen
<1>1. BridgesInv => OnlyRacesReopen
  BY DEF BridgesInv, OnlyRacesReopen, Uncrossed
<1> QED
  BY <1>1, BridgesInvariance, PTL

-----------------------------------------------------------------------------
(* Workspace *)

\* One request at a time sends the first heartbeat of e, while e has no row.
Settled(e) ==
    /\ AtMostOne(W!RowsOf(e))
    /\ \A h, k \in Handler : Arriving(h, e) /\ Arriving(k, e) => h = k
    /\ \A h \in Handler : Arriving(h, e) => W!RowsOf(e) = {}

\* One request at a time starts m, or concludes it, and finds it as it saw it.
Orderly(m) ==
    /\ \A h, k \in Handler :
          \/ Starting(h, m) /\ Starting(k, m)
          \/ Concluding(h, m) /\ Concluding(k, m)
          => h = k
    /\ \A h \in Handler :
          /\ Starting(h, m) => meetings[m].status = "SCHEDULED"
          /\ Concluding(h, m) => meetings[m].status = "IN_PROGRESS"

WorkspaceInv ==
    /\ W!TypeOK
    /\ \A h \in Handler :
          /\ wreq[h].pc = "moving" => wreq[h].presence \in DOMAIN presences
          /\ wreq[h].pc \in {"starting", "concluding"} => wreq[h].meeting \in DOMAIN meetings
    /\ \A e \in Entity \ twice : Settled(e)
    /\ \A m \in DOMAIN meetings \ rivals : Orderly(m)

LEMMA VisitFields ==
    ASSUME NEW r \in W!Request
    PROVE  /\ r.pc \in {"idle", "arriving", "moving", "starting", "concluding"}
           /\ r.pc = "arriving" => r.entity \in Entity /\ r.zone \in Zone
           /\ r.pc = "moving" => r.presence \in Presence /\ r.seen \in Zone /\ r.zone \in Zone
           /\ r.pc \in {"starting", "concluding"} => r.meeting \in Meeting
BY DEF W!Request

LEMMA VisitIdle == W!Idle \in W!Request /\ W!Idle.pc = "idle"
BY DEF W!Idle, W!Request

LEMMA WorkspaceStart == WorkspaceInit => WorkspaceInv
BY VisitIdle, ServicesAssumption
   DEF WorkspaceInit, W!Init, WorkspaceInv, W!TypeOK, W!IsTable, W!EmptyTable,
       W!WorkspaceAssumption, Settled, Orderly, AtMostOne, W!RowsOf, Arriving, Starting,
       Concluding

\* A zone or a meeting is inserted, or one request moves, to what it has read.
LEMMA WorkspaceSteps ==
    ASSUME WorkspaceInv, W!Next
    PROVE  \/ /\ UNCHANGED <<presences, wreq>>
              /\ zones' \subseteq Zone
              /\ UNCHANGED meetings \/ \E m \in Meeting : W!ScheduleMeeting(m)
           \/ \E h \in Handler, r \in W!Request :
                 /\ wreq' = [wreq EXCEPT ![h] = r]
                 /\ UNCHANGED zones
                 /\ r.pc # "idle" => UNCHANGED <<presences, meetings>>
                 /\ r.pc = "arriving" => W!RowsOf(r.entity) = {}
                 /\ r.pc = "moving" => r.presence \in DOMAIN presences
                 /\ r.pc = "starting" => /\ r.meeting \in DOMAIN meetings
                                         /\ meetings[r.meeting].status = "SCHEDULED"
                 /\ r.pc = "concluding" => /\ r.meeting \in DOMAIN meetings
                                           /\ meetings[r.meeting].status = "IN_PROGRESS"
                 /\ \/ UNCHANGED presences
                    \/ W!MoveCommit(h) \/ \E p \in Presence : W!ArriveCommit(h, p)
                 /\ UNCHANGED meetings \/ W!StartCommit(h) \/ W!ConcludeCommit(h)
<1> USE DEF WorkspaceInv, W!TypeOK
<1>1. ASSUME NEW z \in Zone, W!CreateZone(z)
      PROVE  UNCHANGED <<presences, meetings, wreq>> /\ zones' \subseteq Zone
  BY <1>1 DEF W!CreateZone
<1>2. ASSUME NEW m \in Meeting, W!ScheduleMeeting(m)
      PROVE  UNCHANGED <<presences, wreq>> /\ zones' \subseteq Zone
  BY <1>2 DEF W!ScheduleMeeting
<1>3. CASE \/ \E z \in Zone : W!CreateZone(z)
           \/ \E m \in Meeting : W!ScheduleMeeting(m)
  BY <1>1, <1>2, <1>3
<1>4. ASSUME NEW h \in Handler, NEW e \in Entity, NEW z \in zones
      PROVE  [pc |-> "arriving", entity |-> e, zone |-> z] \in W!Request
  BY DEF W!Request
<1>5. ASSUME NEW p \in DOMAIN presences, NEW z \in zones
      PROVE  [pc |-> "moving", presence |-> p, zone |-> z, seen |-> presences[p].zone]
                \in W!Request
  BY DEF W!Request, W!IsTable, W!PresenceRow
<1>6. ASSUME NEW m \in Meeting, NEW pc \in {"starting", "concluding"}
      PROVE  [pc |-> pc, meeting |-> m] \in W!Request
  BY DEF W!Request
<1>7. CASE \E h \in Handler, e \in Entity, z \in zones : W!HeartbeatFirst(h, e, z)
  BY <1>4, <1>7 DEF W!HeartbeatFirst, W!Found
<1>8. CASE \E h \in Handler, e \in Entity, z \in zones : W!HeartbeatAgain(h, e, z)
  <2>1. PICK h \in Handler, e \in Entity, z \in zones : W!HeartbeatAgain(h, e, z)
    BY <1>8
  <2>2. PICK p \in DOMAIN presences :
           wreq' = [wreq EXCEPT ![h] = [pc |-> "moving", presence |-> p, zone |-> z,
                                        seen |-> presences[p].zone]]
    BY <2>1 DEF W!HeartbeatAgain, W!Found, W!RowsOf
  <2> QED
    BY <1>5, <2>1, <2>2 DEF W!HeartbeatAgain
<1>9. CASE \E h \in Handler, e \in Entity, z \in zones : W!HeartbeatRaises(h, e, z)
  BY <1>9 DEF W!HeartbeatRaises, W!workspaceVars
<1>10. CASE \E h \in Handler, m \in Meeting : W!StartRead(h, m)
  BY <1>6, <1>10 DEF W!StartRead
<1>11. CASE \E h \in Handler, m \in Meeting : W!ConcludeRead(h, m)
  BY <1>6, <1>11 DEF W!ConcludeRead
<1>12. CASE \E h \in Handler :
              \/ \E p \in Presence : W!ArriveCommit(h, p)
              \/ W!MoveCommit(h) \/ W!StartCommit(h) \/ W!ConcludeCommit(h) \/ W!Abort(h)
  BY <1>12, VisitIdle
     DEF W!ArriveCommit, W!MoveCommit, W!StartCommit, W!ConcludeCommit, W!Abort, W!EndRequest
<1> QED
  BY <1>3, <1>7, <1>8, <1>9, <1>10, <1>11, <1>12 DEF W!Next

\* What a commit does to the presences.
LEMMA PresenceRows ==
    ASSUME WorkspaceInv, NEW h \in Handler,
           \/ UNCHANGED presences
           \/ W!MoveCommit(h) \/ \E p \in Presence : W!ArriveCommit(h, p)
    PROVE  /\ W!IsTable(presences', Presence, W!PresenceRow)
           /\ DOMAIN presences \subseteq DOMAIN presences'
           /\ \A e \in Entity :
                 \/ W!RowsOf(e)' = W!RowsOf(e)
                 \/ Arriving(h, e) /\ wreq'[h].pc = "idle" /\ \E p : W!RowsOf(e)' = W!RowsOf(e) \cup {p}
<1> USE DEF WorkspaceInv, W!TypeOK
<1>1. CASE UNCHANGED presences
  BY <1>1 DEF W!RowsOf
<1>2. CASE W!MoveCommit(h)
  <2> DEFINE p == wreq[h].presence
             row == [presences[p] EXCEPT !.zone =
                       IF wreq[h].zone = wreq[h].seen THEN @ ELSE wreq[h].zone]
  <2>1. p \in DOMAIN presences /\ wreq[h].zone \in Zone /\ presences[p] \in W!PresenceRow
    BY <1>2, VisitFields DEF W!MoveCommit, W!IsTable
  <2>2. row \in W!PresenceRow /\ row.entity = presences[p].entity
    BY <2>1 DEF W!PresenceRow
  <2>3. presences' = [presences EXCEPT ![p] = row]
    BY <1>2 DEF W!MoveCommit
  <2> HIDE DEF row
  <2> QED
    BY <2>1, <2>2, <2>3 DEF W!IsTable, W!RowsOf
<1>3. ASSUME NEW p \in Presence, W!ArriveCommit(h, p)
      PROVE  /\ W!IsTable(presences', Presence, W!PresenceRow)
             /\ DOMAIN presences \subseteq DOMAIN presences'
             /\ \A e \in Entity :
                   \/ W!RowsOf(e)' = W!RowsOf(e)
                   \/ /\ Arriving(h, e) /\ wreq'[h].pc = "idle"
                      /\ W!RowsOf(e)' = W!RowsOf(e) \cup {p}
  <2> DEFINE row == [entity |-> wreq[h].entity, zone |-> wreq[h].zone]
  <2>1. row \in W!PresenceRow /\ row.entity = wreq[h].entity /\ wreq[h].pc = "arriving"
    BY <1>3, VisitFields DEF W!ArriveCommit, W!PresenceRow
  <2>2. presences' = W!Inserted(presences, p, row) /\ p \notin DOMAIN presences
    BY <1>3 DEF W!ArriveCommit
  <2>3. wreq'[h].pc = "idle"
    BY <1>3, VisitIdle DEF W!ArriveCommit, W!EndRequest
  <2> HIDE DEF row
  <2>4. /\ W!IsTable(presences', Presence, W!PresenceRow)
        /\ DOMAIN presences' = DOMAIN presences \cup {p}
        /\ presences'[p] = row
        /\ \A q \in DOMAIN presences : presences'[q] = presences[q]
    BY <2>1, <2>2 DEF W!IsTable, W!Inserted
  <2> QED
    BY <2>1, <2>2, <2>3, <2>4 DEF W!RowsOf, Arriving
<1> QED
  BY <1>1, <1>2, <1>3

\* What a commit does to the meetings: it is its own meeting that changes.
LEMMA MeetingRows ==
    ASSUME WorkspaceInv, NEW h \in Handler,
           UNCHANGED meetings \/ W!StartCommit(h) \/ W!ConcludeCommit(h)
    PROVE  /\ W!IsTable(meetings', Meeting, W!MeetingRow)
           /\ DOMAIN meetings' = DOMAIN meetings
           /\ \A m \in DOMAIN meetings :
                 meetings'[m] # meetings[m] =>
                    \/ /\ Starting(h, m) /\ wreq'[h].pc = "idle"
                       /\ meetings'[m].status = "IN_PROGRESS"
                    \/ /\ Concluding(h, m) /\ wreq'[h].pc = "idle"
                       /\ meetings'[m].status = "CONCLUDED"
<1> USE DEF WorkspaceInv, W!TypeOK
<1>1. CASE UNCHANGED meetings
  BY <1>1
<1>2. CASE W!StartCommit(h)
  <2> DEFINE m == wreq[h].meeting
             row == [meetings[m] EXCEPT !.status = "IN_PROGRESS"]
  <2>1. m \in DOMAIN meetings /\ Starting(h, m) /\ wreq'[h].pc = "idle"
    BY <1>2, VisitIdle DEF W!StartCommit, W!EndRequest, Starting
  <2>2. row \in W!MeetingRow /\ row.status = "IN_PROGRESS"
    BY <2>1 DEF W!MeetingRow, W!MeetingStatus, W!IsTable
  <2>3. meetings' = [meetings EXCEPT ![m] = row]
    BY <1>2 DEF W!StartCommit
  <2> HIDE DEF row
  <2> QED
    BY <2>1, <2>2, <2>3 DEF W!IsTable
<1>3. CASE W!ConcludeCommit(h)
  <2> DEFINE m == wreq[h].meeting
             row == [status |-> "CONCLUDED", ended |-> {h}]
  <2>1. m \in DOMAIN meetings /\ Concluding(h, m) /\ wreq'[h].pc = "idle"
    BY <1>3, VisitIdle DEF W!ConcludeCommit, W!EndRequest, Concluding
  <2>2. row \in W!MeetingRow /\ row.status = "CONCLUDED"
    BY DEF W!MeetingRow, W!MeetingStatus
  <2>3. meetings' = [meetings EXCEPT ![m] = row]
    BY <1>3 DEF W!ConcludeCommit
  <2> HIDE DEF row
  <2> QED
    BY <2>1, <2>2, <2>3 DEF W!IsTable
<1> QED
  BY <1>1, <1>2, <1>3

LEMMA WorkspaceStep == WorkspaceInv /\ [WorkspaceNext]_workspaceVars => WorkspaceInv'
<1> SUFFICES ASSUME WorkspaceInv, [WorkspaceNext]_workspaceVars PROVE WorkspaceInv'
  OBVIOUS
<1>1. CASE UNCHANGED workspaceVars
  BY <1>1 DEF workspaceVars, WorkspaceInv, W!TypeOK, Settled, Orderly, AtMostOne, W!RowsOf,
              Arriving, Starting, Concluding
<1>2. ASSUME WorkspaceNext, NEW e \in Entity \ twice'
      PROVE  /\ Settled(e)
             /\ \A h, k \in Handler : Arriving(h, e)' /\ Arriving(k, e)' => h = k
  BY <1>2 DEF WorkspaceNext, WorkspaceInv
<1>3. ASSUME WorkspaceNext, NEW m \in Meeting \ rivals'
      PROVE  /\ m \in DOMAIN meetings => Orderly(m)
             /\ \A h, k \in Handler :
                   \/ Starting(h, m)' /\ Starting(k, m)'
                   \/ Concluding(h, m)' /\ Concluding(k, m)'
                   => h = k
  BY <1>3 DEF WorkspaceNext, WorkspaceInv
<1>4. ASSUME WorkspaceNext, UNCHANGED <<presences, wreq>>, zones' \subseteq Zone,
             UNCHANGED meetings \/ \E m \in Meeting : W!ScheduleMeeting(m)
      PROVE  WorkspaceInv'
  <2>1. /\ W!IsTable(meetings', Meeting, W!MeetingRow)
        /\ DOMAIN meetings \subseteq DOMAIN meetings'
        /\ \A m \in DOMAIN meetings : meetings'[m] = meetings[m]
    <3>1. CASE UNCHANGED meetings
      BY <3>1 DEF WorkspaceInv, W!TypeOK
    <3>2. CASE \E m \in Meeting : W!ScheduleMeeting(m)
      <4> DEFINE row == [status |-> "SCHEDULED", ended |-> {}]
      <4>1. row \in W!MeetingRow
        BY DEF W!MeetingRow, W!MeetingStatus
      <4>2. PICK m \in Meeting : meetings' = W!Inserted(meetings, m, row) /\ m \notin DOMAIN meetings
        BY <3>2 DEF W!ScheduleMeeting
      <4> HIDE DEF row
      <4> QED
        BY <4>1, <4>2 DEF WorkspaceInv, W!TypeOK, W!IsTable, W!Inserted
    <3> QED
      BY <1>4, <3>1, <3>2
  <2>2. \A e \in Entity \ twice' : Settled(e)'
    BY <1>2, <1>4 DEF Settled, AtMostOne, W!RowsOf, Arriving
  <2>3. ASSUME NEW m \in DOMAIN meetings' \ rivals' PROVE Orderly(m)'
    <3>1. m \in Meeting \ rivals' /\ UNCHANGED wreq
      BY <1>4, <2>1 DEF W!IsTable
    <3>2. CASE m \in DOMAIN meetings
      BY <1>3, <1>4, <2>1, <3>1, <3>2 DEF Orderly, Starting, Concluding
    <3>3. CASE m \notin DOMAIN meetings
      BY <3>1, <3>3 DEF Orderly, Starting, Concluding, WorkspaceInv
    <3> QED
      BY <3>2, <3>3
  <2> QED
    BY <1>4, <2>1, <2>2, <2>3 DEF WorkspaceInv, W!TypeOK
<1>5. ASSUME WorkspaceNext, NEW h \in Handler, NEW r \in W!Request,
             wreq' = [wreq EXCEPT ![h] = r],
             UNCHANGED zones,
             r.pc # "idle" => UNCHANGED <<presences, meetings>>,
             r.pc = "arriving" => W!RowsOf(r.entity) = {},
             r.pc = "moving" => r.presence \in DOMAIN presences,
             r.pc = "starting" => /\ r.meeting \in DOMAIN meetings
                                  /\ meetings[r.meeting].status = "SCHEDULED",
             r.pc = "concluding" => /\ r.meeting \in DOMAIN meetings
                                    /\ meetings[r.meeting].status = "IN_PROGRESS",
             \/ UNCHANGED presences
             \/ W!MoveCommit(h) \/ \E p \in Presence : W!ArriveCommit(h, p),
             UNCHANGED meetings \/ W!StartCommit(h) \/ W!ConcludeCommit(h)
      PROVE  WorkspaceInv'
  <2>1. /\ W!IsTable(presences', Presence, W!PresenceRow)
        /\ DOMAIN presences \subseteq DOMAIN presences'
        /\ \A e \in Entity :
              \/ W!RowsOf(e)' = W!RowsOf(e)
              \/ Arriving(h, e) /\ wreq'[h].pc = "idle" /\ \E p : W!RowsOf(e)' = W!RowsOf(e) \cup {p}
    BY <1>5, PresenceRows
  <2>2. /\ W!IsTable(meetings', Meeting, W!MeetingRow)
        /\ DOMAIN meetings' = DOMAIN meetings
        /\ \A m \in DOMAIN meetings :
              meetings'[m] # meetings[m] =>
                 \/ /\ Starting(h, m) /\ wreq'[h].pc = "idle"
                    /\ meetings'[m].status = "IN_PROGRESS"
                 \/ /\ Concluding(h, m) /\ wreq'[h].pc = "idle"
                    /\ meetings'[m].status = "CONCLUDED"
    BY <1>5, MeetingRows
  <2>3. /\ wreq' \in [Handler -> W!Request]
        /\ wreq'[h] = r
        /\ \A k \in Handler \ {h} : wreq'[k] = wreq[k]
    BY <1>5 DEF WorkspaceInv, W!TypeOK
  <2>4. \A k \in Handler :
          /\ wreq'[k].pc = "moving" => wreq'[k].presence \in DOMAIN presences'
          /\ wreq'[k].pc \in {"starting", "concluding"} => wreq'[k].meeting \in DOMAIN meetings'
    BY <1>5, <2>1, <2>2, <2>3 DEF WorkspaceInv
  <2>5. ASSUME NEW e \in Entity \ twice' PROVE Settled(e)'
    <3>1. /\ Settled(e)
          /\ \A k, l \in Handler : Arriving(k, e)' /\ Arriving(l, e)' => k = l
      BY <1>2, <1>5
    <3>2. CASE W!RowsOf(e)' = W!RowsOf(e)
      <4>1. \A k \in Handler : Arriving(k, e)' => W!RowsOf(e) = {}
        BY <1>5, <2>3, <3>1 DEF Settled, Arriving
      <4> QED
        BY <3>1, <3>2, <4>1 DEF Settled, AtMostOne
    <3>3. CASE Arriving(h, e) /\ wreq'[h].pc = "idle" /\ \E p : W!RowsOf(e)' = W!RowsOf(e) \cup {p}
      <4>1. W!RowsOf(e) = {}
        BY <3>1, <3>3 DEF Settled
      <4>2. \A k \in Handler : ~Arriving(k, e)'
        BY <2>3, <3>1, <3>3 DEF Settled, Arriving
      <4> QED
        BY <3>3, <4>1, <4>2 DEF Settled, AtMostOne
    <3> QED
      BY <2>1, <3>2, <3>3
  <2>6. ASSUME NEW m \in DOMAIN meetings' \ rivals' PROVE Orderly(m)'
    <3>1. /\ m \in DOMAIN meetings /\ Orderly(m)
          /\ \A k, l \in Handler :
                \/ Starting(k, m)' /\ Starting(l, m)'
                \/ Concluding(k, m)' /\ Concluding(l, m)'
                => k = l
      BY <1>3, <1>5, <2>2, <2>6 DEF W!IsTable
    <3>2. CASE meetings'[m] = meetings[m]
      <4>1. \A k \in Handler :
              /\ Starting(k, m)' => meetings[m].status = "SCHEDULED"
              /\ Concluding(k, m)' => meetings[m].status = "IN_PROGRESS"
        BY <1>5, <2>3, <3>1 DEF Orderly, Starting, Concluding
      <4> QED
        BY <3>1, <3>2, <4>1 DEF Orderly
    <3>3. CASE meetings'[m] # meetings[m]
      <4>1. wreq'[h].pc = "idle" /\ (Starting(h, m) \/ Concluding(h, m))
        BY <2>2, <3>1, <3>3
      <4>2. \A k \in Handler : ~Starting(k, m)' /\ ~Concluding(k, m)'
        BY <2>3, <3>1, <4>1 DEF Orderly, Starting, Concluding
      <4> QED
        BY <3>1, <4>2 DEF Orderly
    <3> QED
      BY <3>2, <3>3
  <2> QED
    BY <1>5, <2>1, <2>2, <2>3, <2>4, <2>5, <2>6 DEF WorkspaceInv, W!TypeOK
<1>6. CASE WorkspaceNext
  <2>1. W!Next
    BY <1>6 DEF WorkspaceNext
  <2> QED
    BY <1>4, <1>5, <1>6, <2>1, WorkspaceSteps
<1> QED
  BY <1>1, <1>6

LEMMA WorkspaceInvariance == HistorySpec => []WorkspaceInv
<1>1. HistoryInit => WorkspaceInv
  BY WorkspaceStart DEF HistoryInit
<1>2. WorkspaceInv /\ [HistoryNext]_historyVars => WorkspaceInv'
  BY StepOfEach, WorkspaceStep
<1> QED
  BY <1>1, <1>2, PTL DEF HistorySpec, historyVars

\* An entity has one presence, unless two requests sent its first heartbeat.
THEOREM EntitiesAreInOnePlace == HistorySpec => []OnePresence
<1>1. WorkspaceInv => OnePresence
  BY AtMostOneCounted DEF WorkspaceInv, OnePresence, Settled
<1> QED
  BY <1>1, WorkspaceInvariance, PTL

\* A concluded meeting stays as it ended, unless two requests started or
\* concluded it at the same time.
THEOREM MeetingsStayEnded == HistorySpec => MeetingsEnd
<1> DEFINE Ended == \A m \in DOMAIN meetings \ rivals :
                       meetings[m].status = "CONCLUDED" => meetings'[m] = meetings[m]
<1>1. ASSUME WorkspaceInv, WorkspaceNext PROVE Ended
  <2> TAKE m \in DOMAIN meetings \ rivals
  <2> HAVE meetings[m].status = "CONCLUDED"
  <2>1. \A h \in Handler : ~Starting(h, m) /\ ~Concluding(h, m)
    BY <1>1 DEF WorkspaceInv, Orderly
  <2>2. CASE UNCHANGED meetings
    BY <2>2
  <2>3. CASE \E h \in Handler : W!StartCommit(h) \/ W!ConcludeCommit(h)
    BY <1>1, <2>1, <2>3, MeetingRows
  <2>4. CASE \E n \in Meeting : W!ScheduleMeeting(n)
    BY <2>4 DEF W!ScheduleMeeting, W!Inserted
  <2> QED
    BY <1>1, <2>2, <2>3, <2>4, WorkspaceSteps DEF WorkspaceNext
<1>2. WorkspaceInv /\ [HistoryNext]_historyVars => [Ended]_meetings
  BY <1>1, StepOfEach DEF workspaceVars
<1> QED
  BY <1>2, WorkspaceInvariance, PTL DEF HistorySpec, historyVars, MeetingsEnd

-----------------------------------------------------------------------------
\* The rows, the requests and the attempts are what they should be.
THEOREM TypeCorrect == HistorySpec => []TypeOK
<1>1. LimiterInv => R!TypeOK
  BY DEF LimiterInv, Ages, R!TypeOK
<1>2. /\ ApprovalsInv => A!TypeOK
      /\ MemoriesInv => M!TypeOK
      /\ WorkspaceInv => W!TypeOK
      /\ DepartmentsInv => D!TypeOK
      /\ BridgesInv => B!TypeOK
  BY DEF ApprovalsInv, MemoriesInv, WorkspaceInv, DepartmentsInv, BridgesInv
<1>3. /\ LimiterInv /\ ApprovalsInv /\ MemoriesInv
      /\ WorkspaceInv /\ DepartmentsInv /\ BridgesInv
      => TypeOK
  BY <1>1, <1>2 DEF TypeOK
<1> QED
  BY <1>3, LimiterInvariance, ApprovalsInvariance, MemoriesInvariance, WorkspaceInvariance,
     DepartmentsInvariance, BridgesInvariance, PTL
=============================================================================
