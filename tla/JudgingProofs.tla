---------------------------- MODULE JudgingProofs ----------------------------
(***************************************************************************)
(* Proofs about Judging, for any number of councils, agents and requests,  *)
(* any scores, any differences that floats misjudge at the limit, and any  *)
(* number of required judges.                                              *)
(***************************************************************************)
EXTENDS Judging, FiniteSetTheorems, TLAPS

IInv ==
    /\ TypeOK
    /\ IsFiniteSet(cards)
    /\ OneCardAtATime
    /\ OneCardPerJudge
    /\ StatusFollowsCards

-----------------------------------------------------------------------------
(* What a row says of the cards that count, without reference to the state *)

Reaches(V) == \E c, d \in V : c.score - d.score >= 25000

Passes(V) == \E c, d \in V : c.score - d.score > 25000

\* What a council makes of the scores.
Divisive(V) == \E c, d \in V : Exceeds(c.score, d.score)

Plurality(V) ==
    {v \in Verdict : \A w \in Verdict :
        Cardinality({c \in V : c.verdict = w}) <= Cardinality({c \in V : c.verdict = v})}

Fits(row, V) ==
    /\ row.status \in {"PENDING_REVIEW", "IN_DELIBERATION"}
          <=> ~(Cardinality(V) >= row.required)
    /\ row.status = "ESCALATED_TO_OWNER" => Reaches(V)
    /\ row.status = "CONSENSUS_REACHED" => ~Passes(V)
    /\ IF row.status = "CONSENSUS_REACHED"
       THEN row.verdict \in Plurality(V)
       ELSE row.verdict = Undecided

LEMMA FitsFact ==
    /\ StatusFollowsCards
          <=> \A s \in DOMAIN councils : Fits(councils[s], Valid(s, cards))
    /\ StatusFollowsCards'
          <=> \A s \in DOMAIN councils' : Fits(councils'[s], Valid(s, cards'))
BY DEF StatusFollowsCards, Fits, Quorate, SpreadReaches25, SpreadPasses25,
       Reaches, Passes, Leading, Votes, Plurality, Valid

LEMMA IdleRequest == Idle \in Request /\ Idle.pc = "idle"
BY DEF Request, Idle

\* A request that works on a card keeps it.
LEMMA RequestFields ==
    ASSUME NEW r \in Request, r.pc \in {"checking", "scoring"}
    PROVE  /\ r.card \in Card
           /\ [r EXCEPT !.pc = "scoring"] \in Request
           /\ [r EXCEPT !.pc = "scoring"].pc = "scoring"
           /\ [r EXCEPT !.pc = "scoring"].card = r.card
BY DEF Request

LEMMA ScoreFact ==
    ASSUME NEW x \in Score
    PROVE  x \in Int
BY JudgingAssumption

LEMMA CardFields ==
    ASSUME NEW c \in Card
    PROVE  c.council \in Council /\ c.score \in Score /\ c.score \in Int
<1>1. c.council \in Council /\ c.score \in Score
    BY DEF Card, Scorecard
<1> QED BY <1>1, ScoreFact

\* A council without a card is not quorate.
LEMMA EmptyCouncil ==
    ASSUME TypeOK, NEW s, s \notin DOMAIN councils
    PROVE  Valid(s, cards) = {} /\ Cardinality(Valid(s, cards)) = 0
BY FS_EmptySet DEF TypeOK, Valid

LEMMA InitIInv == Init => IInv
<1> SUFFICES ASSUME Init PROVE IInv
    OBVIOUS
<1>1. TypeOK /\ IsFiniteSet(cards)
    BY IdleRequest, FS_EmptySet DEF Init, TypeOK, IsTable, EmptyTable
<1>2. OneCardAtATime /\ OneCardPerJudge
    BY IdleRequest DEF Init, OneCardAtATime, OneCardPerJudge
<1>3. StatusFollowsCards
    BY DEF Init, StatusFollowsCards, EmptyTable
<1> QED BY <1>1, <1>2, <1>3 DEF IInv

-----------------------------------------------------------------------------
(* Steps that change one request *)

\* What makes a request that has reached r a lawful holder of its council.
Lawful(h, r) ==
    r.pc \in {"checking", "scoring"} =>
        /\ r.card.council \in DOMAIN councils
        /\ Open(r.card.council)
        /\ \A k \in Handler \ {h} : ~Holds(k, r.card.council)
        /\ r.pc = "scoring"
              => \A d \in cards : ~(d.council = r.card.council /\ d.judge = r.card.judge)

LEMMA RequestStep ==
    ASSUME IInv, UNCHANGED <<councils, cards, active>>,
           NEW h \in Handler, NEW r \in Request,
           req' = [req EXCEPT ![h] = r],
           Lawful(h, r)
    PROVE  IInv'
<1>1. TypeOK' /\ IsFiniteSet(cards')
    BY DEF IInv, TypeOK
<1>2. OneCardPerJudge' /\ StatusFollowsCards'
    BY DEF IInv, OneCardPerJudge, StatusFollowsCards, Quorate, SpreadReaches25,
           SpreadPasses25, Leading, Votes,
           Valid
<1>3. /\ \A k \in Handler \ {h} : req'[k] = req[k]
      /\ req'[h] = r
    BY DEF IInv, TypeOK
<1>4. OneCardAtATime'
    BY <1>3 DEF IInv, OneCardAtATime, Lawful, Holds, Open
<1> QED BY <1>1, <1>2, <1>4 DEF IInv

LEMMA LockIInv ==
    ASSUME IInv, NEW h \in Handler, NEW c \in Card, ScoreLock(h, c)
    PROVE  IInv'
<1> DEFINE r == [pc |-> "checking", card |-> c]
<1>1. r \in Request /\ r.pc = "checking" /\ r.card = c
    BY DEF Request
<1>2. Lawful(h, r)
    BY <1>1 DEF ScoreLock, Lawful
<1> QED BY <1>1, <1>2, RequestStep DEF ScoreLock

LEMMA AcceptIInv ==
    ASSUME IInv, NEW h \in Handler, ScoreAccept(h)
    PROVE  IInv'
<1>1. PICK r : r = [req[h] EXCEPT !.pc = "scoring"]
    OBVIOUS
<1>2. r \in Request /\ r.pc = "scoring" /\ r.card = req[h].card
    BY <1>1, RequestFields DEF ScoreAccept, IInv, TypeOK
<1>3. Lawful(h, r)
    BY <1>2 DEF ScoreAccept, Accepts, IInv, OneCardAtATime, Lawful
<1>4. req' = [req EXCEPT ![h] = r]
    BY <1>1 DEF ScoreAccept
<1> QED BY <1>2, <1>3, <1>4, RequestStep DEF ScoreAccept

LEMMA EndIInv ==
    ASSUME IInv, NEW h \in Handler, ScoreDeny(h) \/ Abort(h)
    PROVE  IInv'
<1>1. Lawful(h, Idle)
    BY IdleRequest DEF Lawful
<1> QED BY <1>1, IdleRequest, RequestStep DEF ScoreDeny, Abort, EndRequest

-----------------------------------------------------------------------------
(* Rounding a score, and judging it before it is rounded *)

\* The scores on record are hundredths of a point.
Hundredths == {10 * k : k \in Int}

LEMMA RoundedFact ==
    ASSUME NEW x \in Int, NEW y \in Rounded(x)
    PROVE  y \in Int /\ y \in Hundredths /\ x - 5 <= y /\ y <= x + 5
<1>1. PICK k \in Int : k = x \div 10
    OBVIOUS
<1>2. y = 10 * k \/ y = 10 * k + 10
    BY <1>1 DEF Rounded
<1>3. y = 10 * k \/ y = 10 * (k + 1)
    BY <1>2
<1>4. k + 1 \in Int
    OBVIOUS
<1>5. y \in Hundredths
    BY <1>3, <1>4 DEF Hundredths
<1> QED BY <1>2, <1>5 DEF Rounded

\* Rounding takes no score past a number of hundredths.
LEMMA RoundingKeepsOrder ==
    ASSUME NEW x \in Int, NEW y \in Rounded(x), NEW z \in Hundredths
    PROVE  (x <= z => y <= z) /\ (z <= x => z <= y)
<1>1. PICK j \in Int : y = 10 * j
    BY RoundedFact DEF Hundredths
<1>2. PICK k \in Int : z = 10 * k
    BY DEF Hundredths
<1>3. x - 5 <= 10 * j /\ 10 * j <= x + 5
    BY <1>1, RoundedFact
<1>4. x <= z => j <= k
    BY <1>2, <1>3
<1>5. z <= x => k <= j
    BY <1>2, <1>3
<1> QED BY <1>1, <1>2, <1>4, <1>5

\* Floats agree with the scores but for pairs exactly 25 points apart.
LEMMA ExceedsFact ==
    ASSUME NEW x \in Int, NEW y \in Int
    PROVE  /\ Exceeds(x, y) => x - y >= 25000
           /\ x - y > 25000 => Exceeds(x, y)
<1>1. <<x, y>> \in Excess => x - y = 25000
    BY JudgingAssumption
<1> QED BY <1>1 DEF Exceeds

LEMMA RecordedFact ==
    ASSUME NEW d \in RecordedCard
    PROVE  d.score \in Int /\ d.score \in Hundredths
<1>1. PICK x \in Score : d.score \in Rounded(x)
    BY DEF RecordedCard, Scorecard
<1> QED BY <1>1, RoundedFact, JudgingAssumption

\* The card that is kept of the card c.
LEMMA KeptFact ==
    ASSUME NEW c \in Card, NEW kept \in Rounded(c.score),
           NEW k, k = [c EXCEPT !.score = kept]
    PROVE  /\ k \in RecordedCard
           /\ k.score = kept
           /\ k.council = c.council /\ k.judge = c.judge
           /\ k.verdict = c.verdict /\ k.declared = c.declared
BY CardFields DEF Card, RecordedCard, Scorecard

\* A council judges cards on record as they are, but for a spread of exactly 25.
LEMMA SpreadOfRecords ==
    ASSUME NEW U \in SUBSET RecordedCard
    PROVE  /\ Divisive(U) => Reaches(U)
           /\ ~Divisive(U) => ~Passes(U)
BY RecordedFact, ExceedsFact DEF Divisive, Reaches, Passes

\* The same holds though one card is judged by the score submitted: a difference
\* is moved across 25 points by no rounding, since the other score and 25 points
\* are whole hundredths.
LEMMA SpreadWithNewCard ==
    ASSUME NEW U \in SUBSET RecordedCard, NEW c \in Card,
           NEW k, k.score \in Rounded(c.score)
    PROVE  /\ Divisive(U \cup {c}) => Reaches(U \cup {k})
           /\ ~Divisive(U \cup {c}) => ~Passes(U \cup {k})
<1>1. c.score \in Int /\ k.score \in Int
    BY CardFields, RoundedFact
<1>2. ASSUME NEW d \in U
      PROVE  /\ d.score \in Int
             /\ c.score - d.score >= 25000 => k.score - d.score >= 25000
             /\ c.score - d.score <= 25000 => k.score - d.score <= 25000
             /\ d.score - c.score >= 25000 => d.score - k.score >= 25000
             /\ d.score - c.score <= 25000 => d.score - k.score <= 25000
    <2>1. PICK i \in Int : d.score = 10 * i
        BY <1>2, RecordedFact DEF Hundredths
    <2>2. 10 * (i + 2500) \in Hundredths /\ 10 * (i - 2500) \in Hundredths
        <3>1. i + 2500 \in Int /\ i - 2500 \in Int
            OBVIOUS
        <3> QED BY <3>1 DEF Hundredths
    <2>3. /\ c.score <= 10 * (i + 2500) => k.score <= 10 * (i + 2500)
          /\ 10 * (i + 2500) <= c.score => 10 * (i + 2500) <= k.score
          /\ c.score <= 10 * (i - 2500) => k.score <= 10 * (i - 2500)
          /\ 10 * (i - 2500) <= c.score => 10 * (i - 2500) <= k.score
        BY <1>1, <2>2, RoundingKeepsOrder
    <2> QED BY <1>1, <2>1, <2>3
<1>3. ASSUME Divisive(U \cup {c})
      PROVE  Reaches(U \cup {k})
    <2>1. PICK d, e \in U \cup {c} : Exceeds(d.score, e.score)
        BY <1>3 DEF Divisive
    <2>2. d.score \in Int /\ e.score \in Int /\ d.score - e.score >= 25000
        BY <1>1, <1>2, <2>1, ExceedsFact
    <2>3. CASE d \in U /\ e \in U
        BY <2>2, <2>3 DEF Reaches
    <2>4. CASE d = c /\ e \in U
        <3>1. k.score - e.score >= 25000
            BY <1>1, <1>2, <2>2, <2>4
        <3>2. k \in U \cup {k} /\ e \in U \cup {k}
            BY <2>4
        <3> QED BY <3>1, <3>2 DEF Reaches
    <2>5. CASE d \in U /\ e = c
        <3>1. d.score - k.score >= 25000
            BY <1>1, <1>2, <2>2, <2>5
        <3>2. d \in U \cup {k} /\ k \in U \cup {k}
            BY <2>5
        <3> QED BY <3>1, <3>2 DEF Reaches
    <2>6. ~(d = c /\ e = c)
        BY <2>2
    <2> QED BY <2>1, <2>3, <2>4, <2>5, <2>6
<1>4. ASSUME ~Divisive(U \cup {c}), Passes(U \cup {k})
      PROVE  FALSE
    <2>1. PICK d, e \in U \cup {k} : d.score - e.score > 25000
        BY <1>4 DEF Passes
    <2>2. CASE d \in U /\ e \in U
        BY <1>2, <1>4, <2>1, <2>2, ExceedsFact DEF Divisive
    <2>3. CASE d = k /\ e \in U
        <3>1. c.score - e.score > 25000
            BY <1>1, <1>2, <2>1, <2>3
        <3> QED BY <1>1, <1>2, <1>4, <2>3, <3>1, ExceedsFact DEF Divisive
    <2>4. CASE d \in U /\ e = k
        <3>1. d.score - c.score > 25000
            BY <1>1, <1>2, <2>1, <2>4
        <3> QED BY <1>1, <1>2, <1>4, <2>4, <3>1, ExceedsFact DEF Divisive
    <2>5. CASE d = k /\ e = k
        <3>1. k.score - k.score > 25000
            BY <2>1, <2>5
        <3> QED BY <1>1, <3>1
    <2> QED BY <2>1, <2>2, <2>3, <2>4, <2>5
<1> QED BY <1>3, <1>4

\* A judge without a card counts once, whichever score is taken.
LEMMA SameCount ==
    ASSUME NEW U, IsFiniteSet(U), NEW c, NEW k, c \notin U, k \notin U
    PROVE  Cardinality(U \cup {c}) = Cardinality(U \cup {k})
BY FS_AddElement

LEMMA SameVotes ==
    ASSUME NEW U, IsFiniteSet(U), NEW c, NEW k, c \notin U, k \notin U,
           c.verdict = k.verdict
    PROVE  Plurality(U \cup {c}) = Plurality(U \cup {k})
<1>1. ASSUME NEW v
      PROVE  Cardinality({d \in U \cup {c} : d.verdict = v})
                 = Cardinality({d \in U \cup {k} : d.verdict = v})
    <2> DEFINE W == {d \in U : d.verdict = v}
    <2>1. IsFiniteSet(W)
        BY FS_Subset
    <2>2. CASE c.verdict = v
        <3>1. /\ {d \in U \cup {c} : d.verdict = v} = W \cup {c}
              /\ {d \in U \cup {k} : d.verdict = v} = W \cup {k}
            BY <2>2
        <3>2. c \notin W /\ k \notin W
            OBVIOUS
        <3> QED BY <2>1, <3>1, <3>2, SameCount
    <2>3. CASE c.verdict # v
        <3>1. /\ {d \in U \cup {c} : d.verdict = v} = W
              /\ {d \in U \cup {k} : d.verdict = v} = W
            BY <2>3
        <3> QED BY <3>1
    <2> QED BY <2>2, <2>3
<1>2. ASSUME NEW v, NEW w
      PROVE  Cardinality({d \in U \cup {c} : d.verdict = w})
                 <= Cardinality({d \in U \cup {c} : d.verdict = v})
             <=> Cardinality({d \in U \cup {k} : d.verdict = w})
                 <= Cardinality({d \in U \cup {k} : d.verdict = v})
    <2>1. /\ Cardinality({d \in U \cup {c} : d.verdict = w})
                 = Cardinality({d \in U \cup {k} : d.verdict = w})
          /\ Cardinality({d \in U \cup {c} : d.verdict = v})
                 = Cardinality({d \in U \cup {k} : d.verdict = v})
        BY <1>1
    <2> QED BY <2>1
<1> QED BY <1>2, Zenon DEF Plurality

-----------------------------------------------------------------------------
(* The commit of a scorecard *)

\* What the council judges, with the score submitted, and what is on record
\* afterwards agree in all that its row depends on.
LEMMA JudgedAndRecorded ==
    ASSUME IInv, NEW h \in Handler, req[h].pc = "scoring",
           NEW c \in Card, c = req[h].card,
           NEW k, k.score \in Rounded(c.score),
           k.council = c.council, k.judge = c.judge,
           k.verdict = c.verdict, k.declared = c.declared
    PROVE  LET V == Valid(c.council, cards \cup {c})
               W == Valid(c.council, cards \cup {k})
           IN  /\ Cardinality(V) = Cardinality(W)
               /\ Plurality(V) = Plurality(W)
               /\ Divisive(V) => Reaches(W)
               /\ ~Divisive(V) => ~Passes(W)
<1> DEFINE U == Valid(c.council, cards)
           V == Valid(c.council, cards \cup {c})
           W == Valid(c.council, cards \cup {k})
<1>1. U \in SUBSET RecordedCard
    BY DEF IInv, TypeOK, Valid
<1>2. IsFiniteSet(U)
    <2>1. U \in SUBSET cards /\ IsFiniteSet(cards)
        BY DEF IInv, Valid
    <2> HIDE DEF U
    <2> QED BY <2>1, FS_Subset
<1>3. c \notin U /\ k \notin U
    BY DEF IInv, OneCardAtATime, Valid
<1>4. CASE c.declared
    <2>1. V = U /\ W = U
        BY <1>4 DEF Valid
    <2> HIDE DEF U, V, W
    <2>2. /\ Divisive(U) => Reaches(U)
          /\ ~Divisive(U) => ~Passes(U)
        BY <1>1, SpreadOfRecords
    <2> QED BY <2>1, <2>2 DEF V, W
<1>5. CASE ~c.declared
    <2>1. V = U \cup {c} /\ W = U \cup {k}
        BY <1>5 DEF Valid
    <2> HIDE DEF U, V, W
    <2>2. Cardinality(V) = Cardinality(W)
        BY <1>2, <1>3, <2>1, SameCount
    <2>3. Plurality(V) = Plurality(W)
        <3>1. Plurality(U \cup {c}) = Plurality(U \cup {k})
            BY <1>2, <1>3, SameVotes
        <3> QED BY <2>1, <3>1, Zenon
    <2>4. /\ Divisive(V) => Reaches(W)
          /\ ~Divisive(V) => ~Passes(W)
        <3>1. /\ Divisive(U \cup {c}) => Reaches(U \cup {k})
              /\ ~Divisive(U \cup {c}) => ~Passes(U \cup {k})
            BY <1>1, SpreadWithNewCard
        <3> QED BY <2>1, <3>1, Zenon
    <2> QED BY <2>2, <2>3, <2>4 DEF V, W
<1> QED BY <1>4, <1>5

\* What the commit of h does: the card is added, with its score as the table
\* keeps it, and its council's row becomes one that fits the cards on record,
\* for the same author and number of judges.
LEMMA CommitEffect ==
    ASSUME IInv, NEW h \in Handler, ScoreCommit(h)
    PROVE  \E k \in RecordedCard :
               /\ k.council = req[h].card.council
               /\ k.judge = req[h].card.judge
               /\ k.council \in DOMAIN councils
               /\ cards' = cards \cup {k}
               /\ \E row \in CouncilRow :
                     /\ councils' = [councils EXCEPT ![k.council] = row]
                     /\ row.required = councils[k.council].required
                     /\ Fits(row, Valid(k.council, cards'))
<1>1. PICK c \in Card : c = req[h].card
    BY RequestFields DEF ScoreCommit, IInv, TypeOK
<1>2. PICK s : s = c.council
    OBVIOUS
<1>3. /\ req[h].pc = "scoring"
      /\ s \in DOMAIN councils
      /\ councils[s] \in CouncilRow
      /\ councils[s].status # "CONSENSUS_REACHED"
      /\ councils[s].verdict = Undecided
    BY <1>1, <1>2 DEF ScoreCommit, IInv, TypeOK, IsTable, OneCardAtATime, Open,
                      StatusFollowsCards
<1>4. PICK kept \in Rounded(c.score) : cards' = cards \cup {[c EXCEPT !.score = kept]}
    BY <1>1 DEF ScoreCommit
<1>5. PICK k : k = [c EXCEPT !.score = kept]
    OBVIOUS
<1>6. PICK row \in Judged(s, c) : councils' = [councils EXCEPT ![s] = row]
    BY <1>1, <1>2 DEF ScoreCommit
<1>7. PICK V : V = Valid(s, cards \cup {c})
    OBVIOUS
<1>8. PICK W : W = Valid(s, cards')
    OBVIOUS
<1>9. /\ Quorate(s, cards \cup {c}) <=> Cardinality(W) >= councils[s].required
      /\ Divided(s, cards \cup {c}) => Reaches(W)
      /\ ~Divided(s, cards \cup {c}) => ~Passes(W)
      /\ Leading(s, cards \cup {c}) = Plurality(W)
    <2>1. /\ Quorate(s, cards \cup {c}) <=> Cardinality(V) >= councils[s].required
          /\ Divided(s, cards \cup {c}) <=> Divisive(V)
          /\ Leading(s, cards \cup {c}) = Plurality(V)
        BY <1>7 DEF Quorate, Divided, Divisive, Leading, Votes, Plurality
    <2>2. /\ Cardinality(V) = Cardinality(W)
          /\ Plurality(V) = Plurality(W)
          /\ Divisive(V) => Reaches(W)
          /\ ~Divisive(V) => ~Passes(W)
        <3>1. /\ k.score \in Rounded(c.score)
              /\ k.council = s /\ k.judge = c.judge
              /\ k.verdict = c.verdict /\ k.declared = c.declared
              /\ W = Valid(s, cards \cup {k})
            BY <1>2, <1>4, <1>5, <1>8, KeptFact
        <3> QED BY <1>1, <1>2, <1>3, <1>7, <3>1, JudgedAndRecorded
    <2> QED BY <2>1, <2>2
<1>10. row \in CouncilRow /\ row.required = councils[s].required /\ Fits(row, W)
    <2>1. CASE ~Quorate(s, cards \cup {c})
        <3>1. row = [councils[s] EXCEPT !.status = "IN_DELIBERATION"]
            BY <1>6, <2>1 DEF Judged
        <3>2. /\ row \in CouncilRow
              /\ row.status = "IN_DELIBERATION"
              /\ row.required = councils[s].required
              /\ row.verdict = Undecided
            BY <1>3, <3>1 DEF CouncilRow, CouncilStatus
        <3> QED BY <1>9, <2>1, <3>2 DEF Fits
    <2>2. CASE Quorate(s, cards \cup {c}) /\ Divided(s, cards \cup {c})
        <3>1. row = [councils[s] EXCEPT !.status = "ESCALATED_TO_OWNER"]
            BY <1>6, <2>2 DEF Judged
        <3>2. /\ row \in CouncilRow
              /\ row.status = "ESCALATED_TO_OWNER"
              /\ row.required = councils[s].required
              /\ row.verdict = Undecided
            BY <1>3, <3>1 DEF CouncilRow, CouncilStatus
        <3> QED BY <1>9, <2>2, <3>2 DEF Fits
    <2>3. CASE Quorate(s, cards \cup {c}) /\ ~Divided(s, cards \cup {c})
        <3>1. PICK v \in Plurality(W) :
                  row = [councils[s] EXCEPT !.status = "CONSENSUS_REACHED", !.verdict = v]
            <4>1. \E v \in Leading(s, cards \cup {c}) :
                     row = [councils[s] EXCEPT !.status = "CONSENSUS_REACHED",
                                               !.verdict = v]
                BY <1>6, <2>3 DEF Judged
            <4>2. Leading(s, cards \cup {c}) = Plurality(W)
                BY <1>9
            <4> QED BY <4>1, <4>2, Zenon
        <3>2. v \in Verdict
            BY DEF Plurality
        <3>3. /\ row \in CouncilRow
              /\ row.status = "CONSENSUS_REACHED"
              /\ row.required = councils[s].required
              /\ row.verdict = v
            BY <1>3, <3>1, <3>2 DEF CouncilRow, CouncilStatus
        <3> QED BY <1>9, <2>3, <3>1, <3>3 DEF Fits
    <2> QED BY <2>1, <2>2, <2>3
<1>11. k \in RecordedCard /\ k.council = s /\ k.judge = c.judge
    BY <1>2, <1>5, KeptFact
<1> QED BY <1>1, <1>2, <1>3, <1>4, <1>5, <1>6, <1>8, <1>10, <1>11

LEMMA CommitIInv ==
    ASSUME IInv, NEW h \in Handler, ScoreCommit(h)
    PROVE  IInv'
<1>1. PICK c \in RecordedCard :
          /\ c.council = req[h].card.council
          /\ c.judge = req[h].card.judge
          /\ c.council \in DOMAIN councils
          /\ cards' = cards \cup {c}
          /\ \E row \in CouncilRow :
                /\ councils' = [councils EXCEPT ![c.council] = row]
                /\ row.required = councils[c.council].required
                /\ Fits(row, Valid(c.council, cards'))
    BY CommitEffect
<1>2. PICK s : s = c.council
    OBVIOUS
<1>3. s \in DOMAIN councils /\ cards' = cards \cup {c}
    BY <1>1, <1>2
<1>4. PICK row \in CouncilRow :
          /\ councils' = [councils EXCEPT ![s] = row]
          /\ row.required = councils[s].required
          /\ Fits(row, Valid(s, cards'))
    BY <1>1, <1>2
<1>5. /\ DOMAIN councils' = DOMAIN councils
      /\ councils'[s] = row
      /\ \A t \in DOMAIN councils \ {s} : councils'[t] = councils[t]
    BY <1>3, <1>4
<1>6. req' = [req EXCEPT ![h] = Idle] /\ active' = active /\ req[h].pc = "scoring"
    BY DEF ScoreCommit, EndRequest
<1>7. TypeOK' /\ IsFiniteSet(cards')
    <2>1. IsTable(councils', Council, CouncilRow)
        BY <1>3, <1>4 DEF IInv, TypeOK, IsTable
    <2>2. \A d \in cards' : d.council \in DOMAIN councils'
        BY <1>2, <1>3, <1>5 DEF IInv, TypeOK
    <2>3. IsFiniteSet(cards')
        BY <1>3, FS_AddElement DEF IInv
    <2> QED BY <1>3, <1>6, <2>1, <2>2, <2>3, IdleRequest DEF IInv, TypeOK
<1>8. /\ \A d \in cards : ~(d.council = s /\ d.judge = c.judge)
      /\ \A k \in Handler \ {h} : ~Holds(k, s)
    BY <1>1, <1>2, <1>6 DEF IInv, OneCardAtATime
<1>9. OneCardPerJudge'
    BY <1>2, <1>3, <1>8 DEF IInv, OneCardPerJudge
<1>10. OneCardAtATime'
    <2>1. /\ \A k \in Handler \ {h} : req'[k] = req[k]
          /\ req'[h].pc = "idle"
        BY <1>6, IdleRequest DEF IInv, TypeOK
    <2> QED BY <1>2, <1>3, <1>5, <1>8, <2>1 DEF IInv, OneCardAtATime, Holds, Open
<1>11. StatusFollowsCards'
    <2>1. ASSUME NEW t \in DOMAIN councils, t # s
          PROVE  Fits(councils'[t], Valid(t, cards'))
        <3>1. Valid(t, cards') = Valid(t, cards)
            BY <1>2, <1>3, <2>1 DEF Valid
        <3> QED BY <1>5, <2>1, <3>1, FitsFact DEF IInv
    <2> QED BY <1>4, <1>5, <2>1, FitsFact
<1> QED BY <1>7, <1>9, <1>10, <1>11 DEF IInv

LEMMA CreateIInv ==
    ASSUME IInv, NEW s \in Council, NEW a \in Agent, NEW n \in Required,
           CreateCouncil(s, a, n)
    PROVE  IInv'
<1>1. PICK row : row = [author |-> a, required |-> n, status |-> "PENDING_REVIEW",
                        verdict |-> Undecided]
    OBVIOUS
<1>2. /\ row \in CouncilRow
      /\ row.required = n
      /\ row.status = "PENDING_REVIEW"
      /\ row.verdict = Undecided
    BY <1>1 DEF CouncilRow, CouncilStatus
<1>3. /\ s \notin DOMAIN councils
      /\ councils' = Inserted(councils, s, row)
      /\ UNCHANGED <<cards, active, req>>
    BY <1>1 DEF CreateCouncil
<1>4. /\ DOMAIN councils' = DOMAIN councils \cup {s}
      /\ councils'[s] = row
      /\ \A t \in DOMAIN councils : councils'[t] = councils[t]
    BY <1>3 DEF Inserted
<1>5. TypeOK' /\ IsFiniteSet(cards')
    <2>1. IsTable(councils', Council, CouncilRow)
        BY <1>2, <1>3, <1>4 DEF IInv, TypeOK, IsTable, Inserted
    <2> QED BY <1>3, <1>4, <2>1 DEF IInv, TypeOK
<1>6. OneCardAtATime' /\ OneCardPerJudge'
    BY <1>3, <1>4 DEF IInv, OneCardAtATime, OneCardPerJudge, Holds, Open
<1>7. StatusFollowsCards'
    <2>1. Fits(row, Valid(s, cards))
        <3>1. Cardinality(Valid(s, cards)) = 0
            BY <1>3, EmptyCouncil DEF IInv
        <3>2. n \in Nat \ {0}
            BY JudgingAssumption
        <3> QED BY <1>2, <3>1, <3>2 DEF Fits
    <2> QED BY <1>3, <1>4, <2>1, FitsFact DEF IInv
<1> QED BY <1>5, <1>6, <1>7 DEF IInv

LEMMA NextIInv == IInv /\ [Next]_vars => IInv'
<1> SUFFICES ASSUME IInv, [Next]_vars PROVE IInv'
    OBVIOUS
<1>1. CASE UNCHANGED <<councils, cards, req>> /\ active' \subseteq Agent
    <2>1. TypeOK' /\ IsFiniteSet(cards')
        BY <1>1 DEF IInv, TypeOK
    <2>2. OneCardAtATime' /\ OneCardPerJudge'
        BY <1>1 DEF IInv, OneCardAtATime, OneCardPerJudge, Holds, Open
    <2>3. StatusFollowsCards'
        BY <1>1 DEF IInv, StatusFollowsCards, Quorate, SpreadReaches25,
           SpreadPasses25, Leading, Votes, Valid
    <2> QED BY <2>1, <2>2, <2>3 DEF IInv
<1>2. CASE UNCHANGED vars
    BY <1>1, <1>2 DEF vars, IInv, TypeOK
<1>3. ASSUME NEW a \in Agent, ChangeAgent(a)
      PROVE  IInv'
    BY <1>1, <1>3 DEF ChangeAgent, IInv, TypeOK
<1> QED BY <1>2, <1>3, CreateIInv, LockIInv, AcceptIInv, EndIInv, CommitIInv DEF Next

LEMMA Invariance == Spec => []IInv
BY InitIInv, NextIInv, PTL DEF Spec

-----------------------------------------------------------------------------
\* Councils, cards and requests stay well formed.
THEOREM TypeCorrect == Spec => []TypeOK
BY Invariance, PTL DEF IInv

\* Submissions to one council queue for its row, and the duplicate check still
\* holds when the card is added.
THEOREM CardsQueue == Spec => []OneCardAtATime
BY Invariance, PTL DEF IInv

\* No judge counts twice in a council.
THEOREM JudgesCountOnce == Spec => []OneCardPerJudge
BY Invariance, PTL DEF IInv

\* The council's status is at any time what the cards on record say, but for a
\* spread of exactly 25 points.
THEOREM StatusIsDerived == Spec => []StatusFollowsCards
BY Invariance, PTL DEF IInv

\* More cards leave a quorate council quorate, and scores apart.
LEMMA StaysQuorate ==
    ASSUME IInv, NEW s \in DOMAIN councils, NEW k, Quorate(s, cards)
    PROVE  Cardinality(Valid(s, cards \cup {k})) >= councils[s].required
<1> DEFINE V == Valid(s, cards)
           W == Valid(s, cards \cup {k})
<1>1. Cardinality(V) >= councils[s].required
    BY DEF Quorate
<1>2. IsFiniteSet(V) /\ IsFiniteSet(W) /\ Cardinality(V) <= Cardinality(W)
    <2>1. IsFiniteSet(cards \cup {k})
        BY FS_AddElement DEF IInv
    <2>2. W \in SUBSET (cards \cup {k}) /\ V \subseteq W
        BY DEF Valid
    <2>3. IsFiniteSet(W)
        BY <2>1, <2>2, FS_Subset
    <2> HIDE DEF V, W
    <2> QED BY <2>2, <2>3, FS_Subset
<1>3. Cardinality(V) \in Nat /\ Cardinality(W) \in Nat /\ councils[s].required \in Nat
    BY <1>2, FS_CardinalityType, JudgingAssumption DEF IInv, TypeOK, IsTable, CouncilRow
<1> HIDE DEF V, W
<1>4. Cardinality(W) >= councils[s].required
    BY <1>1, <1>2, <1>3
<1> QED BY <1>4 DEF W

LEMMA StaysPast25 ==
    ASSUME NEW s, NEW k, SpreadPasses25(s)
    PROVE  Passes(Valid(s, cards \cup {k}))
<1>1. PICK d, e \in Valid(s, cards) : d.score - e.score > 25000
    BY DEF SpreadPasses25
<1>2. d \in Valid(s, cards \cup {k}) /\ e \in Valid(s, cards \cup {k})
    BY DEF Valid
<1> QED BY <1>1, <1>2 DEF Passes

\* A consensus is never reopened, and an escalation is withdrawn only by a later
\* card and at a spread of exactly 25 points.
THEOREM OutcomesStand == Spec => OutcomeFinal
<1> DEFINE Stands(s) ==
        /\ councils[s].status = "CONSENSUS_REACHED"
              => /\ councils'[s] = councils[s]
                 /\ \A c \in cards' \ cards : c.council # s
        /\ councils[s].status = "ESCALATED_TO_OWNER"
              => \/ councils'[s].status = "ESCALATED_TO_OWNER"
                 \/ /\ councils'[s].status = "CONSENSUS_REACHED"
                    /\ ~SpreadPasses25(s)
<1>1. ASSUME IInv, [Next]_vars, NEW s \in DOMAIN councils
      PROVE  Stands(s)
    <2>1. ASSUME NEW h \in Handler, ScoreCommit(h)
          PROVE  Stands(s)
        <3>1. PICK k \in RecordedCard :
                  /\ k.council = req[h].card.council
                  /\ k.judge = req[h].card.judge
                  /\ k.council \in DOMAIN councils
                  /\ cards' = cards \cup {k}
                  /\ \E row \in CouncilRow :
                        /\ councils' = [councils EXCEPT ![k.council] = row]
                        /\ row.required = councils[k.council].required
                        /\ Fits(row, Valid(k.council, cards'))
            BY <1>1, <2>1, CommitEffect
        <3>2. PICK row \in CouncilRow :
                  /\ councils' = [councils EXCEPT ![k.council] = row]
                  /\ row.required = councils[k.council].required
                  /\ Fits(row, Valid(k.council, cards'))
            BY <3>1
        <3>3. CASE k.council # s
            BY <1>1, <3>1, <3>2, <3>3
        <3>4. CASE k.council = s
            <4>1. councils[s].status # "CONSENSUS_REACHED"
                BY <1>1, <2>1, <3>1, <3>4 DEF IInv, OneCardAtATime, Open, ScoreCommit
            <4>2. councils'[s] = row
                BY <3>2, <3>4, <1>1
            <4>3. ASSUME councils[s].status = "ESCALATED_TO_OWNER"
                  PROVE  \/ row.status = "ESCALATED_TO_OWNER"
                         \/ /\ row.status = "CONSENSUS_REACHED"
                            /\ ~SpreadPasses25(s)
                <5>1. Cardinality(Valid(s, cards')) >= row.required
                    <6>1. Quorate(s, cards)
                        BY <1>1, <4>3 DEF IInv, StatusFollowsCards
                    <6> QED BY <1>1, <3>1, <3>2, <3>4, <6>1, StaysQuorate
                <5>2. row.status \in {"ESCALATED_TO_OWNER", "CONSENSUS_REACHED"}
                    BY <3>2, <3>4, <5>1 DEF Fits, CouncilRow, CouncilStatus
                <5>3. SpreadPasses25(s) => Passes(Valid(s, cards'))
                    BY <3>1, StaysPast25
                <5> QED BY <3>2, <3>4, <5>2, <5>3 DEF Fits
            <4> QED BY <4>1, <4>2, <4>3
        <3> QED BY <3>3, <3>4
    <2>2. ASSUME NEW t \in Council, NEW a \in Agent, NEW n \in Required,
                 CreateCouncil(t, a, n)
          PROVE  Stands(s)
        BY <1>1, <2>2 DEF CreateCouncil, Inserted
    <2> QED BY <1>1, <2>1, <2>2
            DEF Next, vars, ScoreLock, ScoreAccept, ScoreDeny, Abort, ChangeAgent
<1>2. IInv /\ [Next]_vars => [\A s \in DOMAIN councils : Stands(s)]_vars
    BY <1>1
<1> QED BY <1>2, Invariance, PTL DEF Spec, OutcomeFinal
=============================================================================
