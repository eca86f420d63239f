------------------------------ MODULE Judging -------------------------------
(***************************************************************************)
(* The judging council: services/judging/service.py over the tables        *)
(* judging_sessions and judge_scorecards.                                  *)
(*                                                                         *)
(* A judge's scorecard is added, and the council's status computed again   *)
(* from all the cards, in one transaction that locks the council's row     *)
(* first.  Other transactions see it all at the commit.  Whether a judge   *)
(* is active is read under that lock, but nothing locks the agent's row.   *)
(*                                                                         *)
(* The submission a council judges never changes, so the council's row     *)
(* names its author.  The mean of the scores, a number kept for display,   *)
(* is left out.                                                            *)
(*                                                                         *)
(* Scores are thousandths of a point.  A judge submits a float; the column *)
(* keeps two decimals of it.  The transaction that adds a card judges that *)
(* card by the score submitted, which the session's identity map still     *)
(* holds, and the other cards by the scores on record.                     *)
(***************************************************************************)
EXTENDS Integers, FiniteSets, Rows

CONSTANTS
    Handler,      \* requests in flight
    Council,      \* primary keys of judging_sessions
    Agent,        \* judges and authors
    Department,
    NoDepartment, \* agents.department_id is NULL
    DeptOf,       \* agents.department_id, which no statement changes
    Score,        \* the values of total_score that judges submit
    Excess,       \* the pairs of scores exactly 25 points apart whose
                  \* difference, taken with floats, is more than 25.0
    Verdict,      \* EvaluationVerdict
    Required      \* the values required_judges may have

ASSUME JudgingAssumption ==
    /\ DeptOf \in [Agent -> Department \cup {NoDepartment}]
    /\ NoDepartment \notin Department
    /\ Score \subseteq Nat
    /\ \A p \in Excess : p[1] - p[2] = 25000
    /\ Required \subseteq Nat \ {0}

VARIABLES
    councils,   \* the committed rows of judging_sessions
    cards,      \* the committed rows of judge_scorecards
    active,     \* the agents whose status is ACTIVE
    req         \* the local variables of each request

vars == <<councils, cards, active, req>>

\* CLOSED is never assigned; a council is closed by consensus.
CouncilStatus ==
    {"PENDING_REVIEW", "IN_DELIBERATION", "CONSENSUS_REACHED", "ESCALATED_TO_OWNER"}

Undecided == "UNDECIDED"    \* final_verdict is NULL

CouncilRow == [author: Agent, required: Required, status: CouncilStatus,
               verdict: Verdict \cup {Undecided}]

\* A scorecard; `declared' is conflict_declared: such a card does not count.
Scorecard(S) == [council: Council, judge: Agent, score: S, verdict: Verdict,
                 declared: BOOLEAN]

\* A card as it is submitted.
Card == Scorecard(Score)

\* NUMERIC(5,2): the nearest hundredth of a point.  Which one is kept of a
\* score half-way between two depends on digits of the float beyond these.
Rounded(x) ==
    LET below == 10 * (x \div 10)
    IN  {y \in {below, below + 10} : x - 5 <= y /\ y <= x + 5}

\* A card as the table keeps it.
RecordedCard == Scorecard(UNION {Rounded(x) : x \in Score})

Request == [pc: {"idle"}] \cup [pc: {"checking", "scoring"}, card: Card]

Idle == [pc |-> "idle"]

TypeOK ==
    /\ IsTable(councils, Council, CouncilRow)
    /\ cards \subseteq RecordedCard
    /\ \A c \in cards : c.council \in DOMAIN councils
    /\ active \subseteq Agent
    /\ req \in [Handler -> Request]

Init ==
    /\ councils = EmptyTable
    /\ cards = {}
    /\ active = Agent
    /\ req = [h \in Handler |-> Idle]

-----------------------------------------------------------------------------
\* The transaction of h has locked the row of the council s.
Holds(h, s) == req[h].pc \in {"checking", "scoring"} /\ req[h].card.council = s

\* Bug: only a council that has been closed by hand refuses scorecards.
Open_unlessClosed(s) == councils[s].status # "CLOSED"

\* The council accepts scorecards, also after an escalation.
Open(s) == councils[s].status # "CONSENSUS_REACHED"

\* The cards of the council s in C that count.
Valid(s, C) == {c \in C : c.council = s /\ ~c.declared}

\* Enough judges have scored.
Quorate(s, C) == Cardinality(Valid(s, C)) >= councils[s].required

\* x - y > 25.0, as Python's floats have it.
Exceeds(x, y) == x - y > 25000 \/ <<x, y>> \in Excess

\* The highest score exceeds the lowest by more than the limit.
Divided(s, C) == \E c, d \in Valid(s, C) : Exceeds(c.score, d.score)

Votes(s, C, v) == Cardinality({c \in Valid(s, C) : c.verdict = v})

\* Counter.most_common: one of the most frequent verdicts, as the rows come.
Leading(s, C) ==
    {v \in Verdict : \A w \in Verdict : Votes(s, C, w) <= Votes(s, C, v)}

\* The conflict-of-interest and duplicate checks.
Impartial(c) ==
    LET author == councils[c.council].author IN
    /\ c.judge # author
    /\ DeptOf[author] # NoDepartment => DeptOf[c.judge] # DeptOf[author]

\* Bug: the check for an earlier card of the same judge is left out.
Accepts_twice(c) == c.judge \in active /\ Impartial(c)

Accepts(c) ==
    /\ c.judge \in active
    /\ Impartial(c)
    /\ \A d \in cards : ~(d.council = c.council /\ d.judge = c.judge)

EndRequest(h) == req' = [req EXCEPT ![h] = Idle]

-----------------------------------------------------------------------------
(* POST /judging/sessions *)

\* Bug: the status column is left to hold the name of the submission's state.
CreateCouncil_submitted(s, a, n) ==
    /\ s \notin DOMAIN councils
    /\ councils' = Inserted(councils, s, [author |-> a, required |-> n,
                                          status |-> "SUBMITTED",
                                          verdict |-> Undecided])
    /\ UNCHANGED <<cards, active, req>>

CreateCouncil(s, a, n) ==
    /\ s \notin DOMAIN councils
    /\ councils' = Inserted(councils, s, [author |-> a, required |-> n,
                                          status |-> "PENDING_REVIEW",
                                          verdict |-> Undecided])
    /\ UNCHANGED <<cards, active, req>>

-----------------------------------------------------------------------------
(* POST /judging/sessions/{id}/score *)

\* The first statement locks the row; a council that has reached consensus
\* takes no more cards.
ScoreLock(h, c) ==
    /\ req[h].pc = "idle"
    /\ c.council \in DOMAIN councils
    /\ \A k \in Handler : ~Holds(k, c.council)
    /\ Open(c.council)
    /\ req' = [req EXCEPT ![h] = [pc |-> "checking", card |-> c]]
    /\ UNCHANGED <<councils, cards, active>>

ScoreAccept(h) ==
    /\ req[h].pc = "checking"
    /\ Accepts(req[h].card)
    /\ req' = [req EXCEPT ![h].pc = "scoring"]
    /\ UNCHANGED <<councils, cards, active>>

ScoreDeny(h) ==
    /\ req[h].pc = "checking"
    /\ ~Accepts(req[h].card)
    /\ EndRequest(h)
    /\ UNCHANGED <<councils, cards, active>>

\* Bug: the council's cards are read before the new one is flushed.
Judged_stale(s, c) ==
    {r \in CouncilRow :
        /\ r.author = councils[s].author
        /\ r.required = councils[s].required
        /\ CASE ~Quorate(s, cards) ->
                  r.status = "IN_DELIBERATION" /\ r.verdict = councils[s].verdict
             [] Quorate(s, cards) /\ Divided(s, cards) ->
                  r.status = "ESCALATED_TO_OWNER" /\ r.verdict = councils[s].verdict
             [] OTHER ->
                  r.status = "CONSENSUS_REACHED" /\ r.verdict \in Leading(s, cards)}

\* The rows the council may have once the card c, with the score submitted,
\* has been added to the cards on record.
Judged(s, c) ==
    LET C == cards \cup {c} IN
    IF ~Quorate(s, C)
    THEN {[councils[s] EXCEPT !.status = "IN_DELIBERATION"]}
    ELSE IF Divided(s, C)
    THEN {[councils[s] EXCEPT !.status = "ESCALATED_TO_OWNER"]}
    ELSE {[councils[s] EXCEPT !.status = "CONSENSUS_REACHED", !.verdict = v] :
              v \in Leading(s, C)}

ScoreCommit(h) ==
    LET c == req[h].card IN
    /\ req[h].pc = "scoring"
    /\ \E kept \in Rounded(c.score) : cards' = cards \cup {[c EXCEPT !.score = kept]}
    /\ \E row \in Judged(c.council, c) :
          councils' = [councils EXCEPT ![c.council] = row]
    /\ EndRequest(h)
    /\ UNCHANGED active

-----------------------------------------------------------------------------
\* The transaction is rolled back.
Abort(h) ==
    /\ req[h].pc # "idle"
    /\ EndRequest(h)
    /\ UNCHANGED <<councils, cards, active>>

\* An agent is suspended, terminated or restored (see AgentLifecycle).
ChangeAgent(a) ==
    /\ active' = IF a \in active THEN active \ {a} ELSE active \cup {a}
    /\ UNCHANGED <<councils, cards, req>>

Next ==
    \/ \E s \in Council, a \in Agent, n \in Required : CreateCouncil(s, a, n)
    \/ \E h \in Handler :
          \/ \E c \in Card : ScoreLock(h, c)
          \/ ScoreAccept(h) \/ ScoreDeny(h) \/ ScoreCommit(h)
          \/ Abort(h)
    \/ \E a \in Agent : ChangeAgent(a)

Spec == Init /\ [][Next]_vars
-----------------------------------------------------------------------------
(* Properties *)

\* Scorecards of one council are taken one at a time: whoever is adding one
\* does so to a council that is still open, and no card of that judge has got
\* in since the duplicate check, so uq_scorecard_session_judge is never hit.
OneCardAtATime ==
    \A h \in Handler :
        req[h].pc \in {"checking", "scoring"} =>
            LET c == req[h].card IN
            /\ c.council \in DOMAIN councils
            /\ Open(c.council)
            /\ \A k \in Handler \ {h} : ~Holds(k, c.council)
            /\ req[h].pc = "scoring"
                  => \A d \in cards : ~(d.council = c.council /\ d.judge = c.judge)

\* No judge has two cards in a council, so nobody counts twice towards the
\* quorum or the verdict.
OneCardPerJudge ==
    \A c, d \in cards : c.council = d.council /\ c.judge = d.judge => c = d

\* Two of the council's scores on record are 25 points apart, or more than that.
SpreadReaches25(s) == \E c, d \in Valid(s, cards) : c.score - d.score >= 25000
SpreadPasses25(s) == \E c, d \in Valid(s, cards) : c.score - d.score > 25000

\* The council's status is what the cards on record say, however the judges'
\* submissions interleaved and though each was judged by a score that had not
\* been rounded yet: in deliberation until enough cards count, then escalated
\* if two of them are more than 25 points apart and closed, with a verdict that
\* none outvotes, if no two are 25 points apart.  Only when the spread on record
\* is exactly 25 points may it be either.  In particular no council with enough
\* cards is left undecided.
StatusFollowsCards ==
    \A s \in DOMAIN councils :
        LET status == councils[s].status IN
        /\ status \in {"PENDING_REVIEW", "IN_DELIBERATION"} <=> ~Quorate(s, cards)
        /\ status = "ESCALATED_TO_OWNER" => SpreadReaches25(s)
        /\ status = "CONSENSUS_REACHED" => ~SpreadPasses25(s)
        /\ IF status = "CONSENSUS_REACHED"
           THEN councils[s].verdict \in Leading(s, cards)
           ELSE councils[s].verdict = Undecided

\* A council that reached consensus keeps its row and its cards.  One that was
\* escalated takes more cards; it stays escalated if two of its scores on record
\* are more than 25 points apart, and is otherwise, at a spread of exactly 25,
\* judged anew by the next card, but never undecided again.
OutcomeFinal ==
    [][\A s \in DOMAIN councils :
          /\ councils[s].status = "CONSENSUS_REACHED"
                => /\ councils'[s] = councils[s]
                   /\ \A c \in cards' \ cards : c.council # s
          /\ councils[s].status = "ESCALATED_TO_OWNER"
                => \/ councils'[s].status = "ESCALATED_TO_OWNER"
                   \/ /\ councils'[s].status = "CONSENSUS_REACHED"
                      /\ ~SpreadPasses25(s)]_vars
=============================================================================
