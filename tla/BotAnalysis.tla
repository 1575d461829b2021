---------------------------- MODULE BotAnalysis ----------------------------
(***************************************************************************)
(* What the bot of solo play concludes from the public board               *)
(* (apps/client/src/solo/bot): the facts its clue rules prove at each      *)
(* level, and at the hardest level the cells that every placement of the   *)
(* remaining mines agrees on.  A probability is kept as what the policy    *)
(* reads of it: 1 (a mine), 0 (safe), or neither.                          *)
(***************************************************************************)
EXTENDS Board, FiniteSetsExt

CONSTANTS NodeBudget  \* options.nodeBudget: what searching the groups of cells may cost

ASSUME BudgetAssumption == NodeBudget \in Nat

\* The element of a singleton: what TLC computes once for all its uses.
Only(S) == CHOOSE x \in S : TRUE

Deductions == {"direct", "single", "pairs", "exact"}

\* readBoard, on what toMatchStateDto shows of a board.
ReadBoard(mines, revealed, claimed) ==
    [hidden |-> Cells \ (revealed \cup claimed), claimed |-> claimed,
     clues |-> [c \in revealed |-> AdjacentMines(mines, c)],
     mineCount |-> Cardinality(mines)]

ClueCells(v) == {c \in DOMAIN v.clues : Adjacent[c] \cap v.hidden # {}}

SettledCluesHold(v) ==
    \A c \in DOMAIN v.clues \ ClueCells(v) :
        Cardinality(Adjacent[c] \cap v.claimed) = v.clues[c]
-----------------------------------------------------------------------------
(***************************************************************************)
(* Facts: cells known to be a mine and cells known to be safe.             *)
(***************************************************************************)
ClaimedOnly(v) == [mine |-> v.claimed, safe |-> {}]
With(f, g) == [mine |-> {c \in Cells : c \in f.mine \cup g.mine},
               safe |-> {c \in Cells : c \in f.safe \cup g.safe}]

\* clueStates: a clue's undecided neighbours, and the mines it still needs.
ClueStates(v, f) ==
    LET Unknowns(c) == {d \in Adjacent[c] \cap v.hidden : d \notin f.mine \cup f.safe}
    IN  {[unknowns |-> Unknowns(c),
          remaining |-> v.clues[c] - Cardinality(Adjacent[c] \cap f.mine)] : c \in ClueCells(v)}

\* The cells that the clues in some set of clue states leave undecided.
Among(states) == {c \in Cells : \E s \in states : c \in s.unknowns}
MustBeMines(states) == Among({s \in states : s.remaining = Cardinality(s.unknowns)})
MustBeSafe(states) == Among({s \in states : s.remaining = 0})
Proves(states) == [mine |-> MustBeMines(states), safe |-> MustBeSafe(states)]

\* applySingleRule for every clue.
SingleRule(clues) == Proves(clues)

\* Wrong variant of SubsetStates: clues that only overlap.
OverlapStates(clues) ==
    {[unknowns  |-> p[2].unknowns \ p[1].unknowns,
      remaining |-> p[2].remaining - p[1].remaining] :
        p \in {q \in clues \X clues :
                  q[1] # q[2] /\ q[1].unknowns \cap q[2].unknowns # {}}}

\* applySubsetRule: of two clues, one within the other, the rest of the outer one
\* is a clue again.
SubsetStates(clues) ==
    {[unknowns  |-> p[2].unknowns \ p[1].unknowns,
      remaining |-> p[2].remaining - p[1].remaining] :
        p \in {q \in clues \X clues :
                  q[1] # q[2] /\ q[1].unknowns # {} /\ q[1].unknowns \subseteq q[2].unknowns}}

SubsetRule(clues) == Proves(SubsetStates(clues))

\* settleFacts: the single rule until it proves nothing new, and only then the
\* subset rule.  The last round proves nothing new.
SettleFacts(v, deduction) ==
    LET Round(f) ==
            LET clues == ClueStates(v, f)
                g == With(f, SingleRule(clues))
            IN  IF g # f \/ deduction = "single" THEN g ELSE With(f, SubsetRule(clues))
        rounds[n \in Nat] ==
            IF n = 0 THEN ClaimedOnly(v) ELSE Only({Round(f) : f \in {rounds[n - 1]}})
    IN  IF deduction = "direct"
        THEN With(ClaimedOnly(v), SingleRule(ClueStates(v, ClaimedOnly(v))))
        ELSE rounds[Cardinality(v.hidden) + 1]

Undecided(v, f) == v.hidden \ (f.mine \cup f.safe)
MinesLeft(v, f) == v.mineCount - Cardinality(f.mine)

\* analyse returns null: the facts, or the clues read against them, disagree.
Contradicts(v, deduction, f) ==
    LET clues == ClueStates(v, IF deduction = "direct" THEN ClaimedOnly(v) ELSE f)
        nested == IF deduction \in {"direct", "single"} THEN {} ELSE SubsetStates(clues)
    IN  \/ ~SettledCluesHold(v)
        \/ f.mine \cap f.safe # {}
        \/ \E s \in clues \cup nested : s.remaining \notin 0 .. Cardinality(s.unknowns)
        \/ MinesLeft(v, f) \notin 0 .. Cardinality(Undecided(v, f))
-----------------------------------------------------------------------------
(***************************************************************************)
(* refineExactly.  The undecided cells that share clues form components,   *)
(* the others are free; a placement must spend exactly the mines left.     *)
(***************************************************************************)
\* buildComponents: clues that share an undecided cell are joined.
Components(v, f) ==
    LET clues == ClueStates(v, f)
        groups == {s.unknowns : s \in clues} \ {{}}
        Joined(k) == {c \in Cells : \E g \in groups : c \in g /\ g \cap k # {}}
        joins[n \in Nat] == IF n = 0 THEN groups ELSE {Joined(k) : k \in joins[n - 1]}
    IN  joins[Cardinality(groups)]

\* enumerate: the sets of mines of a component that meet its clues.
Enumerated(v, f, component) ==
    LET own == {s \in ClueStates(v, f) : s.unknowns \subseteq component}
        left == MinesLeft(v, f)
    IN  {s \in SUBSET component :
            /\ Cardinality(s) <= left
            /\ \A clue \in own : Cardinality(s \cap clue.unknowns) = clue.remaining}

\* convolve: the numbers of mines some components may hold together.
Totals(v, f, components) ==
    LET Sums(k, sums) == {n + m : n \in sums, m \in {Cardinality(s) : s \in Enumerated(v, f, k)}}
    IN  FoldSet(Sums, {0}, components)

FreeCells(v, f) == Undecided(v, f) \ UNION Components(v, f)

\* Wrong variant of Possible: a group's placements are not weighed against the rest.
PossibleAlone(v, f, over, component) == Enumerated(v, f, component)

\* countDistribution and cellProbability: the placements of a component that go
\* with some placement of all the other mines.  With groups past the node budget,
\* over, the mines left to the others are only estimated, and every one counts.
Possible(v, f, over, component) ==
    LET totals == Totals(v, f, Components(v, f) \ {component})
        free == 0 .. Cardinality(FreeCells(v, f))
        Weighs(s) == \E n \in totals : MinesLeft(v, f) - Cardinality(s) - n \in free
    IN  {s \in Enumerated(v, f, component) : over = {} => Weighs(s)}

\* freeDensity: what the other components may leave to the free cells.
FreeCounts(v, f) ==
    {MinesLeft(v, f) - n : n \in Totals(v, f, Components(v, f))}
        \cap 0 .. Cardinality(FreeCells(v, f))

\* estimateLocally: a cell without clues takes the board's ratio.  A clue with
\* undecided cells has a ratio of neither 1 nor 0, or its rule would have applied.
Estimated(v, f) ==
    LET FreeIf(n) == IF MinesLeft(v, f) = n THEN FreeCells(v, f) ELSE {}
    IN  With(f, [mine |-> FreeIf(Cardinality(Undecided(v, f))), safe |-> FreeIf(0)])

\* The cells of probability 1 and 0, when the groups in over ran past the budget.
RefineExactly(v, f, over) ==
    LET solved == Components(v, f) \ over
        free == FreeCells(v, f)
        FreeIf(n) == IF over = {} /\ FreeCounts(v, f) = {n} THEN free ELSE {}
        Agreed(k, placements) ==
            [mine |-> {c \in k : \A s \in placements : c \in s},
             safe |-> {c \in k : \A s \in placements : c \notin s}]
        agreed == {Agreed(k, Possible(v, f, over, k)) : k \in solved}
    IN  With(Estimated(v, f),
             [mine |-> FreeIf(Cardinality(free)) \cup UNION {a.mine : a \in agreed},
              safe |-> FreeIf(0) \cup UNION {a.safe : a \in agreed}])

\* visit and record: at most every placement of each prefix of the cells, and each
\* placement of all of them once more for every cell.
SearchCost(cells) == 2 ^ (cells + 1) - 1 + cells * 2 ^ cells

\* The groups are searched smallest first on one budget.  The sets of groups that
\* may find it spent: none if it covers any search; else some that it may not
\* cover, with all that are larger.  Estimates that cannot be combined count as if
\* no group had been solved.
Unsolved(v, deduction, f) ==
    LET groups == Components(v, f)
        UpTo(k) == UNION {j \in groups : Cardinality(j) <= Cardinality(k)}
        uncovered == {k \in groups : SearchCost(Cardinality(UpTo(k))) > NodeBudget}
        spent == {over \in SUBSET uncovered :
                     \A k \in over, j \in groups : Cardinality(j) > Cardinality(k) => j \in over}
    IN  IF deduction # "exact" \/ uncovered = {} THEN {{}} ELSE spent \cup {groups}

\* The cells whose probability is 1 or 0 when the bot chooses.
Proven(v, deduction, f, over) ==
    IF deduction = "exact" THEN RefineExactly(v, f, over) ELSE Estimated(v, f)
=============================================================================
