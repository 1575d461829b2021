---------------------------- MODULE BoardProofs ----------------------------
(***************************************************************************)
(* Facts about the operators of Board and BotAnalysis: that the rounds of  *)
(* the flood come to an end at the least set that is closed, and that what *)
(* the bot takes for certain is right for every layout that shows the same *)
(* public board and, at the hardest level and within the node budget, is   *)
(* all that these layouts agree on.                                        *)
(*                                                                         *)
(* Recursive functions over the numbers (the rounds of the flood, of the   *)
(* facts and of the components) and the fold over the components are       *)
(* shown to exist, and to have their properties, from the one fact that a  *)
(* set of numbers that is not empty has a least one.                       *)
(***************************************************************************)
EXTENDS BotAnalysis, FiniteSetTheorems, TLAPS

\* A set of numbers that is not empty has a least one.
LEMMA LeastNatural ==
    ASSUME NEW T \in SUBSET Nat, T # {}
    PROVE  \E x \in T : \A y \in T : x <= y
<1>1. IsWellFoundedOn(OpToRel(<, Nat), Nat)
  BY NatLessThanWellFounded
<1>2. PICK x \in T : \A y \in T : <<y, x>> \notin OpToRel(<, Nat)
  BY <1>1, WFMin, Zenon
<1>3. ASSUME NEW y \in T PROVE x <= y
  <2>1. <<y, x>> \notin {ss \in Nat \X Nat : ss[1] < ss[2]}
    BY <1>2 DEF OpToRel
  <2> QED BY <2>1
<1> QED BY <1>3

\* A set that has 0, and with a number the next one, has them all.
LEMMA AllNaturals ==
    ASSUME NEW S, 0 \in S, \A n \in Nat : n \in S => n + 1 \in S
    PROVE  Nat \subseteq S
<1> SUFFICES ASSUME Nat \ S # {} PROVE FALSE
  OBVIOUS
<1>1. PICK x \in Nat \ S : \A y \in Nat \ S : x <= y
  BY LeastNatural
<1>2. x # 0 /\ x - 1 \in Nat
  BY <1>1
<1>3. x - 1 \in S
  BY <1>1, <1>2
<1> QED BY <1>1, <1>2, <1>3

\* h has the values of the first n rounds of g, from x.
Rounds(g, x, X, n, h) ==
    h \in [0..n -> X] /\ h[0] = x /\ \A i \in 1..n : h[i] = g[h[i - 1]]

\* Any number of rounds has its values,
LEMMA SomeRounds ==
    ASSUME NEW X, NEW x \in X, NEW g \in [X -> X], NEW n \in Nat
    PROVE  \E h : Rounds(g, x, X, n, h)
<1> DEFINE S == {m \in Nat : \E h : Rounds(g, x, X, m, h)}
<1>1. 0 \in S
  <2>1. Rounds(g, x, X, 0, [i \in 0..0 |-> x])
    BY DEF Rounds
  <2> QED BY <2>1
<1>2. ASSUME NEW m \in Nat, m \in S PROVE m + 1 \in S
  <2>1. PICK h : Rounds(g, x, X, m, h)
    BY <1>2
  <2>2. PICK k : k = [i \in 0..(m + 1) |-> IF i = m + 1 THEN g[h[m]] ELSE h[i]]
    OBVIOUS
  <2>3. k \in [0..(m + 1) -> X] /\ k[0] = x
    BY <2>1, <2>2 DEF Rounds
  <2>4. ASSUME NEW i \in 1..(m + 1) PROVE k[i] = g[k[i - 1]]
    <3>1. CASE i = m + 1
      BY <2>2, <3>1
    <3>2. CASE i # m + 1
      <4>1. i \in 1..m /\ i - 1 \in 0..m /\ i - 1 # m + 1 /\ i \in 0..(m + 1) /\ i - 1 \in 0..(m + 1)
        BY <3>2
      <4> QED BY <2>1, <2>2, <3>2, <4>1 DEF Rounds
    <3> QED BY <3>1, <3>2
  <2>5. Rounds(g, x, X, m + 1, k)
    BY <2>3, <2>4 DEF Rounds
  <2> QED BY <2>5
<1> HIDE DEF S
<1>3. Nat \subseteq S
  BY <1>1, <1>2, AllNaturals
<1> QED BY <1>3 DEF S

\* and they are the same, whatever the number.
LEMMA SameRounds ==
    ASSUME NEW X, NEW x \in X, NEW g \in [X -> X], NEW n \in Nat, NEW h, Rounds(g, x, X, n, h),
           NEW m \in Nat, NEW k, Rounds(g, x, X, m, k), NEW j \in Nat, j <= n, j <= m
    PROVE  h[j] = k[j]
<1> DEFINE Q == {i \in Nat : i <= n /\ i <= m => h[i] = k[i]}
<1>1. 0 \in Q
  BY DEF Rounds
<1>2. ASSUME NEW i \in Nat, i \in Q PROVE i + 1 \in Q
  <2> SUFFICES ASSUME i + 1 <= n, i + 1 <= m PROVE h[i + 1] = k[i + 1]
    OBVIOUS
  <2>1. i + 1 \in 1..n /\ i + 1 \in 1..m /\ (i + 1) - 1 = i
    OBVIOUS
  <2>2. h[i + 1] = g[h[i]] /\ k[i + 1] = g[k[i]]
    BY <2>1 DEF Rounds
  <2> QED BY <1>2, <2>2
<1> HIDE DEF Q
<1>3. Nat \subseteq Q
  BY <1>1, <1>2, AllNaturals
<1> QED BY <1>3 DEF Q

\* f has the values of all rounds.
AllRounds(g, x, X, f) ==
    f \in [Nat -> X] /\ f = [n \in Nat |-> IF n = 0 THEN x ELSE g[f[n - 1]]]

\* There is such a function: a recursive definition over the numbers has a solution.
LEMMA Iterates ==
    ASSUME NEW X, NEW x \in X, NEW g \in [X -> X]
    PROVE  \E f : AllRounds(g, x, X, f)
<1>1. PICK a : a = [n \in Nat |-> CHOOSE h : Rounds(g, x, X, n, h)]
  OBVIOUS
<1>2. ASSUME NEW n \in Nat PROVE Rounds(g, x, X, n, a[n])
  BY <1>1, SomeRounds, Zenon
<1>3. PICK f : f = [n \in Nat |-> a[n][n]]
  OBVIOUS
<1>4. ASSUME NEW n \in Nat PROVE f[n] \in X
  BY <1>2, <1>3 DEF Rounds
<1>5. f[0] = x
  <2>1. Rounds(g, x, X, 0, a[0])
    BY <1>2
  <2> QED BY <1>3, <2>1 DEF Rounds
<1>6. ASSUME NEW n \in Nat, n # 0 PROVE f[n] = g[f[n - 1]]
  <2>1. n - 1 \in Nat /\ n - 1 <= n /\ n - 1 <= n - 1 /\ n \in 1..n
    BY <1>6
  <2>2. Rounds(g, x, X, n, a[n]) /\ Rounds(g, x, X, n - 1, a[n - 1])
    BY <1>2, <2>1
  <2>3. a[n - 1][n - 1] = a[n][n - 1]
    BY <2>1, <2>2, SameRounds
  <2>4. a[n][n] = g[a[n][n - 1]]
    BY <2>1, <2>2 DEF Rounds
  <2> QED BY <1>3, <2>1, <2>3, <2>4
<1>7. ASSUME NEW n \in Nat PROVE f[n] = IF n = 0 THEN x ELSE g[f[n - 1]]
  BY <1>5, <1>6
<1>8. f = [n \in Nat |-> f[n]]
  BY <1>3
<1>9. f \in [Nat -> X]
  BY <1>4, <1>8
<1>10. f = [n \in Nat |-> IF n = 0 THEN x ELSE g[f[n - 1]]]
  BY <1>7, <1>8
<1> QED BY <1>9, <1>10 DEF AllRounds
-----------------------------------------------------------------------------
(*****************************************************************************)
(* The flood.                                                                *)
(*****************************************************************************)

\* The rounds of a flood: what FloodRounds defines does exist.
LEMMA RoundsAre ==
    ASSUME NEW mines, NEW hidden \in SUBSET Cells, NEW start \in Cells
    PROVE  LET r == FloodRounds(mines, hidden, start)
           IN  /\ r \in [Nat -> SUBSET Cells]
               /\ r[0] = {start}
               /\ \A n \in Nat : r[n + 1] = Grown(mines, hidden, r[n])
<1> DEFINE F(f) == [n \in Nat |-> IF n = 0 THEN {start} ELSE Grown(mines, hidden, f[n - 1])]
<1>1. PICK g : g = [S \in SUBSET Cells |-> Grown(mines, hidden, S)]
  OBVIOUS
<1>2. \A S \in SUBSET Cells : Grown(mines, hidden, S) \in SUBSET Cells
  BY DEF Grown
<1>3. g \in [SUBSET Cells -> SUBSET Cells]
  BY <1>1, <1>2
<1>4. {start} \in SUBSET Cells
  OBVIOUS
<1>5. PICK f : AllRounds(g, {start}, SUBSET Cells, f)
  BY <1>3, <1>4, Iterates
<1>6. f \in [Nat -> SUBSET Cells] /\ f = [n \in Nat |-> IF n = 0 THEN {start} ELSE g[f[n - 1]]]
  BY <1>5 DEF AllRounds
<1>7. ASSUME NEW n \in Nat, n # 0 PROVE g[f[n - 1]] = Grown(mines, hidden, f[n - 1])
  <2>1. f[n - 1] \in SUBSET Cells
    BY <1>6, <1>7
  <2> QED BY <1>1, <2>1
<1>8. f = F(f)
  BY <1>6, <1>7
<1>9. FloodRounds(mines, hidden, start) = CHOOSE r : r = F(r)
  BY DEF FloodRounds
<1>10. PICK r : r = FloodRounds(mines, hidden, start)
  OBVIOUS
<1>11. r = F(r)
  BY <1>8, <1>9, <1>10
<1>12. r[0] = {start} /\ \A n \in Nat : r[n + 1] = Grown(mines, hidden, r[n])
  <2>1. r[0] = {start}
    BY <1>11
  <2>2. ASSUME NEW n \in Nat PROVE r[n + 1] = Grown(mines, hidden, r[n])
    <3>1. n + 1 \in Nat /\ n + 1 # 0 /\ (n + 1) - 1 = n
      OBVIOUS
    <3>2. r[n + 1] = Grown(mines, hidden, r[(n + 1) - 1])
      BY <1>11, <3>1
    <3> QED BY <3>1, <3>2
  <2> QED BY <2>1, <2>2
<1>13. Nat \subseteq {n \in Nat : r[n] \in SUBSET Cells}
  <2> DEFINE S == {n \in Nat : r[n] \in SUBSET Cells}
  <2>1. 0 \in S
    BY <1>4, <1>12
  <2>2. ASSUME NEW n \in Nat, n \in S PROVE n + 1 \in S
    BY <1>2, <1>12, <2>2
  <2> HIDE DEF S
  <2> QED BY <2>1, <2>2, AllNaturals DEF S
<1>14. r = [n \in Nat |-> r[n]]
  BY <1>11
<1>15. r \in [Nat -> SUBSET Cells]
  BY <1>13, <1>14
<1> QED BY <1>10, <1>12, <1>15

\* A board has finitely many cells.
LEMMA CellsFinite == IsFiniteSet(Cells) /\ Cardinality(Cells) = Rows * Columns
<1>1. IsFiniteSet(RowIndices) /\ Cardinality(RowIndices) = Rows
  <2>1. Rows - 1 \in Int /\ 0 \in Int
    BY BoardAssumption
  <2> QED BY <2>1, FS_Interval, BoardAssumption DEF RowIndices
<1>2. IsFiniteSet(ColumnIndices) /\ Cardinality(ColumnIndices) = Columns
  <2>1. Columns - 1 \in Int /\ 0 \in Int
    BY BoardAssumption
  <2> QED BY <2>1, FS_Interval, BoardAssumption DEF ColumnIndices
<1> QED BY <1>1, <1>2, FS_Product DEF Cells

\* A larger finite set has more elements.
LEMMA MoreElements ==
    ASSUME NEW S, NEW T, IsFiniteSet(T), S \subseteq T, S # T
    PROVE  /\ Cardinality(S) \in Nat /\ Cardinality(T) \in Nat
           /\ Cardinality(S) + 1 <= Cardinality(T)
<1>1. IsFiniteSet(S) /\ Cardinality(S) <= Cardinality(T) /\ Cardinality(T) # Cardinality(S)
  BY FS_Subset
<1> QED BY <1>1, FS_CardinalityType

\* A set of cells with each of its neighbours that the flood goes on to.
Closed(mines, hidden, S) == \A c \in S : Spreads(mines, c) => Adjacent[c] \cap hidden \subseteq S

\* The rounds of a flood have come to an end after as many rounds as there are cells.
LEMMA RoundsEnd ==
    ASSUME NEW mines, NEW hidden \in SUBSET Cells, NEW start \in Cells,
           NEW r, r = FloodRounds(mines, hidden, start)
    PROVE  /\ r[Rows * Columns] \subseteq Cells /\ start \in r[Rows * Columns]
           /\ Closed(mines, hidden, r[Rows * Columns])
<1>1. /\ r \in [Nat -> SUBSET Cells] /\ r[0] = {start}
      /\ \A n \in Nat : r[n + 1] = Grown(mines, hidden, r[n])
  BY RoundsAre
<1>2. \A n \in Nat : r[n] \subseteq r[n + 1] /\ r[n] \subseteq Cells
  BY <1>1 DEF Grown
<1>3. \A n \in Nat : IsFiniteSet(r[n]) /\ Cardinality(r[n]) \in Nat
                      /\ Cardinality(r[n]) <= Rows * Columns
  BY <1>2, CellsFinite, FS_Subset, FS_CardinalityType
<1> DEFINE S == {n \in Nat : start \in r[n] /\ (r[n + 1] = r[n] \/ Cardinality(r[n]) >= n + 1)}
<1>4. 0 \in S
  <2>1. Cardinality({start}) = 1
    BY FS_Singleton
  <2> QED BY <1>1, <2>1
<1>5. ASSUME NEW n \in Nat, n \in S PROVE n + 1 \in S
  <2>1. start \in r[n + 1]
    BY <1>2, <1>5
  <2>2. CASE r[n + 1] = r[n]
    <3>1. r[(n + 1) + 1] = r[n + 1]
      BY <1>1, <2>2
    <3> QED BY <2>1, <3>1
  <2>3. CASE r[n + 1] # r[n]
    <3>1. Cardinality(r[n]) >= n + 1
      BY <1>5, <2>3
    <3>2. Cardinality(r[n]) + 1 <= Cardinality(r[n + 1])
      BY <1>2, <1>3, <2>3, MoreElements
    <3>3. Cardinality(r[n + 1]) >= (n + 1) + 1
      BY <1>3, <3>1, <3>2
    <3> QED BY <2>1, <3>3
  <2> QED BY <2>2, <2>3
<1>6. Rows * Columns \in S
  <2>1. Nat \subseteq S
    <3> HIDE DEF S
    <3> QED BY <1>4, <1>5, AllNaturals
  <2>2. Rows * Columns \in Nat
    BY BoardAssumption
  <2> QED BY <2>1, <2>2
<1>7. PICK N : N = Rows * Columns
  OBVIOUS
<1>8. N \in Nat /\ r[N + 1] = r[N] /\ start \in r[N]
  <2>1. ~(Cardinality(r[N]) >= N + 1)
    BY <1>3, <1>6, <1>7
  <2> QED BY <1>6, <1>7, <2>1
<1>9. Closed(mines, hidden, r[N])
  <2>1. Grown(mines, hidden, r[N]) = r[N]
    BY <1>1, <1>8
  <2> QED BY <2>1 DEF Grown, Closed
<1> QED BY <1>2, <1>7, <1>8, <1>9

\* What a reveal opens: the least set that has the start cell and, with each cell whose
\* clue is 0, all its hidden neighbours.
LEMMA RevealIsLeast ==
    ASSUME NEW mines, NEW resolved, NEW start \in Hidden(mines, resolved)
    PROVE  LET hidden == Hidden(mines, resolved)
               R == RevealConnectedSafeCells(mines, resolved, start)
           IN  /\ start \in R /\ R \subseteq hidden /\ Closed(mines, hidden, R)
               /\ \A S : start \in S /\ Closed(mines, hidden, S) => R \subseteq S
<1>1. PICK hidden : hidden = Hidden(mines, resolved)
  OBVIOUS
<1>2. hidden \in SUBSET Cells /\ start \in Cells /\ start \in hidden
  BY <1>1 DEF Hidden
<1>3. PICK r : r = FloodRounds(mines, hidden, start)
  OBVIOUS
<1>4. PICK N : N = Rows * Columns
  OBVIOUS
<1>5. PICK R : R = RevealConnectedSafeCells(mines, resolved, start)
  OBVIOUS
<1>6. R = {start} \cup (hidden \cap r[N])
  BY <1>1, <1>3, <1>4, <1>5 DEF RevealConnectedSafeCells
<1>7. r[N] \subseteq Cells /\ start \in r[N] /\ Closed(mines, hidden, r[N])
  BY <1>2, <1>3, <1>4, RoundsEnd
<1>8. start \in R /\ R \subseteq hidden /\ Closed(mines, hidden, R)
  BY <1>2, <1>6, <1>7 DEF Closed
<1>9. ASSUME NEW S, start \in S, Closed(mines, hidden, S) PROVE R \subseteq S
  <2> DEFINE T == {n \in Nat : r[n] \subseteq S}
  <2>1. /\ r[0] = {start} /\ \A n \in Nat : r[n + 1] = Grown(mines, hidden, r[n])
    BY <1>2, <1>3, RoundsAre
  <2>2. 0 \in T
    BY <1>9, <2>1
  <2>3. ASSUME NEW n \in Nat, n \in T PROVE n + 1 \in T
    <3>1. r[n] \subseteq S /\ r[n + 1] = Grown(mines, hidden, r[n])
      BY <2>1, <2>3
    <3>2. Grown(mines, hidden, r[n]) \subseteq S
      BY <1>9, <3>1 DEF Grown, Closed
    <3> QED BY <3>1, <3>2
  <2>4. Nat \subseteq T
    <3> HIDE DEF T
    <3> QED BY <2>2, <2>3, AllNaturals
  <2>5. N \in Nat
    BY <1>4, BoardAssumption
  <2> QED BY <1>6, <1>9, <2>4, <2>5
<1> QED BY <1>1, <1>5, <1>8, <1>9
-----------------------------------------------------------------------------
(*****************************************************************************)
(* What the bot concludes: Shows relates a public board v to the layouts that *)
(* it leaves open, and Sound the facts f to one of these layouts.            *)
(*****************************************************************************)
\* The layouts of mines l for which the public board is v.
Shows(v, l) ==
    /\ v.hidden \subseteq Cells /\ v.claimed \subseteq Cells /\ v.claimed \cap v.hidden = {}
    /\ DOMAIN v.clues \subseteq Cells
    /\ v.claimed \subseteq l /\ l \subseteq v.claimed \cup v.hidden
    /\ v.mineCount = Cardinality(l)
    /\ \A c \in DOMAIN v.clues : v.clues[c] = AdjacentMines(l, c)

\* Facts that are right about a layout.
Sound(v, l, f) ==
    /\ f = [mine |-> f.mine, safe |-> f.safe]
    /\ v.claimed \subseteq f.mine /\ f.mine \subseteq l
    /\ f.safe \subseteq v.hidden /\ f.safe \cap l = {}

\* A clue that is right about a layout, among some cells.
ClueHolds(l, cells, s) ==
    /\ s.unknowns \subseteq cells
    /\ s.remaining = Cardinality(s.unknowns \cap l)

CluesHold(l, cells, states) == \A s \in states : ClueHolds(l, cells, s)

\* Two sets that have nothing in common.
LEMMA TwoParts ==
    ASSUME NEW S, NEW T, IsFiniteSet(S), IsFiniteSet(T), S \cap T = {}
    PROVE  /\ IsFiniteSet(S \cup T)
           /\ Cardinality(S) \in Nat /\ Cardinality(T) \in Nat
           /\ Cardinality(S \cup T) = Cardinality(S) + Cardinality(T)
<1>1. Cardinality(S) \in Nat /\ Cardinality(T) \in Nat /\ Cardinality(S \cap T) = 0
  BY FS_CardinalityType, FS_EmptySet
<1>2. /\ IsFiniteSet(S \cup T)
      /\ Cardinality(S \cup T) = Cardinality(S) + Cardinality(T) - Cardinality(S \cap T)
  BY FS_Union
<1> QED BY <1>1, <1>2

\* A set of cells is finite.
LEMMA CellSets ==
    ASSUME NEW S, S \subseteq Cells
    PROVE  IsFiniteSet(S) /\ Cardinality(S) \in Nat
BY CellsFinite, FS_Subset, FS_CardinalityType

\* The neighbours of a cell.
LEMMA NeighboursAreCells == ASSUME NEW c \in Cells PROVE Adjacent[c] \subseteq Cells
  BY DEF Adjacent

\* With facts that are right, every clue is right about the cells left undecided.
LEMMA ClueStatesHold ==
    ASSUME NEW v, NEW l, Shows(v, l), NEW f, Sound(v, l, f)
    PROVE  CluesHold(l, Undecided(v, f), ClueStates(v, f))
<1> SUFFICES ASSUME NEW s \in ClueStates(v, f) PROVE ClueHolds(l, Undecided(v, f), s)
  BY DEF CluesHold
<1>1. PICK c \in ClueCells(v) :
        s = [unknowns |-> {d \in Adjacent[c] \cap v.hidden : d \notin f.mine \cup f.safe},
             remaining |-> v.clues[c] - Cardinality(Adjacent[c] \cap f.mine)]
  BY DEF ClueStates
<1>2. PICK U : U = {d \in Adjacent[c] \cap v.hidden : d \notin f.mine \cup f.safe}
  OBVIOUS
<1>3. PICK A : A = Adjacent[c] \cap f.mine
  OBVIOUS
<1>4. s.unknowns = U /\ s.remaining = v.clues[c] - Cardinality(A)
  BY <1>1, <1>2, <1>3
<1>5. c \in DOMAIN v.clues /\ c \in Cells /\ v.clues[c] = Cardinality(Adjacent[c] \cap l)
  BY <1>1 DEF ClueCells, Shows, AdjacentMines
<1>6. Adjacent[c] \cap l = A \cup (U \cap l) /\ A \cap (U \cap l) = {}
  BY <1>2, <1>3 DEF Shows, Sound
<1>7. A \subseteq Cells /\ U \cap l \subseteq Cells
  BY <1>2, <1>3, <1>5, NeighboursAreCells
<1>8. IsFiniteSet(A) /\ IsFiniteSet(U \cap l)
  BY <1>7, CellSets
<1>9. /\ Cardinality(A) \in Nat /\ Cardinality(U \cap l) \in Nat
      /\ Cardinality(A \cup (U \cap l)) = Cardinality(A) + Cardinality(U \cap l)
  BY <1>6, <1>8, TwoParts
<1>10. s.remaining = Cardinality(U \cap l)
  <2>1. PICK a : a = Cardinality(A)
    OBVIOUS
  <2>2. PICK b : b = Cardinality(U \cap l)
    OBVIOUS
  <2>3. v.clues[c] = a + b /\ a \in Nat /\ b \in Nat
    BY <1>5, <1>6, <1>9, <2>1, <2>2
  <2>4. s.remaining = (a + b) - a
    BY <1>4, <2>1, <2>3
  <2> QED BY <2>2, <2>3, <2>4
<1>11. U \subseteq Undecided(v, f)
  BY <1>2 DEF Undecided
<1> QED BY <1>4, <1>10, <1>11 DEF ClueHolds

\* Of two clues that are right, one within the other, the difference is right.
LEMMA SubsetStatesHold ==
    ASSUME NEW l, NEW cells \in SUBSET Cells, NEW clues, CluesHold(l, cells, clues)
    PROVE  CluesHold(l, cells, SubsetStates(clues))
<1> SUFFICES ASSUME NEW s \in SubsetStates(clues) PROVE ClueHolds(l, cells, s)
  BY DEF CluesHold
<1>1. PICK p \in clues \X clues :
        /\ p[1].unknowns \subseteq p[2].unknowns
        /\ s = [unknowns  |-> p[2].unknowns \ p[1].unknowns,
                remaining |-> p[2].remaining - p[1].remaining]
  BY DEF SubsetStates
<1>2. ClueHolds(l, cells, p[1]) /\ ClueHolds(l, cells, p[2])
  BY DEF CluesHold
<1>3. PICK A : A = p[1].unknowns \cap l
  OBVIOUS
<1>4. PICK B : B = (p[2].unknowns \ p[1].unknowns) \cap l
  OBVIOUS
<1>5. A \cap B = {} /\ p[2].unknowns \cap l = A \cup B /\ s.unknowns \cap l = B
  BY <1>1, <1>3, <1>4
<1>6. A \subseteq Cells /\ B \subseteq Cells
  BY <1>2, <1>3, <1>4 DEF ClueHolds
<1>7. IsFiniteSet(A) /\ IsFiniteSet(B)
  BY <1>6, CellSets
<1>8. /\ Cardinality(A) \in Nat /\ Cardinality(B) \in Nat
      /\ Cardinality(A \cup B) = Cardinality(A) + Cardinality(B)
  BY <1>5, <1>7, TwoParts
<1>9. p[1].remaining = Cardinality(A) /\ p[2].remaining = Cardinality(A \cup B)
  BY <1>2, <1>3, <1>5 DEF ClueHolds
<1>10. s.remaining = Cardinality(B) /\ s.unknowns \subseteq cells
  BY <1>1, <1>2, <1>8, <1>9 DEF ClueHolds
<1> QED BY <1>5, <1>10 DEF ClueHolds

\* A clue that is right needs no more mines than it has cells, and as many or none
\* only if they are all mines or all safe.
LEMMA ClueBounds ==
    ASSUME NEW l, NEW cells \in SUBSET Cells, NEW s, ClueHolds(l, cells, s)
    PROVE  /\ s.remaining \in 0 .. Cardinality(s.unknowns)
           /\ s.remaining = Cardinality(s.unknowns) => s.unknowns \subseteq l
           /\ s.remaining = 0 => s.unknowns \cap l = {}
<1>1. PICK U : U = s.unknowns
  OBVIOUS
<1>2. PICK L : L = U \cap l
  OBVIOUS
<1>3. U \subseteq Cells /\ s.remaining = Cardinality(L)
  BY <1>1, <1>2 DEF ClueHolds
<1>4. IsFiniteSet(U) /\ Cardinality(U) \in Nat /\ IsFiniteSet(L) /\ Cardinality(L) \in Nat
  BY <1>2, <1>3, CellSets
<1>5. Cardinality(L) <= Cardinality(U) /\ (Cardinality(U) = Cardinality(L) => U = L)
  BY <1>2, <1>4, FS_Subset
<1>6. Cardinality(L) = 0 => L = {}
  BY <1>4, FS_EmptySet
<1> QED BY <1>1, <1>2, <1>3, <1>4, <1>5, <1>6

\* What clues that are right prove is right.
LEMMA ProvesSound ==
    ASSUME NEW l, NEW cells \in SUBSET Cells, NEW clues, CluesHold(l, cells, clues)
    PROVE  /\ Proves(clues).mine \subseteq l \cap cells
           /\ Proves(clues).safe \subseteq cells \ l
<1>1. Proves(clues).mine = MustBeMines(clues) /\ Proves(clues).safe = MustBeSafe(clues)
  BY DEF Proves
<1>2. MustBeMines(clues) \subseteq l \cap cells
  <2> SUFFICES ASSUME NEW c \in MustBeMines(clues) PROVE c \in l \cap cells
    OBVIOUS
  <2>1. PICK s \in clues : s.remaining = Cardinality(s.unknowns) /\ c \in s.unknowns
    BY DEF MustBeMines, Among
  <2>2. ClueHolds(l, cells, s)
    BY DEF CluesHold
  <2> QED BY <2>1, <2>2, ClueBounds DEF ClueHolds
<1>3. MustBeSafe(clues) \subseteq cells \ l
  <2> SUFFICES ASSUME NEW c \in MustBeSafe(clues) PROVE c \in cells \ l
    OBVIOUS
  <2>1. PICK s \in clues : s.remaining = 0 /\ c \in s.unknowns
    BY DEF MustBeSafe, Among
  <2>2. ClueHolds(l, cells, s)
    BY DEF CluesHold
  <2> QED BY <2>1, <2>2, ClueBounds DEF ClueHolds
<1> QED BY <1>1, <1>2, <1>3

\* Right facts with others that are right among the undecided cells.
LEMMA WithSound ==
    ASSUME NEW v, NEW l, Shows(v, l), NEW f, Sound(v, l, f), NEW g,
           g.mine \subseteq l \cap v.hidden, g.safe \subseteq v.hidden \ l
    PROVE  /\ Sound(v, l, With(f, g))
           /\ With(f, g).mine = f.mine \cup g.mine /\ With(f, g).safe = f.safe \cup g.safe
<1>1. PICK m : m = {c \in Cells : c \in f.mine \cup g.mine}
  OBVIOUS
<1>2. PICK n : n = {c \in Cells : c \in f.safe \cup g.safe}
  OBVIOUS
<1>3. With(f, g) = [mine |-> m, safe |-> n]
  BY <1>1, <1>2 DEF With
<1>4. With(f, g).mine = m /\ With(f, g).safe = n /\ With(f, g) = [mine |-> m, safe |-> n]
  BY <1>3
<1>5. m = f.mine \cup g.mine /\ n = f.safe \cup g.safe
  BY <1>1, <1>2 DEF Shows, Sound
<1>6. v.claimed \subseteq m /\ m \subseteq l /\ n \subseteq v.hidden /\ n \cap l = {}
  BY <1>5 DEF Sound
<1> QED BY <1>4, <1>5, <1>6 DEF Sound

\* The cells left undecided are cells of the board.
LEMMA UndecidedAreCells ==
    ASSUME NEW v, NEW l, Shows(v, l), NEW f
    PROVE  Undecided(v, f) \subseteq v.hidden /\ Undecided(v, f) \in SUBSET Cells
BY DEF Shows, Undecided

\* Each of the two rules keeps the facts right.
LEMMA RulesSound ==
    ASSUME NEW v, NEW l, Shows(v, l), NEW f, Sound(v, l, f)
    PROVE  /\ Sound(v, l, With(f, SingleRule(ClueStates(v, f))))
           /\ Sound(v, l, With(f, SubsetRule(ClueStates(v, f))))
<1>1. PICK clues : clues = ClueStates(v, f)
  OBVIOUS
<1>2. PICK cells : cells = Undecided(v, f)
  OBVIOUS
<1>3. cells \subseteq v.hidden /\ cells \in SUBSET Cells
  BY <1>2, UndecidedAreCells
<1>4. CluesHold(l, cells, clues)
  BY <1>1, <1>2, ClueStatesHold
<1>5. CluesHold(l, cells, SubsetStates(clues))
  BY <1>3, <1>4, SubsetStatesHold
<1>6. PICK g : g = SingleRule(clues)
  OBVIOUS
<1>7. PICK h : h = SubsetRule(clues)
  OBVIOUS
<1>8. g.mine \subseteq l \cap v.hidden /\ g.safe \subseteq v.hidden \ l
  BY <1>3, <1>4, <1>6, ProvesSound DEF SingleRule
<1>9. h.mine \subseteq l \cap v.hidden /\ h.safe \subseteq v.hidden \ l
  BY <1>3, <1>5, <1>7, ProvesSound DEF SubsetRule
<1> QED BY <1>1, <1>6, <1>7, <1>8, <1>9, WithSound

\* What is claimed is a mine.
LEMMA ClaimedSound ==
    ASSUME NEW v, NEW l, Shows(v, l)
    PROVE  Sound(v, l, ClaimedOnly(v))
<1>1. ClaimedOnly(v).mine = v.claimed /\ ClaimedOnly(v).safe = {}
      /\ ClaimedOnly(v) = [mine |-> ClaimedOnly(v).mine, safe |-> ClaimedOnly(v).safe]
  BY DEF ClaimedOnly
<1> QED BY <1>1 DEF Shows, Sound
-----------------------------------------------------------------------------
(*****************************************************************************)
(* settleFacts: every round keeps the facts right.                           *)
(*****************************************************************************)
\* Sets of cells known to be mines and to be safe.
Facts == [mine : SUBSET Cells, safe : SUBSET Cells]

\* One round of settleFacts.
SettleRound(v, deduction, f) ==
    LET clues == ClueStates(v, f)
        g == With(f, SingleRule(clues))
    IN  IF g # f \/ deduction = "single" THEN g ELSE With(f, SubsetRule(clues))

\* The element of a singleton.
LEMMA OnlyOne == ASSUME NEW x PROVE Only({x}) = x
BY DEF Only

\* The facts settled are those of some round, and the rounds are what they should be.
LEMMA SettleRounds ==
    ASSUME NEW v, v.hidden \subseteq Cells, v.claimed \subseteq Cells,
           NEW deduction, deduction # "direct"
    PROVE  \E r : /\ r[0] = ClaimedOnly(v)
                  /\ \A n \in Nat : r[n + 1] = SettleRound(v, deduction, r[n])
                  /\ \E n \in Nat : SettleFacts(v, deduction) = r[n]
<1> DEFINE Step(f) == SettleRound(v, deduction, f)
           F(r) == [n \in Nat |-> IF n = 0 THEN ClaimedOnly(v)
                                  ELSE Only({Step(f) : f \in {r[n - 1]}})]
<1>1. ASSUME NEW f, NEW g PROVE With(f, g) \in Facts
  BY DEF With, Facts
<1>2. ASSUME NEW f PROVE Step(f) \in Facts
  BY <1>1 DEF SettleRound
<1>3. PICK X : X = Facts
  OBVIOUS
<1>4. PICK x : x = ClaimedOnly(v)
  OBVIOUS
<1>5. PICK g : g = [f \in X |-> Step(f)]
  OBVIOUS
<1>6. x \in X
  BY <1>3, <1>4 DEF ClaimedOnly, Facts
<1>7. g \in [X -> X]
  BY <1>2, <1>3, <1>5
<1>8. PICK h : h \in [Nat -> X] /\ h = [n \in Nat |-> IF n = 0 THEN x ELSE g[h[n - 1]]]
  <2>1. PICK h : AllRounds(g, x, X, h)
    BY <1>6, <1>7, Iterates
  <2> QED BY <2>1 DEF AllRounds
<1>9. ASSUME NEW y PROVE Only({Step(f) : f \in {y}}) = Step(y)
  <2>1. PICK z : z = Step(y)
    OBVIOUS
  <2>2. {Step(f) : f \in {y}} = {z}
    BY <2>1
  <2> QED BY <2>1, <2>2, OnlyOne
<1>10. ASSUME NEW n \in Nat, n # 0 PROVE g[h[n - 1]] = Only({Step(f) : f \in {h[n - 1]}})
  <2>1. h[n - 1] \in X
    BY <1>8, <1>10
  <2>2. g[h[n - 1]] = Step(h[n - 1])
    BY <1>5, <2>1
  <2> QED BY <1>9, <2>2
<1>11. h = F(h)
  BY <1>4, <1>8, <1>10
<1>12. PICK r : r = CHOOSE q : q = F(q)
  OBVIOUS
<1>13. r = F(r)
  BY <1>11, <1>12
<1>14. PICK N : N = Cardinality(v.hidden) + 1
  OBVIOUS
<1>15. N \in Nat
  BY <1>14, CellSets
<1>16. SettleFacts(v, deduction) = r[N]
  BY <1>12, <1>14 DEF SettleFacts, SettleRound
<1>17. r[0] = ClaimedOnly(v)
  BY <1>13
<1>18. ASSUME NEW n \in Nat PROVE r[n + 1] = Step(r[n])
  <2>1. n + 1 \in Nat /\ n + 1 # 0 /\ (n + 1) - 1 = n
    OBVIOUS
  <2>2. r[n + 1] = Only({Step(f) : f \in {r[(n + 1) - 1]}})
    BY <1>13, <2>1
  <2> QED BY <1>9, <2>1, <2>2
<1> QED BY <1>15, <1>16, <1>17, <1>18

\* At every level the facts settled are right about each layout that shows this board.
LEMMA SettledSound ==
    ASSUME NEW v, NEW l, Shows(v, l), NEW deduction
    PROVE  Sound(v, l, SettleFacts(v, deduction))
<1>1. CASE deduction = "direct"
  BY <1>1, ClaimedSound, RulesSound DEF SettleFacts
<1>2. CASE deduction # "direct"
  <2>1. PICK r : /\ r[0] = ClaimedOnly(v)
                 /\ \A n \in Nat : r[n + 1] = SettleRound(v, deduction, r[n])
                 /\ \E n \in Nat : SettleFacts(v, deduction) = r[n]
    BY <1>2, SettleRounds DEF Shows
  <2> DEFINE S == {n \in Nat : Sound(v, l, r[n])}
  <2>2. 0 \in S
    BY <2>1, ClaimedSound
  <2>3. ASSUME NEW n \in Nat, n \in S PROVE n + 1 \in S
    <3>1. PICK f : f = r[n]
      OBVIOUS
    <3>2. Sound(v, l, f)
      BY <2>3, <3>1
    <3>3. Sound(v, l, SettleRound(v, deduction, f))
      BY <3>2, RulesSound DEF SettleRound
    <3> QED BY <2>1, <3>1, <3>3
  <2>4. Nat \subseteq S
    <3> HIDE DEF S
    <3> QED BY <2>2, <2>3, AllNaturals
  <2> QED BY <2>1, <2>4
<1> QED BY <1>1, <1>2

\* The mines left are those among the undecided cells.
LEMMA LeftAreUndecided ==
    ASSUME NEW v, NEW l, Shows(v, l), NEW f, Sound(v, l, f)
    PROVE  /\ MinesLeft(v, f) = Cardinality(l \cap Undecided(v, f))
           /\ l = f.mine \cup (l \cap Undecided(v, f)) /\ f.mine \cap Undecided(v, f) = {}
<1>1. PICK A : A = f.mine
  OBVIOUS
<1>2. PICK B : B = l \cap Undecided(v, f)
  OBVIOUS
<1>3. l = A \cup B /\ A \cap B = {} /\ A \cap Undecided(v, f) = {}
  BY <1>1, <1>2 DEF Shows, Sound, Undecided
<1>4. l \subseteq Cells
  BY DEF Shows
<1>5. IsFiniteSet(A) /\ IsFiniteSet(B)
  BY <1>3, <1>4, CellSets
<1>6. /\ Cardinality(A) \in Nat /\ Cardinality(B) \in Nat
      /\ Cardinality(A \cup B) = Cardinality(A) + Cardinality(B)
  BY <1>3, <1>5, TwoParts
<1>7. PICK a : a = Cardinality(A)
  OBVIOUS
<1>8. PICK b : b = Cardinality(B)
  OBVIOUS
<1>9. a \in Nat /\ b \in Nat /\ v.mineCount = a + b
  BY <1>3, <1>6, <1>7, <1>8 DEF Shows
<1>10. MinesLeft(v, f) = (a + b) - a
  BY <1>1, <1>7, <1>9 DEF MinesLeft
<1>11. MinesLeft(v, f) = b
  BY <1>9, <1>10
<1> QED BY <1>1, <1>2, <1>3, <1>8, <1>11

\* No level finds the clues of a real board contradicting each other.
LEMMA NothingContradicts ==
    ASSUME NEW v, NEW l, Shows(v, l), NEW deduction, NEW f, Sound(v, l, f)
    PROVE  ~Contradicts(v, deduction, f)
<1>1. SettledCluesHold(v)
  <2> SUFFICES ASSUME NEW c \in DOMAIN v.clues \ ClueCells(v)
               PROVE  Cardinality(Adjacent[c] \cap v.claimed) = v.clues[c]
    BY DEF SettledCluesHold
  <2>1. Adjacent[c] \cap v.hidden = {} /\ v.clues[c] = Cardinality(Adjacent[c] \cap l)
    BY DEF ClueCells, Shows, AdjacentMines
  <2>2. Adjacent[c] \cap l = Adjacent[c] \cap v.claimed
    BY <2>1 DEF Shows
  <2> QED BY <2>1, <2>2
<1>2. f.mine \cap f.safe = {}
  BY DEF Sound
<1>3. PICK g : g = IF deduction = "direct" THEN ClaimedOnly(v) ELSE f
  OBVIOUS
<1>4. Sound(v, l, g)
  BY <1>3, ClaimedSound
<1>5. PICK cells : cells = Undecided(v, g)
  OBVIOUS
<1>6. cells \in SUBSET Cells
  BY <1>5, UndecidedAreCells
<1>7. PICK clues : clues = ClueStates(v, g)
  OBVIOUS
<1>8. CluesHold(l, cells, clues)
  BY <1>4, <1>5, <1>7, ClueStatesHold
<1>9. CluesHold(l, cells, SubsetStates(clues))
  BY <1>6, <1>8, SubsetStatesHold
<1>10. \A s \in clues \cup SubsetStates(clues) : s.remaining \in 0 .. Cardinality(s.unknowns)
  BY <1>6, <1>8, <1>9, ClueBounds DEF CluesHold
<1>11. MinesLeft(v, f) \in 0 .. Cardinality(Undecided(v, f))
  <2>1. PICK U : U = Undecided(v, f)
    OBVIOUS
  <2>2. U \subseteq Cells /\ MinesLeft(v, f) = Cardinality(l \cap U)
    BY <2>1, UndecidedAreCells, LeftAreUndecided
  <2>3. IsFiniteSet(U) /\ Cardinality(U) \in Nat /\ l \cap U \in SUBSET U
    BY <2>2, CellSets
  <2>4. Cardinality(l \cap U) \in Nat /\ Cardinality(l \cap U) <= Cardinality(U)
    BY <2>3, FS_Subset, FS_CardinalityType
  <2> QED BY <2>1, <2>2, <2>3, <2>4
<1> QED BY <1>1, <1>2, <1>3, <1>7, <1>10, <1>11 DEF Contradicts

\* As many mines among some cells as there are cells, or none.
LEMMA AllOrNone ==
    ASSUME NEW l, NEW U, U \subseteq Cells
    PROVE  /\ Cardinality(l \cap U) \in 0 .. Cardinality(U)
           /\ Cardinality(l \cap U) = Cardinality(U) => U \subseteq l
           /\ Cardinality(l \cap U) = 0 => U \cap l = {}
<1>1. PICK L : L = l \cap U
  OBVIOUS
<1>2. IsFiniteSet(U) /\ Cardinality(U) \in Nat /\ IsFiniteSet(L) /\ Cardinality(L) \in Nat
  BY <1>1, CellSets
<1>3. Cardinality(L) <= Cardinality(U) /\ (Cardinality(U) = Cardinality(L) => U = L)
  BY <1>1, <1>2, FS_Subset
<1>4. Cardinality(L) = 0 => L = {}
  BY <1>2, FS_EmptySet
<1> QED BY <1>1, <1>2, <1>3, <1>4

\* What is estimated for certain is right.
LEMMA EstimatedSound ==
    ASSUME NEW v, NEW l, Shows(v, l), NEW f, Sound(v, l, f)
    PROVE  Sound(v, l, Estimated(v, f))
<1>1. PICK U : U = Undecided(v, f)
  OBVIOUS
<1>2. PICK free : free = FreeCells(v, f)
  OBVIOUS
<1>3. U \subseteq Cells /\ U \subseteq v.hidden /\ free \subseteq U
  BY <1>1, <1>2, UndecidedAreCells DEF FreeCells
<1>4. MinesLeft(v, f) = Cardinality(l \cap U)
  BY <1>1, LeftAreUndecided
<1>5. PICK m : m = IF MinesLeft(v, f) = Cardinality(U) THEN free ELSE {}
  OBVIOUS
<1>6. PICK n : n = IF MinesLeft(v, f) = 0 THEN free ELSE {}
  OBVIOUS
<1>7. m \subseteq l \cap v.hidden
  BY <1>3, <1>4, <1>5, AllOrNone
<1>8. n \subseteq v.hidden \ l
  BY <1>3, <1>4, <1>6, AllOrNone
<1>9. PICK g : g = [mine |-> m, safe |-> n]
  OBVIOUS
<1>10. g.mine = m /\ g.safe = n
  BY <1>9
<1>11. Estimated(v, f) = With(f, g)
  BY <1>1, <1>2, <1>5, <1>6, <1>9 DEF Estimated
<1> QED BY <1>7, <1>8, <1>10, <1>11, WithSound
-----------------------------------------------------------------------------
(*****************************************************************************)
(* buildComponents: the components have no cell in common, lie in the undecided *)
(* cells, and each clue's undecided cells are in one of them.                *)
(*****************************************************************************)
\* The undecided cells of every clue that has some.
Groups(v, f) == {s.unknowns : s \in ClueStates(v, f)} \ {{}}

\* The cells of the groups that meet some cells.
JoinedBy(groups, k) == {c \in Cells : \E g \in groups : c \in g /\ g \cap k # {}}

\* The groups are sets of cells of the board.
LEMMA GroupsAreCells ==
    ASSUME NEW v, v.hidden \subseteq Cells, NEW f
    PROVE  Groups(v, f) \in SUBSET (SUBSET Cells)
<1> SUFFICES ASSUME NEW s \in ClueStates(v, f) PROVE s.unknowns \subseteq Cells
  BY DEF Groups
<1>1. PICK c \in ClueCells(v) :
        s = [unknowns |-> {d \in Adjacent[c] \cap v.hidden : d \notin f.mine \cup f.safe},
             remaining |-> v.clues[c] - Cardinality(Adjacent[c] \cap f.mine)]
  BY DEF ClueStates
<1>2. s.unknowns = {d \in Adjacent[c] \cap v.hidden : d \notin f.mine \cup f.safe}
  BY <1>1
<1> QED BY <1>2

\* Cells that no group joins with others.
Apart(groups, k) == \A g \in groups : g \cap k # {} => g \subseteq k

\* Cells that are groups joined, one of them g.
JoinOf(groups, g, k) ==
    /\ g \in groups /\ g \subseteq k
    /\ \A c \in k : \E h \in groups : c \in h /\ h \subseteq k
    /\ \A Z : Apart(groups, Z) /\ g \subseteq Z => k \subseteq Z

\* A join of cells that already are one.
LEMMA JoinMore ==
    ASSUME NEW groups \in SUBSET (SUBSET Cells), {} \notin groups,
           NEW g, NEW k, JoinOf(groups, g, k)
    PROVE  /\ k \subseteq JoinedBy(groups, k)
           /\ JoinOf(groups, g, JoinedBy(groups, k))
           /\ Apart(groups, k) => JoinedBy(groups, k) = k
<1>1. PICK j : j = JoinedBy(groups, k)
  OBVIOUS
<1>2. k \subseteq j
  <2> SUFFICES ASSUME NEW c \in k PROVE c \in j
    OBVIOUS
  <2>1. PICK h \in groups : c \in h /\ h \subseteq k
    BY DEF JoinOf
  <2>2. c \in Cells /\ h \cap k # {}
    BY <2>1
  <2> QED BY <1>1, <2>1, <2>2 DEF JoinedBy
<1>3. ASSUME NEW c \in j PROVE \E h \in groups : c \in h /\ h \subseteq j
  <2>1. PICK h \in groups : c \in h /\ h \cap k # {}
    BY <1>1, <1>3 DEF JoinedBy
  <2>2. h \subseteq j
    BY <1>1, <2>1 DEF JoinedBy
  <2> QED BY <2>1, <2>2
<1>4. ASSUME NEW Z, Apart(groups, Z), g \subseteq Z PROVE j \subseteq Z
  <2>1. k \subseteq Z
    BY <1>4 DEF JoinOf
  <2> QED BY <1>1, <1>4, <2>1 DEF JoinedBy, Apart
<1>5. JoinOf(groups, g, j)
  <2>1. g \in groups /\ g \subseteq j
    BY <1>2 DEF JoinOf
  <2> QED BY <1>3, <1>4, <2>1 DEF JoinOf
<1>6. ASSUME Apart(groups, k) PROVE j \subseteq k
  BY <1>1, <1>6 DEF JoinedBy, Apart
<1> QED BY <1>1, <1>2, <1>5, <1>6

\* Two joins of groups that nothing joins further are the same or have no cell in common.
LEMMA JoinsApart ==
    ASSUME NEW groups \in SUBSET (SUBSET Cells), {} \notin groups,
           NEW g, NEW k, JoinOf(groups, g, k), Apart(groups, k),
           NEW h, NEW j, JoinOf(groups, h, j), Apart(groups, j), k \cap j # {}
    PROVE  k \subseteq j
<1>1. PICK Z : Z = k \ j
  OBVIOUS
<1>2. Apart(groups, Z)
  <2> SUFFICES ASSUME NEW q \in groups, q \cap Z # {} PROVE q \subseteq Z
    BY DEF Apart
  <2>1. q \cap k # {}
    BY <1>1
  <2>2. q \subseteq k
    BY <2>1 DEF Apart
  <2>3. q \cap j # {} => q \subseteq j
    BY DEF Apart
  <2>4. q \cap j = {}
    BY <1>1, <2>3
  <2> QED BY <1>1, <2>2, <2>4
<1>3. ~(k \subseteq Z)
  BY <1>1
<1>4. ~(g \subseteq Z)
  BY <1>2, <1>3 DEF JoinOf
<1>5. g \in groups /\ g \subseteq k
  BY DEF JoinOf
<1>6. g \cap j # {}
  BY <1>1, <1>4, <1>5
<1>7. g \subseteq j
  BY <1>5, <1>6 DEF Apart
<1> QED BY <1>7 DEF JoinOf

\* The rounds in which groups are joined.
JoinRounds(groups, r) ==
    /\ r[0] = groups
    /\ \A n \in Nat : r[n + 1] = {JoinedBy(groups, k) : k \in r[n]}

\* The components are those of the last round.
LEMMA ComponentsAre ==
    ASSUME NEW v, v.hidden \subseteq Cells, NEW f
    PROVE  \E r : /\ JoinRounds(Groups(v, f), r)
                  /\ Components(v, f) = r[Cardinality(Groups(v, f))]
<1>1. PICK groups : groups = Groups(v, f)
  OBVIOUS
<1> DEFINE F(r) == [n \in Nat |-> IF n = 0 THEN groups
                                  ELSE {JoinedBy(groups, k) : k \in r[n - 1]}]
<1>2. groups \in SUBSET (SUBSET Cells)
  BY <1>1, GroupsAreCells
<1>3. PICK X : X = SUBSET (SUBSET Cells)
  OBVIOUS
<1>4. PICK g : g = [K \in X |-> {JoinedBy(groups, k) : k \in K}]
  OBVIOUS
<1>5. g \in [X -> X]
  <2>1. \A k : JoinedBy(groups, k) \in SUBSET Cells
    BY DEF JoinedBy
  <2> QED BY <1>3, <1>4, <2>1
<1>6. groups \in X
  BY <1>2, <1>3
<1>7. PICK h : h \in [Nat -> X] /\ h = [n \in Nat |-> IF n = 0 THEN groups ELSE g[h[n - 1]]]
  <2>1. PICK h : AllRounds(g, groups, X, h)
    BY <1>5, <1>6, Iterates
  <2> QED BY <2>1 DEF AllRounds
<1>8. ASSUME NEW n \in Nat, n # 0 PROVE g[h[n - 1]] = {JoinedBy(groups, k) : k \in h[n - 1]}
  <2>1. h[n - 1] \in X
    BY <1>7, <1>8
  <2> QED BY <1>4, <2>1
<1>9. h = F(h)
  BY <1>7, <1>8
<1>10. PICK r : r = CHOOSE q : q = F(q)
  OBVIOUS
<1>11. r = F(r)
  BY <1>9, <1>10
<1>12. Components(v, f) = r[Cardinality(groups)]
  BY <1>1, <1>10 DEF Components, Groups, JoinedBy
<1>13. r[0] = groups
  BY <1>11
<1>14. ASSUME NEW n \in Nat PROVE r[n + 1] = {JoinedBy(groups, k) : k \in r[n]}
  <2>1. n + 1 \in Nat /\ n + 1 # 0 /\ (n + 1) - 1 = n
    OBVIOUS
  <2>2. r[n + 1] = {JoinedBy(groups, k) : k \in r[(n + 1) - 1]}
    BY <1>11, <2>1
  <2> QED BY <2>1, <2>2
<1> QED BY <1>1, <1>12, <1>13, <1>14 DEF JoinRounds

\* How many groups meet some cells.
Met(groups, k) == {g \in groups : g \cap k # {}}

\* After as many rounds as there are groups, nothing joins the components further,
\* and no group is left out.
LEMMA JoinsEnd ==
    ASSUME NEW groups \in SUBSET (SUBSET Cells), {} \notin groups,
           NEW r, JoinRounds(groups, r), NEW N, N = Cardinality(groups)
    PROVE  /\ \A k \in r[N] : Apart(groups, k) /\ \E g : JoinOf(groups, g, k)
           /\ \A g \in groups : \E k \in r[N] : g \subseteq k
<1>1. IsFiniteSet(groups) /\ N \in Nat
  <2>1. IsFiniteSet(SUBSET Cells)
    BY CellsFinite, FS_SUBSET
  <2> QED BY <2>1, FS_Subset, FS_CardinalityType
<1>2. \A k : Cardinality(Met(groups, k)) \in Nat /\ Cardinality(Met(groups, k)) <= N
  BY <1>1, FS_Subset, FS_CardinalityType DEF Met
<1> DEFINE Fine(n, k) == /\ \E g : JoinOf(groups, g, k)
                         /\ Apart(groups, k) \/ Cardinality(Met(groups, k)) >= n + 1
           S == {n \in Nat : /\ \A k \in r[n] : Fine(n, k)
                             /\ \A g \in groups : \E k \in r[n] : g \subseteq k}
<1>3. 0 \in S
  <2>1. r[0] = groups
    BY DEF JoinRounds
  <2>2. ASSUME NEW k \in groups PROVE Fine(0, k)
    <3>1. JoinOf(groups, k, k)
      BY DEF JoinOf
    <3>2. k \in Met(groups, k)
      BY DEF Met
    <3>3. Cardinality(Met(groups, k)) # 0
      BY <1>1, <3>2, FS_EmptySet, FS_Subset DEF Met
    <3>4. Cardinality(Met(groups, k)) >= 0 + 1
      BY <1>2, <3>3
    <3> QED BY <3>1, <3>4
  <2> QED BY <2>1, <2>2
<1>4. ASSUME NEW n \in Nat, n \in S PROVE n + 1 \in S
  <2>1. r[n + 1] = {JoinedBy(groups, k) : k \in r[n]}
    BY DEF JoinRounds
  <2>2. ASSUME NEW k \in r[n] PROVE Fine(n + 1, JoinedBy(groups, k))
    <3>1. PICK j : j = JoinedBy(groups, k)
      OBVIOUS
    <3>2. PICK g : JoinOf(groups, g, k)
      BY <1>4, <2>2
    <3>3. /\ k \subseteq j /\ JoinOf(groups, g, j)
          /\ Apart(groups, k) => j = k
      BY <3>1, <3>2, JoinMore
    <3>4. CASE Apart(groups, k)
      BY <3>1, <3>3, <3>4
    <3>5. CASE ~Apart(groups, k) /\ Met(groups, j) = Met(groups, k)
      <4>1. Apart(groups, j)
        BY <3>1, <3>5 DEF Apart, Met, JoinedBy
      <4> QED BY <3>1, <3>3, <4>1
    <3>6. CASE ~Apart(groups, k) /\ Met(groups, j) # Met(groups, k)
      <4>1. Cardinality(Met(groups, k)) >= n + 1
        BY <1>4, <2>2, <3>6
      <4>2. Met(groups, k) \subseteq Met(groups, j)
        BY <3>3 DEF Met
      <4>3. IsFiniteSet(Met(groups, j))
        BY <1>1, FS_Subset DEF Met
      <4>4. Cardinality(Met(groups, k)) + 1 <= Cardinality(Met(groups, j))
        BY <3>6, <4>2, <4>3, MoreElements
      <4>5. Cardinality(Met(groups, j)) >= (n + 1) + 1
        BY <1>2, <4>1, <4>4
      <4> QED BY <3>1, <3>3, <4>5
    <3> QED BY <3>4, <3>5, <3>6
  <2>3. ASSUME NEW g \in groups PROVE \E k \in r[n + 1] : g \subseteq k
    <3>1. PICK k \in r[n] : g \subseteq k
      BY <1>4
    <3>2. PICK h : JoinOf(groups, h, k)
      BY <1>4, <3>1
    <3>3. k \subseteq JoinedBy(groups, k)
      BY <3>2, JoinMore
    <3> QED BY <2>1, <3>1, <3>3
  <2> QED BY <2>1, <2>2, <2>3
<1>5. N \in S
  <2> HIDE DEF S
  <2>1. Nat \subseteq S
    BY <1>3, <1>4, AllNaturals
  <2> QED BY <1>1, <2>1
<1>6. ASSUME NEW k \in r[N] PROVE Apart(groups, k)
  <2>1. ~(Cardinality(Met(groups, k)) >= N + 1)
    BY <1>1, <1>2
  <2> QED BY <1>5, <2>1
<1> QED BY <1>5, <1>6

\* The components have no cell in common, each clue lies within one of them, and they
\* are made of cells that are undecided.
ComponentsGood(v, f) ==
    /\ \A k \in Components(v, f) : k \subseteq Undecided(v, f)
    /\ \A k, j \in Components(v, f) : k \cap j # {} => k = j
    /\ \A s \in ClueStates(v, f) : s.unknowns # {} =>
            \E k \in Components(v, f) : s.unknowns \subseteq k

\* The groups are sets of undecided cells.
LEMMA GroupsAreUndecided ==
    ASSUME NEW v, NEW l, Shows(v, l), NEW f, Sound(v, l, f)
    PROVE  \A g \in Groups(v, f) : g \subseteq Undecided(v, f)
BY ClueStatesHold DEF CluesHold, ClueHolds, Groups

\* The components are as they should be.
LEMMA ComponentsAreGood ==
    ASSUME NEW v, NEW l, Shows(v, l), NEW f, Sound(v, l, f)
    PROVE  ComponentsGood(v, f)
<1>1. PICK groups : groups = Groups(v, f)
  OBVIOUS
<1>2. PICK comps : comps = Components(v, f)
  OBVIOUS
<1>3. \A g \in groups : g \subseteq Undecided(v, f)
  BY <1>1, GroupsAreUndecided
<1>4. groups \in SUBSET (SUBSET Cells) /\ {} \notin groups
  BY <1>1, GroupsAreCells DEF Groups, Shows
<1>5. PICK r : JoinRounds(groups, r) /\ comps = r[Cardinality(groups)]
  BY <1>1, <1>2, ComponentsAre DEF Shows
<1>6. /\ \A k \in comps : Apart(groups, k) /\ \E g : JoinOf(groups, g, k)
      /\ \A g \in groups : \E k \in comps : g \subseteq k
  BY <1>4, <1>5, JoinsEnd
<1>7. \A k \in comps : k \subseteq Undecided(v, f)
  BY <1>3, <1>6 DEF JoinOf
<1>8. \A k, j \in comps : k \cap j # {} => k = j
  <2> SUFFICES ASSUME NEW k \in comps, NEW j \in comps, k \cap j # {} PROVE k = j
    OBVIOUS
  <2>1. PICK g : JoinOf(groups, g, k)
    BY <1>6
  <2>2. PICK h : JoinOf(groups, h, j)
    BY <1>6
  <2>3. Apart(groups, k) /\ Apart(groups, j) /\ j \cap k # {}
    BY <1>6
  <2>4. k \subseteq j
    BY ONLY <1>4, <2>1, <2>2, <2>3, k \cap j # {}, JoinsApart
  <2>5. j \subseteq k
    BY ONLY <1>4, <2>1, <2>2, <2>3, JoinsApart
  <2> QED BY <2>4, <2>5
<1>9. \A s \in ClueStates(v, f) : s.unknowns # {} => \E k \in comps : s.unknowns \subseteq k
  BY <1>1, <1>6 DEF Groups
<1> QED BY <1>2, <1>7, <1>8, <1>9 DEF ComponentsGood
-----------------------------------------------------------------------------
(*****************************************************************************)
(* convolve: the totals are the numbers of mines of the placements of all    *)
(* the components.                                                           *)
(*****************************************************************************)
\* The numbers of mines of some components with one more.
SumsWith(v, f, k, sums) ==
    {n + m : n \in sums, m \in {Cardinality(s) : s \in Enumerated(v, f, k)}}

\* What FoldSet does with a set of components: t has the result for every part of it.
IsFold(v, f, comps, t) ==
    t = [K \in SUBSET comps |->
            IF K = {} THEN {0}
            ELSE LET k == CHOOSE k \in K : TRUE IN SumsWith(v, f, k, t[K \ {k}])]

\* Any sum of numbers of mines is a number.
LEMMA SumsAreNumbers ==
    ASSUME NEW v, NEW f, NEW k, k \subseteq Cells, NEW sums \in SUBSET Nat
    PROVE  SumsWith(v, f, k, sums) \in SUBSET Nat
<1>1. \A s \in Enumerated(v, f, k) : Cardinality(s) \in Nat
  BY CellSets DEF Enumerated
<1> QED BY <1>1 DEF SumsWith

\* The fold exists.
LEMMA FoldExists ==
    ASSUME NEW v, NEW f, NEW comps, IsFiniteSet(comps), \A k \in comps : k \subseteq Cells
    PROVE  \E t : IsFold(v, f, comps, t) /\ t \in [SUBSET comps -> SUBSET Nat]
<1>1. PICK X : X = [SUBSET comps -> SUBSET Nat]
  OBVIOUS
<1> DEFINE Chosen(K) == CHOOSE k \in K : TRUE
           Value(t, K) == IF K = {} THEN {0} ELSE SumsWith(v, f, Chosen(K), t[K \ {Chosen(K)}])
<1>2. ASSUME NEW K \in SUBSET comps, K # {}
      PROVE  Chosen(K) \in K /\ K \ {Chosen(K)} \in SUBSET comps
  BY <1>2
<1>3. ASSUME NEW t \in X, NEW K \in SUBSET comps PROVE Value(t, K) \in SUBSET Nat
  <2>1. CASE K = {}
    BY <2>1
  <2>2. CASE K # {}
    <3>1. PICK k : k = Chosen(K)
      OBVIOUS
    <3>2. k \in comps /\ K \ {k} \in SUBSET comps
      BY <1>2, <2>2, <3>1
    <3>3. t[K \ {k}] \in SUBSET Nat
      BY <1>1, <3>2
    <3>4. SumsWith(v, f, k, t[K \ {k}]) \in SUBSET Nat
      BY <3>2, <3>3, SumsAreNumbers
    <3> QED BY <2>2, <3>1, <3>4
  <2> QED BY <2>1, <2>2
<1> HIDE DEF Chosen
<1>4. PICK g : g = [t \in X |-> [K \in SUBSET comps |-> Value(t, K)]]
  OBVIOUS
<1>5. g \in [X -> X]
  <2>1. ASSUME NEW t \in X PROVE [K \in SUBSET comps |-> Value(t, K)] \in X
    <3> HIDE DEF Value
    <3> QED BY <1>1, <1>3
  <2> HIDE DEF Value
  <2> QED BY <1>4, <2>1
<1>6. PICK x : x = [K \in SUBSET comps |-> {0}]
  OBVIOUS
<1>7. x \in X
  BY <1>1, <1>6
<1>8. PICK a : AllRounds(g, x, X, a)
  BY <1>5, <1>7, Iterates
<1>9. ASSUME NEW n \in Nat
      PROVE  a[n] \in X /\ a[n + 1] = [K \in SUBSET comps |-> Value(a[n], K)]
  <2>1. n + 1 \in Nat /\ n + 1 # 0 /\ (n + 1) - 1 = n
    OBVIOUS
  <2>2. a[n] \in X /\ a[n + 1] = g[a[n]]
    BY <1>8, <2>1 DEF AllRounds
  <2> HIDE DEF Value
  <2> QED BY <1>4, <2>2
<1>10. ASSUME NEW K \in SUBSET comps PROVE IsFiniteSet(K) /\ Cardinality(K) \in Nat
  BY FS_Subset, FS_CardinalityType
<1> DEFINE S == {n \in Nat : \A K \in SUBSET comps : Cardinality(K) < n => a[n + 1][K] = a[n][K]}
<1>11. 0 \in S
  BY <1>10
<1>12. ASSUME NEW n \in Nat, n \in S PROVE n + 1 \in S
  <2> SUFFICES ASSUME NEW K \in SUBSET comps, Cardinality(K) < n + 1
               PROVE  a[(n + 1) + 1][K] = a[n + 1][K]
    OBVIOUS
  <2>1. a[(n + 1) + 1][K] = Value(a[n + 1], K) /\ a[n + 1][K] = Value(a[n], K)
    <3> HIDE DEF Value, S
    <3>1. PICK m : m = n + 1
      OBVIOUS
    <3>2. m \in Nat
      BY <3>1
    <3>3. a[m + 1] = [J \in SUBSET comps |-> Value(a[m], J)]
      BY <1>9, <3>2
    <3> QED BY <1>9, <3>1, <3>3
  <2>2. CASE K = {}
    BY <2>1, <2>2
  <2>3. CASE K # {}
    <3>1. PICK k : k = Chosen(K)
      OBVIOUS
    <3>2. k \in K /\ K \ {k} \in SUBSET comps
      BY <1>2, <2>3, <3>1
    <3>3. Cardinality(K \ {k}) = Cardinality(K) - 1
      BY <1>10, <3>2, FS_RemoveElement
    <3>4. Cardinality(K \ {k}) < n
      BY <1>10, <3>3
    <3>5. a[n + 1][K \ {k}] = a[n][K \ {k}]
      BY <1>12, <3>2, <3>4
    <3> QED BY <2>1, <2>3, <3>1, <3>5
  <2> QED BY <2>2, <2>3
<1>13. PICK N : N = Cardinality(comps) + 1
  OBVIOUS
<1>14. N \in Nat /\ N \in S
  <2>1. Nat \subseteq S
    <3> HIDE DEF S
    <3> QED BY <1>11, <1>12, AllNaturals
  <2> HIDE DEF S
  <2> QED BY <1>10, <1>13, <2>1
<1>15. PICK t : t = a[N]
  OBVIOUS
<1>16. t \in [SUBSET comps -> SUBSET Nat]
  BY <1>1, <1>9, <1>14, <1>15
<1>17. ASSUME NEW K \in SUBSET comps PROVE t[K] = Value(t, K)
  <2>1. Cardinality(K) < N
    BY <1>10, <1>13, FS_Subset
  <2>2. a[N + 1][K] = a[N][K]
    BY <1>14, <2>1
  <2>3. a[N + 1] = [J \in SUBSET comps |-> Value(t, J)]
    BY <1>9, <1>14, <1>15
  <2> HIDE DEF Value
  <2> QED BY <1>15, <2>2, <2>3
<1>18. t = [K \in SUBSET comps |-> Value(t, K)]
  <2> HIDE DEF Value
  <2> QED BY <1>16, <1>17
<1>19. IsFold(v, f, comps, t)
  BY <1>18 DEF IsFold, Chosen
<1> QED BY <1>16, <1>19

\* Totals is that fold.
LEMMA TotalsAre ==
    ASSUME NEW v, NEW f, NEW comps, IsFiniteSet(comps), \A k \in comps : k \subseteq Cells
    PROVE  \E t : IsFold(v, f, comps, t) /\ Totals(v, f, comps) = t[comps]
<1>1. PICK t : t = CHOOSE q : IsFold(v, f, comps, q)
  OBVIOUS
<1>2. IsFold(v, f, comps, t)
  BY <1>1, FoldExists
<1>3. Totals(v, f, comps) = t[comps]
  BY <1>1 DEF Totals, FoldSet, MapThenFoldSet, IsFold, SumsWith
<1> QED BY <1>2, <1>3
-----------------------------------------------------------------------------
\* Sets of cells of which no two have a cell in common.
Disjoint(K) == /\ \A k \in K : k \subseteq Cells
               /\ \A k, j \in K : k \cap j # {} => k = j

\* p has in each of some components one of its placements.
Placed(v, f, K, p) ==
    /\ p \subseteq UNION K
    /\ \A k \in K : p \cap k \in Enumerated(v, f, k)

\* q is a placement of all the components but k, and s one of k.
PlacedApart(v, f, K, k, q, s) == Placed(v, f, K \ {k}, q) /\ s \in Enumerated(v, f, k)

\* The numbers of elements of two sets add up.
AddUp(S, T) ==
    /\ Cardinality(S) \in Nat /\ Cardinality(T) \in Nat
    /\ Cardinality(S \cup T) = Cardinality(S) + Cardinality(T)

\* Together they are a placement of all the components.
PlacedTogether(v, f, K, k, q, s) ==
    Placed(v, f, K, q \cup s) /\ AddUp(q, s) /\ k \cap q = {} /\ s \subseteq k

\* A placement of all the components but one and one of that make one of all,
LEMMA PlacedWith ==
    ASSUME NEW v, NEW f, NEW K, Disjoint(K), NEW k \in K,
           NEW q, NEW s, PlacedApart(v, f, K, k, q, s)
    PROVE  PlacedTogether(v, f, K, k, q, s)
<1>1. PICK J : J = K \ {k}
  OBVIOUS
<1>2. s \in Enumerated(v, f, k) /\ s \subseteq k /\ k \subseteq Cells
  BY DEF Enumerated, Disjoint, PlacedApart
<1>3. q \subseteq UNION J /\ UNION J \subseteq Cells /\ k \cap UNION J = {}
  BY <1>1 DEF Placed, Disjoint, PlacedApart
<1>4. q \cap s = {} /\ (q \cup s) \cap k = s
  BY <1>2, <1>3
<1>5. IsFiniteSet(q) /\ IsFiniteSet(s)
  BY <1>2, <1>3, CellSets
<1>6. AddUp(q, s)
  BY <1>4, <1>5, TwoParts DEF AddUp
<1>7. q \cup s \subseteq UNION K
  BY <1>1, <1>2, <1>3
<1>8. ASSUME NEW j \in K PROVE (q \cup s) \cap j \in Enumerated(v, f, j)
  <2>1. CASE j = k
    BY <1>2, <1>4, <2>1
  <2>2. CASE j # k
    <3>1. j \in J /\ s \cap j = {}
      BY <1>1, <1>2, <2>2 DEF Disjoint
    <3>2. (q \cup s) \cap j = q \cap j
      BY <3>1
    <3>3. q \cap j \in Enumerated(v, f, j)
      BY <1>1, <3>1 DEF PlacedApart, Placed
    <3> QED BY <3>2, <3>3
  <2> QED BY <2>1, <2>2
<1> QED BY <1>2, <1>3, <1>6, <1>7, <1>8 DEF Placed, PlacedTogether

\* and a placement of all is made of two such.
LEMMA PlacedWithout ==
    ASSUME NEW v, NEW f, NEW K, Disjoint(K), NEW k \in K, NEW p, Placed(v, f, K, p)
    PROVE  \E q, s : PlacedApart(v, f, K, k, q, s) /\ p = q \cup s
<1>1. PICK J : J = K \ {k}
  OBVIOUS
<1>2. PICK q : q = p \cap UNION J
  OBVIOUS
<1>3. PICK s : s = p \cap k
  OBVIOUS
<1>4. \A j \in J : q \cap j = p \cap j
  BY <1>2
<1>5. s \in Enumerated(v, f, k) /\ p \subseteq UNION K
  BY <1>3 DEF Placed
<1>6. UNION K = (UNION J) \cup k
  BY <1>1
<1>7. Placed(v, f, J, q)
  <2>1. \A j \in J : p \cap j \in Enumerated(v, f, j)
    BY <1>1 DEF Placed
  <2>2. q \subseteq UNION J
    BY <1>2
  <2> QED BY <1>4, <2>1, <2>2 DEF Placed
<1>8. p = q \cup s
  BY <1>2, <1>3, <1>5, <1>6
<1> QED BY <1>1, <1>5, <1>7, <1>8 DEF PlacedApart

\* The totals are the numbers of mines of the placements of all the components.
LEMMA TotalsMean ==
    ASSUME NEW v, NEW f, NEW comps, IsFiniteSet(comps), Disjoint(comps)
    PROVE  \A m : m \in Totals(v, f, comps) <=>
                    \E p : Placed(v, f, comps, p) /\ m = Cardinality(p)
<1>1. PICK t : IsFold(v, f, comps, t) /\ Totals(v, f, comps) = t[comps]
  BY TotalsAre DEF Disjoint
<1> DEFINE Means(K) == \A m : m \in t[K] <=> \E p : Placed(v, f, K, p) /\ m = Cardinality(p)
           S == {n \in Nat : \A K \in SUBSET comps : Cardinality(K) = n => Means(K)}
<1>2. ASSUME NEW K \in SUBSET comps PROVE IsFiniteSet(K) /\ Cardinality(K) \in Nat /\ Disjoint(K)
  BY FS_Subset, FS_CardinalityType DEF Disjoint
<1>3. 0 \in S
  <2> SUFFICES ASSUME NEW K \in SUBSET comps, Cardinality(K) = 0 PROVE Means(K)
    OBVIOUS
  <2>1. K = {}
    BY <1>2, FS_EmptySet
  <2>2. t[K] = {0}
    BY <1>1, <2>1 DEF IsFold
  <2>3. \A p : Placed(v, f, K, p) <=> p = {}
    BY <2>1 DEF Placed
  <2>4. Cardinality({}) = 0
    BY FS_EmptySet
  <2> QED BY <2>2, <2>3, <2>4
<1>4. ASSUME NEW n \in Nat, n \in S PROVE n + 1 \in S
  <2> SUFFICES ASSUME NEW K \in SUBSET comps, Cardinality(K) = n + 1 PROVE Means(K)
    OBVIOUS
  <2>1. K # {}
    BY FS_EmptySet
  <2>2. PICK k : k = CHOOSE j \in K : TRUE
    OBVIOUS
  <2>3. PICK J : J = K \ {k}
    OBVIOUS
  <2>4. k \in K /\ J \in SUBSET comps /\ Disjoint(K)
    BY <1>2, <2>1, <2>2, <2>3
  <2>5. t[K] = SumsWith(v, f, k, t[J])
    BY <1>1, <2>1, <2>2, <2>3 DEF IsFold
  <2>6. Means(J)
    <3>1. Cardinality(J) = Cardinality(K) - 1
      BY <1>2, <2>3, <2>4, FS_RemoveElement
    <3>2. Cardinality(J) = n
      BY <3>1
    <3> QED BY <1>4, <2>4, <3>2
  <2>7. ASSUME NEW m \in t[K] PROVE \E p : Placed(v, f, K, p) /\ m = Cardinality(p)
    <3>1. PICK a \in t[J], s \in Enumerated(v, f, k) : m = a + Cardinality(s)
      BY <2>5, <2>7 DEF SumsWith
    <3>2. PICK q : Placed(v, f, J, q) /\ a = Cardinality(q)
      BY <2>6
    <3>3. PlacedApart(v, f, K, k, q, s)
      BY <2>3, <3>2 DEF PlacedApart
    <3>4. Placed(v, f, K, q \cup s) /\ AddUp(q, s)
      BY <2>4, <3>3, PlacedWith DEF PlacedTogether
    <3> QED BY <3>1, <3>2, <3>4 DEF AddUp
  <2>8. ASSUME NEW p, Placed(v, f, K, p) PROVE Cardinality(p) \in t[K]
    <3>1. PICK q, s : PlacedApart(v, f, K, k, q, s) /\ p = q \cup s
      BY <2>4, <2>8, PlacedWithout
    <3>2. AddUp(q, s)
      <4>1. PlacedApart(v, f, K, k, q, s)
        BY <3>1
      <4>2. Disjoint(K) /\ k \in K
        BY <2>4
      <4>3. PlacedTogether(v, f, K, k, q, s)
        BY ONLY <4>1, <4>2, PlacedWith
      <4> QED BY <4>3 DEF PlacedTogether
    <3>3. Placed(v, f, J, q) /\ s \in Enumerated(v, f, k)
      BY <2>3, <3>1 DEF PlacedApart
    <3>4. Cardinality(q) \in t[J]
      BY <2>6, <3>3
    <3> QED BY <2>5, <3>1, <3>2, <3>3, <3>4 DEF SumsWith, AddUp
  <2> QED BY <2>7, <2>8
<1>5. Means(comps)
  <2>1. PICK N : N = Cardinality(comps)
    OBVIOUS
  <2>2. N \in S
    <3>1. Nat \subseteq S
      <4> HIDE DEF S
      <4> QED BY <1>3, <1>4, AllNaturals
    <3> HIDE DEF S
    <3> QED BY <1>2, <2>1, <3>1
  <2> QED BY <2>1, <2>2
<1> QED BY <1>1, <1>5
-----------------------------------------------------------------------------
(*****************************************************************************)
(* refineExactly takes nothing for certain that some layout contradicts.     *)
(*****************************************************************************)
\* A layout that shows this board has in each component one of its placements.
LEMMA LayoutPlaces ==
    ASSUME NEW v, NEW l, Shows(v, l), NEW f, Sound(v, l, f), NEW K \in SUBSET Components(v, f)
    PROVE  /\ \A k \in Components(v, f) : l \cap k \in Enumerated(v, f, k)
           /\ Placed(v, f, K, l \cap UNION K)
<1>1. PICK U : U = Undecided(v, f)
  OBVIOUS
<1>2. U \subseteq Cells /\ MinesLeft(v, f) = Cardinality(l \cap U)
  BY <1>1, UndecidedAreCells, LeftAreUndecided
<1>3. ASSUME NEW k \in Components(v, f) PROVE l \cap k \in Enumerated(v, f, k)
  <2>1. k \subseteq U
    BY <1>1, ComponentsAreGood DEF ComponentsGood
  <2>2. Cardinality(l \cap k) <= MinesLeft(v, f)
    <3>1. IsFiniteSet(l \cap U) /\ l \cap k \in SUBSET (l \cap U)
      BY <1>2, <2>1, CellSets
    <3> QED BY <1>2, <3>1, FS_Subset
  <2>3. ASSUME NEW clue \in ClueStates(v, f), clue.unknowns \subseteq k
        PROVE  Cardinality((l \cap k) \cap clue.unknowns) = clue.remaining
    <3>1. clue.remaining = Cardinality(clue.unknowns \cap l)
      BY ClueStatesHold DEF CluesHold, ClueHolds
    <3>2. (l \cap k) \cap clue.unknowns = clue.unknowns \cap l
      BY <2>3
    <3> QED BY <3>1, <3>2
  <2> QED BY <2>2, <2>3 DEF Enumerated
<1>4. l \cap UNION K \subseteq UNION K /\ \A k \in K : (l \cap UNION K) \cap k = l \cap k
  OBVIOUS
<1>5. Placed(v, f, K, l \cap UNION K)
  BY <1>3, <1>4 DEF Placed
<1> QED BY <1>3, <1>5

\* The components are finitely many and disjoint, and with the free cells make up what is undecided.
LEMMA ComponentsPart ==
    ASSUME NEW v, NEW l, Shows(v, l), NEW f, Sound(v, l, f)
    PROVE  /\ IsFiniteSet(Components(v, f)) /\ Disjoint(Components(v, f))
           /\ Undecided(v, f) = (UNION Components(v, f)) \cup FreeCells(v, f)
           /\ (UNION Components(v, f)) \cap FreeCells(v, f) = {}
<1>1. ComponentsGood(v, f) /\ Undecided(v, f) \in SUBSET Cells
  BY ComponentsAreGood, UndecidedAreCells
<1>2. Components(v, f) \in SUBSET (SUBSET Cells)
  BY <1>1 DEF ComponentsGood
<1>3. IsFiniteSet(Components(v, f))
  BY <1>2, CellsFinite, FS_SUBSET, FS_Subset
<1>4. Disjoint(Components(v, f))
  BY <1>1, <1>2 DEF ComponentsGood, Disjoint
<1>5. UNION Components(v, f) \subseteq Undecided(v, f)
  BY <1>1 DEF ComponentsGood
<1> QED BY <1>3, <1>4, <1>5 DEF FreeCells

\* Some of the components are finitely many and disjoint too.
LEMMA SomeComponents ==
    ASSUME NEW comps, IsFiniteSet(comps), Disjoint(comps), NEW K \in SUBSET comps
    PROVE  IsFiniteSet(K) /\ Disjoint(K)
BY FS_Subset DEF Disjoint

\* What a layout leaves to the free cells is what the totals allow for.
LEMMA LayoutCounts ==
    ASSUME NEW v, NEW l, Shows(v, l), NEW f, Sound(v, l, f)
    PROVE  Cardinality(l \cap FreeCells(v, f)) \in FreeCounts(v, f)
<1>1. PICK comps : comps = Components(v, f)
  OBVIOUS
<1>2. PICK free : free = FreeCells(v, f)
  OBVIOUS
<1>3. /\ IsFiniteSet(comps) /\ Disjoint(comps)
      /\ Undecided(v, f) = (UNION comps) \cup free /\ (UNION comps) \cap free = {}
  BY <1>1, <1>2, ComponentsPart
<1>4. PICK P : P = l \cap UNION comps
  OBVIOUS
<1>5. PICK F : F = l \cap free
  OBVIOUS
<1>6. Undecided(v, f) \in SUBSET Cells /\ free \subseteq Cells /\ P \subseteq Cells /\ F \subseteq Cells
  BY <1>3, <1>4, <1>5, UndecidedAreCells
<1>7. P \cap F = {} /\ l \cap Undecided(v, f) = P \cup F
  BY <1>3, <1>4, <1>5
<1>8. IsFiniteSet(P) /\ IsFiniteSet(F)
  BY <1>6, CellSets
<1>9. /\ Cardinality(P) \in Nat /\ Cardinality(F) \in Nat
      /\ Cardinality(P \cup F) = Cardinality(P) + Cardinality(F)
  BY <1>7, <1>8, TwoParts
<1>10. PICK a : a = Cardinality(P)
  OBVIOUS
<1>11. PICK b : b = Cardinality(F)
  OBVIOUS
<1>12. a \in Nat /\ b \in Nat /\ MinesLeft(v, f) = a + b
  <2>1. MinesLeft(v, f) = Cardinality(P \cup F)
    BY <1>7, LeftAreUndecided
  <2> QED BY <1>9, <1>10, <1>11, <2>1
<1>13. a \in Totals(v, f, comps)
  <2>1. Placed(v, f, comps, P)
    BY <1>1, <1>4, LayoutPlaces
  <2> QED BY <1>3, <1>10, <2>1, TotalsMean
<1>14. b \in 0 .. Cardinality(free)
  BY <1>5, <1>6, <1>11, AllOrNone
<1>15. MinesLeft(v, f) - a = b
  BY <1>12
<1>16. b \in {MinesLeft(v, f) - n : n \in Totals(v, f, comps)}
  BY <1>13, <1>15
<1> QED BY <1>1, <1>2, <1>5, <1>11, <1>14, <1>16 DEF FreeCounts

\* A layout's part in a component is possible, whichever groups are too large.
LEMMA LayoutIsPossible ==
    ASSUME NEW v, NEW l, Shows(v, l), NEW f, Sound(v, l, f),
           NEW k \in Components(v, f), NEW over
    PROVE  l \cap k \in Possible(v, f, over, k)
<1>1. PICK comps : comps = Components(v, f)
  OBVIOUS
<1>2. PICK free : free = FreeCells(v, f)
  OBVIOUS
<1>3. /\ IsFiniteSet(comps) /\ Disjoint(comps)
      /\ Undecided(v, f) = (UNION comps) \cup free /\ (UNION comps) \cap free = {}
  BY <1>1, <1>2, ComponentsPart
<1>4. PICK J : J = comps \ {k}
  OBVIOUS
<1>5. PICK s : s = l \cap k
  OBVIOUS
<1>6. PICK P : P = l \cap UNION J
  OBVIOUS
<1>7. PICK F : F = l \cap free
  OBVIOUS
<1>8. Undecided(v, f) \in SUBSET Cells
  BY UndecidedAreCells
<1>9. UNION comps = (UNION J) \cup k /\ (UNION J) \cap k = {}
  BY <1>1, <1>3, <1>4 DEF Disjoint
<1>10. s \subseteq Cells /\ P \subseteq Cells /\ F \subseteq Cells /\ free \subseteq Cells
  BY <1>3, <1>5, <1>6, <1>7, <1>8, <1>9
<1>11. s \cap P = {} /\ (s \cup P) \cap F = {} /\ l \cap Undecided(v, f) = (s \cup P) \cup F
  BY <1>3, <1>5, <1>6, <1>7, <1>9
<1>12. IsFiniteSet(s) /\ IsFiniteSet(P) /\ IsFiniteSet(F)
  BY <1>10, CellSets
<1>13. /\ IsFiniteSet(s \cup P) /\ Cardinality(s) \in Nat /\ Cardinality(P) \in Nat
       /\ Cardinality(s \cup P) = Cardinality(s) + Cardinality(P)
  BY <1>11, <1>12, TwoParts
<1>14. /\ Cardinality(F) \in Nat
       /\ Cardinality((s \cup P) \cup F) = Cardinality(s \cup P) + Cardinality(F)
  BY <1>11, <1>12, <1>13, TwoParts
<1>15. PICK a : a = Cardinality(s)
  OBVIOUS
<1>16. PICK b : b = Cardinality(P)
  OBVIOUS
<1>17. PICK d : d = Cardinality(F)
  OBVIOUS
<1>18. a \in Nat /\ b \in Nat /\ d \in Nat /\ MinesLeft(v, f) = (a + b) + d
  <2>1. MinesLeft(v, f) = Cardinality(l \cap Undecided(v, f))
    BY LeftAreUndecided
  <2>2. MinesLeft(v, f) = Cardinality((s \cup P) \cup F)
    BY <1>11, <2>1
  <2> QED BY <1>13, <1>14, <1>15, <1>16, <1>17, <2>2
<1>19. b \in Totals(v, f, J)
  <2>1. J \in SUBSET comps
    BY <1>4
  <2>2. Placed(v, f, J, P)
    BY <1>1, <1>6, <2>1, LayoutPlaces
  <2>3. IsFiniteSet(J) /\ Disjoint(J)
    BY <1>3, <2>1, SomeComponents
  <2> QED BY <1>16, <2>2, <2>3, TotalsMean
<1>20. d \in 0 .. Cardinality(free)
  BY <1>7, <1>10, <1>17, AllOrNone
<1>21. MinesLeft(v, f) - a - b = d
  BY <1>18
<1>22. s \in Enumerated(v, f, k)
  BY <1>5, LayoutPlaces
<1>23. \E n \in Totals(v, f, J) : MinesLeft(v, f) - Cardinality(s) - n \in 0 .. Cardinality(free)
  BY <1>15, <1>19, <1>20, <1>21
<1> QED BY <1>1, <1>2, <1>4, <1>5, <1>22, <1>23 DEF Possible
-----------------------------------------------------------------------------
\* What the hardest level takes for certain is right, whichever groups were too large.
LEMMA RefinedSound ==
    ASSUME NEW v, NEW l, Shows(v, l), NEW f, Sound(v, l, f), NEW over
    PROVE  Sound(v, l, RefineExactly(v, f, over))
<1>1. PICK comps : comps = Components(v, f)
  OBVIOUS
<1>2. PICK free : free = FreeCells(v, f)
  OBVIOUS
<1> DEFINE FreeIf(n) == IF over = {} /\ FreeCounts(v, f) = {n} THEN free ELSE {}
           Agreed(k, placements) ==
              [mine |-> {c \in k : \A s \in placements : c \in s},
               safe |-> {c \in k : \A s \in placements : c \notin s}]
           agreed == {Agreed(k, Possible(v, f, over, k)) : k \in comps \ over}
           m == FreeIf(Cardinality(free)) \cup UNION {a.mine : a \in agreed}
           n == FreeIf(0) \cup UNION {a.safe : a \in agreed}
<1>3. Undecided(v, f) \subseteq v.hidden /\ Undecided(v, f) \in SUBSET Cells
  BY UndecidedAreCells
<1>4. Undecided(v, f) = (UNION comps) \cup free
  BY <1>1, <1>2, ComponentsPart
<1>5. free \subseteq Cells /\ free \subseteq v.hidden
  BY <1>3, <1>4
<1>6. Cardinality(l \cap free) \in FreeCounts(v, f)
  BY <1>2, LayoutCounts
<1>7. FreeIf(Cardinality(free)) \subseteq l \cap v.hidden
  BY <1>5, <1>6, AllOrNone
<1>8. FreeIf(0) \subseteq v.hidden \ l
  BY <1>5, <1>6, AllOrNone
<1>9. ASSUME NEW a \in agreed PROVE a.mine \subseteq l \cap v.hidden /\ a.safe \subseteq v.hidden \ l
  <2>1. PICK k \in comps : a = Agreed(k, Possible(v, f, over, k))
    OBVIOUS
  <2>2. k \subseteq v.hidden
    BY <1>3, <1>4
  <2>3. l \cap k \in Possible(v, f, over, k)
    BY <1>1, LayoutIsPossible
  <2>4. /\ a.mine = {c \in k : \A s \in Possible(v, f, over, k) : c \in s}
        /\ a.safe = {c \in k : \A s \in Possible(v, f, over, k) : c \notin s}
    BY <2>1
  <2> QED BY <2>2, <2>3, <2>4
<1> HIDE DEF FreeIf, Agreed, agreed
<1>10. m \subseteq l \cap v.hidden /\ n \subseteq v.hidden \ l
  BY <1>7, <1>8, <1>9
<1>11. PICK g : g = [mine |-> m, safe |-> n]
  OBVIOUS
<1>12. g.mine = m /\ g.safe = n
  BY <1>11
<1>13. RefineExactly(v, f, over) = With(Estimated(v, f), g)
  BY <1>1, <1>2, <1>11 DEF RefineExactly, FreeIf, Agreed, agreed
<1> HIDE DEF m, n
<1> QED BY <1>10, <1>12, <1>13, EstimatedSound, WithSound

\* At every level what the bot takes for certain is right.
LEMMA ProvenSound ==
    ASSUME NEW v, NEW l, Shows(v, l), NEW f, Sound(v, l, f), NEW deduction, NEW over
    PROVE  Sound(v, l, Proven(v, deduction, f, over))
BY RefinedSound, EstimatedSound DEF Proven
-----------------------------------------------------------------------------
(*****************************************************************************)
(* refineExactly misses nothing: what is possible is part of some layout.    *)
(*****************************************************************************)
\* There are sets of every number of elements within a finite set.
LEMMA SubsetOfSize ==
    ASSUME NEW T, IsFiniteSet(T), NEW m \in 0 .. Cardinality(T)
    PROVE  \E F \in SUBSET T : Cardinality(F) = m
<1> DEFINE S == {n \in Nat : n <= Cardinality(T) => \E F \in SUBSET T : Cardinality(F) = n}
<1>1. Cardinality(T) \in Nat
  BY FS_CardinalityType
<1>2. 0 \in S
  BY FS_EmptySet
<1>3. ASSUME NEW n \in Nat, n \in S PROVE n + 1 \in S
  <2> SUFFICES ASSUME n + 1 <= Cardinality(T) PROVE \E F \in SUBSET T : Cardinality(F) = n + 1
    OBVIOUS
  <2>1. PICK F \in SUBSET T : Cardinality(F) = n
    BY <1>1, <1>3
  <2>2. PICK x \in T : x \notin F
    <3>1. n # Cardinality(T)
      BY <1>1
    <3>2. F # T
      BY <2>1, <3>1
    <3> QED BY <3>2
  <2>3. IsFiniteSet(F)
    BY <2>1, FS_Subset
  <2>4. Cardinality(F \cup {x}) = n + 1
    BY <2>1, <2>2, <2>3, FS_AddElement
  <2> QED BY <2>1, <2>2, <2>4
<1>4. Nat \subseteq S
  <2> HIDE DEF S
  <2> QED BY <1>2, <1>3, AllNaturals
<1> QED BY <1>1, <1>4

\* Such a set with a cell in it, and one without it.
LEMMA SubsetAvoiding ==
    ASSUME NEW T, IsFiniteSet(T), NEW c \in T, NEW m \in 0 .. Cardinality(T)
    PROVE  /\ m # Cardinality(T) => \E F \in SUBSET T : Cardinality(F) = m /\ c \notin F
           /\ m # 0 => \E F \in SUBSET T : Cardinality(F) = m /\ c \in F
<1>1. PICK R : R = T \ {c}
  OBVIOUS
<1>2. Cardinality(T) \in Nat /\ IsFiniteSet(R) /\ Cardinality(R) = Cardinality(T) - 1
  BY <1>1, FS_CardinalityType, FS_RemoveElement
<1>3. ASSUME m # Cardinality(T) PROVE \E F \in SUBSET T : Cardinality(F) = m /\ c \notin F
  <2>1. m \in 0 .. Cardinality(R)
    BY <1>2, <1>3
  <2>2. PICK F \in SUBSET R : Cardinality(F) = m
    BY <1>2, <2>1, SubsetOfSize
  <2> QED BY <1>1, <2>2
<1>4. ASSUME m # 0 PROVE \E F \in SUBSET T : Cardinality(F) = m /\ c \in F
  <2>1. m - 1 \in 0 .. Cardinality(R)
    BY <1>2, <1>4
  <2>2. PICK F \in SUBSET R : Cardinality(F) = m - 1
    BY <1>2, <2>1, SubsetOfSize
  <2>3. IsFiniteSet(F) /\ c \notin F
    BY <1>1, <1>2, <2>2, FS_Subset
  <2>4. PICK d : d = Cardinality(F)
    OBVIOUS
  <2>5. Cardinality(F \cup {c}) = d + 1
    BY <2>3, <2>4, FS_AddElement
  <2>6. m \in Int /\ d = m - 1
    BY <1>2, <2>2, <2>4
  <2>7. Cardinality(F \cup {c}) = m
    BY <2>5, <2>6
  <2> QED BY <1>1, <2>2, <2>7
<1> QED BY <1>3, <1>4

\* What is known, with a placement of all components and as many free cells as are
\* left, is a layout that shows this board.
LEMMA PlacementShows ==
    ASSUME NEW v, NEW l, Shows(v, l), NEW f, Sound(v, l, f),
           NEW p, Placed(v, f, Components(v, f), p), NEW F \in SUBSET FreeCells(v, f),
           Cardinality(p) + Cardinality(F) = MinesLeft(v, f)
    PROVE  Shows(v, f.mine \cup (p \cup F))
<1>1. PICK comps : comps = Components(v, f)
  OBVIOUS
<1>2. PICK U : U = Undecided(v, f)
  OBVIOUS
<1>3. U = (UNION comps) \cup FreeCells(v, f) /\ (UNION comps) \cap FreeCells(v, f) = {}
  BY <1>1, <1>2, ComponentsPart
<1>4. U \subseteq v.hidden /\ U \subseteq Cells /\ f.mine \cap U = {} /\ f.mine \subseteq Cells
  BY <1>2, UndecidedAreCells, LeftAreUndecided DEF Sound, Shows
<1>5. PICK q : q = p \cup F
  OBVIOUS
<1>6. q \subseteq U /\ p \cap F = {} /\ p \subseteq Cells /\ F \subseteq Cells
  BY <1>1, <1>3, <1>4, <1>5 DEF Placed
<1>7. PICK A : A = f.mine
  OBVIOUS
<1>8. PICK k : k = A \cup q
  OBVIOUS
<1>9. v.claimed \subseteq k /\ k \subseteq v.claimed \cup v.hidden
  BY <1>4, <1>6, <1>7, <1>8 DEF Sound, Shows
<1>10. v.mineCount = Cardinality(k)
  <2>1. IsFiniteSet(p) /\ IsFiniteSet(F) /\ IsFiniteSet(A) /\ IsFiniteSet(q)
    BY <1>4, <1>6, <1>7, CellSets
  <2>2. Cardinality(q) = Cardinality(p) + Cardinality(F)
    BY <1>5, <1>6, <2>1, TwoParts
  <2>3. A \cap q = {}
    BY <1>4, <1>6, <1>7
  <2>4. /\ Cardinality(A) \in Nat /\ Cardinality(q) \in Nat
        /\ Cardinality(A \cup q) = Cardinality(A) + Cardinality(q)
    BY <2>1, <2>3, TwoParts
  <2>5. PICK a : a = Cardinality(A)
    OBVIOUS
  <2>6. PICK b : b = Cardinality(q)
    OBVIOUS
  <2>7. MinesLeft(v, f) = v.mineCount - a /\ MinesLeft(v, f) = b
    BY <1>7, <2>2, <2>5, <2>6 DEF MinesLeft
  <2>8. v.mineCount \in Nat
    BY CellSets DEF Shows
  <2>9. Cardinality(k) = a + b /\ a \in Nat /\ b \in Nat
    BY <1>8, <2>4, <2>5, <2>6
  <2> QED BY <2>7, <2>8, <2>9
<1>11. ASSUME NEW c \in DOMAIN v.clues PROVE v.clues[c] = AdjacentMines(k, c)
  <2>1. c \in Cells /\ v.clues[c] = Cardinality(Adjacent[c] \cap l)
    BY DEF Shows, AdjacentMines
  <2>2. CASE c \notin ClueCells(v)
    <3>1. Adjacent[c] \cap v.hidden = {}
      BY <2>2 DEF ClueCells
    <3>2. Adjacent[c] \cap k = Adjacent[c] \cap l
      BY <1>9, <3>1 DEF Shows
    <3> QED BY <2>1, <3>2 DEF AdjacentMines
  <2>3. CASE c \in ClueCells(v)
    <3>1. PICK W : W = {d \in Adjacent[c] \cap v.hidden : d \notin f.mine \cup f.safe}
      OBVIOUS
    <3>2. PICK B : B = Adjacent[c] \cap A
      OBVIOUS
    <3>3. PICK s : s = [unknowns |-> W, remaining |-> v.clues[c] - Cardinality(B)]
      OBVIOUS
    <3>4. s \in ClueStates(v, f)
      BY <1>7, <2>3, <3>1, <3>2, <3>3 DEF ClueStates
    <3>5. s.unknowns = W /\ s.remaining = v.clues[c] - Cardinality(B)
      BY <3>3
    <3>6. W \subseteq U
      BY <1>2, <3>1 DEF Undecided
    <3>7. Cardinality(k \cap W) = s.remaining
      <4>1. CASE W = {}
        <5>1. s.remaining = Cardinality(W \cap l)
          BY <3>4, <3>5, ClueStatesHold DEF CluesHold, ClueHolds
        <5>2. W \cap l = k \cap W
          BY <4>1
        <5> QED BY <5>1, <5>2
      <4>2. CASE W # {}
        <5>1. PICK j \in comps : W \subseteq j
          BY <1>1, <3>4, <3>5, <4>2, ComponentsAreGood DEF ComponentsGood
        <5>2. p \cap j \in Enumerated(v, f, j)
          BY <1>1, <5>1 DEF Placed
        <5>3. Cardinality((p \cap j) \cap W) = s.remaining
          BY <3>4, <3>5, <5>1, <5>2 DEF Enumerated
        <5>4. (p \cap j) \cap W = k \cap W
          BY <1>3, <1>4, <1>5, <1>7, <1>8, <3>6, <5>1
        <5> QED BY <5>3, <5>4
      <4> QED BY <4>1, <4>2
    <3>8. Adjacent[c] \cap k = B \cup (k \cap W) /\ B \cap (k \cap W) = {}
      <4>1. \A d \in q : d \in v.hidden /\ d \notin f.mine \cup f.safe
        BY <1>2, <1>6 DEF Undecided
      <4> QED BY <1>7, <1>8, <3>1, <3>2, <4>1
    <3>9. IsFiniteSet(B) /\ IsFiniteSet(k \cap W)
      <4>1. B \subseteq Cells /\ k \cap W \subseteq Cells
        BY <1>4, <1>7, <3>2, <3>6
      <4> QED BY <4>1, CellSets
    <3>10. /\ Cardinality(B) \in Nat /\ Cardinality(k \cap W) \in Nat
           /\ Cardinality(B \cup (k \cap W)) = Cardinality(B) + Cardinality(k \cap W)
      BY <3>8, <3>9, TwoParts
    <3>11. PICK a : a = Cardinality(B)
      OBVIOUS
    <3>12. PICK b : b = Cardinality(k \cap W)
      OBVIOUS
    <3>13. v.clues[c] \in Nat
      <4>1. Adjacent[c] \cap l \subseteq Cells
        BY <2>1, NeighboursAreCells
      <4> QED BY <2>1, <4>1, CellSets
    <3>14. b = v.clues[c] - a /\ a \in Nat /\ b \in Nat
      BY <3>5, <3>7, <3>10, <3>11, <3>12
    <3>15. v.clues[c] = a + b
      BY <3>13, <3>14
    <3>16. Cardinality(Adjacent[c] \cap k) = a + b
      BY <3>8, <3>10, <3>11, <3>12
    <3> QED BY <3>15, <3>16 DEF AdjacentMines
  <2> QED BY <2>2, <2>3
<1>12. Shows(v, k)
  BY <1>9, <1>10, <1>11 DEF Shows
<1> QED BY <1>5, <1>7, <1>8, <1>12
-----------------------------------------------------------------------------
\* The number of mines left is one.
LEMMA LeftIsNumber ==
    ASSUME NEW v, NEW l, Shows(v, l), NEW f, Sound(v, l, f)
    PROVE  MinesLeft(v, f) \in Nat
<1>1. PICK U : U = l \cap Undecided(v, f)
  OBVIOUS
<1>2. MinesLeft(v, f) = Cardinality(U)
  BY <1>1, LeftAreUndecided
<1>3. U \subseteq Cells
  BY <1>1, UndecidedAreCells
<1> QED BY <1>2, <1>3, CellSets

\* Every possible placement of a component is that of some layout that shows this board.
LEMMA PossibleShows ==
    ASSUME NEW v, NEW l, Shows(v, l), NEW f, Sound(v, l, f),
           NEW k \in Components(v, f), NEW s \in Possible(v, f, {}, k)
    PROVE  \E j : Shows(v, j) /\ j \cap k = s
<1>1. PICK comps : comps = Components(v, f)
  OBVIOUS
<1>2. PICK free : free = FreeCells(v, f)
  OBVIOUS
<1>3. /\ IsFiniteSet(comps) /\ Disjoint(comps) /\ k \in comps
      /\ Undecided(v, f) = (UNION comps) \cup free /\ (UNION comps) \cap free = {}
  BY <1>1, <1>2, ComponentsPart
<1>4. PICK J : J = comps \ {k}
  OBVIOUS
<1>5. s \in Enumerated(v, f, k)
  BY DEF Possible
<1>6. PICK n \in Totals(v, f, J) : MinesLeft(v, f) - Cardinality(s) - n \in 0 .. Cardinality(free)
  BY <1>1, <1>2, <1>4 DEF Possible
<1>7. IsFiniteSet(J) /\ Disjoint(J)
  <2>1. J \in SUBSET comps
    BY <1>4
  <2> QED BY <1>3, <2>1, SomeComponents
<1>8. PICK q : Placed(v, f, J, q) /\ n = Cardinality(q)
  BY <1>6, <1>7, TotalsMean
<1>9. PlacedTogether(v, f, comps, k, q, s)
  <2>1. PlacedApart(v, f, comps, k, q, s)
    BY <1>4, <1>5, <1>8 DEF PlacedApart
  <2>2. Disjoint(comps) /\ k \in comps
    BY <1>3
  <2> QED BY ONLY <2>1, <2>2, PlacedWith
<1>10. PICK p : p = q \cup s
  OBVIOUS
<1>11. Placed(v, f, comps, p) /\ p \cap k = s
  BY <1>9, <1>10 DEF PlacedTogether
<1>12. PICK a : a = Cardinality(s)
  OBVIOUS
<1>13. n \in Nat /\ a \in Nat /\ Cardinality(p) = n + a
  BY <1>8, <1>9, <1>10, <1>12 DEF PlacedTogether, AddUp
<1>14. Undecided(v, f) \subseteq Cells /\ MinesLeft(v, f) \in Nat
  BY UndecidedAreCells, LeftIsNumber
<1>15. IsFiniteSet(free)
  BY <1>3, <1>14, CellSets
<1>16. PICK d \in 0 .. Cardinality(free) : d = MinesLeft(v, f) - a - n
  BY <1>6, <1>12
<1>17. PICK F \in SUBSET free : Cardinality(F) = d
  BY <1>15, <1>16, SubsetOfSize
<1>18. Cardinality(p) + Cardinality(F) = MinesLeft(v, f)
  <2>1. d \in Int
    BY <1>16
  <2> QED BY <1>13, <1>14, <1>16, <1>17, <2>1
<1>19. Shows(v, f.mine \cup (p \cup F))
  <2>1. Placed(v, f, Components(v, f), p) /\ F \in SUBSET FreeCells(v, f)
    BY <1>1, <1>2, <1>11, <1>17
  <2> QED BY <1>18, <2>1, PlacementShows
<1>20. (f.mine \cup (p \cup F)) \cap k = s
  <2>1. k \subseteq Undecided(v, f) /\ f.mine \cap Undecided(v, f) = {} /\ F \cap k = {}
    BY <1>3, <1>17, LeftAreUndecided
  <2> QED BY <1>11, <2>1
<1> QED BY <1>19, <1>20

\* With a number of mines that the free cells may hold, any free cell may be safe
\* unless they are all mines, and a mine unless they are all safe.
LEMMA FreeShows ==
    ASSUME NEW v, NEW l, Shows(v, l), NEW f, Sound(v, l, f),
           NEW c \in FreeCells(v, f), NEW m \in FreeCounts(v, f)
    PROVE  /\ m # Cardinality(FreeCells(v, f)) => \E j : Shows(v, j) /\ c \notin j
           /\ m # 0 => \E j : Shows(v, j) /\ c \in j
<1>1. PICK comps : comps = Components(v, f)
  OBVIOUS
<1>2. PICK free : free = FreeCells(v, f)
  OBVIOUS
<1>3. /\ IsFiniteSet(comps) /\ Disjoint(comps)
      /\ Undecided(v, f) = (UNION comps) \cup free /\ (UNION comps) \cap free = {}
  BY <1>1, <1>2, ComponentsPart
<1>4. PICK n \in Totals(v, f, comps) : m = MinesLeft(v, f) - n
  BY <1>1 DEF FreeCounts
<1>5. PICK p : Placed(v, f, comps, p) /\ n = Cardinality(p)
  BY <1>3, <1>4, TotalsMean
<1>6. Undecided(v, f) \subseteq Cells /\ MinesLeft(v, f) \in Nat
  BY UndecidedAreCells, LeftIsNumber
<1>7. p \subseteq UNION comps /\ n \in Nat
  <2>1. p \subseteq UNION comps
    BY <1>5 DEF Placed
  <2>2. p \subseteq Cells
    BY <1>3, <1>6, <2>1
  <2> QED BY <1>5, <2>1, <2>2, CellSets
<1>8. IsFiniteSet(free) /\ c \in free
  BY <1>2, <1>3, <1>6, CellSets
<1>9. m \in 0 .. Cardinality(free)
  BY <1>2 DEF FreeCounts
<1>10. ASSUME NEW F \in SUBSET free, Cardinality(F) = m
       PROVE  \E j : Shows(v, j) /\ (c \in j <=> c \in F)
  <2>1. Placed(v, f, Components(v, f), p) /\ F \in SUBSET FreeCells(v, f)
    BY <1>1, <1>2, <1>5
  <2>2. Cardinality(p) + Cardinality(F) = MinesLeft(v, f)
    BY <1>4, <1>5, <1>6, <1>7, <1>10
  <2>3. Shows(v, f.mine \cup (p \cup F))
    BY <2>1, <2>2, PlacementShows
  <2>4. c \notin f.mine /\ c \notin p
    BY <1>3, <1>7, <1>8, LeftAreUndecided
  <2> QED BY <2>3, <2>4
<1>11. ASSUME m # Cardinality(free) PROVE \E j : Shows(v, j) /\ c \notin j
  <2>1. PICK F \in SUBSET free : Cardinality(F) = m /\ c \notin F
    BY <1>8, <1>9, <1>11, SubsetAvoiding
  <2> QED BY <1>10, <2>1
<1>12. ASSUME m # 0 PROVE \E j : Shows(v, j) /\ c \in j
  <2>1. PICK F \in SUBSET free : Cardinality(F) = m /\ c \in F
    BY <1>8, <1>9, <1>12, SubsetAvoiding
  <2> QED BY <1>10, <2>1
<1> QED BY <1>2, <1>11, <1>12

\* The cells of the refinement, when no group was too large: those of the estimate,
\* of the groups and of the free cells.
RefinedAre(v, f, g) ==
    /\ f.mine \subseteq g.mine /\ f.safe \subseteq g.safe
    /\ \A k \in Components(v, f) : \A c \in k :
          /\ (\A s \in Possible(v, f, {}, k) : c \in s) => c \in g.mine
          /\ (\A s \in Possible(v, f, {}, k) : c \notin s) => c \in g.safe
    /\ FreeCounts(v, f) = {Cardinality(FreeCells(v, f))} => FreeCells(v, f) \subseteq g.mine
    /\ FreeCounts(v, f) = {0} => FreeCells(v, f) \subseteq g.safe

\* The refinement has these cells.
LEMMA RefinedHolds ==
    ASSUME NEW v, NEW l, Shows(v, l), NEW f, Sound(v, l, f)
    PROVE  RefinedAre(v, f, RefineExactly(v, f, {}))
<1>1. PICK comps : comps = Components(v, f)
  OBVIOUS
<1>2. PICK free : free = FreeCells(v, f)
  OBVIOUS
<1> DEFINE FreeIf(n) == IF FreeCounts(v, f) = {n} THEN free ELSE {}
           Agreed(k, placements) ==
              [mine |-> {c \in k : \A s \in placements : c \in s},
               safe |-> {c \in k : \A s \in placements : c \notin s}]
           agreed == {Agreed(k, Possible(v, f, {}, k)) : k \in comps \ {}}
           m == FreeIf(Cardinality(free)) \cup UNION {a.mine : a \in agreed}
           n == FreeIf(0) \cup UNION {a.safe : a \in agreed}
<1>3. RefineExactly(v, f, {}) = With(Estimated(v, f), [mine |-> m, safe |-> n])
  BY <1>1, <1>2 DEF RefineExactly
<1>4. PICK e : e = Estimated(v, f)
  OBVIOUS
<1>5. PICK g : g = RefineExactly(v, f, {})
  OBVIOUS
<1>6. f.mine \subseteq e.mine /\ f.safe \subseteq e.safe
  BY <1>4 DEF Estimated, With, Sound, Shows
<1>7. e.mine \subseteq Cells /\ e.safe \subseteq Cells
  BY <1>4 DEF Estimated, With
<1>8. \A c \in Cells : (c \in e.mine \cup m => c \in g.mine) /\ (c \in e.safe \cup n => c \in g.safe)
  <2>1. PICK h : h = [mine |-> m, safe |-> n]
    OBVIOUS
  <2>2. h.mine = m /\ h.safe = n /\ g = With(e, h)
    BY <1>3, <1>4, <1>5, <2>1
  <2> HIDE DEF m, n
  <2> QED BY <2>2 DEF With
<1>9. f.mine \subseteq g.mine /\ f.safe \subseteq g.safe
  BY <1>6, <1>7, <1>8
<1>10. UNION comps \subseteq Cells /\ free \subseteq Cells
  BY <1>1, <1>2, ComponentsPart, UndecidedAreCells
<1>11. ASSUME NEW k \in comps, NEW c \in k
       PROVE  /\ (\A s \in Possible(v, f, {}, k) : c \in s) => c \in g.mine
              /\ (\A s \in Possible(v, f, {}, k) : c \notin s) => c \in g.safe
  <2>1. PICK a : a = Agreed(k, Possible(v, f, {}, k))
    OBVIOUS
  <2>2. /\ a.mine = {d \in k : \A s \in Possible(v, f, {}, k) : d \in s}
        /\ a.safe = {d \in k : \A s \in Possible(v, f, {}, k) : d \notin s}
    BY <2>1
  <2>3. a \in agreed /\ c \in Cells
    BY <1>10, <2>1
  <2> HIDE DEF agreed
  <2>4. (c \in a.mine => c \in m) /\ (c \in a.safe => c \in n)
    BY <2>3
  <2> QED BY <1>8, <2>2, <2>3, <2>4
<1>12. FreeCounts(v, f) = {Cardinality(free)} => free \subseteq g.mine
  BY <1>8, <1>10
<1>13. FreeCounts(v, f) = {0} => free \subseteq g.safe
  BY <1>8, <1>10
<1> QED BY <1>1, <1>2, <1>5, <1>9, <1>11, <1>12, <1>13 DEF RefinedAre

\* The hardest level misses nothing: a cell that is a mine, or safe, in every layout
\* that shows this board is taken for that.
LEMMA NothingMissed ==
    ASSUME NEW v, NEW l, Shows(v, l), NEW f, Sound(v, l, f), NEW c
    PROVE  /\ (\A j : Shows(v, j) => c \in j) => c \in RefineExactly(v, f, {}).mine
           /\ c \in v.hidden /\ (\A j : Shows(v, j) => c \notin j)
                 => c \in RefineExactly(v, f, {}).safe
<1>1. PICK g : g = RefineExactly(v, f, {})
  OBVIOUS
<1>2. RefinedAre(v, f, g)
  BY <1>1, RefinedHolds
<1>3. Undecided(v, f) = (UNION Components(v, f)) \cup FreeCells(v, f)
  BY ComponentsPart
<1>4. \E m : m \in FreeCounts(v, f)
  BY LayoutCounts
<1>5. ASSUME \A j : Shows(v, j) => c \in j PROVE c \in g.mine
  <2>1. CASE c \in f.mine
    BY <1>2, <2>1 DEF RefinedAre
  <2>2. CASE c \notin f.mine
    <3>1. c \in Undecided(v, f)
      <4>1. c \in l
        BY <1>5
      <4>2. l = f.mine \cup (l \cap Undecided(v, f))
        BY LeftAreUndecided
      <4> QED BY <2>2, <4>1, <4>2
    <3>2. ASSUME NEW k \in Components(v, f), c \in k PROVE c \in g.mine
      <4>1. \A s \in Possible(v, f, {}, k) : c \in s
        BY <1>5, <3>2, PossibleShows
      <4> QED BY <1>2, <3>2, <4>1 DEF RefinedAre
    <3>3. ASSUME c \in FreeCells(v, f) PROVE c \in g.mine
      <4>1. \A m \in FreeCounts(v, f) : m = Cardinality(FreeCells(v, f))
        BY <1>5, <3>3, FreeShows
      <4>2. FreeCounts(v, f) = {Cardinality(FreeCells(v, f))}
        BY <1>4, <4>1
      <4> QED BY <1>2, <3>3, <4>2 DEF RefinedAre
    <3> QED BY <1>3, <3>1, <3>2, <3>3
  <2> QED BY <2>1, <2>2
<1>6. ASSUME c \in v.hidden, \A j : Shows(v, j) => c \notin j PROVE c \in g.safe
  <2>1. CASE c \in f.safe
    BY <1>2, <2>1 DEF RefinedAre
  <2>2. CASE c \notin f.safe
    <3>1. c \in Undecided(v, f)
      BY <1>6, <2>2 DEF Undecided, Sound
    <3>2. ASSUME NEW k \in Components(v, f), c \in k PROVE c \in g.safe
      <4>1. \A s \in Possible(v, f, {}, k) : c \notin s
        BY <1>6, <3>2, PossibleShows
      <4> QED BY <1>2, <3>2, <4>1 DEF RefinedAre
    <3>3. ASSUME c \in FreeCells(v, f) PROVE c \in g.safe
      <4>1. \A m \in FreeCounts(v, f) : m = 0
        BY <1>6, <3>3, FreeShows
      <4>2. FreeCounts(v, f) = {0}
        BY <1>4, <4>1
      <4> QED BY <1>2, <3>3, <4>2 DEF RefinedAre
    <3> QED BY <1>3, <3>1, <3>2, <3>3
  <2> QED BY <2>1, <2>2
<1> QED BY <1>1, <1>5, <1>6
=============================================================================
