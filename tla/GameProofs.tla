----------------------------- MODULE GameProofs -----------------------------
(***************************************************************************)
(* Match and Solo.  The rules of the match keep its invariants on every    *)
(* board with an odd number of mines, whatever its size, its layouts and   *)
(* the bomb's radius; a session of solo play neither loses progress unsaid *)
(* nor waits for a bot that is not coming, and the bot concludes nothing   *)
(* wrong and, at the hardest level and within its budget, misses nothing.  *)
(*                                                                         *)
(* BoardOK is the part an action changes first: the board and the scores   *)
(* that go with it.  What Finalize then decides is right for every state   *)
(* that satisfies BoardOK (lemma BoardFacts), so each action only has to   *)
(* be shown to keep BoardOK.                                               *)
(***************************************************************************)
EXTENDS Solo, BoardProofs

\* The board and the scores have their types and agree with each other.
BoardOK ==
    /\ mines \in Layouts
    /\ revealed \subseteq Cells
    /\ claimedBy \in [Cells -> Players \cup {NoPlayer}]
    /\ score \in [Players -> Nat]
    /\ ScoresMatchClaims
    /\ MinesOnlyClaimed

Majority(p) == 2 * score[p] > MineCount

\* What the scores say of the outcome.
OutcomeFacts ==
    /\ \A p \in Players : score[p] \in 0 .. MineCount
    /\ IsFinished => /\ FoundWinner \in Players
                     /\ Majority(FoundWinner)
                     /\ ~Majority(Opponent(FoundWinner))
    /\ ~IsFinished => /\ FoundWinner = NoPlayer
                      /\ mines \ Resolved # {}
                      /\ \A p \in Players : ~Majority(p)

Inv == TypeOK /\ ScoresMatchClaims /\ MinesOnlyClaimed /\ OutcomeSound
           /\ VotesAreForTheNextMatch
-----------------------------------------------------------------------------
\* A board has a mine, as the number of mines is odd.
LEMMA LayoutHasMine == ASSUME NEW layout \in Layouts PROVE layout # {}
  <1>1. Cardinality(layout) # 0
    BY MatchAssumption
  <1> QED
    BY <1>1, FS_EmptySet

\* A reveal opens hidden cells only, and the cell it starts from.
LEMMA RevealOpensHidden ==
    ASSUME NEW layout, NEW done, NEW c \in Hidden(layout, done)
    PROVE  /\ RevealConnectedSafeCells(layout, done, c) \subseteq Hidden(layout, done)
           /\ c \in RevealConnectedSafeCells(layout, done, c)
  BY DEF RevealConnectedSafeCells

\* Moving the span inwards at an edge keeps it on the axis, at its full length
\* where the axis has room, and over the position.
LEMMA BombAxisOnBoard ==
    ASSUME NEW axisLength \in Nat \ {0}, NEW position \in 0 .. axisLength - 1
    PROVE  /\ BombAxisBounds(axisLength, position) \subseteq 0 .. axisLength - 1
           /\ position \in BombAxisBounds(axisLength, position)
  BY BoardAssumption DEF BombAxisBounds

\* A bomb stays on the board and covers the cell it is thrown at.
LEMMA BombWithinBoard ==
    ASSUME NEW c \in Cells
    PROVE  BombCoordinates(c) \subseteq Cells /\ c \in BombCoordinates(c)
  <1>1. c[1] \in 0 .. Rows - 1 /\ c[2] \in 0 .. Columns - 1 /\ c = <<c[1], c[2]>>
    BY DEF Cells, RowIndices, ColumnIndices
  <1>2. /\ BombAxisBounds(Rows, c[1]) \subseteq 0 .. Rows - 1
        /\ c[1] \in BombAxisBounds(Rows, c[1])
        /\ BombAxisBounds(Columns, c[2]) \subseteq 0 .. Columns - 1
        /\ c[2] \in BombAxisBounds(Columns, c[2])
    BY <1>1, BombAxisOnBoard, BoardAssumption
  <1> QED
    BY <1>1, <1>2 DEF BombCoordinates, Cells, RowIndices, ColumnIndices

\* Two players' claims add up to the mines claimed, which are at most all.
LEMMA ClaimsAddUp ==
    ASSUME BoardOK
    PROVE  /\ score[Host] \in Nat /\ score[Guest] \in Nat
           /\ Cardinality(ClaimedMines) = score[Host] + score[Guest]
           /\ score[Host] + score[Guest] <= MineCount
           /\ AllClaimed <=> mines \subseteq Resolved
  <1> USE MatchAssumption DEF BoardOK
  <1>1. IsFiniteSet(mines) /\ mines \subseteq Cells /\ Cardinality(mines) = MineCount
    BY CellsFinite, FS_Subset
  <1>2. /\ ClaimedMines = Claimed(Host) \cup Claimed(Guest)
        /\ Claimed(Host) \cap Claimed(Guest) = {}
        /\ Claimed(Host) \subseteq mines /\ Claimed(Guest) \subseteq mines
    BY <1>1 DEF ClaimedMines, Claimed, MinesOnlyClaimed, Players
  <1>3. IsFiniteSet(Claimed(Host)) /\ IsFiniteSet(Claimed(Guest))
    BY <1>1, <1>2, FS_Subset
  <1>4. score[Host] = Cardinality(Claimed(Host)) /\ score[Guest] = Cardinality(Claimed(Guest))
    BY DEF ScoresMatchClaims, Players
  <1>5. Cardinality(Claimed(Host) \cap Claimed(Guest)) = 0
    BY <1>2, FS_EmptySet
  <1>6. score[Host] \in Nat /\ score[Guest] \in Nat
    BY DEF Players
  <1>7. Cardinality(ClaimedMines) = score[Host] + score[Guest]
    <2>1. Cardinality(Claimed(Host) \cup Claimed(Guest)) =
            Cardinality(Claimed(Host)) + Cardinality(Claimed(Guest))
              - Cardinality(Claimed(Host) \cap Claimed(Guest))
      BY <1>3, FS_Union
    <2> HIDE DEF BoardOK
    <2> QED
      BY <2>1, <1>2, <1>4, <1>5, <1>6
  <1>8. /\ ClaimedMines \subseteq mines
        /\ Cardinality(ClaimedMines) <= MineCount
        /\ Cardinality(ClaimedMines) = MineCount => ClaimedMines = mines
    <2>1. ClaimedMines \in SUBSET mines
      BY DEF ClaimedMines
    <2> QED
      BY <1>1, <2>1, FS_Subset
  <1>9. ClaimedMines = mines <=> mines \subseteq Resolved
    BY <1>1 DEF ClaimedMines, Resolved, MinesOnlyClaimed
  <1> QED
    BY <1>1, <1>6, <1>7, <1>8, <1>9 DEF AllClaimed

\* An odd number of mines cannot be shared evenly: the player with the strict
\* majority is the one findWinnerPlayerId names, and a full board has one.
LEMMA BoardFacts == BoardOK => OutcomeFacts
  <1> SUFFICES ASSUME BoardOK PROVE OutcomeFacts
    OBVIOUS
  <1> USE MatchAssumption
  <1> DEFINE h == score[Host]
             g == score[Guest]
  <1>1. h \in Nat /\ g \in Nat /\ h + g <= MineCount
    BY ClaimsAddUp
  <1>2. WinningScore \in Nat /\ MineCount = 2 * WinningScore - 1
    BY DEF WinningScore
  <1>3. /\ HasMajority(Host) <=> h >= WinningScore
        /\ HasMajority(Guest) <=> g >= WinningScore
    BY DEF HasMajority
  <1>4. /\ Majority(Host) <=> h >= WinningScore
        /\ Majority(Guest) <=> g >= WinningScore
    BY <1>1, <1>2 DEF Majority
  <1>5. AllClaimed <=> h + g = MineCount
    BY ClaimsAddUp DEF AllClaimed
  <1>6. IsFinished <=> h >= WinningScore \/ g >= WinningScore
    BY <1>1, <1>2, <1>3, <1>5 DEF IsFinished, Players
  <1>7. Opponent(Host) = Guest /\ Opponent(Guest) = Host
    BY DEF Opponent
  <1>8. CASE h >= WinningScore
    <2>1. FoundWinner = Host /\ ~(g >= WinningScore)
      BY <1>1, <1>2, <1>3, <1>8 DEF FoundWinner
    <2> QED
      BY <1>1, <1>2, <1>4, <1>6, <1>7, <1>8, <2>1 DEF OutcomeFacts, Players
  <1>9. CASE ~(h >= WinningScore) /\ g >= WinningScore
    <2>1. FoundWinner = Guest
      BY <1>3, <1>9 DEF FoundWinner
    <2> QED
      BY <1>1, <1>2, <1>4, <1>6, <1>7, <1>9, <2>1 DEF OutcomeFacts, Players
  <1>10. CASE ~(h >= WinningScore) /\ ~(g >= WinningScore)
    <2>1. ~IsFinished /\ ~AllClaimed
      BY <1>6, <1>10 DEF IsFinished
    <2>2. FoundWinner = NoPlayer
      BY <1>3, <1>10, <2>1 DEF FoundWinner
    <2>3. mines \ Resolved # {}
      BY <2>1, ClaimsAddUp
    <2> QED
      BY <1>1, <1>2, <1>4, <1>10, <2>1, <2>2, <2>3 DEF OutcomeFacts, Players
  <1> QED
    BY <1>8, <1>9, <1>10
-----------------------------------------------------------------------------
\* The first state of a match.
LEMMA InitInv == Init => Inv
  <1> SUFFICES ASSUME Init PROVE Inv
    OBVIOUS
  <1> USE MatchAssumption DEF Init
  <1>1. TypeOK
    BY DEF TypeOK, NoVotes, Players
  <1>2. ScoresMatchClaims
    BY FS_EmptySet DEF ScoresMatchClaims, Claimed, Players
  <1>3. MinesOnlyClaimed
    BY DEF MinesOnlyClaimed
  <1>4. BoardOK
    BY <1>1, <1>2, <1>3 DEF BoardOK, TypeOK
  <1>5. Resolved = {} /\ mines # {}
    BY LayoutHasMine DEF Resolved
  <1>6. \A p \in Players : ~Majority(p)
    BY DEF Majority
  <1>7. OutcomeSound
    BY <1>5, <1>6 DEF OutcomeSound, Majority, Players
  <1>8. VotesAreForTheNextMatch
    BY DEF VotesAreForTheNextMatch, NoVotes, Players
  <1> QED
    BY <1>1, <1>2, <1>3, <1>7, <1>8 DEF Inv

\* So is the first state of a rematch.
LEMMA StartMatchInv ==
    ASSUME NEW first \in Players, StartMatch(first), nextStarter' \in Players
    PROVE  Inv'
  <1> USE MatchAssumption DEF StartMatch
  <1>1. TypeOK'
    BY DEF TypeOK, NoVotes, Players
  <1>2. ScoresMatchClaims'
    BY FS_EmptySet DEF ScoresMatchClaims, Claimed, Players
  <1>3. MinesOnlyClaimed'
    BY DEF MinesOnlyClaimed
  <1>4. Resolved' = {} /\ mines' # {}
    BY LayoutHasMine DEF Resolved
  <1>5. OutcomeSound'
    BY <1>4 DEF OutcomeSound, Players
  <1>6. VotesAreForTheNextMatch'
    BY DEF VotesAreForTheNextMatch, NoVotes, Players
  <1> QED
    BY <1>1, <1>2, <1>3, <1>5, <1>6 DEF Inv

\* Whatever an action did to the board and the scores, Finalize decides the
\* outcome that goes with them.
LEMMA FinalizeInv ==
    ASSUME Inv, BoardOK', NEW q \in Players, Finalize(q),
           bombsRemaining' \in [Players -> 0 .. 1]
    PROVE  Inv'
  <1> USE MatchAssumption
  <1>1. OutcomeFacts'
    BY BoardFacts, PTL
  <1>2. TypeOK'
    <2>1. score' \in [Players -> 0 .. MineCount]
      BY <1>1 DEF OutcomeFacts, BoardOK
    <2>2. winner' \in Players \cup {NoPlayer}
      BY <1>1 DEF OutcomeFacts, Finalize
    <2>3. turnNumber' \in Nat /\ nextStarter' \in Players
      BY DEF Inv, TypeOK, Finalize
    <2> QED
      BY <2>1, <2>2, <2>3 DEF TypeOK, BoardOK, Finalize, NoVotes
  <1>3. OutcomeSound'
    <2>1. CASE IsFinished'
      <3>1. winner' \in Players /\ Majority(winner)' /\ ~Majority(Opponent(winner))'
        BY <1>1, <2>1 DEF OutcomeFacts, Finalize, Majority, Opponent
      <3>2. phase' = "finished" /\ currentTurn' = NoPlayer
        BY <2>1 DEF Finalize
      <3> QED
        BY <3>1, <3>2 DEF OutcomeSound, Majority, Opponent
    <2>2. CASE ~IsFinished'
      <3>1. winner' = NoPlayer /\ (mines \ Resolved # {})'
            /\ \A p \in Players : ~Majority(p)'
        BY <1>1, <2>2 DEF OutcomeFacts, Finalize
      <3>2. phase' = "live" /\ currentTurn' = q
        BY <2>2 DEF Finalize
      <3> QED
        BY <3>1, <3>2 DEF OutcomeSound, Majority
    <2> QED
      BY <2>1, <2>2
  <1>4. VotesAreForTheNextMatch'
    BY DEF VotesAreForTheNextMatch, Finalize, NoVotes, Players
  <1> QED
    BY <1>2, <1>3, <1>4 DEF Inv, BoardOK

\* Claiming a set of unresolved mines at once, as a select or as a bomb.
LEMMA ClaimingKeepsBoard ==
    ASSUME BoardOK, NEW p \in Players, NEW cells \in SUBSET (mines \ Resolved),
           mines' = mines,
           revealed' \subseteq Cells, revealed' \cap mines = {},
           claimedBy' = [c \in Cells |-> IF c \in cells THEN p ELSE claimedBy[c]],
           score' = [score EXCEPT ![p] = @ + Cardinality(cells)]
    PROVE  BoardOK'
  <1> USE MatchAssumption DEF BoardOK
  <1>1. IsFiniteSet(cells) /\ IsFiniteSet(Claimed(p)) /\ mines \subseteq Cells
    BY CellsFinite, FS_Subset DEF Claimed
  <1>2. /\ Claimed(p)' = Claimed(p) \cup cells
        /\ Claimed(p) \cap cells = {}
    BY <1>1 DEF Claimed, Resolved
  <1>3. \A q \in Players \ {p} : Claimed(q)' = Claimed(q)
    BY <1>1 DEF Claimed, Resolved, Players
  <1>4. Cardinality(Claimed(p)') = Cardinality(Claimed(p)) + Cardinality(cells)
    <2>1. Cardinality(Claimed(p) \cup cells) =
            Cardinality(Claimed(p)) + Cardinality(cells) - Cardinality(Claimed(p) \cap cells)
      BY <1>1, FS_Union
    <2>2. Cardinality(Claimed(p) \cap cells) = 0
      BY <1>2, FS_EmptySet
    <2>3. Cardinality(Claimed(p)) \in Nat /\ Cardinality(cells) \in Nat
      BY <1>1, FS_CardinalityType
    <2> HIDE DEF BoardOK
    <2> QED
      BY <1>2, <2>1, <2>2, <2>3
  <1>5. ScoresMatchClaims'
    <2>1. \A q \in Players : score[q] = Cardinality(Claimed(q))
      BY DEF ScoresMatchClaims
    <2>2. score'[p] = Cardinality(Claimed(p)')
      BY <1>4, <2>1
    <2>3. ASSUME NEW q \in Players \ {p} PROVE score'[q] = Cardinality(Claimed(q)')
      BY <1>3, <2>1
    <2> QED
      BY <2>2, <2>3 DEF ScoresMatchClaims
  <1>6. MinesOnlyClaimed'
    BY DEF MinesOnlyClaimed
  <1>7. score' \in [Players -> Nat] /\ claimedBy' \in [Cells -> Players \cup {NoPlayer}]
    <2>1. Cardinality(cells) \in Nat
      BY <1>1, FS_CardinalityType
    <2> QED
      BY <2>1
  <1> QED
    BY <1>5, <1>6, <1>7
-----------------------------------------------------------------------------
\* The invariant gives what the actions need of the board.
LEMMA InvBoard == Inv => BoardOK
  BY DEF Inv, BoardOK, TypeOK, Players

\* A select that hits a mine.
LEMMA ClaimMineInv ==
    ASSUME Inv, NEW p \in Players, NEW c, ClaimMine(p, c) PROVE Inv'
  <1> USE DEF ClaimMine
  <1>1. BoardOK /\ {c} \in SUBSET (mines \ Resolved) /\ c \in Cells
    BY InvBoard DEF MayPlay
  <1>2. Cardinality({c}) = 1
    BY FS_Singleton
  <1>3. BoardOK'
    <2>1. claimedBy' = [d \in Cells |-> IF d \in {c} THEN p ELSE claimedBy[d]]
      BY <1>1 DEF BoardOK
    <2>2. score' = [score EXCEPT ![p] = @ + Cardinality({c})]
      BY <1>2
    <2>3. revealed' \subseteq Cells /\ revealed' \cap mines = {}
      BY <1>1 DEF BoardOK, MinesOnlyClaimed
    <2> QED
      BY <1>1, <2>1, <2>2, <2>3, ClaimingKeepsBoard
  <1>4. bombsRemaining' \in [Players -> 0 .. 1]
    BY DEF Inv, TypeOK
  <1> QED
    BY <1>3, <1>4, FinalizeInv

\* A select that opens safe cells.
LEMMA RevealSafeInv ==
    ASSUME Inv, NEW p \in Players, NEW c, RevealSafe(p, c) PROVE Inv'
  <1> USE DEF RevealSafe
  <1>1. BoardOK /\ c \in Hidden(mines, Resolved)
    BY InvBoard DEF MayPlay, Hidden
  <1>2. revealed' \subseteq Cells /\ revealed' \cap mines = {}
    BY <1>1, RevealOpensHidden DEF BoardOK, MinesOnlyClaimed, Hidden
  <1>3. BoardOK'
    BY <1>1, <1>2 DEF BoardOK, ScoresMatchClaims, Claimed, MinesOnlyClaimed
  <1>4. bombsRemaining' \in [Players -> 0 .. 1] /\ Opponent(p) \in Players
    BY DEF Inv, TypeOK, Opponent, Players
  <1> QED
    BY <1>3, <1>4, FinalizeInv

\* A bomb.
LEMMA BombInv ==
    ASSUME Inv, NEW p \in Players, NEW c, Bomb(p, c) PROVE Inv'
  <1> USE DEF Bomb
  <1> DEFINE claims == BombClaims(mines, Resolved, c)
             reveals == BombReveals(mines, Resolved, c)
  <1>1. BoardOK /\ mines \subseteq Cells
    BY InvBoard, MatchAssumption DEF BoardOK
  <1>2. claims \in SUBSET (mines \ Resolved)
    BY DEF BombClaims
  <1>3. reveals \subseteq Cells /\ reveals \cap mines = {}
    BY BombWithinBoard DEF BombReveals, MayPlay
  <1>4. BoardOK'
    <2>1. revealed' \subseteq Cells /\ revealed' \cap mines = {}
      BY <1>1, <1>3 DEF BoardOK, MinesOnlyClaimed
    <2> QED
      BY <1>1, <1>2, <2>1, ClaimingKeepsBoard
  <1>5. bombsRemaining' \in [Players -> 0 .. 1] /\ Opponent(p) \in Players
    BY DEF Inv, TypeOK, Opponent, Players
  <1> QED
    BY <1>4, <1>5, FinalizeInv

\* A resignation leaves the board as it is and names the opponent.
LEMMA ResignInv ==
    ASSUME Inv, NEW p \in Players, Resign(p) PROVE Inv'
  <1> USE MatchAssumption DEF Resign, boardVars
  <1>1. TypeOK' /\ ScoresMatchClaims' /\ MinesOnlyClaimed'
    BY DEF Inv, TypeOK, ScoresMatchClaims, MinesOnlyClaimed, Claimed, NoVotes, Opponent, Players
  <1>2. OutcomeSound'
    BY DEF Inv, OutcomeSound, Resolved, Opponent, Players
  <1>3. VotesAreForTheNextMatch'
    BY DEF VotesAreForTheNextMatch, NoVotes, Players
  <1> QED
    BY <1>1, <1>2, <1>3 DEF Inv

\* A vote that is not the second one, or is withdrawn, changes nothing else.
LEMMA VoteInv ==
    ASSUME Inv, phase = "finished", rematchRequested' \in [Players -> BOOLEAN],
           \E q \in Players : ~rematchRequested'[q],
           UNCHANGED <<boardVars, score, bombsRemaining, outcomeVars, nextStarter>>
    PROVE  Inv'
  <1> USE DEF boardVars, outcomeVars
  <1>1. TypeOK' /\ ScoresMatchClaims' /\ MinesOnlyClaimed'
    BY DEF Inv, TypeOK, ScoresMatchClaims, MinesOnlyClaimed, Claimed
  <1>2. OutcomeSound'
    BY DEF Inv, OutcomeSound, Resolved
  <1>3. VotesAreForTheNextMatch'
    BY DEF VotesAreForTheNextMatch
  <1> QED
    BY <1>1, <1>2, <1>3 DEF Inv

\* A rematch vote.
LEMMA RequestRematchInv ==
    ASSUME Inv, NEW p \in Players, RequestRematch(p) PROVE Inv'
  <1> DEFINE votes == [rematchRequested EXCEPT ![p] = TRUE]
  <1>1. votes \in [Players -> BOOLEAN]
    BY DEF Inv, TypeOK
  <1>2. CASE \E q \in Players : ~votes[q]
    BY <1>1, <1>2, VoteInv DEF RequestRematch
  <1>3. CASE \A q \in Players : votes[q]
    <2>1. nextStarter' = Opponent(nextStarter) /\ StartMatch(nextStarter')
      BY <1>3 DEF RequestRematch
    <2>2. nextStarter' \in Players
      BY <2>1 DEF Opponent, Players
    <2> QED
      BY <2>1, <2>2, StartMatchInv
  <1> QED
    BY <1>2, <1>3

\* A vote withdrawn.
LEMMA CancelRematchInv ==
    ASSUME Inv, NEW p \in Players, CancelRematch(p) PROVE Inv'
  <1>1. rematchRequested' \in [Players -> BOOLEAN] /\ ~rematchRequested'[p]
    BY DEF Inv, TypeOK, CancelRematch
  <1> QED
    BY <1>1, VoteInv DEF CancelRematch
-----------------------------------------------------------------------------
\* The invariant is inductive.
LEMMA NextInv == Inv /\ [Next]_vars => Inv'
  <1> SUFFICES ASSUME Inv, [Next]_vars PROVE Inv'
    OBVIOUS
  <1>1. CASE UNCHANGED vars
    BY <1>1 DEF vars, boardVars, playerVars, outcomeVars, Inv, TypeOK, ScoresMatchClaims,
                MinesOnlyClaimed, OutcomeSound, VotesAreForTheNextMatch, Claimed, Resolved
  <1>2. CASE Next
    BY <1>2, ClaimMineInv, RevealSafeInv, BombInv, ResignInv, RequestRematchInv,
       CancelRematchInv DEF Next
  <1> QED
    BY <1>1, <1>2

\* So it holds in every state.
LEMMA InvHolds == Spec => []Inv
  BY InitInv, NextInv, PTL DEF Spec

\* Type correctness of the match record.
THEOREM MatchTypeCorrect == Spec => []TypeOK
  <1>1. Inv => TypeOK
    BY DEF Inv
  <1> QED
    BY <1>1, InvHolds, PTL

\* Score conservation: the scores the players see are the mines they claimed.
THEOREM ScoresAreClaims == Spec => []ScoresMatchClaims
  <1>1. Inv => ScoresMatchClaims
    BY DEF Inv
  <1> QED
    BY <1>1, InvHolds, PTL

\* No mine is ever opened and nothing but a mine is claimed, by a bomb, a flood or
\* a select.
THEOREM MinesAreClaimed == Spec => []MinesOnlyClaimed
  <1>1. Inv => MinesOnlyClaimed
    BY DEF Inv
  <1> QED
    BY <1>1, InvHolds, PTL

\* A match is decided exactly when it is finished: with an odd number of mines
\* it cannot end level, and it cannot go on once it is decided.
THEOREM OutcomeIsSound == Spec => []OutcomeSound
  <1>1. Inv => OutcomeSound
    BY DEF Inv
  <1> QED
    BY <1>1, InvHolds, PTL

\* Votes wait for the second player in a finished match only.
THEOREM VotesWait == Spec => []VotesAreForTheNextMatch
  <1>1. Inv => VotesAreForTheNextMatch
    BY DEF Inv
  <1> QED
    BY <1>1, InvHolds, PTL
-----------------------------------------------------------------------------
\* An action on a cell resolves that cell and undoes nothing.
LEMMA PlayResolves ==
    ASSUME Inv, NEW p \in Players, NEW c,
           ClaimMine(p, c) \/ RevealSafe(p, c) \/ Bomb(p, c)
    PROVE  TurnResolves
  <1>1. BoardOK /\ c \in Cells /\ c \notin Resolved
    BY InvBoard DEF ClaimMine, RevealSafe, Bomb, MayPlay
  <1>2. CASE ClaimMine(p, c)
    <2>1. p # NoPlayer /\ UNCHANGED <<mines, revealed>>
      BY <1>2, MatchAssumption DEF ClaimMine
    <2>2. claimedBy' = [claimedBy EXCEPT ![c] = p] /\ claimedBy[c] = NoPlayer
      BY <1>1, <1>2 DEF ClaimMine, Resolved
    <2> QED
      BY <1>1, <2>1, <2>2 DEF TurnResolves, Resolved, BoardOK
  <1>3. CASE RevealSafe(p, c)
    <2>1. c \in revealed'
      BY <1>1, <1>3, RevealOpensHidden DEF RevealSafe, Hidden
    <2> QED
      BY <1>1, <1>3, <2>1 DEF RevealSafe, TurnResolves, Resolved
  <1>4. CASE Bomb(p, c)
    <2>1. c \in BombClaims(mines, Resolved, c) \/ c \in BombReveals(mines, Resolved, c)
      BY <1>1, BombWithinBoard DEF BombClaims, BombReveals
    <2>2. p # NoPlayer /\ mines' = mines
      BY <1>4, MatchAssumption DEF Bomb
    <2>3. \A d \in Cells : claimedBy[d] # NoPlayer => claimedBy'[d] = claimedBy[d]
      BY <1>4 DEF Bomb, BombClaims, Resolved
    <2>4. Resolved \subseteq Resolved'
      BY <1>4, <2>3 DEF Bomb, Resolved
    <2>5. c \in Resolved'
      BY <1>1, <1>4, <2>1, <2>2 DEF Bomb, Resolved
    <2> QED
      BY <1>1, <2>2, <2>3, <2>4, <2>5 DEF TurnResolves
  <1> QED
    BY <1>2, <1>3, <1>4

\* Every counted turn resolves a cell, so that a match ends within as many
\* turns as the board has cells.
THEOREM TurnsResolve == Spec => EveryTurnResolves
  <1>1. ASSUME Inv, [Next]_vars PROVE [TurnResolves]_vars
    <2>1. CASE \E p \in Players, c \in Coordinates :
                  ClaimMine(p, c) \/ RevealSafe(p, c) \/ Bomb(p, c)
      BY <1>1, <2>1, PlayResolves
    <2>2. ASSUME NEW p \in Players, Resign(p) \/ CancelRematch(p)
          PROVE  TurnResolves
      <3>1. UNCHANGED <<mines, revealed, claimedBy>> /\ turnNumber' = turnNumber
        BY <2>2 DEF Resign, CancelRematch, boardVars, outcomeVars
      <3> QED
        BY <3>1 DEF TurnResolves, Resolved
    <2>3. ASSUME NEW p \in Players, RequestRematch(p)
          PROVE  TurnResolves
      <3>1. CASE UNCHANGED <<boardVars, score, bombsRemaining, outcomeVars, nextStarter>>
        BY <3>1 DEF TurnResolves, Resolved, boardVars, outcomeVars
      <3>2. CASE \E q \in Players : StartMatch(q)
        BY <2>3, <3>2 DEF RequestRematch, StartMatch, TurnResolves, NewMatch
      <3>3. nextStarter' = Opponent(nextStarter) => nextStarter' \in Players
        BY DEF Opponent, Players
      <3> QED
        BY <2>3, <3>1, <3>2, <3>3 DEF RequestRematch
    <2> QED
      BY <1>1, <2>1, <2>2, <2>3 DEF Next
  <1> QED
    BY <1>1, InvHolds, PTL DEF Spec, EveryTurnResolves

\* A match's large gains are bombs thrown from behind by the player to move.
THEOREM BombsCatchUp == Spec => BombIsACatchUp
  <1>1. BombDeficit \in Nat /\ BombDeficit >= 1
    BY MatchAssumption DEF BombDeficit
  <1>2. ASSUME Inv, [Next]_vars PROVE [CatchUp]_vars
    <2>1. score \in [Players -> Nat] /\ bombsRemaining \in [Players -> 0 .. 1]
      BY <1>2, InvBoard DEF BoardOK, Inv, TypeOK
    <2>2. ASSUME NEW p \in Players, NEW c, ClaimMine(p, c) PROVE CatchUp
      BY <2>1, <2>2 DEF ClaimMine, MayPlay, CatchUp
    <2>3. ASSUME NEW p \in Players, NEW c, RevealSafe(p, c) PROVE CatchUp
      BY <2>1, <2>3 DEF RevealSafe, CatchUp
    <2>4. ASSUME NEW p \in Players, NEW c, Bomb(p, c) PROVE CatchUp
      <3>1. Opponent(p) \in Players
        BY DEF Opponent, Players
      <3>2. score[p] < score[Opponent(p)]
        BY <1>1, <2>1, <2>4, <3>1 DEF Bomb, TrailsByDeficit
      <3>3. currentTurn = p /\ bombsRemaining[p] = 1 /\ bombsRemaining'[p] = 0
        BY <2>1, <2>4 DEF Bomb, MayPlay
      <3>4. \A q \in Players : q # p => score'[q] = score[q]
        BY <2>1, <2>4 DEF Bomb
      <3> QED
        BY <2>1, <3>2, <3>3, <3>4 DEF CatchUp
    <2>5. ASSUME NEW p \in Players, Resign(p) \/ RequestRematch(p) \/ CancelRematch(p)
          PROVE  CatchUp
      BY <2>1, <2>5 DEF Resign, RequestRematch, CancelRematch, StartMatch, CatchUp
    <2> QED
      BY <1>2, <2>2, <2>3, <2>4, <2>5 DEF Next
  <1> QED
    BY <1>2, InvHolds, PTL DEF Spec, BombIsACatchUp
-----------------------------------------------------------------------------
\* A reveal leaves no hole: with a cell whose clue is 0 its hidden neighbours are
\* opened, and those that are not hidden are open, as only mines are claimed.
LEMMA RevealLeavesNoHole ==
    ASSUME Inv, FloodLeavesNoHole, NEW p \in Players, NEW c, RevealSafe(p, c)
    PROVE  FloodLeavesNoHole'
<1>1. PICK hidden : hidden = Hidden(mines, Resolved)
  OBVIOUS
<1>2. PICK R : R = RevealConnectedSafeCells(mines, Resolved, c)
  OBVIOUS
<1>3. BoardOK /\ mines \subseteq Cells /\ c \in hidden /\ hidden \subseteq Cells
  BY <1>1, InvBoard, MatchAssumption DEF BoardOK, RevealSafe, MayPlay, Hidden
<1>4. R \subseteq hidden /\ Closed(mines, hidden, R)
  BY <1>1, <1>2, <1>3, RevealIsLeast
<1>5. revealed' = revealed \cup R /\ mines' = mines /\ bombsRemaining' = bombsRemaining
  BY <1>2 DEF RevealSafe
<1>6. ASSUME NEW d \in R, Spreads(mines, d) PROVE Adjacent[d] \subseteq revealed \cup R
  <2>1. Adjacent[d] \subseteq Cells /\ Adjacent[d] \cap mines = {}
    <3>1. Adjacent[d] \subseteq Cells
      BY <1>3, <1>4 DEF Adjacent
    <3>2. IsFiniteSet(Adjacent[d] \cap mines)
      BY <3>1, CellsFinite, FS_Subset
    <3> QED BY <1>6, <3>1, <3>2, FS_EmptySet DEF Spreads, AdjacentMines
  <2>2. Adjacent[d] \cap hidden \subseteq R
    BY <1>4, <1>6 DEF Closed
  <2>3. ASSUME NEW e \in Adjacent[d], e \notin hidden PROVE e \in revealed
    <3>1. e \in Cells /\ e \notin mines /\ e \in Resolved
      BY <1>1, <2>1, <2>3 DEF Hidden
    <3> QED BY <1>3, <3>1 DEF Resolved, BoardOK, MinesOnlyClaimed
  <2> QED BY <2>2, <2>3
<1> QED BY <1>5, <1>6 DEF FloodLeavesNoHole

\* As long as nobody used a bomb, no open cell whose clue is 0 has a neighbour that
\* is not open.
THEOREM NoHoleIsLeft == Spec => []FloodLeavesNoHole
<1>1. Init => FloodLeavesNoHole
  BY DEF Init, FloodLeavesNoHole
<1>2. Inv /\ FloodLeavesNoHole /\ [Next]_vars => FloodLeavesNoHole'
  <2> SUFFICES ASSUME Inv, FloodLeavesNoHole, [Next]_vars PROVE FloodLeavesNoHole'
    OBVIOUS
  <2>1. ASSUME UNCHANGED <<mines, revealed, bombsRemaining>> PROVE FloodLeavesNoHole'
    BY <2>1 DEF FloodLeavesNoHole
  <2>2. ASSUME NEW p \in Players, NEW c, Bomb(p, c) PROVE FloodLeavesNoHole'
    <3>1. bombsRemaining'[p] = 0
      BY <2>2 DEF Bomb, Inv, TypeOK
    <3> QED BY <3>1 DEF FloodLeavesNoHole
  <2>3. ASSUME NEW p \in Players, RequestRematch(p) PROVE FloodLeavesNoHole'
    <3>1. CASE UNCHANGED boardVars /\ UNCHANGED bombsRemaining
      BY <2>1, <3>1 DEF boardVars
    <3>2. CASE revealed' = {}
      BY <3>2 DEF FloodLeavesNoHole
    <3> QED BY <2>3, <3>1, <3>2 DEF RequestRematch, StartMatch
  <2>4. CASE UNCHANGED vars
    BY <2>1, <2>4 DEF vars, boardVars, playerVars
  <2>5. ASSUME NEW p \in Players, Resign(p) \/ CancelRematch(p) PROVE FloodLeavesNoHole'
    BY <2>1, <2>5 DEF Resign, CancelRematch, boardVars
  <2>6. ASSUME NEW p \in Players, NEW c, ClaimMine(p, c) PROVE FloodLeavesNoHole'
    BY <2>1, <2>6 DEF ClaimMine
  <2> QED BY <2>2, <2>3, <2>4, <2>5, <2>6, RevealLeavesNoHole DEF Next
<1> QED BY <1>1, <1>2, InvHolds, PTL DEF Spec
-----------------------------------------------------------------------------
(***************************************************************************)
(* Solo play.                                                              *)
(***************************************************************************)

\* A match, as a record replays to it.
IsRecord(m) ==
    m = [mines |-> m.mines, revealed |-> m.revealed, claimedBy |-> m.claimedBy,
         score |-> m.score, bombsRemaining |-> m.bombsRemaining, phase |-> m.phase,
         currentTurn |-> m.currentTurn, winner |-> m.winner, turnNumber |-> m.turnNumber,
         starter |-> m.starter, difficulty |-> m.difficulty]

\* What is stored is a match as a whole; what the page keeps is stored too, or
\* the page remembers that the player was told.
StoredOK ==
    /\ IsMatch(saved) => saved = Stored(saved.match) /\ IsRecord(saved.match)
    /\ IsMatch(current) =>
          IsRecord(current.match) /\ (saved = Stored(current.match) \/ current.told)

ProgressInv == StoredOK /\ ProgressIsSafe

\* Saving what is shown, with or without luck, keeps it safe.
LEMMA PersistSafe ==
    ASSUME StoredOK, NEW notice, NEW left, left = saved \/ left = Nothing, Persist(notice, left)
    PROVE  ProgressInv'
<1>1. PICK ok \in BOOLEAN : /\ saved' = IF ok THEN Stored(Shown') ELSE left
                            /\ current' = Held(Shown', ~ok)
                            /\ told' = (notice \/ ~ok)
  BY DEF Persist, Writes
<1>2. PICK m : m = Shown'
  OBVIOUS
<1>3. IsRecord(m)
  BY <1>2 DEF IsRecord, Shown
<1>4. PICK refused : refused = ~ok
  OBVIOUS
<1>5. /\ current' = Held(m, refused) /\ IsMatch(current)' /\ current'.match = m
      /\ current'.told = refused
  BY <1>1, <1>2, <1>4 DEF Held, IsMatch
<1>6. CASE ok
  <2>1. saved' = Stored(m) /\ saved'.match = m
    BY <1>1, <1>2, <1>6 DEF Stored
  <2> QED BY <1>2, <1>3, <1>5, <2>1 DEF ProgressInv, StoredOK, ProgressIsSafe
<1>7. CASE ~ok
  <2>1. (saved' = saved \/ saved' = Nothing) /\ told' /\ refused
    BY <1>1, <1>4, <1>7
  <2>2. ~IsMatch(Nothing)
    BY DEF IsMatch, Nothing
  <2> QED BY <1>2, <1>3, <1>5, <2>1, <2>2 DEF ProgressInv, StoredOK, ProgressIsSafe, IsMatch
<1> QED BY <1>6, <1>7

\* A new match is saved at once.
LEMMA FreshSafe ==
    ASSUME StoredOK, NEW first, NEW level, NEW notice, NEW left, left = saved \/ left = Nothing,
           BeginFresh(first, level, notice, left)
    PROVE  ProgressInv'
  BY PersistSafe DEF BeginFresh

\* A match that is restored is the one that was stored, or the page's own.
LEMMA RestoredSafe ==
    ASSUME StoredOK, NEW m, IsRecord(m), NEW notice, Restored(m, notice),
           NEW page, current' = page, page = current \/ page = Nothing,
           saved = Stored(m) \/ (IsMatch(page) /\ page.match = m /\ notice = page.told)
    PROVE  ProgressInv'
<1>1. saved' = saved /\ told' = notice
  BY DEF Restored
<1>2. Shown' = m
  BY DEF Restored, Shown, IsRecord
<1>3. ~IsMatch(Nothing)
  BY DEF IsMatch, Nothing
<1>4. IsMatch(page) => page = current
  BY <1>3
<1>5. StoredOK'
  BY <1>1, <1>4 DEF StoredOK, IsMatch
<1>6. CASE saved = Stored(m)
  BY <1>1, <1>2, <1>5, <1>6 DEF ProgressInv, ProgressIsSafe
<1>7. CASE IsMatch(page) /\ page.match = m /\ notice = page.told
  <2>1. saved = Stored(m) \/ page.told
    BY <1>4, <1>7 DEF StoredOK
  <2>2. CASE page.told
    BY <1>1, <1>2, <1>5, <1>7, <2>2 DEF ProgressInv, ProgressIsSafe, IsMatch
  <2> QED BY <1>6, <2>1, <2>2
<1> QED BY <1>6, <1>7

\* A session starts, from the page's copy, from the storage, or anew.
LEMMA StartsSafe ==
    ASSUME StoredOK, NEW page, page = current \/ page = Nothing, NEW fresh, NEW keep, NEW level,
           Starts(page, fresh, keep, level)
    PROVE  ProgressInv'
<1> DEFINE kept == IsMatch(page)
           read == IF kept THEN page ELSE Read
<1>1. CASE \E first, notice, left : BeginFresh(first, level, notice, left)
                                     /\ (left = saved \/ left = Nothing)
  BY <1>1, FreshSafe
<1>2. CASE ~\E first, notice, left : BeginFresh(first, level, notice, left)
                                      /\ (left = saved \/ left = Nothing)
  <2>1. PICK notice : notice = IF kept THEN page.told ELSE denied \/ saved = Invalid
    OBVIOUS
  <2>2. Restored(read.match, notice) /\ current' = page /\ IsMatch(read)
    BY <1>2, <2>1 DEF Starts
  <2>3. PICK m : m = read.match
    OBVIOUS
  <2>4. ~IsMatch(Nothing)
    BY DEF IsMatch, Nothing
  <2>5. CASE kept
    <3>1. IsRecord(m) /\ page.match = m /\ notice = page.told
      BY <2>1, <2>3, <2>4, <2>5 DEF StoredOK
    <3> QED BY <2>2, <2>3, <2>5, <3>1, RestoredSafe
  <2>6. CASE ~kept
    <3>1. read = saved
      BY <2>2, <2>4, <2>6 DEF Read
    <3>2. IsRecord(m) /\ saved = Stored(m)
      BY <2>2, <2>3, <3>1 DEF StoredOK
    <3> QED BY <2>2, <2>3, <3>2, RestoredSafe
  <2> QED BY <2>5, <2>6
<1> QED BY <1>1, <1>2

-----------------------------------------------------------------------------
\* A step that saves nothing and shows the same.
LEMMA NothingSaved ==
    ASSUME ProgressInv, UNCHANGED <<matchVars, starter, difficulty, saved>>,
           \/ UNCHANGED <<playing, told, current>>
           \/ playing' = FALSE /\ current' = Nothing
    PROVE  ProgressInv'
<1>1. Shown' = Shown
  BY DEF Shown, matchVars, boardVars, playerVars, outcomeVars
<1>2. ~IsMatch(Nothing)
  BY DEF IsMatch, Nothing
<1> QED BY <1>1, <1>2 DEF ProgressInv, StoredOK, ProgressIsSafe, IsMatch

\* What is shown is what a reload restores, or the player has been told that it
\* is not and the page itself still has it: no progress is lost unsaid.
THEOREM ProgressNeverLost == SoloSpec => []ProgressIsSafe
<1>1. SoloInit => ProgressInv
  BY DEF SoloInit, ProgressInv, StoredOK, ProgressIsSafe, IsMatch, Nothing, Invalid
<1>2. ProgressInv /\ [SoloNext]_soloVars => ProgressInv'
  <2> SUFFICES ASSUME ProgressInv, [SoloNext]_soloVars PROVE ProgressInv'
    OBVIOUS
  <2>1. StoredOK
    BY DEF ProgressInv
  <2>2. ASSUME NEW c \in Cells, SubmitCellAction(c) PROVE ProgressInv'
    BY <2>1, <2>2, PersistSafe DEF SubmitCellAction, Moved
  <2>3. CASE ToggleBombMode
    BY <2>3, NothingSaved DEF ToggleBombMode
  <2>4. CASE SoloResign
    BY <2>1, <2>4, PersistSafe DEF SoloResign
  <2>5. CASE Rematch
    BY <2>1, <2>5, FreshSafe DEF Rematch
  <2>6. CASE BotMove
    BY <2>1, <2>6, PersistSafe DEF BotMove, Moved
  <2>7. ASSUME NEW level \in Levels, OpenPage(level) PROVE ProgressInv'
    BY <2>1, <2>7, StartsSafe DEF OpenPage
  <2>8. ASSUME NEW level \in Levels, ReactivateEffect(level) PROVE ProgressInv'
    <3>1. PICK page : page = current
      OBVIOUS
    <3>2. Starts(page, FALSE, keepFinished, level)
      BY <2>8, <3>1 DEF ReactivateEffect
    <3>3. PICK keep : keep = keepFinished
      OBVIOUS
    <3> QED BY <2>1, <3>1, <3>2, <3>3, StartsSafe
  <2>9. CASE Dispose
    BY <2>9, NothingSaved DEF Dispose
  <2>10. CASE UNCHANGED soloVars
    BY <2>10, NothingSaved DEF soloVars, sessionVars
  <2> QED BY <2>2, <2>3, <2>4, <2>5, <2>6, <2>7, <2>8, <2>9, <2>10 DEF SoloNext
<1>3. ProgressInv => ProgressIsSafe
  BY DEF ProgressInv
<1> QED BY <1>1, <1>2, <1>3, PTL DEF SoloSpec

\* The bot's turn is never left without its callback, and no other turn has one.
THEOREM BotAlwaysMoves == SoloSpec => []BotTurnIsPending
<1>1. SoloInit => BotTurnIsPending
  BY DEF SoloInit, BotTurnIsPending
<1>2. BotTurnIsPending /\ [SoloNext]_soloVars => BotTurnIsPending'
  <2> SUFFICES ASSUME BotTurnIsPending, [SoloNext]_soloVars PROVE BotTurnIsPending'
    OBVIOUS
  <2>1. ScheduleBot => BotTurnIsPending'
    BY DEF ScheduleBot, BotTurnIsPending
  <2>2. ASSUME NEW c \in Cells, SubmitCellAction(c) PROVE BotTurnIsPending'
    BY <2>1, <2>2 DEF SubmitCellAction, Moved
  <2>3. CASE ToggleBombMode
    BY <2>3 DEF ToggleBombMode, matchVars, outcomeVars, BotTurnIsPending
  <2>4. CASE SoloResign
    BY <2>4 DEF SoloResign, Resign, BotTurnIsPending
  <2>5. CASE Rematch
    BY <2>1, <2>5 DEF Rematch, BeginFresh
  <2>6. CASE BotMove
    BY <2>1, <2>6 DEF BotMove, Moved
  <2>7. ASSUME NEW level \in Levels, NEW page, NEW fresh, NEW keep,
               Starts(page, fresh, keep, level)
        PROVE  BotTurnIsPending'
    BY <2>1, <2>7 DEF Starts, BeginFresh, Restored
  <2>8. ASSUME NEW level \in Levels, OpenPage(level) \/ ReactivateEffect(level)
        PROVE  BotTurnIsPending'
    <3>1. \E page, fresh, keep : Starts(page, fresh, keep, level)
      BY <2>8 DEF OpenPage, ReactivateEffect
    <3> QED BY <2>7, <3>1
  <2>9. CASE Dispose
    BY <2>9 DEF Dispose, BotTurnIsPending
  <2>10. CASE UNCHANGED soloVars
    BY <2>10 DEF soloVars, sessionVars, matchVars, outcomeVars, BotTurnIsPending
  <2> QED BY <2>2, <2>3, <2>4, <2>5, <2>6, <2>8, <2>9, <2>10 DEF SoloNext
<1> QED BY <1>1, <1>2, PTL DEF SoloSpec
-----------------------------------------------------------------------------
(*****************************************************************************)
(* The bot.  BoardsAreRight is the inductive invariant: every board a session *)
(* shows, stores or keeps has only mines claimed and only safe cells open, so *)
(* that what the bot reads is shown by the mines of that board.              *)
(*****************************************************************************)
\* A board the rules allow for: only the mines of its layout are ever claimed.
RightBoard(layout, opened, claims) ==
    /\ layout \in Layouts
    /\ opened \subseteq Cells /\ opened \cap layout = {}
    /\ DOMAIN claims = Cells
    /\ \A c \in Cells : claims[c] # NoPlayer => c \in layout

RightMatch(m) == RightBoard(m.mines, m.revealed, m.claimedBy)
BoardIsRight == RightBoard(mines, revealed, claimedBy)

\* The board shown, the one stored and the one the page keeps are such boards.
BoardsAreRight ==
    /\ BoardIsRight
    /\ IsMatch(saved) => RightMatch(saved.match)
    /\ IsMatch(current) => RightMatch(current.match)

\* Every move leaves such a board.
LEMMA MoveIsRight ==
    ASSUME BoardIsRight, NEW p \in Players, NEW c,
           ClaimMine(p, c) \/ RevealSafe(p, c) \/ Bomb(p, c)
    PROVE  BoardIsRight'
<1> USE DEF BoardIsRight, RightBoard
<1>1. c \in Cells /\ c \notin Resolved
  BY DEF ClaimMine, RevealSafe, Bomb, MayPlay
<1>2. CASE ClaimMine(p, c)
  <2>1. mines' = mines /\ revealed' = revealed
    BY <1>2 DEF ClaimMine
  <2>2. DOMAIN claimedBy' = Cells /\ \A d \in Cells \ {c} : claimedBy'[d] = claimedBy[d]
    BY <1>2 DEF ClaimMine
  <2>3. c \in mines
    BY <1>2 DEF ClaimMine
  <2> QED BY <2>1, <2>2, <2>3
<1>3. CASE RevealSafe(p, c)
  <2>1. c \in Hidden(mines, Resolved)
    BY <1>1, <1>3 DEF RevealSafe, Hidden
  <2>2. RevealConnectedSafeCells(mines, Resolved, c) \subseteq Cells \ mines
    BY <2>1, RevealOpensHidden DEF Hidden
  <2>3. /\ mines' = mines /\ claimedBy' = claimedBy
        /\ revealed' = revealed \cup RevealConnectedSafeCells(mines, Resolved, c)
    BY <1>3 DEF RevealSafe
  <2> QED BY <2>2, <2>3
<1>4. CASE Bomb(p, c)
  <2>1. BombReveals(mines, Resolved, c) \subseteq Cells \ mines
    BY <1>1, BombWithinBoard DEF BombReveals
  <2>2. BombClaims(mines, Resolved, c) \subseteq mines
    BY DEF BombClaims
  <2>3. mines' = mines /\ revealed' = revealed \cup BombReveals(mines, Resolved, c)
    BY <1>4 DEF Bomb
  <2>4. claimedBy' = [d \in Cells |->
                        IF d \in BombClaims(mines, Resolved, c) THEN p ELSE claimedBy[d]]
    BY <1>4 DEF Bomb
  <2>5. /\ DOMAIN claimedBy' = Cells
        /\ \A d \in Cells : claimedBy'[d] # NoPlayer => d \in mines
    BY <2>2, <2>4
  <2> QED BY <2>1, <2>3, <2>5
<1> QED BY <1>2, <1>3, <1>4

\* So does the start of a match.
LEMMA NewMatchIsRight ==
    ASSUME NEW first, StartMatch(first) PROVE BoardIsRight'
BY DEF StartMatch, BoardIsRight, RightBoard

\* What is saved is what is shown.
LEMMA PersistIsRight ==
    ASSUME BoardsAreRight, BoardIsRight', NEW notice, NEW left, left = saved \/ left = Nothing,
           Persist(notice, left)
    PROVE  BoardsAreRight'
<1>1. PICK ok \in BOOLEAN : /\ saved' = IF ok THEN Stored(Shown') ELSE left
                            /\ current' = Held(Shown', ~ok)
  BY DEF Persist, Writes
<1>2. PICK m : m = Shown'
  OBVIOUS
<1>3. m.mines = mines' /\ m.revealed = revealed' /\ m.claimedBy = claimedBy'
  BY <1>2 DEF Shown
<1>4. RightMatch(m)
  BY <1>3 DEF BoardIsRight, RightMatch
<1>5. PICK refused : refused = ~ok
  OBVIOUS
<1>6. current'.match = m
  BY <1>1, <1>2, <1>5 DEF Held
<1>7. saved' = saved \/ saved' = Nothing \/ saved'.match = m
  BY <1>1, <1>2 DEF Stored
<1>8. ~IsMatch(Nothing)
  BY DEF IsMatch, Nothing
<1> QED BY <1>4, <1>6, <1>7, <1>8 DEF BoardsAreRight, IsMatch

\* A session starts with such a board, from the page's copy, from the storage, or anew.
LEMMA StartIsRight ==
    ASSUME BoardsAreRight, NEW page, page = current \/ page = Nothing,
           NEW fresh, NEW keep, NEW level, Starts(page, fresh, keep, level)
    PROVE  BoardsAreRight'
<1> DEFINE kept == IsMatch(page)
           read == IF kept THEN page ELSE Read
<1>1. CASE \E first, notice, left : BeginFresh(first, level, notice, left)
                                     /\ (left = saved \/ left = Nothing)
  BY <1>1, NewMatchIsRight, PersistIsRight DEF BeginFresh
<1>2. CASE ~\E first, notice, left : BeginFresh(first, level, notice, left)
                                      /\ (left = saved \/ left = Nothing)
  <2>1. PICK notice : notice = IF kept THEN page.told ELSE denied \/ saved = Invalid
    OBVIOUS
  <2>2. Restored(read.match, notice) /\ current' = page /\ IsMatch(read)
    BY <1>2, <2>1 DEF Starts
  <2>3. PICK m : m = read.match
    OBVIOUS
  <2>4. ~IsMatch(Nothing)
    BY DEF IsMatch, Nothing
  <2>5. RightMatch(m)
    <3>1. read = page \/ read = saved \/ read = Nothing
      BY DEF Read
    <3> QED BY <2>2, <2>3, <2>4, <3>1 DEF BoardsAreRight
  <2>6. /\ mines' = m.mines /\ revealed' = m.revealed /\ claimedBy' = m.claimedBy
        /\ saved' = saved
    BY <2>2, <2>3 DEF Restored
  <2>7. BoardIsRight'
    BY <2>5, <2>6 DEF RightMatch, BoardIsRight
  <2>8. IsMatch(page) => page = current
    BY <2>4
  <2> QED BY <2>2, <2>6, <2>7, <2>8 DEF BoardsAreRight, IsMatch
<1> QED BY <1>1, <1>2

\* Whatever is played, saved, left and restored, the board shown is one the rules allow.
LEMMA BoardsStayRight == SoloSpec => []BoardsAreRight
<1>1. SoloInit => BoardsAreRight
  BY DEF SoloInit, Init, BoardsAreRight, BoardIsRight, RightBoard, IsMatch, Nothing, Invalid
<1>2. BoardsAreRight /\ [SoloNext]_soloVars => BoardsAreRight'
  <2> SUFFICES ASSUME BoardsAreRight, [SoloNext]_soloVars PROVE BoardsAreRight'
    OBVIOUS
  <2>1. BoardIsRight
    BY DEF BoardsAreRight
  <2>2. Human \in Players /\ Bot \in Players
    BY DEF Human, Bot, Players
  <2>3. ASSUME NEW p \in Players, NEW c, Moved,
               ClaimMine(p, c) \/ RevealSafe(p, c) \/ Bomb(p, c)
        PROVE  BoardsAreRight'
    <3>1. BoardIsRight'
      BY <2>1, <2>3, MoveIsRight
    <3> QED BY <2>3, <3>1, PersistIsRight DEF Moved
  <2>4. ASSUME UNCHANGED <<mines, revealed, claimedBy, saved>>,
               current' = current \/ current' = Nothing
        PROVE  BoardsAreRight'
    BY <2>4 DEF BoardsAreRight, BoardIsRight, RightMatch, RightBoard, IsMatch, Nothing
  <2>5. ASSUME NEW c \in Cells, SubmitCellAction(c) PROVE BoardsAreRight'
    BY <2>2, <2>3, <2>5 DEF SubmitCellAction
  <2>6. CASE ToggleBombMode
    BY <2>4, <2>6 DEF ToggleBombMode, matchVars, boardVars
  <2>7. CASE SoloResign
    <3>1. BoardIsRight'
      BY <2>1, <2>7 DEF SoloResign, Resign, boardVars, BoardIsRight, RightBoard
    <3> QED BY <2>7, <3>1, PersistIsRight DEF SoloResign
  <2>8. CASE Rematch
    BY <2>8, NewMatchIsRight, PersistIsRight DEF Rematch, BeginFresh
  <2>9. CASE BotMove
    <3>1. \E c : BotSelects(c) \/ Bomb(Bot, c)
      BY <2>9 DEF BotMove, ChosenAction, FallbackAction
    <3> QED BY <2>2, <2>3, <2>9, <3>1 DEF BotMove, BotSelects
  <2>10. ASSUME NEW level \in Levels, OpenPage(level) PROVE BoardsAreRight'
    BY <2>10, StartIsRight DEF OpenPage
  <2>11. ASSUME NEW level \in Levels, ReactivateEffect(level) PROVE BoardsAreRight'
    <3>1. PICK page : page = current
      OBVIOUS
    <3>2. Starts(page, FALSE, keepFinished, level)
      BY <2>11, <3>1 DEF ReactivateEffect
    <3>3. PICK keep : keep = keepFinished
      OBVIOUS
    <3> QED BY <3>1, <3>2, <3>3, StartIsRight
  <2>12. CASE Dispose
    BY <2>4, <2>12 DEF Dispose, matchVars, boardVars
  <2>13. CASE UNCHANGED soloVars
    BY <2>4, <2>13 DEF soloVars, matchVars, boardVars
  <2> QED BY <2>5, <2>6, <2>7, <2>8, <2>9, <2>10, <2>11, <2>12, <2>13 DEF SoloNext
<1> QED BY <1>1, <1>2, PTL DEF SoloSpec
-----------------------------------------------------------------------------
\* What the bot reads is what the mines of the board show,
LEMMA BoardShows == ASSUME BoardIsRight PROVE Shows(View, mines)
<1>1. PICK claims : claims = {c \in Cells : claimedBy[c] # NoPlayer}
  OBVIOUS
<1>2. PICK v : v = View
  OBVIOUS
<1>3. /\ v.hidden = Cells \ (revealed \cup claims) /\ v.claimed = claims
      /\ v.clues = [c \in revealed |-> AdjacentMines(mines, c)]
      /\ v.mineCount = Cardinality(mines)
  BY <1>1, <1>2 DEF View, ReadBoard
<1>4. /\ revealed \subseteq Cells /\ revealed \cap mines = {} /\ mines \subseteq Cells
      /\ claims \subseteq mines
  BY <1>1, MatchAssumption DEF BoardIsRight, RightBoard
<1> QED BY <1>2, <1>3, <1>4 DEF Shows

\* and the layouts it leaves open are those that show the same.
LEMMA LayoutsAre ==
    ASSUME NEW v, NEW l, Shows(v, l) PROVE \A j : j \in Layout(v) <=> Shows(v, j)
<1>1. PICK claims : claims = v.claimed
  OBVIOUS
<1>2. PICK hidden : hidden = v.hidden
  OBVIOUS
<1>3. claims \subseteq Cells /\ hidden \subseteq Cells /\ claims \cap hidden = {}
  BY <1>1, <1>2 DEF Shows
<1>4. IsFiniteSet(claims) /\ Cardinality(claims) \in Nat
  BY <1>3, CellSets
<1>5. ASSUME NEW s \in SUBSET hidden
      PROVE  /\ Cardinality(s) \in Nat
             /\ Cardinality(claims \cup s) = Cardinality(claims) + Cardinality(s)
  <2>1. s \subseteq Cells /\ claims \cap s = {}
    BY <1>3
  <2>2. IsFiniteSet(s)
    BY <2>1, CellSets
  <2> QED BY <1>4, <2>1, <2>2, TwoParts
<1>6. v.mineCount \in Nat
  <2>1. l \subseteq Cells
    BY DEF Shows
  <2> QED BY <2>1, CellSets DEF Shows
<1>7. PICK a : a = Cardinality(claims)
  OBVIOUS
<1>8. ASSUME NEW s \in SUBSET hidden
      PROVE  Cardinality(s) = v.mineCount - a <=> v.mineCount = Cardinality(claims \cup s)
  <2>1. PICK b : b = Cardinality(s)
    OBVIOUS
  <2>2. b \in Nat /\ a \in Nat /\ Cardinality(claims \cup s) = a + b
    BY <1>4, <1>5, <1>7, <2>1
  <2> QED BY <1>6, <2>1, <2>2
<1>9. ASSUME NEW j, j \in Layout(v) PROVE Shows(v, j)
  <2>1. PICK s \in SUBSET hidden : Cardinality(s) = v.mineCount - a /\ j = claims \cup s
    BY <1>1, <1>2, <1>7, <1>9 DEF Layout, kSubset
  <2>2. \A c \in DOMAIN v.clues : AdjacentMines(j, c) = v.clues[c]
    BY <1>9 DEF Layout
  <2>3. v.mineCount = Cardinality(j)
    BY <1>8, <2>1
  <2>4. claims \subseteq j /\ j \subseteq claims \cup hidden
    BY <2>1
  <2> QED BY <1>1, <1>2, <2>2, <2>3, <2>4 DEF Shows
<1>10. ASSUME NEW j, Shows(v, j) PROVE j \in Layout(v)
  <2>1. PICK s \in SUBSET hidden : j = claims \cup s
    <3>1. claims \subseteq j /\ j \subseteq claims \cup hidden
      BY <1>1, <1>2, <1>10 DEF Shows
    <3>2. j = claims \cup (j \cap hidden)
      BY <3>1
    <3> QED BY <3>2
  <2>2. v.mineCount = Cardinality(j)
    BY <1>10 DEF Shows
  <2>3. Cardinality(s) = v.mineCount - a
    BY <1>8, <2>1, <2>2
  <2>4. s \in kSubset(v.mineCount - Cardinality(v.claimed), v.hidden)
    BY <1>1, <1>2, <1>7, <2>3 DEF kSubset
  <2>5. \A c \in DOMAIN v.clues : AdjacentMines(j, c) = v.clues[c]
    BY <1>10 DEF Shows
  <2> QED BY <1>1, <2>1, <2>4, <2>5 DEF Layout
<1> QED BY <1>9, <1>10

\* In a match, too, the board is always one that the rules allow for.
LEMMA BoardStaysRight == (Spec \/ SoloSpec) => []BoardIsRight
<1>1. Inv => BoardIsRight
  BY DEF Inv, TypeOK, MinesOnlyClaimed, BoardIsRight, RightBoard
<1>2. BoardsAreRight => BoardIsRight
  BY DEF BoardsAreRight
<1> QED BY <1>1, <1>2, InvHolds, BoardsStayRight, PTL

\* Whatever was played, the clues the bot reads never contradict each other, and
\* what it takes for certain, at every level, is so on the real board.
THEOREM BotConcludesRightly == (Spec \/ SoloSpec) => []ConclusionsHold
<1>1. BoardIsRight => ConclusionsHold
  <2> SUFFICES ASSUME BoardIsRight PROVE ConclusionsHold
    OBVIOUS
  <2>1. PICK v : v = View
    OBVIOUS
  <2>2. Shows(v, mines)
    BY <2>1, BoardShows
  <2>3. ASSUME NEW d, NEW f, f = SettleFacts(v, d)
        PROVE  /\ ~Contradicts(v, d, f)
               /\ \A over : \A proven \in {Proven(v, d, f, over)} :
                     proven.mine \subseteq mines /\ proven.safe \cap mines = {}
    <3>1. Sound(v, mines, f)
      BY <2>2, <2>3, SettledSound
    <3>2. ~Contradicts(v, d, f)
      BY <2>2, <3>1, NothingContradicts
    <3>3. ASSUME NEW over, NEW proven \in {Proven(v, d, f, over)}
          PROVE  proven.mine \subseteq mines /\ proven.safe \cap mines = {}
      <4>1. Sound(v, mines, proven)
        BY <2>2, <3>1, <3>3, ProvenSound
      <4> QED BY <4>1 DEF Sound
    <3> QED BY <3>2, <3>3
  <2> QED BY <2>1, <2>3 DEF ConclusionsHold
<1> QED BY <1>1, BoardStaysRight, PTL

\* What is proven without the groups in over is agreed on by all the layouts that the
\* board leaves open,
LEMMA ProvenIsAgreed ==
    ASSUME NEW v, NEW l, Shows(v, l), NEW f, f = SettleFacts(v, "exact"), NEW over,
           NEW proven, proven = Proven(v, "exact", f, over)
    PROVE  /\ proven.mine \subseteq AgreedBy(Layout(v), v).mine
           /\ proven.safe \subseteq AgreedBy(Layout(v), v).safe
<1>1. \A j : j \in Layout(v) <=> Shows(v, j)
  BY LayoutsAre
<1>2. ASSUME NEW j \in Layout(v) PROVE Sound(v, j, proven)
  <2>1. Shows(v, j)
    BY <1>1
  <2>2. Sound(v, j, f)
    BY <2>1, SettledSound
  <2> QED BY <2>1, <2>2, ProvenSound
<1>3. l \in Layout(v) /\ l \subseteq Cells
  BY <1>1 DEF Shows
<1>4. proven.mine \subseteq {c \in Cells : \A j \in Layout(v) : c \in j}
  <2>1. \A c \in proven.mine : \A j \in Layout(v) : c \in j
    BY <1>2 DEF Sound
  <2> QED BY <1>3, <2>1
<1>5. proven.safe \subseteq {c \in v.hidden : \A j \in Layout(v) : c \notin j}
  BY <1>2, <1>3 DEF Sound
<1> QED BY <1>4, <1>5 DEF AgreedBy

\* and with every group solved it is all they agree on.
LEMMA AgreedIsProven ==
    ASSUME NEW v, NEW l, Shows(v, l), NEW f, f = SettleFacts(v, "exact"),
           NEW proven, proven = Proven(v, "exact", f, {})
    PROVE  /\ AgreedBy(Layout(v), v).mine \subseteq proven.mine
           /\ AgreedBy(Layout(v), v).safe \subseteq proven.safe
<1>1. \A j : j \in Layout(v) <=> Shows(v, j)
  BY LayoutsAre
<1>2. Sound(v, l, f)
  BY SettledSound
<1>3. proven = RefineExactly(v, f, {})
  BY DEF Proven
<1>4. ASSUME NEW c
      PROVE  /\ (\A j \in Layout(v) : c \in j) => c \in proven.mine
             /\ c \in v.hidden /\ (\A j \in Layout(v) : c \notin j) => c \in proven.safe
  BY <1>1, <1>2, <1>3, NothingMissed
<1> QED BY <1>4 DEF AgreedBy

\* At the hardest level the bot takes nothing for certain that the layouts the board
\* leaves open do not agree on, and all that they agree on if no group of cells ran
\* past the node budget.
THEOREM BotIsExact == (Spec \/ SoloSpec) => []ExactIsExact
<1>1. BoardIsRight => ExactIsExact
  <2> SUFFICES ASSUME BoardIsRight PROVE ExactIsExact
    OBVIOUS
  <2>1. PICK v : v = View
    OBVIOUS
  <2>2. Shows(v, mines)
    BY <2>1, BoardShows
  <2>3. PICK f : f = SettleFacts(v, "exact")
    OBVIOUS
  <2>4. ASSUME NEW over, NEW proven, proven = Proven(v, "exact", f, over)
        PROVE  /\ proven.mine \subseteq AgreedBy(Layout(v), v).mine
               /\ proven.safe \subseteq AgreedBy(Layout(v), v).safe
               /\ over = {} => proven = AgreedBy(Layout(v), v)
    <3>1. /\ proven.mine \subseteq AgreedBy(Layout(v), v).mine
          /\ proven.safe \subseteq AgreedBy(Layout(v), v).safe
      BY <2>2, <2>3, <2>4, ProvenIsAgreed
    <3>2. ASSUME over = {} PROVE proven = AgreedBy(Layout(v), v)
      <4>1. /\ AgreedBy(Layout(v), v).mine \subseteq proven.mine
            /\ AgreedBy(Layout(v), v).safe \subseteq proven.safe
        BY <2>2, <2>3, <2>4, <3>2, AgreedIsProven
      <4>2. proven = [mine |-> proven.mine, safe |-> proven.safe]
        BY <2>4 DEF Proven, RefineExactly, With
      <4>3. AgreedBy(Layout(v), v) = [mine |-> AgreedBy(Layout(v), v).mine,
                                      safe |-> AgreedBy(Layout(v), v).safe]
        BY DEF AgreedBy
      <4> QED BY <3>1, <4>1, <4>2, <4>3
    <3> QED BY <3>1, <3>2
  <2> QED BY <2>1, <2>3, <2>4 DEF ExactIsExact
<1> QED BY <1>1, BoardStaysRight, PTL
=============================================================================
