------------------------------- MODULE Match -------------------------------
(***************************************************************************)
(* The matches of one room, as the match and rematch services keep them    *)
(* with the rules of packages/game-engine: two players take turns to claim *)
(* mines, a bomb is a catch-up weapon, a match ends on a strict majority   *)
(* or by resignation, and a rematch needs both votes.                      *)
(*                                                                         *)
(* One action per operation of MatchService and RematchService.  Each of   *)
(* them reads the match, computes the next state and saves it under the    *)
(* room's lock, so it is one step here.  A rejected operation throws       *)
(* before the save: it is an action whose guard is false.  RoomServer      *)
(* models the lock, the sockets and the players' connected flags.          *)
(***************************************************************************)
EXTENDS Board

CONSTANTS
    Host,        \* players[0], who created the room
    Guest,       \* players[1], who joined it
    NoPlayer,    \* null
    MineCount,   \* board.mineCount
    Layouts      \* the layouts createBoard may produce, as sets of cells

Players == {Host, Guest}

(***************************************************************************)
(* board.constants.ts promises that every mine count is odd and            *)
(* createBoardFromMines that a board has a safe cell.                      *)
(***************************************************************************)
ASSUME MatchAssumption ==
    /\ Host # Guest
    /\ NoPlayer \notin Players
    /\ MineCount \in Nat
    /\ MineCount % 2 = 1
    /\ MineCount < Rows * Columns
    /\ Layouts # {}
    /\ \A layout \in Layouts :
            layout \subseteq Cells /\ Cardinality(layout) = MineCount

VARIABLES
    mines,             \* the cells with hasMine, fixed when the match starts
    revealed,          \* the cells with isRevealed
    claimedBy,         \* claimedByPlayerId of every cell
    score,             \* players[i].score
    bombsRemaining,    \* players[i].bombsRemaining
    rematchRequested,  \* players[i].rematchRequested
    phase,             \* "live" or "finished"
    currentTurn,       \* currentTurnPlayerId
    winner,            \* winnerPlayerId
    turnNumber,
    nextStarter        \* room.players[room.nextStarterIndex]

boardVars == <<mines, revealed, claimedBy>>
playerVars == <<score, bombsRemaining, rematchRequested>>
outcomeVars == <<phase, currentTurn, winner, turnNumber>>
vars == <<boardVars, playerVars, outcomeVars, nextStarter>>
-----------------------------------------------------------------------------
Opponent(p) == IF p = Host THEN Guest ELSE Host

\* Wrong variant of WinningScore: one mine too many.
WinningScoreOffByOne == (MineCount + 1) \div 2 + 1

WinningScore == MineCount \div 2 + 1

\* Math.round of MineCount * 4 / 51, and at least 1.
BombDeficit ==
    LET scaled == (8 * MineCount + 51) \div 102
    IN  IF scaled > 1 THEN scaled ELSE 1

Claimed(p) == {c \in Cells : claimedBy[c] = p}
ClaimedMines == {c \in mines : claimedBy[c] # NoPlayer}
Resolved == revealed \cup {c \in Cells : claimedBy[c] # NoPlayer}

AllClaimed == Cardinality(ClaimedMines) = MineCount

HasMajority(p) == score[p] >= WinningScore

\* isFinished and findWinnerPlayerId.
IsFinished == AllClaimed \/ \E p \in Players : HasMajority(p)

FoundWinner ==
    CASE HasMajority(Host)                         -> Host
      [] ~HasMajority(Host) /\ HasMajority(Guest)  -> Guest
      [] OTHER ->
            IF ~AllClaimed \/ score[Host] = score[Guest] THEN NoPlayer
            ELSE IF score[Host] > score[Guest] THEN Host ELSE Guest

\* Wrong variant of TrailsByDeficit: a player who is level may throw a bomb.
TrailsOrIsLevel(p) == score[Opponent(p)] - score[p] >= BombDeficit - 1

TrailsByDeficit(p) == score[Opponent(p)] - score[p] >= BombDeficit

NoVotes == [p \in Players |-> FALSE]
-----------------------------------------------------------------------------
\* createMatchState, on the board of some seed.
Init ==
    /\ mines \in Layouts
    /\ revealed = {}
    /\ claimedBy = [c \in Cells |-> NoPlayer]
    /\ score = [p \in Players |-> 0]
    /\ bombsRemaining = [p \in Players |-> 1]
    /\ rematchRequested = NoVotes
    /\ phase = "live"
    /\ currentTurn = Host
    /\ winner = NoPlayer
    /\ turnNumber = 1
    /\ nextStarter = Host

StartMatch(starter) ==
    /\ mines' \in Layouts
    /\ revealed' = {}
    /\ claimedBy' = [c \in Cells |-> NoPlayer]
    /\ score' = [p \in Players |-> 0]
    /\ bombsRemaining' = [p \in Players |-> 1]
    /\ rematchRequested' = NoVotes
    /\ phase' = "live"
    /\ currentTurn' = starter
    /\ winner' = NoPlayer
    /\ turnNumber' = 1

\* Wrong variant of MayPlay: a cell may be played again.
MayPlayAgain(p, c) ==
    /\ phase = "live"
    /\ currentTurn = p
    /\ c \in Cells

(***************************************************************************)
(* The guards of resolveAction common to selects and bombs.                *)
(***************************************************************************)
MayPlay(p, c) ==
    /\ phase = "live"
    /\ currentTurn = p
    /\ c \in Cells
    /\ c \notin Resolved

(***************************************************************************)
(* The common end of an action: the votes are cleared, the turn counted,   *)
(* and finalizeState decides, from the scores and claims the action leaves *)
(* behind, whether the match goes on with nextTurn.                        *)
(***************************************************************************)
Finalize(nextTurn) ==
    /\ rematchRequested' = NoVotes
    /\ turnNumber' = turnNumber + 1
    /\ winner' = FoundWinner'
    /\ phase' = IF IsFinished' THEN "finished" ELSE "live"
    /\ currentTurn' = IF IsFinished' THEN NoPlayer ELSE nextTurn
    /\ UNCHANGED nextStarter

\* resolveMineClaim: the cell is the player's, one point, and the turn is kept.
ClaimMine(p, c) ==
    /\ MayPlay(p, c)
    /\ c \in mines
    /\ claimedBy' = [claimedBy EXCEPT ![c] = p]
    /\ score' = [score EXCEPT ![p] = @ + 1]
    /\ UNCHANGED <<mines, revealed, bombsRemaining>>
    /\ Finalize(p)

\* resolveSafeReveal: the flood opens the cells and the turn passes.
RevealSafe(p, c) ==
    /\ MayPlay(p, c)
    /\ c \notin mines
    /\ revealed' = revealed \cup RevealConnectedSafeCells(mines, Resolved, c)
    /\ UNCHANGED <<mines, claimedBy, score, bombsRemaining>>
    /\ Finalize(Opponent(p))

\* Wrong variant of Bomb: it scores every mine of the area, claimed before or not.
BombScoringTheWholeArea(p, c) ==
    /\ MayPlay(p, c)
    /\ bombsRemaining[p] # 0
    /\ TrailsByDeficit(p)
    /\ revealed' = revealed \cup BombReveals(mines, Resolved, c)
    /\ claimedBy' = [d \in Cells |->
                       IF d \in BombClaims(mines, Resolved, c) THEN p ELSE claimedBy[d]]
    /\ score' = [score EXCEPT ![p] = @ + Cardinality(BombClaims(mines, {}, c))]
    /\ bombsRemaining' = [bombsRemaining EXCEPT ![p] = 0]
    /\ UNCHANGED mines
    /\ Finalize(Opponent(p))

\* Wrong variant of Bomb: the spent bomb is counted down, never asked for.
BombNeverSpent(p, c) ==
    /\ MayPlay(p, c)
    /\ TrailsByDeficit(p)
    /\ revealed' = revealed \cup BombReveals(mines, Resolved, c)
    /\ claimedBy' = [d \in Cells |->
                       IF d \in BombClaims(mines, Resolved, c) THEN p ELSE claimedBy[d]]
    /\ score' = [score EXCEPT ![p] = @ + Cardinality(BombClaims(mines, Resolved, c))]
    /\ bombsRemaining' = [bombsRemaining EXCEPT ![p] = @ - 1]
    /\ UNCHANGED mines
    /\ Finalize(Opponent(p))

\* resolveBomb: once per match and only from behind, it claims and opens what
\* is unresolved in its area; the turn passes whatever it hit.
Bomb(p, c) ==
    /\ MayPlay(p, c)
    /\ bombsRemaining[p] # 0
    /\ TrailsByDeficit(p)
    /\ revealed' = revealed \cup BombReveals(mines, Resolved, c)
    /\ claimedBy' = [d \in Cells |->
                       IF d \in BombClaims(mines, Resolved, c) THEN p ELSE claimedBy[d]]
    /\ score' = [score EXCEPT ![p] = @ + Cardinality(BombClaims(mines, Resolved, c))]
    /\ bombsRemaining' = [bombsRemaining EXCEPT ![p] = 0]
    /\ UNCHANGED mines
    /\ Finalize(Opponent(p))

\* resignMatch: possible in the opponent's turn too.
Resign(p) ==
    /\ phase = "live"
    /\ phase' = "finished"
    /\ currentTurn' = NoPlayer
    /\ winner' = Opponent(p)
    /\ rematchRequested' = NoVotes
    /\ UNCHANGED <<boardVars, score, bombsRemaining, turnNumber, nextStarter>>

\* Wrong variant of RequestRematch: it does not ask whether the match is over.
RematchOfLiveMatch(p) ==
    LET votes == [rematchRequested EXCEPT ![p] = TRUE]
    IN  \/ /\ \E q \in Players : ~votes[q]
           /\ rematchRequested' = votes
           /\ UNCHANGED <<boardVars, score, bombsRemaining, outcomeVars, nextStarter>>
        \/ /\ \A q \in Players : votes[q]
           /\ nextStarter' = Opponent(nextStarter)
           /\ StartMatch(nextStarter')

\* requestRematch: the second vote advances the starter and starts the match.
RequestRematch(p) ==
    /\ phase = "finished"
    /\ LET votes == [rematchRequested EXCEPT ![p] = TRUE]
       IN  \/ /\ \E q \in Players : ~votes[q]
              /\ rematchRequested' = votes
              /\ UNCHANGED <<boardVars, score, bombsRemaining, outcomeVars, nextStarter>>
           \/ /\ \A q \in Players : votes[q]
              /\ nextStarter' = Opponent(nextStarter)
              /\ StartMatch(nextStarter')

CancelRematch(p) ==
    /\ phase = "finished"
    /\ rematchRequested' = [rematchRequested EXCEPT ![p] = FALSE]
    /\ UNCHANGED <<boardVars, score, bombsRemaining, outcomeVars, nextStarter>>

\* The coordinates a client may send: the protocol bounds them from below only.
Coordinates == (0 .. Rows) \X (0 .. Columns)

Next ==
    \E p \in Players :
        \/ \E c \in Coordinates : ClaimMine(p, c) \/ RevealSafe(p, c) \/ Bomb(p, c)
        \/ Resign(p)
        \/ RequestRematch(p)
        \/ CancelRematch(p)

Spec == Init /\ [][Next]_vars
-----------------------------------------------------------------------------
\* The values every variable may take (match.types.ts).
TypeOK ==
    /\ mines \in Layouts
    /\ revealed \subseteq Cells
    /\ claimedBy \in [Cells -> Players \cup {NoPlayer}]
    /\ score \in [Players -> 0 .. MineCount]
    /\ bombsRemaining \in [Players -> 0 .. 1]
    /\ rematchRequested \in [Players -> BOOLEAN]
    /\ phase \in {"live", "finished"}
    /\ currentTurn \in Players \cup {NoPlayer}
    /\ winner \in Players \cup {NoPlayer}
    /\ turnNumber \in Nat
    /\ nextStarter \in Players

\* The scores are kept beside the board: whatever mix of selects and bombs was
\* played, a player's score is the number of cells that player has claimed.
ScoresMatchClaims == \A p \in Players : score[p] = Cardinality(Claimed(p))

\* A mine is never opened and a safe cell never claimed, by the flood and by a
\* bomb over an area partly resolved before.
MinesOnlyClaimed ==
    /\ revealed \cap mines = {}
    /\ \A c \in Cells : claimedBy[c] # NoPlayer => c \in mines

\* "A full board always has a majority and a match cannot end level": a live
\* match has no majority, a mine still to claim and a player to move; a match
\* that is over names a winner, who leads with a strict majority of the mines
\* unless a player resigned before anyone had it.
OutcomeSound ==
    LET Majority(p) == 2 * score[p] > MineCount
    IN  /\ phase = "live" =>
              /\ winner = NoPlayer /\ currentTurn \in Players
              /\ mines \ Resolved # {}
              /\ \A p \in Players : ~Majority(p)
        /\ phase = "finished" =>
              /\ winner \in Players /\ currentTurn = NoPlayer
              /\ ~Majority(Opponent(winner))
              /\ mines \subseteq Resolved => Majority(winner)

\* As long as nobody used a bomb, an open cell whose clue is 0 has all its
\* neighbours open: the flood stops neither at cells opened earlier nor at
\* claimed mines in a way that leaves a hole.
FloodLeavesNoHole ==
    (\A p \in Players : bombsRemaining[p] = 1) =>
        \A c \in revealed : Spreads(mines, c) => Adjacent[c] \subseteq revealed

\* Votes are for a rematch of a match that is over, and they are never both
\* there: the second vote starts the match that clears them.
VotesAreForTheNextMatch ==
    /\ \A p \in Players : rematchRequested[p] => phase = "finished"
    /\ \E p \in Players : ~rematchRequested[p]

NewMatch == turnNumber' < turnNumber \/ (phase = "finished" /\ phase' = "live")

\* Within a match nothing resolved is ever undone or changes hands, and every
\* counted turn resolves at least one cell: a match has no more turns than the
\* board has cells.
TurnResolves ==
    ~NewMatch =>
        /\ mines' = mines /\ Resolved \subseteq Resolved'
        /\ \A c \in Cells : claimedBy[c] # NoPlayer => claimedBy'[c] = claimedBy[c]
        /\ turnNumber' # turnNumber => Resolved' # Resolved

EveryTurnResolves == [][TurnResolves]_vars

\* Only the player to move scores, a match starts level, and a gain of more
\* than one mine is the player's one bomb, thrown from behind.
CatchUp ==
    \A p \in Players :
        score'[p] > score[p] =>
            /\ currentTurn = p
            /\ score'[p] > score[p] + 1 =>
                  /\ score[p] < score[Opponent(p)]
                  /\ bombsRemaining[p] = 1 /\ bombsRemaining'[p] = 0

BombIsACatchUp == [][CatchUp]_vars
=============================================================================
