\* The rules of the match on a 3 x 4 board, through any number of rematches, and
\* what a bot would conclude from its board.
SPECIFICATION Spec
CONSTANTS
    Host = host
    Guest = guest
    NoPlayer = none
    Rows <- MCRows
    Columns <- MCColumns
    BombRadius = 1
    MineCount <- MCMineCount
    Layouts <- MCLayouts
    NodeBudget = 100
INVARIANTS
    TypeOK
    ScoresMatchClaims
    MinesOnlyClaimed
    OutcomeSound
    FloodLeavesNoHole
    VotesAreForTheNextMatch
    ConclusionsHold
    ExactIsExact
PROPERTIES
    EveryTurnResolves
    BombIsACatchUp
