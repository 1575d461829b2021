\* Solo play against the hardest bot, with reloads and failing storage.
SPECIFICATION SoloSpec
CONSTANTS
    Host = human
    Guest = bot
    NoPlayer = none
    Rows <- MCRows
    Columns <- MCColumns
    BombRadius = 1
    MineCount <- MCMineCount
    Layouts <- MCLayouts
    NodeBudget = 20
    Levels = {"hard"}
INVARIANTS ProgressIsSafe BotTurnIsPending
