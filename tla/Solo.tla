-------------------------------- MODULE Solo --------------------------------
(***************************************************************************)
(* Solo play: one page plays a match of Match against the bot, which moves *)
(* from a timer, and saves the match after every move.  The saved record   *)
(* is the list of moves and is replayed when a page opens; the rules are   *)
(* deterministic, so here it is the match it replays to.                   *)
(*                                                                         *)
(* The human is Host, the bot is Guest.  Next, Init and Spec of Match are  *)
(* not used: Starts, Plays and Rematch are the session's own.              *)
(***************************************************************************)
EXTENDS BotView

CONSTANTS Levels  \* what the player may choose, a subset of DOMAIN Profile

Human == Host

\* BOT_PROFILES
Profile == [easy |-> "direct", normal |-> "single", hard |-> "exact"]

ASSUME SoloAssumption == Levels # {} /\ Levels \subseteq DOMAIN Profile

VARIABLES
    playing,     \* a session has started and is not disposed
    starter,     \* record.starter, as a player
    difficulty,  \* record.difficulty
    bombArmed,
    botTimer,    \* a callback is scheduled
    told,        \* recoveryNotice is shown
    saved,       \* sessionStorage: Stored(a match), Nothing or Invalid
    current,     \* the copy the open page keeps: Held(a match, its notice), or Nothing
    keepFinished,
    denied       \* the browser refuses storage

matchVars == <<boardVars, playerVars, outcomeVars>>
sessionVars == <<playing, starter, difficulty, bombArmed, botTimer, told>>
soloVars == <<matchVars, nextStarter, sessionVars, saved, current, keepFinished, denied>>

\* What a record replays to.
Shown ==
    [mines |-> mines, revealed |-> revealed, claimedBy |-> claimedBy, score |-> score,
     bombsRemaining |-> bombsRemaining, phase |-> phase, currentTurn |-> currentTurn,
     winner |-> winner, turnNumber |-> turnNumber, starter |-> starter,
     difficulty |-> difficulty]

\* No record, and a record that does not parse, validate or replay.
Nothing == [kind |-> "nothing"]
Invalid == [kind |-> "invalid"]
Stored(m) == [kind |-> "match", match |-> m]
Held(m, notice) == [kind |-> "match", match |-> m, told |-> notice]
IsMatch(record) == record.kind = "match"
-----------------------------------------------------------------------------
\* storage.read; and whether storage.write stores: it may fail at any time.
Read == IF denied THEN Nothing ELSE saved
Writes == IF denied THEN {FALSE} ELSE BOOLEAN

\* Wrong variant of Persist: a write that fails is not told.
PersistSilently(notice, left) ==
    \E ok \in Writes :
        /\ saved' = IF ok THEN Stored(Shown') ELSE left
        /\ current' = Held(Shown', FALSE)
        /\ told' = notice

\* persist, through the page's own copy, over what is left in the storage.  The
\* notice stays once it is shown.
Persist(notice, left) ==
    \E ok \in Writes :
        /\ saved' = IF ok THEN Stored(Shown') ELSE left
        /\ current' = Held(Shown', ~ok)
        /\ told' = (notice \/ ~ok)

\* Wrong variant of ScheduleBot: only when the turn passes to the bot.
ScheduleBotOnPass == botTimer' = (phase' = "live" /\ currentTurn' = Bot /\ currentTurn # Bot)

\* scheduleBot, from the state the handler leaves behind.
ScheduleBot == botTimer' = (phase' = "live" /\ currentTurn' = Bot)

\* The end of a move of either player.
Moved ==
    /\ UNCHANGED <<playing, starter, difficulty, keepFinished, denied>>
    /\ bombArmed' = FALSE
    /\ Persist(told, saved)
    /\ ScheduleBot

\* beginFresh: cancelBot, a match on the board of the next seed, saved at once.
BeginFresh(first, level, notice, left) ==
    /\ starter' = first
    /\ difficulty' = level
    /\ StartMatch(first)
    /\ bombArmed' = FALSE
    /\ Persist(notice, left)
    /\ ScheduleBot
    /\ UNCHANGED <<nextStarter, denied>>
-----------------------------------------------------------------------------
\* submitCellAction: a select, or the bomb when it is armed.
SubmitCellAction(c) ==
    /\ playing
    /\ IF bombArmed THEN Bomb(Human, c) ELSE ClaimMine(Human, c) \/ RevealSafe(Human, c)
    /\ Moved

ToggleBombMode ==
    /\ playing /\ phase = "live" /\ currentTurn = Human
    /\ bombsRemaining[Human] # 0 /\ TrailsByDeficit(Human)
    /\ bombArmed' = ~bombArmed
    /\ UNCHANGED <<matchVars, nextStarter, playing, starter, difficulty, botTimer, told,
                   saved, current, keepFinished, denied>>

SoloResign ==
    /\ playing
    /\ Resign(Human)
    /\ UNCHANGED <<playing, starter, difficulty, keepFinished, denied>>
    /\ botTimer' = FALSE /\ bombArmed' = FALSE
    /\ Persist(told, saved)

\* rematch: the page offers it when the match is over.  The same level again.
Rematch ==
    /\ playing /\ phase = "finished"
    /\ BeginFresh(Opponent(starter), difficulty, FALSE, saved)
    /\ UNCHANGED <<playing, keepFinished>>

\* chooseAction: a certain mine, or else the bomb, or else any cell; the scores
\* that rank the cells are left out.  A mine is certain only if its group was
\* solved within the budget.
BotSelects(c) == ClaimMine(Bot, c) \/ RevealSafe(Bot, c)
ChosenAction ==
    \E v \in {View} : \E f \in {SettleFacts(v, Profile[difficulty])} :
    \E over \in Unsolved(v, Profile[difficulty], f) :
    \E certain \in {Proven(v, Profile[difficulty], f, over).mine \cap v.hidden} :
        LET canBomb == bombsRemaining[Bot] = 1 /\ TrailsByDeficit(Bot)
        IN  \/ \E c \in certain : BotSelects(c)
            \/ certain = {} /\ canBomb /\ \E c \in v.hidden : Bomb(Bot, c)
            \/ certain = {} /\ ~canBomb /\ \E c \in v.hidden : BotSelects(c)

\* fallbackAction, when the choice throws: the first hidden cell, row by row.
FallbackAction ==
    LET Before(c, d) == c[1] < d[1] \/ (c[1] = d[1] /\ c[2] <= d[2])
    IN  BotSelects(CHOOSE c \in View.hidden : \A d \in View.hidden : Before(c, d))

\* The callback of scheduleBot.  That no legal move is found does not happen: a
\* live match has a hidden cell, and the bot may select any.
BotMove ==
    /\ playing /\ botTimer /\ phase = "live" /\ currentTurn = Bot
    /\ ChosenAction \/ FallbackAction
    /\ Moved
-----------------------------------------------------------------------------
\* A record that replays is shown as it was left.
Restored(m, notice) ==
    /\ mines' = m.mines /\ revealed' = m.revealed /\ claimedBy' = m.claimedBy
    /\ score' = m.score /\ bombsRemaining' = m.bombsRemaining
    /\ phase' = m.phase /\ currentTurn' = m.currentTurn /\ winner' = m.winner
    /\ turnNumber' = m.turnNumber /\ starter' = m.starter /\ difficulty' = m.difficulty
    /\ bombArmed' = FALSE /\ told' = notice
    /\ ScheduleBot
    /\ UNCHANGED <<rematchRequested, nextStarter, saved, denied>>

\* restoreSaved, and with startFresh beginFresh alone.  Reading an invalid record
\* removes it.
Starts(page, fresh, keep, level) ==
    LET kept == IsMatch(page)
        read == IF kept THEN page ELSE Read
        notice == IF kept THEN page.told ELSE denied \/ saved = Invalid
        left == IF read = Invalid THEN Nothing ELSE saved
    IN  /\ playing' = TRUE
        /\ keepFinished' = keep
        /\ IF fresh THEN BeginFresh(Human, level, FALSE, saved)
           ELSE IF ~IsMatch(read) \/ (read.match.phase = "finished" /\ ~keep)
                THEN BeginFresh(Human, level, notice, left)
                ELSE Restored(read.match, notice) /\ current' = page

\* The page is opened from the home page, or reloaded.
OpenPage(level) ==
    /\ ~playing
    /\ \/ \E fresh \in BOOLEAN : Starts(Nothing, fresh, FALSE, level)
       \/ Starts(Nothing, FALSE, TRUE, level)

\* dispose: the page is left or reloaded, and keeps nothing.
Dispose ==
    /\ playing
    /\ playing' = FALSE /\ botTimer' = FALSE /\ bombArmed' = FALSE /\ told' = FALSE
    /\ current' = Nothing
    /\ UNCHANGED <<matchVars, nextStarter, starter, difficulty, saved, keepFinished, denied>>

\* The page's effect runs again: dispose, and a session over the page's own copy.
ReactivateEffect(level) == playing /\ Starts(current, FALSE, keepFinished, level)

SoloInit ==
    /\ Init
    /\ playing = FALSE /\ starter = Human /\ difficulty \in Levels
    /\ bombArmed = FALSE /\ botTimer = FALSE /\ told = FALSE
    /\ saved \in {Nothing, Invalid} /\ current = Nothing
    /\ keepFinished = FALSE /\ denied \in BOOLEAN

SoloNext ==
    \/ \E c \in Cells : SubmitCellAction(c)
    \/ ToggleBombMode \/ SoloResign \/ Rematch \/ BotMove
    \/ \E level \in Levels : OpenPage(level) \/ ReactivateEffect(level)
    \/ Dispose

SoloSpec == SoloInit /\ [][SoloNext]_soloVars
-----------------------------------------------------------------------------
\* What is shown is what a reload restores, or the player has been told that it
\* is not and the page itself still has it for a session that starts over.
ProgressIsSafe ==
    playing => \/ saved = Stored(Shown)
               \/ told /\ IsMatch(current) /\ current.match = Shown

\* The bot's turn is never left without its callback, and no other turn has one,
\* whether the turn passed, was kept after a mine, or was restored by a reload.
BotTurnIsPending ==
    playing => (botTimer <=> phase = "live" /\ currentTurn = Bot)
=============================================================================
