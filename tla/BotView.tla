------------------------------ MODULE BotView ------------------------------
(***************************************************************************)
(* The bot of solo play before a match: what it reads of the match, and    *)
(* what has to be true of its conclusions.  The bot is Guest.              *)
(***************************************************************************)
EXTENDS Match, BotAnalysis

Bot == Guest

\* toMatchStateDto and readBoard.
View == ReadBoard(mines, revealed, {c \in Cells : claimedBy[c] # NoPlayer})

BotToChoose == phase = "live" /\ currentTurn = Bot
-----------------------------------------------------------------------------
\* Whatever was played, at no level do the clues of a real board contradict each
\* other, and a cell the bot takes for certain is what it is taken for: at the
\* hardest level, also when the search of some groups of cells ran out of its budget.
ConclusionsHold ==
    BotToChoose => \A v \in {View}, d \in Deductions : \A f \in {SettleFacts(v, d)} :
        /\ ~Contradicts(v, d, f)
        /\ \A over \in Unsolved(v, d, f) : \A proven \in {Proven(v, d, f, over)} :
              proven.mine \subseteq mines /\ proven.safe \cap mines = {}

\* The layouts the public board leaves open, and what they all agree on.
Layout(v) ==
    {l \in {v.claimed \cup s : s \in kSubset(v.mineCount - Cardinality(v.claimed), v.hidden)} :
        \A c \in DOMAIN v.clues : AdjacentMines(l, c) = v.clues[c]}
AgreedBy(layouts, v) == [mine |-> {c \in Cells : \A l \in layouts : c \in l},
                         safe |-> {c \in v.hidden : \A l \in layouts : c \notin l}]

\* At the hardest level nothing is proven that the layouts the board leaves open do
\* not agree on; and when no group ran out of the budget, groups that are solved
\* apart and weighed by the mines left prove all of it: nothing is missed.
ExactIsExact ==
    BotToChoose => \A v \in {View} :
        \A f \in {SettleFacts(v, "exact")}, agreed \in {AgreedBy(Layout(v), v)} :
        \A over \in Unsolved(v, "exact", f) : \A proven \in {Proven(v, "exact", f, over)} :
            /\ proven.mine \subseteq agreed.mine /\ proven.safe \subseteq agreed.safe
            /\ over = {} => proven = agreed
=============================================================================
