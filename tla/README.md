# Minesweeper Flags in TLA+

Two players share one minesweeper board and take turns to claim its mines. The
repository holds a game engine, a hosted WebSocket server (`apps/server`), a
signaling service that lets two browsers play without that server
(`apps/signaling`), the web client with a host runtime for such direct matches
and a solo mode (`apps/client`), and the wire schemas (`packages/shared`). This
directory specifies the parts whose correctness depends on long histories and on
interleavings, checks them with TLC and proves what matters most with TLAPS.

    tlc -workers 2 -config MCMatch.cfg MCMatch      # one run
    tlapm GameProofs.tla                            # the proofs of one module

`PROJECT.json` lists the components, the runs, the wrong variants each property
is tried against, the source lines of every definition, the hazards with the
properties that cover them, the four findings and the theorems.

## Inventory

| Component | State | Operations | What is hard | Correct when |
|---|---|---|---|---|
| Board (`board.logic.ts`) | cells: mine, clue, revealed, claimed | flood, bomb area, clues | boards opened in pieces by bombs, edges | the flood opens the least set that has no hole; a bomb covers its whole area |
| Match rules (`action.logic.ts`, `match/*`) | scores, bombs, turn, phase, winner | select, bomb, resign | majority at an odd count, bombs over claimed mines | scores are the claims, a match ends exactly when it is decided, every turn resolves a cell |
| Match, rematch services | match per room, `nextStarterIndex` | apply, resign, votes | both vote at once, failure between two saves | the second vote starts one match |
| Rooms | room record, open invite, `updatedAt` | create, join, touch, delete | checks outside the lock, lost updates | one guest per invite, the cap holds, a deleted room stays deleted |
| Sessions and registry | sessions by token, player to socket, socket to session | create, require, refresh, attach, detach | a socket for two players, two sockets for a player | the two maps agree |
| Commands and dispatch | none of their own | one handler per message | every `await` lets other handlers run | handlers end; what they act on is still so |
| Connection lifecycle | abandoned-room timers | close, timer, pong, inactivity sweep | timers against late handlers | empty rooms go; a reload has its grace |
| Task runner | a promise tail per key | run | throw, order, a tail deleted under a waiter | one task per key at a time, nobody waits for ever |
| Signaling: offer and answer | session: offer, answer, state, expiry | create, submit, finalize | several processes, compare-and-swap | one answer is ever accepted |
| Signaling: reconnect control | two role claims, one attempt | register, claim, heartbeat, offer, answer, finalize | a second tab, a request decided on an old copy | what a displaced tab wrote has no effect; an outcome stays |
| Direct match: setup | stage of each page, the link's state | publish, open, answer, apply, finalize | several guests, lost replies, reloads, expiry | the host connects to the guest that was told so |
| Direct match: host and guest | the host's room, match, chat and record; each page's view | moves, rematch, chat, fan-out, restore | a channel that breaks under a fan-out, a reload between save and send | both pages converge to one match; no reload takes a shown move back |
| Direct match: reconnect | runtimes, attempts, peers, claims | reconnect, retry, heartbeat, displacement | attempts that settle late, requests given up that arrive | the host serves the guest through its own live peer |
| Game client controller | session, match, chat, pending flags | server events, transport events | replies lost with a channel | no page blocks for ever |
| Solo session and bot | match, bot timer, stored record | play, replay, restore, bot move | failing storage, an effect that runs twice, deductions near the end | no progress is lost unsaid; the bot moves when it must; what it proves is so |
| Chat service | list of messages per room | send, history, delete | append after delete | not modelled |
| Heartbeat, limits, shutdown | alive marks, windows, flags | ping, pong, consume, shut down | late pongs, window edges | not modelled |
| Views, HTTP routes, schemas | none | | | not modelled |

How they interact. *Hosted:* a WebSocket message starts a handler of the message
router, which nobody waits for. The handler calls the command service, which
calls room, match, rematch and session services; those read and write the stores,
each call awaited, under a lock per room code from one `KeyedSerialTaskRunner`.
The result is dispatched: the socket is attached to the session in the connection
registry, then events go to the caller or, by the registry, to every player of the
room. Closes, pongs and timers start handlers in the same way. With the Redis
backend every await lets other handlers run.

*Direct:* the host's page publishes an offer as a session of the signaling service,
a guest's page answers it, and WebRTC connects the two. From then on the host's page
is the server: its orchestrator holds room, match and chat, stores them as a recovery
record, and fans events out to its own page and over the channel to the guest's. The
game client controller, which serves the hosted game too, takes events from either.
When the channel breaks, both sides claim their roles in a reconnect control session of
the signaling service and exchange a new offer and answer there. *Solo:* one page, with
the game engine, a bot behind a timer, and the browser's session storage.

## Modules

| Module | Models | Actions and the code |
|---|---|---|
| `Board` | `packages/game-engine/src/board` | operators: `Adjacent`, `RevealConnectedSafeCells`, `BombCoordinates`, ... |
| `FloodFill` | the loop of `revealConnectedSafeCells` | `SkipVisited`, `SkipResolved`, `Open`: one iteration each |
| `Match` | match rules, match and rematch services | `ClaimMine`, `RevealSafe`, `Bomb`, `Resign`, `RequestRematch`, `CancelRematch`: one saved operation each |
| `RoomServer` | rooms, sessions, registry, lock per room, timers, sweep, dispatch | the start of a handler (`Receive...`, `CloseEvent`, `TimerFires`, `Sweep`) and its steps (`Enter`, `JoinRoom`, `Attach`, ...) |
| `SignalingRules` | what the signaling service makes of a record, given a request | operators: `TakesAnswer`, `Reconciled`, `Permits`, `Outcome`, ... |
| `SignalingRecords` | abstract specification: requests applied one at a time | `Create`, `Apply`, `Evict`, `Tick` |
| `Signaling` | the service as it runs: processes, task runner, store | `Receive` (a request queues), then the steps of its task: read and decide, save by compare-and-swap |
| `P2PReconnect` | the runtimes of both roles after the match began, the control session, peers | steps of an attempt, of the heartbeat and of the channel; `Serve` and `Vanish` for a request; `Reconnect`, `Leave`, `Close` for the player |
| `DirectSetup` | the first link, from the offer to the channel | one step per stage of either page, a request and its reply together |
| `DirectMatch` | orchestrator, fan-out, recovery record, both pages' controllers | what a player may do, `Deliver`, `Break`, `CloseEvent`, `Pair`, `OpenRoom`, ... |
| `BotAnalysis` | what the bot concludes for certain from a public board | operators: `SettleFacts`, `Proven`, `Contradicts`, ... |
| `BotView` | the bot before a match: what it reads, and what must be true of its conclusions | operators: `View`, `BotToChoose` |
| `Solo` | the solo session with its storage, page and timer | `SubmitCellAction`, `BotMove`, `Rematch`, `OpenPage`, `ReactivateEffect`, `Dispose`, ... |
| `MC*` | | values of the constants for TLC |
| `BoardProofs` | | lemmas about the operators of `Board` and `BotAnalysis` |
| `FloodFillProofs`, `GameProofs` (`Match` and `Solo`), `RoomServerProofs`, `SignalingProofs`, `P2PReconnectProofs`, `DirectMatchProofs` | | theorems |
| `DirectMatchLemmas` | | the invariant of a direct match and the lemmas about its messages, which `DirectMatchProofs` extends |

What composes what:

- `Board` is extended by `FloodFill`, `Match` and `BotAnalysis`; `BotView` extends `Match`
  and `BotAnalysis`, so that the bot's conclusions can be tried against every match; `Solo`
  extends `BotView` and plays the rules of `Match` from a session.
- `SignalingRules` is extended by `SignalingRecords`, `Signaling`, `P2PReconnect` and
  `DirectSetup`. `Signaling` implements `SignalingRecords` (`Served`, the property
  `AppliedOneAtATime`); that is why the two models of clients may apply a request to the record
  in one step.
- `DirectMatch` extends `DirectSetup`: its first channel is the one the setup makes.
- `Match` and `RoomServer` split the hosted match between them: in `Match` an operation is
  one step, because the lock of the room makes it one; in `RoomServer`, which has the lock,
  a match is only the set of its players whose `connected` flag is set. `Signaling` has the
  chain of promises behind that lock.
- `P2PReconnect` and `DirectMatch` split a direct match: how the two sides agree on a new
  channel is in the first, with requests lost and late; what runs over a channel, and what
  a break does to it, is in the second, where agreeing is one step (`Pair`).

### Abstractions

*Board and match.* A cell is its coordinate, a layout a set of cells; the seeded
shuffle of `createBoard` is a choice among the layouts given to TLC (any layout
with the right number of mines in the proofs). `lastAction`, seeds and timestamps
are left out. The clue of 0 is all that control depends on.

*Room server.* A player id stands for its session token, too. A handler is a task
with a step, and its locals are the fields of a record. A step under the room's
lock is one action, except `create`, `touch`, and the check and the deletion of a
cleanup. Those take the lock and read in `Enter`, and write and release in a later
action, so that what comes between a read and a write does come between. A service that
runs the key its caller holds (`rematch.service.ts:21-35`) is let in at once by
`KeyedSerialTaskRunner.run`, so such a call is part of the step that holds the key; a
runner that made it wait for its own caller could not be seen. A
disconnect that finds its room deleted ends at once. `requireSession` reads the
session and stores it again in one action. Ids are never reused. Left out:
broadcasts (and so a broadcast that throws on a deleted room), chat, rate limits, the
TTL of the Redis keys, shutdown, a store that fails. Sweeps do not overlap.

*Signaling.* One session and one control session; a tab is an instance that holds a role's
secret, and an offer or an answer of a reconnection bears the name of its instance.
The time of a request is taken before it queues, as in the code, so a request may be
applied to a record that has expired while it waited. Requests that only read are left
out of `Signaling` (they change nothing) and are steps of the clients in `P2PReconnect`.
The age of a heartbeat, which only a read reports, is left out.

*Reconnection.* Each attempt has a peer and an instanceId of its own, so one name stands
for both and for the SDP it makes. A request and its reply are two steps, either may be
lost, and a request the client has given up may still be served (`Serve`, `Vanish`). An
abort ends an attempt at once, unless it is in the middle of ICE. Times are left out: a
poll may go on or give up at any step, and the control session lapses when nobody claims
it. The registration of that session is in `DirectMatch`.

*Setup.* A request and its reply are one step, which may be lost on either side of its effect.
There is one invitation. Guests do not differ, and an answer bears its guest's name.
When the guest is in the room no page of the setup is open any more (`SetupOver`): what
other guests read of a used link after that is not followed.

*Direct match.* A match is its round, the number of its moves, whose turn it is, whether
it is over, the votes, and whether the guest is shown as online; what a move does
to the turn is a choice (`keep`, `pass`, `win`), since the rules are in `Match`. Of the
schema of a stored record, what a match can break is kept (`SoundMatch`, `SoundRecord`). A
player uses what the match page offers: no moves while it shows no connection. Sending on
a channel whose other end is gone loses the message; sending on a closing one throws,
in the middle of the fan-out. A side that is down receives nothing more on its channel. In
that the model is narrower than the code: `webrtc-peer.ts:278-280` takes a state
`disconnected` of the connection, which may be transient, for a close as well, and an event
that arrives on the old channel after it, before the peer is replaced, is not followed.

*Solo.* The saved record is the list of moves, replayed when a page opens; the rules are
deterministic, so here it is the match it replays to. A page that is denied
storage is denied it throughout; otherwise any write may fail, as often as it likes, while
reads go on (a full storage), and a record that does not replay is removed when it is read.
The bot's certain cells are computed as in the code; of the probabilities in between only 0
and 1 are kept, and the score that ranks the others is a choice of any hidden cell. At the
hardest level the code searches the groups of undecided cells one after the other, the
smallest first, and stops after `DEFAULT_NODE_BUDGET` steps; a group it did not finish keeps
its estimates. How many steps a search takes is not computed: `SearchCost` bounds it from
above, and `Unsolved` has every set of groups that may be left over. Numbers are exact here:
that a probability which is not 0 or 1 is rounded to one of them
(`bot-enumeration.ts:230`) is outside the model. Every hidden cell may be selected, so the
branch of `scheduleBot` for a bot without a legal move is never taken and left out.

## Runs

| Run | Question | Bounds | Distinct states |
|---|---|---|---|
| `match_rules` | do scores, outcome, bombs and votes agree with the board in every play, and is what a bot would conclude from the board so? | 3 x 4 board, 3 mines, 4 layouts, bomb radius 1; any number of rematches; `NodeBudget` 100 | 156 494 |
| `flood_fill` | does the loop open exactly the least flood set, and end? | 3 x 3, 4 layouts, every set resolved before, every start | 443 904 |
| `room_lobby` | creations, joins, moves, pongs, cancellations and closes, two handlers at a time: one guest per invite, the cap, nothing cancelled under a guest, no room written back, no player lost | 2 rooms, 3 players, 2 sockets, 2 tasks, capacity 1; no returns | 207 189 |
| `room_liveness` | closes, returns and the inactivity sweep: do handlers end and empty rooms go? | 1 room, 1 player, 2 sockets, 2 tasks | 101 374 |
| `room_dropped` | finding | 1 task: no interleaving is needed | violation |
| `room_grace` | finding | 1 room, 2 players, 2 sockets, 2 tasks | violation |
| `signaling` | does a service of several processes apply requests one at a time; one answer, one outcome, nothing of a displaced tab? | 2 processes, 2 requests in flight, 2 tabs of each role, `Ttl` = `MaxNow` = 1, one of the two records at a time | 995 028 |
| `p2p_reconnect` | does the host serve the guest through its own live peer, whatever attempts came and went? | 2 host tabs, 1 guest tab, 3 host and 2 guest instances, 4 peers in all, 2 requests under way | 555 157 |
| `p2p_waiter` | finding | 2 host tabs, 1 guest tab, 4 host instances | violation |
| `direct_match` | does the link connect the right two, do both pages converge through breaks and reloads, and does a reload of the host take back what the guest was shown? | 2 guests at the link, 3 channels, 2 rounds of 1 move, 2 texts, history of 1, 4 messages under way; a host's page that is out of its room is not followed (`HostKeepsItsRoom`) | 556 008 |
| `direct_ousted` | finding | 2 channels | violation |
| `solo` | is progress never lost unsaid, though any write may fail, and does the bot move? | 2 x 3 board, 3 mines, 1 layout, hardest level; `NodeBudget` 20 | 859 084 |

Why the bounds are enough to be interesting.

*Match and flood.* On the 3 x 4 board a bomb (3 x 3) is smaller than the board and
moved inwards at the edges, a flood opens many cells or one, a majority needs two
mines, a mine may be claimed before a bomb covers it, and `BombDeficit` is 1, so that
a bomb can be thrown. The state of a match is finite with no bound on its length. In
the flood run all 2^9 sets of resolved cells occur, including ones no match reaches. The
bot is asked at every turn of `Guest` in every play, not only in the plays a bot would make:
its constraints come apart into two groups that share the mines left, which is where
enumeration, weights and subsets of clues could disagree. The code's budget of 20,000 steps
lasts for any board of this size. With 100 it lasts for groups of four cells in all, so
that boards where it lasts, and boards where it may run out for one group or for
all, both occur.

*Rooms.* Two tasks and the sweeper are enough for any race between two handlers and
the sweep; races of three handlers, on a fourth player or a third socket, are beyond
the bound, and within the proofs, which also cover returns of any player next to moves,
pongs and joins. Capacity 1 with two rooms lets a second creation fail, or
succeed after a cancellation. A model's ids and sockets are spent and not reused: the
last closed socket may stop a run, which is why those runs do not check deadlock;
`HandlersEnd` says that no *handler* is stuck. In `room_liveness` one player returns on a
second socket and closes the first; a player displaced from its socket by another one of
the same room, which `Attach` has and `room_lobby` explores, is not part of it: with two
players, two sockets and two tasks there are more than seven million states, beyond what a
liveness check can do. `RegistryAgrees` compares the two maps of the registry; a
`room:cancel` that detaches a player attached since (`DetachCancelled`) leaves them in
agreement, and is no matter of that property.

*Signaling.* Two processes with one request each race in the store; two requests at one
process queue. A task that ends and a new one that comes are as good as a third. With
two tabs of each role a claim replaces a claim, in the middle of an attempt. One tick is
enough to expire any record while a request waits, and to create another in its
place. The two records share nothing (`McOneRecord`): a state with both is a
product of two that are explored.

*Reconnection.* Four peers with three of the host's and two of the guest's: the host
may begin twice more and its tabs displace each other, or both sides begin once more. Two
requests under way let a late claim, offer or finalization overtake a newer one.

*Direct match.* Two guests race for the link and lose replies. Three channels
let a close of an old one arrive after a new one is bound, and both pages come back twice. One move decides a round,
so that a rematch, whose vote resets the match, comes within the bound; a
history of one message is full at the second. Texts are followed in the first round
only (`McTextOrMatch`): chat and match share the fan-out and nothing else.

*Solo.* The board is small because of the storage: when writes fail, one after the other, the
stored record may be of any earlier moment of any earlier match, next to any moment of the
present one, so the states are pairs of plays. Six cells with three mines, played from either
starter, have a bomb for the player who trails, a match that is decided before the board is
full, and a bot that knows of a mine for certain or, its budget of 20 used up, does not.
The rules of the board are the business of `match_rules`.

*Fairness.* `RoomServer` (`FairSpec`): a task that can step infinitely often does: the
event loop runs it, the store answers, and the runner grants a key in the order of its
tail, so that a waiter is not passed by for ever (strong fairness; `Signaling` has the
chain of promises this rests on). A closing socket closes, the sweep has an interval,
and time passes (weak fairness). No fairness is assumed of clients: nobody has to
send, leave or return. The abandoned-room timer needs none: the sweep alone
reclaims a room. In `flood_fill` the loop is synchronous and runs to its end. The
other specifications state none: a network may lose every request of a
reconnection, and players may do nothing, so nothing has to happen there. What has
to be *possible* is stated as an invariant: `GuestConverges` and `NothingBlocksForEver` of a
quiet channel, `BotTurnIsPending` of the bot's timer.

### What the properties say

- `ScoresMatchClaims`, `MinesOnlyClaimed`, `OutcomeSound`, `BombIsACatchUp`,
  `EveryTurnResolves`, `VotesAreForTheNextMatch`, `FloodLeavesNoHole` (`Match`): the
  scores are the claims on the board, a match ends exactly when it is decided, and only
  the player who trails gains more than one mine in a turn.
- `FloodIsLeast`, `FloodAgreesWithRules`, `FloodEnds` (`FloodFill`): the loop computes the
  operator that `Match` uses, whatever order the queue is served in.
- `OneGuestPerInvite`, `RoomCap`, `RoomsOnlyGrow`, `CancelSparesGames` (`RoomServer`): the
  checks made outside the lock, or under another handler's nose, do no harm.
  `RegistryAgrees`: a socket speaks for at most one player. `HandlersEnd`, `EmptyRoomsGo`: liveness.
- `OneAtATime` (`Signaling`): the runner's tails keep the tasks of a key apart, though a
  tail is deleted while others wait. `AppliedOneAtATime` is the refinement: a request is
  applied to the record as the one before it left it. `OneAnswerAccepted`,
  `AttemptIsOfClaimants`, `FirstOutcomeStays`: what guests, displaced tabs and late
  finalizations can not do.
- `BoundThroughActivePeer`, `ReconnectedByConnectedHost`, `GuestWaitersEnd`,
  `RecordSurvivesDisplacement` (`P2PReconnect`): the host takes commands through its own peer, which
  did connect; a guest reads "reconnected" of such a peer only; a guest's loops end with
  their runtime; a displaced tab deletes nothing the other tab lives on.
- `OneGuestPerLink` (`DirectSetup`): the guest who was told so is the one the host connects to.
  `GuestConverges`, `HostNeverBehindGuest`, `HostSeesItsMatch`, `NothingBlocksForEver`
  (`DirectMatch`): one match on both pages, no reload takes back a move the guest was
  shown while the host's page is in its room (`HostKeepsItsRoom`), no page waits for a reply that is not coming.
- `ConclusionsHold`, `ExactIsExact` (`BotView`): the bot never takes a cell for certain that
  is not, whether its search runs out of its budget or not; at its hardest it takes nothing
  for certain that the layouts do not agree on and, as long as no group of cells ran out of
  the budget, misses nothing that they do.
- `ProgressIsSafe`, `BotTurnIsPending` (`Solo`): no progress is lost unsaid, though write after
  write fails; the bot's turn has its timer and no other turn has.

### Findings

1. `DroppedPlayersAreOffline` (`room_dropped`). `createMatchState` starts every match with
   both players connected. A host who dropped while waiting is shown as present in the
   match the guest's join starts; so is a player who left before a rematch.
2. `ReloadHasGrace` (`room_grace`). A room's timer is restarted after a close has been
   handled, awaits included. The timer armed by the other player's earlier close may
   fire in that gap and delete the room with no grace for the one who just left.
3. `NoWaiterOutlivesItsRuntime` (`p2p_waiter`). The `finally` of the host's `handlePeerClosed`
   (`p2p-host-runtime.ts:439`) resets the abort controller whoever has set it since. An
   aborted attempt that is still in ICE settles after the next one began, and takes
   its controller away; the poll of the next attempt then outlives its runtime, which
   `p2p-runtime-context.ts:151-152` says no waiter does.
4. `HostKeepsItsRoom` (`direct_ousted`). When a channel is connected again the controller takes
   its session as a reconnection under way and sends `player:reconnect`
   (`game-client.controller.ts:357-361`). The host's transport ignores that command, so no
   `room:state` ever ends the reconnection, and from then on any `server:error` counts as its
   refusal. A host who votes for a rematch while the channel is closing gets there:
   the fan-out throws after the match was reset and before the host's page was told, the page
   still offers Rematch, the second vote is refused, and the page is put out of the room it is
   hosting. Its record is not written any more, so a reload then takes back what
   the guest is shown: that is why `HostNeverBehindGuest` is checked, and proved, as long as the
   host's page keeps its room.

Seen on the way, without a run of their own, as no property here is about them:

- After a finalization that failed, the host replaces its peer and still shows the
  guest as online; `docs/p2p-architecture.md:114` speaks of a peer that drops.
- The host's `applyRemoteGuestCommand` does not answer a command from a channel it is not
  bound to, where `docs/p2p-architecture.md:113` says that bad commands get an error.
- A text of the guest that is under way when the channel breaks is neither delivered
  nor drafted again.
- A host's tab that has been displaced and does not know yet still writes the recovery
  record both tabs share.
- A guest whose reply to its accepted answer was lost is told, when it tries again, that
  another guest has used the link.

## Proofs

`BoardProofs` has what the theorems about the board and the bot need of the operators, all
of which are defined by rounds: the flood, `SettleFacts`, `Components`, and the fold in
`Totals`. The library's induction theorems take an operator for a parameter, which is out of
the installed provers' reach. But that the order of the numbers is well-founded is a fact
about a set: so a set of numbers that is not empty has a least one (`LeastNatural`), a set
that has 0 and with a number the next is all of them (`AllNaturals`), and a function whose
values are given by the one before does exist (`Iterates`). A fold over a finite set is a
function on its subsets, found by rounds as well (`TotalsAre`).

`FloodFillProofs` proves for boards of every size that `FloodInvariant` is inductive and,
from it, `FloodIsLeast`. `FloodInvariant` says that every neighbour of an opened zero is
visited or queued, and that what is visited or queued and hidden lies in every flood set;
the first half makes the result closed when the queue is empty, the second makes it least.
`FloodIsTheRules` adds that the rounds of `Board` end at the same set (`RevealIsLeast`): a
round that adds nothing is followed by none that does, and there are no more rounds that add
something than there are cells (`RoundsEnd`).

`GameProofs` proves every property of `match_rules`, for every board, layout, odd number of
mines and bomb radius, from `BoardAssumption` and `MatchAssumption`; those of the bot's
conclusions, which come last, for every node budget too (`BudgetAssumption`). The
inductive invariant `Inv` has the types, the scores as cardinalities of claims, mines and
claims in agreement, and the relation of phase, turn and winner to the scores. The bound of
a score and the outcome need the lemma `ClaimsAddUp`: the two players' claims are disjoint
and together are the claimed mines, so the scores add up to their number; an odd number of
mines then excludes a level score on a full board. `TurnsResolve` and `BombsCatchUp` are
action properties from the same invariant. `NoHoleIsLeft` needs it too: a reveal is closed
within the hidden cells only, and a neighbour of a zero that is not hidden is open already,
as nothing but a mine is ever claimed.

`RoomServerProofs` proves every safety property of `RoomServer` that is checked to hold, for
any number of rooms, players, sockets and handlers, from `ServerAssumption` alone. The
argument has two layers. `TypeInv` says what a handler knows at each step (`Knows`: it has a
socket, its player has a seat, somebody has a seat in its room) and that a key is held by
exactly the handler inside a step of it (`LockOK`); `RegistryAgrees` belongs to it, since
the invariant needs nothing else for it. `RoomInv` rests on `CopiesOK`: what a handler
inside a step has read is the stored room but for its last activity, or, while it creates
one, contains every room there is. `OneGuestPerInvite`, `RoomCap` and `RoomsOnlyGrow` are
not inductive without it: a handler writes its copy back, or trusts its count. It holds
because whoever writes a room takes a free key or holds it, because a room is created only
where nobody had a seat (and a handler's room always has one), and because one handler at a
time holds the key for creation. `WrittenRooms` lists what a step can write in a room; the
action properties `RoomsOnlyGrow` and `CancelSparesGames` follow from it.

`SignalingProofs` proves every property of `signaling`, the refinement included, for any
number of processes, requests in flight, tabs and kinds of requests, and without a bound on
the clock but the one the specification names, from `RulesAssumption`, `SignalingAssumption`
and `RosterAssumption`. `TasksOK` says that the copy of a request about to save is a record
that it permits and that had not expired when it came in; a save that finds that copy in the
store is therefore a step of `SignalingRecords`, and every other step is its stutter, its
clock or its eviction (`ServedOneAtATime`). `StoreInv` is proved along the abstract steps:
what the service told and what it stores agree (`OneAnswer`), and an open attempt bears the
names of its claimants (`ClaimantsOnly`), which a replacement keeps because it drops the
attempt. `OutcomeOfAttempt` is the action property from the same invariant. The task runner
needs the order of a queue, which the code has nowhere: `QueueInv` says that there is one
(`\E ord`) in which each task awaits the one right before it and the tail is the last, so
that the task that awaits nothing is the first and the only one inside (`RunnerSerial`); a
tail is then deleted only by the last.

`P2PReconnectProofs` proves every property of `p2p_reconnect`, for any number of tabs,
instances, attempts and requests, from `RulesAssumption` and `ReconnectAssumption`.
A handler takes the world of the clients to another in several steps, so the invariant is
stated of a world and a record: `Good(w, c)`, with a lemma for each part of a handler
(`TeardownGood`, `BeginGood`, ...) and one for each action. A tab's binding is not inductive
alone: a peer must not lose the status it was bound with, which holds because an attempt
only tells a peer of the other side while it is early (`EarlySteps`) and a new attempt takes
a peer that nobody has used. `GuestRunGood` says that a guest's attempt has the peer of its
tab unless it was aborted in ICE; `CallGood` and `AttemptGood` follow an offer and the word
"reconnected" from a peer to the request under way and into the record.
`RecordSurvivesDisplacement` is the action property: a reply "gone" on its way to a client
means that there is no control session any more, as none is registered again. The types
(`TypeInv`) are stated of a world in the same way and carry what each step of an attempt may
be of: whose instance it is, and that what a poll has found is from the other side. They are
inductive relative to `IInv`, which says that an open attempt has a host's offer and that
only a host's tab retries.

`DirectMatchLemmas` and `DirectMatchProofs` prove every property of `direct_match`, for any
number of guests, channels, rounds, moves and messages and any history limit, from
`DirectAssumption` and the assumptions of the setup. A step of the match leaves the setup
alone or ends it (`MatchStep`). `SetupInv` says that a guest that was accepted, and the
answer that the host applied, are each the answer in the service's record; `OneGuestPerLink`
follows because they are the same one, and the invariant holds because an answer is never
replaced.

The rest is `MatchInv`, an invariant of both pages and of every message under way. None of
`GuestConverges`, `NothingBlocksForEver` or `HostSeesItsMatch` is inductive: each speaks of
a moment, and what makes it true is on its way. A *picture* is what the guest's page shows
of the room, `PictureAfter` what an event makes of it, and `Ends(v, es, c)` says that the
events es under way lead from v to c. `MatchInv` says of that c: on a live channel it is the
room (`Final`), unless the guest has yet to ask for the room (`Promised`, `Asks`); and that
what the page waits for is answered by a message under way, or asked for by one (`Owed`).
Nothing under way is later than the room (`AllPassed`), and the host's page agrees with it
within a round (`HostPage`). A fan-out that throws half-way has told one page and not the
other. It throws on a channel that is not open, where `Promised` says nothing: a new channel
starts with the guest asking. The invariant is stated of a state `w` and not of the
variables, as a handler takes a state to another in several steps; the lemmas of
`DirectMatchLemmas` follow a page through each event, and the host through each fan-out
(`Calm` holds between its steps), and `DirectMatchProofs` has one for each action.

`RefreshTakesNothingBack` states `HostNeverBehindGuest` of the behaviours in which
`HostKeepsItsRoom` holds throughout. Without that premise it is false, as finding 4 shows;
the premise is what `direct_match` has for a constraint, which the other theorems of this module
do without. Its invariant is `Recoverable`:
the match on record is the room's but for the guest's presence (`Backed`), a guest who may
come back was shown nothing later (`Trails`), and the host's page is in the room while it
has a peer (`Present`); `Backs` says of each step that it keeps the first two, and the third
if the premise does.

`GameProofs` also proves every property of `solo`, for every board, layout, number of mines
and level, and for writes that fail as they like. `ProgressIsSafe` needs `StoredOK`: what the page keeps is stored too, or the page
remembers that the player was told; without it the effect that runs again could restore the
page's copy and drop the notice. `BotTurnIsPending` is inductive by itself.

The two properties of the bot's conclusions are proved of every match (`Spec`) and of
every solo session (`SoloSpec`), in three steps. Every board that is played, and in a session
every board that is stored or kept, has only mines claimed and only safe cells open
(`BoardStaysRight`, `BoardsStayRight`), so that the public board the bot reads is one that
its mines show (`Shows`). In `BoardProofs`, then,
for any board `v` and any layout `l` that shows it: the rules prove nothing wrong about `l`
(`SettledSound`), the clues do not contradict each other (`NothingContradicts`), and what
`l` puts in a component is one of the placements the component may have
(`LayoutIsPossible`), so that what all of these agree on is right (`ProvenSound`). None of
this asks which groups were solved: one that was not only proves less. As it
is said of every layout, it is half of `ExactIsExact` (`ProvenIsAgreed`). The other half
(`AgreedIsProven`) has the premise that every group was solved, without which it is
false, as an estimate is never taken for certain. It builds layouts: a
placement of every component, and as many of the free cells as there are mines left, show
the board (`PlacementShows`), as every clue's undecided cells are in one component and no
two components meet (`ComponentsAreGood`); the totals are the numbers of mines of the
placements together (`TotalsMean`), so each placement that `Possible` admits is part of some
layout, and each cell not taken for certain differs between two (`NothingMissed`).

All of them rest on the named assumptions of the modules they extend and on nothing else;
TLC evaluates those in the runs.

Only model-checked is liveness, as it needs ENABLED: `FloodEnds`, `HandlersEnd`,
`EmptyRoomsGo`. Every other property of the passing runs is a theorem.

`BotAnalysis` and `Board` use recursive functions and folds, no RECURSIVE operator, so that
theorems may be stated in the modules above them.

## Not modelled

- *Hosted broadcasts.* `RoomServer` ends at the dispatch. That two handlers may send
  snapshots in the other order, and that a broadcast to a deleted room throws, are hazards
  listed with no property. A rematch whose second save fails is another.
- *Chat service* of the server: one command of the store appends and trims. The direct
  match's chat has the same rules and is modelled.
- *Heartbeat, admission, rate limits, shutdown:* windows and counters over addresses and
  times; what they do to the rooms is close sockets, which `RoomServer` has as hangups.
- *Client:* the hosted game's reconnect timer and the cancellation of a room in the
  controller; a second invitation and an answer pasted as a text in the setup; browser
  storage that fails in a direct match; preferences of level and size in solo play.
- *The bot's scores:* probabilities strictly between 0 and 1, and the weights that rank
  cells, are numeric work; the models let the bot take any of the cells they rank.
- *Views, sound, HTTP routing, configuration, logging:* no state of their own. *Schemas:* what
  they let through bounds the inputs of the models; of the recovery record's schema, what a match
  can break is in `DirectMatch`.
- *WebRTC, Redis, browser storage:* external. Their outcomes are choices: ICE fails or connects,
  a channel breaks on each side in its own time, a compare-and-swap is atomic, a write is refused.

## What is left

1. Broadcasts and the rematch with failing saves in `RoomServer`, with the controller of the
   hosted game behind a transport that delays and closes.
2. A refinement of the hosted room by the orchestrator of a direct match, and the composition of
   `P2PReconnect` with `DirectMatch` in place of `Pair`.
