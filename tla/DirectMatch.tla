---------------------------- MODULE DirectMatch ----------------------------
(***************************************************************************)
(* A direct match: the host's browser owns the room, the match and the     *)
(* chat, and serves its own page and, over a data channel, the guest's.    *)
(* The channel of a link breaks on each side at its own time; how the next *)
(* link is agreed on is in P2PReconnect, here it is one step (Pair).  The  *)
(* first link is set up step by step (DirectSetup); "guest" is, from then  *)
(* on, the one whose answer the host has applied.                          *)
(*                                                                         *)
(* The match is abstracted to its round, the number of its moves, whose    *)
(* turn it is, whether it is over, who votes for a rematch and whether the *)
(* guest is shown as online; the rules are in Match.  A player uses what   *)
(* the match page offers: nothing while the page shows no connection.      *)
(***************************************************************************)
EXTENDS DirectSetup, Sequences

CONSTANTS
    Texts, TooLong,      \* what a player may write, and what the host refuses
    HistoryLimit,        \* chatHistoryLimit
    MaxLinks, MaxMoves, MaxRounds, MaxChat  \* bounds

Players == {"host", "guest"}
Other(p) == IF p = "host" THEN "guest" ELSE "host"

Message == [id : Nat \ {0}, from : Players, text : Texts]
Match == [round : Nat \ {0}, moves : 0..MaxMoves, mover : Players \cup {None}, over : BOOLEAN,
          votes : SUBSET Players, guestOn : BOOLEAN]
Room == [guest : BOOLEAN, match : Match \cup {None}, chat : Seq(Message), said : Nat,
         starter : Players]
View == [session : BOOLEAN, match : Match \cup {None}, chat : Seq(Message),
         draft : Texts \cup {None}, pending : Texts \cup {None},
         moving : BOOLEAN, returning : BOOLEAN]

ASSUME DirectAssumption ==
    /\ HistoryLimit \in Nat \ {0} /\ MaxMoves \in Nat \ {0} /\ MaxRounds \in Nat \ {0}
    /\ MaxLinks \in Nat \ {0} /\ MaxChat \in Nat
    /\ TooLong \subseteq Texts
    /\ None \notin Texts /\ None \notin Players /\ None \notin Match /\ None \notin Room

VARIABLES
    room,      \* P2PHostRuntimeState: what the orchestrator holds
    record,    \* the recovery record in the host's browser, or None
    side,      \* each end of the data channel, and the link it belongs to
    wire,      \* messages on their way to each player
    view,      \* GameClientStore and GameClientController of each player
    attempt,   \* each player's reconnect attempt
    online,    \* status of P2PHostGameClientTransport
    control,   \* hostReconnectControl
    saved,     \* whether the guest's browser stores a recovery record
    finalized, \* hostSessionFinalized
    links      \* links made so far

matchVars == <<room, record, side, wire, view, attempt, online, control, saved, finalized,
               links>>
vars == <<matchVars, setupVars>>

NoView == [session |-> FALSE, match |-> None, chat |-> <<>>, draft |-> None,
           pending |-> None, moving |-> FALSE, returning |-> FALSE]

NewMatch(round, starter) == [round |-> round, moves |-> 0, mover |-> starter,
                             over |-> FALSE, votes |-> {}, guestOn |-> TRUE]

Now == [room |-> room, record |-> record, side |-> side, wire |-> wire, view |-> view,
        attempt |-> attempt, online |-> online, control |-> control, saved |-> saved,
        finalized |-> finalized, links |-> links, ok |-> TRUE]
Turned(w) ==
    /\ room' = w.room /\ record' = w.record /\ side' = w.side /\ wire' = w.wire
    /\ view' = w.view /\ attempt' = w.attempt /\ online' = w.online
    /\ control' = w.control /\ saved' = w.saved /\ finalized' = w.finalized
    /\ links' = w.links
Become(w) ==
    /\ Turned(w)
    /\ IF w.room.guest /\ ~room.guest THEN SetupOver ELSE UNCHANGED setupVars
-----------------------------------------------------------------------------
(***************************************************************************)
(* A page: GameClientController.handleServerEvent.                         *)
(***************************************************************************)
WithMatch(m) == [type |-> "match", match |-> m]
Votes(m) == [type |-> "votes", votes |-> m.votes]
History(r) == [type |-> "history", chat |-> r.chat]
Plain(type) == [type |-> type]

Written(chat, p, text) ==
    \E i \in DOMAIN chat : chat[i].from = p /\ chat[i].text = text
KnownIn(chat, m) == \E i \in DOMAIN chat : chat[i].id = m.id

WithMessage(v, p, m) ==
    [v EXCEPT !.chat = IF KnownIn(@, m) THEN @ ELSE Append(@, m),
              !.pending = IF m.from = p THEN None ELSE @]

\* applyHistory: a text that the history shows was delivered is not pending any more.
WithHistory(v, p, chat) ==
    [v EXCEPT !.chat = chat,
              !.pending = IF v.session /\ Written(chat, p, @) THEN None ELSE @]

\* rejectPending: the refused text is the draft again.
WithPendingRejected(v) ==
    [v EXCEPT !.draft = IF v.pending = None THEN @ ELSE v.pending, !.pending = None]

\* shouldApplyServerEvent: the page is in the room, or returns to it.
Applies(v) == v.session \/ v.returning

\* An event of that room.
Heard(v, p, e) ==
    CASE e.type = "history" -> WithHistory(v, p, e.chat)
      [] e.type = "room" -> [v EXCEPT !.session = TRUE, !.returning = FALSE]
      [] e.type = "match" -> [v EXCEPT !.match = e.match, !.moving = FALSE]
      [] e.type = "votes" -> IF v.match = None THEN v ELSE [v EXCEPT !.match.votes = e.votes]
      [] e.type = "message" -> WithMessage(v, p, e.message)
      [] e.type = "rejected" -> [v EXCEPT !.moving = FALSE]
      [] e.type = "chat-rejected" -> WithPendingRejected(v)

\* Wrong variant of Applied: a refused text is not answered to the page.
AppliedUnanswered(v, p, e) ==
    CASE e.type = "joined" -> [NoView EXCEPT !.session = TRUE]
      [] e.type = "error" -> IF v.returning THEN NoView ELSE [v EXCEPT !.moving = FALSE]
      [] e.type = "chat-rejected" -> v
      [] OTHER -> IF Applies(v) THEN Heard(v, p, e) ELSE v

Applied(v, p, e) ==
    CASE e.type = "joined" -> [NoView EXCEPT !.session = TRUE]
      [] e.type = "error" -> IF v.returning THEN NoView ELSE [v EXCEPT !.moving = FALSE]
      [] OTHER -> IF Applies(v) THEN Heard(v, p, e) ELSE v
-----------------------------------------------------------------------------
(***************************************************************************)
(* The channel and the fan-out of the host's events.                       *)
(***************************************************************************)
Up(s) == s.state \in {"open", "closing"}      \* the status says connected
Linked(w) == w.side["host"].link = w.side["guest"].link

\* What is sent on a link that the other end has left is lost.
Sent(w, p, e) == IF Linked(w) THEN [w EXCEPT !.wire[p] = Append(@, e)] ELSE w

\* What the schema of a record asks for: a live match has a mover and a finished one
\* has none, and there is no match without a guest.
SoundMatch(m) == m.over <=> m.mover = None
SoundRecord(r) == r.match # None => r.guest /\ SoundMatch(r.match)

\* createHostRecoveryRecord throws on any other state, and the record is removed.
HostRecord(r) == IF SoundRecord(r) THEN r ELSE None

\* What a page finds in its storage: a record that does not parse is removed.
StoredRecord == IF record # None /\ SoundRecord(record) THEN record ELSE None

\* persistCurrentHostRecoveryRecord, at a change of the host's store.  The browser's
\* storage takes every write.
Persisted(w) ==
    IF w.control = "none" THEN w
    ELSE [w EXCEPT !.record = IF w.room.guest THEN HostRecord(w.room) ELSE None]
Shown(w, e) ==
    LET v == w.view["host"]
        here == [w EXCEPT !.view["host"] = Applied(v, "host", e)]
    IN  IF Applies(v) THEN Persisted(here) ELSE here

\* Wrong variant of Fanned: the record is written before the room is stored.
FannedStale(w, s) ==
    LET here == IF "host" \notin s.to THEN w
                ELSE [w EXCEPT !.view["host"] = Applied(@, "host", s.event),
                               !.record = IF w.control \in {"registering", "sent"}
                                          THEN room ELSE @]
    IN  IF "guest" \notin s.to THEN here
        ELSE IF w.side["host"].state = "open" THEN Sent(here, "guest", s.event)
        ELSE [here EXCEPT !.ok = FALSE]

\* Wrong variant of Fanned: the guest first, and a throw keeps the event from the host.
FannedGuestFirst(w, s) ==
    IF "guest" \in s.to /\ w.side["host"].state # "open" THEN [w EXCEPT !.ok = FALSE]
    ELSE LET sent == IF "guest" \in s.to THEN Sent(w, "guest", s.event) ELSE w
         IN  IF "host" \in s.to THEN Shown(sent, s.event) ELSE sent

\* One step of emitP2PHostFanout: the host's own page first, and every change of
\* its store writes the record; then the guest, and a channel that is not open throws.
Fanned(w, s) ==
    LET here == IF "host" \notin s.to THEN w
                ELSE Shown(w, s.event)
    IN  IF "guest" \notin s.to THEN here
        ELSE IF w.side["host"].state = "open" THEN Sent(here, "guest", s.event)
        ELSE [here EXCEPT !.ok = FALSE]

Step(to, event) == [to |-> to, event |-> event]
\* Nothing follows a step that threw.
Then(w, s) == IF w.ok THEN Fanned(w, s) ELSE w
\* The room is stored, then the steps are emitted; this is the first.
Emit(w, r, s) == Then([w EXCEPT !.room = r], s)
-----------------------------------------------------------------------------
(***************************************************************************)
(* P2PHostOrchestrator.  m is the match, r the room.                       *)
(***************************************************************************)
\* The orchestrator at acceptGuest.
AcceptGuest(w) ==
    LET m == NewMatch(1, w.room.starter)
        r == [w.room EXCEPT !.guest = TRUE, !.match = m]
        joined == Then(Emit(w, r, Step({"guest"}, Plain("joined"))), Step({"guest"}, History(r)))
        e == Then(Then(joined, Step(Players, Plain("room"))), Step(Players, WithMatch(m)))
    IN  IF e.ok THEN [e EXCEPT !.control = "registering"] ELSE e

FinalizeGuestIfReady(w) ==
    IF w.finalized /\ Up(w.side["host"]) /\ ~w.room.guest THEN AcceptGuest(w) ELSE w

\* Wrong variant of Kept: the history is never cut.
KeptAll(chat) == chat

\* sendChat: message ids are given in order; the history keeps the last ones.
Kept(chat) == SubSeq(chat, IF Len(chat) > HistoryLimit THEN Len(chat) - HistoryLimit + 1 ELSE 1,
                     Len(chat))
SendChat(w, p, text) ==
    LET message == [id |-> w.room.said + 1, from |-> p, text |-> text]
        r == [w.room EXCEPT !.said = @ + 1, !.chat = Kept(Append(@, message))]
    IN  IF text \in TooLong THEN Emit(w, w.room, Step({p}, Plain("chat-rejected")))
        ELSE Emit(w, r, Step(Players, [type |-> "message", message |-> message]))

Ended(m) == [m EXCEPT !.over = TRUE, !.mover = None]
\* Bound: the last move ends the match.
Played(m, p, outcome) ==
    LET n == [m EXCEPT !.moves = @ + 1]
    IN  IF outcome = "win" \/ n.moves = MaxMoves THEN Ended(n)
        ELSE [n EXCEPT !.mover = IF outcome = "pass" THEN Other(p) ELSE p]

ApplyMatchAction(w, p, outcome) ==
    LET m == Played(w.room.match, p, outcome)
    IN  IF w.room.match.over \/ w.room.match.mover # p
        THEN Emit(w, w.room, Step({p}, Plain("rejected")))
        ELSE Emit(w, [w.room EXCEPT !.match = m], Step(Players, WithMatch(m)))

Resign(w, p) ==
    LET m == Ended(w.room.match)
    IN  IF w.room.match.over THEN Emit(w, w.room, Step({p}, Plain("rejected")))
        ELSE Emit(w, [w.room EXCEPT !.match = m], Step(Players, WithMatch(m)))

SetRematchRequest(w, p, requested) ==
    LET m == [w.room.match EXCEPT !.votes = IF requested THEN @ \cup {p} ELSE @ \ {p}]
        starter == Other(w.room.starter)
        new == NewMatch(w.room.match.round + 1, starter)
        started == [w.room EXCEPT !.match = new, !.starter = starter]
    IN  CASE ~w.room.match.over -> Emit(w, w.room, Step({p}, Plain("error")))
          [] w.room.match.over /\ m.votes = Players ->
                Then(Emit(w, started, Step(Players, Votes(new))), Step(Players, WithMatch(new)))
          [] OTHER -> Emit(w, [w.room EXCEPT !.match = m], Step(Players, Votes(m)))

\* Wrong variant of ReconnectGuest: the match before the room, which clears it.
ReconnectGuestBackwards(w) ==
    LET r == IF w.room.match = None THEN w.room ELSE [w.room EXCEPT !.match.guestOn = TRUE]
    IN  Then(Then(Emit(w, r, Step({"guest"}, WithMatch(r.match))),
                  Step({"guest"}, Plain("joined"))), Step({"guest"}, History(r)))

\* disconnectGuest and reconnectGuest.
DisconnectGuest(w) ==
    IF ~w.room.guest \/ ~w.room.match.guestOn THEN w
    ELSE LET r == [w.room EXCEPT !.match.guestOn = FALSE]
         IN  Emit(w, r, Step({"host"}, WithMatch(r.match)))

ReconnectGuest(w) ==
    LET r == [w.room EXCEPT !.match.guestOn = TRUE]
        joined == Then(Emit(w, r, Step({"guest"}, Plain("joined"))), Step({"guest"}, History(r)))
        told == Then(joined, Step({"guest"}, WithMatch(r.match)))
    IN  IF w.room.match.guestOn THEN told ELSE Then(told, Step({"host"}, WithMatch(r.match)))

\* A command of player p: applyRemoteGuestCommand, or a command of the host's own page.
Obey(w, p, c) ==
    CASE c.type = "move" -> ApplyMatchAction(w, p, c.outcome)
      [] c.type = "resign" -> Resign(w, p)
      [] c.type = "vote" -> SetRematchRequest(w, p, c.on)
      [] c.type = "chat" -> SendChat(w, p, c.text)
      [] c.type = "reconnect" -> ReconnectGuest(w)
-----------------------------------------------------------------------------
(***************************************************************************)
(* The pages' own side: what a player does, and what the channel does.     *)
(***************************************************************************)
Busy == attempt["host"] \in {"restoring", "running"}
\* The host's runtime passes a command on: it has a controller, and no attempt in flight.
PassesOn == ~Busy /\ side["host"].state # "dead"
\* The match page of p is shown with its connection up.
MayAct(p) ==
    /\ view[p].session /\ view[p].match # None
    /\ IF p = "host" THEN online /\ PassesOn ELSE Up(side[p])

\* sendEvent of either page: the host's is served at once, the guest's is sent.
\* ok tells whether it threw.
Submit(w, p, c) ==
    CASE p = "host" -> Obey(w, p, c)
      [] p = "guest" /\ w.side[p].state = "open" -> Sent(w, "host", c)
      [] OTHER -> [w EXCEPT !.ok = FALSE]

SubmitCellAction(p, outcome) ==
    LET c == [type |-> "move", outcome |-> outcome]
        w == Submit([Now EXCEPT !.view[p].moving = TRUE], p, c)
    IN  /\ MayAct(p) /\ ~view[p].match.over /\ view[p].match.mover = p /\ ~view[p].moving
        /\ Become(IF w.ok THEN w ELSE [w EXCEPT !.view[p].moving = FALSE])

ResignMatch(p) ==
    /\ MayAct(p) /\ ~view[p].match.over
    /\ Become(Submit(Now, p, [type |-> "resign"]))

\* One button: it requests a rematch, or withdraws the request.
Rematch(p) ==
    /\ MayAct(p) /\ view[p].match.over /\ view[p].match.round < MaxRounds
    /\ Become(Submit(Now, p, [type |-> "vote", on |-> p \notin view[p].match.votes]))

\* Bound: the texts stored and those under way.
FewTexts == room.said + Cardinality({i \in DOMAIN wire["host"] : wire["host"][i].type = "chat"})
                < MaxChat

\* A text is written and sent; one that could not be sent is still the draft.
SendChatMessage(p, text) ==
    LET w == Submit([Now EXCEPT !.view[p].draft = None, !.view[p].pending = text],
                    p, [type |-> "chat", text |-> text])
    IN  /\ MayAct(p) /\ view[p].draft \in {None, text} /\ view[p].pending = None /\ FewTexts
        /\ Become(IF w.ok THEN w
                  ELSE [w EXCEPT !.view[p].draft = text, !.view[p].pending = None])

\* A new peer, or none: what was sent to the old one is lost.
Fresh(w, p) == [w EXCEPT !.side[p] = [state |-> "new", link |-> 0], !.wire[p] = <<>>]
Dead(w, p) == [w EXCEPT !.side[p] = [state |-> "dead", link |-> 0], !.wire[p] = <<>>,
                        !.attempt[p] = "none", !.view[p].moving = FALSE]

\* reconnect and startReconnect of the guest.
GuestReturns(w) ==
    [Fresh(w, "guest") EXCEPT !.view["guest"] = [NoView EXCEPT !.returning = TRUE],
                              !.attempt["guest"] = "running"]

\* handlePeerClosed of the host, with replacePeer.
ReplacePeer(w) == [Fresh(w, "host") EXCEPT !.attempt["host"] = "running"]

\* startReconnect of the host: from the record, with the guest away.
HostReturns(w) ==
    LET restored == [w EXCEPT !.room = StoredRecord,
                              !.view["host"] = [NoView EXCEPT !.session = TRUE,
                                                              !.match = StoredRecord.match,
                                                              !.chat = StoredRecord.chat],
                              !.control = "sent"]
    IN  [DisconnectGuest(Fresh(restored, "host"))
            EXCEPT !.online = FALSE, !.attempt["host"] = "restoring"]

\* The end of ensureReconnectControlRegistered.
Registered ==
    /\ control = "registering" /\ side["host"].state = "open"
    /\ Become(Persisted(Sent([Now EXCEPT !.control = "sent"], "guest", Plain("recovery"))))
RegisterFails == control = "registering" /\ Become([Now EXCEPT !.control = "none"])

\* The channel opens on one side.
Open(p) ==
    LET opened == [Now EXCEPT !.side[p].state = "open", !.view[p].moving = FALSE,
                              !.view[p].returning = @ \/ view[p].session]
    IN  /\ side[p].state = "opening" /\ side[p].link # 0
        /\ Become(CASE p = "host" ->
                         FinalizeGuestIfReady(IF online
                             THEN [Now EXCEPT !.side[p].state = "open"]
                             ELSE Persisted([opened EXCEPT !.online = TRUE]))
                    [] p = "guest" /\ opened.view[p].returning ->
                         Sent(opened, "host", [type |-> "reconnect"])
                    [] OTHER -> opened)

\* It breaks, before the browser says so.
Break(p) == side[p].state = "open" /\ Become([Now EXCEPT !.side[p].state = "closing"])

\* handlePeerDown of the host's transport, then of its runtime.
HostLosesPeer(w) ==
    LET gone == DisconnectGuest(w)
        away == IF ~w.online THEN gone
                ELSE Persisted([gone EXCEPT !.online = FALSE, !.view["host"].moving = FALSE])
    IN  IF w.control # "none" /\ w.room.guest /\ ~Busy THEN ReplacePeer(away)
        ELSE [away EXCEPT !.side["host"] = [state |-> "lost", link |-> 0],
                          !.wire["host"] = <<>>]

GuestLosesPeer(w) ==
    IF w.saved /\ w.view["guest"].session /\ w.attempt["guest"] = "none"
    THEN GuestReturns(w) ELSE Dead(w, "guest")

CloseEvent(p) ==
    /\ side[p].state \in {"opening", "closing"}
    /\ Become(IF p = "host" THEN HostLosesPeer(Now) ELSE GuestLosesPeer(Now))

Deliver(p) ==
    LET e == Head(wire[p])
        w == [Now EXCEPT !.wire[p] = Tail(@)]
    IN  /\ wire[p] # <<>> /\ Up(side[p])
        /\ Become(IF p = "host" THEN Obey(w, "guest", e)
                  ELSE IF e.type = "recovery" THEN [w EXCEPT !.saved = TRUE]
                  ELSE [w EXCEPT !.view[p] = Applied(@, p, e)])

\* The service has brought the two new peers together (P2PReconnect).
Pair ==
    LET link == [state |-> "opening", link |-> links + 1]
    IN  /\ side["host"].state = "new" /\ side["guest"].state = "new"
        /\ Busy /\ attempt["guest"] = "running" /\ links < MaxLinks
        /\ Become([Now EXCEPT !.side = [p \in Players |-> link], !.links = @ + 1])

\* An attempt succeeds once its peer has been connected, whatever the peer is by then.
AttemptEnds(p) ==
    /\ attempt[p] \in {"restoring", "running"}
    /\ side[p].state \notin (IF p = "host" THEN {"new", "opening"} ELSE {"new"})
    /\ Become([Now EXCEPT !.attempt[p] = "none"])

AttemptFails(p) ==
    /\ attempt[p] \in {"restoring", "running"}
    /\ Become(CASE p = "host" /\ attempt[p] = "running" -> [Now EXCEPT !.attempt[p] = "retry"]
                [] p = "host" /\ attempt[p] = "restoring" ->
                      [Dead(Now, p) EXCEPT !.view[p] = NoView, !.online = FALSE]
                [] OTHER -> Dead(Now, p))

Retry ==
    /\ attempt["host"] = "retry" /\ control # "none"
    /\ Become(ReplacePeer(Now))

\* The setup's steps, with what they do to the peers.  The host applies an answer: a
\* channel is to come, unless the peer it answered for is gone.
FirstLink ==
    LET link == [state |-> "opening", link |-> 1]
    IN  /\ ApplyGuestAnswer
        /\ Turned(IF Counterpart # {}
                  THEN [Now EXCEPT !.side = [p \in Players |-> link], !.links = 1]
                  ELSE [Now EXCEPT !.side["host"].state = "opening", !.links = 1])

\* teardownFailedRuntime of the host's setup.
HostGone(w) == [Dead(w, "host") EXCEPT !.online = FALSE]

\* The service has finalized the session.  A channel that closes as the guest is let in
\* throws into the catch of startSetup, which takes the host out.
FinalizeSetup ==
    LET w == FinalizeGuestIfReady([Now EXCEPT !.finalized = TRUE])
    IN  FinalizeSession(w.room.guest) /\ Turned(IF w.ok THEN w ELSE HostGone(w))

HostSetupFails == FailHostSetup /\ Turned(HostGone(Now))

\* A guest who loads the page again, or joins again, leaves the peer it had.
GuestStartsOver(g) ==
    /\ OpenSetupSession(g) \/ Join(g)
    /\ Turned(IF g \in Counterpart /\ ~joining'[g].peer THEN Dead(Now, "guest") ELSE Now)

\* The steps of the setup that no peer of the match takes part in.
SetupGoesOn ==
    /\ \/ CreateHostOffer \/ CreateSession \/ PollForAnswer \/ Lapse
       \/ \E g \in Guests :
             \/ LoadSession(g) \/ RefreshSession(g) \/ CreateGuestAnswer(g)
             \/ SubmitAnswer(g) \/ SubmitFails(g) \/ PollForFinalization(g)
    /\ UNCHANGED matchVars

\* A player reloads the page, or opens the room again.
OpenRoom(p) ==
    IF p = "host" THEN StoredRecord # None /\ Become(HostReturns(Now))
    ELSE saved /\ Become(GuestReturns(Now))

Init ==
    /\ room = [guest |-> FALSE, match |-> None, chat |-> <<>>, said |-> 0, starter |-> "host"]
    /\ record = None
    /\ side = [p \in Players |-> [state |-> IF p = "host" THEN "new" ELSE "dead", link |-> 0]]
    /\ wire = [p \in Players |-> <<>>]
    /\ view = [p \in Players |-> [NoView EXCEPT !.session = p = "host"]]
    /\ attempt = [p \in Players |-> "none"]
    /\ online = TRUE /\ control = "none" /\ saved = FALSE /\ finalized = FALSE /\ links = 0
    /\ InitSetup

Next ==
    \/ \E p \in Players :
          \/ \E o \in {"keep", "pass", "win"} : SubmitCellAction(p, o)
          \/ ResignMatch(p) \/ Rematch(p)
          \/ \E text \in Texts : SendChatMessage(p, text)
          \/ Open(p) \/ Break(p) \/ CloseEvent(p) \/ Deliver(p)
          \/ AttemptEnds(p) \/ AttemptFails(p) \/ OpenRoom(p)
    \/ SetupGoesOn \/ FirstLink \/ FinalizeSetup \/ HostSetupFails
    \/ \E g \in Guests : GuestStartsOver(g)
    \/ Registered \/ RegisterFails \/ Pair \/ Retry

Spec == Init /\ [][Next]_vars
-----------------------------------------------------------------------------
\* The matches that the guest's page shows, or will show.
Snapshots == {view["guest"].match} \cup
             {wire["guest"][i].match : i \in {j \in DOMAIN wire["guest"] :
                                                 wire["guest"][j].type = "match"}}
Behind(m, n) == \/ m.round < n.round
                \/ m.round = n.round /\ m.moves < n.moves
                \/ m.round = n.round /\ m.moves = n.moves /\ (m.over => n.over)
Connected == /\ \A p \in Players : side[p].state = "open"
             /\ Linked(Now)
Suffix(s, t) == Len(s) <= Len(t) /\ s = SubSeq(t, Len(t) - Len(s) + 1, Len(t))
UnderWay(p, types) == \E i \in DOMAIN wire[p] : wire[p][i].type \in types

\* The variables keep their types: the host stores at most HistoryLimit messages,
\* each once, a page is never sent a second copy of one, and nobody waits for the
\* reply to a text and still has one to send.
TypeOK ==
    /\ room \in Room /\ record \in Room \cup {None}
    /\ room.guest <=> room.match # None
    /\ Len(room.chat) <= HistoryLimit
    /\ \A r \in {room} \cup ({record} \ {None}) :
          \A i, j \in DOMAIN r.chat : i < j => r.chat[i].id < r.chat[j].id
    /\ view \in [Players -> View]
    /\ \A p \in Players : view[p].pending = None \/ view[p].draft = None
    /\ \A p \in Players : \A i, j \in DOMAIN view[p].chat :
          i < j => view[p].chat[i].id < view[p].chat[j].id
    /\ side \in [Players -> [state : {"new", "opening", "open", "closing", "lost", "dead"},
                             link : 0..MaxLinks]]
    /\ attempt \in [Players -> {"none", "restoring", "running", "retry"}]
    /\ control \in {"none", "registering", "sent"}
    /\ online \in BOOLEAN /\ saved \in BOOLEAN /\ finalized \in BOOLEAN
    /\ SetupTypeOK

\* Whatever broke and was made again, a guest on an open channel with nothing under
\* way sees the host's match, and the end of its chat is the host's history.
GuestConverges ==
    Connected /\ (\A p \in Players : wire[p] = <<>>) /\ room.guest
        => /\ view["guest"].session
           /\ view["guest"].match = room.match
           /\ Suffix(room.chat, view["guest"].chat)

\* The page of a host who is connected, with the guest in the room, is in the room.
HostKeepsItsRoom == online /\ room.guest => view["host"].session

\* A reload of the host, which goes back to its record, never takes back what the
\* guest has been shown or is about to be (persist before the fan-out to the guest),
\* and while the guest can come back the host has a record to come back to.
HostNeverBehindGuest ==
    saved => /\ StoredRecord # None
             /\ \A m \in Snapshots : m # None => room.match # None /\ Behind(m, room.match)

\* A page blocks the next tap, or the next message, only while the reply to the last
\* one is still to come; when the channel breaks, the page is free again.
NothingBlocksForEver ==
    Connected =>
        /\ view["guest"].moving =>
              UnderWay("host", {"move"}) \/ UnderWay("guest", {"match", "rejected", "error"})
        /\ view["guest"].pending # None =>
              UnderWay("host", {"chat"}) \/ UnderWay("guest", {"message", "chat-rejected"})
        /\ ~view["host"].moving /\ view["host"].pending = None

\* The host's own page is never behind the match it serves, within one round, but
\* for the guest's presence: a fan-out that throws has shown the host its part first.
HostSeesItsMatch ==
    LET m == view["host"].match
    IN  m # None /\ m.round = room.match.round
            => [m EXCEPT !.guestOn = TRUE] = [room.match EXCEPT !.guestOn = TRUE]
=============================================================================
