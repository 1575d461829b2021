------------------------- MODULE DirectMatchLemmas -------------------------
(***************************************************************************)
(* The lemmas of a direct match: what each fan-out of the host's room does *)
(* to a state, and the invariant of the match with the steps of the host's *)
(* and the guest's runtimes that keep it.                                  *)
(*                                                                         *)
(* The guest's page is behind the room it is in, and the messages that are *)
(* under way to it say by how much: a "picture" is what the page shows of  *)
(* the room, and Ends(v, es, c) says that the events es lead from v to c.  *)
(***************************************************************************)
EXTENDS DirectMatch, TLAPS

-----------------------------------------------------------------------------
\* The fields of a state, and what one step of a fan-out does to them.

Shaped(w) ==
    /\ w = [room |-> w.room, record |-> w.record, side |-> w.side, wire |-> w.wire,
            view |-> w.view, attempt |-> w.attempt, online |-> w.online,
            control |-> w.control, saved |-> w.saved, finalized |-> w.finalized,
            links |-> w.links, ok |-> w.ok]
    /\ w.side = [p \in Players |-> w.side[p]]
    /\ w.wire = [p \in Players |-> w.wire[p]]
    /\ w.view = [p \in Players |-> w.view[p]]
    /\ w.attempt = [p \in Players |-> w.attempt[p]]

\* The fields that no fan-out changes.
Aside(u, w) ==
    /\ u.side = w.side /\ u.attempt = w.attempt /\ u.online = w.online
    /\ u.control = w.control /\ u.saved = w.saved /\ u.finalized = w.finalized
    /\ u.links = w.links

\* The room of a state is replaced.
LEMMA SetRoom ==
    ASSUME NEW w, Shaped(w), NEW r
    PROVE  LET u == [w EXCEPT !.room = r]
           IN  /\ Shaped(u) /\ Aside(u, w) /\ u.room = r /\ u.record = w.record
               /\ u.wire = w.wire /\ u.view = w.view /\ u.ok = w.ok
  BY DEF Shaped, Aside

\* Its record is.
LEMMA SetRecord ==
    ASSUME NEW w, Shaped(w), NEW r
    PROVE  LET u == [w EXCEPT !.record = r]
           IN  /\ Shaped(u) /\ Aside(u, w) /\ u.room = w.room /\ u.record = r
               /\ u.wire = w.wire /\ u.view = w.view /\ u.ok = w.ok
  BY DEF Shaped, Aside

\* The view of a page is.
LEMMA SetView ==
    ASSUME NEW w, Shaped(w), NEW p \in Players, NEW v
    PROVE  LET u == [w EXCEPT !.view[p] = v]
           IN  /\ Shaped(u) /\ Aside(u, w) /\ u.room = w.room /\ u.record = w.record
               /\ u.wire = w.wire /\ u.ok = w.ok
               /\ u.view[p] = v /\ \A q \in Players \ {p} : u.view[q] = w.view[q]
<1>1. PICK x : x = [w.view EXCEPT ![p] = v]
  OBVIOUS
<1>2. [w EXCEPT !.view[p] = v] = [w EXCEPT !.view = x]
  BY <1>1
<1> QED BY <1>1, <1>2 DEF Shaped, Aside

\* What is sent on a link that both ends are on is under way, and on no other.
LEMMA SentIs ==
    ASSUME NEW w, Shaped(w), NEW p \in Players, NEW e
    PROVE  LET u == Sent(w, p, e)
           IN  /\ Shaped(u) /\ Aside(u, w) /\ u.room = w.room /\ u.record = w.record
               /\ u.view = w.view /\ u.ok = w.ok
               /\ u.wire[p] = IF Linked(w) THEN Append(w.wire[p], e) ELSE w.wire[p]
               /\ \A q \in Players \ {p} : u.wire[q] = w.wire[q]
<1>1. PICK x : x = [w.wire EXCEPT ![p] = Append(@, e)]
  OBVIOUS
<1>2. [w EXCEPT !.wire[p] = Append(@, e)] = [w EXCEPT !.wire = x]
  BY <1>1
<1> QED BY <1>1, <1>2 DEF Shaped, Aside, Sent

\* What the host writes down at a change of its store.
LEMMA PersistedIs ==
    ASSUME NEW w, Shaped(w)
    PROVE  LET u == Persisted(w)
           IN  /\ Shaped(u) /\ Aside(u, w) /\ u.room = w.room
               /\ u.wire = w.wire /\ u.view = w.view /\ u.ok = w.ok
               /\ u.record = IF w.control = "none" THEN w.record
                             ELSE IF w.room.guest THEN HostRecord(w.room) ELSE None
<1>1. PICK r : r = IF w.room.guest THEN HostRecord(w.room) ELSE None
  OBVIOUS
<1>2. Persisted(w) = IF w.control = "none" THEN w ELSE [w EXCEPT !.record = r]
  BY <1>1 DEF Persisted
<1>3. PICK u : u = [w EXCEPT !.record = r]
  OBVIOUS
<1>4. /\ Shaped(u) /\ Aside(u, w) /\ u.room = w.room /\ u.record = r
      /\ u.wire = w.wire /\ u.view = w.view /\ u.ok = w.ok
  BY <1>3, SetRecord
<1> QED BY <1>1, <1>2, <1>3, <1>4 DEF Aside

\* What the host's page is shown, and what is written down with it.
LEMMA ShownIs ==
    ASSUME NEW w, Shaped(w), NEW e
    PROVE  LET u == Shown(w, e)
               v == w.view["host"]
           IN  /\ Shaped(u) /\ Aside(u, w) /\ u.room = w.room /\ u.wire = w.wire /\ u.ok = w.ok
               /\ u.view["host"] = Applied(v, "host", e) /\ u.view["guest"] = w.view["guest"]
               /\ u.record = IF ~Applies(v) \/ w.control = "none" THEN w.record
                             ELSE IF w.room.guest THEN HostRecord(w.room) ELSE None
<1>1. PICK here : here = [w EXCEPT !.view["host"] = Applied(w.view["host"], "host", e)]
  OBVIOUS
<1>2. /\ Shaped(here) /\ Aside(here, w) /\ here.room = w.room /\ here.record = w.record
      /\ here.wire = w.wire /\ here.ok = w.ok
      /\ here.view["host"] = Applied(w.view["host"], "host", e)
      /\ here.view["guest"] = w.view["guest"]
  BY <1>1, SetView DEF Players
<1>3. Shown(w, e) = IF Applies(w.view["host"]) THEN Persisted(here) ELSE here
  BY <1>1 DEF Shown
<1>4. /\ Shaped(Persisted(here)) /\ Aside(Persisted(here), here) /\ Persisted(here).room = here.room
      /\ Persisted(here).wire = here.wire /\ Persisted(here).view = here.view
      /\ Persisted(here).ok = here.ok
      /\ Persisted(here).record = IF here.control = "none" THEN here.record
                             ELSE IF here.room.guest THEN HostRecord(here.room) ELSE None
  BY <1>2, PersistedIs
<1> QED BY <1>2, <1>3, <1>4 DEF Aside

\* One step of a fan-out, of a room that is stored already.
LEMMA FannedIs ==
    ASSUME NEW w, Shaped(w), NEW s
    PROVE  LET u == Fanned(w, s)
               v == w.view["host"]
               open == w.side["host"].state = "open"
           IN  /\ Shaped(u) /\ Aside(u, w) /\ u.room = w.room
               /\ u.view["guest"] = w.view["guest"] /\ u.wire["host"] = w.wire["host"]
               /\ u.view["host"] = IF "host" \in s.to THEN Applied(v, "host", s.event) ELSE v
               /\ u.record = IF "host" \notin s.to \/ ~Applies(v) \/ w.control = "none" THEN w.record
                             ELSE IF w.room.guest THEN HostRecord(w.room) ELSE None
               /\ u.wire["guest"] = IF "guest" \in s.to /\ open /\ Linked(w)
                                    THEN Append(w.wire["guest"], s.event) ELSE w.wire["guest"]
               /\ u.ok = IF "guest" \in s.to /\ ~open THEN FALSE ELSE w.ok
<1>1. PICK here : here = IF "host" \notin s.to THEN w ELSE Shown(w, s.event)
  OBVIOUS
<1>2. /\ Shaped(here) /\ Aside(here, w) /\ here.room = w.room /\ here.wire = w.wire
      /\ here.ok = w.ok /\ here.view["guest"] = w.view["guest"]
      /\ here.view["host"] = IF "host" \in s.to THEN Applied(w.view["host"], "host", s.event)
                             ELSE w.view["host"]
      /\ here.record = IF "host" \notin s.to \/ ~Applies(w.view["host"]) \/ w.control = "none" THEN w.record
                             ELSE IF w.room.guest THEN HostRecord(w.room) ELSE None
  BY <1>1, ShownIs DEF Aside
<1>3. Fanned(w, s) = IF "guest" \notin s.to THEN here
                    ELSE IF w.side["host"].state = "open" THEN Sent(here, "guest", s.event)
                    ELSE [here EXCEPT !.ok = FALSE]
  BY <1>1 DEF Fanned
<1>4. CASE "guest" \notin s.to
  <2>1. PICK u : u = Fanned(w, s)
    OBVIOUS
  <2>2. u = here
    BY <1>3, <1>4, <2>1
  <2>3. /\ u.wire["guest"] = IF "guest" \in s.to /\ w.side["host"].state = "open" /\ Linked(w)
                             THEN Append(w.wire["guest"], s.event) ELSE w.wire["guest"]
        /\ u.ok = IF "guest" \in s.to /\ w.side["host"].state # "open" THEN FALSE ELSE w.ok
    BY <1>2, <1>4, <2>2
  <2> QED BY <1>2, <2>1, <2>2, <2>3 DEF Aside
<1>5. CASE "guest" \in s.to /\ w.side["host"].state = "open"
  <2>1. PICK u : u = Sent(here, "guest", s.event)
    OBVIOUS
  <2>2. /\ Shaped(u) /\ Aside(u, here) /\ u.room = here.room /\ u.record = here.record
        /\ u.view = here.view /\ u.ok = here.ok
        /\ u.wire["guest"] = IF Linked(here) THEN Append(here.wire["guest"], s.event)
                             ELSE here.wire["guest"]
        /\ u.wire["host"] = here.wire["host"]
    BY <1>2, <2>1, SentIs DEF Players
  <2>3. Linked(here) <=> Linked(w)
    BY <1>2 DEF Linked, Aside
  <2> QED BY <1>2, <1>3, <1>5, <2>1, <2>2, <2>3 DEF Aside
<1>6. CASE "guest" \in s.to /\ w.side["host"].state # "open"
  <2>1. PICK u : u = [here EXCEPT !.ok = FALSE]
    OBVIOUS
  <2>2. /\ Shaped(u) /\ Aside(u, here) /\ u.room = here.room /\ u.record = here.record
        /\ u.view = here.view /\ u.ok = FALSE /\ u.wire = here.wire
    BY <1>2, <2>1 DEF Shaped, Aside
  <2>3. Fanned(w, s) = u
    BY <1>3, <1>6, <2>1
  <2>4. u.ok = IF "guest" \in s.to /\ w.side["host"].state # "open" THEN FALSE ELSE w.ok
    BY <1>6, <2>2
  <2>5. u.wire["guest"] = IF "guest" \in s.to /\ w.side["host"].state = "open" /\ Linked(w)
                         THEN Append(w.wire["guest"], s.event) ELSE w.wire["guest"]
    BY <1>2, <1>6, <2>2
  <2> QED BY <1>2, <2>2, <2>3, <2>4, <2>5 DEF Aside
<1> QED BY <1>4, <1>5, <1>6

\* The fields of u, which is w once the room r is stored and the step s is emitted.
EmitFields(w, r, s, u) ==
    /\ Shaped(u) /\ Aside(u, w) /\ u.room = r
    /\ u.view["guest"] = w.view["guest"] /\ u.wire["host"] = w.wire["host"]
    /\ u.view["host"] = IF "host" \in s.to THEN Applied(w.view["host"], "host", s.event)
                        ELSE w.view["host"]
    /\ u.record = IF "host" \notin s.to \/ ~Applies(w.view["host"]) \/ w.control = "none"
                  THEN w.record ELSE IF r.guest THEN HostRecord(r) ELSE None
    /\ u.wire["guest"] = IF "guest" \in s.to /\ w.side["host"].state = "open" /\ Linked(w)
                         THEN Append(w.wire["guest"], s.event) ELSE w.wire["guest"]
    /\ u.ok = IF "guest" \in s.to /\ w.side["host"].state # "open" THEN FALSE ELSE w.ok

\* The first step of a fan-out, with the room that it stores.
LEMMA EmitIs ==
    ASSUME NEW w, Shaped(w), w.ok, NEW r, NEW s
    PROVE  EmitFields(w, r, s, Emit(w, r, s))
<1>1. PICK n : n = [w EXCEPT !.room = r]
  OBVIOUS
<1>2. /\ Shaped(n) /\ Aside(n, w) /\ n.room = r /\ n.record = w.record
      /\ n.wire = w.wire /\ n.view = w.view /\ n.ok = w.ok
  BY <1>1, SetRoom
<1>3. Emit(w, r, s) = Fanned(n, s)
  BY <1>1, <1>2 DEF Emit, Then
<1>4. Linked(n) <=> Linked(w)
  BY <1>2 DEF Linked, Aside
<1>5. PICK u : u = Fanned(n, s)
  OBVIOUS
<1>6. /\ Shaped(u) /\ Aside(u, n) /\ u.room = n.room
      /\ u.view["guest"] = n.view["guest"] /\ u.wire["host"] = n.wire["host"]
      /\ u.view["host"] = IF "host" \in s.to THEN Applied(n.view["host"], "host", s.event)
                          ELSE n.view["host"]
      /\ u.record = IF "host" \notin s.to \/ ~Applies(n.view["host"]) \/ n.control = "none"
                    THEN n.record ELSE IF n.room.guest THEN HostRecord(n.room) ELSE None
      /\ u.wire["guest"] = IF "guest" \in s.to /\ n.side["host"].state = "open" /\ Linked(n)
                           THEN Append(n.wire["guest"], s.event) ELSE n.wire["guest"]
      /\ u.ok = IF "guest" \in s.to /\ n.side["host"].state # "open" THEN FALSE ELSE n.ok
  BY <1>2, <1>5, FannedIs
<1> QED BY <1>2, <1>3, <1>4, <1>5, <1>6 DEF Aside, EmitFields

-----------------------------------------------------------------------------
\* A page that hears an event.

\* A view with its fields.
Formed(v) ==
    v = [session |-> v.session, match |-> v.match, chat |-> v.chat, draft |-> v.draft,
         pending |-> v.pending, moving |-> v.moving, returning |-> v.returning]

\* The fields of a page's view.
LEMMA ViewFormed ==
    ASSUME NEW v
    PROVE  v \in View <=> /\ Formed(v) /\ v.session \in BOOLEAN /\ v.match \in Match \cup {None}
                          /\ v.chat \in Seq(Message) /\ v.draft \in Texts \cup {None}
                          /\ v.pending \in Texts \cup {None} /\ v.moving \in BOOLEAN
                          /\ v.returning \in BOOLEAN
  BY DEF View, Formed

\* v with other values of some fields.
LEMMA ViewWith ==
    ASSUME NEW v, Formed(v), NEW x
    PROVE  /\ [v EXCEPT !.match = x] = [session |-> v.session, match |-> x, chat |-> v.chat,
                  draft |-> v.draft, pending |-> v.pending, moving |-> v.moving,
                  returning |-> v.returning]
           /\ [v EXCEPT !.chat = x] = [session |-> v.session, match |-> v.match, chat |-> x,
                  draft |-> v.draft, pending |-> v.pending, moving |-> v.moving,
                  returning |-> v.returning]
           /\ [v EXCEPT !.draft = x] = [session |-> v.session, match |-> v.match, chat |-> v.chat,
                  draft |-> x, pending |-> v.pending, moving |-> v.moving,
                  returning |-> v.returning]
           /\ [v EXCEPT !.pending = x] = [session |-> v.session, match |-> v.match,
                  chat |-> v.chat, draft |-> v.draft, pending |-> x, moving |-> v.moving,
                  returning |-> v.returning]
           /\ [v EXCEPT !.moving = x] = [session |-> v.session, match |-> v.match, chat |-> v.chat,
                  draft |-> v.draft, pending |-> v.pending, moving |-> x,
                  returning |-> v.returning]
           /\ [v EXCEPT !.session = x] = [session |-> x, match |-> v.match, chat |-> v.chat,
                  draft |-> v.draft, pending |-> v.pending, moving |-> v.moving,
                  returning |-> v.returning]
           /\ [v EXCEPT !.returning = x] = [session |-> v.session, match |-> v.match,
                  chat |-> v.chat, draft |-> v.draft, pending |-> v.pending,
                  moving |-> v.moving, returning |-> x]
  BY DEF Formed

\* A history replaces the chat.
LEMMA HistoryHeard ==
    ASSUME NEW v, Formed(v), NEW p, NEW chat
    PROVE  LET u == WithHistory(v, p, chat)
           IN  /\ Formed(u) /\ u.session = v.session /\ u.match = v.match /\ u.chat = chat
               /\ u.draft = v.draft /\ u.pending \in {None, v.pending} /\ u.moving = v.moving
               /\ u.returning = v.returning
<1>1. PICK x : x = IF v.session /\ Written(chat, p, v.pending) THEN None ELSE v.pending
  OBVIOUS
<1>2. PICK a : a = [v EXCEPT !.chat = chat]
  OBVIOUS
<1>3. PICK u : u = [a EXCEPT !.pending = x]
  OBVIOUS
<1>4. u = WithHistory(v, p, chat)
  BY <1>1, <1>2, <1>3 DEF WithHistory
<1>5. Formed(a) /\ a.session = v.session /\ a.match = v.match /\ a.chat = chat
      /\ a.draft = v.draft /\ a.pending = v.pending /\ a.moving = v.moving
      /\ a.returning = v.returning
  BY <1>2, ViewWith DEF Formed
<1>6. /\ Formed(u) /\ u.session = a.session /\ u.match = a.match /\ u.chat = a.chat
      /\ u.draft = a.draft /\ u.pending = x /\ u.moving = a.moving
      /\ u.returning = a.returning
  BY <1>3, <1>5, ViewWith DEF Formed
<1>7. x \in {None, v.pending}
  BY <1>1
<1> QED BY <1>4, <1>5, <1>6, <1>7

\* A message is added, unless it is known.
LEMMA MessageHeard ==
    ASSUME NEW v, Formed(v), NEW p, NEW m
    PROVE  LET u == WithMessage(v, p, m)
           IN  /\ Formed(u) /\ u.session = v.session /\ u.match = v.match
               /\ u.chat = IF KnownIn(v.chat, m) THEN v.chat ELSE Append(v.chat, m)
               /\ u.draft = v.draft /\ u.pending = (IF m.from = p THEN None ELSE v.pending)
               /\ u.moving = v.moving /\ u.returning = v.returning
<1>1. PICK x : x = IF KnownIn(v.chat, m) THEN v.chat ELSE Append(v.chat, m)
  OBVIOUS
<1>2. PICK y : y = IF m.from = p THEN None ELSE v.pending
  OBVIOUS
<1>3. PICK a : a = [v EXCEPT !.chat = x]
  OBVIOUS
<1>4. PICK u : u = [a EXCEPT !.pending = y]
  OBVIOUS
<1>5. u = WithMessage(v, p, m)
  BY <1>1, <1>2, <1>3, <1>4 DEF WithMessage
<1>6. Formed(a) /\ a.session = v.session /\ a.match = v.match /\ a.chat = x
      /\ a.draft = v.draft /\ a.pending = v.pending /\ a.moving = v.moving
      /\ a.returning = v.returning
  BY <1>3, ViewWith DEF Formed
<1>7. /\ Formed(u) /\ u.session = a.session /\ u.match = a.match /\ u.chat = a.chat
      /\ u.draft = a.draft /\ u.pending = y /\ u.moving = a.moving
      /\ u.returning = a.returning
  BY <1>4, <1>6, ViewWith DEF Formed
<1> QED BY <1>1, <1>2, <1>5, <1>6, <1>7

\* A text that is refused is in the draft again.
LEMMA PendingRejected ==
    ASSUME NEW v, Formed(v)
    PROVE  LET u == WithPendingRejected(v)
           IN  /\ Formed(u) /\ u.session = v.session /\ u.match = v.match /\ u.chat = v.chat
               /\ u.draft = (IF v.pending = None THEN v.draft ELSE v.pending) /\ u.pending = None
               /\ u.moving = v.moving /\ u.returning = v.returning
<1>1. PICK x : x = IF v.pending = None THEN v.draft ELSE v.pending
  OBVIOUS
<1>2. PICK a : a = [v EXCEPT !.draft = x]
  OBVIOUS
<1>3. PICK u : u = [a EXCEPT !.pending = None]
  OBVIOUS
<1>4. u = WithPendingRejected(v)
  BY <1>1, <1>2, <1>3 DEF WithPendingRejected
<1>5. Formed(a) /\ a.session = v.session /\ a.match = v.match /\ a.chat = v.chat
      /\ a.draft = x /\ a.pending = v.pending /\ a.moving = v.moving
      /\ a.returning = v.returning
  BY <1>2, ViewWith DEF Formed
<1>6. /\ Formed(u) /\ u.session = a.session /\ u.match = a.match /\ u.chat = a.chat
      /\ u.draft = a.draft /\ u.pending = None /\ u.moving = a.moving
      /\ u.returning = a.returning
  BY <1>3, <1>5, ViewWith DEF Formed
<1> QED BY <1>1, <1>4, <1>5, <1>6

\* The page is in the room; it shows match m, or its votes; it waits for no reply.
InRoom(v, yes, no) == [v EXCEPT !.session = yes, !.returning = no]
Showing(v, m, no) == [v EXCEPT !.match = m, !.moving = no]
Freed(v, no) == [v EXCEPT !.moving = no]
WithVotes(v, votes) == [v EXCEPT !.match.votes = votes]

\* The page hears of the room.
LEMMA RoomHeard ==
    ASSUME NEW v, Formed(v), NEW yes, NEW no,
           NEW u, u = InRoom(v, yes, no)
    PROVE  /\ Formed(u) /\ u.session = yes /\ u.match = v.match /\ u.chat = v.chat
           /\ u.draft = v.draft /\ u.pending = v.pending /\ u.moving = v.moving
           /\ u.returning = no
<1>1. PICK a : a = [v EXCEPT !.session = yes]
  OBVIOUS
<1>2. PICK d : d = [a EXCEPT !.returning = no]
  OBVIOUS
<1>3. d = InRoom(v, yes, no)
  BY <1>1, <1>2 DEF InRoom
<1>4. /\ Formed(d) /\ d.session = yes /\ d.match = v.match /\ d.chat = v.chat
      /\ d.draft = v.draft /\ d.pending = v.pending /\ d.moving = v.moving
      /\ d.returning = no
  BY <1>1, <1>2, ViewWith DEF Formed
<1> QED BY <1>3, <1>4

\* The page hears of the match.
LEMMA MatchHeard ==
    ASSUME NEW v, Formed(v), NEW m, NEW no,
           NEW u, u = Showing(v, m, no)
    PROVE  /\ Formed(u) /\ u.session = v.session /\ u.match = m /\ u.chat = v.chat
           /\ u.draft = v.draft /\ u.pending = v.pending /\ u.moving = no
           /\ u.returning = v.returning
<1>1. PICK a : a = [v EXCEPT !.match = m]
  OBVIOUS
<1>2. PICK d : d = [a EXCEPT !.moving = no]
  OBVIOUS
<1>3. d = Showing(v, m, no)
  BY <1>1, <1>2 DEF Showing
<1>4. /\ Formed(d) /\ d.session = v.session /\ d.match = m /\ d.chat = v.chat
      /\ d.draft = v.draft /\ d.pending = v.pending /\ d.moving = no
      /\ d.returning = v.returning
  BY <1>1, <1>2, ViewWith DEF Formed
<1> QED BY <1>3, <1>4

-----------------------------------------------------------------------------
\* The matches.

\* The page of one who joins.
Arrived(yes) == [NoView EXCEPT !.session = yes]

\* A page that is in no room, and one that has just come in.
LEMMA Empty ==
    ASSUME NEW yes, NEW f
    PROVE  /\ Formed(NoView) /\ ~NoView.session /\ ~NoView.returning /\ ~NoView.moving
           /\ NoView.match = None /\ NoView.chat = <<>> /\ NoView.draft = None
           /\ NoView.pending = None
           /\ NoView.session \in BOOLEAN /\ NoView.returning \in BOOLEAN /\ NoView.moving \in BOOLEAN
           /\ LET u == Arrived(yes)
              IN  /\ Formed(u) /\ u.session = yes /\ ~u.returning /\ ~u.moving
                  /\ u.returning \in BOOLEAN /\ u.moving \in BOOLEAN
                  /\ u.match = None /\ u.chat = <<>> /\ u.draft = None /\ u.pending = None
           /\ LET u == [NoView EXCEPT !.returning = yes]
              IN  /\ Formed(u) /\ ~u.session /\ u.returning = yes /\ ~u.moving
                  /\ u.session \in BOOLEAN /\ u.moving \in BOOLEAN
                  /\ u.match = None /\ u.chat = <<>> /\ u.draft = None /\ u.pending = None
<1>1. PICK no : no = FALSE
  OBVIOUS
<1>2. NoView = [session |-> no, match |-> None, chat |-> <<>>, draft |-> None,
                pending |-> None, moving |-> no, returning |-> no]
  BY <1>1 DEF NoView
<1>3. no \in BOOLEAN /\ ~no
  BY <1>1
<1> QED BY <1>2, <1>3 DEF Formed, Arrived

\* What a page makes of an event; p does not matter but for the texts.
LEMMA AppliedIs ==
    ASSUME NEW v, NEW p, NEW e
    PROVE  /\ e.type = "joined" => Applied(v, p, e) = Arrived(TRUE)
           /\ e.type = "error" /\ v.returning => Applied(v, p, e) = NoView
           /\ e.type = "error" /\ ~v.returning => Applied(v, p, e) = Freed(v, FALSE)
           /\ e.type \notin {"joined", "error"} /\ ~Applies(v) => Applied(v, p, e) = v
           /\ Applies(v) =>
                /\ e.type = "history" => Applied(v, p, e) = WithHistory(v, p, e.chat)
                /\ e.type = "room" => Applied(v, p, e) = InRoom(v, TRUE, FALSE)
                /\ e.type = "match" => Applied(v, p, e) = Showing(v, e.match, FALSE)
                /\ e.type = "votes" => Applied(v, p, e) = IF v.match = None THEN v
                     ELSE WithVotes(v, e.votes)
                /\ e.type = "message" => Applied(v, p, e) = WithMessage(v, p, e.message)
                /\ e.type = "rejected" => Applied(v, p, e) = Freed(v, FALSE)
                /\ e.type = "chat-rejected" => Applied(v, p, e) = WithPendingRejected(v)
  BY DEF Applied, Heard, Freed, InRoom, Showing, WithVotes, Arrived

\* A match with other votes, moves or presence.
LEMMA MatchFormed ==
    ASSUME NEW m
    PROVE  m \in Match <=>
              /\ m = [round |-> m.round, moves |-> m.moves, mover |-> m.mover, over |-> m.over,
                      votes |-> m.votes, guestOn |-> m.guestOn]
              /\ m.round \in Nat \ {0} /\ m.moves \in 0..MaxMoves
              /\ m.mover \in Players \cup {None} /\ m.over \in BOOLEAN
              /\ m.votes \in SUBSET Players /\ m.guestOn \in BOOLEAN
  BY DEF Match

\* One field of a match is replaced.
LEMMA MatchWith ==
    ASSUME NEW m \in Match, NEW x
    PROVE  /\ [m EXCEPT !.votes = x] = [round |-> m.round, moves |-> m.moves, mover |-> m.mover,
                  over |-> m.over, votes |-> x, guestOn |-> m.guestOn]
           /\ [m EXCEPT !.guestOn = x] = [round |-> m.round, moves |-> m.moves,
                  mover |-> m.mover, over |-> m.over, votes |-> m.votes, guestOn |-> x]
           /\ [m EXCEPT !.moves = x] = [round |-> m.round, moves |-> x, mover |-> m.mover,
                  over |-> m.over, votes |-> m.votes, guestOn |-> m.guestOn]
           /\ [m EXCEPT !.mover = x] = [round |-> m.round, moves |-> m.moves, mover |-> x,
                  over |-> m.over, votes |-> m.votes, guestOn |-> m.guestOn]
           /\ [m EXCEPT !.over = x] = [round |-> m.round, moves |-> m.moves, mover |-> m.mover,
                  over |-> x, votes |-> m.votes, guestOn |-> m.guestOn]
  BY DEF Match

\* The same match, but for whether the guest is shown as online.
Same(m, n) ==
    /\ m.round = n.round /\ m.moves = n.moves /\ m.mover = n.mover
    /\ m.over = n.over /\ m.votes = n.votes

\* Two matches that differ at most in the guest's presence.
LEMMA SameIs ==
    ASSUME NEW m \in Match, NEW n \in Match
    PROVE  Same(m, n) <=> [m EXCEPT !.guestOn = TRUE] = [n EXCEPT !.guestOn = TRUE]
<1>1. PICK yes : yes = TRUE
  OBVIOUS
<1>2. [m EXCEPT !.guestOn = yes] = [round |-> m.round, moves |-> m.moves,
                  mover |-> m.mover, over |-> m.over, votes |-> m.votes, guestOn |-> yes]
  BY MatchWith
<1>3. [n EXCEPT !.guestOn = yes] = [round |-> n.round, moves |-> n.moves,
                  mover |-> n.mover, over |-> n.over, votes |-> n.votes, guestOn |-> yes]
  BY MatchWith
<1>4. ([m EXCEPT !.guestOn = yes] = [n EXCEPT !.guestOn = yes]) <=> Same(m, n)
  BY <1>2, <1>3 DEF Same
<1> QED BY <1>1, <1>4

\* The rules of the abstracted match.
LEMMA EndedIs ==
    ASSUME NEW m \in Match
    PROVE  LET n == Ended(m)
           IN  n \in Match /\ n.over /\ n.mover = None /\ n.round = m.round /\ n.moves = m.moves
<1>1. PICK yes : yes = TRUE
  OBVIOUS
<1>2. PICK a : a = [m EXCEPT !.over = yes]
  OBVIOUS
<1>3. PICK n : n = [a EXCEPT !.mover = None]
  OBVIOUS
<1>4. n = Ended(m)
  BY <1>1, <1>2, <1>3 DEF Ended
<1>5. a = [round |-> m.round, moves |-> m.moves, mover |-> m.mover,
                  over |-> yes, votes |-> m.votes, guestOn |-> m.guestOn]
  BY <1>2, MatchWith
<1>6. n = [round |-> m.round, moves |-> m.moves, mover |-> None,
                  over |-> yes, votes |-> m.votes, guestOn |-> m.guestOn]
  BY <1>3, <1>5
<1>7. yes \in BOOLEAN
  BY <1>1
<1>8. n \in Match
  BY <1>6, <1>7, MatchFormed
<1>9. n.over = yes
  BY <1>6
<1>10. n.over
  BY <1>1, <1>9
<1> QED BY <1>4, <1>6, <1>8, <1>10

\* A move goes on with the match.
LEMMA PlayedIs ==
    ASSUME NEW m \in Match, ~m.over, m.mover # None, m.moves < MaxMoves,
           NEW p \in Players, NEW outcome
    PROVE  LET n == Played(m, p, outcome)
           IN  /\ n \in Match /\ n.round = m.round /\ n.moves = m.moves + 1 /\ SoundMatch(n)
               /\ ~n.over => n.moves < MaxMoves
<1> USE DirectAssumption
<1>1. PICK a : a = [m EXCEPT !.moves = @ + 1]
  OBVIOUS
<1>2. a = [round |-> m.round, moves |-> m.moves + 1, mover |-> m.mover,
                  over |-> m.over, votes |-> m.votes, guestOn |-> m.guestOn]
  BY <1>1, MatchWith
<1>3. m.moves + 1 \in 0..MaxMoves
  BY MatchFormed
<1>4. a \in Match
  BY <1>2, <1>3, MatchFormed
<1>5. PICK q : q = IF outcome = "pass" THEN Other(p) ELSE p
  OBVIOUS
<1>6. q \in Players
  BY <1>5 DEF Other, Players
<1>7. PICK n : n = [a EXCEPT !.mover = q]
  OBVIOUS
<1>8. n = [round |-> m.round, moves |-> m.moves + 1, mover |-> q,
                  over |-> m.over, votes |-> m.votes, guestOn |-> m.guestOn]
  BY <1>2, <1>7
<1>9. n \in Match
  BY <1>6, <1>3, <1>8, MatchFormed
<1>10. Played(m, p, outcome) = IF outcome = "win" \/ a.moves = MaxMoves THEN Ended(a) ELSE n
  BY <1>1, <1>5, <1>7 DEF Played
<1>11. a.moves = m.moves + 1 /\ a.round = m.round
  BY <1>2
<1>12. n.moves = m.moves + 1 /\ n.round = m.round /\ n.over = m.over /\ n.mover = q
  BY <1>8
<1>13. q # None
  BY <1>6
<1>14. CASE outcome = "win" \/ a.moves = MaxMoves
  <2>1. PICK d : d = Ended(a)
    OBVIOUS
  <2>2. d \in Match /\ d.over /\ d.mover = None /\ d.round = a.round /\ d.moves = a.moves
    BY <1>4, <2>1, EndedIs
  <2> QED BY <1>10, <1>11, <1>14, <2>1, <2>2 DEF SoundMatch
<1>15. CASE ~(outcome = "win" \/ a.moves = MaxMoves)
  <2>1. m.moves + 1 < MaxMoves
    BY <1>3, <1>11, <1>15
  <2>2. ~n.over
    BY <1>12
  <2> QED BY <1>9, <1>10, <1>12, <1>13, <1>15, <2>1, <2>2 DEF SoundMatch
<1> QED BY <1>14, <1>15

\* A new match, before its first move.
LEMMA NewMatchIs ==
    ASSUME NEW round \in Nat \ {0}, NEW p \in Players
    PROVE  LET n == NewMatch(round, p)
           IN  /\ n \in Match /\ n.round = round /\ n.moves = 0 /\ SoundMatch(n) /\ ~n.over
               /\ n.votes = {}
<1> USE DirectAssumption
<1>1. PICK no : no = FALSE
  OBVIOUS
<1>2. PICK yes : yes = TRUE
  OBVIOUS
<1>3. PICK n : n = [round |-> round, moves |-> 0, mover |-> p, over |-> no, votes |-> {},
                    guestOn |-> yes]
  OBVIOUS
<1>4. n = NewMatch(round, p)
  BY <1>1, <1>2, <1>3 DEF NewMatch
<1>5. no \in BOOLEAN /\ yes \in BOOLEAN
  BY <1>1, <1>2
<1>6. n \in Match
  BY <1>3, <1>5 DEF Match
<1>7. n.over = no /\ n.mover = p /\ n.round = round /\ n.moves = 0 /\ n.votes = {}
  BY <1>3
<1>8. ~n.over /\ n.mover # None
  BY <1>1, <1>7
<1> QED BY <1>4, <1>6, <1>7, <1>8 DEF SoundMatch

-----------------------------------------------------------------------------
\* What the guest's page shows once what is under way has arrived.

Rises(chat) == \A i, j \in DOMAIN chat : i < j => chat[i].id < chat[j].id
UpTo(chat, n) == \A i \in DOMAIN chat : chat[i].id <= n

\* What the host sends to the guest, and the guest to the host.
Event == [type : {"match"}, match : Match] \cup [type : {"votes"}, votes : SUBSET Players]
         \cup [type : {"history"}, chat : Seq(Message)]
         \cup [type : {"message"}, message : Message]
         \cup [type : {"joined", "room", "rejected", "error", "chat-rejected", "recovery"}]
Command == [type : {"move"}, outcome : {"keep", "pass", "win"}]
           \cup [type : {"resign", "reconnect"}]
           \cup [type : {"vote"}, on : BOOLEAN] \cup [type : {"chat"}, text : Texts]

\* The guest's page, as far as the match and the chat go.
Pictures == [at : {"in", "returning", "out"}, match : Match \cup {None}, chat : Seq(Message)]
Picture(v) == [at |-> IF v.session THEN "in" ELSE IF v.returning THEN "returning" ELSE "out",
               match |-> v.match, chat |-> v.chat]

\* What becomes of it when the page hears an event.
PictureAfter(c, e) ==
    CASE e.type = "joined" -> [at |-> "in", match |-> None, chat |-> <<>>]
      [] e.type = "error" /\ c.at = "returning" -> [at |-> "out", match |-> None, chat |-> <<>>]
      [] e.type = "history" /\ c.at # "out" -> [c EXCEPT !.chat = e.chat]
      [] e.type = "room" /\ c.at # "out" -> [c EXCEPT !.at = "in"]
      [] e.type = "match" /\ c.at # "out" -> [c EXCEPT !.match = e.match]
      [] e.type = "votes" /\ c.at # "out" /\ c.match # None -> [c EXCEPT !.match.votes = e.votes]
      [] e.type = "message" /\ c.at # "out" /\ ~KnownIn(c.chat, e.message) ->
            [c EXCEPT !.chat = Append(@, e.message)]
      [] OTHER -> c

\* f is the picture after each of the events es, from v to c.
Leads(f, v, es, c) ==
    /\ f \in [0..Len(es) -> Pictures]
    /\ f[0] = v /\ f[Len(es)] = c
    /\ \A i \in 1..Len(es) : f[i] = PictureAfter(f[i - 1], es[i])
    /\ \A i \in 0..Len(es) : Rises(f[i].chat)
Ends(v, es, c) == \E f : Leads(f, v, es, c)

\* What an event says, by its type.
LEMMA EventIs ==
    ASSUME NEW e \in Event
    PROVE  /\ e.type \in {"joined", "error", "history", "room", "match", "votes", "message",
                          "rejected", "chat-rejected", "recovery"}
           /\ e.type = "match" => e.match \in Match
           /\ e.type = "votes" => e.votes \in SUBSET Players
           /\ e.type = "history" => e.chat \in Seq(Message)
           /\ e.type = "message" => e.message \in Message
  BY DEF Event

\* The events of the host's fan-outs are events.
LEMMA EventsAre ==
    /\ \A m \in Match : WithMatch(m) \in Event
    /\ \A m \in Match : Votes(m) \in Event
    /\ \A r \in Room : History(r) \in Event
    /\ \A m \in Message : [type |-> "message", message |-> m] \in Event
    /\ \A t \in {"joined", "room", "rejected", "error", "chat-rejected", "recovery"} :
          Plain(t) \in Event
<1>1. \A m \in Match : WithMatch(m) \in Event
  BY DEF WithMatch, Event
<1>2. \A m \in Match : m.votes \in SUBSET Players
  BY DEF Match
<1>3. \A m \in Match : Votes(m) \in Event
  BY <1>2 DEF Votes, Event
<1>4. \A r \in Room : r.chat \in Seq(Message)
  BY DEF Room
<1>5. \A r \in Room : History(r) \in Event
  BY <1>4 DEF History, Event
<1>6. \A m \in Message : [type |-> "message", message |-> m] \in Event
  BY DEF Event
<1>7. \A t \in {"joined", "room", "rejected", "error", "chat-rejected", "recovery"} :
          Plain(t) \in Event
  BY DEF Plain, Event
<1> QED BY <1>1, <1>3, <1>5, <1>6, <1>7

\* What a page shows stays a picture.
LEMMA PictureAfterIs ==
    ASSUME NEW c \in Pictures, NEW e \in Event
    PROVE  PictureAfter(c, e) \in Pictures
<1>1. PICK d : d = PictureAfter(c, e)
  OBVIOUS
<1>2. CASE e.type \in {"joined", "error"}
  BY <1>1, <1>2 DEF PictureAfter, Pictures
<1>3. CASE e.type = "history"
  BY <1>1, <1>3, EventIs DEF PictureAfter, Pictures
<1>4. CASE e.type = "room"
  BY <1>1, <1>4 DEF PictureAfter, Pictures
<1>5. CASE e.type = "match"
  BY <1>1, <1>5, EventIs DEF PictureAfter, Pictures
<1>6. CASE e.type = "votes"
  <2>1. CASE c.at # "out" /\ c.match # None
    <3>1. PICK m : m = [c.match EXCEPT !.votes = e.votes]
      OBVIOUS
    <3>2. c.match \in Match /\ e.votes \in SUBSET Players
      BY <1>6, <2>1, EventIs DEF Pictures
    <3>3. m \in Match
      BY <3>1, <3>2 DEF Match
    <3>4. [c EXCEPT !.match.votes = e.votes] = [c EXCEPT !.match = m]
      BY <3>1
    <3>5. d = [c EXCEPT !.match = m]
      BY <1>1, <1>6, <2>1, <3>4 DEF PictureAfter
    <3> QED BY <1>1, <3>3, <3>5 DEF Pictures
  <2> QED BY <1>1, <1>6, <2>1 DEF PictureAfter
<1>7. CASE e.type = "message"
  <2>1. e.message \in Message
    BY <1>7, EventIs
  <2>2. PICK x : x = Append(c.chat, e.message)
    OBVIOUS
  <2>3. x \in Seq(Message)
    BY <2>1, <2>2 DEF Pictures
  <2>4. d \in {c, [c EXCEPT !.chat = x]}
    BY <1>1, <1>7, <2>2 DEF PictureAfter
  <2> QED BY <1>1, <2>3, <2>4 DEF Pictures
<1>8. CASE e.type \in {"rejected", "chat-rejected", "recovery"}
  BY <1>1, <1>8 DEF PictureAfter
<1> QED BY <1>2, <1>3, <1>4, <1>5, <1>6, <1>7, <1>8, EventIs

\* Both ends of a run of events are pictures.
LEMMA EndsAreTyped ==
    ASSUME NEW v, NEW es \in Seq(Event), NEW c, Ends(v, es, c)
    PROVE  v \in Pictures /\ c \in Pictures /\ Rises(v.chat) /\ Rises(c.chat)
<1>1. PICK f : Leads(f, v, es, c)
  BY DEF Ends
<1>2. Len(es) \in Nat /\ 0 \in 0..Len(es) /\ Len(es) \in 0..Len(es)
  OBVIOUS
<1> QED BY <1>1, <1>2 DEF Leads

\* A run of no events ends where it begins.
LEMMA EndsAtOnce ==
    ASSUME NEW v, NEW c
    PROVE  /\ Ends(v, <<>>, c) => c = v
           /\ v \in Pictures /\ Rises(v.chat) => Ends(v, <<>>, v)
<1>1. Len(<<>>) = 0
  OBVIOUS
<1>2. ASSUME Ends(v, <<>>, c) PROVE c = v
  BY <1>1, <1>2 DEF Ends, Leads
<1>3. ASSUME v \in Pictures, Rises(v.chat) PROVE Ends(v, <<>>, v)
  <2>1. PICK f : f = [i \in 0..0 |-> v]
    OBVIOUS
  <2>2. f \in [0..0 -> Pictures] /\ f[0] = v /\ \A i \in 0..0 : f[i] = v
    BY <1>3, <2>1
  <2>3. Leads(f, v, <<>>, v)
    BY <1>1, <1>3, <2>2 DEF Leads
  <2> QED BY <2>3 DEF Ends
<1> QED BY <1>2, <1>3

\* A run goes on with one more event.
LEMMA EndsAppend ==
    ASSUME NEW v, NEW es \in Seq(Event), NEW c, Ends(v, es, c),
           NEW e \in Event, Rises(PictureAfter(c, e).chat)
    PROVE  Ends(v, Append(es, e), PictureAfter(c, e))
<1>1. PICK f : Leads(f, v, es, c)
  BY DEF Ends
<1>2. PICK n \in Nat : n = Len(es)
  OBVIOUS
<1>3. PICK fs : fs = Append(es, e)
  OBVIOUS
<1>4. Len(fs) = n + 1 /\ fs[n + 1] = e /\ \A i \in 1..n : fs[i] = es[i]
  BY <1>2, <1>3
<1>5. PICK d : d = PictureAfter(c, e)
  OBVIOUS
<1>6. d \in Pictures
  BY <1>5, EndsAreTyped, PictureAfterIs
<1>7. PICK g : g = [i \in 0..(n + 1) |-> IF i = n + 1 THEN d ELSE f[i]]
  OBVIOUS
<1>8. f \in [0..n -> Pictures] /\ f[0] = v /\ f[n] = c
  BY <1>1, <1>2 DEF Leads
<1>9. g[n + 1] = d /\ \A i \in 0..n : g[i] = f[i]
  BY <1>7
<1>10. g \in [0..(n + 1) -> Pictures]
  BY <1>6, <1>7, <1>8
<1>11. \A i \in 1..(n + 1) : g[i] = PictureAfter(g[i - 1], fs[i])
  <2> SUFFICES ASSUME NEW i \in 1..(n + 1) PROVE g[i] = PictureAfter(g[i - 1], fs[i])
    OBVIOUS
  <2>1. CASE i = n + 1
    <3>1. g[i - 1] = c
      BY <1>8, <1>9, <2>1
    <3> QED BY <1>4, <1>5, <1>9, <2>1, <3>1
  <2>2. CASE i # n + 1
    <3>1. i \in 1..n /\ i \in 0..n /\ i - 1 \in 0..n
      BY <2>2
    <3>2. f[i] = PictureAfter(f[i - 1], es[i])
      BY <1>1, <1>2, <3>1 DEF Leads
    <3> QED BY <1>4, <1>9, <3>1, <3>2
  <2> QED BY <2>1, <2>2
<1>12. \A i \in 0..(n + 1) : Rises(g[i].chat)
  <2> SUFFICES ASSUME NEW i \in 0..(n + 1) PROVE Rises(g[i].chat)
    OBVIOUS
  <2>1. CASE i = n + 1
    BY <1>5, <1>9, <2>1
  <2>2. CASE i # n + 1
    <3>1. i \in 0..n
      BY <2>2
    <3> QED BY <1>1, <1>2, <1>9, <3>1 DEF Leads
  <2> QED BY <2>1, <2>2
<1>13. Leads(g, v, fs, d)
  BY <1>4, <1>8, <1>9, <1>10, <1>11, <1>12 DEF Leads
<1> QED BY <1>3, <1>5, <1>13 DEF Ends

\* A run without its first event begins one event later.
LEMMA EndsTail ==
    ASSUME NEW v, NEW es \in Seq(Event), NEW c, Ends(v, es, c), es # <<>>
    PROVE  Ends(PictureAfter(v, Head(es)), Tail(es), c)
<1>1. PICK f : Leads(f, v, es, c)
  BY DEF Ends
<1>2. PICK n \in Nat : n = Len(es) - 1
  OBVIOUS
<1>3. PICK fs : fs = Tail(es)
  OBVIOUS
<1>4. Len(es) = n + 1 /\ Len(fs) = n /\ \A i \in 1..n : fs[i] = es[i + 1]
  BY <1>2, <1>3
<1>5. PICK g : g = [i \in 0..n |-> f[i + 1]]
  OBVIOUS
<1>6. f \in [0..(n + 1) -> Pictures] /\ f[0] = v /\ f[n + 1] = c
  BY <1>1, <1>4 DEF Leads
<1>7. g \in [0..n -> Pictures] /\ g[n] = c
  BY <1>5, <1>6
<1>8. g[0] = PictureAfter(v, Head(es))
  <2>1. f[1] = PictureAfter(f[1 - 1], es[1])
    <3>1. 1 \in 1..(n + 1)
      OBVIOUS
    <3> QED BY <1>1, <1>4, <3>1 DEF Leads
  <2> QED BY <1>5, <1>6, <2>1
<1>9. \A i \in 1..n : g[i] = PictureAfter(g[i - 1], fs[i])
  <2> SUFFICES ASSUME NEW i \in 1..n PROVE g[i] = PictureAfter(g[i - 1], fs[i])
    OBVIOUS
  <2>1. i + 1 \in 1..(n + 1) /\ i - 1 \in 0..n /\ i \in 0..n /\ (i + 1) - 1 = i /\ (i - 1) + 1 = i
    OBVIOUS
  <2>2. f[i + 1] = PictureAfter(f[(i + 1) - 1], es[i + 1])
    BY <1>1, <1>4, <2>1 DEF Leads
  <2>3. g[i] = f[i + 1] /\ g[i - 1] = f[i]
    BY <1>5, <2>1
  <2> QED BY <1>4, <2>1, <2>2, <2>3
<1>10. \A i \in 0..n : Rises(g[i].chat)
  <2> SUFFICES ASSUME NEW i \in 0..n PROVE Rises(g[i].chat)
    OBVIOUS
  <2>1. i + 1 \in 0..(n + 1) /\ g[i] = f[i + 1]
    BY <1>5
  <2> QED BY <1>1, <1>4, <2>1 DEF Leads
<1>11. Leads(g, PictureAfter(v, Head(es)), fs, c)
  BY <1>4, <1>7, <1>8, <1>9, <1>10 DEF Leads
<1> QED BY <1>3, <1>11 DEF Ends

GuestPage(v) ==
    /\ v \in View /\ ~(v.session /\ v.returning)
    /\ v.pending = None \/ v.draft = None
    /\ v.moving \/ v.pending # None => v.session

\* The answer to a move, and to a text, of the guest.
AnswersMove(e) == e.type \in {"match", "rejected", "error"}
AnswersText(e) == \/ e.type = "chat-rejected"
                  \/ e.type = "message" /\ e.message.from = "guest"

\* u is what the guest's page v becomes when it hears e.
Turns(v, e, u) ==
    /\ GuestPage(u) /\ Picture(u) = PictureAfter(Picture(v), e)
    /\ u.moving => v.moving /\ ~AnswersMove(e)
    /\ u.pending # None => v.pending # None /\ ~AnswersText(e)

\* Each event turns the guest's page as its picture says.
LEMMA GuestHears ==
    ASSUME NEW v, GuestPage(v), NEW e \in Event, e.type # "recovery"
    PROVE  Turns(v, e, Applied(v, "guest", e))
<1> USE DirectAssumption
<1>1. PICK u : u = Applied(v, "guest", e)
  OBVIOUS
<1>2. PICK at : at = IF v.session THEN "in" ELSE IF v.returning THEN "returning" ELSE "out"
  OBVIOUS
<1>3. Picture(v) = [at |-> at, match |-> v.match, chat |-> v.chat]
  BY <1>2 DEF Picture
<1>4. /\ Formed(v) /\ v.session \in BOOLEAN /\ v.match \in Match \cup {None}
      /\ v.chat \in Seq(Message) /\ v.draft \in Texts \cup {None}
      /\ v.pending \in Texts \cup {None} /\ v.moving \in BOOLEAN /\ v.returning \in BOOLEAN
  BY ViewFormed DEF GuestPage
<1>5. at = "out" <=> ~Applies(v)
  BY <1>2 DEF Applies
<1>6. SUFFICES Turns(v, e, u)
  BY <1>1
<1>7. /\ e.type \in {"joined", "error", "history", "room", "match", "votes", "message",
                     "rejected", "chat-rejected"}
      /\ e.type = "match" => e.match \in Match
      /\ e.type = "votes" => e.votes \in SUBSET Players
      /\ e.type = "history" => e.chat \in Seq(Message)
      /\ e.type = "message" => e.message \in Message
  BY EventIs
<1>8. /\ e.type = "joined" => u = Arrived(TRUE)
      /\ e.type = "error" /\ v.returning => u = NoView
      /\ e.type = "error" /\ ~v.returning => u = Freed(v, FALSE)
      /\ e.type \notin {"joined", "error"} /\ ~Applies(v) => u = v
      /\ Applies(v) =>
           /\ e.type = "history" => u = WithHistory(v, "guest", e.chat)
           /\ e.type = "room" => u = InRoom(v, TRUE, FALSE)
           /\ e.type = "match" => u = Showing(v, e.match, FALSE)
           /\ e.type = "votes" => u = IF v.match = None THEN v
                                      ELSE WithVotes(v, e.votes)
           /\ e.type = "message" => u = WithMessage(v, "guest", e.message)
           /\ e.type = "rejected" => u = Freed(v, FALSE)
           /\ e.type = "chat-rejected" => u = WithPendingRejected(v)
  BY <1>1, AppliedIs, Zenon
<1>9. CASE e.type = "joined"
  <2>1. PICK yes : yes = TRUE
    OBVIOUS
  <2>2. /\ Formed(u) /\ u.session = yes /\ ~u.returning /\ ~u.moving
        /\ u.returning \in BOOLEAN /\ u.moving \in BOOLEAN
        /\ u.match = None /\ u.chat = <<>> /\ u.draft = None /\ u.pending = None
    BY <1>8, <1>9, <2>1, Empty
  <2>3. u.session /\ <<>> \in Seq(Message)
    BY <2>1, <2>2
  <2>4. GuestPage(u)
    <3>1. u.session \in BOOLEAN
      BY <2>1, <2>2
    <3> QED BY <2>2, <2>3, <3>1, ViewFormed DEF GuestPage
  <2>5. Picture(u) = [at |-> "in", match |-> None, chat |-> <<>>]
    BY <2>2, <2>3 DEF Picture
  <2> QED BY <1>3, <1>9, <2>2, <2>4, <2>5 DEF PictureAfter, Turns
<1>10. CASE e.type = "error" /\ v.returning
  <2>1. u = NoView
    BY <1>8, <1>10
  <2>2. /\ Formed(u) /\ ~u.session /\ ~u.returning /\ ~u.moving
        /\ u.match = None /\ u.chat = <<>> /\ u.draft = None /\ u.pending = None
        /\ u.session \in BOOLEAN /\ u.returning \in BOOLEAN /\ u.moving \in BOOLEAN
    BY <2>1, Empty
  <2>3. <<>> \in Seq(Message)
    OBVIOUS
  <2>4. GuestPage(u)
    BY <2>2, <2>3, ViewFormed DEF GuestPage
  <2>5. Picture(u) = [at |-> "out", match |-> None, chat |-> <<>>]
    BY <2>2 DEF Picture
  <2>6. at = "returning"
    BY <1>2, <1>10 DEF GuestPage
  <2> QED BY <1>3, <1>10, <2>2, <2>4, <2>5, <2>6 DEF PictureAfter, Turns
<1>11. ASSUME u = Freed(v, FALSE), e.type \in {"error", "rejected"},
              ~(e.type = "error" /\ v.returning)
       PROVE  Turns(v, e, u)
  <2>1. PICK no : no = FALSE
    OBVIOUS
  <2>2. u = Freed(v, no)
    BY <1>8, <1>11, <2>1
  <2>3. /\ Formed(u) /\ u.session = v.session /\ u.match = v.match /\ u.chat = v.chat
        /\ u.draft = v.draft /\ u.pending = v.pending /\ u.moving = no
        /\ u.returning = v.returning
    BY <1>4, <2>2, ViewWith DEF Formed, Freed
  <2>4. ~u.moving /\ u.moving \in BOOLEAN
    BY <2>1, <2>3
  <2>5. GuestPage(u)
    BY <1>4, <2>3, <2>4, ViewFormed DEF GuestPage
  <2>6. Picture(u) = Picture(v)
    BY <2>3 DEF Picture
  <2>7. ~(e.type = "error" /\ at = "returning")
    BY <1>2, <1>11
  <2>8. PictureAfter(Picture(v), e) = Picture(v)
    BY <1>3, <1>11, <2>7 DEF PictureAfter
  <2>9. ~AnswersText(e)
    BY <1>11 DEF AnswersText
  <2> QED BY <2>3, <2>4, <2>5, <2>6, <2>8, <2>9 DEF Turns
<1>12. CASE e.type \notin {"joined", "error"} /\ ~Applies(v)
  <2>1. u = v
    BY <1>8, <1>12
  <2>2. PictureAfter(Picture(v), e) = Picture(v)
    BY <1>3, <1>5, <1>12 DEF PictureAfter
  <2>3. ~v.moving /\ v.pending = None
    BY <1>12 DEF GuestPage, Applies
  <2> QED BY <2>1, <2>2, <2>3 DEF Turns
<1>13. CASE e.type = "history" /\ Applies(v)
  <2>1. u = WithHistory(v, "guest", e.chat)
    BY <1>8, <1>13
  <2>2. /\ Formed(u) /\ u.session = v.session /\ u.match = v.match /\ u.chat = e.chat
        /\ u.draft = v.draft /\ u.pending \in {None, v.pending} /\ u.moving = v.moving
        /\ u.returning = v.returning
    BY <1>4, <2>1, HistoryHeard
  <2>3. GuestPage(u)
    BY <1>4, <1>7, <1>13, <2>2, ViewFormed DEF GuestPage
  <2>4. Picture(u) = [at |-> at, match |-> v.match, chat |-> e.chat]
    BY <1>2, <2>2 DEF Picture
  <2>5. PictureAfter(Picture(v), e) = [at |-> at, match |-> v.match, chat |-> e.chat]
    BY <1>3, <1>5, <1>13 DEF PictureAfter
  <2>6. ~AnswersText(e) /\ ~AnswersMove(e)
    BY <1>13 DEF AnswersText, AnswersMove
  <2> QED BY <2>2, <2>3, <2>4, <2>5, <2>6 DEF Turns
<1>14. CASE e.type = "room" /\ Applies(v)
  <2>1. PICK yes : yes = TRUE
    OBVIOUS
  <2>2. PICK no : no = FALSE
    OBVIOUS
  <2>3. u = InRoom(v, yes, no)
    BY <1>8, <1>14, <2>1, <2>2
  <2>4. /\ Formed(u) /\ u.session = yes /\ u.match = v.match /\ u.chat = v.chat
        /\ u.draft = v.draft /\ u.pending = v.pending /\ u.moving = v.moving
        /\ u.returning = no
    BY <1>4, <2>3, RoomHeard
  <2>5. u.session /\ ~u.returning /\ u.session \in BOOLEAN /\ u.returning \in BOOLEAN
    BY <2>1, <2>2, <2>4
  <2>6. GuestPage(u)
    BY <1>4, <2>4, <2>5, ViewFormed DEF GuestPage
  <2>7. Picture(u) = [at |-> "in", match |-> v.match, chat |-> v.chat]
    BY <2>4, <2>5 DEF Picture
  <2>8. PictureAfter(Picture(v), e) = [at |-> "in", match |-> v.match, chat |-> v.chat]
    BY <1>3, <1>5, <1>14 DEF PictureAfter
  <2>9. ~AnswersText(e) /\ ~AnswersMove(e)
    BY <1>14 DEF AnswersText, AnswersMove
  <2> QED BY <2>4, <2>6, <2>7, <2>8, <2>9 DEF Turns
<1>15. CASE e.type = "match" /\ Applies(v)
  <2>1. PICK no : no = FALSE
    OBVIOUS
  <2>2. u = Showing(v, e.match, no)
    BY <1>8, <1>15, <2>1
  <2>3. /\ Formed(u) /\ u.session = v.session /\ u.match = e.match /\ u.chat = v.chat
        /\ u.draft = v.draft /\ u.pending = v.pending /\ u.moving = no
        /\ u.returning = v.returning
    BY <1>4, <2>2, MatchHeard
  <2>4. ~u.moving /\ u.moving \in BOOLEAN
    BY <2>1, <2>3
  <2>5. GuestPage(u)
    BY <1>4, <1>7, <1>15, <2>3, <2>4, ViewFormed DEF GuestPage
  <2>6. Picture(u) = [at |-> at, match |-> e.match, chat |-> v.chat]
    BY <1>2, <2>3 DEF Picture
  <2>7. PictureAfter(Picture(v), e) = [at |-> at, match |-> e.match, chat |-> v.chat]
    BY <1>3, <1>5, <1>15 DEF PictureAfter
  <2>8. ~AnswersText(e)
    BY <1>15 DEF AnswersText
  <2> QED BY <2>3, <2>4, <2>5, <2>6, <2>7, <2>8 DEF Turns
<1>16. CASE e.type = "votes" /\ Applies(v)
  <2>1. ~AnswersText(e) /\ ~AnswersMove(e)
    BY <1>16 DEF AnswersText, AnswersMove
  <2>2. CASE v.match = None
    <3>1. u = v
      BY <1>8, <1>16, <2>2
    <3>2. PictureAfter(Picture(v), e) = Picture(v)
      BY <1>3, <1>16, <2>2 DEF PictureAfter
    <3> QED BY <2>1, <3>1, <3>2 DEF Turns
  <2>3. CASE v.match # None
    <3>1. PICK m : m = [v.match EXCEPT !.votes = e.votes]
      OBVIOUS
    <3>2. v.match \in Match /\ e.votes \in SUBSET Players
      BY <1>4, <1>7, <1>16, <2>3
    <3>3. m \in Match
      BY <3>1, <3>2 DEF Match
    <3>4. [v EXCEPT !.match.votes = e.votes] = [v EXCEPT !.match = m]
      BY <3>1
    <3>5. u = [v EXCEPT !.match = m]
      BY <1>8, <1>16, <2>3, <3>4 DEF WithVotes
    <3>6. /\ Formed(u) /\ u.session = v.session /\ u.match = m /\ u.chat = v.chat
          /\ u.draft = v.draft /\ u.pending = v.pending /\ u.moving = v.moving
          /\ u.returning = v.returning
      BY <1>4, <3>5, ViewWith DEF Formed
    <3>7. GuestPage(u)
      BY <1>4, <3>3, <3>6, ViewFormed DEF GuestPage
    <3>8. Picture(u) = [at |-> at, match |-> m, chat |-> v.chat]
      BY <1>2, <3>6 DEF Picture
    <3>9. PICK c : c = Picture(v)
      OBVIOUS
    <3>10. c.at # "out" /\ c.match = v.match /\ c = [at |-> at, match |-> v.match, chat |-> v.chat]
      BY <1>3, <1>5, <1>16, <3>9
    <3>11. PictureAfter(c, e) = [c EXCEPT !.match.votes = e.votes]
      BY <1>16, <2>3, <3>10 DEF PictureAfter
    <3>12. [c EXCEPT !.match.votes = e.votes] = [c EXCEPT !.match = m]
      BY <3>1, <3>10
    <3>13. [c EXCEPT !.match = m] = [at |-> at, match |-> m, chat |-> v.chat]
      BY <3>10
    <3> QED BY <2>1, <3>6, <3>7, <3>8, <3>9, <3>11, <3>12, <3>13 DEF Turns
  <2> QED BY <2>2, <2>3
<1>17. CASE e.type = "message" /\ Applies(v)
  <2>1. PICK m \in Message : m = e.message
    BY <1>7, <1>17
  <2>2. PICK chat : chat = IF KnownIn(v.chat, m) THEN v.chat ELSE Append(v.chat, m)
    OBVIOUS
  <2>3. u = WithMessage(v, "guest", m)
    BY <1>8, <1>17, <2>1
  <2>4. /\ Formed(u) /\ u.session = v.session /\ u.match = v.match /\ u.chat = chat
        /\ u.draft = v.draft /\ u.pending = (IF m.from = "guest" THEN None ELSE v.pending)
        /\ u.moving = v.moving /\ u.returning = v.returning
    BY <1>4, <2>2, <2>3, MessageHeard
  <2>5. chat \in Seq(Message)
    BY <1>4, <2>2
  <2>6. GuestPage(u)
    BY <1>4, <2>4, <2>5, ViewFormed DEF GuestPage
  <2>7. Picture(u) = [at |-> at, match |-> v.match, chat |-> chat]
    BY <1>2, <2>4 DEF Picture
  <2>8. PictureAfter(Picture(v), e) = [at |-> at, match |-> v.match, chat |-> chat]
    <3>1. PICK c : c = Picture(v)
      OBVIOUS
    <3>2. c.at # "out" /\ c.chat = v.chat /\ c = [at |-> at, match |-> v.match, chat |-> v.chat]
      BY <1>3, <1>5, <1>17, <3>1
    <3>3. PictureAfter(c, e) = IF ~KnownIn(c.chat, m) THEN [c EXCEPT !.chat = Append(c.chat, m)]
                               ELSE c
      BY <1>17, <2>1, <3>2 DEF PictureAfter
    <3>4. PictureAfter(c, e) = [c EXCEPT !.chat = chat]
      BY <2>2, <3>2, <3>3
    <3> QED BY <3>1, <3>2, <3>4 DEF Turns
  <2>9. ~AnswersMove(e)
    BY <1>17 DEF AnswersMove
  <2>10. AnswersText(e) <=> m.from = "guest"
    BY <1>17, <2>1 DEF AnswersText
  <2> QED BY <2>4, <2>6, <2>7, <2>8, <2>9, <2>10 DEF Turns
<1>18. CASE e.type = "chat-rejected" /\ Applies(v)
  <2>1. u = WithPendingRejected(v)
    BY <1>8, <1>18
  <2>2. /\ Formed(u) /\ u.session = v.session /\ u.match = v.match /\ u.chat = v.chat
        /\ u.draft = (IF v.pending = None THEN v.draft ELSE v.pending) /\ u.pending = None
        /\ u.moving = v.moving /\ u.returning = v.returning
    BY <1>4, <2>1, PendingRejected
  <2>3. GuestPage(u)
    BY <1>4, <2>2, ViewFormed DEF GuestPage
  <2>4. Picture(u) = Picture(v)
    BY <2>2 DEF Picture
  <2>5. PictureAfter(Picture(v), e) = Picture(v)
    BY <1>3, <1>18 DEF PictureAfter
  <2>6. ~AnswersMove(e)
    BY <1>18 DEF AnswersMove
  <2> QED BY <2>2, <2>3, <2>4, <2>5, <2>6 DEF Turns
<1>19. e.type \in {"joined", "error", "history", "room", "match", "votes", "message",
                    "rejected", "chat-rejected"}
  BY <1>7
<1>20. CASE e.type = "error"
  BY <1>8, <1>10, <1>11, <1>20
<1>21. CASE e.type = "rejected" /\ Applies(v)
  BY <1>8, <1>11, <1>21
<1> QED BY <1>19, <1>9, <1>12, <1>13, <1>14, <1>15, <1>16, <1>17, <1>18, <1>20, <1>21

-----------------------------------------------------------------------------
\* The host's page.

\* A page that shows m while the match is n: never a later one, and in its round no
\* other.
Shows(m, n) == m # None => n # None /\ (m.round < n.round \/ Same(m, n))

HostPage(v, r) ==
    /\ v \in View
    /\ v.returning => v.session
    /\ ~v.session => v.match = None
    /\ Rises(v.chat) /\ UpTo(v.chat, r.said)
    /\ Shows(v.match, r.match)

\* e is about the room r, whose host is shown v.
Fits(v, e, r) ==
    /\ e.type \in {"match", "votes", "message", "room", "rejected", "error", "chat-rejected"}
    /\ e.type = "match" => e.match = r.match /\ e.match \in Match
    /\ e.type = "votes" => /\ e.votes \in SUBSET Players
                           /\ v.match # None => Shows([v.match EXCEPT !.votes = e.votes], r.match)
    /\ e.type \notin {"match", "votes"} => Shows(v.match, r.match)
    /\ e.type = "message" => /\ e.message \in Message /\ e.message.id = r.said
                             /\ \A i \in DOMAIN v.chat : v.chat[i].id < r.said

\* u is what the host's page v becomes when it hears e.
HostTurns(v, e, r, u) ==
    /\ HostPage(u, r)
    /\ ~v.session => u = v
    /\ v.session =>
          /\ u.moving => v.moving /\ ~AnswersMove(e)
          /\ u.pending # None => /\ v.pending # None
                                 /\ ~(e.type = "chat-rejected"
                                      \/ (e.type = "message" /\ e.message.from = "host"))
          /\ e.type # "error" => u.session

\* A message with a later identifier keeps the chat in order.
LEMMA AppendRises ==
    ASSUME NEW chat \in Seq(Message), Rises(chat), NEW m \in Message,
           \A i \in DOMAIN chat : chat[i].id < m.id
    PROVE  /\ Append(chat, m) \in Seq(Message) /\ Rises(Append(chat, m))
           /\ UpTo(Append(chat, m), m.id)
<1>1. PICK d : d = Append(chat, m)
  OBVIOUS
<1>2. /\ d \in Seq(Message) /\ Len(d) = Len(chat) + 1 /\ d[Len(chat) + 1] = m
      /\ \A i \in 1..Len(chat) : d[i] = chat[i]
  BY <1>1
<1>3. /\ DOMAIN d = 1..(Len(chat) + 1) /\ DOMAIN chat = 1..Len(chat) /\ Len(chat) \in Nat
  BY <1>2
<1>4. \A i \in DOMAIN d : d[i].id \in Nat /\ (i = Len(chat) + 1 \/ d[i].id < m.id)
  <2> SUFFICES ASSUME NEW i \in DOMAIN d
               PROVE  d[i].id \in Nat /\ (i = Len(chat) + 1 \/ d[i].id < m.id)
    OBVIOUS
  <2>1. d[i] \in Message
    BY <1>2
  <2>2. d[i].id \in Nat
    BY <2>1 DEF Message
  <2>3. i \in 1..Len(chat) \/ i = Len(chat) + 1
    BY <1>3
  <2> QED BY <1>2, <1>3, <2>2, <2>3
<1>5. UpTo(d, m.id)
  <2>1. m.id \in Nat
    BY DEF Message
  <2>2. \A i \in DOMAIN d : d[i].id <= m.id
    BY <1>2, <1>4, <2>1
  <2> QED BY <2>2 DEF UpTo
<1>6. Rises(d)
  <2> SUFFICES ASSUME NEW i \in DOMAIN d, NEW j \in DOMAIN d, i < j
               PROVE  d[i].id < d[j].id
    BY DEF Rises
  <2>1. i \in 1..Len(chat)
    BY <1>3
  <2>2. CASE j \in 1..Len(chat)
    BY <1>2, <1>3, <2>1, <2>2 DEF Rises
  <2>3. CASE j = Len(chat) + 1
    BY <1>2, <1>3, <1>4, <2>1, <2>3
  <2> QED BY <1>3, <2>2, <2>3
<1> QED BY <1>1, <1>2, <1>5, <1>6

\* The host's page, in its room, takes an event of the room.
LEMMA HostInRoomHears ==
    ASSUME NEW v, v \in View, v.session, Rises(v.chat), NEW e, NEW r, r.said \in Nat,
           UpTo(v.chat, r.said), Fits(v, e, r)
    PROVE  HostTurns(v, e, r, Applied(v, "host", e))
<1> USE DirectAssumption
<1>1. PICK u : u = Applied(v, "host", e)
  OBVIOUS
<1>2. /\ Formed(v) /\ v.session \in BOOLEAN /\ v.match \in Match \cup {None}
      /\ v.chat \in Seq(Message) /\ v.draft \in Texts \cup {None}
      /\ v.pending \in Texts \cup {None} /\ v.moving \in BOOLEAN /\ v.returning \in BOOLEAN
  BY ViewFormed
<1>3. Applies(v) /\ Formed(v)
  BY <1>2 DEF Applies
<1>4. SUFFICES HostTurns(v, e, r, u)
  BY <1>1
<1>5. /\ e.type \in {"match", "votes", "message", "room", "rejected", "error", "chat-rejected"}
      /\ e.type = "match" => e.match = r.match /\ e.match \in Match
      /\ e.type = "votes" => e.votes \in SUBSET Players
      /\ e.type \notin {"match", "votes"} => Shows(v.match, r.match)
  BY DEF Fits
<1>6. /\ e.type = "error" /\ v.returning => u = NoView
      /\ e.type = "error" /\ ~v.returning => u = Freed(v, FALSE)
      /\ e.type = "room" => u = InRoom(v, TRUE, FALSE)
      /\ e.type = "match" => u = Showing(v, e.match, FALSE)
      /\ e.type = "votes" => u = IF v.match = None THEN v ELSE WithVotes(v, e.votes)
      /\ e.type = "message" => u = WithMessage(v, "host", e.message)
      /\ e.type = "rejected" => u = Freed(v, FALSE)
      /\ e.type = "chat-rejected" => u = WithPendingRejected(v)
  BY <1>1, <1>3, AppliedIs, Zenon
<1>7. ASSUME u = NoView, e.type = "error" PROVE HostTurns(v, e, r, u)
  <2>1. /\ Formed(u) /\ ~u.session /\ ~u.returning /\ ~u.moving
        /\ u.match = None /\ u.chat = <<>> /\ u.draft = None /\ u.pending = None
        /\ u.session \in BOOLEAN /\ u.returning \in BOOLEAN /\ u.moving \in BOOLEAN
    BY <1>7, Empty
  <2>2. <<>> \in Seq(Message) /\ Rises(<<>>) /\ UpTo(<<>>, r.said)
    BY DEF Rises, UpTo
  <2>3. u \in View
    BY <2>1, <2>2, ViewFormed
  <2>4. HostPage(u, r)
    BY <2>1, <2>2, <2>3 DEF HostPage, Shows
  <2> QED BY <1>7, <2>1, <2>4 DEF HostTurns
<1>8. ASSUME u = Freed(v, FALSE), e.type \in {"error", "rejected"}
      PROVE  HostTurns(v, e, r, u)
  <2>1. PICK no : no = FALSE
    OBVIOUS
  <2>2. u = Freed(v, no)
    BY <1>8, <2>1
  <2>3. /\ Formed(u) /\ u.session = v.session /\ u.match = v.match /\ u.chat = v.chat
        /\ u.draft = v.draft /\ u.pending = v.pending /\ u.moving = no
        /\ u.returning = v.returning
    BY <1>2, <2>2, ViewWith DEF Formed, Freed
  <2>4. ~u.moving /\ u.moving \in BOOLEAN
    BY <2>1, <2>3
  <2>5. u \in View
    BY <1>2, <2>3, <2>4, ViewFormed
  <2>6. HostPage(u, r)
    BY <1>5, <1>8, <2>3, <2>5 DEF HostPage
  <2>7. ~(e.type = "chat-rejected" \/ (e.type = "message" /\ e.message.from = "host"))
    BY <1>8
  <2> QED BY <2>3, <2>4, <2>6, <2>7 DEF HostTurns
<1>9. CASE e.type = "room"
  <2>1. PICK yes : yes = TRUE
    OBVIOUS
  <2>2. PICK no : no = FALSE
    OBVIOUS
  <2>3. u = InRoom(v, yes, no)
    BY <1>6, <1>9, <2>1, <2>2
  <2>4. /\ Formed(u) /\ u.session = yes /\ u.match = v.match /\ u.chat = v.chat
        /\ u.draft = v.draft /\ u.pending = v.pending /\ u.moving = v.moving
        /\ u.returning = no
    BY <1>3, <2>3, RoomHeard
  <2>5. u.session /\ ~u.returning /\ u.session \in BOOLEAN /\ u.returning \in BOOLEAN
    BY <2>1, <2>2, <2>4
  <2>6. u \in View
    BY <1>2, <2>4, <2>5, ViewFormed
  <2>7. HostPage(u, r)
    BY <1>5, <1>9, <2>4, <2>5, <2>6 DEF HostPage
  <2>8. ~AnswersMove(e) /\ ~(e.type = "chat-rejected" \/ (e.type = "message" /\ e.message.from = "host"))
    BY <1>9 DEF AnswersMove
  <2> QED BY <2>4, <2>5, <2>7, <2>8 DEF HostTurns
<1>10. CASE e.type = "match"
  <2>1. PICK no : no = FALSE
    OBVIOUS
  <2>2. u = Showing(v, e.match, no)
    BY <1>6, <1>10, <2>1
  <2>3. /\ Formed(u) /\ u.session = v.session /\ u.match = e.match /\ u.chat = v.chat
        /\ u.draft = v.draft /\ u.pending = v.pending /\ u.moving = no
        /\ u.returning = v.returning
    BY ONLY <1>3, <2>2, MatchHeard
  <2>4. ~u.moving /\ u.moving \in BOOLEAN
    BY <2>1, <2>3
  <2>5. u \in View
    BY <1>2, <1>5, <1>10, <2>3, <2>4, ViewFormed
  <2>6. Shows(u.match, r.match)
    BY <1>5, <1>10, <2>3 DEF Shows, Same
  <2>7. HostPage(u, r)
    BY <2>3, <2>5, <2>6 DEF HostPage
  <2>8. ~(e.type = "chat-rejected" \/ (e.type = "message" /\ e.message.from = "host"))
    BY <1>10
  <2> QED BY <2>3, <2>4, <2>7, <2>8 DEF HostTurns
<1>11. CASE e.type = "votes"
  <2>1. ~AnswersMove(e) /\ ~(e.type = "chat-rejected" \/ (e.type = "message" /\ e.message.from = "host"))
    BY <1>11 DEF AnswersMove
  <2>2. CASE v.match = None
    <3>1. u = v
      BY <1>6, <1>11, <2>2
    <3>2. HostPage(u, r)
      BY <2>2, <3>1 DEF HostPage, Shows
    <3> QED BY <2>1, <3>1, <3>2 DEF HostTurns
  <2>3. CASE v.match # None
    <3>1. PICK m : m = [v.match EXCEPT !.votes = e.votes]
      OBVIOUS
    <3>2. v.match \in Match /\ e.votes \in SUBSET Players
      BY <1>2, <1>5, <1>11, <2>3
    <3>3. m \in Match
      BY <3>1, <3>2 DEF Match
    <3>4. [v EXCEPT !.match.votes = e.votes] = [v EXCEPT !.match = m]
      BY <3>1
    <3>5. u = [v EXCEPT !.match = m]
      BY <1>6, <1>11, <2>3, <3>4 DEF WithVotes
    <3>6. /\ Formed(u) /\ u.session = v.session /\ u.match = m /\ u.chat = v.chat
          /\ u.draft = v.draft /\ u.pending = v.pending /\ u.moving = v.moving
          /\ u.returning = v.returning
      BY <1>2, <3>5, ViewWith DEF Formed
    <3>7. u \in View
      BY <1>2, <3>3, <3>6, ViewFormed
    <3>8. Shows(m, r.match)
      BY <1>11, <2>3, <3>1 DEF Fits
    <3>9. HostPage(u, r)
      BY <3>6, <3>7, <3>8 DEF HostPage
    <3> QED BY <2>1, <3>6, <3>9 DEF HostTurns
  <2> QED BY <2>2, <2>3
<1>12. CASE e.type = "message"
  <2>1. PICK m \in Message : m = e.message
    BY <1>12 DEF Fits
  <2>2. m.id = r.said /\ \A i \in DOMAIN v.chat : v.chat[i].id < m.id
    BY <1>12, <2>1 DEF Fits
  <2>3. PICK chat : chat = IF KnownIn(v.chat, m) THEN v.chat ELSE Append(v.chat, m)
    OBVIOUS
  <2>4. u = WithMessage(v, "host", m)
    BY <1>6, <1>12, <2>1
  <2>5. /\ Formed(u) /\ u.session = v.session /\ u.match = v.match /\ u.chat = chat
        /\ u.draft = v.draft /\ u.pending = (IF m.from = "host" THEN None ELSE v.pending)
        /\ u.moving = v.moving /\ u.returning = v.returning
    BY ONLY <1>3, <2>3, <2>4, MessageHeard
  <2>6. chat \in Seq(Message) /\ Rises(chat) /\ UpTo(chat, r.said)
    BY <1>2, <2>2, <2>3, AppendRises
  <2>7. u \in View
    BY <1>2, <2>5, <2>6, ViewFormed
  <2>8. HostPage(u, r)
    BY <1>5, <1>12, <2>5, <2>6, <2>7 DEF HostPage
  <2>9. ~AnswersMove(e)
    BY <1>12 DEF AnswersMove
  <2>10. (e.type = "chat-rejected" \/ (e.type = "message" /\ e.message.from = "host"))
              <=> m.from = "host"
    BY <1>12, <2>1
  <2> QED BY <2>5, <2>8, <2>9, <2>10 DEF HostTurns
<1>13. CASE e.type = "chat-rejected"
  <2>1. u = WithPendingRejected(v)
    BY <1>6, <1>13
  <2>2. /\ Formed(u) /\ u.session = v.session /\ u.match = v.match /\ u.chat = v.chat
        /\ u.draft = (IF v.pending = None THEN v.draft ELSE v.pending) /\ u.pending = None
        /\ u.moving = v.moving /\ u.returning = v.returning
    BY <1>2, <2>1, PendingRejected
  <2>3. u \in View
    BY <1>2, <2>2, ViewFormed
  <2>4. HostPage(u, r)
    BY <1>5, <1>13, <2>2, <2>3 DEF HostPage
  <2>5. ~AnswersMove(e)
    BY <1>13 DEF AnswersMove
  <2> QED BY <2>2, <2>4, <2>5 DEF HostTurns
<1>14. CASE e.type = "error"
  BY <1>6, <1>7, <1>8, <1>14
<1>15. CASE e.type = "rejected"
  BY <1>6, <1>8, <1>15
<1> QED BY <1>5, <1>9, <1>10, <1>11, <1>12, <1>13, <1>14, <1>15

\* And so does one that is out of it, which ignores the event.
LEMMA HostHears ==
    ASSUME NEW v, NEW e, NEW r, NEW q, HostPage(v, q), q.said \in Nat, r.said \in Nat,
           UpTo(v.chat, r.said), Fits(v, e, r), v.session \/ e.type # "error"
    PROVE  HostTurns(v, e, r, Applied(v, "host", e))
<1>1. v \in View /\ Rises(v.chat)
  BY DEF HostPage
<1>2. CASE v.session
  BY <1>1, <1>2, HostInRoomHears
<1>3. CASE ~v.session
  <2>1. ~Applies(v) /\ v.match = None
    BY <1>3 DEF HostPage, Applies
  <2>2. e.type \notin {"joined", "error"}
    BY <1>3 DEF Fits
  <2>3. Applied(v, "host", e) = v
    BY <2>1, <2>2, AppliedIs
  <2>4. HostPage(v, r)
    BY <1>1, <2>1 DEF HostPage, Shows
  <2> QED BY <1>3, <2>3, <2>4 DEF HostTurns
<1> QED BY <1>2, <1>3

-----------------------------------------------------------------------------
\* The invariant between the steps of a fan-out.

RoomOK(r) ==
    /\ r \in Room /\ (r.guest <=> r.match # None) /\ Len(r.chat) <= HistoryLimit
    /\ Rises(r.chat) /\ UpTo(r.chat, r.said)
    /\ r.match # None => SoundMatch(r.match) /\ (~r.match.over => r.match.moves < MaxMoves)

\* m is not later than n.
Passed(m, n) == m # None => n # None /\ Behind(m, n)
Advances(q, r) == q.said <= r.said /\ (q.guest => r.guest) /\ Passed(q.match, r.match)

\* No match that is shown, or under way, is later than the room's.
AllPassed(v, es, r) ==
    /\ Passed(v.match, r.match)
    /\ \A i \in DOMAIN es : es[i].type = "match" => Passed(es[i].match, r.match)

Live(w) == Linked(w) /\ w.side["host"].link # 0

\* What holds between the steps of a fan-out; c is what the guest's page will be.
Calm(w, c) ==
    /\ Shaped(w)
    /\ RoomOK(w.room)
    /\ w.record # None => RoomOK(w.record) /\ w.record.guest
    /\ w.control # "none" => w.room.guest
    /\ w.control = "sent" => w.record # None
    /\ HostPage(w.view["host"], w.room)
    /\ w.side["host"].state = "open" => w.side["host"].link # 0
    /\ w.wire["guest"] \in Seq(Event)
    /\ Ends(Picture(w.view["guest"]), w.wire["guest"], c)
    /\ Live(w) => UpTo(c.chat, w.room.said) /\ AllPassed(w.view["guest"], w.wire["guest"], w.room)

\* Whether a step of the fan-out gets to the guest.
Reaches(w, s) == "guest" \in s.to /\ w.side["host"].state = "open" /\ Linked(w)

\* The step s of a fan-out, once the room is r.
Emitted(w, c, r, s, u) ==
    /\ Calm(u, IF Reaches(w, s) THEN PictureAfter(c, s.event) ELSE c)
    /\ Aside(u, w) /\ u.room = r
    /\ u.view["guest"] = w.view["guest"] /\ u.wire["host"] = w.wire["host"]
    /\ u.wire["guest"] = IF Reaches(w, s) THEN Append(w.wire["guest"], s.event) ELSE w.wire["guest"]
    /\ u.record = IF "host" \in s.to /\ w.view["host"].session /\ w.control # "none" THEN r
                  ELSE w.record
    /\ "host" \in s.to => HostTurns(w.view["host"], s.event, r, u.view["host"])
    /\ "host" \notin s.to => u.view["host"] = w.view["host"]
    /\ u.ok <=> ("guest" \in s.to => w.side["host"].state = "open")

\* Not being later is a preorder of the matches.
LEMMA PassedIs ==
    /\ \A m \in Match : Passed(m, m)
    /\ \A l, m, n \in Match \cup {None} : Passed(l, m) /\ Passed(m, n) => Passed(l, n)
<1> USE DirectAssumption
<1>1. \A m \in Match : m.round \in Nat /\ m.moves \in Nat
  BY DEF Match
<1>2. \A m \in Match : Passed(m, m)
  BY <1>1 DEF Passed, Behind
<1>3. ASSUME NEW l \in Match, NEW m \in Match, NEW n \in Match, Behind(l, m), Behind(m, n)
      PROVE  Behind(l, n)
  BY <1>1, <1>3 DEF Behind
<1>4. ASSUME NEW l \in Match \cup {None}, NEW m \in Match \cup {None}, NEW n \in Match \cup {None},
             Passed(l, m), Passed(m, n)
      PROVE  Passed(l, n)
  BY <1>3, <1>4 DEF Passed
<1> QED BY <1>2, <1>4

\* A bound on the messages' identifiers may be raised.
LEMMA UpToMore ==
    ASSUME NEW chat \in Seq(Message), NEW n \in Nat, NEW k \in Nat, n <= k, UpTo(chat, n)
    PROVE  UpTo(chat, k)
<1>1. \A i \in DOMAIN chat : chat[i] \in Message
  OBVIOUS
<1>2. \A i \in DOMAIN chat : chat[i].id \in Nat
  BY <1>1 DEF Message
<1> QED BY <1>2 DEF UpTo

\* The fields of a room that is in order, which its record is too.
LEMMA RoomIs ==
    ASSUME NEW r, RoomOK(r)
    PROVE  /\ r.said \in Nat /\ r.chat \in Seq(Message) /\ r.match \in Match \cup {None}
           /\ r.starter \in Players
           /\ HostRecord(r) = r
<1> USE DirectAssumption
<1>1. r.said \in Nat /\ r.chat \in Seq(Message) /\ r.match \in Match \cup {None} /\ r.starter \in Players
  BY DEF RoomOK, Room
<1>2. SoundRecord(r)
  BY DEF RoomOK, SoundRecord
<1> QED BY <1>1, <1>2 DEF HostRecord

\* A step of a fan-out keeps the calm state, with the picture that it ends in.
LEMMA EmitKeeps ==
    ASSUME NEW w, NEW c, Calm(w, c), w.ok, NEW r, RoomOK(r), Advances(w.room, r), NEW s,
           "host" \in s.to => /\ Fits(w.view["host"], s.event, r)
                              /\ w.view["host"].session \/ s.event.type # "error",
           "host" \notin s.to => Shows(w.view["host"].match, r.match),
           "guest" \in s.to =>
               /\ s.event \in Event
               /\ Reaches(w, s) => Rises(PictureAfter(c, s.event).chat)
               /\ Live(w) => UpTo(PictureAfter(c, s.event).chat, r.said)
               /\ s.event.type = "match" => Passed(s.event.match, r.match)
    PROVE  Emitted(w, c, r, s, Emit(w, r, s))
<1>0. PICK v : v = w.view["host"]
  OBVIOUS
<1>1. PICK u : u = Emit(w, r, s)
  OBVIOUS
<1>2. /\ Shaped(w) /\ RoomOK(w.room) /\ HostPage(v, w.room) /\ w.wire["guest"] \in Seq(Event)
      /\ Ends(Picture(w.view["guest"]), w.wire["guest"], c)
  BY <1>0 DEF Calm
<1>3. /\ Shaped(u) /\ Aside(u, w) /\ u.room = r
      /\ u.view["guest"] = w.view["guest"] /\ u.wire["host"] = w.wire["host"]
      /\ u.view["host"] = IF "host" \in s.to THEN Applied(w.view["host"], "host", s.event) ELSE w.view["host"]
      /\ u.record = IF "host" \notin s.to \/ ~Applies(w.view["host"]) \/ w.control = "none" THEN w.record
                    ELSE IF r.guest THEN HostRecord(r) ELSE None
      /\ u.wire["guest"] = IF "guest" \in s.to /\ w.side["host"].state = "open" /\ Linked(w)
                           THEN Append(w.wire["guest"], s.event) ELSE w.wire["guest"]
      /\ u.ok = IF "guest" \in s.to /\ w.side["host"].state # "open" THEN FALSE ELSE w.ok
  <2>1. EmitFields(w, r, s, u)
    BY <1>1, <1>2, EmitIs
  <2> QED BY <2>1 DEF EmitFields
<1>4. /\ r.said \in Nat /\ w.room.said \in Nat /\ w.room.said <= r.said
      /\ r.match \in Match \cup {None} /\ w.room.match \in Match \cup {None} /\ HostRecord(r) = r
  BY <1>2, RoomIs DEF Advances
<1>5. v \in View /\ v.chat \in Seq(Message) /\ Rises(v.chat) /\ UpTo(v.chat, r.said)
  BY <1>2, <1>4, ViewFormed, UpToMore DEF HostPage
<1>6. w.control # "none" => r.guest
  BY DEF Calm, Advances
<1>7. u.record = IF "host" \in s.to /\ v.session /\ w.control # "none" THEN r ELSE w.record
  <2>1. Applies(v) <=> v.session
    BY <1>2 DEF Applies, HostPage
  <2> QED BY <1>0, <1>3, <1>4, <1>6, <2>1
<1>8. ASSUME "host" \in s.to PROVE HostTurns(v, s.event, r, u.view["host"])
  <2>1. Fits(v, s.event, r) /\ (v.session \/ s.event.type # "error")
    BY <1>0, <1>8
  <2>2. HostTurns(v, s.event, r, Applied(v, "host", s.event))
    BY <1>2, <1>4, <1>5, <2>1, HostHears
  <2>3. u.view["host"] = Applied(v, "host", s.event)
    BY <1>0, <1>3, <1>8
  <2> QED BY <2>2, <2>3
<1>9. HostPage(u.view["host"], r)
  <2>1. CASE "host" \in s.to
    BY <1>8, <2>1 DEF HostTurns
  <2>2. CASE "host" \notin s.to
    BY <1>0, <1>2, <1>3, <1>5, <2>2 DEF HostPage
  <2> QED BY <2>1, <2>2
<1>10. u.ok <=> ("guest" \in s.to => w.side["host"].state = "open")
  BY <1>3
<1>11. Live(u) <=> Live(w)
  BY <1>3 DEF Live, Linked, Aside
<1>12. u.wire["guest"] = IF Reaches(w, s) THEN Append(w.wire["guest"], s.event)
                         ELSE w.wire["guest"]
  BY <1>3 DEF Reaches
<1>13. PICK d : d = IF Reaches(w, s) THEN PictureAfter(c, s.event) ELSE c
  OBVIOUS
<1>14. u.wire["guest"] \in Seq(Event)
  BY <1>2, <1>12 DEF Reaches
<1>15. Ends(Picture(u.view["guest"]), u.wire["guest"], d)
  <2>1. CASE Reaches(w, s)
    BY <1>2, <1>3, <1>12, <1>13, <2>1, EndsAppend DEF Reaches
  <2>2. CASE ~Reaches(w, s)
    BY <1>2, <1>3, <1>12, <1>13, <2>2
  <2> QED BY <2>1, <2>2
<1>16. ASSUME Live(u)
       PROVE  UpTo(d.chat, r.said) /\ AllPassed(u.view["guest"], u.wire["guest"], r)
  <2>1. c.chat \in Seq(Message)
    <3>1. c \in Pictures
      BY <1>2, EndsAreTyped
    <3> QED BY <3>1 DEF Pictures
  <2>2. Live(w) /\ UpTo(c.chat, r.said)
    BY <1>4, <1>11, <1>16, <2>1, UpToMore DEF Calm
  <2>3. UpTo(d.chat, r.said)
    BY <1>13, <2>2 DEF Reaches
  <2>4. AllPassed(w.view["guest"], w.wire["guest"], w.room)
    BY <2>2 DEF Calm
  <2>5. Passed(w.room.match, r.match)
    BY DEF Advances
  <2>6. w.view["guest"].match \in Match \cup {None}
    BY <1>2, EndsAreTyped DEF Pictures, Picture
  <2>7. \A i \in DOMAIN w.wire["guest"] :
           w.wire["guest"][i].type = "match" => w.wire["guest"][i].match \in Match
    BY <1>2, EventIs
  <2>8. AllPassed(w.view["guest"], w.wire["guest"], r)
    BY <1>4, <2>4, <2>5, <2>6, <2>7, PassedIs DEF AllPassed
  <2>9. CASE Reaches(w, s)
    <3>1. PICK es \in Seq(Event) : es = w.wire["guest"]
      BY <1>2
    <3>2. PICK ds : ds = Append(es, s.event)
      OBVIOUS
    <3>3. Len(ds) = Len(es) + 1 /\ ds[Len(es) + 1] = s.event /\ \A i \in 1..Len(es) : ds[i] = es[i]
      BY <3>2
    <3>4. DOMAIN ds = 1..(Len(es) + 1) /\ DOMAIN es = 1..Len(es) /\ Len(es) \in Nat
      BY <2>9, <3>2 DEF Reaches
    <3>5. \A i \in DOMAIN ds : ds[i].type = "match" => Passed(ds[i].match, r.match)
      <4>1. s.event.type = "match" => Passed(s.event.match, r.match)
        BY <2>9 DEF Reaches
      <4>2. \A i \in DOMAIN es : es[i].type = "match" => Passed(es[i].match, r.match)
        BY <2>8, <3>1 DEF AllPassed
      <4> QED BY <3>3, <3>4, <4>1, <4>2
    <3> QED BY <1>3, <1>12, <2>3, <2>8, <2>9, <3>1, <3>2, <3>5 DEF AllPassed
  <2> QED BY <1>3, <1>12, <2>3, <2>8, <2>9
<1>17. Calm(u, d)
  <2>1. u.control = w.control
    BY <1>3 DEF Aside
  <2>2. u.record # None => RoomOK(u.record) /\ u.record.guest
    BY <1>6, <1>7 DEF Calm
  <2>3. u.control = "sent" => u.record # None
    BY <1>4, <1>7, <2>1, DirectAssumption DEF Calm, RoomOK
  <2>4. u.side["host"].state = "open" => u.side["host"].link # 0
    BY <1>3 DEF Aside, Calm
  <2> QED BY <1>3, <1>6, <1>9, <1>14, <1>15, <1>16, <2>1, <2>2, <2>3, <2>4 DEF Calm
<1> QED BY <1>0, <1>1, <1>3, <1>7, <1>8, <1>10, <1>12, <1>13, <1>17 DEF Emitted

Begins(s, t) == Len(s) <= Len(t) /\ \A i \in 1..Len(s) : t[i] = s[i]
Reached(w) == w.side["host"].state = "open" /\ Linked(w)

\* A guest's page that shows the room.
Final(c, r) == c.at = "in" /\ c.match = r.match /\ Suffix(r.chat, c.chat)

\* The guest is about to be told that it can come back.
Recovers(w) == \E i \in DOMAIN w.wire["guest"] : w.wire["guest"][i].type = "recovery"

\* What no fan-out from w to u does, whatever is in it.
Served(w, u) ==
    /\ Aside(u, w) /\ u.view["guest"] = w.view["guest"] /\ u.wire["host"] = w.wire["host"]
    /\ w.wire["guest"] \in Seq(Event) /\ u.wire["guest"] \in Seq(Event)
    /\ Begins(w.wire["guest"], u.wire["guest"])
    /\ ~Reached(w) => u.wire["guest"] = w.wire["guest"]
    /\ Recovers(u) => Recovers(w)
    /\ RoomOK(w.room) /\ RoomOK(u.room) /\ Advances(w.room, u.room)
    /\ w.control # "none" /\ w.view["host"].session =>
          \/ u.record.match # None /\ u.room.match # None /\ Same(u.record.match, u.room.match)
          \/ u.record = w.record /\ w.room.match # None /\ u.room.match # None
             /\ Same(w.room.match, u.room.match)
    /\ w.view["host"].session =>
          /\ u.view["host"].moving => w.view["host"].moving
          /\ u.view["host"].pending # None => w.view["host"].pending # None
    /\ ~w.view["host"].session => u.view["host"] = w.view["host"]

\* Going on is a preorder of the rooms.
LEMMA AdvancesIs ==
    /\ \A r : RoomOK(r) => Advances(r, r)
    /\ \A q, r, s : RoomOK(q) /\ RoomOK(r) /\ RoomOK(s) /\ Advances(q, r) /\ Advances(r, s)
                       => Advances(q, s)
<1>1. ASSUME NEW r, RoomOK(r) PROVE Advances(r, r)
  <2>1. r.said \in Nat /\ r.match \in Match \cup {None}
    BY <1>1, RoomIs
  <2>2. Passed(r.match, r.match)
    BY <2>1, PassedIs DEF Passed
  <2> QED BY <2>1, <2>2 DEF Advances
<1>2. ASSUME NEW q, NEW r, NEW s, RoomOK(q), RoomOK(r), RoomOK(s), Advances(q, r), Advances(r, s)
      PROVE  Advances(q, s)
  <2>1. /\ q.said \in Nat /\ q.match \in Match \cup {None}
        /\ r.said \in Nat /\ r.match \in Match \cup {None}
        /\ s.said \in Nat /\ s.match \in Match \cup {None}
    BY <1>2, RoomIs
  <2>2. Passed(q.match, s.match)
    BY <1>2, <2>1, PassedIs DEF Advances
  <2> QED BY <1>2, <2>1, <2>2 DEF Advances
<1> QED BY <1>1, <1>2

\* A step of a fan-out serves its room.
LEMMA EmittedServes ==
    ASSUME NEW w, NEW c, Calm(w, c), NEW r, RoomOK(r), Advances(w.room, r), NEW s, NEW u,
           Emitted(w, c, r, s, u),
           "guest" \in s.to => s.event \in Event /\ s.event.type # "recovery",
           \/ "host" \in s.to \/ w.control = "none"
           \/ w.room.match # None /\ r.match # None /\ Same(w.room.match, r.match)
    PROVE  Served(w, u)
<1>1. /\ Aside(u, w) /\ u.view["guest"] = w.view["guest"] /\ u.wire["host"] = w.wire["host"]
      /\ u.room = r
      /\ u.wire["guest"] = IF Reaches(w, s) THEN Append(w.wire["guest"], s.event)
                           ELSE w.wire["guest"]
      /\ u.record = IF "host" \in s.to /\ w.view["host"].session /\ w.control # "none" THEN r
                    ELSE w.record
      /\ "host" \in s.to => HostTurns(w.view["host"], s.event, r, u.view["host"])
      /\ "host" \notin s.to => u.view["host"] = w.view["host"]
  BY DEF Emitted
<1>2. w.wire["guest"] \in Seq(Event) /\ RoomOK(w.room)
  BY DEF Calm
<1>3. u.wire["guest"] \in Seq(Event) /\ Begins(w.wire["guest"], u.wire["guest"])
  <2>1. PICK es \in Seq(Event) : es = w.wire["guest"]
    BY <1>2
  <2>2. Len(es) \in Nat /\ Begins(es, es)
    BY DEF Begins
  <2>3. CASE Reaches(w, s)
    <3>1. s.event \in Event
      BY <2>3 DEF Reaches
    <3>2. PICK ds : ds = Append(es, s.event)
      OBVIOUS
    <3>3. ds \in Seq(Event) /\ Begins(es, ds)
      BY <3>1, <3>2 DEF Begins
    <3> QED BY <1>1, <2>1, <2>3, <3>2, <3>3
  <2> QED BY <1>1, <2>1, <2>2, <2>3
<1>4. w.control # "none" /\ w.view["host"].session =>
          \/ u.record.match # None /\ u.room.match # None /\ Same(u.record.match, u.room.match)
          \/ u.record = w.record /\ w.room.match # None /\ u.room.match # None
             /\ Same(w.room.match, u.room.match)
  <2>1. CASE "host" \in s.to
    <3>1. w.control # "none" => r.match # None
      BY DEF Calm, RoomOK, Advances
    <3> QED BY <1>1, <2>1, <3>1 DEF Same
  <2>2. CASE "host" \notin s.to
    BY <1>1, <2>2
  <2> QED BY <2>1, <2>2
<1>4a. ~Reached(w) => u.wire["guest"] = w.wire["guest"]
  BY <1>1 DEF Reached, Reaches
<1>4b. Recovers(u) => Recovers(w)
  <2>1. PICK es \in Seq(Event) : es = w.wire["guest"]
    BY <1>2
  <2>2. CASE Reaches(w, s)
    <3>1. s.event \in Event /\ s.event.type # "recovery"
      BY <2>2 DEF Reaches
    <3>2. PICK ds : ds = Append(es, s.event)
      OBVIOUS
    <3>3. \A i \in DOMAIN ds : ds[i] = s.event \/ (i \in DOMAIN es /\ ds[i] = es[i])
      BY <3>1, <3>2
    <3> QED BY <1>1, <2>1, <2>2, <3>1, <3>2, <3>3 DEF Recovers
  <2> QED BY <1>1, <2>2 DEF Recovers
<1>5. w.view["host"].session =>
          /\ u.view["host"].moving => w.view["host"].moving
          /\ u.view["host"].pending # None => w.view["host"].pending # None
  BY <1>1 DEF HostTurns
<1>6. ~w.view["host"].session => u.view["host"] = w.view["host"]
  BY <1>1 DEF HostTurns
<1> QED BY <1>1, <1>2, <1>3, <1>4, <1>4a, <1>4b, <1>5, <1>6 DEF Served

\* Two steps of a fan-out serve it as one.
LEMMA ServedTwice ==
    ASSUME NEW w, NEW u, NEW x, Served(w, u), Served(u, x),
           w.view["host"].session => u.view["host"].session
    PROVE  Served(w, x)
<1>1. Begins(w.wire["guest"], x.wire["guest"])
  <2>1. PICK es \in Seq(Event) : es = w.wire["guest"]
    BY DEF Served
  <2>2. PICK ds \in Seq(Event) : ds = u.wire["guest"]
    BY DEF Served
  <2>3. PICK fs \in Seq(Event) : fs = x.wire["guest"]
    BY DEF Served
  <2>4. Begins(es, ds) /\ Begins(ds, fs)
    BY <2>1, <2>2, <2>3 DEF Served
  <2>5. Begins(es, fs)
    BY <2>4 DEF Begins
  <2> QED BY <2>1, <2>3, <2>5
<1>2. Aside(x, w) /\ x.view["guest"] = w.view["guest"] /\ x.wire["host"] = w.wire["host"]
  BY DEF Served, Aside
<1>3. w.wire["guest"] \in Seq(Event) /\ x.wire["guest"] \in Seq(Event)
  BY DEF Served
<1>4. RoomOK(w.room) /\ RoomOK(x.room) /\ Advances(w.room, x.room)
  BY AdvancesIs DEF Served
<1>5. w.control # "none" /\ w.view["host"].session =>
          \/ x.record.match # None /\ x.room.match # None /\ Same(x.record.match, x.room.match)
          \/ x.record = w.record /\ w.room.match # None /\ x.room.match # None
             /\ Same(w.room.match, x.room.match)
  BY DEF Served, Aside, Same
<1>6. w.view["host"].session =>
          /\ x.view["host"].moving => w.view["host"].moving
          /\ x.view["host"].pending # None => w.view["host"].pending # None
  BY DEF Served
<1>7. ~w.view["host"].session => x.view["host"] = w.view["host"]
  BY DEF Served
<1>8. ~Reached(w) => x.wire["guest"] = w.wire["guest"]
  BY DEF Served, Reached, Aside, Linked
<1>9. Recovers(x) => Recovers(w)
  BY DEF Served
<1> QED BY <1>1, <1>2, <1>3, <1>4, <1>5, <1>6, <1>7, <1>8, <1>9 DEF Served

-----------------------------------------------------------------------------
\* The commands, one by one.

\* The fields of a room.
LEMMA RoomFormed ==
    ASSUME NEW r
    PROVE  r \in Room <=>
              /\ r = [guest |-> r.guest, match |-> r.match, chat |-> r.chat, said |-> r.said,
                      starter |-> r.starter]
              /\ r.guest \in BOOLEAN /\ r.match \in Match \cup {None} /\ r.chat \in Seq(Message)
              /\ r.said \in Nat /\ r.starter \in Players
  BY DEF Room

\* One field of a room is replaced.
LEMMA RoomWith ==
    ASSUME NEW r \in Room, NEW x
    PROVE  /\ [r EXCEPT !.match = x] = [guest |-> r.guest, match |-> x, chat |-> r.chat,
                  said |-> r.said, starter |-> r.starter]
           /\ [r EXCEPT !.guest = x] = [guest |-> x, match |-> r.match, chat |-> r.chat,
                  said |-> r.said, starter |-> r.starter]
           /\ [r EXCEPT !.chat = x] = [guest |-> r.guest, match |-> r.match, chat |-> x,
                  said |-> r.said, starter |-> r.starter]
           /\ [r EXCEPT !.said = x] = [guest |-> r.guest, match |-> r.match, chat |-> r.chat,
                  said |-> x, starter |-> r.starter]
           /\ [r EXCEPT !.starter = x] = [guest |-> r.guest, match |-> r.match, chat |-> r.chat,
                  said |-> r.said, starter |-> x]
  BY RoomFormed

\* The room q goes on to r, which has the match m.
Goes(q, r, m) ==
    /\ RoomOK(r) /\ Advances(q, r) /\ r.said = q.said /\ r.chat = q.chat /\ r.guest = q.guest
    /\ r.match = m /\ m \in Match

\* A room goes on with a later match.
LEMMA RoomMatchOK ==
    ASSUME NEW r, RoomOK(r), r.match # None, NEW m \in Match, SoundMatch(m),
           ~m.over => m.moves < MaxMoves, Behind(r.match, m), NEW q,
           q = [r EXCEPT !.match = m]
    PROVE  Goes(r, q, m)
<1>1. r \in Room /\ r.said \in Nat /\ m # None
  BY RoomIs, DirectAssumption DEF RoomOK
<1>2. q = [guest |-> r.guest, match |-> m, chat |-> r.chat, said |-> r.said,
           starter |-> r.starter]
  BY <1>1, RoomWith
<1>3. q.match = m /\ q.said = r.said /\ q.chat = r.chat /\ q.guest = r.guest
  BY <1>2
<1>4. q \in Room
  BY <1>1, <1>2, RoomFormed
<1>5. RoomOK(q)
  BY <1>1, <1>3, <1>4 DEF RoomOK
<1>6. Passed(r.match, m)
  BY <1>1 DEF Passed
<1> QED BY <1>1, <1>3, <1>5, <1>6 DEF Advances, Goes

\* What a command does to the room and to what the guest's page will be.
Obeyed(w, c, u, d) ==
    /\ Served(w, u) /\ Calm(u, d)
    /\ Reached(w) /\ Final(c, w.room) => Final(d, u.room)
\* With it the guest's page shows the room, if it is in it and has the chat.
Completes(w, c, u, d) ==
    Reached(w) /\ c.at = "in" /\ Suffix(w.room.chat, c.chat) => Final(d, u.room)
Follows(w, c, u) == \E d : Obeyed(w, c, u, d) /\ Completes(w, c, u, d)
Tells(w, u, e) == Reached(w) => \E i \in DOMAIN u.wire["guest"] : u.wire["guest"][i] = e

\* A step of a fan-out to the guest gets to it, or throws.
LEMMA EmittedTells ==
    ASSUME NEW w, NEW c, Calm(w, c), NEW r, NEW s, NEW u, Emitted(w, c, r, s, u),
           "guest" \in s.to
    PROVE  Tells(w, u, s.event)
<1> SUFFICES ASSUME Reached(w) PROVE \E i \in DOMAIN u.wire["guest"] : u.wire["guest"][i] = s.event
  BY DEF Tells
<1>1. PICK es \in Seq(Event) : es = w.wire["guest"]
  BY DEF Calm
<1>2. u.wire["guest"] = Append(es, s.event)
  BY <1>1 DEF Emitted, Reaches, Reached
<1>3. PICK ds : ds = Append(es, s.event)
  OBVIOUS
<1>4. Len(es) + 1 \in DOMAIN ds /\ ds[Len(es) + 1] = s.event
  BY <1>3
<1> QED BY <1>2, <1>3, <1>4

\* The room as it is, for a fan-out that stores nothing.
LEMMA RoomStays ==
    ASSUME NEW w, NEW c, Calm(w, c)
    PROVE  /\ RoomOK(w.room) /\ Advances(w.room, w.room) /\ w.room.said \in Nat
           /\ Shows(w.view["host"].match, w.room.match)
           /\ Same(w.room.match, w.room.match)
           /\ w.view["host"].match \in Match \cup {None} /\ w.room.match \in Match \cup {None}
           /\ c \in Pictures /\ Rises(c.chat)
  BY AdvancesIs, RoomIs, ViewFormed, EndsAreTyped DEF Calm, HostPage, Same

\* A command is refused, with an answer to the player it came from.
LEMMA Refuses ==
    ASSUME NEW w, NEW c, Calm(w, c), w.ok, w.room.match # None, NEW p \in Players,
           NEW t \in {"rejected", "error", "chat-rejected"},
           p = "host" => w.view["host"].session,
           NEW u, u = Emit(w, w.room, Step({p}, Plain(t)))
    PROVE  /\ \E d : Obeyed(w, c, u, d)
           /\ p = "guest" => Tells(w, u, Plain(t))
           /\ p = "host" => HostTurns(w.view["host"], Plain(t), w.room, u.view["host"])
           /\ u.ok <=> (p = "guest" => w.side["host"].state = "open")
<1>1. PICK e : e = Plain(t)
  OBVIOUS
<1>2. e.type = t /\ e \in Event
  BY <1>1, EventsAre DEF Plain
<1>3. PICK s : s = Step({p}, e)
  OBVIOUS
<1>4. s.to = {p} /\ s.event = e
  BY <1>3 DEF Step
<1>5. Fits(w.view["host"], e, w.room)
  BY <1>2, RoomStays DEF Fits
<1>6. PICK d : d = PictureAfter(c, e)
  OBVIOUS
<1>7. d = c \/ (d = [at |-> "out", match |-> None, chat |-> <<>>] /\ c.at = "returning")
  BY <1>2, <1>6 DEF PictureAfter
<1>8. c.at = "in" => d = c
  BY <1>7
<1>9. Rises(d.chat) /\ (Live(w) => UpTo(d.chat, w.room.said))
  <2>1. Rises(<<>>) /\ UpTo(<<>>, w.room.said)
    BY DEF Rises, UpTo
  <2>2. Rises(c.chat) /\ (Live(w) => UpTo(c.chat, w.room.said))
    BY RoomStays DEF Calm
  <2> QED BY <1>7, <2>1, <2>2
<1>10. Emitted(w, c, w.room, s, u)
  BY <1>1, <1>2, <1>3, <1>4, <1>5, <1>6, <1>9, RoomStays, EmitKeeps
<1>11. Served(w, u)
  BY <1>2, <1>4, <1>10, RoomStays, EmittedServes
<1>12. Calm(u, IF Reaches(w, s) THEN d ELSE c) /\ u.room = w.room
  BY <1>4, <1>6, <1>10 DEF Emitted
<1>13. \E x : Obeyed(w, c, u, x)
  BY <1>8, <1>11, <1>12 DEF Obeyed, Final
<1>14. p = "guest" => Tells(w, u, e)
  BY <1>4, <1>10, EmittedTells
<1>15. p = "host" => HostTurns(w.view["host"], e, w.room, u.view["host"])
  BY <1>4, <1>10 DEF Emitted
<1>16. u.ok <=> (p = "guest" => w.side["host"].state = "open")
  BY <1>4, <1>10 DEF Emitted
<1> QED BY <1>1, <1>13, <1>14, <1>15, <1>16

\* Both are shown a match that goes on from the one before.
LEMMA ShowsMatch ==
    ASSUME NEW w, NEW c, Calm(w, c), w.ok, w.room.match # None,
           NEW m \in Match, SoundMatch(m), ~m.over => m.moves < MaxMoves, Behind(w.room.match, m),
           NEW r, r = [w.room EXCEPT !.match = m],
           NEW u, u = Emit(w, r, Step(Players, WithMatch(m)))
    PROVE  /\ Follows(w, c, u)
           /\ Tells(w, u, WithMatch(m))
           /\ HostTurns(w.view["host"], WithMatch(m), r, u.view["host"])
           /\ u.ok <=> w.side["host"].state = "open"
<1>1. PICK e : e = WithMatch(m)
  OBVIOUS
<1>2. e.type = "match" /\ e.match = m /\ e \in Event
  BY <1>1, EventsAre DEF WithMatch
<1>3. PICK s : s = Step(Players, e)
  OBVIOUS
<1>4. s.to = Players /\ s.event = e /\ "host" \in s.to /\ "guest" \in s.to
  BY <1>3 DEF Step, Players
<1>5. /\ RoomOK(r) /\ Advances(w.room, r) /\ r.match = m /\ r.said = w.room.said
      /\ r.chat = w.room.chat
  BY RoomStays, RoomMatchOK DEF Goes
<1>6. Fits(w.view["host"], e, r)
  BY <1>2, <1>5 DEF Fits
<1>7. PICK d : d = PictureAfter(c, e)
  OBVIOUS
<1>8. d = IF c.at = "out" THEN c ELSE [c EXCEPT !.match = m]
  BY <1>2, <1>7 DEF PictureAfter
<1>9. d.chat = c.chat /\ d.at = c.at /\ (c.at # "out" => d.match = m)
  BY <1>8, RoomStays DEF Pictures
<1>10. Rises(d.chat) /\ (Live(w) => UpTo(d.chat, r.said))
  BY <1>5, <1>9, RoomStays DEF Calm
<1>11. Passed(m, m)
  BY PassedIs
<1>12. Emitted(w, c, r, s, u)
  BY <1>1, <1>2, <1>3, <1>4, <1>5, <1>6, <1>7, <1>10, <1>11, EmitKeeps
<1>13. Served(w, u)
  BY <1>2, <1>4, <1>5, <1>12, EmittedServes
<1>14. Calm(u, IF Reaches(w, s) THEN d ELSE c) /\ u.room = r
  BY <1>4, <1>7, <1>12 DEF Emitted
<1>15. c.at = "in" /\ Suffix(w.room.chat, c.chat) => Final(d, r)
  BY <1>5, <1>9 DEF Final
<1>16. Reached(w) => Reaches(w, s)
  BY <1>4 DEF Reaches, Reached
<1>17. Follows(w, c, u)
  BY <1>13, <1>14, <1>15, <1>16 DEF Follows, Obeyed, Completes, Final
<1>18. Tells(w, u, e)
  BY <1>4, <1>12, EmittedTells
<1>19. HostTurns(w.view["host"], e, r, u.view["host"])
  BY <1>4, <1>12 DEF Emitted
<1>20. u.ok <=> w.side["host"].state = "open"
  BY <1>4, <1>12 DEF Emitted
<1> QED BY <1>1, <1>17, <1>18, <1>19, <1>20

-----------------------------------------------------------------------------
\* The history that is kept.

\* The end of a chat, message by message.
LEMMA SuffixIs ==
    ASSUME NEW s \in Seq(Message), NEW t \in Seq(Message)
    PROVE  Suffix(s, t) <=> /\ Len(s) <= Len(t)
                            /\ \A i \in 1..Len(s) : s[i] = t[Len(t) - Len(s) + i]
<1>1. PICK n \in Nat : n = Len(s)
  OBVIOUS
<1>2. PICK k \in Nat : k = Len(t)
  OBVIOUS
<1>3. CASE n <= k
  <2>1. PICK x : x = SubSeq(t, k - n + 1, k)
    OBVIOUS
  <2>2. x \in Seq(Message) /\ Len(x) = n /\ \A i \in 1..n : x[i] = t[k - n + i]
    BY <1>1, <1>2, <1>3, <2>1
  <2>3. s = x <=> \A i \in 1..n : s[i] = x[i]
    BY <1>1, <2>2
  <2> QED BY <1>1, <1>2, <1>3, <2>1, <2>2, <2>3 DEF Suffix
<1>4. CASE ~(n <= k)
  BY <1>1, <1>2, <1>4 DEF Suffix
<1> QED BY <1>3, <1>4

\* The history h, once m is written: the last messages, in order.
KeptOf(chat, m, h) ==
    /\ h \in Seq(Message) /\ Len(h) <= HistoryLimit
    /\ Len(h) >= 1 /\ Len(h) <= Len(chat) + 1
    /\ h[Len(h)] = m
    /\ \A i \in 1..(Len(h) - 1) : h[i] = chat[Len(chat) + 1 - Len(h) + i]

\* Where the messages of the kept history come from.
LEMMA KeptIs ==
    ASSUME NEW chat \in Seq(Message), Len(chat) <= HistoryLimit, NEW m \in Message, NEW h,
           h = Kept(Append(chat, m))
    PROVE  KeptOf(chat, m, h)
<1> USE DirectAssumption
<1>1. PICK t : t = Append(chat, m)
  OBVIOUS
<1>2. PICK n \in Nat : n = Len(chat)
  OBVIOUS
<1>3. t \in Seq(Message) /\ Len(t) = n + 1 /\ t[n + 1] = m /\ \A i \in 1..n : t[i] = chat[i]
  BY <1>1, <1>2
<1>4. PICK k \in Nat : k = IF n + 1 > HistoryLimit THEN n + 1 - HistoryLimit + 1 ELSE 1
  BY <1>2
<1>5. k \in 1..(n + 1) /\ n + 1 - k + 1 <= HistoryLimit
  BY <1>2, <1>4
<1>6. h = SubSeq(t, k, n + 1)
  BY <1>1, <1>3, <1>4 DEF Kept
<1>7. h \in Seq(Message) /\ Len(h) = n + 1 - k + 1 /\ \A i \in 1..(n + 1 - k + 1) : h[i] = t[i + k - 1]
  BY <1>3, <1>5, <1>6
<1>8. h[Len(h)] = m
  <2>1. n + 1 - k + 1 \in 1..(n + 1 - k + 1) /\ n + 1 - k + 1 + k - 1 = n + 1
    BY <1>5
  <2> QED BY <1>3, <1>7, <2>1
<1>9. \A i \in 1..(Len(h) - 1) : h[i] = chat[n + 1 - Len(h) + i]
  <2> SUFFICES ASSUME NEW i \in 1..(Len(h) - 1) PROVE h[i] = chat[n + 1 - Len(h) + i]
    OBVIOUS
  <2>1. i \in 1..(n + 1 - k + 1) /\ i + k - 1 \in 1..n /\ n + 1 - Len(h) + i = i + k - 1
    BY <1>5, <1>7
  <2> QED BY <1>3, <1>7, <2>1
<1> QED BY <1>2, <1>5, <1>7, <1>8, <1>9 DEF KeptOf

\* The kept history is in order.
LEMMA KeptInOrder ==
    ASSUME NEW chat \in Seq(Message), Len(chat) <= HistoryLimit, Rises(chat), NEW m \in Message,
           \A i \in DOMAIN chat : chat[i].id < m.id, NEW h, h = Kept(Append(chat, m))
    PROVE  Rises(h) /\ UpTo(h, m.id)
<1>1. PICK n \in Nat : n = Len(chat)
  OBVIOUS
<1>2. /\ h \in Seq(Message) /\ Len(h) <= HistoryLimit /\ Len(h) >= 1 /\ Len(h) <= n + 1
      /\ h[Len(h)] = m /\ \A i \in 1..(Len(h) - 1) : h[i] = chat[n + 1 - Len(h) + i]
  <2>1. KeptOf(chat, m, h)
    BY KeptIs
  <2> QED BY <1>1, <2>1 DEF KeptOf
<1>3. PICK k \in Nat : k = Len(h)
  BY <1>2
<1>4. m.id \in Nat /\ \A i \in DOMAIN h : h[i].id \in Nat
  <2>1. \A i \in DOMAIN h : h[i] \in Message
    BY <1>2
  <2> QED BY <2>1 DEF Message
<1>5. \A i \in DOMAIN h : i = k \/ (i \in 1..(k - 1) /\ n + 1 - k + i \in DOMAIN chat)
  BY <1>1, <1>2, <1>3
<1>6. \A i \in DOMAIN h : i = k \/ h[i].id < m.id
  BY <1>2, <1>3, <1>5
<1>7. UpTo(h, m.id)
  <2> SUFFICES ASSUME NEW i \in DOMAIN h PROVE h[i].id <= m.id
    BY DEF UpTo
  <2> QED BY <1>2, <1>3, <1>4, <1>6
<1>8. Rises(h)
  <2> SUFFICES ASSUME NEW i \in DOMAIN h, NEW j \in DOMAIN h, i < j PROVE h[i].id < h[j].id
    BY DEF Rises
  <2>0. i \in 1..k /\ j \in 1..k /\ i # k
    BY <1>2, <1>3
  <2>1. CASE j = k
    BY <1>2, <1>3, <1>6, <2>0, <2>1
  <2>2. CASE j # k
    <3>1. PICK a : a = n + 1 - k + i
      OBVIOUS
    <3>2. PICK b : b = n + 1 - k + j
      OBVIOUS
    <3>3. a \in DOMAIN chat /\ b \in DOMAIN chat /\ a < b
      BY <1>1, <1>3, <1>5, <2>0, <2>2, <3>1, <3>2
    <3>4. h[i] = chat[a] /\ h[j] = chat[b]
      BY <1>2, <1>3, <1>5, <2>0, <2>2, <3>1, <3>2
    <3> QED BY <3>3, <3>4 DEF Rises
  <2> QED BY <2>1, <2>2
<1> QED BY <1>7, <1>8

\* A page that ends with the history ends with the next one, once it has the message.
LEMMA KeptIsSuffix ==
    ASSUME NEW chat \in Seq(Message), Len(chat) <= HistoryLimit, NEW m \in Message,
           NEW t \in Seq(Message), Suffix(chat, t), NEW h, h = Kept(Append(chat, m))
    PROVE  Suffix(h, Append(t, m))
<1>1. PICK n \in Nat : n = Len(chat)
  OBVIOUS
<1>2. /\ h \in Seq(Message) /\ Len(h) >= 1 /\ Len(h) <= n + 1
      /\ h[Len(h)] = m /\ \A i \in 1..(Len(h) - 1) : h[i] = chat[n + 1 - Len(h) + i]
  <2>1. KeptOf(chat, m, h)
    BY KeptIs
  <2> QED BY <1>1, <2>1 DEF KeptOf
<1>3. PICK k \in Nat : k = Len(h)
  BY <1>2
<1>4. PICK l \in Nat : l = Len(t)
  OBVIOUS
<1>5. n <= l /\ \A i \in 1..n : chat[i] = t[l - n + i]
  BY <1>1, <1>4, SuffixIs
<1>6. PICK d : d = Append(t, m)
  OBVIOUS
<1>7. d \in Seq(Message) /\ Len(d) = l + 1 /\ d[l + 1] = m /\ \A i \in 1..l : d[i] = t[i]
  BY <1>4, <1>6
<1>8. \A i \in 1..k : h[i] = d[l + 1 - k + i]
  <2> SUFFICES ASSUME NEW i \in 1..k PROVE h[i] = d[l + 1 - k + i]
    OBVIOUS
  <2>1. CASE i = k
    BY <1>2, <1>3, <1>7, <2>1
  <2>2. CASE i # k
    <3>1. PICK a : a = n + 1 - k + i
      OBVIOUS
    <3>2. a \in 1..n /\ l - n + a = l + 1 - k + i /\ l - n + a \in 1..l
      BY <1>2, <1>3, <1>5, <2>2, <3>1
    <3>3. h[i] = chat[a]
      BY <1>2, <1>3, <2>2, <3>1
    <3>4. chat[a] = t[l - n + a]
      BY <1>5, <3>2
    <3> QED BY <1>7, <3>2, <3>3, <3>4
  <2> QED BY <2>1, <2>2
<1>9. Suffix(h, d)
  <2>1. Len(h) <= Len(d) /\ \A i \in 1..Len(h) : h[i] = d[Len(d) - Len(h) + i]
    <3>1. k <= l + 1
      BY <1>2, <1>3, <1>5
    <3> QED BY <1>3, <1>7, <1>8, <3>1
  <2> QED BY <1>2, <1>7, <2>1, SuffixIs
<1> QED BY <1>6, <1>9

\* What becomes of a command k of p, that leads from w to u.
Answered(w, p, k, u) ==
    /\ k.type = "move" =>
          IF p = "host" THEN ~u.view["host"].moving
          ELSE Reached(w) => \E i \in DOMAIN u.wire["guest"] : AnswersMove(u.wire["guest"][i])
    /\ k.type = "chat" =>
          IF p = "host" THEN u.view["host"].pending = None
          ELSE Reached(w) => \E i \in DOMAIN u.wire["guest"] : AnswersText(u.wire["guest"][i])
    /\ p = "guest" \/ k.type # "vote" => (w.view["host"].session => u.view["host"].session)
Done(w, c, p, k, u) ==
    /\ \E d : Obeyed(w, c, u, d) /\ (k.type = "reconnect" /\ Reached(w) => Final(d, u.room))
    /\ Answered(w, p, k, u)

\* What a command says, by its type.
LEMMA CommandIs ==
    ASSUME NEW k \in Command
    PROVE  /\ k.type \in {"move", "resign", "vote", "chat", "reconnect"}
           /\ k.type = "move" => k.outcome \in {"keep", "pass", "win"}
           /\ k.type = "vote" => k.on \in BOOLEAN
           /\ k.type = "chat" => k.text \in Texts
  BY DEF Command

\* A command that is refused is answered.
LEMMA RefusedIsDone ==
    ASSUME NEW w, NEW c, Calm(w, c), w.ok, w.room.match # None, NEW p \in Players,
           p = "host" => w.view["host"].session,
           NEW k \in Command, NEW t,
           \/ t = "rejected" /\ k.type \in {"move", "resign"}
           \/ t = "error" /\ k.type = "vote"
           \/ t = "chat-rejected" /\ k.type = "chat",
           NEW u, u = Emit(w, w.room, Step({p}, Plain(t)))
    PROVE  Done(w, c, p, k, u)
<1>1. /\ \E d : Obeyed(w, c, u, d)
      /\ p = "guest" => Tells(w, u, Plain(t))
      /\ p = "host" => HostTurns(w.view["host"], Plain(t), w.room, u.view["host"])
  <2>1. t \in {"rejected", "error", "chat-rejected"}
    OBVIOUS
  <2> QED BY <2>1, Refuses
<1>2. Plain(t).type = t
  BY DEF Plain
<1>3. p = "host" \/ p = "guest"
  BY DEF Players
<1>4. k.type = "move" =>
          IF p = "host" THEN ~u.view["host"].moving
          ELSE Reached(w) => \E i \in DOMAIN u.wire["guest"] : AnswersMove(u.wire["guest"][i])
  BY <1>1, <1>2, <1>3 DEF HostTurns, Tells, AnswersMove
<1>5. k.type = "chat" =>
          IF p = "host" THEN u.view["host"].pending = None
          ELSE Reached(w) => \E i \in DOMAIN u.wire["guest"] : AnswersText(u.wire["guest"][i])
  <2>1. CASE p = "host" /\ k.type = "chat"
    <3>1. Plain(t).type = "chat-rejected" /\ w.view["host"].session
      BY <1>2, <2>1
    <3> QED BY <1>1, <2>1, <3>1 DEF HostTurns
  <2>2. CASE p = "guest" /\ k.type = "chat"
    <3>1. AnswersText(Plain(t))
      BY <1>2, <2>2 DEF AnswersText
    <3> QED BY <1>1, <2>2, <3>1 DEF Tells
  <2> QED BY <1>3, <2>1, <2>2
<1>6. ASSUME p = "guest" PROVE u.view["host"] = w.view["host"]
  <2>1. {p} = {"guest"} /\ "host" \notin {p}
    BY <1>6
  <2>2. Shaped(w)
    BY DEF Calm
  <2>3. EmitFields(w, w.room, Step({p}, Plain(t)), u)
    BY <2>2, EmitIs
  <2> QED BY <2>1, <2>3 DEF EmitFields, Step
<1>7. k.type # "vote" => Plain(t).type # "error"
  BY <1>2
<1>8. p = "guest" \/ k.type # "vote" => (w.view["host"].session => u.view["host"].session)
  BY <1>1, <1>3, <1>6, <1>7 DEF HostTurns
<1> QED BY <1>1, <1>4, <1>5, <1>8 DEF Done, Answered

\* One that changes the match is, by the match.
LEMMA ShownIsDone ==
    ASSUME NEW w, NEW c, Calm(w, c), w.ok, w.room.match # None, NEW p \in Players,
           p = "host" => w.view["host"].session,
           NEW k \in Command, k.type \in {"move", "resign"},
           NEW m \in Match, SoundMatch(m), ~m.over => m.moves < MaxMoves, Behind(w.room.match, m),
           NEW u, u = Emit(w, [w.room EXCEPT !.match = m], Step(Players, WithMatch(m)))
    PROVE  Done(w, c, p, k, u)
<1>1. PICK r : r = [w.room EXCEPT !.match = m]
  OBVIOUS
<1>2. /\ \E d : Obeyed(w, c, u, d)
      /\ Tells(w, u, WithMatch(m))
      /\ HostTurns(w.view["host"], WithMatch(m), r, u.view["host"])
  BY <1>1, ShowsMatch DEF Follows
<1>3. WithMatch(m).type = "match"
  BY DEF WithMatch
<1>4. k.type = "move" =>
          IF p = "host" THEN ~u.view["host"].moving
          ELSE Reached(w) => \E i \in DOMAIN u.wire["guest"] : AnswersMove(u.wire["guest"][i])
  BY <1>2, <1>3 DEF HostTurns, Tells, AnswersMove
<1>5. w.view["host"].session => u.view["host"].session
  BY <1>2, <1>3 DEF HostTurns
<1> QED BY <1>2, <1>4, <1>5 DEF Done, Answered

\* The match of a room that has one.
LEMMA RoomMatchIs ==
    ASSUME NEW r, RoomOK(r), r.match # None
    PROVE  /\ r.match \in Match /\ SoundMatch(r.match)
           /\ ~r.match.over => r.match.moves < MaxMoves
           /\ r.match.round \in Nat \ {0} /\ r.match.moves \in Nat
  BY RoomIs, MatchFormed, DirectAssumption DEF RoomOK

\* A move is served.
LEMMA MatchActionDone ==
    ASSUME NEW w, NEW c, Calm(w, c), w.ok, w.room.match # None, NEW p \in Players,
           p = "host" => w.view["host"].session,
           NEW k \in Command, k.type = "move"
    PROVE  Done(w, c, p, k, Obey(w, p, k))
<1>0. Obey(w, p, k) = ApplyMatchAction(w, p, k.outcome)
  BY DEF Obey
<1>1. PICK u : u = Obey(w, p, k)
  OBVIOUS
<1>2. PICK m : m = Played(w.room.match, p, k.outcome)
  OBVIOUS
<1>3. /\ w.room.match \in Match /\ SoundMatch(w.room.match)
      /\ ~w.room.match.over => w.room.match.moves < MaxMoves
      /\ w.room.match.round \in Nat \ {0} /\ w.room.match.moves \in Nat
  BY RoomStays, RoomMatchIs
<1>4. CASE w.room.match.over \/ w.room.match.mover # p
  <2>1. u = Emit(w, w.room, Step({p}, Plain("rejected")))
    BY <1>0, <1>1, <1>4 DEF ApplyMatchAction
  <2> QED BY <1>1, <2>1, RefusedIsDone
<1>5. CASE ~(w.room.match.over \/ w.room.match.mover # p)
  <2>1. u = Emit(w, [w.room EXCEPT !.match = m], Step(Players, WithMatch(m)))
    BY <1>0, <1>1, <1>2, <1>5 DEF ApplyMatchAction
  <2>2. w.room.match.mover # None
    BY <1>5, DirectAssumption
  <2>3. /\ m \in Match /\ m.round = w.room.match.round /\ m.moves = w.room.match.moves + 1
        /\ SoundMatch(m) /\ (~m.over => m.moves < MaxMoves)
    BY <1>2, <1>3, <1>5, <2>2, PlayedIs
  <2>4. Behind(w.room.match, m)
    BY <1>3, <2>3 DEF Behind
  <2> QED BY <1>1, <2>1, <2>3, <2>4, ShownIsDone
<1> QED BY <1>4, <1>5

\* A resignation is served.
LEMMA ResignDone ==
    ASSUME NEW w, NEW c, Calm(w, c), w.ok, w.room.match # None, NEW p \in Players,
           p = "host" => w.view["host"].session,
           NEW k \in Command, k.type = "resign"
    PROVE  Done(w, c, p, k, Obey(w, p, k))
<1>0. Obey(w, p, k) = Resign(w, p)
  BY DEF Obey
<1>1. PICK u : u = Obey(w, p, k)
  OBVIOUS
<1>2. PICK m : m = Ended(w.room.match)
  OBVIOUS
<1>3. w.room.match \in Match
  BY RoomStays, RoomMatchIs
<1>4. CASE w.room.match.over
  <2>1. u = Emit(w, w.room, Step({p}, Plain("rejected")))
    BY <1>0, <1>1, <1>4 DEF Resign
  <2> QED BY <1>1, <2>1, RefusedIsDone
<1>5. CASE ~w.room.match.over
  <2>1. u = Emit(w, [w.room EXCEPT !.match = m], Step(Players, WithMatch(m)))
    BY <1>0, <1>1, <1>2, <1>5 DEF Resign
  <2>2. /\ m \in Match /\ m.over /\ m.mover = None /\ m.round = w.room.match.round
        /\ m.moves = w.room.match.moves
    BY <1>2, <1>3, EndedIs
  <2>3. SoundMatch(m) /\ (~m.over => m.moves < MaxMoves)
    BY <2>2 DEF SoundMatch
  <2>4. Behind(w.room.match, m)
    BY <1>3, <2>2 DEF Behind
  <2> QED BY <1>1, <2>1, <2>2, <2>3, <2>4, ShownIsDone
<1> QED BY <1>4, <1>5

Polled(w, c, r, s, u) ==
    /\ Emitted(w, c, r, s, u) /\ Served(w, u)
    /\ Calm(u, IF Reaches(w, s) THEN PictureAfter(c, Votes(r.match)) ELSE c)
    /\ w.view["host"].session => u.view["host"].session

\* The votes may be shown to a page that shows the match of q.
GoesOn(q, r, m) ==
    /\ Goes(q, r, m)
    /\ \A v \in Match : Shows(v, q.match) => Shows([v EXCEPT !.votes = m.votes], m)

\* Once the room is r, the votes of its match are shown.
LEMMA VotesShown ==
    ASSUME NEW w, NEW c, Calm(w, c), w.ok, w.room.match # None,
           NEW r, RoomOK(r), Advances(w.room, r), r.said = w.room.said, r.match # None,
           w.view["host"].match # None =>
               Shows([w.view["host"].match EXCEPT !.votes = r.match.votes], r.match),
           NEW s, s = Step(Players, Votes(r.match)), NEW u, u = Emit(w, r, s)
    PROVE  Polled(w, c, r, s, u)
<1>1. PICK e : e = Votes(r.match)
  OBVIOUS
<1>2. r.match \in Match /\ r.match.votes \in SUBSET Players
  BY RoomMatchIs, MatchFormed
<1>3. e.type = "votes" /\ e.votes = r.match.votes /\ e \in Event
  BY <1>1, <1>2, EventsAre DEF Votes
<1>4. s.to = Players /\ s.event = e /\ "host" \in s.to /\ "guest" \in s.to
  BY <1>1 DEF Step, Players
<1>5. Fits(w.view["host"], e, r)
  BY <1>2, <1>3 DEF Fits
<1>6. PICK d : d = PictureAfter(c, e)
  OBVIOUS
<1>7. d.chat = c.chat
  <2>1. PICK m : m = [c.match EXCEPT !.votes = e.votes]
    OBVIOUS
  <2>2. [c EXCEPT !.match.votes = e.votes] = [c EXCEPT !.match = m]
    BY <2>1
  <2>3. d \in {c, [c EXCEPT !.match = m]}
    BY <1>3, <1>6, <2>2 DEF PictureAfter
  <2> QED BY <2>3, RoomStays DEF Pictures
<1>8. Rises(d.chat) /\ (Live(w) => UpTo(d.chat, r.said))
  BY <1>7, RoomStays DEF Calm
<1>9. Emitted(w, c, r, s, u)
  BY <1>3, <1>4, <1>5, <1>6, <1>8, EmitKeeps
<1>10. Served(w, u)
  BY <1>3, <1>4, <1>9, EmittedServes
<1>11. HostTurns(w.view["host"], e, r, u.view["host"])
  BY <1>4, <1>9 DEF Emitted
<1> QED BY <1>1, <1>3, <1>4, <1>9, <1>10, <1>11 DEF Emitted, HostTurns, Polled

\* The room's match with other votes.
LEMMA VotedOK ==
    ASSUME NEW q, RoomOK(q), q.match # None, NEW votes \in SUBSET Players,
           NEW m, m = [q.match EXCEPT !.votes = votes], NEW r, r = [q EXCEPT !.match = m]
    PROVE  GoesOn(q, r, m) /\ m.votes = votes
<1>1. /\ q.match \in Match /\ SoundMatch(q.match)
      /\ ~q.match.over => q.match.moves < MaxMoves
      /\ q.match.round \in Nat \ {0} /\ q.match.moves \in Nat
  BY RoomMatchIs
<1>2. m = [round |-> q.match.round, moves |-> q.match.moves, mover |-> q.match.mover,
           over |-> q.match.over, votes |-> votes, guestOn |-> q.match.guestOn]
  BY <1>1, MatchWith
<1>3. m \in Match
  BY <1>1, <1>2, MatchFormed
<1>4. SoundMatch(m) /\ (~m.over => m.moves < MaxMoves)
  BY <1>1, <1>2 DEF SoundMatch
<1>5. Behind(q.match, m)
  BY <1>1, <1>2 DEF Behind
<1>6. Goes(q, r, m)
  BY <1>3, <1>4, <1>5, RoomMatchOK
<1>7. ASSUME NEW v \in Match, Shows(v, q.match)
      PROVE  Shows([v EXCEPT !.votes = votes], m)
  <2>1. PICK d : d = [v EXCEPT !.votes = votes]
    OBVIOUS
  <2>2. d = [round |-> v.round, moves |-> v.moves, mover |-> v.mover,
             over |-> v.over, votes |-> votes, guestOn |-> v.guestOn]
    BY <2>1, MatchWith
  <2>3. v # None /\ m # None
    BY <1>3, DirectAssumption
  <2>4. d.round = v.round /\ (Same(v, q.match) => Same(d, m))
    BY <1>2, <2>2 DEF Same
  <2>5. m.round = q.match.round
    BY <1>2
  <2> QED BY <1>7, <2>1, <2>3, <2>4, <2>5 DEF Shows
<1>8. m.votes = votes
  BY <1>2
<1> QED BY <1>6, <1>7, <1>8 DEF GoesOn

\* The match of another round.
LEMMA StartedOK ==
    ASSUME NEW q, RoomOK(q), q.match # None, NEW starter \in Players,
           NEW m, m = NewMatch(q.match.round + 1, starter),
           NEW r, r = [q EXCEPT !.match = m, !.starter = starter]
    PROVE  GoesOn(q, r, m)
<1>1. q.match \in Match /\ q.match.round \in Nat \ {0} /\ q.match.moves \in Nat
  BY RoomMatchIs
<1>2. m \in Match /\ m.round = q.match.round + 1 /\ m.moves = 0 /\ SoundMatch(m) /\ ~m.over
  <2>1. q.match.round + 1 \in Nat \ {0}
    BY <1>1
  <2> QED BY <2>1, NewMatchIs
<1>3. PICK a : a = [q EXCEPT !.match = m]
  OBVIOUS
<1>4. r = [a EXCEPT !.starter = starter]
  BY <1>3
<1>5. Behind(q.match, m)
  BY <1>1, <1>2 DEF Behind
<1>6. m.moves < MaxMoves
  BY <1>2, DirectAssumption
<1>7. RoomOK(a) /\ Advances(q, a) /\ a.match = m /\ a.said = q.said /\ a.chat = q.chat
      /\ a.guest = q.guest
  BY <1>2, <1>3, <1>5, <1>6, RoomMatchOK DEF Goes
<1>8. r = [guest |-> a.guest, match |-> a.match, chat |-> a.chat, said |-> a.said,
           starter |-> starter]
  BY <1>4, <1>7, RoomWith DEF RoomOK
<1>9. /\ r.guest = a.guest /\ r.match = a.match /\ r.chat = a.chat /\ r.said = a.said
      /\ r.starter = starter
  BY ONLY <1>8
<1>10. r \in Room
  BY <1>7, <1>8, RoomFormed DEF RoomOK
<1>11. RoomOK(r) /\ Advances(q, r)
  BY <1>7, <1>9, <1>10 DEF RoomOK, Advances
<1>12. ASSUME NEW v \in Match, Shows(v, q.match)
       PROVE  Shows([v EXCEPT !.votes = m.votes], m)
  <2>1. PICK d : d = [v EXCEPT !.votes = m.votes]
    OBVIOUS
  <2>2. d.round = v.round
    BY <2>1, MatchWith
  <2>3. v.round \in Nat /\ v # None /\ m # None
    BY <1>2, MatchFormed, DirectAssumption
  <2>4. v.round < m.round
    BY <1>1, <1>2, <1>12, <2>3 DEF Shows, Same
  <2> QED BY <2>1, <2>2, <2>3, <2>4 DEF Shows
<1> QED BY <1>2, <1>7, <1>9, <1>11, <1>12 DEF GoesOn, Goes

\* A vote that decides nothing is served.
LEMMA VotesDone ==
    ASSUME NEW w, NEW c, Calm(w, c), w.ok, w.room.match # None,
           NEW votes \in SUBSET Players, NEW m, m = [w.room.match EXCEPT !.votes = votes],
           NEW p, NEW k \in Command, k.type = "vote",
           NEW u, u = Emit(w, [w.room EXCEPT !.match = m], Step(Players, Votes(m)))
    PROVE  Done(w, c, p, k, u)
<1>1. PICK r : r = [w.room EXCEPT !.match = m]
  OBVIOUS
<1>2. /\ RoomOK(r) /\ Advances(w.room, r) /\ r.said = w.room.said /\ r.chat = w.room.chat
      /\ r.match = m /\ m \in Match /\ m.votes = votes
      /\ \A v \in Match : Shows(v, w.room.match) => Shows([v EXCEPT !.votes = votes], m)
  <2>1. GoesOn(w.room, r, m) /\ m.votes = votes
    <3>1. RoomOK(w.room)
      BY RoomStays
    <3> QED BY <1>1, <3>1, VotedOK
  <2> QED BY <2>1 DEF GoesOn, Goes
<1>3. r.match # None
  BY <1>2, DirectAssumption
<1>4. w.view["host"].match # None => Shows([w.view["host"].match EXCEPT !.votes = r.match.votes], r.match)
  BY <1>2, RoomStays
<1>5. PICK s : s = Step(Players, Votes(r.match))
  OBVIOUS
<1>6. PICK d : d = PictureAfter(c, Votes(m))
  OBVIOUS
<1>7. /\ Emitted(w, c, r, s, u) /\ Served(w, u)
      /\ Calm(u, IF Reaches(w, s) THEN d ELSE c)
      /\ w.view["host"].session => u.view["host"].session
  <2>1. Polled(w, c, r, s, u)
    <3>1. u = Emit(w, r, s)
      BY <1>1, <1>2, <1>5
    <3> QED BY <1>2, <1>3, <1>4, <1>5, <3>1, VotesShown
  <2> QED BY <1>2, <1>6, <2>1 DEF Polled
<1>8. Final(c, w.room) => Final(d, r)
  <2> SUFFICES ASSUME Final(c, w.room) PROVE Final(d, r)
    OBVIOUS
  <2>1. c.at = "in" /\ c.match = w.room.match /\ c.match # None
    BY DEF Final
  <2>2. Votes(m).type = "votes" /\ Votes(m).votes = votes
    BY <1>2 DEF Votes
  <2>3. [c EXCEPT !.match.votes = votes] = [c EXCEPT !.match = m]
    BY <2>1
  <2>4. d = [c EXCEPT !.match = m]
    BY <1>6, <2>1, <2>2, <2>3 DEF PictureAfter
  <2>5. d.at = "in" /\ d.match = m /\ d.chat = c.chat
    BY <2>1, <2>4, RoomStays DEF Pictures
  <2> QED BY <1>2, <2>5 DEF Final
<1>9. Reached(w) => Reaches(w, s)
  BY <1>5 DEF Reached, Reaches, Step, Players
<1>10. u.room = r
  BY <1>7 DEF Emitted
<1>11. \E x : Obeyed(w, c, u, x)
  BY <1>7, <1>8, <1>9, <1>10 DEF Obeyed
<1> QED BY <1>7, <1>11 DEF Done, Answered

\* The votes are in: the next round begins.
LEMMA RematchDone ==
    ASSUME NEW w, NEW c, Calm(w, c), w.ok, w.room.match # None, NEW starter \in Players,
           NEW m, m = NewMatch(w.room.match.round + 1, starter),
           NEW r, r = [w.room EXCEPT !.match = m, !.starter = starter],
           NEW p, NEW k \in Command, k.type = "vote",
           NEW u, u = Then(Emit(w, r, Step(Players, Votes(m))), Step(Players, WithMatch(m)))
    PROVE  Done(w, c, p, k, u)
<1>1. PICK a : a = Emit(w, r, Step(Players, Votes(m)))
  OBVIOUS
<1>2. /\ RoomOK(r) /\ Advances(w.room, r) /\ r.said = w.room.said /\ r.chat = w.room.chat
      /\ r.match = m /\ m \in Match
      /\ \A v \in Match : Shows(v, w.room.match) => Shows([v EXCEPT !.votes = m.votes], m)
  <2>1. GoesOn(w.room, r, m)
    BY RoomStays, StartedOK
  <2> QED BY <2>1 DEF GoesOn, Goes
<1>3. r.match # None
  BY <1>2, DirectAssumption
<1>4. w.view["host"].match # None => Shows([w.view["host"].match EXCEPT !.votes = r.match.votes], r.match)
  BY <1>2, RoomStays
<1>5. PICK s : s = Step(Players, Votes(r.match))
  OBVIOUS
<1>6. PICK d : d = PictureAfter(c, Votes(m))
  OBVIOUS
<1>7. /\ Emitted(w, c, r, s, a) /\ Served(w, a)
      /\ Calm(a, IF Reaches(w, s) THEN d ELSE c)
      /\ w.view["host"].session => a.view["host"].session
  <2>1. Polled(w, c, r, s, a)
    BY <1>1, <1>2, <1>3, <1>4, <1>5, VotesShown
  <2> QED BY <1>2, <1>6, <2>1 DEF Polled
<1>8. a.room = r /\ (a.ok <=> w.side["host"].state = "open")
  BY <1>5, <1>7 DEF Emitted, Step, Players
<1>9. CASE ~a.ok
  <2>1. u = a
    BY <1>1, <1>9 DEF Then
  <2>2. ~Reached(w)
    BY <1>8, <1>9 DEF Reached
  <2>3. \E x : Obeyed(w, c, u, x)
    BY <1>7, <2>1, <2>2 DEF Obeyed
  <2> QED BY <1>7, <2>1, <2>3 DEF Done, Answered
<1>10. CASE a.ok
  <2>1. PICK x : x = IF Reaches(w, s) THEN d ELSE c
    OBVIOUS
  <2>2. Calm(a, x) /\ a.room.match = m /\ a.room.match # None
    BY <1>2, <1>3, <1>7, <1>8, <2>1
  <2>3. [r EXCEPT !.match = m] = r
    BY <1>2, RoomFormed DEF RoomOK
  <2>4. u = Emit(a, r, Step(Players, WithMatch(m)))
    <3>1. [a EXCEPT !.room = r] = a
      BY <1>8, <2>2 DEF Calm, Shaped
    <3> QED BY <1>1, <1>10, <3>1 DEF Emit
  <2>5. SoundMatch(m) /\ (~m.over => m.moves < MaxMoves) /\ Behind(m, m)
    <3>1. m.round \in Nat /\ m.moves \in Nat
      BY <1>2, MatchFormed, DirectAssumption
    <3> QED BY <1>2, <1>3, <3>1, RoomMatchIs DEF Behind
  <2>6. PICK y : Obeyed(a, x, u, y) /\ Completes(a, x, u, y)
    <3>0. m \in Match /\ r = [a.room EXCEPT !.match = m] /\ Behind(a.room.match, m)
      BY <1>2, <1>8, <2>2, <2>3, <2>5
    <3>1. Follows(a, x, u)
      BY ONLY <1>10, <2>2, <2>4, <2>5, <3>0, ShowsMatch
    <3> QED BY <3>1 DEF Follows
  <2>7. HostTurns(a.view["host"], WithMatch(m), r, u.view["host"])
    BY <1>2, <1>8, <1>10, <2>2, <2>3, <2>4, <2>5, ShowsMatch
  <2>8. a.view["host"].session => u.view["host"].session
    BY <2>7 DEF HostTurns, WithMatch
  <2>9. Served(w, u)
    BY <1>7, <2>6, ServedTwice DEF Obeyed
  <2>10. Reached(w) /\ Final(c, w.room) => Final(y, u.room)
    <3> SUFFICES ASSUME Reached(w), Final(c, w.room) PROVE Final(y, u.room)
      OBVIOUS
    <3>1. Reached(a)
      BY <1>7 DEF Served, Reached, Aside, Linked
    <3>2. Reaches(w, s)
      BY <1>5 DEF Reached, Reaches, Step, Players
    <3>3. c.at = "in" /\ Suffix(w.room.chat, c.chat)
      BY DEF Final
    <3>4. PICK z : z = [c.match EXCEPT !.votes = m.votes]
      OBVIOUS
    <3>5. [c EXCEPT !.match.votes = m.votes] = [c EXCEPT !.match = z]
      BY <3>4
    <3>6. Votes(m).type = "votes" /\ Votes(m).votes = m.votes
      BY DEF Votes
    <3>7. d = c \/ d = [c EXCEPT !.match = z]
      BY <1>6, <3>5, <3>6 DEF PictureAfter
    <3>8. d.at = "in" /\ d.chat = c.chat
      BY <3>3, <3>7, RoomStays DEF Pictures
    <3>9. x = d /\ x.at = "in" /\ Suffix(a.room.chat, x.chat)
      BY <1>2, <1>8, <2>1, <3>2, <3>3, <3>8
    <3> QED BY <2>6, <3>1, <3>9 DEF Completes
  <2> QED BY <1>7, <2>6, <2>8, <2>9, <2>10 DEF Done, Answered, Obeyed
<1> QED BY <1>9, <1>10

\* r is the room q with the message m.
SaidOn(q, r, m) ==
    /\ RoomOK(r) /\ Advances(q, r) /\ r.match = q.match /\ r.said = m.id
    /\ r.chat \in Seq(Message) /\ r.chat = Kept(Append(q.chat, m))

\* A room goes on with a message.
LEMMA SaidOK ==
    ASSUME NEW q, RoomOK(q), NEW m \in Message, m.id = q.said + 1,
           NEW r, r = [q EXCEPT !.said = @ + 1, !.chat = Kept(Append(@, m))]
    PROVE  SaidOn(q, r, m)
<1>1. /\ q \in Room /\ q.said \in Nat /\ q.chat \in Seq(Message) /\ Len(q.chat) <= HistoryLimit
      /\ Rises(q.chat) /\ UpTo(q.chat, q.said) /\ q.match \in Match \cup {None}
  BY RoomIs DEF RoomOK
<1>2. PICK h : h = Kept(Append(q.chat, m))
  OBVIOUS
<1>3. PICK a : a = [q EXCEPT !.said = q.said + 1]
  OBVIOUS
<1>4. a = [guest |-> q.guest, match |-> q.match, chat |-> q.chat, said |-> q.said + 1,
           starter |-> q.starter]
  BY <1>1, <1>3, RoomWith
<1>5. r = [a EXCEPT !.chat = h]
  BY <1>2, <1>3
<1>6. r = [guest |-> q.guest, match |-> q.match, chat |-> h, said |-> q.said + 1,
           starter |-> q.starter]
  BY ONLY <1>4, <1>5
<1>7. \A i \in DOMAIN q.chat : q.chat[i].id < m.id
  <2>1. \A i \in DOMAIN q.chat : q.chat[i] \in Message
    BY <1>1
  <2>2. \A i \in DOMAIN q.chat : q.chat[i].id \in Nat
    BY <2>1 DEF Message
  <2> QED BY <1>1, <2>2 DEF UpTo
<1>8. h \in Seq(Message) /\ Len(h) <= HistoryLimit
  <2>1. KeptOf(q.chat, m, h)
    BY <1>1, <1>2, KeptIs
  <2> QED BY <2>1 DEF KeptOf
<1>9. Rises(h) /\ UpTo(h, m.id)
  BY <1>1, <1>2, <1>7, KeptInOrder
<1>10. /\ r.guest = q.guest /\ r.match = q.match /\ r.chat = h /\ r.said = q.said + 1
       /\ r.starter = q.starter
  BY ONLY <1>6
<1>11. r \in Room
  <2>1. q.guest \in BOOLEAN /\ q.starter \in Players
    BY <1>1, RoomFormed
  <2>2. q.said + 1 \in Nat
    BY <1>1
  <2> QED BY <1>1, <1>6, <1>8, <2>1, <2>2 DEF Room
<1>12. RoomOK(r)
  BY <1>1, <1>8, <1>9, <1>10, <1>11 DEF RoomOK
<1>13. Advances(q, r)
  <2>1. Passed(q.match, q.match)
    BY <1>1, PassedIs DEF Passed
  <2> QED BY <1>1, <1>10, <2>1 DEF Advances
<1> QED BY <1>2, <1>8, <1>10, <1>12, <1>13 DEF SaidOn

\* A message is served.
LEMMA ChatDone ==
    ASSUME NEW w, NEW c, Calm(w, c), w.ok, w.room.match # None, NEW p \in Players,
           p = "host" => w.view["host"].session,
           NEW k \in Command, k.type = "chat"
    PROVE  Done(w, c, p, k, Obey(w, p, k))
<1>0. Obey(w, p, k) = SendChat(w, p, k.text)
  BY DEF Obey
<1>1. PICK u : u = Obey(w, p, k)
  OBVIOUS
<1>2. PICK m : m = [id |-> w.room.said + 1, from |-> p, text |-> k.text]
  OBVIOUS
<1>3. PICK r : r = [w.room EXCEPT !.said = @ + 1, !.chat = Kept(Append(@, m))]
  OBVIOUS
<1>4. PICK e : e = [type |-> "message", message |-> m]
  OBVIOUS
<1>5. CASE k.text \in TooLong
  <2>1. u = Emit(w, w.room, Step({p}, Plain("chat-rejected")))
    BY <1>0, <1>1, <1>5 DEF SendChat
  <2> QED BY <1>1, <2>1, RefusedIsDone
<1>6. CASE k.text \notin TooLong
  <2>1. u = Emit(w, r, Step(Players, e))
    BY <1>0, <1>1, <1>2, <1>3, <1>4, <1>6 DEF SendChat
  <2>2. m \in Message /\ m.id = w.room.said + 1 /\ m.from = p
    BY <1>2, RoomStays, CommandIs DEF Message
  <2>3. SaidOn(w.room, r, m)
    <3>1. RoomOK(w.room)
      BY RoomStays
    <3> QED BY <1>3, <2>2, <3>1, SaidOK
  <2>4. /\ RoomOK(r) /\ Advances(w.room, r) /\ r.match = w.room.match /\ r.said = m.id
        /\ r.chat = Kept(Append(w.room.chat, m))
    BY <2>3 DEF SaidOn
  <2>5. e.type = "message" /\ e.message = m /\ e \in Event
    BY <1>4, <2>2, EventsAre
  <2>6. PICK s : s = Step(Players, e)
    OBVIOUS
  <2>7. s.to = Players /\ s.event = e /\ "host" \in s.to /\ "guest" \in s.to
    BY <2>6 DEF Step, Players
  <2>8. ASSUME NEW chat \in Seq(Message), UpTo(chat, w.room.said)
        PROVE  \A i \in DOMAIN chat : chat[i].id < m.id
    <3>1. \A i \in DOMAIN chat : chat[i] \in Message
      OBVIOUS
    <3>2. \A i \in DOMAIN chat : chat[i].id \in Nat
      BY <3>1 DEF Message
    <3> QED BY <2>2, <2>8, <3>2, RoomStays DEF UpTo
  <2>9. Fits(w.view["host"], e, r)
    <3>1. w.view["host"].chat \in Seq(Message) /\ UpTo(w.view["host"].chat, w.room.said)
      BY ViewFormed DEF Calm, HostPage
    <3>2. \A i \in DOMAIN w.view["host"].chat : w.view["host"].chat[i].id < m.id
      BY <2>8, <3>1
    <3> QED BY <2>2, <2>4, <2>5, <3>2, RoomStays DEF Fits
  <2>10. c.chat \in Seq(Message) /\ Rises(c.chat)
    BY RoomStays DEF Pictures
  <2>11. PICK d : d = PictureAfter(c, e)
    OBVIOUS
  <2>12. PICK t : t = Append(c.chat, m)
    OBVIOUS
  <2>13. d = IF c.at # "out" /\ ~KnownIn(c.chat, m) THEN [c EXCEPT !.chat = t] ELSE c
    BY <2>5, <2>11, <2>12 DEF PictureAfter
  <2>14. d.chat \in {t, c.chat}
    BY <2>13, RoomStays DEF Pictures
  <2>15. ASSUME Live(w) PROVE Rises(d.chat) /\ UpTo(d.chat, r.said) /\ ~KnownIn(c.chat, m)
    <3>1. UpTo(c.chat, w.room.said)
      BY <2>15 DEF Calm
    <3>2. \A i \in DOMAIN c.chat : c.chat[i].id < m.id
      BY <2>8, <2>10, <3>1
    <3>3. Rises(t) /\ UpTo(t, m.id)
      BY <2>2, <2>10, <2>12, <3>2, AppendRises
    <3>4. UpTo(c.chat, m.id)
      BY <2>2, <2>10, <3>1, RoomStays, UpToMore
    <3>5. ~KnownIn(c.chat, m)
      BY <2>2, <3>2, RoomStays DEF KnownIn
    <3> QED BY <2>4, <2>10, <2>14, <3>3, <3>4, <3>5
  <2>16. Reaches(w, s) => Live(w)
    BY DEF Reaches, Live, Calm
  <2>17. Emitted(w, c, r, s, u)
    BY <2>1, <2>4, <2>5, <2>6, <2>7, <2>9, <2>11, <2>15, <2>16, EmitKeeps
  <2>18. Served(w, u)
    BY <2>4, <2>5, <2>7, <2>17, EmittedServes
  <2>19. Calm(u, IF Reaches(w, s) THEN d ELSE c) /\ u.room = r
    BY <2>7, <2>11, <2>17 DEF Emitted
  <2>20. Reached(w) => Reaches(w, s)
    BY <2>7 DEF Reaches, Reached
  <2>21. Reached(w) /\ Final(c, w.room) => Final(d, r)
    <3> SUFFICES ASSUME Reached(w), Final(c, w.room) PROVE Final(d, r)
      OBVIOUS
    <3>1. c.at = "in" /\ c.match = w.room.match /\ Suffix(w.room.chat, c.chat)
      BY DEF Final
    <3>2. d = [c EXCEPT !.chat = t]
      BY <2>13, <2>15, <2>16, <2>20, <3>1
    <3>3. d.at = "in" /\ d.match = w.room.match /\ d.chat = t
      BY <3>1, <3>2, RoomStays DEF Pictures
    <3>4. w.room.chat \in Seq(Message) /\ Len(w.room.chat) <= HistoryLimit
      BY RoomStays, RoomIs DEF RoomOK
    <3>5. Suffix(r.chat, t)
      BY <2>2, <2>4, <2>10, <2>12, <3>1, <3>4, KeptIsSuffix
    <3> QED BY <2>4, <3>3, <3>5 DEF Final
  <2>22. \E x : Obeyed(w, c, u, x)
    BY <2>18, <2>19, <2>20, <2>21 DEF Obeyed
  <2>23. Tells(w, u, e)
    BY <2>7, <2>17, EmittedTells
  <2>24. HostTurns(w.view["host"], e, r, u.view["host"])
    BY <2>7, <2>17 DEF Emitted
  <2>25. w.view["host"].session => u.view["host"].session
    BY <2>5, <2>24 DEF HostTurns
  <2>26. p = "host" => u.view["host"].pending = None
    BY <2>2, <2>5, <2>24 DEF HostTurns
  <2>27. p # "host" => (Reached(w) => \E i \in DOMAIN u.wire["guest"] : AnswersText(u.wire["guest"][i]))
    <3>1. p # "host" => p = "guest"
      BY DEF Players
    <3>2. p = "guest" => AnswersText(e)
      BY <2>2, <2>5 DEF AnswersText
    <3> QED BY <2>23, <3>1, <3>2 DEF Tells
  <2> QED BY <1>1, <2>22, <2>25, <2>26, <2>27 DEF Done, Answered
<1> QED BY <1>5, <1>6

\* A vote is served.
LEMMA VoteDone ==
    ASSUME NEW w, NEW c, Calm(w, c), w.ok, w.room.match # None, NEW p \in Players,
           p = "host" => w.view["host"].session,
           NEW k \in Command, k.type = "vote"
    PROVE  Done(w, c, p, k, Obey(w, p, k))
<1>0. Obey(w, p, k) = SetRematchRequest(w, p, k.on)
  BY DEF Obey
<1>1. PICK u : u = Obey(w, p, k)
  OBVIOUS
<1>2. PICK votes : votes = IF k.on THEN w.room.match.votes \cup {p} ELSE w.room.match.votes \ {p}
  OBVIOUS
<1>3. PICK m : m = [w.room.match EXCEPT !.votes = votes]
  OBVIOUS
<1>4. w.room.match \in Match /\ w.room.starter \in Players
  BY RoomStays, RoomMatchIs, RoomIs
<1>5. votes \in SUBSET Players
  BY <1>2, <1>4, MatchFormed
<1>6. m.votes = votes
  BY <1>3, <1>4, MatchWith
<1>7. m = [w.room.match EXCEPT !.votes = IF k.on THEN @ \cup {p} ELSE @ \ {p}]
  BY <1>2, <1>3
<1>8. PICK starter : starter = Other(w.room.starter)
  OBVIOUS
<1>9. starter \in Players
  BY <1>8 DEF Other, Players
<1>10. PICK new : new = NewMatch(w.room.match.round + 1, starter)
  OBVIOUS
<1>11. PICK r : r = [w.room EXCEPT !.match = new, !.starter = starter]
  OBVIOUS
<1>12. CASE ~w.room.match.over
  <2>1. u = Emit(w, w.room, Step({p}, Plain("error")))
    BY <1>0, <1>1, <1>12 DEF SetRematchRequest
  <2> QED BY <1>1, <2>1, RefusedIsDone
<1>13. CASE w.room.match.over /\ m.votes = Players
  <2>1. u = Then(Emit(w, r, Step(Players, Votes(new))), Step(Players, WithMatch(new)))
    BY <1>0, <1>1, <1>7, <1>8, <1>10, <1>11, <1>13 DEF SetRematchRequest
  <2> QED BY <1>1, <1>9, <1>10, <1>11, <2>1, RematchDone
<1>14. CASE w.room.match.over /\ m.votes # Players
  <2>1. u = Emit(w, [w.room EXCEPT !.match = m], Step(Players, Votes(m)))
    BY <1>0, <1>1, <1>7, <1>14 DEF SetRematchRequest
  <2> QED BY <1>1, <1>3, <1>5, <2>1, VotesDone
<1> QED BY <1>12, <1>13, <1>14

-----------------------------------------------------------------------------
\* The fan-outs of a guest who comes in, comes back or goes away.

\* A further step of a fan-out, when none has thrown.
LEMMA ThenIs ==
    ASSUME NEW w, Shaped(w), w.ok, NEW s
    PROVE  Then(w, s) = Emit(w, w.room, s)
<1>1. [w EXCEPT !.room = w.room] = w
  BY DEF Shaped
<1> QED BY <1>1 DEF Emit

\* A history is its own end.
LEMMA EndsWithItself ==
    ASSUME NEW s \in Seq(Message)
    PROVE  Suffix(s, s)
  BY SuffixIs

\* The event e is sent to the guest alone.
Told(w, c, r, e, u) ==
    /\ Served(w, u) /\ u.room = r
    /\ Calm(u, IF Reached(w) THEN PictureAfter(c, e) ELSE c)
    /\ u.view["host"] = w.view["host"]
    /\ u.ok <=> w.side["host"].state = "open"

\* A step to the guest alone.
LEMMA TellsGuest ==
    ASSUME NEW w, NEW c, Calm(w, c), w.ok, NEW r, RoomOK(r), Advances(w.room, r),
           Shows(w.view["host"].match, r.match),
           \/ w.control = "none"
           \/ w.room.match # None /\ r.match # None /\ Same(w.room.match, r.match),
           NEW e \in Event, e.type # "recovery",
           Rises(PictureAfter(c, e).chat), Live(w) => UpTo(PictureAfter(c, e).chat, r.said),
           e.type = "match" => Passed(e.match, r.match),
           NEW u, u = Emit(w, r, Step({"guest"}, e))
    PROVE  Told(w, c, r, e, u)
<1>1. PICK s : s = Step({"guest"}, e)
  OBVIOUS
<1>2. s.to = {"guest"} /\ s.event = e /\ "guest" \in s.to /\ "host" \notin s.to
  BY <1>1 DEF Step
<1>3. Emitted(w, c, r, s, u)
  BY <1>1, <1>2, EmitKeeps
<1>4. Served(w, u)
  BY <1>2, <1>3, EmittedServes
<1>5. Reaches(w, s) <=> Reached(w)
  BY <1>2 DEF Reaches, Reached
<1> QED BY <1>2, <1>3, <1>4, <1>5 DEF Emitted, Told

\* The match is shown to the host alone.
HostTold(w, c, r, u) ==
    /\ Served(w, u) /\ u.room = r /\ Calm(u, c)
    /\ HostTurns(w.view["host"], WithMatch(r.match), r, u.view["host"])
    /\ w.view["host"].session => u.view["host"].session
    /\ u.wire = w.wire

\* A step to the host alone.
LEMMA TellsHost ==
    ASSUME NEW w, NEW c, Calm(w, c), w.ok, NEW r, RoomOK(r), Advances(w.room, r),
           r.match # None,
           NEW u, u = Emit(w, r, Step({"host"}, WithMatch(r.match)))
    PROVE  HostTold(w, c, r, u)
<1>1. PICK e : e = WithMatch(r.match)
  OBVIOUS
<1>2. r.match \in Match
  BY RoomMatchIs
<1>3. e.type = "match" /\ e.match = r.match
  BY <1>1 DEF WithMatch
<1>4. PICK s : s = Step({"host"}, e)
  OBVIOUS
<1>5. s.to = {"host"} /\ s.event = e /\ "guest" \notin s.to /\ "host" \in s.to
  BY <1>4 DEF Step
<1>6. Fits(w.view["host"], e, r)
  BY <1>2, <1>3 DEF Fits
<1>7. Emitted(w, c, r, s, u)
  BY <1>1, <1>3, <1>4, <1>5, <1>6, EmitKeeps
<1>8. Served(w, u)
  BY <1>5, <1>7, EmittedServes
<1>9. ~Reaches(w, s)
  BY <1>5 DEF Reaches
<1>10. HostTurns(w.view["host"], e, r, u.view["host"])
  BY <1>5, <1>7 DEF Emitted
<1>11. w.view["host"].session => u.view["host"].session
  BY <1>3, <1>10 DEF HostTurns
<1>12. u.room = r /\ Calm(u, c) /\ u.wire["guest"] = w.wire["guest"]
       /\ u.wire["host"] = w.wire["host"]
  BY <1>7, <1>9 DEF Emitted
<1>13. u.wire = w.wire
  <2>1. u.wire = [p \in Players |-> u.wire[p]] /\ w.wire = [p \in Players |-> w.wire[p]]
    BY <1>12 DEF Calm, Shaped
  <2> QED BY <1>12, <2>1 DEF Players
<1> QED BY <1>1, <1>8, <1>10, <1>11, <1>12, <1>13 DEF HostTold

\* A guest who comes is told that it has joined, and the history.
Welcomed(w, c, r, u) ==
    /\ Served(w, u) /\ u.room = r
    /\ \E d : /\ Calm(u, d)
              /\ Reached(w) => d.at = "in" /\ d.match = None /\ d.chat = r.chat
    /\ u.view["host"] = w.view["host"]
    /\ u.ok <=> w.side["host"].state = "open"

\* A guest who comes in, or comes back, is given the room and its history.
LEMMA Welcomes ==
    ASSUME NEW w, NEW c, Calm(w, c), w.ok, NEW r, RoomOK(r), Advances(w.room, r),
           Shows(w.view["host"].match, r.match), r.match # None,
           \/ w.control = "none"
           \/ w.room.match # None /\ Same(w.room.match, r.match),
           NEW u, u = Then(Emit(w, r, Step({"guest"}, Plain("joined"))),
                           Step({"guest"}, History(r)))
    PROVE  Welcomed(w, c, r, u)
<1>1. PICK e : e = Plain("joined")
  OBVIOUS
<1>2. e.type = "joined" /\ e \in Event
  BY <1>1, EventsAre DEF Plain
<1>3. PICK d : d = PictureAfter(c, e)
  OBVIOUS
<1>4. d = [at |-> "in", match |-> None, chat |-> <<>>]
  BY <1>2, <1>3 DEF PictureAfter
<1>5. d.at = "in" /\ d.match = None /\ d.chat = <<>>
  BY <1>4
<1>6. Rises(d.chat) /\ UpTo(d.chat, r.said)
  BY <1>5 DEF Rises, UpTo
<1>7. PICK a : a = Emit(w, r, Step({"guest"}, e))
  OBVIOUS
<1>8. Told(w, c, r, e, a)
  BY <1>2, <1>3, <1>6, <1>7, TellsGuest
<1>9. /\ Served(w, a) /\ a.room = r /\ Calm(a, IF Reached(w) THEN d ELSE c)
      /\ a.view["host"] = w.view["host"] /\ (a.ok <=> w.side["host"].state = "open")
  BY <1>3, <1>8 DEF Told
<1>10. CASE ~a.ok
  <2>1. u = a
    BY <1>1, <1>7, <1>10 DEF Then
  <2>2. ~Reached(w)
    BY <1>9, <1>10 DEF Reached
  <2> QED BY <1>9, <2>1, <2>2 DEF Welcomed
<1>11. CASE a.ok
  <2>1. PICK x : x = IF Reached(w) THEN d ELSE c
    OBVIOUS
  <2>2. Calm(a, x) /\ Shaped(a)
    BY <1>9, <2>1 DEF Calm
  <2>3. PICK f : f = History(r)
    OBVIOUS
  <2>4. f.type = "history" /\ f.chat = r.chat /\ f \in Event
    BY <2>3, EventsAre DEF History, RoomOK
  <2>5. u = Emit(a, r, Step({"guest"}, f))
    BY <1>1, <1>7, <1>9, <1>11, <2>2, <2>3, ThenIs
  <2>6. PICK y : y = PictureAfter(x, f)
    OBVIOUS
  <2>7. y = IF x.at = "out" THEN x ELSE [x EXCEPT !.chat = r.chat]
    BY <2>4, <2>6 DEF PictureAfter
  <2>8. x \in Pictures /\ Rises(x.chat) /\ (Live(a) => UpTo(x.chat, r.said))
    BY <1>9, <2>2, RoomStays DEF Calm
  <2>9. y.chat \in {x.chat, r.chat}
    BY <2>7, <2>8 DEF Pictures
  <2>10. Rises(y.chat) /\ (Live(a) => UpTo(y.chat, r.said))
    BY <2>8, <2>9 DEF RoomOK
  <2>11. Shows(a.view["host"].match, r.match) /\ Same(r.match, r.match) /\ Advances(a.room, r)
    BY <1>9, AdvancesIs DEF Same
  <2>12. Told(a, x, r, f, u)
    BY <1>9, <1>11, <2>2, <2>4, <2>5, <2>6, <2>10, <2>11, TellsGuest
  <2>13. Reached(a) <=> Reached(w)
    BY <1>9 DEF Served, Aside, Reached, Linked
  <2>14. Served(w, u)
    BY <1>9, <2>12, ServedTwice DEF Told
  <2>15. Calm(u, IF Reached(w) THEN y ELSE x)
    BY <2>6, <2>12, <2>13 DEF Told
  <2>16. Reached(w) => y.at = "in" /\ y.match = None /\ y.chat = r.chat
    <3>1. Reached(w) => x = d
      BY <2>1
    <3> QED BY <1>5, <2>7, <2>8, <3>1 DEF Pictures
  <2>17. u.ok <=> w.side["host"].state = "open"
    BY <1>9, <2>12 DEF Told, Served, Aside
  <2>18. u.room = r /\ u.view["host"] = w.view["host"]
    BY <1>9, <2>12 DEF Told
  <2>19. \E z : Calm(u, z) /\ (Reached(w) => z.at = "in" /\ z.match = None /\ z.chat = r.chat)
    BY <2>15, <2>16
  <2> QED BY <2>14, <2>17, <2>18, <2>19 DEF Welcomed
<1> QED BY <1>10, <1>11

\* The guest comes or goes.
LEMMA PresentOK ==
    ASSUME NEW q, RoomOK(q), q.match # None, NEW on \in BOOLEAN,
           NEW r, r = [q EXCEPT !.match.guestOn = on]
    PROVE  Goes(q, r, r.match) /\ Same(q.match, r.match) /\ r.match # None
<1>1. PICK m : m = [q.match EXCEPT !.guestOn = on]
  OBVIOUS
<1>2. r = [q EXCEPT !.match = m]
  BY <1>1
<1>3. /\ q.match \in Match /\ SoundMatch(q.match)
      /\ ~q.match.over => q.match.moves < MaxMoves
      /\ q.match.round \in Nat \ {0} /\ q.match.moves \in Nat
  BY RoomMatchIs
<1>4. m = [round |-> q.match.round, moves |-> q.match.moves, mover |-> q.match.mover,
           over |-> q.match.over, votes |-> q.match.votes, guestOn |-> on]
  BY <1>1, <1>3, MatchWith
<1>5. m \in Match
  BY <1>3, <1>4, MatchFormed
<1>6. SoundMatch(m) /\ (~m.over => m.moves < MaxMoves)
  BY <1>3, <1>4 DEF SoundMatch
<1>7. Behind(q.match, m) /\ Same(q.match, m)
  BY <1>3, <1>4 DEF Behind, Same
<1>8. Goes(q, r, m)
  BY <1>2, <1>5, <1>6, <1>7, RoomMatchOK
<1> QED BY <1>5, <1>7, <1>8, DirectAssumption DEF Goes

\* A page that shows the match of q shows that of r, when they are the same.
LEMMA ShowsOn ==
    ASSUME NEW m \in Match \cup {None}, NEW q \in Match, NEW r \in Match, Shows(m, q), Same(q, r)
    PROVE  Shows(m, r)
  BY DirectAssumption DEF Shows, Same

\* A guest who comes back is served.
LEMMA ReconnectDone ==
    ASSUME NEW w, NEW c, Calm(w, c), w.ok, w.room.match # None, NEW p \in Players,
           NEW k \in Command, k.type = "reconnect"
    PROVE  Done(w, c, p, k, Obey(w, p, k))
<1>0. Obey(w, p, k) = ReconnectGuest(w)
  BY DEF Obey
<1>1. PICK u : u = Obey(w, p, k)
  OBVIOUS
<1>2. PICK yes : yes = TRUE
  OBVIOUS
<1>3. yes \in BOOLEAN
  BY <1>2
<1>4. PICK r : r = [w.room EXCEPT !.match.guestOn = yes]
  OBVIOUS
<1>5. PICK b : b = Then(Emit(w, r, Step({"guest"}, Plain("joined"))), Step({"guest"}, History(r)))
  OBVIOUS
<1>6. PICK a : a = Then(b, Step({"guest"}, WithMatch(r.match)))
  OBVIOUS
<1>7. u = IF w.room.match.guestOn THEN a ELSE Then(a, Step({"host"}, WithMatch(r.match)))
  BY <1>0, <1>1, <1>2, <1>4, <1>5, <1>6 DEF ReconnectGuest
<1>8. Goes(w.room, r, r.match) /\ Same(w.room.match, r.match) /\ r.match # None
  <2>1. RoomOK(w.room)
    BY RoomStays
  <2> QED BY <1>3, <1>4, <2>1, PresentOK
<1>9. /\ RoomOK(r) /\ Advances(w.room, r) /\ r.said = w.room.said /\ r.match \in Match
      /\ Same(w.room.match, r.match) /\ r.match # None
  BY <1>8 DEF Goes
<1>10. Shows(w.view["host"].match, r.match)
  BY <1>9, RoomStays, RoomMatchIs, ShowsOn
<1>11. Welcomed(w, c, r, b)
  BY <1>5, <1>9, <1>10, Welcomes
<1>12. PICK d : Calm(b, d) /\ (Reached(w) => d.at = "in" /\ d.match = None /\ d.chat = r.chat)
  BY <1>11 DEF Welcomed
<1>13. /\ Served(w, b) /\ b.room = r /\ b.view["host"] = w.view["host"]
       /\ (b.ok <=> w.side["host"].state = "open")
  BY <1>11 DEF Welcomed
<1>14. PICK e : e = WithMatch(r.match)
  OBVIOUS
<1>15. e.type = "match" /\ e.match = r.match /\ e \in Event
  BY <1>9, <1>14, EventsAre DEF WithMatch
<1>16. PICK x : Calm(a, x) /\ (Reached(w) => Final(x, r)) /\ Served(w, a) /\ a.room = r
                /\ a.view["host"] = w.view["host"]
  <2>1. CASE ~b.ok
    <3>1. a = b
      BY <1>6, <2>1 DEF Then
    <3>2. ~Reached(w)
      BY <1>13, <2>1 DEF Reached
    <3> QED BY <1>12, <1>13, <3>1, <3>2
  <2>2. CASE b.ok
    <3>1. a = Emit(b, r, Step({"guest"}, e))
      BY <1>6, <1>12, <1>13, <1>14, <2>2, ThenIs DEF Calm
    <3>2. PICK y : y = PictureAfter(d, e)
      OBVIOUS
    <3>3. y = IF d.at = "out" THEN d ELSE [d EXCEPT !.match = r.match]
      BY <1>15, <3>2 DEF PictureAfter
    <3>4. d \in Pictures /\ Rises(d.chat) /\ (Live(b) => UpTo(d.chat, r.said))
      BY <1>12, <1>13, RoomStays DEF Calm
    <3>5. y.chat = d.chat
      BY <3>3, <3>4 DEF Pictures
    <3>6. Shows(b.view["host"].match, r.match) /\ Same(r.match, r.match) /\ Advances(b.room, r)
      BY <1>9, <1>10, <1>13, AdvancesIs DEF Same
    <3>7. Passed(e.match, r.match)
      BY <1>9, <1>15, PassedIs
    <3>8. Told(b, d, r, e, a)
      BY <1>9, <1>12, <1>13, <1>15, <2>2, <3>1, <3>2, <3>4, <3>5, <3>6, <3>7, TellsGuest
    <3>9. Reached(b) <=> Reached(w)
      BY <1>13 DEF Served, Aside, Reached, Linked
    <3>10. Calm(a, IF Reached(w) THEN y ELSE d) /\ a.room = r /\ a.view["host"] = w.view["host"]
      BY <1>13, <3>2, <3>8, <3>9 DEF Told
    <3>11. Served(w, a)
      BY <1>13, <3>8, ServedTwice DEF Told
    <3>12. Reached(w) => Final(y, r)
      <4> SUFFICES ASSUME Reached(w) PROVE Final(y, r)
        OBVIOUS
      <4>1. d.at = "in" /\ d.chat = r.chat
        BY <1>12
      <4>2. y.at = "in" /\ y.match = r.match /\ y.chat = r.chat
        BY <3>3, <3>4, <3>5, <4>1 DEF Pictures
      <4>3. Suffix(r.chat, r.chat)
        BY <1>9, RoomIs, EndsWithItself
      <4> QED BY <4>2, <4>3 DEF Final
    <3> QED BY <3>10, <3>11, <3>12
  <2> QED BY <2>1, <2>2
<1>17. PICK y : Calm(u, y) /\ (Reached(w) => Final(y, u.room)) /\ Served(w, u)
                /\ (w.view["host"].session => u.view["host"].session)
  <2>1. CASE u = a
    BY <1>16, <2>1
  <2>2. CASE u # a
    <3>1. a.ok /\ u = Emit(a, r, Step({"host"}, e))
      <4>1. u = Then(a, Step({"host"}, e))
        BY <1>7, <1>14, <2>2
      <4>2. a.ok
        BY <2>2, <4>1 DEF Then
      <4> QED BY <1>16, <4>1, <4>2, ThenIs DEF Calm
    <3>2. Advances(a.room, r)
      BY <1>9, <1>16, AdvancesIs
    <3>3. HostTold(a, x, r, u)
      BY <1>9, <1>14, <1>16, <3>1, <3>2, TellsHost
    <3>4. Served(w, u)
      BY <1>16, <3>3, ServedTwice DEF HostTold
    <3> QED BY <1>16, <3>3, <3>4 DEF HostTold
  <2> QED BY <2>1, <2>2
<1>18. Obeyed(w, c, u, y)
  BY <1>17 DEF Obeyed
<1> QED BY <1>1, <1>17, <1>18 DEF Done, Answered

\* Every command.
LEMMA ObeyDone ==
    ASSUME NEW w, NEW c, Calm(w, c), w.ok, w.room.match # None, NEW p \in Players,
           p = "host" => w.view["host"].session,
           NEW k \in Command
    PROVE  Done(w, c, p, k, Obey(w, p, k))
  BY CommandIs, MatchActionDone, ResignDone, VoteDone, ChatDone, ReconnectDone

\* The guest is shown as away.
Away(w, c, u) ==
    /\ u = w \/ (HostTold(w, c, u.room, u) /\ w.room.guest)
    /\ u.room.guest = w.room.guest

\* The host learns that the guest is away.
LEMMA DisconnectIs ==
    ASSUME NEW w, NEW c, Calm(w, c), w.ok
    PROVE  Away(w, c, DisconnectGuest(w))
<1>1. PICK u : u = DisconnectGuest(w)
  OBVIOUS
<1>2. PICK no : no = FALSE
  OBVIOUS
<1>3. no \in BOOLEAN
  BY <1>2
<1>4. PICK r : r = [w.room EXCEPT !.match.guestOn = no]
  OBVIOUS
<1>6. CASE ~w.room.guest \/ ~w.room.match.guestOn
  BY <1>6 DEF DisconnectGuest, Away
<1>7. CASE ~(~w.room.guest \/ ~w.room.match.guestOn)
  <2>1. RoomOK(w.room) /\ w.room.match # None
    BY <1>7, RoomStays DEF RoomOK
  <2>2. Goes(w.room, r, r.match) /\ r.match # None
    BY <1>3, <1>4, <2>1, PresentOK
  <2>3. RoomOK(r) /\ Advances(w.room, r) /\ r.guest = w.room.guest
    BY <2>2 DEF Goes
  <2>4. HostTold(w, c, r, u)
    <3>1. r = [w.room EXCEPT !.match.guestOn = FALSE]
      BY <1>2, <1>4
    <3>2. u = Emit(w, r, Step({"host"}, WithMatch(r.match)))
      BY <1>1, <1>7, <3>1 DEF DisconnectGuest
    <3> QED BY <2>2, <2>3, <3>2, TellsHost
  <2>5. u.room = r
    BY <2>4 DEF HostTold
  <2> QED BY <1>1, <1>7, <2>3, <2>4, <2>5 DEF Away
<1> QED BY <1>6, <1>7

\* The guest is in the room.
Seated(w, u) ==
    /\ \E e : /\ Served(w, e) /\ e.room.guest
              /\ \E d : Calm(e, d) /\ (Reached(w) => Final(d, e.room))
              /\ w.view["host"].session => e.view["host"].session
              /\ u = e \/ u = [e EXCEPT !.control = "registering"]

\* r is the room q with a guest and the match m.
Seats(q, r, m) ==
    /\ RoomOK(r) /\ Advances(q, r) /\ r.match = m /\ m \in Match
    /\ r.match # None /\ r.guest /\ q.match = None

\* A room that the guest has come into, with its first match.
LEMMA GuestRoomOK ==
    ASSUME NEW q, RoomOK(q), ~q.guest, NEW m, m = NewMatch(1, q.starter), NEW yes, yes = TRUE,
           NEW r, r = [q EXCEPT !.guest = yes, !.match = m]
    PROVE  Seats(q, r, m)
<1>1. /\ q \in Room /\ q.match = None /\ q.starter \in Players /\ q.said \in Nat
      /\ q.chat \in Seq(Message)
  BY RoomIs DEF RoomOK
<1>2. m \in Match /\ m.moves = 0 /\ SoundMatch(m) /\ m # None
  <2>1. 1 \in Nat \ {0}
    OBVIOUS
  <2>2. m \in Match /\ m.moves = 0 /\ SoundMatch(m)
    BY <1>1, <2>1, NewMatchIs
  <2> QED BY <2>2, DirectAssumption
<1>3. PICK a : a = [q EXCEPT !.guest = yes]
  OBVIOUS
<1>4. a = [guest |-> yes, match |-> q.match, chat |-> q.chat, said |-> q.said,
           starter |-> q.starter]
  BY <1>1, <1>3, RoomWith
<1>5. r = [a EXCEPT !.match = m]
  BY <1>3
<1>6. r = [guest |-> yes, match |-> m, chat |-> q.chat, said |-> q.said,
           starter |-> q.starter]
  BY ONLY <1>4, <1>5
<1>7. /\ r.guest = yes /\ r.match = m /\ r.chat = q.chat /\ r.said = q.said
      /\ r.starter = q.starter
  BY ONLY <1>6
<1>8. r \in Room
  <2>1. yes \in BOOLEAN
    OBVIOUS
  <2> QED BY <1>1, <1>2, <1>6, <2>1 DEF Room
<1>9. r.guest
  BY <1>7
<1>10. 0 < MaxMoves
  BY DirectAssumption
<1>11. RoomOK(r)
  BY <1>1, <1>2, <1>7, <1>8, <1>9, <1>10 DEF RoomOK
<1>12. Advances(q, r)
  BY <1>1, <1>7, <1>9 DEF Advances, Passed
<1> QED BY <1>1, <1>2, <1>7, <1>9, <1>11, <1>12 DEF Seats

\* The guest is let in.
LEMMA Accepts ==
    ASSUME NEW w, NEW c, Calm(w, c), w.ok, ~w.room.guest, w.control = "none",
           w.view["host"].session
    PROVE  Seated(w, AcceptGuest(w))
<1>1. PICK u : u = AcceptGuest(w)
  OBVIOUS
<1>2. PICK m : m = NewMatch(1, w.room.starter)
  OBVIOUS
<1>3. PICK yes : yes = TRUE
  OBVIOUS
<1>4. PICK r : r = [w.room EXCEPT !.guest = yes, !.match = m]
  OBVIOUS
<1>5. PICK b : b = Then(Emit(w, r, Step({"guest"}, Plain("joined"))), Step({"guest"}, History(r)))
  OBVIOUS
<1>6. PICK a : a = Then(b, Step(Players, Plain("room")))
  OBVIOUS
<1>7. PICK e : e = Then(a, Step(Players, WithMatch(m)))
  OBVIOUS
<1>8. u = IF e.ok THEN [e EXCEPT !.control = "registering"] ELSE e
  BY <1>1, <1>2, <1>3, <1>4, <1>5, <1>6, <1>7 DEF AcceptGuest
<1>9. /\ RoomOK(r) /\ Advances(w.room, r) /\ r.match = m /\ m \in Match
      /\ r.match # None /\ r.guest /\ w.room.match = None
  <2>1. RoomOK(w.room)
    BY RoomStays
  <2>2. Seats(w.room, r, m)
    BY <1>2, <1>3, <1>4, <2>1, GuestRoomOK
  <2> QED BY <2>2 DEF Seats
<1>10. Shows(w.view["host"].match, r.match)
  <2>1. Shows(w.view["host"].match, w.room.match)
    BY RoomStays
  <2> QED BY <1>9, <2>1 DEF Shows
<1>11. Welcomed(w, c, r, b)
  BY <1>5, <1>9, <1>10, Welcomes
<1>12. PICK d : Calm(b, d) /\ (Reached(w) => d.at = "in" /\ d.match = None /\ d.chat = r.chat)
  BY <1>11 DEF Welcomed
<1>13. /\ Served(w, b) /\ b.room = r /\ b.view["host"] = w.view["host"]
       /\ (b.ok <=> w.side["host"].state = "open")
  BY <1>11 DEF Welcomed
<1>14. ASSUME ~b.ok PROVE Seated(w, u)
  <2>1. e = b /\ u = b
    BY <1>6, <1>7, <1>8, <1>14 DEF Then
  <2>2. ~Reached(w)
    BY <1>13, <1>14 DEF Reached
  <2> QED BY <1>9, <1>12, <1>13, <2>1, <2>2 DEF Seated
<1>15. ASSUME b.ok PROVE Seated(w, u)
  <2>1. PICK f : f = Plain("room")
    OBVIOUS
  <2>2. f.type = "room" /\ f \in Event
    BY <2>1, EventsAre DEF Plain
  <2>3. PICK s : s = Step(Players, f)
    OBVIOUS
  <2>4. s.to = Players /\ s.event = f /\ "host" \in s.to /\ "guest" \in s.to
    BY <2>3 DEF Step, Players
  <2>5. a = Emit(b, r, s)
    BY <1>6, <1>12, <1>13, <1>15, <2>1, <2>3, ThenIs DEF Calm
  <2>6. PICK y : y = PictureAfter(d, f)
    OBVIOUS
  <2>7. y = IF d.at = "out" THEN d ELSE [d EXCEPT !.at = "in"]
    BY <2>2, <2>6 DEF PictureAfter
  <2>8. d \in Pictures /\ Rises(d.chat) /\ (Live(b) => UpTo(d.chat, r.said))
    BY <1>12, <1>13, RoomStays DEF Calm
  <2>9. y.chat = d.chat /\ (d.at = "in" => y.at = "in")
    BY <2>7, <2>8 DEF Pictures
  <2>10. Fits(b.view["host"], f, r) /\ b.view["host"].session
    BY <1>10, <1>13, <2>2 DEF Fits
  <2>11. Advances(b.room, r)
    BY <1>9, <1>13, AdvancesIs
  <2>12. Emitted(b, d, r, s, a)
    BY <1>9, <1>12, <1>13, <1>15, <2>2, <2>4, <2>5, <2>6, <2>8, <2>9, <2>10, <2>11, EmitKeeps
  <2>13. Served(b, a)
    BY <1>9, <1>12, <2>2, <2>4, <2>11, <2>12, EmittedServes
  <2>14. /\ Calm(a, IF Reaches(b, s) THEN y ELSE d) /\ a.room = r
         /\ (a.ok <=> b.side["host"].state = "open")
         /\ HostTurns(b.view["host"], f, r, a.view["host"])
    BY <2>4, <2>6, <2>12 DEF Emitted
  <2>15. a.view["host"].session
    BY <2>2, <2>10, <2>14 DEF HostTurns
  <2>16. Served(w, a)
    BY <1>13, <2>13, <2>15, ServedTwice
  <2>17. a.ok
    BY <1>13, <1>15, <2>14 DEF Served, Aside
  <2>18. Reached(a) <=> Reached(w)
    BY <2>16 DEF Served, Aside, Reached, Linked
  <2>19. PICK x : x = IF Reaches(b, s) THEN y ELSE d
    OBVIOUS
  <2>20. Calm(a, x)
    BY <2>14, <2>19
  <2>21. Reached(w) => x.at = "in" /\ x.chat = r.chat
    BY <1>12, <2>9, <2>19
  <2>22. [r EXCEPT !.match = m] = r
    BY <1>9, RoomFormed DEF RoomOK
  <2>23. SoundMatch(m) /\ (~m.over => m.moves < MaxMoves) /\ Behind(m, m)
    <3>1. m.round \in Nat /\ m.moves \in Nat
      BY <1>9, MatchFormed, DirectAssumption
    <3> QED BY <1>9, <3>1, RoomMatchIs DEF Behind
  <2>24. e = Emit(a, r, Step(Players, WithMatch(m)))
    BY <1>7, <2>14, <2>17, <2>20, ThenIs DEF Calm
  <2>25. r = [a.room EXCEPT !.match = m] /\ a.room.match # None /\ Behind(a.room.match, m)
    BY <1>9, <2>14, <2>22, <2>23
  <2>26. Follows(a, x, e) /\ HostTurns(a.view["host"], WithMatch(m), r, e.view["host"])
    BY ONLY <1>9, <2>17, <2>20, <2>23, <2>24, <2>25, ShowsMatch
  <2>27. PICK z : Obeyed(a, x, e, z) /\ Completes(a, x, e, z)
    BY <2>26 DEF Follows
  <2>28. Served(w, e)
    BY <2>15, <2>16, <2>27, ServedTwice DEF Obeyed
  <2>29. e.view["host"].session
    BY <2>15, <2>26 DEF HostTurns, WithMatch
  <2>30. Calm(e, z) /\ (Reached(w) => Final(z, e.room))
    <3>1. Suffix(r.chat, r.chat)
      BY <1>9, RoomIs, EndsWithItself
    <3> QED BY <2>14, <2>18, <2>21, <2>27, <3>1 DEF Obeyed, Completes
  <2>31. e.room.guest
    BY <1>9, <2>14, <2>28, <2>27 DEF Served, Advances, Obeyed
  <2> QED BY <1>8, <2>28, <2>29, <2>30, <2>31 DEF Seated
<1> QED BY <1>1, <1>14, <1>15

-----------------------------------------------------------------------------
\* One field at a time.

\* u differs from w in the fields fs at most.
But(u, w, fs) ==
    /\ Shaped(u) /\ u.ok = w.ok
    /\ "room" \notin fs => u.room = w.room
    /\ "record" \notin fs => u.record = w.record
    /\ "side" \notin fs => u.side = w.side
    /\ "wire" \notin fs => u.wire = w.wire
    /\ "view" \notin fs => u.view = w.view
    /\ "attempt" \notin fs => u.attempt = w.attempt
    /\ "online" \notin fs => u.online = w.online
    /\ "control" \notin fs => u.control = w.control
    /\ "saved" \notin fs => u.saved = w.saved
    /\ "finalized" \notin fs => u.finalized = w.finalized
    /\ "links" \notin fs => u.links = w.links

\* Only the entry of p differs, and is x.
Sided(u, w, p, x) ==
    But(u, w, {"side"}) /\ u.side[p] = x /\ u.side[Other(p)] = w.side[Other(p)]
Wired(u, w, p, x) ==
    But(u, w, {"wire"}) /\ u.wire[p] = x /\ u.wire[Other(p)] = w.wire[Other(p)]
Viewed(u, w, p, x) ==
    But(u, w, {"view"}) /\ u.view[p] = x /\ u.view[Other(p)] = w.view[Other(p)]
Tried(u, w, p, x) ==
    But(u, w, {"attempt"}) /\ u.attempt[p] = x /\ u.attempt[Other(p)] = w.attempt[Other(p)]

\* There are two players, each the other's other.
LEMMA OthersAre == Other("host") = "guest" /\ Other("guest") = "host"
                   /\ \A p \in Players : Other(p) \in Players /\ Other(p) # p /\ Players = {p, Other(p)}
  BY DEF Other, Players

\* A table with another entry of p.
LEMMA TableIs ==
    ASSUME NEW t, t = [q \in Players |-> t[q]], NEW p \in Players, NEW x, NEW u,
           u = [t EXCEPT ![p] = x]
    PROVE  /\ u = [q \in Players |-> u[q]] /\ u[p] = x /\ u[Other(p)] = t[Other(p)]
  BY OthersAre

\* One player's end of the link is replaced.
LEMMA SideSet ==
    ASSUME NEW w, Shaped(w), NEW p \in Players, NEW x, NEW u, u = [w EXCEPT !.side[p] = x]
    PROVE  Sided(u, w, p, x)
<1>1. PICK t : t = [w.side EXCEPT ![p] = x]
  OBVIOUS
<1>2. u = [w EXCEPT !.side = t]
  BY <1>1
<1>3. t = [q \in Players |-> t[q]] /\ t[p] = x /\ t[Other(p)] = w.side[Other(p)]
  BY <1>1, TableIs DEF Shaped
<1> QED BY <1>2, <1>3 DEF Shaped, But, Sided

\* What is under way to one player is.
LEMMA WireSet ==
    ASSUME NEW w, Shaped(w), NEW p \in Players, NEW x, NEW u, u = [w EXCEPT !.wire[p] = x]
    PROVE  Wired(u, w, p, x)
<1>1. PICK t : t = [w.wire EXCEPT ![p] = x]
  OBVIOUS
<1>2. u = [w EXCEPT !.wire = t]
  BY <1>1
<1>3. t = [q \in Players |-> t[q]] /\ t[p] = x /\ t[Other(p)] = w.wire[Other(p)]
  BY <1>1, TableIs DEF Shaped
<1> QED BY <1>2, <1>3 DEF Shaped, But, Wired

\* What one player's page shows is.
LEMMA ViewSet ==
    ASSUME NEW w, Shaped(w), NEW p \in Players, NEW x, NEW u, u = [w EXCEPT !.view[p] = x]
    PROVE  Viewed(u, w, p, x)
<1>1. PICK t : t = [w.view EXCEPT ![p] = x]
  OBVIOUS
<1>2. u = [w EXCEPT !.view = t]
  BY <1>1
<1>3. t = [q \in Players |-> t[q]] /\ t[p] = x /\ t[Other(p)] = w.view[Other(p)]
  BY <1>1, TableIs DEF Shaped
<1> QED BY <1>2, <1>3 DEF Shaped, But, Viewed

\* One player's attempt is.
LEMMA AttemptSet ==
    ASSUME NEW w, Shaped(w), NEW p \in Players, NEW x, NEW u, u = [w EXCEPT !.attempt[p] = x]
    PROVE  Tried(u, w, p, x)
<1>1. PICK t : t = [w.attempt EXCEPT ![p] = x]
  OBVIOUS
<1>2. u = [w EXCEPT !.attempt = t]
  BY <1>1
<1>3. t = [q \in Players |-> t[q]] /\ t[p] = x /\ t[Other(p)] = w.attempt[Other(p)]
  BY <1>1, TableIs DEF Shaped
<1> QED BY <1>2, <1>3 DEF Shaped, But, Tried

\* A field of the state is.
LEMMA FieldSet ==
    ASSUME NEW w, Shaped(w), NEW x, NEW u
    PROVE  /\ u = [w EXCEPT !.room = x] => But(u, w, {"room"}) /\ u.room = x
           /\ u = [w EXCEPT !.online = x] => But(u, w, {"online"}) /\ u.online = x
           /\ u = [w EXCEPT !.control = x] => But(u, w, {"control"}) /\ u.control = x
           /\ u = [w EXCEPT !.saved = x] => But(u, w, {"saved"}) /\ u.saved = x
           /\ u = [w EXCEPT !.finalized = x] => But(u, w, {"finalized"}) /\ u.finalized = x
           /\ u = [w EXCEPT !.links = x] => But(u, w, {"links"}) /\ u.links = x
<1>1. u = [w EXCEPT !.room = x] => But(u, w, {"room"}) /\ u.room = x
  BY DEF Shaped, But
<1>2. u = [w EXCEPT !.online = x] => But(u, w, {"online"}) /\ u.online = x
  BY DEF Shaped, But
<1>3. u = [w EXCEPT !.control = x] => But(u, w, {"control"}) /\ u.control = x
  BY DEF Shaped, But
<1>4. u = [w EXCEPT !.saved = x] => But(u, w, {"saved"}) /\ u.saved = x
  BY DEF Shaped, But
<1>5. u = [w EXCEPT !.finalized = x] => But(u, w, {"finalized"}) /\ u.finalized = x
  BY DEF Shaped, But
<1>6. u = [w EXCEPT !.links = x] => But(u, w, {"links"}) /\ u.links = x
  BY DEF Shaped, But
<1> QED BY <1>1, <1>2, <1>3, <1>4, <1>5, <1>6

\* Fields that are set one after the other.
LEMMA ButTwice ==
    ASSUME NEW w, NEW a, NEW u, NEW fs, NEW gs, But(a, w, fs), But(u, a, gs)
    PROVE  But(u, w, fs \cup gs)
  BY DEF But

\* Nothing of the other player's, and nothing of the room, changes.
Alone(w, p, u) ==
    LET q == Other(p)
    IN  /\ But(u, w, {"side", "wire", "view", "attempt", "online"})
        /\ u.side[q] = w.side[q] /\ u.wire[q] = w.wire[q] /\ u.view[q] = w.view[q]
        /\ u.attempt[q] = w.attempt[q]
\* A player's peer is gone, or a new one is made.
Leaves(w, p, u, state) ==
    /\ Alone(w, p, u)
    /\ u.side[p] = [state |-> state, link |-> 0] /\ u.wire[p] = <<>>

\* Two steps of one player touch nothing of the other's.
LEMMA AloneTwice ==
    ASSUME NEW w, NEW a, NEW u, NEW p, Alone(w, p, a), Alone(a, p, u)
    PROVE  Alone(w, p, u)
  BY DEF Alone, But

\* A player makes another peer.
LEMMA FreshIs ==
    ASSUME NEW w, Shaped(w), NEW p \in Players, NEW u, u = Fresh(w, p)
    PROVE  Leaves(w, p, u, "new") /\ But(u, w, {"side", "wire"})
<1>1. PICK a : a = [w EXCEPT !.side[p] = [state |-> "new", link |-> 0]]
  OBVIOUS
<1>2. u = [a EXCEPT !.wire[p] = <<>>]
  BY <1>1 DEF Fresh
<1>3. /\ But(a, w, {"side"}) /\ a.side[p] = [state |-> "new", link |-> 0]
      /\ a.side[Other(p)] = w.side[Other(p)]
  <2>1. Sided(a, w, p, [state |-> "new", link |-> 0])
    BY <1>1, SideSet
  <2> QED BY <1>1, <2>1 DEF Sided
<1>4. /\ But(u, a, {"wire"}) /\ u.wire[p] = <<>> /\ u.wire[Other(p)] = a.wire[Other(p)]
  <2>1. Shaped(a)
    BY <1>2, <1>3 DEF But
  <2>2. Wired(u, a, p, <<>>)
    BY <1>2, <1>3, <2>1, WireSet
  <2> QED BY <2>2 DEF Wired
<1> QED BY <1>3, <1>4 DEF Leaves, Alone, But

\* A player makes no more peers.
LEMMA DeadIs ==
    ASSUME NEW w, Shaped(w), NEW p \in Players, NEW u, u = Dead(w, p)
    PROVE  /\ Leaves(w, p, u, "dead") /\ u.view[p] = Freed(w.view[p], FALSE)
           /\ u.attempt[p] = "none" /\ u.online = w.online
<1>1. PICK a : a = [w EXCEPT !.side[p] = [state |-> "dead", link |-> 0]]
  OBVIOUS
<1>2. PICK b : b = [a EXCEPT !.wire[p] = <<>>]
  OBVIOUS
<1>3. PICK d : d = [b EXCEPT !.attempt[p] = "none"]
  OBVIOUS
<1>4. /\ But(a, w, {"side"}) /\ a.side[p] = [state |-> "dead", link |-> 0]
      /\ a.side[Other(p)] = w.side[Other(p)]
  <2>1. Sided(a, w, p, [state |-> "dead", link |-> 0])
    BY <1>1, SideSet
  <2> QED BY <1>1, <2>1 DEF Sided
<1>5. /\ But(b, a, {"wire"}) /\ b.wire[p] = <<>> /\ b.wire[Other(p)] = a.wire[Other(p)]
  <2>1. Shaped(a)
    BY <1>2, <1>4 DEF But
  <2>2. Wired(b, a, p, <<>>)
    BY <1>2, <1>4, <2>1, WireSet
  <2> QED BY <2>2 DEF Wired
<1>6. /\ But(d, b, {"attempt"}) /\ d.attempt[p] = "none"
      /\ d.attempt[Other(p)] = b.attempt[Other(p)]
  <2>1. Shaped(b)
    BY <1>3, <1>5 DEF But
  <2>2. Tried(d, b, p, "none")
    BY <1>3, <1>5, <2>1, AttemptSet
  <2> QED BY <2>2 DEF Tried
<1>7. d.view[p] = w.view[p]
  BY <1>4, <1>5, <1>6 DEF But
<1>8. PICK v : v = Freed(d.view[p], FALSE)
  OBVIOUS
<1>9. u = [d EXCEPT !.view[p] = v]
  <2>1. u = [d EXCEPT !.view[p].moving = FALSE]
    BY <1>1, <1>2, <1>3 DEF Dead
  <2>2. [d EXCEPT !.view[p].moving = FALSE] = [d EXCEPT !.view[p] = Freed(d.view[p], FALSE)]
    BY DEF Freed
  <2> QED BY <1>8, <2>1, <2>2
<1>10. But(u, d, {"view"}) /\ u.view[p] = v /\ u.view[Other(p)] = d.view[Other(p)]
  <2>1. Shaped(d)
    BY <1>6, <1>9 DEF But
  <2>2. Viewed(u, d, p, v)
    BY <1>6, <1>9, <2>1, ViewSet
  <2> QED BY <2>2 DEF Viewed
<1> QED BY <1>4, <1>5, <1>6, <1>7, <1>8, <1>10 DEF Leaves, Alone, But

\* The guest's page reads its ticket.
LEMMA GuestReturnsIs ==
    ASSUME NEW w, Shaped(w), NEW u, u = GuestReturns(w), NEW yes, yes = TRUE
    PROVE  /\ Leaves(w, "guest", u, "new") /\ u.view["guest"] = [NoView EXCEPT !.returning = yes]
           /\ u.attempt["guest"] = "running" /\ u.online = w.online
<1>0. "guest" \in Players
  BY DEF Players
<1>1. PICK a : a = Fresh(w, "guest")
  OBVIOUS
<1>2. Leaves(w, "guest", a, "new") /\ But(a, w, {"side", "wire"})
  BY <1>0, <1>1, FreshIs
<1>3. PICK v : v = [NoView EXCEPT !.returning = yes]
  OBVIOUS
<1>4. PICK b : b = [a EXCEPT !.view["guest"] = v]
  OBVIOUS
<1>5. /\ But(b, a, {"view"}) /\ b.view["guest"] = v
      /\ b.view[Other("guest")] = a.view[Other("guest")]
  <2>1. Shaped(a)
    BY <1>0, <1>2, <1>4 DEF But
  <2>2. Viewed(b, a, "guest", v)
    BY <1>0, <1>2, <1>4, <2>1, ViewSet
  <2> QED BY <2>2 DEF Viewed
<1>6. u = [b EXCEPT !.attempt["guest"] = "running"]
  <2>1. v = [NoView EXCEPT !.returning = TRUE]
    BY <1>3
  <2> QED BY <1>1, <1>4, <2>1 DEF GuestReturns
<1>7. /\ But(u, b, {"attempt"}) /\ u.attempt["guest"] = "running"
      /\ u.attempt[Other("guest")] = b.attempt[Other("guest")]
  <2>1. Shaped(b)
    BY <1>0, <1>5, <1>6 DEF But
  <2>2. Tried(u, b, "guest", "running")
    BY <1>0, <1>5, <1>6, <2>1, AttemptSet
  <2> QED BY <2>2 DEF Tried
<1> QED BY <1>2, <1>3, <1>5, <1>7 DEF Leaves, Alone, But

\* The host makes another peer, and waits for the guest's.
LEMMA ReplacePeerIs ==
    ASSUME NEW w, Shaped(w), NEW u, u = ReplacePeer(w)
    PROVE  Leaves(w, "host", u, "new") /\ u.view = w.view /\ u.online = w.online
           /\ u.attempt["host"] = "running"
<1>0. "host" \in Players
  BY DEF Players
<1>1. PICK a : a = Fresh(w, "host")
  OBVIOUS
<1>2. Leaves(w, "host", a, "new") /\ But(a, w, {"side", "wire"})
  BY <1>0, <1>1, FreshIs
<1>3. u = [a EXCEPT !.attempt["host"] = "running"]
  BY <1>1 DEF ReplacePeer
<1>4. /\ But(u, a, {"attempt"}) /\ u.attempt["host"] = "running"
      /\ u.attempt[Other("host")] = a.attempt[Other("host")]
  <2>1. Shaped(a)
    BY <1>0, <1>2, <1>3 DEF But
  <2>2. Tried(u, a, "host", "running")
    BY <1>0, <1>2, <1>3, <2>1, AttemptSet
  <2> QED BY <2>2 DEF Tried
<1> QED BY <1>2, <1>4 DEF Leaves, Alone, But

-----------------------------------------------------------------------------
\* The invariant of a direct match.

States == {"new", "opening", "open", "closing", "lost", "dead"}
EndOK(w, p) ==
    /\ w.side[p] \in [state : States, link : 0..MaxLinks] /\ w.side[p].link <= w.links
    /\ w.side[p].state \in {"new", "lost", "dead"} => w.side[p].link = 0 /\ w.wire[p] = <<>>
    /\ w.side[p].state \in {"open", "closing"} => w.side[p].link # 0
Wires(w) ==
    /\ w.links \in 0..MaxLinks /\ EndOK(w, "host") /\ EndOK(w, "guest")
    /\ w.wire["host"] \in Seq(Command) /\ w.wire["guest"] \in Seq(Event)

\* The host's page waits for nothing.
HostFree(w) ==
    /\ ~w.view["host"].moving /\ w.view["host"].pending = None
    /\ w.side["host"].state = "dead" => w.attempt["host"] = "none"

GuestFits(w) ==
    LET v == w.view["guest"]
        s == w.side["guest"].state
    IN  /\ GuestPage(v)
        /\ v.moving => s \in {"open", "closing"}
        /\ s = "new" => v.returning
        /\ s \in {"new", "opening"} => ~v.session /\ v.match = None /\ v.chat = <<>>

\* The host is going to be asked for the room, or has been and has sent all of it.
Asks(w) == \/ \E i \in DOMAIN w.wire["host"] : w.wire["host"][i].type = "reconnect"
           \/ w.side["guest"].state = "opening" /\ w.view["guest"].returning
Promised(w, c) ==
    Live(w) /\ w.room.guest =>
        /\ w.side["host"].state = "opening" => Asks(w)
        /\ w.side["host"].state = "open" => Asks(w) \/ Final(c, w.room)

\* The answers that the guest's page waits for.
MoveOwed(w) == \/ \E i \in DOMAIN w.wire["host"] : w.wire["host"][i].type = "move"
               \/ \E i \in DOMAIN w.wire["guest"] : AnswersMove(w.wire["guest"][i])
TextOwed(w) == \/ \E i \in DOMAIN w.wire["host"] : w.wire["host"][i].type = "chat"
               \/ \E i \in DOMAIN w.wire["guest"] : AnswersText(w.wire["guest"][i])
Owed(w) ==
    Live(w) /\ w.side["host"].state \in {"opening", "open"} =>
        /\ w.view["guest"].moving => MoveOwed(w)
        /\ w.view["guest"].pending # None => TextOwed(w)

Early == {"creating-offer", "creating-session", "waiting-for-guest", "applying-answer"}
Records(w, stage) ==
    /\ \A p \in Players : w.attempt[p] \in {"none", "restoring", "running", "retry"}
    /\ w.control \in {"none", "registering", "sent"}
    /\ w.online \in BOOLEAN /\ w.saved \in BOOLEAN /\ w.finalized \in BOOLEAN
    /\ w.saved \/ Recovers(w) => w.control = "sent"
    /\ w.room.guest => stage = "done"
    /\ ~w.room.guest =>
          /\ w.record = None /\ w.control = "none"
          /\ w.view["host"].session /\ w.view["guest"] = NoView
          /\ \A p \in Players : w.wire[p] = <<>> /\ w.attempt[p] = "none"
    /\ stage \in Early =>
          /\ \A p \in Players : w.side[p].link = 0
          /\ w.side["host"].state = "new" /\ w.side["guest"].state = "dead"

Safe(w, stage) ==
    /\ Shaped(w) /\ Wires(w) /\ GuestFits(w)
    /\ \E c : Calm(w, c) /\ Promised(w, c)
    /\ Owed(w) /\ Records(w, stage)
DirectInv(w, stage) == Safe(w, stage) /\ HostFree(w)

\* While a command k of p is served: what is owed but for it.
Serving(w, c, p, k) ==
    /\ Live(w) /\ w.room.guest =>
          /\ w.side["host"].state = "opening" => Asks(w)
          /\ w.side["host"].state = "open" => Asks(w) \/ Final(c, w.room) \/ k.type = "reconnect"
    /\ Live(w) /\ w.side["host"].state \in {"opening", "open"} =>
          /\ w.view["guest"].moving => MoveOwed(w) \/ (p = "guest" /\ k.type = "move")
          /\ w.view["guest"].pending # None => TextOwed(w) \/ (p = "guest" /\ k.type = "chat")
    /\ p = "guest" => Up(w.side["host"])

\* A longer stream still has what it had.
LEMMA Longer ==
    ASSUME NEW s \in Seq(Event), NEW t \in Seq(Event), Begins(s, t)
    PROVE  /\ (\E i \in DOMAIN s : AnswersMove(s[i])) => \E i \in DOMAIN t : AnswersMove(t[i])
           /\ (\E i \in DOMAIN s : AnswersText(s[i])) => \E i \in DOMAIN t : AnswersText(t[i])
<1>1. \A i \in DOMAIN s : i \in DOMAIN t /\ t[i] = s[i]
  BY DEF Begins
<1> QED BY <1>1

\* What is left of the invariant when the host's page does not matter.
LEMMA ServedKeeps ==
    ASSUME NEW w, NEW stage, Wires(w), GuestFits(w), Records(w, stage), w.room.match # None,
           NEW u, NEW c, Served(w, u), Calm(u, c)
    PROVE  Shaped(u) /\ Wires(u) /\ GuestFits(u) /\ Records(u, stage) /\ u.room.guest
<1>1. Aside(u, w) /\ u.view["guest"] = w.view["guest"] /\ u.wire["host"] = w.wire["host"]
  BY DEF Served
<1>2. Shaped(u) /\ u.wire["guest"] \in Seq(Event)
  BY DEF Calm
<1>3. w.room.guest /\ u.room.guest
  BY DEF Served, RoomOK, Advances
<1>4. Wires(u)
  <2>1. EndOK(u, "host")
    BY <1>1 DEF EndOK, Aside, Wires
  <2>2. EndOK(u, "guest")
    <3>1. w.side["guest"].state \in {"new", "lost", "dead"} => u.wire["guest"] = <<>>
      <4> SUFFICES ASSUME w.side["guest"].state \in {"new", "lost", "dead"}
                   PROVE  u.wire["guest"] = <<>>
        OBVIOUS
      <4>1. w.wire["guest"] = <<>> /\ ~Reached(w)
        BY DEF Wires, EndOK, Reached, Linked
      <4> QED BY <4>1 DEF Served
    <3> QED BY <1>1, <3>1 DEF EndOK, Aside, Wires
  <2> QED BY <1>1, <1>2, <2>1, <2>2 DEF Wires, Aside
<1>5. GuestFits(u)
  BY <1>1 DEF GuestFits, Aside
<1>6. Records(u, stage)
  <2>1. Recovers(u) => Recovers(w)
    BY DEF Served
  <2> QED BY <1>1, <1>3, <2>1 DEF Records, Aside
<1> QED BY <1>2, <1>3, <1>4, <1>5, <1>6

\* A command is served: the invariant holds again, and its answer is under way.
LEMMA Serves ==
    ASSUME NEW w, NEW c, NEW stage, w.ok, Wires(w), GuestFits(w), Records(w, stage), Calm(w, c),
           w.room.match # None, NEW p \in Players, NEW k \in Command,
           p = "host" => w.view["host"].session, Serving(w, c, p, k),
           NEW u, u = Obey(w, p, k)
    PROVE  Safe(u, stage) /\ Served(w, u) /\ Answered(w, p, k, u)
<1>1. Done(w, c, p, k, u)
  BY ObeyDone
<1>2. PICK d : Obeyed(w, c, u, d) /\ (k.type = "reconnect" /\ Reached(w) => Final(d, u.room))
  BY <1>1 DEF Done
<1>3. Served(w, u) /\ Calm(u, d) /\ Answered(w, p, k, u)
  BY <1>1, <1>2 DEF Done, Obeyed
<1>4. Shaped(u) /\ Wires(u) /\ GuestFits(u) /\ Records(u, stage) /\ u.room.guest
  BY <1>3, ServedKeeps
<1>5. /\ Aside(u, w) /\ u.view["guest"] = w.view["guest"] /\ u.wire["host"] = w.wire["host"]
      /\ w.room.guest
  BY <1>3 DEF Served, RoomOK
<1>6. (Live(u) <=> Live(w)) /\ (Asks(w) => Asks(u))
  BY <1>5 DEF Live, Linked, Aside, Asks
<1>7. Promised(u, d)
  <2>1. ASSUME Live(u), u.side["host"].state = "open" PROVE Asks(u) \/ Final(d, u.room)
    <3>1. Reached(w)
      BY <1>5, <1>6, <2>1 DEF Reached, Live, Aside
    <3>2. Asks(w) \/ Final(c, w.room) \/ k.type = "reconnect"
      BY <1>5, <1>6, <2>1 DEF Serving, Aside
    <3> QED BY <1>2, <1>6, <3>1, <3>2 DEF Obeyed
  <2>2. ASSUME Live(u), u.side["host"].state = "opening" PROVE Asks(u)
    BY <1>5, <1>6, <2>2 DEF Serving, Aside
  <2> QED BY <2>1, <2>2 DEF Promised
<1>8. /\ MoveOwed(w) => MoveOwed(u)
      /\ TextOwed(w) => TextOwed(u)
  <2>1. PICK s \in Seq(Event) : s = w.wire["guest"]
    BY DEF Wires
  <2>2. PICK t \in Seq(Event) : t = u.wire["guest"]
    BY <1>4 DEF Wires
  <2>3. Begins(s, t)
    BY <1>3, <2>1, <2>2 DEF Served
  <2>4. /\ (\E i \in DOMAIN s : AnswersMove(s[i])) => \E i \in DOMAIN t : AnswersMove(t[i])
        /\ (\E i \in DOMAIN s : AnswersText(s[i])) => \E i \in DOMAIN t : AnswersText(t[i])
    BY <2>3, Longer
  <2> QED BY <1>5, <2>1, <2>2, <2>4 DEF MoveOwed, TextOwed
<1>9. Owed(u)
  <2> SUFFICES ASSUME Live(u), u.side["host"].state \in {"opening", "open"}
               PROVE  /\ u.view["guest"].moving => MoveOwed(u)
                      /\ u.view["guest"].pending # None => TextOwed(u)
    BY DEF Owed
  <2>1. /\ w.view["guest"].moving => MoveOwed(w) \/ (p = "guest" /\ k.type = "move")
        /\ w.view["guest"].pending # None => TextOwed(w) \/ (p = "guest" /\ k.type = "chat")
    BY <1>5, <1>6 DEF Serving, Aside
  <2>2. p = "guest" => Reached(w)
    BY <1>5, <1>6 DEF Serving, Aside, Up, Reached, Live
  <2>3. p = "guest" /\ k.type = "move" => MoveOwed(u)
    BY <1>3, <2>2 DEF Answered, MoveOwed
  <2>4. p = "guest" /\ k.type = "chat" => TextOwed(u)
    BY <1>3, <2>2 DEF Answered, TextOwed
  <2> QED BY <1>5, <1>8, <2>1, <2>3, <2>4
<1> QED BY <1>3, <1>4, <1>7, <1>9 DEF Safe

\* The host's page changes, and nothing else.
LEMMA HostPageKeeps ==
    ASSUME NEW w, NEW stage, Safe(w, stage), NEW u, But(u, w, {"view", "online"}),
           u.view["guest"] = w.view["guest"], HostPage(u.view["host"], w.room),
           u.online \in BOOLEAN, ~w.room.guest => u.view["host"].session
    PROVE  Safe(u, stage)
<1>1. /\ Shaped(u) /\ u.room = w.room /\ u.record = w.record /\ u.side = w.side
      /\ u.wire = w.wire /\ u.attempt = w.attempt /\ u.control = w.control
      /\ u.saved = w.saved /\ u.finalized = w.finalized /\ u.links = w.links
  BY DEF But
<1>2. PICK c : Calm(w, c) /\ Promised(w, c)
  BY DEF Safe
<1>3. Wires(u) /\ GuestFits(u)
  BY <1>1 DEF Safe, Wires, EndOK, GuestFits
<1>4. (Live(u) <=> Live(w)) /\ (Asks(u) <=> Asks(w))
  BY <1>1 DEF Live, Linked, Asks
<1>5. Calm(u, c)
  BY <1>1, <1>2, <1>4 DEF Calm
<1>6. Promised(u, c)
  BY <1>1, <1>2, <1>4 DEF Promised
<1>7. Owed(u)
  <2>1. (MoveOwed(u) <=> MoveOwed(w)) /\ (TextOwed(u) <=> TextOwed(w))
    BY <1>1 DEF MoveOwed, TextOwed
  <2> QED BY <1>1, <1>4, <2>1 DEF Safe, Owed
<1>8. Records(u, stage)
  <2>1. Recovers(u) <=> Recovers(w)
    BY <1>1 DEF Recovers
  <2> QED BY <1>1, <2>1 DEF Safe, Records
<1> QED BY <1>1, <1>3, <1>5, <1>6, <1>7, <1>8 DEF Safe

\* The record is written.
LEMMA PersistKeeps ==
    ASSUME NEW w, NEW stage, Safe(w, stage), NEW u, u = Persisted(w)
    PROVE  Safe(u, stage) /\ But(u, w, {"record"})
<1>1. PICK c : Calm(w, c) /\ Promised(w, c)
  BY DEF Safe
<1>2. Shaped(w) /\ RoomOK(w.room)
  BY <1>1 DEF Calm
<1>3. /\ Shaped(u) /\ Aside(u, w) /\ u.room = w.room
      /\ u.wire = w.wire /\ u.view = w.view /\ u.ok = w.ok
      /\ u.record = IF w.control = "none" THEN w.record
                    ELSE IF w.room.guest THEN HostRecord(w.room) ELSE None
  BY <1>2, PersistedIs
<1>4. But(u, w, {"record"})
  BY <1>3 DEF But, Aside
<1>5. w.control # "none" => u.record = w.room /\ w.room.guest /\ w.room # None
  <2>1. HostRecord(w.room) = w.room
    BY <1>2, RoomIs
  <2>2. w.room # None
    BY <1>2, DirectAssumption DEF RoomOK
  <2> QED BY <1>1, <1>3, <2>1, <2>2 DEF Calm
<1>6. w.control = "none" => u.record = w.record
  BY <1>3
<1>7. Wires(u) /\ GuestFits(u)
  BY <1>3 DEF Safe, Wires, EndOK, GuestFits, Aside
<1>8. (Live(u) <=> Live(w)) /\ (Asks(u) <=> Asks(w))
  BY <1>3 DEF Live, Linked, Asks, Aside
<1>9. Calm(u, c)
  <2>1. u.control = w.control /\ u.side = w.side
    BY <1>3 DEF Aside
  <2>2. u.record # None => RoomOK(u.record) /\ u.record.guest
    BY <1>1, <1>2, <1>5, <1>6 DEF Calm
  <2>3. u.control = "sent" => u.record # None
    BY <1>5, <2>1
  <2> QED BY <1>1, <1>3, <1>8, <2>1, <2>2, <2>3 DEF Calm
<1>10. Promised(u, c)
  BY <1>1, <1>3, <1>8 DEF Promised, Aside
<1>11. Owed(u)
  <2>1. (MoveOwed(u) <=> MoveOwed(w)) /\ (TextOwed(u) <=> TextOwed(w))
    BY <1>3 DEF MoveOwed, TextOwed
  <2> QED BY <1>3, <1>8, <2>1 DEF Safe, Owed, Aside
<1>12. Records(u, stage)
  <2>1. Recovers(u) <=> Recovers(w)
    BY <1>3 DEF Recovers
  <2>2. ~w.room.guest => u.record = None
    BY <1>5, <1>6 DEF Safe, Records
  <2> QED BY <1>3, <2>1, <2>2 DEF Safe, Records, Aside
<1> QED BY <1>3, <1>4, <1>7, <1>9, <1>10, <1>11, <1>12 DEF Safe

\* A player leaves its link: nothing is live, and nothing is owed.
LEMMA LeavesKeeps ==
    ASSUME NEW w, NEW stage, Safe(w, stage), NEW p \in Players,
           NEW state \in {"new", "lost", "dead"}, NEW u, Leaves(w, p, u, state),
           u.online \in BOOLEAN, u.attempt[p] \in {"none", "restoring", "running", "retry"},
           ~w.room.guest => u.attempt[p] = "none",
           stage \in Early => state = IF p = "host" THEN "new" ELSE "dead",
           p = "host" => /\ HostPage(u.view["host"], w.room)
                         /\ ~w.room.guest => u.view["host"].session,
           p = "guest" => /\ GuestPage(u.view["guest"]) /\ ~u.view["guest"].moving
                          /\ state = "new" => /\ u.view["guest"].returning
                                              /\ ~u.view["guest"].session
                                              /\ u.view["guest"].match = None
                                              /\ u.view["guest"].chat = <<>>
                          /\ u.view["guest"].chat \in {<<>>, w.view["guest"].chat}
                          /\ ~w.room.guest => u.view["guest"] = NoView
    PROVE  Safe(u, stage)
<1>1. /\ Shaped(u) /\ u.room = w.room /\ u.record = w.record /\ u.control = w.control
      /\ u.saved = w.saved /\ u.finalized = w.finalized /\ u.links = w.links
  BY DEF Leaves, Alone, But
<1>2. /\ u.side[Other(p)] = w.side[Other(p)] /\ u.wire[Other(p)] = w.wire[Other(p)]
      /\ u.view[Other(p)] = w.view[Other(p)] /\ u.attempt[Other(p)] = w.attempt[Other(p)]
  BY DEF Leaves, Alone
<1>3. u.side[p] = [state |-> state, link |-> 0] /\ u.wire[p] = <<>>
  BY DEF Leaves
<1>4. PICK c : Calm(w, c) /\ Promised(w, c)
  BY DEF Safe
<1>5. Wires(u)
  <2>1. u.links \in 0..MaxLinks /\ MaxLinks \in Nat
    BY <1>1, DirectAssumption DEF Safe, Wires
  <2>2. EndOK(u, p)
    BY <1>3, <2>1 DEF EndOK, States
  <2>3. EndOK(u, Other(p))
    BY <1>1, <1>2, OthersAre DEF Safe, Wires, EndOK, Players
  <2>4. u.wire["host"] \in Seq(Command) /\ u.wire["guest"] \in Seq(Event)
    <3>1. <<>> \in Seq(Command) /\ <<>> \in Seq(Event)
      OBVIOUS
    <3> QED BY <1>2, <1>3, <3>1, OthersAre DEF Safe, Wires, Players
  <2> QED BY <2>1, <2>2, <2>3, <2>4, OthersAre DEF Wires, Players
<1>6. GuestFits(u)
  <2>1. CASE p = "host"
    <3>1. u.side["guest"] = w.side["guest"] /\ u.view["guest"] = w.view["guest"]
      BY <1>2, <2>1, OthersAre
    <3> QED BY <3>1 DEF Safe, GuestFits
  <2>2. CASE p = "guest"
    BY <1>3, <2>2 DEF GuestFits
  <2> QED BY <2>1, <2>2 DEF Players
<1>7. ~Live(u)
  BY <1>3 DEF Live, Linked, Players
<1>8. \E d : Calm(u, d)
  <2>1. HostPage(u.view["host"], u.room)
    BY <1>1, <1>2, <1>4, OthersAre DEF Calm, Players
  <2>2. \E d : Ends(Picture(u.view["guest"]), u.wire["guest"], d)
    <3>1. CASE p = "host"
      <4>1. u.wire["guest"] = w.wire["guest"] /\ u.view["guest"] = w.view["guest"]
        BY <1>2, <3>1, OthersAre
      <4> QED BY <1>4, <4>1 DEF Calm
    <3>2. CASE p = "guest"
      <4>1. PICK v : v = u.view["guest"]
        OBVIOUS
      <4>2. v \in View
        BY <3>2, <4>1 DEF GuestPage
      <4>3. Picture(v) \in Pictures /\ Picture(v).chat = v.chat
        BY <4>2 DEF Picture, Pictures, View
      <4>4. Rises(w.view["guest"].chat)
        <5>1. Ends(Picture(w.view["guest"]), w.wire["guest"], c) /\ w.wire["guest"] \in Seq(Event)
          BY <1>4 DEF Calm
        <5>2. Rises(Picture(w.view["guest"]).chat)
          BY <5>1, EndsAreTyped
        <5> QED BY <5>2 DEF Picture
      <4>5. Rises(v.chat)
        <5>1. Rises(<<>>)
          BY DEF Rises
        <5> QED BY <3>2, <4>1, <4>4, <5>1
      <4>6. Ends(Picture(v), <<>>, Picture(v))
        BY <4>3, <4>5, EndsAtOnce
      <4> QED BY <1>3, <3>2, <4>1, <4>6
    <3> QED BY <3>1, <3>2 DEF Players
  <2>3. PICK d : Ends(Picture(u.view["guest"]), u.wire["guest"], d)
    BY <2>2
  <2>4. u.side["host"].state = "open" => u.side["host"].link # 0
    BY <1>5 DEF Wires, EndOK
  <2>5. u.wire["guest"] \in Seq(Event)
    BY <1>5 DEF Wires
  <2> QED BY <1>1, <1>4, <1>7, <2>1, <2>3, <2>4, <2>5 DEF Calm
<1>9. \A d : Promised(u, d)
  BY <1>7 DEF Promised
<1>10. Owed(u)
  BY <1>7 DEF Owed
<1>11. Records(u, stage)
  <2>1. Recovers(u) => Recovers(w)
    <3>1. u.wire["guest"] = <<>> \/ u.wire["guest"] = w.wire["guest"]
      BY <1>2, <1>3, OthersAre DEF Players
    <3> QED BY <3>1 DEF Recovers
  <2>2. \A q \in Players : q = p \/ q = Other(p)
    BY OthersAre
  <2>3. \A q \in Players : u.attempt[q] \in {"none", "restoring", "running", "retry"}
    BY <1>2, <2>2, OthersAre DEF Safe, Records
  <2>4. ~w.room.guest => /\ u.record = None /\ u.control = "none"
                         /\ u.view["host"].session /\ u.view["guest"] = NoView
                         /\ \A q \in Players : u.wire[q] = <<>> /\ u.attempt[q] = "none"
    <3> SUFFICES ASSUME ~w.room.guest
                 PROVE  /\ u.record = None /\ u.control = "none"
                        /\ u.view["host"].session /\ u.view["guest"] = NoView
                        /\ \A q \in Players : u.wire[q] = <<>> /\ u.attempt[q] = "none"
      OBVIOUS
    <3>1. /\ w.record = None /\ w.control = "none"
          /\ w.view["host"].session /\ w.view["guest"] = NoView
          /\ \A q \in Players : w.wire[q] = <<>> /\ w.attempt[q] = "none"
      BY DEF Safe, Records
    <3>2. u.view["host"].session /\ u.view["guest"] = NoView
      BY <1>2, <3>1, OthersAre DEF Players
    <3>3. \A q \in Players : u.wire[q] = <<>> /\ u.attempt[q] = "none"
      BY <1>2, <1>3, <2>2, <3>1, OthersAre
    <3> QED BY <1>1, <3>1, <3>2, <3>3
  <2>5. stage \in Early => /\ \A q \in Players : u.side[q].link = 0
                           /\ u.side["host"].state = "new" /\ u.side["guest"].state = "dead"
    <3> SUFFICES ASSUME stage \in Early
                 PROVE  /\ \A q \in Players : u.side[q].link = 0
                        /\ u.side["host"].state = "new" /\ u.side["guest"].state = "dead"
      OBVIOUS
    <3>1. /\ \A q \in Players : w.side[q].link = 0
          /\ w.side["host"].state = "new" /\ w.side["guest"].state = "dead"
      BY DEF Safe, Records
    <3>2. \A q \in Players : u.side[q].link = 0
      BY <1>2, <1>3, <2>2, <3>1, OthersAre
    <3> QED BY <1>2, <1>3, <3>1, <3>2, OthersAre DEF Players
  <2> QED BY <1>1, <2>1, <2>3, <2>4, <2>5 DEF Safe, Records
<1> QED BY <1>1, <1>5, <1>6, <1>8, <1>9, <1>10, <1>11 DEF Safe

\* The channel opens, or is closing, on the side of p.
LEMMA SideKeeps ==
    ASSUME NEW w, NEW stage, Safe(w, stage), NEW p \in Players, w.side[p].link # 0,
           w.side[p].state \in {"opening", "open"},
           NEW state \in {"open", "closing"}, NEW u,
           Sided(u, w, p, [state |-> state, link |-> w.side[p].link]),
           p = "guest" /\ w.side[p].state = "opening" => ~w.view["guest"].returning
    PROVE  Safe(u, stage)
<1>1. /\ Shaped(u) /\ u.room = w.room /\ u.record = w.record /\ u.view = w.view
      /\ u.wire = w.wire /\ u.attempt = w.attempt /\ u.control = w.control /\ u.online = w.online
      /\ u.saved = w.saved /\ u.finalized = w.finalized /\ u.links = w.links
  BY DEF Sided, But
<1>2. PICK s : s = [state |-> state, link |-> w.side[p].link]
  OBVIOUS
<1>3. u.side[p] = s /\ u.side[Other(p)] = w.side[Other(p)] /\ s.link = w.side[p].link
      /\ s.state = state
  BY <1>2 DEF Sided
<1>4. PICK c : Calm(w, c) /\ Promised(w, c)
  BY DEF Safe
<1>5. Wires(u)
  <2>1. EndOK(w, p) /\ EndOK(w, Other(p))
    BY OthersAre DEF Safe, Wires, Players
  <2>2. s \in [state : States, link : 0..MaxLinks]
    BY <1>2, <2>1 DEF EndOK, States
  <2>3. EndOK(u, p)
    BY <1>1, <1>3, <2>1, <2>2 DEF EndOK
  <2>4. EndOK(u, Other(p))
    BY <1>1, <1>3, <2>1 DEF EndOK
  <2> QED BY <1>1, <2>3, <2>4, OthersAre DEF Safe, Wires, Players
<1>6. GuestFits(u)
  <2>1. CASE p = "guest"
    BY <1>1, <1>3, <2>1 DEF Safe, GuestFits
  <2>2. CASE p = "host"
    BY <1>1, <1>3, <2>2, OthersAre DEF Safe, GuestFits
  <2> QED BY <2>1, <2>2 DEF Players
<1>7. /\ u.side["host"].link = w.side["host"].link /\ u.side["guest"].link = w.side["guest"].link
  BY <1>3, OthersAre DEF Players
<1>8. (Live(u) <=> Live(w))
  BY <1>7 DEF Live, Linked
<1>9. Asks(w) => Asks(u)
  BY <1>1, <1>3, OthersAre DEF Asks, Players
<1>10. Calm(u, c)
  <2>1. u.side["host"].state = "open" => u.side["host"].link # 0
    BY <1>5 DEF Wires, EndOK
  <2> QED BY <1>1, <1>4, <1>8, <2>1 DEF Calm
<1>11. /\ u.side["host"].state = "opening" => w.side["host"].state = "opening"
       /\ u.side["host"].state = "open" => w.side["host"].state \in {"opening", "open"}
  BY <1>3, OthersAre DEF Players
<1>12. Promised(u, c)
  BY <1>1, <1>4, <1>8, <1>9, <1>11 DEF Promised
<1>13. Owed(u)
  <2>1. (MoveOwed(u) <=> MoveOwed(w)) /\ (TextOwed(u) <=> TextOwed(w))
    BY <1>1 DEF MoveOwed, TextOwed
  <2> QED BY <1>1, <1>8, <1>11, <2>1 DEF Safe, Owed
<1>14. Records(u, stage)
  <2>1. Recovers(u) <=> Recovers(w)
    BY <1>1 DEF Recovers
  <2>2. stage \notin Early
    <3>1. p \in {"host", "guest"}
      BY DEF Players
    <3> QED BY <3>1 DEF Safe, Records
  <2> QED BY <1>1, <2>1, <2>2 DEF Safe, Records
<1> QED BY <1>1, <1>5, <1>6, <1>10, <1>12, <1>13, <1>14 DEF Safe

\* A message at the end of those under way is one of them.
LEMMA LastIsIn ==
    ASSUME NEW S, NEW s \in Seq(S), NEW e \in S
    PROVE  /\ \E i \in DOMAIN Append(s, e) : Append(s, e)[i] = e
           /\ \A i \in DOMAIN s : i \in DOMAIN Append(s, e) /\ Append(s, e)[i] = s[i]
           /\ Append(s, e) \in Seq(S)
<1>1. Append(s, e)[Len(s) + 1] = e /\ Len(s) + 1 \in DOMAIN Append(s, e)
  OBVIOUS
<1>2. \A i \in DOMAIN s : i \in DOMAIN Append(s, e) /\ Append(s, e)[i] = s[i]
  OBVIOUS
<1> QED BY <1>1, <1>2

\* A command that the guest's page sends, if the link is still one.
Says(w, u, v, k) ==
    /\ But(u, w, {"view", "wire", "side"})
    /\ u.view["guest"] = v /\ u.view["host"] = w.view["host"]
    /\ u.wire["guest"] = w.wire["guest"]
    /\ u.wire["host"] = IF Linked(w) THEN Append(w.wire["host"], k) ELSE w.wire["host"]
    /\ u.side["host"] = w.side["host"]
    /\ u.side["guest"] = [state |-> "open", link |-> w.side["guest"].link]

\* It keeps the invariant.
LEMMA SaysKeeps ==
    ASSUME NEW w, NEW stage, Safe(w, stage), w.room.guest, w.side["guest"].link # 0,
           w.side["guest"].state \in {"opening", "open"},
           NEW k \in Command, NEW v, GuestPage(v), Picture(v) = Picture(w.view["guest"]),
           w.side["guest"].state = "opening" => k.type = "reconnect",
           v.moving => w.view["guest"].moving \/ k.type = "move",
           v.pending # None => w.view["guest"].pending # None \/ k.type = "chat",
           NEW u, Says(w, u, v, k)
    PROVE  Safe(u, stage)
<1>1. /\ Shaped(u) /\ u.room = w.room /\ u.record = w.record
      /\ u.attempt = w.attempt /\ u.control = w.control /\ u.online = w.online
      /\ u.saved = w.saved /\ u.finalized = w.finalized /\ u.links = w.links
  BY DEF Says, But
<1>2. /\ u.view["guest"] = v /\ u.view["host"] = w.view["host"]
      /\ u.wire["guest"] = w.wire["guest"] /\ u.side["host"] = w.side["host"]
      /\ u.wire["host"] = IF Linked(w) THEN Append(w.wire["host"], k) ELSE w.wire["host"]
  BY DEF Says
<1>3. PICK s : s = [state |-> "open", link |-> w.side["guest"].link]
  OBVIOUS
<1>4. u.side["guest"] = s /\ s.state = "open" /\ s.link = w.side["guest"].link
  BY <1>3 DEF Says
<1>5. PICK c : Calm(w, c) /\ Promised(w, c)
  BY DEF Safe
<1>6. w.wire["host"] \in Seq(Command)
  BY DEF Safe, Wires
<1>7. /\ \A i \in DOMAIN w.wire["host"] : /\ i \in DOMAIN u.wire["host"]
                                          /\ u.wire["host"][i] = w.wire["host"][i]
      /\ Linked(w) => \E i \in DOMAIN u.wire["host"] : u.wire["host"][i] = k
      /\ u.wire["host"] \in Seq(Command)
  BY <1>2, <1>6, LastIsIn
<1>8. Wires(u)
  <2>1. EndOK(w, "guest") /\ EndOK(w, "host")
    BY DEF Safe, Wires
  <2>2. s \in [state : States, link : 0..MaxLinks]
    BY <1>3, <2>1 DEF EndOK, States
  <2>3. EndOK(u, "guest")
    BY <1>1, <1>2, <1>4, <2>1, <2>2 DEF EndOK
  <2>4. w.side["host"].state \in {"new", "lost", "dead"} => ~Linked(w)
    BY <2>1 DEF EndOK, Linked
  <2>5. EndOK(u, "host")
    BY <1>1, <1>2, <2>1, <2>4 DEF EndOK
  <2> QED BY <1>1, <1>2, <1>7, <2>3, <2>5 DEF Safe, Wires
<1>9. GuestFits(u)
  BY <1>2, <1>4 DEF GuestFits
<1>10. Live(u) <=> Live(w)
  BY <1>2, <1>4 DEF Live, Linked
<1>11. Live(w) /\ Asks(w) => Asks(u)
  <2>1. Live(w) => Linked(w)
    BY DEF Live
  <2> QED BY <1>7, <2>1 DEF Asks
<1>12. Calm(u, c)
  <2>1. u.view["guest"].match = w.view["guest"].match
    BY <1>2 DEF Picture
  <2> QED BY <1>1, <1>2, <1>5, <1>10, <2>1 DEF Calm, AllPassed
<1>13. Promised(u, c)
  BY <1>1, <1>2, <1>5, <1>10, <1>11 DEF Promised
<1>14. Owed(u)
  <2> SUFFICES ASSUME Live(u), u.side["host"].state \in {"opening", "open"}
               PROVE  /\ u.view["guest"].moving => MoveOwed(u)
                      /\ u.view["guest"].pending # None => TextOwed(u)
    BY DEF Owed
  <2>1. Linked(w) /\ Live(w)
    BY <1>10 DEF Live
  <2>2. (MoveOwed(w) => MoveOwed(u)) /\ (TextOwed(w) => TextOwed(u))
    BY <1>2, <1>7 DEF MoveOwed, TextOwed
  <2>3. /\ k.type = "move" => MoveOwed(u)
        /\ k.type = "chat" => TextOwed(u)
    BY <1>7, <2>1 DEF MoveOwed, TextOwed
  <2> QED BY <1>2, <2>1, <2>2, <2>3 DEF Safe, Owed
<1>15. Records(u, stage)
  <2>1. Recovers(u) <=> Recovers(w)
    BY <1>2 DEF Recovers
  <2>2. stage \notin Early
    BY DEF Safe, Records, Players
  <2> QED BY <1>1, <2>1, <2>2 DEF Safe, Records
<1> QED BY <1>1, <1>8, <1>9, <1>12, <1>13, <1>14, <1>15 DEF Safe
=============================================================================
