------------------------- MODULE P2PReconnectProofs -------------------------
(***************************************************************************)
(* The reconnection of a direct match, for any number of tabs, instances,  *)
(* attempts and requests.                                                  *)
(*                                                                         *)
(* A handler takes the world of the clients to another, in several steps   *)
(* (Persisted, Begin, Teardown, ...).  Good says what every world on the   *)
(* way has; each of these operators keeps it, and the record of a player   *)
(* who does not leave.  Typed says what every variable may hold, in the    *)
(* same worlds.                                                            *)
(***************************************************************************)
EXTENDS P2PReconnect, TLAPS

Linked == {"connected", "lost"}

\* An attempt that has not told its peer of the other side, and one that waits.
EarlySteps == {"claim", "create-offer", "offer", "read-answer", "apply", "read-offer",
               "create-answer"}
WaitSteps == CallSteps \cup Polls
HostSteps == {"create-offer", "offer", "read-answer", "apply", "connect", "finalize"}

TabShaped(r) ==
    r = [peer |-> r.peer, session |-> r.session, inFlight |-> r.inFlight, own |-> r.own,
         rebind |-> r.rebind, bound |-> r.bound, retry |-> r.retry, claim |-> r.claim,
         beat |-> r.beat, notice |-> r.notice]
RunShaped(r) ==
    r = [step |-> r.step, tab |-> r.tab, kind |-> r.kind, reply |-> r.reply, got |-> r.got,
         aborted |-> r.aborted]
PeerShaped(r) == r = [status |-> r.status, other |-> r.other]

\* What is bound is the peer of the tab, and connected; only a host's tab retries;
\* c is the record of the service.
TabGood(w, c, t, r) ==
    /\ TabShaped(r)
    /\ r.bound # None => r.bound = r.peer /\ r.bound \in Peers /\ w.peer[r.bound].status \in Linked
    /\ r.retry # None => t \in HostTabs
    /\ r.beat = "gone" => c = None

\* A guest's attempt is of the peer its tab has, but for one that is aborted.
GuestRunGood(w, r, p) ==
    /\ r.step \notin {"none", "abort"} /\ ~r.aborted =>
          r.tab \in GuestTabs /\ w.tab[r.tab].peer = p
    /\ r.aborted => r.step \in IceSteps \cup {"abort"}
    /\ r.step \notin HostSteps

RunGood(w, c, p, r) ==
    /\ RunShaped(r)
    /\ r.step \in EarlySteps => w.peer[p].status \in {"new", "failed"}
    /\ r.reply # None => r.step \in WaitSteps
    /\ r.reply = "gone" => c = None
    /\ r.kind = "retry" => r.tab \in HostTabs
    /\ p \in Guests => GuestRunGood(w, r, p)

WorldShaped(w) ==
    /\ w = [calls |-> w.calls, tab |-> w.tab, run |-> w.run, peer |-> w.peer, saved |-> w.saved]
    /\ w.tab = [t \in Tabs |-> w.tab[t]]
    /\ w.run = [p \in Peers |-> w.run[p]]
    /\ w.peer = [p \in Peers |-> w.peer[p]]
    /\ w.saved = [r \in Roles |-> w.saved[r]]

\* An offer is its sender's, and who says "reconnected" is a host that did connect.
CallGood(w, q) ==
    /\ q.op \in ControlOps
    /\ q.op = "offer" => q.value = q.from
    /\ q.op = "finalize" /\ q.value = "reconnected" =>
           q.from \in Hosts /\ w.peer[q.from].status \in Linked

\* The offer of an open attempt is the host's that has the claim; that of an attempt
\* that reconnected is of a peer that did connect.
AttemptGood(w, claim, a) ==
    /\ a = [status |-> a.status, offer |-> a.offer, answer |-> a.answer, outcome |-> a.outcome]
    /\ a.status \in {"idle", "offer-ready", "answer-ready", "finalized"}
    /\ a.status \in {"offer-ready", "answer-ready"} => a.offer \in Hosts /\ a.offer = claim["host"]
    /\ a.outcome = "reconnected" => a.offer \in Hosts /\ w.peer[a.offer].status \in Linked

RecordShaped(c) ==
    /\ c = [state |-> c.state, claim |-> c.claim, attempt |-> c.attempt, expiresAt |-> c.expiresAt]
    /\ c.claim = [r \in Roles |-> c.claim[r]]

RecordGood(w, c) == c # None => RecordShaped(c) /\ AttemptGood(w, c.claim, c.attempt)

Good(w, c) ==
    /\ WorldShaped(w)
    /\ RecordGood(w, c)
    /\ \A q \in w.calls : CallGood(w, q)
    /\ \A t \in Tabs : TabGood(w, c, t, w.tab[t])
    /\ \A p \in Peers : PeerShaped(w.peer[p]) /\ RunGood(w, c, p, w.run[p])

\* Nobody's record is forgotten.
Keeps(w, v) == \A r \in Roles : w.saved[r] => v.saved[r]

-----------------------------------------------------------------------------
(***************************************************************************)
(* One part of a world replaced.                                           *)
(***************************************************************************)
\* No attempt of a guest needs the peer that the tab has.
Quiet(w, t) ==
    \A p \in Guests : w.run[p].tab = t =>
        w.run[p].step \in {"none", "abort"} \/ w.run[p].aborted

\* Another runtime in a tab, with the peer it had unless no attempt needs that.
LEMMA SetTab ==
    ASSUME NEW w, NEW c, Good(w, c), NEW t, NEW r,
           t \in Tabs => /\ TabGood(w, c, t, r)
                         /\ r.peer = w.tab[t].peer \/ Quiet(w, t)
    PROVE  LET v == [w EXCEPT !.tab = [w.tab EXCEPT ![t] = r]]
           IN  /\ Good(v, c) /\ Keeps(w, v) /\ v.peer = w.peer /\ v.run = w.run
               /\ v.calls = w.calls /\ v.saved = w.saved
               /\ v.tab = [w.tab EXCEPT ![t] = r]
<1> DEFINE f == [w.tab EXCEPT ![t] = r]
           v == [w EXCEPT !.tab = f]
<1>1. v = [calls |-> w.calls, tab |-> f, run |-> w.run, peer |-> w.peer, saved |-> w.saved]
  BY DEF Good, WorldShaped
<1>2. f = [u \in Tabs |-> f[u]] /\ \A u \in Tabs : f[u] = IF u = t THEN r ELSE w.tab[u]
  BY DEF Good, WorldShaped
<1> HIDE DEF f
<1>3. WorldShaped(v)
  BY <1>1, <1>2 DEF Good, WorldShaped
<1> HIDE DEF v
<1>4. ASSUME NEW u \in Tabs PROVE TabGood(v, c, u, v.tab[u])
  BY <1>1, <1>2 DEF Good, TabGood
<1>5. ASSUME NEW p \in Peers PROVE RunGood(v, c, p, v.run[p])
  <2>1. RunGood(w, c, p, w.run[p])
    BY DEF Good
  <2>2. p \in Guests => GuestRunGood(v, w.run[p], p)
    BY <1>1, <1>2, <2>1 DEF RunGood, GuestRunGood, Tabs, Quiet
  <2> QED BY <1>1, <2>1, <2>2 DEF RunGood
<1>6. RecordGood(v, c) /\ \A q \in v.calls : CallGood(v, q)
  BY <1>1 DEF Good, RecordGood, AttemptGood, CallGood
<1> QED BY <1>1, <1>3, <1>4, <1>5, <1>6 DEF Good, Keeps, v, f

\* Other runtimes in all the tabs, with the peers they had.
LEMMA SetTabs ==
    ASSUME NEW w, NEW c, Good(w, c), NEW f, f = [u \in Tabs |-> f[u]],
           \A u \in Tabs : TabGood(w, c, u, f[u]) /\ f[u].peer = w.tab[u].peer
    PROVE  LET v == [w EXCEPT !.tab = f]
           IN  /\ Good(v, c) /\ Keeps(w, v) /\ v.peer = w.peer /\ v.run = w.run
               /\ v.calls = w.calls /\ v.saved = w.saved /\ v.tab = f
<1> DEFINE v == [w EXCEPT !.tab = f]
<1>1. v = [calls |-> w.calls, tab |-> f, run |-> w.run, peer |-> w.peer, saved |-> w.saved]
  BY DEF Good, WorldShaped
<1>2. WorldShaped(v)
  BY <1>1 DEF Good, WorldShaped
<1> HIDE DEF v
<1>3. ASSUME NEW u \in Tabs PROVE TabGood(v, c, u, v.tab[u])
  BY <1>1 DEF Good, TabGood
<1>4. ASSUME NEW p \in Peers PROVE RunGood(v, c, p, v.run[p])
  <2>1. RunGood(w, c, p, w.run[p])
    BY DEF Good
  <2>2. p \in Guests => GuestRunGood(v, w.run[p], p)
    BY <1>1, <2>1 DEF RunGood, GuestRunGood, Tabs
  <2> QED BY <1>1, <2>1, <2>2 DEF RunGood
<1>5. RecordGood(v, c) /\ \A q \in v.calls : CallGood(v, q)
  BY <1>1 DEF Good, RecordGood, AttemptGood, CallGood
<1> QED BY <1>1, <1>2, <1>3, <1>4, <1>5 DEF Good, Keeps, v

\* Another state of an attempt.
LEMMA SetRun ==
    ASSUME NEW w, NEW c, Good(w, c), NEW p, NEW r, p \in Peers => RunGood(w, c, p, r)
    PROVE  LET v == [w EXCEPT !.run = [w.run EXCEPT ![p] = r]]
           IN  /\ Good(v, c) /\ Keeps(w, v) /\ v.peer = w.peer /\ v.tab = w.tab
               /\ v.calls = w.calls /\ v.saved = w.saved
               /\ v.run = [w.run EXCEPT ![p] = r]
<1> DEFINE f == [w.run EXCEPT ![p] = r]
           v == [w EXCEPT !.run = f]
<1>1. v = [calls |-> w.calls, tab |-> w.tab, run |-> f, peer |-> w.peer, saved |-> w.saved]
  BY DEF Good, WorldShaped
<1>2. f = [u \in Peers |-> f[u]] /\ \A u \in Peers : f[u] = IF u = p THEN r ELSE w.run[u]
  BY DEF Good, WorldShaped
<1> HIDE DEF f
<1>3. WorldShaped(v)
  BY <1>1, <1>2 DEF Good, WorldShaped
<1> HIDE DEF v
<1>4. ASSUME NEW u \in Tabs PROVE TabGood(v, c, u, v.tab[u])
  BY <1>1 DEF Good, TabGood
<1>5. ASSUME NEW u \in Peers PROVE RunGood(v, c, u, v.run[u])
  <2>1. RunGood(w, c, u, f[u])
    BY <1>2 DEF Good
  <2> QED BY <1>1, <2>1 DEF RunGood, GuestRunGood
<1>6. RecordGood(v, c) /\ \A q \in v.calls : CallGood(v, q)
  BY <1>1 DEF Good, RecordGood, AttemptGood, CallGood
<1> QED BY <1>1, <1>3, <1>4, <1>5, <1>6 DEF Good, Keeps, v, f

\* Another state of a peer, after which an attempt is early where it was, and what
\* was connected has been.
LEMMA SetPeer ==
    ASSUME NEW w, NEW c, Good(w, c), NEW p, NEW r,
           p \in Peers =>
               /\ PeerShaped(r)
               /\ w.peer[p].status \in Linked => r.status \in Linked
               /\ w.run[p].step \in EarlySteps => r.status \in {"new", "failed"}
    PROVE  LET v == [w EXCEPT !.peer = [w.peer EXCEPT ![p] = r]]
           IN  /\ Good(v, c) /\ Keeps(w, v) /\ v.run = w.run /\ v.tab = w.tab
               /\ v.calls = w.calls /\ v.saved = w.saved
               /\ v.peer = [w.peer EXCEPT ![p] = r]
<1> DEFINE f == [w.peer EXCEPT ![p] = r]
           v == [w EXCEPT !.peer = f]
<1>1. v = [calls |-> w.calls, tab |-> w.tab, run |-> w.run, peer |-> f, saved |-> w.saved]
  BY DEF Good, WorldShaped
<1>2. f = [u \in Peers |-> f[u]] /\ \A u \in Peers : f[u] = IF u = p THEN r ELSE w.peer[u]
  BY DEF Good, WorldShaped
<1> HIDE DEF f
<1>3. WorldShaped(v)
  BY <1>1, <1>2 DEF Good, WorldShaped
<1> HIDE DEF v
<1>4. ASSUME NEW u \in Tabs PROVE TabGood(v, c, u, v.tab[u])
  BY <1>1, <1>2 DEF Good, TabGood
<1>5. ASSUME NEW u \in Peers PROVE PeerShaped(v.peer[u]) /\ RunGood(v, c, u, v.run[u])
  BY <1>1, <1>2 DEF Good, RunGood, GuestRunGood
<1>6. RecordGood(v, c) /\ \A q \in v.calls : CallGood(v, q)
  <2>1. \A u \in Peers : w.peer[u].status \in Linked => v.peer[u].status \in Linked
    BY <1>1, <1>2
  <2> QED BY <1>1, <2>1 DEF Good, RecordGood, AttemptGood, CallGood, Peers, Instances
<1> QED BY <1>1, <1>3, <1>4, <1>5, <1>6 DEF Good, Keeps, v, f

\* Other requests under way.
LEMMA SetCalls ==
    ASSUME NEW w, NEW c, Good(w, c), NEW s, \A q \in s : CallGood(w, q)
    PROVE  LET v == [w EXCEPT !.calls = s]
           IN  /\ Good(v, c) /\ Keeps(w, v) /\ v.run = w.run /\ v.tab = w.tab
               /\ v.peer = w.peer /\ v.saved = w.saved /\ v.calls = s
<1> DEFINE v == [w EXCEPT !.calls = s]
<1>1. v = [calls |-> s, tab |-> w.tab, run |-> w.run, peer |-> w.peer, saved |-> w.saved]
  BY DEF Good, WorldShaped
<1>2. WorldShaped(v)
  BY <1>1 DEF Good, WorldShaped
<1> HIDE DEF v
<1>3. ASSUME NEW u \in Tabs PROVE TabGood(v, c, u, v.tab[u])
  BY <1>1 DEF Good, TabGood
<1>4. ASSUME NEW u \in Peers PROVE RunGood(v, c, u, v.run[u])
  BY <1>1 DEF Good, RunGood, GuestRunGood
<1>5. RecordGood(v, c) /\ \A q \in v.calls : CallGood(v, q)
  BY <1>1 DEF Good, RecordGood, AttemptGood, CallGood
<1> QED BY <1>1, <1>2, <1>3, <1>4, <1>5 DEF Good, Keeps, v

\* What is stored of the two players.
LEMMA SetSaved ==
    ASSUME NEW w, NEW c, Good(w, c), NEW s, s = [r \in Roles |-> s[r]]
    PROVE  LET v == [w EXCEPT !.saved = s]
           IN  /\ Good(v, c) /\ v.run = w.run /\ v.tab = w.tab
               /\ v.peer = w.peer /\ v.saved = s /\ v.calls = w.calls
<1> DEFINE v == [w EXCEPT !.saved = s]
<1>1. v = [calls |-> w.calls, tab |-> w.tab, run |-> w.run, peer |-> w.peer, saved |-> s]
  BY DEF Good, WorldShaped
<1>2. WorldShaped(v)
  BY <1>1 DEF Good, WorldShaped
<1> HIDE DEF v
<1>3. ASSUME NEW u \in Tabs PROVE TabGood(v, c, u, v.tab[u])
  BY <1>1 DEF Good, TabGood
<1>4. ASSUME NEW u \in Peers PROVE RunGood(v, c, u, v.run[u])
  BY <1>1 DEF Good, RunGood, GuestRunGood
<1>5. RecordGood(v, c) /\ \A q \in v.calls : CallGood(v, q)
  BY <1>1 DEF Good, RecordGood, AttemptGood, CallGood
<1> QED BY <1>1, <1>2, <1>3, <1>4, <1>5 DEF Good, v

\* The guests' attempts are in tabs of guests.
LEMMA HostTabsQuiet ==
    ASSUME NEW w, NEW c, Good(w, c), NEW t \in HostTabs
    PROVE  Quiet(w, t)
<1> SUFFICES ASSUME NEW p \in Guests, w.run[p].tab = t,
                    w.run[p].step \notin {"none", "abort"}, ~w.run[p].aborted
             PROVE  FALSE
  BY DEF Quiet
<1>1. w.run[p].tab \in GuestTabs
  BY DEF Good, RunGood, GuestRunGood, Peers, Instances
<1> QED BY <1>1, ReconnectAssumption

\* The rest of the world and the peers of the tabs are as they were.
SameButTabs(w, v) ==
    /\ Keeps(w, v) /\ v.run = w.run /\ v.peer = w.peer /\ v.calls = w.calls
    /\ v.saved = w.saved /\ \A u \in Tabs : v.tab[u].peer = w.tab[u].peer

\* One field of a runtime, other than its peer.
LEMMA SetField ==
    ASSUME NEW w, NEW c, Good(w, c), NEW t, NEW x
    PROVE  /\ LET v == [w EXCEPT !.tab[t].notice = x] IN Good(v, c) /\ SameButTabs(w, v)
           /\ LET v == [w EXCEPT !.tab[t].claim = x] IN Good(v, c) /\ SameButTabs(w, v)
           /\ LET v == [w EXCEPT !.tab[t].inFlight = x] IN Good(v, c) /\ SameButTabs(w, v)
           /\ LET v == [w EXCEPT !.tab[t].own = x] IN Good(v, c) /\ SameButTabs(w, v)
           /\ LET v == [w EXCEPT !.tab[t].session = x] IN Good(v, c) /\ SameButTabs(w, v)
           /\ LET v == [w EXCEPT !.tab[t].rebind = x] IN Good(v, c) /\ SameButTabs(w, v)
           /\ LET v == [w EXCEPT !.tab[t].beat = x]
              IN  (x = "gone" => c = None) => Good(v, c) /\ SameButTabs(w, v)
           /\ LET v == [w EXCEPT !.tab[t].retry = x]
              IN  (x # None /\ t \in Tabs => t \in HostTabs) => Good(v, c) /\ SameButTabs(w, v)
<1> DEFINE Put(r) == [w EXCEPT !.tab = [w.tab EXCEPT ![t] = r]]
           old == w.tab[t]
<1>1. ASSUME NEW r, t \in Tabs => TabGood(w, c, t, r) /\ r.peer = old.peer
      PROVE  Good(Put(r), c) /\ SameButTabs(w, Put(r))
  <2>1. /\ Good(Put(r), c) /\ Keeps(w, Put(r)) /\ Put(r).peer = w.peer /\ Put(r).run = w.run
        /\ Put(r).calls = w.calls /\ Put(r).saved = w.saved
        /\ Put(r).tab = [w.tab EXCEPT ![t] = r]
    BY <1>1, SetTab
  <2>2. \A u \in Tabs : Put(r).tab[u] = IF u = t THEN r ELSE w.tab[u]
    BY <2>1 DEF Good, WorldShaped
  <2> HIDE DEF Put
  <2> QED BY <1>1, <2>1, <2>2 DEF SameButTabs
<1>2. t \in Tabs => TabGood(w, c, t, old)
  BY DEF Good
<1>3. /\ [w EXCEPT !.tab[t].notice = x] = Put([old EXCEPT !.notice = x])
      /\ [w EXCEPT !.tab[t].claim = x] = Put([old EXCEPT !.claim = x])
      /\ [w EXCEPT !.tab[t].inFlight = x] = Put([old EXCEPT !.inFlight = x])
      /\ [w EXCEPT !.tab[t].own = x] = Put([old EXCEPT !.own = x])
      /\ [w EXCEPT !.tab[t].session = x] = Put([old EXCEPT !.session = x])
      /\ [w EXCEPT !.tab[t].rebind = x] = Put([old EXCEPT !.rebind = x])
      /\ [w EXCEPT !.tab[t].beat = x] = Put([old EXCEPT !.beat = x])
      /\ [w EXCEPT !.tab[t].retry = x] = Put([old EXCEPT !.retry = x])
  OBVIOUS
<1> HIDE DEF Put, old
<1>4. ASSUME NEW r \in {[old EXCEPT !.notice = x], [old EXCEPT !.claim = x],
                        [old EXCEPT !.inFlight = x], [old EXCEPT !.own = x],
                        [old EXCEPT !.session = x], [old EXCEPT !.rebind = x]}
      PROVE  t \in Tabs => TabGood(w, c, t, r) /\ r.peer = old.peer
  BY <1>2, <1>4 DEF TabGood, TabShaped
<1>5. (x = "gone" => c = None) =>
          (t \in Tabs => TabGood(w, c, t, [old EXCEPT !.beat = x])
                         /\ [old EXCEPT !.beat = x].peer = old.peer)
  BY <1>2 DEF TabGood, TabShaped
<1>6. (x # None /\ t \in Tabs => t \in HostTabs) =>
          (t \in Tabs => TabGood(w, c, t, [old EXCEPT !.retry = x])
                         /\ [old EXCEPT !.retry = x].peer = old.peer)
  BY <1>2 DEF TabGood, TabShaped
<1>7. ASSUME NEW v \in {[w EXCEPT !.tab[t].notice = x], [w EXCEPT !.tab[t].claim = x],
                        [w EXCEPT !.tab[t].inFlight = x], [w EXCEPT !.tab[t].own = x],
                        [w EXCEPT !.tab[t].session = x], [w EXCEPT !.tab[t].rebind = x]}
      PROVE  Good(v, c) /\ SameButTabs(w, v)
  <2>1. PICK r \in {[old EXCEPT !.notice = x], [old EXCEPT !.claim = x],
                    [old EXCEPT !.inFlight = x], [old EXCEPT !.own = x],
                    [old EXCEPT !.session = x], [old EXCEPT !.rebind = x]} : v = Put(r)
    BY <1>3, <1>7
  <2> QED BY <2>1, <1>1, <1>4
<1>8. (x = "gone" => c = None) => Good([w EXCEPT !.tab[t].beat = x], c)
                                   /\ SameButTabs(w, [w EXCEPT !.tab[t].beat = x])
  <2>1. PICK r : r = [old EXCEPT !.beat = x]
    OBVIOUS
  <2>2. [w EXCEPT !.tab[t].beat = x] = Put(r)
    BY <1>3, <2>1
  <2> QED BY <1>1, <1>5, <2>1, <2>2
<1>9. (x # None /\ t \in Tabs => t \in HostTabs) =>
          Good([w EXCEPT !.tab[t].retry = x], c) /\ SameButTabs(w, [w EXCEPT !.tab[t].retry = x])
  <2>1. PICK r : r = [old EXCEPT !.retry = x]
    OBVIOUS
  <2>2. [w EXCEPT !.tab[t].retry = x] = Put(r)
    BY <1>3, <2>1
  <2> QED BY <1>1, <1>6, <2>1, <2>2
<1> QED BY <1>7, <1>8, <1>9

\* An attempt goes on to another step, with no reply yet.
LEMMA RunStep ==
    ASSUME NEW r, RunShaped(r), NEW step
    PROVE  [r EXCEPT !.step = step, !.reply = None] =
               [step |-> step, tab |-> r.tab, kind |-> r.kind, reply |-> None, got |-> r.got,
                aborted |-> r.aborted]
<1> DEFINE s == [r EXCEPT !.step = step]
<1>1. s = [step |-> step, tab |-> r.tab, kind |-> r.kind, reply |-> r.reply, got |-> r.got,
           aborted |-> r.aborted]
  BY DEF RunShaped
<1>2. [r EXCEPT !.step = step, !.reply = None] = [s EXCEPT !.reply = None]
  OBVIOUS
<1> HIDE DEF s
<1> QED BY <1>1, <1>2

-----------------------------------------------------------------------------
(***************************************************************************)
(* The parts of a handler.                                                 *)
(***************************************************************************)
\* An early step is the next of an early step, and only an abort is sent for an
\* attempt that is over.
Ahead(w, p, step) ==
    p \in Peers =>
        /\ step \in EarlySteps => w.run[p].step \in EarlySteps
        /\ p \in Guests /\ step # "abort" =>
               w.run[p].step \notin {"none", "abort"} /\ ~w.run[p].aborted /\ step \notin HostSteps

\* An attempt that goes on is a good one.
LEMMA StepGood ==
    ASSUME NEW w, NEW c, Good(w, c), NEW p \in Peers, NEW step, Ahead(w, p, step)
    PROVE  RunGood(w, c, p, [w.run[p] EXCEPT !.step = step, !.reply = None])
<1> DEFINE r == w.run[p]
<1>1. RunGood(w, c, p, r)
  BY DEF Good
<1> HIDE DEF r
<1>2. PICK s : s = [r EXCEPT !.step = step, !.reply = None]
  OBVIOUS
<1>3. s = [step |-> step, tab |-> r.tab, kind |-> r.kind, reply |-> None, got |-> r.got,
           aborted |-> r.aborted]
  BY <1>1, <1>2, RunStep DEF RunGood
<1>4. /\ s.step = step /\ s.tab = r.tab /\ s.kind = r.kind /\ s.reply = None
      /\ s.aborted = r.aborted /\ RunShaped(s)
  BY <1>3 DEF RunShaped
<1>5. /\ step \in EarlySteps => r.step \in EarlySteps
      /\ p \in Guests /\ step # "abort" =>
             r.step \notin {"none", "abort"} /\ ~r.aborted /\ step \notin HostSteps
  BY DEF Ahead, r
<1>6. p \in Guests => GuestRunGood(w, s, p)
  BY <1>1, <1>4, <1>5 DEF RunGood, GuestRunGood, HostSteps
<1>7. RunGood(w, c, p, s)
  BY <1>1, <1>4, <1>5, <1>6, ReconnectAssumption DEF RunGood
<1> QED BY <1>2, <1>7 DEF r

\* Only the step of the attempt differs.
Advanced(w, v, p, step) ==
    /\ Keeps(w, v) /\ v.peer = w.peer /\ v.tab = w.tab
    /\ \A q \in Peers : v.run[q].step = IF q = p THEN step ELSE w.run[q].step

\* An attempt waits for something else.
LEMMA WaitingGood ==
    ASSUME NEW w, NEW c, Good(w, c), NEW p, NEW step, Ahead(w, p, step)
    PROVE  Good(Waiting(w, p, step), c) /\ Advanced(w, Waiting(w, p, step), p, step)
<1>1. PICK r : r = [w.run[p] EXCEPT !.step = step, !.reply = None]
  OBVIOUS
<1>2. p \in Peers => RunGood(w, c, p, r)
  BY <1>1, StepGood
<1>3. Waiting(w, p, step) = [w EXCEPT !.run = [w.run EXCEPT ![p] = r]]
  BY <1>1 DEF Waiting
<1> DEFINE v == [w EXCEPT !.run = [w.run EXCEPT ![p] = r]]
<1>4. /\ Good(v, c) /\ Keeps(w, v) /\ v.peer = w.peer /\ v.tab = w.tab
      /\ v.run = [w.run EXCEPT ![p] = r]
  BY <1>2, SetRun
<1> HIDE DEF v
<1>5. p \in Peers => r.step = step
  BY <1>1, RunStep DEF Good, RunGood
<1>6. Advanced(w, v, p, step)
  BY <1>4, <1>5 DEF Advanced, Good, WorldShaped
<1> QED BY <1>3, <1>4, <1>6 DEF v

\* An attempt sends a request.
LEMMA CallingGood ==
    ASSUME NEW w, NEW c, Good(w, c), NEW p, NEW step, NEW op \in ControlOps, NEW value,
           Ahead(w, p, step),
           op = "offer" => value = p,
           op = "finalize" /\ value = "reconnected" => p \in Hosts /\ w.peer[p].status \in Linked
    PROVE  LET v == Calling(w, p, step, op, value) IN Good(v, c) /\ Advanced(w, v, p, step)
<1>1. PICK u : u = Waiting(w, p, step)
  OBVIOUS
<1>2. PICK s : s = w.calls \cup {Request(op, p, value)}
  OBVIOUS
<1>3. Calling(w, p, step, op, value) = [u EXCEPT !.calls = @ \cup {Request(op, p, value)}]
  BY <1>1 DEF Calling, Waiting
<1>4. Good(u, c) /\ Advanced(w, u, p, step)
  BY <1>1, WaitingGood
<1>5. u.calls = w.calls
  BY <1>1 DEF Waiting, Good, WorldShaped
<1>6. \A q \in s : CallGood(u, q)
  <2>1. PICK q : q = Request(op, p, value)
    OBVIOUS
  <2>2. q.op = op /\ q.value = value /\ q.from = p
    BY <2>1 DEF Request
  <2>3. CallGood(u, q)
    BY <1>4, <2>2 DEF CallGood, Advanced
  <2>4. u.peer = w.peer
    BY <1>4 DEF Advanced
  <2>5. \A x \in w.calls : CallGood(u, x)
    BY <2>4 DEF Good, CallGood
  <2> QED BY <1>2, <2>1, <2>3, <2>5
<1>7. Calling(w, p, step, op, value) = [u EXCEPT !.calls = s]
  BY <1>2, <1>3, <1>5
<1> QED BY <1>4, <1>6, <1>7, SetCalls DEF Keeps, Advanced

\* An attempt that is over is a good one.
LEMMA NoRunGood ==
    ASSUME NEW w, NEW c, NEW p
    PROVE  RunGood(w, c, p, NoRun)
  BY ReconnectAssumption DEF RunGood, RunShaped, NoRun, EarlySteps, GuestRunGood, HostSteps

\* A runtime with nothing in it is a good one.
LEMMA NoRuntimeGood ==
    ASSUME NEW w, NEW c, NEW t, NEW x
    PROVE  LET r == [NoRuntime EXCEPT !.notice = x]
           IN  TabGood(w, c, t, r) /\ r.peer = None
<1>1. PICK r : r = [NoRuntime EXCEPT !.notice = x]
  OBVIOUS
<1>2. r = [peer |-> None, session |-> FALSE, inFlight |-> FALSE, own |-> None,
           rebind |-> FALSE, bound |-> None, retry |-> None, claim |-> None,
           beat |-> "idle", notice |-> x]
  BY <1>1 DEF NoRuntime
<1>3. r.peer = None /\ r.bound = None /\ r.retry = None /\ r.beat = "idle" /\ TabShaped(r)
  BY <1>2 DEF TabShaped
<1> QED BY <1>1, <1>3 DEF TabGood

\* A peer that goes down.
LEMMA DownGood ==
    ASSUME NEW r, PeerShaped(r)
    PROVE  LET d == [r EXCEPT !.status = Down(@)]
           IN  /\ PeerShaped(d)
               /\ r.status \in Linked <=> d.status \in Linked
               /\ r.status \in {"new", "failed"} => d.status \in {"new", "failed"}
  BY DEF PeerShaped, Linked, Down

\* What has connected, and no other, has connected still.
SameLinks(w, v) ==
    \A p \in Peers : w.peer[p].status \in Linked <=> v.peer[p].status \in Linked

\* teardownRuntime leaves no attempt of a guest in its tab.
LEMMA TeardownGood ==
    ASSUME NEW w, NEW c, Good(w, c), NEW t
    PROVE  LET v == Teardown(w, t)
           IN  /\ Good(v, c) /\ Keeps(w, v) /\ Quiet(v, t) /\ SameLinks(w, v)
               /\ t \in Tabs => v.tab[t] = [NoRuntime EXCEPT !.notice = w.tab[t].notice]
<1> DEFINE old == w.tab[t].peer
           H == Halted(w, t)
           halted == [p \in Peers |->
                         IF p \notin H THEN w.run[p]
                         ELSE IF w.run[p].step \in IceSteps
                              THEN [w.run[p] EXCEPT !.aborted = TRUE] ELSE NoRun]
           down == [p \in Peers |->
                       IF p = old THEN [w.peer[p] EXCEPT !.status = Down(@)] ELSE w.peer[p]]
           empty == [NoRuntime EXCEPT !.notice = w.tab[t].notice]
           clear == [w.tab EXCEPT ![t] = empty]
           v == Teardown(w, t)
<1>1. v = [calls |-> w.calls, tab |-> clear, run |-> halted, peer |-> down, saved |-> w.saved]
  <2>1. v = [w EXCEPT !.run = halted, !.peer = down, !.tab[t] = empty]
    BY DEF Teardown
  <2>2. PICK f, g, e : f = halted /\ g = down /\ e = empty
    OBVIOUS
  <2> HIDE DEF halted, down, empty, v
  <2>3. WorldShaped(w)
    BY DEF Good
  <2>4. PICK u : u = [w EXCEPT !.run = f]
    OBVIOUS
  <2>5. u = [calls |-> w.calls, tab |-> w.tab, run |-> f, peer |-> w.peer, saved |-> w.saved]
    BY <2>3, <2>4 DEF WorldShaped
  <2>6. PICK x : x = [u EXCEPT !.peer = g]
    OBVIOUS
  <2>7. x = [calls |-> w.calls, tab |-> w.tab, run |-> f, peer |-> g, saved |-> w.saved]
    BY <2>5, <2>6
  <2>8. [x EXCEPT !.tab[t] = e] = [x EXCEPT !.tab = [x.tab EXCEPT ![t] = e]]
    OBVIOUS
  <2>9. PICK z : z = [x.tab EXCEPT ![t] = e]
    OBVIOUS
  <2>10. [x EXCEPT !.tab = z] =
             [calls |-> w.calls, tab |-> z, run |-> f, peer |-> g, saved |-> w.saved]
    BY <2>7
  <2>11. z = clear
    BY <2>2, <2>7, <2>9
  <2>12. [w EXCEPT !.run = f, !.peer = g, !.tab[t] = e] =
             [[[w EXCEPT !.run = f] EXCEPT !.peer = g] EXCEPT !.tab[t] = e]
    OBVIOUS
  <2> QED BY <2>1, <2>2, <2>4, <2>6, <2>8, <2>9, <2>10, <2>11, <2>12
<1>2. \A u \in Tabs : clear[u] = IF u = t THEN empty ELSE w.tab[u]
  BY DEF Good, WorldShaped
<1>3. clear = [u \in Tabs |-> clear[u]]
  BY DEF Good, WorldShaped
<1>4. WorldShaped(v)
  BY <1>1, <1>3 DEF Good, WorldShaped
<1>5. \A p \in Peers :
          /\ PeerShaped(down[p])
          /\ w.peer[p].status \in Linked <=> down[p].status \in Linked
          /\ w.peer[p].status \in {"new", "failed"} => down[p].status \in {"new", "failed"}
  BY DownGood DEF Good
<1>6. ASSUME NEW p \in Peers
      PROVE  /\ RunShaped(halted[p])
             /\ \/ halted[p] = w.run[p] /\ p \notin H
                \/ halted[p] = NoRun
                \/ /\ halted[p].step = w.run[p].step /\ halted[p].tab = w.run[p].tab
                   /\ halted[p].kind = w.run[p].kind /\ halted[p].reply = w.run[p].reply
                   /\ halted[p].aborted /\ w.run[p].step \in IceSteps
  <2>1. RunShaped(w.run[p])
    BY DEF Good, RunGood
  <2>2. CASE p \in H /\ w.run[p].step \in IceSteps
    <3>1. PICK r : r = w.run[p]
      OBVIOUS
    <3>2. PICK z : z = [r EXCEPT !.aborted = TRUE]
      OBVIOUS
    <3>3. z = [step |-> r.step, tab |-> r.tab, kind |-> r.kind, reply |-> r.reply,
               got |-> r.got, aborted |-> TRUE]
      BY <2>1, <3>1, <3>2 DEF RunShaped
    <3>4. halted[p] = z
      BY <2>2, <3>1, <3>2
    <3> HIDE DEF halted
    <3>5. z.aborted = TRUE
      BY <3>3
    <3> QED BY <2>2, <3>1, <3>3, <3>4, <3>5 DEF RunShaped
  <2>3. CASE ~(p \in H /\ w.run[p].step \in IceSteps)
    BY <2>1, <2>3 DEF RunShaped, NoRun
  <2> QED BY <2>2, <2>3
<1>7. t \in GuestTabs /\ old \in Peers => old \in H
  BY RulesAssumption DEF Halted, Peers, Instances
<1> HIDE DEF H, halted, down, empty, clear, v
<1>8. ASSUME NEW u \in Tabs PROVE TabGood(v, c, u, v.tab[u])
  <2>1. CASE u = t
    <3>1. v.tab[u] = empty
      BY <1>1, <1>2, <2>1
    <3>2. TabGood(v, c, t, empty)
      BY NoRuntimeGood, Zenon DEF empty
    <3> QED BY <2>1, <3>1, <3>2
  <2>2. CASE u # t
    BY <1>1, <1>2, <1>5, <2>2 DEF Good, TabGood
  <2> QED BY <2>1, <2>2
<1>9. ASSUME NEW p \in Peers PROVE RunGood(v, c, p, v.run[p])
  <2>1. RunGood(w, c, p, w.run[p])
    BY DEF Good
  <2>2. CASE halted[p] = w.run[p] /\ p \notin H
    <3>1. p \in Guests => GuestRunGood(v, w.run[p], p)
      BY <1>1, <1>2, <1>7, <2>1, <2>2 DEF RunGood, GuestRunGood, Tabs, old
    <3> QED BY <1>1, <1>5, <2>1, <2>2, <3>1 DEF RunGood
  <2>3. CASE halted[p] = NoRun
    BY <1>1, <2>3, NoRunGood
  <2>4. CASE /\ halted[p].step = w.run[p].step /\ halted[p].tab = w.run[p].tab
             /\ halted[p].kind = w.run[p].kind /\ halted[p].reply = w.run[p].reply
             /\ halted[p].aborted /\ w.run[p].step \in IceSteps
    <3>1. p \in Guests => GuestRunGood(v, halted[p], p)
      BY <2>1, <2>4 DEF RunGood, GuestRunGood
    <3> QED BY <1>1, <1>5, <1>6, <2>1, <2>4, <3>1 DEF RunGood
  <2> QED BY <1>6, <2>2, <2>3, <2>4
<1>10. Good(v, c) /\ Keeps(w, v) /\ SameLinks(w, v)
  <2>1. \A p \in Peers : w.peer[p].status \in Linked <=> v.peer[p].status \in Linked
    BY <1>1, <1>5
  <2>2. RecordGood(v, c) /\ \A q \in v.calls : CallGood(v, q)
    BY <1>1, <2>1 DEF Good, RecordGood, AttemptGood, CallGood, Peers, Instances
  <2> QED BY <1>1, <1>4, <1>5, <1>8, <1>9, <2>1, <2>2 DEF Good, Keeps, SameLinks
<1>11. Quiet(v, t)
  <2> SUFFICES ASSUME NEW p \in Guests, halted[p].tab = t,
                      halted[p].step \notin {"none", "abort"}, ~halted[p].aborted
               PROVE  FALSE
    BY <1>1 DEF Quiet
  <2>1. p \in Peers /\ RunGood(w, c, p, w.run[p])
    BY DEF Good, Peers, Instances
  <2>2. halted[p] = w.run[p] /\ p \notin H
    BY <1>6, <2>1 DEF NoRun
  <2>3. t \in GuestTabs /\ old = p
    BY <2>1, <2>2 DEF RunGood, GuestRunGood, old
  <2> QED BY <1>7, <2>1, <2>2, <2>3
<1> QED BY <1>1, <1>2, <1>10, <1>11 DEF v, empty

\* Keeping the records of the players is transitive.
LEMMA KeepsTwice ==
    ASSUME NEW u, NEW v, NEW w, Keeps(u, v), Keeps(v, w)
    PROVE  Keeps(u, w)
  BY DEF Keeps

\* A record is stored.
LEMMA StoreGood ==
    ASSUME NEW w, NEW c, Good(w, c), NEW role
    PROVE  LET v == [w EXCEPT !.saved[role] = TRUE]
           IN  /\ Good(v, c) /\ Keeps(w, v) /\ v.run = w.run /\ v.tab = w.tab
               /\ v.peer = w.peer
<1>1. PICK s : s = [w.saved EXCEPT ![role] = TRUE]
  OBVIOUS
<1>2. [w EXCEPT !.saved[role] = TRUE] = [w EXCEPT !.saved = s]
  BY <1>1
<1>3. s = [r \in Roles |-> s[r]] /\ \A r \in Roles : w.saved[r] => s[r]
  BY <1>1 DEF Good, WorldShaped
<1> QED BY <1>2, <1>3, SetSaved DEF Keeps

\* persistCurrentHostRecoveryRecord.
LEMMA PersistedGood ==
    ASSUME NEW w, NEW c, Good(w, c), NEW t
    PROVE  LET v == Persisted(w, t)
           IN  /\ Good(v, c) /\ Keeps(w, v) /\ v.run = w.run /\ v.tab = w.tab
               /\ v.peer = w.peer
  BY StoreGood DEF Persisted, Keeps

\* A new attempt is of a peer that has not connected, in a tab that has this peer.
LEMMA BeginGood ==
    ASSUME NEW w, NEW c, Good(w, c), NEW t, NEW n \in Peers, NEW kind,
           w.peer[n].status \notin Linked,
           kind = "retry" => t \in HostTabs,
           n \in Guests => t \in GuestTabs /\ w.tab[t].peer = n
    PROVE  LET v == Begin(w, t, n, kind) IN Good(v, c) /\ Keeps(w, v)
<1>1. PICK r : r = [w.peer[n] EXCEPT !.status = "new"]
  OBVIOUS
<1>2. PICK a : a = Attempt(t, kind)
  OBVIOUS
<1>3. PICK x : x = [w EXCEPT !.peer = [w.peer EXCEPT ![n] = r]]
  OBVIOUS
<1>4. PICK y : y = [x EXCEPT !.run = [x.run EXCEPT ![n] = a]]
  OBVIOUS
<1>5. PICK z : z = [y EXCEPT !.saved[PlayerOf(t)] = TRUE]
  OBVIOUS
<1>6. z = [w EXCEPT !.peer[n].status = "new", !.run[n] = a, !.saved[PlayerOf(t)] = TRUE]
  <2>1. x = [w EXCEPT !.peer[n].status = "new"]
    BY <1>1, <1>3
  <2>2. y = [x EXCEPT !.run[n] = a]
    BY <1>4
  <2>3. [w EXCEPT !.peer[n].status = "new", !.run[n] = a, !.saved[PlayerOf(t)] = TRUE] =
            [[[w EXCEPT !.peer[n].status = "new"] EXCEPT !.run[n] = a]
                EXCEPT !.saved[PlayerOf(t)] = TRUE]
    OBVIOUS
  <2> QED BY <1>5, <2>1, <2>2, <2>3
<1>7. Begin(w, t, n, kind) = Calling(z, n, "claim", "claim", None)
  BY <1>2, <1>6 DEF Begin
<1>8. r.status = "new" /\ PeerShaped(r)
  <2>1. PICK o : o = w.peer[n]
    OBVIOUS
  <2>2. PeerShaped(o)
    BY <2>1 DEF Good
  <2>3. r = [status |-> "new", other |-> o.other]
    BY <1>1, <2>1, <2>2 DEF PeerShaped
  <2> QED BY <2>3 DEF PeerShaped
<1>9. /\ Good(x, c) /\ Keeps(w, x) /\ x.run = w.run /\ x.tab = w.tab
      /\ x.peer = [w.peer EXCEPT ![n] = r]
  BY <1>3, <1>8, SetPeer
<1>10. x.peer[n].status = "new"
  BY <1>8, <1>9 DEF Good, WorldShaped
<1>11. a = [step |-> "claim", tab |-> t, kind |-> kind, reply |-> None, got |-> None,
            aborted |-> FALSE]
  <2>1. PICK a1 : a1 = [NoRun EXCEPT !.step = "claim"]
    OBVIOUS
  <2>2. PICK a2 : a2 = [a1 EXCEPT !.tab = t]
    OBVIOUS
  <2>3. a = [a2 EXCEPT !.kind = kind]
    BY <1>2, <2>1, <2>2 DEF Attempt
  <2>4. a1 = [step |-> "claim", tab |-> None, kind |-> None, reply |-> None, got |-> None,
              aborted |-> FALSE]
    BY <2>1 DEF NoRun
  <2>5. a2 = [step |-> "claim", tab |-> t, kind |-> None, reply |-> None, got |-> None,
              aborted |-> FALSE]
    BY <2>2, <2>4
  <2> QED BY <2>3, <2>5
<1>12. RunGood(x, c, n, a)
  BY <1>9, <1>10, <1>11, ReconnectAssumption DEF RunGood, RunShaped, GuestRunGood, HostSteps
<1>13. Good(y, c) /\ Keeps(x, y) /\ y.run = [x.run EXCEPT ![n] = a]
  <2> DEFINE v == [x EXCEPT !.run = [x.run EXCEPT ![n] = a]]
  <2>1. Good(v, c) /\ Keeps(x, v) /\ v.run = [x.run EXCEPT ![n] = a]
    BY <1>9, <1>12, SetRun
  <2> QED BY <1>4, <2>1
<1>14. Good(z, c) /\ Keeps(y, z) /\ z.run = y.run
  BY <1>5, <1>13, StoreGood
<1>15. z.run[n].step = "claim" /\ ~z.run[n].aborted
  BY <1>9, <1>11, <1>13, <1>14 DEF Good, WorldShaped
<1>16. Ahead(z, n, "claim")
  BY <1>15 DEF Ahead, EarlySteps, HostSteps
<1>17. Good(Calling(z, n, "claim", "claim", None), c)
       /\ Keeps(z, Calling(z, n, "claim", "claim", None))
  BY <1>14, <1>16, CallingGood DEF ControlOps, Advanced
<1> QED BY <1>7, <1>9, <1>13, <1>14, <1>17, KeepsTwice

\* No peer has connected on the way to w.
NoneRaised(w) == \A p \in Peers : w.peer[p].status \in Linked => peer[p].status \in Linked

\* A peer that nobody has used yet.
LEMMA FreshGood ==
    ASSUME NEW role, Spare(role), NEW w, NoneRaised(w)
    PROVE  /\ Fresh(role) \in Peers /\ RoleOf(Fresh(role)) = role
           /\ w.peer[Fresh(role)].status \notin Linked
<1>1. Fresh(role) \in Peers /\ RoleOf(Fresh(role)) = role /\ peer[Fresh(role)].status = "unused"
  BY DEF Spare, Fresh
<1> QED BY <1>1 DEF NoneRaised, Linked

\* The peer of a tab without an attempt is another now.
LEMMA SetTabPeer ==
    ASSUME NEW w, NEW c, Good(w, c), NEW t \in Tabs, NEW n, Quiet(w, t),
           w.tab[t].bound = None
    PROVE  LET v == [w EXCEPT !.tab[t].peer = n]
           IN  /\ Good(v, c) /\ Keeps(w, v) /\ v.run = w.run /\ v.peer = w.peer
               /\ v.tab[t].peer = n
<1>1. PICK old : old = w.tab[t]
  OBVIOUS
<1>2. PICK r : r = [old EXCEPT !.peer = n]
  OBVIOUS
<1>3. TabGood(w, c, t, old)
  BY <1>1 DEF Good
<1>4. r.peer = n /\ TabGood(w, c, t, r)
  BY <1>1, <1>2, <1>3 DEF TabGood, TabShaped
<1> DEFINE v == [w EXCEPT !.tab = [w.tab EXCEPT ![t] = r]]
<1>5. /\ Good(v, c) /\ Keeps(w, v) /\ v.run = w.run /\ v.peer = w.peer
      /\ v.tab = [w.tab EXCEPT ![t] = r]
  <2>1. t \in Tabs => TabGood(w, c, t, r) /\ (r.peer = w.tab[t].peer \/ Quiet(w, t))
    BY <1>4
  <2>2. Good(v, c)
    BY <2>1, SetTab
  <2>3. Keeps(w, v)
    BY <2>1, SetTab
  <2> QED BY <2>2, <2>3 DEF Good, WorldShaped
<1>6. [w EXCEPT !.tab[t].peer = n] = v
  BY <1>1, <1>2
<1> HIDE DEF v
<1>7. v.tab[t].peer = n
  BY <1>4, <1>5 DEF Good, WorldShaped
<1> QED BY <1>5, <1>6, <1>7

\* A tab is bound no longer.
LEMMA SetUnbound ==
    ASSUME NEW w, NEW c, Good(w, c), NEW t \in Tabs
    PROVE  LET v == [w EXCEPT !.tab[t].bound = None]
           IN  /\ Good(v, c) /\ Keeps(w, v) /\ v.run = w.run /\ v.peer = w.peer
               /\ v.tab[t].bound = None
<1>1. PICK old : old = w.tab[t]
  OBVIOUS
<1>2. PICK r : r = [old EXCEPT !.bound = None]
  OBVIOUS
<1>3. TabGood(w, c, t, old)
  BY <1>1 DEF Good
<1>4. r.peer = old.peer /\ r.bound = None /\ TabGood(w, c, t, r)
  BY <1>2, <1>3 DEF TabGood, TabShaped
<1> DEFINE v == [w EXCEPT !.tab = [w.tab EXCEPT ![t] = r]]
<1>5. /\ Good(v, c) /\ Keeps(w, v) /\ v.run = w.run /\ v.peer = w.peer
      /\ v.tab = [w.tab EXCEPT ![t] = r]
  BY <1>1, <1>4, SetTab
<1>6. [w EXCEPT !.tab[t].bound = None] = v
  BY <1>1, <1>2
<1> HIDE DEF v
<1>7. v.tab[t].bound = None
  BY <1>4, <1>5 DEF Good, WorldShaped
<1> QED BY <1>5, <1>6, <1>7

\* reconnect(roomCode).
LEMMA ReconnectGood ==
    ASSUME NEW w, NEW c, Good(w, c), NoneRaised(w), NEW t \in Tabs, Spare(PlayerOf(t))
    PROVE  Good(Reconnect(w, t), c) /\ Keeps(w, Reconnect(w, t))
<1>1. PICK n : n = Fresh(PlayerOf(t))
  OBVIOUS
<1>2. n \in Peers /\ RoleOf(n) = PlayerOf(t)
  BY <1>1, FreshGood
<1>3. PICK x : x = Teardown(w, t)
  OBVIOUS
<1>4. Good(x, c) /\ Keeps(w, x) /\ Quiet(x, t) /\ SameLinks(w, x)
  BY <1>3, TeardownGood
<1>5. PICK host : host = (t \in HostTabs)
  OBVIOUS
<1>6. PICK r : r = [NoRuntime EXCEPT !.peer = n, !.session = host, !.inFlight = TRUE,
                                     !.rebind = host, !.own = IF host THEN n ELSE None]
  OBVIOUS
<1>7. r = [peer |-> n, session |-> host, inFlight |-> TRUE,
           own |-> IF host THEN n ELSE None, rebind |-> host, bound |-> None,
           retry |-> None, claim |-> None, beat |-> "idle", notice |-> None]
  BY <1>6 DEF NoRuntime
<1>8. TabGood(x, c, t, r) /\ r.peer = n
  BY <1>7 DEF TabGood, TabShaped
<1> DEFINE y == [x EXCEPT !.tab = [x.tab EXCEPT ![t] = r]]
<1>9. Good(y, c) /\ Keeps(x, y) /\ y.peer = x.peer /\ y.tab = [x.tab EXCEPT ![t] = r]
  <2>1. t \in Tabs => TabGood(x, c, t, r) /\ (r.peer = x.tab[t].peer \/ Quiet(x, t))
    BY <1>4, <1>8
  <2>2. Good(y, c)
    BY <1>4, <2>1, SetTab
  <2>3. Keeps(x, y)
    BY <1>4, <2>1, SetTab
  <2> QED BY <1>4, <2>2, <2>3 DEF Good, WorldShaped
<1>10. Reconnect(w, t) = Begin([x EXCEPT !.tab[t] = r], t, n, "restore")
  BY <1>1, <1>3, <1>5, <1>6 DEF Reconnect
<1>11. [x EXCEPT !.tab[t] = r] = y
  OBVIOUS
<1> HIDE DEF y
<1>12. y.peer[n].status \notin Linked
  BY <1>1, <1>2, <1>4, <1>9, FreshGood DEF SameLinks
<1>13. n \in Guests => t \in GuestTabs /\ y.tab[t].peer = n
  BY <1>2, <1>8, <1>9, RulesAssumption DEF Good, WorldShaped, RoleOf, PlayerOf, Tabs
<1>14. Good(Begin(y, t, n, "restore"), c) /\ Keeps(y, Begin(y, t, n, "restore"))
  BY <1>2, <1>9, <1>12, <1>13, BeginGood
<1> QED BY <1>4, <1>9, <1>10, <1>11, <1>14, KeepsTwice

\* handlePeerClosed of the host.
LEMMA HandlePeerClosedGood ==
    ASSUME NEW w, NEW c, Good(w, c), NoneRaised(w), NEW t \in HostTabs, Spare("host")
    PROVE  Good(HandlePeerClosed(w, t), c) /\ Keeps(w, HandlePeerClosed(w, t))
<1>1. PICK n : n = Fresh("host")
  OBVIOUS
<1>2. n \in Peers /\ RoleOf(n) = "host" /\ w.peer[n].status \notin Linked
  BY <1>1, FreshGood
<1>3. PICK o : o = w.tab[t].peer
  OBVIOUS
<1>4. PICK d : d = [w.peer[o] EXCEPT !.status = Down(@)]
  OBVIOUS
<1> DEFINE x0 == [w EXCEPT !.peer = [w.peer EXCEPT ![o] = d]]
<1>5. PICK x : x = x0
  OBVIOUS
<1>6. Good(x, c) /\ Keeps(w, x) /\ x.peer = [w.peer EXCEPT ![o] = d] /\ x.run = w.run
  <2>1. o \in Peers => /\ PeerShaped(d)
                       /\ w.peer[o].status \in Linked => d.status \in Linked
                       /\ w.run[o].step \in EarlySteps => d.status \in {"new", "failed"}
    BY <1>4, DownGood DEF Good, RunGood
  <2>2. Good(x0, c) /\ Keeps(w, x0) /\ x0.peer = [w.peer EXCEPT ![o] = d] /\ x0.run = w.run
    BY <2>1, SetPeer
  <2> QED BY <1>5, <2>2
<1>7. x.peer[n].status \notin Linked
  <2>1. o \in Peers /\ d.status \in Linked => w.peer[o].status \in Linked
    BY <1>4, DownGood DEF Good
  <2> QED BY <1>2, <1>6, <2>1 DEF Good, WorldShaped
<1>8. PICK y1 : y1 = [x EXCEPT !.tab[t].bound = None]
  OBVIOUS
<1>9. PICK y2 : y2 = [y1 EXCEPT !.tab[t].peer = n]
  OBVIOUS
<1>10. PICK y3 : y3 = [y2 EXCEPT !.tab[t].own = n]
  OBVIOUS
<1>11. PICK y4 : y4 = [y3 EXCEPT !.tab[t].inFlight = TRUE]
  OBVIOUS
<1>12. PICK y5 : y5 = [y4 EXCEPT !.tab[t].rebind = TRUE]
  OBVIOUS
<1>13. PICK y6 : y6 = [y5 EXCEPT !.tab[t].retry = None]
  OBVIOUS
<1>14. HandlePeerClosed(w, t) = Begin(y6, t, n, "retry")
  <2>1. x = [w EXCEPT !.peer[o].status = Down(@)]
    BY <1>4, <1>5
  <2>2. [w EXCEPT !.peer[o].status = Down(@), !.tab[t].bound = None, !.tab[t].peer = n,
                  !.tab[t].own = n, !.tab[t].inFlight = TRUE, !.tab[t].rebind = TRUE,
                  !.tab[t].retry = None] = y6
    BY <2>1, <1>8, <1>9, <1>10, <1>11, <1>12, <1>13
  <2> QED BY <1>1, <1>3, <2>2 DEF HandlePeerClosed
<1>15. t \in Tabs
  BY DEF Tabs
<1>16. Good(y1, c) /\ Keeps(x, y1) /\ y1.peer = x.peer /\ y1.tab[t].bound = None
  BY <1>6, <1>8, <1>15, SetUnbound
<1>17. Quiet(y1, t)
  BY <1>16, HostTabsQuiet
<1>18. Good(y2, c) /\ Keeps(y1, y2) /\ y2.peer = x.peer
  BY <1>9, <1>15, <1>16, <1>17, SetTabPeer
<1>19. Good(y3, c) /\ Keeps(y2, y3) /\ y3.peer = x.peer
  <2>1. LET v == [y2 EXCEPT !.tab[t].own = n] IN Good(v, c) /\ SameButTabs(y2, v)
    BY <1>18, SetField, Zenon
  <2> QED BY <1>10, <1>18, <2>1 DEF SameButTabs
<1>20. Good(y4, c) /\ Keeps(y3, y4) /\ y4.peer = x.peer
  <2>1. LET v == [y3 EXCEPT !.tab[t].inFlight = TRUE] IN Good(v, c) /\ SameButTabs(y3, v)
    BY <1>19, SetField, Zenon
  <2> QED BY <1>11, <1>19, <2>1 DEF SameButTabs
<1>21. Good(y5, c) /\ Keeps(y4, y5) /\ y5.peer = x.peer
  <2>1. LET v == [y4 EXCEPT !.tab[t].rebind = TRUE] IN Good(v, c) /\ SameButTabs(y4, v)
    BY <1>20, SetField, Zenon
  <2> QED BY <1>12, <1>20, <2>1 DEF SameButTabs
<1>22. Good(y6, c) /\ Keeps(y5, y6) /\ y6.peer = x.peer
  <2>1. LET v == [y5 EXCEPT !.tab[t].retry = None] IN Good(v, c) /\ SameButTabs(y5, v)
    BY <1>21, SetField, Zenon
  <2> QED BY <1>13, <1>21, <2>1 DEF SameButTabs
<1>23. n \notin Guests
  BY <1>2, RulesAssumption DEF RoleOf
<1>24. Good(Begin(y6, t, n, "retry"), c) /\ Keeps(y6, Begin(y6, t, n, "retry"))
  BY <1>2, <1>7, <1>22, <1>23, BeginGood
<1> QED BY <1>6, <1>14, <1>16, <1>18, <1>19, <1>20, <1>21, <1>22, <1>24 DEF Keeps

\* The flags of a runtime are reset.
LEMMA ResetGood ==
    ASSUME NEW w, NEW c, Good(w, c), NEW t
    PROVE  LET v == [w EXCEPT !.tab[t].inFlight = FALSE, !.tab[t].own = None]
           IN  Good(v, c) /\ SameButTabs(w, v)
<1>1. PICK x : x = [w EXCEPT !.tab[t].inFlight = FALSE]
  OBVIOUS
<1>2. PICK y : y = [x EXCEPT !.tab[t].own = None]
  OBVIOUS
<1>3. [w EXCEPT !.tab[t].inFlight = FALSE, !.tab[t].own = None] = y
  BY <1>1, <1>2
<1>4. Good(x, c) /\ SameButTabs(w, x)
  <2>1. LET v == [w EXCEPT !.tab[t].inFlight = FALSE] IN Good(v, c) /\ SameButTabs(w, v)
    BY SetField, Zenon
  <2> QED BY <1>1, <2>1
<1>5. Good(y, c) /\ SameButTabs(x, y)
  <2>1. LET v == [x EXCEPT !.tab[t].own = None] IN Good(v, c) /\ SameButTabs(x, v)
    BY <1>4, SetField, Zenon
  <2> QED BY <1>2, <2>1
<1>6. SameButTabs(w, y)
  BY <1>4, <1>5 DEF SameButTabs, Keeps
<1> QED BY <1>3, <1>5, <1>6

\* An attempt is over.
LEMMA OverGood ==
    ASSUME NEW w, NEW c, Good(w, c), NEW p
    PROVE  LET v == [w EXCEPT !.run[p] = NoRun]
           IN  Good(v, c) /\ Keeps(w, v) /\ v.tab = w.tab /\ v.peer = w.peer
<1>1. PICK r : r = NoRun
  OBVIOUS
<1>2. p \in Peers => RunGood(w, c, p, r)
  BY <1>1, NoRunGood
<1> DEFINE v == [w EXCEPT !.run = [w.run EXCEPT ![p] = r]]
<1>3. Good(v, c) /\ Keeps(w, v) /\ v.tab = w.tab /\ v.peer = w.peer
  BY <1>2, SetRun
<1>4. [w EXCEPT !.run[p] = NoRun] = v
  BY <1>1
<1> QED BY <1>3, <1>4

\* The "finally" of an attempt.
LEMMA FinallyGood ==
    ASSUME NEW w, NEW c, Good(w, c), NEW p
    PROVE  Good(Finally(w, p), c) /\ Keeps(w, Finally(w, p))
<1>1. PICK t : t = w.run[p].tab
  OBVIOUS
<1>2. PICK x : x = [w EXCEPT !.run[p] = NoRun]
  OBVIOUS
<1>3. PICK y : y = [x EXCEPT !.tab[t].inFlight = FALSE, !.tab[t].own = None]
  OBVIOUS
<1>4. Finally(w, p) \in {x, y}
  BY <1>1, <1>2, <1>3 DEF Finally
<1>5. Good(x, c) /\ Keeps(w, x)
  BY <1>2, OverGood
<1>6. Good(y, c) /\ SameButTabs(x, y)
  BY <1>3, <1>5, ResetGood
<1> QED BY <1>4, <1>5, <1>6 DEF SameButTabs, Keeps

\* The attempt failed.
LEMMA FailGood ==
    ASSUME NEW w, NEW c, Good(w, c), NEW p \in Peers
    PROVE  Good(Fail(w, p), c) /\ Keeps(w, Fail(w, p))
<1>1. PICK t : t = w.run[p].tab
  OBVIOUS
<1>2. CASE w.run[p].kind = "retry"
  <2>1. PICK x : x = [w EXCEPT !.tab[t].retry = p]
    OBVIOUS
  <2>2. t \in HostTabs
    BY <1>1, <1>2 DEF Good, RunGood
  <2>3. Good(x, c) /\ SameButTabs(w, x)
    <3>1. LET v == [w EXCEPT !.tab[t].retry = p] IN Good(v, c) /\ SameButTabs(w, v)
      BY <2>2, SetField, Zenon
    <3> QED BY <2>1, <3>1
  <2>4. PICK y : y = Persisted(x, t)
    OBVIOUS
  <2>5. Good(y, c) /\ Keeps(x, y)
    BY <2>3, <2>4, PersistedGood
  <2>6. Fail(w, p) = Finally(y, p)
    BY <1>1, <1>2, <2>1, <2>4 DEF Fail
  <2>7. Good(Finally(y, p), c) /\ Keeps(y, Finally(y, p))
    BY <2>5, FinallyGood
  <2> QED BY <2>3, <2>5, <2>6, <2>7 DEF SameButTabs, Keeps
<1>3. CASE w.run[p].kind # "retry" /\ ~Active(w, t, p)
  <2>1. Fail(w, p) = Finally(w, p)
    BY <1>1, <1>3 DEF Fail
  <2> QED BY <2>1, FinallyGood
<1>4. CASE w.run[p].kind # "retry" /\ Active(w, t, p)
  <2>1. PICK x : x = Finally(w, p)
    OBVIOUS
  <2>2. Good(x, c) /\ Keeps(w, x)
    BY <2>1, FinallyGood
  <2>3. PICK y : y = [x EXCEPT !.tab[t].notice = "failed"]
    OBVIOUS
  <2>4. Good(y, c) /\ SameButTabs(x, y)
    <3>1. LET v == [x EXCEPT !.tab[t].notice = "failed"] IN Good(v, c) /\ SameButTabs(x, v)
      BY <2>2, SetField, Zenon
    <3> QED BY <2>3, <3>1
  <2>5. PICK z : z = Teardown(y, t)
    OBVIOUS
  <2>6. Good(z, c) /\ Keeps(y, z)
    BY <2>4, <2>5, TeardownGood
  <2>7. Fail(w, p) = z
    BY <1>1, <1>4, <2>1, <2>3, <2>5 DEF Fail
  <2> QED BY <2>2, <2>4, <2>6, <2>7 DEF SameButTabs, Keeps
<1> QED BY <1>2, <1>3, <1>4

\* An attempt is aborted.
LEMMA AbortGood ==
    ASSUME NEW w, NEW c, Good(w, c), NEW p
    PROVE  Good(Abort(w, p), c) /\ Keeps(w, Abort(w, p))
<1>1. Ahead(w, p, "abort")
  BY DEF Ahead, EarlySteps
<1>2. "finalize" \in ControlOps
  BY DEF ControlOps
<1>3. PICK v : v = Calling(w, p, "abort", "finalize", "aborted")
  OBVIOUS
<1>4. Good(v, c) /\ Keeps(w, v)
  BY <1>1, <1>2, <1>3, CallingGood DEF Advanced
<1> QED BY <1>3, <1>4, FinallyGood DEF Abort

\* A claim is gone: the runtime is put away, and its record stays.
LEMMA DeactivatedGood ==
    ASSUME NEW w, NEW c, Good(w, c), NEW t, NEW notice
    PROVE  Good(Deactivated(w, t, notice), c) /\ Keeps(w, Deactivated(w, t, notice))
<1>1. PICK x : x = [w EXCEPT !.tab[t].claim = None]
  OBVIOUS
<1>2. PICK y : y = [x EXCEPT !.tab[t].beat = "idle"]
  OBVIOUS
<1>3. PICK z : z = [y EXCEPT !.tab[t].notice = notice]
  OBVIOUS
<1>4. [w EXCEPT !.tab[t].claim = None, !.tab[t].beat = "idle", !.tab[t].notice = notice] = z
  BY <1>1, <1>2, <1>3
<1>5. Good(x, c) /\ SameButTabs(w, x)
  <2>1. LET v == [w EXCEPT !.tab[t].claim = None] IN Good(v, c) /\ SameButTabs(w, v)
    BY SetField, Zenon
  <2> QED BY <1>1, <2>1
<1>6. Good(y, c) /\ SameButTabs(x, y)
  <2>1. ("idle" = "gone" => c = None)
    OBVIOUS
  <2>2. LET v == [x EXCEPT !.tab[t].beat = "idle"] IN Good(v, c) /\ SameButTabs(x, v)
    BY <1>5, <2>1, SetField, Zenon
  <2> QED BY <1>2, <2>2
<1>7. Good(z, c) /\ SameButTabs(y, z)
  <2>1. LET v == [y EXCEPT !.tab[t].notice = notice] IN Good(v, c) /\ SameButTabs(y, v)
    BY <1>6, SetField, Zenon
  <2> QED BY <1>3, <2>1
<1>8. Keeps(w, z)
  BY <1>5, <1>6, <1>7 DEF SameButTabs, Keeps
<1>9. PICK e : e = Teardown(z, t)
  OBVIOUS
<1>10. Good(e, c) /\ Keeps(z, e)
  BY <1>7, <1>9, TeardownGood
<1>11. Deactivated(w, t, notice) \in {z, e}
  BY <1>4, <1>9 DEF Deactivated
<1> QED BY <1>7, <1>8, <1>10, <1>11, KeepsTwice

\* The record of a control session that is gone goes.
LEMMA RecoveryUnavailableGood ==
    ASSUME NEW w, NEW c, Good(w, c), NEW t
    PROVE  Good(RecoveryUnavailable(w, t), c)
<1>1. PICK s : s = [w.saved EXCEPT ![PlayerOf(t)] = FALSE]
  OBVIOUS
<1>2. PICK x : x = [w EXCEPT !.saved = s]
  OBVIOUS
<1>3. [w EXCEPT !.saved[PlayerOf(t)] = FALSE] = x
  BY <1>1, <1>2
<1>4. s = [r \in Roles |-> s[r]]
  BY <1>1 DEF Good, WorldShaped
<1>5. Good(x, c)
  BY <1>2, <1>4, SetSaved
<1>6. Good(Deactivated(x, t, "unavailable"), c)
  BY <1>5, DeactivatedGood
<1> QED BY <1>3, <1>6 DEF RecoveryUnavailable

\* What the starter of an attempt does when its claim is gone.
LEMMA DispossessedGood ==
    ASSUME NEW w, NEW c, Good(w, c), NEW p \in Peers, NEW lost, Good(lost, c)
    PROVE  Good(Dispossessed(w, p, lost), c) /\ Keeps(lost, Dispossessed(w, p, lost))
<1>1. PICK t : t = w.run[p].tab
  OBVIOUS
<1>2. PICK x : x = [lost EXCEPT !.run[p] = NoRun]
  OBVIOUS
<1>3. Good(x, c) /\ Keeps(lost, x)
  BY <1>2, OverGood
<1>4. CASE w.run[p].kind = "retry"
  <2>1. t \in HostTabs
    BY <1>1, <1>4 DEF Good, RunGood
  <2>2. PICK y : y = [x EXCEPT !.tab[t].retry = p]
    OBVIOUS
  <2>3. Good(y, c) /\ SameButTabs(x, y)
    <3>1. LET v == [x EXCEPT !.tab[t].retry = p] IN Good(v, c) /\ SameButTabs(x, v)
      BY <1>3, <2>1, SetField, Zenon
    <3> QED BY <2>2, <3>1
  <2>4. PICK z : z = [y EXCEPT !.tab[t].inFlight = FALSE, !.tab[t].own = None]
    OBVIOUS
  <2>5. Good(z, c) /\ SameButTabs(y, z)
    BY <2>3, <2>4, ResetGood
  <2>6. [x EXCEPT !.tab[t].retry = p, !.tab[t].inFlight = FALSE, !.tab[t].own = None] = z
    BY <2>2, <2>4
  <2>7. Dispossessed(w, p, lost) = z
    BY <1>1, <1>2, <1>4, <2>6 DEF Dispossessed
  <2> QED BY <1>3, <2>3, <2>5, <2>7 DEF SameButTabs, Keeps
<1>5. CASE w.run[p].kind # "retry"
  <2>1. Dispossessed(w, p, lost) = x
    BY <1>2, <1>5 DEF Dispossessed
  <2> QED BY <1>3, <2>1
<1> QED BY <1>4, <1>5

\* The heartbeat of a claim starts.
LEMMA StartedGood ==
    ASSUME NEW w, NEW c, Good(w, c), NEW p
    PROVE  Good(Started(w, p), c) /\ SameButTabs(w, Started(w, p))
<1>1. PICK t : t = w.run[p].tab
  OBVIOUS
<1>2. PICK x : x = [w EXCEPT !.tab[t].claim = p]
  OBVIOUS
<1>3. PICK y : y = [x EXCEPT !.tab[t].beat = "idle"]
  OBVIOUS
<1>4. Started(w, p) = y
  BY <1>1, <1>2, <1>3 DEF Started
<1>5. Good(x, c) /\ SameButTabs(w, x)
  <2>1. LET v == [w EXCEPT !.tab[t].claim = p] IN Good(v, c) /\ SameButTabs(w, v)
    BY SetField, Zenon
  <2> QED BY <1>2, <2>1
<1>6. Good(y, c) /\ SameButTabs(x, y)
  <2>1. ("idle" = "gone" => c = None)
    OBVIOUS
  <2>2. LET v == [x EXCEPT !.tab[t].beat = "idle"] IN Good(v, c) /\ SameButTabs(x, v)
    BY <1>5, <2>1, SetField, Zenon
  <2> QED BY <1>3, <2>2
<1>7. SameButTabs(w, y)
  BY <1>5, <1>6 DEF SameButTabs, Keeps
<1> QED BY <1>4, <1>6, <1>7

\* An attempt goes on after a reply that says yes.
LEMMA ContinueGood ==
    ASSUME NEW w, NEW c, Good(w, c), NEW p \in Peers, w.run[p].reply # None,
           w.run[p].step # "abort"
    PROVE  Good(Continue(w, p), c) /\ Keeps(w, Continue(w, p))
<1>1. PICK step : step = w.run[p].step
  OBVIOUS
<1>2. RunGood(w, c, p, w.run[p])
  BY DEF Good
<1>3. step \in WaitSteps
  BY <1>1, <1>2 DEF RunGood
<1>4. p \in Guests => step \notin {"none", "abort"} /\ ~w.run[p].aborted /\ step \notin HostSteps
  BY <1>1, <1>2, <1>3 DEF RunGood, GuestRunGood, WaitSteps, CallSteps, Polls, IceSteps
<1>5. ASSUME NEW next, next \in EarlySteps => step \in EarlySteps,
             p \in Guests => next \notin HostSteps
      PROVE  Good(Waiting(w, p, next), c) /\ Keeps(w, Waiting(w, p, next))
  <2>1. Ahead(w, p, next)
    BY <1>1, <1>4, <1>5 DEF Ahead
  <2> QED BY <2>1, WaitingGood DEF Advanced
<1>6. CASE step = "claim"
  <2>1. PICK next \in {"create-offer", "read-offer"} :
            next = IF RoleOf(p) = "host" THEN "create-offer" ELSE "read-offer"
    OBVIOUS
  <2>2. PICK x : x = Started(w, p)
    OBVIOUS
  <2>3. Good(x, c) /\ SameButTabs(w, x)
    BY <2>2, StartedGood
  <2>4. Ahead(x, p, next)
    <3>1. p \in Guests => next \notin HostSteps
      BY <2>1, RulesAssumption DEF RoleOf, HostSteps
    <3> QED BY <1>1, <1>4, <1>6, <2>3, <3>1 DEF Ahead, EarlySteps, SameButTabs
  <2>5. Good(Waiting(x, p, next), c) /\ Keeps(x, Waiting(x, p, next))
    BY <2>3, <2>4, WaitingGood DEF Advanced
  <2>6. Continue(w, p) = Waiting(x, p, next)
    BY <1>1, <1>6, <2>1, <2>2 DEF Continue
  <2> QED BY <2>3, <2>5, <2>6 DEF SameButTabs, Keeps
<1>7. CASE step = "offer"
  <2>1. Continue(w, p) = Waiting(w, p, "read-answer")
    BY <1>1, <1>7 DEF Continue
  <2> QED BY <1>4, <1>5, <1>7, <2>1 DEF EarlySteps, HostSteps
<1>8. CASE step = "read-answer"
  <2>1. Continue(w, p) = Waiting(w, p, "apply")
    BY <1>1, <1>8 DEF Continue
  <2> QED BY <1>4, <1>5, <1>8, <2>1 DEF EarlySteps, HostSteps
<1>9. CASE step = "read-offer"
  <2>1. Continue(w, p) = Waiting(w, p, "create-answer")
    BY <1>1, <1>9 DEF Continue
  <2> QED BY <1>4, <1>5, <1>9, <2>1 DEF EarlySteps, HostSteps
<1>10. CASE step = "answer"
  <2>1. Continue(w, p) = Waiting(w, p, "read-outcome")
    BY <1>1, <1>10 DEF Continue
  <2> QED BY <1>4, <1>5, <1>10, <2>1 DEF EarlySteps, HostSteps
<1>11. CASE step \in {"finalize", "read-outcome"}
  <2>1. Continue(w, p) = Finally(w, p)
    BY <1>1, <1>11 DEF Continue
  <2> QED BY <2>1, FinallyGood
<1> QED BY <1>1, <1>3, <1>6, <1>7, <1>8, <1>9, <1>10, <1>11 DEF WaitSteps, CallSteps, Polls

\* A peer goes down.
LEMMA LoseGood ==
    ASSUME NEW w, NEW c, Good(w, c), NoneRaised(w), NEW p \in Peers,
           StartsAttempt(w, TabOf(w, p)) => Spare(PlayerOf(TabOf(w, p)))
    PROVE  Good(Lose(w, p), c) /\ Keeps(w, Lose(w, p))
<1>1. PICK t : t = TabOf(w, p)
  OBVIOUS
<1>2. t # None => t \in Tabs
  BY <1>1 DEF TabOf
<1>3. PICK d : d = [w.peer[p] EXCEPT !.status = Down(@)]
  OBVIOUS
<1>4. /\ PeerShaped(d)
      /\ w.peer[p].status \in Linked <=> d.status \in Linked
      /\ w.run[p].step \in EarlySteps => d.status \in {"new", "failed"}
  BY <1>3, DownGood DEF Good, RunGood
<1> DEFINE x0 == [w EXCEPT !.peer = [w.peer EXCEPT ![p] = d]]
<1>5. Good(x0, c) /\ Keeps(w, x0) /\ x0.peer = [w.peer EXCEPT ![p] = d]
  BY <1>4, SetPeer
<1>6. PICK x : x = [w EXCEPT !.peer[p].status = Down(@)]
  OBVIOUS
<1>7. x = x0
  BY <1>3, <1>6
<1> HIDE DEF x0
<1>8. NoneRaised(x)
  BY <1>4, <1>5, <1>7 DEF NoneRaised, Good, WorldShaped
<1>9. PICK y : y = IF StartsAttempt(w, t)
                   THEN IF t \in HostTabs THEN HandlePeerClosed(x, t) ELSE Reconnect(x, t)
                   ELSE IF t # None THEN Persisted(x, t) ELSE x
  OBVIOUS
<1>10. Good(y, c) /\ Keeps(x, y)
  <2>1. CASE StartsAttempt(w, t)
    <3>1. t \in Tabs /\ Spare(PlayerOf(t))
      BY <1>1, <1>2, <2>1 DEF StartsAttempt
    <3>2. CASE t \in HostTabs
      BY <1>5, <1>7, <1>8, <1>9, <2>1, <3>1, <3>2, HandlePeerClosedGood DEF PlayerOf
    <3>3. CASE t \notin HostTabs
      BY <1>5, <1>7, <1>8, <1>9, <2>1, <3>1, <3>3, ReconnectGood
    <3> QED BY <3>2, <3>3
  <2>2. CASE ~StartsAttempt(w, t) /\ t # None
    BY <1>5, <1>7, <1>9, <2>2, PersistedGood
  <2>3. CASE ~StartsAttempt(w, t) /\ t = None
    BY <1>5, <1>7, <1>9, <2>3 DEF Keeps
  <2> QED BY <2>1, <2>2, <2>3
<1>11. Lose(w, p) = IF y.run[p].step = "connect" THEN Abort(y, p) ELSE y
  BY <1>1, <1>6, <1>9 DEF Lose
<1>12. Good(Abort(y, p), c) /\ Keeps(y, Abort(y, p))
  BY <1>10, AbortGood
<1> QED BY <1>5, <1>7, <1>10, <1>11, <1>12 DEF Keeps

-----------------------------------------------------------------------------
(***************************************************************************)
(* The steps.                                                              *)
(***************************************************************************)
IInv == Good(Now, control)

\* No record goes in the step.
Kept == \A r \in Roles : saved[r] => saved'[r]

\* The parts of the world of the clients.
LEMMA NowParts ==
    /\ Now.calls = calls /\ Now.tab = tab /\ Now.run = run /\ Now.peer = peer
    /\ Now.saved = saved
  BY DEF Now

\* A handler that leads to a good world is a good step.
LEMMA BecomeGood ==
    ASSUME NEW CONSTANT w, NEW CONSTANT c, Good(w, c), Become(w), control' = c
    PROVE  IInv' /\ (Keeps(Now, w) => Kept)
<1>1. w = [calls |-> calls', tab |-> tab', run |-> run', peer |-> peer', saved |-> saved']
  BY DEF Good, WorldShaped, Become
<1>2. w = Now'
  BY <1>1 DEF Now
<1>3. Good(Now', control')
  BY <1>2
<1>4. IInv'
  BY <1>3 DEF IInv
<1>5. Keeps(Now, w) => Kept
  BY NowParts DEF Keeps, Kept, Become
<1> QED BY <1>4, <1>5

\* Only whether the service has the record matters.
LEMMA RecordMatters ==
    ASSUME NEW w, NEW c, NEW d, Good(w, c), c = None => d = None, RecordGood(w, d)
    PROVE  Good(w, d)
  BY DEF Good, TabGood, RunGood

\* The attempt goes on.
LEMMA ResumeStep ==
    ASSUME IInv, NEW p \in Peers, Resume(p)
    PROVE  IInv' /\ (Kept \/ control = None)
<1>1. PICK w : w = Now
  OBVIOUS
<1>2. PICK t : t = run[p].tab
  OBVIOUS
<1>3. PICK c : c = control
  OBVIOUS
<1>4. Good(w, c)
  BY <1>1, <1>3 DEF IInv
<1>5. run[p].reply # None /\ w.run[p] = run[p] /\ control' = c
  BY <1>1, <1>3, NowParts DEF Resume
<1>6. ASSUME NEW v, Good(v, c), Keeps(w, v), Become(v)
      PROVE  IInv' /\ Kept
  BY <1>1, <1>5, <1>6, BecomeGood
<1>7. CASE run[p].step = "abort"
  <2>1. PICK v : v = Fail(w, p)
    OBVIOUS
  <2>2. Become(v)
    BY <1>1, <1>7, <2>1 DEF Resume
  <2> QED BY <1>4, <1>6, <2>1, <2>2, FailGood
<1>8. CASE run[p].step # "abort" /\ run[p].reply = "ok"
  <2>1. PICK v : v = Continue(w, p)
    OBVIOUS
  <2>2. Become(v)
    BY <1>1, <1>8, <2>1 DEF Resume
  <2> QED BY <1>4, <1>5, <1>6, <1>8, <2>1, <2>2, ContinueGood
<1>9. CASE run[p].step # "abort" /\ run[p].reply = "forbidden"
  <2>1. PICK lost : lost = ClaimLost(w, t)
    OBVIOUS
  <2>2. PICK v : v = Dispossessed(w, p, lost)
    OBVIOUS
  <2>3. Become(v)
    BY <1>1, <1>2, <1>9, <2>1, <2>2 DEF Resume
  <2>4. Good(lost, c) /\ Keeps(w, lost)
    BY <1>4, <2>1, DeactivatedGood DEF ClaimLost
  <2>5. Good(v, c) /\ Keeps(lost, v)
    BY <1>4, <2>2, <2>4, DispossessedGood
  <2> QED BY <1>6, <2>3, <2>4, <2>5, KeepsTwice
<1>10. CASE run[p].step # "abort" /\ run[p].reply = "gone"
  <2>1. PICK lost : lost = RecoveryUnavailable(w, t)
    OBVIOUS
  <2>2. PICK v : v = Dispossessed(w, p, lost)
    OBVIOUS
  <2>3. Become(v)
    BY <1>1, <1>2, <1>10, <2>1, <2>2 DEF Resume
  <2>4. Good(lost, c)
    BY <1>4, <2>1, RecoveryUnavailableGood
  <2>5. Good(v, c)
    BY <1>4, <2>2, <2>4, DispossessedGood
  <2>6. control = None
    BY <1>3, <1>4, <1>5, <1>10 DEF Good, RunGood
  <2> QED BY <1>5, <2>3, <2>5, <2>6, BecomeGood
<1>11. CASE run[p].step # "abort" /\ run[p].reply \notin {"ok", "forbidden", "gone"}
  <2>1. PICK v : v = Abort(w, p)
    OBVIOUS
  <2>2. Become(v)
    BY <1>1, <1>11, <2>1 DEF Resume
  <2> QED BY <1>4, <1>6, <2>1, <2>2, AbortGood
<1> QED BY <1>7, <1>8, <1>9, <1>10, <1>11

\* ICE gathering ends.
LEMMA GatherStep ==
    ASSUME IInv, NEW p \in Peers, Gather(p)
    PROVE  IInv' /\ Kept
<1>1. PICK w : w = Now
  OBVIOUS
<1>2. PICK c : c = control
  OBVIOUS
<1>3. Good(w, c)
  BY <1>1, <1>2 DEF IInv
<1>4. run[p].step \in IceSteps /\ w.run[p] = run[p] /\ control' = c
  BY <1>1, <1>2, NowParts DEF Gather
<1>5. RunGood(w, c, p, w.run[p])
  BY <1>3 DEF Good
<1>6. ASSUME NEW v, Good(v, c), Keeps(w, v), Become(v)
      PROVE  IInv' /\ Kept
  BY <1>1, <1>4, <1>6, BecomeGood
<1>7. ASSUME ~run[p].aborted, NEW step, step # "abort", p \in Guests => step \notin HostSteps
      PROVE  Ahead(w, p, step)
  BY <1>4, <1>7 DEF Ahead, IceSteps, EarlySteps
<1>8. p \in Guests => run[p].step \notin HostSteps
  BY <1>4, <1>5 DEF RunGood, GuestRunGood
<1>9. ASSUME NEW step, step \notin EarlySteps, NEW u, Good(u, c), Advanced(w, u, p, step),
             NEW v, v = [u EXCEPT !.peer[p] = [status |-> "connecting", other |-> run[p].got]]
      PROVE  Good(v, c) /\ Keeps(w, v)
  <2>1. u.peer[p].status \notin Linked /\ u.run[p].step \notin EarlySteps
    BY <1>4, <1>5, <1>9 DEF Advanced, RunGood, EarlySteps, IceSteps, Linked
  <2>2. PICK r : r = [status |-> "connecting", other |-> run[p].got]
    OBVIOUS
  <2>3. PeerShaped(r)
    BY <2>2 DEF PeerShaped
  <2> DEFINE z == [u EXCEPT !.peer = [u.peer EXCEPT ![p] = r]]
  <2>4. Good(z, c) /\ Keeps(u, z)
    BY <1>9, <2>1, <2>3, SetPeer
  <2>5. v = z
    BY <1>9, <2>2
  <2> QED BY <1>9, <2>4, <2>5, KeepsTwice DEF Advanced
<1>10. CASE run[p].aborted
  <2>1. PICK v : v = Finally(w, p)
    OBVIOUS
  <2>2. Become(v)
    BY <1>1, <1>10, <2>1 DEF Gather
  <2> QED BY <1>3, <1>6, <2>1, <2>2, FinallyGood
<1>11. CASE ~run[p].aborted /\ run[p].step = "create-offer"
  <2>1. PICK v : v = Calling(w, p, "offer", "offer", p)
    OBVIOUS
  <2>2. Become(v)
    BY <1>1, <1>11, <2>1 DEF Gather
  <2>3. Good(v, c) /\ Keeps(w, v)
    <3>1. Ahead(w, p, "offer")
      BY <1>7, <1>11, <1>8 DEF HostSteps
    <3> QED BY <1>3, <2>1, <3>1, CallingGood DEF ControlOps, Advanced
  <2> QED BY <1>6, <2>2, <2>3
<1>12. CASE ~run[p].aborted /\ run[p].step = "create-answer"
  <2>1. PICK u : u = Calling(w, p, "answer", "answer", p)
    OBVIOUS
  <2>2. PICK v : v = [u EXCEPT !.peer[p] = [status |-> "connecting", other |-> run[p].got]]
    OBVIOUS
  <2>3. Become(v)
    BY <1>1, <1>12, <2>1, <2>2 DEF Gather
  <2>4. Good(u, c) /\ Advanced(w, u, p, "answer")
    <3>1. Ahead(w, p, "answer")
      BY <1>7, <1>12 DEF HostSteps
    <3> QED BY <1>3, <2>1, <3>1, CallingGood DEF ControlOps
  <2>5. Good(v, c) /\ Keeps(w, v)
    BY <1>9, <2>2, <2>4 DEF EarlySteps
  <2> QED BY <1>6, <2>3, <2>5
<1>13. CASE ~run[p].aborted /\ run[p].step = "apply"
  <2>1. PICK u : u = Waiting(w, p, "connect")
    OBVIOUS
  <2>2. PICK v : v = [u EXCEPT !.peer[p] = [status |-> "connecting", other |-> run[p].got]]
    OBVIOUS
  <2>3. Become(v)
    BY <1>1, <1>13, <2>1, <2>2 DEF Gather, AwaitConnected
  <2>4. Good(u, c) /\ Advanced(w, u, p, "connect")
    <3>1. Ahead(w, p, "connect")
      BY <1>7, <1>13, <1>8 DEF HostSteps
    <3> QED BY <1>3, <2>1, <3>1, WaitingGood
  <2>5. Good(v, c) /\ Keeps(w, v)
    BY <1>9, <2>2, <2>4 DEF EarlySteps
  <2> QED BY <1>6, <2>3, <2>5
<1> QED BY <1>4, <1>10, <1>11, <1>12, <1>13 DEF IceSteps

\* A description cannot be made, or the link fails.
LEMMA LosingStep ==
    ASSUME IInv, NEW p \in Peers, GatherFails(p) \/ Drop(p)
    PROVE  IInv' /\ Kept
<1>1. PICK w : w = Now
  OBVIOUS
<1>2. PICK c : c = control
  OBVIOUS
<1>3. Good(w, c) /\ control' = c
  BY <1>1, <1>2 DEF IInv, GatherFails, Drop
<1>4. NoneRaised(w)
  BY <1>1, NowParts DEF NoneRaised
<1>5. StartsAttempt(w, TabOf(w, p)) => Spare(PlayerOf(TabOf(w, p)))
  BY <1>1 DEF GatherFails, Drop, MayLose
<1>6. PICK x : x = Lose(w, p)
  OBVIOUS
<1>7. Good(x, c) /\ Keeps(w, x)
  BY <1>3, <1>4, <1>5, <1>6, LoseGood
<1>8. PICK y : y = Abort(x, p)
  OBVIOUS
<1>9. Good(y, c) /\ Keeps(x, y)
  BY <1>7, <1>8, AbortGood
<1>10. Become(y) \/ Become(x)
  BY <1>1, <1>6, <1>8 DEF GatherFails, Drop
<1> QED BY <1>1, <1>3, <1>7, <1>9, <1>10, BecomeGood, KeepsTwice

\* A change of the peer, and what the tabs hear of it.
LEMMA OpenStep ==
    ASSUME IInv, NEW p \in Peers, Open(p)
    PROVE  IInv' /\ Kept
<1>1. PICK w : w = Now
  OBVIOUS
<1>2. PICK c : c = control
  OBVIOUS
<1>3. Good(w, c) /\ control' = c
  BY <1>1, <1>2 DEF IInv, Open
<1>4. PICK t : t = TabOf(w, p)
  OBVIOUS
<1>5. PICK d : d = [w.peer[p] EXCEPT !.status = "connected"]
  OBVIOUS
<1>6. w.peer[p].status = "connecting" /\ PeerShaped(w.peer[p]) /\ RunGood(w, c, p, w.run[p])
  BY <1>1, <1>3, NowParts DEF Open, Good
<1>7. /\ PeerShaped(d) /\ d.status = "connected" /\ w.run[p].step \notin EarlySteps
  <2>1. PICK o : o = w.peer[p]
    OBVIOUS
  <2>2. d = [status |-> "connected", other |-> o.other]
    BY <1>5, <1>6, <2>1 DEF PeerShaped
  <2> QED BY <1>6, <2>2 DEF PeerShaped, RunGood
<1> DEFINE x0 == [w EXCEPT !.peer = [w.peer EXCEPT ![p] = d]]
<1>8. Good(x0, c) /\ Keeps(w, x0) /\ x0.peer = [w.peer EXCEPT ![p] = d] /\ x0.tab = w.tab
      /\ x0.run = w.run
  BY <1>3, <1>7, SetPeer DEF Linked
<1>9. PICK x : x = [w EXCEPT !.peer[p].status = "connected"]
  OBVIOUS
<1>10. x = x0
  BY <1>5, <1>9
<1> HIDE DEF x0
<1>11. x.peer[p].status \in Linked
  BY <1>7, <1>8, <1>10 DEF Linked, Good, WorldShaped
<1> DEFINE f == [u \in Tabs |-> IF ~Rebinds(u, p) THEN w.tab[u]
                               ELSE [w.tab[u] EXCEPT !.bound = p, !.rebind = FALSE]]
<1>12. ASSUME NEW u \in Tabs
       PROVE  TabGood(x, c, u, f[u]) /\ f[u].peer = x.tab[u].peer
  <2>1. TabGood(x, c, u, w.tab[u])
    BY <1>8, <1>10 DEF Good
  <2>2. CASE ~Rebinds(u, p)
    BY <1>8, <1>10, <2>1, <2>2
  <2>3. CASE Rebinds(u, p)
    <3>1. PICK o : o = w.tab[u]
      OBVIOUS
    <3>2. o.peer = p
      BY <1>1, <2>3, <3>1 DEF Rebinds, Active
    <3>3. PICK b : b = [o EXCEPT !.bound = p]
      OBVIOUS
    <3>4. PICK r : r = [b EXCEPT !.rebind = FALSE]
      OBVIOUS
    <3>5. f[u] = r
      BY <2>3, <3>1, <3>3, <3>4
    <3>6. b = [peer |-> o.peer, session |-> o.session, inFlight |-> o.inFlight, own |-> o.own,
               rebind |-> o.rebind, bound |-> p, retry |-> o.retry, claim |-> o.claim,
               beat |-> o.beat, notice |-> o.notice]
      BY <2>1, <3>1, <3>3 DEF TabGood, TabShaped
    <3>7. r = [peer |-> o.peer, session |-> o.session, inFlight |-> o.inFlight, own |-> o.own,
               rebind |-> FALSE, bound |-> p, retry |-> o.retry, claim |-> o.claim,
               beat |-> o.beat, notice |-> o.notice]
      BY <3>4, <3>6
    <3>8. TabShaped(r) /\ r.peer = o.peer /\ r.bound = p /\ r.retry = o.retry /\ r.beat = o.beat
      BY <3>7 DEF TabShaped
    <3>9. TabGood(x, c, u, r)
      BY <1>11, <2>1, <3>1, <3>2, <3>8 DEF TabGood
    <3> QED BY <1>8, <1>10, <3>1, <3>5, <3>8, <3>9
  <2> QED BY <2>2, <2>3
<1>13. PICK y : y = [x EXCEPT !.tab = f]
  OBVIOUS
<1>14. f = [u \in Tabs |-> f[u]]
  OBVIOUS
<1> HIDE DEF f
<1>15. Good(y, c) /\ Keeps(x, y)
  BY <1>8, <1>10, <1>12, <1>13, <1>14, SetTabs
<1>16. PICK z : z = IF t = None THEN y ELSE Persisted(y, t)
  OBVIOUS
<1>17. Good(z, c) /\ Keeps(y, z) /\ z.run = y.run /\ z.peer = y.peer
  BY <1>15, <1>16, PersistedGood DEF Keeps
<1>18. y.run = w.run /\ y.peer = x.peer
  BY <1>8, <1>10, <1>13, <1>15 DEF Good, WorldShaped
<1>19. Keeps(w, z)
  BY <1>8, <1>10, <1>15, <1>17, KeepsTwice
<1>20. y = [w EXCEPT !.peer[p].status = "connected",
                     !.tab = [u \in Tabs |-> IF ~Rebinds(u, p) THEN @[u]
                                             ELSE [@[u] EXCEPT !.bound = p, !.rebind = FALSE]]]
  BY <1>8, <1>9, <1>10, <1>13 DEF f
<1>21. PICK k : k = Calling(z, p, "finalize", "finalize", "reconnected")
  OBVIOUS
<1>22. Become(IF w.run[p].step # "connect" THEN z ELSE k)
  BY <1>1, <1>4, <1>16, <1>20, <1>21, NowParts DEF Open
<1>23. CASE w.run[p].step # "connect"
  BY <1>1, <1>3, <1>17, <1>19, <1>22, <1>23, BecomeGood
<1>24. CASE w.run[p].step = "connect"
  <2>1. p \in Hosts /\ p \notin Guests
    BY <1>6, <1>24, RulesAssumption DEF RunGood, GuestRunGood, HostSteps, Peers, Instances
  <2>2. Ahead(z, p, "finalize")
    BY <2>1 DEF Ahead, EarlySteps
  <2>3. z.peer[p].status \in Linked
    BY <1>11, <1>17, <1>18
  <2>4. Good(k, c) /\ Keeps(z, k)
    BY <1>17, <1>21, <2>1, <2>2, <2>3, CallingGood DEF ControlOps, Advanced
  <2> QED BY <1>1, <1>3, <1>19, <1>22, <1>24, <2>4, BecomeGood, KeepsTwice
<1> QED BY <1>23, <1>24

\* The host replays the match.
LEMMA ReplayStep ==
    ASSUME IInv, NEW t \in Tabs, Replay(t)
    PROVE  IInv' /\ Kept
<1>1. PICK w : w = Now
  OBVIOUS
<1>2. PICK c : c = control
  OBVIOUS
<1>3. Good(w, c) /\ control' = c
  BY <1>1, <1>2 DEF IInv, Replay
<1>4. PICK v : v = [w EXCEPT !.tab[t].session = TRUE]
  OBVIOUS
<1>5. Good(v, c) /\ SameButTabs(w, v)
  <2>1. LET u == [w EXCEPT !.tab[t].session = TRUE] IN Good(u, c) /\ SameButTabs(w, u)
    BY <1>3, SetField, Zenon
  <2> QED BY <1>4, <2>1
<1>6. v.tab = [tab EXCEPT ![t].session = TRUE]
  BY <1>1, <1>4 DEF Now
<1>7. Become(v)
  BY <1>1, <1>5, <1>6, NowParts DEF Become, Replay, SameButTabs
<1> QED BY <1>1, <1>3, <1>5, <1>7, BecomeGood DEF SameButTabs

\* A heartbeat is sent.
LEMMA HeartbeatStep ==
    ASSUME IInv, NEW t \in Tabs, Heartbeat(t)
    PROVE  IInv' /\ Kept
<1>1. PICK w : w = Now
  OBVIOUS
<1>2. PICK c : c = control
  OBVIOUS
<1>3. Good(w, c) /\ control' = c
  BY <1>1, <1>2 DEF IInv, Heartbeat
<1>4. PICK x : x = [w EXCEPT !.tab[t].beat = "sent"]
  OBVIOUS
<1>5. Good(x, c) /\ SameButTabs(w, x)
  <2>1. ("sent" = "gone" => c = None)
    OBVIOUS
  <2>2. LET u == [w EXCEPT !.tab[t].beat = "sent"] IN Good(u, c) /\ SameButTabs(w, u)
    BY <1>3, <2>1, SetField, Zenon
  <2> QED BY <1>4, <2>2
<1>6. PICK q : q = Request("heartbeat", tab[t].claim, None)
  OBVIOUS
<1>7. PICK s : s = x.calls \cup {q}
  OBVIOUS
<1>8. \A r \in s : CallGood(x, r)
  <2>1. q.op = "heartbeat"
    BY <1>6 DEF Request
  <2> QED BY <1>5, <1>7, <2>1 DEF Good, CallGood, ControlOps
<1>9. PICK v : v = [x EXCEPT !.calls = s]
  OBVIOUS
<1>10. Good(v, c) /\ Keeps(x, v)
  BY <1>5, <1>8, <1>9, SetCalls
<1>11. Become(v)
  <2>1. v = [w EXCEPT !.tab[t].beat = "sent", !.calls = @ \cup {q}]
    BY <1>4, <1>7, <1>9
  <2> QED BY <1>1, <1>6, <2>1 DEF Heartbeat
<1> QED BY <1>1, <1>3, <1>5, <1>10, <1>11, BecomeGood DEF SameButTabs, Keeps

\* A heartbeat has failed for good.
LEMMA HeartbeatFailsStep ==
    ASSUME IInv, NEW t \in Tabs, HeartbeatFails(t)
    PROVE  IInv' /\ (Kept \/ control = None)
<1>1. PICK w : w = Now
  OBVIOUS
<1>2. PICK c : c = control
  OBVIOUS
<1>3. Good(w, c) /\ control' = c
  BY <1>1, <1>2 DEF IInv, HeartbeatFails
<1>4. CASE tab[t].beat = "forbidden" /\ Become(ClaimLost(Now, t))
  <2>1. PICK v : v = ClaimLost(w, t)
    OBVIOUS
  <2>2. Good(v, c) /\ Keeps(w, v)
    BY <1>3, <2>1, DeactivatedGood DEF ClaimLost
  <2> QED BY <1>1, <1>3, <1>4, <2>1, <2>2, BecomeGood
<1>5. CASE tab[t].beat = "gone" /\ Become(RecoveryUnavailable(Now, t))
  <2>1. PICK v : v = RecoveryUnavailable(w, t)
    OBVIOUS
  <2>2. Good(v, c)
    BY <1>3, <2>1, RecoveryUnavailableGood
  <2>3. control = None
    BY <1>1, <1>2, <1>3, <1>5, NowParts DEF Good, TabGood
  <2> QED BY <1>1, <1>3, <1>5, <2>1, <2>2, <2>3, BecomeGood
<1> QED BY <1>4, <1>5 DEF HeartbeatFails

\* The timer of a retry.
LEMMA RetryStep ==
    ASSUME IInv, NEW t \in Tabs, Retry(t)
    PROVE  IInv' /\ Kept
<1>1. PICK w : w = Now
  OBVIOUS
<1>2. PICK c : c = control
  OBVIOUS
<1>3. Good(w, c) /\ control' = c
  BY <1>1, <1>2 DEF IInv, Retry
<1>4. t \in HostTabs /\ Spare("host")
  BY <1>1, <1>3, NowParts DEF Retry, Good, TabGood
<1>5. PICK x : x = [w EXCEPT !.tab[t].retry = None]
  OBVIOUS
<1>6. Good(x, c) /\ SameButTabs(w, x)
  <2>1. LET u == [w EXCEPT !.tab[t].retry = None] IN Good(u, c) /\ SameButTabs(w, u)
    BY <1>3, SetField, Zenon
  <2> QED BY <1>5, <2>1
<1>7. NoneRaised(x)
  BY <1>1, <1>6, NowParts DEF SameButTabs, NoneRaised
<1>8. PICK y : y = HandlePeerClosed(x, t)
  OBVIOUS
<1>9. Good(y, c) /\ Keeps(x, y)
  BY <1>4, <1>6, <1>7, <1>8, HandlePeerClosedGood
<1>10. Become(y) \/ Become(x)
  BY <1>1, <1>5, <1>8 DEF Retry
<1> QED BY <1>1, <1>3, <1>6, <1>9, <1>10, BecomeGood DEF SameButTabs, Keeps

\* The room page is opened.
LEMMA OpenRoomStep ==
    ASSUME IInv, NEW t \in Tabs, OpenRoom(t)
    PROVE  IInv' /\ Kept
<1>1. PICK w : w = Now
  OBVIOUS
<1>2. PICK c : c = control
  OBVIOUS
<1>3. Good(w, c) /\ control' = c
  BY <1>1, <1>2 DEF IInv, OpenRoom
<1>4. NoneRaised(w) /\ Spare(PlayerOf(t))
  BY <1>1, NowParts DEF NoneRaised, OpenRoom
<1>5. PICK y : y = Reconnect(w, t)
  OBVIOUS
<1>6. Good(y, c) /\ Keeps(w, y)
  BY <1>3, <1>4, <1>5, ReconnectGood
<1>7. Become(y)
  BY <1>1, <1>5 DEF OpenRoom
<1> QED BY <1>1, <1>3, <1>6, <1>7, BecomeGood

\* A record goes with the player who leaves, or with the control session.
RecordGoes ==
    \A r \in Roles : saved[r] /\ ~saved'[r] =>
        \/ control = None
        \/ \E t \in Tabs : tab[t].session /\ tab'[t].peer = None /\ tab'[t].notice = None

\* The player leaves the match.
LEMMA LeaveStep ==
    ASSUME IInv, NEW t \in Tabs, Leave(t)
    PROVE  IInv' /\ RecordGoes
<1>1. PICK w : w = Now
  OBVIOUS
<1>2. PICK c : c = control
  OBVIOUS
<1>3. Good(w, c) /\ control' = c
  BY <1>1, <1>2 DEF IInv, Leave
<1>4. PICK s : s = [w.saved EXCEPT ![PlayerOf(t)] = @ /\ ~w.tab[t].session]
  OBVIOUS
<1>5. PICK x : x = [w EXCEPT !.saved = s]
  OBVIOUS
<1>6. x = RecoveryCleared(w, t)
  BY <1>4, <1>5 DEF RecoveryCleared
<1>7. /\ s = [r \in Roles |-> s[r]]
      /\ \A r \in Roles : w.saved[r] /\ ~s[r] => w.tab[t].session
  BY <1>3, <1>4 DEF Good, WorldShaped
<1>8. Good(x, c) /\ x.saved = s
  BY <1>3, <1>5, <1>7, SetSaved
<1>9. PICK y : y = [x EXCEPT !.tab[t].notice = None]
  OBVIOUS
<1>10. Good(y, c) /\ SameButTabs(x, y)
  <2>1. LET u == [x EXCEPT !.tab[t].notice = None] IN Good(u, c) /\ SameButTabs(x, u)
    BY <1>8, SetField, Zenon
  <2> QED BY <1>9, <2>1
<1>11. y.tab[t].notice = None
  <2>1. PICK o : o = x.tab[t]
    OBVIOUS
  <2>2. TabShaped(o)
    BY <1>8, <2>1 DEF Good, TabGood
  <2>3. PICK r : r = [o EXCEPT !.notice = None]
    OBVIOUS
  <2>4. r.notice = None
    BY <2>2, <2>3 DEF TabShaped
  <2>5. y = [x EXCEPT !.tab = [x.tab EXCEPT ![t] = r]]
    BY <1>9, <2>1, <2>3
  <2> QED BY <1>8, <2>4, <2>5 DEF Good, WorldShaped
<1>12. PICK z : z = Teardown(y, t)
  OBVIOUS
<1>13. Good(z, c) /\ Keeps(y, z) /\ z.tab[t] = [NoRuntime EXCEPT !.notice = None]
  BY <1>10, <1>11, <1>12, TeardownGood
<1>14. Become(z)
  BY <1>1, <1>6, <1>9, <1>12 DEF Leave
<1>15. z.tab[t].peer = None /\ z.tab[t].notice = None
  BY <1>13 DEF NoRuntime
<1>16. RecordGoes
  BY <1>1, <1>7, <1>8, <1>10, <1>13, <1>14, <1>15, NowParts
     DEF RecordGoes, Become, SameButTabs, Keeps
<1> QED BY <1>3, <1>13, <1>14, <1>16, BecomeGood

\* A reply reaches who waits for it.
LEMMA RepliedGood ==
    ASSUME NEW w, NEW c, Good(w, c), NEW q, q.op \in ControlOps, NEW reply,
           reply = "gone" => c = None
    PROVE  Good(Replied(w, q, reply), c) /\ Keeps(w, Replied(w, q, reply))
<1>1. PICK p : p = q.from
  OBVIOUS
<1>2. CASE q.op = "heartbeat"
  <2> DEFINE f == [t \in Tabs |->
                     IF w.tab[t].claim # p \/ w.tab[t].beat # "sent" THEN w.tab[t]
                     ELSE [w.tab[t] EXCEPT !.beat =
                             IF reply \in {"forbidden", "gone"} THEN reply ELSE "idle"]]
  <2>1. ASSUME NEW t \in Tabs
        PROVE  TabGood(w, c, t, f[t]) /\ f[t].peer = w.tab[t].peer
    <3>1. PICK o : o = w.tab[t]
      OBVIOUS
    <3>2. TabGood(w, c, t, o)
      BY <3>1 DEF Good
    <3>3. PICK b : b = IF reply \in {"forbidden", "gone"} THEN reply ELSE "idle"
      OBVIOUS
    <3>4. b = "gone" => c = None
      BY <3>3
    <3>5. PICK r : r = [o EXCEPT !.beat = b]
      OBVIOUS
    <3>6. TabGood(w, c, t, r) /\ r.peer = o.peer
      BY <3>2, <3>4, <3>5 DEF TabGood, TabShaped
    <3>7. f[t] = o \/ f[t] = r
      BY <3>1, <3>3, <3>5
    <3> QED BY <3>1, <3>2, <3>6, <3>7
  <2>2. f = [t \in Tabs |-> f[t]]
    OBVIOUS
  <2>3. Replied(w, q, reply) = [w EXCEPT !.tab = f]
    BY <1>1, <1>2 DEF Replied
  <2> HIDE DEF f
  <2>4. PICK v : v = [w EXCEPT !.tab = f]
    OBVIOUS
  <2>5. Good(v, c) /\ Keeps(w, v)
    BY <2>1, <2>2, <2>4, SetTabs
  <2> QED BY <2>3, <2>4, <2>5
<1>3. CASE q.op # "heartbeat"
  <2>1. PICK awaited : awaited = IF q.op = "finalize" /\ q.value = "aborted" THEN "abort"
                                 ELSE q.op
    OBVIOUS
  <2>2. awaited \in WaitSteps
    BY <1>3, <2>1 DEF WaitSteps, CallSteps, ControlOps
  <2>3. PICK r : r = [w.run[p] EXCEPT !.reply = reply]
    OBVIOUS
  <2>4. p \in Peers /\ w.run[p].step = awaited => RunGood(w, c, p, r)
    <3> SUFFICES ASSUME p \in Peers, w.run[p].step = awaited
                 PROVE  RunGood(w, c, p, r)
      OBVIOUS
    <3>1. PICK o : o = w.run[p]
      OBVIOUS
    <3>2. RunGood(w, c, p, o)
      BY <3>1 DEF Good
    <3>3. r = [step |-> o.step, tab |-> o.tab, kind |-> o.kind, reply |-> reply, got |-> o.got,
               aborted |-> o.aborted]
      BY <2>3, <3>1, <3>2 DEF RunGood, RunShaped
    <3>4. /\ RunShaped(r) /\ r.step = o.step /\ r.tab = o.tab /\ r.kind = o.kind
          /\ r.reply = reply /\ r.aborted = o.aborted
      BY <3>3 DEF RunShaped
    <3> QED BY <2>2, <3>1, <3>2, <3>4 DEF RunGood, GuestRunGood
  <2> DEFINE v == [w EXCEPT !.run = [w.run EXCEPT ![p] = r]]
  <2>5. Replied(w, q, reply) =
            IF w.run[p].step = awaited /\ w.run[p].reply = None THEN v ELSE w
    BY <1>1, <1>3, <2>1, <2>3 DEF Replied
  <2>6. w.run[p].step = awaited => Good(v, c) /\ Keeps(w, v)
    BY <2>4, SetRun
  <2> QED BY <2>5, <2>6 DEF Keeps
<1> QED BY <1>2, <1>3

\* Another attempt in the record.
LEMMA WithAttemptGood ==
    ASSUME NEW w, NEW c, RecordShaped(c), NEW state, NEW a, AttemptGood(w, c.claim, a)
    PROVE  /\ RecordShaped(WithAttempt(c, state, a))
           /\ WithAttempt(c, state, a).claim = c.claim
           /\ WithAttempt(c, state, a).attempt = a
<1>1. PICK x : x = [c EXCEPT !.state = state]
  OBVIOUS
<1>2. PICK y : y = [x EXCEPT !.attempt = a]
  OBVIOUS
<1>3. WithAttempt(c, state, a) = y
  BY <1>1, <1>2 DEF WithAttempt
<1>4. x = [state |-> state, claim |-> c.claim, attempt |-> c.attempt, expiresAt |-> c.expiresAt]
  BY <1>1 DEF RecordShaped
<1>5. y = [state |-> state, claim |-> c.claim, attempt |-> a, expiresAt |-> c.expiresAt]
  BY <1>2, <1>4
<1>6. y.claim = c.claim /\ y.attempt = a /\ RecordShaped(y)
  BY <1>5 DEF RecordShaped
<1> QED BY <1>3, <1>6

\* Nothing is claimed of no attempt.
LEMMA IdleGood ==
    ASSUME NEW w, NEW claim
    PROVE  AttemptGood(w, claim, IdleAttempt)
  BY ReconnectAssumption DEF AttemptGood, IdleAttempt

\* A newcomer takes the role of another, and drops what it cannot take up.
LEMMA ClaimedGood ==
    ASSUME NEW w, NEW c, RecordShaped(c), AttemptGood(w, c.claim, c.attempt),
           NEW role \in Roles, NEW i
    PROVE  LET u == Claimed(c, role, i)
           IN  RecordShaped(u) /\ AttemptGood(w, u.claim, u.attempt)
<1>1. PICK f : f = [c.claim EXCEPT ![role] = i]
  OBVIOUS
<1>2. PICK x : x = [c EXCEPT !.claim[role] = i]
  OBVIOUS
<1>3. x = [state |-> c.state, claim |-> f, attempt |-> c.attempt, expiresAt |-> c.expiresAt]
  BY <1>1, <1>2 DEF RecordShaped
<1>4. /\ f = [r \in Roles |-> f[r]] /\ f[role] = i
      /\ \A r \in Roles : r # role => f[r] = c.claim[r]
  BY <1>1 DEF RecordShaped
<1>5. x.claim = f /\ x.attempt = c.attempt /\ RecordShaped(x)
  BY <1>3, <1>4 DEF RecordShaped
<1>6. PICK a : a = c.attempt
  OBVIOUS
<1>7. role # "host" \/ c.claim[role] \in {None, i} => AttemptGood(w, f, a)
  BY <1>4, <1>6, RulesAssumption DEF AttemptGood, Roles
<1>8. CASE c.claim[role] \in {None, i}
  <2>1. Claimed(c, role, i) = x
    BY <1>2, <1>8 DEF Claimed
  <2> QED BY <1>5, <1>6, <1>7, <1>8, <2>1
<1>9. CASE c.claim[role] \notin {None, i}
  <2>1. Claimed(c, role, i) = Reconciled(x, role)
    BY <1>2, <1>9 DEF Claimed
  <2>2. CASE WasAborted(a) \/ (role = "host" /\ a.status \in {"offer-ready", "answer-ready"})
    <3>1. Reconciled(x, role) = WithAttempt(x, "open", IdleAttempt)
      BY <1>5, <1>6, <2>2 DEF Reconciled
    <3> QED BY <1>5, <2>1, <3>1, IdleGood, WithAttemptGood
  <2>3. CASE /\ ~(WasAborted(a) \/ (role = "host" /\ a.status \in {"offer-ready", "answer-ready"}))
             /\ role = "guest" /\ a.status = "answer-ready"
    <3>1. PICK b : b = [a EXCEPT !.status = "offer-ready"]
      OBVIOUS
    <3>2. PICK d : d = [b EXCEPT !.answer = None]
      OBVIOUS
    <3>3. AttemptGood(w, f, a)
      BY <1>7, <2>3
    <3>4. b = [status |-> "offer-ready", offer |-> a.offer, answer |-> a.answer,
               outcome |-> a.outcome]
      BY <3>1, <3>3 DEF AttemptGood
    <3>5. d = [status |-> "offer-ready", offer |-> a.offer, answer |-> None,
               outcome |-> a.outcome]
      BY <3>2, <3>4
    <3>6. AttemptGood(w, f, d)
      BY <2>3, <3>3, <3>5 DEF AttemptGood
    <3>7. [a EXCEPT !.status = "offer-ready", !.answer = None] = d
      BY <3>1, <3>2
    <3>8. Reconciled(x, role) = WithAttempt(x, "open", d)
      BY <1>5, <1>6, <2>3, <3>7 DEF Reconciled
    <3> QED BY <1>5, <2>1, <3>6, <3>8, WithAttemptGood
  <2>4. CASE /\ ~(WasAborted(a) \/ (role = "host" /\ a.status \in {"offer-ready", "answer-ready"}))
             /\ ~(role = "guest" /\ a.status = "answer-ready")
    <3>1. Reconciled(x, role) = x
      BY <1>5, <1>6, <2>4 DEF Reconciled
    <3>2. AttemptGood(w, f, a)
      BY <1>4, <1>6, <2>4 DEF AttemptGood, Roles
    <3> QED BY <1>5, <1>6, <2>1, <3>1, <3>2
  <2> QED BY <2>2, <2>3, <2>4
<1> QED BY <1>8, <1>9

\* The record that a permitted request leaves.
LEMMA ServedGood ==
    ASSUME NEW w, NEW c, Good(w, c), NEW q \in w.calls, c # None, Permits(c, q)
    PROVE  RecordGood(w, Outcome(c, q))
<1>1. CallGood(w, q) /\ RecordShaped(c) /\ AttemptGood(w, c.claim, c.attempt)
  BY DEF Good, RecordGood
<1>2. CASE NothingToDo(c, q)
  BY <1>1, <1>2 DEF Outcome, RecordGood
<1>3. CASE ~NothingToDo(c, q)
  <2>1. PICK u : u = Updated(c, q)
    OBVIOUS
  <2>2. Outcome(c, q) = [u EXCEPT !.expiresAt = q.at + Ttl]
    BY <1>1, <1>3, <2>1 DEF Outcome, CallGood, ControlOps, SessionOps, Refreshed
  <2>3. PICK a : a = c.attempt
    OBVIOUS
  <2>4. RecordShaped(u) /\ AttemptGood(w, u.claim, u.attempt)
    <3>1. CASE q.op = "claim"
      <4>1. q.role \in Roles
        BY <3>1 DEF Permits, RoleOf, Roles
      <4>2. u = Claimed(c, q.role, q.from)
        BY <2>1, <3>1 DEF Updated
      <4> QED BY <1>1, <4>1, <4>2, ClaimedGood
    <3>2. CASE q.op = "heartbeat"
      BY <1>1, <2>1, <3>2 DEF Updated
    <3>3. CASE q.op = "offer"
      <4>1. q.value \in Hosts /\ q.value = c.claim["host"]
        BY <1>1, <3>3 DEF CallGood, Permits, HasRole, RoleOf
      <4>2. PICK b : b = [IdleAttempt EXCEPT !.status = "offer-ready", !.offer = q.value]
        OBVIOUS
      <4>3. b = [status |-> "offer-ready", offer |-> q.value, answer |-> None, outcome |-> None]
        BY <4>2 DEF IdleAttempt
      <4>4. AttemptGood(w, c.claim, b)
        BY <4>1, <4>3, ReconnectAssumption DEF AttemptGood
      <4>5. u = WithAttempt(c, "open", b)
        BY <2>1, <3>3, <4>2 DEF Updated, WithOffer
      <4> QED BY <1>1, <4>4, <4>5, WithAttemptGood
    <3>4. CASE q.op = "answer"
      <4>1. a.status = "offer-ready"
        BY <2>3, <3>4 DEF Permits, AwaitsAnswer
      <4>2. PICK d : d = [a EXCEPT !.status = "answer-ready"]
        OBVIOUS
      <4>3. PICK b : b = [d EXCEPT !.answer = q.value]
        OBVIOUS
      <4>4. d = [status |-> "answer-ready", offer |-> a.offer, answer |-> a.answer,
                 outcome |-> a.outcome]
        BY <1>1, <2>3, <4>2 DEF AttemptGood
      <4>5. b = [status |-> "answer-ready", offer |-> a.offer, answer |-> q.value,
                 outcome |-> a.outcome]
        BY <4>3, <4>4
      <4>6. AttemptGood(w, c.claim, b)
        BY <1>1, <2>3, <4>1, <4>5 DEF AttemptGood
      <4>7. [a EXCEPT !.status = "answer-ready", !.answer = q.value] = b
        BY <4>2, <4>3
      <4>8. u = WithAttempt(c, c.state, b)
        BY <2>1, <2>3, <3>4, <4>7 DEF Updated, WithReconnectAnswer
      <4> QED BY <1>1, <4>6, <4>8, WithAttemptGood
    <3>5. CASE q.op = "finalize"
      <4>1. a.status \in {"offer-ready", "answer-ready"}
        BY <1>1, <1>3, <2>3, <3>5 DEF AttemptGood, Permits, NothingToDo
      <4>2. q.value = "reconnected" => a.offer \in Hosts /\ w.peer[a.offer].status \in Linked
        BY <1>1, <2>3, <3>5, <4>1 DEF AttemptGood, CallGood, Permits, HasRole, RoleOf
      <4>3. PICK d : d = [a EXCEPT !.status = "finalized"]
        OBVIOUS
      <4>4. PICK b : b = [d EXCEPT !.outcome = q.value]
        OBVIOUS
      <4>5. d = [status |-> "finalized", offer |-> a.offer, answer |-> a.answer,
                 outcome |-> a.outcome]
        BY <1>1, <2>3, <4>3 DEF AttemptGood
      <4>6. b = [status |-> "finalized", offer |-> a.offer, answer |-> a.answer,
                 outcome |-> q.value]
        BY <4>4, <4>5
      <4>7. AttemptGood(w, c.claim, b)
        BY <4>2, <4>6 DEF AttemptGood
      <4>8. [a EXCEPT !.status = "finalized", !.outcome = q.value] = b
        BY <4>3, <4>4
      <4>9. u = WithAttempt(c, "finalized", b)
        BY <2>1, <2>3, <3>5, <4>8 DEF Updated, Finalized
      <4> QED BY <1>1, <4>7, <4>9, WithAttemptGood
    <3> QED BY <1>1, <3>1, <3>2, <3>3, <3>4, <3>5 DEF CallGood, ControlOps
  <2>5. PICK z : z = [u EXCEPT !.expiresAt = q.at + Ttl]
    OBVIOUS
  <2>6. z = [state |-> u.state, claim |-> u.claim, attempt |-> u.attempt,
             expiresAt |-> q.at + Ttl]
    BY <2>4, <2>5 DEF RecordShaped
  <2>7. z.claim = u.claim /\ z.attempt = u.attempt /\ RecordShaped(z)
    BY <2>4, <2>6 DEF RecordShaped
  <2> QED BY <2>2, <2>4, <2>5, <2>7 DEF RecordGood
<1> QED BY <1>2, <1>3

\* The service applies a request, or the request gets lost.
LEMMA CallStep ==
    ASSUME IInv, NEW q \in calls, Serve(q) \/ Vanish(q)
    PROVE  IInv' /\ Kept
<1>1. PICK w : w = Now
  OBVIOUS
<1>2. PICK c : c = control'
  OBVIOUS
<1>3. control = None => c = None
  BY <1>2 DEF Serve, Vanish, Verdict
<1>4. Good(w, control) /\ q \in w.calls
  BY <1>1, NowParts DEF IInv
<1>5. RecordGood(w, c)
  <2>1. CASE c = control
    BY <1>4, <2>1 DEF Good
  <2>2. CASE c # control
    <3>1. control # None /\ Permits(control, q) /\ c = Outcome(control, q)
      BY <1>2, <2>2 DEF Serve, Vanish, Verdict
    <3> QED BY <1>4, <3>1, ServedGood
  <2> QED BY <2>1, <2>2
<1>6. Good(w, c)
  BY <1>3, <1>4, <1>5, RecordMatters
<1>7. q.op \in ControlOps
  BY <1>4 DEF Good, CallGood
<1>8. PICK x : x = [w EXCEPT !.calls = @ \ {q}]
  OBVIOUS
<1>9. Good(x, c) /\ Keeps(w, x)
  <2>1. PICK s : s = w.calls \ {q}
    OBVIOUS
  <2>2. \A r \in s : CallGood(w, r)
    BY <1>6, <2>1 DEF Good
  <2>3. x = [w EXCEPT !.calls = s]
    BY <1>8, <2>1
  <2> QED BY <1>6, <2>2, <2>3, SetCalls
<1>10. ASSUME NEW reply, reply = "gone" => c = None, Become(Replied(x, q, reply))
      PROVE  IInv' /\ Kept
  <2>1. PICK v : v = Replied(x, q, reply)
    OBVIOUS
  <2>2. Good(v, c) /\ Keeps(x, v)
    BY <1>7, <1>9, <1>10, <2>1, RepliedGood
  <2>3. Keeps(w, v)
    BY <1>9, <2>2, KeepsTwice
  <2> QED BY <1>1, <1>2, <1>10, <2>1, <2>2, <2>3, BecomeGood
<1>11. CASE Serve(q)
  <2>1. PICK reply \in {Verdict(q), "unreachable"} : Become(Replied(x, q, reply))
    BY <1>1, <1>8, <1>11 DEF Serve
  <2>2. reply = "gone" => control = None
    BY <2>1 DEF Verdict
  <2> QED BY <1>3, <1>10, <2>1, <2>2
<1>12. CASE Vanish(q)
  <2>1. Become(Replied(x, q, "unreachable"))
    BY <1>1, <1>8, <1>12 DEF Vanish
  <2> QED BY <1>10, <2>1
<1> QED BY <1>11, <1>12

\* A polling loop ends.
LEMMA PollStep ==
    ASSUME IInv, NEW p \in Peers, Poll(p)
    PROVE  IInv' /\ Kept
<1>1. PICK w : w = Now
  OBVIOUS
<1>2. PICK c : c = control
  OBVIOUS
<1>3. Good(w, c) /\ control' = c
  BY <1>1, <1>2 DEF IInv, Poll
<1>4. PICK o : o = w.run[p]
  OBVIOUS
<1>5. RunGood(w, c, p, o) /\ o.step \in Polls
  BY <1>1, <1>3, <1>4, NowParts DEF Good, Poll
<1>6. ASSUME NEW reply, reply = "gone" => c = None, NEW got,
             run' = [run EXCEPT ![p] = [step |-> o.step, tab |-> o.tab, kind |-> o.kind,
                                        reply |-> reply, got |-> got, aborted |-> o.aborted]]
      PROVE  IInv' /\ Kept
  <2>1. PICK r : r = [step |-> o.step, tab |-> o.tab, kind |-> o.kind, reply |-> reply,
                      got |-> got, aborted |-> o.aborted]
    OBVIOUS
  <2>2. /\ RunShaped(r) /\ r.step = o.step /\ r.tab = o.tab /\ r.kind = o.kind
        /\ r.reply = reply /\ r.aborted = o.aborted
    BY <2>1 DEF RunShaped
  <2>3. RunGood(w, c, p, r)
    BY <1>5, <1>6, <2>2 DEF RunGood, GuestRunGood, WaitSteps
  <2> DEFINE v == [w EXCEPT !.run = [w.run EXCEPT ![p] = r]]
  <2>4. /\ Good(v, c) /\ Keeps(w, v) /\ v.peer = w.peer /\ v.tab = w.tab
        /\ v.calls = w.calls /\ v.saved = w.saved /\ v.run = [w.run EXCEPT ![p] = r]
    BY <1>3, <2>3, SetRun
  <2>5. PICK x : x = v
    OBVIOUS
  <2> HIDE DEF v
  <2>6. Become(x)
    BY <1>1, <1>6, <2>1, <2>4, <2>5, NowParts DEF Become, Poll
  <2> QED BY <1>1, <1>3, <2>4, <2>5, <2>6, BecomeGood
<1>7. o = [step |-> o.step, tab |-> o.tab, kind |-> o.kind, reply |-> o.reply, got |-> o.got,
           aborted |-> o.aborted] /\ o = run[p]
  BY <1>1, <1>4, <1>5, NowParts DEF RunGood, RunShaped
<1>8. CASE \E end \in EndsPoll(p) : run' = [run EXCEPT ![p].reply = end.reply, ![p].got = end.got]
  <2>1. PICK end \in EndsPoll(p) :
            run' = [run EXCEPT ![p].reply = end.reply, ![p].got = end.got]
    BY <1>8
  <2>2. end.reply = "gone" => control = None
    <3> SUFFICES ASSUME control # None PROVE end.reply # "gone"
      OBVIOUS
    <3>1. CASE ~HasRole(control, RoleOf(p), p)
      BY <2>1, <3>1 DEF EndsPoll
    <3>2. CASE HasRole(control, RoleOf(p), p)
      <4>1. end \in OfferRead(p) \cup AnswerRead(p) \cup OutcomeRead(p)
        BY <2>1, <3>2 DEF EndsPoll
      <4> QED BY <4>1 DEF OfferRead, AnswerRead, OutcomeRead
    <3> QED BY <3>1, <3>2
  <2>3. PICK r1 : r1 = [o EXCEPT !.reply = end.reply]
    OBVIOUS
  <2>4. r1 = [step |-> o.step, tab |-> o.tab, kind |-> o.kind, reply |-> end.reply,
              got |-> o.got, aborted |-> o.aborted]
    BY <1>7, <2>3
  <2>5. PICK r : r = [r1 EXCEPT !.got = end.got]
    OBVIOUS
  <2>6. r = [step |-> o.step, tab |-> o.tab, kind |-> o.kind, reply |-> end.reply,
             got |-> end.got, aborted |-> o.aborted]
    BY <2>4, <2>5
  <2>7. run = [u \in Peers |-> run[u]]
    BY <1>1, <1>3, NowParts DEF Good, WorldShaped
  <2>8. run' = [run EXCEPT ![p] = r]
    BY <1>7, <2>1, <2>3, <2>5, <2>7
  <2> QED BY <1>2, <1>6, <2>2, <2>6, <2>8
<1>9. CASE run' = [run EXCEPT ![p].reply = "unreachable"]
  <2>1. PICK r : r = [o EXCEPT !.reply = "unreachable"]
    OBVIOUS
  <2>2. r = [step |-> o.step, tab |-> o.tab, kind |-> o.kind, reply |-> "unreachable",
              got |-> o.got, aborted |-> o.aborted]
    BY <1>7, <2>1
  <2>3. run' = [run EXCEPT ![p] = r]
    BY <1>7, <1>9, <2>1
  <2> QED BY <1>6, <2>2, <2>3
<1> QED BY <1>8, <1>9 DEF Poll

\* The record lapses.
LEMMA LapseStep ==
    ASSUME IInv, Lapse
    PROVE  IInv' /\ Kept
<1>1. PICK w : w = Now
  OBVIOUS
<1>2. PICK c : c = None
  OBVIOUS
<1>3. Good(w, c)
  BY <1>1, <1>2, RecordMatters DEF IInv, RecordGood
<1>4. Become(w) /\ control' = c
  BY <1>1, <1>2, NowParts DEF Become, Lapse
<1> QED BY <1>1, <1>3, <1>4, BecomeGood DEF Keeps

\* A tab is closed.
LEMMA CloseStep ==
    ASSUME IInv, NEW t \in Tabs, Close(t)
    PROVE  IInv' /\ Kept
<1>1. PICK w : w = Now
  OBVIOUS
<1>2. PICK c : c = control
  OBVIOUS
<1>3. Good(w, c) /\ control' = c
  BY <1>1, <1>2 DEF IInv, Close
<1>4. PICK f : f = tab'
  OBVIOUS
<1>5. PICK g : g = run'
  OBVIOUS
<1>6. PICK h : h = peer'
  OBVIOUS
<1>7. PICK v : v = [calls |-> w.calls, tab |-> f, run |-> g, peer |-> h, saved |-> w.saved]
  OBVIOUS
<1>8. Become(v)
  BY <1>1, <1>4, <1>5, <1>6, <1>7, NowParts DEF Become, Close
<1>9. /\ f = [u \in Tabs |-> f[u]] /\ f[t] = NoRuntime
      /\ \A u \in Tabs : u # t => f[u] = w.tab[u]
  BY <1>1, <1>3, <1>4, NowParts DEF Close, Good, WorldShaped
<1>10. /\ g = [p \in Peers |-> g[p]]
       /\ \A p \in Peers : g[p] = NoRun \/ (g[p] = w.run[p] /\ w.run[p].tab # t)
  BY <1>1, <1>5, NowParts DEF Close
<1>11. /\ h = [p \in Peers |-> h[p]]
       /\ \A p \in Peers : h[p] = w.peer[p] \/ h[p] = [w.peer[p] EXCEPT !.status = Down(@)]
  BY <1>1, <1>6, NowParts DEF Close
<1>12. \A p \in Peers :
           /\ PeerShaped(h[p])
           /\ w.peer[p].status \in Linked <=> h[p].status \in Linked
           /\ w.peer[p].status \in {"new", "failed"} => h[p].status \in {"new", "failed"}
  <2> SUFFICES ASSUME NEW p \in Peers
               PROVE  /\ PeerShaped(h[p])
                      /\ w.peer[p].status \in Linked <=> h[p].status \in Linked
                      /\ w.peer[p].status \in {"new", "failed"} => h[p].status \in {"new", "failed"}
    OBVIOUS
  <2>1. PICK o : o = w.peer[p]
    OBVIOUS
  <2>2. PeerShaped(o)
    BY <1>3, <2>1 DEF Good
  <2>3. PICK d : d = [o EXCEPT !.status = Down(@)]
    OBVIOUS
  <2>4. /\ PeerShaped(d)
        /\ o.status \in Linked <=> d.status \in Linked
        /\ o.status \in {"new", "failed"} => d.status \in {"new", "failed"}
    BY <2>2, <2>3, DownGood
  <2>5. h[p] = o \/ h[p] = d
    BY <1>11, <2>1, <2>3
  <2> QED BY <2>1, <2>2, <2>4, <2>5
<1>13. WorldShaped(v)
  BY <1>3, <1>7, <1>9, <1>10, <1>11 DEF Good, WorldShaped
<1>14. ASSUME NEW u \in Tabs PROVE TabGood(v, c, u, v.tab[u])
  <2>1. CASE u = t
    BY <1>7, <1>9, <2>1 DEF NoRuntime, TabGood, TabShaped
  <2>2. CASE u # t
    BY <1>3, <1>7, <1>9, <1>12, <2>2 DEF Good, TabGood
  <2> QED BY <2>1, <2>2
<1>15. ASSUME NEW p \in Peers PROVE RunGood(v, c, p, v.run[p])
  <2>1. CASE g[p] = NoRun
    BY <1>7, <2>1, NoRunGood
  <2>2. CASE g[p] = w.run[p] /\ w.run[p].tab # t
    <3>1. RunGood(w, c, p, w.run[p])
      BY <1>3 DEF Good
    <3>2. p \in Guests => GuestRunGood(v, w.run[p], p)
      BY <1>7, <1>9, <2>2, <3>1 DEF RunGood, GuestRunGood, Tabs
    <3> QED BY <1>7, <1>12, <2>2, <3>1, <3>2 DEF RunGood
  <2> QED BY <1>10, <2>1, <2>2
<1>16. Good(v, c) /\ Keeps(w, v)
  <2>1. RecordGood(v, c) /\ \A q \in v.calls : CallGood(v, q)
    BY <1>3, <1>7, <1>12 DEF Good, RecordGood, AttemptGood, CallGood, Peers, Instances
  <2> QED BY <1>3, <1>7, <1>13, <1>14, <1>15, <1>12, <2>1 DEF Good, Keeps
<1> QED BY <1>1, <1>3, <1>8, <1>16, BecomeGood

\* The match begins with both peers connected.
LEMMA InitGood ==
    ASSUME Init
    PROVE  IInv
<1>1. WorldShaped(Now)
  BY DEF Init, Now, WorldShaped
<1>2. ASSUME NEW p \in Peers PROVE PeerShaped(peer[p]) /\ run[p] = NoRun
  BY DEF Init, PeerShaped
<1>3. FirstHost \in Peers /\ peer[FirstHost].status \in Linked
  BY ReconnectAssumption DEF Init, Peers, Instances, Linked
<1>4. ASSUME NEW t \in Tabs PROVE TabGood(Now, control, t, tab[t])
  <2>1. PICK p : p = IF t \in HostTabs THEN FirstHost ELSE FirstGuest
    OBVIOUS
  <2>2. CASE t # FirstTab[PlayerOf(t)]
    BY <2>2 DEF Init, NoRuntime, TabGood, TabShaped
  <2>3. CASE t = FirstTab[PlayerOf(t)]
    <3>1. PICK a : a = [NoRuntime EXCEPT !.peer = p]
      OBVIOUS
    <3>2. PICK b : b = [a EXCEPT !.session = TRUE]
      OBVIOUS
    <3>3. PICK d : d = [b EXCEPT !.claim = p]
      OBVIOUS
    <3>4. PICK e : e = [d EXCEPT !.bound = IF t \in HostTabs THEN p ELSE None]
      OBVIOUS
    <3>5. tab[t] = e
      <4>1. tab[t] = [NoRuntime EXCEPT !.peer = p, !.session = TRUE, !.claim = p,
                                       !.bound = IF t \in HostTabs THEN p ELSE None]
        BY <2>1, <2>3 DEF Init
      <4> QED BY <3>1, <3>2, <3>3, <3>4, <4>1
    <3>6. a = [peer |-> p, session |-> FALSE, inFlight |-> FALSE, own |-> None,
               rebind |-> FALSE, bound |-> None, retry |-> None, claim |-> None,
               beat |-> "idle", notice |-> None]
      BY <3>1 DEF NoRuntime
    <3>7. d = [peer |-> p, session |-> TRUE, inFlight |-> FALSE, own |-> None,
               rebind |-> FALSE, bound |-> None, retry |-> None, claim |-> p,
               beat |-> "idle", notice |-> None]
      BY <3>2, <3>3, <3>6
    <3>8. PICK n : n = IF t \in HostTabs THEN p ELSE None
      OBVIOUS
    <3>9. e = [peer |-> p, session |-> TRUE, inFlight |-> FALSE, own |-> None,
               rebind |-> FALSE, bound |-> n, retry |-> None, claim |-> p,
               beat |-> "idle", notice |-> None]
      BY <3>4, <3>7, <3>8
    <3>10. TabShaped(e) /\ e.peer = p /\ e.bound = n /\ e.retry = None /\ e.beat = "idle"
      BY <3>9 DEF TabShaped
    <3>11. n # None => n = p /\ p = FirstHost
      BY <2>1, <3>8
    <3> QED BY <1>3, <3>5, <3>10, <3>11, NowParts DEF TabGood
  <2> QED BY <2>2, <2>3
<1>5. ASSUME NEW p \in Peers PROVE RunGood(Now, control, p, run[p])
  BY <1>2, NoRunGood
<1>6. RecordGood(Now, control)
  <2>1. PICK k : k = RegisteredControl(0)
    OBVIOUS
  <2>2. PICK f : f = [r \in Roles |-> IF r = "host" THEN FirstHost ELSE FirstGuest]
    OBVIOUS
  <2>3. PICK n : n = 0 + Ttl
    OBVIOUS
  <2>4. k = [state |-> "open", claim |-> [r \in Roles |-> None], attempt |-> IdleAttempt,
             expiresAt |-> n]
    BY <2>1, <2>3 DEF RegisteredControl
  <2>5. control = [k EXCEPT !.claim = f]
    BY <2>1, <2>2 DEF Init
  <2>6. control = [state |-> "open", claim |-> f, attempt |-> IdleAttempt, expiresAt |-> n]
    BY <2>4, <2>5
  <2>7. control.claim = f /\ control.attempt = IdleAttempt /\ RecordShaped(control)
    BY <2>2, <2>6 DEF RecordShaped
  <2> QED BY <2>7, IdleGood DEF RecordGood
<1> QED BY <1>1, <1>2, <1>4, <1>5, <1>6, NowParts DEF IInv, Good, Init

\* Every step keeps the invariant, and the records as promised.
LEMMA StepOK ==
    ASSUME IInv, [Next]_vars
    PROVE  IInv' /\ RecordGoes
<1>1. Kept \/ control = None => RecordGoes
  BY DEF Kept, RecordGoes
<1>2. ASSUME NEW p \in Peers, Attempting(p) \/ Linking(p)
      PROVE  IInv' /\ RecordGoes
  BY <1>1, <1>2, ResumeStep, GatherStep, LosingStep, PollStep, OpenStep DEF Attempting, Linking
<1>3. ASSUME NEW t \in Tabs, Running(t) \/ Choosing(t)
      PROVE  IInv' /\ RecordGoes
  BY <1>1, <1>3, ReplayStep, HeartbeatStep, HeartbeatFailsStep, RetryStep, OpenRoomStep,
     LeaveStep, CloseStep DEF Running, Choosing
<1>4. ASSUME NEW q \in calls, Serve(q) \/ Vanish(q)
      PROVE  IInv' /\ RecordGoes
  BY <1>1, <1>4, CallStep
<1>5. CASE Lapse
  BY <1>1, <1>5, LapseStep
<1>6. CASE UNCHANGED vars
  <2>1. Now' = Now /\ control' = control /\ saved' = saved
    BY <1>6 DEF vars, Now
  <2>2. Good(Now', control')
    BY <2>1 DEF IInv
  <2> QED BY <2>1, <2>2 DEF IInv, RecordGoes
<1> QED BY <1>2, <1>3, <1>4, <1>5, <1>6 DEF Next

-----------------------------------------------------------------------------
(***************************************************************************)
(* The types.  What a variable may hold is said of the worlds on the way,  *)
(* too: each operator keeps it.                                            *)
(***************************************************************************)
Own(t) == {p \in Peers : RoleOf(p) = PlayerOf(t)} \cup {None}

TabTyped(t, r) ==
    /\ TabShaped(r)
    /\ {r.peer, r.own, r.bound, r.retry, r.claim} \subseteq Own(t)
    /\ r.beat \in {"idle", "sent", "forbidden", "gone"}
    /\ r.notice \in {None, "failed", "displaced", "unavailable"}

\* What a poll has found, or the attempt is to apply, is from the other side.
RunTyped(p, r) ==
    /\ RunShaped(r)
    /\ r.step \in IceSteps \cup Polls \cup CallSteps \cup {"none", "connect"}
    /\ r.step # "none" =>
          r.tab \in Tabs /\ PlayerOf(r.tab) = RoleOf(p) /\ (r.kind = "retry" => RoleOf(p) = "host")
    /\ r.step \in {"create-offer", "offer", "read-answer", "apply"} => p \in Hosts
    /\ r.step \in {"read-offer", "create-answer", "answer"} => p \in Guests
    /\ r.step = "create-answer" \/ (r.step = "read-offer" /\ r.reply = "ok") => r.got \in Hosts
    /\ r.step = "apply" \/ (r.step = "read-answer" /\ r.reply = "ok") => r.got \in Guests

PeerTyped(p, r) ==
    /\ PeerShaped(r)
    /\ r.status \in {"unused", "new", "connecting", "connected", "lost", "failed"}
    /\ r.other # None => RoleOf(r.other) # RoleOf(p)

CallTyped(q) ==
    /\ q.from \in Peers /\ q.op \in ControlOps /\ q.role \in Roles /\ q.at = 0
    /\ q.op \in {"offer", "answer"} => q.value = q.from
    /\ q.op = "finalize" => q.value \in Outcomes

Typed(w) ==
    /\ WorldShaped(w)
    /\ \A q \in w.calls : CallTyped(q)
    /\ \A t \in Tabs : TabTyped(t, w.tab[t])
    /\ \A p \in Peers : RunTyped(p, w.run[p]) /\ PeerTyped(p, w.peer[p])

\* The tabs, the peers and the requests of the two worlds are the same.
SameButRuns(w, v) == v.tab = w.tab /\ v.peer = w.peer /\ v.calls = w.calls
SameRest(w, v) == v.run = w.run /\ v.peer = w.peer /\ v.calls = w.calls

\* Another runtime in a tab.
LEMMA PutTab ==
    ASSUME NEW w, Typed(w), NEW t, NEW r, t \in Tabs => TabTyped(t, r)
    PROVE  LET v == [w EXCEPT !.tab = [w.tab EXCEPT ![t] = r]] IN Typed(v) /\ SameRest(w, v)
<1> DEFINE f == [w.tab EXCEPT ![t] = r]
           v == [w EXCEPT !.tab = f]
<1>1. v = [calls |-> w.calls, tab |-> f, run |-> w.run, peer |-> w.peer, saved |-> w.saved]
  BY DEF Typed, WorldShaped
<1>2. f = [u \in Tabs |-> f[u]] /\ \A u \in Tabs : f[u] = IF u = t THEN r ELSE w.tab[u]
  BY DEF Typed, WorldShaped
<1> HIDE DEF f, v
<1>3. WorldShaped(v)
  BY <1>1, <1>2 DEF Typed, WorldShaped
<1> QED BY <1>1, <1>2, <1>3 DEF Typed, SameRest, v, f

\* Other runtimes in all the tabs.
LEMMA PutTabs ==
    ASSUME NEW w, Typed(w), NEW f, f = [u \in Tabs |-> f[u]], \A u \in Tabs : TabTyped(u, f[u])
    PROVE  LET v == [w EXCEPT !.tab = f] IN Typed(v) /\ v.run = w.run
<1> DEFINE v == [w EXCEPT !.tab = f]
<1>1. v = [calls |-> w.calls, tab |-> f, run |-> w.run, peer |-> w.peer, saved |-> w.saved]
  BY DEF Typed, WorldShaped
<1> HIDE DEF v
<1>2. WorldShaped(v)
  BY <1>1 DEF Typed, WorldShaped
<1> QED BY <1>1, <1>2 DEF Typed, v

\* w with another state of an attempt.
RunPut(w, v, p, r) ==
    /\ Typed(v) /\ SameButRuns(w, v)
    /\ \A u \in Peers : v.run[u] = IF u = p THEN r ELSE w.run[u]

\* Another state of an attempt.
LEMMA PutRun ==
    ASSUME NEW w, Typed(w), NEW p, NEW r, p \in Peers => RunTyped(p, r)
    PROVE  RunPut(w, [w EXCEPT !.run = [w.run EXCEPT ![p] = r]], p, r)
<1> DEFINE f == [w.run EXCEPT ![p] = r]
           v == [w EXCEPT !.run = f]
<1>1. v = [calls |-> w.calls, tab |-> w.tab, run |-> f, peer |-> w.peer, saved |-> w.saved]
  BY DEF Typed, WorldShaped
<1>2. f = [u \in Peers |-> f[u]] /\ \A u \in Peers : f[u] = IF u = p THEN r ELSE w.run[u]
  BY DEF Typed, WorldShaped
<1> HIDE DEF f, v
<1>3. WorldShaped(v)
  BY <1>1, <1>2 DEF Typed, WorldShaped
<1> QED BY <1>1, <1>2, <1>3 DEF Typed, RunPut, SameButRuns, v, f

\* Another state of a peer.
LEMMA PutPeer ==
    ASSUME NEW w, Typed(w), NEW p, NEW r, p \in Peers => PeerTyped(p, r)
    PROVE  LET v == [w EXCEPT !.peer = [w.peer EXCEPT ![p] = r]]
           IN  Typed(v) /\ v.run = w.run /\ v.tab = w.tab /\ v.calls = w.calls
<1> DEFINE f == [w.peer EXCEPT ![p] = r]
           v == [w EXCEPT !.peer = f]
<1>1. v = [calls |-> w.calls, tab |-> w.tab, run |-> w.run, peer |-> f, saved |-> w.saved]
  BY DEF Typed, WorldShaped
<1>2. f = [u \in Peers |-> f[u]] /\ \A u \in Peers : f[u] = IF u = p THEN r ELSE w.peer[u]
  BY DEF Typed, WorldShaped
<1> HIDE DEF f, v
<1>3. WorldShaped(v)
  BY <1>1, <1>2 DEF Typed, WorldShaped
<1> QED BY <1>1, <1>2, <1>3 DEF Typed, v, f

\* Other requests under way.
LEMMA PutCalls ==
    ASSUME NEW w, Typed(w), NEW s, \A q \in s : CallTyped(q)
    PROVE  LET v == [w EXCEPT !.calls = s]
           IN  Typed(v) /\ v.run = w.run /\ v.tab = w.tab /\ v.peer = w.peer
<1> DEFINE v == [w EXCEPT !.calls = s]
<1>1. v = [calls |-> s, tab |-> w.tab, run |-> w.run, peer |-> w.peer, saved |-> w.saved]
  BY DEF Typed, WorldShaped
<1> HIDE DEF v
<1>2. WorldShaped(v)
  BY <1>1 DEF Typed, WorldShaped
<1> QED BY <1>1, <1>2 DEF Typed, v

\* What is stored of a player.
LEMMA PutSaved ==
    ASSUME NEW w, Typed(w), NEW role, NEW x
    PROVE  LET v == [w EXCEPT !.saved[role] = x]
           IN  Typed(v) /\ v.run = w.run /\ v.tab = w.tab /\ v.peer = w.peer
<1>1. PICK s : s = [w.saved EXCEPT ![role] = x]
  OBVIOUS
<1> DEFINE v == [w EXCEPT !.saved = s]
<1>2. [w EXCEPT !.saved[role] = x] = v
  BY <1>1
<1>3. s = [r \in Roles |-> s[r]]
  BY <1>1 DEF Typed, WorldShaped
<1>4. v = [calls |-> w.calls, tab |-> w.tab, run |-> w.run, peer |-> w.peer, saved |-> s]
  BY DEF Typed, WorldShaped
<1> HIDE DEF v
<1>5. WorldShaped(v)
  BY <1>3, <1>4 DEF Typed, WorldShaped
<1>6. Typed(v)
  BY <1>4, <1>5 DEF Typed
<1>7. v.run = w.run /\ v.tab = w.tab /\ v.peer = w.peer
  BY <1>4
<1> QED BY <1>2, <1>6, <1>7

\* One field of a runtime.
LEMMA PutField ==
    ASSUME NEW w, Typed(w), NEW t, NEW x
    PROVE  /\ LET v == [w EXCEPT !.tab[t].session = x] IN Typed(v) /\ SameRest(w, v)
           /\ LET v == [w EXCEPT !.tab[t].inFlight = x] IN Typed(v) /\ SameRest(w, v)
           /\ LET v == [w EXCEPT !.tab[t].rebind = x] IN Typed(v) /\ SameRest(w, v)
           /\ LET v == [w EXCEPT !.tab[t].peer = x]
              IN  (t \in Tabs => x \in Own(t)) => Typed(v) /\ SameRest(w, v)
           /\ LET v == [w EXCEPT !.tab[t].own = x]
              IN  (t \in Tabs => x \in Own(t)) => Typed(v) /\ SameRest(w, v)
           /\ LET v == [w EXCEPT !.tab[t].bound = x]
              IN  (t \in Tabs => x \in Own(t)) => Typed(v) /\ SameRest(w, v)
           /\ LET v == [w EXCEPT !.tab[t].retry = x]
              IN  (t \in Tabs => x \in Own(t)) => Typed(v) /\ SameRest(w, v)
           /\ LET v == [w EXCEPT !.tab[t].claim = x]
              IN  (t \in Tabs => x \in Own(t)) => Typed(v) /\ SameRest(w, v)
           /\ LET v == [w EXCEPT !.tab[t].beat = x]
              IN  x \in {"idle", "sent", "forbidden", "gone"} => Typed(v) /\ SameRest(w, v)
           /\ LET v == [w EXCEPT !.tab[t].notice = x]
              IN  x \in {None, "failed", "displaced", "unavailable"} =>
                      Typed(v) /\ SameRest(w, v)
<1> DEFINE Put(r) == [w EXCEPT !.tab = [w.tab EXCEPT ![t] = r]]
           old == w.tab[t]
<1>1. ASSUME NEW r, t \in Tabs => TabTyped(t, r)
      PROVE  Typed(Put(r)) /\ SameRest(w, Put(r))
  BY <1>1, PutTab
<1>2. t \in Tabs => TabTyped(t, old)
  BY DEF Typed
<1>3. /\ [w EXCEPT !.tab[t].session = x] = Put([old EXCEPT !.session = x])
      /\ [w EXCEPT !.tab[t].inFlight = x] = Put([old EXCEPT !.inFlight = x])
      /\ [w EXCEPT !.tab[t].rebind = x] = Put([old EXCEPT !.rebind = x])
      /\ [w EXCEPT !.tab[t].peer = x] = Put([old EXCEPT !.peer = x])
      /\ [w EXCEPT !.tab[t].own = x] = Put([old EXCEPT !.own = x])
      /\ [w EXCEPT !.tab[t].bound = x] = Put([old EXCEPT !.bound = x])
      /\ [w EXCEPT !.tab[t].retry = x] = Put([old EXCEPT !.retry = x])
      /\ [w EXCEPT !.tab[t].claim = x] = Put([old EXCEPT !.claim = x])
      /\ [w EXCEPT !.tab[t].beat = x] = Put([old EXCEPT !.beat = x])
      /\ [w EXCEPT !.tab[t].notice = x] = Put([old EXCEPT !.notice = x])
  OBVIOUS
<1> HIDE DEF Put, old
<1>4. t \in Tabs => /\ TabTyped(t, [old EXCEPT !.session = x])
                    /\ TabTyped(t, [old EXCEPT !.inFlight = x])
                    /\ TabTyped(t, [old EXCEPT !.rebind = x])
  BY <1>2 DEF TabTyped, TabShaped
<1>5. t \in Tabs /\ x \in Own(t) => /\ TabTyped(t, [old EXCEPT !.peer = x])
                                    /\ TabTyped(t, [old EXCEPT !.own = x])
                                    /\ TabTyped(t, [old EXCEPT !.bound = x])
                                    /\ TabTyped(t, [old EXCEPT !.retry = x])
                                    /\ TabTyped(t, [old EXCEPT !.claim = x])
  BY <1>2 DEF TabTyped, TabShaped
<1>6. t \in Tabs /\ x \in {"idle", "sent", "forbidden", "gone"} =>
          TabTyped(t, [old EXCEPT !.beat = x])
  BY <1>2 DEF TabTyped, TabShaped
<1>7. t \in Tabs /\ x \in {None, "failed", "displaced", "unavailable"} =>
          TabTyped(t, [old EXCEPT !.notice = x])
  BY <1>2 DEF TabTyped, TabShaped
<1>8. ASSUME NEW v, NEW r, v = Put(r), t \in Tabs => TabTyped(t, r)
      PROVE  Typed(v) /\ SameRest(w, v)
  BY <1>1, <1>8
<1>9. /\ Typed([w EXCEPT !.tab[t].session = x])
      /\ SameRest(w, [w EXCEPT !.tab[t].session = x])
  BY ONLY <1>3, <1>4, <1>8
<1>10. /\ Typed([w EXCEPT !.tab[t].inFlight = x])
       /\ SameRest(w, [w EXCEPT !.tab[t].inFlight = x])
  BY ONLY <1>3, <1>4, <1>8
<1>11. /\ Typed([w EXCEPT !.tab[t].rebind = x])
       /\ SameRest(w, [w EXCEPT !.tab[t].rebind = x])
  BY ONLY <1>3, <1>4, <1>8
<1>12. (t \in Tabs => x \in Own(t)) =>
           /\ Typed([w EXCEPT !.tab[t].peer = x]) /\ SameRest(w, [w EXCEPT !.tab[t].peer = x])
           /\ Typed([w EXCEPT !.tab[t].own = x]) /\ SameRest(w, [w EXCEPT !.tab[t].own = x])
           /\ Typed([w EXCEPT !.tab[t].bound = x]) /\ SameRest(w, [w EXCEPT !.tab[t].bound = x])
           /\ Typed([w EXCEPT !.tab[t].retry = x]) /\ SameRest(w, [w EXCEPT !.tab[t].retry = x])
           /\ Typed([w EXCEPT !.tab[t].claim = x]) /\ SameRest(w, [w EXCEPT !.tab[t].claim = x])
  BY ONLY <1>3, <1>5, <1>8
<1>13. x \in {"idle", "sent", "forbidden", "gone"} =>
           Typed([w EXCEPT !.tab[t].beat = x]) /\ SameRest(w, [w EXCEPT !.tab[t].beat = x])
  BY ONLY <1>3, <1>6, <1>8
<1>14. x \in {None, "failed", "displaced", "unavailable"} =>
           Typed([w EXCEPT !.tab[t].notice = x]) /\ SameRest(w, [w EXCEPT !.tab[t].notice = x])
  BY ONLY <1>3, <1>7, <1>8
<1> QED BY ONLY <1>9, <1>10, <1>11, <1>12, <1>13, <1>14

\* An attempt may go on to a step, by its side and what it has read.
Fits(w, p, step) ==
    /\ w.run[p].step # "none"
    /\ step \in IceSteps \cup Polls \cup CallSteps \cup {"connect"}
    /\ step \in {"create-offer", "offer", "read-answer", "apply"} => p \in Hosts
    /\ step \in {"read-offer", "create-answer", "answer"} => p \in Guests
    /\ step = "create-answer" => w.run[p].got \in Hosts
    /\ step = "apply" => w.run[p].got \in Guests

\* An attempt waits for something else.
LEMMA WaitingTyped ==
    ASSUME NEW w, Typed(w), NEW p \in Peers, NEW step, Fits(w, p, step)
    PROVE  LET v == Waiting(w, p, step)
           IN  /\ Typed(v) /\ SameButRuns(w, v)
               /\ v.run[p].step = step /\ v.run[p].tab = w.run[p].tab
               /\ v.run[p].got = w.run[p].got
               /\ \A u \in Peers : u # p => v.run[u] = w.run[u]
<1>1. PICK o : o = w.run[p]
  OBVIOUS
<1>2. PICK r : r = [o EXCEPT !.step = step, !.reply = None]
  OBVIOUS
<1>3. RunTyped(p, o)
  BY <1>1 DEF Typed
<1>4. r = [step |-> step, tab |-> o.tab, kind |-> o.kind, reply |-> None, got |-> o.got,
           aborted |-> o.aborted]
  BY <1>2, <1>3, RunStep DEF RunTyped
<1>5. /\ r.step = step /\ r.tab = o.tab /\ r.kind = o.kind /\ r.reply = None /\ r.got = o.got
      /\ RunShaped(r)
  BY <1>4 DEF RunShaped
<1>6. None # "ok"
  BY ReconnectAssumption
<1>7. RunTyped(p, r)
  BY <1>1, <1>3, <1>5, <1>6 DEF RunTyped, Fits
<1> DEFINE v == [w EXCEPT !.run = [w.run EXCEPT ![p] = r]]
<1>8. RunPut(w, v, p, r)
  BY <1>7, PutRun
<1>9. Waiting(w, p, step) = v
  BY <1>1, <1>2 DEF Waiting
<1> HIDE DEF v
<1> QED BY <1>1, <1>5, <1>8, <1>9 DEF RunPut

\* An attempt sends a request.
LEMMA CallingTyped ==
    ASSUME NEW w, Typed(w), NEW p \in Peers, NEW step, Fits(w, p, step),
           NEW op \in ControlOps, NEW value,
           op \in {"offer", "answer"} => value = p,
           op = "finalize" => value \in Outcomes
    PROVE  LET v == Calling(w, p, step, op, value)
           IN  /\ Typed(v) /\ v.run[p].step = step /\ v.run[p].got = w.run[p].got
               /\ \A u \in Peers : u # p => v.run[u] = w.run[u]
<1>1. PICK u : u = Waiting(w, p, step)
  OBVIOUS
<1>2. PICK q : q = Request(op, p, value)
  OBVIOUS
<1>3. PICK s : s = w.calls \cup {q}
  OBVIOUS
<1>4. /\ Typed(u) /\ SameButRuns(w, u) /\ u.run[p].step = step
      /\ u.run[p].got = w.run[p].got
      /\ \A x \in Peers : x # p => u.run[x] = w.run[x]
  BY <1>1, WaitingTyped
<1>5. CallTyped(q)
  BY <1>2 DEF Request, CallTyped, RoleOf, Roles
<1>6. \A x \in s : CallTyped(x)
  BY <1>3, <1>5 DEF Typed
<1> DEFINE v == [u EXCEPT !.calls = s]
<1>7. Typed(v) /\ v.run = u.run
  BY <1>4, <1>6, PutCalls
<1>8. Calling(w, p, step, op, value) = v
  <2>1. Calling(w, p, step, op, value) = [u EXCEPT !.calls = @ \cup {q}]
    BY <1>1, <1>2 DEF Calling, Waiting
  <2>2. u.calls = w.calls
    BY <1>4 DEF SameButRuns
  <2> QED BY <1>3, <2>1, <2>2
<1> HIDE DEF v
<1> QED BY <1>4, <1>7, <1>8

\* A peer goes down.
LEMMA DownTyped ==
    ASSUME NEW p, NEW r, PeerTyped(p, r)
    PROVE  PeerTyped(p, [r EXCEPT !.status = Down(@)])
<1>1. PICK d : d = [r EXCEPT !.status = Down(@)]
  OBVIOUS
<1>2. d = [status |-> Down(r.status), other |-> r.other]
  BY <1>1 DEF PeerTyped, PeerShaped
<1>3. d.status \in {"lost", "failed"} /\ d.other = r.other /\ PeerShaped(d)
  BY <1>2 DEF Down, PeerShaped
<1> QED BY <1>1, <1>3 DEF PeerTyped

\* An attempt that is over, and a runtime with nothing in it but what it says.
LEMMA NothingTyped ==
    ASSUME NEW p, NEW t, NEW x \in {None, "failed", "displaced", "unavailable"}
    PROVE  RunTyped(p, NoRun) /\ TabTyped(t, [NoRuntime EXCEPT !.notice = x])
<1>1. RunTyped(p, NoRun)
  BY DEF RunTyped, RunShaped, NoRun
<1>2. PICK r : r = [NoRuntime EXCEPT !.notice = x]
  OBVIOUS
<1>3. r = [peer |-> None, session |-> FALSE, inFlight |-> FALSE, own |-> None,
           rebind |-> FALSE, bound |-> None, retry |-> None, claim |-> None,
           beat |-> "idle", notice |-> x]
  BY <1>2 DEF NoRuntime
<1>4. /\ r.peer = None /\ r.own = None /\ r.bound = None /\ r.retry = None /\ r.claim = None
      /\ r.beat = "idle" /\ r.notice = x /\ TabShaped(r)
  BY <1>3 DEF TabShaped
<1> QED BY <1>1, <1>2, <1>4 DEF TabTyped, Own

\* What gathers goes on gathering, and what gathers is not over.
IceKept(w, v) == \A u \in Peers : w.run[u].step \in IceSteps => v.run[u].step \in IceSteps
IceLives(w, v) ==
    \A u \in Peers : w.run[u].step \in IceSteps => v.run[u].step \in IceSteps \cup {"claim"}

\* teardownRuntime.
LEMMA TeardownTyped ==
    ASSUME NEW w, Typed(w), NEW t
    PROVE  LET v == Teardown(w, t) IN Typed(v) /\ IceKept(w, v)
<1> DEFINE old == w.tab[t].peer
           H == Halted(w, t)
           halted == [p \in Peers |->
                         IF p \notin H THEN w.run[p]
                         ELSE IF w.run[p].step \in IceSteps
                              THEN [w.run[p] EXCEPT !.aborted = TRUE] ELSE NoRun]
           down == [p \in Peers |->
                       IF p = old THEN [w.peer[p] EXCEPT !.status = Down(@)] ELSE w.peer[p]]
           empty == [NoRuntime EXCEPT !.notice = w.tab[t].notice]
<1>1. ASSUME NEW p \in Peers
      PROVE  /\ RunTyped(p, halted[p]) /\ PeerTyped(p, down[p])
             /\ w.run[p].step \in IceSteps => halted[p].step \in IceSteps
  <2>1. PICK r : r = w.run[p]
    OBVIOUS
  <2>2. RunTyped(p, r) /\ PeerTyped(p, w.peer[p])
    BY <2>1 DEF Typed
  <2>3. PICK z : z = [r EXCEPT !.aborted = TRUE]
    OBVIOUS
  <2>4. z = [step |-> r.step, tab |-> r.tab, kind |-> r.kind, reply |-> r.reply,
             got |-> r.got, aborted |-> TRUE]
    BY <2>2, <2>3 DEF RunTyped, RunShaped
  <2>5. /\ z.step = r.step /\ z.tab = r.tab /\ z.kind = r.kind /\ z.reply = r.reply
        /\ z.got = r.got /\ RunShaped(z)
    BY <2>4 DEF RunShaped
  <2>6. RunTyped(p, z)
    BY <2>2, <2>5 DEF RunTyped
  <2>7. RunTyped(p, NoRun)
    BY NothingTyped
  <2>8. \/ halted[p] = r
        \/ halted[p] = z
        \/ halted[p] = NoRun /\ r.step \notin IceSteps
    BY <2>1, <2>3
  <2>9. PeerTyped(p, down[p])
    BY <2>2, DownTyped
  <2> HIDE DEF halted, down
  <2> QED BY <2>1, <2>2, <2>5, <2>6, <2>7, <2>8, <2>9
<1>2. halted = [p \in Peers |-> halted[p]] /\ down = [p \in Peers |-> down[p]]
  OBVIOUS
<1>3. PICK e : e = empty
  OBVIOUS
<1>4. t \in Tabs => TabTyped(t, e)
  BY <1>3, NothingTyped DEF Typed, TabTyped
<1> HIDE DEF halted, down, empty, H, old
<1>5. PICK f, g : f = halted /\ g = down
  OBVIOUS
<1>6. PICK x : x = [w EXCEPT !.run = f, !.peer = g]
  OBVIOUS
<1>7. x = [calls |-> w.calls, tab |-> w.tab, run |-> f, peer |-> g, saved |-> w.saved]
  <2>1. WorldShaped(w)
    BY DEF Typed
  <2> QED BY ONLY <1>6, <2>1 DEF WorldShaped
<1>8. WorldShaped(x)
  BY <1>2, <1>5, <1>7 DEF WorldShaped, Typed
<1>9. Typed(x) /\ IceKept(w, x)
  BY <1>1, <1>5, <1>7, <1>8 DEF Typed, IceKept
<1> DEFINE v == [x EXCEPT !.tab = [x.tab EXCEPT ![t] = e]]
<1>10. Typed(v) /\ v.run = x.run
  <2>1. Typed(v) /\ SameRest(x, v)
    BY <1>4, <1>9, PutTab
  <2> QED BY ONLY <2>1 DEF SameRest
<1>11. Teardown(w, t) = v
  <2>1. Teardown(w, t) = [w EXCEPT !.run = f, !.peer = g, !.tab[t] = e]
    BY <1>3, <1>5 DEF Teardown, halted, down, empty, H, old
  <2> QED BY <1>6, <2>1
<1> HIDE DEF v
<1> QED BY <1>9, <1>10, <1>11 DEF IceKept

\* A new attempt is of a peer of its tab's player.
LEMMA BeginTyped ==
    ASSUME NEW w, Typed(w), NEW t \in Tabs, NEW n \in Peers, NEW kind, RoleOf(n) = PlayerOf(t),
           kind = "retry" => RoleOf(n) = "host"
    PROVE  LET v == Begin(w, t, n, kind) IN Typed(v) /\ IceLives(w, v)
<1>1. PICK o : o = w.peer[n]
  OBVIOUS
<1>2. PICK r : r = [o EXCEPT !.status = "new"]
  OBVIOUS
<1>3. PICK a : a = Attempt(t, kind)
  OBVIOUS
<1>4. PeerTyped(n, r)
  <2>1. PeerTyped(n, o)
    BY <1>1 DEF Typed
  <2>2. r = [status |-> "new", other |-> o.other]
    BY <1>2, <2>1 DEF PeerTyped, PeerShaped
  <2>3. r.status = "new" /\ r.other = o.other /\ PeerShaped(r)
    BY <2>2 DEF PeerShaped
  <2> QED BY <2>1, <2>3 DEF PeerTyped
<1>5. a = [step |-> "claim", tab |-> t, kind |-> kind, reply |-> None, got |-> None,
           aborted |-> FALSE]
  BY <1>3 DEF Attempt, NoRun
<1>6. a.step = "claim" /\ a.tab = t /\ a.kind = kind /\ RunShaped(a)
  BY <1>5 DEF RunShaped
<1>7. RunTyped(n, a)
  BY <1>6 DEF RunTyped, CallSteps
<1> DEFINE x == [w EXCEPT !.peer = [w.peer EXCEPT ![n] = r]]
<1>8. Typed(x) /\ x.run = w.run
  BY <1>4, PutPeer
<1> HIDE DEF x
<1> DEFINE y == [x EXCEPT !.run = [x.run EXCEPT ![n] = a]]
<1>9. Typed(y) /\ \A u \in Peers : y.run[u] = IF u = n THEN a ELSE x.run[u]
  <2>1. RunPut(x, y, n, a)
    BY <1>7, <1>8, PutRun
  <2> QED BY ONLY <2>1 DEF RunPut
<1> HIDE DEF y
<1> DEFINE z == [y EXCEPT !.saved[PlayerOf(t)] = TRUE]
<1>10. Typed(z) /\ z.run = y.run
  BY <1>9, PutSaved
<1>11. Begin(w, t, n, kind) = Calling(z, n, "claim", "claim", None)
  <2>1. [w EXCEPT !.peer[n].status = "new", !.run[n] = a, !.saved[PlayerOf(t)] = TRUE] = z
    BY <1>1, <1>2 DEF x, y, z
  <2> QED BY <1>3, <2>1 DEF Begin
<1> HIDE DEF z
<1>12. z.run[n].step = "claim"
  BY <1>6, <1>9, <1>10
<1>13. Fits(z, n, "claim")
  BY <1>12 DEF Fits, CallSteps
<1>14. /\ Typed(Calling(z, n, "claim", "claim", None))
       /\ Calling(z, n, "claim", "claim", None).run[n].step = "claim"
       /\ \A u \in Peers : u # n => Calling(z, n, "claim", "claim", None).run[u] = z.run[u]
  <2>1. "claim" \in ControlOps /\ "claim" \notin {"offer", "answer"} /\ "claim" # "finalize"
    BY DEF ControlOps
  <2> QED BY <1>10, <1>13, <2>1, CallingTyped
<1>15. \A u \in Peers : u # n => z.run[u] = w.run[u]
  BY <1>8, <1>9, <1>10
<1> QED BY <1>11, <1>14, <1>15 DEF IceLives

\* A peer that nobody has used is of the player it is taken for.
LEMMA FreshTyped ==
    ASSUME NEW role, Spare(role)
    PROVE  Fresh(role) \in Peers /\ RoleOf(Fresh(role)) = role
  BY DEF Spare, Fresh

\* reconnect(roomCode).
LEMMA ReconnectTyped ==
    ASSUME NEW w, Typed(w), NEW t \in Tabs, Spare(PlayerOf(t))
    PROVE  LET v == Reconnect(w, t) IN Typed(v) /\ IceLives(w, v)
<1>1. PICK n : n = Fresh(PlayerOf(t))
  OBVIOUS
<1>2. n \in Peers /\ RoleOf(n) = PlayerOf(t) /\ n \in Own(t)
  BY <1>1, FreshTyped DEF Own
<1>3. PICK x : x = Teardown(w, t)
  OBVIOUS
<1>4. Typed(x) /\ IceKept(w, x)
  BY <1>3, TeardownTyped
<1>5. PICK host : host = (t \in HostTabs)
  OBVIOUS
<1>6. PICK r : r = [NoRuntime EXCEPT !.peer = n, !.session = host, !.inFlight = TRUE,
                                     !.rebind = host, !.own = IF host THEN n ELSE None]
  OBVIOUS
<1>7. PICK m : m = IF host THEN n ELSE None
  OBVIOUS
<1>8. r = [peer |-> n, session |-> host, inFlight |-> TRUE, own |-> m, rebind |-> host,
           bound |-> None, retry |-> None, claim |-> None, beat |-> "idle", notice |-> None]
  BY <1>6, <1>7 DEF NoRuntime
<1>9. /\ r.peer = n /\ r.own = m /\ r.bound = None /\ r.retry = None /\ r.claim = None
      /\ r.beat = "idle" /\ r.notice = None /\ TabShaped(r)
  BY <1>8 DEF TabShaped
<1>10. TabTyped(t, r)
  BY <1>2, <1>7, <1>9 DEF TabTyped, Own
<1> DEFINE y == [x EXCEPT !.tab = [x.tab EXCEPT ![t] = r]]
<1>11. Typed(y) /\ y.run = x.run
  BY <1>4, <1>10, PutTab DEF SameRest
<1>12. Reconnect(w, t) = Begin(y, t, n, "restore")
  <2>1. Reconnect(w, t) = Begin([x EXCEPT !.tab[t] = r], t, n, "restore")
    BY <1>1, <1>3, <1>5, <1>6 DEF Reconnect
  <2>2. [x EXCEPT !.tab[t] = r] = y
    OBVIOUS
  <2> QED BY <2>1, <2>2
<1> HIDE DEF y
<1>13. Typed(Begin(y, t, n, "restore")) /\ IceLives(y, Begin(y, t, n, "restore"))
  BY <1>2, <1>11, BeginTyped
<1> QED BY <1>4, <1>11, <1>12, <1>13 DEF IceKept, IceLives

\* handlePeerClosed of the host.
LEMMA HandlePeerClosedTyped ==
    ASSUME NEW w, Typed(w), NEW t \in HostTabs, Spare("host")
    PROVE  LET v == HandlePeerClosed(w, t) IN Typed(v) /\ IceLives(w, v)
<1>1. PICK n : n = Fresh("host")
  OBVIOUS
<1>2. t \in Tabs /\ PlayerOf(t) = "host"
  BY DEF Tabs, PlayerOf
<1>3. n \in Peers /\ RoleOf(n) = "host" /\ n \in Own(t) /\ None \in Own(t)
  BY <1>1, <1>2, FreshTyped DEF Own
<1>4. PICK o : o = w.tab[t].peer
  OBVIOUS
<1>5. PICK d : d = [w.peer[o] EXCEPT !.status = Down(@)]
  OBVIOUS
<1> DEFINE x0 == [w EXCEPT !.peer = [w.peer EXCEPT ![o] = d]]
<1>6. PICK x : x = x0
  OBVIOUS
<1>7. Typed(x) /\ x.run = w.run
  <2>1. o \in Peers => PeerTyped(o, d)
    BY <1>5, DownTyped DEF Typed
  <2>2. Typed(x0) /\ x0.run = w.run
    BY <2>1, PutPeer
  <2> QED BY <1>6, <2>2
<1>8. PICK y1 : y1 = [x EXCEPT !.tab[t].bound = None]
  OBVIOUS
<1>9. PICK y2 : y2 = [y1 EXCEPT !.tab[t].peer = n]
  OBVIOUS
<1>10. PICK y3 : y3 = [y2 EXCEPT !.tab[t].own = n]
  OBVIOUS
<1>11. PICK y4 : y4 = [y3 EXCEPT !.tab[t].inFlight = TRUE]
  OBVIOUS
<1>12. PICK y5 : y5 = [y4 EXCEPT !.tab[t].rebind = TRUE]
  OBVIOUS
<1>13. PICK y6 : y6 = [y5 EXCEPT !.tab[t].retry = None]
  OBVIOUS
<1>14. HandlePeerClosed(w, t) = Begin(y6, t, n, "retry")
  <2>1. x = [w EXCEPT !.peer[o].status = Down(@)]
    BY <1>5, <1>6
  <2>2. [w EXCEPT !.peer[o].status = Down(@), !.tab[t].bound = None, !.tab[t].peer = n,
                  !.tab[t].own = n, !.tab[t].inFlight = TRUE, !.tab[t].rebind = TRUE,
                  !.tab[t].retry = None] = y6
    BY <2>1, <1>8, <1>9, <1>10, <1>11, <1>12, <1>13
  <2> QED BY <1>1, <1>4, <2>2 DEF HandlePeerClosed
<1>15. Typed(y1) /\ SameRest(x, y1)
  <2>1. LET v == [x EXCEPT !.tab[t].bound = None]
        IN  (t \in Tabs => None \in Own(t)) => Typed(v) /\ SameRest(x, v)
    BY <1>7, PutField, Zenon
  <2> QED BY <1>3, <1>8, <2>1
<1>16. Typed(y2) /\ SameRest(y1, y2)
  <2>1. LET v == [y1 EXCEPT !.tab[t].peer = n]
        IN  (t \in Tabs => n \in Own(t)) => Typed(v) /\ SameRest(y1, v)
    BY <1>15, PutField, Zenon
  <2> QED BY <1>3, <1>9, <2>1
<1>17. Typed(y3) /\ SameRest(y2, y3)
  <2>1. LET v == [y2 EXCEPT !.tab[t].own = n]
        IN  (t \in Tabs => n \in Own(t)) => Typed(v) /\ SameRest(y2, v)
    BY <1>16, PutField, Zenon
  <2> QED BY <1>3, <1>10, <2>1
<1>18. Typed(y4) /\ SameRest(y3, y4)
  <2>1. LET v == [y3 EXCEPT !.tab[t].inFlight = TRUE] IN Typed(v) /\ SameRest(y3, v)
    BY <1>17, PutField, Zenon
  <2> QED BY <1>11, <2>1
<1>19. Typed(y5) /\ SameRest(y4, y5)
  <2>1. LET v == [y4 EXCEPT !.tab[t].rebind = TRUE] IN Typed(v) /\ SameRest(y4, v)
    BY <1>18, PutField, Zenon
  <2> QED BY <1>12, <2>1
<1>20. Typed(y6) /\ SameRest(y5, y6)
  <2>1. LET v == [y5 EXCEPT !.tab[t].retry = None]
        IN  (t \in Tabs => None \in Own(t)) => Typed(v) /\ SameRest(y5, v)
    BY <1>19, PutField, Zenon
  <2> QED BY <1>3, <1>13, <2>1
<1>21. Typed(Begin(y6, t, n, "retry")) /\ IceLives(y6, Begin(y6, t, n, "retry"))
  BY <1>2, <1>3, <1>20, BeginTyped
<1>22. y6.run = w.run
  BY <1>7, <1>15, <1>16, <1>17, <1>18, <1>19, <1>20 DEF SameRest
<1> QED BY <1>14, <1>21, <1>22 DEF IceLives

\* persistCurrentHostRecoveryRecord.
LEMMA PersistedTyped ==
    ASSUME NEW w, Typed(w), NEW t
    PROVE  LET v == Persisted(w, t) IN Typed(v) /\ v.run = w.run /\ v.tab = w.tab
  BY PutSaved DEF Persisted

\* An attempt is over.
LEMMA OverTyped ==
    ASSUME NEW w, Typed(w), NEW p
    PROVE  Typed([w EXCEPT !.run[p] = NoRun])
<1>1. PICK r : r = NoRun
  OBVIOUS
<1>2. p \in Peers => RunTyped(p, r)
  BY <1>1, NothingTyped
<1> DEFINE v == [w EXCEPT !.run = [w.run EXCEPT ![p] = r]]
<1>3. Typed(v)
  <2>1. RunPut(w, v, p, r)
    BY <1>2, PutRun
  <2> QED BY ONLY <2>1 DEF RunPut
<1>4. [w EXCEPT !.run[p] = NoRun] = v
  BY <1>1
<1> QED BY <1>3, <1>4

\* The flags of a runtime are reset.
LEMMA ResetTyped ==
    ASSUME NEW w, Typed(w), NEW t
    PROVE  Typed([w EXCEPT !.tab[t].inFlight = FALSE, !.tab[t].own = None])
<1>1. PICK x : x = [w EXCEPT !.tab[t].inFlight = FALSE]
  OBVIOUS
<1>2. PICK y : y = [x EXCEPT !.tab[t].own = None]
  OBVIOUS
<1>3. [w EXCEPT !.tab[t].inFlight = FALSE, !.tab[t].own = None] = y
  BY <1>1, <1>2
<1>4. Typed(x)
  <2>1. LET v == [w EXCEPT !.tab[t].inFlight = FALSE] IN Typed(v) /\ SameRest(w, v)
    BY PutField, Zenon
  <2> QED BY <1>1, <2>1
<1>5. Typed(y)
  <2>1. LET v == [x EXCEPT !.tab[t].own = None]
        IN  (t \in Tabs => None \in Own(t)) => Typed(v) /\ SameRest(x, v)
    BY <1>4, PutField, Zenon
  <2> QED BY <1>2, <2>1 DEF Own
<1> QED BY <1>3, <1>5

\* The "finally" of an attempt.
LEMMA FinallyTyped ==
    ASSUME NEW w, Typed(w), NEW p
    PROVE  Typed(Finally(w, p))
<1>1. PICK over : over = [w EXCEPT !.run[p] = NoRun]
  OBVIOUS
<1>2. Typed(over)
  BY <1>1, OverTyped
<1>3. PICK t : t = w.run[p].tab
  OBVIOUS
<1>4. Typed([over EXCEPT !.tab[t].inFlight = FALSE, !.tab[t].own = None])
  BY <1>2, ResetTyped
<1>5. \/ Finally(w, p) = [over EXCEPT !.tab[t].inFlight = FALSE, !.tab[t].own = None]
      \/ Finally(w, p) = over
  BY <1>1, <1>3 DEF Finally
<1> QED BY <1>2, <1>4, <1>5

\* The peer of an attempt is of the player whose tab it is in.
LEMMA RunsOwn ==
    ASSUME NEW w, Typed(w), NEW p \in Peers, w.run[p].step # "none"
    PROVE  w.run[p].tab \in Tabs /\ p \in Own(w.run[p].tab) /\ None \in Own(w.run[p].tab)
  BY DEF Typed, RunTyped, Own

\* The attempt failed.
LEMMA FailTyped ==
    ASSUME NEW w, Typed(w), NEW p \in Peers, w.run[p].step # "none"
    PROVE  Typed(Fail(w, p))
<1>1. PICK t : t = w.run[p].tab
  OBVIOUS
<1>2. PICK x : x = [w EXCEPT !.tab[t].retry = p]
  OBVIOUS
<1>3. Typed(x)
  <2>1. LET v == [w EXCEPT !.tab[t].retry = p]
        IN  (t \in Tabs => p \in Own(t)) => Typed(v) /\ SameRest(w, v)
    BY PutField, Zenon
  <2> QED BY <1>1, <1>2, <2>1, RunsOwn
<1>4. Typed(Finally(Persisted(x, t), p))
  BY <1>3, PersistedTyped, FinallyTyped
<1>5. PICK over : over = Finally(w, p)
  OBVIOUS
<1>6. Typed(over)
  BY <1>5, FinallyTyped
<1>7. PICK y : y = [over EXCEPT !.tab[t].notice = "failed"]
  OBVIOUS
<1>8. Typed(y)
  <2>1. LET v == [over EXCEPT !.tab[t].notice = "failed"]
        IN  "failed" \in {None, "failed", "displaced", "unavailable"} =>
                Typed(v) /\ SameRest(over, v)
    BY <1>6, PutField, Zenon
  <2> QED BY <1>7, <2>1
<1>9. Typed(Teardown(y, t))
  BY <1>8, TeardownTyped
<1>10. \/ Fail(w, p) = Finally(Persisted(x, t), p)
       \/ Fail(w, p) = over
       \/ Fail(w, p) = Teardown(y, t)
  BY <1>1, <1>2, <1>5, <1>7 DEF Fail
<1> QED BY <1>4, <1>6, <1>9, <1>10

\* An error that says nothing of the claim.
LEMMA AbortTyped ==
    ASSUME NEW w, Typed(w), NEW p \in Peers, w.run[p].step # "none"
    PROVE  Typed(Abort(w, p))
<1>1. Fits(w, p, "abort")
  BY DEF Fits, CallSteps
<1>2. Typed(Calling(w, p, "abort", "finalize", "aborted"))
  <2>1. "finalize" \in ControlOps /\ "finalize" \notin {"offer", "answer"} /\ "aborted" \in Outcomes
    BY DEF ControlOps, Outcomes
  <2> QED BY <1>1, <2>1, CallingTyped
<1> QED BY <1>2, FinallyTyped DEF Abort

\* handleReconnectClaimLost, handleReconnectRecoveryUnavailable.
LEMMA DeactivatedTyped ==
    ASSUME NEW w, Typed(w), NEW t, NEW notice \in {"displaced", "unavailable"}
    PROVE  Typed(Deactivated(w, t, notice))
<1>1. PICK x : x = [w EXCEPT !.tab[t].claim = None]
  OBVIOUS
<1>2. PICK y : y = [x EXCEPT !.tab[t].beat = "idle"]
  OBVIOUS
<1>3. PICK z : z = [y EXCEPT !.tab[t].notice = notice]
  OBVIOUS
<1>4. Typed(x)
  <2>1. LET v == [w EXCEPT !.tab[t].claim = None]
        IN  (t \in Tabs => None \in Own(t)) => Typed(v) /\ SameRest(w, v)
    BY PutField, Zenon
  <2> QED BY <1>1, <2>1 DEF Own
<1>5. Typed(y)
  <2>1. LET v == [x EXCEPT !.tab[t].beat = "idle"]
        IN  "idle" \in {"idle", "sent", "forbidden", "gone"} => Typed(v) /\ SameRest(x, v)
    BY <1>4, PutField, Zenon
  <2> QED BY <1>2, <2>1
<1>6. Typed(z)
  <2>1. LET v == [y EXCEPT !.tab[t].notice = notice]
        IN  notice \in {None, "failed", "displaced", "unavailable"} =>
                Typed(v) /\ SameRest(y, v)
    BY <1>5, PutField, Zenon
  <2> QED BY <1>3, <2>1
<1>7. [w EXCEPT !.tab[t].claim = None, !.tab[t].beat = "idle", !.tab[t].notice = notice] = z
  BY <1>1, <1>2, <1>3
<1>8. Typed(Teardown(z, t))
  BY <1>6, TeardownTyped
<1>9. Deactivated(w, t, notice) = z \/ Deactivated(w, t, notice) = Teardown(z, t)
  BY <1>7 DEF Deactivated
<1> QED BY <1>6, <1>8, <1>9

\* The claim is lost, or the record of the service.
LEMMA UnavailableTyped ==
    ASSUME NEW w, Typed(w), NEW t
    PROVE  Typed(ClaimLost(w, t)) /\ Typed(RecoveryUnavailable(w, t))
<1>1. Typed(ClaimLost(w, t))
  BY DeactivatedTyped DEF ClaimLost
<1>2. PICK x : x = [w EXCEPT !.saved[PlayerOf(t)] = FALSE]
  OBVIOUS
<1>3. Typed(x)
  BY <1>2, PutSaved
<1>4. Typed(Deactivated(x, t, "unavailable"))
  BY <1>3, DeactivatedTyped
<1> QED BY <1>1, <1>2, <1>4 DEF RecoveryUnavailable

\* handleReconnectAttemptClaimError.
LEMMA DispossessedTyped ==
    ASSUME NEW w, Typed(w), NEW p \in Peers, w.run[p].step # "none", NEW lost, Typed(lost)
    PROVE  Typed(Dispossessed(w, p, lost))
<1>1. PICK t : t = w.run[p].tab
  OBVIOUS
<1>2. PICK over : over = [lost EXCEPT !.run[p] = NoRun]
  OBVIOUS
<1>3. Typed(over)
  BY <1>2, OverTyped
<1>4. PICK x : x = [over EXCEPT !.tab[t].retry = p]
  OBVIOUS
<1>5. Typed(x)
  <2>1. LET v == [over EXCEPT !.tab[t].retry = p]
        IN  (t \in Tabs => p \in Own(t)) => Typed(v) /\ SameRest(over, v)
    BY <1>3, PutField, Zenon
  <2> QED BY <1>1, <1>4, <2>1, RunsOwn
<1>6. Typed([x EXCEPT !.tab[t].inFlight = FALSE, !.tab[t].own = None])
  BY <1>5, ResetTyped
<1>7. [over EXCEPT !.tab[t].retry = p, !.tab[t].inFlight = FALSE, !.tab[t].own = None]
          = [x EXCEPT !.tab[t].inFlight = FALSE, !.tab[t].own = None]
  BY <1>4
<1>8. \/ Dispossessed(w, p, lost) = over
      \/ Dispossessed(w, p, lost) = [over EXCEPT !.tab[t].retry = p, !.tab[t].inFlight = FALSE,
                                                 !.tab[t].own = None]
  BY <1>1, <1>2 DEF Dispossessed
<1> QED BY <1>3, <1>6, <1>7, <1>8

\* claims.start.
LEMMA StartedTyped ==
    ASSUME NEW w, Typed(w), NEW p \in Peers, w.run[p].step # "none"
    PROVE  LET v == Started(w, p) IN Typed(v) /\ v.run = w.run
<1>1. PICK t : t = w.run[p].tab
  OBVIOUS
<1>2. PICK x : x = [w EXCEPT !.tab[t].claim = p]
  OBVIOUS
<1>3. PICK y : y = [x EXCEPT !.tab[t].beat = "idle"]
  OBVIOUS
<1>4. Typed(x) /\ SameRest(w, x)
  <2>1. LET v == [w EXCEPT !.tab[t].claim = p]
        IN  (t \in Tabs => p \in Own(t)) => Typed(v) /\ SameRest(w, v)
    BY PutField, Zenon
  <2> QED BY <1>1, <1>2, <2>1, RunsOwn
<1>5. Typed(y) /\ SameRest(x, y)
  <2>1. LET v == [x EXCEPT !.tab[t].beat = "idle"]
        IN  "idle" \in {"idle", "sent", "forbidden", "gone"} => Typed(v) /\ SameRest(x, v)
    BY <1>4, PutField, Zenon
  <2> QED BY <1>3, <2>1
<1>6. Started(w, p) = y
  BY <1>1, <1>2, <1>3 DEF Started
<1> QED BY <1>4, <1>5, <1>6 DEF SameRest

\* What follows a reply that says yes.
LEMMA ContinueTyped ==
    ASSUME NEW w, Typed(w), NEW p \in Peers, w.run[p].reply = "ok",
           w.run[p].step \in {"claim", "offer", "read-answer", "read-offer", "answer",
                              "finalize", "read-outcome"}
    PROVE  Typed(Continue(w, p))
<1>1. PICK step : step = w.run[p].step
  OBVIOUS
<1>2. RunTyped(p, w.run[p]) /\ step # "none"
  BY <1>1 DEF Typed
<1>3. p \in Hosts <=> RoleOf(p) = "host"
  BY DEF RoleOf
<1>4. p \in Hosts \/ p \in Guests
  BY DEF Peers, Instances
<1>5. ASSUME NEW x, Typed(x), x.run = w.run, NEW next, Fits(w, p, next)
      PROVE  Typed(Waiting(x, p, next))
  <2>1. Fits(x, p, next)
    BY <1>5 DEF Fits
  <2> QED BY <1>5, <2>1, WaitingTyped
<1>6. CASE step = "claim"
  <2>1. PICK x : x = Started(w, p)
    OBVIOUS
  <2>2. Typed(x) /\ x.run = w.run
    BY <1>1, <1>2, <2>1, StartedTyped
  <2>3. PICK next : next = IF p \in Hosts THEN "create-offer" ELSE "read-offer"
    OBVIOUS
  <2>4. Fits(w, p, next)
    BY <1>1, <1>2, <1>4, <2>3 DEF Fits, IceSteps, Polls
  <2>5. Continue(w, p) = Waiting(x, p, next)
    BY <1>1, <1>3, <1>6, <2>1, <2>3 DEF Continue
  <2> QED BY <1>5, <2>2, <2>4, <2>5
<1>7. CASE step = "offer"
  <2>1. Fits(w, p, "read-answer")
    BY <1>1, <1>2, <1>7 DEF Fits, Polls, RunTyped
  <2>2. Continue(w, p) = Waiting(w, p, "read-answer")
    BY <1>1, <1>7 DEF Continue
  <2> QED BY <1>5, <2>1, <2>2
<1>8. CASE step = "read-answer"
  <2>1. Fits(w, p, "apply")
    BY <1>1, <1>2, <1>8 DEF Fits, IceSteps, RunTyped
  <2>2. Continue(w, p) = Waiting(w, p, "apply")
    BY <1>1, <1>8 DEF Continue
  <2> QED BY <1>5, <2>1, <2>2
<1>9. CASE step = "read-offer"
  <2>1. Fits(w, p, "create-answer")
    BY <1>1, <1>2, <1>9 DEF Fits, IceSteps, RunTyped
  <2>2. Continue(w, p) = Waiting(w, p, "create-answer")
    BY <1>1, <1>9 DEF Continue
  <2> QED BY <1>5, <2>1, <2>2
<1>10. CASE step = "answer"
  <2>1. Fits(w, p, "read-outcome")
    BY <1>1, <1>2, <1>10 DEF Fits, Polls, RunTyped
  <2>2. Continue(w, p) = Waiting(w, p, "read-outcome")
    BY <1>1, <1>10 DEF Continue
  <2> QED BY <1>5, <2>1, <2>2
<1>11. CASE step \in {"finalize", "read-outcome"}
  <2>1. Continue(w, p) = Finally(w, p)
    BY <1>1, <1>11 DEF Continue
  <2> QED BY <2>1, FinallyTyped
<1> QED BY <1>1, <1>6, <1>7, <1>8, <1>9, <1>10, <1>11

\* A peer goes down.
LEMMA LoseTyped ==
    ASSUME NEW w, Typed(w), NEW p \in Peers,
           StartsAttempt(w, TabOf(w, p)) => Spare(PlayerOf(TabOf(w, p)))
    PROVE  /\ Typed(Lose(w, p))
           /\ w.run[p].step \in IceSteps => Lose(w, p).run[p].step # "none"
<1>1. PICK t : t = TabOf(w, p)
  OBVIOUS
<1>2. t # None => t \in Tabs
  BY <1>1 DEF TabOf
<1>3. PICK d : d = [w.peer[p] EXCEPT !.status = Down(@)]
  OBVIOUS
<1>4. PeerTyped(p, d)
  BY <1>3, DownTyped DEF Typed
<1> DEFINE x0 == [w EXCEPT !.peer = [w.peer EXCEPT ![p] = d]]
<1>5. Typed(x0) /\ x0.run = w.run
  BY <1>4, PutPeer
<1>6. PICK x : x = [w EXCEPT !.peer[p].status = Down(@)]
  OBVIOUS
<1>7. x = x0
  BY <1>3, <1>6
<1> HIDE DEF x0
<1>8. Typed(x) /\ x.run = w.run
  BY <1>5, <1>7
<1>9. PICK y : y = IF StartsAttempt(w, t)
                   THEN IF t \in HostTabs THEN HandlePeerClosed(x, t) ELSE Reconnect(x, t)
                   ELSE IF t # None THEN Persisted(x, t) ELSE x
  OBVIOUS
<1>10. Typed(y) /\ IceLives(x, y)
  <2>1. CASE StartsAttempt(w, t)
    <3>1. t \in Tabs /\ Spare(PlayerOf(t))
      BY <1>1, <1>2, <2>1 DEF StartsAttempt
    <3>2. CASE t \in HostTabs
      BY <1>8, <1>9, <2>1, <3>1, <3>2, HandlePeerClosedTyped DEF PlayerOf
    <3>3. CASE t \notin HostTabs
      BY <1>8, <1>9, <2>1, <3>1, <3>3, ReconnectTyped
    <3> QED BY <3>2, <3>3
  <2>2. CASE ~StartsAttempt(w, t) /\ t # None
    BY <1>8, <1>9, <2>2, PersistedTyped DEF IceLives
  <2>3. CASE ~StartsAttempt(w, t) /\ t = None
    BY <1>8, <1>9, <2>3 DEF IceLives
  <2> QED BY <2>1, <2>2, <2>3
<1>11. Lose(w, p) = IF y.run[p].step = "connect" THEN Abort(y, p) ELSE y
  BY <1>1, <1>6, <1>9 DEF Lose
<1>12. y.run[p].step = "connect" => Typed(Abort(y, p))
  BY <1>10, AbortTyped
<1>13. w.run[p].step \in IceSteps => y.run[p].step \notin {"none", "connect"}
  BY <1>8, <1>10 DEF IceLives, IceSteps
<1> QED BY <1>10, <1>11, <1>12, <1>13

-----------------------------------------------------------------------------
\* The world of the clients as it is.
TypedNow == Typed(Now)

\* What a handler leads to is typed.
LEMMA BecomeTyped ==
    ASSUME NEW CONSTANT w, Typed(w), Become(w)
    PROVE  TypedNow'
<1>1. w = [calls |-> calls', tab |-> tab', run |-> run', peer |-> peer', saved |-> saved']
  BY DEF Typed, WorldShaped, Become
<1>2. w = Now'
  BY <1>1 DEF Now
<1>3. Typed(Now')
  BY <1>2
<1> QED BY <1>3 DEF TypedNow

\* The attempt goes on.
LEMMA ResumeTyped ==
    ASSUME IInv, TypedNow, NEW p \in Peers, Resume(p)
    PROVE  TypedNow'
<1>1. PICK w : w = Now
  OBVIOUS
<1>2. PICK t : t = run[p].tab
  OBVIOUS
<1>3. Typed(w) /\ w.run[p] = run[p]
  BY <1>1, NowParts DEF TypedNow
<1>4. run[p].reply # None /\ RunGood(w, control, p, w.run[p])
  BY <1>1 DEF Resume, IInv, Good
<1>5. w.run[p].step \in WaitSteps
  BY <1>3, <1>4 DEF RunGood
<1>6. w.run[p].step # "none"
  BY <1>5 DEF WaitSteps, CallSteps, Polls
<1>7. CASE run[p].step = "abort"
  <2>1. PICK v : v = Fail(w, p)
    OBVIOUS
  <2>2. Become(v)
    BY <1>1, <1>7, <2>1 DEF Resume
  <2> QED BY <1>3, <1>6, <2>1, <2>2, FailTyped, BecomeTyped
<1>8. CASE run[p].step # "abort" /\ run[p].reply = "ok"
  <2>1. PICK v : v = Continue(w, p)
    OBVIOUS
  <2>2. Become(v)
    BY <1>1, <1>8, <2>1 DEF Resume
  <2>3. w.run[p].step \in {"claim", "offer", "read-answer", "read-offer", "answer",
                           "finalize", "read-outcome"}
    BY <1>3, <1>5, <1>8 DEF WaitSteps, CallSteps, Polls
  <2> QED BY <1>3, <1>8, <2>1, <2>2, <2>3, ContinueTyped, BecomeTyped
<1>9. ASSUME NEW lost, Typed(lost), Become(Dispossessed(w, p, lost))
      PROVE  TypedNow'
  <2>1. PICK v : v = Dispossessed(w, p, lost)
    OBVIOUS
  <2> QED BY <1>3, <1>6, <1>9, <2>1, DispossessedTyped, BecomeTyped
<1>10. CASE run[p].step # "abort" /\ run[p].reply = "forbidden"
  <2>1. Become(Dispossessed(w, p, ClaimLost(w, t)))
    BY <1>1, <1>2, <1>10 DEF Resume
  <2> QED BY <1>3, <1>9, <2>1, UnavailableTyped
<1>11. CASE run[p].step # "abort" /\ run[p].reply = "gone"
  <2>1. Become(Dispossessed(w, p, RecoveryUnavailable(w, t)))
    BY <1>1, <1>2, <1>11 DEF Resume
  <2> QED BY <1>3, <1>9, <2>1, UnavailableTyped
<1>12. CASE run[p].step # "abort" /\ run[p].reply \notin {"ok", "forbidden", "gone"}
  <2>1. PICK v : v = Abort(w, p)
    OBVIOUS
  <2>2. Become(v)
    BY <1>1, <1>12, <2>1 DEF Resume
  <2> QED BY <1>3, <1>6, <2>1, <2>2, AbortTyped, BecomeTyped
<1> QED BY <1>7, <1>8, <1>10, <1>11, <1>12

\* ICE gathering ends.
LEMMA GatherTyped ==
    ASSUME TypedNow, NEW p \in Peers, Gather(p)
    PROVE  TypedNow'
<1>1. PICK w : w = Now
  OBVIOUS
<1>2. Typed(w) /\ w.run[p] = run[p] /\ run[p].step \in IceSteps
  BY <1>1, NowParts DEF TypedNow, Gather
<1>3. RunTyped(p, w.run[p]) /\ w.run[p].step # "none"
  BY <1>2 DEF Typed, IceSteps
<1>4. PICK got : got = run[p].got
  OBVIOUS
<1>5. ASSUME NEW u, Typed(u), RoleOf(got) # RoleOf(p), NEW v,
             v = [u EXCEPT !.peer[p] = [status |-> "connecting", other |-> got]]
      PROVE  Typed(v)
  <2>1. PICK r : r = [status |-> "connecting", other |-> got]
    OBVIOUS
  <2>2. PeerTyped(p, r)
    BY <1>5, <2>1 DEF PeerTyped, PeerShaped
  <2> DEFINE z == [u EXCEPT !.peer = [u.peer EXCEPT ![p] = r]]
  <2>3. Typed(z)
    BY <1>5, <2>2, PutPeer
  <2>4. v = z
    BY <1>5, <2>1
  <2> QED BY <2>3, <2>4
<1>6. CASE run[p].aborted
  <2>1. PICK v : v = Finally(w, p)
    OBVIOUS
  <2>2. Become(v)
    BY <1>1, <1>6, <2>1 DEF Gather
  <2> QED BY <1>2, <2>1, <2>2, FinallyTyped, BecomeTyped
<1>7. CASE ~run[p].aborted /\ run[p].step = "create-offer"
  <2>1. PICK v : v = Calling(w, p, "offer", "offer", p)
    OBVIOUS
  <2>2. Become(v)
    BY <1>1, <1>7, <2>1 DEF Gather
  <2>3. Fits(w, p, "offer")
    BY <1>2, <1>3, <1>7 DEF Fits, CallSteps, RunTyped
  <2>4. Typed(v)
    <3>1. "offer" \in ControlOps /\ "offer" # "finalize"
      BY DEF ControlOps
    <3> QED BY <1>2, <2>1, <2>3, <3>1, CallingTyped
  <2> QED BY <2>2, <2>4, BecomeTyped
<1>8. CASE ~run[p].aborted /\ run[p].step = "create-answer"
  <2>1. PICK u : u = Calling(w, p, "answer", "answer", p)
    OBVIOUS
  <2>2. PICK v : v = [u EXCEPT !.peer[p] = [status |-> "connecting", other |-> got]]
    OBVIOUS
  <2>3. Become(v)
    BY <1>1, <1>4, <1>8, <2>1, <2>2 DEF Gather
  <2>4. Fits(w, p, "answer")
    BY <1>2, <1>3, <1>8 DEF Fits, CallSteps, RunTyped
  <2>5. Typed(u)
    <3>1. "answer" \in ControlOps /\ "answer" # "finalize"
      BY DEF ControlOps
    <3> QED BY <1>2, <2>1, <2>4, <3>1, CallingTyped
  <2>6. RoleOf(got) # RoleOf(p)
    BY <1>2, <1>3, <1>4, <1>8, RulesAssumption DEF RunTyped, RoleOf
  <2>7. Typed(v)
    BY <1>5, <2>2, <2>5, <2>6
  <2> QED BY <2>3, <2>7, BecomeTyped
<1>9. CASE ~run[p].aborted /\ run[p].step = "apply"
  <2>1. PICK u : u = Waiting(w, p, "connect")
    OBVIOUS
  <2>2. PICK v : v = [u EXCEPT !.peer[p] = [status |-> "connecting", other |-> got]]
    OBVIOUS
  <2>3. Become(v)
    BY <1>1, <1>4, <1>9, <2>1, <2>2 DEF Gather, AwaitConnected
  <2>4. Fits(w, p, "connect")
    BY <1>2, <1>3, <1>9 DEF Fits
  <2>5. Typed(u)
    BY <1>2, <2>1, <2>4, WaitingTyped
  <2>6. RoleOf(got) # RoleOf(p)
    BY <1>2, <1>3, <1>4, <1>9, RulesAssumption DEF RunTyped, RoleOf
  <2>7. Typed(v)
    BY <1>5, <2>2, <2>5, <2>6
  <2> QED BY <2>3, <2>7, BecomeTyped
<1> QED BY <1>2, <1>6, <1>7, <1>8, <1>9 DEF IceSteps

\* A description cannot be made, or the link fails.
LEMMA LosingTyped ==
    ASSUME TypedNow, NEW p \in Peers, GatherFails(p) \/ Drop(p)
    PROVE  TypedNow'
<1>1. PICK w : w = Now
  OBVIOUS
<1>2. Typed(w) /\ w.run[p] = run[p]
  BY <1>1, NowParts DEF TypedNow
<1>3. StartsAttempt(w, TabOf(w, p)) => Spare(PlayerOf(TabOf(w, p)))
  BY <1>1 DEF GatherFails, Drop, MayLose
<1>4. PICK x : x = Lose(w, p)
  OBVIOUS
<1>5. Typed(x) /\ (w.run[p].step \in IceSteps => x.run[p].step # "none")
  BY <1>2, <1>3, <1>4, LoseTyped
<1>6. CASE Drop(p)
  <2>1. Become(x)
    BY <1>1, <1>4, <1>6 DEF Drop
  <2> QED BY <1>5, <2>1, BecomeTyped
<1>7. CASE GatherFails(p)
  <2>1. PICK y : y = Abort(x, p)
    OBVIOUS
  <2>2. Become(y) /\ w.run[p].step \in IceSteps
    BY <1>1, <1>2, <1>4, <1>7, <2>1 DEF GatherFails
  <2> QED BY <1>5, <2>1, <2>2, AbortTyped, BecomeTyped
<1> QED BY <1>6, <1>7

\* The data channel opens.
LEMMA OpenTyped ==
    ASSUME TypedNow, NEW p \in Peers, Open(p)
    PROVE  TypedNow'
<1>1. PICK w : w = Now
  OBVIOUS
<1>2. Typed(w)
  BY <1>1 DEF TypedNow
<1>3. PICK t : t = TabOf(w, p)
  OBVIOUS
<1>4. PICK o : o = w.peer[p]
  OBVIOUS
<1>5. PICK d : d = [o EXCEPT !.status = "connected"]
  OBVIOUS
<1>6. PeerTyped(p, d)
  <2>1. PeerTyped(p, o)
    BY <1>2, <1>4 DEF Typed
  <2>2. d = [status |-> "connected", other |-> o.other]
    BY <1>5, <2>1 DEF PeerTyped, PeerShaped
  <2>3. d.status = "connected" /\ d.other = o.other /\ PeerShaped(d)
    BY <2>2 DEF PeerShaped
  <2> QED BY <2>1, <2>3 DEF PeerTyped
<1> DEFINE x0 == [w EXCEPT !.peer = [w.peer EXCEPT ![p] = d]]
<1>7. Typed(x0) /\ x0.tab = w.tab /\ x0.run = w.run
  BY <1>2, <1>6, PutPeer
<1>8. PICK x : x = [w EXCEPT !.peer[p].status = "connected"]
  OBVIOUS
<1>9. x = x0
  BY <1>4, <1>5, <1>8
<1> HIDE DEF x0
<1> DEFINE f == [u \in Tabs |-> IF ~Rebinds(u, p) THEN w.tab[u]
                               ELSE [w.tab[u] EXCEPT !.bound = p, !.rebind = FALSE]]
<1>10. ASSUME NEW u \in Tabs PROVE TabTyped(u, f[u])
  <2>1. PICK q : q = w.tab[u]
    OBVIOUS
  <2>2. TabTyped(u, q)
    BY <1>2, <2>1 DEF Typed
  <2>3. CASE ~Rebinds(u, p)
    BY <2>1, <2>2, <2>3
  <2>4. CASE Rebinds(u, p)
    <3>1. q.peer = p
      BY <1>1, <2>1, <2>4 DEF Rebinds, Active
    <3>2. PICK b : b = [q EXCEPT !.bound = p]
      OBVIOUS
    <3>3. PICK r : r = [b EXCEPT !.rebind = FALSE]
      OBVIOUS
    <3>4. f[u] = r
      BY <2>1, <2>4, <3>2, <3>3
    <3>5. b = [peer |-> q.peer, session |-> q.session, inFlight |-> q.inFlight, own |-> q.own,
               rebind |-> q.rebind, bound |-> p, retry |-> q.retry, claim |-> q.claim,
               beat |-> q.beat, notice |-> q.notice]
      BY <2>2, <3>2 DEF TabTyped, TabShaped
    <3>6. r = [peer |-> q.peer, session |-> q.session, inFlight |-> q.inFlight, own |-> q.own,
               rebind |-> FALSE, bound |-> p, retry |-> q.retry, claim |-> q.claim,
               beat |-> q.beat, notice |-> q.notice]
      BY <3>3, <3>5
    <3>7. /\ TabShaped(r) /\ r.peer = q.peer /\ r.own = q.own /\ r.bound = p
          /\ r.retry = q.retry /\ r.claim = q.claim /\ r.beat = q.beat /\ r.notice = q.notice
      BY <3>6 DEF TabShaped
    <3>8. TabTyped(u, r)
      BY <2>2, <3>1, <3>7 DEF TabTyped
    <3> QED BY <3>4, <3>8
  <2> QED BY <2>3, <2>4
<1>11. f = [u \in Tabs |-> f[u]]
  OBVIOUS
<1> HIDE DEF f
<1>12. PICK y : y = [x EXCEPT !.tab = f]
  OBVIOUS
<1>13. Typed(y) /\ y.run = w.run
  BY <1>7, <1>9, <1>10, <1>11, <1>12, PutTabs
<1>14. PICK z : z = IF t = None THEN y ELSE Persisted(y, t)
  OBVIOUS
<1>15. Typed(z) /\ z.run = w.run
  BY <1>13, <1>14, PersistedTyped
<1>16. y = [w EXCEPT !.peer[p].status = "connected",
                     !.tab = [u \in Tabs |-> IF ~Rebinds(u, p) THEN @[u]
                                             ELSE [@[u] EXCEPT !.bound = p, !.rebind = FALSE]]]
  BY <1>7, <1>8, <1>9, <1>12 DEF f
<1>17. PICK k : k = Calling(z, p, "finalize", "finalize", "reconnected")
  OBVIOUS
<1>18. Become(IF w.run[p].step # "connect" THEN z ELSE k)
  BY <1>1, <1>3, <1>14, <1>16, <1>17, NowParts DEF Open
<1>19. CASE w.run[p].step # "connect"
  BY <1>15, <1>18, <1>19, BecomeTyped
<1>20. CASE w.run[p].step = "connect"
  <2>1. Fits(z, p, "finalize")
    BY <1>15, <1>20 DEF Fits, CallSteps
  <2>2. Typed(k)
    <3>1. "finalize" \in ControlOps /\ "finalize" \notin {"offer", "answer"}
          /\ "reconnected" \in Outcomes
      BY DEF ControlOps, Outcomes
    <3> QED BY <1>15, <1>17, <2>1, <3>1, CallingTyped
  <2> QED BY <1>18, <1>20, <2>2, BecomeTyped
<1> QED BY <1>19, <1>20

\* The guest has a session.
LEMMA ReplayTyped ==
    ASSUME TypedNow, NEW t \in Tabs, Replay(t)
    PROVE  TypedNow'
<1>1. PICK w : w = Now
  OBVIOUS
<1>2. Typed(w)
  BY <1>1 DEF TypedNow
<1>3. PICK v : v = [w EXCEPT !.tab[t].session = TRUE]
  OBVIOUS
<1>4. Typed(v) /\ SameRest(w, v)
  <2>1. LET u == [w EXCEPT !.tab[t].session = TRUE] IN Typed(u) /\ SameRest(w, u)
    BY <1>2, PutField, Zenon
  <2> QED BY <1>3, <2>1
<1>5. v.tab = [tab EXCEPT ![t].session = TRUE] /\ v.saved = saved
  BY <1>1, <1>3 DEF Now
<1>6. Become(v)
  BY <1>1, <1>4, <1>5, NowParts DEF Become, Replay, SameRest
<1> QED BY <1>4, <1>6, BecomeTyped

\* A heartbeat is sent.
LEMMA HeartbeatTyped ==
    ASSUME TypedNow, NEW t \in Tabs, Heartbeat(t)
    PROVE  TypedNow'
<1>1. PICK w : w = Now
  OBVIOUS
<1>2. Typed(w)
  BY <1>1 DEF TypedNow
<1>3. PICK x : x = [w EXCEPT !.tab[t].beat = "sent"]
  OBVIOUS
<1>4. Typed(x)
  <2>1. LET u == [w EXCEPT !.tab[t].beat = "sent"]
        IN  "sent" \in {"idle", "sent", "forbidden", "gone"} => Typed(u) /\ SameRest(w, u)
    BY <1>2, PutField, Zenon
  <2> QED BY <1>3, <2>1
<1>5. PICK q : q = Request("heartbeat", tab[t].claim, None)
  OBVIOUS
<1>6. PICK s : s = x.calls \cup {q}
  OBVIOUS
<1>7. \A r \in s : CallTyped(r)
  <2>1. tab[t].claim \in Own(t) /\ tab[t].claim # None
    BY <1>1, <1>2, NowParts DEF Typed, TabTyped, Heartbeat
  <2>2. CallTyped(q)
    BY <1>5, <2>1 DEF Own, Request, CallTyped, ControlOps, RoleOf, Roles
  <2> QED BY <1>4, <1>6, <2>2 DEF Typed
<1>8. PICK v : v = [x EXCEPT !.calls = s]
  OBVIOUS
<1>9. Typed(v)
  BY <1>4, <1>7, <1>8, PutCalls
<1>10. Become(v)
  <2>1. v = [w EXCEPT !.tab[t].beat = "sent", !.calls = @ \cup {q}]
    BY <1>3, <1>6, <1>8
  <2> QED BY <1>1, <1>5, <2>1 DEF Heartbeat
<1> QED BY <1>9, <1>10, BecomeTyped

\* A heartbeat has failed for good.
LEMMA HeartbeatFailsTyped ==
    ASSUME TypedNow, NEW t \in Tabs, HeartbeatFails(t)
    PROVE  TypedNow'
<1>1. Typed(ClaimLost(Now, t)) /\ Typed(RecoveryUnavailable(Now, t))
  <2>1. PICK w : w = Now
    OBVIOUS
  <2>2. Typed(w)
    BY <2>1 DEF TypedNow
  <2> QED BY <2>1, <2>2, UnavailableTyped
<1>2. PICK v \in {ClaimLost(Now, t), RecoveryUnavailable(Now, t)} : Become(v)
  BY DEF HeartbeatFails
<1> QED BY <1>1, <1>2, BecomeTyped

\* The timer of a retry, which only a host's tab sets.
LEMMA RetryTyped ==
    ASSUME IInv, TypedNow, NEW t \in Tabs, Retry(t)
    PROVE  TypedNow'
<1>1. PICK w : w = Now
  OBVIOUS
<1>2. Typed(w)
  BY <1>1 DEF TypedNow
<1>3. t \in HostTabs /\ Spare("host")
  BY <1>1, NowParts DEF IInv, Retry, Good, TabGood
<1>4. PICK x : x = [w EXCEPT !.tab[t].retry = None]
  OBVIOUS
<1>5. Typed(x)
  <2>1. LET u == [w EXCEPT !.tab[t].retry = None]
        IN  (t \in Tabs => None \in Own(t)) => Typed(u) /\ SameRest(w, u)
    BY <1>2, PutField, Zenon
  <2> QED BY <1>4, <2>1 DEF Own
<1>6. PICK y : y = HandlePeerClosed(x, t)
  OBVIOUS
<1>7. Typed(y)
  BY <1>3, <1>5, <1>6, HandlePeerClosedTyped
<1>8. Become(y) \/ Become(x)
  BY <1>1, <1>4, <1>6 DEF Retry
<1> QED BY <1>5, <1>7, <1>8, BecomeTyped

\* The room page is opened.
LEMMA OpenRoomTyped ==
    ASSUME TypedNow, NEW t \in Tabs, OpenRoom(t)
    PROVE  TypedNow'
<1>1. PICK w : w = Now
  OBVIOUS
<1>2. Typed(w) /\ Spare(PlayerOf(t))
  BY <1>1 DEF TypedNow, OpenRoom
<1>3. PICK y : y = Reconnect(w, t)
  OBVIOUS
<1>4. Typed(y)
  BY <1>2, <1>3, ReconnectTyped
<1>5. Become(y)
  BY <1>1, <1>3 DEF OpenRoom
<1> QED BY <1>4, <1>5, BecomeTyped

\* The player leaves the match.
LEMMA LeaveTyped ==
    ASSUME TypedNow, NEW t \in Tabs, Leave(t)
    PROVE  TypedNow'
<1>1. PICK w : w = Now
  OBVIOUS
<1>2. Typed(w)
  BY <1>1 DEF TypedNow
<1>3. PICK b : b = (w.saved[PlayerOf(t)] /\ ~w.tab[t].session)
  OBVIOUS
<1>4. PICK x : x = [w EXCEPT !.saved[PlayerOf(t)] = b]
  OBVIOUS
<1>5. x = RecoveryCleared(w, t)
  BY <1>3, <1>4 DEF RecoveryCleared
<1>6. Typed(x)
  BY <1>2, <1>4, PutSaved
<1>7. PICK y : y = [x EXCEPT !.tab[t].notice = None]
  OBVIOUS
<1>8. Typed(y)
  <2>1. LET u == [x EXCEPT !.tab[t].notice = None]
        IN  None \in {None, "failed", "displaced", "unavailable"} => Typed(u) /\ SameRest(x, u)
    BY <1>6, PutField, Zenon
  <2> QED BY <1>7, <2>1
<1>9. PICK z : z = Teardown(y, t)
  OBVIOUS
<1>10. Typed(z)
  BY <1>8, <1>9, TeardownTyped
<1>11. Become(z)
  BY <1>1, <1>5, <1>7, <1>9 DEF Leave
<1> QED BY <1>10, <1>11, BecomeTyped

\* A tab is closed.
LEMMA CloseTyped ==
    ASSUME TypedNow, NEW t \in Tabs, Close(t)
    PROVE  TypedNow'
<1>1. PICK w : w = Now
  OBVIOUS
<1>2. Typed(w)
  BY <1>1 DEF TypedNow
<1>3. PICK f : f = tab'
  OBVIOUS
<1>4. PICK g : g = run'
  OBVIOUS
<1>5. PICK h : h = peer'
  OBVIOUS
<1>6. PICK v : v = [calls |-> w.calls, tab |-> f, run |-> g, peer |-> h, saved |-> w.saved]
  OBVIOUS
<1>7. Become(v)
  BY <1>1, <1>3, <1>4, <1>5, <1>6, NowParts DEF Become, Close
<1>8. f = [u \in Tabs |-> f[u]] /\ \A u \in Tabs : f[u] \in {NoRuntime, w.tab[u]}
  BY <1>1, <1>2, <1>3, NowParts DEF Close, Typed, WorldShaped
<1>9. g = [p \in Peers |-> g[p]] /\ \A p \in Peers : g[p] \in {NoRun, w.run[p]}
  BY <1>1, <1>4, NowParts DEF Close
<1>10. /\ h = [p \in Peers |-> h[p]]
       /\ \A p \in Peers : h[p] = w.peer[p] \/ h[p] = [w.peer[p] EXCEPT !.status = Down(@)]
  BY <1>1, <1>5, NowParts DEF Close
<1>11. WorldShaped(v)
  BY <1>2, <1>6, <1>8, <1>9, <1>10 DEF Typed, WorldShaped
<1>12. ASSUME NEW u \in Tabs PROVE TabTyped(u, v.tab[u])
  <2>1. TabTyped(u, NoRuntime)
    BY DEF NoRuntime, TabTyped, TabShaped, Own
  <2> QED BY <1>2, <1>6, <1>8, <2>1 DEF Typed
<1>13. ASSUME NEW p \in Peers PROVE RunTyped(p, v.run[p]) /\ PeerTyped(p, v.peer[p])
  <2>1. RunTyped(p, NoRun)
    BY NothingTyped
  <2>2. PeerTyped(p, w.peer[p])
    BY <1>2 DEF Typed
  <2>3. PeerTyped(p, [w.peer[p] EXCEPT !.status = Down(@)])
    BY <2>2, DownTyped
  <2>4. PeerTyped(p, h[p])
    BY ONLY <1>10, <2>2, <2>3
  <2> QED BY <1>2, <1>6, <1>9, <2>1, <2>4 DEF Typed
<1>14. Typed(v)
  BY <1>2, <1>6, <1>11, <1>12, <1>13 DEF Typed
<1> QED BY <1>7, <1>14, BecomeTyped

\* A reply reaches who waits for it.
LEMMA RepliedTyped ==
    ASSUME NEW w, Typed(w), NEW q, q.op \in ControlOps, NEW reply
    PROVE  Typed(Replied(w, q, reply))
<1>1. PICK p : p = q.from
  OBVIOUS
<1>2. CASE q.op = "heartbeat"
  <2> DEFINE f == [t \in Tabs |->
                     IF w.tab[t].claim # p \/ w.tab[t].beat # "sent" THEN w.tab[t]
                     ELSE [w.tab[t] EXCEPT !.beat =
                             IF reply \in {"forbidden", "gone"} THEN reply ELSE "idle"]]
  <2>1. ASSUME NEW t \in Tabs PROVE TabTyped(t, f[t])
    <3>1. PICK o : o = w.tab[t]
      OBVIOUS
    <3>2. TabTyped(t, o)
      BY <3>1 DEF Typed
    <3>3. PICK b : b = IF reply \in {"forbidden", "gone"} THEN reply ELSE "idle"
      OBVIOUS
    <3>4. b \in {"idle", "sent", "forbidden", "gone"}
      BY <3>3
    <3>5. PICK r : r = [o EXCEPT !.beat = b]
      OBVIOUS
    <3>6. TabTyped(t, r)
      BY <3>2, <3>4, <3>5 DEF TabTyped, TabShaped
    <3>7. f[t] = o \/ f[t] = r
      BY <3>1, <3>3, <3>5
    <3> QED BY <3>2, <3>6, <3>7
  <2>2. f = [t \in Tabs |-> f[t]]
    OBVIOUS
  <2>3. Replied(w, q, reply) = [w EXCEPT !.tab = f]
    BY <1>1, <1>2 DEF Replied
  <2> HIDE DEF f
  <2>4. PICK v : v = [w EXCEPT !.tab = f]
    OBVIOUS
  <2>5. Typed(v)
    BY <2>1, <2>2, <2>4, PutTabs
  <2> QED BY <2>3, <2>4, <2>5
<1>3. CASE q.op # "heartbeat"
  <2>1. PICK awaited : awaited = IF q.op = "finalize" /\ q.value = "aborted" THEN "abort"
                                 ELSE q.op
    OBVIOUS
  <2>2. awaited \in CallSteps
    BY <1>3, <2>1 DEF CallSteps, ControlOps
  <2>3. PICK r : r = [w.run[p] EXCEPT !.reply = reply]
    OBVIOUS
  <2>4. p \in Peers /\ w.run[p].step = awaited => RunTyped(p, r)
    <3> SUFFICES ASSUME p \in Peers, w.run[p].step = awaited
                 PROVE  RunTyped(p, r)
      OBVIOUS
    <3>1. PICK o : o = w.run[p]
      OBVIOUS
    <3>2. RunTyped(p, o)
      BY <3>1 DEF Typed
    <3>3. r = [step |-> o.step, tab |-> o.tab, kind |-> o.kind, reply |-> reply, got |-> o.got,
               aborted |-> o.aborted]
      BY <2>3, <3>1, <3>2 DEF RunTyped, RunShaped
    <3>4. RunShaped(r) /\ r.step = o.step /\ r.tab = o.tab /\ r.kind = o.kind /\ r.got = o.got
      BY <3>3 DEF RunShaped
    <3>5. o.step \notin Polls
      BY <2>2, <3>1 DEF CallSteps, Polls
    <3> QED BY <3>2, <3>4, <3>5 DEF RunTyped, Polls
  <2> DEFINE v == [w EXCEPT !.run = [w.run EXCEPT ![p] = r]]
  <2>5. Replied(w, q, reply) =
            IF w.run[p].step = awaited /\ w.run[p].reply = None THEN v ELSE w
    BY <1>1, <1>3, <2>1, <2>3 DEF Replied
  <2>6. w.run[p].step = awaited => Typed(v)
    <3>1. w.run[p].step = awaited => RunPut(w, v, p, r)
      BY <2>4, PutRun
    <3> QED BY ONLY <3>1 DEF RunPut
  <2> HIDE DEF v
  <2> QED BY <2>5, <2>6
<1> QED BY <1>2, <1>3

\* The service applies a request, or the request gets lost.
LEMMA CallsTyped ==
    ASSUME TypedNow, NEW q \in calls, Serve(q) \/ Vanish(q)
    PROVE  TypedNow'
<1>1. PICK w : w = Now
  OBVIOUS
<1>2. Typed(w) /\ q \in w.calls
  BY <1>1, NowParts DEF TypedNow
<1>3. q.op \in ControlOps
  BY <1>2 DEF Typed, CallTyped
<1>4. PICK x : x = [w EXCEPT !.calls = @ \ {q}]
  OBVIOUS
<1>5. Typed(x)
  <2>1. PICK s : s = w.calls \ {q}
    OBVIOUS
  <2>2. \A r \in s : CallTyped(r)
    BY <1>2, <2>1 DEF Typed
  <2>3. x = [w EXCEPT !.calls = s]
    BY <1>4, <2>1
  <2> QED BY <1>2, <2>2, <2>3, PutCalls
<1>6. PICK reply : Become(Replied(x, q, reply))
  BY <1>1, <1>4 DEF Serve, Vanish
<1>7. PICK v : v = Replied(x, q, reply)
  OBVIOUS
<1>8. Typed(v)
  BY <1>3, <1>5, <1>7, RepliedTyped
<1> QED BY <1>6, <1>7, <1>8, BecomeTyped

\* A polling loop ends, with the offer of a host or the answer of a guest.
LEMMA PollTyped ==
    ASSUME IInv, TypedNow, control \in Controls \cup {None}, NEW p \in Peers, Poll(p)
    PROVE  TypedNow'
<1>1. PICK w : w = Now
  OBVIOUS
<1>2. PICK o : o = run[p]
  OBVIOUS
<1>3. Typed(w) /\ RunTyped(p, o) /\ o.step \in Polls
  BY <1>1, <1>2, NowParts DEF TypedNow, Typed, Poll
<1>4. ASSUME NEW r, RunShaped(r), r.step = o.step, r.tab = o.tab, r.kind = o.kind,
             o.step = "read-offer" /\ r.reply = "ok" => r.got \in Hosts,
             o.step = "read-answer" /\ r.reply = "ok" => r.got \in Guests,
             run' = [run EXCEPT ![p] = r]
      PROVE  TypedNow'
  <2>1. RunTyped(p, r)
    BY <1>3, <1>4 DEF RunTyped, Polls
  <2> DEFINE v == [w EXCEPT !.run = [w.run EXCEPT ![p] = r]]
  <2>2. RunPut(w, v, p, r)
    BY <1>3, <2>1, PutRun
  <2>3. Typed(v) /\ v.peer = w.peer /\ v.tab = w.tab /\ v.calls = w.calls
    BY ONLY <2>2 DEF RunPut, SameButRuns
  <2>4. v.run = [w.run EXCEPT ![p] = r] /\ v.saved = w.saved
    BY <1>1 DEF Now
  <2>5. PICK x : x = v
    OBVIOUS
  <2> HIDE DEF v
  <2>6. Become(x)
    BY <1>1, <1>4, <2>3, <2>4, <2>5, NowParts DEF Become, Poll
  <2> QED BY <2>3, <2>5, <2>6, BecomeTyped
<1>5. o = [step |-> o.step, tab |-> o.tab, kind |-> o.kind, reply |-> o.reply, got |-> o.got,
           aborted |-> o.aborted]
  BY <1>3 DEF RunTyped, RunShaped
<1>6. run = [u \in Peers |-> run[u]]
  BY <1>1, <1>3, NowParts DEF Typed, WorldShaped
<1>7. CASE \E end \in EndsPoll(p) : run' = [run EXCEPT ![p].reply = end.reply, ![p].got = end.got]
  <2>1. PICK end \in EndsPoll(p) :
            run' = [run EXCEPT ![p].reply = end.reply, ![p].got = end.got]
    BY <1>7
  <2>2. ASSUME end.reply = "ok"
        PROVE  /\ o.step = "read-offer" => end.got \in Hosts
               /\ o.step = "read-answer" => end.got \in Guests
    <3>1. control # None /\ HasRole(control, RoleOf(p), p)
      BY <2>1, <2>2 DEF EndsPoll
    <3>2. end \in OfferRead(p) \cup AnswerRead(p) \cup OutcomeRead(p)
      BY <2>1, <3>1 DEF EndsPoll
    <3>3. control \in Controls /\ AttemptGood(Now, control.claim, control.attempt)
      BY <3>1 DEF IInv, Good, RecordGood
    <3>4. CASE end \in OfferRead(p)
      BY <1>2, <3>3, <3>4 DEF OfferRead, AttemptGood
    <3>5. CASE end \in AnswerRead(p)
      <4>1. PICK a \in {control.attempt} :
                /\ end = [reply |-> IF a.answer # None THEN "ok" ELSE "expired", got |-> a.answer]
                /\ run[p].step = "read-answer"
        BY <3>5 DEF AnswerRead
      <4>2. control.attempt.answer \in Answers \cup {None}
        BY <3>3 DEF Controls, Attempts
      <4>3. end.got \in Guests
        BY <2>2, <4>1, <4>2, ReconnectAssumption
      <4> QED BY <1>2, <4>1, <4>3
    <3>6. CASE end \in OutcomeRead(p)
      BY <1>2, <3>6 DEF OutcomeRead
    <3> QED BY <3>2, <3>4, <3>5, <3>6
  <2>3. PICK r1 : r1 = [o EXCEPT !.reply = end.reply]
    OBVIOUS
  <2>4. r1 = [step |-> o.step, tab |-> o.tab, kind |-> o.kind, reply |-> end.reply,
              got |-> o.got, aborted |-> o.aborted]
    BY <1>5, <2>3
  <2>5. PICK r : r = [r1 EXCEPT !.got = end.got]
    OBVIOUS
  <2>6. r = [step |-> o.step, tab |-> o.tab, kind |-> o.kind, reply |-> end.reply,
             got |-> end.got, aborted |-> o.aborted]
    BY <2>4, <2>5
  <2>7. run' = [run EXCEPT ![p] = r]
    BY <1>2, <1>6, <2>1, <2>3, <2>5
  <2>8. /\ RunShaped(r) /\ r.step = o.step /\ r.tab = o.tab /\ r.kind = o.kind
        /\ r.reply = end.reply /\ r.got = end.got
    BY <2>6 DEF RunShaped
  <2>9. /\ o.step = "read-offer" /\ r.reply = "ok" => r.got \in Hosts
        /\ o.step = "read-answer" /\ r.reply = "ok" => r.got \in Guests
    BY <2>2, <2>8
  <2> QED BY ONLY <1>4, <2>7, <2>8, <2>9
<1>8. CASE run' = [run EXCEPT ![p].reply = "unreachable"]
  <2>1. PICK r : r = [o EXCEPT !.reply = "unreachable"]
    OBVIOUS
  <2>2. r = [step |-> o.step, tab |-> o.tab, kind |-> o.kind, reply |-> "unreachable",
             got |-> o.got, aborted |-> o.aborted]
    BY <1>5, <2>1
  <2>3. run' = [run EXCEPT ![p] = r]
    BY <1>2, <1>8, <2>1
  <2>4. /\ RunShaped(r) /\ r.step = o.step /\ r.tab = o.tab /\ r.kind = o.kind
        /\ r.reply # "ok"
    BY <2>2 DEF RunShaped
  <2> QED BY ONLY <1>4, <2>3, <2>4
<1> QED BY <1>7, <1>8 DEF Poll

-----------------------------------------------------------------------------
\* What a control session consists of.
LEMMA ControlParts ==
    ASSUME NEW c \in Controls
    PROVE  /\ c = [state |-> c.state, claim |-> c.claim, attempt |-> c.attempt,
                   expiresAt |-> c.expiresAt]
           /\ c.state \in {"open", "finalized"} /\ c.expiresAt \in Nat
           /\ c.claim \in [Roles -> Instances \cup {None}] /\ c.attempt \in Attempts
  BY DEF Controls

\* What an attempt consists of.
LEMMA AttemptParts ==
    ASSUME NEW a \in Attempts
    PROVE  /\ a = [status |-> a.status, offer |-> a.offer, answer |-> a.answer,
                   outcome |-> a.outcome]
           /\ a.status \in {"idle", "offer-ready", "answer-ready", "finalized"}
           /\ a.offer \in Offers \cup {None} /\ a.answer \in Answers \cup {None}
           /\ a.outcome \in Outcomes \cup {None}
  BY DEF Attempts

\* Another attempt in a control session.
LEMMA WithAttemptTyped ==
    ASSUME NEW c \in Controls, NEW state \in {"open", "finalized"}, NEW a \in Attempts
    PROVE  WithAttempt(c, state, a) \in Controls
<1>1. PICK x : x = [c EXCEPT !.state = state]
  OBVIOUS
<1>2. PICK y : y = [x EXCEPT !.attempt = a]
  OBVIOUS
<1>3. WithAttempt(c, state, a) = y
  BY <1>1, <1>2 DEF WithAttempt
<1>4. x = [state |-> state, claim |-> c.claim, attempt |-> c.attempt, expiresAt |-> c.expiresAt]
  BY <1>1, ControlParts
<1>5. y = [state |-> state, claim |-> c.claim, attempt |-> a, expiresAt |-> c.expiresAt]
  BY <1>2, <1>4
<1> QED BY <1>3, <1>5, ControlParts DEF Controls

\* An attempt that is answered, or whose answer is dropped, and one that is finalized.
LEMMA AttemptGoesOn ==
    ASSUME NEW a \in Attempts, NEW status \in {"offer-ready", "answer-ready", "finalized"}
    PROVE  /\ \A x \in Answers \cup {None} :
                  [a EXCEPT !.status = status, !.answer = x] \in Attempts
           /\ \A x \in Outcomes : [a EXCEPT !.status = status, !.outcome = x] \in Attempts
<1>1. PICK b : b = [a EXCEPT !.status = status]
  OBVIOUS
<1>2. b = [status |-> status, offer |-> a.offer, answer |-> a.answer, outcome |-> a.outcome]
  BY <1>1, AttemptParts
<1>3. b \in Attempts
  BY <1>2, AttemptParts DEF Attempts
<1>4. ASSUME NEW x \in Answers \cup {None}
      PROVE  [a EXCEPT !.status = status, !.answer = x] \in Attempts
  <2>1. PICK d : d = [b EXCEPT !.answer = x]
    OBVIOUS
  <2>2. d = [status |-> b.status, offer |-> b.offer, answer |-> x, outcome |-> b.outcome]
    BY <1>3, <2>1, AttemptParts
  <2>3. d \in Attempts
    BY <1>3, <2>2, AttemptParts DEF Attempts
  <2> QED BY <1>1, <2>1, <2>3
<1>5. ASSUME NEW x \in Outcomes
      PROVE  [a EXCEPT !.status = status, !.outcome = x] \in Attempts
  <2>1. PICK d : d = [b EXCEPT !.outcome = x]
    OBVIOUS
  <2>2. d = [status |-> b.status, offer |-> b.offer, answer |-> b.answer, outcome |-> x]
    BY <1>3, <2>1, AttemptParts
  <2>3. d \in Attempts
    BY <1>3, <2>2, AttemptParts DEF Attempts
  <2> QED BY <1>1, <2>1, <2>3
<1> QED BY <1>4, <1>5

\* No attempt is an attempt.
LEMMA IdleTyped == IdleAttempt \in Attempts
  BY DEF IdleAttempt, Attempts

\* A newcomer takes a role.
LEMMA ClaimedTyped ==
    ASSUME NEW c \in Controls, NEW role \in Roles, NEW i \in Peers
    PROVE  Claimed(c, role, i) \in Controls
<1>1. PICK f : f = [c.claim EXCEPT ![role] = i]
  OBVIOUS
<1>2. PICK x : x = [c EXCEPT !.claim[role] = i]
  OBVIOUS
<1>3. x = [state |-> c.state, claim |-> f, attempt |-> c.attempt, expiresAt |-> c.expiresAt]
  BY <1>1, <1>2, ControlParts
<1>4. f \in [Roles -> Instances \cup {None}]
  BY <1>1, ControlParts DEF Peers
<1>5. x \in Controls
  BY <1>3, <1>4, ControlParts DEF Controls
<1>6. PICK a : a = x.attempt
  OBVIOUS
<1>7. a \in Attempts
  BY <1>5, <1>6, ControlParts
<1>8. PICK d : d = [a EXCEPT !.status = "offer-ready", !.answer = None]
  OBVIOUS
<1>9. d \in Attempts
  BY <1>7, <1>8, AttemptGoesOn
<1>10. /\ WithAttempt(x, "open", IdleAttempt) \in Controls
       /\ WithAttempt(x, "open", d) \in Controls
  BY <1>5, <1>9, IdleTyped, WithAttemptTyped
<1>11. \/ Claimed(c, role, i) = x
       \/ Claimed(c, role, i) = WithAttempt(x, "open", IdleAttempt)
       \/ Claimed(c, role, i) = WithAttempt(x, "open", d)
  BY <1>2, <1>6, <1>8 DEF Claimed, Reconciled
<1> QED BY <1>5, <1>10, <1>11

\* The record that a permitted request leaves.
LEMMA ServedTyped ==
    ASSUME NEW c \in Controls, NEW q, CallTyped(q), Permits(c, q)
    PROVE  Outcome(c, q) \in Controls
<1>1. CASE NothingToDo(c, q)
  BY <1>1 DEF Outcome
<1>2. CASE ~NothingToDo(c, q)
  <2>1. PICK u : u = Updated(c, q)
    OBVIOUS
  <2>2. q.from \in Peers /\ q.op \in ControlOps /\ q.role \in Roles /\ q.at = 0
    BY DEF CallTyped
  <2>3. PICK a : a = c.attempt
    OBVIOUS
  <2>4. a \in Attempts /\ c.state \in {"open", "finalized"}
    BY <2>3, ControlParts
  <2>5. u \in Controls
    <3>1. CASE q.op = "claim"
      <4>1. u = Claimed(c, q.role, q.from)
        BY <2>1, <3>1 DEF Updated
      <4> QED BY <2>2, <4>1, ClaimedTyped
    <3>2. CASE q.op = "heartbeat"
      BY <2>1, <3>2 DEF Updated
    <3>3. CASE q.op = "offer"
      <4>1. q.value \in Offers
        <5>1. q.value = q.from /\ RoleOf(q.from) = "host"
          BY <3>3 DEF CallTyped, Permits, HasRole
        <5> QED BY <5>1, ReconnectAssumption DEF RoleOf
      <4>2. PICK b : b = [IdleAttempt EXCEPT !.status = "offer-ready", !.offer = q.value]
        OBVIOUS
      <4>3. b = [status |-> "offer-ready", offer |-> q.value, answer |-> None, outcome |-> None]
        BY <4>2 DEF IdleAttempt
      <4>4. b \in Attempts
        BY <4>1, <4>3 DEF Attempts
      <4>5. u = WithAttempt(c, "open", b)
        BY <2>1, <3>3, <4>2 DEF Updated, WithOffer
      <4> QED BY <4>4, <4>5, WithAttemptTyped
    <3>4. CASE q.op = "answer"
      <4>1. q.value \in Answers
        <5>1. q.value = q.from /\ RoleOf(q.from) = "guest"
          BY <3>4 DEF CallTyped, Permits, HasRole
        <5> QED BY <2>2, <5>1, ReconnectAssumption DEF RoleOf, Peers, Instances
      <4>2. PICK b : b = [a EXCEPT !.status = "answer-ready", !.answer = q.value]
        OBVIOUS
      <4>3. b \in Attempts
        BY <2>4, <4>1, <4>2, AttemptGoesOn
      <4>4. u = WithAttempt(c, c.state, b)
        BY <2>1, <2>3, <3>4, <4>2 DEF Updated, WithReconnectAnswer
      <4> QED BY <2>4, <4>3, <4>4, WithAttemptTyped
    <3>5. CASE q.op = "finalize"
      <4>1. q.value \in Outcomes
        BY <3>5 DEF CallTyped
      <4>2. PICK b : b = [a EXCEPT !.status = "finalized", !.outcome = q.value]
        OBVIOUS
      <4>3. b \in Attempts
        BY <2>4, <4>1, <4>2, AttemptGoesOn
      <4>4. u = WithAttempt(c, "finalized", b)
        BY <2>1, <2>3, <3>5, <4>2 DEF Updated, Finalized
      <4> QED BY <4>3, <4>4, WithAttemptTyped
    <3> QED BY <2>2, <3>1, <3>2, <3>3, <3>4, <3>5 DEF ControlOps
  <2>6. PICK z : z = [u EXCEPT !.expiresAt = Ttl]
    OBVIOUS
  <2>7. Outcome(c, q) = z
    <3>1. q.at + Ttl = Ttl
      BY <2>2, RulesAssumption
    <3> QED BY <1>2, <2>1, <2>2, <2>6, <3>1 DEF Outcome, ControlOps, SessionOps, Refreshed
  <2>8. z = [state |-> u.state, claim |-> u.claim, attempt |-> u.attempt, expiresAt |-> Ttl]
    BY <2>5, <2>6, ControlParts
  <2> QED BY <2>5, <2>7, <2>8, ControlParts, RulesAssumption DEF Controls
<1> QED BY <1>1, <1>2

-----------------------------------------------------------------------------
\* Worlds and record are typed: inductive relative to IInv, which says whose offer a
\* guest reads and that only a host's tab retries.
TypeInv == TypedNow /\ control \in Controls \cup {None}

\* The match begins in the first tabs of the two players.
LEMMA InitTyped ==
    ASSUME Init
    PROVE  TypeInv
<1>1. WorldShaped(Now)
  BY DEF Init, Now, WorldShaped
<1>2. ASSUME NEW p \in Peers PROVE RunTyped(p, run[p])
  BY NothingTyped DEF Init
<1>3. FirstHost \in Peers /\ FirstGuest \in Peers
  BY ReconnectAssumption DEF Peers, Instances
<1>4. RoleOf(FirstHost) = "host" /\ RoleOf(FirstGuest) = "guest"
  BY ReconnectAssumption, RulesAssumption DEF RoleOf
<1>5. ASSUME NEW p \in Peers PROVE PeerTyped(p, peer[p])
  BY <1>4 DEF Init, PeerTyped, PeerShaped
<1>6. ASSUME NEW t \in Tabs PROVE TabTyped(t, tab[t])
  <2>1. PICK p : p = IF t \in HostTabs THEN FirstHost ELSE FirstGuest
    OBVIOUS
  <2>2. p \in Own(t) /\ None \in Own(t)
    BY <1>3, <1>4, <2>1 DEF Own, PlayerOf
  <2>3. CASE t # FirstTab[PlayerOf(t)]
    <3>1. tab[t] = NoRuntime
      BY <2>3 DEF Init
    <3> QED BY <3>1 DEF NoRuntime, TabTyped, TabShaped, Own
  <2>4. CASE t = FirstTab[PlayerOf(t)]
    <3>1. PICK a : a = [NoRuntime EXCEPT !.peer = p]
      OBVIOUS
    <3>2. PICK b : b = [a EXCEPT !.session = TRUE]
      OBVIOUS
    <3>3. PICK d : d = [b EXCEPT !.claim = p]
      OBVIOUS
    <3>4. PICK n : n = IF t \in HostTabs THEN p ELSE None
      OBVIOUS
    <3>5. PICK e : e = [d EXCEPT !.bound = n]
      OBVIOUS
    <3>6. tab[t] = e
      <4>1. tab[t] = [NoRuntime EXCEPT !.peer = p, !.session = TRUE, !.claim = p,
                                       !.bound = IF t \in HostTabs THEN p ELSE None]
        BY <2>1, <2>4 DEF Init
      <4> QED BY <3>1, <3>2, <3>3, <3>4, <3>5, <4>1
    <3>7. a = [peer |-> p, session |-> FALSE, inFlight |-> FALSE, own |-> None,
               rebind |-> FALSE, bound |-> None, retry |-> None, claim |-> None,
               beat |-> "idle", notice |-> None]
      BY <3>1 DEF NoRuntime
    <3>8. d = [peer |-> p, session |-> TRUE, inFlight |-> FALSE, own |-> None,
               rebind |-> FALSE, bound |-> None, retry |-> None, claim |-> p,
               beat |-> "idle", notice |-> None]
      BY <3>2, <3>3, <3>7
    <3>9. e = [peer |-> p, session |-> TRUE, inFlight |-> FALSE, own |-> None,
               rebind |-> FALSE, bound |-> n, retry |-> None, claim |-> p,
               beat |-> "idle", notice |-> None]
      BY <3>5, <3>8
    <3>10. /\ TabShaped(e) /\ e.peer = p /\ e.own = None /\ e.bound = n /\ e.retry = None
           /\ e.claim = p /\ e.beat = "idle" /\ e.notice = None
      BY <3>9 DEF TabShaped
    <3>11. n \in Own(t)
      BY <2>2, <3>4
    <3> QED BY <2>2, <3>6, <3>10, <3>11 DEF TabTyped
  <2> QED BY <2>3, <2>4
<1>7. TypedNow
  BY <1>1, <1>2, <1>5, <1>6, NowParts DEF TypedNow, Typed, Init
<1>8. control \in Controls
  <2>1. PICK k : k = RegisteredControl(0)
    OBVIOUS
  <2>2. PICK f : f = [r \in Roles |-> IF r = "host" THEN FirstHost ELSE FirstGuest]
    OBVIOUS
  <2>3. k = [state |-> "open", claim |-> [r \in Roles |-> None], attempt |-> IdleAttempt,
             expiresAt |-> Ttl]
    BY <2>1, RulesAssumption DEF RegisteredControl
  <2>4. control = [k EXCEPT !.claim = f]
    BY <2>1, <2>2 DEF Init
  <2>5. control = [state |-> "open", claim |-> f, attempt |-> IdleAttempt, expiresAt |-> Ttl]
    BY <2>3, <2>4
  <2>6. f \in [Roles -> Instances \cup {None}]
    BY <1>3, <2>2 DEF Peers
  <2> QED BY <2>5, <2>6, IdleTyped, RulesAssumption DEF Controls
<1> QED BY <1>7, <1>8 DEF TypeInv

\* The record is that of a served request, or gone, or as it was.
LEMMA ControlTyped ==
    ASSUME TypeInv, [Next]_vars
    PROVE  control' \in Controls \cup {None}
<1>1. ASSUME NEW q \in calls, Serve(q)
      PROVE  control' \in Controls \cup {None}
  <2>1. CASE Verdict(q) = "ok"
    <3>1. control # None /\ Permits(control, q) /\ control' = Outcome(control, q)
      BY <1>1, <2>1 DEF Serve, Verdict
    <3>2. CallTyped(q)
      BY <1>1, NowParts DEF TypeInv, TypedNow, Typed
    <3> QED BY <3>1, <3>2, ServedTyped DEF TypeInv
  <2>2. CASE Verdict(q) # "ok"
    BY <1>1, <2>2 DEF Serve, TypeInv
  <2> QED BY <2>1, <2>2
<1>2. \/ \E q \in calls : Serve(q)
      \/ control' = control
      \/ control' = None
  BY DEF Next, vars, Attempting, Linking, Running, Choosing, Resume, Gather, GatherFails, Poll,
         Open, Drop, Replay, Heartbeat, HeartbeatFails, Retry, OpenRoom, Leave, Close, Vanish,
         Lapse
<1> QED BY <1>1, <1>2 DEF TypeInv

\* Every step keeps the types.
LEMMA StepTyped ==
    ASSUME IInv, TypeInv, [Next]_vars
    PROVE  TypeInv'
<1>1. TypedNow /\ control \in Controls \cup {None}
  BY DEF TypeInv
<1>2. ASSUME NEW p \in Peers, Attempting(p) \/ Linking(p)
      PROVE  TypedNow'
  BY <1>1, <1>2, ResumeTyped, GatherTyped, LosingTyped, PollTyped, OpenTyped
     DEF Attempting, Linking
<1>3. ASSUME NEW t \in Tabs, Running(t) \/ Choosing(t)
      PROVE  TypedNow'
  BY <1>1, <1>3, ReplayTyped, HeartbeatTyped, HeartbeatFailsTyped, RetryTyped, OpenRoomTyped,
     LeaveTyped, CloseTyped DEF Running, Choosing
<1>4. ASSUME NEW q \in calls, Serve(q) \/ Vanish(q)
      PROVE  TypedNow'
  BY <1>1, <1>4, CallsTyped
<1>5. ASSUME Lapse \/ UNCHANGED vars
      PROVE  TypedNow'
  <2>1. Now' = Now
    BY <1>5 DEF vars, Lapse, Now
  <2>2. Typed(Now')
    BY <1>1, <2>1 DEF TypedNow
  <2> QED BY <2>2 DEF TypedNow
<1>6. TypedNow'
  BY <1>2, <1>3, <1>4, <1>5 DEF Next
<1>7. control' \in Controls \cup {None}
  BY ControlTyped
<1> QED BY <1>6, <1>7 DEF TypeInv

-----------------------------------------------------------------------------
(***************************************************************************)
(* What holds of every behaviour.                                          *)
(***************************************************************************)
\* Every reachable world of the clients is a good one.
THEOREM AlwaysGood == Spec => []IInv
<1>1. Init => IInv
  BY InitGood
<1>2. IInv /\ [Next]_vars => IInv'
  BY StepOK
<1> QED BY <1>1, <1>2, PTL DEF Spec

\* Every variable has its type: a tab's peers and an attempt are of the tab's player,
\* what a peer has heard of is of the other, and the record is a control session.
THEOREM ReconnectTypes == Spec => []TypeOK
<1>1. Init => IInv /\ TypeInv
  BY InitGood, InitTyped
<1>2. (IInv /\ TypeInv) /\ [Next]_vars => (IInv /\ TypeInv)'
  BY StepOK, StepTyped
<1>3. IInv /\ TypeInv => TypeOK
  <2> SUFFICES ASSUME TypeInv PROVE TypeOK
    OBVIOUS
  <2>1. /\ \A q \in calls : CallTyped(q)
        /\ \A t \in Tabs : TabTyped(t, tab[t])
        /\ \A p \in Peers : RunTyped(p, run[p]) /\ PeerTyped(p, peer[p])
    BY NowParts DEF TypeInv, TypedNow, Typed
  <2>2. control \in Controls \cup {None}
    BY DEF TypeInv
  <2>3. \A q \in calls : q.from \in Peers /\ q.op \in ControlOps
    BY <2>1 DEF CallTyped
  <2>4. ASSUME NEW t \in Tabs
        PROVE  /\ {tab[t].peer, tab[t].own, tab[t].bound, tab[t].retry, tab[t].claim}
                     \subseteq {p \in Peers : RoleOf(p) = PlayerOf(t)} \cup {None}
               /\ tab[t].beat \in {"idle", "sent", "forbidden", "gone"}
               /\ tab[t].notice \in {None, "failed", "displaced", "unavailable"}
    BY <2>1 DEF TabTyped, Own
  <2>5. ASSUME NEW p \in Peers
        PROVE  /\ run[p].step \in IceSteps \cup Polls \cup CallSteps \cup {"none", "connect"}
               /\ run[p].step # "none" =>
                     /\ PlayerOf(run[p].tab) = RoleOf(p)
                     /\ run[p].kind = "retry" => RoleOf(p) = "host"
               /\ peer[p].status \in {"unused", "new", "connecting", "connected", "lost", "failed"}
               /\ peer[p].other # None => RoleOf(peer[p].other) # RoleOf(p)
    BY <2>1 DEF RunTyped, PeerTyped
  <2> QED BY <2>2, <2>3, <2>4, <2>5 DEF TypeOK
<1> QED BY <1>1, <1>2, <1>3, PTL DEF Spec

\* However many attempts come and go, the host's transport is bound to the peer of
\* its runtime, and only after this peer connected (handlePeerConnected, replacePeer).
THEOREM BoundThroughActive == Spec => []BoundThroughActivePeer
<1>1. IInv => BoundThroughActivePeer
  BY NowParts DEF IInv, Good, TabGood, BoundThroughActivePeer, Linked, Tabs
<1> QED BY <1>1, AlwaysGood, PTL

\* An attempt finalized as reconnected is of a host's peer that did connect, though
\* requests overtake each other and tabs displace each other (waitForPeerConnected).
THEOREM ReconnectedByConnected == Spec => []ReconnectedByConnectedHost
<1>1. IInv => ReconnectedByConnectedHost
  BY NowParts, RulesAssumption
     DEF IInv, Good, RecordGood, AttemptGood, ReconnectedByConnectedHost, Linked
<1> QED BY <1>1, AlwaysGood, PTL

\* A guest's attempt that polls or waits for its peer is of the peer its runtime has:
\* a teardown leaves none behind (teardownRuntime, the guest's setup controller).
THEOREM GuestWaiters == Spec => []GuestWaitersEnd
<1>1. IInv => GuestWaitersEnd
  <2> SUFFICES ASSUME IInv, NEW p \in Guests, run[p].step \in Polls \cup {"connect"}
               PROVE  tab[run[p].tab].peer = p
    BY DEF GuestWaitersEnd, PollsForItsRuntime
  <2>1. RunGood(Now, control, p, run[p])
    BY NowParts DEF IInv, Good, Peers, Instances
  <2> QED BY <2>1, NowParts DEF RunGood, GuestRunGood, Polls, IceSteps
<1> QED BY <1>1, AlwaysGood, PTL

\* A stored recovery record goes only when its player leaves the match or the service
\* has lost the control session: displacement keeps it (handleReconnectClaimLost).
THEOREM DisplacedRecordSurvives == Spec => RecordSurvivesDisplacement
<1>1. IInv /\ [Next]_vars => RecordGoes
  BY StepOK
<1>2. RecordGoes => [RecordGoes]_vars
  OBVIOUS
<1>3. IInv /\ [Next]_vars => [RecordGoes]_vars
  BY <1>1, <1>2
<1> QED BY <1>3, AlwaysGood, PTL DEF Spec, RecordSurvivesDisplacement, RecordGoes

=============================================================================
