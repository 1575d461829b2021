---------------------------- MODULE P2PReconnect ----------------------------
(***************************************************************************)
(* A direct match after it has begun: how the host's tabs and the guest's  *)
(* tabs lose their data channel and make a new one through the reconnect   *)
(* control session of the signaling service.                               *)
(*                                                                         *)
(* Every attempt has a peer and an instanceId of its own, so one name      *)
(* stands for both, and for the offer or the answer that the peer makes.   *)
(* The service applies one request at a time (Signaling checks it); what   *)
(* is asynchronous is the network and the browser: a request and its reply *)
(* are two steps, either may be lost, and a request that the client has    *)
(* given up may still arrive.  An abort ends an attempt at once, unless it *)
(* is in the middle of ICE, which no signal interrupts.                    *)
(*                                                                         *)
(* Not modelled here: registering the control session, the messages of the *)
(* match, times.  The record of the service lapses when nobody claims.     *)
(***************************************************************************)
EXTENDS SignalingRules, FiniteSets

CONSTANTS
    HostTabs, GuestTabs,    \* the browser tabs of the two players
    FirstHost, FirstGuest,  \* the peers the match began with
    FirstTab                \* and the tabs they are in, by role

ASSUME ReconnectAssumption ==
    /\ Offers = Hosts /\ Answers = Guests
    /\ FirstHost \in Hosts /\ FirstGuest \in Guests
    /\ HostTabs \cap GuestTabs = {} /\ None \notin HostTabs \cup GuestTabs
    /\ None \notin {"retry", "gone", "reconnected", "ok"}
    /\ FirstTab["host"] \in HostTabs /\ FirstTab["guest"] \in GuestTabs

Peers == Instances
Tabs == HostTabs \cup GuestTabs
PlayerOf(t) == IF t \in HostTabs THEN "host" ELSE "guest"

VARIABLES
    control,  \* the record of the signaling service, or None
    calls,    \* requests on their way to it
    tab,      \* the runtime of each tab (P2PRuntimeContext)
    run,      \* the reconnect attempt of each peer
    peer,     \* WebRTCPeer: its status, and the peer its SDP is for
    saved     \* whether each player's browser stores a recovery record

vars == <<control, calls, tab, run, peer, saved>>

IceSteps == {"create-offer", "create-answer", "apply"}
Polls == {"read-offer", "read-answer", "read-outcome"}
CallSteps == {"claim", "offer", "answer", "finalize", "abort"}
NoRun == [step |-> "none", tab |-> None, kind |-> None, reply |-> None,
          got |-> None, aborted |-> FALSE]

\* A runtime with nothing in it.  own: whose signal hostReconnectAbortController
\* is; bound: the peer the guest's session is bound to; claim, beat: activeClaim
\* of the heartbeat, and its request; notice: the error the player reads.
NoRuntime == [peer |-> None, session |-> FALSE, inFlight |-> FALSE, own |-> None,
              rebind |-> FALSE, bound |-> None, retry |-> None,
              claim |-> None, beat |-> "idle", notice |-> None]

Active(w, t, p) == w.tab[t].peer = p
Spare(role) == \E p \in Peers : RoleOf(p) = role /\ peer[p].status = "unused"
Fresh(role) == CHOOSE p \in Peers : RoleOf(p) = role /\ peer[p].status = "unused"

Request(op, p, value) == [op |-> op, role |-> RoleOf(p), from |-> p, value |-> value, at |-> 0]
-----------------------------------------------------------------------------
(***************************************************************************)
(* The client.  A handler runs to its end before the next: it takes the    *)
(* world of the clients, w, to another.                                    *)
(***************************************************************************)
Now == [calls |-> calls, tab |-> tab, run |-> run, peer |-> peer, saved |-> saved]
Become(w) ==
    /\ calls' = w.calls /\ tab' = w.tab /\ run' = w.run
    /\ peer' = w.peer /\ saved' = w.saved

Calling(w, p, step, op, value) ==
    [w EXCEPT !.run[p].step = step, !.run[p].reply = None,
              !.calls = @ \cup {Request(op, p, value)}]
Waiting(w, p, step) == [w EXCEPT !.run[p].step = step, !.run[p].reply = None]

Down(status) == IF status \in {"connected", "lost"} THEN "lost" ELSE "failed"

\* Wrong variant of Halted: the guest's setup controller is not aborted.
HaltedHost(w, t) == {w.tab[t].own} \ {None}

\* The attempts whose signals a teardown aborts.
Halted(w, t) ==
    ({w.tab[t].own} \cup (IF t \in GuestTabs THEN {w.tab[t].peer} ELSE {})) \ {None}

\* teardownRuntime: aborts, stops the heartbeat, disposes of controller and peer.
Teardown(w, t) ==
        [w EXCEPT
           !.run = [p \in Peers |->
                       IF p \notin Halted(w, t) THEN w.run[p]
                       ELSE IF w.run[p].step \in IceSteps
                            THEN [w.run[p] EXCEPT !.aborted = TRUE] ELSE NoRun],
           !.peer = [p \in Peers |->
                       IF p = w.tab[t].peer THEN [w.peer[p] EXCEPT !.status = Down(@)]
                       ELSE w.peer[p]],
           !.tab[t] = [NoRuntime EXCEPT !.notice = w.tab[t].notice]]

Attempt(t, kind) == [NoRun EXCEPT !.step = "claim", !.tab = t, !.kind = kind]
Begin(w, t, n, kind) ==
    Calling([w EXCEPT !.peer[n].status = "new", !.run[n] = Attempt(t, kind),
                      !.saved[PlayerOf(t)] = TRUE],
            n, "claim", "claim", None)

\* reconnect(roomCode), with startReconnect of either role.
Reconnect(w, t) ==
    LET n == Fresh(PlayerOf(t))
        clear == Teardown(w, t)
        host == t \in HostTabs
    IN  Begin([clear EXCEPT !.tab[t] =
                 [NoRuntime EXCEPT !.peer = n, !.session = host, !.inFlight = TRUE,
                                   !.rebind = host, !.own = IF host THEN n ELSE None]],
              t, n, "restore")

\* Wrong variant of HandlePeerClosed: the guest stays bound to the old peer.
HandlePeerClosedBound(w, t) ==
    LET n == Fresh("host")
    IN  Begin([w EXCEPT !.peer[w.tab[t].peer].status = Down(@),
                        !.tab[t].peer = n, !.tab[t].own = n, !.tab[t].inFlight = TRUE,
                        !.tab[t].rebind = TRUE, !.tab[t].retry = None],
              t, n, "retry")

\* handlePeerClosed of the host, with replacePeer: the next attempt.
HandlePeerClosed(w, t) ==
    LET n == Fresh("host")
    IN  Begin([w EXCEPT !.peer[w.tab[t].peer].status = Down(@),
                        !.tab[t].bound = None, !.tab[t].peer = n, !.tab[t].own = n,
                        !.tab[t].inFlight = TRUE, !.tab[t].rebind = TRUE,
                        !.tab[t].retry = None],
              t, n, "retry")

\* persistCurrentHostRecoveryRecord, at every change of the host's store.
Persisted(w, t) ==
    IF t \in HostTabs /\ w.tab[t].peer # None THEN [w EXCEPT !.saved["host"] = TRUE] ELSE w

\* An attempt is over: the "finally" of its starter.  Where handlePeerClosed
\* started it, the flags are reset whoever has set them since.
Finally(w, p) ==
    LET r == w.run[p]
        mine == IF RoleOf(p) = "guest" THEN w.tab[r.tab].peer = p
                ELSE r.kind = "retry" \/ w.tab[r.tab].own = p
        over == [w EXCEPT !.run[p] = NoRun]
    IN  IF mine THEN [over EXCEPT !.tab[r.tab].inFlight = FALSE, !.tab[r.tab].own = None]
        ELSE over

\* The attempt failed: retried in a second, or the runtime given up.
Fail(w, p) ==
    LET t == w.run[p].tab
    IN  IF w.run[p].kind = "retry" THEN Finally(Persisted([w EXCEPT !.tab[t].retry = p], t), p)
        ELSE IF ~Active(w, t, p) THEN Finally(w, p)
        ELSE LET over == Finally(w, p)
             IN  Teardown([over EXCEPT !.tab[t].notice = "failed"], t)

\* An error that says nothing of the claim: the attempt is finalized as aborted,
\* unless its signal stops that too.
Abort(w, p) ==
    IF w.run[p].aborted /\ RoleOf(p) = "host" THEN Finally(w, p)
    ELSE Calling(w, p, "abort", "finalize", "aborted")

\* handleReconnectClaimLost, handleReconnectRecoveryUnavailable.
Deactivated(w, t, notice) ==
    LET released == [w EXCEPT !.tab[t].claim = None, !.tab[t].beat = "idle",
                              !.tab[t].notice = notice]
    IN  IF w.tab[t].peer = None THEN released ELSE Teardown(released, t)

\* Wrong variant of ClaimLost: displacement cleans up the record as well.
ClaimLostForgets(w, t) ==
    Deactivated([w EXCEPT !.saved[PlayerOf(t)] = FALSE], t, "displaced")

ClaimLost(w, t) == Deactivated(w, t, "displaced")
RecoveryUnavailable(w, t) ==
    Deactivated([w EXCEPT !.saved[PlayerOf(t)] = FALSE], t, "unavailable")

\* handleReconnectAttemptClaimError, and what the starter does with the throw.
Dispossessed(w, p, lost) ==
    LET r == w.run[p]
        over == [lost EXCEPT !.run[p] = NoRun]
    IN  IF r.kind = "retry"
        THEN [over EXCEPT !.tab[r.tab].retry = p, !.tab[r.tab].inFlight = FALSE,
                          !.tab[r.tab].own = None]
        ELSE over

\* claims.start.
Started(w, p) ==
    [w EXCEPT !.tab[w.run[p].tab].claim = p, !.tab[w.run[p].tab].beat = "idle"]

\* What follows a reply that says yes.
Continue(w, p) ==
    LET step == w.run[p].step
        host == RoleOf(p) = "host"
    IN  CASE step = "claim" ->
               Waiting(Started(w, p), p, IF host THEN "create-offer" ELSE "read-offer")
          [] step = "offer"       -> Waiting(w, p, "read-answer")
          [] step = "read-answer" -> Waiting(w, p, "apply")
          [] step = "read-offer"  -> Waiting(w, p, "create-answer")
          [] step = "answer"      -> Waiting(w, p, "read-outcome")
          [] step \in {"finalize", "read-outcome"} -> Finally(w, p)

\* The attempt goes on with the reply to its request.
Resume(p) ==
    LET r == run[p]
    IN  /\ r.reply # None
        /\ Become(IF r.step = "abort" THEN Fail(Now, p)
                  ELSE CASE r.reply = "ok" -> Continue(Now, p)
                         [] r.reply = "forbidden" ->
                              Dispossessed(Now, p, ClaimLost(Now, r.tab))
                         [] r.reply = "gone" ->
                              Dispossessed(Now, p, RecoveryUnavailable(Now, r.tab))
                         [] OTHER -> Abort(Now, p))
        /\ UNCHANGED control
-----------------------------------------------------------------------------
(***************************************************************************)
(* The peers.                                                              *)
(***************************************************************************)
\* The tab whose peer it is, unless its runtime has another by now.
TabOf(w, p) == IF \E t \in Tabs : Active(w, t, p) THEN CHOOSE t \in Tabs : Active(w, t, p) ELSE None

\* A closed peer starts an attempt: the host's if none is in flight, the guest's
\* if it is in a match as well.
StartsAttempt(w, t) ==
    /\ t # None /\ ~w.tab[t].inFlight
    /\ t \in GuestTabs => w.tab[t].session /\ w.saved["guest"]

\* A peer goes down: its runtime hears of it, and an attempt that waits for it.
Lose(w, p) ==
    LET t == TabOf(w, p)
        down == [w EXCEPT !.peer[p].status = Down(@)]
        heard == IF StartsAttempt(w, t)
                 THEN IF t \in HostTabs THEN HandlePeerClosed(down, t) ELSE Reconnect(down, t)
                 ELSE IF t # None THEN Persisted(down, t) ELSE down
    IN  IF heard.run[p].step = "connect" THEN Abort(heard, p) ELSE heard

\* Bound: there is a peer left for the attempt that this may start.
MayLose(p) ==
    LET t == TabOf(Now, p) IN StartsAttempt(Now, t) => Spare(PlayerOf(t))

\* Wrong variant of AwaitConnected: the host does not wait for its peer.
AwaitNothing(w, p) == Calling(w, p, "finalize", "finalize", "reconnected")

\* waitForPeerConnected.
AwaitConnected(w, p) == Waiting(w, p, "connect")

\* ICE gathering ends, and the attempt goes on unless it was aborted meanwhile.
Gather(p) ==
    LET r == run[p]
        Told(w) == [w EXCEPT !.peer[p] = [status |-> "connecting", other |-> r.got]]
    IN  /\ r.step \in IceSteps
        /\ Become(IF r.aborted THEN Finally(Now, p)
                  ELSE CASE r.step = "create-offer" -> Calling(Now, p, "offer", "offer", p)
                         [] r.step = "create-answer" ->
                              Told(Calling(Now, p, "answer", "answer", p))
                         [] r.step = "apply" -> Told(AwaitConnected(Now, p)))
        /\ UNCHANGED control

\* The browser cannot make, or apply, a description.
GatherFails(p) ==
    /\ run[p].step \in IceSteps /\ MayLose(p)
    /\ Become(Abort(Lose(Now, p), p))
    /\ UNCHANGED control

\* handlePeerConnected of the host.
Rebinds(t, p) == t \in HostTabs /\ Active(Now, t, p) /\ tab[t].rebind

\* The data channel opens at one end; an attempt that waits for it goes on.
Open(p) ==
    LET q == peer[p].other
        t == TabOf(Now, p)
        open == [Now EXCEPT !.peer[p].status = "connected",
                            !.tab = [x \in Tabs |->
                               IF ~Rebinds(x, p) THEN @[x]
                               ELSE [@[x] EXCEPT !.bound = p, !.rebind = FALSE]]]
        heard == IF t = None THEN open ELSE Persisted(open, t)
    IN  /\ peer[p].status = "connecting" /\ peer[q].other = p
        /\ peer[q].status \in {"connecting", "connected"}
        /\ Become(IF run[p].step # "connect" THEN heard
                  ELSE Calling(heard, p, "finalize", "finalize", "reconnected"))
        /\ UNCHANGED control

\* The link fails, or the other end has closed.
Drop(p) ==
    /\ peer[p].status \in {"connecting", "connected"} /\ MayLose(p)
    /\ Become(Lose(Now, p))
    /\ UNCHANGED control

\* The host, asked by the guest, replays the match: the guest has a session.
Replay(t) ==
    LET p == tab[t].peer
    IN  /\ t \in GuestTabs /\ p # None /\ ~tab[t].session
        /\ peer[p].status = "connected"
        /\ \E x \in HostTabs : tab[x].bound = peer[p].other
        /\ tab' = [tab EXCEPT ![t].session = TRUE]
        /\ UNCHANGED <<control, calls, run, peer, saved>>
-----------------------------------------------------------------------------
(***************************************************************************)
(* The service, and the way to it.                                         *)
(***************************************************************************)
Verdict(q) ==
    IF control = None THEN "gone"
    ELSE IF Permits(control, q) THEN "ok"
    ELSE IF q.op # "claim" /\ ~HasRole(control, q.role, q.from) THEN "forbidden"
    ELSE "conflict"

\* Wrong variant of Replied: a heartbeat that fails is not sent again.
RepliedAsIs(w, q, reply) ==
    IF q.op = "heartbeat"
    THEN [w EXCEPT !.tab = [t \in Tabs |->
            IF @[t].claim = q.from THEN [@[t] EXCEPT !.beat = reply] ELSE @[t]]]
    ELSE IF w.run[q.from].reply = None /\ w.run[q.from].step # "none"
    THEN [w EXCEPT !.run[q.from].reply = reply]
    ELSE w

\* Who waits for the reply gets it; a heartbeat that fails is sent again later.
Replied(w, q, reply) ==
    LET p == q.from
        awaited == IF q.op = "finalize" /\ q.value = "aborted" THEN "abort" ELSE q.op
    IN  IF q.op = "heartbeat"
        THEN [w EXCEPT !.tab = [t \in Tabs |->
                IF @[t].claim # p \/ @[t].beat # "sent" THEN @[t]
                ELSE [@[t] EXCEPT !.beat =
                        IF reply \in {"forbidden", "gone"} THEN reply ELSE "idle"]]]
        ELSE IF w.run[p].step = awaited /\ w.run[p].reply = None
        THEN [w EXCEPT !.run[p].reply = reply]
        ELSE w

\* The service applies a request; its reply may get lost.
Serve(q) ==
    /\ control' = IF Verdict(q) = "ok" THEN Outcome(control, q) ELSE control
    /\ \E reply \in {Verdict(q), "unreachable"} :
          Become(Replied([Now EXCEPT !.calls = @ \ {q}], q, reply))

\* The request gets lost.
Vanish(q) ==
    /\ Become(Replied([Now EXCEPT !.calls = @ \ {q}], q, "unreachable"))
    /\ UNCHANGED control

\* What the reads of a polling loop look for, and what the attempt goes on with.
OfferRead(p) ==
    {[reply |-> "ok", got |-> a.offer] : a \in
        {x \in {control.attempt} : run[p].step = "read-offer" /\ x.status = "offer-ready"}}

AnswerRead(p) ==
    {[reply |-> IF a.answer # None THEN "ok" ELSE "expired", got |-> a.answer] : a \in
        {x \in {control.attempt} : /\ run[p].step = "read-answer"
                                   /\ x.answer # None \/ x.status = "finalized"}}

OutcomeRead(p) ==
    {[reply |-> IF a.outcome = "reconnected" THEN "ok" ELSE "aborted", got |-> None] : a \in
        {x \in {control.attempt} : run[p].step = "read-outcome" /\ x.status = "finalized"}}

\* What ends the polling; a read needs the role as a write does.
EndsPoll(p) ==
    CASE control = None -> {[reply |-> "gone", got |-> None]}
      [] control # None /\ ~HasRole(control, RoleOf(p), p) -> {[reply |-> "forbidden", got |-> None]}
      [] OTHER -> OfferRead(p) \cup AnswerRead(p) \cup OutcomeRead(p)

\* One round of a polling loop that ends it, or fails.
Poll(p) ==
    /\ run[p].step \in Polls /\ run[p].reply = None
    /\ \/ \E end \in EndsPoll(p) :
             run' = [run EXCEPT ![p].reply = end.reply, ![p].got = end.got]
       \/ run' = [run EXCEPT ![p].reply = "unreachable"]
    /\ UNCHANGED <<control, calls, tab, peer, saved>>

\* The record lapses when no tab keeps it alive.
Lapse ==
    /\ control # None /\ \A t \in Tabs : tab[t].claim = None
    /\ control' = None
    /\ UNCHANGED <<calls, tab, run, peer, saved>>
-----------------------------------------------------------------------------
(***************************************************************************)
(* Timers and players.                                                     *)
(***************************************************************************)
Heartbeat(t) ==
    /\ tab[t].claim # None /\ tab[t].beat = "idle"
    /\ Become([Now EXCEPT !.tab[t].beat = "sent",
                          !.calls = @ \cup {Request("heartbeat", tab[t].claim, None)}])
    /\ UNCHANGED control

HeartbeatFails(t) ==
    /\ \/ tab[t].beat = "forbidden" /\ Become(ClaimLost(Now, t))
       \/ tab[t].beat = "gone" /\ Become(RecoveryUnavailable(Now, t))
    /\ UNCHANGED control

\* The timer of scheduleReconnectRetry.
Retry(t) ==
    LET p == tab[t].retry
        fired == [Now EXCEPT !.tab[t].retry = None]
    IN  /\ p # None /\ Spare("host")
        /\ Become(IF Active(Now, t, p) /\ ~tab[t].inFlight
                  THEN HandlePeerClosed(fired, t) ELSE fired)
        /\ UNCHANGED control

\* The room page is opened, or its player chooses to reconnect here.
OpenRoom(t) ==
    /\ tab[t].peer = None /\ saved[PlayerOf(t)] /\ Spare(PlayerOf(t))
    /\ Become(Reconnect(Now, t))
    /\ UNCHANGED control

\* clearRecoveryForActiveRuntime: the record of the match the tab is in goes.
RecoveryCleared(w, t) == [w EXCEPT !.saved[PlayerOf(t)] = @ /\ ~w.tab[t].session]

\* openLobby: the player leaves the match.
Leave(t) ==
    /\ tab[t].peer # None
    /\ Become(Teardown([RecoveryCleared(Now, t) EXCEPT !.tab[t].notice = None], t))
    /\ UNCHANGED control

\* The tab is closed or reloaded: what it had sent is still under way.
Close(t) ==
    /\ tab[t].peer # None
    /\ tab' = [tab EXCEPT ![t] = NoRuntime]
    /\ run' = [p \in Peers |-> IF run[p].tab = t THEN NoRun ELSE run[p]]
    /\ peer' = [p \in Peers |-> IF p = tab[t].peer \/ run[p].tab = t
                                THEN [peer[p] EXCEPT !.status = Down(@)] ELSE peer[p]]
    /\ UNCHANGED <<control, calls, saved>>
-----------------------------------------------------------------------------
Init ==
    /\ control = [RegisteredControl(0) EXCEPT
                    !.claim = [r \in Roles |-> IF r = "host" THEN FirstHost ELSE FirstGuest]]
    /\ calls = {}
    /\ run = [p \in Peers |-> NoRun]
    /\ peer = [p \in Peers |->
                  CASE p = FirstHost  -> [status |-> "connected", other |-> FirstGuest]
                    [] p = FirstGuest -> [status |-> "connected", other |-> FirstHost]
                    [] OTHER          -> [status |-> "unused", other |-> None]]
    /\ saved = [r \in Roles |-> TRUE]
    /\ tab = [t \in Tabs |->
                 LET p == IF t \in HostTabs THEN FirstHost ELSE FirstGuest
                 IN  IF t # FirstTab[PlayerOf(t)] THEN NoRuntime
                     ELSE [NoRuntime EXCEPT !.peer = p, !.session = TRUE, !.claim = p,
                              !.bound = IF t \in HostTabs THEN p ELSE None]]

Attempting(p) == Resume(p) \/ Gather(p) \/ GatherFails(p) \/ Poll(p)
Linking(p) == Open(p) \/ Drop(p)
Running(t) == Replay(t) \/ Heartbeat(t) \/ HeartbeatFails(t) \/ Retry(t)
Choosing(t) == OpenRoom(t) \/ Leave(t) \/ Close(t)

Next ==
    \/ \E p \in Peers : Attempting(p) \/ Linking(p)
    \/ \E t \in Tabs : Running(t) \/ Choosing(t)
    \/ \E q \in calls : Serve(q) \/ Vanish(q)
    \/ Lapse

Spec == Init /\ [][Next]_vars
-----------------------------------------------------------------------------
\* The values every variable may take.
TypeOK ==
    /\ control \in Controls \cup {None}
    /\ \A q \in calls : q.from \in Peers /\ q.op \in ControlOps
    /\ \A t \in Tabs :
          /\ {tab[t].peer, tab[t].own, tab[t].bound, tab[t].retry, tab[t].claim}
                \subseteq {p \in Peers : RoleOf(p) = PlayerOf(t)} \cup {None}
          /\ tab[t].beat \in {"idle", "sent", "forbidden", "gone"}
          /\ tab[t].notice \in {None, "failed", "displaced", "unavailable"}
    /\ \A p \in Peers :
          /\ run[p].step \in IceSteps \cup Polls \cup CallSteps \cup {"none", "connect"}
          /\ run[p].step # "none" =>
                /\ PlayerOf(run[p].tab) = RoleOf(p)
                /\ run[p].kind = "retry" => RoleOf(p) = "host"
          /\ peer[p].status \in {"unused", "new", "connecting", "connected", "lost", "failed"}
          /\ peer[p].other # None => RoleOf(peer[p].other) # RoleOf(p)

\* "Displacement paths intentionally do not delete the displaced tab's recovery
\* record": a record disappears only when the player leaves the match, or when
\* the signaling service no longer knows the control session.
RecordSurvivesDisplacement ==
    [][\A r \in Roles : saved[r] /\ ~saved'[r] =>
          \/ control = None
          \/ \E t \in Tabs : tab[t].session /\ tab'[t].peer = None /\ tab'[t].notice = None]_vars

\* The host's transport takes the guest's commands only through its own peer,
\* and only after that peer connected, whatever attempts came and went.
BoundThroughActivePeer ==
    \A t \in HostTabs : tab[t].bound # None =>
        /\ tab[t].bound = tab[t].peer
        /\ peer[tab[t].bound].status \in {"connected", "lost"}

\* A guest that reads "reconnected" reads it of an offer whose host peer did
\* connect: no instance finalizes an attempt for another's peer.
ReconnectedByConnectedHost ==
    control # None /\ control.attempt.outcome = "reconnected" =>
        control.attempt.offer # None /\ peer[control.attempt.offer].status \in {"connected", "lost"}

\* A tab that polls, or waits for a peer, does so for the runtime it has.
PollsForItsRuntime(p) ==
    run[p].step \in Polls \cup {"connect"} => tab[run[p].tab].peer = p

\* No loop of a guest outlives its runtime.
GuestWaitersEnd == \A p \in Guests : PollsForItsRuntime(p)

\* "Abort every in-flight loop ..., so no waiter outlives the state it reads."
NoWaiterOutlivesItsRuntime == \A p \in Peers : PollsForItsRuntime(p)
=============================================================================
