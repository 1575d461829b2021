---------------------------- MODULE DirectSetup ----------------------------
(***************************************************************************)
(* How a direct match is set up: the host's page makes an offer and        *)
(* publishes it as a session of the signaling service; whoever opens the   *)
(* link may answer it, the first answer is taken, and the host applies and *)
(* finalizes it.  A request and its reply are one step here, which either  *)
(* may be lost from; P2PReconnect has late ones.                           *)
(*                                                                         *)
(* A guest's answer bears the guest's name: one whose answer was taken     *)
(* never gets to make another, as the link no longer looks open to it.     *)
(* Left out: names, the copied invitation, a second invitation of the      *)
(* host, the answer pasted as a text (no page offers it).                  *)
(***************************************************************************)
EXTENDS SignalingRules, FiniteSets

\* SIGNALING_SESSION_STATES: what withVisibleState shows.
VisibleStates == {"open", "answered", "finalized", "expired"}

ASSUME SetupAssumption ==
    /\ Answers = Guests /\ Offers # {}
    /\ None \notin Sessions /\ None \notin VisibleStates

VARIABLES
    invite,   \* the session of the signaling service, or None
    hosting,  \* the host's setup: its stage, and the answer it has applied
    joining   \* each guest's setup: its stage, the state of the link as its page
              \* last saw it, and whether the peer of its answer is still there

setupVars == <<invite, hosting, joining>>

HostStages == {"creating-offer", "creating-session", "waiting-for-guest", "applying-answer",
               "finalizing", "done", "failed"}
GuestStages == {"closed", "loading-session", "idle", "refreshing", "creating-answer",
                "submitting-answer", "waiting-for-host-finalize", "connecting", "failed"}
SeenStates == VisibleStates \cup {None}

NewPage == [stage |-> "closed", sees |-> None, peer |-> FALSE]
NewHost == [stage |-> "creating-offer", applied |-> None]

\* The record's expiry counts from now: time passes when the link lapses.
Lapsed(s) == [s EXCEPT !.expiresAt = 0]
VisibleState(s) == IF Expired(s, 0) THEN "expired" ELSE s.state

Staged(g, stage) == joining' = [joining EXCEPT ![g].stage = stage]
\* failGuestSetup.
Fails(g) == Staged(g, "failed")
At(g, stage) == joining[g].stage = stage

Unavailable(state) == state \in {"answered", "finalized", "expired"}

\* completeGuestSessionLoad, and the stage the page goes on to.
Loaded(g, state, stage) ==
    joining' = [joining EXCEPT ![g].sees = state,
                               ![g].stage = IF Unavailable(state) THEN "failed" ELSE stage]
-----------------------------------------------------------------------------
(***************************************************************************)
(* A guest's page.                                                         *)
(***************************************************************************)
CanJoin(g) ==
    /\ joining[g].sees = "open"
    /\ joining[g].stage \notin {"creating-answer", "submitting-answer",
                                "waiting-for-host-finalize"}

\* The link is opened, or its page loaded again; the peer of an answer is gone.
OpenSetupSession(g) ==
    /\ invite # None
    /\ joining' = [joining EXCEPT ![g] = [NewPage EXCEPT !.stage = "loading-session"]]
    /\ UNCHANGED <<invite, hosting>>

LoadSession(g) ==
    /\ At(g, "loading-session")
    /\ Loaded(g, VisibleState(invite), "idle") \/ Fails(g)
    /\ UNCHANGED <<invite, hosting>>

\* createAnswer: not on a link that this page knows to have expired.
Join(g) ==
    /\ CanJoin(g)
    /\ IF Expired(invite, 0) THEN Fails(g)
       ELSE joining' = [joining EXCEPT ![g].stage = "refreshing", ![g].peer = FALSE]
    /\ UNCHANGED <<invite, hosting>>

\* The link is read again before a peer is made.
RefreshSession(g) ==
    /\ At(g, "refreshing")
    /\ Loaded(g, VisibleState(invite), "creating-answer") \/ Fails(g)
    /\ UNCHANGED <<invite, hosting>>

CreateGuestAnswer(g) ==
    /\ At(g, "creating-answer")
    /\ Staged(g, "submitting-answer") \/ Fails(g)
    /\ UNCHANGED <<invite, hosting>>

\* Refused, or lost on the way there.  A page whose setup failed keeps its peer.
SubmitFails(g) ==
    /\ At(g, "submitting-answer") /\ Fails(g)
    /\ UNCHANGED <<invite, hosting>>

\* The service takes the answer; the reply may be lost.
SubmitAnswer(g) ==
    /\ At(g, "submitting-answer") /\ ~Expired(invite, 0) /\ TakesAnswer(invite)
    /\ invite' = WithAnswer(invite, g)
    /\ \E answered \in {[stage |-> "waiting-for-host-finalize", sees |-> "answered", peer |-> TRUE],
                        [joining[g] EXCEPT !.stage = "failed", !.peer = TRUE]} :
          joining' = [joining EXCEPT ![g] = answered]
    /\ UNCHANGED hosting

\* pollForFinalization.
PollForFinalization(g) ==
    LET state == VisibleState(invite)
    IN  /\ At(g, "waiting-for-host-finalize")
        /\ \/ /\ state \in {"finalized", "expired"}
              /\ joining' = [joining EXCEPT
                                ![g].sees = state,
                                ![g].stage = IF state = "expired" THEN "failed" ELSE "connecting"]
           \/ Fails(g)
        /\ UNCHANGED <<invite, hosting>>
-----------------------------------------------------------------------------
(***************************************************************************)
(* The host's page: startSetup and publishOfferAndAwaitGuest.              *)
(***************************************************************************)
HostAt(stage) == hosting.stage = stage
HostStaged(stage) == hosting' = [hosting EXCEPT !.stage = stage]

CreateHostOffer ==
    /\ HostAt("creating-offer") /\ HostStaged("creating-session")
    /\ UNCHANGED <<invite, joining>>

CreateSession ==
    /\ HostAt("creating-session") /\ HostStaged("waiting-for-guest")
    /\ \E offer \in Offers : invite' = CreatedSession(offer, 0)
    /\ UNCHANGED joining

\* pollForAnswer ends with an answer of a link that is not expired.
PollForAnswer ==
    /\ HostAt("waiting-for-guest") /\ ~Expired(invite, 0) /\ invite.answer # None
    /\ hosting' = [stage |-> "applying-answer", applied |-> invite.answer]
    /\ UNCHANGED <<invite, joining>>

\* The peer takes the guest's answer, and ICE begins.
ApplyGuestAnswer ==
    /\ HostAt("applying-answer") /\ HostStaged("finalizing")
    /\ UNCHANGED <<invite, joining>>

\* Bound: the setup is over once the guest is in the room; nobody is followed further.
SetupOver ==
    /\ invite' = None
    /\ hosting' = [hosting EXCEPT !.stage = "done"]
    /\ joining' = [g \in Guests |-> NewPage]

\* over: with this, the guest is in the room.
FinalizeSession(over) ==
    /\ HostAt("finalizing") /\ ~Expired(invite, 0) /\ invite.answer # None
    /\ IF over THEN SetupOver
       ELSE /\ HostStaged("done") /\ invite' = FinalizedSession(invite)
            /\ UNCHANGED joining

\* The catch of startSetup: an expired link, ICE, or a request or reply that is lost.
FailHostSetup ==
    /\ hosting.stage \notin {"done", "failed"} /\ HostStaged("failed")
    /\ \/ UNCHANGED invite
       \/ HostAt("finalizing") /\ ~Expired(invite, 0) /\ invite' = FinalizedSession(invite)
    /\ UNCHANGED joining

Lapse ==
    /\ invite # None /\ ~Expired(invite, 0) /\ invite' = Lapsed(invite)
    /\ UNCHANGED <<hosting, joining>>

InitSetup ==
    /\ invite = None
    /\ hosting = NewHost
    /\ joining = [g \in Guests |-> NewPage]

\* Whose channel the host's peer has taken, while that guest still has its own.
Counterpart ==
    {g \in Guests : g = hosting.applied /\ joining[g].peer}

SetupTypeOK ==
    /\ invite \in Sessions \cup {None}
    /\ hosting \in [stage : HostStages, applied : Answers \cup {None}]
    /\ joining \in [Guests -> [stage : GuestStages, sees : SeenStates, peer : BOOLEAN]]

\* A guest who was told that its answer was taken is the one the host connects to,
\* however many open the link, lose replies or try again.
OneGuestPerLink ==
    \A g \in Guests :
        joining[g].stage \in {"waiting-for-host-finalize", "connecting"}
            => hosting.applied \in {None, g}
=============================================================================
