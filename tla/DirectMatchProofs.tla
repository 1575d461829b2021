------------------------- MODULE DirectMatchProofs -------------------------
(***************************************************************************)
(* A direct match, for any number of guests that open the link, of links,  *)
(* texts and moves, whatever the two pages and the service do in whatever  *)
(* order.  Two invariants are kept by every step.                          *)
(*                                                                         *)
(* SetupInv: a guest waits for the host, or connects to it, only while the *)
(* record of the service has its answer; so does the host that has applied *)
(* one; and an answer is never replaced.                                   *)
(*                                                                         *)
(* MatchInv: what the guest's page shows, and the messages under way to    *)
(* it, lead to the room that the host keeps, unless the guest has yet to   *)
(* ask for it; each page that waits is owed an answer, which is under way; *)
(* and no match that the guest has been shown is later than the room's.    *)
(*                                                                         *)
(* As long as the host's page stays in its room, the record is the room    *)
(* too, but for the guest's presence: Recoverable.                         *)
(***************************************************************************)
EXTENDS DirectMatchLemmas

-----------------------------------------------------------------------------
\* The setup.

Accepted(g) == joining[g].stage \in {"waiting-for-host-finalize", "connecting"}

\* Before there is a link, and after the guest is in the room, no page is open.
SetupInv ==
    /\ SetupTypeOK
    /\ hosting.stage \in {"creating-offer", "creating-session"} => invite = None
    /\ hosting.stage \in {"creating-offer", "creating-session", "waiting-for-guest"} =>
          hosting.applied = None
    /\ hosting.stage \in {"waiting-for-guest", "applying-answer", "finalizing"} => invite # None
    /\ invite = None => \A g \in Guests : joining[g] = NewPage
    /\ invite # None =>
          /\ \A g \in Guests : Accepted(g) => invite.answer = g
          /\ hosting.applied # None => invite.answer = hosting.applied

\* One step of a guest's page, of the host's page or of the service.
GuestStep(g) ==
    \/ OpenSetupSession(g) \/ LoadSession(g) \/ Join(g) \/ RefreshSession(g)
    \/ CreateGuestAnswer(g) \/ SubmitAnswer(g) \/ SubmitFails(g) \/ PollForFinalization(g)
HostStep ==
    \/ CreateHostOffer \/ CreateSession \/ PollForAnswer \/ ApplyGuestAnswer
    \/ FinalizeSession(FALSE) \/ FailHostSetup \/ Lapse
SetupNext == HostStep \/ SetupOver \/ \E g \in Guests : GuestStep(g)

-----------------------------------------------------------------------------
\* A step of the match leaves the setup alone, or ends it.
LEMMA MatchStep ==
    ASSUME [Next]_vars
    PROVE  [SetupNext]_setupVars
<1>1. ASSUME NEW p \in Players, NEW o \in {"keep", "pass", "win"}, SubmitCellAction(p, o)
      PROVE  [SetupNext]_setupVars
  BY <1>1 DEF SubmitCellAction, Become, SetupNext
<1>2. ASSUME NEW p \in Players, ResignMatch(p) \/ Rematch(p) PROVE [SetupNext]_setupVars
  BY <1>2 DEF ResignMatch, Rematch, Become, SetupNext
<1>3. ASSUME NEW p \in Players, NEW text \in Texts, SendChatMessage(p, text)
      PROVE  [SetupNext]_setupVars
  BY <1>3 DEF SendChatMessage, Become, SetupNext
<1>4. ASSUME NEW p \in Players, Open(p) PROVE [SetupNext]_setupVars
  BY <1>4 DEF Open, Become, SetupNext
<1>5. ASSUME NEW p \in Players, Break(p) \/ CloseEvent(p) PROVE [SetupNext]_setupVars
  BY <1>5 DEF Break, CloseEvent, Become, SetupNext
<1>6. ASSUME NEW p \in Players, Deliver(p) PROVE [SetupNext]_setupVars
  BY <1>6 DEF Deliver, Become, SetupNext
<1>7. ASSUME NEW p \in Players, AttemptEnds(p) \/ AttemptFails(p) \/ OpenRoom(p)
      PROVE  [SetupNext]_setupVars
  BY <1>7 DEF AttemptEnds, AttemptFails, OpenRoom, Become, SetupNext
<1>8. CASE SetupGoesOn
  BY <1>8 DEF SetupGoesOn, SetupNext, HostStep, GuestStep
<1>9. CASE FirstLink \/ HostSetupFails
  BY <1>9 DEF FirstLink, HostSetupFails, SetupNext, HostStep
<1>10. CASE FinalizeSetup
  <2>1. \A over : FinalizeSession(over) => SetupOver \/ FinalizeSession(FALSE)
    BY DEF FinalizeSession
  <2> QED BY <1>10, <2>1 DEF FinalizeSetup, SetupNext, HostStep
<1>11. ASSUME NEW g \in Guests, GuestStartsOver(g) PROVE [SetupNext]_setupVars
  BY <1>11 DEF GuestStartsOver, SetupNext, GuestStep
<1>12. CASE Registered \/ RegisterFails \/ Pair \/ Retry
  BY <1>12 DEF Registered, RegisterFails, Pair, Retry, Become, SetupNext
<1>13. CASE UNCHANGED vars
  BY <1>13 DEF vars
<1> QED
  BY <1>1, <1>2, <1>3, <1>4, <1>5, <1>6, <1>7, <1>8, <1>9, <1>10, <1>11, <1>12, <1>13
     DEF Next

-----------------------------------------------------------------------------
\* A session that takes an answer.
LEMMA AnswerTaken ==
    ASSUME NEW s \in Sessions, NEW a \in Answers
    PROVE  WithAnswer(s, a) \in Sessions /\ WithAnswer(s, a).answer = a
<1> DEFINE d == [s EXCEPT !.answer = a]
<1>1. d = [state |-> s.state, offer |-> s.offer, answer |-> a, expiresAt |-> s.expiresAt]
  BY DEF Sessions
<1>2. WithAnswer(s, a) = [d EXCEPT !.state = "answered"]
  BY DEF WithAnswer
<1> HIDE DEF d
<1>3. [d EXCEPT !.state = "answered"] =
          [state |-> "answered", offer |-> s.offer, answer |-> a, expiresAt |-> s.expiresAt]
  BY <1>1
<1> QED BY <1>2, <1>3 DEF Sessions

\* A session that is finalized, or lapses, keeps its answer.
LEMMA AnswerStays ==
    ASSUME NEW s \in Sessions
    PROVE  /\ FinalizedSession(s) \in Sessions /\ FinalizedSession(s).answer = s.answer
           /\ Lapsed(s) \in Sessions /\ Lapsed(s).answer = s.answer
  BY DEF FinalizedSession, Lapsed, Sessions

\* A session is created with no answer.
LEMMA CreatedOK ==
    ASSUME NEW offer \in Offers
    PROVE  CreatedSession(offer, 0) \in Sessions /\ CreatedSession(offer, 0).answer = None
<1>1. 0 + Ttl \in Nat
  BY RulesAssumption
<1> QED BY <1>1 DEF CreatedSession, Sessions

\* What a page makes of the link it has read.
LEMMA LoadedOK ==
    ASSUME SetupTypeOK, NEW g \in Guests, invite # None,
           NEW stage \in {"idle", "creating-answer"}, Loaded(g, VisibleState(invite), stage)
    PROVE  /\ joining' \in [Guests -> [stage : GuestStages, sees : SeenStates, peer : BOOLEAN]]
           /\ ~Accepted(g)' /\ \A u \in Guests \ {g} : joining'[u] = joining[u]
<1>1. PICK state : state = VisibleState(invite)
  OBVIOUS
<1>2. state \in SeenStates
  BY <1>1 DEF SetupTypeOK, VisibleState, Sessions, SeenStates, VisibleStates
<1>3. PICK next : next = IF Unavailable(state) THEN "failed" ELSE stage
  OBVIOUS
<1>4. joining' = [joining EXCEPT ![g].sees = state, ![g].stage = next]
  BY <1>1, <1>3 DEF Loaded
<1>5. PICK read : read = [joining[g] EXCEPT !.sees = state]
  OBVIOUS
<1>6. PICK page : page = [read EXCEPT !.stage = next]
  OBVIOUS
<1>7. joining' = [joining EXCEPT ![g] = page]
  BY <1>4, <1>5, <1>6 DEF SetupTypeOK
<1>8. read = [stage |-> joining[g].stage, sees |-> state, peer |-> joining[g].peer]
  BY <1>5 DEF SetupTypeOK
<1>9. page = [stage |-> next, sees |-> state, peer |-> joining[g].peer]
  BY <1>6, <1>8
<1> QED BY <1>2, <1>3, <1>7, <1>9 DEF SetupTypeOK, GuestStages, Accepted

\* A page goes on to a stage where it does not count as accepted.
LEMMA StagedOK ==
    ASSUME SetupTypeOK, NEW g \in Guests, NEW stage \in GuestStages, Staged(g, stage)
    PROVE  /\ joining' \in [Guests -> [stage : GuestStages, sees : SeenStates, peer : BOOLEAN]]
           /\ joining'[g].stage = stage
           /\ \A u \in Guests \ {g} : joining'[u] = joining[u]
<1> DEFINE page == [joining[g] EXCEPT !.stage = stage]
<1>1. joining' = [joining EXCEPT ![g] = page]
  BY DEF Staged, SetupTypeOK
<1>2. page = [stage |-> stage, sees |-> joining[g].sees, peer |-> joining[g].peer]
  BY DEF SetupTypeOK
<1> HIDE DEF page
<1> QED BY <1>1, <1>2 DEF SetupTypeOK

\* A page, other than one that waits for the host, moves on; its answer was not taken.
LEMMA PageMoves ==
    ASSUME SetupInv, NEW g \in Guests, UNCHANGED <<invite, hosting>>, invite # None,
           joining' \in [Guests -> [stage : GuestStages, sees : SeenStates, peer : BOOLEAN]],
           Accepted(g)' => Accepted(g),
           \A u \in Guests \ {g} : joining'[u] = joining[u]
    PROVE  SetupInv'
  BY DEF SetupInv, SetupTypeOK, Accepted

\* One step of a guest's page.
LEMMA GuestKeeps ==
    ASSUME SetupInv, NEW g \in Guests, GuestStep(g)
    PROVE  SetupInv'
<1>1. SetupTypeOK
  BY DEF SetupInv
<1>2. invite # None \/ joining[g] = NewPage
  BY DEF SetupInv
<1>3. joining[g].stage # "closed" \/ joining[g].sees # None => invite # None
  BY <1>2 DEF NewPage
<1>4. CASE OpenSetupSession(g)
  <2> DEFINE page == [NewPage EXCEPT !.stage = "loading-session"]
  <2>2. joining' = [joining EXCEPT ![g] = page] /\ UNCHANGED <<invite, hosting>> /\ invite # None
    BY <1>4 DEF OpenSetupSession
  <2>1. page = [stage |-> "loading-session", sees |-> None, peer |-> FALSE]
    <3>1. PICK no : no = FALSE
      OBVIOUS
    <3>2. NewPage = [stage |-> "closed", sees |-> None, peer |-> no]
      BY <3>1 DEF NewPage
    <3>3. page = [stage |-> "loading-session", sees |-> None, peer |-> no]
      BY <3>2
    <3> QED BY <3>1, <3>3
  <2> HIDE DEF page
  <2>3. /\ joining' \in [Guests -> [stage : GuestStages, sees : SeenStates, peer : BOOLEAN]]
        /\ joining'[g] = page /\ \A u \in Guests \ {g} : joining'[u] = joining[u]
    BY <1>1, <2>1, <2>2 DEF SetupTypeOK, GuestStages, SeenStates
  <2> QED BY <2>1, <2>2, <2>3, PageMoves DEF Accepted
<1>5. CASE LoadSession(g) \/ RefreshSession(g)
  <2>1. UNCHANGED <<invite, hosting>> /\ invite # None
    BY <1>3, <1>5 DEF LoadSession, RefreshSession, At
  <2>2. \/ \E stage \in {"idle", "creating-answer"} : Loaded(g, VisibleState(invite), stage)
        \/ Staged(g, "failed")
    BY <1>5 DEF LoadSession, RefreshSession, Fails
  <2> QED BY <1>1, <2>1, <2>2, LoadedOK, StagedOK, PageMoves DEF GuestStages, Accepted
<1>6. CASE Join(g)
  <2>1. UNCHANGED <<invite, hosting>> /\ invite # None
    BY <1>3, <1>6, SetupAssumption DEF Join, CanJoin, VisibleStates
  <2>2. CASE Staged(g, "failed")
    BY <1>1, <2>1, <2>2, StagedOK, PageMoves DEF GuestStages, Accepted
  <2>3. CASE joining' = [joining EXCEPT ![g].stage = "refreshing", ![g].peer = FALSE]
    <3>1. PICK asked : asked = [joining[g] EXCEPT !.stage = "refreshing"]
      OBVIOUS
    <3>2. PICK page : page = [asked EXCEPT !.peer = FALSE]
      OBVIOUS
    <3>3. asked = [stage |-> "refreshing", sees |-> joining[g].sees, peer |-> joining[g].peer]
      BY <1>1, <3>1 DEF SetupTypeOK
    <3>4. page = [stage |-> "refreshing", sees |-> joining[g].sees, peer |-> FALSE]
      BY <3>2, <3>3
    <3>5. joining' = [joining EXCEPT ![g] = page]
      BY <1>1, <2>3, <3>1, <3>2 DEF SetupTypeOK
    <3>6. /\ joining' \in [Guests -> [stage : GuestStages, sees : SeenStates, peer : BOOLEAN]]
          /\ joining'[g] = page /\ \A u \in Guests \ {g} : joining'[u] = joining[u]
      BY <1>1, <3>4, <3>5 DEF SetupTypeOK, GuestStages
    <3> QED BY <2>1, <3>4, <3>6, PageMoves DEF Accepted
  <2> QED BY <1>6, <2>2, <2>3 DEF Join, Fails
<1>7. CASE CreateGuestAnswer(g) \/ SubmitFails(g)
  <2>1. UNCHANGED <<invite, hosting>> /\ invite # None
    BY <1>3, <1>7 DEF CreateGuestAnswer, SubmitFails, At
  <2>2. Staged(g, "submitting-answer") \/ Staged(g, "failed")
    BY <1>7 DEF CreateGuestAnswer, SubmitFails, Fails
  <2> QED BY <1>1, <2>1, <2>2, StagedOK, PageMoves DEF GuestStages, Accepted
<1>8. CASE SubmitAnswer(g)
  <2>1. /\ invite' = WithAnswer(invite, g) /\ hosting' = hosting
        /\ joining[g].stage = "submitting-answer" /\ invite.answer = None
    BY <1>8 DEF SubmitAnswer, TakesAnswer, At
  <2>2. invite # None /\ invite \in Sessions
    BY <1>1, <1>3, <2>1 DEF SetupTypeOK
  <2>3. WithAnswer(invite, g) \in Sessions /\ WithAnswer(invite, g).answer = g
    BY <2>2, AnswerTaken, SetupAssumption
  <2>4. invite' # None
    BY <2>1, <2>3, SetupAssumption
  <2>5. PICK page : joining' = [joining EXCEPT ![g] = page] /\
            page \in {[stage |-> "waiting-for-host-finalize", sees |-> "answered", peer |-> TRUE],
                      [joining[g] EXCEPT !.stage = "failed", !.peer = TRUE]}
    BY <1>8 DEF SubmitAnswer
  <2>6. page \in [stage : GuestStages, sees : SeenStates, peer : BOOLEAN]
    <3>1. PICK failed : failed = [joining[g] EXCEPT !.stage = "failed"]
      OBVIOUS
    <3>2. failed = [stage |-> "failed", sees |-> joining[g].sees, peer |-> joining[g].peer]
      BY <1>1, <3>1 DEF SetupTypeOK
    <3>3. PICK yes : yes = TRUE
      OBVIOUS
    <3>4. [failed EXCEPT !.peer = yes] =
              [stage |-> "failed", sees |-> joining[g].sees, peer |-> yes]
      BY <3>2
    <3>5. [joining[g] EXCEPT !.stage = "failed", !.peer = yes] = [failed EXCEPT !.peer = yes]
      BY <3>1
    <3>6. page \in {[stage |-> "waiting-for-host-finalize", sees |-> "answered", peer |-> yes],
                    [stage |-> "failed", sees |-> joining[g].sees, peer |-> yes]}
      BY <2>5, <3>3, <3>4, <3>5
    <3>7. joining[g].sees \in SeenStates /\ yes \in BOOLEAN
      BY <1>1, <3>3 DEF SetupTypeOK
    <3> QED BY <3>6, <3>7 DEF GuestStages, SeenStates, VisibleStates
  <2>7. /\ joining' \in [Guests -> [stage : GuestStages, sees : SeenStates, peer : BOOLEAN]]
        /\ \A u \in Guests \ {g} : joining'[u] = joining[u]
    BY <1>1, <2>5, <2>6 DEF SetupTypeOK
  <2>8. \A u \in Guests : ~Accepted(u)
    BY <2>1, <2>2, RulesAssumption DEF SetupInv
  <2>9. hosting.applied = None
    BY <2>1, <2>2 DEF SetupInv
  <2>10. hosting.stage \notin {"creating-offer", "creating-session"}
    BY <2>2 DEF SetupInv
  <2> QED BY <1>1, <2>1, <2>3, <2>4, <2>7, <2>8, <2>9, <2>10
          DEF SetupInv, SetupTypeOK, Accepted
<1>9. CASE PollForFinalization(g)
  <2>1. UNCHANGED <<invite, hosting>> /\ invite # None /\ Accepted(g)
    BY <1>3, <1>9 DEF PollForFinalization, At, Accepted
  <2>2. CASE Staged(g, "failed")
    BY <1>1, <2>1, <2>2, StagedOK, PageMoves DEF GuestStages, Accepted
  <2>3. CASE ~Staged(g, "failed")
    <3>1. PICK state : state = VisibleState(invite)
      OBVIOUS
    <3>2. PICK next : next = IF state = "expired" THEN "failed" ELSE "connecting"
      OBVIOUS
    <3>3. /\ joining' = [joining EXCEPT ![g].sees = state, ![g].stage = next]
          /\ state \in {"finalized", "expired"}
      BY <1>9, <2>3, <3>1, <3>2 DEF PollForFinalization, Fails
    <3>4. PICK read : read = [joining[g] EXCEPT !.sees = state]
      OBVIOUS
    <3>5. PICK page : page = [read EXCEPT !.stage = next]
      OBVIOUS
    <3>6. read = [stage |-> joining[g].stage, sees |-> state, peer |-> joining[g].peer]
      BY <1>1, <3>4 DEF SetupTypeOK
    <3>7. page = [stage |-> next, sees |-> state, peer |-> joining[g].peer]
      BY <3>5, <3>6
    <3>8. joining' = [joining EXCEPT ![g] = page]
      BY <1>1, <3>3, <3>4, <3>5 DEF SetupTypeOK
    <3>9. /\ joining' \in [Guests -> [stage : GuestStages, sees : SeenStates, peer : BOOLEAN]]
          /\ \A u \in Guests \ {g} : joining'[u] = joining[u]
      <4>1. next \in GuestStages /\ state \in SeenStates
        BY <3>2, <3>3 DEF GuestStages, SeenStates, VisibleStates
      <4>2. page \in [stage : GuestStages, sees : SeenStates, peer : BOOLEAN]
        BY <1>1, <3>7, <4>1 DEF SetupTypeOK
      <4> QED BY <1>1, <3>8, <4>2 DEF SetupTypeOK
    <3> QED BY <2>1, <3>9, PageMoves
  <2> QED BY <2>2, <2>3
<1> QED BY <1>4, <1>5, <1>6, <1>7, <1>8, <1>9 DEF GuestStep

\* The host's setup goes on to another stage.
LEMMA HostStagedOK ==
    ASSUME SetupTypeOK, NEW stage \in HostStages, HostStaged(stage)
    PROVE  hosting' = [stage |-> stage, applied |-> hosting.applied]
  BY DEF HostStaged, SetupTypeOK

\* The host's setup goes on, with a link whose answer is the same.
LEMMA HostSetupMoves ==
    ASSUME SetupInv, NEW stage \in HostStages, HostStaged(stage), joining' = joining,
           stage \in {"creating-offer", "creating-session"} => invite' = None,
           stage \in {"creating-offer", "creating-session", "waiting-for-guest"} =>
               hosting.applied = None,
           stage \in {"waiting-for-guest", "applying-answer", "finalizing"} => invite # None,
           \/ invite' = invite
           \/ /\ invite # None
              /\ invite' \in Sessions /\ invite'.answer = invite.answer
    PROVE  SetupInv'
<1>1. hosting' = [stage |-> stage, applied |-> hosting.applied]
  BY HostStagedOK DEF SetupInv
<1>2. invite' = None <=> invite = None
  BY SetupAssumption
<1> QED BY <1>1, <1>2 DEF SetupInv, SetupTypeOK, Accepted

\* One step of the host's page, or of the service.
LEMMA HostKeeps ==
    ASSUME SetupInv, HostStep
    PROVE  SetupInv'
<1> USE DEF HostStages
<1>1. SetupTypeOK
  BY DEF SetupInv
<1>2. CASE CreateHostOffer
  BY <1>2, HostSetupMoves DEF CreateHostOffer, HostAt, SetupInv
<1>3. CASE CreateSession
  <2>1. PICK offer \in Offers : invite' = CreatedSession(offer, 0)
    BY <1>3 DEF CreateSession
  <2>2. invite' \in Sessions /\ invite' # None
    BY <2>1, CreatedOK, SetupAssumption
  <2>3. hosting' = [stage |-> "waiting-for-guest", applied |-> hosting.applied]
    BY <1>1, <1>3, HostStagedOK DEF CreateSession
  <2>4. hosting.applied = None /\ joining' = joining /\ \A g \in Guests : joining[g] = NewPage
    BY <1>3 DEF CreateSession, HostAt, SetupInv
  <2>5. \A g \in Guests : ~Accepted(g)
    BY <2>4 DEF NewPage, Accepted
  <2> QED BY <1>1, <2>2, <2>3, <2>4, <2>5 DEF SetupInv, SetupTypeOK, Accepted
<1>4. CASE PollForAnswer
  <2>1. /\ hosting' = [stage |-> "applying-answer", applied |-> invite.answer]
        /\ UNCHANGED <<invite, joining>> /\ hosting.stage = "waiting-for-guest"
        /\ invite.answer # None
    BY <1>4 DEF PollForAnswer, HostAt
  <2>2. invite # None
    BY <2>1 DEF SetupInv
  <2>3. invite.answer \in Answers \cup {None}
    BY <1>1, <2>2 DEF SetupTypeOK, Sessions
  <2> QED BY <1>1, <2>1, <2>2, <2>3 DEF SetupInv, SetupTypeOK, Accepted
<1>5. CASE ApplyGuestAnswer
  BY <1>5, HostSetupMoves DEF ApplyGuestAnswer, HostAt, SetupInv
<1>6. CASE FinalizeSession(FALSE)
  BY <1>6, HostSetupMoves, AnswerStays DEF FinalizeSession, HostAt, SetupInv, SetupTypeOK
<1>7. CASE FailHostSetup
  BY <1>7, HostSetupMoves, AnswerStays DEF FailHostSetup, HostAt, SetupInv, SetupTypeOK
<1>8. CASE Lapse
  <2>1. /\ UNCHANGED <<hosting, joining>> /\ invite # None /\ invite' = Lapsed(invite)
        /\ invite \in Sessions
    BY <1>1, <1>8 DEF Lapse, SetupTypeOK
  <2>2. invite' \in Sessions /\ invite'.answer = invite.answer /\ invite' # None
    BY <2>1, AnswerStays, SetupAssumption
  <2> QED BY <2>1, <2>2 DEF SetupInv, SetupTypeOK, Accepted
<1> QED BY <1>2, <1>3, <1>4, <1>5, <1>6, <1>7, <1>8 DEF HostStep

\* The setup ends with the guest in the room.
LEMMA OverKeeps ==
    ASSUME SetupInv, SetupOver
    PROVE  SetupInv'
<1>1. hosting' = [stage |-> "done", applied |-> hosting.applied]
  BY DEF SetupOver, SetupInv, SetupTypeOK
<1>2. NewPage \in [stage : GuestStages, sees : SeenStates, peer : BOOLEAN]
  BY DEF NewPage, GuestStages, SeenStates
<1>3. invite' = None /\ joining' = [g \in Guests |-> NewPage]
  BY DEF SetupOver
<1> QED BY <1>1, <1>2, <1>3 DEF SetupInv, SetupTypeOK, HostStages

\* The setup starts with no link and no guest.
LEMMA SetupStarts == Init => SetupInv
<1> SUFFICES ASSUME Init PROVE SetupInv
  OBVIOUS
<1>1. NewPage \in [stage : GuestStages, sees : SeenStates, peer : BOOLEAN]
  BY DEF NewPage, GuestStages, SeenStates
<1>2. /\ invite = None /\ joining = [g \in Guests |-> NewPage]
      /\ hosting = [stage |-> "creating-offer", applied |-> None]
  BY DEF Init, InitSetup, NewHost
<1> QED BY <1>1, <1>2 DEF SetupInv, SetupTypeOK, HostStages

-----------------------------------------------------------------------------
\* What the host can come back to.

\* The record of a host whose control is registered is the room, but for the guest's
\* presence; a guest who may come back has seen nothing later than the room; and the host's
\* page is in the room as long as it has a peer.
Agree(m, n) == (m = None <=> n = None) /\ (m # None => Same(m, n))
Backed(w) == w.control = "sent" => Agree(w.record.match, w.room.match)
Trails(w) == w.saved \/ Recovers(w) => AllPassed(w.view["guest"], w.wire["guest"], w.room)
Present(w) == w.view["host"].session \/ w.side["host"].state = "dead"
Recoverable(w) == Backed(w) /\ Trails(w) /\ Present(w)
\* What the step from w to u is to keep of it.
Backs(w, u) == Recoverable(w) => Backed(u) /\ Trails(u) /\ (Present(u) \/ u.online)

\* The step from w to u takes nothing from the record, and shows the guest no other match.
Steady(w, u) ==
    /\ u.saved = w.saved /\ u.control = w.control
    /\ Agree(u.room.match, w.room.match)
    /\ u.record = w.record \/ Agree(u.record.match, u.room.match)
    /\ u.wire["guest"] \in {w.wire["guest"], <<>>}
    /\ u.view["guest"].match \in {w.view["guest"].match, None}

\* A steady step keeps the record and the guest's past.
LEMMA SteadyBacks ==
    ASSUME NEW w, NEW u, Steady(w, u), Backed(w), Trails(w)
    PROVE  Backed(u) /\ Trails(u)
<1>1. Backed(u)
  BY DEF Steady, Backed, Agree, Same
<1>2. ASSUME u.saved \/ Recovers(u) PROVE AllPassed(u.view["guest"], u.wire["guest"], u.room)
  <2>1. w.saved \/ Recovers(w)
    BY <1>2 DEF Steady, Recovers
  <2>2. AllPassed(w.view["guest"], w.wire["guest"], w.room)
    BY <2>1 DEF Trails
  <2>3. \A m : Passed(m, w.room.match) => Passed(m, u.room.match)
    BY DEF Steady, Agree, Same, Passed, Behind
  <2>4. Passed(u.view["guest"].match, u.room.match)
    BY <2>2, <2>3 DEF Steady, AllPassed, Passed
  <2>5. \A i \in DOMAIN u.wire["guest"] : u.wire["guest"][i].type = "match" =>
           Passed(u.wire["guest"][i].match, u.room.match)
    BY <2>2, <2>3 DEF Steady, AllPassed
  <2> QED BY <2>4, <2>5 DEF AllPassed
<1> QED BY <1>1, <1>2 DEF Trails

\* A step is steady if it leaves the room, the record and the control alone.
LEMMA SteadyIs ==
    ASSUME NEW w, NEW u, But(u, w, {"side", "wire", "view", "attempt", "online", "finalized", "links"}),
           u.wire["guest"] \in {w.wire["guest"], <<>>},
           u.view["guest"].match \in {w.view["guest"].match, None}
    PROVE  Steady(w, u)
  BY DEF But, Steady, Agree, Same

\* A step that is steady, and keeps the host's page in the room.
LEMMA SteadyHolds ==
    ASSUME NEW w, NEW u, Steady(w, u), Present(w) => Present(u) \/ u.online
    PROVE  Backs(w, u)
  BY SteadyBacks DEF Backs, Recoverable

\* And it keeps the host's page in the room, if it touches neither page's place.
LEMMA ButBacks ==
    ASSUME NEW w, NEW u, But(u, w, {"side", "wire", "view", "attempt", "online", "finalized", "links"}),
           u.wire["guest"] \in {w.wire["guest"], <<>>},
           u.view["guest"].match \in {w.view["guest"].match, None},
           u.view["host"].session <=> w.view["host"].session,
           w.side["host"].state = "dead" => u.side["host"].state = "dead"
    PROVE  Backs(w, u)
<1>1. Steady(w, u)
  BY SteadyIs
<1>2. Present(w) => Present(u)
  BY DEF Present
<1> QED BY <1>1, <1>2, SteadyHolds

\* Two steps, the host's page being in the room in between.
LEMMA BacksTwice ==
    ASSUME NEW w, NEW a, NEW u, Backs(w, a), Backs(a, u), Present(w) => Present(a)
    PROVE  Backs(w, u)
  BY DEF Backs, Recoverable

\* A fan-out of the host, whose page is in the room.
LEMMA ServedBacks ==
    ASSUME NEW w, NEW c, Calm(w, c), NEW u, NEW d, Calm(u, d), Served(w, u), GuestFits(w),
           w.view["host"].session, u.view["host"].session \/ u.online
    PROVE  Backs(w, u)
<1> SUFFICES ASSUME Backed(w), Trails(w) PROVE Backed(u) /\ Trails(u)
  BY DEF Backs, Recoverable, Present
<1>1. Aside(u, w) /\ u.view["guest"] = w.view["guest"]
      /\ (Recovers(u) => Recovers(w)) /\ Advances(w.room, u.room)
      /\ (~Reached(w) => u.wire["guest"] = w.wire["guest"])
      /\ RoomOK(w.room) /\ RoomOK(u.room)
  BY DEF Served
<1>2. Backed(u)
  <2> SUFFICES ASSUME u.control = "sent" PROVE Agree(u.record.match, u.room.match)
    BY DEF Backed
  <2>1. w.control = "sent" /\ Agree(w.record.match, w.room.match)
    BY <1>1 DEF Aside, Backed
  <2>2. \/ u.record.match # None /\ u.room.match # None /\ Same(u.record.match, u.room.match)
        \/ u.record = w.record /\ w.room.match # None /\ u.room.match # None
           /\ Same(w.room.match, u.room.match)
    BY <2>1 DEF Served
  <2> QED BY <2>1, <2>2 DEF Agree, Same
<1>3. ASSUME u.saved \/ Recovers(u) PROVE AllPassed(u.view["guest"], u.wire["guest"], u.room)
  <2>1. AllPassed(w.view["guest"], w.wire["guest"], w.room)
    BY <1>1, <1>3 DEF Trails, Aside
  <2>2. CASE Live(u)
    BY <2>2 DEF Calm
  <2>3. CASE ~Live(u)
    <3>1. u.side = w.side /\ ~Live(w)
      BY <1>1, <2>3 DEF Aside, Live, Linked
    <3>2. ~Reached(w)
      BY <3>1 DEF Reached, Live, Linked, Calm
    <3>3. \A m \in Match \cup {None} : Passed(m, w.room.match) => Passed(m, u.room.match)
      <4>1. w.room.match \in Match \cup {None} /\ u.room.match \in Match \cup {None}
        BY <1>1, RoomIs
      <4> QED BY <1>1, <4>1, PassedIs DEF Advances
    <3>4. w.view["guest"].match \in Match \cup {None}
      BY DEF GuestFits, GuestPage, View
    <3>5. \A i \in DOMAIN w.wire["guest"] : w.wire["guest"][i].type = "match" =>
             w.wire["guest"][i].match \in Match \cup {None}
      <4> SUFFICES ASSUME NEW i \in DOMAIN w.wire["guest"], w.wire["guest"][i].type = "match"
                   PROVE  w.wire["guest"][i].match \in Match
        OBVIOUS
      <4>1. w.wire["guest"] \in Seq(Event)
        BY DEF Calm
      <4>2. w.wire["guest"][i] \in Event
        BY <4>1
      <4> QED BY <4>2, EventIs
    <3> QED BY <1>1, <2>1, <3>2, <3>3, <3>4, <3>5 DEF AllPassed
  <2> QED BY <2>2, <2>3
<1> QED BY <1>2, <1>3 DEF Trails

\* The record is written.
LEMMA PersistBacks ==
    ASSUME NEW w, NEW stage, Safe(w, stage), NEW u, u = Persisted(w)
    PROVE  Steady(w, u)
<1>1. PICK c : Calm(w, c)
  BY DEF Safe
<1>2. /\ Shaped(u) /\ Aside(u, w) /\ u.room = w.room /\ u.wire = w.wire /\ u.view = w.view
      /\ u.record = IF w.control = "none" THEN w.record
                    ELSE IF w.room.guest THEN HostRecord(w.room) ELSE None
  BY <1>1, PersistedIs DEF Calm
<1>3. u.record = w.record \/ u.record = w.room
  BY <1>1, <1>2, RoomIs DEF Calm
<1> QED BY <1>2, <1>3 DEF Steady, Aside, Agree, Same

-----------------------------------------------------------------------------
\* The steps of the host's runtime.

\* The setup's stage once w has become u.
Later(w, u, stage) == IF u.room.guest /\ ~w.room.guest THEN "done" ELSE stage

\* The setup goes on, the guest not being in the room; or it is done.
LEMMA StageKeeps ==
    ASSUME NEW w, NEW stage, Safe(w, stage), NEW next,
           w.room.guest => next = "done", next \in Early => stage \in Early
    PROVE  Safe(w, next)
  BY DEF Safe, Records

\* The control is set, for a room with a guest who cannot come back yet.
LEMMA ControlKeeps ==
    ASSUME NEW w, NEW stage, Safe(w, stage), w.room.guest, ~w.saved, ~Recovers(w),
           NEW state \in {"none", "registering"}, NEW u,
           But(u, w, {"control"}), u.control = state
    PROVE  Safe(u, stage) /\ Backs(w, u)
<1>1. /\ Shaped(u) /\ u.room = w.room /\ u.record = w.record /\ u.side = w.side
      /\ u.wire = w.wire /\ u.attempt = w.attempt /\ u.view = w.view /\ u.online = w.online
      /\ u.saved = w.saved /\ u.finalized = w.finalized /\ u.links = w.links
  BY DEF But
<1>2. PICK c : Calm(w, c) /\ Promised(w, c)
  BY DEF Safe
<1>3. Wires(u) /\ GuestFits(u)
  BY <1>1 DEF Safe, Wires, EndOK, GuestFits
<1>4. (Live(u) <=> Live(w)) /\ (Asks(u) <=> Asks(w)) /\ (Recovers(u) <=> Recovers(w))
  BY <1>1 DEF Live, Linked, Asks, Recovers
<1>5. Calm(u, c) /\ Promised(u, c)
  BY <1>1, <1>2, <1>4 DEF Calm, Promised
<1>6. Owed(u)
  <2>1. (MoveOwed(u) <=> MoveOwed(w)) /\ (TextOwed(u) <=> TextOwed(w))
    BY <1>1 DEF MoveOwed, TextOwed
  <2> QED BY <1>1, <1>4, <2>1 DEF Safe, Owed
<1>7. Records(u, stage)
  BY <1>1, <1>4 DEF Safe, Records
<1>8. Backs(w, u)
  BY <1>1, <1>4 DEF Backs, Recoverable, Backed, Trails, Present
<1> QED BY <1>1, <1>3, <1>5, <1>6, <1>7, <1>8 DEF Safe

\* Once the session is finalized and the channel is up, the guest is in the room.
LEMMA FinalizeKeeps ==
    ASSUME NEW w, NEW stage, DirectInv(w, stage), w.ok, NEW u, u = FinalizeGuestIfReady(w)
    PROVE  /\ DirectInv(u, Later(w, u, stage)) /\ Backs(w, u)
           /\ Present(w) => Present(u)
<1>1. CASE u = w
  BY <1>1 DEF Later, Backs, Recoverable
<1>2. CASE u # w
  <2>1. Up(w.side["host"]) /\ ~w.room.guest /\ u = AcceptGuest(w)
    BY <1>2 DEF FinalizeGuestIfReady
  <2>2. PICK c : Calm(w, c) /\ Promised(w, c)
    BY DEF DirectInv, Safe
  <2>3. /\ w.record = None /\ w.control = "none"
        /\ w.view["host"].session /\ w.view["guest"] = NoView
        /\ \A p \in Players : w.wire[p] = <<>> /\ w.attempt[p] = "none"
    BY <2>1 DEF DirectInv, Safe, Records
  <2>4. Seated(w, u)
    BY <2>1, <2>2, <2>3, Accepts
  <2>5. PICK e : /\ Served(w, e) /\ e.room.guest
                 /\ \E d : Calm(e, d) /\ (Reached(w) => Final(d, e.room))
                 /\ w.view["host"].session => e.view["host"].session
                 /\ u = e \/ u = [e EXCEPT !.control = "registering"]
    BY <2>4 DEF Seated
  <2>6. PICK d : Calm(e, d) /\ (Reached(w) => Final(d, e.room))
    BY <2>5
  <2>7. /\ Aside(e, w) /\ e.view["guest"] = NoView /\ e.wire["host"] = <<>>
        /\ Shaped(e) /\ e.wire["guest"] \in Seq(Event)
        /\ ~Reached(w) => e.wire["guest"] = w.wire["guest"]
        /\ Recovers(e) => Recovers(w)
    BY <2>3, <2>5, <2>6 DEF Served, Calm, Players
  <2>8. ~Recovers(e) /\ ~e.saved
    BY <2>3, <2>7 DEF Recovers, DirectInv, Safe, Records, Aside, Players
  <2>9. Wires(e)
    <3>1. EndOK(e, "host")
      BY <2>3, <2>7 DEF DirectInv, Safe, Wires, EndOK, Aside, Players
    <3>2. w.side["guest"].state \in {"new", "lost", "dead"} => e.wire["guest"] = <<>>
      <4> SUFFICES ASSUME w.side["guest"].state \in {"new", "lost", "dead"}
                   PROVE  e.wire["guest"] = <<>>
        OBVIOUS
      <4>1. ~Reached(w)
        BY <2>1 DEF DirectInv, Safe, Wires, EndOK, Reached, Linked, Up
      <4> QED BY <2>3, <2>7, <4>1 DEF Players
    <3>3. EndOK(e, "guest")
      BY <2>7, <3>2 DEF DirectInv, Safe, Wires, EndOK, Aside
    <3>4. e.wire["host"] \in Seq(Command)
      BY <2>7
    <3> QED BY <2>7, <3>1, <3>3, <3>4 DEF DirectInv, Safe, Wires, Aside
  <2>10. GuestFits(e)
    BY <2>3, <2>7 DEF DirectInv, Safe, GuestFits, Aside
  <2>11. Promised(e, d)
    <3>1. e.side = w.side
      BY <2>7 DEF Aside
    <3>2. Live(e) /\ e.side["host"].state = "open" => Reached(w)
      BY <3>1 DEF Live, Linked, Reached
    <3>3. e.side["host"].state # "opening"
      BY <2>1, <3>1 DEF Up
    <3> QED BY <2>6, <3>2, <3>3 DEF Promised
  <2>12. Owed(e)
    <3>1. ~NoView.moving /\ NoView.pending = None
      BY DEF NoView
    <3> QED BY <2>7, <3>1 DEF Owed
  <2>13. Records(e, "done")
    BY <2>3, <2>5, <2>7, <2>8 DEF DirectInv, Safe, Records, Aside, Early
  <2>14. Safe(e, "done")
    BY <2>6, <2>7, <2>9, <2>10, <2>11, <2>12, <2>13 DEF Safe
  <2>15. HostFree(e)
    BY <2>3, <2>5, <2>7 DEF DirectInv, HostFree, Served, Aside
  <2>16. DirectInv(u, "done") /\ u.room.guest
    <3>1. CASE u = e
      BY <2>5, <2>14, <2>15, <3>1 DEF DirectInv
    <3>2. CASE u = [e EXCEPT !.control = "registering"]
      <4>1. But(u, e, {"control"}) /\ u.control = "registering"
        <5>1. Shaped(e)
          BY <2>7
        <5>2. u = [e EXCEPT !.control = "registering"] =>
                 But(u, e, {"control"}) /\ u.control = "registering"
          BY <5>1, FieldSet
        <5> QED BY <3>2, <5>2
      <4>2. Safe(u, "done")
        BY <2>5, <2>8, <2>14, <4>1, ControlKeeps
      <4>3. HostFree(u) /\ u.room.guest
        BY <2>5, <2>15, <4>1 DEF HostFree, But
      <4> QED BY <4>2, <4>3 DEF DirectInv
    <3> QED BY <2>5, <3>1, <3>2
  <2>17. Backs(w, u) /\ Present(u)
    <3>1. u.saved = e.saved /\ u.wire = e.wire /\ u.control # "sent" /\ u.view = e.view
      <4>1. Shaped(e) /\ e.control = "none"
        BY <2>3, <2>7 DEF Aside
      <4>2. u = [e EXCEPT !.control = "registering"] =>
               But(u, e, {"control"}) /\ u.control = "registering"
        BY <4>1, FieldSet
      <4> QED BY <2>5, <4>1, <4>2 DEF But
    <3>2. ~Recovers(u) /\ ~u.saved
      BY <2>8, <3>1 DEF Recovers
    <3> QED BY <2>3, <2>5, <3>1, <3>2 DEF Backs, Backed, Trails, Present
  <2> QED BY <2>1, <2>16, <2>17 DEF Later
<1> QED BY <1>1, <1>2

\* The guest is shown as away to the host, whose channel is down.
LEMMA DisconnectKeeps ==
    ASSUME NEW w, NEW stage, DirectInv(w, stage), w.ok, w.side["host"].state # "open",
           NEW u, u = DisconnectGuest(w)
    PROVE  /\ DirectInv(u, stage) /\ Aside(u, w) /\ u.room.guest = w.room.guest
           /\ w.view["host"].session => u.view["host"].session /\ Backs(w, u)
<1>1. PICK c : Calm(w, c) /\ Promised(w, c)
  BY DEF DirectInv, Safe
<1>2. Away(w, c, u)
  BY <1>1, DisconnectIs
<1>3. CASE u = w
  BY <1>3 DEF Aside, Backs, Recoverable
<1>4. CASE HostTold(w, c, u.room, u) /\ w.room.guest
  <2>1. Served(w, u) /\ Calm(u, c) /\ u.wire = w.wire
    BY <1>4 DEF HostTold
  <2>2. Aside(u, w) /\ u.view["guest"] = w.view["guest"]
    BY <2>1 DEF Served
  <2>3. w.room.match # None
    BY <1>1, <1>4 DEF Calm, RoomOK
  <2>4. Wires(w) /\ GuestFits(w) /\ Records(w, stage)
    BY DEF DirectInv, Safe
  <2>5. Shaped(u) /\ Wires(u) /\ GuestFits(u) /\ Records(u, stage) /\ u.room.guest
    BY <2>1, <2>3, <2>4, ServedKeeps
  <2>6. (Live(u) <=> Live(w)) /\ (Asks(u) <=> Asks(w))
    BY <2>1, <2>2 DEF Live, Linked, Asks, Aside
  <2>7. Promised(u, c)
    BY <1>1, <1>4, <2>2, <2>6 DEF Promised, Aside
  <2>8. Owed(u)
    <3>1. (MoveOwed(u) <=> MoveOwed(w)) /\ (TextOwed(u) <=> TextOwed(w))
      BY <2>1 DEF MoveOwed, TextOwed
    <3> QED BY <2>2, <2>6, <3>1 DEF DirectInv, Safe, Owed, Aside
  <2>9. Safe(u, stage)
    BY <2>1, <2>5, <2>7, <2>8 DEF Safe
  <2>10. HostFree(u)
    BY <2>1, <2>2 DEF DirectInv, HostFree, Served, Aside
  <2>11. w.view["host"].session => u.view["host"].session
    BY <1>4 DEF HostTold
  <2>12. w.view["host"].session => Backs(w, u)
    BY <1>1, <2>1, <2>4, <2>11, ServedBacks
  <2> QED BY <1>4, <2>2, <2>5, <2>9, <2>10, <2>11, <2>12 DEF DirectInv
<1> QED BY <1>2, <1>3, <1>4 DEF Away

-----------------------------------------------------------------------------
\* The commands of the host's page.

\* What the host's page owes to the guest's, it owes while it serves itself.
LEMMA HostServes ==
    ASSUME NEW a, NEW stage, Safe(a, stage), a.ok, a.room.guest, a.view["host"].session,
           NEW k \in Command, NEW u, u = Obey(a, "host", k)
    PROVE  /\ Safe(u, stage) /\ Served(a, u) /\ Answered(a, "host", k, u)
           /\ a.online \/ k.type # "vote" => Backs(a, u)
<1>1. PICK c : Calm(a, c) /\ Promised(a, c)
  BY DEF Safe
<1>2. Serving(a, c, "host", k)
  BY <1>1 DEF Safe, Promised, Owed, Serving
<1>3. a.room.match # None
  BY <1>1 DEF Calm, RoomOK
<1>4. "host" \in Players
  BY DEF Players
<1>5. Wires(a) /\ GuestFits(a) /\ Records(a, stage)
  BY DEF Safe
<1>6. Safe(u, stage) /\ Served(a, u) /\ Answered(a, "host", k, u)
  BY <1>1, <1>2, <1>3, <1>4, <1>5, Serves
<1>7. ASSUME a.online \/ k.type # "vote" PROVE Backs(a, u)
  <2>1. PICK d : Calm(u, d)
    BY <1>6 DEF Safe
  <2>2. u.view["host"].session \/ u.online
    BY <1>6, <1>7 DEF Answered, Served, Aside
  <2>3. Served(a, u)
    BY <1>6
  <2> QED BY <1>1, <1>5, <2>1, <2>2, <2>3, ServedBacks
<1> QED BY <1>6, <1>7

\* A page that is no longer waiting for a reply, or has its text back.
LEMMA FreedIs ==
    ASSUME NEW v, NEW r, HostPage(v, r), NEW no \in BOOLEAN
    PROVE  LET u == Freed(v, no)
           IN  /\ HostPage(u, r) /\ u.moving = no /\ u.pending = v.pending /\ u.session = v.session
               /\ u.draft = v.draft
<1>1. PICK u : u = Freed(v, no)
  OBVIOUS
<1>2. v \in View /\ Formed(v)
  BY ViewFormed DEF HostPage
<1>3. /\ Formed(u) /\ u.session = v.session /\ u.match = v.match /\ u.chat = v.chat
      /\ u.draft = v.draft /\ u.pending = v.pending /\ u.moving = no
      /\ u.returning = v.returning
  BY <1>1, <1>2, ViewWith DEF Freed, Formed
<1>4. u \in View
  BY <1>2, <1>3, ViewFormed
<1> QED BY <1>1, <1>3, <1>4 DEF HostPage

\* The page of one who writes, or has it back: another draft, another text under way.
Writing(v, draft, pending) == [v EXCEPT !.draft = draft, !.pending = pending]
Writes(w, p, draft, pending) ==
    [w EXCEPT !.view[p].draft = draft, !.view[p].pending = pending]
Wrote(v, draft, pending, u) ==
    /\ u \in View /\ u.session = v.session /\ u.match = v.match /\ u.chat = v.chat
    /\ u.draft = draft /\ u.pending = pending /\ u.moving = v.moving
    /\ u.returning = v.returning
\* A page writes, or waits for the reply to what it has written.
LEMMA WritingIs ==
    ASSUME NEW v, v \in View, NEW draft, draft \in Texts \cup {None}, NEW pending,
           pending \in Texts \cup {None}, NEW u, u = Writing(v, draft, pending)
    PROVE  Wrote(v, draft, pending, u)
<1>1. Formed(v)
  BY ViewFormed
<1>2. PICK x : x = [v EXCEPT !.draft = draft]
  OBVIOUS
<1>3. /\ Formed(x) /\ x.session = v.session /\ x.match = v.match /\ x.chat = v.chat
      /\ x.draft = draft /\ x.pending = v.pending /\ x.moving = v.moving
      /\ x.returning = v.returning
  BY <1>1, <1>2, ViewWith DEF Formed
<1>4. u = [x EXCEPT !.pending = pending]
  BY <1>2 DEF Writing, Writes
<1>5. /\ Formed(u) /\ u.session = x.session /\ u.match = x.match /\ u.chat = x.chat
      /\ u.draft = x.draft /\ u.pending = pending /\ u.moving = x.moving
      /\ u.returning = x.returning
  BY <1>3, <1>4, ViewWith DEF Formed
<1>6. u \in View
  BY <1>3, <1>5, ViewFormed
<1> QED BY <1>3, <1>5, <1>6 DEF Wrote

\* The host's page with other values of what it waits for.
Waits(w, stage, v, u) == Safe(u, stage) /\ u.view["host"] = v /\ But(u, w, {"view"})
\* The host's page changes what it waits for.
LEMMA HostWaits ==
    ASSUME NEW w, NEW stage, Safe(w, stage), w.view["host"].session, NEW v,
           HostPage(v, w.room), v.session,
           NEW u, u = [w EXCEPT !.view["host"] = v]
    PROVE  Waits(w, stage, v, u) /\ Steady(w, u)
<1>1. Shaped(w) /\ "host" \in Players
  BY DEF Safe, Players
<1>2. Viewed(u, w, "host", v)
  BY <1>1, ViewSet
<1>3. /\ But(u, w, {"view"}) /\ u.view["host"] = v
      /\ u.view["guest"] = w.view["guest"]
  BY <1>2, OthersAre DEF Viewed
<1>4. But(u, w, {"view", "online"}) /\ u.online \in BOOLEAN
  BY <1>3 DEF But, Safe, Records
<1>5. Safe(u, stage)
  BY <1>3, <1>4, HostPageKeeps
<1>6. Steady(w, u)
  BY <1>3, SteadyIs DEF But
<1> QED BY <1>3, <1>5, <1>6 DEF Waits

\* The host's page after it has asked for a move, and after it was told.
LEMMA HostMoves ==
    ASSUME NEW w, NEW stage, DirectInv(w, stage), w.ok, w.room.guest, w.view["host"].session,
           NEW k \in Command, k.type = "move", NEW u,
           u = Obey([w EXCEPT !.view["host"].moving = TRUE], "host", k),
           NEW x, x = IF u.ok THEN u ELSE [u EXCEPT !.view["host"].moving = FALSE]
    PROVE  DirectInv(x, stage) /\ x.room.guest /\ Backs(w, x)
<1>1. Safe(w, stage) /\ HostPage(w.view["host"], w.room)
  BY DEF DirectInv, Safe, Calm
<1>2. PICK v : v = Freed(w.view["host"], TRUE)
  OBVIOUS
<1>3. /\ HostPage(v, w.room) /\ v.pending = w.view["host"].pending
      /\ v.session = w.view["host"].session
  BY <1>1, <1>2, FreedIs
<1>4. PICK a : a = [w EXCEPT !.view["host"] = v]
  OBVIOUS
<1>5. u = Obey(a, "host", k)
  <2>1. [w EXCEPT !.view["host"].moving = TRUE]
            = [w EXCEPT !.view["host"] = Freed(w.view["host"], TRUE)]
    BY DEF Freed
  <2> QED BY <1>2, <1>4, <2>1
<1>6. Safe(a, stage) /\ a.view["host"] = v /\ But(a, w, {"view"}) /\ Steady(w, a)
  <2>1. v.session /\ HostPage(v, w.room)
    BY <1>3
  <2>2. Waits(w, stage, v, a) /\ Steady(w, a)
    BY <1>1, <1>4, <2>1, HostWaits
  <2> QED BY <2>2 DEF Waits
<1>7. a.ok /\ a.room.guest /\ a.view["host"].session
  BY <1>3, <1>6 DEF But
<1>8. Safe(u, stage) /\ Served(a, u) /\ Answered(a, "host", k, u) /\ Backs(a, u)
  BY <1>5, <1>6, <1>7, HostServes
<1>9. u.room.guest /\ u.view["host"].session /\ HostFree(u)
  <2>1. u.room.guest
    BY <1>7, <1>8 DEF Served, Advances
  <2>2. u.view["host"].session /\ ~u.view["host"].moving
    BY <1>7, <1>8 DEF Answered
  <2>3. u.view["host"].pending = None
    BY <1>3, <1>6, <1>7, <1>8 DEF Served, DirectInv, HostFree
  <2>4. u.side = w.side /\ u.attempt = w.attempt
    BY <1>6, <1>8 DEF Served, Aside, But
  <2> QED BY <2>1, <2>2, <2>3, <2>4 DEF HostFree, DirectInv
<1>10. Backs(w, u)
  <2>1. Backs(w, a)
    BY <1>6, <1>7, SteadyHolds DEF Present
  <2> QED BY <1>7, <1>8, <2>1, BacksTwice DEF Present
<1>11. CASE x = u
  BY <1>8, <1>9, <1>11, <1>10 DEF DirectInv
<1>12. CASE x = [u EXCEPT !.view["host"].moving = FALSE]
  <2>1. HostPage(u.view["host"], u.room)
    BY <1>8 DEF Safe, Calm
  <2>2. PICK f : f = Freed(u.view["host"], FALSE)
    OBVIOUS
  <2>3. HostPage(f, u.room) /\ ~f.moving /\ f.pending = u.view["host"].pending /\ f.session
    BY <1>9, <2>1, <2>2, FreedIs
  <2>4. x = [u EXCEPT !.view["host"] = f]
    BY <1>12, <2>2 DEF Freed
  <2>5. Safe(x, stage) /\ x.view["host"] = f /\ But(x, u, {"view"}) /\ Steady(u, x)
    <3>1. f.session /\ HostPage(f, u.room) /\ u.view["host"].session /\ Safe(u, stage)
      BY <1>8, <1>9, <2>3
    <3>2. Waits(u, stage, f, x) /\ Steady(u, x)
      BY <2>4, <3>1, HostWaits
    <3> QED BY <3>2 DEF Waits
  <2>6. Backs(w, x)
    <3>1. Backs(u, x)
      BY <2>3, <2>5, SteadyHolds DEF Present
    <3> QED BY <1>9, <1>10, <3>1, BacksTwice DEF Present
  <2> QED BY <1>9, <2>3, <2>5, <2>6 DEF DirectInv, HostFree, But
<1> QED BY <1>11, <1>12

\* The host says something, and is answered at once.
LEMMA HostSays ==
    ASSUME NEW w, NEW stage, DirectInv(w, stage), w.ok, w.room.guest, w.view["host"].session,
           NEW text \in Texts, NEW k, k = [type |-> "chat", text |-> text], NEW u,
           u = Obey(Writes(w, "host", None, text),
                    "host", k),
           NEW x, x = IF u.ok THEN u
                      ELSE Writes(u, "host", text, None)
    PROVE  DirectInv(x, stage) /\ x.room.guest /\ Backs(w, x)
<1>1. Safe(w, stage) /\ HostPage(w.view["host"], w.room)
  BY DEF DirectInv, Safe, Calm
<1>2. PICK v : v = Writing(w.view["host"], None, text)
  OBVIOUS
<1>3. /\ v \in View /\ v.moving = w.view["host"].moving
      /\ v.session = w.view["host"].session /\ v.match = w.view["host"].match
      /\ v.chat = w.view["host"].chat /\ v.returning = w.view["host"].returning
  <2>1. w.view["host"] \in View /\ text \in Texts \cup {None} /\ None \in Texts \cup {None}
    BY <1>1 DEF HostPage
  <2>2. Wrote(w.view["host"], None, text, v)
    BY <1>2, <2>1, WritingIs
  <2> QED BY <2>2 DEF Wrote
<1>4. PICK a : a = [w EXCEPT !.view["host"] = v]
  OBVIOUS
<1>5. u = Obey(a, "host", k)
  <2>1. Writes(w, "host", None, text)
            = [w EXCEPT !.view["host"] = Writing(w.view["host"], None, text)]
    BY DEF Writing, Writes
  <2> QED BY <1>2, <1>4, <2>1
<1>6. Safe(a, stage) /\ a.view["host"] = v /\ But(a, w, {"view"}) /\ Steady(w, a)
  <2>1. HostPage(v, w.room)
    BY <1>1, <1>3 DEF HostPage
  <2>2. v.session
    BY <1>3
  <2>3. Waits(w, stage, v, a) /\ Steady(w, a)
    BY <1>1, <1>4, <2>1, <2>2, HostWaits
  <2> QED BY <2>3 DEF Waits
<1>7. a.ok /\ a.room.guest /\ a.view["host"].session
  BY <1>3, <1>6 DEF But
<1>8. Safe(u, stage) /\ Served(a, u) /\ Answered(a, "host", k, u) /\ Backs(a, u)
  <2>1. k \in Command
    BY DEF Command
  <2> QED BY <1>5, <1>6, <1>7, <2>1, HostServes
<1>9. u.room.guest /\ u.view["host"].session /\ HostFree(u)
  <2>1. u.room.guest
    BY <1>7, <1>8 DEF Served, Advances
  <2>2. u.view["host"].session /\ u.view["host"].pending = None
    BY <1>7, <1>8 DEF Answered
  <2>3. ~u.view["host"].moving
    BY <1>3, <1>6, <1>7, <1>8 DEF Served, DirectInv, HostFree
  <2>4. u.side = w.side /\ u.attempt = w.attempt
    BY <1>6, <1>8 DEF Served, Aside, But
  <2> QED BY <2>1, <2>2, <2>3, <2>4 DEF HostFree, DirectInv
<1>10. Backs(w, u)
  <2>1. Backs(w, a)
    BY <1>6, <1>7, SteadyHolds DEF Present
  <2> QED BY <1>7, <1>8, <2>1, BacksTwice DEF Present
<1>11. CASE x = u
  BY <1>8, <1>9, <1>11, <1>10 DEF DirectInv
<1>12. CASE x = Writes(u, "host", text, None)
  <2>1. HostPage(u.view["host"], u.room)
    BY <1>8 DEF Safe, Calm
  <2>2. PICK f : f = Writing(u.view["host"], text, None)
    OBVIOUS
  <2>3. /\ f \in View /\ f.moving = u.view["host"].moving /\ f.pending = None
        /\ f.session = u.view["host"].session /\ f.match = u.view["host"].match
        /\ f.chat = u.view["host"].chat /\ f.returning = u.view["host"].returning
    <3>1. u.view["host"] \in View /\ text \in Texts \cup {None} /\ None \in Texts \cup {None}
      BY <2>1 DEF HostPage
    <3>2. Wrote(u.view["host"], text, None, f)
      BY <2>2, <3>1, WritingIs
    <3> QED BY <3>2 DEF Wrote
  <2>4. HostPage(f, u.room)
    BY <2>1, <2>3 DEF HostPage
  <2>5. x = [u EXCEPT !.view["host"] = f]
    <3>1. Writes(u, "host", text, None)
              = [u EXCEPT !.view["host"] = Writing(u.view["host"], text, None)]
      BY ONLY DEF Writing, Writes
    <3> QED BY <1>12, <2>2, <3>1
  <2>6. Safe(x, stage) /\ x.view["host"] = f /\ But(x, u, {"view"}) /\ Steady(u, x)
    <3>1. f.session /\ u.view["host"].session /\ Safe(u, stage)
      BY <1>8, <1>9, <2>3
    <3>2. Waits(u, stage, f, x) /\ Steady(u, x)
      BY <2>4, <2>5, <3>1, HostWaits
    <3> QED BY <3>2 DEF Waits
  <2>7. Backs(w, x)
    <3>1. Backs(u, x)
      BY <1>9, <2>3, <2>6, SteadyHolds DEF Present
    <3> QED BY <1>9, <1>10, <3>1, BacksTwice DEF Present
  <2> QED BY <1>9, <2>3, <2>6, <2>7 DEF DirectInv, HostFree, But
<1> QED BY <1>11, <1>12

\* The host resigns, or votes.
LEMMA HostDecides ==
    ASSUME NEW w, NEW stage, DirectInv(w, stage), w.ok, w.room.guest, w.view["host"].session,
           w.online, NEW k \in Command, NEW u, u = Obey(w, "host", k)
    PROVE  DirectInv(u, stage) /\ u.room.guest /\ Backs(w, u)
<1>1. Safe(u, stage) /\ Served(w, u) /\ Backs(w, u)
  BY HostServes DEF DirectInv
<1>2. HostFree(u)
  BY <1>1 DEF DirectInv, HostFree, Served, Aside
<1>3. u.room.guest
  BY <1>1 DEF Served, Advances
<1> QED BY <1>1, <1>2, <1>3 DEF DirectInv

-----------------------------------------------------------------------------
\* The commands of the guest's page.

\* The same but for whether something was thrown.
Alike(u, w) ==
    /\ Shaped(u) /\ Aside(u, w)
    /\ u.room = w.room /\ u.record = w.record /\ u.wire = w.wire /\ u.view = w.view

\* The invariant does not tell apart two states whose fields are the same.
LEMMA AlikeKeeps ==
    ASSUME NEW w, NEW stage, DirectInv(w, stage), NEW u, Alike(u, w)
    PROVE  DirectInv(u, stage)
<1>1. /\ Shaped(u) /\ u.room = w.room /\ u.record = w.record /\ u.side = w.side
      /\ u.wire = w.wire /\ u.attempt = w.attempt /\ u.view = w.view /\ u.online = w.online
      /\ u.control = w.control
      /\ u.saved = w.saved /\ u.finalized = w.finalized /\ u.links = w.links
  BY DEF Alike, Aside
<1>2. PICK c : Calm(w, c) /\ Promised(w, c)
  BY DEF DirectInv, Safe
<1>3. Wires(u) /\ GuestFits(u) /\ HostFree(u)
  BY <1>1 DEF DirectInv, Safe, Wires, EndOK, GuestFits, HostFree
<1>4. (Live(u) <=> Live(w)) /\ (Asks(u) <=> Asks(w)) /\ (Recovers(u) <=> Recovers(w))
  BY <1>1 DEF Live, Linked, Asks, Recovers
<1>5. Calm(u, c) /\ Promised(u, c)
  BY <1>1, <1>2, <1>4 DEF Calm, Promised
<1>6. Owed(u)
  <2>1. (MoveOwed(u) <=> MoveOwed(w)) /\ (TextOwed(u) <=> TextOwed(w))
    BY <1>1 DEF MoveOwed, TextOwed
  <2> QED BY <1>1, <1>4, <2>1 DEF DirectInv, Safe, Owed
<1>7. Records(u, stage)
  BY <1>1, <1>4 DEF DirectInv, Safe, Records
<1> QED BY <1>1, <1>3, <1>5, <1>6, <1>7 DEF DirectInv, Safe

\* Nor does the record.
LEMMA AlikeBacks ==
    ASSUME NEW w, NEW u, Backs(w, u), NEW x, Alike(x, u)
    PROVE  Backs(w, x)
  BY DEF Alike, Aside, Backs, Recoverable, Backed, Trails, Present, Recovers

\* The guest's page waits for less.
LEMMA GuestWaits ==
    ASSUME NEW w, NEW stage, DirectInv(w, stage), w.room.guest,
           NEW v, GuestPage(v), Picture(v) = Picture(w.view["guest"]),
           v.moving => w.view["guest"].moving,
           v.pending # None => w.view["guest"].pending # None,
           NEW u, Viewed(u, w, "guest", v)
    PROVE  DirectInv(u, stage) /\ Backs(w, u)
<1>1. /\ Shaped(u) /\ u.room = w.room /\ u.record = w.record /\ u.side = w.side
      /\ u.wire = w.wire /\ u.attempt = w.attempt /\ u.online = w.online
      /\ u.control = w.control /\ u.view["guest"] = v /\ u.view["host"] = w.view["host"]
      /\ u.saved = w.saved /\ u.finalized = w.finalized /\ u.links = w.links
  BY OthersAre DEF Viewed, But
<1>2. PICK c : Calm(w, c) /\ Promised(w, c)
  BY DEF DirectInv, Safe
<1>3. /\ v.match = w.view["guest"].match /\ v.chat = w.view["guest"].chat
      /\ v.session <=> w.view["guest"].session
      /\ v.returning <=> w.view["guest"].returning
  <2>1. /\ v.match = w.view["guest"].match /\ v.chat = w.view["guest"].chat
        /\ (IF v.session THEN "in" ELSE IF v.returning THEN "returning" ELSE "out")
              = IF w.view["guest"].session THEN "in"
                ELSE IF w.view["guest"].returning THEN "returning" ELSE "out"
    BY DEF Picture
  <2>2. ~(v.session /\ v.returning) /\ ~(w.view["guest"].session /\ w.view["guest"].returning)
    BY DEF DirectInv, Safe, GuestFits, GuestPage
  <2> QED BY <2>1, <2>2
<1>4. Wires(u) /\ GuestFits(u) /\ HostFree(u)
  BY <1>1, <1>3 DEF DirectInv, Safe, Wires, EndOK, GuestFits, HostFree
<1>5. (Live(u) <=> Live(w)) /\ (Asks(u) <=> Asks(w)) /\ (Recovers(u) <=> Recovers(w))
  BY <1>1, <1>3 DEF Live, Linked, Asks, Recovers
<1>6. Calm(u, c) /\ Promised(u, c)
  BY <1>1, <1>2, <1>3, <1>5 DEF Calm, Promised, AllPassed
<1>7. Owed(u)
  <2>1. (MoveOwed(u) <=> MoveOwed(w)) /\ (TextOwed(u) <=> TextOwed(w))
    BY <1>1 DEF MoveOwed, TextOwed
  <2> QED BY <1>1, <1>5, <2>1 DEF DirectInv, Safe, Owed
<1>8. Records(u, stage)
  BY <1>1, <1>5 DEF DirectInv, Safe, Records
<1>9. Backs(w, u)
  <2>1. But(u, w, {"side", "wire", "view", "attempt", "online", "finalized", "links"})
    BY DEF Viewed, But
  <2> QED BY <1>1, <1>3, <2>1, ButBacks
<1> QED BY <1>1, <1>4, <1>6, <1>7, <1>8, <1>9 DEF DirectInv, Safe

\* A message is under way, if the link is still one.
SentTo(u, w, p, e) ==
    /\ But(u, w, {"wire"}) /\ u.wire[Other(p)] = w.wire[Other(p)]
    /\ u.wire[p] = IF Linked(w) THEN Append(w.wire[p], e) ELSE w.wire[p]
\* What sending does, field by field.
LEMMA SentToIs ==
    ASSUME NEW w, Shaped(w), NEW p \in Players, NEW e, NEW u, u = Sent(w, p, e)
    PROVE  SentTo(u, w, p, e)
<1>1. CASE Linked(w)
  <2>1. PICK s : s = Append(w.wire[p], e)
    OBVIOUS
  <2>2. u = [w EXCEPT !.wire[p] = s]
    BY <1>1, <2>1 DEF Sent
  <2>3. Wired(u, w, p, s)
    BY <2>2, WireSet
  <2> QED BY <1>1, <2>1, <2>3 DEF Wired, SentTo
<1>2. CASE ~Linked(w)
  BY <1>2 DEF Sent, SentTo, But
<1> QED BY <1>1, <1>2

\* Another view of the guest's, and a command of the guest's on a channel that is open.
LEMMA SaysIs ==
    ASSUME NEW w, Shaped(w), EndOK(w, "guest"), w.side["guest"].state = "open", NEW v, NEW k,
           NEW a, a = [w EXCEPT !.view["guest"] = v], NEW u, u = Sent(a, "host", k)
    PROVE  Says(w, u, v, k)
<1>1. "host" \in Players /\ "guest" \in Players /\ Players = {"host", "guest"}
  BY DEF Players
<1>2. Viewed(a, w, "guest", v)
  BY <1>1, ViewSet
<1>3. But(a, w, {"view"}) /\ a.view["guest"] = v /\ a.view["host"] = w.view["host"]
  BY <1>2, OthersAre DEF Viewed
<1>4. Shaped(a)
  BY <1>3 DEF But
<1>5. SentTo(u, a, "host", k)
  BY <1>1, <1>4, SentToIs
<1>6. Linked(a) <=> Linked(w)
  BY <1>3 DEF But, Linked
<1>7. u.side["guest"] = [state |-> "open", link |-> w.side["guest"].link]
  BY <1>3, <1>5 DEF But, SentTo, EndOK
<1>8. But(u, w, {"view", "wire", "side"})
  BY <1>3, <1>5 DEF But, SentTo
<1>9. /\ u.view["guest"] = v /\ u.view["host"] = w.view["host"]
      /\ u.wire["guest"] = w.wire["guest"] /\ u.side["host"] = w.side["host"]
      /\ u.wire["host"] = IF Linked(w) THEN Append(w.wire["host"], k) ELSE w.wire["host"]
  <2>1. a.wire = w.wire /\ a.side = w.side
    BY <1>3 DEF But
  <2>2. u.view = a.view /\ u.side = a.side /\ u.wire["guest"] = a.wire["guest"]
    BY <1>1, <1>5, OthersAre DEF SentTo, But
  <2>3. u.wire["host"] = IF Linked(a) THEN Append(a.wire["host"], k) ELSE a.wire["host"]
    BY <1>5 DEF SentTo
  <2> QED BY <1>3, <1>6, <2>1, <2>2, <2>3
<1> QED BY <1>7, <1>8, <1>9 DEF Says

\* What it leads to.
LEMMA GuestSends ==
    ASSUME NEW w, NEW stage, DirectInv(w, stage), w.room.guest,
           w.side["guest"].state = "open", NEW k \in Command, NEW v, GuestPage(v),
           Picture(v) = Picture(w.view["guest"]),
           v.moving => w.view["guest"].moving \/ k.type = "move",
           v.pending # None => w.view["guest"].pending # None \/ k.type = "chat",
           NEW a, a = [w EXCEPT !.view["guest"] = v], NEW u, u = Sent(a, "host", k)
    PROVE  DirectInv(u, stage) /\ u.room.guest /\ u.ok = w.ok /\ Backs(w, u)
<1>1. Shaped(w) /\ EndOK(w, "guest")
  BY DEF DirectInv, Safe, Wires
<1>2. Says(w, u, v, k)
  BY <1>1, SaysIs
<1>3. Safe(w, stage) /\ w.side["guest"].link # 0 /\ w.side["guest"].state # "opening"
  BY <1>1 DEF DirectInv, EndOK
<1>4. Safe(u, stage)
  <2>1. /\ w.side["guest"].state \in {"opening", "open"}
        /\ w.side["guest"].state = "opening" => k.type = "reconnect"
    BY <1>3
  <2>2. Safe(w, stage) /\ w.side["guest"].link # 0
    BY <1>3
  <2>3. /\ v.moving => w.view["guest"].moving \/ k.type = "move"
        /\ v.pending # None => w.view["guest"].pending # None \/ k.type = "chat"
    OBVIOUS
  <2> QED BY <1>2, <2>1, <2>2, <2>3, SaysKeeps
<1>5. HostFree(u)
  BY <1>2 DEF DirectInv, HostFree, Says, But
<1>6. Backs(w, u)
  <2>1. /\ But(u, w, {"view", "wire", "side"}) /\ u.view["guest"] = v
        /\ u.view["host"] = w.view["host"] /\ u.wire["guest"] = w.wire["guest"]
        /\ u.side["host"] = w.side["host"]
    BY <1>2 DEF Says
  <2>2. v.match = w.view["guest"].match
    BY DEF Picture
  <2>3. But(u, w, {"side", "wire", "view", "attempt", "online", "finalized", "links"})
    BY <2>1 DEF But
  <2> QED BY <2>1, <2>2, <2>3, ButBacks
<1> QED BY <1>2, <1>4, <1>5, <1>6 DEF DirectInv, Says, But

\* Something was thrown.
LEMMA ThrownIs ==
    ASSUME NEW w, Shaped(w), NEW u, u = [w EXCEPT !.ok = FALSE]
    PROVE  Alike(u, w) /\ ~u.ok
  BY DEF Shaped, Alike, Aside

\* The guest's page could not send, and waits for no more than before.
LEMMA GuestUnsent ==
    ASSUME NEW w, NEW stage, DirectInv(w, stage), w.room.guest, NEW v, NEW a, NEW b, NEW x,
           a = [w EXCEPT !.view["guest"] = v], b = [a EXCEPT !.ok = FALSE], NEW f,
           x = [b EXCEPT !.view["guest"] = f], GuestPage(f),
           Picture(f) = Picture(w.view["guest"]),
           f.moving => w.view["guest"].moving,
           f.pending # None => w.view["guest"].pending # None
    PROVE  DirectInv(x, stage) /\ x.room.guest /\ Backs(w, x)
<1>0. "guest" \in Players /\ Players = {"guest", Other("guest")} /\ Shaped(w)
  BY OthersAre DEF Players, DirectInv, Safe
<1>1. Viewed(a, w, "guest", v)
  BY <1>0, ViewSet
<1>2. Alike(b, a)
  <2>1. Shaped(a)
    BY <1>1 DEF Viewed, But
  <2> QED BY <2>1, ThrownIs
<1>3. Viewed(x, b, "guest", f)
  <2>1. Shaped(b)
    BY <1>2 DEF Alike
  <2> QED BY <1>0, <2>1, ViewSet
<1>4. PICK y : y = [w EXCEPT !.view["guest"] = f]
  OBVIOUS
<1>5. Viewed(y, w, "guest", f)
  BY <1>0, <1>4, ViewSet
<1>6. DirectInv(y, stage) /\ Backs(w, y)
  BY <1>5, GuestWaits
<1>7. Alike(x, y)
  <2>1. /\ Shaped(x) /\ x.room = w.room /\ x.record = w.record /\ x.side = w.side
        /\ x.wire = w.wire /\ x.attempt = w.attempt /\ x.online = w.online
        /\ x.control = w.control
        /\ x.saved = w.saved /\ x.finalized = w.finalized /\ x.links = w.links
    BY <1>1, <1>2, <1>3 DEF Viewed, But, Alike, Aside
  <2>2. /\ Shaped(y) /\ y.room = w.room /\ y.record = w.record /\ y.side = w.side
        /\ y.wire = w.wire /\ y.attempt = w.attempt /\ y.online = w.online
        /\ y.control = w.control
        /\ y.saved = w.saved /\ y.finalized = w.finalized /\ y.links = w.links
    BY <1>5 DEF Viewed, But
  <2>3. x.view["guest"] = y.view["guest"] /\ x.view[Other("guest")] = y.view[Other("guest")]
    BY <1>1, <1>2, <1>3, <1>5 DEF Viewed, Alike
  <2>4. x.view = [p \in Players |-> x.view[p]] /\ y.view = [p \in Players |-> y.view[p]]
    BY <2>1, <2>2 DEF Shaped
  <2>5. x.view = y.view
    BY <1>0, <2>3, <2>4
  <2> QED BY <2>1, <2>2, <2>5 DEF Alike, Aside
<1>8. Backs(w, x)
  BY <1>6, <1>7, AlikeBacks
<1> QED BY <1>6, <1>7, <1>8, AlikeKeeps, <1>5 DEF Alike, Viewed, But

\* sendEvent of the guest's page.
SubmitGuest(w, k) == IF w.side["guest"].state = "open" THEN Sent(w, "host", k)
                     ELSE [w EXCEPT !.ok = FALSE]

GuestFreed(v, no, u) ==
    /\ GuestPage(u) /\ u.moving = no /\ u.pending = v.pending
    /\ Picture(u) = Picture(v) /\ u.session
\* The guest's page no longer waits for a move.
LEMMA GuestFreedIs ==
    ASSUME NEW v, GuestPage(v), v.session, NEW no, no \in BOOLEAN, NEW u, u = Freed(v, no)
    PROVE  GuestFreed(v, no, u)
<1>1. v \in View /\ Formed(v)
  BY ViewFormed DEF GuestPage
<1>2. /\ Formed(u) /\ u.session = v.session /\ u.match = v.match /\ u.chat = v.chat
      /\ u.draft = v.draft /\ u.pending = v.pending /\ u.moving = no
      /\ u.returning = v.returning
  BY <1>1, ViewWith DEF Freed, Formed
<1>3. u \in View
  BY <1>1, <1>2, ViewFormed
<1> QED BY <1>2, <1>3 DEF GuestPage, Picture, GuestFreed

\* The guest moves: the move is under way, or the page is free again.
LEMMA GuestMoves ==
    ASSUME NEW w, NEW stage, DirectInv(w, stage), w.ok, w.room.guest, w.view["guest"].session,
           ~w.view["guest"].moving, NEW k \in Command, k.type = "move", NEW u,
           u = SubmitGuest([w EXCEPT !.view["guest"].moving = TRUE], k),
           NEW x, x = IF u.ok THEN u ELSE [u EXCEPT !.view["guest"].moving = FALSE]
    PROVE  DirectInv(x, stage) /\ x.room.guest /\ Backs(w, x)
<1>1. GuestPage(w.view["guest"]) /\ Shaped(w) /\ "guest" \in Players
  BY DEF DirectInv, Safe, GuestFits, Players
<1>2. PICK v : v = Freed(w.view["guest"], TRUE)
  OBVIOUS
<1>3. /\ GuestPage(v) /\ v.pending = w.view["guest"].pending
      /\ Picture(v) = Picture(w.view["guest"]) /\ v.session
  <2>1. GuestFreed(w.view["guest"], TRUE, v)
    BY <1>1, <1>2, GuestFreedIs
  <2> QED BY <2>1 DEF GuestFreed
<1>4. PICK a : a = [w EXCEPT !.view["guest"] = v]
  OBVIOUS
<1>5. u = SubmitGuest(a, k)
  <2>1. [w EXCEPT !.view["guest"].moving = TRUE]
            = [w EXCEPT !.view["guest"] = Freed(w.view["guest"], TRUE)]
    BY DEF Freed
  <2> QED BY <1>2, <1>4, <2>1
<1>6. Viewed(a, w, "guest", v)
  BY <1>1, <1>4, ViewSet
<1>7. a.side = w.side /\ a.ok /\ Shaped(a)
  BY <1>6 DEF Viewed, But
<1>8. CASE w.side["guest"].state = "open"
  <2>1. u = Sent(a, "host", k)
    BY <1>5, <1>7, <1>8 DEF SubmitGuest
  <2>2. DirectInv(u, stage) /\ u.room.guest /\ u.ok = w.ok /\ Backs(w, u)
    <3>1. /\ v.moving => w.view["guest"].moving \/ k.type = "move"
          /\ v.pending # None => w.view["guest"].pending # None \/ k.type = "chat"
      BY <1>3
    <3>2. GuestPage(v) /\ Picture(v) = Picture(w.view["guest"])
      BY <1>3
    <3>3. DirectInv(w, stage) /\ w.room.guest /\ k \in Command
      OBVIOUS
    <3> QED BY ONLY <1>4, <1>8, <2>1, <3>1, <3>2, <3>3, GuestSends
  <2> QED BY <2>2
<1>9. CASE w.side["guest"].state # "open"
  <2>1. u = [a EXCEPT !.ok = FALSE]
    BY <1>5, <1>7, <1>9 DEF SubmitGuest
  <2>2. Alike(u, a) /\ ~u.ok
    BY <1>7, <2>1, ThrownIs
  <2>3. u.view["guest"] = v
    BY <1>6, <2>2 DEF Alike, Viewed
  <2>4. PICK f : f = Freed(v, FALSE)
    OBVIOUS
  <2>5. /\ GuestPage(f) /\ ~f.moving /\ f.pending = v.pending /\ Picture(f) = Picture(v)
    <3>1. GuestFreed(v, FALSE, f)
      BY <1>3, <2>4, GuestFreedIs
    <3> QED BY <3>1 DEF GuestFreed
  <2>6. x = [u EXCEPT !.view["guest"] = f]
    <3>1. [u EXCEPT !.view["guest"].moving = FALSE]
              = [u EXCEPT !.view["guest"] = Freed(u.view["guest"], FALSE)]
      BY DEF Freed
    <3> QED BY <2>2, <2>3, <2>4, <3>1
  <2>7. /\ Picture(f) = Picture(w.view["guest"]) /\ GuestPage(f)
        /\ f.moving => w.view["guest"].moving
        /\ f.pending # None => w.view["guest"].pending # None
    BY <1>3, <2>5
  <2>8. DirectInv(w, stage) /\ w.room.guest
    OBVIOUS
  <2> QED BY ONLY <1>4, <2>1, <2>6, <2>7, <2>8, GuestUnsent
<1> QED BY <1>8, <1>9

\* The guest resigns, or votes.
LEMMA GuestDecides ==
    ASSUME NEW w, NEW stage, DirectInv(w, stage), w.ok, w.room.guest,
           NEW k \in Command, NEW u, u = SubmitGuest(w, k)
    PROVE  DirectInv(u, stage) /\ u.room.guest /\ Backs(w, u)
<1>1. GuestPage(w.view["guest"]) /\ Shaped(w) /\ "guest" \in Players
  BY DEF DirectInv, Safe, GuestFits, Players
<1>2. CASE w.side["guest"].state = "open"
  <2>1. u = Sent(w, "host", k)
    BY <1>2 DEF SubmitGuest
  <2>2. PICK v : v = w.view["guest"]
    OBVIOUS
  <2>3. PICK a : a = [w EXCEPT !.view["guest"] = v]
    OBVIOUS
  <2>4. a = w
    BY <1>1, <2>2, <2>3 DEF Shaped
  <2>5. GuestPage(v) /\ Picture(v) = Picture(w.view["guest"])
    BY <1>1, <2>2
  <2>6. /\ v.moving => w.view["guest"].moving \/ k.type = "move"
        /\ v.pending # None => w.view["guest"].pending # None \/ k.type = "chat"
    BY <2>2
  <2>7. u = Sent(a, "host", k)
    BY <2>1, <2>4
  <2>8. DirectInv(w, stage) /\ w.room.guest
    OBVIOUS
  <2> QED BY ONLY <1>2, <2>3, <2>5, <2>6, <2>7, <2>8, GuestSends
<1>3. CASE w.side["guest"].state # "open"
  <2>1. u = [w EXCEPT !.ok = FALSE]
    BY <1>3 DEF SubmitGuest
  <2>2. Alike(u, w)
    BY <1>1, <2>1, ThrownIs
  <2>3. Backs(w, u)
    BY <2>2, AlikeBacks DEF Backs, Recoverable
  <2> QED BY <2>2, <2>3, AlikeKeeps DEF Alike
<1> QED BY <1>2, <1>3

\* The guest says something: it is under way, or in the draft again.
LEMMA GuestSaysText ==
    ASSUME NEW w, NEW stage, DirectInv(w, stage), w.ok, w.room.guest, w.view["guest"].session,
           w.view["guest"].pending = None,
           NEW text \in Texts, NEW k, k = [type |-> "chat", text |-> text], NEW u,
           u = SubmitGuest(Writes(w, "guest", None, text), k),
           NEW x, x = IF u.ok THEN u
                      ELSE Writes(u, "guest", text, None)
    PROVE  DirectInv(x, stage) /\ x.room.guest /\ Backs(w, x)
<1>1. GuestPage(w.view["guest"]) /\ Shaped(w) /\ "guest" \in Players /\ k \in Command
  BY DEF DirectInv, Safe, GuestFits, Players, Command
<1>2. PICK v : v = Writing(w.view["guest"], None, text)
  OBVIOUS
<1>3. Wrote(w.view["guest"], None, text, v)
  <2>1. w.view["guest"] \in View /\ text \in Texts \cup {None} /\ None \in Texts \cup {None}
    BY <1>1 DEF GuestPage
  <2> QED BY <1>2, <2>1, WritingIs
<1>4. GuestPage(v) /\ Picture(v) = Picture(w.view["guest"]) /\ v.moving = w.view["guest"].moving
  BY <1>1, <1>3 DEF Wrote, GuestPage, Picture
<1>5. PICK a : a = [w EXCEPT !.view["guest"] = v]
  OBVIOUS
<1>6. u = SubmitGuest(a, k)
  <2>1. Writes(w, "guest", None, text)
            = [w EXCEPT !.view["guest"] = Writing(w.view["guest"], None, text)]
    BY DEF Writing, Writes
  <2> QED BY <1>2, <1>5, <2>1
<1>7. Viewed(a, w, "guest", v)
  BY <1>1, <1>5, ViewSet
<1>8. a.side = w.side /\ a.ok /\ Shaped(a)
  BY <1>7 DEF Viewed, But
<1>9. CASE w.side["guest"].state = "open"
  <2>1. u = Sent(a, "host", k)
    BY <1>6, <1>8, <1>9 DEF SubmitGuest
  <2>2. DirectInv(u, stage) /\ u.room.guest /\ u.ok = w.ok /\ Backs(w, u)
    <3>1. /\ v.moving => w.view["guest"].moving \/ k.type = "move"
          /\ v.pending # None => w.view["guest"].pending # None \/ k.type = "chat"
      BY <1>4
    <3>2. GuestPage(v) /\ Picture(v) = Picture(w.view["guest"]) /\ k \in Command
      BY <1>1, <1>4
    <3>3. DirectInv(w, stage) /\ w.room.guest
      OBVIOUS
    <3> QED BY ONLY <1>5, <1>9, <2>1, <3>1, <3>2, <3>3, GuestSends
  <2> QED BY <2>2
<1>10. CASE w.side["guest"].state # "open"
  <2>1. u = [a EXCEPT !.ok = FALSE]
    BY <1>6, <1>8, <1>10 DEF SubmitGuest
  <2>2. Alike(u, a) /\ ~u.ok
    BY <1>8, <2>1, ThrownIs
  <2>3. u.view["guest"] = v
    BY <1>7, <2>2 DEF Alike, Viewed
  <2>4. PICK f : f = Writing(v, text, None)
    OBVIOUS
  <2>5. Wrote(v, text, None, f)
    <3>1. v \in View /\ text \in Texts \cup {None} /\ None \in Texts \cup {None}
      BY <1>3 DEF Wrote
    <3> QED BY <2>4, <3>1, WritingIs
  <2>6. GuestPage(f) /\ Picture(f) = Picture(v) /\ f.moving = v.moving /\ f.pending = None
    BY <1>4, <2>5 DEF Wrote, GuestPage, Picture
  <2>7. x = [u EXCEPT !.view["guest"] = f]
    <3>1. Writes(u, "guest", text, None)
              = [u EXCEPT !.view["guest"] = Writing(u.view["guest"], text, None)]
      BY ONLY DEF Writing, Writes
    <3> QED BY <2>2, <2>3, <2>4, <3>1
  <2>8. /\ Picture(f) = Picture(w.view["guest"]) /\ GuestPage(f)
        /\ f.moving => w.view["guest"].moving
        /\ f.pending # None => w.view["guest"].pending # None
    BY <1>4, <2>6
  <2>9. DirectInv(w, stage) /\ w.room.guest
    OBVIOUS
  <2> QED BY ONLY <1>5, <2>1, <2>7, <2>8, <2>9, GuestUnsent
<1> QED BY <1>9, <1>10

-----------------------------------------------------------------------------
\* A message arrives.

\* The first message, and those after it.
Split(s, e, t) ==
    /\ \A i \in DOMAIN s : s[i] = e \/ \E j \in DOMAIN t : t[j] = s[i]
    /\ \A j \in DOMAIN t : \E i \in DOMAIN s : s[i] = t[j]
    /\ \E i \in DOMAIN s : s[i] = e
\* A sequence that is not empty is its first member and the rest.
LEMMA HeadTail ==
    ASSUME NEW S, NEW s, s \in Seq(S), s # <<>>, NEW t, t = Tail(s), NEW e, e = Head(s)
    PROVE  e \in S /\ t \in Seq(S) /\ Split(s, e, t)
<1>1. /\ Len(t) = Len(s) - 1 /\ Len(s) \in Nat \ {0} /\ s[1] = e /\ t \in Seq(S)
      /\ \A j \in 1..Len(t) : t[j] = s[j + 1]
      /\ DOMAIN s = 1..Len(s) /\ DOMAIN t = 1..Len(t)
  OBVIOUS
<1>2. e \in S
  BY <1>1
<1>3. \A i \in DOMAIN s : s[i] = e \/ \E j \in DOMAIN t : t[j] = s[i]
  <2> SUFFICES ASSUME NEW i \in DOMAIN s, i # 1 PROVE \E j \in DOMAIN t : t[j] = s[i]
    BY <1>1
  <2>1. i - 1 \in DOMAIN t /\ t[i - 1] = s[i]
    BY <1>1
  <2> QED BY <2>1
<1>4. \A j \in DOMAIN t : \E i \in DOMAIN s : s[i] = t[j]
  <2> SUFFICES ASSUME NEW j \in DOMAIN t PROVE \E i \in DOMAIN s : s[i] = t[j]
    OBVIOUS
  <2>1. j + 1 \in DOMAIN s /\ s[j + 1] = t[j]
    BY <1>1
  <2> QED BY <2>1
<1>5. 1 \in DOMAIN s
  BY <1>1
<1> QED BY <1>1, <1>2, <1>3, <1>4, <1>5 DEF Split

Types(s) == {s[i].type : i \in DOMAIN s}
\* What is under way is the first message and those behind it.
LEMMA SplitTypes ==
    ASSUME NEW s, NEW e, NEW t, Split(s, e, t)
    PROVE  /\ Types(s) = {e.type} \cup Types(t)
           /\ (\E i \in DOMAIN s : AnswersMove(s[i])) =>
                 AnswersMove(e) \/ \E j \in DOMAIN t : AnswersMove(t[j])
           /\ (\E i \in DOMAIN s : AnswersText(s[i])) =>
                 AnswersText(e) \/ \E j \in DOMAIN t : AnswersText(t[j])
<1>1. \A x \in Types(s) : x \in {e.type} \cup Types(t)
  BY DEF Types, Split
<1>2. \A x \in Types(t) : x \in Types(s)
  BY DEF Types, Split
<1>3. e.type \in Types(s)
  BY DEF Types, Split
<1>4. (\E i \in DOMAIN s : AnswersMove(s[i])) =>
         AnswersMove(e) \/ \E j \in DOMAIN t : AnswersMove(t[j])
  <2> SUFFICES ASSUME NEW i \in DOMAIN s, AnswersMove(s[i])
               PROVE  AnswersMove(e) \/ \E j \in DOMAIN t : AnswersMove(t[j])
    OBVIOUS
  <2>1. s[i] = e \/ \E j \in DOMAIN t : t[j] = s[i]
    BY DEF Split
  <2> QED BY <2>1
<1>5. (\E i \in DOMAIN s : AnswersText(s[i])) =>
         AnswersText(e) \/ \E j \in DOMAIN t : AnswersText(t[j])
  <2> SUFFICES ASSUME NEW i \in DOMAIN s, AnswersText(s[i])
               PROVE  AnswersText(e) \/ \E j \in DOMAIN t : AnswersText(t[j])
    OBVIOUS
  <2>1. s[i] = e \/ \E j \in DOMAIN t : t[j] = s[i]
    BY DEF Split
  <2> QED BY <2>1
<1> QED BY <1>1, <1>2, <1>3, <1>4, <1>5

\* What is owed, by the types of the messages.
LEMMA OwedByType ==
    ASSUME NEW w
    PROVE  /\ Asks(w) <=> \/ "reconnect" \in Types(w.wire["host"])
                          \/ w.side["guest"].state = "opening" /\ w.view["guest"].returning
           /\ Recovers(w) <=> "recovery" \in Types(w.wire["guest"])
           /\ MoveOwed(w) <=> \/ "move" \in Types(w.wire["host"])
                              \/ \E i \in DOMAIN w.wire["guest"] : AnswersMove(w.wire["guest"][i])
           /\ TextOwed(w) <=> \/ "chat" \in Types(w.wire["host"])
                              \/ \E i \in DOMAIN w.wire["guest"] : AnswersText(w.wire["guest"][i])
  BY DEF Types, Asks, Recovers, MoveOwed, TextOwed

\* A message to the host is served.
LEMMA HostDelivers ==
    ASSUME NEW w, NEW stage, DirectInv(w, stage), w.ok, w.wire["host"] # <<>>,
           Up(w.side["host"]), NEW k, k = Head(w.wire["host"]),
           NEW a, a = [w EXCEPT !.wire["host"] = Tail(@)],
           NEW u, u = Obey(a, "guest", k)
    PROVE  DirectInv(u, stage) /\ w.room.guest /\ u.room.guest /\ Backs(w, u)
<1>1. PICK c : Calm(w, c) /\ Promised(w, c)
  BY DEF DirectInv, Safe
<1>2. "host" \in Players /\ "guest" \in Players /\ Shaped(w) /\ w.wire["host"] \in Seq(Command)
  BY DEF Players, DirectInv, Safe, Wires
<1>3. PICK t : t = Tail(w.wire["host"])
  OBVIOUS
<1>4. k \in Command /\ t \in Seq(Command) /\ Split(w.wire["host"], k, t)
  BY <1>2, <1>3, HeadTail
<1>5. Wired(a, w, "host", t)
  <2>1. a = [w EXCEPT !.wire["host"] = t]
    BY <1>3
  <2> QED BY <1>2, <2>1, WireSet
<1>6. /\ Shaped(a) /\ a.ok /\ a.room = w.room /\ a.record = w.record /\ a.side = w.side
      /\ a.view = w.view /\ a.attempt = w.attempt /\ a.online = w.online
      /\ a.control = w.control /\ a.wire["host"] = t /\ a.wire["guest"] = w.wire["guest"]
      /\ a.saved = w.saved /\ a.finalized = w.finalized /\ a.links = w.links
  BY <1>5, OthersAre DEF Wired, But
<1>7. w.room.guest
  BY <1>2 DEF DirectInv, Safe, Records
<1>8. a.room.match # None
  BY <1>1, <1>6, <1>7 DEF Calm, RoomOK
<1>9. Wires(a) /\ GuestFits(a)
  BY <1>4, <1>6 DEF DirectInv, Safe, Wires, EndOK, GuestFits, Up
<1>10. (Live(a) <=> Live(w)) /\ (Recovers(a) <=> Recovers(w))
  BY <1>6 DEF Live, Linked, Recovers
<1>11. Records(a, stage)
  BY <1>6, <1>7, <1>10 DEF DirectInv, Safe, Records
<1>12. Calm(a, c)
  BY <1>1, <1>6, <1>10 DEF Calm
<1>13. Serving(a, c, "guest", k)
  <2>1. Asks(w) => Asks(a) \/ k.type = "reconnect"
    <3>1. Types(w.wire["host"]) = {k.type} \cup Types(t)
      BY <1>4, SplitTypes
    <3> QED BY <1>6, <3>1, OwedByType
  <2>2. /\ MoveOwed(w) => MoveOwed(a) \/ k.type = "move"
        /\ TextOwed(w) => TextOwed(a) \/ k.type = "chat"
    <3>1. Types(w.wire["host"]) = {k.type} \cup Types(t)
      BY <1>4, SplitTypes
    <3> QED BY <1>6, <3>1, OwedByType
  <2>3. w.side["host"].state # "opening" /\ Up(a.side["host"])
    BY <1>6 DEF Up
  <2> QED BY <1>1, <1>6, <1>10, <2>1, <2>2, <2>3 DEF DirectInv, Safe, Promised, Owed, Serving
<1>14. Safe(u, stage) /\ Served(a, u) /\ Answered(a, "guest", k, u)
  <2>1. "guest" = "host" => a.view["host"].session
    OBVIOUS
  <2> QED BY <1>2, <1>4, <1>6, <1>8, <1>9, <1>11, <1>12, <1>13, <2>1, Serves
<1>15. HostFree(u)
  <2>1. a.view["host"] = w.view["host"] /\ u.side = w.side /\ u.attempt = w.attempt
    BY <1>6, <1>14 DEF Served, Aside
  <2>2. \/ a.view["host"].session /\ (u.view["host"].moving => a.view["host"].moving)
           /\ (u.view["host"].pending # None => a.view["host"].pending # None)
        \/ u.view["host"] = a.view["host"]
    BY <1>14 DEF Served
  <2> QED BY <2>1, <2>2 DEF DirectInv, HostFree
<1>16. Backs(w, u)
  <2> SUFFICES ASSUME Recoverable(w) PROVE Backs(a, u)
    <3>1. Recoverable(w) => Recoverable(a)
      BY <1>6, <1>10 DEF Recoverable, Backed, Trails, Present
    <3> QED BY <3>1 DEF Backs
  <2>1. w.side["host"].state # "dead"
    BY DEF Up
  <2>2. a.view["host"].session
    BY <1>6, <2>1 DEF Recoverable, Present
  <2>3. u.view["host"].session
    BY <1>14, <2>2 DEF Answered
  <2>4. PICK d : Calm(u, d)
    BY <1>14 DEF Safe
  <2> QED BY <1>9, <1>12, <1>14, <2>2, <2>3, <2>4, ServedBacks
<1> QED BY <1>6, <1>7, <1>14, <1>15, <1>16 DEF DirectInv, Served, Advances

\* The match that the guest's page goes on to is one that was sent, or the one it had.
LEMMA PicturePassed ==
    ASSUME NEW v, GuestPage(v), NEW e \in Event, NEW u, Picture(u) = PictureAfter(Picture(v), e),
           NEW n \in Match \cup {None}, Passed(v.match, n), e.type = "match" => Passed(e.match, n)
    PROVE  Passed(u.match, n)
<1>1. v.match \in Match \cup {None}
  BY DEF GuestPage, View
<1>2. PICK c : c = Picture(v)
  OBVIOUS
<1>3. c = [at |-> c.at, match |-> c.match, chat |-> c.chat] /\ c.match = v.match
  BY <1>2 DEF Picture
<1>4. PICK d : d = PictureAfter(c, e)
  OBVIOUS
<1>5. u.match = d.match
  BY <1>2, <1>4 DEF Picture
<1>6. \/ d.match = c.match \/ d.match = None
      \/ e.type = "match" /\ d.match = e.match
      \/ e.type = "votes" /\ c.match # None /\ d.match = [c.match EXCEPT !.votes = e.votes]
  BY <1>3, <1>4, EventIs DEF PictureAfter
<1>7. CASE e.type = "votes" /\ c.match # None /\ d.match = [c.match EXCEPT !.votes = e.votes]
  <2>1. c.match \in Match /\ e.votes \in SUBSET Players
    BY <1>1, <1>3, <1>7, EventIs
  <2>2. /\ d.match = [round |-> c.match.round, moves |-> c.match.moves, mover |-> c.match.mover,
                      over |-> c.match.over, votes |-> e.votes, guestOn |-> c.match.guestOn]
    BY <1>7, <2>1, MatchWith
  <2>3. /\ d.match.round = c.match.round /\ d.match.moves = c.match.moves
        /\ d.match.over = c.match.over
    BY <2>2
  <2>4. Passed(c.match, n)
    BY <1>3
  <2> QED BY <1>5, <1>7, <2>3, <2>4 DEF Passed, Behind
<1> QED BY <1>3, <1>5, <1>6, <1>7 DEF Passed

\* The guest is told that it can come back.
LEMMA GuestHearsRecovery ==
    ASSUME NEW w, NEW stage, DirectInv(w, stage), w.wire["guest"] # <<>>,
           Up(w.side["guest"]), NEW e, e = Head(w.wire["guest"]), e.type = "recovery",
           NEW a, a = [w EXCEPT !.wire["guest"] = Tail(@)],
           NEW u, u = [a EXCEPT !.saved = TRUE]
    PROVE  DirectInv(u, stage) /\ w.room.guest /\ u.room.guest /\ Backs(w, u)
<1>1. PICK c : Calm(w, c) /\ Promised(w, c)
  BY DEF DirectInv, Safe
<1>2. "guest" \in Players /\ Shaped(w) /\ w.wire["guest"] \in Seq(Event)
  BY DEF Players, DirectInv, Safe, Wires
<1>3. PICK t : t = Tail(w.wire["guest"])
  OBVIOUS
<1>4. e \in Event /\ t \in Seq(Event) /\ Split(w.wire["guest"], e, t)
  BY <1>2, <1>3, HeadTail
<1>5. Wired(a, w, "guest", t)
  <2>1. a = [w EXCEPT !.wire["guest"] = t]
    BY <1>3
  <2> QED BY <1>2, <2>1, WireSet
<1>6. Shaped(a)
  BY <1>5 DEF Wired, But
<1>7. But(u, a, {"saved"}) /\ u.saved = TRUE
  <2>1. PICK yes : yes = TRUE
    OBVIOUS
  <2>2. u = [a EXCEPT !.saved = yes]
    BY <2>1
  <2>3. But(u, a, {"saved"}) /\ u.saved = yes
    BY ONLY <1>6, <2>2 DEF Shaped, But
  <2> QED BY <2>1, <2>3
<1>8. /\ Shaped(u) /\ u.room = w.room /\ u.record = w.record /\ u.side = w.side
      /\ u.view = w.view /\ u.attempt = w.attempt /\ u.online = w.online
      /\ u.control = w.control /\ u.wire["guest"] = t /\ u.wire["host"] = w.wire["host"]
      /\ u.saved \in BOOLEAN /\ u.finalized = w.finalized /\ u.links = w.links
  BY <1>5, <1>7, OthersAre DEF Wired, But
<1>9. w.room.guest
  BY <1>2 DEF DirectInv, Safe, Records
<1>10. Wires(u) /\ GuestFits(u)
  BY <1>4, <1>8 DEF DirectInv, Safe, Wires, EndOK, GuestFits, Up
<1>11. (Live(u) <=> Live(w)) /\ (Asks(u) <=> Asks(w)) /\ (Recovers(u) => Recovers(w))
       /\ Recovers(w)
  <2>1. Types(w.wire["guest"]) = {e.type} \cup Types(t)
    BY <1>4, SplitTypes
  <2> QED BY <1>8, <2>1, OwedByType DEF Live, Linked
<1>12. Records(u, stage)
  BY <1>8, <1>9, <1>11 DEF DirectInv, Safe, Records
<1>13. Calm(u, c)
  <2>1. Ends(Picture(w.view["guest"]), w.wire["guest"], c)
    BY <1>1 DEF Calm
  <2>2. Ends(PictureAfter(Picture(w.view["guest"]), e), t, c)
    BY <1>2, <1>3, <2>1, EndsTail
  <2>3. PictureAfter(Picture(w.view["guest"]), e) = Picture(w.view["guest"])
    BY DEF PictureAfter
  <2>4. AllPassed(w.view["guest"], w.wire["guest"], w.room) => AllPassed(u.view["guest"], t, w.room)
    BY <1>4, <1>8 DEF AllPassed, Split
  <2> QED BY <1>1, <1>4, <1>8, <1>11, <2>2, <2>3, <2>4 DEF Calm
<1>14. Promised(u, c)
  BY <1>1, <1>8, <1>11 DEF Promised
<1>15. Owed(u)
  <2>1. (MoveOwed(w) => MoveOwed(u)) /\ (TextOwed(w) => TextOwed(u))
    <3>1. ~AnswersMove(e) /\ ~AnswersText(e)
      BY DEF AnswersMove, AnswersText
    <3>2. /\ (\E i \in DOMAIN w.wire["guest"] : AnswersMove(w.wire["guest"][i])) =>
                \E j \in DOMAIN t : AnswersMove(t[j])
          /\ (\E i \in DOMAIN w.wire["guest"] : AnswersText(w.wire["guest"][i])) =>
                \E j \in DOMAIN t : AnswersText(t[j])
      BY <1>4, <3>1, SplitTypes
    <3> QED BY <1>8, <3>2, OwedByType
  <2> QED BY <1>8, <1>11, <2>1 DEF DirectInv, Safe, Owed
<1>16. HostFree(u)
  BY <1>8 DEF DirectInv, HostFree
<1>17. Backs(w, u)
  <2> SUFFICES ASSUME Recoverable(w) PROVE Backed(u) /\ Trails(u) /\ Present(u)
    BY DEF Backs
  <2>1. AllPassed(w.view["guest"], w.wire["guest"], w.room)
    BY <1>11 DEF Recoverable, Trails
  <2>2. AllPassed(u.view["guest"], t, u.room)
    BY <1>4, <1>8, <2>1 DEF AllPassed, Split
  <2> QED BY <1>8, <2>2 DEF Recoverable, Backed, Trails, Present
<1> QED BY <1>8, <1>9, <1>10, <1>12, <1>13, <1>14, <1>15, <1>16, <1>17 DEF DirectInv, Safe

\* The guest's page hears an event.
LEMMA GuestDelivers ==
    ASSUME NEW w, NEW stage, DirectInv(w, stage), w.wire["guest"] # <<>>,
           Up(w.side["guest"]), NEW e, e = Head(w.wire["guest"]), e.type # "recovery",
           NEW a, a = [w EXCEPT !.wire["guest"] = Tail(@)],
           NEW u, u = [a EXCEPT !.view["guest"] = Applied(@, "guest", e)]
    PROVE  DirectInv(u, stage) /\ w.room.guest /\ u.room.guest /\ Backs(w, u)
<1>1. PICK c : Calm(w, c) /\ Promised(w, c)
  BY DEF DirectInv, Safe
<1>2. "guest" \in Players /\ Shaped(w) /\ w.wire["guest"] \in Seq(Event)
  BY DEF Players, DirectInv, Safe, Wires
<1>3. PICK t : t = Tail(w.wire["guest"])
  OBVIOUS
<1>4. e \in Event /\ t \in Seq(Event) /\ Split(w.wire["guest"], e, t)
  BY <1>2, <1>3, HeadTail
<1>5. Wired(a, w, "guest", t)
  <2>1. a = [w EXCEPT !.wire["guest"] = t]
    BY <1>3
  <2> QED BY <1>2, <2>1, WireSet
<1>6. Shaped(a) /\ a.view = w.view
  BY <1>5 DEF Wired, But
<1>7. PICK v : v = Applied(w.view["guest"], "guest", e)
  OBVIOUS
<1>8. Viewed(u, a, "guest", v)
  <2>1. u = [a EXCEPT !.view["guest"] = v]
    BY <1>6, <1>7
  <2> QED BY <1>2, <1>6, <2>1, ViewSet
<1>9. Turns(w.view["guest"], e, v)
  <2>1. GuestPage(w.view["guest"])
    BY DEF DirectInv, Safe, GuestFits
  <2> QED BY <1>4, <1>7, <2>1, GuestHears
<1>10. /\ Shaped(u) /\ u.room = w.room /\ u.record = w.record /\ u.side = w.side
       /\ u.attempt = w.attempt /\ u.online = w.online /\ u.saved = w.saved
       /\ u.control = w.control /\ u.finalized = w.finalized /\ u.links = w.links
       /\ u.wire["guest"] = t /\ u.wire["host"] = w.wire["host"]
       /\ u.view["guest"] = v /\ u.view["host"] = w.view["host"]
  BY <1>5, <1>8, OthersAre DEF Wired, Viewed, But
<1>11. w.room.guest
  BY <1>2 DEF DirectInv, Safe, Records
<1>12. Wires(u)
  BY <1>4, <1>10 DEF DirectInv, Safe, Wires, EndOK, Up
<1>13. GuestFits(u)
  BY <1>9, <1>10 DEF GuestFits, Turns, Up
<1>14. (Live(u) <=> Live(w)) /\ (Asks(w) => Asks(u)) /\ (Recovers(u) => Recovers(w))
  <2>1. Types(w.wire["guest"]) = {e.type} \cup Types(t)
    BY <1>4, SplitTypes
  <2> QED BY <1>10, <2>1, OwedByType DEF Live, Linked, Up
<1>15. Records(u, stage)
  BY <1>10, <1>11, <1>14 DEF DirectInv, Safe, Records
<1>16. AllPassed(w.view["guest"], w.wire["guest"], w.room) => AllPassed(v, t, w.room)
  <2> SUFFICES ASSUME AllPassed(w.view["guest"], w.wire["guest"], w.room)
               PROVE  AllPassed(v, t, w.room)
    OBVIOUS
  <2>1. \A j \in DOMAIN t : t[j].type = "match" => Passed(t[j].match, w.room.match)
    BY <1>4 DEF AllPassed, Split
  <2>2. e.type = "match" => Passed(e.match, w.room.match)
    BY <1>4 DEF AllPassed, Split
  <2>3. Passed(v.match, w.room.match)
    <3>1. w.room.match \in Match \cup {None}
      BY <1>1, RoomIs DEF Calm
    <3>2. GuestPage(w.view["guest"]) /\ Passed(w.view["guest"].match, w.room.match)
      BY DEF DirectInv, Safe, GuestFits, AllPassed
    <3>3. Picture(v) = PictureAfter(Picture(w.view["guest"]), e)
      BY <1>9 DEF Turns
    <3> QED BY ONLY <1>4, <2>2, <3>1, <3>2, <3>3, PicturePassed
  <2> QED BY <2>1, <2>3 DEF AllPassed, Split
<1>17. Calm(u, c)
  <2>1. Ends(Picture(w.view["guest"]), w.wire["guest"], c)
    BY <1>1 DEF Calm
  <2>2. Ends(PictureAfter(Picture(w.view["guest"]), e), t, c)
    BY <1>2, <1>3, <2>1, EndsTail
  <2>3. PictureAfter(Picture(w.view["guest"]), e) = Picture(v)
    BY <1>9 DEF Turns
  <2> QED BY <1>1, <1>4, <1>10, <1>14, <1>16, <2>2, <2>3 DEF Calm
<1>18. Promised(u, c)
  BY <1>1, <1>10, <1>14 DEF Promised
<1>19. Owed(u)
  <2>1. /\ MoveOwed(w) => MoveOwed(u) \/ AnswersMove(e)
        /\ TextOwed(w) => TextOwed(u) \/ AnswersText(e)
    <3>1. /\ (\E i \in DOMAIN w.wire["guest"] : AnswersMove(w.wire["guest"][i])) =>
                AnswersMove(e) \/ \E j \in DOMAIN t : AnswersMove(t[j])
          /\ (\E i \in DOMAIN w.wire["guest"] : AnswersText(w.wire["guest"][i])) =>
                AnswersText(e) \/ \E j \in DOMAIN t : AnswersText(t[j])
      BY <1>4, SplitTypes
    <3> QED BY <1>10, <3>1, OwedByType
  <2> QED BY <1>9, <1>10, <1>14, <2>1 DEF DirectInv, Safe, Owed, Turns
<1>20. HostFree(u)
  BY <1>10 DEF DirectInv, HostFree
<1>21. Backs(w, u)
  BY <1>10, <1>14, <1>16 DEF Backs, Recoverable, Backed, Trails, Present
<1> QED BY <1>10, <1>11, <1>12, <1>13, <1>15, <1>17, <1>18, <1>19, <1>20, <1>21
    DEF DirectInv, Safe

-----------------------------------------------------------------------------
\* Pages that leave their link.

\* What the host's page waits for, and its attempt, hold on to.
LEMMA FreeStays ==
    ASSUME NEW w, HostFree(w), NEW u, u.view["host"] = w.view["host"],
           u.side["host"].state = "dead" => u.attempt["host"] = "none"
    PROVE  HostFree(u)
  BY DEF HostFree

\* An attempt, or whether the page shows a connection, changes.
LEMMA AttemptKeeps ==
    ASSUME NEW w, NEW stage, DirectInv(w, stage), NEW u, But(u, w, {"attempt", "online"}),
           u.online \in BOOLEAN,
           \A p \in Players : u.attempt[p] \in {"none", "restoring", "running", "retry"},
           ~w.room.guest => \A p \in Players : u.attempt[p] = "none",
           w.side["host"].state = "dead" => u.attempt["host"] = "none"
    PROVE  DirectInv(u, stage) /\ Backs(w, u)
<1>1. /\ Shaped(u) /\ u.room = w.room /\ u.record = w.record /\ u.side = w.side
      /\ u.wire = w.wire /\ u.view = w.view /\ u.control = w.control
      /\ u.saved = w.saved /\ u.finalized = w.finalized /\ u.links = w.links
  BY DEF But
<1>2. PICK c : Calm(w, c) /\ Promised(w, c)
  BY DEF DirectInv, Safe
<1>3. Wires(u) /\ GuestFits(u)
  BY <1>1 DEF DirectInv, Safe, Wires, EndOK, GuestFits
<1>4. (Live(u) <=> Live(w)) /\ (Asks(u) <=> Asks(w)) /\ (Recovers(u) <=> Recovers(w))
  BY <1>1 DEF Live, Linked, Asks, Recovers
<1>5. Calm(u, c) /\ Promised(u, c)
  BY <1>1, <1>2, <1>4 DEF Calm, Promised
<1>6. Owed(u)
  <2>1. (MoveOwed(u) <=> MoveOwed(w)) /\ (TextOwed(u) <=> TextOwed(w))
    BY <1>1 DEF MoveOwed, TextOwed
  <2> QED BY <1>1, <1>4, <2>1 DEF DirectInv, Safe, Owed
<1>7. Records(u, stage)
  BY <1>1, <1>4 DEF DirectInv, Safe, Records
<1>8. HostFree(u)
  BY <1>1 DEF DirectInv, HostFree
<1>9. But(u, w, {"side", "wire", "view", "attempt", "online", "finalized", "links"})
  BY DEF But
<1>10. Backs(w, u)
  BY ONLY <1>1, <1>9, ButBacks
<1> QED BY <1>1, <1>3, <1>5, <1>6, <1>7, <1>8, <1>10 DEF DirectInv, Safe

\* The guest's page leaves its link, and shows no other match.
LEMMA GuestGoneBacks ==
    ASSUME NEW w, NEW state, NEW u, Leaves(w, "guest", u, state),
           u.view["guest"].match \in {w.view["guest"].match, None}
    PROVE  Backs(w, u)
<1>1. But(u, w, {"side", "wire", "view", "attempt", "online", "finalized", "links"})
  BY DEF Leaves, Alone, But
<1>2. u.view["host"] = w.view["host"] /\ u.side["host"] = w.side["host"]
  BY OthersAre DEF Leaves, Alone
<1>3. u.wire["guest"] \in {w.wire["guest"], <<>>}
  BY DEF Leaves
<1>4. /\ u.view["guest"].match \in {w.view["guest"].match, None}
      /\ u.view["host"].session <=> w.view["host"].session
      /\ w.side["host"].state = "dead" => u.side["host"].state = "dead"
  BY <1>2
<1> QED BY ONLY <1>1, <1>3, <1>4, ButBacks

\* The guest's page returns to the room.
LEMMA GuestReturnsKeeps ==
    ASSUME NEW w, NEW stage, DirectInv(w, stage), w.room.guest, NEW u, u = GuestReturns(w)
    PROVE  DirectInv(u, stage) /\ u.room.guest /\ Backs(w, u)
<1>1. Shaped(w) /\ Safe(w, stage) /\ "guest" \in Players
  BY DEF DirectInv, Safe, Players
<1>2. PICK yes : yes = TRUE
  OBVIOUS
<1>3. /\ Leaves(w, "guest", u, "new") /\ u.view["guest"] = [NoView EXCEPT !.returning = yes]
      /\ u.attempt["guest"] = "running" /\ u.online = w.online
  BY <1>1, <1>2, GuestReturnsIs
<1>4. PICK v : v = [NoView EXCEPT !.returning = yes]
  OBVIOUS
<1>5. /\ Formed(v) /\ ~v.session /\ v.returning = yes /\ ~v.moving
      /\ v.session \in BOOLEAN /\ v.moving \in BOOLEAN
      /\ v.match = None /\ v.chat = <<>> /\ v.draft = None /\ v.pending = None
  BY <1>4, Empty
<1>6. v \in View
  <2>1. /\ v.returning \in BOOLEAN /\ v.match \in Match \cup {None} /\ v.chat \in Seq(Message)
        /\ v.draft \in Texts \cup {None} /\ v.pending \in Texts \cup {None}
    BY <1>2, <1>5
  <2> QED BY <1>5, <2>1, ViewFormed
<1>7. GuestPage(v)
  BY <1>5, <1>6 DEF GuestPage
<1>8. stage \notin Early
  BY DEF DirectInv, Safe, Records, Early
<1>9. u.view["guest"] = v
  BY <1>3, <1>4
<1>10. /\ u.view["guest"].returning /\ ~u.view["guest"].session /\ ~u.view["guest"].moving
       /\ u.view["guest"].match = None /\ u.view["guest"].chat = <<>>
       /\ GuestPage(u.view["guest"])
  BY <1>2, <1>5, <1>7, <1>9
<1>11. u.online \in BOOLEAN /\ u.attempt["guest"] \in {"none", "restoring", "running", "retry"}
  BY <1>3 DEF DirectInv, Safe, Records
<1>12. Safe(u, stage)
  <2>1. "guest" # "host" /\ "new" \in {"new", "lost", "dead"}
    OBVIOUS
  <2>2. w.room.guest
    OBVIOUS
  <2> QED BY ONLY <1>1, <1>3, <1>8, <1>10, <1>11, <2>1, <2>2, LeavesKeeps
<1>13. u.view["host"] = w.view["host"] /\ u.side["host"] = w.side["host"]
       /\ u.attempt["host"] = w.attempt["host"] /\ u.room = w.room
  BY <1>3, OthersAre DEF Leaves, Alone, But
<1>14. HostFree(u)
  BY <1>13 DEF DirectInv, HostFree
<1>15. u.view["guest"].match \in {w.view["guest"].match, None}
  BY <1>10
<1>16. Backs(w, u)
  BY ONLY <1>3, <1>15, GuestGoneBacks
<1> QED BY <1>12, <1>13, <1>14, <1>16 DEF DirectInv

\* The guest's page gives up, or its peer is gone.
LEMMA GuestDies ==
    ASSUME NEW w, NEW stage, DirectInv(w, stage), NEW u, u = Dead(w, "guest")
    PROVE  DirectInv(u, stage) /\ u.room = w.room /\ Backs(w, u)
<1>1. Shaped(w) /\ Safe(w, stage) /\ "guest" \in Players /\ GuestPage(w.view["guest"])
  BY DEF DirectInv, Safe, Players, GuestFits
<1>2. /\ Leaves(w, "guest", u, "dead") /\ u.view["guest"] = Freed(w.view["guest"], FALSE)
      /\ u.attempt["guest"] = "none" /\ u.online = w.online
  BY <1>1, DeadIs
<1>3. PICK v : v = Freed(w.view["guest"], FALSE)
  OBVIOUS
<1>4. w.view["guest"] \in View /\ Formed(w.view["guest"])
  BY <1>1, ViewFormed DEF GuestPage
<1>5. /\ Formed(v) /\ v.session = w.view["guest"].session /\ v.match = w.view["guest"].match
      /\ v.chat = w.view["guest"].chat /\ v.draft = w.view["guest"].draft
      /\ v.pending = w.view["guest"].pending /\ v.moving = FALSE
      /\ v.returning = w.view["guest"].returning
  BY <1>3, <1>4, ViewWith DEF Freed, Formed
<1>6. v \in View
  BY <1>4, <1>5, ViewFormed
<1>7. GuestPage(v) /\ ~v.moving /\ v.chat = w.view["guest"].chat
  BY <1>1, <1>5, <1>6 DEF GuestPage
<1>8. ~w.room.guest => v = NoView
  <2>1. Freed(NoView, FALSE) = NoView
    <3>1. NoView.moving = FALSE /\ Formed(NoView)
      BY DEF NoView, Formed
    <3>2. PICK n : n = NoView
      OBVIOUS
    <3>3. Formed(n) /\ n.moving = FALSE
      BY <3>1, <3>2
    <3>4. PICK no : no = n.moving
      OBVIOUS
    <3>5. [n EXCEPT !.moving = no] = n
      BY ONLY <3>3, <3>4 DEF Formed
    <3> QED BY <3>2, <3>3, <3>4, <3>5 DEF Freed
  <2> QED BY <1>3, <2>1 DEF DirectInv, Safe, Records
<1>9. u.view["guest"] = v
  BY <1>2, <1>3
<1>10. /\ GuestPage(u.view["guest"]) /\ ~u.view["guest"].moving
       /\ u.view["guest"].chat \in {<<>>, w.view["guest"].chat}
       /\ ~w.room.guest => u.view["guest"] = NoView
  BY <1>7, <1>8, <1>9
<1>11. u.online \in BOOLEAN /\ u.attempt["guest"] \in {"none", "restoring", "running", "retry"}
  BY <1>2 DEF DirectInv, Safe, Records
<1>12. Safe(u, stage)
  <2>1. /\ "guest" # "host" /\ "dead" \in {"new", "lost", "dead"} /\ "dead" # "new"
        /\ (stage \in Early => "dead" = IF "guest" = "host" THEN "new" ELSE "dead")
    OBVIOUS
  <2> QED BY ONLY <1>1, <1>2, <1>10, <1>11, <2>1, LeavesKeeps
<1>13. u.view["host"] = w.view["host"] /\ u.side["host"] = w.side["host"]
       /\ u.attempt["host"] = w.attempt["host"] /\ u.room = w.room
  BY <1>2, OthersAre DEF Leaves, Alone, But
<1>14. HostFree(u)
  BY <1>13 DEF DirectInv, HostFree
<1>15. u.view["guest"].match \in {w.view["guest"].match, None}
  BY <1>5, <1>9
<1>16. Backs(w, u)
  BY ONLY <1>2, <1>15, GuestGoneBacks
<1> QED BY <1>12, <1>13, <1>14, <1>16 DEF DirectInv

\* The guest's channel breaks: it comes back with its ticket, or gives up.
LEMMA GuestLoses ==
    ASSUME NEW w, NEW stage, DirectInv(w, stage), NEW u, u = GuestLosesPeer(w)
    PROVE  DirectInv(u, stage) /\ u.room.guest = w.room.guest /\ Backs(w, u)
<1>1. CASE w.saved /\ w.view["guest"].session /\ w.attempt["guest"] = "none"
  <2>1. u = GuestReturns(w)
    BY <1>1 DEF GuestLosesPeer
  <2>2. w.room.guest
    <3>1. PICK c : Calm(w, c)
      BY DEF DirectInv, Safe
    <3> QED BY <1>1, <3>1 DEF DirectInv, Safe, Records, Calm
  <2>3. DirectInv(u, stage) /\ u.room.guest /\ Backs(w, u)
    BY <2>1, <2>2, GuestReturnsKeeps
  <2> QED BY <2>2, <2>3
<1>2. CASE ~(w.saved /\ w.view["guest"].session /\ w.attempt["guest"] = "none")
  <2>1. u = Dead(w, "guest")
    BY <1>2 DEF GuestLosesPeer
  <2> QED BY <2>1, GuestDies
<1> QED BY <1>1, <1>2

\* The host's peer is lost, and none is made.
LEMMA LostIs ==
    ASSUME NEW w, Shaped(w), NEW u,
           u = [w EXCEPT !.side["host"] = [state |-> "lost", link |-> 0], !.wire["host"] = <<>>]
    PROVE  Leaves(w, "host", u, "lost") /\ But(u, w, {"side", "wire"})
<1>0. "host" \in Players
  BY DEF Players
<1>1. PICK a : a = [w EXCEPT !.side["host"] = [state |-> "lost", link |-> 0]]
  OBVIOUS
<1>2. u = [a EXCEPT !.wire["host"] = <<>>]
  BY <1>1
<1>3. Sided(a, w, "host", [state |-> "lost", link |-> 0])
  BY <1>0, <1>1, SideSet
<1>4. Shaped(a)
  BY <1>3 DEF Sided, But
<1>5. Wired(u, a, "host", <<>>)
  BY <1>0, <1>2, <1>4, WireSet
<1> QED BY <1>3, <1>5 DEF Leaves, Alone, But, Sided, Wired

\* The host leaves its link, or makes another peer.
LEMMA HostLeaves ==
    ASSUME NEW w, NEW stage, Safe(w, stage), NEW state \in {"new", "lost", "dead"}, NEW u,
           Leaves(w, "host", u, state), stage \notin Early,
           HostPage(u.view["host"], w.room), ~w.room.guest => u.view["host"].session,
           u.online \in BOOLEAN, u.attempt["host"] \in {"none", "restoring", "running", "retry"},
           ~w.room.guest => u.attempt["host"] = "none"
    PROVE  Safe(u, stage) /\ u.room = w.room
<1>1. "host" \in Players /\ "host" # "guest"
  BY DEF Players
<1>2. Safe(u, stage)
  BY <1>1, LeavesKeeps
<1>3. u.room = w.room
  BY DEF Leaves, Alone, But
<1> QED BY <1>2, <1>3

\* The host leaves its link, its page staying where it is.
LEMMA HostGoneBacks ==
    ASSUME NEW w, NEW state, NEW u, Leaves(w, "host", u, state),
           u.view["host"].session <=> w.view["host"].session,
           w.side["host"].state = "dead" => state = "dead"
    PROVE  Backs(w, u)
<1>1. But(u, w, {"side", "wire", "view", "attempt", "online", "finalized", "links"})
  BY DEF Leaves, Alone, But
<1>2. u.view["guest"] = w.view["guest"] /\ u.wire["guest"] = w.wire["guest"]
  BY OthersAre DEF Leaves, Alone
<1>3. u.wire["guest"] \in {w.wire["guest"], <<>>}
  BY <1>2
<1>4. /\ u.view["guest"].match \in {w.view["guest"].match, None}
      /\ u.view["host"].session <=> w.view["host"].session
  BY <1>2
<1>5. w.side["host"].state = "dead" => u.side["host"].state = "dead"
  BY DEF Leaves
<1> QED BY ONLY <1>1, <1>3, <1>4, <1>5, ButBacks

\* The host's page no longer shows a connection.
SwitchedOff(w) == [w EXCEPT !.online = FALSE, !.view["host"].moving = FALSE]
\* That is written down, and keeps the invariant.
LEMMA GoesOffline ==
    ASSUME NEW w, NEW stage, DirectInv(w, stage), NEW d,
           d = SwitchedOff(w), NEW u, u = Persisted(d)
    PROVE  /\ DirectInv(u, stage) /\ u.room = w.room /\ u.side = w.side
           /\ u.attempt = w.attempt /\ Backs(w, u)
           /\ u.view["host"].session <=> w.view["host"].session
<1>1. Shaped(w) /\ Safe(w, stage) /\ "host" \in Players /\ HostPage(w.view["host"], w.room)
  BY DEF DirectInv, Safe, Players, Calm
<1>2. PICK off : off = FALSE
  OBVIOUS
<1>3. PICK b : b = [w EXCEPT !.online = off]
  OBVIOUS
<1>4. But(b, w, {"online"}) /\ b.online = off
  BY <1>1, <1>3, FieldSet
<1>5. PICK v : v = Freed(b.view["host"], FALSE)
  OBVIOUS
<1>6. d = [b EXCEPT !.view["host"] = v]
  <2>1. d = [b EXCEPT !.view["host"].moving = FALSE]
    BY <1>2, <1>3 DEF SwitchedOff
  <2>2. [b EXCEPT !.view["host"].moving = FALSE]
            = [b EXCEPT !.view["host"] = Freed(b.view["host"], FALSE)]
    BY ONLY DEF Freed
  <2> QED BY <1>5, <2>1, <2>2
<1>7. b.view = w.view /\ Shaped(b)
  BY <1>4 DEF But
<1>8. HostPage(v, w.room) /\ ~v.moving /\ v.pending = w.view["host"].pending
      /\ v.session = w.view["host"].session
  BY <1>1, <1>5, <1>7, FreedIs
<1>9. Viewed(d, b, "host", v)
  BY <1>1, <1>6, <1>7, ViewSet
<1>10. /\ But(d, w, {"view", "online"}) /\ d.view["guest"] = w.view["guest"]
       /\ d.view["host"] = v /\ d.online = off
  BY <1>4, <1>7, <1>9, OthersAre DEF Viewed, But
<1>11. Safe(d, stage)
  <2>1. /\ HostPage(d.view["host"], w.room) /\ d.online \in BOOLEAN
        /\ ~w.room.guest => d.view["host"].session
    BY <1>2, <1>8, <1>10 DEF DirectInv, Safe, Records
  <2> QED BY ONLY <1>1, <1>10, <2>1, HostPageKeeps
<1>12. Safe(u, stage) /\ But(u, d, {"record"})
  BY <1>11, PersistKeeps
<1>13. u.room = w.room /\ u.side = w.side /\ u.attempt = w.attempt /\ u.view["host"] = v
  BY <1>10, <1>12 DEF But
<1>14. HostFree(u)
  BY <1>8, <1>13 DEF DirectInv, HostFree
<1>15. Backs(w, d)
  <2>1. But(d, w, {"side", "wire", "view", "attempt", "online", "finalized", "links"})
        /\ d.wire = w.wire /\ d.side = w.side
    BY <1>10 DEF But
  <2>2. /\ d.wire["guest"] \in {w.wire["guest"], <<>>}
        /\ d.view["guest"].match \in {w.view["guest"].match, None}
        /\ d.view["host"].session <=> w.view["host"].session
        /\ w.side["host"].state = "dead" => d.side["host"].state = "dead"
    BY <1>8, <1>10, <2>1
  <2> QED BY ONLY <2>1, <2>2, ButBacks
<1>16. Backs(d, u)
  <2>1. Steady(d, u)
    BY <1>11, PersistBacks
  <2>2. Present(d) => Present(u) \/ u.online
    BY <1>12 DEF But, Present
  <2> QED BY ONLY <2>1, <2>2, SteadyHolds
<1>17. u.view["host"].session <=> w.view["host"].session
  BY <1>8, <1>13
<1>18. Backs(w, u)
  <2>1. Present(w) => Present(d)
    BY <1>8, <1>10 DEF But, Present
  <2> QED BY ONLY <1>15, <1>16, <2>1, BacksTwice
<1> QED BY <1>12, <1>13, <1>14, <1>17, <1>18 DEF DirectInv

\* The channel of the host breaks.
LEMMA HostLoses ==
    ASSUME NEW w, NEW stage, DirectInv(w, stage), w.ok,
           w.side["host"].state \in {"opening", "closing"}, NEW u, u = HostLosesPeer(w)
    PROVE  DirectInv(u, stage) /\ u.room.guest = w.room.guest /\ Backs(w, u)
<1>1. PICK gone : gone = DisconnectGuest(w)
  OBVIOUS
<1>2. /\ DirectInv(gone, stage) /\ Aside(gone, w) /\ gone.room.guest = w.room.guest
      /\ w.view["host"].session => gone.view["host"].session /\ Backs(w, gone)
  <2>1. w.side["host"].state # "open"
    OBVIOUS
  <2> QED BY <1>1, <2>1, DisconnectKeeps
<1>3. PICK away : away = IF ~w.online THEN gone
                         ELSE Persisted([gone EXCEPT !.online = FALSE,
                                                     !.view["host"].moving = FALSE])
  OBVIOUS
<1>4. /\ DirectInv(away, stage) /\ away.room = gone.room /\ away.side = w.side
      /\ away.attempt = w.attempt /\ Backs(gone, away)
      /\ away.view["host"].session <=> gone.view["host"].session
  <2>1. CASE ~w.online
    <3>1. away = gone
      BY <1>3, <2>1
    <3>2. Backs(gone, away)
      BY ONLY <3>1 DEF Backs, Recoverable
    <3> QED BY <1>2, <3>1, <3>2 DEF Aside
  <2>2. CASE w.online
    <3>1. PICK d : d = SwitchedOff(gone)
      OBVIOUS
    <3>2. away = Persisted(d)
      BY <1>3, <2>2, <3>1 DEF SwitchedOff
    <3>3. /\ DirectInv(away, stage) /\ away.room = gone.room /\ away.side = gone.side
          /\ away.attempt = gone.attempt /\ Backs(gone, away)
          /\ away.view["host"].session <=> gone.view["host"].session
      <4>1. DirectInv(gone, stage)
        BY <1>2
      <4> QED BY ONLY <3>1, <3>2, <4>1, GoesOffline
    <3> QED BY <1>2, <3>3 DEF Aside
  <2> QED BY <2>1, <2>2
<1>5. /\ Safe(away, stage) /\ Shaped(away) /\ HostPage(away.view["host"], away.room)
      /\ stage \notin Early
      /\ ~away.room.guest => away.view["host"].session /\ away.attempt["host"] = "none"
      /\ away.online \in BOOLEAN
      /\ away.attempt["host"] \in {"none", "restoring", "running", "retry"}
  BY <1>4 DEF DirectInv, Safe, Calm, Records, Players
<1>6. w.view["host"].session => away.view["host"].session /\ Backs(w, away)
  <2> SUFFICES ASSUME w.view["host"].session
               PROVE  away.view["host"].session /\ Backs(w, away)
    OBVIOUS
  <2>1. gone.view["host"].session /\ Backs(w, gone) /\ Backs(gone, away)
        /\ away.view["host"].session
    BY <1>2, <1>4
  <2>2. Present(w) => Present(gone)
    BY <2>1 DEF Present
  <2>3. Backs(w, away)
    BY ONLY <2>1, <2>2, BacksTwice
  <2> QED BY <2>1, <2>3
<1>7. ASSUME Backs(away, u) PROVE Backs(w, u)
  <2>1. CASE w.view["host"].session
    <3>1. Present(w) => Present(away)
      BY <1>6, <2>1 DEF Present
    <3>2. Backs(w, away) /\ Backs(away, u)
      BY <1>6, <1>7, <2>1
    <3> QED BY ONLY <3>1, <3>2, BacksTwice
  <2>2. CASE ~w.view["host"].session
    BY <2>2 DEF Backs, Recoverable, Present
  <2> QED BY <2>1, <2>2
<1>8. away.side["host"].state # "dead"
  BY <1>4
<1>9. CASE w.control # "none" /\ w.room.guest /\ ~Busy
  <2>1. u = ReplacePeer(away)
    BY <1>1, <1>3, <1>9 DEF HostLosesPeer
  <2>2. Leaves(away, "host", u, "new") /\ u.view = away.view /\ u.online = away.online
        /\ u.attempt["host"] = "running"
    BY <1>5, <2>1, ReplacePeerIs
  <2>3. Safe(u, stage) /\ u.room = away.room
    <3>1. /\ HostPage(u.view["host"], away.room) /\ u.online \in BOOLEAN
          /\ ~away.room.guest => u.view["host"].session /\ u.attempt["host"] = "none"
          /\ u.attempt["host"] \in {"none", "restoring", "running", "retry"}
      BY <1>2, <1>4, <1>5, <1>9, <2>2
    <3>2. "new" \in {"new", "lost", "dead"}
      OBVIOUS
    <3> QED BY ONLY <1>5, <2>2, <3>1, <3>2, HostLeaves
  <2>4. HostFree(u)
    BY <1>4, <2>2 DEF DirectInv, HostFree, Leaves
  <2>5. Backs(away, u)
    <3>1. u.view["host"].session <=> away.view["host"].session
      BY <2>2
    <3> QED BY ONLY <1>8, <2>2, <3>1, HostGoneBacks
  <2> QED BY <1>2, <1>4, <1>7, <2>3, <2>4, <2>5 DEF DirectInv
<1>10. CASE ~(w.control # "none" /\ w.room.guest /\ ~Busy)
  <2>1. u = [away EXCEPT !.side["host"] = [state |-> "lost", link |-> 0], !.wire["host"] = <<>>]
    BY <1>1, <1>3, <1>10 DEF HostLosesPeer
  <2>2. Leaves(away, "host", u, "lost") /\ But(u, away, {"side", "wire"})
    BY <1>5, <2>1, LostIs
  <2>3. Safe(u, stage) /\ u.room = away.room
    <3>1. /\ HostPage(u.view["host"], away.room) /\ u.online \in BOOLEAN
          /\ ~away.room.guest => u.view["host"].session /\ u.attempt["host"] = "none"
          /\ u.attempt["host"] \in {"none", "restoring", "running", "retry"}
      BY <1>5, <2>2 DEF But
    <3>2. "lost" \in {"new", "lost", "dead"}
      OBVIOUS
    <3> QED BY ONLY <1>5, <2>2, <3>1, <3>2, HostLeaves
  <2>4. HostFree(u)
    BY <1>4, <2>2 DEF DirectInv, HostFree, Leaves, But
  <2>5. Backs(away, u)
    <3>1. u.view["host"].session <=> away.view["host"].session
      BY <2>2 DEF But
    <3> QED BY ONLY <1>8, <2>2, <3>1, HostGoneBacks
  <2> QED BY <1>2, <1>4, <1>7, <2>3, <2>4, <2>5 DEF DirectInv
<1> QED BY <1>9, <1>10

\* The host's peer is gone.
LEMMA HostDies ==
    ASSUME NEW w, NEW stage, DirectInv(w, stage), stage \notin Early, NEW u, u = Dead(w, "host")
    PROVE  /\ DirectInv(u, stage) /\ u.room = w.room /\ Backs(w, u)
           /\ u.side["host"].state = "dead"
<1>1. Shaped(w) /\ Safe(w, stage) /\ "host" \in Players /\ HostPage(w.view["host"], w.room)
  BY DEF DirectInv, Safe, Players, Calm
<1>2. /\ Leaves(w, "host", u, "dead") /\ u.view["host"] = Freed(w.view["host"], FALSE)
      /\ u.attempt["host"] = "none" /\ u.online = w.online
  BY <1>1, DeadIs
<1>3. PICK v : v = Freed(w.view["host"], FALSE)
  OBVIOUS
<1>4. HostPage(v, w.room) /\ ~v.moving /\ v.pending = w.view["host"].pending
      /\ v.session = w.view["host"].session
  BY <1>1, <1>3, FreedIs
<1>5. /\ HostPage(u.view["host"], w.room) /\ ~w.room.guest => u.view["host"].session
      /\ u.online \in BOOLEAN /\ u.attempt["host"] \in {"none", "restoring", "running", "retry"}
      /\ ~w.room.guest => u.attempt["host"] = "none"
  BY <1>2, <1>3, <1>4 DEF DirectInv, Safe, Records
<1>6. Safe(u, stage) /\ u.room = w.room
  <2>1. "dead" \in {"new", "lost", "dead"} /\ stage \notin Early
    OBVIOUS
  <2>2. HostPage(u.view["host"], w.room) /\ (~w.room.guest => u.view["host"].session)
    BY <1>2, <1>3, <1>4 DEF DirectInv, Safe, Records
  <2>3. u.online \in BOOLEAN /\ u.attempt["host"] \in {"none", "restoring", "running", "retry"}
    BY <1>2 DEF DirectInv, Safe, Records
  <2>4. ~w.room.guest => u.attempt["host"] = "none"
    BY <1>2
  <2> QED BY ONLY <1>1, <1>2, <2>1, <2>2, <2>3, <2>4, HostLeaves
<1>7. HostFree(u)
  BY <1>2, <1>3, <1>4 DEF DirectInv, HostFree
<1>8. Backs(w, u)
  <2>1. u.view["host"].session <=> w.view["host"].session
    BY <1>2, <1>3, <1>4
  <2>2. w.side["host"].state = "dead" => "dead" = "dead"
    OBVIOUS
  <2> QED BY ONLY <1>2, <2>1, <2>2, HostGoneBacks
<1> QED BY <1>2, <1>6, <1>7, <1>8 DEF DirectInv, Leaves

\* The page shows no connection.
LEMMA ShowsOffline ==
    ASSUME NEW w, NEW stage, DirectInv(w, stage), NEW u, u = [w EXCEPT !.online = FALSE]
    PROVE  DirectInv(u, stage) /\ u.room = w.room /\ But(u, w, {"online"}) /\ Backs(w, u)
<1>1. Shaped(w)
  BY DEF DirectInv, Safe
<1>2. PICK off : off = FALSE
  OBVIOUS
<1>3. But(u, w, {"online"}) /\ u.online = off
  <2>1. u = [w EXCEPT !.online = off]
    BY <1>2
  <2> QED BY ONLY <1>1, <2>1 DEF Shaped, But
<1>4. But(u, w, {"attempt", "online"}) /\ u.attempt = w.attempt /\ u.online \in BOOLEAN
  BY <1>2, <1>3 DEF But
<1>5. DirectInv(u, stage) /\ Backs(w, u)
  <2>1. /\ \A p \in Players : u.attempt[p] \in {"none", "restoring", "running", "retry"}
        /\ ~w.room.guest => \A p \in Players : u.attempt[p] = "none"
        /\ w.side["host"].state = "dead" => u.attempt["host"] = "none"
    BY <1>4 DEF DirectInv, Safe, Records, HostFree
  <2> QED BY <1>4, <2>1, AttemptKeeps
<1> QED BY <1>3, <1>5 DEF But

\* The host's setup fails, or its attempt to come back after a reload.
LEMMA HostGivesUp ==
    ASSUME NEW w, NEW stage, DirectInv(w, stage), stage \notin Early, NEW d, d = Dead(w, "host"),
           NEW u, u = [d EXCEPT !.online = FALSE]
    PROVE  /\ DirectInv(u, stage) /\ u.room = w.room /\ u.side = d.side /\ u.view = d.view
           /\ Backs(w, u)
<1>1. DirectInv(d, stage) /\ d.room = w.room /\ Backs(w, d) /\ d.side["host"].state = "dead"
  BY HostDies
<1>2. DirectInv(u, stage) /\ u.room = d.room /\ But(u, d, {"online"}) /\ Backs(d, u)
  BY <1>1, ShowsOffline
<1>3. Backs(w, u)
  <2>1. Present(w) => Present(d)
    BY <1>1 DEF Present
  <2> QED BY ONLY <1>1, <1>2, <2>1, BacksTwice
<1> QED BY <1>1, <1>2, <1>3 DEF But

\* The host's attempt to come back after a reload fails.
Unrestored(w) == [Dead(w, "host") EXCEPT !.view["host"] = NoView, !.online = FALSE]
\* The page is out of its room, with no peer.
LEMMA RestoreFails ==
    ASSUME NEW w, NEW stage, DirectInv(w, stage), w.attempt["host"] # "none",
           NEW u, u = Unrestored(w)
    PROVE  DirectInv(u, stage) /\ u.room = w.room /\ w.room.guest /\ Backs(w, u)
<1>a. PICK d : d = Dead(w, "host")
  OBVIOUS
<1>b. PICK x : x = [d EXCEPT !.view["host"] = NoView]
  OBVIOUS
<1>c. u = [x EXCEPT !.online = FALSE]
  BY <1>a, <1>b DEF Unrestored
<1>1. w.room.guest /\ stage \notin Early /\ "host" \in Players
  BY DEF DirectInv, Safe, Records, Players, Early
<1>2. DirectInv(d, stage) /\ d.room = w.room /\ Backs(w, d) /\ d.side["host"].state = "dead"
  BY <1>1, <1>a, HostDies
<1>3. Viewed(x, d, "host", NoView)
  <2>1. Shaped(d)
    BY <1>2 DEF DirectInv, Safe
  <2> QED BY <1>1, <1>b, <2>1, ViewSet
<1>4. Safe(x, stage)
  <2>1. HostPage(NoView, d.room)
    <3>1. NoView \in View
      <4>1. <<>> \in Seq(Message)
        OBVIOUS
      <4> QED BY <4>1 DEF NoView, View
    <3>2. /\ NoView.session = FALSE /\ NoView.returning = FALSE /\ NoView.match = None
          /\ NoView.chat = <<>>
      BY DEF NoView
    <3>3. Rises(NoView.chat) /\ UpTo(NoView.chat, d.room.said)
      BY <3>2 DEF Rises, UpTo
    <3>4. Shows(NoView.match, d.room.match)
      BY <3>2 DEF Shows
    <3> QED BY <3>1, <3>2, <3>3, <3>4 DEF HostPage
  <2>2. But(x, d, {"view", "online"}) /\ x.view["guest"] = d.view["guest"] /\ x.online \in BOOLEAN
    BY <1>2, <1>3, OthersAre DEF Viewed, But, DirectInv, Safe, Records
  <2>3. HostPage(x.view["host"], d.room) /\ d.room.guest /\ Safe(d, stage)
    BY <1>1, <1>2, <1>3, <2>1 DEF Viewed, DirectInv
  <2> QED BY ONLY <2>2, <2>3, HostPageKeeps
<1>5. HostFree(x)
  <2>1. ~NoView.moving /\ NoView.pending = None
    BY DEF NoView
  <2> QED BY <1>2, <1>3, <2>1 DEF Viewed, But, HostFree, DirectInv
<1>6. DirectInv(x, stage)
  BY <1>4, <1>5 DEF DirectInv
<1>7. DirectInv(u, stage) /\ u.room = x.room /\ Backs(x, u)
  BY <1>6, <1>c, ShowsOffline
<1>8. Present(x) /\ Present(d)
  BY <1>2, <1>3 DEF Viewed, But, Present
<1>9. Backs(d, x)
  <2>1. But(x, d, {"side", "wire", "view", "attempt", "online", "finalized", "links"})
        /\ x.wire = d.wire /\ x.view["guest"] = d.view["guest"]
    BY <1>3, OthersAre DEF Viewed, But
  <2>2. /\ x.wire["guest"] \in {d.wire["guest"], <<>>}
        /\ x.view["guest"].match \in {d.view["guest"].match, None}
    BY <2>1
  <2>3. Steady(d, x)
    BY ONLY <2>1, <2>2, SteadyIs
  <2>4. Present(d) => Present(x) \/ x.online
    BY <1>8
  <2> QED BY ONLY <2>3, <2>4, SteadyHolds
<1>10. Backs(w, u)
  <2>1. Backs(w, x)
    <3>1. Present(w) => Present(d)
      BY <1>8
    <3>2. Backs(w, d)
      BY <1>2
    <3> QED BY ONLY <1>9, <3>1, <3>2, BacksTwice
  <2>2. Present(w) => Present(x)
    BY <1>8
  <2>3. Backs(x, u)
    BY <1>7
  <2> QED BY ONLY <2>1, <2>2, <2>3, BacksTwice
<1> QED BY <1>1, <1>2, <1>3, <1>7, <1>10 DEF Viewed, But

\* The page of a host who comes back to its record.
Returned(r) == [NoView EXCEPT !.session = TRUE, !.match = r.match, !.chat = r.chat]
\* It shows the record, whatever it showed before.
LEMMA ReturnedIs ==
    ASSUME NEW r, RoomOK(r), NEW v, v = Returned(r)
    PROVE  HostPage(v, r) /\ v.session /\ ~v.moving /\ v.pending = None
<1>1. v = [session |-> TRUE, match |-> r.match, chat |-> r.chat, draft |-> None,
           pending |-> None, moving |-> FALSE, returning |-> FALSE]
  BY DEF Returned, NoView
<1>2. r.match \in Match \cup {None} /\ r.chat \in Seq(Message)
  BY RoomIs
<1>3. v \in View
  BY <1>1, <1>2 DEF View
<1>4. Shows(r.match, r.match)
  BY <1>2 DEF Shows, Same
<1> QED BY <1>1, <1>3, <1>4 DEF HostPage, RoomOK

Restored(w, r) == [w EXCEPT !.room = r, !.view["host"] = Returned(r), !.control = "sent"]
\* What coming back to a record does, field by field.
LEMMA RestoredIs ==
    ASSUME NEW w, Shaped(w), NEW r, NEW u, u = Restored(w, r)
    PROVE  /\ But(u, w, {"room", "view", "control"}) /\ u.room = r /\ u.control = "sent"
           /\ u.view["host"] = Returned(r) /\ u.view["guest"] = w.view["guest"]
<1>1. PICK a : a = [w EXCEPT !.room = r]
  OBVIOUS
<1>2. PICK v : v = Returned(r)
  OBVIOUS
<1>3. PICK b : b = [a EXCEPT !.view["host"] = v]
  OBVIOUS
<1>4. u = [b EXCEPT !.control = "sent"]
  BY <1>1, <1>2, <1>3 DEF Restored
<1>5. But(a, w, {"room"}) /\ a.room = r
  BY <1>1 DEF Shaped, But
<1>6. Viewed(b, a, "host", v)
  <2>1. Shaped(a) /\ "host" \in Players
    BY <1>5 DEF But, Players
  <2> QED BY <1>3, <2>1, ViewSet
<1>7. But(u, b, {"control"}) /\ u.control = "sent"
  <2>1. Shaped(b)
    BY <1>6 DEF Viewed, But
  <2> QED BY ONLY <1>4, <2>1 DEF Shaped, But
<1> QED BY <1>2, <1>5, <1>6, <1>7, OthersAre DEF But, Viewed

-----------------------------------------------------------------------------
\* Reloads.

\* The host, on no link, goes back to its record.
LEMMA RoomBack ==
    ASSUME NEW f, NEW stage, Safe(f, stage), f.side["host"].link = 0, f.record # None,
           NEW a, But(a, f, {"room", "view", "control"}), a.room = f.record, a.control = "sent",
           a.view["guest"] = f.view["guest"], HostPage(a.view["host"], f.record)
    PROVE  Safe(a, stage)
<1>1. PICK c : Calm(f, c)
  BY DEF Safe
<1>2. /\ Shaped(a) /\ a.record = f.record /\ a.side = f.side /\ a.wire = f.wire
      /\ a.attempt = f.attempt /\ a.online = f.online /\ a.saved = f.saved
      /\ a.finalized = f.finalized /\ a.links = f.links
  BY DEF But
<1>3. RoomOK(f.record) /\ f.record.guest
  BY <1>1 DEF Calm
<1>4. f.room.guest /\ stage = "done"
  BY DEF Safe, Records
<1>5. ~Live(a)
  BY <1>2 DEF Live
<1>6. Calm(a, c)
  BY <1>1, <1>2, <1>3, <1>5 DEF Calm
<1>7. Promised(a, c) /\ Owed(a)
  BY <1>5 DEF Promised, Owed
<1>8. Wires(a) /\ GuestFits(a)
  BY <1>2 DEF Safe, Wires, EndOK, GuestFits
<1>9. Records(a, stage)
  BY <1>2, <1>3, <1>4 DEF Safe, Records, Early
<1> QED BY <1>2, <1>6, <1>7, <1>8, <1>9 DEF Safe

\* Both ways to the same peer.
LEMMA FreshRestored ==
    ASSUME NEW w, Shaped(w), NEW r, NEW d, d = Restored(w, r), NEW a, a = Fresh(d, "host"),
           NEW f, f = Fresh(w, "host")
    PROVE  /\ But(a, f, {"room", "view", "control"}) /\ a.room = r /\ a.control = "sent"
           /\ a.view["host"] = Returned(r) /\ a.view["guest"] = f.view["guest"]
           /\ a.side["host"] = [state |-> "new", link |-> 0]
<1>1. "host" \in Players /\ Other("host") = "guest"
  BY DEF Players, Other
<1>2. /\ But(d, w, {"room", "view", "control"}) /\ d.room = r /\ d.control = "sent"
      /\ d.view["host"] = Returned(r) /\ d.view["guest"] = w.view["guest"]
  BY RestoredIs
<1>3. Leaves(d, "host", a, "new") /\ But(a, d, {"side", "wire"})
  <2>1. Shaped(d)
    BY <1>2 DEF But
  <2> QED BY <1>1, <2>1, FreshIs
<1>4. Leaves(w, "host", f, "new") /\ But(f, w, {"side", "wire"})
  BY <1>1, FreshIs
<1>5. a.side["host"] = f.side["host"] /\ a.side["guest"] = f.side["guest"]
      /\ a.wire["host"] = f.wire["host"] /\ a.wire["guest"] = f.wire["guest"]
  BY <1>1, <1>2, <1>3, <1>4 DEF Leaves, Alone, But
<1>6. a.side = f.side /\ a.wire = f.wire
  <2>1. Shaped(a) /\ Shaped(f)
    BY <1>3, <1>4 DEF But
  <2>2. /\ a.side = [p \in Players |-> a.side[p]] /\ f.side = [p \in Players |-> f.side[p]]
        /\ a.wire = [p \in Players |-> a.wire[p]] /\ f.wire = [p \in Players |-> f.wire[p]]
    BY <2>1 DEF Shaped
  <2>3. \A p \in Players : a.side[p] = f.side[p] /\ a.wire[p] = f.wire[p]
    BY <1>5 DEF Players
  <2>4. [p \in Players |-> a.side[p]] = [p \in Players |-> f.side[p]]
    BY <2>3
  <2>5. [p \in Players |-> a.wire[p]] = [p \in Players |-> f.wire[p]]
    BY <2>3
  <2> QED BY <2>2, <2>4, <2>5
<1> QED BY <1>2, <1>3, <1>4, <1>6 DEF But, Leaves

\* The host reloads its page.
HostBack(w, r) == DisconnectGuest(Fresh(Restored(w, r), "host"))
\* The host is back in the room of its record, on a new peer.
LEMMA HostIsBack ==
    ASSUME NEW w, NEW stage, DirectInv(w, stage), w.ok, NEW r, r = w.record, r # None,
           NEW u, u = HostBack(w, r)
    PROVE  /\ DirectInv(u, stage) /\ w.room.guest /\ u.room.guest
           /\ u.side["host"].state = "new" /\ Backs(w, u) /\ u.view["host"].session
<1>1. PICK d : d = Restored(w, r)
  OBVIOUS
<1>2. PICK a : a = Fresh(d, "host")
  OBVIOUS
<1>3. PICK f : f = Fresh(w, "host")
  OBVIOUS
<1>4. Shaped(w) /\ Safe(w, stage) /\ HostPage(w.view["host"], w.room) /\ "host" \in Players
      /\ RoomOK(r) /\ r.guest
  BY DEF DirectInv, Safe, Calm, Players
<1>5. w.room.guest /\ stage \notin Early
  BY DEF DirectInv, Safe, Records, Early
<1>6. Leaves(w, "host", f, "new") /\ But(f, w, {"side", "wire"})
  BY <1>3, <1>4, FreshIs
<1>7. Safe(f, stage) /\ f.room = w.room
  <2>1. HostPage(f.view["host"], w.room) /\ (~w.room.guest => f.view["host"].session)
        /\ f.online \in BOOLEAN /\ f.attempt["host"] \in {"none", "restoring", "running", "retry"}
        /\ (~w.room.guest => f.attempt["host"] = "none") /\ "new" \in {"new", "lost", "dead"}
    <3>1. f.view = w.view /\ f.online = w.online /\ f.attempt = w.attempt
      BY <1>6 DEF But
    <3>2. w.online \in BOOLEAN /\ w.attempt["host"] \in {"none", "restoring", "running", "retry"}
      BY <1>4 DEF Safe, Records, Players
    <3> QED BY <1>4, <1>5, <3>1, <3>2
  <2> QED BY ONLY <1>4, <1>5, <1>6, <2>1, HostLeaves
<1>8. /\ But(a, f, {"room", "view", "control"}) /\ a.room = r /\ a.control = "sent"
      /\ a.view["host"] = Returned(r) /\ a.view["guest"] = f.view["guest"]
      /\ a.side["host"] = [state |-> "new", link |-> 0]
  BY <1>1, <1>2, <1>3, <1>4, FreshRestored
<1>9. f.record = r /\ f.side["host"].link = 0
  BY <1>6 DEF But, Leaves
<1>10. PICK v : v = Returned(r)
  OBVIOUS
<1>11. HostPage(v, r) /\ v.session /\ ~v.moving /\ v.pending = None
  BY <1>4, <1>10, ReturnedIs
<1>12. Safe(a, stage)
  <2>1. f.record # None /\ a.room = f.record /\ HostPage(a.view["host"], f.record)
    BY <1>8, <1>9, <1>10, <1>11
  <2> QED BY ONLY <1>7, <1>8, <1>9, <2>1, RoomBack
<1>13. HostFree(a)
  BY <1>8, <1>10, <1>11 DEF HostFree
<1>14. DirectInv(a, stage) /\ a.ok /\ a.side["host"].state # "open" /\ u = DisconnectGuest(a)
  <2>1. a.ok
    BY <1>6, <1>8 DEF But
  <2>2. a.side["host"].state # "open"
    BY <1>8
  <2>3. u = DisconnectGuest(a)
    BY <1>1, <1>2 DEF HostBack
  <2> QED BY <1>12, <1>13, <2>1, <2>2, <2>3 DEF DirectInv
<1>15. DirectInv(u, stage) /\ Aside(u, a) /\ u.room.guest = a.room.guest
  BY ONLY <1>14, DisconnectKeeps
<1>16. Backs(a, u) /\ u.view["host"].session
  <2>1. a.view["host"].session
    BY <1>8, <1>10, <1>11
  <2> QED BY ONLY <1>14, <2>1, DisconnectKeeps
<1>17. Backs(w, a)
  <2> SUFFICES ASSUME Backed(w), Trails(w) PROVE Backed(a) /\ Trails(a) /\ Present(a)
    BY DEF Backs, Recoverable
  <2>1. Present(a)
    BY <1>8, <1>10, <1>11 DEF Present
  <2>2. a.record = r /\ a.room = r /\ a.saved = w.saved /\ a.wire["guest"] = w.wire["guest"]
        /\ a.view["guest"] = w.view["guest"]
    BY <1>6, <1>8, <1>9, OthersAre DEF But, Leaves, Alone
  <2>3. Backed(a)
    BY <1>4, <2>2, RoomIs DEF Backed, Agree, Same
  <2>4. ASSUME a.saved \/ Recovers(a) PROVE AllPassed(a.view["guest"], a.wire["guest"], a.room)
    <3>1. w.saved \/ Recovers(w)
      BY <2>2, <2>4 DEF Recovers
    <3>2. AllPassed(w.view["guest"], w.wire["guest"], w.room) /\ w.control = "sent"
      BY <1>4, <3>1 DEF Trails, Safe, Records
    <3>3. Agree(r.match, w.room.match)
      BY <3>2 DEF Backed
    <3>4. \A m : Passed(m, w.room.match) => Passed(m, r.match)
      BY <3>3 DEF Agree, Same, Passed, Behind
    <3> QED BY <2>2, <3>2, <3>4 DEF AllPassed
  <2> QED BY <2>1, <2>3, <2>4 DEF Trails
<1>18. Backs(w, u)
  <2>1. Present(w) => Present(a)
    BY <1>8, <1>10, <1>11 DEF Present
  <2> QED BY ONLY <1>16, <1>17, <2>1, BacksTwice
<1> QED BY <1>4, <1>5, <1>8, <1>15, <1>16, <1>18 DEF Aside

Restoring(b) == [b EXCEPT !.online = FALSE, !.attempt["host"] = "restoring"]
\* It waits for the guest, and shows no connection until the guest is there.
LEMMA HostReturnsKeeps ==
    ASSUME NEW w, NEW stage, DirectInv(w, stage), w.ok, NEW r, r = w.record, r # None,
           NEW b, b = HostBack(w, r), NEW u, u = Restoring(b)
    PROVE  DirectInv(u, stage) /\ w.room.guest /\ u.room.guest /\ Backs(w, u)
<1>1. /\ DirectInv(b, stage) /\ w.room.guest /\ b.room.guest /\ b.side["host"].state = "new"
      /\ Backs(w, b) /\ b.view["host"].session
  BY HostIsBack
<1>2. Shaped(b) /\ "host" \in Players
  BY <1>1 DEF DirectInv, Safe, Players
<1>3. PICK off : off = FALSE
  OBVIOUS
<1>4. PICK a : a = [b EXCEPT !.online = off]
  OBVIOUS
<1>5. But(a, b, {"online"}) /\ a.online = off
  BY ONLY <1>2, <1>4 DEF Shaped, But
<1>6. u = [a EXCEPT !.attempt["host"] = "restoring"]
  BY <1>3, <1>4 DEF Restoring
<1>7. Tried(u, a, "host", "restoring")
  <2>1. Shaped(a)
    BY <1>5 DEF But
  <2> QED BY ONLY <1>2, <1>6, <2>1, AttemptSet
<1>8. But(u, b, {"attempt", "online"}) /\ u.online \in BOOLEAN
      /\ u.attempt["host"] = "restoring" /\ u.attempt["guest"] = b.attempt["guest"]
  <2>1. But(u, b, {"attempt", "online"}) /\ u.online = off
    BY <1>5, <1>7 DEF Tried, But
  <2>2. u.attempt["host"] = "restoring" /\ u.attempt["guest"] = b.attempt["guest"]
    BY <1>5, <1>7, OthersAre DEF Tried, But
  <2> QED BY <1>3, <2>1, <2>2
<1>9. /\ \A p \in Players : u.attempt[p] \in {"none", "restoring", "running", "retry"}
      /\ ~b.room.guest => \A p \in Players : u.attempt[p] = "none"
      /\ b.side["host"].state = "dead" => u.attempt["host"] = "none"
  BY <1>1, <1>8 DEF DirectInv, Safe, Records, Players
<1>10. DirectInv(u, stage) /\ Backs(b, u)
  BY ONLY <1>1, <1>8, <1>9, AttemptKeeps
<1>11. Backs(w, u)
  <2>1. Present(b)
    BY <1>1 DEF Present
  <2> QED BY ONLY <1>1, <1>10, <2>1, BacksTwice
<1> QED BY <1>1, <1>8, <1>10, <1>11 DEF But

-----------------------------------------------------------------------------
\* New links.

Link(n) == [state |-> "opening", link |-> n]
LinkedAt(w, n) == [w EXCEPT !.side = [p \in Players |-> Link(n)], !.links = n]
\* A new link between two peers that were on none: nothing of an earlier one is left.
LEMMA LinkKeeps ==
    ASSUME NEW w, NEW stage, Safe(w, stage), stage \notin Early,
           w.wire["host"] = <<>>, w.wire["guest"] = <<>>,
           ~w.view["guest"].session, w.view["guest"].match = None, w.view["guest"].chat = <<>>,
           w.room.guest => w.view["guest"].returning,
           NEW n \in 1..MaxLinks, NEW u, But(u, w, {"side", "links"}), u.links = n,
           u.side["host"] = Link(n), u.side["guest"] = Link(n)
    PROVE  Safe(u, stage)
<1>1. PICK c : Calm(w, c)
  BY DEF Safe
<1>2. /\ Shaped(u) /\ u.room = w.room /\ u.record = w.record /\ u.view = w.view
      /\ u.wire = w.wire /\ u.attempt = w.attempt /\ u.online = w.online
      /\ u.control = w.control /\ u.saved = w.saved /\ u.finalized = w.finalized
  BY DEF But
<1>3. GuestPage(w.view["guest"]) /\ ~w.view["guest"].moving /\ w.view["guest"].pending = None
  BY DEF Safe, GuestFits, GuestPage
<1>4. c = Picture(w.view["guest"])
  <2>1. Ends(Picture(w.view["guest"]), <<>>, c)
    BY <1>1 DEF Calm
  <2> QED BY <2>1, EndsAtOnce
<1>5. c.chat = <<>>
  BY <1>4 DEF Picture
<1>6. Calm(u, c)
  <2>1. UpTo(c.chat, u.room.said)
    BY <1>5 DEF UpTo
  <2>2. AllPassed(u.view["guest"], u.wire["guest"], u.room)
    BY <1>2 DEF AllPassed, Passed
  <2>3. u.side["host"].link # 0
    BY DEF Link
  <2> QED BY <1>1, <1>2, <2>1, <2>2, <2>3 DEF Calm
<1>7. Promised(u, c)
  <2>1. w.room.guest => Asks(u)
    BY <1>2 DEF Asks, Link
  <2>2. u.side["host"].state = "opening"
    BY DEF Link
  <2> QED BY <1>2, <2>1, <2>2 DEF Promised
<1>8. Owed(u)
  BY <1>2, <1>3 DEF Owed
<1>9. Wires(u)
  <2>1. n \in 0..MaxLinks /\ n # 0 /\ n <= n
    BY DirectAssumption
  <2>2. Link(n) \in [state : States, link : 0..MaxLinks] /\ Link(n).state = "opening" /\ Link(n).link = n
    BY <2>1 DEF Link, States
  <2> QED BY <1>2, <2>1, <2>2 DEF Safe, Wires, EndOK
<1>10. GuestFits(u)
  BY <1>2, <1>3 DEF GuestFits, Link
<1>11. Records(u, stage)
  <2>1. Recovers(u) <=> Recovers(w)
    BY <1>2 DEF Recovers
  <2> QED BY <1>2, <2>1 DEF Safe, Records
<1> QED BY <1>2, <1>6, <1>7, <1>8, <1>9, <1>10, <1>11 DEF Safe

\* Peers are linked, and nothing else changes.
LEMMA LinkBacks ==
    ASSUME NEW w, w.side["host"].state # "dead", NEW u, But(u, w, {"side", "links"})
    PROVE  Backs(w, u)
<1>1. /\ But(u, w, {"side", "wire", "view", "attempt", "online", "finalized", "links"})
      /\ u.view = w.view /\ u.wire = w.wire
  BY DEF But
<1>2. /\ u.wire["guest"] \in {w.wire["guest"], <<>>}
      /\ u.view["guest"].match \in {w.view["guest"].match, None}
      /\ u.view["host"].session <=> w.view["host"].session
      /\ w.side["host"].state = "dead" => u.side["host"].state = "dead"
  BY <1>1
<1> QED BY ONLY <1>1, <1>2, ButBacks

\* Both ends of the table.
LEMMA LinkIs ==
    ASSUME NEW w, Shaped(w), NEW n, NEW u, u = LinkedAt(w, n)
    PROVE  /\ But(u, w, {"side", "links"}) /\ u.links = n
           /\ u.side["host"] = Link(n) /\ u.side["guest"] = Link(n)
<1>1. PICK t : t = [p \in Players |-> Link(n)]
  OBVIOUS
<1>2. t = [p \in Players |-> t[p]] /\ t["host"] = Link(n) /\ t["guest"] = Link(n)
  BY <1>1 DEF Players
<1>3. PICK a : a = [w EXCEPT !.side = t]
  OBVIOUS
<1>4. u = [a EXCEPT !.links = n]
  BY <1>1, <1>3 DEF LinkedAt
<1>5. But(a, w, {"side"}) /\ a.side = t
  BY ONLY Shaped(w), <1>2, <1>3 DEF Shaped, But
<1>6. But(u, a, {"links"}) /\ u.links = n
  BY ONLY <1>4, <1>5 DEF Shaped, But
<1> QED BY <1>2, <1>5, <1>6 DEF But

\* The two new peers of a reconnection are brought together.
LEMMA Pairs ==
    ASSUME NEW w, NEW stage, DirectInv(w, stage), w.side["host"].state = "new",
           w.side["guest"].state = "new", w.attempt["guest"] # "none", w.links < MaxLinks,
           NEW n, n = w.links + 1, NEW u, u = LinkedAt(w, n)
    PROVE  DirectInv(u, stage) /\ u.room.guest = w.room.guest /\ Backs(w, u)
<1>1. Shaped(w) /\ Safe(w, stage) /\ GuestFits(w) /\ Wires(w)
  BY DEF DirectInv, Safe
<1>2. w.room.guest /\ stage \notin Early
  BY DEF DirectInv, Safe, Records, Players, Early
<1>3. w.wire["host"] = <<>> /\ w.wire["guest"] = <<>>
  BY <1>1 DEF Wires, EndOK
<1>4. /\ ~w.view["guest"].session /\ w.view["guest"].match = None
      /\ w.view["guest"].chat = <<>> /\ w.view["guest"].returning
  BY <1>1 DEF GuestFits
<1>5. n \in 1..MaxLinks
  BY <1>1, DirectAssumption DEF Wires
<1>6. /\ But(u, w, {"side", "links"}) /\ u.links = n
      /\ u.side["host"] = Link(n) /\ u.side["guest"] = Link(n)
  BY <1>1, LinkIs
<1>7. Safe(u, stage)
  BY ONLY <1>1, <1>2, <1>3, <1>4, <1>5, <1>6, LinkKeeps
<1>8. HostFree(u)
  <2>1. HostFree(w) /\ u.view = w.view
    BY <1>6 DEF DirectInv, But
  <2> QED BY <1>6, <2>1 DEF HostFree, Link
<1>9. Backs(w, u)
  <2>1. w.side["host"].state # "dead"
    OBVIOUS
  <2> QED BY ONLY <1>6, <2>1, LinkBacks
<1> QED BY <1>6, <1>7, <1>8, <1>9 DEF DirectInv, But

\* The first one: the host's peer has taken the answer of a guest's.
LEMMA LinksFirst ==
    ASSUME NEW w, DirectInv(w, "applying-answer"), NEW u,
           \/ u = LinkedAt(w, 1)
           \/ u = [w EXCEPT !.side["host"].state = "opening", !.links = 1]
    PROVE  DirectInv(u, "finalizing") /\ Backs(w, u)
<1>1. PICK stage : stage = "applying-answer"
  OBVIOUS
<1>2. Shaped(w) /\ Safe(w, stage) /\ GuestFits(w) /\ Wires(w) /\ "host" \in Players
  BY <1>1 DEF DirectInv, Safe, Players
<1>3. /\ ~w.room.guest /\ w.view["guest"] = NoView /\ w.side["host"] = [state |-> "new", link |-> 0]
      /\ w.side["guest"].state = "dead" /\ w.side["guest"].link = 0
      /\ w.wire["host"] = <<>> /\ w.wire["guest"] = <<>> /\ stage \in Early
  <2>1. stage \in Early /\ stage # "done"
    BY <1>1 DEF Early
  <2>2. ~w.room.guest
    BY <1>2, <2>1 DEF Safe, Records
  <2>3. w.view["guest"] = NoView /\ w.wire["host"] = <<>> /\ w.wire["guest"] = <<>>
    BY <1>2, <2>2 DEF Safe, Records, Players
  <2>4. w.side["host"].state = "new" /\ w.side["host"].link = 0 /\ w.side["guest"].state = "dead"
        /\ w.side["guest"].link = 0
    BY <1>2, <2>1 DEF Safe, Records, Players
  <2>5. w.side["host"] \in [state : States, link : 0..MaxLinks]
    BY <1>2 DEF Wires, EndOK
  <2>6. w.side["host"] = [state |-> "new", link |-> 0]
    BY <2>4, <2>5
  <2> QED BY <2>1, <2>2, <2>3, <2>4, <2>6
<1>4. Safe(w, "finalizing")
  BY <1>2, <1>3, StageKeeps DEF Early
<1>5. "finalizing" \notin Early /\ 1 \in 1..MaxLinks
  BY DirectAssumption DEF Early
<1>6. CASE u = LinkedAt(w, 1)
  <2>1. /\ But(u, w, {"side", "links"}) /\ u.links = 1
        /\ u.side["host"] = Link(1) /\ u.side["guest"] = Link(1)
    BY <1>2, <1>6, LinkIs
  <2>2. /\ ~w.view["guest"].session /\ w.view["guest"].match = None
        /\ w.view["guest"].chat = <<>>
        /\ w.room.guest => w.view["guest"].returning
    BY <1>3 DEF NoView
  <2>3. Safe(u, "finalizing")
    BY ONLY <1>3, <1>4, <1>5, <2>1, <2>2, LinkKeeps
  <2>4. HostFree(u)
    BY <2>1 DEF DirectInv, HostFree, But, Link
  <2>5. Backs(w, u)
    <3>1. w.side["host"].state # "dead"
      BY <1>3
    <3> QED BY ONLY <2>1, <3>1, LinkBacks
  <2> QED BY <2>3, <2>4, <2>5 DEF DirectInv
<1>7. CASE u = [w EXCEPT !.side["host"].state = "opening", !.links = 1]
  <2>1. PICK a : a = [w EXCEPT !.side["host"] = Link(0)]
    OBVIOUS
  <2>2. [w EXCEPT !.side["host"].state = "opening"] = a
    BY <1>3, <2>1 DEF Link
  <2>3. u = [a EXCEPT !.links = 1]
    BY <1>7, <2>2
  <2>4. Sided(a, w, "host", Link(0))
    BY <1>2, <2>1, SideSet
  <2>5. Shaped(a)
    BY <2>4 DEF Sided, But
  <2>6. But(u, a, {"links"}) /\ u.links = 1
    BY ONLY <2>3, <2>5 DEF Shaped, But
  <2>7. /\ Shaped(u) /\ u.room = w.room /\ u.record = w.record /\ u.view = w.view
        /\ u.wire = w.wire /\ u.attempt = w.attempt /\ u.online = w.online
        /\ u.control = w.control /\ u.saved = w.saved /\ u.finalized = w.finalized
        /\ u.side["host"] = Link(0) /\ u.side["guest"] = w.side["guest"]
    BY <2>4, <2>6, OthersAre DEF Sided, But
  <2>8. Link(0) \in [state : States, link : 0..MaxLinks] /\ Link(0).state = "opening" /\ Link(0).link = 0
    BY DirectAssumption DEF Link, States
  <2>9. ~Live(u)
    BY <2>7, <2>8 DEF Live
  <2>10. PICK c : Calm(w, c)
    BY <1>2 DEF Safe
  <2>11. Calm(u, c) /\ Promised(u, c) /\ Owed(u)
    BY <2>7, <2>8, <2>9, <2>10 DEF Calm, Promised, Owed
  <2>12. Wires(u)
    <3>1. u.links \in 0..MaxLinks /\ 0 <= u.links
      BY <1>5, <2>6
    <3>2. EndOK(u, "host")
      BY <2>7, <2>8, <3>1 DEF EndOK
    <3>3. EndOK(u, "guest")
      BY <1>2, <1>3, <2>7, <3>1 DEF Wires, EndOK
    <3>4. u.wire["host"] \in Seq(Command) /\ u.wire["guest"] \in Seq(Event)
      BY <1>2, <2>7 DEF Wires
    <3> QED BY <3>1, <3>2, <3>3, <3>4 DEF Wires
  <2>13. GuestFits(u)
    BY <1>2, <2>7 DEF GuestFits
  <2>14. Records(u, "finalizing")
    <3>1. Recovers(u) <=> Recovers(w)
      BY <2>7 DEF Recovers
    <3> QED BY <1>4, <1>5, <2>7, <3>1 DEF Safe, Records
  <2>15. HostFree(u)
    BY <2>7, <2>8 DEF DirectInv, HostFree
  <2>16. Backs(w, u)
    <3>1. w.side["host"].state # "dead"
      BY <1>3
    <3>2. But(u, w, {"side", "links"})
      BY <2>4, <2>6 DEF Sided, But
    <3> QED BY ONLY <3>1, <3>2, LinkBacks
  <2> QED BY <2>7, <2>11, <2>12, <2>13, <2>14, <2>15, <2>16 DEF DirectInv, Safe
<1> QED BY <1>6, <1>7

-----------------------------------------------------------------------------
\* The reconnect control.

\* The guest is told that it can come back, and the record is written.
ToldRecovery(w) == Persisted(Sent([w EXCEPT !.control = "sent"], "guest", Plain("recovery")))
\* What that does, field by field.
LEMMA ToldRecoveryIs ==
    ASSUME NEW w, Shaped(w), w.room.guest, SoundRecord(w.room), NEW u, u = ToldRecovery(w)
    PROVE  /\ But(u, w, {"control", "wire", "record"}) /\ u.control = "sent" /\ u.record = w.room
           /\ u.wire["host"] = w.wire["host"]
           /\ u.wire["guest"] = IF Linked(w) THEN Append(w.wire["guest"], Plain("recovery"))
                                ELSE w.wire["guest"]
<1>1. PICK a : a = [w EXCEPT !.control = "sent"]
  OBVIOUS
<1>2. PICK e : e = Plain("recovery")
  OBVIOUS
<1>3. PICK b : b = Sent(a, "guest", e)
  OBVIOUS
<1>4. u = Persisted(b)
  BY <1>1, <1>2, <1>3 DEF ToldRecovery
<1>5. But(a, w, {"control"}) /\ a.control = "sent"
  BY ONLY Shaped(w), <1>1 DEF Shaped, But
<1>6. SentTo(b, a, "guest", e)
  <2>1. Shaped(a) /\ "guest" \in Players
    BY <1>5 DEF But, Players
  <2> QED BY <1>3, <2>1, SentToIs
<1>7. Shaped(b) /\ b.control = "sent" /\ b.room = w.room
  BY <1>5, <1>6 DEF SentTo, But
<1>8. u = [b EXCEPT !.record = w.room]
  BY <1>4, <1>7 DEF Persisted, HostRecord
<1>9. But(u, b, {"record"}) /\ u.record = w.room
  BY ONLY <1>7, <1>8 DEF Shaped, But
<1>10. (Linked(a) <=> Linked(w)) /\ a.wire = w.wire
  BY <1>5 DEF Linked, But
<1> QED BY <1>2, <1>5, <1>6, <1>9, <1>10, OthersAre DEF SentTo, But

\* The control is registered, and the guest has its ticket or will have.
LEMMA ToldRecoveryKeeps ==
    ASSUME NEW w, NEW stage, DirectInv(w, stage), w.control = "registering",
           w.side["host"].state = "open", NEW u, u = ToldRecovery(w)
    PROVE  DirectInv(u, stage) /\ u.room.guest /\ Backs(w, u)
<1>1. PICK c : Calm(w, c) /\ Promised(w, c)
  BY DEF DirectInv, Safe
<1>2. Shaped(w) /\ w.room.guest /\ RoomOK(w.room) /\ SoundRecord(w.room)
  BY <1>1 DEF Calm, RoomOK, SoundRecord
<1>3. PICK e : e = Plain("recovery")
  OBVIOUS
<1>4. e.type = "recovery" /\ e \in Event
  BY <1>3 DEF Plain, Event
<1>5. /\ But(u, w, {"control", "wire", "record"}) /\ u.control = "sent" /\ u.record = w.room
      /\ u.wire["host"] = w.wire["host"]
      /\ u.wire["guest"] = IF Linked(w) THEN Append(w.wire["guest"], e) ELSE w.wire["guest"]
  BY <1>2, <1>3, ToldRecoveryIs
<1>6. /\ Shaped(u) /\ u.room = w.room /\ u.view = w.view /\ u.side = w.side
      /\ u.attempt = w.attempt /\ u.online = w.online
      /\ u.saved = w.saved /\ u.finalized = w.finalized /\ u.links = w.links
  BY <1>5 DEF But
<1>7. (Live(u) <=> Live(w)) /\ (Asks(w) <=> Asks(u))
  BY <1>5, <1>6 DEF Live, Linked, Asks
<1>8. PICK s \in Seq(Event) : s = w.wire["guest"]
  BY <1>1 DEF Calm
<1>9. PICK t : t = u.wire["guest"]
  OBVIOUS
<1>10. /\ t \in Seq(Event) /\ Begins(s, t)
       /\ \A i \in DOMAIN t : (i \in DOMAIN s /\ t[i] = s[i]) \/ t[i].type = "recovery"
  <2>1. t = Append(s, e) \/ t = s
    BY <1>5, <1>8, <1>9
  <2> QED BY <1>4, <2>1 DEF Begins
<1>11. Ends(Picture(w.view["guest"]), t, c)
  <2>1. Ends(Picture(w.view["guest"]), s, c)
    BY <1>1, <1>8 DEF Calm
  <2>2. c = PictureAfter(c, e) /\ Rises(c.chat)
    BY <1>4, <2>1, EndsAreTyped DEF PictureAfter
  <2>3. Ends(Picture(w.view["guest"]), Append(s, e), c)
    BY <1>4, <2>1, <2>2, EndsAppend
  <2> QED BY <1>5, <1>8, <1>9, <2>1, <2>3
<1>12. Calm(u, c)
  <2>1. Live(w) => AllPassed(u.view["guest"], t, u.room)
    BY <1>1, <1>6, <1>8, <1>10 DEF Calm, AllPassed
  <2>2. u.record # None
    BY <1>2, <1>5, DirectAssumption DEF RoomOK
  <2>3. RoomOK(u.record) /\ u.record.guest
    BY <1>2, <1>5
  <2> QED BY <1>1, <1>2, <1>5, <1>6, <1>7, <1>9, <1>10, <1>11, <2>1, <2>2, <2>3 DEF Calm
<1>13. Promised(u, c)
  BY <1>1, <1>6, <1>7 DEF Promised
<1>14. /\ MoveOwed(w) => MoveOwed(u)
       /\ TextOwed(w) => TextOwed(u)
  <2>1. /\ (\E i \in DOMAIN s : AnswersMove(s[i])) => \E i \in DOMAIN t : AnswersMove(t[i])
        /\ (\E i \in DOMAIN s : AnswersText(s[i])) => \E i \in DOMAIN t : AnswersText(t[i])
    BY <1>10, Longer
  <2> QED BY <1>5, <1>8, <1>9, <2>1 DEF MoveOwed, TextOwed
<1>15. Owed(u)
  BY <1>6, <1>7, <1>14 DEF DirectInv, Safe, Owed
<1>16. Wires(u)
  <2>1. w.side["guest"].state \in {"new", "lost", "dead"} => t = <<>>
    <3> SUFFICES ASSUME w.side["guest"].state \in {"new", "lost", "dead"} PROVE t = <<>>
      OBVIOUS
    <3>1. w.wire["guest"] = <<>> /\ w.side["guest"].link = 0
      BY DEF DirectInv, Safe, Wires, EndOK
    <3>2. ~Linked(w)
      BY <3>1 DEF Linked, DirectInv, Safe, Wires, EndOK
    <3> QED BY <1>5, <1>9, <3>1, <3>2
  <2> QED BY <1>5, <1>6, <1>9, <1>10, <2>1 DEF DirectInv, Safe, Wires, EndOK
<1>17. GuestFits(u)
  BY <1>6 DEF DirectInv, Safe, GuestFits
<1>18. Records(u, stage)
  BY <1>2, <1>5, <1>6 DEF DirectInv, Safe, Records
<1>19. HostFree(u)
  BY <1>6 DEF DirectInv, HostFree
<1>20. Backs(w, u)
  <2>1. Backed(u)
    BY <1>2, <1>5, <1>6, RoomIs DEF Backed, Agree, Same
  <2>2. Present(w) => Present(u)
    BY <1>6 DEF Present
  <2>3. ASSUME u.saved \/ Recovers(u) PROVE AllPassed(u.view["guest"], u.wire["guest"], u.room)
    <3>1. ~w.saved /\ ~Recovers(w)
      BY DEF DirectInv, Safe, Records
    <3>2. Linked(w)
      <4>1. Recovers(u) /\ ~Recovers(w)
        BY <1>6, <2>3, <3>1
      <4> QED BY <1>5, <4>1 DEF Recovers
    <3>3. Live(u)
      BY <1>1, <1>7, <3>2 DEF Live, Calm
    <3> QED BY <1>12, <3>3 DEF Calm
  <2> QED BY <2>1, <2>2, <2>3 DEF Backs, Recoverable, Trails
<1> QED BY <1>2, <1>6, <1>12, <1>13, <1>15, <1>16, <1>17, <1>18, <1>19, <1>20 DEF DirectInv, Safe

\* The control is not registered: neither page can come back.
LEMMA RegisterFailsKeeps ==
    ASSUME NEW w, NEW stage, DirectInv(w, stage), w.control = "registering", NEW u,
           u = [w EXCEPT !.control = "none"]
    PROVE  DirectInv(u, stage) /\ u.room.guest /\ Backs(w, u)
<1>1. Shaped(w) /\ Safe(w, stage) /\ w.room.guest /\ ~w.saved /\ ~Recovers(w)
  BY DEF DirectInv, Safe, Records
<1>2. But(u, w, {"control"}) /\ u.control = "none"
  BY ONLY <1>1, u = [w EXCEPT !.control = "none"] DEF Shaped, But
<1>3. Safe(u, stage) /\ Backs(w, u)
  BY <1>1, <1>2, ControlKeeps
<1> QED BY <1>1, <1>2, <1>3 DEF DirectInv, HostFree, But

\* The host tries again with another peer.
LEMMA RetryKeeps ==
    ASSUME NEW w, NEW stage, DirectInv(w, stage), w.attempt["host"] # "none", NEW u,
           u = ReplacePeer(w)
    PROVE  DirectInv(u, stage) /\ u.room.guest /\ Backs(w, u)
<1>1. Shaped(w) /\ Safe(w, stage) /\ HostPage(w.view["host"], w.room) /\ w.online \in BOOLEAN
  BY DEF DirectInv, Safe, Calm, Records
<1>2. w.room.guest /\ stage \notin Early
  BY DEF DirectInv, Safe, Records, Players, Early
<1>3. /\ Leaves(w, "host", u, "new") /\ u.view = w.view /\ u.online = w.online
      /\ u.attempt["host"] = "running"
  BY <1>1, ReplacePeerIs
<1>4. Safe(u, stage) /\ u.room = w.room
  <2>1. HostPage(u.view["host"], w.room) /\ (~w.room.guest => u.view["host"].session)
        /\ u.online \in BOOLEAN /\ u.attempt["host"] \in {"none", "restoring", "running", "retry"}
        /\ (~w.room.guest => u.attempt["host"] = "none") /\ "new" \in {"new", "lost", "dead"}
    BY <1>1, <1>2, <1>3
  <2> QED BY ONLY <1>1, <1>2, <1>3, <2>1, HostLeaves
<1>5. HostFree(u)
  BY <1>3 DEF DirectInv, HostFree, Leaves
<1>6. Backs(w, u)
  <2>1. u.view["host"].session <=> w.view["host"].session
    BY <1>3
  <2>2. w.side["host"].state = "dead" => "new" = "dead"
    BY DEF DirectInv, HostFree
  <2> QED BY ONLY <1>3, <2>1, <2>2, HostGoneBacks
<1> QED BY <1>2, <1>4, <1>5, <1>6 DEF DirectInv

-----------------------------------------------------------------------------
\* The channel.

AttemptStates == {"none", "restoring", "running", "retry"}
\* An attempt goes on, or ends.
LEMMA AttemptGoes ==
    ASSUME NEW w, NEW stage, DirectInv(w, stage), NEW p \in Players, NEW x \in AttemptStates,
           w.attempt[p] # "none",
           NEW u, u = [w EXCEPT !.attempt[p] = x]
    PROVE  DirectInv(u, stage) /\ u.room = w.room /\ Backs(w, u)
<1>1. Shaped(w)
  BY DEF DirectInv, Safe
<1>2. Tried(u, w, p, x)
  BY <1>1, AttemptSet
<1>3. /\ w.room.guest /\ \A q \in Players : w.attempt[q] \in {"none", "restoring", "running", "retry"}
      /\ w.online \in BOOLEAN
  BY DEF DirectInv, Safe, Records
<1>4. w.side["host"].state = "dead" => w.attempt["host"] = "none"
  BY DEF DirectInv, HostFree
<1>5. \A q \in Players : u.attempt[q] \in {"none", "restoring", "running", "retry"}
  BY <1>2, <1>3, OthersAre DEF Tried, AttemptStates
<1>6. w.side["host"].state = "dead" => u.attempt["host"] = "none"
  <2> SUFFICES ASSUME w.side["host"].state = "dead" PROVE u.attempt["host"] = "none"
    OBVIOUS
  <2>1. w.attempt["host"] = "none" /\ p = "guest"
    BY <1>4 DEF Players
  <2> QED BY <1>2, <2>1, OthersAre DEF Tried
<1>7. But(u, w, {"attempt", "online"}) /\ u.online \in BOOLEAN /\ u.room = w.room
  BY <1>2, <1>3 DEF Tried, But
<1> QED BY <1>3, <1>5, <1>6, <1>7, AttemptKeeps

\* One end of the channel, in another state.
LEMMA EndSet ==
    ASSUME NEW w, Shaped(w), NEW p \in Players, EndOK(w, p), NEW x
    PROVE  [w EXCEPT !.side[p].state = x] = [w EXCEPT !.side[p] = [state |-> x, link |-> w.side[p].link]]
<1>1. w.side[p] = [state |-> w.side[p].state, link |-> w.side[p].link]
  BY DEF EndOK
<1>2. [w.side[p] EXCEPT !.state = x] = [state |-> x, link |-> w.side[p].link]
  BY <1>1
<1>3. [w EXCEPT !.side[p].state = x] = [w EXCEPT !.side[p] = [w.side[p] EXCEPT !.state = x]]
  BY DEF Shaped
<1> QED BY <1>2, <1>3

\* The ends of a link in a state of the invariant.
LEMMA EndsOK ==
    ASSUME NEW w, NEW stage, Safe(w, stage), NEW p \in Players
    PROVE  EndOK(w, p) /\ Shaped(w)
  BY DEF Safe, Wires, Players

\* An end of the channel changes, and nothing else.
LEMMA SideBacks ==
    ASSUME NEW w, NEW p \in Players, NEW x, w.side[p].state # "dead", NEW u, Sided(u, w, p, x)
    PROVE  Backs(w, u)
<1>1. /\ But(u, w, {"side", "wire", "view", "attempt", "online", "finalized", "links"})
      /\ u.view = w.view /\ u.wire = w.wire
  BY DEF But, Sided
<1>2. w.side["host"].state = "dead" => u.side["host"].state = "dead"
  <2> SUFFICES ASSUME w.side["host"].state = "dead" PROVE u.side["host"].state = "dead"
    OBVIOUS
  <2>1. p = "guest"
    BY DEF Players
  <2> QED BY <2>1, OthersAre DEF Sided
<1>3. /\ u.wire["guest"] \in {w.wire["guest"], <<>>}
      /\ u.view["guest"].match \in {w.view["guest"].match, None}
      /\ u.view["host"].session <=> w.view["host"].session
  BY <1>1
<1> QED BY ONLY <1>1, <1>2, <1>3, ButBacks

\* The channel is about to close on one side.
LEMMA Breaks ==
    ASSUME NEW w, NEW stage, DirectInv(w, stage), NEW p \in Players, w.side[p].state = "open",
           NEW u, u = [w EXCEPT !.side[p].state = "closing"]
    PROVE  DirectInv(u, stage) /\ u.room = w.room /\ Backs(w, u)
<1>1. Safe(w, stage) /\ EndOK(w, p) /\ Shaped(w)
  BY EndsOK DEF DirectInv
<1>2. w.side[p].link # 0
  BY <1>1 DEF EndOK
<1>3. u = [w EXCEPT !.side[p] = [state |-> "closing", link |-> w.side[p].link]]
  BY <1>1, EndSet
<1>4. Sided(u, w, p, [state |-> "closing", link |-> w.side[p].link])
  BY <1>1, <1>3, SideSet
<1>5. Safe(u, stage)
  <2>1. /\ w.side[p].state \in {"opening", "open"} /\ "closing" \in {"open", "closing"}
        /\ p = "guest" /\ w.side[p].state = "opening" => ~w.view["guest"].returning
    OBVIOUS
  <2> QED BY ONLY <1>1, <1>2, <1>4, <2>1, SideKeeps, p \in Players
<1>6. HostFree(u)
  <2>1. u.view = w.view /\ u.attempt = w.attempt /\ HostFree(w)
    BY <1>4 DEF Sided, But, DirectInv
  <2>2. u.side["host"].state = "dead" => w.side["host"].state = "dead"
    BY <1>4, OthersAre DEF Sided, Players
  <2> QED BY <2>1, <2>2 DEF HostFree
<1>7. Backs(w, u)
  <2>1. w.side[p].state # "dead"
    OBVIOUS
  <2> QED BY ONLY <1>4, <2>1, SideBacks, p \in Players
<1> QED BY <1>4, <1>5, <1>6, <1>7 DEF DirectInv, Sided, But

\* A page that shows a connection again.
Again(v) == [v EXCEPT !.moving = FALSE, !.returning = @ \/ v.session]
Opened(w, p) == [w EXCEPT !.side[p].state = "open", !.view[p].moving = FALSE,
                          !.view[p].returning = @ \/ w.view[p].session]
\* What the opening of the channel does, field by field.
LEMMA OpenedIs ==
    ASSUME NEW w, Shaped(w), NEW p \in Players, EndOK(w, p), NEW u, u = Opened(w, p)
    PROVE  /\ But(u, w, {"side", "view"}) /\ u.side[p] = [state |-> "open", link |-> w.side[p].link]
           /\ u.side[Other(p)] = w.side[Other(p)]
           /\ u.view[p] = Again(w.view[p]) /\ u.view[Other(p)] = w.view[Other(p)]
<1>1. PICK s : s = [state |-> "open", link |-> w.side[p].link]
  OBVIOUS
<1>2. PICK a : a = [w EXCEPT !.side[p] = s]
  OBVIOUS
<1>3. Sided(a, w, p, s)
  BY <1>2, SideSet
<1>4. PICK v : v = Again(w.view[p])
  OBVIOUS
<1>5. PICK b : b = [a EXCEPT !.view[p] = v]
  OBVIOUS
<1>6. Viewed(b, a, p, v)
  <2>1. Shaped(a)
    BY <1>3 DEF Sided, But
  <2> QED BY <1>5, <2>1, ViewSet
<1>7. a.view = w.view
  BY <1>3 DEF Sided, But
<1>8. [w EXCEPT !.side[p].state = "open"] = a
  BY <1>1, <1>2, EndSet
<1>9. u = [a EXCEPT !.view[p].moving = FALSE, !.view[p].returning = @ \/ w.view[p].session]
  BY <1>8 DEF Opened
<1>10. u = b
  <2>1. PICK y : y = w.view[p].session
    OBVIOUS
  <2>2. [a EXCEPT !.view[p].moving = FALSE, !.view[p].returning = @ \/ y]
        = [a EXCEPT !.view[p] = [a.view[p] EXCEPT !.moving = FALSE, !.returning = @ \/ y]]
    BY ONLY <1>3, p \in Players DEF Sided, But, Shaped
  <2> QED BY <1>4, <1>5, <1>7, <1>9, <2>1, <2>2 DEF Again
<1> QED BY <1>1, <1>3, <1>4, <1>6, <1>10 DEF Sided, Viewed, But

\* What it does to the page.
LEMMA AgainIs ==
    ASSUME NEW v, v \in View, NEW u, u = Again(v)
    PROVE  /\ u \in View /\ u.session = v.session /\ u.match = v.match /\ u.chat = v.chat
           /\ u.draft = v.draft /\ u.pending = v.pending /\ u.moving = FALSE
           /\ (u.returning <=> v.returning \/ v.session)
           /\ ~v.session /\ ~v.moving => u = v
<1>1. /\ v = [session |-> v.session, match |-> v.match, chat |-> v.chat, draft |-> v.draft,
              pending |-> v.pending, moving |-> v.moving, returning |-> v.returning]
      /\ v.session \in BOOLEAN /\ v.match \in Match \cup {None} /\ v.chat \in Seq(Message)
      /\ v.draft \in Texts \cup {None} /\ v.pending \in Texts \cup {None}
      /\ v.moving \in BOOLEAN /\ v.returning \in BOOLEAN
  BY DEF View
<1>2. PICK y \in BOOLEAN : y = (v.returning \/ v.session)
  OBVIOUS
<1>3. u = [v EXCEPT !.moving = FALSE, !.returning = y]
  BY <1>2 DEF Again
<1>4. u = [session |-> v.session, match |-> v.match, chat |-> v.chat, draft |-> v.draft,
           pending |-> v.pending, moving |-> FALSE, returning |-> y]
  BY <1>1, <1>3
<1>5. u \in View
  BY <1>1, <1>4 DEF View
<1>6. /\ u.session = v.session /\ u.match = v.match /\ u.chat = v.chat
      /\ u.draft = v.draft /\ u.pending = v.pending /\ u.moving = FALSE /\ u.returning = y
  BY <1>4
<1>7. (u.returning <=> v.returning \/ v.session)
  BY <1>2, <1>6
<1>8. ASSUME ~v.session, ~v.moving PROVE u = v
  <2>1. v.moving = FALSE /\ y = v.returning
    BY <1>1, <1>2, <1>8
  <2> QED BY ONLY <1>1, <1>4, <2>1
<1> QED BY <1>5, <1>6, <1>7, <1>8

\* The host's channel opens while its page shows no connection.
Connects(w) == Persisted([Opened(w, "host") EXCEPT !.online = TRUE])
\* That is written down, and keeps the invariant.
LEMMA HostConnects ==
    ASSUME NEW w, NEW stage, DirectInv(w, stage), w.side["host"].state = "opening",
           w.side["host"].link # 0, NEW u, u = Connects(w)
    PROVE  /\ DirectInv(u, stage) /\ u.room = w.room /\ u.ok = w.ok /\ Backs(w, u)
           /\ u.view["host"].session <=> w.view["host"].session
<1>1. Safe(w, stage) /\ EndOK(w, "host") /\ Shaped(w) /\ "host" \in Players
      /\ HostPage(w.view["host"], w.room)
  BY EndsOK DEF DirectInv, Players, Safe, Calm
<1>2. PICK a : a = [w EXCEPT !.side["host"] = [state |-> "open", link |-> w.side["host"].link]]
  OBVIOUS
<1>3. Sided(a, w, "host", [state |-> "open", link |-> w.side["host"].link])
  BY <1>1, <1>2, SideSet
<1>4. Safe(a, stage)
  <2>1. /\ w.side["host"].state \in {"opening", "open"} /\ "open" \in {"open", "closing"}
        /\ "host" = "guest" /\ w.side["host"].state = "opening" => ~w.view["guest"].returning
    OBVIOUS
  <2> QED BY ONLY <1>1, <1>3, <2>1, SideKeeps, w.side["host"].link # 0
<1>5. PICK d : d = Opened(w, "host")
  OBVIOUS
<1>6. /\ But(d, w, {"side", "view"}) /\ d.side["host"] = [state |-> "open", link |-> w.side["host"].link]
      /\ d.side["guest"] = w.side["guest"]
      /\ d.view["host"] = Again(w.view["host"]) /\ d.view["guest"] = w.view["guest"]
  BY <1>1, <1>5, OpenedIs, OthersAre
<1>7. PICK on : on = TRUE
  OBVIOUS
<1>8. PICK b : b = [d EXCEPT !.online = on]
  OBVIOUS
<1>9. But(b, d, {"online"}) /\ b.online = on
  BY ONLY <1>6, <1>8 DEF Shaped, But
<1>10. u = Persisted(b)
  BY <1>5, <1>7, <1>8 DEF Connects
<1>11. b.side = a.side
  <2>1. /\ a.side = [p \in Players |-> a.side[p]] /\ b.side = [p \in Players |-> b.side[p]]
    BY <1>3, <1>9 DEF Sided, But, Shaped
  <2>2. \A p \in Players : a.side[p] = b.side[p]
    BY <1>3, <1>6, <1>9, OthersAre DEF Sided, But, Players
  <2>3. [p \in Players |-> a.side[p]] = [p \in Players |-> b.side[p]]
    BY <2>2
  <2> QED BY <2>1, <2>3
<1>12. But(b, a, {"view", "online"}) /\ b.view["guest"] = a.view["guest"]
       /\ a.room = w.room /\ b.view["host"] = Again(w.view["host"]) /\ b.ok = w.ok
  BY <1>3, <1>6, <1>9, <1>11 DEF But, Sided
<1>13. PICK v : v = Again(w.view["host"])
  OBVIOUS
<1>14. HostPage(v, w.room) /\ v.moving = FALSE /\ v.pending = w.view["host"].pending
       /\ v.session = w.view["host"].session
  <2>1. w.view["host"] \in View
    BY <1>1 DEF HostPage
  <2>2. /\ v \in View /\ v.session = w.view["host"].session /\ v.match = w.view["host"].match
        /\ v.chat = w.view["host"].chat /\ v.pending = w.view["host"].pending /\ v.moving = FALSE
        /\ (v.returning <=> w.view["host"].returning \/ w.view["host"].session)
    BY <1>13, <2>1, AgainIs
  <2> QED BY <1>1, <2>2 DEF HostPage
<1>15. Safe(b, stage)
  <2>1. /\ HostPage(b.view["host"], a.room) /\ b.online \in BOOLEAN
        /\ ~a.room.guest => b.view["host"].session
    BY <1>1, <1>7, <1>9, <1>12, <1>13, <1>14 DEF Safe, Records
  <2> QED BY ONLY <1>4, <1>12, <2>1, HostPageKeeps
<1>16. Safe(u, stage) /\ But(u, b, {"record"})
  BY <1>10, <1>15, PersistKeeps
<1>17. HostFree(u)
  BY <1>6, <1>9, <1>12, <1>13, <1>14, <1>16 DEF HostFree, But, DirectInv
<1>18. Backs(w, b)
  <2>1. But(b, w, {"side", "wire", "view", "attempt", "online", "finalized", "links"})
        /\ b.wire = w.wire /\ b.view["guest"] = w.view["guest"]
        /\ (b.view["host"].session <=> w.view["host"].session)
    BY <1>6, <1>9, <1>12, <1>13, <1>14 DEF But
  <2>2. /\ b.wire["guest"] \in {w.wire["guest"], <<>>}
        /\ b.view["guest"].match \in {w.view["guest"].match, None}
        /\ b.view["host"].session <=> w.view["host"].session
        /\ w.side["host"].state = "dead" => b.side["host"].state = "dead"
    BY <2>1
  <2> QED BY ONLY <2>1, <2>2, ButBacks
<1>19. Backs(b, u)
  <2>1. Steady(b, u)
    BY <1>10, <1>15, PersistBacks
  <2>2. Present(b) => Present(u) \/ u.online
    BY <1>16 DEF But, Present
  <2> QED BY ONLY <2>1, <2>2, SteadyHolds
<1>20. Backs(w, u)
  <2>1. Present(w) => Present(b)
    BY <1>12, <1>13, <1>14 DEF Present
  <2> QED BY ONLY <1>18, <1>19, <2>1, BacksTwice
<1>21. u.view["host"].session <=> w.view["host"].session
  BY <1>12, <1>13, <1>14, <1>16 DEF But
<1> QED BY <1>12, <1>16, <1>17, <1>20, <1>21 DEF DirectInv, But

\* It opens while the page shows one.
LEMMA HostOpens ==
    ASSUME NEW w, NEW stage, DirectInv(w, stage), w.side["host"].state = "opening",
           w.side["host"].link # 0, NEW u, u = [w EXCEPT !.side["host"].state = "open"]
    PROVE  /\ DirectInv(u, stage) /\ u.room = w.room /\ u.ok = w.ok /\ Backs(w, u)
           /\ u.view["host"].session <=> w.view["host"].session
<1>1. Safe(w, stage) /\ EndOK(w, "host") /\ Shaped(w) /\ "host" \in Players
  BY EndsOK DEF DirectInv, Players
<1>2. u = [w EXCEPT !.side["host"] = [state |-> "open", link |-> w.side["host"].link]]
  BY <1>1, EndSet
<1>3. Sided(u, w, "host", [state |-> "open", link |-> w.side["host"].link])
  BY <1>1, <1>2, SideSet
<1>4. Safe(u, stage)
  <2>1. /\ w.side["host"].state \in {"opening", "open"} /\ "open" \in {"open", "closing"}
        /\ "host" = "guest" /\ w.side["host"].state = "opening" => ~w.view["guest"].returning
    OBVIOUS
  <2> QED BY ONLY <1>1, <1>3, <2>1, SideKeeps, w.side["host"].link # 0
<1>5. HostFree(u)
  BY <1>3 DEF DirectInv, HostFree, Sided, But
<1>6. Backs(w, u)
  <2>1. w.side["host"].state # "dead"
    OBVIOUS
  <2> QED BY ONLY <1>1, <1>3, <2>1, SideBacks
<1> QED BY <1>3, <1>4, <1>5, <1>6 DEF DirectInv, Sided, But

\* The guest's channel opens; a page that returns asks for the room.
LEMMA GuestOpens ==
    ASSUME NEW w, NEW stage, DirectInv(w, stage), w.side["guest"].state = "opening",
           w.side["guest"].link # 0, NEW d, d = Opened(w, "guest"),
           NEW u, u = IF d.view["guest"].returning THEN Sent(d, "host", [type |-> "reconnect"]) ELSE d
    PROVE  DirectInv(u, stage) /\ u.room = w.room /\ Backs(w, u)
<1>1. Safe(w, stage) /\ EndOK(w, "guest") /\ Shaped(w) /\ "guest" \in Players
      /\ GuestFits(w)
  BY EndsOK DEF DirectInv, Players, Safe
<1>2. PICK v : v = w.view["guest"]
  OBVIOUS
<1>3. v \in View /\ ~v.session /\ ~v.moving /\ GuestPage(v)
  BY <1>1, <1>2 DEF GuestFits, GuestPage
<1>4. /\ But(d, w, {"side", "view"}) /\ d.side["guest"] = [state |-> "open", link |-> w.side["guest"].link]
      /\ d.side["host"] = w.side["host"]
      /\ d.view["guest"] = Again(v) /\ d.view["host"] = w.view["host"]
  BY <1>1, <1>2, OpenedIs, OthersAre
<1>5. Again(v) = v
  BY <1>3, AgainIs
<1>6. d.view = w.view
  <2>1. /\ d.view = [p \in Players |-> d.view[p]] /\ w.view = [p \in Players |-> w.view[p]]
    BY <1>1, <1>4 DEF But, Shaped
  <2>2. \A p \in Players : d.view[p] = w.view[p]
    BY <1>2, <1>4, <1>5 DEF Players
  <2>3. [p \in Players |-> d.view[p]] = [p \in Players |-> w.view[p]]
    BY <2>2
  <2> QED BY <2>1, <2>3
<1>7. Sided(d, w, "guest", [state |-> "open", link |-> w.side["guest"].link])
  BY <1>4, <1>6, OthersAre DEF Sided, But
<1>8. ASSUME But(u, d, {"wire"}), u.wire["guest"] = d.wire["guest"] PROVE Backs(w, u)
  <2>1. But(u, w, {"side", "wire", "view", "attempt", "online", "finalized", "links"})
        /\ u.wire["guest"] = w.wire["guest"] /\ u.view = w.view
        /\ u.side["host"] = w.side["host"]
    BY <1>4, <1>6, <1>8 DEF But
  <2>2. /\ u.wire["guest"] \in {w.wire["guest"], <<>>}
        /\ u.view["guest"].match \in {w.view["guest"].match, None}
        /\ u.view["host"].session <=> w.view["host"].session
        /\ w.side["host"].state = "dead" => u.side["host"].state = "dead"
    BY <2>1
  <2> QED BY ONLY <2>1, <2>2, ButBacks
<1>9. CASE ~v.returning
  <2>1. u = d
    BY <1>2, <1>6, <1>9
  <2>2. /\ w.side["guest"].state \in {"opening", "open"} /\ "open" \in {"open", "closing"}
        /\ "guest" = "guest" /\ w.side["guest"].state = "opening" => ~w.view["guest"].returning
    BY <1>2, <1>9
  <2>3. Safe(d, stage)
    BY ONLY <1>1, <1>7, <2>2, SideKeeps, w.side["guest"].link # 0
  <2>4. HostFree(d)
    BY <1>4, <1>6 DEF DirectInv, HostFree, But
  <2>5. Backs(w, u)
    BY <1>4, <1>8, <2>1 DEF But
  <2> QED BY <1>4, <2>1, <2>3, <2>4, <2>5 DEF DirectInv, But
<1>10. CASE v.returning
  <2>1. PICK k : k = [type |-> "reconnect"]
    OBVIOUS
  <2>2. k \in Command /\ k.type = "reconnect"
    BY <2>1 DEF Command
  <2>3. u = Sent(d, "host", k)
    BY <1>2, <1>6, <1>10, <2>1
  <2>4. SentTo(u, d, "host", k)
    BY <1>4, <2>3, SentToIs DEF But, Players
  <2>5. Linked(d) <=> Linked(w)
    BY <1>4 DEF Linked
  <2>6. Says(w, u, v, k)
    BY <1>2, <1>4, <1>6, <2>4, <2>5, OthersAre DEF Says, SentTo, But
  <2>7. w.room.guest
    BY <1>1, <1>2, <1>10 DEF Safe, Records, NoView
  <2>8. /\ Picture(v) = Picture(w.view["guest"]) /\ w.side["guest"].state \in {"opening", "open"}
        /\ v.moving => w.view["guest"].moving \/ k.type = "move"
        /\ v.pending # None => w.view["guest"].pending # None \/ k.type = "chat"
        /\ w.side["guest"].state = "opening" => k.type = "reconnect"
    BY <1>2, <2>2
  <2>9. Safe(u, stage)
    BY ONLY <1>1, <1>3, <2>2, <2>6, <2>7, <2>8, SaysKeeps, w.side["guest"].link # 0
  <2>10. HostFree(u)
    BY <1>4, <1>6, <2>4 DEF DirectInv, HostFree, But, SentTo
  <2>11. Backs(w, u)
    BY <1>8, <2>4, OthersAre DEF SentTo
  <2> QED BY <1>4, <2>4, <2>9, <2>10, <2>11 DEF DirectInv, But, SentTo
<1> QED BY <1>9, <1>10

-----------------------------------------------------------------------------
\* Every action keeps the invariant.

MatchInv == DirectInv(Now, hosting.stage)

\* The fields of a state.
LEMMA NowIs ==
    /\ Now.room = room /\ Now.record = record /\ Now.side = side /\ Now.wire = wire
    /\ Now.view = view /\ Now.attempt = attempt /\ Now.online = online
    /\ Now.control = control /\ Now.saved = saved /\ Now.finalized = finalized
    /\ Now.links = links /\ Now.ok
  BY DEF Now

\* The next state is what a step computes.
LEMMA TurnedIs ==
    ASSUME NEW u, Shaped(u), Turned(u)
    PROVE  Alike(Now', u)
<1>1. /\ Now'.room = u.room /\ Now'.record = u.record /\ Now'.side = u.side /\ Now'.wire = u.wire
      /\ Now'.view = u.view /\ Now'.attempt = u.attempt /\ Now'.online = u.online
      /\ Now'.control = u.control /\ Now'.saved = u.saved /\ Now'.finalized = u.finalized
      /\ Now'.links = u.links
  BY DEF Now, Turned
<1>2. Shaped(Now')
  BY <1>1 DEF Now, Shaped
<1> QED BY <1>1, <1>2 DEF Alike, Aside

\* It keeps the invariant, if what the step computes does.
LEMMA TurnedKeeps ==
    ASSUME NEW u, NEW stage, DirectInv(u, stage), Turned(u), hosting'.stage = stage,
           Backs(Now, u)
    PROVE  MatchInv' /\ Backs(Now, Now')
<1>1. Alike(Now', u)
  BY TurnedIs DEF DirectInv, Safe
<1>2. DirectInv(Now', stage)
  BY <1>1, AlikeKeeps
<1>3. Backs(Now, Now')
  BY <1>1, AlikeBacks
<1> QED BY <1>2, <1>3 DEF MatchInv

\* The setup is over as soon as the guest is in the room.
LEMMA BecomeKeeps ==
    ASSUME SetupTypeOK, NEW u, DirectInv(u, Later(Now, u, hosting.stage)), Become(u),
           Backs(Now, u)
    PROVE  MatchInv' /\ Backs(Now, Now')
<1>1. hosting'.stage = Later(Now, u, hosting.stage)
  BY NowIs DEF Become, Later, SetupOver, SetupTypeOK, setupVars
<1>2. Turned(u)
  BY DEF Become
<1> QED BY <1>1, <1>2, TurnedKeeps

\* A step that lets nobody in leaves the setup alone.
LEMMA BecomeStays ==
    ASSUME NEW u, DirectInv(u, hosting.stage), u.room.guest => room.guest, Become(u),
           Backs(Now, u)
    PROVE  MatchInv' /\ Backs(Now, Now')
<1>1. hosting'.stage = hosting.stage
  BY DEF Become, setupVars
<1>2. Turned(u)
  BY DEF Become
<1> QED BY <1>1, <1>2, TurnedKeeps

\* Who may act is in a room that has its guest.
LEMMA ActIn ==
    ASSUME MatchInv, NEW p \in Players, MayAct(p)
    PROVE  room.guest /\ view[p].session /\ (p = "host" => online)
<1>1. view[p].session /\ view[p].match # None /\ (p = "host" => online)
  BY DEF MayAct
<1>2. Safe(Now, hosting.stage) /\ HostPage(view["host"], room) /\ RoomOK(room)
  BY NowIs DEF MatchInv, DirectInv, Safe, Calm
<1>3. CASE p = "host"
  BY <1>1, <1>2, <1>3 DEF HostPage, Shows, RoomOK
<1>4. CASE p = "guest"
  <2>1. ~room.guest => view["guest"] = NoView
    BY <1>2, NowIs DEF Safe, Records
  <2> QED BY <1>1, <1>4, <2>1 DEF NoView
<1> QED BY <1>1, <1>3, <1>4 DEF Players

\* The host's command is served at once, the guest's is sent.
LEMMA SubmitIs ==
    ASSUME NEW w, NEW c
    PROVE  Submit(w, "host", c) = Obey(w, "host", c) /\ Submit(w, "guest", c) = SubmitGuest(w, c)
  BY DEF Submit, SubmitGuest

\* SubmitCellAction keeps the invariant.
LEMMA MoveKeeps ==
    ASSUME MatchInv, NEW p \in Players, NEW o \in {"keep", "pass", "win"}, SubmitCellAction(p, o)
    PROVE  MatchInv' /\ Backs(Now, Now')
<1>1. PICK c : c = [type |-> "move", outcome |-> o]
  OBVIOUS
<1>2. PICK a : a = [Now EXCEPT !.view[p].moving = TRUE]
  OBVIOUS
<1>3. PICK u : u = Submit(a, p, c)
  OBVIOUS
<1>4. PICK x : x = IF u.ok THEN u ELSE [u EXCEPT !.view[p].moving = FALSE]
  OBVIOUS
<1>5. MayAct(p) /\ ~view[p].moving /\ Become(x)
  BY <1>1, <1>2, <1>3, <1>4 DEF SubmitCellAction
<1>6. room.guest /\ view[p].session
  BY <1>5, ActIn
<1>7. c \in Command /\ c.type = "move"
  BY <1>1 DEF Command
<1>8. PICK w : w = Now
  OBVIOUS
<1>9. DirectInv(w, hosting.stage) /\ w.ok /\ w.room.guest /\ w.view[p].session /\ ~w.view[p].moving
  BY <1>5, <1>6, <1>8, NowIs DEF MatchInv
<1>10. DirectInv(x, hosting.stage) /\ x.room.guest /\ Backs(w, x)
  <2>1. CASE p = "host"
    <3>1. u = Obey([w EXCEPT !.view["host"].moving = TRUE], "host", c)
      BY <1>2, <1>3, <1>8, <2>1, SubmitIs
    <3>2. x = IF u.ok THEN u ELSE [u EXCEPT !.view["host"].moving = FALSE]
      BY <1>4, <2>1
    <3> QED BY ONLY <1>7, <1>9, <2>1, <3>1, <3>2, HostMoves
  <2>2. CASE p = "guest"
    <3>1. u = SubmitGuest([w EXCEPT !.view["guest"].moving = TRUE], c)
      BY <1>2, <1>3, <1>8, <2>2, SubmitIs
    <3>2. x = IF u.ok THEN u ELSE [u EXCEPT !.view["guest"].moving = FALSE]
      BY <1>4, <2>2
    <3> QED BY ONLY <1>7, <1>9, <2>2, <3>1, <3>2, GuestMoves
  <2> QED BY <2>1, <2>2 DEF Players
<1>11. Backs(Now, x)
  BY <1>8, <1>10
<1> QED BY <1>5, <1>6, <1>10, <1>11, BecomeStays

\* SendChatMessage does.
LEMMA SayKeeps ==
    ASSUME MatchInv, NEW p \in Players, NEW text \in Texts, SendChatMessage(p, text)
    PROVE  MatchInv' /\ Backs(Now, Now')
<1>1. PICK c : c = [type |-> "chat", text |-> text]
  OBVIOUS
<1>2. PICK a : a = Writes(Now, p, None, text)
  OBVIOUS
<1>3. PICK u : u = Submit(a, p, c)
  OBVIOUS
<1>4. PICK x : x = IF u.ok THEN u ELSE Writes(u, p, text, None)
  OBVIOUS
<1>5. MayAct(p) /\ view[p].pending = None /\ Become(x)
  BY <1>1, <1>2, <1>3, <1>4 DEF SendChatMessage, Writes
<1>6. room.guest /\ view[p].session
  BY <1>5, ActIn
<1>7. PICK w : w = Now
  OBVIOUS
<1>8. DirectInv(w, hosting.stage) /\ w.ok /\ w.room.guest /\ w.view[p].session
      /\ w.view[p].pending = None
  BY <1>5, <1>6, <1>7, NowIs DEF MatchInv
<1>9. DirectInv(x, hosting.stage) /\ x.room.guest /\ Backs(w, x)
  <2>1. CASE p = "host"
    <3>1. u = Obey(Writes(w, "host", None, text), "host", c)
      BY <1>2, <1>3, <1>7, <2>1, SubmitIs
    <3>2. x = IF u.ok THEN u
              ELSE Writes(u, "host", text, None)
      BY <1>4, <2>1
    <3>3. /\ DirectInv(w, hosting.stage) /\ w.ok /\ w.room.guest /\ w.view["host"].session
          /\ text \in Texts
      BY <1>8, <2>1
    <3> QED BY ONLY <1>1, <3>1, <3>2, <3>3, HostSays
  <2>2. CASE p = "guest"
    <3>1. u = SubmitGuest(Writes(w, "guest", None, text), c)
      BY <1>2, <1>3, <1>7, <2>2, SubmitIs
    <3>2. x = IF u.ok THEN u
              ELSE Writes(u, "guest", text, None)
      BY <1>4, <2>2
    <3>3. /\ DirectInv(w, hosting.stage) /\ w.ok /\ w.room.guest /\ w.view["guest"].session
          /\ text \in Texts /\ w.view["guest"].pending = None
      BY <1>8, <2>2
    <3> QED BY ONLY <1>1, <3>1, <3>2, <3>3, GuestSaysText
  <2> QED BY <2>1, <2>2 DEF Players
<1>10. Backs(Now, x)
  BY <1>7, <1>9
<1> QED BY <1>5, <1>6, <1>9, <1>10, BecomeStays

\* A player resigns, or votes.
LEMMA DecideKeeps ==
    ASSUME MatchInv, NEW p \in Players, MayAct(p), NEW c \in Command, Become(Submit(Now, p, c))
    PROVE  MatchInv' /\ Backs(Now, Now')
<1>1. room.guest /\ view[p].session /\ (p = "host" => online)
  BY ActIn
<1>2. PICK w : w = Now
  OBVIOUS
<1>3. PICK u : u = Submit(w, p, c)
  OBVIOUS
<1>4. /\ DirectInv(w, hosting.stage) /\ w.ok /\ w.room.guest /\ w.view[p].session
      /\ (p = "host" => w.online)
  BY <1>1, <1>2, NowIs DEF MatchInv
<1>5. DirectInv(u, hosting.stage) /\ u.room.guest /\ Backs(w, u)
  <2>1. CASE p = "host"
    BY <1>3, <1>4, <2>1, HostDecides, SubmitIs
  <2>2. CASE p = "guest"
    BY <1>3, <1>4, <2>2, GuestDecides, SubmitIs
  <2> QED BY <2>1, <2>2 DEF Players
<1>6. Become(u) /\ Backs(Now, u)
  BY <1>2, <1>3, <1>5
<1> QED BY <1>1, <1>5, <1>6, BecomeStays

\* ResignMatch does.
LEMMA ResignKeeps ==
    ASSUME MatchInv, NEW p \in Players, ResignMatch(p)
    PROVE  MatchInv' /\ Backs(Now, Now')
<1>1. PICK c : c = [type |-> "resign"]
  OBVIOUS
<1>2. c \in Command
  BY <1>1 DEF Command
<1>3. MayAct(p) /\ Become(Submit(Now, p, c))
  BY <1>1 DEF ResignMatch
<1> QED BY <1>2, <1>3, DecideKeeps

\* Rematch does.
LEMMA VoteKeeps ==
    ASSUME MatchInv, NEW p \in Players, Rematch(p)
    PROVE  MatchInv' /\ Backs(Now, Now')
<1>1. PICK yes \in BOOLEAN : yes = (p \notin view[p].match.votes)
  OBVIOUS
<1>2. PICK c : c = [type |-> "vote", on |-> yes]
  OBVIOUS
<1>3. c \in Command
  BY <1>2 DEF Command
<1>4. MayAct(p) /\ Become(Submit(Now, p, c))
  <2>1. c = [type |-> "vote", on |-> p \notin view[p].match.votes]
    BY <1>1, <1>2
  <2> QED BY <2>1 DEF Rematch
<1> QED BY <1>3, <1>4, DecideKeeps

\* Open does, which may let the guest in.
LEMMA OpenKeeps ==
    ASSUME MatchInv, SetupTypeOK, NEW p \in Players, Open(p)
    PROVE  MatchInv' /\ Backs(Now, Now')
<1>1. PICK w : w = Now
  OBVIOUS
<1>2. /\ DirectInv(w, hosting.stage) /\ w.ok /\ w.side[p].state = "opening" /\ w.side[p].link # 0
      /\ w.room = room
  BY <1>1, NowIs DEF MatchInv, Open
<1>3. PICK d : d = Opened(w, p)
  OBVIOUS
<1>4. d = [Now EXCEPT !.side[p].state = "open", !.view[p].moving = FALSE,
                      !.view[p].returning = @ \/ view[p].session]
  BY <1>1, <1>3, NowIs DEF Opened
<1>5. CASE p = "host"
  <2>1. PICK a : a = IF online THEN [w EXCEPT !.side["host"].state = "open"] ELSE Connects(w)
    OBVIOUS
  <2>2. PICK u : u = FinalizeGuestIfReady(a)
    OBVIOUS
  <2>3. Become(u)
    <3>1. Connects(w) = Persisted([d EXCEPT !.online = TRUE])
      BY <1>3, <1>5 DEF Connects
    <3> QED BY <1>1, <1>4, <1>5, <2>1, <2>2, <3>1 DEF Open
  <2>4. /\ DirectInv(a, hosting.stage) /\ a.room = w.room /\ a.ok /\ Backs(w, a)
        /\ a.view["host"].session <=> w.view["host"].session
    <3>1. CASE online
      <4>1. a = [w EXCEPT !.side["host"].state = "open"]
        BY <2>1, <3>1
      <4> QED BY <1>2, <1>5, <4>1, HostOpens
    <3>2. CASE ~online
      <4>1. a = Connects(w)
        BY <2>1, <3>2
      <4> QED BY <1>2, <1>5, <4>1, HostConnects
    <3> QED BY <3>1, <3>2
  <2>5. DirectInv(u, Later(a, u, hosting.stage)) /\ Backs(a, u)
    BY <2>2, <2>4, FinalizeKeeps
  <2>6. Later(a, u, hosting.stage) = Later(Now, u, hosting.stage)
    BY <1>1, <2>4 DEF Later
  <2>7. Backs(Now, u)
    <3>1. Present(w) => Present(a)
      BY <1>2, <1>5, <2>4 DEF Present
    <3>2. Backs(w, u)
      BY ONLY <2>4, <2>5, <3>1, BacksTwice
    <3> QED BY <1>1, <3>2
  <2>8. DirectInv(u, Later(Now, u, hosting.stage))
    BY <2>5, <2>6
  <2> QED BY <2>3, <2>7, <2>8, BecomeKeeps
<1>6. CASE p = "guest"
  <2>1. PICK u : u = IF d.view["guest"].returning THEN Sent(d, "host", [type |-> "reconnect"]) ELSE d
    OBVIOUS
  <2>2. Become(u)
    BY <1>4, <1>6, <2>1 DEF Open
  <2>3. DirectInv(u, hosting.stage) /\ u.room = w.room /\ Backs(w, u)
    <3>1. d = Opened(w, "guest") /\ w.side["guest"].state = "opening" /\ w.side["guest"].link # 0
      BY <1>2, <1>3, <1>6
    <3> QED BY ONLY <1>2, <2>1, <3>1, GuestOpens
  <2> QED BY <1>1, <1>2, <2>2, <2>3, BecomeStays
<1> QED BY <1>5, <1>6 DEF Players

\* Break does.
LEMMA BreakKeeps ==
    ASSUME MatchInv, NEW p \in Players, Break(p)
    PROVE  MatchInv' /\ Backs(Now, Now')
<1>1. PICK w : w = Now
  OBVIOUS
<1>2. PICK u : u = [w EXCEPT !.side[p].state = "closing"]
  OBVIOUS
<1>3. DirectInv(w, hosting.stage) /\ w.side[p].state = "open" /\ Become(u) /\ w.room = room
  BY <1>1, <1>2, NowIs DEF MatchInv, Break
<1>4. DirectInv(u, hosting.stage) /\ u.room = w.room /\ Backs(w, u)
  BY <1>2, <1>3, Breaks
<1> QED BY <1>1, <1>3, <1>4, BecomeStays

\* CloseEvent does, for either player.
LEMMA CloseKeeps ==
    ASSUME MatchInv, NEW p \in Players, CloseEvent(p)
    PROVE  MatchInv' /\ Backs(Now, Now')
<1>1. PICK w : w = Now
  OBVIOUS
<1>2. PICK u : u = IF p = "host" THEN HostLosesPeer(w) ELSE GuestLosesPeer(w)
  OBVIOUS
<1>3. /\ DirectInv(w, hosting.stage) /\ w.ok /\ w.side[p].state \in {"opening", "closing"}
      /\ Become(u) /\ w.room = room
  BY <1>1, <1>2, NowIs DEF MatchInv, CloseEvent
<1>4. DirectInv(u, hosting.stage) /\ u.room.guest = w.room.guest /\ Backs(w, u)
  <2>1. CASE p = "host"
    BY <1>2, <1>3, <2>1, HostLoses
  <2>2. CASE p = "guest"
    BY <1>2, <1>3, <2>2, GuestLoses
  <2> QED BY <2>1, <2>2 DEF Players
<1> QED BY <1>1, <1>3, <1>4, BecomeStays

\* Deliver does, for either player.
LEMMA DeliverKeeps ==
    ASSUME MatchInv, NEW p \in Players, Deliver(p)
    PROVE  MatchInv' /\ Backs(Now, Now')
<1>1. PICK w : w = Now
  OBVIOUS
<1>2. /\ DirectInv(w, hosting.stage) /\ w.ok /\ w.wire[p] # <<>> /\ Up(w.side[p])
      /\ w.room = room /\ w.wire = wire
  BY <1>1, NowIs DEF MatchInv, Deliver
<1>3. PICK e : e = Head(w.wire[p])
  OBVIOUS
<1>4. PICK a : a = [w EXCEPT !.wire[p] = Tail(@)]
  OBVIOUS
<1>5. PICK u : u = IF p = "host" THEN Obey(a, "guest", e)
                   ELSE IF e.type = "recovery" THEN [a EXCEPT !.saved = TRUE]
                   ELSE [a EXCEPT !.view[p] = Applied(@, p, e)]
  OBVIOUS
<1>6. Become(u)
  BY <1>1, <1>2, <1>3, <1>4, <1>5 DEF Deliver
<1>7. DirectInv(u, hosting.stage) /\ w.room.guest /\ Backs(w, u)
  <2>1. CASE p = "host"
    <3>1. a = [w EXCEPT !.wire["host"] = Tail(@)] /\ u = Obey(a, "guest", e)
      BY <1>4, <1>5, <2>1
    <3> QED BY ONLY <1>2, <1>3, <2>1, <3>1, HostDelivers
  <2>2. CASE p = "guest" /\ e.type = "recovery"
    <3>1. a = [w EXCEPT !.wire["guest"] = Tail(@)] /\ u = [a EXCEPT !.saved = TRUE]
      BY <1>4, <1>5, <2>2
    <3> QED BY ONLY <1>2, <1>3, <2>2, <3>1, GuestHearsRecovery
  <2>3. CASE p = "guest" /\ e.type # "recovery"
    <3>1. a = [w EXCEPT !.wire["guest"] = Tail(@)]
          /\ u = [a EXCEPT !.view["guest"] = Applied(@, "guest", e)]
      BY <1>4, <1>5, <2>3
    <3> QED BY ONLY <1>2, <1>3, <2>3, <3>1, GuestDelivers
  <2> QED BY <2>1, <2>2, <2>3 DEF Players
<1> QED BY <1>1, <1>2, <1>6, <1>7, BecomeStays

\* AttemptEnds does.
LEMMA AttemptEndsKeeps ==
    ASSUME MatchInv, NEW p \in Players, AttemptEnds(p)
    PROVE  MatchInv' /\ Backs(Now, Now')
<1>1. PICK w : w = Now
  OBVIOUS
<1>2. PICK u : u = [w EXCEPT !.attempt[p] = "none"]
  OBVIOUS
<1>3. /\ DirectInv(w, hosting.stage) /\ w.attempt[p] # "none" /\ Become(u) /\ w.room = room
  BY <1>1, <1>2, NowIs DEF MatchInv, AttemptEnds
<1>4. DirectInv(u, hosting.stage) /\ u.room = w.room /\ Backs(w, u)
  BY <1>2, <1>3, AttemptGoes DEF AttemptStates
<1> QED BY <1>1, <1>3, <1>4, BecomeStays

\* AttemptFails does, after a reload or a break.
LEMMA AttemptFailsKeeps ==
    ASSUME MatchInv, NEW p \in Players, AttemptFails(p)
    PROVE  MatchInv' /\ Backs(Now, Now')
<1>1. PICK w : w = Now
  OBVIOUS
<1>2. DirectInv(w, hosting.stage) /\ w.attempt[p] \in {"restoring", "running"} /\ w.room = room
      /\ w.attempt = attempt
  BY <1>1, NowIs DEF MatchInv, AttemptFails
<1>3. CASE p = "host" /\ w.attempt[p] = "running"
  <2>1. PICK u : u = [w EXCEPT !.attempt[p] = "retry"]
    OBVIOUS
  <2>2. Become(u)
    BY <1>1, <1>2, <1>3, <2>1 DEF AttemptFails
  <2>3. DirectInv(u, hosting.stage) /\ u.room = w.room /\ Backs(w, u)
    BY <1>2, <2>1, AttemptGoes DEF AttemptStates
  <2> QED BY <1>1, <1>2, <2>2, <2>3, BecomeStays
<1>4. CASE p = "host" /\ w.attempt[p] = "restoring"
  <2>1. PICK u : u = Unrestored(w)
    OBVIOUS
  <2>2. Become(u)
    <3>1. u = [Dead(Now, p) EXCEPT !.view[p] = NoView, !.online = FALSE]
      BY <1>1, <1>4, <2>1 DEF Unrestored
    <3> QED BY <1>2, <1>4, <3>1 DEF AttemptFails
  <2>3. DirectInv(u, hosting.stage) /\ u.room = w.room /\ Backs(w, u)
    BY <1>2, <1>4, <2>1, RestoreFails
  <2> QED BY <1>1, <1>2, <2>2, <2>3, BecomeStays
<1>5. CASE p = "guest"
  <2>1. PICK u : u = Dead(w, "guest")
    OBVIOUS
  <2>2. Become(u)
    BY <1>1, <1>5, <2>1 DEF AttemptFails
  <2>3. DirectInv(u, hosting.stage) /\ u.room = w.room /\ Backs(w, u)
    BY <1>2, <2>1, GuestDies
  <2> QED BY <1>1, <1>2, <2>2, <2>3, BecomeStays
<1> QED BY <1>2, <1>3, <1>4, <1>5 DEF Players

\* OpenRoom does: a reload of either page.
LEMMA OpenRoomKeeps ==
    ASSUME MatchInv, NEW p \in Players, OpenRoom(p)
    PROVE  MatchInv' /\ Backs(Now, Now')
<1>1. PICK w : w = Now
  OBVIOUS
<1>2. DirectInv(w, hosting.stage) /\ w.ok /\ w.room = room /\ w.record = record /\ w.saved = saved
  BY <1>1, NowIs DEF MatchInv
<1>3. CASE p = "host"
  <2>1. PICK r : r = w.record
    OBVIOUS
  <2>2. record # None => RoomOK(record)
    BY <1>2 DEF DirectInv, Safe, Calm
  <2>3. r # None /\ StoredRecord = r
    BY <1>2, <1>3, <2>1, <2>2 DEF OpenRoom, StoredRecord
  <2>4. PICK b : b = HostBack(w, r)
    OBVIOUS
  <2>5. PICK u : u = Restoring(b)
    OBVIOUS
  <2>6. Become(u)
    <3>1. [Now EXCEPT !.room = r, !.view["host"] = [NoView EXCEPT !.session = TRUE, !.match = r.match,
                                                                   !.chat = r.chat],
                      !.control = "sent"] = Restored(w, r)
      BY <1>1 DEF Restored, Returned
    <3>2. HostReturns(Now) = [DisconnectGuest(Fresh(Restored(w, r), "host"))
                                 EXCEPT !.online = FALSE, !.attempt["host"] = "restoring"]
      BY <2>3, <3>1 DEF HostReturns
    <3>3. u = HostReturns(Now)
      BY <2>4, <2>5, <3>2 DEF HostBack, Restoring
    <3> QED BY <1>3, <3>3 DEF OpenRoom
  <2>7. DirectInv(u, hosting.stage) /\ w.room.guest /\ Backs(w, u)
    <3>1. DirectInv(w, hosting.stage) /\ w.ok /\ r # None
      BY <1>2, <2>3
    <3> QED BY ONLY <2>1, <2>4, <2>5, <3>1, HostReturnsKeeps
  <2> QED BY <1>1, <1>2, <2>6, <2>7, BecomeStays
<1>4. CASE p = "guest"
  <2>1. PICK u : u = GuestReturns(w)
    OBVIOUS
  <2>2. Become(u) /\ w.saved
    BY <1>1, <1>2, <1>4, <2>1 DEF OpenRoom
  <2>3. w.room.guest
    BY <1>2, <2>2 DEF DirectInv, Safe, Records
  <2>4. DirectInv(u, hosting.stage) /\ Backs(w, u)
    BY <1>2, <2>1, <2>3, GuestReturnsKeeps
  <2> QED BY <1>1, <1>2, <2>2, <2>3, <2>4, BecomeStays
<1> QED BY <1>3, <1>4 DEF Players

\* The steps of the reconnect control do.
LEMMA ControlGoes ==
    ASSUME MatchInv, Registered \/ RegisterFails \/ Retry
    PROVE  MatchInv' /\ Backs(Now, Now')
<1>1. PICK w : w = Now
  OBVIOUS
<1>2. /\ DirectInv(w, hosting.stage) /\ w.room = room /\ w.control = control /\ w.side = side
      /\ w.attempt = attempt /\ (w.control # "none" => w.room.guest)
  BY <1>1, NowIs DEF MatchInv, DirectInv, Safe, Records
<1>3. CASE Registered
  <2>1. PICK u : u = ToldRecovery(w)
    OBVIOUS
  <2>2. Become(u) /\ w.control = "registering" /\ w.side["host"].state = "open"
    BY <1>1, <1>2, <1>3, <2>1 DEF Registered, ToldRecovery
  <2>3. DirectInv(u, hosting.stage) /\ Backs(w, u)
    BY <1>2, <2>1, <2>2, ToldRecoveryKeeps
  <2> QED BY <1>1, <1>2, <2>2, <2>3, BecomeStays
<1>4. CASE RegisterFails
  <2>1. PICK u : u = [w EXCEPT !.control = "none"]
    OBVIOUS
  <2>2. Become(u) /\ w.control = "registering"
    BY <1>1, <1>2, <1>4, <2>1 DEF RegisterFails
  <2>3. DirectInv(u, hosting.stage) /\ Backs(w, u)
    BY <1>2, <2>1, <2>2, RegisterFailsKeeps
  <2> QED BY <1>1, <1>2, <2>2, <2>3, BecomeStays
<1>5. CASE Retry
  <2>1. PICK u : u = ReplacePeer(w)
    OBVIOUS
  <2>2. Become(u) /\ w.attempt["host"] # "none" /\ w.room.guest
    BY <1>1, <1>2, <1>5, <2>1 DEF Retry
  <2>3. DirectInv(u, hosting.stage) /\ Backs(w, u)
    BY <1>2, <2>1, <2>2, RetryKeeps
  <2> QED BY <1>1, <1>2, <2>2, <2>3, BecomeStays
<1> QED BY <1>3, <1>4, <1>5

\* Pair does.
LEMMA PairKeeps ==
    ASSUME MatchInv, Pair
    PROVE  MatchInv' /\ Backs(Now, Now')
<1>1. PICK w : w = Now
  OBVIOUS
<1>2. PICK n : n = w.links + 1
  OBVIOUS
<1>3. PICK u : u = LinkedAt(w, n)
  OBVIOUS
<1>4. u = [Now EXCEPT !.side = [p \in Players |-> [state |-> "opening", link |-> links + 1]],
                      !.links = @ + 1]
  BY <1>1, <1>2, <1>3, NowIs DEF LinkedAt, Link
<1>5. /\ DirectInv(w, hosting.stage) /\ w.side["host"].state = "new" /\ w.side["guest"].state = "new"
      /\ w.attempt["guest"] # "none" /\ w.links < MaxLinks /\ Become(u) /\ w.room = room
  BY <1>1, <1>4, NowIs DEF MatchInv, Pair
<1>6. DirectInv(u, hosting.stage) /\ u.room.guest = w.room.guest /\ Backs(w, u)
  BY ONLY <1>2, <1>3, <1>5, Pairs
<1> QED BY <1>1, <1>5, <1>6, BecomeStays

\* FirstLink does.
LEMMA FirstLinkKeeps ==
    ASSUME MatchInv, SetupTypeOK, FirstLink
    PROVE  MatchInv' /\ Backs(Now, Now')
<1>1. PICK w : w = Now
  OBVIOUS
<1>2. DirectInv(w, "applying-answer") /\ hosting'.stage = "finalizing"
  BY <1>1 DEF FirstLink, ApplyGuestAnswer, HostAt, HostStaged, SetupTypeOK, MatchInv
<1>3. PICK u : Turned(u) /\ \/ u = [w EXCEPT !.side = [p \in Players |-> Link(1)], !.links = 1]
                            \/ u = [w EXCEPT !.side["host"].state = "opening", !.links = 1]
  BY <1>1 DEF FirstLink, Link
<1>4. u = LinkedAt(w, 1) \/ u = [w EXCEPT !.side["host"].state = "opening", !.links = 1]
  BY <1>3 DEF LinkedAt
<1>5. DirectInv(u, "finalizing") /\ Backs(w, u)
  BY ONLY <1>2, <1>4, LinksFirst
<1> QED BY <1>1, <1>2, <1>3, <1>5, TurnedKeeps

\* The session of the service is finalized.
LEMMA FinalizedKeeps ==
    ASSUME NEW w, DirectInv(w, "finalizing"), NEW u, u = [w EXCEPT !.finalized = TRUE]
    PROVE  DirectInv(u, "done") /\ u.ok = w.ok /\ Backs(w, u) /\ (Present(w) => Present(u))
<1>1. Shaped(w) /\ Safe(w, "finalizing") /\ "finalizing" \notin Early /\ "done" \notin Early
  BY DEF DirectInv, Safe, Early
<1>2. Safe(w, "done")
  BY <1>1, StageKeeps
<1>3. PICK yes \in BOOLEAN : yes = TRUE
  OBVIOUS
<1>4. But(u, w, {"finalized"}) /\ u.finalized = yes
  <2>1. u = [w EXCEPT !.finalized = yes]
    BY <1>3
  <2> QED BY ONLY <1>1, <2>1 DEF Shaped, But
<1>5. /\ Shaped(u) /\ u.room = w.room /\ u.record = w.record /\ u.side = w.side /\ u.wire = w.wire
      /\ u.view = w.view /\ u.attempt = w.attempt /\ u.online = w.online
      /\ u.control = w.control /\ u.saved = w.saved /\ u.links = w.links /\ u.ok = w.ok
  BY <1>4 DEF But
<1>6. PICK c : Calm(w, c) /\ Promised(w, c)
  BY <1>2 DEF Safe
<1>7. (Live(u) <=> Live(w)) /\ (Asks(w) <=> Asks(u)) /\ (Recovers(w) <=> Recovers(u))
      /\ (MoveOwed(w) <=> MoveOwed(u)) /\ (TextOwed(w) <=> TextOwed(u))
  BY <1>5 DEF Live, Linked, Asks, Recovers, MoveOwed, TextOwed
<1>8. Calm(u, c)
  BY <1>5, <1>6, <1>7 DEF Calm
<1>9. Promised(u, c) /\ Owed(u)
  BY <1>2, <1>5, <1>6, <1>7 DEF Promised, Owed, Safe
<1>10. Wires(u) /\ GuestFits(u)
  BY <1>2, <1>5 DEF Safe, Wires, EndOK, GuestFits
<1>11. Records(u, "done")
  BY <1>2, <1>3, <1>4, <1>5, <1>7 DEF Safe, Records
<1>12. HostFree(u)
  BY <1>5 DEF DirectInv, HostFree
<1>13. Backs(w, u) /\ (Present(w) => Present(u))
  BY <1>5, <1>7 DEF Backs, Recoverable, Backed, Trails, Present
<1> QED BY <1>5, <1>8, <1>9, <1>10, <1>11, <1>12, <1>13 DEF DirectInv, Safe

\* FinalizeSetup does, which may let the guest in.
LEMMA FinalizeSetupKeeps ==
    ASSUME MatchInv, SetupTypeOK, FinalizeSetup
    PROVE  MatchInv' /\ Backs(Now, Now')
<1>1. PICK w : w = Now
  OBVIOUS
<1>2. PICK a : a = [w EXCEPT !.finalized = TRUE]
  OBVIOUS
<1>3. PICK u : u = FinalizeGuestIfReady(a)
  OBVIOUS
<1>4. FinalizeSession(u.room.guest) /\ Turned(IF u.ok THEN u ELSE HostGone(u))
  BY <1>1, <1>2, <1>3 DEF FinalizeSetup
<1>5. DirectInv(w, "finalizing") /\ hosting'.stage = "done" /\ w.ok
  BY <1>1, <1>4, NowIs DEF FinalizeSession, HostAt, HostStaged, SetupOver, SetupTypeOK, MatchInv
<1>6. DirectInv(a, "done") /\ a.ok /\ Backs(w, a) /\ (Present(w) => Present(a))
  BY <1>2, <1>5, FinalizedKeeps
<1>7. DirectInv(u, Later(a, u, "done")) /\ Backs(a, u) /\ (Present(a) => Present(u))
  BY <1>3, <1>6, FinalizeKeeps
<1>8. Later(a, u, "done") = "done"
  BY DEF Later
<1>9. Backs(w, u)
  BY ONLY <1>6, <1>7, BacksTwice
<1>10. CASE u.ok
  BY <1>1, <1>4, <1>5, <1>7, <1>8, <1>9, <1>10, TurnedKeeps
<1>11. CASE ~u.ok
  <2>1. PICK d : d = Dead(u, "host")
    OBVIOUS
  <2>2. PICK e : e = [d EXCEPT !.online = FALSE]
    OBVIOUS
  <2>3. Turned(e)
    BY <1>4, <1>11, <2>1, <2>2 DEF HostGone
  <2>4. DirectInv(u, "done") /\ "done" \notin Early
    BY <1>7, <1>8 DEF Early
  <2>5. DirectInv(e, "done") /\ Backs(u, e)
    BY ONLY <2>1, <2>2, <2>4, HostGivesUp
  <2>6. Present(w) => Present(u)
    BY ONLY <1>6, <1>7
  <2>7. Backs(w, e)
    BY ONLY <1>9, <2>5, <2>6, BacksTwice
  <2> QED BY <1>1, <1>5, <2>3, <2>5, <2>7, TurnedKeeps
<1> QED BY <1>10, <1>11

\* HostSetupFails does.
LEMMA SetupFailsKeeps ==
    ASSUME MatchInv, SetupTypeOK, HostSetupFails
    PROVE  MatchInv' /\ Backs(Now, Now')
<1>1. PICK w : w = Now
  OBVIOUS
<1>2. PICK d : d = Dead(w, "host")
  OBVIOUS
<1>3. PICK u : u = [d EXCEPT !.online = FALSE]
  OBVIOUS
<1>4. Turned(u) /\ hosting'.stage = "failed" /\ hosting.stage # "done"
  BY <1>1, <1>2, <1>3 DEF HostSetupFails, HostGone, FailHostSetup, HostStaged, SetupTypeOK
<1>5. DirectInv(w, "failed") /\ "failed" \notin Early
  <2>1. Safe(w, hosting.stage) /\ HostFree(w) /\ "failed" \notin Early
    BY <1>1 DEF MatchInv, DirectInv, Early
  <2>2. ~w.room.guest
    BY <1>4, <2>1 DEF Safe, Records
  <2>3. Safe(w, "failed")
    BY <2>1, <2>2, StageKeeps
  <2> QED BY <2>1, <2>3 DEF DirectInv
<1>6. DirectInv(u, "failed") /\ Backs(w, u)
  BY <1>2, <1>3, <1>5, HostGivesUp
<1> QED BY <1>1, <1>4, <1>6, TurnedKeeps

\* GuestStartsOver does.
LEMMA StartsOverKeeps ==
    ASSUME MatchInv, NEW g \in Guests, GuestStartsOver(g)
    PROVE  MatchInv' /\ Backs(Now, Now')
<1>1. PICK w : w = Now
  OBVIOUS
<1>2. hosting'.stage = hosting.stage /\ DirectInv(w, hosting.stage)
  BY <1>1 DEF GuestStartsOver, OpenSetupSession, Join, MatchInv
<1>3. Turned(w) \/ Turned(Dead(w, "guest"))
  BY <1>1 DEF GuestStartsOver
<1>4. DirectInv(Dead(w, "guest"), hosting.stage) /\ Backs(w, Dead(w, "guest"))
  BY <1>2, GuestDies
<1>5. Backs(w, w)
  BY DEF Backs, Recoverable
<1> QED BY <1>1, <1>2, <1>3, <1>4, <1>5, TurnedKeeps

\* The setup's steps that leave the match alone.
LEMMA SetupGoesKeeps ==
    ASSUME MatchInv, SetupTypeOK, SetupGoesOn
    PROVE  MatchInv' /\ Backs(Now, Now')
<1>1. PICK w : w = Now
  OBVIOUS
<1>2. Now' = w
  BY <1>1 DEF SetupGoesOn, matchVars, Now
<1>3. \/ hosting'.stage = hosting.stage
      \/ hosting.stage \in Early /\ hosting'.stage \in Early
  <2>1. CASE CreateHostOffer
    BY <2>1 DEF CreateHostOffer, HostAt, HostStaged, Early, SetupTypeOK
  <2>2. CASE CreateSession
    BY <2>2 DEF CreateSession, HostAt, HostStaged, Early, SetupTypeOK
  <2>3. CASE PollForAnswer
    BY <2>3 DEF PollForAnswer, HostAt, Early
  <2>4. CASE ~(CreateHostOffer \/ CreateSession \/ PollForAnswer)
    BY <2>4 DEF SetupGoesOn, Lapse, LoadSession, RefreshSession, CreateGuestAnswer, SubmitAnswer,
                SubmitFails, PollForFinalization
  <2> QED BY <2>1, <2>2, <2>3, <2>4
<1>4. DirectInv(w, hosting'.stage)
  <2>1. Safe(w, hosting.stage) /\ HostFree(w)
    BY <1>1 DEF MatchInv, DirectInv
  <2>2. w.room.guest => hosting'.stage = "done"
    BY <1>3, <2>1 DEF Safe, Records, Early
  <2>3. hosting'.stage \in Early => hosting.stage \in Early
    BY <1>3
  <2>4. Safe(w, hosting'.stage)
    BY <2>1, <2>2, <2>3, StageKeeps
  <2> QED BY <2>1, <2>4 DEF DirectInv
<1>5. Backs(w, w)
  BY DEF Backs, Recoverable
<1> QED BY <1>1, <1>2, <1>4, <1>5 DEF MatchInv

-----------------------------------------------------------------------------
\* The invariant holds in every state, and what follows from it.

\* The invariant holds before anybody has done anything.
LEMMA MatchStarts == Init => MatchInv
<1> SUFFICES ASSUME Init PROVE MatchInv
  OBVIOUS
<1>1. PICK w : w = Now
  OBVIOUS
<1>2. PICK yes \in BOOLEAN, no \in BOOLEAN : yes = TRUE /\ no = FALSE
  OBVIOUS
<1>3. PICK v : v = [NoView EXCEPT !.session = yes]
  OBVIOUS
<1>4. NoView = [session |-> no, match |-> None, chat |-> <<>>, draft |-> None, pending |-> None,
                moving |-> no, returning |-> no]
  BY <1>2 DEF NoView
<1>5. v = [session |-> yes, match |-> None, chat |-> <<>>, draft |-> None, pending |-> None,
           moving |-> no, returning |-> no]
  BY <1>3, <1>4
<1>6. [NoView EXCEPT !.session = no] = NoView
  BY <1>4
<1>7. view["host"] = v /\ view["guest"] = NoView
  BY <1>2, <1>3, <1>6 DEF Init, Players
<1>8. v \in View /\ NoView \in View
  <2>1. <<>> \in Seq(Message)
    OBVIOUS
  <2> QED BY <1>2, <1>4, <1>5, <2>1 DEF View
<1>9. /\ w.room = [guest |-> FALSE, match |-> None, chat |-> <<>>, said |-> 0, starter |-> "host"]
      /\ w.record = None /\ w.side["host"] = [state |-> "new", link |-> 0]
      /\ w.side["guest"] = [state |-> "dead", link |-> 0]
      /\ w.wire["host"] = <<>> /\ w.wire["guest"] = <<>> /\ w.view["host"] = v
      /\ w.view["guest"] = NoView /\ (\A p \in Players : w.attempt[p] = "none")
      /\ w.online = yes /\ w.control = "none" /\ w.saved = no /\ w.finalized = no /\ w.links = 0
  <2>1. /\ room = [guest |-> FALSE, match |-> None, chat |-> <<>>, said |-> 0, starter |-> "host"]
        /\ record = None /\ control = "none" /\ links = 0
    BY DEF Init
  <2>2. online = yes /\ saved = no /\ finalized = no
    BY <1>2 DEF Init
  <2>3. side["host"] = [state |-> "new", link |-> 0] /\ side["guest"] = [state |-> "dead", link |-> 0]
    BY DEF Init, Players
  <2>4. wire["host"] = <<>> /\ wire["guest"] = <<>> /\ \A p \in Players : attempt[p] = "none"
    BY DEF Init, Players
  <2> QED BY <1>1, <1>7, <2>1, <2>2, <2>3, <2>4, NowIs
<1>10. Shaped(w)
  <2>1. /\ side = [p \in Players |-> side[p]] /\ wire = [p \in Players |-> wire[p]]
        /\ view = [p \in Players |-> view[p]] /\ attempt = [p \in Players |-> attempt[p]]
    BY DEF Init
  <2> QED BY <1>1, <2>1 DEF Now, Shaped
<1>11. PICK c : c = Picture(NoView)
  OBVIOUS
<1>12. c = [at |-> "out", match |-> None, chat |-> <<>>]
  BY <1>2, <1>4, <1>11 DEF Picture
<1>13. ~Live(w)
  BY <1>9 DEF Live
<1>14. RoomOK(w.room)
  <2>1. <<>> \in Seq(Message)
    OBVIOUS
  <2>2. w.room \in Room
    BY <1>9, <2>1 DEF Room, Players
  <2>3. Rises(w.room.chat) /\ UpTo(w.room.chat, w.room.said) /\ Len(w.room.chat) = 0
    BY <1>9 DEF Rises, UpTo
  <2> QED BY <1>9, <2>2, <2>3, DirectAssumption DEF RoomOK
<1>15. HostPage(w.view["host"], w.room)
  <2>1. v.match = None /\ v.chat = <<>> /\ v.session = yes /\ v.returning = no
    BY <1>5
  <2>2. Rises(v.chat) /\ UpTo(v.chat, w.room.said) /\ Shows(v.match, w.room.match)
    BY <2>1 DEF Rises, UpTo, Shows
  <2> QED BY <1>2, <1>8, <1>9, <2>1, <2>2 DEF HostPage
<1>16. Calm(w, c)
  <2>1. c \in Pictures /\ Rises(c.chat)
    <3>1. <<>> \in Seq(Message)
      OBVIOUS
    <3> QED BY <1>12, <3>1 DEF Pictures, Rises
  <2>2. Ends(Picture(w.view["guest"]), w.wire["guest"], c)
    BY <1>9, <1>11, <2>1, EndsAtOnce
  <2>3. w.wire["guest"] \in Seq(Event)
    BY <1>9
  <2>4. /\ w.record = None /\ w.control = "none" /\ w.side["host"].state # "open"
    BY <1>9
  <2> QED BY <1>10, <1>13, <1>14, <1>15, <2>2, <2>3, <2>4 DEF Calm
<1>17. Promised(w, c) /\ Owed(w)
  BY <1>13 DEF Promised, Owed
<1>18. Wires(w)
  <2>1. w.side["host"] \in [state : States, link : 0..MaxLinks]
        /\ w.side["guest"] \in [state : States, link : 0..MaxLinks] /\ w.links \in 0..MaxLinks
    BY <1>9, DirectAssumption DEF States
  <2>2. EndOK(w, "host") /\ EndOK(w, "guest")
    BY <1>9, <2>1 DEF EndOK
  <2>3. w.wire["host"] \in Seq(Command) /\ w.wire["guest"] \in Seq(Event)
    BY <1>9
  <2> QED BY <2>1, <2>2, <2>3 DEF Wires
<1>19. GuestFits(w)
  <2>1. /\ NoView.session = no /\ NoView.returning = no /\ NoView.pending = None
        /\ NoView.moving = no
    BY <1>4
  <2> QED BY <1>2, <1>8, <1>9, <2>1 DEF GuestFits, GuestPage
<1>20. Records(w, "creating-offer")
  <2>1. ~Recovers(w)
    BY <1>9 DEF Recovers
  <2>2. v.session
    BY <1>2, <1>5
  <2>3. /\ w.side["host"].link = 0 /\ w.side["guest"].link = 0
        /\ w.side["host"].state = "new" /\ w.side["guest"].state = "dead"
    BY <1>9
  <2>4. w.online \in BOOLEAN /\ w.saved \in BOOLEAN /\ w.finalized \in BOOLEAN /\ ~w.saved
    BY <1>2, <1>9
  <2>5. ~w.room.guest /\ w.view["host"].session
    BY <1>9, <2>2
  <2> QED BY <1>9, <2>1, <2>3, <2>4, <2>5 DEF Records, Players
<1>21. HostFree(w)
  <2>1. v.moving = no /\ v.pending = None
    BY <1>5
  <2> QED BY <1>2, <1>9, <2>1 DEF HostFree
<1>22. hosting.stage = "creating-offer"
  BY DEF Init, InitSetup, NewHost
<1> QED BY <1>1, <1>10, <1>16, <1>17, <1>18, <1>19, <1>20, <1>21, <1>22 DEF MatchInv, DirectInv, Safe

\* Every step of the match and of its setup.
LEMMA MatchKeeps ==
    ASSUME MatchInv, SetupTypeOK, [Next]_vars
    PROVE  MatchInv' /\ Backs(Now, Now')
<1>1. ASSUME NEW p \in Players, \E o \in {"keep", "pass", "win"} : SubmitCellAction(p, o)
      PROVE  MatchInv' /\ Backs(Now, Now')
  BY <1>1, MoveKeeps
<1>2. ASSUME NEW p \in Players, ResignMatch(p) \/ Rematch(p) PROVE MatchInv' /\ Backs(Now, Now')
  BY <1>2, ResignKeeps, VoteKeeps
<1>3. ASSUME NEW p \in Players, \E text \in Texts : SendChatMessage(p, text) PROVE MatchInv' /\ Backs(Now, Now')
  BY <1>3, SayKeeps
<1>4. ASSUME NEW p \in Players, Open(p) \/ Break(p) \/ CloseEvent(p) \/ Deliver(p) PROVE MatchInv' /\ Backs(Now, Now')
  BY <1>4, OpenKeeps, BreakKeeps, CloseKeeps, DeliverKeeps
<1>5. ASSUME NEW p \in Players, AttemptEnds(p) \/ AttemptFails(p) \/ OpenRoom(p) PROVE MatchInv' /\ Backs(Now, Now')
  BY <1>5, AttemptEndsKeeps, AttemptFailsKeeps, OpenRoomKeeps
<1>6. CASE SetupGoesOn \/ FirstLink \/ FinalizeSetup \/ HostSetupFails
  BY <1>6, SetupGoesKeeps, FirstLinkKeeps, FinalizeSetupKeeps, SetupFailsKeeps
<1>7. CASE \E g \in Guests : GuestStartsOver(g)
  BY <1>7, StartsOverKeeps
<1>8. CASE Registered \/ RegisterFails \/ Pair \/ Retry
  BY <1>8, ControlGoes, PairKeeps
<1>9. CASE UNCHANGED vars
  <2>1. Now' = Now /\ hosting'.stage = hosting.stage
    BY <1>9 DEF vars, matchVars, setupVars, Now
  <2>2. Backs(Now, Now')
    BY <2>1 DEF Backs, Recoverable
  <2> QED BY <2>1, <2>2 DEF MatchInv
<1> QED BY <1>1, <1>2, <1>3, <1>4, <1>5, <1>6, <1>7, <1>8, <1>9 DEF Next

\* The invariant types the variables.
LEMMA MatchIsTyped == MatchInv /\ SetupTypeOK => TypeOK
<1> SUFFICES ASSUME MatchInv, SetupTypeOK PROVE TypeOK
  OBVIOUS
<1>1. PICK c : Calm(Now, c)
  BY DEF MatchInv, DirectInv, Safe
<1>2. Shaped(Now) /\ Wires(Now) /\ GuestFits(Now) /\ Records(Now, hosting.stage) /\ HostFree(Now)
  BY DEF MatchInv, DirectInv, Safe
<1>3. /\ RoomOK(room) /\ (record # None => RoomOK(record)) /\ HostPage(view["host"], room)
      /\ GuestPage(view["guest"]) /\ view["host"].pending = None
  BY <1>1, <1>2, NowIs DEF Calm, GuestFits, HostFree
<1>4. /\ side = [p \in Players |-> side[p]] /\ view = [p \in Players |-> view[p]]
      /\ attempt = [p \in Players |-> attempt[p]]
  BY <1>2, NowIs DEF Shaped
<1>5. room \in Room /\ record \in Room \cup {None} /\ (room.guest <=> room.match # None)
      /\ Len(room.chat) <= HistoryLimit
  BY <1>3 DEF RoomOK
<1>6. \A r \in {room} \cup ({record} \ {None}) :
          \A i, j \in DOMAIN r.chat : i < j => r.chat[i].id < r.chat[j].id
  BY <1>3 DEF RoomOK, Rises
<1>7. \A p \in Players : view[p] \in View
  BY <1>3 DEF HostPage, GuestPage, Players
<1>8. \A p \in Players : view[p].pending = None \/ view[p].draft = None
  BY <1>3 DEF GuestPage, Players
<1>9. \A p \in Players : \A i, j \in DOMAIN view[p].chat :
          i < j => view[p].chat[i].id < view[p].chat[j].id
  <2>1. Rises(view["host"].chat)
    BY <1>3 DEF HostPage
  <2>2. Rises(view["guest"].chat)
    <3>1. Ends(Picture(view["guest"]), wire["guest"], c) /\ wire["guest"] \in Seq(Event)
      BY <1>1, NowIs DEF Calm
    <3>2. Rises(Picture(view["guest"]).chat)
      BY <3>1, EndsAreTyped
    <3> QED BY <3>2 DEF Picture
  <2> QED BY <2>1, <2>2 DEF Rises, Players
<1>10. \A p \in Players : side[p] \in [state : {"new", "opening", "open", "closing", "lost", "dead"},
                                       link : 0..MaxLinks]
  BY <1>2, NowIs DEF Wires, EndOK, States, Players
<1>11. /\ \A p \in Players : attempt[p] \in {"none", "restoring", "running", "retry"}
       /\ control \in {"none", "registering", "sent"}
       /\ online \in BOOLEAN /\ saved \in BOOLEAN /\ finalized \in BOOLEAN
  BY <1>2, NowIs DEF Records
<1>12. view \in [Players -> View]
  BY <1>4, <1>7
<1>13. side \in [Players -> [state : {"new", "opening", "open", "closing", "lost", "dead"},
                             link : 0..MaxLinks]]
  BY <1>4, <1>10
<1>14. attempt \in [Players -> {"none", "restoring", "running", "retry"}]
  BY <1>4, <1>11
<1> QED BY <1>5, <1>6, <1>8, <1>9, <1>11, <1>12, <1>13, <1>14 DEF TypeOK

\* What the guest's page shows when nothing is under way is the picture of its end.
LEMMA GuestIsThere == MatchInv => GuestConverges
<1> SUFFICES ASSUME MatchInv, Connected, \A p \in Players : wire[p] = <<>>, room.guest
             PROVE  /\ view["guest"].session
                    /\ view["guest"].match = room.match
                    /\ Suffix(room.chat, view["guest"].chat)
  BY DEF GuestConverges
<1>1. PICK c : Calm(Now, c) /\ Promised(Now, c)
  BY DEF MatchInv, DirectInv, Safe
<1>2. /\ Now.side["host"].state = "open" /\ Now.side["guest"].state = "open" /\ Linked(Now)
      /\ Now.wire["host"] = <<>> /\ Now.wire["guest"] = <<>> /\ Now.room.guest
  BY NowIs DEF Connected, Players
<1>3. Live(Now)
  BY <1>1, <1>2 DEF Live, Calm
<1>4. ~Asks(Now)
  BY <1>2 DEF Asks
<1>5. Final(c, Now.room)
  BY <1>1, <1>2, <1>3, <1>4 DEF Promised
<1>6. c = Picture(Now.view["guest"])
  BY <1>1, <1>2, EndsAtOnce DEF Calm
<1> QED BY <1>5, <1>6, NowIs DEF Final, Picture

\* What a page waits for is owed to it.
LEMMA NobodyBlocks == MatchInv => NothingBlocksForEver
<1> SUFFICES ASSUME MatchInv, Connected
             PROVE  /\ view["guest"].moving =>
                         UnderWay("host", {"move"}) \/ UnderWay("guest", {"match", "rejected", "error"})
                    /\ view["guest"].pending # None =>
                         UnderWay("host", {"chat"}) \/ UnderWay("guest", {"message", "chat-rejected"})
                    /\ ~view["host"].moving /\ view["host"].pending = None
  BY DEF NothingBlocksForEver
<1>1. PICK c : Calm(Now, c)
  BY DEF MatchInv, DirectInv, Safe
<1>2. Owed(Now) /\ HostFree(Now)
  BY DEF MatchInv, DirectInv, Safe
<1>3. Now.side["host"].state = "open" /\ Linked(Now)
  BY NowIs DEF Connected, Players
<1>4. Live(Now)
  BY <1>1, <1>3 DEF Live, Calm
<1>5. /\ Now.view["guest"].moving => MoveOwed(Now)
      /\ Now.view["guest"].pending # None => TextOwed(Now)
  BY <1>2, <1>3, <1>4 DEF Owed
<1>6. MoveOwed(Now) => UnderWay("host", {"move"}) \/ UnderWay("guest", {"match", "rejected", "error"})
  BY NowIs DEF MoveOwed, UnderWay, AnswersMove
<1>7. TextOwed(Now) => UnderWay("host", {"chat"}) \/ UnderWay("guest", {"message", "chat-rejected"})
  BY NowIs DEF TextOwed, UnderWay, AnswersText
<1> QED BY <1>2, <1>5, <1>6, <1>7, NowIs DEF HostFree

\* The host's page shows no earlier match of the same round.
LEMMA HostIsShown == MatchInv => HostSeesItsMatch
<1> SUFFICES ASSUME MatchInv, view["host"].match # None, view["host"].match.round = room.match.round
             PROVE  [view["host"].match EXCEPT !.guestOn = TRUE] = [room.match EXCEPT !.guestOn = TRUE]
  BY DEF HostSeesItsMatch
<1>1. HostPage(view["host"], room) /\ RoomOK(room)
  BY NowIs DEF MatchInv, DirectInv, Safe, Calm
<1>2. PICK m, n : m = view["host"].match /\ n = room.match
  OBVIOUS
<1>3. m \in Match /\ n \in Match /\ Same(m, n)
  BY <1>1, <1>2 DEF HostPage, Shows, View, RoomOK, Room, Match
<1> QED BY <1>2, <1>3, SameIs

\* Nobody can come back yet.
LEMMA RecoverableStarts == Init => Recoverable(Now)
<1> SUFFICES ASSUME Init PROVE Recoverable(Now)
  OBVIOUS
<1>1. Now.control = "none" /\ ~Now.saved /\ Now.wire["guest"] = <<>>
  BY NowIs DEF Init, Players
<1>2. Now.view["host"].session
  <2>1. MatchInv /\ ~room.guest
    BY MatchStarts DEF Init
  <2> QED BY <2>1, NowIs DEF MatchInv, DirectInv, Safe, Records
<1>3. ~Recovers(Now)
  BY <1>1 DEF Recovers
<1> QED BY <1>1, <1>2, <1>3 DEF Recoverable, Backed, Trails, Present

\* As long as the host's page stays in its room, the host can come back to its record.
LEMMA RecoverableKeeps ==
    ASSUME MatchInv, SetupTypeOK, [Next]_vars, Recoverable(Now), HostKeepsItsRoom'
    PROVE  Recoverable(Now)'
<1>1. MatchInv' /\ Backs(Now, Now')
  BY MatchKeeps
<1>2. Backed(Now') /\ Trails(Now') /\ (Present(Now') \/ Now'.online)
  BY <1>1 DEF Backs
<1>3. /\ Now'.online = online' /\ Now'.room = room' /\ Now'.view = view'
  BY DEF Now
<1>4. ~Now'.room.guest => Now'.view["host"].session
  BY <1>1 DEF MatchInv, DirectInv, Safe, Records
<1>5. Now'.online => Now'.view["host"].session
  BY <1>3, <1>4 DEF HostKeepsItsRoom
<1> QED BY <1>2, <1>5 DEF Recoverable, Present

\* Nothing that the guest has been shown is later than the room it can come back to.
LEMMA HostIsAhead == MatchInv /\ Recoverable(Now) => HostNeverBehindGuest
<1> SUFFICES ASSUME MatchInv, Recoverable(Now), saved
             PROVE  /\ StoredRecord # None
                    /\ \A m \in Snapshots : m # None => room.match # None /\ Behind(m, room.match)
  BY DEF HostNeverBehindGuest
<1>1. control = "sent" /\ record # None /\ RoomOK(record) /\ record.guest
  BY NowIs DEF MatchInv, DirectInv, Safe, Records, Calm
<1>2. StoredRecord # None
  BY <1>1 DEF StoredRecord, SoundRecord, RoomOK
<1>3. AllPassed(view["guest"], wire["guest"], room)
  BY NowIs DEF Recoverable, Trails
<1> QED BY <1>2, <1>3 DEF AllPassed, Passed, Snapshots

-----------------------------------------------------------------------------
\* A step of the match or of its setup keeps the setup's invariant.
LEMMA SetupKeeps ==
    ASSUME SetupInv, [Next]_vars
    PROVE  SetupInv'
<1> SUFFICES ASSUME SetupInv, [SetupNext]_setupVars PROVE SetupInv'
  BY MatchStep
<1>1. CASE UNCHANGED setupVars
  BY <1>1 DEF setupVars, SetupInv, SetupTypeOK, Accepted
<1> QED BY <1>1, GuestKeeps, HostKeeps, OverKeeps DEF SetupNext

\* A guest who was told that its answer was taken is the one the host connects to,
\* however many open the link, lose replies, reload or try again.
THEOREM HostConnectsToThatGuest == Spec => []OneGuestPerLink
<1>1. SetupInv => OneGuestPerLink
  <2> SUFFICES ASSUME SetupInv, NEW g \in Guests, Accepted(g)
               PROVE  hosting.applied \in {None, g}
    BY DEF OneGuestPerLink, Accepted
  <2>1. invite # None
    BY DEF SetupInv, NewPage, Accepted
  <2> QED BY <2>1 DEF SetupInv
<1>2. SetupInv /\ [Next]_vars => SetupInv'
  BY SetupKeeps
<1> QED BY <1>1, <1>2, SetupStarts, PTL DEF Spec

\* Both invariants hold in every state, whatever the two pages do.
THEOREM MatchInvariant == Spec => [](SetupInv /\ MatchInv)
<1>1. Init => SetupInv /\ MatchInv
  BY SetupStarts, MatchStarts
<1>2. SetupInv /\ MatchInv /\ [Next]_vars => (SetupInv /\ MatchInv)'
  <2> SUFFICES ASSUME SetupInv, MatchInv, [Next]_vars PROVE (SetupInv /\ MatchInv)'
    OBVIOUS
  <2>1. SetupInv'
    BY SetupKeeps
  <2>2. MatchInv'
    BY MatchKeeps DEF SetupInv
  <2> QED BY <2>1, <2>2
<1> QED BY <1>1, <1>2, PTL DEF Spec

\* The variables keep their types: the host stores at most HistoryLimit messages, each
\* once and in order, and no page has a second copy of one.
THEOREM DirectMatchIsTyped == Spec => []TypeOK
<1>1. SetupInv /\ MatchInv => TypeOK
  BY MatchIsTyped DEF SetupInv
<1> QED BY <1>1, MatchInvariant, PTL

\* A guest on an open channel with nothing under way shows the host's match, and the end of
\* its chat is the host's history: however often the channel broke, either page was reloaded
\* or a fan-out threw half-way.
THEOREM GuestSeesTheRoom == Spec => []GuestConverges
<1>1. MatchInv => GuestConverges
  BY GuestIsThere
<1> QED BY <1>1, MatchInvariant, PTL

\* A page that waits for the reply to a move, or to a message, over an open channel has it
\* under way, or the request is.
THEOREM RepliesAreUnderWay == Spec => []NothingBlocksForEver
<1>1. MatchInv => NothingBlocksForEver
  BY NobodyBlocks
<1> QED BY <1>1, MatchInvariant, PTL

\* The host's page shows the match that the host serves, within one round.
THEOREM HostSeesTheRoom == Spec => []HostSeesItsMatch
<1>1. MatchInv => HostSeesItsMatch
  BY HostIsShown
<1> QED BY <1>1, MatchInvariant, PTL

HostRecoverable == Recoverable(Now)

\* As long as the host's page stays in its room, the host's record takes nothing back that the
\* guest has been shown: a reload of the host finds it, and the match in it is not earlier.
THEOREM RefreshTakesNothingBack == Spec /\ []HostKeepsItsRoom => []HostNeverBehindGuest
<1>1. Init => HostRecoverable
  BY RecoverableStarts DEF HostRecoverable
<1>2. SetupInv /\ MatchInv /\ HostRecoverable /\ [Next]_vars /\ HostKeepsItsRoom'
          => HostRecoverable'
  <2> SUFFICES ASSUME SetupInv, MatchInv, Recoverable(Now), [Next]_vars, HostKeepsItsRoom'
               PROVE  Recoverable(Now)'
    BY DEF HostRecoverable
  <2> QED BY RecoverableKeeps DEF SetupInv
<1>3. MatchInv /\ HostRecoverable => HostNeverBehindGuest
  BY HostIsAhead DEF HostRecoverable
<1> QED BY <1>1, <1>2, <1>3, MatchInvariant, PTL DEF Spec
=============================================================================
