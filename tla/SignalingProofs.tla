-------------------------- MODULE SignalingProofs --------------------------
(***************************************************************************)
(* The signaling service keeps its promises for any number of processes,   *)
(* requests in flight, instances and requests.                             *)
(*                                                                         *)
(* First the service implements SignalingRecords: what a request read is   *)
(* what it permits, and its save finds the same record or saves nothing.   *)
(* Then what records promise is proved of SignalingRecords, where requests *)
(* are applied one at a time, and holds of the service for that reason.    *)
(***************************************************************************)
EXTENDS Signaling, FiniteSetTheorems, TLAPS

RequestOK(q) ==
    /\ q.op \in {"create", "register"} \cup SessionOps \cup ControlOps
    /\ q.role \in Roles /\ q.from \in Instances
    /\ q.op \in {"create", "offer"} => q.value \in Offers
    /\ q.op \in {"submit", "answer"} => q.value \in Answers
    /\ q.op \in {"offer", "answer"} => q.value = q.from
    /\ q.op = "finalize" => q.value \in Outcomes
    /\ q.at \in Nat

\* A claimed attempt bears the names of its claimants.
OfClaimants(c) ==
    /\ c.attempt.status \in {"offer-ready", "answer-ready"} =>
          c.attempt.offer = c.claim["host"] /\ c.attempt.offer # None
    /\ c.attempt.status = "answer-ready" =>
          c.attempt.answer = c.claim["guest"] /\ c.attempt.answer # None

ControlOK(c) == c \in Controls /\ OfClaimants(c)

\* RosterAssumption, of a request that came in at some time.
LEMMA RosterOK ==
    ASSUME NEW q \in Roster, NEW at \in Nat
    PROVE  RequestOK(At(q, at))
  BY RosterAssumption DEF RequestOK, At

-----------------------------------------------------------------------------
(***************************************************************************)
(* What the rules do to a control session.                                 *)
(***************************************************************************)
\* The fields of a control session.
LEMMA ControlFields ==
    ASSUME NEW c \in Controls
    PROVE  /\ c = [state |-> c.state, claim |-> c.claim, attempt |-> c.attempt,
                   expiresAt |-> c.expiresAt]
           /\ c.state \in {"open", "finalized"}
           /\ c.claim \in [Roles -> Instances \cup {None}]
           /\ c.attempt \in Attempts /\ c.expiresAt \in Nat
           /\ c.attempt = [status |-> c.attempt.status, offer |-> c.attempt.offer,
                           answer |-> c.attempt.answer, outcome |-> c.attempt.outcome]
           /\ c.attempt.status \in {"idle", "offer-ready", "answer-ready", "finalized"}
           /\ c.attempt.offer \in Offers \cup {None}
           /\ c.attempt.answer \in Answers \cup {None}
           /\ c.attempt.outcome \in Outcomes \cup {None}
  BY DEF Controls, Attempts

\* What WithAttempt makes of a control session.
LEMMA AttemptReplaced ==
    ASSUME NEW c \in Controls, NEW state, NEW attempt
    PROVE  WithAttempt(c, state, attempt) =
               [state |-> state, claim |-> c.claim, attempt |-> attempt,
                expiresAt |-> c.expiresAt]
<1> DEFINE d == [c EXCEPT !.state = state]
<1>1. d = [state |-> state, claim |-> c.claim, attempt |-> c.attempt,
           expiresAt |-> c.expiresAt]
  BY DEF Controls
<1>2. [c EXCEPT !.state = state, !.attempt = attempt] = [d EXCEPT !.attempt = attempt]
  OBVIOUS
<1> HIDE DEF d
<1>3. [d EXCEPT !.attempt = attempt] =
          [state |-> state, claim |-> c.claim, attempt |-> attempt, expiresAt |-> c.expiresAt]
  BY <1>1
<1> QED BY <1>2, <1>3 DEF WithAttempt

\* A sound attempt makes a sound control session.
LEMMA AttemptReplacedOK ==
    ASSUME NEW c \in Controls, NEW state \in {"open", "finalized"},
           NEW attempt \in Attempts,
           attempt.status \in {"offer-ready", "answer-ready"} =>
               attempt.offer = c.claim["host"] /\ attempt.offer # None,
           attempt.status = "answer-ready" =>
               attempt.answer = c.claim["guest"] /\ attempt.answer # None
    PROVE  ControlOK(WithAttempt(c, state, attempt))
  BY AttemptReplaced, ControlFields DEF ControlOK, OfClaimants, Controls

\* An attempt is offered.
LEMMA OfferSet ==
    ASSUME NEW a \in Attempts, NEW status, NEW x
    PROVE  [a EXCEPT !.status = status, !.offer = x] =
               [status |-> status, offer |-> x, answer |-> a.answer, outcome |-> a.outcome]
<1> DEFINE b == [a EXCEPT !.status = status]
<1>1. b = [status |-> status, offer |-> a.offer, answer |-> a.answer, outcome |-> a.outcome]
  BY DEF Attempts
<1>2. [a EXCEPT !.status = status, !.offer = x] = [b EXCEPT !.offer = x]
  OBVIOUS
<1> HIDE DEF b
<1>3. [b EXCEPT !.offer = x] = [status |-> status, offer |-> x, answer |-> a.answer, outcome |-> a.outcome]
  BY <1>1
<1> QED BY <1>2, <1>3

\* An attempt is answered, or its answer dropped.
LEMMA AnswerSet ==
    ASSUME NEW a \in Attempts, NEW status, NEW x
    PROVE  [a EXCEPT !.status = status, !.answer = x] =
               [status |-> status, offer |-> a.offer, answer |-> x, outcome |-> a.outcome]
<1> DEFINE b == [a EXCEPT !.status = status]
<1>1. b = [status |-> status, offer |-> a.offer, answer |-> a.answer, outcome |-> a.outcome]
  BY DEF Attempts
<1>2. [a EXCEPT !.status = status, !.answer = x] = [b EXCEPT !.answer = x]
  OBVIOUS
<1> HIDE DEF b
<1>3. [b EXCEPT !.answer = x] = [status |-> status, offer |-> a.offer, answer |-> x, outcome |-> a.outcome]
  BY <1>1
<1> QED BY <1>2, <1>3

\* An attempt is finalized.
LEMMA OutcomeSet ==
    ASSUME NEW a \in Attempts, NEW status, NEW x
    PROVE  [a EXCEPT !.status = status, !.outcome = x] =
               [status |-> status, offer |-> a.offer, answer |-> a.answer, outcome |-> x]
<1> DEFINE b == [a EXCEPT !.status = status]
<1>1. b = [status |-> status, offer |-> a.offer, answer |-> a.answer, outcome |-> a.outcome]
  BY DEF Attempts
<1>2. [a EXCEPT !.status = status, !.outcome = x] = [b EXCEPT !.outcome = x]
  OBVIOUS
<1> HIDE DEF b
<1>3. [b EXCEPT !.outcome = x] = [status |-> status, offer |-> a.offer, answer |-> a.answer, outcome |-> x]
  BY <1>1
<1> QED BY <1>2, <1>3

\* A dropped attempt is a sound one.
LEMMA IdleAttemptOK == IdleAttempt \in Attempts /\ IdleAttempt.status = "idle"
  BY DEF IdleAttempt, Attempts

\* A session as it is registered.
LEMMA RegisteredOK ==
    ASSUME NEW at \in Nat
    PROVE  ControlOK(RegisteredControl(at))
  BY IdleAttemptOK, RulesAssumption
     DEF RegisteredControl, ControlOK, OfClaimants, Controls

\* claimReconnectRole leaves nothing in the attempt of an instance it replaces.
LEMMA ClaimedOK ==
    ASSUME NEW c, ControlOK(c), NEW role \in Roles, NEW i \in Instances
    PROVE  ControlOK(Claimed(c, role, i))
<1> DEFINE d == [c EXCEPT !.claim[role] = i]
<1>1. /\ d = [state |-> c.state, claim |-> [c.claim EXCEPT ![role] = i],
              attempt |-> c.attempt, expiresAt |-> c.expiresAt]
      /\ [c.claim EXCEPT ![role] = i] \in [Roles -> Instances \cup {None}]
  BY ControlFields DEF ControlOK, Controls
<1>2. d \in Controls
  BY <1>1, ControlFields DEF ControlOK, Controls
<1>3. None \notin Instances /\ "host" \in Roles /\ "guest" \in Roles
  BY RulesAssumption DEF Instances, Roles
<1>4. CASE c.claim[role] \in {None, i}
  <2>1. OfClaimants(d)
    BY <1>1, <1>3, <1>4, ControlFields DEF ControlOK, OfClaimants
  <2> QED BY <1>2, <1>4, <2>1 DEF Claimed, ControlOK
<1>5. CASE c.claim[role] \notin {None, i}
  <2>1. Claimed(c, role, i) = Reconciled(d, role)
    BY <1>5 DEF Claimed
  <2> HIDE DEF d
  <2>2. d.attempt = c.attempt /\ d.claim = [c.claim EXCEPT ![role] = i]
    BY <1>1
  <2> DEFINE stale == \/ WasAborted(d.attempt)
                      \/ role = "host" /\ d.attempt.status \in {"offer-ready", "answer-ready"}
             answered == role = "guest" /\ d.attempt.status = "answer-ready"
             reopened == [d.attempt EXCEPT !.status = "offer-ready", !.answer = None]
  <2>3. CASE stale
    <3>1. Reconciled(d, role) = WithAttempt(d, "open", IdleAttempt)
      BY <2>3 DEF Reconciled
    <3> QED BY <3>1, <1>2, <2>1, AttemptReplacedOK, IdleAttemptOK
  <2>4. CASE ~stale /\ answered
    <3>1. Reconciled(d, role) = WithAttempt(d, "open", reopened)
      BY <2>4 DEF Reconciled
    <3>2. reopened = [status |-> "offer-ready", offer |-> d.attempt.offer, answer |-> None,
                      outcome |-> d.attempt.outcome]
      <4>1. PICK a \in Attempts : a = d.attempt
        BY <1>2, ControlFields
      <4>2. [a EXCEPT !.status = "offer-ready", !.answer = None] =
                [status |-> "offer-ready", offer |-> a.offer, answer |-> None,
                 outcome |-> a.outcome]
        BY AnswerSet
      <4> QED BY <4>1, <4>2
    <3> HIDE DEF reopened
    <3>3. reopened \in Attempts /\ reopened.status = "offer-ready"
      BY <3>2, <1>2, ControlFields DEF Attempts
    <3>4. d.claim["host"] = c.claim["host"]
      BY <2>2, <2>4, <1>3, ControlFields DEF ControlOK
    <3>5. reopened.offer = d.claim["host"] /\ reopened.offer # None
      BY <2>2, <2>4, <3>2, <3>4 DEF ControlOK, OfClaimants
    <3> QED BY <3>1, <3>3, <3>5, <1>2, <2>1, AttemptReplacedOK
  <2>5. CASE ~stale /\ ~answered
    <3>1. Reconciled(d, role) = d
      BY <2>5 DEF Reconciled
    <3>2. OfClaimants(d)
      BY <2>2, <2>5, <1>3, ControlFields DEF ControlOK, OfClaimants, Roles
    <3> QED BY <2>1, <3>1, <3>2, <1>2 DEF ControlOK
  <2> QED BY <2>3, <2>4, <2>5
<1> QED BY <1>4, <1>5

\* What a permitted request makes of a sound control session is sound.
LEMMA OutcomeOK ==
    ASSUME NEW c, ControlOK(c), NEW q, RequestOK(q), q.op \in ControlOps, Permits(c, q)
    PROVE  ControlOK(Outcome(c, q))
<1>1. ASSUME NEW e, ControlOK(e)
      PROVE  ControlOK(Refreshed(e, q.at))
  <2>1. Refreshed(e, q.at) = [state |-> e.state, claim |-> e.claim, attempt |-> e.attempt,
                              expiresAt |-> q.at + Ttl]
    BY <1>1 DEF Refreshed, ControlOK, Controls
  <2>2. q.at + Ttl \in Nat
    BY RulesAssumption DEF RequestOK
  <2> QED BY <1>1, <2>1, <2>2, ControlFields DEF ControlOK, Controls, OfClaimants
<1>2. SUFFICES ControlOK(Updated(c, q))
  BY <1>1 DEF Outcome, SessionOps, ControlOps
<1>8. c \in Controls /\ c.attempt \in Attempts
  BY ControlFields DEF ControlOK
<1>3. CASE q.op = "claim"
  BY <1>3, ClaimedOK DEF Updated, RequestOK
<1>4. CASE q.op = "heartbeat"
  BY <1>4 DEF Updated
<1>5. CASE q.op = "offer"
  <2> DEFINE attempt == [IdleAttempt EXCEPT !.status = "offer-ready", !.offer = q.value]
  <2>1. HasRole(c, "host", q.from) /\ q.value \in Offers /\ q.value = q.from
    BY <1>5 DEF Permits, RequestOK
  <2>2. Updated(c, q) = WithAttempt(c, "open", attempt)
    BY <1>5 DEF Updated, WithOffer
  <2>3. attempt = [status |-> "offer-ready", offer |-> q.value, answer |-> IdleAttempt.answer,
                   outcome |-> IdleAttempt.outcome]
    BY OfferSet, IdleAttemptOK
  <2> HIDE DEF attempt
  <2>4. attempt \in Attempts /\ attempt.status = "offer-ready" /\ attempt.offer = q.value
    BY <2>1, <2>3, IdleAttemptOK DEF Attempts
  <2> QED BY <2>1, <2>2, <2>4, AttemptReplacedOK, RulesAssumption DEF ControlOK, HasRole
<1>6. CASE q.op = "answer"
  <2> DEFINE attempt == [c.attempt EXCEPT !.status = "answer-ready", !.answer = q.value]
  <2>1. HasRole(c, "guest", q.from) /\ q.value \in Answers /\ q.value = q.from /\ AwaitsAnswer(c)
    BY <1>6 DEF Permits, RequestOK
  <2>2. Updated(c, q) = WithAttempt(c, c.state, attempt)
    BY <1>6 DEF Updated, WithReconnectAnswer
  <2>3. attempt = [status |-> "answer-ready", offer |-> c.attempt.offer, answer |-> q.value,
                   outcome |-> c.attempt.outcome]
    <3>1. PICK a \in Attempts : a = c.attempt
      BY <1>8
    <3>2. [a EXCEPT !.status = "answer-ready", !.answer = q.value] =
              [status |-> "answer-ready", offer |-> a.offer, answer |-> q.value,
               outcome |-> a.outcome]
      BY AnswerSet
    <3> QED BY <3>1, <3>2
  <2> HIDE DEF attempt
  <2>4. /\ attempt \in Attempts /\ attempt.status = "answer-ready"
        /\ attempt.offer = c.attempt.offer /\ attempt.answer = q.value
    BY <2>1, <2>3, ControlFields DEF Attempts, ControlOK
  <2>5. attempt.offer = c.claim["host"] /\ attempt.offer # None
    BY <2>1, <2>4 DEF ControlOK, OfClaimants, AwaitsAnswer
  <2>6. attempt.answer = c.claim["guest"] /\ attempt.answer # None
    BY <2>1, <2>4, RulesAssumption DEF HasRole
  <2>7. c.state \in {"open", "finalized"}
    BY <1>8, ControlFields
  <2> QED BY <1>8, <2>2, <2>4, <2>5, <2>6, <2>7, AttemptReplacedOK
<1>7. CASE q.op = "finalize"
  <2> DEFINE attempt == [c.attempt EXCEPT !.status = "finalized", !.outcome = q.value]
  <2>1. Updated(c, q) = WithAttempt(c, "finalized", attempt)
    BY <1>7 DEF Updated, Finalized
  <2>2. attempt = [status |-> "finalized", offer |-> c.attempt.offer,
                   answer |-> c.attempt.answer, outcome |-> q.value]
    <3>1. PICK a \in Attempts : a = c.attempt
      BY <1>8
    <3>2. [a EXCEPT !.status = "finalized", !.outcome = q.value] =
              [status |-> "finalized", offer |-> a.offer, answer |-> a.answer,
               outcome |-> q.value]
      BY OutcomeSet
    <3> QED BY <3>1, <3>2
  <2> HIDE DEF attempt
  <2>3. attempt \in Attempts /\ attempt.status = "finalized"
    BY <1>7, <2>2, ControlFields DEF Attempts, ControlOK, RequestOK
  <2> QED BY <2>1, <2>3, AttemptReplacedOK DEF ControlOK
<1> QED BY <1>3, <1>4, <1>5, <1>6, <1>7 DEF ControlOps

-----------------------------------------------------------------------------
(***************************************************************************)
(* The rules of SignalingRecords are these rules.                          *)
(***************************************************************************)
\* What a request is applied to, and what it leaves.
Applies(q) ==
    LET k == RecordOf(q)
    IN  /\ q.op \in SessionOps \cup ControlOps /\ q.at \in 0 .. now
        /\ store[k] # None /\ ~Expired(store[k], q.at) /\ Permits(store[k], q)
        /\ store' = [store EXCEPT ![k] = Outcome(store[k], q)]
        /\ told' = IF q.op = "submit" THEN told \cup {q.value} ELSE told
        /\ UNCHANGED now

\* A request is permitted in both alike.
LEMMA SamePermits ==
    ASSUME NEW r, NEW q
    PROVE  Served!Permits(r, q) <=> Permits(r, q)
  BY DEF Served!Permits, Permits, Served!TakesAnswer, TakesAnswer, Served!RoleOf, RoleOf,
         Served!HasRole, HasRole, Served!AwaitsAnswer, AwaitsAnswer

\* A request has the same outcome in both.
LEMMA SameOutcome ==
    ASSUME NEW r, NEW q
    PROVE  Served!Outcome(r, q) = Outcome(r, q)
  BY DEF Served!Outcome, Outcome, Served!NothingToDo, NothingToDo, Served!SessionOps,
         SessionOps, Served!Updated, Updated, Served!Refreshed, Refreshed,
         Served!WithAnswer, WithAnswer, Served!FinalizedSession, FinalizedSession,
         Served!Claimed, Claimed, Served!Reconciled, Reconciled,
         Served!WasAborted, WasAborted, Served!WithAttempt, WithAttempt,
         Served!IdleAttempt, IdleAttempt, Served!WithOffer, WithOffer,
         Served!WithReconnectAnswer, WithReconnectAnswer, Served!Finalized, Finalized

\* A request that SignalingRecords applies, and back.
LEMMA ServedApplies ==
    ASSUME NEW q
    PROVE  Served!Apply(q) <=> Applies(q)
<1>1. Served!RecordOf(q) = RecordOf(q)
  BY DEF Served!RecordOf, RecordOf, Served!SessionOps, SessionOps
<1>2. \A r, at : Served!Expired(r, at) <=> Expired(r, at)
  BY DEF Served!Expired, Expired
<1> QED
  BY <1>1, <1>2, SamePermits, SameOutcome
     DEF Served!Apply, Applies, Served!SessionOps, SessionOps, Served!ControlOps, ControlOps

\* A record as it is created in both.
LEMMA SameCreation ==
    ASSUME NEW x, NEW at
    PROVE  /\ Served!CreatedSession(x, at) = CreatedSession(x, at)
           /\ Served!RegisteredControl(at) = RegisteredControl(at)
  BY DEF Served!CreatedSession, CreatedSession, Served!RegisteredControl, RegisteredControl,
         Served!Roles, Roles, Served!IdleAttempt, IdleAttempt

-----------------------------------------------------------------------------
(***************************************************************************)
(* What SignalingRecords keeps.                                            *)
(***************************************************************************)
StoreInv ==
    /\ store = [k \in RecordKeys |-> store[k]]
    /\ store["session"] # None => store["session"] \in Sessions
    /\ store["control"] # None => ControlOK(store["control"])
    /\ now \in Nat
    /\ told = {} \/ \E a \in Answers : told = {a}
    /\ store["session"] # None => told = {store["session"].answer} \ {None}

\* The session that a permitted request leaves, and the answer in it.
LEMMA SessionOutcome ==
    ASSUME NEW s \in Sessions, NEW q, RequestOK(q), q.op \in SessionOps, Permits(s, q)
    PROVE  /\ Outcome(s, q) \in Sessions
           /\ q.op = "submit" => /\ s.answer = None /\ q.value \in Answers
                                 /\ Outcome(s, q).answer = q.value
           /\ q.op # "submit" => Outcome(s, q).answer = s.answer
<1>1. CASE q.op = "submit"
  <2> DEFINE d == [s EXCEPT !.answer = q.value]
  <2>1. s.answer = None /\ q.value \in Answers
    BY <1>1 DEF Permits, TakesAnswer, RequestOK
  <2>2. Outcome(s, q) = [s EXCEPT !.answer = q.value, !.state = "answered"]
    BY <1>1 DEF Outcome, NothingToDo, SessionOps, Updated, WithAnswer
  <2>3. Outcome(s, q) = [d EXCEPT !.state = "answered"]
    BY <2>2
  <2>4. d = [state |-> s.state, offer |-> s.offer, answer |-> q.value,
             expiresAt |-> s.expiresAt]
    BY DEF Sessions
  <2> HIDE DEF d
  <2>5. [d EXCEPT !.state = "answered"] =
            [state |-> "answered", offer |-> s.offer, answer |-> q.value,
             expiresAt |-> s.expiresAt]
    BY <2>4
  <2> QED BY <1>1, <2>1, <2>3, <2>5 DEF Sessions
<1>2. CASE q.op = "finalize-session"
  <2>1. Outcome(s, q) \in {s, [s EXCEPT !.state = "finalized"]}
    BY <1>2 DEF Outcome, NothingToDo, SessionOps, Updated, FinalizedSession
  <2>2. [s EXCEPT !.state = "finalized"] =
            [state |-> "finalized", offer |-> s.offer, answer |-> s.answer,
             expiresAt |-> s.expiresAt]
    BY DEF Sessions
  <2> QED BY <1>2, <2>1, <2>2 DEF Sessions
<1> QED BY <1>1, <1>2 DEF SessionOps

\* One step of SignalingRecords.
LEMMA StoreKept ==
    StoreInv /\ [Served!Next]_<<store, told, now>> => StoreInv'
<1> SUFFICES ASSUME StoreInv, [Served!Next]_<<store, told, now>> PROVE StoreInv'
  OBVIOUS
<1> USE DEF RecordKeys
<1>1. CASE Served!Tick
  BY <1>1 DEF Served!Tick, StoreInv
<1>2. ASSUME NEW k \in RecordKeys, Served!Evict(k) PROVE StoreInv'
  BY <1>2 DEF Served!Evict, StoreInv
<1>3. ASSUME NEW k \in RecordKeys, NEW at \in 0 .. now, Served!Create(k, at) PROVE StoreInv'
  <2>1. CASE k = "session"
    <3>1. PICK offer \in Offers : store' = [store EXCEPT !["session"] = CreatedSession(offer, at)]
      BY <1>3, <2>1, SameCreation DEF Served!Create
    <3>2. told' = {} /\ now' = now
      BY <1>3, <2>1 DEF Served!Create
    <3>3. CreatedSession(offer, at) \in Sessions /\ CreatedSession(offer, at).answer = None
      BY RulesAssumption DEF CreatedSession, Sessions, StoreInv
    <3> QED BY <3>1, <3>2, <3>3 DEF StoreInv
  <2>2. CASE k = "control"
    <3>1. store' = [store EXCEPT !["control"] = RegisteredControl(at)]
      BY <1>3, <2>2, SameCreation DEF Served!Create
    <3>2. told' = told /\ now' = now
      BY <1>3, <2>2 DEF Served!Create
    <3>3. ControlOK(RegisteredControl(at))
      BY RegisteredOK DEF StoreInv
    <3> QED BY <3>1, <3>2, <3>3 DEF StoreInv
  <2> QED BY <2>1, <2>2
<1>4. ASSUME NEW q0 \in Roster, NEW at \in 0 .. now, Served!Apply(Served!At(q0, at))
      PROVE  StoreInv'
  <2>1. PICK q : q = At(q0, at)
    OBVIOUS
  <2>2. Applies(q) /\ RequestOK(q)
    BY <1>4, <2>1, ServedApplies, RosterOK DEF Served!At, At, StoreInv
  <2>3. CASE q.op \in SessionOps
    <3>1. store' = [store EXCEPT !["session"] = Outcome(store["session"], q)]
      BY <2>2, <2>3 DEF Applies, RecordOf
    <3>2. store["session"] \in Sessions /\ Permits(store["session"], q)
      BY <2>2, <2>3 DEF Applies, RecordOf, StoreInv
    <3>3. PICK s : s = Outcome(store["session"], q)
      OBVIOUS
    <3>4. /\ s \in Sessions
          /\ q.op = "submit" => /\ store["session"].answer = None /\ q.value \in Answers
                                /\ s.answer = q.value
          /\ q.op # "submit" => s.answer = store["session"].answer
      BY <2>2, <2>3, <3>2, <3>3, SessionOutcome
    <3>5. told' = {s.answer} \ {None} /\ (told' = {} \/ \E a \in Answers : told' = {a})
      <4>1. told = {store["session"].answer} \ {None}
        BY <2>2, <2>3 DEF Applies, RecordOf, StoreInv
      <4>2. CASE q.op = "submit"
        <5>1. told' = {q.value} /\ s.answer = q.value /\ q.value \in Answers
          BY <4>1, <4>2, <2>2, <3>4 DEF Applies
        <5> QED BY <5>1, RulesAssumption
      <4>3. CASE q.op # "submit"
        <5>1. told' = told /\ s.answer = store["session"].answer
          BY <4>3, <2>2, <3>4 DEF Applies
        <5> QED BY <4>1, <5>1 DEF StoreInv
      <4> QED BY <4>2, <4>3
    <3> QED BY <2>2, <3>1, <3>3, <3>4, <3>5 DEF Applies, StoreInv
  <2>4. CASE q.op \in ControlOps
    <3>1. store' = [store EXCEPT !["control"] = Outcome(store["control"], q)]
      BY <2>2, <2>4 DEF Applies, RecordOf, SessionOps, ControlOps
    <3>2. ControlOK(store["control"]) /\ Permits(store["control"], q)
      BY <2>2, <2>4 DEF Applies, RecordOf, SessionOps, ControlOps, StoreInv
    <3>3. ControlOK(Outcome(store["control"], q))
      BY <2>2, <2>4, <3>2, OutcomeOK
    <3>4. told' = told /\ now' = now
      BY <2>2, <2>4 DEF Applies, ControlOps
    <3> QED BY <3>1, <3>3, <3>4 DEF StoreInv
  <2> QED BY <2>2, <2>3, <2>4 DEF Applies
<1>5. CASE UNCHANGED <<store, told, now>>
  BY <1>5 DEF StoreInv
<1> QED BY <1>1, <1>2, <1>3, <1>4, <1>5 DEF Served!Next, Served!RecordKeys

\* The service starts with no record.
LEMMA StoreInit == Served!Init => StoreInv
  BY DEF Served!Init, StoreInv, Served!RecordKeys, RecordKeys

-----------------------------------------------------------------------------
(***************************************************************************)
(* The tasks: what a task is about to save, the rules gave to its copy.    *)
(***************************************************************************)
TaskShaped(task) ==
    task = [step |-> task.step, process |-> task.process, awaits |-> task.awaits,
            request |-> task.request, copy |-> task.copy]

ToSave(record, q) ==
    /\ ~IsCreation(q) /\ record # None /\ ~Expired(record, q.at)
    /\ Permits(record, q) /\ ~NothingToDo(record, q)

CameIn(q, time) == \E q0 \in Roster, at \in 0 .. time : q = At(q0, at)

TaskOK(task, time) ==
    /\ TaskShaped(task)
    /\ task.step \in {"run", "save"} /\ task.process \in Processes
    /\ CameIn(task.request, time)
    /\ task.step = "save" => ToSave(task.copy, task.request)

TasksOK ==
    /\ now \in Nat
    /\ tasks = [t \in Tasks |-> tasks[t]]
    /\ \A t \in Tasks : tasks[t] = NoTask \/ TaskOK(tasks[t], now)

\* A request that came in is one of the roster.
LEMMA CameInOK ==
    ASSUME NEW q, NEW time \in Nat, CameIn(q, time)
    PROVE  /\ RequestOK(q) /\ q.at \in 0 .. time
           /\ \A later \in Nat : time <= later => CameIn(q, later)
<1>1. PICK q0 \in Roster, at \in 0 .. time : q = At(q0, at)
  BY DEF CameIn
<1>2. RequestOK(q)
  BY <1>1, RosterOK
<1>3. q.at = at
  BY <1>1 DEF At
<1>4. ASSUME NEW later \in Nat, time <= later PROVE CameIn(q, later)
  <2>1. at \in 0 .. later
    BY <1>4
  <2> QED BY <1>1, <2>1 DEF CameIn
<1> QED BY <1>2, <1>3, <1>4

\* The promise a task awaited is resolved: nothing else of it changes.
LEMMA AwaitOver ==
    ASSUME NEW task, TaskShaped(task)
    PROVE  [task EXCEPT !.awaits = None] =
               [step |-> task.step, process |-> task.process, awaits |-> None,
                request |-> task.request, copy |-> task.copy]
  BY DEF TaskShaped

\* A task has read the record it may save, or forgets the one that has changed.
LEMMA StepTaken ==
    ASSUME NEW task, TaskShaped(task), NEW step, NEW copy
    PROVE  [task EXCEPT !.step = step, !.copy = copy] =
               [step |-> step, process |-> task.process, awaits |-> task.awaits,
                request |-> task.request, copy |-> copy]
<1> DEFINE d == [task EXCEPT !.step = step]
<1>1. d = [step |-> step, process |-> task.process, awaits |-> task.awaits,
           request |-> task.request, copy |-> task.copy]
  BY DEF TaskShaped
<1>2. [task EXCEPT !.step = step, !.copy = copy] = [d EXCEPT !.copy = copy]
  OBVIOUS
<1> HIDE DEF d
<1>3. [d EXCEPT !.copy = copy] =
          [step |-> step, process |-> task.process, awaits |-> task.awaits,
           request |-> task.request, copy |-> copy]
  BY <1>1
<1> QED BY <1>2, <1>3

\* The tasks that are left when one ends.
LEMMA FinishKeeps ==
    ASSUME TasksOK, NEW t \in Tasks, Finish(t), now' = now
    PROVE  TasksOK'
<1>1. tasks' = [u \in Tasks |->
                   IF u = t THEN NoTask
                   ELSE IF tasks[u].awaits = t THEN [tasks[u] EXCEPT !.awaits = None]
                   ELSE tasks[u]]
  BY DEF Finish
<1>2. ASSUME NEW u \in Tasks PROVE tasks'[u] = NoTask \/ TaskOK(tasks'[u], now)
  <2>1. CASE tasks[u] = NoTask
    <3>1. NoTask.awaits = None /\ None # t
      BY SignalingAssumption DEF NoTask
    <3> QED BY <1>1, <2>1, <3>1
  <2>2. CASE TaskOK(tasks[u], now)
    <3>1. PICK task : task = [tasks[u] EXCEPT !.awaits = None]
      OBVIOUS
    <3>2. task = [step |-> tasks[u].step, process |-> tasks[u].process, awaits |-> None,
                  request |-> tasks[u].request, copy |-> tasks[u].copy]
      BY <2>2, <3>1, AwaitOver DEF TaskOK
    <3>3. TaskOK(task, now)
      BY <2>2, <3>2 DEF TaskOK, TaskShaped
    <3> QED BY <1>1, <2>2, <3>1, <3>3
  <2> QED BY <2>1, <2>2 DEF TasksOK
<1>3. tasks' = [u \in Tasks |-> tasks'[u]]
  BY <1>1
<1> QED BY <1>2, <1>3 DEF TasksOK

\* One task makes a step within its request.
LEMMA StepKeeps ==
    ASSUME TasksOK, NEW t \in Tasks, tasks[t] # NoTask, NEW step \in {"run", "save"}, NEW copy,
           step = "save" => ToSave(copy, tasks[t].request),
           tasks' = [tasks EXCEPT ![t].step = step, ![t].copy = copy], now' = now
    PROVE  /\ TasksOK'
           /\ tasks' = [tasks EXCEPT ![t] = [step |-> step, process |-> tasks[t].process,
                            awaits |-> tasks[t].awaits, request |-> tasks[t].request,
                            copy |-> copy]]
<1>1. TaskOK(tasks[t], now)
  BY DEF TasksOK
<1>2. PICK task : task = [step |-> step, process |-> tasks[t].process,
                          awaits |-> tasks[t].awaits, request |-> tasks[t].request,
                          copy |-> copy]
  OBVIOUS
<1>3. [tasks[t] EXCEPT !.step = step, !.copy = copy] = task
  BY <1>1, <1>2, StepTaken DEF TaskOK
<1>4. tasks' = [tasks EXCEPT ![t] = [tasks[t] EXCEPT !.step = step, !.copy = copy]]
  BY DEF TasksOK
<1>5. tasks' = [tasks EXCEPT ![t] = task]
  BY <1>3, <1>4
<1>6. TaskOK(task, now)
  BY <1>1, <1>2 DEF TaskOK, TaskShaped
<1> QED BY <1>2, <1>5, <1>6 DEF TasksOK

\* Time passes.
LEMMA TimeKeeps ==
    ASSUME TasksOK, tasks' = tasks, now' \in Nat, now <= now'
    PROVE  TasksOK'
<1>1. ASSUME NEW t \in Tasks, TaskOK(tasks[t], now) PROVE TaskOK(tasks[t], now')
  BY <1>1, CameInOK DEF TaskOK, TasksOK
<1> QED BY <1>1 DEF TasksOK

\* One step of the service: the tasks, and what SignalingRecords sees of it.
LEMMA ServiceStep ==
    ASSUME TasksOK, StoreInv, [Next]_vars
    PROVE  TasksOK' /\ [Served!Next]_<<store, told, now>>
<1>1. ASSUME NEW t \in Tasks, Create(t)
      PROVE  TasksOK' /\ [Served!Next]_<<store, told, now>>
  <2> DEFINE q == tasks[t].request
  <2>1. Finish(t) /\ now' = now /\ tasks[t] # NoTask /\ IsCreation(q)
    BY <1>1 DEF Create, Inside
  <2>2. TasksOK'
    BY <2>1, FinishKeeps
  <2>3. TaskOK(tasks[t], now)
    BY <2>1 DEF TasksOK
  <2>4. RequestOK(q) /\ q.at \in 0 .. now
    BY <2>3, CameInOK DEF TaskOK, TasksOK
  <2>5. CASE UNCHANGED <<store, told>>
    BY <2>1, <2>2, <2>5
  <2>6. CASE q.op = "create" /\ ~UNCHANGED <<store, told>>
    <3>1. /\ store["session"] = None /\ told' = {}
          /\ store' = [store EXCEPT !["session"] = CreatedSession(q.value, q.at)]
      BY <1>1, <2>6 DEF Create
    <3>2. q.value \in Offers
      BY <2>4, <2>6 DEF RequestOK
    <3>3. Served!Create("session", q.at)
      BY <2>1, <2>4, <3>1, <3>2, SameCreation DEF Served!Create
    <3> QED BY <2>2, <2>4, <3>3 DEF Served!Next, Served!RecordKeys
  <2>7. CASE q.op = "register" /\ ~UNCHANGED <<store, told>>
    <3>1. /\ store["control"] = None /\ told' = told
          /\ store' = [store EXCEPT !["control"] = RegisteredControl(q.at)]
      BY <1>1, <2>7 DEF Create
    <3>2. Served!Create("control", q.at)
      BY <2>1, <2>4, <3>1, SameCreation DEF Served!Create
    <3> QED BY <2>2, <2>4, <3>2 DEF Served!Next, Served!RecordKeys
  <2> QED BY <2>1, <2>5, <2>6, <2>7 DEF IsCreation
<1>2. ASSUME NEW t \in Tasks, Read(t)
      PROVE  TasksOK' /\ [Served!Next]_<<store, told, now>>
  <2>1. UNCHANGED <<store, told, now>> /\ tasks[t] # NoTask /\ ~IsCreation(tasks[t].request)
    BY <1>2 DEF Read, Inside
  <2>2. CASE Finish(t)
    BY <2>1, <2>2, FinishKeeps
  <2>3. CASE ~Finish(t)
    <3>1. ToSave(Stored(tasks[t].request), tasks[t].request)
      BY <1>2, <2>1, <2>3 DEF Read, ToSave
    <3>2. tasks' = [tasks EXCEPT ![t].step = "save", ![t].copy = Stored(tasks[t].request)]
      BY <1>2, <2>3 DEF Read
    <3>3. PICK copy : copy = Stored(tasks[t].request)
      OBVIOUS
    <3>4. TasksOK'
      BY <2>1, <3>1, <3>2, <3>3, StepKeeps
    <3> QED BY <2>1, <3>4
  <2> QED BY <2>2, <2>3
<1>3. ASSUME NEW t \in Tasks, Save(t)
      PROVE  TasksOK' /\ [Served!Next]_<<store, told, now>>
  <2> DEFINE q == tasks[t].request
  <2>1. tasks[t].step = "save" /\ now' = now
    BY <1>3 DEF Save
  <2>2. tasks[t] # NoTask
    BY <2>1 DEF NoTask
  <2>3. TaskOK(tasks[t], now)
    BY <2>2 DEF TasksOK
  <2>4. CASE Unchanged(t) /\ Finish(t)
    <3>1. TasksOK'
      BY <2>1, <2>4, FinishKeeps
    <3>2. PICK q0 \in Roster, at \in 0 .. now : q = At(q0, at)
      BY <2>3 DEF TaskOK, CameIn
    <3>3. RequestOK(q) /\ q.at \in 0 .. now
      BY <2>3, CameInOK DEF TaskOK, TasksOK
    <3>4. ToSave(store[RecordOf(q)], q)
      BY <2>1, <2>3, <2>4 DEF TaskOK, Unchanged, Stored
    <3>5. CASE UNCHANGED <<store, told>>
      BY <2>1, <3>1, <3>5
    <3>6. CASE ~UNCHANGED <<store, told>>
      <4>1. /\ store' = [store EXCEPT ![RecordOf(q)] = Outcome(store[RecordOf(q)], q)]
            /\ told' = IF q.op = "submit" THEN told \cup {q.value} ELSE told
        BY <1>3, <2>4, <3>6 DEF Save, Unchanged, Stored
      <4>2. q.op \in SessionOps \cup ControlOps
        BY <3>3, <3>4 DEF RequestOK, ToSave, IsCreation
      <4>3. Applies(q)
        BY <2>1, <3>3, <3>4, <4>1, <4>2 DEF Applies, ToSave
      <4>4. Served!At(q0, at) = q
        BY <3>2 DEF Served!At, At
      <4>5. Served!Apply(Served!At(q0, at))
        BY <4>3, <4>4, ServedApplies
      <4> QED BY <3>1, <4>5 DEF Served!Next
    <3> QED BY <3>5, <3>6
  <2>5. CASE ~(Unchanged(t) /\ Finish(t))
    <3>1. /\ tasks' = [tasks EXCEPT ![t].step = "run", ![t].copy = None]
          /\ UNCHANGED <<store, told>>
      BY <1>3, <2>5 DEF Save
    <3>2. TasksOK'
      BY <2>1, <2>2, <3>1, StepKeeps
    <3> QED BY <2>1, <3>1, <3>2
  <2> QED BY <2>4, <2>5
<1>4. ASSUME NEW t \in Tasks, NEW p \in Processes, NEW q \in Roster, Receive(t, p, q)
      PROVE  TasksOK' /\ [Served!Next]_<<store, told, now>>
  <2> DEFINE task == [step |-> "run", process |-> p, awaits |-> tail[p][KeyFor(q)],
                      request |-> At(q, now), copy |-> None]
  <2>1. tasks' = [tasks EXCEPT ![t] = task] /\ UNCHANGED <<store, told, now>>
    BY <1>4 DEF Receive
  <2>2. now \in 0 .. now
    BY DEF TasksOK
  <2>3. TaskOK(task, now)
    BY <2>2 DEF TaskOK, TaskShaped, CameIn
  <2> HIDE DEF task
  <2> QED BY <2>1, <2>3 DEF TasksOK
<1>5. ASSUME NEW k \in RecordKeys, Evict(k)
      PROVE  TasksOK' /\ [Served!Next]_<<store, told, now>>
  <2>1. TasksOK'
    BY <1>5, TimeKeeps DEF Evict, TasksOK
  <2>2. Served!Evict(k)
    BY <1>5 DEF Evict, Served!Evict, Served!Expired, Expired
  <2> QED BY <2>1, <2>2 DEF Served!Next, Served!RecordKeys, RecordKeys
<1>6. CASE Tick
  <2>1. TasksOK'
    BY <1>6, TimeKeeps DEF Tick, TasksOK
  <2> QED BY <1>6, <2>1 DEF Tick, Served!Next, Served!Tick
<1>7. CASE UNCHANGED vars
  <2>1. TasksOK'
    BY <1>7 DEF vars, TasksOK
  <2> QED BY <1>7, <2>1 DEF vars
<1> QED BY <1>1, <1>2, <1>3, <1>4, <1>5, <1>6, <1>7 DEF Next, Serve

\* The service starts with nothing to do.
LEMMA ServiceInit == Init => TasksOK /\ Served!Init
  BY DEF Init, TasksOK, Served!Init, Served!RecordKeys, RecordKeys

-----------------------------------------------------------------------------
\* What the tasks are about, and the records, stay sound.
LEMMA ServiceInv == Spec => [](TasksOK /\ StoreInv)
<1>1. Init => TasksOK /\ StoreInv
  BY ServiceInit, StoreInit
<1>2. TasksOK /\ StoreInv /\ [Next]_vars => (TasksOK /\ StoreInv)'
  BY ServiceStep, StoreKept
<1> QED BY <1>1, <1>2, PTL DEF Spec

\* However many processes serve a record, and however their reads and saves
\* interleave, each request is applied to the record the one before it left: the
\* service implements SignalingRecords.
THEOREM ServedOneAtATime == Spec => AppliedOneAtATime
<1>1. Init => Served!Init
  BY ServiceInit
<1>2. TasksOK /\ StoreInv /\ [Next]_vars => [Served!Next]_<<store, told, now>>
  BY ServiceStep
<1> QED BY <1>1, <1>2, ServiceInv, PTL DEF Spec, AppliedOneAtATime, Served!Spec

\* Of all the guests that answer a link one is told that its answer was
\* accepted, and that answer is the one the host can read.
THEOREM OneAnswer == Spec => []OneAnswerAccepted
<1>1. StoreInv => OneAnswerAccepted
  <2> SUFFICES ASSUME StoreInv PROVE Cardinality(told) <= 1
    BY DEF OneAnswerAccepted, StoreInv
  <2>1. CASE told = {}
    BY <2>1, FS_EmptySet
  <2>2. ASSUME NEW a, told = {a} PROVE Cardinality(told) <= 1
    BY <2>2, FS_Singleton
  <2> QED BY <2>1, <2>2 DEF StoreInv
<1> QED BY <1>1, ServiceInv, PTL

\* The offer and the answer of an open attempt are of the instances that have
\* the roles.
THEOREM ClaimantsOnly == Spec => []AttemptIsOfClaimants
<1>1. StoreInv => AttemptIsOfClaimants
  BY DEF StoreInv, ControlOK, OfClaimants, AttemptIsOfClaimants
<1> QED BY <1>1, ServiceInv, PTL

-----------------------------------------------------------------------------
(***************************************************************************)
(* The outcome of an attempt.                                              *)
(***************************************************************************)
\* What a permitted request leaves of an attempt that has its outcome.
LEMMA OutcomeStays ==
    ASSUME NEW c, ControlOK(c), NEW q, RequestOK(q), q.op \in ControlOps, Permits(c, q),
           c.attempt.status = "finalized"
    PROVE  \/ Outcome(c, q).attempt = c.attempt
           \/ Outcome(c, q).attempt.status = "offer-ready"
           \/ Outcome(c, q).attempt.status = "idle" /\ WasAborted(c.attempt)
<1>1. ASSUME NEW e \in Controls PROVE Refreshed(e, q.at).attempt = e.attempt
  BY DEF Refreshed, Controls
<1>2. c \in Controls
  BY DEF ControlOK
<1>3. CASE q.op = "finalize"
  BY <1>3 DEF Outcome, NothingToDo
<1>4. CASE q.op = "answer"
  BY <1>4 DEF Permits, AwaitsAnswer
<1>5. CASE q.op = "heartbeat"
  <2>1. Outcome(c, q) = Refreshed(c, q.at)
    BY <1>5 DEF Outcome, NothingToDo, SessionOps, Updated
  <2> QED BY <1>1, <1>2, <2>1
<1>6. CASE q.op = "offer"
  <2> DEFINE attempt == [IdleAttempt EXCEPT !.status = "offer-ready", !.offer = q.value]
  <2>1. Outcome(c, q) = Refreshed(WithAttempt(c, "open", attempt), q.at)
    BY <1>6 DEF Outcome, NothingToDo, SessionOps, Updated, WithOffer
  <2>2. attempt = [status |-> "offer-ready", offer |-> q.value, answer |-> IdleAttempt.answer,
                   outcome |-> IdleAttempt.outcome]
    BY OfferSet, IdleAttemptOK
  <2> HIDE DEF attempt
  <2>3. attempt.status = "offer-ready"
    BY <2>2
  <2>4. WithAttempt(c, "open", attempt) =
            [state |-> "open", claim |-> c.claim, attempt |-> attempt, expiresAt |-> c.expiresAt]
    BY <1>2, AttemptReplaced
  <2>5. Refreshed(WithAttempt(c, "open", attempt), q.at).attempt = attempt
    BY <2>4 DEF Refreshed
  <2> QED BY <2>1, <2>3, <2>5
<1>7. CASE q.op = "claim"
  <2> DEFINE d == [c EXCEPT !.claim[q.role] = q.from]
  <2>1. d \in Controls /\ d.attempt = c.attempt
    BY <1>2, ControlFields DEF Controls, RequestOK
  <2> HIDE DEF d
  <2>2. Outcome(c, q) = Refreshed(Claimed(c, q.role, q.from), q.at)
    BY <1>7 DEF Outcome, NothingToDo, SessionOps, Updated
  <2>3. Claimed(c, q.role, q.from) \in {d, Reconciled(d, q.role)}
    BY DEF Claimed, d
  <2>4. CASE WasAborted(d.attempt)
    <3>1. Reconciled(d, q.role) = WithAttempt(d, "open", IdleAttempt)
      BY <2>4 DEF Reconciled
    <3>2. Reconciled(d, q.role).attempt = IdleAttempt
      BY <2>1, <3>1, AttemptReplaced
    <3>3. Claimed(c, q.role, q.from) \in Controls
      BY ClaimedOK DEF ControlOK, RequestOK
    <3> QED BY <1>1, <2>1, <2>2, <2>3, <2>4, <3>2, <3>3, IdleAttemptOK
  <2>5. CASE ~WasAborted(d.attempt)
    <3>1. Reconciled(d, q.role) = d
      BY <2>1, <2>5 DEF Reconciled
    <3> QED BY <1>1, <2>1, <2>2, <2>3, <3>1
  <2> QED BY <2>4, <2>5
<1> QED BY <1>3, <1>4, <1>5, <1>6, <1>7 DEF ControlOps

\* Of one step of SignalingRecords.
LEMMA OutcomeOnce ==
    ASSUME StoreInv, [Served!Next]_<<store, told, now>>,
           NEW c, c = store["control"], c # None, c.attempt.status = "finalized",
           NEW d, d = store'["control"], d # None
    PROVE  \/ d.attempt = c.attempt
           \/ d.attempt.status = "offer-ready" /\ d.attempt.offer = d.claim["host"]
           \/ d.attempt.status = "idle" /\ WasAborted(c.attempt)
<1> USE DEF RecordKeys
<1>1. SUFFICES \/ d.attempt = c.attempt
               \/ d.attempt.status = "offer-ready"
               \/ d.attempt.status = "idle" /\ WasAborted(c.attempt)
  <2>1. StoreInv'
    BY StoreKept
  <2>2. ControlOK(d)
    BY <2>1 DEF StoreInv
  <2> QED BY <1>1, <2>2 DEF ControlOK, OfClaimants
<1>2. CASE Served!Tick
  BY <1>2 DEF Served!Tick
<1>3. ASSUME NEW k \in RecordKeys, Served!Evict(k) PROVE d.attempt = c.attempt
  BY <1>3 DEF Served!Evict, StoreInv
<1>4. ASSUME NEW k \in RecordKeys, NEW at \in 0 .. now, Served!Create(k, at)
      PROVE  d.attempt = c.attempt
  BY <1>4 DEF Served!Create, StoreInv
<1>5. ASSUME NEW q0 \in Roster, NEW at \in 0 .. now, Served!Apply(Served!At(q0, at))
      PROVE  \/ d.attempt = c.attempt
             \/ d.attempt.status = "offer-ready"
             \/ d.attempt.status = "idle" /\ WasAborted(c.attempt)
  <2>1. PICK q : q = At(q0, at)
    OBVIOUS
  <2>2. Applies(q) /\ RequestOK(q)
    BY <1>5, <2>1, ServedApplies, RosterOK DEF Served!At, At, StoreInv
  <2>3. CASE q.op \in SessionOps
    BY <2>2, <2>3 DEF Applies, RecordOf, StoreInv
  <2>4. CASE q.op \in ControlOps
    <3>1. d = Outcome(c, q) /\ ControlOK(c) /\ Permits(c, q)
      BY <2>2, <2>4 DEF Applies, RecordOf, SessionOps, ControlOps, StoreInv
    <3> QED BY <2>2, <2>4, <3>1, OutcomeStays
  <2> QED BY <2>2, <2>3, <2>4 DEF Applies
<1>6. CASE UNCHANGED <<store, told, now>>
  BY <1>6
<1> QED BY <1>2, <1>3, <1>4, <1>5, <1>6 DEF Served!Next, Served!RecordKeys

\* The first outcome of an attempt counts, whichever processes are told others.
THEOREM OutcomeOfAttempt == Spec => FirstOutcomeStays
<1>1. TasksOK /\ StoreInv /\ [Next]_vars =>
        [LET c == store["control"]
             d == store'["control"]
         IN  c # None /\ d # None /\ c.attempt.status = "finalized" =>
                \/ d.attempt = c.attempt
                \/ d.attempt.status = "offer-ready" /\ d.attempt.offer = d.claim["host"]
                \/ d.attempt.status = "idle" /\ WasAborted(c.attempt)]_vars
  <2> SUFFICES ASSUME TasksOK, StoreInv, [Next]_vars,
                      NEW c, c = store["control"], c # None, c.attempt.status = "finalized",
                      NEW d, d = store'["control"], d # None
               PROVE  \/ d.attempt = c.attempt
                      \/ d.attempt.status = "offer-ready" /\ d.attempt.offer = d.claim["host"]
                      \/ d.attempt.status = "idle" /\ WasAborted(c.attempt)
    OBVIOUS
  <2>1. [Served!Next]_<<store, told, now>>
    BY ServiceStep
  <2> QED BY <2>1, OutcomeOnce
<1> QED BY <1>1, ServiceInv, PTL DEF Spec, FirstOutcomeStays

-----------------------------------------------------------------------------
(***************************************************************************)
(* The task runner.  The tasks of a queue have an order, of which the code *)
(* says nothing: each awaits the one before it, the last is the tail.      *)
(***************************************************************************)
Busy(t) == tasks[t] # NoTask
Process(t) == tasks[t].process
Key(t) == KeyFor(tasks[t].request)
Awaits(t) == tasks[t].awaits

InQueue(t, p, k) == t \in Tasks /\ Busy(t) /\ Process(t) = p /\ Key(t) = k

\* A tail is of its queue, and only an empty queue has none; a task awaits one
\* of its own queue, and none once it has begun to save.
QueueOK ==
    /\ tail \in [Processes -> [LockKeys -> Tasks \cup {None}]]
    /\ \A p \in Processes, k \in LockKeys : tail[p][k] # None => InQueue(tail[p][k], p, k)
    /\ \A t \in Tasks : Busy(t) =>
          /\ Process(t) \in Processes /\ Key(t) \in LockKeys
          /\ tail[Process(t)][Key(t)] # None
          /\ Awaits(t) # None => InQueue(Awaits(t), Process(t), Key(t))
          /\ tasks[t].step = "save" => Awaits(t) = None

\* No two tasks of a queue are at one place; the first awaits nothing, every
\* other the one right before it; none is behind the tail.
InOrder(ord) ==
    \A t, u \in Tasks :
        Busy(t) /\ InQueue(u, Process(t), Key(t)) =>
            /\ ord[t] = ord[u] => t = u
            /\ Awaits(t) = None => ord[t] <= ord[u]
            /\ Awaits(t) # None =>
                  /\ ord[Awaits(t)] < ord[t]
                  /\ ord[u] < ord[t] => ord[u] <= ord[Awaits(t)]
            /\ tail[Process(t)][Key(t)] = t => ord[u] <= ord[t]

QueueInv == QueueOK /\ \E ord \in [Tasks -> Nat] : InOrder(ord)

\* What a task that ends leaves of the others.
LEMMA FinishFields ==
    ASSUME TasksOK, NEW t \in Tasks, Busy(t), Finish(t), NEW u \in Tasks
    PROVE  /\ Busy(u)' <=> Busy(u) /\ u # t
           /\ Busy(u)' => /\ Process(u)' = Process(u) /\ Key(u)' = Key(u)
                          /\ Awaits(u)' = IF Awaits(u) = t THEN None ELSE Awaits(u)
                          /\ tasks'[u].step = tasks[u].step
<1>1. tasks'[u] = IF u = t THEN NoTask
                  ELSE IF tasks[u].awaits = t THEN [tasks[u] EXCEPT !.awaits = None]
                  ELSE tasks[u]
  BY DEF Finish
<1>2. CASE u = t
  BY <1>1, <1>2 DEF Busy
<1>3. CASE u # t /\ tasks[u] = NoTask
  <2>1. NoTask.awaits = None /\ None # t
    BY SignalingAssumption DEF NoTask
  <2> QED BY <1>1, <1>3, <2>1 DEF Busy
<1>4. CASE u # t /\ TaskOK(tasks[u], now)
  <2>1. PICK task : task = [tasks[u] EXCEPT !.awaits = None]
    OBVIOUS
  <2>2. task = [step |-> tasks[u].step, process |-> tasks[u].process, awaits |-> None,
                request |-> tasks[u].request, copy |-> tasks[u].copy]
    BY <1>4, <2>1, AwaitOver DEF TaskOK
  <2>3. task # NoTask /\ tasks[u] # NoTask
    BY <1>4, <2>2 DEF TaskOK, NoTask
  <2> QED BY <1>1, <1>4, <2>1, <2>2, <2>3 DEF Busy, Process, Key, Awaits
<1> QED BY <1>2, <1>3, <1>4 DEF TasksOK

\* The task at the head of its queue ends.
LEMMA FinishQueue ==
    ASSUME TasksOK, QueueInv, NEW t \in Tasks, Busy(t), Awaits(t) = None, Finish(t)
    PROVE  QueueInv'
<1>1. PICK ord \in [Tasks -> Nat] : InOrder(ord)
  BY DEF QueueInv
<1>2. QueueOK
  BY DEF QueueInv
<1>3. \A u \in Tasks :
         /\ Busy(u)' <=> Busy(u) /\ u # t
         /\ Busy(u)' => /\ Process(u)' = Process(u) /\ Key(u)' = Key(u)
                        /\ Awaits(u)' = IF Awaits(u) = t THEN None ELSE Awaits(u)
                        /\ tasks'[u].step = tasks[u].step
  BY FinishFields
<1>4. tail' = [p \in Processes |-> [k \in LockKeys |->
                  IF tail[p][k] = t THEN None ELSE tail[p][k]]]
  <2>1. tasks[t].process = Process(t) /\ KeyFor(tasks[t].request) = Key(t)
    BY DEF Process, Key
  <2> QED BY DEF Finish, Tails
<1>5. None \notin Tasks
  BY SignalingAssumption
<1>6. ASSUME NEW u \in Tasks, Busy(u), u # t, Process(u) = Process(t), Key(u) = Key(t)
      PROVE  ord[t] < ord[u] /\ tail[Process(t)][Key(t)] # t
  <2>1. InQueue(u, Process(t), Key(t))
    BY <1>6 DEF InQueue
  <2>2. /\ ord[t] = ord[u] => t = u
        /\ ord[t] <= ord[u]
        /\ tail[Process(t)][Key(t)] = t => ord[u] <= ord[t]
    BY <1>1, <2>1 DEF InOrder
  <2>3. ord[t] \in Nat /\ ord[u] \in Nat
    OBVIOUS
  <2> QED BY <1>6, <2>2, <2>3
<1>7. QueueOK'
  <2>1. tail' \in [Processes -> [LockKeys -> Tasks \cup {None}]]
    BY <1>2, <1>4 DEF QueueOK
  <2>2. ASSUME NEW p \in Processes, NEW k \in LockKeys, tail'[p][k] # None
        PROVE  InQueue(tail[p][k], p, k)' /\ tail'[p][k] = tail[p][k]
    BY <1>2, <1>3, <1>4, <2>2 DEF QueueOK, InQueue
  <2>3. ASSUME NEW u \in Tasks, Busy(u)'
        PROVE  /\ Process(u)' \in Processes /\ Key(u)' \in LockKeys
               /\ tail'[Process(u)'][Key(u)'] # None
               /\ Awaits(u)' # None => InQueue(Awaits(u), Process(u), Key(u))'
               /\ tasks'[u].step = "save" => Awaits(u)' = None
    <3>1. Busy(u) /\ u # t
      BY <1>3, <2>3
    <3>2. /\ Process(u) \in Processes /\ Key(u) \in LockKeys
          /\ tail[Process(u)][Key(u)] # None
          /\ Awaits(u) # None => InQueue(Awaits(u), Process(u), Key(u))
          /\ tasks[u].step = "save" => Awaits(u) = None
      BY <1>2, <3>1 DEF QueueOK
    <3>3. tail[Process(u)][Key(u)] # t
      <4>1. CASE tail[Process(u)][Key(u)] = t
        BY <1>2, <1>6, <3>1, <3>2, <4>1 DEF QueueOK, InQueue
      <4> QED BY <4>1
    <3> QED BY <1>3, <1>4, <1>5, <2>3, <3>1, <3>2, <3>3 DEF InQueue
  <2> QED BY <2>1, <2>2, <2>3 DEF QueueOK
<1>8. InOrder(ord)'
  <2>1. ASSUME NEW u \in Tasks, NEW v \in Tasks, Busy(u)', InQueue(v, Process(u), Key(u))'
        PROVE  /\ ord[u] = ord[v] => u = v
               /\ Awaits(u)' = None => ord[u] <= ord[v]
               /\ Awaits(u)' # None =>
                     /\ ord[Awaits(u)'] < ord[u]
                     /\ ord[v] < ord[u] => ord[v] <= ord[Awaits(u)']
               /\ tail'[Process(u)'][Key(u)'] = u => ord[v] <= ord[u]
    <3>1. /\ Busy(u) /\ InQueue(v, Process(u), Key(u)) /\ v # t /\ u # t
          /\ Process(u)' = Process(u) /\ Key(u)' = Key(u)
          /\ Awaits(u)' = IF Awaits(u) = t THEN None ELSE Awaits(u)
      BY <1>3, <2>1 DEF InQueue
    <3>2. /\ ord[u] = ord[v] => u = v
          /\ Awaits(u) = None => ord[u] <= ord[v]
          /\ Awaits(u) # None =>
                /\ ord[Awaits(u)] < ord[u]
                /\ ord[v] < ord[u] => ord[v] <= ord[Awaits(u)]
          /\ tail[Process(u)][Key(u)] = u => ord[v] <= ord[u]
      BY <1>1, <3>1 DEF InOrder
    <3>3. CASE Awaits(u) = t
      <4>1. Process(u) = Process(t) /\ Key(u) = Key(t)
        BY <1>2, <1>5, <3>1, <3>3 DEF QueueOK, InQueue
      <4>2. ord[t] < ord[v]
        BY <1>6, <3>1, <4>1 DEF InQueue
      <4>3. ord[u] <= ord[v]
        BY <1>5, <3>2, <3>3, <4>2
      <4>4. tail'[Process(u)][Key(u)] = u => tail[Process(u)][Key(u)] = u
        BY <1>2, <1>4, <1>5, <3>1 DEF QueueOK
      <4> QED BY <3>1, <3>2, <3>3, <4>3, <4>4
    <3>4. CASE Awaits(u) # t
      <4>1. tail'[Process(u)][Key(u)] = u => tail[Process(u)][Key(u)] = u
        BY <1>2, <1>4, <1>5, <3>1 DEF QueueOK
      <4> QED BY <3>1, <3>2, <3>4, <4>1
    <3> QED BY <3>3, <3>4
  <2> QED BY <2>1 DEF InOrder
<1> QED BY <1>7, <1>8 DEF QueueInv

\* A task makes a step within its request: its queue is as it was.
LEMMA StepQueue ==
    ASSUME TasksOK, QueueInv, NEW t \in Tasks, Busy(t), NEW step \in {"run", "save"}, NEW copy,
           step = "save" => Awaits(t) = None,
           tasks' = [tasks EXCEPT ![t] = [step |-> step, process |-> tasks[t].process,
                        awaits |-> tasks[t].awaits, request |-> tasks[t].request,
                        copy |-> copy]],
           tail' = tail
    PROVE  QueueInv'
<1> DEFINE task == [step |-> step, process |-> tasks[t].process, awaits |-> tasks[t].awaits,
                    request |-> tasks[t].request, copy |-> copy]
<1>1. task # NoTask
  BY DEF NoTask
<1>2. ASSUME NEW u \in Tasks
      PROVE  /\ Busy(u)' <=> Busy(u)
             /\ Process(u)' = Process(u) /\ Key(u)' = Key(u) /\ Awaits(u)' = Awaits(u)
             /\ tasks'[u].step = "save" => tasks[u].step = "save" \/ (u = t /\ step = "save")
  <2>1. CASE u = t
    <3>1. tasks'[t] = task
      BY DEF TasksOK
    <3> QED BY <1>1, <2>1, <3>1 DEF Busy, Process, Key, Awaits
  <2>2. CASE u # t
    <3>1. tasks'[u] = tasks[u]
      BY <2>2 DEF TasksOK
    <3> QED BY <3>1 DEF Busy, Process, Key, Awaits
  <2> QED BY <2>1, <2>2
<1>3. QueueOK'
  BY <1>2 DEF QueueInv, QueueOK, InQueue
<1>4. ASSUME NEW ord \in [Tasks -> Nat], InOrder(ord) PROVE InOrder(ord)'
  BY <1>2, <1>4 DEF InOrder, InQueue
<1> QED BY <1>3, <1>4 DEF QueueInv

\* The key of a request is one the runner knows.
LEMMA KeyOK ==
    ASSUME NEW q \in Roster, NEW at \in Nat
    PROVE  KeyFor(At(q, at)) = KeyFor(q) /\ KeyFor(q) \in LockKeys
  BY RosterAssumption
     DEF KeyFor, At, RecordOf, LockKeys, RecordKeys, SessionOps, ControlOps

\* A task queues behind the tail.
LEMMA ReceiveQueue ==
    ASSUME TasksOK, QueueInv, NEW t \in Tasks, NEW p \in Processes, NEW q \in Roster,
           Receive(t, p, q)
    PROVE  QueueInv'
<1> DEFINE k == KeyFor(q)
           task == [step |-> "run", process |-> p, awaits |-> tail[p][k],
                    request |-> At(q, now), copy |-> None]
<1>1. PICK ord \in [Tasks -> Nat] : InOrder(ord)
  BY DEF QueueInv
<1>2. QueueOK
  BY DEF QueueInv
<1>3. KeyFor(At(q, now)) = k /\ k \in LockKeys
  BY KeyOK DEF TasksOK
<1>4. /\ ~Busy(t) /\ None \notin Tasks
      /\ tail' = [tail EXCEPT ![p] = [tail[p] EXCEPT ![k] = t]]
  BY SignalingAssumption DEF Receive, Busy
<1>5. task # NoTask
  BY DEF NoTask
<1>6. /\ Busy(t)' /\ Process(t)' = p /\ Key(t)' = k /\ Awaits(t)' = tail[p][k]
      /\ tasks'[t].step = "run"
  <2>1. tasks'[t] = task
    BY DEF Receive, TasksOK
  <2> QED BY <1>3, <1>5, <2>1 DEF Busy, Process, Key, Awaits
<1>7. ASSUME NEW u \in Tasks, u # t
      PROVE  /\ Busy(u)' <=> Busy(u)
             /\ Process(u)' = Process(u) /\ Key(u)' = Key(u) /\ Awaits(u)' = Awaits(u)
             /\ tasks'[u].step = tasks[u].step
  <2>1. tasks'[u] = tasks[u]
    BY <1>7 DEF Receive, TasksOK
  <2> QED BY <2>1 DEF Busy, Process, Key, Awaits
<1>8. \A r \in Processes, l \in LockKeys :
         tail'[r][l] = IF r = p /\ l = k THEN t ELSE tail[r][l]
  BY <1>2, <1>3, <1>4 DEF QueueOK
<1> HIDE DEF k, task
<1>9. QueueOK'
  <2>1. tail' \in [Processes -> [LockKeys -> Tasks \cup {None}]]
    BY <1>2, <1>3, <1>4 DEF QueueOK
  <2>2. \A r \in Processes, l \in LockKeys :
           tail'[r][l] # None => InQueue(tail[r][l], r, l)'
    BY <1>2, <1>4, <1>6, <1>7, <1>8 DEF QueueOK, InQueue
  <2>3. ASSUME NEW u \in Tasks, Busy(u)'
        PROVE  /\ Process(u)' \in Processes /\ Key(u)' \in LockKeys
               /\ tail'[Process(u)'][Key(u)'] # None
               /\ Awaits(u)' # None => InQueue(Awaits(u), Process(u), Key(u))'
               /\ tasks'[u].step = "save" => Awaits(u)' = None
    <3>1. CASE u = t
      BY <1>2, <1>3, <1>4, <1>6, <1>7, <1>8, <3>1 DEF QueueOK, InQueue
    <3>2. CASE u # t
      BY <1>2, <1>3, <1>4, <1>6, <1>7, <1>8, <2>3, <3>2 DEF QueueOK, InQueue
    <3> QED BY <3>1, <3>2
  <2> QED BY <2>1, <2>2, <2>3 DEF QueueOK
<1>10. tail[p][k] # None => InQueue(tail[p][k], p, k)
  BY <1>2, <1>3 DEF QueueOK
<1>11. PICK place \in Nat :
          tail[p][k] # None => tail[p][k] \in Tasks /\ place = ord[tail[p][k]] + 1
  <2>1. CASE tail[p][k] = None
    BY <2>1
  <2>2. CASE tail[p][k] # None
    BY <1>10, <2>2 DEF InQueue
  <2> QED BY <2>1, <2>2
<1> DEFINE ordered == [ord EXCEPT ![t] = place]
<1>12. ASSUME NEW u \in Tasks, InQueue(u, p, k)
       PROVE  tail[p][k] # None /\ ord[u] < place
  <2>1. tail[p][k] # None
    BY <1>2, <1>12 DEF QueueOK, InQueue
  <2>2. PICK v \in Tasks : v = tail[p][k] /\ Busy(v) /\ Process(v) = p /\ Key(v) = k
    BY <1>10, <2>1 DEF InQueue
  <2>3. ord[u] <= ord[v]
    BY <1>1, <1>12, <2>2 DEF InOrder
  <2> QED BY <1>11, <2>1, <2>2, <2>3
<1>13. ASSUME NEW u \in Tasks, NEW v \in Tasks, Busy(u)', InQueue(v, Process(u), Key(u))'
       PROVE  /\ ordered[u] = ordered[v] => u = v
              /\ Awaits(u)' = None => ordered[u] <= ordered[v]
              /\ Awaits(u)' # None =>
                    /\ ordered[Awaits(u)'] < ordered[u]
                    /\ ordered[v] < ordered[u] => ordered[v] <= ordered[Awaits(u)']
              /\ tail'[Process(u)'][Key(u)'] = u => ordered[v] <= ordered[u]
  <2>1. CASE u = t /\ v = t
    <3>1. tail[p][k] # None => ordered[tail[p][k]] < ordered[t]
      BY <1>4, <1>10, <1>11 DEF InQueue
    <3> QED BY <1>6, <1>11, <2>1, <3>1
  <2>2. CASE u = t /\ v # t
    <3>1. InQueue(v, p, k)
      BY <1>6, <1>7, <1>13, <2>2 DEF InQueue
    <3>2. tail[p][k] # None /\ ord[v] < place
      BY <1>12, <3>1
    <3>3. PICK w \in Tasks : w = tail[p][k] /\ w # t
      BY <1>4, <1>10, <3>2 DEF InQueue
    <3>4. ordered[t] = place /\ ordered[v] = ord[v] /\ ordered[w] = ord[w] /\ place = ord[w] + 1
      BY <1>11, <2>2, <3>2, <3>3
    <3> QED BY <1>6, <1>11, <2>2, <3>2, <3>3, <3>4
  <2>3. CASE u # t /\ v = t
    <3>1. InQueue(u, p, k)
      BY <1>6, <1>7, <1>13, <2>3 DEF InQueue
    <3>2. tail[p][k] # None /\ ord[u] < place
      BY <1>12, <3>1
    <3>3. ordered[t] = place /\ ordered[u] = ord[u]
      BY <1>11, <2>3
    <3>4. tail'[Process(u)'][Key(u)'] # u
      BY <1>3, <1>7, <1>8, <2>3, <3>1 DEF InQueue
    <3>5. Awaits(u) # None => /\ Awaits(u) \in Tasks /\ Awaits(u) # t
                              /\ ord[Awaits(u)] < ord[u]
      BY <1>1, <1>2, <1>4, <3>1 DEF QueueOK, InOrder, InQueue
    <3>6. Awaits(u) # None => ordered[Awaits(u)] = ord[Awaits(u)]
      BY <3>5
    <3> QED BY <1>7, <1>11, <2>3, <3>2, <3>3, <3>4, <3>5, <3>6
  <2>4. CASE u # t /\ v # t
    <3>1. /\ Busy(u) /\ InQueue(v, Process(u), Key(u))
          /\ Process(u)' = Process(u) /\ Key(u)' = Key(u) /\ Awaits(u)' = Awaits(u)
      BY <1>7, <1>13, <2>4 DEF InQueue
    <3>2. /\ ord[u] = ord[v] => u = v
          /\ Awaits(u) = None => ord[u] <= ord[v]
          /\ Awaits(u) # None =>
                /\ ord[Awaits(u)] < ord[u]
                /\ ord[v] < ord[u] => ord[v] <= ord[Awaits(u)]
          /\ tail[Process(u)][Key(u)] = u => ord[v] <= ord[u]
      BY <1>1, <3>1 DEF InOrder
    <3>3. Awaits(u) # None => Awaits(u) \in Tasks /\ Awaits(u) # t
      BY <1>2, <1>4, <3>1 DEF QueueOK, InQueue
    <3>4. tail'[Process(u)][Key(u)] = u => tail[Process(u)][Key(u)] = u
      BY <1>2, <1>8, <2>4, <3>1 DEF QueueOK
    <3>5. /\ ordered[u] = ord[u] /\ ordered[v] = ord[v]
          /\ Awaits(u) # None => ordered[Awaits(u)] = ord[Awaits(u)]
      BY <2>4, <3>3
    <3> QED BY <3>1, <3>2, <3>3, <3>4, <3>5
  <2> QED BY <2>1, <2>2, <2>3, <2>4
<1>14. InOrder(ordered)'
  BY <1>13 DEF InOrder
<1>15. ordered \in [Tasks -> Nat]
  BY <1>11
<1> QED BY <1>9, <1>14, <1>15 DEF QueueInv

\* One step of the service, of its queues.
LEMMA QueueStep ==
    ASSUME TasksOK, QueueInv, [Next]_vars
    PROVE  QueueInv'
<1>1. ASSUME NEW t \in Tasks, Create(t) PROVE QueueInv'
  BY <1>1, FinishQueue DEF Create, Inside, Busy, Awaits
<1>2. ASSUME NEW t \in Tasks, Read(t) PROVE QueueInv'
  <2>1. Busy(t) /\ Awaits(t) = None /\ now' = now
    BY <1>2 DEF Read, Inside, Busy, Awaits
  <2>2. CASE Finish(t)
    BY <2>1, <2>2, FinishQueue
  <2>3. CASE ~Finish(t)
    <3>1. ToSave(Stored(tasks[t].request), tasks[t].request)
      BY <1>2, <2>3 DEF Read, ToSave
    <3>2. PICK copy : copy = Stored(tasks[t].request)
      OBVIOUS
    <3>3. /\ tasks' = [tasks EXCEPT ![t].step = "save", ![t].copy = copy]
          /\ tail' = tail
      BY <1>2, <2>3, <3>2 DEF Read
    <3>4. tasks' = [tasks EXCEPT ![t] = [step |-> "save", process |-> tasks[t].process,
                        awaits |-> tasks[t].awaits, request |-> tasks[t].request,
                        copy |-> copy]]
      BY <2>1, <3>1, <3>2, <3>3, StepKeeps DEF Busy
    <3> QED BY <2>1, <3>3, <3>4, StepQueue
  <2> QED BY <2>2, <2>3
<1>3. ASSUME NEW t \in Tasks, Save(t) PROVE QueueInv'
  <2>1. Busy(t) /\ now' = now
    BY <1>3 DEF Save, Busy, NoTask
  <2>2. Awaits(t) = None
    BY <1>3, <2>1 DEF Save, QueueInv, QueueOK
  <2>3. CASE Finish(t)
    BY <2>1, <2>2, <2>3, FinishQueue
  <2>4. CASE ~Finish(t)
    <3>1. /\ tasks' = [tasks EXCEPT ![t].step = "run", ![t].copy = None]
          /\ tail' = tail
      BY <1>3, <2>4 DEF Save
    <3>2. tasks' = [tasks EXCEPT ![t] = [step |-> "run", process |-> tasks[t].process,
                        awaits |-> tasks[t].awaits, request |-> tasks[t].request,
                        copy |-> None]]
      BY <2>1, <3>1, StepKeeps DEF Busy
    <3> QED BY <2>1, <3>1, <3>2, StepQueue
  <2> QED BY <2>3, <2>4
<1>4. ASSUME NEW t \in Tasks, NEW p \in Processes, NEW q \in Roster, Receive(t, p, q)
      PROVE  QueueInv'
  BY <1>4, ReceiveQueue
<1>5. CASE UNCHANGED <<tasks, tail>>
  BY <1>5 DEF QueueInv, QueueOK, InOrder, InQueue, Busy, Process, Key, Awaits
<1> QED
  BY <1>1, <1>2, <1>3, <1>4, <1>5 DEF Next, Serve, Evict, Tick, vars

\* The runners start with no task.
LEMMA QueueInit == Init => QueueInv
<1> SUFFICES ASSUME Init PROVE QueueInv
  OBVIOUS
<1>1. \A t \in Tasks : ~Busy(t)
  BY DEF Init, Busy
<1>2. [t \in Tasks |-> 0] \in [Tasks -> Nat]
  OBVIOUS
<1>3. InOrder([t \in Tasks |-> 0])
  BY <1>1 DEF InOrder
<1>4. QueueOK
  BY <1>1 DEF QueueOK, Init
<1> QED BY <1>2, <1>3, <1>4 DEF QueueInv

-----------------------------------------------------------------------------
\* All of it together, by induction.
LEMMA AllInv == Spec => [](TasksOK /\ StoreInv /\ QueueInv)
<1>1. Init => TasksOK /\ StoreInv /\ QueueInv
  BY ServiceInit, StoreInit, QueueInit
<1>2. TasksOK /\ StoreInv /\ QueueInv /\ [Next]_vars => (TasksOK /\ StoreInv /\ QueueInv)'
  BY ServiceStep, StoreKept, QueueStep
<1> QED BY <1>1, <1>2, PTL DEF Spec

\* Every variable keeps its type; tailByKey holds, and tasks wait for, only tasks
\* in flight for the same key of the same process.
THEOREM TypeCorrect == Spec => []TypeOK
<1>1. TasksOK /\ StoreInv /\ QueueInv => TypeOK
  <2> SUFFICES ASSUME TasksOK, StoreInv, QueueInv PROVE TypeOK
    OBVIOUS
  <2>1. store["session"] \in Sessions \cup {None} /\ store["control"] \in Controls \cup {None}
    BY DEF StoreInv, ControlOK
  <2>2. told \subseteq Answers /\ now \in Nat
    BY DEF StoreInv
  <2>3. /\ tail \in [Processes -> [LockKeys -> Tasks \cup {None}]]
        /\ \A p \in Processes, k \in LockKeys :
              tail[p][k] # None => QueuesAt(tail[p][k], p, k)
    BY DEF QueueInv, QueueOK, InQueue, QueuesAt, Busy, Process, Key
  <2>4. ASSUME NEW t \in Tasks, tasks[t] # NoTask
        PROVE  /\ tasks[t].step \in {"run", "save"}
               /\ tasks[t].process \in Processes
               /\ tasks[t].awaits # None =>
                     QueuesAt(tasks[t].awaits, tasks[t].process, KeyFor(tasks[t].request))
               /\ tasks[t].request.at \in 0 .. now
    <3>1. TaskOK(tasks[t], now)
      BY <2>4 DEF TasksOK
    <3>2. tasks[t].request.at \in 0 .. now
      BY <3>1, CameInOK DEF TaskOK, TasksOK
    <3>3. tasks[t].awaits # None =>
             QueuesAt(tasks[t].awaits, tasks[t].process, KeyFor(tasks[t].request))
      BY <2>4 DEF QueueInv, QueueOK, InQueue, QueuesAt, Busy, Process, Key, Awaits
    <3> QED BY <3>1, <3>2, <3>3 DEF TaskOK
  <2> QED BY <2>1, <2>2, <2>3, <2>4 DEF TypeOK
<1> QED BY <1>1, AllInv, PTL

\* KeyedSerialTaskRunner runs the tasks of a key one at a time, however many
\* there are and whenever tails are deleted.
THEOREM RunnerSerial == Spec => []OneAtATime
<1>1. TasksOK /\ QueueInv => OneAtATime
  <2> SUFFICES ASSUME QueueInv,
                      NEW t \in Tasks, NEW u \in Tasks, t # u, Inside(t), Inside(u),
                      tasks[t].process = tasks[u].process,
                      KeyFor(tasks[t].request) = KeyFor(tasks[u].request)
               PROVE  FALSE
    BY DEF OneAtATime
  <2>1. /\ Busy(t) /\ InQueue(u, Process(t), Key(t)) /\ Awaits(t) = None
        /\ Busy(u) /\ InQueue(t, Process(u), Key(u)) /\ Awaits(u) = None
    BY DEF Inside, InQueue, Busy, Process, Key, Awaits
  <2>2. PICK ord \in [Tasks -> Nat] : InOrder(ord)
    BY DEF QueueInv
  <2>3. /\ ord[t] = ord[u] => t = u
        /\ ord[t] <= ord[u] /\ ord[u] <= ord[t]
    BY <2>1, <2>2 DEF InOrder
  <2>4. ord[t] \in Nat /\ ord[u] \in Nat
    OBVIOUS
  <2> QED BY <2>3, <2>4
<1> QED BY <1>1, AllInv, PTL
=============================================================================
