------------------------ MODULE AttachmentRefinement ------------------------
(***************************************************************************)
(* That Attachment implements SingleAttachment, for any number of requests *)
(* and pages, and that an attachment is cancelled for its own reasons.     *)
(***************************************************************************)
EXTENDS AttachmentProofs

\* A detach acts on the attachment its token was issued for, and is answered once.
GrantedInv ==
    \A d \in Detachers :
        /\ target[d] # None => granted[d] = target[d]
        /\ dpc[d] # "done" => answer[d] = 0

LEMMA GrantedStep == TypeOK /\ DetachInv /\ GrantedInv /\ [Next]_vars => GrantedInv'
<1>. SUFFICES ASSUME TypeOK, DetachInv, GrantedInv, [Next]_vars PROVE GrantedInv'
  OBVIOUS
<1>. USE DEF GrantedInv
<1>1. ASSUME UNCHANGED detachVars PROVE GrantedInv'
  BY <1>1 DEF detachVars
<1>2. ASSUME NEW h \in Handlers, HandlerStep(h) \/ AttachRequest(h)
      PROVE  UNCHANGED detachVars
  BY <1>2 DEF HandlerStep, AttachRequest, ClaimSocket, HelloFails, Hello, ClaimActive,
              CheckBeforeStart, StartFails, StartSpawns, StartAborts, StartReturns,
              CheckAfterStart, MarkDetachable, BridgeStops, BrowserLeaves, CloseAndWait,
              Quarantine, FinishActive, ReleaseSocket, SignalDone, ChildExits
<1>3. ASSUME NEW q \in Sessions, SessionRequest(q) PROVE UNCHANGED detachVars
  BY <1>3 DEF SessionRequest, FindSlotFree, IssueNonce, IssueNonceFails, PeekActive,
              IssueToken, IssueTokenFails, OfferToken
<1>4. ASSUME Expiry \/ CloseCancelsServer \/ CloseCancelsActive PROVE UNCHANGED detachVars
  BY <1>4 DEF Expiry, NonceExpires, TokenExpires, CloseCancelsServer, CloseCancelsActive
<1>5. ASSUME NEW d \in Detachers, DetachStep(d) \/ DetachRequest(d) PROVE GrantedInv'
  <2>. USE DEF Reply, DetachInv, TypeOK, DetachTypeOK
  <2>1. CASE AcceptDetach(d)
    BY <2>1 DEF AcceptDetach
  <2>2. CASE CancelAttachment(d)
    BY <2>2 DEF CancelAttachment
  <2>3. CASE DetachConfirmed(d)
    BY <2>3 DEF DetachConfirmed
  <2>4. CASE DetachTimesOut(d)
    BY <2>4 DEF DetachTimesOut
  <2>5. ASSUME NEW t \in Tokens, TakeToken(d, t) PROVE GrantedInv'
    BY <2>5 DEF TakeToken
  <2>. QED
    BY <1>5, <2>1, <2>2, <2>3, <2>4, <2>5 DEF DetachStep, DetachRequest
<1>6. CASE UNCHANGED vars
  BY <1>1, <1>6 DEF vars
<1>. QED
  BY <1>1, <1>2, <1>3, <1>4, <1>5, <1>6 DEF Next

LEMMA InitGranted == Init => GrantedInv
BY DEF Init, GrantedInv

-----------------------------------------------------------------------------
(* Why a context is cancelled                                              *)

\* The active attachment loses its context only to Close, to a detach whose token
\* was issued for it, or to its own end: never to a stale token or a late timer.
THEOREM OwnReason == Spec => CancelledForItsOwnReason
<1>. DEFINE Reason(h) == \/ closePc' # closePc
                         \/ \E d \in Detachers : granted[d] = h
                         \/ cleanupErr[h]
                         \/ pc[h] = "finish"
            Loses(h) == active = h /\ ~Cancelled(h) /\ Cancelled(h)'
<1>1. IInv /\ GrantedInv /\ [Next]_vars => \A h \in Handlers : Loses(h) => Reason(h)
  <2>. SUFFICES ASSUME IInv, GrantedInv, [Next]_vars, NEW h \in Handlers, Loses(h)
                PROVE  Reason(h)
    OBVIOUS
  <2>1. /\ active = h /\ ~ownCancelled[h] /\ ~serverCancelled
        /\ ownCancelled'[h] \/ serverCancelled'
    BY DEF Cancelled
  <2>2. pc[h] \notin {"idle", "claim", "hello", "refused"}
    BY <2>1 DEF IInv, OwnerInv
  <2>. HIDE DEF Loses
  <2>3. ASSUME UNCHANGED <<ownCancelled, serverCancelled>> PROVE FALSE
    BY <2>1, <2>3
  <2>4. ASSUME NEW k \in Handlers, HandlerStep(k) \/ AttachRequest(k) PROVE Reason(h)
    <3>1. CASE ClaimActive(k)
      <4>1. k # h
        BY <2>2, <3>1 DEF ClaimActive
      <4>. QED
        BY <2>1, <3>1, <4>1 DEF ClaimActive, IInv, TypeOK, AttTypeOK
    <3>2. CASE Quarantine(k)
      <4>1. /\ ownCancelled' = ownCancelled
            /\ cleanupErr[k] => serverCancelled' = (serverCancelled \/ active = k)
            /\ ~cleanupErr[k] => serverCancelled' = serverCancelled
        BY <3>2 DEF Quarantine, QuarantineAttachment
      <4>2. cleanupErr[k] /\ active = k
        <5>1. CASE cleanupErr[k] /\ active # k
          BY <2>1, <4>1, <5>1, Zenon
        <5>2. CASE ~cleanupErr[k]
          BY <2>3, <4>1, <5>2
        <5>. QED
          BY <5>1, <5>2
      <4>. QED
        BY <2>1, <4>2
    <3>3. CASE FinishActive(k)
      BY <2>1, <3>3 DEF FinishActive, IInv, TypeOK, AttTypeOK
    <3>4. ASSUME \/ ClaimSocket(k) \/ HelloFails(k) \/ \E n \in Nonces : Hello(k, n)
                 \/ CheckBeforeStart(k) \/ StartFails(k) \/ StartSpawns(k)
                 \/ StartAborts(k) \/ StartReturns(k) \/ CheckAfterStart(k)
                 \/ MarkDetachable(k) \/ BridgeStops(k) \/ BrowserLeaves(k)
                 \/ CloseAndWait(k) \/ ReleaseSocket(k) \/ SignalDone(k) \/ ChildExits(k)
          PROVE  UNCHANGED <<ownCancelled, serverCancelled>>
      BY <3>4 DEF ClaimSocket, HelloFails, Hello, CheckBeforeStart, StartFails,
                  StartSpawns, StartAborts, StartReturns, CheckAfterStart, MarkDetachable,
                  BridgeStops, BrowserLeaves, CloseAndWait, ReleaseSocket, SignalDone,
                  ChildExits, attVars, serverVars
    <3>. QED
      BY <2>3, <2>4, <3>1, <3>2, <3>3, <3>4 DEF HandlerStep, AttachRequest
  <2>5. ASSUME NEW q \in Sessions, SessionRequest(q)
        PROVE  UNCHANGED <<ownCancelled, serverCancelled>>
    BY <2>5 DEF SessionRequest, FindSlotFree, IssueNonce, IssueNonceFails, PeekActive,
                IssueToken, IssueTokenFails, OfferToken, attVars, serverVars
  <2>6. ASSUME NEW d \in Detachers, DetachStep(d) \/ DetachRequest(d) PROVE Reason(h)
    <3>1. CASE CancelAttachment(d)
      <4>1. target[d] = h
        BY <2>1, <3>1 DEF CancelAttachment, serverVars, IInv, TypeOK, AttTypeOK
      <4>. QED
        BY <4>1, NoneAssumption DEF GrantedInv
    <3>2. CASE DetachTimesOut(d)
      <4>1. /\ ownCancelled' = ownCancelled
            /\ serverCancelled' = (serverCancelled \/ active = target[d])
        BY <3>2 DEF DetachTimesOut, QuarantineAttachment
      <4>2. target[d] = h
        BY <2>1, <4>1
      <4>. QED
        BY <4>2, NoneAssumption DEF GrantedInv
    <3>3. ASSUME AcceptDetach(d) \/ DetachConfirmed(d) \/ DetachRequest(d)
          PROVE  UNCHANGED <<ownCancelled, serverCancelled>>
      BY <3>3 DEF AcceptDetach, DetachConfirmed, DetachRequest, TakeToken, attVars, serverVars
    <3>. QED
      BY <2>3, <2>6, <3>1, <3>2, <3>3 DEF DetachStep
  <2>7. CASE CloseCancelsServer \/ CloseCancelsActive
    BY <2>7 DEF CloseCancelsServer, CloseCancelsActive
  <2>8. ASSUME Expiry \/ UNCHANGED vars PROVE UNCHANGED <<ownCancelled, serverCancelled>>
    BY <2>8 DEF Expiry, NonceExpires, TokenExpires, attVars, serverVars, vars
  <2>. HIDE DEF Reason
  <2>. QED
    BY <2>3, <2>4, <2>5, <2>6, <2>7, <2>8 DEF Next, Reason
<1>2. IInv /\ GrantedInv /\ [Next]_vars => [\A h \in Handlers : Loses(h) => Reason(h)]_vars
  BY <1>1
<1>3. Init => GrantedInv
  BY InitGranted
<1>4. IInv /\ GrantedInv /\ [Next]_vars => GrantedInv'
  BY GrantedStep DEF IInv
<1>. QED
  BY <1>2, <1>3, <1>4, Invariance, PTL DEF Spec, CancelledForItsOwnReason

-----------------------------------------------------------------------------
(* The refinement                                                          *)

\* The mapping gives every child state a phase of its own.
LEMMA PhaseOf ==
    ASSUME TypeOK, NEW h \in Handlers
    PROVE  /\ Phase[h] = "new" <=> child[h] = "none"
           /\ Phase[h] = "running" <=> child[h] = "live"
           /\ Phase[h] = "abandoned" <=> child[h] = "abandoned"
           /\ Phase[h] = "ended" <=> child[h] = "gone"
BY DEF Phase, TypeOK, HandlerTypeOK, ChildStates

\* One child that changes is one attachment that changes its phase.
LEMMA PhaseChange ==
    ASSUME TypeOK, NEW h \in Handlers, NEW s \in ChildStates,
           child' = [child EXCEPT ![h] = s]
    PROVE  /\ s = "live" => Phase' = [Phase EXCEPT ![h] = "running"]
           /\ s = "abandoned" => Phase' = [Phase EXCEPT ![h] = "abandoned"]
           /\ s = "gone" => Phase' = [Phase EXCEPT ![h] = "ended"]
           /\ s = child[h] => Phase' = Phase
BY DEF Phase, TypeOK, HandlerTypeOK, ChildStates

\* What a detach does before it is answered with 204 confirms nothing.
LEMMA StillDisplaced ==
    ASSUME TypeOK, NEW d \in Detachers, answer[d] # 204, answer'[d] # 204,
           \A e \in Detachers \ {d} : target'[e] = target[e] /\ answer'[e] = answer[e]
    PROVE  Displaced' = Displaced
BY DEF Displaced

\* A child its handler may still have, and a failed teardown, keep the slot with their handler.
LEMMA OnlyTheOwner ==
    ASSUME IInv, ChildInv, NEW h \in Handlers, pc[h] = "start"
    PROVE  /\ child[h] = "none"
           /\ \A k \in Handlers : child[k] # "live" /\ ~cleanupErr[k]
<1>1. child[h] = "none" /\ ~cleanupErr[h] /\ HoldsSlot(h)
  BY DEF IInv, TeardownInv, HoldsSlot
<1>2. ASSUME NEW k \in Handlers, child[k] = "live" \/ cleanupErr[k] PROVE HoldsSlot(k)
  BY <1>2 DEF IInv, TypeOK, HandlerTypeOK, HandlerPcs, TeardownInv, ChildInv, HoldsSlot
<1>. QED
  BY <1>1, <1>2 DEF IInv, SlotInv

LEMMA HandlerRefines ==
    ASSUME IInv, ChildInv, NEW h \in Handlers,
           HandlerStep(h) \/ AttachRequest(h)
    PROVE  Single!Next \/ UNCHANGED Single!vars
<1>. USE DEF Single!Next, Single!vars
<1>1. Displaced' = Displaced
  <2>1. UNCHANGED detachVars
    BY DEF HandlerStep, AttachRequest, ClaimSocket, HelloFails, Hello, ClaimActive,
           CheckBeforeStart, StartFails, StartSpawns, StartAborts, StartReturns,
           CheckAfterStart, MarkDetachable, BridgeStops, BrowserLeaves, CloseAndWait,
           Quarantine, FinishActive, ReleaseSocket, SignalDone, ChildExits
  <2>. QED
    BY <2>1 DEF Displaced, detachVars
<1>2. TypeOK
  BY DEF IInv
<1>3. CASE StartSpawns(h)
  <2>1. child[h] = "none" /\ \A k \in Handlers : child[k] # "live" /\ ~cleanupErr[k]
    BY <1>3, OnlyTheOwner DEF StartSpawns
  <2>2. Phase[h] = "new" /\ Single!Running = {} /\ ~Blocked
    BY <1>2, <2>1, PhaseOf DEF Single!Running, Blocked
  <2>3. Phase' = [Phase EXCEPT ![h] = "running"] /\ Blocked' = Blocked
    BY <1>2, <1>3, PhaseChange DEF StartSpawns, Blocked, ChildStates
  <2>. QED
    BY <1>1, <2>2, <2>3 DEF Single!Begin
<1>4. ASSUME child[h] # "none", child' = [child EXCEPT ![h] = "gone"], Blocked' = Blocked
      PROVE  Single!Next \/ UNCHANGED Single!vars
  <2>1. CASE child[h] \in {"live", "abandoned"}
    <3>1. Phase[h] \in {"running", "abandoned"} /\ Phase' = [Phase EXCEPT ![h] = "ended"]
      BY <1>2, <1>4, <2>1, PhaseOf, PhaseChange DEF ChildStates
    <3>. QED
      BY <1>1, <1>4, <3>1 DEF Single!End
  <2>2. CASE child[h] = "gone"
    <3>1. Phase' = Phase
      BY <1>2, <1>4, <2>2, PhaseChange DEF ChildStates
    <3>. QED
      BY <1>1, <1>4, <3>1
  <2>. QED
    BY <1>2, <1>4, <2>1, <2>2 DEF TypeOK, HandlerTypeOK, ChildStates
<1>5. CASE StartAborts(h)
  <2>1. child[h] # "none" /\ Blocked' = Blocked
    BY <1>5 DEF StartAborts, Blocked, IInv, FlagInv
  <2>2. CASE child' = [child EXCEPT ![h] = "gone"]
    BY <1>4, <2>1, <2>2
  <2>3. CASE child[h] = "live" /\ child' = [child EXCEPT ![h] = "abandoned"]
    <3>1. Phase[h] = "running" /\ Phase' = [Phase EXCEPT ![h] = "abandoned"]
      BY <1>2, <2>3, PhaseOf, PhaseChange DEF ChildStates
    <3>. QED
      BY <1>1, <2>1, <3>1 DEF Single!Abandon
  <2>. QED
    BY <1>5, <2>2, <2>3 DEF StartAborts
<1>6. CASE ChildExits(h)
  <2>1. child[h] # "none" /\ child' = [child EXCEPT ![h] = "gone"] /\ Blocked' = Blocked
    BY <1>6 DEF ChildExits, Blocked
  <2>. QED
    BY <1>4, <2>1
<1>7. CASE CloseAndWait(h)
  <2>. PICK err \in BOOLEAN, left \in {child[h], "gone"} :
          /\ ~err => left = "gone"
          /\ cleanupErr' = [cleanupErr EXCEPT ![h] = err]
          /\ child' = [child EXCEPT ![h] = left]
    BY <1>7 DEF CloseAndWait
  <2>1. child[h] # "none" /\ ~cleanupErr[h]
    BY <1>7 DEF CloseAndWait, IInv, FlagInv, TeardownInv
  <2>2. CASE err
    <3>1. Phase[h] # "new" /\ Blocked'
      BY <1>2, <2>1, <2>2, PhaseOf DEF Blocked, TypeOK, HandlerTypeOK
    <3>2. \E p \in {Phase[h], "ended"} : Phase' = [Phase EXCEPT ![h] = p]
      <4>1. CASE left = "gone"
        BY <1>2, <4>1, PhaseChange DEF ChildStates
      <4>2. CASE left = child[h]
        <5>1. Phase' = Phase
          BY <1>2, <4>2, PhaseChange DEF TypeOK, HandlerTypeOK
        <5>2. Phase \in [Handlers -> {"new", "running", "abandoned", "ended"}]
          BY <1>2 DEF Phase, TypeOK, HandlerTypeOK, ChildStates
        <5>. QED
          BY <5>1, <5>2
      <4>. QED
        BY <4>1, <4>2
    <3>. QED
      BY <1>1, <3>1, <3>2 DEF Single!Fail
  <2>3. CASE ~err
    <3>1. cleanupErr' = cleanupErr
      BY <1>2, <2>1, <2>3 DEF TypeOK, HandlerTypeOK
    <3>. QED
      BY <1>4, <2>1, <2>3, <3>1 DEF Blocked
  <2>. QED
    BY <2>2, <2>3
<1>8. ASSUME UNCHANGED <<child, cleanupErr>> PROVE UNCHANGED Single!vars
  BY <1>1, <1>8 DEF Phase, Blocked
<1>. QED
  BY <1>3, <1>5, <1>6, <1>7, <1>8
     DEF HandlerStep, AttachRequest, ClaimSocket, HelloFails, Hello, ClaimActive,
         CheckBeforeStart, StartFails, StartReturns, CheckAfterStart, MarkDetachable,
         BridgeStops, BrowserLeaves, Quarantine, FinishActive, ReleaseSocket, SignalDone

LEMMA DetachRefines ==
    ASSUME IInv, GrantedInv, DetachInv', NEW d \in Detachers,
           DetachStep(d) \/ DetachRequest(d)
    PROVE  Single!Next \/ UNCHANGED Single!vars
<1>1. TypeOK /\ answer \in [Detachers -> Answers] /\ target \in [Detachers -> Handlers \cup {None}]
  BY DEF IInv, TypeOK, DetachTypeOK
<1>2. UNCHANGED <<child, cleanupErr>>
  BY DEF DetachStep, DetachRequest, AcceptDetach, CancelAttachment, DetachConfirmed,
         DetachTimesOut, TakeToken, handlerVars
<1>3. Phase' = Phase /\ Blocked' = Blocked
  BY <1>2 DEF Phase, Blocked
<1>4. ASSUME Displaced' = Displaced PROVE UNCHANGED Single!vars
  BY <1>3, <1>4 DEF Single!vars
<1>5. CASE CancelAttachment(d)
  BY <1>4, <1>5 DEF CancelAttachment, Displaced
<1>6. ASSUME \/ AcceptDetach(d) \/ DetachTimesOut(d) \/ \E t \in Tokens : TakeToken(d, t)
             \/ DetachConfirmed(d) /\ savedErr[target[d]]
      PROVE  Displaced' = Displaced
  <2>1. answer[d] # 204
    BY <1>6 DEF GrantedInv, AcceptDetach, DetachTimesOut, TakeToken, DetachConfirmed
  <2>2. /\ answer'[d] # 204
        /\ \A e \in Detachers \ {d} : target'[e] = target[e] /\ answer'[e] = answer[e]
    BY <1>1, <1>6, <2>1
       DEF AcceptDetach, DetachTimesOut, TakeToken, DetachConfirmed, Reply
  <2>. QED
    BY <1>1, <2>1, <2>2, StillDisplaced
<1>7. CASE DetachConfirmed(d) /\ ~savedErr[target[d]]
  <2>1. target' = target /\ answer' = [answer EXCEPT ![d] = 204]
    BY <1>7 DEF DetachConfirmed, Reply
  <2>2. target[d] \in Handlers /\ child[target[d]] = "gone"
    BY <1>1, <1>2, <2>1 DEF DetachInv
  <2>3. Displaced' = Displaced \cup {target[d]}
    BY <1>1, <2>1 DEF Displaced
  <2>4. Phase[target[d]] = "ended"
    BY <1>1, <2>2, PhaseOf
  <2>. QED
    BY <1>3, <2>2, <2>3, <2>4 DEF Single!Confirm, Single!Next
<1>. QED
  BY <1>4, <1>5, <1>6, <1>7 DEF DetachStep, DetachRequest

\* Every behaviour of the handlers, for any number of them, is one of the
\* single-attachment promise: a child starts only when none may be left but those
\* a failed Start abandoned, failed teardowns included, and a takeover is
\* confirmed only once its child has ended.
THEOREM Implements == Spec => ImplementsSingleAttachment
<1>1. Init => Single!Init
  BY DEF Init, Single!Init, Phase, Blocked, Displaced
<1>2. /\ IInv /\ ChildInv /\ GrantedInv /\ DetachInv' /\ [Next]_vars
      => [Single!Next]_Single!vars
  <2>. SUFFICES ASSUME IInv, ChildInv, GrantedInv, DetachInv', [Next]_vars
                PROVE  Single!Next \/ UNCHANGED Single!vars
    OBVIOUS
  <2>1. ASSUME NEW h \in Handlers, HandlerStep(h) \/ AttachRequest(h)
        PROVE  Single!Next \/ UNCHANGED Single!vars
    BY <2>1, HandlerRefines
  <2>2. ASSUME NEW d \in Detachers, DetachStep(d) \/ DetachRequest(d)
        PROVE  Single!Next \/ UNCHANGED Single!vars
    BY <2>2, DetachRefines
  <2>3. ASSUME UNCHANGED <<child, cleanupErr, target, answer>>
        PROVE  UNCHANGED Single!vars
    BY <2>3 DEF Single!vars, Phase, Blocked, Displaced
  <2>4. ASSUME NEW q \in Sessions, SessionRequest(q)
        PROVE  UNCHANGED <<child, cleanupErr, target, answer>>
    BY <2>4 DEF SessionRequest, FindSlotFree, IssueNonce, IssueNonceFails, PeekActive,
                IssueToken, IssueTokenFails, OfferToken, handlerVars, detachVars
  <2>5. ASSUME Expiry \/ CloseCancelsServer \/ CloseCancelsActive \/ UNCHANGED vars
        PROVE  UNCHANGED <<child, cleanupErr, target, answer>>
    BY <2>5 DEF Expiry, NonceExpires, TokenExpires, CloseCancelsServer,
                CloseCancelsActive, vars, handlerVars, detachVars
  <2>. QED
    BY <2>1, <2>2, <2>3, <2>4, <2>5 DEF Next
<1>3. Init => ChildInv /\ GrantedInv
  BY InitGranted DEF Init, ChildInv
<1>4. IInv /\ ChildInv /\ [Next]_vars => ChildInv'
  BY ChildStep DEF IInv
<1>5. IInv /\ GrantedInv /\ [Next]_vars => GrantedInv'
  BY GrantedStep DEF IInv
<1>6. IInv => DetachInv
  BY DEF IInv
<1>. QED
  BY <1>1, <1>2, <1>3, <1>4, <1>5, <1>6, Invariance, PTL
     DEF Spec, Single!Spec, ImplementsSingleAttachment
=============================================================================
