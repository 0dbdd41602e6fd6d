-------------------------- MODULE AttachmentProofs --------------------------
(***************************************************************************)
(* Proofs about Attachment for any number of requests, pages, nonces and   *)
(* tokens.  The invariant IInv is a conjunction of parts, each preserved   *)
(* by a lemma of its own that has one step per action of handleAttach; the *)
(* actions of the other handlers are covered together by QuietStepFacts    *)
(* wherever they leave the part's variables alone.                         *)
(***************************************************************************)
EXTENDS Attachment, TLAPS

USE NoneAssumption

\* Every action keeps the types.
LEMMA TypeOKStep == TypeOK /\ [Next]_vars => TypeOK'
<1>. SUFFICES ASSUME TypeOK, [Next]_vars PROVE TypeOK'
  OBVIOUS
<1>. USE DEF TypeOK, HandlerTypeOK, AttTypeOK, ServerTypeOK, StoreTypeOK,
             SessionTypeOK, DetachTypeOK, HandlerPcs, ChildStates, GrantStates,
             SessionPcs, DetachPcs, Answers, Goto, vars, handlerVars, flagVars, attVars, serverVars,
             storeVars, sessionVars, detachVars
<1>1. ASSUME NEW h \in Handlers, ClaimSocket(h) PROVE TypeOK'
  BY <1>1 DEF ClaimSocket
<1>2. ASSUME NEW h \in Handlers, HelloFails(h) PROVE TypeOK'
  BY <1>2 DEF HelloFails
<1>3. ASSUME NEW h \in Handlers, NEW n \in Nonces, Hello(h, n) PROVE TypeOK'
  BY <1>3 DEF Hello
<1>4. ASSUME NEW h \in Handlers, ClaimActive(h) PROVE TypeOK'
  <2>1. HandlerTypeOK'  BY <1>4 DEF ClaimActive
  <2>2. AttTypeOK'
    <3>1. CASE active = None
      <4>1. UNCHANGED attVars
        BY <1>4, <3>1 DEF ClaimActive
      <4>. QED  BY <4>1
    <3>2. CASE ~(active = None)
      <4>1. /\ ownCancelled' = [ownCancelled EXCEPT ![h] = TRUE]
             /\ UNCHANGED <<flagVars, done>>
        BY <1>4, <3>2 DEF ClaimActive
      <4>. QED  BY <4>1
    <3>. QED  BY <3>1, <3>2
  <2>3. ServerTypeOK'  BY <1>4 DEF ClaimActive
  <2>4. StoreTypeOK'  BY <1>4 DEF ClaimActive
  <2>5. SessionTypeOK'  BY <1>4 DEF ClaimActive
  <2>6. DetachTypeOK'  BY <1>4 DEF ClaimActive
  <2>. QED  BY <2>1, <2>2, <2>3, <2>4, <2>5, <2>6
<1>5. ASSUME NEW h \in Handlers, CheckBeforeStart(h) PROVE TypeOK'
  BY <1>5 DEF CheckBeforeStart
<1>6. ASSUME NEW h \in Handlers, StartFails(h) PROVE TypeOK'
  BY <1>6 DEF StartFails
<1>7. ASSUME NEW h \in Handlers, StartSpawns(h) PROVE TypeOK'
  BY <1>7 DEF StartSpawns
<1>8. ASSUME NEW h \in Handlers, StartAborts(h) PROVE TypeOK'
  BY <1>8 DEF StartAborts
<1>9. ASSUME NEW h \in Handlers, StartReturns(h) PROVE TypeOK'
  BY <1>9 DEF StartReturns
<1>10. ASSUME NEW h \in Handlers, CheckAfterStart(h) PROVE TypeOK'
  BY <1>10 DEF CheckAfterStart
<1>11. ASSUME NEW h \in Handlers, MarkDetachable(h) PROVE TypeOK'
  <2>1. HandlerTypeOK'  BY <1>11 DEF MarkDetachable
  <2>2. AttTypeOK'
    <3>1. CASE MayBecomeDetachable(h)
      <4>1. /\ detachable' = [detachable EXCEPT ![h] = TRUE]
             /\ UNCHANGED <<ownCancelled, detachRequested, finished,
                            quarantined, savedErr, done>>
        BY <1>11, <3>1 DEF MarkDetachable
      <4>. QED  BY <4>1
    <3>2. CASE ~(MayBecomeDetachable(h))
      <4>1. UNCHANGED attVars
        BY <1>11, <3>2 DEF MarkDetachable
      <4>. QED  BY <4>1
    <3>. QED  BY <3>1, <3>2
  <2>3. ServerTypeOK'  BY <1>11 DEF MarkDetachable
  <2>4. StoreTypeOK'  BY <1>11 DEF MarkDetachable
  <2>5. SessionTypeOK'  BY <1>11 DEF MarkDetachable
  <2>6. DetachTypeOK'  BY <1>11 DEF MarkDetachable
  <2>. QED  BY <2>1, <2>2, <2>3, <2>4, <2>5, <2>6
<1>12. ASSUME NEW h \in Handlers, BridgeStops(h) PROVE TypeOK'
  BY <1>12 DEF BridgeStops
<1>13. ASSUME NEW h \in Handlers, BrowserLeaves(h) PROVE TypeOK'
  BY <1>13 DEF BrowserLeaves
<1>14. ASSUME NEW h \in Handlers, CloseAndWait(h) PROVE TypeOK'
  BY <1>14 DEF CloseAndWait
<1>15. ASSUME NEW h \in Handlers, Quarantine(h) PROVE TypeOK'
  <2>1. HandlerTypeOK'  BY <1>15 DEF Quarantine, QuarantineAttachment
  <2>2. AttTypeOK'
    <3>1. CASE cleanupErr[h]
      <4>1. /\ quarantined' = [quarantined EXCEPT ![h] = TRUE]
             /\ UNCHANGED <<ownCancelled, detachable, detachRequested,
                            finished, savedErr, done>>
        BY <1>15, <3>1 DEF Quarantine, QuarantineAttachment
      <4>. QED  BY <4>1
    <3>2. CASE ~(cleanupErr[h])
      <4>1. UNCHANGED attVars
        BY <1>15, <3>2 DEF Quarantine, QuarantineAttachment
      <4>. QED  BY <4>1
    <3>. QED  BY <3>1, <3>2
  <2>3. ServerTypeOK'  BY <1>15 DEF Quarantine, QuarantineAttachment
  <2>4. StoreTypeOK'  BY <1>15 DEF Quarantine, QuarantineAttachment
  <2>5. SessionTypeOK'  BY <1>15 DEF Quarantine, QuarantineAttachment
  <2>6. DetachTypeOK'  BY <1>15 DEF Quarantine, QuarantineAttachment
  <2>. QED  BY <2>1, <2>2, <2>3, <2>4, <2>5, <2>6
<1>16. ASSUME NEW h \in Handlers, FinishActive(h) PROVE TypeOK'
  BY <1>16 DEF FinishActive
<1>17. ASSUME NEW h \in Handlers, ReleaseSocket(h) PROVE TypeOK'
  BY <1>17 DEF ReleaseSocket
<1>18. ASSUME NEW h \in Handlers, SignalDone(h) PROVE TypeOK'
  BY <1>18 DEF SignalDone
<1>19. ASSUME NEW h \in Handlers, ChildExits(h) PROVE TypeOK'
  BY <1>19 DEF ChildExits
<1>20. ASSUME NEW q \in Sessions, FindSlotFree(q) PROVE TypeOK'
  BY <1>20 DEF FindSlotFree
<1>21. ASSUME NEW q \in Sessions, NEW n \in Nonces, IssueNonce(q, n) PROVE TypeOK'
  BY <1>21 DEF IssueNonce
<1>22. ASSUME NEW q \in Sessions, IssueNonceFails(q) PROVE TypeOK'
  BY <1>22 DEF IssueNonceFails
<1>23. ASSUME NEW q \in Sessions, PeekActive(q) PROVE TypeOK'
  BY <1>23 DEF PeekActive, Detachable
<1>24. ASSUME NEW q \in Sessions, NEW t \in Tokens, IssueToken(q, t) PROVE TypeOK'
  BY <1>24 DEF IssueToken
<1>25. ASSUME NEW q \in Sessions, IssueTokenFails(q) PROVE TypeOK'
  BY <1>25 DEF IssueTokenFails
<1>26. ASSUME NEW q \in Sessions, OfferToken(q) PROVE TypeOK'
  <2>1. HandlerTypeOK'  BY <1>26 DEF OfferToken
  <2>2. AttTypeOK'  BY <1>26 DEF OfferToken
  <2>3. ServerTypeOK'  BY <1>26 DEF OfferToken
  <2>4. StoreTypeOK'  BY <1>26 DEF OfferToken
  <2>5. SessionTypeOK'  BY <1>26 DEF OfferToken
  <2>6. DetachTypeOK'  BY <1>26 DEF OfferToken
  <2>. QED  BY <2>1, <2>2, <2>3, <2>4, <2>5, <2>6
<1>27. ASSUME NEW n \in Nonces, NonceExpires(n) PROVE TypeOK'
  BY <1>27 DEF NonceExpires
<1>28. ASSUME NEW t \in Tokens, TokenExpires(t) PROVE TypeOK'
  BY <1>28 DEF TokenExpires
<1>29. ASSUME NEW d \in Detachers, NEW t \in Tokens, TakeToken(d, t) PROVE TypeOK'
  BY <1>29 DEF TakeToken, Reply
<1>30. ASSUME NEW d \in Detachers, AcceptDetach(d) PROVE TypeOK'
  <2>1. HandlerTypeOK'  BY <1>30 DEF AcceptDetach, Reply
  <2>2. AttTypeOK'
    <3>1. CASE active # None /\ active = granted[d] /\ Detachable(active)
      <4>1. /\ detachable' = [detachable EXCEPT ![active] = FALSE]
             /\ detachRequested' = [detachRequested EXCEPT ![active] = TRUE]
             /\ UNCHANGED <<ownCancelled, finished, quarantined, savedErr, done>>
        BY <1>30, <3>1 DEF AcceptDetach, Reply
      <4>. QED  BY <4>1
    <3>2. CASE ~(active # None /\ active = granted[d] /\ Detachable(active))
      <4>1. UNCHANGED attVars
        BY <1>30, <3>2 DEF AcceptDetach, Reply
      <4>. QED  BY <4>1
    <3>. QED  BY <3>1, <3>2
  <2>3. ServerTypeOK'  BY <1>30 DEF AcceptDetach, Reply
  <2>4. StoreTypeOK'  BY <1>30 DEF AcceptDetach, Reply
  <2>5. SessionTypeOK'  BY <1>30 DEF AcceptDetach, Reply
  <2>6. DetachTypeOK'  BY <1>30 DEF AcceptDetach, Reply
  <2>. QED  BY <2>1, <2>2, <2>3, <2>4, <2>5, <2>6
<1>31. ASSUME NEW d \in Detachers, CancelAttachment(d) PROVE TypeOK'
  BY <1>31 DEF CancelAttachment
<1>32. ASSUME NEW d \in Detachers, DetachConfirmed(d) PROVE TypeOK'
  BY <1>32 DEF DetachConfirmed, Reply
<1>33. ASSUME NEW d \in Detachers, DetachTimesOut(d) PROVE TypeOK'
  <2>1. HandlerTypeOK'  BY <1>33 DEF DetachTimesOut, Reply, QuarantineAttachment
  <2>2. AttTypeOK'  BY <1>33 DEF DetachTimesOut, Reply, QuarantineAttachment
  <2>3. ServerTypeOK'  BY <1>33 DEF DetachTimesOut, Reply, QuarantineAttachment
  <2>4. StoreTypeOK'  BY <1>33 DEF DetachTimesOut, Reply, QuarantineAttachment
  <2>5. SessionTypeOK'  BY <1>33 DEF DetachTimesOut, Reply, QuarantineAttachment
  <2>6. DetachTypeOK'  BY <1>33 DEF DetachTimesOut, Reply, QuarantineAttachment
  <2>. QED  BY <2>1, <2>2, <2>3, <2>4, <2>5, <2>6
<1>34. ASSUME CloseCancelsServer PROVE TypeOK'
  BY <1>34 DEF CloseCancelsServer
<1>35. ASSUME CloseCancelsActive PROVE TypeOK'
  BY <1>35 DEF CloseCancelsActive
<1>36. ASSUME UNCHANGED vars PROVE TypeOK'
  BY <1>36
<1>. HIDE DEF TypeOK, Goto, vars
<1>. QED
  BY <1>1, <1>2, <1>3, <1>4, <1>5, <1>6, <1>7, <1>8, <1>9, <1>10, <1>11,
     <1>12, <1>13, <1>14, <1>15, <1>16, <1>17, <1>18, <1>19, <1>20, <1>21,
     <1>22, <1>23, <1>24, <1>25, <1>26, <1>27, <1>28, <1>29, <1>30, <1>31,
     <1>32, <1>33, <1>34, <1>35, <1>36
     DEF Next, HandlerStep, AttachRequest, SessionRequest, DetachStep, DetachRequest, Expiry

\* The initial state is well typed.
LEMMA InitTypeOK == Init => TypeOK
<1>. SUFFICES ASSUME Init PROVE TypeOK
  OBVIOUS
<1>. USE DEF Init
<1>1. HandlerTypeOK  BY DEF HandlerTypeOK, HandlerPcs, ChildStates
<1>2. AttTypeOK      BY DEF AttTypeOK
<1>3. ServerTypeOK   BY DEF ServerTypeOK
<1>4. StoreTypeOK    BY DEF StoreTypeOK, GrantStates
<1>5. SessionTypeOK  BY DEF SessionTypeOK, SessionPcs
<1>6. DetachTypeOK   BY DEF DetachTypeOK, DetachPcs, Answers
<1>. QED  BY <1>1, <1>2, <1>3, <1>4, <1>5, <1>6 DEF TypeOK

\* The variables keep their types.
THEOREM TypeCorrect == Spec => []TypeOK
<1>. QED
  BY InitTypeOK, TypeOKStep, PTL DEF Spec

-----------------------------------------------------------------------------
(* The inductive invariant, in the order its parts depend on each other.   *)

\* From claiming the slot until it is given back, or for good if it is not.
HoldsSlot(h) ==
    \/ pc[h] \in {"hello", "claim", "check", "start", "spawned", "started",
                  "mark", "bridge", "closing", "quarantine", "finish", "release"}
    \/ pc[h] \in {"signal", "done"} /\ ~releaseSocket[h]

\* The slot is a mutex.
SlotInv ==
    /\ \A h \in Handlers : HoldsSlot(h) => slot
    /\ \A h, k \in Handlers : HoldsSlot(h) /\ HoldsSlot(k) => h = k

\* s.active is the attachment between claimActive and finishActive.
OwnerInv ==
    \A h \in Handlers :
        active = h <=> pc[h] \in {"check", "start", "spawned", "started", "mark",
                                  "bridge", "closing", "quarantine", "finish"}

\* What a handler knows of its child and of its teardown at each point.
TeardownInv ==
    \A h \in Handlers :
        /\ pc[h] \in {"idle", "refused", "hello", "claim", "check", "start"}
               => child[h] = "none"
        /\ cleanupErr[h]
               => pc[h] \in {"quarantine", "finish", "release", "signal", "done"}
        /\ pc[h] \in {"finish", "release", "signal", "done"} \/ releaseSocket[h]
        /\ cleanupErr[h] /\ pc[h] \in {"finish", "release", "signal", "done"}
               => ~releaseSocket[h] /\ serverCancelled

\* A child that outlives its handler's own cleanup has its failure on record.
ChildInv ==
    \A h \in Handlers :
        child[h] = "live" /\ pc[h] \in {"quarantine", "finish", "release", "signal", "done"}
            => cleanupErr[h]

\* What the flags of an attachment say about its handler.
FlagInv ==
    \A h \in Handlers :
        /\ detachable[h] => pc[h] \in {"bridge", "closing", "quarantine", "finish"}
        /\ pc[h] \in {"spawned", "started", "mark", "bridge", "closing", "quarantine"}
               => child[h] \in {"live", "gone"}
        /\ detachRequested[h] =>
               pc[h] \in {"bridge", "closing", "quarantine", "finish",
                          "release", "signal", "done"}
        /\ detachable[h] \/ detachRequested[h] =>
               /\ child[h] \in {"live", "gone"}
               /\ (child[h] = "live" /\ pc[h] \in {"quarantine", "finish",
                             "release", "signal", "done"} => cleanupErr[h])
        /\ ~releaseSocket[h] => cleanupErr[h] \/ quarantined[h]
        /\ pc[h] \in {"release", "signal", "done"} => savedErr[h] = cleanupErr[h]
        /\ pc[h] \in {"idle", "refused", "hello"} => ~savedErr[h]
        /\ done[h] => pc[h] = "done"

\* What a detach request knows of the attachment it cancels.
DetachInv ==
    /\ \A d, e \in Detachers : target[d] = target[e] /\ target[d] # None => d = e
    /\ \A d \in Detachers :
        /\ target[d] # None => detachRequested[target[d]]
        /\ dpc[d] \in {"idle", "check"} => target[d] = None
        /\ dpc[d] \in {"cancel", "wait"} =>
               /\ target[d] # None
               /\ (quarantined[target[d]] => cleanupErr[target[d]])
        /\ answer[d] = 204 => /\ dpc[d] = "done"
                              /\ target[d] # None
                              /\ pc[target[d]] = "done"
                              /\ releaseSocket[target[d]]
                              /\ child[target[d]] = "gone"

\* A nonce that was consumed stays consumed.
NonceInv ==
    /\ \A h \in Handlers : nonceOf[h] # None => nonceState[nonceOf[h]] = "spent"
    /\ \A h, k \in Handlers : nonceOf[h] = nonceOf[k] /\ nonceOf[h] # None => h = k
    /\ \A h \in Handlers : pc[h] \in {"idle", "refused", "hello"} => nonceOf[h] = None
-----------------------------------------------------------------------------
(* Steps that leave the handlers of handleAttach where they are.           *)

QuietStep ==
    \/ \E q \in Sessions : SessionRequest(q)
    \/ \E d \in Detachers : DetachStep(d) \/ DetachRequest(d)
    \/ Expiry
    \/ CloseCancelsServer
    \/ CloseCancelsActive
    \/ UNCHANGED vars

\* The case split every lemma about [Next]_vars below makes.
LEMMA NextCases ==
    [Next]_vars =>
        \/ \E h \in Handlers :
              \/ ClaimSocket(h) \/ HelloFails(h) \/ \E n \in Nonces : Hello(h, n)
              \/ ClaimActive(h) \/ CheckBeforeStart(h)
              \/ StartFails(h) \/ StartSpawns(h) \/ StartAborts(h)
              \/ StartReturns(h) \/ CheckAfterStart(h) \/ MarkDetachable(h)
              \/ BridgeStops(h) \/ BrowserLeaves(h) \/ CloseAndWait(h)
              \/ Quarantine(h) \/ FinishActive(h) \/ ReleaseSocket(h)
              \/ SignalDone(h) \/ ChildExits(h)
        \/ QuietStep
  BY DEF Next, HandlerStep, AttachRequest, QuietStep

\* A step of another handler, of the clock or of Close leaves the requests to
\* handleAttach, the slot and its owner alone, and never undoes a cancellation.
LEMMA QuietStepFacts ==
    ASSUME QuietStep
    PROVE  /\ UNCHANGED <<pc, nonceOf, child, cleanupErr, releaseSocket, slot,
                          active, finished, savedErr, done>>
           /\ serverCancelled => serverCancelled'
<1>. USE DEF vars, handlerVars, flagVars, attVars, serverVars, storeVars,
             sessionVars, detachVars
<1>1. ASSUME NEW q \in Sessions, SessionRequest(q)
      PROVE  UNCHANGED <<handlerVars, attVars, serverVars>>
  BY <1>1 DEF SessionRequest, FindSlotFree, IssueNonce, IssueNonceFails,
              PeekActive, IssueToken, IssueTokenFails, OfferToken
<1>2. ASSUME NEW d \in Detachers, DetachRequest(d)
      PROVE  UNCHANGED <<handlerVars, attVars, serverVars>>
  BY <1>2 DEF DetachRequest, TakeToken
<1>3. ASSUME NEW d \in Detachers, AcceptDetach(d)
      PROVE  UNCHANGED <<handlerVars, finished, savedErr, done, serverVars>>
  BY <1>3 DEF AcceptDetach
<1>4. ASSUME NEW d \in Detachers,
             CancelAttachment(d) \/ DetachConfirmed(d) \/ DetachTimesOut(d)
      PROVE  /\ UNCHANGED <<handlerVars, finished, savedErr, done, slot, active>>
             /\ serverCancelled => serverCancelled'
  <2>1. UNCHANGED <<handlerVars, finished, savedErr, done, slot, active>>
    BY <1>4 DEF CancelAttachment, DetachConfirmed, DetachTimesOut
  <2>2. CASE CancelAttachment(d) \/ DetachConfirmed(d)
    BY <2>1, <2>2 DEF CancelAttachment, DetachConfirmed
  <2>3. CASE DetachTimesOut(d)
    <3>1. serverCancelled' = (serverCancelled \/ active = target[d])
      BY <2>3 DEF DetachTimesOut, QuarantineAttachment
    <3>2. serverCancelled => serverCancelled'
      BY <3>1, Zenon
    <3>. QED  BY <2>1, <3>2
  <2>. QED  BY <1>4, <2>2, <2>3
<1>5. ASSUME Expiry PROVE UNCHANGED <<handlerVars, attVars, serverVars>>
  BY <1>5 DEF Expiry, NonceExpires, TokenExpires
<1>6. ASSUME CloseCancelsServer \/ CloseCancelsActive
      PROVE  /\ UNCHANGED <<handlerVars, finished, savedErr, done, slot, active>>
             /\ serverCancelled => serverCancelled'
  BY <1>6 DEF CloseCancelsServer, CloseCancelsActive
<1>. QED
  BY <1>1, <1>2, <1>3, <1>4, <1>5, <1>6 DEF QuietStep, DetachStep

-----------------------------------------------------------------------------
(* The parts of the invariant, one lemma each.                             *)

\* The slot stays a mutex: only a handler that found it free enters, and only
\* the handler that holds it gives it back.
LEMMA SlotStep == TypeOK /\ SlotInv /\ [Next]_vars => SlotInv'
<1>. SUFFICES ASSUME TypeOK, SlotInv, [Next]_vars PROVE SlotInv'
  OBVIOUS
<1>. USE DEF TypeOK, HandlerTypeOK, ServerTypeOK, HandlerPcs, Goto,
             handlerVars, attVars, flagVars, serverVars, storeVars,
             sessionVars, detachVars, SlotInv, HoldsSlot
<1>1. ASSUME NEW h \in Handlers, ClaimSocket(h) PROVE SlotInv'
  BY <1>1 DEF ClaimSocket
<1>2. ASSUME NEW h \in Handlers, HelloFails(h) PROVE SlotInv'
  BY <1>2 DEF HelloFails
<1>3. ASSUME NEW h \in Handlers, NEW n \in Nonces, Hello(h, n) PROVE SlotInv'
  BY <1>3 DEF Hello
<1>4. ASSUME NEW h \in Handlers, ClaimActive(h) PROVE SlotInv'
  BY <1>4 DEF ClaimActive
<1>5. ASSUME NEW h \in Handlers, CheckBeforeStart(h) PROVE SlotInv'
  BY <1>5 DEF CheckBeforeStart
<1>6. ASSUME NEW h \in Handlers, StartFails(h) PROVE SlotInv'
  BY <1>6 DEF StartFails
<1>7. ASSUME NEW h \in Handlers, StartSpawns(h) PROVE SlotInv'
  BY <1>7 DEF StartSpawns
<1>8. ASSUME NEW h \in Handlers, StartAborts(h) PROVE SlotInv'
  BY <1>8 DEF StartAborts
<1>9. ASSUME NEW h \in Handlers, StartReturns(h) PROVE SlotInv'
  BY <1>9 DEF StartReturns
<1>10. ASSUME NEW h \in Handlers, CheckAfterStart(h) PROVE SlotInv'
  BY <1>10 DEF CheckAfterStart
<1>11. ASSUME NEW h \in Handlers, MarkDetachable(h) PROVE SlotInv'
  BY <1>11 DEF MarkDetachable
<1>12. ASSUME NEW h \in Handlers, BridgeStops(h) PROVE SlotInv'
  BY <1>12 DEF BridgeStops
<1>13. ASSUME NEW h \in Handlers, BrowserLeaves(h) PROVE SlotInv'
  BY <1>13 DEF BrowserLeaves
<1>14. ASSUME NEW h \in Handlers, CloseAndWait(h) PROVE SlotInv'
  BY <1>14 DEF CloseAndWait
<1>15. ASSUME NEW h \in Handlers, Quarantine(h) PROVE SlotInv'
  BY <1>15 DEF Quarantine
<1>16. ASSUME NEW h \in Handlers, FinishActive(h) PROVE SlotInv'
  BY <1>16 DEF FinishActive
<1>17. ASSUME NEW h \in Handlers, ReleaseSocket(h) PROVE SlotInv'
  BY <1>17 DEF ReleaseSocket
<1>18. ASSUME NEW h \in Handlers, SignalDone(h) PROVE SlotInv'
  BY <1>18 DEF SignalDone
<1>19. ASSUME NEW h \in Handlers, ChildExits(h) PROVE SlotInv'
  BY <1>19 DEF ChildExits
<1>20. ASSUME QuietStep PROVE SlotInv'
  BY <1>20, QuietStepFacts
<1>. HIDE DEF SlotInv
<1>. QED
  BY <1>1, <1>2, <1>3, <1>4, <1>5, <1>6, <1>7, <1>8, <1>9, <1>10, <1>11,
     <1>12, <1>13, <1>14, <1>15, <1>16, <1>17, <1>18, <1>19, <1>20,
     NextCases

\* claimActive never finds another owner, for that owner would hold the slot.
LEMMA OwnerStep == TypeOK /\ SlotInv /\ OwnerInv /\ [Next]_vars => OwnerInv'
<1>. SUFFICES ASSUME TypeOK, SlotInv, OwnerInv, [Next]_vars PROVE OwnerInv'
  OBVIOUS
<1>. USE DEF TypeOK, HandlerTypeOK, ServerTypeOK, HandlerPcs, Goto,
             handlerVars, attVars, flagVars, serverVars, storeVars,
             sessionVars, detachVars, SlotInv, HoldsSlot, OwnerInv
<1>1. ASSUME NEW h \in Handlers, ClaimSocket(h) PROVE OwnerInv'
  BY <1>1 DEF ClaimSocket
<1>2. ASSUME NEW h \in Handlers, HelloFails(h) PROVE OwnerInv'
  BY <1>2 DEF HelloFails
<1>3. ASSUME NEW h \in Handlers, NEW n \in Nonces, Hello(h, n) PROVE OwnerInv'
  BY <1>3 DEF Hello
<1>4. ASSUME NEW h \in Handlers, ClaimActive(h) PROVE OwnerInv'
  BY <1>4 DEF ClaimActive
<1>5. ASSUME NEW h \in Handlers, CheckBeforeStart(h) PROVE OwnerInv'
  BY <1>5 DEF CheckBeforeStart
<1>6. ASSUME NEW h \in Handlers, StartFails(h) PROVE OwnerInv'
  BY <1>6 DEF StartFails
<1>7. ASSUME NEW h \in Handlers, StartSpawns(h) PROVE OwnerInv'
  BY <1>7 DEF StartSpawns
<1>8. ASSUME NEW h \in Handlers, StartAborts(h) PROVE OwnerInv'
  BY <1>8 DEF StartAborts
<1>9. ASSUME NEW h \in Handlers, StartReturns(h) PROVE OwnerInv'
  BY <1>9 DEF StartReturns
<1>10. ASSUME NEW h \in Handlers, CheckAfterStart(h) PROVE OwnerInv'
  BY <1>10 DEF CheckAfterStart
<1>11. ASSUME NEW h \in Handlers, MarkDetachable(h) PROVE OwnerInv'
  BY <1>11 DEF MarkDetachable
<1>12. ASSUME NEW h \in Handlers, BridgeStops(h) PROVE OwnerInv'
  BY <1>12 DEF BridgeStops
<1>13. ASSUME NEW h \in Handlers, BrowserLeaves(h) PROVE OwnerInv'
  BY <1>13 DEF BrowserLeaves
<1>14. ASSUME NEW h \in Handlers, CloseAndWait(h) PROVE OwnerInv'
  BY <1>14 DEF CloseAndWait
<1>15. ASSUME NEW h \in Handlers, Quarantine(h) PROVE OwnerInv'
  BY <1>15 DEF Quarantine
<1>16. ASSUME NEW h \in Handlers, FinishActive(h) PROVE OwnerInv'
  BY <1>16 DEF FinishActive
<1>17. ASSUME NEW h \in Handlers, ReleaseSocket(h) PROVE OwnerInv'
  BY <1>17 DEF ReleaseSocket
<1>18. ASSUME NEW h \in Handlers, SignalDone(h) PROVE OwnerInv'
  BY <1>18 DEF SignalDone
<1>19. ASSUME NEW h \in Handlers, ChildExits(h) PROVE OwnerInv'
  BY <1>19 DEF ChildExits
<1>20. ASSUME QuietStep PROVE OwnerInv'
  BY <1>20, QuietStepFacts
<1>. HIDE DEF OwnerInv
<1>. QED
  BY <1>1, <1>2, <1>3, <1>4, <1>5, <1>6, <1>7, <1>8, <1>9, <1>10, <1>11,
     <1>12, <1>13, <1>14, <1>15, <1>16, <1>17, <1>18, <1>19, <1>20,
     NextCases

\* A failed teardown is quarantined while its attachment is the active one, so
\* the server is cancelled and the slot kept.
LEMMA TeardownStep == TypeOK /\ OwnerInv /\ TeardownInv /\ [Next]_vars => TeardownInv'
<1>. SUFFICES ASSUME TypeOK, OwnerInv, TeardownInv, [Next]_vars PROVE TeardownInv'
  OBVIOUS
<1>. USE DEF TypeOK, HandlerTypeOK, ServerTypeOK, HandlerPcs, Goto,
             handlerVars, attVars, flagVars, serverVars, storeVars,
             sessionVars, detachVars, ChildStates, OwnerInv, TeardownInv
<1>1. ASSUME NEW h \in Handlers, ClaimSocket(h) PROVE TeardownInv'
  BY <1>1 DEF ClaimSocket
<1>2. ASSUME NEW h \in Handlers, HelloFails(h) PROVE TeardownInv'
  BY <1>2 DEF HelloFails
<1>3. ASSUME NEW h \in Handlers, NEW n \in Nonces, Hello(h, n) PROVE TeardownInv'
  BY <1>3 DEF Hello
<1>4. ASSUME NEW h \in Handlers, ClaimActive(h) PROVE TeardownInv'
  BY <1>4 DEF ClaimActive
<1>5. ASSUME NEW h \in Handlers, CheckBeforeStart(h) PROVE TeardownInv'
  BY <1>5 DEF CheckBeforeStart
<1>6. ASSUME NEW h \in Handlers, StartFails(h) PROVE TeardownInv'
  BY <1>6 DEF StartFails
<1>7. ASSUME NEW h \in Handlers, StartSpawns(h) PROVE TeardownInv'
  BY <1>7 DEF StartSpawns
<1>8. ASSUME NEW h \in Handlers, StartAborts(h) PROVE TeardownInv'
  BY <1>8 DEF StartAborts
<1>9. ASSUME NEW h \in Handlers, StartReturns(h) PROVE TeardownInv'
  BY <1>9 DEF StartReturns
<1>10. ASSUME NEW h \in Handlers, CheckAfterStart(h) PROVE TeardownInv'
  BY <1>10 DEF CheckAfterStart
<1>11. ASSUME NEW h \in Handlers, MarkDetachable(h) PROVE TeardownInv'
  BY <1>11 DEF MarkDetachable, MayBecomeDetachable
<1>12. ASSUME NEW h \in Handlers, BridgeStops(h) PROVE TeardownInv'
  BY <1>12 DEF BridgeStops
<1>13. ASSUME NEW h \in Handlers, BrowserLeaves(h) PROVE TeardownInv'
  BY <1>13 DEF BrowserLeaves
<1>14. ASSUME NEW h \in Handlers, CloseAndWait(h) PROVE TeardownInv'
  BY <1>14 DEF CloseAndWait
<1>15. ASSUME NEW h \in Handlers, Quarantine(h) PROVE TeardownInv'
  BY <1>15 DEF Quarantine, QuarantineAttachment
<1>16. ASSUME NEW h \in Handlers, FinishActive(h) PROVE TeardownInv'
  BY <1>16 DEF FinishActive
<1>17. ASSUME NEW h \in Handlers, ReleaseSocket(h) PROVE TeardownInv'
  BY <1>17 DEF ReleaseSocket
<1>18. ASSUME NEW h \in Handlers, SignalDone(h) PROVE TeardownInv'
  BY <1>18 DEF SignalDone
<1>19. ASSUME NEW h \in Handlers, ChildExits(h) PROVE TeardownInv'
  BY <1>19 DEF ChildExits
<1>20. ASSUME QuietStep PROVE TeardownInv'
  BY <1>20, QuietStepFacts
<1>. HIDE DEF TeardownInv
<1>. QED
  BY <1>1, <1>2, <1>3, <1>4, <1>5, <1>6, <1>7, <1>8, <1>9, <1>10, <1>11,
     <1>12, <1>13, <1>14, <1>15, <1>16, <1>17, <1>18, <1>19, <1>20,
     NextCases

\* The child is gone when its handler's teardown reports success; Start leaves
\* its handler no child at all.
LEMMA ChildStep == TypeOK /\ TeardownInv /\ ChildInv /\ [Next]_vars => ChildInv'
<1>. SUFFICES ASSUME TypeOK, TeardownInv, ChildInv, [Next]_vars PROVE ChildInv'
  OBVIOUS
<1>. USE DEF TypeOK, HandlerTypeOK, ServerTypeOK, HandlerPcs, Goto,
             handlerVars, attVars, flagVars, serverVars, storeVars,
             sessionVars, detachVars, ChildStates, TeardownInv, ChildInv
<1>1. ASSUME NEW h \in Handlers, ClaimSocket(h) PROVE ChildInv'
  BY <1>1 DEF ClaimSocket
<1>2. ASSUME NEW h \in Handlers, HelloFails(h) PROVE ChildInv'
  BY <1>2 DEF HelloFails
<1>3. ASSUME NEW h \in Handlers, NEW n \in Nonces, Hello(h, n) PROVE ChildInv'
  BY <1>3 DEF Hello
<1>4. ASSUME NEW h \in Handlers, ClaimActive(h) PROVE ChildInv'
  BY <1>4 DEF ClaimActive
<1>5. ASSUME NEW h \in Handlers, CheckBeforeStart(h) PROVE ChildInv'
  BY <1>5 DEF CheckBeforeStart
<1>6. ASSUME NEW h \in Handlers, StartFails(h) PROVE ChildInv'
  BY <1>6 DEF StartFails
<1>7. ASSUME NEW h \in Handlers, StartSpawns(h) PROVE ChildInv'
  BY <1>7 DEF StartSpawns
<1>8. ASSUME NEW h \in Handlers, StartAborts(h) PROVE ChildInv'
  BY <1>8 DEF StartAborts
<1>9. ASSUME NEW h \in Handlers, StartReturns(h) PROVE ChildInv'
  BY <1>9 DEF StartReturns
<1>10. ASSUME NEW h \in Handlers, CheckAfterStart(h) PROVE ChildInv'
  BY <1>10 DEF CheckAfterStart
<1>11. ASSUME NEW h \in Handlers, MarkDetachable(h) PROVE ChildInv'
  BY <1>11 DEF MarkDetachable, MayBecomeDetachable
<1>12. ASSUME NEW h \in Handlers, BridgeStops(h) PROVE ChildInv'
  BY <1>12 DEF BridgeStops
<1>13. ASSUME NEW h \in Handlers, BrowserLeaves(h) PROVE ChildInv'
  BY <1>13 DEF BrowserLeaves
<1>14. ASSUME NEW h \in Handlers, CloseAndWait(h) PROVE ChildInv'
  BY <1>14 DEF CloseAndWait
<1>15. ASSUME NEW h \in Handlers, Quarantine(h) PROVE ChildInv'
  BY <1>15 DEF Quarantine, QuarantineAttachment
<1>16. ASSUME NEW h \in Handlers, FinishActive(h) PROVE ChildInv'
  BY <1>16 DEF FinishActive
<1>17. ASSUME NEW h \in Handlers, ReleaseSocket(h) PROVE ChildInv'
  BY <1>17 DEF ReleaseSocket
<1>18. ASSUME NEW h \in Handlers, SignalDone(h) PROVE ChildInv'
  BY <1>18 DEF SignalDone
<1>19. ASSUME NEW h \in Handlers, ChildExits(h) PROVE ChildInv'
  BY <1>19 DEF ChildExits
<1>20. ASSUME QuietStep PROVE ChildInv'
  BY <1>20, QuietStepFacts
<1>. HIDE DEF ChildInv
<1>. QED
  BY <1>1, <1>2, <1>3, <1>4, <1>5, <1>6, <1>7, <1>8, <1>9, <1>10, <1>11,
     <1>12, <1>13, <1>14, <1>15, <1>16, <1>17, <1>18, <1>19, <1>20,
     NextCases

\* The flags follow the handler; a detach changes them only while its
\* attachment is detachable, so once its child runs.
LEMMA FlagStep == TypeOK /\ OwnerInv /\ TeardownInv /\ FlagInv /\ [Next]_vars => FlagInv'
<1>. SUFFICES ASSUME TypeOK, OwnerInv, TeardownInv, FlagInv, [Next]_vars PROVE FlagInv'
  OBVIOUS
<1>. USE DEF TypeOK, HandlerTypeOK, AttTypeOK, ServerTypeOK, DetachTypeOK,
             HandlerPcs, ChildStates, Goto, OwnerInv, TeardownInv, FlagInv,
             vars, handlerVars, attVars, flagVars, serverVars, storeVars,
             sessionVars, detachVars
<1>1. ASSUME NEW h \in Handlers, ClaimSocket(h) PROVE FlagInv'
  BY <1>1 DEF ClaimSocket
<1>2. ASSUME NEW h \in Handlers, HelloFails(h) PROVE FlagInv'
  BY <1>2 DEF HelloFails
<1>3. ASSUME NEW h \in Handlers, NEW n \in Nonces, Hello(h, n) PROVE FlagInv'
  BY <1>3 DEF Hello
<1>4. ASSUME NEW h \in Handlers, ClaimActive(h) PROVE FlagInv'
  BY <1>4 DEF ClaimActive
<1>5. ASSUME NEW h \in Handlers, CheckBeforeStart(h) PROVE FlagInv'
  BY <1>5 DEF CheckBeforeStart
<1>6. ASSUME NEW h \in Handlers, StartFails(h) PROVE FlagInv'
  BY <1>6 DEF StartFails
<1>7. ASSUME NEW h \in Handlers, StartSpawns(h) PROVE FlagInv'
  BY <1>7 DEF StartSpawns
<1>8. ASSUME NEW h \in Handlers, StartAborts(h) PROVE FlagInv'
  BY <1>8 DEF StartAborts
<1>9. ASSUME NEW h \in Handlers, StartReturns(h) PROVE FlagInv'
  BY <1>9 DEF StartReturns
<1>10. ASSUME NEW h \in Handlers, CheckAfterStart(h) PROVE FlagInv'
  BY <1>10 DEF CheckAfterStart
<1>11. ASSUME NEW h \in Handlers, MarkDetachable(h) PROVE FlagInv'
  BY <1>11 DEF MarkDetachable, MayBecomeDetachable
<1>12. ASSUME NEW h \in Handlers, BridgeStops(h) PROVE FlagInv'
  BY <1>12 DEF BridgeStops
<1>13. ASSUME NEW h \in Handlers, BrowserLeaves(h) PROVE FlagInv'
  BY <1>13 DEF BrowserLeaves
<1>14. ASSUME NEW h \in Handlers, CloseAndWait(h) PROVE FlagInv'
  BY <1>14 DEF CloseAndWait
<1>15. ASSUME NEW h \in Handlers, Quarantine(h) PROVE FlagInv'
  BY <1>15 DEF Quarantine, QuarantineAttachment
<1>16. ASSUME NEW h \in Handlers, FinishActive(h) PROVE FlagInv'
  BY <1>16 DEF FinishActive
<1>17. ASSUME NEW h \in Handlers, ReleaseSocket(h) PROVE FlagInv'
  BY <1>17 DEF ReleaseSocket
<1>18. ASSUME NEW h \in Handlers, SignalDone(h) PROVE FlagInv'
  BY <1>18 DEF SignalDone
<1>19. ASSUME NEW h \in Handlers, ChildExits(h) PROVE FlagInv'
  BY <1>19 DEF ChildExits
<1>20. ASSUME QuietStep PROVE FlagInv'
  <2>1. ASSUME NEW d \in Detachers, AcceptDetach(d) PROVE FlagInv'
    <3>1. CASE UNCHANGED <<detachable, detachRequested, quarantined>>
      BY <1>20, QuietStepFacts, <3>1
    <3>2. CASE active # None /\ active = granted[d] /\ Detachable(active)
      <4>1. /\ active \in Handlers /\ detachable[active]
            /\ detachable' = [detachable EXCEPT ![active] = FALSE]
            /\ detachRequested' = [detachRequested EXCEPT ![active] = TRUE]
            /\ quarantined' = quarantined
        BY <2>1, <3>2 DEF AcceptDetach, Detachable
      <4>. QED  BY <1>20, QuietStepFacts, <4>1
    <3>. QED  BY <2>1, <3>1, <3>2 DEF AcceptDetach
  <2>2. ASSUME NEW d \in Detachers, DetachTimesOut(d) PROVE FlagInv'
    BY <1>20, QuietStepFacts, <2>2 DEF DetachTimesOut, Reply, QuarantineAttachment
  <2>3. ASSUME UNCHANGED <<detachable, detachRequested, quarantined>> PROVE FlagInv'
    BY <1>20, QuietStepFacts, <2>3
  <2>4. ASSUME NEW d \in Detachers, CancelAttachment(d) \/ DetachConfirmed(d)
               \/ DetachRequest(d)
        PROVE UNCHANGED <<detachable, detachRequested, quarantined>>
    BY <2>4 DEF CancelAttachment, DetachConfirmed, DetachRequest, TakeToken
  <2>5. ASSUME NEW q \in Sessions, SessionRequest(q)
        PROVE UNCHANGED <<detachable, detachRequested, quarantined>>
    BY <2>5 DEF SessionRequest, FindSlotFree, IssueNonce, IssueNonceFails,
                PeekActive, IssueToken, IssueTokenFails, OfferToken
  <2>6. ASSUME Expiry \/ CloseCancelsServer \/ CloseCancelsActive
        PROVE UNCHANGED <<detachable, detachRequested, quarantined>>
    BY <2>6 DEF Expiry, NonceExpires, TokenExpires, CloseCancelsServer,
                CloseCancelsActive
  <2>. HIDE DEF FlagInv
  <2>. QED  BY <1>20, <2>1, <2>2, <2>3, <2>4, <2>5, <2>6 DEF QuietStep, DetachStep
<1>. HIDE DEF FlagInv
<1>. QED
  BY <1>1, <1>2, <1>3, <1>4, <1>5, <1>6, <1>7, <1>8, <1>9, <1>10, <1>11,
     <1>12, <1>13, <1>14, <1>15, <1>16, <1>17, <1>18, <1>19, <1>20,
     NextCases

\* A detach request keeps its attachment to itself, and confirms it only when
\* its handler is done with a child whose teardown succeeded.
LEMMA DetachInvStep == TypeOK /\ TeardownInv /\ FlagInv /\ DetachInv /\ [Next]_vars => DetachInv'
<1>. SUFFICES ASSUME TypeOK, TeardownInv, FlagInv, DetachInv, [Next]_vars PROVE DetachInv'
  OBVIOUS
<1>. USE DEF TypeOK, HandlerTypeOK, AttTypeOK, ServerTypeOK, DetachTypeOK,
             HandlerPcs, ChildStates, DetachPcs, Goto, TeardownInv, DetachInv,
             vars, handlerVars, attVars, flagVars, serverVars, storeVars,
             sessionVars, detachVars
<1>1. ASSUME NEW h \in Handlers, ClaimSocket(h) PROVE DetachInv'
  BY <1>1 DEF ClaimSocket
<1>2. ASSUME NEW h \in Handlers, HelloFails(h) PROVE DetachInv'
  BY <1>2 DEF HelloFails
<1>3. ASSUME NEW h \in Handlers, NEW n \in Nonces, Hello(h, n) PROVE DetachInv'
  BY <1>3 DEF Hello
<1>4. ASSUME NEW h \in Handlers, ClaimActive(h) PROVE DetachInv'
  BY <1>4 DEF ClaimActive
<1>5. ASSUME NEW h \in Handlers, CheckBeforeStart(h) PROVE DetachInv'
  BY <1>5 DEF CheckBeforeStart
<1>6. ASSUME NEW h \in Handlers, StartFails(h) PROVE DetachInv'
  BY <1>6 DEF StartFails
<1>7. ASSUME NEW h \in Handlers, StartSpawns(h) PROVE DetachInv'
  BY <1>7 DEF StartSpawns
<1>8. ASSUME NEW h \in Handlers, StartAborts(h) PROVE DetachInv'
  BY <1>8 DEF StartAborts
<1>9. ASSUME NEW h \in Handlers, StartReturns(h) PROVE DetachInv'
  BY <1>9 DEF StartReturns
<1>10. ASSUME NEW h \in Handlers, CheckAfterStart(h) PROVE DetachInv'
  BY <1>10 DEF CheckAfterStart
<1>11. ASSUME NEW h \in Handlers, MarkDetachable(h) PROVE DetachInv'
  BY <1>11 DEF MarkDetachable, MayBecomeDetachable
<1>12. ASSUME NEW h \in Handlers, BridgeStops(h) PROVE DetachInv'
  BY <1>12 DEF BridgeStops
<1>13. ASSUME NEW h \in Handlers, BrowserLeaves(h) PROVE DetachInv'
  BY <1>13 DEF BrowserLeaves
<1>14. ASSUME NEW h \in Handlers, CloseAndWait(h) PROVE DetachInv'
  BY <1>14 DEF CloseAndWait
<1>15. ASSUME NEW h \in Handlers, Quarantine(h) PROVE DetachInv'
  BY <1>15 DEF Quarantine, QuarantineAttachment
<1>16. ASSUME NEW h \in Handlers, FinishActive(h) PROVE DetachInv'
  BY <1>16 DEF FinishActive
<1>17. ASSUME NEW h \in Handlers, ReleaseSocket(h) PROVE DetachInv'
  BY <1>17 DEF ReleaseSocket
<1>18. ASSUME NEW h \in Handlers, SignalDone(h) PROVE DetachInv'
  BY <1>18 DEF SignalDone
<1>19. ASSUME NEW h \in Handlers, ChildExits(h) PROVE DetachInv'
  BY <1>19 DEF ChildExits
<1>20. ASSUME QuietStep PROVE DetachInv'
  <2>1. ASSUME NEW d \in Detachers, NEW t \in Tokens, TakeToken(d, t)
        PROVE DetachInv'
    BY <1>20, QuietStepFacts, <2>1 DEF TakeToken, Reply
  <2>2. ASSUME NEW d \in Detachers, AcceptDetach(d) PROVE DetachInv'
    <3>1. CASE active # None /\ active = granted[d] /\ Detachable(active)
      <4>1. /\ active \in Handlers
            /\ ~detachRequested[active] /\ ~quarantined[active]
            /\ dpc[d] = "check"
            /\ detachRequested' = [detachRequested EXCEPT ![active] = TRUE]
            /\ target' = [target EXCEPT ![d] = active]
            /\ dpc' = [dpc EXCEPT ![d] = "cancel"]
            /\ UNCHANGED <<answer, quarantined>>
        BY <2>2, <3>1 DEF AcceptDetach, Detachable
      <4>. QED  BY <1>20, QuietStepFacts, <4>1
    <3>2. CASE ~(active # None /\ active = granted[d] /\ Detachable(active))
      <4>1. /\ dpc[d] = "check"
            /\ dpc' = [dpc EXCEPT ![d] = "done"]
            /\ answer' = [answer EXCEPT ![d] = 409]
            /\ UNCHANGED <<target, detachRequested, quarantined>>
        BY <2>2, <3>2 DEF AcceptDetach, Reply
      <4>. QED  BY <1>20, QuietStepFacts, <4>1
    <3>. QED  BY <3>1, <3>2
  <2>3. ASSUME NEW d \in Detachers, CancelAttachment(d) PROVE DetachInv'
    BY <1>20, QuietStepFacts, <2>3 DEF CancelAttachment
  <2>4. ASSUME NEW d \in Detachers, DetachConfirmed(d) PROVE DetachInv'
    <3>1. /\ dpc[d] = "wait" /\ target[d] \in Handlers
          /\ UNCHANGED <<target, detachRequested, quarantined>>
          /\ dpc' = [dpc EXCEPT ![d] = "done"]
      BY <2>4 DEF DetachConfirmed, Reply
    <3>2. CASE savedErr[target[d]]
      <4>1. answer' = [answer EXCEPT ![d] = 503]
        BY <2>4, <3>2 DEF DetachConfirmed, Reply
      <4>. QED  BY <1>20, QuietStepFacts, <3>1, <4>1
    <3>3. CASE ~savedErr[target[d]]
      <4>1. answer' = [answer EXCEPT ![d] = 204]
        BY <2>4, <3>3 DEF DetachConfirmed, Reply
      <4>2. pc[target[d]] = "done" /\ detachRequested[target[d]]
        BY <2>4, <3>1 DEF DetachConfirmed, FlagInv
      <4>3. ~cleanupErr[target[d]]
        BY <3>1, <3>3, <4>2 DEF FlagInv
      <4>4. child[target[d]] = "gone" /\ releaseSocket[target[d]]
        BY <3>1, <4>2, <4>3 DEF FlagInv
      <4>. QED  BY <1>20, QuietStepFacts, <3>1, <4>1, <4>2, <4>4
    <3>. QED  BY <3>2, <3>3
  <2>5. ASSUME NEW d \in Detachers, DetachTimesOut(d) PROVE DetachInv'
    BY <1>20, QuietStepFacts, <2>5 DEF DetachTimesOut, Reply, QuarantineAttachment
  <2>6. ASSUME UNCHANGED <<detachVars, detachRequested, quarantined>>
        PROVE DetachInv'
    BY <1>20, QuietStepFacts, <2>6
  <2>7. ASSUME NEW q \in Sessions, SessionRequest(q)
        PROVE UNCHANGED <<detachVars, detachRequested, quarantined>>
    BY <2>7 DEF SessionRequest, FindSlotFree, IssueNonce, IssueNonceFails,
                PeekActive, IssueToken, IssueTokenFails, OfferToken
  <2>8. ASSUME Expiry \/ CloseCancelsServer \/ CloseCancelsActive
        PROVE UNCHANGED <<detachVars, detachRequested, quarantined>>
    BY <2>8 DEF Expiry, NonceExpires, TokenExpires, CloseCancelsServer,
                CloseCancelsActive
  <2>9. ASSUME UNCHANGED vars
        PROVE UNCHANGED <<detachVars, detachRequested, quarantined>>
    BY <2>9
  <2>. HIDE DEF DetachInv
  <2>. QED  BY <1>20, <2>1, <2>2, <2>3, <2>4, <2>5, <2>6, <2>7, <2>8, <2>9
           DEF QuietStep, DetachStep, DetachRequest
<1>. HIDE DEF DetachInv
<1>. QED
  BY <1>1, <1>2, <1>3, <1>4, <1>5, <1>6, <1>7, <1>8, <1>9, <1>10, <1>11,
     <1>12, <1>13, <1>14, <1>15, <1>16, <1>17, <1>18, <1>19, <1>20,
     NextCases

\* A nonce is spent by the hello that presents it and never comes back.
LEMMA NonceStep == TypeOK /\ NonceInv /\ [Next]_vars => NonceInv'
<1>. SUFFICES ASSUME TypeOK, NonceInv, [Next]_vars PROVE NonceInv'
  OBVIOUS
<1>. USE DEF TypeOK, HandlerTypeOK, StoreTypeOK, HandlerPcs, GrantStates,
             Goto, NonceInv, vars, handlerVars, attVars, flagVars, serverVars,
             storeVars, sessionVars, detachVars
<1>1. ASSUME NEW h \in Handlers, ClaimSocket(h) PROVE NonceInv'
  BY <1>1 DEF ClaimSocket
<1>2. ASSUME NEW h \in Handlers, HelloFails(h) PROVE NonceInv'
  BY <1>2 DEF HelloFails
<1>3. ASSUME NEW h \in Handlers, NEW n \in Nonces, Hello(h, n) PROVE NonceInv'
  BY <1>3 DEF Hello
<1>4. ASSUME NEW h \in Handlers, ClaimActive(h) PROVE NonceInv'
  BY <1>4 DEF ClaimActive
<1>5. ASSUME NEW h \in Handlers, CheckBeforeStart(h) PROVE NonceInv'
  BY <1>5 DEF CheckBeforeStart
<1>6. ASSUME NEW h \in Handlers, StartFails(h) PROVE NonceInv'
  BY <1>6 DEF StartFails
<1>7. ASSUME NEW h \in Handlers, StartSpawns(h) PROVE NonceInv'
  BY <1>7 DEF StartSpawns
<1>8. ASSUME NEW h \in Handlers, StartAborts(h) PROVE NonceInv'
  BY <1>8 DEF StartAborts
<1>9. ASSUME NEW h \in Handlers, StartReturns(h) PROVE NonceInv'
  BY <1>9 DEF StartReturns
<1>10. ASSUME NEW h \in Handlers, CheckAfterStart(h) PROVE NonceInv'
  BY <1>10 DEF CheckAfterStart
<1>11. ASSUME NEW h \in Handlers, MarkDetachable(h) PROVE NonceInv'
  BY <1>11 DEF MarkDetachable, MayBecomeDetachable
<1>12. ASSUME NEW h \in Handlers, BridgeStops(h) PROVE NonceInv'
  BY <1>12 DEF BridgeStops
<1>13. ASSUME NEW h \in Handlers, BrowserLeaves(h) PROVE NonceInv'
  BY <1>13 DEF BrowserLeaves
<1>14. ASSUME NEW h \in Handlers, CloseAndWait(h) PROVE NonceInv'
  BY <1>14 DEF CloseAndWait
<1>15. ASSUME NEW h \in Handlers, Quarantine(h) PROVE NonceInv'
  BY <1>15 DEF Quarantine, QuarantineAttachment
<1>16. ASSUME NEW h \in Handlers, FinishActive(h) PROVE NonceInv'
  BY <1>16 DEF FinishActive
<1>17. ASSUME NEW h \in Handlers, ReleaseSocket(h) PROVE NonceInv'
  BY <1>17 DEF ReleaseSocket
<1>18. ASSUME NEW h \in Handlers, SignalDone(h) PROVE NonceInv'
  BY <1>18 DEF SignalDone
<1>19. ASSUME NEW h \in Handlers, ChildExits(h) PROVE NonceInv'
  BY <1>19 DEF ChildExits
<1>20. ASSUME QuietStep PROVE NonceInv'
  <2>1. ASSUME NEW q \in Sessions, NEW n \in Nonces, IssueNonce(q, n) PROVE NonceInv'
    BY <1>20, QuietStepFacts, <2>1 DEF IssueNonce
  <2>2. ASSUME NEW n \in Nonces, NonceExpires(n) PROVE NonceInv'
    BY <1>20, QuietStepFacts, <2>2 DEF NonceExpires
  <2>3. ASSUME UNCHANGED nonceState PROVE NonceInv'
    BY <1>20, QuietStepFacts, <2>3
  <2>4. ASSUME NEW q \in Sessions, SessionRequest(q),
               ~\E n \in Nonces : IssueNonce(q, n)
        PROVE UNCHANGED nonceState
    BY <2>4 DEF SessionRequest, FindSlotFree, IssueNonceFails,
                PeekActive, IssueToken, IssueTokenFails, OfferToken
  <2>5. ASSUME NEW d \in Detachers, DetachStep(d) \/ DetachRequest(d)
        PROVE UNCHANGED nonceState
    BY <2>5 DEF DetachStep, DetachRequest, TakeToken, AcceptDetach,
                CancelAttachment, DetachConfirmed, DetachTimesOut
  <2>6. ASSUME NEW t \in Tokens, TokenExpires(t) PROVE UNCHANGED nonceState
    BY <2>6 DEF TokenExpires
  <2>7. ASSUME CloseCancelsServer \/ CloseCancelsActive \/ UNCHANGED vars
        PROVE UNCHANGED nonceState
    BY <2>7 DEF CloseCancelsServer, CloseCancelsActive
  <2>. HIDE DEF NonceInv
  <2>. QED  BY <1>20, <2>1, <2>2, <2>3, <2>4, <2>5, <2>6, <2>7
           DEF QuietStep, Expiry
<1>. HIDE DEF NonceInv
<1>. QED
  BY <1>1, <1>2, <1>3, <1>4, <1>5, <1>6, <1>7, <1>8, <1>9, <1>10, <1>11,
     <1>12, <1>13, <1>14, <1>15, <1>16, <1>17, <1>18, <1>19, <1>20,
     NextCases

\* The parts that hold whatever the launcher's own cleanup does.
IInv == TypeOK /\ SlotInv /\ OwnerInv /\ TeardownInv /\ FlagInv /\ DetachInv
        /\ NonceInv

\* While a quarantine alone has cancelled the server, nobody is past the look
\* at the context that precedes the launcher: the owner that was quarantined
\* is, and it holds the slot every other handler needs to get there.
StoppedInv ==
    serverCancelled /\ closePc = "open" => \A h \in Handlers : pc[h] # "start"

\* StoppedInv is kept: see there.
LEMMA StoppedStep == IInv /\ StoppedInv /\ [Next]_vars => StoppedInv'
<1>. SUFFICES ASSUME IInv, StoppedInv, [Next]_vars PROVE StoppedInv'
  OBVIOUS
<1>0. TypeOK
  BY DEF IInv
<1>. USE <1>0
<1>. USE DEF StoppedInv, TypeOK, HandlerTypeOK, ServerTypeOK, HandlerPcs,
             Goto, Cancelled, vars, handlerVars, attVars, flagVars,
             serverVars, storeVars, sessionVars, detachVars
<1>1. ASSUME NEW h \in Handlers, ClaimSocket(h) PROVE StoppedInv'
  BY <1>1 DEF ClaimSocket
<1>2. ASSUME NEW h \in Handlers, HelloFails(h) PROVE StoppedInv'
  BY <1>2 DEF HelloFails
<1>3. ASSUME NEW h \in Handlers, NEW n \in Nonces, Hello(h, n) PROVE StoppedInv'
  BY <1>3 DEF Hello
<1>4. ASSUME NEW h \in Handlers, ClaimActive(h) PROVE StoppedInv'
  BY <1>4 DEF ClaimActive
<1>5. ASSUME NEW h \in Handlers, CheckBeforeStart(h) PROVE StoppedInv'
  BY <1>5 DEF CheckBeforeStart
<1>6. ASSUME NEW h \in Handlers, StartFails(h) PROVE StoppedInv'
  BY <1>6 DEF StartFails
<1>7. ASSUME NEW h \in Handlers, StartSpawns(h) PROVE StoppedInv'
  BY <1>7 DEF StartSpawns
<1>8. ASSUME NEW h \in Handlers, StartAborts(h) PROVE StoppedInv'
  BY <1>8 DEF StartAborts
<1>9. ASSUME NEW h \in Handlers, StartReturns(h) PROVE StoppedInv'
  BY <1>9 DEF StartReturns
<1>10. ASSUME NEW h \in Handlers, CheckAfterStart(h) PROVE StoppedInv'
  BY <1>10 DEF CheckAfterStart
<1>11. ASSUME NEW h \in Handlers, MarkDetachable(h) PROVE StoppedInv'
  BY <1>11 DEF MarkDetachable, MayBecomeDetachable
<1>12. ASSUME NEW h \in Handlers, BridgeStops(h) PROVE StoppedInv'
  BY <1>12 DEF BridgeStops
<1>13. ASSUME NEW h \in Handlers, BrowserLeaves(h) PROVE StoppedInv'
  BY <1>13 DEF BrowserLeaves
<1>14. ASSUME NEW h \in Handlers, CloseAndWait(h) PROVE StoppedInv'
  BY <1>14 DEF CloseAndWait
<1>15. ASSUME NEW h \in Handlers, Quarantine(h) PROVE StoppedInv'
  <2>1. CASE cleanupErr[h]
    <3>1. \A k \in Handlers : pc[k] # "start"
      BY <1>15, <2>1 DEF Quarantine, IInv, SlotInv, HoldsSlot
    <3>. QED  BY <1>15, <3>1 DEF Quarantine
  <2>2. CASE ~cleanupErr[h]
    BY <1>15, <2>2 DEF Quarantine
  <2>. QED  BY <2>1, <2>2
<1>16. ASSUME NEW h \in Handlers, FinishActive(h) PROVE StoppedInv'
  BY <1>16 DEF FinishActive
<1>17. ASSUME NEW h \in Handlers, ReleaseSocket(h) PROVE StoppedInv'
  BY <1>17 DEF ReleaseSocket
<1>18. ASSUME NEW h \in Handlers, SignalDone(h) PROVE StoppedInv'
  BY <1>18 DEF SignalDone
<1>19. ASSUME NEW h \in Handlers, ChildExits(h) PROVE StoppedInv'
  BY <1>19 DEF ChildExits
<1>20. ASSUME QuietStep PROVE StoppedInv'
  <2>1. ASSUME NEW d \in Detachers, DetachTimesOut(d) PROVE StoppedInv'
    <3>1. target[d] \in Handlers /\ detachRequested[target[d]]
      BY <2>1 DEF DetachTimesOut, IInv, DetachInv, DetachTypeOK
    <3>2. CASE active = target[d]
      <4>1. \A k \in Handlers : pc[k] # "start"
        BY <3>1, <3>2 DEF IInv, OwnerInv, FlagInv, SlotInv, HoldsSlot
      <4>. QED  BY <1>20, QuietStepFacts, <4>1
    <3>3. CASE active # target[d]
      <4>1. serverCancelled' = serverCancelled /\ closePc' = closePc
        BY <2>1, <3>3 DEF DetachTimesOut, QuarantineAttachment, IInv
      <4>. QED  BY <1>20, QuietStepFacts, <4>1
    <3>. QED  BY <3>2, <3>3
  <2>2. ASSUME UNCHANGED <<serverCancelled, closePc>> PROVE StoppedInv'
    BY <1>20, QuietStepFacts, <2>2
  <2>3. ASSUME CloseCancelsServer \/ CloseCancelsActive PROVE StoppedInv'
    BY <2>3 DEF CloseCancelsServer, CloseCancelsActive
  <2>4. ASSUME NEW q \in Sessions, SessionRequest(q)
        PROVE UNCHANGED <<serverCancelled, closePc>>
    BY <2>4 DEF SessionRequest, FindSlotFree, IssueNonce, IssueNonceFails,
                PeekActive, IssueToken, IssueTokenFails, OfferToken
  <2>5. ASSUME NEW d \in Detachers, AcceptDetach(d) \/ CancelAttachment(d)
               \/ DetachConfirmed(d) \/ DetachRequest(d)
        PROVE UNCHANGED <<serverCancelled, closePc>>
    BY <2>5 DEF AcceptDetach, CancelAttachment, DetachConfirmed, DetachRequest,
                TakeToken
  <2>6. ASSUME Expiry PROVE UNCHANGED <<serverCancelled, closePc>>
    BY <2>6 DEF Expiry, NonceExpires, TokenExpires
  <2>. HIDE DEF StoppedInv
  <2>. QED  BY <1>20, <2>1, <2>2, <2>3, <2>4, <2>5, <2>6 DEF QuietStep, DetachStep
<1>. HIDE DEF StoppedInv
<1>. QED
  BY <1>1, <1>2, <1>3, <1>4, <1>5, <1>6, <1>7, <1>8, <1>9, <1>10, <1>11,
     <1>12, <1>13, <1>14, <1>15, <1>16, <1>17, <1>18, <1>19, <1>20,
     NextCases

-----------------------------------------------------------------------------
(* The theorems.                                                           *)

\* The invariant holds initially.
LEMMA InitIInv == Init => IInv
<1>. SUFFICES ASSUME Init PROVE IInv
  OBVIOUS
<1>1. TypeOK
  BY InitTypeOK
<1>2. SlotInv /\ OwnerInv /\ TeardownInv
  BY DEF Init, SlotInv, HoldsSlot, OwnerInv, TeardownInv
<1>3. FlagInv /\ DetachInv /\ NonceInv
  BY DEF Init, FlagInv, DetachInv, NonceInv
<1>. QED
  BY <1>1, <1>2, <1>3 DEF IInv

\* The invariant holds throughout.
THEOREM Invariance == Spec => []IInv
<1>1. IInv /\ [Next]_vars => IInv'
  BY TypeOKStep, SlotStep, OwnerStep, TeardownStep, FlagStep, DetachInvStep,
     NonceStep DEF IInv
<1>. QED
  BY InitIInv, <1>1, PTL DEF Spec

\* Two children that both run at once are impossible, unless one of them was
\* left behind by a Start whose own cleanup failed.
THEOREM NeverTwoChildren == Spec => []OneLiveChild
<1>1. Init => ChildInv
  BY DEF Init, ChildInv
<1>2. IInv /\ ChildInv /\ [Next]_vars => ChildInv'
  BY ChildStep DEF IInv
<1>3. IInv /\ ChildInv => OneLiveChild
  <2>. SUFFICES ASSUME IInv, ChildInv, NEW h \in Handlers, NEW k \in Handlers,
                       child[h] = "live", child[k] = "live"
                PROVE  h = k
    BY DEF OneLiveChild, Runs
  <2>1. ASSUME NEW g \in Handlers, child[g] = "live" PROVE HoldsSlot(g)
    BY <2>1 DEF IInv, TypeOK, HandlerTypeOK, HandlerPcs, TeardownInv, ChildInv,
                HoldsSlot
  <2>. QED  BY <2>1 DEF IInv, SlotInv
<1>. QED
  BY <1>1, <1>2, <1>3, Invariance, PTL DEF Spec

\* A teardown that could not be confirmed keeps the slot for good.
THEOREM QuarantineIsPermanent == Spec => []FailedTeardownKeepsSlot
<1>1. IInv => FailedTeardownKeepsSlot
  BY DEF IInv, TeardownInv, SlotInv, HoldsSlot, FailedTeardownKeepsSlot
<1>. QED
  BY <1>1, Invariance, PTL

\* A detach answered 204 left neither a child nor a taken slot behind.
THEOREM ConfirmedDetach == Spec => []ConfirmedDetachIsComplete
<1>1. IInv => ConfirmedDetachIsComplete
  BY DEF IInv, DetachInv, ConfirmedDetachIsComplete, GaveSlotBack
<1>. QED
  BY <1>1, Invariance, PTL

\* No attachment is detached twice, however many tokens were issued for it.
THEOREM OneDetach == Spec => []OneDetachPerAttachment
<1>1. IInv => OneDetachPerAttachment
  BY DEF IInv, DetachInv, OneDetachPerAttachment
<1>. QED
  BY <1>1, Invariance, PTL

\* No nonce admits two attachments.
THEOREM NonceOnce == Spec => []NonceAdmitsOnce
<1>1. IInv => NonceAdmitsOnce
  BY DEF IInv, NonceInv, NonceAdmitsOnce
<1>. QED
  BY <1>1, Invariance, PTL

\* Once a quarantine took the server down, no handler starts another child.
THEOREM NothingStartsAfter == Spec => NothingStartsAfterQuarantine
<1>1. Init => StoppedInv
  BY DEF Init, StoppedInv
<1>2. IInv /\ StoppedInv /\ [Next]_vars => StoppedInv'
  BY StoppedStep
<1>3. IInv /\ StoppedInv /\ [Next]_vars =>
        [\A h \in Handlers : child[h] = "none" /\ child'[h] = "live"
             => ~(serverCancelled /\ closePc = "open")]_vars
  <2>. SUFFICES ASSUME IInv, StoppedInv, [Next]_vars, NEW h \in Handlers,
                       child[h] = "none", child'[h] = "live"
                PROVE  pc[h] = "start"
    BY DEF StoppedInv
  <2>. USE DEF IInv, TypeOK, HandlerTypeOK, ChildStates, vars, handlerVars
  <2>1. CASE QuietStep
    BY <2>1, QuietStepFacts
  <2>2. ASSUME NEW k \in Handlers, UNCHANGED child PROVE FALSE
    BY <2>2
  <2>3. ASSUME NEW k \in Handlers, StartSpawns(k) PROVE pc[h] = "start"
    BY <2>3 DEF StartSpawns
  <2>4. ASSUME NEW k \in Handlers,
               StartAborts(k) \/ CloseAndWait(k) \/ ChildExits(k)
        PROVE  child'[h] # "live"
    BY <2>4 DEF StartAborts, CloseAndWait, ChildExits
  <2>5. ASSUME NEW k \in Handlers,
               \/ ClaimSocket(k) \/ HelloFails(k) \/ \E n \in Nonces : Hello(k, n)
               \/ ClaimActive(k) \/ CheckBeforeStart(k) \/ StartFails(k)
               \/ StartReturns(k) \/ CheckAfterStart(k) \/ MarkDetachable(k)
               \/ BridgeStops(k) \/ BrowserLeaves(k) \/ Quarantine(k)
               \/ FinishActive(k) \/ ReleaseSocket(k) \/ SignalDone(k)
        PROVE  UNCHANGED child
    BY <2>5 DEF ClaimSocket, HelloFails, Hello, ClaimActive, CheckBeforeStart,
                StartFails, StartReturns, CheckAfterStart, MarkDetachable,
                BridgeStops, BrowserLeaves, Quarantine, FinishActive,
                ReleaseSocket, SignalDone
  <2>. QED  BY <2>1, <2>2, <2>3, <2>4, <2>5, NextCases
<1>. QED
  BY <1>1, <1>2, <1>3, Invariance, PTL DEF Spec, NothingStartsAfterQuarantine
=============================================================================
