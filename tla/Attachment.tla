----------------------------- MODULE Attachment -----------------------------
(***************************************************************************)
(* The server side of attaching, taking over and shutting down: the        *)
(* handlers of server.go that share the one socket slot, the active        *)
(* attachment and the server's context.                                    *)
(*                                                                         *)
(* One element of Handlers is one request to handleAttach and also names   *)
(* the activeAttachment that request creates, one element of Detachers is  *)
(* one request to handleDetach, and one element of Sessions is a page that *)
(* calls handleSession again and again.  A handler moves by one step for   *)
(* each access it makes to shared state (a mutex section, a channel        *)
(* operation, a context), so every interleaving of the goroutines at those *)
(* points is a behaviour.                                                  *)
(*                                                                         *)
(* runBridge is one step here from "bridge" to "closing" (module Bridge    *)
(* has the goroutines behind it), a nonce or a token may expire at any     *)
(* moment (NonceExpires, TokenExpires), and a timer may fire at any moment *)
(* it is armed.                                                            *)
(***************************************************************************)
EXTENDS Naturals, FiniteSets

CONSTANTS
    Handlers,       \* requests to handleAttach, and the attachments they create
    Detachers,      \* requests to handleDetach
    Sessions,       \* pages calling handleSession
    Nonces,         \* values the nonce store's random source can produce
    Tokens,         \* values the detach store's random source can produce
    None            \* the nil attachment, nonce or token

ASSUME NoneAssumption ==
    None \notin Handlers \cup Nonces \cup Tokens

VARIABLES
    \* handleAttach, per request
    pc,             \* where the handler is
    nonceOf,        \* the nonce its hello consumed
    child,          \* the PTY child it started, see ChildStates
    cleanupErr,     \* its local cleanupErr is not nil
    releaseSocket,  \* its local releaseSocket
    \* activeAttachment, per attachment
    ownCancelled,   \* active.cancel was called
    detachable, detachRequested, finished, quarantined,
    savedErr,       \* active.cleanupErr is not nil
    done,           \* active.done is closed
    \* Server
    slot,           \* socketSlots holds its one element
    active,         \* s.active
    serverCancelled,\* s.ctx is cancelled
    closePc,        \* where the call to Close is
    \* nonceStore and detachTokenStore
    nonceState,     \* "fresh", "live" or "spent"
    tokenState,     \* "fresh", "live" or "spent"
    owner,          \* the attachment a token was issued for
    offered,        \* the tokens a page was told
    \* handleSession, per page
    spc, sTarget, sToken,
    \* handleDetach, per request
    dpc,
    granted,        \* the attachment of the grant its token stands for
    target,         \* the attachment it cancels
    answer          \* the HTTP status it wrote, 0 before that

handlerVars == <<pc, nonceOf, child, cleanupErr, releaseSocket>>
flagVars    == <<detachable, detachRequested, finished, quarantined, savedErr>>
attVars     == <<ownCancelled, flagVars, done>>
serverVars  == <<slot, active, serverCancelled, closePc>>
storeVars   == <<nonceState, tokenState, owner, offered>>
sessionVars == <<spc, sTarget, sToken>>
detachVars  == <<dpc, granted, target, answer>>
vars == <<handlerVars, attVars, serverVars, storeVars, sessionVars, detachVars>>

HandlerPcs == {"idle", "refused", "hello", "claim", "check", "start",
               "spawned", "started", "mark", "bridge", "closing",
               "quarantine", "finish", "release", "signal", "done"}
\* "live" runs and is the handler's to tear down; "abandoned" runs too, but
\* Start returned without a session and without the error of its own cleanup.
ChildStates == {"none", "live", "abandoned", "gone"}
GrantStates == {"fresh", "live", "spent"}
SessionPcs  == {"idle", "nonce", "issue", "recheck"}
DetachPcs   == {"idle", "check", "cancel", "wait", "done"}
Answers     == {0, 204, 403, 409, 503}

HandlerTypeOK ==
    /\ pc \in [Handlers -> HandlerPcs]
    /\ nonceOf \in [Handlers -> Nonces \cup {None}]
    /\ child \in [Handlers -> ChildStates]
    /\ cleanupErr \in [Handlers -> BOOLEAN]
    /\ releaseSocket \in [Handlers -> BOOLEAN]

AttTypeOK ==
    /\ ownCancelled \in [Handlers -> BOOLEAN]
    /\ detachable \in [Handlers -> BOOLEAN]
    /\ detachRequested \in [Handlers -> BOOLEAN]
    /\ finished \in [Handlers -> BOOLEAN]
    /\ quarantined \in [Handlers -> BOOLEAN]
    /\ savedErr \in [Handlers -> BOOLEAN]
    /\ done \in [Handlers -> BOOLEAN]

ServerTypeOK ==
    /\ slot \in BOOLEAN
    /\ active \in Handlers \cup {None}
    /\ serverCancelled \in BOOLEAN
    /\ closePc \in {"open", "cancelled", "closed"}

StoreTypeOK ==
    /\ nonceState \in [Nonces -> GrantStates]
    /\ tokenState \in [Tokens -> GrantStates]
    /\ owner \in [Tokens -> Handlers \cup {None}]
    /\ offered \subseteq Tokens

SessionTypeOK ==
    /\ spc \in [Sessions -> SessionPcs]
    /\ sTarget \in [Sessions -> Handlers \cup {None}]
    /\ sToken \in [Sessions -> Tokens \cup {None}]
    /\ \A q \in Sessions : spc[q] = "recheck" => sToken[q] # None

DetachTypeOK ==
    /\ dpc \in [Detachers -> DetachPcs]
    /\ granted \in [Detachers -> Handlers \cup {None}]
    /\ target \in [Detachers -> Handlers \cup {None}]
    /\ answer \in [Detachers -> Answers]

TypeOK == /\ HandlerTypeOK /\ AttTypeOK /\ ServerTypeOK
          /\ StoreTypeOK /\ SessionTypeOK /\ DetachTypeOK

Init ==
    /\ pc = [h \in Handlers |-> "idle"]
    /\ nonceOf = [h \in Handlers |-> None]
    /\ child = [h \in Handlers |-> "none"]
    /\ cleanupErr = [h \in Handlers |-> FALSE]
    /\ releaseSocket = [h \in Handlers |-> TRUE]
    /\ ownCancelled = [h \in Handlers |-> FALSE]
    /\ detachable = [h \in Handlers |-> FALSE]
    /\ detachRequested = [h \in Handlers |-> FALSE]
    /\ finished = [h \in Handlers |-> FALSE]
    /\ quarantined = [h \in Handlers |-> FALSE]
    /\ savedErr = [h \in Handlers |-> FALSE]
    /\ done = [h \in Handlers |-> FALSE]
    /\ slot = FALSE
    /\ active = None
    /\ serverCancelled = FALSE
    /\ closePc = "open"
    /\ nonceState = [n \in Nonces |-> "fresh"]
    /\ tokenState = [t \in Tokens |-> "fresh"]
    /\ owner = [t \in Tokens |-> None]
    /\ offered = {}
    /\ spc = [q \in Sessions |-> "idle"]
    /\ sTarget = [q \in Sessions |-> None]
    /\ sToken = [q \in Sessions |-> None]
    /\ dpc = [d \in Detachers |-> "idle"]
    /\ granted = [d \in Detachers |-> None]
    /\ target = [d \in Detachers |-> None]
    /\ answer = [d \in Detachers |-> 0]

-----------------------------------------------------------------------------
(* Helpers of the handlers.  A definition whose comment starts with        *)
(* "Fault:" is a wrong version of the next one, which no specification     *)
(* uses; it shows which property such a bug would break.                   *)

Goto(h, label) == pc' = [pc EXCEPT ![h] = label]

\* Fault: attachCtx is derived from context.Background().
CancelledByOwnCancelOnly(h) == ownCancelled[h]

\* attachCtx of h is derived from s.ctx, so cancelling either cancels it.
Cancelled(h) == ownCancelled[h] \/ serverCancelled

\* The test of markAttachmentDetachable.
MayBecomeDetachable(h) ==
    active = h /\ ~finished[h] /\ ~quarantined[h] /\ ~detachRequested[h]

\* The test issueDetachToken makes before and after it issues a token.
Detachable(h) ==
    /\ h # None
    /\ active = h
    /\ detachable[h] /\ ~finished[h] /\ ~quarantined[h] /\ ~detachRequested[h]

\* Fault: the server is cancelled whoever owns it by now.
QuarantineWhoeverOwns(h) ==
    /\ quarantined' = [quarantined EXCEPT ![h] = TRUE]
    /\ serverCancelled' = TRUE

\* quarantineAttachment: the server is cancelled only while h still owns it.
QuarantineAttachment(h) ==
    /\ quarantined' = [quarantined EXCEPT ![h] = TRUE]
    /\ serverCancelled' = (serverCancelled \/ active = h)

-----------------------------------------------------------------------------
(* handleAttach                                                            *)

ClaimSocket(h) ==
    /\ pc[h] = "idle"
    /\ Goto(h, IF slot THEN "refused" ELSE "hello")
    /\ slot' = TRUE
    /\ UNCHANGED <<nonceOf, child, cleanupErr, releaseSocket, attVars, active,
                   serverCancelled, closePc, storeVars, sessionVars, detachVars>>

\* Fault: an early return that skips the deferred release.
HelloFailsKeepingSlot(h) ==
    /\ pc[h] = "hello"
    /\ Goto(h, "signal")
    /\ UNCHANGED <<nonceOf, child, cleanupErr, releaseSocket, attVars,
                   serverVars, storeVars, sessionVars, detachVars>>

\* No hello within HelloTimeout, or one that is not a valid hello message.
HelloFails(h) ==
    /\ pc[h] = "hello"
    /\ Goto(h, "release")
    /\ UNCHANGED <<nonceOf, child, cleanupErr, releaseSocket, attVars,
                   serverVars, storeVars, sessionVars, detachVars>>

\* Fault: consume does not delete the nonce.
HelloKeepsNonce(h, n) ==
    /\ pc[h] = "hello"
    /\ nonceState[n] = "live"
    /\ Goto(h, "claim")
    /\ nonceOf' = [nonceOf EXCEPT ![h] = n]
    /\ UNCHANGED <<child, cleanupErr, releaseSocket, attVars, serverVars,
                   storeVars, sessionVars, detachVars>>

\* A hello with a nonce some page was given: nonceStore.consume.
Hello(h, n) ==
    /\ pc[h] = "hello"
    /\ nonceState[n] # "fresh"
    /\ IF nonceState[n] = "live"
       THEN /\ Goto(h, "claim")
            /\ nonceOf' = [nonceOf EXCEPT ![h] = n]
            /\ nonceState' = [nonceState EXCEPT ![n] = "spent"]
       ELSE /\ Goto(h, "release")
            /\ UNCHANGED <<nonceOf, nonceState>>
    /\ UNCHANGED <<child, cleanupErr, releaseSocket, attVars, serverVars,
                   tokenState, owner, offered, sessionVars, detachVars>>

ClaimActive(h) ==
    /\ pc[h] = "claim"
    /\ IF active = None
       THEN active' = h /\ Goto(h, "check") /\ UNCHANGED ownCancelled
       ELSE /\ ownCancelled' = [ownCancelled EXCEPT ![h] = TRUE]
            /\ Goto(h, "finish") /\ UNCHANGED active
    /\ UNCHANGED <<nonceOf, child, cleanupErr, releaseSocket, flagVars, done,
                   slot, serverCancelled, closePc, storeVars, sessionVars,
                   detachVars>>

\* Fault: the context is not looked at before the launcher is called.
StartUnchecked(h) ==
    /\ pc[h] = "check"
    /\ Goto(h, "start")
    /\ UNCHANGED <<nonceOf, child, cleanupErr, releaseSocket, attVars,
                   serverVars, storeVars, sessionVars, detachVars>>

\* attachCtx.Err() before the launcher is called.
CheckBeforeStart(h) ==
    /\ pc[h] = "check"
    /\ Goto(h, IF Cancelled(h) THEN "finish" ELSE "start")
    /\ UNCHANGED <<nonceOf, child, cleanupErr, releaseSocket, attVars,
                   serverVars, storeVars, sessionVars, detachVars>>

\* Start fails before the child exists, or is cancelled on entry.
StartFails(h) ==
    /\ pc[h] = "start"
    /\ Goto(h, "finish")
    /\ UNCHANGED <<nonceOf, child, cleanupErr, releaseSocket, attVars,
                   serverVars, storeVars, sessionVars, detachVars>>

\* Start gets past pty.StartWithSize: the child runs.  The context may have
\* been cancelled since the last look at it.
StartSpawns(h) ==
    /\ pc[h] = "start"
    /\ Goto(h, "spawned")
    /\ child' = [child EXCEPT ![h] = "live"]
    /\ UNCHANGED <<nonceOf, cleanupErr, releaseSocket, attVars, serverVars,
                   storeVars, sessionVars, detachVars>>

\* Start fails after the child exists: it closes and waits for the child,
\* drops both errors and returns no session.  When one of them failed the
\* child may still run, and no handler knows of it any more.
StartAborts(h) ==
    /\ pc[h] = "spawned"
    /\ Goto(h, "finish")
    /\ \E left \in (IF child[h] = "live" THEN {"abandoned"} ELSE {}) \cup {"gone"} :
           child' = [child EXCEPT ![h] = left]
    /\ UNCHANGED <<nonceOf, cleanupErr, releaseSocket, attVars, serverVars,
                   storeVars, sessionVars, detachVars>>

\* Start returns the session, or a launcher returns one next to an error.
StartReturns(h) ==
    /\ pc[h] = "spawned"
    /\ \E err \in BOOLEAN : Goto(h, IF err THEN "closing" ELSE "started")
    /\ UNCHANGED <<nonceOf, child, cleanupErr, releaseSocket, attVars,
                   serverVars, storeVars, sessionVars, detachVars>>

\* attachCtx.Err() once the launcher has returned.
CheckAfterStart(h) ==
    /\ pc[h] = "started"
    /\ Goto(h, IF Cancelled(h) THEN "closing" ELSE "mark")
    /\ UNCHANGED <<nonceOf, child, cleanupErr, releaseSocket, attVars,
                   serverVars, storeVars, sessionVars, detachVars>>

MarkDetachable(h) ==
    /\ pc[h] = "mark"
    /\ IF MayBecomeDetachable(h)
       THEN /\ detachable' = [detachable EXCEPT ![h] = TRUE]
            /\ Goto(h, "bridge")
       ELSE Goto(h, "closing") /\ UNCHANGED detachable
    /\ UNCHANGED <<nonceOf, child, cleanupErr, releaseSocket, ownCancelled,
                   detachRequested, finished, quarantined, savedErr, done,
                   serverVars, storeVars, sessionVars, detachVars>>

\* Fault: runBridge has no case for ctx.Done().
BridgeStopsOnExitOnly(h) ==
    /\ pc[h] = "bridge"
    /\ child[h] = "gone"
    /\ Goto(h, "closing")
    /\ UNCHANGED <<nonceOf, child, cleanupErr, releaseSocket, attVars,
                   serverVars, storeVars, sessionVars, detachVars>>

\* runBridge leaves its select: the context is cancelled or the child exited.
BridgeStops(h) ==
    /\ pc[h] = "bridge"
    /\ Cancelled(h) \/ child[h] = "gone"
    /\ Goto(h, "closing")
    /\ UNCHANGED <<nonceOf, child, cleanupErr, releaseSocket, attVars,
                   serverVars, storeVars, sessionVars, detachVars>>

\* The page disconnects, breaks the protocol or does not drain its output.
BrowserLeaves(h) ==
    /\ pc[h] = "bridge"
    /\ ~Cancelled(h) /\ child[h] # "gone"
    /\ Goto(h, "closing")
    /\ UNCHANGED <<nonceOf, child, cleanupErr, releaseSocket, attVars,
                   serverVars, storeVars, sessionVars, detachVars>>

\* session.Close and session.Wait, in the handler or inside runBridge.  An
\* error leaves open whether the child is gone.
CloseAndWait(h) ==
    /\ pc[h] = "closing"
    /\ Goto(h, "quarantine")
    /\ \E err \in BOOLEAN, left \in {child[h], "gone"} :
           /\ ~err => left = "gone"
           /\ cleanupErr' = [cleanupErr EXCEPT ![h] = err]
           /\ child' = [child EXCEPT ![h] = left]
    /\ UNCHANGED <<nonceOf, releaseSocket, attVars, serverVars, storeVars,
                   sessionVars, detachVars>>

\* Fault: a failed teardown is logged and otherwise ignored.
QuarantineIgnored(h) ==
    /\ pc[h] = "quarantine"
    /\ Goto(h, "finish")
    /\ UNCHANGED <<nonceOf, child, cleanupErr, releaseSocket, attVars,
                   serverVars, storeVars, sessionVars, detachVars>>

\* Fault: the server is quarantined but the slot is released.
QuarantineReleasesSlot(h) ==
    /\ pc[h] = "quarantine"
    /\ Goto(h, "finish")
    /\ IF cleanupErr[h]
       THEN QuarantineAttachment(h)
       ELSE UNCHANGED <<quarantined, serverCancelled>>
    /\ UNCHANGED <<nonceOf, child, cleanupErr, releaseSocket, ownCancelled,
                   detachable, detachRequested, finished, savedErr, done, slot,
                   active, closePc, storeVars, sessionVars, detachVars>>

\* The quarantine closure of handleAttach.
Quarantine(h) ==
    /\ pc[h] = "quarantine"
    /\ Goto(h, "finish")
    /\ releaseSocket' = [releaseSocket EXCEPT
                            ![h] = @ /\ ~cleanupErr[h] /\ ~quarantined[h]]
    /\ IF cleanupErr[h]
       THEN QuarantineAttachment(h)
       ELSE UNCHANGED <<quarantined, serverCancelled>>
    /\ UNCHANGED <<nonceOf, child, cleanupErr, ownCancelled, detachable,
                   detachRequested, finished, savedErr, done, slot, active,
                   closePc, storeVars, sessionVars, detachVars>>

\* Fault: active.done is closed before the slot is released.
FinishActiveSignalsFirst(h) ==
    /\ pc[h] = "finish"
    /\ Goto(h, "release")
    /\ ownCancelled' = [ownCancelled EXCEPT ![h] = TRUE]
    /\ detachable' = [detachable EXCEPT ![h] = FALSE]
    /\ finished' = [finished EXCEPT ![h] = TRUE]
    /\ savedErr' = [savedErr EXCEPT ![h] = cleanupErr[h]]
    /\ done' = [done EXCEPT ![h] = TRUE]
    /\ active' = IF active = h THEN None ELSE active
    /\ UNCHANGED <<nonceOf, child, cleanupErr, releaseSocket, detachRequested,
                   quarantined, slot, serverCancelled, closePc,
                   storeVars, sessionVars, detachVars>>

\* The deferred cancel, then finishActive of the deferred function.
FinishActive(h) ==
    /\ pc[h] = "finish"
    /\ Goto(h, "release")
    /\ ownCancelled' = [ownCancelled EXCEPT ![h] = TRUE]
    /\ detachable' = [detachable EXCEPT ![h] = FALSE]
    /\ finished' = [finished EXCEPT ![h] = TRUE]
    /\ savedErr' = [savedErr EXCEPT ![h] = cleanupErr[h]]
    /\ active' = IF active = h THEN None ELSE active
    /\ UNCHANGED <<nonceOf, child, cleanupErr, releaseSocket, detachRequested,
                   quarantined, done, slot, serverCancelled, closePc,
                   storeVars, sessionVars, detachVars>>

ReleaseSocket(h) ==
    /\ pc[h] = "release"
    /\ Goto(h, "signal")
    /\ slot' = (slot /\ ~releaseSocket[h])
    /\ UNCHANGED <<nonceOf, child, cleanupErr, releaseSocket, attVars, active,
                   serverCancelled, closePc, storeVars, sessionVars, detachVars>>

\* close(active.done), when this request got as far as an attachment.
SignalDone(h) ==
    /\ pc[h] = "signal"
    /\ Goto(h, "done")
    /\ done' = [done EXCEPT ![h] = nonceOf[h] # None]
    /\ UNCHANGED <<nonceOf, child, cleanupErr, releaseSocket, ownCancelled,
                   flagVars, serverVars, storeVars, sessionVars, detachVars>>

\* The child exits by itself.
ChildExits(h) ==
    /\ child[h] \in {"live", "abandoned"}
    /\ child' = [child EXCEPT ![h] = "gone"]
    /\ UNCHANGED <<pc, nonceOf, cleanupErr, releaseSocket, attVars, serverVars,
                   storeVars, sessionVars, detachVars>>

-----------------------------------------------------------------------------
(* handleSession                                                           *)

\* socketBusy is false.
FindSlotFree(q) ==
    /\ spc[q] = "idle"
    /\ ~slot
    /\ spc' = [spc EXCEPT ![q] = "nonce"]
    /\ UNCHANGED <<handlerVars, attVars, serverVars, storeVars, sTarget, sToken,
                   detachVars>>

\* nonceStore.issue; the slot may have been taken since.
IssueNonce(q, n) ==
    /\ spc[q] = "nonce"
    /\ nonceState[n] = "fresh"
    /\ nonceState' = [nonceState EXCEPT ![n] = "live"]
    /\ spc' = [spc EXCEPT ![q] = "idle"]
    /\ UNCHANGED <<handlerVars, attVars, serverVars, tokenState, owner,
                   offered, sTarget, sToken, detachVars>>

\* The store is full (or the model has no nonce left): 429.
IssueNonceFails(q) ==
    /\ spc[q] = "nonce"
    /\ spc' = [spc EXCEPT ![q] = "idle"]
    /\ UNCHANGED <<handlerVars, attVars, serverVars, storeVars, sTarget, sToken,
                   detachVars>>

\* The slot is taken: issueDetachToken reads the active attachment.
PeekActive(q) ==
    /\ spc[q] = "idle"
    /\ slot
    /\ Detachable(active)
    /\ spc' = [spc EXCEPT ![q] = "issue"]
    /\ sTarget' = [sTarget EXCEPT ![q] = active]
    /\ UNCHANGED <<handlerVars, attVars, serverVars, storeVars, sToken,
                   detachVars>>

\* detachTokenStore.issue: the attachment's live token, or a new one.
IssueToken(q, t) ==
    /\ spc[q] = "issue"
    /\ LET held == {u \in Tokens : tokenState[u] = "live"
                                   /\ owner[u] = sTarget[q]}
       IN  IF held # {}
           THEN t \in held /\ UNCHANGED <<tokenState, owner>>
           ELSE /\ tokenState[t] = "fresh"
                /\ tokenState' = [tokenState EXCEPT ![t] = "live"]
                /\ owner' = [owner EXCEPT ![t] = sTarget[q]]
    /\ spc' = [spc EXCEPT ![q] = "recheck"]
    /\ sToken' = [sToken EXCEPT ![q] = t]
    /\ UNCHANGED <<handlerVars, attVars, serverVars, nonceState, offered,
                   sTarget, detachVars>>

\* Fault: issueDetachToken overlooks that issue returned no token.
IssueTokenErrorIgnored(q) ==
    /\ spc[q] = "issue"
    /\ spc' = [spc EXCEPT ![q] = "recheck"]
    /\ UNCHANGED <<handlerVars, attVars, serverVars, storeVars, sTarget, sToken,
                   detachVars>>

\* The store is full (or the model has no token left): no token is offered.
IssueTokenFails(q) ==
    /\ spc[q] = "issue"
    /\ spc' = [spc EXCEPT ![q] = "idle"]
    /\ sTarget' = [sTarget EXCEPT ![q] = None]
    /\ UNCHANGED <<handlerVars, attVars, serverVars, storeVars, sToken,
                   detachVars>>

\* The second look at the attachment, and the 409 answer of the page.
OfferToken(q) ==
    /\ spc[q] = "recheck"
    /\ spc' = [spc EXCEPT ![q] = "idle"]
    /\ offered' = IF Detachable(sTarget[q]) THEN offered \cup {sToken[q]}
                                            ELSE offered
    /\ sTarget' = [sTarget EXCEPT ![q] = None]
    /\ sToken' = [sToken EXCEPT ![q] = None]
    /\ UNCHANGED <<handlerVars, attVars, serverVars, nonceState, tokenState,
                   owner, detachVars>>

NonceExpires(n) ==
    /\ nonceState[n] = "live"
    /\ nonceState' = [nonceState EXCEPT ![n] = "spent"]
    /\ UNCHANGED <<handlerVars, attVars, serverVars, tokenState, owner,
                   offered, sessionVars, detachVars>>

TokenExpires(t) ==
    /\ tokenState[t] = "live"
    /\ tokenState' = [tokenState EXCEPT ![t] = "spent"]
    /\ UNCHANGED <<handlerVars, attVars, serverVars, nonceState, owner,
                   offered, sessionVars, detachVars>>

-----------------------------------------------------------------------------
(* handleDetach                                                            *)

Reply(d, status) ==
    /\ dpc' = [dpc EXCEPT ![d] = "done"]
    /\ answer' = [answer EXCEPT ![d] = status]

\* detachTokenStore.take of a token some page was offered.
TakeToken(d, t) ==
    /\ dpc[d] = "idle"
    /\ t \in offered
    /\ IF tokenState[t] = "live"
       THEN /\ tokenState' = [tokenState EXCEPT ![t] = "spent"]
            /\ granted' = [granted EXCEPT ![d] = owner[t]]
            /\ dpc' = [dpc EXCEPT ![d] = "check"]
            /\ UNCHANGED answer
       ELSE Reply(d, 403) /\ UNCHANGED <<tokenState, granted>>
    /\ UNCHANGED <<handlerVars, attVars, serverVars, nonceState, owner,
                   offered, sessionVars, target>>

\* Fault: only ownership is looked at, not the flags.
AcceptDetachOfOwner(d) ==
    /\ dpc[d] = "check"
    /\ IF active # None /\ active = granted[d] /\ ~finished[active]
       THEN /\ detachable' = [detachable EXCEPT ![active] = FALSE]
            /\ detachRequested' = [detachRequested EXCEPT ![active] = TRUE]
            /\ target' = [target EXCEPT ![d] = active]
            /\ dpc' = [dpc EXCEPT ![d] = "cancel"]
            /\ UNCHANGED answer
       ELSE Reply(d, 409) /\ UNCHANGED <<detachable, detachRequested, target>>
    /\ UNCHANGED <<handlerVars, ownCancelled, finished, quarantined, savedErr,
                   done, serverVars, storeVars, sessionVars, granted>>

\* The mutex section that accepts or refuses the detach of s.active.
AcceptDetach(d) ==
    /\ dpc[d] = "check"
    /\ IF active # None /\ active = granted[d] /\ Detachable(active)
       THEN /\ detachable' = [detachable EXCEPT ![active] = FALSE]
            /\ detachRequested' = [detachRequested EXCEPT ![active] = TRUE]
            /\ target' = [target EXCEPT ![d] = active]
            /\ dpc' = [dpc EXCEPT ![d] = "cancel"]
            /\ UNCHANGED answer
       ELSE Reply(d, 409) /\ UNCHANGED <<detachable, detachRequested, target>>
    /\ UNCHANGED <<handlerVars, ownCancelled, finished, quarantined, savedErr,
                   done, serverVars, storeVars, sessionVars, granted>>

CancelAttachment(d) ==
    /\ dpc[d] = "cancel"
    /\ ownCancelled' = [ownCancelled EXCEPT ![target[d]] = TRUE]
    /\ dpc' = [dpc EXCEPT ![d] = "wait"]
    /\ UNCHANGED <<handlerVars, flagVars, done, serverVars, storeVars,
                   sessionVars, granted, target, answer>>

\* Fault: the teardown's error is not reported.
DetachConfirmedRegardless(d) ==
    /\ dpc[d] = "wait"
    /\ done[target[d]]
    /\ Reply(d, 204)
    /\ UNCHANGED <<handlerVars, attVars, serverVars, storeVars, sessionVars,
                   granted, target>>

\* active.done is closed: the answer depends on activeCleanupError.
DetachConfirmed(d) ==
    /\ dpc[d] = "wait"
    /\ done[target[d]]
    /\ Reply(d, IF savedErr[target[d]] THEN 503 ELSE 204)
    /\ UNCHANGED <<handlerVars, attVars, serverVars, storeVars, sessionVars,
                   granted, target>>

\* WriteTimeout passes first.
DetachTimesOut(d) ==
    /\ dpc[d] = "wait"
    /\ QuarantineAttachment(target[d])
    /\ Reply(d, 503)
    /\ UNCHANGED <<handlerVars, ownCancelled, detachable, detachRequested,
                   finished, savedErr, done, slot, active, closePc, storeVars,
                   sessionVars, granted, target>>

-----------------------------------------------------------------------------
(* Server.Close                                                            *)

CloseCancelsServer ==
    /\ closePc = "open"
    /\ closePc' = "cancelled"
    /\ serverCancelled' = TRUE
    /\ UNCHANGED <<handlerVars, attVars, slot, active, storeVars, sessionVars,
                   detachVars>>

CloseCancelsActive ==
    /\ closePc = "cancelled"
    /\ closePc' = "closed"
    /\ ownCancelled' = [h \in Handlers |-> ownCancelled[h] \/ h = active]
    /\ UNCHANGED <<handlerVars, flagVars, done, slot, active, serverCancelled,
                   storeVars, sessionVars, detachVars>>

-----------------------------------------------------------------------------
\* What the handler of an attachment does by itself, once it holds the slot.
HandlerStep(h) ==
    \/ HelloFails(h)
    \/ ClaimActive(h) \/ CheckBeforeStart(h)
    \/ StartFails(h) \/ StartSpawns(h) \/ StartAborts(h) \/ StartReturns(h)
    \/ CheckAfterStart(h) \/ MarkDetachable(h)
    \/ BridgeStops(h) \/ CloseAndWait(h) \/ Quarantine(h)
    \/ FinishActive(h) \/ ReleaseSocket(h) \/ SignalDone(h)

AttachRequest(h) ==
    \/ ClaimSocket(h)
    \/ \E n \in Nonces : Hello(h, n)
    \/ BrowserLeaves(h)
    \/ ChildExits(h)

SessionRequest(q) ==
    \/ FindSlotFree(q)
    \/ \E n \in Nonces : IssueNonce(q, n)
    \/ IssueNonceFails(q)
    \/ PeekActive(q)
    \/ \E t \in Tokens : IssueToken(q, t)
    \/ IssueTokenFails(q)
    \/ OfferToken(q)

DetachStep(d) ==
    \/ AcceptDetach(d) \/ CancelAttachment(d)
    \/ DetachConfirmed(d) \/ DetachTimesOut(d)

DetachRequest(d) == \E t \in Tokens : TakeToken(d, t)

Expiry ==
    \/ \E n \in Nonces : NonceExpires(n)
    \/ \E t \in Tokens : TokenExpires(t)

Next ==
    \/ \E h \in Handlers : HandlerStep(h) \/ AttachRequest(h)
    \/ \E q \in Sessions : SessionRequest(q)
    \/ \E d \in Detachers : DetachStep(d) \/ DetachRequest(d)
    \/ Expiry
    \/ CloseCancelsServer \/ CloseCancelsActive

Spec == Init /\ [][Next]_vars

\* A running handler is scheduled; every blocking operation in it has a
\* timeout (HelloTimeout, the launcher's and WriteTimeout) except the bridge
\* itself.  Browsers, children, Close and the clock are not fair.
Fairness ==
    /\ \A h \in Handlers : WF_vars(HandlerStep(h))
    /\ \A d \in Detachers : WF_vars(DetachStep(d))

FairSpec == Spec /\ Fairness

-----------------------------------------------------------------------------
(* Safety                                                                  *)

Runs(h) == child[h] \in {"live", "abandoned"}

\* server.go's reason to exist: however attaches, detaches, expiries and
\* shutdowns interleave, no two PTY children run at the same time, unless
\* one of them is a child that Start left behind when its cleanup failed.
OneLiveChild ==
    \A h, k \in Handlers :
        Runs(h) /\ Runs(k) => h = k \/ "abandoned" \in {child[h], child[k]}

\* The handler of h has left the slot to a replacement.
GaveSlotBack(h) == releaseSocket[h] /\ pc[h] \in {"signal", "done"}

\* A page that reads 204 from handleDetach may attach at once: the child of
\* the attachment it displaced is gone and no longer holds the slot.
ConfirmedDetachIsComplete ==
    \A d \in Detachers :
        answer[d] = 204 => /\ child[target[d]] = "gone"
                           /\ GaveSlotBack(target[d])

\* A teardown that could not be confirmed keeps the slot, and the server is
\* cancelled, for good: nothing can be attached next to what may still run.
FailedTeardownKeepsSlot ==
    \A h \in Handlers :
        cleanupErr[h] /\ pc[h] \in {"finish", "release", "signal", "done"}
            => slot /\ serverCancelled /\ ~releaseSocket[h]

\* A nonce admits one attachment, though any page may present it again.
NonceAdmitsOnce ==
    \A h, k \in Handlers : nonceOf[h] = nonceOf[k] /\ h # k => nonceOf[h] = None

\* At most one detach of an attachment is accepted, even when a second token
\* for it is issued after the first was taken and before it is acted on.
OneDetachPerAttachment ==
    \A d, e \in Detachers : target[d] = target[e] /\ d # e => target[d] = None

(* Action properties                                                       *)

\* The active attachment loses its context only to Close, to a detach whose
\* token was issued for it, or to its own quarantine: never to a stale token
\* or to the late timer of a detach of its predecessor.
CancelledForItsOwnReason ==
    [][\A h \in Handlers :
          active = h /\ ~Cancelled(h) /\ Cancelled(h)' =>
              \/ closePc' # closePc
              \/ \E d \in Detachers : granted[d] = h
              \/ cleanupErr[h]
              \/ pc[h] = "finish"]_vars

\* Once a quarantine took the server down (Close was not called) no handler,
\* not even one that finds the slot free, starts another child.
NothingStartsAfterQuarantine ==
    [][\A h \in Handlers :
          child[h] = "none" /\ child'[h] = "live"
              => ~(serverCancelled /\ closePc = "open")]_vars

(* Liveness                                                                *)

\* An accepted detach ends with the displaced child gone, or its failed
\* teardown on record, and with the slot given back or the server stopped.
DetachSettles ==
    \A h \in Handlers :
        detachRequested[h] ~> /\ child[h] = "gone" \/ cleanupErr[h]
                              /\ GaveSlotBack(h) \/ serverCancelled

\* Close leaves no child behind, including one that was being started when it
\* looked for the active attachment, unless its teardown or Start's fails.
CloseDrains ==
    (closePc = "closed") ~>
        [](\A h \in Handlers :
              Runs(h) => cleanupErr[h] \/ child[h] = "abandoned")

\* A request that never becomes a running attachment does not keep the slot.
SlotNotLeaked ==
    slot ~> \/ ~slot
            \/ \E h \in Handlers : pc[h] = "bridge" \/ cleanupErr[h] \/ quarantined[h]

-----------------------------------------------------------------------------
(* What the handlers promise together.  All that SingleAttachment sees is  *)
(* the phase of the child of each attachment, whether a teardown failed,   *)
(* and the takeovers that were confirmed.                                  *)

Phase == [h \in Handlers |-> CASE child[h] = "none" -> "new"
                               [] child[h] = "live" -> "running"
                               [] child[h] = "abandoned" -> "abandoned"
                               [] child[h] = "gone" -> "ended"]
Blocked == \E h \in Handlers : cleanupErr[h]
Displaced == {target[d] : d \in {e \in Detachers : answer[e] = 204}}

Single == INSTANCE SingleAttachment WITH
    Attachments <- Handlers, phase <- Phase, blocked <- Blocked, displaced <- Displaced

\* The handlers of server.go implement the single-attachment promise.
ImplementsSingleAttachment == Single!Spec
=============================================================================
