----------------------------- MODULE FrontDoor ------------------------------
(***************************************************************************)
(* What a request passes before it reaches the attachment: the host and    *)
(* origin checks of ServeHTTP and the handlers, and the two token stores   *)
(* with their clock, their capacity and their expiry.                      *)
(*                                                                         *)
(* A request reads the clock, and only later gets the mutex of a store: by *)
(* then other requests with an older or a newer time may have been there.  *)
(* A token is named after the request that drew it, which makes it unique  *)
(* as 32 random bytes do.  What becomes of the slot is module Attachment's *)
(* matter; here it changes as it likes.                                    *)
(***************************************************************************)
EXTENDS Origins, Naturals, FiniteSets, Functions

CONSTANTS
    Requests,    \* HTTP requests, each served once
    Attachments, \* the activeAttachments there will be
    Capacity,    \* maxOutstandingNonces and maxOutstandingDetachTokens
    TTL,         \* cfg.NonceTTL
    MaxTime,     \* bound: the clock stops here
    Configured,  \* bound: the addresses an operator may configure
    Pages        \* bound: the addresses pages are opened at

ASSUME FrontDoorAssumption ==
    /\ IsFiniteSet(Requests)
    /\ Capacity \in Nat /\ TTL \in Nat \ {0} /\ MaxTime \in Nat
    /\ Attachments \cap {"free", "busy"} = {}
    /\ Configured \subseteq Addresses /\ Pages \subseteq Addresses

VARIABLES
    clock,
    address, \* cfg.PublicOrigin
    slot,    \* "free", "busy", or the attachment that can be detached
    nonces,  \* nonceStore.items: the deadline of each nonce
    grants,  \* detachTokenStore.items: attachment and deadline of each token
    \* per request
    pc, now, target,
    token,   \* the token it drew, was offered, or presents
    told,    \* the expires_at it was answered, 0 before
    answer,
    from     \* the address of the page it came from

stores  == <<nonces, grants>>
locals  == <<now, target, token, told>>
world   == <<clock, address, slot>>
vars    == <<world, stores, pc, locals, answer, from>>

Times == 0..(MaxTime + TTL)
None  == "none"
Slots == Attachments \cup {"free", "busy"}
Answers == {None, "rejected",       \* 403 or 404, for its host or its origin
            "nonce", "full",        \* 200, 429
            "busy", "offer",        \* 409, 409 with a detach nonce
            "accepted", "taken",    \* the token is good
            "refused"}              \* it is not

TypeOK ==
    /\ clock \in 0..MaxTime
    /\ address \in Configured
    /\ slot \in Slots
    /\ DOMAIN nonces \subseteq Requests /\ \A t \in DOMAIN nonces : nonces[t] \in Times
    /\ DOMAIN grants \subseteq Requests
    /\ \A t \in DOMAIN grants : grants[t] \in [attachment : Attachments, expiresAt : Times]
    /\ Cardinality(DOMAIN nonces) <= Capacity
    /\ Cardinality(DOMAIN grants) <= Capacity
    /\ pc \in [Requests -> {"idle", "nonce", "find", "grant", "recheck",
                            "consume", "take", "done"}]
    /\ now \in [Requests -> 0..MaxTime] /\ told \in [Requests -> Times]
    /\ target \in [Requests -> Slots]
    /\ token \in [Requests -> Requests]
    /\ answer \in [Requests -> Answers]
    /\ from \in [Requests -> Pages \cup {address}]

NoTokens == [t \in {} |-> 0]

\* LoadConfig and NewServer let no other address through.
Init ==
    /\ clock = 0
    /\ address \in {a \in Configured : validatePublicOrigin(a)}
    /\ slot = "free"
    /\ nonces = NoTokens /\ grants = NoTokens
    /\ pc = [r \in Requests |-> "idle"]
    /\ now = [r \in Requests |-> 0]
    /\ target = [r \in Requests |-> "free"]
    /\ token = [r \in Requests |-> r]
    /\ told = [r \in Requests |-> 0]
    /\ answer = [r \in Requests |-> None]
    /\ from = [r \in Requests |-> address]

-----------------------------------------------------------------------------
Set(f, r, v) == f' = [f EXCEPT ![r] = v]

Answer(r, a) == Set(pc, r, "done") /\ Set(answer, r, a)
Goes(r, label) == Set(pc, r, label) /\ UNCHANGED answer

\* strictHost and hasExactOrigin compare what the browser wrote with what was
\* configured, byte for byte.  Host and Origin are written alike.
Admits(a) == Serialized(a) = address

\* Fault: a nonce is dropped one instant early.
PrunedEarly(at) ==
    Restrict(nonces, {t \in DOMAIN nonces : nonces[t] > at + 1})

\* pruneLocked, of either store.
PrunedNonces(at) == Restrict(nonces, {t \in DOMAIN nonces : nonces[t] > at})
PrunedGrants(at) ==
    Restrict(grants, {t \in DOMAIN grants : grants[t].expiresAt > at})

\* Fault: off by one.
FullLate(store) == Cardinality(DOMAIN store) > Capacity

Full(store) == Cardinality(DOMAIN store) >= Capacity

With(store, t, v) == [u \in DOMAIN store \cup {t} |-> IF u = t THEN v ELSE store[u]]
Without(store, t) == Restrict(store, DOMAIN store \ {t})

-----------------------------------------------------------------------------
\* A page is opened at an address and sends a request for one of the routes.
Arrives(r, label) ==
    /\ pc[r] = "idle"
    /\ \E a \in {p \in Pages \cup {address} : Opens(p)} :
          /\ Set(from, r, a)
          /\ IF Admits(a) THEN Goes(r, label) ELSE Answer(r, "rejected")
    /\ Set(now, r, clock)
    /\ UNCHANGED <<world, stores, target, told>>

\* handleSession, up to its look at the slot and the clock.
SessionArrives(r) ==
    /\ Arrives(r, IF slot = "free" THEN "nonce" ELSE "find")
    /\ UNCHANGED token

\* Fault: the store is full, expired nonces or not.
IssueUnpruned(r) ==
    /\ pc[r] = "nonce"
    /\ IF Full(nonces)
       THEN Answer(r, "full") /\ UNCHANGED <<nonces, told>>
       ELSE /\ nonces' = With(nonces, r, now[r] + TTL)
            /\ Set(told, r, now[r] + TTL)
            /\ Answer(r, "nonce")
    /\ UNCHANGED <<world, grants, now, target, token, from>>

\* nonceStore.issue and the answer.
IssueNonce(r) ==
    /\ pc[r] = "nonce"
    /\ LET kept == PrunedNonces(now[r]) IN
       IF Full(kept)
       THEN nonces' = kept /\ Answer(r, "full") /\ UNCHANGED told
       ELSE /\ nonces' = With(kept, r, now[r] + TTL)
            /\ Set(told, r, now[r] + TTL)
            /\ Answer(r, "nonce")
    /\ UNCHANGED <<world, grants, now, target, token, from>>

\* issueDetachToken: which attachment is active and can be detached.
FindActive(r) ==
    /\ pc[r] = "find"
    /\ Set(target, r, slot)
    /\ IF slot \in Attachments THEN Goes(r, "grant") ELSE Answer(r, "busy")
    /\ UNCHANGED <<world, stores, now, token, told, from>>

\* Fault: every poll draws a token of its own.
IssueAnother(r) ==
    /\ pc[r] = "grant"
    /\ LET kept  == PrunedGrants(now[r])
           grant == [attachment |-> target[r], expiresAt |-> now[r] + TTL]
       IN  IF Full(kept) THEN grants' = kept /\ Answer(r, "busy") /\ UNCHANGED told
           ELSE /\ grants' = With(kept, r, grant)
                /\ Set(told, r, now[r] + TTL) /\ Goes(r, "recheck")
    /\ UNCHANGED <<world, nonces, now, target, token, from>>

\* detachTokenStore.issue: the token the attachment has is renewed.
IssueGrant(r) ==
    /\ pc[r] = "grant"
    /\ LET kept  == PrunedGrants(now[r])
           grant == [attachment |-> target[r], expiresAt |-> now[r] + TTL]
           Offer(t) == /\ grants' = With(kept, t, grant)
                       /\ Set(token, r, t) /\ Set(told, r, now[r] + TTL)
                       /\ Goes(r, "recheck")
           its   == {t \in DOMAIN kept : kept[t].attachment = target[r]}
       IN  \/ \E t \in its : Offer(t)
           \/ its = {} /\ ~Full(kept) /\ Offer(r)
           \/ its = {} /\ Full(kept) /\ grants' = kept /\ Answer(r, "busy")
              /\ UNCHANGED <<token, told>>
    /\ UNCHANGED <<world, nonces, now, target, from>>

Recheck(r) ==
    /\ pc[r] = "recheck"
    /\ Answer(r, IF slot = target[r] THEN "offer" ELSE "busy")
    /\ UNCHANGED <<world, stores, locals, from>>

\* A page presents what it was answered, or a value nobody drew.
AttachArrives(r) ==
    /\ Arrives(r, "consume")
    /\ \E t \in {q \in Requests : answer[q] = "nonce"} \cup {r} : Set(token, r, t)

DetachArrives(r) ==
    /\ Arrives(r, "take")
    /\ \E t \in {token[q] : q \in {p \in Requests : answer[p] = "offer"}} \cup {r} :
          Set(token, r, t)

\* Fault: the deadline is left to pruning.
ConsumeWheneverStored(r) ==
    /\ pc[r] = "consume"
    /\ nonces' = Without(nonces, token[r])
    /\ Answer(r, IF token[r] \in DOMAIN nonces THEN "accepted" ELSE "refused")
    /\ UNCHANGED <<world, grants, locals, from>>

\* nonceStore.consume.
ConsumeNonce(r) ==
    /\ pc[r] = "consume"
    /\ IF token[r] \in DOMAIN nonces
       THEN /\ nonces' = Without(nonces, token[r])
            /\ Answer(r, IF nonces[token[r]] > now[r] THEN "accepted" ELSE "refused")
       ELSE nonces' = PrunedNonces(now[r]) /\ Answer(r, "refused")
    /\ UNCHANGED <<world, grants, locals, from>>

\* detachTokenStore.take.
TakeGrant(r) ==
    /\ pc[r] = "take"
    /\ IF token[r] \in DOMAIN grants
       THEN /\ grants' = Without(grants, token[r])
            /\ Answer(r, IF grants[token[r]].expiresAt > now[r] THEN "taken" ELSE "refused")
       ELSE grants' = PrunedGrants(now[r]) /\ Answer(r, "refused")
    /\ UNCHANGED <<world, nonces, locals, from>>

Tick ==
    /\ clock < MaxTime
    /\ clock' = clock + 1
    /\ UNCHANGED <<address, slot, stores, pc, locals, answer, from>>

\* An attachment that ended is never active again.
SlotMoves ==
    /\ \/ slot = "free" /\ slot' = "busy"
       \/ slot = "busy" /\ slot' \in {"free"} \cup (Attachments \ Range(target))
       \/ slot \in Attachments /\ slot' = "busy"
    /\ UNCHANGED <<clock, address, stores, pc, locals, answer, from>>

Step(r) ==
    \/ SessionArrives(r) \/ IssueNonce(r) \/ FindActive(r) \/ IssueGrant(r) \/ Recheck(r)
    \/ AttachArrives(r) \/ ConsumeNonce(r) \/ DetachArrives(r) \/ TakeGrant(r)

Next == Tick \/ SlotMoves \/ \E r \in Requests : Step(r)

Spec == Init /\ [][Next]_vars

-----------------------------------------------------------------------------
\* The accepted hosts that a browser writes otherwise than they were configured.
Rewritten == {"mapped", "numeral"}

\* README: the origin is "browser-canonical".  The page of the configured
\* address gets past the host and origin checks, whatever address LoadConfig
\* accepted, except for the two kinds of host above.
OwnPageIsAdmitted ==
    \A r \in Requests : from[r] = address =>
        (answer[r] = "rejected" => address.kind \in Rewritten)

\* A nonce admits one request, and a detach token serves one, before the last
\* deadline that was set for it.
UsedOnceInTime ==
    \A r \in Requests : answer[r] \in {"accepted", "taken"} =>
        /\ \A q \in Requests \ {r} : token[q] = token[r] => answer[q] # answer[r]
        /\ \E q \in Requests : token[q] = token[r] /\ now[r] < told[q]

\* r was answered token t, by the store that kind of request presents it to.
Knows(r, t, kind) ==
    /\ token[r] = t
    /\ \/ kind = "consume" /\ answer[r] = "nonce"
       \/ kind = "take" /\ answer[r] = "offer"

\* The expires_at in an answer is kept.  A token is refused before it only when
\* another request has used it, or, for a detach token, when a request that had
\* read the clock earlier renewed it later.
ExpiryIsKept ==
    [][\A r, q \in Requests :
          /\ answer[r] = None /\ answer'[r] = "refused"
          /\ Knows(q, token[r], pc[r]) /\ clock < told[q]
          => \/ \E p \in Requests : token[p] = token[r]
                                    /\ answer[p] \in {"accepted", "taken"}
             \/ /\ pc[r] = "take"
                /\ \E p \in Requests : /\ token[p] = token[r]
                                       /\ told[p] # 0 /\ told[p] < told[q]]_vars

\* 429 is answered only if Capacity nonces are out that were neither used nor
\* had expired when the request read the clock: expired ones do not count.
RefusedOnlyWhenFull ==
    [][\A r \in Requests :
          answer[r] = None /\ answer'[r] = "full" =>
              Cardinality({q \in Requests :
                  /\ answer[q] = "nonce" /\ told[q] > now[r]
                  /\ \A p \in Requests : answer[p] = "accepted" => token[p] # q})
                >= Capacity]_vars

\* However many pages poll, an attachment has one detach token.
OneGrantPerAttachment ==
    \A t, u \in DOMAIN grants : grants[t].attachment = grants[u].attachment => t = u
=============================================================================
