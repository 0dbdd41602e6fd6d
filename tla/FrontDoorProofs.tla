-------------------------- MODULE FrontDoorProofs ---------------------------
(***************************************************************************)
(* The token stores and the origin check of FrontDoor, for any number of   *)
(* requests and attachments, any capacity and any life time of a token.    *)
(***************************************************************************)
EXTENDS FrontDoor, FiniteSetTheorems, TLAPS

\* What a request knows where it stands.  Only a request that was told a deadline
\* or presents a token has another in hand than the one named after it.
LocalInv ==
    \A r \in Requests :
        /\ now[r] <= clock
        /\ pc[r] # "done" => answer[r] = None
        /\ pc[r] \in {"idle", "nonce", "find", "grant"} => token[r] = r
        /\ pc[r] \in {"grant", "recheck"} => target[r] \in Attachments
        /\ answer[r] = "nonce" => token[r] = r
        /\ told[r] # 0 => pc[r] \in {"recheck", "done"}
        /\ pc[r] = "recheck" \/ answer[r] = "offer" => told[r] # 0

\* A stored nonce was answered with its deadline and admitted nobody; one that
\* is not stored any more was used or has expired.
NonceInv ==
    /\ \A t \in DOMAIN nonces :
          /\ answer[t] = "nonce" /\ told[t] = nonces[t]
          /\ \A q \in Requests : answer[q] = "accepted" => token[q] # t
    /\ \A q \in Requests : answer[q] = "accepted" =>
          /\ answer[token[q]] = "nonce" /\ now[q] < told[token[q]]
          /\ \A p \in Requests \ {q} : answer[p] = "accepted" => token[p] # token[q]
    /\ \A t \in Requests : answer[t] = "nonce" =>
          \/ t \in DOMAIN nonces
          \/ told[t] <= clock
          \/ \E p \in Requests : answer[p] = "accepted" /\ token[p] = t

\* The deadline of a stored detach token is one that a request was told, and
\* nobody has used it.
StoredInv ==
    \A t \in DOMAIN grants :
        /\ told[t] # 0
        /\ \E q \in Requests : /\ told[q] # 0 /\ token[q] = t
                               /\ told[q] = grants[t].expiresAt
        /\ \A q \in Requests : answer[q] = "taken" => token[q] # t

\* A detach token served one request, before a deadline that was told.
TakenInv ==
    \A q \in Requests : answer[q] = "taken" =>
        /\ told[token[q]] # 0
        /\ \E p \in Requests : token[p] = token[q] /\ now[q] < told[p]
        /\ \A p \in Requests \ {q} : answer[p] = "taken" => token[p] # token[q]

Renewed(q) == \E p \in Requests : token[p] = token[q] /\ told[p] # 0 /\ told[p] < told[q]

\* A deadline that was told is that of the store or an earlier one, unless the
\* token was used, has expired, or was renewed to an earlier deadline.
OfferInv ==
    \A q \in Requests : pc[q] = "recheck" \/ answer[q] = "offer" =>
        \/ token[q] \in DOMAIN grants /\ told[q] <= grants[token[q]].expiresAt
        \/ told[q] <= clock
        \/ \E p \in Requests : answer[p] = "taken" /\ token[p] = token[q]
        \/ Renewed(q)

GrantInv == StoredInv /\ TakenInv /\ OfferInv

IInv == TypeOK /\ LocalInv /\ NonceInv /\ GrantInv /\ OneGrantPerAttachment

-----------------------------------------------------------------------------
(* The initial state, and the case split                                   *)

LEMMA InitIInv == Init => IInv
<1>. SUFFICES ASSUME Init PROVE IInv
  OBVIOUS
<1>. USE FrontDoorAssumption
<1>1. DOMAIN nonces = {} /\ DOMAIN grants = {}
  BY DEF Init, NoTokens
<1>2. Cardinality({}) = 0
  BY FS_EmptySet
<1>3. TypeOK
  BY <1>1, <1>2 DEF Init, TypeOK, Times, Slots, Answers, None
<1>4. LocalInv
  BY DEF Init, LocalInv, None
<1>5. NonceInv
  BY <1>1 DEF Init, NonceInv, None
<1>6. GrantInv /\ OneGrantPerAttachment
  BY <1>1 DEF Init, GrantInv, StoredInv, TakenInv, OfferInv, OneGrantPerAttachment, None
<1>. QED
  BY <1>3, <1>4, <1>5, <1>6 DEF IInv

\* A request for the session page arrives like the others.
LEMMA SessionIsArrival ==
    ASSUME NEW r \in Requests, SessionArrives(r)
    PROVE  Arrives(r, "nonce") \/ Arrives(r, "find")
<1>1. CASE slot = "free"
  BY <1>1 DEF SessionArrives, Arrives, Goes, Set
<1>2. CASE slot # "free"
  BY <1>2 DEF SessionArrives, Arrives, Goes, Set
<1>. QED
  BY <1>1, <1>2

\* A store that is not full has room for one more; a part of a store is as small.
LEMMA Room ==
    ASSUME NEW S \in SUBSET Requests, NEW T \in SUBSET S, NEW t \in Requests,
           Cardinality(S) <= Capacity
    PROVE  /\ Cardinality(T) <= Capacity
           /\ ~(Cardinality(T) >= Capacity) => Cardinality(T \cup {t}) <= Capacity
           /\ t \in T => Cardinality(T \cup {t}) <= Capacity
<1>. USE FrontDoorAssumption
<1>1. IsFiniteSet(S) /\ IsFiniteSet(T)
  BY FS_Subset
<1>2. Cardinality(T) <= Cardinality(S) /\ Cardinality(T) \in Nat /\ Cardinality(S) \in Nat
  BY <1>1, FS_Subset, FS_CardinalityType
<1>3. Cardinality(T \cup {t}) = IF t \in T THEN Cardinality(T) ELSE Cardinality(T) + 1
  BY <1>1, FS_AddElement
<1>. QED
  BY <1>2, <1>3

-----------------------------------------------------------------------------
(* Types                                                                   *)

LEMMA TypesKept == TypeOK /\ LocalInv /\ [Next]_vars => TypeOK'
<1>. SUFFICES ASSUME TypeOK, LocalInv, [Next]_vars PROVE TypeOK'
  OBVIOUS
<1>. USE FrontDoorAssumption DEF TypeOK
<1>0. CASE UNCHANGED vars
  BY <1>0 DEF vars, world, stores, locals
<1>1. CASE Tick
  BY <1>1 DEF Tick, stores, locals
<1>2. CASE SlotMoves
  <2>1. slot' \in Slots
    BY <1>2 DEF SlotMoves, Slots
  <2>. QED
    BY <1>2, <2>1 DEF SlotMoves, stores, locals
<1>3. ASSUME NEW r \in Requests, NEW label \in {"nonce", "find", "consume", "take"},
             Arrives(r, label), token' \in [Requests -> Requests]
      PROVE  TypeOK'
  <2>1. from' \in [Requests -> Pages \cup {address}]
    BY <1>3 DEF Arrives, Set
  <2>2. now' \in [Requests -> 0..MaxTime]
    BY <1>3 DEF Arrives, Set
  <2>3. pc' \in [Requests -> {"idle", "nonce", "find", "grant", "recheck",
                              "consume", "take", "done"}]
    BY <1>3 DEF Arrives, Goes, Answer, Set
  <2>4. answer' \in [Requests -> Answers]
    BY <1>3 DEF Arrives, Goes, Answer, Set, Answers
  <2>. QED
    BY <1>3, <2>1, <2>2, <2>3, <2>4 DEF Arrives, world, stores
<1>4. ASSUME NEW r \in Requests, SessionArrives(r) PROVE TypeOK'
  <2>1. token' \in [Requests -> Requests]
    BY <1>4 DEF SessionArrives
  <2>. QED
    BY <1>3, <1>4, <2>1, SessionIsArrival
<1>5. ASSUME NEW r \in Requests, AttachArrives(r) PROVE TypeOK'
  <2>1. token' \in [Requests -> Requests]
    BY <1>5 DEF AttachArrives, Set
  <2>. QED
    BY <1>3, <1>5, <2>1 DEF AttachArrives
<1>6. ASSUME NEW r \in Requests, DetachArrives(r) PROVE TypeOK'
  <2>1. token' \in [Requests -> Requests]
    BY <1>6 DEF DetachArrives, Set
  <2>. QED
    BY <1>3, <1>6, <2>1 DEF DetachArrives
<1>7. ASSUME NEW r \in Requests, IssueNonce(r) PROVE TypeOK'
  <2>. DEFINE kept == PrunedNonces(now[r])
              more == With(kept, r, now[r] + TTL)
  <2>. HIDE DEF kept, more
  <2>1. /\ DOMAIN kept \subseteq DOMAIN nonces
        /\ \A t \in DOMAIN kept : kept[t] \in Times
    BY DEF kept, PrunedNonces, Restrict
  <2>2. now[r] + TTL \in Times
    BY DEF Times
  <2>3. /\ DOMAIN more = DOMAIN kept \cup {r}
        /\ \A t \in DOMAIN more : more[t] \in Times
    BY <2>1, <2>2 DEF more, With
  <2>4. /\ Cardinality(DOMAIN kept) <= Capacity
        /\ ~Full(kept) => Cardinality(DOMAIN more) <= Capacity
    <3>1. DOMAIN nonces \in SUBSET Requests /\ DOMAIN kept \in SUBSET DOMAIN nonces
      BY <2>1
    <3>2. Cardinality(DOMAIN nonces) <= Capacity
      OBVIOUS
    <3>3. /\ Cardinality(DOMAIN kept) <= Capacity
          /\ ~Full(kept) => Cardinality(DOMAIN kept \cup {r}) <= Capacity
      BY <3>1, <3>2, Room DEF Full
    <3>. QED
      BY <2>3, <3>3
  <2>5. DOMAIN nonces' \subseteq Requests /\ \A t \in DOMAIN nonces' : nonces'[t] \in Times
    BY <1>7, <2>1, <2>3 DEF IssueNonce, kept, more
  <2>6. Cardinality(DOMAIN nonces') <= Capacity
    BY <1>7, <2>4 DEF IssueNonce, kept, more
  <2>7. told' \in [Requests -> Times]
    BY <1>7, <2>2 DEF IssueNonce, Set
  <2>8. /\ pc' \in [Requests -> {"idle", "nonce", "find", "grant", "recheck",
                                 "consume", "take", "done"}]
        /\ answer' \in [Requests -> Answers]
    BY <1>7 DEF IssueNonce, Answer, Set, Answers
  <2>. QED
    BY <1>7, <2>5, <2>6, <2>7, <2>8 DEF IssueNonce, world
<1>8. ASSUME NEW r \in Requests, FindActive(r) PROVE TypeOK'
  <2>1. target' \in [Requests -> Slots]
    BY <1>8 DEF FindActive, Set
  <2>2. /\ pc' \in [Requests -> {"idle", "nonce", "find", "grant", "recheck",
                                 "consume", "take", "done"}]
        /\ answer' \in [Requests -> Answers]
    BY <1>8 DEF FindActive, Goes, Answer, Set, Answers
  <2>. QED
    BY <1>8, <2>1, <2>2 DEF FindActive, world, stores
<1>9. ASSUME NEW r \in Requests, IssueGrant(r) PROVE TypeOK'
  <2>. DEFINE kept  == PrunedGrants(now[r])
              grant == [attachment |-> target[r], expiresAt |-> now[r] + TTL]
              its   == {t \in DOMAIN kept : kept[t].attachment = target[r]}
  <2>. HIDE DEF kept
  <2>1. /\ DOMAIN kept \subseteq DOMAIN grants
        /\ \A t \in DOMAIN kept : kept[t] \in [attachment : Attachments, expiresAt : Times]
    BY DEF kept, PrunedGrants, Restrict
  <2>2. now[r] + TTL \in Times
    BY DEF Times
  <2>3. grant \in [attachment : Attachments, expiresAt : Times]
    BY <1>9, <2>2 DEF IssueGrant, LocalInv
  <2>4. /\ pc' \in [Requests -> {"idle", "nonce", "find", "grant", "recheck",
                                 "consume", "take", "done"}]
        /\ answer' \in [Requests -> Answers]
        /\ told' \in [Requests -> Times]
    BY <1>9, <2>2 DEF IssueGrant, Answer, Goes, Set, Answers
  <2>5. ASSUME NEW t \in Requests, grants' = With(kept, t, grant),
               t \in DOMAIN kept \/ ~Full(kept)
        PROVE  /\ DOMAIN grants' \subseteq Requests
               /\ \A u \in DOMAIN grants' :
                     grants'[u] \in [attachment : Attachments, expiresAt : Times]
               /\ Cardinality(DOMAIN grants') <= Capacity
    <3>1. DOMAIN grants' = DOMAIN kept \cup {t}
      BY <2>5 DEF With
    <3>2. \A u \in DOMAIN grants' :
             grants'[u] \in [attachment : Attachments, expiresAt : Times]
      BY <2>1, <2>3, <2>5 DEF With
    <3>3. Cardinality(DOMAIN kept \cup {t}) <= Capacity
      BY <2>1, <2>5, Room DEF Full
    <3>. QED
      BY <2>1, <3>1, <3>2, <3>3
  <2>6. CASE \E t \in its : grants' = With(kept, t, grant) /\ Set(token, r, t)
    <3>1. token' \in [Requests -> Requests]
      BY <2>1, <2>6 DEF Set
    <3>. QED
      BY <1>9, <2>1, <2>4, <2>5, <2>6, <3>1 DEF IssueGrant, world
  <2>7. CASE ~Full(kept) /\ grants' = With(kept, r, grant) /\ Set(token, r, r)
    <3>1. token' \in [Requests -> Requests]
      BY <2>7 DEF Set
    <3>. QED
      BY <1>9, <2>4, <2>5, <2>7, <3>1 DEF IssueGrant, world
  <2>8. CASE grants' = kept /\ UNCHANGED token
    <3>1. Cardinality(DOMAIN kept) <= Capacity
      BY <2>1, Room
    <3>. QED
      BY <1>9, <2>1, <2>4, <2>8, <3>1 DEF IssueGrant, world
  <2>. QED
    BY <1>9, <2>6, <2>7, <2>8 DEF IssueGrant, kept
<1>10. ASSUME NEW r \in Requests, Recheck(r) PROVE TypeOK'
  <2>1. /\ pc' \in [Requests -> {"idle", "nonce", "find", "grant", "recheck",
                                 "consume", "take", "done"}]
        /\ answer' \in [Requests -> Answers]
    BY <1>10 DEF Recheck, Answer, Set, Answers
  <2>. QED
    BY <1>10, <2>1 DEF Recheck, world, stores, locals
<1>11. ASSUME NEW r \in Requests, ConsumeNonce(r) PROVE TypeOK'
  <2>1. /\ DOMAIN nonces' \subseteq DOMAIN nonces
        /\ \A t \in DOMAIN nonces' : nonces'[t] = nonces[t]
    BY <1>11 DEF ConsumeNonce, PrunedNonces, Without, Restrict
  <2>2. Cardinality(DOMAIN nonces') <= Capacity
    BY <1>11, <2>1, Room
  <2>3. /\ pc' \in [Requests -> {"idle", "nonce", "find", "grant", "recheck",
                                 "consume", "take", "done"}]
        /\ answer' \in [Requests -> Answers]
    BY <1>11 DEF ConsumeNonce, Answer, Set, Answers
  <2>. QED
    BY <1>11, <2>1, <2>2, <2>3 DEF ConsumeNonce, world, locals
<1>12. ASSUME NEW r \in Requests, TakeGrant(r) PROVE TypeOK'
  <2>1. /\ DOMAIN grants' \subseteq DOMAIN grants
        /\ \A t \in DOMAIN grants' : grants'[t] = grants[t]
    BY <1>12 DEF TakeGrant, PrunedGrants, Without, Restrict
  <2>2. Cardinality(DOMAIN grants') <= Capacity
    BY <1>12, <2>1, Room
  <2>3. /\ pc' \in [Requests -> {"idle", "nonce", "find", "grant", "recheck",
                                 "consume", "take", "done"}]
        /\ answer' \in [Requests -> Answers]
    BY <1>12 DEF TakeGrant, Answer, Set, Answers
  <2>. QED
    BY <1>12, <2>1, <2>2, <2>3 DEF TakeGrant, world, locals
<1>. QED
  BY <1>0, <1>1, <1>2, <1>4, <1>5, <1>6, <1>7, <1>8, <1>9, <1>10, <1>11, <1>12
     DEF Next, Step

-----------------------------------------------------------------------------
(* What a request knows                                                    *)

LEMMA LocalKept == TypeOK /\ LocalInv /\ [Next]_vars => LocalInv'
<1>. SUFFICES ASSUME TypeOK, LocalInv, [Next]_vars,
                     NEW q \in Requests
              PROVE  LocalInv!(q)'
  BY DEF LocalInv
<1>. USE FrontDoorAssumption DEF TypeOK, LocalInv
<1>0. CASE UNCHANGED vars
  BY <1>0 DEF vars, world, stores, locals
<1>1. CASE Tick
  BY <1>1 DEF Tick, stores, locals
<1>2. CASE SlotMoves
  BY <1>2 DEF SlotMoves, stores, locals
<1>3. ASSUME NEW r \in Requests, SessionArrives(r) PROVE LocalInv!(q)'
  BY <1>3 DEF SessionArrives, Arrives, Goes, Answer, Set, world, stores, None
<1>4. ASSUME NEW r \in Requests, AttachArrives(r) PROVE LocalInv!(q)'
  BY <1>4 DEF AttachArrives, Arrives, Goes, Answer, Set, world, stores, None
<1>5. ASSUME NEW r \in Requests, DetachArrives(r) PROVE LocalInv!(q)'
  BY <1>5 DEF DetachArrives, Arrives, Goes, Answer, Set, world, stores, None
<1>6. ASSUME NEW r \in Requests, IssueNonce(r) PROVE LocalInv!(q)'
  BY <1>6 DEF IssueNonce, Answer, Set, world, None
<1>7. ASSUME NEW r \in Requests, FindActive(r) PROVE LocalInv!(q)'
  BY <1>7 DEF FindActive, Goes, Answer, Set, world, stores, None
<1>8. ASSUME NEW r \in Requests, IssueGrant(r) PROVE LocalInv!(q)'
  BY <1>8 DEF IssueGrant, Goes, Answer, Set, world, None
<1>9. ASSUME NEW r \in Requests, Recheck(r) PROVE LocalInv!(q)'
  BY <1>9 DEF Recheck, Answer, Set, world, stores, locals, None
<1>10. ASSUME NEW r \in Requests, ConsumeNonce(r) PROVE LocalInv!(q)'
  BY <1>10 DEF ConsumeNonce, Answer, Set, world, locals, None
<1>11. ASSUME NEW r \in Requests, TakeGrant(r) PROVE LocalInv!(q)'
  BY <1>11 DEF TakeGrant, Answer, Set, world, locals, None
<1>. QED
  BY <1>0, <1>1, <1>2, <1>3, <1>4, <1>5, <1>6, <1>7, <1>8, <1>9, <1>10, <1>11
     DEF Next, Step

-----------------------------------------------------------------------------
(* Nonces                                                                  *)

\* What holds of every step that does not touch the nonces.
NonceQuiet ==
    /\ UNCHANGED nonces /\ clock <= clock' /\ clock' \in Nat
    /\ \A q \in Requests :
          /\ answer'[q] \in {"nonce", "accepted"} => answer'[q] = answer[q]
          /\ answer[q] \in {"nonce", "accepted"} =>
                /\ answer'[q] = answer[q]
                /\ token'[q] = token[q] /\ told'[q] = told[q] /\ now'[q] = now[q]

LEMMA NonceQuietKeeps == TypeOK /\ NonceInv /\ NonceQuiet => NonceInv'
<1>. SUFFICES ASSUME TypeOK, NonceInv, NonceQuiet PROVE NonceInv'
  OBVIOUS
<1>. USE FrontDoorAssumption DEF TypeOK
<1>1. NonceInv!1'
  BY DEF NonceInv, NonceQuiet
<1>2. NonceInv!2'
  BY DEF NonceInv, NonceQuiet
<1>3. NonceInv!3'
  <2>. SUFFICES ASSUME NEW t \in Requests, answer'[t] = "nonce",
                       t \notin DOMAIN nonces, ~(told[t] <= clock')
                PROVE  \E p \in Requests : answer'[p] = "accepted" /\ token'[p] = t
    BY DEF NonceQuiet
  <2>1. answer[t] = "nonce" /\ told[t] \in Nat /\ clock \in Nat
    BY DEF NonceQuiet, Times
  <2>2. ~(told[t] <= clock)
    BY <2>1 DEF NonceQuiet
  <2>3. PICK p \in Requests : answer[p] = "accepted" /\ token[p] = t
    BY <2>1, <2>2 DEF NonceInv
  <2>. QED
    BY <2>3 DEF NonceQuiet
<1>. QED
  BY <1>1, <1>2, <1>3 DEF NonceInv

LEMMA NonceKept == TypeOK /\ LocalInv /\ NonceInv /\ [Next]_vars => NonceInv'
<1>. SUFFICES ASSUME TypeOK, LocalInv, NonceInv, [Next]_vars PROVE NonceInv'
  OBVIOUS
<1>. USE FrontDoorAssumption DEF TypeOK
<1>0. CASE UNCHANGED vars
  BY <1>0, NonceQuietKeeps DEF NonceQuiet, vars, world, stores, locals
<1>1. CASE Tick
  BY <1>1, NonceQuietKeeps DEF NonceQuiet, Tick, stores, locals
<1>2. CASE SlotMoves
  BY <1>2, NonceQuietKeeps DEF NonceQuiet, SlotMoves, stores, locals
<1>3. ASSUME NEW r \in Requests, SessionArrives(r) PROVE NonceInv'
  <2>1. NonceQuiet
    BY <1>3 DEF NonceQuiet, LocalInv, SessionArrives, Arrives, Goes, Answer, Set, world, stores, None
  <2>. QED
    BY <2>1, NonceQuietKeeps
<1>4. ASSUME NEW r \in Requests, AttachArrives(r) PROVE NonceInv'
  <2>1. NonceQuiet
    BY <1>4 DEF NonceQuiet, LocalInv, AttachArrives, Arrives, Goes, Answer, Set, world, stores, None
  <2>. QED
    BY <2>1, NonceQuietKeeps
<1>5. ASSUME NEW r \in Requests, DetachArrives(r) PROVE NonceInv'
  <2>1. NonceQuiet
    BY <1>5 DEF NonceQuiet, LocalInv, DetachArrives, Arrives, Goes, Answer, Set, world, stores, None
  <2>. QED
    BY <2>1, NonceQuietKeeps
<1>6. ASSUME NEW r \in Requests, FindActive(r) PROVE NonceInv'
  <2>1. NonceQuiet
    BY <1>6 DEF NonceQuiet, LocalInv, FindActive, Goes, Answer, Set, world, stores, None
  <2>. QED
    BY <2>1, NonceQuietKeeps
<1>7. ASSUME NEW r \in Requests, IssueGrant(r) PROVE NonceInv'
  <2>1. NonceQuiet
    BY <1>7 DEF NonceQuiet, LocalInv, IssueGrant, Goes, Answer, Set, world, None
  <2>. QED
    BY <2>1, NonceQuietKeeps
<1>8. ASSUME NEW r \in Requests, Recheck(r) PROVE NonceInv'
  <2>1. NonceQuiet
    BY <1>8 DEF NonceQuiet, LocalInv, Recheck, Answer, Set, world, stores, locals, None
  <2>. QED
    BY <2>1, NonceQuietKeeps
<1>9. ASSUME NEW r \in Requests, TakeGrant(r) PROVE NonceInv'
  <2>1. NonceQuiet
    BY <1>9 DEF NonceQuiet, LocalInv, TakeGrant, Answer, Set, world, locals, None
  <2>. QED
    BY <2>1, NonceQuietKeeps
<1>10. ASSUME NEW r \in Requests, IssueNonce(r) PROVE NonceInv'
  <2>. DEFINE kept == PrunedNonces(now[r])
  <2>1. /\ DOMAIN kept = {t \in DOMAIN nonces : nonces[t] > now[r]}
        /\ \A t \in DOMAIN kept : kept[t] = nonces[t]
    BY DEF PrunedNonces, Restrict
  <2>2. /\ answer[r] = None /\ token[r] = r /\ now[r] <= clock
        /\ now[r] \in Nat /\ clock \in Nat
    BY <1>10 DEF LocalInv, IssueNonce
  <2>3. \A q \in Requests : answer[q] = "accepted" => token[q] # r
    BY <2>2 DEF NonceInv, None
  <2>. HIDE DEF kept
  <2>4. \A t \in Requests : answer[t] = "nonce" =>
           \/ t \in DOMAIN kept
           \/ told[t] <= clock
           \/ \E p \in Requests : answer[p] = "accepted" /\ token[p] = t
    <3>. SUFFICES ASSUME NEW t \in Requests, answer[t] = "nonce", t \in DOMAIN nonces,
                         t \notin DOMAIN kept
                  PROVE  told[t] <= clock
      BY DEF NonceInv
    <3>1. ~(nonces[t] > now[r]) /\ told[t] = nonces[t]
      BY <2>1 DEF NonceInv
    <3>. QED
      BY <2>2, <3>1 DEF Times
  <2>5. CASE Full(kept)
    <3>1. nonces' = kept /\ answer' = [answer EXCEPT ![r] = "full"]
          /\ UNCHANGED <<clock, told, now, token>>
      BY <1>10, <2>5 DEF IssueNonce, Answer, Set, world, kept
    <3>2. NonceInv!1'
      BY <2>1, <2>2, <3>1 DEF NonceInv, None
    <3>3. NonceInv!2'
      BY <2>2, <3>1 DEF NonceInv, None
    <3>4. NonceInv!3'
      BY <2>2, <2>4, <3>1 DEF None
    <3>. QED
      BY <3>2, <3>3, <3>4 DEF NonceInv
  <2>6. CASE ~Full(kept)
    <3>1. /\ nonces' = With(kept, r, now[r] + TTL)
          /\ answer' = [answer EXCEPT ![r] = "nonce"]
          /\ told' = [told EXCEPT ![r] = now[r] + TTL]
          /\ UNCHANGED <<clock, now, token>>
      BY <1>10, <2>6 DEF IssueNonce, Answer, Set, world, kept
    <3>2. /\ DOMAIN nonces' = DOMAIN kept \cup {r} /\ nonces'[r] = now[r] + TTL
          /\ \A t \in DOMAIN kept : t # r => nonces'[t] = kept[t]
      BY <3>1 DEF With
    <3>3. NonceInv!1'
      BY <2>1, <2>2, <2>3, <3>1, <3>2 DEF NonceInv, None
    <3>4. NonceInv!2'
      BY <2>2, <2>3, <3>1 DEF NonceInv, None
    <3>5. NonceInv!3'
      BY <2>2, <2>4, <3>1, <3>2 DEF None
    <3>. QED
      BY <3>3, <3>4, <3>5 DEF NonceInv
  <2>. QED
    BY <2>5, <2>6
<1>11. ASSUME NEW r \in Requests, ConsumeNonce(r) PROVE NonceInv'
  <2>1. /\ answer[r] = None /\ now[r] <= clock
        /\ now[r] \in Nat /\ clock \in Nat /\ token[r] \in Requests
        /\ UNCHANGED <<clock, now, token, told>>
    BY <1>11 DEF LocalInv, ConsumeNonce, world, locals
  <2>2. CASE token[r] \in DOMAIN nonces /\ nonces[token[r]] > now[r]
    <3>1. nonces' = Without(nonces, token[r]) /\ answer' = [answer EXCEPT ![r] = "accepted"]
      BY <1>11, <2>2 DEF ConsumeNonce, Answer, Set
    <3>2. /\ DOMAIN nonces' = DOMAIN nonces \ {token[r]}
          /\ \A t \in DOMAIN nonces' : nonces'[t] = nonces[t]
      BY <3>1 DEF Without, Restrict
    <3>3. NonceInv!1'
      BY <2>1, <3>1, <3>2 DEF NonceInv, None
    <3>4. NonceInv!2'
      BY <2>1, <2>2, <3>1 DEF NonceInv, None
    <3>5. NonceInv!3'
      BY <2>1, <3>1, <3>2 DEF NonceInv, None
    <3>. QED
      BY <3>3, <3>4, <3>5 DEF NonceInv
  <2>3. CASE ~(token[r] \in DOMAIN nonces /\ nonces[token[r]] > now[r])
    <3>1. answer' = [answer EXCEPT ![r] = "refused"]
      BY <1>11, <2>3 DEF ConsumeNonce, Answer, Set
    <3>2. /\ DOMAIN nonces' \subseteq DOMAIN nonces
          /\ \A t \in DOMAIN nonces' : nonces'[t] = nonces[t]
          /\ \A t \in DOMAIN nonces \ DOMAIN nonces' : ~(nonces[t] > now[r])
      BY <1>11, <2>3 DEF ConsumeNonce, PrunedNonces, Without, Restrict
    <3>3. NonceInv!1'
      BY <2>1, <3>1, <3>2 DEF NonceInv, None
    <3>4. NonceInv!2'
      BY <2>1, <3>1 DEF NonceInv, None
    <3>5. NonceInv!3'
      <4>. SUFFICES ASSUME NEW t \in Requests, answer'[t] = "nonce", t \notin DOMAIN nonces'
                    PROVE  \/ told[t] <= clock
                           \/ \E p \in Requests : answer'[p] = "accepted" /\ token[p] = t
        BY <2>1
      <4>1. answer[t] = "nonce"
        BY <2>1, <3>1 DEF None
      <4>2. CASE t \in DOMAIN nonces
        <5>1. ~(nonces[t] > now[r]) /\ told[t] = nonces[t]
          BY <3>2, <4>2 DEF NonceInv
        <5>. QED
          BY <2>1, <5>1 DEF Times
      <4>3. CASE t \notin DOMAIN nonces
        BY <2>1, <3>1, <4>1, <4>3 DEF NonceInv, None
      <4>. QED
        BY <4>2, <4>3
    <3>. QED
      BY <3>3, <3>4, <3>5 DEF NonceInv
  <2>. QED
    BY <2>2, <2>3
<1>. QED
  BY <1>0, <1>1, <1>2, <1>3, <1>4, <1>5, <1>6, <1>7, <1>8, <1>9, <1>10, <1>11
     DEF Next, Step

-----------------------------------------------------------------------------
(* Detach tokens                                                           *)

GrantsFine == GrantInv /\ OneGrantPerAttachment

\* What holds of every step that does not touch the detach tokens.
GrantQuiet ==
    /\ UNCHANGED grants /\ clock <= clock' /\ clock' \in Nat
    /\ \A q \in Requests :
          /\ told[q] # 0 => token'[q] = token[q] /\ told'[q] = told[q]
          /\ pc'[q] = "recheck" \/ answer'[q] = "offer" =>
                pc[q] = "recheck" \/ answer[q] = "offer"
          /\ answer'[q] = "taken" <=> answer[q] = "taken"
          /\ answer[q] = "taken" => token'[q] = token[q] /\ now'[q] = now[q]

LEMMA GrantQuietKeeps == TypeOK /\ LocalInv /\ GrantsFine /\ GrantQuiet => GrantsFine'
<1>. SUFFICES ASSUME TypeOK, LocalInv, GrantsFine, GrantQuiet PROVE GrantsFine'
  OBVIOUS
<1>. USE FrontDoorAssumption DEF TypeOK
<1>1. StoredInv'
  BY DEF GrantsFine, GrantInv, StoredInv, GrantQuiet
<1>2. TakenInv'
  <2>. SUFFICES ASSUME NEW q \in Requests, answer'[q] = "taken"
                PROVE  TakenInv!(q)!2'
    BY DEF TakenInv
  <2>1. answer[q] = "taken" /\ token'[q] = token[q] /\ now'[q] = now[q]
    BY DEF GrantQuiet
  <2>2. told'[token'[q]] # 0
    BY <2>1 DEF GrantsFine, GrantInv, TakenInv, GrantQuiet
  <2>3. PICK p \in Requests : token[p] = token[q] /\ now[q] < told[p]
    BY <2>1 DEF GrantsFine, GrantInv, TakenInv
  <2>4. told[p] # 0
    BY <2>3
  <2>5. token'[p] = token'[q] /\ now'[q] < told'[p]
    BY <2>1, <2>3, <2>4 DEF GrantQuiet
  <2>6. \A u \in Requests \ {q} : answer'[u] = "taken" => token'[u] # token'[q]
    BY <2>1 DEF GrantsFine, GrantInv, TakenInv, GrantQuiet
  <2>. QED
    BY <2>2, <2>5, <2>6
<1>3. OfferInv'
  <2>. SUFFICES ASSUME NEW q \in Requests, pc'[q] = "recheck" \/ answer'[q] = "offer"
                PROVE  OfferInv!(q)!2'
    BY DEF OfferInv
  <2>1. /\ pc[q] = "recheck" \/ answer[q] = "offer"
        /\ told[q] # 0 /\ token'[q] = token[q] /\ told'[q] = told[q]
    BY DEF GrantQuiet, LocalInv
  <2>2. told[q] \in Nat /\ clock \in Nat
    BY DEF Times
  <2>3. CASE token[q] \in DOMAIN grants /\ told[q] <= grants[token[q]].expiresAt
    BY <2>1, <2>3 DEF GrantQuiet
  <2>4. CASE told[q] <= clock
    BY <2>1, <2>2, <2>4 DEF GrantQuiet
  <2>5. CASE \E p \in Requests : answer[p] = "taken" /\ token[p] = token[q]
    BY <2>1, <2>5 DEF GrantQuiet
  <2>6. CASE Renewed(q)
    BY <2>1, <2>6 DEF GrantQuiet, Renewed
  <2>. QED
    BY <2>1, <2>3, <2>4, <2>5, <2>6 DEF GrantsFine, GrantInv, OfferInv
<1>4. OneGrantPerAttachment'
  BY DEF GrantsFine, OneGrantPerAttachment, GrantQuiet
<1>. QED
  BY <1>1, <1>2, <1>3, <1>4 DEF GrantsFine, GrantInv

LEMMA GrantsKept == TypeOK /\ LocalInv /\ GrantsFine /\ [Next]_vars => GrantsFine'
<1>. SUFFICES ASSUME TypeOK, LocalInv, GrantsFine, [Next]_vars PROVE GrantsFine'
  OBVIOUS
<1>. USE FrontDoorAssumption DEF TypeOK
<1>0. CASE UNCHANGED vars
  BY <1>0, GrantQuietKeeps DEF GrantQuiet, vars, world, stores, locals
<1>1. CASE Tick
  BY <1>1, GrantQuietKeeps DEF GrantQuiet, Tick, stores, locals
<1>2. CASE SlotMoves
  BY <1>2, GrantQuietKeeps DEF GrantQuiet, SlotMoves, stores, locals
<1>3. ASSUME NEW r \in Requests, SessionArrives(r) PROVE GrantsFine'
  <2>1. GrantQuiet
    BY <1>3 DEF GrantQuiet, LocalInv, SessionArrives, Arrives, Goes, Answer, Set, world, stores, None
  <2>. QED
    BY <2>1, GrantQuietKeeps
<1>4. ASSUME NEW r \in Requests, AttachArrives(r) PROVE GrantsFine'
  <2>1. GrantQuiet
    BY <1>4 DEF GrantQuiet, LocalInv, AttachArrives, Arrives, Goes, Answer, Set, world, stores, None
  <2>. QED
    BY <2>1, GrantQuietKeeps
<1>5. ASSUME NEW r \in Requests, DetachArrives(r) PROVE GrantsFine'
  <2>1. GrantQuiet
    BY <1>5 DEF GrantQuiet, LocalInv, DetachArrives, Arrives, Goes, Answer, Set, world, stores, None
  <2>. QED
    BY <2>1, GrantQuietKeeps
<1>6. ASSUME NEW r \in Requests, IssueNonce(r) PROVE GrantsFine'
  <2>1. GrantQuiet
    BY <1>6 DEF GrantQuiet, LocalInv, IssueNonce, Answer, Set, world, None
  <2>. QED
    BY <2>1, GrantQuietKeeps
<1>7. ASSUME NEW r \in Requests, FindActive(r) PROVE GrantsFine'
  <2>1. GrantQuiet
    BY <1>7 DEF GrantQuiet, LocalInv, FindActive, Goes, Answer, Set, world, stores, None
  <2>. QED
    BY <2>1, GrantQuietKeeps
<1>8. ASSUME NEW r \in Requests, Recheck(r) PROVE GrantsFine'
  <2>1. GrantQuiet
    BY <1>8 DEF GrantQuiet, LocalInv, Recheck, Answer, Set, world, stores, locals, None
  <2>. QED
    BY <2>1, GrantQuietKeeps
<1>9. ASSUME NEW r \in Requests, ConsumeNonce(r) PROVE GrantsFine'
  <2>1. GrantQuiet
    BY <1>9 DEF GrantQuiet, LocalInv, ConsumeNonce, Answer, Set, world, locals, None
  <2>. QED
    BY <2>1, GrantQuietKeeps
<1>10. ASSUME NEW r \in Requests, IssueGrant(r) PROVE GrantsFine'
  <2>. DEFINE kept  == PrunedGrants(now[r])
              its   == {t \in DOMAIN kept : kept[t].attachment = target[r]}
              grant == [attachment |-> target[r], expiresAt |-> now[r] + TTL]
  <2>1. /\ DOMAIN kept = {t \in DOMAIN grants : grants[t].expiresAt > now[r]}
        /\ \A t \in DOMAIN kept : kept[t] = grants[t]
    BY DEF PrunedGrants, Restrict
  <2>2. /\ pc[r] = "grant" /\ answer[r] = None /\ token[r] = r /\ told[r] = 0
        /\ now[r] <= clock /\ now[r] \in Nat /\ clock \in Nat
        /\ now' = now /\ clock' = clock
    BY <1>10 DEF LocalInv, IssueGrant, world
  <2>3. \A t \in DOMAIN grants \ DOMAIN kept : grants[t].expiresAt <= clock
    BY <2>1, <2>2 DEF Times
  <2>. HIDE DEF kept
  <2>4. CASE \E t \in its \cup {r} :
                /\ t \in its \/ its = {}
                /\ grants' = With(kept, t, grant)
                /\ token' = [token EXCEPT ![r] = t]
                /\ told' = [told EXCEPT ![r] = now[r] + TTL]
                /\ pc' = [pc EXCEPT ![r] = "recheck"] /\ answer' = answer
    <3>1. PICK t \in its \cup {r} :
                /\ t \in its \/ its = {}
                /\ grants' = With(kept, t, grant)
                /\ token' = [token EXCEPT ![r] = t]
                /\ told' = [told EXCEPT ![r] = now[r] + TTL]
                /\ pc' = [pc EXCEPT ![r] = "recheck"] /\ answer' = answer
      BY <2>4
    <3>. HIDE DEF its
    <3>2. /\ DOMAIN grants' = DOMAIN kept \cup {t} /\ grants'[t] = grant
          /\ \A u \in DOMAIN kept : u # t => grants'[u] = grants[u]
          /\ t \in Requests /\ now[r] + TTL \in Nat \ {0}
      BY <2>1, <2>2, <3>1 DEF With, its
    <3>3. told[r] = 0 /\ told'[r] = now[r] + TTL /\ told'[r] # 0 /\ token'[r] = t
          /\ \A q \in Requests : told[q] # 0 => told'[q] = told[q] /\ token'[q] = token[q]
      BY <2>2, <3>1, <3>2
    <3>4. \A q \in Requests : answer[q] = "taken" => token'[q] = token[q] /\ token[q] # t
      <4>1. CASE t \in its
        BY <2>1, <2>2, <3>1, <4>1 DEF its, GrantsFine, GrantInv, StoredInv, None
      <4>2. CASE t = r
        BY <2>2, <3>1, <4>2 DEF GrantsFine, GrantInv, TakenInv, None
      <4>. QED
        BY <4>1, <4>2
    <3>5. StoredInv'
      <4>. SUFFICES ASSUME NEW u \in DOMAIN grants' PROVE StoredInv!(u)'
        BY DEF StoredInv
      <4>1. CASE u = t
        <5>1. told'[t] # 0
          BY <2>1, <3>1, <3>3 DEF its, GrantsFine, GrantInv, StoredInv
        <5>2. grants'[t].expiresAt = told'[r]
          BY <3>2, <3>3
        <5>. QED
          BY <3>1, <3>3, <3>4, <4>1, <5>1, <5>2
      <4>2. CASE u # t
        <5>1. u \in DOMAIN grants /\ grants'[u] = grants[u]
          BY <2>1, <3>2, <4>2
        <5>2. PICK p \in Requests : told[p] # 0 /\ token[p] = u /\ told[p] = grants[u].expiresAt
          BY <5>1 DEF GrantsFine, GrantInv, StoredInv
        <5>3. told'[p] # 0 /\ token'[p] = u /\ told'[p] = grants'[u].expiresAt
          BY <3>3, <5>1, <5>2
        <5>4. told'[u] # 0 /\ \A q \in Requests : answer'[q] = "taken" => token'[q] # u
          BY <3>1, <3>3, <3>4, <5>1 DEF GrantsFine, GrantInv, StoredInv
        <5>. QED
          BY <5>3, <5>4
      <4>. QED
        BY <4>1, <4>2
    <3>6. TakenInv'
      <4>. SUFFICES ASSUME NEW q \in Requests, answer'[q] = "taken"
                    PROVE  TakenInv!(q)!2'
        BY DEF TakenInv
      <4>1. answer[q] = "taken" /\ token'[q] = token[q]
        BY <3>1, <3>4
      <4>2. PICK p \in Requests : token[p] = token[q] /\ now[q] < told[p]
        BY <4>1 DEF GrantsFine, GrantInv, TakenInv
      <4>3. told[p] # 0
        BY <4>2
      <4>4. token'[p] = token'[q] /\ now'[q] < told'[p]
        BY <2>2, <3>3, <4>1, <4>2, <4>3
      <4>5. told'[token'[q]] # 0
        BY <3>3, <4>1 DEF GrantsFine, GrantInv, TakenInv
      <4>6. \A u \in Requests \ {q} : answer'[u] = "taken" => token'[u] # token'[q]
        BY <3>1, <3>4, <4>1 DEF GrantsFine, GrantInv, TakenInv
      <4>. QED
        BY <4>4, <4>5, <4>6
    <3>7. OfferInv'
      <4>. SUFFICES ASSUME NEW q \in Requests, pc'[q] = "recheck" \/ answer'[q] = "offer"
                    PROVE  OfferInv!(q)!2'
        BY DEF OfferInv
      <4>1. CASE q = r
        BY <3>2, <3>3, <4>1
      <4>2. CASE q # r
        <5>1. /\ pc[q] = "recheck" \/ answer[q] = "offer"
              /\ told[q] # 0 /\ token'[q] = token[q] /\ told'[q] = told[q]
              /\ told[q] \in Nat
          BY <3>1, <3>3, <4>2 DEF LocalInv, Times
        <5>2. CASE token[q] \in DOMAIN grants /\ told[q] <= grants[token[q]].expiresAt
          <6>1. CASE token[q] \notin DOMAIN kept /\ token[q] # t
            <7>1. grants[token[q]].expiresAt <= clock
              BY <2>3, <5>2, <6>1
            <7>2. grants[token[q]].expiresAt \in Nat
              BY <5>2 DEF Times
            <7>. QED
              BY <2>2, <5>1, <5>2, <7>1, <7>2
          <6>2. CASE token[q] \in DOMAIN kept /\ token[q] # t
            BY <2>1, <3>2, <5>1, <5>2, <6>2
          <6>3. CASE token[q] = t /\ told[q] <= now[r] + TTL
            BY <3>2, <5>1, <6>3
          <6>4. CASE token[q] = t /\ ~(told[q] <= now[r] + TTL)
            <7>1. token'[r] = token'[q] /\ told'[r] # 0 /\ told'[r] < told'[q]
              BY <3>2, <3>3, <5>1, <6>4
            <7>. QED
              BY <7>1 DEF Renewed
          <6>. QED
            BY <6>1, <6>2, <6>3, <6>4
        <5>3. CASE told[q] <= clock
          BY <2>2, <5>1, <5>3
        <5>4. CASE \E p \in Requests : answer[p] = "taken" /\ token[p] = token[q]
          BY <3>1, <3>4, <5>1, <5>4
        <5>5. CASE Renewed(q)
          BY <3>3, <5>1, <5>5 DEF Renewed
        <5>. QED
          BY <5>1, <5>2, <5>3, <5>4, <5>5 DEF GrantsFine, GrantInv, OfferInv
      <4>. QED
        BY <4>1, <4>2
    <3>8. OneGrantPerAttachment'
      <4>1. \A u \in DOMAIN kept : u # t => grants'[u].attachment # target[r]
        BY <2>1, <3>1, <3>2 DEF its, GrantsFine, OneGrantPerAttachment
      <4>2. grants'[t].attachment = target[r]
        BY <3>2
      <4>3. \A u, v \in DOMAIN kept \ {t} :
               grants'[u].attachment = grants'[v].attachment => u = v
        BY <2>1, <3>2 DEF GrantsFine, OneGrantPerAttachment
      <4>. QED
        BY <3>2, <4>1, <4>2, <4>3 DEF OneGrantPerAttachment
    <3>. QED
      BY <3>5, <3>6, <3>7, <3>8 DEF GrantsFine, GrantInv
  <2>5. CASE /\ grants' = kept /\ token' = token /\ told' = told
             /\ answer' = [answer EXCEPT ![r] = "busy"] /\ pc' = [pc EXCEPT ![r] = "done"]
    <3>1. StoredInv'
      BY <2>1, <2>2, <2>5 DEF GrantsFine, GrantInv, StoredInv, None
    <3>2. TakenInv'
      BY <2>2, <2>5 DEF GrantsFine, GrantInv, TakenInv, None
    <3>3. OfferInv'
      <4>. SUFFICES ASSUME NEW q \in Requests, pc'[q] = "recheck" \/ answer'[q] = "offer"
                    PROVE  OfferInv!(q)!2'
        BY DEF OfferInv
      <4>1. q # r /\ (pc[q] = "recheck" \/ answer[q] = "offer")
            /\ told[q] \in Nat
        BY <2>5 DEF Times
      <4>2. CASE token[q] \in DOMAIN grants /\ told[q] <= grants[token[q]].expiresAt
        <5>1. CASE token[q] \in DOMAIN kept
          BY <2>1, <2>5, <4>2, <5>1
        <5>2. CASE token[q] \notin DOMAIN kept
          <6>1. grants[token[q]].expiresAt <= clock /\ grants[token[q]].expiresAt \in Nat
            BY <2>3, <4>2, <5>2 DEF Times
          <6>. QED
            BY <2>2, <2>5, <4>1, <4>2, <6>1
        <5>. QED
          BY <5>1, <5>2
      <4>3. CASE told[q] <= clock
        BY <2>2, <2>5, <4>3
      <4>4. CASE \E p \in Requests : answer[p] = "taken" /\ token[p] = token[q]
        BY <2>2, <2>5, <4>4 DEF None
      <4>5. CASE Renewed(q)
        BY <2>5, <4>5 DEF Renewed
      <4>. QED
        BY <4>1, <4>2, <4>3, <4>4, <4>5 DEF GrantsFine, GrantInv, OfferInv
    <3>4. OneGrantPerAttachment'
      BY <2>1, <2>5 DEF GrantsFine, OneGrantPerAttachment
    <3>. QED
      BY <3>1, <3>2, <3>3, <3>4 DEF GrantsFine, GrantInv
  <2>. QED
    BY <1>10, <2>4, <2>5 DEF IssueGrant, Goes, Answer, Set, kept
<1>11. ASSUME NEW r \in Requests, TakeGrant(r) PROVE GrantsFine'
  <2>1. /\ pc[r] = "take" /\ answer[r] = None /\ told[r] = 0 /\ now[r] <= clock
        /\ now[r] \in Nat /\ clock \in Nat /\ token[r] \in Requests
        /\ now' = now /\ clock' = clock /\ token' = token /\ told' = told
        /\ pc' = [pc EXCEPT ![r] = "done"]
    BY <1>11 DEF LocalInv, TakeGrant, Answer, Set, world, locals
  <2>2. /\ DOMAIN grants' \subseteq DOMAIN grants
        /\ \A t \in DOMAIN grants' : grants'[t] = grants[t]
    BY <1>11 DEF TakeGrant, PrunedGrants, Without, Restrict
  <2>3. OneGrantPerAttachment'
    BY <2>2 DEF GrantsFine, OneGrantPerAttachment
  <2>4. CASE token[r] \in DOMAIN grants /\ grants[token[r]].expiresAt > now[r]
    <3>1. /\ grants' = Without(grants, token[r])
          /\ answer' = [answer EXCEPT ![r] = "taken"]
      BY <1>11, <2>4 DEF TakeGrant, Answer, Set
    <3>2. DOMAIN grants' = DOMAIN grants \ {token[r]}
      BY <3>1 DEF Without, Restrict
    <3>3. StoredInv'
      BY <2>1, <2>2, <3>1, <3>2 DEF GrantsFine, GrantInv, StoredInv, None
    <3>4. TakenInv'
      <4>. SUFFICES ASSUME NEW q \in Requests, answer'[q] = "taken"
                    PROVE  TakenInv!(q)!2'
        BY DEF TakenInv
      <4>1. CASE q = r
        <5>1. PICK p \in Requests : told[p] # 0 /\ token[p] = token[r]
                                    /\ told[p] = grants[token[r]].expiresAt
          BY <2>4 DEF GrantsFine, GrantInv, StoredInv
        <5>2. told[token[r]] # 0 /\ \A u \in Requests : answer[u] = "taken" => token[u] # token[r]
          BY <2>4 DEF GrantsFine, GrantInv, StoredInv
        <5>3. now[r] < told[p]
          BY <2>1, <2>4, <5>1 DEF Times
        <5>. QED
          BY <2>1, <3>1, <4>1, <5>1, <5>2, <5>3
      <4>2. CASE q # r
        <5>1. answer[q] = "taken"
          BY <3>1, <4>2
        <5>2. token[q] # token[r]
          BY <2>4, <5>1 DEF GrantsFine, GrantInv, StoredInv
        <5>. QED
          BY <2>1, <3>1, <5>1, <5>2 DEF GrantsFine, GrantInv, TakenInv
      <4>. QED
        BY <4>1, <4>2
    <3>5. OfferInv'
      <4>. SUFFICES ASSUME NEW q \in Requests, pc'[q] = "recheck" \/ answer'[q] = "offer"
                    PROVE  OfferInv!(q)!2'
        BY DEF OfferInv
      <4>1. pc[q] = "recheck" \/ answer[q] = "offer"
        BY <2>1, <3>1
      <4>2. CASE token[q] = token[r]
        BY <2>1, <3>1, <4>2
      <4>3. CASE token[q] # token[r]
        <5>1. CASE \E p \in Requests : answer[p] = "taken" /\ token[p] = token[q]
          BY <2>1, <3>1, <5>1 DEF None
        <5>2. CASE ~\E p \in Requests : answer[p] = "taken" /\ token[p] = token[q]
          BY <2>1, <2>2, <3>2, <4>1, <4>3, <5>2
             DEF GrantsFine, GrantInv, OfferInv, Renewed
        <5>. QED
          BY <5>1, <5>2
      <4>. QED
        BY <4>2, <4>3
    <3>. QED
      BY <2>3, <3>3, <3>4, <3>5 DEF GrantsFine, GrantInv
  <2>5. CASE ~(token[r] \in DOMAIN grants /\ grants[token[r]].expiresAt > now[r])
    <3>1. answer' = [answer EXCEPT ![r] = "refused"]
      BY <1>11, <2>5 DEF TakeGrant, Answer, Set
    <3>2. \A t \in DOMAIN grants \ DOMAIN grants' : ~(grants[t].expiresAt > now[r])
      BY <1>11, <2>5 DEF TakeGrant, PrunedGrants, Without, Restrict
    <3>3. StoredInv'
      BY <2>1, <2>2, <3>1 DEF GrantsFine, GrantInv, StoredInv, None
    <3>4. TakenInv'
      BY <2>1, <3>1 DEF GrantsFine, GrantInv, TakenInv, None
    <3>5. OfferInv'
      <4>. SUFFICES ASSUME NEW q \in Requests, pc'[q] = "recheck" \/ answer'[q] = "offer"
                    PROVE  OfferInv!(q)!2'
        BY DEF OfferInv
      <4>1. (pc[q] = "recheck" \/ answer[q] = "offer") /\ told[q] \in Nat
        BY <2>1, <3>1 DEF Times
      <4>2. CASE token[q] \in DOMAIN grants \ DOMAIN grants'
                 /\ told[q] <= grants[token[q]].expiresAt
        <5>1. ~(grants[token[q]].expiresAt > now[r]) /\ grants[token[q]].expiresAt \in Nat
          BY <3>2, <4>2 DEF Times
        <5>. QED
          BY <2>1, <4>1, <4>2, <5>1
      <4>3. CASE token[q] \in DOMAIN grants' /\ told[q] <= grants[token[q]].expiresAt
        BY <2>1, <2>2, <4>3
      <4>4. CASE told[q] <= clock
        BY <2>1, <4>4
      <4>5. CASE \E p \in Requests : answer[p] = "taken" /\ token[p] = token[q]
        BY <2>1, <3>1, <4>5 DEF None
      <4>6. CASE Renewed(q)
        BY <2>1, <4>6 DEF Renewed
      <4>. QED
        BY <4>1, <4>2, <4>3, <4>4, <4>5, <4>6 DEF GrantsFine, GrantInv, OfferInv
    <3>. QED
      BY <2>3, <3>3, <3>4, <3>5 DEF GrantsFine, GrantInv
  <2>. QED
    BY <2>4, <2>5
<1>. QED
  BY <1>0, <1>1, <1>2, <1>3, <1>4, <1>5, <1>6, <1>7, <1>8, <1>9, <1>10, <1>11
     DEF Next, Step

-----------------------------------------------------------------------------
(* What follows                                                            *)

\* The inductive invariant holds in every reachable state.
THEOREM Invariance == Spec => []IInv
<1>1. Init => IInv
  BY InitIInv
<1>2. IInv /\ [Next]_vars => IInv'
  BY TypesKept, LocalKept, NonceKept, GrantsKept DEF IInv, GrantsFine
<1>. QED
  BY <1>1, <1>2, PTL DEF Spec

\* Types, and no store ever holds more than its capacity.
THEOREM TypeCorrect == Spec => []TypeOK
<1>1. IInv => TypeOK
  BY DEF IInv
<1>. QED
  BY <1>1, Invariance, PTL

\* A nonce admits one request and a detach token serves one, in time, whatever
\* the order in which requests read the clock and reach the stores.
THEOREM OnceInTime == Spec => []UsedOnceInTime
<1>1. IInv => UsedOnceInTime
  <2>. SUFFICES ASSUME IInv, NEW r \in Requests, answer[r] \in {"accepted", "taken"}
                PROVE  UsedOnceInTime!(r)!2
    BY DEF UsedOnceInTime
  <2>1. CASE answer[r] = "accepted"
    <3>1. /\ answer[token[r]] = "nonce" /\ now[r] < told[token[r]]
          /\ token[r] \in Requests
          /\ \A p \in Requests \ {r} : answer[p] = "accepted" => token[p] # token[r]
      BY <2>1 DEF IInv, NonceInv, TypeOK
    <3>2. token[token[r]] = token[r]
      BY <3>1 DEF IInv, LocalInv
    <3>. QED
      BY <2>1, <3>1, <3>2
  <2>2. CASE answer[r] = "taken"
    BY <2>2 DEF IInv, GrantInv, TakenInv
  <2>. QED
    BY <2>1, <2>2
<1>. QED
  BY <1>1, Invariance, PTL

\* However many pages poll, an attachment has one detach token.
THEOREM OneGrant == Spec => []OneGrantPerAttachment
<1>1. IInv => OneGrantPerAttachment
  BY DEF IInv
<1>. QED
  BY <1>1, Invariance, PTL

\* The step in which a request is refused or finds the nonces full.
LEMMA RefusingStep ==
    ASSUME TypeOK, LocalInv, [Next]_vars, NEW r \in Requests, answer[r] = None
    PROVE  /\ answer'[r] = "refused" => ConsumeNonce(r) \/ TakeGrant(r)
           /\ answer'[r] = "full" => IssueNonce(r)
<1>. USE DEF TypeOK
<1>0. CASE UNCHANGED vars
  BY <1>0 DEF vars, None
<1>1. CASE Tick \/ SlotMoves
  BY <1>1 DEF Tick, SlotMoves, None
<1>2. ASSUME NEW q \in Requests, Step(q)
      PROVE  /\ answer'[r] = "refused" => ConsumeNonce(r) \/ TakeGrant(r)
             /\ answer'[r] = "full" => IssueNonce(r)
  <2>1. ASSUME SessionArrives(q) \/ AttachArrives(q) \/ DetachArrives(q)
        PROVE  answer'[r] \notin {"refused", "full"}
    BY <2>1 DEF SessionArrives, AttachArrives, DetachArrives, Arrives, Goes, Answer, Set, None
  <2>2. ASSUME FindActive(q) \/ IssueGrant(q) \/ Recheck(q)
        PROVE  answer'[r] \notin {"refused", "full"}
    BY <2>2 DEF FindActive, IssueGrant, Recheck, Goes, Answer, Set, None
  <2>3. ASSUME IssueNonce(q)
        PROVE  answer'[r] # "refused" /\ (answer'[r] = "full" => q = r)
    BY <2>3 DEF IssueNonce, Answer, Set, None
  <2>4. ASSUME ConsumeNonce(q)
        PROVE  answer'[r] # "full" /\ (answer'[r] = "refused" => q = r)
    BY <2>4 DEF ConsumeNonce, Answer, Set, None
  <2>5. ASSUME TakeGrant(q)
        PROVE  answer'[r] # "full" /\ (answer'[r] = "refused" => q = r)
    BY <2>5 DEF TakeGrant, Answer, Set, None
  <2>. QED
    BY <1>2, <2>1, <2>2, <2>3, <2>4, <2>5 DEF Step
<1>. QED
  BY <1>0, <1>1, <1>2 DEF Next

\* The expires_at a page was told is kept, with the exceptions the property names.
THEOREM ExpiryKept == Spec => ExpiryIsKept
<1>. DEFINE Kept(r, q) ==
        /\ answer[r] = None /\ answer'[r] = "refused"
        /\ Knows(q, token[r], pc[r]) /\ clock < told[q]
        => \/ \E p \in Requests : token[p] = token[r] /\ answer[p] \in {"accepted", "taken"}
           \/ /\ pc[r] = "take"
              /\ \E p \in Requests : /\ token[p] = token[r]
                                     /\ told[p] # 0 /\ told[p] < told[q]
<1>1. IInv /\ [Next]_vars => \A r, q \in Requests : Kept(r, q)
  <2>. SUFFICES ASSUME IInv, [Next]_vars, NEW r \in Requests, NEW q \in Requests,
                       answer[r] = None, answer'[r] = "refused",
                       Knows(q, token[r], pc[r]), clock < told[q],
                       \A p \in Requests : token[p] = token[r] =>
                           answer[p] \notin {"accepted", "taken"}
                PROVE  /\ pc[r] = "take"
                       /\ \E p \in Requests : /\ token[p] = token[r]
                                              /\ told[p] # 0 /\ told[p] < told[q]
    OBVIOUS
  <2>. USE FrontDoorAssumption
  <2>1. /\ now[r] <= clock /\ now[r] \in Nat /\ clock \in Nat /\ told[q] \in Nat
        /\ token[q] = token[r] /\ token[r] \in Requests
    BY DEF IInv, TypeOK, LocalInv, Times, Knows
  <2>2. ConsumeNonce(r) \/ TakeGrant(r)
    BY RefusingStep DEF IInv
  <2>3. CASE ConsumeNonce(r)
    <3>1. answer[q] = "nonce" /\ token[r] = q
      BY <2>1, <2>3 DEF ConsumeNonce, Knows, IInv, LocalInv
    <3>2. q \in DOMAIN nonces /\ nonces[q] = told[q]
      BY <2>1, <3>1 DEF IInv, NonceInv
    <3>3. answer'[r] = "accepted"
      BY <2>1, <2>3, <3>1, <3>2 DEF ConsumeNonce, Answer, Set, IInv, TypeOK
    <3>. QED
      BY <3>3
  <2>4. CASE TakeGrant(r)
    <3>1. pc[r] = "take" /\ answer[q] = "offer"
      BY <2>4 DEF TakeGrant, Knows
    <3>2. ~(token[r] \in DOMAIN grants /\ told[q] <= grants[token[r]].expiresAt)
      <4>. SUFFICES ASSUME token[r] \in DOMAIN grants, told[q] <= grants[token[r]].expiresAt
                    PROVE  FALSE
        OBVIOUS
      <4>1. grants[token[r]].expiresAt \in Nat
        BY DEF IInv, TypeOK, Times
      <4>2. grants[token[r]].expiresAt > now[r]
        BY <2>1, <4>1
      <4>3. answer'[r] = "taken"
        BY <2>4, <4>2 DEF TakeGrant, Answer, Set, IInv, TypeOK
      <4>. QED
        BY <4>3
    <3>3. Renewed(q)
      BY <2>1, <3>1, <3>2 DEF IInv, GrantInv, OfferInv
    <3>. QED
      BY <2>1, <3>1, <3>3 DEF Renewed
  <2>. QED
    BY <2>2, <2>3, <2>4
<1>2. IInv /\ [Next]_vars => [\A r, q \in Requests : Kept(r, q)]_vars
  BY <1>1
<1>. QED
  BY <1>2, Invariance, PTL DEF Spec, ExpiryIsKept

\* 429 means that Capacity nonces are out, unused and unexpired.
THEOREM FullMeansFull == Spec => RefusedOnlyWhenFull
<1>. DEFINE Out(r) == {q \in Requests :
                         /\ answer[q] = "nonce" /\ told[q] > now[r]
                         /\ \A p \in Requests : answer[p] = "accepted" => token[p] # q}
            Rightly(r) == answer[r] = None /\ answer'[r] = "full"
                             => Cardinality(Out(r)) >= Capacity
<1>1. IInv /\ [Next]_vars => \A r \in Requests : Rightly(r)
  <2>. SUFFICES ASSUME IInv, [Next]_vars, NEW r \in Requests,
                       answer[r] = None, answer'[r] = "full"
                PROVE  Cardinality(Out(r)) >= Capacity
    OBVIOUS
  <2>. USE FrontDoorAssumption
  <2>. DEFINE kept == PrunedNonces(now[r])
  <2>1. IssueNonce(r)
    BY RefusingStep DEF IInv
  <2>2. Full(kept)
    BY <2>1 DEF IssueNonce, Answer, Set, IInv, TypeOK
  <2>3. DOMAIN kept \subseteq Out(r)
    BY DEF IInv, TypeOK, NonceInv, PrunedNonces, Restrict
  <2>4. IsFiniteSet(Out(r))
    BY FS_Subset
  <2>5. /\ Cardinality(DOMAIN kept) <= Cardinality(Out(r))
        /\ Cardinality(DOMAIN kept) \in Nat /\ Cardinality(Out(r)) \in Nat
    BY <2>3, <2>4, FS_Subset, FS_CardinalityType
  <2>. HIDE DEF kept, Out
  <2>. QED
    BY <2>2, <2>5 DEF Full
<1>2. IInv /\ [Next]_vars => [\A r \in Requests : Rightly(r)]_vars
  BY <1>1
<1>. QED
  BY <1>2, Invariance, PTL DEF Spec, RefusedOnlyWhenFull

-----------------------------------------------------------------------------
(* The origin                                                              *)

\* What the server takes for an origin and a browser opens is what the browser
\* calls it, but for the kinds of host that a browser rewrites.
LEMMA CanonicalIsSerialized ==
    ASSUME NEW a \in Addresses, validatePublicOrigin(a), Opens(a), a.kind \notin Rewritten
    PROVE  Serialized(a) = a
<1>1. a.form = "plain" /\ a.extra = FALSE
  BY DEF validatePublicOrigin, canonicalPublicOrigin, CanonicalForm, Addresses, Rewritten
<1>2. a.port \in {"none", "8443"}
  BY DEF validatePublicOrigin, validURLPort, HasCanonical, Addresses, Ports
<1>. QED
  BY <1>1, <1>2 DEF Serialized, Addresses, Rewritten

\* The page of the configured address gets past the checks, whichever address
\* was configured, except for the two kinds of host that a browser rewrites.
THEOREM OwnPage == Spec => []OwnPageIsAdmitted
<1>. DEFINE Checked == validatePublicOrigin(address) /\ address \in Addresses
<1>1. Init => Checked /\ OwnPageIsAdmitted
  BY FrontDoorAssumption DEF Init, OwnPageIsAdmitted, None
<1>2. IInv /\ Checked /\ OwnPageIsAdmitted /\ [Next]_vars => Checked' /\ OwnPageIsAdmitted'
  <2>. SUFFICES ASSUME TypeOK, LocalInv, Checked, OwnPageIsAdmitted, [Next]_vars
                PROVE  Checked' /\ OwnPageIsAdmitted'
    BY DEF IInv
  <2>1. address' = address
    BY DEF Next, vars, world, Tick, SlotMoves, Step, SessionArrives, AttachArrives,
           DetachArrives, Arrives, IssueNonce, FindActive, IssueGrant, Recheck,
           ConsumeNonce, TakeGrant
  <2>2. ASSUME NEW r \in Requests, NEW label, Arrives(r, label) PROVE OwnPageIsAdmitted'
    <3>1. PICK a \in Pages \cup {address} :
             /\ Opens(a)
             /\ from' = [from EXCEPT ![r] = a]
             /\ \/ Admits(a) /\ answer' = answer
                \/ ~Admits(a) /\ answer' = [answer EXCEPT ![r] = "rejected"]
      BY <2>2 DEF Arrives, Goes, Answer, Set
    <3>2. answer[r] # "rejected"
      BY <2>2 DEF Arrives, LocalInv, None
    <3>3. Opens(address) /\ address.kind \notin Rewritten => Admits(address)
      BY CanonicalIsSerialized DEF Admits, TypeOK
    <3>4. CASE Admits(a)
      BY <2>1, <3>1, <3>2, <3>4 DEF OwnPageIsAdmitted, TypeOK
    <3>5. CASE ~Admits(a)
      BY <2>1, <3>1, <3>3, <3>5 DEF OwnPageIsAdmitted, TypeOK
    <3>. QED
      BY <3>4, <3>5
  <2>3. ASSUME UNCHANGED from, \A r \in Requests : answer'[r] = "rejected" => answer[r] = "rejected"
        PROVE  OwnPageIsAdmitted'
    BY <2>1, <2>3 DEF OwnPageIsAdmitted
  <2>4. CASE UNCHANGED vars
    BY <2>3, <2>4 DEF vars, world, stores, locals
  <2>5. CASE Tick \/ SlotMoves
    BY <2>3, <2>5 DEF Tick, SlotMoves
  <2>6. ASSUME NEW r \in Requests, Step(r) PROVE OwnPageIsAdmitted'
    <3>1. CASE SessionArrives(r)
      BY <2>2, <3>1, SessionIsArrival
    <3>2. CASE AttachArrives(r) \/ DetachArrives(r)
      BY <2>2, <3>2 DEF AttachArrives, DetachArrives
    <3>3. CASE IssueNonce(r) \/ FindActive(r) \/ IssueGrant(r) \/ Recheck(r)
      BY <2>3, <3>3 DEF IssueNonce, FindActive, IssueGrant, Recheck, Goes, Answer, Set, TypeOK
    <3>4. CASE ConsumeNonce(r) \/ TakeGrant(r)
      BY <2>3, <3>4 DEF ConsumeNonce, TakeGrant, Answer, Set, TypeOK
    <3>. QED
      BY <2>6, <3>1, <3>2, <3>3, <3>4 DEF Step
  <2>. QED
    BY <2>1, <2>4, <2>5, <2>6 DEF Next
<1>. QED
  BY <1>1, <1>2, Invariance, PTL DEF Spec

=============================================================================
