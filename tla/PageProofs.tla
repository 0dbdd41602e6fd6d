----------------------------- MODULE PageProofs -----------------------------
(***************************************************************************)
(* Proofs about Page for any number of attempts, any layout widths and any *)
(* behaviour of the server and the network.                                *)
(*                                                                         *)
(* A handler is a function from the page to the page, so the proof follows *)
(* the calls: a lemma says what each call leaves alone and what it sets    *)
(* (Fields), or what it makes of a page that is in order (Facts, Inv), and *)
(* the handlers cite the lemmas of the calls they make.  The invariant has *)
(* a part about the page alone, PageInv, and two that relate it to what is *)
(* on its way: WireInv to the messages for it, WidthInv to the widths from *)
(* it.                                                                     *)
(***************************************************************************)
EXTENDS Page, TLAPS

-----------------------------------------------------------------------------
(* The inductive invariant *)

\* A page on its way through a handler: its generation may have passed the bound
WidePages ==
    [state : Waiting \cup {"ready", "limited", "detached", "offline", "ended", "error"},
     generation : Nat, socket : 0..MaxGeneration, handshake : 0..MaxGeneration,
     retry : BOOLEAN, manuallyDetached : BOOLEAN, credential : BOOLEAN,
     detach : {"none", "session", "post", "connect"},
     online : BOOLEAN, suspended : BOOLEAN,
     requests : SUBSET [generation : Nat, auto : BOOLEAN],
     early : {"none", "asked", "opened", "discarded"},
     grid : Grids \cup Widths, sent : Widths \cup {0},
     sockets : [Generations -> Sockets]]

\* The attempt of the page has a session request without an answer
Asked(p) == \E r \in p.requests : r.generation = p.generation
Phase(p, g) == p.sockets[g].phase

\* Attempts are told apart by their number: what is under way belongs to the
\* current one, except sockets that are closing and answers nobody waits for
Numbered(p) ==
    /\ \A r \in p.requests : r.generation \in 1..p.generation
    /\ \A r, s \in p.requests : r.generation = s.generation => r = s
    /\ \A g \in Generations : Phase(p, g) # "none" => g <= p.generation
    /\ p.socket # 0 => p.socket = p.generation
    /\ p.handshake # 0 => p.handshake = p.socket
    /\ \A g \in Generations :
          /\ Phase(p, g) \in {"connecting", "open"} => p.socket = g \/ Unheard(p, g)
          /\ g = p.generation /\ Phase(p, g) = "closing" => p.socket = g \/ Unheard(p, g)
          /\ g = p.generation /\ Asked(p) => Phase(p, g) = "none" \/ p.early = "opened"
    /\ Asked(p) => p.socket = 0

\* What startInitialAttachment began is the first attempt, or has been given up
Early(p) ==
    /\ Begun(p) =>
        /\ p.generation = 1 /\ p.requests = {[generation |-> 1, auto |-> FALSE]}
        /\ p.detach = "none"
        /\ p.early = "asked" => Phase(p, 1) = "none"
        /\ p.early = "opened" => Phase(p, 1) \in {"connecting", "open", "closed"}
    /\ p.early = "discarded" => Phase(p, 1) \in {"closing", "closed"} /\ p.socket # 1

\* A page with a socket shows how far it has got with it, and has no other plan
Attached(p) ==
    p.socket # 0 =>
        LET s == p.sockets[p.socket]
        IN /\ s.phase \in {"connecting", "open", "closing"}
           /\ s.phase = "connecting" => ~s.ready /\ s.final = "none"
           /\ s.phase = "closing" => s.final # "none"
           /\ s.final # "none" => p.state = s.final
           /\ s.final = "none" /\ s.ready => p.state = "ready"
           /\ s.final = "none" /\ ~s.ready => p.state \in Waiting /\ p.handshake = p.socket
           /\ p.online /\ ~p.suspended /\ ~p.retry /\ p.detach = "none" /\ ~p.credential

\* What the page shows, and what it has under way that will change it
Shown(p) ==
    /\ p.manuallyDetached <=> p.state = "detached"
    /\ p.manuallyDetached /\ p.socket # 0 => Phase(p, p.socket) = "closing"
    /\ Asked(p) => /\ p.state = "connecting" /\ p.online /\ ~p.suspended
                   /\ ~p.retry /\ p.detach \in {"none", "connect"}
    /\ p.retry => p.state = "reconnecting" /\ p.online /\ ~p.suspended
    /\ p.state \in Waiting /\ ~p.suspended => Asked(p) \/ p.retry \/ p.socket # 0
    /\ p.state = "ready" /\ ~p.suspended => p.socket # 0
    /\ p.state = "offline" => ~p.online \/ p.suspended
    /\ p.detach = "connect" => Asked(p)
    /\ p.detach \in {"session", "post"} => p.state = "limited" /\ ~p.suspended
    /\ p.credential => p.state = "limited"

PageInv(p) == Numbered(p) /\ Early(p) /\ Attached(p) /\ Shown(p)

\* Where in an inbox the server's answers to the hello are
Replies(box) == {i \in DOMAIN box : box[i] \in {"ready", "busy"}}

\* The server answers the hello once, and only to a socket that has sent it; c is
\* the server's side of socket g, box what is on its way to it
Wire(p, g, c, box) ==
    /\ Phase(p, g) \in {"none", "connecting"} => c = "none"
    /\ Phase(p, g) \in {"none", "closed"} => box = <<>>
    /\ Unheard(p, g) => c \in {"none", "over"}
    /\ c \in {"none", "greeted"} \/ p.sockets[g].ready => Replies(box) = {}
    /\ c \in {"none", "greeted"} => ~p.sockets[g].ready
    /\ \A i, j \in Replies(box) : i = j

WireInv == \A g \in Generations : Wire(page, g, conn[g], inbox[g])

\* The width the PTY of attempt g has once everything on its way has arrived
Due(g) == IF uplink[g] = <<>> THEN tty[g] ELSE uplink[g][Len(uplink[g])]

\* The server has, or is being sent, the width the page sent last, and a page
\* that shows itself connected draws on that width
WidthInv ==
    /\ page.socket # 0 /\ Phase(page, page.socket) = "open"
         /\ conn[page.socket] \in {"greeted", "attached"} => Due(page.socket) = page.sent
    /\ \A g \in Generations : conn[g] = "greeted" => uplink[g] # <<>>
    /\ page.state = "ready" /\ page.socket # 0 => page.grid = page.sent

\* The inductive invariant
IInv == TypeOK /\ PageInv(page) /\ WireInv /\ WidthInv

-----------------------------------------------------------------------------
(* The calls: their types and what they leave alone *)

\* A clamped width is a width
LEMMA ClampWidth == ASSUME NEW c \in Nat PROVE Clamp(c) \in Widths
BY PageAssumption DEF Clamp, Widths

\* What a page event that sends nothing may do to the sockets and the width
Quiet(p, q) ==
    /\ \A g \in Generations :
          /\ \/ Phase(q, g) = Phase(p, g)
             \/ Phase(p, g) \in {"connecting", "open"} /\ Phase(q, g) = "closing"
             \/ Phase(p, g) = "none" /\ Phase(q, g) = "connecting"
          /\ q.sockets[g].ready => p.sockets[g].ready
          /\ Unheard(q, g) => Unheard(p, g) \/ Phase(p, g) = "none"
    /\ q.socket # 0 => q.socket = p.socket \/ Phase(q, q.socket) = "connecting"
    /\ q.state = "ready" => p.state = "ready"
    /\ q.grid = p.grid /\ q.sent = p.sent

\* The calls keep the type of the page
LEMMA CloseType ==
    ASSUME NEW p \in WidePages, NEW g \in Generations
    PROVE  CloseSocket(p, g) \in WidePages
BY DEF CloseSocket, WidePages, Sockets

\* websocket.close touches one socket
LEMMA CloseFields ==
    ASSUME NEW p \in WidePages, NEW g \in Generations, NEW q, q = CloseSocket(p, g)
    PROVE  /\ q = [p EXCEPT !.sockets = q.sockets]
           /\ \A h \in Generations : h # g => q.sockets[h] = p.sockets[h]
           /\ q.sockets[g] = [p.sockets[g] EXCEPT !.phase = IF @ \in {"connecting", "open"} THEN "closing" ELSE @]
BY DEF CloseSocket, WidePages, Sockets

\* Attempts are the numbers from 1
LEMMA Generation == /\ MaxGeneration \in Nat /\ 0 \in 0..MaxGeneration /\ 1 \in Generations
                    /\ Generations = 1..MaxGeneration
                    /\ \A g \in 0..MaxGeneration : g # 0 => g \in Generations
BY PageAssumption DEF Generations

\* setConnectionState keeps the type of the page
LEMMA StateType ==
    ASSUME NEW p \in WidePages,
           NEW s \in Waiting \cup {"ready", "limited", "detached", "offline", "ended", "error"},
           NEW c \in BOOLEAN
    PROVE  SetState(p, s) \in WidePages /\ SetLimited(p, c) \in WidePages
<1>1. SetState(p, s) \in WidePages
  BY DEF SetState, WidePages
<1>2. SetLimited(p, c) \in WidePages
  BY DEF SetLimited, WidePages
<1>. QED
  BY <1>1, <1>2

\* So does discard
LEMMA DiscardType == ASSUME NEW p \in WidePages PROVE Discard(p) \in WidePages
<1>1. CASE p.early = "opened"
  <2>1. CloseSocket(p, 1) \in WidePages
    BY CloseType, Generation
  <2>2. [CloseSocket(p, 1) EXCEPT !.early = "discarded"] \in WidePages
    BY <2>1 DEF WidePages
  <2>. QED
    BY <1>1, <2>2 DEF Discard
<1>2. CASE p.early # "opened"
  BY <1>2 DEF Discard, WidePages
<1>. QED
  BY <1>1, <1>2

\* So does stopCurrentTransport
LEMMA StopType ==
    ASSUME NEW p \in WidePages
    PROVE  StopCurrentTransport(p) \in WidePages
<1>2. p.socket # 0 => p.socket \in Generations
  BY Generation DEF WidePages
<1>3. p.socket # 0 => CloseSocket(p, p.socket) \in WidePages
  BY <1>2, CloseType
<1>. DEFINE q == IF p.socket # 0 THEN CloseSocket(p, p.socket) ELSE Discard(p)
<1>5. q \in WidePages
  BY <1>3, DiscardType
<1>6. [q EXCEPT !.generation = @ + 1, !.socket = 0, !.handshake = 0] \in WidePages
  <2>. HIDE DEF q
  <2>1. QED
    <3>1. q.generation + 1 \in Nat
      BY <1>5 DEF WidePages
    <3>2. [q EXCEPT !.generation = q.generation + 1] \in WidePages
      BY <1>5, <3>1 DEF WidePages
    <3>. DEFINE r == [q EXCEPT !.generation = q.generation + 1]
    <3>. HIDE DEF r
    <3>3. [r EXCEPT !.socket = 0, !.handshake = 0] \in WidePages
      BY <3>2, Generation DEF WidePages, r
    <3>4. [q EXCEPT !.generation = @ + 1, !.socket = 0, !.handshake = 0] = [r EXCEPT !.socket = 0, !.handshake = 0]
      BY <1>5 DEF r, WidePages
    <3>. QED BY <3>3, <3>4
<1>. QED
  BY <1>6 DEF StopCurrentTransport

\* So does beginConnection
LEMMA BeginType ==
    ASSUME NEW p \in WidePages, NEW a \in BOOLEAN
    PROVE  BeginConnection(p, a) \in WidePages
<1>. DEFINE m == p.manuallyDetached /\ a
            q == [p EXCEPT !.manuallyDetached = m, !.credential = FALSE, !.retry = FALSE]
            s == StopCurrentTransport(q)
            t == SetState(s, "connecting")
            r == [generation |-> s.generation, auto |-> a]
<1>1. m \in BOOLEAN
  BY DEF WidePages
<1>2. q \in WidePages
  <2>. HIDE DEF m
  <2>. QED BY <1>1 DEF WidePages
<1>3. s \in WidePages
  BY <1>2, StopType
<1>4. SetState(q, "offline") \in WidePages
  BY <1>2, StateType
<1>5. t \in WidePages
  BY <1>3, StateType DEF Waiting
<1>6. r \in [generation : Nat, auto : BOOLEAN]
  <2>. HIDE DEF s
  <2>. QED BY <1>3 DEF WidePages
<1>7. [t EXCEPT !.requests = @ \cup {r}] \in WidePages
  <2>. HIDE DEF t, r
  <2>. QED BY <1>5, <1>6 DEF WidePages
<1>. QED
  BY <1>2, <1>4, <1>7 DEF BeginConnection

\* What discard sets and leaves alone
LEMMA DiscardFields ==
    ASSUME NEW p \in WidePages, NEW q, q = Discard(p)
    PROVE  /\ q.state = p.state /\ q.generation = p.generation /\ q.socket = p.socket
           /\ q.handshake = p.handshake /\ q.retry = p.retry
           /\ q.manuallyDetached = p.manuallyDetached /\ q.credential = p.credential
           /\ q.detach = p.detach /\ q.online = p.online /\ q.suspended = p.suspended
           /\ q.requests = p.requests /\ q.grid = p.grid /\ q.sent = p.sent
           /\ q.early = IF p.early = "opened" THEN "discarded"
                        ELSE IF p.early = "asked" THEN "none" ELSE p.early
           /\ \A g \in Generations :
                 /\ q.sockets[g].auto = p.sockets[g].auto
                 /\ q.sockets[g].ready = p.sockets[g].ready
                 /\ q.sockets[g].final = p.sockets[g].final
                 /\ Phase(q, g) = IF /\ g = 1 /\ p.early = "opened"
                                     /\ Phase(p, g) \in {"connecting", "open"}
                                  THEN "closing" ELSE Phase(p, g)
<1>1. CASE p.early = "opened"
  <2>. DEFINE c == CloseSocket(p, 1)
  <2>1. c \in WidePages /\ q = [c EXCEPT !.early = "discarded"]
    BY <1>1, CloseType, Generation DEF Discard
  <2>2. /\ c = [p EXCEPT !.sockets = c.sockets]
        /\ \A h \in Generations : h # 1 => c.sockets[h] = p.sockets[h]
        /\ c.sockets[1] = [p.sockets[1] EXCEPT !.phase = IF @ \in {"connecting", "open"} THEN "closing" ELSE @]
    BY CloseFields, Generation
  <2>. HIDE DEF c
  <2>. QED
    BY <1>1, <2>1, <2>2, Generation DEF WidePages, Sockets, Phase
<1>2. CASE p.early # "opened"
  BY <1>2 DEF Discard, WidePages, Phase
<1>. QED
  BY <1>1, <1>2

\* What stopCurrentTransport sets and leaves alone
LEMMA StopFields ==
    ASSUME NEW p \in WidePages, NEW q, q = StopCurrentTransport(p)
    PROVE  /\ q.state = p.state /\ q.generation = p.generation + 1 /\ q.socket = 0
           /\ q.handshake = 0 /\ q.retry = p.retry
           /\ q.manuallyDetached = p.manuallyDetached /\ q.credential = p.credential
           /\ q.detach = p.detach /\ q.online = p.online /\ q.suspended = p.suspended
           /\ q.requests = p.requests /\ q.grid = p.grid /\ q.sent = p.sent
           /\ q.early = IF p.socket # 0 THEN p.early
                        ELSE IF p.early = "opened" THEN "discarded"
                        ELSE IF p.early = "asked" THEN "none" ELSE p.early
           /\ \A g \in Generations :
                 /\ q.sockets[g].auto = p.sockets[g].auto
                 /\ q.sockets[g].ready = p.sockets[g].ready
                 /\ q.sockets[g].final = p.sockets[g].final
                 /\ Phase(q, g) = IF /\ g = p.socket \/ (p.socket = 0 /\ g = 1 /\ p.early = "opened")
                                     /\ Phase(p, g) \in {"connecting", "open"}
                                  THEN "closing" ELSE Phase(p, g)
<1>1. CASE p.socket # 0
  <2>. DEFINE c == CloseSocket(p, p.socket)
  <2>0. p.socket \in Generations
    BY <1>1, Generation DEF WidePages
  <2>1. c \in WidePages /\ q = [c EXCEPT !.generation = @ + 1, !.socket = 0, !.handshake = 0]
    BY <1>1, <2>0, CloseType DEF StopCurrentTransport
  <2>2. /\ c = [p EXCEPT !.sockets = c.sockets]
        /\ \A h \in Generations : h # p.socket => c.sockets[h] = p.sockets[h]
        /\ c.sockets[p.socket] =
              [p.sockets[p.socket] EXCEPT !.phase = IF @ \in {"connecting", "open"} THEN "closing" ELSE @]
    BY CloseFields, <2>0
  <2>. HIDE DEF c
  <2>. QED
    BY <1>1, <2>0, <2>1, <2>2, Generation DEF WidePages, Sockets, Phase
<1>2. CASE p.socket = 0
  <2>. DEFINE c == Discard(p)
  <2>1. c \in WidePages /\ q = [c EXCEPT !.generation = @ + 1, !.socket = 0, !.handshake = 0]
    BY <1>2, DiscardType DEF StopCurrentTransport
  <2>2. /\ c.state = p.state /\ c.generation = p.generation /\ c.retry = p.retry
        /\ c.manuallyDetached = p.manuallyDetached /\ c.credential = p.credential
        /\ c.detach = p.detach /\ c.online = p.online /\ c.suspended = p.suspended
        /\ c.requests = p.requests /\ c.grid = p.grid /\ c.sent = p.sent
        /\ c.early = IF p.early = "opened" THEN "discarded"
                        ELSE IF p.early = "asked" THEN "none" ELSE p.early
    BY DiscardFields
  <2>3. \A g \in Generations :
                 /\ c.sockets[g].auto = p.sockets[g].auto
                 /\ c.sockets[g].ready = p.sockets[g].ready
                 /\ c.sockets[g].final = p.sockets[g].final
                 /\ Phase(c, g) = IF /\ g = 1 /\ p.early = "opened"
                                     /\ Phase(p, g) \in {"connecting", "open"}
                                  THEN "closing" ELSE Phase(p, g)
    BY DiscardFields
  <2>. HIDE DEF c
  <2>4. /\ q.sockets = c.sockets /\ q.socket = 0 /\ q.handshake = 0 /\ q.generation = c.generation + 1
        /\ q.state = c.state /\ q.retry = c.retry
        /\ q.manuallyDetached = c.manuallyDetached /\ q.credential = c.credential
        /\ q.detach = c.detach /\ q.online = c.online /\ q.suspended = c.suspended
        /\ q.requests = c.requests /\ q.grid = c.grid /\ q.sent = c.sent /\ q.early = c.early
    BY <2>1 DEF WidePages
  <2>. QED
    BY <1>2, <2>2, <2>3, <2>4, Generation DEF Phase
<1>. QED
  BY <1>1, <1>2

\* What startInitialAttachment began is the request of the current attempt
LEMMA BegunAsked ==
    ASSUME NEW p, Numbered(p), Early(p), Begun(p)
    PROVE  Asked(p) /\ p.socket = 0
<1>. DEFINE r == [generation |-> 1, auto |-> FALSE]
<1>1. r \in p.requests /\ r.generation = 1 /\ p.generation = 1
  BY DEF Early
<1>. QED
  BY <1>1 DEF Asked, Numbered

\* After stopCurrentTransport nothing is open and no answer is waited for
LEMMA StopFacts ==
    ASSUME NEW p \in WidePages, Numbered(p), Early(p), NEW q, q = StopCurrentTransport(p)
    PROVE  /\ q \in WidePages /\ Quiet(p, q) /\ Numbered(q) /\ Early(q)
           /\ ~Asked(q) /\ ~Begun(q)
           /\ \A g \in Generations : Phase(q, g) \notin {"connecting", "open"}
           /\ \A g \in Generations : Phase(q, g) # "none" => g <= p.generation
<1>1. q \in WidePages
  BY StopType
<1>2. p.generation \in Nat /\ \A r \in p.requests : r.generation \in Nat
  BY DEF WidePages
<1>3. ~Begun(q) /\ (Begun(p) => p.socket = 0)
  BY StopFields, BegunAsked DEF Begun
<1>4. ~Asked(q)
  BY <1>2, StopFields DEF Asked, Numbered
<1>5. \A g \in Generations : Phase(q, g) \notin {"connecting", "open"}
  BY StopFields DEF Numbered, Unheard, Early, Begun
<1>6. \A g \in Generations : Phase(q, g) # "none" => g <= p.generation
  BY StopFields DEF Numbered
<1>7. \A r \in q.requests : r.generation \in 1..q.generation
  BY <1>2, StopFields DEF Numbered
<1>8. \A r, s \in q.requests : r.generation = s.generation => r = s
  BY StopFields DEF Numbered
<1>9. Numbered(q)
  BY <1>2, <1>4, <1>5, <1>6, <1>7, <1>8, StopFields, Generation DEF Numbered
<1>10. Early(q)
  <2>1. q.early = "discarded" => Phase(q, 1) \in {"closing", "closed"}
    BY <1>3, StopFields, Generation DEF Early, Begun
  <2>. QED
    BY <1>3, <2>1, StopFields DEF Early
<1>11. Quiet(p, q)
  BY StopFields DEF Quiet, Unheard
<1>. QED
  BY <1>1, <1>3, <1>4, <1>5, <1>6, <1>9, <1>10, <1>11

-----------------------------------------------------------------------------
(* The calls: what they make of a page that is in order *)

\* q has begun a new attempt where p ended; begun is its request
Fresh(p, q, begun) ==
    /\ q \in WidePages /\ Quiet(p, q) /\ Numbered(q) /\ Early(q)
    /\ begun.generation = q.generation /\ begun \in q.requests
    /\ begun \notin p.requests
    /\ q.state = "connecting" /\ q.generation = p.generation + 1
    /\ q.socket = 0 /\ q.handshake = 0
    /\ ~q.retry /\ ~q.manuallyDetached /\ ~q.credential /\ ~Begun(q)
    /\ q.detach = p.detach /\ q.online = p.online /\ q.suspended = p.suspended
    /\ \A g \in Generations : g = q.generation => Phase(q, g) = "none"

\* beginConnection of a page that is online begins a new attempt
LEMMA BeginFacts ==
    ASSUME NEW p \in WidePages, NEW a \in BOOLEAN, Numbered(p), Early(p),
           ~p.suspended, p.online, a => ~p.manuallyDetached /\ p.detach = "none",
           NEW q, q = BeginConnection(p, a)
    PROVE  Fresh(p, q, [generation |-> q.generation, auto |-> a])
<1>. DEFINE m == p.manuallyDetached /\ a
            u == [p EXCEPT !.manuallyDetached = m, !.credential = FALSE, !.retry = FALSE]
            s == StopCurrentTransport(u)
            r == [generation |-> s.generation, auto |-> a]
<1>1. ~m
  BY DEF WidePages
<1>2. /\ u.state = p.state /\ u.generation = p.generation /\ u.socket = p.socket
      /\ u.handshake = p.handshake /\ u.requests = p.requests /\ u.sockets = p.sockets
      /\ u.early = p.early /\ u.detach = p.detach /\ u.online = p.online
      /\ u.suspended = p.suspended /\ u.grid = p.grid /\ u.sent = p.sent
      /\ ~u.retry /\ ~u.manuallyDetached /\ ~u.credential /\ u \in WidePages
  <2>1. m = FALSE
    BY <1>1
  <2>2. u = [p EXCEPT !.manuallyDetached = FALSE, !.credential = FALSE, !.retry = FALSE]
    BY <2>1
  <2>. HIDE DEF u, m
  <2>3. u \in WidePages
    BY <2>2 DEF WidePages
  <2>4. /\ u.state = p.state /\ u.generation = p.generation /\ u.socket = p.socket
        /\ u.handshake = p.handshake /\ u.requests = p.requests /\ u.sockets = p.sockets
        /\ u.early = p.early /\ u.detach = p.detach /\ u.online = p.online
        /\ u.suspended = p.suspended /\ u.grid = p.grid /\ u.sent = p.sent
    BY <2>2 DEF WidePages
  <2>5. u.retry = FALSE /\ u.manuallyDetached = FALSE /\ u.credential = FALSE
    BY <2>2 DEF WidePages
  <2>. QED
    BY <2>3, <2>4, <2>5
<1>3. Numbered(u) /\ Early(u)
  BY <1>2 DEF Numbered, Early, Asked, Begun, Unheard, Phase
<1>4. q = [SetState(s, "connecting") EXCEPT !.requests = @ \cup {r}]
  BY <1>2 DEF BeginConnection
<1>. HIDE DEF u, m
<1>5. /\ s \in WidePages /\ Quiet(u, s) /\ Numbered(s) /\ Early(s) /\ ~Asked(s) /\ ~Begun(s)
      /\ \A g \in Generations : Phase(s, g) # "none" => g <= u.generation
  BY <1>2, <1>3, StopFacts
<1>6. /\ s.generation = u.generation + 1 /\ s.socket = 0 /\ s.handshake = 0
      /\ s.retry = u.retry /\ s.manuallyDetached = u.manuallyDetached
      /\ s.credential = u.credential /\ s.detach = u.detach /\ s.online = u.online
      /\ s.suspended = u.suspended /\ s.requests = u.requests
  <2>1. u \in WidePages /\ s = StopCurrentTransport(u)
    BY <1>2
  <2>. HIDE DEF s
  <2>. QED
    BY <2>1, StopFields
<1>. HIDE DEF s
<1>7. /\ q.state = "connecting" /\ q.generation = s.generation /\ q.socket = s.socket
      /\ q.handshake = s.handshake /\ q.requests = s.requests \cup {r} /\ q.sockets = s.sockets
      /\ q.early = s.early /\ q.detach = s.detach /\ q.online = s.online
      /\ q.suspended = s.suspended /\ q.grid = s.grid /\ q.sent = s.sent
      /\ q.retry = s.retry /\ q.manuallyDetached = s.manuallyDetached /\ ~q.credential
  BY <1>4, <1>5 DEF SetState, WidePages
<1>8. q \in WidePages
  BY BeginType
<1>9. Quiet(p, q)
  BY <1>2, <1>5, <1>7, <1>6 DEF Quiet, Unheard, Phase
<1>10. p.generation \in Nat /\ q.generation = p.generation + 1
  BY <1>2, <1>6, <1>7 DEF WidePages
<1>11. \A x \in s.requests : x.generation \in 1..s.generation /\ x.generation # s.generation
  BY <1>5 DEF Numbered, Asked
<1>12. r \notin p.requests
  BY <1>2, <1>6, <1>11
<1>13. \A g \in Generations : g = q.generation => Phase(q, g) = "none"
  BY <1>2, <1>5, <1>7, <1>10, Generation DEF Phase
<1>14. Numbered(q)
  <2>1. \A x \in q.requests : x.generation \in 1..q.generation
    BY <1>7, <1>10, <1>11
  <2>2. \A x, y \in q.requests : x.generation = y.generation => x = y
    BY <1>5, <1>7, <1>11 DEF Numbered
  <2>. QED
    BY <1>5, <1>6, <1>7, <1>13, <2>1, <2>2 DEF Numbered, Unheard, Phase
<1>15. Early(q) /\ ~Begun(q)
  BY <1>5, <1>7 DEF Early, Begun, Phase
<1>. QED
  BY <1>1, <1>2, <1>6, <1>7, <1>8, <1>9, <1>10, <1>12, <1>13, <1>14, <1>15 DEF Fresh

\* A page that has begun an attempt, and waits for no take-over
LEMMA FreshInv ==
    ASSUME NEW p, NEW q, NEW r, Fresh(p, q, r), q.online, ~q.suspended, q.detach = "none"
    PROVE  PageInv(q)
<1>1. Asked(q)
  BY DEF Fresh, Asked
<1>2. Attached(q) /\ Shown(q)
  BY <1>1 DEF Fresh, Attached, Shown
<1>. QED
  BY <1>2 DEF Fresh, PageInv

\* beginConnection of a page that is offline only says so
LEMMA BeginOffline ==
    ASSUME NEW p \in WidePages, NEW a \in BOOLEAN, Numbered(p), Early(p),
           ~p.suspended, ~p.online, a => ~p.manuallyDetached /\ p.detach = "none",
           NEW q, q = BeginConnection(p, a)
    PROVE  /\ q \in WidePages /\ Quiet(p, q) /\ Numbered(q) /\ Early(q)
           /\ q.state = "offline" /\ q.socket = p.socket /\ q.requests = p.requests
           /\ q.generation = p.generation /\ q.detach = p.detach /\ ~q.online /\ ~q.suspended
           /\ q.early = p.early /\ ~q.retry /\ ~q.manuallyDetached /\ ~q.credential
<1>. DEFINE m == p.manuallyDetached /\ a
            u == [p EXCEPT !.manuallyDetached = m, !.credential = FALSE, !.retry = FALSE]
<1>1. m = FALSE
  BY DEF WidePages
<1>2. u = [p EXCEPT !.manuallyDetached = FALSE, !.credential = FALSE, !.retry = FALSE]
  BY <1>1
<1>3. q = SetState(u, "offline")
  BY <1>2 DEF BeginConnection, WidePages
<1>. HIDE DEF u, m
<1>4. q = [p EXCEPT !.manuallyDetached = FALSE, !.credential = FALSE, !.retry = FALSE, !.state = "offline"]
  BY <1>2, <1>3 DEF SetState, WidePages
<1>5. q \in WidePages
  BY BeginType
<1>6. /\ q.state = "offline" /\ q.generation = p.generation /\ q.socket = p.socket
      /\ q.handshake = p.handshake /\ q.requests = p.requests /\ q.sockets = p.sockets
      /\ q.early = p.early /\ q.detach = p.detach /\ q.online = p.online
      /\ q.suspended = p.suspended /\ q.grid = p.grid /\ q.sent = p.sent
  BY <1>4 DEF WidePages
<1>7. q.retry = FALSE /\ q.manuallyDetached = FALSE /\ q.credential = FALSE
  BY <1>4 DEF WidePages
<1>8. Quiet(p, q) /\ Numbered(q) /\ Early(q)
  BY <1>6 DEF Quiet, Numbered, Early, Asked, Begun, Unheard, Phase
<1>. QED
  BY <1>5, <1>6, <1>7, <1>8

\* A page that has neither a socket nor a request of this attempt
Idle(p) == Numbered(p) /\ Early(p) /\ p.socket = 0 /\ ~Asked(p) /\ p.detach = "none"

\* An idle page may show "offline"
LEMMA OfflineInv ==
    ASSUME NEW p, Idle(p), p.state = "offline", ~p.online \/ p.suspended,
           ~p.retry, ~p.manuallyDetached, ~p.credential
    PROVE  PageInv(p)
BY DEF Idle, PageInv, Attached, Shown, Waiting

\* scheduleReconnect of an idle page leaves it in order
LEMMA ScheduleFacts ==
    ASSUME NEW p \in WidePages, Idle(p), ~p.manuallyDetached, ~p.suspended, NEW i \in BOOLEAN,
           NEW q, q = ScheduleReconnect(p, i)
    PROVE  q \in WidePages /\ Quiet(p, q) /\ PageInv(q)
<1>. DEFINE u == [p EXCEPT !.retry = FALSE]
<1>1. /\ u.state = p.state /\ u.generation = p.generation /\ u.socket = p.socket
      /\ u.handshake = p.handshake /\ u.requests = p.requests /\ u.sockets = p.sockets
      /\ u.early = p.early /\ u.detach = p.detach /\ u.online = p.online
      /\ u.suspended = p.suspended /\ u.grid = p.grid /\ u.sent = p.sent
      /\ u.manuallyDetached = p.manuallyDetached
  BY DEF WidePages
<1>2. u.retry = FALSE /\ u \in WidePages
  BY DEF WidePages
<1>3. Idle(u) /\ Quiet(p, u)
  BY <1>1 DEF Idle, Quiet, Numbered, Early, Asked, Begun, Unheard, Phase
<1>4. ~u.manuallyDetached /\ ~u.suspended
  BY <1>1
<1>. HIDE DEF u
<1>5. CASE ~u.online
  <2>1. q = SetState(u, "offline")
    BY <1>4, <1>5 DEF ScheduleReconnect, u
  <2>2. q \in WidePages
    BY <2>1, <1>2, StateType
  <2>3. /\ q.state = "offline" /\ q.generation = u.generation /\ q.socket = u.socket
        /\ q.handshake = u.handshake /\ q.requests = u.requests /\ q.sockets = u.sockets
        /\ q.early = u.early /\ q.detach = u.detach /\ q.online = u.online
        /\ q.suspended = u.suspended /\ q.grid = u.grid /\ q.sent = u.sent
        /\ q.manuallyDetached = u.manuallyDetached /\ q.retry = u.retry
    BY <1>2, <2>1 DEF SetState, WidePages
  <2>4. q.credential = FALSE
    BY <1>2, <2>1 DEF SetState, WidePages
  <2>5. Idle(q) /\ Quiet(p, q)
    BY <1>3, <2>3 DEF Idle, Quiet, Numbered, Early, Asked, Begun, Unheard, Phase
  <2>. QED
    BY <1>1, <1>2, <1>5, <2>2, <2>3, <2>4, <2>5, OfflineInv
<1>6. CASE u.online /\ i
  <2>1. q = BeginConnection(u, TRUE)
    BY <1>4, <1>6 DEF ScheduleReconnect, u
  <2>2. Fresh(u, q, [generation |-> q.generation, auto |-> TRUE])
    BY <1>1, <1>2, <1>3, <1>6, <2>1, BeginFacts DEF Idle
  <2>3. PageInv(q)
    BY <1>1, <1>3, <1>6, <2>2, FreshInv DEF Fresh, Idle
  <2>4. Quiet(p, q)
    BY <1>1, <2>2 DEF Fresh, Quiet, Phase, Unheard
  <2>. QED
    BY <2>2, <2>3, <2>4 DEF Fresh
<1>7. CASE u.online /\ ~i
  <2>1. q = [SetState(u, "reconnecting") EXCEPT !.retry = TRUE]
    BY <1>4, <1>7 DEF ScheduleReconnect, u
  <2>2. SetState(u, "reconnecting") \in WidePages
    BY <1>2, StateType DEF Waiting
  <2>3. q \in WidePages
    BY <2>1, <2>2 DEF WidePages
  <2>4. /\ q.state = "reconnecting" /\ q.generation = u.generation /\ q.socket = u.socket
        /\ q.handshake = u.handshake /\ q.requests = u.requests /\ q.sockets = u.sockets
        /\ q.early = u.early /\ q.detach = u.detach /\ q.online = u.online
        /\ q.suspended = u.suspended /\ q.grid = u.grid /\ q.sent = u.sent
        /\ q.manuallyDetached = u.manuallyDetached
    BY <1>2, <2>1 DEF SetState, WidePages
  <2>5. q.credential = FALSE /\ q.retry = TRUE
    BY <1>2, <2>1 DEF SetState, WidePages
  <2>6. Idle(q) /\ Quiet(p, q)
    BY <1>3, <2>4 DEF Idle, Quiet, Numbered, Early, Asked, Begun, Unheard, Phase
  <2>7. Attached(q) /\ Shown(q)
    BY <1>1, <1>7, <2>4, <2>5, <2>6 DEF Idle, Attached, Shown
  <2>. QED
    BY <2>3, <2>6, <2>7 DEF PageInv, Idle
<1>. QED
  BY <1>5, <1>6, <1>7

\* openAttachment keeps the type of the page
LEMMA OpenType ==
    ASSUME NEW p \in WidePages, NEW g \in Generations, NEW a \in BOOLEAN
    PROVE  OpenAttachment(p, g, a) \in WidePages
<1>. DEFINE s == [phase |-> "connecting", auto |-> a, ready |-> FALSE, final |-> "none"]
<1>1. s \in Sockets /\ g \in 0..MaxGeneration
  BY Generation DEF Sockets, Final
<1>. HIDE DEF s
<1>2. [p EXCEPT !.socket = g, !.handshake = g, !.sockets[g] = s] \in WidePages
  BY <1>1 DEF WidePages
<1>. QED
  BY <1>2 DEF OpenAttachment, s

\* openAttachment for the current attempt leaves the page in order
LEMMA OpenFacts ==
    ASSUME NEW p \in WidePages, Idle(p), ~Begun(p),
           NEW g \in Generations, g = p.generation, Phase(p, g) = "none",
           p.state = "connecting", p.online, ~p.suspended, ~p.retry, ~p.credential,
           ~p.manuallyDetached, NEW a \in BOOLEAN,
           NEW q, q = OpenAttachment(p, g, a)
    PROVE  q \in WidePages /\ Quiet(p, q) /\ PageInv(q)
<1>1. q \in WidePages
  BY OpenType
<1>2. /\ q.state = p.state /\ q.generation = p.generation /\ q.socket = g
      /\ q.handshake = g /\ q.requests = p.requests
      /\ q.early = p.early /\ q.detach = p.detach /\ q.online = p.online
      /\ q.suspended = p.suspended /\ q.grid = p.grid /\ q.sent = p.sent
      /\ q.retry = p.retry /\ q.credential = p.credential
      /\ q.manuallyDetached = p.manuallyDetached
  BY DEF OpenAttachment, WidePages
<1>3. /\ \A h \in Generations : h # g => q.sockets[h] = p.sockets[h]
      /\ q.sockets[g] = [phase |-> "connecting", auto |-> a, ready |-> FALSE, final |-> "none"]
  BY DEF OpenAttachment, WidePages
<1>4. Phase(q, g) = "connecting" /\ ~q.sockets[g].ready /\ q.sockets[g].final = "none"
  BY <1>3 DEF Phase
<1>5. g # 0 /\ g \in Nat
  BY Generation
<1>6. ~Asked(q) /\ ~Begun(q)
  BY <1>2 DEF Asked, Begun, Idle
<1>7. p.early = "discarded" => g # 1
  BY DEF Idle, Early
<1>8. Numbered(q)
  BY <1>2, <1>3, <1>4, <1>5, <1>6, Generation DEF Numbered, Idle, Unheard, Phase
<1>9. Early(q)
  BY <1>2, <1>3, <1>6, <1>7, Generation DEF Early, Idle, Phase
<1>10. Attached(q)
  BY <1>2, <1>4, <1>5 DEF Attached, Waiting, Idle, Phase
<1>11. Shown(q)
  BY <1>2, <1>5, <1>6 DEF Shown, Idle
<1>12. Quiet(p, q)
  BY <1>2, <1>3, <1>4, <1>7 DEF Quiet, Unheard, Phase
<1>. QED
  BY <1>1, <1>8, <1>9, <1>10, <1>11, <1>12 DEF PageInv

\* A page that shows a final state and has nothing under way is in order
LEMMA RestInv ==
    ASSUME NEW p, Idle(p), p.state \in {"limited", "ended", "error"},
           ~p.retry, ~p.manuallyDetached, p.credential => p.state = "limited"
    PROVE  PageInv(p)
<1>1. Attached(p)
  BY DEF Idle, Attached
<1>2. Shown(p)
  BY DEF Idle, Shown, Waiting
<1>. QED
  BY <1>1, <1>2 DEF PageInv, Idle

\* The answer to the current request leaves the page in order
LEMMA TakenFacts ==
    ASSUME NEW p \in WidePages, PageInv(p), NEW r \in p.requests, r.generation = p.generation,
           r.generation \in Generations, NEW answer \in Answers,
           answer = "ok" => p.early # "opened", p.early # "asked",
           NEW q, q = Taken(p, r, answer)
    PROVE  q \in WidePages /\ Quiet(p, q) /\ PageInv(q)
<1>. DEFINE u == [p EXCEPT !.requests = @ \ {r},
                           !.detach = IF @ = "connect" THEN "none" ELSE @]
<1>1. Asked(p)
  BY DEF Asked
<1>2. /\ p.state = "connecting" /\ p.online /\ ~p.suspended /\ ~p.retry
      /\ p.detach \in {"none", "connect"} /\ p.socket = 0 /\ ~p.credential
      /\ ~p.manuallyDetached
  BY <1>1 DEF PageInv, Shown, Numbered
<1>3. r.auto \in BOOLEAN
  BY DEF WidePages
<1>4. u \in WidePages
  BY DEF WidePages
<1>5. /\ u.state = p.state /\ u.generation = p.generation /\ u.socket = p.socket
      /\ u.handshake = p.handshake /\ u.requests = p.requests \ {r} /\ u.sockets = p.sockets
      /\ u.early = p.early /\ u.online = p.online
      /\ u.suspended = p.suspended /\ u.grid = p.grid /\ u.sent = p.sent
      /\ u.retry = p.retry /\ u.manuallyDetached = p.manuallyDetached
      /\ u.credential = p.credential
  BY DEF WidePages
<1>6. u.detach = "none"
  BY <1>2 DEF WidePages
<1>7. ~Asked(u)
  BY <1>5 DEF Asked, PageInv, Numbered
<1>8. Numbered(u)
  BY <1>2, <1>5, <1>7 DEF Numbered, PageInv, Unheard, Phase
<1>9. Quiet(p, u)
  BY <1>5 DEF Quiet, Unheard, Phase
<1>10. p.early = "opened" => r.auto = FALSE
  BY DEF PageInv, Early, Begun
<1>11. ~Begun(p) => Early(u) /\ ~Begun(u)
  BY <1>5 DEF PageInv, Early, Begun, Phase
<1>12. CASE answer = "ok"
  <2>1. ~Begun(p)
    BY <1>12 DEF Begun
  <2>2. q = OpenAttachment(u, r.generation, r.auto)
    BY <1>2, <1>5, <1>12, <2>1 DEF Taken, Begun
  <2>. HIDE DEF u
  <2>3. Phase(u, r.generation) = "none"
    BY <1>1, <1>5, <2>1 DEF PageInv, Numbered, Begun, Phase
  <2>4. Idle(u) /\ ~Begun(u)
    BY <1>2, <1>5, <1>6, <1>7, <1>8, <1>11, <2>1 DEF Idle
  <2>5. q \in WidePages /\ Quiet(u, q) /\ PageInv(q)
    BY <1>2, <1>3, <1>4, <1>5, <2>2, <2>3, <2>4, OpenFacts
  <2>. QED
    BY <1>5, <2>5 DEF Quiet, Unheard, Phase
<1>13. CASE answer # "ok" /\ r.auto
  <2>1. q = ScheduleReconnect(u, FALSE)
    BY <1>13 DEF Taken, Answers
  <2>2. ~Begun(p)
    BY <1>10, <1>13 DEF Begun
  <2>. HIDE DEF u
  <2>3. Idle(u)
    BY <1>2, <1>5, <1>6, <1>7, <1>8, <1>11, <2>2 DEF Idle
  <2>4. q \in WidePages /\ Quiet(u, q) /\ PageInv(q)
    BY <1>2, <1>4, <1>5, <2>1, <2>3, ScheduleFacts
  <2>. QED
    BY <1>5, <2>4 DEF Quiet, Unheard, Phase
<1>14. CASE answer # "ok" /\ ~r.auto
  <2>. DEFINE d == Discard(u)
  <2>1. q = IF answer = "failed" THEN SetState(d, "error") ELSE SetLimited(d, answer = "busy_token")
    BY <1>14 DEF Taken, Answers
  <2>. HIDE DEF u
  <2>2. d \in WidePages
    BY <1>4, DiscardType
  <2>3. /\ d.state = u.state /\ d.generation = u.generation /\ d.socket = u.socket
        /\ d.handshake = u.handshake /\ d.retry = u.retry
        /\ d.manuallyDetached = u.manuallyDetached /\ d.detach = u.detach
        /\ d.requests = u.requests /\ d.grid = u.grid /\ d.sent = u.sent
        /\ d.early = IF u.early = "opened" THEN "discarded"
                     ELSE IF u.early = "asked" THEN "none" ELSE u.early
        /\ \A g \in Generations :
              /\ d.sockets[g].ready = u.sockets[g].ready
              /\ Phase(d, g) = IF /\ g = 1 /\ u.early = "opened"
                                  /\ Phase(u, g) \in {"connecting", "open"}
                               THEN "closing" ELSE Phase(u, g)
    BY <1>4, DiscardFields
  <2>. HIDE DEF d
  <2>4. /\ q \in WidePages
        /\ q.state \in {"limited", "error"}
        /\ q.credential => q.state = "limited"
        /\ q.generation = d.generation /\ q.socket = d.socket /\ q.handshake = d.handshake
        /\ q.requests = d.requests /\ q.sockets = d.sockets /\ q.early = d.early
        /\ q.grid = d.grid /\ q.sent = d.sent /\ q.retry = d.retry /\ q.detach = d.detach
        /\ q.manuallyDetached = d.manuallyDetached
    <3>1. CASE answer = "failed"
      <4>1. q = SetState(d, "error")
        BY <2>1, <3>1
      <4>2. q \in WidePages
        BY <2>2, <4>1, StateType
      <4>3. q.credential = FALSE
        BY <2>2, <4>1 DEF SetState, WidePages
      <4>. QED
        BY <2>2, <4>1, <4>2, <4>3 DEF SetState, WidePages
    <3>2. CASE answer # "failed"
      <4>. DEFINE c == answer = "busy_token"
      <4>1. q = SetLimited(d, c)
        BY <2>1, <3>2
      <4>2. c \in BOOLEAN
        OBVIOUS
      <4>. HIDE DEF c
      <4>3. q \in WidePages
        BY <2>2, <4>1, <4>2, StateType
      <4>. QED
        BY <2>2, <4>1, <4>3 DEF SetLimited, WidePages
    <3>. QED
      BY <3>1, <3>2
  <2>5. ~Asked(q)
    BY <1>7, <2>3, <2>4 DEF Asked
  <2>6. \A g \in Generations : Phase(u, g) \in {"connecting", "open"} => g = 1 /\ u.early = "opened"
    BY <1>2, <1>5, Generation DEF PageInv, Numbered, Early, Unheard, Phase
  <2>7. \A g \in Generations : Phase(q, g) \notin {"connecting", "open"}
    BY <2>3, <2>4, <2>6 DEF Phase
  <2>8. Numbered(q)
    BY <1>2, <1>5, <1>8, <2>3, <2>4, <2>5, <2>6, <2>7 DEF Numbered, Unheard, Phase
  <2>9. Early(q)
    <3>1. u.early = "opened" => Phase(u, 1) \in {"connecting", "open", "closed"}
      BY <1>5 DEF PageInv, Early, Begun, Phase
    <3>2. u.early = "discarded" => Phase(u, 1) \in {"closing", "closed"}
      BY <1>5 DEF PageInv, Early, Phase
    <3>. QED
      BY <1>2, <1>5, <2>3, <2>4, <3>1, <3>2, Generation DEF Early, Begun, Phase
  <2>10. Idle(q)
    BY <1>2, <1>5, <1>6, <2>3, <2>4, <2>5, <2>8, <2>9 DEF Idle
  <2>11. PageInv(q)
    BY <1>2, <1>5, <2>3, <2>4, <2>10, RestInv
  <2>12. Quiet(p, q)
    BY <1>2, <1>5, <2>3, <2>4 DEF Quiet, Unheard, Phase
  <2>. QED
    BY <2>4, <2>11, <2>12
<1>. QED
  BY <1>12, <1>13, <1>14

\* Two calls that send nothing, one after the other
LEMMA QuietTransitive ==
    ASSUME NEW p, NEW u, NEW q, Quiet(p, u), Quiet(u, q),
           \A g \in Generations : Phase(u, g) # "connecting" \/ Phase(u, g) = Phase(p, g)
                                    \/ Phase(q, g) = "connecting",
           u.socket # 0 => u.socket \in Generations /\ Phase(u, u.socket) # "connecting"
    PROVE  Quiet(p, q)
BY DEF Quiet

\* detachAndConnect may connect from both of its answers
LEMMA ConnectWithFacts ==
    ASSUME NEW p \in WidePages, PageInv(p), p.detach \in {"session", "post"},
           NEW session \in BOOLEAN, session => p.generation < MaxGeneration,
           NEW q, q = ConnectWith(p, session)
    PROVE  q \in WidePages /\ Quiet(p, q) /\ PageInv(q)
<1>. DEFINE b == BeginConnection(p, FALSE)
            r == [generation |-> b.generation, auto |-> FALSE]
            waits == r \in b.requests
            u == [b EXCEPT !.requests = @ \ {r}, !.detach = "none"]
            v == [b EXCEPT !.detach = IF waits THEN "connect" ELSE "none"]
<1>1. q = IF session /\ waits THEN OpenAttachment(u, b.generation, FALSE) ELSE v
  BY DEF ConnectWith
<1>2. /\ p.state = "limited" /\ ~p.suspended /\ ~Asked(p) /\ ~Begun(p) /\ p.socket = 0
      /\ ~p.retry /\ ~p.manuallyDetached
  BY DEF PageInv, Shown, Early, Attached
<1>3. Numbered(p) /\ Early(p)
  BY DEF PageInv
<1>4. b \in WidePages
  BY BeginType
<1>5. CASE p.online
  <2>1. Fresh(p, b, r)
    BY <1>2, <1>3, <1>5, BeginFacts
  <2>. HIDE DEF b
  <2>2. waits
    BY <2>1 DEF Fresh
  <2>3. CASE session
    <3>1. q = OpenAttachment(u, b.generation, FALSE)
      BY <1>1, <2>2, <2>3
    <3>2. /\ u.state = b.state /\ u.generation = b.generation /\ u.socket = b.socket
          /\ u.handshake = b.handshake /\ u.requests = b.requests \ {r} /\ u.sockets = b.sockets
          /\ u.early = b.early /\ u.online = b.online /\ u.detach = "none"
          /\ u.suspended = b.suspended /\ u.grid = b.grid /\ u.sent = b.sent
          /\ u.retry = b.retry /\ u.manuallyDetached = b.manuallyDetached
          /\ u.credential = b.credential
      BY <1>4 DEF WidePages
    <3>3. u \in WidePages
      BY <1>4 DEF WidePages
    <3>. HIDE DEF u
    <3>4. ~Asked(u)
      BY <2>1, <3>2 DEF Fresh, Numbered, Asked
    <3>5. Numbered(u)
      BY <2>1, <3>2, <3>4 DEF Fresh, Numbered, Unheard, Phase
    <3>6. Early(u) /\ ~Begun(u)
      BY <2>1, <3>2 DEF Fresh, Early, Begun, Phase
    <3>7. Idle(u)
      BY <2>1, <3>2, <3>4, <3>5, <3>6 DEF Fresh, Idle
    <3>8. u.generation \in Generations /\ Phase(u, u.generation) = "none"
      <4>1. p.generation \in Nat /\ p.generation < MaxGeneration
        BY <2>3 DEF WidePages
      <4>2. u.generation = p.generation + 1
        BY <2>1, <3>2 DEF Fresh
      <4>3. u.generation \in Generations
        BY <4>1, <4>2, Generation
      <4>. QED
        BY <2>1, <3>2, <4>3 DEF Fresh, Phase
    <3>9. q \in WidePages /\ Quiet(u, q) /\ PageInv(q)
      BY <1>2, <1>5, <2>1, <3>1, <3>2, <3>3, <3>6, <3>7, <3>8, OpenFacts DEF Fresh
    <3>10. Quiet(p, q)
      <4>1. Quiet(p, b) /\ b.socket = 0 /\ \A g \in Generations : Phase(b, g) \notin {"connecting", "open"}
        BY <1>2, <2>1, Generation DEF Fresh, Numbered, Unheard, Early, Phase, Begun
      <4>2. Quiet(p, u) /\ u.socket = 0 /\ \A g \in Generations : Phase(u, g) \notin {"connecting", "open"}
        BY <3>2, <4>1 DEF Quiet, Unheard, Phase
      <4>. QED
        BY <3>9, <4>2, QuietTransitive
    <3>. QED
      BY <3>9, <3>10
  <2>4. CASE ~session
    <3>1. q = [b EXCEPT !.detach = "connect"]
      BY <1>1, <2>2, <2>4
    <3>2. /\ q.state = b.state /\ q.generation = b.generation /\ q.socket = b.socket
          /\ q.handshake = b.handshake /\ q.requests = b.requests /\ q.sockets = b.sockets
          /\ q.early = b.early /\ q.online = b.online /\ q.detach = "connect"
          /\ q.suspended = b.suspended /\ q.grid = b.grid /\ q.sent = b.sent
          /\ q.retry = b.retry /\ q.manuallyDetached = b.manuallyDetached
          /\ q.credential = b.credential
      BY <1>4, <3>1 DEF WidePages
    <3>3. q \in WidePages
      BY <1>4, <3>1 DEF WidePages
    <3>4. Asked(q)
      BY <2>1, <3>2 DEF Fresh, Asked
    <3>5. Numbered(q) /\ Early(q) /\ Quiet(p, q)
      BY <2>1, <3>2 DEF Fresh, Numbered, Early, Quiet, Asked, Begun, Unheard, Phase
    <3>6. Attached(q) /\ Shown(q)
      BY <1>2, <1>5, <2>1, <3>2, <3>4 DEF Fresh, Attached, Shown
    <3>. QED
      BY <3>3, <3>5, <3>6 DEF PageInv
  <2>. QED
    BY <2>3, <2>4
<1>6. CASE ~p.online
  <2>1. /\ b \in WidePages /\ Quiet(p, b) /\ Numbered(b) /\ Early(b)
        /\ b.state = "offline" /\ b.socket = p.socket /\ b.requests = p.requests
        /\ b.generation = p.generation /\ b.detach = p.detach /\ ~b.online /\ ~b.suspended
        /\ b.early = p.early /\ ~b.retry /\ ~b.manuallyDetached /\ ~b.credential
    BY <1>2, <1>3, <1>6, BeginOffline
  <2>. HIDE DEF b
  <2>2. ~waits
    BY <1>2, <2>1 DEF Asked
  <2>3. q = [b EXCEPT !.detach = "none"]
    BY <1>1, <2>2
  <2>4. /\ q.state = b.state /\ q.generation = b.generation /\ q.socket = b.socket
        /\ q.handshake = b.handshake /\ q.requests = b.requests /\ q.sockets = b.sockets
        /\ q.early = b.early /\ q.online = b.online /\ q.detach = "none"
        /\ q.suspended = b.suspended /\ q.grid = b.grid /\ q.sent = b.sent
        /\ q.retry = b.retry /\ q.manuallyDetached = b.manuallyDetached
        /\ q.credential = b.credential
    BY <1>4, <2>3 DEF WidePages
  <2>5. q \in WidePages
    BY <1>4, <2>3 DEF WidePages
  <2>6. Numbered(q) /\ Early(q) /\ Quiet(p, q) /\ ~Asked(q)
    BY <1>2, <2>1, <2>4 DEF Numbered, Early, Quiet, Asked, Begun, Unheard, Phase
  <2>7. Idle(q)
    BY <1>2, <2>1, <2>4, <2>6 DEF Idle
  <2>. QED
    BY <2>1, <2>4, <2>5, <2>6, <2>7, OfflineInv
<1>. QED
  BY <1>5, <1>6

\* A page that begins an attempt, waits for no take-over and is not hidden
LEMMA BeginInv ==
    ASSUME NEW p \in WidePages, Numbered(p), Early(p), ~p.suspended, p.detach = "none",
           NEW a \in BOOLEAN, a => ~p.manuallyDetached,
           ~p.online => p.socket = 0 /\ ~Asked(p),
           NEW q, q = BeginConnection(p, a)
    PROVE  q \in WidePages /\ Quiet(p, q) /\ PageInv(q)
<1>1. CASE p.online
  <2>1. Fresh(p, q, [generation |-> q.generation, auto |-> a])
    BY <1>1, BeginFacts
  <2>. QED
    BY <1>1, <2>1, FreshInv DEF Fresh
<1>2. CASE ~p.online
  <2>1. /\ q \in WidePages /\ Quiet(p, q) /\ Numbered(q) /\ Early(q)
        /\ q.state = "offline" /\ q.socket = p.socket /\ q.requests = p.requests
        /\ q.generation = p.generation /\ q.detach = p.detach /\ ~q.online /\ ~q.suspended
        /\ ~q.retry /\ ~q.manuallyDetached /\ ~q.credential
    BY <1>2, BeginOffline
  <2>2. Idle(q)
    BY <1>2, <2>1 DEF Idle, Asked
  <2>. QED
    BY <2>1, <2>2, OfflineInv
<1>. QED
  BY <1>1, <1>2

\* A page between two handlers
LEMMA PagesWide ==
    ASSUME page \in Pages
    PROVE  /\ page \in WidePages
           /\ \A r \in page.requests : r.generation \in Generations
           /\ page.generation \in Nat
<1>1. Generations \subseteq Nat /\ 0..MaxGeneration \subseteq Nat
  BY Generation
<1>2. [generation : Generations, auto : BOOLEAN] \subseteq [generation : Nat, auto : BOOLEAN]
  BY <1>1
<1>. QED
  BY <1>1, <1>2 DEF Pages, WidePages

-----------------------------------------------------------------------------
(* The handlers that send nothing *)

\* What a handler that sends nothing makes of the page
Good(p, q) == q \in WidePages /\ Quiet(p, q) /\ PageInv(q)

\* A session answer, current or late
LEMMA AnsweredFacts ==
    ASSUME NEW p \in WidePages, PageInv(p), NEW r \in p.requests,
           r.generation \in Generations, NEW answer \in Answers,
           answer = "ok" => p.early # "opened", p.early # "asked"
    PROVE  Good(p, Answered(p, r, answer))
<1>1. CASE r.generation = p.generation
  BY <1>1, TakenFacts DEF Answered, Good
<1>2. CASE r.generation # p.generation
  <2>. DEFINE q == [p EXCEPT !.requests = @ \ {r}]
  <2>1. q \in WidePages
    BY DEF WidePages
  <2>2. /\ q.state = p.state /\ q.generation = p.generation /\ q.socket = p.socket
        /\ q.handshake = p.handshake /\ q.requests = p.requests \ {r} /\ q.sockets = p.sockets
        /\ q.early = p.early /\ q.online = p.online /\ q.detach = p.detach
        /\ q.suspended = p.suspended /\ q.grid = p.grid /\ q.sent = p.sent
        /\ q.retry = p.retry /\ q.manuallyDetached = p.manuallyDetached
        /\ q.credential = p.credential
    BY DEF WidePages
  <2>. HIDE DEF q
  <2>3. Asked(q) <=> Asked(p)
    BY <1>2, <2>2 DEF Asked
  <2>4. Begun(p) => r.generation = p.generation
    BY DEF PageInv, Early
  <2>5. Numbered(q)
    BY <2>2, <2>3 DEF PageInv, Numbered, Unheard, Phase
  <2>6. Early(q)
    BY <1>2, <2>2, <2>4 DEF PageInv, Early, Begun, Phase
  <2>7. Attached(q)
    BY <2>2 DEF PageInv, Attached
  <2>8. Shown(q)
    BY <2>2, <2>3 DEF PageInv, Shown, Phase
  <2>9. Quiet(p, q)
    BY <2>2 DEF Quiet, Unheard, Phase
  <2>10. Answered(p, r, answer) = q
    BY <1>2 DEF Answered, q
  <2>. QED
    BY <2>1, <2>5, <2>6, <2>7, <2>8, <2>9, <2>10 DEF Good, PageInv
<1>. QED
  BY <1>1, <1>2

\* The handlers that send nothing, one by one
LEMMA SessionAnsweredGood ==
    ASSUME page \in Pages, PageInv(page), SessionAnswered
    PROVE  Good(page, page')
BY PagesWide, AnsweredFacts DEF SessionAnswered, Begun

\* The early socket opens under the current attempt
LEMMA EarlyBeginsGood ==
    ASSUME page \in Pages, PageInv(page), EarlySocketBegins
    PROVE  Good(page, page')
<1>. DEFINE p == page
            q == page'
<1>1. p \in WidePages /\ p.early = "asked"
      /\ q = [p EXCEPT !.early = "opened", !.sockets[1].phase = "connecting"]
  BY PagesWide DEF EarlySocketBegins
<1>2. q \in WidePages
  <2>1. [p.sockets[1] EXCEPT !.phase = "connecting"] \in Sockets
    BY <1>1, Generation DEF WidePages, Sockets
  <2>. QED
    BY <1>1, <2>1, Generation DEF WidePages
<1>3. /\ q.state = p.state /\ q.generation = p.generation /\ q.socket = p.socket
      /\ q.handshake = p.handshake /\ q.requests = p.requests
      /\ q.early = "opened" /\ q.online = p.online /\ q.detach = p.detach
      /\ q.suspended = p.suspended /\ q.grid = p.grid /\ q.sent = p.sent
      /\ q.retry = p.retry /\ q.manuallyDetached = p.manuallyDetached
      /\ q.credential = p.credential
  BY <1>1 DEF WidePages
<1>4. /\ \A g \in Generations : g # 1 => q.sockets[g] = p.sockets[g]
      /\ Phase(q, 1) = "connecting" /\ q.sockets[1].ready = p.sockets[1].ready
  BY <1>1, Generation DEF WidePages, Sockets, Phase
<1>5. /\ Asked(p) /\ p.socket = 0 /\ Phase(p, 1) = "none"
      /\ p.generation = 1 /\ p.detach = "none"
  BY <1>1, BegunAsked DEF PageInv, Early, Begun
<1>. HIDE DEF p, q
<1>6. PageInv(p) /\ Asked(q)
  BY <1>3, <1>5 DEF p, Asked
<1>7. Numbered(q)
  BY <1>3, <1>4, <1>5, <1>6, Generation DEF PageInv, Numbered, Unheard, Phase
<1>8. Early(q)
  BY <1>1, <1>3, <1>4, <1>5, <1>6 DEF PageInv, Early, Begun, Phase
<1>9. Attached(q) /\ Shown(q)
  BY <1>3, <1>5, <1>6 DEF PageInv, Attached, Shown
<1>10. Quiet(p, q)
  BY <1>3, <1>4, <1>5 DEF Quiet, Unheard, Phase
<1>11. Good(p, q)
  BY <1>2, <1>7, <1>8, <1>9, <1>10 DEF Good, PageInv
<1>. QED
  BY <1>11 DEF p, q

\* A refused early request ends what was begun
LEMMA EarlyRefusedGood ==
    ASSUME page \in Pages, PageInv(page), EarlyAnswerRefused
    PROVE  Good(page, page')
<1>. DEFINE p == [page EXCEPT !.early = IF @ = "asked" THEN "none" ELSE @]
<1>1. PICK r \in page.requests,
           answer \in IF page.early = "asked" THEN Answers \ {"ok"} ELSE {"failed"} :
          page' = Answered(p, r, answer)
  BY DEF EarlyAnswerRefused
<1>2. /\ p.state = page.state /\ p.generation = page.generation /\ p.socket = page.socket
      /\ p.handshake = page.handshake /\ p.requests = page.requests
      /\ p.online = page.online /\ p.detach = page.detach
      /\ p.suspended = page.suspended /\ p.grid = page.grid /\ p.sent = page.sent
      /\ p.retry = page.retry /\ p.manuallyDetached = page.manuallyDetached
      /\ p.credential = page.credential /\ p.sockets = page.sockets
      /\ p.early = IF page.early = "asked" THEN "none" ELSE page.early
  BY PagesWide DEF WidePages
<1>3. p \in WidePages
  BY PagesWide DEF WidePages
<1>4. answer \in Answers /\ answer # "ok" /\ p.early # "asked" /\ r \in p.requests
  BY <1>1, <1>2 DEF Answers
<1>. HIDE DEF p
<1>5. PageInv(p)
  <2>1. Asked(p) <=> Asked(page)
    BY <1>2 DEF Asked
  <2>2. Numbered(p)
    BY <1>2, <2>1 DEF PageInv, Numbered, Unheard, Phase
  <2>3. Early(p)
    BY <1>2 DEF PageInv, Early, Begun, Phase
  <2>4. Attached(p)
    BY <1>2 DEF PageInv, Attached
  <2>5. Shown(p)
    BY <1>2, <2>1 DEF PageInv, Shown, Phase
  <2>. QED
    BY <2>2, <2>3, <2>4, <2>5 DEF PageInv
<1>6. Good(p, page')
  BY <1>1, <1>3, <1>4, <1>5, PagesWide, AnsweredFacts
<1>. QED
  BY <1>2, <1>6 DEF Good, Quiet, Unheard, Phase

\* A page without an attempt: what its state may be
LEMMA IdleInv ==
    ASSUME NEW p, Idle(p), ~p.retry, p.manuallyDetached <=> p.state = "detached",
           p.credential => p.state = "limited",
           p.state \in Waiting \cup {"ready"} => p.suspended,
           p.state = "offline" => ~p.online \/ p.suspended
    PROVE  PageInv(p)
BY DEF Idle, PageInv, Attached, Shown

\* A failed take-over leaves the page where it was
LEMMA LimitedGood ==
    ASSUME NEW p \in WidePages, PageInv(p), p.detach \in {"session", "post"}, NEW c \in BOOLEAN
    PROVE  Good(p, SetLimited([p EXCEPT !.detach = "none"], c))
<1>. DEFINE u == [p EXCEPT !.detach = "none"]
            q == SetLimited(u, c)
<1>1. u \in WidePages
  BY DEF WidePages
<1>2. q \in WidePages
  BY <1>1, StateType
<1>3. /\ q.generation = p.generation /\ q.socket = p.socket /\ q.handshake = p.handshake
      /\ q.requests = p.requests /\ q.sockets = p.sockets /\ q.early = p.early
      /\ q.online = p.online /\ q.suspended = p.suspended /\ q.grid = p.grid
      /\ q.sent = p.sent /\ q.retry = p.retry /\ q.manuallyDetached = p.manuallyDetached
  BY DEF SetLimited, WidePages
<1>4. q.state = "limited" /\ q.detach = "none"
  BY DEF SetLimited, WidePages
<1>. HIDE DEF q
<1>5. p.socket = 0 /\ ~Asked(p) /\ ~p.retry /\ ~p.manuallyDetached
  BY DEF PageInv, Attached, Shown
<1>6. Idle(q)
  BY <1>3, <1>4, <1>5 DEF PageInv, Idle, Numbered, Early, Asked, Begun, Unheard, Phase
<1>7. PageInv(q)
  BY <1>3, <1>4, <1>5, <1>6, RestInv
<1>8. Quiet(p, q)
  BY <1>3, <1>4 DEF Quiet, Unheard, Phase
<1>. QED
  BY <1>2, <1>7, <1>8 DEF Good, q

\* The session answer of a take-over
LEMMA DetachSessionGood ==
    ASSUME page \in Pages, PageInv(page), DetachSessionAnswered
    PROVE  Good(page, page')
<1>1. /\ page \in WidePages /\ page.detach = "session" /\ page.generation < MaxGeneration
      /\ page' \in {ConnectWith(page, TRUE), [page EXCEPT !.detach = "post"],
                    SetLimited([page EXCEPT !.detach = "none"], FALSE),
                    SetLimited([page EXCEPT !.detach = "none"], TRUE)}
  BY PagesWide DEF DetachSessionAnswered
<1>2. CASE page' = ConnectWith(page, TRUE)
  BY <1>1, <1>2, ConnectWithFacts DEF Good
<1>3. CASE page' = [page EXCEPT !.detach = "post"]
  <2>. DEFINE p == page
              q == page'
  <2>1. /\ q.state = p.state /\ q.generation = p.generation /\ q.socket = p.socket
        /\ q.handshake = p.handshake /\ q.requests = p.requests /\ q.sockets = p.sockets
        /\ q.early = p.early /\ q.online = p.online /\ q.suspended = p.suspended
        /\ q.grid = p.grid /\ q.sent = p.sent /\ q.retry = p.retry
        /\ q.manuallyDetached = p.manuallyDetached /\ q.credential = p.credential
    BY <1>1, <1>3 DEF WidePages
  <2>2. q.detach = "post" /\ q \in WidePages
    BY <1>1, <1>3 DEF WidePages
  <2>3. PageInv(p) /\ p.detach = "session"
    BY <1>1
  <2>. HIDE DEF p, q
  <2>4. Asked(q) <=> Asked(p)
    BY <2>1 DEF Asked
  <2>5. ~Asked(p)
    BY <2>3 DEF PageInv, Shown
  <2>6. Numbered(q) /\ Early(q)
    BY <2>1, <2>3, <2>4 DEF PageInv, Numbered, Early, Begun, Unheard, Phase
  <2>7. Attached(q)
    BY <2>1, <2>3 DEF PageInv, Attached
  <2>8. Shown(q)
    BY <2>1, <2>2, <2>3, <2>4, <2>5 DEF PageInv, Shown, Phase
  <2>9. Quiet(p, q)
    BY <2>1 DEF Quiet, Unheard, Phase
  <2>10. Good(p, q)
    BY <2>2, <2>6, <2>7, <2>8, <2>9 DEF Good, PageInv
  <2>. QED
    BY <2>10 DEF p, q
<1>. QED
  BY <1>1, <1>2, <1>3, LimitedGood

\* The detach answer of a take-over
LEMMA DetachPostGood ==
    ASSUME page \in Pages, PageInv(page), DetachPostAnswered
    PROVE  Good(page, page')
<1>1. /\ page \in WidePages /\ page.detach = "post"
      /\ page' \in {ConnectWith(page, FALSE),
                    SetLimited([page EXCEPT !.detach = "none"], TRUE)}
  BY PagesWide DEF DetachPostAnswered
<1>2. CASE page' = ConnectWith(page, FALSE)
  BY <1>1, <1>2, ConnectWithFacts DEF Good
<1>. QED
  BY <1>1, <1>2, LimitedGood

\* A reconnect begins a new attempt
LEMMA RetryGood ==
    ASSUME page \in Pages, PageInv(page), RetryFires \/ BecomesVisible
    PROVE  Good(page, page')
<1>. DEFINE p == [page EXCEPT !.retry = FALSE]
<1>1. page.retry /\ page \in WidePages
  BY PagesWide DEF RetryFires, BecomesVisible
<1>2. /\ page.online /\ ~page.suspended /\ page.detach = "none" /\ ~page.manuallyDetached
  <2>1. page.detach \in {"none", "session", "post", "connect"}
    BY <1>1 DEF WidePages
  <2>. QED
    BY <1>1, <2>1 DEF PageInv, Shown
<1>3. CASE RetryFires
  <2>1. page' = BeginConnection(p, TRUE)
    BY <1>3 DEF RetryFires
  <2>2. /\ p.state = page.state /\ p.generation = page.generation /\ p.socket = page.socket
        /\ p.handshake = page.handshake /\ p.requests = page.requests /\ p.sockets = page.sockets
        /\ p.early = page.early /\ p.online = page.online /\ p.detach = page.detach
        /\ p.suspended = page.suspended /\ p.grid = page.grid /\ p.sent = page.sent
        /\ p.manuallyDetached = page.manuallyDetached /\ p.credential = page.credential
    BY <1>1 DEF WidePages
  <2>3. p \in WidePages
    BY <1>1 DEF WidePages
  <2>. HIDE DEF p
  <2>4. Numbered(p) /\ Early(p)
    BY <2>2 DEF PageInv, Numbered, Early, Asked, Begun, Unheard, Phase
  <2>5. page' \in WidePages /\ Quiet(p, page') /\ PageInv(page')
    BY <1>2, <2>1, <2>2, <2>3, <2>4, BeginInv
  <2>. QED
    BY <2>2, <2>5 DEF Good, Quiet, Unheard, Phase
<1>4. CASE BecomesVisible
  BY <1>1, <1>2, <1>4, BeginInv DEF Good, PageInv, BecomesVisible
<1>. QED
  BY <1>3, <1>4

\* A handshake that lasts too long is given up
LEMMA HandshakeGood ==
    ASSUME page \in Pages, PageInv(page), HandshakeFires
    PROVE  Good(page, page')
<1>. DEFINE p == [page EXCEPT !.handshake = 0]
            g == page.handshake
<1>1. /\ page \in WidePages /\ g # 0 /\ page' = HandshakeTimesOut(page)
  BY PagesWide DEF HandshakeFires
<1>2. g = page.socket /\ g = page.generation /\ g \in Generations
  BY <1>1, Generation DEF PageInv, Numbered, WidePages
<1>3. /\ p.state = page.state /\ p.generation = page.generation /\ p.socket = page.socket
      /\ p.requests = page.requests /\ p.sockets = page.sockets /\ p.early = page.early
      /\ p.online = page.online /\ p.detach = page.detach /\ p.suspended = page.suspended
      /\ p.grid = page.grid /\ p.sent = page.sent /\ p.retry = page.retry
      /\ p.manuallyDetached = page.manuallyDetached /\ p.credential = page.credential
  BY <1>1 DEF WidePages
<1>4. p \in WidePages /\ p.handshake = 0
  BY <1>1, Generation DEF WidePages
<1>5. page' = IF page.sockets[g].final = "none" THEN FailAndReconnect(p) ELSE p
  BY <1>1, <1>2 DEF HandshakeTimesOut, Current
<1>. HIDE DEF p
<1>6. Numbered(p) /\ Early(p)
  BY <1>3, <1>4 DEF PageInv, Numbered, Early, Asked, Begun, Unheard, Phase
<1>7. Quiet(page, p)
  BY <1>3 DEF Quiet, Unheard, Phase
<1>8. /\ page.online /\ ~page.suspended /\ page.detach = "none"
  BY <1>1, <1>2 DEF PageInv, Attached
<1>9. CASE page.sockets[g].final = "none"
  <2>. DEFINE s == StopCurrentTransport(p)
  <2>1. page' = ScheduleReconnect(s, FALSE)
    BY <1>5, <1>9 DEF FailAndReconnect
  <2>2. ~page.manuallyDetached
    BY <1>1, <1>2, <1>9 DEF PageInv, Attached, Shown, Waiting
  <2>3. /\ s \in WidePages /\ Quiet(p, s) /\ Numbered(s) /\ Early(s)
        /\ ~Asked(s) /\ \A h \in Generations : Phase(s, h) \notin {"connecting", "open"}
    BY <1>4, <1>6, StopFacts
  <2>4. /\ s.socket = 0 /\ s.detach = p.detach /\ s.suspended = p.suspended
        /\ s.manuallyDetached = p.manuallyDetached
    BY <1>4, StopFields
  <2>. HIDE DEF s
  <2>5. page' \in WidePages /\ Quiet(s, page') /\ PageInv(page')
    BY <1>3, <1>8, <2>1, <2>2, <2>3, <2>4, ScheduleFacts DEF Idle
  <2>6. Quiet(page, s)
    BY <1>3, <2>3 DEF Quiet, Unheard, Phase
  <2>7. Quiet(page, page')
    BY <2>3, <2>4, <2>5, <2>6, QuietTransitive
  <2>. QED
    BY <2>5, <2>7 DEF Good
<1>10. CASE page.sockets[g].final # "none"
  <2>1. Asked(p) <=> Asked(page)
    BY <1>3 DEF Asked
  <2>2. Attached(p)
    BY <1>2, <1>3, <1>10 DEF PageInv, Attached
  <2>3. Shown(p)
    BY <1>3, <2>1 DEF PageInv, Shown, Phase
  <2>. QED
    BY <1>4, <1>5, <1>6, <1>7, <1>10, <2>2, <2>3 DEF Good, PageInv
<1>. QED
  BY <1>9, <1>10

\* The connection button
LEMMA ClickActionGood ==
    ASSUME page \in Pages, PageInv(page), ClickAction
    PROVE  Good(page, page')
<1>1. /\ page \in WidePages /\ ~page.suspended /\ page.detach = "none"
      /\ page' = BeginConnection(page, FALSE)
  BY PagesWide DEF ClickAction, ButtonsEnabled
<1>2. ~page.online => page.socket = 0 /\ ~Asked(page)
  BY DEF PageInv, Attached, Shown
<1>. QED
  BY <1>1, <1>2, BeginInv DEF PageInv, Good

\* The take-over button
LEMMA ClickDetachGood ==
    ASSUME page \in Pages, PageInv(page), ClickDetach
    PROVE  Good(page, page')
<1>. DEFINE p == page
            q == page'
<1>1. /\ p \in WidePages /\ p.state = "limited" /\ p.credential
      /\ ~p.suspended /\ p.detach = "none" /\ q = [p EXCEPT !.detach = "session"]
  BY PagesWide DEF ClickDetach, ButtonsEnabled, DetachShown
<1>2. /\ q.state = p.state /\ q.generation = p.generation /\ q.socket = p.socket
      /\ q.handshake = p.handshake /\ q.requests = p.requests /\ q.sockets = p.sockets
      /\ q.early = p.early /\ q.online = p.online /\ q.suspended = p.suspended
      /\ q.grid = p.grid /\ q.sent = p.sent /\ q.retry = p.retry
      /\ q.manuallyDetached = p.manuallyDetached /\ q.credential = p.credential
  BY <1>1 DEF WidePages
<1>3. q.detach = "session" /\ q \in WidePages
  BY <1>1 DEF WidePages
<1>4. PageInv(p)
  OBVIOUS
<1>. HIDE DEF p, q
<1>5. p.socket = 0 /\ ~Asked(p) /\ ~Begun(p)
  BY <1>1, <1>4, BegunAsked DEF PageInv, Attached, Shown
<1>6. ~Asked(q)
  BY <1>2, <1>5 DEF Asked
<1>7. Numbered(q) /\ Early(q)
  BY <1>2, <1>4, <1>5, <1>6 DEF PageInv, Numbered, Early, Begun, Unheard, Phase
<1>8. Attached(q) /\ Shown(q)
  BY <1>1, <1>2, <1>3, <1>4, <1>5, <1>6 DEF PageInv, Attached, Shown, Phase
<1>9. Quiet(p, q)
  BY <1>2 DEF Quiet, Unheard, Phase
<1>10. Good(p, q)
  BY <1>3, <1>7, <1>8, <1>9 DEF Good, PageInv
<1>. QED
  BY <1>10 DEF p, q

\* Stopping an attempt and whatever detachAndConnect awaits, as the page is
\* hidden or its network goes
LEMMA AbortedInv ==
    ASSUME NEW p \in WidePages, Numbered(p), Early(p), p.socket = 0, ~Asked(p), ~Begun(p), ~p.retry,
           p.manuallyDetached <=> p.state = "detached",
           p.detach = "session" => ~p.manuallyDetached,
           p.credential => p.state = "limited",
           p.state \in Waiting \cup {"ready"} => p.suspended,
           p.state = "offline" => ~p.online \/ p.suspended,
           NEW q \in Aborted(p)
    PROVE  q \in WidePages /\ Quiet(p, q) /\ PageInv(q)
<1>. DEFINE e == [p EXCEPT !.detach = "none"]
<1>1. \/ q = e
      \/ p.detach = "session" /\ \E c \in BOOLEAN : q = SetLimited(e, c)
  BY DEF Aborted
<1>2. /\ e.state = p.state /\ e.generation = p.generation /\ e.socket = p.socket
      /\ e.handshake = p.handshake /\ e.requests = p.requests /\ e.sockets = p.sockets
      /\ e.early = p.early /\ e.online = p.online /\ e.suspended = p.suspended
      /\ e.grid = p.grid /\ e.sent = p.sent /\ e.retry = p.retry
      /\ e.manuallyDetached = p.manuallyDetached /\ e.credential = p.credential
  BY DEF WidePages
<1>3. e \in WidePages /\ e.detach = "none"
  BY DEF WidePages
<1>. HIDE DEF e
<1>4. Idle(e) /\ Quiet(p, e)
  BY <1>2, <1>3 DEF Idle, Numbered, Early, Asked, Begun, Quiet, Unheard, Phase
<1>5. CASE q = e
  <2>1. PageInv(e)
    BY <1>2, <1>4, IdleInv
  <2>. QED
    BY <1>3, <1>4, <1>5, <2>1
<1>6. CASE p.detach = "session" /\ \E c \in BOOLEAN : q = SetLimited(e, c)
  <2>1. PICK c \in BOOLEAN : q = SetLimited(e, c)
    BY <1>6
  <2>2. q \in WidePages
    BY <1>3, <2>1, StateType
  <2>3. /\ q.generation = e.generation /\ q.socket = e.socket /\ q.handshake = e.handshake
        /\ q.requests = e.requests /\ q.sockets = e.sockets /\ q.early = e.early
        /\ q.online = e.online /\ q.detach = e.detach /\ q.suspended = e.suspended
        /\ q.grid = e.grid /\ q.sent = e.sent /\ q.retry = e.retry
        /\ q.manuallyDetached = e.manuallyDetached
    BY <1>3, <2>1 DEF SetLimited, WidePages
  <2>4. q.state = "limited"
    BY <1>3, <2>1 DEF SetLimited, WidePages
  <2>5. Idle(q) /\ Quiet(p, q)
    BY <1>2, <1>4, <2>3, <2>4 DEF Idle, Numbered, Early, Asked, Begun, Quiet, Unheard, Phase
  <2>6. PageInv(q)
    BY <1>2, <1>6, <2>3, <2>4, <2>5, IdleInv, RestInv
  <2>. QED
    BY <2>2, <2>5, <2>6
<1>. QED
  BY <1>1, <1>5, <1>6

\* Nothing of an attempt is left while the page is hidden or without a network
LEMMA Dormant ==
    ASSUME NEW p \in WidePages, PageInv(p), p.suspended \/ ~p.online
    PROVE  /\ p.socket = 0 /\ ~Asked(p) /\ ~Begun(p) /\ ~p.retry
           /\ p.detach # "connect" /\ (p.suspended => p.detach = "none")
<1>1. p.detach \in {"none", "session", "post", "connect"}
  BY DEF WidePages
<1>. QED
  BY <1>1, BegunAsked DEF PageInv, Attached, Shown

\* The network goes
LEMMA OfflineGood ==
    ASSUME page \in Pages, PageInv(page), GoOffline
    PROVE  Good(page, page')
<1>. DEFINE p == [page EXCEPT !.online = FALSE]
            u == [p EXCEPT !.retry = FALSE]
            q == StopCurrentTransport(u)
            shown == IF q.manuallyDetached THEN q ELSE SetState(q, "offline")
<1>1. page \in WidePages /\ (page' \in Aborted(shown) \/ (page.suspended /\ page' = p))
  BY PagesWide DEF GoOffline
<1>2. /\ p.state = page.state /\ p.generation = page.generation /\ p.socket = page.socket
      /\ p.handshake = page.handshake /\ p.requests = page.requests /\ p.sockets = page.sockets
      /\ p.early = page.early /\ p.detach = page.detach /\ p.suspended = page.suspended
      /\ p.grid = page.grid /\ p.sent = page.sent /\ p.retry = page.retry
      /\ p.manuallyDetached = page.manuallyDetached /\ p.credential = page.credential
  BY <1>1 DEF WidePages
<1>3. p.online = FALSE /\ p \in WidePages
  BY <1>1 DEF WidePages
<1>. HIDE DEF p
<1>4. /\ u.state = p.state /\ u.generation = p.generation /\ u.socket = p.socket
      /\ u.handshake = p.handshake /\ u.requests = p.requests /\ u.sockets = p.sockets
      /\ u.early = p.early /\ u.online = p.online /\ u.detach = p.detach
      /\ u.suspended = p.suspended /\ u.grid = p.grid /\ u.sent = p.sent
      /\ u.manuallyDetached = p.manuallyDetached /\ u.credential = p.credential
  BY <1>3 DEF WidePages
<1>5. u.retry = FALSE /\ u \in WidePages
  BY <1>3 DEF WidePages
<1>. HIDE DEF u
<1>6. CASE page.suspended /\ page' = p
  <2>1. /\ page.socket = 0 /\ ~Asked(page) /\ ~Begun(page) /\ ~page.retry /\ page.detach = "none"
    BY <1>1, <1>6, Dormant
  <2>2. Idle(p) /\ Quiet(page, p)
    BY <1>2, <2>1 DEF PageInv, Idle, Numbered, Early, Asked, Begun, Quiet, Unheard, Phase
  <2>3. PageInv(p)
    BY <1>2, <1>6, <2>1, <2>2, IdleInv DEF PageInv, Shown
  <2>. QED
    BY <1>3, <1>6, <2>2, <2>3 DEF Good
<1>7. CASE page' \in Aborted(shown)
  <2>1. Numbered(u) /\ Early(u) /\ Quiet(page, u)
    BY <1>2, <1>4 DEF PageInv, Numbered, Early, Asked, Begun, Quiet, Unheard, Phase
  <2>2. /\ q \in WidePages /\ Quiet(u, q) /\ Numbered(q) /\ Early(q)
        /\ ~Asked(q) /\ ~Begun(q)
        /\ \A g \in Generations : Phase(q, g) \notin {"connecting", "open"}
    BY <1>5, <2>1, StopFacts
  <2>3. /\ q.state = u.state /\ q.socket = 0 /\ q.retry = u.retry
        /\ q.manuallyDetached = u.manuallyDetached /\ q.credential = u.credential
        /\ q.detach = u.detach /\ q.online = u.online /\ q.suspended = u.suspended
    BY <1>5, StopFields
  <2>. HIDE DEF q
  <2>4. /\ shown.generation = q.generation /\ shown.socket = q.socket /\ shown.handshake = q.handshake
        /\ shown.requests = q.requests /\ shown.sockets = q.sockets /\ shown.early = q.early
        /\ shown.online = q.online /\ shown.detach = q.detach /\ shown.suspended = q.suspended
        /\ shown.grid = q.grid /\ shown.sent = q.sent /\ shown.retry = q.retry
        /\ shown.manuallyDetached = q.manuallyDetached
    BY <2>2 DEF SetState, WidePages
  <2>5. shown.state = IF q.manuallyDetached THEN q.state ELSE "offline"
    BY <2>2 DEF SetState, WidePages
  <2>6. shown.credential = IF q.manuallyDetached THEN q.credential ELSE FALSE
    BY <2>2 DEF SetState, WidePages
  <2>7. shown \in WidePages
    BY <2>2, StateType
  <2>. HIDE DEF shown
  <2>8. Numbered(shown) /\ Early(shown) /\ ~Asked(shown) /\ ~Begun(shown)
    BY <2>2, <2>4 DEF Numbered, Early, Asked, Begun, Unheard, Phase
  <2>9. Quiet(q, shown)
    BY <2>4, <2>5 DEF Quiet, Unheard, Phase
  <2>10. page.manuallyDetached <=> page.state = "detached"
    BY DEF PageInv, Shown
  <2>11. page.detach = "session" => page.state = "limited"
    BY DEF PageInv, Shown
  <2>12. page.credential => page.state = "limited"
    BY DEF PageInv, Shown
  <2>13. shown.state \notin Waiting \cup {"ready"}
    BY <1>2, <1>4, <2>3, <2>5, <2>10 DEF Waiting
  <2>14. page' \in WidePages /\ Quiet(shown, page') /\ PageInv(page')
    <3>1. shown.manuallyDetached <=> shown.state = "detached"
      BY <1>2, <1>4, <2>3, <2>4, <2>5, <2>10
    <3>2. shown.detach = "session" => ~shown.manuallyDetached
      BY <1>2, <1>4, <2>3, <2>4, <2>10, <2>11
    <3>3. shown.credential => shown.state = "limited"
      BY <1>2, <1>4, <2>3, <2>5, <2>6, <2>12
    <3>4. shown.socket = 0 /\ ~shown.retry /\ ~shown.online
      BY <1>2, <1>3, <1>4, <1>5, <2>3, <2>4
    <3>. QED
      BY <1>7, <2>7, <2>8, <2>13, <3>1, <3>2, <3>3, <3>4, AbortedInv
  <2>15. /\ Quiet(page, q)
         /\ \A g \in Generations : Phase(shown, g) \notin {"connecting", "open"}
    BY <1>2, <1>4, <2>2, <2>4 DEF Quiet, Unheard, Phase
  <2>16. Quiet(page, shown)
    BY <2>2, <2>3, <2>9, <2>15, QuietTransitive
  <2>17. Quiet(page, page')
    BY <2>3, <2>4, <2>14, <2>15, <2>16, QuietTransitive
  <2>. QED
    BY <2>14, <2>17 DEF Good
<1>. QED
  BY <1>1, <1>6, <1>7

\* The page is put away
LEMMA PageHideGood ==
    ASSUME page \in Pages, PageInv(page), PageHide
    PROVE  Good(page, page')
<1>. DEFINE u == [page EXCEPT !.suspended = TRUE, !.retry = FALSE]
            q == StopCurrentTransport(u)
<1>1. page \in WidePages /\ page' \in Aborted(q)
  BY PagesWide DEF PageHide
<1>2. /\ u.state = page.state /\ u.generation = page.generation /\ u.socket = page.socket
      /\ u.handshake = page.handshake /\ u.requests = page.requests /\ u.sockets = page.sockets
      /\ u.early = page.early /\ u.online = page.online /\ u.detach = page.detach
      /\ u.grid = page.grid /\ u.sent = page.sent /\ u.manuallyDetached = page.manuallyDetached
      /\ u.credential = page.credential
  BY <1>1 DEF WidePages
<1>3. u.suspended = TRUE /\ u.retry = FALSE /\ u \in WidePages
  BY <1>1 DEF WidePages
<1>. HIDE DEF u
<1>4. Numbered(u) /\ Early(u) /\ Quiet(page, u)
  BY <1>2 DEF PageInv, Numbered, Early, Asked, Begun, Quiet, Unheard, Phase
<1>5. /\ q \in WidePages /\ Quiet(u, q) /\ Numbered(q) /\ Early(q)
      /\ ~Asked(q) /\ ~Begun(q)
      /\ \A g \in Generations : Phase(q, g) \notin {"connecting", "open"}
  BY <1>3, <1>4, StopFacts
<1>6. /\ q.state = u.state /\ q.socket = 0 /\ q.retry = u.retry
      /\ q.manuallyDetached = u.manuallyDetached /\ q.credential = u.credential
      /\ q.detach = u.detach /\ q.online = u.online /\ q.suspended = u.suspended
  BY <1>3, StopFields
<1>. HIDE DEF q
<1>7. page.manuallyDetached <=> page.state = "detached"
  BY DEF PageInv, Shown
<1>8. page.detach = "session" => page.state = "limited"
  BY DEF PageInv, Shown
<1>9. page.credential => page.state = "limited"
  BY DEF PageInv, Shown
<1>10. page' \in WidePages /\ Quiet(q, page') /\ PageInv(page')
  BY <1>1, <1>2, <1>3, <1>5, <1>6, <1>7, <1>8, <1>9, AbortedInv
<1>11. Quiet(page, q)
  BY <1>2, <1>5 DEF Quiet, Unheard, Phase
<1>12. Quiet(page, page')
  BY <1>5, <1>6, <1>10, <1>11, QuietTransitive
<1>. QED
  BY <1>10, <1>12 DEF Good

\* The page comes back
LEMMA PageShowGood ==
    ASSUME page \in Pages, PageInv(page), PageShow
    PROVE  Good(page, page')
<1>. DEFINE p == [page EXCEPT !.suspended = FALSE]
<1>1. /\ page \in WidePages /\ page.suspended
      /\ page' = IF p.manuallyDetached THEN p ELSE BeginConnection(p, TRUE)
  BY PagesWide DEF PageShow
<1>2. /\ p.state = page.state /\ p.generation = page.generation /\ p.socket = page.socket
      /\ p.handshake = page.handshake /\ p.requests = page.requests /\ p.sockets = page.sockets
      /\ p.early = page.early /\ p.online = page.online /\ p.detach = page.detach
      /\ p.grid = page.grid /\ p.sent = page.sent /\ p.retry = page.retry
      /\ p.manuallyDetached = page.manuallyDetached /\ p.credential = page.credential
  BY <1>1 DEF WidePages
<1>3. p.suspended = FALSE /\ p \in WidePages
  BY <1>1 DEF WidePages
<1>. HIDE DEF p
<1>4. page.socket = 0 /\ ~Asked(page) /\ ~Begun(page) /\ ~page.retry /\ page.detach = "none"
  BY <1>1, Dormant
<1>5. Idle(p) /\ Quiet(page, p)
  BY <1>2, <1>4 DEF PageInv, Idle, Numbered, Early, Asked, Begun, Quiet, Unheard, Phase
<1>6. CASE p.manuallyDetached
  <2>1. p.state = "detached" /\ (p.credential => p.state = "limited")
    BY <1>2, <1>6 DEF PageInv, Shown
  <2>2. PageInv(p)
    BY <1>2, <1>4, <1>5, <1>6, <2>1, IdleInv DEF Waiting
  <2>. QED
    BY <1>1, <1>3, <1>5, <1>6, <2>2 DEF Good
<1>7. CASE ~p.manuallyDetached
  <2>1. page' \in WidePages /\ Quiet(p, page') /\ PageInv(page')
    BY <1>1, <1>3, <1>5, <1>7, BeginInv DEF Idle
  <2>. QED
    BY <1>2, <2>1 DEF Good, Quiet, Unheard, Phase
<1>. QED
  BY <1>6, <1>7

\* The network comes back
LEMMA OnlineGood ==
    ASSUME page \in Pages, PageInv(page), GoOnline
    PROVE  Good(page, page')
<1>. DEFINE p == [page EXCEPT !.online = TRUE]
<1>1. page \in WidePages /\ ~page.online /\ page' = WentOnline(p)
  BY PagesWide DEF GoOnline
<1>2. /\ p.state = page.state /\ p.generation = page.generation /\ p.socket = page.socket
      /\ p.handshake = page.handshake /\ p.requests = page.requests /\ p.sockets = page.sockets
      /\ p.early = page.early /\ p.detach = page.detach /\ p.suspended = page.suspended
      /\ p.grid = page.grid /\ p.sent = page.sent /\ p.retry = page.retry
      /\ p.manuallyDetached = page.manuallyDetached /\ p.credential = page.credential
  BY <1>1 DEF WidePages
<1>3. p.online = TRUE /\ p \in WidePages
  BY <1>1 DEF WidePages
<1>. HIDE DEF p
<1>4. page.socket = 0 /\ ~Asked(page) /\ ~Begun(page) /\ ~page.retry
  BY <1>1, Dormant
<1>5. Numbered(p) /\ Early(p) /\ Quiet(page, p) /\ ~Asked(p)
  BY <1>2, <1>4 DEF PageInv, Numbered, Early, Asked, Begun, Quiet, Unheard, Phase
<1>6. CASE ~p.manuallyDetached /\ ~p.suspended /\ p.state # "ready" /\ p.detach = "none"
  <2>1. page' = BeginConnection(p, TRUE)
    BY <1>1, <1>6 DEF WentOnline
  <2>2. page' \in WidePages /\ Quiet(p, page') /\ PageInv(page')
    BY <1>3, <1>5, <1>6, <2>1, BeginInv
  <2>. QED
    BY <1>2, <2>2 DEF Good, Quiet, Unheard, Phase
<1>7. CASE p.manuallyDetached \/ p.suspended \/ p.state = "ready" \/ p.detach # "none"
  <2>1. page' = p
    BY <1>1, <1>7 DEF WentOnline, BeginConnection
  <2>2. Attached(p)
    BY <1>2, <1>4 DEF Attached
  <2>3. Shown(p)
    <3>1. page.detach \in {"none", "session", "post", "connect"}
      BY <1>1 DEF WidePages
    <3>2. p.state = "offline" => p.suspended
      BY <1>2, <1>4, <1>7, <3>1 DEF PageInv, Shown
    <3>3. p.manuallyDetached <=> p.state = "detached"
      BY <1>2 DEF PageInv, Shown
    <3>4. p.detach # "connect" /\ (p.detach \in {"session", "post"} => p.state = "limited" /\ ~p.suspended)
      BY <1>2, <1>4 DEF PageInv, Shown
    <3>5. (p.state \in Waiting \/ p.state = "ready") => p.suspended
      BY <1>2, <1>4 DEF PageInv, Shown
    <3>6. p.credential => p.state = "limited"
      BY <1>2 DEF PageInv, Shown
    <3>. QED
      BY <1>2, <1>4, <1>5, <3>2, <3>3, <3>4, <3>5, <3>6 DEF Shown
  <2>. QED
    BY <1>3, <1>5, <2>1, <2>2, <2>3 DEF Good, PageInv
<1>. QED
  BY <1>6, <1>7

-----------------------------------------------------------------------------

-----------------------------------------------------------------------------
(* The events of a socket *)

\* A terminal has a natural number of columns
LEMMA GridNat == \A p \in WidePages : p.grid \in Nat
<1>1. Widths \subseteq Nat /\ Grids \subseteq Nat
  BY PageAssumption DEF Widths
<1>. QED
  BY <1>1 DEF WidePages

\* sendResize touches the two widths only
LEMMA ResizeFacts ==
    ASSUME NEW p \in WidePages, NEW q, q = SendResize(p)
    PROVE  /\ q \in WidePages
           /\ /\ q.state = p.state /\ q.generation = p.generation /\ q.socket = p.socket
              /\ q.handshake = p.handshake /\ q.requests = p.requests /\ q.sockets = p.sockets
              /\ q.early = p.early /\ q.online = p.online /\ q.detach = p.detach
              /\ q.suspended = p.suspended /\ q.retry = p.retry /\ q.manuallyDetached = p.manuallyDetached
              /\ q.credential = p.credential
           /\ IF p.state = "ready" /\ p.socket # 0 /\ p.sockets[p.socket].phase = "open"
              THEN q.grid = q.sent ELSE q.grid = p.grid /\ q.sent = p.sent
           /\ q.sent # p.sent => q.sent \in Widths
<1>1. p.grid \in Nat
  BY GridNat
<1>2. Clamp(p.grid) \in Widths
  BY <1>1, ClampWidth
<1>3. CASE p.state = "ready" /\ p.socket # 0 /\ p.sockets[p.socket].phase = "open"
  <2>1. q = [p EXCEPT !.grid = Clamp(p.grid), !.sent = Clamp(p.grid)]
    BY <1>3 DEF SendResize, WidePages
  <2>2. q \in WidePages
    BY <1>2, <2>1 DEF WidePages
  <2>3. /\ q.state = p.state /\ q.generation = p.generation /\ q.socket = p.socket
        /\ q.handshake = p.handshake /\ q.requests = p.requests /\ q.sockets = p.sockets
        /\ q.early = p.early /\ q.online = p.online /\ q.detach = p.detach
        /\ q.suspended = p.suspended /\ q.retry = p.retry /\ q.manuallyDetached = p.manuallyDetached
        /\ q.credential = p.credential
    BY <2>1 DEF WidePages
  <2>4. q.grid = q.sent /\ q.sent = Clamp(p.grid)
    BY <2>1 DEF WidePages
  <2>. QED
    BY <1>2, <1>3, <2>2, <2>3, <2>4
<1>4. CASE ~(p.state = "ready" /\ p.socket # 0 /\ p.sockets[p.socket].phase = "open")
  <2>1. q = p
    BY <1>4 DEF SendResize
  <2>. QED
    BY <1>4, <2>1
<1>. QED
  BY <1>3, <1>4

\* The widths are of no concern to PageInv
LEMMA SameInv ==
    ASSUME NEW p, NEW q, PageInv(p),
           /\ q.state = p.state /\ q.generation = p.generation /\ q.socket = p.socket
           /\ q.handshake = p.handshake /\ q.requests = p.requests /\ q.sockets = p.sockets
           /\ q.early = p.early /\ q.online = p.online /\ q.detach = p.detach
           /\ q.suspended = p.suspended /\ q.retry = p.retry /\ q.manuallyDetached = p.manuallyDetached
           /\ q.credential = p.credential
    PROVE  PageInv(q)
BY DEF PageInv, Numbered, Early, Attached, Shown, Asked, Begun, Unheard, Phase

\* What websocket.close leaves alone
LEMMA CloseAllFields ==
    ASSUME NEW p \in WidePages, NEW g \in Generations, NEW q, q = CloseSocket(p, g)
    PROVE  /\ q.state = p.state /\ q.generation = p.generation /\ q.socket = p.socket
           /\ q.handshake = p.handshake /\ q.requests = p.requests /\ q.early = p.early
           /\ q.online = p.online /\ q.detach = p.detach /\ q.suspended = p.suspended
           /\ q.grid = p.grid /\ q.sent = p.sent /\ q.retry = p.retry
           /\ q.manuallyDetached = p.manuallyDetached /\ q.credential = p.credential
BY DEF CloseSocket, WidePages

\* What becomes of the current socket of a page: with its final state f, and
\* closed if it was open
Finished(p, q, g, f) ==
    /\ q \in WidePages
    /\ /\ q.generation = p.generation /\ q.socket = p.socket /\ q.handshake = p.handshake
       /\ q.requests = p.requests /\ q.early = p.early /\ q.online = p.online
       /\ q.detach = p.detach /\ q.suspended = p.suspended /\ q.grid = p.grid
       /\ q.sent = p.sent /\ q.retry = p.retry /\ q.manuallyDetached = p.manuallyDetached
    /\ q.state = f /\ q.credential = FALSE
    /\ \A h \in Generations : h # g => q.sockets[h] = p.sockets[h]
    /\ q.sockets[g].ready = p.sockets[g].ready /\ q.sockets[g].final = f
    /\ \/ Phase(p, g) # "connecting" /\ Phase(q, g) = Phase(p, g)
       \/ Phase(p, g) \in {"connecting", "open"} /\ Phase(q, g) = "closing"

\* A protocol failure is final and closes the socket
LEMMA FailureFields ==
    ASSUME NEW p \in WidePages, NEW g \in Generations, NEW q, q = ProtocolFailure(p, g)
    PROVE  /\ Finished(p, q, g, "error")
           /\ Phase(p, g) \in {"connecting", "open"} => Phase(q, g) = "closing"
<1>. DEFINE u == SetState(p, "error")
            v == [u EXCEPT !.sockets[g].final = "error"]
<1>1. u \in WidePages /\ u = SetState(p, "error")
  BY StateType
<1>. HIDE DEF u
<1>2. /\ u.generation = p.generation /\ u.socket = p.socket /\ u.handshake = p.handshake
      /\ u.requests = p.requests /\ u.sockets = p.sockets /\ u.early = p.early
      /\ u.online = p.online /\ u.detach = p.detach /\ u.suspended = p.suspended
      /\ u.grid = p.grid /\ u.sent = p.sent /\ u.retry = p.retry
      /\ u.manuallyDetached = p.manuallyDetached
  BY <1>1 DEF SetState, WidePages
<1>3. u.state = "error" /\ u.credential = FALSE
  BY <1>1 DEF SetState, WidePages
<1>4. [u.sockets[g] EXCEPT !.final = "error"] \in Sockets
  BY <1>1 DEF WidePages, Sockets, Final
<1>5. v \in WidePages
  BY <1>1, <1>4 DEF WidePages
<1>6. /\ v.state = u.state /\ v.generation = u.generation /\ v.socket = u.socket
      /\ v.handshake = u.handshake /\ v.requests = u.requests /\ v.early = u.early
      /\ v.online = u.online /\ v.detach = u.detach /\ v.suspended = u.suspended
      /\ v.grid = u.grid /\ v.sent = u.sent /\ v.retry = u.retry
      /\ v.manuallyDetached = u.manuallyDetached /\ v.credential = u.credential
  BY <1>1 DEF WidePages
<1>7. /\ \A h \in Generations : h # g => v.sockets[h] = u.sockets[h]
      /\ v.sockets[g] = [u.sockets[g] EXCEPT !.final = "error"]
  BY <1>1 DEF WidePages
<1>8. /\ v.sockets[g].final = "error" /\ v.sockets[g].ready = u.sockets[g].ready
      /\ v.sockets[g].phase = u.sockets[g].phase
  BY <1>1, <1>7 DEF WidePages, Sockets
<1>9. q = CloseSocket(v, g)
  BY <1>1 DEF ProtocolFailure
<1>. HIDE DEF v
<1>10. q \in WidePages
  BY <1>5, <1>9, CloseType
<1>11. /\ q.state = v.state /\ q.generation = v.generation /\ q.socket = v.socket
       /\ q.handshake = v.handshake /\ q.requests = v.requests /\ q.early = v.early
       /\ q.online = v.online /\ q.detach = v.detach /\ q.suspended = v.suspended
       /\ q.grid = v.grid /\ q.sent = v.sent /\ q.retry = v.retry
       /\ q.manuallyDetached = v.manuallyDetached /\ q.credential = v.credential
  BY <1>5, <1>9, CloseAllFields
<1>12. /\ \A h \in Generations : h # g => q.sockets[h] = v.sockets[h]
       /\ q.sockets[g] = [v.sockets[g] EXCEPT !.phase = IF @ \in {"connecting", "open"} THEN "closing" ELSE @]
  BY <1>5, <1>9, CloseFields
<1>13. v.sockets[g] \in Sockets
  BY <1>5 DEF WidePages
<1>14. /\ q.sockets[g].ready = v.sockets[g].ready /\ q.sockets[g].final = v.sockets[g].final
       /\ q.sockets[g].phase = IF v.sockets[g].phase \in {"connecting", "open"} THEN "closing" ELSE v.sockets[g].phase
  BY <1>12, <1>13 DEF Sockets
<1>. QED
  BY <1>2, <1>3, <1>6, <1>7, <1>8, <1>10, <1>11, <1>12, <1>14 DEF Finished, Phase

\* The socket of the page fails, or is given a final state
LEMMA FinishedInv ==
    ASSUME NEW p, NEW q, PageInv(p), p.socket # 0, p.socket \in Generations,
           NEW f \in {"limited", "ended", "error"}, Finished(p, q, p.socket, f),
           ~p.manuallyDetached
    PROVE  PageInv(q)
<1>. DEFINE g == p.socket
<1>1. /\ ~p.retry /\ p.detach = "none" /\ ~Asked(p) /\ ~Begun(p) /\ ~p.credential
      /\ Phase(p, g) \in {"connecting", "open", "closing"} /\ p.online /\ ~p.suspended
  BY BegunAsked DEF PageInv, Attached, Numbered, Phase
<1>2. Phase(q, g) \in {"closing", "open"} /\ (Phase(q, g) = "open" => Phase(p, g) = "open")
  BY <1>1 DEF Finished
<1>3. ~Asked(q) /\ ~Begun(q)
  BY <1>1 DEF Finished, Asked, Begun
<1>4. Numbered(q)
  BY <1>1, <1>2, <1>3 DEF PageInv, Numbered, Finished, Unheard, Phase
<1>5. Early(q)
  <2>1. p.early = "discarded" => Phase(p, 1) \in {"closing", "closed"} /\ p.socket # 1
    BY DEF PageInv, Early
  <2>. QED
    BY <1>2, <1>3, <2>1, Generation DEF Early, Finished, Phase
<1>6. Attached(q)
  BY <1>1, <1>2 DEF Attached, Finished, Phase
<1>7. Shown(q)
  BY <1>1, <1>3 DEF PageInv, Shown, Finished, Waiting
<1>. QED
  BY <1>4, <1>5, <1>6, <1>7 DEF PageInv

\* What sendHello does with socket g
Hailed(p, q, g, agreed) ==
    /\ q \in WidePages /\ PageInv(q) /\ q.socket = g /\ q.early = p.early
    /\ \A h \in Generations : h # g => q.sockets[h] = p.sockets[h]
    /\ q.sockets[g].ready = FALSE /\ q.state # "ready"
    /\ Phase(q, g) = IF agreed THEN "open" ELSE "closing"
    /\ agreed => q.sent \in Widths

\* sendHello leaves the page in order, with the width it has sent
LEMMA OpenedFacts ==
    ASSUME NEW p \in WidePages, PageInv(p), NEW g \in Generations, p.socket = g,
           Phase(p, g) \in {"connecting", "open"}, p.sockets[g].ready = FALSE,
           p.sockets[g].final = "none", NEW agreed \in BOOLEAN,
           NEW q, q = Opened(p, g, agreed)
    PROVE  Hailed(p, q, g, agreed)
<1>. DEFINE u == [p EXCEPT !.sockets[g].phase = "open"]
<1>1. [p.sockets[g] EXCEPT !.phase = "open"] \in Sockets
  BY DEF WidePages, Sockets
<1>2. u \in WidePages
  BY <1>1 DEF WidePages
<1>3. /\ u.state = p.state /\ u.generation = p.generation /\ u.socket = p.socket
      /\ u.handshake = p.handshake /\ u.requests = p.requests /\ u.early = p.early
      /\ u.online = p.online /\ u.detach = p.detach /\ u.suspended = p.suspended
      /\ u.grid = p.grid /\ u.sent = p.sent /\ u.retry = p.retry
      /\ u.manuallyDetached = p.manuallyDetached /\ u.credential = p.credential
  BY DEF WidePages
<1>4. /\ \A h \in Generations : h # g => u.sockets[h] = p.sockets[h]
      /\ u.sockets[g].phase = "open" /\ u.sockets[g].final = "none"
      /\ u.sockets[g].ready = FALSE
  BY DEF WidePages, Sockets
<1>5. /\ g # 0 /\ g = p.generation /\ ~p.suspended /\ p.online /\ ~p.retry /\ p.detach = "none"
      /\ ~p.credential /\ p.state \in Waiting /\ p.handshake = g /\ ~p.manuallyDetached
  BY Generation DEF PageInv, Numbered, Attached, Shown, Phase, Waiting
<1>6. q = IF agreed THEN [SetState(u, "connecting") EXCEPT !.grid = Clamp(@), !.sent = Clamp(u.grid)]
          ELSE ProtocolFailure(u, g)
  BY <1>5 DEF Opened, Current
<1>. HIDE DEF u
<1>7. ~Asked(p) /\ ~Begun(p)
  BY <1>5, BegunAsked DEF PageInv, Numbered
<1>8. PageInv(u)
  <2>1. ~Asked(u) /\ ~Begun(u)
    BY <1>3, <1>7 DEF Asked, Begun
  <2>2. Numbered(u)
    BY <1>3, <1>4, <1>5, <2>1 DEF PageInv, Numbered, Unheard, Phase
  <2>3. Early(u)
    BY <1>3, <1>4, <2>1, Generation DEF PageInv, Early, Phase
  <2>4. Attached(u)
    BY <1>3, <1>4, <1>5 DEF Attached
  <2>5. Shown(u)
    BY <1>3, <1>5, <2>1 DEF PageInv, Shown
  <2>. QED
    BY <2>2, <2>3, <2>4, <2>5 DEF PageInv
<1>9. CASE ~agreed
  <2>1. q = ProtocolFailure(u, g)
    BY <1>6, <1>9
  <2>2. Finished(u, q, g, "error") /\ Phase(q, g) = "closing"
    BY <1>2, <1>4, <2>1, FailureFields DEF Phase
  <2>3. PageInv(q)
    BY <1>3, <1>5, <1>8, <2>2, FinishedInv
  <2>. QED
    BY <1>3, <1>4, <1>9, <2>2, <2>3 DEF Hailed, Finished, Phase
<1>10. CASE agreed
  <2>. DEFINE v == SetState(u, "connecting")
  <2>1. q = [v EXCEPT !.grid = Clamp(@), !.sent = Clamp(u.grid)]
    BY <1>6, <1>10
  <2>2. v \in WidePages /\ v = SetState(u, "connecting")
    BY <1>2, StateType DEF Waiting
  <2>. HIDE DEF v
  <2>3. /\ v.generation = u.generation /\ v.socket = u.socket /\ v.handshake = u.handshake
        /\ v.requests = u.requests /\ v.sockets = u.sockets /\ v.early = u.early
        /\ v.online = u.online /\ v.detach = u.detach /\ v.suspended = u.suspended
        /\ v.grid = u.grid /\ v.sent = u.sent /\ v.retry = u.retry
        /\ v.manuallyDetached = u.manuallyDetached
    BY <1>2, <2>2 DEF SetState, WidePages
  <2>4. v.state = "connecting" /\ v.credential = FALSE
    BY <1>2, <2>2 DEF SetState, WidePages
  <2>5. v.grid \in Nat /\ u.grid = v.grid
    BY <2>2, <2>3, GridNat
  <2>6. Clamp(v.grid) \in Widths
    BY <2>5, ClampWidth
  <2>7. q = [v EXCEPT !.grid = Clamp(v.grid), !.sent = Clamp(v.grid)]
    BY <2>1, <2>5
  <2>8. q \in WidePages
    BY <2>2, <2>6, <2>7 DEF WidePages
  <2>9. /\ q.state = v.state /\ q.generation = v.generation /\ q.socket = v.socket
        /\ q.handshake = v.handshake /\ q.requests = v.requests /\ q.sockets = v.sockets
        /\ q.early = v.early /\ q.online = v.online /\ q.detach = v.detach
        /\ q.suspended = v.suspended /\ q.retry = v.retry /\ q.manuallyDetached = v.manuallyDetached
        /\ q.credential = v.credential
    BY <2>2, <2>7 DEF WidePages
  <2>10. q.sent \in Widths
    BY <2>2, <2>6, <2>7 DEF WidePages
  <2>11. PageInv(v)
    <3>1. ~Asked(v) /\ ~Begun(v)
      BY <1>3, <1>7, <2>3 DEF Asked, Begun
    <3>2. Numbered(v) /\ Early(v)
      BY <1>8, <2>3, <3>1 DEF PageInv, Numbered, Early, Unheard, Phase
    <3>3. Attached(v) /\ Shown(v)
      BY <1>3, <1>4, <1>5, <2>3, <2>4, <3>1 DEF Attached, Shown, Waiting
    <3>. QED
      BY <3>2, <3>3 DEF PageInv
  <2>12. PageInv(q)
    BY <2>9, <2>11, SameInv
  <2>13. /\ q.socket = g /\ q.early = p.early /\ q.sockets = u.sockets /\ q.state = "connecting"
    BY <1>3, <2>3, <2>4, <2>9
  <2>14. Phase(q, g) = "open" /\ q.sockets[g].ready = FALSE
    BY <1>4, <2>13 DEF Phase
  <2>. QED
    BY <1>4, <1>10, <2>8, <2>10, <2>12, <2>13, <2>14 DEF Hailed
<1>. QED
  BY <1>9, <1>10 DEF Hailed

\* What the other final messages set
LEMMA ToldFields ==
    ASSUME NEW p \in WidePages, NEW g \in Generations, NEW f \in {"limited", "ended", "error"},
           Phase(p, g) # "connecting",
           NEW q, q = SetState([p EXCEPT !.sockets[g].final = f], f)
    PROVE  Finished(p, q, g, f)
<1>. DEFINE u == [p EXCEPT !.sockets[g].final = f]
<1>1. [p.sockets[g] EXCEPT !.final = f] \in Sockets
  BY DEF WidePages, Sockets, Final
<1>2. u \in WidePages
  BY <1>1 DEF WidePages
<1>3. /\ u.state = p.state /\ u.generation = p.generation /\ u.socket = p.socket
      /\ u.handshake = p.handshake /\ u.requests = p.requests /\ u.early = p.early
      /\ u.online = p.online /\ u.detach = p.detach /\ u.suspended = p.suspended
      /\ u.grid = p.grid /\ u.sent = p.sent /\ u.retry = p.retry
      /\ u.manuallyDetached = p.manuallyDetached /\ u.credential = p.credential
  BY DEF WidePages
<1>4. /\ \A h \in Generations : h # g => u.sockets[h] = p.sockets[h]
      /\ u.sockets[g].final = f /\ u.sockets[g].ready = p.sockets[g].ready
      /\ u.sockets[g].phase = p.sockets[g].phase
  BY DEF WidePages, Sockets
<1>5. q = SetState(u, f)
  OBVIOUS
<1>. HIDE DEF u
<1>6. q \in WidePages
  BY <1>2, <1>5, StateType
<1>7. /\ q.generation = u.generation /\ q.socket = u.socket /\ q.handshake = u.handshake
      /\ q.requests = u.requests /\ q.sockets = u.sockets /\ q.early = u.early
      /\ q.online = u.online /\ q.detach = u.detach /\ q.suspended = u.suspended
      /\ q.grid = u.grid /\ q.sent = u.sent /\ q.retry = u.retry
      /\ q.manuallyDetached = u.manuallyDetached
  BY <1>2, <1>5 DEF SetState, WidePages
<1>8. q.state = f /\ q.credential = FALSE
  BY <1>2, <1>5 DEF SetState, WidePages
<1>. QED
  BY <1>3, <1>4, <1>6, <1>7, <1>8 DEF Finished, Phase

\* What markDetached makes of the page and its socket
Marked(p, q, g) ==
    /\ q \in WidePages
    /\ q.generation = p.generation /\ q.socket = p.socket /\ q.requests = p.requests
       /\ q.early = p.early /\ q.online = p.online /\ q.detach = p.detach
       /\ q.suspended = p.suspended /\ q.grid = p.grid /\ q.sent = p.sent
    /\ q.state = "detached" /\ q.credential = FALSE /\ q.manuallyDetached = TRUE
    /\ q.retry = FALSE /\ q.handshake = 0
    /\ \A h \in Generations : h # g => q.sockets[h] = p.sockets[h]
    /\ q.sockets[g].ready = p.sockets[g].ready /\ q.sockets[g].final = "detached"
    /\ Phase(q, g) = IF Phase(p, g) \in {"connecting", "open"} THEN "closing" ELSE Phase(p, g)

\* What markDetached sets
LEMMA MarkFields ==
    ASSUME NEW p \in WidePages, NEW g \in Generations, NEW q, q = MarkDetached(p, g)
    PROVE  Marked(p, q, g)
<1>. DEFINE u == SetState(p, "detached")
            v == [u EXCEPT !.sockets[g].final = "detached",
                           !.manuallyDetached = TRUE, !.retry = FALSE, !.handshake = 0]
<1>1. u \in WidePages /\ u = SetState(p, "detached")
  BY StateType
<1>2. q = CloseSocket(v, g)
  BY DEF MarkDetached
<1>. HIDE DEF u
<1>3. /\ u.generation = p.generation /\ u.socket = p.socket /\ u.handshake = p.handshake
      /\ u.requests = p.requests /\ u.sockets = p.sockets /\ u.early = p.early
      /\ u.online = p.online /\ u.detach = p.detach /\ u.suspended = p.suspended
      /\ u.grid = p.grid /\ u.sent = p.sent /\ u.retry = p.retry
      /\ u.manuallyDetached = p.manuallyDetached
  BY <1>1 DEF SetState, WidePages
<1>4. u.state = "detached" /\ u.credential = FALSE
  BY <1>1 DEF SetState, WidePages
<1>5. [u.sockets[g] EXCEPT !.final = "detached"] \in Sockets
  BY <1>1 DEF WidePages, Sockets, Final
<1>6. v \in WidePages
  <2>. DEFINE w == [u EXCEPT !.sockets[g].final = "detached"]
  <2>1. w \in WidePages
    BY <1>1, <1>5 DEF WidePages
  <2>2. v = [w EXCEPT !.manuallyDetached = TRUE, !.retry = FALSE, !.handshake = 0]
    OBVIOUS
  <2>. HIDE DEF w, v
  <2>. QED
    BY <2>1, <2>2, Generation DEF WidePages
<1>7. /\ v.state = u.state /\ v.generation = u.generation /\ v.socket = u.socket
      /\ v.requests = u.requests /\ v.early = u.early /\ v.online = u.online
      /\ v.detach = u.detach /\ v.suspended = u.suspended /\ v.grid = u.grid
      /\ v.sent = u.sent /\ v.credential = u.credential
  BY <1>1 DEF WidePages
<1>8. v.manuallyDetached = TRUE /\ v.retry = FALSE /\ v.handshake = 0
  BY <1>1 DEF WidePages
<1>9. /\ \A h \in Generations : h # g => v.sockets[h] = u.sockets[h]
      /\ v.sockets[g] = [u.sockets[g] EXCEPT !.final = "detached"]
  BY <1>1 DEF WidePages
<1>10. /\ v.sockets[g].final = "detached" /\ v.sockets[g].ready = u.sockets[g].ready
       /\ v.sockets[g].phase = u.sockets[g].phase
  BY <1>1, <1>9 DEF WidePages, Sockets
<1>. HIDE DEF v
<1>11. q \in WidePages
  BY <1>2, <1>6, CloseType
<1>12. /\ q.state = v.state /\ q.generation = v.generation /\ q.socket = v.socket
       /\ q.handshake = v.handshake /\ q.requests = v.requests /\ q.early = v.early
       /\ q.online = v.online /\ q.detach = v.detach /\ q.suspended = v.suspended
       /\ q.grid = v.grid /\ q.sent = v.sent /\ q.retry = v.retry
       /\ q.manuallyDetached = v.manuallyDetached /\ q.credential = v.credential
  BY <1>2, <1>6, CloseAllFields
<1>13. /\ \A h \in Generations : h # g => q.sockets[h] = v.sockets[h]
       /\ q.sockets[g] = [v.sockets[g] EXCEPT !.phase = IF @ \in {"connecting", "open"} THEN "closing" ELSE @]
  BY <1>2, <1>6, CloseFields
<1>14. v.sockets[g] \in Sockets
  BY <1>6 DEF WidePages
<1>15. /\ q.sockets[g].ready = v.sockets[g].ready /\ q.sockets[g].final = v.sockets[g].final
       /\ q.sockets[g].phase = IF v.sockets[g].phase \in {"connecting", "open"} THEN "closing" ELSE v.sockets[g].phase
  BY <1>13, <1>14 DEF Sockets
<1>16. /\ q.generation = p.generation /\ q.socket = p.socket /\ q.requests = p.requests
          /\ q.early = p.early /\ q.online = p.online /\ q.detach = p.detach
          /\ q.suspended = p.suspended /\ q.grid = p.grid /\ q.sent = p.sent
  BY <1>3, <1>7, <1>12
<1>17. /\ q.state = "detached" /\ q.credential = FALSE /\ q.manuallyDetached = TRUE
       /\ q.retry = FALSE /\ q.handshake = 0
  BY <1>4, <1>7, <1>8, <1>12
<1>18. /\ \A h \in Generations : h # g => q.sockets[h] = p.sockets[h]
       /\ q.sockets[g].ready = p.sockets[g].ready /\ q.sockets[g].final = "detached"
       /\ Phase(q, g) = IF Phase(p, g) \in {"connecting", "open"} THEN "closing" ELSE Phase(p, g)
  BY <1>3, <1>9, <1>10, <1>13, <1>15 DEF Phase
<1>. QED
  BY <1>11, <1>16, <1>17, <1>18 DEF Marked

\* What a message does to its socket, and to the width
Handled(p, q, g, m) ==
    /\ q \in WidePages /\ PageInv(q)
    /\ q.socket = p.socket /\ q.early = p.early
    /\ \A h \in Generations : h # g => q.sockets[h] = p.sockets[h]
    /\ q.sockets[g].ready => p.sockets[g].ready \/ m = "ready"
    /\ Phase(q, g) \in {"open", "closing"}
    /\ \/ q.sent = p.sent /\ q.grid = p.grid /\ (q.state = "ready" => p.state = "ready")
       \/ q.grid = q.sent /\ (q.sent # p.sent => q.sent \in Widths)

\* "ready" looks at the width again
LEMMA BecomesReadyFacts ==
    ASSUME NEW p \in WidePages, PageInv(p), NEW g \in Generations, p.socket = g,
           Phase(p, g) = "open", p.sockets[g].final = "none",
           NEW q, q = BecomesReady(p, g)
    PROVE  Handled(p, q, g, "ready")
<1>. DEFINE u == [p EXCEPT !.sockets[g].ready = TRUE, !.handshake = 0]
            v == SetState(u, "ready")
<1>1. [p.sockets[g] EXCEPT !.ready = TRUE] \in Sockets
  <2>1. p.sockets[g] \in Sockets
    BY DEF WidePages
  <2>. QED
    BY <2>1 DEF Sockets
<1>2. u \in WidePages
  BY <1>1, Generation DEF WidePages
<1>3. /\ u.state = p.state /\ u.generation = p.generation /\ u.socket = p.socket
      /\ u.requests = p.requests /\ u.early = p.early /\ u.online = p.online
      /\ u.detach = p.detach /\ u.suspended = p.suspended /\ u.grid = p.grid
      /\ u.sent = p.sent /\ u.retry = p.retry /\ u.manuallyDetached = p.manuallyDetached
      /\ u.credential = p.credential
  BY DEF WidePages
<1>4. /\ \A h \in Generations : h # g => u.sockets[h] = p.sockets[h]
      /\ u.sockets[g].final = "none" /\ u.sockets[g].ready = TRUE
      /\ u.sockets[g].phase = "open" /\ u.handshake = 0
  BY DEF WidePages, Sockets, Phase
<1>5. q = SendResize(v)
  BY DEF BecomesReady
<1>. HIDE DEF u
<1>6. v \in WidePages
  BY <1>2, StateType
<1>7. /\ v.generation = u.generation /\ v.socket = u.socket /\ v.handshake = u.handshake
      /\ v.requests = u.requests /\ v.sockets = u.sockets /\ v.early = u.early
      /\ v.online = u.online /\ v.detach = u.detach /\ v.suspended = u.suspended
      /\ v.grid = u.grid /\ v.sent = u.sent /\ v.retry = u.retry
      /\ v.manuallyDetached = u.manuallyDetached
  BY <1>2 DEF SetState, WidePages
<1>8. v.state = "ready" /\ v.credential = FALSE
  BY <1>2 DEF SetState, WidePages
<1>. HIDE DEF v
<1>9. /\ g # 0 /\ g = p.generation /\ ~p.suspended /\ p.online /\ ~p.retry /\ p.detach = "none"
      /\ ~p.manuallyDetached
  BY Generation DEF PageInv, Numbered, Attached, Shown, Phase
<1>10. ~Asked(p) /\ ~Begun(p)
  BY <1>9, BegunAsked DEF PageInv, Numbered
<1>11. ~Asked(v) /\ ~Begun(v)
  BY <1>3, <1>7, <1>10 DEF Asked, Begun
<1>12. Numbered(v)
  BY <1>3, <1>4, <1>7, <1>9, <1>11 DEF PageInv, Numbered, Unheard, Phase
<1>13. Early(v)
  BY <1>3, <1>4, <1>7, <1>11, Generation DEF PageInv, Early, Phase
<1>14. Attached(v)
  BY <1>3, <1>4, <1>7, <1>8, <1>9 DEF Attached
<1>15. Shown(v)
  BY <1>3, <1>7, <1>8, <1>9, <1>11 DEF Shown, Waiting
<1>16. PageInv(v)
  BY <1>12, <1>13, <1>14, <1>15 DEF PageInv
<1>17. /\ q \in WidePages
       /\ q.state = v.state /\ q.generation = v.generation /\ q.socket = v.socket
          /\ q.handshake = v.handshake /\ q.requests = v.requests /\ q.sockets = v.sockets
          /\ q.early = v.early /\ q.online = v.online /\ q.detach = v.detach
          /\ q.suspended = v.suspended /\ q.retry = v.retry /\ q.manuallyDetached = v.manuallyDetached
          /\ q.credential = v.credential
       /\ q.sent # v.sent => q.sent \in Widths
  BY <1>5, <1>6, ResizeFacts
<1>18. q.grid = q.sent
  <2>1. v.state = "ready" /\ v.socket # 0 /\ v.sockets[v.socket].phase = "open"
    BY <1>3, <1>4, <1>7, <1>8, <1>9
  <2>. QED
    BY <1>5, <1>6, <2>1, ResizeFacts
<1>19. PageInv(q)
  BY <1>16, <1>17, SameInv
<1>20. q.socket = p.socket /\ q.early = p.early /\ q.sockets = u.sockets /\ v.sent = p.sent
  BY <1>3, <1>7, <1>17
<1>21. Phase(q, g) = "open"
  BY <1>4, <1>20 DEF Phase
<1>. QED
  BY <1>4, <1>17, <1>18, <1>19, <1>20, <1>21 DEF Handled

\* Each message leaves the page in order
LEMMA ReceivedFacts ==
    ASSUME NEW p \in WidePages, PageInv(p), NEW g \in Generations, p.socket = g,
           Phase(p, g) = "open", NEW m \in Messages, m = "busy" => ~p.sockets[g].ready,
           NEW q, q = Received(p, g, m)
    PROVE  Handled(p, q, g, m)
<1>. DEFINE s == p.sockets[g]
            fails == \/ s.final # "none" \/ m = "bad"
                     \/ m = "ready" /\ s.ready
                     \/ m \in {"data", "exit", "detached"} /\ ~s.ready
<1>1. /\ g # 0 /\ g = p.generation /\ ~p.suspended /\ p.online /\ ~p.retry /\ p.detach = "none"
      /\ ~p.manuallyDetached /\ ~p.credential
  BY Generation DEF PageInv, Numbered, Attached, Shown, Phase
<1>2. ~Asked(p) /\ ~Begun(p)
  BY <1>1, BegunAsked DEF PageInv, Numbered
<1>3. s \in Sockets
  BY DEF WidePages
<1>4. ASSUME NEW f \in {"limited", "ended", "error"}, Finished(p, q, g, f)
      PROVE  Handled(p, q, g, m)
  <2>1. PageInv(q)
    BY <1>1, <1>4, FinishedInv
  <2>. QED
    BY <1>4, <2>1 DEF Finished, Handled
<1>5. CASE fails
  <2>1. q = ProtocolFailure(p, g)
    BY <1>5 DEF Received
  <2>2. Finished(p, q, g, "error")
    BY <2>1, FailureFields
  <2>. QED
    BY <1>4, <2>2
<1>6. CASE ~fails /\ m = "ready"
  <2>1. q = BecomesReady(p, g)
    BY <1>6 DEF Received
  <2>. QED
    BY <1>6, <2>1, BecomesReadyFacts
<1>7. CASE ~fails /\ m = "data"
  <2>1. q = p
    BY <1>7 DEF Received
  <2>. QED
    BY <2>1 DEF Handled
<1>8. CASE ~fails /\ m = "exit"
  <2>1. q = SetState([p EXCEPT !.sockets[g].final = "ended"], "ended")
    BY <1>8 DEF Received
  <2>2. Finished(p, q, g, "ended")
    BY <2>1, ToldFields
  <2>. QED
    BY <1>4, <2>2
<1>9. CASE ~fails /\ m = "detached"
  <2>1. q = MarkDetached(p, g)
    BY <1>9 DEF Received
  <2>2. Marked(p, q, g)
    BY <2>1, MarkFields
  <2>3. ~Asked(q) /\ ~Begun(q) /\ Phase(q, g) = "closing"
    BY <1>2, <2>2 DEF Asked, Begun, Marked
  <2>4. Numbered(q)
    BY <1>1, <2>2, <2>3 DEF PageInv, Numbered, Unheard, Phase, Marked
  <2>5. Early(q)
    BY <2>2, <2>3, Generation DEF PageInv, Early, Phase, Marked
  <2>6. Attached(q)
    BY <1>1, <2>2, <2>3 DEF Attached, Phase, Marked
  <2>7. Shown(q)
    BY <1>1, <2>2, <2>3 DEF Shown, Waiting, Marked
  <2>. QED
    BY <2>2, <2>3, <2>4, <2>5, <2>6, <2>7 DEF Handled, PageInv, Marked
<1>10. CASE ~fails /\ m = "busy" /\ s.auto
  <2>1. q = SetState(p, "reconnecting")
    BY <1>10 DEF Received
  <2>2. q \in WidePages
    BY <2>1, StateType DEF Waiting
  <2>3. /\ q.generation = p.generation /\ q.socket = p.socket /\ q.handshake = p.handshake
        /\ q.requests = p.requests /\ q.sockets = p.sockets /\ q.early = p.early
        /\ q.online = p.online /\ q.detach = p.detach /\ q.suspended = p.suspended
        /\ q.grid = p.grid /\ q.sent = p.sent /\ q.retry = p.retry
        /\ q.manuallyDetached = p.manuallyDetached
    BY <2>1 DEF SetState, WidePages
  <2>4. q.state = "reconnecting" /\ q.credential = FALSE
    BY <2>1 DEF SetState, WidePages
  <2>5. ~Asked(q) /\ ~Begun(q)
    BY <1>2, <2>3 DEF Asked, Begun
  <2>6. Numbered(q) /\ Early(q)
    BY <2>3, <2>5 DEF PageInv, Numbered, Early, Unheard, Phase
  <2>7. s.final = "none" /\ ~s.ready
    BY <1>10
  <2>8. Attached(q)
    BY <1>1, <2>3, <2>4, <2>7 DEF PageInv, Attached, Waiting
  <2>9. Shown(q)
    BY <1>1, <2>3, <2>4, <2>5 DEF Shown
  <2>. QED
    BY <2>2, <2>3, <2>4, <2>6, <2>8, <2>9 DEF Handled, PageInv, Phase
<1>11. CASE ~fails /\ m = "busy" /\ ~s.auto
  <2>1. q = SetState([p EXCEPT !.sockets[g].final = "limited"], "limited")
    BY <1>11 DEF Received, SetLimited, SetState
  <2>2. Finished(p, q, g, "limited")
    BY <2>1, ToldFields
  <2>. QED
    BY <1>4, <2>2
<1>12. CASE ~fails /\ m = "error"
  <2>1. q = SetState([p EXCEPT !.sockets[g].final = "error"], "error")
    BY <1>12 DEF Received
  <2>2. Finished(p, q, g, "error")
    BY <2>1, ToldFields
  <2>. QED
    BY <1>4, <2>2
<1>. QED
  BY <1>5, <1>6, <1>7, <1>8, <1>9, <1>10, <1>11, <1>12 DEF Messages

\* What the close event of socket g does to the sockets and the width
Gone(p, q, g) ==
    /\ q \in WidePages /\ PageInv(q)
    /\ Phase(q, g) = "closed"
    /\ \A h \in Generations :
          /\ \/ Phase(q, h) = Phase(p, h) \/ h = g
             \/ Phase(p, h) \in {"connecting", "open"} /\ Phase(q, h) = "closing"
             \/ Phase(p, h) = "none" /\ Phase(q, h) = "connecting"
          /\ q.sockets[h].ready => p.sockets[h].ready
          /\ Unheard(q, h) => Unheard(p, h)
    /\ q.socket # 0 => q.socket = p.socket /\ q.socket # g
    /\ q.state = "ready" => p.state = "ready"
    /\ q.grid = p.grid /\ q.sent = p.sent

\* scheduleReconnect without a socket touches no socket
LEMMA ScheduleSockets ==
    ASSUME NEW p \in WidePages, Idle(p), ~p.manuallyDetached, ~p.suspended, ~Begun(p),
           NEW i \in BOOLEAN, NEW q, q = ScheduleReconnect(p, i)
    PROVE  q.socket = 0 /\ q.early = p.early /\ \A h \in Generations : Phase(q, h) = Phase(p, h)
<1>. DEFINE u == [p EXCEPT !.retry = FALSE]
<1>1. /\ u.state = p.state /\ u.generation = p.generation /\ u.socket = p.socket
      /\ u.handshake = p.handshake /\ u.requests = p.requests /\ u.sockets = p.sockets
      /\ u.early = p.early /\ u.online = p.online /\ u.detach = p.detach
      /\ u.suspended = p.suspended /\ u.grid = p.grid /\ u.sent = p.sent
      /\ u.manuallyDetached = p.manuallyDetached /\ u.credential = p.credential
  BY DEF WidePages
<1>2. u \in WidePages
  BY DEF WidePages
<1>3. ~u.manuallyDetached /\ ~u.suspended
  BY <1>1
<1>. HIDE DEF u
<1>4. CASE ~u.online
  <2>1. q = SetState(u, "offline")
    BY <1>3, <1>4 DEF ScheduleReconnect, u
  <2>2. /\ q.generation = u.generation /\ q.socket = u.socket /\ q.handshake = u.handshake
        /\ q.requests = u.requests /\ q.sockets = u.sockets /\ q.early = u.early
        /\ q.online = u.online /\ q.detach = u.detach /\ q.suspended = u.suspended
        /\ q.grid = u.grid /\ q.sent = u.sent /\ q.retry = u.retry
        /\ q.manuallyDetached = u.manuallyDetached
    BY <1>2, <2>1 DEF SetState, WidePages
  <2>. QED
    BY <1>1, <2>2 DEF Idle, Phase
<1>5. CASE u.online /\ i
  <2>. DEFINE m == u.manuallyDetached /\ TRUE
              v == [u EXCEPT !.manuallyDetached = m, !.credential = FALSE, !.retry = FALSE]
              w == StopCurrentTransport(v)
              r == [generation |-> w.generation, auto |-> TRUE]
  <2>1. q = BeginConnection(u, TRUE)
    BY <1>3, <1>5 DEF ScheduleReconnect, u
  <2>2. m = FALSE
    BY <1>3
  <2>3. v = [u EXCEPT !.manuallyDetached = FALSE, !.credential = FALSE, !.retry = FALSE]
    BY <2>2
  <2>. HIDE DEF m
  <2>4. /\ v \in WidePages /\ v.sockets = u.sockets /\ v.socket = u.socket /\ v.early = u.early
        /\ v.suspended = u.suspended /\ v.online = u.online
    <3>. HIDE DEF v
    <3>1. v \in WidePages
      BY <1>2, <2>3 DEF WidePages
    <3>. QED
      BY <1>2, <2>3, <3>1 DEF WidePages
  <2>5. q = [SetState(w, "connecting") EXCEPT !.requests = @ \cup {r}]
    BY <1>1, <1>3, <1>5, <2>1, <2>4 DEF BeginConnection, Idle, m
  <2>. HIDE DEF v
  <2>6. w.socket = 0 /\ w.early = v.early /\ \A h \in Generations : Phase(w, h) = Phase(v, h)
    <3>1. w = StopCurrentTransport(v)
      OBVIOUS
    <3>. HIDE DEF w
    <3>2. v.socket = 0 /\ v.early \notin {"opened", "asked"}
      BY <1>1, <2>4 DEF Idle, Begun
    <3>3. v \in WidePages
      BY <2>4
    <3>4. /\ w.socket = 0
          /\ w.early = IF v.socket # 0 THEN v.early
                       ELSE IF v.early = "opened" THEN "discarded"
                       ELSE IF v.early = "asked" THEN "none" ELSE v.early
          /\ \A g \in Generations :
                Phase(w, g) = IF /\ g = v.socket \/ (v.socket = 0 /\ g = 1 /\ v.early = "opened")
                                 /\ Phase(v, g) \in {"connecting", "open"}
                              THEN "closing" ELSE Phase(v, g)
      BY <3>1, <3>3, StopFields
    <3>. QED
      BY <3>2, <3>4, Generation
  <2>7. w \in WidePages
    BY <2>4, StopType
  <2>. HIDE DEF w, r
  <2>8. q.socket = w.socket /\ q.early = w.early /\ q.sockets = w.sockets
    BY <2>5, <2>7 DEF SetState, WidePages
  <2>. QED
    BY <1>1, <2>4, <2>6, <2>8 DEF Phase
<1>6. CASE u.online /\ ~i
  <2>1. q = [SetState(u, "reconnecting") EXCEPT !.retry = TRUE]
    BY <1>3, <1>6 DEF ScheduleReconnect, u
  <2>2. /\ q.generation = u.generation /\ q.socket = u.socket /\ q.handshake = u.handshake
        /\ q.requests = u.requests /\ q.sockets = u.sockets /\ q.early = u.early
        /\ q.online = u.online /\ q.detach = u.detach /\ q.suspended = u.suspended
        /\ q.grid = u.grid /\ q.sent = u.sent /\ q.manuallyDetached = u.manuallyDetached
    BY <1>2, <2>1 DEF SetState, WidePages
  <2>. QED
    BY <1>1, <2>2 DEF Idle, Phase
<1>. QED
  BY <1>4, <1>5, <1>6

\* Each close event leaves the page in order
LEMMA ClosedFacts ==
    ASSUME NEW p \in WidePages, PageInv(p), NEW g \in Generations,
           Phase(p, g) \in {"connecting", "open", "closing"},
           NEW reason \in Closes, NEW stable \in BOOLEAN,
           NEW c, c = Closed(p, g, reason, stable)
    PROVE  Gone(p, c, g)
<1>. DEFINE gone == [p EXCEPT !.sockets[g].phase = "closed"]
            q == [gone EXCEPT !.socket = IF @ = g THEN 0 ELSE @, !.handshake = 0]
            told == reason = "close_detached" /\ p.sockets[g].final # "detached"
            r == IF told THEN MarkDetached(q, g) ELSE q
            final == r.sockets[g].final
<1>0. [p.sockets[g] EXCEPT !.phase = "closed"] \in Sockets
  <2>1. p.sockets[g] \in Sockets
    BY DEF WidePages
  <2>. QED
    BY <2>1 DEF Sockets
<1>1. gone \in WidePages
  BY <1>0 DEF WidePages
<1>2. /\ gone.state = p.state /\ gone.generation = p.generation /\ gone.socket = p.socket
      /\ gone.handshake = p.handshake /\ gone.requests = p.requests /\ gone.early = p.early
      /\ gone.online = p.online /\ gone.detach = p.detach /\ gone.suspended = p.suspended
      /\ gone.grid = p.grid /\ gone.sent = p.sent /\ gone.retry = p.retry
      /\ gone.manuallyDetached = p.manuallyDetached /\ gone.credential = p.credential
  BY DEF WidePages
<1>3. /\ \A h \in Generations : h # g => gone.sockets[h] = p.sockets[h]
      /\ gone.sockets[g].phase = "closed" /\ gone.sockets[g].final = p.sockets[g].final
      /\ gone.sockets[g].ready = p.sockets[g].ready
  BY DEF WidePages, Sockets
<1>. HIDE DEF gone
<1>4. CASE g # p.generation \/ Unheard(p, g)
  <2>1. c = gone
    BY <1>4 DEF Closed, gone
  <2>2. p.socket # g
    BY <1>4, Generation, BegunAsked DEF PageInv, Numbered, Early, Unheard, Begun
  <2>3. Asked(gone) <=> Asked(p)
    BY <1>2 DEF Asked
  <2>4. Begun(gone) <=> Begun(p)
    BY <1>2 DEF Begun
  <2>5. Asked(p) /\ g = p.generation => p.early = "opened"
    BY <1>4 DEF PageInv, Numbered
  <2>6. Numbered(gone)
    BY <1>2, <1>3, <2>2, <2>3, <2>5 DEF PageInv, Numbered, Unheard, Phase
  <2>7. Early(gone)
    BY <1>2, <1>3, <2>4, Generation DEF PageInv, Early, Phase
  <2>8. p.socket # 0 => p.socket \in Generations
    BY Generation DEF WidePages
  <2>9. Attached(gone)
    BY <1>2, <1>3, <2>2, <2>8 DEF PageInv, Attached
  <2>10. Shown(gone)
    BY <1>2, <1>3, <2>2, <2>3, <2>8 DEF PageInv, Shown, Phase
  <2>. QED
    BY <1>1, <1>2, <1>3, <2>1, <2>2, <2>6, <2>7, <2>9, <2>10 DEF Gone, PageInv, Unheard, Phase
<1>5. CASE g = p.generation /\ ~Unheard(p, g)
  <2>1. p.socket = g
    BY <1>5 DEF PageInv, Numbered
  <2>2. /\ g # 0 /\ ~p.suspended /\ p.online /\ ~p.retry /\ p.detach = "none" /\ ~p.credential
    BY <2>1, Generation DEF PageInv, Attached
  <2>3. ~Asked(p) /\ ~Begun(p)
    BY <2>1, <2>2, BegunAsked DEF PageInv, Numbered
  <2>4. /\ q.state = gone.state /\ q.generation = gone.generation /\ q.requests = gone.requests
        /\ q.sockets = gone.sockets /\ q.early = gone.early /\ q.online = gone.online
        /\ q.detach = gone.detach /\ q.suspended = gone.suspended /\ q.grid = gone.grid
        /\ q.sent = gone.sent /\ q.retry = gone.retry /\ q.manuallyDetached = gone.manuallyDetached
        /\ q.credential = gone.credential
    BY <1>1 DEF WidePages
  <2>5. q.socket = 0 /\ q.handshake = 0
    BY <1>1, <1>2, <2>1 DEF WidePages
  <2>6. q \in WidePages
    <3>1. q = [gone EXCEPT !.socket = 0, !.handshake = 0]
      BY <1>2, <2>1
    <3>. HIDE DEF q
    <3>. QED
      BY <1>1, <3>1, Generation DEF WidePages
  <2>7. c = IF final # "none" THEN SetState(r, final)
            ELSE IF r.manuallyDetached THEN r
            ELSE ScheduleReconnect(r, p.sockets[g].ready /\ stable)
    BY <1>5, <2>2 DEF Closed, gone
  <2>. HIDE DEF q
  <2>8. ~Asked(q) /\ ~Begun(q)
    BY <1>2, <2>3, <2>4 DEF Asked, Begun
  <2>9. \A h \in Generations : h # g => Phase(q, h) = Phase(p, h) /\ Phase(q, h) \notin {"connecting", "open"}
    BY <1>2, <1>3, <2>1, <2>3, <2>4 DEF PageInv, Numbered, Early, Unheard, Begun, Phase
  <2>10. Phase(q, g) = "closed"
    BY <1>3, <2>4 DEF Phase
  <2>11. Idle(q)
    <3>1. Numbered(q)
      BY <1>2, <1>3, <2>1, <2>4, <2>5, <2>8, <2>9, <2>10 DEF PageInv, Numbered, Unheard, Phase
    <3>2. Early(q)
      BY <1>2, <1>3, <2>4, <2>5, <2>8, <2>9, <2>10, Generation DEF PageInv, Early, Phase
    <3>. QED
      BY <1>2, <2>2, <2>4, <2>5, <2>8, <3>1, <3>2 DEF Idle
  <2>12. \A h \in Generations : (h # g => q.sockets[h] = p.sockets[h]) /\ q.sockets[h].ready = p.sockets[h].ready
    BY <1>3, <2>4
  <2>13. CASE told
    <3>1. r = MarkDetached(q, g)
      BY <2>13
    <3>. HIDE DEF r, told
    <3>2. Marked(q, r, g)
      BY <2>6, <3>1, MarkFields
    <3>3. Phase(r, g) = "closed" /\ final = "detached"
      BY <2>10, <3>2 DEF Marked
    <3>4. c = SetState(r, "detached")
      BY <2>7, <3>3
    <3>5. r \in WidePages
      BY <3>2 DEF Marked
    <3>6. /\ c.generation = r.generation /\ c.socket = r.socket /\ c.handshake = r.handshake
          /\ c.requests = r.requests /\ c.sockets = r.sockets /\ c.early = r.early
          /\ c.online = r.online /\ c.detach = r.detach /\ c.suspended = r.suspended
          /\ c.grid = r.grid /\ c.sent = r.sent /\ c.retry = r.retry
          /\ c.manuallyDetached = r.manuallyDetached
      BY <3>4, <3>5 DEF SetState, WidePages
    <3>7. c.state = "detached" /\ c.credential = FALSE
      BY <3>4, <3>5 DEF SetState, WidePages
    <3>8. c \in WidePages
      BY <3>4, <3>5, StateType
    <3>9. /\ c.socket = 0 /\ c.generation = q.generation /\ c.requests = q.requests
          /\ c.early = q.early /\ c.handshake = 0 /\ c.detach = q.detach /\ ~c.retry
          /\ c.manuallyDetached = TRUE /\ c.grid = q.grid /\ c.sent = q.sent
          /\ \A h \in Generations : h # g => c.sockets[h] = q.sockets[h]
          /\ c.sockets[g].ready = q.sockets[g].ready
      BY <2>5, <3>2, <3>6 DEF Marked
    <3>10. \A h \in Generations : Phase(c, h) = Phase(q, h)
      BY <2>10, <3>3, <3>6, <3>9 DEF Phase
    <3>11. ~Asked(c) /\ ~Begun(c)
      BY <2>8, <3>9 DEF Asked, Begun
    <3>12. Numbered(c)
      BY <2>11, <3>9, <3>10, <3>11 DEF Idle, Numbered, Unheard
    <3>13. Early(c)
      <4>1. c.early = q.early /\ c.socket = 0 /\ Phase(c, 1) = Phase(q, 1)
        BY <3>9, <3>10, Generation
      <4>2. q.early = "discarded" => Phase(q, 1) \in {"closing", "closed"}
        BY <2>11 DEF Idle, Early
      <4>. QED
        BY <3>11, <4>1, <4>2 DEF Early
    <3>14. Idle(c)
      BY <2>11, <3>9, <3>11, <3>12, <3>13 DEF Idle
    <3>15. PageInv(c)
      BY <3>7, <3>9, <3>14, IdleInv DEF Waiting
    <3>. QED
      BY <1>2, <2>4, <2>9, <2>10, <2>12, <3>7, <3>8, <3>9, <3>10, <3>15 DEF Gone, Unheard
  <2>14. CASE ~told
    <3>1. r = q
      BY <2>14
    <3>. HIDE DEF r, told
    <3>2. final = p.sockets[g].final
      BY <1>3, <2>4, <3>1
    <3>. HIDE DEF final
    <3>3. CASE final # "none"
      <4>1. p.state = final /\ final \in {"limited", "ended", "error", "detached"}
        BY <2>1, <2>2, <3>2, <3>3 DEF PageInv, Attached, WidePages, Sockets, Final
      <4>2. c = SetState(q, final)
        BY <2>7, <3>1, <3>3
      <4>3. c \in WidePages
        BY <2>6, <4>1, <4>2, StateType
      <4>4. /\ c.generation = q.generation /\ c.socket = q.socket /\ c.handshake = q.handshake
            /\ c.requests = q.requests /\ c.sockets = q.sockets /\ c.early = q.early
            /\ c.online = q.online /\ c.detach = q.detach /\ c.suspended = q.suspended
            /\ c.grid = q.grid /\ c.sent = q.sent /\ c.retry = q.retry
            /\ c.manuallyDetached = q.manuallyDetached
        BY <2>6, <4>2 DEF SetState, WidePages
      <4>5. c.state = final /\ c.credential = FALSE
        BY <2>6, <4>2 DEF SetState, WidePages
      <4>6. Idle(c)
        BY <2>11, <4>4 DEF Idle, Numbered, Early, Asked, Begun, Unheard, Phase
      <4>7. c.manuallyDetached <=> c.state = "detached"
        BY <1>2, <2>4, <4>1, <4>4, <4>5 DEF PageInv, Shown
      <4>8. PageInv(c)
        BY <1>2, <2>2, <2>4, <4>1, <4>4, <4>5, <4>6, <4>7, IdleInv DEF Waiting
      <4>9. \A h \in Generations : Phase(c, h) = Phase(q, h) /\ c.sockets[h].ready = p.sockets[h].ready
        BY <2>12, <4>4 DEF Phase
      <4>. QED
        BY <1>2, <2>4, <2>5, <2>9, <2>10, <4>1, <4>3, <4>4, <4>5, <4>8, <4>9 DEF Gone, Unheard
    <3>4. CASE final = "none"
      <4>1. ~p.manuallyDetached
        BY <2>1, <2>2, <3>2, <3>4 DEF PageInv, Attached, Shown, Waiting
      <4>. DEFINE i == p.sockets[g].ready /\ stable
      <4>2. ~q.manuallyDetached /\ ~q.suspended
        BY <1>2, <2>2, <2>4, <4>1
      <4>3. c = ScheduleReconnect(q, i)
        BY <2>7, <3>1, <3>4, <4>2
      <4>4. i \in BOOLEAN
        OBVIOUS
      <4>. HIDE DEF i
      <4>5. c \in WidePages /\ Quiet(q, c) /\ PageInv(c)
        BY <2>6, <2>11, <4>2, <4>3, <4>4, ScheduleFacts
      <4>6. c.socket = 0 /\ c.early = q.early /\ \A h \in Generations : Phase(c, h) = Phase(q, h)
        BY <2>6, <2>8, <2>11, <4>2, <4>3, <4>4, ScheduleSockets
      <4>. QED
        BY <1>2, <2>4, <2>9, <2>10, <2>12, <4>5, <4>6 DEF Gone, Quiet, Unheard
    <3>. QED
      BY <3>3, <3>4
  <2>. QED
    BY <2>13, <2>14
<1>. QED
  BY <1>4, <1>5

-----------------------------------------------------------------------------
(* What is on its way *)

\* A handler that sends nothing does not disturb what is on its way
LEMMA QuietWire ==
    ASSUME NEW p, NEW q, Quiet(p, q), NEW g \in Generations, NEW c, NEW box, Wire(p, g, c, box)
    PROVE  Wire(q, g, c, box)
BY DEF Quiet, Wire, Unheard

\* Within the bound on attempts the page has its type again
LEMMA BackInPages ==
    ASSUME NEW p \in WidePages, PageInv(p), p.generation <= MaxGeneration
    PROVE  p \in Pages
<1>1. p.generation \in 0..MaxGeneration
  BY Generation DEF WidePages
<1>2. \A r \in p.requests : r \in [generation : Generations, auto : BOOLEAN]
  <2>. TAKE r \in p.requests
  <2>1. r \in [generation : Nat, auto : BOOLEAN] /\ r.generation \in 1..p.generation
    BY DEF WidePages, PageInv, Numbered
  <2>2. r.generation \in Generations
    BY <1>1, <2>1, Generation
  <2>3. r = [generation |-> r.generation, auto |-> r.auto] /\ r.auto \in BOOLEAN
    BY <2>1
  <2>. QED
    BY <2>2, <2>3
<1>. QED
  BY <1>1, <1>2 DEF WidePages, Pages

\* A handler that sends nothing keeps the invariant
LEMMA QuietStep ==
    ASSUME IInv, Good(page, page'), Network, page'.generation <= MaxGeneration,
           displaced' \in BOOLEAN
    PROVE  IInv'
<1>1. TypeOK'
  BY BackInPages DEF IInv, TypeOK, Good, Network, sizes
<1>2. WireInv'
  BY QuietWire DEF IInv, WireInv, Good, Network
<1>3. WidthInv'
  <2>1. page'.state = "ready" /\ page'.socket # 0 => page'.socket = page.socket /\ page.state = "ready"
    BY DEF Good, Quiet, PageInv, Attached, Waiting, Phase
  <2>2. page'.socket # 0 /\ Phase(page', page'.socket) = "open" =>
            page'.socket = page.socket /\ Phase(page, page.socket) = "open"
    <3>1. page'.socket # 0 => page'.socket \in Generations
      BY Generation DEF Good, WidePages
    <3>. QED
      BY <3>1 DEF Good, Quiet
  <2>3. page'.sent = page.sent /\ page'.grid = page.grid
    BY DEF Good, Quiet
  <2>. QED
    BY <2>1, <2>2, <2>3 DEF IInv, WidthInv, Network, sizes, Due, Phase
<1>. QED
  BY <1>1, <1>2, <1>3 DEF IInv, Good

\* The early socket may open before anybody listens to it
LEMMA OpeningPage ==
    ASSUME page \in Pages, PageInv(page), NEW g \in Generations,
           page.sockets[g].phase = "connecting", Unheard(page, g),
           page' = [page EXCEPT !.sockets[g].phase = "open"]
    PROVE  /\ page' \in WidePages /\ PageInv(page')
           /\ /\ page'.state = page.state /\ page'.generation = page.generation /\ page'.socket = page.socket
             /\ page'.handshake = page.handshake /\ page'.requests = page.requests /\ page'.early = page.early
             /\ page'.online = page.online /\ page'.detach = page.detach /\ page'.suspended = page.suspended
             /\ page'.grid = page.grid /\ page'.sent = page.sent /\ page'.retry = page.retry
             /\ page'.manuallyDetached = page.manuallyDetached /\ page'.credential = page.credential
           /\ \A h \in Generations : h # g => page'.sockets[h] = page.sockets[h]
           /\ Phase(page', g) = "open" /\ page'.sockets[g].ready = page.sockets[g].ready
           /\ page.socket # g
<1>1. page \in WidePages
  BY PagesWide
<1>2. [page.sockets[g] EXCEPT !.phase = "open"] \in Sockets
  <2>1. page.sockets[g] \in Sockets
    BY <1>1 DEF WidePages
  <2>. QED
    BY <2>1 DEF Sockets
<1>3. page' \in WidePages
  BY <1>1, <1>2 DEF WidePages
<1>4. /\ page'.state = page.state /\ page'.generation = page.generation /\ page'.socket = page.socket
      /\ page'.handshake = page.handshake /\ page'.requests = page.requests /\ page'.early = page.early
      /\ page'.online = page.online /\ page'.detach = page.detach /\ page'.suspended = page.suspended
      /\ page'.grid = page.grid /\ page'.sent = page.sent /\ page'.retry = page.retry
      /\ page'.manuallyDetached = page.manuallyDetached /\ page'.credential = page.credential
  BY <1>1 DEF WidePages
<1>5. /\ \A h \in Generations : h # g => page'.sockets[h] = page.sockets[h]
      /\ Phase(page', g) = "open" /\ page'.sockets[g].ready = page.sockets[g].ready
  BY <1>1 DEF WidePages, Sockets, Phase
<1>6. /\ g = 1 /\ page.early = "opened" /\ page.generation = 1 /\ Begun(page)
      /\ page.socket = 0 /\ Asked(page)
  BY BegunAsked DEF Unheard, PageInv, Early, Begun, Phase
<1>7. Asked(page') <=> Asked(page)
  BY <1>4 DEF Asked
<1>8. Unheard(page', g) /\ \A h \in Generations : Unheard(page', h) <=> Unheard(page, h)
  BY <1>4 DEF Unheard
<1>9. Numbered(page')
  BY <1>4, <1>5, <1>6, <1>7, <1>8 DEF PageInv, Numbered, Phase
<1>10. Early(page') /\ Attached(page')
  BY <1>4, <1>5, <1>6 DEF PageInv, Early, Attached, Begun
<1>11. Shown(page')
  BY <1>4, <1>6, <1>7 DEF PageInv, Shown
<1>12. page.socket # g
  BY <1>6
<1>. QED
  BY <1>3, <1>4, <1>5, <1>9, <1>10, <1>11, <1>12 DEF PageInv

\* Nothing on its way is no answer
LEMMA EmptyReplies == Replies(<<>>) = {}
BY DEF Replies

\* A socket opens
LEMMA OpensInv ==
    ASSUME IInv, NEW g \in Generations, SocketOpens(g), page'.generation <= MaxGeneration
    PROVE  IInv'
<1>1. page \in Pages /\ page \in WidePages /\ PageInv(page)
  BY PagesWide DEF IInv, TypeOK
<1>2. /\ page.sockets[g].phase = "connecting" /\ inbox[g] = <<>> /\ conn[g] = "none"
      /\ page.sockets[g].ready = FALSE \/ Unheard(page, g)
  BY <1>1 DEF SocketOpens, IInv, WireInv, Wire, Phase
<1>3. ~page.sockets[g].ready
  BY <1>2 DEF IInv, WireInv, Wire
<1>4. inbox' = inbox /\ tty' = tty /\ fits' = fits /\ data' = data /\ displaced' = displaced
  BY DEF SocketOpens
<1>5. CASE Unheard(page, g)
  <2>1. page' = [page EXCEPT !.sockets[g].phase = "open"]
    BY <1>5 DEF SocketOpens
  <2>2. /\ page' \in WidePages /\ PageInv(page')
        /\ /\ page'.state = page.state /\ page'.generation = page.generation /\ page'.socket = page.socket
          /\ page'.handshake = page.handshake /\ page'.requests = page.requests /\ page'.early = page.early
          /\ page'.online = page.online /\ page'.detach = page.detach /\ page'.suspended = page.suspended
          /\ page'.grid = page.grid /\ page'.sent = page.sent /\ page'.retry = page.retry
          /\ page'.manuallyDetached = page.manuallyDetached /\ page'.credential = page.credential
        /\ \A h \in Generations : h # g => page'.sockets[h] = page.sockets[h]
        /\ Phase(page', g) = "open" /\ page'.sockets[g].ready = page.sockets[g].ready
        /\ page.socket # g
    BY <1>1, <1>2, <1>5, <2>1, OpeningPage
  <2>3. conn' = conn /\ uplink' = uplink
    BY <2>2 DEF SocketOpens, Greets
  <2>4. TypeOK'
    BY <1>4, <2>2, <2>3, BackInPages DEF IInv, TypeOK
  <2>5. WireInv'
    BY <1>2, <1>3, <1>4, <2>2, <2>3 DEF IInv, WireInv, Wire, Phase, Unheard
  <2>6. WidthInv'
    <3>1. page.socket # 0 => page.socket \in Generations
      BY <1>1, Generation DEF WidePages
    <3>. QED
      BY <1>4, <2>2, <2>3, <3>1 DEF IInv, WidthInv, Due, Phase
  <2>. QED
    BY <2>2, <2>4, <2>5, <2>6 DEF IInv
<1>6. CASE ~Unheard(page, g)
  <2>1. PICK agreed \in BOOLEAN : page' = Opened(page, g, agreed)
    BY <1>6 DEF SocketOpens
  <2>2. page.socket = g
    BY <1>1, <1>2, <1>6 DEF PageInv, Numbered, Phase
  <2>3. page.sockets[g].ready = FALSE /\ page.sockets[g].final = "none" /\ g # 0
    <3>1. page.sockets[g].ready \in BOOLEAN /\ g # 0
      BY <1>1, Generation DEF WidePages, Sockets
    <3>. QED
      BY <1>1, <1>2, <1>3, <2>2, <3>1 DEF PageInv, Attached
  <2>4. Phase(page, g) \in {"connecting", "open"}
    BY <1>2 DEF Phase
  <2>5. /\ page' \in WidePages /\ PageInv(page') /\ page'.socket = g /\ page'.early = page.early
        /\ \A h \in Generations : h # g => page'.sockets[h] = page.sockets[h]
        /\ page'.sockets[g].ready = FALSE /\ page'.state # "ready"
        /\ Phase(page', g) = IF agreed THEN "open" ELSE "closing"
        /\ agreed => page'.sent \in Widths
    <3>1. Hailed(page, page', g, agreed)
      BY <1>1, <2>1, <2>2, <2>3, <2>4, OpenedFacts
    <3>. QED
      BY <3>1 DEF Hailed
  <2>6. IF agreed THEN conn' = [conn EXCEPT ![g] = "greeted"] /\ uplink' = [uplink EXCEPT ![g] = <<page'.sent>>]
                  ELSE conn' = conn /\ uplink' = uplink
    BY <2>5 DEF SocketOpens, Greets, Phase
  <2>8. conn \in [Generations -> {"none", "greeted", "attached", "leaving", "over"}]
        /\ uplink \in [Generations -> Seq(Widths)]
    BY DEF IInv, TypeOK
  <2>7. TypeOK'
    <3>1. page' \in Pages
      BY <2>5, BackInPages
    <3>2. conn' \in [Generations -> {"none", "greeted", "attached", "leaving", "over"}]
      BY <2>6, <2>8
    <3>3. uplink' \in [Generations -> Seq(Widths)]
      <4>1. agreed => <<page'.sent>> \in Seq(Widths)
        BY <2>5
      <4>. QED
        BY <2>6, <2>8, <4>1
    <3>. QED
      BY <1>4, <3>1, <3>2, <3>3 DEF IInv, TypeOK
  <2>9. WireInv'
    <3>. SUFFICES ASSUME NEW h \in Generations PROVE Wire(page', h, conn'[h], inbox'[h])
      BY DEF WireInv
    <3>1. CASE h = g
      BY <1>2, <1>4, <1>6, <2>5, <2>6, <2>8, <3>1, EmptyReplies DEF Wire, Unheard
    <3>2. CASE h # g
      BY <1>4, <2>5, <2>6, <2>8, <3>2 DEF IInv, WireInv, Wire, Phase, Unheard
    <3>. QED
      BY <3>1, <3>2
  <2>10. WidthInv'
    <3>1. agreed => Due(g)' = page'.sent /\ uplink'[g] # <<>>
      <4>1. agreed => uplink'[g] = <<page'.sent>>
        BY <2>6, <2>8
      <4>2. \A w : <<w>> # <<>> /\ Len(<<w>>) = 1 /\ <<w>>[1] = w
        OBVIOUS
      <4>. QED
        BY <4>1, <4>2 DEF Due
    <3>2. ~agreed => Phase(page', g) # "open"
      BY <2>5
    <3>3. \A h \in Generations : conn'[h] = "greeted" => uplink'[h] # <<>>
      BY <2>6, <2>8, <3>1 DEF IInv, WidthInv
    <3>. QED
      BY <2>5, <3>1, <3>2, <3>3 DEF WidthInv
  <2>. QED
    BY <2>5, <2>7, <2>9, <2>10 DEF IInv
<1>. QED
  BY <1>5, <1>6

AtMostOne(box) == \A i, j \in Replies(box) : i = j

\* Taking a message out of an inbox
LEMMA TailReplies ==
    ASSUME NEW S, NEW box \in Seq(S), box # <<>>
    PROVE  /\ Tail(box) \in Seq(S)
           /\ Replies(box) = {} => Replies(Tail(box)) = {}
           /\ AtMostOne(box) => AtMostOne(Tail(box))
           /\ Head(box) \in {"ready", "busy"} => Replies(box) # {}
           /\ Head(box) \in {"ready", "busy"} /\ AtMostOne(box) => Replies(Tail(box)) = {}
<1>1. Tail(box) \in Seq(S) /\ Len(box) \in Nat /\ Len(box) >= 1 /\ Len(Tail(box)) = Len(box) - 1
  OBVIOUS
<1>2. \A i \in Replies(Tail(box)) : i \in Nat /\ i >= 1 /\ i + 1 \in Replies(box)
  BY <1>1 DEF Replies
<1>3. Head(box) \in {"ready", "busy"} => 1 \in Replies(box)
  BY <1>1 DEF Replies
<1>4. AtMostOne(box) => AtMostOne(Tail(box))
  BY <1>2 DEF AtMostOne
<1>5. Head(box) \in {"ready", "busy"} /\ AtMostOne(box) => Replies(Tail(box)) = {}
  <2>. SUFFICES ASSUME Head(box) \in {"ready", "busy"}, AtMostOne(box), NEW i \in Replies(Tail(box))
                PROVE  FALSE
    OBVIOUS
  <2>1. i + 1 = 1 /\ i >= 1 /\ i \in Nat
    BY <1>2, <1>3 DEF AtMostOne
  <2>. QED
    BY <2>1
<1>. QED
  BY <1>1, <1>2, <1>3, <1>4, <1>5

\* Adding messages to an inbox
LEMMA AppendReplies ==
    ASSUME NEW S, NEW box \in Seq(S), NEW m \in Seq(S)
    PROVE  /\ box \o m \in Seq(S)
           /\ Replies(m) = {} => \A i \in Replies(box \o m) : i \in Replies(box)
           /\ Replies(box) = {} /\ AtMostOne(m) => AtMostOne(box \o m)
<1>1. /\ box \o m \in Seq(S) /\ Len(box) \in Nat /\ Len(m) \in Nat
      /\ Len(box \o m) = Len(box) + Len(m)
      /\ \A i \in 1..Len(box) : (box \o m)[i] = box[i]
      /\ \A i \in 1..Len(m) : (box \o m)[Len(box) + i] = m[i]
  OBVIOUS
<1>2. \A i \in Replies(box \o m) : i \in Replies(box) \/ (i \in Nat /\ i - Len(box) \in Replies(m))
  <2>. TAKE i \in Replies(box \o m)
  <2>1. i \in 1..(Len(box) + Len(m))
    BY <1>1 DEF Replies
  <2>2. CASE i <= Len(box)
    BY <1>1, <2>1, <2>2 DEF Replies
  <2>3. CASE i > Len(box)
    <3>1. i - Len(box) \in 1..Len(m) /\ Len(box) + (i - Len(box)) = i
      BY <1>1, <2>1, <2>3
    <3>2. (box \o m)[i] = m[i - Len(box)]
      BY <1>1, <3>1
    <3>. QED
      BY <2>1, <3>1, <3>2 DEF Replies
  <2>. QED
    BY <1>1, <2>1, <2>2, <2>3
<1>3. Replies(box) = {} /\ AtMostOne(m) => AtMostOne(box \o m)
  <2>. SUFFICES ASSUME Replies(box) = {}, AtMostOne(m), NEW i \in Replies(box \o m), NEW j \in Replies(box \o m)
                PROVE  i = j
    BY DEF AtMostOne
  <2>1. i \in Nat /\ j \in Nat /\ i - Len(box) = j - Len(box)
    BY <1>2 DEF AtMostOne
  <2>. QED
    BY <1>1, <2>1
<1>. QED
  BY <1>1, <1>2, <1>3

\* A width that was sent is the last on its way
LEMMA TransmitsFacts ==
    ASSUME uplink \in [Generations -> Seq(Widths)], tty \in [Generations -> Widths \cup {0}],
           NEW g \in Generations, Transmits(g), page'.sent # page.sent => page'.sent \in Widths
    PROVE  /\ uplink' \in [Generations -> Seq(Widths)] /\ tty' = tty
           /\ \A h \in Generations : h # g => uplink'[h] = uplink[h]
           /\ page'.sent = page.sent => uplink'[g] = uplink[g]
           /\ uplink[g] # <<>> => uplink'[g] # <<>>
           /\ page'.sent # page.sent /\ conn[g] \in {"greeted", "attached"} => Due(g)' = page'.sent
<1>. DEFINE w == page'.sent
<1>1. CASE w # page.sent /\ conn[g] \in {"greeted", "attached"}
  <2>1. w \in Widths
    BY <1>1
  <2>2. uplink' = [uplink EXCEPT ![g] = Append(uplink[g], w)] /\ tty' = tty
    BY <1>1 DEF Transmits
  <2>. HIDE DEF w
  <2>3. uplink[g] \in Seq(Widths)
    OBVIOUS
  <2>4. /\ Append(uplink[g], w) \in Seq(Widths) /\ Append(uplink[g], w) # <<>>
        /\ Append(uplink[g], w)[Len(Append(uplink[g], w))] = w
    BY <2>1, <2>3
  <2>5. uplink'[g] = Append(uplink[g], w)
    BY <2>2
  <2>6. Due(g)' = w
    BY <2>4, <2>5 DEF Due
  <2>7. uplink' \in [Generations -> Seq(Widths)] /\ \A h \in Generations : h # g => uplink'[h] = uplink[h]
    BY <2>2, <2>4
  <2>. QED
    BY <1>1, <2>2, <2>4, <2>5, <2>6, <2>7 DEF w
<1>2. CASE ~(w # page.sent /\ conn[g] \in {"greeted", "attached"})
  <2>1. uplink' = [uplink EXCEPT ![g] = uplink[g]] /\ tty' = tty
    BY <1>2 DEF Transmits
  <2>2. uplink' = uplink
    BY <2>1
  <2>. QED
    BY <1>2, <2>1, <2>2
<1>. QED
  BY <1>1, <1>2

\* A message arrives
LEMMA ArrivesInv ==
    ASSUME IInv, NEW g \in Generations, MessageArrives(g), page'.generation <= MaxGeneration
    PROVE  IInv'
<1>1. page \in Pages /\ page \in WidePages /\ PageInv(page)
  BY PagesWide DEF IInv, TypeOK
<1>. DEFINE m == Head(inbox[g])
<1>2. /\ inbox[g] # <<>> /\ m \in Messages
      /\ inbox' = [inbox EXCEPT ![g] = Tail(inbox[g])] /\ Transmits(g)
      /\ conn' = conn /\ fits' = fits /\ data' = data /\ displaced' = displaced
      /\ page' = IF Current(page, g) /\ page.sockets[g].phase = "open"
                 THEN Received(page, g, m) ELSE page
  BY DEF MessageArrives
<1>3. /\ uplink \in [Generations -> Seq(Widths)] /\ tty \in [Generations -> Widths \cup {0}]
      /\ inbox \in [Generations -> Seq(Messages \cup Closes)]
  BY DEF IInv, TypeOK
<1>4. Wire(page, g, conn[g], inbox[g]) /\ AtMostOne(inbox[g])
  BY DEF IInv, WireInv, Wire, AtMostOne
<1>5. /\ Tail(inbox[g]) \in Seq(Messages \cup Closes)
      /\ Replies(inbox[g]) = {} => Replies(Tail(inbox[g])) = {} /\ m \notin {"ready", "busy"}
      /\ AtMostOne(Tail(inbox[g]))
      /\ m \in {"ready", "busy"} => Replies(Tail(inbox[g])) = {}
  BY <1>2, <1>3, <1>4, TailReplies
<1>. HIDE DEF m
<1>6. CASE Current(page, g) /\ page.sockets[g].phase = "open"
  <2>1. page.socket = g /\ Phase(page, g) = "open" /\ page' = Received(page, g, m) /\ g # 0
    BY <1>2, <1>6, Generation DEF Current, Phase
  <2>2. m = "busy" => ~page.sockets[g].ready
    BY <1>4, <1>5 DEF Wire
  <2>3. Handled(page, page', g, m)
    BY <1>1, <1>2, <2>1, <2>2, ReceivedFacts
  <2>4. /\ page' \in WidePages /\ PageInv(page')
        /\ page'.socket = g /\ page'.early = page.early
        /\ \A h \in Generations : h # g => page'.sockets[h] = page.sockets[h]
        /\ page'.sockets[g].ready => page.sockets[g].ready \/ m = "ready"
        /\ Phase(page', g) \in {"open", "closing"}
    BY <2>1, <2>3 DEF Handled
  <2>5. \/ page'.sent = page.sent /\ page'.grid = page.grid /\ (page'.state = "ready" => page.state = "ready")
        \/ page'.grid = page'.sent /\ (page'.sent # page.sent => page'.sent \in Widths)
    BY <2>3 DEF Handled
  <2>6. /\ uplink' \in [Generations -> Seq(Widths)] /\ tty' = tty
        /\ \A h \in Generations : h # g => uplink'[h] = uplink[h]
        /\ page'.sent = page.sent => uplink'[g] = uplink[g]
        /\ uplink[g] # <<>> => uplink'[g] # <<>>
        /\ page'.sent # page.sent /\ conn[g] \in {"greeted", "attached"} => Due(g)' = page'.sent
    BY <1>2, <1>3, <2>5, TransmitsFacts
  <2>7. TypeOK'
    <3>1. page' \in Pages
      BY <2>4, BackInPages
    <3>2. inbox' \in [Generations -> Seq(Messages \cup Closes)]
      BY <1>2, <1>3, <1>5
    <3>. QED
      BY <1>2, <2>6, <3>1, <3>2 DEF IInv, TypeOK
  <2>8. WireInv'
    <3>. SUFFICES ASSUME NEW h \in Generations PROVE Wire(page', h, conn'[h], inbox'[h])
      BY DEF WireInv
    <3>1. CASE h = g
      BY <1>2, <1>3, <1>4, <1>5, <2>4, <3>1 DEF Wire, Unheard, AtMostOne
    <3>2. CASE h # g
      BY <1>2, <1>3, <2>4, <3>2 DEF IInv, WireInv, Wire, Phase, Unheard
    <3>. QED
      BY <3>1, <3>2
  <2>9. WidthInv'
    <3>1. Phase(page', g) = "open" /\ conn[g] \in {"greeted", "attached"} => Due(g)' = page'.sent
      BY <2>1, <2>6 DEF IInv, WidthInv, Due
    <3>2. \A h \in Generations : conn[h] = "greeted" => uplink'[h] # <<>>
      BY <2>6 DEF IInv, WidthInv
    <3>3. page'.state = "ready" => page'.grid = page'.sent
      BY <2>1, <2>5 DEF IInv, WidthInv
    <3>. QED
      BY <1>2, <2>4, <3>1, <3>2, <3>3 DEF WidthInv
  <2>. QED
    BY <2>4, <2>7, <2>8, <2>9 DEF IInv
<1>7. CASE ~(Current(page, g) /\ page.sockets[g].phase = "open")
  <2>1. page' = page
    BY <1>2, <1>7
  <2>2. uplink' = uplink /\ tty' = tty
    <3>1. uplink' = [uplink EXCEPT ![g] = uplink[g]] /\ tty' = tty
      BY <1>2, <2>1 DEF Transmits
    <3>. QED
      BY <1>3, <3>1
  <2>3. TypeOK'
    <3>1. inbox' \in [Generations -> Seq(Messages \cup Closes)]
      BY <1>2, <1>3, <1>5
    <3>. QED
      BY <1>2, <2>1, <2>2, <3>1 DEF IInv, TypeOK
  <2>4. WireInv'
    <3>. SUFFICES ASSUME NEW h \in Generations PROVE Wire(page', h, conn'[h], inbox'[h])
      BY DEF WireInv
    <3>1. CASE h = g
      BY <1>2, <1>3, <1>4, <1>5, <2>1, <3>1 DEF Wire, AtMostOne
    <3>2. CASE h # g
      BY <1>2, <1>3, <2>1, <3>2 DEF IInv, WireInv
    <3>. QED
      BY <3>1, <3>2
  <2>5. WidthInv'
    BY <1>2, <2>1, <2>2 DEF IInv, WidthInv, Due
  <2>. QED
    BY <2>1, <2>3, <2>4, <2>5 DEF IInv
<1>. QED
  BY <1>6, <1>7

\* A socket closes
LEMMA ClosesInv ==
    ASSUME IInv, NEW g \in Generations, SocketCloses(g), page'.generation <= MaxGeneration
    PROVE  IInv'
<1>1. page \in Pages /\ page \in WidePages /\ PageInv(page)
  BY PagesWide DEF IInv, TypeOK
<1>2. /\ inbox[g] # <<>> /\ Head(inbox[g]) \in Closes
      /\ Phase(page, g) \in {"connecting", "open", "closing"}
      /\ inbox' = [inbox EXCEPT ![g] = <<>>]
      /\ conn' = [conn EXCEPT ![g] = IF conn[g] = "none" THEN "over" ELSE conn[g]]
      /\ uplink' = uplink /\ tty' = tty
      /\ fits' = fits /\ data' = data /\ displaced' = displaced
  BY DEF SocketCloses, sizes, Phase
<1>3. PICK stable \in BOOLEAN : page' = Closed(page, g, Head(inbox[g]), stable)
  BY DEF SocketCloses
<1>4. Gone(page, page', g)
  BY <1>1, <1>2, <1>3, ClosedFacts
<1>5. /\ inbox \in [Generations -> Seq(Messages \cup Closes)]
      /\ conn \in [Generations -> {"none", "greeted", "attached", "leaving", "over"}]
  BY DEF IInv, TypeOK
<1>6. TypeOK'
  <2>1. page' \in Pages
    BY <1>4, BackInPages DEF Gone
  <2>2. conn' \in [Generations -> {"none", "greeted", "attached", "leaving", "over"}]
    BY <1>2, <1>5
  <2>3. inbox' \in [Generations -> Seq(Messages \cup Closes)]
    <3>1. <<>> \in Seq(Messages \cup Closes)
      OBVIOUS
    <3>. QED
      BY <1>2, <1>5, <3>1
  <2>. QED
    BY <1>2, <2>1, <2>2, <2>3 DEF IInv, TypeOK
<1>7. WireInv'
  <2>. SUFFICES ASSUME NEW h \in Generations PROVE Wire(page', h, conn'[h], inbox'[h])
    BY DEF WireInv
  <2>1. Wire(page, h, conn[h], inbox[h])
    BY DEF IInv, WireInv
  <2>2. CASE h = g
    BY <1>2, <1>4, <1>5, <2>1, <2>2, EmptyReplies DEF Gone, Wire
  <2>3. CASE h # g
    BY <1>2, <1>4, <1>5, <2>1, <2>3 DEF Gone, Wire
  <2>. QED
    BY <2>2, <2>3
<1>8. WidthInv'
  <2>1. page'.socket # 0 => page'.socket \in Generations /\ page'.socket = page.socket /\ page'.socket # g
    BY <1>4, Generation DEF Gone, WidePages
  <2>2. page'.socket # 0 /\ Phase(page', page'.socket) = "open" => Phase(page, page.socket) = "open"
    BY <1>4, <2>1 DEF Gone
  <2>3. \A h \in Generations : conn'[h] = "greeted" => uplink[h] # <<>>
    BY <1>2, <1>5 DEF IInv, WidthInv
  <2>4. \A h \in Generations : h # g => conn'[h] = conn[h]
    BY <1>2, <1>5
  <2>5. page'.sent = page.sent /\ page'.grid = page.grid /\ (page'.state = "ready" => page.state = "ready")
    BY <1>4 DEF Gone
  <2>6. page'.socket # 0 /\ Phase(page', page'.socket) = "open" /\ conn'[page'.socket] \in {"greeted", "attached"}
            => Due(page.socket)' = page'.sent
    BY <1>2, <2>1, <2>2, <2>4, <2>5 DEF IInv, WidthInv, Due
  <2>7. page'.state = "ready" /\ page'.socket # 0 => page'.grid = page'.sent
    BY <2>1, <2>5 DEF IInv, WidthInv
  <2>. QED
    BY <1>2, <2>3, <2>6, <2>7 DEF WidthInv, Due
<1>. QED
  BY <1>4, <1>6, <1>7, <1>8 DEF IInv, Gone

\* The layout changes
LEMMA FitsInv ==
    ASSUME IInv, Fits, page'.generation <= MaxGeneration
    PROVE  IInv'
<1>1. page \in Pages /\ page \in WidePages /\ PageInv(page)
  BY PagesWide DEF IInv, TypeOK
<1>2. PICK cols \in Grids : page' = SendResize([page EXCEPT !.grid = cols])
  BY DEF Fits
<1>. DEFINE p == [page EXCEPT !.grid = cols]
<1>3. p \in WidePages
  BY <1>1 DEF WidePages
<1>4. /\ p.state = page.state /\ p.generation = page.generation /\ p.socket = page.socket
      /\ p.handshake = page.handshake /\ p.requests = page.requests /\ p.sockets = page.sockets
      /\ p.early = page.early /\ p.online = page.online /\ p.detach = page.detach
      /\ p.suspended = page.suspended /\ p.sent = page.sent /\ p.retry = page.retry
      /\ p.manuallyDetached = page.manuallyDetached /\ p.credential = page.credential
  BY <1>1 DEF WidePages
<1>5. page' = SendResize(p)
  BY <1>2
<1>. HIDE DEF p
<1>6. PageInv(p)
  BY <1>1, <1>4, SameInv
<1>7. /\ page' \in WidePages
      /\ /\ page'.state = p.state /\ page'.generation = p.generation /\ page'.socket = p.socket
         /\ page'.handshake = p.handshake /\ page'.requests = p.requests /\ page'.sockets = p.sockets
         /\ page'.early = p.early /\ page'.online = p.online /\ page'.detach = p.detach
         /\ page'.suspended = p.suspended /\ page'.retry = p.retry /\ page'.manuallyDetached = p.manuallyDetached
         /\ page'.credential = p.credential
      /\ IF p.state = "ready" /\ p.socket # 0 /\ p.sockets[p.socket].phase = "open"
         THEN page'.grid = page'.sent ELSE page'.grid = p.grid /\ page'.sent = p.sent
      /\ page'.sent # p.sent => page'.sent \in Widths
  <2>1. page' \in WidePages
    BY <1>3, <1>5, ResizeFacts
  <2>2. page'.sent # p.sent => page'.sent \in Widths
    BY <1>3, <1>5, ResizeFacts
  <2>3. IF p.state = "ready" /\ p.socket # 0 /\ p.sockets[p.socket].phase = "open"
        THEN page'.grid = page'.sent ELSE page'.grid = p.grid /\ page'.sent = p.sent
    BY <1>3, <1>5, ResizeFacts
  <2>4. /\ page'.state = p.state /\ page'.generation = p.generation /\ page'.socket = p.socket
        /\ page'.handshake = p.handshake /\ page'.requests = p.requests /\ page'.sockets = p.sockets
        /\ page'.early = p.early /\ page'.online = p.online /\ page'.detach = p.detach
        /\ page'.suspended = p.suspended /\ page'.retry = p.retry /\ page'.manuallyDetached = p.manuallyDetached
        /\ page'.credential = p.credential
    BY <1>3, <1>5, ResizeFacts
  <2>. QED
    BY <2>1, <2>2, <2>3, <2>4
<1>8. PageInv(page')
  BY <1>6, <1>7, SameInv
<1>9. /\ page'.state = page.state /\ page'.generation = page.generation /\ page'.socket = page.socket
      /\ page'.handshake = page.handshake /\ page'.requests = page.requests /\ page'.sockets = page.sockets
      /\ page'.early = page.early /\ page'.online = page.online /\ page'.detach = page.detach
      /\ page'.suspended = page.suspended /\ page'.retry = page.retry /\ page'.manuallyDetached = page.manuallyDetached
      /\ page'.credential = page.credential
  BY <1>4, <1>7
<1>10. /\ fits < MaxFits /\ fits' = fits + 1 /\ inbox' = inbox /\ conn' = conn /\ data' = data
       /\ displaced' = displaced
       /\ IF page.socket # 0 THEN Transmits(page.socket) ELSE uplink' = uplink /\ tty' = tty
  BY DEF Fits
<1>11. page.socket # 0 => page.socket \in Generations
  BY <1>1, Generation DEF WidePages
<1>12. uplink \in [Generations -> Seq(Widths)] /\ tty \in [Generations -> Widths \cup {0}]
  BY DEF IInv, TypeOK
<1>13. page.state = "ready" /\ page.socket # 0 => Phase(page, page.socket) = "open"
  <2>. SUFFICES ASSUME page.state = "ready", page.socket # 0
                PROVE  Phase(page, page.socket) = "open"
    OBVIOUS
  <2>1. page.sockets[page.socket].final # "ready"
    BY <1>1, <1>11 DEF WidePages, Sockets, Final
  <2>. QED
    BY <1>1, <2>1 DEF PageInv, Attached, Waiting, Phase
<1>14. page'.state = "ready" /\ page'.socket # 0 => page'.grid = page'.sent
  BY <1>7, <1>9, <1>13, <1>4 DEF Phase
<1>15. WireInv'
  BY <1>9, <1>10 DEF IInv, WireInv, Wire, Phase, Unheard
<1>16. TypeOK' /\ WidthInv'
  <2>0. fits' \in 0..MaxFits
    <3>1. fits \in 0..MaxFits /\ MaxFits \in Nat
      BY PageAssumption DEF IInv, TypeOK
    <3>. QED
      BY <1>10, <3>1
  <2>1. page' \in Pages
    BY <1>7, <1>8, BackInPages
  <2>2. CASE page.socket = 0
    <3>1. uplink' = uplink /\ tty' = tty
      BY <1>10, <2>2
    <3>2. TypeOK'
      BY <1>10, <2>0, <2>1, <3>1 DEF IInv, TypeOK
    <3>3. WidthInv'
      BY <1>9, <1>10, <2>2, <3>1 DEF IInv, WidthInv
    <3>. QED
      BY <3>2, <3>3
  <2>3. CASE page.socket # 0
    <3>. DEFINE g == page.socket
    <3>0. g \in Generations /\ Transmits(g)
      BY <1>10, <1>11, <2>3
    <3>1. PICK h \in Generations : h = page.socket
      BY <3>0
    <3>2. /\ uplink' \in [Generations -> Seq(Widths)] /\ tty' = tty
          /\ \A k \in Generations : k # h => uplink'[k] = uplink[k]
          /\ page'.sent = page.sent => uplink'[h] = uplink[h]
          /\ uplink[h] # <<>> => uplink'[h] # <<>>
          /\ page'.sent # page.sent /\ conn[h] \in {"greeted", "attached"} => Due(h)' = page'.sent
      BY <1>4, <1>7, <1>12, <3>0, <3>1, TransmitsFacts
    <3>3. TypeOK'
      BY <1>10, <2>0, <2>1, <3>2 DEF IInv, TypeOK
    <3>4. Phase(page, h) = "open" /\ conn[h] \in {"greeted", "attached"} => Due(h)' = page'.sent
      BY <2>3, <3>1, <3>2 DEF IInv, WidthInv, Due
    <3>5. \A k \in Generations : conn[k] = "greeted" => uplink'[k] # <<>>
      BY <3>2 DEF IInv, WidthInv
    <3>6. page'.socket = h /\ Phase(page', h) = Phase(page, h)
      BY <1>9, <3>1 DEF Phase
    <3>7. WidthInv'
      BY <1>10, <1>14, <3>4, <3>5, <3>6 DEF WidthInv
    <3>. QED
      BY <3>3, <3>7
  <2>. QED
    BY <2>2, <2>3
<1>. QED
  BY <1>8, <1>15, <1>16 DEF IInv

\* The page has taken the early socket over
Adopted(p, q) ==
    /\ q \in WidePages /\ PageInv(q) /\ q.socket = 1 /\ q.early = "none" /\ q.state = "connecting"
    /\ \A h \in Generations : h # 1 => q.sockets[h] = p.sockets[h]
    /\ q.sockets[1].ready = FALSE /\ q.sockets[1].final = "none"
    /\ Phase(q, 1) = IF Phase(p, 1) = "closed" THEN "connecting" ELSE Phase(p, 1)

\* The adopted socket takes the place of the one the page would have opened
LEMMA AdoptedFacts ==
    ASSUME page \in Pages, PageInv(page), page.early = "opened",
           NEW q, q = Answered(page, CHOOSE r \in page.requests : r.generation = 1, "ok")
    PROVE  Adopted(page, q)
<1>. DEFINE r == [generation |-> 1, auto |-> FALSE]
            c == CHOOSE x \in page.requests : x.generation = 1
            u == [page EXCEPT !.requests = @ \ {r}, !.detach = IF @ = "connect" THEN "none" ELSE @]
            v == [u EXCEPT !.early = "none"]
            fresh == [phase |-> "connecting", auto |-> FALSE, ready |-> FALSE, final |-> "none"]
            taken == [fresh EXCEPT !.phase = IF Phase(page, 1) = "closed" THEN "connecting" ELSE Phase(page, 1)]
<1>1. page \in WidePages
  BY PagesWide
<1>2. Begun(page) /\ page.generation = 1 /\ page.requests = {r} /\ page.detach = "none"
      /\ Phase(page, 1) \in {"connecting", "open", "closed"}
  BY DEF PageInv, Early, Begun
<1>3. Asked(page) /\ page.socket = 0
  BY <1>2, BegunAsked DEF PageInv
<1>4. page.state = "connecting" /\ page.online /\ ~page.suspended /\ ~page.retry /\ ~page.credential
      /\ ~page.manuallyDetached
  BY <1>3 DEF PageInv, Shown
<1>5. c = r
  BY <1>2
<1>6. /\ /\ u.state = page.state /\ u.generation = page.generation /\ u.socket = page.socket
         /\ u.handshake = page.handshake /\ u.sockets = page.sockets /\ u.early = page.early
         /\ u.online = page.online /\ u.suspended = page.suspended /\ u.grid = page.grid
         /\ u.sent = page.sent /\ u.retry = page.retry /\ u.manuallyDetached = page.manuallyDetached
         /\ u.credential = page.credential
      /\ u.requests = {} /\ u.detach = "none" /\ u \in WidePages
  <2>1. u = [page EXCEPT !.requests = {}, !.detach = "none"]
    BY <1>2
  <2>. HIDE DEF u
  <2>. QED
    BY <1>1, <2>1 DEF WidePages
<1>7. q = AdoptEarly(u, FALSE)
  <2>1. q = Taken(page, r, "ok")
    <3>1. q = Answered(page, c, "ok")
      OBVIOUS
    <3>. HIDE DEF c
    <3>2. q = Answered(page, r, "ok") /\ r.generation = page.generation
      BY <1>2, <1>5, <3>1
    <3>. QED
      BY <3>2 DEF Answered
  <2>2. ~u.suspended /\ u.early = "opened"
    BY <1>4, <1>6
  <2>. QED
    BY <2>1, <2>2 DEF Taken
<1>. HIDE DEF c, u
<1>8. /\ /\ v.state = u.state /\ v.generation = u.generation /\ v.socket = u.socket
         /\ v.handshake = u.handshake /\ v.requests = u.requests /\ v.sockets = u.sockets
         /\ v.online = u.online /\ v.detach = u.detach /\ v.suspended = u.suspended
         /\ v.grid = u.grid /\ v.sent = u.sent /\ v.retry = u.retry
         /\ v.manuallyDetached = u.manuallyDetached /\ v.credential = u.credential
      /\ v.early = "none" /\ v \in WidePages
  BY <1>6 DEF WidePages
<1>. HIDE DEF v
<1>9. v.sockets[1] \in Sockets /\ 1 \in Generations /\ 1 \in 0..MaxGeneration
  BY <1>8, Generation DEF WidePages
<1>10. taken \in Sockets
  BY <1>2 DEF Sockets, Final
<1>11. fresh \in Sockets
  BY DEF Sockets, Final
<1>12. q = [v EXCEPT !.socket = 1, !.handshake = 1, !.sockets[1] = taken]
  <2>. DEFINE o == [v EXCEPT !.socket = 1, !.handshake = 1, !.sockets[1] = fresh]
  <2>1. OpenAttachment(v, 1, FALSE) = o
    BY DEF OpenAttachment
  <2>2. q = IF Phase(page, 1) = "closed" THEN o ELSE [o EXCEPT !.sockets[1].phase = Phase(page, 1)]
    BY <1>6, <1>7, <2>1 DEF AdoptEarly, Phase, v
  <2>3. o.sockets[1] = fresh
    BY <1>8, <1>9 DEF WidePages
  <2>4. CASE Phase(page, 1) = "closed"
    BY <2>2, <2>4
  <2>5. CASE Phase(page, 1) # "closed"
    <3>1. q = [o EXCEPT !.sockets[1].phase = Phase(page, 1)]
      BY <2>2, <2>5
    <3>2. taken = [fresh EXCEPT !.phase = Phase(page, 1)]
      BY <2>5
    <3>. HIDE DEF taken, fresh
    <3>3. q = [o EXCEPT !.sockets = [o.sockets EXCEPT ![1] = taken]]
      BY <2>3, <3>1, <3>2
    <3>4. o.sockets = [v.sockets EXCEPT ![1] = fresh]
      BY <1>8 DEF WidePages
    <3>5. [o.sockets EXCEPT ![1] = taken] = [v.sockets EXCEPT ![1] = taken]
      BY <3>4
    <3>6. q = [o EXCEPT !.sockets = [v.sockets EXCEPT ![1] = taken]]
      BY <3>3, <3>5
    <3>. QED
      BY <1>8, <3>6 DEF WidePages
  <2>. QED
    BY <2>4, <2>5
<1>13. /\ taken.ready = FALSE /\ taken.final = "none"
       /\ taken.phase = IF Phase(page, 1) = "closed" THEN "connecting" ELSE Phase(page, 1)
  OBVIOUS
<1>. HIDE DEF taken, fresh
<1>14. q \in WidePages
  <2>1. [v.sockets EXCEPT ![1] = taken] \in [Generations -> Sockets]
    BY <1>8, <1>9, <1>10 DEF WidePages
  <2>. DEFINE all == [v.sockets EXCEPT ![1] = taken]
  <2>2. q = [v EXCEPT !.socket = 1, !.handshake = 1, !.sockets = all]
    BY <1>12
  <2>. HIDE DEF all
  <2>. QED
    BY <1>8, <1>9, <2>1, <2>2 DEF WidePages, all
<1>15. /\ /\ q.state = v.state /\ q.generation = v.generation /\ q.requests = v.requests
      /\ q.early = v.early /\ q.online = v.online /\ q.detach = v.detach
      /\ q.suspended = v.suspended /\ q.grid = v.grid /\ q.sent = v.sent
      /\ q.retry = v.retry /\ q.manuallyDetached = v.manuallyDetached /\ q.credential = v.credential
  BY <1>8, <1>12 DEF WidePages
<1>16. /\ q.socket = 1 /\ q.handshake = 1 /\ q.sockets[1] = taken
       /\ \A h \in Generations : h # 1 => q.sockets[h] = v.sockets[h]
  BY <1>8, <1>9, <1>12 DEF WidePages
<1>17. /\ q.requests = {} /\ q.early = "none" /\ q.state = "connecting" /\ q.generation = 1
       /\ q.online /\ ~q.suspended /\ ~q.retry /\ ~q.credential /\ ~q.manuallyDetached
       /\ q.detach = "none"
  <2>1. /\ q.state = page.state /\ q.generation = page.generation /\ q.online = page.online
        /\ q.suspended = page.suspended /\ q.retry = page.retry /\ q.credential = page.credential
        /\ q.manuallyDetached = page.manuallyDetached
    BY <1>6, <1>8, <1>15
  <2>2. q.requests = {} /\ q.early = "none" /\ q.detach = "none"
    BY <1>6, <1>8, <1>15
  <2>. QED
    BY <1>2, <1>4, <2>1, <2>2
<1>18. \A h \in Generations : h # 1 => q.sockets[h] = page.sockets[h]
  BY <1>6, <1>8, <1>16
<1>19. ~Asked(q) /\ ~Begun(q)
  BY <1>17 DEF Asked, Begun
<1>20. Phase(q, 1) \in {"connecting", "open"}
  BY <1>2, <1>13, <1>16 DEF Phase
<1>21. Numbered(q)
  <2>1. \A g \in Generations : g # 1 => Phase(q, g) = "none"
    BY <1>2, <1>18, Generation DEF PageInv, Numbered, Phase
  <2>. QED
    <3>1. \A g \in Generations : Phase(q, g) # "none" => g = 1
      BY <2>1
    <3>2. q.socket = 1 /\ q.handshake = 1 /\ q.generation = 1 /\ q.requests = {}
      BY <1>16, <1>17
    <3>3. \A x \in q.requests : x.generation \in 1..q.generation
      BY <3>2
    <3>4. \A x, y \in q.requests : x.generation = y.generation => x = y
      BY <3>2
    <3>5. \A g \in Generations : Phase(q, g) # "none" => g <= q.generation
      BY <3>1, <3>2
    <3>6. \A g \in Generations :
             /\ Phase(q, g) \in {"connecting", "open"} => q.socket = g
             /\ Phase(q, g) # "closing" \/ q.socket = g
      BY <1>20, <3>1, <3>2
    <3>. QED
      BY <1>19, <3>2, <3>3, <3>4, <3>5, <3>6 DEF Numbered
<1>22. Early(q) /\ Attached(q) /\ Shown(q)
  <2>1. Early(q)
    BY <1>17, <1>19 DEF Early
  <2>2. q.sockets[1].ready = FALSE /\ q.sockets[1].final = "none" /\ Phase(q, 1) \in {"connecting", "open"}
    BY <1>13, <1>16, <1>20
  <2>3. Attached(q)
    BY <1>16, <1>17, <2>2 DEF Attached, Waiting, Phase
  <2>4. Shown(q)
    BY <1>16, <1>17, <1>19 DEF Shown, Waiting
  <2>. QED
    BY <2>1, <2>3, <2>4
<1>. QED
  BY <1>13, <1>14, <1>16, <1>17, <1>18, <1>21, <1>22 DEF Adopted, PageInv, Phase

\* The early socket is adopted
LEMMA AdoptedInv ==
    ASSUME IInv, EarlySocketAdopted, page'.generation <= MaxGeneration
    PROVE  IInv'
<1>1. page \in Pages /\ page \in WidePages /\ PageInv(page)
  BY PagesWide DEF IInv, TypeOK
<1>. DEFINE p == Answered(page, CHOOSE r \in page.requests : r.generation = 1, "ok")
<1>2. /\ page.early = "opened"
      /\ IF p.sockets[1].phase = "open"
         THEN \E agreed \in BOOLEAN : page' = Opened(p, 1, agreed) ELSE page' = p
      /\ IF page.sockets[1].phase = "closed"
         THEN conn' = [conn EXCEPT ![1] = "none"] /\ uplink' = uplink
         ELSE IF Greets(1, page') /\ conn[1] = "none"
         THEN conn' = [conn EXCEPT ![1] = "greeted"] /\ uplink' = [uplink EXCEPT ![1] = <<page'.sent>>]
         ELSE conn' = conn /\ uplink' = uplink
      /\ inbox' = inbox /\ tty' = tty /\ fits' = fits /\ data' = data /\ displaced' = displaced
  BY DEF EarlySocketAdopted
<1>3. Adopted(page, p)
  BY <1>1, <1>2, AdoptedFacts
<1>. HIDE DEF p
<1>4. 1 \in Generations /\ Wire(page, 1, conn[1], inbox[1]) /\ Unheard(page, 1)
  BY <1>2, Generation DEF IInv, WireInv, Unheard
<1>5. /\ conn \in [Generations -> {"none", "greeted", "attached", "leaving", "over"}]
      /\ uplink \in [Generations -> Seq(Widths)] /\ conn[1] \in {"none", "over"}
  BY <1>4 DEF IInv, TypeOK, Wire
<1>6. /\ page' \in WidePages /\ PageInv(page') /\ page'.socket = 1 /\ page'.early = "none"
      /\ \A h \in Generations : h # 1 => page'.sockets[h] = page.sockets[h]
      /\ page'.sockets[1].ready = FALSE /\ page'.state # "ready"
      /\ Phase(page', 1) \in {"connecting", "open", "closing"}
      /\ Phase(page', 1) = "connecting" => Phase(page, 1) \in {"connecting", "closed"}
      /\ Phase(page', 1) = "open" => page'.sent \in Widths /\ Phase(page, 1) = "open"
  <2>1. CASE p.sockets[1].phase = "open"
    <3>1. PICK agreed \in BOOLEAN : page' = Opened(p, 1, agreed)
      BY <1>2, <2>1
    <3>2. /\ p \in WidePages /\ PageInv(p) /\ p.socket = 1 /\ Phase(p, 1) \in {"connecting", "open"}
          /\ p.sockets[1].ready = FALSE /\ p.sockets[1].final = "none"
      BY <1>3, <2>1 DEF Adopted, Phase
    <3>3. Hailed(p, page', 1, agreed)
      BY <1>4, <3>1, <3>2, OpenedFacts
    <3>4. Phase(page, 1) = "open"
      BY <1>3, <2>1 DEF Adopted, Phase
    <3>. QED
      BY <1>3, <3>3, <3>4 DEF Adopted, Hailed
  <2>2. CASE p.sockets[1].phase # "open"
    <3>1. page' = p
      BY <1>2, <2>2
    <3>2. Phase(page, 1) \in {"connecting", "open", "closed"}
      BY <1>1, <1>2 DEF PageInv, Early, Begun
    <3>. QED
      BY <1>3, <2>2, <3>1, <3>2 DEF Adopted, Phase
  <2>. QED
    BY <2>1, <2>2
<1>7. \/ /\ Phase(page, 1) = "closed" /\ conn' = [conn EXCEPT ![1] = "none"] /\ uplink' = uplink
         /\ Phase(page', 1) # "open"
      \/ /\ Phase(page, 1) # "closed" /\ Phase(page', 1) = "open" /\ conn[1] = "none"
         /\ conn' = [conn EXCEPT ![1] = "greeted"] /\ uplink' = [uplink EXCEPT ![1] = <<page'.sent>>]
      \/ /\ Phase(page, 1) # "closed" /\ conn' = conn /\ uplink' = uplink
         /\ Phase(page', 1) # "open" \/ conn[1] = "over"
  BY <1>2, <1>5, <1>6 DEF Greets, Phase
<1>8. <<page'.sent>> # <<>> /\ Len(<<page'.sent>>) = 1 /\ <<page'.sent>>[1] = page'.sent
  OBVIOUS
<1>9. TypeOK'
  <2>1. page' \in Pages
    BY <1>6, BackInPages
  <2>2. conn' \in [Generations -> {"none", "greeted", "attached", "leaving", "over"}]
    BY <1>5, <1>7
  <2>3. uplink' \in [Generations -> Seq(Widths)]
    <3>1. Phase(page', 1) = "open" => <<page'.sent>> \in Seq(Widths)
      BY <1>6
    <3>. QED
      BY <1>5, <1>7, <3>1
  <2>. QED
    BY <1>2, <2>1, <2>2, <2>3 DEF IInv, TypeOK
<1>10. WireInv'
  <2>. SUFFICES ASSUME NEW h \in Generations PROVE Wire(page', h, conn'[h], inbox'[h])
    BY DEF WireInv
  <2>1. CASE h = 1
    <3>1. Phase(page, 1) = "closed" => inbox[1] = <<>>
      BY <1>4 DEF Wire
    <3>2. Phase(page', 1) = "connecting" => conn'[1] = "none"
      BY <1>4, <1>5, <1>6, <1>7 DEF Wire
    <3>3. ~Unheard(page', 1)
      BY <1>6 DEF Unheard
    <3>4. conn'[1] \in {"none", "greeted"} => Replies(inbox[1]) = {}
      BY <1>4, <1>5, <1>7, <3>1, EmptyReplies DEF Wire
    <3>5. \A i, j \in Replies(inbox[1]) : i = j
      BY <1>4 DEF Wire
    <3>. QED
      BY <1>2, <1>6, <2>1, <3>2, <3>3, <3>4, <3>5 DEF Wire
  <2>2. CASE h # 1
    <3>1. conn'[h] = conn[h] /\ inbox'[h] = inbox[h]
      BY <1>2, <1>5, <1>7, <2>2
    <3>2. Wire(page, h, conn[h], inbox[h])
      BY DEF IInv, WireInv
    <3>3. page'.sockets[h] = page.sockets[h] /\ ~Unheard(page', h)
      BY <1>6, <2>2 DEF Unheard
    <3>. QED
      BY <3>1, <3>2, <3>3 DEF Wire, Phase
  <2>. QED
    BY <2>1, <2>2
<1>11. WidthInv'
  <2>1. Phase(page', 1) = "open" /\ conn'[1] \in {"greeted", "attached"} => Due(1)' = page'.sent
    <3>1. Phase(page', 1) = "open" /\ conn'[1] \in {"greeted", "attached"} => uplink'[1] = <<page'.sent>>
      BY <1>4, <1>5, <1>7
    <3>. QED
      BY <1>8, <3>1 DEF Due
  <2>2. \A h \in Generations : conn'[h] = "greeted" => uplink'[h] # <<>>
    BY <1>4, <1>5, <1>7, <1>8 DEF IInv, WidthInv
  <2>. QED
    BY <1>6, <2>1, <2>2 DEF WidthInv
<1>. QED
  BY <1>6, <1>9, <1>10, <1>11 DEF IInv

-----------------------------------------------------------------------------
(* The server and the network *)

Letters == Messages \cup Closes

\* Which letters hold an answer
LEMMA LetterReplies ==
    \A m, n : /\ AtMostOne(<<m>>)
              /\ m \notin {"ready", "busy"} => Replies(<<m>>) = {}
              /\ n \notin {"ready", "busy"} => AtMostOne(<<m, n>>)
              /\ m \notin {"ready", "busy"} /\ n \notin {"ready", "busy"} => Replies(<<m, n>>) = {}
<1>. TAKE m, n
<1>1. /\ DOMAIN <<m>> = {1} /\ <<m>>[1] = m
      /\ DOMAIN <<m, n>> = {1, 2} /\ <<m, n>>[1] = m /\ <<m, n>>[2] = n
  OBVIOUS
<1>. QED
  BY <1>1 DEF AtMostOne, Replies

\* The server adds its messages to one inbox, or to none
LEMMA SendsFacts ==
    ASSUME inbox \in [Generations -> Seq(Letters)], NEW g \in Generations,
           NEW m \in Seq(Letters), Sends(g, m)
    PROVE  /\ inbox' \in [Generations -> Seq(Letters)]
           /\ \A h \in Generations : h # g => inbox'[h] = inbox[h]
           /\ inbox'[g] = inbox[g] \/ (Phase(page, g) # "closed" /\ inbox'[g] = inbox[g] \o m)
<1>1. CASE inbox' = inbox
  BY <1>1
<1>2. CASE inbox' # inbox
  <2>1. inbox' = [inbox EXCEPT ![g] = inbox[g] \o m] /\ Phase(page, g) # "closed"
    BY <1>2 DEF Sends, Phase
  <2>2. inbox[g] \o m \in Seq(Letters)
    BY AppendReplies
  <2>. QED
    BY <2>1, <2>2
<1>. QED
  BY <1>1, <1>2

\* One answer to a hello, and none without
LEMMA SentWire ==
    ASSUME NEW p, NEW g, NEW box \in Seq(Letters), NEW m \in Seq(Letters), NEW sent,
           sent = box \/ (Phase(p, g) # "closed" /\ sent = box \o m),
           NEW c, NEW d, Wire(p, g, c, box), Phase(p, g) # "none",
           d = c \/ (d \notin {"none", "greeted"} /\ Phase(p, g) # "connecting"),
           Unheard(p, g) => d \in {"none", "over"},
           Replies(m) = {} \/ (c = "greeted" /\ d # "greeted" /\ AtMostOne(m))
    PROVE  Wire(p, g, d, sent)
<1>1. CASE sent = box
  BY <1>1 DEF Wire
<1>2. CASE sent = box \o m /\ Phase(p, g) # "closed"
  <2>1. Replies(m) = {} => \A i \in Replies(sent) : i \in Replies(box)
    BY <1>2, AppendReplies
  <2>2. Replies(box) = {} /\ AtMostOne(m) => AtMostOne(sent)
    BY <1>2, AppendReplies
  <2>3. CASE Replies(m) = {}
    BY <1>2, <2>1, <2>3 DEF Wire
  <2>4. CASE c = "greeted" /\ d # "greeted" /\ AtMostOne(m)
    BY <1>2, <2>2, <2>4 DEF Wire, AtMostOne
  <2>. QED
    BY <2>3, <2>4
<1>. QED
  BY <1>1, <1>2

\* What the server does on connection g leaves the inboxes in order
LEMMA EnvironmentWire ==
    ASSUME IInv, page' = page, NEW g \in Generations, NEW m \in Seq(Letters), Sends(g, m),
           Phase(page, g) # "none",
           \A h \in Generations : h # g => conn'[h] = conn[h],
           conn'[g] = conn[g] \/ (conn'[g] \notin {"none", "greeted"} /\ Phase(page, g) # "connecting"),
           Unheard(page, g) => conn'[g] \in {"none", "over"},
           Replies(m) = {} \/ (conn[g] = "greeted" /\ conn'[g] # "greeted" /\ AtMostOne(m))
    PROVE  WireInv' /\ inbox' \in [Generations -> Seq(Letters)]
<1>1. inbox \in [Generations -> Seq(Letters)]
  BY DEF IInv, TypeOK, Letters
<1>2. /\ inbox' \in [Generations -> Seq(Letters)]
      /\ \A h \in Generations : h # g => inbox'[h] = inbox[h]
      /\ inbox'[g] = inbox[g] \/ (Phase(page, g) # "closed" /\ inbox'[g] = inbox[g] \o m)
  BY <1>1, SendsFacts
<1>3. Wire(page, g, conn[g], inbox[g]) /\ inbox[g] \in Seq(Letters)
  BY <1>1 DEF IInv, WireInv
<1>. DEFINE c == conn[g]
            d == conn'[g]
            sent == inbox'[g]
<1>4. Wire(page, g, d, sent)
  <2>1. /\ sent = inbox[g] \/ (Phase(page, g) # "closed" /\ sent = inbox[g] \o m)
        /\ d = c \/ (d \notin {"none", "greeted"} /\ Phase(page, g) # "connecting")
        /\ Unheard(page, g) => d \in {"none", "over"}
        /\ Replies(m) = {} \/ (c = "greeted" /\ d # "greeted" /\ AtMostOne(m))
        /\ Wire(page, g, c, inbox[g])
    BY <1>2, <1>3
  <2>. HIDE DEF c, d, sent
  <2>. QED
    BY <1>3, <2>1, SentWire
<1>. HIDE DEF c, d, sent
<1>5. WireInv'
  BY <1>2, <1>4 DEF IInv, WireInv, d, sent
<1>. QED
  BY <1>2, <1>5

\* A connection that ends has no width
LEMMA EndsWidth ==
    ASSUME IInv, page' = page, NEW g \in Generations, Ends(g)
    PROVE  /\ conn' \in [Generations -> {"none", "greeted", "attached", "leaving", "over"}]
           /\ uplink' \in [Generations -> Seq(Widths)] /\ tty' \in [Generations -> Widths \cup {0}]
           /\ fits' = fits /\ conn'[g] = "over"
           /\ \A h \in Generations : h # g => conn'[h] = conn[h]
           /\ WidthInv'
<1>1. /\ conn \in [Generations -> {"none", "greeted", "attached", "leaving", "over"}]
      /\ uplink \in [Generations -> Seq(Widths)] /\ tty \in [Generations -> Widths \cup {0}]
      /\ <<>> \in Seq(Widths)
  BY DEF IInv, TypeOK
<1>2. /\ conn' = [conn EXCEPT ![g] = "over"] /\ uplink' = [uplink EXCEPT ![g] = <<>>]
      /\ tty' = [tty EXCEPT ![g] = 0] /\ fits' = fits
  BY DEF Ends
<1>3. /\ conn' \in [Generations -> {"none", "greeted", "attached", "leaving", "over"}]
      /\ uplink' \in [Generations -> Seq(Widths)] /\ tty' \in [Generations -> Widths \cup {0}]
  BY <1>1, <1>2
<1>4. /\ conn'[g] = "over"
      /\ \A h \in Generations : h # g => conn'[h] = conn[h] /\ uplink'[h] = uplink[h] /\ tty'[h] = tty[h]
  BY <1>1, <1>2
<1>5. WidthInv'
  <2>1. page.socket # 0 => page.socket \in Generations
    BY PagesWide, Generation DEF IInv, TypeOK, WidePages
  <2>. QED
    BY <1>4, <2>1 DEF IInv, WidthInv, Due
<1>. QED
  BY <1>2, <1>3, <1>4, <1>5

\* The width that the terminal will have does not change as the server takes
\* the next one up
LEMMA TakesWidthFacts ==
    ASSUME uplink \in [Generations -> Seq(Widths)], tty \in [Generations -> Widths \cup {0}],
           NEW g \in Generations, uplink[g] # <<>>, TakesWidth(g)
    PROVE  /\ uplink' \in [Generations -> Seq(Widths)] /\ tty' \in [Generations -> Widths \cup {0}]
           /\ fits' = fits
           /\ \A h \in Generations : h # g => uplink'[h] = uplink[h] /\ tty'[h] = tty[h]
           /\ Due(g)' = Due(g)
<1>1. /\ uplink[g] \in Seq(Widths) /\ Head(uplink[g]) \in Widths /\ Tail(uplink[g]) \in Seq(Widths)
      /\ Len(uplink[g]) \in Nat /\ Len(uplink[g]) >= 1 /\ Head(uplink[g]) = uplink[g][1]
      /\ Len(Tail(uplink[g])) = Len(uplink[g]) - 1
      /\ \A i \in 1..Len(Tail(uplink[g])) : Tail(uplink[g])[i] = uplink[g][i + 1]
  OBVIOUS
<1>2. Clamp(Head(uplink[g])) = Head(uplink[g])
  BY <1>1, PageAssumption DEF Clamp, Widths
<1>. DEFINE w == Head(uplink[g])
            rest == Tail(uplink[g])
<1>3. /\ tty' = [tty EXCEPT ![g] = w] /\ uplink' = [uplink EXCEPT ![g] = rest] /\ fits' = fits
      /\ w \in Widths /\ rest \in Seq(Widths)
  BY <1>1, <1>2 DEF TakesWidth
<1>4. Len(rest) = Len(uplink[g]) - 1 /\ w = uplink[g][1] /\ \A i \in 1..Len(rest) : rest[i] = uplink[g][i + 1]
  BY <1>1
<1>. HIDE DEF w, rest
<1>5. /\ uplink' \in [Generations -> Seq(Widths)] /\ tty' \in [Generations -> Widths \cup {0}]
      /\ \A h \in Generations : h # g => uplink'[h] = uplink[h] /\ tty'[h] = tty[h]
      /\ uplink'[g] = rest /\ tty'[g] = w
  BY <1>3
<1>6. Due(g)' = Due(g)
  <2>1. Due(g)' = IF rest = <<>> THEN w ELSE rest[Len(rest)]
    BY <1>5 DEF Due
  <2>2. Due(g) = uplink[g][Len(uplink[g])]
    BY DEF Due
  <2>3. CASE rest = <<>>
    <3>0. Len(rest) = 0
      BY <2>3
    <3>1. PICK n \in Nat : n = Len(uplink[g])
      BY <1>1
    <3>2. Len(rest) = n - 1
      BY <1>4, <3>1
    <3>3. n = 1
      <4>1. n - 1 = 0
        BY <3>0, <3>2
      <4>. QED
        BY <4>1
    <3>. QED
      BY <1>4, <2>1, <2>2, <2>3, <3>1, <3>3
  <2>4. CASE rest # <<>>
    <3>1. Len(rest) \in 1..Len(rest) /\ Len(rest) + 1 = Len(uplink[g])
      BY <1>1, <1>3, <1>4, <2>4
    <3>. QED
      BY <1>4, <2>1, <2>2, <2>4, <3>1
  <2>. QED
    BY <2>3, <2>4
<1>. QED
  BY <1>3, <1>5, <1>6

\* The server and the network keep the invariant and leave the page alone
LEMMA ServerInv ==
    ASSUME IInv, NEW g \in Generations, Environment(g)
    PROVE  IInv' /\ page' = page
<1>1. /\ page \in WidePages /\ Wire(page, g, conn[g], inbox[g])
      /\ conn \in [Generations -> {"none", "greeted", "attached", "leaving", "over"}]
      /\ uplink \in [Generations -> Seq(Widths)] /\ tty \in [Generations -> Widths \cup {0}]
      /\ inbox \in [Generations -> Seq(Letters)]
  BY PagesWide DEF IInv, TypeOK, WireInv, Letters
<1>2. conn[g] # "none" => Phase(page, g) \notin {"none", "connecting"}
  BY <1>1 DEF Wire
<1>3. Unheard(page, g) => conn[g] \in {"none", "over"}
  BY <1>1 DEF Wire
<1>4. \A m \in Letters, n \in Letters : <<m>> \in Seq(Letters) /\ <<m, n>> \in Seq(Letters)
  OBVIOUS
<1>5. /\ "close" \in Letters /\ "error" \in Letters /\ "ready" \in Letters /\ "busy" \in Letters
      /\ "data" \in Letters /\ "bad" \in Letters /\ "exit" \in Letters /\ "detached" \in Letters
      /\ "close_detached" \in Letters
  BY DEF Letters, Messages, Closes
<1>6. page' = page
  BY DEF Environment, Refuse, HelloTimesOut, Attach, Resizes, TurnAway, SendData, Exit, Leave, Displace, Break
\* An action that ends the attachment with the letters m
<1>7. ASSUME NEW m \in Seq(Letters), Sends(g, m), Ends(g), data' = data, displaced' \in BOOLEAN,
             conn[g] # "none" \/ Phase(page, g) = "open",
             Replies(m) = {} \/ (conn[g] = "greeted" /\ AtMostOne(m))
      PROVE  IInv'
  <2>1. /\ conn' \in [Generations -> {"none", "greeted", "attached", "leaving", "over"}]
        /\ uplink' \in [Generations -> Seq(Widths)] /\ tty' \in [Generations -> Widths \cup {0}]
        /\ fits' = fits /\ conn'[g] = "over"
        /\ \A h \in Generations : h # g => conn'[h] = conn[h]
        /\ WidthInv'
    BY <1>6, <1>7, EndsWidth
  <2>2. Phase(page, g) \notin {"none", "connecting"}
    BY <1>2, <1>7
  <2>3. WireInv' /\ inbox' \in [Generations -> Seq(Letters)]
    BY <1>6, <1>7, <2>1, <2>2, EnvironmentWire
  <2>4. TypeOK'
    BY <1>6, <1>7, <2>1, <2>3 DEF IInv, TypeOK, Letters
  <2>. QED
    BY <1>6, <2>1, <2>3, <2>4 DEF IInv
\* One that keeps what is on its way to the terminal, with the letters m
<1>8. ASSUME NEW m \in Seq(Letters), Sends(g, m), UNCHANGED <<sizes, displaced>>, data' \in 0..MaxData,
             NEW d \in {"none", "greeted", "attached", "leaving", "over"},
             conn' = [conn EXCEPT ![g] = d],
             d = conn[g] \/ (conn[g] = "attached" /\ d = "leaving"),
             Phase(page, g) # "none", Replies(m) = {}
      PROVE  IInv'
  <2>1. /\ conn' \in [Generations -> {"none", "greeted", "attached", "leaving", "over"}]
        /\ conn'[g] = d /\ \A h \in Generations : h # g => conn'[h] = conn[h]
    BY <1>1, <1>8
  <2>2. Unheard(page, g) => d \in {"none", "over"}
    BY <1>3, <1>8
  <2>3. WireInv' /\ inbox' \in [Generations -> Seq(Letters)]
    BY <1>2, <1>6, <1>8, <2>1, <2>2, EnvironmentWire
  <2>4. TypeOK'
    BY <1>6, <1>8, <2>1, <2>3 DEF IInv, TypeOK, Letters, sizes
  <2>5. page.socket # 0 => page.socket \in Generations
    BY <1>1, Generation DEF WidePages
  <2>6. WidthInv'
    BY <1>6, <1>8, <2>1, <2>5 DEF IInv, WidthInv, Due, sizes
  <2>. QED
    BY <1>6, <2>3, <2>4, <2>6 DEF IInv
<1>9. conn = [conn EXCEPT ![g] = conn[g]]
  BY <1>1
<1>10. data \in 0..MaxData /\ displaced \in BOOLEAN
  BY DEF IInv, TypeOK
<1>11. CASE Refuse(g)
  <2>1. /\ Sends(g, <<"close">>) /\ UNCHANGED <<sizes, displaced>> /\ data' = data /\ conn' = conn
        /\ Phase(page, g) # "none"
    BY <1>11 DEF Refuse, Phase
  <2>. QED
    BY <1>6, <1>1, <1>4, <1>5, <1>8, <1>9, <1>10, <2>1, LetterReplies
<1>12. CASE HelloTimesOut(g)
  <2>1. /\ Sends(g, <<"error", "close">>) /\ Ends(g) /\ data' = data /\ displaced' = displaced
        /\ Phase(page, g) = "open"
    BY <1>12 DEF HelloTimesOut, Phase
  <2>. QED
    BY <1>6, <1>4, <1>5, <1>7, <1>10, <2>1, LetterReplies
<1>13. CASE Attach(g)
  <2>1. /\ conn[g] = "greeted" /\ conn' = [conn EXCEPT ![g] = "attached"] /\ TakesWidth(g)
        /\ Sends(g, <<"ready">>) /\ data' = data /\ displaced' = displaced
    BY <1>13 DEF Attach
  <2>2. /\ conn' \in [Generations -> {"none", "greeted", "attached", "leaving", "over"}]
        /\ conn'[g] = "attached" /\ \A h \in Generations : h # g => conn'[h] = conn[h]
    BY <1>1, <2>1
  <2>3. uplink[g] # <<>>
    BY <2>1 DEF IInv, WidthInv
  <2>4. /\ uplink' \in [Generations -> Seq(Widths)] /\ tty' \in [Generations -> Widths \cup {0}]
        /\ fits' = fits
        /\ \A h \in Generations : h # g => uplink'[h] = uplink[h] /\ tty'[h] = tty[h]
        /\ Due(g)' = Due(g)
    BY <1>1, <2>1, <2>3, TakesWidthFacts
  <2>5. <<"ready">> \in Seq(Letters) /\ AtMostOne(<<"ready">>)
    BY <1>4, <1>5, LetterReplies
  <2>6. Phase(page, g) \notin {"none", "connecting"} /\ ~Unheard(page, g)
    BY <1>2, <1>3, <2>1
  <2>7. WireInv' /\ inbox' \in [Generations -> Seq(Letters)]
    BY <1>6, <2>1, <2>2, <2>5, <2>6, EnvironmentWire
  <2>8. TypeOK'
    BY <1>6, <2>1, <2>2, <2>4, <2>7 DEF IInv, TypeOK, Letters
  <2>9. page.socket # 0 => page.socket \in Generations
    BY <1>1, Generation DEF WidePages
  <2>10. \A h \in Generations : h # g => Due(h)' = Due(h)
    BY <2>4 DEF Due
  <2>11. WidthInv'
    <3>1. \A h \in Generations : conn'[h] = "greeted" => uplink'[h] # <<>>
      BY <2>2, <2>4 DEF IInv, WidthInv
    <3>2. page.socket # 0 /\ Phase(page, page.socket) = "open" /\ conn'[page.socket] \in {"greeted", "attached"}
             => Due(page.socket)' = page.sent
      <4>1. \A h \in Generations :
               /\ Due(h)' = Due(h)
               /\ conn'[h] \in {"greeted", "attached"} => conn[h] \in {"greeted", "attached"}
        BY <2>1, <2>2, <2>4, <2>10
      <4>2. PICK k : k = page.socket
        OBVIOUS
      <4>3. k # 0 /\ Phase(page, k) = "open" /\ conn'[k] \in {"greeted", "attached"} => Due(k)' = page.sent
        BY <2>9, <4>1, <4>2 DEF IInv, WidthInv
      <4>. QED
        BY <1>6, <4>2, <4>3 DEF Due
    <3>. QED
      BY <1>6, <3>1, <3>2 DEF IInv, WidthInv
  <2>. QED
    BY <1>6, <2>7, <2>8, <2>11 DEF IInv
<1>14. CASE Resizes(g)
  <2>1. /\ conn[g] = "attached" /\ uplink[g] # <<>> /\ TakesWidth(g)
        /\ UNCHANGED <<inbox, conn, data, displaced>>
    BY <1>14 DEF Resizes
  <2>2. /\ uplink' \in [Generations -> Seq(Widths)] /\ tty' \in [Generations -> Widths \cup {0}]
        /\ fits' = fits
        /\ \A h \in Generations : h # g => uplink'[h] = uplink[h] /\ tty'[h] = tty[h]
        /\ Due(g)' = Due(g)
    BY <1>1, <2>1, TakesWidthFacts
  <2>3. TypeOK'
    BY <1>6, <2>1, <2>2 DEF IInv, TypeOK
  <2>4. WireInv'
    BY <1>6, <2>1 DEF IInv, WireInv
  <2>5. WidthInv'
    <3>1. \A h \in Generations : conn[h] = "greeted" => uplink'[h] # <<>>
      BY <2>1, <2>2 DEF IInv, WidthInv
    <3>2. page.socket # 0 /\ Phase(page, page.socket) = "open" /\ conn[page.socket] \in {"greeted", "attached"}
             => Due(page.socket)' = page.sent
      <4>1. \A h \in Generations : Due(h)' = Due(h)
        BY <2>2 DEF Due
      <4>2. PICK k : k = page.socket
        OBVIOUS
      <4>3. k # 0 /\ Phase(page, k) = "open" /\ conn[k] \in {"greeted", "attached"} => Due(k)' = page.sent
        <5>1. page.socket # 0 => page.socket \in Generations
          BY <1>1, Generation DEF WidePages
        <5>. QED
          BY <4>1, <4>2, <5>1 DEF IInv, WidthInv
      <4>. QED
        BY <1>6, <4>2, <4>3 DEF Due
    <3>. QED
      BY <1>6, <2>1, <3>1, <3>2 DEF IInv, WidthInv
  <2>. QED
    BY <1>6, <2>3, <2>4, <2>5 DEF IInv
<1>15. CASE TurnAway(g)
  <2>1. PICK m \in {"busy", "error"} : Sends(g, <<m, "close">>)
    BY <1>15 DEF TurnAway
  <2>2. conn[g] = "greeted" /\ Ends(g) /\ data' = data /\ displaced' = displaced
    BY <1>15 DEF TurnAway
  <2>. QED
    BY <1>6, <1>4, <1>5, <1>7, <1>10, <2>1, <2>2, LetterReplies
<1>16. CASE SendData(g)
  <2>1. PICK m \in {"data", "bad"} : Sends(g, <<m>>)
    BY <1>16 DEF SendData
  <2>2. /\ conn[g] \in {"attached", "leaving"} /\ UNCHANGED <<sizes, displaced>> /\ conn' = conn
        /\ data < MaxData /\ data' = data + 1
    BY <1>16 DEF SendData
  <2>3. data' \in 0..MaxData
    BY <1>10, <2>2, PageAssumption
  <2>4. <<m>> \in Seq(Letters) /\ Replies(<<m>>) = {} /\ Phase(page, g) # "none"
    BY <1>2, <1>4, <1>5, <2>1, <2>2, LetterReplies
  <2>. QED
    BY <1>6, <1>1, <1>8, <1>9, <2>1, <2>2, <2>3, <2>4
<1>17. CASE Exit(g)
  <2>1. /\ conn[g] = "attached" /\ conn' = [conn EXCEPT ![g] = "leaving"] /\ Sends(g, <<"exit">>)
        /\ UNCHANGED <<sizes, displaced>> /\ data' = data
    BY <1>17 DEF Exit
  <2>2. <<"exit">> \in Seq(Letters) /\ Replies(<<"exit">>) = {} /\ Phase(page, g) # "none"
    BY <1>2, <1>4, <1>5, <2>1, LetterReplies
  <2>. QED
    BY <1>6, <1>8, <1>10, <2>1, <2>2
<1>18. CASE Leave(g)
  <2>1. conn[g] # "none" /\ Ends(g) /\ Sends(g, <<"close">>) /\ data' = data /\ displaced' = displaced
    BY <1>18 DEF Leave
  <2>2. <<"close">> \in Seq(Letters) /\ Replies(<<"close">>) = {}
    BY <1>4, <1>5, LetterReplies
  <2>. QED
    BY <1>6, <1>7, <1>10, <2>1, <2>2
<1>19. CASE Displace(g)
  <2>1. conn[g] # "none" /\ Ends(g) /\ Sends(g, <<"detached", "close_detached">>) /\ data' = data
    BY <1>19 DEF Displace
  <2>2. displaced' = (displaced \/ (page.state = "ready" /\ page.socket = g))
    BY <1>19 DEF Displace
  <2>3. displaced' \in BOOLEAN
    BY <2>2
  <2>4. <<"detached", "close_detached">> \in Seq(Letters) /\ Replies(<<"detached", "close_detached">>) = {}
    BY <1>4, <1>5, LetterReplies
  <2>. QED
    BY <1>6, <1>7, <2>1, <2>3, <2>4
<1>20. CASE Break(g)
  <2>1. /\ Phase(page, g) \in {"open", "closing"} /\ inbox' = [inbox EXCEPT ![g] = <<"close">>]
        /\ UNCHANGED <<conn, uplink, tty, fits, data, displaced>>
    BY <1>20 DEF Break, Phase, sizes
  <2>2. <<"close">> \in Seq(Letters) /\ Replies(<<"close">>) = {}
    BY <1>4, <1>5, LetterReplies
  <2>3. inbox' \in [Generations -> Seq(Letters)]
    BY <1>1, <2>1, <2>2
  <2>4. TypeOK'
    BY <1>6, <2>1, <2>3 DEF IInv, TypeOK, Letters
  <2>5. WireInv'
    <3>1. Wire(page, g, conn[g], inbox'[g])
      BY <1>1, <2>1, <2>2 DEF Wire
    <3>2. \A h \in Generations : h # g => inbox'[h] = inbox[h]
      BY <1>1, <2>1
    <3>. QED
      BY <1>6, <2>1, <3>1, <3>2 DEF IInv, WireInv
  <2>6. WidthInv'
    BY <1>6, <2>1 DEF IInv, WidthInv, Due
  <2>. QED
    BY <1>6, <2>4, <2>5, <2>6 DEF IInv
<1>. QED
  BY <1>6, <1>11, <1>12, <1>13, <1>14, <1>15, <1>16, <1>17, <1>18, <1>19, <1>20 DEF Environment

-----------------------------------------------------------------------------
(* The invariant and what follows from it *)

\* The page before its first connection
LEMMA InitialFields ==
    ASSUME NEW online \in BOOLEAN, NEW i, i = Initially(online)
    PROVE  /\ i \in WidePages /\ i.socket = 0 /\ i.handshake = 0 /\ i.requests = {}
           /\ i.generation = 0 /\ i.early = "none" /\ i.detach = "none" /\ i.online = online
           /\ i.suspended = FALSE /\ i.state = "connecting" /\ i.grid = MaxCols /\ i.sent = 0
           /\ i.credential = FALSE /\ i.manuallyDetached = FALSE /\ i.retry = FALSE
           /\ \A g \in Generations : Phase(i, g) = "none" /\ i.sockets[g].ready = FALSE
<1>. DEFINE idle == [phase |-> "none", auto |-> FALSE, ready |-> FALSE, final |-> "none"]
            all == [g \in Generations |-> idle]
<1>1. idle \in Sockets /\ idle.phase = "none" /\ idle.ready = FALSE
  BY DEF Sockets, Final
<1>2. MaxCols \in Widths /\ MaxGeneration \in Nat /\ 0 \in 0..MaxGeneration
  BY PageAssumption DEF Widths
<1>3. i = [state |-> "connecting", grid |-> MaxCols, sent |-> 0, early |-> "none", generation |-> 0,
           socket |-> 0, handshake |-> 0, retry |-> FALSE, manuallyDetached |-> FALSE,
           credential |-> FALSE, detach |-> "none", online |-> online, suspended |-> FALSE,
           requests |-> {}, sockets |-> all]
  BY DEF Initially
<1>. HIDE DEF idle
<1>4. all \in [Generations -> Sockets] /\ \A g \in Generations : all[g] = idle
  BY <1>1
<1>. HIDE DEF all
<1>5. i \in WidePages
  BY <1>2, <1>3, <1>4 DEF WidePages, Waiting
<1>6. i.sockets = all
  BY <1>3
<1>7. \A g \in Generations : Phase(i, g) = "none" /\ i.sockets[g].ready = FALSE
  BY <1>1, <1>4, <1>6 DEF Phase
<1>8. /\ i.socket = 0 /\ i.handshake = 0 /\ i.requests = {} /\ i.generation = 0
      /\ i.early = "none" /\ i.detach = "none" /\ i.online = online
      /\ i.state = "connecting" /\ i.grid = MaxCols /\ i.sent = 0
  BY <1>3
<1>9. i.suspended = FALSE /\ i.credential = FALSE /\ i.manuallyDetached = FALSE /\ i.retry = FALSE
  BY <1>3
<1>. QED
  BY <1>5, <1>7, <1>8, <1>9

\* A page that has loaded is in order
LEMMA LoadedInv ==
    ASSUME Init
    PROVE  IInv
<1>. DEFINE r == [generation |-> 1, auto |-> FALSE]
<1>1. PICK online \in BOOLEAN, early \in {"none", "asked"} :
          IF online THEN page = [BeginConnection(Initially(online), FALSE) EXCEPT !.early = early]
          ELSE early = "none" /\ page = BeginConnection(Initially(online), FALSE)
  BY DEF Init
<1>. DEFINE i == Initially(online)
            m == i.manuallyDetached /\ FALSE
            q == [i EXCEPT !.manuallyDetached = m, !.credential = FALSE, !.retry = FALSE]
<1>4. /\ i.socket = 0 /\ i.handshake = 0 /\ i.requests = {}
      /\ i.generation = 0 /\ i.early = "none" /\ i.detach = "none" /\ i.online = online
      /\ i.suspended = FALSE /\ i.state = "connecting" /\ i.grid = MaxCols /\ i.sent = 0
      /\ i.credential = FALSE /\ i.manuallyDetached = FALSE /\ i.retry = FALSE
      /\ \A g \in Generations : Phase(i, g) = "none" /\ i.sockets[g].ready = FALSE
  BY InitialFields
<1>5. i \in WidePages
  BY InitialFields
<1>. HIDE DEF i
<1>6. q = i
  <2>1. m = FALSE
    BY <1>4
  <2>. HIDE DEF m
  <2>. QED
    BY <1>4, <1>5, <2>1 DEF WidePages
<1>7. /\ inbox \in [Generations -> Seq(Messages \cup Closes)]
      /\ conn \in [Generations -> {"none", "greeted", "attached", "leaving", "over"}]
      /\ uplink \in [Generations -> Seq(Widths)]
      /\ tty \in [Generations -> Widths \cup {0}]
      /\ data \in 0..MaxData /\ fits \in 0..MaxFits /\ displaced \in BOOLEAN
  <2>1. <<>> \in Seq(Messages \cup Closes) /\ <<>> \in Seq(Widths)
    OBVIOUS
  <2>2. inbox \in [Generations -> Seq(Messages \cup Closes)] /\ uplink \in [Generations -> Seq(Widths)]
    BY <2>1 DEF Init
  <2>3. conn = [g \in Generations |-> "none"] /\ tty = [g \in Generations |-> 0]
        /\ data = 0 /\ fits = 0 /\ displaced = FALSE
    BY DEF Init
  <2>4. conn \in [Generations -> {"none", "greeted", "attached", "leaving", "over"}]
    BY <2>3
  <2>5. tty \in [Generations -> Widths \cup {0}]
    BY <2>3
  <2>6. data \in 0..MaxData /\ fits \in 0..MaxFits /\ displaced \in BOOLEAN
    <3>1. 0 \in 0..MaxData /\ 0 \in 0..MaxFits
      BY PageAssumption
    <3>2. displaced \in BOOLEAN
      BY <2>3
    <3>. QED
      BY <2>3, <3>1, <3>2
  <2>. QED
    BY <2>2, <2>4, <2>5, <2>6
<1>8. CASE ~online
  <2>1. page = SetState(i, "offline")
    <3>1. page = BeginConnection(i, FALSE)
      BY <1>1, <1>8 DEF i
    <3>. QED
      BY <1>4, <1>6, <1>8, <3>1 DEF BeginConnection
  <2>. HIDE DEF q, m
  <2>2. /\ /\ page.generation = i.generation /\ page.socket = i.socket /\ page.handshake = i.handshake
        /\ page.requests = i.requests /\ page.sockets = i.sockets /\ page.online = i.online
        /\ page.detach = i.detach /\ page.suspended = i.suspended /\ page.grid = i.grid
        /\ page.sent = i.sent /\ page.retry = i.retry /\ page.manuallyDetached = i.manuallyDetached
        /\ page.state = "offline" /\ page.credential = FALSE /\ page.early = "none" /\ page \in WidePages
    <3>1. page \in WidePages
      BY <1>5, <2>1, StateType
    <3>. QED
      BY <1>4, <1>5, <2>1, <3>1 DEF SetState, WidePages
  <2>3. ~Asked(page) /\ ~Begun(page)
    BY <1>4, <2>2 DEF Asked, Begun
  <2>4. \A g \in Generations : Phase(page, g) = "none" /\ page.sockets[g].ready = FALSE
    BY <1>4, <2>2 DEF Phase
  <2>5. Numbered(page)
    BY <1>4, <2>2, <2>3, <2>4 DEF Numbered
  <2>6. Early(page) /\ Attached(page) /\ Shown(page)
    BY <1>4, <1>8, <2>2, <2>3 DEF Early, Attached, Shown, Waiting
  <2>7. page.generation = 0 /\ page.socket = 0
    BY <1>4, <2>2
  <2>8. page \in Pages
    BY <2>2, <2>5, <2>6, <2>7, BackInPages, PageAssumption DEF PageInv
  <2>9. TypeOK
    BY <1>7, <2>8 DEF TypeOK
  <2>10. WireInv
    BY <2>2, <2>4, EmptyReplies DEF Init, WireInv, Wire, Unheard
  <2>11. WidthInv
    BY <2>7 DEF Init, WidthInv
  <2>. QED
    BY <2>5, <2>6, <2>9, <2>10, <2>11 DEF IInv, PageInv
<1>9. CASE online
  <2>. DEFINE s == StopCurrentTransport(i)
  <2>0. page = [BeginConnection(i, FALSE) EXCEPT !.early = early]
    BY <1>1, <1>9 DEF i
  <2>1. BeginConnection(i, FALSE) =
            [SetState(s, "connecting") EXCEPT
                !.requests = @ \cup {[generation |-> s.generation, auto |-> FALSE]}]
    <3>1. s = StopCurrentTransport(q)
      BY <1>6
    <3>. HIDE DEF s
    <3>. QED
      BY <1>4, <1>6, <1>9, <3>1 DEF BeginConnection
  <2>. HIDE DEF q, m
  <2>3. s \in WidePages
    BY <1>5, StopType
  <2>4. /\ s.socket = 0 /\ s.handshake = 0 /\ s.requests = {} /\ s.generation = 1
        /\ s.early = "none" /\ s.detach = "none" /\ s.online = online /\ s.suspended = FALSE
        /\ s.manuallyDetached = FALSE /\ s.retry = FALSE
        /\ \A g \in Generations : Phase(s, g) = "none" /\ s.sockets[g].ready = FALSE
    <3>1. s = [i EXCEPT !.generation = @ + 1, !.socket = 0, !.handshake = 0]
      BY <1>4 DEF StopCurrentTransport, Discard
    <3>. HIDE DEF s
    <3>. QED
      BY <1>4, <1>5, <3>1 DEF WidePages, Phase
  <2>. HIDE DEF s
  <2>5. SetState(s, "connecting").requests = {}
    BY <2>3, <2>4 DEF SetState, WidePages
  <2>6. page = [[SetState(s, "connecting") EXCEPT !.requests = {r}] EXCEPT !.early = early]
    <3>. DEFINE t == SetState(s, "connecting")
    <3>1. page = [[t EXCEPT !.requests = t.requests \cup {r}] EXCEPT !.early = early]
      BY <2>0, <2>1, <2>4
    <3>2. t.requests \cup {r} = {r}
      BY <2>5
    <3>. DEFINE all == t.requests \cup {r}
    <3>4. page = [[t EXCEPT !.requests = all] EXCEPT !.early = early] /\ all = {r}
      BY <3>1, <3>2
    <3>. HIDE DEF all
    <3>5. page = [[t EXCEPT !.requests = {r}] EXCEPT !.early = early]
      BY <3>4
    <3>. QED
      BY <3>5
  <2>7. SetState(s, "connecting") \in WidePages
    BY <2>3, StateType DEF Waiting
  <2>8. page \in WidePages
    <3>1. {r} \in SUBSET [generation : Nat, auto : BOOLEAN]
      OBVIOUS
    <3>. HIDE DEF r
    <3>. QED
      BY <2>6, <2>7, <3>1 DEF WidePages
  <2>9. /\ page.generation = 1 /\ page.socket = 0 /\ page.handshake = 0
        /\ page.detach = "none" /\ page.manuallyDetached = FALSE
        /\ page.suspended = FALSE /\ page.retry = FALSE /\ page.online = online
    <3>1. /\ page.generation = s.generation /\ page.socket = s.socket /\ page.handshake = s.handshake
          /\ page.detach = s.detach /\ page.manuallyDetached = s.manuallyDetached
          /\ page.suspended = s.suspended /\ page.retry = s.retry /\ page.online = s.online
      BY <2>3, <2>6 DEF SetState, WidePages
    <3>. QED
      BY <2>4, <3>1
  <2>10. page.state = "connecting" /\ page.credential = FALSE /\ page.requests = {r} /\ page.early = early
    BY <2>3, <2>6 DEF SetState, WidePages
  <2>11. Asked(page)
    BY <2>9, <2>10 DEF Asked
  <2>12. \A g \in Generations : Phase(page, g) = "none" /\ page.sockets[g].ready = FALSE
    <3>1. page.sockets = s.sockets
      BY <2>3, <2>6 DEF SetState, WidePages
    <3>. QED
      BY <2>4, <3>1 DEF Phase
  <2>13. Numbered(page)
    BY <2>9, <2>10, <2>12 DEF Numbered
  <2>14. Early(page)
    BY <2>9, <2>10, <2>12, Generation DEF Early
  <2>15. Attached(page) /\ Shown(page)
    BY <1>9, <2>9, <2>10, <2>11 DEF Attached, Shown
  <2>16. page \in Pages
    BY <2>8, <2>9, <2>13, <2>14, <2>15, BackInPages, PageAssumption DEF PageInv
  <2>17. TypeOK
    BY <1>7, <2>16 DEF TypeOK
  <2>18. WireInv
    BY <2>10, <2>12, EmptyReplies DEF Init, WireInv, Wire, Unheard
  <2>19. WidthInv
    BY <2>9 DEF Init, WidthInv
  <2>. QED
    BY <2>13, <2>14, <2>15, <2>17, <2>18, <2>19 DEF IInv, PageInv
<1>. QED
  BY <1>8, <1>9

\* Whatever the browser, the server and the network do in whatever order, the page
\* is in order: attempts are told apart, what it shows is what it has under way, the
\* server answers once, and the width that will arrive is the one that is shown.
THEOREM Invariance == Spec => []IInv
<1>1. Init => IInv
  BY LoadedInv
<1>2. IInv /\ [Next]_vars => IInv'
  <2>. SUFFICES ASSUME IInv, [Next]_vars PROVE IInv'
    OBVIOUS
  <2>1. page \in Pages /\ PageInv(page) /\ displaced \in BOOLEAN
    BY DEF IInv, TypeOK
  <2>2. CASE UNCHANGED vars
    BY <2>2 DEF IInv, TypeOK, WireInv, WidthInv, Due, vars, sizes
  <2>3. ASSUME Next PROVE page'.generation <= MaxGeneration
    BY <2>3 DEF Next
  <2>4. ASSUME Good(page, page'), Network, displaced' \in BOOLEAN, Next PROVE IInv'
    BY <2>3, <2>4, QuietStep
  <2>5. ASSUME Next, SessionAnswered PROVE IInv'
    BY <2>1, <2>4, <2>5, SessionAnsweredGood DEF SessionAnswered
  <2>6. ASSUME Next, EarlySocketBegins PROVE IInv'
    BY <2>1, <2>4, <2>6, EarlyBeginsGood DEF EarlySocketBegins
  <2>7. ASSUME Next, EarlySocketAdopted PROVE IInv'
    BY <2>3, <2>7, AdoptedInv
  <2>8. ASSUME Next, EarlyAnswerRefused PROVE IInv'
    BY <2>1, <2>4, <2>8, EarlyRefusedGood DEF EarlyAnswerRefused
  <2>9. ASSUME Next, DetachSessionAnswered PROVE IInv'
    BY <2>1, <2>4, <2>9, DetachSessionGood DEF DetachSessionAnswered
  <2>10. ASSUME Next, DetachPostAnswered PROVE IInv'
    BY <2>1, <2>4, <2>10, DetachPostGood DEF DetachPostAnswered
  <2>11. ASSUME Next, RetryFires PROVE IInv'
    BY <2>1, <2>4, <2>11, RetryGood DEF RetryFires
  <2>12. ASSUME Next, HandshakeFires PROVE IInv'
    BY <2>1, <2>4, <2>12, HandshakeGood DEF HandshakeFires
  <2>13. ASSUME Next, BecomesVisible PROVE IInv'
    BY <2>1, <2>4, <2>13, RetryGood DEF BecomesVisible
  <2>14. ASSUME Next, ClickAction PROVE IInv'
    BY <2>1, <2>4, <2>14, ClickActionGood DEF ClickAction
  <2>15. ASSUME Next, ClickDetach PROVE IInv'
    BY <2>1, <2>4, <2>15, ClickDetachGood DEF ClickDetach
  <2>16. ASSUME Next, GoOffline PROVE IInv'
    BY <2>1, <2>4, <2>16, OfflineGood DEF GoOffline
  <2>17. ASSUME Next, GoOnline PROVE IInv'
    BY <2>1, <2>4, <2>17, OnlineGood DEF GoOnline
  <2>18. ASSUME Next, PageHide PROVE IInv'
    BY <2>1, <2>4, <2>18, PageHideGood DEF PageHide
  <2>19. ASSUME Next, PageShow PROVE IInv'
    BY <2>1, <2>4, <2>19, PageShowGood DEF PageShow
  <2>20. ASSUME Next, Fits PROVE IInv'
    BY <2>3, <2>20, FitsInv
  <2>21. ASSUME Next, NEW g \in Generations, SocketOpens(g) PROVE IInv'
    BY <2>3, <2>21, OpensInv
  <2>22. ASSUME Next, NEW g \in Generations, MessageArrives(g) PROVE IInv'
    BY <2>3, <2>22, ArrivesInv
  <2>23. ASSUME Next, NEW g \in Generations, SocketCloses(g) PROVE IInv'
    BY <2>3, <2>23, ClosesInv
  <2>24. ASSUME NEW g \in Generations, Environment(g) PROVE IInv'
    BY <2>24, ServerInv
  <2>. QED
    BY <2>2, <2>5, <2>6, <2>7, <2>8, <2>9, <2>10, <2>11, <2>12, <2>13, <2>14, <2>15, <2>16,
       <2>17, <2>18, <2>19, <2>20, <2>21, <2>22, <2>23, <2>24 DEF Next, SocketEvent
<1>. QED
  BY <1>1, <1>2, PTL DEF Spec

\* Types of the variables of the page and of what is on its way.
THEOREM TypeCorrect == Spec => []TypeOK
BY Invariance, PTL DEF IInv

\* A page that is connecting or reconnecting always has something under way that
\* will move it on, and a take-over that disables the buttons waits for an answer.
THEOREM Stranded == Spec => []NeverStranded
<1>1. IInv => NeverStranded
  <2>. SUFFICES ASSUME IInv PROVE NeverStranded
    OBVIOUS
  <2>1. page \in WidePages /\ PageInv(page)
    BY PagesWide DEF IInv, TypeOK
  <2>2. page.socket # 0 => page.socket \in Generations
    BY <2>1, Generation DEF WidePages
  <2>3. page.state \in Waiting /\ page.socket # 0 => page.handshake = page.socket
    <3>1. page.socket # 0 => page.sockets[page.socket].final \in Final
      BY <2>1, <2>2 DEF WidePages, Sockets
    <3>. QED
      BY <2>1, <3>1 DEF PageInv, Attached, Waiting, Final
  <2>. QED
    BY <2>1, <2>3 DEF PageInv, Shown, NeverStranded, InFlight, Asked
<1>. QED
  BY <1>1, Invariance, PTL

\* The page never keeps a second socket open beside its own.
THEOREM SocketAlone == Spec => []OneSocket
<1>1. IInv => OneSocket
  <2>. SUFFICES ASSUME IInv, NEW g \in Generations, Phase(page, g) \in {"connecting", "open"},
                       page.socket # g
                PROVE  Unheard(page, g) /\ page.socket = 0 /\ InFlight
    BY DEF OneSocket, Phase
  <2>1. PageInv(page)
    BY DEF IInv
  <2>2. Unheard(page, g)
    BY <2>1 DEF PageInv, Numbered
  <2>3. Begun(page)
    BY <2>1, <2>2 DEF PageInv, Early, Unheard, Begun
  <2>. QED
    BY <2>1, <2>2, <2>3, BegunAsked DEF PageInv, Asked, InFlight
<1>. QED
  BY <1>1, Invariance, PTL

\* The page shows that it is connected exactly when its socket is open, was
\* announced ready and has not ended.
THEOREM ReadyAttached == Spec => []ReadyMeansAttached
<1>1. IInv => ReadyMeansAttached
  <2>. SUFFICES ASSUME IInv PROVE ReadyMeansAttached
    OBVIOUS
  <2>1. page \in WidePages /\ PageInv(page)
    BY PagesWide DEF IInv, TypeOK
  <2>2. page.socket # 0 => page.sockets[page.socket].final # "ready"
    <3>1. page.socket # 0 => page.socket \in Generations
      BY <2>1, Generation DEF WidePages
    <3>. QED
      BY <2>1, <3>1 DEF WidePages, Sockets, Final
  <2>. QED
    BY <2>1, <2>2 DEF PageInv, Attached, Shown, ReadyMeansAttached, Waiting
<1>. QED
  BY <1>1, Invariance, PTL

\* A connected page draws on as many columns as the client behind it, once what it
\* has sent has arrived.
THEOREM WidthsMatch == Spec => []WidthsAgree
<1>1. IInv => WidthsAgree
  <2>. SUFFICES ASSUME IInv, page.state = "ready", page.socket # 0,
                       conn[page.socket] = "attached", uplink[page.socket] = <<>>
                PROVE  tty[page.socket] = page.grid
    BY DEF WidthsAgree
  <2>1. page \in WidePages /\ PageInv(page)
    BY PagesWide DEF IInv, TypeOK
  <2>2. page.sockets[page.socket].final # "ready"
    <3>1. page.socket \in Generations
      BY <2>1, Generation DEF WidePages
    <3>. QED
      BY <2>1, <3>1 DEF WidePages, Sockets, Final
  <2>3. Phase(page, page.socket) = "open"
    BY <2>1, <2>2 DEF PageInv, Attached, Waiting, Phase
  <2>4. Due(page.socket) = page.sent /\ page.grid = page.sent
    BY <2>3 DEF IInv, WidthInv
  <2>. QED
    BY <2>4 DEF Due
<1>. QED
  BY <1>1, Invariance, PTL

\* The page never has two plans at once: while a request of its attempt is out or
\* its socket is there the reconnect timer does not run and no take-over is being
\* prepared, and it has no socket as long as it waits for a session.  The timer is
\* set in one place and cleared in seven (app.js 961-1032, 1745-1907, 2057-2079).
THEOREM OnePlan ==
    Spec => [](/\ InFlight => page.socket = 0 /\ ~page.retry
               /\ InFlight \/ page.socket # 0 => page.detach \notin {"session", "post"}
               /\ page.socket # 0 => ~page.retry)
<1>1. IInv => /\ InFlight => page.socket = 0 /\ ~page.retry
              /\ InFlight \/ page.socket # 0 => page.detach \notin {"session", "post"}
              /\ page.socket # 0 => ~page.retry
  BY DEF IInv, PageInv, Numbered, Attached, Shown, Asked, InFlight
<1>. QED
  BY <1>1, Invariance, PTL

\* A page that is hidden or offline has nothing under way: no socket of its own, no
\* request whose answer it would take, no timer, no early socket, and hidden, no
\* take-over.  Only pageshow and online begin again (app.js 2057-2090).
THEOREM Sleeps ==
    Spec => [](page.suspended \/ ~page.online =>
                  /\ page.socket = 0 /\ ~InFlight /\ ~Begun(page)
                  /\ ~page.retry /\ page.handshake = 0
                  /\ page.suspended => page.detach = "none")
<1>1. IInv => (page.suspended \/ ~page.online =>
                  /\ page.socket = 0 /\ ~InFlight /\ ~Begun(page)
                  /\ ~page.retry /\ page.handshake = 0
                  /\ page.suspended => page.detach = "none")
  <2>. SUFFICES ASSUME IInv, page.suspended \/ ~page.online
                PROVE  /\ page.socket = 0 /\ ~InFlight /\ ~Begun(page)
                       /\ ~page.retry /\ page.handshake = 0
                       /\ page.suspended => page.detach = "none"
    OBVIOUS
  <2>1. page \in WidePages /\ PageInv(page)
    BY PagesWide DEF IInv, TypeOK
  <2>2. page.socket = 0 /\ ~Asked(page) /\ ~Begun(page) /\ ~page.retry
        /\ (page.suspended => page.detach = "none")
    BY <2>1, Dormant
  <2>3. page.handshake = 0
    BY <2>1, <2>2 DEF PageInv, Numbered
  <2>. QED
    BY <2>2, <2>3 DEF InFlight, Asked
<1>. QED
  BY <1>1, Invariance, PTL

-----------------------------------------------------------------------------
(* A detached page *)

\* What a page that shows "detached" has: nothing
Resting(p) ==
    /\ p \in WidePages /\ PageInv(p) /\ p.state = "detached" /\ p.manuallyDetached
    /\ ~p.retry /\ ~Asked(p) /\ ~Begun(p) /\ p.detach = "none"
    /\ \A g \in Generations : Phase(p, g) \notin {"connecting", "open"}

\* A page that shows "detached" rests
LEMMA DetachedRests ==
    ASSUME NEW p \in WidePages, PageInv(p), p.state = "detached"
    PROVE  Resting(p)
<1>1. p.manuallyDetached /\ ~p.retry /\ ~Asked(p)
  BY DEF PageInv, Shown
<1>2. ~Begun(p)
  BY <1>1, BegunAsked DEF PageInv
<1>3. p.detach = "none"
  <2>1. p.detach \in {"none", "session", "post", "connect"}
    BY DEF WidePages
  <2>. QED
    BY <1>1, <2>1 DEF PageInv, Shown
<1>4. \A g \in Generations : Phase(p, g) \notin {"connecting", "open"}
  <2>. SUFFICES ASSUME NEW g \in Generations, Phase(p, g) \in {"connecting", "open"} PROVE FALSE
    OBVIOUS
  <2>1. p.socket = g \/ Unheard(p, g)
    BY DEF PageInv, Numbered
  <2>2. p.socket # g
    BY <1>1, Generation DEF PageInv, Shown
  <2>. QED
    BY <1>2, <2>1, <2>2 DEF PageInv, Early, Unheard, Begun
<1>. QED
  BY <1>1, <1>2, <1>3, <1>4 DEF Resting

\* Going offline or away does not change what it shows
LEMMA AbortedRests ==
    ASSUME NEW p \in WidePages, p.state = "detached", p.detach = "none",
           NEW q \in Aborted(StopCurrentTransport(p))
    PROVE  q.state = "detached"
<1>. DEFINE s == StopCurrentTransport(p)
<1>1. s \in WidePages
  BY StopType
<1>2. s.state = "detached" /\ s.detach = "none"
  BY StopFields
<1>. HIDE DEF s
<1>3. q \in Aborted(s)
  BY DEF s
<1>4. q = [s EXCEPT !.detach = "none"]
  BY <1>2, <1>3 DEF Aborted
<1>. QED
  BY <1>1, <1>2, <1>4 DEF WidePages

\* Nor does the end of its socket
LEMMA ClosedRests ==
    ASSUME NEW p, Resting(p), NEW g \in Generations, NEW reason, NEW stable,
           Phase(p, g) \in {"connecting", "open", "closing"},
           NEW c, c = Closed(p, g, reason, stable)
    PROVE  c.state = "detached"
<1>. DEFINE gone == [p EXCEPT !.sockets[g].phase = "closed"]
            q == [gone EXCEPT !.socket = IF @ = g THEN 0 ELSE @, !.handshake = 0]
            told == reason = "close_detached" /\ p.sockets[g].final # "detached"
            r == IF told THEN MarkDetached(q, g) ELSE q
            final == r.sockets[g].final
<1>1. p \in WidePages /\ p.state = "detached"
  BY DEF Resting
<1>2. gone \in WidePages
  <2>1. p.sockets[g] \in Sockets
    BY <1>1 DEF WidePages
  <2>2. [p.sockets[g] EXCEPT !.phase = "closed"] \in Sockets
    BY <2>1 DEF Sockets
  <2>. QED
    BY <1>1, <2>2 DEF WidePages
<1>3. gone.state = "detached" /\ gone.sockets[g].final = p.sockets[g].final /\ gone.socket = p.socket
  BY <1>1 DEF WidePages, Sockets
<1>. HIDE DEF gone
<1>4. CASE g # p.generation \/ Unheard(p, g)
  BY <1>3, <1>4 DEF Closed, gone
<1>5. CASE g = p.generation /\ ~Unheard(p, g)
  <2>1. p.socket = g
    BY <1>5 DEF Resting, PageInv, Numbered
  <2>2. g # 0 /\ ~p.suspended /\ p.sockets[g].final = "detached"
    <3>1. g # 0
      BY Generation
    <3>. QED
      BY <1>1, <2>1, <3>1 DEF Resting, PageInv, Attached, Waiting
  <2>3. ~told
    BY <2>2
  <2>4. q.sockets[g].final = "detached" /\ q \in WidePages
    <3>1. q = [gone EXCEPT !.socket = 0, !.handshake = 0]
      BY <1>3, <2>1
    <3>. HIDE DEF q
    <3>. QED
      BY <1>2, <1>3, <2>2, <3>1, Generation DEF WidePages
  <2>5. c = SetState(q, "detached")
    BY <1>5, <2>2, <2>3, <2>4 DEF Closed, gone
  <2>. HIDE DEF q
  <2>. QED
    BY <2>4, <2>5 DEF SetState, WidePages
<1>. QED
  BY <1>4, <1>5

\* A page that was told it is detached has nothing under way that could take the
\* attachment back, and only its own button ends that.
THEOREM DetachedStays == Spec => DetachedPageRests
<1>. DEFINE Rests == page.state = "detached" =>
                        /\ ~page.retry /\ ~InFlight /\ page.detach = "none"
                        /\ \A g \in Generations : page.sockets[g].phase \notin {"connecting", "open"}
                        /\ page'.state = "detached" \/ ClickAction
<1>1. IInv /\ [Next]_vars => [Rests]_vars
  <2>. SUFFICES ASSUME IInv, Next, page.state = "detached"
                PROVE  /\ ~page.retry /\ ~InFlight /\ page.detach = "none"
                       /\ \A g \in Generations : page.sockets[g].phase \notin {"connecting", "open"}
                       /\ page'.state = "detached" \/ ClickAction
    OBVIOUS
  <2>1. page \in WidePages /\ PageInv(page)
    BY PagesWide DEF IInv, TypeOK
  <2>2. Resting(page)
    BY <2>1, DetachedRests
  <2>3. page.manuallyDetached /\ page.socket \in 0..MaxGeneration
    BY <2>1, <2>2 DEF Resting, WidePages
  <2>4. ASSUME SessionAnswered PROVE page'.state = "detached"
    <3>1. PICK r \in page.requests, answer \in Answers : page' = Answered(page, r, answer)
      BY <2>4 DEF SessionAnswered
    <3>2. r.generation # page.generation
      BY <2>2, <3>1 DEF Resting, Asked
    <3>. QED
      BY <2>1, <3>1, <3>2 DEF Answered, WidePages
  <2>5. ASSUME EarlySocketBegins \/ EarlySocketAdopted \/ EarlyAnswerRefused PROVE FALSE
    BY <2>2, <2>5 DEF EarlySocketBegins, EarlySocketAdopted, EarlyAnswerRefused, Resting, Begun
  <2>6. ASSUME DetachSessionAnswered \/ DetachPostAnswered \/ RetryFires \/ BecomesVisible \/ ClickDetach PROVE FALSE
    BY <2>2, <2>6 DEF DetachSessionAnswered, DetachPostAnswered, RetryFires, BecomesVisible,
                      ClickDetach, DetachShown, Resting
  <2>7. ASSUME HandshakeFires PROVE page'.state = "detached"
    <3>. DEFINE g == page.handshake
                q == [page EXCEPT !.handshake = 0]
    <3>1. g # 0 /\ page.socket = g
      BY <2>1, <2>7 DEF HandshakeFires, PageInv, Numbered
    <3>2. page.sockets[g].final # "none"
      BY <2>1, <3>1 DEF PageInv, Attached, Waiting
    <3>3. page' = q
      BY <2>7, <3>1, <3>2 DEF HandshakeFires, HandshakeTimesOut
    <3>. QED
      BY <2>1, <3>3 DEF WidePages
  <2>8. ASSUME GoOffline PROVE page'.state = "detached"
    <3>. DEFINE p == [page EXCEPT !.online = FALSE]
                w == [p EXCEPT !.retry = FALSE]
                s == StopCurrentTransport(w)
    <3>1. p \in WidePages /\ p.state = "detached"
      BY <2>1 DEF WidePages
    <3>2. w \in WidePages /\ w.state = "detached" /\ w.detach = "none" /\ w.manuallyDetached
      BY <2>1, <2>2 DEF WidePages, Resting
    <3>3. s.manuallyDetached
      <4>1. s = StopCurrentTransport(w)
        OBVIOUS
      <4>. HIDE DEF s, w
      <4>. QED
        BY <3>2, <4>1, StopFields
    <3>4. page' \in Aborted(s) \/ page' = p
      BY <2>8, <3>3 DEF GoOffline
    <3>5. CASE page' = p
      BY <3>1, <3>5
    <3>6. CASE page' \in Aborted(s)
      <4>. HIDE DEF w
      <4>. QED
        BY <3>2, <3>6, AbortedRests
    <3>. QED
      BY <3>4, <3>5, <3>6
  <2>9. ASSUME GoOnline PROVE page'.state = "detached"
    <3>. DEFINE p == [page EXCEPT !.online = TRUE]
    <3>1. p.manuallyDetached /\ p.state = "detached"
      BY <2>1, <2>3 DEF WidePages
    <3>. QED
      BY <2>9, <3>1 DEF GoOnline, WentOnline
  <2>10. ASSUME PageHide PROVE page'.state = "detached"
    <3>. DEFINE w == [page EXCEPT !.suspended = TRUE, !.retry = FALSE]
    <3>1. w \in WidePages /\ w.state = "detached" /\ w.detach = "none"
      BY <2>1, <2>2 DEF WidePages, Resting
    <3>2. page' \in Aborted(StopCurrentTransport(w))
      BY <2>10 DEF PageHide
    <3>. HIDE DEF w
    <3>. QED
      BY <3>1, <3>2, AbortedRests
  <2>11. ASSUME PageShow PROVE page'.state = "detached"
    <3>. DEFINE p == [page EXCEPT !.suspended = FALSE]
    <3>1. p.manuallyDetached /\ p.state = "detached"
      BY <2>1, <2>3 DEF WidePages
    <3>. QED
      BY <2>11, <3>1 DEF PageShow
  <2>12. ASSUME Fits PROVE page'.state = "detached"
    <3>1. PICK cols \in Grids : page' = SendResize([page EXCEPT !.grid = cols])
      BY <2>12 DEF Fits
    <3>. DEFINE p == [page EXCEPT !.grid = cols]
    <3>2. p \in WidePages /\ p.state = "detached"
      BY <2>1 DEF WidePages
    <3>3. page' = SendResize(p)
      BY <3>1
    <3>. HIDE DEF p
    <3>. QED
      BY <3>2, <3>3 DEF SendResize
  <2>13. ASSUME NEW g \in Generations, SocketOpens(g) PROVE FALSE
    BY <2>2, <2>13 DEF SocketOpens, Resting, Phase
  <2>14. ASSUME NEW g \in Generations, MessageArrives(g) PROVE page'.state = "detached"
    BY <2>2, <2>14 DEF MessageArrives, Resting, Phase
  <2>15. ASSUME NEW g \in Generations, SocketCloses(g) PROVE page'.state = "detached"
    <3>1. PICK stable \in BOOLEAN : page' = Closed(page, g, Head(inbox[g]), stable)
      BY <2>15 DEF SocketCloses
    <3>2. Phase(page, g) \in {"connecting", "open", "closing"}
      BY <2>15 DEF SocketCloses, Phase
    <3>. QED
      BY <2>2, <3>1, <3>2, ClosedRests
  <2>16. ASSUME NEW g \in Generations, Environment(g) PROVE page'.state = "detached"
    BY <2>16, ServerInv
  <2>17. page'.state = "detached" \/ ClickAction
    BY <2>4, <2>5, <2>6, <2>7, <2>8, <2>9, <2>10, <2>11, <2>12, <2>13, <2>14, <2>15, <2>16
       DEF Next, SocketEvent
  <2>. QED
    BY <2>2, <2>17 DEF Resting, InFlight, Asked, Phase
<1>. QED
  BY <1>1, Invariance, PTL DEF Spec, DetachedPageRests

=============================================================================
