-------------------------------- MODULE Page --------------------------------
(***************************************************************************)
(* web/app.js: how one browser page attaches, retries and gives way.  The  *)
(* page is single-threaded: one event handler is one step, and the         *)
(* promises it settles are settled before the next.  A handler is a        *)
(* function from the page to the page, composed as the code composes its   *)
(* calls.                                                                  *)
(*                                                                         *)
(* Every attempt has a number, its generation: the answer to its session   *)
(* request, the handlers of its socket and its handshake timer carry it    *)
(* and compare it with the page's own.                                     *)
(*                                                                         *)
(* The server and the network are the environment: inbox[g] is what they   *)
(* have sent to the socket of attempt g and the page has not handled yet.  *)
(***************************************************************************)
EXTENDS Naturals, Sequences, FiniteSets

CONSTANTS
    MaxGeneration,  \* bound: attempts and interruptions of the page
    MaxData,        \* bound: output and completions the server sends
    MinCols, MaxCols, \* MIN_COLS and MAX_COLS, minColumns and maxColumns
    Grids,          \* bound: the widths a layout gives the terminal
    MaxFits         \* bound: changes of the layout

ASSUME PageAssumption ==
    /\ MaxGeneration \in Nat \ {0} /\ MaxData \in Nat
    /\ MinCols \in Nat \ {0} /\ MaxCols \in Nat /\ MinCols <= MaxCols
    /\ Grids \subseteq Nat /\ MaxFits \in Nat

VARIABLES
    page,           \* the variables of app.js, see Pages
    inbox,          \* by attempt: what is on its way to the socket
    conn,           \* by attempt: the server's side of the socket
    uplink,         \* by attempt: the widths on their way to the server
    tty,            \* by attempt: the width of the PTY, 0 before there is one
    data, fits,     \* bound: frames of output and completions sent, layouts
    displaced       \* history: detached by the server for another page while
                    \* it showed itself connected, and no button pressed since

sizes == <<uplink, tty, fits>>
vars == <<page, inbox, conn, sizes, data, displaced>>

Generations == 1..MaxGeneration
Waiting == {"connecting", "reconnecting"}
Final == {"none", "limited", "ended", "error", "detached"}
\* "bad" is output that overflows the page's buffer, or a frame it does not know
Messages == {"ready", "data", "bad", "exit", "detached", "busy", "error"}
Closes == {"close", "close_detached"}

Sockets == [phase : {"none", "connecting", "open", "closing", "closed"},
            auto : BOOLEAN,             \* context.automatic
            ready : BOOLEAN,            \* context.ready
            final : Final]              \* context.finalState

Widths == MinCols..MaxCols

Pages ==
    [state : Waiting \cup {"ready", "limited", "detached", "offline", "ended", "error"},
     generation : 0..MaxGeneration,     \* connectionGeneration
     socket : 0..MaxGeneration,         \* the attempt whose socket it is, or 0
     handshake : 0..MaxGeneration,      \* the attempt whose handshakeTimer runs
     retry : BOOLEAN,                   \* reconnectTimer runs
     manuallyDetached : BOOLEAN,
     credential : BOOLEAN,              \* detachCredential is there
     \* detachAndConnect: what it awaits; detachPending is detach # "none"
     detach : {"none", "session", "post", "connect"},
     online : BOOLEAN,                  \* navigator.onLine
     suspended : BOOLEAN,               \* pageSuspended
     \* session requests of beginConnection without an answer
     requests : SUBSET [generation : Generations, auto : BOOLEAN],
     \* startInitialAttachment, of attempt 1: its request has no answer yet, or
     \* it has opened a socket that nobody listens to, or given that one up
     early : {"none", "asked", "opened", "discarded"},
     grid : Grids \cup Widths,           \* terminal.cols, wide at first
     sent : Widths \cup {0},             \* lastSentDimensions
     sockets : [Generations -> Sockets]]

TypeOK ==
    /\ page \in Pages
    /\ inbox \in [Generations -> Seq(Messages \cup Closes)]
    /\ conn \in [Generations -> {"none", "greeted", "attached", "leaving", "over"}]
    /\ uplink \in [Generations -> Seq(Widths)]
    /\ tty \in [Generations -> Widths \cup {0}]
    /\ data \in 0..MaxData /\ fits \in 0..MaxFits
    /\ displaced \in BOOLEAN

-----------------------------------------------------------------------------
(* The calls the handlers are made of *)

\* setConnectionState: only "limited" carries a credential
SetState(p, s) == [p EXCEPT !.state = s, !.credential = FALSE]
SetLimited(p, credential) == [p EXCEPT !.state = "limited", !.credential = credential]

\* websocket.close: nothing more is received, the close event comes later
CloseSocket(p, g) ==
    IF p.sockets[g].phase \in {"connecting", "open"}
    THEN [p EXCEPT !.sockets[g].phase = "closing"] ELSE p

\* discard of initial-attachment.js: the aborted request, or what comes after
\* it, closes the socket before the page handles another event
Discard(p) ==
    CASE p.early = "opened" -> [CloseSocket(p, 1) EXCEPT !.early = "discarded"]
      [] p.early = "asked" -> [p EXCEPT !.early = "none"]
      [] OTHER -> p

\* An answer is still to come for what startInitialAttachment began
Begun(p) == p.early \in {"asked", "opened"}

StopCurrentTransport(p) ==
    LET q == IF p.socket # 0 THEN CloseSocket(p, p.socket) ELSE Discard(p)
    IN [q EXCEPT !.generation = @ + 1, !.socket = 0, !.handshake = 0]

\* beginConnection up to its first await
BeginConnection(p, auto) ==
    LET q == [p EXCEPT !.manuallyDetached = @ /\ auto,
                       !.credential = FALSE, !.retry = FALSE]
        stopped == StopCurrentTransport(q)
    IN IF auto /\ (p.manuallyDetached \/ p.detach # "none") THEN p
       ELSE IF q.suspended THEN q
       ELSE IF ~q.online THEN SetState(q, "offline")
       ELSE [SetState(stopped, "connecting") EXCEPT
                !.requests = @ \cup {[generation |-> stopped.generation, auto |-> auto]}]

ScheduleReconnect(p, immediate) ==
    LET q == [p EXCEPT !.retry = FALSE]
    IN IF q.manuallyDetached \/ q.suspended THEN q
       ELSE IF ~q.online THEN SetState(q, "offline")
       ELSE IF immediate THEN BeginConnection(q, TRUE)
       ELSE [SetState(q, "reconnecting") EXCEPT !.retry = TRUE]

FailAndReconnect(p) == ScheduleReconnect(StopCurrentTransport(p), FALSE)

ProtocolFailure(p, g) ==
    CloseSocket([SetState(p, "error") EXCEPT !.sockets[g].final = "error"], g)

\* Fault: only the view changes
MarkDetachedInView(p, g) ==
    CloseSocket([SetState(p, "detached") EXCEPT !.sockets[g].final = "detached"], g)

MarkDetached(p, g) ==
    CloseSocket([SetState(p, "detached") EXCEPT
                    !.sockets[g].final = "detached",
                    !.manuallyDetached = TRUE, !.retry = FALSE, !.handshake = 0], g)

\* Fault: no handshake timer
OpenWithoutTimer(p, g, auto) ==
    [p EXCEPT !.socket = g,
              !.sockets[g] = [phase |-> "connecting", auto |-> auto,
                              ready |-> FALSE, final |-> "none"]]

OpenAttachment(p, g, auto) ==
    [p EXCEPT !.socket = g, !.handshake = g,
              !.sockets[g] = [phase |-> "connecting", auto |-> auto,
                              ready |-> FALSE, final |-> "none"]]

\* clampDimension of the page, normalized of the server; columns and rows are
\* treated alike, and one number stands for both
Clamp(cols) == IF cols < MinCols THEN MinCols
               ELSE IF cols > MaxCols THEN MaxCols ELSE cols

\* sendResize, with what currentDimensions does to the terminal
SendResize(p) ==
    IF p.state = "ready" /\ p.socket # 0 /\ p.sockets[p.socket].phase = "open"
    THEN [p EXCEPT !.grid = Clamp(@), !.sent = Clamp(p.grid)] ELSE p

\* What stopCurrentTransport's abort makes of a running detachAndConnect: it
\* ends silently, except that a body that cannot be read any more looks like a
\* conflict or a failure of its session request.
Aborted(p) ==
    LET ended == [p EXCEPT !.detach = "none"]
    IN {ended} \cup IF p.detach = "session"
                    THEN {SetLimited(ended, c) : c \in BOOLEAN} ELSE {}

-----------------------------------------------------------------------------
(* The answers to requests *)

\* openAttachment with the early socket, if it has not closed meanwhile
AdoptEarly(p, auto) ==
    LET phase == p.sockets[1].phase
        q == OpenAttachment([p EXCEPT !.early = "none"], 1, auto)
    IN IF phase = "closed" THEN q ELSE [q EXCEPT !.sockets[1].phase = phase]

\* beginConnection after its awaits; detachAndConnect awaits it in turn
Taken(p, r, answer) ==
    LET q == [p EXCEPT !.requests = @ \ {r},
                       !.detach = IF @ = "connect" THEN "none" ELSE @]
    IN CASE answer = "ok" -> IF q.suspended THEN q
                             ELSE IF q.early = "opened" THEN AdoptEarly(q, r.auto)
                             ELSE OpenAttachment(q, r.generation, r.auto)
         [] answer \in {"busy", "busy_token"} /\ ~r.auto ->
                SetLimited(Discard(q), answer = "busy_token")
         [] answer # "ok" /\ r.auto -> ScheduleReconnect(q, FALSE)
         [] answer = "failed" /\ ~r.auto -> SetState(Discard(q), "error")

\* Fault: an answer is taken whatever happened since the request
AnsweredLate(p, r, answer) == Taken(p, r, answer)

Answered(p, r, answer) ==
    IF r.generation = p.generation THEN Taken(p, r, answer)
    ELSE [p EXCEPT !.requests = @ \ {r}]

Answers == {"ok", "busy", "busy_token", "failed"}

Network == UNCHANGED <<inbox, conn, sizes, data>>

SessionAnswered ==
    /\ ~Begun(page)
    /\ \E r \in page.requests, answer \in Answers : page' = Answered(page, r, answer)
    /\ Network /\ UNCHANGED displaced

\* The head of the answer to the first request says that there is a session
EarlySocketBegins ==
    /\ page.early = "asked"
    /\ page' = [page EXCEPT !.early = "opened", !.sockets[1].phase = "connecting"]
    /\ Network /\ UNCHANGED displaced

\* detachAndConnect begins the connection, with the session if it has one, and
\* waits for what beginConnection waits for
ConnectWith(p, session) ==
    LET q == BeginConnection(p, FALSE)
        r == [generation |-> q.generation, auto |-> FALSE]
        waits == r \in q.requests
    IN IF session /\ waits
       THEN OpenAttachment([q EXCEPT !.requests = @ \ {r}, !.detach = "none"],
                           q.generation, FALSE)
       ELSE [q EXCEPT !.detach = IF waits THEN "connect" ELSE "none"]

DetachSessionAnswered ==
    /\ page.detach = "session" /\ page.generation < MaxGeneration
    /\ page' \in {ConnectWith(page, TRUE),                          \* nobody is attached
                  [page EXCEPT !.detach = "post"],                  \* a fresh credential
                  SetLimited([page EXCEPT !.detach = "none"], FALSE),
                  SetLimited([page EXCEPT !.detach = "none"], TRUE)}
    /\ Network /\ UNCHANGED displaced

DetachPostAnswered ==
    /\ page.detach = "post"
    /\ page' \in {ConnectWith(page, FALSE),
                  SetLimited([page EXCEPT !.detach = "none"], TRUE)}
    /\ Network /\ UNCHANGED displaced

-----------------------------------------------------------------------------
(* The events of a socket *)

Current(p, g) == p.socket = g /\ p.generation = g

\* The early socket has no listeners before it is adopted, if it ever is
Unheard(p, g) == g = 1 /\ p.early \in {"opened", "discarded"}

\* sendHello
Opened(p, g, agreed) ==
    LET q == [p EXCEPT !.sockets[g].phase = "open"]
    IN IF ~Current(p, g) \/ p.suspended THEN CloseSocket(q, g)
       ELSE IF ~agreed THEN ProtocolFailure(q, g)
       ELSE [SetState(q, "connecting") EXCEPT
                        !.grid = Clamp(@), !.sent = Clamp(q.grid)]

\* The hello is sent to a socket that the page listens to and leaves open
Greets(g, p) ==
    p.socket = g /\ p.sockets[g].phase = "open"

\* A width that sendResize sent, or none
Transmits(g) ==
    /\ uplink' = [uplink EXCEPT ![g] =
                     IF page'.sent # page.sent /\ conn[g] \in {"greeted", "attached"}
                     THEN Append(@, page'.sent) ELSE @]
    /\ UNCHANGED tty

SocketOpens(g) ==
    /\ page.sockets[g].phase = "connecting" /\ inbox[g] = <<>>
    /\ IF Unheard(page, g) THEN page' = [page EXCEPT !.sockets[g].phase = "open"]
       ELSE \E agreed \in BOOLEAN : page' = Opened(page, g, agreed)
    /\ IF Greets(g, page')
       THEN /\ conn' = [conn EXCEPT ![g] = "greeted"]
            /\ uplink' = [uplink EXCEPT ![g] = <<page'.sent>>]
       ELSE UNCHANGED <<conn, uplink>>
    /\ UNCHANGED <<inbox, tty, fits, data, displaced>>

\* The rest of the first answer: a socket that is open by then is sent the
\* hello at once, one that has closed is replaced
EarlySocketAdopted ==
    LET r == CHOOSE q \in page.requests : q.generation = 1
        p == Answered(page, r, "ok")
    IN /\ page.early = "opened"
       /\ IF p.sockets[1].phase = "open"
          THEN \E agreed \in BOOLEAN : page' = Opened(p, 1, agreed) ELSE page' = p
       /\ IF page.sockets[1].phase = "closed"
          THEN conn' = [conn EXCEPT ![1] = "none"] /\ UNCHANGED uplink
          ELSE IF Greets(1, page') /\ conn[1] = "none"
          THEN /\ conn' = [conn EXCEPT ![1] = "greeted"]
               /\ uplink' = [uplink EXCEPT ![1] = <<page'.sent>>]
          ELSE UNCHANGED <<conn, uplink>>
       /\ UNCHANGED <<inbox, tty, fits, data, displaced>>

\* The first answer is a refusal, or its body cannot be read
EarlyAnswerRefused ==
    /\ Begun(page)
    /\ \E r \in page.requests,
          answer \in IF page.early = "asked" THEN Answers \ {"ok"} ELSE {"failed"} :
          page' = Answered([page EXCEPT !.early = IF @ = "asked" THEN "none" ELSE @],
                           r, answer)
    /\ Network /\ UNCHANGED displaced

\* Fault: the width is not looked at again
BecomesReadyQuietly(p, g) ==
    SetState([p EXCEPT !.sockets[g].ready = TRUE, !.handshake = 0], "ready")

BecomesReady(p, g) ==
    SendResize(SetState([p EXCEPT !.sockets[g].ready = TRUE, !.handshake = 0], "ready"))

\* Fault: exit is only shown
ReceivedExitOnly(p, g, m) ==
    LET s == p.sockets[g]
    IN IF s.final # "none" THEN ProtocolFailure(p, g)
       ELSE CASE m = "ready" /\ ~s.ready -> BecomesReady(p, g)
              [] m = "data" /\ s.ready -> p
              [] m = "exit" /\ s.ready -> SetState(p, "ended")
              [] OTHER -> ProtocolFailure(p, g)

\* handleServerControl and writeServerOutput.  "data" is output or a
\* completion.
Received(p, g, m) ==
    LET s == p.sockets[g]
    IN IF \/ s.final # "none" \/ m = "bad"
          \/ m = "ready" /\ s.ready
          \/ m \in {"data", "exit", "detached"} /\ ~s.ready
       THEN ProtocolFailure(p, g)
       ELSE
       CASE m = "ready" -> BecomesReady(p, g)
         [] m = "data" -> p
         [] m = "exit" -> SetState([p EXCEPT !.sockets[g].final = "ended"], "ended")
         [] m = "detached" -> MarkDetached(p, g)
         [] m = "busy" /\ s.auto -> SetState(p, "reconnecting")
         [] m = "busy" /\ ~s.auto ->
                SetLimited([p EXCEPT !.sockets[g].final = "limited"], FALSE)
         [] m = "error" -> SetState([p EXCEPT !.sockets[g].final = "error"], "error")

MessageArrives(g) ==
    /\ inbox[g] # <<>> /\ Head(inbox[g]) \in Messages
    /\ page' = IF Current(page, g) /\ page.sockets[g].phase = "open"
               THEN Received(page, g, Head(inbox[g])) ELSE page
    /\ inbox' = [inbox EXCEPT ![g] = Tail(@)]
    /\ Transmits(g)
    /\ UNCHANGED <<conn, fits, data, displaced>>

\* Fault: the final state is shown whether there is one or not
ClosedUnguarded(p, g, reason, stable) ==
    LET gone == [p EXCEPT !.sockets[g].phase = "closed"]
    IN IF g # p.generation THEN gone
       ELSE SetState([gone EXCEPT !.socket = 0, !.handshake = 0], p.sockets[g].final)

\* The close event; stable is an attachment that lasted STABLE_ATTACHMENT_MS
Closed(p, g, reason, stable) ==
    LET gone == [p EXCEPT !.sockets[g].phase = "closed"]
        q == [gone EXCEPT !.socket = IF @ = g THEN 0 ELSE @, !.handshake = 0]
        s == p.sockets[g]
        told == reason = "close_detached" /\ s.final # "detached"
        r == IF told THEN MarkDetached(q, g) ELSE q
        final == r.sockets[g].final
    IN IF g # p.generation \/ Unheard(p, g) THEN gone
       ELSE IF p.suspended THEN r
       ELSE IF final # "none" THEN SetState(r, final)
       ELSE IF r.manuallyDetached THEN r
       ELSE ScheduleReconnect(r, s.ready /\ stable)

SocketCloses(g) ==
    /\ inbox[g] # <<>> /\ Head(inbox[g]) \in Closes
    /\ page.sockets[g].phase \in {"connecting", "open", "closing"}
    /\ \E stable \in BOOLEAN : page' = Closed(page, g, Head(inbox[g]), stable)
    /\ inbox' = [inbox EXCEPT ![g] = <<>>]
    /\ conn' = [conn EXCEPT ![g] = IF @ = "none" THEN "over" ELSE @]
    /\ UNCHANGED <<sizes, data, displaced>>

-----------------------------------------------------------------------------
(* Timers, buttons and the browser *)

RetryFires ==
    /\ page.retry
    /\ page' = BeginConnection([page EXCEPT !.retry = FALSE], TRUE)
    /\ Network /\ UNCHANGED displaced

HandshakeTimesOut(p) ==
    LET g == p.handshake
        q == [p EXCEPT !.handshake = 0]
    IN IF Current(p, g) /\ p.sockets[g].final = "none"
       THEN FailAndReconnect(q) ELSE q

HandshakeFires ==
    /\ page.handshake # 0
    /\ page' = HandshakeTimesOut(page)
    /\ Network /\ UNCHANGED displaced

\* The view of every state but two offers a connection button, that of
\* "limited" a take-over button if there is a credential; detachPending
\* disables both
ActionShown(p) == p.state \notin {"connecting", "ready"}
DetachShown(p) == p.state = "limited" /\ p.credential
ButtonsEnabled(p) == p.detach = "none" /\ ~p.suspended

ClickAction ==
    /\ ActionShown(page) /\ ButtonsEnabled(page)
    /\ page' = BeginConnection(page, FALSE)
    /\ displaced' = FALSE /\ Network

ClickDetach ==
    /\ DetachShown(page) /\ ButtonsEnabled(page)
    /\ page' = [page EXCEPT !.detach = "session"]
    /\ displaced' = FALSE /\ Network

\* A frozen page hears of no change of the network
GoOffline ==
    /\ page.online
    /\ LET p == [page EXCEPT !.online = FALSE]
           q == StopCurrentTransport([p EXCEPT !.retry = FALSE])
           shown == IF q.manuallyDetached THEN q ELSE SetState(q, "offline")
       IN \/ page' \in Aborted(shown)
          \/ page.suspended /\ page' = p
    /\ Network /\ UNCHANGED displaced

WentOnline(p) ==
    IF ~p.manuallyDetached /\ ~p.suspended /\ p.state # "ready"
    THEN BeginConnection(p, TRUE) ELSE p

GoOnline ==
    /\ ~page.online
    /\ page' = WentOnline([page EXCEPT !.online = TRUE])
    /\ Network /\ UNCHANGED displaced

PageHide ==
    /\ ~page.suspended
    /\ page' \in Aborted(StopCurrentTransport([page EXCEPT !.suspended = TRUE,
                                                           !.retry = FALSE]))
    /\ Network /\ UNCHANGED displaced

PageShow ==
    /\ page.suspended
    /\ LET p == [page EXCEPT !.suspended = FALSE]
       IN page' = IF p.manuallyDetached THEN p ELSE BeginConnection(p, TRUE)
    /\ Network /\ UNCHANGED displaced

BecomesVisible ==
    /\ page.retry
    /\ page' = BeginConnection(page, TRUE)
    /\ Network /\ UNCHANGED displaced

\* fitTerminal and onResize, after a change of the layout.  The fit before the
\* hello is one of these steps before SocketOpens.
Fits ==
    /\ fits < MaxFits /\ fits' = fits + 1
    /\ ~page.suspended
    /\ \E cols \in Grids : page' = SendResize([page EXCEPT !.grid = cols])
    /\ IF page.socket # 0 THEN Transmits(page.socket) ELSE UNCHANGED <<uplink, tty>>
    /\ UNCHANGED <<inbox, conn, data, displaced>>

-----------------------------------------------------------------------------
(* The server and the network *)

\* Nothing follows a close
Sends(g, messages) ==
    IF page.sockets[g].phase = "closed" \/ \E i \in DOMAIN inbox[g] : inbox[g][i] \in Closes
    THEN UNCHANGED inbox ELSE inbox' = [inbox EXCEPT ![g] = @ \o messages]

Ends(g) ==
    /\ conn' = [conn EXCEPT ![g] = "over"]
    /\ uplink' = [uplink EXCEPT ![g] = <<>>]
    /\ tty' = [tty EXCEPT ![g] = 0]
    /\ UNCHANGED fits

\* The upgrade is refused, or there is no network
Refuse(g) ==
    /\ page.sockets[g].phase \in {"connecting", "closing"}
    /\ conn[g] = "none" /\ inbox[g] = <<>>
    /\ Sends(g, <<"close">>)
    /\ UNCHANGED <<page, conn, sizes, data, displaced>>

\* No hello came on the early socket
HelloTimesOut(g) ==
    /\ page.sockets[g].phase = "open" /\ conn[g] = "none"
    /\ Ends(g)
    /\ Sends(g, <<"error", "close">>)
    /\ UNCHANGED <<page, data, displaced>>

\* The server clamps the width in its turn
TakesWidth(g) ==
    /\ tty' = [tty EXCEPT ![g] = Clamp(Head(uplink[g]))]
    /\ uplink' = [uplink EXCEPT ![g] = Tail(@)]
    /\ UNCHANGED fits

\* The hello is accepted: one attachment at a time
Attach(g) ==
    /\ conn[g] = "greeted" /\ \A h \in Generations : conn[h] # "attached"
    /\ conn' = [conn EXCEPT ![g] = "attached"]
    /\ TakesWidth(g)
    /\ Sends(g, <<"ready">>)
    /\ UNCHANGED <<page, data, displaced>>

\* The input goroutine: decodeResize and ptySession.Resize
Resizes(g) ==
    /\ conn[g] = "attached" /\ uplink[g] # <<>>
    /\ TakesWidth(g)
    /\ UNCHANGED <<page, inbox, conn, data, displaced>>

TurnAway(g) ==
    /\ conn[g] = "greeted"
    /\ Ends(g)
    /\ \E m \in {"busy", "error"} : Sends(g, <<m, "close">>)
    /\ UNCHANGED <<page, data, displaced>>

SendData(g) ==
    /\ conn[g] \in {"attached", "leaving"} /\ data < MaxData
    /\ data' = data + 1
    /\ \E m \in {"data", "bad"} : Sends(g, <<m>>)
    /\ UNCHANGED <<page, conn, sizes, displaced>>

\* The child exits; a completion may still follow
Exit(g) ==
    /\ conn[g] = "attached"
    /\ conn' = [conn EXCEPT ![g] = "leaving"]
    /\ Sends(g, <<"exit">>)
    /\ UNCHANGED <<page, sizes, data, displaced>>

\* The attachment ends without a word, after exit, or because the page left
Leave(g) ==
    /\ \/ conn[g] \in {"attached", "leaving"}
       \/ conn[g] = "greeted" /\ page.sockets[g].phase \in {"closing", "closed"}
    /\ Ends(g)
    /\ Sends(g, <<"close">>)
    /\ UNCHANGED <<page, data, displaced>>

\* Another page takes the attachment over
Displace(g) ==
    /\ conn[g] = "attached"
    /\ Ends(g)
    /\ Sends(g, <<"detached", "close_detached">>)
    /\ displaced' = (displaced \/ (page.state = "ready" /\ page.socket = g))
    /\ UNCHANGED <<page, data>>

\* The network breaks: the page sees a close without what was still under way
Break(g) ==
    /\ page.sockets[g].phase \in {"open", "closing"}
    /\ inbox[g] # <<"close">>
    /\ inbox' = [inbox EXCEPT ![g] = <<"close">>]
    /\ UNCHANGED <<page, conn, sizes, data, displaced>>

-----------------------------------------------------------------------------

Initially(online) ==
    [state |-> "connecting", grid |-> MaxCols, sent |-> 0, early |-> "none", generation |-> 0, socket |-> 0, handshake |-> 0,
     retry |-> FALSE, manuallyDetached |-> FALSE, credential |-> FALSE,
     detach |-> "none", online |-> online, suspended |-> FALSE, requests |-> {},
     sockets |-> [g \in Generations |-> [phase |-> "none", auto |-> FALSE,
                                         ready |-> FALSE, final |-> "none"]]]

\* The page has loaded and begun its first connection.  What it had begun while
\* it loaded it has given up if it is offline now.
Init ==
    /\ \/ page = BeginConnection(Initially(FALSE), FALSE)
       \/ \E early \in {"none", "asked"} :   \* "none": it was offline as it loaded
             page = [BeginConnection(Initially(TRUE), FALSE) EXCEPT !.early = early]
    /\ inbox = [g \in Generations |-> <<>>]
    /\ conn = [g \in Generations |-> "none"]
    /\ uplink = [g \in Generations |-> <<>>] /\ tty = [g \in Generations |-> 0]
    /\ data = 0 /\ fits = 0 /\ displaced = FALSE

SocketEvent(g) == SocketOpens(g) \/ MessageArrives(g) \/ SocketCloses(g)

Environment(g) ==
    \/ Refuse(g) \/ HelloTimesOut(g) \/ Attach(g) \/ Resizes(g) \/ TurnAway(g) \/ SendData(g) \/ Exit(g)
    \/ Leave(g) \/ Displace(g) \/ Break(g)

Next ==
    /\ \/ SessionAnswered
       \/ EarlySocketBegins \/ EarlySocketAdopted \/ EarlyAnswerRefused
       \/ DetachSessionAnswered \/ DetachPostAnswered
       \/ RetryFires \/ HandshakeFires \/ BecomesVisible
       \/ ClickAction \/ ClickDetach
       \/ GoOffline \/ GoOnline \/ PageHide \/ PageShow \/ Fits
       \/ \E g \in Generations : SocketEvent(g) \/ Environment(g)
    /\ page'.generation <= MaxGeneration

Spec == Init /\ [][Next]_vars

-----------------------------------------------------------------------------
(* Properties *)

InFlight == \E r \in page.requests : r.generation = page.generation

\* A page that says it is connecting or reconnecting has something under way
\* that will move it on: a request of this attempt, a socket with its
\* handshake timer, or the reconnect timer; one that says it is offline is; and
\* a take-over that keeps the buttons disabled is still waiting for an answer.
\* The timers are set and cleared by nine handlers (app.js 943-1032).
NeverStranded ==
    /\ page.state \in Waiting /\ ~page.suspended =>
          InFlight \/ page.retry \/ (page.socket # 0 /\ page.handshake = page.socket)
    /\ page.state = "offline" => ~page.online \/ page.suspended
    /\ page.detach = "connect" => InFlight

\* The page never keeps a second socket open: it could attach there while it
\* shows, or is refused because of, the first (app.js 961-982, 1745-1789).
OneSocket ==
    \A g \in Generations :
        page.sockets[g].phase \in {"connecting", "open"} =>
            \/ page.socket = g
            \/ Unheard(page, g) /\ page.socket = 0 /\ InFlight

\* The page says it is connected exactly when its socket is open, was
\* announced ready and has not ended: otherwise keystrokes go nowhere, or a
\* live terminal takes none (app.js 771-773, 812-841).
ReadyMeansAttached ==
    ~page.suspended =>
        (page.state = "ready" <=>
            /\ page.socket # 0
            /\ LET s == page.sockets[page.socket]
               IN s.phase = "open" /\ s.ready /\ s.final = "none")

\* The terminal the client draws on is as wide as the one the page shows, once
\* what the page has sent has arrived: a width that changed between the hello and
\* ready, when nothing is sent, is not forgotten, and one left over from an
\* earlier attachment is not taken for this one's (app.js 1154-1174, 1456, 1637).
WidthsAgree ==
    LET g == page.socket
    IN page.state = "ready" /\ g # 0 =>
          (conn[g] = "attached" /\ uplink[g] = <<>> => tty[g] = page.grid)

\* A page that was told it is detached has nothing under way that could take
\* the attachment back, no timer, no request, no socket, and only its button
\* ends that (app.js 1389-1402 and every "manuallyDetached" after it).
DetachedPageRests ==
    [][page.state = "detached" =>
          /\ ~page.retry /\ ~InFlight /\ page.detach = "none"
          /\ \A g \in Generations : page.sockets[g].phase \notin {"connecting", "open"}
          /\ page'.state = "detached" \/ ClickAction]_vars

\* README.md:78 of a displaced page: "reconnect timers and network changes
\* cannot reclaim the session".
DisplacedPageStaysOut ==
    displaced /\ page.socket # 0 => conn[page.socket] # "attached"

=============================================================================
