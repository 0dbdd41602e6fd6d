------------------------------- MODULE Bridge -------------------------------
(***************************************************************************)
(* runBridge of bridge.go: the goroutines between one WebSocket and one    *)
(* PTY session, from the ready message to the return of the cleanup error. *)
(*                                                                         *)
(* Output is cut into numbered chunks, one per Read of the PTY.  A write   *)
(* to the socket is one step: socketWriter holds its mutex for one write   *)
(* with a deadline and nothing else, so what matters is the order in which *)
(* the writers get it.  PageGone stands for a peer that is gone and for    *)
(* one that reads too slowly for the deadline: from then on every write    *)
(* fails, as in the WebSocket library.                                     *)
(* runBridge reads one event, so the channel is its first event and its    *)
(* length.  Timers are not timed: a wait with a timeout may end at any     *)
(* moment.                                                                 *)
(***************************************************************************)
EXTENDS Naturals, Sequences

CONSTANTS
    MaxChunks,      \* bound: chunks of output the child produces
    QueueLimit,     \* outputQueue.limit, in chunks
    MaxCompletions, \* bound: agent completions to announce
    Disturbances    \* bound: what else happens in this instance

ASSUME BridgeAssumption ==
    /\ MaxChunks \in Nat /\ QueueLimit \in Nat \ {0} /\ MaxCompletions \in Nat
    /\ Disturbances \subseteq {"page", "pong", "invalid", "ping", "detach",
                              "shutdown", "stop", "reap", "descendant"}

VARIABLES
    pc,             \* of each goroutine
    conn,           \* "open", "failed" or "closed"
    wire,           \* the messages that reached the page
    child,          \* "running" or "exited"
    held,           \* a descendant keeps the PTY open after the child exits
    produced,       \* chunks the child wrote to the PTY
    taken,          \* chunks the reader took from it
    ptyClosed,      \* session.file is closed
    terminated,     \* ptySession.terminate: "no", "ok" or "failed"
    closed,         \* ptySession.Close: "no", "ok" or "failed"
    queue, queueClosed,
    item,           \* the chunk the writer popped, 0 if none
    dropped,        \* history: the queue refused a chunk
    firstEvent, eventCount, \* the channel of bridge events
    results,        \* the channel of Wait's result: "none", "ok" or "failed"
    completions,    \* agent completions still to announce
    ctx,            \* the attachment's context: "live", or what cancelled it
    detached,       \* active.detached
    bridgeCancelled,\* bridgeCtx
    \* locals of runBridge
    gotResult, ctxErr, sawDetached, text, natural, cleanupErr,
    gaveUp          \* history: a wait of runBridge for the output timed out

sockVars  == <<conn, wire>>
childVars == <<child, held, produced>>
ptyVars   == <<ptyClosed, terminated, closed>>
queueVars == <<taken, queue, queueClosed, item, dropped>>
eventVars == <<firstEvent, eventCount>>
ctxVars   == <<ctx, detached, bridgeCancelled>>
mainVars  == <<gotResult, ctxErr, sawDetached, text, natural, cleanupErr, gaveUp>>
envVars   == <<childVars, completions>>
worldVars == <<sockVars, envVars, ptyVars, queueVars, eventVars, results, ctxVars>>
dataVars  == <<worldVars, mainVars>>
vars == <<pc, dataVars>>

Goroutines == {"main", "reader", "writer", "input", "ping", "agents", "waiter"}

\* The kinds of event runBridge tells apart, and the goroutines that wait to
\* send one.
EventKinds == {"overflow", "protocol", "gone"}

\* Fault: room for the one event that is read.
EventsCapacityOfOne == 1

\* make(chan bridgeEvent, 8)
EventsCapacity == 8

Output(n) == <<"output", n>>
Finals == {"exit", "detached", "error"}
Messages == {Output(n) : n \in 1..MaxChunks}
            \cup {<<k, 0>> : k \in Finals \cup {"ready", "agent", "close"}}

MainPcs == {"ready", "earlyClose", "earlyWait", "select", "ctx", "detached",
            "awaitReader", "closeQueue", "awaitResult", "awaitWriter", "close",
            "final", "closeFrame", "returned"}
Pcs == {"off", "read", "push", "quit", "pop", "write", "idle", "wait", "end"}
       \cup EventKinds

TypeOK ==
    /\ pc \in [Goroutines -> MainPcs \cup Pcs]
    /\ conn \in {"open", "failed", "closed"} /\ wire \in Seq(Messages)
    /\ child \in {"running", "exited"} /\ held \in BOOLEAN
    /\ produced \in 0..MaxChunks /\ taken \in 0..produced
    /\ ptyClosed \in BOOLEAN
    /\ terminated \in {"no", "ok", "failed"} /\ closed \in {"no", "ok", "failed"}
    /\ queue \in Seq(1..MaxChunks) /\ Len(queue) <= QueueLimit
    /\ queueClosed \in BOOLEAN
    /\ item \in 0..MaxChunks /\ dropped \in BOOLEAN
    /\ firstEvent \in EventKinds \cup {"none"} /\ eventCount \in 0..EventsCapacity
    /\ results \in {"none", "ok", "failed"}
    /\ completions \in 0..MaxCompletions
    /\ ctx \in {"live", "detach", "shutdown"}
    /\ detached \in BOOLEAN /\ bridgeCancelled \in BOOLEAN
    /\ gotResult \in BOOLEAN /\ ctxErr \in BOOLEAN /\ sawDetached \in BOOLEAN
    /\ text \in {"none", "overflow", "protocol"}
    /\ natural \in BOOLEAN /\ cleanupErr \in BOOLEAN /\ gaveUp \in BOOLEAN

Init ==
    /\ pc = [g \in Goroutines |-> IF g = "main" THEN "ready" ELSE "off"]
    /\ conn = "open" /\ wire = <<>>
    /\ child = "running" /\ produced = 0
    /\ held \in IF "descendant" \in Disturbances THEN BOOLEAN ELSE {FALSE}
    /\ ptyClosed = FALSE /\ terminated = "no" /\ closed = "no"
    /\ taken = 0 /\ queue = <<>> /\ queueClosed = FALSE
    /\ item = 0 /\ dropped = FALSE
    /\ firstEvent = "none" /\ eventCount = 0
    /\ results = "none" /\ completions = MaxCompletions
    /\ ctx = "live" /\ detached = FALSE /\ bridgeCancelled = FALSE
    /\ gotResult = FALSE /\ ctxErr = FALSE /\ sawDetached = FALSE
    /\ text = "none" /\ natural = FALSE /\ cleanupErr = FALSE /\ gaveUp = FALSE

-----------------------------------------------------------------------------
(* Helpers.  As in Attachment, a definition whose comment starts with      *)
(* "Fault:" is a wrong version of the next one that nothing uses.          *)

Goto(g, label) == pc' = [pc EXCEPT ![g] = label]

\* Read returns an error once the file is closed, or when nobody is left who
\* could write to the PTY and everything was read.
ReadEnds == ptyClosed \/ (child = "exited" /\ ~held /\ taken = produced)

\* What may fail in a teardown: "stop" the unit, or the file's Close and the
\* command's Wait, which "reap" what is left.
Outcome(what) == IF what \in Disturbances THEN {"ok", "failed"} ELSE {"ok"}

\* ptySession.terminate: once, by the first of Close and Wait.  When the unit
\* could not be stopped, the process group is killed all the same.
Terminate ==
    IF terminated = "no"
    THEN /\ terminated' \in Outcome("stop")
         /\ child' \in IF terminated' = "ok" THEN {"exited"} ELSE {child, "exited"}
    ELSE UNCHANGED <<terminated, child>>

\* ptySession.Close: once.  It fails if terminate did, or the file's Close.
CloseSession ==
    IF closed = "no"
    THEN /\ ptyClosed' = TRUE
         /\ Terminate
         /\ closed' \in IF terminated' = "failed" THEN {"failed"} ELSE Outcome("reap")
    ELSE UNCHANGED <<ptyVars, child>>

\* A write to the socket that reaches the page, and one that fails.
Delivers(m) == conn = "open" /\ wire' = Append(wire, m) /\ UNCHANGED conn
WriteFails == conn # "open" /\ UNCHANGED sockVars

\* events <- bridgeEvent{...}; the goroutine returns, the reader through its
\* deferred calls, the completions forwarder to its retry loop.
Report(g) ==
    /\ pc[g] \in EventKinds
    /\ eventCount < EventsCapacity
    /\ firstEvent' = IF eventCount = 0 THEN pc[g] ELSE firstEvent
    /\ eventCount' = eventCount + 1
    /\ Goto(g, CASE g = "reader" -> "quit" [] g = "agents" -> "idle" [] OTHER -> "end")
    /\ UNCHANGED <<sockVars, envVars, ptyVars, queueVars, results, ctxVars, mainVars>>

-----------------------------------------------------------------------------
(* The PTY reader and the output queue                                     *)

ReaderReads ==
    /\ pc["reader"] = "read"
    /\ ~ptyClosed /\ taken < produced
    /\ taken' = taken + 1
    /\ Goto("reader", "push")
    /\ UNCHANGED <<sockVars, envVars, ptyVars, queue, queueClosed, item, dropped,
                   eventVars, results, ctxVars, mainVars>>

ReaderStops ==
    /\ pc["reader"] = "read"
    /\ ReadEnds
    /\ Goto("reader", "quit")
    /\ UNCHANGED dataVars

\* Fault: the queue takes whatever it is given.
ReaderPushesUnbounded ==
    /\ pc["reader"] = "push"
    /\ queue' = Append(queue, taken)
    /\ Goto("reader", "read")
    /\ UNCHANGED <<sockVars, envVars, ptyVars, taken, queueClosed, item, dropped,
                   eventVars, results, ctxVars, mainVars>>

\* Fault: a full queue makes room by dropping its oldest chunk.
ReaderPushesOverOldest ==
    /\ pc["reader"] = "push"
    /\ queue' = Append(IF Len(queue) < QueueLimit THEN queue ELSE Tail(queue), taken)
    /\ Goto("reader", "read")
    /\ UNCHANGED <<sockVars, envVars, ptyVars, taken, queueClosed, item, dropped,
                   eventVars, results, ctxVars, mainVars>>

\* outputQueue.push.
ReaderPushes ==
    /\ pc["reader"] = "push"
    /\ IF ~queueClosed /\ Len(queue) < QueueLimit
       THEN /\ queue' = Append(queue, taken)
            /\ Goto("reader", "read")
            /\ UNCHANGED dropped
       ELSE /\ dropped' = TRUE
            /\ Goto("reader", "overflow")
            /\ UNCHANGED queue
    /\ UNCHANGED <<sockVars, envVars, ptyVars, taken, queueClosed, item,
                   eventVars, results, ctxVars, mainVars>>

\* The deferred queue.close, before readerDone is closed.
ReaderQuits ==
    /\ pc["reader"] = "quit"
    /\ queueClosed' = TRUE
    /\ Goto("reader", "end")
    /\ UNCHANGED <<sockVars, envVars, ptyVars, taken, queue, item, dropped,
                   eventVars, results, ctxVars, mainVars>>

\* outputQueue.pop: what is queued is drained even after close.
WriterPops ==
    /\ pc["writer"] = "pop"
    /\ queue # <<>>
    /\ item' = Head(queue)
    /\ queue' = Tail(queue)
    /\ Goto("writer", "write")
    /\ UNCHANGED <<sockVars, envVars, ptyVars, taken, queueClosed, dropped,
                   eventVars, results, ctxVars, mainVars>>

WriterWrites ==
    /\ pc["writer"] = "write"
    /\ \/ Delivers(Output(item)) /\ Goto("writer", "pop")
       \/ WriteFails /\ Goto("writer", "gone")
    /\ item' = 0
    /\ UNCHANGED <<envVars, ptyVars, taken, queue, queueClosed, dropped,
                   eventVars, results, ctxVars, mainVars>>

WriterStops ==
    /\ pc["writer"] = "pop"
    /\ queue = <<>> /\ queueClosed
    /\ Goto("writer", "end")
    /\ UNCHANGED dataVars

-----------------------------------------------------------------------------
(* Input, pings, completions and Wait                                      *)

\* A write to a PTY that runBridge closed fails, and so does a key typed when
\* nobody has its other side open any more.
TypingFails == ptyClosed \/ (child = "exited" /\ ~held)

\* ReadMessage fails on a socket whose peer is gone, and when no pong arrives
\* within PongTimeout: then the socket may still take every write.
InputEnds ==
    /\ pc["input"] = "read"
    /\ conn # "open" \/ TypingFails \/ "pong" \in Disturbances
    /\ Goto("input", "gone")
    /\ UNCHANGED dataVars

\* A message that is not a resize, or a resize the PTY refuses.  A page that
\* reads too slowly for our writes may still send one.
InputInvalid ==
    /\ "invalid" \in Disturbances
    /\ pc["input"] = "read"
    /\ conn # "closed"
    /\ Goto("input", "protocol")
    /\ UNCHANGED dataVars

\* A ping that is sent changes nothing here.
PingFails ==
    /\ "ping" \in Disturbances
    /\ pc["ping"] = "idle"
    /\ WriteFails
    /\ Goto("ping", "gone")
    /\ UNCHANGED <<envVars, ptyVars, queueVars, eventVars, results, ctxVars,
                   mainVars>>

AgentCompletes ==
    /\ pc["agents"] = "idle"
    /\ completions > 0
    /\ completions' = completions - 1
    /\ Goto("agents", "write")
    /\ UNCHANGED <<sockVars, childVars, ptyVars, queueVars, eventVars, results,
                   ctxVars, mainVars>>

AgentsWrite ==
    /\ pc["agents"] = "write"
    /\ \/ Delivers(<<"agent", 0>>) /\ Goto("agents", "idle")
       \/ WriteFails /\ Goto("agents", "gone")
    /\ UNCHANGED <<envVars, ptyVars, queueVars, eventVars, results, ctxVars,
                   mainVars>>

\* The completions forwarder does not wait for room among the events.
AgentsDropReport ==
    /\ pc["agents"] = "gone"
    /\ bridgeCancelled
    /\ Goto("agents", "idle")
    /\ UNCHANGED dataVars

\* bridgeCtx.Done() between two ticks, two completions or two retries.
StopsOnCancel(g) ==
    /\ pc[g] = "idle"
    /\ bridgeCancelled
    /\ Goto(g, "end")
    /\ UNCHANGED dataVars

\* session.Wait returns after the child exited and terminate ran.
WaiterReaps ==
    /\ pc["waiter"] = "wait"
    /\ child = "exited"
    /\ Terminate
    /\ results' \in IF terminated' = "failed" THEN {"failed"} ELSE Outcome("reap")
    /\ Goto("waiter", "end")
    /\ UNCHANGED <<sockVars, held, produced, completions, ptyClosed, closed,
                   queueVars, eventVars, ctxVars, mainVars>>

-----------------------------------------------------------------------------
(* runBridge itself                                                        *)

\* The ready message reaches the page and the goroutines start.
MainReady ==
    /\ pc["main"] = "ready"
    /\ Delivers(<<"ready", 0>>)
    /\ pc' = [g \in Goroutines |->
                CASE g = "main" -> "select" [] g = "writer" -> "pop"
                  [] g = "waiter" -> "wait"
                  [] g \in {"reader", "input"} -> "read"
                  [] g \in {"ping", "agents"} -> "idle"]
    /\ UNCHANGED <<envVars, ptyVars, queueVars, eventVars, results, ctxVars,
                   mainVars>>

\* It does not: Close, Wait, return.
MainReadyFails ==
    /\ pc["main"] = "ready"
    /\ WriteFails
    /\ Goto("main", "earlyClose")
    /\ UNCHANGED <<envVars, ptyVars, queueVars, eventVars, results, ctxVars,
                   mainVars>>

MainEarlyClose ==
    /\ pc["main"] = "earlyClose"
    /\ CloseSession
    /\ cleanupErr' = (closed' = "failed")
    /\ Goto("main", "earlyWait")
    /\ UNCHANGED <<sockVars, held, produced, completions, queueVars, eventVars,
                   results, ctxVars, gotResult, ctxErr, sawDetached, text,
                   natural, gaveUp>>

\* session.Wait without a timer; its error joins Close's.
MainEarlyWait ==
    /\ pc["main"] = "earlyWait"
    /\ child = "exited"
    /\ gotResult' = TRUE
    /\ \E waitErr \in Outcome("reap") :
           cleanupErr' = (cleanupErr \/ waitErr = "failed")
    /\ conn' = "closed"
    /\ Goto("main", "returned")
    /\ UNCHANGED <<wire, envVars, ptyVars, queueVars, eventVars, results,
                   ctxVars, ctxErr, sawDetached, text, natural, gaveUp>>

\* The three cases of the select.
MainSeesExit ==
    /\ pc["main"] = "select"
    /\ results # "none"
    /\ gotResult' = TRUE
    /\ Goto("main", "ctx")
    /\ UNCHANGED <<worldVars, ctxErr, sawDetached, text, natural,
                   cleanupErr, gaveUp>>

MainSeesEvent ==
    /\ pc["main"] = "select"
    /\ eventCount > 0
    /\ text' = IF firstEvent = "gone" THEN "none" ELSE firstEvent
    /\ eventCount' = eventCount - 1
    /\ firstEvent' = "none"
    /\ Goto("main", "ctx")
    /\ UNCHANGED <<sockVars, envVars, ptyVars, queueVars, results, ctxVars,
                   gotResult, ctxErr, sawDetached, natural, cleanupErr, gaveUp>>

MainSeesCancel ==
    /\ pc["main"] = "select"
    /\ ctx # "live"
    /\ Goto("main", "ctx")
    /\ UNCHANGED dataVars

\* contextError := ctx.Err()
MainReadsCtx ==
    /\ pc["main"] = "ctx"
    /\ ctxErr' = (ctx # "live")
    /\ Goto("main", "detached")
    /\ UNCHANGED <<worldVars, gotResult, sawDetached, text, natural,
                   cleanupErr, gaveUp>>

\* detached, naturalExit and cancel()
MainReadsDetached ==
    /\ pc["main"] = "detached"
    /\ sawDetached' = detached
    /\ natural' = (gotResult /\ ~ctxErr)
    /\ bridgeCancelled' = TRUE
    /\ Goto("main", IF natural' THEN "awaitReader" ELSE "close")
    /\ UNCHANGED <<sockVars, envVars, ptyVars, queueVars, eventVars, results,
                   ctx, detached, gotResult, ctxErr, text, cleanupErr, gaveUp>>

\* Fault: the queue is closed without waiting for the rest of the output.
MainSkipsReader ==
    /\ pc["main"] = "awaitReader"
    /\ Goto("main", "closeQueue")
    /\ UNCHANGED dataVars

\* After a natural exit the rest of the output is read first.
MainReaderDone ==
    /\ pc["main"] = "awaitReader"
    /\ pc["reader"] = "end"
    /\ Goto("main", "closeQueue")
    /\ UNCHANGED dataVars

MainReaderTimeout ==
    /\ pc["main"] = "awaitReader"
    /\ CloseSession
    /\ cleanupErr' = (cleanupErr \/ closed' = "failed")
    /\ gaveUp' = TRUE
    /\ Goto("main", "closeQueue")
    /\ UNCHANGED <<sockVars, held, produced, completions, queueVars, eventVars,
                   results, ctxVars, gotResult, ctxErr, sawDetached, text,
                   natural>>

MainClosesQueue ==
    /\ pc["main"] = "closeQueue"
    /\ queueClosed' = TRUE
    /\ Goto("main", IF gotResult THEN "awaitWriter" ELSE "awaitResult")
    /\ UNCHANGED <<sockVars, envVars, ptyVars, taken, queue, item, dropped,
                   eventVars, results, ctxVars, mainVars>>

MainGetsResult ==
    /\ pc["main"] = "awaitResult"
    /\ results # "none"
    /\ gotResult' = TRUE
    /\ Goto("main", "awaitWriter")
    /\ UNCHANGED <<worldVars, ctxErr, sawDetached, text, natural,
                   cleanupErr, gaveUp>>

\* Fault: a process that does not finish in time is not reported.
MainResultTimeoutIgnored ==
    /\ pc["main"] = "awaitResult"
    /\ Goto("main", "awaitWriter")
    /\ UNCHANGED dataVars


MainResultTimeout ==
    /\ pc["main"] = "awaitResult"
    /\ cleanupErr' = TRUE
    /\ Goto("main", "awaitWriter")
    /\ UNCHANGED <<worldVars, gotResult, ctxErr, sawDetached, text, natural,
                   gaveUp>>

AfterWriter == Goto("main", IF natural THEN "close" ELSE "final")

MainWriterDone ==
    /\ pc["main"] = "awaitWriter"
    /\ pc["writer"] = "end"
    /\ AfterWriter
    /\ UNCHANGED dataVars

MainWriterTimeout ==
    /\ pc["main"] = "awaitWriter"
    /\ gaveUp' = TRUE
    /\ AfterWriter
    /\ UNCHANGED <<worldVars, gotResult, ctxErr, sawDetached, text, natural,
                   cleanupErr>>

\* session.Close, last after a natural exit and first otherwise.
MainClosesSession ==
    /\ pc["main"] = "close"
    /\ CloseSession
    /\ cleanupErr' = (cleanupErr \/ closed' = "failed")
    /\ Goto("main", IF natural THEN "final" ELSE "closeQueue")
    /\ UNCHANGED <<sockVars, held, produced, completions, queueVars, eventVars,
                   results, ctxVars, gotResult, ctxErr, sawDetached, text,
                   natural, gaveUp>>

\* Detached, error, exit or nothing.
LastMessages ==
    CASE sawDetached -> {"detached"}
      [] ~sawDetached /\ text # "none" -> {"error"}
      [] ~sawDetached /\ text = "none" /\ ~ctxErr /\ gotResult -> {"exit"}
      [] OTHER -> {}

MainFinal ==
    /\ pc["main"] = "final"
    /\ cleanupErr' = (cleanupErr \/ (gotResult /\ results = "failed"))
    /\ \/ \E k \in LastMessages : Delivers(<<k, 0>>)
       \/ LastMessages # {} /\ WriteFails
       \/ LastMessages = {} /\ UNCHANGED sockVars
    /\ Goto("main", "closeFrame")
    /\ UNCHANGED <<envVars, ptyVars, queueVars, eventVars, results, ctxVars,
                   gotResult, ctxErr, sawDetached, text, natural, gaveUp>>

\* The close frame, after which the library refuses every write, and conn.Close.
MainClosesConn ==
    /\ pc["main"] = "closeFrame"
    /\ \/ conn = "open" /\ wire' = Append(wire, <<"close", 0>>)
       \/ UNCHANGED wire
    /\ conn' = "closed"
    /\ Goto("main", "returned")
    /\ UNCHANGED <<envVars, ptyVars, queueVars, eventVars, results, ctxVars,
                   mainVars>>

-----------------------------------------------------------------------------
(* The child, the page and the rest of the server                          *)

ChildWrites ==
    /\ child = "running" /\ ~ptyClosed
    /\ produced < MaxChunks
    /\ produced' = produced + 1
    /\ UNCHANGED <<pc, sockVars, child, held, completions, ptyVars, queueVars,
                   eventVars, results, ctxVars, mainVars>>

ChildExits ==
    /\ child = "running"
    /\ child' = "exited"
    /\ UNCHANGED <<pc, sockVars, held, produced, completions, ptyVars, queueVars,
                   eventVars, results, ctxVars, mainVars>>

PageGone ==
    /\ "page" \in Disturbances
    /\ conn = "open"
    /\ conn' = "failed"
    /\ UNCHANGED <<pc, wire, envVars, ptyVars, queueVars, eventVars, results, ctxVars,
                   mainVars>>

\* handleDetach stores the flag before it calls cancel.
DetachStores ==
    /\ "detach" \in Disturbances
    /\ ~detached
    /\ detached' = TRUE
    /\ UNCHANGED <<pc, sockVars, envVars, ptyVars, queueVars, eventVars, results,
                   ctx, bridgeCancelled, mainVars>>

CancelFor(reason) ==
    /\ ctx = "live"
    /\ ctx' = reason
    /\ bridgeCancelled' = TRUE
    /\ UNCHANGED <<pc, sockVars, envVars, ptyVars, queueVars, eventVars, results,
                   detached, mainVars>>

\* Fault: cancel is called before the flag is stored.
CancelBeforeFlag == "detach" \in Disturbances /\ CancelFor("detach")

DetachCancels == detached /\ CancelFor("detach")

\* Server.Close, or the quarantine of another request.
ServerCancels == "shutdown" \in Disturbances /\ CancelFor("shutdown")

-----------------------------------------------------------------------------
MainStep ==
    \/ MainReady \/ MainReadyFails \/ MainEarlyClose \/ MainEarlyWait
    \/ MainSeesExit \/ MainSeesEvent \/ MainSeesCancel
    \/ MainReadsCtx \/ MainReadsDetached
    \/ MainReaderDone \/ MainReaderTimeout \/ MainClosesQueue
    \/ MainGetsResult \/ MainResultTimeout
    \/ MainWriterDone \/ MainWriterTimeout
    \/ MainClosesSession \/ MainFinal \/ MainClosesConn

ReaderStep == ReaderReads \/ ReaderStops \/ ReaderPushes \/ ReaderQuits
WriterStep == WriterPops \/ WriterWrites \/ WriterStops
AgentsStep == \/ AgentsWrite \/ AgentsDropReport
              \/ Report("agents") \/ StopsOnCancel("agents")

Environment == \/ ChildWrites \/ ChildExits \/ PageGone \/ InputInvalid
               \/ PingFails \/ AgentCompletes \/ DetachStores \/ DetachCancels
               \/ ServerCancels

Next ==
    \/ MainStep \/ ReaderStep \/ WriterStep \/ WaiterReaps
    \/ InputEnds \/ AgentsStep
    \/ \E g \in {"reader", "writer", "input", "ping"} : Report(g)
    \/ StopsOnCancel("ping")
    \/ Environment

Spec == Init /\ [][Next]_vars

\* What goes on by itself: goroutines are scheduled, a write ends by its
\* deadline, timers fire, and the input goroutine, wherever it blocks, is woken
\* once both the socket and the PTY are closed.
Running ==
    \/ MainStep \/ ReaderStep \/ WriterStep \/ WaiterReaps \/ AgentsStep
    \/ conn = "closed" /\ ptyClosed /\ InputEnds
    \/ \E g \in {"reader", "writer", "input", "ping"} : Report(g)
    \/ StopsOnCancel("ping")

\* Something goes on as long as anything can.  This is less than fairness to
\* every goroutine and as good, since none of them has endless work.  What the
\* child and the page do, ticks and completions are not fair.
Fairness == WF_vars(Running)

FairSpec == Spec /\ Fairness

-----------------------------------------------------------------------------
Reached(kind) == \E i \in DOMAIN wire : wire[i][1] = kind

Arrived(n) == \E i \in DOMAIN wire : wire[i] = Output(n)

\* Returning no cleanup error is what lets the server hand the slot on: the
\* child was terminated and reaped and its PTY closed, on every path.
CleanReturnIsReaped ==
    pc["main"] = "returned" /\ ~cleanupErr =>
        /\ child = "exited" /\ terminated = "ok" /\ ptyClosed
        /\ pc["waiter"] # "wait"

\* The page gets the chunks in order, each once and without a gap.
OutputInOrder ==
    \A i \in DOMAIN wire : \A n \in 1..MaxChunks :
        wire[i] = Output(n) =>
            /\ \A j \in 1..(i - 1) : wire[j] # Output(n)
            /\ \A m \in 1..(n - 1) : \E j \in 1..(i - 1) : wire[j] = Output(m)

\* The exit message of a session that ended by itself follows everything the
\* child wrote, unless the queue overflowed or a wait for the reader or the
\* writer timed out.  It is not claimed of the exit message that is also sent
\* when runBridge ended the session itself, after a missing pong for example.
ExitCarriesAllOutput ==
    Reached("exit") /\ natural /\ ~gaveUp /\ ~dropped =>
        \A n \in 1..produced : Arrived(n)

\* A page whose attachment was cancelled by a takeover is told so: it never
\* sees the bare close after which it would attach again by itself.
DisplacedPageIsTold ==
    ctx = "detach" /\ ctxErr /\ Reached("close") => Reached("detached")

\* app.js: "The server sent control data after the session ended."  Nothing
\* but the close frame follows the last message.
NothingAfterLastMessage ==
    \A i, j \in DOMAIN wire :
        wire[i][1] \in Finals /\ i < j => wire[j][1] = "close"

\* However the reader, the writer, the input, the pings and the forwarder end,
\* none waits for room among the events, of which runBridge reads one at most:
\* a sender that blocked there would outlive it for good.
ReportsNeverBlock ==
    \A g \in Goroutines : pc[g] \in EventKinds => eventCount < EventsCapacity

=============================================================================
