---------------------------- MODULE BridgeProofs ----------------------------
(***************************************************************************)
(* Proofs about Bridge for any number of chunks and completions, any queue *)
(* limit and any set of disturbances.  The invariant has one part for each *)
(* thing runBridge relies on: what is on its way through the queue, who    *)
(* closed and reaped the session, what it knows of a cancellation, and     *)
(* what it has waited for when it writes the last message.                 *)
(***************************************************************************)
EXTENDS Bridge, Integers, SequenceTheorems, TLAPS

USE BridgeAssumption
    DEF sockVars, childVars, ptyVars, queueVars, eventVars, ctxVars, mainVars,
        envVars, worldVars, dataVars, vars, Goto

\* Where each goroutine of runBridge may be; none runs before the page is ready.
Others == Goroutines \ {"main"}
Early == {"ready", "earlyClose", "earlyWait"}

PcInv ==
    /\ pc \in [Goroutines -> MainPcs \cup Pcs]
    /\ pc["main"] \in MainPcs
    /\ pc["reader"] \in {"off", "read", "push", "overflow", "quit", "end"}
    /\ pc["writer"] \in {"off", "pop", "write", "gone", "end"}
    /\ pc["input"] \in {"off", "read", "protocol", "gone", "end"}
    /\ pc["ping"] \in {"off", "idle", "gone", "end"}
    /\ pc["agents"] \in {"off", "idle", "write", "gone", "end"}
    /\ pc["waiter"] \in {"off", "wait", "end"}
    /\ pc["main"] \in Early => \A g \in Others : pc[g] = "off"

\* The last chunk that was pushed, and the last one the writer is done with.
Pushed == IF pc["reader"] = "push" \/ dropped THEN taken - 1 ELSE taken
Written == Pushed - Len(queue) - IF pc["writer"] = "write" THEN 1 ELSE 0

\* The queue holds the chunks that follow the one the writer has.
QueueInv ==
    /\ \A i \in 1..Len(queue) : queue[i] = Pushed - Len(queue) + i
    /\ Written >= 0
    /\ IF pc["writer"] = "write" THEN item = Pushed - Len(queue) ELSE item = 0
    /\ pc["reader"] = "push" => taken > 0
    /\ pc["reader"] = "overflow" => dropped
    /\ dropped => pc["reader"] \in {"overflow", "quit", "end"}
    /\ pc["main"] \in Early => taken = 0
    /\ pc["writer"] = "gone" => conn # "open"
    /\ pc["writer"] = "end" /\ conn = "open" => queue = <<>> /\ queueClosed

WireInv ==
    /\ OutputInOrder
    /\ conn = "open" => \A n \in 1..MaxChunks : Arrived(n) <=> n <= Written

\* Who has closed and terminated the session, and what that means.
CloseInv ==
    /\ terminated = "ok" => child = "exited"
    /\ closed # "no" => ptyClosed /\ terminated # "no"
    /\ closed = "ok" => terminated = "ok"
    /\ closed = "failed" => cleanupErr
    /\ pc["main"] \in {"ready", "earlyClose", "select", "ctx", "detached", "awaitReader"} =>
          closed = "no" /\ ~ptyClosed
    /\ pc["main"] \in {"earlyWait", "final", "closeFrame", "returned"} => closed # "no"
    /\ pc["main"] \in {"closeQueue", "awaitResult", "awaitWriter"} /\ ~natural => closed # "no"

\* runBridge has the result of Wait, or reports that it did not get it.
ResultInv ==
    /\ results # "none" => child = "exited" /\ pc["waiter"] = "end"
    /\ gotResult /\ pc["main"] # "returned" => results # "none"
    /\ gotResult => pc["waiter"] # "wait"
    /\ natural => gotResult /\ ~ctxErr
    /\ pc["main"] \in Early \cup {"select", "ctx", "detached"} => ~natural
    /\ pc["main"] \in Early => ~gotResult
    /\ pc["main"] = "awaitReader" => natural
    /\ pc["main"] = "awaitResult" => ~gotResult
    /\ pc["main"] \in {"awaitWriter", "final", "closeFrame", "returned"} =>
          gotResult \/ cleanupErr

\* What a cancelled runBridge knows of the cause.
CancelInv ==
    /\ ctx = "detach" => detached
    /\ ctxErr => ctx # "live"
    /\ pc["main"] \in Early \cup {"select", "ctx"} => ~ctxErr
    /\ ctxErr /\ ctx = "detach" /\ pc["main"] # "detached" => sawDetached

\* After a natural exit and without a timeout runBridge has waited for the reader
\* and the writer.
DrainInv ==
    /\ pc["reader"] \in {"quit", "end"} =>
          dropped \/ ptyClosed \/ (child = "exited" /\ taken = produced)
    /\ natural /\ ~gaveUp /\ pc["main"] \in {"closeQueue", "awaitWriter", "close", "final"} =>
          pc["reader"] = "end" /\ (dropped \/ taken = produced)
    /\ natural /\ ~gaveUp /\ pc["main"] \in {"close", "final"} => pc["writer"] = "end"

\* What the last messages say of runBridge.
LastInv ==
    /\ Reached("exit") => /\ pc["main"] \in {"closeFrame", "returned"}
                          /\ gotResult /\ ~ctxErr /\ ~sawDetached /\ text = "none"
                          /\ child = "exited"
    /\ Reached("close") => pc["main"] = "returned"
    /\ sawDetached => \/ pc["main"] \notin {"closeFrame", "returned"}
                      \/ Reached("detached")
                      \/ conn # "open" /\ ~Reached("close")

IInv == /\ TypeOK /\ PcInv /\ QueueInv /\ WireInv /\ CloseInv /\ ResultInv
        /\ CancelInv /\ DrainInv /\ LastInv /\ ExitCarriesAllOutput
-----------------------------------------------------------------------------
(* What the helpers of the actions do                                      *)

\* A message that is written becomes the last one on the wire.
LEMMA Appended ==
    ASSUME wire \in Seq(Messages), NEW m \in Messages, wire' = Append(wire, m)
    PROVE  /\ wire' \in Seq(Messages)
           /\ \A n \in 1..MaxChunks : Arrived(n)' <=> Arrived(n) \/ m = Output(n)
           /\ \A k \in Finals \cup {"close"} : Reached(k)' <=> Reached(k) \/ m[1] = k
           /\ OutputInOrder /\ (\A n \in 1..MaxChunks : m = Output(n) =>
                                   /\ ~Arrived(n) /\ \A i \in 1..(n - 1) : Arrived(i))
                 => OutputInOrder'
<1>1. /\ wire' \in Seq(Messages)
      /\ Len(wire) \in Nat /\ DOMAIN wire = 1..Len(wire)
      /\ DOMAIN wire' = 1..(Len(wire) + 1)
      /\ \A i \in 1..Len(wire) : wire'[i] = wire[i]
      /\ wire'[Len(wire) + 1] = m
  BY AppendProperties, LenProperties
<1>2. \A n \in 1..MaxChunks : Arrived(n)' <=> Arrived(n) \/ m = Output(n)
  <2>. SUFFICES ASSUME NEW n \in 1..MaxChunks PROVE Arrived(n)' <=> Arrived(n) \/ m = Output(n)
    OBVIOUS
  <2>. DEFINE o == Output(n)
  <2>1. (\E i \in DOMAIN wire' : wire'[i] = o) <=> (\E i \in DOMAIN wire : wire[i] = o) \/ m = o
    <3>. HIDE DEF o
    <3>. QED
      BY <1>1
  <2>2. (Arrived(n)' <=> \E i \in DOMAIN wire' : wire'[i] = o)
    BY DEF Arrived, Output
  <2>. QED
    BY <2>1, <2>2 DEF Arrived
<1>3. \A k \in Finals \cup {"close"} : Reached(k)' <=> Reached(k) \/ m[1] = k
  BY <1>1 DEF Reached
<1>4. ASSUME OutputInOrder,
             \A n \in 1..MaxChunks : m = Output(n) =>
                /\ ~Arrived(n) /\ \A i \in 1..(n - 1) : Arrived(i)
      PROVE  OutputInOrder'
  <2>. SUFFICES ASSUME NEW i \in DOMAIN wire', NEW n \in 1..MaxChunks, wire'[i] = Output(n)
                PROVE  /\ \A j \in 1..(i - 1) : wire'[j] # Output(n)
                       /\ \A k \in 1..(n - 1) : \E j \in 1..(i - 1) : wire'[j] = Output(k)
    BY DEF OutputInOrder, Output
  <2>1. CASE i \in DOMAIN wire
    <3>1. /\ \A j \in 1..(i - 1) : wire[j] # Output(n)
          /\ \A k \in 1..(n - 1) : \E j \in 1..(i - 1) : wire[j] = Output(k)
      BY <1>1, <1>4, <2>1 DEF OutputInOrder
    <3>2. i \in Nat /\ \A j \in 1..(i - 1) : wire'[j] = wire[j]
      BY <1>1, <2>1
    <3>. QED
      BY <3>1, <3>2
  <2>2. CASE i = Len(wire) + 1
    <3>1. /\ \A j \in 1..Len(wire) : wire[j] # Output(n)
          /\ \A k \in 1..(n - 1) : \E j \in 1..Len(wire) : wire[j] = Output(k)
      BY <1>1, <1>4, <2>2 DEF Arrived
    <3>2. i - 1 = Len(wire)
      BY <1>1, <2>2
    <3>. QED
      BY <1>1, <3>1, <3>2
  <2>. QED
    BY <1>1, <2>1, <2>2
<1>. QED
  BY <1>1, <1>2, <1>3, <1>4

\* Closing a session terminates it; both happen once.
LEMMA Closed ==
    ASSUME TypeOK, CloseInv, CloseSession
    PROVE  /\ ptyClosed' = TRUE
           /\ terminated' \in {"ok", "failed"} /\ closed' \in {"ok", "failed"}
           /\ child' \in {child, "exited"}
           /\ terminated' = "ok" => child' = "exited"
           /\ closed' = "ok" => terminated' = "ok"
           /\ closed # "no" => closed' = closed
BY DEF TypeOK, CloseInv, CloseSession, Terminate, Outcome

-----------------------------------------------------------------------------
(* Every step keeps every part                                             *)

\* Only the first step of runBridge starts the other goroutines.
LEMMA MainMoves ==
    ASSUME PcInv, MainStep, ~MainReady
    PROVE  /\ pc["main"] \in Early => pc'["main"] \in Early \cup {"returned"}
           /\ pc["main"] \notin Early => pc'["main"] \in MainPcs \ Early
           /\ \A g \in Others : pc'[g] = pc[g]
           /\ pc' \in [Goroutines -> MainPcs \cup Pcs]
<1>. USE DEF PcInv, Goroutines, Others, Early, MainPcs, Pcs, EventKinds
<1>1. CASE MainReadyFails \/ MainEarlyClose \/ MainEarlyWait
  <2>1. pc["main"] \in Early /\ \E l \in Early \cup {"returned"} : Goto("main", l)
    BY <1>1 DEF MainReadyFails, MainEarlyClose, MainEarlyWait
  <2>. QED
    BY <2>1
<1>2. CASE MainSeesExit \/ MainSeesEvent \/ MainSeesCancel \/ MainReadsCtx \/ MainReadsDetached
  BY <1>2 DEF MainSeesExit, MainSeesEvent, MainSeesCancel, MainReadsCtx, MainReadsDetached
<1>3. CASE MainReaderDone \/ MainReaderTimeout \/ MainClosesQueue \/ MainGetsResult
           \/ MainResultTimeout
  BY <1>3 DEF MainReaderDone, MainReaderTimeout, MainClosesQueue, MainGetsResult,
     MainResultTimeout
<1>4. CASE MainWriterDone \/ MainWriterTimeout \/ MainClosesSession \/ MainFinal \/ MainClosesConn
  BY <1>4 DEF MainWriterDone, MainWriterTimeout, MainClosesSession, MainFinal, MainClosesConn,
     AfterWriter
<1>. QED
  BY <1>1, <1>2, <1>3, <1>4 DEF MainStep

\* Which actions can move a goroutine.
LEMMA PcMoves ==
    ASSUME PcInv, Next
    PROVE  /\ MainStep \/ pc'["main"] = pc["main"]
           /\ pc'["main"] \in Early => pc["main"] \in Early
           /\ pc'["reader"] = pc["reader"] \/ MainReady \/ ReaderStep \/ Report("reader")
           /\ pc'["writer"] = pc["writer"] \/ MainReady \/ WriterStep \/ Report("writer")
           /\ pc'["waiter"] = pc["waiter"] \/ MainReady \/ WaiterReaps
<1>. USE DEF PcInv
<1>1. CASE MainReady
  <2>1. pc'["main"] = "select" /\ MainStep
    BY <1>1 DEF MainReady, MainStep, Goroutines
  <2>. QED
    BY <1>1, <2>1 DEF Early
<1>2. CASE MainStep /\ ~MainReady
  <2>1. /\ \A g \in Others : pc'[g] = pc[g]
        /\ pc'["main"] \in Early => pc["main"] \in Early
    BY <1>2, MainMoves DEF Early, MainPcs
  <2>. QED
    BY <1>2, <2>1 DEF Others, Goroutines
<1>3. ASSUME NEW g \in Others, NEW l, Goto(g, l)
      PROVE  \A h \in Goroutines \ {g} : pc'[h] = pc[h]
  BY <1>3 DEF Others
<1>4. CASE ReaderStep
  <2>1. \E l : Goto("reader", l)
    BY <1>4 DEF ReaderStep, ReaderReads, ReaderStops, ReaderPushes, ReaderQuits
  <2>. QED
    BY <1>3, <1>4, <2>1 DEF Others, Goroutines
<1>5. CASE WriterStep
  <2>1. \E l : Goto("writer", l)
    BY <1>5 DEF WriterStep, WriterPops, WriterWrites, WriterStops
  <2>. QED
    BY <1>3, <1>5, <2>1 DEF Others, Goroutines
<1>6. CASE WaiterReaps
  <2>1. \E l : Goto("waiter", l)
    BY <1>6 DEF WaiterReaps
  <2>. QED
    BY <1>3, <1>6, <2>1 DEF Others, Goroutines
<1>7. CASE \E g \in Others : Report(g)
  <2>1. PICK g \in Others : Report(g)
    BY <1>7
  <2>2. \E l : Goto(g, l)
    BY <2>1 DEF Report
  <2>3. \A h \in Goroutines \ {g} : pc'[h] = pc[h]
    BY <1>3, <2>2
  <2>4. pc'["main"] = pc["main"]
    BY <2>3 DEF Others, Goroutines
  <2>5. pc'["reader"] = pc["reader"] \/ Report("reader")
    BY <2>1, <2>3 DEF Others, Goroutines
  <2>6. pc'["writer"] = pc["writer"] \/ Report("writer")
    BY <2>1, <2>3 DEF Others, Goroutines
  <2>7. pc'["waiter"] = pc["waiter"]
    <3>1. g # "waiter"
      BY <2>1 DEF Report, EventKinds, PcInv
    <3>. QED
      BY <2>3, <3>1 DEF Others, Goroutines
  <2>. QED
    BY <2>4, <2>5, <2>6, <2>7
<1>8. CASE InputEnds \/ AgentsStep \/ StopsOnCancel("ping") \/ InputInvalid \/ PingFails
           \/ AgentCompletes
  <2>1. \/ \E g \in {"input", "agents", "ping"} : \E l : Goto(g, l)
        \/ Report("agents")
    BY <1>8 DEF InputEnds, AgentsStep, AgentsDropReport, InputInvalid, StopsOnCancel, AgentsWrite,
                PingFails, AgentCompletes
  <2>. QED
    BY <1>3, <1>7, <2>1 DEF Others, Goroutines
<1>9. CASE ChildWrites \/ ChildExits \/ PageGone \/ DetachStores \/ DetachCancels \/ ServerCancels
  BY <1>9 DEF ChildWrites, ChildExits, PageGone, DetachStores, DetachCancels, ServerCancels,
     CancelFor
<1>. QED
  BY <1>1, <1>2, <1>4, <1>5, <1>6, <1>7, <1>8, <1>9
     DEF Next, Environment, Others, Goroutines

\* Which actions can change what the goroutines share.
LEMMA Moves ==
    ASSUME Next
    PROVE  /\ UNCHANGED mainVars \/ MainStep
           /\ UNCHANGED <<taken, queue, item, dropped>> \/ ReaderStep \/ WriterStep
           /\ UNCHANGED queueClosed \/ queueClosed' = TRUE
           /\ UNCHANGED ptyVars \/ MainStep \/ WaiterReaps
           /\ UNCHANGED ptyClosed \/ ptyClosed' = TRUE
           /\ UNCHANGED child \/ child' = "exited"
           /\ UNCHANGED produced \/ ChildWrites
           /\ UNCHANGED eventVars \/ MainSeesEvent \/ \E g \in Others : Report(g)
           /\ UNCHANGED results \/ WaiterReaps
           /\ UNCHANGED <<ctx, detached>> \/ DetachStores \/ DetachCancels \/ ServerCancels
           /\ UNCHANGED conn \/ conn' # "open"
<1>1. CASE MainStep
  <2>1. CASE MainEarlyClose \/ MainReaderTimeout \/ MainClosesSession
    <3>1. /\ UNCHANGED <<sockVars, produced, queueVars, eventVars, results, ctxVars>>
          /\ CloseSession
      BY <2>1 DEF MainEarlyClose, MainReaderTimeout, MainClosesSession
    <3>2. /\ UNCHANGED child \/ child' = "exited"
          /\ UNCHANGED ptyClosed \/ ptyClosed' = TRUE
      BY <3>1 DEF CloseSession, Terminate
    <3>. QED
      BY <1>1, <3>1, <3>2
  <2>2. CASE MainReady \/ MainReadyFails \/ MainEarlyWait \/ MainFinal \/ MainClosesConn
    <3>1. UNCHANGED <<envVars, ptyVars, queueVars, eventVars, results, ctxVars>>
      BY <2>2 DEF MainReady, MainReadyFails, MainEarlyWait, MainFinal, MainClosesConn
    <3>2. UNCHANGED conn \/ conn' # "open"
      BY <2>2 DEF MainReady, MainReadyFails, MainEarlyWait, MainFinal, MainClosesConn,
         Delivers, WriteFails
    <3>. QED
      BY <1>1, <3>1, <3>2
  <2>3. CASE MainReadsDetached \/ MainClosesQueue
    <3>1. /\ UNCHANGED <<sockVars, envVars, ptyVars, taken, queue, item, dropped, eventVars,
               results,
                         ctx, detached>>
          /\ UNCHANGED queueClosed \/ queueClosed' = TRUE
      BY <2>3 DEF MainReadsDetached, MainClosesQueue
    <3>. QED
      BY <1>1, <3>1
  <2>4. CASE MainSeesEvent
    <3>1. UNCHANGED <<sockVars, envVars, ptyVars, queueVars, results, ctxVars>>
      BY <2>4 DEF MainSeesEvent
    <3>. QED
      BY <1>1, <2>4, <3>1
  <2>5. CASE MainSeesExit \/ MainSeesCancel \/ MainReadsCtx \/ MainReaderDone \/ MainGetsResult
              \/ MainResultTimeout \/ MainWriterDone \/ MainWriterTimeout
    <3>1. UNCHANGED worldVars
      BY <2>5 DEF MainSeesExit, MainSeesCancel, MainReadsCtx, MainReaderDone, MainGetsResult,
         MainResultTimeout, MainWriterDone, MainWriterTimeout
    <3>. QED
      BY <1>1, <3>1
  <2>. QED
    BY <1>1, <2>1, <2>2, <2>3, <2>4, <2>5 DEF MainStep
<1>2. CASE ReaderStep
  <2>1. /\ UNCHANGED <<sockVars, envVars, ptyVars, item, eventVars, results, ctxVars, mainVars>>
        /\ UNCHANGED queueClosed \/ queueClosed' = TRUE
    BY <1>2 DEF ReaderStep, ReaderReads, ReaderStops, ReaderPushes, ReaderQuits
  <2>. QED
    BY <1>2, <2>1
<1>3. CASE WriterStep
  <2>1. UNCHANGED <<envVars, ptyVars, queueClosed, eventVars, results, ctxVars, mainVars, conn>>
    BY <1>3 DEF WriterStep, WriterPops, WriterWrites, WriterStops, Delivers, WriteFails
  <2>. QED
    BY <1>3, <2>1
<1>4. CASE WaiterReaps
  <2>1. /\ UNCHANGED <<sockVars, produced, queueVars, eventVars, ctxVars, mainVars, ptyClosed>>
        /\ UNCHANGED child \/ child' = "exited"
    BY <1>4 DEF WaiterReaps, Terminate
  <2>. QED
    BY <1>4, <2>1
<1>5. CASE InputEnds \/ AgentsDropReport \/ InputInvalid
           \/ (\E g \in Goroutines : StopsOnCancel(g))
           \/ AgentsWrite \/ PingFails \/ AgentCompletes
  <2>1. UNCHANGED <<childVars, ptyVars, queueVars, eventVars, results, ctxVars, mainVars, conn>>
    BY <1>5 DEF InputEnds, AgentsDropReport, InputInvalid, StopsOnCancel, AgentsWrite, PingFails,
                AgentCompletes, Delivers, WriteFails
  <2>. QED
    BY <2>1
<1>6. CASE \E g \in Others : Report(g)
  <2>1. UNCHANGED <<sockVars, envVars, ptyVars, queueVars, results, ctxVars, mainVars>>
    BY <1>6 DEF Report
  <2>. QED
    BY <1>6, <2>1
<1>7. CASE ChildWrites \/ ChildExits \/ PageGone
  <2>1. /\ UNCHANGED <<ptyVars, queueVars, eventVars, results, ctxVars, mainVars>>
        /\ UNCHANGED conn \/ conn' # "open"
        /\ UNCHANGED child \/ child' = "exited"
        /\ UNCHANGED produced \/ ChildWrites
    BY <1>7 DEF ChildWrites, ChildExits, PageGone
  <2>. QED
    BY <2>1
<1>8. CASE DetachStores \/ DetachCancels \/ ServerCancels
  <2>1. UNCHANGED <<sockVars, envVars, ptyVars, queueVars, eventVars, results, mainVars>>
    BY <1>8 DEF DetachStores, DetachCancels, ServerCancels, CancelFor
  <2>. QED
    BY <1>8, <2>1
<1>. QED
  BY <1>1, <1>2, <1>3, <1>4, <1>5, <1>6, <1>7, <1>8
     DEF Next, AgentsStep, Environment, Others, Goroutines

\* What runBridge itself never changes.
LEMMA MainLeaves ==
    MainStep => UNCHANGED <<held, produced, completions, results, ctx, detached, taken, queue,
       item, dropped>>
<1>. SUFFICES ASSUME MainStep
              PROVE  UNCHANGED <<held, produced, completions, results, ctx, detached, taken,
                 queue, item, dropped>>
  OBVIOUS
<1>1. CASE MainReady \/ MainReadyFails \/ MainEarlyClose \/ MainEarlyWait
  BY <1>1 DEF MainReady, MainReadyFails, MainEarlyClose, MainEarlyWait
<1>2. CASE MainSeesExit \/ MainSeesEvent \/ MainSeesCancel \/ MainReadsCtx \/ MainReadsDetached
  BY <1>2 DEF MainSeesExit, MainSeesEvent, MainSeesCancel, MainReadsCtx, MainReadsDetached
<1>3. CASE MainReaderDone \/ MainReaderTimeout \/ MainClosesQueue \/ MainGetsResult
           \/ MainResultTimeout
  BY <1>3 DEF MainReaderDone, MainReaderTimeout, MainClosesQueue, MainGetsResult,
     MainResultTimeout
<1>4. CASE MainWriterDone \/ MainWriterTimeout \/ MainClosesSession \/ MainFinal \/ MainClosesConn
  BY <1>4 DEF MainWriterDone, MainWriterTimeout, MainClosesSession, MainFinal, MainClosesConn
<1>. QED
  BY <1>1, <1>2, <1>3, <1>4 DEF MainStep

LEMMA PcStep == IInv /\ [Next]_vars => PcInv'
<1>. SUFFICES ASSUME IInv, [Next]_vars PROVE PcInv'
  OBVIOUS
<1>1. PcInv
  BY DEF IInv
<1>. USE <1>1 DEF PcInv, Goroutines, Others, Early, MainPcs, Pcs, EventKinds
<1>2. CASE MainStep
  <2>1. CASE MainReady
    BY <2>1 DEF MainReady
  <2>2. CASE ~MainReady
    BY <1>2, <2>2, MainMoves
  <2>. QED
    BY <2>1, <2>2
<1>3. CASE ReaderStep
  BY <1>3 DEF ReaderStep, ReaderReads, ReaderStops, ReaderPushes, ReaderQuits
<1>4. CASE WriterStep
  BY <1>4 DEF WriterStep, WriterPops, WriterWrites, WriterStops
<1>5. CASE WaiterReaps \/ InputEnds
  BY <1>5 DEF WaiterReaps, InputEnds
<1>6. CASE AgentsStep
  BY <1>6 DEF AgentsStep, AgentsWrite, AgentsDropReport, Report, StopsOnCancel
<1>7. CASE \E g \in {"reader", "writer", "input", "ping"} : Report(g)
  BY <1>7 DEF Report
<1>8. CASE StopsOnCancel("ping")
  BY <1>8 DEF StopsOnCancel
<1>9. CASE Environment
  BY <1>9 DEF Environment, ChildWrites, ChildExits, PageGone, InputInvalid, PingFails,
     AgentCompletes, DetachStores, DetachCancels, ServerCancels, CancelFor
<1>10. CASE UNCHANGED vars
  BY <1>10
<1>. QED
  BY <1>2, <1>3, <1>4, <1>5, <1>6, <1>7, <1>8, <1>9, <1>10 DEF Next
\* A message is written to an open socket, by the writer, by the forwarder or by
\* runBridge itself.
LEMMA WireStep ==
    ASSUME TypeOK, Next
    PROVE  \/ UNCHANGED wire
           \/ /\ conn = "open"
              /\ \/ WriterWrites /\ wire' = Append(wire, Output(item))
                 \/ \E k \in {"ready", "agent"} : wire' = Append(wire, <<k, 0>>)
                 \/ MainFinal /\ \E k \in LastMessages : wire' = Append(wire, <<k, 0>>)
                 \/ MainClosesConn /\ wire' = Append(wire, <<"close", 0>>)
<1>. USE DEF Delivers, WriteFails
<1>1. CASE MainStep
  <2>1. CASE MainReady \/ MainFinal \/ MainClosesConn
    BY <2>1 DEF MainReady, MainFinal, MainClosesConn
  <2>2. CASE MainReadyFails \/ MainEarlyClose \/ MainEarlyWait \/ MainSeesExit \/ MainSeesEvent
             \/ MainSeesCancel \/ MainReadsCtx \/ MainReadsDetached
    BY <2>2 DEF MainReadyFails, MainEarlyClose, MainEarlyWait, MainSeesExit, MainSeesEvent,
                MainSeesCancel, MainReadsCtx, MainReadsDetached
  <2>3. CASE MainReaderDone \/ MainReaderTimeout \/ MainClosesQueue \/ MainGetsResult
             \/ MainResultTimeout \/ MainWriterDone \/ MainWriterTimeout \/ MainClosesSession
    BY <2>3 DEF MainReaderDone, MainReaderTimeout, MainClosesQueue, MainGetsResult,
                MainResultTimeout, MainWriterDone, MainWriterTimeout, MainClosesSession
  <2>. QED
    BY <1>1, <2>1, <2>2, <2>3 DEF MainStep
<1>2. CASE ReaderStep
  BY <1>2 DEF ReaderStep, ReaderReads, ReaderStops, ReaderPushes, ReaderQuits
<1>3. CASE WriterStep
  BY <1>3 DEF WriterStep, WriterPops, WriterWrites, WriterStops
<1>4. CASE AgentsWrite
  BY <1>4 DEF AgentsWrite
<1>5. CASE WaiterReaps \/ InputEnds \/ AgentsDropReport \/ \E g \in Goroutines : Report(g)
           \/ StopsOnCancel(g)
  BY <1>5 DEF WaiterReaps, InputEnds, AgentsDropReport, Report, StopsOnCancel
<1>6. CASE Environment
  BY <1>6 DEF Environment, ChildWrites, ChildExits, PageGone, InputInvalid, PingFails,
     AgentCompletes, DetachStores, DetachCancels, ServerCancels, CancelFor
<1>. QED
  BY <1>1, <1>2, <1>3, <1>4, <1>5, <1>6 DEF Next, AgentsStep, Goroutines

\* TypeOK of everything but the goroutines, the wire and the queue.
ScalarsOK ==
    /\ conn \in {"open", "failed", "closed"}
    /\ child \in {"running", "exited"} /\ held \in BOOLEAN
    /\ produced \in 0..MaxChunks /\ taken \in 0..produced
    /\ ptyClosed \in BOOLEAN
    /\ terminated \in {"no", "ok", "failed"} /\ closed \in {"no", "ok", "failed"}
    /\ queueClosed \in BOOLEAN /\ dropped \in BOOLEAN
    /\ firstEvent \in EventKinds \cup {"none"} /\ eventCount \in 0..EventsCapacity
    /\ results \in {"none", "ok", "failed"}
    /\ completions \in 0..MaxCompletions
    /\ ctx \in {"live", "detach", "shutdown"}
    /\ detached \in BOOLEAN /\ bridgeCancelled \in BOOLEAN
    /\ gotResult \in BOOLEAN /\ ctxErr \in BOOLEAN /\ sawDetached \in BOOLEAN
    /\ text \in {"none", "overflow", "protocol"}
    /\ natural \in BOOLEAN /\ cleanupErr \in BOOLEAN /\ gaveUp \in BOOLEAN

LEMMA ScalarsStep == IInv /\ [Next]_vars => ScalarsOK'
<1>. SUFFICES ASSUME IInv, [Next]_vars PROVE ScalarsOK'
  OBVIOUS
<1>1. TypeOK /\ CloseInv
  BY DEF IInv
<1>2. ScalarsOK
  BY <1>1 DEF TypeOK, ScalarsOK
<1>. USE <1>2 DEF ScalarsOK, Delivers, WriteFails
<1>3. CASE MainStep
  <2>1. CASE MainReady \/ MainReadyFails
    BY <2>1 DEF MainReady, MainReadyFails
  <2>2. CASE MainEarlyClose \/ MainReaderTimeout \/ MainClosesSession
    <3>1. CloseSession
      BY <2>2 DEF MainEarlyClose, MainReaderTimeout, MainClosesSession
    <3>2. /\ ptyClosed' = TRUE
          /\ terminated' \in {"ok", "failed"} /\ closed' \in {"ok", "failed"}
          /\ child' \in {child, "exited"}
      BY <1>1, <3>1, Closed
    <3>3. cleanupErr' \in BOOLEAN
      BY <2>2 DEF MainEarlyClose, MainReaderTimeout, MainClosesSession
    <3>4. CASE MainEarlyClose
      BY <3>2, <3>3, <3>4 DEF MainEarlyClose
    <3>5. CASE MainReaderTimeout
      BY <3>2, <3>3, <3>5 DEF MainReaderTimeout
    <3>6. CASE MainClosesSession
      BY <3>2, <3>3, <3>6 DEF MainClosesSession
    <3>. QED
      BY <2>2, <3>4, <3>5, <3>6
  <2>3. CASE MainEarlyWait
    <3>1. PICK waitErr \in Outcome("reap") : cleanupErr' = (cleanupErr \/ waitErr = "failed")
      BY <2>3 DEF MainEarlyWait
    <3>2. cleanupErr' \in BOOLEAN
      BY <3>1
    <3>. QED
      BY <2>3, <3>2 DEF MainEarlyWait
  <2>4. CASE MainSeesExit
    BY <2>4 DEF MainSeesExit
  <2>5. CASE MainSeesCancel
    BY <2>5 DEF MainSeesCancel
  <2>6. CASE MainReadsCtx
    BY <2>6 DEF MainReadsCtx
  <2>7. CASE MainReadsDetached
    BY <2>7 DEF MainReadsDetached
  <2>8. CASE MainReaderDone
    BY <2>8 DEF MainReaderDone
  <2>9. CASE MainClosesQueue
    BY <2>9 DEF MainClosesQueue
  <2>10. CASE MainGetsResult
    BY <2>10 DEF MainGetsResult
  <2>11. CASE MainResultTimeout
    BY <2>11 DEF MainResultTimeout
  <2>12. CASE MainWriterDone
    BY <2>12 DEF MainWriterDone
  <2>13. CASE MainWriterTimeout
    BY <2>13 DEF MainWriterTimeout
  <2>14. CASE MainFinal
    BY <2>14 DEF MainFinal
  <2>15. CASE MainClosesConn
    BY <2>15 DEF MainClosesConn
  <2>16. CASE MainSeesEvent
    BY <2>16 DEF MainSeesEvent, EventKinds, EventsCapacity
  <2>. QED
    BY <1>3, <2>1, <2>2, <2>3, <2>4, <2>5, <2>6, <2>7, <2>8, <2>9, <2>10, <2>11, <2>12, <2>13,
       <2>14, <2>15, <2>16 DEF MainStep
<1>4. CASE ReaderStep
  <2>1. CASE ReaderReads
    BY <2>1 DEF ReaderReads
  <2>2. CASE ReaderStops
    BY <2>2 DEF ReaderStops
  <2>3. CASE ReaderPushes
    <3>1. dropped' \in BOOLEAN
      BY <2>3 DEF ReaderPushes
    <3>. QED
      BY <2>3, <3>1 DEF ReaderPushes
  <2>4. CASE ReaderQuits
    BY <2>4 DEF ReaderQuits
  <2>. QED
    BY <1>4, <2>1, <2>2, <2>3, <2>4 DEF ReaderStep
<1>5. CASE WriterStep
  BY <1>5 DEF WriterStep, WriterPops, WriterWrites, WriterStops
<1>6. CASE WaiterReaps
  BY <1>6 DEF WaiterReaps, Terminate, Outcome
<1>7. CASE InputEnds \/ AgentsWrite \/ AgentsDropReport \/ \E g \in Goroutines : StopsOnCancel(g)
  BY <1>7 DEF InputEnds, AgentsWrite, AgentsDropReport, StopsOnCancel
<1>8. CASE \E g \in Goroutines : Report(g)
  BY <1>8 DEF Report, EventsCapacity
<1>9. CASE ChildWrites \/ ChildExits \/ PageGone \/ InputInvalid \/ PingFails \/ AgentCompletes
  BY <1>9 DEF ChildWrites, ChildExits, PageGone, InputInvalid, PingFails, AgentCompletes
<1>10. CASE DetachStores \/ DetachCancels \/ ServerCancels
  <2>1. CASE DetachStores
    BY <2>1 DEF DetachStores
  <2>2. CASE DetachCancels
    BY <2>2 DEF DetachCancels, CancelFor
  <2>3. CASE ServerCancels
    BY <2>3 DEF ServerCancels, CancelFor
  <2>. QED
    BY <1>10, <2>1, <2>2, <2>3
<1>11. CASE UNCHANGED vars
  BY <1>11
<1>. QED
  BY <1>3, <1>4, <1>5, <1>6, <1>7, <1>8, <1>9, <1>10, <1>11
     DEF Next, AgentsStep, Goroutines, Environment

LEMMA TypeStep == IInv /\ [Next]_vars => TypeOK'
<1>. SUFFICES ASSUME IInv, [Next]_vars PROVE TypeOK'
  OBVIOUS
<1>1. TypeOK /\ PcInv /\ QueueInv
  BY DEF IInv
<1>2. pc' \in [Goroutines -> MainPcs \cup Pcs]
  BY PcStep DEF PcInv
<1>3. wire' \in Seq(Messages)
  <2>1. \A k \in Finals \cup {"ready", "agent", "close"} : <<k, 0>> \in Messages
    BY DEF Messages
  <2>2. LastMessages \subseteq Finals
    BY DEF LastMessages, Finals
  <2>3. ASSUME WriterWrites PROVE Output(item) \in Messages
    <3>1. item # 0
      BY <1>1, <2>3, LenProperties DEF WriterWrites, QueueInv, Written, TypeOK
    <3>. QED
      BY <1>1, <3>1 DEF Messages, TypeOK
  <2>. QED
    BY <1>1, <2>1, <2>2, <2>3, WireStep, Appended DEF TypeOK
<1>4. /\ queue' \in Seq(1..MaxChunks) /\ Len(queue') <= QueueLimit
      /\ item' \in 0..MaxChunks
  <2>1. queue \in Seq(1..MaxChunks) /\ Len(queue) <= QueueLimit /\ item \in 0..MaxChunks
    BY <1>1 DEF TypeOK
  <2>2. CASE ReaderPushes
    <3>1. taken \in 1..MaxChunks
      BY <1>1, <2>2 DEF ReaderPushes, QueueInv, TypeOK
    <3>2. /\ UNCHANGED item
          /\ UNCHANGED queue \/ (queue' = Append(queue, taken) /\ Len(queue) < QueueLimit)
      <4>1. Len(queue) \in Nat /\ queueClosed \in BOOLEAN
        BY <1>1, LenProperties DEF TypeOK
      <4>2. CASE ~queueClosed /\ Len(queue) < QueueLimit
        BY <2>2, <4>1, <4>2 DEF ReaderPushes
      <4>3. CASE ~(~queueClosed /\ Len(queue) < QueueLimit)
        <5>1. dropped' = TRUE /\ UNCHANGED queue
          BY <2>2, <4>3, Zenon DEF ReaderPushes
        <5>2. UNCHANGED item
          BY <2>2, Zenon DEF ReaderPushes
        <5>. QED
          BY <5>1, <5>2
      <4>. QED
        BY <4>2, <4>3
    <3>. QED
      BY <2>1, <3>1, <3>2, AppendProperties, LenProperties
  <2>3. CASE WriterPops
    <3>1. queue # <<>> /\ item' = Head(queue) /\ queue' = Tail(queue)
      BY <2>3 DEF WriterPops
    <3>. QED
      BY <2>1, <3>1, HeadTailProperties, LenProperties
  <2>4. CASE WriterWrites
    BY <2>1, <2>4 DEF WriterWrites
  <2>5. CASE UNCHANGED <<queue, item>>
    BY <2>1, <2>5
  <2>. QED
    BY <2>2, <2>3, <2>4, <2>5, Moves DEF ReaderStep, ReaderReads, ReaderStops, ReaderQuits,
                                         WriterStep, WriterStops
<1>. QED
  BY <1>2, <1>3, <1>4, ScalarsStep DEF TypeOK, ScalarsOK
\* The queue and the chunk the writer has: only a write moves the writer on.
LEMMA QueueStep ==
    IInv /\ [Next]_vars => /\ QueueInv'
                           /\ Written' = Written \/ WriterWrites
<1>. SUFFICES ASSUME IInv, [Next]_vars
              PROVE  QueueInv' /\ (Written' = Written \/ WriterWrites)
  OBVIOUS
<1>1. /\ QueueInv /\ PcInv /\ PcInv'
      /\ queue \in Seq(1..MaxChunks) /\ Len(queue) \in Nat /\ taken \in Nat /\ item \in Nat
      /\ dropped \in BOOLEAN /\ queueClosed \in BOOLEAN
  BY PcStep, LenProperties DEF IInv, TypeOK
<1>2. CASE ReaderStep
  <2>1. /\ pc'["writer"] = pc["writer"] /\ pc'["main"] = pc["main"] /\ UNCHANGED <<conn, item>>
    BY <1>1, <1>2 DEF ReaderStep, ReaderReads, ReaderStops, ReaderPushes, ReaderQuits, PcInv,
       Goroutines
  <2>2. CASE ReaderReads
    BY <1>1, <2>1, <2>2 DEF ReaderReads, QueueInv, Pushed, Written, PcInv, Early, Others,
       Goroutines
  <2>3. CASE ReaderStops \/ ReaderQuits
    <3>1. /\ UNCHANGED <<taken, queue, dropped>> /\ (UNCHANGED queueClosed \/ queueClosed' = TRUE)
          /\ pc["reader"] \in {"read", "quit"} /\ pc'["reader"] \in {"quit", "end"}
      BY <1>1, <2>3 DEF ReaderStops, ReaderQuits, PcInv, Goroutines
    <3>2. Pushed' = Pushed /\ Written' = Written
      BY <2>1, <3>1 DEF Pushed, Written
    <3>. QED
      BY <1>1, <2>1, <3>1, <3>2 DEF QueueInv
  <2>4. CASE ReaderPushes
    <3>1. CASE ~(~queueClosed /\ Len(queue) < QueueLimit)
      <4>1. /\ dropped' = TRUE /\ UNCHANGED <<taken, queue, queueClosed>>
            /\ pc["reader"] = "push" /\ pc'["reader"] = "overflow"
        BY <1>1, <2>4, <3>1 DEF ReaderPushes, PcInv, Goroutines
      <4>2. Pushed' = Pushed /\ Written' = Written
        BY <2>1, <4>1 DEF Pushed, Written
      <4>. QED
        BY <1>1, <2>1, <4>1, <4>2 DEF QueueInv
    <3>2. CASE ~queueClosed /\ Len(queue) < QueueLimit
      <4>1. queue' = Append(queue, taken) /\ UNCHANGED <<taken, queueClosed, dropped>>
            /\ pc["reader"] = "push" /\ pc'["reader"] = "read"
        BY <1>1, <2>4, <3>2 DEF ReaderPushes, PcInv, Goroutines
      <4>2. Len(queue') = Len(queue) + 1
            /\ \A i \in 1..Len(queue') : queue'[i] = IF i <= Len(queue) THEN queue[i] ELSE taken
        BY <1>1, <4>1
      <4>3. ~dropped /\ Pushed' = Pushed + 1 /\ taken > 0 /\ Pushed = taken - 1
        BY <1>1, <4>1 DEF QueueInv, Pushed
      <4>. QED
        BY <1>1, <2>1, <3>2, <4>1, <4>2, <4>3 DEF QueueInv, Written, PcInv
    <3>. QED
      BY <3>1, <3>2
  <2>. QED
    BY <1>2, <2>2, <2>3, <2>4 DEF ReaderStep
<1>3. CASE WriterStep
  <2>1. /\ pc'["reader"] = pc["reader"] /\ pc'["main"] = pc["main"]
        /\ UNCHANGED <<conn, taken, dropped, queueClosed>>
        /\ Pushed' = Pushed
    BY <1>1, <1>3 DEF WriterStep, WriterPops, WriterWrites, WriterStops, PcInv, Goroutines,
       Delivers, WriteFails, Pushed
  <2>2. CASE WriterPops
    <3>1. /\ item' = Head(queue) /\ queue' = Tail(queue) /\ queue # <<>>
          /\ pc["writer"] = "pop" /\ pc'["writer"] = "write"
      BY <1>1, <2>2 DEF WriterPops, PcInv, Goroutines
    <3>2. /\ Len(queue) > 0 /\ Len(queue') = Len(queue) - 1 /\ Head(queue) = queue[1]
          /\ \A i \in 1..Len(queue') : queue'[i] = queue[i + 1]
      BY <1>1, <3>1, HeadTailProperties, EmptySeq
    <3>3. Pushed \in Int
      BY <1>1 DEF Pushed
    <3>4. Written' = Written
      <4>1. Written = Pushed - Len(queue) - 0
        BY <3>1 DEF Written
      <4>2. Written' = Pushed' - Len(queue') - 1
        BY <3>1 DEF Written
      <4>. QED
        BY <1>1, <2>1, <3>2, <3>3, <4>1, <4>2
    <3>5. \A i \in 1..Len(queue) : queue[i] = Pushed - Len(queue) + i
      BY <1>1 DEF QueueInv
    <3>6. item' = Pushed' - Len(queue')
      <4>1. item' = queue[1]
        BY <3>1, <3>2
      <4>2. 1 \in 1..Len(queue)
        BY <1>1, <3>2
      <4>. QED
        BY <1>1, <2>1, <3>2, <3>3, <3>5, <4>1, <4>2
    <3>7. \A i \in 1..Len(queue') : queue'[i] = Pushed' - Len(queue') + i
      BY <1>1, <2>1, <3>2, <3>3, <3>5
    <3>. QED
      BY <1>1, <2>1, <3>1, <3>4, <3>6, <3>7 DEF QueueInv
  <2>3. CASE WriterWrites
    BY <1>1, <2>1, <2>3 DEF WriterWrites, QueueInv, Written, PcInv, Goroutines, Delivers,
       WriteFails
  <2>4. CASE WriterStops
    BY <1>1, <2>1, <2>4 DEF WriterStops, QueueInv, Written, PcInv, Goroutines
  <2>. QED
    BY <1>3, <2>2, <2>3, <2>4 DEF WriterStep
<1>4. CASE MainReady
  <2>1. /\ pc["main"] = "ready" /\ pc["reader"] = "off" /\ pc["writer"] = "off"
        /\ pc'["main"] = "select" /\ pc'["reader"] = "read" /\ pc'["writer"] = "pop"
        /\ UNCHANGED <<conn, queueVars>>
    BY <1>1, <1>4 DEF MainReady, PcInv, Early, Others, Goroutines, Delivers
  <2>2. Pushed' = Pushed /\ Written' = Written
    BY <2>1 DEF Pushed, Written
  <2>. QED
    BY <1>1, <2>1, <2>2 DEF QueueInv, Early
<1>5. CASE Next /\ ~ReaderStep /\ ~WriterStep /\ ~MainReady
  <2>1. /\ UNCHANGED <<taken, queue, item, dropped>>
        /\ UNCHANGED queueClosed \/ queueClosed' = TRUE
        /\ UNCHANGED conn \/ conn' # "open"
    BY <1>5, Moves
  <2>2. /\ pc'["main"] \in Early => pc["main"] \in Early
        /\ pc'["reader"] = pc["reader"] \/ Report("reader")
        /\ pc'["writer"] = pc["writer"] \/ Report("writer")
    BY <1>1, <1>5, PcMoves
  <2>3. pc'["reader"] = pc["reader"] \/ (pc["reader"] = "overflow" /\ pc'["reader"] = "quit")
    BY <1>1, <2>2 DEF Report, PcInv, EventKinds, Goroutines
  <2>4. pc'["writer"] = pc["writer"] \/ (pc["writer"] = "gone" /\ pc'["writer"] = "end")
    BY <1>1, <2>2 DEF Report, PcInv, EventKinds, Goroutines
  <2>. QED
    BY <1>1, <2>1, <2>2, <2>3, <2>4 DEF QueueInv, Pushed, Written
<1>6. CASE UNCHANGED vars
  BY <1>1, <1>6 DEF QueueInv, Pushed, Written
<1>. QED
  BY <1>2, <1>3, <1>4, <1>5, <1>6

\* While the socket is open, the page has what the writer is done with.
LEMMA WireInvStep == IInv /\ [Next]_vars => WireInv'
<1>. SUFFICES ASSUME IInv, [Next]_vars PROVE WireInv'
  OBVIOUS
<1>1. /\ TypeOK /\ WireInv /\ QueueInv /\ QueueInv' /\ PcInv /\ wire \in Seq(Messages)
      /\ Written' = Written \/ WriterWrites
  BY QueueStep DEF IInv, TypeOK
<1>2. CASE WriterWrites /\ conn = "open"
  <2>1. /\ wire' = Append(wire, Output(item)) /\ UNCHANGED <<conn, queue, taken, dropped>>
        /\ pc["writer"] = "write" /\ pc'["writer"] = "pop" /\ pc'["reader"] = pc["reader"]
    BY <1>1, <1>2 DEF WriterWrites, Delivers, WriteFails, PcInv, Goroutines
  <2>2. Pushed' = Pushed /\ Pushed \in Int /\ Len(queue) \in Nat
    BY <1>1, <2>1, LenProperties DEF Pushed, TypeOK
  <2>3. item = Pushed - Len(queue) /\ Written = Pushed - Len(queue) - 1 /\ Written >= 0
    BY <1>1, <2>1 DEF QueueInv, Written
  <2>4. Written' = Pushed' - Len(queue') - 0
    BY <2>1 DEF Written
  <2>5. Written \in Nat /\ item = Written + 1 /\ Written' = item /\ item \in 1..MaxChunks
    BY <1>1, <2>1, <2>2, <2>3, <2>4 DEF TypeOK
  <2>6. Output(item) \in Messages /\ \A n \in 1..MaxChunks : Output(item) = Output(n) => n = item
    BY <2>5 DEF Output, Messages
  <2>7. \A n \in 1..MaxChunks : Arrived(n) <=> n <= Written
    BY <1>1, <1>2 DEF WireInv
  <2>8. \A n \in 1..MaxChunks : Output(item) = Output(n) =>
            /\ ~Arrived(n) /\ \A i \in 1..(n - 1) : Arrived(i)
    BY <2>5, <2>6, <2>7
  <2>9. /\ OutputInOrder'
        /\ \A n \in 1..MaxChunks : Arrived(n)' <=> Arrived(n) \/ Output(item) = Output(n)
    BY <1>1, <2>1, <2>6, <2>8, Appended DEF WireInv
  <2>. QED
    BY <2>5, <2>6, <2>7, <2>9 DEF WireInv
<1>3. CASE ~(WriterWrites /\ conn = "open")
  <2>1. conn' = "open" => conn = "open" /\ Written' = Written
    <3>1. UNCHANGED conn \/ conn' # "open"
      BY Moves
    <3>. QED
      BY <1>1, <1>3, <3>1
  <2>2. CASE UNCHANGED wire
    BY <1>1, <2>1, <2>2 DEF WireInv, OutputInOrder, Arrived
  <2>3. ASSUME NEW k \in Finals \cup {"ready", "agent", "close"}, wire' = Append(wire, <<k, 0>>)
        PROVE  WireInv'
    <3>1. <<k, 0>> \in Messages /\ \A n \in 1..MaxChunks : <<k, 0>> # Output(n)
      BY DEF Messages, Output, Finals
    <3>2. /\ OutputInOrder'
          /\ \A n \in 1..MaxChunks : Arrived(n)' <=> Arrived(n)
      BY <1>1, <2>3, <3>1, Appended DEF WireInv
    <3>. QED
      BY <1>1, <2>1, <3>2 DEF WireInv
  <2>4. LastMessages \subseteq Finals
    BY DEF LastMessages, Finals
  <2>5. UNCHANGED vars \/ Next
    OBVIOUS
  <2>. QED
    BY <1>1, <1>3, <2>2, <2>3, <2>4, <2>5, WireStep
<1>. QED
  BY <1>2, <1>3


\* Who closed the session, and that a failure to do so is reported.
LEMMA CloseStep == IInv /\ [Next]_vars => CloseInv'
<1>. SUFFICES ASSUME IInv, [Next]_vars PROVE CloseInv'
  OBVIOUS
<1>1. /\ TypeOK /\ CloseInv /\ ResultInv /\ PcInv /\ ScalarsOK
  BY DEF IInv, TypeOK, ScalarsOK
<1>2. CASE MainStep
  <2>1. CASE MainEarlyClose \/ MainReaderTimeout \/ MainClosesSession
    <3>1. /\ ptyClosed' = TRUE
          /\ terminated' \in {"ok", "failed"} /\ closed' \in {"ok", "failed"}
          /\ terminated' = "ok" => child' = "exited"
          /\ closed' = "ok" => terminated' = "ok"
      BY <1>1, <2>1, Closed DEF MainEarlyClose, MainReaderTimeout, MainClosesSession
    <3>2. closed' = "failed" => cleanupErr'
      BY <2>1 DEF MainEarlyClose, MainReaderTimeout, MainClosesSession
    <3>3. pc'["main"] \in {"earlyWait", "closeQueue", "final"}
      BY <1>1, <2>1 DEF MainEarlyClose, MainReaderTimeout, MainClosesSession, PcInv, Goroutines
    <3>. QED
      BY <3>1, <3>2, <3>3 DEF CloseInv
  <2>2. CASE MainReady \/ MainReadyFails
    BY <1>1, <2>2 DEF MainReady, MainReadyFails, CloseInv, PcInv, Goroutines
  <2>3. CASE MainEarlyWait
    BY <1>1, <2>3 DEF MainEarlyWait, CloseInv, PcInv, Goroutines
  <2>4. CASE MainSeesExit \/ MainSeesEvent \/ MainSeesCancel \/ MainReadsCtx
    BY <1>1, <2>4 DEF MainSeesExit, MainSeesEvent, MainSeesCancel, MainReadsCtx, CloseInv,
       PcInv, Goroutines
  <2>5. CASE MainReadsDetached
    BY <1>1, <2>5 DEF MainReadsDetached, CloseInv, PcInv, Goroutines
  <2>6. CASE MainReaderDone \/ MainClosesQueue
    BY <1>1, <2>6 DEF MainReaderDone, MainClosesQueue, CloseInv, ResultInv, PcInv, Goroutines
  <2>7. CASE MainGetsResult \/ MainResultTimeout
    BY <1>1, <2>7 DEF MainGetsResult, MainResultTimeout, CloseInv, PcInv, Goroutines
  <2>8. CASE MainWriterDone \/ MainWriterTimeout
    BY <1>1, <2>8 DEF MainWriterDone, MainWriterTimeout, AfterWriter, CloseInv, PcInv, Goroutines
  <2>9. CASE MainFinal \/ MainClosesConn
    BY <1>1, <2>9 DEF MainFinal, MainClosesConn, CloseInv, PcInv, Goroutines
  <2>. QED
    BY <1>2, <2>1, <2>2, <2>3, <2>4, <2>5, <2>6, <2>7, <2>8, <2>9 DEF MainStep
<1>3. CASE WaiterReaps
  <2>1. /\ UNCHANGED <<ptyClosed, closed, mainVars>> /\ pc'["main"] = pc["main"]
        /\ terminated' = "ok" => child' = "exited"
        /\ terminated # "no" => terminated' = terminated
    BY <1>1, <1>3 DEF WaiterReaps, Terminate, CloseInv, PcInv, Goroutines
  <2>. QED
    BY <1>1, <2>1 DEF CloseInv
<1>4. CASE Next /\ ~MainStep /\ ~WaiterReaps
  <2>1. /\ UNCHANGED mainVars
        /\ UNCHANGED ptyVars
        /\ UNCHANGED child \/ child' = "exited"
        /\ pc'["main"] = pc["main"]
    BY <1>1, <1>4, Moves, PcMoves
  <2>. QED
    BY <1>1, <2>1 DEF CloseInv
<1>5. CASE UNCHANGED vars
  BY <1>1, <1>5 DEF CloseInv
<1>. QED
  BY <1>2, <1>3, <1>4, <1>5


\* That runBridge has the result of Wait, or reports the lack of it.
LEMMA ResultStep == IInv /\ [Next]_vars => ResultInv'
<1>. SUFFICES ASSUME IInv, [Next]_vars PROVE ResultInv'
  OBVIOUS
<1>1. /\ TypeOK /\ ResultInv /\ CancelInv /\ PcInv /\ ScalarsOK
  BY DEF IInv, TypeOK, ScalarsOK
<1>2. CASE MainReady
  BY <1>1, <1>2 DEF MainReady, ResultInv, PcInv, Early, Others, Goroutines
<1>3. CASE MainStep /\ ~MainReady
  <2>1. /\ UNCHANGED <<results, ctx>> /\ (UNCHANGED child \/ child' = "exited")
        /\ pc'["waiter"] = pc["waiter"]
    BY <1>1, <1>3, Moves, MainMoves, MainLeaves DEF Others, Goroutines, Next
  <2>2. CASE MainReadyFails \/ MainEarlyClose \/ MainEarlyWait
    <3>1. /\ pc["main"] \in Early /\ pc["waiter"] = "off"
          /\ \/ pc'["main"] \in Early /\ UNCHANGED gotResult
             \/ pc'["main"] = "returned" /\ gotResult' = TRUE /\ child = "exited"
          /\ UNCHANGED <<natural, ctxErr>>
      BY <1>1, <2>2 DEF MainReadyFails, MainEarlyClose, MainEarlyWait, PcInv, Early, Others,
         Goroutines
    <3>. QED
      BY <1>1, <2>1, <3>1 DEF ResultInv, Early
  <2>3. CASE MainSeesExit \/ MainSeesEvent \/ MainSeesCancel \/ MainReadsCtx
    BY <1>1, <2>1, <2>3 DEF MainSeesExit, MainSeesEvent, MainSeesCancel, MainReadsCtx,
       ResultInv, PcInv, Early, Goroutines
  <2>4. CASE MainReadsDetached
    BY <1>1, <2>1, <2>4 DEF MainReadsDetached, ResultInv, PcInv, Early, Goroutines
  <2>5. CASE MainReaderDone \/ MainReaderTimeout \/ MainClosesQueue
    BY <1>1, <2>1, <2>5 DEF MainReaderDone, MainReaderTimeout, MainClosesQueue, ResultInv,
       PcInv, Early, Goroutines
  <2>6. CASE MainGetsResult \/ MainResultTimeout
    BY <1>1, <2>1, <2>6 DEF MainGetsResult, MainResultTimeout, ResultInv, PcInv, Early, Goroutines
  <2>7. CASE MainWriterDone \/ MainWriterTimeout \/ MainClosesSession
    BY <1>1, <2>1, <2>7 DEF MainWriterDone, MainWriterTimeout, MainClosesSession, AfterWriter,
       ResultInv, PcInv, Early, Goroutines
  <2>8. CASE MainFinal \/ MainClosesConn
    <3>1. /\ pc["main"] \in {"final", "closeFrame"} /\ pc'["main"] \in {"closeFrame", "returned"}
          /\ UNCHANGED <<gotResult, natural, ctxErr>> /\ (cleanupErr => cleanupErr')
      <4>1. CASE MainFinal
        BY <1>1, <4>1 DEF MainFinal, PcInv, Goroutines
      <4>2. CASE MainClosesConn
        BY <1>1, <4>2 DEF MainClosesConn, PcInv, Goroutines
      <4>. QED
        BY <2>8, <4>1, <4>2
    <3>. QED
      BY <1>1, <2>1, <3>1 DEF ResultInv, Early
  <2>. QED
    BY <1>3, <2>2, <2>3, <2>4, <2>5, <2>6, <2>7, <2>8 DEF MainStep
<1>4. CASE WaiterReaps
  <2>1. /\ UNCHANGED mainVars /\ pc'["main"] = pc["main"]
        /\ child' = "exited" /\ pc["waiter"] = "wait" /\ pc'["waiter"] = "end"
    BY <1>1, <1>4 DEF WaiterReaps, Terminate, PcInv, Goroutines
  <2>. QED
    BY <1>1, <2>1 DEF ResultInv, PcInv, Early, Others, Goroutines
<1>5. CASE Next /\ ~MainStep /\ ~WaiterReaps
  <2>1. /\ UNCHANGED <<mainVars, results>> /\ (UNCHANGED child \/ child' = "exited")
        /\ pc'["main"] = pc["main"] /\ pc'["waiter"] = pc["waiter"]
    BY <1>1, <1>5, Moves, PcMoves DEF MainStep
  <2>. QED
    BY <1>1, <2>1 DEF ResultInv
<1>6. CASE UNCHANGED vars
  BY <1>1, <1>6 DEF ResultInv
<1>. QED
  BY <1>2, <1>3, <1>4, <1>5, <1>6

\* That a cancelled runBridge knows of a takeover.
LEMMA CancelStep == IInv /\ [Next]_vars => CancelInv'
<1>. SUFFICES ASSUME IInv, [Next]_vars PROVE CancelInv'
  OBVIOUS
<1>1. CancelInv /\ PcInv /\ ScalarsOK
  BY DEF IInv, TypeOK, ScalarsOK
<1>2. CASE MainStep
  <2>1. UNCHANGED <<ctx, detached>>
    BY <1>2, MainLeaves
  <2>2. CASE MainReady \/ MainReadyFails \/ MainEarlyClose \/ MainEarlyWait
    <3>1. pc["main"] \in Early /\ UNCHANGED <<ctxErr, sawDetached>>
      BY <2>2 DEF MainReady, MainReadyFails, MainEarlyClose, MainEarlyWait, Early
    <3>. QED
      BY <1>1, <2>1, <3>1 DEF CancelInv
  <2>3. CASE MainSeesExit \/ MainSeesEvent \/ MainSeesCancel
    BY <1>1, <2>1, <2>3 DEF MainSeesExit, MainSeesEvent, MainSeesCancel, CancelInv, PcInv,
       Early, Goroutines
  <2>4. CASE MainReadsCtx
    <3>1. pc'["main"] = "detached" /\ (ctxErr' => ctx # "live")
      BY <1>1, <2>4 DEF MainReadsCtx, PcInv, Goroutines
    <3>. QED
      BY <1>1, <2>1, <3>1 DEF CancelInv, Early
  <2>5. CASE MainReadsDetached
    BY <1>1, <2>1, <2>5 DEF MainReadsDetached, CancelInv, PcInv, Early, Goroutines
  <2>6. CASE MainReaderDone \/ MainReaderTimeout \/ MainClosesQueue
    BY <1>1, <2>1, <2>6 DEF MainReaderDone, MainReaderTimeout, MainClosesQueue, CancelInv,
       PcInv, Early, Goroutines
  <2>7. CASE MainGetsResult \/ MainResultTimeout
    BY <1>1, <2>1, <2>7 DEF MainGetsResult, MainResultTimeout, CancelInv, PcInv, Early, Goroutines
  <2>8. CASE MainWriterDone \/ MainWriterTimeout \/ MainClosesSession
    BY <1>1, <2>1, <2>8 DEF MainWriterDone, MainWriterTimeout, MainClosesSession, AfterWriter,
       CancelInv, PcInv, Early, Goroutines
  <2>9. CASE MainFinal \/ MainClosesConn
    BY <1>1, <2>1, <2>9 DEF MainFinal, MainClosesConn, CancelInv, PcInv, Early, Goroutines
  <2>. QED
    BY <1>2, <2>2, <2>3, <2>4, <2>5, <2>6, <2>7, <2>8, <2>9 DEF MainStep
<1>3. CASE Next /\ ~MainStep
  <2>1. UNCHANGED mainVars /\ pc'["main"] = pc["main"]
    BY <1>1, <1>3, Moves, PcMoves
  <2>2. CASE DetachStores \/ DetachCancels \/ ServerCancels
    BY <1>1, <2>1, <2>2 DEF CancelInv, DetachStores, DetachCancels, ServerCancels, CancelFor
  <2>3. CASE UNCHANGED <<ctx, detached>>
    BY <1>1, <2>1, <2>3 DEF CancelInv
  <2>. QED
    BY <1>3, <2>2, <2>3, Moves
<1>4. CASE UNCHANGED vars
  BY <1>1, <1>4 DEF CancelInv
<1>. QED
  BY <1>2, <1>3, <1>4

\* What runBridge has waited for after a natural exit.
LEMMA DrainStep == IInv /\ [Next]_vars => DrainInv'
<1>. SUFFICES ASSUME IInv, [Next]_vars PROVE DrainInv'
  OBVIOUS
<1>1. DrainInv /\ CloseInv /\ ResultInv /\ QueueInv /\ PcInv /\ ScalarsOK
  BY DEF IInv, TypeOK, ScalarsOK
<1>. DEFINE Read == dropped \/ ptyClosed \/ (child = "exited" /\ taken = produced)
<1>2. CASE MainStep
  <2>1. /\ pc'["reader"] = pc["reader"] \/ (MainReady /\ pc'["reader"] = "read")
        /\ pc'["writer"] = pc["writer"] \/ (MainReady /\ pc'["writer"] = "pop")
        /\ UNCHANGED produced
    BY <1>1, <1>2, MainMoves, MainLeaves DEF MainReady, Others, Goroutines
  <2>2. /\ UNCHANGED ptyClosed \/ ptyClosed' = TRUE
        /\ UNCHANGED child \/ child' = "exited"
    BY <1>2, Moves DEF Next
  <2>3. UNCHANGED <<taken, dropped>>
    BY <1>2, MainLeaves
  <2>4. pc'["reader"] \in {"quit", "end"} => Read'
    BY <1>1, <2>1, <2>2, <2>3 DEF DrainInv
  <2>5. CASE \/ MainReady \/ MainReadyFails \/ MainEarlyClose \/ MainEarlyWait
             \/ MainSeesExit \/ MainSeesEvent \/ MainSeesCancel \/ MainReadsCtx
    <3>1. pc'["main"] \notin {"closeQueue", "awaitWriter", "close", "final"}
      BY <1>1, <2>5 DEF MainReady, MainReadyFails, MainEarlyClose, MainEarlyWait, MainSeesExit,
         MainSeesEvent, MainSeesCancel, MainReadsCtx, PcInv, Goroutines
    <3>. QED
      BY <2>4, <3>1 DEF DrainInv
  <2>6. CASE MainReadsDetached
    <3>1. pc'["main"] = "awaitReader" \/ (pc'["main"] = "close" /\ ~natural')
      BY <1>1, <2>6 DEF MainReadsDetached, PcInv, Goroutines
    <3>. QED
      BY <2>4, <3>1 DEF DrainInv
  <2>7. CASE MainReaderDone
    <3>1. /\ pc["main"] = "awaitReader" /\ pc'["main"] = "closeQueue"
          /\ pc["reader"] = "end" /\ pc'["reader"] = "end"
      BY <1>1, <2>1, <2>7 DEF MainReaderDone, MainReady, PcInv, Goroutines
    <3>2. dropped \/ taken = produced
      BY <1>1, <3>1 DEF CloseInv, DrainInv
    <3>. QED
      BY <2>1, <2>3, <2>4, <3>1, <3>2 DEF DrainInv
  <2>8. CASE MainReaderTimeout \/ MainWriterTimeout
    <3>1. gaveUp' = TRUE
      BY <2>8 DEF MainReaderTimeout, MainWriterTimeout
    <3>. QED
      BY <2>4, <3>1 DEF DrainInv
  <2>9. CASE \/ MainClosesQueue \/ MainGetsResult \/ MainResultTimeout \/ MainWriterDone
             \/ MainClosesSession \/ MainFinal \/ MainClosesConn
    <3>1. /\ pc["main"] \in {"closeQueue", "awaitResult", "awaitWriter", "close", "final",
               "closeFrame"}
          /\ UNCHANGED <<natural, gaveUp>>
          /\ pc["main"] = "closeQueue" => pc'["main"] \in {"awaitWriter", "awaitResult"}
          /\ pc["main"] = "awaitWriter" /\ natural => pc["writer"] = "end" /\ pc'["main"] = "close"
          /\ pc["main"] = "close" /\ natural => pc'["main"] = "final"
          /\ pc["main"] \in {"final", "closeFrame"} => pc'["main"] \in {"closeFrame", "returned"}
      BY <1>1, <2>9 DEF MainClosesQueue, MainGetsResult, MainResultTimeout, MainWriterDone,
         MainClosesSession, MainFinal, MainClosesConn, AfterWriter, PcInv, Goroutines
    <3>2. /\ pc'["reader"] = pc["reader"] /\ pc'["writer"] = pc["writer"]
      BY <2>1, <3>1 DEF MainReady
    <3>3. pc["main"] = "awaitResult" => ~natural
      BY <1>1 DEF ResultInv
    <3>. QED
      BY <1>1, <2>1, <2>3, <2>4, <3>1, <3>2, <3>3 DEF DrainInv
  <2>. QED
    BY <1>2, <2>5, <2>6, <2>7, <2>8, <2>9 DEF MainStep
<1>3. CASE ReaderStep
  <2>1. /\ pc'["main"] = pc["main"] /\ pc'["writer"] = pc["writer"]
        /\ UNCHANGED <<mainVars, ptyClosed, childVars>> /\ pc["reader"] # "end"
    BY <1>1, <1>3 DEF ReaderStep, ReaderReads, ReaderStops, ReaderPushes, ReaderQuits, PcInv,
       Goroutines
  <2>2. pc'["reader"] \in {"quit", "end"} => Read'
    BY <1>1, <1>3 DEF ReaderStep, ReaderReads, ReaderStops, ReaderPushes, ReaderQuits, ReadEnds,
       PcInv, Goroutines, DrainInv
  <2>. QED
    BY <1>1, <2>1, <2>2 DEF DrainInv
<1>4. CASE WriterStep
  <2>1. /\ pc'["main"] = pc["main"] /\ pc'["reader"] = pc["reader"] /\ pc["writer"] # "end"
        /\ UNCHANGED <<mainVars, ptyClosed, childVars, taken, dropped>>
    BY <1>1, <1>4 DEF WriterStep, WriterPops, WriterWrites, WriterStops, PcInv, Goroutines
  <2>. QED
    BY <1>1, <2>1 DEF DrainInv
<1>5. CASE Next /\ ~MainStep /\ ~ReaderStep /\ ~WriterStep
  <2>1. /\ pc'["main"] = pc["main"] /\ UNCHANGED <<mainVars, taken, dropped>>
        /\ UNCHANGED ptyClosed \/ ptyClosed' = TRUE
        /\ UNCHANGED child \/ child' = "exited"
    BY <1>1, <1>5, Moves, PcMoves
  <2>2. /\ pc'["reader"] = pc["reader"] \/ Report("reader")
        /\ pc'["writer"] = pc["writer"] \/ Report("writer")
    BY <1>1, <1>5, PcMoves DEF MainStep
  <2>3. /\ pc'["reader"] = pc["reader"]
             \/ (pc["reader"] = "overflow" /\ pc'["reader"] = "quit" /\ dropped)
        /\ pc'["writer"] = pc["writer"] \/ (pc["writer"] = "gone" /\ pc'["writer"] = "end")
    BY <1>1, <2>2 DEF Report, EventKinds, PcInv, Goroutines, QueueInv
  <2>4. natural /\ pc["main"] # "returned" => child = "exited"
    BY <1>1 DEF ResultInv
  <2>5. UNCHANGED produced \/ (child = "running" /\ ~ptyClosed /\ UNCHANGED <<child, ptyClosed>>)
    BY <1>5, Moves DEF ChildWrites
  <2>. QED
    BY <1>1, <2>1, <2>3, <2>4, <2>5 DEF DrainInv
<1>6. CASE UNCHANGED vars
  BY <1>1, <1>6 DEF DrainInv
<1>. QED
  BY <1>2, <1>3, <1>4, <1>5, <1>6

\* Only runBridge itself writes a last message or the close frame.
LEMMA LastMoves ==
    ASSUME TypeOK, QueueInv, PcInv, Next
    PROVE  /\ \A n \in 1..MaxChunks : Arrived(n) => Arrived(n)'
           /\ MainFinal \/ MainClosesConn \/
                 \A k \in Finals \cup {"close"} : Reached(k)' <=> Reached(k)
<1>1. wire \in Seq(Messages)
  BY DEF TypeOK
<1>2. LastMessages \subseteq Finals
  BY DEF LastMessages, Finals
<1>3. CASE UNCHANGED wire
  BY <1>3 DEF Arrived, Reached
<1>4. ASSUME WriterWrites, wire' = Append(wire, Output(item))
      PROVE  /\ \A n \in 1..MaxChunks : Arrived(n) => Arrived(n)'
             /\ \A k \in Finals \cup {"close"} : Reached(k)' <=> Reached(k)
  <2>1. Output(item) \in Messages
    <3>1. item # 0
      BY <1>4, <1>1, LenProperties DEF WriterWrites, QueueInv, Written, TypeOK
    <3>. QED
      BY <3>1 DEF Messages, TypeOK
  <2>2. \A k \in Finals \cup {"close"} : Output(item)[1] # k
    BY DEF Output, Finals
  <2>. QED
    BY <1>1, <1>4, <2>1, <2>2, Appended
<1>5. ASSUME NEW k \in Finals \cup {"ready", "agent", "close"}, wire' = Append(wire, <<k, 0>>)
      PROVE  /\ \A n \in 1..MaxChunks : Arrived(n) => Arrived(n)'
             /\ k \notin Finals \cup {"close"} =>
                   \A l \in Finals \cup {"close"} : Reached(l)' <=> Reached(l)
  <2>1. <<k, 0>> \in Messages /\ <<k, 0>>[1] = k
    BY DEF Messages
  <2>. QED
    BY <1>1, <1>5, <2>1, Appended
<1>6. {"ready", "agent"} \cap (Finals \cup {"close"}) = {}
  BY DEF Finals
<1>. QED
  BY <1>2, <1>3, <1>4, <1>5, <1>6, WireStep

\* What the last message and the close frame mean.
LEMMA LastStep == IInv /\ [Next]_vars => LastInv' /\ ExitCarriesAllOutput'
<1>. SUFFICES ASSUME IInv, [Next]_vars PROVE LastInv' /\ ExitCarriesAllOutput'
  OBVIOUS
<1>1. /\ LastInv /\ ExitCarriesAllOutput /\ ResultInv /\ DrainInv /\ QueueInv /\ WireInv
      /\ PcInv /\ ScalarsOK /\ TypeOK /\ wire \in Seq(Messages)
  BY DEF IInv, TypeOK, ScalarsOK
<1>2. CASE MainFinal
  <2>1. /\ pc["main"] = "final" /\ pc'["main"] = "closeFrame"
        /\ UNCHANGED <<conn, child, produced, queueVars, gotResult, ctxErr, sawDetached, text,
           natural, gaveUp>>
    BY <1>1, <1>2 DEF MainFinal, Delivers, WriteFails, PcInv, Goroutines
  <2>2. ~Reached("exit") /\ ~Reached("close")
    BY <1>1, <2>1 DEF LastInv
  <2>3. ASSUME NEW k \in LastMessages, conn = "open", wire' = Append(wire, <<k, 0>>)
        PROVE  LastInv' /\ ExitCarriesAllOutput'
    <3>1. k \in Finals /\ <<k, 0>> \in Messages /\ <<k, 0>>[1] = k
      BY <2>3 DEF LastMessages, Finals, Messages
    <3>2. /\ \A l \in Finals \cup {"close"} : Reached(l)' <=> Reached(l) \/ k = l
          /\ \A n \in 1..MaxChunks : Arrived(n) => Arrived(n)'
      BY <1>1, <2>3, <3>1, Appended
    <3>3. /\ Reached("exit")' <=> k = "exit"
          /\ ~Reached("close")'
          /\ Reached("detached")' <=> Reached("detached") \/ k = "detached"
      BY <2>2, <3>1, <3>2 DEF Finals
    <3>4. sawDetached => k = "detached"
      BY <2>3 DEF LastMessages
    <3>5. ASSUME k = "exit"
          PROVE  gotResult /\ ~ctxErr /\ ~sawDetached /\ text = "none" /\ child = "exited"
      <4>1. ~sawDetached /\ text = "none" /\ ~ctxErr /\ gotResult
        BY <2>3, <3>5 DEF LastMessages
      <4>. QED
        BY <1>1, <2>1, <4>1 DEF ResultInv
    <3>6. LastInv'
      BY <2>1, <3>3, <3>4, <3>5 DEF LastInv
    <3>7. ASSUME k = "exit", natural, ~gaveUp, ~dropped PROVE \A n \in 1..produced : Arrived(n)
      <4>1. pc["reader"] = "end" /\ taken = produced /\ pc["writer"] = "end"
        BY <1>1, <2>1, <3>7 DEF DrainInv
      <4>2. queue = <<>> /\ Len(queue) = 0
        BY <1>1, <2>3, <4>1, EmptySeq DEF QueueInv
      <4>3. Written = taken
        BY <1>1, <3>7, <4>1, <4>2 DEF Written, Pushed, ScalarsOK
      <4>. QED
        BY <1>1, <2>3, <4>1, <4>3 DEF WireInv, ScalarsOK
    <3>8. ExitCarriesAllOutput'
      BY <1>1, <2>1, <3>2, <3>3, <3>7 DEF ExitCarriesAllOutput, ScalarsOK
    <3>. QED
      BY <3>6, <3>8
  <2>4. CASE UNCHANGED wire /\ (sawDetached => conn # "open")
    BY <1>1, <2>1, <2>2, <2>4 DEF LastInv, ExitCarriesAllOutput, Reached
  <2>5. sawDetached => LastMessages # {}
    BY DEF LastMessages
  <2>. QED
    BY <1>2, <2>3, <2>4, <2>5 DEF MainFinal, Delivers, WriteFails
<1>3. CASE MainClosesConn
  <2>1. /\ pc["main"] = "closeFrame" /\ pc'["main"] = "returned" /\ conn' = "closed"
        /\ UNCHANGED <<child, produced, queueVars, mainVars>>
    BY <1>1, <1>3 DEF MainClosesConn, PcInv, Goroutines
  <2>2. CASE UNCHANGED wire
    BY <1>1, <2>1, <2>2 DEF LastInv, ExitCarriesAllOutput, Reached, Arrived
  <2>3. CASE conn = "open" /\ wire' = Append(wire, <<"close", 0>>)
    <3>1. <<"close", 0>> \in Messages /\ <<"close", 0>>[1] = "close"
      BY DEF Messages
    <3>2. /\ \A l \in Finals \cup {"close"} : Reached(l)' <=> Reached(l) \/ l = "close"
          /\ \A n \in 1..MaxChunks : Arrived(n) => Arrived(n)'
      BY <1>1, <2>3, <3>1, Appended
    <3>3. /\ Reached("exit")' <=> Reached("exit")
          /\ Reached("detached")' <=> Reached("detached")
      BY <3>2 DEF Finals
    <3>4. LastInv'
      BY <1>1, <2>1, <2>3, <3>3 DEF LastInv
    <3>5. ExitCarriesAllOutput'
      BY <1>1, <2>1, <3>2, <3>3 DEF ExitCarriesAllOutput, ScalarsOK
    <3>. QED
      BY <3>4, <3>5
  <2>. QED
    BY <1>3, <2>2, <2>3 DEF MainClosesConn
<1>4. CASE Next /\ ~MainFinal /\ ~MainClosesConn
  <2>1. /\ \A n \in 1..MaxChunks : Arrived(n) => Arrived(n)'
        /\ \A k \in Finals \cup {"close"} : Reached(k)' <=> Reached(k)
    BY <1>1, <1>4, LastMoves
  <2>2. /\ Reached("exit")' <=> Reached("exit")
        /\ Reached("close")' <=> Reached("close")
        /\ Reached("detached")' <=> Reached("detached")
    BY <2>1 DEF Finals
  <2>3. /\ UNCHANGED conn \/ conn' # "open"
        /\ UNCHANGED child \/ child' = "exited"
        /\ UNCHANGED produced \/ child # "exited"
        /\ dropped => dropped'
    BY <1>1, <1>4, Moves DEF ChildWrites, ReaderStep, ReaderReads, ReaderStops, ReaderPushes,
       ReaderQuits,
       WriterStep, WriterPops, WriterWrites, WriterStops, ScalarsOK
  <2>4. CASE MainStep
    <3>1. pc["main"] \notin {"closeFrame", "returned"}
      BY <1>1, <1>4, <2>4 DEF MainStep, MainReady, MainReadyFails, MainEarlyClose,
         MainEarlyWait, MainSeesExit,
         MainSeesEvent, MainSeesCancel, MainReadsCtx, MainReadsDetached, MainReaderDone,
         MainReaderTimeout, MainClosesQueue, MainGetsResult, MainResultTimeout, MainWriterDone,
         MainWriterTimeout, MainClosesSession
    <3>2. ~Reached("exit") /\ ~Reached("close")
      BY <1>1, <3>1 DEF LastInv
    <3>3. pc'["main"] \in {"closeFrame", "returned"} => conn' # "open"
      BY <1>1, <2>4, <1>4 DEF MainStep, MainReady, MainReadyFails, MainEarlyClose,
         MainEarlyWait, MainSeesExit,
         MainSeesEvent, MainSeesCancel, MainReadsCtx, MainReadsDetached, MainReaderDone,
         MainReaderTimeout, MainClosesQueue, MainGetsResult, MainResultTimeout, MainWriterDone,
         MainWriterTimeout, MainClosesSession, AfterWriter, PcInv, Goroutines
    <3>. QED
      BY <2>2, <3>2, <3>3 DEF LastInv, ExitCarriesAllOutput
  <2>5. CASE ~MainStep
    <3>1. UNCHANGED mainVars /\ pc'["main"] = pc["main"]
      BY <1>1, <1>4, <2>5, Moves, PcMoves
    <3>2. LastInv'
      BY <1>1, <2>2, <2>3, <3>1 DEF LastInv
    <3>3. ExitCarriesAllOutput'
      BY <1>1, <2>1, <2>2, <2>3, <3>1 DEF ExitCarriesAllOutput, LastInv, ScalarsOK
    <3>. QED
      BY <3>2, <3>3
  <2>. QED
    BY <2>4, <2>5
<1>5. CASE UNCHANGED vars
  BY <1>1, <1>5 DEF LastInv, ExitCarriesAllOutput, Reached, Arrived
<1>. QED
  BY <1>2, <1>3, <1>4, <1>5

-----------------------------------------------------------------------------
(* The theorems                                                            *)

LEMMA InitIInv == Init => IInv
<1>. SUFFICES ASSUME Init PROVE IInv
  OBVIOUS
<1>1. /\ pc \in [Goroutines -> MainPcs \cup Pcs]
      /\ pc["main"] = "ready" /\ \A g \in Others : pc[g] = "off"
  BY DEF Init, Goroutines, Others, MainPcs, Pcs
<1>2. wire = <<>> /\ queue = <<>> /\ Len(queue) = 0 /\ DOMAIN wire = {}
  BY EmptySeq DEF Init
<1>3. PcInv
  BY <1>1 DEF PcInv, Others, Goroutines, MainPcs
<1>4. TypeOK
  <2>1. wire \in Seq(Messages) /\ queue \in Seq(1..MaxChunks) /\ Len(queue) <= QueueLimit
    BY <1>2, EmptySeq
  <2>2. held \in BOOLEAN
    <3>1. \A c : (IF c THEN BOOLEAN ELSE {FALSE}) \subseteq BOOLEAN
      OBVIOUS
    <3>. QED
      BY <3>1 DEF Init
  <2>3. produced \in 0..MaxChunks /\ taken \in 0..produced /\ item \in 0..MaxChunks
    BY DEF Init
  <2>4. eventCount \in 0..EventsCapacity /\ completions \in 0..MaxCompletions
    BY DEF Init, EventsCapacity
  <2>5. ScalarsOK
    BY <2>2, <2>3, <2>4 DEF Init, ScalarsOK
  <2>. QED
    BY <1>1, <2>1, <2>3, <2>5 DEF TypeOK, ScalarsOK
<1>5. QueueInv /\ Written = 0
  BY <1>1, <1>2 DEF Init, QueueInv, Pushed, Written, Others, Goroutines
<1>6. WireInv
  BY <1>2, <1>5 DEF WireInv, OutputInOrder, Arrived
<1>7. CloseInv /\ ResultInv
  BY <1>1 DEF Init, CloseInv, ResultInv, Others, Goroutines
<1>8. CancelInv
  BY <1>1 DEF Init, CancelInv, Others, Goroutines, Early
<1>9. DrainInv /\ LastInv /\ ExitCarriesAllOutput
  BY <1>1, <1>2 DEF Init, DrainInv, LastInv, ExitCarriesAllOutput, Reached, Others, Goroutines
<1>. QED
  BY <1>3, <1>4, <1>5, <1>6, <1>7, <1>8, <1>9 DEF IInv

\* What each goroutine of runBridge may rely on, in whatever order they are
\* scheduled and whatever the child, the page and the server do.
THEOREM Invariance == Spec => []IInv
<1>1. IInv /\ [Next]_vars => IInv'
  BY PcStep, TypeStep, QueueStep, WireInvStep, CloseStep, ResultStep, CancelStep, DrainStep,
     LastStep DEF IInv
<1>. QED
  BY <1>1, InitIInv, PTL DEF Spec

\* Types; the queue and the channel of events stay within their capacities.
THEOREM TypeCorrect == Spec => []TypeOK
BY Invariance, PTL DEF IInv

\* The page gets the chunks of output in order, each once and without a gap.
THEOREM InOrder == Spec => []OutputInOrder
<1>1. IInv => OutputInOrder
  BY DEF IInv, WireInv
<1>. QED
  BY <1>1, Invariance, PTL

\* The exit message of a session that ended by itself follows everything the
\* child wrote, unless the queue overflowed or a wait of runBridge timed out.
THEOREM ExitIsLast == Spec => []ExitCarriesAllOutput
BY Invariance, PTL DEF IInv

\* A page is told exit only when there is nothing left to attach to, and nothing
\* else to tell it: the child exited and Wait said so, the PTY was closed and the
\* child terminated, and runBridge saw no cancellation and no protocol error or
\* overflow.  This holds also when runBridge ended the session itself.
THEOREM ExitIsReal ==
    Spec => [](Reached("exit") =>
                  /\ child = "exited" /\ gotResult /\ ptyClosed /\ terminated # "no"
                  /\ ~ctxErr /\ ~sawDetached /\ text = "none")
<1>1. IInv => (Reached("exit") =>
                  /\ child = "exited" /\ gotResult /\ ptyClosed /\ terminated # "no"
                  /\ ~ctxErr /\ ~sawDetached /\ text = "none")
  BY DEF IInv, LastInv, CloseInv
<1>. QED
  BY <1>1, Invariance, PTL

\* A page that was displaced by a takeover never sees the bare close frame.
THEOREM Displaced == Spec => []DisplacedPageIsTold
<1>1. IInv => DisplacedPageIsTold
  BY DEF IInv, CancelInv, LastInv, DisplacedPageIsTold, Early
<1>. QED
  BY <1>1, Invariance, PTL

\* Returning without an error means the child was terminated and reaped and its
\* PTY closed.
THEOREM CleanReturn == Spec => []CleanReturnIsReaped
<1>1. IInv => CleanReturnIsReaped
  BY DEF IInv, TypeOK, CloseInv, ResultInv, CleanReturnIsReaped
<1>. QED
  BY <1>1, Invariance, PTL
=============================================================================
