--------------------------- MODULE LauncherProofs ---------------------------
(***************************************************************************)
(* The safety of ptySession for every behaviour of Launcher.  The state is *)
(* finite, so TLC settles it as well; the proof shows which few facts the  *)
(* safety of a release rests on.                                           *)
(***************************************************************************)
EXTENDS Launcher, TLAPS

\* Nothing is torn down before Start has a process or gives up.
InOrder ==
    /\ pc.main \in {"start", "raw", "probe"} =>
         term = "no" /\ pc.waiter = "off" /\ ~handed
    /\ pc.main = "abort" => term = "no" /\ pc.waiter = "off" /\ ~handed
    /\ pc.main = "start" => runner = "none" /\ unit = "absent"
    /\ pc.main = "refused" => ~handed
    /\ ~managed => unit = "absent"
    /\ runner = "starting" => managed /\ unit = "absent"

\* The unit of a session that was handed over has been active, and a unit
\* never comes back: this is what makes a stale answer of systemctl safe.
WasActive == handed /\ managed => unit \in {"active", "stopping", "failed", "gone"}

\* What terminate has established where it stands.
Terminated ==
    /\ term = "stop" => faulted \/ unit \in {"activating", "active", "stopping",
                                             "failed", "gone"}
    /\ term = "verify" => faulted \/ unit = "gone"
    /\ term # "no" /\ ~managed => term \in {"kill", "done"} /\ ~termErr
    /\ term = "done" /\ ~termErr /\ handed =>
         IF managed THEN unit \in {"failed", "gone"} ELSE ~Alive
    /\ termErr => term \in {"kill", "done"} /\ faulted
    /\ term = "kill" /\ managed => termErr

\* What Close and Wait have reported.
Reported ==
    /\ pc.main = "closed" => term = "done" /\ (termErr => closeErr)
    /\ pc.waiter = "done" => term = "done" /\ (termErr => waitErr)
    /\ closeErr => faulted
    /\ interrupted => ctx = "cancelled"
    /\ waitErr => faulted \/ interrupted

IInv == TypeOK /\ InOrder /\ WasActive /\ Terminated /\ Reported

LEMMA InitIInv == Init => IInv
<1>. SUFFICES ASSUME Init PROVE IInv
  OBVIOUS
<1>. USE DEF Init, Runners, Units, Alive
<1>1. TypeOK
  BY DEF TypeOK
<1>2. InOrder /\ WasActive
  BY DEF InOrder, WasActive
<1>3. Terminated /\ Reported
  BY DEF Terminated, Reported
<1>. QED
  BY <1>1, <1>2, <1>3 DEF IInv

LEMMA StartKeepsIInv == IInv /\ StartStep => IInv'
<1>. SUFFICES ASSUME IInv, StartStep PROVE IInv'
  OBVIOUS
<1>. USE DEF IInv, TypeOK, InOrder, WasActive, Terminated, Reported, Runners, Units,
             Alive, envVars, procVars, errVars, Goto
<1>1. CASE StartFails
  BY <1>1 DEF StartFails
<1>2. CASE Spawns
  <2>1. TypeOK' /\ InOrder'
    BY <1>2 DEF Spawns
  <2>2. WasActive' /\ Terminated' /\ Reported'
    BY <1>2 DEF Spawns
  <2>. QED
    BY <2>1, <2>2
<1>3. CASE MakesRaw
  <2>1. CASE GiveUp
    BY <1>3, <2>1 DEF MakesRaw, GiveUp
  <2>2. CASE HandOver
    BY <1>3, <2>2 DEF MakesRaw, HandOver, GiveUp
  <2>3. CASE Goto("main", "probe") /\ UNCHANGED handed
    BY <1>3, <2>3 DEF MakesRaw, HandOver, GiveUp
  <2>. QED
    BY <1>3, <2>1, <2>2, <2>3 DEF MakesRaw
<1>4. CASE WaitsForUnit
  <2>1. CASE GiveUp
    BY <1>4, <2>1 DEF WaitsForUnit, GiveUp
  <2>2. CASE HandOver
    BY <1>4, <2>2 DEF WaitsForUnit, HandOver, GiveUp
  <2>. QED
    BY <1>4, <2>1, <2>2 DEF WaitsForUnit
<1>. QED
  BY <1>1, <1>2, <1>3, <1>4 DEF StartStep

LEMMA CloseKeepsIInv == IInv /\ CloseStep => IInv'
<1>. SUFFICES ASSUME IInv, CloseStep PROVE IInv'
  OBVIOUS
<1>. USE DEF IInv, TypeOK, InOrder, WasActive, Terminated, Reported, Runners, Units,
             Alive, envVars, procVars, errVars, Goto
<1>1. CASE CloseBegins
  BY <1>1 DEF CloseBegins
<1>2. CASE CloseReturns
  BY <1>2 DEF CloseReturns
<1>. QED
  BY <1>1, <1>2 DEF CloseStep

LEMMA WaitKeepsIInv == IInv /\ WaitStep => IInv'
<1>. SUFFICES ASSUME IInv, WaitStep PROVE IInv'
  OBVIOUS
<1>. USE DEF IInv, TypeOK, InOrder, WasActive, Terminated, Reported, Runners, Units,
             Alive, envVars, procVars, errVars, Goto
<1>1. CASE WaitBegins
  BY <1>1 DEF WaitBegins
<1>2. CASE WaitReaps
  BY <1>2 DEF WaitReaps
<1>3. CASE WaitReturns
  BY <1>3 DEF WaitReturns
<1>. QED
  BY <1>1, <1>2, <1>3 DEF WaitStep

LEMMA TerminateKeepsIInv == IInv /\ TerminateStep => IInv'
<1>. SUFFICES ASSUME IInv, TerminateStep PROVE IInv'
  OBVIOUS
<1>. USE DEF IInv, TypeOK, InOrder, WasActive, Terminated, Reported, Runners, Units,
             Alive, Loaded, transientUnitStopped, envVars, procVars, errVars, goVars
<1>1. CASE TerminateBegins
  BY <1>1 DEF TerminateBegins, Goroutines
<1>2. CASE TerminateProbes
  <2>1. TypeOK'
    <3>1. term' \in {"no", "probe", "stop", "verify", "kill", "done"}
      BY <1>2 DEF TerminateProbes
    <3>2. faulted' \in BOOLEAN /\ termErr' \in BOOLEAN
      BY <1>2, Zenon DEF TerminateProbes
    <3>3. unit' \in Units
      BY <1>2 DEF TerminateProbes
    <3>. QED
      BY <1>2, <3>1, <3>2, <3>3 DEF TerminateProbes
  <2>2. InOrder'
    BY <1>2 DEF TerminateProbes
  <2>3. WasActive'
    BY <1>2 DEF TerminateProbes
  <2>4. Terminated'
    BY <1>2 DEF TerminateProbes
  <2>5. Reported'
    BY <1>2 DEF TerminateProbes
  <2>. QED
    BY <2>1, <2>2, <2>3, <2>4, <2>5
<1>3. CASE TerminateStops
  <2>1. TypeOK'
    <3>1. term' \in {"no", "probe", "stop", "verify", "kill", "done"}
      BY <1>3 DEF TerminateStops
    <3>2. faulted' \in BOOLEAN /\ termErr' \in BOOLEAN
      BY <1>3, Zenon DEF TerminateStops
    <3>3. unit' \in Units
      BY <1>3 DEF TerminateStops
    <3>. QED
      BY <1>3, <3>1, <3>2, <3>3 DEF TerminateStops
  <2>2. InOrder'
    BY <1>3 DEF TerminateStops
  <2>3. WasActive'
    BY <1>3 DEF TerminateStops
  <2>4. Terminated'
    BY <1>3 DEF TerminateStops
  <2>5. Reported'
    BY <1>3 DEF TerminateStops
  <2>. QED
    BY <2>1, <2>2, <2>3, <2>4, <2>5
<1>4. CASE TerminateVerifies
  <2>1. TypeOK'
    <3>1. term' \in {"no", "probe", "stop", "verify", "kill", "done"}
      BY <1>4 DEF TerminateVerifies
    <3>2. faulted' \in BOOLEAN /\ termErr' \in BOOLEAN
      BY <1>4, Zenon DEF TerminateVerifies
    <3>3. unit' \in Units
      BY <1>4 DEF TerminateVerifies
    <3>. QED
      BY <1>4, <3>1, <3>2, <3>3 DEF TerminateVerifies
  <2>2. InOrder'
    BY <1>4 DEF TerminateVerifies
  <2>3. WasActive'
    BY <1>4 DEF TerminateVerifies
  <2>4. Terminated'
    <3>1. CASE transientUnitStopped /\ term' = "done" /\ UNCHANGED <<termErr, faulted>>
      BY <1>4, <3>1 DEF TerminateVerifies
    <3>2. CASE term' = "kill" /\ termErr' = TRUE
      <4>1. faulted'
        BY <1>4, <3>2 DEF TerminateVerifies
      <4>. QED
        BY <1>4, <3>2, <4>1 DEF TerminateVerifies
    <3>. QED
      BY <1>4, <3>1, <3>2 DEF TerminateVerifies
  <2>5. Reported'
    BY <1>4 DEF TerminateVerifies
  <2>. QED
    BY <2>1, <2>2, <2>3, <2>4, <2>5
<1>5. CASE TerminateKills
  BY <1>5 DEF TerminateKills
<1>. QED
  BY <1>1, <1>2, <1>3, <1>4, <1>5 DEF TerminateStep

\* What the runner, the client, the manager and the outside do.
OutsideStep ==
    \/ RunnerAsks \/ RunnerEnds \/ RunnerHangsUp \/ ContextKills \/ ClientExits
    \/ ManagerStarts \/ UnitEnds \/ BoundUnitStops
    \/ ContextEnds \/ ServerEnds

LEMMA OutsideKeepsIInv == IInv /\ OutsideStep => IInv'
<1>. SUFFICES ASSUME IInv, OutsideStep PROVE IInv'
  OBVIOUS
<1>. USE DEF IInv, TypeOK, InOrder, WasActive, Terminated, Reported, Runners, Units,
             Alive, envVars, procVars, errVars, goVars
<1>1. CASE RunnerAsks
  BY <1>1 DEF RunnerAsks
<1>2. CASE RunnerEnds \/ RunnerHangsUp
  BY <1>2 DEF RunnerEnds, RunnerHangsUp
<1>3. CASE ContextKills
  BY <1>3 DEF ContextKills
<1>4. CASE ClientExits
  BY <1>4 DEF ClientExits
<1>5. CASE ManagerStarts \/ UnitEnds \/ BoundUnitStops
  BY <1>5 DEF ManagerStarts, UnitEnds, BoundUnitStops, ManagerMoves
<1>6. CASE ContextEnds
  BY <1>6 DEF ContextEnds
<1>7. CASE ServerEnds
  <2>1. runner' = IF Alive THEN "dead" ELSE runner
    BY <1>7 DEF ServerEnds
  <2>2. UNCHANGED <<managed, ctx, pc, handed, interrupted, fileClosed, term, termErr,
                    closeErr, waitErr, unit, faulted>> /\ server' = FALSE
    BY <1>7 DEF ServerEnds
  <2>3. TypeOK'
    <3>1. runner' \in Runners
      BY <2>1
    <3>2. managed' \in BOOLEAN /\ handed' \in BOOLEAN /\ fileClosed' \in BOOLEAN
          /\ interrupted' \in BOOLEAN /\ termErr' \in BOOLEAN
          /\ closeErr' \in BOOLEAN /\ waitErr' \in BOOLEAN /\ faulted' \in BOOLEAN
      BY <2>2, Zenon
    <3>. QED
      BY <2>2, <3>1, <3>2
  <2>4. InOrder' /\ WasActive' /\ Reported'
    BY <2>1, <2>2
  <2>5. Terminated'
    BY <2>1, <2>2
  <2>. QED
    BY <2>3, <2>4, <2>5
<1>. QED
  BY <1>1, <1>2, <1>3, <1>4, <1>5, <1>6, <1>7 DEF OutsideStep

\* IInv holds in every state that Launcher reaches.
THEOREM Inductive == Spec => []IInv
<1>1. IInv /\ [Next]_vars => IInv'
  <2>1. IInv /\ Next => IInv'
    BY StartKeepsIInv, CloseKeepsIInv, WaitKeepsIInv, TerminateKeepsIInv,
       OutsideKeepsIInv DEF Next, OutsideStep
  <2>2. IInv /\ UNCHANGED vars => IInv'
    BY DEF IInv, TypeOK, InOrder, WasActive, Terminated, Reported, Alive, vars,
           envVars, goVars, procVars, errVars
  <2>. QED
    BY <2>1, <2>2
<1>. QED
  BY InitIInv, <1>1, PTL DEF Spec

\* Every variable of Launcher keeps its type.
THEOREM TypeCorrect == Spec => []TypeOK
  BY Inductive, PTL DEF IInv

\* Whatever the manager does between the calls that ask it, a session that was
\* handed over is released only once its client is gone.
THEOREM Released == Spec => []ReleasedIsStopped
<1>1. IInv => ReleasedIsStopped
  BY DEF IInv, TypeOK, InOrder, WasActive, Terminated, Reported, Alive, Runners,
         Units, ReleasedIsStopped, ClientRuns
<1>. QED
  BY <1>1, Inductive, PTL

\* A quarantine has a cause outside of the state that systemctl was asked about.
THEOREM HasCause == Spec => []QuarantineHasCause
<1>1. IInv => QuarantineHasCause
  BY DEF IInv, Reported, QuarantineHasCause
<1>. QED
  BY <1>1, Inductive, PTL
=============================================================================
