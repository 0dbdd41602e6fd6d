------------------------------ MODULE Launcher ------------------------------
(***************************************************************************)
(* PTYLauncher.Start and ptySession of bridge.go, against the two other    *)
(* processes they steer: the command in the PTY ("runner"), and, when the  *)
(* server is a systemd service, the user manager with the transient unit   *)
(* that holds the client.  Then the runner is systemd-run, and every look  *)
(* at the unit is a systemctl call that may fail and is stale once it is   *)
(* answered.  Otherwise the runner is the client itself.                   *)
(*                                                                         *)
(* "main" is the goroutine in Start and later in Close, "waiter" the one   *)
(* in Wait; a Start that gives up calls Close and Wait in turn.  Timers    *)
(* are not timed: a wait with a deadline may end at any moment.            *)
(***************************************************************************)
EXTENDS Naturals

VARIABLES
    managed,     \* INVOCATION_ID is set: systemd runs the server
    server,      \* the server process, and with it its unit, is up
    ctx,         \* the attachment's context: "live" or "cancelled"
    pc,          \* of main and waiter
    handed,      \* Start returned a session
    runner,      \* the command in the PTY
    interrupted, \* exec's watcher killed the runner, or its zombie, for ctx
    fileClosed,  \* ptySession.file is closed
    term,        \* where ptySession.terminate is; it runs once
    termErr, closeErr, waitErr,
    unit,        \* the transient unit, as the manager has it
    faulted      \* history: a systemctl call or file.Close failed by itself

goVars   == <<pc, handed>>
procVars == <<runner, interrupted>>
errVars  == <<termErr, closeErr, waitErr>>
envVars  == <<managed, server, ctx>>
vars == <<envVars, goVars, procVars, fileClosed, term, errVars, unit, faulted>>

Goroutines == {"main", "waiter"}

\* "zero" and "dead" are zombies: one that exited with status 0, any other.
Runners == {"none", "starting", "waiting", "zero", "dead", "reaped"}

\* "requested": the call of systemd-run has not reached the manager yet;
\* "queued": its start job has not run; "gone": collected after it ended.
Units == {"absent", "requested", "queued", "activating", "active", "stopping",
          "failed", "gone"}

TypeOK ==
    /\ managed \in BOOLEAN /\ server \in BOOLEAN
    /\ ctx \in {"live", "cancelled"}
    /\ pc \in [main : {"start", "raw", "probe", "up", "abort", "terminate",
                       "closed", "refused"},
               waiter : {"off", "wait", "terminate", "done"}]
    /\ handed \in BOOLEAN /\ fileClosed \in BOOLEAN
    /\ runner \in Runners /\ interrupted \in BOOLEAN
    /\ term \in {"no", "probe", "stop", "verify", "kill", "done"}
    /\ termErr \in BOOLEAN /\ closeErr \in BOOLEAN /\ waitErr \in BOOLEAN
    /\ unit \in Units /\ faulted \in BOOLEAN

Init ==
    /\ managed \in BOOLEAN /\ server = TRUE /\ ctx = "live"
    /\ pc = [main |-> "start", waiter |-> "off"] /\ handed = FALSE
    /\ runner = "none" /\ interrupted = FALSE /\ fileClosed = FALSE
    /\ term = "no" /\ termErr = FALSE /\ closeErr = FALSE /\ waitErr = FALSE
    /\ unit = "absent" /\ faulted = FALSE

-----------------------------------------------------------------------------
(* Helpers.  A definition whose comment starts with "Fault:" is a wrong    *)
(* version of the one after it that nothing uses.                          *)

Goto(g, label) == pc' = [pc EXCEPT ![g] = label]

Alive == runner \in {"starting", "waiting"}

\* What systemctl show answers as LoadState loaded.
Loaded == unit \in {"queued", "activating", "active", "stopping", "failed"}

\* A process of the client runs.
ClientRuns == IF managed THEN unit \in {"activating", "active", "stopping"}
                         ELSE runner = "waiting"

\* Fault: a unit that is being stopped counts as stopped.
StoppedOrStopping == ~Loaded \/ unit \in {"queued", "failed", "stopping"}

\* transientUnitStopped: not-found, inactive or failed.  A unit whose start
\* job is queued is loaded and inactive.
transientUnitStopped == ~Loaded \/ unit \in {"queued", "failed"}

-----------------------------------------------------------------------------
(* PTYLauncher.Start                                                       *)

\* Before anything runs: the context, the unit of the server, the device
\* paths, the PTY.
StartFails ==
    /\ pc.main = "start"
    /\ Goto("main", "refused")
    /\ UNCHANGED <<envVars, handed, procVars, fileClosed, term, errVars, unit, faulted>>

\* exec.Cmd.Start refuses a cancelled context.
Spawns ==
    /\ pc.main = "start"
    /\ ctx = "live"
    /\ runner' = IF managed THEN "starting" ELSE "waiting"
    /\ Goto("main", "raw")
    /\ UNCHANGED <<envVars, handed, interrupted, fileClosed, term, errVars, unit, faulted>>

HandOver == Goto("main", "up") /\ handed' = TRUE
GiveUp   == Goto("main", "abort") /\ UNCHANGED handed

MakesRaw ==
    /\ pc.main = "raw"
    /\ \/ GiveUp
       \/ IF managed THEN Goto("main", "probe") /\ UNCHANGED handed ELSE HandOver
    /\ UNCHANGED <<envVars, procVars, fileClosed, term, errVars, unit, faulted>>

\* waitForTransientUnit: active is success, failed or deactivating the end.
\* Every other answer, and a systemctl that fails or is cut off by the
\* context, is asked again until the deadline or the context ends the wait.
WaitsForUnit ==
    /\ pc.main = "probe"
    /\ \/ unit = "active" /\ HandOver
       \/ GiveUp
    /\ UNCHANGED <<envVars, procVars, fileClosed, term, errVars, unit, faulted>>

-----------------------------------------------------------------------------
(* ptySession.Close, Wait and terminate                                    *)

CloseBegins ==
    /\ pc.main \in {"up", "abort"}
    /\ fileClosed' = TRUE
    /\ Goto("main", "terminate")
    /\ UNCHANGED <<envVars, handed, procVars, term, errVars, unit, faulted>>

CloseReturns ==
    /\ pc.main = "terminate"
    /\ term = "done"
    /\ \E bad \in BOOLEAN : /\ closeErr' = (termErr \/ bad)
                            /\ faulted' = (faulted \/ bad)
    /\ Goto("main", "closed")
    /\ UNCHANGED <<envVars, handed, procVars, fileClosed, term, termErr, waitErr, unit>>

\* A session that was handed over is waited for from the start, in Start the
\* wait follows Close.
WaitBegins ==
    /\ pc.waiter = "off"
    /\ handed \/ pc.main = "closed"
    /\ Goto("waiter", "wait")
    /\ UNCHANGED <<envVars, handed, procVars, fileClosed, term, errVars, unit, faulted>>

\* Fault: a client that exits with another status than 0 is a failure.
WaitKeepsExitError ==
    /\ pc.waiter = "wait"
    /\ runner \in {"zero", "dead"}
    /\ runner' = "reaped"
    /\ waitErr' = (runner = "dead")
    /\ Goto("waiter", "terminate")
    /\ UNCHANGED <<envVars, handed, interrupted, fileClosed, term, termErr,
                   closeErr, unit, faulted>>

\* exec.Cmd.Wait: an exit status is dropped as ExitError, but a process that
\* exited with 0 and was sent the kill of its context returns the context's
\* error, which is not one.
WaitReaps ==
    /\ pc.waiter = "wait"
    /\ runner \in {"zero", "dead"}
    /\ runner' = "reaped"
    /\ waitErr' = (runner = "zero" /\ interrupted)
    /\ Goto("waiter", "terminate")
    /\ UNCHANGED <<envVars, handed, interrupted, fileClosed, term, termErr,
                   closeErr, unit, faulted>>

WaitReturns ==
    /\ pc.waiter = "terminate"
    /\ term = "done"
    /\ waitErr' = (waitErr \/ termErr)
    /\ Goto("waiter", "done")
    /\ UNCHANGED <<envVars, handed, procVars, fileClosed, term, termErr, closeErr,
                   unit, faulted>>

\* terminateOnce: the first of Close and Wait runs it, the other waits.
TerminateBegins ==
    /\ term = "no"
    /\ \E g \in Goroutines : pc[g] = "terminate"
    /\ term' = IF managed THEN "probe" ELSE "kill"
    /\ UNCHANGED <<envVars, goVars, procVars, fileClosed, errVars, unit, faulted>>

\* stopTransientUnit: nothing to do if the unit has stopped.
TerminateProbes ==
    /\ term = "probe"
    /\ \/ term' = (IF transientUnitStopped THEN "done" ELSE "stop") /\ UNCHANGED faulted
       \/ term' = "stop" /\ faulted' = TRUE
    /\ UNCHANGED <<envVars, goVars, procVars, fileClosed, errVars, unit>>

\* systemctl stop waits for the unit to end.  It fails at its deadline, with
\* the job under way, or because there is no such unit any more.
TerminateStops ==
    /\ term = "stop"
    /\ \/ Loaded /\ unit' = "gone" /\ term' = "done" /\ UNCHANGED faulted
       \/ Loaded /\ unit' \in {unit, "stopping"} /\ term' = "verify" /\ faulted' = TRUE
       \/ ~Loaded /\ term' = "verify" /\ UNCHANGED <<unit, faulted>>
    /\ UNCHANGED <<envVars, goVars, procVars, fileClosed, errVars>>

\* Fault: a failed systemctl stop is not looked into.
TerminateTrusts ==
    /\ term = "verify"
    /\ term' = "done"
    /\ UNCHANGED <<envVars, goVars, procVars, fileClosed, errVars, unit, faulted>>

TerminateVerifies ==
    /\ term = "verify"
    /\ \/ transientUnitStopped /\ term' = "done" /\ UNCHANGED <<termErr, faulted>>
       \/ ~transientUnitStopped /\ term' = "kill" /\ termErr' = TRUE /\ UNCHANGED faulted
       \/ term' = "kill" /\ termErr' = TRUE /\ faulted' = TRUE
    /\ UNCHANGED <<envVars, goVars, procVars, fileClosed, closeErr, waitErr, unit>>

\* Fault: the process group is left alone.
TerminateLeavesGroup ==
    /\ term = "kill"
    /\ term' = "done"
    /\ UNCHANGED <<envVars, goVars, procVars, fileClosed, errVars, unit, faulted>>

\* SIGKILL to the runner's process group; one that is gone is no error.
TerminateKills ==
    /\ term = "kill"
    /\ runner' = IF Alive THEN "dead" ELSE runner
    /\ term' = "done"
    /\ UNCHANGED <<envVars, goVars, interrupted, fileClosed, errVars, unit, faulted>>

-----------------------------------------------------------------------------
(* The runner and the client                                               *)

RunnerAsks ==
    /\ runner = "starting"
    /\ runner' = "waiting"
    /\ unit' = "requested"
    /\ UNCHANGED <<envVars, goVars, interrupted, fileClosed, term, errVars, faulted>>

\* systemd-run cannot ask, or its unit has ended (--wait).
RunnerEnds ==
    /\ managed
    /\ \/ runner = "starting" /\ runner' = "dead"
       \/ runner = "waiting" /\ unit = "gone" /\ runner' \in {"zero", "dead"}
    /\ UNCHANGED <<envVars, goVars, interrupted, fileClosed, term, errVars, unit, faulted>>

\* The PTY is hung up under the runner.
RunnerHangsUp ==
    /\ fileClosed /\ Alive
    /\ runner' = "dead"
    /\ UNCHANGED <<envVars, goVars, interrupted, fileClosed, term, errVars, unit, faulted>>

\* exec.CommandContext: a kill that reaches a zombie succeeds as well.
ContextKills ==
    /\ ctx = "cancelled" /\ ~interrupted
    /\ runner \in {"starting", "waiting", "zero", "dead"}
    /\ interrupted' = TRUE
    /\ runner' = IF Alive THEN "dead" ELSE runner
    /\ UNCHANGED <<envVars, goVars, fileClosed, term, errVars, unit, faulted>>

ClientExits ==
    /\ \/ managed /\ unit = "active" /\ unit' \in {"stopping", "failed", "gone"}
          /\ UNCHANGED runner
       \/ ~managed /\ runner = "waiting" /\ runner' \in {"zero", "dead"}
          /\ UNCHANGED unit
    /\ UNCHANGED <<envVars, goVars, interrupted, fileClosed, term, errVars, faulted>>

-----------------------------------------------------------------------------
(* The user manager, by the properties of transientUnitArguments: the unit *)
(* is bound to the server's, killed whole, and collected when it ends.     *)

ManagerMoves(from, to) ==
    /\ unit = from
    /\ unit' \in to
    /\ UNCHANGED <<envVars, goVars, procVars, fileClosed, term, errVars, faulted>>

ManagerStarts ==
    \/ ManagerMoves("requested", {"queued"})
    \/ server /\ ManagerMoves("queued", {"activating"})
    \/ ManagerMoves("activating", {"active", "failed"})

UnitEnds ==
    \/ ManagerMoves("stopping", {"gone"})
    \/ ManagerMoves("failed", {"gone"})

\* Fault: the unit is not bound to the server's.
UnboundUnit == FALSE

\* --property=BindsTo= and After= the unit of the server.
BoundUnitStops ==
    /\ ~server
    /\ \/ ManagerMoves("queued", {"gone"})
       \/ ManagerMoves("activating", {"stopping"})
       \/ ManagerMoves("active", {"stopping"})

-----------------------------------------------------------------------------
ContextEnds ==
    /\ ctx = "live"
    /\ ctx' = "cancelled"
    /\ UNCHANGED <<managed, server, goVars, procVars, fileClosed, term, errVars,
                   unit, faulted>>

\* The server crashes, or is stopped: run returns when http.Server.Shutdown does,
\* which does not wait for a connection that was upgraded, so that Close and Wait
\* may be cut off anywhere.  The control group of the server is killed, and the
\* PTY of a foreground server is hung up.
ServerEnds ==
    /\ server
    /\ server' = FALSE
    /\ runner' = IF Alive THEN "dead" ELSE runner
    /\ UNCHANGED <<managed, ctx, goVars, interrupted, fileClosed, term, errVars,
                   unit, faulted>>

StartStep == StartFails \/ Spawns \/ MakesRaw \/ WaitsForUnit
CloseStep == CloseBegins \/ CloseReturns
WaitStep  == WaitBegins \/ WaitReaps \/ WaitReturns
TerminateStep ==
    TerminateBegins \/ TerminateProbes \/ TerminateStops \/ TerminateVerifies
    \/ TerminateKills

Next ==
    \/ server /\ (StartStep \/ CloseStep \/ WaitStep \/ TerminateStep)
    \/ RunnerAsks \/ RunnerEnds \/ RunnerHangsUp \/ ContextKills \/ ClientExits
    \/ ManagerStarts \/ UnitEnds \/ BoundUnitStops
    \/ ContextEnds \/ ServerEnds

Spec == Init /\ [][Next]_vars

\* The server's goroutines run and their deadlines end their waits; the
\* manager stops what it was told to stop, by SIGKILL; systemd-run ends with
\* its unit.  The hang-up is counted on only where no goroutine is inside a
\* Read that keeps the file open, in Start.  Close is called by the bridge
\* when it will: it is fair only in Start.
Fairness ==
    /\ WF_vars(server /\ StartStep)
    /\ WF_vars(server /\ pc.main = "abort" /\ CloseBegins)
    /\ WF_vars(server /\ CloseReturns)
    /\ WF_vars(server /\ WaitStep)
    /\ WF_vars(server /\ TerminateStep)
    /\ WF_vars(RunnerEnds)
    /\ WF_vars(~handed /\ RunnerHangsUp)
    /\ WF_vars(UnitEnds)
    /\ WF_vars(BoundUnitStops)
    /\ WF_vars(ManagerStarts)

FairSpec == Spec /\ Fairness

-----------------------------------------------------------------------------
Refused == pc.main = "refused" \/ (~handed /\ pc.waiter = "done")

\* handleAttach frees the slot on what Close and Wait return.  Once either of
\* them has returned without an error for a session it was handed, the client
\* is gone, whatever the unit did between the calls that asked about it.
ReleasedIsStopped ==
    handed /\ \/ pc.main = "closed" /\ ~closeErr
              \/ pc.waiter = "done" /\ ~waitErr
    => ~ClientRuns /\ unit \in {"absent", "failed", "gone"}

\* handleAttach quarantines the server on any error.  There is one only when
\* systemctl or the close of the PTY failed, or when the context of the
\* attachment was cancelled as its client exited.
QuarantineHasCause ==
    closeErr \/ waitErr => faulted \/ (interrupted /\ ctx = "cancelled")

\* Start returns; and once Close was called Wait returns: whichever way terminate
\* took, it leaves a runner that ends.
CallsReturn ==
    /\ <>(handed \/ Refused \/ ~server)
    /\ (pc.main = "terminate") ~> (pc.waiter = "done" \/ ~server)

\* A client does not outlive the server, wherever in Start or Close it was.
ClientFollowsServer == (~server) ~> [](~ClientRuns)

\* README: "Failed child cleanup blocks a replacement rather than risking two
\* active attachments."  handleAttach frees the slot when Start returns an
\* error: no client runs then, or later.
RefusedNeverRuns == Refused => ~ClientRuns
=============================================================================
