----------------------------- MODULE Completions -----------------------------
(***************************************************************************)
(* notifications.go: how the server learns from Herdr which agents are     *)
(* done.  Watch takes a snapshot of the panes, subscribes to the panes it  *)
(* tracks, takes a second snapshot to catch what changed in between, and   *)
(* then follows the events; when the set of panes changed it subscribes    *)
(* again on a new connection.  forwardAgentCompletions starts Watch again  *)
(* after a pause when it fails.                                            *)
(*                                                                         *)
(* Herdr is the environment.  The completions of a pane are numbered: the  *)
(* number of its last one is what an announcement stands for, and 0 what   *)
(* was done before anything changed.  The snapshot and the work on it are  *)
(* one step, at the moment Herdr takes it: what Herdr does until the       *)
(* answer is processed waits in the stream.                                *)
(***************************************************************************)
EXTENDS Naturals, Sequences, FiniteSets

CONSTANTS
    Panes,
    Statuses,       \* what agent_status may be; "" for a pane without one
    PaneLimit,      \* maxHerdrPanes
    MaxChanges,     \* bound: changes in Herdr
    MaxBreaks       \* bound: failures of a connection or of emit

ASSUME CompletionsAssumption ==
    /\ "done" \in Statuses
    /\ IsFiniteSet(Panes)
    /\ PaneLimit \in Nat /\ MaxChanges \in Nat /\ MaxBreaks \in Nat

VARIABLES
    \* Herdr
    exists,         \* the open panes
    born,           \* every pane that was ever opened; an identifier is not reused
    status,         \* of each open pane
    completed,      \* how many times a pane became done
    changes,        \* bound: changes so far
    \* the connection that carries the events
    subscribed,     \* the panes whose status changes it carries
    stream,         \* the events not read yet
    \* the watcher
    pc,             \* "start", "subscribe", "reconcile", "read", "pause", "stopped"
    tracker,        \* completionTracker: the last status seen of each pane
    announced,      \* history: how often each completion of a pane was emitted
    base,           \* history: completed when this Watch took its first snapshot
    breaks          \* bound: failures so far

herdrVars == <<exists, born, status, completed, changes>>
vars == <<herdrVars, subscribed, stream, pc, tracker, announced, base, breaks>>

PaneSet == [event : {"pane_set"}]
StatusChange == [event : {"status"}, pane : Panes, status : Statuses,
                 number : 0..MaxChanges]

\* For each completion of a pane.
Counts == [0..MaxChanges -> Nat]

TypeOK ==
    /\ exists \subseteq born /\ born \subseteq Panes
    /\ status \in [Panes -> Statuses]
    /\ completed \in [Panes -> 0..MaxChanges]
    /\ changes \in 0..MaxChanges
    /\ subscribed \subseteq born
    /\ stream \in Seq(PaneSet \cup StatusChange)
    /\ pc \in {"start", "subscribe", "reconcile", "read", "pause", "stopped"}
    /\ DOMAIN tracker \subseteq born
    /\ \A p \in DOMAIN tracker : tracker[p] \in Statuses
    /\ Cardinality(DOMAIN tracker) <= PaneLimit
    /\ announced \in [Panes -> Counts]
    /\ base \in [Panes -> 0..MaxChanges]
    /\ breaks \in 0..MaxBreaks

NoTracker == [p \in {} |-> "done"]

Init ==
    /\ exists \in {S \in SUBSET Panes : Cardinality(S) <= PaneLimit}
    /\ born = exists
    /\ status \in [Panes -> Statuses]
    /\ completed = [p \in Panes |-> 0]
    /\ changes = 0
    /\ subscribed = {} /\ stream = <<>>
    /\ pc = "start" /\ tracker = NoTracker
    /\ announced = [p \in Panes |-> [n \in 0..MaxChanges |-> 0]]
    /\ base = completed /\ breaks = 0

-----------------------------------------------------------------------------
(* Herdr                                                                   *)

\* What the subscriber of this connection gets to see of an event.
Sends(event, seen) == stream' = IF seen THEN Append(stream, event) ELSE stream

Connected == pc \in {"reconcile", "read"}

Change == changes < MaxChanges /\ changes' = changes + 1

watcherVars == <<subscribed, pc, tracker, announced, base, breaks>>

PaneOpens(p) ==
    /\ Change
    /\ p \notin born
    /\ born' = born \cup {p} /\ exists' = exists \cup {p}
    /\ completed' = [completed EXCEPT ![p] = IF status[p] = "done" THEN 1 ELSE 0]
    /\ Sends([event |-> "pane_set"], Connected)
    /\ UNCHANGED <<status, watcherVars>>

PaneCloses(p) ==
    /\ Change
    /\ p \in exists
    /\ exists' = exists \ {p}
    /\ Sends([event |-> "pane_set"], Connected)
    /\ UNCHANGED <<born, status, completed, watcherVars>>

StatusChanges(p, s) ==
    /\ Change
    /\ p \in exists /\ s # status[p]
    /\ status' = [status EXCEPT ![p] = s]
    /\ completed' = [completed EXCEPT ![p] = IF s = "done" THEN @ + 1 ELSE @]
    /\ Sends([event |-> "status", pane |-> p, status |-> s,
              number |-> completed'[p]], Connected /\ p \in subscribed)
    /\ UNCHANGED <<exists, born, watcherVars>>

-----------------------------------------------------------------------------
(* The watcher.  As in Attachment, a definition whose comment starts with  *)
(* "Fault:" is a wrong version of the next one that nothing uses.          *)

\* Watch returns an error; the connections are closed.
Fails ==
    /\ pc' = "pause"
    /\ tracker' = NoTracker /\ subscribed' = {} /\ stream' = <<>>

\* Fault: a snapshot of any size is accepted.
SnapshotFitsAny == TRUE

\* validateHerdrPanes.
SnapshotFits == Cardinality(exists) <= PaneLimit

\* Fault: the first snapshot is only validated.
StartForgets ==
    /\ pc = "start" /\ SnapshotFits
    /\ tracker' = NoTracker
    /\ base' = completed
    /\ pc' = "subscribe"
    /\ UNCHANGED <<herdrVars, subscribed, stream, announced, breaks>>

\* newCompletionTracker: what is done before Watch started is no news.
Start ==
    /\ pc = "start" /\ SnapshotFits
    /\ tracker' = [p \in exists |-> status[p]]
    /\ base' = completed
    /\ pc' = "subscribe"
    /\ UNCHANGED <<herdrVars, subscribed, stream, announced, breaks>>

StartFails ==
    /\ pc = "start" /\ ~SnapshotFits
    /\ Fails
    /\ UNCHANGED <<herdrVars, announced, base, breaks>>

\* Fault: the events are followed without a second snapshot.
SubscribeOnly ==
    /\ pc = "subscribe"
    /\ subscribed' = DOMAIN tracker
    /\ pc' = "read"
    /\ UNCHANGED <<herdrVars, stream, tracker, announced, base, breaks>>

Subscribe ==
    /\ pc = "subscribe"
    /\ subscribed' = DOMAIN tracker
    /\ pc' = "reconcile"
    /\ UNCHANGED <<herdrVars, stream, tracker, announced, base, breaks>>

\* observe ignores a pane without a status.
Observed == {p \in exists : status[p] # ""}

\* Fault: closed panes stay in the tracker.
ReconciledKeepsClosed ==
    [p \in DOMAIN tracker \cup Observed |->
        IF p \in Observed THEN status[p] ELSE tracker[p]]

\* reconcilePanes deletes the closed panes and observes the open ones.
Reconciled ==
    [p \in (DOMAIN tracker \cap exists) \cup Observed |->
        IF p \in Observed THEN status[p] ELSE tracker[p]]

WasDone(p) == p \in DOMAIN tracker /\ tracker[p] = "done"

NewlyDone == {p \in Observed : status[p] = "done" /\ ~WasDone(p)}

Announce(S) ==
    announced' = [p \in Panes |->
                    IF p \in S THEN [announced[p] EXCEPT ![completed[p]] = @ + 1]
                    ELSE announced[p]]

\* Fault: the closed panes are deleted after the open ones were observed.
TrackerFullLate == Cardinality(DOMAIN tracker \cup Observed) > PaneLimit

\* observe finds no room for a pane.
TrackerFull == Cardinality(DOMAIN Reconciled) > PaneLimit

\* The pane set differs from the tracked one.
PaneSetChanged == exists # DOMAIN tracker

Reconcile ==
    /\ pc = "reconcile" /\ SnapshotFits /\ ~TrackerFull
    /\ tracker' = Reconciled
    /\ Announce(NewlyDone)
    /\ IF PaneSetChanged
       THEN pc' = "subscribe" /\ subscribed' = {} /\ stream' = <<>>
       ELSE pc' = "read" /\ UNCHANGED <<subscribed, stream>>
    /\ UNCHANGED <<herdrVars, base, breaks>>

ReconcileFails ==
    /\ pc = "reconcile" /\ (~SnapshotFits \/ TrackerFull)
    /\ Fails
    /\ UNCHANGED <<herdrVars, announced, base, breaks>>

ReadPaneSet ==
    /\ pc = "read" /\ stream # <<>> /\ Head(stream).event = "pane_set"
    /\ stream' = Tail(stream)
    /\ pc' = "reconcile"
    /\ UNCHANGED <<herdrVars, subscribed, tracker, announced, base, breaks>>

\* observe on an event; a subscribed pane is always tracked.
ReadStatus ==
    /\ pc = "read" /\ stream # <<>> /\ Head(stream).event = "status"
    /\ LET e == Head(stream) IN
          IF e.status = ""
          THEN UNCHANGED <<tracker, announced>>
          ELSE /\ tracker' = [tracker EXCEPT ![e.pane] = e.status]
               /\ announced' =
                     IF e.status = "done" /\ tracker[e.pane] # "done"
                     THEN [announced EXCEPT ![e.pane][e.number] = @ + 1]
                     ELSE announced
    /\ stream' = Tail(stream)
    /\ UNCHANGED <<herdrVars, subscribed, pc, base, breaks>>

\* A connection fails, Herdr refuses or answers nonsense, or emit fails after
\* some of the announcements were made.
Break ==
    /\ breaks < MaxBreaks /\ breaks' = breaks + 1
    /\ pc \in {"start", "subscribe", "reconcile", "read"}
    /\ Fails
    /\ \/ UNCHANGED announced
       \/ pc = "reconcile" /\ SnapshotFits /\ \E S \in SUBSET NewlyDone : Announce(S)
    /\ UNCHANGED <<herdrVars, base>>

\* The retry timer of forwardAgentCompletions.
Retry ==
    /\ pc = "pause"
    /\ pc' = "start"
    /\ UNCHANGED <<herdrVars, subscribed, stream, tracker, announced, base, breaks>>

\* The attachment ends.
Cancel ==
    /\ pc # "stopped"
    /\ pc' = "stopped"
    /\ tracker' = NoTracker /\ subscribed' = {} /\ stream' = <<>>
    /\ UNCHANGED <<herdrVars, announced, base, breaks>>

-----------------------------------------------------------------------------
WatcherStep == Start \/ StartFails \/ Subscribe \/ Reconcile \/ ReconcileFails
               \/ ReadPaneSet \/ ReadStatus \/ Retry

Herdr == \E p \in Panes : \/ PaneOpens(p) \/ PaneCloses(p)
                          \/ \E s \in Statuses : StatusChanges(p, s)

Next == WatcherStep \/ Herdr \/ Break \/ Cancel

Spec == Init /\ [][Next]_vars

\* The watcher is one goroutine, Herdr answers it, and its timer fires.
FairSpec == Spec /\ WF_vars(WatcherStep)

-----------------------------------------------------------------------------
\* Whatever is announced, for the first time or again, became done after this
\* Watch looked first, however old the events it reads.  So no completion that an
\* earlier Watch announced is announced by the next one.
OnlyNewCompletions ==
    [][\A p \in Panes, n \in 0..MaxChanges :
          announced'[p][n] > announced[p][n] => n > base[p]]_vars

\* Replacing panes at the limit does not end a Watch: the tracker has room for
\* every snapshot that is small enough.
RoomForEverySnapshot ==
    [][pc = "reconcile" /\ pc' = "pause" => ~SnapshotFits \/ breaks' # breaks]_vars

Standing(p) == p \in exists /\ status[p] = "done"

\* The last completion of p stands, was not announced, and Watch last saw p
\* in another state.
Owed(p) ==
    /\ Connected /\ Standing(p) /\ announced[p][completed[p]] = 0
    /\ ~WasDone(p)

\* An agent that stays done after Watch saw it at work is announced, by a
\* snapshot or by an event, unless the connection is given up.
StandingDoneIsAnnounced ==
    \A p \in Panes :
        Owed(p) ~> announced[p][completed[p]] > 0 \/ ~Standing(p) \/ ~Connected

\* README.md: subscriptions are refreshed when panes open or close.  As that
\* happens a bounded number of times here, the refreshing ends.
RefreshingEnds == <>[](pc # "subscribe")
=============================================================================
