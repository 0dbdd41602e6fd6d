-------------------------- MODULE CompletionsProofs --------------------------
(***************************************************************************)
(* Proofs about Completions for any set of panes, any limit and any number *)
(* of changes and failures.  What Watch last saw of a pane and what is     *)
(* still in the stream are both older than the pane: the invariant says    *)
(* which of the two holds the news.                                        *)
(***************************************************************************)
EXTENDS Completions, FiniteSetTheorems, SequenceTheorems, TLAPS

USE CompletionsAssumption

IsStatus(e) == e.event = "status"

\* An open pane is born once, and becomes done at most once per change.
HerdrInv ==
    /\ \A p \in Panes : completed[p] <= changes
    /\ \A p \in Panes \ born : completed[p] = 0 /\ base[p] = 0
    /\ \A p \in Panes : base[p] <= completed[p]

\* A stream belongs to one connection, and a connection to one tracker.
StreamInv ==
    /\ tracker \in [DOMAIN tracker -> Statuses]
    /\ ~Connected => stream = <<>>
    /\ Connected => subscribed = DOMAIN tracker
    /\ \A i \in DOMAIN stream : IsStatus(stream[i]) =>
          /\ stream[i].pane \in subscribed
          /\ stream[i].status = "done" => stream[i].number > base[stream[i].pane]

Watching == pc \in {"subscribe", "reconcile", "read"}

\* A pane that has stood at done since Watch looked first is known to be done,
\* and nothing in the stream says otherwise.
OldDoneInv ==
    Watching => \A p \in exists : status[p] = "done" /\ completed[p] = base[p] =>
                    /\ WasDone(p)
                    /\ \A i \in DOMAIN stream : IsStatus(stream[i]) => stream[i].pane # p

IInv == TypeOK /\ HerdrInv /\ StreamInv /\ OldDoneInv

-----------------------------------------------------------------------------
LEMMA InitIInv == Init => IInv
<1>. SUFFICES ASSUME Init PROVE IInv
  OBVIOUS
<1>. USE DEF Init
<1>1. /\ NoTracker \in [{} -> Statuses] /\ DOMAIN NoTracker = {}
      /\ Cardinality({}) = 0
  BY FS_EmptySet DEF NoTracker
<1>2. TypeOK
  <2>1. announced \in [Panes -> Counts]
    BY DEF Counts
  <2>. QED
    BY <1>1, <2>1 DEF TypeOK
<1>3. HerdrInv /\ StreamInv /\ OldDoneInv
  BY <1>1 DEF HerdrInv, StreamInv, OldDoneInv, Connected, Watching
<1>. QED
  BY <1>2, <1>3 DEF IInv

\* What the stream holds after a subscriber was sent an event.
LEMMA SentEvents ==
    ASSUME stream \in Seq(PaneSet \cup StatusChange), NEW e \in PaneSet \cup StatusChange,
           NEW seen \in BOOLEAN, Sends(e, seen)
    PROVE  /\ stream' \in Seq(PaneSet \cup StatusChange)
           /\ seen \/ stream' = stream
           /\ \A i \in DOMAIN stream' : \/ i \in DOMAIN stream /\ stream'[i] = stream[i]
                                        \/ seen /\ stream'[i] = e
<1>1. CASE seen
  <2>1. stream' = Append(stream, e)
    BY <1>1 DEF Sends
  <2>2. /\ stream' \in Seq(PaneSet \cup StatusChange)
        /\ DOMAIN stream = 1..Len(stream) /\ Len(stream) \in Nat
        /\ DOMAIN stream' = 1..(Len(stream) + 1)
        /\ \A i \in 1..Len(stream) : stream'[i] = stream[i]
        /\ stream'[Len(stream) + 1] = e
    BY <2>1, AppendProperties, LenProperties
  <2>. QED
    BY <1>1, <2>2
<1>2. CASE ~seen
  BY <1>2 DEF Sends
<1>. QED
  BY <1>1, <1>2

\* What it holds after the first event was read.
LEMMA ReadEvents ==
    ASSUME stream \in Seq(PaneSet \cup StatusChange), stream # <<>>, stream' = Tail(stream)
    PROVE  /\ Head(stream) \in PaneSet \cup StatusChange
           /\ 1 \in DOMAIN stream /\ stream[1] = Head(stream)
           /\ stream' \in Seq(PaneSet \cup StatusChange)
           /\ \A i \in DOMAIN stream' : i + 1 \in DOMAIN stream /\ stream'[i] = stream[i + 1]
<1>1. DOMAIN stream = 1..Len(stream) /\ Len(stream) \in Nat \ {0}
  BY EmptySeq, LenProperties
<1>2. /\ Head(stream) \in PaneSet \cup StatusChange /\ stream' \in Seq(PaneSet \cup StatusChange)
      /\ DOMAIN stream' = 1..(Len(stream) - 1)
      /\ \A i \in DOMAIN stream' : stream'[i] = stream[i + 1]
  BY HeadTailProperties, LenProperties
<1>. QED
  BY <1>1, <1>2

LEMMA HerdrKeepsIInv == IInv /\ Herdr => IInv'
<1>. SUFFICES ASSUME IInv, Herdr PROVE IInv'
  OBVIOUS
<1>. USE DEF IInv, Change, watcherVars
<1>0. TypeOK /\ stream \in Seq(PaneSet \cup StatusChange) /\ DOMAIN tracker' = DOMAIN tracker
  BY DEF TypeOK, Herdr, PaneOpens, PaneCloses, StatusChanges
<1>1. ASSUME NEW p \in Panes, PaneOpens(p) PROVE IInv'
  <2>. DEFINE e == [event |-> "pane_set"]
  <2>1. e \in PaneSet /\ ~IsStatus(e) /\ Connected \in BOOLEAN /\ Sends(e, Connected)
    BY <1>1 DEF PaneOpens, PaneSet, IsStatus, Connected
  <2>. HIDE DEF e
  <2>2. /\ stream' \in Seq(PaneSet \cup StatusChange)
        /\ Connected \/ stream' = stream
        /\ \A i \in DOMAIN stream' : \/ i \in DOMAIN stream /\ stream'[i] = stream[i]
                                     \/ ~IsStatus(stream'[i])
    BY <1>0, <2>1, SentEvents
  <2>3. TypeOK'
    BY <1>1, <2>2 DEF PaneOpens, TypeOK
  <2>4. HerdrInv'
    BY <1>1 DEF PaneOpens, TypeOK, HerdrInv
  <2>5. StreamInv'
    BY <1>1, <2>2 DEF PaneOpens, StreamInv, Connected
  <2>6. OldDoneInv'
    BY <1>1, <2>2 DEF PaneOpens, OldDoneInv, Watching, WasDone, HerdrInv, TypeOK
  <2>. QED
    BY <2>3, <2>4, <2>5, <2>6
<1>2. ASSUME NEW p \in Panes, PaneCloses(p) PROVE IInv'
  <2>. DEFINE e == [event |-> "pane_set"]
  <2>1. e \in PaneSet /\ ~IsStatus(e) /\ Connected \in BOOLEAN /\ Sends(e, Connected)
    BY <1>2 DEF PaneCloses, PaneSet, IsStatus, Connected
  <2>. HIDE DEF e
  <2>2. /\ stream' \in Seq(PaneSet \cup StatusChange)
        /\ Connected \/ stream' = stream
        /\ \A i \in DOMAIN stream' : \/ i \in DOMAIN stream /\ stream'[i] = stream[i]
                                     \/ ~IsStatus(stream'[i])
    BY <1>0, <2>1, SentEvents
  <2>3. TypeOK'
    BY <1>2, <2>2 DEF PaneCloses, TypeOK
  <2>4. HerdrInv'
    BY <1>2 DEF PaneCloses, TypeOK, HerdrInv
  <2>5. StreamInv'
    BY <1>2, <2>2 DEF PaneCloses, StreamInv, Connected
  <2>6. OldDoneInv'
    BY <1>2, <2>2 DEF PaneCloses, OldDoneInv, Watching, WasDone
  <2>. QED
    BY <2>3, <2>4, <2>5, <2>6
<1>3. ASSUME NEW p \in Panes, NEW s \in Statuses, StatusChanges(p, s) PROVE IInv'
  <2>. DEFINE e == [event |-> "status", pane |-> p, status |-> s, number |-> completed'[p]]
              seen == Connected /\ p \in subscribed
  <2>1. /\ completed' \in [Panes -> 0..MaxChanges]
        /\ \A q \in Panes : completed[q] <= completed'[q] /\ completed'[q] <= changes'
        /\ \A q \in Panes \ {p} : completed'[q] = completed[q]
        /\ s = "done" => completed'[p] > base[p]
    BY <1>3 DEF StatusChanges, TypeOK, HerdrInv
  <2>2. e \in StatusChange /\ seen \in BOOLEAN /\ Sends(e, seen)
    BY <1>3, <2>1 DEF StatusChanges, StatusChange, Connected
  <2>3. e.pane = p /\ (e.status = "done" => e.number > base[p])
    BY <2>1
  <2>. HIDE DEF e
  <2>4. /\ stream' \in Seq(PaneSet \cup StatusChange)
        /\ seen \/ stream' = stream
        /\ \A i \in DOMAIN stream' : \/ i \in DOMAIN stream /\ stream'[i] = stream[i]
                                     \/ seen /\ stream'[i] = e
    BY <1>0, <2>2, SentEvents
  <2>5. TypeOK'
    BY <1>3, <2>1, <2>4 DEF StatusChanges, TypeOK
  <2>6. HerdrInv'
    BY <1>3, <2>1 DEF StatusChanges, TypeOK, HerdrInv
  <2>7. StreamInv'
    BY <1>3, <2>3, <2>4 DEF StatusChanges, StreamInv, Connected
  <2>8. OldDoneInv'
    <3>1. ASSUME NEW q \in exists, status'[q] = "done", completed'[q] = base[q]
          PROVE  q # p /\ status[q] = "done" /\ completed[q] = base[q]
      BY <1>3, <2>1, <3>1 DEF StatusChanges, TypeOK
    <3>. QED
      BY <1>3, <2>3, <2>4, <3>1 DEF StatusChanges, OldDoneInv, Watching, WasDone
  <2>. QED
    BY <2>5, <2>6, <2>7, <2>8
<1>. QED
  BY <1>1, <1>2, <1>3 DEF Herdr

-----------------------------------------------------------------------------
(* The watcher                                                             *)

LEMMA FailsKeepsIInv ==
    ASSUME IInv, Fails, UNCHANGED <<herdrVars, base>>, announced' \in [Panes -> Counts],
           breaks' \in 0..MaxBreaks
    PROVE  IInv'
<1>1. /\ NoTracker \in [{} -> Statuses] /\ DOMAIN NoTracker = {}
      /\ Cardinality({}) = 0
  BY FS_EmptySet DEF NoTracker
<1>2. TypeOK'
  BY <1>1 DEF IInv, TypeOK, Fails, herdrVars
<1>3. HerdrInv'
  BY DEF IInv, HerdrInv, herdrVars
<1>4. StreamInv' /\ OldDoneInv'
  BY <1>1 DEF StreamInv, OldDoneInv, Fails, Connected, Watching
<1>. QED
  BY <1>2, <1>3, <1>4 DEF IInv

\* What a snapshot announces became done since Watch looked first.
LEMMA NewlyDoneIsNew ==
    ASSUME IInv, pc = "reconcile", NEW p \in NewlyDone
    PROVE  p \in Panes /\ completed[p] \in 1..MaxChanges /\ completed[p] > base[p]
<1>1. p \in exists /\ p \in Panes /\ status[p] = "done" /\ ~WasDone(p)
  BY DEF NewlyDone, Observed, IInv, TypeOK
<1>2. completed[p] # base[p] /\ base[p] <= completed[p]
  BY <1>1 DEF IInv, OldDoneInv, HerdrInv, Watching
<1>3. completed[p] \in 0..MaxChanges /\ base[p] \in 0..MaxChanges
  BY <1>1 DEF IInv, TypeOK
<1>. QED
  BY <1>1, <1>2, <1>3

LEMMA AnnounceNew ==
    ASSUME IInv, pc = "reconcile", NEW S \in SUBSET NewlyDone, Announce(S)
    PROVE  /\ announced' \in [Panes -> Counts]
           /\ \A p \in Panes, n \in 0..MaxChanges :
                 announced'[p][n] > announced[p][n] => n > base[p]
<1>1. /\ announced \in [Panes -> Counts]
      /\ completed \in [Panes -> 0..MaxChanges]
  BY DEF IInv, TypeOK
<1>2. \A p \in S : completed[p] > base[p]
  BY NewlyDoneIsNew
<1>3. announced' = [p \in Panes |->
                      IF p \in S THEN [announced[p] EXCEPT ![completed[p]] = @ + 1]
                      ELSE announced[p]]
  BY DEF Announce
<1>4. ASSUME NEW p \in Panes
      PROVE  /\ announced'[p] \in Counts
             /\ \A n \in 0..MaxChanges : announced'[p][n] > announced[p][n] => n > base[p]
  <2>1. CASE p \in S
    <3>1. announced'[p] = [announced[p] EXCEPT ![completed[p]] = announced[p][completed[p]] + 1]
      BY <1>3, <2>1
    <3>. QED
      BY <1>1, <1>2, <2>1, <3>1 DEF Counts
  <2>2. CASE p \notin S
    BY <1>1, <1>3, <2>2 DEF Counts
  <2>. QED
    BY <2>1, <2>2
<1>. QED
  BY <1>3, <1>4

\* The tracker never holds a pane that the snapshot does not have.
LEMMA ReconciledFits ==
    ASSUME IInv
    PROVE  /\ Reconciled \in [DOMAIN Reconciled -> Statuses]
           /\ DOMAIN Reconciled \subseteq exists
           /\ ~PaneSetChanged => DOMAIN Reconciled = DOMAIN tracker
           /\ TrackerFull => ~SnapshotFits
           /\ ~TrackerFull => Cardinality(DOMAIN Reconciled) <= PaneLimit
<1>1. /\ Reconciled \in [DOMAIN Reconciled -> Statuses]
      /\ DOMAIN Reconciled = (DOMAIN tracker \cap exists) \cup Observed
  BY DEF Reconciled, Observed, IInv, TypeOK, StreamInv
<1>2. DOMAIN Reconciled \subseteq exists
  BY <1>1 DEF Observed
<1>3. ~PaneSetChanged => DOMAIN Reconciled = DOMAIN tracker
  BY <1>1 DEF PaneSetChanged, Observed
<1>4. IsFiniteSet(exists)
  BY FS_Subset DEF IInv, TypeOK
<1>5. /\ Cardinality(DOMAIN Reconciled) <= Cardinality(exists)
      /\ Cardinality(DOMAIN Reconciled) \in Nat /\ Cardinality(exists) \in Nat
  BY <1>2, <1>4, FS_Subset, FS_CardinalityType
<1>. QED
  BY <1>1, <1>2, <1>3, <1>5 DEF TrackerFull, SnapshotFits

\* An event that is read is of a pane that is tracked, and what it announces is
\* new.
LEMMA HeadIsNew ==
    ASSUME IInv, pc = "read", stream # <<>>, Head(stream).event = "status"
    PROVE  LET e == Head(stream) IN
           /\ e \in StatusChange /\ e.pane \in DOMAIN tracker
           /\ e.status = "done" => e.number > base[e.pane] /\ e.number \in 1..MaxChanges
           /\ status[e.pane] = "done" /\ e.pane \in exists => completed[e.pane] # base[e.pane]
<1>. DEFINE e == Head(stream)
<1>1. /\ e \in PaneSet \cup StatusChange /\ 1 \in DOMAIN stream /\ stream[1] = e
  BY HeadTailProperties, EmptySeq, LenProperties DEF IInv, TypeOK
<1>2. e \in StatusChange /\ IsStatus(stream[1])
  BY <1>1 DEF PaneSet, IsStatus
<1>3. e.pane \in Panes /\ e.number \in 0..MaxChanges /\ base[e.pane] \in 0..MaxChanges
  BY <1>2 DEF StatusChange, IInv, TypeOK
<1>4. e.pane \in DOMAIN tracker /\ (e.status = "done" => e.number > base[e.pane])
  BY <1>1, <1>2 DEF IInv, StreamInv, Connected
<1>5. status[e.pane] = "done" /\ e.pane \in exists => completed[e.pane] # base[e.pane]
  BY <1>1, <1>2 DEF IInv, OldDoneInv, Watching
<1>. HIDE DEF e
<1>6. e.status = "done" => e.number \in 1..MaxChanges
  BY <1>3, <1>4
<1>. QED
  BY <1>2, <1>4, <1>5, <1>6 DEF e

LEMMA WatcherKeepsIInv == IInv /\ WatcherStep => IInv'
<1>. SUFFICES ASSUME IInv, WatcherStep PROVE IInv'
  OBVIOUS
<1>. USE DEF herdrVars
<1>1. CASE Start
  <2>1. tracker' \in [exists -> Statuses] /\ DOMAIN tracker' = exists
    BY <1>1 DEF Start, IInv, TypeOK
  <2>2. TypeOK'
    BY <1>1, <2>1 DEF Start, IInv, TypeOK, SnapshotFits
  <2>3. HerdrInv'
    BY <1>1 DEF Start, IInv, TypeOK, HerdrInv
  <2>4. StreamInv' /\ OldDoneInv'
    BY <1>1, <2>1 DEF Start, IInv, StreamInv, OldDoneInv, Connected, Watching, WasDone
  <2>. QED
    BY <2>2, <2>3, <2>4 DEF IInv
<1>2. CASE StartFails \/ ReconcileFails
  BY <1>2, FailsKeepsIInv DEF StartFails, ReconcileFails, IInv, TypeOK
<1>3. CASE Subscribe
  <2>1. TypeOK' /\ HerdrInv'
    BY <1>3 DEF Subscribe, IInv, TypeOK, HerdrInv
  <2>2. StreamInv' /\ OldDoneInv'
    BY <1>3 DEF Subscribe, IInv, StreamInv, OldDoneInv, Connected, Watching, WasDone
  <2>. QED
    BY <2>1, <2>2 DEF IInv
<1>4. CASE Reconcile
  <2>1. announced' \in [Panes -> Counts]
    BY <1>4, AnnounceNew DEF Reconcile
  <2>2. DOMAIN tracker' \subseteq exists /\ tracker' \in [DOMAIN tracker' -> Statuses]
    BY <1>4, ReconciledFits DEF Reconcile
  <2>3. \A p \in exists : status[p] = "done" => p \in DOMAIN tracker' /\ tracker'[p] = "done"
    BY <1>4 DEF Reconcile, Reconciled, Observed
  <2>4. Cardinality(DOMAIN tracker') <= PaneLimit
    BY <1>4, ReconciledFits DEF Reconcile
  <2>5. TypeOK'
    <3>1. /\ UNCHANGED <<herdrVars, base, breaks>> /\ pc' \in {"subscribe", "read"}
          /\ \/ subscribed' = {} /\ stream' = <<>>
             \/ UNCHANGED <<subscribed, stream>>
      BY <1>4 DEF Reconcile
    <3>2. subscribed' \subseteq born /\ stream' \in Seq(PaneSet \cup StatusChange)
      <4>1. subscribed \subseteq born /\ stream \in Seq(PaneSet \cup StatusChange)
        BY DEF IInv, TypeOK
      <4>. QED
        BY <3>1, <4>1, EmptySeq
    <3>3. DOMAIN tracker' \subseteq born /\ \A p \in DOMAIN tracker' : tracker'[p] \in Statuses
      BY <2>2 DEF IInv, TypeOK
    <3>. QED
      BY <2>1, <2>4, <3>1, <3>2, <3>3 DEF IInv, TypeOK
  <2>6. HerdrInv'
    BY <1>4 DEF Reconcile, IInv, HerdrInv
  <2>7. StreamInv'
    <3>1. CASE PaneSetChanged
      BY <1>4, <2>2, <3>1 DEF Reconcile, StreamInv, Connected
    <3>2. CASE ~PaneSetChanged
      BY <1>4, <2>2, <3>2, ReconciledFits DEF Reconcile, IInv, StreamInv, Connected
    <3>. QED
      BY <3>1, <3>2
  <2>8. OldDoneInv'
    BY <1>4, <2>3 DEF Reconcile, IInv, OldDoneInv, Watching, WasDone
  <2>. QED
    BY <2>5, <2>6, <2>7, <2>8 DEF IInv
<1>5. CASE ReadPaneSet
  <2>1. /\ stream' \in Seq(PaneSet \cup StatusChange)
        /\ \A i \in DOMAIN stream' : i + 1 \in DOMAIN stream /\ stream'[i] = stream[i + 1]
    BY <1>5, ReadEvents DEF ReadPaneSet, IInv, TypeOK
  <2>2. TypeOK' /\ HerdrInv'
    BY <1>5, <2>1 DEF ReadPaneSet, IInv, TypeOK, HerdrInv
  <2>3. StreamInv'
    BY <1>5, <2>1 DEF ReadPaneSet, IInv, StreamInv, Connected
  <2>4. OldDoneInv'
    BY <1>5, <2>1 DEF ReadPaneSet, IInv, OldDoneInv, Watching, WasDone
  <2>. QED
    BY <2>2, <2>3, <2>4 DEF IInv
<1>6. CASE ReadStatus
  <2>. DEFINE e == Head(stream)
  <2>1. /\ stream' \in Seq(PaneSet \cup StatusChange)
        /\ \A i \in DOMAIN stream' : i + 1 \in DOMAIN stream /\ stream'[i] = stream[i + 1]
    BY <1>6, ReadEvents DEF ReadStatus, IInv, TypeOK
  <2>2. /\ e \in StatusChange /\ e.pane \in DOMAIN tracker
        /\ e.status = "done" => e.number \in 1..MaxChanges
        /\ status[e.pane] = "done" /\ e.pane \in exists => completed[e.pane] # base[e.pane]
    BY <1>6, HeadIsNew DEF ReadStatus
  <2>3. /\ e.status = "" => UNCHANGED <<tracker, announced>>
        /\ e.status # "" =>
             /\ tracker' = [tracker EXCEPT ![e.pane] = e.status]
             /\ \/ e.status = "done"
                   /\ announced' = [announced EXCEPT ![e.pane][e.number] = @ + 1]
                \/ announced' = announced
    BY <1>6 DEF ReadStatus
  <2>4. e.pane \in Panes /\ e.status \in Statuses
    BY <2>2 DEF StatusChange
  <2>5. UNCHANGED <<herdrVars, subscribed, pc, base, breaks>>
    BY <1>6 DEF ReadStatus
  <2>. HIDE DEF e
  <2>6. /\ DOMAIN tracker' = DOMAIN tracker /\ tracker' \in [DOMAIN tracker -> Statuses]
        /\ \A p \in DOMAIN tracker \ {e.pane} : tracker'[p] = tracker[p]
    BY <2>3, <2>4 DEF IInv, StreamInv
  <2>7. announced' \in [Panes -> Counts]
    <3>1. CASE announced' = announced
      BY <3>1 DEF IInv, TypeOK
    <3>2. CASE /\ announced' = [announced EXCEPT ![e.pane][e.number] = @ + 1]
               /\ e.number \in 1..MaxChanges
      <4>1. announced \in [Panes -> Counts]
        BY DEF IInv, TypeOK
      <4>2. [announced[e.pane] EXCEPT ![e.number] = @ + 1] \in Counts
        BY <2>4, <3>2, <4>1 DEF Counts
      <4>. QED
        BY <2>4, <3>2, <4>1, <4>2
    <3>. QED
      BY <2>2, <2>3, <3>1, <3>2
  <2>8. TypeOK'
    BY <2>1, <2>5, <2>6, <2>7 DEF IInv, TypeOK
  <2>9. HerdrInv'
    BY <2>5 DEF IInv, HerdrInv
  <2>10. StreamInv'
    BY <1>6, <2>1, <2>5, <2>6 DEF ReadStatus, IInv, StreamInv, Connected
  <2>11. OldDoneInv'
    BY <2>1, <2>2, <2>5, <2>6 DEF IInv, OldDoneInv, Watching, WasDone
  <2>. QED
    BY <2>8, <2>9, <2>10, <2>11 DEF IInv
<1>7. CASE Retry
  <2>1. TypeOK' /\ HerdrInv'
    BY <1>7 DEF Retry, IInv, TypeOK, HerdrInv
  <2>2. StreamInv' /\ OldDoneInv'
    BY <1>7 DEF Retry, IInv, StreamInv, OldDoneInv, Connected, Watching
  <2>. QED
    BY <2>1, <2>2 DEF IInv
<1>. QED
  BY <1>1, <1>2, <1>3, <1>4, <1>5, <1>6, <1>7 DEF WatcherStep

LEMMA EndsKeepIInv == IInv /\ (Break \/ Cancel) => IInv'
<1>. SUFFICES ASSUME IInv, Break \/ Cancel PROVE IInv'
  OBVIOUS
<1>1. CASE Break
  <2>1. breaks' \in 0..MaxBreaks
    BY <1>1 DEF Break, IInv, TypeOK
  <2>2. announced' \in [Panes -> Counts]
    BY <1>1, AnnounceNew DEF Break, IInv, TypeOK
  <2>. QED
    BY <1>1, <2>1, <2>2, FailsKeepsIInv DEF Break
<1>2. CASE Cancel
  <2>1. /\ NoTracker \in [{} -> Statuses] /\ DOMAIN NoTracker = {}
        /\ Cardinality({}) = 0
    BY FS_EmptySet DEF NoTracker
  <2>2. TypeOK' /\ HerdrInv'
    BY <1>2, <2>1 DEF Cancel, IInv, TypeOK, HerdrInv, herdrVars
  <2>3. StreamInv' /\ OldDoneInv'
    BY <1>2, <2>1 DEF Cancel, StreamInv, OldDoneInv, Connected, Watching
  <2>. QED
    BY <2>2, <2>3 DEF IInv
<1>. QED
  BY <1>1, <1>2

-----------------------------------------------------------------------------
(* The theorems                                                            *)

\* What Watch knows of each pane, in its tracker or in the stream, is enough to
\* tell new completions from old ones, after any number of subscriptions.
THEOREM Invariance == Spec => []IInv
<1>1. IInv /\ [Next]_vars => IInv'
  <2>. SUFFICES ASSUME IInv, [Next]_vars PROVE IInv'
    OBVIOUS
  <2>1. CASE UNCHANGED vars
    <3>1. TypeOK' /\ HerdrInv'
      BY <2>1 DEF vars, herdrVars, IInv, TypeOK, HerdrInv
    <3>2. StreamInv' /\ OldDoneInv'
      BY <2>1 DEF vars, herdrVars, IInv, StreamInv, OldDoneInv, Connected, Watching, WasDone
    <3>. QED
      BY <3>1, <3>2 DEF IInv
  <2>. QED
    BY <2>1, HerdrKeepsIInv, WatcherKeepsIInv, EndsKeepIInv DEF Next
<1>. QED
  BY <1>1, InitIInv, PTL DEF Spec

\* Types; the tracker never exceeds the limit of notifications.go.
THEOREM TypeCorrect == Spec => []TypeOK
BY Invariance, PTL DEF IInv

\* An event of the stream is always of a pane that the tracker has: observe never
\* adds a pane because of an event, and never finds the tracker full at one.
THEOREM EventsAreTracked ==
    Spec => [](pc = "read" => \A i \in DOMAIN stream :
                  IsStatus(stream[i]) => stream[i].pane \in DOMAIN tracker)
<1>1. IInv => (pc = "read" => \A i \in DOMAIN stream :
                  IsStatus(stream[i]) => stream[i].pane \in DOMAIN tracker)
  BY DEF IInv, StreamInv, Connected
<1>. QED
  BY <1>1, Invariance, PTL

\* No completion older than this Watch is announced by it, from a snapshot or an
\* event, whether an earlier Watch announced it or not.
THEOREM OnlyNew == Spec => OnlyNewCompletions
<1>. DEFINE New == \A p \in Panes, n \in 0..MaxChanges :
                      announced'[p][n] > announced[p][n] => n > base[p]
<1>1. IInv /\ [Next]_vars => New
  <2>. SUFFICES ASSUME IInv, [Next]_vars PROVE New
    OBVIOUS
  <2>0. announced \in [Panes -> Counts]
    BY DEF IInv, TypeOK
  <2>1. ASSUME UNCHANGED announced PROVE New
    BY <2>0, <2>1 DEF Counts
  <2>2. CASE Reconcile
    BY <2>2, AnnounceNew DEF Reconcile
  <2>3. CASE Break
    BY <2>1, <2>3, AnnounceNew DEF Break
  <2>4. CASE ReadStatus
    <3>. DEFINE e == Head(stream)
    <3>1. e \in StatusChange /\ (e.status = "done" => e.number > base[e.pane])
      BY <2>4, HeadIsNew DEF ReadStatus
    <3>2. \/ announced' = announced
          \/ /\ e.status = "done"
             /\ announced' = [announced EXCEPT ![e.pane][e.number] = @ + 1]
      BY <2>4 DEF ReadStatus
    <3>. HIDE DEF e
    <3>3. ASSUME NEW p \in Panes, NEW n \in 0..MaxChanges, announced'[p][n] > announced[p][n]
          PROVE  p = e.pane /\ n = e.number /\ e.status = "done"
      <4>1. announced[p][n] \in Nat /\ announced' # announced
        BY <2>0, <3>3 DEF Counts
      <4>2. /\ e.status = "done"
            /\ announced' = [announced EXCEPT ![e.pane][e.number] = @ + 1]
        BY <3>2, <4>1
      <4>3. p = e.pane
        BY <2>0, <3>3, <4>1, <4>2
      <4>4. announced'[p] = [announced[p] EXCEPT ![e.number] = announced[p][e.number] + 1]
        BY <2>0, <4>2, <4>3
      <4>5. n = e.number
        BY <2>0, <3>3, <4>1, <4>4 DEF Counts
      <4>. QED
        BY <4>2, <4>3, <4>5
    <3>. QED
      BY <3>1, <3>3
  <2>5. CASE Start \/ StartFails \/ Subscribe \/ ReconcileFails \/ ReadPaneSet \/ Retry \/ Cancel
    BY <2>1, <2>5 DEF Start, StartFails, Subscribe, ReconcileFails, ReadPaneSet, Retry, Cancel
  <2>6. CASE Herdr
    BY <2>1, <2>6 DEF Herdr, PaneOpens, PaneCloses, StatusChanges, watcherVars
  <2>7. CASE UNCHANGED vars
    BY <2>1, <2>7 DEF vars
  <2>. QED
    BY <2>2, <2>3, <2>4, <2>5, <2>6, <2>7 DEF Next, WatcherStep
<1>2. IInv /\ [Next]_vars => [New]_vars
  BY <1>1
<1>. QED
  BY <1>2, Invariance, PTL DEF Spec, OnlyNewCompletions

\* Watch gives up after a snapshot only when the snapshot itself is too large.
THEOREM Room == Spec => RoomForEverySnapshot
<1>. DEFINE Roomy == pc = "reconcile" /\ pc' = "pause" => ~SnapshotFits \/ breaks' # breaks
<1>1. IInv /\ [Next]_vars => Roomy
  <2>. SUFFICES ASSUME IInv, [Next]_vars, pc = "reconcile", pc' = "pause"
                PROVE  ~SnapshotFits \/ breaks' # breaks
    OBVIOUS
  <2>1. CASE ReconcileFails
    BY <2>1, ReconciledFits DEF ReconcileFails
  <2>2. CASE Break
    BY <2>2 DEF Break, IInv, TypeOK
  <2>3. CASE Herdr \/ Cancel \/ UNCHANGED vars
    BY <2>3 DEF Herdr, PaneOpens, PaneCloses, StatusChanges, watcherVars, Cancel, vars
  <2>. QED
    BY <2>1, <2>2, <2>3 DEF Next, WatcherStep, Start, StartFails, Subscribe, Reconcile,
                            ReadPaneSet, ReadStatus, Retry
<1>2. IInv /\ [Next]_vars => [Roomy]_vars
  BY <1>1
<1>. QED
  BY <1>2, Invariance, PTL DEF Spec, RoomForEverySnapshot
=============================================================================
