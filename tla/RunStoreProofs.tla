--------------------------- MODULE RunStoreProofs ---------------------------
(***************************************************************************)
(* What the run tables guarantee to every client, for all sets of runs and *)
(* snapshots and all bounds.  Each theorem combines the lemmas of          *)
(* RunTablesProofs, one per transaction, over the next-state relations of  *)
(* RunStore.                                                               *)
(***************************************************************************)
EXTENDS RunStore, RunTablesProofs

-----------------------------------------------------------------------------
(* What clients submit are values of the tables' types.                    *)

\* Submitted events are events.
LEMMA SubmittedEventTypes ==
  PlainEvents \subseteq Events /\ CompletionEvents \subseteq Events
<1>1. 1..MaxEvents \subseteq Nat /\ 0..MaxTime \subseteq Offsets
  BY DEF Offsets
<1>2. [kind : ClientKinds] \subseteq Bodies
  BY ClientBounds DEF Bodies
<1>3. [kind : {"RunCompleted"}, status : ClientStatuses, exit : {None, "success"}] \subseteq Bodies
  BY ClientBounds DEF Bodies, Exits
<1>4. PlainEvents \subseteq Events
  BY <1>1, <1>2 DEF PlainEvents, Events
<1>5. CompletionEvents \subseteq Events
  BY <1>1, <1>3 DEF CompletionEvents, Events
<1> QED BY <1>4, <1>5

\* Every argument a client submits is of its parameter's type.
LEMMA SubmittedTypes ==
  /\ SubmittedBatches \subseteq Seq(Events)
  /\ SubmittedCheckpoints \subseteq Checkpoints
  /\ SubmittedFinishes \subseteq Finishes
  /\ [run : Runs, checkpoint : 1..MaxEvents] \subseteq [run : Runs, checkpoint : CheckpointIds]
<1>1. ASSUME NEW b \in SubmittedBatches PROVE b \in Seq(Events)
  <2>1. \/ \E a \in Events : b = <<a>>
        \/ \E a \in Events, d \in Events : b = <<a, d>>
    BY SubmittedEventTypes DEF SubmittedBatches
  <2>2. ASSUME NEW a \in Events PROVE <<a>> \in Seq(Events)
    OBVIOUS
  <2>3. ASSUME NEW a \in Events, NEW d \in Events PROVE <<a, d>> \in Seq(Events)
    OBVIOUS
  <2> QED BY <2>1, <2>2, <2>3
<1>2. SubmittedCheckpoints \subseteq Checkpoints
  BY ClientBounds DEF SubmittedCheckpoints, Checkpoints, CheckpointIds
<1>3. SubmittedFinishes \subseteq Finishes
  BY ClientBounds DEF SubmittedFinishes, Finishes, Exits, Offsets
<1>4. [run : Runs, checkpoint : 1..MaxEvents] \subseteq [run : Runs, checkpoint : CheckpointIds]
  BY DEF CheckpointIds
<1> QED BY <1>1, <1>2, <1>3, <1>4

\* The event that announces a submitted checkpoint.
LEMMA AnnouncementType ==
  ASSUME NEW c \in SubmittedCheckpoints, NEW t \in 0..MaxTime
  PROVE  [seq |-> c.seq, at |-> t, body |-> Committed(c)] \in Events
<1>1. c \in Checkpoints
  BY SubmittedTypes
<1>2. Committed(c) \in Bodies
  BY <1>1 DEF Committed, Bodies, Checkpoints
<1> QED BY <1>1, <1>2 DEF Events, Checkpoints, Offsets

-----------------------------------------------------------------------------
(* One step of any client.                                                 *)

\* A step leaves fork ancestry alone, or creates a run.
LinksKept == parent' = parent \/ \E r \in Runs :
  \E p \in {None} \cup [run : Runs, checkpoint : CheckpointIds] : CreateRun(r, p)

\* A step of the recorder's operations keeps the books, takes nothing back and
\* leaves ended runs alone.
LEMMA JournalledStep ==
  ASSUME Bookkeeping, Journalled
  PROVE  Bookkeeping' /\ Forward /\ EndedRunsKept /\ LinksKept
<1>1. CASE OpenStore
  BY <1>1, RecoverKeepsBooks, RecoverForward DEF OpenStore, Recover, LinksKept
<1>2. CASE CloseStore
  BY <1>2, CloseKeepsBooks, CloseForward DEF CloseStore, LinksKept
<1>3. ASSUME NEW r \in Runs, NEW p \in {None} \cup [run : Runs, checkpoint : 1..MaxEvents],
             CreateRun(r, p)
      PROVE  Bookkeeping' /\ Forward /\ EndedRunsKept /\ LinksKept
  <2>1. p \in {None} \cup [run : Runs, checkpoint : CheckpointIds]
    BY SubmittedTypes
  <2> QED BY <1>3, <2>1, CreateKeepsBooks, CreateForward DEF LinksKept
<1>4. ASSUME NEW r \in Runs, NEW s \in Snapshots, MarkRunRunning(r, s)
      PROVE  Bookkeeping' /\ Forward /\ EndedRunsKept /\ LinksKept
  BY <1>4, MarkRunningKeepsBooks, MarkRunningForward DEF MarkRunRunning, LinksKept
<1>5. ASSUME NEW r \in Runs, NEW b \in SubmittedBatches, AppendEventBatch(r, b)
      PROVE  Bookkeeping' /\ Forward /\ EndedRunsKept /\ LinksKept
  <2>1. b \in Seq(Events)
    BY SubmittedTypes
  <2> QED BY <1>5, <2>1, AppendKeepsBooks, AppendForward DEF AppendEventBatch, LinksKept
<1>6. ASSUME NEW r \in Runs, NEW c \in SubmittedCheckpoints, NEW t \in 0..MaxTime,
             CommitCheckpointWithEvent(r, c, [seq |-> c.seq, at |-> t, body |-> Committed(c)])
      PROVE  Bookkeeping' /\ Forward /\ EndedRunsKept /\ LinksKept
  <2> DEFINE e == [seq |-> c.seq, at |-> t, body |-> Committed(c)]
  <2>1. c \in Checkpoints /\ e \in Events
    BY SubmittedTypes, AnnouncementType
  <2>2. CommitCheckpointWithEvent(r, c, e)
    BY <1>6
  <2> HIDE DEF e
  <2> QED BY <2>1, <2>2, CommitWithEventKeepsBooks, CommitWithEventForward
          DEF CommitCheckpointWithEvent, LinksKept
<1>7. ASSUME NEW r \in Runs, NEW b \in SubmittedBatches, NEW f \in SubmittedFinishes,
             FinishRunWithEvents(r, f, b)
      PROVE  Bookkeeping' /\ Forward /\ EndedRunsKept /\ LinksKept
  <2>1. b \in Seq(Events) /\ f \in Finishes
    BY SubmittedTypes
  <2> QED BY <1>7, <2>1, FinishWithEventsKeepsBooks, FinishWithEventsForward
          DEF FinishRunWithEvents, LinksKept
<1> QED BY <1>1, <1>2, <1>3, <1>4, <1>5, <1>6, <1>7 DEF Journalled

\* A step of the recorder's operations keeps the journal.
LEMMA JournalledKeepsJournal ==
  ASSUME Journal, Journalled
  PROVE  Journal'
<1>1. CASE OpenStore
  BY <1>1, RecoverKeepsJournal DEF OpenStore
<1>2. CASE CloseStore
  BY <1>2, CloseKeepsJournal
<1>3. ASSUME NEW r \in Runs, NEW p \in {None} \cup [run : Runs, checkpoint : 1..MaxEvents],
             CreateRun(r, p)
      PROVE  Journal'
  <2>1. p \in {None} \cup [run : Runs, checkpoint : CheckpointIds]
    BY SubmittedTypes
  <2> QED BY <1>3, <2>1, CreateKeepsJournal
<1>4. ASSUME NEW r \in Runs, NEW s \in Snapshots, MarkRunRunning(r, s)
      PROVE  Journal'
  BY <1>4, MarkRunningKeepsJournal
<1>5. ASSUME NEW r \in Runs, NEW b \in SubmittedBatches, AppendEventBatch(r, b)
      PROVE  Journal'
  BY <1>5, SubmittedTypes, AppendKeepsJournal
<1>6. ASSUME NEW r \in Runs, NEW c \in SubmittedCheckpoints, NEW t \in 0..MaxTime,
             CommitCheckpointWithEvent(r, c, [seq |-> c.seq, at |-> t, body |-> Committed(c)])
      PROVE  Journal'
  <2> DEFINE e == [seq |-> c.seq, at |-> t, body |-> Committed(c)]
  <2>1. c \in Checkpoints /\ e \in Events
    BY SubmittedTypes, AnnouncementType
  <2>2. CommitCheckpointWithEvent(r, c, e)
    BY <1>6
  <2> HIDE DEF e
  <2> QED BY <2>1, <2>2, CommitWithEventKeepsJournal
<1>7. ASSUME NEW r \in Runs, NEW b \in SubmittedBatches, NEW f \in SubmittedFinishes,
             FinishRunWithEvents(r, f, b)
      PROVE  Journal'
  BY <1>7, SubmittedTypes, FinishWithEventsKeepsJournal
<1> QED BY <1>1, <1>2, <1>3, <1>4, <1>5, <1>6, <1>7 DEF Journalled

\* A step of the other exported operations keeps the books and takes nothing back.
LEMMA DirectStep ==
  ASSUME Bookkeeping, Direct
  PROVE  Bookkeeping' /\ Forward /\ LinksKept
<1>1. ASSUME NEW s \in Snapshots, StoreSnapshot(s)
      PROVE  Bookkeeping' /\ Forward /\ LinksKept
  BY <1>1, StoreSnapshotKeepsBooks, StoreSnapshotForward DEF StoreSnapshot, LinksKept
<1>2. ASSUME NEW r \in Runs, NEW c \in SubmittedCheckpoints, CommitCheckpoint(r, c)
      PROVE  Bookkeeping' /\ Forward /\ LinksKept
  <2>1. c \in Checkpoints
    BY SubmittedTypes
  <2> QED BY <1>2, <2>1, CommitKeepsBooks, CommitForward DEF CommitCheckpoint, LinksKept
<1>3. ASSUME NEW r \in Runs, NEW f \in SubmittedFinishes, FinishRun(r, f)
      PROVE  Bookkeeping' /\ Forward /\ LinksKept
  <2>1. f \in Finishes
    BY SubmittedTypes
  <2> QED BY <1>3, <2>1, FinishKeepsBooks, FinishForward DEF FinishRun, LinksKept
<1>4. CASE MarkInterruptedRuns
  <2>1. Recover /\ writer' \in {"closed", "open"}
    BY <1>4 DEF MarkInterruptedRuns
  <2>2. parent' = parent
    BY <2>1 DEF Recover
  <2> QED BY <2>1, <2>2, RecoverKeepsBooks, RecoverForward DEF LinksKept
<1> QED BY <1>1, <1>2, <1>3, <1>4 DEF Direct

\* Nothing happens to the tables: every invariant stays.
LEMMA Stutter ==
  ASSUME UNCHANGED storeVars
  PROVE  /\ Bookkeeping => Bookkeeping'
         /\ Journal => Journal'
         /\ AncestryWellFounded /\ ParentsExist => AncestryWellFounded' /\ ParentsExist'
<1>1. Bookkeeping => Bookkeeping'
  BY DEF storeVars, Bookkeeping, StoreTypeOK, TimelineOrdered, WarningsIndexed
<1>2. Journal => Journal'
  BY <1>1 DEF storeVars, Journal, CheckpointsJournalled, TerminalRunsExplained,
     ActiveRunsUnfinished, LastOffset
<1>3. AncestryWellFounded /\ ParentsExist => AncestryWellFounded' /\ ParentsExist'
  BY AncestryUnfolded DEF storeVars, ParentsExist
<1> QED BY <1>1, <1>2, <1>3

-----------------------------------------------------------------------------
(* The theorems.                                                           *)

\* The recorder's operations are among those of every client, so what follows
\* from Spec holds of JournalSpec.
LEMMA JournalSpecImplies == JournalSpec => Spec
<1>1. [Journalled]_storeVars => [Journalled \/ Direct]_storeVars
  OBVIOUS
<1> QED BY <1>1, PTL DEF JournalSpec, Spec

\* What every client's operations establish.
LEMMA BooksKept == Spec => []Bookkeeping
<1>1. StoreInit => Bookkeeping
  BY BooksInit
<1>2. Bookkeeping /\ [Journalled \/ Direct]_storeVars => Bookkeeping'
  BY JournalledStep, DirectStep, Stutter
<1> QED BY <1>1, <1>2, PTL DEF Spec

\* Whatever clients submit, the tables hold rows of their schema; recovery's
\* choice of a warning number is defined (mark_interrupted_runs).
THEOREM TypeCorrect == Spec => []StoreTypeOK
<1>1. Bookkeeping => StoreTypeOK
  BY DEF Bookkeeping
<1> QED BY <1>1, BooksKept, PTL

\* Whatever clients submit, a stored timeline is numbered 1, 2, 3, ... and its
\* offsets never go back (append_event_batch).
THEOREM TimelinesAreOrdered == Spec => []TimelineOrdered
<1>1. Bookkeeping => TimelineOrdered
  BY DEF Bookkeeping
<1> QED BY <1>1, BooksKept, PTL

\* The warning table is the index of the Warning events, and a recovery warning
\* is the last of its run (append_event_batch_in, mark_interrupted_runs).
THEOREM WarningsAreIndexed == Spec => []WarningsIndexed
<1>1. Bookkeeping => WarningsIndexed
  BY DEF Bookkeeping
<1> QED BY <1>1, BooksKept, PTL

\* Fork ancestry stays acyclic and every fork point exists, with the operations
\* the recorder does not use as well (reject_parent_cycle).
THEOREM AncestryHolds == Spec => []AncestryWellFounded
<1> DEFINE Inv == Bookkeeping /\ AncestryWellFounded /\ ParentsExist
<1>1. StoreInit => Inv
  BY BooksInit DEF StoreInit, AncestryWellFounded, ParentsExist
<1>2. Inv /\ [Journalled \/ Direct]_storeVars => Inv'
  <2> SUFFICES ASSUME Inv, [Journalled \/ Direct]_storeVars PROVE Inv'
    OBVIOUS
  <2>1. CASE Journalled \/ Direct
    <3>1. Bookkeeping' /\ Forward /\ LinksKept
      BY <2>1, JournalledStep, DirectStep
    <3> QED BY <3>1, AncestryKept, CreateKeepsAncestry DEF LinksKept
  <2>2. CASE UNCHANGED storeVars
    BY <2>2, Stutter
  <2> QED BY <2>1, <2>2
<1>3. Inv => AncestryWellFounded
  OBVIOUS
<1> QED BY <1>1, <1>2, <1>3, PTL DEF Spec

\* A status never moves back, a run never completes without having run, and the
\* timeline of an ended run is final (RunStatus::can_transition_to).
THEOREM LifecycleMovesForward == Spec => LifecycleForward
<1> DEFINE A == \A r \in Runs :
       /\ row[r].status \in Terminal =>
            row'[r].status = row[r].status /\ events'[r] = events[r]
       /\ row[r].status = "running" => row'[r].status \in {"running"} \cup Terminal
       /\ row[r].status = "preparing" /\ row'[r].status = "completed" => FALSE
<1>1. Bookkeeping /\ [Journalled \/ Direct]_storeVars => [A]_storeVars
  <2> SUFFICES ASSUME Bookkeeping, Journalled \/ Direct PROVE A
    OBVIOUS
  <2>1. Forward
    BY JournalledStep, DirectStep
  <2> QED BY <2>1 DEF Forward, CanTransition, Terminal
<1> QED BY <1>1, BooksKept, PTL DEF Spec, LifecycleForward

\* What the recorder's operations establish.
LEMMA JournalKept == JournalSpec => []Journal
<1>1. StoreInit => Journal
  BY JournalInit
<1>2. Journal /\ [Journalled]_storeVars => Journal'
  BY JournalledKeepsJournal, Stutter
<1> QED BY <1>1, <1>2, PTL DEF JournalSpec

\* With the recorder's operations a checkpoint row always has its event, at its
\* sequence number (commit_checkpoint_with_event).
THEOREM CheckpointsAreJournalled == JournalSpec => []CheckpointsJournalled
<1>1. Journal => CheckpointsJournalled
  BY DEF Journal
<1> QED BY <1>1, JournalKept, PTL

\* With the recorder's operations every ended run says why it ended
\* (finish_run_with_events, mark_interrupted_runs).
THEOREM EndedRunsAreExplained == JournalSpec => []TerminalRunsExplained
<1>1. Journal => TerminalRunsExplained
  BY DEF Journal
<1> QED BY <1>1, JournalKept, PTL

\* With the recorder's operations nothing about an ended run changes: no late
\* event, checkpoint, second finish or recovery.
THEOREM EndedRunsFrozen == JournalSpec => TerminalRunsFrozen
<1> DEFINE A == \A r \in Runs : row[r].status \in Terminal =>
       /\ row'[r] = row[r]
       /\ events'[r] = events[r]
       /\ checkpoints'[r] = checkpoints[r]
<1>1. Bookkeeping /\ [Journalled]_storeVars => [A]_storeVars
  BY JournalledStep DEF EndedRunsKept
<1> QED BY <1>1, BooksKept, JournalSpecImplies, PTL DEF JournalSpec, TerminalRunsFrozen
=============================================================================
