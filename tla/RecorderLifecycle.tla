--------------------------- MODULE RecorderLifecycle ---------------------------
(***************************************************************************)
(* What a capture achieves as long as certain transactions do not fail:    *)
(* completion is atomic and the recorder implements RunLifecycle unless    *)
(* the finish fails, and it settles its run unless the finish, a commit or *)
(* the reload fails.  The findings of the runs show that these conditions  *)
(* are needed.  And, whatever fails, that a completed run is whole.        *)
(***************************************************************************)
EXTENDS RecorderProofs

-----------------------------------------------------------------------------
(* The lifecycle: which places belong to a run that has not ended.         *)

\* The places at which nothing is said about the status of the run.
Outside == {"off", "opened", "reload", "retention", "done"}

\* Before the event loop, once the run is running.
Prepared == {"setup", "startRun", "startInfo", "spawn"}

Stages ==
  pc \notin Outside =>
    /\ row[run].status \in Active
    /\ pc \in Prepared \/ mode = "supervised" => row[run].status = "running"

\* How a step moves between those places.
StageMoves ==
  \/ pc' \in Outside
  \/ pc \in Outside /\ pc' = "clone" /\ mode' = "prepare" /\ run' # run
  \/ pc = "reload" /\ pc' = "nochild" /\ mode' = "retried"
     /\ row[run].status = "running" /\ UNCHANGED <<row, run>>
  \/ /\ pc \notin Outside \cup {"finish"} /\ run' = run
     /\ pc' \in Prepared \/ mode' = "supervised" =>
          pc \in Prepared \/ mode = "supervised" \/ Starting

\* The checkpoint routine returns to places before the end of the run.
LEMMA ReturnMoves ==
  ASSUME Base, pc \in Checkpointing, run \in Runs, NEW outcome, Return(outcome)
  PROVE  StageMoves
<1>1. mode' = mode /\ run' = run /\ pc' \notin Prepared /\ pc \notin Outside \cup {"finish"}
  BY DEF Return, Goto, Prepared, Checkpointing, Outside
<1> QED BY <1>1 DEF StageMoves

\* Every step is such a move, or stays where it is.
LEMMA StageMovesStep ==
  ASSUME Base, [Next]_vars
  PROVE  StageMoves \/ (UNCHANGED <<pc, mode, run>> /\ UNCHANGED storeVars)
<1> DEFINE Goal == StageMoves \/ (UNCHANGED <<pc, mode, run>> /\ UNCHANGED storeVars)
<1>0. pc \notin {"off", "opened", "done"} => run \in Runs
  BY DEF Base, LocalTypes, Placed
<1>1. CASE CheckpointStarts \/ LimitWarning \/ CheckpointFails \/ CheckpointCommits
  <2>1. pc \in Checkpointing /\ run \in Runs
    BY <1>0, <1>1 DEF CheckpointStarts, LimitWarning, CheckpointFails, CheckpointCommits, Checkpointing
  <2>2. CASE \E outcome : Return(outcome)
    BY <2>1, <2>2, ReturnMoves
  <2>3. CASE pc' \in Checkpointing /\ UNCHANGED <<run, captureVars>>
    BY <2>1, <2>3 DEF StageMoves, Checkpointing, Prepared, Outside, captureVars
  <2> QED
    BY <1>1, <2>2, <2>3
    DEF CheckpointStarts, LimitWarning, CheckpointFails, CheckpointCommits, Goto, Checkpointing
<1>2. Scan \/ Clone \/ NoChild => Goal
  BY DEF Scan, Clone, NoChild, Begin, Goto, captureVars, StageMoves, Prepared, Outside
<1>3. MarkRunning => Goal
  <2> SUFFICES ASSUME MarkRunning PROVE StageMoves
    OBVIOUS
  <2>1. pc = "markRunning" /\ mode' = mode /\ run' = run /\ mode = "prepare" /\ pc' \in {"setup", "prepFail"}
    BY DEF MarkRunning, Goto, captureVars, Base, Placed, Early
  <2>2. pc' = "setup" => Starting
    BY DEF MarkRunning, Goto, captureVars, Starting
  <2> QED BY <2>1, <2>2 DEF StageMoves, Prepared, Outside
<1>4. Setup \/ StartUp \/ SpawnProducers => Goal
  BY DEF Setup, StartUp, SpawnProducers, Abort, Goto, StageMoves, Prepared, Outside
<1>5. Observe \/ LimitReached \/ ObservationFails \/ Signal \/ PostRootWarning => Goal
  BY DEF Observe, LimitReached, ObservationFails, Signal, PostRootWarning, Quiet, Handling,
         StageMoves, Prepared, Outside
<1>6. Marker \/ Quiesce \/ ChildExits \/ LeaveLoop \/ Tick => Goal
  BY DEF Marker, Quiesce, ChildExits, LeaveLoop, Tick, Begin, Handling, Goto, captureVars, StageMoves,
         Prepared, Outside, Recording, storeVars
<1>7. TerminateGroup \/ RecordExit \/ WarnExclusions \/ Cleanup \/ PreparationFails => Goal
  BY DEF TerminateGroup, RecordExit, WarnExclusions, Cleanup, PreparationFails, Begin, Goto,
         captureVars, StageMoves, Prepared, Outside
<1>8. Finish \/ Retention \/ Exit \/ Crash \/ Open => Goal
  BY DEF Finish, Retention, Exit, Crash, Open, Forget, Goto, StageMoves, Outside
<1>9. Reload => Goal
  BY DEF Reload, Goto, StageMoves, Outside, storeVars
<1>10. (\E r \in Runs : \E p : StartRun(r, p)) => Goal
  <2> SUFFICES ASSUME NEW r \in Runs, NEW p, StartRun(r, p) PROVE StageMoves
    OBVIOUS
  <2>1. pc = "opened" /\ mode' = mode /\ mode = "prepare" /\ run = None
    BY DEF StartRun, captureVars, Base, Placed, Early
  <2>2. pc' = "done" \/ (pc' = "clone" /\ run' = r)
    BY DEF StartRun, Goto
  <2> QED BY <2>1, <2>2, RecorderConstants DEF StageMoves, Outside
<1>11. UNCHANGED vars => Goal
  BY DEF vars, localVars, captureVars
<1> QED
  BY <1>1, <1>2, <1>3, <1>4, <1>5, <1>6, <1>7, <1>8, <1>9, <1>10, <1>11
  DEF Next, Step, Arrival

\* Every effect keeps the status that the place asks for.
LEMMA StagesStep ==
  ASSUME Base, Effect, Base', Stages,
         StageMoves \/ (UNCHANGED <<pc, mode, run>> /\ UNCHANGED storeVars)
  PROVE  Stages'
<1>0. StoreTypeOK /\ run \in Runs \cup {None} /\ None \notin Runs
  BY RecorderConstants DEF Base, Journal, Bookkeeping, LocalTypes
<1>1. CASE UNCHANGED <<pc, mode, run>> /\ UNCHANGED storeVars
  BY <1>1 DEF Stages, storeVars
<1>2. CASE pc' \in Outside
  BY <1>2 DEF Stages
<1>3. CASE pc \in Outside /\ pc' = "clone" /\ mode' = "prepare" /\ run' # run
  <2>1. pc' # "off" /\ run' # None
    BY <1>3 DEF Base, Placed
  <2>2. CASE Closes
    BY <2>1, <2>2 DEF Closes, Forget
  <2>3. CASE Creates
    <3>1. row'[run'].status = "preparing"
      BY <1>0, <2>3 DEF Creates, CreateRun, StoreTypeOK, Rows
    <3> QED BY <1>3, <3>1 DEF Stages, Prepared, Active
  <2>4. ~ (Rests \/ Loses \/ Opens \/ (run \in Runs /\ (Sends \/ Commits \/ Concludes \/ Starting)))
    BY <1>3, SendsSent DEF Rests, Loses, Opens, Commits, Concludes, Starting
  <2> QED BY <2>2, <2>3, <2>4 DEF Effect
<1>4. CASE pc = "reload" /\ pc' = "nochild" /\ mode' = "retried"
           /\ row[run].status = "running" /\ UNCHANGED <<row, run>>
  BY <1>4 DEF Stages, Active
<1>5. CASE /\ pc \notin Outside \cup {"finish"} /\ run' = run /\ pc' \notin Outside
           /\ pc' \in Prepared \/ mode' = "supervised" =>
                pc \in Prepared \/ mode = "supervised" \/ Starting
  <2>1. run \in Runs
    BY <1>0, <1>5 DEF Outside, Base, Placed
  <2>2. CASE Starting
    <3>1. row'[run].status = "running"
      BY <1>0, <2>1, <2>2 DEF Starting, MarkRunRunning, StoreTypeOK, Rows
    <3> QED BY <1>5, <3>1 DEF Stages, Active
  <2>3. CASE Rests \/ Loses \/ Sends \/ Commits
    <3>1. Rests \/ Loses \/ Sends => row' = row
      BY SendsSent DEF Rests, Loses, Sent, storeVars
    <3>2. Commits => row'[run].status = row[run].status
      BY <1>0, <2>1, CommitTypes, CheckpointStoredRows DEF Commits, CommitCheckpointWithEvent
    <3>3. row'[run].status = row[run].status
      BY <2>3, <3>1, <3>2
    <3>4. CASE Starting
      BY <2>2, <3>4
    <3>5. CASE ~ Starting
      BY <1>5, <3>3, <3>5 DEF Stages
    <3> QED BY <3>4, <3>5
  <2>4. ~ Opens /\ ~ Closes /\ ~ Creates /\ ~ Concludes
    BY <1>5 DEF Opens, OpenStore, Closes, Forget, Creates, Concludes, Outside, Base, Placed
  <2> QED BY <2>2, <2>3, <2>4 DEF Effect
<1> QED BY <1>1, <1>2, <1>3, <1>4, <1>5 DEF StageMoves

-----------------------------------------------------------------------------
(* A finish that cannot fail.                                              *)

\* An accepted batch begins right after the timeline, so no number was lost.
LEMMA AcceptedLossless ==
  ASSUME Base, Ledger, run \in Runs, NEW body \in Bodies,
         CanAppend(run, Append(pending, Stamped(body)))
  PROVE  lost = 0 /\ row[run].status \in Active
<1> DEFINE e == Stamped(body)
           batch == Append(pending, e)
<1>1. /\ e \in Events /\ e.seq = next /\ pending \in Seq(Events) /\ lost \in Nat /\ next \in Nat
      /\ Len(Log) = Len(events[run]) + Len(pending) /\ Len(events[run]) \in Nat /\ run # None
  BY StampedType, BaseTypes, LogType, RecorderConstants DEF Stamped, Base, LocalTypes
<1> HIDE DEF e
<1>2. batch # <<>> /\ batch[1] = IF pending = <<>> THEN e ELSE pending[1]
  <2>1. CASE pending = <<>>
    BY <1>1, <2>1
  <2>2. CASE pending # <<>>
    <3>1. Len(pending) \in Nat /\ Len(batch) = Len(pending) + 1 /\ 1 \in 1..Len(pending)
      BY <1>1, <2>2
    <3>2. \A i \in 1..Len(pending) : batch[i] = pending[i]
      BY <1>1
    <3> QED BY <2>2, <3>1, <3>2
  <2> QED BY <2>1, <2>2
<1>3. batch[1].seq = LastSeq(run) + 1 /\ row[run].status \in Active
  BY <1>2 DEF CanAppend, e
<1>4. LastSeq(run) = Len(events[run])
  BY LastSeqIsLength DEF Base, Journal, Bookkeeping
<1>5. next = Len(events[run]) + Len(pending) + lost + 1 /\ Numbered(pending, next - Len(pending))
  BY <1>1 DEF Ledger
<1>6. batch[1].seq = next - Len(pending)
  <2>1. CASE pending = <<>>
    BY <1>1, <1>2, <2>1
  <2>2. CASE pending # <<>>
    <3>1. 1 \in 1..Len(pending)
      BY <1>1, <2>2
    <3>2. pending[1].seq = (next - Len(pending)) + 1 - 1
      BY <1>5, <3>1 DEF Numbered
    <3> QED BY <1>1, <1>2, <2>2, <3>2
  <2> QED BY <2>1, <2>2
<1> QED BY <1>1, <1>3, <1>4, <1>5, <1>6

\* And as long as none was lost, one more event is accepted.
LEMMA LosslessAccepted ==
  ASSUME Base, Ledger, run \in Runs, NEW body \in Bodies, lost = 0, row[run].status \in Active
  PROVE  CanAppend(run, Append(pending, Stamped(body)))
<1> DEFINE e == Stamped(body)
           batch == Append(pending, e)
<1>1. /\ e \in Events /\ e.seq = next /\ e.at = clock /\ pending \in Seq(Events)
      /\ next \in Nat /\ clock \in Nat /\ events[run] \in Seq(Events) /\ Log \in Seq(Events)
      /\ Len(Log) = Len(events[run]) + Len(pending) /\ Len(events[run]) \in Nat /\ run # None
  BY StampedType, BaseTypes, LogType, RecorderConstants DEF Stamped, Base, LocalTypes
<1> HIDE DEF e
<1>2. /\ next = Len(events[run]) + Len(pending) + 1 /\ Numbered(pending, next - Len(pending))
      /\ InTimeOrder(Log) /\ \A i \in 1..Len(Log) : Log[i].at <= clock
  BY <1>1 DEF Ledger
<1>3. Numbered(batch, (next + 1) - Len(batch))
  BY <1>1, <1>2, AppendNumbered
<1>4. Len(batch) = Len(pending) + 1 /\ batch \in Seq(Events) /\ Len(pending) \in Nat
  BY <1>1
<1>5. (next + 1) - Len(batch) = Len(events[run]) + 1
  BY <1>1, <1>2, <1>4
<1>6. InTimeOrder(Append(Log, e))
  BY <1>1, <1>2, AppendInOrder
<1>7. events[run] \o batch = Append(Log, e)
  BY <1>1, AppendLast DEF Log
<1> QED BY <1>3, <1>4, <1>5, <1>6, <1>7, BatchAccepted DEF e

\* The snapshots of checkpoints are stored.
Known == \A r \in Runs : \A c \in checkpoints[r] : c.snapshot \in snapshots

\* Every effect keeps the snapshots of checkpoints.
LEMMA KnownStep ==
  ASSUME Base, Effect, Base', Known
  PROVE  Known'
<1>0. StoreTypeOK
  BY DEF Base, Journal, Bookkeeping
<1>1. CASE Rests \/ Loses \/ Opens \/ Closes \/ Creates
  BY <1>1 DEF Rests, Loses, Opens, OpenStore, Recover, Closes, CloseStore, Creates, CreateRun,
              storeVars, Known
<1>2. CASE Sends \/ Concludes \/ Starting
  <2>1. checkpoints' = checkpoints /\ snapshots' = snapshots
    BY <1>2, SendsSent DEF Sent, Concludes, FinishRunWithEvents, Starting, MarkRunRunning
  <2> QED BY <2>1 DEF Known
<1>3. CASE run \in Runs /\ Commits
  <2> DEFINE c == [seq |-> next, id |-> cp.id, reason |-> cp.reason, snapshot |-> cp.snapshot]
  <2>1. checkpoints' = [checkpoints EXCEPT ![run] = @ \cup {c}] /\ snapshots' = snapshots \cup {c.snapshot}
    BY <1>3 DEF Commits, CommitCheckpointWithEvent, CheckpointStored
  <2> HIDE DEF c
  <2> QED BY <1>0, <1>3, <2>1 DEF Known, StoreTypeOK
<1> QED BY <1>1, <1>2, <1>3 DEF Effect

\* The finish of a run that lost no number is accepted.
LEMMA RefusedLossy ==
  ASSUME Base, Ledger, Shown, Known, Stages, run \in Runs, Refuses, "finish" \notin Faulty
  PROVE  lost # 0
<1> SUFFICES ASSUME lost = 0 PROVE FALSE
  OBVIOUS
<1>1. row[run].status \in Active /\ (mode = "supervised" => row[run].status = "running")
  BY DEF Refuses, Stages, Outside
<1>2. Completion(Outcome) \in Bodies
  BY DEF Refuses, Completion, Finishes, Bodies
<1>3. CanAppend(run, Append(pending, Stamped(Completion(Outcome))))
  BY <1>1, <1>2, LosslessAccepted
<1>4. final \in snapshots \cup {None}
  BY DEF Shown, FinalShown, Known
<1>5. CanTransition(row[run].status, FinalStatus)
  BY <1>1 DEF CanTransition, FinalStatus, Active, Terminal
<1>6. CanFinish(run, Outcome)
  BY <1>4, <1>5 DEF CanFinish, Outcome
<1> QED BY <1>3, <1>6 DEF Refuses

-----------------------------------------------------------------------------
(* Completion is atomic.                                                   *)

Completes(s) == \E i \in 1..Len(s) : s[i].body.kind = "RunCompleted"

\* A sequence completes by its new last event or as before.
LEMMA CompletesAppend ==
  ASSUME NEW s \in Seq(Events), NEW e \in Events
  PROVE  Completes(Append(s, e)) <=> Completes(s) \/ e.body.kind = "RunCompleted"
<1>1. /\ Len(Append(s, e)) = Len(s) + 1 /\ Len(s) \in Nat
      /\ \A i \in 1..Len(s) : Append(s, e)[i] = s[i]
      /\ Append(s, e)[Len(s) + 1] = e
  OBVIOUS
<1>2. /\ \A i \in 1..Len(Append(s, e)) : i \in 1..Len(s) \/ i = Len(s) + 1
      /\ \A i \in 1..Len(s) : i \in 1..Len(Append(s, e))
      /\ Len(s) + 1 \in 1..Len(Append(s, e))
  BY <1>1
<1> QED BY <1>1, <1>2 DEF Completes

\* A concatenation completes in one of its parts.
LEMMA CompletesConcat ==
  ASSUME NEW s \in Seq(Events), NEW t \in Seq(Events)
  PROVE  Completes(s \o t) <=> Completes(s) \/ Completes(t)
<1>1. /\ Len(s \o t) = Len(s) + Len(t) /\ Len(s) \in Nat /\ Len(t) \in Nat
      /\ \A i \in 1..Len(s) : (s \o t)[i] = s[i]
      /\ \A i \in 1..Len(t) : (s \o t)[Len(s) + i] = t[i]
  BY ConcatProperties
<1>2. /\ \A i \in 1..Len(s \o t) : i \in 1..Len(s) \/ (i - Len(s) \in 1..Len(t) /\ i = Len(s) + (i - Len(s)))
      /\ \A i \in 1..Len(s) : i \in 1..Len(s \o t)
      /\ \A i \in 1..Len(t) : Len(s) + i \in 1..Len(s \o t)
  BY <1>1
<1>3. Completes(s \o t) => Completes(s) \/ Completes(t)
  BY <1>1, <1>2 DEF Completes
<1>4. Completes(s) \/ Completes(t) => Completes(s \o t)
  BY <1>1, <1>2 DEF Completes
<1> QED BY <1>3, <1>4

\* A completion is durable only in a run that ended, and pending only once it
\* can no longer be appended.
Unfinished ==
  /\ \A r \in Runs : row[r].status \notin Terminal => ~ Completes(events[r])
  /\ lost = 0 => ~ Completes(pending)

\* What appending an ordinary event does to the timeline of the run.
LEMMA SaysAppends ==
  ASSUME Base, Ledger, run \in Runs, Unfinished, Says
  PROVE  \/ /\ events' = events
            /\ lost = 0 => ~ Completes(pending')
         \/ /\ row[run].status \in Active /\ pending' = <<>>
            /\ \E e \in Events : events'[run] = Append(Log, e)
            /\ ~ Completes(events'[run]) /\ events' = [events EXCEPT ![run] = events'[run]]
<1>1. PICK body \in Ordinary : Sent(body) /\ UNCHANGED <<run, lost, clock>>
  BY DEF Says
<1> DEFINE e == Stamped(body)
<1>2. e \in Events /\ e.body.kind # "RunCompleted" /\ body \in Bodies
  BY <1>1, StampedType, BaseTypes DEF Ordinary, Batched, Stamped
<1>3. Log \in Seq(Events) /\ events[run] \in Seq(Events) /\ pending \in Seq(Events)
  BY LogType
<1>4. /\ events'[run] \o pending' = Append(Log, e)
      /\ \/ events' = events /\ pending' = Append(pending, e)
         \/ pending' = <<>> /\ CanAppend(run, Append(pending, e))
      /\ \A q \in Runs \ {run} : events'[q] = events[q]
      /\ StoreTypeOK /\ StoreTypeOK'
  BY <1>1 DEF Sent, Base, Journal, Bookkeeping
<1>5. CASE pending' = <<>> /\ CanAppend(run, Append(pending, e))
  <2>1. lost = 0 /\ row[run].status \in Active
    BY <1>2, <1>5, AcceptedLossless
  <2>2. ~ Completes(Log)
    BY <1>3, <2>1, CompletesConcat DEF Unfinished, Log, Active, Terminal
  <2> HIDE DEF e
  <2>3. ~ Completes(Append(Log, e))
    BY <1>2, <1>3, <2>2, CompletesAppend
  <2>4. events'[run] = Append(Log, e)
    <3>1. events'[run] \in Seq(Events)
      BY <1>4 DEF StoreTypeOK
    <3>2. events'[run] \o <<>> = events'[run]
      BY <3>1, ConcatEmptySeq
    <3> QED BY <1>4, <1>5, <3>2
  <2>5. events' = [events EXCEPT ![run] = events'[run]]
    BY <1>4 DEF StoreTypeOK
  <2> QED BY <1>2, <1>5, <2>1, <2>3, <2>4, <2>5
<1>6. CASE events' = events /\ pending' = Append(pending, e)
  <2> HIDE DEF e
  <2> QED BY <1>2, <1>3, <1>6, CompletesAppend DEF Unfinished
<1> QED BY <1>4, <1>5, <1>6

\* Every effect keeps completions out of runs that have not ended.
LEMMA UnfinishedStep ==
  ASSUME Base, Effect, Base', Ledger, Shown, Known, Stages, Unfinished, "finish" \notin Faulty
  PROVE  Unfinished'
<1>0. /\ StoreTypeOK /\ StoreTypeOK' /\ run \in Runs \cup {None} /\ lost \in Nat
      /\ pending \in Seq(Events)
  BY DEF Base, Journal, Bookkeeping, LocalTypes
<1>1. CASE Rests \/ Loses
  BY <1>0, <1>1 DEF Rests, Loses, storeVars, Unfinished
<1>2. CASE Closes
  <2>1. UNCHANGED <<row, events>> /\ pending' = <<>>
    BY <1>2 DEF Closes, CloseStore, Forget
  <2> QED BY <2>1 DEF Unfinished, Completes
<1>3. CASE Opens \/ Creates \/ (run \in Runs /\ Starting)
  <2>1. UNCHANGED <<events, lost, pending>>
    BY <1>3 DEF Opens, OpenStore, Recover, Creates, CreateRun, Starting, MarkRunRunning
  <2>2. \A q \in Runs : row'[q].status \notin Terminal => row[q].status \notin Terminal
    <3>1. CASE Opens
      <4> SUFFICES ASSUME NEW q \in Runs, row'[q].status \notin Terminal PROVE row[q].status \notin Terminal
        OBVIOUS
      <4>1. row[q].status \notin Active => row'[q] = row[q]
        BY <3>1 DEF Opens, OpenStore, Recover
      <4> QED BY <4>1 DEF Active, Terminal
    <3>2. CASE Creates
      BY <1>0, <3>2 DEF Creates, CreateRun, StoreTypeOK, Rows, Terminal
    <3>3. CASE run \in Runs /\ Starting
      BY <1>0, <3>3 DEF Starting, MarkRunRunning, StoreTypeOK, Rows, Terminal
    <3> QED BY <1>3, <3>1, <3>2, <3>3
  <2> QED BY <2>1, <2>2 DEF Unfinished
<1>4. CASE run \in Runs /\ Says
  <2>1. row' = row /\ lost' = lost
    BY <1>4, SendsSent DEF Sends, Sent
  <2>2. \A q \in Runs \ {run} : events'[q] = events[q]
    BY <1>4, SendsSent DEF Sends, Sent
  <2>3. CASE events' = events /\ (lost = 0 => ~ Completes(pending'))
    BY <2>1, <2>3 DEF Unfinished
  <2>4. CASE pending' = <<>> /\ ~ Completes(events'[run])
    <3>1. ~ Completes(pending')
      BY <2>4 DEF Completes
    <3>2. ASSUME NEW q \in Runs, row'[q].status \notin Terminal PROVE ~ Completes(events'[q])
      BY <2>1, <2>2, <2>4, <3>2 DEF Unfinished
    <3> QED BY <3>1, <3>2 DEF Unfinished
  <2> QED BY <1>4, <2>3, <2>4, SaysAppends
<1>5. CASE run \in Runs /\ Refuses
  <2>1. lost # 0 /\ lost' = lost /\ UNCHANGED <<row, events>>
    BY <1>5, RefusedLossy DEF Refuses, storeVars
  <2> QED BY <2>1 DEF Unfinished
<1>6. CASE run \in Runs /\ Commits
  <2> DEFINE e == Stamped(Committed(cp))
  <2>1. e \in Events /\ e.body.kind # "RunCompleted"
    <3>1. Committed(cp) \in Bodies
      BY <1>6 DEF Commits, Base, LocalTypes, Placed, Committed, Bodies, CheckpointIds
    <3> QED BY <3>1, StampedType, BaseTypes DEF Stamped, Committed
  <2>2. /\ events'[run] = events[run] \o <<e>> /\ UNCHANGED <<run, lost, pending>>
        /\ row'[run].status = row[run].status /\ row[run].status \in Active
        /\ \A q \in Runs \ {run} : events'[q] = events[q] /\ row'[q] = row[q]
    BY <1>0, <1>6, CommitTypes, CheckpointStoredRows
    DEF Commits, CommitCheckpointWithEvent, Appended, CanAppend, StoreTypeOK
  <2> HIDE DEF e
  <2>3. events'[run] = Append(events[run], e) /\ events[run] \in Seq(Events)
    BY <1>0, <1>6, <2>1, <2>2, AppendIsConcat DEF StoreTypeOK
  <2>4. ~ Completes(events'[run])
    <3>1. ~ Completes(events[run])
      BY <1>6, <2>2 DEF Unfinished, Active, Terminal
    <3>2. ~ Completes(Append(events[run], e))
      BY <2>1, <2>3, <3>1, CompletesAppend
    <3> QED BY <2>3, <3>2
  <2> QED BY <2>2, <2>4 DEF Unfinished
<1>7. CASE run \in Runs /\ Concludes
  <2>1. pending' = <<>> /\ row'[run].status \in Terminal
    BY <1>0, <1>7 DEF Concludes, FinishRunWithEvents, Finished, Finishes, StoreTypeOK, Rows
  <2>2. \A q \in Runs \ {run} : events'[q] = events[q] /\ row'[q] = row[q]
    BY <1>0, <1>7 DEF Concludes, FinishRunWithEvents, Finished, Appended, StoreTypeOK
  <2> QED BY <2>1, <2>2 DEF Unfinished, Completes
<1> QED BY <1>1, <1>2, <1>3, <1>4, <1>5, <1>6, <1>7 DEF Effect, Sends

\* All that the lifecycle of a run rests on.
Whole == Base /\ Ledger /\ Pathed /\ Shown /\ Known /\ Stages

\* They hold before the first process,
LEMMA WholeInit == Init => Whole
<1> SUFFICES ASSUME Init PROVE Pathed /\ Shown /\ Known /\ Stages
  BY BaseInit, LedgerInit DEF Whole
<1>1. Pathed /\ Stages
  BY DEF Init, Pathed, Checkpointing, Stages, Outside
<1>2. \A r \in Runs : row[r] = EmptyRow /\ checkpoints[r] = {}
  BY DEF Init, StoreInit
<1> QED BY <1>1, <1>2 DEF Init, Shown, RowShown, FinalShown, EmptyRow, Known

\* and every step keeps them.
LEMMA WholeStep ==
  ASSUME Whole, [Next]_vars
  PROVE  Whole' /\ Effect
<1>1. Base' /\ Effect
  BY BaseStep DEF Whole
<1>2. Pathed' /\ Shown'
  BY <1>1, PathedStep, ShownStep DEF Whole
<1>3. Ledger' /\ Known'
  BY <1>1, LedgerStep, KnownStep DEF Whole
<1>4. Stages'
  BY <1>1, StageMovesStep, StagesStep DEF Whole
<1> QED BY <1>1, <1>2, <1>3, <1>4 DEF Whole

\* "The final RunCompleted batch and the terminal transition commit in one
\* transaction" holds of the recorder as long as that transaction does not fail
\* (Recorder::finish); a failing one breaks it.
THEOREM CompletionAtomicUnlessFinishFails ==
  ASSUME "finish" \notin Faulty
  PROVE  Spec => []CompletionIsAtomic
<1> DEFINE Inv == Whole /\ Unfinished
<1>1. Init => Inv
  <2> SUFFICES ASSUME Init PROVE Unfinished
    BY WholeInit
  <2>1. pending = <<>> /\ \A r \in Runs : events[r] = <<>>
    BY DEF Init, StoreInit
  <2> QED BY <2>1 DEF Unfinished, Completes
<1>2. Inv /\ [Next]_vars => Inv'
  BY WholeStep, UnfinishedStep DEF Whole
<1>3. Inv => CompletionIsAtomic
  BY DEF Unfinished, Completes, CompletionIsAtomic, Kinds, Active, Terminal
<1> QED BY <1>1, <1>2, <1>3, PTL DEF Spec

-----------------------------------------------------------------------------
(* The recorder implements the lifecycle.                                  *)

KindsOf(s) == [i \in 1..Len(s) |-> s[i].body.kind]

EventKinds == {b.kind : b \in Bodies}

\* The kinds of a timeline are a sequence as long as it.
LEMMA KindsOfType ==
  ASSUME NEW s \in Seq(Events)
  PROVE  /\ KindsOf(s) \in Seq(EventKinds) /\ Len(KindsOf(s)) = Len(s)
         /\ \A i \in 1..Len(s) : KindsOf(s)[i] = s[i].body.kind
<1>1. Len(s) \in Nat /\ \A i \in 1..Len(s) : s[i] \in Events
  BY ElementOfSeq
<1>2. \A i \in 1..Len(s) : s[i].body.kind \in EventKinds
  BY <1>1 DEF Events, EventKinds
<1> DEFINE n == Len(s)
           k == KindsOf(s)
<1> HIDE DEF n
<1>3. k \in [1..n -> EventKinds]
  BY <1>2 DEF KindsOf, n
<1>4. k \in Seq(EventKinds)
  BY <1>1, <1>3, SeqDef DEF n
<1>5. DOMAIN k = 1..n /\ Len(k) \in Nat /\ DOMAIN k = 1..Len(k)
  BY <1>3, <1>4, LenProperties
<1>6. Len(k) = n
  BY <1>1, <1>5 DEF n
<1> QED BY <1>4, <1>6 DEF KindsOf, n

\* A longer timeline has a longer sequence of kinds.
LEMMA KindsExtend ==
  ASSUME NEW s \in Seq(Events), NEW u \in Seq(Events), u # <<>>
  PROVE  Lifecycle!Extends(KindsOf(s \o u), KindsOf(s))
<1> DEFINE t == s \o u
           old == KindsOf(s)
           new == KindsOf(t)
<1>1. /\ t \in Seq(Events) /\ Len(t) = Len(s) + Len(u) /\ Len(s) \in Nat
      /\ Len(u) \in Nat /\ Len(u) # 0 /\ \A i \in 1..Len(s) : t[i] = s[i]
  BY ConcatProperties
<1> HIDE DEF t
<1>2. /\ new \in Seq(EventKinds) /\ Len(new) = Len(t)
      /\ \A i \in 1..Len(t) : new[i] = t[i].body.kind
  BY <1>1, KindsOfType
<1>3. /\ old \in Seq(EventKinds) /\ Len(old) = Len(s)
      /\ \A i \in 1..Len(s) : old[i] = s[i].body.kind
  BY KindsOfType
<1> HIDE DEF new, old
<1>4. Len(new) > Len(old)
  BY <1>1, <1>2, <1>3
<1>5. \A i \in 1..Len(s) : i \in 1..Len(t) /\ new[i] = old[i] /\ new[i] \in EventKinds
  <2> SUFFICES ASSUME NEW i \in 1..Len(s)
               PROVE  i \in 1..Len(t) /\ new[i] = old[i] /\ new[i] \in EventKinds
    OBVIOUS
  <2>1. i \in 1..Len(t) /\ t[i] = s[i]
    BY <1>1
  <2>2. new[i] = old[i]
    BY <1>2, <1>3, <2>1
  <2>3. new[i] \in EventKinds
    BY <1>2, <2>1, ElementOfSeq
  <2> QED BY <2>1, <2>2, <2>3
<1>6. /\ SubSeq(new, 1, Len(s)) \in Seq(EventKinds)
      /\ Len(SubSeq(new, 1, Len(s))) = IF 1 <= Len(s) THEN Len(s) - 1 + 1 ELSE 0
      /\ \A i \in 1..(Len(s) - 1 + 1) : SubSeq(new, 1, Len(s))[i] = new[1 + i - 1]
  BY <1>1, <1>5, SubSeqProperties
<1>7. SubSeq(new, 1, Len(s)) = old
  <2>1. Len(SubSeq(new, 1, Len(s))) = Len(old)
    BY <1>1, <1>3, <1>6
  <2>2. \A i \in 1..Len(s) : SubSeq(new, 1, Len(s))[i] = old[i]
    BY <1>1, <1>5, <1>6
  <2> QED BY <1>3, <1>6, <2>1, <2>2, SeqEqual
<1> QED BY <1>3, <1>4, <1>7 DEF Lifecycle!Extends, new, old, t

\* The lifecycle's log, as the refinement mapping has it.
KindLogs == [r \in Runs |-> KindsOf(events[r])]

\* What one run's timeline gaining events means in the lifecycle.
LEMMA LogExtends ==
  ASSUME StoreTypeOK, run \in Runs, run' = run, NEW u \in Seq(Events), u # <<>>,
         events' = [events EXCEPT ![run] = events[run] \o u]
  PROVE  /\ Lifecycle!Extends(KindLogs'[run], KindLogs[run])
         /\ KindLogs' = [KindLogs EXCEPT ![run] = KindLogs'[run]]
         /\ Len(KindLogs'[run]) = Len(events'[run])
         /\ \A i \in 1..Len(events'[run]) : KindLogs'[run][i] = events'[run][i].body.kind
<1>1. /\ events[run] \in Seq(Events) /\ events'[run] = events[run] \o u
      /\ \A q \in Runs \ {run} : events'[q] = events[q]
  BY DEF StoreTypeOK
<1>2. events'[run] \in Seq(Events)
  BY <1>1, ConcatProperties
<1>3. Lifecycle!Extends(KindsOf(events'[run]), KindsOf(events[run]))
  BY <1>1, KindsExtend
<1>4. /\ Len(KindsOf(events'[run])) = Len(events'[run])
      /\ \A i \in 1..Len(events'[run]) : KindsOf(events'[run])[i] = events'[run][i].body.kind
  BY <1>2, KindsOfType
<1>5. /\ KindLogs[run] = KindsOf(events[run]) /\ KindLogs'[run] = KindsOf(events'[run])
      /\ \A q \in Runs \ {run} : KindLogs'[q] = KindLogs[q]
  BY <1>1 DEF KindLogs
<1>6. KindLogs' = [KindLogs EXCEPT ![run] = KindLogs'[run]]
  <2>1. /\ KindLogs' = [r \in Runs |-> KindLogs'[r]]
        /\ KindLogs = [r \in Runs |-> KindLogs[r]]
    BY DEF KindLogs
  <2> QED BY <1>5, <2>1
<1>7. Lifecycle!Extends(KindLogs'[run], KindLogs[run])
  BY <1>3, <1>5
<1> QED BY <1>4, <1>5, <1>6, <1>7

\* The mapped log and phases, spelled out.
Mapped ==
  /\ KindLogs = [r \in Runs |-> [i \in 1..Len(events[r]) |-> events[r][i].body.kind]]
  /\ KindLogs' = [r \in Runs |-> [i \in 1..Len(events'[r]) |-> events'[r][i].body.kind]]

\* KindLogs is what the INSTANCE statement substitutes for log.
LEMMA MappedHolds == Mapped
BY DEF Mapped, KindLogs, KindsOf

\* An append to the timeline is a step Record of the lifecycle.
LEMMA RecordMaps ==
  ASSUME StoreTypeOK, run \in Runs, run' = run, NEW u \in Seq(Events), u # <<>>,
         events' = [events EXCEPT ![run] = events[run] \o u],
         row[run].status \in Active, \A r \in Runs : row'[r].status = row[r].status,
         ~ Completes(events'[run])
  PROVE  Lifecycle!Next
<1>1. /\ Lifecycle!Extends(KindLogs'[run], KindLogs[run])
      /\ KindLogs' = [KindLogs EXCEPT ![run] = KindLogs'[run]]
      /\ Len(KindLogs'[run]) = Len(events'[run])
      /\ \A i \in 1..Len(events'[run]) : KindLogs'[run][i] = events'[run][i].body.kind
  BY LogExtends
<1>2. \A i \in 1..Len(KindLogs'[run]) : KindLogs'[run][i] # "RunCompleted"
  BY <1>1 DEF Completes
<1>3. [r \in Runs |-> row'[r].status] = [r \in Runs |-> row[r].status]
  OBVIOUS
<1>4. [r \in Runs |-> row[r].status][run] \in Lifecycle!Open
  BY DEF Lifecycle!Open, Active
<1>5. PICK r \in Runs : r = run
  OBVIOUS
<1>6. Lifecycle!Record(r)
  BY <1>1, <1>2, <1>3, <1>4, <1>5, MappedHolds DEF Lifecycle!Record, Mapped
<1> QED BY <1>6 DEF Lifecycle!Next

\* The finish of a run: the rest of its timeline, the completion as its only
\* last event, and its outcome.
LEMMA FinishMaps ==
  ASSUME Whole, Unfinished, run \in Runs, Concludes
  PROVE  Lifecycle!Next
<1> DEFINE e == Stamped(Completion(Outcome))
           batch == Append(pending, e)
<1>1. /\ StoreTypeOK /\ run' = run /\ Outcome \in Finishes /\ Completion(Outcome) \in Bodies
      /\ CanAppend(run, batch) /\ Appended(run, batch) /\ CanFinish(run, Outcome) /\ Finished(run, Outcome)
  BY DEF Whole, Base, Journal, Bookkeeping, Concludes, FinishRunWithEvents, Completion, Finishes, Bodies
<1>2. lost = 0 /\ row[run].status \in Active
  BY <1>1, AcceptedLossless DEF Whole
<1>3. /\ e \in Events /\ e.body.kind = "RunCompleted" /\ pending \in Seq(Events)
      /\ events[run] \in Seq(Events) /\ Log \in Seq(Events)
  BY <1>1, StampedType, BaseTypes, LogType DEF Whole, Stamped, Completion
<1>4. ~ Completes(Log)
  BY <1>2, <1>3, CompletesConcat DEF Unfinished, Log, Active, Terminal
<1>5. events' = [events EXCEPT ![run] = events[run] \o batch]
  BY <1>1 DEF Appended
<1> HIDE DEF e
<1>6. batch \in Seq(Events) /\ batch # <<>> /\ events[run] \o batch = Append(Log, e)
  <2>1. events[run] \o batch = Append(Log, e)
    BY <1>3, AppendLast DEF Log
  <2>2. batch \in Seq(Events) /\ batch # <<>>
    BY <1>3, AppendProperties
  <2> QED BY <2>1, <2>2
<1>7. /\ Lifecycle!Extends(KindLogs'[run], KindLogs[run])
      /\ KindLogs' = [KindLogs EXCEPT ![run] = KindLogs'[run]]
      /\ Len(KindLogs'[run]) = Len(events'[run])
      /\ \A i \in 1..Len(events'[run]) : KindLogs'[run][i] = events'[run][i].body.kind
  BY <1>1, <1>5, <1>6, LogExtends
<1>8. events'[run] = Append(Log, e)
  BY <1>1, <1>5, <1>6 DEF StoreTypeOK
<1>9. \A i \in 1..Len(KindLogs'[run]) : KindLogs'[run][i] = "RunCompleted" <=> i = Len(KindLogs'[run])
  <2>1. /\ Len(Append(Log, e)) = Len(Log) + 1 /\ Len(Log) \in Nat
        /\ \A i \in 1..Len(Log) : Append(Log, e)[i] = Log[i]
        /\ Append(Log, e)[Len(Log) + 1] = e
    BY <1>3
  <2>2. \A i \in 1..Len(Log) : Log[i].body.kind # "RunCompleted"
    BY <1>4 DEF Completes
  <2>3. \A i \in 1..(Len(Log) + 1) : i = Len(Log) + 1 \/ (i \in 1..Len(Log) /\ i # Len(Log) + 1)
    BY <2>1
  <2> QED BY <1>3, <1>7, <1>8, <2>1, <2>2, <2>3
<1>10. \E s \in Terminal :
         /\ [r \in Runs |-> row'[r].status] = [[r \in Runs |-> row[r].status] EXCEPT ![run] = s]
         /\ s = "completed" => row[run].status = "running"
  <2>1. /\ row'[run].status = Outcome.status /\ \A q \in Runs \ {run} : row'[q] = row[q]
    BY <1>1 DEF Finished, StoreTypeOK, Rows
  <2>2. Outcome.status \in Terminal /\ (Outcome.status = "completed" => row[run].status = "running")
    BY <1>1 DEF Finishes, CanFinish, CanTransition
  <2> HIDE DEF Outcome
  <2> QED BY <2>1, <2>2
<1>11. [r \in Runs |-> row[r].status][run] = row[run].status
  OBVIOUS
<1>12. PICK r \in Runs : r = run
  OBVIOUS
<1>13. Lifecycle!Finish(r)
  BY <1>1, <1>2, <1>7, <1>9, <1>10, <1>11, <1>12, MappedHolds
  DEF Lifecycle!Finish, Lifecycle!Open, Lifecycle!Ends, Active, Terminal, Mapped
<1> QED BY <1>13 DEF Lifecycle!Next

\* Every effect is a step of the lifecycle or no step at all.
LEMMA LifecycleStep ==
  ASSUME Whole, Effect, Base', Unfinished, Unfinished'
  PROVE  [Lifecycle!Next]_(Lifecycle!lifecycleVars)
<1>0. StoreTypeOK /\ StoreTypeOK' /\ run \in Runs \cup {None} /\ None \notin Runs
  BY RecorderConstants DEF Whole, Base, Journal, Bookkeeping, LocalTypes
<1>1. ASSUME events' = events, run' = run, \A r \in Runs : row'[r].status = row[r].status
      PROVE  UNCHANGED Lifecycle!lifecycleVars
  BY <1>1 DEF Lifecycle!lifecycleVars
<1>2. CASE Rests \/ Loses \/ (run \in Runs /\ Refuses)
  BY <1>1, <1>2 DEF Rests, Loses, Refuses, storeVars
<1>3. CASE Closes
  <2>1. /\ events' = events /\ row' = row /\ run' = None
    BY <1>3 DEF Closes, CloseStore, Forget
  <2>2. CASE run = None
    BY <1>1, <2>1, <2>2
  <2>3. CASE run # None
    <3>1. Lifecycle!Leave
      BY <2>1, <2>3 DEF Lifecycle!Leave
    <3> QED BY <3>1 DEF Lifecycle!Next
  <2> QED BY <2>2, <2>3
<1>4. CASE Opens
  <2>1. run = None /\ run' = None /\ events' = events
    BY <1>4 DEF Opens, OpenStore, Recover, Whole, Base, Placed
  <2>2. \A r \in Runs : row'[r].status = IF row[r].status \in Active THEN "interrupted" ELSE row[r].status
    <3> SUFFICES ASSUME NEW r \in Runs
                 PROVE  row'[r].status = IF row[r].status \in Active THEN "interrupted" ELSE row[r].status
      OBVIOUS
    <3>1. row'[r] = IF row[r].status \in Active
                    THEN [row[r] EXCEPT !.status = "interrupted", !.duration = LastOffset(r)]
                    ELSE row[r]
      BY <1>4 DEF Opens, OpenStore, Recover
    <3>2. row[r] \in Rows
      BY <1>0 DEF StoreTypeOK
    <3> QED BY <3>1, <3>2 DEF Rows
  <2>3. Lifecycle!Recover
    BY <2>1, <2>2 DEF Lifecycle!Recover, Lifecycle!Open, Active
  <2> QED BY <2>3 DEF Lifecycle!Next
<1>5. CASE Creates
  <2>1. PICK r \in Runs : /\ row' = [row EXCEPT ![r].status = "preparing"] /\ row[r].status = "absent"
                          /\ events' = events /\ run' = r /\ pc = "opened"
    BY <1>5 DEF Creates, CreateRun
  <2>2. run = None
    BY <2>1 DEF Whole, Base, Placed
  <2>3. \A q \in Runs : row'[q].status = IF q = r THEN "preparing" ELSE row[q].status
    BY <1>0, <2>1 DEF StoreTypeOK, Rows
  <2>4. Lifecycle!Create(r)
    BY <2>1, <2>2, <2>3 DEF Lifecycle!Create
  <2> QED BY <2>4 DEF Lifecycle!Next
<1>6. CASE run \in Runs /\ Starting
  <2>1. /\ row' = [row EXCEPT ![run].status = "running", ![run].initial = row[run].initial]
        /\ row[run].status = "preparing" /\ events' = events /\ run' = run
    BY <1>6 DEF Starting, MarkRunRunning
  <2>2. \A q \in Runs : row'[q].status = IF q = run THEN "running" ELSE row[q].status
    BY <1>0, <2>1 DEF StoreTypeOK, Rows
  <2>3. PICK r \in Runs : r = run
    BY <1>6
  <2>4. Lifecycle!Start(r)
    BY <2>1, <2>2, <2>3 DEF Lifecycle!Start
  <2> QED BY <2>4 DEF Lifecycle!Next
<1>7. CASE run \in Runs /\ Says
  <2>1. row' = row /\ run' = run
    BY <1>7, SendsSent DEF Sends, Sent
  <2>2. CASE events' = events
    BY <1>1, <2>1, <2>2
  <2>3. CASE /\ row[run].status \in Active /\ ~ Completes(events'[run])
             /\ \E e \in Events : events'[run] = Append(Log, e)
             /\ events' = [events EXCEPT ![run] = events'[run]]
    <3>1. PICK e \in Events : events'[run] = Append(Log, e)
      BY <2>3
    <3>2. pending \in Seq(Events) /\ events[run] \in Seq(Events)
      BY <1>7, LogType DEF Whole
    <3>3. /\ Append(pending, e) \in Seq(Events) /\ Append(pending, e) # <<>>
          /\ events[run] \o Append(pending, e) = Append(Log, e)
      BY <3>2, AppendLast, AppendProperties DEF Log
    <3>4. Lifecycle!Next
      <4> DEFINE u == Append(pending, e)
      <4> HIDE DEF u
      <4>1. u \in Seq(Events) /\ u # <<>> /\ events' = [events EXCEPT ![run] = events[run] \o u]
        BY <2>3, <3>1, <3>3 DEF u
      <4> QED BY <1>0, <1>7, <2>1, <2>3, <4>1, RecordMaps
    <3> QED BY <3>4
  <2> QED BY <1>7, <2>2, <2>3, SaysAppends DEF Whole
<1>8. CASE run \in Runs /\ Commits
  <2> DEFINE e == Stamped(Committed(cp))
             u == <<e>>
  <2>1. e \in Events
    <3>1. Committed(cp) \in Bodies
      BY <1>8 DEF Whole, Commits, Base, LocalTypes, Placed, Committed, Bodies, CheckpointIds
    <3> QED BY <3>1, StampedType, BaseTypes DEF Whole
  <2>2. /\ events' = [events EXCEPT ![run] = events[run] \o u] /\ run' = run
        /\ row[run].status \in Active
    BY <1>8 DEF Commits, CommitCheckpointWithEvent, Appended, CanAppend
  <2>3. \A q \in Runs : row'[q].status = row[q].status
    BY <1>0, <1>8, CommitTypes, CheckpointStoredRows DEF Whole, Commits, CommitCheckpointWithEvent
  <2>4. ~ Completes(events'[run])
    BY <1>8, <2>2, <2>3 DEF Unfinished, Active, Terminal
  <2> HIDE DEF e
  <2>5. u \in Seq(Events) /\ u # <<>>
    BY <2>1
  <2> HIDE DEF u
  <2> QED BY <1>0, <1>8, <2>2, <2>3, <2>4, <2>5, RecordMaps
<1>9. CASE run \in Runs /\ Concludes
  BY <1>9, FinishMaps
<1> QED BY <1>2, <1>3, <1>4, <1>5, <1>6, <1>7, <1>8, <1>9 DEF Effect, Sends

\* Batches, checkpoints, retries and crashes implement the lifecycle a reader
\* relies on, as long as the transaction that finishes a run does not fail.
THEOREM RecorderImplementsLifecycle ==
  ASSUME "finish" \notin Faulty
  PROVE  Spec => ImplementsLifecycle
<1> DEFINE Inv == Whole /\ Unfinished
<1>1. Init => Inv /\ Lifecycle!Init
  <2> SUFFICES ASSUME Init PROVE Unfinished /\ Lifecycle!Init
    BY WholeInit
  <2>1. pending = <<>> /\ \A r \in Runs : events[r] = <<>> /\ row[r] = EmptyRow
    BY DEF Init, StoreInit
  <2>2. Unfinished
    BY <2>1 DEF Unfinished, Completes
  <2>3. [r \in Runs |-> [i \in 1..Len(events[r]) |-> events[r][i].body.kind]] = [r \in Runs |-> <<>>]
    BY <2>1
  <2>4. [r \in Runs |-> row[r].status] = [r \in Runs |-> "absent"] /\ run = None
    BY <2>1 DEF EmptyRow, Init
  <2> QED BY <2>2, <2>3, <2>4 DEF Lifecycle!Init
<1>2. Inv /\ [Next]_vars => Inv' /\ [Lifecycle!Next]_(Lifecycle!lifecycleVars)
  <2> SUFFICES ASSUME Inv, [Next]_vars PROVE Inv' /\ [Lifecycle!Next]_(Lifecycle!lifecycleVars)
    OBVIOUS
  <2>1. Whole' /\ Effect
    BY WholeStep
  <2>2. Unfinished'
    BY <2>1, UnfinishedStep DEF Whole
  <2> QED BY <2>1, <2>2, LifecycleStep DEF Whole
<1> QED BY <1>1, <1>2, PTL DEF Spec, ImplementsLifecycle, Lifecycle!Spec

-----------------------------------------------------------------------------
(* A run that loses no number is settled by its own recorder.              *)

\* The places before the final scan, outside the checkpoint routine.
Waiting == {"clone", "markRunning", "setup", "startRun", "startInfo", "spawn", "supervise",
            "closing", "nochild"}

\* How the routine moves: where a checkpoint begins, and what it keeps.
RoutineMoves ==
  pc' \in Checkpointing =>
    /\ run' = run /\ checkpoints' = checkpoints /\ next \in Nat /\ next' \in Nat
    /\ \/ /\ pc \in {"clone", "supervise", "closing", "nochild"} /\ pc' = "ckptStart"
          /\ next <= cp'.id /\ cp'.id <= next' /\ (cp'.reason = "initial" => pc = "clone")
       \/ /\ pc \in Checkpointing /\ cp'.id = cp.id /\ cp'.reason = cp.reason
          /\ \/ pc' = pc /\ next' = next
             \/ pc = "ckptStart" /\ next' = next + 1
             \/ pc # "ckptStart" /\ pc' # "ckptStart" /\ next <= next'

\* How the other places follow each other, up to the final scan and after it.
PlaceMoves ==
  /\ pc' \in Waiting =>
       \/ pc = "opened" /\ pc' = "clone" /\ run' # run
       \/ /\ run' = run /\ (pc' = "clone" => pc = "clone")
          /\ \/ pc \in Waiting
             \/ pc \in Checkpointing /\ cp.reason # "final"
             \/ pc = "reload" /\ row' = row /\ row[run].status = "running"
  /\ pc' = "reload" =>
       /\ run' = run
       /\ pc = "spawn" \/ pc = "reload" \/ (pc = "finish" /\ (Concludes \/ Refuses))
       /\ pc = "spawn" \/ pc = "reload" => row' = row
  /\ pc' \in {"retention", "done"} =>
       \/ run' = None
       \/ /\ run' = run
          /\ \/ pc \in {"retention", "done"} /\ row' = row
             \/ pc = "finish" /\ (Concludes \/ Refuses)
             \/ pc = "reload" /\ row' = row /\ ("load" \in Faulty \/ row[run].status # "running")

\* The end of the checkpoint routine is such a move.
LEMMA ReturnPlaces ==
  ASSUME Base, pc \in Checkpointing, NEW outcome, Return(outcome)
  PROVE  RoutineMoves /\ PlaceMoves
<1>1. /\ pc' \in {"markRunning", "prepFail", "exclusions", "cleanup", "supervise"} /\ run' = run
      /\ pc' = "supervise" => cp.reason # "final"
      /\ pc' = "markRunning" => cp.reason # "final"
  BY DEF Return, Goto
<1> QED BY <1>1 DEF RoutineMoves, PlaceMoves, Checkpointing, Waiting

\* The checkpoint that Begin announces takes the number of its first event.
LEMMA BeginPlaces ==
  ASSUME Base, Base', pc \in {"clone", "supervise", "closing", "nochild"}, run' = run,
         checkpoints' = checkpoints, next' \in {next, next + 1}, pc' = "ckptStart",
         NEW reason \in Reasons, NEW id \in {next, next'},
         cp' = [NoCheckpoint EXCEPT !.reason = reason, !.id = id],
         reason = "initial" => pc = "clone"
  PROVE  RoutineMoves /\ PlaceMoves
<1>1. cp'.id = id /\ cp'.reason = reason /\ next \in Nat /\ next' \in Nat
  BY DEF NoCheckpoint, Base, LocalTypes
<1> QED BY <1>1 DEF RoutineMoves, PlaceMoves, Checkpointing, Waiting

\* Sending leaves the checkpoint table alone and moves the sequencer by one.
LEMMA SendPlaces ==
  ASSUME NEW body, NEW durable, NEW ok, Send(body, durable, ok)
  PROVE  next' = next + 1 /\ checkpoints' = checkpoints /\ row' = row
BY DEF Send, AppendEventBatch, StoreFails, storeVars

\* Every step is such a move.
LEMMA PlacesStep ==
  ASSUME Base, [Next]_vars, Base'
  PROVE  RoutineMoves /\ PlaceMoves
<1> DEFINE Goal == RoutineMoves /\ PlaceMoves
<1>0. next \in Nat /\ next' \in Nat
  BY DEF Base, LocalTypes
<1>1. CASE CheckpointStarts
  <2>1. PICK ok \in BOOLEAN : Send(About("CheckpointStarted"), TRUE, ok)
    BY <1>1 DEF CheckpointStarts
  <2>2. pc = "ckptStart" /\ next' = next + 1 /\ checkpoints' = checkpoints
    BY <1>1, <2>1, SendPlaces DEF CheckpointStarts
  <2>3. CASE pc' = "ckptScan" /\ UNCHANGED <<run, cp>>
    BY <1>0, <2>2, <2>3 DEF RoutineMoves, PlaceMoves, Checkpointing, Waiting
  <2>4. CASE Return("store")
    BY <2>2, <2>4, ReturnPlaces DEF Checkpointing
  <2> QED BY <1>1, <2>3, <2>4 DEF CheckpointStarts, Goto
<1>2. CASE Scan
  <2>1. /\ pc = "ckptScan" /\ pc' \in {"ckptCommit", "ckptLimit", "ckptFail"}
        /\ cp'.reason = cp.reason /\ cp'.id = cp.id /\ UNCHANGED <<run, next, checkpoints>>
    BY <1>2 DEF Scan, Goto, Base, LocalTypes, storeVars
  <2> QED BY <1>0, <2>1 DEF RoutineMoves, PlaceMoves, Checkpointing, Waiting
<1>3. CASE LimitWarning
  <2>1. pc = "ckptLimit" /\ next' = next + 1 /\ checkpoints' = checkpoints
    BY <1>3, SendPlaces DEF LimitWarning
  <2>2. CASE pc' = "ckptFail" /\ cp' = [cp EXCEPT !.error = "other"] /\ run' = run
    <3>1. cp'.reason = cp.reason /\ cp'.id = cp.id
      BY <2>2 DEF Base, LocalTypes
    <3> QED BY <1>0, <2>1, <2>2, <3>1 DEF RoutineMoves, PlaceMoves, Checkpointing, Waiting
  <2>3. CASE Return("store")
    BY <2>1, <2>3, ReturnPlaces DEF Checkpointing
  <2> QED BY <1>3, <2>2, <2>3 DEF LimitWarning, Goto
<1>4. CASE CheckpointFails \/ CheckpointCommits
  <2>1. pc \in Checkpointing
    BY <1>4 DEF CheckpointFails, CheckpointCommits, Checkpointing
  <2>2. \E outcome : Return(outcome)
    BY <1>4 DEF CheckpointFails, CheckpointCommits
  <2> QED BY <2>1, <2>2, ReturnPlaces
<1>5. CASE Clone
  <2>1. CASE Begin("initial")
    BY <1>5, <2>1, BeginPlaces DEF Clone, Begin, Goto, Reasons, storeVars
  <2>2. CASE pc' = "prepFail"
    BY <2>2 DEF RoutineMoves, PlaceMoves, Checkpointing, Waiting
  <2> QED BY <1>5, <2>1, <2>2 DEF Clone, Goto
<1>6. CASE Quiesce
  BY <1>6, BeginPlaces DEF Quiesce, Handling, Begin, Goto, Reasons, storeVars
<1>7. CASE Marker
  <2>1. pc \in {"supervise", "closing"} /\ run' = run
    BY <1>7 DEF Marker, Handling
  <2>2. CASE UNCHANGED <<storeVars, next, pending, fatal>> /\ Begin("manual")
    BY <2>1, <2>2, BeginPlaces DEF Begin, Goto, Reasons, storeVars
  <2>3. CASE /\ Send([kind |-> "MarkerCreated", id |-> next], FALSE, TRUE)
             /\ cp' = [NoCheckpoint EXCEPT !.reason = "manual", !.id = next]
             /\ pc' = "ckptStart"
    BY <2>1, <2>3, SendPlaces, BeginPlaces DEF Reasons
  <2>4. CASE pc' = pc
    BY <2>1, <2>4 DEF RoutineMoves, PlaceMoves, Checkpointing, Waiting
  <2> QED BY <1>7, <2>2, <2>3, <2>4 DEF Marker, Goto
<1>8. CASE RecordExit
  <2>1. /\ pc = "closing" /\ run' = run /\ next' \in {next, next + 1} /\ checkpoints' = checkpoints
    BY <1>8, SendPlaces DEF RecordExit, storeVars
  <2>2. CASE Begin("final")
    BY <2>1, <2>2, BeginPlaces DEF Begin, Goto, Reasons
  <2>3. CASE pc' = "cleanup"
    BY <2>3 DEF RoutineMoves, PlaceMoves, Checkpointing, Waiting
  <2> QED BY <1>8, <2>2, <2>3 DEF RecordExit, Goto
<1>9. CASE NoChild
  BY <1>9, SendPlaces, BeginPlaces DEF NoChild, Begin, Goto, Reasons
<1>10. CASE Finish
  <2>1. pc = "finish" /\ pc' \in {"reload", "retention", "done"} /\ run' = run /\ (Concludes \/ Refuses)
    BY <1>10, FinishBase DEF Finish, Goto
  <2> QED BY <2>1 DEF RoutineMoves, PlaceMoves, Checkpointing, Waiting
<1>11. MarkRunning \/ Setup \/ SpawnProducers => Goal
  BY DEF MarkRunning, Setup, SpawnProducers, Abort, Goto, storeVars, RoutineMoves, PlaceMoves,
         Checkpointing, Waiting
<1>12. StartUp => Goal
  BY DEF StartUp, Abort, Goto, RoutineMoves, PlaceMoves, Checkpointing, Waiting
<1>13. Observe \/ LimitReached \/ ObservationFails \/ Signal \/ PostRootWarning => Goal
  BY DEF Observe, LimitReached, ObservationFails, Signal, PostRootWarning, Quiet, Handling,
         RoutineMoves, PlaceMoves, Checkpointing, Waiting
<1>14. ChildExits \/ LeaveLoop \/ TerminateGroup \/ WarnExclusions \/ Cleanup \/ PreparationFails => Goal
  BY DEF ChildExits, LeaveLoop, TerminateGroup, WarnExclusions, Cleanup, PreparationFails, Goto,
         RoutineMoves, PlaceMoves, Checkpointing, Waiting
<1>15. Reload => Goal
  BY DEF Reload, Goto, storeVars, RoutineMoves, PlaceMoves, Checkpointing, Waiting
<1>16. Retention => Goal
  BY SendPlaces DEF Retention, Goto, storeVars, RoutineMoves, PlaceMoves, Checkpointing, Waiting
<1>17. Open \/ Exit \/ Crash => Goal
  BY DEF Open, Exit, Crash, Forget, Goto, RoutineMoves, PlaceMoves, Checkpointing, Waiting
<1>18. CASE \E r \in Runs : \E p : StartRun(r, p)
  <2>1. PICK r \in Runs : \E p : StartRun(r, p)
    BY <1>18
  <2>2. pc = "opened" /\ run = None /\ r # None
    BY <2>1, RecorderConstants DEF StartRun, Base, Placed
  <2>3. (pc' = "clone" /\ run' = r) \/ (pc' = "done" /\ run' = run)
    BY <2>1 DEF StartRun, Goto
  <2> QED BY <2>2, <2>3 DEF RoutineMoves, PlaceMoves, Checkpointing, Waiting
<1>19. CASE Tick \/ UNCHANGED vars
  <2>1. UNCHANGED <<storeVars, pc, run, next, cp>> /\ pc \in Places
    BY <1>19 DEF Tick, vars, localVars, captureVars, Base, LocalTypes
  <2>2. row' = row /\ checkpoints' = checkpoints
    BY <2>1 DEF storeVars
  <2>3. pc = "opened" => pc' # "clone"
    BY <2>1
  <2> QED BY <1>0, <2>1, <2>2, <2>3 DEF RoutineMoves, PlaceMoves, Checkpointing, Waiting
<1> QED
  BY <1>1, <1>2, <1>3, <1>4, <1>5, <1>6, <1>7, <1>8, <1>9, <1>10, <1>11, <1>12, <1>13, <1>14,
     <1>15, <1>16, <1>17, <1>18, <1>19
  DEF Next, Step, Arrival

\* What lets the recorder settle its run: no number is lost, checkpoint identities
\* and sequence numbers are fresh, and the columns that a checkpoint binds are empty
\* until it is committed.
Settling ==
  /\ lost = 0
  /\ \A r \in Runs :
       /\ row[r].status = "absent" => row[r].initial = None /\ row[r].final = None
       /\ \A d \in checkpoints[r] : d.id < d.seq
  /\ pc \in Checkpointing =>
       /\ cp.id <= next /\ (pc # "ckptStart" => cp.id < next)
       /\ \A d \in checkpoints[run] : d.id < cp.id
  /\ pc = "clone" \/ (pc \in Checkpointing /\ cp.reason = "initial") => row[run].initial = None
  /\ pc \in Waiting \cup Checkpointing => row[run].final = None
  /\ pc = "reload" =>
       row[run].status \in Terminal \/ (row[run].status = "running" /\ row[run].final = None)
  /\ pc \in {"retention", "done"} /\ run # None => row[run].status \in Terminal

\* A checkpoint's row comes before the next number.
LEMMA RowsBehind ==
  ASSUME Whole, run \in Runs, lost = 0
  PROVE  \A d \in checkpoints[run] : d.seq \in Nat /\ d.id \in Nat /\ d.seq < next
<1>1. next = Len(events[run]) + Len(pending) + 1 /\ Len(events[run]) \in Nat /\ Len(pending) \in Nat
  <2>1. Len(Log) = Len(events[run]) + Len(pending) /\ run # None
    BY LogType, RecorderConstants DEF Whole
  <2>2. next = Len(Log) + lost + 1
    BY <2>1 DEF Whole, Ledger
  <2>3. Len(events[run]) \in Nat /\ Len(pending) \in Nat
    BY LogType DEF Whole
  <2> QED BY <2>1, <2>2, <2>3
<1>2. \A d \in checkpoints[run] : d.seq \in 1..Len(events[run]) /\ d.id \in Nat
  BY DEF Whole, Base, Journal, Bookkeeping, CheckpointsJournalled, StoreTypeOK, Checkpoints, CheckpointIds
<1> QED BY <1>1, <1>2

\* So the commit of a checkpoint is valid.
LEMMA CommitAccepted ==
  ASSUME Whole, Settling, run \in Runs, pc = "ckptCommit"
  PROVE  CanCommit(run, Row) /\ CanAppend(run, <<Stamped(Committed(cp))>>)
<1>1. /\ cp.id < next /\ cp.id \in Nat /\ next \in Nat /\ (\A d \in checkpoints[run] : d.id < cp.id)
      /\ cp.reason \in Reasons /\ cp.snapshot \in Snapshots /\ pending = <<>>
  BY DEF Settling, Checkpointing, Whole, Base, LocalTypes, Placed, CheckpointIds
<1>2. row[run].status \in Active
  BY DEF Whole, Stages, Outside
<1>3. \A d \in checkpoints[run] : d.seq # next /\ d.id # cp.id
  BY <1>1, RowsBehind DEF Settling
<1>4. CanCommit(run, Row)
  BY <1>2, <1>3 DEF CanCommit, Row, Active, Settling, Checkpointing
<1>5. Committed(cp) \in Bodies
  BY <1>1 DEF Committed, Bodies, CheckpointIds
<1>6. CanAppend(run, Append(pending, Stamped(Committed(cp))))
  BY <1>2, <1>5, LosslessAccepted DEF Whole, Settling
<1> QED BY <1>1, <1>4, <1>6

\* A commit adds a row.
LEMMA CommitsAdd ==
  ASSUME Base, run \in Runs, Commits
  PROVE  checkpoints' # checkpoints
BY CommitTypes
DEF Commits, CommitCheckpointWithEvent, CanCommit, CheckpointStored, Base, Journal, Bookkeeping, StoreTypeOK

\* What a step may do to the row of the run that goes on being recorded.
LEMMA RowOfRun ==
  ASSUME Base, Effect, run \in Runs, run' = run, pc # "finish"
  PROVE  /\ Commits \/ (row'[run].initial = row[run].initial /\ row'[run].final = row[run].final)
         /\ Commits /\ cp.reason # "final" => row'[run].final = row[run].final
<1>0. StoreTypeOK /\ run # None
  BY RecorderConstants DEF Base, Journal, Bookkeeping
<1>1. ~ Opens /\ ~ Closes /\ ~ Creates /\ ~ Concludes
  BY <1>0 DEF Opens, OpenStore, Closes, Forget, Creates, Concludes, Base, Placed
<1>2. CASE Rests \/ Loses \/ Sends
  BY <1>2, SendsSent DEF Rests, Loses, Sent, storeVars, Commits, CommitCheckpointWithEvent, CheckpointStored
<1>3. CASE Starting
  <2>1. row'[run].initial = row[run].initial /\ row'[run].final = row[run].final
    BY <1>0, <1>3 DEF Starting, MarkRunRunning, StoreTypeOK, Rows
  <2> QED BY <2>1
<1>4. CASE Commits
  <2> DEFINE c == [seq |-> next, id |-> cp.id, reason |-> cp.reason, snapshot |-> cp.snapshot]
  <2>1. CheckpointStored(run, c) /\ c.reason = cp.reason
    BY <1>4 DEF Commits, CommitCheckpointWithEvent
  <2> HIDE DEF c
  <2>2. row'[run].final = IF c.reason = "final" THEN c.snapshot ELSE row[run].final
    BY <1>0, <2>1 DEF CheckpointStored, StoreTypeOK, Rows
  <2> QED BY <1>4, <2>1, <2>2
<1> QED BY <1>1, <1>2, <1>3, <1>4 DEF Effect

\* The rows of runs that do not exist, and the identities of checkpoints.
LEMMA RowsSettling ==
  ASSUME Whole, Effect, Base', Settling
  PROVE  \A r \in Runs :
           /\ row'[r].status = "absent" => row'[r].initial = None /\ row'[r].final = None
           /\ \A d \in checkpoints'[r] : d.id < d.seq
<1>0. StoreTypeOK /\ StoreTypeOK'
  BY DEF Whole, Base, Journal, Bookkeeping
<1>1. CASE Rests \/ Loses \/ Closes \/ Sends
  <2>1. UNCHANGED <<row, checkpoints>>
    BY <1>1, SendsSent DEF Rests, Loses, Closes, CloseStore, Sent, storeVars
  <2> QED BY <2>1 DEF Settling
<1>2. CASE Opens
  <2>1. checkpoints' = checkpoints
    BY <1>2 DEF Opens, OpenStore, Recover
  <2>2. ASSUME NEW r \in Runs, row'[r].status = "absent" PROVE row'[r] = row[r]
    <3>1. row'[r] = IF row[r].status \in Active
                    THEN [row[r] EXCEPT !.status = "interrupted", !.duration = LastOffset(r)]
                    ELSE row[r]
      BY <1>2 DEF Opens, OpenStore, Recover
    <3>2. row[r] \in Rows
      BY <1>0 DEF StoreTypeOK
    <3> QED BY <2>2, <3>1, <3>2 DEF Rows
  <2> QED BY <2>1, <2>2 DEF Settling
<1>3. CASE Creates
  <2>1. PICK r \in Runs : row' = [row EXCEPT ![r].status = "preparing"] /\ checkpoints' = checkpoints
    BY <1>3 DEF Creates, CreateRun
  <2>2. \A q \in Runs : row'[q] = row[q] \/ row'[q].status = "preparing"
    BY <1>0, <2>1 DEF StoreTypeOK, Rows
  <2> QED BY <2>1, <2>2 DEF Settling
<1>4. CASE run \in Runs /\ Starting
  <2>1. /\ row' = [row EXCEPT ![run].status = "running", ![run].initial = row[run].initial]
        /\ checkpoints' = checkpoints
    BY <1>4 DEF Starting, MarkRunRunning
  <2>2. \A q \in Runs : row'[q] = row[q] \/ row'[q].status = "running"
    BY <1>0, <1>4, <2>1 DEF StoreTypeOK, Rows
  <2> QED BY <2>1, <2>2 DEF Settling
<1>5. CASE run \in Runs /\ Concludes
  <2>1. checkpoints' = checkpoints /\ Finished(run, Outcome) /\ Outcome \in Finishes
    BY <1>5 DEF Concludes, FinishRunWithEvents
  <2>2. \A q \in Runs : row'[q] = row[q] \/ row'[q].status \in Terminal
    BY <1>0, <1>5, <2>1 DEF Finished, Finishes, StoreTypeOK, Rows
  <2> QED BY <2>1, <2>2 DEF Settling, Terminal
<1>6. CASE run \in Runs /\ Commits
  <2> DEFINE c == [seq |-> next, id |-> cp.id, reason |-> cp.reason, snapshot |-> cp.snapshot]
  <2>1. /\ CanCommit(run, c) /\ checkpoints' = [checkpoints EXCEPT ![run] = @ \cup {c}]
        /\ CheckpointStored(run, c)
    BY <1>6 DEF Commits, CommitCheckpointWithEvent, CheckpointStored
  <2>2. c.id < c.seq
    BY <1>6 DEF Commits, Settling, Checkpointing
  <2> HIDE DEF c
  <2>3. row[run].status # "absent" /\ row'[run].status = row[run].status
    BY <1>0, <1>6, <2>1 DEF CanCommit, CheckpointStored, StoreTypeOK, Rows
  <2>4. \A q \in Runs \ {run} : row'[q] = row[q] /\ checkpoints'[q] = checkpoints[q]
    BY <1>0, <2>1 DEF CheckpointStored, StoreTypeOK
  <2>5. checkpoints'[run] = checkpoints[run] \cup {c}
    BY <1>0, <1>6, <2>1 DEF StoreTypeOK
  <2> QED BY <2>2, <2>3, <2>4, <2>5 DEF Settling
<1> QED BY <1>1, <1>2, <1>3, <1>4, <1>5, <1>6 DEF Effect

\* Every effect keeps the run settling.
LEMMA SettlingStep ==
  ASSUME Whole, Effect, Base', RoutineMoves, PlaceMoves, Settling,
         Faulty \cap {"finish", "commit", "load"} = {}
  PROVE  Settling'
<1>0. /\ run \in Runs \cup {None} /\ None \notin Runs /\ StoreTypeOK /\ Base
      /\ pc \notin {"off", "opened", "done"} => run \in Runs
  BY RecorderConstants DEF Whole, Base, Journal, Bookkeeping, LocalTypes, Placed
<1>1. run \in Runs => ~ Refuses
  BY RefusedLossy DEF Whole, Settling
<1>2. ~ Loses
  BY <1>0, CommitAccepted DEF Loses
<1>3. lost' = 0
  BY <1>2, SendsSent DEF Effect, Rests, Opens, Closes, Forget, Creates, Commits, Concludes, Starting, Settling
<1>4. ASSUME run \in Runs, run' = run, pc # "finish", pc' \notin Checkpointing => pc # "ckptCommit",
             checkpoints' = checkpoints \/ pc # "ckptCommit"
      PROVE  row'[run].initial = row[run].initial /\ row'[run].final = row[run].final
  <2>1. ~ Commits
    BY <1>0, <1>4, CommitsAdd DEF Commits
  <2> QED BY <1>0, <1>4, <2>1, RowOfRun
<1>5. CASE pc' \in Checkpointing
  <2>1. run' = run /\ checkpoints' = checkpoints /\ run \in Runs /\ pc # "finish"
    BY <1>0, <1>5 DEF RoutineMoves, Checkpointing
  <2>2. row'[run].initial = row[run].initial /\ row'[run].final = row[run].final
    BY <1>4, <1>5, <2>1
  <2>3. row[run].final = None
    BY <1>5 DEF RoutineMoves, Settling, Waiting
  <2>4. cp'.reason = "initial" => row[run].initial = None
    BY <1>5 DEF RoutineMoves, Settling
  <2>5. /\ cp'.id <= next' /\ (pc' # "ckptStart" => cp'.id < next')
        /\ \A d \in checkpoints[run] : d.id < cp'.id
    <3>0. next \in Nat /\ next' \in Nat /\ cp.id \in Nat /\ cp'.id \in Nat
      BY <1>0 DEF Base, LocalTypes, CheckpointIds
    <3>1. CASE pc \in Checkpointing
      <4>1. cp'.id = cp.id /\ cp.id <= next /\ (pc # "ckptStart" => cp.id < next)
        BY <1>5, <3>1 DEF RoutineMoves, Settling, Checkpointing
      <4> QED BY <1>5, <3>0, <3>1, <4>1 DEF RoutineMoves, Settling, Checkpointing
    <3>2. CASE pc \notin Checkpointing
      <4>1. pc' = "ckptStart" /\ next <= cp'.id /\ cp'.id <= next'
        BY <1>5, <3>2 DEF RoutineMoves
      <4>2. \A d \in checkpoints[run] : d.id < d.seq /\ d.seq < next /\ d.seq \in Nat /\ d.id \in Nat
        BY <2>1, RowsBehind DEF Settling
      <4> QED BY <3>0, <4>1, <4>2
    <3> QED BY <3>1, <3>2
  <2>6. pc' \notin {"clone", "reload", "retention", "done"} \cup Waiting
    BY <1>5 DEF Checkpointing, Waiting
  <2> QED BY <1>3, <2>1, <2>2, <2>3, <2>4, <2>5, <2>6, RowsSettling DEF Settling
<1>6. CASE pc' \in Waiting
  <2>1. pc' \notin Checkpointing \cup {"reload", "retention", "done"}
    BY <1>6 DEF Checkpointing, Waiting
  <2>2. CASE pc = "opened" /\ pc' = "clone" /\ run' # run
    <3>1. run = None /\ run' \in Runs
      <4>1. run = None
        BY <2>2, <1>0 DEF Base, Placed
      <4> QED BY <2>2, <4>1 DEF Base, Placed, LocalTypes
    <3>2. PICK r \in Runs : row' = [row EXCEPT ![r].status = "preparing"] /\ row[r].status = "absent" /\ run' = r
      BY <1>0, <2>2, <3>1, SendsSent
      DEF Effect, Rests, Loses, Opens, Closes, Forget, Creates, CreateRun, Commits, Concludes, Starting
    <3>3. row'[r].initial = None /\ row'[r].final = None
      BY <1>0, <3>2 DEF Settling, StoreTypeOK, Rows
    <3> QED BY <1>3, <2>1, <2>2, <3>2, <3>3, RowsSettling DEF Settling
  <2>3. CASE run' = run /\ (pc' = "clone" => pc = "clone") /\ pc \in Waiting
    <3>1. run \in Runs /\ pc \notin {"finish", "ckptCommit"}
      BY <1>0, <2>3 DEF Waiting
    <3>2. row'[run].initial = row[run].initial /\ row'[run].final = row[run].final
      BY <1>4, <2>1, <2>3, <3>1
    <3> QED BY <1>3, <2>1, <2>3, <3>2, RowsSettling DEF Settling
  <2>4. CASE run' = run /\ (pc' = "clone" => pc = "clone") /\ pc \in Checkpointing /\ cp.reason # "final"
    <3>1. run \in Runs /\ pc # "finish" /\ pc' # "clone"
      BY <1>0, <2>4 DEF Checkpointing
    <3>2. row'[run].final = row[run].final
      BY <1>0, <2>4, <3>1, RowOfRun
    <3> QED BY <1>3, <2>1, <2>4, <3>1, <3>2, RowsSettling DEF Settling
  <2>5. CASE /\ run' = run /\ (pc' = "clone" => pc = "clone")
             /\ pc = "reload" /\ row' = row /\ row[run].status = "running"
    <3>1. row[run].final = None /\ pc' # "clone"
      BY <2>5 DEF Settling, Terminal
    <3> QED BY <1>3, <2>1, <2>5, <3>1, RowsSettling DEF Settling
  <2> QED BY <1>6, <2>2, <2>3, <2>4, <2>5 DEF PlaceMoves
<1>7. ASSUME run \in Runs, Concludes PROVE row'[run].status \in Terminal /\ run' = run
  BY <1>0, <1>7 DEF Concludes, FinishRunWithEvents, Finished, Finishes, StoreTypeOK, Rows
<1>8. CASE pc' = "reload"
  <2>1. pc' \notin Checkpointing \cup Waiting
    BY <1>8 DEF Checkpointing, Waiting
  <2>2. CASE pc = "spawn"
    <3>1. row[run].status = "running" /\ row[run].final = None
      BY <2>2 DEF Whole, Stages, Outside, Prepared, Settling, Waiting
    <3> QED BY <1>3, <1>8, <2>1, <2>2, <3>1, RowsSettling DEF PlaceMoves, Settling, Waiting
  <2>3. CASE pc = "reload"
    BY <1>3, <1>8, <2>1, <2>3, RowsSettling DEF PlaceMoves, Settling, Waiting
  <2>4. CASE pc = "finish"
    BY <1>0, <1>1, <1>3, <1>7, <1>8, <2>1, <2>4, RowsSettling DEF PlaceMoves, Settling, Waiting
  <2> QED BY <1>8, <2>2, <2>3, <2>4 DEF PlaceMoves
<1>9. CASE pc' \in {"retention", "done"}
  <2>1. pc' \notin Checkpointing \cup Waiting
    BY <1>9 DEF Checkpointing, Waiting
  <2>2. run' # None => row'[run'].status \in Terminal
    BY <1>0, <1>1, <1>7, <1>9 DEF PlaceMoves, Settling
  <2> QED BY <1>3, <1>9, <2>1, <2>2, RowsSettling DEF Settling, Waiting
<1>10. CASE pc' \notin Checkpointing \cup Waiting \cup {"reload", "retention", "done"}
  BY <1>3, <1>10, RowsSettling DEF Settling, Waiting
<1> QED BY <1>5, <1>6, <1>8, <1>9, <1>10

\* The process that records a run ends it, when neither the commit of
\* a checkpoint, nor the finish, nor the reload fails: failed appends, objects and
\* start-up steps are made up for (finish_running_without_child,
\* finish_preparation_failure).
THEOREM RunSettledUnlessCommitFails ==
  ASSUME Faulty \cap {"finish", "commit", "load"} = {}
  PROVE  Spec => []RecorderSettlesItsRun
<1> DEFINE Inv == Whole /\ Settling
<1>1. Init => Inv
  <2> SUFFICES ASSUME Init PROVE Settling
    BY WholeInit
  <2>1. /\ \A r \in Runs : row[r] = EmptyRow /\ checkpoints[r] = {}
        /\ pc = "off" /\ lost = 0
    BY DEF Init, StoreInit
  <2> QED BY <2>1 DEF Settling, EmptyRow, Checkpointing, Waiting
<1>2. Inv /\ [Next]_vars => Inv'
  <2> SUFFICES ASSUME Inv, [Next]_vars PROVE Inv'
    OBVIOUS
  <2>1. Whole' /\ Effect /\ Base'
    BY WholeStep DEF Whole
  <2>2. RoutineMoves /\ PlaceMoves
    BY <2>1, PlacesStep DEF Whole
  <2> QED BY <2>1, <2>2, SettlingStep
<1>3. Inv => RecorderSettlesItsRun
  BY DEF Settling, RecorderSettlesItsRun
<1> QED BY <1>1, <1>2, <1>3, PTL DEF Spec


-----------------------------------------------------------------------------
(* A completed run is whole.                                               *)

\* Nothing failed that excludes completion: the store did not, and the capture
\* is in the event loop or on its way there.
Clean ==
  /\ fatal = "none"
  /\ mode = "supervised" \/ (mode = "prepare" /\ pc \in Early \cup Checkpointing)

\* The places after the final checkpoint.
Closing == {"exclusions", "cleanup", "finish"}

\* One more event in the log; or none, or one that is neither a signal nor the
\* start of a checkpoint.
Adds(b) == Log' = Append(Log, Stamped(b))

Quietly ==
  Log' = Log \/ \E b \in Bodies : b.kind \notin {"RunInterrupted", "CheckpointStarted"} /\ Adds(b)

\* The steps of a capture that nothing spoils: inside the checkpoint routine,
\* out of it, into it, around it, and the signal.
Carries ==
  /\ pc \in Checkpointing /\ pc' \in Checkpointing /\ UNCHANGED mode
  /\ cp'.id = cp.id /\ cp'.reason = cp.reason
  /\ Quietly \/ \E b \in Bodies : b.kind = "CheckpointStarted" /\ b.id = cp.id /\ Adds(b)

Returns ==
  /\ pc \in Checkpointing /\ pc' \notin Checkpointing /\ UNCHANGED mode
  /\ \E b \in Bodies : /\ b.kind \in {"CheckpointCommitted", "CheckpointFailed"} /\ b.id = cp.id
                       /\ Adds(b)
  /\ IF cp.reason = "final" THEN pc' = "exclusions" /\ Commits /\ final' = cp.snapshot
     ELSE pc' \in {"markRunning", "supervise"}

Begins ==
  /\ pc \notin Checkpointing /\ pc' \in Checkpointing /\ Quietly
  /\ cp'.reason = "final" => \E b \in Bodies : b.kind = "ProcessExited" /\ Adds(b)

Onward ==
  /\ pc \notin Checkpointing /\ pc' \notin Checkpointing /\ Quietly
  /\ pc' \in Closing => pc \in Closing /\ UNCHANGED <<mode, checkpoints, final>>
  /\ pc' = "done" /\ mode' = "supervised" =>
       (pc = "done" /\ UNCHANGED <<mode, row>>) \/ (pc = "finish" /\ UNCHANGED mode /\ Concludes)

Signalled ==
  /\ pc \in {"supervise", "closing"} /\ pc' = pc /\ interrupted'
  /\ \E b \in Bodies : b.kind = "RunInterrupted" /\ Adds(b)

\* And any other step, of which nothing is asked but that a signal is noted.
Spoils ==
  /\ ~Clean'
  /\ Log' = Log \/ \E b \in Bodies : (b.kind = "RunInterrupted" => interrupted') /\ Adds(b)

CleanMoves ==
  /\ interrupted => interrupted'
  /\ Clean' => Clean
  /\ Carries \/ Returns \/ Begins \/ Onward \/ Signalled \/ Spoils

\* A process group that could not be stopped is an error, what cleans up after
\* one is not supervised, and a checkpoint fails for a reason.
Flags ==
  /\ group = "stuck" => fatal # "none"
  /\ pc \in {"prepFail", "prepClean", "retention"} => mode # "supervised"
  /\ pc = "ckptFail" => cp.error # "none"

\* What sending an event does to the log.
LEMMA SendAdds ==
  ASSUME Base, run \in Runs, run' = run, NEW body \in Bodies, NEW durable, NEW ok \in BOOLEAN,
         Send(body, durable, ok)
  PROVE  Adds(body)
BY SendEffect, BaseTypes DEF Base, Sent, Log, Adds

\* And a step that sends none.
LEMMA NothingAdded ==
  ASSUME UNCHANGED <<storeVars, run, pending>>
  PROVE  Log' = Log
BY DEF storeVars, Log

\* The commit of a checkpoint is in the log.
LEMMA CommitAdds ==
  ASSUME Base, run \in Runs, Commits
  PROVE  Adds(Committed(cp)) /\ Committed(cp) \in Bodies
<1> DEFINE e == Stamped(Committed(cp))
<1>1. Committed(cp) \in Bodies /\ pending = <<>> /\ events[run] \in Seq(Events)
  BY LogType DEF Commits, Base, LocalTypes, Placed, Committed, Bodies, CheckpointIds
<1>2. e \in Events
  BY <1>1, StampedType, BaseTypes
<1>3. events'[run] = events[run] \o <<e>> /\ UNCHANGED <<run, pending>>
  BY DEF Commits, CommitCheckpointWithEvent, Appended, Base, Journal, Bookkeeping, StoreTypeOK
<1> HIDE DEF e
<1>4. events[run] \o <<e>> = Append(events[run], e) /\ Append(events[run], e) \in Seq(Events)
  BY <1>1, <1>2, AppendIsConcat
<1>5. Log' = Append(events[run], e) /\ Log = events[run]
  BY <1>1, <1>3, <1>4, ConcatEmptySeq DEF Log
<1> QED BY <1>1, <1>5 DEF Adds, e

\* The bodies of the recorder's events are bodies.
LEMMA BodiesAre ==
  ASSUME Base
  PROVE  /\ \A kind \in {"Observed", "RunStarted", "RunInterrupted", "ProcessExited", "Warning"} :
              Plain(kind) \in Bodies /\ Plain(kind).kind = kind
         /\ \A kind \in {"CheckpointStarted", "CheckpointFailed"} :
              About(kind) \in Bodies /\ About(kind).kind = kind /\ About(kind).id = cp.id
         /\ [kind |-> "MarkerCreated", id |-> next] \in Bodies
<1>1. cp.id \in CheckpointIds /\ next \in CheckpointIds
  BY DEF Base, LocalTypes, CheckpointIds
<1> QED BY <1>1 DEF Plain, About, Bodies

\* Every step keeps them.
LEMMA FlagsStep ==
  ASSUME Base, Flags, [Next]_vars
  PROVE  Flags'
<1> USE DEF Goto, Failing, captureVars, Flags
<1>1. CASE CheckpointStarts \/ LimitWarning \/ CheckpointFails \/ CheckpointCommits
  <2>1. CASE \E outcome : Return(outcome)
    <3>1. PICK outcome : Return(outcome)
      BY <2>1
    <3>2. /\ UNCHANGED <<group, mode>> /\ pc' \notin {"prepClean", "retention", "ckptFail"}
          /\ pc' = "prepFail" => cp.reason = "initial"
      BY <3>1 DEF Return
    <3>3. fatal' \in {fatal, outcome, "other"} /\ (fatal # "none" => fatal' # "none")
      BY <3>1 DEF Return
    <3>4. pc' = "prepFail" => mode = "prepare"
      BY <1>1, <3>2 DEF CheckpointStarts, LimitWarning, CheckpointFails, CheckpointCommits, Base,
                        Placed, Checkpointing
    <3> QED BY <3>2, <3>3, <3>4
  <2>2. CASE UNCHANGED captureVars /\ pc' = "ckptScan"
    BY <2>2
  <2>3. CASE UNCHANGED captureVars /\ pc' = "ckptFail" /\ cp' = [cp EXCEPT !.error = "other"]
    <3>1. cp'.error = "other"
      BY <2>3 DEF Base, LocalTypes
    <3> QED BY <2>3, <3>1
  <2> QED BY <1>1, <2>1, <2>2, <2>3 DEF CheckpointStarts, LimitWarning, CheckpointFails, CheckpointCommits
<1>2. CASE Scan
  <2>1. UNCHANGED captureVars /\ pc' \in {"ckptCommit", "ckptLimit", "ckptFail"}
    BY <1>2 DEF Scan
  <2>2. pc' = "ckptFail" => cp'.error # "none"
    BY <1>2 DEF Scan, ObjectErrors, Base, LocalTypes
  <2> QED BY <2>1, <2>2
<1>9. Clone \/ MarkRunning => Flags'
  BY DEF Clone, Begin, MarkRunning, Base, Placed, Early
<1>3. Setup \/ StartUp \/ SpawnProducers => Flags'
  BY DEF Setup, StartUp, SpawnProducers, Abort
<1>4. ChildExits \/ LeaveLoop \/ Reload \/ TerminateGroup \/ WarnExclusions \/ Cleanup => Flags'
  BY DEF ChildExits, LeaveLoop, Reload, TerminateGroup, WarnExclusions, Cleanup
<1>5. Retention \/ PreparationFails \/ RecordExit \/ NoChild \/ Finish => Flags'
  BY DEF Retention, PreparationFails, RecordExit, NoChild, Begin, Finish
<1>6. Observe \/ LimitReached \/ ObservationFails \/ Signal \/ PostRootWarning => Flags'
  BY DEF Observe, LimitReached, ObservationFails, Signal, PostRootWarning, Quiet, Handling,
         ObjectErrors
<1>7. Marker \/ Quiesce => Flags'
  BY DEF Marker, Quiesce, Begin, Handling
<1>8. Open \/ Exit \/ Crash \/ (\E r \in Runs : \E p : StartRun(r, p)) \/ Tick \/ UNCHANGED vars => Flags'
  BY DEF Open, Exit, Crash, Forget, StartRun, Tick, vars, localVars
<1> QED BY <1>1, <1>2, <1>3, <1>4, <1>5, <1>6, <1>7, <1>8, <1>9 DEF Next, Step, Arrival

\* The end of the checkpoint routine, by what it returns.
LEMMA ReturnClean ==
  ASSUME Base, Pathed, pc \in Checkpointing, NEW outcome, Return(outcome), fatal \in {"none", "store", "other"},
         outcome \in {"ok", "snapshot", "other", "store"}
  PROVE  /\ interrupted' = interrupted /\ mode' = mode /\ pc' \notin Checkpointing
         /\ Clean' => Clean
         /\ outcome \notin {"ok", "snapshot"} => ~Clean'
         /\ cp.reason # "final" => pc' \in {"markRunning", "supervise", "prepFail"}
         /\ pc' = "prepFail" => ~Clean'
         /\ cp.reason = "final" /\ outcome = "ok" => pc' = "exclusions" /\ final' = cp.snapshot
         /\ cp.reason = "final" /\ outcome = "snapshot" => ~Clean'
<1>1. /\ mode' = mode /\ interrupted' = interrupted /\ cp.reason \in Reasons
      /\ pc' = CASE cp.reason = "initial" -> IF outcome = "ok" THEN "markRunning" ELSE "prepFail"
                 [] cp.reason = "final"   -> IF outcome = "ok" THEN "exclusions" ELSE "cleanup"
                 [] OTHER                 -> "supervise"
  BY DEF Return, Goto, Base, Placed
<1>2. fatal' = IF outcome = "ok" \/ cp.reason = "initial" \/ (outcome = "snapshot" /\ cp.reason # "final")
              THEN fatal ELSE Failing(IF outcome = "snapshot" THEN "other" ELSE outcome)
  BY DEF Return
<1>3. CASE cp.reason = "initial"
  <2>1. /\ pc' = IF outcome = "ok" THEN "markRunning" ELSE "prepFail"
        /\ mode = "prepare" /\ fatal' = fatal
    BY <1>1, <1>2, <1>3 DEF Base, Placed
  <2>2. outcome # "ok" => ~Clean'
    BY <1>1, <2>1 DEF Clean, Early, Checkpointing
  <2>3. Clean' => Clean
    BY <1>1, <2>1 DEF Clean
  <2> QED BY <1>1, <1>3, <2>1, <2>2, <2>3 DEF Checkpointing
<1>4. CASE cp.reason = "final"
  <2>1. pc' = IF outcome = "ok" THEN "exclusions" ELSE "cleanup"
    BY <1>1, <1>4
  <2>2. final' = IF outcome = "ok" THEN cp.snapshot
                 ELSE IF mode \in {"nochild", "retried"} THEN row[run].initial ELSE None
    BY <1>4 DEF Return
  <2>3. fatal' = IF outcome = "ok" THEN fatal
                 ELSE Failing(IF outcome = "snapshot" THEN "other" ELSE outcome)
    BY <1>2, <1>4
  <2>4. (fatal # "none" => fatal' # "none") /\ (outcome \in {"snapshot", "other", "store"} => fatal' # "none")
    BY <2>3 DEF Failing
  <2>5. pc' \notin Early \cup Checkpointing
    BY <2>1 DEF Early, Checkpointing
  <2>6. Clean' => Clean
    BY <1>1, <2>4, <2>5 DEF Clean
  <2>7. outcome \in {"snapshot", "other", "store"} => ~Clean'
    BY <2>4 DEF Clean
  <2>8. outcome = "ok" => pc' = "exclusions" /\ final' = cp.snapshot
    BY <2>1, <2>2
  <2> QED BY <1>1, <1>4, <2>1, <2>5, <2>6, <2>7, <2>8
<1>5. CASE cp.reason \in {"manual", "quiescence"}
  <2>1. pc' = "supervise" /\ cp.reason \notin {"initial", "final"}
    BY <1>1, <1>5
  <2>2. fatal' = IF outcome \in {"ok", "snapshot"} THEN fatal ELSE Failing(outcome)
    BY <1>2, <2>1
  <2>3. (fatal # "none" => fatal' # "none") /\ (outcome \in {"other", "store"} => fatal' # "none")
    BY <2>2 DEF Failing
  <2>4. pc' \notin Early \cup Checkpointing
    BY <2>1 DEF Early, Checkpointing
  <2>5. Clean' => Clean
    BY <1>1, <2>3, <2>4 DEF Clean
  <2>6. outcome \in {"other", "store"} => ~Clean'
    BY <2>3 DEF Clean
  <2> QED BY <1>1, <2>1, <2>4, <2>5, <2>6
<1> QED BY <1>1, <1>3, <1>4, <1>5 DEF Reasons

\* The checkpoint routine's steps are such moves.
LEMMA RoutineClean ==
  ASSUME Base, Pathed, Flags, run \in Runs, run' = run,
         CheckpointStarts \/ Scan \/ LimitWarning \/ CheckpointFails \/ CheckpointCommits
  PROVE  CleanMoves
<1>0. fatal \in {"none", "store", "other"}
  BY DEF Base, LocalTypes
<1>1. CASE CheckpointStarts
  <2> DEFINE b == About("CheckpointStarted")
  <2>1. /\ b \in Bodies /\ b.kind = "CheckpointStarted" /\ b.id = cp.id /\ Adds(b)
        /\ pc = "ckptStart"
    BY <1>1, SendAdds, BodiesAre DEF CheckpointStarts
  <2> HIDE DEF b
  <2>2. CASE pc' = "ckptScan" /\ UNCHANGED <<cp, captureVars>>
    BY <2>1, <2>2 DEF CleanMoves, Carries, Checkpointing, captureVars, Clean
  <2>3. CASE Return("store")
    <3>1. interrupted' = interrupted /\ (Clean' => Clean) /\ ~Clean'
      BY <1>0, <2>1, <2>3, ReturnClean DEF Checkpointing
    <3> QED BY <2>1, <3>1 DEF CleanMoves, Spoils
  <2> QED BY <1>1, <2>2, <2>3 DEF CheckpointStarts, Goto
<1>2. CASE Scan
  <2>1. /\ pc \in Checkpointing /\ pc' \in Checkpointing /\ UNCHANGED captureVars
        /\ cp'.id = cp.id /\ cp'.reason = cp.reason
    BY <1>2 DEF Scan, Goto, Checkpointing, Base, LocalTypes
  <2>2. Log' = Log
    BY <1>2, NothingAdded DEF Scan
  <2> QED BY <2>1, <2>2 DEF CleanMoves, Carries, Quietly, captureVars, Clean
<1>3. CASE LimitWarning
  <2> DEFINE b == Plain("Warning")
  <2>1. /\ b \in Bodies /\ b.kind = "Warning" /\ Adds(b) /\ pc = "ckptLimit"
    BY <1>3, SendAdds, BodiesAre DEF LimitWarning
  <2> HIDE DEF b
  <2>2. CASE pc' = "ckptFail" /\ cp' = [cp EXCEPT !.error = "other"] /\ UNCHANGED captureVars
    <3>1. cp'.id = cp.id /\ cp'.reason = cp.reason
      BY <2>2 DEF Base, LocalTypes
    <3> QED BY <2>1, <2>2, <3>1 DEF CleanMoves, Carries, Quietly, Checkpointing, captureVars, Clean
  <2>3. CASE Return("store")
    <3>1. interrupted' = interrupted /\ (Clean' => Clean) /\ ~Clean'
      BY <1>0, <2>1, <2>3, ReturnClean DEF Checkpointing
    <3> QED BY <2>1, <3>1 DEF CleanMoves, Spoils
  <2> QED BY <1>3, <2>2, <2>3 DEF LimitWarning, Goto
<1>4. CASE CheckpointFails
  <2> DEFINE b == About("CheckpointFailed")
  <2>1. PICK ok \in BOOLEAN : Send(b, TRUE, ok) /\ Return(IF ok THEN cp.error ELSE "store")
    BY <1>4 DEF CheckpointFails
  <2>2. b \in Bodies /\ b.kind = "CheckpointFailed" /\ b.id = cp.id /\ Adds(b) /\ pc = "ckptFail"
    BY <1>4, <2>1, SendAdds, BodiesAre DEF CheckpointFails
  <2> HIDE DEF b
  <2> DEFINE outcome == IF ok THEN cp.error ELSE "store"
  <2>3. Return(outcome) /\ outcome \in {"snapshot", "other", "store"}
    BY <2>1, <2>2 DEF Base, LocalTypes, Flags
  <2> HIDE DEF outcome
  <2>4. /\ interrupted' = interrupted /\ mode' = mode /\ pc' \notin Checkpointing
        /\ Clean' => Clean
        /\ cp.reason # "final" => pc' \in {"markRunning", "supervise", "prepFail"}
        /\ pc' = "prepFail" => ~Clean'
        /\ outcome \notin {"ok", "snapshot"} => ~Clean'
        /\ cp.reason = "final" /\ outcome = "snapshot" => ~Clean'
    BY <1>0, <2>2, <2>3, ReturnClean DEF Checkpointing
  <2>5. CASE ~Clean'
    BY <2>2, <2>4, <2>5 DEF CleanMoves, Spoils
  <2>6. CASE Clean' /\ cp.reason # "final"
    BY <2>2, <2>4, <2>6 DEF CleanMoves, Returns, Checkpointing
  <2> QED BY <2>3, <2>4, <2>5, <2>6
<1>5. CASE CheckpointCommits
  <2>0. pc = "ckptCommit" /\ pc \in Checkpointing
    BY <1>5 DEF CheckpointCommits, Checkpointing
  <2>1. CASE Return("store") /\ UNCHANGED <<storeVars, pending>>
    <3>1. interrupted' = interrupted /\ (Clean' => Clean) /\ ~Clean'
      BY <1>0, <2>0, <2>1, ReturnClean
    <3>2. Log' = Log
      BY <2>1, NothingAdded
    <3> QED BY <3>1, <3>2 DEF CleanMoves, Spoils
  <2>2. CASE Return("ok") /\ Commits
    <3>1. /\ interrupted' = interrupted /\ mode' = mode /\ pc' \notin Checkpointing
          /\ Clean' => Clean
          /\ cp.reason # "final" => pc' \in {"markRunning", "supervise", "prepFail"}
          /\ pc' = "prepFail" => ~Clean'
          /\ cp.reason = "final" => pc' = "exclusions" /\ final' = cp.snapshot
      BY <1>0, <2>0, <2>2, ReturnClean
    <3>2. /\ Adds(Committed(cp)) /\ Committed(cp) \in Bodies
          /\ Committed(cp).kind = "CheckpointCommitted" /\ Committed(cp).id = cp.id
      BY <2>2, CommitAdds DEF Committed
    <3>3. CASE pc' = "prepFail"
      BY <3>1, <3>2, <3>3 DEF CleanMoves, Spoils
    <3>4. CASE pc' # "prepFail"
      BY <2>0, <2>2, <3>1, <3>2, <3>4 DEF CleanMoves, Returns
    <3> QED BY <3>3, <3>4
  <2>3. (Return("store") /\ UNCHANGED <<storeVars, pending>>) \/ (Return("ok") /\ Commits)
    BY <1>5 DEF CheckpointCommits, Commits, Return, StoreFails
  <2> QED BY <2>1, <2>2, <2>3
<1> QED BY <1>1, <1>2, <1>3, <1>4, <1>5

\* Up to the event loop.
LEMMA StartClean ==
  ASSUME Base, Pathed, Flags, run \in Runs, run' = run,
         Clone \/ MarkRunning \/ Setup \/ StartUp \/ SpawnProducers
  PROVE  CleanMoves
<1> USE DEF Goto, captureVars, Checkpointing, Early, Closing
<1>0. mode = "prepare" /\ pc \in {"clone", "markRunning", "setup", "startRun", "startInfo", "spawn"}
  BY DEF Clone, MarkRunning, Setup, StartUp, SpawnProducers, Base, Placed
<1>1. interrupted' = interrupted /\ (fatal # "none" => fatal' # "none")
  BY DEF Clone, MarkRunning, Setup, StartUp, SpawnProducers, Abort
<1>2. Clean' => Clean
  BY <1>0, <1>1 DEF Clean
<1>3. Quietly
  <2>1. CASE Clone \/ Setup \/ SpawnProducers
    BY <2>1, NothingAdded DEF Clone, Setup, SpawnProducers, Quietly
  <2>2. CASE MarkRunning
    BY <2>2 DEF MarkRunning, MarkRunRunning, StoreFails, storeVars, Log, Quietly
  <2>3. CASE StartUp
    <3>1. \E kind \in {"RunStarted", "Observed"} : \E durable, ok \in BOOLEAN : Send(Plain(kind), durable, ok)
      BY <2>3 DEF StartUp
    <3> QED BY <3>1, SendAdds, BodiesAre DEF Quietly
  <2> QED BY <2>1, <2>2, <2>3
<1>4. CASE pc' = "ckptStart"
  <2>1. cp'.reason = "initial"
    BY <1>4 DEF Clone, Begin, NoCheckpoint, MarkRunning, Setup, StartUp, SpawnProducers, Abort
  <2> QED BY <1>0, <1>1, <1>2, <1>3, <1>4, <2>1 DEF CleanMoves, Begins
<1>5. CASE pc' # "ckptStart"
  <2>1. pc' \in {"prepFail", "setup", "startRun", "nochild", "startInfo", "spawn", "supervise", "reload"}
    BY <1>5 DEF Clone, Begin, MarkRunning, Setup, StartUp, SpawnProducers, Abort
  <2> QED BY <1>0, <1>1, <1>2, <1>3, <2>1 DEF CleanMoves, Onward
<1> QED BY <1>4, <1>5

\* What arrives in the event loop.
LEMMA ArrivalClean ==
  ASSUME Base, Pathed, Flags, run \in Runs, run' = run,
         \/ Observe \/ LimitReached \/ ObservationFails \/ PostRootWarning \/ ChildExits \/ LeaveLoop
         \/ TerminateGroup \/ Marker \/ Quiesce \/ Signal
  PROVE  CleanMoves
<1> USE DEF Goto, captureVars, Checkpointing, Early, Closing, Quiet, Handling, Failing
<1>0. pc \in {"supervise", "closing"} /\ mode # "prepare" /\ mode' = mode
  BY DEF Observe, LimitReached, ObservationFails, PostRootWarning, ChildExits, LeaveLoop,
         TerminateGroup, Marker, Quiesce, Signal, Pathed
<1>1. (interrupted => interrupted') /\ (fatal # "none" => fatal' # "none")
  <2>1. Observe \/ LimitReached \/ ObservationFails \/ Marker \/ Quiesce \/ Signal => fatal = "none"
    BY DEF Observe, LimitReached, ObservationFails, Marker, Quiesce, Signal
  <2>2. Signal \/ interrupted' = interrupted
    BY DEF Observe, LimitReached, ObservationFails, PostRootWarning, ChildExits, LeaveLoop,
           TerminateGroup, Marker, Quiesce
  <2>3. PostRootWarning \/ TerminateGroup =>
          fatal' = fatal \/ \E error \in {"other", "store"} : fatal' = Failing(error)
    BY DEF PostRootWarning, TerminateGroup
  <2>4. ChildExits \/ LeaveLoop => fatal' = fatal \/ fatal' = Failing("other")
    BY DEF ChildExits, LeaveLoop
  <2>5. Signal => interrupted' = TRUE
    BY DEF Signal
  <2> QED BY <2>1, <2>2, <2>3, <2>4, <2>5
<1>2. Clean' => Clean
  BY <1>0, <1>1 DEF Clean
<1>3. CASE Observe \/ LimitReached \/ ObservationFails \/ PostRootWarning \/ ChildExits \/ LeaveLoop
           \/ TerminateGroup
  <2>1. Quietly
    <3>1. CASE ObservationFails \/ ChildExits \/ LeaveLoop \/ UNCHANGED <<storeVars, next, pending>>
      BY <3>1, NothingAdded DEF ObservationFails, ChildExits, LeaveLoop, Quietly
    <3>2. CASE \E kind \in {"Observed", "Warning"} : \E durable, ok \in BOOLEAN : Send(Plain(kind), durable, ok)
      BY <3>2, SendAdds, BodiesAre DEF Quietly
    <3> QED BY <1>3, <3>1, <3>2 DEF Observe, LimitReached, PostRootWarning, TerminateGroup
  <2>2. pc' \in {"supervise", "closing"}
    BY <1>0, <1>3 DEF Observe, LimitReached, ObservationFails, PostRootWarning, ChildExits, LeaveLoop,
                      TerminateGroup
  <2> QED BY <1>0, <1>1, <1>2, <2>1, <2>2 DEF CleanMoves, Onward
<1>4. CASE Marker \/ Quiesce
  <2>1. Quietly
    <3>1. CASE UNCHANGED <<storeVars, next, pending, fatal>> \/ Quiesce
      BY <1>4, <3>1, NothingAdded DEF Marker, Quiesce, Quietly
    <3>2. CASE \E ok \in BOOLEAN : Send([kind |-> "MarkerCreated", id |-> next], FALSE, ok)
      BY <3>2, SendAdds, BodiesAre DEF Quietly
    <3> QED BY <1>4, <3>1, <3>2 DEF Marker
  <2>2. pc' = pc \/ (pc' = "ckptStart" /\ cp'.reason \in {"manual", "quiescence"})
    BY <1>4 DEF Marker, Quiesce, Begin, NoCheckpoint
  <2>3. CASE pc' = pc
    BY <1>0, <1>1, <1>2, <2>1, <2>3 DEF CleanMoves, Onward
  <2>4. CASE pc' = "ckptStart" /\ cp'.reason \in {"manual", "quiescence"}
    BY <1>0, <1>1, <1>2, <2>1, <2>4 DEF CleanMoves, Begins
  <2> QED BY <2>2, <2>3, <2>4
<1>5. CASE Signal
  <2>1. PICK ok \in BOOLEAN : Send(Plain("RunInterrupted"), TRUE, ok)
    BY <1>5 DEF Signal
  <2>2. /\ Plain("RunInterrupted") \in Bodies /\ Adds(Plain("RunInterrupted"))
        /\ Plain("RunInterrupted").kind = "RunInterrupted"
    BY <2>1, SendAdds, BodiesAre
  <2>3. interrupted' = TRUE /\ pc' = pc
    BY <1>5 DEF Signal
  <2> QED BY <1>0, <1>1, <1>2, <2>2, <2>3 DEF CleanMoves, Signalled
<1> QED BY <1>3, <1>4, <1>5

\* The end of supervise and the ends without a child.
LEMMA EndClean ==
  ASSUME Base, Pathed, Flags, run \in Runs, run' = run,
         RecordExit \/ WarnExclusions \/ Cleanup \/ Reload \/ Retention \/ NoChild \/ PreparationFails
  PROVE  CleanMoves
<1> USE DEF Goto, captureVars, Checkpointing, Early, Closing, Failing
<1>0. pc \in {"closing", "exclusions", "cleanup", "reload", "retention", "nochild", "prepFail", "prepClean"}
  BY DEF RecordExit, WarnExclusions, Cleanup, Reload, Retention, NoChild, PreparationFails
<1>1. /\ interrupted' = interrupted /\ (fatal # "none" => fatal' # "none")
      /\ mode' = mode \/ mode' = "retried"
  BY DEF RecordExit, WarnExclusions, Cleanup, Reload, Retention, NoChild, PreparationFails
<1>2. Quietly
  <2>1. CASE UNCHANGED <<storeVars, pending>>
    BY <2>1, NothingAdded DEF Quietly
  <2>2. CASE \E kind \in {"ProcessExited", "Warning"} : \E ok \in BOOLEAN : Send(Plain(kind), FALSE, ok)
    BY <2>2, SendAdds, BodiesAre DEF Quietly
  <2> QED BY <2>1, <2>2 DEF RecordExit, WarnExclusions, Cleanup, Reload, Retention, NoChild, PreparationFails
<1>3. Log' = Log \/ \E b \in Bodies : (b.kind = "RunInterrupted" => interrupted') /\ Adds(b)
  BY <1>2 DEF Quietly
<1>4. mode # "supervised" => ~Clean'
  <2>1. CASE pc' = "ckptStart"
    BY <1>1, <2>1 DEF RecordExit, NoChild, WarnExclusions, Cleanup, Reload, Retention,
                      PreparationFails, Pathed, Clean
  <2>2. CASE pc' # "ckptStart"
    <3>1. pc' \notin {"ckptStart", "ckptScan", "ckptLimit", "ckptFail", "ckptCommit", "off", "opened",
                      "clone", "markRunning", "setup", "startRun", "startInfo", "spawn"}
      BY <2>2 DEF RecordExit, Begin, NoChild, WarnExclusions, Cleanup, Reload, Retention, PreparationFails
    <3> QED BY <1>1, <3>1 DEF Clean
  <2> QED BY <2>1, <2>2
<1>5. Clean' => Clean
  BY <1>1, <1>4 DEF Clean
<1>6. CASE ~Clean'
  BY <1>1, <1>3, <1>5, <1>6 DEF CleanMoves, Spoils
<1>7. CASE Clean'
  <2>1. mode = "supervised" /\ mode' = "supervised" /\ fatal = "none" /\ fatal' = "none"
    BY <1>1, <1>4, <1>7 DEF Clean
  <2>2. RecordExit \/ WarnExclusions \/ Cleanup
    BY <2>1 DEF Reload, Retention, NoChild, PreparationFails, Flags, Pathed
  <2>3. CASE RecordExit
    <3>1. pc = "closing" /\ group # "stuck"
      BY <2>1, <2>3 DEF RecordExit, Flags
    <3>2. pc' = "ckptStart"
      BY <2>1, <2>3, <3>1 DEF RecordExit, Begin
    <3>3. PICK ok \in BOOLEAN : Send(Plain("ProcessExited"), FALSE, ok)
      BY <2>1, <2>3 DEF RecordExit
    <3>4. /\ Plain("ProcessExited") \in Bodies /\ Adds(Plain("ProcessExited"))
          /\ Plain("ProcessExited").kind = "ProcessExited"
      BY <3>3, SendAdds, BodiesAre
    <3> QED BY <1>1, <1>2, <1>5, <3>1, <3>2, <3>4 DEF CleanMoves, Begins
  <2>4. CASE WarnExclusions \/ Cleanup
    <3>1. pc \in {"exclusions", "cleanup"} /\ pc' \in {"cleanup", "finish"} /\ final' = final
      BY <2>4 DEF WarnExclusions, Cleanup
    <3>2. checkpoints' = checkpoints
      BY <2>4, SendPlaces DEF WarnExclusions, Cleanup, storeVars
    <3> QED BY <1>1, <1>2, <1>5, <2>1, <3>1, <3>2 DEF CleanMoves, Onward
  <2> QED BY <2>2, <2>3, <2>4
<1> QED BY <1>6, <1>7

\* The finish.
LEMMA FinishClean ==
  ASSUME Base, Pathed, Flags, run \in Runs, run' = run, Finish
  PROVE  CleanMoves
<1> USE DEF Goto, captureVars, Checkpointing, Early, Closing, Failing
<1> DEFINE b == Completion(Outcome)
<1>0. /\ pc = "finish" /\ UNCHANGED <<mode, interrupted, final>>
      /\ pc' \in {"reload", "retention", "done"} /\ (fatal # "none" => fatal' # "none")
  BY DEF Finish
<1>1. Outcome \in Finishes
  BY <1>0, OutcomeType
<1>2. b \in Bodies /\ b.kind = "RunCompleted"
  BY <1>1 DEF Completion, Finishes, Bodies
<1>3. Adds(b)
  <2>1. CASE Concludes
    BY <2>1, ConcludesLog DEF Adds
  <2>2. CASE Refuses
    BY <2>2 DEF Refuses, Sent, Log, Adds
  <2> QED BY <2>1, <2>2, FinishBase
<1> HIDE DEF b
<1>4. Clean' => Clean
  BY <1>0 DEF Clean
<1>5. CASE ~Clean'
  BY <1>0, <1>2, <1>3, <1>4, <1>5 DEF CleanMoves, Spoils
<1>6. CASE Clean'
  <2>1. fatal' = "none" /\ mode = "supervised"
    BY <1>0, <1>6 DEF Clean
  <2>2. Concludes
    BY <1>0, <1>1, <2>1 DEF Finish, Concludes
  <2> QED BY <1>0, <1>2, <1>3, <1>4, <2>2 DEF CleanMoves, Onward, Quietly
<1> QED BY <1>5, <1>6

\* So is every step of a process that goes on recording its run.
LEMMA CleanMovesStep ==
  ASSUME Base, Pathed, Flags, [Next]_vars, run \in Runs, run' = run
  PROVE  CleanMoves
<1>1. CASE Tick \/ UNCHANGED vars
  <2>1. UNCHANGED <<storeVars, pc, run, pending, cp, captureVars>>
    BY <1>1 DEF Tick, vars, localVars
  <2>2. Log' = Log /\ (interrupted => interrupted') /\ (Clean' => Clean)
    BY <2>1, NothingAdded DEF captureVars, Clean
  <2>3. CASE pc \in Checkpointing
    BY <2>1, <2>2, <2>3 DEF CleanMoves, Carries, Quietly, captureVars
  <2>4. CASE pc \notin Checkpointing
    BY <2>1, <2>2, <2>4 DEF CleanMoves, Onward, Quietly, captureVars, storeVars
  <2> QED BY <2>3, <2>4
<1>2. ~ (Open \/ Exit \/ Crash \/ \E r \in Runs : \E p : StartRun(r, p))
  BY RecorderConstants DEF Open, Exit, Crash, Forget, StartRun, Base, Placed
<1> QED
  BY <1>1, <1>2, RoutineClean, StartClean, ArrivalClean, EndClean, FinishClean DEF Next, Step, Arrival

\* The identities of the checkpoints of a timeline that started and did not end.
Loose(s) ==
  {s[i].body.id : i \in {i \in StartsOf(s) :
                           \A k \in EndsOf(s) : ~ (i < k /\ s[k].body.id = s[i].body.id)}}

HasExit(s) == \E x \in 1..Len(s) : s[x].body.kind = "ProcessExited"

\* The last checkpoint is a final one of this snapshot, taken after the exit.
Covers(cs, snapshot, s) ==
  \E c \in cs :
    /\ c.reason = "final" /\ c.snapshot = snapshot
    /\ \A d \in cs : d.seq <= c.seq
    /\ \E x \in 1..Len(s) : x < c.seq /\ s[x].body.kind = "ProcessExited"

\* An event makes a checkpoint loose by starting it only, and ties up the one
\* it ends.
LEMMA LooseAppend ==
  ASSUME NEW s \in Seq(Events), NEW e \in Events
  PROVE  /\ \A id \in Loose(Append(s, e)) :
              id \in Loose(s) \/ (e.body.kind = "CheckpointStarted" /\ id = e.body.id)
         /\ e.body.kind \in {"CheckpointCommitted", "CheckpointFailed"} =>
              e.body.id \notin Loose(Append(s, e))
<1> DEFINE u == Append(s, e)
           n == Len(s)
<1>1. /\ u[n + 1] = e /\ n \in Nat
      /\ \A i \in 1..n : /\ u[i] = s[i]
                         /\ i \in StartsOf(u) <=> i \in StartsOf(s)
                         /\ i \in EndsOf(u) <=> i \in EndsOf(s)
      /\ \A i \in StartsOf(u) \cup EndsOf(u) : i \in 1..n \/ i = n + 1
      /\ StartsOf(s) \subseteq 1..n /\ EndsOf(s) \subseteq 1..n
      /\ n + 1 \in StartsOf(u) <=> e.body.kind = "CheckpointStarted"
      /\ n + 1 \in EndsOf(u) <=> e.body.kind \in {"CheckpointCommitted", "CheckpointFailed"}
  BY BracketsAppend
<1> HIDE DEF u, n
<1>2. ASSUME NEW id \in Loose(u)
      PROVE  id \in Loose(s) \/ (e.body.kind = "CheckpointStarted" /\ id = e.body.id)
  <2>1. PICK i \in StartsOf(u) : /\ id = u[i].body.id
                                /\ \A k \in EndsOf(u) : ~ (i < k /\ u[k].body.id = u[i].body.id)
    BY <1>2 DEF Loose
  <2>2. CASE i = n + 1
    BY <1>1, <2>1, <2>2
  <2>3. CASE i \in 1..n
    <3>1. i \in StartsOf(s) /\ id = s[i].body.id
      BY <1>1, <2>1, <2>3
    <3>2. \A k \in EndsOf(s) : ~ (i < k /\ s[k].body.id = s[i].body.id)
      BY <1>1, <2>1, <2>3
    <3> QED BY <3>1, <3>2 DEF Loose
  <2> QED BY <1>1, <2>1, <2>2, <2>3
<1>3. ASSUME e.body.kind \in {"CheckpointCommitted", "CheckpointFailed"}, e.body.id \in Loose(u)
      PROVE  FALSE
  <2>1. PICK i \in StartsOf(u) : /\ e.body.id = u[i].body.id
                                /\ \A k \in EndsOf(u) : ~ (i < k /\ u[k].body.id = u[i].body.id)
    BY <1>3 DEF Loose
  <2>2. n + 1 \in EndsOf(u) /\ n + 1 \notin StartsOf(u)
    BY <1>1, <1>3
  <2>3. i < n + 1
    BY <1>1, <2>1, <2>2
  <2> QED BY <1>1, <2>1, <2>2, <2>3
<1> QED BY <1>2, <1>3 DEF u

\* What one more event leaves of the rest: an exit, a covering checkpoint, and
\* no interruption but its own.
LEMMA CoversAppend ==
  ASSUME NEW s \in Seq(Events), NEW e \in Events
  PROVE  /\ HasExit(s) \/ e.body.kind = "ProcessExited" => HasExit(Append(s, e))
         /\ \A cs, snapshot : Covers(cs, snapshot, s) => Covers(cs, snapshot, Append(s, e))
         /\ SaysInterrupted(Append(s, e)) => SaysInterrupted(s) \/ e.body.kind = "RunInterrupted"
<1> DEFINE u == Append(s, e)
           n == Len(s)
<1>1. /\ Len(u) = n + 1 /\ n \in Nat /\ u[n + 1] = e
      /\ \A i \in 1..n : u[i] = s[i] /\ i \in 1..Len(u)
      /\ n + 1 \in 1..Len(u)
      /\ \A i \in 1..Len(u) : i \in 1..n \/ i = n + 1
  OBVIOUS
<1> HIDE DEF u
<1>2. HasExit(s) \/ e.body.kind = "ProcessExited" => HasExit(u)
  BY <1>1 DEF HasExit
<1>3. \A cs, snapshot : Covers(cs, snapshot, s) => Covers(cs, snapshot, u)
  BY <1>1 DEF Covers
<1>4. SaysInterrupted(u) => SaysInterrupted(s) \/ e.body.kind = "RunInterrupted"
  BY <1>1 DEF SaysInterrupted
<1> QED BY <1>2, <1>3, <1>4 DEF u

\* What the log of a capture says as long as nothing spoils it.
SoundLog ==
  /\ run \in Runs /\ ~interrupted => ~SaysInterrupted(Log)
  /\ run \in Runs /\ Clean =>
       /\ \A id \in Loose(Log) : pc \in Checkpointing /\ id = cp.id
       /\ pc \in Checkpointing /\ cp.reason = "final" => HasExit(Log)
       /\ pc \in Closing => Covers(checkpoints[run], final, Log)
       /\ pc = "done" => row[run].status \in Terminal /\ row[run].final # None

\* And a run that has completed keeps.
SoundRow(r) ==
  row[r].status = "completed" =>
    /\ row[r].exit = "success"
    /\ ~SaysInterrupted(events[r]) /\ Loose(events[r]) = {}
    /\ Covers(checkpoints[r], row[r].final, events[r])

Sound ==
  /\ Flags /\ SoundLog
  /\ run = None => mode = "prepare"
  /\ \A r \in Runs : SoundRow(r)

\* An addition to the log.
LEMMA AddsTo ==
  ASSUME Base, run \in Runs, NEW b \in Bodies, Adds(b)
  PROVE  /\ \A id \in Loose(Log') :
              id \in Loose(Log) \/ (b.kind = "CheckpointStarted" /\ id = b.id)
         /\ b.kind \in {"CheckpointCommitted", "CheckpointFailed"} => b.id \notin Loose(Log')
         /\ HasExit(Log) \/ b.kind = "ProcessExited" => HasExit(Log')
         /\ \A cs, snapshot : Covers(cs, snapshot, Log) => Covers(cs, snapshot, Log')
         /\ SaysInterrupted(Log') => SaysInterrupted(Log) \/ b.kind = "RunInterrupted"
<1> DEFINE e == Stamped(b)
<1>1. e \in Events /\ e.body = b /\ Log \in Seq(Events) /\ Log' = Append(Log, e)
  BY StampedType, BaseTypes, LogType DEF Stamped, Adds
<1> HIDE DEF e
<1> QED BY <1>1, LooseAppend, CoversAppend

\* A quiet step leaves what the log says.
LEMMA QuietlyTo ==
  ASSUME Base, run \in Runs, Quietly
  PROVE  /\ \A id \in Loose(Log') : id \in Loose(Log)
         /\ HasExit(Log) => HasExit(Log')
         /\ \A cs, snapshot : Covers(cs, snapshot, Log) => Covers(cs, snapshot, Log')
         /\ SaysInterrupted(Log') => SaysInterrupted(Log)
<1>1. CASE Log' = Log
  BY <1>1
<1>2. ASSUME NEW b \in Bodies, b.kind \notin {"RunInterrupted", "CheckpointStarted"}, Adds(b)
      PROVE  /\ \A id \in Loose(Log') : id \in Loose(Log)
             /\ HasExit(Log) => HasExit(Log')
             /\ \A cs, snapshot : Covers(cs, snapshot, Log) => Covers(cs, snapshot, Log')
             /\ SaysInterrupted(Log') => SaysInterrupted(Log)
  BY <1>2, AddsTo
<1> QED BY <1>1, <1>2 DEF Quietly

\* The commit of the final checkpoint covers the run.
LEMMA CommitCovers ==
  ASSUME Whole, run \in Runs, Commits, cp.reason = "final", HasExit(Log)
  PROVE  Covers(checkpoints'[run], cp.snapshot, Log)
<1> DEFINE c == [seq |-> next, id |-> cp.id, reason |-> cp.reason, snapshot |-> cp.snapshot]
<1>1. /\ checkpoints'[run] = checkpoints[run] \cup {c}
      /\ c.seq = next /\ c.reason = "final" /\ c.snapshot = cp.snapshot
  BY DEF Commits, CommitCheckpointWithEvent, CheckpointStored, Whole, Base, Journal, Bookkeeping, StoreTypeOK
<1> HIDE DEF c
<1>2. next = Len(Log) + lost + 1 /\ lost \in Nat /\ next \in Nat
  BY RecorderConstants DEF Whole, Ledger, Base, LocalTypes
<1>3. Len(Log) = Len(events[run]) + Len(pending) /\ Len(events[run]) \in Nat /\ Len(pending) \in Nat
  BY LogType DEF Whole
<1>4. \A d \in checkpoints[run] : d.seq \in 1..Len(events[run])
  BY DEF Whole, Base, Journal, Bookkeeping, CheckpointsJournalled
<1>5. \A d \in checkpoints'[run] : d.seq <= c.seq
  BY <1>1, <1>2, <1>3, <1>4
<1>6. PICK x \in 1..Len(Log) : Log[x].body.kind = "ProcessExited"
  BY DEF HasExit
<1>7. x < c.seq
  BY <1>1, <1>2, <1>3, <1>6
<1> QED BY <1>1, <1>5, <1>6, <1>7 DEF Covers

\* Every step of a process that goes on recording its run keeps the log sound.
LEMMA SoundLogStep ==
  ASSUME Whole, Base', Sound, CleanMoves, run \in Runs, run' = run
  PROVE  SoundLog'
<1>0. Base /\ SoundLog /\ interrupted \in BOOLEAN /\ interrupted' \in BOOLEAN
  BY DEF Whole, Sound, Base, LocalTypes
<1>1. ~interrupted' => ~SaysInterrupted(Log')
  <2> SUFFICES ASSUME ~interrupted', SaysInterrupted(Log') PROVE FALSE
    OBVIOUS
  <2>1. ~interrupted /\ ~SaysInterrupted(Log)
    BY <1>0 DEF CleanMoves, SoundLog
  <2>2. ~ Quietly
    BY <1>0, <2>1, QuietlyTo
  <2>3. \A b \in Bodies : Adds(b) => b.kind = "RunInterrupted"
    BY <1>0, <2>1, AddsTo
  <2>4. ~ Carries /\ ~ Returns /\ ~ Begins /\ ~ Onward
    BY <2>2, <2>3 DEF Carries, Returns, Begins, Onward
  <2>5. ~ Signalled /\ ~ Spoils
    BY <2>1, <2>3 DEF Signalled, Spoils
  <2> QED BY <2>4, <2>5 DEF CleanMoves
<1>2. ASSUME Clean'
      PROVE  /\ \A id \in Loose(Log') : pc' \in Checkpointing /\ id = cp'.id
             /\ pc' \in Checkpointing /\ cp'.reason = "final" => HasExit(Log')
             /\ pc' \in Closing => Covers(checkpoints'[run], final', Log')
             /\ pc' = "done" => row'[run].status \in Terminal /\ row'[run].final # None
  <2>0. Clean /\ (Carries \/ Returns \/ Begins \/ Onward \/ Signalled)
    BY <1>2 DEF CleanMoves, Spoils
  <2>1. /\ \A id \in Loose(Log) : pc \in Checkpointing /\ id = cp.id
        /\ pc \in Checkpointing /\ cp.reason = "final" => HasExit(Log)
        /\ pc \in Closing => Covers(checkpoints[run], final, Log)
        /\ pc = "done" => row[run].status \in Terminal /\ row[run].final # None
    BY <1>0, <2>0 DEF SoundLog
  <2>2. CASE Carries
    <3>1. (\A id \in Loose(Log') : id = cp.id) /\ (HasExit(Log) => HasExit(Log'))
      <4>1. CASE Quietly
        BY <1>0, <2>1, <4>1, QuietlyTo
      <4>2. CASE \E b \in Bodies : b.kind = "CheckpointStarted" /\ b.id = cp.id /\ Adds(b)
        BY <1>0, <2>1, <4>2, AddsTo
      <4> QED BY <2>2, <4>1, <4>2 DEF Carries
    <3>2. pc \in Checkpointing /\ pc' \in Checkpointing /\ cp'.id = cp.id /\ cp'.reason = cp.reason
      BY <2>2 DEF Carries
    <3>3. pc' \notin Closing \cup {"done"}
      BY <3>2 DEF Checkpointing, Closing
    <3> QED BY <2>1, <3>1, <3>2, <3>3
  <2>3. CASE Returns
    <3>1. PICK b \in Bodies : /\ b.kind \in {"CheckpointCommitted", "CheckpointFailed"}
                              /\ b.id = cp.id /\ Adds(b)
      BY <2>3 DEF Returns
    <3>2. \A id \in Loose(Log') : FALSE
      BY <1>0, <2>1, <3>1, AddsTo
    <3>3. CASE cp.reason = "final"
      <4>1. pc \in Checkpointing /\ pc' = "exclusions" /\ Commits /\ final' = cp.snapshot
        BY <2>3, <3>3 DEF Returns
      <4>2. Covers(checkpoints'[run], final', Log)
        BY <2>1, <3>3, <4>1, CommitCovers
      <4>3. Covers(checkpoints'[run], final', Log')
        BY <1>0, <3>1, <4>2, AddsTo
      <4> QED BY <3>2, <4>1, <4>3 DEF Checkpointing
    <3>4. CASE cp.reason # "final"
      <4>1. pc' \in {"markRunning", "supervise"}
        BY <2>3, <3>4 DEF Returns
      <4> QED BY <3>2, <4>1 DEF Checkpointing, Closing
    <3> QED BY <3>3, <3>4
  <2>4. CASE Begins
    <3>1. pc \notin Checkpointing /\ pc' \in Checkpointing /\ pc' \notin Closing \cup {"done"}
      BY <2>4 DEF Begins, Checkpointing, Closing
    <3>2. \A id \in Loose(Log') : FALSE
      BY <1>0, <2>1, <2>4, <3>1, QuietlyTo DEF Begins
    <3>3. cp'.reason = "final" => HasExit(Log')
      BY <1>0, <2>4, AddsTo DEF Begins
    <3> QED BY <3>1, <3>2, <3>3
  <2>5. CASE Onward
    <3>1. pc \notin Checkpointing /\ pc' \notin Checkpointing /\ Quietly
      BY <2>5 DEF Onward
    <3>2. \A id \in Loose(Log') : FALSE
      BY <1>0, <2>1, <3>1, QuietlyTo
    <3>3. pc' \in Closing => Covers(checkpoints'[run], final', Log')
      <4> SUFFICES ASSUME pc' \in Closing PROVE Covers(checkpoints'[run], final', Log')
        OBVIOUS
      <4>1. pc \in Closing /\ checkpoints' = checkpoints /\ final' = final
        BY <2>5 DEF Onward
      <4> QED BY <1>0, <2>1, <3>1, <4>1, QuietlyTo
    <3>4. pc' = "done" => row'[run].status \in Terminal /\ row'[run].final # None
      <4> SUFFICES ASSUME pc' = "done" PROVE row'[run].status \in Terminal /\ row'[run].final # None
        OBVIOUS
      <4>1. mode' = "supervised"
        BY <1>2 DEF Clean, Early, Checkpointing
      <4>2. CASE pc = "done" /\ row' = row
        BY <2>1, <4>2
      <4>3. CASE pc = "finish" /\ Concludes
        <5>1. Covers(checkpoints[run], final, Log)
          BY <2>1, <4>3 DEF Closing
        <5>2. final # None
          BY <1>0, <5>1, NoneIsAbsent
          DEF Covers, Base, Journal, Bookkeeping, StoreTypeOK, Checkpoints
        <5>3. row'[run].status = Outcome.status /\ row'[run].final = Outcome.final
          BY <1>0, <4>3 DEF Concludes, FinishRunWithEvents, Finished, Base, Journal, Bookkeeping, StoreTypeOK, Rows
        <5>4. Outcome.status \in Terminal /\ Outcome.final = final
          BY <4>3 DEF Concludes, Finishes, Outcome
        <5> QED BY <5>2, <5>3, <5>4
      <4> QED BY <2>5, <4>1, <4>2, <4>3 DEF Onward
    <3> QED BY <3>1, <3>2, <3>3, <3>4
  <2>6. CASE Signalled
    <3>1. PICK b \in Bodies : b.kind = "RunInterrupted" /\ Adds(b)
      BY <2>6 DEF Signalled
    <3>2. pc' = pc /\ pc \notin Checkpointing \cup Closing \cup {"done"}
      BY <2>6 DEF Signalled, Checkpointing, Closing
    <3>3. \A id \in Loose(Log') : FALSE
      BY <1>0, <2>1, <3>1, <3>2, AddsTo
    <3> QED BY <3>2, <3>3
  <2> QED BY <2>0, <2>2, <2>3, <2>4, <2>5, <2>6
<1> QED BY <1>1, <1>2 DEF SoundLog

\* A process that begins another run, or leaves its own, has a sound log too.
LEMMA OtherLogStep ==
  ASSUME Whole, Effect, Base', Sound, RoutineMoves, PlaceMoves, StageMoves \/ UNCHANGED run,
         run' # run \/ run \notin Runs
  PROVE  SoundLog'
<1>0. /\ run \in Runs \cup {None} /\ None \notin Runs /\ Base /\ Ledger /\ StoreTypeOK
  BY RecorderConstants DEF Whole, Base, LocalTypes, Journal, Bookkeeping
<1>1. CASE run' \notin Runs
  BY <1>1 DEF SoundLog
<1>2. CASE run' \in Runs
  <2>1. run' # run
    BY <1>2
  <2>2. Creates
    BY <1>0, <1>2, <2>1, SendsSent
    DEF Effect, Rests, Loses, Opens, Closes, Forget, Commits, Concludes, Starting
  <2>3. PICK r \in Runs : /\ run' = r /\ row[r].status = "absent" /\ events' = events
                          /\ pc = "opened" /\ pending' = pending
    BY <2>2 DEF Creates, CreateRun
  <2>4. run = None /\ pending = <<>> /\ events[r] = <<>>
    BY <1>0, <2>3 DEF Base, Placed, Ledger
  <2>5. Log' = <<>>
    <3>1. events'[run'] = <<>> /\ pending' = <<>>
      BY <2>3, <2>4
    <3> QED BY <3>1 DEF Log
  <2>6. ~SaysInterrupted(<<>>) /\ \A id \in Loose(<<>>) : FALSE
    BY DEF SaysInterrupted, Loose, StartsOf
  <2>7. pc' \notin Checkpointing \cup Closing \cup {"done"}
    <3>1. pc' \notin Checkpointing
      BY <2>1 DEF RoutineMoves
    <3>2. pc' # "done"
      BY <1>0, <1>2, <2>1 DEF PlaceMoves
    <3>3. pc' \notin Closing
      BY <2>1 DEF StageMoves, Outside, Closing
    <3> QED BY <3>1, <3>2, <3>3
  <2> QED BY <2>5, <2>6, <2>7 DEF SoundLog
<1> QED BY <1>1, <1>2

\* A completed run is not touched again.
LEMMA RowFrozen ==
  ASSUME Base, Effect, NEW r \in Runs, row'[r].status = "completed", ~ (r = run /\ Concludes)
  PROVE  row'[r] = row[r] /\ events'[r] = events[r] /\ checkpoints'[r] = checkpoints[r]
<1>0. StoreTypeOK
  BY DEF Base, Journal, Bookkeeping
<1>1. CASE Rests \/ Loses \/ Closes
  BY <1>1 DEF Rests, Loses, Closes, CloseStore, storeVars
<1>2. CASE Opens
  <2>1. /\ events' = events /\ checkpoints' = checkpoints
        /\ row'[r] = IF row[r].status \in Active
                     THEN [row[r] EXCEPT !.status = "interrupted", !.duration = LastOffset(r)]
                     ELSE row[r]
    BY <1>2 DEF Opens, OpenStore, Recover
  <2>2. row[r] \in Rows
    BY <1>0 DEF StoreTypeOK
  <2> QED BY <2>1, <2>2 DEF Rows
<1>3. CASE Creates
  <2>1. PICK q \in Runs : /\ row' = [row EXCEPT ![q].status = "preparing"]
                          /\ events' = events /\ checkpoints' = checkpoints
    BY <1>3 DEF Creates, CreateRun
  <2> QED BY <1>0, <2>1 DEF StoreTypeOK, Rows
<1>4. CASE run \in Runs /\ Starting
  <2>1. /\ row' = [row EXCEPT ![run].status = "running", ![run].initial = row[run].initial]
        /\ events' = events /\ checkpoints' = checkpoints
    BY <1>4 DEF Starting, MarkRunRunning
  <2> QED BY <1>0, <1>4, <2>1 DEF StoreTypeOK, Rows
<1>5. CASE run \in Runs /\ Sends
  <2>1. /\ row' = row /\ checkpoints' = checkpoints
        /\ \A q \in Runs \ {run} : events'[q] = events[q]
        /\ row[run].status \notin Active => events' = events
    BY <1>5, SendsSent DEF Sent
  <2> QED BY <2>1 DEF Active
<1>6. CASE run \in Runs /\ Commits
  <2> DEFINE c == [seq |-> next, id |-> cp.id, reason |-> cp.reason, snapshot |-> cp.snapshot]
  <2>1. /\ CheckpointStored(run, c) /\ Appended(run, <<Stamped(Committed(cp))>>)
        /\ row[run].status \in Active
    BY <1>6 DEF Commits, CommitCheckpointWithEvent, CanAppend
  <2> HIDE DEF c
  <2>2. /\ row'[run].status = row[run].status
        /\ \A q \in Runs \ {run} : /\ row'[q] = row[q] /\ events'[q] = events[q]
                                   /\ checkpoints'[q] = checkpoints[q]
    BY <1>0, <1>6, <2>1 DEF CheckpointStored, Appended, StoreTypeOK, Rows
  <2> QED BY <2>1, <2>2 DEF Active
<1>7. CASE run \in Runs /\ Concludes
  BY <1>0, <1>7 DEF Concludes, FinishRunWithEvents, Finished, Appended, StoreTypeOK
<1> QED BY <1>1, <1>2, <1>3, <1>4, <1>5, <1>6, <1>7 DEF Effect

\* The run that completes is sound.
LEMMA CompletionSound ==
  ASSUME Whole, Sound, NEW r \in Runs, r = run, Concludes, row'[r].status = "completed"
  PROVE  SoundRow(r)'
<1> DEFINE b == Completion(Outcome)
<1>0. Base /\ StoreTypeOK /\ pc = "finish" /\ run' = run /\ pending' = <<>> /\ checkpoints' = checkpoints
  BY DEF Whole, Base, Journal, Bookkeeping, Concludes, FinishRunWithEvents
<1>1. /\ row'[run].status = FinalStatus /\ row'[run].final = final
      /\ row'[run].exit = IF mode = "supervised" THEN child ELSE None
  BY <1>0 DEF Concludes, FinishRunWithEvents, Finished, Outcome, StoreTypeOK, Rows
<1>2. mode = "supervised" /\ ~interrupted /\ fatal = "none" /\ child = "success"
  BY <1>1 DEF FinalStatus
<1>3. /\ ~SaysInterrupted(Log) /\ (\A id \in Loose(Log) : FALSE)
      /\ Covers(checkpoints[run], final, Log)
  <2>1. Clean /\ pc \in Closing /\ pc \notin Checkpointing
    BY <1>0, <1>2 DEF Clean, Closing, Checkpointing
  <2> QED BY <1>2, <2>1 DEF Sound, SoundLog
<1>4. b \in Bodies /\ b.kind = "RunCompleted" /\ Adds(b)
  BY <1>0, ConcludesLog DEF Adds, Concludes, Completion, Finishes, Bodies
<1> HIDE DEF b
<1>5. /\ ~SaysInterrupted(Log') /\ (\A id \in Loose(Log') : FALSE)
      /\ Covers(checkpoints[run], final, Log')
  BY <1>0, <1>3, <1>4, AddsTo
<1>6. Log' = events'[run]
  <2>1. Whole /\ run \in Runs /\ Log' = Append(Log, Stamped(b)) /\ Log \in Seq(Events) /\ Stamped(b) \in Events
    BY <1>0, <1>4, LogType, StampedType, BaseTypes DEF Adds
  <2>2. events'[run] = events[run] \o Append(pending, Stamped(b))
    BY <1>0 DEF Concludes, FinishRunWithEvents, Appended, StoreTypeOK, b
  <2>3. events'[run] = Append(Log, Stamped(b))
    <3> DEFINE e == Stamped(b)
    <3>1. e \in Events /\ events[run] \in Seq(Events) /\ pending \in Seq(Events)
      BY <1>0, <2>1, LogType
    <3> HIDE DEF e
    <3>2. events[run] \o Append(pending, e) = Append(events[run] \o pending, e)
      BY <3>1, AppendLast
    <3> QED BY <2>2, <3>2 DEF e, Log
  <2> QED BY <2>1, <2>3
<1>7. Loose(events'[run]) = {}
  BY <1>5, <1>6
<1>8. row'[run].exit = "success" /\ ~SaysInterrupted(events'[run])
  BY <1>1, <1>2, <1>5, <1>6
<1>9. Covers(checkpoints'[run], row'[run].final, events'[run])
  BY <1>0, <1>1, <1>5, <1>6
<1> QED BY <1>0, <1>7, <1>8, <1>9 DEF SoundRow

\* A process without a run prepares.
LEMMA IdleStep ==
  ASSUME Base, Effect, [Next]_vars, run = None => mode = "prepare", run' = None
  PROVE  mode' = "prepare"
<1>0. None \notin Runs
  BY RecorderConstants
<1>1. CASE Closes
  BY <1>1 DEF Closes, Forget
<1>2. CASE ~ Closes
  <2>1. run = None
    BY <1>0, <1>2, SendsSent
    DEF Effect, Rests, Loses, Opens, Creates, Commits, Concludes, Starting, Base, LocalTypes
  <2>2. pc \in {"off", "opened", "done"} /\ mode = "prepare"
    BY <2>1 DEF Base, Placed
  <2>3. Open \/ Exit \/ Crash \/ (\E r \in Runs : \E p : StartRun(r, p)) \/ Tick \/ UNCHANGED vars
    <3>1. ~ (CheckpointStarts \/ Scan \/ LimitWarning \/ CheckpointFails \/ CheckpointCommits)
      BY <2>2 DEF CheckpointStarts, Scan, LimitWarning, CheckpointFails, CheckpointCommits
    <3>2. ~ (Clone \/ MarkRunning \/ Setup \/ StartUp \/ SpawnProducers \/ ChildExits \/ LeaveLoop)
      BY <2>2 DEF Clone, MarkRunning, Setup, StartUp, SpawnProducers, ChildExits, LeaveLoop
    <3>3. ~ (Reload \/ TerminateGroup \/ WarnExclusions \/ Cleanup \/ Retention \/ PreparationFails)
      BY <2>2 DEF Reload, TerminateGroup, WarnExclusions, Cleanup, Retention, PreparationFails
    <3>4. ~ (RecordExit \/ NoChild \/ Finish \/ Marker \/ Quiesce)
      BY <2>2 DEF RecordExit, NoChild, Finish, Marker, Quiesce, Handling
    <3>5. ~ (Observe \/ LimitReached \/ ObservationFails \/ Signal \/ PostRootWarning)
      BY <2>2 DEF Observe, LimitReached, ObservationFails, Signal, PostRootWarning, Handling
    <3> QED BY <3>1, <3>2, <3>3, <3>4, <3>5 DEF Next, Step, Arrival
  <2> QED
    BY <2>2, <2>3 DEF Open, Exit, Crash, Forget, StartRun, Tick, vars, localVars, captureVars
<1> QED BY <1>1, <1>2

\* A completed run is whole (supervise's finalisation, Recorder::finish): success,
\* no interruption, every checkpoint it started ended, and a final scan after the
\* exit that gave its snapshot; and a capture that reports no error has a terminal
\* run with a final snapshot.  Whatever fails, and wherever it crashes.
THEOREM CompletedRunsWhole == Spec => []CompletedRunsAreWhole
<1> DEFINE Inv == Whole /\ Sound
<1>1. Init => Inv
  <2> SUFFICES ASSUME Init PROVE Sound
    BY WholeInit
  <2>1. /\ run = None /\ mode = "prepare" /\ pc = "off" /\ group = "unknown"
        /\ \A r \in Runs : row[r] = EmptyRow
    BY DEF Init, StoreInit
  <2> QED BY <2>1, RecorderConstants DEF Sound, Flags, SoundLog, SoundRow, EmptyRow
<1>2. Inv /\ [Next]_vars => Inv'
  <2> SUFFICES ASSUME Inv, [Next]_vars PROVE Inv'
    OBVIOUS
  <2>1. Whole' /\ Effect /\ Base /\ Base' /\ Pathed
    BY WholeStep DEF Whole
  <2>2. Flags'
    BY <2>1, FlagsStep DEF Sound
  <2>3. SoundLog'
    <3>1. CASE run \in Runs /\ run' = run
      <4>1. CleanMoves
        BY <2>1, <3>1, CleanMovesStep DEF Sound
      <4> QED BY <2>1, <3>1, <4>1, SoundLogStep
    <3>2. CASE run' # run \/ run \notin Runs
      <4>1. RoutineMoves /\ PlaceMoves /\ (StageMoves \/ UNCHANGED run)
        BY <2>1, PlacesStep, StageMovesStep
      <4> QED BY <2>1, <3>2, <4>1, OtherLogStep
    <3> QED BY <3>1, <3>2
  <2>4. run' = None => mode' = "prepare"
    BY <2>1, IdleStep DEF Sound
  <2>5. ASSUME NEW r \in Runs PROVE SoundRow(r)'
    <3>1. CASE row'[r].status # "completed"
      BY <3>1 DEF SoundRow
    <3>2. CASE row'[r].status = "completed" /\ r = run /\ Concludes
      BY <3>2, CompletionSound
    <3>3. CASE row'[r].status = "completed" /\ ~ (r = run /\ Concludes)
      BY <2>1, <3>3, RowFrozen DEF Sound, SoundRow
    <3> QED BY <3>1, <3>2, <3>3
  <2> QED BY <2>1, <2>2, <2>3, <2>4, <2>5 DEF Sound
<1>3. Inv => CompletedRunsAreWhole
  <2> SUFFICES ASSUME Inv PROVE CompletedRunsAreWhole
    OBVIOUS
  <2>1. ASSUME NEW r \in Runs, row[r].status = "completed"
        PROVE  /\ row[r].exit = "success"
               /\ Kinds(r, "RunInterrupted") = {}
               /\ \A i \in Starts(r) : \E k \in Ends(r) : Resolves(r, i, k)
               /\ \E c \in checkpoints[r] : c.reason = "initial" /\ c.snapshot = row[r].initial
               /\ \E c \in checkpoints[r] :
                    /\ c.reason = "final" /\ c.snapshot = row[r].final
                    /\ \A d \in checkpoints[r] : d.seq <= c.seq
                    /\ \E x \in Kinds(r, "ProcessExited") : x < c.seq
    <3>1. /\ row[r].exit = "success" /\ ~SaysInterrupted(events[r]) /\ Loose(events[r]) = {}
          /\ Covers(checkpoints[r], row[r].final, events[r])
      BY <2>1 DEF Sound, SoundRow
    <3>2. \E c \in checkpoints[r] : c.reason = "initial" /\ c.snapshot = row[r].initial
      BY <2>1 DEF Whole, Shown, RowShown
    <3>3. Kinds(r, "RunInterrupted") = {}
      BY <3>1 DEF SaysInterrupted, Kinds
    <3>4. \A i \in Starts(r) : \E k \in Ends(r) : Resolves(r, i, k)
      <4>1. Starts(r) = StartsOf(events[r]) /\ Ends(r) = EndsOf(events[r])
        BY DEF Starts, Ends, Kinds, StartsOf, EndsOf
      <4> QED BY <3>1, <4>1 DEF Loose, Resolves
    <3>5. \E c \in checkpoints[r] :
            /\ c.reason = "final" /\ c.snapshot = row[r].final
            /\ \A d \in checkpoints[r] : d.seq <= c.seq
            /\ \E x \in Kinds(r, "ProcessExited") : x < c.seq
      BY <3>1 DEF Covers, Kinds
    <3> QED BY <3>1, <3>2, <3>3, <3>4, <3>5
  <2>2. ASSUME pc = "done", mode = "supervised", fatal = "none"
        PROVE  row[run].status \in Terminal /\ row[run].final # None
    <3>1. run \in Runs
      BY <2>2 DEF Sound, Whole, Base, LocalTypes
    <3> QED BY <2>2, <3>1 DEF Sound, SoundLog, Clean
  <2> QED BY <2>1, <2>2 DEF CompletedRunsAreWhole
<1> QED BY <1>1, <1>2, <1>3, PTL DEF Spec
=============================================================================
