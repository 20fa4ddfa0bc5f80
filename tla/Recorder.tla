------------------------------ MODULE Recorder ------------------------------
(***************************************************************************)
(* One capture process over the run tables: `capture_with_store`, the       *)
(* finalisation half of `supervise`, and the Recorder with its sequencer,  *)
(* its pending batch and its checkpoint routine.  The process is           *)
(* sequential; it may crash between any two steps, and any store           *)
(* transaction named in Faulty may fail without effect.  The next process  *)
(* to open the store recovers what a crash left.                           *)
(*                                                                         *)
(* `pc` is the place in the code, `mode` the path that is to finish the    *)
(* run.  The coordinator's event loop is one place, "supervise", at which  *)
(* observations arrive in any order.                                       *)
(***************************************************************************)
EXTENDS RunTables

CONSTANTS Batch,       \* options.event_batch_size
          Faulty,      \* the store operations that may fail
          MaxEvents,   \* bound: no observation is taken past this sequence number
          MaxClock     \* bound: the largest offset of the run's clock

ASSUME RecorderConstants ==
  /\ None \notin Runs
  /\ Batch \in Nat \ {0}
  /\ Faulty \subseteq {"create", "append", "commit", "running", "finish", "load", "object"}
  /\ MaxEvents \in Nat
  /\ MaxClock \in Nat

VARIABLES pc, mode, run,
          clock,        \* time since the run started
          next,         \* Sequencer.next
          lost,         \* history: numbers consumed by checkpoint commits that failed
          pending,      \* Recorder.pending
          cp,           \* the checkpoint being taken
          child,        \* Coordinator.child_exit: "none", "alive", or an exit
          group,        \* the PTY process group: "unknown", "stopped" or "stuck"
          interrupted,  \* Coordinator.interrupted_signal is set
          fatal,        \* Coordinator.fatal: "none", "store" or "other"
          final         \* the snapshot the run is going to be finished with

captureVars == <<mode, child, group, interrupted, fatal, final>>
localVars == <<pc, run, clock, next, lost, pending, cp, captureVars>>
vars == <<storeVars, localVars>>

Places == {"off", "opened", "clone", "ckptStart", "ckptScan", "ckptLimit", "ckptFail",
           "ckptCommit", "markRunning", "setup", "startRun", "startInfo", "spawn",
           "supervise", "closing", "exclusions", "cleanup", "finish", "reload",
           "nochild", "retention", "prepFail", "prepClean", "done"}

Modes == {"prepare", "supervised", "nochild", "retried"}

Recording == pc \notin {"off", "opened"}

NoCheckpoint == [reason |-> None, id |-> 0, snapshot |-> None, error |-> "none"]

-----------------------------------------------------------------------------
(* The recorder's primitives.                                              *)

Plain(kind) == [kind |-> kind]
\* Mutant: each event of a checkpoint gets an identity of its own.
About_Fresh(kind) == [kind |-> kind, id |-> next]

About(kind) == [kind |-> kind, id |-> cp.id]

\* Mutant: the number is read after the counter moved on.
Stamped_Late(body) == [seq |-> next + 1, at |-> clock, body |-> body]

\* Sequencer::next.  Its clamp to the last offset is left out: the run's clock
\* is an Instant, which never goes back.
Stamped(body) == [seq |-> next, at |-> clock, body |-> body]

\* A store call either succeeds with its transaction, or returns an error
\* because validation rejects it or the operation fails; then nothing changes.
StoreFails(operation, valid) ==
  /\ operation \in Faulty \/ ~valid
  /\ UNCHANGED storeVars

\* Mutant: a failed append loses the batch.
Send_Drops(body, durable, ok) ==
  LET batch   == Append(pending, Stamped(body))
      flushes == durable \/ Len(batch) >= Batch
  IN /\ next' = next + 1
     /\ pending' = IF flushes THEN <<>> ELSE batch
     /\ IF ~flushes THEN ok /\ UNCHANGED storeVars
        ELSE IF ok THEN AppendEventBatch(run, batch)
        ELSE StoreFails("append", CanAppend(run, batch))

\* Recorder::emit, or emit followed by flush when durable: the event joins the
\* batch, and a full or flushed batch is appended in one transaction.  On an
\* error the events stay pending.
Send(body, durable, ok) ==
  LET batch   == Append(pending, Stamped(body))
      flushes == durable \/ Len(batch) >= Batch
  IN /\ next' = next + 1
     /\ pending' = IF flushes /\ ok THEN <<>> ELSE batch
     /\ IF ~flushes THEN ok /\ UNCHANGED storeVars
        ELSE IF ok THEN AppendEventBatch(run, batch)
        ELSE StoreFails("append", CanAppend(run, batch))

\* Storing an object fails as a store operation does (is_store_failure).
ObjectErrors == IF "object" \in Faulty THEN {"store"} ELSE {}

\* Coordinator::fail keeps the first error.
Failing(error) == IF fatal = "none" THEN error ELSE fatal

Goto(place) == pc' = place

\* An error before the event loop ends in `place` and leaves no child alive.
Abort(place, error) ==
  Goto(place) /\ fatal' = error /\ child' = "none" /\ mode' = "nochild"

-----------------------------------------------------------------------------
(* Processes.                                                              *)

Forget ==
  /\ pc' = "off" /\ mode' = "prepare" /\ run' = None /\ clock' = 0 /\ next' = 1
  /\ lost' = 0 /\ pending' = <<>> /\ cp' = NoCheckpoint
  /\ child' = "none" /\ group' = "unknown" /\ interrupted' = FALSE
  /\ fatal' = "none" /\ final' = None

Open ==
  /\ pc = "off"
  /\ OpenStore
  /\ Goto("opened")
  /\ UNCHANGED <<run, clock, next, lost, pending, cp, captureVars>>

Exit ==
  /\ pc \in {"opened", "done"}
  /\ CloseStore
  /\ Forget

Crash ==
  /\ pc # "off"
  /\ CloseStore
  /\ Forget

Tick ==
  /\ Recording
  /\ clock < MaxClock
  /\ clock' = clock + 1
  /\ UNCHANGED <<storeVars, pc, run, next, lost, pending, cp, captureVars>>

StartRun(r, p) ==
  /\ pc = "opened"
  /\ row[r].status = "absent"
  /\ \/ /\ CreateRun(r, p)
        /\ run' = r
        /\ Goto("clone")
     \/ /\ StoreFails("create", TRUE)
        /\ Goto("done")
        /\ UNCHANGED run
  /\ UNCHANGED <<clock, next, lost, pending, cp, captureVars>>

-----------------------------------------------------------------------------
(* Recorder::checkpoint_allocated.                                         *)

\* A checkpoint begins under a fresh identity: the number its first event takes.
Begin(reason) ==
  /\ cp' = [NoCheckpoint EXCEPT !.reason = reason, !.id = next']
  /\ Goto("ckptStart")

\* Where the caller continues.  Outcomes: "ok"; "snapshot", a scan error; "other",
\* the run's storage limit; "store", a failed transaction.
Return(outcome) ==
  /\ cp' = NoCheckpoint
  /\ Goto(CASE cp.reason = "initial" -> IF outcome = "ok" THEN "markRunning" ELSE "prepFail"
            [] cp.reason = "final"   -> IF outcome = "ok" THEN "exclusions" ELSE "cleanup"
            [] OTHER                 -> "supervise")
  /\ fatal' = IF \/ outcome = "ok"
                 \/ cp.reason = "initial"
                 \/ outcome = "snapshot" /\ cp.reason # "final"
              THEN fatal ELSE Failing(IF outcome = "snapshot" THEN "other" ELSE outcome)
  /\ final' = IF cp.reason # "final" THEN final
              ELSE IF outcome = "ok" THEN cp.snapshot
              ELSE IF mode \in {"nochild", "retried"} THEN row[run].initial ELSE None
  /\ UNCHANGED <<run, clock, mode, child, group, interrupted>>

CheckpointStarts ==
  /\ pc = "ckptStart"
  /\ \/ /\ Send(About("CheckpointStarted"), TRUE, TRUE)
        /\ Goto("ckptScan")
        /\ UNCHANGED <<run, clock, cp, captureVars>>
     \/ /\ Send(About("CheckpointStarted"), TRUE, FALSE)
        /\ Return("store")
  /\ UNCHANGED lost

\* scan_workspace stores the files' objects and returns a snapshot; the run's
\* unique logical bytes may then exceed their limit.
Scan ==
  /\ pc = "ckptScan"
  /\ \/ /\ \E s \in Snapshots : cp' = [cp EXCEPT !.snapshot = s]
        /\ pc' \in {"ckptCommit", "ckptLimit"}
     \/ /\ \E e \in {"snapshot"} \cup ObjectErrors : cp' = [cp EXCEPT !.error = e]
        /\ Goto("ckptFail")
  /\ UNCHANGED <<storeVars, run, clock, next, lost, pending, captureVars>>

\* warn_run_storage_limit.
LimitWarning ==
  /\ pc = "ckptLimit"
  /\ \/ /\ Send(Plain("Warning"), FALSE, TRUE)
        /\ cp' = [cp EXCEPT !.error = "other"]
        /\ Goto("ckptFail")
        /\ UNCHANGED <<run, clock, captureVars>>
     \/ /\ Send(Plain("Warning"), FALSE, FALSE)
        /\ Return("store")
  /\ UNCHANGED lost

CheckpointFails ==
  /\ pc = "ckptFail"
  /\ \E ok \in BOOLEAN :
       /\ Send(About("CheckpointFailed"), TRUE, ok)
       /\ Return(IF ok THEN cp.error ELSE "store")
  /\ UNCHANGED lost

\* commit_scanned: the committed event takes its number from the sequencer
\* before the transaction, and never joins the batch.
CheckpointCommits ==
  /\ pc = "ckptCommit"
  /\ next' = next + 1
  /\ LET e == Stamped(Committed(cp))
         c == [seq |-> next, id |-> cp.id, reason |-> cp.reason, snapshot |-> cp.snapshot]
     IN \/ /\ CommitCheckpointWithEvent(run, c, e)
           /\ Return("ok")
           /\ UNCHANGED lost
        \/ /\ StoreFails("commit", CanCommit(run, c) /\ CanAppend(run, <<e>>))
           /\ Return("store")
           /\ lost' = lost + 1
  /\ UNCHANGED pending

-----------------------------------------------------------------------------
(* capture_with_store, up to the event loop.                               *)

\* clone_workspace, then Recorder::checkpoint(Initial).
Clone ==
  /\ pc = "clone"
  /\ UNCHANGED <<storeVars, run, clock, next, lost, pending, captureVars>>
  /\ \/ Begin("initial")
     \/ Goto("prepFail") /\ UNCHANGED cp

MarkRunning ==
  /\ pc = "markRunning"
  /\ \/ MarkRunRunning(run, row[run].initial) /\ Goto("setup")
     \/ StoreFails("running", TRUE) /\ Goto("prepFail")
  /\ UNCHANGED <<run, clock, next, lost, pending, cp, captureVars>>

\* Dirty tracker, raw terminal mode, control socket, PTY and child.  A child
\* that started before a later step failed is killed.
Setup ==
  /\ pc = "setup"
  /\ \/ Goto("startRun") /\ child' = "alive" /\ UNCHANGED <<mode, fatal>>
     \/ Abort("nochild", "other")
  /\ UNCHANGED <<storeVars, run, clock, next, lost, pending, cp, group, interrupted, final>>

\* The start-up closure: RunStarted, then the isolation, terminal and process
\* events with their warnings, which stand as one, and a flush.  On an error
\* the child is killed.
StartUp ==
  /\ \/ /\ pc = "startRun"
        /\ \/ Send(Plain("RunStarted"), FALSE, TRUE) /\ Goto("startInfo") /\ UNCHANGED <<mode, child, fatal>>
           \/ Send(Plain("RunStarted"), FALSE, FALSE) /\ Abort("nochild", "store")
     \/ /\ pc = "startInfo"
        /\ \/ Send(Plain("Observed"), TRUE, TRUE) /\ Goto("spawn") /\ UNCHANGED <<mode, child, fatal>>
           \/ Send(Plain("Observed"), TRUE, FALSE) /\ Abort("nochild", "store")
  /\ UNCHANGED <<run, clock, lost, cp, group, interrupted, final>>

\* The producers of supervise; ChildGuard kills the child if one fails to start.
SpawnProducers ==
  /\ pc = "spawn"
  /\ \/ Goto("supervise") /\ mode' = "supervised" /\ UNCHANGED <<child, fatal>>
     \/ Abort("reload", "other")
  /\ UNCHANGED <<storeVars, run, clock, next, lost, pending, cp, group, interrupted, final>>

-----------------------------------------------------------------------------
(* The event loop and what may still arrive while it winds down.           *)

\* Coordinator::handle drops everything once an error is fatal.
Handling ==
  /\ pc \in {"supervise", "closing"}
  /\ fatal = "none"
  /\ next <= MaxEvents

Quiet == UNCHANGED <<pc, run, clock, lost, cp, mode, child, group, final>>

\* Terminal output or input, a process, a resize, dirty paths.
Observe ==
  /\ Handling
  /\ \E ok \in BOOLEAN : /\ Send(Plain("Observed"), FALSE, ok)
                        /\ fatal' = IF ok THEN fatal ELSE "store"
  /\ UNCHANGED interrupted
  /\ Quiet

\* The terminal-output or run-storage limit: a durable warning, then an error.
LimitReached ==
  /\ Handling
  /\ \E ok \in BOOLEAN : /\ Send(Plain("Warning"), TRUE, ok)
                        /\ fatal' = IF ok THEN "other" ELSE "store"
  /\ UNCHANGED interrupted
  /\ Quiet

\* A producer or worker failed, or the bytes of an observation were not stored.
ObservationFails ==
  /\ Handling
  /\ fatal' \in {"other"} \cup ObjectErrors
  /\ UNCHANGED <<storeVars, next, pending, interrupted>>
  /\ Quiet

\* Mutant: the signal is forwarded without an event.
Signal_Silent ==
  /\ Handling
  /\ ~interrupted
  /\ interrupted' = TRUE
  /\ fatal' \in {"none", "other"}
  /\ UNCHANGED <<storeVars, next, pending>>
  /\ Quiet

\* The first SIGINT or SIGTERM; forwarding it to a live child may fail.  A
\* repeated signal only kills the child.
Signal ==
  /\ Handling
  /\ ~interrupted
  /\ interrupted' = TRUE
  /\ \E ok \in BOOLEAN :
       /\ Send(Plain("RunInterrupted"), TRUE, ok)
       /\ fatal' \in IF ~ok THEN {"store"}
                     ELSE IF child = "alive" THEN {"none", "other"} ELSE {"none"}
  /\ Quiet

\* A marker request: with a label, MarkerCreated carries the checkpoint's
\* identity before the checkpoint begins.
Marker ==
  /\ Handling
  /\ child = "alive"
  /\ \/ /\ UNCHANGED <<storeVars, next, pending, fatal>>
        /\ Begin("manual")
     \/ /\ Send([kind |-> "MarkerCreated", id |-> next], FALSE, TRUE)
        /\ cp' = [NoCheckpoint EXCEPT !.reason = "manual", !.id = next]
        /\ Goto("ckptStart")
        /\ UNCHANGED fatal
     \/ /\ Send([kind |-> "MarkerCreated", id |-> next], FALSE, FALSE)
        /\ fatal' = "store"
        /\ UNCHANGED <<pc, cp>>
  /\ UNCHANGED <<run, clock, lost, mode, child, group, interrupted, final>>

\* poll_workspace finds a checkpoint due.
Quiesce ==
  /\ Handling
  /\ child = "alive"
  /\ UNCHANGED <<storeVars, run, clock, next, lost, pending, captureVars>>
  /\ Begin("quiescence")

\* poll_child: the exit is observed, or polling fails.
ChildExits ==
  /\ pc = "supervise"
  /\ child = "alive"
  /\ child' \in Exits
  /\ fatal' \in {fatal, Failing("other")}
  /\ UNCHANGED <<storeVars, pc, run, clock, next, lost, pending, cp, mode, group,
                 interrupted, final>>

\* durable_post_root_warning: written even after a fatal error.
PostRootWarning ==
  /\ pc \in {"supervise", "closing"}
  /\ child \in Exits
  /\ next <= MaxEvents
  /\ \E ok \in BOOLEAN : /\ Send(Plain("Warning"), TRUE, ok)
                        /\ fatal' = IF ok THEN fatal ELSE Failing("store")
  /\ UNCHANGED interrupted
  /\ Quiet

\* The child has exited and its terminal output ended or was abandoned.
LeaveLoop ==
  /\ pc = "supervise"
  /\ child \in Exits
  /\ Goto("closing")
  /\ UNCHANGED <<storeVars, run, clock, next, lost, pending, cp, captureVars>>

-----------------------------------------------------------------------------
(* The end of supervise.                                                   *)

TerminateGroup ==
  /\ pc = "closing"
  /\ group = "unknown"
  /\ \/ /\ group' = "stopped"
        /\ UNCHANGED <<storeVars, next, pending, fatal>>
     \/ /\ group' = "stuck"
        /\ \E ok \in BOOLEAN : /\ Send(Plain("Warning"), TRUE, ok)
                              /\ fatal' = Failing(IF ok THEN "other" ELSE "store")
  /\ UNCHANGED <<pc, run, clock, lost, cp, mode, child, interrupted, final>>

\* ProcessExited, unless the store failed; then the final checkpoint, unless
\* the store failed or the process group may still write.
RecordExit ==
  /\ pc = "closing"
  /\ group # "unknown"
  /\ IF fatal = "store" THEN UNCHANGED <<storeVars, next, pending, fatal>>
     ELSE \E ok \in BOOLEAN : /\ Send(Plain("ProcessExited"), FALSE, ok)
                            /\ fatal' = IF ok THEN fatal ELSE Failing("store")
  /\ IF fatal' = "store" \/ group = "stuck" THEN Goto("cleanup") /\ UNCHANGED cp
     ELSE Begin("final")
  /\ UNCHANGED <<run, clock, lost, mode, child, group, interrupted, final>>

\* warn_exclusions, after a final checkpoint that excluded paths.
WarnExclusions ==
  /\ pc = "exclusions"
  /\ \/ UNCHANGED <<storeVars, next, pending, fatal>>
     \/ \E ok \in BOOLEAN : /\ Send(Plain("Warning"), FALSE, ok)
                           /\ fatal' = IF ok THEN fatal ELSE Failing("store")
  /\ Goto("cleanup")
  /\ UNCHANGED <<run, clock, lost, cp, mode, child, group, interrupted, final>>

\* cleanup_exclusions_for_retention; the warning's own failure is ignored.
Cleanup ==
  /\ pc = "cleanup"
  /\ \/ UNCHANGED <<storeVars, next, pending, fatal>>
     \/ /\ \E ok \in BOOLEAN : Send(Plain("Warning"), FALSE, ok)
        /\ fatal' = Failing("other")
  /\ Goto("finish")
  /\ UNCHANGED <<run, clock, lost, cp, mode, child, group, interrupted, final>>

\* Mutant: a child that succeeds completes its run whatever failed around it.
FinalStatus_ChildOnly ==
  IF mode = "supervised" /\ child = "success" THEN "completed" ELSE "failed"

\* How the run ends, by the path that ends it.
FinalStatus ==
  IF mode # "supervised" THEN "failed"
  ELSE IF interrupted THEN "interrupted"
  ELSE IF fatal = "none" /\ child = "success" THEN "completed" ELSE "failed"

\* Mutant: the duration ends with the last durable event.
Outcome_DurableDuration ==
  [status |-> FinalStatus, exit |-> IF mode = "supervised" THEN child ELSE None,
   final |-> final, duration |-> LastOffset(run)]

\* Mutant: every path falls back to the initial snapshot.
Outcome_Fallback ==
  [status |-> FinalStatus, exit |-> IF mode = "supervised" THEN child ELSE None,
   final |-> IF final = None THEN row[run].initial ELSE final, duration |-> clock]

Outcome ==
  [status |-> FinalStatus, exit |-> IF mode = "supervised" THEN child ELSE None,
   final |-> final, duration |-> clock]

\* RunCompleted joins the batch, and the batch and the row are committed
\* together.  Only supervise reacts to an error, its own or an earlier one.
Finish ==
  /\ pc = "finish"
  /\ next' = next + 1
  /\ LET batch == Append(pending, Stamped(Completion(Outcome)))
     IN \/ /\ FinishRunWithEvents(run, Outcome, batch)
           /\ pending' = <<>>
           /\ UNCHANGED fatal
        \/ /\ StoreFails("finish", CanAppend(run, batch) /\ CanFinish(run, Outcome))
           /\ pending' = batch
           /\ fatal' = Failing("store")
  /\ Goto(CASE mode = "supervised" /\ fatal' # "none" -> "reload"
            [] mode = "retried" -> "retention"
            [] OTHER -> "done")
  /\ UNCHANGED <<run, clock, lost, cp, mode, child, group, interrupted, final>>

-----------------------------------------------------------------------------
(* Ends without a supervised child.                                        *)

\* After an error from supervise: a run still Running is finished once more.
Reload ==
  /\ pc = "reload"
  /\ \/ row[run].status = "running" /\ Goto("nochild")
     \/ ("load" \in Faulty \/ row[run].status # "running") /\ Goto("retention")
  /\ mode' = "retried"
  /\ UNCHANGED <<storeVars, run, clock, next, lost, pending, cp, child, group,
                 interrupted, fatal, final>>

\* The cleanup after an error from supervise; whatever it meets is ignored.
Retention ==
  /\ pc = "retention"
  /\ \/ UNCHANGED <<storeVars, next, pending>>
     \/ \E ok \in BOOLEAN : Send(Plain("Warning"), FALSE, ok)
  /\ Goto("done")
  /\ UNCHANGED <<run, clock, lost, cp, captureVars>>

\* finish_running_without_child: a warning whose failure is ignored, then the
\* final checkpoint; its cleanup and its finish are the actions above.
NoChild ==
  /\ pc = "nochild"
  /\ \E ok \in BOOLEAN : Send(Plain("Warning"), FALSE, ok)
  /\ Begin("final")
  /\ UNCHANGED <<run, clock, lost, captureVars>>

\* finish_preparation_failure: a warning, the removal of the workspace with a
\* second warning if that fails, and the finish above; errors are ignored.
PreparationFails ==
  /\ \/ /\ pc = "prepFail"
        /\ \E ok \in BOOLEAN : Send(Plain("Warning"), FALSE, ok)
        /\ Goto("prepClean")
     \/ /\ pc = "prepClean"
        /\ \/ UNCHANGED <<storeVars, next, pending>>
           \/ \E ok \in BOOLEAN : Send(Plain("Warning"), FALSE, ok)
        /\ Goto("finish")
  /\ UNCHANGED <<run, clock, lost, cp, captureVars>>

-----------------------------------------------------------------------------

Init ==
  /\ StoreInit
  /\ pc = "off" /\ mode = "prepare" /\ run = None /\ clock = 0 /\ next = 1
  /\ lost = 0 /\ pending = <<>> /\ cp = NoCheckpoint
  /\ child = "none" /\ group = "unknown" /\ interrupted = FALSE
  /\ fatal = "none" /\ final = None

\* The recorder's own next step, wherever it is.
Step ==
  \/ CheckpointStarts \/ Scan \/ LimitWarning \/ CheckpointFails \/ CheckpointCommits
  \/ Clone \/ MarkRunning \/ Setup \/ StartUp \/ SpawnProducers
  \/ LeaveLoop \/ TerminateGroup \/ RecordExit \/ WarnExclusions \/ Cleanup
  \/ Finish \/ Reload \/ Retention \/ NoChild \/ PreparationFails \/ Exit

\* What the child, the user and the machine do.
Arrival ==
  \/ Observe \/ LimitReached \/ ObservationFails \/ Signal \/ Marker \/ Quiesce
  \/ PostRootWarning \/ Tick \/ Crash

Next ==
  \/ Open
  \/ \E r \in Runs :
       \E p \in {None} \cup UNION {[run : {q}, checkpoint : {c.id : c \in checkpoints[q]}] : q \in Runs} :
         StartRun(r, p)
  \/ Step
  \/ ChildExits
  \/ Arrival

Spec == Init /\ [][Next]_vars

\* The process keeps running its own code, its child exits in the end, and
\* somebody opens the store again.
FairSpec == Spec /\ WF_vars(Step) /\ WF_vars(ChildExits) /\ WF_vars(Open)

-----------------------------------------------------------------------------
(* Properties.                                                             *)

TypeOK ==
  /\ StoreTypeOK
  /\ pc \in Places /\ mode \in Modes
  /\ run \in Runs \cup {None}
  /\ clock \in Nat /\ next \in Nat \ {0} /\ lost \in Nat
  /\ pending \in Seq(Events)
  /\ cp \in [reason : Reasons \cup {None}, id : CheckpointIds,
             snapshot : Snapshots \cup {None}, error : {"none", "snapshot", "other", "store"}]
  /\ child \in {"none", "alive"} \cup Exits
  /\ group \in {"unknown", "stopped", "stuck"}
  /\ interrupted \in BOOLEAN
  /\ fatal \in {"none", "store", "other"}
  /\ final \in Snapshots \cup {None}

Numbered(log, first) == \A i \in 1..Len(log) : log[i].seq = first + i - 1

InTimeOrder(log) == \A i, j \in 1..Len(log) : i <= j => log[i].at <= log[j].at

Kinds(r, kind) == {i \in 1..Len(events[r]) : events[r][i].body.kind = kind}

\* The sequencer, the batch and the table account for every number handed out:
\* what is durable, what is pending and what a failed commit consumed add up,
\* so until a commit fails the next append of an active run is never rejected
\* (Sequencer::next_at, queue_event, flush, commit_scanned).
SequenceLedger ==
  pc \notin {"off", "opened"} /\ run # None =>
    /\ next = Len(events[run]) + Len(pending) + lost + 1
    /\ Numbered(pending, next - Len(pending))
    /\ InTimeOrder(events[run] \o pending)
    /\ \A i \in 1..Len(pending) : pending[i].at <= clock
    /\ lost = 0 /\ row[run].status \in Active => CanAppend(run, pending)

\* While a process holds the store the only run that may be active is the one
\* it records: whatever crashed before is recovered (Store::open).
OnlyTheLiveRunIsActive ==
  writer = "open" => \A r \in Runs : row[r].status \in Active => r = run

\* The commits a timeline announces are exactly the rows of the checkpoint
\* table, through failed commits, retried finishes and crashes
\* (commit_checkpoint_with_event is the only source of either).
CheckpointsAgree ==
  \A r \in Runs :
    {<<events[r][i].seq, events[r][i].body>> : i \in Kinds(r, "CheckpointCommitted")}
      = {<<c.seq, Committed(c)>> : c \in checkpoints[r]}

Starts(r) == Kinds(r, "CheckpointStarted")
Ends(r)   == Kinds(r, "CheckpointCommitted") \cup Kinds(r, "CheckpointFailed")

\* Event k ends the checkpoint that event i starts.
Resolves(r, i, k) == i < k /\ events[r][k].body.id = events[r][i].body.id

\* "At most one checkpoint commit is active for a run": the checkpoint that is
\* committed or fails is always the last one that started, even where a failed
\* append left an earlier start without an end.
OneCheckpointAtATime ==
  \A r \in Runs : \A k \in Ends(r) : \E i \in Starts(r) :
    /\ Resolves(r, i, k)
    /\ \A j \in i+1 .. k-1 : j \notin Starts(r) \cup Ends(r)

\* A completed run is whole: it ended by itself with success, was never
\* interrupted, every checkpoint it started came to an end, and after the exit
\* of its process it was scanned once more, which gave the snapshot it is
\* shown with (supervise's finalisation; a store failure anywhere excludes it).
\* And a capture that reports no error has a terminal run with a final snapshot,
\* completed or not: the last check of supervise never fires.
CompletedRunsAreWhole ==
  /\ \A r \in Runs : row[r].status = "completed" =>
       /\ row[r].exit = "success"
       /\ Kinds(r, "RunInterrupted") = {}
       /\ \A i \in Starts(r) : \E k \in Ends(r) : Resolves(r, i, k)
       /\ \E c \in checkpoints[r] : c.reason = "initial" /\ c.snapshot = row[r].initial
       /\ \E c \in checkpoints[r] :
            /\ c.reason = "final" /\ c.snapshot = row[r].final
            /\ \A d \in checkpoints[r] : d.seq <= c.seq
            /\ \E x \in Kinds(r, "ProcessExited") : x < c.seq
  /\ pc = "done" /\ mode = "supervised" /\ fatal = "none" =>
       row[run].status \in Terminal /\ row[run].final # None

\* The snapshots in a run's row are trees of its own checkpoints, whatever
\* happens to it later: the initial one, once it runs, of its initial checkpoint
\* (mark_run_running), the final one of a final checkpoint unless the run failed
\* without its final scan (finish_running_without_child substitutes the initial
\* snapshot).
SnapshotsCommitted ==
  \A r \in Runs :
    /\ row[r].status \in {"running", "completed"} =>
         \E c \in checkpoints[r] : c.reason = "initial" /\ c.snapshot = row[r].initial
    /\ row[r].final # None =>
         \E c \in checkpoints[r] :
           /\ c.snapshot = row[r].final
           /\ c.reason = "final" \/ (c.reason = "initial" /\ row[r].status = "failed")

\* A run that its recorder closed as interrupted says so in its timeline, even
\* when the append of the signal itself failed (handle_signal keeps the event
\* pending for the finish).
InterruptionsJournalled ==
  \A r \in Runs : row[r].status = "interrupted" /\ row[r].exit # None =>
    Kinds(r, "RunInterrupted") # {}

\* When the recorder is done its run is terminal: lost appends, objects and
\* start-up steps are all made up for by the batch that finishes the run.  Only
\* a failed finish, commit or reload leaves the run to the next recovery.
RecorderSettlesItsRun ==
  pc = "done" /\ run # None => row[run].status \in Terminal

\* The recorder implements the lifecycle a reader relies on, as long as the
\* transaction that finishes a run does not fail.
Lifecycle == INSTANCE RunLifecycle WITH
  phase <- [r \in Runs |-> row[r].status],
  log   <- [r \in Runs |-> [i \in 1..Len(events[r]) |-> events[r][i].body.kind]],
  live  <- run

ImplementsLifecycle == Lifecycle!Spec

\* The final `RunCompleted` batch and the terminal transition commit in one
\* transaction: no active run has a durable RunCompleted.
CompletionIsAtomic ==
  \A r \in Runs : row[r].status \in Active => Kinds(r, "RunCompleted") = {}

\* A run whose recorder finished it lasted at least as long as its timeline.
DurationCoversTimeline ==
  \A r \in Runs : row[r].status \in Terminal => row[r].duration >= LastOffset(r)

\* Every run that was created ends: by its recorder, or by the recovery of the
\* next process after a crash or a store failure.
RunsSettle ==
  \A r \in Runs : row[r].status \in Active ~> row[r].status \in Terminal
=============================================================================
