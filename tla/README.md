# A specification of rewind

rewind records the execution of a command: it runs the command under a PTY,
journals what it observes as a timeline of events, takes content-addressed
snapshots of the workspace as checkpoints, and keeps everything in one store
(an SQLite database and a directory of objects) from which runs are inspected,
replayed, compared, exported, forked and collected. This directory models the
parts of it that are hard to test, checks the models with TLC and proves the
most important properties with TLAPS.

Paths below are relative to the repository (`crates/...`) unless they name a
file of this directory.

## 1. The system

| Part | State | Operations | Talks to |
|---|---|---|---|
| Store, run tables (`rewind-store`: `run.rs`, `event.rs`, `snapshot.rs`, `recovery.rs`, `lib.rs`) | tables runs, run_parents, events, checkpoints, warnings, snapshots; `writer.lock` | open with recovery, create_run, mark_run_running, append_event_batch, commit_checkpoint(_with_event), finish_run(_with_events), store_snapshot, reads | everything |
| Store, objects (`object.rs`) | object files, table objects | publish (temporary file, sync, link, directory sync, row), read and verify | scan, recorder, collection |
| Garbage collection (`maintenance.rs`, `rewind-cli/gc.rs`) | two paged cursors | list, delete object, delete crash artefacts | objects, tables |
| Writer lock (`lock.rs`, `rewind-platform/locking.rs`) | kernel lock | try, release | store |
| Recorder (`rewind-capture/recorder.rs`: `Recorder`, `Sequencer`, `capture_with_store`, finalisation of `supervise`) | sequence counter, pending batch, last snapshot, fatal error, child exit, interruption | emit, flush, checkpoint, finish and its two fallback paths | store, scan |
| Coordinator and producers (`supervise`, `pty.rs`) | bounded channel, stop flags, two deadlines, the process group | event loop, drain, shutdown of the group, joins | PTY, recorder, control |
| Dirty tracker (`DirtyTracker`) | last look, pending paths, timers | observe, should_checkpoint, clear_after_checkpoint | scan |
| Control socket (`control.rs`) | server thread, requests, replies | marker, reply, shutdown | coordinator |
| Snapshot scan (`scan.rs`, `filesystem.rs`) | walk over pinned directories | scan_workspace | objects |
| Clone of a workspace (`filesystem.rs`) | walk, destination | clone_workspace | recorder |
| Materialisation (`restore.rs`, `filesystem.rs`) | temporary tree, backup name | checkout | objects |
| Comparison (`diff.rs`, `compare.rs`, `comparison.rs`) | two manifests, the ancestry | merge, evidence, relation | store |
| Replay interface (`rewind-tui`) | cursor over pages, playback, panes, cache | step, jump, play, select | store |
| Export (`rewind-cli/export.rs`, `artifacts.rs`, `bundle.rs`) | pages, temporary file | bundle, HTML, raw stream | store |
| Migrations, configuration, arguments, reports, drawing | none beyond a call | | |

A capture is one process: it opens the store (taking the lock and recovering
what a dead process left), creates a run, takes the initial checkpoint, starts
the command, handles observations until the command and its process group are
gone, takes the final checkpoint and finishes the run. Every step that matters
later is an SQLite transaction; between transactions the process may die, and
each of them may fail. Everybody else opens the store read-only, without a lock,
and may do so while a capture runs.

What is hard here is listed, line by line, under `hazards` in `PROJECT.json`:
crashes between transactions; transactions that fail after memory has moved on
(a number taken, a batch kept, a snapshot remembered); a second finish after a
failed first one; signals, exits and deadlines in every order; bounded channels
and joins; object publication against power loss and collection; a workspace
that changes while it is scanned, cloned or watched; a destination that changes
while it is replaced; readers that page through a timeline that grows.

What makes each part correct, in one line each:

- *run tables*: timelines are contiguous and monotonic, checkpoints stand beside
  their events, ended runs are explained and frozen, ancestry is acyclic;
- *recorder*: no event is lost or renumbered, a completed run is whole, every run ends;
- *objects and collection*: what is referenced has its bytes on disk, whatever fails,
  and readers without a lock find it; exactly the unreferenced is collected;
- *coordinator*: the loop, the drain and the joins end, with the output that was
  read recorded and nobody of the group left to write during the final scan;
- *control*: every client is answered, and told the truth;
- *dirty tracker*: a change is saved or still noticed, and one that is pending
  brings a checkpoint as long as the tracker's walks succeed now and then;
- *scan and clone*: no copy mixes two states of a file or directory;
- *materialisation*: the destination is the old content or all of the snapshot;
- *comparison*: exactly the differences, and the nearest relation;
- *replay*: pages connect, panes belong to the selected event;
- *export*: what is handed out is coherent although the run still grows.

## 2. The modules

| Module | What it is |
|---|---|
| `RunTables` | the tables and the transactions, one action each, and their properties |
| `RunStore` | the tables under arbitrary clients: `JournalSpec` (the operations the program uses), `Spec` (all exported ones) |
| `RunLifecycle` | abstract: a run is recorded by one process at a time, its timeline only grows, its completion is its last event |
| `Recorder` | one capture process over the tables, with crashes and failing operations; implements `RunLifecycle` |
| `Supervision` | the threads of that process around the channel, the processes under the terminal, the clients of the control socket |
| `Workspace` | the dirty tracker and the scan, while processes write |
| `Clone` | the clone of a workspace, while tools write |
| `Materialize` | a checkout, against users of its destination, failing calls and death |
| `ObjectStore` | objects, system call by system call: publication, references, collection, readers, power failure |
| `DurableObjects` | abstract: a set of available objects that references never outrun; `ObjectStore` implements it |
| `GcCursor` | the two merged cursors of a collection |
| `Comparison` | the merge of two manifests, the evidence, the relation of two runs |
| `Replay` | the model behind the replay interface |
| `Export` | an export in several queries of a run that still grows, and its installation |
| `Parts` | `Workspace`, `Clone`, `Materialize`, `Replay`, `GcCursor`, `Comparison` and `Export` side by side: they share no state, so one run checks them, each behaviour being one part's |
| `MCRunStore`, `MCRecorder`, `MCObjectStore`, `MCParts` | instances for TLC, some with symmetry |
| `RunTablesProofs` | lemmas: what each transaction preserves, for all arguments |
| `RecorderProofs`, `RecorderLifecycle` | what the recorder's actions do to the run's timeline, that everything is typed and its safety invariants, one section each; the refinement and what holds when nothing fatal fails |
| `RunStoreProofs`, `SupervisionProofs`, `ObjectStoreProofs`, `WorkspaceProofs` | the theorems of these modules, with the lemmas of one action each |
| `PartsProofs` | the theorems of the other components of `Parts`, one section each: of their own specifications and of the composition |

Composition: `RunTables` is extended by `RunStore` (arbitrary clients) and by
`Recorder` (the one real client). `Recorder` takes observations in any order;
`Supervision` shows which orders the threads produce and that they end, and
takes each handled observation as one step that may fail. `Recorder` sees a scan
as a snapshot or an error; `Workspace` has the scan. Both take objects as
stored; `ObjectStore` has them. Each definition that stands for code is mapped
to its lines in `PROJECT.json` (`map`). Definitions named `X_Something`, marked
"Mutant", are deliberately wrong versions of `X`; no specification uses them.
Each property has one that breaks it.

### RunTables and RunStore

`row`, `parent`, `events`, `checkpoints`, `warnings`, `snapshots` are the
tables, `writer` the lock. A transaction is one action: its guard is everything
the function validates (`CanAppend`, `CanCommit`, `CanFinish`, `Lineage` for
`reject_parent_cycle`), its effect everything it writes (`Appended` includes the
warning rows, `CheckpointStored` the snapshot row and the run's column).
A transaction whose validation fails changes nothing, so it is simply not taken.
`OpenStore` includes `Recover`: `Store::open` runs recovery before it returns.
Exported operations that the program itself does not call on a store it has
opened (`MarkInterruptedRuns`, `StoreSnapshot`, `CommitCheckpoint`,
`FinishRun`) are in `RunStore.Spec` only.

Abstractions: UUIDs of checkpoints are numbers unique in their run (clients
that reuse one are rejected, as by the primary key); payloads that only add a
row are the one kind `Observed`; objects and manifest entries are left out, so
the object references that a transaction also validates are taken to exist,
which is what `ObjectStore` shows of them.

### Recorder

`pc` is the place in `capture_with_store` and `supervise`, `mode` the way the
run is going to be finished (preparation failure, supervised, no child, retry).
`next`, `pending`, `cp`, `child`, `group`, `interrupted`, `fatal`, `final` are
the variables of the same meaning in `Recorder`, `Sequencer` and `Coordinator`;
`lost` is history: the numbers that failed checkpoint commits consumed.
`Send` is `emit`/`flush`: the event joins the batch, and a full or flushed batch
is one `AppendEventBatch`; when it fails the batch stays. A checkpoint is
`CheckpointStarts`, `Scan`, `LimitWarning`, then `CheckpointFails` or
`CheckpointCommits`; it returns to the place that asked for it. At
`"supervise"` the event loop takes any observation, signal, marker, quiescence
checkpoint or the child's exit, in any order. `Faulty` names the operations
that may fail in an instance; `Crash` is possible wherever the process lives
and loses everything but the tables.

Abstractions: what arrives next is one nondeterministic choice, which admits
every order that `Supervision`'s threads and `Workspace`'s tracker can produce;
the outcome of the process-group shutdown is a choice; a scan is one step. After
an append fails, an error inside the loop is kept (`fail` keeps the first) and
the loop still waits for the child, as in the code.

### Supervision

`queue` is the bounded channel. The producers are `reader` (terminal output),
`typist` (standard input, which ends with the process and is not joined),
`observer` (process samples), `watcher` (signals) and `server` (the control
thread, with `serving` and `reply`); each holds at most one message it could not
send yet, so every wait for room is a state. `alive` are processes of four
kinds: the root, a member of its group, a daemon that gave up the terminal and
an escapee that left the group but keeps the terminal. `pc` is the place of the
coordinator: one turn of `event_loop` is `Receive`, then
`ChildExits`/`ChildLives`, then `PollDrain`; after the loop come
`TerminateGroup`, `AwaitGroup`, `DrainReady`, the joins, the final checkpoint
with the finish, and the join of the server. `grace` and `drain` are deadlines
that are armed and, some time later (`Expire`), over; `AwaitGroup`, which comes
after the root's exit, has a deadline of its own, for which `grace` stands there.

Abstractions: handling an observation is one step that may fail (its
transactions are `Recorder`'s); output is counted in chunks; the request line
and the socket file are left out; a resize is to the coordinator what a sample
is.

### Workspace

`present` is the tree, `known`/`touched` the tracker's last look and what was
changed since, `pending`, `settled`, `since`, `disabled`, `deferred` its other
fields; `walk` is a scan: the stack of pinned directories, what is listed and
not yet visited, the file that is open, what the snapshot has so far; `stale`
says what was changed since the scan looked at it (the comparison of stamps).
Users write, make and remove (`Write`, `Make`, `Remove`) between any two steps.
`Poll` is `observe` with `should_checkpoint`, `Reread` is
`clear_after_checkpoint`. A scan that meets a changed stamp is abandoned
(`AbandonScan`), and so is one whose read fails; a failing call of the store ends
the capture (`ScanFails`).
`slipped` is history, see section 6.

Abstractions: contents are compared only with themselves earlier, so "changed
since" stands for them; a stamp never returns to an old value; debounce and
intervals are `settled` and `since`, which time (`Settle`, `Age`) moves on.

### Clone

The walk of `clone_workspace`: `open` is the stack of directories whose streams
are being read, `yielded` what they returned, `reading` the file that is cloned
and `torn` whether it was written meanwhile. `LeaveDirectory` has the comparison
of the directory's stamp, `FinishFile` that of the file's, `CleanUp` the removal
of a failed clone, whose error the code drops: it may leave anything (`"rest"`),
and a crash leaves the clone as it was. Users write, make, remove, and may take
the destination's name (`Occupy`). Reflink, copy and `fclonefileat` are the same
two steps.

### Materialize

`dest`, `temp` and `backup` are what the three names stand for: absent, an empty
directory, users' content, the checkout (`"tree"`) or what is left of a removal
(`"rest"`). `pc` follows `checkout`: the first look, building entry by entry
(`Create`, `FinishDirectory`, `SyncTree`), the looks before the rename
(`LookAgain`, `Choose`), `Place`, or `Backup` and `Install` with `Rollback` and
`RemoveBackup`. Users put, make and take things at the destination between any
two steps. `made`, `late` and `unseen` are history: which contents were put there
at all, which after the second look, the last that can refuse them, and which
after the third, the last of all.

### ObjectStore and DurableObjects

A process publishes by `Inspect`, `CreateTemp`, `WriteTemp`, `SyncTemp`, `Link`,
`SyncParent`, `RemoveTemp`, `RecordObject`, refers by `Refer` (any committed
transaction that names objects), and collects by `DeleteFile`, `DeleteRow` and
the sweep of files without rows. Names of files and of directories are
*volatile* until their directory is synchronised; `PowerFailure` keeps or drops
volatile names and unsynchronised bytes at will, in the order of the journal
when `Ordered`. `wanted`/`missed` and `sampled`/`reported` are two readers
without a lock: a checkout and `doctor`.

`DurableObjects` says what the rest of the program relies on: objects become
available, references are only made to what is available, and only what nothing
refers to is collected. The refinement maps *available* to "the file's name and
its directory are durable and its bytes are synchronised".

### GcCursor, Comparison

`GcCursor` is the merge of the paged cursors, `rows` and `references`, while
rows are deleted, then the pages of files without rows. `Comparison` has the
merge of two sorted manifests (`Removed`, `Added`, `Both`), the evidence with
the validation that the report runs on it, and the search of the relation along
both lines of forks. `Resolve` refuses a run that has no final snapshot
(`concluded`): one that is still recorded, and one that recovery closed. Their
properties are set definitions of the result.

### Replay

`view` is the cursor: its page, the selected event, the page fetched ahead, the
processes met and the line of their pane, which `Ingest` clamps; `pane` the workspace pane, `cache` and `terminal` the objects
of output. `StepEvent`, `StepCheckpoint`, `TogglePlayback`, `Tick`, `Activate`,
`SelectChange` and `SelectProcess` are the keys and the timer, `Record` the
recorder, which may append meanwhile.

### Export

`Resolve`, `LoadCheckpoints`, `LoadPage`/`TakeEvent`/`EndPage` are the queries of
`export` and of a replay to a stream; `CreateTemporary`, `WriteEntry`, `FinishWriter`,
`Install`, `SyncParent` the writer and the installation. `Record` appends in
between; calls fail and the process dies. `written` is the order of the bundle's
entries, which the writer checks against their count and their names. `Row` is
the run's row as its events leave it: a run that could not be started, and whose
final checkpoint fails as well, ends with its initial snapshot.

## 3. What TLC checks

| Run | Question | Instance |
|---|---|---|
| `store_journal` | do the tables keep their promises whatever clients submit? | 1 run, 2 snapshots, 3 events, 2 clock values, warnings, all arguments |
| `store_clients` | is ancestry acyclic and the lifecycle one-way, with every exported operation? | 3 runs forking from each other, 1 snapshot, 1 event |
| `recorder_faults` | do the tables stay true to what happened, if everything may fail and the process may die anywhere? | 1 run, 2 snapshots, batches of 2, arrivals up to sequence 7 |
| `recorder_settles` | does the recorder end its run, lose nothing, and implement `RunLifecycle`, when commits, finishes and reloads work? | 2 snapshots, 2 clock values, sequence 6; create, append, running and object may fail |
| `recorder_live` | does every run end, and is only the live one active? | `FairSpec`, 1 snapshot, sequence 6; append, commit, finish and object may fail |
| `recorder_finish_fault`, `recorder_commit_fault` | the first two disagreements of section 6 | the one faulty operation |
| `objects_ordered` | do references survive every failure, and do readers find them? | 2 processes, 2 objects in 1 directory, every call may fail, the power may fail, ordered names |
| `objects_power_loss` | the third disagreement of section 6 | the same, names durable only with their own directory |
| `supervision_ends` | does the capture end with all its output, and alone? | channel of 1, output limit 1, 1 chunk, 2 signals, 1 line, 4 processes; failing writes, signals, polls, group checks |
| `supervision_markers` | is each client answered, and told the truth? | 2 clients, channel of 1; failing writes, and a failing kill |
| `parts` | the ten properties of seven components that share no state | the instances of `MCParts` |

*Bounds.* In the tables two events show contiguity, a third separates "last of
the batch" from "last of the timeline"; two clock values suffice for "goes back";
two snapshots distinguish the initial from the final one and from a conflicting
repeat; three runs are needed for a cycle that is not a pair. For the recorder a
batch of 2 makes both an append that only queues and one that flushes happen
around every step; the start-up of a run takes four events, so a bound of 7 on
the sequence numbers at which something may arrive leaves room for three
arrivals, or for one whole checkpoint and another arrival, while the finishing
code, which is not bounded, always runs to its end. `MaxEvents` and `MaxClock`
guard the arrivals only; they stop nothing that has begun. One run is enough
there because a store has one writer: the proofs of section 4 are for any number.
In `Supervision` a channel of one place is the smallest that can be full, and
the most blocking one; two signals are what it takes to meet the grace of the
first and to come after the exit; a chunk beyond the limit fails the capture as
a failing write does, which happens at every chunk. Two objects and two
processes give one writer with another waiting, and an object to delete beside
one to keep. In `parts`, the workspaces have a directory with a file in it and
one beside it, the checkout two nested directories, a file and a link; the
timelines of nine events have three pages of three, so that pages meet events of
each kind at their edges; five ids in pages of two put a reference on every side
of a boundary; three paths, three entries and four runs contain every
interleaving of two manifests and every shape of a nearest ancestor.
`parts` is run without the deadlock check, because its parts end.

Symmetry is used for runs, snapshots, processes and objects, never with a
liveness property: `recorder_live`, the two runs of `Supervision` and `parts`
have none, and `ImplementsLifecycle`, `TerminalRunsFrozen`, `LifecycleForward`,
`ReadersFindReferences` and `ImplementsDurableObjects` are safety properties.

*Fairness.* `Recorder.FairSpec`: the process executes its own next statement
(`WF(Step)`); the child exits in the end (`WF(ChildExits)`), an assumption on
the recorded command, as the program sets no limit to its life; and somebody
opens the store again after a process ended or died (`WF(Open)`). Nothing is
assumed of what arrives, and crashes may repeat as long as runs are left to start.

`Supervision.FairSpec`: each thread runs (`WF` of the coordinator, reader,
observer, watcher and control thread); the control server, which offers its
message again and again, finds room if there is room again and again
(`SF(ServerSends)`); armed deadlines pass (`WF(Expire)`); and a process that
SIGKILL was sent to dies (`WF(Reap)`). Nothing is assumed of processes, users and
clients. Consequently `SupervisionEnds` speaks of captures that were interrupted,
failed, or whose root process is gone; a command that runs on is recorded on.
`MaxSignals` matters: every signal after the exit sets the drain deadline anew,
so a user who never stops pressing the key could keep it from passing.

`Workspace`, in `PartsSpec`: the scan proceeds (`WF(Scan)`) and time passes
(`WF(Age)`). That the tracker's walk succeeds again and again is no fairness of
the program: any change of what it looks at fails it, and nothing bounds how
often. `ScansComeEventually` has it as a premise, `WalksSucceed`, and shows that
then the maximum interval brings the scan, also when the writers never leave the
debounce time to pass; see section 6 for what comes without it.

## 4. What is proved

The theorems hold for all values of the constants. Their assumptions are those
the modules name: `NoneIsAbsent` and `ClientBounds` (the absent value is none of
the others, argument sets are of their types), `RecorderConstants`,
`SupervisionAssumption` (the channel has room for one), `ObjectAssumption` with
`Ordered`, `WorkspaceAssumption`, and `PartsAssumption`, which joins the assumptions
of the components of `Parts`: entries have one type, a parent is a directory, page
sizes are positive, an event's kind says what it is about. Conditions on `Faulty` are stated in the theorems.

| Module | Theorem | Statement |
|---|---|---|
| `RunStoreProofs` | `TypeCorrect` | `Spec => []StoreTypeOK` |
| | `TimelinesAreOrdered`, `WarningsAreIndexed`, `AncestryHolds` | `Spec => []TimelineOrdered`, `[]WarningsIndexed`, `[]AncestryWellFounded` |
| | `LifecycleMovesForward` | `Spec => LifecycleForward` |
| | `CheckpointsAreJournalled`, `EndedRunsAreExplained` | `JournalSpec => []CheckpointsJournalled`, `[]TerminalRunsExplained` |
| | `EndedRunsFrozen` | `JournalSpec => TerminalRunsFrozen` |
| `RecorderProofs` | `RecorderTyped` | `Spec => []TypeOK` |
| | `OneLiveRun` | `Spec => []OnlyTheLiveRunIsActive` |
| | `LedgerBalances` | `Spec => []SequenceLedger` |
| | `DurationsCover` | `Spec => []DurationCoversTimeline` |
| | `CheckpointsAnnounced` | `Spec => []CheckpointsAgree` |
| | `OneAtATime` | `Spec => []OneCheckpointAtATime` |
| | `InterruptionsSaid` | `Spec => []InterruptionsJournalled` |
| | `SnapshotsKept` | `Spec => []SnapshotsCommitted` |
| `RecorderLifecycle` | `CompletionAtomicUnlessFinishFails` | `Spec => []CompletionIsAtomic`, if `"finish" \notin Faulty` |
| | `RecorderImplementsLifecycle` | `Spec => ImplementsLifecycle`, if `"finish" \notin Faulty` |
| | `RunSettledUnlessCommitFails` | `Spec => []RecorderSettlesItsRun`, if none of finish, commit, load is in `Faulty` |
| | `CompletedRunsWhole` | `Spec => []CompletedRunsAreWhole` |
| `SupervisionProofs` | `SupervisionTyped`, `OutputIsComplete` | `Spec => []TypeOK`, `[]NoOutputLost` |
| | `FinalScanIsAlone`, `AnswersAreHonest` | `Spec => []FinalScanAlone`, `[]AnswersHonest` |
| `ObjectStoreProofs` | `ObjectsTyped`, `ReferencedObjectsSurvive` | `Spec => []TypeOK`, `[]ReferencesSurvive`, if `Ordered` |
| | `ReadersNeedNoLock` | `Spec => ReadersFindReferences`, if `Ordered` |
| | `StoreImplementsDurableObjects` | `Spec => ImplementsDurableObjects`, if `Ordered` |
| `WorkspaceProofs` | `WorkspaceTyped`, `UnsavedEntriesNoticed` | `Spec => []TypeOK`, `[]UnsavedIsNoticed` |
| | `SnapshotsAreNotMixed` | `Spec => ScannedAsItWas` |
| `PartsProofs` | `CheckoutInstallsAllOrNothing` | `Checkout!Spec => [](TypeOK /\ CheckoutAllOrNothing)` |
| | `CloneIsFaithful` | `Cloning!Spec => []TypeOK /\ ClonedAsItWas` |
| | `CollectionIsExact` | `Collection!Spec => [](TypeOK /\ CollectsExactly)` |
| | `PagesFollowOneAnother`, `PanesFollowCursor` | `Interface!Spec => [](TypeOK /\ PagesConnect)`, `[]PanesMatchSelection` |
| | `ReportIsExact` | `Comparing!Spec => []ComparesExactly` |
| | `ExportIsCoherent` | `Exporting!Spec => [](TypeOK /\ ExportsHoldTogether)` |

Each theorem of `PartsProofs` also says the same of `PartsSpec`, which is what
the run `parts` checks.

*The tables.* `Bookkeeping` = types, ordered timelines and indexed warnings is
inductive only as a whole. An appended batch is validated row by row, so that
its numbers continue the timeline follows by induction on the batch
(`BatchNumbers`, by least counterexample from `LeastNatural`), and only when the
last number of the timeline is its length. Recovery numbers its warning after
the greatest one; that there is a greatest one is the reason `WarningsIndexed`
belongs to the invariant (`NextWarningIsFree`). `Journal` adds the two journal
properties and `ActiveRunsUnfinished` (a run that has not ended has no exit),
without which a recovered run's explanation would not follow. Ancestry needs
`ParentsExist`: a run outside a set closed under parents stays outside once the
new run, which is nobody's parent, is taken out of that set. The lemmas of
`RunTablesProofs` speak of single transactions with arbitrary arguments, so they
serve `RunStore` and `Recorder` alike.

*The recorder.* Some thirty actions have only a few effects on a timeline. `RecorderProofs` shows
that each is one of `Effect`'s disjuncts: nothing (`Rests`), an event joins the
batch and perhaps the batch the table (`Says`), a full batch is kept because its
append failed (`Refuses`), a checkpoint commits (`Commits`) or loses its number
(`Loses`), the run is finished (`Concludes`), created, started, or the store
opened and closed. The invariants are then proved over the effects, not the
actions. `Base` = `Journal`, the types of memory, and `Placed` (which values go
with which place). The idea that carries most of them is to speak of `Log` =
`events[run] \o pending`, which a crash shortens and everything else only
extends: `Ledger` numbers it (`next = Len(Log) + lost + 1`), so the ledger of the table
and of memory are one statement, and the order of its clock gives
`DurationCoversTimeline`; `Announced` adds that no commit is ever pending;
`OneOpen` that starts and ends alternate in it and the open one is `cp`'s;
`Said` that it says so as soon as `interrupted` is set; `Shown` that the
snapshot to finish with is one of the run's checkpoints.

`RecorderLifecycle` adds what ties the place to the run's status (`Stages`), and
`Unfinished`: `RunCompleted` is in the batch only once a number was lost. With
`lost = 0` the finishing transaction always accepts the batch, and it fails only
if it is `Faulty`; with `lost > 0` no append of this run is ever accepted again,
so the event cannot become durable. That is why one condition, that the finish does
not fail, is all that atomicity and the refinement need: a failing commit
leaves an active run that recovery ends, which `RunLifecycle` allows. For
`RecorderSettlesItsRun`, `Settling` says that no number is lost and that the
columns `initial` and `final` are still free when a checkpoint of that reason is
taken, hence every commit and the finish are accepted; where one of commit,
finish or load fails this is not so, see section 6. `RunLifecycle`'s timeline is
the sequence of the kinds of the table's events (`KindLogs`); effects on memory
stutter.

`CompletedRunsWhole` needs no condition on `Faulty`, because what may fail is
exactly what spoils completion. A capture is `Clean` while `fatal` is "none" on
the way to the event loop and in it; it never becomes clean again. `CleanMoves`
sorts the steps of a run by what they do to `Log` while it stays clean: they
carry on a checkpoint, return from it, begin one, go onward or note a signal;
of any other step nothing is asked. `Sound` then says that the log of a clean
capture has no checkpoint that started and did not end (`Loose`) but the one
being taken, that the exit is in it when the final checkpoint begins, and after
it that the last row of `checkpoints` is that checkpoint, behind the exit
(`Covers`). `FinalStatus` is "completed" only of a clean capture, and nothing
touches a completed run afterwards (`RowFrozen`).

*The threads.* `IInv` = types, `Requests`, `Counted` and `Alone`, preserved by
the processes and the user, the producers (all of the form `Produces`), the
control server and the coordinator, whose steps handle an observation
(`Handles`), go on (`Proceeds`) or finish. `Counted` balances the chunks: until
something failed or the output was given up, what was read is what was recorded,
what is in the channel (`Outputs`, counted by cardinality) and the one about to
be sent; past the joins of the output the last two are nothing, and no later
send brings one. `Requests` says that at most one marker is in the channel, that
it is unanswered, and that while the child lives it is the one of the client
being served. It may be an older one only after the exit, when it can no longer
be accepted; that is why the reply slot needs no identifier. `Alone`: only
members of the group start processes in it.

*Objects.* `IInv` = types, `NamedWhenSynced` (what is linked is whole),
`ProcessesInOrder` (what a process has done by the place it is at, above all:
what it has put since it opened the store is safe and has a row) and
`ReferencesSurvive`. Only the holder of the lock deletes, and it has put
nothing. *Workspace*: `WalkMatches` (a directory on the stack that is not stale
has just the entries the walk has met) and `LookAgrees` (with nothing pending,
the last look and the checkpoint differ only in what slipped). *Checkout*:
`NamesByProgress` (what each name can be at each place), `CompleteTree` and
`ContentsTracked` (where the contents are that some look has found).

*Clone*. `CloneWalk` says that the walk is in directories it has come by, from
the root, and that a directory it made is complete or still open; `CloneYield`
that what it has come by is copied but for the file it reads, and that a file
written meanwhile is marked as changed; `CloneUnchanged` that what it has come by
is still there unless its directory is marked. The comparison of stamps in
`FinishFile` and `LeaveDirectory` turns these into the property.

*Collection*. While rows are read, every row up to the cursor is referenced or
counted (`RowsByCursor`), and the references that are off their page are not
after the cursor (`ReferencesByCursor`); likewise the files (`FilesByCursor`).
Of a page only `Covers` is used: it has the first ids after its start, and says
whether there are more (`PageCovers`, `NextOfPage`).

*Replay*. `GoodView` has the pages around the cursor and the processes met;
`PaneShows` and `TerminalShows` take the event they belong to as a parameter, so
a move that keeps a pane has to show that it is that of the new event too.
`TerminalShows` excepts a terminal that is marked as cut off; `CacheFits` bounds
the cache whatever is loaded, touched and evicted (`TouchFits`, `EvictFits`).
`Held` and the loading of several objects are recursive functions on numbers,
induction on which is by least counterexample (`LeastNatural`, `UpTo`).

*Comparison*. `MergeInOrder` (all that was passed is smaller than all that is
left) and `ChangesPassed` (the changes are the differences among what was
passed, in order, once): both validations of the report follow. `Ancestry`, a
parent being older than its forks, is what makes the recursive list of
ancestors end; `AncestorsList` and `AncestorsDescend` relate it to `Line`, which
is defined without recursion, and `RelationshipIsNearest` needs only these.

*Export*. The recorder appends between any two steps, so no two of `resolved`,
`listed` and `taken` are of the same time. `ExportEvents` says what is known
nevertheless: a page that has no more after it reaches at least what was known
when the run was resolved and when its checkpoints were listed, because the
timeline only grows; `HasAll` keeps that from the last page on. With it the
checkpoints listed include those of the run's row (`SnapshotsListed`), so the
snapshots are those of the listed checkpoints and no others.
That the writer refuses nothing is `PlannedInOrder`: names of one class come in
order because the n-th smallest element is unique (`EveryRank`, `SortedNames`),
classes follow one another, and their number is the one declared; what has been
written is a prefix of that (`ExportWritten`).

*What stays with TLC.* The liveness properties (`RunsSettle`, `SupervisionEnds`,
`ClientsAnswered`, `ScansComeEventually`), as fairness and `ENABLED` are out of
the prover's reach. Induction over data is possible only as a least
counterexample over numbers, which is how it is done above. Every safety
property of a passing run is stated by a theorem; `CompletionIsAtomic` and the
refinement of `RunLifecycle` under a finish that does not fail,
`RecorderSettlesItsRun` if commits and reloads work too, and the refinement of
`DurableObjects` where names are durable in order.

## 5. Not modelled

`PROJECT.json` lists every part with its status. Left out, because they are
sequential code without shared state that unit tests reach: schema migrations;
configuration, arguments and the reports of `show`, `list` and `doctor`; drawing,
scrolling and preview text of the replay interface; hashing, serde formats and
the parsing of identifiers, paths and times; glob matching and redaction
patterns; the validation of a bundle that is read back; the evaluation command
of `compare`, which is one call of the process wrappers per snapshot. Of the
platform wrappers, the process table, terminal modes and the socket's file and
permissions are left out; `Supervision` has the processes themselves.

Time is only ever "a deadline is armed" and "it has passed". Disk space, limits
on sizes and counts are failures of the call that meets them, except for the
pending paths, the channel, the output limit and the caches, which are modelled.

## 6. Where code and documents disagree

1. `recorder_finish_fault`, `CompletionIsAtomic`. When `finish_run_with_events`
   fails, `commit_finish` keeps its batch, `RunCompleted` included, in
   `pending`. The fallback path then flushes that batch through
   `append_event_batch` (with its checkpoint, or with the warning of a failed
   cleanup), so `RunCompleted` is durable on a running row, and the second
   finish appends another one. `docs/architecture.md:181` and the comment on
   `finish_run_with_events` exclude it.
2. `recorder_commit_fault`, `RecorderSettlesItsRun`. `commit_scanned` consumes a
   sequence number before its transaction. If that fails, every later batch
   starts one too high and is refused, the finishing one as well: the run stays
   active until the store is next opened, against the shutdown order and the
   checkpoint state machine of `docs/architecture.md`.
3. `objects_power_loss`, `ReferencesReadable`. `put_verified` synchronises the
   fan-out directory it linked an object into, but not `objects/`, which holds
   that directory's name. On a file system where a sync covers only the
   directory it is applied to, a power failure after the commit can drop the
   directory with a referenced object in it, against `docs/threat-model.md:224`.
   On file systems that journal names in order (`Ordered`) nothing is lost.

Observations that the properties are stated around:

- *Recorder.* After an append fails a `CheckpointStarted` may never be resolved
  (`OneCheckpointAtATime` is stated for the checkpoints that end, and
  `CompletedRunsAreWhole` excludes it for completed runs). A failed start
  followed by a failed reload leaves a run active with nothing queued. A run
  that could not be started is finished with its initial snapshot as the final
  one (`SnapshotsCommitted` allows it, with no child).
- *Control socket.* A request has no identity, so a client that lost its answer
  and asks again gets a second checkpoint.
- *Dirty tracker.* A change between a scan and the reread after it, or a reread
  that fails, can leave a difference that neither look shows; it is noticed with
  the next change (`slipped`).
- *Dirty tracker, under steady writes.* `docs/architecture.md:138` says that "a
  maximum interval and the shutdown path guarantee an eventual scan". Only the
  shutdown path does: `walk_state` fails on any change of what it looks at, and `poll_workspace` then
  returns without asking whether a checkpoint is due; nothing bounds how often
  that happens, so before the end of the run no scan need ever come.
- *Checkout.* The documents have a nonempty destination refused without `force`
  (`docs/storage-format.md:192`, `docs/replay-semantics.md:59`,
  `docs/threat-model.md:90`). Of the three looks only the first two refuse. What
  is put there between the second (`restore.rs:92`) and the third (`:103`) is
  found, moved to the backup name and removed, `force` or not: `late` without
  `unseen`, which `CheckoutAllOrNothing` lets a checkout in place replace, and
  nothing else. What is put there after the third look can be moved and removed
  the same way, and `Rollback` can replace it: a rename takes the name whatever
  has it by then.
- *Clone.* Each file and each directory is as it was at one time, the workspace
  as a whole need not be. The error of the removal of a failed clone is dropped
  (`filesystem.rs:684`), so what it left stays, unreported; so does the clone of
  a process that died. If another process makes the destination between `exists`
  and `create_dir`, cleaning up removes that one; ids of runs are fresh, so
  nobody does.
- *Comparison.* A run that recovery closed has no final snapshot, so it is never
  compared, whatever checkpoints it has.
- *doctor.* Without a lock it may report an object that a collection is just
  deleting; nothing refers to it.
- *Replay.* The highlighted line of the process pane is clamped when a page is
  taken in or the key is pressed, not when the cursor moves within its page: after
  a step back it can be past the visible processes. When a process was first met
  depends on the pages viewed.
- *Export.* In a bundle of a run that goes on, events may announce a checkpoint
  whose record is not in it, since checkpoints are listed before the events are
  read, and `run.json` may say *running* beside a `RunCompleted`; the other
  direction holds. HTML marks an input that was recorded redacted as redacted too.

## 7. Plan

1. The composition of `Recorder` with `Supervision`'s threads, as a refinement
   that maps handled observations to arrivals.
2. The evaluation command of `compare`: two checkouts, two runs of a process
   with a deadline, and their removal on every path.
