------------------------------ MODULE RunTables -----------------------------
(***************************************************************************)
(* The metadata half of the store: crates/rewind-store's run rows, event   *)
(* timelines, checkpoints, warnings and ancestry links, with one action    *)
(* per SQLite transaction.  A transaction is atomic (WAL, synchronous =    *)
(* FULL), so an action either has its whole effect or, when the guard that *)
(* stands for its validation is false, is not taken: a rejected call       *)
(* changes nothing.  Reads are left out.                                   *)
(*                                                                         *)
(* A checkpoint's UUID is modelled as a number that is unique in its run.  *)
(* Payloads keep the fields the lifecycle depends on; every payload that   *)
(* only adds a row to the timeline is the kind "Observed".                 *)
(***************************************************************************)
EXTENDS Integers, Sequences

CONSTANTS Runs,       \* run identities
          Snapshots,  \* snapshot identities (digests of workspace trees)
          None        \* an absent optional field

ASSUME NoneIsAbsent == None \notin Snapshots \cup {"success", "error", "unknown"}

VARIABLES writer,       \* "closed", or "open" while a process holds writer.lock
          row,          \* run -> its row of table runs
          parent,       \* run -> its row of table run_parents, or None
          events,       \* run -> its rows of table events, in sequence order
          checkpoints,  \* run -> its rows of table checkpoints
          warnings,     \* run -> its rows of table warnings
          snapshots     \* the rows of table snapshots

storeVars == <<writer, row, parent, events, checkpoints, warnings, snapshots>>

-----------------------------------------------------------------------------
(* Values.                                                                 *)

Active   == {"preparing", "running"}
Terminal == {"completed", "failed", "interrupted", "crashed"}
Exits    == {"success", "error", "unknown"}
Reasons  == {"initial", "manual", "quiescence", "final"}
Offsets  == Nat

\* Mutant: a run may complete without having run.
CanTransition_Skips(from, to) == from \in Active /\ to \in Terminal \cup {"running"}

CanTransition(from, to) ==
  \/ from = "preparing" /\ to \in {"running", "failed", "interrupted", "crashed"}
  \/ from = "running" /\ to \in Terminal

CheckpointIds == Nat

Bodies ==
       [kind : {"Observed", "RunStarted", "RunInterrupted", "ProcessExited", "Warning"}]
  \cup [kind : {"MarkerCreated", "CheckpointStarted", "CheckpointFailed"}, id : CheckpointIds]
  \cup [kind : {"CheckpointCommitted"}, id : CheckpointIds, snapshot : Snapshots]
  \cup [kind : {"RunCompleted"}, status : Terminal, exit : Exits \cup {None}]

Events == [seq : Nat, at : Offsets, body : Bodies]

Checkpoints == [seq : Nat, id : CheckpointIds, reason : Reasons, snapshot : Snapshots]

Committed(c) == [kind |-> "CheckpointCommitted", id |-> c.id, snapshot |-> c.snapshot]

Completion(f) == [kind |-> "RunCompleted", status |-> f.status, exit |-> f.exit]

Finishes == [status : Terminal, exit : Exits \cup {None},
             final : Snapshots \cup {None}, duration : Offsets]

Rows == [status : {"absent"} \cup Active \cup Terminal,
         initial : Snapshots \cup {None}, final : Snapshots \cup {None},
         exit : Exits \cup {None}, duration : Offsets \cup {None}]

EmptyRow == [status |-> "absent", initial |-> None, final |-> None,
             exit |-> None, duration |-> None]

LastSeq(r) == IF events[r] = <<>> THEN 0 ELSE events[r][Len(events[r])].seq

\* The duration recovery stores: the largest offset of the timeline, which
\* the append check keeps in its last row; 0 for an empty timeline.
LastOffset(r) == IF events[r] = <<>> THEN 0 ELSE events[r][Len(events[r])].at

-----------------------------------------------------------------------------
(* What each transaction validates and what it writes.                     *)

\* Mutant: sequence numbers only have to increase.
CanAppend_Increasing(r, batch) ==
  \/ batch = <<>>
  \/ /\ row[r].status \in Active
     /\ batch[1].seq > LastSeq(r)
     /\ batch[1].at >= LastOffset(r)
     /\ \A i \in 2..Len(batch) : batch[i].seq > batch[i-1].seq /\ batch[i].at >= batch[i-1].at

\* Mutant: the status of the run is not looked at.
CanAppend_AnyStatus(r, batch) ==
  \/ batch = <<>>
  \/ /\ batch[1].seq = LastSeq(r) + 1
     /\ batch[1].at >= LastOffset(r)
     /\ \A i \in 2..Len(batch) : /\ batch[i].seq = batch[i-1].seq + 1
                                 /\ batch[i].at >= batch[i-1].at

CanAppend(r, batch) ==
  \/ batch = <<>>
  \/ /\ row[r].status \in Active
     /\ batch[1].seq = LastSeq(r) + 1
     /\ batch[1].at >= LastOffset(r)
     /\ \A i \in 2..Len(batch) : /\ batch[i].seq = batch[i-1].seq + 1
                                 /\ batch[i].at >= batch[i-1].at

WarningRows(batch) ==
  {[seq |-> batch[i].seq, code |-> "recorder"] :
      i \in {j \in 1..Len(batch) : batch[j].body.kind = "Warning"}}

Appended(r, batch) ==
  /\ events' = [events EXCEPT ![r] = @ \o batch]
  /\ warnings' = [warnings EXCEPT ![r] = @ \cup WarningRows(batch)]

CanCommit(r, c) ==
  /\ row[r].status # "absent"
  /\ \A d \in checkpoints[r] : d.seq # c.seq /\ d.id # c.id
  /\ c.reason = "initial" => row[r].initial \in {None, c.snapshot}
  /\ c.reason = "final"   => row[r].final \in {None, c.snapshot}

\* Mutant: the wrong column is bound.
CheckpointStored_WrongColumn(r, c) ==
  /\ snapshots' = snapshots \cup {c.snapshot}
  /\ checkpoints' = [checkpoints EXCEPT ![r] = @ \cup {c}]
  /\ row' = [row EXCEPT ![r].initial = IF c.reason = "initial" THEN c.id ELSE @]

CheckpointStored(r, c) ==
  /\ snapshots' = snapshots \cup {c.snapshot}
  /\ checkpoints' = [checkpoints EXCEPT ![r] = @ \cup {c}]
  /\ row' = [row EXCEPT ![r].initial = IF c.reason = "initial" THEN c.snapshot ELSE @,
                        ![r].final   = IF c.reason = "final"   THEN c.snapshot ELSE @]

CanFinish(r, f) ==
  /\ CanTransition(row[r].status, f.status)
  /\ f.final \in snapshots \cup {None}

Finished(r, f) ==
  row' = [row EXCEPT ![r].status = f.status, ![r].exit = f.exit,
                     ![r].final = f.final, ![r].duration = f.duration]

\* The ancestors of p, p included: the members of every set that holds p and
\* the parent of each of its members (the WITH RECURSIVE query).
Lineage(p) ==
  {a \in Runs : \A S \in SUBSET Runs :
     (p \in S /\ \A x \in S : parent[x] # None => parent[x].run \in S) => a \in S}

-----------------------------------------------------------------------------
(* Transactions.                                                           *)

\* Mutant: the warning does not look for a free sequence number.
Recover_FixedSequence ==
  LET orphans == {r \in Runs : row[r].status \in Active}
  IN /\ row' = [r \in Runs |-> IF r \in orphans
                  THEN [row[r] EXCEPT !.status = "interrupted", !.duration = LastOffset(r)]
                  ELSE row[r]]
     /\ warnings' = [r \in Runs |-> IF r \in orphans
                  THEN warnings[r] \cup {[seq |-> 1, code |-> "recovered"]}
                  ELSE warnings[r]]
     /\ UNCHANGED <<parent, events, checkpoints, snapshots>>

\* Mutant: runs that were still being prepared are overlooked.
Recover_RunningOnly ==
  /\ row' = [r \in Runs |-> IF row[r].status = "running"
               THEN [row[r] EXCEPT !.status = "interrupted", !.duration = LastOffset(r)]
               ELSE row[r]]
  /\ UNCHANGED <<parent, events, checkpoints, warnings, snapshots>>

\* The first number after every warning of the run.
NextWarning(r) ==
  IF warnings[r] = {} THEN 1
  ELSE (CHOOSE w \in warnings[r] : \A v \in warnings[r] : v.seq <= w.seq).seq + 1

\* Recovery: one transaction over every active row.
Recover ==
  LET orphans == {r \in Runs : row[r].status \in Active}
  IN /\ row' = [r \in Runs |->
                  IF r \in orphans
                  THEN [row[r] EXCEPT !.status = "interrupted", !.duration = LastOffset(r)]
                  ELSE row[r]]
     /\ warnings' = [r \in Runs |->
                  IF r \in orphans
                  THEN warnings[r] \cup {[seq |-> NextWarning(r), code |-> "recovered"]}
                  ELSE warnings[r]]
     /\ UNCHANGED <<parent, events, checkpoints, snapshots>>

\* Store::open: the writer lock is free, the schema is current, and recovery
\* runs before the handle is returned.
OpenStore ==
  /\ writer = "closed"
  /\ writer' = "open"
  /\ Recover

\* The handle is dropped, or its process dies: the kernel lock goes with it.
CloseStore ==
  /\ writer = "open"
  /\ writer' = "closed"
  /\ UNCHANGED <<row, parent, events, checkpoints, warnings, snapshots>>

\* Mutant: the fork point is not checked.
CreateRun_AnyParent(r, p) ==
  /\ writer = "open"
  /\ row[r].status = "absent"
  /\ row' = [row EXCEPT ![r].status = "preparing"]
  /\ parent' = [parent EXCEPT ![r] = p]
  /\ UNCHANGED <<writer, events, checkpoints, warnings, snapshots>>

CreateRun(r, p) ==
  /\ writer = "open"
  /\ row[r].status = "absent"
  /\ p # None => /\ r \notin Lineage(p.run)
                 /\ row[p.run].status # "absent"
                 /\ \E c \in checkpoints[p.run] : c.id = p.checkpoint
  /\ row' = [row EXCEPT ![r].status = "preparing"]
  /\ parent' = [parent EXCEPT ![r] = p]
  /\ UNCHANGED <<writer, events, checkpoints, warnings, snapshots>>

MarkRunRunning(r, s) ==
  /\ writer = "open"
  /\ row[r].status = "preparing"
  /\ s \in snapshots
  /\ row' = [row EXCEPT ![r].status = "running", ![r].initial = s]
  /\ UNCHANGED <<writer, parent, events, checkpoints, warnings, snapshots>>

AppendEventBatch(r, batch) ==
  /\ writer = "open"
  /\ CanAppend(r, batch)
  /\ Appended(r, batch)
  /\ UNCHANGED <<writer, row, parent, checkpoints, snapshots>>

\* Mutant: the event is not validated against the timeline.
CommitCheckpointWithEvent_Unchecked(r, c, e) ==
  /\ writer = "open"
  /\ e.seq = c.seq /\ e.body = Committed(c)
  /\ CanCommit(r, c)
  /\ CheckpointStored(r, c)
  /\ Appended(r, <<e>>)
  /\ UNCHANGED <<writer, parent>>

\* Mutant: the row is written without its event.
CommitCheckpointWithEvent_RowOnly(r, c, e) ==
  /\ writer = "open"
  /\ CanCommit(r, c) /\ CanAppend(r, <<e>>)
  /\ CheckpointStored(r, c)
  /\ UNCHANGED <<writer, parent, events, warnings>>

CommitCheckpointWithEvent(r, c, e) ==
  /\ writer = "open"
  /\ e.seq = c.seq /\ e.body = Committed(c)
  /\ CanCommit(r, c) /\ CanAppend(r, <<e>>)
  /\ CheckpointStored(r, c)
  /\ Appended(r, <<e>>)
  /\ UNCHANGED <<writer, parent>>

\* Mutant: the last event may disagree with the finish metadata.
FinishRunWithEvents_AnyEvent(r, f, batch) ==
  /\ writer = "open"
  /\ batch # <<>>
  /\ CanAppend(r, batch) /\ CanFinish(r, f)
  /\ Appended(r, batch)
  /\ Finished(r, f)
  /\ UNCHANGED <<writer, parent, checkpoints, snapshots>>

\* Mutant: the row is left for a second transaction.
FinishRunWithEvents_EventsOnly(r, f, batch) ==
  /\ writer = "open"
  /\ batch # <<>> /\ batch[Len(batch)].body = Completion(f)
  /\ CanAppend(r, batch) /\ CanFinish(r, f)
  /\ Appended(r, batch)
  /\ UNCHANGED <<writer, row, parent, checkpoints, snapshots>>

FinishRunWithEvents(r, f, batch) ==
  /\ writer = "open"
  /\ batch # <<>> /\ batch[Len(batch)].body = Completion(f)
  /\ CanAppend(r, batch) /\ CanFinish(r, f)
  /\ Appended(r, batch)
  /\ Finished(r, f)
  /\ UNCHANGED <<writer, parent, checkpoints, snapshots>>

\* Exported operations the recorder does not use: benchmarks and tests do.
\* Recovery is one of them, apart from its use in Store::open.
MarkInterruptedRuns ==
  /\ writer = "open"
  /\ Recover
  /\ UNCHANGED writer

StoreSnapshot(s) ==
  /\ writer = "open"
  /\ snapshots' = snapshots \cup {s}
  /\ UNCHANGED <<writer, row, parent, events, checkpoints, warnings>>

CommitCheckpoint(r, c) ==
  /\ writer = "open"
  /\ CanCommit(r, c)
  /\ CheckpointStored(r, c)
  /\ UNCHANGED <<writer, parent, events, warnings>>

FinishRun(r, f) ==
  /\ writer = "open"
  /\ CanFinish(r, f)
  /\ Finished(r, f)
  /\ UNCHANGED <<writer, parent, events, checkpoints, warnings, snapshots>>

StoreInit ==
  /\ writer = "closed"
  /\ row = [r \in Runs |-> EmptyRow]
  /\ parent = [r \in Runs |-> None]
  /\ events = [r \in Runs |-> <<>>]
  /\ checkpoints = [r \in Runs |-> {}]
  /\ warnings = [r \in Runs |-> {}]
  /\ snapshots = {}

-----------------------------------------------------------------------------
(* What the tables promise.                                                *)

\* Every table holds rows of its schema.
StoreTypeOK ==
  /\ writer \in {"closed", "open"}
  /\ row \in [Runs -> Rows]
  /\ parent \in [Runs -> {None} \cup [run : Runs, checkpoint : CheckpointIds]]
  /\ events \in [Runs -> Seq(Events)]
  /\ checkpoints \in [Runs -> SUBSET Checkpoints]
  /\ warnings \in [Runs -> SUBSET [seq : Nat, code : {"recorder", "recovered"}]]
  /\ snapshots \in SUBSET Snapshots

\* Whatever sequences and offsets clients submit, a stored timeline is numbered
\* 1, 2, 3, ... without a hole or a repeat and its offsets never go back
\* (append_event_batch: "validates strictly increasing contiguous run order").
TimelineOrdered ==
  \A r \in Runs : \A i \in 1..Len(events[r]) :
    /\ events[r][i].seq = i
    /\ i > 1 => events[r][i].at >= events[r][i-1].at

\* A checkpoint row always stands beside the event that announces it, at the
\* same sequence number, with the same identity and snapshot, whatever was
\* committed, rejected or recovered in between (commit_checkpoint_with_event).
CheckpointsJournalled ==
  \A r \in Runs : \A c \in checkpoints[r] :
    /\ c.seq \in 1..Len(events[r])
    /\ events[r][c.seq].body = Committed(c)

\* A terminal run says why it ended: either its timeline ends in a RunCompleted
\* event with the row's own status and exit, or recovery closed it, leaving no
\* exit, a duration read off the last durable event, and a warning
\* (finish_run_with_events, mark_interrupted_runs).
TerminalRunsExplained ==
  \A r \in Runs : row[r].status \in Terminal =>
    \/ /\ events[r] # <<>>
       /\ events[r][Len(events[r])].body = Completion(row[r])
    \/ /\ row[r].status = "interrupted"
       /\ row[r].exit = None
       /\ row[r].duration = LastOffset(r)
       /\ \E w \in warnings[r] : w.code = "recovered"

\* The warning index and the timeline agree: one "recorder" row for each Warning
\* event, at its sequence, and a recovery row only on a terminal run, numbered
\* after them (the insert in append_event_batch_in and the one in recovery).
WarningsIndexed ==
  \A r \in Runs :
    /\ {w \in warnings[r] : w.code = "recorder"} = WarningRows(events[r])
    /\ \A w \in warnings[r] : w.code = "recovered" =>
         /\ row[r].status \in Terminal
         /\ \A v \in warnings[r] : v = w \/ v.seq < w.seq

\* Fork ancestry is acyclic and every fork point is a checkpoint its parent
\* still has (reject_parent_cycle and the composite foreign key).
AncestryWellFounded ==
  \A r \in Runs : parent[r] # None =>
    /\ r \notin Lineage(parent[r].run)
    /\ \E c \in checkpoints[parent[r].run] : c.id = parent[r].checkpoint
=============================================================================
