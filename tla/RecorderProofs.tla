----------------------------- MODULE RecorderProofs -----------------------------
(***************************************************************************)
(* A capture is one of the clients of the run tables, with any batch size, *)
(* any faulty operations and any number of runs one after the other: every *)
(* action of Recorder is one of nine effects on the tables and the ledger, *)
(* and what a capture keeps true of the store, whatever fails and wherever *)
(* it crashes, is proved effect by effect.                                 *)
(***************************************************************************)
EXTENDS Recorder, RunTablesProofs

\* The places of the checkpoint routine.
Checkpointing == {"ckptStart", "ckptScan", "ckptLimit", "ckptFail", "ckptCommit"}

\* The places before the event loop.
Early == {"off", "opened", "clone", "markRunning", "setup", "startRun", "startInfo", "spawn"}

\* What the place in the code says about the other variables: who is alive, what
\* the checkpoint in progress holds, and that nothing is pending while the
\* workspace is scanned (the start of a checkpoint was flushed).
Placed ==
  /\ pc = "off" <=> writer = "closed"
  /\ run = None => pc \in {"off", "opened", "done"}
  /\ pc \in {"off", "opened"} => run = None
  /\ pc \in Checkpointing => cp.reason \in Reasons
  /\ pc = "ckptCommit" => cp.snapshot \in Snapshots
  /\ pc \in {"ckptScan", "ckptLimit", "ckptCommit"} => pending = <<>>
  /\ pc \in Early => mode = "prepare"
  /\ pc \in Checkpointing /\ cp.reason = "initial" => mode = "prepare"
  /\ mode = "supervised" =>
       \/ pc = "supervise"
       \/ pc \in Checkpointing /\ cp.reason \in {"manual", "quiescence"}
       \/ child \in Exits

\* The timeline as the recorder has it: what is durable and what is pending.
Log == events[run] \o pending

\* An event of a checkpoint is of the one being taken, at its place in the routine.
Bracketed(b) ==
  /\ b.kind = "CheckpointStarted"   => pc = "ckptStart"  /\ b.id = cp.id
  /\ b.kind = "CheckpointFailed"    => pc = "ckptFail"   /\ b.id = cp.id
  /\ b.kind = "CheckpointCommitted" => pc = "ckptCommit" /\ b.id = cp.id

\* The bodies that go through the batch: all but the commit of a checkpoint.
Batched == {b \in Bodies : b.kind # "CheckpointCommitted" /\ Bracketed(b)}

\* Those of emit: all but the completion of the run.
Ordinary == {b \in Batched : b.kind # "RunCompleted"}

\* What sending an event does, whether its batch is appended, kept or refused.
Sent(body) ==
  /\ Journal' /\ pending' \in Seq(Events) /\ next' = next + 1
  /\ UNCHANGED <<writer, row, parent, checkpoints, snapshots>>
  /\ \A q \in Runs \ {run} : events'[q] = events[q]
  /\ row[run].status \notin Active => events' = events
  /\ events'[run] \o pending' = Append(Log, Stamped(body))
  /\ \/ events' = events /\ pending' = Append(pending, Stamped(body))
     \/ pending' = <<>> /\ CanAppend(run, Append(pending, Stamped(body)))

\* A batch of one more event is one more event of the log.
LEMMA AppendLast ==
  ASSUME NEW s \in Seq(Events), NEW t \in Seq(Events), NEW e \in Events
  PROVE  s \o Append(t, e) = Append(s \o t, e)
<1>1. <<e>> \in Seq(Events) /\ s \o t \in Seq(Events)
  BY ConcatProperties
<1>2. Append(t, e) = t \o <<e>> /\ Append(s \o t, e) = (s \o t) \o <<e>>
  BY <1>1, AppendIsConcat
<1> QED BY <1>1, <1>2, ConcatAssociative

\* The events without an identity go through the batch.
LEMMA PlainOrdinary ==
  \A kind \in {"Observed", "RunStarted", "RunInterrupted", "ProcessExited", "Warning"} :
    Plain(kind) \in Ordinary
BY DEF Plain, Ordinary, Batched, Bracketed, Bodies

\* The sequencer makes events.
LEMMA StampedType ==
  ASSUME TypeOK, NEW body \in Bodies
  PROVE  Stamped(body) \in Events
BY DEF TypeOK, Stamped, Events, Offsets

\* The journal speaks of the tables only.
LEMMA StoreUnchanged ==
  ASSUME Journal, UNCHANGED storeVars
  PROVE  Journal'
BY DEF storeVars, Journal, Bookkeeping, StoreTypeOK, TimelineOrdered, WarningsIndexed,
       CheckpointsJournalled, TerminalRunsExplained, ActiveRunsUnfinished, LastOffset

\* Send has the effect of Sent for every outcome of its flush.
LEMMA SendEffect ==
  ASSUME TypeOK, Journal, run \in Runs, NEW body \in Bodies, NEW durable, NEW ok \in BOOLEAN,
         Send(body, durable, ok)
  PROVE  Sent(body)
<1> DEFINE e == Stamped(body)
           batch == Append(pending, e)
           flushes == durable \/ Len(batch) >= Batch
<1> HIDE DEF e
<1>1. e \in Events /\ pending \in Seq(Events) /\ events[run] \in Seq(Events)
  BY StampedType DEF TypeOK, StoreTypeOK, e
<1>2. batch \in Seq(Events) /\ batch # <<>>
  BY <1>1
<1>3. next' = next + 1 /\ pending' = IF flushes /\ ok THEN <<>> ELSE batch
  BY DEF Send, e
<1>4. CASE flushes /\ ok
  <2>1. AppendEventBatch(run, batch)
    BY <1>4 DEF Send, e
  <2>2. Journal'
    BY <2>1, <1>2, AppendKeepsJournal
  <2>3. /\ events'[run] = events[run] \o batch
        /\ \A q \in Runs \ {run} : events'[q] = events[q]
        /\ UNCHANGED <<writer, row, parent, checkpoints, snapshots>>
    BY <2>1 DEF AppendEventBatch, Appended, TypeOK, StoreTypeOK
  <2>0. row[run].status \in Active
    BY <2>1, <1>2 DEF AppendEventBatch, CanAppend
  <2>4. events[run] \o batch = Append(Log, e)
    BY <1>1, AppendLast DEF Log
  <2>5. (events[run] \o batch) \o <<>> = events[run] \o batch
    <3> events[run] \o batch \in Seq(Events)
      BY <1>1, <1>2, ConcatProperties
    <3> QED BY ConcatEmptySeq
  <2>6. pending' = <<>> /\ <<>> \in Seq(Events)
    BY <1>3, <1>4
  <2>7. events'[run] \o pending' = Append(Log, Stamped(body))
    BY <2>3, <2>4, <2>5, <2>6 DEF e
  <2>8. CanAppend(run, Append(pending, Stamped(body)))
    BY <2>1 DEF AppendEventBatch, e
  <2> QED BY <1>3, <2>0, <2>2, <2>3, <2>6, <2>7, <2>8 DEF Sent
<1>5. CASE ~(flushes /\ ok)
  <2>1. UNCHANGED storeVars
    BY <1>5 DEF Send, StoreFails, e
  <2>2. events[run] \o batch = Append(Log, e)
    BY <1>1, AppendLast DEF Log
  <2> QED BY <1>2, <1>3, <1>5, <2>1, <2>2, StoreUnchanged DEF Sent, storeVars, e
<1> QED BY <1>4, <1>5

-----------------------------------------------------------------------------
(* Types, the tables and the places.                                       *)

LocalTypes ==
  /\ pc \in Places /\ mode \in Modes
  /\ run \in Runs \cup {None}
  /\ clock \in Nat /\ next \in Nat \ {0} /\ lost \in Nat
  /\ pending \in Seq(Events)
  /\ cp \in [reason : Reasons \cup {None}, id : CheckpointIds,
             snapshot : Snapshots \cup {None}, error : {"none", "snapshot", "other", "store"}]
  /\ child \in {"none", "alive"} \cup Exits
  /\ group \in {"unknown", "stopped", "stuck"}
  /\ interrupted \in BOOLEAN
  /\ fatal \in {"none", "store", "other"}
  /\ final \in Snapshots \cup {None}

\* The first invariant: the tables keep their journal, the variables their
\* types and every place its meaning.
Base == Journal /\ LocalTypes /\ Placed

\* The type invariant that the runs check follows from it.
LEMMA BaseTypes == Base => TypeOK
BY DEF Base, Journal, Bookkeeping, LocalTypes, TypeOK

-----------------------------------------------------------------------------
(* What a step does to the timeline and the tables: nine kinds of step.    *)

\* The ledger and the tables stay; time may pass.
Rests == UNCHANGED <<storeVars, run, next, lost, pending>> /\ clock <= clock'

\* An event joins the log, durable or pending.
Says == \E body \in Ordinary : Sent(body) /\ UNCHANGED <<run, lost, clock>>

\* The finish is refused or fails: its completion stays pending.
Refuses ==
  /\ pc = "finish" /\ Outcome \in Finishes
  /\ Sent(Completion(Outcome)) /\ UNCHANGED <<storeVars, run, lost, clock>>
  /\ "finish" \notin Faulty =>
       ~ (CanAppend(run, Append(pending, Stamped(Completion(Outcome)))) /\ CanFinish(run, Outcome))

Sends == Says \/ Refuses

\* The row of the checkpoint in progress.
Row == [seq |-> next, id |-> cp.id, reason |-> cp.reason, snapshot |-> cp.snapshot]

\* commit_scanned commits, or fails and consumes a number.
Commits ==
  /\ pc = "ckptCommit" /\ next' = next + 1
  /\ CommitCheckpointWithEvent(run,
       [seq |-> next, id |-> cp.id, reason |-> cp.reason, snapshot |-> cp.snapshot],
       Stamped(Committed(cp)))
  /\ UNCHANGED <<run, lost, clock, pending>>

Loses ==
  /\ pc = "ckptCommit" /\ next' = next + 1 /\ lost' = lost + 1
  /\ "commit" \notin Faulty => ~ (CanCommit(run, Row) /\ CanAppend(run, <<Stamped(Committed(cp))>>))
  /\ UNCHANGED <<storeVars, run, clock, pending>>

\* The batch that completes the run and its row are committed.
Concludes ==
  /\ pc = "finish" /\ Outcome \in Finishes /\ next' = next + 1 /\ pending' = <<>>
  /\ FinishRunWithEvents(run, Outcome, Append(pending, Stamped(Completion(Outcome))))
  /\ UNCHANGED <<run, lost, clock>>

\* The run is marked running.
Starting ==
  /\ MarkRunRunning(run, row[run].initial)
  /\ UNCHANGED <<run, clock, next, lost, pending>>

\* A process opens the store, leaves it or creates its run.
Opens  == OpenStore /\ UNCHANGED <<run, clock, next, lost, pending>>
Closes == CloseStore /\ Forget

Creates ==
  \E r \in Runs : \E p \in {None} \cup [run : Runs, checkpoint : CheckpointIds] :
    /\ CreateRun(r, p) /\ pc = "opened" /\ run' = r
    /\ UNCHANGED <<clock, next, lost, pending>>

Effect ==
  \/ Rests \/ Loses \/ Opens \/ Closes \/ Creates
  \/ run \in Runs /\ (Sends \/ Commits \/ Concludes \/ Starting)

\* Either way of sending goes through the batch.
LEMMA SendsSent ==
  Sends => \E body \in Batched : Sent(body) /\ UNCHANGED <<run, lost, clock>>
<1>1. Outcome \in Finishes => Completion(Outcome) \in Batched
  BY DEF Completion, Finishes, Batched, Bracketed, Bodies
<1> QED BY <1>1 DEF Sends, Says, Refuses, Ordinary

\* Sending an event is a step of the kind Sends that keeps the journal.
LEMMA SendBase ==
  ASSUME Base, run \in Runs, NEW body \in Ordinary, NEW durable, NEW ok \in BOOLEAN,
         Send(body, durable, ok), UNCHANGED <<run, lost, clock>>
  PROVE  /\ Effect /\ Journal' /\ pending' \in Seq(Events) /\ next' \in Nat \ {0}
         /\ lost' \in Nat /\ writer' = writer /\ row' = row
         /\ durable /\ ok => pending' = <<>>
<1>1. Sent(body)
  <2>1. TypeOK /\ Journal /\ body \in Bodies
    BY BaseTypes DEF Base, Ordinary, Batched
  <2> QED BY <2>1, SendEffect
<1>2. next' \in Nat \ {0}
  BY <1>1 DEF Sent, Base, LocalTypes
<1>3. durable /\ ok => pending' = <<>>
  BY DEF Send
<1>4. Effect
  BY <1>1 DEF Effect, Sends, Says
<1> QED BY <1>1, <1>2, <1>3, <1>4 DEF Sent, Base, LocalTypes

\* So is every step that leaves the tables and the ledger alone.
LEMMA RestBase ==
  ASSUME Base, UNCHANGED <<storeVars, run, next, lost, pending, clock>>
  PROVE  /\ Effect /\ Journal' /\ pending' \in Seq(Events) /\ next' \in Nat \ {0}
         /\ lost' \in Nat /\ writer' = writer /\ row' = row
<1>1. Journal'
  BY StoreUnchanged DEF Base
<1>2. Effect
  BY DEF Effect, Rests, Base, LocalTypes
<1> QED BY <1>1, <1>2 DEF Base, LocalTypes, storeVars

\* The checkpoint that begins has its type and its place.
LEMMA BeginTypes ==
  ASSUME LocalTypes, next' \in Nat \ {0}, NEW reason \in Reasons, Begin(reason)
  PROVE  /\ pc' = "ckptStart" /\ cp'.reason = reason /\ cp'.id = next' /\ cp'.snapshot = None
         /\ cp' \in [reason : Reasons \cup {None}, id : CheckpointIds,
                     snapshot : Snapshots \cup {None}, error : {"none", "snapshot", "other", "store"}]
BY DEF Begin, NoCheckpoint, Goto, CheckpointIds, Reasons

\* The caller of the checkpoint routine goes on in a well-typed state.
LEMMA ReturnTypes ==
  ASSUME Base, pc \in Checkpointing, run \in Runs, Journal', writer' = writer,
         NEW outcome \in {"ok", "none", "snapshot", "other", "store"},
         outcome = "ok" => cp.snapshot \in Snapshots, Return(outcome),
         pending' \in Seq(Events), next' \in Nat \ {0}, lost' \in Nat
  PROVE  Base'
<1>1. /\ UNCHANGED <<run, clock, mode, child, group, interrupted>> /\ cp' = NoCheckpoint
      /\ pc' = CASE cp.reason = "initial" -> IF outcome = "ok" THEN "markRunning" ELSE "prepFail"
                 [] cp.reason = "final"   -> IF outcome = "ok" THEN "exclusions" ELSE "cleanup"
                 [] OTHER                 -> "supervise"
  BY DEF Return, Goto
<1>2. pc' \in {"markRunning", "prepFail", "exclusions", "cleanup", "supervise"}
  BY <1>1
<1>3. fatal' \in {"none", "store", "other"}
  <2>1. fatal \in {"none", "store", "other"}
    BY DEF Base, LocalTypes
  <2>2. CASE fatal' = fatal
    BY <2>1, <2>2
  <2>3. CASE fatal' = Failing("other") /\ outcome = "snapshot"
    BY <2>1, <2>3 DEF Failing
  <2>4. CASE fatal' = Failing(outcome) /\ outcome \notin {"ok", "snapshot"}
    BY <2>1, <2>4 DEF Failing
  <2>5. fatal' \in {fatal, Failing(IF outcome = "snapshot" THEN "other" ELSE outcome)}
    BY DEF Return
  <2>6. outcome = "ok" => fatal' = fatal
    BY DEF Return
  <2> QED BY <2>2, <2>3, <2>4, <2>5, <2>6
<1>4. final' \in Snapshots \cup {None}
  <2>1. row[run].initial \in Snapshots \cup {None}
    BY DEF Base, Journal, Bookkeeping, StoreTypeOK, Rows
  <2> QED BY <2>1 DEF Return, Base, LocalTypes
<1>5. NoCheckpoint \in [reason : Reasons \cup {None}, id : CheckpointIds,
             snapshot : Snapshots \cup {None}, error : {"none", "snapshot", "other", "store"}]
  BY DEF NoCheckpoint, CheckpointIds
<1>6. LocalTypes'
  BY <1>1, <1>2, <1>3, <1>4, <1>5 DEF Base, LocalTypes, Places
<1>7. mode' = "supervised" => pc' = "supervise" \/ child' \in Exits
  <2> SUFFICES ASSUME mode' = "supervised", pc' # "supervise" PROVE child' \in Exits
    OBVIOUS
  <2>1. cp.reason \notin {"manual", "quiescence"} /\ pc # "supervise"
    BY <1>1 DEF Checkpointing
  <2> QED BY <1>1, <2>1 DEF Base, Placed
<1>8. Placed'
  BY <1>1, <1>2, <1>7 DEF Base, Placed, Early, Checkpointing
<1> QED BY <1>6, <1>8 DEF Base
-----------------------------------------------------------------------------
(* The checkpoint routine.                                                 *)

\* The start of a checkpoint is flushed, or the routine returns.
LEMMA CheckpointStartsBase == ASSUME Base, CheckpointStarts PROVE Base' /\ Effect
<1>1. run \in Runs /\ pc \in Checkpointing /\ cp.id \in Nat /\ pc = "ckptStart"
  BY DEF CheckpointStarts, Base, LocalTypes, Placed, Early, Checkpointing, CheckpointIds
<1>2. About("CheckpointStarted") \in Ordinary
  BY <1>1 DEF About, Ordinary, Batched, Bracketed, Bodies, CheckpointIds
<1>3. CASE /\ Send(About("CheckpointStarted"), TRUE, TRUE)
           /\ pc' = "ckptScan" /\ lost' = lost
           /\ UNCHANGED <<run, clock, cp, captureVars>>
  <2>1. /\ Effect /\ Journal' /\ pending' \in Seq(Events) /\ next' \in Nat \ {0}
        /\ lost' \in Nat /\ writer' = writer /\ pending' = <<>>
    BY <1>1, <1>2, <1>3, SendBase
  <2>2. LocalTypes'
    BY <1>3, <2>1 DEF Base, LocalTypes, captureVars, Places
  <2>3. Placed'
    BY <1>1, <1>3, <2>1 DEF CheckpointStarts, Base, Placed, Early, Checkpointing, captureVars
  <2> QED BY <2>1, <2>2, <2>3 DEF Base
<1>4. CASE /\ Send(About("CheckpointStarted"), TRUE, FALSE)
           /\ Return("store") /\ lost' = lost
  <2>1. UNCHANGED <<run, clock>>
    BY <1>4 DEF Return
  <2>2. /\ Effect /\ Journal' /\ pending' \in Seq(Events) /\ next' \in Nat \ {0}
        /\ lost' \in Nat /\ writer' = writer
    BY <1>1, <1>2, <1>4, <2>1, SendBase
  <2> QED BY <1>1, <1>4, <2>2, ReturnTypes
<1> QED BY <1>3, <1>4 DEF CheckpointStarts, Goto

\* The scan leaves the tables and the ledger alone.
LEMMA ScanBase == ASSUME Base, Scan PROVE Base' /\ Effect
<1>1. run \in Runs /\ pc = "ckptScan"
  BY DEF Scan, Base, LocalTypes, Placed
<1>2. /\ Effect /\ Journal' /\ pending' \in Seq(Events) /\ next' \in Nat \ {0}
      /\ lost' \in Nat /\ writer' = writer /\ row' = row
  BY RestBase DEF Scan
<1>3. CASE /\ \E s \in Snapshots : cp' = [cp EXCEPT !.snapshot = s]
           /\ pc' \in {"ckptCommit", "ckptLimit"}
  <2>1. PICK s \in Snapshots : cp' = [cp EXCEPT !.snapshot = s]
    BY <1>3
  <2>2. /\ cp'.snapshot \in Snapshots /\ cp'.reason = cp.reason
        /\ cp' \in [reason : Reasons \cup {None}, id : CheckpointIds,
             snapshot : Snapshots \cup {None}, error : {"none", "snapshot", "other", "store"}]
    BY <2>1 DEF Base, LocalTypes
  <2>3. LocalTypes'
    BY <1>2, <1>3, <2>2 DEF Scan, Base, LocalTypes, captureVars, Places
  <2>4. Placed'
    BY <1>1, <1>2, <1>3, <2>2 DEF Scan, Base, Placed, Early, Checkpointing, captureVars
  <2> QED BY <1>2, <2>3, <2>4 DEF Base
<1>4. CASE \E e \in {"snapshot"} \cup ObjectErrors : cp' = [cp EXCEPT !.error = e] /\ pc' = "ckptFail"
  <2>1. PICK e \in {"snapshot", "store"} : cp' = [cp EXCEPT !.error = e]
    BY <1>4 DEF ObjectErrors
  <2>2. /\ cp'.reason = cp.reason
        /\ cp' \in [reason : Reasons \cup {None}, id : CheckpointIds,
             snapshot : Snapshots \cup {None}, error : {"none", "snapshot", "other", "store"}]
    BY <2>1 DEF Base, LocalTypes
  <2>3. LocalTypes'
    BY <1>2, <1>4, <2>2 DEF Scan, Base, LocalTypes, captureVars, Places
  <2>4. Placed'
    BY <1>1, <1>2, <1>4, <2>2 DEF Scan, Base, Placed, Early, Checkpointing, captureVars
  <2> QED BY <1>2, <2>3, <2>4 DEF Base
<1> QED BY <1>3, <1>4 DEF Scan, Goto

\* A run that exceeds its storage limit is warned about.
LEMMA LimitWarningBase == ASSUME Base, LimitWarning PROVE Base' /\ Effect
<1>1. run \in Runs /\ pc = "ckptLimit" /\ pc \in Checkpointing /\ Plain("Warning") \in Ordinary
  BY PlainOrdinary DEF LimitWarning, Base, LocalTypes, Placed, Early, Checkpointing
<1>2. CASE /\ Send(Plain("Warning"), FALSE, TRUE)
           /\ cp' = [cp EXCEPT !.error = "other"] /\ pc' = "ckptFail"
           /\ lost' = lost /\ UNCHANGED <<run, clock, captureVars>>
  <2>1. /\ Effect /\ Journal' /\ pending' \in Seq(Events) /\ next' \in Nat \ {0}
        /\ lost' \in Nat /\ writer' = writer
    BY <1>1, <1>2, SendBase
  <2>2. /\ cp'.reason = cp.reason
        /\ cp' \in [reason : Reasons \cup {None}, id : CheckpointIds,
             snapshot : Snapshots \cup {None}, error : {"none", "snapshot", "other", "store"}]
    BY <1>2 DEF Base, LocalTypes
  <2>3. LocalTypes'
    BY <1>2, <2>1, <2>2 DEF Base, LocalTypes, captureVars, Places
  <2>4. Placed'
    BY <1>1, <1>2, <2>1, <2>2 DEF Base, Placed, Early, Checkpointing, captureVars
  <2> QED BY <2>1, <2>3, <2>4 DEF Base
<1>3. CASE Send(Plain("Warning"), FALSE, FALSE) /\ Return("store") /\ lost' = lost
  <2>1. UNCHANGED <<run, clock>>
    BY <1>3 DEF Return
  <2>2. /\ Effect /\ Journal' /\ pending' \in Seq(Events) /\ next' \in Nat \ {0}
        /\ lost' \in Nat /\ writer' = writer
    BY <1>1, <1>3, <2>1, SendBase
  <2> QED BY <1>1, <1>3, <2>2, ReturnTypes
<1> QED BY <1>2, <1>3 DEF LimitWarning, Goto

\* A failed checkpoint is recorded as such.
LEMMA CheckpointFailsBase == ASSUME Base, CheckpointFails PROVE Base' /\ Effect
<1>1. run \in Runs /\ pc \in Checkpointing /\ cp.id \in Nat /\ pc = "ckptFail"
  BY DEF CheckpointFails, Base, LocalTypes, Placed, Early, Checkpointing, CheckpointIds
<1>2. About("CheckpointFailed") \in Ordinary
  BY <1>1 DEF About, Ordinary, Batched, Bracketed, Bodies, CheckpointIds
<1>3. PICK ok \in BOOLEAN : /\ Send(About("CheckpointFailed"), TRUE, ok)
                            /\ Return(IF ok THEN cp.error ELSE "store")
  BY DEF CheckpointFails
<1>4. UNCHANGED <<run, clock, lost>>
  BY <1>3 DEF Return, CheckpointFails
<1>5. /\ Effect /\ Journal' /\ pending' \in Seq(Events) /\ next' \in Nat \ {0}
      /\ lost' \in Nat /\ writer' = writer
  BY <1>1, <1>2, <1>3, <1>4, SendBase
<1>6. (IF ok THEN cp.error ELSE "store") \in {"none", "snapshot", "other", "store"}
  BY DEF Base, LocalTypes
<1> QED BY <1>1, <1>3, <1>5, <1>6, ReturnTypes

\* The commit is made, or refused and its number lost.
LEMMA CheckpointCommitsBase == ASSUME Base, CheckpointCommits PROVE Base' /\ Effect
<1> DEFINE e == Stamped(Committed(cp))
           c == [seq |-> next, id |-> cp.id, reason |-> cp.reason, snapshot |-> cp.snapshot]
<1>1. /\ run \in Runs /\ pc = "ckptCommit" /\ pc \in Checkpointing
      /\ cp.id \in Nat /\ cp.reason \in Reasons /\ cp.snapshot \in Snapshots
  BY DEF CheckpointCommits, Base, LocalTypes, Placed, Early, Checkpointing, CheckpointIds
<1>2. c \in Checkpoints /\ e \in Events
  <2>1. Committed(cp) \in Bodies
    BY <1>1 DEF Committed, Bodies, CheckpointIds
  <2>2. e \in Events
    BY <2>1, StampedType, BaseTypes
  <2> QED BY <1>1, <2>2 DEF Checkpoints, CheckpointIds, Base, LocalTypes
<1>3. /\ next' = next + 1 /\ pending' = pending
      /\ next' \in Nat \ {0} /\ pending' \in Seq(Events) /\ lost \in Nat
  BY DEF CheckpointCommits, Base, LocalTypes
<1>4. CASE CommitCheckpointWithEvent(run, c, e) /\ Return("ok") /\ lost' = lost
  <2>1. Journal' /\ writer' = writer
    BY <1>1, <1>2, <1>4, CommitWithEventKeepsJournal DEF Base, CommitCheckpointWithEvent
  <2>2. Base'
    BY <1>1, <1>3, <1>4, <2>1, ReturnTypes
  <2>3. Effect
    BY <1>1, <1>3, <1>4 DEF Effect, Commits, Return
  <2> QED BY <2>2, <2>3
<1>5. CASE /\ StoreFails("commit", CanCommit(run, c) /\ CanAppend(run, <<e>>))
           /\ Return("store") /\ lost' = lost + 1
  <2>1. Journal' /\ writer' = writer
    BY <1>5, StoreUnchanged DEF Base, storeVars, StoreFails
  <2>2. Base'
    BY <1>1, <1>3, <1>5, <2>1, ReturnTypes
  <2>3. Effect
    <3>1. "commit" \notin Faulty => ~ (CanCommit(run, Row) /\ CanAppend(run, <<e>>))
      BY <1>5 DEF StoreFails, Row
    <3> QED BY <1>1, <1>3, <1>5, <3>1 DEF Effect, Loses, Return, StoreFails
  <2> QED BY <2>2, <2>3
<1> QED BY <1>4, <1>5 DEF CheckpointCommits
-----------------------------------------------------------------------------
(* Processes and the way to the event loop.                                *)

\* A step that leaves the tables and the ledger alone, and its place.
LEMMA OpenBase == ASSUME Base, Open PROVE Base' /\ Effect
<1>1. Journal' /\ writer' = "open" /\ pc' = "opened"
  BY RecoverKeepsJournal DEF Open, OpenStore, Base, Goto
<1>2. LocalTypes' /\ Placed'
  BY <1>1 DEF Open, Base, LocalTypes, Placed, Early, captureVars, Places, Checkpointing
<1>3. Effect
  BY DEF Open, Opens, Effect
<1> QED BY <1>1, <1>2, <1>3 DEF Base

\* A process that leaves, in order or not, forgets what it knew.
LEMMA CloseBase == ASSUME Base, CloseStore, Forget PROVE Base' /\ Effect
<1>1. Journal' /\ writer' = "closed" /\ pc' = "off"
  BY CloseKeepsJournal DEF CloseStore, Forget, Base
<1>2. LocalTypes'
  <2>1. <<>> \in Seq(Events)
    OBVIOUS
  <2>2. NoCheckpoint \in [reason : Reasons \cup {None}, id : CheckpointIds,
             snapshot : Snapshots \cup {None}, error : {"none", "snapshot", "other", "store"}]
    BY DEF NoCheckpoint, CheckpointIds
  <2>3. cp' = NoCheckpoint /\ pending' = <<>> /\ interrupted' = FALSE
    BY DEF Forget
  <2>4. /\ pc' \in Places /\ mode' \in Modes /\ run' \in Runs \cup {None}
        /\ clock' \in Nat /\ next' \in Nat \ {0} /\ lost' \in Nat
        /\ child' \in {"none", "alive"} \cup Exits
        /\ group' \in {"unknown", "stopped", "stuck"}
        /\ fatal' \in {"none", "store", "other"}
        /\ final' \in Snapshots \cup {None}
    BY DEF Forget, Places, Modes
  <2> HIDE DEF NoCheckpoint
  <2> QED BY <2>1, <2>2, <2>3, <2>4 DEF LocalTypes
<1>3. Placed'
  BY <1>1 DEF Forget, Base, Placed, Early, Checkpointing
<1>4. Effect
  BY DEF Forget, Closes, Effect
<1> QED BY <1>1, <1>2, <1>3, <1>4 DEF Base

\* Time passes and nothing else.
LEMMA TickBase == ASSUME Base, Tick PROVE Base' /\ Effect
<1>1. Journal' /\ UNCHANGED <<storeVars, pc, run, next, lost, pending, cp, captureVars>>
  BY StoreUnchanged DEF Tick, Base
<1>2. clock' \in Nat /\ clock <= clock'
  BY DEF Tick, Base, LocalTypes
<1>3. LocalTypes' /\ Placed'
  BY <1>1, <1>2 DEF Base, LocalTypes, Placed, Early, captureVars, storeVars
<1>4. Effect
  BY <1>1, <1>2 DEF Effect, Rests
<1> QED BY <1>1, <1>3, <1>4 DEF Base

\* A run is created, or its creation failed and nothing happened.
LEMMA StartRunBase ==
  ASSUME Base, NEW r \in Runs, NEW p \in {None} \cup [run : Runs, checkpoint : CheckpointIds],
         StartRun(r, p)
  PROVE  Base' /\ Effect
<1>1. /\ pc = "opened" /\ UNCHANGED <<clock, next, lost, pending, cp, captureVars>>
  BY DEF StartRun
<1>2. CASE CreateRun(r, p) /\ run' = r /\ pc' = "clone"
  <2>1. Journal' /\ writer' = writer
    BY <1>2, CreateKeepsJournal DEF CreateRun, Base
  <2>2. LocalTypes'
    BY <1>1, <1>2 DEF Base, LocalTypes, Places, captureVars
  <2>3. Placed'
    BY <1>1, <1>2, <2>1, RecorderConstants DEF Base, Placed, Early, Checkpointing, captureVars
  <2>4. Effect
    BY <1>1, <1>2 DEF Effect, Creates
  <2> QED BY <2>1, <2>2, <2>3, <2>4 DEF Base
<1>3. CASE UNCHANGED storeVars /\ pc' = "done" /\ run' = run
  <2>1. /\ Effect /\ Journal' /\ writer' = writer
    BY <1>1, <1>3, RestBase
  <2>2. LocalTypes' /\ Placed'
    BY <1>1, <1>3, <2>1 DEF Base, LocalTypes, Placed, Early, Places, Checkpointing, captureVars
  <2> QED BY <2>1, <2>2 DEF Base
<1> QED BY <1>2, <1>3 DEF StartRun, StoreFails, Goto

\* The clone begins the initial checkpoint or gives up.
LEMMA CloneBase == ASSUME Base, Clone PROVE Base' /\ Effect
<1>1. /\ pc = "clone" /\ run \in Runs
      /\ UNCHANGED <<storeVars, run, clock, next, lost, pending, captureVars>>
  BY DEF Clone, Base, LocalTypes, Placed
<1>2. Effect /\ Journal' /\ pending' \in Seq(Events) /\ next' \in Nat \ {0} /\ writer' = writer
  BY <1>1, RestBase
<1>3. CASE Begin("initial")
  <2>1. /\ pc' = "ckptStart" /\ cp'.reason = "initial"
        /\ cp' \in [reason : Reasons \cup {None}, id : CheckpointIds,
                snapshot : Snapshots \cup {None}, error : {"none", "snapshot", "other", "store"}]
    BY <1>2, <1>3, BeginTypes DEF Base, Reasons
  <2>2. LocalTypes'
    BY <1>1, <2>1 DEF Base, LocalTypes, Places, captureVars
  <2>3. Placed'
    BY <1>1, <1>2, <2>1 DEF Base, Placed, Early, Checkpointing, captureVars, Reasons
  <2> QED BY <1>2, <2>2, <2>3 DEF Base
<1>4. CASE pc' = "prepFail" /\ cp' = cp
  <2>1. LocalTypes' /\ Placed'
    BY <1>1, <1>2, <1>4 DEF Base, LocalTypes, Placed, Early, Places, Checkpointing, captureVars
  <2> QED BY <1>2, <2>1 DEF Base
<1> QED BY <1>3, <1>4 DEF Clone, Goto

\* The run is marked running, or its preparation failed.
LEMMA MarkRunningBase == ASSUME Base, MarkRunning PROVE Base' /\ Effect
<1>1. /\ pc = "markRunning" /\ run \in Runs
      /\ UNCHANGED <<run, clock, next, lost, pending, cp, captureVars>>
  BY DEF MarkRunning, Base, LocalTypes, Placed
<1>2. CASE MarkRunRunning(run, row[run].initial) /\ pc' = "setup"
  <2>1. row[run].initial \in Snapshots
    BY <1>2 DEF MarkRunRunning, Base, Journal, Bookkeeping, StoreTypeOK
  <2>2. Journal' /\ writer' = writer
    BY <1>1, <1>2, <2>1, MarkRunningKeepsJournal DEF Base, MarkRunRunning
  <2>3. LocalTypes' /\ Placed'
    BY <1>1, <1>2, <2>2 DEF Base, LocalTypes, Placed, Early, Places, Checkpointing, captureVars
  <2>4. Effect
    BY <1>1, <1>2 DEF Effect, Starting
  <2> QED BY <2>2, <2>3, <2>4 DEF Base
<1>3. CASE UNCHANGED storeVars /\ pc' = "prepFail"
  <2>1. Effect /\ Journal' /\ writer' = writer
    BY <1>1, <1>3, RestBase
  <2>2. LocalTypes' /\ Placed'
    BY <1>1, <1>3, <2>1 DEF Base, LocalTypes, Placed, Early, Places, Checkpointing, captureVars
  <2> QED BY <2>1, <2>2 DEF Base
<1> QED BY <1>2, <1>3 DEF MarkRunning, StoreFails, Goto

\* Setup and the start of the producers leave a supervised child or none.
LEMMA SetupBase == ASSUME Base, Setup \/ SpawnProducers PROVE Base' /\ Effect
<1>1. /\ pc \in {"setup", "spawn"} /\ run \in Runs
      /\ UNCHANGED <<storeVars, run, clock, next, lost, pending, cp, group, interrupted, final>>
  BY DEF Setup, SpawnProducers, Base, LocalTypes, Placed
<1>2. Effect /\ Journal' /\ writer' = writer
  BY <1>1, RestBase
<1>3. \/ pc' = "startRun" /\ child' = "alive" /\ mode' = mode /\ fatal' = fatal /\ pc = "setup"
      \/ pc' = "supervise" /\ mode' = "supervised" /\ UNCHANGED <<child, fatal>>
      \/ pc' \in {"nochild", "reload"} /\ fatal' = "other" /\ child' = "none" /\ mode' = "nochild"
  BY DEF Setup, SpawnProducers, Abort, Goto
<1>4. LocalTypes'
  BY <1>1, <1>3 DEF Base, LocalTypes, Places, Modes
<1>5. Placed'
  BY <1>1, <1>2, <1>3, RecorderConstants DEF Base, Placed, Early, Checkpointing
<1> QED BY <1>2, <1>4, <1>5 DEF Base

\* A step outside the checkpoint routine that sends one event or none.
LEMMA PlainStep ==
  ASSUME Base, run \in Runs, UNCHANGED <<run, clock, lost, cp>>,
         group' \in {"unknown", "stopped", "stuck"},
         \/ UNCHANGED <<storeVars, next, pending>>
         \/ \E body \in Ordinary : \E durable, ok \in BOOLEAN : Send(body, durable, ok),
         pc' \in Places \ ({"off", "opened"} \cup Checkpointing), pc \notin {"off", "opened"},
         mode' \in Modes, child' \in {"none", "alive"} \cup Exits, interrupted' \in BOOLEAN,
         fatal' \in {"none", "store", "other"}, final' = final,
         mode' = "supervised" => child' \in Exits \/ pc' = "supervise",
         pc' \in Early => mode' = "prepare"
  PROVE  Base' /\ Effect
<1>1. Effect /\ Journal' /\ pending' \in Seq(Events) /\ next' \in Nat \ {0} /\ writer' = writer
  <2>1. CASE UNCHANGED <<storeVars, next, pending>>
    BY <2>1, RestBase
  <2>2. ASSUME NEW body \in Ordinary, NEW durable \in BOOLEAN, NEW ok \in BOOLEAN,
               Send(body, durable, ok)
        PROVE  Effect /\ Journal' /\ pending' \in Seq(Events) /\ next' \in Nat \ {0} /\ writer' = writer
    BY <2>2, SendBase
  <2> QED BY <2>1, <2>2
<1>2. LocalTypes'
  BY <1>1 DEF Base, LocalTypes
<1>3. Placed'
  BY <1>1, RecorderConstants DEF Base, Placed, Early, Checkpointing
<1> QED BY <1>1, <1>2, <1>3 DEF Base

\* A step that begins a checkpoint after one event or none.
LEMMA BeginStep ==
  ASSUME Base, run \in Runs, UNCHANGED <<run, clock, lost, mode, child, group, interrupted, final>>,
         \/ UNCHANGED <<storeVars, next, pending>>
         \/ \E body \in Ordinary : \E durable, ok \in BOOLEAN : Send(body, durable, ok),
         NEW reason \in {"manual", "quiescence", "final"}, NEW id \in {next, next'},
         cp' = [NoCheckpoint EXCEPT !.reason = reason, !.id = id], pc' = "ckptStart",
         pc \notin {"off", "opened"}, fatal' \in {"none", "store", "other"},
         mode = "supervised" => child \in Exits \/ reason \in {"manual", "quiescence"}
  PROVE  Base' /\ Effect
<1>1. Effect /\ Journal' /\ pending' \in Seq(Events) /\ next' \in Nat \ {0} /\ writer' = writer
  <2>1. CASE UNCHANGED <<storeVars, next, pending>>
    BY <2>1, RestBase
  <2>2. ASSUME NEW body \in Ordinary, NEW durable \in BOOLEAN, NEW ok \in BOOLEAN,
               Send(body, durable, ok)
        PROVE  Effect /\ Journal' /\ pending' \in Seq(Events) /\ next' \in Nat \ {0} /\ writer' = writer
    BY <2>2, SendBase
  <2> QED BY <2>1, <2>2
<1>2. /\ cp'.reason = reason
      /\ cp' \in [reason : Reasons \cup {None}, id : CheckpointIds,
             snapshot : Snapshots \cup {None}, error : {"none", "snapshot", "other", "store"}]
  <2>1. next \in Nat /\ next' \in Nat
    BY <1>1 DEF Base, LocalTypes
  <2> QED BY <2>1 DEF NoCheckpoint, Reasons, CheckpointIds
<1>3. LocalTypes'
  BY <1>1, <1>2 DEF Base, LocalTypes, Places
<1>4. Placed'
  BY <1>1, <1>2, RecorderConstants DEF Base, Placed, Early, Checkpointing, Reasons
<1> QED BY <1>1, <1>3, <1>4 DEF Base

\* The start-up closure: two events, or an error that kills the child.
LEMMA StartUpBase == ASSUME Base, StartUp PROVE Base' /\ Effect
<1>1. /\ pc \in {"startRun", "startInfo"} /\ run \in Runs /\ mode = "prepare"
      /\ UNCHANGED <<run, clock, lost, cp, group, interrupted, final>>
  BY DEF StartUp, Base, LocalTypes, Placed, Early
<1>2. \E body \in Ordinary : \E durable, ok \in BOOLEAN : Send(body, durable, ok)
  BY PlainOrdinary DEF StartUp
<1>3. \/ pc' \in {"startInfo", "spawn"} /\ UNCHANGED <<mode, child, fatal>>
      \/ pc' = "nochild" /\ mode' = "nochild" /\ child' = "none" /\ fatal' = "store"
  BY DEF StartUp, Abort, Goto
<1> QED BY <1>1, <1>2, <1>3, PlainStep DEF Base, LocalTypes, Places, Modes, Early, Checkpointing

\* Observations, warnings and signals leave the event loop where it is.
LEMMA QuietStep ==
  ASSUME Base, pc \in {"supervise", "closing"}, Quiet,
         \/ UNCHANGED <<storeVars, next, pending>>
         \/ \E body \in Ordinary : \E durable, ok \in BOOLEAN : Send(body, durable, ok),
         fatal' \in {"none", "store", "other"}, interrupted' \in BOOLEAN
  PROVE  Base' /\ Effect
<1>1. run \in Runs
  BY DEF Base, LocalTypes, Placed
<1>2. mode' = "supervised" => child' \in Exits \/ pc' = "supervise"
  BY DEF Quiet, Base, Placed, Checkpointing
<1> QED BY <1>1, <1>2, PlainStep DEF Quiet, Base, LocalTypes, Places, Checkpointing, Early

\* The observations of the event loop.
LEMMA ArrivalBase ==
  ASSUME Base, Observe \/ LimitReached \/ ObservationFails \/ Signal \/ PostRootWarning
  PROVE  Base' /\ Effect
<1>1. Observe \/ LimitReached => Base' /\ Effect
  <2> SUFFICES ASSUME Observe \/ LimitReached PROVE Base' /\ Effect
    OBVIOUS
  <2>1. \E body \in Ordinary : \E durable, ok \in BOOLEAN : Send(body, durable, ok)
    BY PlainOrdinary DEF Observe, LimitReached
  <2>2. /\ pc \in {"supervise", "closing"} /\ Quiet
        /\ fatal' \in {"none", "store", "other"} /\ interrupted' \in BOOLEAN
    BY DEF Observe, LimitReached, Handling, Base, LocalTypes
  <2> QED BY <2>1, <2>2, QuietStep
<1>2. ObservationFails => Base' /\ Effect
  BY QuietStep DEF ObservationFails, Handling, ObjectErrors, Base, LocalTypes
<1>3. Signal => Base' /\ Effect
  <2> SUFFICES ASSUME Signal PROVE Base' /\ Effect
    OBVIOUS
  <2>1. \E body \in Ordinary : \E durable, ok \in BOOLEAN : Send(body, durable, ok)
    BY PlainOrdinary DEF Signal
  <2>2. /\ pc \in {"supervise", "closing"} /\ Quiet
        /\ fatal' \in {"none", "store", "other"} /\ interrupted' \in BOOLEAN
    BY DEF Signal, Handling
  <2> QED BY <2>1, <2>2, QuietStep
<1>4. PostRootWarning => Base' /\ Effect
  <2> SUFFICES ASSUME PostRootWarning PROVE Base' /\ Effect
    OBVIOUS
  <2>1. \E body \in Ordinary : \E durable, ok \in BOOLEAN : Send(body, durable, ok)
    BY PlainOrdinary DEF PostRootWarning
  <2>2. /\ pc \in {"supervise", "closing"} /\ Quiet
        /\ fatal' \in {"none", "store", "other"} /\ interrupted' \in BOOLEAN
    BY DEF PostRootWarning, Failing, Base, LocalTypes
  <2> QED BY <2>1, <2>2, QuietStep
<1> QED BY <1>1, <1>2, <1>3, <1>4

\* A marker and a due checkpoint begin one, from the event loop.
LEMMA MarkerBase == ASSUME Base, Marker \/ Quiesce PROVE Base' /\ Effect
<1>1. /\ pc \in {"supervise", "closing"} /\ run \in Runs
      /\ UNCHANGED <<run, clock, lost, mode, child, group, interrupted, final>>
  BY DEF Marker, Quiesce, Handling, captureVars, Base, LocalTypes, Placed
<1>2. [kind |-> "MarkerCreated", id |-> next] \in Ordinary
  BY DEF Ordinary, Batched, Bracketed, Bodies, CheckpointIds, Base, LocalTypes
<1>3. CASE /\ UNCHANGED <<storeVars, next, pending, fatal>>
           /\ Begin("manual") \/ Begin("quiescence")
  <2>1. PICK reason \in {"manual", "quiescence"} : Begin(reason)
    BY <1>3
  <2> QED BY <1>1, <1>3, <2>1, BeginStep DEF Begin, Goto, Base, LocalTypes
<1>4. CASE /\ Send([kind |-> "MarkerCreated", id |-> next], FALSE, TRUE)
           /\ cp' = [NoCheckpoint EXCEPT !.reason = "manual", !.id = next]
           /\ pc' = "ckptStart" /\ UNCHANGED fatal
  BY <1>1, <1>2, <1>4, BeginStep DEF Base, LocalTypes
<1>5. CASE /\ Send([kind |-> "MarkerCreated", id |-> next], FALSE, FALSE)
           /\ fatal' = "store" /\ UNCHANGED <<pc, cp>>
  <2>1. Quiet /\ interrupted' \in BOOLEAN
    BY <1>1, <1>5 DEF Quiet, Base, LocalTypes
  <2> QED BY <1>1, <1>2, <1>5, <2>1, QuietStep
<1> QED BY <1>3, <1>4, <1>5 DEF Marker, Quiesce, Goto, captureVars

-----------------------------------------------------------------------------
(* The end of supervise and the ends without a child.                      *)

\* The exits of the event loop and of supervise.
LEMMA LeavingBase ==
  ASSUME Base, ChildExits \/ LeaveLoop \/ Reload
  PROVE  Base' /\ Effect
<1>1. /\ pc \in {"supervise", "reload"} /\ run \in Runs
      /\ UNCHANGED <<storeVars, run, clock, next, lost, pending, cp, group, interrupted, final>>
  BY DEF ChildExits, LeaveLoop, Reload, captureVars, Base, LocalTypes, Placed
<1>2. /\ pc' \in {"supervise", "closing", "nochild", "retention"}
      /\ mode' \in {mode, "retried"} /\ child' \in {child} \cup Exits
      /\ mode' = "supervised" => child' \in Exits
      /\ fatal' \in {"none", "store", "other"}
  BY DEF ChildExits, LeaveLoop, Reload, Goto, captureVars, Failing, Base, LocalTypes, Placed, Checkpointing
<1> QED BY <1>1, <1>2, PlainStep DEF Base, LocalTypes, Places, Modes, Early, Checkpointing

\* Where a supervised run winds down its child has exited.
LEMMA SupervisedExited ==
  ASSUME Base, pc \notin Checkpointing, pc # "supervise"
  PROVE  mode = "supervised" => child \in Exits
BY DEF Base, Placed

\* The warnings after the event loop.
LEMMA WindingDownBase ==
  ASSUME Base, TerminateGroup \/ WarnExclusions \/ Cleanup \/ Retention \/ PreparationFails
  PROVE  Base' /\ Effect
<1>1. /\ pc \in {"closing", "exclusions", "cleanup", "retention", "prepFail", "prepClean"}
      /\ UNCHANGED <<run, clock, lost, cp, mode, child, interrupted, final>>
      /\ pc' \in {"closing", "cleanup", "finish", "done", "prepClean"}
  BY DEF TerminateGroup, WarnExclusions, Cleanup, Retention, PreparationFails, Goto, captureVars
<1>2. /\ run \in Runs /\ (mode = "supervised" => child \in Exits)
  BY <1>1, SupervisedExited DEF Base, LocalTypes, Placed, Checkpointing
<1>3. \/ UNCHANGED <<storeVars, next, pending>>
      \/ \E body \in Ordinary : \E durable, ok \in BOOLEAN : Send(body, durable, ok)
  BY PlainOrdinary DEF TerminateGroup, WarnExclusions, Cleanup, Retention, PreparationFails
<1>4. fatal' \in {"none", "store", "other"} /\ group' \in {"unknown", "stopped", "stuck"}
  BY DEF TerminateGroup, WarnExclusions, Cleanup, Retention, PreparationFails, captureVars,
         Failing, Base, LocalTypes
<1> QED BY <1>1, <1>2, <1>3, <1>4, PlainStep DEF Base, LocalTypes, Places, Early, Checkpointing

\* The two ways to the final checkpoint.
LEMMA FinalScanBase == ASSUME Base, RecordExit \/ NoChild PROVE Base' /\ Effect
<1>1. /\ pc \in {"closing", "nochild"}
      /\ UNCHANGED <<run, clock, lost, mode, child, group, interrupted, final>>
  BY DEF RecordExit, NoChild, captureVars
<1>2. run \in Runs /\ (mode = "supervised" => child \in Exits)
  BY <1>1, SupervisedExited DEF Base, LocalTypes, Placed, Checkpointing
<1>3. \/ UNCHANGED <<storeVars, next, pending>>
      \/ \E body \in Ordinary : \E durable, ok \in BOOLEAN : Send(body, durable, ok)
  BY PlainOrdinary DEF RecordExit, NoChild
<1>4. fatal' \in {"none", "store", "other"}
  BY DEF RecordExit, NoChild, captureVars, Failing, Base, LocalTypes
<1>5. CASE Begin("final")
  BY <1>1, <1>2, <1>3, <1>4, <1>5, BeginStep DEF Begin, Goto
<1>6. CASE pc' = "cleanup" /\ cp' = cp
  BY <1>1, <1>2, <1>3, <1>4, <1>6, PlainStep DEF Base, LocalTypes, Places, Early, Checkpointing
<1> QED BY <1>5, <1>6 DEF RecordExit, NoChild, Goto

\* The finish is one the tables know.
LEMMA OutcomeType == ASSUME Base, pc = "finish" PROVE Outcome \in Finishes
<1>1. FinalStatus \in Terminal
  BY DEF FinalStatus, Terminal
<1>2. (IF mode = "supervised" THEN child ELSE None) \in Exits \cup {None}
  BY SupervisedExited DEF Checkpointing
<1>3. final \in Snapshots \cup {None} /\ clock \in Offsets
  BY DEF Base, LocalTypes, Offsets
<1> HIDE DEF FinalStatus
<1> QED BY <1>1, <1>2, <1>3 DEF Outcome, Finishes

\* The finish concludes the run or is refused.
LEMMA FinishBase == ASSUME Base, Finish PROVE Base' /\ Effect /\ (Concludes \/ Refuses)
<1> DEFINE e == Stamped(Completion(Outcome))
           batch == Append(pending, e)
<1>1. /\ pc = "finish" /\ run \in Runs /\ next' = next + 1
      /\ UNCHANGED <<run, clock, lost, cp, mode, child, group, interrupted, final>>
  BY DEF Finish, Base, LocalTypes, Placed
<1>2. Outcome \in Finishes
  BY <1>1, OutcomeType
<1>3. Completion(Outcome) \in Batched
  BY <1>2 DEF Completion, Finishes, Batched, Bracketed, Bodies
<1>4. e \in Events /\ batch \in Seq(Events)
  <2>1. e \in Events
    BY <1>3, BaseTypes, StampedType DEF Batched
  <2> HIDE DEF e
  <2> QED BY <2>1 DEF Base, LocalTypes
<1>5. /\ pc' \in {"reload", "retention", "done"} /\ fatal' \in {"none", "store", "other"}
      /\ next' \in Nat \ {0} /\ lost' \in Nat
  BY <1>1 DEF Finish, Goto, Failing, Base, LocalTypes
<1>6. mode' = "supervised" => child' \in Exits
  BY <1>1, SupervisedExited DEF Checkpointing
<1>7. ASSUME Journal', writer' = writer, pending' \in Seq(Events) PROVE Base'
  <2>1. LocalTypes'
    BY <1>1, <1>5, <1>7 DEF Base, LocalTypes, Places
  <2>2. Placed'
    BY <1>1, <1>5, <1>6, <1>7, RecorderConstants DEF Base, Placed, Early, Checkpointing
  <2> QED BY <1>7, <2>1, <2>2 DEF Base
<1>8. CASE FinishRunWithEvents(run, Outcome, batch) /\ pending' = <<>>
  <2>1. Journal' /\ writer' = writer
    BY <1>1, <1>2, <1>4, <1>8, FinishWithEventsKeepsJournal DEF Base, FinishRunWithEvents
  <2>2. Concludes
    BY <1>1, <1>2, <1>8 DEF Concludes
  <2>3. <<>> \in Seq(Events)
    OBVIOUS
  <2> QED BY <1>1, <1>7, <1>8, <2>1, <2>2, <2>3 DEF Effect
<1>9. CASE StoreFails("finish", CanAppend(run, batch) /\ CanFinish(run, Outcome)) /\ pending' = batch
  <2>1. Journal' /\ writer' = writer
    BY <1>9, StoreUnchanged DEF Base, storeVars, StoreFails
  <2>2. events[run] \o batch = Append(Log, e)
    <3>1. events[run] \in Seq(Events) /\ pending \in Seq(Events)
      BY <1>1 DEF Base, Journal, Bookkeeping, StoreTypeOK, LocalTypes
    <3> HIDE DEF e
    <3> QED BY <1>4, <3>1, AppendLast DEF Log
  <2>3. Sent(Completion(Outcome))
    BY <1>1, <1>4, <1>9, <2>1, <2>2 DEF Sent, storeVars, StoreFails
  <2>4. Refuses
    <3>1. "finish" \notin Faulty => ~ (CanAppend(run, batch) /\ CanFinish(run, Outcome))
      BY <1>9 DEF StoreFails
    <3> QED BY <1>1, <1>2, <1>9, <2>3, <3>1 DEF Refuses, StoreFails
  <2> QED BY <1>1, <1>4, <1>7, <1>9, <2>1, <2>4 DEF Effect, Sends
<1> QED BY <1>8, <1>9 DEF Finish

-----------------------------------------------------------------------------
(* Every step, and the type invariant.                                     *)

\* The invariant holds before the first process.
LEMMA BaseInit == Init => Base
<1> SUFFICES ASSUME Init PROVE Base
  OBVIOUS
<1>1. Journal
  BY JournalInit DEF Init
<1>2. LocalTypes
  <2>1. /\ pending = <<>> /\ cp = NoCheckpoint /\ interrupted = FALSE
        /\ pc \in Places /\ mode \in Modes /\ run \in Runs \cup {None}
        /\ clock \in Nat /\ next \in Nat \ {0} /\ lost \in Nat
        /\ child \in {"none", "alive"} \cup Exits
        /\ group \in {"unknown", "stopped", "stuck"}
        /\ fatal \in {"none", "store", "other"} /\ final \in Snapshots \cup {None}
    BY DEF Init, Places, Modes
  <2>2. NoCheckpoint \in [reason : Reasons \cup {None}, id : CheckpointIds,
             snapshot : Snapshots \cup {None}, error : {"none", "snapshot", "other", "store"}]
    BY DEF NoCheckpoint, CheckpointIds
  <2>3. <<>> \in Seq(Events)
    OBVIOUS
  <2> HIDE DEF NoCheckpoint
  <2> QED BY <2>1, <2>2, <2>3 DEF LocalTypes
<1>3. Placed
  BY DEF Init, StoreInit, Placed, Early, Checkpointing
<1> QED BY <1>1, <1>2, <1>3 DEF Base

\* The fork points a run may name are checkpoints of the tables.
LEMMA ForkPointType ==
  ASSUME Base, NEW p \in {None} \cup UNION {[run : {q}, checkpoint : {c.id : c \in checkpoints[q]}] : q \in Runs}
  PROVE  p \in {None} \cup [run : Runs, checkpoint : CheckpointIds]
<1> SUFFICES ASSUME NEW q \in Runs, p \in [run : {q}, checkpoint : {c.id : c \in checkpoints[q]}]
             PROVE  p \in [run : Runs, checkpoint : CheckpointIds]
  OBVIOUS
<1>1. checkpoints[q] \subseteq Checkpoints
  BY DEF Base, Journal, Bookkeeping, StoreTypeOK
<1>2. {c.id : c \in checkpoints[q]} \subseteq CheckpointIds
  BY <1>1 DEF Checkpoints
<1> HIDE DEF CheckpointIds
<1> QED BY <1>2

\* Every step keeps Base and has one of the nine effects.
LEMMA BaseStep == ASSUME Base, [Next]_vars PROVE Base' /\ Effect
<1>1. CASE Open
  BY <1>1, OpenBase
<1>2. ASSUME NEW r \in Runs,
             NEW p \in {None} \cup UNION {[run : {q}, checkpoint : {c.id : c \in checkpoints[q]}] : q \in Runs},
             StartRun(r, p)
      PROVE  Base' /\ Effect
  BY <1>2, ForkPointType, StartRunBase
<1>3. CASE CheckpointStarts \/ Scan \/ LimitWarning \/ CheckpointFails \/ CheckpointCommits
  BY <1>3, CheckpointStartsBase, ScanBase, LimitWarningBase, CheckpointFailsBase, CheckpointCommitsBase
<1>4. CASE Clone \/ MarkRunning \/ Setup \/ StartUp \/ SpawnProducers
  BY <1>4, CloneBase, MarkRunningBase, SetupBase, StartUpBase
<1>5. CASE ChildExits \/ LeaveLoop \/ Reload
  BY <1>5, LeavingBase
<1>6. CASE TerminateGroup \/ WarnExclusions \/ Cleanup \/ Retention \/ PreparationFails
  BY <1>6, WindingDownBase
<1>7. CASE RecordExit \/ NoChild
  BY <1>7, FinalScanBase
<1>8. CASE Finish
  BY <1>8, FinishBase
<1>9. CASE Exit \/ Crash
  BY <1>9, CloseBase DEF Exit, Crash
<1>10. CASE Observe \/ LimitReached \/ ObservationFails \/ Signal \/ PostRootWarning
  BY <1>10, ArrivalBase
<1>11. CASE Marker \/ Quiesce
  BY <1>11, MarkerBase
<1>12. CASE Tick
  BY <1>12, TickBase
<1>13. CASE UNCHANGED vars
  <2>1. UNCHANGED <<storeVars, run, next, lost, pending, clock>>
    BY <1>13 DEF vars, localVars
  <2>2. Effect /\ Journal'
    BY <2>1, RestBase
  <2>3. LocalTypes' /\ Placed'
    BY <1>13 DEF Base, LocalTypes, Placed, vars, localVars, captureVars, storeVars
  <2> QED BY <2>2, <2>3 DEF Base
<1> QED
  BY <1>1, <1>2, <1>3, <1>4, <1>5, <1>6, <1>7, <1>8, <1>9, <1>10, <1>11, <1>12, <1>13
  DEF Next, Step, Arrival

\* Every variable of the recorder and every table keeps its type, whatever
\* fails, crashes and arrives (capture_with_store, supervise, Recorder).
THEOREM RecorderTyped == Spec => []TypeOK
<1>1. Base /\ [Next]_vars => Base'
  BY BaseStep
<1> QED BY BaseInit, BaseTypes, <1>1, PTL DEF Spec

-----------------------------------------------------------------------------
(* One live run.                                                           *)

\* OnlyTheLiveRunIsActive is inductive: recovery leaves no active run behind,
\* and a process creates one run.
LEMMA LiveStep ==
  ASSUME Base, Effect, Base', OnlyTheLiveRunIsActive
  PROVE  OnlyTheLiveRunIsActive'
<1>0. /\ StoreTypeOK /\ run \in Runs \cup {None} /\ None \notin Runs
      /\ Bookkeeping
  BY RecorderConstants DEF Base, Journal, Bookkeeping, LocalTypes
<1>1. CASE Rests \/ Loses
  BY <1>1 DEF Rests, Loses, storeVars, OnlyTheLiveRunIsActive
<1>2. CASE Opens
  <2>1. \A r \in Runs : row'[r].status \notin Active
    BY <1>0, <1>2, RecoveredRows DEF Opens, OpenStore, Active
  <2> QED BY <2>1 DEF OnlyTheLiveRunIsActive
<1>3. CASE Closes
  BY <1>3 DEF Closes, Forget, CloseStore, OnlyTheLiveRunIsActive
<1>4. CASE Creates
  <2>1. PICK r \in Runs, p \in {None} \cup [run : Runs, checkpoint : CheckpointIds] :
          CreateRun(r, p) /\ pc = "opened" /\ run' = r
    BY <1>4 DEF Creates
  <2>2. run = None /\ writer = "open" /\ (\A q \in Runs : q # r => row'[q] = row[q])
    BY <1>0, <2>1 DEF CreateRun, Base, Placed, StoreTypeOK
  <2> QED BY <1>0, <2>1, <2>2 DEF OnlyTheLiveRunIsActive
<1>5. CASE run \in Runs /\ Sends
  BY <1>5, SendsSent DEF Sent, OnlyTheLiveRunIsActive
<1>6. CASE run \in Runs /\ (Commits \/ Concludes \/ Starting)
  <2>1. run' = run /\ writer' = writer /\ (\A q \in Runs : q # run => row'[q] = row[q])
    BY <1>0, <1>6 DEF Commits, CommitCheckpointWithEvent, CheckpointStored, Concludes,
                      FinishRunWithEvents, Finished, Starting, MarkRunRunning, StoreTypeOK
  <2> QED BY <2>1 DEF OnlyTheLiveRunIsActive
<1> QED BY <1>1, <1>2, <1>3, <1>4, <1>5, <1>6 DEF Effect

\* While a process holds the store, only the run it records is active
\* (Store::open recovers every other one before it returns).
THEOREM OneLiveRun == Spec => []OnlyTheLiveRunIsActive
<1> DEFINE Inv == Base /\ OnlyTheLiveRunIsActive
<1>1. Init => Inv
  BY BaseInit DEF Init, StoreInit, OnlyTheLiveRunIsActive
<1>2. Inv /\ [Next]_vars => Inv'
  BY BaseStep, LiveStep
<1> QED BY <1>1, <1>2, PTL DEF Spec

-----------------------------------------------------------------------------
(* The ledger of sequence numbers and offsets.                             *)

\* The invariant behind SequenceLedger: it speaks of the whole log, so that
\* flushing a batch changes nothing.
Ledger ==
  /\ \A r \in Runs : row[r].status = "absent" => events[r] = <<>>
  /\ run = None => next = 1 /\ lost = 0 /\ pending = <<>>
  /\ run # None =>
       /\ next = Len(Log) + lost + 1
       /\ Numbered(pending, next - Len(pending))
       /\ InTimeOrder(Log)
       /\ \A i \in 1..Len(Log) : Log[i].at <= clock

\* One more event in the log.
Grows(body) ==
  /\ Log' = Append(Log, Stamped(body)) /\ next' = next + 1
  /\ pending' \in {<<>>, Append(pending, Stamped(body))}
  /\ UNCHANGED <<run, lost, clock>>
  /\ \A q \in Runs \ {run} : events'[q] = events[q] /\ row'[q] = row[q]
  /\ \/ row[run].status \in Active /\ row'[run].status \in Active \cup Terminal
     \/ UNCHANGED <<row, events>>

\* The checkpoint that is committed is one.
LEMMA CommitTypes ==
  ASSUME Base, pc = "ckptCommit"
  PROVE  [seq |-> next, id |-> cp.id, reason |-> cp.reason, snapshot |-> cp.snapshot] \in Checkpoints
BY DEF Base, LocalTypes, Placed, Checkpointing, Checkpoints, CheckpointIds

\* The batch of a finish makes the log longer by its last event.
LEMMA ConcludesLog ==
  ASSUME Base, run \in Runs, Concludes
  PROVE  Log' = Append(Log, Stamped(Completion(Outcome)))
<1> DEFINE e == Stamped(Completion(Outcome))
<1>1. events[run] \in Seq(Events) /\ pending \in Seq(Events) /\ StoreTypeOK
  BY DEF Base, Journal, Bookkeeping, StoreTypeOK, LocalTypes
<1>2. e \in Events
  <2>1. Completion(Outcome) \in Bodies
    BY DEF Concludes, Completion, Finishes, Bodies
  <2> QED BY <2>1, StampedType, BaseTypes
<1>3. events'[run] = events[run] \o Append(pending, e) /\ pending' = <<>> /\ run' = run
  BY <1>1 DEF Concludes, FinishRunWithEvents, Appended, StoreTypeOK
<1> HIDE DEF e
<1>4. events[run] \o Append(pending, e) = Append(Log, e)
  BY <1>1, <1>2, AppendLast DEF Log
<1>5. Append(pending, e) \in Seq(Events)
  BY <1>1, <1>2
<1>6. events[run] \o Append(pending, e) \in Seq(Events)
  BY <1>1, <1>5, ConcatProperties
<1>7. (events[run] \o Append(pending, e)) \o <<>> = events[run] \o Append(pending, e)
  BY <1>6, ConcatEmptySeq
<1> QED BY <1>3, <1>4, <1>7 DEF Log, e

\* A committed checkpoint and a finish grow the log as a sent event does.
LEMMA LogGrows ==
  ASSUME Base, run \in Runs, Sends \/ Commits \/ Concludes
  PROVE  \E body \in Bodies : Grows(body) /\ Bracketed(body)
<1>0. /\ events[run] \in Seq(Events) /\ pending \in Seq(Events) /\ StoreTypeOK
  BY DEF Base, Journal, Bookkeeping, StoreTypeOK, LocalTypes
<1>1. CASE Sends
  <2>1. PICK body \in Batched : Sent(body) /\ UNCHANGED <<run, lost, clock>>
    BY <1>1, SendsSent
  <2>2. Log' = Append(Log, Stamped(body))
    BY <2>1 DEF Sent, Log
  <2> QED BY <2>1, <2>2 DEF Grows, Sent, Batched
<1>2. CASE Commits
  <2> DEFINE body == Committed(cp)
             e == Stamped(body)
  <2>1. body \in Bodies /\ pending = <<>>
    BY <1>2 DEF Commits, Base, LocalTypes, Placed, Committed, Bodies, CheckpointIds
  <2>2. e \in Events
    BY <2>1, StampedType, BaseTypes
  <2>3. /\ events'[run] = events[run] \o <<e>> /\ UNCHANGED <<run, lost, clock, pending>>
        /\ next' = next + 1 /\ row[run].status \in Active
        /\ row'[run].status = row[run].status
        /\ \A q \in Runs \ {run} : events'[q] = events[q] /\ row'[q] = row[q]
    BY <1>0, <1>2, <2>1, CommitTypes, CheckpointStoredRows
    DEF Commits, CommitCheckpointWithEvent, Appended, CanAppend, StoreTypeOK
  <2>4. Log' = Append(Log, e)
    <3> HIDE DEF e
    <3>1. <<e>> \in Seq(Events) /\ events[run] \o <<e>> = Append(events[run], e)
      BY <1>0, <2>2, AppendIsConcat
    <3>2. Append(events[run], e) \in Seq(Events)
      BY <1>0, <2>2
    <3>3. Append(events[run], e) \o <<>> = Append(events[run], e) /\ events[run] \o <<>> = events[run]
      BY <1>0, <3>2, ConcatEmptySeq
    <3> QED BY <2>1, <2>3, <3>1, <3>3 DEF Log
  <2>5. Bracketed(body)
    BY <1>2 DEF Commits, Bracketed, Committed
  <2> QED BY <2>1, <2>3, <2>4, <2>5 DEF Grows
<1>3. CASE Concludes
  <2> DEFINE body == Completion(Outcome)
  <2>1. body \in Bodies
    BY <1>3 DEF Concludes, Completion, Finishes, Bodies
  <2>2. /\ pending' = <<>> /\ UNCHANGED <<run, lost, clock>> /\ next' = next + 1
        /\ \A q \in Runs \ {run} : events'[q] = events[q] /\ row'[q] = row[q]
    BY <1>0, <1>3 DEF Concludes, FinishRunWithEvents, Finished, Appended, StoreTypeOK
  <2>3. row[run].status \in Active /\ row'[run].status \in Terminal
    <3>1. CanTransition(row[run].status, Outcome.status)
      BY <1>3 DEF Concludes, FinishRunWithEvents, CanFinish
    <3>2. row'[run].status = Outcome.status
      BY <1>0, <1>3 DEF Concludes, FinishRunWithEvents, Finished, StoreTypeOK, Rows
    <3>3. Outcome.status \in Terminal
      BY <1>3 DEF Concludes, Finishes
    <3> QED BY <3>1, <3>2, <3>3 DEF CanTransition, Active
  <2>4. Log' = Append(Log, Stamped(body))
    BY <1>3, ConcludesLog
  <2>5. Bracketed(body)
    BY DEF Bracketed, Completion
  <2> QED BY <2>1, <2>2, <2>3, <2>4, <2>5 DEF Grows
<1> QED BY <1>1, <1>2, <1>3

\* What the ledger asks of a log of its own, with sequences for variables.
LEMMA AppendInOrder ==
  ASSUME NEW s \in Seq(Events), NEW e \in Events, NEW c \in Nat,
         InTimeOrder(s), \A i \in 1..Len(s) : s[i].at <= c, e.at = c
  PROVE  /\ InTimeOrder(Append(s, e)) /\ Len(Append(s, e)) = Len(s) + 1
         /\ \A i \in 1..Len(Append(s, e)) : Append(s, e)[i].at <= c
<1>1. /\ Len(Append(s, e)) = Len(s) + 1
      /\ \A i \in 1..Len(s) : Append(s, e)[i] = s[i]
      /\ Append(s, e)[Len(s) + 1] = e
      /\ Len(s) \in Nat
  OBVIOUS
<1>2. \A i \in 1..Len(Append(s, e)) : i \in 1..Len(s) \/ i = Len(s) + 1
  BY <1>1
<1>3. \A i \in 1..Len(s) : s[i].at \in Nat
  <2>1. \A i \in 1..Len(s) : s[i] \in Events
    BY ElementOfSeq
  <2> QED BY <2>1 DEF Events, Offsets
<1>4. \A i \in 1..Len(Append(s, e)) : Append(s, e)[i].at <= c
  BY <1>1, <1>2
<1>5. InTimeOrder(Append(s, e))
  <2> SUFFICES ASSUME NEW i \in 1..Len(Append(s, e)), NEW j \in 1..Len(Append(s, e)), i <= j
               PROVE  Append(s, e)[i].at <= Append(s, e)[j].at
    BY DEF InTimeOrder
  <2>1. CASE j \in 1..Len(s)
    <3>1. i \in 1..Len(s)
      BY <1>1, <1>2, <2>1
    <3> QED BY <1>1, <2>1, <3>1 DEF InTimeOrder
  <2>2. CASE j = Len(s) + 1
    BY <1>1, <1>4, <2>2
  <2> QED BY <1>2, <2>1, <2>2
<1> QED BY <1>1, <1>4, <1>5

\* The next number continues a numbered sequence.
LEMMA AppendNumbered ==
  ASSUME NEW s \in Seq(Events), NEW e \in Events, NEW n \in Nat,
         Numbered(s, n - Len(s)), e.seq = n
  PROVE  Numbered(Append(s, e), (n + 1) - Len(Append(s, e)))
<1>1. /\ Len(Append(s, e)) = Len(s) + 1 /\ Len(s) \in Nat
      /\ \A i \in 1..Len(s) : Append(s, e)[i] = s[i]
      /\ Append(s, e)[Len(s) + 1] = e
  OBVIOUS
<1> QED BY <1>1 DEF Numbered

\* Events of the log are events, and the log has the length of its parts.
LEMMA LogType ==
  ASSUME Base, run \in Runs
  PROVE  /\ Log \in Seq(Events) /\ Len(Log) = Len(events[run]) + Len(pending)
         /\ events[run] \in Seq(Events) /\ pending \in Seq(Events)
<1>1. events[run] \in Seq(Events) /\ pending \in Seq(Events)
  BY DEF Base, Journal, Bookkeeping, StoreTypeOK, LocalTypes
<1> QED BY <1>1, ConcatProperties DEF Log

\* The ledger is kept by one more event.
LEMMA GrowsKeepsLedger ==
  ASSUME Base, Base', Ledger, run \in Runs, NEW body \in Bodies, Grows(body)
  PROVE  Ledger'
<1> DEFINE e == Stamped(body)
<1>0. /\ e \in Events /\ e.at = clock /\ e.seq = next /\ clock \in Nat /\ next \in Nat
      /\ Log \in Seq(Events) /\ pending \in Seq(Events) /\ run # None
  BY StampedType, BaseTypes, LogType, RecorderConstants DEF Stamped, Base, LocalTypes
<1>1. /\ next = Len(Log) + lost + 1 /\ Numbered(pending, next - Len(pending))
      /\ InTimeOrder(Log) /\ \A i \in 1..Len(Log) : Log[i].at <= clock
  BY <1>0 DEF Ledger
<1>2. /\ InTimeOrder(Log') /\ Len(Log') = Len(Log) + 1
      /\ \A i \in 1..Len(Log') : Log'[i].at <= clock
  <2>1. Log' = Append(Log, e)
    BY DEF Grows
  <2> HIDE DEF e
  <2>2. /\ InTimeOrder(Append(Log, e)) /\ Len(Append(Log, e)) = Len(Log) + 1
        /\ \A i \in 1..Len(Append(Log, e)) : Append(Log, e)[i].at <= clock
    BY <1>0, <1>1, AppendInOrder
  <2> QED BY <2>1, <2>2
<1>3. Numbered(pending', next' - Len(pending'))
  <2>1. CASE pending' = <<>>
    BY <2>1 DEF Numbered
  <2>2. CASE pending' = Append(pending, e)
    <3> HIDE DEF e
    <3>1. Numbered(Append(pending, e), (next + 1) - Len(Append(pending, e)))
      BY <1>0, <1>1, AppendNumbered
    <3> QED BY <2>2, <3>1 DEF Grows
  <2> QED BY <2>1, <2>2 DEF Grows
<1>4. next' = Len(Log') + lost' + 1 /\ run' = run /\ clock' = clock
  BY <1>0, <1>1, <1>2 DEF Grows, Base, LocalTypes
<1>5. ASSUME NEW r \in Runs, row'[r].status = "absent" PROVE events'[r] = <<>>
  <2>1. CASE r # run
    BY <1>5, <2>1 DEF Grows, Ledger
  <2>2. CASE r = run
    <3>1. row'[run].status \notin Active \cup Terminal
      BY <1>5, <2>2 DEF Active, Terminal
    <3> QED BY <1>5, <2>2, <3>1 DEF Grows, Ledger
  <2> QED BY <2>1, <2>2
<1> QED BY <1>0, <1>2, <1>3, <1>4, <1>5 DEF Ledger

\* Ledger is inductive.
LEMMA LedgerStep ==
  ASSUME Base, Effect, Base', Ledger
  PROVE  Ledger'
<1>0. /\ StoreTypeOK /\ run \in Runs \cup {None} /\ None \notin Runs /\ Bookkeeping
      /\ clock \in Nat /\ next \in Nat /\ lost \in Nat /\ pending \in Seq(Events)
      /\ clock' \in Nat
  BY RecorderConstants DEF Base, Journal, Bookkeeping, LocalTypes
<1>1. CASE Rests
  <2>1. Log' = Log /\ UNCHANGED <<row, events, run, next, lost, pending>>
    BY <1>1 DEF Rests, storeVars, Log
  <2>2. run # None => \A i \in 1..Len(Log) : Log[i].at <= clock'
    <3> SUFFICES ASSUME run # None, NEW i \in 1..Len(Log) PROVE Log[i].at <= clock'
      OBVIOUS
    <3>1. Log[i] \in Events
      BY <1>0, LogType, ElementOfSeq
    <3>2. Log[i].at \in Nat /\ Log[i].at <= clock
      BY <3>1 DEF Ledger, Events, Offsets
    <3> QED BY <1>0, <1>1, <3>2 DEF Rests
  <2> QED BY <2>1, <2>2 DEF Ledger
<1>2. CASE Loses
  <2>1. /\ Log' = Log /\ UNCHANGED <<row, events, run, pending, clock>> /\ run # None /\ pending = <<>>
        /\ next' = next + 1 /\ lost' = lost + 1
    BY <1>2 DEF Loses, storeVars, Log, Base, Placed
  <2>2. Len(Log) \in Nat
    BY <1>0, <2>1, LogType
  <2> QED BY <1>0, <2>1, <2>2 DEF Ledger, Numbered
<1>3. CASE Opens
  <2>1. /\ events' = events /\ run = None /\ UNCHANGED <<run, next, lost, pending>>
        /\ \A q \in Runs : row'[q].status = "absent" => row[q].status = "absent"
    <3>1. \A q \in Runs : row'[q].status = "absent" => row[q].status = "absent"
      BY <1>0, <1>3, RecoveredRows DEF Opens, OpenStore
    <3> QED BY <1>3, <3>1 DEF Opens, OpenStore, Recover, Base, Placed
  <2> QED BY <2>1 DEF Ledger
<1>4. CASE Closes
  BY <1>4 DEF Closes, Forget, CloseStore, Ledger
<1>5. CASE Creates
  <2>1. PICK r \in Runs, p \in {None} \cup [run : Runs, checkpoint : CheckpointIds] :
          /\ CreateRun(r, p) /\ pc = "opened" /\ run' = r
          /\ UNCHANGED <<clock, next, lost, pending>>
    BY <1>5 DEF Creates
  <2>2. /\ run = None /\ row[r].status = "absent" /\ events' = events
        /\ row'[r].status = "preparing" /\ \A q \in Runs : q # r => row'[q] = row[q]
    BY <1>0, <2>1 DEF CreateRun, Base, Placed, StoreTypeOK, Rows
  <2>3. next' = 1 /\ lost' = 0 /\ pending' = <<>> /\ Log' = <<>> \o <<>>
    BY <2>1, <2>2 DEF Ledger, Log
  <2>4. Log' = <<>>
    BY <2>3
  <2>5. \A q \in Runs : row'[q].status = "absent" => events'[q] = <<>>
    BY <2>2 DEF Ledger
  <2> QED BY <1>0, <2>1, <2>3, <2>4, <2>5 DEF Ledger, Numbered, InTimeOrder
<1>6. CASE run \in Runs /\ Starting
  <2>1. /\ Log' = Log /\ UNCHANGED <<events, run, next, lost, pending, clock>>
        /\ \A q \in Runs : row'[q].status = "absent" => row[q].status = "absent"
    BY <1>0, <1>6 DEF Starting, MarkRunRunning, StoreTypeOK, Log, Rows
  <2> QED BY <2>1 DEF Ledger
<1>7. CASE run \in Runs /\ (Sends \/ Commits \/ Concludes)
  BY <1>7, LogGrows, GrowsKeepsLedger
<1> QED BY <1>1, <1>2, <1>3, <1>4, <1>5, <1>6, <1>7 DEF Effect

\* What the validation of an append asks for: the next numbers, in time order.
LEMMA BatchAccepted ==
  ASSUME Base, run \in Runs, row[run].status \in Active, NEW batch \in Seq(Events),
         Numbered(batch, Len(events[run]) + 1), InTimeOrder(events[run] \o batch)
  PROVE  CanAppend(run, batch)
<1> DEFINE n == Len(events[run])
           log == events[run] \o batch
<1>1. /\ events[run] \in Seq(Events) /\ batch \in Seq(Events) /\ n \in Nat
      /\ Len(batch) \in Nat /\ Len(log) = n + Len(batch)
      /\ \A i \in 1..n : log[i] = events[run][i]
      /\ \A i \in 1..Len(batch) : log[n + i] = batch[i]
  BY LogType, ConcatProperties
<1>2. LastSeq(run) = n
  BY LastSeqIsLength DEF Base, Journal, Bookkeeping
<1>3. Numbered(batch, n + 1) /\ InTimeOrder(log)
  OBVIOUS
<1> HIDE DEF n, log
<1>4. SUFFICES ASSUME batch # <<>> PROVE CanAppend(run, batch)
  BY DEF CanAppend
<1>5. \A i \in 1..Len(batch) : batch[i].seq = n + i
  BY <1>1, <1>3 DEF Numbered
<1>6. 1 \in 1..Len(batch) /\ batch[1].seq = LastSeq(run) + 1
  BY <1>1, <1>2, <1>4, <1>5
<1>7. \A i \in 2..Len(batch) : batch[i].seq = batch[i-1].seq + 1
  BY <1>1, <1>5
<1>8. \A i \in 2..Len(batch) : batch[i].at >= batch[i-1].at
  <2> SUFFICES ASSUME NEW i \in 2..Len(batch) PROVE batch[i-1].at <= batch[i].at
    <3>1. \A i \in 1..Len(batch) : batch[i] \in Events
      BY <1>1, ElementOfSeq
    <3>2. \A i \in 2..Len(batch) : i - 1 \in 1..Len(batch) /\ i \in 1..Len(batch)
      OBVIOUS
    <3>3. \A i \in 1..Len(batch) : batch[i].at \in Nat
      BY <3>1 DEF Events, Offsets
    <3> QED BY <3>2, <3>3
  <2>1. /\ n + (i - 1) \in 1..Len(log) /\ n + i \in 1..Len(log) /\ n + (i - 1) <= n + i
        /\ i - 1 \in 1..Len(batch)
    BY <1>1
  <2>2. log[n + (i - 1)] = batch[i - 1] /\ log[n + i] = batch[i]
    BY <1>1, <2>1
  <2> QED BY <1>3, <2>1, <2>2 DEF InTimeOrder
<1>9. batch[1].at >= LastOffset(run)
  <2>1. CASE events[run] = <<>>
    <3>1. batch[1] \in Events
      BY <1>1, <1>6, ElementOfSeq
    <3> QED BY <2>1, <3>1 DEF LastOffset, Events, Offsets
  <2>2. CASE events[run] # <<>>
    <3>1. n \in 1..Len(log) /\ n + 1 \in 1..Len(log) /\ n \in 1..n /\ n <= n + 1
      BY <1>1, <1>6, <2>2 DEF n
    <3>2. log[n] = events[run][n] /\ log[n + 1] = batch[1]
      BY <1>1, <1>6, <3>1
    <3>3. log[n].at <= log[n + 1].at
      BY <1>3, <3>1 DEF InTimeOrder
    <3>4. events[run][n] \in Events /\ batch[1] \in Events
      BY <1>1, <1>6, <3>1, ElementOfSeq DEF n
    <3> QED BY <2>2, <3>2, <3>3, <3>4 DEF LastOffset, Events, Offsets, n
  <2> QED BY <2>1, <2>2
<1> QED BY <1>6, <1>7, <1>8, <1>9 DEF CanAppend

\* The pending batch of an active run can be appended as long as no commit failed.
LEMMA PendingAccepted ==
  ASSUME Base, Ledger, run \in Runs, lost = 0, row[run].status \in Active
  PROVE  CanAppend(run, pending)
<1>1. /\ events[run] \in Seq(Events) /\ pending \in Seq(Events)
      /\ Len(Log) = Len(events[run]) + Len(pending)
  BY LogType
<1>2. next = Len(events[run]) + Len(pending) + 1 /\ Numbered(pending, next - Len(pending)) /\ InTimeOrder(Log)
  BY <1>1, RecorderConstants DEF Ledger
<1>3. next - Len(pending) = Len(events[run]) + 1
  BY <1>1, <1>2
<1> QED BY <1>1, <1>2, <1>3, BatchAccepted DEF Log

\* The ledger is balanced before the first process.
LEMMA LedgerInit == Init => Ledger
BY RecorderConstants DEF Init, StoreInit, EmptyRow, Ledger

\* Every number handed out is accounted for, and until a commit fails the next
\* append of an active run is accepted (Sequencer, queue_event, flush).
THEOREM LedgerBalances == Spec => []SequenceLedger
<1> DEFINE Inv == Base /\ Ledger
<1>1. Init => Inv
  BY BaseInit, LedgerInit
<1>2. Inv /\ [Next]_vars => Inv'
  BY BaseStep, LedgerStep
<1>3. Inv => SequenceLedger
  <2> SUFFICES ASSUME Inv, pc \notin {"off", "opened"}, run # None
               PROVE  /\ next = Len(events[run]) + Len(pending) + lost + 1
                      /\ Numbered(pending, next - Len(pending))
                      /\ InTimeOrder(events[run] \o pending)
                      /\ \A i \in 1..Len(pending) : pending[i].at <= clock
                      /\ lost = 0 /\ row[run].status \in Active => CanAppend(run, pending)
    BY DEF SequenceLedger
  <2>1. run \in Runs
    BY DEF Base, LocalTypes
  <2>2. /\ events[run] \in Seq(Events) /\ pending \in Seq(Events)
        /\ Len(Log) = Len(events[run]) + Len(pending)
        /\ \A i \in 1..Len(pending) : Log[Len(events[run]) + i] = pending[i]
    BY <2>1, LogType, ConcatProperties DEF Log
  <2>3. \A i \in 1..Len(pending) : Len(events[run]) + i \in 1..Len(Log)
    BY <2>2
  <2>4. \A i \in 1..Len(pending) : pending[i].at <= clock
    BY <2>2, <2>3 DEF Ledger
  <2> QED BY <2>1, <2>2, <2>4, PendingAccepted DEF Ledger, Log
<1> QED BY <1>1, <1>2, <1>3, PTL DEF Spec

-----------------------------------------------------------------------------
(* The duration of a run that ended.                                       *)

\* No offset of the log is past the clock, so the duration a finish writes
\* covers the timeline it writes with it; recovery reads it off the timeline.
LEMMA DurationStep ==
  ASSUME Base, Effect, Base', Ledger, Ledger', DurationCoversTimeline
  PROVE  DurationCoversTimeline'
<1>0. /\ StoreTypeOK /\ StoreTypeOK' /\ Bookkeeping /\ Bookkeeping' /\ Journal
  BY DEF Base, Journal, Bookkeeping
<1>1. CASE Rests \/ Loses
  BY <1>1 DEF Rests, Loses, storeVars, DurationCoversTimeline, LastOffset
<1>2. CASE Opens
  <2> SUFFICES ASSUME NEW q \in Runs, row'[q].status \in Terminal
               PROVE  row'[q].duration >= LastOffset(q)'
    BY DEF DurationCoversTimeline
  <2>1. events' = events /\ LastOffset(q)' = LastOffset(q) /\ LastOffset(q) \in Nat
    BY <1>0, <1>2, LastSeqIsLength DEF Opens, OpenStore, Recover, LastOffset, Bookkeeping
  <2>2. CASE row[q].status \in Active
    <3>1. row'[q].duration = LastOffset(q)
      BY <1>0, <1>2, <2>2, RecoveredRows DEF Opens, OpenStore
    <3> QED BY <2>1, <3>1
  <2>3. CASE row[q].status \notin Active
    <3>1. row'[q] = row[q]
      BY <1>0, <1>2, <2>3, RecoveredRows DEF Opens, OpenStore
    <3> QED BY <2>1, <3>1 DEF DurationCoversTimeline
  <2> QED BY <2>2, <2>3
<1>3. CASE Closes
  BY <1>3 DEF Closes, Forget, CloseStore, DurationCoversTimeline, LastOffset
<1>4. CASE Creates \/ (run \in Runs /\ Starting)
  <2>1. /\ events' = events
        /\ \A q \in Runs : row'[q] = row[q] \/ row'[q].status \in Active
    BY <1>0, <1>4 DEF Creates, CreateRun, Starting, MarkRunRunning, StoreTypeOK, Rows, Active
  <2> QED BY <2>1 DEF DurationCoversTimeline, LastOffset, Active, Terminal
<1>5. CASE run \in Runs /\ (Sends \/ Commits \/ Concludes)
  <2>1. PICK body \in Bodies : Grows(body)
    BY <1>5, LogGrows
  <2> SUFFICES ASSUME NEW q \in Runs, row'[q].status \in Terminal
               PROVE  row'[q].duration >= LastOffset(q)'
    BY DEF DurationCoversTimeline
  <2>2. CASE row'[q] = row[q] /\ events'[q] = events[q]
    BY <2>2 DEF DurationCoversTimeline, LastOffset
  <2>3. CASE q = run /\ row[run].status \in Active
    <3>1. row'[run].status \notin Active
      BY <2>3 DEF Active, Terminal
    <3>2. ~ Sends /\ ~ Commits
      <4>1. Sends => row' = row
        BY SendsSent DEF Sent
      <4>2. Commits => row'[run].status = row[run].status
        BY <1>0, <1>5, CommitTypes, CheckpointStoredRows DEF Commits, CommitCheckpointWithEvent
      <4> QED BY <2>3, <3>1, <4>1, <4>2
    <3>3. Concludes
      BY <1>5, <3>2
    <3>4. row'[run].duration = clock /\ pending' = <<>> /\ run' = run /\ clock' = clock
      BY <1>0, <1>5, <3>3 DEF Concludes, FinishRunWithEvents, Finished, Outcome, StoreTypeOK, Rows
    <3>5. /\ events'[run] \in Seq(Events) /\ Log' = events'[run]
      <4>1. events'[run] \in Seq(Events)
        BY <1>0, <1>5 DEF StoreTypeOK
      <4>2. events'[run] \o <<>> = events'[run]
        BY <4>1, ConcatEmptySeq
      <4> QED BY <3>4, <4>1, <4>2 DEF Log
    <3>6. \A i \in 1..Len(events'[run]) : events'[run][i].at <= clock
      BY <1>5, <3>4, <3>5, RecorderConstants DEF Ledger
    <3>7. LastOffset(q)' <= clock
      <4>1. CASE events'[q] = <<>>
        <5>1. LastOffset(q)' = 0 /\ clock \in Nat
          BY <4>1 DEF LastOffset, Base, LocalTypes
        <5> QED BY <5>1
      <4>2. CASE events'[q] # <<>>
        <5>1. Len(events'[q]) \in 1..Len(events'[q])
          BY <2>3, <3>5, <4>2
        <5>2. LastOffset(q)' = events'[q][Len(events'[q])].at
          BY <4>2 DEF LastOffset
        <5> QED BY <2>3, <3>6, <5>1, <5>2
      <4> QED BY <4>1, <4>2
    <3>8. LastOffset(q)' \in Nat /\ clock \in Nat
      <4>1. CASE events'[q] = <<>>
        BY <4>1 DEF LastOffset, Base, LocalTypes
      <4>2. CASE events'[q] # <<>>
        <5>1. events'[q][Len(events'[q])] \in Events
          BY <2>3, <3>5, <4>2
        <5>2. LastOffset(q)' = events'[q][Len(events'[q])].at
          BY <4>2 DEF LastOffset
        <5> QED BY <5>1, <5>2 DEF Events, Offsets, Base, LocalTypes
      <4> QED BY <4>1, <4>2
    <3> QED BY <2>3, <3>4, <3>7, <3>8
  <2>4. \/ row'[q] = row[q] /\ events'[q] = events[q]
        \/ q = run /\ row[run].status \in Active
    BY <2>1 DEF Grows
  <2> QED BY <2>2, <2>3, <2>4
<1> QED BY <1>1, <1>2, <1>3, <1>4, <1>5 DEF Effect

\* A run that ended lasted at least as long as its timeline, whoever ended it
\* (finish_run_with_events, mark_interrupted_runs).
THEOREM DurationsCover == Spec => []DurationCoversTimeline
<1> DEFINE Inv == Base /\ Ledger /\ DurationCoversTimeline
<1>1. Init => Inv
  BY BaseInit, LedgerInit DEF Init, StoreInit, EmptyRow, DurationCoversTimeline, Terminal
<1>2. Inv /\ [Next]_vars => Inv'
  BY BaseStep, LedgerStep, DurationStep
<1> QED BY <1>1, <1>2, PTL DEF Spec

-----------------------------------------------------------------------------
(* Announced checkpoints and checkpoint rows.                              *)

\* The commits a sequence of events announces.
CommitsOf(s) ==
  {<<s[i].seq, s[i].body>> : i \in {j \in 1..Len(s) : s[j].body.kind = "CheckpointCommitted"}}

NoCommits(s) == \A i \in 1..Len(s) : s[i].body.kind # "CheckpointCommitted"

\* Events that announce nothing change nothing.
LEMMA CommitsConcat ==
  ASSUME NEW s \in Seq(Events), NEW t \in Seq(Events), NoCommits(t)
  PROVE  CommitsOf(s \o t) = CommitsOf(s)
<1> DEFINE n == Len(s)
<1>1. /\ s \o t \in Seq(Events) /\ Len(s \o t) = n + Len(t) /\ n \in Nat /\ Len(t) \in Nat
      /\ \A i \in 1..n : (s \o t)[i] = s[i]
      /\ \A i \in 1..Len(t) : (s \o t)[n + i] = t[i]
  BY ConcatProperties
<1>2. \A i \in 1..Len(s \o t) : i \in 1..n \/ (i - n \in 1..Len(t) /\ i = n + (i - n))
  BY <1>1
<1>3. \A i \in 1..Len(s \o t) : (s \o t)[i].body.kind = "CheckpointCommitted" => i \in 1..n
  BY <1>1, <1>2 DEF NoCommits
<1>4. \A i \in 1..n : i \in 1..Len(s \o t)
  BY <1>1
<1> HIDE DEF n
<1>5. CommitsOf(s \o t) \subseteq CommitsOf(s)
  BY <1>1, <1>3 DEF CommitsOf, n
<1>6. CommitsOf(s) \subseteq CommitsOf(s \o t)
  BY <1>1, <1>4 DEF CommitsOf, n
<1> QED BY <1>5, <1>6

\* The event of a commit adds what it announces.
LEMMA CommitsAppend ==
  ASSUME NEW s \in Seq(Events), NEW e \in Events, e.body.kind = "CheckpointCommitted"
  PROVE  CommitsOf(Append(s, e)) = CommitsOf(s) \cup {<<e.seq, e.body>>}
<1>1. /\ Len(Append(s, e)) = Len(s) + 1 /\ Len(s) \in Nat
      /\ \A i \in 1..Len(s) : Append(s, e)[i] = s[i]
      /\ Append(s, e)[Len(s) + 1] = e
  OBVIOUS
<1>2. /\ \A i \in 1..Len(Append(s, e)) : i \in 1..Len(s) \/ i = Len(s) + 1
      /\ \A i \in 1..Len(s) : i \in 1..Len(Append(s, e))
      /\ Len(s) + 1 \in 1..Len(Append(s, e))
  BY <1>1
<1>3. CommitsOf(Append(s, e)) \subseteq CommitsOf(s) \cup {<<e.seq, e.body>>}
  BY <1>1, <1>2 DEF CommitsOf
<1>4. CommitsOf(s) \subseteq CommitsOf(Append(s, e))
  BY <1>1, <1>2 DEF CommitsOf
<1>5. <<e.seq, e.body>> \in CommitsOf(Append(s, e))
  BY <1>1, <1>2 DEF CommitsOf
<1> QED BY <1>3, <1>4, <1>5

\* CheckpointsAgree in terms of CommitsOf, before and after a step.
LEMMA AgreeUnfolded ==
  /\ CheckpointsAgree <=>
       \A r \in Runs : CommitsOf(events[r]) = {<<c.seq, Committed(c)>> : c \in checkpoints[r]}
  /\ CheckpointsAgree' <=>
       \A r \in Runs : CommitsOf(events'[r]) = {<<c.seq, Committed(c)>> : c \in checkpoints'[r]}
BY DEF CheckpointsAgree, Kinds, CommitsOf

\* Nothing that waits to be appended announces a commit, and so the announced
\* commits are the committed rows.
Announced == CheckpointsAgree /\ NoCommits(pending)

\* Every effect keeps the announced commits and the rows the same.
LEMMA AnnouncedStep ==
  ASSUME Base, Effect, Base', Announced
  PROVE  Announced'
<1>0. /\ StoreTypeOK /\ StoreTypeOK' /\ Bookkeeping /\ Journal /\ pending \in Seq(Events)
      /\ pending' \in Seq(Events)
  BY DEF Base, Journal, Bookkeeping, LocalTypes
<1>1. CASE Rests \/ Loses \/ Opens \/ Closes \/ Creates \/ (run \in Runs /\ Starting)
  <2>1. events' = events /\ checkpoints' = checkpoints
    BY <1>1 DEF Rests, Loses, storeVars, Opens, OpenStore, Recover, Closes, Forget, CloseStore,
                Creates, CreateRun, Starting, MarkRunRunning
  <2>2. pending' = pending \/ pending' = <<>>
    BY <1>1 DEF Rests, Loses, Opens, Closes, Forget, Creates, Starting
  <2> QED BY <2>1, <2>2, AgreeUnfolded DEF Announced, NoCommits
<1>2. CASE run \in Runs /\ Commits
  <2> DEFINE c == [seq |-> next, id |-> cp.id, reason |-> cp.reason, snapshot |-> cp.snapshot]
             e == Stamped(Committed(cp))
  <2>1. /\ e \in Events /\ e.seq = c.seq /\ e.body = Committed(c)
        /\ e.body.kind = "CheckpointCommitted"
    <3>1. Committed(cp) \in Bodies
      BY <1>2 DEF Commits, Base, LocalTypes, Placed, Checkpointing, Committed, Bodies, CheckpointIds
    <3>2. e \in Events
      BY <3>1, StampedType, BaseTypes
    <3> QED BY <3>2 DEF Stamped, Committed
  <2>2. /\ events'[run] = events[run] \o <<e>> /\ checkpoints'[run] = checkpoints[run] \cup {c}
        /\ \A q \in Runs \ {run} : events'[q] = events[q] /\ checkpoints'[q] = checkpoints[q]
        /\ pending' = pending
    BY <1>0, <1>2 DEF Commits, CommitCheckpointWithEvent, CheckpointStored, Appended, StoreTypeOK
  <2> HIDE DEF c, e
  <2>3. events'[run] = Append(events[run], e)
    BY <1>0, <1>2, <2>1, <2>2, AppendIsConcat DEF StoreTypeOK
  <2>4. CommitsOf(events'[run]) = CommitsOf(events[run]) \cup {<<c.seq, Committed(c)>>}
    BY <1>0, <1>2, <2>1, <2>3, CommitsAppend DEF StoreTypeOK
  <2> QED BY <2>2, <2>4, AgreeUnfolded DEF Announced
<1>3. ASSUME run \in Runs, NEW body \in Batched, NEW e, e = Stamped(body),
             Log' = Append(Log, e), pending' \in {<<>>, Append(pending, e)}, run' = run,
             \A q \in Runs \ {run} : events'[q] = events[q], checkpoints' = checkpoints
      PROVE  Announced'
  <2>1. e \in Events /\ e.body.kind # "CheckpointCommitted"
    BY <1>3, StampedType, BaseTypes DEF Batched, Stamped
  <2>2. NoCommits(pending')
    BY <1>0, <1>3, <2>1 DEF Announced, NoCommits
  <2>3. events[run] \in Seq(Events) /\ events'[run] \in Seq(Events) /\ Log \in Seq(Events)
    BY <1>0, <1>3, LogType DEF StoreTypeOK
  <2>4. CommitsOf(events'[run]) = CommitsOf(Log')
    BY <1>0, <1>3, <2>2, <2>3, CommitsConcat DEF Log
  <2>5. CommitsOf(Log) = CommitsOf(events[run])
    BY <1>0, <2>3, CommitsConcat DEF Log, Announced
  <2>6. CommitsOf(Append(Log, e)) = CommitsOf(Log)
    <3>1. Append(Log, e) = Log \o <<e>> /\ <<e>> \in Seq(Events) /\ NoCommits(<<e>>)
      BY <2>1, <2>3, AppendIsConcat DEF NoCommits
    <3> QED BY <2>3, <3>1, CommitsConcat
  <2> QED BY <1>3, <2>2, <2>4, <2>5, <2>6, AgreeUnfolded DEF Announced
<1>4. CASE run \in Runs /\ Sends
  <2>1. PICK body \in Batched : Sent(body) /\ UNCHANGED <<run, lost, clock>>
    BY <1>4, SendsSent
  <2>2. Log' = Append(Log, Stamped(body))
    BY <2>1 DEF Sent, Log
  <2> QED BY <1>3, <1>4, <2>1, <2>2 DEF Sent
<1>5. CASE run \in Runs /\ Concludes
  <2> DEFINE body == Completion(Outcome)
  <2>1. body \in Batched
    BY <1>5 DEF Concludes, Completion, Finishes, Batched, Bracketed, Bodies
  <2>2. Log' = Append(Log, Stamped(body))
    BY <1>5, ConcludesLog
  <2> QED BY <1>0, <1>3, <1>5, <2>1, <2>2 DEF Concludes, FinishRunWithEvents, Appended, StoreTypeOK
<1> QED BY <1>1, <1>2, <1>4, <1>5 DEF Effect

\* The commits a timeline announces are the rows of the checkpoint table, through
\* failed commits, retried finishes and crashes (commit_checkpoint_with_event).
THEOREM CheckpointsAnnounced == Spec => []CheckpointsAgree
<1> DEFINE Inv == Base /\ Announced
<1>1. Init => Inv
  <2> SUFFICES ASSUME Init PROVE Announced
    BY BaseInit
  <2>1. pending = <<>> /\ \A r \in Runs : events[r] = <<>> /\ checkpoints[r] = {}
    BY DEF Init, StoreInit
  <2>2. CommitsOf(<<>>) = {}
    BY DEF CommitsOf
  <2> QED BY <2>1, <2>2, AgreeUnfolded DEF Announced, NoCommits
<1>2. Inv /\ [Next]_vars => Inv'
  BY BaseStep, AnnouncedStep
<1>3. Inv => CheckpointsAgree
  BY DEF Announced
<1> QED BY <1>1, <1>2, <1>3, PTL DEF Spec

-----------------------------------------------------------------------------
(* At most one checkpoint at a time.                                       *)

StartsOf(s) == {i \in 1..Len(s) : s[i].body.kind = "CheckpointStarted"}
EndsOf(s)   == {i \in 1..Len(s) : s[i].body.kind \in {"CheckpointCommitted", "CheckpointFailed"}}

\* The last bracket of the timeline opens the checkpoint with this identity.
OpenFor(s, id) ==
  \E i \in StartsOf(s) : s[i].body.id = id /\ \A j \in i+1..Len(s) : j \notin StartsOf(s) \cup EndsOf(s)

\* Every end closes the last start.
Alternates(s) ==
  \A k \in EndsOf(s) : \E i \in StartsOf(s) :
    /\ i < k /\ s[k].body.id = s[i].body.id
    /\ \A j \in i+1..k-1 : j \notin StartsOf(s) \cup EndsOf(s)

\* The brackets of a longer sequence, below its new part, are those of the shorter.
LEMMA BracketsBelow ==
  ASSUME NEW s \in Seq(Events), NEW t \in Seq(Events), Len(s) <= Len(t),
         \A i \in 1..Len(s) : t[i] = s[i]
  PROVE  \A i \in 1..Len(s) : /\ i \in 1..Len(t)
                              /\ i \in StartsOf(t) <=> i \in StartsOf(s)
                              /\ i \in EndsOf(t) <=> i \in EndsOf(s)
<1>1. Len(s) \in Nat /\ Len(t) \in Nat
  OBVIOUS
<1>2. \A i \in 1..Len(s) : i \in 1..Len(t)
  BY <1>1
<1> QED BY <1>2 DEF StartsOf, EndsOf

\* A beginning of an alternating timeline alternates: what a crash leaves.
LEMMA AlternatesPrefix ==
  ASSUME NEW s \in Seq(Events), NEW t \in Seq(Events), Alternates(s \o t)
  PROVE  Alternates(s)
<1> DEFINE u == s \o t
<1>1. /\ u \in Seq(Events) /\ Len(s) <= Len(u) /\ Len(s) \in Nat
      /\ \A i \in 1..Len(s) : u[i] = s[i]
  BY ConcatProperties
<1> HIDE DEF u
<1>2. \A i \in 1..Len(s) : /\ i \in 1..Len(u)
                           /\ i \in StartsOf(u) <=> i \in StartsOf(s)
                           /\ i \in EndsOf(u) <=> i \in EndsOf(s)
  BY <1>1, BracketsBelow
<1> SUFFICES ASSUME NEW k \in EndsOf(s)
             PROVE  \E i \in StartsOf(s) :
                      /\ i < k /\ s[k].body.id = s[i].body.id
                      /\ \A j \in i+1..k-1 : j \notin StartsOf(s) \cup EndsOf(s)
  BY DEF Alternates
<1>3. k \in 1..Len(s) /\ k \in EndsOf(u)
  BY <1>2 DEF EndsOf
<1>4. PICK i \in StartsOf(u) : /\ i < k /\ u[k].body.id = u[i].body.id
                              /\ \A j \in i+1..k-1 : j \notin StartsOf(u) \cup EndsOf(u)
  BY <1>3 DEF Alternates, u
<1>5. i \in 1..Len(s) /\ i \in StartsOf(s)
  <2>1. i \in 1..Len(u)
    BY DEF StartsOf
  <2>2. i \in 1..Len(s)
    BY <1>1, <1>3, <1>4, <2>1
  <2> QED BY <1>2, <2>2
<1>6. \A j \in i+1..k-1 : j \in 1..Len(s)
  BY <1>1, <1>3, <1>5
<1> QED BY <1>1, <1>2, <1>3, <1>4, <1>5, <1>6

\* The brackets of a sequence with one more event.
LEMMA BracketsAppend ==
  ASSUME NEW s \in Seq(Events), NEW e \in Events
  PROVE  /\ Append(s, e) \in Seq(Events) /\ Len(Append(s, e)) = Len(s) + 1 /\ Len(s) \in Nat
         /\ Append(s, e)[Len(s) + 1] = e
         /\ \A i \in 1..Len(s) : /\ Append(s, e)[i] = s[i]
                                 /\ i \in StartsOf(Append(s, e)) <=> i \in StartsOf(s)
                                 /\ i \in EndsOf(Append(s, e)) <=> i \in EndsOf(s)
         /\ \A i \in StartsOf(Append(s, e)) \cup EndsOf(Append(s, e)) : i \in 1..Len(s) \/ i = Len(s) + 1
         /\ StartsOf(s) \subseteq 1..Len(s) /\ EndsOf(s) \subseteq 1..Len(s)
         /\ Len(s) + 1 \in StartsOf(Append(s, e)) <=> e.body.kind = "CheckpointStarted"
         /\ Len(s) + 1 \in EndsOf(Append(s, e)) <=>
              e.body.kind \in {"CheckpointCommitted", "CheckpointFailed"}
<1> DEFINE u == Append(s, e)
<1>1. /\ u \in Seq(Events) /\ Len(u) = Len(s) + 1 /\ Len(s) \in Nat /\ u[Len(s) + 1] = e
      /\ \A i \in 1..Len(s) : u[i] = s[i]
  OBVIOUS
<1> HIDE DEF u
<1>2. \A i \in 1..Len(s) : /\ i \in StartsOf(u) <=> i \in StartsOf(s)
                           /\ i \in EndsOf(u) <=> i \in EndsOf(s)
  <2>1. Len(s) <= Len(u)
    BY <1>1
  <2> QED BY <1>1, <2>1, BracketsBelow
<1>3. /\ \A i \in StartsOf(u) \cup EndsOf(u) : i \in 1..Len(s) \/ i = Len(s) + 1
      /\ StartsOf(s) \subseteq 1..Len(s) /\ EndsOf(s) \subseteq 1..Len(s)
  BY <1>1 DEF StartsOf, EndsOf
<1>4. Len(s) + 1 \in 1..Len(u)
  BY <1>1
<1>5. /\ Len(s) + 1 \in StartsOf(u) <=> e.body.kind = "CheckpointStarted"
      /\ Len(s) + 1 \in EndsOf(u) <=> e.body.kind \in {"CheckpointCommitted", "CheckpointFailed"}
  BY <1>1, <1>4 DEF StartsOf, EndsOf
<1> QED BY <1>1, <1>2, <1>3, <1>5 DEF u

\* An event keeps the alternation if it ends nothing but the open checkpoint.
LEMMA AlternatesAppend ==
  ASSUME NEW s \in Seq(Events), NEW e \in Events, Alternates(s),
         e.body.kind \in {"CheckpointCommitted", "CheckpointFailed"} => OpenFor(s, e.body.id)
  PROVE  Alternates(Append(s, e))
<1> DEFINE u == Append(s, e)
           n == Len(s)
<1>1. /\ u[n + 1] = e /\ n \in Nat
      /\ \A i \in 1..n : /\ u[i] = s[i]
                         /\ i \in StartsOf(u) <=> i \in StartsOf(s)
                         /\ i \in EndsOf(u) <=> i \in EndsOf(s)
      /\ \A i \in EndsOf(u) : i \in 1..n \/ i = n + 1
      /\ StartsOf(s) \subseteq 1..n /\ EndsOf(s) \subseteq 1..n
      /\ n + 1 \in EndsOf(u) <=> e.body.kind \in {"CheckpointCommitted", "CheckpointFailed"}
  BY BracketsAppend
<1> HIDE DEF u, n
<1> SUFFICES ASSUME NEW k \in EndsOf(u)
             PROVE  \E i \in StartsOf(u) :
                      /\ i < k /\ u[k].body.id = u[i].body.id
                      /\ \A j \in i+1..k-1 : j \notin StartsOf(u) \cup EndsOf(u)
  BY DEF Alternates, u
<1>2. CASE k \in 1..n
  <2>1. PICK i \in StartsOf(s) : /\ i < k /\ s[k].body.id = s[i].body.id
                                /\ \A j \in i+1..k-1 : j \notin StartsOf(s) \cup EndsOf(s)
    BY <1>1, <1>2 DEF Alternates
  <2>2. i \in 1..n /\ \A j \in i+1..k-1 : j \in 1..n
    BY <1>1, <1>2, <2>1
  <2> QED BY <1>1, <1>2, <2>1, <2>2
<1>3. CASE k = n + 1
  <2>1. PICK i \in StartsOf(s) : /\ s[i].body.id = e.body.id
                                /\ \A j \in i+1..n : j \notin StartsOf(s) \cup EndsOf(s)
    BY <1>1, <1>3 DEF OpenFor, n
  <2>2. i \in 1..n /\ i < k /\ k - 1 = n /\ \A j \in i+1..n : j \in 1..n
    BY <1>1, <1>3, <2>1
  <2> QED BY <1>1, <1>3, <2>1, <2>2
<1> QED BY <1>1, <1>2, <1>3

\* A checkpoint is open once it starts, and until it or another one ends.
LEMMA OpenForAppend ==
  ASSUME NEW s \in Seq(Events), NEW e \in Events, NEW id,
         \/ e.body.kind = "CheckpointStarted" /\ e.body.id = id
         \/ /\ e.body.kind \notin {"CheckpointStarted", "CheckpointCommitted", "CheckpointFailed"}
            /\ OpenFor(s, id)
  PROVE  OpenFor(Append(s, e), id)
<1> DEFINE u == Append(s, e)
           n == Len(s)
<1>1. /\ u[n + 1] = e /\ n \in Nat /\ Len(u) = n + 1
      /\ \A i \in 1..n : /\ u[i] = s[i]
                         /\ i \in StartsOf(u) <=> i \in StartsOf(s)
                         /\ i \in EndsOf(u) <=> i \in EndsOf(s)
      /\ StartsOf(s) \subseteq 1..n
      /\ n + 1 \in StartsOf(u) <=> e.body.kind = "CheckpointStarted"
      /\ n + 1 \in EndsOf(u) <=> e.body.kind \in {"CheckpointCommitted", "CheckpointFailed"}
  BY BracketsAppend
<1> HIDE DEF u, n
<1>2. CASE e.body.kind = "CheckpointStarted" /\ e.body.id = id
  <2>1. \A j \in (n + 1) + 1 .. Len(u) : FALSE
    BY <1>1
  <2> QED BY <1>1, <1>2, <2>1 DEF OpenFor, u
<1>3. CASE /\ e.body.kind \notin {"CheckpointStarted", "CheckpointCommitted", "CheckpointFailed"}
           /\ OpenFor(s, id)
  <2>1. PICK i \in StartsOf(s) : s[i].body.id = id /\ \A j \in i+1..n : j \notin StartsOf(s) \cup EndsOf(s)
    BY <1>3 DEF OpenFor, n
  <2>2. i \in 1..n /\ \A j \in i+1..Len(u) : j = n + 1 \/ (j \in 1..n /\ j \in i+1..n)
    BY <1>1, <2>1
  <2>3. i \in StartsOf(u) /\ u[i].body.id = id
    BY <1>1, <2>1, <2>2
  <2>4. \A j \in i+1..Len(u) : j \notin StartsOf(u) \cup EndsOf(u)
    BY <1>1, <1>3, <2>1, <2>2
  <2> QED BY <2>3, <2>4 DEF OpenFor, u
<1> QED BY <1>2, <1>3

\* OneCheckpointAtATime in terms of Alternates, before and after a step.
LEMMA OneUnfolded ==
  /\ OneCheckpointAtATime <=> \A r \in Runs : Alternates(events[r])
  /\ OneCheckpointAtATime' <=> \A r \in Runs : Alternates(events'[r])
<1>1. \A r \in Runs : Alternates(events[r]) <=>
        \A k \in Ends(r) : \E i \in Starts(r) :
          Resolves(r, i, k) /\ \A j \in i+1 .. k-1 : j \notin Starts(r) \cup Ends(r)
  <2>1. \A r \in Runs : Starts(r) = StartsOf(events[r]) /\ Ends(r) = EndsOf(events[r])
    BY DEF Starts, Ends, Kinds, StartsOf, EndsOf
  <2> QED BY <2>1 DEF Alternates, Resolves
<1>2. \A r \in Runs : Alternates(events'[r]) <=>
        \A k \in Ends(r)' : \E i \in Starts(r)' :
          Resolves(r, i, k)' /\ \A j \in i+1 .. k-1 : j \notin Starts(r)' \cup Ends(r)'
  <2>1. \A r \in Runs : Starts(r)' = StartsOf(events'[r]) /\ Ends(r)' = EndsOf(events'[r])
    BY DEF Starts, Ends, Kinds, StartsOf, EndsOf
  <2> QED BY <2>1 DEF Alternates, Resolves
<1> QED BY <1>1, <1>2 DEF OneCheckpointAtATime

\* The places between the start of a checkpoint and its end.
Scanned == {"ckptScan", "ckptLimit", "ckptFail", "ckptCommit"}

\* They are reached by starting a checkpoint, or from one another without
\* touching its identity.
LEMMA ScannedStep ==
  ASSUME Base, [Next]_vars, pc' \in Scanned
  PROVE  /\ cp'.id = cp.id
         /\ \/ pc \in {"ckptScan", "ckptLimit"}
            \/ /\ pc = "ckptStart" /\ Send(About("CheckpointStarted"), TRUE, TRUE)
               /\ UNCHANGED <<run, clock, lost>>
            \/ pc \in Scanned /\ UNCHANGED <<storeVars, run, pending>>
<1> DEFINE Goal == /\ cp'.id = cp.id
                   /\ \/ pc \in {"ckptScan", "ckptLimit"}
                      \/ /\ pc = "ckptStart" /\ Send(About("CheckpointStarted"), TRUE, TRUE)
                         /\ UNCHANGED <<run, clock, lost>>
                      \/ pc \in Scanned /\ UNCHANGED <<storeVars, run, pending>>
<1> HIDE DEF Goal
<1>1. CASE CheckpointStarts
  <2>1. ~ Return("store")
    BY DEF Return, Goto, Scanned
  <2> QED BY <1>1, <2>1 DEF CheckpointStarts, Goal
<1>2. CASE Scan
  BY <1>2 DEF Scan, Base, LocalTypes, Goal
<1>3. CASE LimitWarning
  <2>1. ~ Return("store")
    BY DEF Return, Goto, Scanned
  <2> QED BY <1>3, <2>1 DEF LimitWarning, Base, LocalTypes, Goal
<1>4. CASE CheckpointFails \/ CheckpointCommits
  <2>1. \A outcome : ~ Return(outcome)
    BY DEF Return, Goto, Scanned
  <2> QED BY <1>4, <2>1 DEF CheckpointFails, CheckpointCommits
<1>5. CASE Tick \/ UNCHANGED vars
  BY <1>5 DEF Tick, vars, localVars, Goal
<1>6. ~ (Open \/ Exit \/ Crash \/ \E r \in Runs : \E p : StartRun(r, p))
  BY DEF Open, Exit, Crash, Forget, StartRun, Goto, Scanned
<1>7. ~ (Clone \/ MarkRunning \/ Setup \/ StartUp \/ SpawnProducers)
  BY DEF Clone, Begin, MarkRunning, Setup, StartUp, SpawnProducers, Abort, Goto, Scanned
<1>8. ~ (ChildExits \/ LeaveLoop \/ Reload \/ TerminateGroup \/ WarnExclusions \/ Cleanup)
  BY DEF ChildExits, LeaveLoop, Reload, TerminateGroup, WarnExclusions, Cleanup, Goto, Scanned
<1>9. ~ (Retention \/ PreparationFails \/ RecordExit \/ NoChild \/ Finish)
  BY DEF Retention, PreparationFails, RecordExit, NoChild, Begin, Finish, Goto, Scanned
<1>10. ~ (Observe \/ LimitReached \/ ObservationFails \/ Signal \/ PostRootWarning \/ Marker \/ Quiesce)
  BY DEF Observe, LimitReached, ObservationFails, Signal, PostRootWarning, Marker, Quiesce,
         Handling, Quiet, Begin, Goto, Scanned
<1> QED
  BY <1>1, <1>2, <1>3, <1>4, <1>5, <1>6, <1>7, <1>8, <1>9, <1>10 DEF Next, Step, Arrival, Goal

\* The log of the live run alternates, and so does every other timeline; while a
\* checkpoint is taken, its start is the last bracket of the log.
OneOpen ==
  /\ \A r \in Runs : r # run => Alternates(events[r])
  /\ run \in Runs => Alternates(Log)
  /\ pc \in Scanned => OpenFor(Log, cp.id)

\* Every effect keeps at most one checkpoint open.
LEMMA OneOpenStep ==
  ASSUME Base, Effect, [Next]_vars, Base', Ledger, OneOpen
  PROVE  OneOpen'
<1>0. /\ StoreTypeOK /\ StoreTypeOK' /\ run \in Runs \cup {None} /\ None \notin Runs
      /\ pending \in Seq(Events)
  BY RecorderConstants DEF Base, Journal, Bookkeeping, LocalTypes
<1>1. ASSUME run \in Runs, NEW body \in Bodies, Grows(body), Bracketed(body)
      PROVE  /\ Alternates(Log') /\ run' = run
             /\ \A q \in Runs \ {run} : events'[q] = events[q]
             /\ pc \in {"ckptScan", "ckptLimit"} => OpenFor(Log', cp.id)
  <2> DEFINE e == Stamped(body)
  <2>1. /\ e \in Events /\ e.body = body /\ Log' = Append(Log, e) /\ Log \in Seq(Events)
    BY <1>1, StampedType, BaseTypes, LogType DEF Grows, Stamped
  <2> HIDE DEF e
  <2>2. e.body.kind \in {"CheckpointCommitted", "CheckpointFailed"} => OpenFor(Log, e.body.id)
    BY <1>1, <2>1 DEF Bracketed, OneOpen, Scanned
  <2>3. Alternates(Append(Log, e))
    BY <1>1, <2>1, <2>2, AlternatesAppend DEF OneOpen
  <2>4. pc \in {"ckptScan", "ckptLimit"} => OpenFor(Append(Log, e), cp.id)
    BY <1>1, <2>1, OpenForAppend DEF Bracketed, OneOpen, Scanned
  <2> QED BY <1>1, <2>1, <2>3, <2>4 DEF Grows
<1>2. CASE Rests \/ Loses \/ (run \in Runs /\ Starting)
  <2>1. UNCHANGED <<run, events, pending>> /\ Log' = Log
    BY <1>2 DEF Rests, Loses, storeVars, Starting, MarkRunRunning, Log
  <2>2. (\A r \in Runs : r # run' => Alternates(events'[r])) /\ (run' \in Runs => Alternates(Log'))
    BY <2>1 DEF OneOpen
  <2>3. pc' \in Scanned => OpenFor(Log', cp'.id)
    <3> SUFFICES ASSUME pc' \in Scanned PROVE OpenFor(Log', cp'.id)
      OBVIOUS
    <3>1. CASE pc \in Scanned
      BY <2>1, <3>1, ScannedStep DEF OneOpen
    <3>2. CASE pc = "ckptStart"
      <4>1. /\ Send(About("CheckpointStarted"), TRUE, TRUE) /\ run \in Runs
            /\ next' = next + 1
        BY <3>2, ScannedStep DEF Send, Base, Placed, LocalTypes, Scanned
      <4>2. next' = next \/ pc = "ckptCommit"
        BY <1>2 DEF Rests, Loses, Starting
      <4> QED BY <3>2, <4>1, <4>2 DEF Base, LocalTypes
    <3> QED BY <3>1, <3>2, ScannedStep DEF Scanned
  <2> QED BY <2>2, <2>3 DEF OneOpen
<1>3. CASE Opens \/ Closes \/ Creates
  <2>1. pc' \notin Scanned
    <3>1. Opens \/ Creates => pc \in {"off", "opened"}
      BY DEF Opens, OpenStore, Creates, Base, Placed
    <3>2. Closes => pc' \in {"off", "opened", "done"}
      BY DEF Closes, Forget, Base, Placed
    <3> QED BY <1>3, <3>1, <3>2, ScannedStep DEF Scanned
  <2>2. events' = events
    BY <1>3 DEF Opens, OpenStore, Recover, Closes, Forget, CloseStore, Creates, CreateRun
  <2>3. \A r \in Runs : Alternates(events[r])
    <3> SUFFICES ASSUME run \in Runs PROVE Alternates(events[run])
      BY DEF OneOpen
    <3> QED BY LogType, AlternatesPrefix DEF OneOpen, Log
  <2>4. run' \in Runs => Alternates(Log')
    <3> SUFFICES ASSUME run' \in Runs PROVE Alternates(Log')
      OBVIOUS
    <3>1. run = None /\ pending' = <<>>
      <4>1. ~ Closes
        BY <1>0 DEF Closes, Forget
      <4>2. run = None /\ pending' = pending
        BY <1>3, <4>1 DEF Opens, OpenStore, Creates, Base, Placed
      <4> QED BY <4>2 DEF Ledger
    <3>2. events[run'] \in Seq(Events)
      BY <1>0 DEF StoreTypeOK
    <3>3. Log' = events[run']
      BY <2>2, <3>1, <3>2, ConcatEmptySeq DEF Log
    <3> QED BY <2>3, <3>3
  <2> QED BY <2>1, <2>2, <2>3, <2>4 DEF OneOpen
<1>4. CASE run \in Runs /\ (Sends \/ Commits \/ Concludes)
  <2>1. PICK body \in Bodies : Grows(body) /\ Bracketed(body)
    BY <1>4, LogGrows
  <2>2. /\ Alternates(Log') /\ run' = run
        /\ \A q \in Runs \ {run} : events'[q] = events[q]
        /\ pc \in {"ckptScan", "ckptLimit"} => OpenFor(Log', cp.id)
    BY <1>1, <1>4, <2>1
  <2>3. pc' \in Scanned => OpenFor(Log', cp'.id)
    <3> SUFFICES ASSUME pc' \in Scanned PROVE OpenFor(Log', cp'.id)
      OBVIOUS
    <3>1. CASE pc \in {"ckptScan", "ckptLimit"}
      BY <2>2, <3>1, ScannedStep
    <3>2. CASE pc = "ckptStart"
      <4> DEFINE b == About("CheckpointStarted")
                 e == Stamped(b)
      <4>1. /\ Send(b, TRUE, TRUE) /\ cp'.id = cp.id
        BY <3>2, ScannedStep DEF Scanned
      <4>2. b \in Bodies
        BY DEF About, Bodies, Base, LocalTypes
      <4>3. Log' = Append(Log, e)
        BY <1>4, <2>2, <4>1, <4>2, SendEffect, BaseTypes DEF Base, Sent, Log
      <4>4. e \in Events /\ e.body.kind = "CheckpointStarted" /\ e.body.id = cp.id
        BY <4>2, StampedType, BaseTypes DEF Stamped, About
      <4> HIDE DEF e
      <4> QED BY <1>4, <4>1, <4>3, <4>4, LogType, OpenForAppend
    <3>3. CASE pc \in Scanned /\ UNCHANGED <<storeVars, run, pending>>
      BY <3>3, ScannedStep DEF OneOpen, Log, storeVars
    <3> QED BY <3>1, <3>2, <3>3, ScannedStep
  <2> QED BY <1>0, <1>4, <2>2, <2>3 DEF OneOpen
<1> QED BY <1>2, <1>3, <1>4 DEF Effect

\* The checkpoint that is committed or fails is always the last one that started
\* (Recorder::checkpoint_allocated), even where a failed append, a crash or a
\* failed commit left an earlier start without an end.
THEOREM OneAtATime == Spec => []OneCheckpointAtATime
<1> DEFINE Inv == Base /\ Ledger /\ OneOpen
<1>1. Init => Inv
  <2> SUFFICES ASSUME Init PROVE OneOpen
    BY BaseInit, LedgerInit
  <2>1. run = None /\ pc = "off" /\ \A r \in Runs : events[r] = <<>>
    BY DEF Init, StoreInit
  <2>2. Alternates(<<>>)
    BY DEF Alternates, EndsOf
  <2> QED BY <2>1, <2>2, RecorderConstants DEF OneOpen, Scanned
<1>2. Inv /\ [Next]_vars => Inv'
  BY BaseStep, LedgerStep, OneOpenStep
<1>3. Inv => OneCheckpointAtATime
  <2> SUFFICES ASSUME Inv, NEW r \in Runs PROVE Alternates(events[r])
    BY OneUnfolded
  <2>1. CASE r # run
    BY <2>1 DEF OneOpen
  <2>2. CASE r = run
    BY <2>2, LogType, AlternatesPrefix DEF OneOpen, Log
  <2> QED BY <2>1, <2>2
<1> QED BY <1>1, <1>2, <1>3, PTL DEF Spec

-----------------------------------------------------------------------------
(* Interrupted runs say so.                                                *)

SaysInterrupted(s) == \E i \in 1..Len(s) : s[i].body.kind = "RunInterrupted"

\* What was said stays said, and an event that says so does.
LEMMA SaidAppend ==
  ASSUME NEW s \in Seq(Events), NEW e \in Events,
         SaysInterrupted(s) \/ e.body.kind = "RunInterrupted"
  PROVE  SaysInterrupted(Append(s, e))
<1>1. /\ Len(Append(s, e)) = Len(s) + 1 /\ Len(s) \in Nat
      /\ \A i \in 1..Len(s) : Append(s, e)[i] = s[i]
      /\ Append(s, e)[Len(s) + 1] = e
  OBVIOUS
<1>2. Len(s) + 1 \in 1..Len(Append(s, e)) /\ \A i \in 1..Len(s) : i \in 1..Len(Append(s, e))
  BY <1>1
<1> QED BY <1>1, <1>2 DEF SaysInterrupted

\* InterruptionsJournalled in terms of SaysInterrupted.
LEMMA InterruptionsUnfolded ==
  /\ InterruptionsJournalled <=>
       \A r \in Runs : row[r].status = "interrupted" /\ row[r].exit # None => SaysInterrupted(events[r])
  /\ InterruptionsJournalled' <=>
       \A r \in Runs : row'[r].status = "interrupted" /\ row'[r].exit # None => SaysInterrupted(events'[r])
BY DEF InterruptionsJournalled, Kinds, SaysInterrupted

\* The signal handler sets the flag and sends the event, durable or pending.
LEMMA InterruptedStep ==
  ASSUME Base, [Next]_vars
  PROVE  \/ interrupted' => interrupted
         \/ /\ UNCHANGED <<run, clock, lost>> /\ run \in Runs
            /\ \E ok \in BOOLEAN : Send(Plain("RunInterrupted"), TRUE, ok)
<1> DEFINE Same == interrupted' => interrupted
<1>1. CASE Signal
  BY <1>1 DEF Signal, Quiet, Handling, Base, LocalTypes, Placed
<1>2. Open \/ Exit \/ Crash \/ (\E r \in Runs : \E p : StartRun(r, p)) \/ Tick \/ UNCHANGED vars => Same
  BY DEF Open, Exit, Crash, Forget, StartRun, Tick, vars, localVars, captureVars
<1>3. CheckpointStarts \/ Scan \/ LimitWarning \/ CheckpointFails \/ CheckpointCommits => Same
  BY DEF CheckpointStarts, Scan, LimitWarning, CheckpointFails, CheckpointCommits, Return, captureVars
<1>4. Clone \/ MarkRunning \/ Setup \/ StartUp \/ SpawnProducers => Same
  BY DEF Clone, MarkRunning, Setup, StartUp, SpawnProducers, captureVars
<1>5. ChildExits \/ LeaveLoop \/ Reload \/ TerminateGroup \/ WarnExclusions \/ Cleanup => Same
  BY DEF ChildExits, LeaveLoop, Reload, TerminateGroup, WarnExclusions, Cleanup, captureVars
<1>6. Retention \/ PreparationFails \/ RecordExit \/ NoChild \/ Finish => Same
  BY DEF Retention, PreparationFails, RecordExit, NoChild, Finish, captureVars
<1>7. Observe \/ LimitReached \/ ObservationFails \/ PostRootWarning \/ Marker \/ Quiesce => Same
  BY DEF Observe, LimitReached, ObservationFails, PostRootWarning, Marker, Quiesce, captureVars
<1> QED BY <1>1, <1>2, <1>3, <1>4, <1>5, <1>6, <1>7 DEF Next, Step, Arrival

\* A recorder that was interrupted has the event in its log.
Said ==
  /\ InterruptionsJournalled
  /\ interrupted => run \in Runs /\ SaysInterrupted(Log)

\* Every effect keeps an interruption said.
LEMMA SaidStep ==
  ASSUME Base, Effect, [Next]_vars, Base', Ledger, Said
  PROVE  Said'
<1>0. /\ StoreTypeOK /\ StoreTypeOK' /\ run \in Runs \cup {None} /\ None \notin Runs
      /\ Bookkeeping /\ Journal
  BY RecorderConstants DEF Base, Journal, Bookkeeping, LocalTypes
<1>1. CASE Rests \/ Loses \/ (run \in Runs /\ Starting)
  <2>1. UNCHANGED <<run, events, pending>> /\ Log' = Log
    BY <1>1 DEF Rests, Loses, storeVars, Starting, MarkRunRunning, Log
  <2>2. interrupted' => interrupted
    <3>1. next' = next \/ (pc = "ckptCommit" /\ lost' # lost)
      BY <1>1 DEF Rests, Loses, Starting, Base, LocalTypes
    <3>2. ~ (UNCHANGED lost /\ \E ok \in BOOLEAN : Send(Plain("RunInterrupted"), TRUE, ok))
      BY <3>1 DEF Send, Base, LocalTypes
    <3> QED BY <3>2, InterruptedStep
  <2>3. \A r \in Runs : row'[r] = row[r] \/ row'[r].status = "running"
    BY <1>0, <1>1 DEF Rests, Loses, storeVars, Starting, MarkRunRunning, StoreTypeOK, Rows
  <2> QED BY <2>1, <2>2, <2>3, InterruptionsUnfolded DEF Said
<1>2. CASE Opens \/ Closes \/ Creates
  <2>1. events' = events /\ ~interrupted'
    <3>1. events' = events
      BY <1>2 DEF Opens, OpenStore, Recover, Closes, CloseStore, Creates, CreateRun
    <3>2. CASE Closes
      BY <3>1, <3>2 DEF Closes, Forget
    <3>3. CASE Opens \/ Creates
      <4>1. run = None
        BY <3>3 DEF Opens, OpenStore, Creates, Base, Placed
      <4>2. (interrupted' => interrupted) /\ ~interrupted
        BY <1>0, <4>1, InterruptedStep DEF Said, Base, LocalTypes
      <4> QED BY <3>1, <4>2
    <3> QED BY <1>2, <3>2, <3>3
  <2>2. \A r \in Runs : row'[r].exit = row[r].exit /\
          (row'[r].status = "interrupted" => row[r].status = "interrupted" \/ row'[r].exit = None)
    <3>1. CASE Opens
      <4> SUFFICES ASSUME NEW r \in Runs
                   PROVE  /\ row'[r].exit = row[r].exit
                          /\ row'[r].status = "interrupted" =>
                               row[r].status = "interrupted" \/ row'[r].exit = None
        OBVIOUS
      <4>1. /\ row[r].status \notin Active => row'[r] = row[r]
            /\ row[r].status \in Active => row'[r].exit = row[r].exit
        BY <1>0, <3>1, RecoveredRows DEF Opens, OpenStore
      <4>2. row[r].status \in Active => row[r].exit = None
        BY <1>0 DEF Journal, ActiveRunsUnfinished, Active, Terminal
      <4> QED BY <4>1, <4>2
    <3>2. CASE Closes
      BY <3>2 DEF Closes, Forget, CloseStore
    <3>3. CASE Creates
      BY <1>0, <3>3 DEF Creates, CreateRun, StoreTypeOK, Rows
    <3> QED BY <1>2, <3>1, <3>2, <3>3
  <2> QED BY <2>1, <2>2, InterruptionsUnfolded DEF Said
<1>3. CASE run \in Runs /\ (Sends \/ Commits \/ Concludes)
  <2>1. PICK body \in Bodies : Grows(body)
    BY <1>3, LogGrows
  <2> DEFINE e == Stamped(body)
  <2>2. /\ e \in Events /\ Log' = Append(Log, e) /\ Log \in Seq(Events) /\ run' = run
    BY <1>3, <2>1, StampedType, BaseTypes, LogType DEF Grows
  <2> HIDE DEF e
  <2>3. interrupted' => SaysInterrupted(Log')
    <3>1. CASE interrupted
      BY <2>2, <3>1, SaidAppend DEF Said
    <3>2. CASE ~ interrupted
      <4> SUFFICES ASSUME interrupted' PROVE SaysInterrupted(Log')
        OBVIOUS
      <4> DEFINE s == Stamped(Plain("RunInterrupted"))
      <4>1. PICK ok \in BOOLEAN : Send(Plain("RunInterrupted"), TRUE, ok)
        BY <3>2, InterruptedStep DEF Base, LocalTypes
      <4>2. Plain("RunInterrupted") \in Bodies
        BY DEF Plain, Bodies
      <4>3. Log' = Append(Log, s)
        BY <1>3, <2>2, <4>1, <4>2, SendEffect, BaseTypes DEF Base, Sent, Log
      <4>4. s \in Events /\ s.body.kind = "RunInterrupted"
        BY <4>2, StampedType, BaseTypes DEF Stamped, Plain
      <4> HIDE DEF s
      <4> QED BY <2>2, <4>3, <4>4, SaidAppend
    <3> QED BY <3>1, <3>2
  <2>4. ASSUME NEW r \in Runs, row'[r].status = "interrupted", row'[r].exit # None
        PROVE  SaysInterrupted(events'[r])
    <3>1. CASE r # run \/ UNCHANGED <<row, events>>
      BY <2>1, <2>4, <3>1, InterruptionsUnfolded DEF Grows, Said
    <3>2. CASE r = run /\ row[run].status \in Active
      <4>1. Sends => row' = row
        BY SendsSent DEF Sent
      <4>2. Commits => row'[run].status = row[run].status
        BY <1>0, <1>3, CommitTypes, CheckpointStoredRows DEF Commits, CommitCheckpointWithEvent
      <4>3. Concludes
        BY <1>3, <2>4, <3>2, <4>1, <4>2 DEF Active
      <4>4. row'[run].status = FinalStatus /\ pending' = <<>>
        BY <1>0, <1>3, <4>3 DEF Concludes, FinishRunWithEvents, Finished, Outcome, StoreTypeOK, Rows
      <4>5. interrupted
        BY <2>4, <3>2, <4>4 DEF FinalStatus
      <4>6. SaysInterrupted(Log')
        BY <2>2, <4>5, SaidAppend DEF Said
      <4>7. Log' = events'[run]
        BY <1>0, <1>3, <2>2, <4>4, ConcatEmptySeq DEF Log, StoreTypeOK
      <4> QED BY <3>2, <4>6, <4>7
    <3> QED BY <2>1, <3>1, <3>2 DEF Grows
  <2> QED BY <1>3, <2>2, <2>3, <2>4, InterruptionsUnfolded DEF Said
<1> QED BY <1>1, <1>2, <1>3 DEF Effect

\* A run that its recorder closed as interrupted says so in its timeline, even
\* when the append of the signal itself failed (handle_signal, finish).
THEOREM InterruptionsSaid == Spec => []InterruptionsJournalled
<1> DEFINE Inv == Base /\ Ledger /\ Said
<1>1. Init => Inv
  BY BaseInit, LedgerInit DEF Init, StoreInit, EmptyRow, Said, InterruptionsJournalled
<1>2. Inv /\ [Next]_vars => Inv'
  BY BaseStep, LedgerStep, SaidStep
<1>3. Inv => InterruptionsJournalled
  BY DEF Said
<1> QED BY <1>1, <1>2, <1>3, PTL DEF Spec

-----------------------------------------------------------------------------
(* The snapshots in a run's row.                                           *)

\* Which path a place belongs to, and that nothing is final before the event loop.
Pathed ==
  /\ pc \in {"supervise", "closing", "exclusions"} => mode # "prepare"
  /\ pc = "nochild" => mode \in {"nochild", "retried"}
  /\ pc \in Checkpointing /\ cp.reason \in {"manual", "quiescence", "final"} => mode # "prepare"
  /\ mode = "prepare" => final = None

\* How `mode` and `final` change.
FinalMoves ==
  \/ final' = None
  \/ final' = final /\ (mode' = "supervised" => mode = "supervised")
  \/ /\ pc \in Checkpointing /\ cp.reason = "final" /\ mode' = mode /\ run' = run
     /\ \/ Commits /\ final' = cp.snapshot
        \/ final' = row[run].initial /\ mode \in {"nochild", "retried"}

\* The checkpoint routine keeps the path it was called on.
LEMMA ReturnPathed ==
  ASSUME Base, Pathed, pc \in Checkpointing, NEW outcome, Return(outcome)
  PROVE  /\ Pathed'
         /\ outcome # "ok" => FinalMoves
         /\ outcome = "ok" /\ Commits => FinalMoves
<1>1. /\ mode' = mode /\ run' = run /\ cp.reason \in Reasons
      /\ pc' = CASE cp.reason = "initial" -> IF outcome = "ok" THEN "markRunning" ELSE "prepFail"
                 [] cp.reason = "final"   -> IF outcome = "ok" THEN "exclusions" ELSE "cleanup"
                 [] OTHER                 -> "supervise"
      /\ final' = IF cp.reason # "final" THEN final
                  ELSE IF outcome = "ok" THEN cp.snapshot
                  ELSE IF mode \in {"nochild", "retried"} THEN row[run].initial ELSE None
  BY DEF Return, Goto, Base, Placed
<1>2. CASE cp.reason = "initial"
  <2>1. pc' \in {"markRunning", "prepFail"} /\ final' = final
    BY <1>1, <1>2
  <2> QED BY <1>1, <2>1 DEF Pathed, FinalMoves, Checkpointing
<1>3. CASE cp.reason = "final"
  BY <1>1, <1>3 DEF Pathed, FinalMoves, Checkpointing
<1>4. CASE cp.reason \in {"manual", "quiescence"}
  <2>1. pc' = "supervise" /\ final' = final /\ mode # "prepare"
    BY <1>1, <1>4 DEF Pathed
  <2> QED BY <1>1, <2>1 DEF Pathed, FinalMoves, Checkpointing
<1> QED BY <1>1, <1>2, <1>3, <1>4 DEF Reasons

\* Every step keeps the path and moves the final snapshot in one of three ways.
LEMMA PathedStep ==
  ASSUME Base, [Next]_vars, Pathed
  PROVE  Pathed' /\ FinalMoves
<1> DEFINE Goal == Pathed' /\ FinalMoves
<1>1. CASE CheckpointStarts
  <2>1. CASE pc' = "ckptScan" /\ UNCHANGED <<cp, captureVars>>
    BY <1>1, <2>1 DEF CheckpointStarts, Pathed, FinalMoves, Checkpointing, captureVars
  <2>2. CASE Return("store")
    BY <1>1, <2>2, ReturnPathed DEF CheckpointStarts, Checkpointing
  <2> QED BY <1>1, <2>1, <2>2 DEF CheckpointStarts, Goto
<1>2. CASE Scan
  <2>1. /\ pc = "ckptScan" /\ pc' \in Checkpointing /\ cp'.reason = cp.reason /\ UNCHANGED captureVars
    BY <1>2 DEF Scan, Goto, Checkpointing, Base, LocalTypes
  <2> QED BY <2>1 DEF Pathed, FinalMoves, Checkpointing, captureVars
<1>3. CASE LimitWarning
  <2>1. CASE pc' = "ckptFail" /\ cp' = [cp EXCEPT !.error = "other"] /\ UNCHANGED captureVars
    <3>1. cp'.reason = cp.reason
      BY <2>1 DEF Base, LocalTypes
    <3> QED BY <1>3, <2>1, <3>1 DEF LimitWarning, Pathed, FinalMoves, Checkpointing, captureVars
  <2>2. CASE Return("store")
    BY <1>3, <2>2, ReturnPathed DEF LimitWarning, Checkpointing
  <2> QED BY <1>3, <2>1, <2>2 DEF LimitWarning, Goto
<1>4. CASE CheckpointFails
  <2>1. PICK ok \in BOOLEAN : Return(IF ok THEN cp.error ELSE "store")
    BY <1>4 DEF CheckpointFails
  <2>2. (IF ok THEN cp.error ELSE "store") # "ok"
    BY DEF Base, LocalTypes
  <2> QED BY <1>4, <2>1, <2>2, ReturnPathed DEF CheckpointFails, Checkpointing
<1>5. CASE CheckpointCommits
  <2>1. CASE Return("store")
    BY <1>5, <2>1, ReturnPathed DEF CheckpointCommits, Checkpointing
  <2>2. CASE Return("ok") /\ Commits
    BY <1>5, <2>2, ReturnPathed DEF CheckpointCommits, Checkpointing
  <2>3. Return("store") \/ (Return("ok") /\ Commits)
    BY <1>5 DEF CheckpointCommits, Commits, Return
  <2> QED BY <2>1, <2>2, <2>3
<1>6. Open \/ Exit \/ Crash \/ (\E r \in Runs : \E p : StartRun(r, p)) \/ Tick \/ UNCHANGED vars => Goal
  BY DEF Open, Exit, Crash, Forget, StartRun, Tick, vars, localVars, captureVars, Goto, Pathed,
         FinalMoves, Checkpointing
<1>7. Clone \/ MarkRunning => Goal
  BY DEF Clone, Begin, NoCheckpoint, MarkRunning, captureVars, Goto, Pathed, FinalMoves, Checkpointing
<1>8. Setup \/ StartUp \/ SpawnProducers => Goal
  <2> SUFFICES ASSUME Setup \/ StartUp \/ SpawnProducers PROVE Goal
    OBVIOUS
  <2>1. mode = "prepare" /\ final' = final
    BY DEF Setup, StartUp, SpawnProducers, Base, Placed, Early
  <2>2. \/ pc' \in {"startRun", "startInfo", "spawn"} /\ mode' = mode
        \/ pc' \in {"nochild", "reload"} /\ mode' = "nochild"
        \/ pc' = "supervise" /\ mode' = "supervised"
    BY DEF Setup, StartUp, SpawnProducers, Abort, Goto
  <2> QED BY <2>1, <2>2 DEF Pathed, FinalMoves, Checkpointing
<1>9. ChildExits \/ LeaveLoop \/ Reload \/ TerminateGroup \/ WarnExclusions \/ Cleanup => Goal
  BY DEF ChildExits, LeaveLoop, Reload, TerminateGroup, WarnExclusions, Cleanup, captureVars,
         Goto, Pathed, FinalMoves, Checkpointing
<1>10. Retention \/ PreparationFails \/ Finish => Goal
  BY DEF Retention, PreparationFails, Finish, captureVars, Goto, Pathed, FinalMoves, Checkpointing
<1>11. RecordExit \/ NoChild => Goal
  BY DEF RecordExit, NoChild, Begin, NoCheckpoint, captureVars, Goto, Pathed, FinalMoves, Checkpointing
<1>12. Observe \/ LimitReached \/ ObservationFails \/ Signal \/ PostRootWarning => Goal
  BY DEF Observe, LimitReached, ObservationFails, Signal, PostRootWarning, Quiet, Handling,
         Pathed, FinalMoves, Checkpointing
<1>13. Marker \/ Quiesce => Goal
  BY DEF Marker, Quiesce, Begin, NoCheckpoint, Handling, captureVars, Goto, Pathed, FinalMoves, Checkpointing
<1> QED
  BY <1>1, <1>2, <1>3, <1>4, <1>5, <1>6, <1>7, <1>8, <1>9, <1>10, <1>11, <1>12, <1>13
  DEF Next, Step, Arrival

\* What SnapshotsCommitted says of one run, with its initial snapshot whenever
\* there is one.
RowShown(r) ==
  /\ row[r].initial # None =>
       \E c \in checkpoints[r] : c.reason = "initial" /\ c.snapshot = row[r].initial
  /\ row[r].status \in {"running", "completed"} => row[r].initial # None
  /\ row[r].final # None =>
       \E c \in checkpoints[r] :
         /\ c.snapshot = row[r].final
         /\ c.reason = "final" \/ (c.reason = "initial" /\ row[r].status = "failed")

\* The snapshot a run is going to be finished with is a tree of its checkpoints.
FinalShown ==
  final # None =>
    \E c \in checkpoints[run] :
      /\ c.snapshot = final
      /\ c.reason = "final" \/ (c.reason = "initial" /\ mode # "supervised")

Shown == (\A r \in Runs : RowShown(r)) /\ FinalShown

\* A run is still shown when its row keeps its snapshots and does not leave
\* failure or enter running or completed.
LEMMA RowKept ==
  ASSUME NEW r \in Runs, RowShown(r), checkpoints[r] \subseteq checkpoints'[r],
         row'[r].initial = row[r].initial, row'[r].final = row[r].final,
         row[r].status = "failed" => row'[r].status = "failed",
         row'[r].status \in {"running", "completed"} => row[r].status \in {"running", "completed"}
  PROVE  RowShown(r)'
BY DEF RowShown

\* Committing a checkpoint binds its snapshot to the row.
LEMMA CommitShown ==
  ASSUME Base, run \in Runs, Commits, \A r \in Runs : RowShown(r)
  PROVE  /\ \A r \in Runs : RowShown(r)'
         /\ \A r \in Runs : checkpoints[r] \subseteq checkpoints'[r]
         /\ \E c \in checkpoints'[run] : c.reason = cp.reason /\ c.snapshot = cp.snapshot
<1> DEFINE c == [seq |-> next, id |-> cp.id, reason |-> cp.reason, snapshot |-> cp.snapshot]
<1>1. StoreTypeOK /\ c \in Checkpoints /\ c.reason = cp.reason /\ c.snapshot = cp.snapshot
  BY CommitTypes DEF Commits, Base, Journal, Bookkeeping
<1>2. CanCommit(run, c) /\ CheckpointStored(run, c) /\ row[run].status \in Active
  BY DEF Commits, CommitCheckpointWithEvent, CanAppend
<1> HIDE DEF c
<1>3. /\ checkpoints'[run] = checkpoints[run] \cup {c}
      /\ \A q \in Runs \ {run} : checkpoints'[q] = checkpoints[q] /\ row'[q] = row[q]
      /\ row'[run].status = row[run].status
      /\ row'[run].initial = IF c.reason = "initial" THEN c.snapshot ELSE row[run].initial
      /\ row'[run].final = IF c.reason = "final" THEN c.snapshot ELSE row[run].final
  BY <1>1, <1>2 DEF CheckpointStored, StoreTypeOK, Rows
<1>4. \A r \in Runs : checkpoints[r] \subseteq checkpoints'[r]
  BY <1>3
<1>5. ASSUME NEW r \in Runs, r = run PROVE RowShown(r)'
  <2>1. c \in checkpoints'[r] /\ c.snapshot # None /\ RowShown(r)
    BY <1>1, <1>3, <1>5, NoneIsAbsent DEF Checkpoints
  <2>2. row'[r].status \notin Terminal
    BY <1>2, <1>3, <1>5 DEF Active, Terminal
  <2>3. row'[r].initial # None =>
          \E d \in checkpoints'[r] : d.reason = "initial" /\ d.snapshot = row'[r].initial
    BY <1>3, <1>5, <2>1 DEF RowShown
  <2>4. row'[r].final # None =>
          \E d \in checkpoints'[r] :
            /\ d.snapshot = row'[r].final
            /\ d.reason = "final" \/ (d.reason = "initial" /\ row'[r].status = "failed")
    BY <1>3, <1>5, <2>1 DEF RowShown
  <2>5. row'[r].status \in {"running", "completed"} => row'[r].initial # None
    BY <1>3, <1>5, <2>1 DEF RowShown
  <2> QED BY <2>3, <2>4, <2>5 DEF RowShown
<1>6. ASSUME NEW r \in Runs \ {run} PROVE RowShown(r)'
  BY <1>3, RowKept
<1>7. \E d \in checkpoints'[run] : d.reason = cp.reason /\ d.snapshot = cp.snapshot
  BY <1>1, <1>3
<1>8. \A r \in Runs : RowShown(r)'
  BY <1>5, <1>6
<1> QED BY <1>4, <1>7, <1>8

\* Only a failed run is finished with anything but a final checkpoint's tree.
LEMMA ConcludeShown ==
  ASSUME Base, run \in Runs, Concludes, Shown
  PROVE  \A r \in Runs : RowShown(r)'
<1> DEFINE f == Outcome
<1>1. /\ StoreTypeOK /\ Finished(run, f) /\ CanFinish(run, f) /\ checkpoints' = checkpoints
  BY DEF Concludes, FinishRunWithEvents, Base, Journal, Bookkeeping
<1>2. f.final = final /\ f.status = FinalStatus
  BY DEF Outcome
<1>3. f.status # "failed" => mode = "supervised"
  BY <1>2 DEF FinalStatus
<1>4. f.status = "completed" => row[run].status = "running"
  BY <1>1 DEF CanFinish, CanTransition
<1>5. f.status \in Terminal
  BY DEF Concludes, Finishes
<1> HIDE DEF f
<1>6. /\ row'[run].status = f.status /\ row'[run].final = f.final
      /\ row'[run].initial = row[run].initial
      /\ \A q \in Runs \ {run} : row'[q] = row[q]
  BY <1>1 DEF Finished, StoreTypeOK, Rows
<1>7. ASSUME NEW r \in Runs, r = run PROVE RowShown(r)'
  BY <1>1, <1>2, <1>3, <1>4, <1>5, <1>6, <1>7 DEF Shown, RowShown, FinalShown, Terminal
<1>8. ASSUME NEW r \in Runs \ {run} PROVE RowShown(r)'
  BY <1>1, <1>6, RowKept DEF Shown
<1> QED BY <1>7, <1>8

\* Every effect keeps what the runs are shown with.
LEMMA ShownStep ==
  ASSUME Base, Effect, Base', Shown, Pathed, FinalMoves
  PROVE  Shown'
<1>0. StoreTypeOK /\ run \in Runs \cup {None} /\ None \notin Runs
  BY RecorderConstants DEF Base, Journal, Bookkeeping, LocalTypes
<1>1. CASE Closes
  <2>1. row' = row /\ checkpoints' = checkpoints /\ final' = None
    BY <1>1 DEF Closes, CloseStore, Forget
  <2> QED BY <2>1 DEF Shown, RowShown, FinalShown
<1>2. CASE Creates
  <2>1. final' = None
    BY <1>2 DEF Creates, FinalMoves, Pathed, Base, Placed, Early, Checkpointing
  <2>2. PICK r \in Runs : /\ row' = [row EXCEPT ![r].status = "preparing"]
                          /\ row[r].status = "absent" /\ checkpoints' = checkpoints
    BY <1>2 DEF Creates, CreateRun
  <2>3. ASSUME NEW q \in Runs PROVE RowShown(q)'
    <3>1. /\ row'[q].initial = row[q].initial /\ row'[q].final = row[q].final
          /\ row'[q].status = IF q = r THEN "preparing" ELSE row[q].status
      BY <1>0, <2>2 DEF StoreTypeOK, Rows
    <3> QED BY <2>2, <3>1, RowKept DEF Shown
  <2> QED BY <2>1, <2>3 DEF Shown, FinalShown
<1>3. CASE Opens
  <2>1. run' = run /\ checkpoints' = checkpoints /\ ~Commits /\ run = None /\ pc = "off"
    BY <1>3 DEF Opens, OpenStore, Recover, Commits, CommitCheckpointWithEvent, Base, Placed
  <2>2. final' = None
    BY <2>1 DEF FinalMoves, Pathed, Base, Placed, Early, Checkpointing
  <2>3. ASSUME NEW q \in Runs PROVE RowShown(q)'
    <3>1. /\ row'[q].initial = row[q].initial /\ row'[q].final = row[q].final
          /\ row'[q].status = IF row[q].status \in Active THEN "interrupted" ELSE row[q].status
      <4>1. row'[q] = IF row[q].status \in Active
                      THEN [row[q] EXCEPT !.status = "interrupted", !.duration = LastOffset(q)]
                      ELSE row[q]
        BY <1>3 DEF Opens, OpenStore, Recover
      <4>2. row[q] \in Rows
        BY <1>0 DEF StoreTypeOK
      <4> QED BY <4>1, <4>2 DEF Rows
    <3> QED BY <2>1, <3>1, RowKept DEF Shown, Active
  <2> QED BY <2>2, <2>3 DEF Shown, FinalShown
<1>4. ASSUME run' = run, \A r \in Runs : RowShown(r)', run \in Runs,
             \A r \in Runs : checkpoints[r] \subseteq checkpoints'[r],
             Commits => \E c \in checkpoints'[run] : c.reason = cp.reason /\ c.snapshot = cp.snapshot
      PROVE  Shown'
  <2>1. CASE final' = final /\ (mode' = "supervised" => mode = "supervised")
    BY <1>4, <2>1 DEF Shown, FinalShown
  <2>2. CASE cp.reason = "final" /\ Commits /\ final' = cp.snapshot
    BY <1>4, <2>2 DEF Shown, FinalShown
  <2>3. CASE final' = row[run].initial /\ mode' = mode /\ mode \in {"nochild", "retried"}
    BY <1>4, <2>3 DEF Shown, FinalShown, RowShown
  <2> QED BY <1>4, <2>1, <2>2, <2>3 DEF FinalMoves, Shown, FinalShown
<1>5. CASE Rests \/ Loses \/ (run \in Runs /\ Sends)
  <2>1. row' = row /\ checkpoints' = checkpoints /\ run' = run
    BY <1>5, SendsSent DEF Rests, Loses, Sent, storeVars
  <2>2. \A r \in Runs : RowShown(r)'
    BY <2>1 DEF Shown, RowShown
  <2>3. ~Commits
    <3>1. ASSUME Commits PROVE checkpoints' # checkpoints
      <4>1. run \in Runs
        BY <3>1, <1>0 DEF Commits, Base, Placed
      <4> QED
        BY <1>0, <3>1, <4>1, CommitTypes
        DEF Commits, CommitCheckpointWithEvent, CanCommit, CheckpointStored, StoreTypeOK
    <3> QED BY <2>1, <3>1
  <2>4. CASE run \in Runs
    BY <1>4, <2>1, <2>2, <2>3, <2>4
  <2>5. CASE run = None
    <3>1. pc \in {"off", "opened", "done"}
      BY <2>5 DEF Base, Placed
    <3> QED BY <2>1, <2>2, <2>5, <3>1 DEF Shown, FinalShown, FinalMoves, Checkpointing
  <2> QED BY <1>0, <2>4, <2>5
<1>6. CASE run \in Runs /\ Commits
  BY <1>4, <1>6, CommitShown DEF Shown, Commits
<1>7. CASE run \in Runs /\ Concludes
  <2>1. run' = run /\ checkpoints' = checkpoints
    BY <1>7 DEF Concludes, FinishRunWithEvents
  <2>2. ~Commits
    <3> SUFFICES ASSUME Commits PROVE FALSE
      OBVIOUS
    <3>1. checkpoints' # checkpoints
      BY <1>0, <1>7, CommitTypes DEF Commits, CommitCheckpointWithEvent, CanCommit, CheckpointStored, StoreTypeOK
    <3> QED BY <2>1, <3>1
  <2> QED BY <1>4, <1>7, <2>1, <2>2, ConcludeShown
<1>8. CASE run \in Runs /\ Starting
  <2>1. /\ run' = run /\ checkpoints' = checkpoints /\ next' = next
        /\ row' = [row EXCEPT ![run].status = "running", ![run].initial = row[run].initial]
        /\ row[run].initial \in snapshots
    BY <1>8 DEF Starting, MarkRunRunning
  <2>2. row[run].initial # None /\ ~Commits
    BY <1>0, <2>1, NoneIsAbsent DEF StoreTypeOK, Commits, Base, LocalTypes
  <2>3. ASSUME NEW q \in Runs PROVE RowShown(q)'
    <3>1. /\ row'[q].initial = row[q].initial /\ row'[q].final = row[q].final
          /\ row'[q].status = IF q = run THEN "running" ELSE row[q].status
      BY <1>0, <2>1 DEF StoreTypeOK, Rows
    <3>2. row[run].status = "preparing"
      BY <1>8 DEF Starting, MarkRunRunning
    <3> QED BY <2>1, <2>2, <3>1, <3>2 DEF Shown, RowShown
  <2> QED BY <1>4, <1>8, <2>1, <2>2, <2>3
<1> QED BY <1>1, <1>2, <1>3, <1>5, <1>6, <1>7, <1>8 DEF Effect

\* The snapshots in a run's row are trees of its own checkpoints
\* (mark_run_running, commit_scanned, finish_running_without_child).
THEOREM SnapshotsKept == Spec => []SnapshotsCommitted
<1> DEFINE Inv == Base /\ Pathed /\ Shown
<1>1. Init => Inv
  <2> SUFFICES ASSUME Init PROVE Pathed /\ Shown
    BY BaseInit
  <2>1. Pathed
    BY DEF Init, Pathed, Checkpointing
  <2>2. \A r \in Runs : row[r] = EmptyRow
    BY DEF Init, StoreInit
  <2> QED BY <2>1, <2>2 DEF Init, Shown, RowShown, FinalShown, EmptyRow
<1>2. Inv /\ [Next]_vars => Inv'
  BY BaseStep, PathedStep, ShownStep
<1>3. Inv => SnapshotsCommitted
  BY DEF Shown, RowShown, SnapshotsCommitted
<1> QED BY <1>1, <1>2, <1>3, PTL DEF Spec
=============================================================================
