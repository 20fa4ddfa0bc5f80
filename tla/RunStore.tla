------------------------------ MODULE RunStore ------------------------------
(***************************************************************************)
(* The run tables under arbitrary clients: any transaction, with any       *)
(* arguments within the bounds, in any order, with the store closed and    *)
(* reopened in between.  It shows what the store guarantees whoever calls  *)
(* it; module Recorder is its one client in the program.                   *)
(***************************************************************************)
EXTENDS RunTables

CONSTANTS MaxEvents,  \* bound: the longest timeline a client submits
          MaxTime,    \* bound: the largest monotonic offset a client submits
          ClientKinds, ClientReasons, ClientStatuses
                      \* bounds: the payloads, checkpoint reasons and outcomes
                      \* clients use

ASSUME ClientBounds ==
  /\ MaxEvents \in Nat
  /\ MaxTime \in Nat
  /\ ClientKinds \subseteq {"Observed", "Warning"}
  /\ ClientReasons \subseteq Reasons
  /\ ClientStatuses \subseteq Terminal

\* What a client may submit.  Sequence numbers, offsets and the agreement of
\* the completion event with the finish metadata are its choice; a committed
\* body is only ever submitted together with its checkpoint.
PlainEvents == [seq : 1..MaxEvents, at : 0..MaxTime, body : [kind : ClientKinds]]

CompletionEvents ==
  [seq : 1..MaxEvents, at : 0..MaxTime,
   body : [kind : {"RunCompleted"}, status : ClientStatuses, exit : {None, "success"}]]

SubmittedBatches ==
  LET any == PlainEvents \cup CompletionEvents
  IN {<<a>> : a \in any} \cup {<<a, b>> : a \in PlainEvents, b \in any}

SubmittedCheckpoints ==
  [seq : 1..MaxEvents, id : 1..MaxEvents, reason : ClientReasons, snapshot : Snapshots]

SubmittedFinishes ==
  [status : ClientStatuses, exit : {None, "success"},
   final : Snapshots \cup {None}, duration : 0..MaxTime]

\* The operations the recorder and Store::open perform.
Journalled ==
  \/ OpenStore
  \/ CloseStore
  \/ \E r \in Runs :
       \/ \E p \in {None} \cup [run : Runs, checkpoint : 1..MaxEvents] : CreateRun(r, p)
       \/ \E s \in Snapshots : MarkRunRunning(r, s)
       \/ \E b \in SubmittedBatches : AppendEventBatch(r, b)
       \/ \E c \in SubmittedCheckpoints, t \in 0..MaxTime :
            CommitCheckpointWithEvent(r, c, [seq |-> c.seq, at |-> t, body |-> Committed(c)])
       \/ \E b \in SubmittedBatches, f \in SubmittedFinishes : FinishRunWithEvents(r, f, b)

\* The other exported operations.
Direct ==
  \/ MarkInterruptedRuns
  \/ \E s \in Snapshots : StoreSnapshot(s)
  \/ \E r \in Runs :
       \/ \E c \in SubmittedCheckpoints : CommitCheckpoint(r, c)
       \/ \E f \in SubmittedFinishes : FinishRun(r, f)

JournalSpec == StoreInit /\ [][Journalled]_storeVars

Spec == StoreInit /\ [][Journalled \/ Direct]_storeVars

-----------------------------------------------------------------------------
(* What no step may do.                                                    *)

\* Once a run is terminal nothing about it changes again: no late append,
\* checkpoint, second finish or recovery (the journalled operations).
TerminalRunsFrozen ==
  [][\A r \in Runs : row[r].status \in Terminal =>
       /\ row'[r] = row[r]
       /\ events'[r] = events[r]
       /\ checkpoints'[r] = checkpoints[r]]_storeVars

\* With the lower-level operations as well, a terminal status and timeline are
\* still final and the lifecycle still only moves forward.
LifecycleForward ==
  [][\A r \in Runs :
       /\ row[r].status \in Terminal =>
            row'[r].status = row[r].status /\ events'[r] = events[r]
       /\ row[r].status = "running" => row'[r].status \in {"running"} \cup Terminal
       /\ row[r].status = "preparing" /\ row'[r].status = "completed" => FALSE]_storeVars
=============================================================================
