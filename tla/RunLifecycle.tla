---------------------------- MODULE RunLifecycle ----------------------------
(***************************************************************************)
(* What a reader of the store may rely on, without batches, checkpoints,   *)
(* sequence numbers or the recorder's control flow: one run is recorded at *)
(* a time, its timeline only grows, completion is the last thing it says,  *)
(* and a run is interrupted from outside only while nobody records.        *)
(***************************************************************************)
EXTENDS Sequences, Integers

CONSTANTS Runs, None

VARIABLES phase,  \* run -> "absent" or its RunStatus
          log,    \* run -> the kinds of its events
          live    \* the run a process records, or None

lifecycleVars == <<phase, log, live>>

Open == {"preparing", "running"}
Ends == {"completed", "failed", "interrupted", "crashed"}

Extends(new, old) == Len(new) > Len(old) /\ SubSeq(new, 1, Len(old)) = old

Create(r) ==
  /\ live = None
  /\ phase[r] = "absent"
  /\ phase' = [phase EXCEPT ![r] = "preparing"]
  /\ live' = r
  /\ UNCHANGED log

\* Events become durable, none of them a completion.
Record(r) ==
  /\ live = r
  /\ phase[r] \in Open
  /\ Extends(log'[r], log[r])
  /\ \A i \in 1..Len(log'[r]) : log'[r][i] # "RunCompleted"
  /\ log' = [log EXCEPT ![r] = log'[r]]
  /\ UNCHANGED <<phase, live>>

Start(r) ==
  /\ live = r
  /\ phase[r] = "preparing"
  /\ phase' = [phase EXCEPT ![r] = "running"]
  /\ UNCHANGED <<log, live>>

\* The rest of the timeline, its completion and the outcome in one step.
Finish(r) ==
  /\ live = r
  /\ phase[r] \in Open
  /\ \E s \in Ends : /\ phase' = [phase EXCEPT ![r] = s]
                    /\ s = "completed" => phase[r] = "running"
  /\ Extends(log'[r], log[r])
  /\ \A i \in 1..Len(log'[r]) : log'[r][i] = "RunCompleted" <=> i = Len(log'[r])
  /\ log' = [log EXCEPT ![r] = log'[r]]
  /\ UNCHANGED live

\* The process ends, in order or not.
Leave ==
  /\ live # None
  /\ live' = None
  /\ UNCHANGED <<phase, log>>

Recover ==
  /\ live = None
  /\ phase' = [r \in Runs |-> IF phase[r] \in Open THEN "interrupted" ELSE phase[r]]
  /\ UNCHANGED <<log, live>>

Init ==
  /\ phase = [r \in Runs |-> "absent"]
  /\ log = [r \in Runs |-> <<>>]
  /\ live = None

Next ==
  \/ \E r \in Runs : Create(r) \/ Record(r) \/ Start(r) \/ Finish(r)
  \/ Leave
  \/ Recover

Spec == Init /\ [][Next]_lifecycleVars
=============================================================================
