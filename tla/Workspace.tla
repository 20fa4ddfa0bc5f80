------------------------------ MODULE Workspace ------------------------------
(***************************************************************************)
(* A workspace that its processes change while it is recorded: the tracker *)
(* of dirty paths that schedules automatic checkpoints (recorder.rs,       *)
(* DirtyTracker), and the scan that makes a snapshot of it (scan.rs over   *)
(* the descriptors of rewind-platform/filesystem.rs).                      *)
(*                                                                         *)
(* Contents and stamps are never compared but for being the same as at an  *)
(* earlier look, so what is kept is which entries were changed since that  *)
(* look.  Every change gives its entry a stamp it never had: an instant of *)
(* the file system's clock is short against a write.  Making and removing  *)
(* a name changes its directory.                                           *)
(***************************************************************************)
EXTENDS Naturals, Sequences, FiniteSets

CONSTANTS File, Dir, Root,
          Parent,      \* entry -> its directory
          Ignored,     \* entries that the options exclude from snapshots
          MaxPending,  \* options.maximum_pending_dirty_paths
          Faulty       \* what may fail: "race", "limit" (the tracker's walk),
                       \* "read", "store" (a scan)

Entry == File \cup Dir

ASSUME WorkspaceAssumption ==
  /\ Root \notin Entry /\ File \cap Dir = {}
  /\ Parent \in [Entry -> Dir \cup {Root}]
  /\ Ignored \subseteq Entry /\ MaxPending \in Nat \ {0}
  /\ Faulty \subseteq {"race", "limit", "read", "store"}

VARIABLES
  present,           \* entries that exist
  known, touched,    \* the tracker: entries at its last look, those changed since
  pending, settled, since, disabled, deferred, \* its other fields
  scan,              \* "idle", "walk" or "reread": the checkpoint under way
  walk,              \* where its scan is, see Walks
  stale,             \* entries and directories changed since the scan looked at them
  saved, fresh,      \* the last checkpoint: its entries, those changed since read
  slipped,           \* what the checkpoint and the reread after it saw differently, until
                     \* the tracker sees a change
  over               \* the child has exited or the capture has failed

trackerVars == <<known, touched, pending, settled, since, disabled, deferred, slipped>>
savedVars   == <<saved, fresh>>
vars == <<present, trackerVars, scan, walk, stale, savedVars, over>>

Children(d) == {e \in Entry : Parent[e] = d}

\* Entries that differ from the tracker's last look, and from the checkpoint.
Changed == {e \in Entry : (e \in known) # (e \in present)} \cup (touched \cap present)
Unsaved == {e \in Entry \ Ignored : (e \in saved) # (e \in present)} \cup (fresh \cap present)

\* The directories entered, what is listed and not yet looked at, the file being
\* read (Root: none) and whether it was written since; what the snapshot has and
\* what it excludes, and the directories that are complete.
Walks == [stack : Seq(Dir \cup {Root}), todo : SUBSET Entry, file : File \cup {Root},
          mixed : BOOLEAN, got : SUBSET Entry, excluded : SUBSET File,
          closed : SUBSET (Dir \cup {Root})]

TypeOK ==
  /\ present \subseteq Entry /\ known \subseteq Entry /\ touched \subseteq known
  /\ pending \subseteq Entry /\ Cardinality(pending) <= MaxPending
  /\ settled \in BOOLEAN /\ since \in {"recent", "minimum", "maximum"}
  /\ disabled \in BOOLEAN /\ deferred \in BOOLEAN
  /\ scan \in {"idle", "walk", "reread"}
  /\ walk \in Walks /\ stale \subseteq Entry \cup {Root}
  /\ saved \subseteq Entry /\ fresh \subseteq saved /\ slipped \subseteq Entry
  /\ over \in BOOLEAN

WalkFrom(dirs, listed) == [stack |-> dirs, todo |-> listed, file |-> Root, mixed |-> FALSE,
                           got |-> {}, excluded |-> {}, closed |-> {}]
NoWalk == WalkFrom(<<>>, {})

\* entries_bounded, without what is ignored.
Listed(d) == (Children(d) \cap present) \ Ignored

\* The initial checkpoint has been committed and the child starts.
Init ==
  /\ present \in {S \in SUBSET Entry : \A e \in S : Parent[e] \in S \cup {Root}}
  /\ known = present /\ touched = {} /\ pending = {} /\ settled = FALSE /\ since = "recent"
  /\ disabled = FALSE /\ deferred \in {b \in BOOLEAN : b => "limit" \in Faulty}
  /\ scan = "idle" /\ walk = NoWalk /\ stale = {}
  /\ saved = present \ Ignored /\ fresh = {} /\ slipped = {}
  /\ over = FALSE

-----------------------------------------------------------------------------
(* The processes at work in the workspace, and the clock.                  *)

Change(S) ==
  /\ ~over
  /\ touched' = touched \cup (S \cap known)
  /\ stale' = IF scan = "walk" THEN stale \cup S ELSE {}
  /\ fresh' = fresh \cup (S \cap saved)
  /\ walk' = [walk EXCEPT !.mixed = @ \/ walk.file \in S \cap File]
  /\ UNCHANGED <<known, pending, settled, since, disabled, deferred, scan, saved, slipped, over>>

Write == \E f \in File \cap present : Change({f}) /\ UNCHANGED present

Make ==
  \E e \in Entry \ present :
    /\ Parent[e] \in present \cup {Root}
    /\ present' = present \cup {e} /\ Change({e, Parent[e]})

Remove ==
  \E e \in present :
    /\ Children(e) \cap present = {}
    /\ present' = present \ {e} /\ Change({e, Parent[e]})

\* checkpoint_debounce passes without a change.
Settle ==
  /\ ~over /\ pending # {} /\ ~settled /\ settled' = TRUE
  /\ UNCHANGED <<present, known, touched, pending, since, disabled, deferred, slipped, scan, walk,
                 stale, savedVars, over>>

\* checkpoint_min_interval passes, then checkpoint_max_interval.
Age ==
  /\ ~over /\ since # "maximum" /\ since' = IF since = "recent" THEN "minimum" ELSE "maximum"
  /\ UNCHANGED <<present, known, touched, pending, settled, disabled, deferred, slipped, scan, walk,
                 stale, savedVars, over>>

\* The child exits, or an error ends the capture.
Exit ==
  /\ scan = "idle" /\ ~over /\ over' = TRUE
  /\ UNCHANGED <<present, trackerVars, scan, walk, stale, savedVars>>

-----------------------------------------------------------------------------
(* The tracker.                                                            *)

\* The scan opens the root and enumerates it.
BeginScan ==
  /\ scan' = "walk" /\ walk' = WalkFrom(<<Root>>, Listed(Root)) /\ stale' = {}

\* Mutant: without the maximum interval.
ShouldCheckpoint_Debounced(paths, calm) ==
  /\ paths # {}
  /\ \/ Cardinality(paths) >= MaxPending
     \/ calm /\ since # "recent"

\* should_checkpoint.
ShouldCheckpoint(paths, calm) ==
  /\ paths # {}
  /\ \/ Cardinality(paths) >= MaxPending
     \/ since = "maximum"
     \/ calm /\ since # "recent"

\* poll_workspace: observe, and a checkpoint if one is due.  What does not fit
\* into pending is forgotten.
Poll ==
  /\ scan = "idle" /\ ~over /\ ~disabled /\ ~deferred
  /\ \E paths \in SUBSET (Changed \ pending) :
       /\ Cardinality(pending \cup paths) <= MaxPending
       /\ paths = Changed \ pending \/ Cardinality(pending \cup paths) = MaxPending
       /\ pending' = pending \cup paths
  /\ settled' = (settled /\ Changed = {})
  /\ known' = present /\ touched' = {}
  /\ slipped' = IF Changed = {} THEN slipped ELSE {}
  /\ IF ShouldCheckpoint(pending', settled') THEN BeginScan
     ELSE UNCHANGED <<scan, walk, stale>>
  /\ UNCHANGED <<present, since, disabled, deferred, savedVars, over>>

\* The walk meets a race, which is tried again, or too many entries, after
\* which there are no more hints.
PollFails ==
  /\ scan = "idle" /\ ~over /\ ~disabled
  /\ \/ (deferred \/ "limit" \in Faulty) /\ disabled' = TRUE /\ deferred' = FALSE
     \/ ~deferred /\ "race" \in Faulty /\ UNCHANGED <<disabled, deferred>>
  /\ UNCHANGED <<present, known, touched, pending, settled, since, slipped, scan, walk, stale,
                 savedVars, over>>

\* A manual checkpoint.
Mark ==
  /\ scan = "idle" /\ ~over
  /\ BeginScan
  /\ UNCHANGED <<present, trackerVars, savedVars, over>>

-----------------------------------------------------------------------------
(* The scan.                                                               *)

InDirectory == scan = "walk" /\ walk.file = Root /\ walk.stack # <<>>
Top == walk.stack[Len(walk.stack)]

\* Mutant: a checkpoint that failed clears the tracker.
AbandonScan_Clears ==
  /\ scan' = "idle" /\ walk' = NoWalk /\ stale' = {} /\ pending' = {}
  /\ UNCHANGED <<present, known, touched, settled, since, disabled, deferred, slipped, savedVars, over>>

\* An entry or a directory is not what it was: the checkpoint has failed, the
\* capture and what is pending go on.
AbandonScan ==
  /\ scan' = "idle" /\ walk' = NoWalk /\ stale' = {}
  /\ UNCHANGED <<present, trackerVars, savedVars, over>>

\* A look at an entry whose stamp was taken earlier, and what follows if it is
\* the same.
Look(e, next) ==
  IF e \in stale \/ e \notin present \cup {Root} THEN AbandonScan
  ELSE walk' = next /\ UNCHANGED <<present, trackerVars, scan, savedVars, over>>

\* open_directory and its entries.
EnterDirectory ==
  /\ InDirectory
  /\ \E d \in walk.todo \cap Children(Top) \cap Dir :
       /\ Look(d, [walk EXCEPT !.stack = Append(@, d), !.todo = (@ \ {d}) \cup Listed(d),
                               !.got = @ \cup {d}])
       /\ stale' = IF scan' = "idle" THEN {} ELSE stale \ Children(d)

\* read_regular_file opens the entry that was listed and reads.
OpenFile ==
  /\ InDirectory
  /\ \E f \in walk.todo \cap Children(Top) \cap File :
       Look(f, [walk EXCEPT !.file = f, !.mixed = FALSE, !.todo = @ \ {f}])
  /\ scan' = "walk" => UNCHANGED stale

\* The descriptor and the name are the same after the read; the object is stored.
CloseFile ==
  /\ scan = "walk" /\ walk.file # Root
  /\ Look(walk.file, [walk EXCEPT !.got = @ \cup {walk.file}, !.file = Root, !.mixed = FALSE])
  /\ scan' = "walk" => UNCHANGED stale

\* A file that is too large is excluded, unread.
ExcludeFile ==
  /\ scan = "walk" /\ walk.file # Root
  /\ walk' = [walk EXCEPT !.excluded = @ \cup {walk.file}, !.file = Root, !.mixed = FALSE]
  /\ UNCHANGED <<present, trackerVars, scan, stale, savedVars, over>>

\* Mutant: a directory is not compared with its stamp once it has been walked.
LeaveDirectory_Unverified ==
  /\ InDirectory /\ walk.todo \cap Children(Top) = {}
  /\ walk' = [walk EXCEPT !.stack = SubSeq(@, 1, Len(@) - 1), !.closed = @ \cup {Top}]
  /\ UNCHANGED <<present, trackerVars, scan, stale, savedVars, over>>

\* verify_unchanged, and verify_entry in the directory above.
LeaveDirectory ==
  /\ InDirectory /\ walk.todo \cap Children(Top) = {}
  /\ Look(Top, [walk EXCEPT !.stack = SubSeq(@, 1, Len(@) - 1), !.closed = @ \cup {Top}])
  /\ scan' = "walk" => UNCHANGED stale

\* A call fails: one on the workspace is nonfatal, as a change is; one of the
\* store ends the capture.
ScanFails ==
  /\ scan = "walk"
  /\ \/ "read" \in Faulty /\ AbandonScan
     \/ /\ "store" \in Faulty
        /\ scan' = "idle" /\ walk' = NoWalk /\ stale' = {} /\ over' = TRUE
        /\ UNCHANGED <<present, trackerVars, savedVars>>

\* The root is complete: the checkpoint is committed.
Commit ==
  /\ scan = "walk" /\ walk.stack = <<>>
  /\ scan' = "reread" /\ walk' = NoWalk /\ stale' = {}
  /\ saved' = walk.got \cup walk.excluded /\ fresh' = stale \cap saved'
  /\ slipped' = {}
  /\ UNCHANGED <<present, known, touched, pending, settled, since, disabled, deferred, over>>

\* clear_after_checkpoint looks at the workspace once more, which may fail,
\* and forgets what was pending.
Reread ==
  /\ scan = "reread" /\ scan' = "idle"
  /\ pending' = {} /\ settled' = FALSE /\ since' = "recent"
  /\ \/ /\ ~disabled
        /\ known' = present /\ touched' = {}
        /\ UNCHANGED deferred
     \/ /\ disabled \/ "race" \in Faulty
        /\ UNCHANGED <<known, touched, deferred>>
     \/ /\ ~disabled /\ "limit" \in Faulty /\ deferred' = TRUE
        /\ UNCHANGED <<known, touched>>
  /\ slipped' = Unsaved \cup {e \in Entry \ Ignored : (e \in known') # (e \in saved)}
  /\ UNCHANGED <<present, disabled, walk, stale, savedVars, over>>

-----------------------------------------------------------------------------
Scan == EnterDirectory \/ OpenFile \/ CloseFile \/ ExcludeFile \/ LeaveDirectory \/ ScanFails
        \/ Commit \/ Reread

Next == Write \/ Make \/ Remove \/ Settle \/ Age \/ Exit \/ Poll \/ PollFails \/ Mark \/ Scan

Spec == Init /\ [][Next]_vars

\* The recorder runs and time passes.  Nothing is assumed of the tracker's walks.
FairSpec == Spec /\ WF_vars(Scan) /\ WF_vars(Age)

-----------------------------------------------------------------------------
(* Properties.                                                             *)

\* A concurrent mutation is reported rather than silently combined: a file of
\* a snapshot was not written while it was read, and when the scan is done
\* with a directory, its snapshot has the very entries that are there, however
\* long its files and the directories beneath it took.
ScannedAsItWas ==
  [][/\ \A f \in (walk'.got \ walk.got) \cap File : f = walk.file /\ ~walk.mixed
     /\ \A d \in walk'.closed \ walk.closed :
          Listed(d) = (walk'.got \cup walk'.excluded) \cap Children(d)]_vars

\* An entry that differs from the last checkpoint is noticed: it differs from
\* the tracker's last look too, or something is pending that will bring a
\* checkpoint; unless the checkpoint and the reread after it saw it differently, in the
\* gap between the two or because the reread failed.
UnsavedIsNoticed ==
  ~disabled /\ scan = "idle" /\ Unsaved \ (Changed \cup slipped) # {} => pending # {}

\* The tracker's walk succeeds again and again.  The code does not see to that:
\* a walk fails when anything it looks at changes under it (walk_state), and
\* poll_workspace then does not ask whether a checkpoint is due.
WalksSucceed == []<><<Poll>>_vars

\* As long as walks succeed now and then, a pending path brings a scan, be it
\* that the writers never leave debounce time to pass: the maximum interval
\* does.  (While every walk fails it does not.)
ScansComeEventually ==
  WalksSucceed => (pending # {} /\ scan = "idle" ~> scan = "walk" \/ disabled \/ over)
=============================================================================
