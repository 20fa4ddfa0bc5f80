----------------------------- MODULE Materialize -----------------------------
(***************************************************************************)
(* A checkout of a snapshot (rewind-snapshot/restore.rs, over the names of *)
(* a pinned directory, rewind-platform/filesystem.rs): a private sibling   *)
(* tree is built, then renamed to the destination; what was there is moved *)
(* to a backup name first and removed afterwards.  Meanwhile users of the  *)
(* directory come and go at the destination, each call can fail, and the   *)
(* process can die.                                                        *)
(***************************************************************************)
EXTENDS FiniteSets

CONSTANTS Directories, Files, Links, \* the entries of the snapshot
          Top, Parent,               \* its root, and entry -> directory
          TreeContent, FileContent,  \* what users put there: nonempty trees, files
          Faulty                     \* "load", "disk", "race", "crash": what may fail

Entry   == Directories \cup Files \cup Links
Content == TreeContent \cup FileContent

\* What the constants must be.
MaterializeAssumption ==
  /\ Top \notin Entry /\ Parent \in [Entry -> Directories \cup {Top}]
  /\ Content \cap {"absent", "empty", "tree", "rest"} = {}
  /\ Faulty \subseteq {"load", "disk", "race", "crash"}

VARIABLES
  pc, force, seen,      \* the call's progress, its option, its first look
  dest, temp, backup,   \* what has each of the three names, see Things
  built, finished,      \* entries of the tree made, directories with their mode
  made, late, unseen    \* contents users have put there; those since the last look that
                        \* could refuse them; those since the last look of all

names == <<dest, temp, backup>>
tree  == <<built, finished>>
users == <<made, late, unseen>>
vars  == <<pc, force, seen, names, tree, users>>

\* The checkout is a "tree", what a removal left is a "rest".
Things == Content \cup {"absent", "empty", "tree", "rest"}

TypeOK ==
  /\ pc \in {"begin", "preflight", "create", "build", "look", "choose", "place", "backup",
             "install", "rollback", "remove", "sync", "failing", "done", "failed", "crashed"}
  /\ force \in BOOLEAN /\ seen \in {"absent", "empty", "occupied"}
  /\ dest \in Things /\ temp \in {"absent", "tree", "rest"} /\ backup \in Things
  /\ built \subseteq Entry /\ finished \subseteq Directories
  /\ made \subseteq Content /\ late \subseteq made /\ unseen \subseteq late

Init ==
  /\ pc = "begin" /\ force \in BOOLEAN /\ seen = "absent"
  /\ dest \in Content \cup {"absent", "empty"} /\ temp = "absent" /\ backup = "absent"
  /\ built = {} /\ finished = {} /\ made = {dest} \cap Content /\ late = {} /\ unseen = {}

-----------------------------------------------------------------------------
\* child_state.
State(thing) == IF thing \in {"absent", "empty"} THEN thing ELSE "occupied"

Go(step) == pc' = step /\ UNCHANGED <<force, seen, names, tree, users>>

Ended == pc \in {"done", "failed", "crashed"}

\* An error ends the call, and drops the temporary tree while it has its name.
Fail == Go(IF temp = "tree" THEN "failing" ELSE "failed")

\* The first look.
Begin ==
  /\ pc = "begin"
  /\ \/ IF State(dest) = "occupied" /\ ~force THEN Fail
        ELSE pc' = "preflight" /\ seen' = State(dest) /\ UNCHANGED <<force, names, tree, users>>
     \/ "race" \in Faulty /\ Fail

\* preflight_objects loads every object once.
Preflight ==
  /\ pc = "preflight"
  /\ Go("create") \/ ("load" \in Faulty /\ Fail)

\* TemporaryTree::create.
CreateTemporary ==
  /\ pc = "create"
  /\ \/ pc' = "build" /\ temp' = "tree" /\ UNCHANGED <<force, seen, dest, backup, tree, users>>
     \/ "disk" \in Faulty /\ Fail

\* build_tree: the directories with private modes, files, symbolic links.
Create ==
  /\ pc = "build"
  /\ \/ \E e \in Entry \ built :
          /\ Parent[e] \in built \cup {Top}
          /\ e \notin Directories => Directories \subseteq built
          /\ e \in Links => Files \subseteq built
          /\ built' = built \cup {e}
          /\ UNCHANGED <<pc, force, seen, names, finished, users>>
     \/ Faulty \cap {"load", "disk"} # {} /\ Fail

\* Then the directories' own modes, from the deepest up.
FinishDirectory ==
  /\ pc = "build" /\ built = Entry
  /\ \/ \E d \in Directories \ finished :
          /\ \A e \in Directories \ finished : Parent[e] # d
          /\ finished' = finished \cup {d}
          /\ UNCHANGED <<pc, force, seen, names, built, users>>
     \/ "disk" \in Faulty /\ Fail

SyncTree ==
  /\ pc = "build" /\ built = Entry /\ finished = Directories
  /\ Go(IF force THEN "choose" ELSE "look") \/ ("disk" \in Faulty /\ Fail)

\* Mutant: the destination is looked at only once.
LookAgain_Once == pc = "look" /\ Go("choose")

\* Without force, the second look.
LookAgain ==
  /\ pc = "look"
  /\ \/ IF State(dest) = "occupied" \/ (seen = "absent" /\ State(dest) # "absent") THEN Fail
        ELSE Go("choose")
     \/ "race" \in Faulty /\ Fail

\* The third look decides how to install.  It refuses nothing: what it finds is
\* moved away, with force or without.
Choose ==
  /\ pc = "choose"
  /\ Go(IF dest = "absent" THEN "place" ELSE "backup") \/ ("race" \in Faulty /\ Fail)

\* A directory can be renamed to a name that is free or an empty directory's.
TakesDirectory == dest \in {"absent", "empty"}

Place ==
  /\ pc = "place"
  /\ \/ /\ TakesDirectory
        /\ dest' = "tree" /\ temp' = "absent" /\ pc' = "sync"
        /\ UNCHANGED <<force, seen, backup, tree, users>>
     \/ (~TakesDirectory \/ "disk" \in Faulty) /\ Fail

\* install_over_existing: the destination to the backup name,
Backup ==
  /\ pc = "backup"
  /\ \/ /\ dest # "absent"
        /\ backup' = dest /\ dest' = "absent" /\ pc' = "install"
        /\ UNCHANGED <<force, seen, temp, tree, users>>
     \/ (dest = "absent" \/ "disk" \in Faulty) /\ Fail

\* the tree to the destination,
Install ==
  /\ pc = "install"
  /\ \/ /\ TakesDirectory
        /\ dest' = "tree" /\ temp' = "absent" /\ pc' = "remove"
        /\ UNCHANGED <<force, seen, backup, tree, users>>
     \/ (~TakesDirectory \/ "disk" \in Faulty) /\ Go("rollback")

\* or the backup back, which replaces a file by a file,
Rollback ==
  LET possible == IF backup \in FileContent THEN dest \in FileContent \cup {"absent"}
                  ELSE TakesDirectory
  IN /\ pc = "rollback"
     /\ \/ /\ possible
           /\ dest' = backup /\ backup' = "absent" /\ pc' = "failing"
           /\ UNCHANGED <<force, seen, temp, tree, users>>
        \/ (~possible \/ "disk" \in Faulty) /\ Fail

\* and the removal of the backup.
RemoveBackup ==
  /\ pc = "remove"
  /\ \/ backup' = "absent" /\ pc' = "sync" /\ UNCHANGED <<force, seen, dest, temp, tree, users>>
     \/ /\ "disk" \in Faulty
        /\ backup' = "rest" /\ pc' = "failed"
        /\ UNCHANGED <<force, seen, dest, temp, tree, users>>

SyncParent ==
  /\ pc = "sync"
  /\ Go("done") \/ ("disk" \in Faulty /\ Fail)

\* TemporaryTree::drop.
Drop ==
  /\ pc = "failing"
  /\ temp' \in {"absent"} \cup (IF "disk" \in Faulty THEN {"rest"} ELSE {})
  /\ pc' = "failed"
  /\ UNCHANGED <<force, seen, dest, backup, tree, users>>

\* The process dies, in the middle of a removal perhaps.
Crash ==
  /\ "crash" \in Faulty /\ ~Ended /\ pc' = "crashed"
  /\ backup' \in {backup} \cup (IF pc = "remove" THEN {"rest"} ELSE {})
  /\ temp'   \in {temp} \cup (IF pc = "failing" THEN {"rest"} ELSE {})
  /\ UNCHANGED <<force, seen, dest, tree, users>>

-----------------------------------------------------------------------------
(* The users of the destination.                                           *)

\* Where the call refuses no longer, and has not yet ended.
Unrefused == {"choose", "place", "backup", "install", "rollback"}

Put ==
  /\ ~Ended
  /\ \E c \in Content \ made :
       /\ dest = "absent" \/ (dest = "empty" /\ c \in TreeContent)
       /\ dest' = c /\ made' = made \cup {c}
       /\ late' = IF pc \in Unrefused THEN late \cup {c} ELSE late
       /\ unseen' = IF pc \in Unrefused \ {"choose"} THEN unseen \cup {c} ELSE unseen
  /\ UNCHANGED <<pc, force, seen, temp, backup, tree>>

MakeDirectory ==
  /\ ~Ended /\ dest = "absent" /\ dest' = "empty"
  /\ UNCHANGED <<pc, force, seen, temp, backup, tree, users>>

Take ==
  /\ ~Ended /\ dest \in Content \cup {"empty"}
  /\ dest' = "absent" /\ made' = made \ {dest} /\ late' = late \ {dest}
  /\ unseen' = unseen \ {dest}
  /\ UNCHANGED <<pc, force, seen, temp, backup, tree>>

Next ==
  \/ Begin \/ Preflight \/ CreateTemporary \/ Create \/ FinishDirectory \/ SyncTree
  \/ LookAgain \/ Choose \/ Place \/ Backup \/ Install \/ Rollback \/ RemoveBackup \/ SyncParent
  \/ Drop \/ Crash \/ Put \/ MakeDirectory \/ Take

Spec == Init /\ [][Next]_vars

-----------------------------------------------------------------------------
(* Properties.                                                             *)

\* What has the destination's name is all of the snapshot or nothing of it.
InstalledIsWhole ==
  /\ dest = "tree" => built = Entry /\ finished = Directories
  /\ pc = "done" => dest = "tree" /\ temp = "absent" /\ backup = "absent"

\* What any look has found there is still there, or under the backup name,
\* unless the checkout is in place, and then only if its replacement was asked
\* for or it came after the second look.  The latter is replaced without force,
\* although the third look finds it and docs/storage-format.md:192 asks for
\* force.  What comes after the third look, nothing protects.
ContentsSurvive ==
  \A c \in made \ unseen : c \in {dest, backup} \/ (dest = "tree" /\ (force \/ c \in late))

\* However the call ends: by an error, a failed rollback or a crash.
CheckoutAllOrNothing == InstalledIsWhole /\ ContentsSurvive
=============================================================================
