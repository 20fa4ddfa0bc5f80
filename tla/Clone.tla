-------------------------------- MODULE Clone --------------------------------
(***************************************************************************)
(* clone_workspace (crates/rewind-platform/filesystem.rs): the copy of a   *)
(* user's workspace that a run gets of its own, made while the user's      *)
(* tools may go on changing the workspace.                                 *)
(*                                                                         *)
(* As in Workspace, contents and stamps are kept as which entries were     *)
(* changed since they were looked at.  A file is cloned by its file system *)
(* or copied; either way it is open for a while and compared afterwards.   *)
(* Directories are listed as they are walked, not before.                  *)
(***************************************************************************)
EXTENDS Naturals, Sequences

CONSTANTS File, Dir, Link, Root,
          Parent,  \* entry -> its directory
          Git,     \* a .git at the root that is a file: the workspace is a linked worktree
          Faulty   \* "io" if calls may fail, "crash" if the process may die

Entry == File \cup Dir \cup Link

CloneAssumption ==
  /\ Root \notin Entry /\ File \cap Dir = {} /\ Link \cap (File \cup Dir) = {}
  /\ Parent \in [Entry -> Dir \cup {Root}]
  /\ Git \in File => Parent[Git] = Root
  /\ Faulty \subseteq {"io", "crash"}

VARIABLES source,      \* entries of the workspace
          progress,    \* where the call is
          open,        \* the directories it is in
          yielded,     \* entries that the streams of these returned
          reading,     \* the file being cloned, or Root: none
          torn,        \* whether that was written since it was opened
          copied,      \* entries in the destination
          whole,       \* directories of it that are complete
          changed,     \* entries and directories changed since they were looked at
          destination  \* what has that name: "absent", "clone", "other", or what a
                       \* removal that failed has left: "rest"

walkVars == <<open, yielded, reading, torn, copied, whole>>
vars == <<source, progress, walkVars, changed, destination>>

Children(d) == {e \in Entry : Parent[e] = d}

TypeOK ==
  /\ source \subseteq Entry
  /\ progress \in {"begin", "git", "create", "walk", "failing", "done", "failed", "crashed"}
  /\ open \in Seq(Dir \cup {Root}) /\ yielded \subseteq Entry
  /\ reading \in File \cup {Root} /\ torn \in BOOLEAN
  /\ copied \subseteq Entry /\ whole \subseteq Dir \cup {Root}
  /\ changed \subseteq Entry \cup {Root}
  /\ destination \in {"absent", "clone", "other", "rest"}

Init ==
  /\ source \in {S \in SUBSET Entry : \A e \in S : Parent[e] \in S \cup {Root}}
  /\ progress = "begin" /\ open = <<>> /\ yielded = {} /\ reading = Root /\ torn = FALSE
  /\ copied = {} /\ whole = {} /\ changed = {}
  /\ destination \in {"absent", "other"}

Over == progress \in {"done", "failed", "crashed"}

-----------------------------------------------------------------------------
(* The users of the workspace, and of the destination's name.              *)

Change(S) ==
  /\ ~Over
  /\ changed' = changed \cup S
  /\ torn' = (torn \/ reading \in S \cap File)
  /\ UNCHANGED <<progress, open, yielded, reading, copied, whole, destination>>

Write == \E f \in File \cap source : Change({f}) /\ UNCHANGED source

Make ==
  \E e \in Entry \ source :
    /\ Parent[e] \in source \cup {Root}
    /\ source' = source \cup {e} /\ Change({e, Parent[e]})

Remove ==
  \E e \in source :
    /\ Children(e) \cap source = {}
    /\ source' = source \ {e} /\ Change({e, Parent[e]})

Occupy ==
  /\ ~Over /\ destination = "absent" /\ destination' = "other"
  /\ UNCHANGED <<source, progress, walkVars, changed>>

-----------------------------------------------------------------------------
(* The call.                                                               *)

Goto(step) == progress' = step /\ UNCHANGED <<source, walkVars, changed, destination>>

\* A destination that exists is refused; the root is opened and its stamp taken.
Begin ==
  /\ progress = "begin"
  /\ progress' = IF destination = "absent" THEN "git" ELSE "failed"
  /\ changed' = {}
  /\ UNCHANGED <<source, walkVars, destination>>

\* A linked worktree is refused.
CheckGit == progress = "git" /\ Goto(IF Git \in source THEN "failed" ELSE "create")

\* create_dir; from here on an error removes whatever has the name.
CreateDestination ==
  /\ progress = "create"
  /\ IF destination = "absent"
     THEN /\ progress' = "walk" /\ open' = <<Root>> /\ destination' = "clone"
          /\ UNCHANGED <<source, yielded, reading, torn, copied, whole, changed>>
     ELSE Goto("failing")

Listing == progress = "walk" /\ reading = Root
Top == open[Len(open)]

\* Mutant: names are compared only when the entry is opened.
Look_AtNothing(e, next) == next /\ UNCHANGED <<source, progress, changed, destination>>

\* An entry or directory is compared with the stamp it was opened with.
Look(e, next) ==
  IF e \in changed \/ e \notin source \cup {Root} THEN Goto("failing")
  ELSE next /\ UNCHANGED <<source, progress, changed, destination>>

\* clone_entry takes the stamp of an entry that the stream returned and opens it.
Entered(e) ==
  /\ Listing /\ e \in (Children(Top) \cap source) \ yielded
  /\ yielded' = yielded \cup {e}
  /\ changed' = changed \ {e}
  /\ UNCHANGED <<source, progress, whole, destination>>

CloneDirectory ==
  \E d \in Dir :
    /\ Entered(d)
    /\ open' = Append(open, d) /\ copied' = copied \cup {d}
    /\ UNCHANGED <<reading, torn>>

OpenFile ==
  \E f \in File :
    /\ Entered(f)
    /\ reading' = f /\ torn' = FALSE
    /\ UNCHANGED <<open, copied>>

CloneLink ==
  \E l \in Link :
    /\ Entered(l)
    /\ copied' = copied \cup {l}
    /\ UNCHANGED <<open, reading, torn>>

\* The bytes are there: verify_open_entry and verify_named_entry.
FinishFile ==
  /\ progress = "walk" /\ reading # Root
  /\ Look(reading, /\ copied' = copied \cup {reading} /\ reading' = Root /\ torn' = FALSE
                   /\ UNCHANGED <<open, yielded, whole>>)

\* The stream has returned every entry that was there all along; it may miss
\* one that was made since.
Exhausted == Children(Top) \cap source \subseteq yielded \/ Top \in changed

LeaveDirectory ==
  /\ Listing /\ Top # Root /\ Exhausted
  /\ Look(Top, /\ open' = SubSeq(open, 1, Len(open) - 1) /\ whole' = whole \cup {Top}
               /\ UNCHANGED <<yielded, reading, torn, copied>>)

\* The root is complete: a .git that has become a file is refused, the root is
\* compared and its permissions are set.
Finish ==
  /\ Listing /\ Top = Root /\ Exhausted
  /\ IF Git \in copied \/ Root \in changed THEN Goto("failing")
     ELSE /\ progress' = "done" /\ whole' = whole \cup {Root} /\ open' = <<>>
          /\ UNCHANGED <<source, yielded, reading, torn, copied, changed, destination>>

\* A call fails, or an entry changed between its stamp and its opening.
Fails ==
  /\ "io" \in Faulty
  /\ \/ progress \in {"begin", "git"} /\ Goto("failed")
     \/ progress \in {"create", "walk"} /\ Goto("failing")

\* Mutant: an error is returned as it is.
CleanUp_Skipped == progress = "failing" /\ Goto("failed")

\* remove_dir_all of the destination, whose error is dropped: it may leave
\* anything of it, and does not remove what is no directory.
CleanUp ==
  /\ progress = "failing" /\ progress' = "failed"
  /\ \/ destination' = "absent"
     \/ destination = "other" /\ UNCHANGED destination
     \/ "io" \in Faulty /\ destination # "absent" /\ destination' = "rest"
  /\ UNCHANGED <<source, walkVars, changed>>

Crash == "crash" \in Faulty /\ ~Over /\ Goto("crashed")

Next ==
  \/ Write \/ Make \/ Remove \/ Occupy
  \/ Begin \/ CheckGit \/ CreateDestination \/ CloneDirectory \/ OpenFile \/ CloneLink
  \/ FinishFile \/ LeaveDirectory \/ Finish \/ Fails \/ CleanUp \/ Crash

Spec == Init /\ [][Next]_vars

-----------------------------------------------------------------------------
(* Properties.                                                             *)

\* However the workspace is changed meanwhile, a file of the clone was not
\* written while it was cloned, and a directory of it has the very entries that
\* were there when it was left; a clone that is reported is complete and no
\* linked worktree.  One that failed was removed as far as the removal went,
\* which is dropped if it fails; after a crash the clone is there as it was.
ClonedAsItWas ==
  [][/\ \A f \in (copied' \ copied) \cap File : f = reading /\ ~torn
     /\ \A d \in whole' \ whole : copied' \cap Children(d) = source \cap Children(d)
     /\ progress' = "done" =>
          destination' = "clone" /\ {Root} \cup (copied' \cap Dir) \subseteq whole' /\ Git \notin copied'
     /\ progress' = "failed" => destination' # "clone"]_vars
=============================================================================
