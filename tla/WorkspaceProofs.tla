--------------------------- MODULE WorkspaceProofs ---------------------------
(***************************************************************************)
(* Scans and dirty tracking of a workspace of any size and shape, under    *)
(* any interleaving of writers with the recorder: no snapshot mixes two    *)
(* states of a file or of a directory, and no entry that differs from the  *)
(* last checkpoint is forgotten, except in the gap that `slipped` records. *)
(***************************************************************************)
EXTENDS Workspace, FiniteSetTheorems, SequenceTheorems, TLAPS

\* What the walk has come across: listed, being read, saved or excluded.
Met == walk.todo \cup walk.got \cup walk.excluded \cup {walk.file}

\* The directories that it is in.
Entered == {walk.stack[i] : i \in DOMAIN walk.stack}

\* A directory on the stack that was not changed since it was listed has just
\* the entries that the walk has come across in it.
WalkMatches ==
  /\ walk.mixed => walk.file \in stale \cap File
  /\ walk.todo \cap (walk.got \cup {walk.file}) = {}
  /\ \A e \in Met \cap Entry : Parent[e] \in walk.got \cup {Root}
  /\ \A d \in Entered :
       /\ d \in walk.got \cup {Root}
       /\ d \notin stale => Listed(d) = Met \cap Children(d)

ScanInv == scan = "walk" => WalkMatches

\* With nothing pending, the tracker's last look agrees with the checkpoint
\* about every entry, and has seen every later change, but for what slipped.
LookAgrees ==
  /\ \A e \in Entry \ Ignored : (e \in known) # (e \in saved) => e \in slipped
  /\ Unsaved \subseteq Changed \cup slipped

TrackerInv == ~disabled /\ scan # "reread" /\ pending = {} => LookAgrees

-----------------------------------------------------------------------------
(* Lemmas about the parts that several actions share.                      *)

LEMMA RootApart == Root \notin Entry /\ Dir \subseteq Entry /\ File \subseteq Entry /\ File \cap Dir = {}
BY WorkspaceAssumption DEF Entry

LEMMA ListedType == \A d : Listed(d) \subseteq Children(d) /\ Children(d) \subseteq Entry
BY DEF Listed, Children

\* A walk that begins, and none at all, are walks.
LEMMA WalkFromType ==
  ASSUME NEW dirs \in Seq(Dir \cup {Root}), NEW listed \in SUBSET Entry
  PROVE  WalkFrom(dirs, listed) \in Walks
BY DEF WalkFrom, Walks

LEMMA NoWalkType == NoWalk \in Walks
<1>1. <<>> \in Seq(Dir \cup {Root}) /\ {} \in SUBSET Entry
  OBVIOUS
<1> QED BY <1>1, WalkFromType DEF NoWalk

\* A scan that begins has listed its root.
LEMMA BeginScanMatches ==
  ASSUME BeginScan, UNCHANGED present
  PROVE  walk' \in Walks /\ stale' = {} /\ scan' = "walk" /\ WalkMatches'
<1>1. walk' \in Walks
  <2>1. <<Root>> \in Seq(Dir \cup {Root}) /\ Listed(Root) \in SUBSET Entry
    BY ListedType
  <2> QED BY <2>1, WalkFromType DEF BeginScan
<1>2. /\ walk'.stack = <<Root>> /\ walk'.todo = Listed(Root) /\ walk'.file = Root
      /\ walk'.mixed = FALSE /\ walk'.got = {} /\ walk'.excluded = {}
  BY DEF BeginScan, WalkFrom
<1>3. Listed(Root)' = Listed(Root)
  BY DEF Listed, Children
<1>4. Entered' = {Root}
  BY <1>2 DEF Entered
<1>5. WalkMatches'
  BY <1>2, <1>3, <1>4, ListedType, RootApart DEF WalkMatches, Met, Listed, Children
<1> QED BY <1>1, <1>5 DEF BeginScan

\* Users change the workspace: Write, Make and Remove all make a change of the
\* entries and directories in S.
LEMMA ChangeStep ==
  ASSUME TypeOK, NEW S \in SUBSET (Entry \cup {Root}), Change(S),
         present' \in SUBSET Entry,
         \A e \in Entry : (e \in present) # (e \in present') => e \in S /\ Parent[e] \in S
  PROVE  /\ TypeOK'
         /\ ScanInv => ScanInv'
         /\ \A e \in Entry : e \in S /\ e \in present' =>
              e \in Changed' \/ (e \notin known /\ e \notin present')
<1>1. TypeOK'
  <2>1. walk' \in Walks
    BY DEF Change, TypeOK, Walks
  <2> QED BY <2>1 DEF Change, TypeOK
<1>2. ASSUME ScanInv PROVE ScanInv'
  <2> SUFFICES ASSUME scan' = "walk" PROVE WalkMatches'
    BY DEF ScanInv
  <2>1. WalkMatches /\ stale' = stale \cup S
    BY <1>2 DEF Change, ScanInv
  <2>2. /\ walk'.stack = walk.stack /\ walk'.todo = walk.todo /\ walk'.file = walk.file
        /\ walk'.got = walk.got /\ walk'.excluded = walk.excluded
        /\ walk'.mixed = (walk.mixed \/ walk.file \in S \cap File)
    BY DEF Change, TypeOK, Walks
  <2>3. Met' = Met /\ Entered' = Entered
    BY <2>2 DEF Met, Entered
  <2>4. ASSUME NEW d, d \notin S PROVE Listed(d)' = Listed(d)
    BY <2>4 DEF Listed, Children, TypeOK
  <2> QED BY <2>1, <2>2, <2>3, <2>4 DEF WalkMatches, Children
<1>3. \A e \in S : e \in present' => e \in Changed'
  BY DEF Change, Changed, TypeOK, Entry
<1> QED BY <1>1, <1>2, <1>3

\* What a change does to the tracker: an entry that was as it was known is
\* now seen to differ, or is one that the tracker and the checkpoint lack.
LEMMA ChangeNoticed ==
  ASSUME TypeOK, TrackerInv, NEW S \in SUBSET (Entry \cup {Root}), Change(S),
         present' \in SUBSET Entry,
         \A e \in Entry : (e \in present) # (e \in present') => e \in S
  PROVE  TrackerInv'
<1> SUFFICES ASSUME ~disabled, scan # "reread", pending = {}, LookAgrees
             PROVE  LookAgrees'
  BY DEF TrackerInv, Change
<1>1. \A e \in Entry \ Ignored : (e \in known') # (e \in saved') => e \in slipped'
  BY DEF LookAgrees, Change
<1>2. ASSUME NEW e \in Entry, e \in Unsaved' PROVE e \in Changed' \cup slipped'
  <2>1. CASE e \in fresh' /\ e \in present'
    <3>1. CASE e \in S
      BY <2>1, <3>1 DEF Change, Changed, TypeOK
    <3>2. CASE e \notin S
      BY <2>1, <3>2 DEF Change, Changed, Unsaved, LookAgrees, TypeOK
    <3> QED BY <3>1, <3>2
  <2>2. CASE e \notin Ignored /\ (e \in saved') # (e \in present')
    <3>1. CASE (e \in known) # (e \in saved)
      BY <1>1, <2>2, <3>1 DEF Change
    <3>2. CASE (e \in known) <=> (e \in saved)
      BY <2>2, <3>2 DEF Change, Changed
    <3> QED BY <3>1, <3>2
  <2> QED BY <1>2, <2>1, <2>2 DEF Unsaved
<1> QED BY <1>1, <1>2 DEF LookAgrees, Unsaved, Change, TypeOK

-----------------------------------------------------------------------------
(* The actions.                                                            *)

IInv == TypeOK /\ ScanInv /\ TrackerInv

\* Users change the workspace.
LEMMA UsersPreserve ==
  ASSUME IInv, Write \/ Make \/ Remove
  PROVE  IInv'
<1> USE DEF IInv
<1>1. CASE Write
  <2>1. PICK f \in File \cap present : Change({f}) /\ UNCHANGED present
    BY <1>1 DEF Write
  <2> QED BY <2>1, ChangeStep, ChangeNoticed, RootApart DEF TypeOK
<1>2. CASE Make
  <2>1. PICK e \in Entry \ present : present' = present \cup {e} /\ Change({e, Parent[e]})
    BY <1>2 DEF Make
  <2>2. {e, Parent[e]} \in SUBSET (Entry \cup {Root})
    BY RootApart, WorkspaceAssumption
  <2> QED BY <2>1, <2>2, ChangeStep, ChangeNoticed DEF TypeOK
<1>3. CASE Remove
  <2>1. PICK e \in present : present' = present \ {e} /\ Change({e, Parent[e]})
    BY <1>3 DEF Remove
  <2>2. e \in Entry /\ {e, Parent[e]} \in SUBSET (Entry \cup {Root})
    BY <2>1, RootApart, WorkspaceAssumption DEF TypeOK
  <2> QED BY <2>1, <2>2, ChangeStep, ChangeNoticed DEF TypeOK
<1> QED BY <1>1, <1>2, <1>3

\* The clock, the end of the capture, and a scan that is given up leave what
\* the tracker and the checkpoint know alone.
LEMMA QuietStepsPreserve ==
  ASSUME IInv, Settle \/ Age \/ Exit \/ PollFails \/ UNCHANGED vars
  PROVE  IInv'
<1> USE DEF IInv, ScanInv, TrackerInv
<1>1. TypeOK'
  BY DEF Settle, Age, Exit, PollFails, vars, trackerVars, savedVars, TypeOK
<1>2. UNCHANGED <<present, known, touched, pending, slipped, scan, walk, stale, savedVars>>
  BY DEF Settle, Age, Exit, PollFails, vars, trackerVars, savedVars
<1>3. UNCHANGED <<Met, Entered, Changed, Unsaved>> /\ \A d : UNCHANGED Listed(d)
  BY <1>2 DEF Met, Entered, Changed, Unsaved, Listed, savedVars
<1>4. disabled => disabled'
  BY DEF Settle, Age, Exit, PollFails, vars, trackerVars, TypeOK
<1>5. ScanInv'
  BY <1>2, <1>3 DEF WalkMatches
<1>6. TrackerInv'
  BY <1>2, <1>3, <1>4 DEF LookAgrees, savedVars
<1> QED BY <1>1, <1>5, <1>6

\* A scan that is given up leaves the tracker and the checkpoint as they were.
LEMMA AbandonPreserves ==
  ASSUME IInv, scan = "walk", UNCHANGED <<present, trackerVars, savedVars>>, scan' = "idle",
         walk' = NoWalk, stale' = {}, over' \in BOOLEAN
  PROVE  IInv'
<1>1. TypeOK'
  BY NoWalkType DEF IInv, TypeOK, trackerVars, savedVars
<1>2. TrackerInv'
  BY DEF IInv, TrackerInv, LookAgrees, Changed, Unsaved, trackerVars, savedVars
<1> QED BY <1>1, <1>2 DEF IInv, ScanInv

\* A look at the workspace: what has changed is pending afterwards, or pending
\* is full; in both cases something is, unless nothing has changed.
LEMMA PollPreserves ==
  ASSUME IInv, Poll
  PROVE  IInv'
<1> USE DEF IInv
<1>1. PICK paths \in SUBSET (Changed \ pending) :
         /\ Cardinality(pending \cup paths) <= MaxPending
         /\ paths = Changed \ pending \/ Cardinality(pending \cup paths) = MaxPending
         /\ pending' = pending \cup paths
  BY DEF Poll
<1>2. Changed \subseteq Entry
  BY DEF Changed, TypeOK
<1>3. Changed # {} => pending' # {}
  <2> SUFFICES ASSUME Changed # {}, pending' = {} PROVE FALSE
    OBVIOUS
  <2>1. Cardinality({}) = MaxPending
    BY <1>1
  <2> QED BY <2>1, FS_EmptySet, WorkspaceAssumption
<1>4. /\ pending' \in SUBSET Entry /\ Cardinality(pending') <= MaxPending
      /\ settled' \in BOOLEAN /\ slipped' \in SUBSET Entry
  BY <1>1, <1>2 DEF Poll, TypeOK
<1>5. walk' \in Walks /\ stale' \in SUBSET (Entry \cup {Root}) /\ scan' \in {"idle", "walk"} /\ ScanInv'
  <2>1. CASE BeginScan
    BY <2>1, BeginScanMatches DEF Poll, ScanInv
  <2>2. CASE UNCHANGED <<scan, walk, stale>>
    BY <2>2 DEF Poll, ScanInv, TypeOK
  <2> QED BY <2>1, <2>2 DEF Poll
<1>6. TypeOK'
  BY <1>4, <1>5 DEF Poll, TypeOK, savedVars
<1>7. TrackerInv'
  <2> SUFFICES ASSUME pending' = {} PROVE LookAgrees'
    BY DEF TrackerInv
  <2>1. Changed = {} /\ pending = {} /\ ~disabled /\ scan # "reread" /\ slipped' = slipped
    BY <1>1, <1>3 DEF Poll
  <2>2. LookAgrees
    BY <2>1 DEF TrackerInv
  <2>3. known = present /\ touched \cap present = {}
    BY <2>1 DEF Changed, TypeOK
  <2>4. Unsaved' = Unsaved /\ Unsaved \subseteq slipped
    BY <2>1, <2>2 DEF Poll, Unsaved, LookAgrees, savedVars
  <2> QED BY <2>1, <2>2, <2>3, <2>4 DEF LookAgrees, Poll, savedVars
<1> QED BY <1>5, <1>6, <1>7

\* A manual checkpoint begins its scan.
LEMMA MarkPreserves ==
  ASSUME IInv, Mark
  PROVE  IInv'
<1> USE DEF IInv
<1>1. walk' \in Walks /\ stale' = {} /\ scan' = "walk" /\ WalkMatches'
  BY BeginScanMatches DEF Mark
<1>2. TypeOK'
  BY <1>1 DEF Mark, TypeOK, trackerVars, savedVars
<1>3. TrackerInv'
  BY DEF Mark, TrackerInv, LookAgrees, Changed, Unsaved, trackerVars, savedVars
<1> QED BY <1>1, <1>2, <1>3 DEF ScanInv

\* A step of the walk that stays in it leaves the tracker alone.
LEMMA WalkStepPreserves ==
  ASSUME IInv, scan = "walk", UNCHANGED <<present, trackerVars, scan, savedVars, over>>,
         walk' \in Walks, stale' \in SUBSET stale, WalkMatches'
  PROVE  IInv'
<1>1. TypeOK'
  BY DEF IInv, TypeOK, trackerVars, savedVars
<1>2. TrackerInv'
  BY DEF IInv, TrackerInv, LookAgrees, Changed, Unsaved, trackerVars, savedVars
<1> QED BY <1>1, <1>2 DEF IInv, ScanInv

\* The walk enters a directory that it has not met before.
LEMMA EnterDirectoryPreserves ==
  ASSUME IInv, EnterDirectory
  PROVE  IInv'
<1> USE DEF IInv
<1>1. PICK d \in walk.todo \cap Children(Top) \cap Dir :
         /\ Look(d, [walk EXCEPT !.stack = Append(@, d), !.todo = (@ \ {d}) \cup Listed(d),
                                 !.got = @ \cup {d}])
         /\ stale' = IF scan' = "idle" THEN {} ELSE stale \ Children(d)
  BY DEF EnterDirectory
<1>2. scan = "walk" /\ walk.file = Root /\ WalkMatches /\ walk \in Walks /\ d \in Entry
  BY RootApart DEF EnterDirectory, InDirectory, ScanInv, TypeOK
<1>3. CASE d \in stale \/ d \notin present \cup {Root}
  <2>1. AbandonScan
    BY <1>1, <1>3 DEF Look
  <2> QED BY <1>2, <2>1, AbandonPreserves DEF AbandonScan, TypeOK
<1>4. CASE ~(d \in stale \/ d \notin present \cup {Root})
  <2>1. /\ walk' = [walk EXCEPT !.stack = Append(@, d), !.todo = (@ \ {d}) \cup Listed(d),
                                !.got = @ \cup {d}]
        /\ UNCHANGED <<present, trackerVars, scan, savedVars, over>>
        /\ stale' = stale \ Children(d)
    BY <1>1, <1>2, <1>4 DEF Look
  <2>2. /\ walk.stack \in Seq(Dir \cup {Root}) /\ walk.todo \in SUBSET Entry
        /\ walk.got \in SUBSET Entry
    BY <1>2 DEF Walks
  <2>3. /\ walk'.stack = Append(walk.stack, d) /\ walk'.todo = (walk.todo \ {d}) \cup Listed(d)
        /\ walk'.got = walk.got \cup {d} /\ walk'.file = Root
        /\ walk'.excluded = walk.excluded /\ walk'.mixed = walk.mixed
    BY <1>2, <2>1 DEF Walks
  <2>4. walk' \in Walks
    <3>1. Append(walk.stack, d) \in Seq(Dir \cup {Root})
      BY <2>2
    <3> QED BY <1>2, <2>1, <3>1, ListedType DEF Walks
  <2>5. Entered' = Entered \cup {d}
    <3>1. /\ DOMAIN walk'.stack = DOMAIN walk.stack \cup {Len(walk.stack) + 1}
          /\ \A i \in DOMAIN walk.stack : walk'.stack[i] = walk.stack[i]
          /\ walk'.stack[Len(walk.stack) + 1] = d
      BY <2>2, <2>3
    <3> QED BY <3>1 DEF Entered
  <2>6. Met' = Met \cup Listed(d) /\ d \in Met
    BY <1>1, <2>3, <1>2 DEF Met
  <2>7. d \notin walk.got \cup {Root} /\ Met \cap Children(d) = {}
    BY <1>1, <1>2, RootApart DEF WalkMatches, Children
  <2>8. \A x : UNCHANGED Listed(x)
    BY <2>1 DEF Listed, Children
  <2>9. ~walk.mixed
    BY <1>2, RootApart DEF WalkMatches
  <2>10. WalkMatches'
    <3>1. walk'.todo \cap (walk'.got \cup {walk'.file}) = {}
      BY <1>2, <2>3, <2>7, ListedType, RootApart DEF WalkMatches, Met
    <3>2. \A e \in Met' \cap Entry : Parent[e] \in walk'.got \cup {Root}
      BY <1>2, <2>3, <2>6 DEF WalkMatches, Listed, Children
    <3>3. ASSUME NEW x \in Entered' PROVE x \in walk'.got \cup {Root}
      BY <1>2, <2>3, <2>5 DEF WalkMatches
    <3>4. ASSUME NEW x \in Entered', x \notin stale' PROVE Listed(x) = Met' \cap Children(x)
      <4>1. CASE x = d
        BY <2>6, <2>7, <4>1, ListedType
      <4>2. CASE x # d
        <5>1. x \in Entered /\ x \in walk.got \cup {Root}
          BY <1>2, <2>5, <4>2 DEF WalkMatches
        <5>2. x \notin Children(d)
          BY <1>2, <2>7, <5>1, RootApart DEF Met, Children
        <5>3. Children(x) \cap Listed(d) = {}
          BY <4>2 DEF Listed, Children
        <5> QED BY <1>2, <2>1, <2>6, <3>4, <5>1, <5>2, <5>3 DEF WalkMatches
      <4> QED BY <4>1, <4>2
    <3> QED BY <2>3, <2>8, <2>9, <3>1, <3>2, <3>3, <3>4 DEF WalkMatches, Children
  <2> QED BY <1>2, <2>1, <2>4, <2>10, WalkStepPreserves
<1> QED BY <1>3, <1>4

\* A look that finds a change gives the scan up, one that does not goes on.
LEMMA LookPreserves ==
  ASSUME IInv, scan = "walk", NEW e, NEW next \in Walks, Look(e, next),
         scan' = "walk" => UNCHANGED stale,
         walk' = next /\ UNCHANGED <<present, stale>> => WalkMatches'
  PROVE  IInv'
<1>1. CASE e \in stale \/ e \notin present \cup {Root}
  <2>1. AbandonScan
    BY <1>1 DEF Look
  <2> QED BY <2>1, AbandonPreserves DEF AbandonScan, IInv, TypeOK
<1>2. CASE ~(e \in stale \/ e \notin present \cup {Root})
  BY <1>2, WalkStepPreserves DEF Look
<1> QED BY <1>1, <1>2

\* A file that was listed is read.
LEMMA OpenFilePreserves ==
  ASSUME IInv, OpenFile
  PROVE  IInv'
<1>1. PICK f \in walk.todo \cap Children(Top) \cap File :
         Look(f, [walk EXCEPT !.file = f, !.mixed = FALSE, !.todo = @ \ {f}])
  BY DEF OpenFile
<1> DEFINE next == [walk EXCEPT !.file = f, !.mixed = FALSE, !.todo = @ \ {f}]
<1>2. scan = "walk" /\ walk.file = Root /\ WalkMatches /\ walk \in Walks
  BY DEF OpenFile, InDirectory, IInv, ScanInv, TypeOK
<1>3. next \in Walks
  BY <1>2 DEF Walks
<1>4. ASSUME walk' = next, UNCHANGED <<present, stale>> PROVE WalkMatches'
  <2>1. /\ walk'.stack = walk.stack /\ walk'.todo = walk.todo \ {f} /\ walk'.file = f
        /\ walk'.got = walk.got /\ walk'.excluded = walk.excluded /\ ~walk'.mixed
    BY <1>2, <1>4 DEF Walks
  <2>2. Met' \cap Entry = Met \cap Entry /\ Entered' = Entered
    BY <1>1, <1>2, <2>1, RootApart DEF Met, Entered
  <2>3. \A d : Met' \cap Children(d) = Met \cap Children(d) /\ UNCHANGED Listed(d)
    BY <1>4, <2>2 DEF Listed, Children
  <2>4. f \notin walk.got
    BY <1>1, <1>2 DEF WalkMatches
  <2> QED BY <1>2, <1>4, <2>1, <2>2, <2>3, <2>4 DEF WalkMatches, Children
<1> QED BY <1>1, <1>2, <1>3, <1>4, LookPreserves DEF OpenFile

\* Its stamp is what it was when it was opened: it was not written meanwhile.
LEMMA CloseFilePreserves ==
  ASSUME IInv, CloseFile
  PROVE  IInv'
<1> DEFINE next == [walk EXCEPT !.got = @ \cup {walk.file}, !.file = Root, !.mixed = FALSE]
<1>1. Look(walk.file, next) /\ walk.file # Root /\ scan = "walk"
  BY DEF CloseFile
<1>2. WalkMatches /\ walk \in Walks /\ walk.file \in File
  BY <1>1 DEF IInv, ScanInv, TypeOK, Walks
<1>3. next \in Walks
  BY <1>2, RootApart DEF Walks
<1>4. ASSUME walk' = next, UNCHANGED <<present, stale>> PROVE WalkMatches'
  <2>1. /\ walk'.stack = walk.stack /\ walk'.todo = walk.todo /\ walk'.file = Root
        /\ walk'.got = walk.got \cup {walk.file} /\ walk'.excluded = walk.excluded /\ ~walk'.mixed
    BY <1>2, <1>4 DEF Walks
  <2>2. Met' \cap Entry = Met \cap Entry /\ Entered' = Entered
    BY <1>2, <2>1, RootApart DEF Met, Entered
  <2>3. \A d : Met' \cap Children(d) = Met \cap Children(d) /\ UNCHANGED Listed(d)
    BY <1>4, <2>2 DEF Listed, Children
  <2>4. Root \notin walk.todo
    BY <1>2, RootApart DEF Walks
  <2> QED BY <1>2, <1>4, <2>1, <2>2, <2>3, <2>4 DEF WalkMatches, Children
<1> QED BY <1>1, <1>3, <1>4, LookPreserves DEF CloseFile

\* Or it is too large.
LEMMA ExcludeFilePreserves ==
  ASSUME IInv, ExcludeFile
  PROVE  IInv'
<1>1. scan = "walk" /\ WalkMatches /\ walk \in Walks /\ walk.file \in File
  BY DEF ExcludeFile, IInv, ScanInv, TypeOK, Walks
<1>2. /\ walk'.stack = walk.stack /\ walk'.todo = walk.todo /\ walk'.file = Root
      /\ walk'.got = walk.got /\ walk'.excluded = walk.excluded \cup {walk.file} /\ ~walk'.mixed
      /\ UNCHANGED <<present, stale>>
  BY <1>1 DEF ExcludeFile, Walks
<1>3. walk' \in Walks
  BY <1>1 DEF ExcludeFile, Walks
<1>4. Met' \cap Entry = Met \cap Entry /\ Entered' = Entered
  BY <1>1, <1>2, RootApart DEF Met, Entered
<1>5. \A d : Met' \cap Children(d) = Met \cap Children(d) /\ UNCHANGED Listed(d)
  BY <1>2, <1>4 DEF Listed, Children
<1>6. WalkMatches'
  <2>1. Root \notin walk.todo
    BY <1>1, RootApart DEF Walks
  <2> QED BY <1>1, <1>2, <1>4, <1>5, <2>1 DEF WalkMatches, Children
<1> QED BY <1>1, <1>3, <1>6, WalkStepPreserves DEF ExcludeFile

\* A directory that is complete is left.
LEMMA LeaveDirectoryPreserves ==
  ASSUME IInv, LeaveDirectory
  PROVE  IInv'
<1> DEFINE next == [walk EXCEPT !.stack = SubSeq(@, 1, Len(@) - 1), !.closed = @ \cup {Top}]
<1>1. Look(Top, next) /\ scan = "walk" /\ walk.stack # <<>>
  BY DEF LeaveDirectory, InDirectory
<1>2. WalkMatches /\ walk \in Walks /\ walk.stack \in Seq(Dir \cup {Root})
  BY <1>1 DEF IInv, ScanInv, TypeOK, Walks
<1>3. Len(walk.stack) \in Nat \ {0} /\ Top \in Dir \cup {Root}
  BY <1>1, <1>2 DEF Top
<1>4. /\ SubSeq(walk.stack, 1, Len(walk.stack) - 1) \in Seq(Dir \cup {Root})
      /\ \A i \in DOMAIN SubSeq(walk.stack, 1, Len(walk.stack) - 1) :
            i \in DOMAIN walk.stack /\ SubSeq(walk.stack, 1, Len(walk.stack) - 1)[i] = walk.stack[i]
  BY <1>2, <1>3
<1>5. next \in Walks
  BY <1>2, <1>3, <1>4 DEF Walks
<1>6. ASSUME walk' = next, UNCHANGED <<present, stale>> PROVE WalkMatches'
  <2>1. /\ walk'.stack = SubSeq(walk.stack, 1, Len(walk.stack) - 1) /\ walk'.todo = walk.todo
        /\ walk'.file = walk.file /\ walk'.got = walk.got /\ walk'.excluded = walk.excluded
        /\ walk'.mixed = walk.mixed
    BY <1>2, <1>6 DEF Walks
  <2>2. Met' = Met /\ Entered' \subseteq Entered /\ \A d : UNCHANGED Listed(d)
    BY <1>4, <1>6, <2>1 DEF Met, Entered, Listed, Children
  <2> QED BY <1>2, <1>6, <2>1, <2>2 DEF WalkMatches, Children
<1> QED BY <1>1, <1>5, <1>6, LookPreserves DEF LeaveDirectory

\* The checkpoint is committed; until the tracker has looked again, its last
\* look and the checkpoint need not agree.
LEMMA CommitPreserves ==
  ASSUME IInv, Commit
  PROVE  IInv'
<1>1. walk \in Walks /\ walk.got \cup walk.excluded \in SUBSET Entry
  BY RootApart DEF IInv, TypeOK, Walks
<1>2. TypeOK'
  BY <1>1, NoWalkType DEF IInv, TypeOK, Commit
<1> QED BY <1>2 DEF IInv, ScanInv, TrackerInv, Commit

\* The look after a checkpoint: whatever it and the checkpoint saw differently
\* has slipped.
LEMMA RereadPreserves ==
  ASSUME IInv, Reread
  PROVE  IInv'
<1>1. UNCHANGED <<present, saved, fresh, walk, stale, over, disabled>> /\ scan' = "idle"
  BY DEF Reread, savedVars
<1>2. slipped' = Unsaved \cup {e \in Entry \ Ignored : (e \in known') # (e \in saved)}
  BY DEF Reread
<1>3. /\ known' \in SUBSET Entry /\ touched' \in SUBSET known' /\ deferred' \in BOOLEAN
      /\ slipped' \in SUBSET Entry
  BY <1>2 DEF Reread, IInv, TypeOK, Unsaved
<1>4. Cardinality(pending') <= MaxPending
  BY FS_EmptySet, WorkspaceAssumption DEF Reread
<1>5. TypeOK'
  BY <1>1, <1>3, <1>4 DEF Reread, IInv, TypeOK
<1>6. Unsaved' = Unsaved
  BY <1>1 DEF Unsaved
<1>7. LookAgrees'
  BY <1>1, <1>2, <1>6 DEF LookAgrees
<1> QED BY <1>1, <1>5, <1>7 DEF IInv, ScanInv, TrackerInv

\* The invariant holds when the child starts.
LEMMA InitEstablishes ==
  ASSUME Init
  PROVE  IInv
<1>1. Cardinality(pending) <= MaxPending
  BY FS_EmptySet, WorkspaceAssumption DEF Init
<1>2. deferred \in BOOLEAN
  BY DEF Init
<1>3. TypeOK
  <2>1. present \in SUBSET Entry
    BY DEF Init
  <2> QED BY <1>1, <1>2, <2>1, NoWalkType DEF Init, TypeOK
<1>4. LookAgrees
  BY DEF Init, LookAgrees, Unsaved, Changed
<1> QED BY <1>3, <1>4 DEF IInv, ScanInv, TrackerInv, Init

\* Every step preserves it.
LEMMA StepPreserves ==
  ASSUME IInv, [Next]_vars
  PROVE  IInv'
<1>1. CASE Scan
  <2>1. CASE ScanFails
    <3>1. over' \in BOOLEAN
      BY <2>1 DEF ScanFails, AbandonScan, IInv, TypeOK
    <3> QED BY <2>1, <3>1, AbandonPreserves DEF ScanFails, AbandonScan
  <2> QED BY <1>1, <2>1, EnterDirectoryPreserves, OpenFilePreserves, CloseFilePreserves,
             ExcludeFilePreserves, LeaveDirectoryPreserves, CommitPreserves, RereadPreserves
          DEF Scan
<1> QED BY <1>1, UsersPreserve, QuietStepsPreserve, PollPreserves, MarkPreserves DEF Next

LEMMA NoWalkFields == NoWalk.got = {} /\ NoWalk.excluded = {} /\ NoWalk.closed = {}
BY DEF NoWalk, WalkFrom

\* What a look adds to a snapshot, and what it completes.
LEMMA LookMoves ==
  ASSUME NEW e, NEW next, Look(e, next)
  PROVE  walk' = next \/ walk' = NoWalk
BY DEF Look, AbandonScan

\* A file joins a snapshot only when it was read without a write.
LEMMA FilesReadWhole ==
  ASSUME IInv, [Next]_vars
  PROVE  \A f \in (walk'.got \ walk.got) \cap File : f = walk.file /\ ~walk.mixed
<1>1. walk \in Walks /\ (scan = "walk" => WalkMatches)
  BY DEF IInv, TypeOK, ScanInv
<1>2. CASE CloseFile
  <2>1. CASE walk.file \in stale \/ walk.file \notin present \cup {Root}
    BY <1>2, <2>1 DEF CloseFile, Look, AbandonScan, NoWalk, WalkFrom
  <2>2. CASE ~(walk.file \in stale \/ walk.file \notin present \cup {Root})
    <3>1. walk'.got = walk.got \cup {walk.file}
      BY <1>1, <1>2, <2>2 DEF CloseFile, Look, Walks
    <3>2. ~walk.mixed
      BY <1>1, <1>2, <2>2 DEF CloseFile, WalkMatches
    <3> QED BY <3>1, <3>2
  <2> QED BY <2>1, <2>2
<1>3. CASE EnterDirectory
  <2> PICK d \in walk.todo \cap Children(Top) \cap Dir :
         Look(d, [walk EXCEPT !.stack = Append(@, d), !.todo = (@ \ {d}) \cup Listed(d),
                              !.got = @ \cup {d}])
    BY <1>3 DEF EnterDirectory
  <2> DEFINE next == [walk EXCEPT !.stack = Append(@, d), !.todo = (@ \ {d}) \cup Listed(d),
                                  !.got = @ \cup {d}]
  <2>1. walk'.got \subseteq walk.got \cup {d}
    <3>1. next.got = walk.got \cup {d}
      BY <1>1 DEF Walks
    <3> HIDE DEF next
    <3>2. walk' = next \/ walk' = NoWalk
      BY LookMoves DEF next
    <3> QED BY <3>1, <3>2, NoWalkFields
  <2> QED BY <2>1, RootApart
<1>4. CASE ~CloseFile /\ ~EnterDirectory
  <2>1. walk'.got \subseteq walk.got
    <3>1. CASE ExcludeFile
      BY <1>1, <3>1 DEF ExcludeFile, Walks
    <3>2. CASE OpenFile
      <4> PICK f \in walk.todo :
             walk' \in {[walk EXCEPT !.file = f, !.mixed = FALSE, !.todo = @ \ {f}], NoWalk}
        BY <3>2, LookMoves DEF OpenFile
      <4> QED BY <1>1, NoWalkFields DEF Walks
    <3>3. CASE LeaveDirectory
      <4>1. \/ walk' = NoWalk
            \/ walk' = [walk EXCEPT !.stack = SubSeq(@, 1, Len(@) - 1), !.closed = @ \cup {Top}]
        BY <3>3, LookMoves DEF LeaveDirectory
      <4> QED BY <1>1, <4>1, NoWalkFields DEF Walks
    <3>4. CASE Write \/ Make \/ Remove
      BY <1>1, <3>4 DEF Write, Make, Remove, Change, Walks
    <3>5. CASE Settle \/ Age \/ Exit \/ PollFails \/ Reread \/ UNCHANGED vars
      BY <3>5 DEF Settle, Age, Exit, PollFails, Reread, vars
    <3>6. CASE ScanFails \/ Commit \/ Poll \/ Mark
      BY <3>6, NoWalkFields DEF ScanFails, AbandonScan, Commit, Poll, Mark, BeginScan, WalkFrom
    <3> QED BY <1>4, <3>1, <3>2, <3>3, <3>4, <3>5, <3>6 DEF Next, Scan
  <2> QED BY <2>1
<1> QED BY <1>2, <1>3, <1>4

\* A directory is complete only with the entries that are there.
LEMMA DirectoriesReadWhole ==
  ASSUME IInv, [Next]_vars
  PROVE  \A d \in walk'.closed \ walk.closed :
           Listed(d) = (walk'.got \cup walk'.excluded) \cap Children(d)
<1>1. walk \in Walks /\ (scan = "walk" => WalkMatches)
  BY DEF IInv, TypeOK, ScanInv
<1>2. CASE LeaveDirectory
  <2>1. CASE Top \in stale \/ Top \notin present \cup {Root}
    BY <1>2, <2>1 DEF LeaveDirectory, Look, AbandonScan, NoWalk, WalkFrom
  <2>2. CASE ~(Top \in stale \/ Top \notin present \cup {Root})
    <3>1. /\ walk'.closed = walk.closed \cup {Top}
          /\ walk'.got = walk.got /\ walk'.excluded = walk.excluded
      BY <1>1, <1>2, <2>2 DEF LeaveDirectory, Look, Walks
    <3>2. Top \in Entered
      BY <1>1, <1>2 DEF LeaveDirectory, InDirectory, Top, Entered, Walks
    <3>3. Listed(Top) = Met \cap Children(Top)
      BY <1>1, <1>2, <2>2, <3>2 DEF LeaveDirectory, InDirectory, WalkMatches
    <3>4. walk.file \notin Children(Top) /\ walk.todo \cap Children(Top) = {}
      BY <1>2, RootApart DEF LeaveDirectory, InDirectory, Children
    <3> QED BY <3>1, <3>3, <3>4 DEF Met
  <2> QED BY <2>1, <2>2
<1>3. CASE ~LeaveDirectory
  <2>1. walk'.closed \subseteq walk.closed
    <3>1. CASE ExcludeFile
      BY <1>1, <3>1 DEF ExcludeFile, Walks
    <3>2. CASE OpenFile
      <4> PICK f \in walk.todo :
             walk' \in {[walk EXCEPT !.file = f, !.mixed = FALSE, !.todo = @ \ {f}], NoWalk}
        BY <3>2, LookMoves DEF OpenFile
      <4> QED BY <1>1, NoWalkFields DEF Walks
    <3>3. CASE CloseFile
      <4>1. \/ walk' = NoWalk
            \/ walk' = [walk EXCEPT !.got = @ \cup {walk.file}, !.file = Root, !.mixed = FALSE]
        BY <3>3, LookMoves DEF CloseFile
      <4> QED BY <1>1, <4>1, NoWalkFields DEF Walks
    <3>4. CASE EnterDirectory
      <4> PICK d \in Dir :
             walk' \in {[walk EXCEPT !.stack = Append(@, d), !.todo = (@ \ {d}) \cup Listed(d),
                                     !.got = @ \cup {d}], NoWalk}
        BY <3>4, LookMoves DEF EnterDirectory
      <4> QED BY <1>1, NoWalkFields DEF Walks
    <3>5. CASE Write \/ Make \/ Remove
      BY <1>1, <3>5 DEF Write, Make, Remove, Change, Walks
    <3>6. CASE Settle \/ Age \/ Exit \/ PollFails \/ Reread \/ UNCHANGED vars
      BY <3>6 DEF Settle, Age, Exit, PollFails, Reread, vars
    <3>7. CASE ScanFails \/ Commit \/ Poll \/ Mark
      BY <3>7, NoWalkFields DEF ScanFails, AbandonScan, Commit, Poll, Mark, BeginScan, WalkFrom
    <3> QED BY <1>3, <3>1, <3>2, <3>3, <3>4, <3>5, <3>6, <3>7 DEF Next, Scan
  <2> QED BY <2>1
<1> QED BY <1>2, <1>3

-----------------------------------------------------------------------------
(* The theorems.                                                           *)

\* The fields of the tracker and of a scan keep their types; the pending set
\* its bound.
THEOREM WorkspaceTyped == Spec => []TypeOK
<1>1. IInv => TypeOK
  BY DEF IInv
<1> QED BY <1>1, InitEstablishes, StepPreserves, PTL DEF Spec

\* DirtyTracker: an entry that differs from the last checkpoint differs from
\* the tracker's last look too, or something is pending that brings a
\* checkpoint, but for what changed between a checkpoint and its reread.
THEOREM UnsavedEntriesNoticed == Spec => []UnsavedIsNoticed
<1>1. IInv => UnsavedIsNoticed
  BY DEF IInv, TrackerInv, LookAgrees, UnsavedIsNoticed
<1> QED BY <1>1, InitEstablishes, StepPreserves, PTL DEF Spec

\* DirectoryScanner: a file of a snapshot was not written while it was read,
\* and a directory of it has the very entries that were there when the scan
\* was done with it.
THEOREM SnapshotsAreNotMixed == Spec => ScannedAsItWas
<1>1. IInv /\ [Next]_vars =>
        [/\ \A f \in (walk'.got \ walk.got) \cap File : f = walk.file /\ ~walk.mixed
         /\ \A d \in walk'.closed \ walk.closed :
              Listed(d) = (walk'.got \cup walk'.excluded) \cap Children(d)]_vars
  BY FilesReadWhole, DirectoriesReadWhole
<1> QED BY <1>1, InitEstablishes, StepPreserves, PTL DEF Spec, ScannedAsItWas
=============================================================================
