-------------------------------- MODULE Parts --------------------------------
(***************************************************************************)
(* Seven components that share no state with one another, side by side:    *)
(* the dirty tracker and scan of a workspace, the clone of one, the        *)
(* checkout of a snapshot, the replay interface, the cursors of garbage    *)
(* collection, the comparison of runs, and the export of one.  A behaviour *)
(* is a behaviour of one of them, chosen at its start; the variables of    *)
(* the others keep one value.                                              *)
(***************************************************************************)
EXTENDS Workspace

CONSTANTS None,  \* no page, process, checkpoint or snapshot
          CloneFile, CloneDir, CloneSymlink, CloneRoot, CloneParent, CloneGit, CloneFaulty,
          TreeDir, TreeFile, TreeLink, TreeTop, TreeParent, TreeContent, FileContent, CheckoutFaulty,
          ReplayedRun, Process, Size, TimelinePage, TickSteps, Differing, MaxChanges, Capacity,
          MaxId, ObjectPage,
          MaxPath, Entries, MaxRun,
          ExportedRun, Holds, ExportPage

VARIABLES part,
          source, progress, open, yielded, reading, torn, copied, whole, changed, destination,
          pc, force, seen, dest, temp, backup, built, finished, made, late, unseen,
          stored, checkpoints, view, playing, target, pane, cache, terminal,
          rows, references, files, delete, page, cursor, cited, after, unreachable, artifacts,
          left, right, leftRest, rightRest, changes, pair, parent, concluded, relation,
          appended, format, redact, step, resolved, listed, batch, taken, lines, objects,
          written, temporary, output,
          stage \* of the collection, or of the comparison

cloneVars    == <<source, progress, open, yielded, reading, torn, copied, whole, changed, destination>>
materialVars == <<pc, force, seen, dest, temp, backup, built, finished, made, late, unseen>>
replayVars   == <<stored, checkpoints, view, playing, target, pane, cache, terminal>>
cursorVars   == <<rows, references, files, delete, page, cursor, cited, after, unreachable, artifacts>>
compareVars  == <<left, right, leftRest, rightRest, changes, pair, parent, concluded, relation>>
exportVars   == <<appended, format, redact, step, resolved, listed, batch, taken, lines, objects,
                  written, temporary, output>>
partsVars    == <<part, vars, cloneVars, materialVars, replayVars, cursorVars, compareVars,
                  exportVars, stage>>

-----------------------------------------------------------------------------
(* The components, each with constants and variables of its own.           *)

Cloning == INSTANCE Clone
  WITH File <- CloneFile, Dir <- CloneDir, Link <- CloneSymlink, Root <- CloneRoot,
       Parent <- CloneParent, Git <- CloneGit, Faulty <- CloneFaulty

Checkout == INSTANCE Materialize
  WITH Directories <- TreeDir, Files <- TreeFile, Links <- TreeLink, Top <- TreeTop,
       Parent <- TreeParent, Faulty <- CheckoutFaulty

Interface  == INSTANCE Replay WITH Recorded <- ReplayedRun, PageSize <- TimelinePage
Collection == INSTANCE GcCursor WITH PageSize <- ObjectPage
Comparing  == INSTANCE Comparison

Exporting == INSTANCE Export
  WITH Recorded <- ExportedRun, PageSize <- ExportPage,
       stored <- appended, known <- resolved, page <- batch, cursor <- taken

ASSUME PartsAssumption ==
  /\ Cloning!CloneAssumption /\ Checkout!MaterializeAssumption /\ Interface!ReplayAssumption
  /\ Collection!GcAssumption /\ Comparing!ComparisonAssumption /\ Exporting!ExportAssumption

-----------------------------------------------------------------------------
\* A workspace whose capture is over.
NoWorkspace ==
  /\ present = {} /\ known = {} /\ touched = {} /\ pending = {} /\ settled = FALSE
  /\ since = "recent" /\ disabled = FALSE /\ deferred = FALSE /\ slipped = {}
  /\ scan = "idle" /\ walk = NoWalk /\ stale = {} /\ saved = {} /\ fresh = {} /\ over = TRUE

NoClone ==
  /\ source = {} /\ progress = "failed" /\ open = <<>> /\ yielded = {} /\ reading = CloneRoot
  /\ torn = FALSE /\ copied = {} /\ whole = {} /\ changed = {} /\ destination = "absent"

NoCheckout ==
  /\ pc = 0 /\ force = 0 /\ seen = 0 /\ dest = 0 /\ temp = 0 /\ backup = 0 /\ built = 0
  /\ finished = 0 /\ made = 0 /\ late = 0 /\ unseen = 0

NoInterface ==
  /\ stored = 0 /\ checkpoints = 0 /\ view = 0 /\ playing = 0 /\ target = 0 /\ pane = 0
  /\ cache = 0 /\ terminal = 0

NoCollection ==
  /\ rows = 0 /\ references = 0 /\ files = 0 /\ delete = 0 /\ page = 0 /\ cursor = 0
  /\ cited = 0 /\ after = 0 /\ unreachable = 0 /\ artifacts = 0

NoComparison ==
  /\ left = 0 /\ right = 0 /\ leftRest = 0 /\ rightRest = 0 /\ changes = 0 /\ pair = 0
  /\ parent = 0 /\ concluded = 0 /\ relation = 0

NoExport ==
  /\ appended = 0 /\ format = 0 /\ redact = 0 /\ step = 0 /\ resolved = 0 /\ listed = 0
  /\ batch = 0 /\ taken = 0 /\ lines = 0 /\ objects = 0 /\ written = 0 /\ temporary = 0 /\ output = 0

PartsInit ==
  \/ /\ part = "workspace" /\ Init /\ stage = 0
     /\ NoClone /\ NoCheckout /\ NoInterface /\ NoCollection /\ NoComparison /\ NoExport
  \/ /\ part = "clone" /\ Cloning!Init /\ stage = 0
     /\ NoWorkspace /\ NoCheckout /\ NoInterface /\ NoCollection /\ NoComparison /\ NoExport
  \/ /\ part = "checkout" /\ Checkout!Init /\ stage = 0
     /\ NoWorkspace /\ NoClone /\ NoInterface /\ NoCollection /\ NoComparison /\ NoExport
  \/ /\ part = "interface" /\ Interface!Init /\ stage = 0
     /\ NoWorkspace /\ NoClone /\ NoCheckout /\ NoCollection /\ NoComparison /\ NoExport
  \/ /\ part = "collection" /\ Collection!Init
     /\ NoWorkspace /\ NoClone /\ NoCheckout /\ NoInterface /\ NoComparison /\ NoExport
  \/ /\ part = "comparing" /\ Comparing!Init
     /\ NoWorkspace /\ NoClone /\ NoCheckout /\ NoInterface /\ NoCollection /\ NoExport
  \/ /\ part = "exporting" /\ Exporting!Init /\ stage = 0
     /\ NoWorkspace /\ NoClone /\ NoCheckout /\ NoInterface /\ NoCollection /\ NoComparison

WorkspaceStep ==
  /\ part = "workspace" /\ Next
  /\ UNCHANGED <<part, cloneVars, materialVars, replayVars, cursorVars, compareVars, exportVars, stage>>

CloneStep ==
  /\ part = "clone" /\ Cloning!Next
  /\ UNCHANGED <<part, vars, materialVars, replayVars, cursorVars, compareVars, exportVars, stage>>

CheckoutStep ==
  /\ part = "checkout" /\ Checkout!Next
  /\ UNCHANGED <<part, vars, cloneVars, replayVars, cursorVars, compareVars, exportVars, stage>>

InterfaceStep ==
  /\ part = "interface" /\ Interface!Next
  /\ UNCHANGED <<part, vars, cloneVars, materialVars, cursorVars, compareVars, exportVars, stage>>

CollectionStep ==
  /\ part = "collection" /\ Collection!Next
  /\ UNCHANGED <<part, vars, cloneVars, materialVars, replayVars, compareVars, exportVars>>

ComparingStep ==
  /\ part = "comparing" /\ Comparing!Next
  /\ UNCHANGED <<part, vars, cloneVars, materialVars, replayVars, cursorVars, exportVars>>

ExportingStep ==
  /\ part = "exporting" /\ Exporting!Next
  /\ UNCHANGED <<part, vars, cloneVars, materialVars, replayVars, cursorVars, compareVars, stage>>

PartsNext ==
  \/ WorkspaceStep \/ CloneStep \/ CheckoutStep \/ InterfaceStep
  \/ CollectionStep \/ ComparingStep \/ ExportingStep

\* The fairness is the workspace's; the other parts are only checked for safety.
PartsSpec ==
  /\ PartsInit /\ [][PartsNext]_partsVars
  /\ WF_vars(Scan) /\ WF_vars(Age)

-----------------------------------------------------------------------------
(* The properties of the parts; UnsavedIsNoticed, ScannedAsItWas and       *)
(* ScansComeEventually are those of Workspace as they stand.               *)

\* Clone: the copy is of the workspace as it was.
CloneAsItWas == [](part = "clone" => Cloning!TypeOK) /\ Cloning!ClonedAsItWas

\* Replay: pages follow one another without a gap or an overlap.
PagesConnect == part = "interface" => Interface!TypeOK /\ Interface!PagesConnect

\* Replay: the panes show the run as of the selected event.
PanesMatchSelection == part = "interface" => Interface!PanesMatchSelection

\* Materialize: a checkout is complete or has replaced nothing.
CheckoutAllOrNothing == part = "checkout" => Checkout!TypeOK /\ Checkout!CheckoutAllOrNothing

\* GcCursor: what is collected is exactly what is not referenced.
CollectsExactly == part = "collection" => Collection!TypeOK /\ Collection!CollectsExactly

\* Comparison: a report has exactly the differences and the nearest relation.
ComparesExactly == part = "comparing" => Comparing!ComparesExactly

\* Export: what is handed out is coherent, whatever the recorder does meanwhile.
ExportsHoldTogether == part = "exporting" => Exporting!TypeOK /\ Exporting!ExportsHoldTogether
=============================================================================
