-------------------------------- MODULE Export --------------------------------
(***************************************************************************)
(* `rewind export` and the stream of `rewind replay` (rewind-cli:          *)
(* export.rs, replay.rs, artifacts.rs; rewind-store/bundle.rs): a run is   *)
(* read through a read-only store, in several queries, while its recorder  *)
(* may append, and becomes a bundle, a page of HTML or its raw output.     *)
(*                                                                         *)
(* An event is its sequence number.  That the objects it refers to can be  *)
(* read without a lock is in ObjectStore.  Encodings, checksums and the    *)
(* relative spelling of paths are left out; limits are failures.           *)
(***************************************************************************)
EXTENDS Naturals, Sequences, FiniteSets

CONSTANTS Recorded, \* sequence number -> event, for the whole run
          Holds,    \* snapshot -> the objects of its files
          PageSize, \* EXPORT_PAGE_SIZE, REPLAY_PAGE_SIZE
          None

\* An event is a record [kind, about]: of kind "input" or "output", about an
\* object, "initial", "checkpoint" or "final", about a snapshot, "failed", the
\* end of a run whose final checkpoint could not be committed, or "other".
\* Objects and snapshots are numbers, in the order of their names.
ExportAssumption ==
  /\ PageSize \in Nat \ {0} /\ Recorded \in Seq({Recorded[i] : i \in DOMAIN Recorded})
  /\ \A i \in DOMAIN Recorded :
       /\ Recorded[i].kind \in {"input", "output", "initial", "checkpoint", "final", "failed", "other"}
       /\ Recorded[i].kind \in {"input", "output"} => Recorded[i].about \in Nat
       /\ Recorded[i].kind \in {"initial", "checkpoint", "final"} => Recorded[i].about \in DOMAIN Holds
  /\ DOMAIN Holds \subseteq Nat /\ None \notin DOMAIN Holds
  /\ \A s \in DOMAIN Holds : Holds[s] \subseteq Nat /\ IsFiniteSet(Holds[s])

VARIABLES stored,         \* events in the store
          format, redact, \* "bundle", "html" or "raw"; redact_exports
          step,           \* where the command is
          known,          \* events there were when the run was resolved
          listed,         \* the checkpoints that were loaded
          page, cursor,   \* a page of the timeline, the last event taken from it
          lines, objects, \* events exported, objects to go with them
          written,        \* entries of the temporary file
          temporary,      \* whether there is one beside the output
          output          \* "absent", "old" or "new"

readVars == <<known, listed, page, cursor, lines, objects>>
fileVars == <<written, temporary, output>>
vars == <<stored, format, redact, step, readVars, fileVars>>

Events == 1..Len(Recorded)
Kind(i) == Recorded[i].kind
About(i) == Recorded[i].about

Commits(n) == {i \in 1..n : Kind(i) \in {"initial", "checkpoint", "final"}}

CommittedAs(kind, n) == {About(i) : i \in {j \in Commits(n) : Kind(j) = kind}}

\* The run's row, which the commits of its first and last checkpoint filled in.
\* A failed run that has no last checkpoint ends with the first snapshot.
Row(n, column) ==
  LET failed == CommittedAs("final", n) = {} /\ \E i \in 1..n : Kind(i) = "failed"
      S == CommittedAs(IF failed THEN "initial" ELSE column, n)
  IN IF S = {} THEN None ELSE CHOOSE s \in S : TRUE

\* The names of a bundle, in their order.
Entry(class, id) == <<class, id>>
Before(a, b) == a[1] < b[1] \/ (a[1] = b[1] /\ a[2] < b[2])
Classes == [checkpoints |-> 1, events |-> 2, manifest |-> 3, object |-> 4, run |-> 5, snapshot |-> 6]

Init ==
  /\ stored \in Events
  /\ format \in {"bundle", "html", "raw"} /\ redact \in BOOLEAN
  /\ step = "resolve" /\ known = 0 /\ listed = {}
  /\ page = [to |-> 0, more |-> FALSE] /\ cursor = 0
  /\ lines = <<>> /\ objects = {}
  /\ written = <<>> /\ temporary = FALSE /\ output \in {"absent", "old"}

-----------------------------------------------------------------------------
\* The recorder commits events, one or several at a time.
Record ==
  /\ stored < Len(Recorded)
  /\ stored' \in stored + 1..Len(Recorded)
  /\ UNCHANGED <<format, redact, step, readVars, fileVars>>

Goto(place) == step' = place /\ UNCHANGED <<stored, format, redact>>

\* An error; a temporary file is removed with its handle.
Fail ==
  /\ Goto("failed") /\ temporary' = FALSE
  /\ UNCHANGED <<readVars, written, output>>

\* resolve_run reads the run's row; HTML needs both snapshots of it.
Resolve ==
  /\ step = "resolve"
  /\ IF format = "html" /\ None \in {Row(stored, "initial"), Row(stored, "final")} THEN Fail
     ELSE /\ Goto(IF format = "raw" THEN "page" ELSE "checkpoints")
          /\ known' = stored
          /\ UNCHANGED <<listed, page, cursor, lines, objects, fileVars>>

Snapshots == ({About(c) : c \in listed} \cup {Row(known, "initial"), Row(known, "final")}) \ {None}

\* load_checkpoints, and for a bundle the snapshots and the objects they hold.
LoadCheckpoints ==
  /\ step = "checkpoints"
  /\ Goto("page")
  /\ listed' = Commits(stored)
  /\ UNCHANGED <<known, page, cursor, lines, fileVars>>
  /\ objects' = IF format = "bundle" THEN UNION {Holds[s] : s \in Snapshots'} ELSE {}

\* load_timeline after the last event taken.
LoadPage ==
  /\ step = "page"
  /\ Goto("events")
  /\ page' = [to   |-> IF stored < cursor + PageSize THEN stored ELSE cursor + PageSize,
              more |-> stored > cursor + PageSize]
  /\ UNCHANGED <<known, listed, cursor, lines, objects, fileVars>>

Redacted(i) == redact /\ Kind(i) = "input" /\ format # "raw"

\* Mutant: the object of an input that is left out is still bundled.
TakeEvent_KeepsObject ==
  /\ step = "events" /\ cursor < page.to
  /\ LET i == cursor + 1
     IN /\ cursor' = i
        /\ lines' = Append(lines, [event |-> i, redacted |-> Redacted(i)])
        /\ objects' = IF format = "bundle" /\ Kind(i) \in {"input", "output"}
                      THEN objects \cup {About(i)} ELSE objects
  /\ UNCHANGED <<stored, format, redact, step, known, listed, page, fileVars>>

\* The next event of the page: a line with its object, unless it is an input
\* that is to be left out; of the raw stream only output.
TakeEvent ==
  /\ step = "events" /\ cursor < page.to
  /\ LET i == cursor + 1
     IN /\ cursor' = i
        /\ lines' = IF format = "raw" /\ Kind(i) # "output" THEN lines
                    ELSE Append(lines, [event |-> i, redacted |-> Redacted(i)])
        /\ objects' = IF format = "bundle" /\ Kind(i) \in {"input", "output"} /\ ~Redacted(i)
                      THEN objects \cup {About(i)} ELSE objects
  /\ UNCHANGED <<stored, format, redact, step, known, listed, page, fileVars>>

EndPage ==
  /\ step = "events" /\ cursor = page.to
  /\ Goto(IF page.more THEN "page" ELSE IF format = "raw" THEN "done" ELSE "create")
  /\ UNCHANGED <<readVars, fileVars>>

-----------------------------------------------------------------------------
(* write_bundle_file with its BundleStreamWriter, and atomic_write.        *)

CreateTemporary ==
  /\ step = "create"
  /\ Goto(IF format = "bundle" THEN "write" ELSE "install")
  /\ temporary' = TRUE
  /\ UNCHANGED <<readVars, written, output>>

\* Names of one kind, in their order: each comes after as many as are smaller.
Sorted(class, S) ==
  [k \in 1..Cardinality(S) |-> Entry(class, CHOOSE i \in S : Cardinality({j \in S : j < i}) = k - 1)]

\* What is handed to the writer, in this order, and how many entries its
\* header declares.
Planned ==
  <<Entry(Classes.checkpoints, 0), Entry(Classes.events, 0), Entry(Classes.manifest, 0)>>
  \o Sorted(Classes.object, objects)
  \o <<Entry(Classes.run, 0)>>
  \o Sorted(Classes.snapshot, Snapshots)
Declared == 4 + Cardinality(objects) + Cardinality(Snapshots)

\* The writer refuses a name that does not follow the last one, and a number of
\* entries that is not the one it declared.
WriteEntry ==
  /\ step = "write" /\ Len(written) < Len(Planned)
  /\ LET next == Planned[Len(written) + 1]
     IN IF Len(written) = Declared \/ (written # <<>> /\ ~Before(written[Len(written)], next))
        THEN Goto("refused") /\ UNCHANGED written
        ELSE written' = Append(written, next) /\ UNCHANGED <<stored, format, redact, step>>
  /\ UNCHANGED <<readVars, temporary, output>>

FinishWriter ==
  /\ step = "write" /\ Len(written) = Len(Planned)
  /\ Goto(IF Len(written) = Declared THEN "install" ELSE "refused")
  /\ UNCHANGED <<readVars, fileVars>>

\* The file is synced and renamed to the output.
Install ==
  /\ step = "install"
  /\ Goto("sync") /\ temporary' = FALSE /\ output' = "new"
  /\ UNCHANGED <<readVars, written>>

SyncParent == step = "sync" /\ Goto("done") /\ UNCHANGED <<readVars, fileVars>>

Over == step \in {"done", "failed", "refused", "crashed"}

\* Queries, reads, writes and limits fail; the process dies.
Fails == ~Over /\ Fail
Crash == ~Over /\ Goto("crashed") /\ UNCHANGED <<readVars, fileVars>>

Next ==
  \/ Record \/ Resolve \/ LoadCheckpoints \/ LoadPage \/ TakeEvent \/ EndPage
  \/ CreateTemporary \/ WriteEntry \/ FinishWriter \/ Install \/ SyncParent \/ Fails \/ Crash

Spec == Init /\ [][Next]_vars

-----------------------------------------------------------------------------
(* Properties.                                                             *)

TypeOK ==
  /\ stored \in Events /\ format \in {"bundle", "html", "raw"} /\ redact \in BOOLEAN
  /\ step \in {"resolve", "checkpoints", "page", "events", "create", "write", "install", "sync",
               "done", "failed", "refused", "crashed"}
  /\ known \in 0..stored /\ listed \subseteq Events
  /\ page \in [to : 0..stored, more : BOOLEAN] /\ cursor \in 0..page.to
  /\ temporary \in BOOLEAN /\ output \in {"absent", "old", "new"}

\* What was handed out, whatever the recorder did between the queries: all
\* events the run had when it was resolved and perhaps later ones, in order,
\* without a gap; for a bundle, every checkpoint with the event that committed
\* it, the records of the snapshots, and the objects of these and of the events
\* - but not of an input that is left out, unless something else has the same.
Coherent(n) ==
  /\ known <= n
  /\ lines = [i \in 1..n |-> [event |-> i, redacted |-> Redacted(i)]]
  /\ listed \subseteq 1..n /\ Commits(known) \subseteq listed
  /\ format = "html" => Row(known, "final") # None
  /\ format = "bundle" =>
       LET names(class) == {e[2] : e \in {written[k] : k \in {j \in 1..Len(written) : written[j][1] = class}}}
       IN /\ names(Classes.snapshot) = {About(c) : c \in listed}
          /\ names(Classes.object) =
               (UNION {Holds[About(c)] : c \in listed})
               \cup {About(i) : i \in {j \in 1..n : Kind(j) = "output" \/ (Kind(j) = "input" /\ ~redact)}}

\* The writer never refuses what it is handed, an export that does not end well
\* before its rename leaves the old output alone, and one that is installed is
\* coherent; a raw stream is the output of the run so far, each chunk once.
ExportsHoldTogether ==
  /\ step # "refused"
  /\ output = "new" => Coherent(cursor) /\ ~temporary
  /\ temporary => step \in {"write", "install", "crashed"}
  /\ format = "raw" =>
       /\ {lines[k].event : k \in 1..Len(lines)} = {i \in 1..cursor : Kind(i) = "output"}
       /\ \A k, m \in 1..Len(lines) : k < m => lines[k].event < lines[m].event
       /\ step = "done" => known <= cursor
=============================================================================
