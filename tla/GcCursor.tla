------------------------------ MODULE GcCursor ------------------------------
(***************************************************************************)
(* `rewind gc` (rewind-cli/gc.rs): two paged cursors, over the rows of     *)
(* stored objects and over the references of snapshots and events, are     *)
(* merged, and rows without a reference are deleted while the pages are    *)
(* read; then files of crashed writes, page by page too.  The command      *)
(* holds the writer lock, so nobody else writes; what the store does in    *)
(* each call is in ObjectStore.                                            *)
(***************************************************************************)
EXTENDS Naturals, FiniteSets

CONSTANTS MaxId,    \* object ids and file names are 1..MaxId, in their order
          PageSize  \* MAX_OBJECT_PAGE

Ids == 1..MaxId

\* What the constants must be.
GcAssumption == MaxId \in Nat \ {0} /\ PageSize \in Nat \ {0}

VARIABLES rows, references, files, \* the store: indexed objects, references, files
          delete,                  \* without: a dry run
          stage,                   \* "rows", "files", "done" or "failed"
          page, cursor,            \* page of rows (or orphaned files), the last one seen
          cited, after,            \* page of references, the last one passed
          unreachable, artifacts   \* the report

vars == <<rows, references, files, delete, stage, page, cursor, cited, after, unreachable, artifacts>>

\* list_objects, list_referenced_object_ids, list_physical_orphans: the first
\* ids after a cursor, and whether there are more.
Page(S, from) ==
  LET rest == {i \in S : i > from}
  IN [ids  |-> {i \in rest : Cardinality({j \in rest : j < i}) < PageSize},
      more |-> Cardinality(rest) > PageSize]

Least(S) == CHOOSE i \in S : \A j \in S : i <= j

Pages == [ids : SUBSET Ids, more : BOOLEAN]

TypeOK ==
  /\ rows \subseteq Ids /\ references \subseteq Ids /\ files \subseteq Ids /\ delete \in BOOLEAN
  /\ stage \in {"rows", "files", "done", "failed"}
  /\ page \in Pages /\ cited \in Pages /\ cursor \in Ids \cup {0} /\ after \in Ids \cup {0}
  /\ unreachable \subseteq Ids /\ artifacts \subseteq Ids

\* Writers refer to what is indexed; a crash leaves files that are not, and a
\* deletion that was cut short a row without its file.
Init ==
  /\ rows \in SUBSET Ids /\ references \in SUBSET rows /\ files \in SUBSET Ids
  /\ references \subseteq files
  /\ delete \in BOOLEAN
  /\ stage = "rows" /\ page = Page(rows, 0) /\ cursor = 0
  /\ cited = Page(references, 0) /\ after = 0
  /\ unreachable = {} /\ artifacts = {}

Passed(target) == {i \in cited.ids : i < target}

\* The references of the page that come before the next row are dropped, and
\* the next page is read when none is left.
Behind(target) == Passed(target) # {} \/ (cited.ids = {} /\ cited.more)

\* Mutant: the next page of references starts at the row.
AdvanceBefore_FromRow ==
  /\ stage = "rows" /\ page.ids # {} /\ Behind(Least(page.ids))
  /\ LET passed == Passed(Least(page.ids))
     IN IF passed # {}
        THEN /\ cited' = [cited EXCEPT !.ids = @ \ passed]
             /\ after' = Least(page.ids)
        ELSE cited' = Page(references, after) /\ UNCHANGED after
  /\ UNCHANGED <<rows, references, files, delete, stage, page, cursor, unreachable, artifacts>>

\* A round of ReferenceCursor::advance_before.
AdvanceBefore ==
  /\ stage = "rows" /\ page.ids # {} /\ Behind(Least(page.ids))
  /\ LET passed == Passed(Least(page.ids))
     IN IF passed # {}
        THEN /\ cited' = [cited EXCEPT !.ids = @ \ passed]
             /\ after' = CHOOSE i \in passed : \A j \in passed : j <= i
        ELSE cited' = Page(references, after) /\ UNCHANGED after
  /\ UNCHANGED <<rows, references, files, delete, stage, page, cursor, unreachable, artifacts>>

\* A row that is not the current reference is counted, and deleted unless this
\* is a dry run, file and row; delete_object refuses one that is referenced.
VisitRow ==
  /\ stage = "rows" /\ page.ids # {} /\ ~Behind(Least(page.ids))
  /\ LET row == Least(page.ids)
     IN /\ cursor' = row /\ page' = [page EXCEPT !.ids = @ \ {row}]
        /\ IF cited.ids # {} /\ Least(cited.ids) = row
           THEN UNCHANGED <<rows, files, stage, unreachable>>
           ELSE LET gone == IF delete THEN {row} \ references ELSE {}
                IN /\ unreachable' = unreachable \cup {row}
                   /\ rows' = rows \ gone /\ files' = files \ gone
                   /\ stage' = IF delete /\ gone = {} THEN "failed" ELSE stage
  /\ UNCHANGED <<references, delete, cited, after, artifacts>>

\* A file without a row; delete_physical_orphan looks for a row and for
\* references once more.
VisitFile ==
  /\ stage = "files" /\ page.ids # {}
  /\ LET file == Least(page.ids)
     IN /\ cursor' = file /\ page' = [page EXCEPT !.ids = @ \ {file}]
        /\ artifacts' = artifacts \cup {file}
        /\ IF delete /\ file \in rows \cup references
           THEN stage' = "failed" /\ UNCHANGED files
           ELSE files' = (IF delete THEN files \ {file} ELSE files) /\ UNCHANGED stage
  /\ UNCHANGED <<rows, references, delete, cited, after, unreachable>>

\* The next page; after the last one of rows the files, from their start.
NextPage ==
  /\ stage \in {"rows", "files"} /\ page.ids = {}
  /\ IF page.more
     THEN /\ page' = Page(IF stage = "rows" THEN rows ELSE files \ rows, cursor)
          /\ UNCHANGED <<stage, cursor>>
     ELSE /\ stage' = IF stage = "rows" THEN "files" ELSE "done"
          /\ cursor' = 0
          /\ page' = IF stage = "rows" THEN Page(files \ rows, 0) ELSE page
  /\ UNCHANGED <<rows, references, files, delete, cited, after, unreachable, artifacts>>

Next == AdvanceBefore \/ VisitRow \/ VisitFile \/ NextPage

Spec == Init /\ [][Next]_vars

-----------------------------------------------------------------------------
\* Where the pages of rows and of references end, and what is deleted while
\* they are read, does not matter: nothing referenced is reported or refused,
\* and in the end every object without a reference and every file without a
\* row has been, and they are gone unless this was a dry run.
CollectsExactly ==
  /\ stage # "failed" /\ unreachable \cap references = {}
  /\ references \subseteq rows \cap files
  /\ stage = "done" =>
       /\ rows \subseteq references \cup unreachable /\ files \ rows \subseteq artifacts
       /\ delete => rows = references /\ files = references
=============================================================================
