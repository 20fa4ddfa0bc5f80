------------------------------- MODULE MCParts -------------------------------
(***************************************************************************)
(* Small instances of the components of Parts.                             *)
(***************************************************************************)
EXTENDS Parts

\* A directory at the root with a file in it, and a file that is ignored.
WorkspaceParent == [e \in File \cup Dir |-> IF e = "g" THEN "d" ELSE "root"]

\* A directory at the root with a file in it, a link and what may be a .git file.
ClonedParent == [e \in {"d", "f", "l", ".git"} |-> IF e = "f" THEN "d" ELSE "top"]

\* A directory in a directory, a file below, a link beside.
CheckoutParent == [e \in {"d", "e", "f", "l"} |->
                     IF e \in {"d", "l"} THEN "top" ELSE IF e = "e" THEN "d" ELSE "e"]

Event(kind, offset, about) == [kind |-> kind, offset |-> offset, about |-> about]

Timeline == << Event("seen", 0, "p"), Event("checkpoint", 0, "c"), Event("output", 1, "o1"),
               Event("output", 1, "o2"), Event("gone", 2, "p"), Event("seen", 2, "q"),
               Event("output", 3, "o1"), Event("checkpoint", 3, "c"), Event("output", 4, "o2") >>

Changes == [c \in {None} \cup 1..Len(Timeline) |->
              IF c = None THEN <<>> ELSE IF c = 2 THEN <<"a">> ELSE <<"a", "b", "c">>]

Sizes == [o \in {"o1", "o2"} |-> IF o = "o1" THEN 2 ELSE 1]

Saved(type, permissions) ==
  [type |-> type, content |-> type, executable |-> FALSE, permissions |-> permissions]

SavedEntries == {Saved("directory", "rwx"), Saved("file", "rw"), Saved("file", "r")}

Exported(kind, about) == [kind |-> kind, about |-> about]

\* An object is typed in and printed later, others are files as well; the last
\* snapshot is the first one again.
WholeRun == << Exported("other", 0), Exported("initial", 1), Exported("input", 1),
               Exported("output", 2), Exported("input", 2), Exported("checkpoint", 2),
               Exported("output", 3), Exported("final", 1), Exported("other", 0) >>

SnapshotObjects == <<{4}, {4, 3}>>
=============================================================================
