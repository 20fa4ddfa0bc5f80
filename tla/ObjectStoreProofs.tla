--------------------------- MODULE ObjectStoreProofs ---------------------------
(***************************************************************************)
(* On a file system whose syncs make all earlier name changes durable, any *)
(* number of captures and collections over any objects, with failing       *)
(* calls, crashes and power failures between any two system calls, leave   *)
(* whatever committed records refer to complete and durable: the store     *)
(* implements DurableObjects.                                              *)
(***************************************************************************)
EXTENDS ObjectStore, TLAPS

\* A file has its final name only once its bytes are on disk.
NamedWhenSynced == \A o \in Object : name[o] # "absent" => content[o] = "synced"

\* A process at work holds the lock; what it has published is there, and what
\* it deletes is not referenced.
InOrder(p) ==
  /\ pc[p] # "out" => lock = p
  /\ pc[p] = "link" => draft[p] = "synced"
  /\ pc[p] \in {"create", "write", "sync", "link"} =>
       job[p] \in Object /\ directory[FanOut[job[p]]] \in Present
  /\ pc[p] \in {"syncdir", "cleanup", "record"} => job[p] \in Visible
  /\ pc[p] = "deleting" => job[p] \in Object \ refs
  /\ put[p] \subseteq Visible
  /\ pc[p] \in {"out", "collect", "deleting", "sweep"} => put[p] = {}

ProcessesInOrder == \A p \in Process : InOrder(p)

IInv == TypeOK /\ NamedWhenSynced /\ ProcessesInOrder /\ ReferencesSurvive

-----------------------------------------------------------------------------
(* What the steps do to files.                                             *)

\* No name, no complete object and no directory is lost.
FilesKept ==
  /\ \A d \in Directory : directory[d] \in Present => directory'[d] \in Present
  /\ Visible \subseteq Visible'
  /\ \A o \in Object : Safe(o) => Safe(o)'
  /\ NamedWhenSynced'

FileTypes ==
  /\ directory \in [Directory -> {"absent", "volatile", "durable"}]
  /\ name \in [Object -> NameStates]
  /\ content \in [Object -> {"torn", "written", "synced"}]
  /\ litter \in [Object -> NameStates \ {"durable"}]

LEMMA SettledStates ==
  /\ Settled("volatile") = "durable" /\ Settled("durable") = "durable"
  /\ Settled("removed") = "absent" /\ Settled("absent") = "absent"
BY DEF Settled

LEMMA FilesUnchanged ==
  ASSUME IInv, UNCHANGED <<directory, name, content>>, litter' \in [Object -> NameStates \ {"durable"}]
  PROVE  FilesKept /\ FileTypes'
BY DEF IInv, TypeOK, FilesKept, FileTypes, NamedWhenSynced, Visible, Safe

\* A sync on a file system of this kind.
LEMMA JournalledKeeps ==
  ASSUME Ordered, IInv, NEW S \in SUBSET Object,
         name' = Synced(S), directory' = DirectoriesSynced, litter' = LitterSynced, UNCHANGED content
  PROVE  /\ FilesKept /\ FileTypes'
         /\ \A o \in Visible : directory'[FanOut[o]] = "durable" /\ name'[o] = "durable"
<1>1. name' = [o \in Object |-> Settled(name[o])]
  BY DEF Synced
<1>2. directory' = [d \in Directory |-> Settled(directory[d])]
  BY DEF DirectoriesSynced
<1>3. \A o \in Object : name[o] \in NameStates /\ litter[o] \in NameStates \ {"durable"}
                        /\ FanOut[o] \in Directory
  BY ObjectAssumption DEF IInv, TypeOK
<1>4. \A d \in Directory : directory[d] \in {"absent", "volatile", "durable"}
  BY DEF IInv, TypeOK
<1>5. litter' \in [Object -> NameStates \ {"durable"}]
  BY <1>3 DEF LitterSynced, NameStates
<1>6. FileTypes'
  BY <1>1, <1>2, <1>3, <1>4, <1>5, SettledStates DEF IInv, TypeOK, FileTypes, NameStates
<1>7. \A o \in Object : name'[o] # "absent" => name[o] \in Present
  BY <1>1, <1>3, SettledStates DEF NameStates, Present
<1>8. NamedWhenSynced'
  BY <1>7 DEF IInv, NamedWhenSynced, Present
<1>9. \A o \in Visible : directory'[FanOut[o]] = "durable" /\ name'[o] = "durable"
  BY <1>1, <1>2, <1>3, SettledStates DEF Visible, Present
<1>10. \A d \in Directory : directory[d] \in Present => directory'[d] \in Present
  BY <1>2, SettledStates DEF Present
<1>11. \A o \in Object : Safe(o) => Safe(o)'
  BY <1>9 DEF Safe, Visible, Present
<1> QED BY <1>6, <1>8, <1>9, <1>10, <1>11 DEF FilesKept, Visible, Present

\* A name that goes is of no object that is referenced.
LEMMA UnlinkedKeeps ==
  ASSUME IInv, NEW o \in Object \ refs, Unlinked(o), UNCHANGED <<directory, content>>
  PROVE  /\ name' \in [Object -> NameStates] /\ NamedWhenSynced'
         /\ {b \in Object : Safe(b)'} = {b \in Object : Safe(b)} \ {o}
<1>1. name' \in [Object -> NameStates] /\ ~Safe(o)'
  BY DEF Unlinked, IInv, TypeOK, NameStates, Visible, Present, Safe
<1>2. /\ \A b \in Object \ {o} : name'[b] = name[b]
      /\ name'[o] # "absent" => name[o] # "absent"
  BY DEF Unlinked, IInv, TypeOK, Visible, Present
<1> QED BY <1>1, <1>2 DEF IInv, NamedWhenSynced, Safe, Present

-----------------------------------------------------------------------------
(* What the steps do to processes.                                         *)

ProcessTypes ==
  /\ lock \in Process \cup {None}
  /\ pc \in [Process -> Places]
  /\ job \in [Process -> Object \cup {None}]
  /\ draft \in [Process -> Drafts]
  /\ put \in [Process -> SUBSET Object]

\* Whatever the process that is at work does, the others stay out.
LEMMA OthersStayOut ==
  ASSUME IInv, NEW p \in Process, pc[p] # "out" \/ lock = None,
         \A q \in Process \ {p} : pc'[q] = pc[q] /\ put'[q] = put[q],
         InOrder(p)'
  PROVE  ProcessesInOrder'
<1>1. \A q \in Process \ {p} : pc[q] = "out" /\ put[q] = {}
  BY ObjectAssumption DEF IInv, ProcessesInOrder, InOrder
<1> QED BY <1>1 DEF ProcessesInOrder, InOrder

\* A process ends: the kernel drops its lock.
LEMMA LeaveKeeps ==
  ASSUME IInv, NEW p \in Process, Leave(p), pc[p] # "out"
  PROVE  ProcessTypes' /\ ProcessesInOrder'
<1>1. ProcessTypes'
  BY DEF Leave, Goto, IInv, TypeOK, ProcessTypes, Places, Drafts
<1>2. pc'[p] = "out" /\ put'[p] = {} /\ \A q \in Process \ {p} : pc'[q] = pc[q] /\ put'[q] = put[q]
  BY DEF Leave, Goto, IInv, TypeOK
<1> QED BY <1>1, <1>2, OthersStayOut DEF InOrder

-----------------------------------------------------------------------------
(* What the steps do to the abstract store.                                *)

Available == {o \in Object : Safe(o)}

\* A step that loses nothing and adds no reference is an abstract publication.
LEMMA PublicationRefines ==
  ASSUME IInv, FilesKept, UNCHANGED refs, refs \subseteq rows'
  PROVE  ReferencesSurvive' /\ Durable!Publish
BY DEF IInv, FilesKept, ReferencesSurvive, Durable!Publish, TypeOK

LEMMA UnchangedRefines ==
  ASSUME UNCHANGED <<directory, name, content, refs>>
  PROVE  UNCHANGED Durable!durableVars
BY DEF Durable!durableVars, Safe

ReaderTypes ==
  /\ wanted \subseteq Object /\ missed \subseteq Object
  /\ sampled \subseteq Object /\ reported \subseteq Object

\* The step is one of the abstract store's, or none.
Refines == Durable!Next \/ UNCHANGED Durable!durableVars

Preserved == IInv' /\ Refines

\* The steps of one process that lose no file and add no reference.
LEMMA WorkPreserves ==
  ASSUME IInv, NEW p \in Process, pc[p] # "out" \/ lock = None,
         \A q \in Process \ {p} : pc'[q] = pc[q] /\ put'[q] = put[q],
         ProcessTypes', InOrder(p)', FileTypes', FilesKept,
         UNCHANGED <<refs, readerVars>>, rows \subseteq rows', rows' \subseteq Object
  PROVE  Preserved
<1>1. TypeOK'
  BY DEF IInv, TypeOK, ProcessTypes, FileTypes, readerVars
<1>2. refs \subseteq rows'
  BY DEF IInv, ReferencesSurvive
<1> QED BY <1>1, <1>2, OthersStayOut, PublicationRefines
        DEF Preserved, Refines, Durable!Next, IInv, FilesKept

-----------------------------------------------------------------------------
(* Captures.                                                               *)

LEMMA OpenPreserves ==
  ASSUME IInv, NEW p \in Process, NEW work \in {"capture", "collect"}, Open(p, work)
  PROVE  Preserved
<1>1. FilesKept /\ FileTypes'
  BY FilesUnchanged DEF Open, fileVars, IInv, TypeOK
<1>2. ProcessTypes' /\ InOrder(p)'
  BY DEF Open, Goto, IInv, TypeOK, ProcessTypes, Places, ProcessesInOrder, InOrder
<1> QED BY <1>1, <1>2, WorkPreserves DEF Open, Goto, IInv, TypeOK, tableVars, readerVars

LEMMA InspectPreserves ==
  ASSUME IInv, NEW p \in Process, NEW o \in Object, Inspect(p, o)
  PROVE  Preserved
<1>1. FanOut[o] \in Directory
  BY ObjectAssumption
<1>2. /\ directory' \in [Directory -> {"absent", "volatile", "durable"}]
      /\ directory'[FanOut[o]] \in Present
      /\ \A d \in Directory : directory[d] \in Present => directory'[d] = directory[d]
  BY <1>1 DEF Inspect, MakeDirectory, IInv, TypeOK, Present
<1>3. FilesKept /\ FileTypes'
  BY <1>2, ObjectAssumption DEF Inspect, IInv, TypeOK, FilesKept, FileTypes, NamedWhenSynced, Visible, Safe, Present
<1>4. ProcessTypes' /\ (\A q \in Process \ {p} : pc'[q] = pc[q] /\ put'[q] = put[q])
  BY DEF Inspect, Goto, IInv, TypeOK, ProcessTypes, Places
<1>5. InOrder(p)'
  <2>1. pc[p] = "capture" /\ lock' = p /\ put'[p] \subseteq Visible'
    BY <1>3 DEF Inspect, IInv, ProcessesInOrder, InOrder, FilesKept
  <2>2. \/ pc'[p] = "capture"
        \/ pc'[p] = "create" /\ job'[p] = o
        \/ pc'[p] = "record" /\ job'[p] = o /\ o \in Visible
    BY <2>1 DEF Inspect, Goto, IInv, TypeOK, Readable
  <2> QED BY <1>2, <1>3, <2>1, <2>2 DEF InOrder, FilesKept
<1> QED BY <1>3, <1>4, <1>5, WorkPreserves DEF Inspect, IInv, TypeOK, tableVars

\* Until the temporary file is linked, only the process moves.
LEMMA DraftPreserves ==
  ASSUME IInv, NEW p \in Process, CreateTemp(p) \/ WriteTemp(p)
  PROVE  Preserved
<1>1. FilesKept /\ FileTypes'
  BY FilesUnchanged DEF CreateTemp, WriteTemp, fileVars, IInv, TypeOK
<1>2. ProcessTypes' /\ (\A q \in Process \ {p} : pc'[q] = pc[q] /\ put'[q] = put[q])
  BY ObjectAssumption DEF CreateTemp, WriteTemp, Goto, Refused, IInv, TypeOK, ProcessTypes, Places, Drafts
<1>3. InOrder(p)'
  BY DEF CreateTemp, WriteTemp, Goto, Refused, fileVars, tableVars, IInv, TypeOK, ProcessesInOrder, InOrder,
         Visible
<1> QED BY <1>1, <1>2, <1>3, WorkPreserves
        DEF CreateTemp, WriteTemp, IInv, TypeOK, tableVars, ProcessesInOrder, InOrder

LEMMA SyncTempPreserves ==
  ASSUME Ordered, IInv, NEW p \in Process, SyncTemp(p)
  PROVE  Preserved
<1>1. FilesKept /\ FileTypes'
  <2>1. CASE Journalled
    BY <2>1, JournalledKeeps DEF SyncTemp, Journalled
  <2>2. CASE UNCHANGED <<draft, name, directory, litter>>
    BY <2>2, FilesUnchanged DEF SyncTemp, IInv, TypeOK
  <2> QED BY <2>1, <2>2 DEF SyncTemp
<1>2. ProcessTypes' /\ (\A q \in Process \ {p} : pc'[q] = pc[q] /\ put'[q] = put[q])
  BY DEF SyncTemp, Goto, IInv, TypeOK, ProcessTypes, Places, Drafts
<1>3. /\ pc'[p] \in {"link", "fail"} /\ lock' = p /\ put'[p] = put[p] /\ job'[p] = job[p]
      /\ pc'[p] = "link" => draft'[p] = "synced"
      /\ put[p] \subseteq Visible /\ job[p] \in Object /\ directory[FanOut[job[p]]] \in Present
  BY DEF SyncTemp, Goto, IInv, TypeOK, ProcessesInOrder, InOrder
<1>4. InOrder(p)'
  BY <1>1, <1>3, ObjectAssumption DEF InOrder, FilesKept
<1> QED BY <1>1, <1>2, <1>4, WorkPreserves DEF SyncTemp, tableVars, IInv, TypeOK

LEMMA LinkPreserves ==
  ASSUME IInv, NEW p \in Process, Link(p)
  PROVE  Preserved
<1>1. /\ pc[p] = "link" /\ lock' = p /\ draft[p] = "synced" /\ put[p] \subseteq Visible
      /\ job[p] \in Object /\ directory[FanOut[job[p]]] \in Present
  BY DEF Link, IInv, ProcessesInOrder, InOrder
<1>2. ProcessTypes' /\ (\A q \in Process \ {p} : pc'[q] = pc[q] /\ put'[q] = put[q])
  BY DEF Link, Goto, IInv, TypeOK, ProcessTypes, Places
<1>3. CASE UNCHANGED <<name, content>> /\ pc'[p] = "fail"
  <2>1. FilesKept /\ FileTypes'
    BY <1>3, FilesUnchanged DEF Link, IInv, TypeOK
  <2>2. InOrder(p)'
    BY <1>1, <1>3, <2>1 DEF Link, InOrder, FilesKept
  <2> QED BY <1>1, <1>2, <2>1, <2>2, WorkPreserves DEF Link, IInv, TypeOK, tableVars
<1>4. CASE /\ job[p] \notin Visible /\ pc'[p] = "syncdir"
           /\ name' = [name EXCEPT ![job[p]] = "volatile"]
           /\ content' = [content EXCEPT ![job[p]] = "synced"]
  <2>1. /\ \A o \in Object \ {job[p]} : name'[o] = name[o] /\ content'[o] = content[o]
        /\ name'[job[p]] = "volatile" /\ content'[job[p]] = "synced"
        /\ name' \in [Object -> NameStates] /\ content' \in [Object -> {"torn", "written", "synced"}]
    BY <1>1, <1>4 DEF IInv, TypeOK, NameStates
  <2>2. UNCHANGED directory /\ ~Safe(job[p])
    BY <1>1, <1>4 DEF Link, Safe, Visible, Present
  <2>3. FilesKept /\ FileTypes' /\ job[p] \in Visible'
    BY <1>1, <2>1, <2>2 DEF Link, IInv, TypeOK, FilesKept, FileTypes, NamedWhenSynced, Visible, Safe, Present
  <2>4. InOrder(p)'
    BY <1>1, <1>4, <2>3 DEF Link, InOrder, FilesKept
  <2> QED BY <1>1, <1>2, <2>3, <2>4, WorkPreserves DEF Link, IInv, TypeOK, tableVars
<1> QED BY <1>1, <1>3, <1>4 DEF Link, Goto, IInv, TypeOK

LEMMA SyncParentPreserves ==
  ASSUME Ordered, IInv, NEW p \in Process, SyncParent(p)
  PROVE  Preserved
<1>1. FilesKept /\ FileTypes'
  <2>1. CASE UNCHANGED <<name, directory, litter>>
    BY <2>1, FilesUnchanged DEF SyncParent, IInv, TypeOK
  <2>2. CASE ~UNCHANGED <<name, directory, litter>>
    BY <2>2, JournalledKeeps DEF SyncParent
  <2> QED BY <2>1, <2>2
<1>2. ProcessTypes' /\ (\A q \in Process \ {p} : pc'[q] = pc[q] /\ put'[q] = put[q])
  BY DEF SyncParent, Goto, IInv, TypeOK, ProcessTypes, Places
<1>3. /\ pc[p] = "syncdir" /\ pc'[p] \in {"cleanup", "fail"} /\ lock' = p /\ put'[p] = put[p]
      /\ job'[p] = job[p] /\ put[p] \subseteq Visible /\ job[p] \in Visible
  BY DEF SyncParent, Goto, IInv, TypeOK, ProcessesInOrder, InOrder
<1>4. InOrder(p)'
  BY <1>1, <1>3 DEF InOrder, FilesKept
<1> QED BY <1>1, <1>2, <1>3, <1>4, WorkPreserves DEF SyncParent, tableVars, IInv, TypeOK

LEMMA RemoveTempPreserves ==
  ASSUME IInv, NEW p \in Process, RemoveTemp(p)
  PROVE  Preserved
<1>1. litter' \in [Object -> NameStates \ {"durable"}]
  BY DEF RemoveTemp, IInv, TypeOK, NameStates
<1>2. FilesKept /\ FileTypes'
  BY <1>1, FilesUnchanged DEF RemoveTemp
<1>3. ProcessTypes' /\ (\A q \in Process \ {p} : pc'[q] = pc[q] /\ put'[q] = put[q])
  BY DEF RemoveTemp, Refused, Goto, IInv, TypeOK, ProcessTypes, Places, Drafts
<1>4. /\ pc'[p] \in {"record", "capture"} /\ lock' = p /\ put'[p] = put[p] /\ put[p] \subseteq Visible
      /\ pc'[p] = "record" => job'[p] = job[p] /\ job[p] \in Visible
  BY DEF RemoveTemp, Refused, Goto, IInv, TypeOK, ProcessesInOrder, InOrder
<1>5. InOrder(p)'
  BY <1>2, <1>4 DEF InOrder, FilesKept
<1> QED BY <1>2, <1>3, <1>5, WorkPreserves DEF RemoveTemp, tableVars, IInv, TypeOK

LEMMA RecordObjectPreserves ==
  ASSUME Ordered, IInv, NEW p \in Process, RecordObject(p)
  PROVE  Preserved
<1>1. FilesKept /\ FileTypes'
  <2>1. CASE Journalled
    BY <2>1, JournalledKeeps DEF RecordObject, Journalled
  <2>2. CASE UNCHANGED <<name, directory, litter>>
    BY <2>2, FilesUnchanged DEF RecordObject, IInv, TypeOK
  <2> QED BY <2>1, <2>2 DEF RecordObject
<1>2. /\ pc[p] = "record" /\ pc'[p] = "capture" /\ lock' = p /\ job[p] \in Visible
      /\ put[p] \subseteq Visible /\ put'[p] \subseteq put[p] \cup {job[p]}
  BY DEF RecordObject, Refused, Goto, IInv, TypeOK, ProcessesInOrder, InOrder
<1>3. job[p] \in Object
  BY <1>2 DEF Visible
<1>4. ProcessTypes' /\ (\A q \in Process \ {p} : pc'[q] = pc[q] /\ put'[q] = put[q])
  BY <1>3 DEF RecordObject, Refused, Goto, IInv, TypeOK, ProcessTypes, Places
<1>5. InOrder(p)'
  BY <1>1, <1>2 DEF InOrder, FilesKept
<1>6. rows \subseteq rows' /\ rows' \subseteq Object
  BY <1>3 DEF RecordObject, IInv, TypeOK
<1> QED BY <1>1, <1>2, <1>4, <1>5, <1>6, WorkPreserves DEF RecordObject

\* What a commit refers to was put by this process and not collected since;
\* the commit's own sync makes the names durable.
LEMMA ReferPreserves ==
  ASSUME Ordered, IInv, NEW p \in Process, Refer(p)
  PROVE  Preserved
<1>1. FilesKept /\ FileTypes' /\ \A o \in Visible : directory'[FanOut[o]] = "durable" /\ name'[o] = "durable"
  BY JournalledKeeps DEF Refer, Journalled
<1> PICK S \in SUBSET (put[p] \cap rows) : refs' = refs \cup S
  BY DEF Refer
<1>2. S \subseteq Visible /\ S \subseteq rows /\ pc[p] = "capture"
  BY DEF Refer, IInv, ProcessesInOrder, InOrder
<1>3. \A o \in S : Safe(o)'
  BY <1>1, <1>2 DEF FilesKept, NamedWhenSynced, Safe, Visible
<1>4. ReferencesSurvive'
  BY <1>1, <1>2, <1>3 DEF Refer, IInv, TypeOK, FilesKept, ReferencesSurvive
<1>5. InOrder(p)'
  BY <1>1, <1>2 DEF Refer, procVars, IInv, ProcessesInOrder, InOrder, FilesKept
<1>6. ProcessesInOrder'
  BY <1>2, <1>5, OthersStayOut DEF Refer, procVars
<1>7. TypeOK'
  BY <1>1, <1>2 DEF Refer, procVars, readerVars, IInv, TypeOK, FileTypes
<1>8. Durable!Refer
  BY <1>1, <1>4 DEF Durable!Refer, FilesKept, ReferencesSurvive, IInv, TypeOK
<1> QED BY <1>1, <1>4, <1>6, <1>7, <1>8 DEF Preserved, IInv, Refines, Durable!Next, FilesKept

-----------------------------------------------------------------------------
(* Ends.                                                                   *)

LEMMA ClosePreserves ==
  ASSUME IInv, NEW p \in Process, Close(p) \/ FinishSweep(p)
  PROVE  Preserved
<1>1. Leave(p) /\ pc[p] # "out" /\ UNCHANGED <<fileVars, tableVars, readerVars>>
  BY DEF Close, FinishSweep
<1>2. ProcessTypes' /\ ProcessesInOrder'
  BY <1>1, LeaveKeeps
<1>3. FilesKept /\ FileTypes'
  BY <1>1, FilesUnchanged DEF fileVars, IInv, TypeOK
<1>4. refs \subseteq rows' /\ UNCHANGED refs
  BY <1>1 DEF tableVars, IInv, ReferencesSurvive
<1> QED BY <1>1, <1>2, <1>3, <1>4, PublicationRefines
        DEF Preserved, Refines, Durable!Next, IInv, TypeOK, ProcessTypes, FileTypes, FilesKept, tableVars,
            readerVars

LEMMA CrashPreserves ==
  ASSUME IInv, NEW p \in Process, Crash(p)
  PROVE  Preserved
<1>1. ProcessTypes' /\ ProcessesInOrder'
  BY LeaveKeeps DEF Crash
<1>2. litter' \in [Object -> NameStates \ {"durable"}]
  BY DEF Crash, IInv, TypeOK, NameStates
<1>3. FilesKept /\ FileTypes'
  BY <1>2, FilesUnchanged DEF Crash
<1>4. refs \subseteq rows' /\ UNCHANGED refs
  BY DEF Crash, tableVars, IInv, ReferencesSurvive
<1> QED BY <1>1, <1>3, <1>4, PublicationRefines
        DEF Crash, Preserved, Refines, Durable!Next, IInv, TypeOK, ProcessTypes, FileTypes, FilesKept,
            tableVars, readerVars

\* What is durable is not lost; all else may be.
LEMMA PowerFailurePreserves ==
  ASSUME IInv, PowerFailure
  PROVE  Preserved
<1>1. FileTypes'
  <2>1. directory' \in [Directory -> {"absent", "volatile", "durable"}]
    BY SettledStates DEF PowerFailure, IInv, TypeOK
  <2>2. name' \in [Object -> NameStates] /\ litter' \in [Object -> NameStates \ {"durable"}]
    BY DEF PowerFailure, NameStates
  <2>3. content' \in [Object -> {"torn", "written", "synced"}]
    BY DEF PowerFailure, IInv, TypeOK
  <2> QED BY <2>1, <2>2, <2>3 DEF FileTypes
<1>2. NamedWhenSynced'
  BY DEF PowerFailure, NamedWhenSynced, IInv
<1>3. \A o \in Object : Safe(o) => Safe(o)'
  BY ObjectAssumption, SettledStates DEF PowerFailure, Safe
<1>4. ProcessTypes' /\ ProcessesInOrder'
  BY DEF PowerFailure, ProcessTypes, Places, Drafts, ProcessesInOrder, InOrder
<1>5. UNCHANGED <<refs, rows>>
  BY DEF PowerFailure, tableVars
<1>6. ReferencesSurvive' /\ Durable!Publish
  BY <1>3, <1>5 DEF IInv, ReferencesSurvive, Durable!Publish, TypeOK
<1>7. TypeOK'
  BY <1>1, <1>4 DEF PowerFailure, tableVars, IInv, TypeOK, FileTypes, ProcessTypes
<1> QED BY <1>2, <1>4, <1>6, <1>7 DEF Preserved, IInv, Refines, Durable!Next

-----------------------------------------------------------------------------
(* Collections and readers.                                                *)

\* A published file goes; nothing refers to it, and the process that may have
\* put it is gone.
LEMMA UnlinkPreserves ==
  ASSUME IInv, NEW p \in Process, NEW o \in Object \ refs, Unlinked(o),
         pc[p] \in {"collect", "sweep"}, ProcessTypes', InOrder(p)',
         \A q \in Process \ {p} : pc'[q] = pc[q] /\ put'[q] = put[q],
         UNCHANGED <<directory, content, litter, tableVars, readerVars>>
  PROVE  Preserved
<1>1. /\ name' \in [Object -> NameStates] /\ NamedWhenSynced'
      /\ {b \in Object : Safe(b)'} = {b \in Object : Safe(b)} \ {o}
  BY UnlinkedKeeps
<1>2. ProcessesInOrder'
  BY OthersStayOut
<1>3. ReferencesSurvive'
  BY <1>1 DEF IInv, TypeOK, ReferencesSurvive, tableVars
<1>4. Durable!Collect
  BY <1>1 DEF Durable!Collect, tableVars
<1>5. TypeOK'
  BY <1>1 DEF IInv, TypeOK, ProcessTypes, tableVars, readerVars
<1> QED BY <1>1, <1>2, <1>3, <1>4, <1>5 DEF Preserved, IInv, Refines, Durable!Next

LEMMA DeleteFilePreserves ==
  ASSUME IInv, NEW p \in Process, NEW o \in Object, DeleteFile(p, o)
  PROVE  Preserved
<1>1. ProcessTypes' /\ (\A q \in Process \ {p} : pc'[q] = pc[q] /\ put'[q] = put[q])
  BY DEF DeleteFile, Goto, IInv, TypeOK, ProcessTypes, Places
<1>2. InOrder(p)'
  BY DEF DeleteFile, Goto, tableVars, IInv, TypeOK, ProcessesInOrder, InOrder
<1> QED BY <1>1, <1>2, UnlinkPreserves DEF DeleteFile

LEMMA SweepObjectPreserves ==
  ASSUME IInv, NEW p \in Process, NEW o \in Object, SweepObject(p, o)
  PROVE  Preserved
<1>1. ProcessTypes' /\ (\A q \in Process \ {p} : pc'[q] = pc[q] /\ put'[q] = put[q])
  BY DEF SweepObject, procVars, IInv, TypeOK, ProcessTypes
<1>2. InOrder(p)'
  BY DEF SweepObject, procVars, IInv, TypeOK, ProcessesInOrder, InOrder
<1> QED BY <1>1, <1>2, UnlinkPreserves DEF SweepObject

\* The row goes after the file; it is of no object that is referenced.
LEMMA DeleteRowPreserves ==
  ASSUME Ordered, IInv, NEW p \in Process, DeleteRow(p)
  PROVE  Preserved
<1>1. FilesKept /\ FileTypes'
  BY JournalledKeeps DEF DeleteRow, Journalled
<1>2. ProcessTypes' /\ (\A q \in Process \ {p} : pc'[q] = pc[q] /\ put'[q] = put[q])
  BY DEF DeleteRow, Goto, IInv, TypeOK, ProcessTypes, Places
<1>3. InOrder(p)' /\ job[p] \in Object \ refs /\ pc[p] = "deleting"
  BY DEF DeleteRow, Goto, IInv, TypeOK, ProcessesInOrder, InOrder
<1>4. ProcessesInOrder'
  BY <1>2, <1>3, OthersStayOut
<1>5. TypeOK'
  BY <1>1, <1>2, <1>3 DEF DeleteRow, IInv, TypeOK, ProcessTypes, FileTypes, readerVars
<1>6. refs \subseteq rows'
  BY <1>3 DEF DeleteRow, IInv, ReferencesSurvive
<1> QED BY <1>1, <1>4, <1>5, <1>6, PublicationRefines
        DEF DeleteRow, Preserved, IInv, Refines, Durable!Next, FilesKept

LEMMA SweepPreserves ==
  ASSUME IInv, NEW p \in Process, BeginSweep(p) \/ \E o \in Object : SweepTemporary(p, o)
  PROVE  Preserved
<1>1. litter' \in [Object -> NameStates \ {"durable"}]
  BY DEF BeginSweep, SweepTemporary, fileVars, IInv, TypeOK, NameStates
<1>2. FilesKept /\ FileTypes'
  BY <1>1, FilesUnchanged DEF BeginSweep, SweepTemporary, fileVars
<1>3. ProcessTypes' /\ (\A q \in Process \ {p} : pc'[q] = pc[q] /\ put'[q] = put[q])
  BY DEF BeginSweep, SweepTemporary, Goto, procVars, IInv, TypeOK, ProcessTypes, Places
<1>4. InOrder(p)' /\ pc[p] # "out"
  BY DEF BeginSweep, SweepTemporary, Goto, procVars, IInv, TypeOK, ProcessesInOrder, InOrder
<1> QED BY <1>2, <1>3, <1>4, WorkPreserves
        DEF BeginSweep, SweepTemporary, tableVars, readerVars, IInv, TypeOK

\* Readers hold no lock and change nothing.
LEMMA ReadingPreserves ==
  ASSUME IInv, Reading
  PROVE  Preserved
<1>1. UNCHANGED <<procVars, fileVars, tableVars>> /\ ReaderTypes'
  BY DEF Reading, BeginCheckout, BeginSample, ReadObject, VerifyObject, IInv, TypeOK, ReaderTypes
<1>2. TypeOK'
  BY <1>1 DEF procVars, fileVars, tableVars, IInv, TypeOK, ReaderTypes
<1>3. NamedWhenSynced' /\ ProcessesInOrder' /\ ReferencesSurvive'
  BY <1>1 DEF procVars, fileVars, tableVars, IInv, NamedWhenSynced, ProcessesInOrder, InOrder,
              ReferencesSurvive, Visible, Safe
<1> QED BY <1>1, <1>2, <1>3, UnchangedRefines DEF Preserved, IInv, Refines, fileVars, tableVars

-----------------------------------------------------------------------------
(* The theorems.                                                           *)

LEMMA InitEstablishes ==
  ASSUME Init
  PROVE  IInv /\ Durable!Init
BY ObjectAssumption DEF Init, IInv, TypeOK, NamedWhenSynced, ProcessesInOrder, InOrder,
     ReferencesSurvive, Durable!Init, Safe, Places, Drafts, NameStates

LEMMA StepPreserves ==
  ASSUME Ordered, IInv, [Next]_vars
  PROVE  Preserved
<1>1. CASE UNCHANGED vars
  <2>1. UNCHANGED <<procVars, fileVars, tableVars, readerVars>>
    BY <1>1 DEF vars
  <2>2. TypeOK'
    BY <2>1 DEF procVars, fileVars, tableVars, readerVars, IInv, TypeOK
  <2>3. NamedWhenSynced' /\ ProcessesInOrder' /\ ReferencesSurvive'
    BY <2>1 DEF procVars, fileVars, tableVars, IInv, NamedWhenSynced, ProcessesInOrder, InOrder,
                ReferencesSurvive, Visible, Safe
  <2> QED BY <2>1, <2>2, <2>3, UnchangedRefines DEF Preserved, IInv, Refines, fileVars, tableVars
<1>2. CASE Reading \/ PowerFailure
  BY <1>2, ReadingPreserves, PowerFailurePreserves
<1>3. ASSUME NEW p \in Process,
             (\E work \in {"capture", "collect"} : Open(p, work)) \/ Refer(p) \/ Close(p) \/ Crash(p)
      PROVE  Preserved
  BY <1>3, OpenPreserves, ReferPreserves, ClosePreserves, CrashPreserves
<1>4. ASSUME NEW p \in Process, Publication(p) PROVE Preserved
  BY <1>4, InspectPreserves, DraftPreserves, SyncTempPreserves, LinkPreserves, SyncParentPreserves,
     RemoveTempPreserves, RecordObjectPreserves DEF Publication
<1>5. ASSUME NEW p \in Process, Collection(p) PROVE Preserved
  BY <1>5, DeleteFilePreserves, SweepObjectPreserves, DeleteRowPreserves, SweepPreserves, ClosePreserves
     DEF Collection
<1> QED BY <1>1, <1>2, <1>3, <1>4, <1>5 DEF Next

\* The fields of processes, files, tables and readers keep their types.
THEOREM ObjectsTyped == ASSUME Ordered PROVE Spec => []TypeOK
<1>1. IInv => TypeOK
  BY DEF IInv
<1>2. IInv /\ [Next]_vars => IInv'
  BY StepPreserves DEF Preserved
<1> QED BY <1>1, <1>2, InitEstablishes, PTL DEF Spec

\* put_verified and the commits after it: every object that a committed record
\* refers to is complete and survives any power failure from then on, whatever
\* is collected.
THEOREM ReferencedObjectsSurvive == ASSUME Ordered PROVE Spec => []ReferencesSurvive
<1>1. IInv => ReferencesSurvive
  BY DEF IInv
<1>2. IInv /\ [Next]_vars => IInv'
  BY StepPreserves DEF Preserved
<1> QED BY <1>1, <1>2, InitEstablishes, PTL DEF Spec

\* The store's system calls, transactions, locks and failures are a set of
\* available objects that references never outrun.
THEOREM StoreImplementsDurableObjects == ASSUME Ordered PROVE Spec => ImplementsDurableObjects
<1>1. IInv /\ [Next]_vars => IInv' /\ [Durable!Next]_(Durable!durableVars)
  BY StepPreserves DEF Preserved, Refines
<1> QED BY <1>1, InitEstablishes, PTL DEF Spec, ImplementsDurableObjects, Durable!Spec

\* A reader that holds no lock looks for what was referenced when it began, and
\* a reference is never withdrawn.
ReadersInv == wanted \subseteq refs /\ missed = {}

LEMMA ReadersStep ==
  ASSUME IInv, ReadersInv, [Next]_vars
  PROVE  ReadersInv' /\ missed' = {} /\ (reported' \ reported) \cap refs = {}
<1>1. \A o \in refs : Readable(o)
  BY ObjectAssumption DEF IInv, TypeOK, ReferencesSurvive, Safe, Readable, Visible, Present
<1>2. CASE Reading
  BY <1>1, <1>2 DEF Reading, BeginCheckout, ReadObject, BeginSample, VerifyObject, ReadersInv, tableVars
<1>3. CASE ~Reading
  <2>1. wanted' \subseteq wanted /\ UNCHANGED <<missed, reported>>
    BY <1>3 DEF Next, PowerFailure, Open, Publication, CreateTemp, WriteTemp, SyncTemp, Link, SyncParent,
                RemoveTemp, RecordObject, Inspect, Refer, Close, Collection, DeleteFile, SweepObject,
                SweepTemporary, DeleteRow, BeginSweep, FinishSweep, Crash, readerVars, vars
  <2>2. refs \subseteq refs'
    BY <1>3 DEF Next, PowerFailure, Open, Publication, CreateTemp, WriteTemp, SyncTemp, Link, SyncParent,
                RemoveTemp, RecordObject, Inspect, Refer, Close, Collection, DeleteFile, SweepObject,
                SweepTemporary, DeleteRow, BeginSweep, FinishSweep, Crash, tableVars, vars
  <2> QED BY <2>1, <2>2 DEF ReadersInv
<1> QED BY <1>2, <1>3

\* open_read_only: a checkout finds every object of its manifest, and a doctor
\* reports none that something refers to, with captures and collections at work.
THEOREM ReadersNeedNoLock == ASSUME Ordered PROVE Spec => ReadersFindReferences
<1>1. Init => ReadersInv
  BY DEF Init, ReadersInv
<1>2. IInv /\ [Next]_vars => IInv'
  BY StepPreserves DEF Preserved
<1>3. IInv /\ ReadersInv /\ [Next]_vars =>
        ReadersInv' /\ [missed' = {} /\ (reported' \ reported) \cap refs = {}]_vars
  BY ReadersStep
<1> QED BY <1>1, <1>2, <1>3, InitEstablishes, PTL DEF Spec, ReadersFindReferences
=============================================================================
