------------------------------ MODULE ObjectStore ------------------------------
(***************************************************************************)
(* The content-addressed half of the store (crates/rewind-store/object.rs, *)
(* maintenance.rs, lock.rs): the system calls that publish an object, the  *)
(* row that indexes it, the records that refer to it, its collection, and  *)
(* readers that hold no lock.                                              *)
(*                                                                         *)
(* A name in a directory is "absent", "volatile" (made but not yet         *)
(* synchronised), "durable", or "removed" (unlinked but not yet            *)
(* synchronised).  A power failure keeps or drops what is volatile or      *)
(* removed, at will; a process failure keeps everything.  SQLite           *)
(* transactions are atomic and durable (synchronous = FULL).               *)
(*                                                                         *)
(* Objects and their bytes are one: an ObjectId is the digest of them.     *)
(***************************************************************************)
EXTENDS Naturals

CONSTANTS Process, Object, Directory, None,
          FanOut,     \* object -> the directory that holds it
          Faulty,     \* system calls that may fail in an instance
          PowerFails, \* whether the power may fail
          Ordered     \* whether a sync makes all earlier name changes durable,
                      \* as on a journalling file system, or only those of the
                      \* directory it is applied to, as POSIX has it

ASSUME ObjectAssumption ==
  /\ None \notin Process \cup Object
  /\ FanOut \in [Object -> Directory]
  /\ PowerFails \in BOOLEAN /\ Ordered \in BOOLEAN

VARIABLES lock,     \* the process that holds writer.lock, or None
          pc,       \* process -> where it is
          job,      \* process -> the object it publishes or deletes, or None
          draft,    \* process -> its temporary file: "none" or what is in it
          put,      \* process -> objects it has put since it opened the store
          directory,\* directory -> state of its name
          name,     \* object -> state of its final name
          content,  \* object -> what the file of that name holds
          litter,   \* object -> state of temporary files left by dead processes
          rows,     \* table objects
          refs,     \* objects that committed snapshots and events refer to
          wanted,   \* a checkout: referenced objects it has yet to read,
          missed,   \*   and those it did not find
          sampled,  \* a doctor: indexed objects it has yet to verify,
          reported  \*   and those it reported as corrupt

procVars   == <<lock, pc, job, draft, put>>
fileVars   == <<directory, name, content, litter>>
tableVars  == <<rows, refs>>
readerVars == <<wanted, missed, sampled, reported>>
vars == <<procVars, fileVars, tableVars, readerVars>>

NameStates == {"absent", "volatile", "durable", "removed"}
Drafts     == {"none", "empty", "written", "synced"}
Places     == {"out", "capture", "create", "write", "sync", "link", "syncdir", "cleanup",
               "fail", "record", "collect", "deleting", "sweep"}

Present == {"volatile", "durable"}
Visible == {o \in Object : directory[FanOut[o]] \in Present /\ name[o] \in Present}

\* The bytes are complete and survive any power failure.
Safe(o) == directory[FanOut[o]] = "durable" /\ name[o] = "durable" /\ content[o] = "synced"

TypeOK ==
  /\ lock \in Process \cup {None}
  /\ pc \in [Process -> Places]
  /\ job \in [Process -> Object \cup {None}]
  /\ draft \in [Process -> Drafts]
  /\ put \in [Process -> SUBSET Object]
  /\ directory \in [Directory -> {"absent", "volatile", "durable"}]
  /\ name \in [Object -> NameStates]
  /\ content \in [Object -> {"torn", "written", "synced"}]
  /\ litter \in [Object -> NameStates \ {"durable"}]
  /\ rows \subseteq Object /\ refs \subseteq Object
  /\ wanted \subseteq Object /\ missed \subseteq Object
  /\ sampled \subseteq Object /\ reported \subseteq Object

Init ==
  /\ lock = None
  /\ pc = [p \in Process |-> "out"]
  /\ job = [p \in Process |-> None]
  /\ draft = [p \in Process |-> "none"]
  /\ put = [p \in Process |-> {}]
  /\ directory = [d \in Directory |-> "absent"]
  /\ name = [o \in Object |-> "absent"]
  /\ content = [o \in Object |-> "torn"]
  /\ litter = [o \in Object |-> "absent"]
  /\ rows = {} /\ refs = {}
  /\ wanted = {} /\ missed = {} /\ sampled = {} /\ reported = {}

Goto(p, place) == pc' = [pc EXCEPT ![p] = place]

-----------------------------------------------------------------------------
(* The file system.                                                        *)

Settled(state) == CASE state = "volatile" -> "durable"
                    [] state = "removed"  -> "absent"
                    [] OTHER -> state

\* The names as they are after a sync that covers the objects in S.
Synced(S) == [o \in Object |-> IF o \in S \/ Ordered THEN Settled(name[o]) ELSE name[o]]

DirectoriesSynced == IF Ordered THEN [d \in Directory |-> Settled(directory[d])] ELSE directory

LitterSynced == IF Ordered THEN [o \in Object |-> IF litter[o] = "removed" THEN "absent"
                                                  ELSE litter[o]] ELSE litter

\* What the sync of a commit or of a file does to names.
Journalled ==
  /\ name' = Synced({})
  /\ directory' = DirectoriesSynced
  /\ litter' = LitterSynced

-----------------------------------------------------------------------------
(* The writer lock: flock, which the kernel drops with the process.        *)

\* Mutant: the lock is only advice.
Open_Unlocked(p, work) ==
  /\ pc[p] = "out"
  /\ lock' = p
  /\ Goto(p, work)
  /\ UNCHANGED <<job, draft, put, fileVars, tableVars, readerVars>>

\* Store::open, for a capture or for a collection.  A held lock is an error.
Open(p, work) ==
  /\ pc[p] = "out" /\ lock = None
  /\ lock' = p
  /\ Goto(p, work)
  /\ UNCHANGED <<job, draft, put, fileVars, tableVars, readerVars>>

Leave(p) ==
  /\ lock' = IF lock = p THEN None ELSE lock
  /\ Goto(p, "out")
  /\ job' = [job EXCEPT ![p] = None]
  /\ draft' = [draft EXCEPT ![p] = "none"]
  /\ put' = [put EXCEPT ![p] = {}]

Close(p) ==
  /\ pc[p] = "capture"
  /\ Leave(p)
  /\ UNCHANGED <<fileVars, tableVars, readerVars>>

\* A temporary file of a dead process stays where it was.
Crash(p) ==
  /\ pc[p] # "out"
  /\ Leave(p)
  /\ litter' = IF draft[p] = "none" THEN litter ELSE [litter EXCEPT ![job[p]] = "volatile"]
  /\ UNCHANGED <<directory, name, content, tableVars, readerVars>>

\* Volatile and removed names are kept or dropped; unsynchronised bytes may be
\* lost; every process is gone.
PowerFailure ==
  /\ PowerFails
  /\ \E lostDirs \in SUBSET {d \in Directory : directory[d] = "volatile"},
        gone \in SUBSET {o \in Object : name[o] \in {"volatile", "removed"}},
        torn \in SUBSET {o \in Object : content[o] = "written"},
        kept \in SUBSET ({o \in Object : litter[o] # "absent"}
                         \cup {job[p] : p \in {q \in Process : draft[q] # "none"}}) :
       LET alive(o) == FanOut[o] \notin lostDirs /\ o \notin gone IN
       /\ directory' = [d \in Directory |->
                          IF d \in lostDirs THEN "absent" ELSE Settled(directory[d])]
       /\ name' = [o \in Object |-> IF name[o] # "absent" /\ alive(o) THEN "durable" ELSE "absent"]
       /\ content' = [o \in Object |-> IF o \in torn THEN "torn"
                                       ELSE IF content[o] = "written" THEN "synced"
                                       ELSE content[o]]
       /\ litter' = [o \in Object |-> IF o \in kept /\ FanOut[o] \notin lostDirs
                                      THEN "volatile" ELSE "absent"]
  /\ lock' = None
  /\ pc' = [p \in Process |-> "out"]
  /\ job' = [p \in Process |-> None]
  /\ draft' = [p \in Process |-> "none"]
  /\ put' = [p \in Process |-> {}]
  /\ wanted' = {} /\ sampled' = {}
  /\ UNCHANGED <<missed, reported, tableVars>>

-----------------------------------------------------------------------------
(* Publication: ObjectStore::put_verified and Store::record_object.        *)

Fails(call) == call \in Faulty

Readable(o) == o \in Visible /\ content[o] # "torn"

MakeDirectory(d) ==
  directory' = IF directory[d] = "absent" THEN [directory EXCEPT ![d] = "volatile"] ELSE directory

\* Make the fan-out directory and look for the final name.  An object that is
\* there is read and compared; it is accepted as it is, without a sync.
Inspect(p, o) ==
  /\ pc[p] = "capture"
  /\ MakeDirectory(FanOut[o])
  /\ IF o \notin Visible THEN Goto(p, "create") /\ job' = [job EXCEPT ![p] = o]
     ELSE IF Readable(o) THEN Goto(p, "record") /\ job' = [job EXCEPT ![p] = o]
     ELSE UNCHANGED <<pc, job>>
  /\ UNCHANGED <<lock, draft, put, name, content, litter, tableVars, readerVars>>

\* The put fails before or after its temporary file exists.
Refused(p) == Goto(p, "capture") /\ job' = [job EXCEPT ![p] = None]

\* Mutant: the temporary file is linked first and written through its new name.
CreateTemp_Links(p) ==
  /\ pc[p] = "create"
  /\ \/ Goto(p, "link") /\ draft' = [draft EXCEPT ![p] = "empty"] /\ UNCHANGED job
     \/ Fails("create") /\ Refused(p) /\ UNCHANGED draft
  /\ UNCHANGED <<lock, put, fileVars, tableVars, readerVars>>

CreateTemp(p) ==
  /\ pc[p] = "create"
  /\ \/ Goto(p, "write") /\ draft' = [draft EXCEPT ![p] = "empty"] /\ UNCHANGED job
     \/ Fails("create") /\ Refused(p) /\ UNCHANGED draft
  /\ UNCHANGED <<lock, put, fileVars, tableVars, readerVars>>

WriteTemp(p) ==
  /\ pc[p] = "write"
  /\ \/ Goto(p, "sync") /\ draft' = [draft EXCEPT ![p] = "written"]
     \/ Fails("write") /\ Goto(p, "fail") /\ UNCHANGED draft
  /\ UNCHANGED <<lock, job, put, fileVars, tableVars, readerVars>>

\* Mutant: the temporary file is linked before its bytes are on disk.
SyncTemp_Skipped(p) ==
  /\ pc[p] = "sync"
  /\ Goto(p, "link")
  /\ UNCHANGED <<lock, job, draft, put, fileVars, tableVars, readerVars>>

SyncTemp(p) ==
  /\ pc[p] = "sync"
  /\ \/ Goto(p, "link") /\ draft' = [draft EXCEPT ![p] = "synced"] /\ Journalled
     \/ Fails("sync") /\ Goto(p, "fail") /\ UNCHANGED <<draft, name, directory, litter>>
  /\ UNCHANGED <<lock, job, put, content, tableVars, readerVars>>

\* hard_link; a name that exists already is verified and kept.
Link(p) ==
  /\ pc[p] = "link"
  /\ \/ /\ job[p] \notin Visible
        /\ name' = [name EXCEPT ![job[p]] = "volatile"]
        /\ content' = [content EXCEPT ![job[p]] = draft[p]]
        /\ Goto(p, "syncdir")
     \/ Fails("link") /\ Goto(p, "fail") /\ UNCHANGED <<name, content>>
  /\ UNCHANGED <<lock, job, draft, put, directory, litter, tableVars, readerVars>>

SyncParent(p) ==
  /\ pc[p] = "syncdir"
  /\ \/ /\ name' = Synced({o \in Object : FanOut[o] = FanOut[job[p]]})
        /\ directory' = DirectoriesSynced /\ litter' = LitterSynced
        /\ Goto(p, "cleanup")
     \/ Fails("syncdir") /\ Goto(p, "fail") /\ UNCHANGED <<name, directory, litter>>
  /\ UNCHANGED <<lock, job, draft, put, content, tableVars, readerVars>>

\* The temporary name goes, whether the installation worked or not; only after
\* a successful one is a failure of this an error of its own.
RemoveTemp(p) ==
  /\ pc[p] \in {"cleanup", "fail"}
  /\ \/ /\ litter' = [litter EXCEPT ![job[p]] = IF @ = "volatile" THEN @ ELSE "removed"]
        /\ IF pc[p] = "cleanup" THEN Goto(p, "record") /\ UNCHANGED job ELSE Refused(p)
     \/ /\ Fails("unlink")
        /\ litter' = [litter EXCEPT ![job[p]] = "volatile"]
        /\ Refused(p)
  /\ draft' = [draft EXCEPT ![p] = "none"]
  /\ UNCHANGED <<lock, put, directory, name, content, tableVars, readerVars>>

\* The row is inserted unless it exists, in which case nothing is written.
RecordObject(p) ==
  /\ pc[p] = "record"
  /\ \/ /\ rows' = rows \cup {job[p]}
        /\ put' = [put EXCEPT ![p] = @ \cup {job[p]}]
        /\ IF job[p] \in rows THEN UNCHANGED <<name, directory, litter>> ELSE Journalled
     \/ Fails("record") /\ UNCHANGED <<rows, put, name, directory, litter>>
  /\ Refused(p)
  /\ UNCHANGED <<lock, draft, content, refs, readerVars>>

\* Mutant: a checkpoint refers to objects this process has not put.
Refer_AnyRow(p) ==
  /\ pc[p] = "capture"
  /\ \E S \in SUBSET rows \ {{}} : refs' = refs \cup S
  /\ Journalled
  /\ UNCHANGED <<procVars, content, rows, readerVars>>

\* A checkpoint or an event batch commits references to objects that were put
\* for it; the transaction checks that they are indexed.
Refer(p) ==
  /\ pc[p] = "capture"
  /\ \E S \in SUBSET (put[p] \cap rows) \ {{}} : refs' = refs \cup S
  /\ Journalled
  /\ UNCHANGED <<procVars, content, rows, readerVars>>

-----------------------------------------------------------------------------
(* Collection: Store::delete_object, delete_physical_orphan, `rewind gc`.  *)
(* An error ends the process, with the effect of Crash.                    *)

Unlinked(o) ==
  IF o \in Visible THEN name' = [name EXCEPT ![o] = "removed"] ELSE UNCHANGED name

\* Mutant: reachability is not asked for again before the deletion.
DeleteFile_Unchecked(p, o) ==
  /\ pc[p] = "collect" /\ o \in rows
  /\ Unlinked(o)
  /\ job' = [job EXCEPT ![p] = o] /\ Goto(p, "deleting")
  /\ UNCHANGED <<lock, draft, put, directory, content, litter, tableVars, readerVars>>

DeleteFile(p, o) ==
  /\ pc[p] = "collect" /\ o \in rows \ refs
  /\ Unlinked(o)
  /\ job' = [job EXCEPT ![p] = o] /\ Goto(p, "deleting")
  /\ UNCHANGED <<lock, draft, put, directory, content, litter, tableVars, readerVars>>

DeleteRow(p) ==
  /\ pc[p] = "deleting"
  /\ rows' = rows \ {job[p]}
  /\ job' = [job EXCEPT ![p] = None] /\ Goto(p, "collect")
  /\ Journalled
  /\ UNCHANGED <<lock, draft, put, content, refs, readerVars>>

BeginSweep(p) ==
  /\ pc[p] = "collect" /\ rows \subseteq refs
  /\ Goto(p, "sweep")
  /\ UNCHANGED <<lock, job, draft, put, fileVars, tableVars, readerVars>>

\* Published files without a row; one that is referenced would end the sweep.
SweepObject(p, o) ==
  /\ pc[p] = "sweep" /\ o \in Visible \ (rows \cup refs)
  /\ Unlinked(o)
  /\ UNCHANGED <<procVars, directory, content, litter, tableVars, readerVars>>

SweepTemporary(p, o) ==
  /\ pc[p] = "sweep" /\ litter[o] = "volatile"
  /\ litter' = [litter EXCEPT ![o] = "removed"]
  /\ UNCHANGED <<procVars, directory, name, content, tableVars, readerVars>>

FinishSweep(p) ==
  /\ pc[p] = "sweep"
  /\ Visible \subseteq rows /\ \A o \in Object : litter[o] # "volatile"
  /\ Leave(p)
  /\ UNCHANGED <<fileVars, tableVars, readerVars>>

-----------------------------------------------------------------------------
(* Readers: open_read_only takes no lock.                                  *)

\* A checkout reads a manifest, then each of its objects.
BeginCheckout ==
  /\ wanted = {} /\ refs # {}
  /\ wanted' = refs
  /\ UNCHANGED <<procVars, fileVars, tableVars, missed, sampled, reported>>

ReadObject(o) ==
  /\ o \in wanted
  /\ wanted' = wanted \ {o}
  /\ missed' = IF Readable(o) THEN missed ELSE missed \cup {o}
  /\ UNCHANGED <<procVars, fileVars, tableVars, sampled, reported>>

\* sample_object_corruption reads a page of rows, then verifies each file.
BeginSample ==
  /\ sampled = {} /\ rows # {}
  /\ sampled' = rows
  /\ UNCHANGED <<procVars, fileVars, tableVars, wanted, missed, reported>>

VerifyObject(o) ==
  /\ o \in sampled
  /\ sampled' = sampled \ {o}
  /\ reported' = IF Readable(o) THEN reported ELSE reported \cup {o}
  /\ UNCHANGED <<procVars, fileVars, tableVars, wanted, missed>>

-----------------------------------------------------------------------------
Publication(p) ==
  \/ CreateTemp(p) \/ WriteTemp(p) \/ SyncTemp(p) \/ Link(p) \/ SyncParent(p)
  \/ RemoveTemp(p) \/ RecordObject(p) \/ \E o \in Object : Inspect(p, o)

Collection(p) ==
  \/ \E o \in Object : DeleteFile(p, o) \/ SweepObject(p, o) \/ SweepTemporary(p, o)
  \/ DeleteRow(p) \/ BeginSweep(p) \/ FinishSweep(p)

Reading == BeginCheckout \/ BeginSample \/ \E o \in Object : ReadObject(o) \/ VerifyObject(o)

Next ==
  \/ \E p \in Process :
       \/ \E work \in {"capture", "collect"} : Open(p, work)
       \/ Publication(p) \/ Refer(p) \/ Close(p) \/ Collection(p) \/ Crash(p)
  \/ Reading
  \/ PowerFailure

Spec == Init /\ [][Next]_vars

-----------------------------------------------------------------------------
(* Properties.                                                             *)

\* What committed snapshots and events refer to is indexed and can be read, and
\* can still be read after a power failure: publication precedes the reference,
\* a collection removes only what is not referenced, and no sweep of files
\* without a row meets, or ends on, one that is.
ReferencesSurvive == refs \subseteq rows /\ \A o \in refs : Safe(o)

\* The same when only processes fail: the bytes are there.
ReferencesReadable == \A o \in refs : Readable(o)

\* Readers hold no lock, yet a checkout finds every object of its manifest and
\* a doctor reports no object as corrupt that something refers to, however
\* captures and collections interleave with them.  (An object that nothing
\* refers to may be reported, when it is collected under the doctor's eyes.)
ReadersFindReferences == [][missed' = {} /\ (reported' \ reported) \cap refs = {}]_vars

\* Files, rows, locks, crashes and collections together behave as a set of
\* available objects that references never outrun.
Durable == INSTANCE DurableObjects
             WITH available <- {o \in Object : Safe(o)}, referenced <- refs
ImplementsDurableObjects == Durable!Spec
=============================================================================
