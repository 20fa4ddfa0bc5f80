----------------------------- MODULE Comparison -----------------------------
(***************************************************************************)
(* `rewind compare` (rewind-cli/compare.rs): the final snapshots of two    *)
(* runs are merged path by path (rewind-snapshot/diff.rs), the changes are *)
(* turned into evidence that the report validates (rewind-domain/          *)
(* comparison.rs), and the runs' ancestry is searched for their relation.  *)
(*                                                                         *)
(* The evaluation command that can be run in both snapshots is left out.   *)
(***************************************************************************)
EXTENDS Naturals, Sequences, FiniteSets

CONSTANTS MaxPath,  \* paths are 1..MaxPath, in their canonical order
          Entries,  \* records [type, content, executable, permissions]
          MaxRun    \* runs are 1..MaxRun, a fork after its parent

Paths == 1..MaxPath
Runs  == 1..MaxRun
NoRun  == 0

\* What the constants must be.
ComparisonAssumption ==
  /\ MaxPath \in Nat /\ MaxRun \in Nat \ {0}
  /\ \A e \in Entries :
       /\ e = [type |-> e.type, content |-> e.content, executable |-> e.executable,
               permissions |-> e.permissions]
       /\ e.executable \in BOOLEAN /\ (e.type # "file" => ~e.executable)

VARIABLES left, right,          \* the manifests: path -> entry
          leftRest, rightRest,  \* what the merge has not passed
          changes,              \* the differences found so far
          pair, parent,         \* the runs compared, run -> parent
          concluded,            \* which of the two have a final snapshot
          stage, relation       \* where it is; the relation found

vars == <<left, right, leftRest, rightRest, changes, pair, parent, concluded, stage, relation>>

Least(S) == CHOOSE i \in S : \A j \in S : i <= j

\* Two manifests of any entries, or two runs of any ancestry.  A run still
\* recorded, and one that recovery closed, has no final snapshot.
Init ==
  /\ left  \in UNION {[S -> Entries] : S \in SUBSET Paths}
  /\ right \in UNION {[S -> Entries] : S \in SUBSET Paths}
  /\ pair \in Runs \X Runs /\ parent \in [Runs -> Runs \cup {NoRun}]
  /\ \A r \in Runs : parent[r] < r
  /\ concluded \in SUBSET {pair[1], pair[2]}
  /\ \/ DOMAIN left = {} /\ DOMAIN right = {}
     \/ pair = <<1, 2>> /\ concluded = {1, 2} /\ \A r \in Runs : parent[r] = NoRun
  /\ leftRest = DOMAIN left /\ rightRest = DOMAIN right /\ changes = <<>>
  /\ stage = "start" /\ relation = [kind |-> "unknown", run |-> NoRun]

-----------------------------------------------------------------------------
(* The relation of the runs comes first, from their rows alone.            *)

\* A run and those it descends from, nearest first.
Ancestors ==
  LET A[r \in Runs] == <<r>> \o (IF parent[r] = NoRun THEN <<>> ELSE A[parent[r]]) IN A

Relationship(l, r) ==
  LET shared == {k \in DOMAIN Ancestors[l] : \E m \in DOMAIN Ancestors[r] :
                                               Ancestors[r][m] = Ancestors[l][k]}
  IN CASE l = r         -> [kind |-> "same", run |-> l]
       [] parent[r] = l -> [kind |-> "left is parent", run |-> l]
       [] parent[l] = r /\ parent[r] # l -> [kind |-> "right is parent", run |-> r]
       [] OTHER -> IF shared = {} THEN [kind |-> "unrelated", run |-> NoRun]
                   ELSE [kind |-> "common ancestor", run |-> Ancestors[l][Least(shared)]]

\* A run without a final snapshot has nothing to compare.
Resolve ==
  /\ stage = "start"
  /\ relation' = Relationship(pair[1], pair[2])
  /\ stage' = IF {pair[1], pair[2]} \subseteq concluded THEN "merge" ELSE "refused"
  /\ UNCHANGED <<left, right, leftRest, rightRest, changes, pair, parent, concluded>>

-----------------------------------------------------------------------------
(* diff_snapshots.                                                         *)

Found(kind, path) == changes' = Append(changes, [kind |-> kind, path |-> path])

Removed ==
  /\ stage = "merge" /\ leftRest # {}
  /\ rightRest # {} => Least(leftRest) < Least(rightRest)
  /\ Found("removed", Least(leftRest)) /\ leftRest' = leftRest \ {Least(leftRest)}
  /\ UNCHANGED <<left, right, rightRest, pair, parent, concluded, stage, relation>>

Added ==
  /\ stage = "merge" /\ rightRest # {}
  /\ leftRest # {} => Least(rightRest) < Least(leftRest)
  /\ Found("added", Least(rightRest)) /\ rightRest' = rightRest \ {Least(rightRest)}
  /\ UNCHANGED <<left, right, leftRest, pair, parent, concluded, stage, relation>>

Both ==
  /\ stage = "merge" /\ leftRest # {} /\ rightRest # {}
  /\ Least(leftRest) = Least(rightRest)
  /\ LET path == Least(leftRest)
     IN /\ IF left[path] # right[path] THEN Found("modified", path) ELSE UNCHANGED changes
        /\ leftRest' = leftRest \ {path} /\ rightRest' = rightRest \ {path}
  /\ UNCHANGED <<left, right, pair, parent, concluded, stage, relation>>

-----------------------------------------------------------------------------
(* The report.                                                             *)

ContentIdentity(e) == <<e.type, e.content>>

\* Mutant: a change of permissions is no evidence.
Evidence_NoPermissions(before, after) ==
  \/ ContentIdentity(before) # ContentIdentity(after)
  \/ before.type # after.type
  \/ before.type = "file" /\ after.type = "file" /\ before.executable # after.executable

\* A modification shows content, a type, an executable bit or permissions that
\* are not what they were.
Evidence(before, after) ==
  \/ ContentIdentity(before) # ContentIdentity(after)
  \/ before.type # after.type
  \/ before.type = "file" /\ after.type = "file" /\ before.executable # after.executable
  \/ before.permissions # after.permissions

\* from_canonical_parts.
Valid ==
  \A k \in DOMAIN changes :
    /\ changes[k].kind = "modified" => Evidence(left[changes[k].path], right[changes[k].path])
    /\ k > 1 => changes[k - 1].path < changes[k].path

Report ==
  /\ stage = "merge" /\ leftRest = {} /\ rightRest = {}
  /\ stage' = IF Valid THEN "done" ELSE "invalid"
  /\ UNCHANGED <<left, right, leftRest, rightRest, changes, pair, parent, concluded, relation>>

Next == Resolve \/ Removed \/ Added \/ Both \/ Report

Spec == Init /\ [][Next]_vars

-----------------------------------------------------------------------------
(* What the report should say, from the manifests and the ancestry alone.  *)

Differ == {p \in Paths : \/ (p \in DOMAIN left) # (p \in DOMAIN right)
                         \/ p \in DOMAIN left /\ p \in DOMAIN right /\ left[p] # right[p]}

ChangeOf(p) == IF p \notin DOMAIN right THEN "removed"
               ELSE IF p \notin DOMAIN left THEN "added" ELSE "modified"

\* r descends from a, or is a: the least set closed under children.
Line(a, r) == \A S \in SUBSET Runs : a \in S /\ (\A c \in Runs : parent[c] \in S => c \in S) => r \in S

Common == {a \in Runs : Line(a, pair[1]) /\ Line(a, pair[2])}

\* Two runs are compared when both have a final snapshot and refused when one has
\* none: the report's own validation never refuses what the merge found.  Its
\* changes are exactly the paths that differ, once and in order, and the run it
\* names as the relation is the common ancestor that descends from all others.
ComparesExactly ==
  /\ stage # "invalid"
  /\ stage = "refused" => \E k \in 1..2 : pair[k] \notin concluded
  /\ stage \in {"merge", "done"} => \A k \in 1..2 : pair[k] \in concluded
  /\ stage = "done" =>
       /\ {changes[k] : k \in DOMAIN changes} = {[kind |-> ChangeOf(p), path |-> p] : p \in Differ}
       /\ Len(changes) = Cardinality(Differ)
       /\ \A k \in DOMAIN changes : k > 1 => changes[k - 1].path < changes[k].path
       /\ IF Common = {} THEN relation.kind = "unrelated"
          ELSE relation.run \in Common /\ \A a \in Common : Line(a, relation.run)
=============================================================================
