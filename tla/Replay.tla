------------------------------- MODULE Replay -------------------------------
(***************************************************************************)
(* The model behind the replay interface (crates/rewind-tui: model.rs,     *)
(* lib.rs): a cursor over pages of a stored timeline, playback, and what   *)
(* the terminal, process and workspace panes show for the selected event,  *)
(* while the run's recorder may still append.                              *)
(*                                                                         *)
(* An event is its sequence number.  The keys that only choose a pane, a   *)
(* scroll position or a speed, and all drawing, are left out; the run has  *)
(* its initial snapshot.                                                   *)
(***************************************************************************)
EXTENDS Naturals, Sequences, FiniteSets, FiniteSetsExt

CONSTANTS Recorded,   \* sequence number -> event, for the whole run
          Process,    \* processes the run observes
          None,
          Size,       \* terminal object -> bytes
          PageSize,   \* TIMELINE_PAGE_SIZE
          TickSteps,  \* events that one tick plays at most
          Differing,  \* checkpoint or None -> its changes since the initial snapshot
          MaxChanges, \* MAX_WORKSPACE_CHANGES
          Capacity    \* bytes of the terminal cache, and of the view

\* An event is a record [kind, offset, about]: of kind "output", about an
\* object, "seen" or "gone", about a process, "checkpoint" or "other".
\* What the constants must be.
ReplayAssumption ==
  /\ PageSize \in Nat \ {0, 1} /\ TickSteps \in Nat \ {0} /\ Capacity \in Nat \ {0}
  /\ MaxChanges \in Nat \ {0} /\ Differing[None] = <<>> /\ IsFiniteSet(Process)
  /\ None \notin Nat \cup [from : Nat, to : Nat, more : BOOLEAN]
  /\ Recorded \in Seq({Recorded[i] : i \in DOMAIN Recorded})
  /\ \A i, j \in DOMAIN Recorded : i <= j => Recorded[i].offset <= Recorded[j].offset
  /\ \A i \in DOMAIN Recorded :
       /\ Recorded[i].offset \in Nat
       /\ Recorded[i].kind = "output" => Recorded[i].about \in DOMAIN Size
       /\ Recorded[i].kind = "checkpoint" =>
            Differing[i] \in Seq({Differing[i][k] : k \in DOMAIN Differing[i]})
  /\ Size \in [DOMAIN Size -> Nat]

VARIABLES stored,      \* events in the store
          checkpoints, \* sequence numbers of the checkpoints that were loaded
          view,        \* the cursor: page, selection, page fetched ahead, processes met,
                       \* and the line of the process pane, from 0
          playing, target, \* playback, and the offset it has reached
          pane,        \* the workspace pane: its checkpoint, changes, line and preview
          cache,       \* terminal objects in memory, least recently used first
          terminal     \* outputs on display, and whether they are marked as cut off

vars == <<stored, checkpoints, view, playing, target, pane, cache, terminal>>

Events == 1..Len(Recorded)
Kind(i) == Recorded[i].kind
Offset(i) == Recorded[i].offset
About(i) == Recorded[i].about

Least(S)    == CHOOSE i \in S : \A j \in S : i <= j
Greatest(S) == CHOOSE i \in S : \A j \in S : j <= i
Lesser(i, j) == IF i < j THEN i ELSE j
Minus(i, j)  == IF i < j THEN 0 ELSE i - j

-----------------------------------------------------------------------------
(* Pages.                                                                  *)

\* Store::load_timeline: the events after a cursor, and whether there are more.
LoadTimeline(after) ==
  [from |-> after + 1, to |-> Lesser(after + PageSize, stored), more |-> stored > after + PageSize]

IsEmpty(page) == page.to < page.from

\* visible_processes: those met that were first seen by the selected event.
Observed(v) == {p \in Process : v.first[p] # None /\ v.first[p] <= v.at}

\* ingest_current_page: the processes of a page join those met before; an exit
\* counts only for a process that was met.  The line stays on a visible one.
Ingest(v) ==
  LET Met(p, kind) == {i \in v.page.from..v.page.to : Kind(i) = kind /\ About(i) = p}
      first == [p \in Process |->
                  IF v.first[p] # None \/ Met(p, "seen") = {} THEN v.first[p]
                  ELSE Least(Met(p, "seen"))]
      exits(p) == {i \in Met(p, "gone") : v.first[p] # None \/ \E j \in Met(p, "seen") : j < i}
      w == [v EXCEPT !.first = first,
                     !.gone  = [p \in Process |->
                                  IF exits(p) = {} THEN v.gone[p] ELSE Greatest(exits(p))]]
  IN [w EXCEPT !.line = Lesser(v.line, Minus(Cardinality(Observed(w)), 1))]

ReplacePage(v, page, selected) ==
  Ingest([v EXCEPT !.page = page, !.at = selected])

\* peek_next_offset fetches the page after the last event of this one.
PeekNext(v) ==
  IF v.at < v.page.to \/ ~v.page.more \/ v.ahead # None THEN v
  ELSE LET page == LoadTimeline(v.page.to)
       IN IF IsEmpty(page) THEN [v EXCEPT !.page.more = FALSE] ELSE [v EXCEPT !.ahead = page]

HasNext(v) == v.at < v.page.to \/ v.page.more

\* step_next_raw: to the next event of the page, or to the next page.
StepNext(v) ==
  IF v.at < v.page.to THEN [v EXCEPT !.at = v.at + 1]
  ELSE LET w == PeekNext(v)
       IN IF ~w.page.more THEN w
          ELSE ReplacePage([w EXCEPT !.ahead = None], w.ahead, w.ahead.from)

\* Mutant: the page that was fetched ahead is kept.
StepPrevious_KeepsAhead(v) ==
  IF v.at > v.page.from THEN [v EXCEPT !.at = v.at - 1]
  ELSE IF v.page.from = 1 THEN v
  ELSE LET page == LoadTimeline(Minus(v.page.from - 1, PageSize))
       IN ReplacePage(v, page, v.page.from - 1)

\* step_previous_raw: the page that ends with the event before this page's.
StepPrevious(v) ==
  IF v.at > v.page.from THEN [v EXCEPT !.at = v.at - 1]
  ELSE IF v.page.from = 1 THEN v
  ELSE LET page == LoadTimeline(Minus(v.page.from - 1, PageSize))
       IN ReplacePage([v EXCEPT !.ahead = None], page, v.page.from - 1)

\* jump_to: a page with the event in its middle.
JumpTo(v, i) ==
  LET page == LoadTimeline(Minus(i, PageSize \div 2 + 1))
  IN ReplacePage([v EXCEPT !.ahead = None], page,
                 IF i \in page.from..page.to THEN i ELSE page.from)

-----------------------------------------------------------------------------
(* The panes.                                                              *)

\* The checkpoint that the selected event is at or after.
CheckpointAt(i) == LET S == {c \in checkpoints : c <= i} IN IF S = {} THEN None ELSE Greatest(S)

Unloaded(c) ==
  [checkpoint |-> c, loaded |-> FALSE, changes |-> <<>>, line |-> 1, preview |-> None]

\* workspace_preview of a line, if there is one.
Preview(changes, line) == IF line \in DOMAIN changes THEN changes[line] ELSE None

\* load_workspace: the changes between the initial and the selected snapshot.
LoadedWorkspace(c) ==
  LET changes == SubSeq(Differing[c], 1, Lesser(MaxChanges, Len(Differing[c])))
  IN [checkpoint |-> c, loaded |-> TRUE, changes |-> changes, line |-> 1,
      preview |-> Preview(changes, 1)]

\* sync_checkpoint unloads the workspace of another checkpoint.
Synced(v) == IF pane.checkpoint = CheckpointAt(v.at) THEN pane ELSE Unloaded(CheckpointAt(v.at))

Outputs(v) == {i \in v.page.from..v.at : Kind(i) = "output"}

Bytes(S) == MapThenSumSet(LAMBDA i : Size[About(i)], S)

\* The newest outputs that fit, going back from the selected event.
Fitting(v) == {i \in Outputs(v) : Bytes({j \in Outputs(v) : j >= i}) <= Capacity}

Held(objects) == LET R[i \in 0..Len(objects)] == IF i = 0 THEN 0 ELSE R[i - 1] + Size[objects[i]]
                 IN R[Len(objects)]

\* ObjectCache::insert evicts the least recently used objects.
Evict(objects, bytes) ==
  LET Kept(k) == SubSeq(objects, k + 1, Len(objects))
  IN Kept(Least({k \in 0..Len(objects) : k = Len(objects) \/ Held(Kept(k)) + bytes <= Capacity}))

\* ObjectCache::touch makes an object that is there the newest.
Touch(objects, o) ==
  LET k == Least({i \in 1..Len(objects) : objects[i] = o})
  IN Append(SubSeq(objects, 1, k - 1) \o SubSeq(objects, k + 1, Len(objects)), o)

\* ObjectCache::get_or_load.
Loaded(objects, o) ==
  IF \E k \in DOMAIN objects : objects[k] = o THEN Touch(objects, o)
  ELSE IF Size[o] > Capacity THEN objects
  ELSE Append(Evict(objects, Size[o]), o)

\* The objects of these outputs, one after the other.
LoadedAll(objects, S) ==
  LET R[i \in 0..Len(Recorded)] == CASE i = 0 -> objects
                                     [] i \in S -> Loaded(R[i - 1], About(i))
                                     [] OTHER -> R[i - 1]
  IN R[Len(Recorded)]

\* Mutant: only what the page itself holds is looked at.
CutOff_PageOnly(v) == Fitting(v) # Outputs(v)

\* Whether the view is marked as cut off: events before the page are not in it.
CutOff(v) == v.page.from # 1 \/ Fitting(v) # Outputs(v)

RefreshTerminal(v) ==
  /\ terminal' = [shown |-> Fitting(v), cut |-> CutOff(v)]
  /\ cache' = LoadedAll(cache, Fitting(v))

SyncTarget(v) == target' = Offset(v.at)

AfterMove(v) == pane' = Synced(v) /\ RefreshTerminal(v)

-----------------------------------------------------------------------------
(* Actions.                                                                *)

NoProcess == [p \in Process |-> None]

\* App::load: the checkpoints are read before the first page.
Init ==
  /\ stored \in Events
  /\ \E n \in Events :
       /\ n <= stored
       /\ checkpoints = {i \in 1..n : Kind(i) = "checkpoint"}
  /\ view = Ingest([page |-> LoadTimeline(0), at |-> 1, ahead |-> None,
                    first |-> NoProcess, gone |-> NoProcess, line |-> 0])
  /\ playing = FALSE /\ target = Offset(1)
  /\ pane = Unloaded(CheckpointAt(1))
  /\ cache = LoadedAll(<<>>, Fitting(view))
  /\ terminal = [shown |-> Fitting(view), cut |-> CutOff(view)]

\* The recorder appends.
Record ==
  /\ stored < Len(Recorded) /\ stored' = stored + 1
  /\ UNCHANGED <<checkpoints, view, playing, target, pane, cache, terminal>>

\* step_event and step_checkpoint pause; where there is nowhere to go they do
\* nothing else.
Move(v) ==
  /\ playing' = FALSE
  /\ view' = v
  /\ IF v.at = view.at THEN UNCHANGED <<target, pane, cache, terminal>>
     ELSE SyncTarget(v) /\ AfterMove(v)
  /\ UNCHANGED <<stored, checkpoints>>

StepEvent == Move(StepNext(view)) \/ Move(StepPrevious(view))

StepCheckpoint ==
  LET later   == {c \in checkpoints : c > view.at}
      earlier == {c \in checkpoints : c < view.at}
  IN \/ Move(IF later = {} THEN view ELSE JumpTo(view, Least(later)))
     \/ Move(IF earlier = {} THEN view ELSE JumpTo(view, Greatest(earlier)))

TogglePlayback ==
  /\ playing' = ~playing /\ SyncTarget(view)
  /\ UNCHANGED <<stored, checkpoints, view, pane, cache, terminal>>

\* Playback of the events up to an offset, a bounded number at a time; it
\* stops at the last event.
Played(v, limit) ==
  LET play[n \in 0..TickSteps] ==
        IF n = 0 THEN [view |-> v, on |-> TRUE]
        ELSE LET before == play[n - 1]
                 w == PeekNext(before.view)
                 next == StepNext(w).at
             IN CASE ~before.on -> before
                  [] before.on /\ ~HasNext(w) -> [view |-> w, on |-> FALSE]
                  [] before.on /\ HasNext(w) /\ Offset(next) > limit -> [view |-> w, on |-> TRUE]
                  [] OTHER -> [view |-> StepNext(w), on |-> TRUE]
  IN play[TickSteps]

Tick ==
  /\ playing
  /\ \E limit \in {target} \cup {Offset(i) : i \in Events} :
       /\ limit >= target /\ target' = limit
       /\ LET after == Played(view, limit)
          IN /\ view' = after.view /\ playing' = after.on
             /\ IF after.view.at = view.at THEN UNCHANGED <<pane, cache, terminal>>
                ELSE AfterMove(after.view)
  /\ UNCHANGED <<stored, checkpoints>>

Activate ==
  /\ pane' = LoadedWorkspace(CheckpointAt(view.at))
  /\ UNCHANGED <<stored, checkpoints, view, playing, target, cache, terminal>>

\* move_workspace_selection
SelectChange ==
  /\ pane.loaded
  /\ \E line \in IF pane.changes = <<>> THEN {1}
                ELSE {Lesser(pane.line + 1, Len(pane.changes)), Minus(pane.line - 1, 1) + 1} :
       pane' = [pane EXCEPT !.line = line, !.preview = Preview(pane.changes, line)]
  /\ UNCHANGED <<stored, checkpoints, view, playing, target, cache, terminal>>

\* move_process_selection
SelectProcess ==
  /\ \E line \in LET n == Cardinality(Observed(view))
                IN IF n = 0 THEN {0} ELSE {Lesser(view.line + 1, n - 1), Minus(view.line, 1)} :
       view' = [view EXCEPT !.line = line]
  /\ UNCHANGED <<stored, checkpoints, playing, target, pane, cache, terminal>>

Next ==
  \/ Record \/ StepEvent \/ StepCheckpoint \/ TogglePlayback \/ Tick
  \/ Activate \/ SelectChange \/ SelectProcess

Spec == Init /\ [][Next]_vars

-----------------------------------------------------------------------------
(* Properties.                                                             *)

Pages == [from : Nat, to : Nat, more : BOOLEAN]

TypeOK ==
  /\ stored \in Events /\ checkpoints \subseteq Events
  /\ view.page \in Pages /\ view.ahead \in Pages \cup {None} /\ view.at \in Events
  /\ playing \in BOOLEAN /\ target \in Nat
  /\ pane.checkpoint \in checkpoints \cup {None} /\ pane.loaded \in BOOLEAN
  /\ Held(cache) <= Capacity
  /\ terminal.shown \subseteq Events /\ terminal.cut \in BOOLEAN

\* The cursor stays inside its page, the page inside the timeline, and a page
\* that was fetched ahead continues it without a gap or an overlap, whatever
\* was stepped, played or jumped over since and whatever was appended.
PagesConnect ==
  /\ view.at \in view.page.from..view.page.to /\ view.page.to <= stored
  /\ view.page.more => view.page.to < stored
  /\ view.ahead # None =>
       view.page.more /\ view.ahead.from = view.page.to + 1 /\ ~IsEmpty(view.ahead)

\* The panes belong to the selected event: the workspace, once loaded, lists the
\* changes of its checkpoint and previews the one on its line; the processes
\* were observed by then, and their highlight is on one that was met; a
\* terminal that is not marked as cut off shows all output of the run up to it.
\* Playback is never behind it.
PanesMatchSelection ==
  /\ pane.checkpoint = CheckpointAt(view.at)
  /\ pane.loaded =>
       LET all == Differing[CheckpointAt(view.at)]
           n   == Len(pane.changes)
       IN /\ pane.changes = SubSeq(all, 1, n) /\ n = Lesser(MaxChanges, Len(all))
          /\ IF n = 0 THEN pane.preview = None
             ELSE pane.line \in 1..n /\ pane.preview = pane.changes[pane.line]
  /\ \A p \in Observed(view) : \E i \in 1..view.at : Kind(i) = "seen" /\ About(i) = p
  /\ view.line = 0 \/ view.line < Cardinality({p \in Process : view.first[p] # None})
  /\ terminal.shown \subseteq 1..view.at
  /\ terminal.cut \/ terminal.shown = {i \in 1..view.at : Kind(i) = "output"}
  /\ playing => target >= Offset(view.at)
=============================================================================
