--------------------------- MODULE RunTablesProofs --------------------------
(***************************************************************************)
(* What each transaction of RunTables preserves, for every value of its    *)
(* arguments: the lemmas on which the theorems about the clients of the    *)
(* tables rest.  First numbers and timelines, then the two invariants,     *)
(* then one lemma per transaction.                                         *)
(***************************************************************************)
EXTENDS RunTables, TLAPS, SequenceTheorems, WellFoundedInduction

-----------------------------------------------------------------------------
(* Natural numbers.                                                        *)

Below == {p \in Nat \X Nat : p[1] < p[2]}

\* Every nonempty set of naturals has a least element: the form in which the
\* proofs below use induction.
LEMMA LeastNatural ==
  ASSUME NEW T, T \subseteq Nat, T # {}
  PROVE  \E x \in T : \A y \in T : x <= y
<1>1. IsWellFoundedOn(Below, Nat)
  BY NatLessThanWellFounded DEF OpToRel, Below
<1>2. PICK x \in T : \A y \in T : <<y, x>> \notin Below
  BY <1>1, WFMin
<1>3. ASSUME NEW y \in T PROVE x <= y
  <2>1. x \in Nat /\ y \in Nat /\ <<y, x>> \in Nat \X Nat
    OBVIOUS
  <2>2. ~ (<<y, x>>[1] < <<y, x>>[2])
    BY <1>2, <2>1 DEF Below
  <2> QED BY <2>1, <2>2
<1> QED BY <1>3

\* A nonempty set of naturals with an upper bound has a greatest element.
LEMMA GreatestNatural ==
  ASSUME NEW T, T \subseteq Nat, T # {}, NEW b \in Nat, \A t \in T : t <= b
  PROVE  \E x \in T : \A y \in T : y <= x
<1> DEFINE U == {u \in Nat : \A t \in T : t <= u}
<1>1. PICK u \in U : \A v \in U : u <= v
  <2>1. U \subseteq Nat /\ U # {}
    OBVIOUS
  <2> HIDE DEF U
  <2> QED BY <2>1, LeastNatural
<1>2. u \in T
  <2>1. SUFFICES ASSUME u \notin T PROVE FALSE
    OBVIOUS
  <2>2. \A t \in T : t < u
    BY <2>1, <1>1
  <2>3. u - 1 \in U
    <3>1. PICK t \in T : t < u
      BY <2>2
    <3>2. u - 1 \in Nat
      BY <3>1, u \in Nat, t \in Nat
    <3>3. \A x \in T : x <= u - 1
      BY <2>2, u \in Nat
    <3> QED BY <3>2, <3>3
  <2> QED BY <2>3, <1>1
<1> QED BY <1>1, <1>2

-----------------------------------------------------------------------------
(* Timelines and batches.                                                  *)

\* The last sequence number of an ordered timeline is its length.
LEMMA LastSeqIsLength ==
  ASSUME StoreTypeOK, TimelineOrdered, NEW r \in Runs
  PROVE  LastSeq(r) = Len(events[r]) /\ LastOffset(r) \in Nat
<1>1. events[r] \in Seq(Events)
  BY DEF StoreTypeOK
<1>2. CASE events[r] = <<>>
  BY <1>2 DEF LastSeq, LastOffset
<1>3. CASE events[r] # <<>>
  <2>1. Len(events[r]) \in 1..Len(events[r]) /\ events[r][Len(events[r])] \in Events
    BY <1>1, <1>3
  <2>2. events[r][Len(events[r])].seq = Len(events[r])
    BY <2>1 DEF TimelineOrdered
  <2> QED BY <2>1, <2>2, <1>3 DEF LastSeq, LastOffset, Events, Offsets
<1> QED BY <1>2, <1>3

\* An admitted batch continues the numbering of its timeline.
LEMMA BatchNumbers ==
  ASSUME StoreTypeOK, TimelineOrdered, NEW r \in Runs,
         NEW b \in Seq(Events), CanAppend(r, b)
  PROVE  \A i \in 1..Len(b) : b[i].seq = Len(events[r]) + i
<1> DEFINE n == Len(events[r])
           Wrong == {i \in 1..Len(b) : b[i].seq # n + i}
<1>1. SUFFICES ASSUME Wrong # {} PROVE FALSE
  OBVIOUS
<1>2. PICK i \in Wrong : \A j \in Wrong : i <= j
  <2>1. Wrong \subseteq Nat
    OBVIOUS
  <2> HIDE DEF Wrong
  <2> QED BY <1>1, <2>1, LeastNatural
<1>3. b # <<>> /\ 1 \in 1..Len(b) /\ n \in Nat
  BY <1>2 DEF StoreTypeOK
<1>4. b[1].seq = n + 1
  BY <1>3, LastSeqIsLength DEF CanAppend
<1>5. CASE i = 1
  BY <1>2, <1>4, <1>5
<1>6. CASE i # 1
  <2>1. i \in 2..Len(b) /\ i - 1 \in 1..Len(b)
    BY <1>2, <1>6
  <2>2. b[i].seq = b[i-1].seq + 1
    BY <1>3, <2>1 DEF CanAppend
  <2>3. i - 1 \notin Wrong
    BY <1>2
  <2>4. b[i-1].seq = n + (i - 1)
    BY <2>1, <2>3
  <2> QED BY <1>2, <1>3, <2>2, <2>4
<1> QED BY <1>5, <1>6

\* What an admitted batch does to the timeline it is appended to.
LEMMA AppendExtends ==
  ASSUME StoreTypeOK, TimelineOrdered, NEW r \in Runs,
         NEW b \in Seq(Events), CanAppend(r, b)
  PROVE  LET t == events[r] \o b
         IN /\ t \in Seq(Events)
            /\ Len(t) = Len(events[r]) + Len(b)
            /\ \A i \in 1..Len(events[r]) : t[i] = events[r][i]
            /\ \A i \in 1..Len(b) : t[Len(events[r]) + i] = b[i]
            /\ \A i \in 1..Len(t) : t[i].seq = i /\ (i > 1 => t[i].at >= t[i-1].at)
<1> DEFINE n == Len(events[r])
           t == events[r] \o b
<1>1. events[r] \in Seq(Events) /\ n \in Nat /\ Len(b) \in Nat
  BY DEF StoreTypeOK
<1>2. /\ t \in Seq(Events)
      /\ Len(t) = n + Len(b)
      /\ \A i \in 1..n+Len(b) : t[i] = IF i <= n THEN events[r][i] ELSE b[i-n]
  BY <1>1, ConcatProperties
<1> HIDE DEF t
<1>3. \A i \in 1..n : t[i] = events[r][i]
  BY <1>1, <1>2
<1>4. \A i \in 1..Len(b) : t[n+i] = b[i]
  <2>1. TAKE i \in 1..Len(b)
  <2>2. n + i \in 1..n+Len(b) /\ ~(n + i <= n) /\ (n + i) - n = i
    BY <1>1
  <2> QED BY <1>2, <2>2
<1>5. ASSUME NEW i \in 1..Len(t) PROVE t[i].seq = i
  <2>1. CASE i <= n
    BY <2>1, <1>1, <1>3 DEF TimelineOrdered
  <2>2. CASE i > n
    <3>1. i - n \in 1..Len(b) /\ n + (i - n) = i
      BY <2>2, <1>1, <1>2
    <3>2. t[i] = b[i-n] /\ b[i-n].seq = n + (i - n)
      BY <3>1, <1>4, BatchNumbers
    <3> QED BY <3>1, <3>2
  <2> QED BY <2>1, <2>2, <1>1
<1>6. ASSUME NEW i \in 1..Len(t), i > 1 PROVE t[i].at >= t[i-1].at
  <2>1. CASE i <= n
    <3>1. i \in 1..n /\ i - 1 \in 1..n
      BY <2>1, <1>1, <1>6
    <3> QED BY <3>1, <1>3, <1>6 DEF TimelineOrdered
  <2>2. CASE i = n + 1
    <3>1. 1 \in 1..Len(b) /\ n \in 1..n /\ b # <<>> /\ events[r] # <<>> /\ i - 1 = n
      BY <2>2, <1>1, <1>2, <1>6
    <3>2. t[i] = b[1] /\ t[i-1] = events[r][n]
      BY <3>1, <2>2, <1>3, <1>4
    <3> QED BY <3>1, <3>2 DEF CanAppend, LastOffset
  <2>3. CASE i > n + 1
    <3>1. i - n \in 2..Len(b) /\ (i - n) - 1 \in 1..Len(b)
      BY <2>3, <1>1, <1>2
    <3>2. n + (i - n) = i /\ n + ((i - n) - 1) = i - 1 /\ b # <<>>
      BY <3>1, <1>1
    <3>3. t[n+(i-n)] = b[i-n] /\ t[n+((i-n)-1)] = b[(i-n)-1]
      <4>1. i - n \in 1..Len(b)
        BY <3>1, <1>1
      <4> QED BY <4>1, <3>1, <1>4
    <3> QED BY <3>1, <3>2, <3>3 DEF CanAppend
  <2> QED BY <2>1, <2>2, <2>3, <1>1
<1> QED BY <1>2, <1>3, <1>4, <1>5, <1>6 DEF t

\* Appending adds the warning rows of the batch to those of the timeline.
LEMMA AppendedWarningRows ==
  ASSUME StoreTypeOK, TimelineOrdered, NEW r \in Runs,
         NEW b \in Seq(Events), CanAppend(r, b)
  PROVE  WarningRows(events[r] \o b) = WarningRows(events[r]) \cup WarningRows(b)
<1> DEFINE n == Len(events[r])
           t == events[r] \o b
<1>1. n \in Nat /\ Len(b) \in Nat
  BY DEF StoreTypeOK
<1>2. /\ Len(t) = n + Len(b)
      /\ \A i \in 1..n : t[i] = events[r][i]
      /\ \A i \in 1..Len(b) : t[n+i] = b[i]
  BY AppendExtends
<1> HIDE DEF t
<1>3. ASSUME NEW w \in WarningRows(t) PROVE w \in WarningRows(events[r]) \cup WarningRows(b)
  <2>1. PICK i \in 1..Len(t) : t[i].body.kind = "Warning"
                               /\ w = [seq |-> t[i].seq, code |-> "recorder"]
    BY <1>3 DEF WarningRows
  <2>2. CASE i <= n
    BY <2>1, <2>2, <1>1, <1>2 DEF WarningRows
  <2>3. CASE i > n
    <3>1. i - n \in 1..Len(b) /\ n + (i - n) = i
      BY <2>3, <1>1, <1>2
    <3>2. t[n+(i-n)] = b[i-n]
      BY <3>1, <1>2
    <3> QED BY <2>1, <3>1, <3>2 DEF WarningRows
  <2> QED BY <2>2, <2>3, <1>1
<1>4. ASSUME NEW w \in WarningRows(events[r]) PROVE w \in WarningRows(t)
  <2>1. PICK i \in 1..n : events[r][i].body.kind = "Warning"
                          /\ w = [seq |-> events[r][i].seq, code |-> "recorder"]
    BY <1>4 DEF WarningRows
  <2>2. i \in 1..Len(t)
    BY <1>1, <1>2
  <2> QED BY <2>1, <2>2, <1>2 DEF WarningRows
<1>5. ASSUME NEW w \in WarningRows(b) PROVE w \in WarningRows(t)
  <2>1. PICK i \in 1..Len(b) : b[i].body.kind = "Warning"
                               /\ w = [seq |-> b[i].seq, code |-> "recorder"]
    BY <1>5 DEF WarningRows
  <2>2. n + i \in 1..Len(t) /\ t[n+i] = b[i]
    BY <1>1, <1>2
  <2> QED BY <2>1, <2>2 DEF WarningRows
<1>6. WarningRows(t) = WarningRows(events[r]) \cup WarningRows(b)
  BY <1>3, <1>4, <1>5
<1> QED BY <1>6 DEF t

\* Warning rows carry the recorder's code and a number of their timeline.
LEMMA WarningRowsType ==
  ASSUME NEW b \in Seq(Events)
  PROVE  \A w \in WarningRows(b) : /\ w \in [seq : Nat, code : {"recorder"}]
                                   /\ \E i \in 1..Len(b) : w.seq = b[i].seq
<1>1. \A i \in 1..Len(b) : b[i] \in Events
  BY ElementOfSeq
<1>2. \A i \in 1..Len(b) : b[i].seq \in Nat
  BY <1>1 DEF Events
<1> QED BY <1>2 DEF WarningRows

-----------------------------------------------------------------------------
(* The invariants.                                                         *)

\* What every transaction keeps.
Bookkeeping == StoreTypeOK /\ TimelineOrdered /\ WarningsIndexed

\* A run that has not ended has no exit: what recovery finds is what the
\* explanation of an interrupted run needs.
ActiveRunsUnfinished ==
  \A r \in Runs : row[r].status \notin Terminal => row[r].exit = None

\* What the transactions of the recorder keep as well.
Journal == Bookkeeping /\ CheckpointsJournalled /\ TerminalRunsExplained /\ ActiveRunsUnfinished

\* A run that ended stays so: what the warning index asks of table runs.
EndedStayEnded == \A q \in Runs : row[q].status \in Terminal => row'[q].status \in Terminal

\* An admitted append keeps the timeline ordered and its warnings indexed.
LEMMA AppendedKeepsBooks ==
  ASSUME Bookkeeping, NEW r \in Runs, NEW b \in Seq(Events),
         CanAppend(r, b), Appended(r, b), EndedStayEnded
  PROVE  /\ events' \in [Runs -> Seq(Events)]
         /\ warnings' \in [Runs -> SUBSET [seq : Nat, code : {"recorder", "recovered"}]]
         /\ TimelineOrdered' /\ WarningsIndexed'
<1> DEFINE t == events[r] \o b
<1> USE DEF Bookkeeping
<1>1. /\ t \in Seq(Events)
      /\ \A i \in 1..Len(t) : t[i].seq = i /\ (i > 1 => t[i].at >= t[i-1].at)
      /\ WarningRows(t) = WarningRows(events[r]) \cup WarningRows(b)
  BY AppendExtends, AppendedWarningRows
<1>2. /\ events' = [events EXCEPT ![r] = t]
      /\ warnings' = [warnings EXCEPT ![r] = @ \cup WarningRows(b)]
  BY DEF Appended
<1> HIDE DEF t
<1>3. events' \in [Runs -> Seq(Events)]
  BY <1>1, <1>2 DEF StoreTypeOK
<1>4. \A w \in WarningRows(b) : w \in [seq : Nat, code : {"recorder"}]
  BY WarningRowsType
<1>5. warnings' \in [Runs -> SUBSET [seq : Nat, code : {"recorder", "recovered"}]]
  <2>1. [seq : Nat, code : {"recorder"}] \subseteq [seq : Nat, code : {"recorder", "recovered"}]
    OBVIOUS
  <2> QED BY <1>2, <1>4, <2>1 DEF StoreTypeOK
<1>6. TimelineOrdered'
  <2> SUFFICES ASSUME NEW q \in Runs, NEW i \in 1..Len(events'[q])
               PROVE /\ events'[q][i].seq = i
                     /\ i > 1 => events'[q][i].at >= events'[q][i-1].at
    BY DEF TimelineOrdered
  <2>1. CASE q = r
    BY <2>1, <1>1, <1>2 DEF StoreTypeOK
  <2>2. CASE q # r
    BY <2>2, <1>2 DEF StoreTypeOK, TimelineOrdered
  <2> QED BY <2>1, <2>2
<1>7. WarningsIndexed'
  <2> SUFFICES ASSUME NEW q \in Runs
               PROVE /\ {w \in warnings'[q] : w.code = "recorder"} = WarningRows(events'[q])
                     /\ \A w \in warnings'[q] : w.code = "recovered" =>
                          /\ row'[q].status \in Terminal
                          /\ \A v \in warnings'[q] : v = w \/ v.seq < w.seq
    BY DEF WarningsIndexed
  <2>1. CASE q # r \/ b = <<>>
    <3>1. WarningRows(<<>>) = {}
      BY DEF WarningRows
    <3>2. events[r] \o <<>> = events[r]
      BY ConcatEmptySeq DEF StoreTypeOK
    <3>3. warnings'[q] = warnings[q] /\ events'[q] = events[q]
      BY <2>1, <3>1, <3>2, <1>2 DEF StoreTypeOK, t
    <3> QED BY <3>3 DEF WarningsIndexed, EndedStayEnded
  <2>2. CASE q = r /\ b # <<>>
    <3>1. row[r].status \in Active
      BY <2>2 DEF CanAppend
    <3>2. \A w \in warnings[r] : w.code # "recovered"
      BY <3>1 DEF WarningsIndexed, Active, Terminal
    <3>3. warnings'[r] = warnings[r] \cup WarningRows(b) /\ events'[r] = t
      BY <1>2 DEF StoreTypeOK
    <3>4. \A w \in warnings'[r] : w.code # "recovered"
      BY <3>2, <3>3, <1>4
    <3>5. \A w \in WarningRows(b) : w.code = "recorder"
      BY <1>4
    <3>6. {w \in warnings'[r] : w.code = "recorder"} = WarningRows(events[r]) \cup WarningRows(b)
      BY <3>3, <3>5 DEF WarningsIndexed
    <3> QED BY <3>3, <3>4, <3>6, <1>1, <2>2
  <2> QED BY <2>1, <2>2
<1> QED BY <1>3, <1>5, <1>6, <1>7

\* The number recovery gives its warning is free and past all others.
LEMMA NextWarningIsFree ==
  ASSUME Bookkeeping, NEW r \in Runs, row[r].status \in Active
  PROVE  NextWarning(r) \in Nat /\ \A w \in warnings[r] : w.seq < NextWarning(r)
<1> DEFINE n == Len(events[r])
           T == {w.seq : w \in warnings[r]}
<1> USE DEF Bookkeeping
<1>1. events[r] \in Seq(Events) /\ n \in Nat
  BY DEF StoreTypeOK
<1>2. warnings[r] \subseteq [seq : Nat, code : {"recorder", "recovered"}]
  BY DEF StoreTypeOK
<1>3. \A w \in warnings[r] : w.code = "recorder"
  BY <1>2 DEF WarningsIndexed, Active, Terminal
<1>4. \A w \in warnings[r] : w.seq \in Nat /\ w.seq <= n
  <2> TAKE w \in warnings[r]
  <2>1. w \in WarningRows(events[r])
    BY <1>3 DEF WarningsIndexed
  <2>2. PICK i \in 1..n : w.seq = events[r][i].seq
    BY <2>1, <1>1, WarningRowsType
  <2>3. events[r][i].seq = i
    BY DEF TimelineOrdered
  <2> QED BY <2>2, <2>3, <1>1
<1>5. CASE warnings[r] = {}
  BY <1>5 DEF NextWarning
<1>6. CASE warnings[r] # {}
  <2>1. PICK x \in T : \A y \in T : y <= x
    <3>1. T \subseteq Nat /\ T # {} /\ \A y \in T : y <= n
      BY <1>4, <1>6
    <3> HIDE DEF T
    <3> QED BY <3>1, <1>1, GreatestNatural
  <2>2. \E w \in warnings[r] : \A v \in warnings[r] : v.seq <= w.seq
    BY <2>1
  <2> DEFINE m == CHOOSE w \in warnings[r] : \A v \in warnings[r] : v.seq <= w.seq
  <2>3. m \in warnings[r] /\ \A v \in warnings[r] : v.seq <= m.seq
    BY <2>2
  <2>4. NextWarning(r) = m.seq + 1
    BY <1>6 DEF NextWarning
  <2> HIDE DEF m
  <2> QED BY <2>3, <2>4, <1>4
<1> QED BY <1>5, <1>6

-----------------------------------------------------------------------------
(* The transactions keep the books.                                        *)

\* Empty tables are in order.
LEMMA BooksInit == StoreInit => Bookkeeping
<1> SUFFICES ASSUME StoreInit PROVE Bookkeeping
  OBVIOUS
<1>1. EmptyRow \in Rows
  BY DEF EmptyRow, Rows
<1>2. <<>> \in Seq(Events)
  OBVIOUS
<1>3. StoreTypeOK
  BY <1>1, <1>2 DEF StoreInit, StoreTypeOK
<1>4. TimelineOrdered /\ WarningsIndexed
  BY DEF StoreInit, TimelineOrdered, WarningsIndexed, WarningRows
<1> QED BY <1>3, <1>4 DEF Bookkeeping

\* Recovery interrupts the active rows and leaves the others alone.
LEMMA RecoveredRows ==
  ASSUME Bookkeeping, Recover, NEW r \in Runs
  PROVE  /\ row'[r] \in Rows
         /\ row[r].status \notin Active => row'[r] = row[r]
         /\ row[r].status \in Active => /\ row'[r].status = "interrupted"
                                        /\ row'[r].duration = LastOffset(r)
                                        /\ row'[r].exit = row[r].exit
<1>1. row[r] \in Rows /\ LastOffset(r) \in Offsets
  BY LastSeqIsLength DEF Bookkeeping, StoreTypeOK, Offsets
<1>2. CASE row[r].status \in Active
  <2>1. row'[r] = [row[r] EXCEPT !.status = "interrupted", !.duration = LastOffset(r)]
    BY <1>2 DEF Recover
  <2> QED BY <1>1, <1>2, <2>1 DEF Rows, Terminal
<1>3. CASE row[r].status \notin Active
  BY <1>1, <1>3 DEF Recover
<1> QED BY <1>2, <1>3

\* mark_interrupted_runs keeps the books.
LEMMA RecoverKeepsBooks ==
  ASSUME Bookkeeping, Recover, writer' \in {"closed", "open"}
  PROVE  Bookkeeping' /\ EndedStayEnded
<1> DEFINE orphans == {r \in Runs : row[r].status \in Active}
           Warn(r) == [seq |-> NextWarning(r), code |-> "recovered"]
<1> USE DEF Bookkeeping
<1>1. /\ \A r \in orphans : /\ row'[r] = [row[r] EXCEPT !.status = "interrupted",
                                                       !.duration = LastOffset(r)]
                              /\ warnings'[r] = warnings[r] \cup {Warn(r)}
      /\ \A r \in Runs \ orphans : row'[r] = row[r] /\ warnings'[r] = warnings[r]
      /\ DOMAIN row' = Runs /\ DOMAIN warnings' = Runs
  BY DEF Recover
<1>2. UNCHANGED <<parent, events, checkpoints, snapshots>> 
  BY DEF Recover
<1>3. \A r \in orphans : NextWarning(r) \in Nat /\ \A w \in warnings[r] : w.seq < NextWarning(r)
  BY NextWarningIsFree
<1>4. \A r \in Runs : row'[r] \in Rows
  BY RecoveredRows
<1>5. \A r \in Runs : warnings'[r] \in SUBSET [seq : Nat, code : {"recorder", "recovered"}]
  <2> TAKE r \in Runs
  <2>1. warnings[r] \in SUBSET [seq : Nat, code : {"recorder", "recovered"}]
    BY DEF StoreTypeOK
  <2>2. CASE r \in orphans
    <3>1. Warn(r) \in [seq : Nat, code : {"recorder", "recovered"}]
      BY <2>2, <1>3
    <3>2. warnings'[r] = warnings[r] \cup {Warn(r)}
      BY <2>2, <1>1
    <3> HIDE DEF Warn
    <3> QED BY <2>1, <3>1, <3>2
  <2>3. CASE r \notin orphans
    BY <2>1, <2>3, <1>1
  <2> QED BY <2>2, <2>3
<1>6. StoreTypeOK'
  <2>1. row' \in [Runs -> Rows]
    BY <1>1, <1>4 DEF Recover
  <2>2. warnings' \in [Runs -> SUBSET [seq : Nat, code : {"recorder", "recovered"}]]
    BY <1>1, <1>5 DEF Recover
  <2> QED BY <1>2, <2>1, <2>2 DEF StoreTypeOK
<1>7. TimelineOrdered'
  BY <1>2 DEF TimelineOrdered
<1>8. WarningsIndexed'
  <2> SUFFICES ASSUME NEW r \in Runs
               PROVE /\ {w \in warnings'[r] : w.code = "recorder"} = WarningRows(events[r])
                     /\ \A w \in warnings'[r] : w.code = "recovered" =>
                          /\ row'[r].status \in Terminal
                          /\ \A v \in warnings'[r] : v = w \/ v.seq < w.seq
    BY <1>2 DEF WarningsIndexed
  <2>1. CASE r \in orphans
    <3>1. \A w \in warnings[r] : w.code # "recovered"
      BY <2>1 DEF WarningsIndexed, Active, Terminal
    <3>2. row'[r].status = "interrupted"
      BY <2>1, RecoveredRows
    <3>3. warnings'[r] = warnings[r] \cup {Warn(r)}
      BY <2>1, <1>1
    <3>4. Warn(r).code = "recovered" /\ Warn(r).seq = NextWarning(r)
      OBVIOUS
    <3>5. \A w \in warnings[r] : w.seq < Warn(r).seq
      BY <2>1, <1>3, <3>4
    <3> HIDE DEF Warn
    <3>6. {w \in warnings'[r] : w.code = "recorder"} = {w \in warnings[r] : w.code = "recorder"}
      BY <3>3, <3>4
    <3>7. \A w \in warnings'[r] : w.code = "recovered" => w = Warn(r)
      BY <3>1, <3>3
    <3> QED BY <3>2, <3>3, <3>5, <3>6, <3>7 DEF WarningsIndexed, Terminal
  <2>2. CASE r \notin orphans
    BY <2>2, <1>1 DEF WarningsIndexed
  <2> QED BY <2>1, <2>2
<1>9. EndedStayEnded
  BY <1>1 DEF EndedStayEnded, Active, Terminal
<1> QED BY <1>6, <1>7, <1>8, <1>9

\* A transaction that leaves timelines and warnings alone keeps them agreeing.
LEMMA RowsOnlyKeepsBooks ==
  ASSUME Bookkeeping, UNCHANGED <<events, warnings>>, EndedStayEnded
  PROVE  TimelineOrdered' /\ WarningsIndexed'
BY DEF Bookkeeping, TimelineOrdered, WarningsIndexed, EndedStayEnded

\* What storing a checkpoint does to the columns of its run.
LEMMA CheckpointStoredRows ==
  ASSUME StoreTypeOK, NEW r \in Runs, NEW c \in Checkpoints, CheckpointStored(r, c)
  PROVE  /\ row' \in [Runs -> Rows]
         /\ checkpoints' \in [Runs -> SUBSET Checkpoints]
         /\ snapshots' \in SUBSET Snapshots
         /\ \A q \in Runs : /\ row'[q].status = row[q].status
                            /\ row'[q].exit = row[q].exit
                            /\ row'[q].duration = row[q].duration
                            /\ q # r => row'[q] = row[q] /\ checkpoints'[q] = checkpoints[q]
         /\ checkpoints'[r] = checkpoints[r] \cup {c}
<1> DEFINE i == IF c.reason = "initial" THEN c.snapshot ELSE row[r].initial
           f == IF c.reason = "final" THEN c.snapshot ELSE row[r].final
<1>1. row[r] \in Rows /\ c.snapshot \in Snapshots
  BY DEF StoreTypeOK, Checkpoints
<1>2. i \in Snapshots \cup {None} /\ f \in Snapshots \cup {None}
  BY <1>1 DEF Rows
<1>3. row' = [row EXCEPT ![r] = [row[r] EXCEPT !.initial = i, !.final = f]]
  BY <1>1 DEF CheckpointStored, StoreTypeOK, Rows
<1> HIDE DEF i, f
<1>4. /\ [row[r] EXCEPT !.initial = i, !.final = f] \in Rows
      /\ [row[r] EXCEPT !.initial = i, !.final = f].status = row[r].status
      /\ [row[r] EXCEPT !.initial = i, !.final = f].exit = row[r].exit
      /\ [row[r] EXCEPT !.initial = i, !.final = f].duration = row[r].duration
  BY <1>1, <1>2 DEF Rows
<1>5. /\ row' \in [Runs -> Rows]
      /\ \A q \in Runs : /\ row'[q].status = row[q].status
                         /\ row'[q].exit = row[q].exit
                         /\ row'[q].duration = row[q].duration
                         /\ q # r => row'[q] = row[q]
  BY <1>3, <1>4 DEF StoreTypeOK
<1> QED BY <1>1, <1>5 DEF CheckpointStored, StoreTypeOK

\* What finishing does to the row of its run.
LEMMA FinishedRows ==
  ASSUME StoreTypeOK, NEW r \in Runs, NEW f \in Finishes, CanFinish(r, f), Finished(r, f)
  PROVE  /\ row' \in [Runs -> Rows]
         /\ row'[r].status = f.status /\ row'[r].exit = f.exit
         /\ \A q \in Runs : q # r => row'[q] = row[q]
         /\ row[r].status \in Active /\ f.status \in Terminal
         /\ EndedStayEnded
<1> DEFINE new == [row[r] EXCEPT !.status = f.status, !.exit = f.exit,
                                 !.final = f.final, !.duration = f.duration]
<1>1. row[r] \in Rows /\ f.status \in Terminal /\ f.exit \in Exits \cup {None}
      /\ f.final \in Snapshots \cup {None} /\ f.duration \in Offsets
  BY DEF StoreTypeOK, Finishes
<1>2. new \in Rows /\ new.status = f.status /\ new.exit = f.exit
  BY <1>1 DEF Rows
<1>3. row' = [row EXCEPT ![r] = new]
  BY <1>1 DEF Finished, StoreTypeOK, Rows
<1> HIDE DEF new
<1>4. row[r].status \in Active
  BY DEF CanFinish, CanTransition, Active
<1>5. /\ row' \in [Runs -> Rows]
      /\ row'[r] = new
      /\ \A q \in Runs : q # r => row'[q] = row[q]
  BY <1>2, <1>3 DEF StoreTypeOK
<1>6. EndedStayEnded
  BY <1>1, <1>2, <1>5 DEF EndedStayEnded
<1> QED BY <1>1, <1>2, <1>4, <1>5, <1>6

\* Dropping the handle keeps the books.
LEMMA CloseKeepsBooks == ASSUME Bookkeeping, CloseStore PROVE Bookkeeping' /\ EndedStayEnded
<1>1. EndedStayEnded
  BY DEF CloseStore, EndedStayEnded
<1>2. StoreTypeOK'
  BY DEF Bookkeeping, CloseStore, StoreTypeOK
<1> QED BY <1>1, <1>2, RowsOnlyKeepsBooks DEF CloseStore, Bookkeeping

\* create_run keeps the books.
LEMMA CreateKeepsBooks ==
  ASSUME Bookkeeping, NEW r \in Runs,
         NEW p \in {None} \cup [run : Runs, checkpoint : CheckpointIds], CreateRun(r, p)
  PROVE  Bookkeeping' /\ EndedStayEnded
<1>1. row[r] \in Rows
  BY DEF Bookkeeping, StoreTypeOK
<1>2. [row[r] EXCEPT !.status = "preparing"] \in Rows
  BY <1>1 DEF Rows, Active
<1>3. row' = [row EXCEPT ![r] = [row[r] EXCEPT !.status = "preparing"]]
  BY <1>1 DEF CreateRun, Bookkeeping, StoreTypeOK
<1>4. StoreTypeOK'
  BY <1>2, <1>3 DEF CreateRun, Bookkeeping, StoreTypeOK
<1>5. EndedStayEnded
  BY <1>3 DEF CreateRun, EndedStayEnded, Terminal, Bookkeeping, StoreTypeOK
<1> QED BY <1>4, <1>5, RowsOnlyKeepsBooks DEF CreateRun, Bookkeeping

\* mark_run_running keeps the books.
LEMMA MarkRunningKeepsBooks ==
  ASSUME Bookkeeping, NEW r \in Runs, NEW s \in Snapshots, MarkRunRunning(r, s)
  PROVE  Bookkeeping' /\ EndedStayEnded
<1> DEFINE new == [row[r] EXCEPT !.status = "running", !.initial = s]
<1>1. row[r] \in Rows
  BY DEF Bookkeeping, StoreTypeOK
<1>2. new \in Rows
  BY <1>1 DEF Rows, Active
<1>3. row' = [row EXCEPT ![r] = new]
  BY <1>1 DEF MarkRunRunning, Bookkeeping, StoreTypeOK, Rows
<1> HIDE DEF new
<1>4. StoreTypeOK'
  BY <1>2, <1>3 DEF MarkRunRunning, Bookkeeping, StoreTypeOK
<1>5. EndedStayEnded
  BY <1>3 DEF MarkRunRunning, EndedStayEnded, Terminal, Bookkeeping, StoreTypeOK
<1> QED BY <1>4, <1>5, RowsOnlyKeepsBooks DEF MarkRunRunning, Bookkeeping

\* append_event_batch keeps the books.
LEMMA AppendKeepsBooks ==
  ASSUME Bookkeeping, NEW r \in Runs, NEW b \in Seq(Events), AppendEventBatch(r, b)
  PROVE  Bookkeeping' /\ EndedStayEnded
<1>1. EndedStayEnded
  BY DEF AppendEventBatch, EndedStayEnded
<1>2. /\ events' \in [Runs -> Seq(Events)]
      /\ warnings' \in [Runs -> SUBSET [seq : Nat, code : {"recorder", "recovered"}]]
      /\ TimelineOrdered' /\ WarningsIndexed'
  BY <1>1, AppendedKeepsBooks DEF AppendEventBatch
<1>3. StoreTypeOK'
  BY <1>2 DEF AppendEventBatch, Bookkeeping, StoreTypeOK
<1> QED BY <1>1, <1>2, <1>3 DEF Bookkeeping

\* commit_checkpoint_with_event keeps the books.
LEMMA CommitWithEventKeepsBooks ==
  ASSUME Bookkeeping, NEW r \in Runs, NEW c \in Checkpoints, NEW e \in Events,
         CommitCheckpointWithEvent(r, c, e)
  PROVE  Bookkeeping' /\ EndedStayEnded
<1>1. /\ row' \in [Runs -> Rows]
      /\ checkpoints' \in [Runs -> SUBSET Checkpoints]
      /\ snapshots' \in SUBSET Snapshots
      /\ \A q \in Runs : row'[q].status = row[q].status
  BY CheckpointStoredRows DEF CommitCheckpointWithEvent, Bookkeeping
<1>2. EndedStayEnded
  BY <1>1 DEF EndedStayEnded
<1>3. <<e>> \in Seq(Events)
  OBVIOUS
<1>4. /\ events' \in [Runs -> Seq(Events)]
      /\ warnings' \in [Runs -> SUBSET [seq : Nat, code : {"recorder", "recovered"}]]
      /\ TimelineOrdered' /\ WarningsIndexed'
  BY <1>2, <1>3, AppendedKeepsBooks DEF CommitCheckpointWithEvent
<1>5. StoreTypeOK'
  BY <1>1, <1>4 DEF CommitCheckpointWithEvent, Bookkeeping, StoreTypeOK
<1> QED BY <1>2, <1>4, <1>5 DEF Bookkeeping

\* finish_run_with_events keeps the books.
LEMMA FinishWithEventsKeepsBooks ==
  ASSUME Bookkeeping, NEW r \in Runs, NEW f \in Finishes, NEW b \in Seq(Events),
         FinishRunWithEvents(r, f, b)
  PROVE  Bookkeeping' /\ EndedStayEnded
<1>1. row' \in [Runs -> Rows] /\ EndedStayEnded
  BY FinishedRows DEF FinishRunWithEvents, Bookkeeping
<1>2. /\ events' \in [Runs -> Seq(Events)]
      /\ warnings' \in [Runs -> SUBSET [seq : Nat, code : {"recorder", "recovered"}]]
      /\ TimelineOrdered' /\ WarningsIndexed'
  BY <1>1, AppendedKeepsBooks DEF FinishRunWithEvents
<1>3. StoreTypeOK'
  BY <1>1, <1>2 DEF FinishRunWithEvents, Bookkeeping, StoreTypeOK
<1> QED BY <1>1, <1>2, <1>3 DEF Bookkeeping

\* store_snapshot keeps the books.
LEMMA StoreSnapshotKeepsBooks ==
  ASSUME Bookkeeping, NEW s \in Snapshots, StoreSnapshot(s)
  PROVE  Bookkeeping' /\ EndedStayEnded
<1>1. EndedStayEnded
  BY DEF StoreSnapshot, EndedStayEnded
<1>2. StoreTypeOK'
  BY DEF StoreSnapshot, Bookkeeping, StoreTypeOK
<1> QED BY <1>1, <1>2, RowsOnlyKeepsBooks DEF StoreSnapshot, Bookkeeping

\* commit_checkpoint keeps the books.
LEMMA CommitKeepsBooks ==
  ASSUME Bookkeeping, NEW r \in Runs, NEW c \in Checkpoints, CommitCheckpoint(r, c)
  PROVE  Bookkeeping' /\ EndedStayEnded
<1>1. /\ row' \in [Runs -> Rows]
      /\ checkpoints' \in [Runs -> SUBSET Checkpoints]
      /\ snapshots' \in SUBSET Snapshots
      /\ \A q \in Runs : row'[q].status = row[q].status
  BY CheckpointStoredRows DEF CommitCheckpoint, Bookkeeping
<1>2. EndedStayEnded
  BY <1>1 DEF EndedStayEnded
<1>3. StoreTypeOK'
  BY <1>1 DEF CommitCheckpoint, Bookkeeping, StoreTypeOK
<1> QED BY <1>2, <1>3, RowsOnlyKeepsBooks DEF CommitCheckpoint, Bookkeeping

\* finish_run keeps the books.
LEMMA FinishKeepsBooks ==
  ASSUME Bookkeeping, NEW r \in Runs, NEW f \in Finishes, FinishRun(r, f)
  PROVE  Bookkeeping' /\ EndedStayEnded
<1>1. row' \in [Runs -> Rows] /\ EndedStayEnded
  BY FinishedRows DEF FinishRun, Bookkeeping
<1>2. StoreTypeOK'
  BY <1>1 DEF FinishRun, Bookkeeping, StoreTypeOK
<1> QED BY <1>1, <1>2, RowsOnlyKeepsBooks DEF FinishRun, Bookkeeping

-----------------------------------------------------------------------------
(* The transactions of the recorder keep the journal.                      *)

\* A timeline only grows, and the timeline of an ended run does not change.
LEMMA AppendedGrows ==
  ASSUME Bookkeeping, NEW r \in Runs, NEW b \in Seq(Events), CanAppend(r, b), Appended(r, b),
         NEW q \in Runs
  PROVE  /\ Len(events[q]) \in Nat /\ Len(events'[q]) \in Nat
         /\ Len(events[q]) <= Len(events'[q])
         /\ \A i \in 1..Len(events[q]) : events'[q][i] = events[q][i]
         /\ row[q].status \in Terminal => events'[q] = events[q]
         /\ warnings[q] \subseteq warnings'[q]
<1> USE DEF Bookkeeping
<1>1. events[q] \in Seq(Events) /\ Len(b) \in Nat
  BY DEF StoreTypeOK
<1>2. CASE q # r
  BY <1>1, <1>2 DEF Appended, StoreTypeOK
<1>3. CASE q = r
  <2> DEFINE t == events[r] \o b
  <2>1. events'[r] = t /\ warnings'[r] = warnings[r] \cup WarningRows(b)
    BY DEF Appended, StoreTypeOK
  <2>2. /\ Len(t) = Len(events[r]) + Len(b)
        /\ \A i \in 1..Len(events[r]) : t[i] = events[r][i]
    BY AppendExtends
  <2>3. row[r].status \in Terminal => b = <<>>
    BY DEF CanAppend, Active, Terminal
  <2>4. events[r] \o <<>> = events[r]
    BY <1>1, <1>3, ConcatEmptySeq
  <2>5. row[r].status \in Terminal => events'[r] = events[r]
    BY <2>1, <2>3, <2>4
  <2> HIDE DEF t
  <2> QED BY <1>1, <1>3, <2>1, <2>2, <2>5
<1> QED BY <1>2, <1>3

\* Whatever keeps the rows, timelines and warnings of ended runs, and closes no
\* run, keeps every explanation.
LEMMA ExplanationsKept ==
  ASSUME Journal,
         \A q \in Runs :
           /\ row[q].status \in Terminal =>
                row'[q].exit = row[q].exit /\ row'[q].duration = row[q].duration
           /\ row'[q].status \in Terminal => row'[q].status = row[q].status
           /\ row[q].status \in Terminal =>
                events'[q] = events[q] /\ warnings[q] \subseteq warnings'[q]
  PROVE  TerminalRunsExplained'
<1> SUFFICES ASSUME NEW q \in Runs, row'[q].status \in Terminal
             PROVE \/ /\ events'[q] # <<>>
                      /\ events'[q][Len(events'[q])].body = Completion(row'[q])
                   \/ /\ row'[q].status = "interrupted"
                      /\ row'[q].exit = None
                      /\ row'[q].duration = LastOffset(q)'
                      /\ \E w \in warnings'[q] : w.code = "recovered"
  BY DEF TerminalRunsExplained
<1>1. /\ row[q].status \in Terminal /\ row'[q].status = row[q].status
      /\ row'[q].exit = row[q].exit /\ row'[q].duration = row[q].duration
      /\ events'[q] = events[q] /\ warnings[q] \subseteq warnings'[q]
  OBVIOUS
<1>2. Completion(row'[q]) = Completion(row[q]) /\ LastOffset(q)' = LastOffset(q)
  BY <1>1 DEF Completion, LastOffset
<1>3. \/ /\ events[q] # <<>>
         /\ events[q][Len(events[q])].body = Completion(row[q])
      \/ /\ row[q].status = "interrupted"
         /\ row[q].exit = None
         /\ row[q].duration = LastOffset(q)
         /\ \E w \in warnings[q] : w.code = "recovered"
  BY <1>1 DEF Journal, TerminalRunsExplained
<1> QED BY <1>1, <1>2, <1>3

\* Checkpoint rows that stay are still announced when timelines only grow.
LEMMA AnnouncementsKept ==
  ASSUME Journal, NEW r \in Runs, NEW b \in Seq(Events), CanAppend(r, b), Appended(r, b),
         NEW q \in Runs, NEW c \in checkpoints[q]
  PROVE  c.seq \in 1..Len(events'[q]) /\ events'[q][c.seq].body = Committed(c)
<1>1. c.seq \in 1..Len(events[q]) /\ events[q][c.seq].body = Committed(c)
  BY DEF Journal, CheckpointsJournalled
<1> QED BY <1>1, AppendedGrows DEF Journal

\* Empty tables have a complete journal.
LEMMA JournalInit == StoreInit => Journal
<1> SUFFICES ASSUME StoreInit PROVE Journal
  OBVIOUS
<1>1. \A r \in Runs : row[r] = EmptyRow /\ checkpoints[r] = {}
  BY DEF StoreInit
<1> QED BY <1>1, BooksInit DEF Journal, CheckpointsJournalled, TerminalRunsExplained,
           ActiveRunsUnfinished, EmptyRow, Terminal

\* mark_interrupted_runs keeps the journal.
LEMMA RecoverKeepsJournal ==
  ASSUME Journal, Recover, writer' \in {"closed", "open"}
  PROVE  Journal'
<1>1. Bookkeeping'
  BY RecoverKeepsBooks DEF Journal
<1>2. \A q \in Runs :
        /\ row[q].status \notin Active => row'[q] = row[q]
        /\ row[q].status \in Active => /\ row'[q].status = "interrupted"
                                       /\ row'[q].duration = LastOffset(q)
                                       /\ row'[q].exit = row[q].exit
  BY RecoveredRows DEF Journal
<1>3. CheckpointsJournalled'
  BY DEF Recover, Journal, CheckpointsJournalled
<1>4. ActiveRunsUnfinished'
  BY <1>2 DEF Journal, ActiveRunsUnfinished, Active, Terminal
<1>5. TerminalRunsExplained'
  <2> SUFFICES ASSUME NEW q \in Runs, row'[q].status \in Terminal
               PROVE \/ /\ events'[q] # <<>>
                        /\ events'[q][Len(events'[q])].body = Completion(row'[q])
                     \/ /\ row'[q].status = "interrupted"
                        /\ row'[q].exit = None
                        /\ row'[q].duration = LastOffset(q)'
                        /\ \E w \in warnings'[q] : w.code = "recovered"
    BY DEF TerminalRunsExplained
  <2>1. events' = events /\ LastOffset(q)' = LastOffset(q)
    BY DEF Recover, LastOffset
  <2>2. CASE row[q].status \in Active
    <3>1. warnings'[q] = warnings[q] \cup {[seq |-> NextWarning(q), code |-> "recovered"]}
      BY <2>2 DEF Recover
    <3>2. row[q].exit = None
      BY <2>2 DEF Journal, ActiveRunsUnfinished, Active, Terminal
    <3>3. \E w \in warnings'[q] : w.code = "recovered"
      <4> DEFINE w == [seq |-> NextWarning(q), code |-> "recovered"]
      <4>1. w \in warnings'[q]
        BY <3>1
      <4>2. w.code = "recovered"
        OBVIOUS
      <4> QED BY <4>1, <4>2
    <3>4. /\ row'[q].status = "interrupted"
          /\ row'[q].exit = None
          /\ row'[q].duration = LastOffset(q)'
      BY <2>1, <2>2, <3>2, <1>2
    <3> QED BY <3>3, <3>4
  <2>3. CASE row[q].status \notin Active
    <3>1. row'[q] = row[q] /\ warnings'[q] = warnings[q]
      BY <2>3, <1>2 DEF Recover
    <3>2. \/ /\ events[q] # <<>>
             /\ events[q][Len(events[q])].body = Completion(row[q])
          \/ /\ row[q].status = "interrupted"
             /\ row[q].exit = None
             /\ row[q].duration = LastOffset(q)
             /\ \E w \in warnings[q] : w.code = "recovered"
      BY <3>1 DEF Journal, TerminalRunsExplained
    <3> QED BY <2>1, <3>1, <3>2
  <2> QED BY <2>2, <2>3
<1> QED BY <1>1, <1>3, <1>4, <1>5 DEF Journal

\* Dropping the handle keeps the journal.
LEMMA CloseKeepsJournal == ASSUME Journal, CloseStore PROVE Journal'
<1>1. Bookkeeping'
  BY CloseKeepsBooks DEF Journal
<1>2. TerminalRunsExplained'
  BY ExplanationsKept DEF CloseStore
<1> QED BY <1>1, <1>2 DEF CloseStore, Journal, CheckpointsJournalled, ActiveRunsUnfinished

\* create_run keeps the journal.
LEMMA CreateKeepsJournal ==
  ASSUME Journal, NEW r \in Runs,
         NEW p \in {None} \cup [run : Runs, checkpoint : CheckpointIds], CreateRun(r, p)
  PROVE  Journal'
<1>1. Bookkeeping'
  BY CreateKeepsBooks DEF Journal
<1>2. row[r] \in Rows /\ row[r].status = "absent"
  BY DEF CreateRun, Journal, Bookkeeping, StoreTypeOK
<1>3. row'[r] = [row[r] EXCEPT !.status = "preparing"]
      /\ \A q \in Runs : q # r => row'[q] = row[q]
  BY DEF CreateRun, Journal, Bookkeeping, StoreTypeOK
<1>4. row'[r].status = "preparing" /\ row'[r].exit = row[r].exit
  BY <1>2, <1>3 DEF Rows
<1>5. TerminalRunsExplained'
  BY <1>2, <1>3, <1>4, ExplanationsKept DEF CreateRun, Terminal
<1>6. ActiveRunsUnfinished'
  BY <1>2, <1>3, <1>4 DEF Journal, ActiveRunsUnfinished, Terminal
<1> QED BY <1>1, <1>5, <1>6 DEF CreateRun, Journal, CheckpointsJournalled

\* mark_run_running keeps the journal.
LEMMA MarkRunningKeepsJournal ==
  ASSUME Journal, NEW r \in Runs, NEW s \in Snapshots, MarkRunRunning(r, s)
  PROVE  Journal'
<1>1. Bookkeeping'
  BY MarkRunningKeepsBooks DEF Journal
<1>2. row[r] \in Rows /\ row[r].status = "preparing"
  BY DEF MarkRunRunning, Journal, Bookkeeping, StoreTypeOK
<1>3. row'[r] = [row[r] EXCEPT !.status = "running", !.initial = s]
      /\ \A q \in Runs : q # r => row'[q] = row[q]
  BY <1>2 DEF MarkRunRunning, Journal, Bookkeeping, StoreTypeOK, Rows
<1>4. row'[r].status = "running" /\ row'[r].exit = row[r].exit
  BY <1>2, <1>3 DEF Rows
<1>5. TerminalRunsExplained'
  BY <1>2, <1>3, <1>4, ExplanationsKept DEF MarkRunRunning, Terminal
<1>6. ActiveRunsUnfinished'
  BY <1>2, <1>3, <1>4 DEF Journal, ActiveRunsUnfinished, Terminal
<1> QED BY <1>1, <1>5, <1>6 DEF MarkRunRunning, Journal, CheckpointsJournalled

\* append_event_batch keeps the journal.
LEMMA AppendKeepsJournal ==
  ASSUME Journal, NEW r \in Runs, NEW b \in Seq(Events), AppendEventBatch(r, b)
  PROVE  Journal'
<1>1. Bookkeeping'
  BY AppendKeepsBooks DEF Journal
<1>2. CanAppend(r, b) /\ Appended(r, b) /\ row' = row /\ checkpoints' = checkpoints
  BY DEF AppendEventBatch
<1>3. TerminalRunsExplained'
  BY <1>2, AppendedGrows, ExplanationsKept DEF Journal
<1>4. CheckpointsJournalled'
  BY <1>2, AnnouncementsKept DEF CheckpointsJournalled
<1> QED BY <1>1, <1>2, <1>3, <1>4 DEF Journal, ActiveRunsUnfinished

\* commit_checkpoint_with_event keeps the journal.
LEMMA CommitWithEventKeepsJournal ==
  ASSUME Journal, NEW r \in Runs, NEW c \in Checkpoints, NEW e \in Events,
         CommitCheckpointWithEvent(r, c, e)
  PROVE  Journal'
<1>1. Bookkeeping'
  BY CommitWithEventKeepsBooks DEF Journal
<1>2. <<e>> \in Seq(Events) /\ CanAppend(r, <<e>>) /\ Appended(r, <<e>>)
  BY DEF CommitCheckpointWithEvent
<1>3. /\ \A q \in Runs : /\ row'[q].status = row[q].status
                         /\ row'[q].exit = row[q].exit
                         /\ row'[q].duration = row[q].duration
                         /\ q # r => checkpoints'[q] = checkpoints[q]
      /\ checkpoints'[r] = checkpoints[r] \cup {c}
  BY CheckpointStoredRows DEF CommitCheckpointWithEvent, Journal, Bookkeeping
<1>4. TerminalRunsExplained'
  BY <1>2, <1>3, AppendedGrows, ExplanationsKept DEF Journal
<1>5. c.seq \in 1..Len(events'[r]) /\ events'[r][c.seq].body = Committed(c)
  <2> DEFINE n == Len(events[r])
             t == events[r] \o <<e>>
  <2>1. n \in Nat /\ Len(<<e>>) = 1 /\ <<e>>[1] = e
    BY DEF Journal, Bookkeeping, StoreTypeOK
  <2>2. Len(t) = n + 1 /\ t[n+1] = e
    BY <1>2, <2>1, AppendExtends DEF Journal, Bookkeeping
  <2>3. e.seq = n + 1
    <3>1. <<e>>[1].seq = n + 1
      <4>1. 1 \in 1..Len(<<e>>)
        BY <2>1
      <4> QED BY <1>2, <4>1, BatchNumbers DEF Journal, Bookkeeping
    <3> QED BY <2>1, <3>1
  <2>4. events'[r] = t
    BY <1>2 DEF Appended, Journal, Bookkeeping, StoreTypeOK
  <2>5. e.seq = c.seq /\ e.body = Committed(c)
    BY DEF CommitCheckpointWithEvent
  <2> HIDE DEF t
  <2> QED BY <2>1, <2>2, <2>3, <2>4, <2>5
<1>6. CheckpointsJournalled'
  <2> SUFFICES ASSUME NEW q \in Runs, NEW d \in checkpoints'[q]
               PROVE d.seq \in 1..Len(events'[q]) /\ events'[q][d.seq].body = Committed(d)
    BY DEF CheckpointsJournalled, Committed
  <2>1. CASE d \in checkpoints[q]
    BY <1>2, <2>1, AnnouncementsKept
  <2>2. CASE d \notin checkpoints[q]
    <3>1. q = r /\ d = c
      BY <2>2, <1>3
    <3> QED BY <3>1, <1>5
  <2> QED BY <2>1, <2>2
<1> QED BY <1>1, <1>3, <1>4, <1>6 DEF Journal, ActiveRunsUnfinished

\* finish_run_with_events keeps the journal.
LEMMA FinishWithEventsKeepsJournal ==
  ASSUME Journal, NEW r \in Runs, NEW f \in Finishes, NEW b \in Seq(Events),
         FinishRunWithEvents(r, f, b)
  PROVE  Journal'
<1>1. Bookkeeping'
  BY FinishWithEventsKeepsBooks DEF Journal
<1>2. CanAppend(r, b) /\ Appended(r, b) /\ checkpoints' = checkpoints /\ b # <<>>
      /\ b[Len(b)].body = Completion(f)
  BY DEF FinishRunWithEvents
<1>3. /\ row'[r].status = f.status /\ row'[r].exit = f.exit
      /\ \A q \in Runs : q # r => row'[q] = row[q]
      /\ row[r].status \in Active /\ f.status \in Terminal
  BY FinishedRows DEF FinishRunWithEvents, Journal, Bookkeeping
<1>4. CheckpointsJournalled'
  BY <1>2, AnnouncementsKept DEF CheckpointsJournalled
<1>5. events'[r] # <<>> /\ events'[r][Len(events'[r])].body = Completion(row'[r])
  <2> DEFINE n == Len(events[r])
             t == events[r] \o b
  <2>1. n \in Nat /\ Len(b) \in Nat /\ Len(b) \in 1..Len(b)
    BY <1>2 DEF Journal, Bookkeeping, StoreTypeOK
  <2>2. t \in Seq(Events) /\ Len(t) = n + Len(b) /\ t[n+Len(b)] = b[Len(b)]
    BY <1>2, <2>1, AppendExtends DEF Journal, Bookkeeping
  <2>3. events'[r] = t
    BY <1>2 DEF Appended, Journal, Bookkeeping, StoreTypeOK
  <2>4. Completion(row'[r]) = Completion(f)
    BY <1>3 DEF Completion
  <2> HIDE DEF t
  <2> QED BY <1>2, <2>1, <2>2, <2>3, <2>4
<1>6. TerminalRunsExplained'
  <2> SUFFICES ASSUME NEW q \in Runs, row'[q].status \in Terminal
               PROVE \/ /\ events'[q] # <<>>
                        /\ events'[q][Len(events'[q])].body = Completion(row'[q])
                     \/ /\ row'[q].status = "interrupted"
                        /\ row'[q].exit = None
                        /\ row'[q].duration = LastOffset(q)'
                        /\ \E w \in warnings'[q] : w.code = "recovered"
    BY DEF TerminalRunsExplained
  <2>1. CASE q = r
    BY <2>1, <1>5
  <2>2. CASE q # r
    <3>1. row'[q] = row[q] /\ events'[q] = events[q] /\ warnings'[q] = warnings[q]
      BY <2>2, <1>2, <1>3 DEF Appended, Journal, Bookkeeping, StoreTypeOK
    <3>2. LastOffset(q)' = LastOffset(q)
      BY <3>1 DEF LastOffset
    <3>3. \/ /\ events[q] # <<>>
             /\ events[q][Len(events[q])].body = Completion(row[q])
          \/ /\ row[q].status = "interrupted"
             /\ row[q].exit = None
             /\ row[q].duration = LastOffset(q)
             /\ \E w \in warnings[q] : w.code = "recovered"
      BY <3>1 DEF Journal, TerminalRunsExplained
    <3> QED BY <3>1, <3>2, <3>3
  <2> QED BY <2>1, <2>2
<1>7. ActiveRunsUnfinished'
  BY <1>3 DEF Journal, ActiveRunsUnfinished
<1> QED BY <1>1, <1>4, <1>6, <1>7 DEF Journal

-----------------------------------------------------------------------------
(* What no transaction takes back.                                         *)

\* A run's status moves forward, an ended run keeps its timeline, and no
\* checkpoint row is deleted.
Forward ==
  \A q \in Runs :
    /\ \/ row'[q].status = row[q].status
       \/ row[q].status = "absent" /\ row'[q].status = "preparing"
       \/ CanTransition(row[q].status, row'[q].status)
    /\ row[q].status \in Terminal => events'[q] = events[q]
    /\ checkpoints[q] \subseteq checkpoints'[q]

\* The row, timeline and checkpoints of an ended run stay as they are.
EndedRunsKept ==
  \A q \in Runs : row[q].status \in Terminal =>
    row'[q] = row[q] /\ events'[q] = events[q] /\ checkpoints'[q] = checkpoints[q]

\* mark_interrupted_runs takes nothing back.
LEMMA RecoverForward == ASSUME Bookkeeping, Recover PROVE Forward /\ EndedRunsKept
<1>1. events' = events /\ checkpoints' = checkpoints
  BY DEF Recover
<1>2. \A q \in Runs : /\ row[q].status \notin Active => row'[q] = row[q]
                      /\ row[q].status \in Active => row'[q].status = "interrupted"
  BY RecoveredRows
<1>3. ASSUME NEW q \in Runs
      PROVE  row'[q].status = row[q].status \/ CanTransition(row[q].status, row'[q].status)
  <2>1. CASE row[q].status \in Active
    BY <2>1, <1>2 DEF CanTransition, Active, Terminal
  <2>2. CASE row[q].status \notin Active
    BY <2>2, <1>2
  <2> QED BY <2>1, <2>2
<1>4. \A q \in Runs : row[q].status \in Terminal => row'[q] = row[q]
  BY <1>2 DEF Active, Terminal
<1> QED BY <1>1, <1>3, <1>4 DEF Forward, EndedRunsKept

\* Dropping the handle takes nothing back.
LEMMA CloseForward == ASSUME Bookkeeping, CloseStore PROVE Forward /\ EndedRunsKept
BY DEF CloseStore, Forward, EndedRunsKept

\* create_run takes nothing back.
LEMMA CreateForward ==
  ASSUME Bookkeeping, NEW r \in Runs, NEW p, CreateRun(r, p) PROVE Forward /\ EndedRunsKept
<1>1. row[r] \in Rows /\ row[r].status = "absent"
  BY DEF CreateRun, Bookkeeping, StoreTypeOK
<1>2. row'[r] = [row[r] EXCEPT !.status = "preparing"]
      /\ \A q \in Runs : q # r => row'[q] = row[q]
  BY DEF CreateRun, Bookkeeping, StoreTypeOK
<1>3. row'[r].status = "preparing"
  BY <1>1, <1>2 DEF Rows
<1> QED BY <1>1, <1>2, <1>3 DEF CreateRun, Forward, EndedRunsKept, Terminal

\* mark_run_running takes nothing back.
LEMMA MarkRunningForward ==
  ASSUME Bookkeeping, NEW r \in Runs, NEW s, MarkRunRunning(r, s)
  PROVE  Forward /\ EndedRunsKept
<1>1. row[r] \in Rows /\ row[r].status = "preparing"
  BY DEF MarkRunRunning, Bookkeeping, StoreTypeOK
<1>2. row'[r] = [row[r] EXCEPT !.status = "running", !.initial = s]
      /\ \A q \in Runs : q # r => row'[q] = row[q]
  BY <1>1 DEF MarkRunRunning, Bookkeeping, StoreTypeOK, Rows
<1>3. row'[r].status = "running"
  BY <1>1, <1>2 DEF Rows
<1> QED BY <1>1, <1>2, <1>3 DEF MarkRunRunning, Forward, EndedRunsKept, CanTransition, Terminal

\* append_event_batch takes nothing back.
LEMMA AppendForward ==
  ASSUME Bookkeeping, NEW r \in Runs, NEW b \in Seq(Events), AppendEventBatch(r, b)
  PROVE  Forward /\ EndedRunsKept
<1>1. \A q \in Runs : row[q].status \in Terminal => events'[q] = events[q]
  BY AppendedGrows DEF AppendEventBatch
<1> QED BY <1>1 DEF AppendEventBatch, Forward, EndedRunsKept

\* commit_checkpoint_with_event takes nothing back.
LEMMA CommitWithEventForward ==
  ASSUME Bookkeeping, NEW r \in Runs, NEW c \in Checkpoints, NEW e \in Events,
         CommitCheckpointWithEvent(r, c, e)
  PROVE  Forward /\ EndedRunsKept
<1>1. \A q \in Runs : row[q].status \in Terminal => events'[q] = events[q]
  <2>1. <<e>> \in Seq(Events)
    OBVIOUS
  <2> QED BY <2>1, AppendedGrows DEF CommitCheckpointWithEvent
<1>2. /\ \A q \in Runs : /\ row'[q].status = row[q].status
                         /\ q # r => row'[q] = row[q] /\ checkpoints'[q] = checkpoints[q]
      /\ checkpoints'[r] = checkpoints[r] \cup {c}
  BY CheckpointStoredRows DEF CommitCheckpointWithEvent, Bookkeeping
<1>3. row[r].status \in Active
  BY DEF CommitCheckpointWithEvent, CanAppend
<1> QED BY <1>1, <1>2, <1>3 DEF Forward, EndedRunsKept, Active, Terminal

\* finish_run_with_events takes nothing back.
LEMMA FinishWithEventsForward ==
  ASSUME Bookkeeping, NEW r \in Runs, NEW f \in Finishes, NEW b \in Seq(Events),
         FinishRunWithEvents(r, f, b)
  PROVE  Forward /\ EndedRunsKept
<1>1. \A q \in Runs : row[q].status \in Terminal => events'[q] = events[q]
  BY AppendedGrows DEF FinishRunWithEvents
<1>2. /\ row'[r].status = f.status
      /\ \A q \in Runs : q # r => row'[q] = row[q]
      /\ row[r].status \in Active
  BY FinishedRows DEF FinishRunWithEvents, Bookkeeping
<1>3. CanTransition(row[r].status, f.status) /\ checkpoints' = checkpoints
  BY DEF FinishRunWithEvents, CanFinish
<1> QED BY <1>1, <1>2, <1>3 DEF Forward, EndedRunsKept, Active, Terminal

\* store_snapshot takes nothing back.
LEMMA StoreSnapshotForward ==
  ASSUME Bookkeeping, NEW s, StoreSnapshot(s) PROVE Forward
BY DEF StoreSnapshot, Forward

\* commit_checkpoint takes nothing back.
LEMMA CommitForward ==
  ASSUME Bookkeeping, NEW r \in Runs, NEW c \in Checkpoints, CommitCheckpoint(r, c)
  PROVE  Forward
<1>1. /\ \A q \in Runs : /\ row'[q].status = row[q].status
                         /\ q # r => checkpoints'[q] = checkpoints[q]
      /\ checkpoints'[r] = checkpoints[r] \cup {c}
  BY CheckpointStoredRows DEF CommitCheckpoint, Bookkeeping
<1> QED BY <1>1 DEF CommitCheckpoint, Forward

\* finish_run takes nothing back.
LEMMA FinishForward ==
  ASSUME Bookkeeping, NEW r \in Runs, NEW f \in Finishes, FinishRun(r, f)
  PROVE  Forward
<1>1. /\ row'[r].status = f.status
      /\ \A q \in Runs : q # r => row'[q] = row[q]
  BY FinishedRows DEF FinishRun, Bookkeeping
<1> QED BY <1>1 DEF FinishRun, CanFinish, Forward

-----------------------------------------------------------------------------
(* Fork ancestry.                                                          *)

\* The run a fork names exists: a run is created after its parent.
ParentsExist ==
  \A q \in Runs : parent[q] # None =>
    parent[q].run \in Runs /\ row[parent[q].run].status # "absent"

\* Lineage under any assignment of parents.
Ancestors(f, p) ==
  {a \in Runs : \A S \in SUBSET Runs :
     (p \in S /\ \A x \in S : f[x] # None => f[x].run \in S) => a \in S}

\* A run is an ancestor of p unless a set closed under parents separates them.
Closed(f, S, p) == p \in S /\ \A x \in S : f[x] # None => f[x].run \in S

\* A run that some closed set separates from p is not an ancestor of p, and conversely.
LEMMA NotAnAncestor ==
  ASSUME NEW f, NEW p, NEW r \in Runs
  PROVE  r \notin Ancestors(f, p) <=> \E S \in SUBSET Runs : Closed(f, S, p) /\ r \notin S
BY DEF Ancestors, Closed

\* AncestryWellFounded in terms of Ancestors, before and after a step.
LEMMA AncestryUnfolded ==
  /\ AncestryWellFounded <=>
       \A q \in Runs : parent[q] # None =>
         /\ q \notin Ancestors(parent, parent[q].run)
         /\ \E c \in checkpoints[parent[q].run] : c.id = parent[q].checkpoint
  /\ AncestryWellFounded' <=>
       \A q \in Runs : parent'[q] # None =>
         /\ q \notin Ancestors(parent', parent'[q].run)
         /\ \E c \in checkpoints'[parent'[q].run] : c.id = parent'[q].checkpoint
BY DEF AncestryWellFounded, Lineage, Ancestors

\* A step that links nothing and takes nothing back keeps ancestry well founded.
LEMMA AncestryKept ==
  ASSUME AncestryWellFounded, ParentsExist, Forward, parent' = parent
  PROVE  AncestryWellFounded' /\ ParentsExist'
<1>1. \A q \in Runs : row[q].status # "absent" => row'[q].status # "absent"
  BY DEF Forward, CanTransition, Terminal
<1>2. ParentsExist'
  BY <1>1 DEF ParentsExist
<1>3. AncestryWellFounded'
  BY AncestryUnfolded DEF Forward, ParentsExist
<1> QED BY <1>2, <1>3

\* create_run keeps ancestry well founded: the new run is nobody's parent yet,
\* and it is not an ancestor of its own parent (reject_parent_cycle).
LEMMA CreateKeepsAncestry ==
  ASSUME Bookkeeping, AncestryWellFounded, ParentsExist, NEW r \in Runs,
         NEW p \in {None} \cup [run : Runs, checkpoint : CheckpointIds], CreateRun(r, p)
  PROVE  AncestryWellFounded' /\ ParentsExist'
<1>1. /\ parent'[r] = p
      /\ \A q \in Runs : q # r => parent'[q] = parent[q] /\ row'[q] = row[q]
      /\ row[r].status = "absent" /\ row'[r].status = "preparing"
      /\ checkpoints' = checkpoints
  <2>1. row[r] \in Rows
    BY DEF Bookkeeping, StoreTypeOK
  <2>2. row'[r] = [row[r] EXCEPT !.status = "preparing"]
    BY DEF CreateRun, Bookkeeping, StoreTypeOK
  <2>3. row'[r].status = "preparing"
    BY <2>1, <2>2 DEF Rows
  <2> QED BY <2>3 DEF CreateRun, Bookkeeping, StoreTypeOK
<1>2. p # None => /\ p.run \in Runs /\ row[p.run].status # "absent"
                  /\ r \notin Ancestors(parent, p.run)
                  /\ \E c \in checkpoints[p.run] : c.id = p.checkpoint
  BY DEF CreateRun, Lineage, Ancestors
<1>3. ParentsExist'
  <2> SUFFICES ASSUME NEW q \in Runs, parent'[q] # None
               PROVE parent'[q].run \in Runs /\ row'[parent'[q].run].status # "absent"
    BY DEF ParentsExist
  <2>1. parent'[q].run \in Runs /\ row[parent'[q].run].status # "absent"
    BY <1>1, <1>2 DEF ParentsExist
  <2> QED BY <2>1, <1>1
<1>4. ASSUME NEW q \in Runs, NEW a \in Runs, NEW S \in SUBSET Runs,
             Closed(parent, S, a), q \notin S, a # r
      PROVE  q \notin Ancestors(parent', a)
  <2> DEFINE T == S \ {r}
  <2>1. T \in SUBSET Runs /\ a \in T /\ q \notin T
    BY <1>4 DEF Closed
  <2>2. ASSUME NEW x \in T, parent'[x] # None PROVE parent'[x].run \in T
    <3>1. x \in S /\ x \in Runs /\ parent'[x] = parent[x]
      BY <1>1
    <3>2. parent[x].run \in S /\ row[parent[x].run].status # "absent"
      BY <3>1, <2>2, <1>4 DEF Closed, ParentsExist
    <3> QED BY <3>1, <3>2, <1>1
  <2> HIDE DEF T
  <2> QED BY <2>1, <2>2, NotAnAncestor DEF Closed
<1>5. ASSUME NEW q \in Runs, parent'[q] # None
      PROVE  /\ q \notin Ancestors(parent', parent'[q].run)
             /\ \E c \in checkpoints'[parent'[q].run] : c.id = parent'[q].checkpoint
  <2>1. CASE q = r
    <3>1. p # None /\ parent'[q] = p
      BY <2>1, <1>1, <1>5
    <3>2. PICK S \in SUBSET Runs : Closed(parent, S, p.run) /\ r \notin S
      BY <3>1, <1>2, NotAnAncestor
    <3>3. \A x \in S : parent'[x] = parent[x]
      BY <3>2, <1>1
    <3>4. Closed(parent', S, p.run)
      BY <3>2, <3>3 DEF Closed
    <3>5. r \notin Ancestors(parent', p.run)
      BY <3>2, <3>4, NotAnAncestor
    <3> QED BY <2>1, <3>1, <3>5, <1>1, <1>2
  <2>2. CASE q # r
    <3>1. parent'[q] = parent[q] /\ parent[q] # None
      BY <2>2, <1>1, <1>5
    <3>2. /\ parent[q].run \in Runs /\ parent[q].run # r
          /\ q \notin Ancestors(parent, parent[q].run)
          /\ \E c \in checkpoints[parent[q].run] : c.id = parent[q].checkpoint
      BY <3>1, <1>1, AncestryUnfolded DEF ParentsExist
    <3>3. PICK S \in SUBSET Runs : Closed(parent, S, parent[q].run) /\ q \notin S
      BY <3>2, NotAnAncestor
    <3>4. q \notin Ancestors(parent', parent[q].run)
      BY <3>2, <3>3, <1>4
    <3> QED BY <3>1, <3>2, <3>4, <1>1
  <2> QED BY <2>1, <2>2
<1> QED BY <1>3, <1>5, AncestryUnfolded
=============================================================================
