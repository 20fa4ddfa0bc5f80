----------------------------- MODULE PartsProofs -----------------------------
(***************************************************************************)
(* What is proved of the components of Parts other than the workspace: the *)
(* proof of each is an invariant of its own specification, then of the     *)
(* behaviours of Parts.                                                    *)
(***************************************************************************)
EXTENDS Parts, FiniteSetTheorems, WellFoundedInduction, TLAPS

Below == {p \in Nat \X Nat : p[1] < p[2]}

\* Every nonempty set of naturals has a least element: the form in which the
\* proofs below use induction.
LEMMA LeastNatural ==
  ASSUME NEW T, T \subseteq Nat, T # {}
  PROVE  \E x \in T : \A y \in T : x <= y
<1>1. IsWellFoundedOn(Below, Nat)
  BY NatLessThanWellFounded DEF OpToRel, Below
<1>2. PICK x \in T : \A y \in T : <<y, x>> \notin Below
  BY <1>1, WFMin
<1>3. ASSUME NEW y \in T PROVE x <= y
  <2>1. x \in Nat /\ y \in Nat /\ <<y, x>> \in Nat \X Nat
    OBVIOUS
  <2>2. ~ (<<y, x>>[1] < <<y, x>>[2])
    BY <1>2, <2>1 DEF Below
  <2> QED BY <2>1, <2>2
<1> QED BY <1>3

\* A nonempty set of naturals with an upper bound has a greatest element.
LEMMA GreatestNatural ==
  ASSUME NEW T, T \subseteq Nat, T # {}, NEW b \in Nat, \A t \in T : t <= b
  PROVE  \E x \in T : \A y \in T : y <= x
<1> DEFINE U == {u \in Nat : \A t \in T : t <= u}
<1>1. PICK u \in U : \A v \in U : u <= v
  <2>1. U \subseteq Nat /\ U # {}
    OBVIOUS
  <2> HIDE DEF U
  <2> QED BY <2>1, LeastNatural
<1>2. u \in T
  <2>1. SUFFICES ASSUME u \notin T PROVE FALSE
    OBVIOUS
  <2>2. \A t \in T : t < u
    BY <2>1, <1>1
  <2>3. u - 1 \in U
    <3>1. PICK t \in T : t < u
      BY <2>2
    <3>2. u - 1 \in Nat
      BY <3>1, u \in Nat, t \in Nat
    <3>3. \A x \in T : x <= u - 1
      BY <2>2, u \in Nat
    <3> QED BY <3>2, <3>3
  <2> QED BY <2>3, <1>1
<1> QED BY <1>1, <1>2

-----------------------------------------------------------------------------
(* The composition.                                                        *)

\* A step is one of the part that was chosen at the start, or leaves it alone.
LEMMA OnePart ==
  ASSUME [PartsNext]_partsVars
  PROVE  /\ part' = part
         /\ part = "clone" => [Cloning!Next]_(Cloning!vars)
         /\ part # "clone" => UNCHANGED cloneVars
         /\ part = "checkout" => [Checkout!Next]_(Checkout!vars)
         /\ part = "interface" => [Interface!Next]_(Interface!vars)
         /\ part = "collection" => [Collection!Next]_(Collection!vars)
         /\ part = "comparing" => [Comparing!Next]_(Comparing!vars)
         /\ part = "exporting" => [Exporting!Next]_(Exporting!vars)
<1>1. CASE WorkspaceStep
  BY <1>1, Zenon DEF WorkspaceStep
<1>2. CASE CloneStep
  BY <1>2, Zenon DEF CloneStep
<1>3. CASE CheckoutStep
  BY <1>3, Zenon DEF CheckoutStep
<1>4. CASE InterfaceStep
  BY <1>4, Zenon DEF InterfaceStep
<1>5. CASE CollectionStep
  BY <1>5, Zenon DEF CollectionStep
<1>6. CASE ComparingStep
  BY <1>6, Zenon DEF ComparingStep
<1>7. CASE ExportingStep
  BY <1>7, Zenon DEF ExportingStep
<1>8. CASE UNCHANGED partsVars
  BY <1>8
  DEF partsVars, cloneVars, materialVars, replayVars, cursorVars, compareVars, exportVars,
      Cloning!vars, Cloning!walkVars, Checkout!vars, Checkout!names, Checkout!tree, Checkout!users,
      Interface!vars, Collection!vars, Comparing!vars, Exporting!vars, Exporting!readVars, Exporting!fileVars
<1> QED BY <1>1, <1>2, <1>3, <1>4, <1>5, <1>6, <1>7, <1>8 DEF PartsNext

-----------------------------------------------------------------------------
(* Garbage collection.                                                     *)

\* Instances count as FiniteSets does.
LEMMA SameCardinality ==
  ASSUME NEW S
  PROVE  Collection!Cardinality(S) = Cardinality(S)
BY DEF Collection!Cardinality, Cardinality, Collection!IsFiniteSet, IsFiniteSet

\* A page P has ids of S after a cursor; what it leaves out comes after all it
\* has, and it says so.
Covers(P, S, from) ==
  /\ P.ids \subseteq S /\ \A i \in P.ids : i > from
  /\ \A i \in S : i > from => i \in P.ids \/ (P.more /\ \A j \in P.ids : j < i)

\* So has one that was just read.
LEMMA PageCovers ==
  ASSUME Collection!GcAssumption, NEW S \in SUBSET Collection!Ids, NEW from \in Nat
  PROVE  /\ Collection!Page(S, from) \in Collection!Pages
         /\ Covers(Collection!Page(S, from), S, from)
<1> DEFINE rest == {i \in S : i > from}
           Rank(i) == {j \in rest : j < i}
           P == Collection!Page(S, from)
<1>0. MaxId \in Nat /\ ObjectPage \in Nat /\ S \in SUBSET (1..MaxId)
  BY DEF Collection!GcAssumption, Collection!Ids
<1>1. /\ rest \in SUBSET (1..MaxId) /\ rest \in SUBSET S /\ \A i \in S : i \in rest <=> i > from
      /\ \A i \in rest : Rank(i) \in SUBSET rest
      /\ \A i, j \in rest : j \in Rank(i) <=> j < i
  BY <1>0, Zenon
<1>2. P = [ids |-> {i \in rest : Cardinality(Rank(i)) < ObjectPage}, more |-> Cardinality(rest) > ObjectPage]
  BY SameCardinality, Zenon DEF Collection!Page
<1> HIDE DEF rest, Rank, P
<1>3. IsFiniteSet(rest)
  <2>1. IsFiniteSet(1..MaxId)
    BY <1>0, FS_Interval
  <2> QED BY <2>1, <1>1, FS_Subset
<1>4. ASSUME NEW T \in SUBSET rest
      PROVE  IsFiniteSet(T) /\ Cardinality(T) \in Nat /\ Cardinality(T) <= Cardinality(rest)
  BY <1>3, FS_Subset, FS_CardinalityType
<1>5. /\ P.ids = {i \in rest : Cardinality(Rank(i)) < ObjectPage}
      /\ P.more = (Cardinality(rest) > ObjectPage)
  BY <1>2
<1>50. rest \in SUBSET Nat /\ P.ids \in SUBSET rest
  <2>1. 1..MaxId \in SUBSET Nat
    BY <1>0
  <2> QED BY <2>1, <1>1, <1>5, Zenon
<1>6. P \in Collection!Pages
  <2> DEFINE first == {i \in rest : Cardinality(Rank(i)) < ObjectPage}
             beyond == Cardinality(rest) > ObjectPage
  <2>1. first \in SUBSET (1..MaxId) /\ beyond \in BOOLEAN
    <3>1. first \in SUBSET rest
      OBVIOUS
    <3>2. beyond \in BOOLEAN
      OBVIOUS
    <3> QED BY <1>1, <3>1, <3>2, Zenon
  <2>2. P = [ids |-> first, more |-> beyond]
    BY <1>2
  <2> HIDE DEF first, beyond
  <2> QED BY <2>1, <2>2 DEF Collection!Pages, Collection!Ids
<1>7. ASSUME NEW i \in rest, i \notin P.ids
      PROVE  P.more /\ \A j \in P.ids : j < i
  <2>0. i \in Nat /\ i \notin Rank(i)
    BY <1>0, <1>1
  <2>1. Cardinality(Rank(i)) >= ObjectPage /\ Cardinality(Rank(i)) \in Nat /\ IsFiniteSet(Rank(i))
    BY <1>0, <1>1, <1>4, <1>5, <1>7
  <2>2. Cardinality(Rank(i) \cup {i}) = Cardinality(Rank(i)) + 1
    BY <2>0, <2>1, FS_AddElement
  <2>3. Cardinality(Rank(i) \cup {i}) <= Cardinality(rest) /\ Cardinality(rest) \in Nat
    BY <1>1, <1>4
  <2>4. P.more
    <3>1. Cardinality(rest) > ObjectPage
      BY <2>1, <2>2, <2>3, <1>0
    <3> QED BY <3>1, <1>5, Zenon
  <2>5. ASSUME NEW j \in P.ids, ~(j < i) PROVE FALSE
    <3>1. j \in rest /\ j \in Nat /\ Cardinality(Rank(j)) < ObjectPage
      BY <1>50, <1>5, Zenon
    <3>2. \A k \in Rank(i) : k \in rest /\ k \in Nat /\ k < i
      BY <1>50, <1>1, Zenon
    <3>3. Rank(i) \in SUBSET Rank(j)
      BY <3>1, <3>2, <2>0, <2>5, <1>1
    <3>4. IsFiniteSet(Rank(j)) /\ Cardinality(Rank(j)) \in Nat
      BY <3>1, <1>1, <1>4
    <3>5. Cardinality(Rank(i)) <= Cardinality(Rank(j))
      BY <3>3, <3>4, FS_Subset
    <3> QED BY <3>1, <3>4, <3>5, <2>1, <1>0
  <2> QED BY <2>4, <2>5
<1>8. \A i \in P.ids : i \in S /\ i > from
  BY <1>1, <1>50, Zenon
<1>9. \A i \in S : i > from => i \in P.ids \/ (P.more /\ \A j \in P.ids : j < i)
  BY <1>1, <1>7, Zenon
<1> QED BY <1>6, <1>8, <1>9, Zenon DEF P, Covers

\* The least id of a page is next.
LEMMA NextOfPage ==
  ASSUME Collection!GcAssumption, NEW S \in SUBSET Collection!Ids, NEW from \in Nat,
         NEW P \in Collection!Pages, Covers(P, S, from), P.ids # {}
  PROVE  LET n == Collection!Least(P.ids)
         IN /\ n \in P.ids /\ n \in S /\ n > from /\ \A i \in P.ids : n <= i
            /\ \A i \in S : i > from => i >= n
<1> DEFINE n == Collection!Least(P.ids)
<1>1. 1..MaxId \in SUBSET Nat
  BY DEF Collection!GcAssumption
<1>2. P.ids \in SUBSET Nat /\ S \in SUBSET Nat
  BY <1>1, Zenon DEF Covers, Collection!Ids
<1>3. \E i \in P.ids : \A j \in P.ids : i <= j
  BY <1>2, LeastNatural
<1>4. n \in P.ids /\ \A i \in P.ids : n <= i
  BY <1>3, Zenon DEF Collection!Least
<1> HIDE DEF n
<1>5. ASSUME NEW i \in S, i > from PROVE i >= n
  <2>1. i \in P.ids \/ \A j \in P.ids : j < i
    BY <1>5, Zenon DEF Covers
  <2> QED BY <2>1, <1>2, <1>4
<1> QED BY <1>4, <1>5, Zenon DEF Covers, n

\* Once it was taken the page covers what is left.
LEMMA PageWithoutNext ==
  ASSUME Collection!GcAssumption, NEW S \in SUBSET Collection!Ids, NEW from \in Nat,
         NEW P \in Collection!Pages, Covers(P, S, from), NEW n \in P.ids, \A i \in P.ids : n <= i,
         NEW T \in SUBSET S, S \ {n} \subseteq T
  PROVE  /\ [P EXCEPT !.ids = @ \ {n}] \in Collection!Pages
         /\ Covers([P EXCEPT !.ids = @ \ {n}], T, n)
<1> DEFINE Q == [P EXCEPT !.ids = @ \ {n}]
<1>1. 1..MaxId \in SUBSET Nat
  BY DEF Collection!GcAssumption
<1>2. P.ids \in SUBSET Nat /\ S \in SUBSET Nat /\ n \in S /\ n > from
  BY <1>1, Zenon DEF Covers, Collection!Ids
<1>3. Q \in Collection!Pages /\ Q.ids = P.ids \ {n} /\ Q.more = P.more
  BY DEF Collection!Pages
<1> HIDE DEF Q
<1>4. \A i \in Q.ids : i \in T /\ i > n
  <2>1. \A i \in Q.ids : i \in T
    BY <1>3, Zenon DEF Covers
  <2>2. \A i \in Q.ids : i > n
    BY <1>2, <1>3
  <2> QED BY <2>1, <2>2
<1>5. ASSUME NEW i \in T, i > n PROVE i \in Q.ids \/ (Q.more /\ \A j \in Q.ids : j < i)
  <2>0. i \in S /\ i \in Nat /\ n \in Nat
    BY <1>2, Zenon
  <2>1. i > from /\ i # n /\ i \in S
    BY <2>0, <1>2, <1>5
  <2>2. i \in P.ids \/ (P.more /\ \A j \in P.ids : j < i)
    BY <2>1, Zenon DEF Covers
  <2> QED BY <2>1, <2>2, <1>3, Zenon
<1> QED BY <1>3, <1>4, <1>5, Zenon DEF Covers, Q

\* Below the cursor every row was kept for a reference or counted; the page has
\* the first rows above it.
RowsByCursor ==
  stage = "rows" =>
    /\ \A i \in rows : i <= cursor => i \in references \cup unreachable
    /\ Covers(page, rows, cursor)

\* The references that are no longer on their page were passed by the rows.
ReferencesByCursor == stage = "rows" => after <= cursor /\ Covers(cited, references, after)

\* Files without a row are either ahead of the cursor or reported and, unless
\* this is a dry run, gone.
FilesByCursor ==
  stage = "files" =>
    /\ \A i \in files \ rows : i <= cursor => i \in artifacts /\ ~delete
    /\ Covers(page, files \ rows, cursor)

CollectionInv ==
  /\ Collection!TypeOK /\ Collection!CollectsExactly
  /\ RowsByCursor /\ ReferencesByCursor /\ FilesByCursor
  /\ stage \in {"files", "done"} => rows \subseteq references \cup unreachable
  /\ delete => unreachable \cap rows = {}

\* The first pages cover all rows and all references.
LEMMA CollectionInit ==
  ASSUME Collection!GcAssumption, Collection!Init
  PROVE  CollectionInv
<1> USE DEF Collection!Init
<1>1. rows \in SUBSET Collection!Ids /\ references \in SUBSET Collection!Ids /\ 0 \in Nat
  OBVIOUS
<1>2. page \in Collection!Pages /\ Covers(page, rows, 0)
  BY <1>1, PageCovers, Zenon
<1>3. cited \in Collection!Pages /\ Covers(cited, references, 0)
  BY <1>1, PageCovers, Zenon
<1>4. \A i \in rows : ~(i <= 0)
  BY <1>1 DEF Collection!Ids, Collection!GcAssumption
<1>5. Collection!TypeOK
  BY <1>2, <1>3 DEF Collection!TypeOK
<1>6. 0 <= 0
  OBVIOUS
<1> QED
  BY <1>1, <1>2, <1>3, <1>4, <1>5, <1>6
  DEF CollectionInv, RowsByCursor, ReferencesByCursor, FilesByCursor, Collection!CollectsExactly

\* Each round of the merge, each visit and each page read preserves it.
LEMMA CollectionPreserved ==
  ASSUME Collection!GcAssumption, CollectionInv, [Collection!Next]_(Collection!vars)
  PROVE  CollectionInv'
<1>1. /\ Collection!TypeOK /\ rows \in SUBSET Collection!Ids /\ references \in SUBSET Collection!Ids
      /\ files \in SUBSET Collection!Ids /\ files \ rows \in SUBSET Collection!Ids
      /\ Collection!Ids \in SUBSET Nat /\ cursor \in Nat /\ after \in Nat
      /\ page \in Collection!Pages /\ cited \in Collection!Pages
  BY DEF CollectionInv, Collection!TypeOK, Collection!Ids, Collection!GcAssumption
<1>2. CASE Collection!AdvanceBefore
  <2> DEFINE row == Collection!Least(page.ids)
             passed == Collection!Passed(row)
  <2>1. stage = "rows" /\ page.ids # {} /\ Covers(page, rows, cursor) /\ Covers(cited, references, after)
    BY <1>2 DEF Collection!AdvanceBefore, CollectionInv, RowsByCursor, ReferencesByCursor
  <2>2. row \in page.ids /\ row > cursor /\ row \in Nat /\ \A i \in rows : i > cursor => i >= row
    BY <1>1, <2>1, NextOfPage
  <2>3. UNCHANGED <<rows, references, files, delete, stage, page, cursor, unreachable, artifacts>>
    BY <1>2 DEF Collection!AdvanceBefore
  <2>4. CASE passed # {}
    <3> HIDE DEF row
    <3>1. cited' = [cited EXCEPT !.ids = @ \ passed] /\ after' = CHOOSE i \in passed : \A j \in passed : j <= i
      BY <1>2, <2>4 DEF Collection!AdvanceBefore, row
    <3>2. \A i : i \in passed <=> i \in cited.ids /\ i < row
      BY DEF Collection!Passed
    <3> HIDE DEF passed
    <3>3. cited.ids \in SUBSET references /\ passed \in SUBSET Nat /\ passed \in SUBSET references
      BY <1>1, <2>1, <3>2, Zenon DEF Covers
    <3>4. \A t \in passed : t <= row
      BY <2>2, <3>2, <3>3
    <3>5. \E i \in passed : \A j \in passed : j <= i
      BY <2>2, <2>4, <3>3, <3>4, GreatestNatural
    <3>6. after' \in passed /\ \A j \in passed : j <= after'
      BY <3>1, <3>5, Zenon
    <3>7. after' <= cursor
      <4>1. after' \in rows /\ after' \in Nat /\ after' < row
        BY <3>2, <3>3, <3>6, Zenon DEF CollectionInv, Collection!CollectsExactly
      <4> QED BY <4>1, <2>2, <1>1
    <3>8. cited' \in Collection!Pages /\ cited'.ids = cited.ids \ passed /\ cited'.more = cited.more
      BY <3>1, <1>1 DEF Collection!Pages
    <3>9. Covers(cited', references, after')
      <4>1. \A i \in cited'.ids : i \in references /\ i > after'
        <5>1. ASSUME NEW i \in cited'.ids
              PROVE  i \in references /\ i \in Nat /\ ~(i < row)
          BY <3>2, <3>3, <3>8, <1>1, Zenon
        <5>2. after' \in Nat /\ after' < row
          BY <3>2, <3>3, <3>6, Zenon
        <5> QED BY <5>1, <5>2, <2>2
      <4>2. ASSUME NEW i \in references, i > after'
            PROVE  i \in cited'.ids \/ (cited'.more /\ \A j \in cited'.ids : j < i)
        <5>1. i > after /\ i \notin passed
          <6>1. after' \in Nat /\ after' > after /\ i \in Nat
            BY <3>2, <3>3, <3>6, <2>1, <1>1, Zenon DEF Covers
          <6> QED BY <6>1, <4>2, <3>6, <1>1
        <5>2. i \in cited.ids \/ (cited.more /\ \A j \in cited.ids : j < i)
          BY <2>1, <4>2, <5>1, Zenon DEF Covers
        <5> QED BY <5>1, <5>2, <3>8, Zenon
      <4> QED BY <4>1, <4>2, Zenon DEF Covers
    <3>10. after' \in Collection!Ids
      BY <3>3, <3>6, <1>1
    <3> QED
      BY <2>3, <3>7, <3>8, <3>9, <3>10, <1>1
      DEF CollectionInv, RowsByCursor, ReferencesByCursor, FilesByCursor, Collection!TypeOK,
          Collection!CollectsExactly, Covers
  <2>5. CASE passed = {}
    <3>1. cited' = Collection!Page(references, after) /\ after' = after
      BY <1>2, <2>5 DEF Collection!AdvanceBefore
    <3>2. cited' \in Collection!Pages /\ Covers(cited', references, after')
      BY <3>1, <1>1, PageCovers, Zenon
    <3> QED
      BY <2>1, <2>3, <3>1, <3>2, <1>1
      DEF CollectionInv, RowsByCursor, ReferencesByCursor, FilesByCursor, Collection!TypeOK,
          Collection!CollectsExactly, Covers
  <2> QED BY <2>4, <2>5
<1>3. CASE Collection!VisitRow
  <2> DEFINE row == Collection!Least(page.ids)
             gone == IF delete THEN {row} \ references ELSE {}
  <2>1. /\ stage = "rows" /\ page.ids # {} /\ Covers(page, rows, cursor) /\ after <= cursor
        /\ Covers(cited, references, after) /\ ~Collection!Behind(row)
    BY <1>3 DEF Collection!VisitRow, CollectionInv, RowsByCursor, ReferencesByCursor
  <2>2. /\ row \in page.ids /\ row \in rows /\ row > cursor /\ row \in Nat /\ row \in Collection!Ids
        /\ (\A i \in page.ids : row <= i) /\ \A i \in rows : i > cursor => i >= row
    BY <1>1, <2>1, NextOfPage
  <2>3. /\ cursor' = row /\ page' = [page EXCEPT !.ids = @ \ {row}]
        /\ UNCHANGED <<references, delete, cited, after, artifacts>>
    BY <1>3 DEF Collection!VisitRow
  <2>4. IF cited.ids # {} /\ Collection!Least(cited.ids) = row
        THEN UNCHANGED <<rows, files, stage, unreachable>>
        ELSE /\ unreachable' = unreachable \cup {row}
             /\ rows' = rows \ gone /\ files' = files \ gone
             /\ stage' = IF delete /\ gone = {} THEN "failed" ELSE stage
    BY <1>3 DEF Collection!VisitRow
  <2> HIDE DEF row
  <2>5. row \in references <=> cited.ids # {} /\ Collection!Least(cited.ids) = row
    <3>1. ASSUME row \in references PROVE cited.ids # {} /\ Collection!Least(cited.ids) = row
      <4>1. row > after
        BY <2>1, <2>2, <1>1
      <4>2. (\A i \in cited.ids : ~(i < row)) /\ ~(cited.ids = {} /\ cited.more)
        BY <2>1, Zenon DEF Collection!Behind, Collection!Passed
      <4>3. row \in cited.ids \/ (cited.more /\ \A j \in cited.ids : j < row)
        BY <2>1, <3>1, <4>1, Zenon DEF Covers
      <4>4. row \in cited.ids
        BY <4>2, <4>3, Zenon
      <4>5. /\ Collection!Least(cited.ids) \in cited.ids
            /\ Collection!Least(cited.ids) <= row /\ Collection!Least(cited.ids) \in Nat
        BY <1>1, <2>1, <4>4, NextOfPage
      <4>6. ~(Collection!Least(cited.ids) < row)
        BY <4>2, <4>5
      <4> QED BY <4>4, <4>5, <4>6, <2>2
    <3>2. ASSUME cited.ids # {}, Collection!Least(cited.ids) = row PROVE row \in references
      BY <1>1, <2>1, <3>2, NextOfPage
    <3> QED BY <3>1, <3>2
  <2>6. /\ rows' \in SUBSET rows /\ rows \ {row} \subseteq rows' /\ stage' = "rows"
        /\ references \subseteq rows' \cap files' /\ files' \in SUBSET files
        /\ unreachable' \subseteq unreachable \cup {row} /\ unreachable \subseteq unreachable'
        /\ row \in references \cup unreachable' /\ unreachable' \cap references = {}
        /\ delete => unreachable' \cap rows' = {}
    <3> USE DEF CollectionInv, Collection!CollectsExactly
    <3>1. CASE row \in references
      BY <2>1, <2>4, <2>5, <3>1
    <3>2. CASE row \notin references /\ delete
      BY <2>1, <2>4, <2>5, <3>2
    <3>3. CASE row \notin references /\ ~delete
      BY <2>1, <2>4, <2>5, <3>3
    <3> QED BY <3>1, <3>2, <3>3
  <2>7. page' \in Collection!Pages /\ Covers(page', rows', cursor')
    BY <1>1, <2>1, <2>2, <2>3, <2>6, PageWithoutNext
  <2>8. after' <= cursor'
    BY <1>1, <2>1, <2>2, <2>3
  <2>9. \A i \in rows' : i <= cursor' => i \in references \cup unreachable'
    <3>1. ASSUME NEW i \in rows, i <= row PROVE i = row \/ i <= cursor
      <4>1. i \in Nat
        BY <1>1
      <4> QED BY <4>1, <3>1, <2>2, <1>1
    <3> QED BY <3>1, <2>1, <2>3, <2>6 DEF CollectionInv, RowsByCursor
  <2>10. Covers(cited', references', after')
    BY <2>1, <2>3, Zenon
  <2>11. Collection!TypeOK'
    BY <1>1, <2>2, <2>3, <2>6, <2>7 DEF Collection!TypeOK
  <2>12. Collection!CollectsExactly'
    BY <2>3, <2>6 DEF Collection!CollectsExactly
  <2> QED
    BY <2>3, <2>6, <2>7, <2>8, <2>9, <2>10, <2>11, <2>12
    DEF CollectionInv, RowsByCursor, ReferencesByCursor, FilesByCursor
<1>4. CASE Collection!VisitFile
  <2> DEFINE file == Collection!Least(page.ids)
  <2>1. stage = "files" /\ page.ids # {} /\ Covers(page, files \ rows, cursor)
    BY <1>4 DEF Collection!VisitFile, CollectionInv, FilesByCursor
  <2>2. /\ file \in page.ids /\ file \in files \ rows /\ file > cursor /\ file \in Nat
        /\ file \in Collection!Ids
        /\ (\A i \in page.ids : file <= i) /\ \A i \in files \ rows : i > cursor => i >= file
    BY <1>1, <2>1, NextOfPage
  <2>3. /\ cursor' = file /\ page' = [page EXCEPT !.ids = @ \ {file}]
        /\ artifacts' = artifacts \cup {file}
        /\ UNCHANGED <<rows, references, delete, cited, after, unreachable>>
        /\ IF delete /\ file \in rows \cup references
           THEN stage' = "failed" /\ UNCHANGED files
           ELSE files' = (IF delete THEN files \ {file} ELSE files) /\ UNCHANGED stage
    BY <1>4 DEF Collection!VisitFile
  <2> HIDE DEF file
  <2>4. /\ stage' = "files" /\ files' = (IF delete THEN files \ {file} ELSE files)
        /\ references \subseteq files' /\ file \notin references
    BY <2>1, <2>2, <2>3 DEF CollectionInv, Collection!CollectsExactly
  <2>5. files' \ rows' \in SUBSET (files \ rows) /\ (files \ rows) \ {file} \subseteq files' \ rows'
    BY <2>3, <2>4
  <2>6. page' \in Collection!Pages /\ Covers(page', files' \ rows', cursor')
    BY <1>1, <2>1, <2>2, <2>3, <2>5, PageWithoutNext
  <2>7. \A i \in files' \ rows' : i <= cursor' => i \in artifacts' /\ ~delete'
    <3>1. ASSUME NEW i \in files \ rows, i <= file PROVE i = file \/ i <= cursor
      <4>1. i \in Nat
        BY <1>1
      <4> QED BY <4>1, <3>1, <2>2, <1>1
    <3> QED BY <3>1, <2>1, <2>3, <2>4, <2>5 DEF CollectionInv, FilesByCursor
  <2>8. Collection!TypeOK'
    BY <1>1, <2>2, <2>3, <2>4, <2>6 DEF Collection!TypeOK
  <2> QED
    BY <2>1, <2>3, <2>4, <2>6, <2>7, <2>8
    DEF CollectionInv, RowsByCursor, ReferencesByCursor, FilesByCursor, Collection!CollectsExactly
<1>5. CASE Collection!NextPage
  <2>1. /\ stage \in {"rows", "files"} /\ page.ids = {}
        /\ UNCHANGED <<rows, references, files, delete, cited, after, unreachable, artifacts>>
    BY <1>5 DEF Collection!NextPage
  <2>2. CASE page.more
    <3>1. /\ page' = Collection!Page(IF stage = "rows" THEN rows ELSE files \ rows, cursor)
          /\ UNCHANGED <<stage, cursor>>
      BY <1>5, <2>2 DEF Collection!NextPage
    <3>2. page' \in Collection!Pages /\ Covers(page', IF stage = "rows" THEN rows ELSE files \ rows, cursor)
      BY <1>1, <3>1, PageCovers
    <3> QED
      BY <1>1, <2>1, <3>1, <3>2
      DEF CollectionInv, RowsByCursor, ReferencesByCursor, FilesByCursor, Collection!TypeOK,
          Collection!CollectsExactly, Covers
  <2>3. CASE ~page.more /\ stage = "rows"
    <3>1. stage' = "files" /\ cursor' = 0 /\ page' = Collection!Page(files \ rows, 0)
      BY <1>5, <2>3 DEF Collection!NextPage
    <3>2. page' \in Collection!Pages /\ Covers(page', files \ rows, 0)
      BY <1>1, <3>1, PageCovers
    <3>3. \A i \in rows : i <= cursor
      <4>1. \A i \in rows : ~(i > cursor)
        BY <2>1, <2>3 DEF CollectionInv, RowsByCursor, Covers
      <4> QED BY <4>1, <1>1
    <3>4. rows \subseteq references \cup unreachable
      BY <2>3, <3>3 DEF CollectionInv, RowsByCursor
    <3>5. \A i \in files \ rows : ~(i <= 0)
      BY <1>1 DEF Collection!Ids, Collection!GcAssumption
    <3> QED
      BY <1>1, <2>1, <3>1, <3>2, <3>4, <3>5
      DEF CollectionInv, RowsByCursor, ReferencesByCursor, FilesByCursor, Collection!TypeOK,
          Collection!CollectsExactly
  <2>4. CASE ~page.more /\ stage = "files"
    <3>1. stage' = "done" /\ cursor' = 0 /\ page' = page
      BY <1>5, <2>4 DEF Collection!NextPage
    <3>2. \A i \in files \ rows : i <= cursor
      <4>1. \A i \in files \ rows : ~(i > cursor)
        BY <2>1, <2>4 DEF CollectionInv, FilesByCursor, Covers
      <4> QED BY <4>1, <1>1
    <3>3. files \ rows \subseteq artifacts /\ (delete => files \ rows = {})
      BY <2>4, <3>2, Zenon DEF CollectionInv, FilesByCursor
    <3>4. rows \subseteq references \cup unreachable /\ (delete => rows = references)
      BY <2>4 DEF CollectionInv, Collection!CollectsExactly
    <3>5. delete => files = references
      BY <3>3, <3>4 DEF CollectionInv, Collection!CollectsExactly
    <3>6. Collection!TypeOK'
      BY <1>1, <2>1, <3>1 DEF Collection!TypeOK
    <3> QED
      BY <2>1, <3>1, <3>3, <3>4, <3>5, <3>6
      DEF CollectionInv, RowsByCursor, ReferencesByCursor, FilesByCursor, Collection!CollectsExactly
  <2> QED BY <2>1, <2>2, <2>3, <2>4
<1>9. CASE UNCHANGED Collection!vars
  <2>1. /\ UNCHANGED <<rows, references, files, delete, stage, page, cursor, cited, after>>
        /\ UNCHANGED <<unreachable, artifacts>>
    BY <1>9, Zenon DEF Collection!vars
  <2>2. Collection!TypeOK' /\ Collection!CollectsExactly'
    BY <2>1, Zenon DEF CollectionInv, Collection!TypeOK, Collection!CollectsExactly
  <2> QED
    BY <2>1, <2>2, Zenon DEF CollectionInv, RowsByCursor, ReferencesByCursor, FilesByCursor
<1>10. QED
  BY <1>2, <1>3, <1>4, <1>5, <1>9 DEF Collection!Next

\* `rewind gc` reports and deletes exactly what has no reference, however its
\* pages of rows, of references and of files fall: of any store, and in any
\* composition.
THEOREM CollectionIsExact ==
  /\ Collection!Spec => [](Collection!TypeOK /\ Collection!CollectsExactly)
  /\ PartsSpec => []CollectsExactly
<1>1. Collection!Init => CollectionInv
  BY PartsAssumption, CollectionInit
<1>2. CollectionInv /\ [Collection!Next]_(Collection!vars) => CollectionInv'
  BY PartsAssumption, CollectionPreserved
<1>3. CollectionInv => Collection!TypeOK /\ Collection!CollectsExactly
  BY DEF CollectionInv
<1>4. Collection!Spec => [](Collection!TypeOK /\ Collection!CollectsExactly)
  BY <1>1, <1>2, <1>3, PTL DEF Collection!Spec
<1> DEFINE Inv == part = "collection" => CollectionInv
<1>5. PartsInit => Inv
  BY <1>1 DEF PartsInit
<1>6. Inv /\ [PartsNext]_partsVars => Inv'
  BY <1>2, OnePart
<1>7. Inv => CollectsExactly
  BY <1>3 DEF CollectsExactly
<1>8. PartsSpec => []CollectsExactly
  <2> HIDE DEF Inv
  <2> QED BY <1>5, <1>6, <1>7, PTL DEF PartsSpec
<1> QED BY <1>4, <1>8

\* The tree is complete and has not been renamed yet.
Installing == {"look", "choose", "place", "backup", "install", "rollback"}

\* What has each of the three names, by the call's progress.
NamesByProgress ==
  /\ pc \in {"build", "failing"} \cup Installing => temp = "tree"
  /\ pc \in {"begin", "preflight", "create", "remove", "sync", "done"} => temp = "absent"
  /\ pc \in {"remove", "sync", "done"} => dest = "tree"
  /\ dest = "tree" => pc \in {"remove", "sync", "done", "failed", "crashed"}
  /\ pc \notin {"install", "rollback", "remove", "failing", "failed", "crashed"} => backup = "absent"
  /\ backup # "tree"

\* Whatever is installed, or about to be, is complete.
CompleteTree ==
  pc \in Installing \/ dest = "tree" => built = Checkout!Entry /\ finished = TreeDir

\* A user's content has one name; what a call without force moves or removes
\* was put there after its second look, what a rollback replaces after the third.
ContentsTracked ==
  /\ \A c \in Checkout!Content : c \in {dest, backup} => c \in made
  /\ dest \in Checkout!Content => dest # backup
  /\ pc \in {"install", "rollback"} => (dest \in Checkout!Content => dest \in unseen)
  /\ ~force /\ pc \in {"choose", "place", "backup"} => (dest \in Checkout!Content => dest \in late)
  /\ ~force /\ pc \in {"install", "rollback", "remove"} => (backup \in Checkout!Content => backup \in late)

CheckoutInv == Checkout!TypeOK /\ NamesByProgress /\ CompleteTree /\ ContentsTracked /\ Checkout!ContentsSurvive

-----------------------------------------------------------------------------
\* The names that are no content, and the types of the fields.
LEMMA NotContent ==
  ASSUME Checkout!MaterializeAssumption
  PROVE  /\ "absent" \notin Checkout!Content /\ "empty" \notin Checkout!Content
         /\ "tree" \notin Checkout!Content /\ "rest" \notin Checkout!Content
BY DEF Checkout!MaterializeAssumption

\* The invariant holds before the first look.
LEMMA CheckoutInit ==
  ASSUME Checkout!MaterializeAssumption, Checkout!Init
  PROVE  CheckoutInv
BY NotContent DEF Checkout!Init, CheckoutInv, Checkout!TypeOK, NamesByProgress, CompleteTree, ContentsTracked,
                  Checkout!ContentsSurvive, Installing, Checkout!Things, Checkout!Content

\* A step that changes the progress alone.
LEMMA CheckoutGoes ==
  ASSUME CheckoutInv, NEW place, Checkout!Go(place),
         place \in {"preflight", "create", "build", "look", "choose", "place", "backup",
                   "rollback", "failing", "done", "failed"},
         place \in {"build", "failing"} \cup Installing => temp = "tree",
         place \in {"preflight", "create", "done"} => temp = "absent",
         place = "done" => dest = "tree",
         dest = "tree" => place \in {"done", "failed"},
         place \notin {"rollback", "failing", "failed"} => backup = "absent",
         place \in Installing => built = Checkout!Entry /\ finished = TreeDir,
         place \in {"choose", "place", "backup"} /\ ~force => dest \notin Checkout!Content \/ dest \in late,
         place = "rollback" => pc = "install"
  PROVE  CheckoutInv'
BY DEF CheckoutInv, Checkout!TypeOK, NamesByProgress, CompleteTree, ContentsTracked, Checkout!ContentsSurvive, Installing,
       Checkout!Go, Checkout!names, Checkout!tree, Checkout!users

\* An error, at any point at which a call can end with one.
LEMMA CheckoutFails ==
  ASSUME CheckoutInv, Checkout!Fail, pc \notin {"done", "failed", "crashed", "failing"}
  PROVE  CheckoutInv'
<1>1. Checkout!Go("failing") \/ Checkout!Go("failed")
  BY DEF Checkout!Fail
<1>2. CASE temp = "tree"
  <2>1. Checkout!Go("failing") /\ dest # "tree"
    BY <1>2 DEF Checkout!Fail, CheckoutInv, NamesByProgress
  <2> QED BY <1>2, <2>1, CheckoutGoes DEF Installing
<1>3. CASE temp # "tree"
  <2>1. Checkout!Go("failed")
    BY <1>3 DEF Checkout!Fail
  <2> QED BY <2>1, CheckoutGoes DEF Installing
<1> QED BY <1>2, <1>3

-----------------------------------------------------------------------------
\* Every step of the call, of its users, and its death preserve the invariant.
LEMMA CheckoutPreserved ==
  ASSUME Checkout!MaterializeAssumption, CheckoutInv, [Checkout!Next]_(Checkout!vars)
  PROVE  CheckoutInv'
<1> USE DEF CheckoutInv, Checkout!TypeOK, NamesByProgress, CompleteTree, ContentsTracked, Checkout!ContentsSurvive,
            Installing, Checkout!names, Checkout!tree, Checkout!users, Checkout!Unrefused
<1>1. CASE Checkout!Begin
  BY <1>1, CheckoutFails, NotContent DEF Checkout!Begin, Checkout!State
<1>2. CASE Checkout!Preflight
  <2>1. CASE Checkout!Fail
    BY <1>2, <2>1, CheckoutFails DEF Checkout!Preflight
  <2>2. CASE Checkout!Go("create")
    BY <1>2, <2>2, CheckoutGoes DEF Checkout!Preflight
  <2> QED BY <1>2, <2>1, <2>2 DEF Checkout!Preflight
<1>3. CASE Checkout!CreateTemporary
  BY <1>3, CheckoutFails DEF Checkout!CreateTemporary
<1>4. CASE Checkout!Create
  BY <1>4, CheckoutFails DEF Checkout!Create
<1>5. CASE Checkout!FinishDirectory
  BY <1>5, CheckoutFails DEF Checkout!FinishDirectory
<1>6. CASE Checkout!SyncTree
  <2>1. CASE Checkout!Fail
    BY <1>6, <2>1, CheckoutFails DEF Checkout!SyncTree
  <2>2. CASE Checkout!Go(IF force THEN "choose" ELSE "look")
    BY <1>6, <2>2, CheckoutGoes DEF Checkout!SyncTree
  <2> QED BY <1>6, <2>1, <2>2 DEF Checkout!SyncTree
<1>7. CASE Checkout!LookAgain
  <2>1. CASE Checkout!Fail
    BY <1>7, <2>1, CheckoutFails DEF Checkout!LookAgain
  <2>2. CASE Checkout!Go("choose") /\ dest \in {"absent", "empty"}
    BY <1>7, <2>2, CheckoutGoes, NotContent DEF Checkout!LookAgain
  <2> QED BY <1>7, <2>1, <2>2 DEF Checkout!LookAgain, Checkout!State
<1>8. CASE Checkout!Choose
  <2>1. CASE Checkout!Fail
    BY <1>8, <2>1, CheckoutFails DEF Checkout!Choose
  <2>2. CASE Checkout!Go(IF dest = "absent" THEN "place" ELSE "backup")
    BY <1>8, <2>2, CheckoutGoes DEF Checkout!Choose
  <2> QED BY <1>8, <2>1, <2>2 DEF Checkout!Choose
<1>9. CASE Checkout!Place
  <2>1. CASE Checkout!Fail
    BY <1>9, <2>1, CheckoutFails DEF Checkout!Place
  <2>2. CASE ~Checkout!Fail
    BY <1>9, <2>2, NotContent DEF Checkout!Place, Checkout!TakesDirectory, Checkout!Things
  <2> QED BY <2>1, <2>2
<1>10. CASE Checkout!Backup
  <2>1. CASE Checkout!Fail
    BY <1>10, <2>1, CheckoutFails DEF Checkout!Backup
  <2>2. CASE ~Checkout!Fail
    BY <1>10, <2>2, NotContent DEF Checkout!Backup, Checkout!Things
  <2> QED BY <2>1, <2>2
<1>11. CASE Checkout!Install
  <2>1. CASE Checkout!Go("rollback")
    BY <1>11, <2>1, CheckoutGoes DEF Checkout!Install
  <2>2. CASE ~Checkout!Go("rollback")
    BY <1>11, <2>2, NotContent DEF Checkout!Install, Checkout!TakesDirectory, Checkout!Things
  <2> QED BY <2>1, <2>2
<1>12. CASE Checkout!Rollback
  <2>1. CASE Checkout!Fail
    BY <1>12, <2>1, CheckoutFails DEF Checkout!Rollback
  <2>2. CASE ~Checkout!Fail
    BY <1>12, <2>2, NotContent DEF Checkout!Rollback, Checkout!TakesDirectory, Checkout!Things, Checkout!Content
  <2> QED BY <2>1, <2>2
<1>13. CASE Checkout!RemoveBackup
  BY <1>13, NotContent DEF Checkout!RemoveBackup, Checkout!Things
<1>14. CASE Checkout!SyncParent
  <2>1. CASE Checkout!Fail
    BY <1>14, <2>1, CheckoutFails DEF Checkout!SyncParent
  <2>2. CASE Checkout!Go("done")
    BY <1>14, <2>2, CheckoutGoes DEF Checkout!SyncParent
  <2> QED BY <1>14, <2>1, <2>2 DEF Checkout!SyncParent
<1>15. CASE Checkout!Drop
  BY <1>15 DEF Checkout!Drop
<1>16. CASE Checkout!Crash
  BY <1>16, NotContent DEF Checkout!Crash, Checkout!Ended, Checkout!Things
<1>17. CASE Checkout!Put
  BY <1>17, NotContent DEF Checkout!Put, Checkout!Ended, Checkout!Things, Checkout!Content
<1>18. CASE Checkout!MakeDirectory
  BY <1>18, NotContent DEF Checkout!MakeDirectory, Checkout!Ended, Checkout!Things
<1>19. CASE Checkout!Take
  BY <1>19, NotContent DEF Checkout!Take, Checkout!Ended, Checkout!Things
<1>20. CASE UNCHANGED Checkout!vars
  BY <1>20 DEF Checkout!vars
<1> QED
  BY <1>1, <1>2, <1>3, <1>4, <1>5, <1>6, <1>7, <1>8, <1>9, <1>10, <1>11, <1>12, <1>13, <1>14,
     <1>15, <1>16, <1>17, <1>18, <1>19, <1>20 DEF Checkout!Next

\* The invariant says what the property says, and that the call left nothing
\* beside what it installed.
LEMMA CheckoutSuffices ==
  ASSUME CheckoutInv
  PROVE  Checkout!TypeOK /\ Checkout!CheckoutAllOrNothing
BY DEF CheckoutInv, NamesByProgress, CompleteTree, Checkout!CheckoutAllOrNothing, Checkout!InstalledIsWhole

\* materialize installs a complete tree or none.  What users had at its
\* destination at any of its looks survives every error, rollback and crash; a
\* checkout that took place has replaced it only if that was asked for or it
\* was put there after the second look: for any tree, any users and any
\* faults, and in any composition.
THEOREM CheckoutInstallsAllOrNothing ==
  /\ Checkout!Spec => [](Checkout!TypeOK /\ Checkout!CheckoutAllOrNothing)
  /\ PartsSpec => []CheckoutAllOrNothing
<1>1. Checkout!Init => CheckoutInv
  BY PartsAssumption, CheckoutInit
<1>2. CheckoutInv /\ [Checkout!Next]_(Checkout!vars) => CheckoutInv'
  BY PartsAssumption, CheckoutPreserved
<1>3. CheckoutInv => Checkout!TypeOK /\ Checkout!CheckoutAllOrNothing
  BY CheckoutSuffices
<1>4. Checkout!Spec => [](Checkout!TypeOK /\ Checkout!CheckoutAllOrNothing)
  BY <1>1, <1>2, <1>3, PTL DEF Checkout!Spec
<1> DEFINE Inv == part = "checkout" => CheckoutInv
<1>5. PartsInit => Inv
  BY <1>1 DEF PartsInit
<1>6. Inv /\ [PartsNext]_partsVars => Inv'
  BY <1>2, OnePart
<1>7. Inv => CheckoutAllOrNothing
  BY <1>3 DEF CheckoutAllOrNothing
<1>8. PartsSpec => []CheckoutAllOrNothing
  <2> HIDE DEF Inv
  <2> QED BY <1>5, <1>6, <1>7, PTL DEF PartsSpec
<1> QED BY <1>4, <1>8

-----------------------------------------------------------------------------
(* The clone of a workspace.                                               *)

\* Before the walk nothing of the destination is there; during it its name is
\* the clone's.
CloneProgress ==
  /\ progress \in {"begin", "git", "create"} =>
       /\ yielded = {} /\ copied = {} /\ reading = CloneRoot /\ ~torn /\ open = <<>>
       /\ destination # "clone"
  /\ progress = "walk" => destination = "clone"

\* The walk is in directories that it has come by, the first of which is the
\* root; those that it made are complete or are among them.
CloneWalk ==
  /\ progress = "walk" =>
       /\ Len(open) > 0 /\ open[1] = CloneRoot
       /\ \A k \in 2..Len(open) : open[k] \in CloneDir
       /\ \A e \in copied \cap CloneDir : e \in whole \/ \E k \in 1..Len(open) : open[k] = e
  /\ \A k \in 1..Len(open) : open[k] \in yielded \cup {CloneRoot}

\* What it has come by is copied, but for the file that it reads.
CloneYield ==
  /\ yielded = copied \cup ({reading} \cap CloneFile)
  /\ \A e \in yielded : CloneParent[e] \in yielded \cup {CloneRoot}
  /\ torn => reading \in changed \cap CloneFile

\* An entry that is no longer there changed the stamp of its directory.
CloneUnchanged == \A e \in yielded : CloneParent[e] \notin changed => e \in source

CloneInv == Cloning!TypeOK /\ CloneProgress /\ CloneWalk /\ CloneYield /\ CloneUnchanged

\* What ClonedAsItWas says of a step.
CloneKeepsFaith ==
  /\ \A f \in (copied' \ copied) \cap CloneFile : f = reading /\ ~torn
  /\ \A d \in whole' \ whole : copied' \cap Cloning!Children(d) = source \cap Cloning!Children(d)
  /\ progress' = "done" =>
       destination' = "clone" /\ {CloneRoot} \cup (copied' \cap CloneDir) \subseteq whole' /\ CloneGit \notin copied'
  /\ progress' = "failed" => destination' # "clone"

\* A call that has not begun has copied nothing.
LEMMA CloneInit ==
  ASSUME Cloning!CloneAssumption, Cloning!Init
  PROVE  CloneInv
<1>1. /\ source \in SUBSET Cloning!Entry /\ progress = "begin" /\ open = <<>> /\ yielded = {}
      /\ reading = CloneRoot /\ torn = FALSE /\ copied = {} /\ whole = {} /\ changed = {}
      /\ destination \in {"absent", "other"}
  BY Zenon DEF Cloning!Init
<1>2. Cloning!TypeOK
  <2>1. open \in Seq(CloneDir \cup {CloneRoot})
    BY <1>1
  <2> QED BY <1>1, <2>1 DEF Cloning!TypeOK
<1>3. CloneProgress /\ CloneWalk /\ CloneUnchanged
  BY <1>1 DEF CloneProgress, CloneWalk, CloneUnchanged
<1>4. CloneYield
  BY <1>1 DEF CloneYield, Cloning!CloneAssumption, Cloning!Entry
<1> QED BY <1>2, <1>3, <1>4 DEF CloneInv

\* Users of the workspace take or change entries only with the stamps of these
\* and of their directories.
LEMMA CloneUsers ==
  ASSUME Cloning!CloneAssumption, CloneInv, NEW S \in SUBSET (Cloning!Entry \cup {CloneRoot}),
         Cloning!Change(S), source' \in SUBSET Cloning!Entry,
         \A e \in source \ source' : CloneParent[e] \in S
  PROVE  CloneInv' /\ CloneKeepsFaith
<1>1. /\ changed' = changed \cup S /\ torn' = (torn \/ reading \in S \cap CloneFile)
      /\ UNCHANGED <<progress, open, yielded, reading, copied, whole, destination>>
      /\ progress \notin {"done", "failed", "crashed"}
  BY DEF Cloning!Change, Cloning!Over
<1>2. Cloning!TypeOK'
  BY <1>1 DEF CloneInv, Cloning!TypeOK
<1>3. CloneProgress'
  <2>1. reading = CloneRoot => reading \notin CloneFile
    BY DEF Cloning!CloneAssumption, Cloning!Entry
  <2> QED BY <1>1, <2>1 DEF CloneInv, CloneProgress
<1>4. CloneWalk'
  BY <1>1 DEF CloneInv, CloneWalk
<1>5. CloneYield'
  BY <1>1 DEF CloneInv, CloneYield
<1>6. CloneUnchanged'
  BY <1>1 DEF CloneInv, CloneUnchanged
<1>7. CloneKeepsFaith
  BY <1>1 DEF CloneKeepsFaith
<1> QED BY <1>2, <1>3, <1>4, <1>5, <1>6, <1>7 DEF CloneInv

\* A step to the error path, to its end or to a crash keeps what was copied.
LEMMA CloneGoes ==
  ASSUME CloneInv, NEW place \in {"git", "create", "failing", "failed", "crashed"}, Cloning!Goto(place),
         place = "create" => progress = "git", place = "git" => progress = "begin",
         place = "failed" => destination # "clone"
  PROVE  CloneInv' /\ CloneKeepsFaith
BY DEF CloneInv, Cloning!TypeOK, CloneProgress, CloneWalk, CloneYield, CloneUnchanged, CloneKeepsFaith,
       Cloning!Goto, Cloning!walkVars

\* A stream returns an entry of a directory that the walk is in.
LEMMA CloneEnters ==
  ASSUME Cloning!CloneAssumption, CloneInv, NEW e \in Cloning!Entry, Cloning!Entered(e)
  PROVE  /\ progress = "walk" /\ reading = CloneRoot /\ reading \notin CloneFile /\ ~torn
         /\ e \in source /\ e \notin yielded /\ CloneParent[e] \in yielded \cup {CloneRoot}
         /\ yielded' = yielded \cup {e} /\ changed' = changed \ {e}
         /\ UNCHANGED <<source, progress, whole, destination>>
         /\ CloneUnchanged'
<1>1. /\ progress = "walk" /\ reading = CloneRoot
      /\ e \in Cloning!Children(Cloning!Top) /\ e \in source /\ e \notin yielded
      /\ yielded' = yielded \cup {e} /\ changed' = changed \ {e}
      /\ UNCHANGED <<source, progress, whole, destination>>
  BY DEF Cloning!Entered, Cloning!Listing
<1>2. CloneRoot \notin CloneFile /\ CloneRoot \notin Cloning!Entry
  BY DEF Cloning!CloneAssumption, Cloning!Entry
<1>3. CloneParent[e] \in yielded \cup {CloneRoot}
  <2>1. CloneParent[e] = open[Len(open)]
    BY <1>1 DEF Cloning!Children, Cloning!Top
  <2>2. Len(open) \in 1..Len(open)
    BY <1>1 DEF CloneInv, CloneWalk, Cloning!TypeOK
  <2> QED BY <2>1, <2>2 DEF CloneInv, CloneWalk
<1>4. CloneUnchanged'
  <2>1. SUFFICES ASSUME NEW x \in yielded \cup {e}, CloneParent[x] \notin changed \ {e}
                 PROVE  x \in source
    BY <1>1 DEF CloneUnchanged
  <2>2. CASE x = e
    BY <2>2, <1>1
  <2>3. CASE x # e
    <3>1. x \in yielded /\ CloneParent[x] # e
      BY <2>3, <1>1, <1>2 DEF CloneInv, CloneYield
    <3> QED BY <2>1, <3>1 DEF CloneInv, CloneUnchanged
  <2> QED BY <2>2, <2>3
<1>5. ~torn
  BY <1>1, <1>2 DEF CloneInv, CloneYield
<1> QED BY <1>1, <1>2, <1>3, <1>4, <1>5

\* Every step of the call and of the users of its two ends preserves the
\* invariant and copies what is there.
LEMMA ClonePreserved ==
  ASSUME Cloning!CloneAssumption, CloneInv, [Cloning!Next]_(Cloning!vars)
  PROVE  CloneInv' /\ (Cloning!Next => CloneKeepsFaith)
<1>0. /\ CloneRoot \notin CloneFile /\ CloneRoot \notin Cloning!Entry
      /\ CloneFile \cap CloneDir = {} /\ CloneSymlink \cap (CloneFile \cup CloneDir) = {}
      /\ Cloning!Entry = CloneFile \cup CloneDir \cup CloneSymlink
      /\ \A e \in Cloning!Entry : CloneParent[e] \in CloneDir \cup {CloneRoot}
  BY DEF Cloning!CloneAssumption, Cloning!Entry
<1>1. CASE Cloning!Write
  <2>1. PICK f \in CloneFile \cap source : Cloning!Change({f}) /\ UNCHANGED source
    BY <1>1 DEF Cloning!Write
  <2> QED BY <2>1, <1>0, CloneUsers DEF CloneInv, Cloning!TypeOK
<1>2. CASE Cloning!Make
  <2>1. PICK e \in Cloning!Entry \ source :
          source' = source \cup {e} /\ Cloning!Change({e, CloneParent[e]})
    BY <1>2 DEF Cloning!Make
  <2> QED BY <2>1, <1>0, CloneUsers DEF CloneInv, Cloning!TypeOK
<1>3. CASE Cloning!Remove
  <2>1. PICK e \in source : source' = source \ {e} /\ Cloning!Change({e, CloneParent[e]})
    BY <1>3 DEF Cloning!Remove
  <2> QED BY <2>1, <1>0, CloneUsers DEF CloneInv, Cloning!TypeOK
<1>4. CASE Cloning!Occupy
  BY <1>4
  DEF Cloning!Occupy, CloneInv, Cloning!TypeOK, CloneProgress, CloneWalk, CloneYield, CloneUnchanged,
      CloneKeepsFaith, Cloning!walkVars, Cloning!Over
<1>5. CASE Cloning!Begin
  BY <1>5
  DEF Cloning!Begin, CloneInv, Cloning!TypeOK, CloneProgress, CloneWalk, CloneYield, CloneUnchanged,
      CloneKeepsFaith, Cloning!walkVars
<1>6. CASE Cloning!CheckGit
  BY <1>6, CloneGoes DEF Cloning!CheckGit, CloneInv, CloneProgress
<1>7. CASE Cloning!CreateDestination
  <2>1. CASE Cloning!Goto("failing")
    BY <2>1, CloneGoes
  <2>2. CASE /\ progress = "create" /\ destination = "absent"
             /\ progress' = "walk" /\ open' = <<CloneRoot>> /\ destination' = "clone"
             /\ UNCHANGED <<source, yielded, reading, torn, copied, whole, changed>>
    <3>1. open' \in Seq(CloneDir \cup {CloneRoot}) /\ Len(open') = 1 /\ open'[1] = CloneRoot
      BY <2>2
    <3>2. copied = {} /\ yielded = {}
      BY <2>2 DEF CloneInv, CloneProgress
    <3>3. CloneWalk'
      BY <2>2, <3>1, <3>2 DEF CloneWalk
    <3> QED
      BY <2>2, <3>1, <3>3
      DEF CloneInv, Cloning!TypeOK, CloneProgress, CloneYield, CloneUnchanged, CloneKeepsFaith
  <2> QED BY <1>7, <2>1, <2>2 DEF Cloning!CreateDestination
<1>8. CASE Cloning!CloneDirectory
  <2>1. PICK d \in CloneDir : /\ Cloning!Entered(d)
                              /\ open' = Append(open, d) /\ copied' = copied \cup {d}
                              /\ UNCHANGED <<reading, torn>>
    BY <1>8 DEF Cloning!CloneDirectory
  <2>2. d \in Cloning!Entry
    BY <1>0
  <2>3. /\ progress = "walk" /\ reading = CloneRoot /\ d \notin yielded
        /\ d \in source /\ CloneParent[d] \in yielded \cup {CloneRoot}
        /\ yielded' = yielded \cup {d} /\ changed' = changed \ {d}
        /\ UNCHANGED <<source, progress, whole, destination>> /\ ~torn /\ CloneUnchanged'
    BY <2>1, <2>2, CloneEnters
  <2>4. /\ open \in Seq(CloneDir \cup {CloneRoot}) /\ Len(open) \in Nat
        /\ open' \in Seq(CloneDir \cup {CloneRoot}) /\ Len(open') = Len(open) + 1
        /\ \A k \in 1..Len(open) : open'[k] = open[k]
        /\ open'[Len(open) + 1] = d
    BY <2>1 DEF CloneInv, Cloning!TypeOK
  <2>5. CloneWalk'
    <3>1. Len(open') > 0 /\ open'[1] = CloneRoot
      BY <2>3, <2>4 DEF CloneInv, CloneWalk
    <3>2. \A k \in 2..Len(open') : open'[k] \in CloneDir
      BY <2>3, <2>4 DEF CloneInv, CloneWalk
    <3>3. \A k \in 1..Len(open') : open'[k] \in yielded' \cup {CloneRoot}
      BY <2>3, <2>4 DEF CloneInv, CloneWalk
    <3>4. ASSUME NEW e \in copied' \cap CloneDir
          PROVE  e \in whole' \/ \E k \in 1..Len(open') : open'[k] = e
      <4>1. CASE e = d
        <5>1. Len(open) + 1 \in 1..Len(open')
          BY <2>4
        <5> QED BY <4>1, <5>1, <2>4
      <4>2. CASE e # d
        <5>1. e \in whole \/ \E k \in 1..Len(open) : open[k] = e
          BY <4>2, <2>1, <2>3 DEF CloneInv, CloneWalk
        <5>2. \A k \in 1..Len(open) : k \in 1..Len(open')
          BY <2>4
        <5> QED BY <5>1, <5>2, <2>3, <2>4
      <4> QED BY <4>1, <4>2
    <3> QED BY <3>1, <3>2, <3>3, <3>4 DEF CloneWalk
  <2>6. CloneYield'
    BY <2>1, <2>3, <1>0 DEF CloneInv, CloneYield
  <2>7. Cloning!TypeOK' /\ CloneProgress' /\ CloneKeepsFaith
    BY <2>1, <2>2, <2>3, <2>4, <1>0
    DEF CloneInv, Cloning!TypeOK, CloneProgress, CloneKeepsFaith
  <2> QED BY <2>3, <2>5, <2>6, <2>7 DEF CloneInv
<1>9. CASE Cloning!OpenFile
  <2>1. PICK f \in CloneFile : Cloning!Entered(f) /\ reading' = f /\ torn' = FALSE /\ UNCHANGED <<open, copied>>
    BY <1>9 DEF Cloning!OpenFile
  <2>2. f \in Cloning!Entry
    BY <1>0
  <2>3. /\ progress = "walk" /\ reading \notin CloneFile /\ f \in source /\ f \notin yielded
        /\ CloneParent[f] \in yielded \cup {CloneRoot}
        /\ yielded' = yielded \cup {f} /\ changed' = changed \ {f}
        /\ UNCHANGED <<source, progress, whole, destination>> /\ CloneUnchanged'
    BY <2>1, <2>2, CloneEnters
  <2>4. CloneWalk' /\ CloneYield'
    BY <2>1, <2>3 DEF CloneInv, CloneWalk, CloneYield
  <2>5. Cloning!TypeOK' /\ CloneProgress' /\ CloneKeepsFaith
    BY <2>1, <2>2, <2>3 DEF CloneInv, Cloning!TypeOK, CloneProgress, CloneKeepsFaith
  <2> QED BY <2>3, <2>4, <2>5 DEF CloneInv
<1>10. CASE Cloning!CloneLink
  <2>1. PICK l \in CloneSymlink : Cloning!Entered(l) /\ copied' = copied \cup {l} /\ UNCHANGED <<open, reading, torn>>
    BY <1>10 DEF Cloning!CloneLink
  <2>2. l \in Cloning!Entry
    BY <1>0
  <2>3. /\ progress = "walk" /\ reading \notin CloneFile /\ ~torn /\ l \in source /\ l \notin yielded
        /\ CloneParent[l] \in yielded \cup {CloneRoot}
        /\ yielded' = yielded \cup {l} /\ changed' = changed \ {l}
        /\ UNCHANGED <<source, progress, whole, destination>> /\ CloneUnchanged'
    BY <2>1, <2>2, CloneEnters
  <2>4. CloneWalk' /\ CloneYield'
    BY <2>1, <2>3, <1>0 DEF CloneInv, CloneWalk, CloneYield
  <2>5. Cloning!TypeOK' /\ CloneProgress' /\ CloneKeepsFaith
    BY <2>1, <2>2, <2>3, <1>0 DEF CloneInv, Cloning!TypeOK, CloneProgress, CloneKeepsFaith
  <2> QED BY <2>3, <2>4, <2>5 DEF CloneInv
<1>11. CASE Cloning!FinishFile
  <2>1. CASE Cloning!Goto("failing")
    BY <2>1, CloneGoes
  <2>2. CASE /\ progress = "walk" /\ reading # CloneRoot
             /\ reading \notin changed /\ reading \in source \cup {CloneRoot}
             /\ copied' = copied \cup {reading} /\ reading' = CloneRoot /\ torn' = FALSE
             /\ UNCHANGED <<open, yielded, whole>>
             /\ UNCHANGED <<source, progress, changed, destination>>
    <3>1. reading \in CloneFile /\ reading \notin CloneDir /\ reading \in Cloning!Entry /\ ~torn
      BY <2>2, <1>0 DEF CloneInv, Cloning!TypeOK, CloneYield
    <3>2. CloneWalk' /\ CloneUnchanged' /\ CloneKeepsFaith
      BY <2>2, <3>1 DEF CloneInv, CloneWalk, CloneUnchanged, CloneKeepsFaith
    <3>3. Cloning!TypeOK'
      BY <2>2, <3>1, <1>0 DEF CloneInv, Cloning!TypeOK
    <3>4. CloneProgress' /\ CloneYield'
      BY <2>2, <3>1, <1>0 DEF CloneInv, Cloning!TypeOK, CloneProgress, CloneYield
    <3> QED BY <3>2, <3>3, <3>4 DEF CloneInv
  <2> QED BY <1>11, <2>1, <2>2, Zenon DEF Cloning!FinishFile, Cloning!Look
<1>12. ASSUME Cloning!Listing, Cloning!Exhausted, Cloning!Top \notin changed
       PROVE  copied \cap Cloning!Children(Cloning!Top) = source \cap Cloning!Children(Cloning!Top)
  <2>1. reading = CloneRoot /\ yielded = copied
    BY <1>12, <1>0 DEF Cloning!Listing, CloneInv, CloneYield
  <2>2. Cloning!Children(Cloning!Top) \cap source \subseteq copied
    BY <1>12, <2>1 DEF Cloning!Exhausted
  <2>3. \A e \in copied \cap Cloning!Children(Cloning!Top) : e \in source
    BY <1>12, <2>1 DEF Cloning!Children, CloneInv, CloneUnchanged
  <2> QED BY <2>2, <2>3
<1>13. CASE Cloning!LeaveDirectory
  <2>1. CASE Cloning!Goto("failing")
    BY <2>1, CloneGoes
  <2>2. CASE /\ Cloning!Listing /\ Cloning!Top # CloneRoot /\ Cloning!Exhausted /\ Cloning!Top \notin changed
             /\ open' = SubSeq(open, 1, Len(open) - 1) /\ whole' = whole \cup {Cloning!Top}
             /\ UNCHANGED <<yielded, reading, torn, copied>>
             /\ UNCHANGED <<source, progress, changed, destination>>
    <3>1. /\ progress = "walk" /\ open \in Seq(CloneDir \cup {CloneRoot}) /\ Len(open) \in Nat /\ Len(open) > 0
          /\ Cloning!Top = open[Len(open)] /\ open[1] = CloneRoot
      BY <2>2 DEF Cloning!Listing, Cloning!Top, CloneInv, CloneWalk, Cloning!TypeOK
    <3>2. Len(open) > 1
      BY <2>2, <3>1
    <3>3. /\ open' \in Seq(CloneDir \cup {CloneRoot}) /\ Len(open') = Len(open) - 1
          /\ \A k \in 1..(Len(open) - 1) : open'[k] = open[k]
      BY <2>2, <3>1, <3>2
    <3>4. Cloning!Top \in CloneDir
      BY <3>1, <3>2 DEF CloneInv, CloneWalk
    <3>5. CloneWalk'
      <4>1. Len(open') > 0 /\ open'[1] = CloneRoot
        BY <3>1, <3>2, <3>3
      <4>2. \A k \in 2..Len(open') : open'[k] \in CloneDir
        BY <3>1, <3>2, <3>3 DEF CloneInv, CloneWalk
      <4>3. \A k \in 1..Len(open') : open'[k] \in yielded' \cup {CloneRoot}
        BY <2>2, <3>1, <3>2, <3>3 DEF CloneInv, CloneWalk
      <4>4. ASSUME NEW e \in copied' \cap CloneDir
            PROVE  e \in whole' \/ \E k \in 1..Len(open') : open'[k] = e
        <5>1. e \in whole \/ \E k \in 1..Len(open) : open[k] = e
          BY <4>4, <2>2, <3>1 DEF CloneInv, CloneWalk
        <5>2. CASE e \in whole
          BY <5>2, <2>2
        <5>3. CASE \E k \in 1..Len(open) : open[k] = e
          <6>1. PICK k \in 1..Len(open) : open[k] = e
            BY <5>3
          <6>2. CASE k = Len(open)
            BY <6>1, <6>2, <2>2, <3>1
          <6>3. CASE k # Len(open)
            <7>1. k \in 1..Len(open') /\ open'[k] = e
              BY <6>1, <6>3, <3>1, <3>3
            <7> QED BY <7>1
          <6> QED BY <6>2, <6>3
        <5> QED BY <5>1, <5>2, <5>3
      <4> QED BY <4>1, <4>2, <4>3, <4>4 DEF CloneWalk
    <3>6. CloneKeepsFaith
      <4>1. \A d \in whole' \ whole : d = Cloning!Top
        BY <2>2
      <4>2. \A d \in whole' \ whole : copied \cap Cloning!Children(d) = source \cap Cloning!Children(d)
        BY <4>1, <2>2, <1>12
      <4> QED BY <2>2, <3>1, <4>2 DEF CloneKeepsFaith
    <3>7. Cloning!TypeOK' /\ CloneProgress' /\ CloneYield' /\ CloneUnchanged'
      BY <2>2, <3>1, <3>3, <3>4
      DEF CloneInv, Cloning!TypeOK, CloneProgress, CloneYield, CloneUnchanged
    <3> QED BY <3>5, <3>6, <3>7 DEF CloneInv
  <2> QED BY <1>13, <2>1, <2>2, Zenon DEF Cloning!LeaveDirectory, Cloning!Look
<1>14. CASE Cloning!Finish
  <2>1. CASE Cloning!Goto("failing")
    BY <2>1, CloneGoes
  <2>2. CASE /\ Cloning!Listing /\ Cloning!Top = CloneRoot /\ Cloning!Exhausted
             /\ CloneGit \notin copied /\ CloneRoot \notin changed
             /\ progress' = "done" /\ whole' = whole \cup {CloneRoot} /\ open' = <<>>
             /\ UNCHANGED <<source, yielded, reading, torn, copied, changed, destination>>
    <3>1. /\ progress = "walk" /\ open \in Seq(CloneDir \cup {CloneRoot}) /\ Len(open) \in Nat /\ Len(open) > 0
          /\ CloneRoot = open[Len(open)]
      BY <2>2 DEF Cloning!Listing, Cloning!Top, CloneInv, CloneWalk, Cloning!TypeOK
    <3>2. Len(open) = 1
      <4>1. \A k \in 2..Len(open) : open[k] \in CloneDir
        BY <3>1, Zenon DEF CloneInv, CloneWalk
      <4>2. CloneRoot \notin CloneDir
        BY <1>0
      <4>3. Len(open) \notin 2..Len(open)
        BY <4>1, <4>2, <3>1, Zenon
      <4> DEFINE n == Len(open)
      <4>4. n \in Nat /\ n > 0 /\ n \notin 2..n
        BY <4>3, <3>1
      <4> HIDE DEF n
      <4>5. n = 1
        BY <4>4
      <4> QED BY <4>5 DEF n
    <3>3. \A e \in copied \cap CloneDir : e \in whole
      BY <3>1, <3>2, <1>0 DEF CloneInv, CloneWalk
    <3>4. destination = "clone"
      BY <3>1 DEF CloneInv, CloneProgress
    <3>5. \A d \in whole' \ whole : copied' \cap Cloning!Children(d) = source \cap Cloning!Children(d)
      <4>1. \A d \in whole' \ whole : d = Cloning!Top
        BY <2>2
      <4> QED BY <4>1, <2>2, <1>12
    <3>6. CloneKeepsFaith
      BY <2>2, <3>3, <3>4, <3>5 DEF CloneKeepsFaith
    <3>7. open' \in Seq(CloneDir \cup {CloneRoot}) /\ Len(open') = 0
      BY <2>2
    <3>8. CloneWalk'
      BY <2>2, <3>7 DEF CloneWalk
    <3> QED
      BY <2>2, <3>4, <3>6, <3>7, <3>8
      DEF CloneInv, Cloning!TypeOK, CloneProgress, CloneYield, CloneUnchanged
  <2> QED BY <1>14, <2>1, <2>2 DEF Cloning!Finish
<1>15. CASE Cloning!Fails
  BY <1>15, CloneGoes DEF Cloning!Fails, CloneInv, CloneProgress
<1>16. CASE Cloning!CleanUp
  BY <1>16
  DEF Cloning!CleanUp, CloneInv, Cloning!TypeOK, CloneProgress, CloneWalk, CloneYield, CloneUnchanged,
      CloneKeepsFaith, Cloning!walkVars
<1>17. CASE Cloning!Crash
  BY <1>17, CloneGoes DEF Cloning!Crash
<1>18. CASE UNCHANGED Cloning!vars /\ ~Cloning!Next
  <2>1. UNCHANGED <<source, progress, open, yielded, reading, torn, copied, whole, changed, destination>>
    BY <1>18, Zenon DEF Cloning!vars, Cloning!walkVars
  <2>2. CloneInv'
    BY <2>1, Zenon DEF CloneInv, Cloning!TypeOK, CloneProgress, CloneWalk, CloneYield, CloneUnchanged
  <2> QED BY <1>18, <2>2
<1> QED
  BY <1>1, <1>2, <1>3, <1>4, <1>5, <1>6, <1>7, <1>8, <1>9, <1>10, <1>11, <1>13, <1>14, <1>15,
     <1>16, <1>17, <1>18, Zenon DEF Cloning!Next

\* clone_workspace copies a file only as it is between two looks at it and
\* leaves a directory only with the entries that it has; what it reports is
\* complete and no linked worktree.  What it has not reported is gone unless its
\* removal failed or the process died: for any workspace, any users and any
\* faults, and in any composition.
THEOREM CloneIsFaithful ==
  /\ Cloning!Spec => []Cloning!TypeOK /\ Cloning!ClonedAsItWas
  /\ PartsSpec => CloneAsItWas
<1> DEFINE Faith ==
      /\ \A f \in (copied' \ copied) \cap CloneFile : f = reading /\ ~torn
      /\ \A d \in whole' \ whole : copied' \cap Cloning!Children(d) = source \cap Cloning!Children(d)
      /\ progress' = "done" =>
           destination' = "clone" /\ {CloneRoot} \cup (copied' \cap CloneDir) \subseteq whole' /\ CloneGit \notin copied'
      /\ progress' = "failed" => destination' # "clone"
<1>1. Cloning!Init => CloneInv
  BY PartsAssumption, CloneInit
<1>2. CloneInv /\ [Cloning!Next]_(Cloning!vars) => CloneInv' /\ [Faith]_(Cloning!vars)
  BY PartsAssumption, ClonePreserved, Zenon DEF CloneKeepsFaith
<1>3. CloneInv => Cloning!TypeOK
  BY DEF CloneInv
<1>4. Cloning!Spec => []Cloning!TypeOK /\ Cloning!ClonedAsItWas
  <2> HIDE DEF Faith
  <2>1. Cloning!Spec => []Cloning!TypeOK /\ [][Faith]_(Cloning!vars)
    BY <1>1, <1>2, <1>3, PTL DEF Cloning!Spec
  <2> USE DEF Faith
  <2> QED BY <2>1, PTL DEF Cloning!ClonedAsItWas
<1> DEFINE Inv == part = "clone" => CloneInv
<1>5. PartsInit => Inv
  BY <1>1 DEF PartsInit
<1>6. Inv /\ [PartsNext]_partsVars => Inv' /\ [Faith]_(Cloning!vars)
  <2>1. CASE part = "clone"
    <3> HIDE DEF Faith
    <3> QED BY <2>1, <1>2, OnePart
  <2>2. CASE part # "clone"
    <3> HIDE DEF Faith
    <3>1. ASSUME [PartsNext]_partsVars PROVE part' = part /\ UNCHANGED Cloning!vars
      BY <2>2, <3>1, OnePart, Zenon DEF cloneVars, Cloning!vars, Cloning!walkVars
    <3> QED BY <2>2, <3>1
  <2> QED BY <2>1, <2>2
<1>7. Inv => (part = "clone" => Cloning!TypeOK)
  BY <1>3
<1>8. PartsSpec => CloneAsItWas
  <2> HIDE DEF Inv, Faith
  <2>1. PartsSpec => [](part = "clone" => Cloning!TypeOK) /\ [][Faith]_(Cloning!vars)
    BY <1>5, <1>6, <1>7, PTL DEF PartsSpec
  <2> USE DEF Faith
  <2> QED BY <2>1, PTL DEF CloneAsItWas, Cloning!ClonedAsItWas
<1> QED BY <1>4, <1>8

-----------------------------------------------------------------------------
(* Recursive functions.                                                    *)

\* Induction up to a bound, over a set of numbers.
LEMMA UpTo ==
  ASSUME NEW n \in Nat, NEW T, 0 \in T, \A i \in 1..n : i - 1 \in T => i \in T
  PROVE  \A i \in 0..n : i \in T
<1> DEFINE U == {i \in 0..n : i \notin T}
<1>1. SUFFICES ASSUME U # {} PROVE FALSE
  OBVIOUS
<1>2. U \subseteq Nat
  OBVIOUS
<1>3. PICK u \in U : \A v \in U : u <= v
  <2> HIDE DEF U
  <2> QED BY <1>1, <1>2, LeastNatural
<1>4. u \in 0..n /\ u \notin T /\ u # 0 /\ u \in Nat
  OBVIOUS
<1>5. u \in 1..n /\ u - 1 \in 0..n /\ u - 1 \notin U
  BY <1>3, <1>4
<1> QED BY <1>4, <1>5

\* The function R takes the steps F in turn, from x.
Iterates(R, n, S, x, F) == R \in [0..n -> S] /\ R[0] = x /\ \A i \in 1..n : R[i] = F[i][R[i - 1]]

\* A step function and a first value have the function that iterates them.
LEMMA Iteration ==
  ASSUME NEW n \in Nat, NEW S, NEW x \in S, NEW F \in [1..n -> [S -> S]]
  PROVE  \E R : Iterates(R, n, S, x, F)
<1> DEFINE T == {m \in 0..n : \E R : Iterates(R, m, S, x, F)}
<1>1. 0 \in T
  <2>1. Iterates([i \in 0..0 |-> x], 0, S, x, F)
    BY DEF Iterates
  <2>2. 0 \in 0..n
    OBVIOUS
  <2> QED BY <2>1, <2>2, Zenon
<1>2. ASSUME NEW m \in 1..n, m - 1 \in T PROVE m \in T
  <2>1. PICK R : Iterates(R, m - 1, S, x, F)
    BY <1>2
  <2> DEFINE Q == [i \in 0..m |-> IF i = m THEN F[m][R[m - 1]] ELSE R[i]]
  <2>2. m - 1 \in 0..(m - 1) /\ R[m - 1] \in S /\ F[m][R[m - 1]] \in S
    BY <2>1 DEF Iterates
  <2>3. Q \in [0..m -> S]
    BY <2>1, <2>2 DEF Iterates
  <2>4. Q[0] = x
    BY <2>1 DEF Iterates
  <2>5. ASSUME NEW i \in 1..m PROVE Q[i] = F[i][Q[i - 1]]
    <3>1. i \in 0..m /\ i - 1 \in 0..m /\ i - 1 # m
      OBVIOUS
    <3>2. Q[i - 1] = R[i - 1]
      BY <3>1
    <3>3. CASE i = m
      BY <3>1, <3>2, <3>3
    <3>4. CASE i # m
      <4>1. i \in 1..(m - 1) /\ Q[i] = R[i]
        BY <3>1, <3>4
      <4> QED BY <4>1, <3>2, <2>1 DEF Iterates
    <3> QED BY <3>3, <3>4
  <2>6. Iterates(Q, m, S, x, F)
    <3> HIDE DEF Q
    <3> QED BY <2>3, <2>4, <2>5 DEF Iterates
  <2> HIDE DEF Q
  <2>7. m \in 0..n
    OBVIOUS
  <2> QED BY <2>6, <2>7, Zenon
<1>3. n \in T
  <2>1. \A i \in 0..n : i \in T
    <3> HIDE DEF T
    <3> QED BY <1>1, <1>2, UpTo
  <2> QED BY <2>1
<1> QED BY <1>3

-----------------------------------------------------------------------------
(* The terminal cache of the replay interface.                             *)

Objects == DOMAIN Size

\* The bytes of the first objects, and of one more each time.
Sums(R, s) ==
  /\ R \in [0..Len(s) -> Nat] /\ R[0] = 0
  /\ \A i \in 1..Len(s) : R[i] = R[i - 1] + Size[s[i]]

\* Held adds up the bytes of the objects, from the first to the last.
LEMMA HeldIsSum ==
  ASSUME Interface!ReplayAssumption, NEW s \in Seq(Objects)
  PROVE  \E R : Sums(R, s) /\ Interface!Held(s) = R[Len(s)]
<1> DEFINE n == Len(s)
           F == [i \in 1..n |-> [t \in Nat |-> t + Size[s[i]]]]
           IsSum(R) == R = [i \in 0..n |-> IF i = 0 THEN 0 ELSE R[i - 1] + Size[s[i]]]
           Q == CHOOSE R : IsSum(R)
<1>1. n \in Nat /\ \A i \in 1..n : Size[s[i]] \in Nat
  BY DEF Interface!ReplayAssumption, Objects
<1>2. \E R : IsSum(R)
  <2>1. F \in [1..n -> [Nat -> Nat]]
    BY <1>1
  <2>2. PICK R : Iterates(R, n, Nat, 0, F)
    <3> HIDE DEF F, n
    <3>1. 0 \in Nat
      OBVIOUS
    <3>2. n \in Nat
      BY <1>1
    <3> QED BY <2>1, <3>1, <3>2, Iteration, Zenon
  <2>3. ASSUME NEW i \in 0..n PROVE R[i] = IF i = 0 THEN 0 ELSE R[i - 1] + Size[s[i]]
    <3>1. CASE i # 0
      <4>1. i \in 1..n /\ R[i - 1] \in Nat
        BY <3>1, <1>1, <2>2 DEF Iterates
      <4> QED BY <3>1, <4>1, <2>2 DEF Iterates
    <3> QED BY <3>1, <2>2 DEF Iterates
  <2>4. IsSum(R)
    <3>1. R = [i \in 0..n |-> R[i]]
      BY <2>2, Zenon DEF Iterates
    <3> HIDE DEF n
    <3> QED BY <2>3, <3>1, Zenon
  <2> QED BY <2>4
<1>3. IsSum(Q)
  BY <1>2
<1>4. Interface!Held(s) = Q[n]
  BY DEF Interface!Held
<1> HIDE DEF Q, n
<1>5. Q = [i \in 0..n |-> IF i = 0 THEN 0 ELSE Q[i - 1] + Size[s[i]]]
  BY <1>3
<1> HIDE DEF IsSum
<1>6. Q[0] = 0 /\ \A i \in 1..n : Q[i] = Q[i - 1] + Size[s[i]]
  <2>1. 0 \in 0..n /\ \A i \in 1..n : i \in 0..n /\ i # 0
    BY <1>1
  <2> QED BY <1>5, <2>1, Zenon
<1>7. \A i \in 0..n : Q[i] \in Nat
  <2> DEFINE T == {i \in 0..n : Q[i] \in Nat}
  <2>1. 0 \in T /\ \A i \in 1..n : i - 1 \in T => i \in T
    BY <1>1, <1>6
  <2> HIDE DEF T
  <2>2. \A i \in 0..n : i \in T
    BY <1>1, <2>1, UpTo
  <2> QED BY <2>2 DEF T
<1>8. Q \in [0..n -> Nat]
  BY <1>5, <1>7
<1>9. Sums(Q, s)
  BY <1>6, <1>8 DEF Sums, n
<1> QED BY <1>4, <1>9 DEF n

\* What is appended is added.
LEMMA HeldAppend ==
  ASSUME Interface!ReplayAssumption, NEW s \in Seq(Objects), NEW o \in Objects
  PROVE  Interface!Held(Append(s, o)) = Interface!Held(s) + Size[o]
<1> DEFINE t == Append(s, o)
           n == Len(s)
<1>1. t \in Seq(Objects) /\ n \in Nat /\ Len(t) = n + 1 /\ (\A i \in 1..n : t[i] = s[i]) /\ t[n + 1] = o
  OBVIOUS
<1>2. PICK R : Sums(R, s) /\ Interface!Held(s) = R[n]
  BY HeldIsSum
<1>3. PICK Q : Sums(Q, t) /\ Interface!Held(t) = Q[Len(t)]
  BY <1>1, HeldIsSum
<1> HIDE DEF t, n
<1>4. /\ R[0] = 0 /\ \A i \in 1..n : R[i] = R[i - 1] + Size[s[i]]
      /\ Q[0] = 0 /\ \A i \in 1..(n + 1) : Q[i] = Q[i - 1] + Size[t[i]]
  BY <1>1, <1>2, <1>3 DEF Sums, n
<1>5. R[n] = Q[n]
  <2> DEFINE T == {i \in 0..n : R[i] = Q[i]}
  <2>1. 0 \in T
    BY <1>1, <1>4
  <2>2. \A i \in 1..n : i - 1 \in T => i \in T
    BY <1>1, <1>4
  <2> HIDE DEF T
  <2>3. \A i \in 0..n : i \in T
    BY <1>1, <2>1, <2>2, UpTo
  <2> QED BY <1>1, <2>3 DEF T
<1>6. Q[n + 1] = Q[n] + Size[o]
  BY <1>1, <1>4
<1> QED BY <1>1, <1>2, <1>3, <1>5, <1>6 DEF t

\* What is taken out is subtracted.
LEMMA HeldWithout ==
  ASSUME Interface!ReplayAssumption, NEW s \in Seq(Objects), NEW k \in 1..Len(s), NEW w \in Seq(Objects),
         Len(w) = Len(s) - 1, \A i \in 1..Len(w) : w[i] = IF i < k THEN s[i] ELSE s[i + 1]
  PROVE  Interface!Held(w) + Size[s[k]] = Interface!Held(s)
<1> DEFINE n == Len(s)
<1>1. /\ n \in Nat /\ k \in 1..n /\ Len(w) = n - 1
      /\ \A i \in 1..(n - 1) : w[i] = IF i < k THEN s[i] ELSE s[i + 1]
  OBVIOUS
<1>2. PICK R : Sums(R, s) /\ Interface!Held(s) = R[n]
  BY HeldIsSum
<1>3. PICK Q : Sums(Q, w) /\ Interface!Held(w) = Q[n - 1]
  BY <1>1, HeldIsSum
<1>4. /\ R[0] = 0 /\ \A i \in 1..n : R[i] = R[i - 1] + Size[s[i]]
      /\ Q[0] = 0 /\ \A i \in 1..(n - 1) : Q[i] = Q[i - 1] + Size[w[i]]
      /\ (\A i \in 0..n : R[i] \in Nat) /\ \A i \in 0..(n - 1) : Q[i] \in Nat
  BY <1>1, <1>2, <1>3 DEF Sums
<1>5. \A i \in 1..n : Size[s[i]] \in Nat
  <2>1. \A i \in 1..n : s[i] \in Objects
    OBVIOUS
  <2>2. \A o \in Objects : Size[o] \in Nat
    BY DEF Interface!ReplayAssumption, Objects
  <2> QED BY <2>1, <2>2, Zenon
<1> HIDE DEF n
<1>6. IF n - 1 < k THEN Q[n - 1] = R[n - 1] ELSE Q[n - 1] + Size[s[k]] = R[n]
  <2> DEFINE T == {i \in 0..(n - 1) : IF i < k THEN Q[i] = R[i] ELSE Q[i] + Size[s[k]] = R[i + 1]}
  <2>1. 0 \in T
    BY <1>1, <1>4
  <2>2. ASSUME NEW i \in 1..(n - 1), i - 1 \in T PROVE i \in T
    <3>1. i \in 1..n /\ i \in 0..(n - 1) /\ i + 1 \in 1..n /\ i - 1 \in 0..n
      BY <1>1
    <3>2. /\ Q[i] = Q[i - 1] + Size[w[i]] /\ R[i] = R[i - 1] + Size[s[i]]
          /\ R[i + 1] = R[i] + Size[s[i + 1]]
          /\ Size[s[i]] \in Nat /\ Size[s[i + 1]] \in Nat /\ Size[s[k]] \in Nat
          /\ R[i - 1] \in Nat /\ R[i] \in Nat /\ R[i + 1] \in Nat /\ Q[i - 1] \in Nat
      <4>1. R[i + 1] = R[i] + Size[s[i + 1]]
        <5>1. (i + 1) - 1 = i
          OBVIOUS
        <5> QED BY <3>1, <5>1, <1>4
      <4>2. Q[i - 1] \in Nat
        <5>1. i - 1 \in 0..(n - 1)
          BY <3>1, <1>1
        <5> QED BY <5>1, <1>4
      <4>3. R[i - 1] \in Nat /\ R[i] \in Nat /\ R[i + 1] \in Nat
        BY <3>1, <1>1, <1>4
      <4>4. Q[i] = Q[i - 1] + Size[w[i]] /\ R[i] = R[i - 1] + Size[s[i]]
        BY <3>1, <1>4
      <4>5. Size[s[i]] \in Nat /\ Size[s[i + 1]] \in Nat /\ Size[s[k]] \in Nat
        BY <3>1, <1>1, <1>5, Zenon
      <4> QED BY <4>1, <4>2, <4>3, <4>4, <4>5
    <3>3. CASE i < k
      <4>1. Q[i - 1] = R[i - 1] /\ w[i] = s[i]
        BY <3>3, <2>2, <1>1
      <4> QED BY <4>1, <3>1, <3>2, <3>3
    <3>4. CASE i >= k
      <4>1. w[i] = s[i + 1]
        BY <3>4, <1>1
      <4>2. CASE i = k
        <5>1. Q[i - 1] = R[i - 1]
          BY <4>2, <2>2, <1>1
        <5>2. Size[s[k]] = Size[s[i]] /\ Size[w[i]] = Size[s[i + 1]]
          BY <4>1, <4>2
        <5>3. Q[i] + Size[s[k]] = R[i + 1]
          BY <5>1, <5>2, <3>2, SMTT(30)
        <5> QED BY <5>3, <3>1, <3>4, <1>1
      <4>3. CASE i > k
        <5>1. Q[i - 1] + Size[s[k]] = R[i]
          <6>1. ~(i - 1 < k) /\ i - 1 + 1 = i
            BY <4>3, <1>1
          <6> QED BY <6>1, <2>2
        <5>2. Q[i - 1] = R[i] - Size[s[k]]
          BY <5>1, <3>2
        <5>4. Size[w[i]] = Size[s[i + 1]]
          BY <4>1
        <5>3. Q[i] + Size[s[k]] = R[i + 1]
          <6>1. Q[i] = Q[i - 1] + Size[s[i + 1]]
            BY <5>4, <3>2, Zenon
          <6>2. /\ R[i + 1] = R[i] + Size[s[i + 1]]
                /\ Q[i - 1] \in Nat /\ R[i] \in Nat /\ Size[s[i + 1]] \in Nat /\ Size[s[k]] \in Nat
            BY <3>2, Zenon
          <6> QED BY <6>1, <6>2, <5>1
        <5> QED BY <5>3, <3>1, <3>4, <1>1
      <4> QED BY <4>2, <4>3, <3>4, <1>1
    <3> QED BY <3>3, <3>4, <1>1
  <2> HIDE DEF T
  <2>3. n - 1 \in Nat
    BY <1>1
  <2>4. \A i \in 0..(n - 1) : i \in T
    BY <2>1, <2>2, <2>3, UpTo
  <2>5. n - 1 \in T /\ (n - 1) + 1 = n
    BY <2>3, <2>4, <1>1
  <2> QED BY <2>5 DEF T
<1>7. CASE n - 1 < k
  <2>1. k = n /\ R[n] = R[n - 1] + Size[s[n]]
    BY <1>1, <1>4, <1>7
  <2> QED BY <2>1, <1>2, <1>3, <1>6, <1>7
<1>8. CASE ~(n - 1 < k)
  BY <1>2, <1>3, <1>6, <1>8
<1> QED BY <1>7, <1>8

\* Least and Greatest find what they look for.
LEMMA LeastOf ==
  ASSUME NEW T, T \subseteq Nat, T # {}
  PROVE  Interface!Least(T) \in T /\ \A j \in T : Interface!Least(T) <= j
<1>1. \E i \in T : \A j \in T : i <= j
  BY LeastNatural
<1> QED BY <1>1, Zenon DEF Interface!Least

LEMMA GreatestOf ==
  ASSUME NEW T, T \subseteq Nat, T # {}, NEW b \in Nat, \A t \in T : t <= b
  PROVE  Interface!Greatest(T) \in T /\ \A j \in T : j <= Interface!Greatest(T)
<1>1. \E i \in T : \A j \in T : j <= i
  BY GreatestNatural
<1> QED BY <1>1, Zenon DEF Interface!Greatest

\* The interface's instances count as FiniteSets does.
LEMMA SameFinite ==
  ASSUME NEW S
  PROVE  Interface!Cardinality(S) = Cardinality(S) /\ Interface!IsFiniteSet(S) = IsFiniteSet(S)
BY DEF Interface!Cardinality, Cardinality, Interface!IsFiniteSet, IsFiniteSet

\* What the cache holds fits.
CacheFits(cached) == cached \in Seq(Objects) /\ Interface!Held(cached) <= Capacity

\* An object that is used again does not take more.
LEMMA TouchFits ==
  ASSUME Interface!ReplayAssumption, NEW cached, CacheFits(cached), NEW o \in Objects,
         \E k \in DOMAIN cached : cached[k] = o
  PROVE  CacheFits(Interface!Touch(cached, o))
<1> DEFINE P == {i \in 1..Len(cached) : cached[i] = o}
           k == Interface!Least(P)
           a == SubSeq(cached, 1, k - 1)
           b == SubSeq(cached, k + 1, Len(cached))
           w == a \o b
<1>1. cached \in Seq(Objects) /\ Len(cached) \in Nat
  BY DEF CacheFits
<1>2. k \in 1..Len(cached) /\ cached[k] = o
  <2>1. P \subseteq Nat /\ P # {}
    BY <1>1
  <2>2. k \in P
    <3> HIDE DEF P
    <3> QED BY <2>1, LeastOf
  <2> QED BY <2>2
<1> HIDE DEF k
<1>3. a \in Seq(Objects) /\ Len(a) = k - 1 /\ \A i \in 1..(k - 1) : a[i] = cached[i]
  BY <1>1, <1>2
<1>4. /\ b \in Seq(Objects) /\ Len(b) = Len(cached) - k
      /\ \A i \in 1..(Len(cached) - k) : b[i] = cached[i + k]
  BY <1>1, <1>2
<1> HIDE DEF a, b
<1>5. w \in Seq(Objects) /\ Len(w) = Len(cached) - 1
  <2>1. w \in Seq(Objects) /\ Len(w) = Len(a) + Len(b)
    <3>1. a \in Seq(Objects) /\ b \in Seq(Objects)
      BY <1>3, <1>4, Zenon
    <3> QED BY <3>1
  <2>2. Len(a) + Len(b) = Len(cached) - 1
    BY <1>1, <1>2, <1>3, <1>4
  <2> QED BY <2>1, <2>2, Zenon
<1>6. ASSUME NEW i \in 1..Len(w) PROVE w[i] = IF i < k THEN cached[i] ELSE cached[i + 1]
  <2>1. CASE i < k
    BY <2>1, <1>1, <1>2, <1>3, <1>4, <1>5
  <2>2. CASE ~(i < k)
    <3>1. i - (k - 1) \in 1..(Len(cached) - k) /\ i - (k - 1) + k = i + 1
      BY <2>2, <1>1, <1>2, <1>5
    <3>2. w[i] = b[i - (k - 1)]
      BY <2>2, <3>1, <1>1, <1>2, <1>3, <1>4, <1>5
    <3> QED BY <3>1, <3>2, <2>2, <1>4
  <2> QED BY <2>1, <2>2
<1> HIDE DEF w
<1>7. Interface!Held(w) + Size[o] = Interface!Held(cached)
  BY <1>1, <1>2, <1>5, <1>6, HeldWithout
<1>8. Interface!Held(Append(w, o)) = Interface!Held(cached) /\ Append(w, o) \in Seq(Objects)
  BY <1>5, <1>7, HeldAppend
<1>9. Interface!Touch(cached, o) = Append(w, o)
  BY DEF Interface!Touch, w, a, b, k
<1> QED BY <1>8, <1>9 DEF CacheFits

\* Eviction makes room.
LEMMA EvictFits ==
  ASSUME Interface!ReplayAssumption, NEW cached \in Seq(Objects), NEW bytes \in Nat, bytes <= Capacity
  PROVE  /\ Interface!Evict(cached, bytes) \in Seq(Objects)
         /\ Interface!Held(Interface!Evict(cached, bytes)) + bytes <= Capacity
<1> DEFINE n == Len(cached)
           Kept(k) == SubSeq(cached, k + 1, n)
           P == {k \in 0..n : k = n \/ Interface!Held(Kept(k)) + bytes <= Capacity}
           k == Interface!Least(P)
<1>1. n \in Nat
  OBVIOUS
<1>2. k \in 0..n /\ (k = n \/ Interface!Held(Kept(k)) + bytes <= Capacity)
  <2>1. P \subseteq Nat /\ n \in P
    BY <1>1
  <2>2. k \in P
    <3> HIDE DEF P
    <3> QED BY <2>1, LeastOf
  <2> HIDE DEF k
  <2> QED BY <2>2
<1>3. Interface!Evict(cached, bytes) = Kept(k)
  BY DEF Interface!Evict
<1> HIDE DEF k
<1>4. Kept(k) \in Seq(Objects)
  BY <1>1, <1>2
<1>5. CASE k = n
  <2>1. Kept(k) = <<>>
    BY <1>1, <1>5
  <2>2. <<>> \in Seq(Objects) /\ Len(<<>>) = 0
    OBVIOUS
  <2>3. PICK R : Sums(R, <<>>) /\ Interface!Held(<<>>) = R[Len(<<>>)]
    BY <2>2, HeldIsSum
  <2>4. Interface!Held(<<>>) = 0
    BY <2>2, <2>3 DEF Sums
  <2>5. 0 + bytes <= Capacity
    OBVIOUS
  <2> QED BY <1>3, <1>4, <2>1, <2>4, <2>5, Zenon
<1>6. CASE k # n
  BY <1>2, <1>3, <1>4, <1>6
<1> QED BY <1>5, <1>6

\* So does loading an object, or leaving it.
LEMMA LoadedFits ==
  ASSUME Interface!ReplayAssumption, NEW cached, CacheFits(cached), NEW o \in Objects
  PROVE  CacheFits(Interface!Loaded(cached, o))
<1>1. CASE \E k \in DOMAIN cached : cached[k] = o
  BY <1>1, TouchFits DEF Interface!Loaded
<1>2. CASE ~\E k \in DOMAIN cached : cached[k] = o
  <2>1. Size[o] \in Nat /\ Capacity \in Nat
    BY DEF Interface!ReplayAssumption, Objects
  <2>2. CASE Size[o] > Capacity
    BY <1>2, <2>2 DEF Interface!Loaded
  <2>3. CASE ~(Size[o] > Capacity)
    <3> DEFINE e == Interface!Evict(cached, Size[o])
    <3>1. e \in Seq(Objects) /\ Interface!Held(e) + Size[o] <= Capacity
      <4>1. Size[o] <= Capacity /\ cached \in Seq(Objects)
        BY <2>1, <2>3 DEF CacheFits
      <4> QED BY <2>1, <4>1, EvictFits
    <3>2. Interface!Loaded(cached, o) = Append(e, o)
      BY <1>2, <2>3 DEF Interface!Loaded
    <3> HIDE DEF e
    <3>3. Interface!Held(Append(e, o)) = Interface!Held(e) + Size[o] /\ Append(e, o) \in Seq(Objects)
      BY <3>1, HeldAppend
    <3> QED BY <3>1, <3>2, <3>3 DEF CacheFits
  <2> QED BY <2>2, <2>3
<1> QED BY <1>1, <1>2

\* So does loading the objects of any outputs.
LEMMA LoadedAllFits ==
  ASSUME Interface!ReplayAssumption, NEW cached, CacheFits(cached),
         NEW S \in SUBSET Interface!Events, \A i \in S : Interface!About(i) \in Objects
  PROVE  CacheFits(Interface!LoadedAll(cached, S))
<1> DEFINE n == Len(ReplayedRun)
           C == {c \in Seq(Objects) : CacheFits(c)}
           F == [i \in 1..n |-> [c \in C |-> IF i \in S THEN Interface!Loaded(c, Interface!About(i)) ELSE c]]
           IsLoad(R) == R = [i \in 0..n |-> CASE i = 0 -> cached
                                              [] i \in S -> Interface!Loaded(R[i - 1], Interface!About(i))
                                              [] OTHER -> R[i - 1]]
           Q == CHOOSE R : IsLoad(R)
<1>1. n \in Nat /\ 0 \notin S
  BY DEF Interface!ReplayAssumption, Interface!Events
<1>2. \A c \in C, i \in 1..n : i \in S => Interface!Loaded(c, Interface!About(i)) \in C
  BY LoadedFits DEF CacheFits
<1>3. cached \in C
  BY DEF CacheFits
<1> HIDE DEF C, n
<1>4. PICK R : Iterates(R, n, C, cached, F)
  <2>1. F \in [1..n -> [C -> C]]
    BY <1>2
  <2> HIDE DEF F
  <2> QED BY <1>1, <1>3, <2>1, Iteration, Zenon
<1>5. IsLoad(R)
  <2>1. R \in [0..n -> C] /\ R[0] = cached /\ \A i \in 1..n : R[i] = F[i][R[i - 1]]
    BY <1>4 DEF Iterates
  <2>2. R = [i \in 0..n |-> R[i]]
    BY <2>1, Zenon
  <2>3. ASSUME NEW i \in 0..n
        PROVE  R[i] = CASE i = 0 -> cached
                        [] i \in S -> Interface!Loaded(R[i - 1], Interface!About(i))
                        [] OTHER -> R[i - 1]
    <3>1. CASE i = 0
      BY <3>1, <2>1, <1>1
    <3>2. CASE i # 0
      <4>1. i \in 1..n /\ R[i - 1] \in C
        BY <3>2, <1>1, <2>1
      <4>2. R[i] = IF i \in S THEN Interface!Loaded(R[i - 1], Interface!About(i)) ELSE R[i - 1]
        BY <4>1, <2>1
      <4> QED BY <3>2, <4>2
    <3> QED BY <3>1, <3>2
  <2> QED BY <2>2, <2>3, Zenon
<1>6. IsLoad(Q)
  BY <1>5, Zenon
<1>7. Interface!LoadedAll(cached, S) = Q[n]
  BY DEF Interface!LoadedAll, n
<1> HIDE DEF Q
<1>8. \A i \in 0..n : Q[i] \in C
  <2> DEFINE T == {i \in 0..n : Q[i] \in C}
  <2>0. \A i \in 0..n : Q[i] = CASE i = 0 -> cached
                                 [] i \in S -> Interface!Loaded(Q[i - 1], Interface!About(i))
                                 [] OTHER -> Q[i - 1]
    BY <1>6, Zenon
  <2>1. 0 \in T
    BY <2>0, <1>1, <1>3
  <2>2. ASSUME NEW i \in 1..n, i - 1 \in T PROVE i \in T
    <3>1. i \in 0..n /\ i # 0 /\ Q[i - 1] \in C
      BY <2>2
    <3>2. Q[i] = IF i \in S THEN Interface!Loaded(Q[i - 1], Interface!About(i)) ELSE Q[i - 1]
      BY <3>1, <2>0
    <3> QED BY <3>1, <3>2, <1>2
  <2> HIDE DEF T
  <2>3. \A i \in 0..n : i \in T
    BY <1>1, <2>1, <2>2, UpTo
  <2> QED BY <2>3 DEF T
<1> QED BY <1>1, <1>7, <1>8 DEF C

-----------------------------------------------------------------------------
(* The cursor of the replay interface.                                     *)

\* What the run's events are.
LEMMA RunTypes ==
  ASSUME Interface!ReplayAssumption
  PROVE  /\ Len(ReplayedRun) \in Nat /\ Interface!Events \subseteq Nat
         /\ \A i \in Interface!Events : i > 0 /\ i <= Len(ReplayedRun)
         /\ \A i \in Interface!Events : Interface!Offset(i) \in Nat
         /\ \A i, j \in Interface!Events : i <= j => Interface!Offset(i) <= Interface!Offset(j)
         /\ \A i \in Interface!Events : Interface!Kind(i) = "output" => Interface!About(i) \in Objects
<1>1. Len(ReplayedRun) \in Nat /\ DOMAIN ReplayedRun = Interface!Events
  BY DEF Interface!ReplayAssumption, Interface!Events
<1>2. \A i \in Interface!Events : i \in Nat /\ i > 0 /\ i <= Len(ReplayedRun)
  BY <1>1 DEF Interface!Events
<1>3. \A i \in Interface!Events : Interface!Offset(i) \in Nat
  BY <1>1, Zenon DEF Interface!ReplayAssumption, Interface!Offset
<1>4. \A i, j \in Interface!Events : i <= j => Interface!Offset(i) <= Interface!Offset(j)
  BY <1>1, Zenon DEF Interface!ReplayAssumption, Interface!Offset
<1>5. \A i \in Interface!Events : Interface!Kind(i) = "output" => Interface!About(i) \in Objects
  BY <1>1, Zenon DEF Interface!ReplayAssumption, Interface!Kind, Interface!About, Objects
<1> QED BY <1>1, <1>2, <1>3, <1>4, <1>5, Zenon

\* A page has events of the store, and says so if there are more.
GoodPage(sheet) ==
  /\ sheet \in Interface!Pages
  /\ 1 <= sheet.from /\ sheet.from <= sheet.to /\ sheet.to <= stored
  /\ sheet.more => sheet.to < stored

IsView(v) ==
  v = [page |-> v.page, at |-> v.at, ahead |-> v.ahead, first |-> v.first, gone |-> v.gone, line |-> v.line]

\* The event with which a process was met is one that tells of it, and the line
\* of the pane is that of a process that was met, or the first.
Met(v) ==
  /\ v.first \in [Process -> Interface!Events \cup {None}]
  /\ \A p \in Process : v.first[p] # None =>
       v.first[p] \in Interface!Events /\ Interface!Kind(v.first[p]) = "seen" /\ Interface!About(v.first[p]) = p
  /\ v.gone \in [Process -> Interface!Events \cup {None}]
  /\ v.line \in Nat
  /\ v.line = 0 \/ v.line < Interface!Cardinality({p \in Process : v.first[p] # None})

\* The cursor is on its page, and the page ahead follows it.
GoodView(v) ==
  /\ IsView(v) /\ GoodPage(v.page) /\ v.at \in v.page.from..v.page.to /\ Met(v)
  /\ v.ahead # None => v.page.more /\ GoodPage(v.ahead) /\ v.ahead.from = v.page.to + 1

\* The processes that can be seen are some of those that were met.
LEMMA ObservedCount ==
  ASSUME Interface!ReplayAssumption, NEW v
  PROVE  LET n == Interface!Cardinality(Interface!Observed(v))
             m == Interface!Cardinality({p \in Process : v.first[p] # None})
         IN n \in Nat /\ m \in Nat /\ n <= m
<1> DEFINE P == {p \in Process : v.first[p] # None}
<1>1. IsFiniteSet(Process)
  BY SameFinite, Zenon DEF Interface!ReplayAssumption
<1>2. P \subseteq Process /\ Interface!Observed(v) \subseteq P
  BY Zenon DEF Interface!Observed
<1> HIDE DEF P
<1>3. IsFiniteSet(P)
  BY <1>1, <1>2, FS_Subset
<1>4. /\ Interface!Cardinality(Interface!Observed(v)) \in Nat /\ Interface!Cardinality(P) \in Nat
      /\ Interface!Cardinality(Interface!Observed(v)) <= Interface!Cardinality(P)
  BY <1>2, <1>3, FS_Subset, FS_CardinalityType, SameFinite
<1> QED BY <1>4 DEF P

\* load_timeline returns such a page, unless nothing is left.
LEMMA LoadTimelineGood ==
  ASSUME Interface!ReplayAssumption, stored \in Nat, NEW last \in Nat, last < stored
  PROVE  /\ GoodPage(Interface!LoadTimeline(last))
         /\ Interface!LoadTimeline(last).from = last + 1
         /\ Interface!LoadTimeline(last).to = IF last + TimelinePage < stored THEN last + TimelinePage ELSE stored
<1> DEFINE to == IF last + TimelinePage < stored THEN last + TimelinePage ELSE stored
           more == stored > last + TimelinePage
<1>1. TimelinePage \in Nat /\ TimelinePage > 1
  BY DEF Interface!ReplayAssumption
<1>2. /\ to \in Nat /\ last + 1 \in Nat /\ more \in BOOLEAN /\ 1 <= last + 1 /\ last + 1 <= to /\ to <= stored
      /\ more => to < stored
  BY <1>1
<1>3. Interface!LoadTimeline(last) = [from |-> last + 1, to |-> to, more |-> more]
  BY Zenon DEF Interface!LoadTimeline, Interface!Lesser
<1> HIDE DEF to, more
<1>4. /\ Interface!LoadTimeline(last).from = last + 1 /\ Interface!LoadTimeline(last).to = to
      /\ Interface!LoadTimeline(last).more = more
  BY <1>3
<1>5. Interface!LoadTimeline(last) \in Interface!Pages
  BY <1>2, <1>3 DEF Interface!Pages
<1>6. GoodPage(Interface!LoadTimeline(last))
  BY <1>2, <1>4, <1>5 DEF GoodPage
<1> QED BY <1>4, <1>6 DEF to

\* ingest_current_page changes only what is known of the processes.
LEMMA IngestGood ==
  ASSUME Interface!ReplayAssumption, stored \in Interface!Events, NEW v, IsView(v), GoodPage(v.page), Met(v)
  PROVE  LET w == Interface!Ingest(v)
         IN /\ IsView(w) /\ w.page = v.page /\ w.at = v.at /\ w.ahead = v.ahead
            /\ Met(w)
<1> DEFINE Told(p, kind) == {i \in v.page.from..v.page.to : Interface!Kind(i) = kind /\ Interface!About(i) = p}
           first == [p \in Process |-> IF v.first[p] # None \/ Told(p, "seen") = {} THEN v.first[p]
                                       ELSE Interface!Least(Told(p, "seen"))]
           exits(p) == {i \in Told(p, "gone") : v.first[p] # None \/ \E j \in Told(p, "seen") : j < i}
           gone == [p \in Process |-> IF exits(p) = {} THEN v.gone[p] ELSE Interface!Greatest(exits(p))]
           u == [v EXCEPT !.first = first, !.gone = gone]
           line == Interface!Lesser(v.line, Interface!Minus(Interface!Cardinality(Interface!Observed(u)), 1))
           w == Interface!Ingest(v)
<1>1. w = [u EXCEPT !.line = line]
  BY Zenon DEF Interface!Ingest
<1> HIDE DEF gone, w
<1>11. u = [page |-> v.page, at |-> v.at, ahead |-> v.ahead, first |-> first, gone |-> gone, line |-> v.line]
  <2> HIDE DEF first
  <2>1. u = [[v EXCEPT !.first = first] EXCEPT !.gone = gone]
    OBVIOUS
  <2> DEFINE x == [v EXCEPT !.first = first]
  <2>2. x = [page |-> v.page, at |-> v.at, ahead |-> v.ahead, first |-> first, gone |-> v.gone, line |-> v.line]
    BY DEF IsView
  <2> HIDE DEF x
  <2>3. [x EXCEPT !.gone = gone]
          = [page |-> v.page, at |-> v.at, ahead |-> v.ahead, first |-> first, gone |-> gone, line |-> v.line]
    BY <2>2
  <2> QED BY <2>1, <2>3 DEF x
<1> HIDE DEF u, line
<1>2. w = [page |-> v.page, at |-> v.at, ahead |-> v.ahead, first |-> first, gone |-> gone, line |-> line]
  <2> HIDE DEF first
  <2> QED BY <1>1, <1>11
<1>3. ASSUME NEW p \in Process
      PROVE  /\ v.first[p] # None => first[p] = v.first[p]
             /\ first[p] \in Interface!Events \cup {None}
             /\ first[p] # None => /\ first[p] \in Interface!Events
                                   /\ Interface!Kind(first[p]) = "seen" /\ Interface!About(first[p]) = p
  <2>1. CASE v.first[p] # None \/ Told(p, "seen") = {}
    <3>1. first[p] = v.first[p]
      BY <2>1
    <3> HIDE DEF first
    <3> QED BY <3>1 DEF Met
  <2>2. CASE ~(v.first[p] # None \/ Told(p, "seen") = {})
    <3>1. first[p] = Interface!Least(Told(p, "seen"))
      BY <2>2
    <3>2. Told(p, "seen") \subseteq Interface!Events
      BY RunTypes DEF GoodPage, Interface!Pages, Interface!Events
    <3>3. Told(p, "seen") \subseteq Nat
      BY <3>2, RunTypes
    <3>4. first[p] \in Told(p, "seen")
      <4> HIDE DEF Told, first
      <4> QED BY <2>2, <3>1, <3>3, LeastOf
    <3> HIDE DEF first
    <3>5. first[p] \in Interface!Events /\ Interface!Kind(first[p]) = "seen" /\ Interface!About(first[p]) = p
      BY <3>2, <3>4
    <3> HIDE DEF Told
    <3> QED BY <2>2, <3>5
  <2> QED BY <2>1, <2>2
<1>4. w.page = v.page /\ w.at = v.at /\ w.ahead = v.ahead /\ w.first = first /\ w.gone = gone /\ w.line = line
  <2> HIDE DEF first
  <2> QED BY <1>2
<1>5. IsView(w)
  <2> HIDE DEF first
  <2> QED BY <1>2, <1>4, Zenon DEF IsView
<1>6. first \in [Process -> Interface!Events \cup {None}]
  <2>1. first = [p \in Process |-> first[p]]
    BY Zenon
  <2> HIDE DEF first
  <2> QED BY <1>3, <2>1
<1> HIDE DEF first
<1>8. gone \in [Process -> Interface!Events \cup {None}]
  <2>1. ASSUME NEW p \in Process
        PROVE  (IF exits(p) = {} THEN v.gone[p] ELSE Interface!Greatest(exits(p))) \in Interface!Events \cup {None}
    <3>1. CASE exits(p) = {}
      <4> HIDE DEF exits
      <4> QED BY <3>1 DEF Met
    <3>2. CASE exits(p) # {}
      <4>1. exits(p) \subseteq Interface!Events
        BY RunTypes DEF GoodPage, Interface!Pages, Interface!Events
      <4>2. exits(p) \subseteq Nat /\ Len(ReplayedRun) \in Nat /\ \A i \in exits(p) : i <= Len(ReplayedRun)
        <5> HIDE DEF exits
        <5> QED BY <4>1, RunTypes
      <4> HIDE DEF exits
      <4>3. Interface!Greatest(exits(p)) \in exits(p)
        BY <3>2, <4>2, GreatestOf
      <4> QED BY <3>2, <4>1, <4>3
    <3> QED BY <3>1, <3>2
  <2> HIDE DEF exits
  <2> QED BY <2>1 DEF gone
<1>9. line \in Nat /\ (line = 0 \/ line < Interface!Cardinality({p \in Process : first[p] # None}))
  <2> DEFINE n == Interface!Cardinality(Interface!Observed(u))
             m == Interface!Cardinality({p \in Process : u.first[p] # None})
  <2>1. n \in Nat /\ m \in Nat /\ n <= m
    BY ObservedCount
  <2>2. u.first = first
    BY <1>11
  <2>3. line = Interface!Lesser(v.line, Interface!Minus(n, 1)) /\ v.line \in Nat
    BY Zenon DEF line, Met
  <2> HIDE DEF n, m
  <2>4. line \in Nat /\ (line = 0 \/ line < m)
    BY <2>1, <2>3 DEF Interface!Lesser, Interface!Minus
  <2> QED BY <2>2, <2>4, Zenon DEF m
<1>7. Met(w)
  BY <1>3, <1>4, <1>6, <1>8, <1>9, Zenon DEF Met
<1> QED BY <1>4, <1>5, <1>7, Zenon DEF w

\* What it is to turn to another page.
LEMMA TurnPage ==
  ASSUME NEW v, IsView(v), NEW sheet, NEW i
  PROVE  [v EXCEPT !.page = sheet, !.at = i]
           = [page |-> sheet, at |-> i, ahead |-> v.ahead, first |-> v.first, gone |-> v.gone, line |-> v.line]
<1> DEFINE u == [v EXCEPT !.page = sheet]
<1>1. [v EXCEPT !.page = sheet, !.at = i] = [u EXCEPT !.at = i]
  OBVIOUS
<1>2. u = [page |-> sheet, at |-> v.at, ahead |-> v.ahead, first |-> v.first, gone |-> v.gone, line |-> v.line]
  BY DEF IsView
<1> HIDE DEF u
<1>3. [u EXCEPT !.at = i]
        = [page |-> sheet, at |-> i, ahead |-> v.ahead, first |-> v.first, gone |-> v.gone, line |-> v.line]
  BY <1>2
<1> QED BY <1>1, <1>3

\* Whatever page the cursor turns to, the page ahead must follow that.
LEMMA ReplacePageGood ==
  ASSUME Interface!ReplayAssumption, stored \in Interface!Events, NEW v, IsView(v), Met(v),
         NEW sheet, GoodPage(sheet), NEW i \in sheet.from..sheet.to,
         v.ahead # None => sheet.more /\ GoodPage(v.ahead) /\ v.ahead.from = sheet.to + 1
  PROVE  LET w == Interface!ReplacePage(v, sheet, i)
         IN GoodView(w) /\ w.at = i
<1> DEFINE u == [v EXCEPT !.page = sheet, !.at = i]
           w == Interface!ReplacePage(v, sheet, i)
<1>1. u = [page |-> sheet, at |-> i, ahead |-> v.ahead, first |-> v.first, gone |-> v.gone, line |-> v.line]
  BY TurnPage
<1>2. w = Interface!Ingest(u)
  BY Zenon DEF Interface!ReplacePage
<1> HIDE DEF u, w
<1>3. u.page = sheet /\ u.at = i /\ u.ahead = v.ahead /\ u.first = v.first /\ u.gone = v.gone /\ u.line = v.line
  BY <1>1
<1>4. IsView(u) /\ GoodPage(u.page) /\ Met(u)
  BY <1>1, <1>3, Zenon DEF IsView, Met
<1>5. IsView(w) /\ w.page = sheet /\ w.at = i /\ w.ahead = v.ahead /\ Met(w)
  BY <1>2, <1>3, <1>4, IngestGood
<1>7. GoodView(w)
  BY <1>5, Zenon DEF GoodView
<1> QED BY <1>5, <1>7 DEF w

\* peek_next_offset leaves the cursor where it is.
LEMMA PeekNextGood ==
  ASSUME Interface!ReplayAssumption, stored \in Interface!Events, NEW v, GoodView(v)
  PROVE  LET w == Interface!PeekNext(v)
         IN /\ GoodView(w) /\ w.at = v.at /\ w.page = v.page
            /\ w.page.more /\ w.at = w.page.to => w.ahead # None
<1> DEFINE w == Interface!PeekNext(v)
           sheet == Interface!LoadTimeline(v.page.to)
<1>0. stored \in Nat /\ v.page.from \in Nat /\ v.page.to \in Nat /\ v.at \in v.page.from..v.page.to
  BY RunTypes DEF GoodView, GoodPage, Interface!Pages
<1>1. CASE v.at < v.page.to \/ ~v.page.more \/ v.ahead # None
  <2>1. w = v
    BY <1>1, Zenon DEF Interface!PeekNext
  <2>2. w.at = w.page.to => ~(v.at < v.page.to)
    BY <2>1, <1>0
  <2> HIDE DEF w
  <2>3. w.page.more /\ w.at = w.page.to => w.ahead # None
    BY <1>1, <2>1, <2>2
  <2> QED BY <2>1, <2>3 DEF w
<1>2. CASE ~(v.at < v.page.to \/ ~v.page.more \/ v.ahead # None)
  <2>1. v.page.more /\ v.page.to < stored
    BY <1>2 DEF GoodView, GoodPage
  <2>2. GoodPage(sheet) /\ sheet.from = v.page.to + 1
    BY <2>1, <1>0, LoadTimelineGood
  <2> HIDE DEF sheet
  <2>3. ~Interface!IsEmpty(sheet)
    BY <2>2 DEF GoodPage, Interface!IsEmpty, Interface!Pages
  <2>4. w = [v EXCEPT !.ahead = sheet]
    BY <1>2, <2>3, Zenon DEF Interface!PeekNext, sheet
  <2> HIDE DEF w
  <2>5. w = [page |-> v.page, at |-> v.at, ahead |-> sheet, first |-> v.first, gone |-> v.gone, line |-> v.line]
    BY <2>4 DEF GoodView, IsView
  <2>6. w.page = v.page /\ w.at = v.at /\ w.ahead = sheet /\ w.first = v.first /\ w.gone = v.gone /\ w.line = v.line
    BY <2>5
  <2>7. sheet # None
    BY <2>2, Zenon DEF GoodPage, Interface!ReplayAssumption, Interface!Pages
  <2>8. GoodView(w)
    <3>1. IsView(w)
      BY <2>5, <2>6, Zenon DEF IsView
    <3>2. Met(w)
      BY <2>6, Zenon DEF GoodView, Met
    <3> QED BY <2>1, <2>2, <2>6, <3>1, <3>2, Zenon DEF GoodView
  <2> QED BY <2>6, <2>7, <2>8 DEF w
<1> QED BY <1>1, <1>2

\* A cursor that only moves on its page.
LEMMA MoveOnPage ==
  ASSUME NEW v, GoodView(v), NEW i \in v.page.from..v.page.to
  PROVE  LET w == [v EXCEPT !.at = i] IN GoodView(w) /\ w.at = i
<1> DEFINE w == [v EXCEPT !.at = i]
<1>1. w = [page |-> v.page, at |-> i, ahead |-> v.ahead, first |-> v.first, gone |-> v.gone, line |-> v.line]
  BY DEF GoodView, IsView
<1> HIDE DEF w
<1>2. w.page = v.page /\ w.at = i /\ w.ahead = v.ahead /\ w.first = v.first /\ w.gone = v.gone /\ w.line = v.line
  BY <1>1
<1>3. IsView(w) /\ Met(w)
  BY <1>1, <1>2, Zenon DEF GoodView, IsView, Met
<1>4. GoodView(w)
  BY <1>2, <1>3, Zenon DEF GoodView
<1> QED BY <1>2, <1>3, <1>4 DEF w

\* step_next_raw goes to the next event, if there is one.
LEMMA StepNextGood ==
  ASSUME Interface!ReplayAssumption, stored \in Interface!Events, NEW v, GoodView(v)
  PROVE  GoodView(Interface!StepNext(v))
<1>0. v.page.from \in Nat /\ v.page.to \in Nat /\ v.at \in v.page.from..v.page.to
  BY DEF GoodView, GoodPage, Interface!Pages
<1>1. CASE v.at < v.page.to
  <2>1. v.at + 1 \in v.page.from..v.page.to
    BY <1>0, <1>1
  <2>2. Interface!StepNext(v) = [v EXCEPT !.at = v.at + 1]
    BY <1>1 DEF Interface!StepNext
  <2> QED BY <2>1, <2>2, MoveOnPage
<1>2. CASE ~(v.at < v.page.to)
  <2> DEFINE w == Interface!PeekNext(v)
             u == [w EXCEPT !.ahead = None]
  <2>1. /\ GoodView(w) /\ w.at = v.at /\ w.page = v.page
        /\ w.page.more /\ w.at = w.page.to => w.ahead # None
    BY PeekNextGood
  <2>2. Interface!StepNext(v) = IF ~w.page.more THEN w ELSE Interface!ReplacePage(u, w.ahead, w.ahead.from)
    BY <1>2, Zenon DEF Interface!StepNext
  <2> HIDE DEF w
  <2>4. CASE ~w.page.more
    BY <2>1, <2>2, <2>4
  <2>5. CASE w.page.more
    <3>1. w.ahead # None /\ GoodPage(w.ahead)
      BY <2>1, <2>5, <1>0, <1>2 DEF GoodView
    <3>2. u = [page |-> w.page, at |-> w.at, ahead |-> None, first |-> w.first, gone |-> w.gone, line |-> w.line]
      BY <2>1 DEF GoodView, IsView
    <3> HIDE DEF u
    <3>3. u.page = w.page /\ u.at = w.at /\ u.ahead = None /\ u.first = w.first /\ u.gone = w.gone /\ u.line = w.line
      BY <3>2
    <3>4. IsView(u) /\ Met(u)
      BY <2>1, <3>2, <3>3, Zenon DEF GoodView, IsView, Met
    <3>5. w.ahead.from \in w.ahead.from..w.ahead.to
      BY <3>1 DEF GoodPage, Interface!Pages
    <3> DEFINE x == Interface!ReplacePage(u, w.ahead, w.ahead.from)
    <3>6. GoodView(x)
      BY <3>1, <3>3, <3>4, <3>5, ReplacePageGood
    <3> HIDE DEF x
    <3>7. Interface!StepNext(v) = x
      BY <2>2, <2>5 DEF x
    <3> QED BY <3>6, <3>7
  <2> QED BY <2>4, <2>5
<1> QED BY <1>1, <1>2

\* To leave the page for one that has event i, with nothing fetched ahead.
LEMMA LeavePage ==
  ASSUME Interface!ReplayAssumption, stored \in Interface!Events, NEW v, GoodView(v),
         NEW sheet, GoodPage(sheet), NEW i \in sheet.from..sheet.to
  PROVE  LET w == Interface!ReplacePage([v EXCEPT !.ahead = None], sheet, i)
         IN GoodView(w)
<1> DEFINE u == [v EXCEPT !.ahead = None]
           w == Interface!ReplacePage(u, sheet, i)
<1>1. u = [page |-> v.page, at |-> v.at, ahead |-> None, first |-> v.first, gone |-> v.gone, line |-> v.line]
  BY DEF GoodView, IsView
<1> HIDE DEF u
<1>2. u.page = v.page /\ u.at = v.at /\ u.ahead = None /\ u.first = v.first /\ u.gone = v.gone /\ u.line = v.line
  BY <1>1
<1>3. IsView(u) /\ Met(u)
  BY <1>1, <1>2, Zenon DEF GoodView, IsView, Met
<1>4. GoodView(w)
  BY <1>2, <1>3, ReplacePageGood
<1> QED BY <1>4 DEF w, u

\* step_previous_raw goes to the event before, if there is one.
LEMMA StepPreviousGood ==
  ASSUME Interface!ReplayAssumption, stored \in Interface!Events, NEW v, GoodView(v)
  PROVE  GoodView(Interface!StepPrevious(v))
<1>0. /\ v.page.from \in Nat /\ v.page.to \in Nat /\ v.at \in v.page.from..v.page.to
      /\ 1 <= v.page.from /\ v.page.from <= v.page.to /\ v.page.to <= stored /\ stored \in Nat
  BY RunTypes DEF GoodView, GoodPage, Interface!Pages
<1>1. CASE v.at > v.page.from
  <2>1. v.at - 1 \in v.page.from..v.page.to
    BY <1>0, <1>1
  <2>2. Interface!StepPrevious(v) = [v EXCEPT !.at = v.at - 1]
    BY <1>1 DEF Interface!StepPrevious
  <2> QED BY <2>1, <2>2, MoveOnPage
<1>2. CASE ~(v.at > v.page.from) /\ v.page.from = 1
  <2>1. Interface!StepPrevious(v) = v
    BY <1>2 DEF Interface!StepPrevious
  <2> QED BY <2>1
<1>3. CASE ~(v.at > v.page.from) /\ v.page.from # 1
  <2> DEFINE last == Interface!Minus(v.page.from - 1, TimelinePage)
             sheet == Interface!LoadTimeline(last)
  <2>1. TimelinePage \in Nat /\ TimelinePage > 1
    BY DEF Interface!ReplayAssumption
  <2>2. /\ last \in Nat /\ last < v.page.from - 1
        /\ v.page.from - 1 <= last + TimelinePage
    BY <1>0, <1>3, <2>1 DEF Interface!Minus
  <2>3. Interface!StepPrevious(v) = Interface!ReplacePage([v EXCEPT !.ahead = None], sheet, v.page.from - 1)
    BY <1>3, Zenon DEF Interface!StepPrevious
  <2> HIDE DEF last
  <2>4. last < stored
    BY <1>0, <2>2
  <2>5. /\ GoodPage(sheet) /\ sheet.from = last + 1
        /\ sheet.to = IF last + TimelinePage < stored THEN last + TimelinePage ELSE stored
    BY <1>0, <2>2, <2>4, LoadTimelineGood
  <2> HIDE DEF sheet
  <2>6. v.page.from - 1 \in sheet.from..sheet.to
    BY <1>0, <2>1, <2>2, <2>5
  <2> QED BY <2>3, <2>5, <2>6, LeavePage
<1> QED BY <1>1, <1>2, <1>3

\* jump_to goes to an event of the store.
LEMMA JumpToGood ==
  ASSUME Interface!ReplayAssumption, stored \in Interface!Events, NEW v, GoodView(v), NEW i \in 1..stored
  PROVE  GoodView(Interface!JumpTo(v, i))
<1> DEFINE back == TimelinePage \div 2 + 1
           last == Interface!Minus(i, back)
           sheet == Interface!LoadTimeline(last)
           to == IF i \in sheet.from..sheet.to THEN i ELSE sheet.from
<1>1. back \in Nat /\ back > 0 /\ stored \in Nat
  <2>1. TimelinePage \in Nat /\ stored \in Nat
    BY RunTypes DEF Interface!ReplayAssumption
  <2>2. TimelinePage \div 2 \in Nat
    BY <2>1
  <2> QED BY <2>1, <2>2
<1>2. Interface!JumpTo(v, i) = Interface!ReplacePage([v EXCEPT !.ahead = None], sheet, to)
  BY Zenon DEF Interface!JumpTo
<1> HIDE DEF back
<1>3. last \in Nat /\ last < i
  BY <1>1 DEF Interface!Minus
<1> HIDE DEF last
<1>4. last < stored
  BY <1>1, <1>3
<1>5. GoodPage(sheet)
  BY <1>1, <1>3, <1>4, LoadTimelineGood
<1> HIDE DEF sheet
<1>6. to \in sheet.from..sheet.to
  BY <1>5 DEF GoodPage, Interface!Pages
<1> HIDE DEF to
<1> QED BY <1>2, <1>5, <1>6, LeavePage

-----------------------------------------------------------------------------
(* Playback.                                                               *)

\* A tick plays on along good views, and not beyond its limit.
LEMMA PlayedGood ==
  ASSUME Interface!ReplayAssumption, stored \in Interface!Events, NEW v, GoodView(v),
         NEW limit \in Nat, Interface!Offset(v.at) <= limit
  PROVE  LET r == Interface!Played(v, limit)
         IN /\ GoodView(r.view) /\ r.on \in BOOLEAN
            /\ Interface!Offset(r.view.at) <= limit
<1> DEFINE n == TickSteps
           Marks == [Process -> Interface!Events \cup {None}]
           Views == [page : Interface!Pages, at : Nat, ahead : Interface!Pages \cup {None},
                     first : Marks, gone : Marks, line : Nat]
           Played == {r \in [view : Views, on : BOOLEAN] :
                        GoodView(r.view) /\ Interface!Offset(r.view.at) <= limit}
           Step(r) == LET w == Interface!PeekNext(r.view)
                          next == Interface!StepNext(w).at
                      IN CASE ~r.on -> r
                           [] r.on /\ ~Interface!HasNext(w) -> [view |-> w, on |-> FALSE]
                           [] r.on /\ Interface!HasNext(w) /\ Interface!Offset(next) > limit ->
                                [view |-> w, on |-> TRUE]
                           [] OTHER -> [view |-> Interface!StepNext(w), on |-> TRUE]
           F == [i \in 1..n |-> [r \in Played |-> Step(r)]]
           x == [view |-> v, on |-> TRUE]
           IsPlay(R) == R = [i \in 0..n |-> IF i = 0 THEN x ELSE Step(R[i - 1])]
           Q == CHOOSE R : IsPlay(R)
<1>1. n \in Nat
  BY DEF Interface!ReplayAssumption
<1>2. ASSUME NEW w, GoodView(w) PROVE w \in Views
  <2>1. /\ w.page \in Interface!Pages /\ w.at \in Nat /\ w.ahead \in Interface!Pages \cup {None}
        /\ w.first \in Marks /\ w.gone \in Marks /\ w.line \in Nat
    <3>1. w.at \in Nat
      BY <1>2 DEF GoodView, GoodPage, Interface!Pages
    <3>2. w.page \in Interface!Pages /\ w.ahead \in Interface!Pages \cup {None}
      BY <1>2 DEF GoodView, GoodPage
    <3> QED BY <1>2, <3>1, <3>2, Zenon DEF GoodView, Met
  <2> HIDE DEF Marks
  <2>2. w = [page |-> w.page, at |-> w.at, ahead |-> w.ahead, first |-> w.first, gone |-> w.gone, line |-> w.line]
    BY <1>2, Zenon DEF GoodView, IsView
  <2> QED BY <2>1, <2>2
<1>3. ASSUME NEW w, GoodView(w), Interface!Offset(w.at) <= limit, NEW b \in BOOLEAN
      PROVE  [view |-> w, on |-> b] \in Played
  <2>1. w \in Views
    BY <1>2, <1>3
  <2> HIDE DEF Views
  <2> QED BY <1>3, <2>1
<1>4. x \in Played
  <2> HIDE DEF Played
  <2> QED BY <1>3
<1>5. ASSUME NEW r \in Played PROVE Step(r) \in Played
  <2> DEFINE w == Interface!PeekNext(r.view)
             u == Interface!StepNext(w)
  <2>1. GoodView(r.view) /\ Interface!Offset(r.view.at) <= limit /\ r.on \in BOOLEAN
    <3> HIDE DEF Views
    <3> QED OBVIOUS
  <2>2. GoodView(w) /\ w.at = r.view.at
    BY <2>1, PeekNextGood
  <2>3. GoodView(u)
    BY <2>2, StepNextGood
  <2>4. Step(r) = CASE ~r.on -> r
                    [] r.on /\ ~Interface!HasNext(w) -> [view |-> w, on |-> FALSE]
                    [] r.on /\ Interface!HasNext(w) /\ Interface!Offset(u.at) > limit -> [view |-> w, on |-> TRUE]
                    [] OTHER -> [view |-> u, on |-> TRUE]
    BY Zenon
  <2> HIDE DEF u, w, Step
  <2>6. CASE ~r.on
    BY <2>4, <2>6
  <2>7. CASE r.on /\ ~Interface!HasNext(w)
    <3>1. Step(r) = [view |-> w, on |-> FALSE]
      BY <2>4, <2>7
    <3> HIDE DEF Played
    <3> QED BY <3>1, <1>3, <2>1, <2>2
  <2>8. CASE r.on /\ Interface!HasNext(w) /\ Interface!Offset(u.at) > limit
    <3>1. Step(r) = [view |-> w, on |-> TRUE]
      BY <2>4, <2>8
    <3> HIDE DEF Played
    <3> QED BY <3>1, <1>3, <2>1, <2>2
  <2>9. CASE r.on /\ Interface!HasNext(w) /\ ~(Interface!Offset(u.at) > limit)
    <3>1. Step(r) = [view |-> u, on |-> TRUE]
      BY <2>4, <2>9
    <3>2. Interface!Offset(u.at) <= limit
      <4>1. u.at \in Interface!Events
        BY <2>3, RunTypes DEF GoodView, GoodPage, Interface!Pages, Interface!Events
      <4>2. Interface!Offset(u.at) \in Nat
        BY <4>1, RunTypes
      <4> QED BY <4>2, <2>9
    <3> HIDE DEF Played
    <3> QED BY <3>1, <3>2, <1>3, <2>3
  <2> QED BY <2>6, <2>7, <2>8, <2>9
<1>6. Interface!Played(v, limit) = Q[n]
  BY DEF Interface!Played
<1> HIDE DEF Played, Step, x, n
<1>7. PICK R : Iterates(R, n, Played, x, F)
  <2>1. F \in [1..n -> [Played -> Played]]
    BY <1>5
  <2> HIDE DEF F
  <2> QED BY <1>1, <1>4, <2>1, Iteration, Zenon
<1>8. R \in [0..n -> Played] /\ R[0] = x /\ \A i \in 1..n : R[i] = F[i][R[i - 1]]
  BY <1>7 DEF Iterates
<1>9. IsPlay(R)
  <2>1. R = [i \in 0..n |-> R[i]]
    BY <1>8, Zenon
  <2>2. ASSUME NEW i \in 0..n PROVE R[i] = IF i = 0 THEN x ELSE Step(R[i - 1])
    <3>1. CASE i = 0
      BY <3>1, <1>8
    <3>2. CASE i # 0
      <4>1. i \in 1..n /\ R[i - 1] \in Played
        BY <3>2, <1>1, <1>8
      <4> QED BY <3>2, <4>1, <1>8
    <3> QED BY <3>1, <3>2
  <2> QED BY <2>1, <2>2, Zenon
<1>10. IsPlay(Q)
  BY <1>9, Zenon
<1> HIDE DEF Q
<1>11. \A i \in 0..n : Q[i] \in Played
  <2> DEFINE T == {i \in 0..n : Q[i] \in Played}
  <2>0. \A i \in 0..n : Q[i] = IF i = 0 THEN x ELSE Step(Q[i - 1])
    BY <1>10, Zenon
  <2>1. 0 \in T
    BY <2>0, <1>1, <1>4
  <2>2. ASSUME NEW i \in 1..n, i - 1 \in T PROVE i \in T
    <3>1. i \in 0..n /\ i # 0 /\ Q[i - 1] \in Played
      BY <2>2
    <3>2. Q[i] = Step(Q[i - 1])
      BY <3>1, <2>0
    <3> QED BY <3>1, <3>2, <1>5
  <2> HIDE DEF T
  <2>3. \A i \in 0..n : i \in T
    BY <1>1, <2>1, <2>2, UpTo
  <2> QED BY <2>3 DEF T
<1>12. Interface!Played(v, limit) \in Played
  BY <1>1, <1>6, <1>11
<1> QED
  <2> HIDE DEF Views
  <2> QED BY <1>12 DEF Played

-----------------------------------------------------------------------------
(* The panes.                                                              *)

\* The workspace pane is that of an event, and its line is one of its changes.
PaneShows(p, i) ==
  /\ p = [checkpoint |-> p.checkpoint, loaded |-> p.loaded, changes |-> p.changes,
          line |-> p.line, preview |-> p.preview]
  /\ p.checkpoint = Interface!CheckpointAt(i) /\ p.loaded \in BOOLEAN
  /\ p.loaded =>
       LET all == Differing[p.checkpoint]
       IN /\ p.changes = SubSeq(all, 1, Interface!Lesser(MaxChanges, Len(all)))
          /\ p.preview = Interface!Preview(p.changes, p.line)
          /\ IF p.changes = <<>> THEN p.line = 1 ELSE p.line \in 1..Len(p.changes)

\* The terminal pane has output up to an event, and all of it unless it says so.
TerminalShows(t, i) ==
  /\ t.shown \subseteq Interface!Events /\ t.shown \subseteq 1..i /\ t.cut \in BOOLEAN
  /\ t.cut \/ t.shown = {j \in 1..i : Interface!Kind(j) = "output"}

\* The checkpoints are some that are stored.
Checkpoints ==
  /\ stored \in Interface!Events /\ checkpoints \subseteq 1..stored
  /\ \A c \in checkpoints : Interface!Kind(c) = "checkpoint"

\* What the panes show is of the event at the cursor, and playback has come to it.
InterfaceInv ==
  /\ Checkpoints /\ GoodView(view)
  /\ playing \in BOOLEAN /\ target \in Nat /\ (playing => Interface!Offset(view.at) <= target)
  /\ PaneShows(pane, view.at) /\ TerminalShows(terminal, view.at)
  /\ CacheFits(cache)

\* The checkpoint of an event, if any, is one that was loaded, and its changes
\* are a sequence.
LEMMA CheckpointKnown ==
  ASSUME Interface!ReplayAssumption, Checkpoints, NEW i \in Nat
  PROVE  LET c == Interface!CheckpointAt(i)
         IN c \in checkpoints \cup {None} /\ \E S : Differing[c] \in Seq(S)
<1> DEFINE P == {c \in checkpoints : c <= i}
           c == Interface!CheckpointAt(i)
<1>1. c = IF P = {} THEN None ELSE Interface!Greatest(P)
  BY Zenon DEF Interface!CheckpointAt
<1> HIDE DEF c
<1>2. CASE P = {}
  <2>1. c = None /\ Differing[c] = <<>> /\ <<>> \in Seq({})
    BY <1>1, <1>2 DEF Interface!ReplayAssumption
  <2> QED BY <2>1 DEF c
<1>3. CASE P # {}
  <2>1. P \subseteq Nat /\ \A j \in P : j <= i
    BY RunTypes DEF Checkpoints
  <2>2. c \in P
    <3> HIDE DEF P
    <3> QED BY <1>1, <1>3, <2>1, GreatestOf
  <2>3. c \in checkpoints /\ c \in DOMAIN ReplayedRun /\ ReplayedRun[c].kind = "checkpoint"
    <3>1. c \in checkpoints /\ Interface!Kind(c) = "checkpoint" /\ c \in 1..stored
      BY <2>2 DEF Checkpoints
    <3>2. c \in 1..Len(ReplayedRun)
      BY <3>1, RunTypes DEF Checkpoints
    <3> QED BY <3>1, <3>2 DEF Interface!Kind, Interface!ReplayAssumption
  <2>4. Differing[c] \in Seq({Differing[c][k] : k \in DOMAIN Differing[c]})
    BY <2>3, Zenon DEF Interface!ReplayAssumption
  <2> QED BY <2>3, <2>4, Zenon DEF c
<1> QED BY <1>2, <1>3

\* The first changes of a checkpoint are as many as the limit allows.
LEMMA FirstChanges ==
  ASSUME Interface!ReplayAssumption, NEW S, NEW all \in Seq(S)
  PROVE  LET n == Interface!Lesser(MaxChanges, Len(all))
             some == SubSeq(all, 1, n)
         IN /\ some \in Seq(S) /\ Len(some) = n /\ n \in Nat /\ n <= Len(all)
            /\ DOMAIN some = 1..n /\ (some = <<>> <=> n = 0)
<1> DEFINE n == Interface!Lesser(MaxChanges, Len(all))
<1>1. MaxChanges \in Nat
  BY DEF Interface!ReplayAssumption
<1>2. n \in Nat /\ n <= Len(all)
  BY <1>1 DEF Interface!Lesser
<1> HIDE DEF n
<1>3. SubSeq(all, 1, n) \in Seq(S) /\ Len(SubSeq(all, 1, n)) = n
  BY <1>2
<1>4. SubSeq(all, 1, n) = <<>> <=> n = 0
  <2> DEFINE some == SubSeq(all, 1, n)
  <2>1. some \in Seq(S) /\ Len(some) = n
    BY <1>3
  <2> HIDE DEF some
  <2>2. some = <<>> <=> n = 0
    BY <2>1
  <2> QED BY <2>2 DEF some
<1>5. DOMAIN SubSeq(all, 1, n) = 1..n
  BY <1>3
<1> QED BY <1>2, <1>3, <1>4, <1>5 DEF n

\* sync_checkpoint keeps the pane of the same checkpoint and empties another's.
LEMMA SyncedShows ==
  ASSUME NEW v, NEW i, PaneShows(pane, i)
  PROVE  PaneShows(Interface!Synced(v), v.at)
<1>1. CASE pane.checkpoint = Interface!CheckpointAt(v.at)
  <2>1. Interface!Synced(v) = pane
    BY <1>1, Zenon DEF Interface!Synced
  <2> QED BY <1>1, <2>1, Zenon DEF PaneShows
<1>2. CASE pane.checkpoint # Interface!CheckpointAt(v.at)
  <2> DEFINE p == Interface!Synced(v)
  <2>1. p = [checkpoint |-> Interface!CheckpointAt(v.at), loaded |-> FALSE, changes |-> <<>>,
             line |-> 1, preview |-> None]
    BY <1>2, Zenon DEF Interface!Synced, Interface!Unloaded
  <2> HIDE DEF p
  <2>2. /\ p.checkpoint = Interface!CheckpointAt(v.at) /\ p.loaded = FALSE /\ p.changes = <<>>
        /\ p.line = 1 /\ p.preview = None
    BY <2>1
  <2>3. PaneShows(p, v.at)
    BY <2>1, <2>2, Zenon DEF PaneShows
  <2> QED BY <2>3 DEF p
<1> QED BY <1>1, <1>2

\* load_workspace shows the changes from the first on.
LEMMA LoadedShows ==
  ASSUME Interface!ReplayAssumption, Checkpoints, NEW i \in Nat
  PROVE  PaneShows(Interface!LoadedWorkspace(Interface!CheckpointAt(i)), i)
<1> DEFINE c == Interface!CheckpointAt(i)
           all == Differing[c]
           n == Interface!Lesser(MaxChanges, Len(all))
           some == SubSeq(all, 1, n)
           p == Interface!LoadedWorkspace(c)
<1>1. PICK S : all \in Seq(S)
  BY CheckpointKnown
<1>2. p = [checkpoint |-> c, loaded |-> TRUE, changes |-> some, line |-> 1,
           preview |-> Interface!Preview(some, 1)]
  BY Zenon DEF Interface!LoadedWorkspace
<1> HIDE DEF p, c
<1>3. Len(some) = n /\ n \in Nat /\ (some = <<>> <=> n = 0)
  BY <1>1, FirstChanges
<1> HIDE DEF n
<1>4. some # <<>> => 1 \in 1..Len(some)
  BY <1>3
<1>5. /\ p.checkpoint = c /\ p.loaded = TRUE /\ p.changes = some /\ p.line = 1
      /\ p.preview = Interface!Preview(some, 1)
  BY <1>2
<1>6. PaneShows(p, i)
  <2>1. p = [checkpoint |-> p.checkpoint, loaded |-> p.loaded, changes |-> p.changes,
             line |-> p.line, preview |-> p.preview]
    BY <1>2, <1>5, Zenon
  <2>2. p.loaded \in BOOLEAN /\ (IF p.changes = <<>> THEN p.line = 1 ELSE p.line \in 1..Len(p.changes))
    BY <1>4, <1>5
  <2> HIDE DEF all
  <2>3. p.changes = SubSeq(all, 1, Interface!Lesser(MaxChanges, Len(all)))
    BY <1>5 DEF n
  <2> QED BY <1>5, <2>1, <2>2, <2>3, Zenon DEF PaneShows, all, c
<1> QED BY <1>6 DEF p, c

\* refresh_terminal shows outputs of the page, and marks what it may leave out.
LEMMA RefreshShows ==
  ASSUME Interface!ReplayAssumption, Checkpoints, NEW v, GoodView(v),
         NEW t, t = [shown |-> Interface!Fitting(v), cut |-> Interface!CutOff(v)]
  PROVE  /\ TerminalShows(t, v.at)
         /\ Interface!Fitting(v) \subseteq Interface!Events
         /\ \A i \in Interface!Fitting(v) : Interface!About(i) \in Objects
<1>1. /\ v.page.from \in Nat /\ v.page.to \in Nat /\ v.at \in v.page.from..v.page.to
      /\ 1 <= v.page.from /\ v.page.to <= stored /\ stored \in Nat
      /\ stored <= Len(ReplayedRun) /\ Len(ReplayedRun) \in Nat
  BY RunTypes DEF GoodView, GoodPage, Interface!Pages, Checkpoints
<1>2. t.shown = Interface!Fitting(v) /\ t.cut = Interface!CutOff(v)
  OBVIOUS
<1>3. /\ Interface!Fitting(v) \subseteq Interface!Outputs(v)
      /\ \A i \in Interface!Outputs(v) : i \in v.page.from..v.at /\ Interface!Kind(i) = "output"
  BY Zenon DEF Interface!Fitting, Interface!Outputs
<1>4. v.page.from..v.at \subseteq 1..v.at /\ 1..v.at \subseteq Interface!Events
  BY <1>1 DEF Interface!Events
<1>5. \A i \in Interface!Fitting(v) : Interface!About(i) \in Objects
  BY <1>3, <1>4, RunTypes
<1>6. CASE v.page.from # 1 \/ Interface!Fitting(v) # Interface!Outputs(v)
  <2>1. t.cut = TRUE
    BY <1>2, <1>6, Zenon DEF Interface!CutOff
  <2> QED BY <1>2, <1>3, <1>4, <1>5, <2>1 DEF TerminalShows
<1>7. CASE v.page.from = 1 /\ Interface!Fitting(v) = Interface!Outputs(v)
  <2>1. t.cut = FALSE
    BY <1>2, <1>7, Zenon DEF Interface!CutOff
  <2>2. t.shown = {j \in 1..v.at : Interface!Kind(j) = "output"}
    BY <1>2, <1>7, Zenon DEF Interface!Outputs
  <2> QED BY <1>2, <1>3, <1>4, <1>5, <2>1, <2>2, Zenon DEF TerminalShows
<1> QED BY <1>6, <1>7

\* The invariant after a step that leaves the store alone.
LEMMA Settles ==
  ASSUME Checkpoints, UNCHANGED <<stored, checkpoints>>, NEW v, GoodView(v), view' = v,
         playing' \in BOOLEAN, target' \in Nat, playing' => Interface!Offset(v.at) <= target',
         PaneShows(pane', v.at), TerminalShows(terminal', v.at),
         CacheFits(cache')
  PROVE  InterfaceInv'
<1>1. Checkpoints'
  BY Zenon DEF Checkpoints
<1>2. GoodView(view)'
  BY Zenon DEF GoodView, GoodPage, Met, IsView
<1>3. PaneShows(pane, view.at)'
  BY Zenon DEF PaneShows, Interface!CheckpointAt
<1>4. TerminalShows(terminal, view.at)'
  BY Zenon DEF TerminalShows
<1>6. CacheFits(cache)'
  BY Zenon DEF CacheFits
<1>7. (playing => Interface!Offset(view.at) <= target)'
  BY Zenon
<1> QED BY <1>1, <1>2, <1>3, <1>4, <1>6, <1>7, Zenon DEF InterfaceInv

\* Where the cursor has moved, the panes follow.
LEMMA AfterMoveShows ==
  ASSUME Interface!ReplayAssumption, InterfaceInv, NEW v, GoodView(v), Interface!AfterMove(v)
  PROVE  PaneShows(pane', v.at) /\ TerminalShows(terminal', v.at) /\ CacheFits(cache')
<1>1. PaneShows(pane', v.at)
  BY SyncedShows, Zenon DEF Interface!AfterMove, InterfaceInv
<1> DEFINE t == [shown |-> Interface!Fitting(v), cut |-> Interface!CutOff(v)]
<1>2. terminal' = t /\ cache' = Interface!LoadedAll(cache, Interface!Fitting(v))
  BY Zenon DEF Interface!AfterMove, Interface!RefreshTerminal
<1>3. Checkpoints /\ CacheFits(cache)
  BY Zenon DEF InterfaceInv
<1>4. /\ TerminalShows(t, v.at) /\ Interface!Fitting(v) \subseteq Interface!Events
      /\ \A i \in Interface!Fitting(v) : Interface!About(i) \in Objects
  BY <1>3, RefreshShows
<1> HIDE DEF t
<1>5. CacheFits(cache')
  BY <1>2, <1>3, <1>4, LoadedAllFits
<1> QED BY <1>1, <1>2, <1>4, <1>5

\* A step of the cursor to a good view, or to the one it has.
LEMMA MoveShows ==
  ASSUME Interface!ReplayAssumption, InterfaceInv, NEW v, GoodView(v), Interface!Move(v)
  PROVE  InterfaceInv'
<1>1. /\ playing' = FALSE /\ view' = v /\ UNCHANGED <<stored, checkpoints>>
      /\ IF v.at = view.at THEN UNCHANGED <<target, pane, cache, terminal>>
         ELSE target' = Interface!Offset(v.at) /\ Interface!AfterMove(v)
  BY DEF Interface!Move, Interface!SyncTarget
<1>2. Checkpoints /\ target \in Nat /\ PaneShows(pane, view.at) /\ TerminalShows(terminal, view.at) /\ CacheFits(cache)
  BY Zenon DEF InterfaceInv
<1>4. v.at \in Interface!Events
  BY <1>2, RunTypes DEF GoodView, GoodPage, Interface!Pages, Interface!Events, Checkpoints
<1>5. target' \in Nat
  BY <1>1, <1>2, <1>4, RunTypes
<1>6. PaneShows(pane', v.at) /\ TerminalShows(terminal', v.at) /\ CacheFits(cache')
  <2>1. CASE v.at = view.at
    BY <1>1, <1>2, <2>1, Zenon
  <2>2. CASE v.at # view.at
    BY <1>1, <2>2, AfterMoveShows
  <2> QED BY <2>1, <2>2
<1> QED BY <1>1, <1>2, <1>5, <1>6, Settles

\* What App::load makes of any store.
LEMMA InterfaceInit ==
  ASSUME Interface!ReplayAssumption, Interface!Init
  PROVE  InterfaceInv
<1> DEFINE first == [page |-> Interface!LoadTimeline(0), at |-> 1, ahead |-> None,
                     first |-> Interface!NoProcess, gone |-> Interface!NoProcess, line |-> 0]
<1>1. /\ stored \in Interface!Events /\ view = Interface!Ingest(first)
      /\ playing = FALSE /\ target = Interface!Offset(1)
      /\ pane = Interface!Unloaded(Interface!CheckpointAt(1))
      /\ cache = Interface!LoadedAll(<<>>, Interface!Fitting(view))
      /\ terminal = [shown |-> Interface!Fitting(view), cut |-> Interface!CutOff(view)]
  BY DEF Interface!Init
<1>2. PICK n \in Interface!Events : n <= stored /\ checkpoints = {i \in 1..n : Interface!Kind(i) = "checkpoint"}
  BY Zenon DEF Interface!Init
<1>3. Checkpoints
  <2>1. n \in Nat /\ stored \in Nat
    BY <1>1, <1>2, RunTypes
  <2>2. 1..n \subseteq 1..stored
    BY <1>2, <2>1
  <2> QED BY <1>1, <1>2, <2>2 DEF Checkpoints
<1>4. GoodView(view) /\ view.at = 1
  <2> DEFINE sheet == Interface!LoadTimeline(0)
             v == first
  <2>1. stored \in Nat /\ stored > 0
    BY <1>1, RunTypes
  <2>2. GoodPage(sheet) /\ sheet.from = 1
    BY <2>1, LoadTimelineGood
  <2> HIDE DEF sheet
  <2>3. /\ v.page = sheet /\ v.at = 1 /\ v.ahead = None
        /\ v.first = Interface!NoProcess /\ v.gone = Interface!NoProcess /\ v.line = 0 /\ v.line \in Nat
    BY DEF sheet
  <2>4. IsView(v)
    BY <2>3 DEF IsView, sheet
  <2> HIDE DEF first
  <2>5. Interface!NoProcess \in [Process -> Interface!Events \cup {None}] /\ \A p \in Process : Interface!NoProcess[p] = None
    BY DEF Interface!NoProcess
  <2>6. Met(v)
    BY <2>3, <2>5, Zenon DEF Met
  <2>7. IsView(view) /\ view.page = v.page /\ view.at = v.at /\ view.ahead = v.ahead /\ Met(view)
    BY <1>1, <2>2, <2>3, <2>4, <2>6, IngestGood
  <2>8. 1 \in sheet.from..sheet.to
    BY <2>2 DEF GoodPage, Interface!Pages
  <2> QED BY <2>2, <2>3, <2>7, <2>8 DEF GoodView
<1>5. PaneShows(pane, view.at)
  <2>1. pane = [checkpoint |-> Interface!CheckpointAt(1), loaded |-> FALSE, changes |-> <<>>,
                line |-> 1, preview |-> None]
    BY <1>1, Zenon DEF Interface!Unloaded
  <2>2. pane.checkpoint = Interface!CheckpointAt(1) /\ pane.loaded = FALSE /\ pane.changes = <<>>
        /\ pane.line = 1 /\ pane.preview = None
    BY <2>1
  <2> QED BY <1>4, <2>1, <2>2, Zenon DEF PaneShows
<1>6. /\ TerminalShows(terminal, view.at) /\ Interface!Fitting(view) \subseteq Interface!Events
      /\ \A i \in Interface!Fitting(view) : Interface!About(i) \in Objects
  BY <1>1, <1>3, <1>4, RefreshShows
<1>7. CacheFits(<<>>)
  <2>1. <<>> \in Seq(Objects) /\ Len(<<>>) = 0
    OBVIOUS
  <2>2. PICK R : Sums(R, <<>>) /\ Interface!Held(<<>>) = R[Len(<<>>)]
    BY <2>1, HeldIsSum
  <2>3. Interface!Held(<<>>) = 0
    BY <2>1, <2>2 DEF Sums
  <2>4. 0 <= Capacity
    BY DEF Interface!ReplayAssumption
  <2> QED BY <2>1, <2>3, <2>4, Zenon DEF CacheFits
<1>8. CacheFits(cache)
  BY <1>1, <1>6, <1>7, LoadedAllFits
<1>9. target \in Nat /\ playing \in BOOLEAN
  <2>1. 1 \in Interface!Events
    BY <1>1, RunTypes DEF Interface!Events
  <2> QED BY <1>1, <2>1, RunTypes
<1> QED BY <1>1, <1>3, <1>4, <1>5, <1>6, <1>8, <1>9, Zenon DEF InterfaceInv

\* What does not move the cursor changes one pane at most.
LEMMA StaysShown ==
  ASSUME InterfaceInv, UNCHANGED <<stored, checkpoints, view, cache, terminal>>,
         playing' \in BOOLEAN, target' \in Nat, playing' => Interface!Offset(view.at) <= target',
         PaneShows(pane', view.at)
  PROVE  InterfaceInv'
<1>1. /\ Checkpoints /\ GoodView(view) /\ TerminalShows(terminal, view.at) /\ CacheFits(cache)
      /\ view' = view /\ terminal' = terminal /\ cache' = cache
  BY Zenon DEF InterfaceInv
<1>2. TerminalShows(terminal', view.at) /\ CacheFits(cache')
  BY <1>1, Zenon
<1> QED BY <1>1, <1>2, Settles

\* The recorder's appending disturbs nothing that is shown.
LEMMA RecordShows ==
  ASSUME Interface!ReplayAssumption, InterfaceInv, Interface!Record
  PROVE  InterfaceInv'
<1>1. /\ stored < Len(ReplayedRun) /\ stored' = stored + 1 /\ checkpoints' = checkpoints /\ view' = view
      /\ UNCHANGED <<playing, target, pane, cache, terminal>>
  BY DEF Interface!Record
<1>2. /\ Checkpoints /\ GoodView(view) /\ PaneShows(pane, view.at) /\ TerminalShows(terminal, view.at)
      /\ CacheFits(cache)
  BY Zenon DEF InterfaceInv
<1>3. stored \in Nat /\ Len(ReplayedRun) \in Nat /\ stored > 0
  BY <1>2, RunTypes DEF Checkpoints
<1>4. Checkpoints'
  <2>1. stored + 1 \in Interface!Events /\ 1..stored \subseteq 1..(stored + 1)
    BY <1>1, <1>3 DEF Interface!Events
  <2> QED BY <1>1, <1>2, <2>1 DEF Checkpoints
<1>5. ASSUME NEW sheet, GoodPage(sheet)
      PROVE  /\ sheet \in Interface!Pages /\ 1 <= sheet.from /\ sheet.from <= sheet.to /\ sheet.to <= stored + 1
             /\ sheet.more => sheet.to < stored + 1
  BY <1>3, <1>5 DEF GoodPage, Interface!Pages
<1>6. GoodPage(view.page)' /\ (view.ahead # None => GoodPage(view.ahead)')
  <2>1. GoodPage(view.page) /\ (view.ahead # None => GoodPage(view.ahead))
    BY <1>2, Zenon DEF GoodView
  <2> QED BY <1>1, <1>5, <2>1, Zenon DEF GoodPage
<1>7. GoodView(view)'
  BY <1>1, <1>2, <1>6, Zenon DEF GoodView, Met, IsView
<1>8. PaneShows(pane, view.at)'
  BY <1>1, <1>2, Zenon DEF PaneShows, Interface!CheckpointAt
<1>9. TerminalShows(terminal, view.at)' /\ CacheFits(cache)'
  BY <1>1, <1>2, Zenon DEF TerminalShows, CacheFits
<1>10. (playing \in BOOLEAN /\ target \in Nat /\ (playing => Interface!Offset(view.at) <= target))'
  BY <1>1, Zenon DEF InterfaceInv
<1> QED BY <1>4, <1>7, <1>8, <1>9, <1>10, Zenon DEF InterfaceInv

\* What it is to turn to another line.
LEMMA TurnLine ==
  ASSUME NEW p, NEW line, NEW text,
         p = [checkpoint |-> p.checkpoint, loaded |-> p.loaded, changes |-> p.changes,
              line |-> p.line, preview |-> p.preview]
  PROVE  [p EXCEPT !.line = line, !.preview = text]
           = [checkpoint |-> p.checkpoint, loaded |-> p.loaded, changes |-> p.changes,
              line |-> line, preview |-> text]
<1> DEFINE q == [p EXCEPT !.line = line]
<1>1. [p EXCEPT !.line = line, !.preview = text] = [q EXCEPT !.preview = text]
  OBVIOUS
<1>2. q = [checkpoint |-> p.checkpoint, loaded |-> p.loaded, changes |-> p.changes,
           line |-> line, preview |-> p.preview]
  OBVIOUS
<1> HIDE DEF q
<1>3. [q EXCEPT !.preview = text]
        = [checkpoint |-> p.checkpoint, loaded |-> p.loaded, changes |-> p.changes,
           line |-> line, preview |-> text]
  BY <1>2
<1> QED BY <1>1, <1>3

\* Every key, every tick and every append preserves the invariant.
LEMMA InterfacePreserved ==
  ASSUME Interface!ReplayAssumption, InterfaceInv, [Interface!Next]_(Interface!vars)
  PROVE  InterfaceInv'
<1>0. /\ Checkpoints /\ GoodView(view) /\ playing \in BOOLEAN /\ target \in Nat
      /\ (playing => Interface!Offset(view.at) <= target)
      /\ PaneShows(pane, view.at) /\ TerminalShows(terminal, view.at)
      /\ CacheFits(cache) /\ stored \in Interface!Events
  BY Zenon DEF InterfaceInv, Checkpoints
<1>10. /\ view.at \in Interface!Events /\ Interface!Offset(view.at) \in Nat
      /\ stored \in Nat /\ view.at \in Nat
  <2>1. view.at \in Interface!Events
    BY <1>0, RunTypes DEF GoodView, GoodPage, Interface!Pages, Interface!Events
  <2> QED BY <1>0, <2>1, RunTypes
<1>1. CASE Interface!Record
  BY <1>1, RecordShows
<1>2. CASE Interface!StepEvent
  <2>1. CASE Interface!Move(Interface!StepNext(view))
    <3>1. GoodView(Interface!StepNext(view))
      BY <1>0, StepNextGood
    <3> QED BY <2>1, <3>1, MoveShows
  <2>2. CASE Interface!Move(Interface!StepPrevious(view))
    <3>1. GoodView(Interface!StepPrevious(view))
      BY <1>0, StepPreviousGood
    <3> QED BY <2>2, <3>1, MoveShows
  <2> QED BY <1>2, <2>1, <2>2 DEF Interface!StepEvent
<1>3. CASE Interface!StepCheckpoint
  <2> DEFINE later == {c \in checkpoints : c > view.at}
             earlier == {c \in checkpoints : c < view.at}
  <2>0. checkpoints \subseteq 1..stored /\ checkpoints \subseteq Nat
    BY <1>0, <1>10 DEF Checkpoints
  <2>1. \/ Interface!Move(IF later = {} THEN view ELSE Interface!JumpTo(view, Interface!Least(later)))
        \/ Interface!Move(IF earlier = {} THEN view ELSE Interface!JumpTo(view, Interface!Greatest(earlier)))
    BY <1>3, Zenon DEF Interface!StepCheckpoint
  <2>2. ASSUME NEW i \in 1..stored, Interface!Move(Interface!JumpTo(view, i)) PROVE InterfaceInv'
    <3>1. GoodView(Interface!JumpTo(view, i))
      BY <1>0, JumpToGood
    <3> QED BY <2>2, <3>1, MoveShows
  <2>3. ASSUME Interface!Move(view) PROVE InterfaceInv'
    <3> QED BY <2>3, <1>0, MoveShows
  <2>4. later # {} => Interface!Least(later) \in 1..stored
    <3>1. later \subseteq Nat /\ later \subseteq 1..stored
      BY <2>0
    <3> HIDE DEF later
    <3> QED BY <3>1, LeastOf
  <2>5. earlier # {} => Interface!Greatest(earlier) \in 1..stored
    <3>1. earlier \subseteq Nat /\ earlier \subseteq 1..stored
      BY <2>0
    <3>2. \A c \in Nat : c < view.at => c <= view.at
      BY <1>10
    <3>3. \A c \in earlier : c <= view.at
      BY <3>1, <3>2
    <3> HIDE DEF earlier
    <3> QED BY <1>10, <3>1, <3>3, GreatestOf
  <2> HIDE DEF later, earlier
  <2>6. CASE Interface!Move(IF later = {} THEN view ELSE Interface!JumpTo(view, Interface!Least(later)))
    <3>1. CASE later = {}
      BY <2>3, <2>6, <3>1
    <3>2. CASE later # {}
      BY <2>2, <2>4, <2>6, <3>2
    <3> QED BY <3>1, <3>2
  <2>7. CASE Interface!Move(IF earlier = {} THEN view ELSE Interface!JumpTo(view, Interface!Greatest(earlier)))
    <3>1. CASE earlier = {}
      BY <2>3, <2>7, <3>1
    <3>2. CASE earlier # {}
      BY <2>2, <2>5, <2>7, <3>2
    <3> QED BY <3>1, <3>2
  <2> QED BY <2>1, <2>6, <2>7
<1>4. CASE Interface!TogglePlayback
  <2>1. /\ playing' = ~playing /\ target' = Interface!Offset(view.at)
        /\ UNCHANGED <<stored, checkpoints, view, pane, cache, terminal>>
    BY <1>4 DEF Interface!TogglePlayback, Interface!SyncTarget
  <2>2. playing' \in BOOLEAN /\ target' \in Nat /\ Interface!Offset(view.at) <= target'
    BY <2>1, <1>10
  <2>3. PaneShows(pane', view.at)
    BY <2>1, <1>0, Zenon
  <2> QED BY <2>1, <2>2, <2>3, StaysShown
<1>5. CASE Interface!Tick
  <2>1. PICK limit \in {target} \cup {Interface!Offset(i) : i \in Interface!Events} :
          /\ limit >= target /\ target' = limit
          /\ view' = Interface!Played(view, limit).view /\ playing' = Interface!Played(view, limit).on
          /\ IF Interface!Played(view, limit).view.at = view.at THEN UNCHANGED <<pane, cache, terminal>>
             ELSE Interface!AfterMove(Interface!Played(view, limit).view)
    BY <1>5, Zenon DEF Interface!Tick
  <2>2. playing /\ UNCHANGED <<stored, checkpoints>>
    BY <1>5, Zenon DEF Interface!Tick
  <2> DEFINE r == Interface!Played(view, limit)
  <2>3. limit \in Nat
    BY <2>1, <1>0, RunTypes
  <2>4. Interface!Offset(view.at) <= limit
    BY <2>1, <2>2, <2>3, <1>0, <1>10
  <2>5. /\ GoodView(r.view) /\ r.on \in BOOLEAN
        /\ Interface!Offset(r.view.at) <= limit
    BY <2>3, <2>4, <1>0, PlayedGood
  <2>6. /\ target' = limit /\ view' = r.view /\ playing' = r.on
        /\ IF r.view.at = view.at THEN UNCHANGED <<pane, cache, terminal>> ELSE Interface!AfterMove(r.view)
    BY <2>1, Zenon
  <2> HIDE DEF r
  <2>8. PaneShows(pane', r.view.at) /\ TerminalShows(terminal', r.view.at) /\ CacheFits(cache')
    <3>1. CASE r.view.at = view.at
      BY <1>0, <2>6, <3>1, Zenon
    <3>2. CASE r.view.at # view.at
      BY <2>5, <2>6, <3>2, AfterMoveShows
    <3> QED BY <3>1, <3>2
  <2>9. playing' \in BOOLEAN /\ target' \in Nat /\ (playing' => Interface!Offset(r.view.at) <= target')
    BY <2>3, <2>5, <2>6
  <2>10. UNCHANGED <<stored, checkpoints>>
    BY <2>2
  <2> QED BY <1>0, <2>5, <2>6, <2>8, <2>9, <2>10, Settles
<1>6. CASE Interface!Activate
  <2>1. /\ pane' = Interface!LoadedWorkspace(Interface!CheckpointAt(view.at))
        /\ UNCHANGED <<stored, checkpoints, view, playing, target, cache, terminal>>
    BY <1>6 DEF Interface!Activate
  <2>2. PaneShows(pane', view.at)
    BY <2>1, <1>0, <1>10, LoadedShows
  <2>3. playing' \in BOOLEAN /\ target' \in Nat /\ (playing' => Interface!Offset(view.at) <= target')
    BY <2>1, <1>0, Zenon
  <2> QED BY <2>1, <2>2, <2>3, StaysShown
<1>7. CASE Interface!SelectChange
  <2>1. PICK line \in IF pane.changes = <<>> THEN {1}
                      ELSE {Interface!Lesser(pane.line + 1, Len(pane.changes)), Interface!Minus(pane.line - 1, 1) + 1} :
          pane' = [pane EXCEPT !.line = line, !.preview = Interface!Preview(pane.changes, line)]
    BY <1>7, Zenon DEF Interface!SelectChange
  <2>2. pane.loaded /\ UNCHANGED <<stored, checkpoints, view, playing, target, cache, terminal>>
    BY <1>7, Zenon DEF Interface!SelectChange
  <2> DEFINE all == Differing[pane.checkpoint]
             glimpse == Interface!Preview(pane.changes, line)
  <2>3. /\ pane = [checkpoint |-> pane.checkpoint, loaded |-> pane.loaded, changes |-> pane.changes,
                   line |-> pane.line, preview |-> pane.preview]
        /\ pane.checkpoint = Interface!CheckpointAt(view.at)
        /\ pane.changes = SubSeq(all, 1, Interface!Lesser(MaxChanges, Len(all)))
        /\ IF pane.changes = <<>> THEN pane.line = 1 ELSE pane.line \in 1..Len(pane.changes)
    BY <2>2, <1>0, Zenon DEF PaneShows
  <2>4. Len(pane.changes) \in Nat
    <3>1. PICK S : all \in Seq(S)
      BY <2>3, <1>0, <1>10, CheckpointKnown
    <3> HIDE DEF all
    <3> QED BY <2>3, <3>1, FirstChanges
  <2>5. IF pane.changes = <<>> THEN line = 1 ELSE line \in 1..Len(pane.changes)
    <3>1. CASE pane.changes = <<>>
      BY <3>1
    <3>2. CASE pane.changes # <<>>
      <4> DEFINE k == pane.line
                 m == Len(pane.changes)
      <4>1. k \in 1..m /\ m \in Nat
        BY <2>3, <2>4, <3>2, Zenon
      <4>2. line = Interface!Lesser(k + 1, m) \/ line = Interface!Minus(k - 1, 1) + 1
        BY <3>2
      <4> HIDE DEF k, m
      <4>3. line \in 1..m
        BY <4>1, <4>2 DEF Interface!Lesser, Interface!Minus
      <4> QED BY <3>2, <4>3 DEF m
    <3> QED BY <3>1, <3>2
  <2> HIDE DEF glimpse
  <2>6. pane' = [checkpoint |-> pane.checkpoint, loaded |-> pane.loaded, changes |-> pane.changes,
                 line |-> line, preview |-> glimpse]
    <3>1. pane' = [pane EXCEPT !.line = line, !.preview = glimpse]
      BY <2>1 DEF glimpse
    <3>2. pane = [checkpoint |-> pane.checkpoint, loaded |-> pane.loaded, changes |-> pane.changes,
                  line |-> pane.line, preview |-> pane.preview]
      BY <2>3
    <3> QED BY <3>1, <3>2, TurnLine
  <2>7. /\ pane'.checkpoint = pane.checkpoint /\ pane'.loaded = pane.loaded
        /\ pane'.changes = pane.changes /\ pane'.line = line /\ pane'.preview = glimpse
    BY <2>6
  <2>8. PaneShows(pane', view.at)
    <3>1. pane' = [checkpoint |-> pane'.checkpoint, loaded |-> pane'.loaded, changes |-> pane'.changes,
                   line |-> pane'.line, preview |-> pane'.preview]
      BY <2>6, <2>7, Zenon
    <3>2. pane.loaded \in BOOLEAN
      BY <1>0, Zenon DEF PaneShows
    <3> QED BY <2>3, <2>5, <2>7, <3>1, <3>2, Zenon DEF PaneShows, glimpse
  <2>9. playing' \in BOOLEAN /\ target' \in Nat /\ (playing' => Interface!Offset(view.at) <= target')
    BY <2>2, <1>0, Zenon
  <2> QED BY <2>2, <2>8, <2>9, StaysShown
<1>8. CASE Interface!SelectProcess
  <2> DEFINE n == Interface!Cardinality(Interface!Observed(view))
             m == Interface!Cardinality({p \in Process : view.first[p] # None})
  <2>1. PICK line \in IF n = 0 THEN {0} ELSE {Interface!Lesser(view.line + 1, n - 1), Interface!Minus(view.line, 1)} :
          view' = [view EXCEPT !.line = line]
    BY <1>8, Zenon DEF Interface!SelectProcess
  <2>2. UNCHANGED <<stored, checkpoints, playing, target, pane, cache, terminal>>
    BY <1>8, Zenon DEF Interface!SelectProcess
  <2>3. n \in Nat /\ m \in Nat /\ n <= m
    BY ObservedCount
  <2>4. view.line \in Nat /\ (view.line = 0 \/ view.line < m)
    BY <1>0, Zenon DEF GoodView, Met
  <2> HIDE DEF n, m
  <2>5. line \in Nat /\ (line = 0 \/ line < m)
    BY <2>1, <2>3, <2>4 DEF Interface!Lesser, Interface!Minus
  <2> DEFINE w == [view EXCEPT !.line = line]
  <2>6. w = [page |-> view.page, at |-> view.at, ahead |-> view.ahead, first |-> view.first, gone |-> view.gone,
             line |-> line]
    BY <1>0 DEF GoodView, IsView
  <2> HIDE DEF w
  <2>7. /\ w.page = view.page /\ w.at = view.at /\ w.ahead = view.ahead /\ w.first = view.first
        /\ w.gone = view.gone /\ w.line = line
    BY <2>6
  <2>8. IsView(w)
    BY <2>6, <2>7, Zenon DEF IsView
  <2>9. Met(w)
    BY <1>0, <2>5, <2>7, Zenon DEF GoodView, Met, m
  <2>10. GoodView(w)
    BY <1>0, <2>7, <2>8, <2>9, Zenon DEF GoodView
  <2>11. /\ view' = w /\ playing' \in BOOLEAN /\ target' \in Nat
         /\ (playing' => Interface!Offset(w.at) <= target')
         /\ PaneShows(pane', w.at) /\ TerminalShows(terminal', w.at) /\ CacheFits(cache')
    BY <1>0, <2>1, <2>2, <2>7, Zenon DEF w
  <2> QED BY <1>0, <2>2, <2>10, <2>11, Settles
<1>9. CASE UNCHANGED Interface!vars
  <2>1. UNCHANGED <<stored, checkpoints, view, playing, target, pane, cache, terminal>>
    BY <1>9, Zenon DEF Interface!vars
  <2>2. /\ playing' \in BOOLEAN /\ target' \in Nat /\ (playing' => Interface!Offset(view.at) <= target')
        /\ PaneShows(pane', view.at)
    BY <2>1, <1>0, Zenon
  <2> QED BY <2>1, <2>2, StaysShown
<1> QED
  BY <1>1, <1>2, <1>3, <1>4, <1>5, <1>6, <1>7, <1>8, <1>9, Zenon DEF Interface!Next

\* The invariant says what the properties say.
LEMMA InterfaceSuffices ==
  ASSUME Interface!ReplayAssumption, InterfaceInv
  PROVE  Interface!TypeOK /\ Interface!PagesConnect /\ Interface!PanesMatchSelection
<1>0. /\ Checkpoints /\ GoodView(view) /\ playing \in BOOLEAN /\ target \in Nat
      /\ (playing => Interface!Offset(view.at) <= target)
      /\ PaneShows(pane, view.at) /\ TerminalShows(terminal, view.at)
      /\ CacheFits(cache) /\ stored \in Interface!Events
  BY Zenon DEF InterfaceInv, Checkpoints
<1>1. /\ view.at \in Interface!Events /\ Interface!Offset(view.at) \in Nat
      /\ stored \in Nat /\ view.at \in Nat /\ stored <= Len(ReplayedRun) /\ Len(ReplayedRun) \in Nat
  <2>1. view.at \in Interface!Events
    BY <1>0, RunTypes DEF GoodView, GoodPage, Interface!Pages, Interface!Events
  <2> QED BY <1>0, <2>1, RunTypes
<1>2. pane.checkpoint \in checkpoints \cup {None} /\ \E S : Differing[pane.checkpoint] \in Seq(S)
  BY <1>0, <1>1, CheckpointKnown DEF PaneShows
<1>3. Interface!TypeOK
  <2>1. checkpoints \subseteq Interface!Events
    BY <1>0, <1>1 DEF Checkpoints, Interface!Events
  <2>2. view.page \in Interface!Pages /\ view.ahead \in Interface!Pages \cup {None}
    BY <1>0 DEF GoodView, GoodPage
  <2> QED BY <1>0, <1>1, <1>2, <2>1, <2>2, Zenon DEF Interface!TypeOK, PaneShows, TerminalShows, CacheFits
<1>4. Interface!PagesConnect
  <2>1. /\ view.at \in view.page.from..view.page.to /\ view.page.to <= stored
        /\ view.page.more => view.page.to < stored
    BY <1>0, Zenon DEF GoodView, GoodPage
  <2>2. ASSUME view.ahead # None
        PROVE  view.page.more /\ view.ahead.from = view.page.to + 1 /\ ~Interface!IsEmpty(view.ahead)
    BY <1>0, <2>2 DEF GoodView, GoodPage, Interface!Pages, Interface!IsEmpty
  <2> QED BY <2>1, <2>2, Zenon DEF Interface!PagesConnect
<1>5. Interface!PanesMatchSelection
  <2>1. pane.checkpoint = Interface!CheckpointAt(view.at)
    BY <1>0, Zenon DEF PaneShows
  <2>2. ASSUME pane.loaded
        PROVE  LET all == Differing[Interface!CheckpointAt(view.at)]
                   n   == Len(pane.changes)
               IN /\ pane.changes = SubSeq(all, 1, n) /\ n = Interface!Lesser(MaxChanges, Len(all))
                  /\ IF n = 0 THEN pane.preview = None
                     ELSE pane.line \in 1..n /\ pane.preview = pane.changes[pane.line]
    <3> DEFINE all == Differing[Interface!CheckpointAt(view.at)]
               m == Interface!Lesser(MaxChanges, Len(all))
    <3>1. /\ pane.changes = SubSeq(all, 1, m)
          /\ pane.preview = Interface!Preview(pane.changes, pane.line)
          /\ IF pane.changes = <<>> THEN pane.line = 1 ELSE pane.line \in 1..Len(pane.changes)
      BY <1>0, <2>1, <2>2, Zenon DEF PaneShows
    <3>2. PICK S : all \in Seq(S)
      BY <1>2, <2>1
    <3>3. /\ Len(pane.changes) = m /\ m \in Nat /\ DOMAIN pane.changes = 1..m
          /\ (pane.changes = <<>> <=> m = 0)
      <4> HIDE DEF all
      <4> QED BY <3>1, <3>2, FirstChanges
    <3> HIDE DEF all, m
    <3>4. CASE m = 0
      <4>1. pane.line \notin DOMAIN pane.changes
        BY <3>3, <3>4
      <4>2. pane.preview = None
        BY <3>1, <4>1, Zenon DEF Interface!Preview
      <4> QED BY <3>1, <3>3, <3>4, <4>2, Zenon DEF all, m
    <3>5. CASE m # 0
      <4>1. pane.line \in 1..m
        BY <3>1, <3>3, <3>5
      <4>2. pane.preview = pane.changes[pane.line]
        BY <3>1, <3>3, <4>1, Zenon DEF Interface!Preview
      <4> QED BY <3>1, <3>3, <3>5, <4>1, <4>2, Zenon DEF all, m
    <3> QED BY <3>4, <3>5
  <2>3. ASSUME NEW p \in Interface!Observed(view)
        PROVE  \E i \in 1..view.at : Interface!Kind(i) = "seen" /\ Interface!About(i) = p
    <3>1. p \in Process /\ view.first[p] # None /\ view.first[p] <= view.at
      BY Zenon DEF Interface!Observed
    <3>2. /\ view.first[p] \in Interface!Events /\ Interface!Kind(view.first[p]) = "seen"
          /\ Interface!About(view.first[p]) = p
      BY <1>0, <3>1, Zenon DEF GoodView, Met
    <3>3. view.first[p] \in 1..view.at
      BY <1>1, <3>1, <3>2, RunTypes
    <3> QED BY <3>2, <3>3
  <2>4. playing => target >= Interface!Offset(view.at)
    BY <1>0, <1>1
  <2> QED
    BY <1>0, <2>1, <2>2, <2>3, <2>4, Zenon
    DEF Interface!PanesMatchSelection, TerminalShows, GoodView, Met
<1> QED BY <1>3, <1>4, <1>5

\* The invariant holds in every behaviour, and says what the interface promises.
LEMMA InterfaceFollows ==
  /\ Interface!Spec => [](Interface!TypeOK /\ Interface!PagesConnect /\ Interface!PanesMatchSelection)
  /\ PartsSpec => []PagesConnect
  /\ PartsSpec => []PanesMatchSelection
<1>1. Interface!Init => InterfaceInv
  BY PartsAssumption, InterfaceInit
<1>2. InterfaceInv /\ [Interface!Next]_(Interface!vars) => InterfaceInv'
  BY PartsAssumption, InterfacePreserved
<1>3. InterfaceInv => Interface!TypeOK /\ Interface!PagesConnect /\ Interface!PanesMatchSelection
  BY PartsAssumption, InterfaceSuffices
<1>4. Interface!Spec => [](Interface!TypeOK /\ Interface!PagesConnect /\ Interface!PanesMatchSelection)
  BY <1>1, <1>2, <1>3, PTL DEF Interface!Spec
<1> DEFINE Inv == part = "interface" => InterfaceInv
<1>5. PartsInit => Inv
  BY <1>1 DEF PartsInit
<1>6. Inv /\ [PartsNext]_partsVars => Inv'
  BY <1>2, OnePart
<1>7. Inv => PagesConnect /\ PanesMatchSelection
  BY <1>3 DEF PagesConnect, PanesMatchSelection
<1>8. (PartsSpec => []PagesConnect) /\ (PartsSpec => []PanesMatchSelection)
  <2> HIDE DEF Inv
  <2> QED BY <1>5, <1>6, <1>7, PTL DEF PartsSpec
<1> QED BY <1>4, <1>8

\* Whatever is stepped, jumped and played while the recorder appends, the page of
\* the replay interface, the one fetched ahead and the selected event follow one
\* another without a gap or an overlap: of any run, and in any composition.
THEOREM PagesFollowOneAnother ==
  /\ Interface!Spec => [](Interface!TypeOK /\ Interface!PagesConnect)
  /\ PartsSpec => []PagesConnect
<1>1. Interface!TypeOK /\ Interface!PagesConnect /\ Interface!PanesMatchSelection =>
        Interface!TypeOK /\ Interface!PagesConnect
  BY Zenon
<1> QED BY <1>1, InterfaceFollows, PTL

\* The panes of the interface show the run as of the selected event, whatever was
\* selected in between and however small the cache is.
THEOREM PanesFollowCursor ==
  /\ Interface!Spec => []Interface!PanesMatchSelection
  /\ PartsSpec => []PanesMatchSelection
<1>1. Interface!TypeOK /\ Interface!PagesConnect /\ Interface!PanesMatchSelection =>
        Interface!PanesMatchSelection
  BY Zenon
<1> QED BY <1>1, InterfaceFollows, PTL

-----------------------------------------------------------------------------
(* The comparison of two runs.                                             *)

\* The ancestry is a forest in which a parent is older than its forks.
Ancestry == MaxRun \in Nat /\ parent \in [1..MaxRun -> Nat] /\ \A r \in 1..MaxRun : parent[r] < r

\* Descent: from itself, from its parent, and no other way; it is transitive.
LEMMA LineSteps ==
  ASSUME Ancestry, NEW a \in Comparing!Runs, NEW r \in Comparing!Runs
  PROVE  /\ Comparing!Line(a, a)
         /\ parent[r] \in Comparing!Runs /\ Comparing!Line(a, parent[r]) => Comparing!Line(a, r)
         /\ Comparing!Line(a, r) /\ a # r => parent[r] \in Comparing!Runs /\ Comparing!Line(a, parent[r])
         /\ \A b \in Comparing!Runs : Comparing!Line(a, b) /\ Comparing!Line(b, r) => Comparing!Line(a, r)
<1>1. Comparing!Line(a, a)
  BY Zenon DEF Comparing!Line
<1>2. \A c \in Comparing!Runs :
        parent[c] \in Comparing!Runs /\ Comparing!Line(a, parent[c]) => Comparing!Line(a, c)
  BY Zenon DEF Comparing!Line
<1>3. ASSUME Comparing!Line(a, r), a # r
      PROVE  parent[r] \in Comparing!Runs /\ Comparing!Line(a, parent[r])
  <2> DEFINE S == {c \in Comparing!Runs : c = a \/ (parent[c] \in Comparing!Runs /\ Comparing!Line(a, parent[c]))}
  <2>1. S \in SUBSET Comparing!Runs /\ a \in S
    BY Zenon
  <2>2. ASSUME NEW c \in Comparing!Runs, parent[c] \in S PROVE c \in S
    <3>1. parent[c] \in Comparing!Runs /\ Comparing!Line(a, parent[c])
      BY <1>1, <1>2, <2>2, Zenon
    <3> QED BY <3>1, Zenon
  <2>3. r \in S
    <3> HIDE DEF S
    <3> QED BY <1>3, <2>1, <2>2, Zenon DEF Comparing!Line
  <2> QED BY <1>3, <2>3, Zenon
<1>4. \A b \in Comparing!Runs : Comparing!Line(a, b) /\ Comparing!Line(b, r) => Comparing!Line(a, r)
  BY Zenon DEF Comparing!Line
<1> QED BY <1>1, <1>2, <1>3, <1>4, Zenon

\* A lists a run and its ancestors for the runs up to m.
Lists(A, m) ==
  /\ A \in [1..m -> Seq(Comparing!Runs)]
  /\ \A r \in 1..m : A[r] = <<r>> \o (IF parent[r] = 0 THEN <<>> ELSE A[parent[r]])

\* Such a function exists, and Ancestors is one.
LEMMA AncestorsList ==
  ASSUME Ancestry
  PROVE  Lists(Comparing!Ancestors, MaxRun)
<1> DEFINE T == {m \in 0..MaxRun : \E A : Lists(A, m)}
           Steps(A) == A = [r \in Comparing!Runs |->
                              <<r>> \o (IF parent[r] = Comparing!NoRun THEN <<>> ELSE A[parent[r]])]
<1>0. MaxRun \in Nat /\ Comparing!Runs = 1..MaxRun /\ Comparing!NoRun = 0
  BY DEF Ancestry, Comparing!Runs, Comparing!NoRun
<1>1. 0 \in T
  <2>1. Lists([r \in 1..0 |-> <<>>], 0)
    BY DEF Lists
  <2>2. 0 \in 0..MaxRun
    BY <1>0
  <2> QED BY <2>1, <2>2, Zenon
<1>2. ASSUME NEW m \in 1..MaxRun, m - 1 \in T PROVE m \in T
  <2>1. PICK A : Lists(A, m - 1)
    BY <1>2
  <2> DEFINE more(r) == IF parent[r] = 0 THEN <<>> ELSE A[parent[r]]
             B == [r \in 1..m |-> IF r = m THEN <<m>> \o more(m) ELSE A[r]]
  <2>2. \A r \in 1..m : parent[r] = 0 \/ parent[r] \in 1..(m - 1)
    BY <1>0 DEF Ancestry
  <2>3. \A r \in 1..m : more(r) \in Seq(Comparing!Runs)
    <3>1. <<>> \in Seq(Comparing!Runs)
      OBVIOUS
    <3> QED BY <2>1, <2>2, <3>1, Zenon DEF Lists
  <2>4. <<m>> \o more(m) \in Seq(Comparing!Runs)
    <3>1. <<m>> \in Seq(Comparing!Runs) /\ m \in 1..m
      BY <1>0
    <3> HIDE DEF more
    <3> QED BY <2>3, <3>1
  <2>5. \A r \in 1..m : r # m => r \in 1..(m - 1)
    BY <1>0
  <2>6. \A r \in 1..(m - 1) : A[r] \in Seq(Comparing!Runs) /\ A[r] = <<r>> \o more(r)
    BY <2>1, Zenon DEF Lists
  <2>7. m \in 1..m /\ m \notin 1..(m - 1) /\ 1..(m - 1) \in SUBSET (1..m)
    BY <1>0
  <2> HIDE DEF more
  <2>8. B \in [1..m -> Seq(Comparing!Runs)]
    BY <2>4, <2>5, <2>6
  <2>9. ASSUME NEW r \in 1..m PROVE B[r] = <<r>> \o (IF parent[r] = 0 THEN <<>> ELSE B[parent[r]])
    <3>1. B[r] = <<r>> \o more(r)
      BY <2>5, <2>6, Zenon
    <3>2. parent[r] # 0 => B[parent[r]] = A[parent[r]]
      BY <2>2, <2>7, Zenon
    <3>3. more(r) = IF parent[r] = 0 THEN <<>> ELSE B[parent[r]]
      BY <3>2, Zenon DEF more
    <3> QED BY <3>1, <3>3, Zenon
  <2>10. Lists(B, m)
    <3> HIDE DEF B
    <3> QED BY <2>8, <2>9, Zenon DEF Lists
  <2>11. m \in 0..MaxRun
    BY <1>0
  <2> HIDE DEF B
  <2> QED BY <2>10, <2>11, Zenon
<1>3. MaxRun \in T
  <2>1. \A i \in 0..MaxRun : i \in T
    <3> HIDE DEF T
    <3> QED BY <1>0, <1>1, <1>2, UpTo
  <2> QED BY <2>1, <1>0
<1>4. PICK A : Lists(A, MaxRun)
  BY <1>3
<1>5. Steps(A)
  <2>1. A = [r \in Comparing!Runs |-> A[r]]
    BY <1>0, <1>4, Zenon DEF Lists
  <2>2. \A r \in Comparing!Runs :
          A[r] = <<r>> \o (IF parent[r] = Comparing!NoRun THEN <<>> ELSE A[parent[r]])
    BY <1>0, <1>4, Zenon DEF Lists
  <2> QED BY <2>1, <2>2, Zenon
<1>6. Comparing!Ancestors = CHOOSE B : Steps(B)
  BY DEF Comparing!Ancestors
<1>7. Steps(Comparing!Ancestors)
  <2> HIDE DEF Steps
  <2> QED BY <1>5, <1>6, Zenon
<1> QED
  <2> DEFINE B == Comparing!Ancestors
  <2>1. B = [r \in 1..MaxRun |-> <<r>> \o (IF parent[r] = 0 THEN <<>> ELSE B[parent[r]])]
    BY <1>0, <1>7
  <2> HIDE DEF B, Steps
  <2>2. \A r \in 1..MaxRun : B[r] = <<r>> \o (IF parent[r] = 0 THEN <<>> ELSE B[parent[r]])
    BY <2>1, Zenon
  <2>3. \A r \in 1..MaxRun : B[r] \in Seq(Comparing!Runs)
    <3> DEFINE U == {r \in 1..MaxRun : B[r] \notin Seq(Comparing!Runs)}
    <3>1. SUFFICES ASSUME U # {} PROVE FALSE
      BY Zenon
    <3>2. U \subseteq Nat
      BY <1>0
    <3>3. PICK r \in U : \A q \in U : r <= q
      <4> HIDE DEF U
      <4> QED BY <3>1, <3>2, LeastNatural
    <3>4. r \in 1..MaxRun /\ (parent[r] = 0 \/ (parent[r] \in 1..MaxRun /\ parent[r] < r))
      BY <1>0, <3>3 DEF Ancestry
    <3>5. parent[r] # 0 => parent[r] \notin U
      <4> HIDE DEF U
      <4> QED BY <3>2, <3>3, <3>4
    <3> DEFINE rest == IF parent[r] = 0 THEN <<>> ELSE B[parent[r]]
    <3>6. rest \in Seq(Comparing!Runs)
      <4>1. <<>> \in Seq(Comparing!Runs)
        OBVIOUS
      <4> QED BY <4>1, <3>4, <3>5, Zenon
    <3>7. <<r>> \in Seq(Comparing!Runs)
      BY <1>0, <3>4
    <3>8. B[r] = <<r>> \o rest
      BY <2>2, <3>4, Zenon
    <3>9. B[r] \in Seq(Comparing!Runs)
      <4> HIDE DEF rest
      <4> QED BY <3>6, <3>7, <3>8
    <3> QED BY <3>3, <3>9, Zenon
  <2> QED BY <2>1, <2>2, <2>3, Zenon DEF Lists, B

\* The run r and all it descends from, each before what it descends from.
Descent(r) ==
  LET s == Comparing!Ancestors[r]
  IN /\ s \in Seq(Comparing!Runs)
     /\ \A a \in Comparing!Runs : Comparing!Line(a, r) <=> \E k \in DOMAIN s : s[k] = a
     /\ \A k, m \in DOMAIN s : k <= m => Comparing!Line(s[m], s[k])

\* That is what Ancestors lists.
LEMMA AncestorsDescend ==
  ASSUME Ancestry
  PROVE  \A r \in Comparing!Runs : Descent(r)
<1> DEFINE A == Comparing!Ancestors
           U == {r \in 1..MaxRun : ~Descent(r)}
<1>0. MaxRun \in Nat /\ Comparing!Runs = 1..MaxRun
  BY DEF Ancestry, Comparing!Runs
<1>1. SUFFICES ASSUME U # {} PROVE FALSE
  BY <1>0, Zenon
<1>2. U \subseteq Nat
  BY <1>0
<1>3. PICK r \in U : \A q \in U : r <= q
  <2> HIDE DEF U
  <2> QED BY <1>1, <1>2, LeastNatural
<1>4. r \in 1..MaxRun /\ r \in Nat /\ (parent[r] = 0 \/ (parent[r] \in 1..MaxRun /\ parent[r] \in Nat /\ parent[r] < r))
  BY <1>0, <1>3 DEF Ancestry
<1>5. parent[r] # 0 => Descent(parent[r])
  <2>1. parent[r] # 0 => parent[r] \notin U
    <3> HIDE DEF U
    <3> QED BY <1>2, <1>3, <1>4
  <2> QED BY <2>1, <1>4, Zenon
<1> DEFINE s == IF parent[r] = 0 THEN <<>> ELSE A[parent[r]]
<1>6. A[r] = <<r>> \o s
  BY AncestorsList, <1>4, Zenon DEF Lists
<1>7. /\ s \in Seq(Comparing!Runs)
      /\ \A k \in DOMAIN s : parent[r] # 0 /\ Comparing!Line(s[k], parent[r])
      /\ \A a \in Comparing!Runs : parent[r] # 0 /\ Comparing!Line(a, parent[r]) => \E k \in DOMAIN s : s[k] = a
      /\ \A k, m \in DOMAIN s : k <= m => Comparing!Line(s[m], s[k])
  <2>1. CASE parent[r] = 0
    <3>1. s = <<>>
      BY <2>1
    <3>2. <<>> \in Seq(Comparing!Runs) /\ DOMAIN <<>> = {}
      OBVIOUS
    <3> HIDE DEF s
    <3> QED BY <2>1, <3>1, <3>2
  <2>2. CASE parent[r] # 0
    <3>1. s = A[parent[r]] /\ Descent(parent[r])
      BY <2>2, <1>5, Zenon
    <3> HIDE DEF s
    <3>2. /\ s \in Seq(Comparing!Runs)
          /\ \A a \in Comparing!Runs : Comparing!Line(a, parent[r]) <=> \E k \in DOMAIN s : s[k] = a
          /\ \A k, m \in DOMAIN s : k <= m => Comparing!Line(s[m], s[k])
      BY <3>1, Zenon DEF Descent
    <3>3. \A k \in DOMAIN s : s[k] \in Comparing!Runs
      BY <3>2
    <3> QED BY <2>2, <3>2, <3>3, Zenon
  <2> QED BY <2>1, <2>2
<1> HIDE DEF s
<1> DEFINE t == A[r]
<1>8. /\ t \in Seq(Comparing!Runs) /\ 1 \in DOMAIN t /\ t[1] = r
      /\ \A k \in DOMAIN t : k \in Nat /\ (k = 1 \/ (k - 1 \in DOMAIN s /\ t[k] = s[k - 1]))
      /\ \A k \in DOMAIN s : k \in Nat /\ k >= 1 /\ k + 1 \in DOMAIN t /\ t[k + 1] = s[k]
  <2>1. <<r>> \in Seq(Comparing!Runs)
    BY <1>0, <1>4
  <2>2. t \in Seq(Comparing!Runs) /\ Len(t) = Len(s) + 1
    BY <2>1, <1>6, <1>7
  <2>3. t[1] = r
    BY <1>6, <1>7
  <2>4. \A k \in 1..Len(t) : k # 1 => t[k] = s[k - 1]
    BY <1>6, <1>7
  <2> HIDE DEF t
  <2> QED BY <1>7, <2>2, <2>3, <2>4
<1> HIDE DEF t
<1>9. \A k \in DOMAIN t : t[k] \in Comparing!Runs /\ Comparing!Line(t[k], r)
  <2>1. SUFFICES ASSUME NEW k \in DOMAIN t PROVE t[k] \in Comparing!Runs /\ Comparing!Line(t[k], r)
    BY Zenon
  <2>2. t[k] \in Comparing!Runs
    BY <1>8
  <2>3. CASE k = 1
    BY <2>2, <2>3, <1>8, LineSteps, Zenon
  <2>4. CASE k # 1
    <3>1. k - 1 \in DOMAIN s /\ t[k] = s[k - 1]
      BY <2>4, <1>8, Zenon
    <3>2. parent[r] # 0 /\ Comparing!Line(t[k], parent[r])
      BY <3>1, <1>7, Zenon
    <3> QED BY <3>2, <2>2, <1>0, <1>4, LineSteps, Zenon
  <2> QED BY <2>3, <2>4
<1>10. ASSUME NEW a \in Comparing!Runs, Comparing!Line(a, r) PROVE \E k \in DOMAIN t : t[k] = a
  <2>1. CASE a = r
    BY <2>1, <1>8, Zenon
  <2>2. CASE a # r
    <3>1. parent[r] \in Comparing!Runs /\ Comparing!Line(a, parent[r])
      BY <2>2, <1>0, <1>4, <1>10, LineSteps, Zenon
    <3>2. parent[r] # 0
      BY <3>1, <1>0
    <3>3. PICK k \in DOMAIN s : s[k] = a
      BY <3>1, <3>2, <1>7, Zenon
    <3> QED BY <3>3, <1>8, Zenon
  <2> QED BY <2>1, <2>2
<1>11. ASSUME NEW k \in DOMAIN t, NEW m \in DOMAIN t, k <= m PROVE Comparing!Line(t[m], t[k])
  <2>1. CASE k = 1
    BY <2>1, <1>8, <1>9, Zenon
  <2>2. CASE k # 1
    <3>1. m # 1 /\ k - 1 <= m - 1
      BY <2>2, <1>8, <1>11, SMTT(30)
    <3>2. k - 1 \in DOMAIN s /\ t[k] = s[k - 1] /\ m - 1 \in DOMAIN s /\ t[m] = s[m - 1]
      BY <2>2, <3>1, <1>8, Zenon
    <3> QED BY <3>1, <3>2, <1>7, Zenon
  <2> QED BY <2>1, <2>2
<1>12. Descent(r)
  BY <1>8, <1>9, <1>10, <1>11, Zenon DEF Descent, t
<1> QED BY <1>3, <1>12, Zenon

\* The least of some numbers.
LEMMA LeastCompared ==
  ASSUME NEW S, S \subseteq Nat, S # {}
  PROVE  Comparing!Least(S) \in S /\ \A j \in S : Comparing!Least(S) <= j
<1>1. \E i \in S : \A j \in S : i <= j
  BY LeastNatural
<1> QED BY <1>1, Zenon DEF Comparing!Least

\* The relation names the nearest run that both are, or descend from.
NearestOf(found, l, r) ==
  LET both == {a \in Comparing!Runs : Comparing!Line(a, l) /\ Comparing!Line(a, r)}
  IN IF both = {} THEN found.kind = "unrelated"
     ELSE found.run \in both /\ \A a \in both : Comparing!Line(a, found.run)

LEMMA RelationshipIsNearest ==
  ASSUME Ancestry, NEW l \in Comparing!Runs, NEW r \in Comparing!Runs
  PROVE  NearestOf(Comparing!Relationship(l, r), l, r)
<1> DEFINE both == {a \in Comparing!Runs : Comparing!Line(a, l) /\ Comparing!Line(a, r)}
           found == Comparing!Relationship(l, r)
           s == Comparing!Ancestors[l]
           t == Comparing!Ancestors[r]
           shared == {k \in DOMAIN s : \E m \in DOMAIN t : t[m] = s[k]}
<1>1. /\ s \in Seq(Comparing!Runs) /\ t \in Seq(Comparing!Runs)
      /\ \A a \in Comparing!Runs : Comparing!Line(a, l) <=> \E k \in DOMAIN s : s[k] = a
      /\ \A a \in Comparing!Runs : Comparing!Line(a, r) <=> \E k \in DOMAIN t : t[k] = a
      /\ \A k, m \in DOMAIN s : k <= m => Comparing!Line(s[m], s[k])
  BY AncestorsDescend, Zenon DEF Descent
<1>2. SUFFICES \/ both = {} /\ found.kind = "unrelated"
               \/ found.run \in both /\ \A a \in both : Comparing!Line(a, found.run)
  BY Zenon DEF NearestOf
<1>3. Comparing!Line(l, l) /\ Comparing!Line(r, r)
  BY LineSteps, Zenon
<1>4. CASE l = r
  <2>1. found = [kind |-> "same", run |-> l]
    <3>1. parent[r] # l
      BY <1>4 DEF Ancestry, Comparing!Runs
    <3> QED BY <1>4, <3>1, Zenon DEF Comparing!Relationship
  <2>2. found.run = l
    <3> HIDE DEF found
    <3> QED BY <2>1
  <2> QED BY <1>3, <1>4, <2>2, Zenon
<1>5. CASE l # r /\ parent[r] = l
  <2>1. parent[l] # r
    BY <1>5 DEF Ancestry, Comparing!Runs
  <2>2. found = [kind |-> "left is parent", run |-> l]
    BY <1>5, <2>1, Zenon DEF Comparing!Relationship
  <2>3. found.run = l
    <3> HIDE DEF found
    <3> QED BY <2>2
  <2>4. Comparing!Line(l, r)
    BY <1>3, <1>5, LineSteps, Zenon
  <2> QED BY <1>3, <2>3, <2>4, Zenon
<1>6. CASE l # r /\ parent[r] # l /\ parent[l] = r
  <2>1. found = [kind |-> "right is parent", run |-> r]
    BY <1>6, Zenon DEF Comparing!Relationship
  <2>2. found.run = r
    <3> HIDE DEF found
    <3> QED BY <2>1
  <2>3. Comparing!Line(r, l)
    BY <1>3, <1>6, LineSteps, Zenon
  <2> QED BY <1>3, <2>2, <2>3, Zenon
<1>7. CASE l # r /\ parent[r] # l /\ parent[l] # r
  <2>1. found = IF shared = {} THEN [kind |-> "unrelated", run |-> Comparing!NoRun]
                ELSE [kind |-> "common ancestor", run |-> s[Comparing!Least(shared)]]
    BY <1>7, Zenon DEF Comparing!Relationship
  <2>2. \A a \in both : \E k \in shared : s[k] = a
    BY <1>1, Zenon
  <2>3. CASE shared = {}
    <3>1. found.kind = "unrelated"
      <4> HIDE DEF found, shared
      <4> QED BY <2>1, <2>3
    <3> QED BY <2>2, <2>3, <3>1, Zenon
  <2>4. CASE shared # {}
    <3> DEFINE k == Comparing!Least(shared)
    <3>1. shared \subseteq Nat
      BY <1>1
    <3>2. k \in shared /\ \A m \in shared : k <= m
      <4> HIDE DEF shared
      <4> QED BY <2>4, <3>1, LeastCompared, Zenon
    <3>3. found.run = s[k]
      <4> HIDE DEF found, shared
      <4> QED BY <2>1, <2>4
    <3> HIDE DEF k
    <3>4. s[k] \in both
      <4>1. s[k] \in Comparing!Runs
        BY <1>1, <3>2
      <4> QED BY <4>1, <1>1, <3>2, Zenon
    <3>5. ASSUME NEW a \in both PROVE Comparing!Line(a, s[k])
      <4>1. PICK m \in shared : s[m] = a
        BY <2>2, Zenon
      <4>2. m \in DOMAIN s /\ k \in DOMAIN s /\ k <= m
        BY <3>2, Zenon
      <4> QED BY <1>1, <4>1, <4>2, Zenon
    <3> QED BY <3>3, <3>4, <3>5, Zenon
  <2> QED BY <2>3, <2>4
<1> QED BY <1>4, <1>5, <1>6, <1>7

-----------------------------------------------------------------------------
\* The differing paths that the merge has passed.
Passed == {p \in Comparing!Differ : p \notin leftRest /\ p \notin rightRest}

\* Changes are those of the paths passed, in their order.
ChangesPassed ==
  /\ changes \in Seq([kind : {"removed", "added", "modified"}, path : Comparing!Paths])
  /\ \A k \in DOMAIN changes :
       changes[k].path \in Passed /\ changes[k].kind = Comparing!ChangeOf(changes[k].path)
  /\ \A p \in Passed : \E k \in DOMAIN changes : changes[k].path = p
  /\ \A k \in DOMAIN changes : k > 1 => changes[k - 1].path < changes[k].path
  /\ Len(changes) = Cardinality(Passed)

\* What each side has left comes after all that was passed.
MergeInOrder ==
  /\ left \in [DOMAIN left -> Entries] /\ right \in [DOMAIN right -> Entries]
  /\ DOMAIN left \subseteq Comparing!Paths /\ DOMAIN right \subseteq Comparing!Paths
  /\ leftRest \subseteq DOMAIN left /\ rightRest \subseteq DOMAIN right
  /\ \A p \in (DOMAIN left \ leftRest) \cup (DOMAIN right \ rightRest) : \A q \in leftRest \cup rightRest : p < q

ComparingInv ==
  /\ MergeInOrder /\ ChangesPassed /\ Ancestry
  /\ pair \in Comparing!Runs \X Comparing!Runs
  /\ stage \in {"start", "refused", "merge", "done"}
  /\ stage \in {"merge", "done"} => /\ NearestOf(relation, pair[1], pair[2])
                                    /\ \A k \in 1..2 : pair[k] \in concluded
  /\ stage = "refused" => \E k \in 1..2 : pair[k] \notin concluded
  /\ stage = "done" => leftRest = {} /\ rightRest = {}

\* An instance counts as FiniteSets does.
LEMMA SameCount ==
  ASSUME NEW S
  PROVE  Comparing!Cardinality(S) = Cardinality(S)
BY DEF Comparing!Cardinality, Cardinality, Comparing!IsFiniteSet, IsFiniteSet

\* A change that is found belongs at the end.
LEMMA FoundPassed ==
  ASSUME Comparing!ComparisonAssumption, MergeInOrder, ChangesPassed, NEW p \in Comparing!Differ, p \notin Passed,
         \A q \in Passed : q < p,
         NEW kind, kind = Comparing!ChangeOf(p), Comparing!Found(kind, p),
         UNCHANGED <<left, right>>, Passed' = Passed \cup {p}
  PROVE  ChangesPassed'
<1> DEFINE n == Len(changes)
           c == [kind |-> kind, path |-> p]
           T == [kind : {"removed", "added", "modified"}, path : Comparing!Paths]
<1>1. p \in Comparing!Paths /\ kind \in {"removed", "added", "modified"}
  BY DEF Comparing!Differ, Comparing!ChangeOf
<1>2. c \in T /\ c.kind = kind /\ c.path = p
  BY <1>1
<1>3. changes \in Seq(T) /\ n \in Nat /\ DOMAIN changes = 1..n
  BY DEF ChangesPassed
<1>4. changes' = Append(changes, c)
  BY Zenon DEF Comparing!Found
<1> HIDE DEF c, T
<1>5. /\ changes' \in Seq(T) /\ Len(changes') = n + 1 /\ DOMAIN changes' = 1..(n + 1) /\ changes'[n + 1] = c
      /\ \A k \in 1..n : changes'[k] = changes[k]
  BY <1>2, <1>3, <1>4
<1> DEFINE kindOf(q) == IF q \notin DOMAIN right THEN "removed"
                        ELSE IF q \notin DOMAIN left THEN "added" ELSE "modified"
<1>6. /\ \A q : Comparing!ChangeOf(q) = kindOf(q)
      /\ \A k : Comparing!ChangeOf(changes[k].path)' = kindOf(changes'[k].path)
  BY Zenon DEF Comparing!ChangeOf
<1> HIDE DEF kindOf
<1>7. \A k \in 1..(n + 1) : k \in Nat /\ (k = n + 1 \/ k \in 1..n) /\ (k > 1 => k - 1 \in 1..n)
  BY <1>3
<1>8. ASSUME NEW k \in 1..(n + 1)
      PROVE  changes'[k].path \in Passed' /\ changes'[k].kind = Comparing!ChangeOf(changes[k].path)'
  <2>1. CASE k = n + 1
    BY <2>1, <1>2, <1>5, <1>6, Zenon
  <2>2. CASE k \in 1..n
    BY <2>2, <1>3, <1>5, <1>6, Zenon DEF ChangesPassed
  <2> QED BY <2>1, <2>2, <1>7
<1>9. ASSUME NEW q \in Passed' PROVE \E k \in 1..(n + 1) : changes'[k].path = q
  <2>1. CASE q = p
    <3>1. n + 1 \in 1..(n + 1)
      BY <1>3
    <3> QED BY <2>1, <3>1, <1>2, <1>5, Zenon
  <2>2. CASE q \in Passed
    <3>1. PICK k \in 1..n : changes[k].path = q
      BY <2>2, <1>3, Zenon DEF ChangesPassed
    <3>2. k \in 1..(n + 1)
      BY <1>3
    <3> QED BY <3>1, <3>2, <1>5, Zenon
  <2> QED BY <2>1, <2>2
<1>10. ASSUME NEW k \in 1..(n + 1), k > 1 PROVE changes'[k - 1].path < changes'[k].path
  <2>1. k - 1 \in 1..n
    BY <1>7, <1>10
  <2>2. CASE k = n + 1
    <3>1. changes[k - 1].path \in Passed
      BY <2>1, <1>3, Zenon DEF ChangesPassed
    <3> QED BY <2>1, <2>2, <3>1, <1>2, <1>5, Zenon
  <2>3. CASE k \in 1..n
    BY <2>1, <2>3, <1>3, <1>5, <1>10, Zenon DEF ChangesPassed
  <2> QED BY <2>2, <2>3, <1>7
<1>11. Cardinality(Passed') = Cardinality(Passed) + 1
  <2>1. Passed \subseteq 1..MaxPath /\ MaxPath \in Nat
    BY DEF Passed, Comparing!Differ, Comparing!Paths, Comparing!ComparisonAssumption
  <2>2. IsFiniteSet(1..MaxPath)
    BY <2>1, FS_Interval
  <2>3. IsFiniteSet(Passed)
    BY <2>1, <2>2, FS_Subset
  <2> QED BY <2>3, FS_AddElement
<1>12. Len(changes') = Cardinality(Passed')
  BY <1>5, <1>11 DEF ChangesPassed
<1>13. Comparing!Paths' = Comparing!Paths
  BY DEF Comparing!Paths
<1> QED BY <1>5, <1>8, <1>9, <1>10, <1>12, <1>13, Zenon DEF ChangesPassed, T

\* The merge passes the least path that is left, on either side or on both.
LEMMA PassesLeast ==
  ASSUME Comparing!ComparisonAssumption, MergeInOrder,
         NEW p \in leftRest \cup rightRest, \A q \in leftRest \cup rightRest : p <= q,
         leftRest' = leftRest \ {p}, rightRest' = rightRest \ {p}, UNCHANGED <<left, right>>
  PROVE  /\ MergeInOrder'
         /\ p \in Comparing!Paths /\ p \notin Passed /\ \A q \in Passed : q < p
         /\ p \in DOMAIN left <=> p \in leftRest
         /\ p \in DOMAIN right <=> p \in rightRest
         /\ Passed' = IF p \in Comparing!Differ THEN Passed \cup {p} ELSE Passed
<1>0. MaxPath \in Nat /\ Comparing!Paths = 1..MaxPath
  BY DEF Comparing!ComparisonAssumption, Comparing!Paths
<1>1. /\ left \in [DOMAIN left -> Entries] /\ right \in [DOMAIN right -> Entries]
      /\ DOMAIN left \subseteq Comparing!Paths /\ DOMAIN right \subseteq Comparing!Paths
      /\ leftRest \subseteq DOMAIN left /\ rightRest \subseteq DOMAIN right
      /\ \A r \in (DOMAIN left \ leftRest) \cup (DOMAIN right \ rightRest) : \A q \in leftRest \cup rightRest : r < q
  BY DEF MergeInOrder
<1>2. p \in Nat /\ p \in Comparing!Paths /\ ~ p < p
  BY <1>0, <1>1
<1>3. (p \in DOMAIN left <=> p \in leftRest) /\ (p \in DOMAIN right <=> p \in rightRest)
  BY <1>1, <1>2, Zenon
<1>4. \A q \in Passed : q \in (DOMAIN left \ leftRest) \cup (DOMAIN right \ rightRest)
  <2>1. \A q \in Comparing!Differ : q \in DOMAIN left \/ q \in DOMAIN right
    BY DEF Comparing!Differ
  <2> QED BY <2>1, Zenon DEF Passed
<1>5. p \notin Passed /\ \A q \in Passed : q < p
  BY <1>1, <1>4, Zenon DEF Passed
<1>6. Comparing!Differ' = Comparing!Differ
  BY Zenon DEF Comparing!Differ, Comparing!Paths
<1>7. Passed' = IF p \in Comparing!Differ THEN Passed \cup {p} ELSE Passed
  <2>1. Passed' = {q \in Comparing!Differ : q \notin leftRest' /\ q \notin rightRest'}
    BY <1>6, Zenon DEF Passed
  <2>2. \A q : q \in Passed' <=> q \in Comparing!Differ /\ ((q \notin leftRest /\ q \notin rightRest) \/ q = p)
    <3>1. \A q : (q \notin leftRest' /\ q \notin rightRest') <=> ((q \notin leftRest /\ q \notin rightRest) \/ q = p)
      BY Zenon
    <3> QED BY <2>1, <3>1, Zenon
  <2>3. \A q : q \in Passed <=> q \in Comparing!Differ /\ q \notin leftRest /\ q \notin rightRest
    BY Zenon DEF Passed
  <2>4. CASE p \in Comparing!Differ
    <3>1. \A q : q \in Passed' <=> q \in Passed \cup {p}
      BY <2>2, <2>3, <2>4, Zenon
    <3> QED BY <2>4, <3>1, Zenon
  <2>5. CASE p \notin Comparing!Differ
    <3>1. \A q : q \in Passed' <=> q \in Passed
      BY <2>2, <2>3, <2>5, Zenon
    <3> QED BY <2>5, <3>1, Zenon
  <2> QED BY <2>4, <2>5
<1>8. MergeInOrder'
  <2>1. ASSUME NEW r \in (DOMAIN left \ leftRest') \cup (DOMAIN right \ rightRest'),
               NEW q \in leftRest' \cup rightRest'
        PROVE  r < q
    <3>1. q \in leftRest \cup rightRest /\ q # p
      BY <2>1, Zenon
    <3>2. CASE r = p
      <4>1. q \in Nat
        BY <1>0, <1>1, <3>1
      <4> QED BY <4>1, <1>2, <3>1, <3>2
    <3>3. CASE r # p
      <4>1. r \in (DOMAIN left \ leftRest) \cup (DOMAIN right \ rightRest)
        BY <2>1, <3>3, Zenon
      <4> QED BY <4>1, <3>1, <1>1, Zenon
    <3> QED BY <3>2, <3>3
  <2>2. leftRest' \subseteq DOMAIN left /\ rightRest' \subseteq DOMAIN right
    BY <1>1, Zenon
  <2>3. Comparing!Paths' = Comparing!Paths
    BY DEF Comparing!Paths
  <2> QED BY <1>1, <2>1, <2>2, <2>3, Zenon DEF MergeInOrder
<1> QED BY <1>2, <1>3, <1>5, <1>7, <1>8, Zenon

\* Every modification is evidence: entries that differ do so in what is shown.
LEMMA ReportValid ==
  ASSUME Comparing!ComparisonAssumption, MergeInOrder, ChangesPassed
  PROVE  Comparing!Valid
<1>1. ASSUME NEW e \in Entries, NEW f \in Entries, e # f PROVE Comparing!Evidence(e, f)
  <2>1. \A x \in {e, f} :
          /\ x = [type |-> x.type, content |-> x.content, executable |-> x.executable, permissions |-> x.permissions]
          /\ x.executable \in BOOLEAN /\ (x.type # "file" => ~x.executable)
    BY DEF Comparing!ComparisonAssumption
  <2>2. \/ e.type # f.type \/ e.content # f.content \/ e.executable # f.executable
        \/ e.permissions # f.permissions
    <3>1. SUFFICES ASSUME e.type = f.type, e.content = f.content, e.executable = f.executable,
                          e.permissions = f.permissions
                   PROVE  FALSE
      BY Zenon
    <3>2. e = [type |-> e.type, content |-> e.content, executable |-> e.executable, permissions |-> e.permissions]
          /\ f = [type |-> f.type, content |-> f.content, executable |-> f.executable, permissions |-> f.permissions]
      BY <2>1, Zenon
    <3> QED BY <1>1, <3>1, <3>2, Zenon
  <2>3. e.content # f.content => Comparing!ContentIdentity(e) # Comparing!ContentIdentity(f)
    BY DEF Comparing!ContentIdentity
  <2>4. e.type = f.type /\ e.executable # f.executable => e.type = "file"
    BY <2>1, Zenon
  <2> QED BY <2>2, <2>3, <2>4, Zenon DEF Comparing!Evidence
<1>2. ASSUME NEW k \in DOMAIN changes, changes[k].kind = "modified"
      PROVE  Comparing!Evidence(left[changes[k].path], right[changes[k].path])
  <2> DEFINE p == changes[k].path
  <2>1. p \in Comparing!Differ /\ Comparing!ChangeOf(p) = "modified"
    BY <1>2, Zenon DEF ChangesPassed, Passed
  <2> HIDE DEF p
  <2>2. p \in DOMAIN left /\ p \in DOMAIN right /\ left[p] # right[p]
    <3>1. p \in DOMAIN right
      BY <2>1 DEF Comparing!ChangeOf
    <3>2. p \in DOMAIN left
      BY <2>1 DEF Comparing!ChangeOf
    <3> QED BY <2>1, <3>1, <3>2, Zenon DEF Comparing!Differ
  <2>3. left[p] \in Entries /\ right[p] \in Entries
    BY <2>2, Zenon DEF MergeInOrder
  <2> QED BY <1>1, <2>2, <2>3, Zenon DEF p
<1> QED BY <1>2, Zenon DEF Comparing!Valid, ChangesPassed

\* Nothing is passed before the merge.
LEMMA ComparingInit ==
  ASSUME Comparing!ComparisonAssumption, Comparing!Init
  PROVE  ComparingInv
<1>0. MaxRun \in Nat \ {0} /\ Comparing!Runs = 1..MaxRun /\ Comparing!NoRun = 0
  BY DEF Comparing!ComparisonAssumption, Comparing!Runs, Comparing!NoRun
<1>1. Ancestry
  <2>1. parent \in [Comparing!Runs -> Comparing!Runs \cup {Comparing!NoRun}] /\ \A r \in Comparing!Runs : parent[r] < r
    BY Zenon DEF Comparing!Init
  <2> QED BY <1>0, <2>1 DEF Ancestry
<1>2. leftRest = DOMAIN left /\ rightRest = DOMAIN right /\ changes = <<>> /\ stage = "start"
      /\ pair \in Comparing!Runs \X Comparing!Runs
  BY Zenon DEF Comparing!Init
<1>3. MergeInOrder
  <2>1. PICK S \in SUBSET Comparing!Paths : left \in [S -> Entries]
    BY Zenon DEF Comparing!Init
  <2>2. PICK T \in SUBSET Comparing!Paths : right \in [T -> Entries]
    BY Zenon DEF Comparing!Init
  <2>3. DOMAIN left = S /\ DOMAIN right = T
    BY <2>1, <2>2
  <2> QED BY <1>2, <2>1, <2>2, <2>3, Zenon DEF MergeInOrder
<1>4. ChangesPassed
  <2>1. Passed = {}
    <3>1. \A q \in Comparing!Differ : q \in DOMAIN left \/ q \in DOMAIN right
      BY DEF Comparing!Differ
    <3> QED BY <1>2, <3>1, Zenon DEF Passed
  <2>2. Cardinality(Passed) = 0
    BY <2>1, FS_EmptySet
  <2>3. changes \in Seq([kind : {"removed", "added", "modified"}, path : Comparing!Paths])
        /\ Len(changes) = 0 /\ DOMAIN changes = {}
    BY <1>2
  <2> QED BY <2>1, <2>2, <2>3, Zenon DEF ChangesPassed
<1>5. stage \in {"start", "refused", "merge", "done"} /\ stage \notin {"refused", "merge", "done"}
  BY <1>2
<1> QED BY <1>1, <1>2, <1>3, <1>4, <1>5, Zenon DEF ComparingInv

\* Every step of the merge, and the report, keeps the changes those passed.
LEMMA ComparingPreserved ==
  ASSUME Comparing!ComparisonAssumption, ComparingInv, [Comparing!Next]_(Comparing!vars)
  PROVE  ComparingInv'
<1>0. MaxPath \in Nat /\ Comparing!Paths = 1..MaxPath
  BY DEF Comparing!ComparisonAssumption, Comparing!Paths
<1>1. MergeInOrder /\ ChangesPassed /\ Ancestry /\ pair \in Comparing!Runs \X Comparing!Runs
  BY DEF ComparingInv
<1>2. leftRest \subseteq Nat /\ rightRest \subseteq Nat
  BY <1>0, <1>1 DEF MergeInOrder
<1>3. ASSUME UNCHANGED <<pair, parent>>
      PROVE  Ancestry' /\ pair' \in Comparing!Runs' \X Comparing!Runs'
  BY <1>1, <1>3, Zenon DEF Ancestry, Comparing!Runs
<1>4. ASSUME UNCHANGED <<pair, parent, concluded, stage, relation>>, stage = "merge", MergeInOrder', ChangesPassed'
      PROVE  ComparingInv'
  <2>1. stage' \in {"start", "refused", "merge", "done"} /\ stage' # "done" /\ stage' # "refused"
    BY <1>4
  <2>2. stage \in {"merge", "done"}
    BY <1>4
  <2>3. NearestOf(relation, pair[1], pair[2]) /\ \A k \in 1..2 : pair[k] \in concluded
    BY <2>2, Zenon DEF ComparingInv
  <2>4. NearestOf(relation, pair[1], pair[2])' /\ (\A k \in 1..2 : pair[k] \in concluded)'
    BY <1>4, <2>3, Zenon DEF NearestOf, Comparing!Line, Comparing!Runs
  <2> QED BY <1>3, <1>4, <2>1, <2>4, Zenon DEF ComparingInv
<1>5. CASE Comparing!Removed
  <2> DEFINE p == Comparing!Least(leftRest)
  <2>1. /\ stage = "merge" /\ leftRest # {} /\ (rightRest # {} => p < Comparing!Least(rightRest))
        /\ Comparing!Found("removed", p) /\ leftRest' = leftRest \ {p} /\ rightRest' = rightRest
        /\ UNCHANGED <<left, right, pair, parent, concluded, stage, relation>>
    BY <1>5, Zenon DEF Comparing!Removed
  <2>2. p \in leftRest /\ (\A q \in leftRest : p <= q) /\ \A q \in rightRest : p < q
    <3>1. p \in leftRest /\ \A q \in leftRest : p <= q
      BY <1>2, <2>1, LeastCompared, Zenon
    <3>2. ASSUME NEW q \in rightRest PROVE p < q
      <4> DEFINE m == Comparing!Least(rightRest)
      <4>1. m \in rightRest /\ m <= q /\ p < m
        BY <1>2, <2>1, LeastCompared, Zenon
      <4> HIDE DEF p, m
      <4>2. p \in Nat /\ q \in Nat /\ m \in Nat
        BY <4>1, <3>1, <1>2
      <4> QED BY <4>1, <4>2
    <3> QED BY <3>1, <3>2
  <2> HIDE DEF p
  <2>3. p \notin rightRest /\ rightRest' = rightRest \ {p} /\ \A q \in leftRest \cup rightRest : p <= q
    BY <1>2, <2>1, <2>2
  <2>4. /\ MergeInOrder' /\ p \in Comparing!Paths /\ p \notin Passed /\ (\A q \in Passed : q < p)
        /\ p \in DOMAIN left /\ p \notin DOMAIN right
        /\ Passed' = IF p \in Comparing!Differ THEN Passed \cup {p} ELSE Passed
    BY <1>1, <2>1, <2>2, <2>3, PassesLeast, Zenon
  <2>5. p \in Comparing!Differ /\ "removed" = Comparing!ChangeOf(p)
    BY <2>4 DEF Comparing!Differ, Comparing!ChangeOf
  <2>6. Passed' = Passed \cup {p}
    BY <2>4, <2>5
  <2>7. ChangesPassed'
    BY <1>1, <2>1, <2>4, <2>5, <2>6, FoundPassed, Zenon
  <2> QED BY <1>4, <2>1, <2>4, <2>7, Zenon
<1>6. CASE Comparing!Added
  <2> DEFINE p == Comparing!Least(rightRest)
  <2>1. /\ stage = "merge" /\ rightRest # {} /\ (leftRest # {} => p < Comparing!Least(leftRest))
        /\ Comparing!Found("added", p) /\ rightRest' = rightRest \ {p} /\ leftRest' = leftRest
        /\ UNCHANGED <<left, right, pair, parent, concluded, stage, relation>>
    BY <1>6, Zenon DEF Comparing!Added
  <2>2. p \in rightRest /\ (\A q \in rightRest : p <= q) /\ \A q \in leftRest : p < q
    <3>1. p \in rightRest /\ \A q \in rightRest : p <= q
      BY <1>2, <2>1, LeastCompared, Zenon
    <3>2. ASSUME NEW q \in leftRest PROVE p < q
      <4> DEFINE m == Comparing!Least(leftRest)
      <4>1. m \in leftRest /\ m <= q /\ p < m
        BY <1>2, <2>1, LeastCompared, Zenon
      <4> HIDE DEF p, m
      <4>2. p \in Nat /\ q \in Nat /\ m \in Nat
        BY <4>1, <3>1, <1>2
      <4> QED BY <4>1, <4>2
    <3> QED BY <3>1, <3>2
  <2> HIDE DEF p
  <2>3. p \notin leftRest /\ leftRest' = leftRest \ {p} /\ \A q \in leftRest \cup rightRest : p <= q
    BY <1>2, <2>1, <2>2
  <2>4. /\ MergeInOrder' /\ p \in Comparing!Paths /\ p \notin Passed /\ (\A q \in Passed : q < p)
        /\ p \in DOMAIN right /\ p \notin DOMAIN left
        /\ Passed' = IF p \in Comparing!Differ THEN Passed \cup {p} ELSE Passed
    BY <1>1, <2>1, <2>2, <2>3, PassesLeast, Zenon
  <2>5. p \in Comparing!Differ /\ "added" = Comparing!ChangeOf(p)
    BY <2>4 DEF Comparing!Differ, Comparing!ChangeOf
  <2>6. Passed' = Passed \cup {p}
    BY <2>4, <2>5
  <2>7. ChangesPassed'
    BY <1>1, <2>1, <2>4, <2>5, <2>6, FoundPassed, Zenon
  <2> QED BY <1>4, <2>1, <2>4, <2>7, Zenon
<1>7. CASE Comparing!Both
  <2> DEFINE p == Comparing!Least(leftRest)
  <2>1. /\ stage = "merge" /\ leftRest # {} /\ rightRest # {} /\ p = Comparing!Least(rightRest)
        /\ IF left[p] # right[p] THEN Comparing!Found("modified", p) ELSE UNCHANGED changes
        /\ leftRest' = leftRest \ {p} /\ rightRest' = rightRest \ {p}
        /\ UNCHANGED <<left, right, pair, parent, concluded, stage, relation>>
    BY <1>7, Zenon DEF Comparing!Both
  <2>2. p \in leftRest /\ p \in rightRest /\ \A q \in leftRest \cup rightRest : p <= q
    BY <1>2, <2>1, LeastCompared, Zenon
  <2> HIDE DEF p
  <2>3. /\ MergeInOrder' /\ p \in Comparing!Paths /\ p \notin Passed /\ (\A q \in Passed : q < p)
        /\ p \in DOMAIN right /\ p \in DOMAIN left
        /\ Passed' = IF p \in Comparing!Differ THEN Passed \cup {p} ELSE Passed
    BY <1>1, <2>1, <2>2, PassesLeast, Zenon
  <2>4. CASE left[p] # right[p]
    <3>1. p \in Comparing!Differ /\ "modified" = Comparing!ChangeOf(p)
      BY <2>3, <2>4 DEF Comparing!Differ, Comparing!ChangeOf
    <3>2. Comparing!Found("modified", p)
      BY <2>1, <2>4, Zenon
    <3>3. Passed' = Passed \cup {p}
      BY <2>3, <3>1
    <3>4. ChangesPassed'
      BY <1>1, <2>1, <2>3, <3>1, <3>2, <3>3, FoundPassed, Zenon
    <3> QED BY <1>4, <2>1, <2>3, <3>4, Zenon
  <2>5. CASE left[p] = right[p]
    <3>1. p \notin Comparing!Differ
      BY <2>3, <2>5 DEF Comparing!Differ
    <3>2. changes' = changes /\ Passed' = Passed
      BY <2>1, <2>3, <2>5, <3>1, Zenon
    <3>3. ChangesPassed'
      <4>1. left' = left /\ right' = right
        BY <2>1, Zenon
      <4> QED BY <1>1, <3>2, <4>1, Zenon DEF ChangesPassed, Comparing!ChangeOf, Comparing!Paths
    <3> QED BY <1>4, <2>1, <2>3, <3>3, Zenon
  <2> QED BY <2>4, <2>5
<1>8. CASE Comparing!Resolve
  <2>1. /\ stage = "start" /\ relation' = Comparing!Relationship(pair[1], pair[2])
        /\ stage' = IF {pair[1], pair[2]} \subseteq concluded THEN "merge" ELSE "refused"
        /\ UNCHANGED <<left, right, leftRest, rightRest, changes, pair, parent, concluded>>
    BY <1>8, Zenon DEF Comparing!Resolve
  <2>2. MergeInOrder' /\ ChangesPassed'
    <3>1. left' = left /\ right' = right /\ leftRest' = leftRest /\ rightRest' = rightRest /\ changes' = changes
      BY <2>1, Zenon
    <3>2. Passed' = Passed
      BY <3>1, Zenon DEF Passed, Comparing!Differ, Comparing!Paths
    <3> QED BY <1>1, <3>1, <3>2, Zenon DEF MergeInOrder, ChangesPassed, Comparing!ChangeOf, Comparing!Paths
  <2>3. NearestOf(relation, pair[1], pair[2])'
    <3>1. pair[1] \in Comparing!Runs /\ pair[2] \in Comparing!Runs
      BY <1>1
    <3>2. NearestOf(relation', pair[1], pair[2])
      BY <1>1, <2>1, <3>1, RelationshipIsNearest, Zenon
    <3> QED BY <2>1, <3>2, Zenon DEF NearestOf, Comparing!Line, Comparing!Runs
  <2>4. CASE {pair[1], pair[2]} \subseteq concluded
    <3>1. \A k \in 1..2 : pair[k] \in concluded
      BY <2>4
    <3>2. stage' = "merge"
      BY <2>1, <2>4, Zenon
    <3>3. stage' \in {"start", "refused", "merge", "done"} /\ stage' # "done" /\ stage' # "refused"
      BY <3>2
    <3> QED BY <1>3, <2>1, <2>2, <2>3, <3>1, <3>3, Zenon DEF ComparingInv
  <2>5. CASE ~({pair[1], pair[2]} \subseteq concluded)
    <3>1. \E k \in 1..2 : pair[k] \notin concluded
      BY <2>5
    <3>2. stage' = "refused"
      BY <2>1, <2>5, Zenon
    <3>3. stage' \in {"start", "refused", "merge", "done"} /\ stage' \notin {"merge", "done"} /\ stage' # "done"
      BY <3>2
    <3> QED BY <1>3, <2>1, <2>2, <3>1, <3>3, Zenon DEF ComparingInv
  <2> QED BY <2>4, <2>5
<1>9. CASE Comparing!Report
  <2>1. /\ stage = "merge" /\ leftRest = {} /\ rightRest = {}
        /\ stage' = IF Comparing!Valid THEN "done" ELSE "invalid"
        /\ UNCHANGED <<left, right, leftRest, rightRest, changes, pair, parent, concluded, relation>>
    BY <1>9, Zenon DEF Comparing!Report
  <2>2. stage' = "done"
    BY <1>1, <2>1, ReportValid, Zenon
  <2>3. MergeInOrder' /\ ChangesPassed'
    <3>1. left' = left /\ right' = right /\ leftRest' = leftRest /\ rightRest' = rightRest /\ changes' = changes
      BY <2>1, Zenon
    <3>2. Passed' = Passed
      BY <3>1, Zenon DEF Passed, Comparing!Differ, Comparing!Paths
    <3> QED BY <1>1, <3>1, <3>2, Zenon DEF MergeInOrder, ChangesPassed, Comparing!ChangeOf, Comparing!Paths
  <2>4. NearestOf(relation, pair[1], pair[2]) /\ \A k \in 1..2 : pair[k] \in concluded
    <3>1. stage \in {"merge", "done"}
      BY <2>1
    <3> QED BY <3>1, Zenon DEF ComparingInv
  <2>5. NearestOf(relation, pair[1], pair[2])' /\ (\A k \in 1..2 : pair[k] \in concluded)'
    BY <2>1, <2>4, Zenon DEF NearestOf, Comparing!Line, Comparing!Runs
  <2>6. stage' \in {"start", "refused", "merge", "done"} /\ stage' # "refused" /\ leftRest' = {} /\ rightRest' = {}
    BY <2>1, <2>2
  <2> QED BY <1>3, <2>1, <2>3, <2>5, <2>6, Zenon DEF ComparingInv
<1>10. CASE UNCHANGED Comparing!vars
  <2>1. /\ left' = left /\ right' = right /\ leftRest' = leftRest /\ rightRest' = rightRest
        /\ changes' = changes /\ pair' = pair /\ parent' = parent /\ concluded' = concluded
        /\ stage' = stage /\ relation' = relation
    BY <1>10, Zenon DEF Comparing!vars
  <2>2. Passed' = Passed
    BY <2>1, Zenon DEF Passed, Comparing!Differ, Comparing!Paths
  <2>3. MergeInOrder' /\ ChangesPassed'
    BY <1>1, <2>1, <2>2, Zenon DEF MergeInOrder, ChangesPassed, Comparing!ChangeOf, Comparing!Paths
  <2>4. NearestOf(relation, pair[1], pair[2])' <=> NearestOf(relation, pair[1], pair[2])
    BY <2>1, Zenon DEF NearestOf, Comparing!Line, Comparing!Runs
  <2> QED BY <1>3, <2>1, <2>3, <2>4, Zenon DEF ComparingInv
<1> QED BY <1>5, <1>6, <1>7, <1>8, <1>9, <1>10 DEF Comparing!Next

\* When the merge is over, all that differs was passed.
LEMMA ComparingSuffices ==
  ASSUME ComparingInv
  PROVE  Comparing!ComparesExactly
<1>1. /\ stage # "invalid"
      /\ stage = "refused" => \E k \in 1..2 : pair[k] \notin concluded
      /\ stage \in {"merge", "done"} => \A k \in 1..2 : pair[k] \in concluded
  BY DEF ComparingInv
<1>2. ASSUME stage = "done"
      PROVE  /\ {changes[k] : k \in DOMAIN changes} =
                  {[kind |-> Comparing!ChangeOf(p), path |-> p] : p \in Comparing!Differ}
             /\ Len(changes) = Comparing!Cardinality(Comparing!Differ)
             /\ \A k \in DOMAIN changes : k > 1 => changes[k - 1].path < changes[k].path
             /\ IF Comparing!Common = {} THEN relation.kind = "unrelated"
                ELSE relation.run \in Comparing!Common /\ \A a \in Comparing!Common : Comparing!Line(a, relation.run)
  <2>1. leftRest = {} /\ rightRest = {} /\ NearestOf(relation, pair[1], pair[2]) /\ ChangesPassed
    <3>1. stage \in {"merge", "done"}
      BY <1>2
    <3> QED BY <1>2, <3>1, Zenon DEF ComparingInv
  <2>2. Passed = Comparing!Differ
    BY <2>1, Zenon DEF Passed
  <2>3. Len(changes) = Comparing!Cardinality(Comparing!Differ)
    BY <2>1, <2>2, SameCount, Zenon DEF ChangesPassed
  <2>4. \A k \in DOMAIN changes :
          /\ changes[k] = [kind |-> changes[k].kind, path |-> changes[k].path]
          /\ changes[k].path \in Comparing!Differ /\ changes[k].kind = Comparing!ChangeOf(changes[k].path)
    <3> DEFINE T == [kind : {"removed", "added", "modified"}, path : Comparing!Paths]
    <3>1. changes \in Seq(T)
      BY <2>1, Zenon DEF ChangesPassed
    <3>2. \A k \in DOMAIN changes : changes[k] \in T
      <4> HIDE DEF T
      <4> QED BY <3>1
    <3>3. \A k \in DOMAIN changes : changes[k] = [kind |-> changes[k].kind, path |-> changes[k].path]
      BY <3>2
    <3> QED BY <2>1, <2>2, <3>3, Zenon DEF ChangesPassed
  <2>5. \A k \in DOMAIN changes :
          changes[k] = [kind |-> Comparing!ChangeOf(changes[k].path), path |-> changes[k].path]
    BY <2>4, Zenon
  <2>6. \A p \in Comparing!Differ : \E k \in DOMAIN changes : changes[k].path = p
    BY <2>1, <2>2, Zenon DEF ChangesPassed
  <2>7. {changes[k] : k \in DOMAIN changes} =
          {[kind |-> Comparing!ChangeOf(p), path |-> p] : p \in Comparing!Differ}
    <3>1. ASSUME NEW k \in DOMAIN changes
          PROVE  changes[k] \in {[kind |-> Comparing!ChangeOf(p), path |-> p] : p \in Comparing!Differ}
      BY <2>4, <2>5, Zenon
    <3>2. ASSUME NEW p \in Comparing!Differ
          PROVE  [kind |-> Comparing!ChangeOf(p), path |-> p] \in {changes[k] : k \in DOMAIN changes}
      <4>1. PICK k \in DOMAIN changes : changes[k].path = p
        BY <2>6, Zenon
      <4>2. changes[k] = [kind |-> Comparing!ChangeOf(p), path |-> p]
        BY <2>5, <4>1, Zenon
      <4> QED BY <4>2, Zenon
    <3> QED BY <3>1, <3>2, Zenon
  <2>8. \A k \in DOMAIN changes : k > 1 => changes[k - 1].path < changes[k].path
    BY <2>1, Zenon DEF ChangesPassed
  <2> QED BY <2>1, <2>3, <2>7, <2>8, Zenon DEF NearestOf, Comparing!Common
<1> QED BY <1>1, <1>2, Zenon DEF Comparing!ComparesExactly

\* Runs that both have a final snapshot are compared, others refused, and no
\* report is invalid; it names exactly the paths that differ, each once, and the
\* nearest run both descend from: for any two manifests and any ancestry, and
\* in any composition.
THEOREM ReportIsExact ==
  /\ Comparing!Spec => []Comparing!ComparesExactly
  /\ PartsSpec => []ComparesExactly
<1>1. Comparing!Init => ComparingInv
  BY PartsAssumption, ComparingInit
<1>2. ComparingInv /\ [Comparing!Next]_(Comparing!vars) => ComparingInv'
  BY PartsAssumption, ComparingPreserved
<1>3. ComparingInv => Comparing!ComparesExactly
  BY ComparingSuffices
<1>4. Comparing!Spec => []Comparing!ComparesExactly
  BY <1>1, <1>2, <1>3, PTL DEF Comparing!Spec
<1> DEFINE Inv == part = "comparing" => ComparingInv
<1>5. PartsInit => Inv
  BY <1>1 DEF PartsInit
<1>6. Inv /\ [PartsNext]_partsVars => Inv'
  BY <1>2, OnePart
<1>7. Inv => ComparesExactly
  BY <1>3 DEF ComparesExactly
<1>8. PartsSpec => []ComparesExactly
  <2> HIDE DEF Inv
  <2> QED BY <1>5, <1>6, <1>7, PTL DEF PartsSpec
<1> QED BY <1>4, <1>8

-----------------------------------------------------------------------------
(* The export of a run.                                                    *)

\* An instance counts as FiniteSets does.
LEMMA SameExported ==
  ASSUME NEW S
  PROVE  /\ Exporting!Cardinality(S) = Cardinality(S)
         /\ Exporting!IsFiniteSet(S) <=> IsFiniteSet(S)
BY DEF Exporting!Cardinality, Cardinality, Exporting!IsFiniteSet, IsFiniteSet

Smaller(S, i) == {j \in S : j < i}

\* A larger element comes after more, and every one after fewer than there are.
LEMMA SmallerCount ==
  ASSUME NEW S \in SUBSET Nat, IsFiniteSet(S)
  PROVE  /\ Cardinality(S) \in Nat
         /\ \A i \in S : Cardinality(Smaller(S, i)) \in Nat /\ Cardinality(Smaller(S, i)) < Cardinality(S)
         /\ \A i, j \in S : i < j => Cardinality(Smaller(S, i)) < Cardinality(Smaller(S, j))
<1>1. Cardinality(S) \in Nat
  BY FS_CardinalityType
<1>2. ASSUME NEW i \in S, NEW T \in SUBSET S, Smaller(S, i) \cup {i} \subseteq T
      PROVE  Cardinality(Smaller(S, i)) \in Nat /\ Cardinality(T) \in Nat /\ Cardinality(Smaller(S, i)) < Cardinality(T)
  <2>1. IsFiniteSet(T) /\ Smaller(S, i) \in SUBSET S
    BY FS_Subset DEF Smaller
  <2>2. IsFiniteSet(Smaller(S, i)) /\ i \notin Smaller(S, i)
    BY <2>1, FS_Subset DEF Smaller
  <2>3. Cardinality(Smaller(S, i) \cup {i}) = Cardinality(Smaller(S, i)) + 1
    BY <2>2, FS_AddElement
  <2>4. Cardinality(Smaller(S, i) \cup {i}) <= Cardinality(T)
    BY <1>2, <2>1, FS_Subset
  <2>5. Cardinality(Smaller(S, i)) \in Nat /\ Cardinality(T) \in Nat
    BY <2>1, <2>2, FS_CardinalityType
  <2> QED BY <2>3, <2>4, <2>5
<1>3. ASSUME NEW i \in S
      PROVE  Cardinality(Smaller(S, i)) \in Nat /\ Cardinality(Smaller(S, i)) < Cardinality(S)
  <2>1. Smaller(S, i) \cup {i} \subseteq S
    BY DEF Smaller
  <2> QED BY <1>2, <2>1
<1>4. ASSUME NEW i \in S, NEW j \in S, i < j
      PROVE  Cardinality(Smaller(S, i)) < Cardinality(Smaller(S, j))
  <2>1. \A x \in S : x < i => x < j
    BY <1>4
  <2>2. Smaller(S, i) \cup {i} \subseteq Smaller(S, j) /\ Smaller(S, j) \in SUBSET S
    BY <1>4, <2>1, Zenon DEF Smaller
  <2> QED BY <1>2, <2>2
<1> QED BY <1>1, <1>3, <1>4

\* For any number below that of all there is an element that comes after so many.
LEMMA EveryRank ==
  ASSUME NEW S \in SUBSET Nat, IsFiniteSet(S), NEW k \in 1..Cardinality(S)
  PROVE  \E i \in S : Cardinality(Smaller(S, i)) = k - 1
<1> DEFINE n == Cardinality(S)
           T == {m \in 0..n : m = 0 \/ \E i \in S : Cardinality(Smaller(S, i)) = m - 1}
<1>0. n \in Nat
  BY FS_CardinalityType
<1>1. 0 \in T
  BY <1>0
<1>2. ASSUME NEW m \in 1..n, m - 1 \in T PROVE m \in T
  <2>1. CASE m = 1
    <3>1. S # {}
      BY <1>0, <2>1, FS_EmptySet
    <3>2. PICK i \in S : \A j \in S : i <= j
      BY <3>1, LeastNatural
    <3>3. Smaller(S, i) = {}
      <4>1. \A j \in S : ~ j < i
        BY <3>2
      <4> QED BY <4>1, Zenon DEF Smaller
    <3>4. Cardinality(Smaller(S, i)) = 0
      BY <3>3, FS_EmptySet
    <3> QED BY <2>1, <3>4, <1>0
  <2>2. CASE m # 1
    <3>1. PICK i \in S : Cardinality(Smaller(S, i)) = m - 2
      BY <1>0, <1>2, <2>2
    <3> DEFINE rest == {j \in S : i < j}
    <3>2. IsFiniteSet(Smaller(S, i)) /\ i \notin Smaller(S, i)
      BY FS_Subset DEF Smaller
    <3>3. Cardinality(Smaller(S, i) \cup {i}) = m - 1
      <4>1. Cardinality(Smaller(S, i) \cup {i}) = Cardinality(Smaller(S, i)) + 1
        BY <3>2, FS_AddElement
      <4> QED BY <3>1, <4>1, <1>0
    <3>4. rest # {}
      <4>1. SUFFICES ASSUME rest = {} PROVE FALSE
        OBVIOUS
      <4>2. \A j \in S : j \in Smaller(S, i) \cup {i}
        BY <4>1 DEF Smaller
      <4>3. Smaller(S, i) \cup {i} = S
        BY <4>2 DEF Smaller
      <4>4. n = m - 1
        BY <3>3, <4>3, Zenon
      <4> HIDE DEF n, T
      <4> QED BY <4>4, <1>0
    <3>5. rest \subseteq Nat
      OBVIOUS
    <3>6. PICK y \in rest : \A z \in rest : y <= z
      <4> HIDE DEF rest
      <4> QED BY <3>4, <3>5, LeastNatural
    <3>7. \A j \in S : j < y <=> j \in Smaller(S, i) \cup {i}
      <4>1. \A j \in S : j \in Nat /\ (i < j => y <= j)
        BY <3>6
      <4>2. i \in Nat /\ y \in Nat /\ i < y
        BY <3>6
      <4>3. \A j \in S : j \in Smaller(S, i) \cup {i} <=> j < i \/ j = i
        BY DEF Smaller
      <4> HIDE DEF rest
      <4> QED BY <4>1, <4>2, <4>3
    <3>8. Smaller(S, y) = Smaller(S, i) \cup {i}
      BY <3>7 DEF Smaller
    <3>9. y \in S /\ Cardinality(Smaller(S, y)) = m - 1
      BY <3>3, <3>6, <3>8
    <3> QED BY <3>9, <1>0
  <2> QED BY <2>1, <2>2
<1>3. \A i \in 0..n : i \in T
  <2> HIDE DEF T, n
  <2> QED BY <1>0, <1>1, <1>2, UpTo
<1> QED BY <1>0, <1>3

\* Sorted has each name once, in increasing order.
LEMMA SortedNames ==
  ASSUME NEW S \in SUBSET Nat, IsFiniteSet(S), NEW class \in Nat
  PROVE  /\ Exporting!Sorted(class, S) \in Seq(Nat \X Nat)
         /\ Len(Exporting!Sorted(class, S)) = Cardinality(S)
         /\ \A k \in 1..Cardinality(S) :
              Exporting!Sorted(class, S)[k][1] = class /\ Exporting!Sorted(class, S)[k][2] \in S
         /\ \A k, m \in 1..Cardinality(S) :
              k < m => Exporting!Sorted(class, S)[k][2] < Exporting!Sorted(class, S)[m][2]
         /\ \A i \in S : \E k \in 1..Cardinality(S) : Exporting!Sorted(class, S)[k][2] = i
<1> DEFINE n == Cardinality(S)
           q == Exporting!Sorted(class, S)
           f(k) == CHOOSE i \in S : Exporting!Cardinality({j \in S : j < i}) = k - 1
<1>0. /\ n \in Nat
      /\ \A i \in S : i \in Nat /\ Cardinality(Smaller(S, i)) \in Nat /\ Cardinality(Smaller(S, i)) < n
      /\ \A i, j \in S : i < j => Cardinality(Smaller(S, i)) < Cardinality(Smaller(S, j))
  BY SmallerCount
<1>1. ASSUME NEW k \in 1..n PROVE f(k) \in S /\ Cardinality(Smaller(S, f(k))) = k - 1
  <2>1. PICK i \in S : Cardinality(Smaller(S, i)) = k - 1
    BY EveryRank, Zenon
  <2>2. \A j \in S : Exporting!Cardinality({x \in S : x < j}) = Cardinality(Smaller(S, j))
    BY SameExported, Zenon DEF Smaller
  <2>3. f(k) \in S /\ Exporting!Cardinality({j \in S : j < f(k)}) = k - 1
    BY <2>1, <2>2, Zenon
  <2> QED BY <2>2, <2>3, Zenon
<1>2. q = [k \in 1..n |-> <<class, f(k)>>]
  BY SameExported, Zenon DEF Exporting!Sorted, Exporting!Entry
<1> HIDE DEF f, q, n
<1>3. \A k \in 1..n : q[k] = <<class, f(k)>>
  BY <1>2, Zenon
<1>4. \A k \in 1..n : q[k][1] = class /\ q[k][2] = f(k)
  BY <1>3
<1>5. q \in Seq(Nat \X Nat) /\ Len(q) = n
  <2>1. \A k \in 1..n : <<class, f(k)>> \in Nat \X Nat
    BY <1>0, <1>1
  <2> QED BY <1>0, <1>2, <2>1
<1>6. ASSUME NEW k \in 1..n, NEW m \in 1..n, k < m PROVE f(k) < f(m)
  <2>1. f(k) \in S /\ f(m) \in S /\ f(k) \in Nat /\ f(m) \in Nat
    BY <1>0, <1>1
  <2>2. Cardinality(Smaller(S, f(k))) = k - 1 /\ Cardinality(Smaller(S, f(m))) = m - 1
    BY <1>1
  <2>3. f(m) < f(k) => m - 1 < k - 1
    BY <1>0, <2>1, <2>2
  <2>4. f(m) # f(k)
    BY <2>2, <1>6
  <2> QED BY <2>1, <2>3, <2>4, <1>6
<1>7. ASSUME NEW i \in S PROVE \E k \in 1..n : f(k) = i
  <2> DEFINE k == Cardinality(Smaller(S, i)) + 1
  <2>1. k \in 1..n /\ k - 1 = Cardinality(Smaller(S, i))
    BY <1>0
  <2> HIDE DEF k
  <2>2. f(k) \in S /\ f(k) \in Nat /\ i \in Nat /\ Cardinality(Smaller(S, f(k))) = Cardinality(Smaller(S, i))
    BY <1>0, <1>1, <2>1
  <2>3. ~ f(k) < i /\ ~ i < f(k)
    BY <1>0, <2>2
  <2>4. f(k) = i
    BY <2>2, <2>3
  <2> QED BY <2>1, <2>4
<1> QED BY <1>1, <1>4, <1>5, <1>6, <1>7, Zenon DEF q, n

\* z is s, of m entries, with t, of n entries, after it.
Joined(z, s, m, t, n, S) ==
  /\ z \in Seq(S) /\ Len(z) = m + n
  /\ \A k \in 1..m : z[k] = s[k]
  /\ \A k \in 1..n : z[m + k] = t[k]

\* Concatenation joins two sequences.
LEMMA TwoParts ==
  ASSUME NEW S, NEW s \in Seq(S), NEW t \in Seq(S), NEW m, Len(s) = m, NEW n, Len(t) = n
  PROVE  Joined(s \o t, s, m, t, n, S)
<1>0. m \in Nat /\ n \in Nat
  OBVIOUS
<1>1. s \o t \in Seq(S) /\ Len(s \o t) = m + n
  OBVIOUS
<1>2. \A k \in 1..m : (s \o t)[k] = s[k]
  OBVIOUS
<1>3. \A k \in 1..n : (s \o t)[m + k] = t[k]
  OBVIOUS
<1> QED BY <1>1, <1>2, <1>3, Zenon DEF Joined

\* The four parts of z, the first of three entries, the third of one.
InFour(z, a, b, c, d, m, n, S) ==
  /\ z \in Seq(S) /\ Len(z) = 4 + m + n
  /\ \A k \in 1..3 : z[k] = a[k]
  /\ \A k \in 1..m : z[3 + k] = b[k]
  /\ z[m + 4] = c[1]
  /\ \A k \in 1..n : z[m + 4 + k] = d[k]

LEMMA FourParts ==
  ASSUME NEW S, NEW a \in Seq(S), Len(a) = 3, NEW b \in Seq(S), NEW c \in Seq(S), Len(c) = 1, NEW d \in Seq(S),
         NEW m \in Nat, Len(b) = m, NEW n \in Nat, Len(d) = n
  PROVE  InFour(a \o b \o c \o d, a, b, c, d, m, n, S)
<1> DEFINE x == a \o b
           y == x \o c
           z == y \o d
<1>0. 3 \in Nat /\ 1 \in Nat /\ 3 + m \in Nat /\ 3 + m + 1 \in Nat
  OBVIOUS
<1>1. /\ x \in Seq(S) /\ Len(x) = 3 + m
      /\ \A k \in 1..3 : x[k] = a[k]
      /\ \A k \in 1..m : x[3 + k] = b[k]
  <2>1. Joined(x, a, 3, b, m, S)
    BY TwoParts, Zenon
  <2> QED BY <2>1, Zenon DEF Joined
<1> HIDE DEF x
<1>2. /\ y \in Seq(S) /\ Len(y) = 3 + m + 1
      /\ \A k \in 1..(3 + m) : y[k] = x[k]
      /\ \A k \in 1..1 : y[3 + m + k] = c[k]
  <2>1. Joined(y, x, 3 + m, c, 1, S)
    BY <1>1, TwoParts, Zenon
  <2> QED BY <2>1, Zenon DEF Joined
<1> HIDE DEF y
<1>5. /\ z \in Seq(S) /\ Len(z) = 3 + m + 1 + n
      /\ \A k \in 1..(3 + m + 1) : z[k] = y[k]
      /\ \A k \in 1..n : z[3 + m + 1 + k] = d[k]
  <2>1. Joined(z, y, 3 + m + 1, d, n, S)
    BY <1>2, TwoParts, Zenon
  <2> QED BY <2>1, Zenon DEF Joined
<1>4. z = a \o b \o c \o d
  BY DEF x, y, z
<1> HIDE DEF z
<1>6. \A k \in 1..(3 + m) : k \in 1..(3 + m + 1)
  BY <1>0
<1>7. \A k \in 1..(3 + m) : z[k] = x[k]
  BY <1>2, <1>5, <1>6, Zenon
<1>8. \A k \in 1..3 : k \in 1..(3 + m)
  OBVIOUS
<1>9. \A k \in 1..m : 3 + k \in 1..(3 + m)
  OBVIOUS
<1>10. 1 \in 1..1 /\ 3 + m + 1 \in 1..(3 + m + 1) /\ 3 + m + 1 = m + 4 /\ 3 + m + 1 + n = 4 + m + n
  OBVIOUS
<1>11. z[m + 4] = c[1]
  BY <1>2, <1>5, <1>10, Zenon
<1>12. (\A k \in 1..3 : z[k] = a[k]) /\ \A k \in 1..m : z[3 + k] = b[k]
  BY <1>1, <1>7, <1>8, <1>9, Zenon
<1>13. z \in Seq(S) /\ Len(z) = 4 + m + n /\ \A k \in 1..n : z[m + 4 + k] = d[k]
  BY <1>5, <1>10, Zenon
<1> QED BY <1>4, <1>11, <1>12, <1>13, Zenon DEF InFour

\* The names of one class among some entries.
NamesIn(s, class) == {s[k][2] : k \in {j \in 1..Len(s) : s[j][1] = class}}

\* The entries of a bundle follow one another in the order of their names, are
\* as many as its header declares, and name all objects and snapshots.
LEMMA PlannedInOrder ==
  ASSUME objects \in SUBSET Nat, IsFiniteSet(objects),
         Exporting!Snapshots \in SUBSET Nat, IsFiniteSet(Exporting!Snapshots)
  PROVE  /\ Exporting!Planned \in Seq(Nat \X Nat) /\ Len(Exporting!Planned) = Exporting!Declared
         /\ \A k \in 2..Len(Exporting!Planned) : Exporting!Before(Exporting!Planned[k - 1], Exporting!Planned[k])
         /\ NamesIn(Exporting!Planned, 4) = objects
         /\ NamesIn(Exporting!Planned, 6) = Exporting!Snapshots
<1> DEFINE P == Exporting!Planned
           a == <<<<1, 0>>, <<2, 0>>, <<3, 0>>>>
           b == Exporting!Sorted(4, objects)
           c == <<<<5, 0>>>>
           d == Exporting!Sorted(6, Exporting!Snapshots)
           m == Cardinality(objects)
           n == Cardinality(Exporting!Snapshots)
<1>1. P = a \o b \o c \o d
  BY DEF Exporting!Planned, Exporting!Entry, Exporting!Classes
<1>2. m \in Nat /\ n \in Nat
  BY FS_CardinalityType
<1>3. Exporting!Declared = 4 + m + n
  BY SameExported DEF Exporting!Declared
<1>4. /\ b \in Seq(Nat \X Nat) /\ Len(b) = m
      /\ \A k \in 1..m : b[k][1] = 4 /\ b[k][2] \in objects
      /\ \A k, l \in 1..m : k < l => b[k][2] < b[l][2]
      /\ \A i \in objects : \E k \in 1..m : b[k][2] = i
  <2>1. 4 \in Nat
    OBVIOUS
  <2> QED BY <2>1, SortedNames, ZenonT(40)
<1>5. /\ d \in Seq(Nat \X Nat) /\ Len(d) = n
      /\ \A k \in 1..n : d[k][1] = 6 /\ d[k][2] \in Exporting!Snapshots
      /\ \A k, l \in 1..n : k < l => d[k][2] < d[l][2]
      /\ \A i \in Exporting!Snapshots : \E k \in 1..n : d[k][2] = i
  <2>1. 6 \in Nat
    OBVIOUS
  <2> QED BY <2>1, SortedNames, ZenonT(40)
<1>6. /\ a \in Seq(Nat \X Nat) /\ Len(a) = 3 /\ \A k \in 1..3 : a[k][1] = k
      /\ c \in Seq(Nat \X Nat) /\ Len(c) = 1 /\ c[1][1] = 5
  OBVIOUS
<1> HIDE DEF P, a, b, c, d, m, n
<1>7. /\ P \in Seq(Nat \X Nat) /\ Len(P) = 4 + m + n
      /\ \A k \in 1..3 : P[k] = a[k]
      /\ \A k \in 1..m : P[3 + k] = b[k]
      /\ P[m + 4] = c[1]
      /\ \A k \in 1..n : P[m + 4 + k] = d[k]
  <2>1. InFour(P, a, b, c, d, m, n, Nat \X Nat)
    BY <1>1, <1>2, <1>4, <1>5, <1>6, FourParts, Zenon
  <2> QED BY <2>1, Zenon DEF InFour
<1>8. \A k \in 1..Len(P) :
        /\ k \in 1..3 => P[k][1] = k
        /\ k \in 4..(m + 3) => k - 3 \in 1..m /\ P[k] = b[k - 3]
        /\ k = m + 4 => P[k][1] = 5
        /\ k \in (m + 5)..(m + 4 + n) => k - m - 4 \in 1..n /\ P[k] = d[k - m - 4]
        /\ k \in 1..3 \/ k \in 4..(m + 3) \/ k = m + 4 \/ k \in (m + 5)..(m + 4 + n)
  <2>1. SUFFICES ASSUME NEW k \in 1..Len(P)
                 PROVE  /\ k \in 1..3 => P[k][1] = k
                        /\ k \in 4..(m + 3) => k - 3 \in 1..m /\ P[k] = b[k - 3]
                        /\ k = m + 4 => P[k][1] = 5
                        /\ k \in (m + 5)..(m + 4 + n) => k - m - 4 \in 1..n /\ P[k] = d[k - m - 4]
                        /\ k \in 1..3 \/ k \in 4..(m + 3) \/ k = m + 4 \/ k \in (m + 5)..(m + 4 + n)
    BY Zenon
  <2>2. k \in 1..3 \/ k \in 4..(m + 3) \/ k = m + 4 \/ k \in (m + 5)..(m + 4 + n)
    BY <1>2, <1>7
  <2>3. k \in 4..(m + 3) => k - 3 \in 1..m /\ 3 + (k - 3) = k
    BY <1>2
  <2>4. k \in (m + 5)..(m + 4 + n) => k - m - 4 \in 1..n /\ m + 4 + (k - m - 4) = k
    BY <1>2
  <2> QED BY <1>6, <1>7, <2>2, <2>3, <2>4, Zenon
<1>9. \A k \in 1..Len(P) :
        /\ k \in 4..(m + 3) => P[k][1] = 4 /\ P[k][2] = b[k - 3][2]
        /\ k \in (m + 5)..(m + 4 + n) => P[k][1] = 6 /\ P[k][2] = d[k - m - 4][2]
  <2>1. ASSUME NEW k \in 1..Len(P), k \in 4..(m + 3) PROVE P[k][1] = 4 /\ P[k][2] = b[k - 3][2]
    <3>1. k - 3 \in 1..m /\ P[k] = b[k - 3]
      BY <1>8, <2>1, Zenon
    <3> QED BY <1>4, <3>1, Zenon
  <2>2. ASSUME NEW k \in 1..Len(P), k \in (m + 5)..(m + 4 + n) PROVE P[k][1] = 6 /\ P[k][2] = d[k - m - 4][2]
    <3>1. k - m - 4 \in 1..n /\ P[k] = d[k - m - 4]
      BY <1>8, <2>2, Zenon
    <3> QED BY <1>5, <3>1, Zenon
  <2> QED BY <2>1, <2>2, Zenon
<1>10. ASSUME NEW k \in 2..Len(P) PROVE Exporting!Before(P[k - 1], P[k])
  <2>0. k \in Nat /\ k - 1 \in Nat /\ k - 1 \in 1..Len(P) /\ k \in 1..Len(P)
    <3>1. Len(P) \in Nat
      BY <1>2, <1>7
    <3> QED BY <3>1
  <2>1. CASE k \in 4..(m + 3) /\ k - 1 \in 4..(m + 3)
    <3>1. (k - 1) - 3 \in 1..m /\ k - 3 \in 1..m /\ (k - 1) - 3 < k - 3
      BY <1>2, <2>1
    <3>2. b[(k - 1) - 3][2] < b[k - 3][2]
      BY <1>4, <3>1, Zenon
    <3>3. P[k - 1][1] = 4 /\ P[k - 1][2] = b[(k - 1) - 3][2]
      <4> DEFINE l == k - 1
      <4>1. l \in 1..Len(P) /\ l \in 4..(m + 3)
        BY <2>0, <2>1
      <4> HIDE DEF l
      <4>2. P[l][1] = 4 /\ P[l][2] = b[l - 3][2]
        BY <1>9, <4>1, Zenon
      <4> QED BY <4>2 DEF l
    <3>4. P[k][1] = 4 /\ P[k][2] = b[k - 3][2]
      BY <1>9, <2>0, <2>1, Zenon
    <3> QED BY <3>2, <3>3, <3>4, Zenon DEF Exporting!Before
  <2>2. CASE k \in (m + 5)..(m + 4 + n) /\ k - 1 \in (m + 5)..(m + 4 + n)
    <3>1. (k - 1) - m - 4 \in 1..n /\ k - m - 4 \in 1..n /\ (k - 1) - m - 4 < k - m - 4
      BY <1>2, <2>2
    <3>2. d[(k - 1) - m - 4][2] < d[k - m - 4][2]
      BY <1>5, <3>1, Zenon
    <3>3. P[k - 1][1] = 6 /\ P[k - 1][2] = d[(k - 1) - m - 4][2]
      <4> DEFINE l == k - 1
      <4>1. l \in 1..Len(P) /\ l \in (m + 5)..(m + 4 + n)
        BY <2>0, <2>2
      <4> HIDE DEF l
      <4>2. P[l][1] = 6 /\ P[l][2] = d[l - m - 4][2]
        BY <1>9, <4>1, Zenon
      <4> QED BY <4>2 DEF l
    <3>4. P[k][1] = 6 /\ P[k][2] = d[k - m - 4][2]
      BY <1>9, <2>0, <2>2, Zenon
    <3> QED BY <3>2, <3>3, <3>4, Zenon DEF Exporting!Before
  <2>3. CASE ~(k \in 4..(m + 3) /\ k - 1 \in 4..(m + 3)) /\ ~(k \in (m + 5)..(m + 4 + n) /\ k - 1 \in (m + 5)..(m + 4 + n))
    <3> DEFINE e(j) == P[j][1]
    <3>1. \A j \in 1..Len(P) :
            /\ j \in 1..3 => e(j) = j
            /\ j \in 4..(m + 3) => e(j) = 4
            /\ j = m + 4 => e(j) = 5
            /\ j \in (m + 5)..(m + 4 + n) => e(j) = 6
            /\ j \in 1..3 \/ j \in 4..(m + 3) \/ j = m + 4 \/ j \in (m + 5)..(m + 4 + n)
      BY <1>8, <1>9, Zenon
    <3> HIDE DEF e
    <3>2. e(k - 1) < e(k)
      BY <1>2, <2>0, <2>3, <3>1
    <3> QED BY <3>2, Zenon DEF Exporting!Before, e
  <2> QED BY <2>1, <2>2, <2>3
<1>11. NamesIn(P, 4) = objects
  <2>1. ASSUME NEW k \in 1..Len(P), P[k][1] = 4 PROVE P[k][2] \in objects
    <3>1. k \in 4..(m + 3)
      <4>1. k \notin 1..3 /\ k # m + 4
        BY <1>8, <2>1
      <4>2. k \notin (m + 5)..(m + 4 + n)
        BY <1>9, <2>1
      <4> QED BY <1>8, <4>1, <4>2, Zenon
    <3> QED BY <3>1, <1>4, <1>8, <1>9, Zenon
  <2>2. ASSUME NEW i \in objects PROVE \E k \in 1..Len(P) : P[k][1] = 4 /\ P[k][2] = i
    <3>1. PICK k \in 1..m : b[k][2] = i
      BY <1>4, Zenon
    <3>2. 3 + k \in 1..Len(P) /\ 3 + k \in 4..(m + 3) /\ (3 + k) - 3 = k
      <4>1. Len(P) = 4 + m + n
        BY <1>7, Zenon
      <4>2. 3 + k \in 1..(4 + m + n) /\ 3 + k \in 4..(m + 3) /\ (3 + k) - 3 = k
        BY <1>2
      <4> QED BY <4>1, <4>2, Zenon
    <3> QED BY <1>9, <3>1, <3>2, Zenon
  <2> QED BY <2>1, <2>2, Zenon DEF NamesIn
<1>12. NamesIn(P, 6) = Exporting!Snapshots
  <2>1. ASSUME NEW k \in 1..Len(P), P[k][1] = 6 PROVE P[k][2] \in Exporting!Snapshots
    <3>1. k \in (m + 5)..(m + 4 + n)
      <4>1. k \notin 1..3 /\ k # m + 4
        BY <1>8, <2>1
      <4>2. k \notin 4..(m + 3)
        BY <1>9, <2>1
      <4> QED BY <1>8, <4>1, <4>2, Zenon
    <3> QED BY <3>1, <1>5, <1>8, <1>9, Zenon
  <2>2. ASSUME NEW i \in Exporting!Snapshots PROVE \E k \in 1..Len(P) : P[k][1] = 6 /\ P[k][2] = i
    <3>1. PICK k \in 1..n : d[k][2] = i
      BY <1>5, Zenon
    <3>2. m + 4 + k \in 1..Len(P) /\ m + 4 + k \in (m + 5)..(m + 4 + n) /\ (m + 4 + k) - m - 4 = k
      <4>1. Len(P) = 4 + m + n
        BY <1>7, Zenon
      <4>2. /\ m + 4 + k \in 1..(4 + m + n) /\ m + 4 + k \in (m + 5)..(m + 4 + n)
            /\ (m + 4 + k) - m - 4 = k
        BY <1>2
      <4> QED BY <4>1, <4>2, Zenon
    <3> QED BY <1>9, <3>1, <3>2, Zenon
  <2> QED BY <2>1, <2>2, Zenon DEF NamesIn
<1>13. Len(P) = Exporting!Declared
  BY <1>3, <1>7
<1> QED BY <1>7, <1>10, <1>11, <1>12, <1>13, Zenon DEF P

-----------------------------------------------------------------------------
\* What is read of a run when its checkpoints have been, when all its events
\* have been, and when all of a bundle has been written.
HasRead == step \in {"page", "events", "create", "write", "install", "sync", "done"} \/ output = "new"
HasAll == step \in {"create", "write", "install", "sync", "done"} \/ output = "new"
HasWritten == step \in {"install", "sync", "done"} \/ output = "new"

\* A temporary file is there while it is written, and is renamed only once.
ExportFile ==
  /\ output = "new" => step \in {"sync", "done", "failed", "crashed"} /\ ~temporary /\ format # "raw"
  /\ temporary => step \in {"write", "install", "crashed"}
  /\ step = "write" => format = "bundle"
  /\ format = "raw" => step \notin {"checkpoints", "create", "write", "install", "sync"}

\* The events taken are the first ones of the run, and no page skips any.
ExportEvents ==
  /\ step \in {"resolve", "checkpoints"} => taken = 0
  /\ IF format = "raw"
     THEN /\ lines \in Seq([event : 1..taken, redacted : BOOLEAN])
          /\ {lines[k].event : k \in 1..Len(lines)} = {i \in 1..taken : Exporting!Kind(i) = "output"}
          /\ \A k, m \in 1..Len(lines) : k < m => lines[k].event < lines[m].event
     ELSE lines = [i \in 1..taken |-> [event |-> i, redacted |-> Exporting!Redacted(i)]]
  /\ step = "events" /\ ~batch.more => resolved <= batch.to /\ listed \subseteq 1..batch.to
  /\ HasAll => resolved <= taken /\ listed \subseteq 1..taken

\* The checkpoints are at least those the run had when it was resolved.
ExportCheckpoints ==
  /\ listed \subseteq 1..appended /\ listed \subseteq Exporting!Commits(appended)
  /\ HasRead /\ format # "raw" => Exporting!Commits(resolved) \subseteq listed
  /\ (step = "checkpoints" \/ HasRead) /\ format = "html" => Exporting!Row(resolved, "final") # None

\* The objects are those of the snapshots and of the events taken.
BundledObjects ==
  (UNION {Holds[Exporting!About(c)] : c \in listed})
  \cup {Exporting!About(i) : i \in {j \in 1..taken : Exporting!Kind(j) = "output"
                                                      \/ (Exporting!Kind(j) = "input" /\ ~redact)}}

ExportObjects ==
  /\ objects \subseteq Nat /\ IsFiniteSet(objects)
  /\ HasRead /\ format = "bundle" => objects = BundledObjects

\* The entries written are the first ones planned.
ExportWritten ==
  /\ format # "bundle" \/ step \in {"resolve", "checkpoints", "page", "events", "create"} => written = <<>>
  /\ written \in Seq(Nat \X Nat)
  /\ written # <<>> => Len(written) <= Len(Exporting!Planned)
  /\ \A k \in 1..Len(written) : written[k] = Exporting!Planned[k]
  /\ HasWritten /\ format = "bundle" => written = Exporting!Planned

ExportingInv ==
  /\ Exporting!TypeOK /\ step # "refused"
  /\ ExportFile /\ ExportEvents /\ ExportCheckpoints /\ ExportObjects /\ ExportWritten

\* What the constants say of the events.
LEMMA ExportFacts ==
  ASSUME Exporting!ExportAssumption
  PROVE  /\ Len(ExportedRun) \in Nat /\ Exporting!Events = 1..Len(ExportedRun)
         /\ ExportPage \in Nat /\ ExportPage > 0
         /\ \A i \in Exporting!Events :
              /\ Exporting!Kind(i) \in {"input", "output"} => Exporting!About(i) \in Nat
              /\ Exporting!Kind(i) \in {"initial", "checkpoint", "final"} =>
                   /\ Exporting!About(i) \in DOMAIN Holds /\ Exporting!About(i) \in Nat /\ Exporting!About(i) # None
                   /\ Holds[Exporting!About(i)] \in SUBSET Nat /\ IsFiniteSet(Holds[Exporting!About(i)])
         /\ \A n \in 0..Len(ExportedRun) : Exporting!Commits(n) \subseteq 1..n /\ 1..n \subseteq Exporting!Events
         /\ \A n \in 0..Len(ExportedRun) : \A c \in Exporting!Commits(n) :
              c \in Exporting!Events /\ Exporting!Kind(c) \in {"initial", "checkpoint", "final"}
         /\ \A m, n \in 0..Len(ExportedRun) : m <= n => Exporting!Commits(m) \subseteq Exporting!Commits(n)
<1> DEFINE S == {ExportedRun[i] : i \in DOMAIN ExportedRun}
<1>1. /\ ExportPage \in Nat /\ ExportPage > 0 /\ ExportedRun \in Seq(S)
      /\ \A i \in DOMAIN ExportedRun :
           /\ ExportedRun[i].kind \in {"input", "output"} => ExportedRun[i].about \in Nat
           /\ ExportedRun[i].kind \in {"initial", "checkpoint", "final"} => ExportedRun[i].about \in DOMAIN Holds
      /\ DOMAIN Holds \subseteq Nat /\ None \notin DOMAIN Holds
      /\ \A s \in DOMAIN Holds : Holds[s] \subseteq Nat /\ IsFiniteSet(Holds[s])
  <2>1. ExportPage \in Nat /\ ExportPage > 0
    BY DEF Exporting!ExportAssumption
  <2>2. \A s \in DOMAIN Holds : Holds[s] \subseteq Nat /\ IsFiniteSet(Holds[s])
    BY SameExported, Zenon DEF Exporting!ExportAssumption
  <2> QED BY <2>1, <2>2, Zenon DEF Exporting!ExportAssumption
<1> HIDE DEF S
<1>2. Len(ExportedRun) \in Nat /\ DOMAIN ExportedRun = 1..Len(ExportedRun)
  BY <1>1
<1>3. Exporting!Events = 1..Len(ExportedRun)
  BY DEF Exporting!Events
<1>4. \A i \in Exporting!Events :
        /\ Exporting!Kind(i) \in {"input", "output"} => Exporting!About(i) \in Nat
        /\ Exporting!Kind(i) \in {"initial", "checkpoint", "final"} =>
             /\ Exporting!About(i) \in DOMAIN Holds /\ Exporting!About(i) \in Nat /\ Exporting!About(i) # None
             /\ Holds[Exporting!About(i)] \in SUBSET Nat /\ IsFiniteSet(Holds[Exporting!About(i)])
  BY <1>1, <1>2, <1>3, Zenon DEF Exporting!Kind, Exporting!About
<1>5. \A n \in 0..Len(ExportedRun) : Exporting!Commits(n) \subseteq 1..n /\ 1..n \subseteq Exporting!Events
  BY <1>2, <1>3 DEF Exporting!Commits
<1>6. \A n \in 0..Len(ExportedRun) : \A c \in Exporting!Commits(n) :
        c \in Exporting!Events /\ Exporting!Kind(c) \in {"initial", "checkpoint", "final"}
  <2>1. \A n : \A c \in Exporting!Commits(n) : Exporting!Kind(c) \in {"initial", "checkpoint", "final"}
    BY Zenon DEF Exporting!Commits
  <2> QED BY <1>5, <2>1, Zenon
<1>7. ASSUME NEW m \in 0..Len(ExportedRun), NEW n \in 0..Len(ExportedRun), m <= n
      PROVE  Exporting!Commits(m) \subseteq Exporting!Commits(n)
  <2>1. 1..m \subseteq 1..n
    BY <1>2, <1>7
  <2> QED BY <2>1, Zenon DEF Exporting!Commits
<1> QED BY <1>1, <1>2, <1>3, <1>4, <1>5, <1>6, <1>7, Zenon

\* The values of a function up to a number are finitely many.
LEMMA FiniteImage ==
  ASSUME NEW n \in Nat, NEW F
  PROVE  IsFiniteSet({F[i] : i \in 1..n})
<1> DEFINE T == {m \in 0..n : IsFiniteSet({F[i] : i \in 1..m})}
<1>1. 0 \in T
  <2>1. {F[i] : i \in 1..0} = {}
    OBVIOUS
  <2>2. IsFiniteSet({F[i] : i \in 1..0})
    BY <2>1, FS_EmptySet
  <2>3. 0 \in 0..n
    OBVIOUS
  <2> QED BY <2>2, <2>3, Zenon
<1>2. ASSUME NEW m \in 1..n, m - 1 \in T PROVE m \in T
  <2>1. \A i : i \in 1..m <=> i \in 1..(m - 1) \/ i = m
    OBVIOUS
  <2>2. {F[i] : i \in 1..m} = {F[i] : i \in 1..(m - 1)} \cup {F[m]}
    BY <2>1, Zenon
  <2>3. IsFiniteSet({F[i] : i \in 1..(m - 1)})
    BY <1>2, Zenon
  <2>4. IsFiniteSet({F[i] : i \in 1..m})
    BY <2>2, <2>3, FS_AddElement
  <2>5. m \in 0..n
    OBVIOUS
  <2> QED BY <2>4, <2>5, Zenon
<1>3. \A i \in 0..n : i \in T
  <2> HIDE DEF T
  <2> QED BY <1>1, <1>2, UpTo
<1>4. n \in 0..n
  OBVIOUS
<1> QED BY <1>3, <1>4, Zenon

\* The row of a run has a snapshot that a checkpoint committed, or none.
LEMMA RowCommitted ==
  ASSUME NEW n, NEW column
  PROVE  \/ Exporting!Row(n, column) = None
         \/ \E c \in Exporting!Commits(n) : Exporting!Row(n, column) = Exporting!About(c)
<1> DEFINE kind == IF Exporting!CommittedAs("final", n) = {} /\ (\E i \in 1..n : Exporting!Kind(i) = "failed")
                   THEN "initial" ELSE column
           S == Exporting!CommittedAs(kind, n)
<1>1. Exporting!Row(n, column) = IF S = {} THEN None ELSE CHOOSE s \in S : TRUE
  BY Zenon DEF Exporting!Row
<1> HIDE DEF kind
<1>2. S # {} => (CHOOSE s \in S : TRUE) \in S
  BY Zenon
<1>3. \A s \in S : \E c \in Exporting!Commits(n) : s = Exporting!About(c)
  BY Zenon DEF Exporting!CommittedAs
<1> HIDE DEF S
<1> QED BY <1>1, <1>2, <1>3, Zenon

\* The snapshots of a bundle are those of the checkpoints listed, which have
\* those of the run's row among them.
LEMMA SnapshotsListed ==
  ASSUME Exporting!ExportAssumption, appended \in 0..Len(ExportedRun), resolved \in 0..appended,
         listed \subseteq Exporting!Commits(appended)
  PROVE  /\ Exporting!Snapshots \in SUBSET Nat /\ IsFiniteSet(Exporting!Snapshots)
         /\ Exporting!Commits(resolved) \subseteq listed =>
              Exporting!Snapshots = {Exporting!About(c) : c \in listed}
<1> DEFINE F == [i \in 1..appended |-> Exporting!About(i)]
           D == {F[i] : i \in 1..appended}
           R == {Exporting!Row(resolved, "initial"), Exporting!Row(resolved, "final")}
           L == {Exporting!About(c) : c \in listed}
<1>0. /\ appended \in Nat /\ resolved \in 0..Len(ExportedRun) /\ resolved <= appended
      /\ appended \in 0..Len(ExportedRun)
  BY ExportFacts
<1>1. Exporting!Commits(resolved) \subseteq Exporting!Commits(appended)
      /\ Exporting!Commits(appended) \subseteq 1..appended
  BY <1>0, ExportFacts, Zenon
<1>2. \A c \in Exporting!Commits(appended) : Exporting!About(c) \in Nat /\ Exporting!About(c) # None
  BY <1>0, ExportFacts, Zenon
<1>3. \A s \in R : s = None \/ \E c \in Exporting!Commits(resolved) : s = Exporting!About(c)
  BY RowCommitted, Zenon
<1>4. Exporting!Snapshots = (L \cup R) \ {None}
  BY Zenon DEF Exporting!Snapshots
<1>5. \A s \in L : \E c \in listed : s = Exporting!About(c)
  BY Zenon
<1>6. \A c \in listed : Exporting!About(c) \in L
  BY Zenon
<1>7. \A c \in Exporting!Commits(appended) : Exporting!About(c) \in D
  <2>1. \A c \in Exporting!Commits(appended) : c \in 1..appended /\ F[c] = Exporting!About(c)
    BY <1>1, Zenon
  <2> HIDE DEF F
  <2> QED BY <2>1, Zenon
<1>8. IsFiniteSet(D)
  <2> HIDE DEF F
  <2> QED BY <1>0, FiniteImage, Zenon
<1> HIDE DEF D, R, L
<1>9. \A s \in Exporting!Snapshots : \E c \in Exporting!Commits(appended) : s = Exporting!About(c)
  BY <1>1, <1>3, <1>4, <1>5, Zenon
<1>10. Exporting!Snapshots \in SUBSET Nat
  BY <1>2, <1>9, Zenon
<1>11. Exporting!Snapshots \in SUBSET D
  BY <1>7, <1>9, Zenon
<1>12. IsFiniteSet(Exporting!Snapshots)
  BY <1>8, <1>11, FS_Subset
<1>13. ASSUME Exporting!Commits(resolved) \subseteq listed PROVE Exporting!Snapshots = L
  <2>1. \A s \in Exporting!Snapshots : s \in L
    BY <1>3, <1>4, <1>6, <1>13, Zenon
  <2>2. \A s \in L : s # None
    BY <1>2, <1>5, Zenon
  <2> QED BY <1>4, <2>1, <2>2, Zenon
<1> QED BY <1>10, <1>12, <1>13, Zenon DEF L

\* The objects of the snapshots of some checkpoints are finitely many.
LEMMA HeldFinite ==
  ASSUME Exporting!ExportAssumption, NEW n \in 0..Len(ExportedRun), NEW C \in SUBSET Exporting!Commits(n)
  PROVE  /\ UNION {Holds[Exporting!About(c)] : c \in C} \in SUBSET Nat
         /\ IsFiniteSet(UNION {Holds[Exporting!About(c)] : c \in C})
<1> DEFINE F == [i \in 1..n |-> IF i \in C THEN Holds[Exporting!About(i)] ELSE {}]
           D == {F[i] : i \in 1..n}
           H == {Holds[Exporting!About(c)] : c \in C}
<1>0. n \in Nat
  BY ExportFacts
<1>1. \A c \in C : c \in 1..n /\ Holds[Exporting!About(c)] \in SUBSET Nat /\ IsFiniteSet(Holds[Exporting!About(c)])
  BY ExportFacts, Zenon
<1>2. \A T \in H : T \in SUBSET Nat /\ IsFiniteSet(T)
  BY <1>1, Zenon
<1>3. \A c \in C : F[c] = Holds[Exporting!About(c)]
  BY <1>1, Zenon
<1> HIDE DEF F
<1>4. IsFiniteSet(D)
  BY <1>0, FiniteImage, Zenon
<1>5. H \in SUBSET D
  BY <1>1, <1>3, Zenon
<1> HIDE DEF D
<1>6. IsFiniteSet(H)
  BY <1>4, <1>5, FS_Subset
<1> HIDE DEF H
<1>7. UNION H \in SUBSET Nat
  BY <1>2, Zenon
<1>8. IsFiniteSet(UNION H)
  BY <1>2, <1>6, FS_UNION, Zenon
<1> QED BY <1>7, <1>8, Zenon DEF H

-----------------------------------------------------------------------------
\* Before anything is read.
LEMMA ExportingInit ==
  ASSUME Exporting!ExportAssumption, Exporting!Init
  PROVE  ExportingInv
<1>1. /\ appended \in Exporting!Events /\ format \in {"bundle", "html", "raw"} /\ redact \in BOOLEAN
      /\ step = "resolve" /\ resolved = 0 /\ listed = {} /\ batch = [to |-> 0, more |-> FALSE] /\ taken = 0
      /\ lines = <<>> /\ objects = {} /\ written = <<>> /\ temporary = FALSE /\ output \in {"absent", "old"}
  BY Zenon DEF Exporting!Init
<1>2. ~HasRead /\ ~HasAll /\ ~HasWritten /\ output # "new" /\ step \notin {"checkpoints", "events", "refused"}
  BY <1>1 DEF HasRead, HasAll, HasWritten
<1>3. appended \in Nat /\ appended >= 1 /\ 0 \in 0..appended
  BY <1>1, ExportFacts
<1>4. Exporting!TypeOK
  <2>1. batch \in [to : 0..appended, more : BOOLEAN] /\ taken \in 0..batch.to /\ batch.to = 0 /\ resolved \in 0..appended
    BY <1>1, <1>3
  <2>2. /\ step \in {"resolve", "checkpoints", "page", "events", "create", "write", "install", "sync",
                     "done", "failed", "refused", "crashed"}
        /\ temporary \in BOOLEAN /\ output \in {"absent", "old", "new"} /\ listed \subseteq Exporting!Events
    BY <1>1
  <2> QED BY <1>1, <2>1, <2>2, Zenon DEF Exporting!TypeOK
<1>5. ExportFile
  BY <1>1, <1>2 DEF ExportFile
<1>6. ExportEvents
  <2>1. 1..taken = {} /\ 1..Len(lines) = {} /\ lines \in Seq([event : 1..taken, redacted : BOOLEAN])
    BY <1>1
  <2>2. lines = [i \in 1..taken |-> [event |-> i, redacted |-> Exporting!Redacted(i)]]
    BY <1>1
  <2>3. {lines[k].event : k \in 1..Len(lines)} = {i \in 1..taken : Exporting!Kind(i) = "output"}
        /\ \A k, m \in 1..Len(lines) : k < m => lines[k].event < lines[m].event
    BY <2>1, Zenon
  <2> QED BY <1>1, <1>2, <2>1, <2>2, <2>3, Zenon DEF ExportEvents
<1>7. ExportCheckpoints
  BY <1>1, <1>2, Zenon DEF ExportCheckpoints
<1>8. ExportObjects
  BY <1>1, <1>2, FS_EmptySet, Zenon DEF ExportObjects
<1>9. ExportWritten
  <2>1. <<>> \in Seq(Nat \X Nat) /\ 1..Len(<<>>) = {}
    OBVIOUS
  <2> QED BY <1>1, <1>2, <2>1, Zenon DEF ExportWritten
<1> QED BY <1>2, <1>4, <1>5, <1>6, <1>7, <1>8, <1>9, Zenon DEF ExportingInv

\* What is planned changes only with what was read.
LEMMA PlannedKept ==
  ASSUME resolved' = resolved, listed' = listed, objects' = objects
  PROVE  Exporting!Planned' = Exporting!Planned
<1>1. Exporting!Snapshots' = Exporting!Snapshots
  BY DEF Exporting!Snapshots, Exporting!Row, Exporting!CommittedAs, Exporting!Commits, Exporting!Kind, Exporting!About
<1>2. Exporting!Sorted(4, objects)' = Exporting!Sorted(4, objects)
  BY DEF Exporting!Sorted, Exporting!Entry
<1>3. Exporting!Sorted(6, Exporting!Snapshots)' = Exporting!Sorted(6, Exporting!Snapshots)
  BY <1>1 DEF Exporting!Sorted, Exporting!Entry
<1> QED BY <1>2, <1>3 DEF Exporting!Planned, Exporting!Classes, Exporting!Entry

\* Going on, failing or dying without reading or writing keeps what was read
\* and written; all was read once the last page has been taken.
LEMMA ExportMoves ==
  ASSUME ExportingInv,
         UNCHANGED <<appended, format, redact, resolved, listed, batch, taken, lines, objects, written>>,
         step' \in {"resolve", "checkpoints", "page", "events", "create", "write", "install", "sync",
                   "done", "failed", "crashed"},
         temporary' \in BOOLEAN, output' \in {"absent", "old", "new"}, ExportFile',
         step' \in {"resolve", "checkpoints", "events"} => step' = step,
         HasRead' => HasRead,
         HasAll' => HasAll \/ (step = "events" /\ taken = batch.to /\ ~batch.more),
         HasWritten' => HasWritten \/ (step = "write" /\ written = Exporting!Planned) \/ format # "bundle",
         step' \in {"page", "create"} => step \in {"events", step'},
         format # "bundle" => written = <<>>
  PROVE  ExportingInv'
<1>0. /\ appended' = appended /\ format' = format /\ redact' = redact /\ resolved' = resolved
      /\ listed' = listed /\ batch' = batch /\ taken' = taken /\ lines' = lines /\ objects' = objects
      /\ written' = written
  OBVIOUS
<1>1. Exporting!TypeOK' /\ step' # "refused"
  <2>1. step' # "refused"
    OBVIOUS
  <2> QED BY <1>0, <2>1 DEF ExportingInv, Exporting!TypeOK, Exporting!Events
<1>2. ExportEvents'
  <2>1. step' \in {"resolve", "checkpoints"} => taken = 0
    BY Zenon DEF ExportingInv, ExportEvents
  <2>2. step' = "events" /\ ~batch.more => resolved <= batch.to /\ listed \subseteq 1..batch.to
    BY Zenon DEF ExportingInv, ExportEvents
  <2>3. HasAll' => resolved <= taken /\ listed \subseteq 1..taken
    BY Zenon DEF ExportingInv, ExportEvents
  <2>4. IF format = "raw"
        THEN /\ lines \in Seq([event : 1..taken, redacted : BOOLEAN])
             /\ {lines[k].event : k \in 1..Len(lines)} = {i \in 1..taken : Exporting!Kind(i) = "output"}
             /\ \A k, m \in 1..Len(lines) : k < m => lines[k].event < lines[m].event
        ELSE lines = [i \in 1..taken |-> [event |-> i, redacted |-> Exporting!Redacted(i)]]
    BY Zenon DEF ExportingInv, ExportEvents
  <2>6. /\ (IF format = "raw" THEN
               /\ lines \in Seq([event : 1..taken, redacted : BOOLEAN])
               /\ {lines[k].event : k \in 1..Len(lines)} = {i \in 1..taken : Exporting!Kind(i) = "output"}
               /\ \A k, m \in 1..Len(lines) : k < m => lines[k].event < lines[m].event
            ELSE lines = [i \in 1..taken |-> [event |-> i, redacted |-> Exporting!Redacted(i)]])'
    BY <1>0, <2>4 DEF Exporting!Redacted, Exporting!Kind
  <2> QED BY <1>0, <2>1, <2>2, <2>3, <2>6, Zenon DEF ExportEvents
<1>3. ExportCheckpoints'
  <2>1. step' = "checkpoints" \/ HasRead' => step = "checkpoints" \/ HasRead
    BY Zenon
  <2>2. Exporting!Row(resolved, "final")' = Exporting!Row(resolved, "final")
    BY <1>0 DEF Exporting!Row, Exporting!CommittedAs, Exporting!Commits, Exporting!Kind, Exporting!About
  <2>3. /\ Exporting!Commits(appended)' = Exporting!Commits(appended)
        /\ Exporting!Commits(resolved)' = Exporting!Commits(resolved)
    BY <1>0 DEF Exporting!Commits, Exporting!Kind
  <2> QED BY <1>0, <2>1, <2>2, <2>3, Zenon DEF ExportingInv, ExportCheckpoints
<1>4. ExportObjects'
  <2>1. BundledObjects' = BundledObjects
    BY <1>0 DEF BundledObjects, Exporting!Kind, Exporting!About
  <2> QED BY <1>0, <2>1, Zenon DEF ExportingInv, ExportObjects
<1>5. ExportWritten'
  <2>1. Exporting!Planned' = Exporting!Planned
    BY <1>0, PlannedKept
  <2>2. format # "bundle" \/ step' \in {"resolve", "checkpoints", "page", "events", "create"} => written = <<>>
    BY Zenon DEF ExportingInv, ExportWritten
  <2> QED BY <1>0, <2>1, <2>2, Zenon DEF ExportingInv, ExportWritten
<1> QED BY <1>1, <1>2, <1>3, <1>4, <1>5, Zenon DEF ExportingInv

\* The run that is read grows.
LEMMA RecordGood ==
  ASSUME Exporting!ExportAssumption, ExportingInv, Exporting!Record
  PROVE  ExportingInv'
<1>0. /\ format' = format /\ redact' = redact /\ step' = step /\ resolved' = resolved
      /\ listed' = listed /\ batch' = batch /\ taken' = taken /\ lines' = lines /\ objects' = objects
      /\ written' = written /\ temporary' = temporary /\ output' = output
      /\ appended < Len(ExportedRun) /\ appended' \in appended + 1..Len(ExportedRun)
  BY Zenon DEF Exporting!Record, Exporting!readVars, Exporting!fileVars
<1>1. /\ Exporting!TypeOK /\ ExportCheckpoints /\ step # "refused" /\ ExportFile /\ ExportEvents
      /\ ExportObjects /\ ExportWritten
  BY DEF ExportingInv
<1>2. /\ appended \in 0..Len(ExportedRun) /\ appended' \in 0..Len(ExportedRun) /\ appended <= appended'
      /\ appended \in Nat /\ appended' \in Nat /\ appended' \in Exporting!Events
  BY <1>0, <1>1, ExportFacts DEF Exporting!TypeOK
<1>3. Exporting!TypeOK'
  <2>1. 0..appended \subseteq 0..appended'
    BY <1>2
  <2>2. batch \in [to : 0..appended, more : BOOLEAN] /\ resolved \in 0..appended
    BY <1>1, Zenon DEF Exporting!TypeOK
  <2>3. batch \in [to : 0..appended', more : BOOLEAN] /\ resolved \in 0..appended'
    BY <2>1, <2>2
  <2>4. Exporting!Events' = Exporting!Events
    BY DEF Exporting!Events
  <2>5. batch' \in [to : 0..appended', more : BOOLEAN] /\ resolved' \in 0..appended'
    BY <1>0, <2>3, Zenon
  <2> QED BY <1>0, <1>1, <1>2, <2>4, <2>5, Zenon DEF Exporting!TypeOK
<1>4. ExportFile' /\ step' # "refused"
  BY <1>0, <1>1, Zenon DEF ExportFile
<1>5. (HasRead' <=> HasRead) /\ (HasAll' <=> HasAll) /\ (HasWritten' <=> HasWritten)
  BY <1>0, Zenon DEF HasRead, HasAll, HasWritten
<1>6. ExportEvents'
  BY <1>0, <1>1, <1>5 DEF ExportEvents, Exporting!Redacted, Exporting!Kind
<1>7. ExportCheckpoints'
  <2>1. Exporting!Commits(appended) \subseteq Exporting!Commits(appended')
    BY <1>2, ExportFacts, Zenon
  <2>2. 1..appended \subseteq 1..appended'
    BY <1>2
  <2>3. listed \subseteq 1..appended' /\ listed \subseteq Exporting!Commits(appended')
    BY <1>1, <2>1, <2>2, Zenon DEF ExportCheckpoints
  <2>4. listed' \subseteq 1..appended' /\ listed' \subseteq Exporting!Commits(appended)'
    BY <1>0, <2>3, Zenon DEF Exporting!Commits, Exporting!Kind
  <2>5. /\ (HasRead /\ format # "raw" => Exporting!Commits(resolved) \subseteq listed)'
        /\ ((step = "checkpoints" \/ HasRead) /\ format = "html" => Exporting!Row(resolved, "final") # None)'
    BY <1>0, <1>1, <1>5, Zenon
    DEF ExportCheckpoints, Exporting!Commits, Exporting!Row, Exporting!CommittedAs, Exporting!Kind, Exporting!About
  <2> QED BY <2>4, <2>5, Zenon DEF ExportCheckpoints
<1>8. ExportObjects'
  <2>1. BundledObjects' = BundledObjects
    BY <1>0 DEF BundledObjects, Exporting!Kind, Exporting!About
  <2> QED BY <1>0, <1>1, <1>5, <2>1, Zenon DEF ExportObjects
<1>9. ExportWritten'
  <2>1. Exporting!Planned' = Exporting!Planned
    BY <1>0, PlannedKept
  <2> QED BY <1>0, <1>1, <1>5, <2>1, Zenon DEF ExportWritten
<1> QED BY <1>3, <1>4, <1>6, <1>7, <1>8, <1>9, Zenon DEF ExportingInv

\* While nothing has been written, that says all of what has been.
LEMMA NothingWritten ==
  ASSUME written' = <<>>, ~HasWritten'
  PROVE  ExportWritten'
<1>1. <<>> \in Seq(Nat \X Nat) /\ 1..Len(<<>>) = {}
  OBVIOUS
<1>2. written' \in Seq(Nat \X Nat) /\ 1..Len(written') = {}
  BY <1>1, Zenon
<1> QED BY <1>2, Zenon DEF ExportWritten

\* The run is resolved: its row is that of now.
LEMMA ResolveGood ==
  ASSUME Exporting!ExportAssumption, ExportingInv, step = "resolve",
         ~(format = "html" /\ None \in {Exporting!Row(appended, "initial"), Exporting!Row(appended, "final")}),
         step' = IF format = "raw" THEN "page" ELSE "checkpoints", resolved' = appended,
         UNCHANGED <<appended, format, redact, listed, batch, taken, lines, objects, written, temporary, output>>
  PROVE  ExportingInv'
<1>0. /\ format' = format /\ redact' = redact /\ appended' = appended
      /\ listed' = listed /\ batch' = batch /\ taken' = taken /\ lines' = lines /\ objects' = objects
      /\ written' = written /\ temporary' = temporary /\ output' = output
  OBVIOUS
<1>1. /\ Exporting!TypeOK /\ ExportCheckpoints /\ ExportFile /\ ExportEvents /\ ExportObjects /\ ExportWritten
  BY DEF ExportingInv
<1>2. /\ output # "new" /\ temporary = FALSE /\ taken = 0 /\ written = <<>>
  <2>1. temporary \in BOOLEAN
    BY <1>1 DEF Exporting!TypeOK
  <2> QED BY <1>1, <2>1 DEF ExportFile, ExportEvents, ExportWritten
<1>3. /\ step' \in {"page", "checkpoints"} /\ (step' = "page" <=> format = "raw")
      /\ ~HasAll' /\ ~HasWritten' /\ (HasRead' => format = "raw")
  BY <1>0, <1>2 DEF HasAll, HasWritten, HasRead
<1>4. Exporting!TypeOK' /\ step' # "refused"
  <2>1. appended \in 0..appended
    BY <1>1, ExportFacts DEF Exporting!TypeOK
  <2>2. step' # "refused"
    BY <1>3
  <2> QED BY <1>0, <1>1, <1>3, <2>1, <2>2 DEF Exporting!TypeOK, Exporting!Events
<1>5. ExportFile'
  BY <1>0, <1>2, <1>3 DEF ExportFile
<1>6. ExportEvents'
  BY <1>0, <1>1, <1>2, <1>3 DEF ExportEvents, Exporting!Redacted, Exporting!Kind
<1>7. ExportCheckpoints'
  <2>1. listed' \subseteq 1..appended' /\ listed' \subseteq Exporting!Commits(appended)'
    BY <1>0, <1>1, Zenon DEF ExportCheckpoints, Exporting!Commits, Exporting!Kind
  <2>2. format = "html" => Exporting!Row(appended, "final") # None
    BY Zenon
  <2>3. format' = "html" => Exporting!Row(resolved, "final")' # None
    <3>1. Exporting!Row(resolved, "final")' = Exporting!Row(appended, "final")
      BY <1>0 DEF Exporting!Row, Exporting!CommittedAs, Exporting!Commits, Exporting!Kind, Exporting!About
    <3> QED BY <1>0, <2>2, <3>1
  <2>4. ~(HasRead' /\ format' # "raw")
    BY <1>0, <1>3
  <2> QED BY <2>1, <2>3, <2>4, Zenon DEF ExportCheckpoints
<1>8. ExportObjects'
  <2>1. ~(HasRead' /\ format' = "bundle")
    BY <1>0, <1>3
  <2> QED BY <1>0, <1>1, <2>1, Zenon DEF ExportObjects
<1>9. ExportWritten'
  BY <1>0, <1>2, <1>3, NothingWritten
<1> QED BY <1>4, <1>5, <1>6, <1>7, <1>8, <1>9, Zenon DEF ExportingInv

\* The checkpoints are read, no fewer than the run's row tells of.
LEMMA LoadCheckpointsGood ==
  ASSUME Exporting!ExportAssumption, ExportingInv, Exporting!LoadCheckpoints
  PROVE  ExportingInv'
<1>0. /\ format' = format /\ redact' = redact /\ appended' = appended /\ step = "checkpoints" /\ step' = "page"
      /\ resolved' = resolved /\ batch' = batch /\ taken' = taken /\ lines' = lines
      /\ written' = written /\ temporary' = temporary /\ output' = output
      /\ listed' = Exporting!Commits(appended)
      /\ objects' = IF format = "bundle" THEN UNION {Holds[s] : s \in Exporting!Snapshots'} ELSE {}
  BY Zenon DEF Exporting!LoadCheckpoints, Exporting!Goto, Exporting!fileVars
<1>1. /\ Exporting!TypeOK /\ ExportCheckpoints /\ ExportFile /\ ExportEvents /\ ExportObjects /\ ExportWritten
  BY DEF ExportingInv
<1>2. /\ output # "new" /\ temporary = FALSE /\ taken = 0 /\ written = <<>> /\ format # "raw"
  <2>1. temporary \in BOOLEAN
    BY <1>1 DEF Exporting!TypeOK
  <2> QED BY <1>0, <1>1, <2>1 DEF ExportFile, ExportEvents, ExportWritten
<1>3. /\ ~HasAll' /\ ~HasWritten' /\ step' # "refused"
  BY <1>0, <1>2 DEF HasAll, HasWritten
<1>4. /\ appended \in 0..Len(ExportedRun) /\ appended \in Nat
      /\ resolved \in 0..appended /\ resolved \in 0..Len(ExportedRun) /\ resolved <= appended
  <2>1. appended \in Exporting!Events /\ resolved \in 0..appended
    BY <1>1 DEF Exporting!TypeOK
  <2> QED BY <2>1, ExportFacts
<1>5. /\ listed' \subseteq 1..appended /\ listed' \subseteq Exporting!Events
      /\ Exporting!Commits(resolved) \subseteq listed'
  BY <1>0, <1>4, ExportFacts, Zenon
<1>6. Exporting!TypeOK'
  <2>1. step' \in {"resolve", "checkpoints", "page", "events", "create", "write", "install", "sync",
                   "done", "failed", "refused", "crashed"}
    BY <1>0
  <2>2. Exporting!Events' = Exporting!Events
    BY DEF Exporting!Events
  <2> QED BY <1>0, <1>1, <1>5, <2>1, <2>2, Zenon DEF Exporting!TypeOK
<1>7. ExportFile'
  BY <1>0, <1>2 DEF ExportFile
<1>8. ExportEvents'
  BY <1>0, <1>1, <1>2, <1>3 DEF ExportEvents, Exporting!Redacted, Exporting!Kind
<1>9. \A n : Exporting!Commits(n) = {i \in 1..n : ExportedRun[i].kind \in {"initial", "checkpoint", "final"}}
  BY Zenon DEF Exporting!Commits, Exporting!Kind
<1>10. Exporting!Commits(resolved)' = Exporting!Commits(resolved) /\ Exporting!Commits(appended)' = Exporting!Commits(appended)
  BY <1>0, Zenon DEF Exporting!Commits, Exporting!Kind
<1>11. ExportCheckpoints'
  <2>1. Exporting!Row(resolved, "final")' = Exporting!Row(resolved, "final")
    BY <1>0 DEF Exporting!Row, Exporting!CommittedAs, Exporting!Commits, Exporting!Kind, Exporting!About
  <2> QED BY <1>0, <1>1, <1>5, <1>10, <2>1, Zenon DEF ExportCheckpoints
<1>12. ExportObjects'
  <2>1. CASE format = "bundle"
    <3> DEFINE L == {Exporting!About(c) : c \in listed'}
               H == {Holds[Exporting!About(c)] : c \in listed'}
    <3>1. Exporting!Snapshots' = L
      <4>1. Exporting!Snapshots' = (L \cup {Exporting!Row(resolved, "initial"), Exporting!Row(resolved, "final")}) \ {None}
        BY <1>0 DEF Exporting!Snapshots, Exporting!Row, Exporting!CommittedAs, Exporting!Commits, Exporting!Kind, Exporting!About
      <4>2. \A s \in {Exporting!Row(resolved, "initial"), Exporting!Row(resolved, "final")} : s = None \/ s \in L
        <5>1. \A c \in Exporting!Commits(resolved) : Exporting!About(c) \in L
          BY <1>5, Zenon
        <5> HIDE DEF L
        <5> QED BY <5>1, RowCommitted, Zenon
      <4>3. \A s \in L : s # None
        BY <1>0, <1>4, ExportFacts, Zenon
      <4> HIDE DEF L
      <4> QED BY <4>1, <4>2, <4>3, Zenon
    <3>2. {Holds[s] : s \in Exporting!Snapshots'} = H
      BY <3>1, Zenon
    <3>3. objects' = UNION H
      BY <1>0, <2>1, <3>2, Zenon
    <3>4. UNION H \in SUBSET Nat /\ IsFiniteSet(UNION H)
      BY <1>0, <1>4, HeldFinite, Zenon
    <3>5. BundledObjects' = UNION H
      <4>1. 1..taken' = {}
        BY <1>0, <1>2
      <4>2. {Exporting!About(i) : i \in {j \in 1..taken' : Exporting!Kind(j) = "output"
                                                      \/ (Exporting!Kind(j) = "input" /\ ~redact')}} = {}
        BY <4>1, Zenon
      <4>3. BundledObjects' = (UNION H) \cup {Exporting!About(i) : i \in {j \in 1..taken' : Exporting!Kind(j) = "output"
                                                      \/ (Exporting!Kind(j) = "input" /\ ~redact')}}
        BY DEF BundledObjects, Exporting!About, Exporting!Kind
      <4> HIDE DEF H
      <4> QED BY <4>2, <4>3, Zenon
    <3> HIDE DEF H
    <3> QED BY <3>3, <3>4, <3>5, Zenon DEF ExportObjects
  <2>2. CASE format # "bundle"
    BY <1>0, <2>2, FS_EmptySet, Zenon DEF ExportObjects
  <2> QED BY <2>1, <2>2
<1>13. ExportWritten'
  BY <1>0, <1>2, <1>3, NothingWritten
<1> QED BY <1>3, <1>6, <1>7, <1>8, <1>11, <1>12, <1>13, Zenon DEF ExportingInv

\* A page goes on after the last event taken; the last one reaches what is stored.
LEMMA LoadPageGood ==
  ASSUME Exporting!ExportAssumption, ExportingInv, Exporting!LoadPage
  PROVE  ExportingInv'
<1> DEFINE to == IF appended < taken + ExportPage THEN appended ELSE taken + ExportPage
<1>0. /\ format' = format /\ redact' = redact /\ appended' = appended /\ step = "page" /\ step' = "events"
      /\ resolved' = resolved /\ listed' = listed /\ taken' = taken /\ lines' = lines /\ objects' = objects
      /\ written' = written /\ temporary' = temporary /\ output' = output
      /\ batch' = [to |-> to, more |-> appended > taken + ExportPage]
  BY Zenon DEF Exporting!LoadPage, Exporting!Goto, Exporting!fileVars
<1>1. /\ Exporting!TypeOK /\ ExportCheckpoints /\ ExportFile /\ ExportEvents /\ ExportObjects /\ ExportWritten
  BY DEF ExportingInv
<1>2. /\ output # "new" /\ temporary = FALSE /\ written = <<>>
  <2>1. temporary \in BOOLEAN
    BY <1>1 DEF Exporting!TypeOK
  <2> QED BY <1>0, <1>1, <2>1 DEF ExportFile, ExportWritten
<1>3. /\ ~HasAll' /\ ~HasWritten' /\ step' # "refused" /\ HasRead
  BY <1>0, <1>2 DEF HasAll, HasWritten, HasRead
<1>4. /\ appended \in Nat /\ resolved \in Nat /\ resolved <= appended /\ taken \in Nat /\ taken <= appended
  <2>1. appended \in Exporting!Events /\ resolved \in 0..appended
    BY <1>1 DEF Exporting!TypeOK
  <2>2. batch.to \in 0..appended /\ taken \in 0..batch.to
    BY <1>1 DEF Exporting!TypeOK
  <2>3. appended \in Nat
    BY <2>1, ExportFacts
  <2>4. batch.to \in Nat /\ batch.to <= appended
    BY <2>2, <2>3
  <2> QED BY <2>1, <2>2, <2>3, <2>4
<1>5. /\ to \in 0..appended /\ taken \in 0..to /\ (~(appended > taken + ExportPage) => to = appended)
  BY <1>4, ExportFacts
<1> HIDE DEF to
<1>6. batch'.to = to /\ (batch'.more <=> appended > taken + ExportPage)
  BY <1>0
<1>7. Exporting!TypeOK'
  <2>1. step' \in {"resolve", "checkpoints", "page", "events", "create", "write", "install", "sync",
                   "done", "failed", "refused", "crashed"}
    BY <1>0
  <2>2. Exporting!Events' = Exporting!Events
    BY DEF Exporting!Events
  <2>3. batch' \in [to : 0..appended, more : BOOLEAN]
    BY <1>0, <1>5
  <2> QED BY <1>0, <1>1, <1>5, <1>6, <2>1, <2>2, <2>3, Zenon DEF Exporting!TypeOK
<1>8. ExportFile'
  BY <1>0, <1>2 DEF ExportFile
<1>9. ExportEvents'
  <2>1. ~batch'.more => resolved <= batch'.to /\ listed \subseteq 1..batch'.to
    <3>1. listed \subseteq 1..appended
      BY <1>1, Zenon DEF ExportCheckpoints
    <3> QED BY <3>1, <1>4, <1>5, <1>6, Zenon
  <2>2. step' \notin {"resolve", "checkpoints"}
    BY <1>0
  <2> QED BY <1>0, <1>1, <1>3, <2>1, <2>2 DEF ExportEvents, Exporting!Redacted, Exporting!Kind
<1>10. ExportCheckpoints'
  BY <1>0, <1>1, <1>3, Zenon
  DEF ExportCheckpoints, Exporting!Commits, Exporting!Row, Exporting!CommittedAs, Exporting!Kind, Exporting!About
<1>11. ExportObjects'
  <2>1. BundledObjects' = BundledObjects
    BY <1>0 DEF BundledObjects, Exporting!Kind, Exporting!About
  <2> QED BY <1>0, <1>1, <1>3, <2>1, Zenon DEF ExportObjects
<1>12. ExportWritten'
  BY <1>0, <1>2, <1>3, NothingWritten
<1> QED BY <1>3, <1>7, <1>8, <1>9, <1>10, <1>11, <1>12, Zenon DEF ExportingInv

\* z is s with e after it.
Longer(z, s, e, T) ==
  /\ z \in Seq(T) /\ Len(z) = Len(s) + 1 /\ Len(s) \in Nat
  /\ z[Len(s) + 1] = e /\ \A k \in 1..Len(s) : z[k] = s[k]
  /\ z = [k \in 1..(Len(s) + 1) |-> z[k]]

\* One more line.
LEMMA LineAppended ==
  ASSUME NEW T, NEW s \in Seq(T), NEW e \in T
  PROVE  Longer(Append(s, e), s, e, T)
<1>1. /\ Append(s, e) \in Seq(T) /\ Len(Append(s, e)) = Len(s) + 1 /\ Len(s) \in Nat
      /\ Append(s, e)[Len(s) + 1] = e /\ \A k \in 1..Len(s) : Append(s, e)[k] = s[k]
  OBVIOUS
<1> DEFINE a == Append(s, e)
<1> HIDE DEF a
<1>2. a \in Seq(T) /\ Len(a) = Len(s) + 1
  BY <1>1 DEF a
<1>3. a = [k \in 1..(Len(s) + 1) |-> a[k]]
  BY <1>2
<1> QED BY <1>1, <1>3, Zenon DEF a, Longer

\* The lines of an export, of events up to n.
LinesUpTo(s, n) ==
  IF format = "raw"
  THEN /\ s \in Seq([event : 1..n, redacted : BOOLEAN])
       /\ {s[k].event : k \in 1..Len(s)} = {i \in 1..n : Exporting!Kind(i) = "output"}
       /\ \A k, m \in 1..Len(s) : k < m => s[k].event < s[m].event
  ELSE s = [i \in 1..n |-> [event |-> i, redacted |-> Exporting!Redacted(i)]]

\* They stay in order with the next event.
LEMMA NextLine ==
  ASSUME redact \in BOOLEAN, NEW n \in Nat, NEW s, LinesUpTo(s, n)
  PROVE  LinesUpTo(IF format = "raw" /\ Exporting!Kind(n + 1) # "output" THEN s
                   ELSE Append(s, [event |-> n + 1, redacted |-> Exporting!Redacted(n + 1)]), n + 1)
<1> DEFINE e == [event |-> n + 1, redacted |-> Exporting!Redacted(n + 1)]
           a == Append(s, e)
           L == [event : 1..n, redacted : BOOLEAN]
           M == [event : 1..(n + 1), redacted : BOOLEAN]
<1>0. /\ n + 1 \in 1..(n + 1) /\ 1..n \subseteq 1..(n + 1) /\ n + 1 \notin 1..n
      /\ \A i \in 1..(n + 1) : i \in 1..n \/ i = n + 1
  OBVIOUS
<1>1. e \in M /\ e.event = n + 1 /\ L \subseteq M
  <2>1. \A i : Exporting!Redacted(i) \in BOOLEAN
    BY DEF Exporting!Redacted
  <2> QED BY <1>0, <2>1
<1>2. ASSUME format # "raw" PROVE LinesUpTo(a, n + 1)
  <2> DEFINE N == [event : Nat, redacted : BOOLEAN]
  <2>1. s = [i \in 1..n |-> [event |-> i, redacted |-> Exporting!Redacted(i)]]
    BY <1>2, Zenon DEF LinesUpTo
  <2>2. s \in Seq(N) /\ Len(s) = n /\ e \in N
    <3>1. \A i : Exporting!Redacted(i) \in BOOLEAN
      BY DEF Exporting!Redacted
    <3>2. \A i \in 1..n : [event |-> i, redacted |-> Exporting!Redacted(i)] \in N
      BY <3>1
    <3>3. e \in N
      BY <3>1
    <3> HIDE DEF N
    <3> QED BY <2>1, <3>2, <3>3
  <2> HIDE DEF N
  <2>3. /\ a[n + 1] = e /\ (\A k \in 1..n : a[k] = s[k]) /\ a = [k \in 1..(n + 1) |-> a[k]]
    <3>1. Longer(a, s, e, N)
      BY <2>2, LineAppended, Zenon
    <3> HIDE DEF a, e
    <3> QED BY <2>2, <3>1, Zenon DEF Longer
  <2> HIDE DEF a
  <2>4. \A k \in 1..(n + 1) : a[k] = [event |-> k, redacted |-> Exporting!Redacted(k)]
    BY <1>0, <2>1, <2>3, Zenon
  <2>5. a = [k \in 1..(n + 1) |-> [event |-> k, redacted |-> Exporting!Redacted(k)]]
    BY <2>3, <2>4, Zenon
  <2> QED BY <1>2, <2>5, Zenon DEF LinesUpTo
<1>3. ASSUME format = "raw"
      PROVE  /\ s \in Seq(L) /\ s \in Seq(M) /\ Len(s) \in Nat
             /\ {s[k].event : k \in 1..Len(s)} = {i \in 1..n : Exporting!Kind(i) = "output"}
             /\ \A k, m \in 1..Len(s) : k < m => s[k].event < s[m].event
             /\ \A k \in 1..Len(s) : s[k].event \in 1..n
  <2>1. s \in Seq(L)
    BY <1>3, Zenon DEF LinesUpTo
  <2>2. /\ {s[k].event : k \in 1..Len(s)} = {i \in 1..n : Exporting!Kind(i) = "output"}
        /\ \A k, m \in 1..Len(s) : k < m => s[k].event < s[m].event
    BY <1>3, Zenon DEF LinesUpTo
  <2>3. \A k \in 1..Len(s) : s[k].event \in 1..n
    BY <2>2, Zenon
  <2>4. s \in Seq(M) /\ Len(s) \in Nat
    <3> HIDE DEF L, M
    <3> QED BY <1>1, <2>1
  <2> QED BY <2>1, <2>2, <2>3, <2>4, Zenon
<1>4. ASSUME format = "raw", Exporting!Kind(n + 1) # "output" PROVE LinesUpTo(s, n + 1)
  <2>1. {i \in 1..n : Exporting!Kind(i) = "output"} = {i \in 1..(n + 1) : Exporting!Kind(i) = "output"}
    <3>1. \A i \in 1..(n + 1) : Exporting!Kind(i) = "output" => i \in 1..n
      BY <1>0, <1>4, Zenon
    <3>2. \A i \in 1..n : i \in 1..(n + 1)
      BY <1>0
    <3> QED BY <3>1, <3>2, Zenon
  <2> QED BY <1>3, <1>4, <2>1, Zenon DEF LinesUpTo
<1>5. ASSUME format = "raw", Exporting!Kind(n + 1) = "output" PROVE LinesUpTo(a, n + 1)
  <2>0. s \in Seq(M) /\ e \in M
    BY <1>1, <1>3, <1>5, Zenon
  <2> HIDE DEF M
  <2>1. /\ a \in Seq(M) /\ Len(a) = Len(s) + 1 /\ Len(s) \in Nat
        /\ a[Len(s) + 1] = e /\ \A k \in 1..Len(s) : a[k] = s[k]
    <3>1. Longer(a, s, e, M)
      BY <2>0, LineAppended, Zenon
    <3> HIDE DEF a, e
    <3> QED BY <3>1, Zenon DEF Longer
  <2> HIDE DEF a, e
  <2>2. \A k \in 1..Len(a) : k \in 1..Len(s) \/ k = Len(s) + 1
    BY <2>1
  <2>3. Len(s) + 1 \in 1..Len(a) /\ 1..Len(s) \subseteq 1..Len(a)
    BY <2>1
  <2>4. {a[k].event : k \in 1..Len(a)} = {i \in 1..(n + 1) : Exporting!Kind(i) = "output"}
    <3>1. ASSUME NEW k \in 1..Len(a) PROVE a[k].event \in {i \in 1..(n + 1) : Exporting!Kind(i) = "output"}
      <4>1. CASE k = Len(s) + 1
        BY <1>0, <1>1, <1>5, <2>1, <4>1, Zenon
      <4>2. CASE k \in 1..Len(s)
        <5>1. s[k].event \in {i \in 1..n : Exporting!Kind(i) = "output"}
          BY <1>3, <1>5, <4>2, Zenon
        <5> QED BY <1>0, <2>1, <4>2, <5>1, Zenon
      <4> QED BY <2>2, <4>1, <4>2
    <3>2. ASSUME NEW i \in 1..(n + 1), Exporting!Kind(i) = "output" PROVE \E k \in 1..Len(a) : a[k].event = i
      <4>1. CASE i = n + 1
        BY <1>1, <2>1, <2>3, <4>1, Zenon
      <4>2. CASE i \in 1..n
        <5>1. i \in {s[k].event : k \in 1..Len(s)}
          BY <1>3, <1>5, <3>2, <4>2, Zenon
        <5>2. PICK k \in 1..Len(s) : s[k].event = i
          BY <5>1, Zenon
        <5> QED BY <2>1, <2>3, <5>2, Zenon
      <4> QED BY <1>0, <4>1, <4>2
    <3> QED BY <3>1, <3>2, Zenon
  <2>5. ASSUME NEW k \in 1..Len(a), NEW m \in 1..Len(a), k < m PROVE a[k].event < a[m].event
    <3>1. k \in 1..Len(s)
      BY <2>1, <2>5
    <3>2. CASE m \in 1..Len(s)
      BY <1>3, <1>5, <2>1, <2>5, <3>1, <3>2, Zenon
    <3>3. CASE m = Len(s) + 1
      <4>1. a[m].event = n + 1 /\ a[k].event = s[k].event /\ s[k].event \in 1..n
        BY <1>1, <1>3, <1>5, <2>1, <3>1, <3>3, Zenon
      <4> HIDE DEF a
      <4> QED BY <4>1
    <3> QED BY <2>2, <3>2, <3>3
  <2> QED BY <1>5, <2>1, <2>4, <2>5, Zenon DEF LinesUpTo, M
<1> QED
  <2>1. CASE format # "raw"
    BY <1>2, <2>1, Zenon
  <2>2. CASE format = "raw" /\ Exporting!Kind(n + 1) # "output"
    BY <1>4, <2>2, Zenon
  <2>3. CASE format = "raw" /\ Exporting!Kind(n + 1) = "output"
    BY <1>5, <2>3, Zenon
  <2> QED BY <2>1, <2>2, <2>3

\* An event is taken from the page, with its object unless it is left out.
LEMMA TakeEventGood ==
  ASSUME Exporting!ExportAssumption, ExportingInv, Exporting!TakeEvent
  PROVE  ExportingInv'
<1> DEFINE i == taken + 1
           holds == format = "bundle" /\ Exporting!Kind(i) \in {"input", "output"} /\ ~Exporting!Redacted(i)
<1>0. /\ format' = format /\ redact' = redact /\ appended' = appended /\ step = "events" /\ step' = step
      /\ resolved' = resolved /\ listed' = listed /\ batch' = batch /\ taken < batch.to /\ taken' = i
      /\ written' = written /\ temporary' = temporary /\ output' = output
      /\ lines' = IF format = "raw" /\ Exporting!Kind(i) # "output" THEN lines
                  ELSE Append(lines, [event |-> i, redacted |-> Exporting!Redacted(i)])
      /\ objects' = IF holds THEN objects \cup {Exporting!About(i)} ELSE objects
  BY Zenon DEF Exporting!TakeEvent, Exporting!fileVars
<1>1. /\ Exporting!TypeOK /\ ExportCheckpoints /\ ExportFile /\ ExportEvents /\ ExportObjects /\ ExportWritten
  BY DEF ExportingInv
<1>2. /\ output # "new" /\ temporary = FALSE /\ written = <<>>
  <2>1. temporary \in BOOLEAN
    BY <1>1 DEF Exporting!TypeOK
  <2> QED BY <1>0, <1>1, <2>1 DEF ExportFile, ExportWritten
<1>3. /\ ~HasAll' /\ ~HasWritten' /\ step' # "refused" /\ HasRead
  BY <1>0, <1>2 DEF HasAll, HasWritten, HasRead
<1>4. /\ taken \in Nat /\ i \in Nat /\ i \in 0..batch.to /\ i \in Exporting!Events
      /\ redact \in BOOLEAN /\ format \in {"bundle", "html", "raw"}
  <2>1. batch.to \in 0..appended /\ taken \in 0..batch.to /\ appended \in Exporting!Events
    BY <1>1 DEF Exporting!TypeOK
  <2>2. appended \in Nat /\ appended <= Len(ExportedRun) /\ Len(ExportedRun) \in Nat
    BY <2>1, ExportFacts
  <2>3. i \in 1..Len(ExportedRun) /\ taken \in Nat /\ i \in Nat /\ i \in 0..batch.to
    BY <1>0, <2>1, <2>2
  <2> QED BY <1>1, <2>3, ExportFacts, Zenon DEF Exporting!TypeOK
<1>5. Exporting!TypeOK'
  <2>1. Exporting!Events' = Exporting!Events
    BY DEF Exporting!Events
  <2> QED BY <1>0, <1>1, <1>4, <2>1, Zenon DEF Exporting!TypeOK
<1>6. ExportFile'
  BY <1>0, <1>2 DEF ExportFile
<1>7. ExportEvents'
  <2>1. LinesUpTo(lines, taken)
    BY <1>1, Zenon DEF ExportEvents, LinesUpTo
  <2>2. LinesUpTo(lines', taken')
    BY <1>0, <1>4, <2>1, NextLine, Zenon
  <2>3. /\ (IF format = "raw" THEN
               /\ lines \in Seq([event : 1..taken, redacted : BOOLEAN])
               /\ {lines[k].event : k \in 1..Len(lines)} = {l \in 1..taken : Exporting!Kind(l) = "output"}
               /\ \A k, m \in 1..Len(lines) : k < m => lines[k].event < lines[m].event
            ELSE lines = [l \in 1..taken |-> [event |-> l, redacted |-> Exporting!Redacted(l)]])'
    <3> HIDE DEF i
    <3> QED BY <1>0, <2>2 DEF LinesUpTo, Exporting!Redacted, Exporting!Kind
  <2>4. step' = "events" /\ ~batch'.more => resolved' <= batch'.to /\ listed' \subseteq 1..batch'.to
    BY <1>0, <1>1, Zenon DEF ExportEvents
  <2>5. step' \notin {"resolve", "checkpoints"}
    BY <1>0
  <2> QED BY <1>3, <2>3, <2>4, <2>5, Zenon DEF ExportEvents
<1>8. ExportCheckpoints'
  BY <1>0, <1>1, <1>3, Zenon
  DEF ExportCheckpoints, Exporting!Commits, Exporting!Row, Exporting!CommittedAs, Exporting!Kind, Exporting!About
<1>9. ExportObjects'
  <2>1. objects \in SUBSET Nat /\ IsFiniteSet(objects)
    BY <1>1, Zenon DEF ExportObjects
  <2>2. CASE ~holds
    <3>1. objects' = objects
      BY <1>0, <2>2, Zenon
    <3>2. format = "bundle" => BundledObjects' = BundledObjects
      <4>1. SUFFICES ASSUME format = "bundle" PROVE BundledObjects' = BundledObjects
        BY Zenon
      <4> DEFINE C(j) == Exporting!Kind(j) = "output" \/ (Exporting!Kind(j) = "input" /\ ~redact)
      <4>2. ~C(i)
        BY <1>4, <2>2, <4>1 DEF Exporting!Redacted
      <4>3. \A j : j \in 1..(taken + 1) <=> j \in 1..taken \/ j = i
        BY <1>4
      <4>4. \A j : j \in 1..(taken + 1) /\ C(j) <=> j \in 1..taken /\ C(j)
        <5> HIDE DEF C, i
        <5> QED BY <4>2, <4>3, Zenon
      <4>5. {j \in 1..(taken + 1) : C(j)} = {j \in 1..taken : C(j)}
        BY <4>4, Zenon
      <4>6. BundledObjects = (UNION {Holds[Exporting!About(c)] : c \in listed})
                              \cup {Exporting!About(l) : l \in {j \in 1..taken : C(j)}}
        BY Zenon DEF BundledObjects
      <4>7. BundledObjects' = (UNION {Holds[Exporting!About(c)] : c \in listed})
                              \cup {Exporting!About(l) : l \in {j \in 1..(taken + 1) : C(j)}}
        BY <1>0 DEF BundledObjects, Exporting!Kind, Exporting!About
      <4> HIDE DEF C
      <4> QED BY <4>5, <4>6, <4>7, Zenon
    <3> QED BY <1>0, <1>1, <1>3, <2>1, <3>1, <3>2, Zenon DEF ExportObjects
  <2>3. CASE holds
    <3> DEFINE x == Exporting!About(i)
               C(j) == Exporting!Kind(j) = "output" \/ (Exporting!Kind(j) = "input" /\ ~redact)
    <3>1. objects' = objects \cup {x} /\ objects = BundledObjects /\ format = "bundle"
      BY <1>0, <1>1, <1>3, <2>3, Zenon DEF ExportObjects
    <3>2. x \in Nat
      BY <1>4, <2>3, ExportFacts, Zenon
    <3>3. objects' \in SUBSET Nat /\ IsFiniteSet(objects')
      <4> HIDE DEF x
      <4> QED BY <2>1, <3>1, <3>2, FS_AddElement
    <3>4. C(i)
      BY <1>4, <2>3 DEF Exporting!Redacted
    <3>5. \A j : j \in 1..(taken + 1) <=> j \in 1..taken \/ j = i
      BY <1>4
    <3>6. {Exporting!About(l) : l \in {j \in 1..(taken + 1) : C(j)}} =
          {Exporting!About(l) : l \in {j \in 1..taken : C(j)}} \cup {x}
      <4> HIDE DEF C, i
      <4>1. \A j : j \in {l \in 1..(taken + 1) : C(l)} <=> j \in {l \in 1..taken : C(l)} \/ j = i
        BY <3>4, <3>5, Zenon
      <4> QED BY <4>1, Zenon
    <3>7. BundledObjects = (UNION {Holds[Exporting!About(c)] : c \in listed})
                            \cup {Exporting!About(l) : l \in {j \in 1..taken : C(j)}}
      BY Zenon DEF BundledObjects
    <3>8. BundledObjects' = (UNION {Holds[Exporting!About(c)] : c \in listed})
                            \cup {Exporting!About(l) : l \in {j \in 1..(taken + 1) : C(j)}}
      BY <1>0 DEF BundledObjects, Exporting!Kind, Exporting!About
    <3>9. objects' = BundledObjects'
      <4> HIDE DEF C, x
      <4> QED BY <3>1, <3>6, <3>7, <3>8, Zenon
    <3> QED BY <3>3, <3>9, Zenon DEF ExportObjects
  <2> QED BY <2>2, <2>3
<1>10. ExportWritten'
  BY <1>0, <1>2, <1>3, NothingWritten
<1> QED BY <1>3, <1>5, <1>6, <1>7, <1>8, <1>9, <1>10, Zenon DEF ExportingInv

\* The writer takes every entry that it is handed.
LEMMA WriteEntryGood ==
  ASSUME Exporting!ExportAssumption, ExportingInv, Exporting!WriteEntry
  PROVE  ExportingInv'
<1> DEFINE P == Exporting!Planned
           n == Len(written)
<1>0. /\ step = "write" /\ n < Len(P)
      /\ IF n = Exporting!Declared \/ (written # <<>> /\ ~Exporting!Before(written[n], P[n + 1]))
         THEN step' = "refused" /\ UNCHANGED <<appended, format, redact, written>>
         ELSE written' = Append(written, P[n + 1]) /\ UNCHANGED <<appended, format, redact, step>>
      /\ UNCHANGED <<resolved, listed, batch, taken, lines, objects, temporary, output>>
  BY Zenon DEF Exporting!WriteEntry, Exporting!Goto, Exporting!readVars
<1>1. /\ Exporting!TypeOK /\ ExportCheckpoints /\ ExportFile /\ ExportEvents /\ ExportObjects /\ ExportWritten
  BY DEF ExportingInv
<1>2. appended \in 0..Len(ExportedRun) /\ resolved \in 0..appended /\ listed \subseteq Exporting!Commits(appended)
  <2>1. appended \in Exporting!Events /\ resolved \in 0..appended
    BY <1>1 DEF Exporting!TypeOK
  <2> QED BY <1>1, <2>1, ExportFacts DEF ExportCheckpoints
<1>3. /\ P \in Seq(Nat \X Nat) /\ Len(P) = Exporting!Declared
      /\ \A k \in 2..Len(P) : Exporting!Before(P[k - 1], P[k])
  <2>1. Exporting!Snapshots \in SUBSET Nat /\ IsFiniteSet(Exporting!Snapshots)
    BY <1>2, SnapshotsListed, Zenon
  <2>2. objects \in SUBSET Nat /\ IsFiniteSet(objects)
    BY <1>1, Zenon DEF ExportObjects
  <2> QED BY <2>1, <2>2, PlannedInOrder, Zenon
<1>4. /\ written \in Seq(Nat \X Nat) /\ \A k \in 1..n : written[k] = P[k]
  BY <1>1, Zenon DEF ExportWritten
<1> HIDE DEF P
<1>5. n \in Nat /\ Len(P) \in Nat /\ n + 1 \in 1..Len(P) /\ P[n + 1] \in Nat \X Nat
  BY <1>0, <1>3, <1>4
<1>6. written # <<>> => Exporting!Before(written[n], P[n + 1])
  <2>1. SUFFICES ASSUME written # <<>> PROVE Exporting!Before(written[n], P[n + 1])
    BY Zenon
  <2>2. n \in 1..n /\ n + 1 \in 2..Len(P) /\ (n + 1) - 1 = n
    BY <1>4, <1>5, <2>1
  <2> QED BY <1>3, <1>4, <2>2, Zenon
<1>7. n # Exporting!Declared
  BY <1>0, <1>3, <1>5
<1>8. /\ written' = Append(written, P[n + 1]) /\ appended' = appended /\ format' = format /\ redact' = redact
      /\ step' = step /\ resolved' = resolved /\ listed' = listed /\ batch' = batch /\ taken' = taken
      /\ lines' = lines /\ objects' = objects /\ temporary' = temporary /\ output' = output
  BY <1>0, <1>6, <1>7, Zenon
<1> HIDE DEF n
<1>9. (HasRead' <=> HasRead) /\ (HasAll' <=> HasAll) /\ (HasWritten' <=> HasWritten) /\ step' # "refused"
  <2>1. step' # "refused"
    BY <1>0, <1>8
  <2> QED BY <1>8, <2>1, Zenon DEF HasRead, HasAll, HasWritten
<1>10. Exporting!TypeOK' /\ ExportFile'
  BY <1>1, <1>8, Zenon DEF Exporting!TypeOK, ExportFile, Exporting!Events
<1>11. ExportEvents'
  BY <1>1, <1>8, <1>9 DEF ExportEvents, Exporting!Redacted, Exporting!Kind
<1>12. ExportCheckpoints'
  BY <1>1, <1>8, <1>9, Zenon
  DEF ExportCheckpoints, Exporting!Commits, Exporting!Row, Exporting!CommittedAs, Exporting!Kind, Exporting!About
<1>13. ExportObjects'
  <2>1. BundledObjects' = BundledObjects
    BY <1>8 DEF BundledObjects, Exporting!Kind, Exporting!About
  <2> QED BY <1>1, <1>8, <1>9, <2>1, Zenon DEF ExportObjects
<1>14. ExportWritten'
  <2>1. P = Exporting!Planned' /\ P = Exporting!Planned
    <3>1. Exporting!Planned' = Exporting!Planned
      BY <1>8, PlannedKept
    <3> QED BY <3>1 DEF P
  <2>2. ~HasWritten' /\ step' = "write" /\ format' = "bundle"
    <3>1. output # "new"
      BY <1>0, <1>1 DEF ExportFile
    <3>2. step \notin {"install", "sync", "done"}
      BY <1>0
    <3>3. format = "bundle"
      BY <1>0, <1>1, Zenon DEF ExportFile
    <3> QED BY <1>0, <1>8, <1>9, <3>1, <3>2, <3>3, Zenon DEF HasWritten
  <2>3. Longer(written', written, P[n + 1], Nat \X Nat)
    BY <1>4, <1>5, <1>8, LineAppended, Zenon
  <2>4. written' \in Seq(Nat \X Nat) /\ Len(written') = n + 1
        /\ written'[n + 1] = P[n + 1] /\ \A k \in 1..n : written'[k] = P[k]
    BY <1>4, <2>3, Zenon DEF Longer, n
  <2>5. Len(written') <= Len(P)
    BY <1>5, <2>4
  <2>6. \A k \in 1..Len(written') : k \in 1..n \/ k = n + 1
    BY <1>5, <2>4
  <2>7. \A k \in 1..Len(written') : written'[k] = P[k]
    BY <2>4, <2>6, Zenon
  <2>8. step' \notin {"resolve", "checkpoints", "page", "events", "create"}
    BY <2>2
  <2> QED BY <2>1, <2>2, <2>4, <2>5, <2>7, <2>8, Zenon DEF ExportWritten
<1> QED BY <1>9, <1>10, <1>11, <1>12, <1>13, <1>14, Zenon DEF ExportingInv

\* Every step of an export, of the recorder beside it, and every failure.
LEMMA ExportingPreserved ==
  ASSUME Exporting!ExportAssumption, ExportingInv, [Exporting!Next]_(Exporting!vars)
  PROVE  ExportingInv'
<1>1. /\ Exporting!TypeOK /\ ExportCheckpoints /\ ExportFile /\ ExportEvents /\ ExportObjects /\ ExportWritten
      /\ step # "refused"
  BY DEF ExportingInv
<1>2. /\ temporary \in BOOLEAN /\ output \in {"absent", "old", "new"} /\ format \in {"bundle", "html", "raw"}
      /\ format # "bundle" => written = <<>>
      /\ step \in {"resolve", "checkpoints", "page", "events", "create", "write", "install", "sync",
                  "done", "failed", "crashed"}
  <2>1. format # "bundle" => written = <<>>
    BY <1>1, Zenon DEF ExportWritten
  <2> QED BY <1>1, <2>1 DEF Exporting!TypeOK
<1>3. ASSUME Exporting!Fail, output = "new" => step \in {"sync", "done", "failed", "crashed"} /\ format # "raw"
      PROVE  ExportingInv'
  <2>1. /\ UNCHANGED <<appended, format, redact, resolved, listed, batch, taken, lines, objects, written, output>>
        /\ step' = "failed" /\ temporary' = FALSE
    BY <1>3, Zenon DEF Exporting!Fail, Exporting!Goto, Exporting!readVars
  <2>2. ExportFile'
    BY <1>3, <2>1 DEF ExportFile
  <2>3. (HasRead' => HasRead) /\ (HasAll' => HasAll) /\ (HasWritten' => HasWritten)
    BY <2>1 DEF HasRead, HasAll, HasWritten
  <2>4. /\ step' \in {"resolve", "checkpoints", "page", "events", "create", "write", "install", "sync",
                      "done", "failed", "crashed"}
        /\ step' \notin {"resolve", "checkpoints", "events"} /\ step' \notin {"page", "create"}
        /\ temporary' \in BOOLEAN /\ output' \in {"absent", "old", "new"}
    BY <1>2, <2>1
  <2> QED BY <1>2, <2>1, <2>2, <2>3, <2>4, ExportMoves, Zenon
<1>4. output = "new" => step \in {"sync", "done", "failed", "crashed"} /\ format # "raw"
  BY <1>1, Zenon DEF ExportFile
<1>5. CASE Exporting!Record
  BY <1>5, RecordGood
<1>6. CASE Exporting!Resolve
  <2>1. CASE format = "html" /\ None \in {Exporting!Row(appended, "initial"), Exporting!Row(appended, "final")}
    <3>1. Exporting!Fail
      BY <1>6, <2>1, Zenon DEF Exporting!Resolve
    <3> QED BY <1>3, <1>4, <3>1, Zenon
  <2>2. CASE ~(format = "html" /\ None \in {Exporting!Row(appended, "initial"), Exporting!Row(appended, "final")})
    <3>1. /\ step = "resolve" /\ step' = (IF format = "raw" THEN "page" ELSE "checkpoints") /\ resolved' = appended
          /\ UNCHANGED <<appended, format, redact, listed, batch, taken, lines, objects, written, temporary, output>>
      BY <1>6, <2>2, Zenon DEF Exporting!Resolve, Exporting!Goto, Exporting!fileVars
    <3> QED BY <2>2, <3>1, ResolveGood, Zenon
  <2> QED BY <2>1, <2>2
<1>7. CASE Exporting!LoadCheckpoints
  BY <1>7, LoadCheckpointsGood
<1>8. CASE Exporting!LoadPage
  BY <1>8, LoadPageGood
<1>9. CASE Exporting!TakeEvent
  BY <1>9, TakeEventGood
<1>10. CASE Exporting!WriteEntry
  BY <1>10, WriteEntryGood
<1>11. CASE Exporting!EndPage
  <2>1. /\ step = "events" /\ taken = batch.to
        /\ step' = (IF batch.more THEN "page" ELSE IF format = "raw" THEN "done" ELSE "create")
        /\ UNCHANGED <<appended, format, redact, resolved, listed, batch, taken, lines, objects, written,
                      temporary, output>>
    BY <1>11, Zenon DEF Exporting!EndPage, Exporting!Goto, Exporting!readVars, Exporting!fileVars
  <2>2. output # "new" /\ ~temporary /\ written = <<>>
    BY <1>1, <2>1 DEF ExportFile, ExportWritten
  <2>3. /\ step' \in {"page", "done", "create"} /\ (step' = "page" <=> batch.more)
        /\ step' = "done" => format = "raw" /\ ~batch.more
        /\ step' = "create" => format # "raw" /\ ~batch.more
    BY <2>1
  <2>4. ExportFile'
    BY <2>1, <2>2, <2>3 DEF ExportFile
  <2>5. HasRead /\ (HasAll' => ~batch.more) /\ (HasWritten' => format # "bundle")
    BY <2>1, <2>2, <2>3 DEF HasRead, HasAll, HasWritten
  <2>6. /\ step' \in {"resolve", "checkpoints", "page", "events", "create", "write", "install", "sync",
                      "done", "failed", "crashed"}
        /\ step' \notin {"resolve", "checkpoints", "events"}
        /\ temporary' \in BOOLEAN /\ output' \in {"absent", "old", "new"}
    BY <1>2, <2>1, <2>3
  <2> QED BY <1>2, <2>1, <2>4, <2>5, <2>6, ExportMoves, Zenon
<1>12. CASE Exporting!CreateTemporary
  <2>1. /\ step = "create" /\ step' = (IF format = "bundle" THEN "write" ELSE "install") /\ temporary' = TRUE
        /\ UNCHANGED <<appended, format, redact, resolved, listed, batch, taken, lines, objects, written, output>>
    BY <1>12, Zenon DEF Exporting!CreateTemporary, Exporting!Goto, Exporting!readVars
  <2>2. output # "new" /\ format # "raw"
    BY <1>1, <2>1 DEF ExportFile
  <2>3. /\ step' \in {"write", "install"} /\ (step' = "write" <=> format = "bundle")
    BY <2>1
  <2>4. ExportFile'
    BY <2>1, <2>2, <2>3 DEF ExportFile
  <2>5. HasRead /\ HasAll /\ (HasWritten' => format # "bundle")
    BY <2>1, <2>2, <2>3 DEF HasRead, HasAll, HasWritten
  <2>6. /\ step' \in {"resolve", "checkpoints", "page", "events", "create", "write", "install", "sync",
                      "done", "failed", "crashed"}
        /\ step' \notin {"resolve", "checkpoints", "events"} /\ step' \notin {"page", "create"}
        /\ temporary' \in BOOLEAN /\ output' \in {"absent", "old", "new"}
    BY <1>2, <2>1, <2>3
  <2> QED BY <1>2, <2>1, <2>4, <2>5, <2>6, ExportMoves, Zenon
<1>13. CASE Exporting!FinishWriter
  <2>1. /\ step = "write" /\ Len(written) = Len(Exporting!Planned)
        /\ step' = (IF Len(written) = Exporting!Declared THEN "install" ELSE "refused")
        /\ UNCHANGED <<appended, format, redact, resolved, listed, batch, taken, lines, objects, written,
                      temporary, output>>
    BY <1>13, Zenon DEF Exporting!FinishWriter, Exporting!Goto, Exporting!readVars, Exporting!fileVars
  <2>2. output # "new" /\ format = "bundle"
    BY <1>1, <2>1 DEF ExportFile
  <2>3. Exporting!Planned \in Seq(Nat \X Nat) /\ Len(Exporting!Planned) = Exporting!Declared
    <3>1. appended \in 0..Len(ExportedRun) /\ resolved \in 0..appended /\ listed \subseteq Exporting!Commits(appended)
      <4>1. appended \in Exporting!Events /\ resolved \in 0..appended
        BY <1>1 DEF Exporting!TypeOK
      <4> QED BY <1>1, <4>1, ExportFacts DEF ExportCheckpoints
    <3>2. Exporting!Snapshots \in SUBSET Nat /\ IsFiniteSet(Exporting!Snapshots)
      BY <3>1, SnapshotsListed, Zenon
    <3>3. objects \in SUBSET Nat /\ IsFiniteSet(objects)
      BY <1>1, Zenon DEF ExportObjects
    <3> QED BY <3>2, <3>3, PlannedInOrder, Zenon
  <2>4. written = Exporting!Planned
    <3> DEFINE P == Exporting!Planned
    <3>1. written \in Seq(Nat \X Nat) /\ (\A k \in 1..Len(written) : written[k] = P[k])
      BY <1>1, Zenon DEF ExportWritten
    <3>2. P \in Seq(Nat \X Nat) /\ Len(written) = Len(P)
      BY <2>1, <2>3, Zenon
    <3> DEFINE T == Nat \X Nat
    <3>3. written \in Seq(T) /\ P \in Seq(T)
      BY <3>1, <3>2
    <3> HIDE DEF P, T
    <3>4. written = [k \in 1..Len(written) |-> written[k]] /\ P = [k \in 1..Len(P) |-> P[k]]
      BY <3>3
    <3>5. written = P
      BY <3>1, <3>2, <3>4, Zenon
    <3> QED BY <3>5 DEF P
  <2>5. step' = "install"
    BY <2>1, <2>3, Zenon
  <2>6. ExportFile'
    BY <1>1, <2>1, <2>2, <2>5 DEF ExportFile
  <2>7. HasRead /\ HasAll
    BY <2>1 DEF HasRead, HasAll
  <2>8. /\ step' \in {"resolve", "checkpoints", "page", "events", "create", "write", "install", "sync",
                      "done", "failed", "crashed"}
        /\ step' \notin {"resolve", "checkpoints", "events"} /\ step' \notin {"page", "create"}
        /\ temporary' \in BOOLEAN /\ output' \in {"absent", "old", "new"}
    BY <1>2, <2>1, <2>5
  <2> QED BY <1>2, <2>1, <2>4, <2>6, <2>7, <2>8, ExportMoves, Zenon
<1>14. CASE Exporting!Install
  <2>1. /\ step = "install" /\ step' = "sync" /\ temporary' = FALSE /\ output' = "new"
        /\ UNCHANGED <<appended, format, redact, resolved, listed, batch, taken, lines, objects, written>>
    BY <1>14, Zenon DEF Exporting!Install, Exporting!Goto, Exporting!readVars
  <2>2. ExportFile'
    BY <1>1, <2>1 DEF ExportFile
  <2>3. HasRead /\ HasAll /\ HasWritten
    BY <2>1 DEF HasRead, HasAll, HasWritten
  <2>4. /\ step' \in {"resolve", "checkpoints", "page", "events", "create", "write", "install", "sync",
                      "done", "failed", "crashed"}
        /\ step' \notin {"resolve", "checkpoints", "events"} /\ step' \notin {"page", "create"}
        /\ temporary' \in BOOLEAN /\ output' \in {"absent", "old", "new"}
    BY <2>1
  <2> QED BY <1>2, <2>1, <2>2, <2>3, <2>4, ExportMoves, Zenon
<1>15. CASE Exporting!SyncParent
  <2>1. /\ step = "sync" /\ step' = "done"
        /\ UNCHANGED <<appended, format, redact, resolved, listed, batch, taken, lines, objects, written,
                      temporary, output>>
    BY <1>15, Zenon DEF Exporting!SyncParent, Exporting!Goto, Exporting!readVars, Exporting!fileVars
  <2>2. ExportFile'
    BY <1>1, <2>1 DEF ExportFile
  <2>3. HasRead /\ HasAll /\ HasWritten
    BY <2>1 DEF HasRead, HasAll, HasWritten
  <2>4. /\ step' \in {"resolve", "checkpoints", "page", "events", "create", "write", "install", "sync",
                      "done", "failed", "crashed"}
        /\ step' \notin {"resolve", "checkpoints", "events"} /\ step' \notin {"page", "create"}
        /\ temporary' \in BOOLEAN /\ output' \in {"absent", "old", "new"}
    BY <1>2, <2>1
  <2> QED BY <1>2, <2>1, <2>2, <2>3, <2>4, ExportMoves, Zenon
<1>16. CASE Exporting!Fails
  <2>1. Exporting!Fail
    BY <1>16, Zenon DEF Exporting!Fails
  <2> QED BY <1>3, <1>4, <2>1, Zenon
<1>17. CASE Exporting!Crash
  <2>1. /\ step' = "crashed"
        /\ UNCHANGED <<appended, format, redact, resolved, listed, batch, taken, lines, objects, written,
                      temporary, output>>
    BY <1>17, Zenon DEF Exporting!Crash, Exporting!Goto, Exporting!readVars, Exporting!fileVars
  <2>2. ExportFile'
    BY <1>1, <2>1 DEF ExportFile
  <2>3. (HasRead' => HasRead) /\ (HasAll' => HasAll) /\ (HasWritten' => HasWritten)
    BY <2>1 DEF HasRead, HasAll, HasWritten
  <2>4. /\ step' \in {"resolve", "checkpoints", "page", "events", "create", "write", "install", "sync",
                      "done", "failed", "crashed"}
        /\ step' \notin {"resolve", "checkpoints", "events"} /\ step' \notin {"page", "create"}
        /\ temporary' \in BOOLEAN /\ output' \in {"absent", "old", "new"}
    BY <1>2, <2>1
  <2> QED BY <1>2, <2>1, <2>2, <2>3, <2>4, ExportMoves, Zenon
<1>18. CASE UNCHANGED Exporting!vars
  <2>1. /\ UNCHANGED <<appended, format, redact, resolved, listed, batch, taken, lines, objects, written>>
        /\ step' = step /\ temporary' = temporary /\ output' = output
    BY <1>18, Zenon DEF Exporting!vars, Exporting!readVars, Exporting!fileVars
  <2>2. ExportFile'
    BY <1>1, <2>1, Zenon DEF ExportFile
  <2>3. (HasRead' => HasRead) /\ (HasAll' => HasAll) /\ (HasWritten' => HasWritten)
    BY <2>1, Zenon DEF HasRead, HasAll, HasWritten
  <2>4. /\ step' \in {"resolve", "checkpoints", "page", "events", "create", "write", "install", "sync",
                      "done", "failed", "crashed"}
        /\ temporary' \in BOOLEAN /\ output' \in {"absent", "old", "new"}
        /\ step \in {"events", step'}
    BY <1>2, <2>1
  <2> QED BY <1>2, <2>1, <2>2, <2>3, <2>4, ExportMoves, Zenon
<1> QED
  BY <1>5, <1>6, <1>7, <1>8, <1>9, <1>10, <1>11, <1>12, <1>13, <1>14, <1>15, <1>16, <1>17, <1>18
  DEF Exporting!Next

\* What an export that was installed holds.
LEMMA InstalledIsCoherent ==
  ASSUME Exporting!ExportAssumption, ExportingInv, output = "new"
  PROVE  Exporting!Coherent(taken)
<1>1. /\ Exporting!TypeOK /\ ExportCheckpoints /\ ExportFile /\ ExportEvents /\ ExportObjects /\ ExportWritten
  BY DEF ExportingInv
<1>2. format # "raw" /\ HasRead /\ HasAll /\ HasWritten
  BY <1>1, Zenon DEF ExportFile, HasRead, HasAll, HasWritten
<1>3. /\ resolved <= taken /\ listed \subseteq 1..taken
      /\ lines = [i \in 1..taken |-> [event |-> i, redacted |-> Exporting!Redacted(i)]]
  BY <1>1, <1>2, Zenon DEF ExportEvents
<1>4. /\ Exporting!Commits(resolved) \subseteq listed
      /\ format = "html" => Exporting!Row(resolved, "final") # None
  BY <1>1, <1>2, Zenon DEF ExportCheckpoints
<1>5. appended \in 0..Len(ExportedRun) /\ resolved \in 0..appended /\ listed \subseteq Exporting!Commits(appended)
  <2>1. appended \in Exporting!Events /\ resolved \in 0..appended
    BY <1>1 DEF Exporting!TypeOK
  <2> QED BY <1>1, <2>1, ExportFacts DEF ExportCheckpoints
<1>6. ASSUME format = "bundle"
      PROVE  /\ NamesIn(written, 6) = {Exporting!About(c) : c \in listed}
             /\ NamesIn(written, 4) = BundledObjects
  <2>1. /\ Exporting!Snapshots \in SUBSET Nat /\ IsFiniteSet(Exporting!Snapshots)
        /\ Exporting!Snapshots = {Exporting!About(c) : c \in listed}
    BY <1>4, <1>5, SnapshotsListed, Zenon
  <2>2. objects \in SUBSET Nat /\ IsFiniteSet(objects) /\ objects = BundledObjects
    BY <1>1, <1>2, <1>6, Zenon DEF ExportObjects
  <2>3. written = Exporting!Planned
    BY <1>1, <1>2, <1>6, Zenon DEF ExportWritten
  <2>4. NamesIn(Exporting!Planned, 4) = objects /\ NamesIn(Exporting!Planned, 6) = Exporting!Snapshots
    BY <2>1, <2>2, PlannedInOrder, Zenon
  <2> QED BY <2>1, <2>2, <2>3, <2>4, Zenon
<1>7. /\ Exporting!Classes.snapshot = 6 /\ Exporting!Classes.object = 4
  BY DEF Exporting!Classes
<1>8. ASSUME NEW class
      PROVE  {e[2] : e \in {written[k] : k \in {j \in 1..Len(written) : written[j][1] = class}}} =
               NamesIn(written, class)
  BY Zenon DEF NamesIn
<1>9. ASSUME format = "bundle"
      PROVE  LET names(class) ==
                   {e[2] : e \in {written[k] : k \in {j \in 1..Len(written) : written[j][1] = class}}}
             IN /\ names(Exporting!Classes.snapshot) = {Exporting!About(c) : c \in listed}
                /\ names(Exporting!Classes.object) = BundledObjects
  BY <1>6, <1>7, <1>8, <1>9, Zenon
<1> QED BY <1>3, <1>4, <1>9, Zenon DEF Exporting!Coherent, BundledObjects

\* The invariant says all that an export promises.
LEMMA ExportingSuffices ==
  ASSUME Exporting!ExportAssumption, ExportingInv
  PROVE  Exporting!TypeOK /\ Exporting!ExportsHoldTogether
<1>1. Exporting!TypeOK /\ step # "refused" /\ ExportFile /\ ExportEvents
  BY DEF ExportingInv
<1>2. output = "new" => Exporting!Coherent(taken) /\ ~temporary
  BY <1>1, InstalledIsCoherent, Zenon DEF ExportFile
<1>3. temporary => step \in {"write", "install", "crashed"}
  BY <1>1, Zenon DEF ExportFile
<1>4. ASSUME format = "raw"
      PROVE  /\ {lines[k].event : k \in 1..Len(lines)} = {i \in 1..taken : Exporting!Kind(i) = "output"}
             /\ \A k, m \in 1..Len(lines) : k < m => lines[k].event < lines[m].event
             /\ step = "done" => resolved <= taken
  BY <1>1, <1>4, Zenon DEF ExportEvents, HasAll
<1> QED BY <1>1, <1>2, <1>3, <1>4, Zenon DEF Exporting!ExportsHoldTogether

\* However many events the recorder adds between the queries, and wherever the
\* export fails or dies: the writer never refuses what it is handed, an export
\* that was installed holds every event, checkpoint, snapshot and object of one
\* prefix of the run and no object of an input left out, and a raw stream is the
\* output in order: for any run, page size and format, and in any composition.
THEOREM ExportIsCoherent ==
  /\ Exporting!Spec => [](Exporting!TypeOK /\ Exporting!ExportsHoldTogether)
  /\ PartsSpec => []ExportsHoldTogether
<1>1. Exporting!Init => ExportingInv
  BY PartsAssumption, ExportingInit
<1>2. ExportingInv /\ [Exporting!Next]_(Exporting!vars) => ExportingInv'
  BY PartsAssumption, ExportingPreserved
<1>3. ExportingInv => Exporting!TypeOK /\ Exporting!ExportsHoldTogether
  BY PartsAssumption, ExportingSuffices
<1>4. Exporting!Spec => [](Exporting!TypeOK /\ Exporting!ExportsHoldTogether)
  BY <1>1, <1>2, <1>3, PTL DEF Exporting!Spec
<1> DEFINE Inv == part = "exporting" => ExportingInv
<1>5. PartsInit => Inv
  BY <1>1 DEF PartsInit
<1>6. Inv /\ [PartsNext]_partsVars => Inv'
  BY <1>2, OnePart
<1>7. Inv => ExportsHoldTogether
  BY <1>3 DEF ExportsHoldTogether
<1>8. PartsSpec => []ExportsHoldTogether
  <2> HIDE DEF Inv
  <2> QED BY <1>5, <1>6, <1>7, PTL DEF PartsSpec
<1> QED BY <1>4, <1>8
=============================================================================
