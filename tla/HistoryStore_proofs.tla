------------------------- MODULE HistoryStore_proofs -------------------------
(***************************************************************************)
(* Proofs about the SQLite history and its pruner, for any retention, caps *)
(* and batch size, and with an append, a failure or a restart between any  *)
(* two statements.                                                         *)
(***************************************************************************)
EXTENDS HistoryStore, FiniteSetTheorems, WellFoundedInduction, TLAPS

PrunerStates == {"idle", "age", "count", "cutoff", "excess",
                 "measure", "shrink", "vacuum", "remeasure"}

(* Ids are never used twice.                                               *)
TableInv ==
    /\ rows \subseteq Row
    /\ IsFiniteSet(rows)
    /\ \A r \in rows : r.id < nextId
    /\ \A q, r \in rows : q.id = r.id => q = r
    /\ nextId \in Nat \ {0} /\ file \in Nat /\ now \in 0..LastTime

(* What is deleted by age is older than the retention, now as well as when *)
(* the pass began; and what is not older than the cutoff are incidents     *)
(* enough.                                                                 *)
Recents == {q \in Incidents : q.at >= cutoff}
PrunerInv ==
    /\ pruner \in PrunerStates
    /\ before \in Int /\ cutoff \in Int
    /\ pruner = "age" => before <= now - Retention
    /\ pruner = "cutoff" => Cardinality(Incidents) > MaxIncidents
    /\ pruner = "excess" => Cardinality(Recents) >= MaxIncidents

(* While a file is being shrunk it is too large, and between a vacuum and  *)
(* the next deletion it holds no free page.                                *)
SizeInv ==
    /\ pruner = "shrink" => file > MaxPages
    /\ vacuumed = TRUE => pruner \in {"shrink", "vacuum", "remeasure"}
    /\ vacuumed = TRUE /\ pruner \in {"shrink", "remeasure"} => file <= Cardinality(rows)

(* The stride was chosen for at least as many rows as there are to read.   *)
ReaderInv ==
    /\ since \in Int /\ stride \in Nat \ {0}
    /\ reader = "periodic" /\ raced # TRUE =>
           Cardinality(InWindow("periodic")) <= MaxPerWindow * stride
    /\ raced # TRUE => Cardinality(periodic) <= MaxPerWindow

HistoryInv == TableInv /\ PrunerInv /\ SizeInv /\ ReaderInv
-----------------------------------------------------------------------------
(* A set of natural numbers that is not empty has a least element, and a   *)
(* greatest one if it is bounded.                                          *)
LEMMA LeastNumber ==
  ASSUME NEW S \in SUBSET Nat, S # {}
  PROVE  \E x \in S : \A y \in S : x <= y
<1> DEFINE Initial == {0..s : s \in S}
<1>1. Initial \subseteq FiniteSubsetsOf(Nat)
  <2> SUFFICES ASSUME NEW s \in S
               PROVE  0..s \in FiniteSubsetsOf(Nat)
    OBVIOUS
  <2>1. s \in Nat /\ 0..s \in SUBSET Nat
    OBVIOUS
  <2>2. IsFiniteSet(0..s)
    BY <2>1, FS_Interval
  <2> QED BY <2>1, <2>2 DEF FiniteSubsetsOf
<1>2. PICK f \in Initial : \A g \in Initial : <<g, f>> \notin StrictSubsetOrdering(Nat)
  <2>1. Initial # {}
    OBVIOUS
  <2> HIDE DEF Initial
  <2> QED BY <1>1, <2>1, FS_StrictSubsetOrderingWellFounded, WFMin
<1>3. PICK x \in S : f = 0..x
  OBVIOUS
<1>4. ASSUME NEW y \in S, y < x
      PROVE  FALSE
  <2>1. 0..y \in Initial /\ 0..y \subseteq 0..x /\ x \in 0..x /\ x \notin 0..y
    BY <1>4
  <2>2. <<0..y, 0..x>> \in StrictSubsetOrdering(Nat)
    BY <2>1 DEF StrictSubsetOrdering
  <2> QED BY <1>2, <1>3, <2>1, <2>2
<1> QED BY <1>4

LEMMA GreatestNumber ==
  ASSUME NEW S \in SUBSET Nat, S # {}, NEW n \in Nat, \A s \in S : s <= n
  PROVE  \E x \in S : \A y \in S : y <= x
<1> DEFINE Gaps == {m \in Nat : \E s \in S : m = n - s}
<1>1. \A s \in S : n - s \in Gaps
  OBVIOUS
<1>2. PICK m \in Gaps : \A k \in Gaps : m <= k
  <2>1. Gaps \in SUBSET Nat /\ Gaps # {}
    BY <1>1
  <2> HIDE DEF Gaps
  <2> QED BY <2>1, LeastNumber
<1>3. PICK x \in S : m = n - x
  OBVIOUS
<1>4. \A y \in S : n - x <= n - y
  BY <1>1, <1>2, <1>3
<1> QED BY <1>4

LEMMA MinIsLeast ==
  ASSUME NEW S \in SUBSET Nat, S # {}
  PROVE  Min(S) \in S /\ \A y \in S : Min(S) <= y
BY LeastNumber DEF Min

LEMMA MaxOfTwo ==
  ASSUME NEW a \in Nat, NEW b \in Nat
  PROVE  /\ Max({a, b}) \in {a, b}
         /\ Max({a, b}) >= a /\ Max({a, b}) >= b
<1>1. \E x \in {a, b} : \A y \in {a, b} : x >= y
  <2>1. CASE a >= b BY <2>1
  <2>2. CASE b >= a BY <2>2
  <2> QED BY <2>1, <2>2
<1> QED BY <1>1 DEF Max

(* A statement deletes only rows that qualify.                             *)
LEMMA BatchIsSubset ==
  ASSUME NEW S, NEW batch \in Batches(S)
  PROVE  batch \subseteq S
BY DEF Batches, kSubset
-----------------------------------------------------------------------------
(* The cutoff of PruneExcessIncidents: there are MaxIncidents that are not *)
(* older.                                                                  *)
LEMMA CutoffSparesEnough ==
  ASSUME TableInv, Cardinality(Incidents) > MaxIncidents
  PROVE  LET c == Min({r.at : r \in MostRecent})
         IN  /\ c \in Nat
             /\ Cardinality({q \in Incidents : q.at >= c}) >= MaxIncidents
<1> DEFINE Newer(r) == {q \in Incidents : q.at > r.at}
           Times == {r.at : r \in MostRecent}
           c == Min(Times)
           Kept == {q \in Incidents : q.at >= c}
<1>1. /\ \A r \in Incidents : r.at \in Nat /\ r.at <= LastTime
      /\ IsFiniteSet(Incidents)
      /\ LastTime \in Nat /\ MaxIncidents \in Nat \ {0}
  <2>1. Incidents \in SUBSET rows
    BY DEF Incidents, OfTrigger
  <2> QED BY <2>1, FS_Subset, HistoryAssumption DEF TableInv, Row
<1>2. ASSUME NEW T \in SUBSET Incidents, T # {}
      PROVE  \E r \in T : \A q \in T : q.at <= r.at
  <2> DEFINE At == {t \in Nat : \E r \in T : t = r.at}
  <2>1. At \in SUBSET Nat /\ At # {} /\ (\A t \in At : t <= LastTime) /\ \A r \in T : r.at \in At
    BY <1>1, <1>2
  <2>2. PICK t \in At : \A u \in At : u <= t
    <3> HIDE DEF At
    <3> QED BY <1>1, <2>1, GreatestNumber
  <2> QED BY <2>1, <2>2
<1>3. Incidents # {}
  BY <1>1, FS_EmptySet
<1>4. PICK newest \in Incidents : \A q \in Incidents : q.at <= newest.at
  BY <1>2, <1>3
<1>5. newest \in MostRecent
  <2>1. Newer(newest) = {}
    BY <1>1, <1>4
  <2> QED BY <1>1, <2>1, FS_EmptySet DEF MostRecent
<1>6. c \in Times /\ c \in Nat /\ \A r \in MostRecent : c <= r.at
  <2>1. Times \in SUBSET Nat /\ Times # {}
    BY <1>1, <1>5 DEF MostRecent
  <2>2. \A r \in MostRecent : r.at \in Times
    OBVIOUS
  <2> HIDE DEF Times
  <2> QED BY <2>1, <2>2, MinIsLeast
<1>7. ASSUME Cardinality(Kept) < MaxIncidents
      PROVE  FALSE
  <2>1. Incidents \ Kept # {}
    <3>1. Kept \subseteq Incidents
      OBVIOUS
    <3>2. Cardinality(Incidents) \in Nat
      BY <1>1, FS_CardinalityType
    <3> HIDE DEF Kept
    <3> QED BY <1>1, <1>7, <3>1, <3>2
  <2>2. PICK r \in Incidents \ Kept : \A q \in Incidents \ Kept : q.at <= r.at
    <3>1. Incidents \ Kept \in SUBSET Incidents
      OBVIOUS
    <3> QED BY <1>2, <2>1, <3>1
  <2>3. Newer(r) = Kept
    BY <1>1, <1>6, <2>2
  <2>4. r \in MostRecent
    BY <1>7, <2>2, <2>3 DEF MostRecent
  <2> QED BY <1>1, <1>6, <2>2, <2>4
<1>8. Cardinality(Kept) \in Nat
  <2>1. Kept \in SUBSET Incidents
    OBVIOUS
  <2> QED BY <1>1, <2>1, FS_Subset, FS_CardinalityType
<1> QED BY <1>1, <1>6, <1>7, <1>8
-----------------------------------------------------------------------------
(* ROW_NUMBER tells the rows of a window apart and counts them from zero.  *)
LEMMA RowNumbersDiffer ==
  ASSUME TableInv
  PROVE  LET S == InWindow("periodic")
         IN  /\ IsFiniteSet(S) /\ Cardinality(S) \in Nat
             /\ \A r \in S : RowNumber(r) \in 0..(Cardinality(S) - 1)
             /\ \A q, r \in S : RowNumber(q) = RowNumber(r) => q = r
<1> DEFINE S == InWindow("periodic")
           Before(q, r) == q.at < r.at \/ (q.at = r.at /\ q.id < r.id)
           Earlier(r) == {q \in S : Before(q, r)}
<1>1. /\ S \in SUBSET rows
      /\ \A r \in S : r.at \in Nat /\ r.id \in Nat
      /\ \A q, r \in S : q.id = r.id => q = r
  BY HistoryAssumption DEF TableInv, Row, InWindow, OfTrigger
<1>2. IsFiniteSet(S) /\ Cardinality(S) \in Nat
  BY <1>1, FS_Subset, FS_CardinalityType DEF TableInv
<1>3. ASSUME NEW r \in S
      PROVE  RowNumber(r) = Cardinality(Earlier(r))
  BY DEF RowNumber
<1>4. ASSUME NEW r \in S
      PROVE  Cardinality(Earlier(r)) \in 0..(Cardinality(S) - 1)
  <2>1. Earlier(r) \in SUBSET (S \ {r})
    BY <1>1
  <2>2. IsFiniteSet(S \ {r}) /\ Cardinality(S \ {r}) = Cardinality(S) - 1
    BY <1>2, FS_RemoveElement
  <2> HIDE DEF Earlier
  <2>3. Cardinality(Earlier(r)) <= Cardinality(S) - 1 /\ IsFiniteSet(Earlier(r))
    BY <2>1, <2>2, FS_Subset
  <2>4. Cardinality(Earlier(r)) \in Nat
    BY <2>3, FS_CardinalityType
  <2> HIDE DEF S
  <2> QED BY <1>2, <2>3, <2>4
<1>5. ASSUME NEW q \in S, NEW r \in S, Before(q, r)
      PROVE  Cardinality(Earlier(q)) # Cardinality(Earlier(r))
  <2>1. Earlier(q) \in SUBSET Earlier(r) /\ q \in Earlier(r) /\ q \notin Earlier(q)
    BY <1>1, <1>5
  <2>2. IsFiniteSet(Earlier(r))
    <3>1. Earlier(r) \in SUBSET S
      OBVIOUS
    <3> QED BY <1>2, <3>1, FS_Subset
  <2> HIDE DEF Earlier
  <2> QED BY <2>1, <2>2, FS_Subset
<1>6. ASSUME NEW q \in S, NEW r \in S, q # r
      PROVE  Before(q, r) \/ Before(r, q)
  BY <1>1, <1>6
<1>7. ASSUME NEW q \in S, NEW r \in S, RowNumber(q) = RowNumber(r)
      PROVE  q = r
  <2> HIDE DEF S, Before, Earlier
  <2> QED BY <1>3, <1>5, <1>6, <1>7
<1>8. \A r \in S : RowNumber(r) \in 0..(Cardinality(S) - 1)
  <2> HIDE DEF S, Earlier
  <2> QED BY <1>3, <1>4
<1> QED BY <1>2, <1>7, <1>8

(* Every stride-th of at most n * stride numbered rows are at most n.      *)
LEMMA EveryStrideth ==
  ASSUME TableInv, NEW s \in Nat \ {0}, NEW n \in Nat \ {0},
         Cardinality(InWindow("periodic")) <= n * s
  PROVE  LET read == {r \in InWindow("periodic") : RowNumber(r) % s = 0}
         IN  Cardinality(read) <= n
<1> DEFINE S == InWindow("periodic")
           read == {r \in S : RowNumber(r) % s = 0}
           place == [r \in read |-> RowNumber(r) \div s]
<1>1. /\ Cardinality(S) \in Nat
      /\ \A r \in S : RowNumber(r) \in 0..(Cardinality(S) - 1)
      /\ \A q, r \in S : RowNumber(q) = RowNumber(r) => q = r
  BY RowNumbersDiffer
<1>2. ASSUME NEW k \in Nat, k < n * s, k % s = 0
      PROVE  k \div s \in 0..(n - 1) /\ k = s * (k \div s)
  <2>1. k \div s \in Nat /\ k = s * (k \div s)
    BY <1>2
  <2>2. ASSUME NEW m \in Nat, m >= n
        PROVE  s * m >= n * s
    BY <2>2
  <2> QED BY <1>2, <2>1, <2>2
<1>3. ASSUME NEW r \in read
      PROVE  place[r] \in 0..(n - 1) /\ RowNumber(r) = s * place[r]
  <2>1. RowNumber(r) \in Nat /\ RowNumber(r) < n * s /\ RowNumber(r) % s = 0
    BY <1>1
  <2> QED BY <1>2, <2>1
<1>4. place \in Injection(read, 0..(n - 1))
  <2>1. place \in [read -> 0..(n - 1)]
    BY <1>3
  <2>2. ASSUME NEW q \in read, NEW r \in read, place[q] = place[r]
        PROVE  q = r
    BY <1>1, <1>3, <2>2
  <2> HIDE DEF place, read
  <2> QED BY <2>1, <2>2 DEF Injection, IsInjective
<1>5. IsFiniteSet(0..(n - 1)) /\ Cardinality(0..(n - 1)) = n
  BY FS_Interval
<1> HIDE DEF place, read
<1>6. Cardinality(read) <= n
  BY <1>4, <1>5, FS_Injection
<1> QED BY <1>6 DEF read, S

(* The stride Recent chooses for a count is large enough for it.           *)
LEMMA StrideSuffices ==
  ASSUME NEW count \in Nat
  PROVE  Stride(count) \in Nat \ {0} /\ count <= MaxPerWindow * Stride(count)
<1> DEFINE m == MaxPerWindow
<1>1. m \in Nat \ {0}
  BY HistoryAssumption
<1>2. CASE count <= m
  BY <1>1, <1>2 DEF Stride
<1>3. CASE count > m
  <2> DEFINE q == (count + m - 1) \div m
  <2>1. q \in Nat /\ count + m - 1 = (m * q) + ((count + m - 1) % m) /\ (count + m - 1) % m <= m - 1
    BY <1>1
  <2>2. count <= m * q
    BY <1>1, <2>1
  <2>3. q # 0
    BY <1>1, <1>3, <2>2
  <2> QED BY <1>3, <2>1, <2>2, <2>3 DEF Stride
<1> QED BY <1>1, <1>2, <1>3
-----------------------------------------------------------------------------
(* A reader that has read nothing yet is given nothing.                    *)
LEMMA NothingRead == Cardinality({}) <= MaxPerWindow
BY FS_EmptySet, HistoryAssumption

LEMMA HistoryInitInv == Init => HistoryInv
<1> SUFFICES ASSUME Init
             PROVE  HistoryInv
  OBVIOUS
<1>1. IsFiniteSet({}) /\ Cardinality({}) = 0
  BY FS_EmptySet
<1>2. TableInv
  BY <1>1, HistoryAssumption DEF Init, TableInv
<1>3. PrunerInv
  BY DEF Init, PrunerInv, PrunerStates
<1>4. SizeInv
  BY DEF Init, SizeInv
<1>5. ReaderInv
  <2>1. reader # "periodic" /\ periodic = {} /\ since = 0 /\ stride = 1
    BY DEF Init
  <2>2. since \in Int /\ stride \in Nat \ {0}
    BY <2>1
  <2>3. Cardinality(periodic) <= MaxPerWindow
    BY <2>1, NothingRead
  <2> QED BY <2>1, <2>2, <2>3 DEF ReaderInv
<1> QED BY <1>2, <1>3, <1>4, <1>5 DEF HistoryInv

(* Counting what a step adds or takes away.                                *)
LEMMA RowsAreFinite ==
  ASSUME TableInv, NEW T \in SUBSET rows
  PROVE  IsFiniteSet(T) /\ Cardinality(T) \in Nat
BY FS_Subset, FS_CardinalityType DEF TableInv

LEMMA AppendInv ==
  ASSUME HistoryInv, NEW t \in Triggers, Append(t)
  PROVE  HistoryInv'
<1> DEFINE new == [id |-> nextId, at |-> now, trigger |-> t]
<1>1. new \in Row
  BY HistoryAssumption DEF Append, HistoryInv, TableInv, Row
<1>2. new \notin rows /\ rows' = rows \cup {new}
  BY DEF Append, HistoryInv, TableInv
<1>3. /\ IsFiniteSet(rows') /\ Cardinality(rows) \in Nat
      /\ Cardinality(rows') = Cardinality(rows) + 1
  BY <1>2, FS_AddElement, FS_CardinalityType DEF HistoryInv, TableInv
<1>4. file' \in Nat /\ file' \in {file, Cardinality(rows) + 1} /\ file' >= file
  BY <1>3, MaxOfTwo DEF Append, HistoryInv, TableInv
<1>5. TableInv'
  <2>1. rows' \subseteq Row /\ IsFiniteSet(rows')
    BY <1>1, <1>2, <1>3 DEF HistoryInv, TableInv
  <2>2. \A r \in rows' : r.id < nextId'
    BY <1>2 DEF Append, HistoryInv, TableInv, Row
  <2>3. \A q, r \in rows' : q.id = r.id => q = r
    BY <1>2 DEF HistoryInv, TableInv, Row
  <2>4. nextId' \in Nat \ {0} /\ now' \in 0..LastTime
    BY DEF Append, HistoryInv, TableInv
  <2> QED BY <1>4, <2>1, <2>2, <2>3, <2>4 DEF TableInv
<1>6. PrunerInv'
  <2>1. /\ Incidents \subseteq Incidents' /\ IsFiniteSet(Incidents')
        /\ Recents \subseteq Recents' /\ IsFiniteSet(Recents')
    <3>1. Incidents' \in SUBSET rows' /\ Recents' \in SUBSET rows'
      BY DEF Recents, Incidents, OfTrigger
    <3>2. Incidents \subseteq Incidents' /\ Recents \subseteq Recents'
      BY <1>2 DEF Append, prunerVars, Recents, Incidents, OfTrigger
    <3> QED BY <1>3, <3>1, <3>2, FS_Subset
  <2>2. /\ Cardinality(Incidents) <= Cardinality(Incidents')
        /\ Cardinality(Recents) <= Cardinality(Recents')
    BY <2>1, FS_Subset
  <2>3. /\ Cardinality(Incidents) \in Nat /\ Cardinality(Incidents') \in Nat
        /\ Cardinality(Recents) \in Nat /\ Cardinality(Recents') \in Nat
    BY <2>1, FS_Subset, FS_CardinalityType
  <2> QED BY <2>2, <2>3, HistoryAssumption DEF Append, prunerVars, HistoryInv, PrunerInv
<1>7. SizeInv'
  BY <1>3, <1>4, HistoryAssumption DEF Append, prunerVars, HistoryInv, TableInv, SizeInv
<1>8. ReaderInv'
  BY DEF Append, HistoryInv, ReaderInv
<1> QED BY <1>5, <1>6, <1>7, <1>8 DEF HistoryInv

LEMMA TimePassesInv == HistoryInv /\ TimePasses => HistoryInv'
<1> SUFFICES ASSUME HistoryInv, TimePasses
             PROVE  HistoryInv'
  OBVIOUS
<1>1. TableInv'
  BY HistoryAssumption DEF TimePasses, HistoryInv, TableInv
<1>2. PrunerInv'
  BY HistoryAssumption DEF TimePasses, prunerVars, HistoryInv, TableInv, PrunerInv,
     Recents, Incidents, OfTrigger
<1>3. SizeInv'
  BY DEF TimePasses, prunerVars, HistoryInv, SizeInv
<1>4. ReaderInv'
  BY DEF TimePasses, readerVars, HistoryInv, ReaderInv, InWindow, OfTrigger
<1> QED BY <1>1, <1>2, <1>3, <1>4 DEF HistoryInv

LEMMA RestartInv == HistoryInv /\ Restart => HistoryInv'
<1> SUFFICES ASSUME HistoryInv, Restart
             PROVE  HistoryInv'
  OBVIOUS
<1>1. TableInv'
  BY DEF Restart, table, HistoryInv, TableInv
<1>2. PrunerInv'
  BY DEF Restart, PrunerInv, PrunerStates
<1>3. SizeInv'
  BY DEF Restart, SizeInv
<1>4. ReaderInv'
  <2>1. reader' # "periodic" /\ periodic' = {} /\ since' = 0 /\ stride' = 1
    BY DEF Restart
  <2>2. since' \in Int /\ stride' \in Nat \ {0}
    BY <2>1
  <2>3. Cardinality(periodic') <= MaxPerWindow
    BY <2>1, NothingRead
  <2> QED BY <2>1, <2>2, <2>3 DEF ReaderInv
<1> QED BY <1>1, <1>2, <1>3, <1>4 DEF HistoryInv
-----------------------------------------------------------------------------
(* A deletion disturbs no more than the size of the table and what is to   *)
(* be read of it, which only shrinks.                                      *)
LEMMA DeleteInv ==
  ASSUME HistoryInv, NEW batch \in SUBSET rows, Delete(batch), UNCHANGED readerVars
  PROVE  TableInv' /\ ReaderInv'
<1>1. rows' \in SUBSET rows
  BY DEF Delete
<1>2. TableInv'
  BY <1>1, FS_Subset DEF Delete, HistoryInv, TableInv
<1>3. /\ InWindow("periodic")' \in SUBSET InWindow("periodic")
      /\ InWindow("periodic") \in SUBSET rows
  BY <1>1 DEF readerVars, InWindow, OfTrigger
<1>4. /\ Cardinality(InWindow("periodic")') <= Cardinality(InWindow("periodic"))
      /\ Cardinality(InWindow("periodic")') \in Nat
      /\ Cardinality(InWindow("periodic")) \in Nat
  BY <1>3, FS_Subset, FS_CardinalityType DEF HistoryInv, TableInv
<1>5. ReaderInv'
  <2> DEFINE n == Cardinality(InWindow("periodic"))
             m == Cardinality(InWindow("periodic")')
             cap == MaxPerWindow * stride
  <2>1. cap' = cap /\ cap \in Nat
    BY HistoryAssumption DEF readerVars, HistoryInv, ReaderInv
  <2>2. reader' = "periodic" /\ raced' # TRUE => m <= cap
    <3> HIDE DEF cap
    <3> QED BY <1>4, <2>1 DEF readerVars, HistoryInv, ReaderInv, cap
  <2> QED BY <2>1, <2>2 DEF readerVars, HistoryInv, ReaderInv
<1> QED BY <1>2, <1>5

LEMMA BeginPassInv == HistoryInv /\ BeginPass => HistoryInv'
<1> SUFFICES ASSUME HistoryInv, BeginPass
             PROVE  HistoryInv'
  OBVIOUS
<1>1. TableInv' /\ ReaderInv'
  BY DEF BeginPass, table, readerVars, HistoryInv, TableInv, ReaderInv, InWindow, OfTrigger
<1>2. PrunerInv'
  BY HistoryAssumption DEF BeginPass, table, HistoryInv, TableInv, PrunerInv, PrunerStates
<1>3. SizeInv'
  BY DEF BeginPass, table, HistoryInv, SizeInv
<1> QED BY <1>1, <1>2, <1>3 DEF HistoryInv

(* A step of the pruner that leaves the table alone leaves the reader so.  *)
LEMMA TableKept ==
  ASSUME HistoryInv, UNCHANGED <<table, readerVars>>
  PROVE  TableInv' /\ ReaderInv'
BY DEF table, readerVars, HistoryInv, TableInv, ReaderInv, InWindow, OfTrigger

LEMMA PruneOlderThanInv == HistoryInv /\ PruneOlderThan => HistoryInv'
<1> SUFFICES ASSUME HistoryInv, PruneOlderThan
             PROVE  HistoryInv'
  OBVIOUS
<1>1. CASE pruner' = pruner
  <2>1. PICK batch \in Batches(Expired) : Delete(batch)
    BY <1>1 DEF PruneOlderThan
  <2>2. batch \in SUBSET rows
    BY <2>1, BatchIsSubset DEF Expired, OfTrigger
  <2>3. TableInv' /\ ReaderInv'
    BY <2>1, <2>2, DeleteInv DEF PruneOlderThan
  <2>4. PrunerInv'
    BY <1>1, <2>1 DEF PruneOlderThan, Delete, HistoryInv, PrunerInv
  <2>5. SizeInv'
    BY <1>1, <2>1 DEF PruneOlderThan, Delete, HistoryInv, SizeInv
  <2> QED BY <2>3, <2>4, <2>5 DEF HistoryInv
<1>2. CASE pruner' # pruner
  <2>1. TableInv' /\ ReaderInv'
    BY <1>2, TableKept DEF PruneOlderThan
  <2>2. PrunerInv'
    BY <1>2 DEF PruneOlderThan, HistoryInv, PrunerInv, PrunerStates
  <2>3. SizeInv'
    BY <1>2 DEF PruneOlderThan, table, HistoryInv, SizeInv
  <2> QED BY <2>1, <2>2, <2>3 DEF HistoryInv
<1> QED BY <1>1, <1>2

LEMMA CountIncidentsInv == HistoryInv /\ CountIncidents => HistoryInv'
<1> SUFFICES ASSUME HistoryInv, CountIncidents
             PROVE  HistoryInv'
  OBVIOUS
<1>1. TableInv' /\ ReaderInv'
  BY TableKept DEF CountIncidents
<1>2. PrunerInv'
  <2>1. Cardinality(Incidents) \in Nat
    BY RowsAreFinite DEF HistoryInv, Incidents, OfTrigger
  <2>2. Incidents' = Incidents
    BY DEF CountIncidents, table, Incidents, OfTrigger
  <2> QED BY <2>1, <2>2, HistoryAssumption
          DEF CountIncidents, HistoryInv, PrunerInv, PrunerStates
<1>3. SizeInv'
  BY DEF CountIncidents, table, HistoryInv, SizeInv
<1> QED BY <1>1, <1>2, <1>3 DEF HistoryInv

LEMMA FindCutoffInv == HistoryInv /\ FindCutoff => HistoryInv'
<1> SUFFICES ASSUME HistoryInv, FindCutoff
             PROVE  HistoryInv'
  OBVIOUS
<1>1. TableInv' /\ ReaderInv'
  BY TableKept DEF FindCutoff
<1>2. PrunerInv'
  <2>1. Cardinality(Incidents) > MaxIncidents
    BY DEF FindCutoff, HistoryInv, PrunerInv
  <2>2. cutoff' \in Nat /\ Cardinality({q \in Incidents : q.at >= cutoff'}) >= MaxIncidents
    BY <2>1, CutoffSparesEnough DEF FindCutoff, HistoryInv
  <2>3. Recents' = {q \in Incidents : q.at >= cutoff'}
    BY DEF FindCutoff, table, Recents, Incidents, OfTrigger
  <2> QED BY <2>2, <2>3 DEF FindCutoff, HistoryInv, PrunerInv, PrunerStates
<1>3. SizeInv'
  BY DEF FindCutoff, table, HistoryInv, SizeInv
<1> QED BY <1>1, <1>2, <1>3 DEF HistoryInv

LEMMA PruneExcessIncidentsInv == HistoryInv /\ PruneExcessIncidents => HistoryInv'
<1> SUFFICES ASSUME HistoryInv, PruneExcessIncidents
             PROVE  HistoryInv'
  OBVIOUS
<1> DEFINE excess == {r \in Incidents : r.at < cutoff}
<1>1. CASE pruner' = pruner
  <2>1. PICK batch \in Batches(excess) : Delete(batch)
    BY <1>1 DEF PruneExcessIncidents
  <2>2. batch \subseteq excess
    BY <2>1, BatchIsSubset
  <2>3. batch \in SUBSET rows
    BY <2>2 DEF Incidents, OfTrigger
  <2>4. TableInv' /\ ReaderInv'
    BY <2>1, <2>3, DeleteInv DEF PruneExcessIncidents
  <2>5. cutoff' = cutoff /\ Recents' = Recents
    <3>1. cutoff' = cutoff /\ rows' = rows \ batch
      BY <1>1, <2>1 DEF PruneExcessIncidents, Delete
    <3>2. \A q \in Recents : q \notin batch
      BY <2>2 DEF Recents, Incidents, OfTrigger, HistoryInv, TableInv, PrunerInv, Row
    <3> QED BY <3>1, <3>2 DEF Recents, Incidents, OfTrigger
  <2>6. PrunerInv'
    BY <1>1, <2>5 DEF PruneExcessIncidents, HistoryInv, PrunerInv
  <2>7. SizeInv'
    BY <1>1, <2>1 DEF PruneExcessIncidents, Delete, HistoryInv, SizeInv
  <2> QED BY <2>4, <2>6, <2>7 DEF HistoryInv
<1>2. CASE pruner' # pruner
  <2>1. TableInv' /\ ReaderInv'
    BY <1>2, TableKept DEF PruneExcessIncidents
  <2>2. PrunerInv'
    BY <1>2 DEF PruneExcessIncidents, HistoryInv, PrunerInv, PrunerStates
  <2>3. SizeInv'
    BY <1>2 DEF PruneExcessIncidents, table, HistoryInv, SizeInv
  <2> QED BY <2>1, <2>2, <2>3 DEF HistoryInv
<1> QED BY <1>1, <1>2
-----------------------------------------------------------------------------
LEMMA MeasureInv == HistoryInv /\ Measure => HistoryInv'
<1> SUFFICES ASSUME HistoryInv, Measure
             PROVE  HistoryInv'
  OBVIOUS
<1>1. TableInv' /\ ReaderInv'
  BY TableKept DEF Measure
<1>2. PrunerInv'
  BY DEF Measure, PassEnds, HistoryInv, PrunerInv, PrunerStates
<1>3. SizeInv'
  BY DEF Measure, PassEnds, table, HistoryInv, SizeInv
<1> QED BY <1>1, <1>2, <1>3 DEF HistoryInv

LEMMA ShrinkInv == HistoryInv /\ Shrink => HistoryInv'
<1> SUFFICES ASSUME HistoryInv, Shrink
             PROVE  HistoryInv'
  OBVIOUS
<1>1. CASE pruner' = "vacuum"
  <2>1. PICK batch \in OldestOf(trigger) : Delete(batch)
    BY <1>1 DEF Shrink, NextTrigger, PassEnds
  <2>2. batch \in SUBSET rows
    BY <2>1, BatchIsSubset DEF OldestOf, OfTrigger
  <2>3. TableInv' /\ ReaderInv'
    BY <2>1, <2>2, DeleteInv DEF Shrink
  <2>4. PrunerInv'
    BY <1>1, <2>1 DEF Shrink, Delete, HistoryInv, PrunerInv, PrunerStates
  <2>5. SizeInv'
    BY <1>1, <2>1 DEF Shrink, Delete, NextTrigger, PassEnds, HistoryInv, SizeInv
  <2> QED BY <2>3, <2>4, <2>5 DEF HistoryInv
<1>2. CASE pruner' # "vacuum"
  <2>1. TableInv' /\ ReaderInv'
    BY <1>2, TableKept DEF Shrink
  <2>2. PrunerInv'
    BY <1>2 DEF Shrink, NextTrigger, PassEnds, HistoryInv, PrunerInv, PrunerStates
  <2>3. SizeInv'
    BY <1>2 DEF Shrink, NextTrigger, PassEnds, table, HistoryInv, SizeInv
  <2> QED BY <2>1, <2>2, <2>3 DEF HistoryInv
<1> QED BY <1>1, <1>2

LEMMA IncrementalVacuumInv == HistoryInv /\ IncrementalVacuum => HistoryInv'
<1> SUFFICES ASSUME HistoryInv, IncrementalVacuum
             PROVE  HistoryInv'
  OBVIOUS
<1>1. file' \in Nat /\ file' = Cardinality(rows) /\ rows' = rows
  BY RowsAreFinite DEF IncrementalVacuum, HistoryInv
<1>2. TableInv'
  BY <1>1 DEF IncrementalVacuum, HistoryInv, TableInv
<1>3. ReaderInv'
  BY DEF IncrementalVacuum, readerVars, HistoryInv, ReaderInv, InWindow, OfTrigger
<1>4. PrunerInv'
  BY DEF IncrementalVacuum, HistoryInv, PrunerInv, PrunerStates
<1>5. SizeInv'
  BY <1>1 DEF IncrementalVacuum, SizeInv, HistoryInv, TableInv
<1> QED BY <1>2, <1>3, <1>4, <1>5 DEF HistoryInv

LEMMA PruneFailsInv == HistoryInv /\ PruneFails => HistoryInv'
<1> SUFFICES ASSUME HistoryInv, PruneFails
             PROVE  HistoryInv'
  OBVIOUS
<1>1. TableInv' /\ ReaderInv'
  BY TableKept DEF PruneFails
<1>2. PrunerInv'
  BY DEF PruneFails, PassEnds, HistoryInv, PrunerInv, PrunerStates
<1>3. SizeInv'
  BY DEF PruneFails, PassEnds, table, HistoryInv, SizeInv
<1> QED BY <1>1, <1>2, <1>3 DEF HistoryInv
-----------------------------------------------------------------------------
LEMMA BeginRecentInv == HistoryInv /\ BeginRecent => HistoryInv'
<1> SUFFICES ASSUME HistoryInv, BeginRecent
             PROVE  HistoryInv'
  OBVIOUS
<1> DEFINE counted == {r \in OfTrigger("periodic") : r.at >= now - Window}
           count == Cardinality(counted)
<1>1. TableInv' /\ PrunerInv' /\ SizeInv'
  BY DEF BeginRecent, table, prunerVars, HistoryInv, TableInv, PrunerInv, SizeInv,
     Recents, Incidents, OfTrigger
<1>2. count \in Nat
  <2>1. counted \in SUBSET rows
    BY DEF OfTrigger
  <2> HIDE DEF counted
  <2> QED BY <2>1, RowsAreFinite DEF HistoryInv
<1>3. stride' = Stride(count) /\ since' = now - Window /\ periodic' = {}
  BY DEF BeginRecent
<1>4. InWindow("periodic")' = counted
  BY DEF BeginRecent, table, InWindow, OfTrigger
<1>5. since' \in Int
  BY <1>3, HistoryAssumption DEF HistoryInv, TableInv
<1> HIDE DEF counted
<1>6. stride' \in Nat \ {0} /\ count <= MaxPerWindow * stride'
  BY <1>2, <1>3, StrideSuffices
<1>7. ReaderInv'
  <2>1. Cardinality(periodic') <= MaxPerWindow
    BY <1>3, NothingRead
  <2>2. Cardinality(InWindow("periodic")') <= MaxPerWindow * stride'
    BY <1>4, <1>6
  <2> QED BY <1>5, <1>6, <2>1, <2>2 DEF ReaderInv
<1> QED BY <1>1, <1>7 DEF HistoryInv

LEMMA ReadPeriodicInv == HistoryInv /\ ReadPeriodic => HistoryInv'
<1> SUFFICES ASSUME HistoryInv, ReadPeriodic
             PROVE  HistoryInv'
  OBVIOUS
<1>1. TableInv' /\ PrunerInv' /\ SizeInv'
  BY DEF ReadPeriodic, table, prunerVars, HistoryInv, TableInv, PrunerInv, SizeInv,
     Recents, Incidents, OfTrigger
<1>2. raced # TRUE => Cardinality(periodic') <= MaxPerWindow
  <2> SUFFICES ASSUME raced # TRUE
               PROVE  Cardinality(periodic') <= MaxPerWindow
    OBVIOUS
  <2>1. Cardinality(InWindow("periodic")) <= MaxPerWindow * stride
    BY DEF ReadPeriodic, HistoryInv, ReaderInv
  <2>2. MaxPerWindow \in Nat \ {0} /\ stride \in Nat \ {0} /\ TableInv
    BY HistoryAssumption DEF HistoryInv, ReaderInv
  <2>3. periodic' = {r \in InWindow("periodic") : RowNumber(r) % stride = 0}
    BY DEF ReadPeriodic
  <2> QED BY <2>1, <2>2, <2>3, EveryStrideth
<1>3. ReaderInv'
  <2>1. /\ since' = since /\ stride' = stride /\ raced' = raced
        /\ reader' # "periodic"
    BY DEF ReadPeriodic
  <2> QED BY <1>2, <2>1 DEF HistoryInv, ReaderInv
<1> QED BY <1>1, <1>3 DEF HistoryInv

LEMMA ReadIncidentsInv == HistoryInv /\ ReadIncidents => HistoryInv'
<1> SUFFICES ASSUME HistoryInv, ReadIncidents
             PROVE  HistoryInv'
  OBVIOUS
<1>1. TableInv' /\ PrunerInv' /\ SizeInv'
  BY DEF ReadIncidents, table, prunerVars, HistoryInv, TableInv, PrunerInv, SizeInv,
     Recents, Incidents, OfTrigger
<1>2. ReaderInv'
  <2>1. reader' # "periodic" /\ periodic' = {} /\ since' = 0 /\ stride' = 1
    BY DEF ReadIncidents
  <2>2. since' \in Int /\ stride' \in Nat \ {0}
    BY <2>1
  <2>3. Cardinality(periodic') <= MaxPerWindow
    BY <2>1, NothingRead
  <2> QED BY <2>1, <2>2, <2>3 DEF ReaderInv
<1> QED BY <1>1, <1>2 DEF HistoryInv

LEMMA StutterInv == HistoryInv /\ UNCHANGED vars => HistoryInv'
<1> SUFFICES ASSUME HistoryInv, UNCHANGED vars
             PROVE  HistoryInv'
  OBVIOUS
<1>1. TableInv' /\ PrunerInv' /\ SizeInv' /\ ReaderInv'
  BY DEF vars, table, prunerVars, readerVars, HistoryInv, TableInv, PrunerInv, SizeInv,
     ReaderInv, InWindow, Recents, Incidents, OfTrigger
<1> QED BY <1>1 DEF HistoryInv

LEMMA HistoryStep == HistoryInv /\ [Next]_vars => HistoryInv'
BY AppendInv, TimePassesInv, RestartInv, BeginPassInv, PruneOlderThanInv,
   CountIncidentsInv, FindCutoffInv, PruneExcessIncidentsInv, MeasureInv, ShrinkInv,
   IncrementalVacuumInv, PruneFailsInv, BeginRecentInv, ReadPeriodicInv,
   ReadIncidentsInv, StutterInv
   DEF Next, Prune, Recent

LEMMA HistorySpecInv == Spec => []HistoryInv
<1>1. Init => HistoryInv
  BY HistoryInitInv
<1>2. HistoryInv /\ [Next]_vars => HistoryInv'
  BY HistoryStep
<1> QED BY <1>1, <1>2, PTL DEF Spec
-----------------------------------------------------------------------------
(* What a replay request is given is bounded by maxPeriodicRowsPerWindow   *)
(* whatever was pruned between its statements, unless a row was appended   *)
(* between them.                                                           *)
THEOREM HistoryWindows == Spec => []WindowBoundedUnlessRaced
<1>1. HistoryInv => WindowBoundedUnlessRaced
  <2> SUFFICES ASSUME ReaderInv, ~raced
               PROVE  Cardinality(periodic) <= MaxPerWindow
    BY DEF HistoryInv, WindowBoundedUnlessRaced, WindowBounded
  <2>1. raced # TRUE
    OBVIOUS
  <2> QED BY <2>1 DEF ReaderInv
<1> QED BY <1>1, HistorySpecInv, PTL
-----------------------------------------------------------------------------
(* Which steps lose rows.                                                  *)
LEMMA OnlyPruningLoses ==
  ASSUME HistoryInv, [Next]_vars, Lost # {}
  PROVE  PruneOlderThan \/ PruneExcessIncidents \/ Shrink
<1>1. rows' # rows /\ ~(rows \subseteq rows')
  BY DEF Lost
<1> QED BY <1>1 DEF Next, Prune, Recent, vars, table, prunerVars, readerVars,
         Append, TimePasses, Restart, BeginPass, CountIncidents, FindCutoff, Measure,
         IncrementalVacuum, PruneFails, BeginRecent, ReadPeriodic, ReadIncidents

LEMMA AgeSpares ==
  ASSUME HistoryInv, PruneOlderThan, NEW r \in Lost
  PROVE  r.trigger = "periodic" /\ r.at < now - Retention
<1>1. PICK batch \in Batches(Expired) : Delete(batch)
  BY DEF PruneOlderThan, Lost, table
<1>2. r \in batch /\ batch \subseteq Expired /\ r \in rows
  BY <1>1, BatchIsSubset DEF Delete, Lost
<1>3. r.trigger = "periodic" /\ r.at < before
  BY <1>2 DEF Expired, OfTrigger
<1>4. before <= now - Retention /\ before \in Int /\ now \in Int /\ r.at \in Int
  BY <1>2, HistoryAssumption DEF PruneOlderThan, HistoryInv, PrunerInv, TableInv, Row
<1> QED BY <1>3, <1>4, HistoryAssumption

LEMMA CountSpares ==
  ASSUME HistoryInv, PruneExcessIncidents, NEW r \in Lost
  PROVE  /\ r.trigger = "incident"
         /\ Cardinality({q \in rows' : q.trigger = "incident" /\ q.at > r.at})
               >= MaxIncidents
<1> DEFINE excess == {x \in Incidents : x.at < cutoff}
           newer == {q \in rows' : q.trigger = "incident" /\ q.at > r.at}
<1>1. PICK batch \in Batches(excess) : Delete(batch)
  BY DEF PruneExcessIncidents, Lost, table
<1>2. batch \subseteq excess
  BY <1>1, BatchIsSubset
<1>3. r \in excess /\ rows' = rows \ batch /\ r \in rows
  BY <1>1, <1>2 DEF Delete, Lost
<1>4. \A q \in rows : q.at \in Int /\ cutoff \in Int
  BY HistoryAssumption DEF HistoryInv, TableInv, PrunerInv, Row
<1>5. Recents \subseteq newer
  <2> SUFFICES ASSUME NEW q \in Recents
               PROVE  q \in newer
    OBVIOUS
  <2>1. q \in rows /\ q.trigger = "incident" /\ q.at >= cutoff
    BY DEF Recents, Incidents, OfTrigger
  <2>2. q \notin batch
    BY <1>2, <1>4, <2>1
  <2>3. q.at > r.at
    BY <1>3, <1>4, <2>1
  <2> QED BY <1>3, <2>1, <2>2, <2>3
<1>6. IsFiniteSet(newer) /\ Cardinality(newer) \in Nat
  <2>1. newer \in SUBSET rows
    BY <1>3
  <2> HIDE DEF newer
  <2> QED BY <2>1, RowsAreFinite DEF HistoryInv
<1>7. Cardinality(Recents) <= Cardinality(newer)
  <2> HIDE DEF newer
  <2> QED BY <1>5, <1>6, FS_Subset
<1>8. Cardinality(Recents) \in Nat /\ Cardinality(Recents) >= MaxIncidents
  <2>1. Recents \in SUBSET rows
    BY DEF Recents, Incidents, OfTrigger
  <2> QED BY <2>1, RowsAreFinite DEF PruneExcessIncidents, HistoryInv, PrunerInv
<1>9. r.trigger = "incident"
  BY <1>3 DEF Incidents, OfTrigger
<1> QED
  <2> HIDE DEF newer
  <2>1. Cardinality(newer) >= MaxIncidents
    BY <1>6, <1>7, <1>8, HistoryAssumption
  <2> QED BY <1>9, <2>1 DEF newer

(* Age and count pruning spare what is retained, in however many batches   *)
(* they delete and whatever is appended, fails or restarts between them.   *)
THEOREM HistoryKeeps == Spec => KeepsWhatIsRetained
<1> DEFINE Kept ==
      \A r \in Lost : pruner # "shrink" =>
          IF r.trigger = "periodic"
          THEN r.at < now - Retention
          ELSE Cardinality({q \in rows' : q.trigger = "incident" /\ q.at > r.at})
                 >= MaxIncidents
<1>1. HistoryInv /\ [Next]_vars => Kept
  <2> SUFFICES ASSUME HistoryInv, [Next]_vars, NEW r \in Lost, pruner # "shrink"
               PROVE  IF r.trigger = "periodic"
                      THEN r.at < now - Retention
                      ELSE Cardinality({q \in rows' : q.trigger = "incident" /\ q.at > r.at})
                             >= MaxIncidents
    OBVIOUS
  <2>1. PruneOlderThan \/ PruneExcessIncidents
    BY OnlyPruningLoses DEF Shrink
  <2> QED BY <2>1, AgeSpares, CountSpares
<1>2. HistoryInv /\ [Next]_vars => [Kept]_vars
  BY <1>1
<1>3. Spec => [][Kept]_vars
  <2> HIDE DEF Kept
  <2> QED BY <1>2, HistorySpecInv, PTL DEF Spec
<1> QED BY <1>3, PTL DEF KeepsWhatIsRetained

(* Once the pruner has vacuumed, it deletes only while the rows that are   *)
(* left are themselves more than the cap allows.                           *)
THEOREM HistoryShrinks == Spec => ShrinksOnlyAsNeeded
<1> DEFINE Needed ==
      Lost # {} /\ pruner = "shrink" /\ vacuumed => Cardinality(rows) > MaxPages
<1>1. HistoryInv => Needed
  <2> SUFFICES ASSUME HistoryInv, pruner = "shrink", vacuumed
               PROVE  Cardinality(rows) > MaxPages
    OBVIOUS
  <2>1. Cardinality(rows) \in Nat /\ file \in Nat
    BY RowsAreFinite DEF HistoryInv, TableInv
  <2>2. file > MaxPages /\ file <= Cardinality(rows)
    BY DEF HistoryInv, SizeInv
  <2> QED BY <2>1, <2>2, HistoryAssumption
<1>2. HistoryInv /\ [Next]_vars => [Needed]_vars
  BY <1>1
<1>3. Spec => [][Needed]_vars
  <2> HIDE DEF Needed
  <2> QED BY <1>2, HistorySpecInv, PTL DEF Spec
<1> QED BY <1>3 DEF ShrinksOnlyAsNeeded
=============================================================================
