-------------------------- MODULE DuplicateIndexes --------------------------
(***************************************************************************)
(* The advice on redundant indexes (duplicate_index.go, fed from the       *)
(* catalog by the collector of that name) and what becomes of a database   *)
(* whose owner follows it.                                                 *)
(*                                                                         *)
(* A report names every index that another one makes redundant.  Whoever   *)
(* reads it drops what it names in any order, perhaps long after it was    *)
(* fetched, while other indexes come and go: the index that was to cover   *)
(* for a dropped one may be dropped itself, on the advice of the same      *)
(* report or of a later one.                                               *)
(*                                                                         *)
(* The collector reads no operator class, collation or exclusion           *)
(* constraint, and an Index here has none either: indexes that differ in   *)
(* nothing else are one and the same to the code, and nothing is said of   *)
(* the lookups that tell them apart.                                       *)
(***************************************************************************)
EXTENDS Integers, Sequences

CONSTANTS Name,     \* index names; they sort as numbers
          Table,    \* tables
          Shape,    \* access method, and predicate of a partial index
          Column,   \* columns
          Keys,     \* the lists of key columns
          Included  \* the lists of columns an index stores beside its key

ASSUME IndexAssumption ==
    /\ Name \subseteq Int
    /\ Keys \subseteq Seq(Column)
    /\ Included \subseteq Seq(Column)

VARIABLES indexes, \* the indexes of the database
          report,  \* the redundant ones of the last report
          known    \* all there ever were (for the properties only)

vars == <<indexes, report, known>>

(* unique stands for Unique and for Primary, which are treated alike.      *)
Index == [name : Name, table : Table, shape : Shape, unique : BOOLEAN,
          keys : Keys, included : Included]

TypeOK ==
    /\ indexes \subseteq Index
    /\ report \subseteq Index
    /\ known \subseteq Index

Init == indexes = {} /\ report = {} /\ known = {}
-----------------------------------------------------------------------------
(* IndexInfo.Columns: pg_index.indkey lists the included columns after     *)
(* those of the key, and the query does not tell them apart.               *)
Columns(index) == index.keys \o index.included

(* Plausible mistakes in this code, each of which breaks a property below. *)
PreferAnyOther(candidate, other) == TRUE
PreferTheLonger(candidate, other) ==
    Len(Columns(other)) # Len(Columns(candidate)) \/ other.unique
-----------------------------------------------------------------------------
SameShape(candidate, other) ==
    other.table = candidate.table /\ other.shape = candidate.shape

(* The leading columns of other are exactly those of candidate.            *)
ColumnsCovered(candidate, other) ==
    /\ Len(Columns(candidate)) <= Len(Columns(other))
    /\ \A n \in 1..Len(Columns(candidate)) : Columns(other)[n] = Columns(candidate)[n]

(* Of two indexes on the same columns, which one stays.                    *)
PreferOther(candidate, other) ==
    \/ Len(Columns(other)) # Len(Columns(candidate))
    \/ other.unique
    \/ ~candidate.unique /\ other.name < candidate.name

Redundant(candidate, other) ==
    /\ ~candidate.unique
    /\ other.name # candidate.name
    /\ SameShape(candidate, other)
    /\ ColumnsCovered(candidate, other)
    /\ PreferOther(candidate, other)

DetectDuplicateIndexes ==
    {candidate \in indexes : \E other \in indexes : Redundant(candidate, other)}
-----------------------------------------------------------------------------
FetchReport ==
    /\ report' = DetectDuplicateIndexes
    /\ UNCHANGED <<indexes, known>>

(* Someone follows the advice ...                                          *)
Drop(index) ==
    /\ index \in report \cap indexes
    /\ indexes' = indexes \ {index}
    /\ UNCHANGED <<report, known>>

(* ... or creates an index, under a name that was never used.              *)
Create(index) ==
    /\ \A old \in known : old.name # index.name
    /\ indexes' = indexes \cup {index}
    /\ known' = known \cup {index}
    /\ UNCHANGED report

Next ==
    \/ FetchReport
    \/ \E index \in Index : Drop(index) \/ Create(index)

Spec == Init /\ [][Next]_vars
-----------------------------------------------------------------------------
(* A lookup by an index's key columns that the index other can answer.     *)
Answers(other, index) ==
    /\ other.table = index.table /\ other.shape = index.shape
    /\ Len(index.keys) <= Len(other.keys)
    /\ \A n \in 1..Len(index.keys) : other.keys[n] = index.keys[n]

(* "Every lookup A could serve, B could serve too": however stale the      *)
(* reports and in whatever order they are followed, a lookup that some     *)
(* index could answer is answered by one that is left, and no unique       *)
(* index, which is a constraint as well, is ever given up.                 *)
NoLookupLost ==
    \A index \in known :
        IF index.unique THEN index \in indexes ELSE \E other \in indexes : Answers(other, index)

(* The advice is complete: when nothing is reported any more, every index  *)
(* that is left is the only one to answer some lookup, or is a constraint. *)
NothingToSpare ==
    DetectDuplicateIndexes = {} =>
        \A index \in indexes :
            index.unique \/ \A other \in indexes \ {index} : ~Answers(other, index)
=============================================================================
