------------------------------- MODULE Reports -------------------------------
(***************************************************************************)
(* What pgscope computes without keeping any state, over the inputs it may *)
(* meet: an environment to load, a row that gets worse, and a catalog of   *)
(* which a query reads the top.  A behavior takes one input.               *)
(***************************************************************************)
EXTENDS Configuration, Advisories

CONSTANTS Environments, \* the environments to load
          Rows,         \* the rows of each kind to judge
          Object        \* what a catalog describes: indexes, functions

ASSUME ReportsAssumption ==
    /\ Environments \subseteq [Variables -> Text]
    /\ \A kind \in Kinds : Rows[kind] \subseteq RowOf(kind)
    /\ IsFiniteSet(Object)

VARIABLE input

(* The statistics of one database have one age.                            *)
OfOneDatabase(kind, catalog) ==
    kind = "unused index" => \A x, y \in DOMAIN catalog : catalog[x].age = catalog[y].age

ReportsInit == input = [of |-> "nothing"]

LoadEnvironment ==
    /\ input.of = "nothing"
    /\ \E env \in Environments : input' = [of |-> "environment", env |-> env]

Judge ==
    /\ input.of = "nothing"
    /\ \E kind \in Kinds : \E row, worse \in Rows[kind] :
          /\ Worse(kind, row, worse)
          /\ input' = [of |-> "row", kind |-> kind, row |-> row, worse |-> worse]

Read ==
    /\ input.of = "nothing"
    /\ \E kind \in Aligned : \E catalog \in [Object -> Rows[kind]] :
          /\ OfOneDatabase(kind, catalog)
          /\ input' = [of |-> "catalog", kind |-> kind, catalog |-> catalog]

ReportsNext == LoadEnvironment \/ Judge \/ Read

ReportsSpec == ReportsInit /\ [][ReportsNext]_input
-----------------------------------------------------------------------------
(* What Load returns is usable: see LoadedIsUsable.                        *)
ConfigurationIsUsable == input.of = "environment" => LoadedIsUsable(input.env)

(* An advisory outlives its worsening: see WorseIsStillReported.           *)
WorseStaysReported ==
    input.of = "row" => WorseIsStillReported(input.kind, input.row, input.worse)

(* A LIMIT crowds no advisory out: see NothingIsCrowdedOut.                *)
NothingCrowdedOut ==
    input.of = "catalog" => NothingIsCrowdedOut(input.kind, input.catalog)
=============================================================================
