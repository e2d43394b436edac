--------------------------- MODULE Configuration ----------------------------
(***************************************************************************)
(* Load: the configuration is read from the environment once, before       *)
(* anything starts. Each variable is read in a fixed order, and the first  *)
(* that will not do ends the program.                                      *)
(*                                                                         *)
(* The checks are of the numbers as they are written. What the program     *)
(* goes on with is a number times its unit, and that product is taken in   *)
(* machine words and checked by nobody.                                    *)
(***************************************************************************)
EXTENDS Integers, Sequences, FiniteSetsExt

CONSTANTS
    Unset, Malformed, NaN,      \* no value; not a number; what ParseFloat reads as none
    Postgres, MySQL,            \* the engines there are
    MaxInt,                     \* the largest machine integer
    Second, Hour, Megabyte      \* the units, in nanoseconds and bytes

ASSUME ConfigurationAssumption ==
    /\ MaxInt \in Nat
    /\ Second \in Nat \ {0} /\ Hour \in Nat \ {0} /\ Megabyte \in Nat \ {0}
    /\ 15 * Second <= MaxInt /\ 72 * Hour <= MaxInt /\ 500 * Megabyte <= MaxInt
    /\ {Unset, Malformed, NaN, Postgres, MySQL} \cap Int = {}
    /\ Unset # NaN

(* What a variable can be set to. *)
Text == Int \union {Unset, Malformed, NaN, Postgres, MySQL}

Counts == {"poll interval", "rate", "burst", "retention", "record interval", "sessions", "size"}
Variables == Counts \union {"database url", "engine", "api key"}

(* The order in which Load reads what can be wrong. *)
Order == <<"database url", "engine", "api key", "poll interval", "rate", "burst",
           "retention", "record interval", "sessions", "size">>

Default == [v \in Counts |->
    CASE v = "poll interval" -> 1
      [] v = "rate" -> 5
      [] v = "burst" -> 20
      [] v = "retention" -> 3
      [] v = "record interval" -> 15
      [] v = "sessions" -> 50
      [] v = "size" -> 500]

Unit == [v \in Counts |->
    CASE v \in {"poll interval", "record interval"} -> Second
      [] v = "retention" -> 24 * Hour
      [] v = "size" -> Megabyte
      [] OTHER -> 1]

(* Plausible mistake: zero passes. *)
NotNegative(raw) == raw \in Int /\ raw >= 0

Positive(raw) == raw \in Int /\ raw > 0

(* A comparison with NaN is false, so the check of the rate lets it by. *)
RateAccepted(raw) == raw = NaN \/ Positive(raw)

EngineAccepted(raw) == raw \in {Unset, Postgres, MySQL}

Accepted(v, raw) ==
    CASE v \in {"database url", "api key"} -> raw # Unset
      [] v = "engine" -> EngineAccepted(raw)
      [] v = "rate" -> raw = Unset \/ RateAccepted(raw)
      [] OTHER -> raw = Unset \/ Positive(raw)

(* Integers of the machine wrap round. *)
Wrap(n) == ((n + MaxInt + 1) % (2 * (MaxInt + 1))) - (MaxInt + 1)

Written(v, raw) == IF raw = Unset THEN Default[v] ELSE raw
Loaded(v, raw) == IF v = "rate" THEN Written(v, raw) ELSE Wrap(Written(v, raw) * Unit[v])

Refused(env) == {i \in DOMAIN Order : ~Accepted(Order[i], env[Order[i]])}

Load(env) ==
    IF Refused(env) # {}
    THEN [error |-> Order[Min(Refused(env))]]
    ELSE [error |-> "none",
          engine |-> IF env["engine"] = Unset THEN Postgres ELSE env["engine"],
          count |-> [v \in Counts |-> Loaded(v, env[v])]]

(* What the checks of Load do not see. *)
TooLarge(v, raw) == v # "rate" /\ raw \in Int /\ raw * Unit[v] > MaxInt
Overlooked(env) == {v \in Counts : env[v] = NaN \/ TooLarge(v, env[v])}

(***************************************************************************)
(* A configuration that Load returns meets what the other parts of the     *)
(* program assume of it: every interval, limit and size is positive. A     *)
(* ticker panics on an interval that is not, a retention that is not prunes *)
(* the whole history, and a snapshot trimmed to no session shows nothing.  *)
(* It takes a number whose product overflows, or a rate that is none, to   *)
(* load anything else.                                                     *)
(***************************************************************************)
LoadedIsUsable(env) ==
    Load(env).error = "none" /\ Overlooked(env) = {} =>
        /\ \A v \in Counts : Load(env).count[v] > 0
        /\ Load(env).engine \in {Postgres, MySQL}
=============================================================================
