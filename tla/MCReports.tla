------------------------------ MODULE MCReports ------------------------------
(* The inputs of Reports, and beside them queries to redact.               *)
EXTENDS Redaction, Reports

(* A query is written of one literal or name of each shape.               *)
MCSymbols == {"0", "1", "a", "b", "e", "x", "o", "w", "_", "$", "'", ".", "+", "-", " "}
MCLiterals ==
    {<<"'", "w", "'">>,                                 \* 's'
     <<"'", "1", "'", "'", "w", "'">>,                  \* '1''s'
     <<"'", "'", "'", "'">>,                            \* ''''
     <<"'", "$", "$", " ", "'">>,                       \* '$$ '
     <<"e", "'", "w", "'">>,                            \* e's'
     <<"x", "'", "1", "a", "'">>,                       \* x'1a'
     <<"$", "$", "w", "'", "$", "$">>,                  \* $$s'$$
     <<"$", "w", "$", "$", "$", "1", "$", "w", "$">>,   \* $w$$$1$w$
     <<"1">>, <<"0">>,
     <<"1", ".", "1">>, <<"1", "_", "1">>,
     <<"0", "x", "1", "a">>, <<"0", "b", "_", "1">>,
     <<"1", "e", "1">>, <<"1", "e", "-", "1">>}
MCOthers ==
    {<<"$", "1">>, <<"w">>, <<"e">>, <<"w", "1">>, <<"e", "_", "1">>, <<"w", ".", "x">>}
MCGaps == {<<"-">>, <<" ", "-">>}

(* A working environment with any two variables changed. In the small word *)
(* 205 seconds, 9 days and 512 megabytes overflow.                         *)
Working == [v \in Variables |-> IF v \in {"database url", "api key"} THEN Malformed ELSE Unset]
Raw(v) ==
    CASE v \in {"database url", "api key"} -> {Unset, Malformed}
      [] v = "engine" -> {Unset, Malformed, Postgres, MySQL}
      [] OTHER -> {Unset, Malformed, NaN, -1, 0, 1, 8, 9, 204, 205, 511, 512, MaxInt}
Environment(v, w) ==
    {[Working EXCEPT ![v] = p, ![w] = q] : p \in Raw(v), q \in Raw(w)}
MCEnvironments == UNION {Environment(v, w) : v \in Variables, w \in Variables}

(* math.Log2 to three places. At 1500 sequential scans the fraction tells: *)
(* with 50 index scans the strength is 10.2, with 99 it is 9.9.            *)
MCLog2 ==
    [n \in {1, 2, 64, 128, 1024, 1501, 2048, 4096, 65536} |->
        CASE n = 1 -> 0 [] n = 2 -> 1000 [] n = 64 -> 6000 [] n = 128 -> 7000
          [] n = 1024 -> 10000 [] n = 1501 -> 10551 [] n = 2048 -> 11000
          [] n = 4096 -> 12000 [] n = 65536 -> 16000]

MCRows == [kind \in Kinds |->
    CASE kind = "function" -> [calls : {0, 99, 100, 200}, selfTime : {0, 499, 500, 999, 1000, 2000}]
      [] kind = "physical io" -> [reads : {0, 999, 1000, 1001}]
      [] kind = "unused index" -> [scans : {0, 50, 51}, size : {1, 2, 3}, age : {3599, 3600}]
      [] kind = "vacuum" -> [live : {0, 999, 1000}, dead : {0, 249, 250, 251, 5000}]
      [] kind = "sequence" -> [max : {-1, 0, 1, 127}, current : {0, 1, 95, 96, 127}]
      [] kind = "checkpoint" -> [scheduled : {0, 1, 9, 10}, requested : {0, 1, 2}]
      [] kind = "saturation" -> [max : {0, 10}, active : 0..10]
      [] kind = "pagination" -> [calls : {0, 99, 100}, mean : {0, 4, 5, 6}, deviation : {0, 5, 6, 7},
                                 rows : {0, 20000, 20001}]
      [] kind = "candidate" -> [rows : {999, 1000, 5000}, idxScan : {0, 1, 50, 99, 1000, 40000},
                                seqScan : SeqScans,
                                distinct : {-100, -1, 0, 1, 19, 20}]
      [] OTHER -> [measure : {0, 4, 5, 59, 60, 99, 100, 299, 300, 599, 600, 1023, 1024}]]

vars == <<input, redactionVars>>

Init == ReportsInit /\ RedactionInit
Next ==
    \/ query = <<>> /\ mode = "writing" /\ ReportsNext /\ UNCHANGED redactionVars
    \/ input.of = "nothing" /\ RedactionNext /\ UNCHANGED input
Spec == Init /\ [][Next]_vars
=============================================================================
