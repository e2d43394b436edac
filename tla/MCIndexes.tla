------------------------------ MODULE MCIndexes ------------------------------
(* Four indexes of up to two columns, enough for a chain in which each     *)
(* makes the one before it redundant, with a tie on either rung of it.     *)
EXTENDS DuplicateIndexes

CONSTANTS a, b

MCColumns == {a, b}
MCKeys == {<<a>>, <<b>>, <<a, b>>}
NothingIncluded == {<<>>}
SomethingIncluded == {<<>>, <<b>>}
=============================================================================
