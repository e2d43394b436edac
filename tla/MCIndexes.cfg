CONSTANTS
    a = a
    b = b
    Name = {1, 2, 3, 4}
    Table = {t}
    Shape = {btree, partial}
    Column <- MCColumns
    Keys <- MCKeys
    Included <- NothingIncluded

SPECIFICATION Spec

INVARIANTS
    NoLookupLost
    NothingToSpare
