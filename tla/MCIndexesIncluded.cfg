CONSTANTS
    a = a
    b = b
    Name = {1, 2, 3}
    Table = {t}
    Shape = {btree}
    Column <- MCColumns
    Keys <- MCKeys
    Included <- SomethingIncluded

SPECIFICATION Spec

INVARIANT NoLookupLost
