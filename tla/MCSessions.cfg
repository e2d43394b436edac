CONSTANTS
    Session = {s1, s2, s3}
    None = None

SPECIFICATION Spec
SYMMETRY Symmetry

INVARIANTS
    NoInventedWait

PROPERTIES
    QuietDatabaseShownAsItIs
