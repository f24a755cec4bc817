SPECIFICATION Spec
CONSTANTS
    c1 = c1
    c2 = c2
    Capture = {c1, c2}
    Faults = {"power", "statefail"}
SYMMETRY CaptureSymmetry
INVARIANTS
    NoOrphanPayload
PROPERTIES
    StoredAtOnce
    FirstHalfDurable
