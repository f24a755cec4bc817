SPECIFICATION Spec
CONSTANTS
    c1 = c1
    c2 = c2
    Capture = {c1, c2}
    Faults = {"io", "kill", "damage", "statefail"}
SYMMETRY CaptureSymmetry
INVARIANTS
    ReconciledIsRegistered
    TickTellsRow
