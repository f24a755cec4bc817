SPECIFICATION Spec
CONSTANTS
    c1 = c1
    c2 = c2
    Capture = {c1}
    Faults = {"kill", "power"}
PROPERTIES
    FirstHalfDurable
