SPECIFICATION Spec
CONSTANTS
    Kinds = {"consumer", "producer", "admin", "mock"}
    Events = {e1}
    Headers = {h1, h2}
    Closures = {f1, f2}
    None = None
SYMMETRY Symmetry
INVARIANTS
    NeverDangling
    
CHECK_DEADLOCK FALSE
