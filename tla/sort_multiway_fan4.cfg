SPECIFICATION Spec
CONSTANTS
    V = 1
    Programs = {"multiway"}
    MultiwayCallsMade <- FourPartsCalls
INVARIANTS
    Complete
