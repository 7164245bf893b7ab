SPECIFICATION ReviewsSpec
CONSTANTS
    Subject = {s, t}
    Kind = {process_start, self_integrity_change}
    Unsuppressible = {self_integrity_change}
    MaxPerCycle = 1
    MaxFindings = 2
    MaxCommits = 3
    MaxTime = 1
SYMMETRY Symmetry
INVARIANTS
    ReviewsAreRespected
CHECK_DEADLOCK FALSE
