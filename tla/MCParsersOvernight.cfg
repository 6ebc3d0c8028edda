\* A report that grows while the overnight loop runs.
SPECIFICATION OvernightSpec
INVARIANTS NoRaceTwice
CHECK_DEADLOCK FALSE
