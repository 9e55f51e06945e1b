CONSTANTS
    None = None
    Targets = {target}
    Hosts = {h1}
    Jobs = {j1, j2, j3}
    ExecIds = {e1, e2}
    Terminals = {t1, t2, t3}
    TotalMaxs = {1, 2}
    Limits = {1, 2}
SPECIFICATION Spec
SYMMETRY Symmetry
INVARIANTS TypeOK Exclusive SharedCounts EachHasItsName
PROPERTIES GrowsWithinMax NewJobHarmsNone BusyOnlyWhenFull
\* All the jobs are done.
CHECK_DEADLOCK FALSE
