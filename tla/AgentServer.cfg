CONSTANTS
  Requests = {r1, r2}
  Targets = {t1, t2}
  ProcFiles = 2
  Images = {"netshoot"}
SYMMETRY Symmetry
SPECIFICATION Spec
INVARIANTS TypeOK MountsInOrder DebugSeesLxcfs LxcfsAsked
