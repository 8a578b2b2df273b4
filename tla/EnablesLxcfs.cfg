CONSTANTS
  Requests = {r1, r2}
  Targets = {t1}
  ProcFiles = 1
  Images = {"netshoot"}
SPECIFICATION Spec
INVARIANT EnablesLxcfs
