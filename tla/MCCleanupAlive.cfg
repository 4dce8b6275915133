\* As MCCleanup.cfg, but OpenProcess or GetExitCodeProcess may fail.
CONSTANTS
  Pids = {p1, p2}
  Temps = {t1, t2}
  Nobody = Nobody
  QueryFails = TRUE
  ReuseInWindow = FALSE
  BriefCopies = TRUE
SPECIFICATION Spec
INVARIANT LiveProfileKept
