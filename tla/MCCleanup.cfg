\* Two processes and two cookie copies; process queries answer, a process id
\* is not handed out again while its directory is being removed, and a copy is
\* read in less than five minutes.
CONSTANTS
  Pids = {p1, p2}
  Temps = {t1, t2}
  Nobody = Nobody
  QueryFails = FALSE
  ReuseInWindow = FALSE
  BriefCopies = TRUE
SPECIFICATION Spec
INVARIANT TypeOK
INVARIANT LiveProfileKept
INVARIANT CopyKept
 
