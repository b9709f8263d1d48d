CONSTANTS
  Thread = {t1, t2}
  Path <- MCPath
  Request = {}
  Idle <- NoCall
  Initially <- MCInitially
  Fresh <- Content
  Nil = Nil
  Value = {v1}
  Dir = Dir
  Jobs <- MCJobs
SPECIFICATION Spec
SYMMETRY Threads
CHECK_DEADLOCK FALSE
INVARIANT TypeOK
INVARIANT PutTookEffect
INVARIANT EmbedAllReaches
INVARIANT NotFoundMeansRemoved
PROPERTY FilesSurvive
