SPECIFICATION Spec
CONSTANTS
  Processors = {proc1}
  IoThreads = {io1, io2}
  None = None
  MaxJobs = 3
INVARIANTS
  TypeOK
  NoThreadOnDestroyedObject
  JobsDrainedAtExit
  StopAwaitsItsProcessor
PROPERTIES
  ShutdownCompletes
\* The process ends: it exits, is terminated, or waits for a signal.
CHECK_DEADLOCK FALSE
