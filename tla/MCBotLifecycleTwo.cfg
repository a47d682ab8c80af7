SPECIFICATION Spec
CONSTANTS
  Processors = {proc1, proc2}
  IoThreads = {io1}
  None = None
  MaxJobs = 1
PROPERTIES
  ShutdownCompletes
\* The process ends: it exits, is terminated, or waits for a signal.
CHECK_DEADLOCK FALSE
