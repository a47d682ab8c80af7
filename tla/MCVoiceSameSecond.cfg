SPECIFICATION Spec
CONSTANTS
  d1 = d1
  d2 = d2
  d3 = d3
  v1 = v1
  v2 = v2
  v3 = v3
  ann = ann
  bob = bob
  Deliveries = {d1, d2}
  Voice <- MCVoice
  Sender <- MCSender
  Date <- MCSameSecond
  Duration <- MCDuration
  Buffered = {}
  Processors = {proc1}
  IoThreads = {io1}
  None = None
  Empty = Empty
  Garbled = Garbled
  TooLong = TooLong
  NotRecognized = NotRecognized
INVARIANTS
  NoForeignTranscript
\* Every message is answered or dropped in the end, or the process has crashed.
CHECK_DEADLOCK FALSE
