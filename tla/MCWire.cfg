SPECIFICATION WireSpec
CONSTANTS
  Inputs <- MCInputs
  GivenTexts <- MCGivenTexts
  Rooms = {0, 1, 2, 3, 4, 5, 7, 8}
  SizeMod = 256
  Messages <- MCMessages
  Languages <- MCLanguages
  HelpText <- MCHelp
  Words <- MCWords
  getFile = getFile
  sendMessage = sendMessage
  Sessions = {getFile, sendMessage}
  WithCallback = {getFile}
  obj1 = obj1
  obj2 = obj2
  obj3 = obj3
  NoThread = NoThread
  Producers = {io1, io2}
  Consumers = {proc1, proc2}
  Objects <- MCObjects
  Batches <- MCBatches
  MaxPushes = 3
  MaxSpurious = 1
INVARIANTS
  TypeOK
  WritesInBounds
  EncodesAsStandard
  RoundTrip
  RefusesSmallBuffersOnly
  RequestTypeOK
  ParamsArrive
  KeyboardOffersEveryLanguage
  SessionTypeOK
  NotUsedAfterDestruction
  QueueTypeOK
  NoSleeperOnWork
PROPERTIES
  RequestPartIsSent
  EveryTurnAdvances
  ImplementsSessionStep
  EverySessionEnds
  ImplementsFifoQueue
  QueueIsDrained
\* A conversion that has been made, or a session that has ended, is over; when
\* every push has been made the consumers sleep in cv_.wait for ever.
CHECK_DEADLOCK FALSE
