SPECIFICATION Spec
CONSTANTS
  Connections = {proc1, proc2}
  Rows = {ann}
  Languages = {ru, en, de}
  Default = ru
  NoRow = NoRow
  NoJob = NoJob
  MaxCommands = 1
  MaxPresses = 2
  MaxVoices = 0
INVARIANTS
  ChoiceIsStored
\* All objects have been handled and the bounds are reached.
CHECK_DEADLOCK FALSE
