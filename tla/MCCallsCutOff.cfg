SPECIFICATION Spec
CONSTANTS
  Ann = Ann
  ann = ann
  Nobody = Nobody
  Saving = Saving
  NoLine = NoLine
  Processors = {proc1}
  Names = {Ann, ann}
  to_lower <- MCToLower
  Contents <- MCContents
  enabled_users_read_interval = 1
  access_token_generation_interval = 1
  Runs <- MCRuns
  OneTrack <- MCOneTrack
  NoTrack <- MCNoTrack
  PipeSize = 1
  Start = 2
  MaxTime = 4
  Bounds <- MCBounds
INVARIANTS
  IntactFileGivesItsRate
\* The jobs of the bound are done, or an exception has ended the process.
CHECK_DEADLOCK FALSE
