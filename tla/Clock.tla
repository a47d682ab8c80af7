-------------------------------- MODULE Clock ---------------------------------
(***************************************************************************)
(* std::chrono::system_clock, which the two timed caches share.  It starts *)
(* long after the epoch and is not set back.                               *)
(***************************************************************************)
EXTENDS Naturals

CONSTANTS
  Processors,
  Start, MaxTime,  \* bounds of the clock
  Nobody           \* owns a mutex that is free

ASSUME ClockAssumption ==
  Start \in Nat \ {0} /\ MaxTime \in Nat /\ Start <= MaxTime /\ Nobody \notin Processors

VARIABLES
  now,
  terminated   \* an exception has left a thread

clockVars == <<now, terminated>>

Times == Start..MaxTime

ClockTypeOK == now \in Times /\ terminated \in BOOLEAN

ClockInit == now = Start /\ terminated = FALSE

Tick == now < MaxTime /\ now' = now + 1
==============================================================================
