----------------------------- MODULE SessionStep ------------------------------
(***************************************************************************)
(* What the rest of the bot takes a session to be: it is started, the      *)
(* service may answer its request, and in a single step it hands that      *)
(* answer to its callback, if it has one, or fails.  VoicePipeline and     *)
(* LanguageMenu use sessions in this form.                                 *)
(***************************************************************************)
EXTENDS Naturals

CONSTANTS Sessions, WithCallback

VARIABLES state, served, called

vars == <<state, served, called>>

Init ==
  /\ state = [s \in Sessions |-> "new"]
  /\ served = [s \in Sessions |-> FALSE]
  /\ called = [s \in Sessions |-> 0]

start(s) ==
  /\ state[s] = "new"
  /\ state' = [state EXCEPT ![s] = "running"]
  /\ UNCHANGED <<served, called>>

\* The service may answer a request whose session has been given up.
serve(s) ==
  /\ state[s] # "new" /\ ~served[s]
  /\ served' = [served EXCEPT ![s] = TRUE]
  /\ UNCHANGED <<state, called>>

answer(s) ==
  /\ state[s] = "running" /\ served[s]
  /\ state' = [state EXCEPT ![s] = "answered"]
  /\ called' = IF s \in WithCallback THEN [called EXCEPT ![s] = @ + 1] ELSE called
  /\ UNCHANGED served

fail(s) ==
  /\ state[s] = "running"
  /\ state' = [state EXCEPT ![s] = "failed"]
  /\ UNCHANGED <<served, called>>

Next == \E s \in Sessions : start(s) \/ serve(s) \/ answer(s) \/ fail(s)

Spec == Init /\ [][Next]_vars
==============================================================================
