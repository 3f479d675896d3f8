-------------------------- MODULE ScanJobContract --------------------------
(***************************************************************************)
(* What a scan job promises to everyone outside the worker: it is worked   *)
(* on at most once, it publishes at most one result or dies without one,   *)
(* and each outside effect happens at most once and only in the phase that *)
(* justifies it: the report e-mail and the follow-up jobs once the result  *)
(* is published, the failure alert once the job is dead.                   *)
(*                                                                         *)
(* Abstract specification: ScanLifecycle implements it, with transactions, *)
(* a queue that redelivers, workers that die and handlers that are lost.   *)
(***************************************************************************)
EXTENDS Naturals

CONSTANTS
  Jobs,
  ResultEffects,   \* effects that tell of a result
  FailureEffects   \* effects that tell of a failure

Effects == ResultEffects \union FailureEffects

VARIABLES
  phase,   \* "absent", "accepted", "working", "published", "done", "dead"
  told     \* how often each effect happened, per job

contractVars == <<phase, told>>

Init ==
  /\ phase = [j \in Jobs |-> "absent"]
  /\ told  = [j \in Jobs |-> [e \in Effects |-> 0]]

\* The phase of j goes from one to another; nothing is said to the outside.
Move(j, from, to) ==
  /\ phase[j] = from
  /\ phase' = [phase EXCEPT ![j] = to]
  /\ UNCHANGED told

Accept(j)  == Move(j, "absent", "accepted")
Claim(j)   == Move(j, "accepted", "working")
Publish(j) == Move(j, "working", "published")
Close(j)   == Move(j, "published", "done")
Die(j)     == Move(j, "working", "dead")

Tell(j, e) ==
  /\ told[j][e] = 0
  /\ e \in ResultEffects  => phase[j] = "published"
  /\ e \in FailureEffects => phase[j] = "dead"
  /\ told' = [told EXCEPT ![j][e] = 1]
  /\ UNCHANGED phase

Next ==
  \E j \in Jobs :
    \/ Accept(j) \/ Claim(j) \/ Publish(j) \/ Close(j) \/ Die(j)
    \/ \E e \in Effects : Tell(j, e)

Spec == Init /\ [][Next]_contractVars
=============================================================================
