------------------------------ MODULE Workflow ------------------------------
(* The orchestrator with its live executor: the turn of a node is a call   *)
(* of the executor's failover chain.                                       *)
(*                                                                         *)
(* LiveTurnExecutor::execute does nothing but complete() and the wrapping  *)
(* of its text, so giving a turn to the executor is the beginning of a     *)
(* call and the turn's outcome is the call's.  The chain belongs to the    *)
(* executor and is called by nobody else.                                  *)
EXTENDS LlmChain, Orchestration

ASSUME WorkflowAssumption == Callers = Runs

vars == <<chainVars, flowVars>>

Init == ChainInit /\ FlowInit

(* execute: the call begins when the orchestrator hands the turn over.     *)
ExecuteTurn(r) == Execute(r) /\ BeginCall(r)

(* The chain answered: the text is wrapped into an object, which is what   *)
(* the contract is verified against.                                       *)
TurnAnswered(r) == call[r].pc = "ok" /\ Delivers(r) /\ Collect(r)

(* The whole chain failed, or the first error that is not retryable.       *)
TurnFailed(r) == call[r].pc \in {"failed", "fatal"} /\ ExecutorFails(r) /\ Collect(r)

Works(r) ==
  \/ Drive(r) /\ UNCHANGED chainVars
  \/ CallStep(r) /\ UNCHANGED flowVars
  \/ ExecuteTurn(r) \/ TurnAnswered(r) \/ TurnFailed(r)

Next ==
  \/ \E r \in Runs : Works(r)
  \/ \E r \in Runs : Starts(r) /\ UNCHANGED chainVars
  \/ Tick /\ UNCHANGED flowVars
  \/ Others /\ UNCHANGED chainVars

Spec == Init /\ [][Next]_vars

(* The future of run_with is polled until it is done, and every request to *)
(* a provider has a timeout, so a run that can go on goes on.  Nobody is   *)
(* obliged to start a run or to edit the board.                            *)
Fairness == \A r \in Runs : WF_vars(Works(r))

FairSpec == Spec /\ Fairness

-----------------------------------------------------------------------------
(* The types of both components, for the callers of the chain are the runs. *)
TypeOK == ChainTypeOK /\ FlowTypeOK

(* A workflow that was started ends: the key laps and both passes over the *)
(* chain are finite, and a failed turn cuts its branch instead of waiting. *)
RunsEnd == \A r \in Runs : ~At(r, "idle") ~> run[r].pc \in Over
=============================================================================
