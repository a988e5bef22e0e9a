--------------------------- MODULE Workflow_proofs ---------------------------
(***************************************************************************)
(* The workflow implements both of its components: a behaviour of the      *)
(* orchestrator with its executor is one of the chain and one of the       *)
(* orchestrator alone, so what was proved of each holds of the two.        *)
(***************************************************************************)
EXTENDS Workflow, LlmChain_proofs, Orchestration_proofs

\* Every step of the workflow is a step of the chain, or none of it.
THEOREM ImplementsChain == Spec => ChainSpec
<1>1. Init => ChainInit
  BY DEF Init
<1>2. [Next]_vars => [ChainNext]_chainVars
  <2> SUFFICES ASSUME [Next]_vars PROVE [ChainNext]_chainVars
    OBVIOUS
  <2>1. ASSUME NEW r \in Runs, Works(r) PROVE [ChainNext]_chainVars
    BY <2>1, WorkflowAssumption
    DEF Works, ChainNext, ExecuteTurn, TurnAnswered, TurnFailed
  <2>2. ASSUME Tick PROVE ChainNext
    BY <2>2 DEF ChainNext
  <2> QED BY <2>1, <2>2 DEF Next, vars
<1> QED BY <1>1, <1>2, PTL DEF Spec, ChainSpec

\* Every step of the workflow is a step of the orchestrator, or none of it.
THEOREM ImplementsFlow == Spec => FlowSpec
<1>1. Init => FlowInit
  BY DEF Init
<1>2. [Next]_vars => [FlowNext]_flowVars
  <2> SUFFICES ASSUME [Next]_vars PROVE [FlowNext]_flowVars
    OBVIOUS
  <2>1. ASSUME NEW r \in Runs, Works(r) PROVE [FlowNext]_flowVars
    BY <2>1 DEF Works, FlowNext, ExecuteTurn, TurnAnswered, TurnFailed
  <2>2. ASSUME NEW r \in Runs, Starts(r) PROVE FlowNext
    BY <2>2 DEF FlowNext
  <2>3. ASSUME Others PROVE FlowNext
    BY <2>3 DEF FlowNext
  <2> QED BY <2>1, <2>2, <2>3 DEF Next, vars
<1> QED BY <1>1, <1>2, PTL DEF Spec, FlowSpec

\* The types of both components, in the composition.
THEOREM WorkflowTypeCorrect == Spec => []TypeOK
BY ImplementsChain, ImplementsFlow, ChainTypeCorrect, FlowTypeCorrect, PTL DEF TypeOK

\* With any number of plans, of runs on one board and of models behind them,
\* a workflow walks the smallest order, builds on what is finished, reports
\* what happened, and gives a turn up only when every model was asked, one
\* that cooled when the call began only after all that did not.
THEOREM WorkflowIsRight ==
  Spec => [](/\ OrderIsRight /\ DepsAreDone /\ ReportIsRight
             /\ AllAskedBeforeGivingUp /\ CooledIsLastResort)
BY ImplementsChain, ImplementsFlow, WalksTheSmallestOrder, NothingOnUnfinished, ReportsAreRight,
   EverybodyIsAsked, HealthyComeFirst, PTL

=============================================================================
