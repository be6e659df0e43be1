----------------------------- MODULE RunStates ------------------------------
(***************************************************************************)
(* The frozen lifecycle graph of an optimization run                       *)
(* (backend/app/state_machine/optimization.py).                            *)
(***************************************************************************)

RunStatus ==
    {"CREATED", "SNAPSHOTTING", "DIAGNOSING", "GENERATING_CANDIDATES", "RANKING",
     "CALIBRATING", "EVALUATING", "ADMISSION", "ADMITTED", "APPROVAL_PENDING",
     "APPROVED", "DEPLOYING", "DEPLOYED", "MONITORING",
     "COMPLETED", "ROLLED_BACK", "ROLLBACK_BLOCKED", "FAILED"}

Terminal == {"COMPLETED", "ROLLED_BACK", "ROLLBACK_BLOCKED", "FAILED"}

\* _NEXT_STATES without the edges to FAILED
ForwardEdges ==
    {<<"CREATED", "SNAPSHOTTING">>, <<"SNAPSHOTTING", "DIAGNOSING">>,
     <<"DIAGNOSING", "GENERATING_CANDIDATES">>,
     <<"GENERATING_CANDIDATES", "RANKING">>, <<"GENERATING_CANDIDATES", "COMPLETED">>,
     <<"RANKING", "CALIBRATING">>, <<"CALIBRATING", "EVALUATING">>,
     <<"EVALUATING", "ADMISSION">>,
     <<"ADMISSION", "ADMITTED">>, <<"ADMISSION", "COMPLETED">>,
     <<"ADMITTED", "APPROVAL_PENDING">>, <<"ADMITTED", "APPROVED">>,
     <<"APPROVAL_PENDING", "APPROVED">>, <<"APPROVAL_PENDING", "COMPLETED">>,
     <<"APPROVED", "DEPLOYING">>, <<"DEPLOYING", "DEPLOYED">>,
     <<"DEPLOYED", "MONITORING">>, <<"DEPLOYED", "ROLLED_BACK">>,
     <<"DEPLOYED", "ROLLBACK_BLOCKED">>,
     <<"MONITORING", "COMPLETED">>, <<"MONITORING", "ROLLED_BACK">>,
     <<"MONITORING", "ROLLBACK_BLOCKED">>}

\* validate_transition accepts the edge
ValidTransition(current, next) ==
    \/ <<current, next>> \in ForwardEdges
    \/ current \in RunStatus \ Terminal /\ next = "FAILED"
=============================================================================
