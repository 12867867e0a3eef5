------------------------------ MODULE Platform ------------------------------
(***************************************************************************)
(* The parts of the platform around the life cycle of a case, in one       *)
(* specification: category memory, the monthly allowance, workspaces and   *)
(* their invitations, the evidence of a case and its continuation, the     *)
(* pipeline that reasons on it, and the supplier response of one that is   *)
(* answered. They share no rows, so a behaviour takes the steps of one of  *)
(* them, while the others rest: interleaving steps that commute would add  *)
(* states and show nothing.                                                *)
(***************************************************************************)
EXTENDS CategoryMemory, MonthlyQuota, WorkspaceAccess, CaseEvidence, ReasoningPipeline,
        SupplierResponse

CONSTANT Parts   \* the parts that an instance explores

ASSUME PartsAssumption ==
  Parts \subseteq {"memory", "quota", "access", "evidence", "pipeline", "response"}

VARIABLE part

PlatformInit ==
  /\ part \in Parts
  /\ MemoryInit /\ QuotaInit /\ AccessInit /\ EvidenceInit
  /\ PipelineInit /\ ResponseInit
  /\ part # "pipeline" => file = CHOOSE f \in CaseFile : TRUE

MemoryStep ==
  /\ part = "memory" /\ MemoryNext
  /\ UNCHANGED <<part, quotaVars, accessVars, evidenceVars, pipelineVars, responseVars>>

QuotaStep ==
  /\ part = "quota" /\ QuotaNext
  /\ UNCHANGED <<part, memoryVars, accessVars, evidenceVars, pipelineVars, responseVars>>

AccessStep ==
  /\ part = "access" /\ AccessNext
  /\ UNCHANGED <<part, memoryVars, quotaVars, evidenceVars, pipelineVars, responseVars>>

EvidenceStep ==
  /\ part = "evidence" /\ EvidenceNext
  /\ UNCHANGED <<part, memoryVars, quotaVars, accessVars, pipelineVars, responseVars>>

PipelineStep ==
  /\ part = "pipeline" /\ PipelineNext
  /\ UNCHANGED <<part, memoryVars, quotaVars, accessVars, evidenceVars, responseVars>>

ResponseStep ==
  /\ part = "response" /\ ResponseNext
  /\ UNCHANGED <<part, memoryVars, quotaVars, accessVars, evidenceVars, pipelineVars>>

PlatformNext ==
  \/ MemoryStep
  \/ QuotaStep
  \/ AccessStep
  \/ EvidenceStep
  \/ PipelineStep
  \/ ResponseStep

platformVars ==
  <<part, memoryVars, quotaVars, accessVars, evidenceVars, pipelineVars, responseVars>>

PlatformSpec == PlatformInit /\ [][PlatformNext]_platformVars
=============================================================================
