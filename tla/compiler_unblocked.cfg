SPECIFICATION Spec
CONSTANTS
  NoRegistry = NoRegistry
  Catalogs <- SmallCatalogs
  AliasFiles <- SmallAliasFiles
  AgentFiles <- SmallAgentFiles
  WorkflowFiles <- SmallWorkflowFiles
  Blocks <- SmallBlocks
  Spocs <- SmallSpocs
  Requests <- SmallRequests
  Proposals <- SmallProposals
  AutoApprove = FALSE
  MaxCompiles = 2
  MaxResolutions = 1
INVARIANTS
  ApprovalUnblocksCompilation
\* A server whose registries do not load stays down, and the bounds end the others.
CHECK_DEADLOCK FALSE
