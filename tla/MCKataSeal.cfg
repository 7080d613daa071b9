SPECIFICATION Spec
CONSTANTS
  ProviderIds <- Ids
  OtherIds <- Wrong
  Commands <- Invocations
  Profiles <- Declared
  AgentPaths = {agent, helper}
  CachePaths = {"__pycache__/agent.pyc"}
  TempPaths = {temp1, temp2}
  MaxVersion = 2
  MaxSeals = 2
  MaxEdits = 1
  Sizes <- SizeOf
  ArchiveSize <- ArchiveOf
  MaxCompressed = 4
  MaxExtracted = 4
  MaxFiles = 3
SYMMETRY Symmetry
INVARIANTS
  TypeOK
  WrittenAtomically
  SealedIsAccepted
  AcceptedIsBound
  SealedToRoom
CHECK_DEADLOCK FALSE
