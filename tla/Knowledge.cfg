SPECIFICATION Spec
CONSTANTS
  None = None
  Runs = {r1, r2, r3}
  Programs <- MCPrograms
  Models = {"configured", "other"}
  Configured = "configured"
INVARIANTS
  KnowledgeInv
  StartupsAgree
  SeedComplete
  SyncExact
PROPERTIES
  OthersKept
SYMMETRY Symmetry
CHECK_DEADLOCK FALSE
