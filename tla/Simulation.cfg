SPECIFICATION Spec
CONSTANTS
  Owner <- OwnerOf
  Stakeholders <- SeenBy
  New = {"new"}
  Requests <- SimulationRequests
  max_contract_lookups = 2
  Schedule <- Fees
  Price = 2
INVARIANTS
  EffectsCommitted
  StatesHold
  FeeAsScheduled
CHECK_DEADLOCK FALSE
