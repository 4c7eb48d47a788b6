SPECIFICATION Spec
CONSTANTS
  Responses <- MCResponses
  Events = {"e1", "e2", "e3"}
INVARIANTS DeliveredInOrder OutcomeIsTheWorkers
PROPERTIES ExecutionEnds
CHECK_DEADLOCK FALSE
