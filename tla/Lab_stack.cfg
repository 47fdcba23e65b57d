CONSTANTS
  Requests <- MCRequests
  Scenes <- MCScenes
  MaxOps = 4
  MaxMints = 2
  Modulus = 8
  MaxRx = 2
SPECIFICATION LabSpec
INVARIANTS WedgedByFault DeltasHonest SteadyVerdict AcceptedIsRunnable
PROPERTIES AllOrNothing
CHECK_DEADLOCK FALSE
