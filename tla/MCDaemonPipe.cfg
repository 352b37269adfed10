SPECIFICATION Spec
CONSTANTS
  Clients = {c1, c2}
  None = none
  Backlog = 1
  MaxFaults = 1
PROPERTIES
  SurvivesClients
