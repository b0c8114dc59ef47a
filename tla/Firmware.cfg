SPECIFICATION FirmwareSpec
CONSTANTS
    Users <- MCUsers
    Route <- MCRoute
    Calls <- MCCalls
    BootStatuses <- MCBootStatuses
    ROM = 6
    CHUNK = 2
    Boards <- MCBoards
    Operations <- MCOperations
    MaxFaults = 2
    Queries <- MCQueries
    Resetters <- MCResetters
    ResetSelections <- MCResetSelections
    MaxResets = 3
    Procs <- MCProcs
    Scenarios <- MCScenarios
    Polls = 1
    MaxTdp = 300
INVARIANTS
  MessagesSound
  TelemetryDecoded
  
  BringUpSound
PROPERTIES
  FirmwareCallsEnd
CHECK_DEADLOCK FALSE
