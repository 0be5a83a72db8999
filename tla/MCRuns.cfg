SPECIFICATION Spec
CONSTANTS
    c1 = c1
    c2 = c2
    n1 = n1
    n2 = n2
    Clients <- Sessions
    Notifiers <- Services
    Scenarios <- Work
    Like <- Patterns
    Owners = {"u", "w"}
    DefaultRunsLimit = 1
    MaxRunsLimit = 2
    MaxRunEventsLimit = 2
    MaxFaults = 1
SYMMETRY Swaps
INVARIANTS RunNumbers DeliveryComplete ApprovedByUser LogsServed RestartConsistent CommitStatusCurrent RunConfigsSound
CHECK_DEADLOCK FALSE
