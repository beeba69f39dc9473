CONSTANTS
    v1 = v1
    Visitor <- MCVisitor
    Scenarios <- MCScenarios
    Guarded <- MCGuarded
    MaxTunnels = 2
    MaxEntries = 1
    Chunks = 2
SPECIFICATION Spec
INVARIANTS AnswersMatch RecordsTrue ProxiedRight
PROPERTY VisitsEnd
CHECK_DEADLOCK FALSE
