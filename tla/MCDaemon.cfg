CONSTANTS
    a = a
    b = b
    Tunnel = {a, b}
    Config = {1}
    Stored <- MCStored
    Enabled = {a}
    MaxRequests = 3
    MaxAttempts = 1
SPECIFICATION Spec
INVARIANTS RunnersKept
PROPERTY ShutdownObeyed
CHECK_DEADLOCK FALSE
