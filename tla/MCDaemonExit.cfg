CONSTANTS
    a = a
    b = b
    Tunnel = {a}
    Config = {1, 2}
    Stored <- MCStored
    Enabled = {a}
    MaxRequests = 3
    MaxAttempts = 1
SPECIFICATION Spec
CHECK_DEADLOCK FALSE
PROPERTY ExitsGracefully
