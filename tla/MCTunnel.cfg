CONSTANTS
    k1 = k1
    k2 = k2
    MaxAttempts = 66
    Relays = 2
    PortsToTry = 2
    MaxOffered = 3
    MaxCalls = 4
    MaxOpened = 1
    MaxSent = 2
    ChannelRoom = 1
    FrameRoom = 1
    AcceptRoom = 1
    HeaderSize = 2
    MaxMessages = 2
    MaxLength = 1
    PipeRoom = 2
    Knocker = {k1, k2}
SPECIFICATION Spec
INVARIANTS Paced CarriedIntact ChosenIsBest
PROPERTIES CtrlCObeyed DropIsNoticed WaitsEnd
CHECK_DEADLOCK FALSE
