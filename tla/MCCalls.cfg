SPECIFICATION MCSpec
CONSTANTS
    Phones = {phone1, phone2}
    NoDevice = NoDevice
    NatPhones = {phone2}
    VideoPhones = {phone1}
    LineVideoMode = "auto"
    MaxCalls = 2
    MaxSteps = 4
    EarlyPhones = {phone2}
    HookFlashPhones = {phone2}
    TransferOnHangup = TRUE
INVARIANTS  HeldIsQuiet  
CHECK_DEADLOCK FALSE
