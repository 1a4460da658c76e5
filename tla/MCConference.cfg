SPECIFICATION MCSpec
CONSTANTS
    Parties = {owner, phone, guest}
    Phones = {owner, phone}
    Owner = owner
    NoParty = NoParty
    MusicPhones = {phone}
    MuteOnEntry = FALSE
    ShowList = TRUE
    MaxCommands = 2
    MaxSteps = 7
INVARIANTS   EndedIsUnlisted
CHECK_DEADLOCK FALSE
