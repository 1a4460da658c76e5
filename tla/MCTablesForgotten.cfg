SPECIFICATION Spec
CONSTANTS
    PhoneModels = {"SPA502", "SP12", "C7960"}
    Versions = {11, 17}
    AddonLists <- MCAddonLists
    ButtonLines <- MCButtonLines
    MaxButtons = 3
    TemplateSize = 56
    Labels = {"REDIAL", "JOIN", "CONFRN", "CONFLIST", "TRANSFER", "VIDEO_MODE", "MONITOR", "NEWCALL"}
    LeftOut = {"out"}
    KeyModes = {"ONHOOK", "CONNECTED", "CONNTRANS", "CONNCONF", "RINGOUT"}
    Stealable = {}
    KeyFiles <- MCKeyFiles
    DefaultKeys <- MCDefaultKeys
    KeySetNames = {"mine", "other"}
    MostKeys = 5
    KeyReloads = 1
    KeySteps = 2
    Items <- MCItems
    Number <- MCNumber
    Cut <- MCCut
    Length <- MCLength
    Numbers <- MCNumbers
    Known <- MCKnown
    Without <- MCWithout
    KeptWords <- MCKeptWords
    LeastAlive = 60
    MostGeneral = 1
    MostOwn = 1
    Edits = 1
    Loads = 2
    Devices = {d1, d2}
    NoDevice = NoDevice
    NoCodec = NoCodec
    MaxSlots = 3
    MaxChanges = 2
    Wideband = "slin16"
    Table <- SmallTable
    LineDefaults <- SmallDefaults
    GlobalPrefs <- SmallGlobals
    Configs <- SmallConfigs
    CapLists <- SmallLists
    RemoteLists <- SmallRemotes
    Preferred <- SmallPreferred
    Screens <- TwoScreens
    Version <- SmallVersion
    Callers <- TwoCallers
    MaxHandlers = 3
PROPERTY RestartRemembered
CHECK_DEADLOCK FALSE
