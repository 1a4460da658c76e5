SPECIFICATION Spec
CONSTANTS
    a = a
    b = b
    Lines = {a, b}
    Types = {"all"}
    Number = "1"
    Elsewhere = "2"
    Buttons = {"forward", "busy", "monitor", "callpresent"}
    Mode <- MCMode
    Blinks = TRUE
    Text = "text"
    Pool = {t1, t2}
    MaxSteps = 3
    Watchers = {"p", "q"}
    Spaces = {"1", "2"}
    Single = {"p"}
    MaxLots = 2
    MaxMoves = 4
    one = one
    two = two
    first = first
    both = both
    away = away
    t1 = t1
    t2 = t2
    Phones = {one, two}
    HintLines = {a, b}
    HintPool = {t1, t2}
    Hints = {first, both}
    Customs = {away}
    Covers <- MCCovers
    Wants <- MCWants
    Dynamic = {two}
    RingsIn = {one}
    CallStates = {"ringing", "connected"}
    Starts <- MCStarts
    MaxChanges = 2
SYMMETRY Threadlike
INVARIANTS ListsTheParked MenuIsCurrent ChoicesStored  SubscribersTold HintFollowsLines 
CHECK_DEADLOCK FALSE
