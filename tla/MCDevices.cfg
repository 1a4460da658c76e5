SPECIFICATION MCSpec
CONSTANTS
    one = one
    two = two
    a = a
    b = b
    Phones = {one, two}
    Lines = {a, b}
    NoLine = NoLine
    NoPhone = NoPhone
    Manager = manager
    Files <- MCFiles
    Order <- MCOrder
    Realtime = {two}
    MaxChanges = 1
    MaxConnects = 1
INVARIANTS  NoneLeftAttached
 
CHECK_DEADLOCK FALSE
