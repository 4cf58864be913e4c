CONSTANTS
    m1 = m1
    m2 = m2
    a1 = a1
    a2 = a2
    l1 = l1
    l2 = l2
SPECIFICATION ChatsSpec
CHECK_DEADLOCK FALSE
INVARIANTS
    TypeOK
    
PROPERTIES
    ChatRight
    
