SPECIFICATION Spec
CONSTANTS
    n1 = n1
    n2 = n2
    n3 = n3
    Node = {n1, n2, n3}
    NODE_EMPTY = NODE_EMPTY
    HighWater = 1
INVARIANTS ListsHoldItems NodesInOnePlace LookStays CountIsBounded
PROPERTY CountEnds
CHECK_DEADLOCK FALSE
