SPECIFICATION Spec
CONSTANTS
    Items = {1, 2, 3, 4}
    n1 = n1
    n2 = n2
    n3 = n3
    Nodes <- MCNodes
    KeyOf <- MCKeyOf
    NULL = NULL
    Kinds = {"queue", "chain", "sorted"}
SYMMETRY Symmetry
INVARIANT TypeOK
 
PROPERTY ListIsSequence
CHECK_DEADLOCK FALSE
