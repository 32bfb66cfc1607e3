SPECIFICATION Spec
CONSTANTS
    Nodes = {n1, n2}
    Sut = sut
    MaxInc = 2
    MaxPings = 2
SYMMETRY Symmetry
INVARIANTS TypeOK NumbersAgree DisabledUnsuspected
PROPERTIES ChangeKeepsInSync
CHECK_DEADLOCK FALSE
