CONSTANTS
    Torrents = {1, 2, 3}
    MayBeMagnets = {1}
    MaxId = 3
SPECIFICATION Spec
INVARIANTS
    TypeOK
    EachOnce
    BatchesStayInOrder
    OrderSurvives
