SPECIFICATION Spec
CONSTANTS
    Node <- MCNode
    Null = Null
    Sizes = {1, 2}
    Data <- MCData
INVARIANTS TypeOK Ring QueriesExact BestFitExact
PROPERTIES ImplementsList
