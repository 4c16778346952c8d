SPECIFICATION Spec
CONSTANTS
    Addresses <- MCAddresses
    Programs <- MCPrograms
    Items <- MCItems
    Expressions <- MCExpressions
    Frames <- MCFrames
    MaxNodes = 5
INVARIANTS
    TypeOK
    ListsAnswered
    StacksQueuesAnswered
    ListsInOrder
