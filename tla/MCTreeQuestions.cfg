SPECIFICATION Spec
CONSTANTS
    Addresses <- MCAddresses
    Programs <- MCPrograms
    Items <- MCItems
    MaxNodes <- MCMaxNodes
INVARIANTS
    TypeOK
    TreesAnswered
    TraversalsAnswered
    TreesInOrder
PROPERTIES
    LeftOnlyWhenAsked
