CONSTANTS
    Types <- MCTypes
    OwnRelations <- MCOwnRelations
    ResourceLineage <- MCResourceLineage
    DecoratorOrders <- NestedDecoratorOrders
    OwnIdTypes <- MCOwnIdTypes
    RootType = "List"
    RootIsList = FALSE
    Asks <- NestedAsks
    MaxItems = 2
SPECIFICATION HalSpec
INVARIANTS
    AnswerableIsComposed
CHECK_DEADLOCK FALSE
