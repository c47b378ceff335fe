CONSTANTS
    Types <- MCTypes
    Funcs <- MCFuncs
    Referenced = {1, 2}
    Tables <- MCTables
    Memories <- MCMemories
    Globals <- MCGlobals
    Tags <- MCTags
    Elems <- MCElems
    DataCount = 1
    Features <- MCFeatures
    SharedFunction = FALSE
    MaxTracked = 2
    MaxLocals = 3
    MemArgs <- MCMemArgs
    FuncType = 2
    BlockTypes <- MCBlockTypes
    RefTypes <- MCRefTypes
    ValueTypes <- MCValueTypes
    CatchLists <- MCCatchLists
    HandlerLists <- MCHandlerLists
    Depths = {0, 1}
    MaxGroup = 2
    MaxOperators = 3
    MaxOperands = 3
    MaxFrames = 3
SPECIFICATION Spec
INVARIANTS ReachableIsKnown ArityAgrees LocalsAgree AcceptedIsComplete
PROPERTY ScopedInits
