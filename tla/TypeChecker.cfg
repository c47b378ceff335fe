SPECIFICATION Spec
CONSTANTS
    Names <- MCNames
    Programs <- MCPrograms
    VarNames = {"a", "x"}
    TypeNames = {"S"}
    FunctionNames = {"f"}
    MemberNames = {"m"}
    Types <- MCTypes
    Annotations <- MCAnnotations
    TypeArguments <- MCTypeArguments
    MaxScopes = 4
    MaxStatements = 2
    MaxNodes = 3
VIEW MCView
INVARIANTS
    UntypedIsReported
    LexicalLookup
    ScopesAreBlocks
    FirstDefinitionWins
CHECK_DEADLOCK FALSE
