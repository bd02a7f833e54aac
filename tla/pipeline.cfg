SPECIFICATION PipelineSpec
CONSTANTS
    a = a
    b = b
    d = d
    Coroutines = {a, b, d}
    Inline = {a}
    None = None
    Code <- CodeDef
    Services <- ServicesDef
    Registry <- RegistryDef
    Asks <- AsksDef
    Forwards <- ForwardsDef
    Bodied <- BodiedDef
    Early <- EarlyDef
    Alone = {a}
    MaxDepth = 1
    MaxForwards = 1
INVARIANTS PipelineInv RoutedRight AllowExact ParamsRight AnswerHonest
PROPERTIES RequestsEnd
CHECK_DEADLOCK FALSE
