CONSTANTS
    t1 = t1
    t2 = t2
    base = base
    dev = dev
    lite = lite
    bare = bare
    NoParent = NoParent
    NoTask = NoTask
    Tasks <- MCTasks
    Images <- MCImagesBare
    Parent <- MCParentBare
    Url <- MCUrl
    Scripts <- MCScriptsBare
    MaxCalls = 2
    MayFail = TRUE
SPECIFICATION Spec
INVARIANT TypeOK
INVARIANT IInv
PROPERTY BuiltImagesPersist
PROPERTY BuildTerminates
