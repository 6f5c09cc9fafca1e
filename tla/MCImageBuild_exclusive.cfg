CONSTANTS
    t1 = t1
    t2 = t2
    base = base
    dev = dev
    lite = lite
    bare = bare
    NoParent = NoParent
    NoTask = NoTask
    Tasks <- MCTasks
    Images <- MCImages
    Parent <- MCParent
    Url <- MCUrl
    Scripts <- MCScripts
    MaxCalls = 1
    MayFail = FALSE
SPECIFICATION Spec
INVARIANT ExclusiveProvisioning
