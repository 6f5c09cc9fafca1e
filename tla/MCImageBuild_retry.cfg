CONSTANTS
    t1 = t1
    t2 = t2
    base = base
    dev = dev
    lite = lite
    bare = bare
    NoParent = NoParent
    NoTask = NoTask
    Tasks <- MCOneTask
    Images <- MCImages
    Parent <- MCParent
    Url <- MCUrl
    Scripts <- MCScripts
    MaxCalls = 2
    MayFail = TRUE
SPECIFICATION Spec
PROPERTY CallerSeesBuiltImage
