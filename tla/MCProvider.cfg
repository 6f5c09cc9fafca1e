CONSTANTS
    j1 = j1
    j2 = j2
    NHosts = 3
    Jobs <- MCJobs
    Request <- MCRequestMixed
    VmImage <- MCVmImage
    Images <- MCImages
    MayFail = TRUE
SPECIFICATION Spec
INVARIANT TypeOK
INVARIANT GetHostIsFirstLeastLoaded
