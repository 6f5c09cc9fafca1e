CONSTANTS
    j1 = j1
    j2 = j2
    NHosts = 2
    Jobs <- MCJobs
    Request <- MCRequestTwo
    VmImage <- MCVmImage
    Images <- MCImages
    MayFail = FALSE
SPECIFICATION Spec
PROPERTY PlacementLeastLoaded
