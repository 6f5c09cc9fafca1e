CONSTANTS
    j1 = j1
    j2 = j2
    NHosts = 2
    Jobs <- MCJobs
    Request <- MCRequestBase
    VmImage <- MCVmImage
    Images <- MCImages
    MayFail = FALSE
SPECIFICATION Spec
INVARIANT LiveListAccurate
