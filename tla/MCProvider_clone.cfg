CONSTANTS
    j1 = j1
    j2 = j2
    NHosts = 2
    Jobs <- MCJobs
    Request <- MCRequestWorker
    VmImage <- MCVmImage
    Images <- MCImages
    MayFail = FALSE
SPECIFICATION Spec
INVARIANT GetVmsSucceedsWithoutFaults
