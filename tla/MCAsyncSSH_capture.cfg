CONSTANTS
    MaxChunks = 1
    CallFlags <- MCCaptureOnly
    Ops = {"run"}
SPECIFICATION Spec
PROPERTY RunHonoursExitStatus
