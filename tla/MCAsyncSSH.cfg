CONSTANTS
    MaxChunks = 2
    CallFlags <- MCFlags
    Ops = {"run", "scp"}
SPECIFICATION Spec
INVARIANT TypeOK
INVARIANT IInv
INVARIANT OutputCompleteAtReturn
