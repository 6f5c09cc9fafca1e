CONSTANTS
    MaxChunks = 1
    CallFlags <- MCFlags
    Ops = {"run", "scp"}
SPECIFICATION Spec
INVARIANT RaisesDeclaredErrors
