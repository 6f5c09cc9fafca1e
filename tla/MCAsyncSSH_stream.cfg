CONSTANTS
    MaxChunks = 1
    CallFlags <- MCPlainOnly
    Ops = {"run"}
SPECIFICATION Spec
PROPERTY StreamsOutput
