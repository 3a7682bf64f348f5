\* Two calls of up to two pcs with answers of up to two frames.
SPECIFICATION Spec
CONSTANTS
    MaxCalls = 2
    MaxBatch = 2
    MaxFrames = 2
    PipeCap = 2
INVARIANTS
    TypeOK
    NothingIsLeft
    OneReader
    FramesAreAnswers
    OneOuterFrame
PROPERTIES
    CallsReturn
\* The caller stops after two calls or an error.
CHECK_DEADLOCK FALSE
