\* Two threads, frames of two samples; a button held for a word and longer.
SPECIFICATION Spec
CONSTANTS
    FrameLen = 2
    StartFrames = 2
    EndFrames = 2
    PreMax = 5
    SilKeep = 1
    MaxLen = 7
    Threads = {t1, t2}
    WakeMode = TRUE
    MaxPTT = 5
    MaxChunk = 2
    MaxAudio = 13
    MaxRecords = 1
SYMMETRY Symmetry
INVARIANTS
    UtterancesInOrder
    SpeechIsKept
    SilenceTrimmed
    DisarmDropsPartial
    PTTKeepsHead
    MarkIsRight
CHECK_DEADLOCK FALSE
