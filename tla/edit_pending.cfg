\* The record under review is edited on the batch review screen, then
\* corrected by voice; nothing overlaps.
SPECIFICATION Spec
CONSTANTS
    Records = {1}
    MaxRev = 4
    Threads = {t1}
    Calls = {"dictate", "edit", "arm"}
    MaxItems = 1
    AutoConfirm = FALSE
    StoreFails = FALSE
PROPERTY NoEditUndone
CHECK_DEADLOCK FALSE
