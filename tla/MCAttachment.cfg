SPECIFICATION Spec
CONSTANTS
    NoOne = NoOne
    Terminals = {t1, t2}
    Typed = {"detach", "suspend", "switch", "quit"}
    MaxLines = 1
    MaxGeneration = 2
    MaxFrames = 2
    MaxPty = 1
CHECK_DEADLOCK FALSE
INVARIANTS AttachTypeOK FreshScreen FramesAreUnderstood AttachmentNamesItsController
PROPERTIES AttachmentsSettle
