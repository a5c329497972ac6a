SPECIFICATION Spec
CONSTANTS
    Layout <- LayoutTable
    CrcSize = 1
    Lines <- AllLines
    MaxPush = 4
INVARIANTS CutsDoNotMatter NoFrameIsLost HeldIsBounded
CHECK_DEADLOCK FALSE
