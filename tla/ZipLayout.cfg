SPECIFICATION Spec
CONSTANTS
    Layouts <- MCLayouts
    EocdMin = 2
    HeaderMin = 1
    MaxOffset = 9
    BlockLens = {2, 4, 6, 7}
    CommentLens = {0, 1, 3}
INVARIANT AcceptedIsTiled
PROPERTY RewriteReloads
CHECK_DEADLOCK FALSE
