SPECIFICATION Spec
CONSTANTS
    MaxLen = 24
    FirstBytes = {0, 1, 2, 3, 6, 255}
INVARIANT AcceptsExactlyWireFormat
INVARIANT FieldsTileTheBuffer
CHECK_DEADLOCK FALSE
