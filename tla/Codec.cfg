SPECIFICATION Spec
CONSTANTS
    Base = 6
    MsgIds = {0, 1, 1295}
    Sizes = {0, 1, 2, 5, 1275, 1276, 1279, 1280, 1281, 1295}
    Chars = {0, 9, 10, 15, 16, 171, 255}
    Digits = {48, 57, 65, 70, 97, 102}
    MaxText = 4
    MaxRuns = 6
INVARIANTS RequestRoundTrip ResponseRoundTrip SizeWraps HexRoundTrip HexToCharExact LogsEveryN
CHECK_DEADLOCK FALSE
