CONSTANTS
    MonthOptions = {1, 2}
    Roles = {"viewer"}
    MaxSessions = 2
    MaxClicks = 3
    Blank = Blank
SPECIFICATION ClientSpec
INVARIANT AdvisorButtonComesBack
CHECK_DEADLOCK FALSE
