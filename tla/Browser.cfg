\* One day of a timesheet, and two tabs signed in to one account.
SPECIFICATION BrowserSpec
CONSTANTS
    MaxEntries = 2
    Most = 2
    Estimate = 3
    Saves = {r1}
    Others = {r2}
    Days <- MCDays
    MaxCalls = 2
    MaxSlips = 1
    r1 = r1
    r2 = r2
    TabCount = 2
    Asks = {a1, a2}
    MaxSessions = 3
    MaxAsked = 3
    a1 = a1
    a2 = a2
SYMMETRY Alike
INVARIANTS
    DaySafe
    CellTellsTheDay
    SecuringWorks
    LinkIsTheLatestWord
    TabKeepsUp
PROPERTIES
    OverForGood
\* Quiet once the bounded requests have been answered.
CHECK_DEADLOCK FALSE
