SPECIFICATION Spec
CONSTANTS
    Years = {y1, y2}
    FirstYear = y1
    Classes = {"5A", "6A"}
    Closing = {"5A"}
    Children = {asha, bela}
    Plans = {1}
    Begun = {}
    Office = {o1}
    Crons = {cron}
    Leavings = {"PASS_OUT", "LEAVE"}
    Routes <- AllRoutes
    MaxVersion = 3
    MaxFails = 1
    MaxMoves = 1
    Unbuilt = Unbuilt
    Removed = Removed
    NoYear = NoYear
    NoClass = NoClass
    NoPlan = NoPlan
    NoChild = NoChild
INVARIANTS TypeOK AppliedOnce RegisterTellsTruth StartsWhatWasReviewed
PROPERTIES DuePlansEnd
CHECK_DEADLOCK FALSE
