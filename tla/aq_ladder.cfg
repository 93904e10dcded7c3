CONSTANTS
    Runs = {r1, r2}
    h1 = h1
    h2 = h2
    Hosts = {h1, h2}
    Common = Common
    Browsers = {b1, b2}
    MaxSize = 2
    Sessions = {given, s1, s2}
    Given = given
    Nothing = Nothing
    Requests <- MCRequests
SPECIFICATION FairSpec
INVARIANTS
    TypeOK OutcomeAccounted LentToStage SessionsAccounted
PROPERTIES
    RunEnds
