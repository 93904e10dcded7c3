CONSTANTS
    Calls = {loop, c1, c2, c3}
    Loop = loop
    Ids = {s1, s2}
    Tokens = {t1, t2}
    Browsers = {b1, b2}
    MaxSize = 2
    Common = Common
    Remote = Remote
    Nothing = Nothing
SPECIFICATION Spec
SYMMETRY Symmetry
INVARIANTS
    TypeOK SessionBacked PageGoesWithSession PageOnce NothingLeft
