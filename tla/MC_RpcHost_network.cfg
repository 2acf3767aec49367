CONSTANTS
    Conns = {c1, c2}
    Ids = {i1}
    NoId = NoId
    Owners = {o1}
    Services = {"scripting", "workspace", "connection"}
    Owns <- MC_Owns
    ScriptAs = ScriptAs
    NotifyM = NotifyM
    UnknownM = UnknownM
    MaxBreaks = 1
    MaxFrames = 2
SPECIFICATION Spec
SYMMETRY MC_ConnSymmetry
INVARIANT UniqueReplies
