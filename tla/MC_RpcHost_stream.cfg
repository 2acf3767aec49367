CONSTANTS
    Conns = {c1}
    Ids = {i1, i2, i3}
    NoId = NoId
    Owners = {o1}
    Services = {"scripting", "workspace", "connection"}
    Owns <- MC_Owns
    ScriptAs = ScriptAs
    NotifyM = NotifyM
    UnknownM = UnknownM
    MaxBreaks = 2
    MaxFrames = 3
SPECIFICATION Spec
INVARIANTS TypeOK UniqueReplies
