CONSTANTS
    Conns = {c1}
    Ids = {i1, i2}
    NoId = NoId
    Owners = {o1}
    Services = {"scripting", "workspace", "connection"}
    Owns <- MC_Owns
    ScriptAs = ScriptAs
    NotifyM = NotifyM
    UnknownM = UnknownM
    MaxBreaks = 1
    MaxFrames = 2
SPECIFICATION Spec
PROPERTY RequestsAnswered
