CONSTANTS
    Conns = {c1}
    Ids = {i1}
    NoId = NoId
    Owners = {o1}
    Services = {"scripting", "workspace", "connection"}
    Owns <- MC_Owns
    ScriptAs = ScriptAs
    NotifyM = NotifyM
    UnknownM = UnknownM
    MaxBreaks = 1
    MaxFrames = 1
SPECIFICATION Spec
INVARIANT ErrorReportsCause
