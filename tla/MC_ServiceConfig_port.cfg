CONSTANTS
    StrKeys = {address}
    BoolKeys = {web, console}
    WebKey = web
    ConsoleKey = console
    PortKey = port
    Strs = {s1}
    Ports = {p8443, p9000}
    Numeral <- MC_Numeral
    p8443 = p8443
    p9000 = p9000
    Junk = junk
    Builtin <- MC_Builtin
    Providers = {pg, other}
    Supported = {pg}
    address = address
    web = web
    console = console
    port = port
    s1 = s1
    junk = junk
    pg = pg
    other = other
    Absent = Absent
SPECIFICATION Spec
INVARIANT PortErrorOnlyFromEffectiveSource
