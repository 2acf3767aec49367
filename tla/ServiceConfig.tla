--------------------------- MODULE ServiceConfig ---------------------------
(***************************************************************************)
(* How main (ossdbtoolsservice_main.py) settles the service's settings    *)
(* and the checks that can stop startup before a server exists.  Every   *)
(* setting has up to three textual sources, layered in three steps: the   *)
(* config file over a built-in fallback (the defaults dict), an            *)
(* environment variable over that (the *_env locals), and a command-line   *)
(* option over that (argparse, whose defaults are the *_env values).       *)
(* Settings come in three kinds: strings, booleans read with str_to_bool   *)
(* and given on the command line as store_true switches, and the listen    *)
(* port read with int().  The remote debugging block (lines 127-149 and   *)
(* 183-185) is modelled in DebugAttach.                                    *)
(***************************************************************************)
EXTENDS Naturals

CONSTANTS
    StrKeys,      \* string settings (listen_address, log_dir)
    BoolKeys,     \* boolean settings (enable_web_server, console_logging, ...)
    WebKey,       \* enable_web_server
    ConsoleKey,   \* console_logging
    PortKey,      \* listen_port
    Strs,         \* texts a string setting may hold
    Ports,        \* numerals a port setting may hold
    Numeral,      \* Numeral[p]: int() of numeral p
    Junk,         \* a port text that is not a numeral
    Builtin,      \* Builtin[k]: the fallback of config.get for setting k
    Providers,    \* provider names --provider may give
    Supported,    \* constants.SUPPORTED_PROVIDERS
    Absent        \* no config entry, environment variable or option

Keys == StrKeys \cup BoolKeys \cup {PortKey}

(* The texts a config entry or an environment variable may hold.          *)
Text(k) ==
    IF k \in StrKeys THEN Strs
    ELSE IF k \in BoolKeys THEN {"true", "false"}
    ELSE Ports \cup {Junk}

(* The values a command-line option may give: a string, a store_true      *)
(* switch, or a port text that argparse converts with type=int.           *)
ArgText(k) ==
    IF k \in StrKeys THEN Strs
    ELSE IF k \in BoolKeys THEN {TRUE}
    ELSE Ports \cup {Junk}

ASSUME ConfigAssumption ==
    /\ StrKeys \cap BoolKeys = {}
    /\ PortKey \notin StrKeys \cup BoolKeys
    /\ {WebKey, ConsoleKey} \subseteq BoolKeys
    /\ Numeral \in [Ports -> Nat] /\ Junk \notin Ports
    /\ Absent \notin Strs \cup {Junk}
    /\ Builtin \in [Keys -> Strs \cup {"false"} \cup Ports]
    /\ \A k \in Keys : Builtin[k] \in IF k = PortKey THEN Ports ELSE Text(k)
    /\ Supported \subseteq Providers
    /\ Absent \notin Providers

(* str_to_bool, applied to the layered text of a boolean setting.         *)
StrToBool(s) == s = "true"

(* Where main is.                                                          *)
PCs == {"config", "env", "parse", "provider", "logging", "console", "create",
        "serving", "documented", "failed"}

(* Why startup stopped: int() raised ValueError (line 112), argparse or    *)
(* parser.error exited with a usage error, or the provider assertion.      *)
Failures == {"none", "value_error", "usage", "assertion"}

VARIABLES
    pc,         \* where main is
    file,       \* file[k]: the config.ini entry of setting k, or Absent
    env,        \* env[k]: its environment variable, or Absent
    argv,       \* argv[k]: its command-line option, or Absent
    opts,       \* the other options: --provider and --generate-markdown
    defaults,   \* the defaults dict (lines 86-94)
    envv,       \* the *_env locals (lines 97-103)
    args,       \* the parsed arguments (line 125)
    logTo,      \* the log handler: none yet, a file or a NullHandler
    server,     \* the server created: none, web or stdio
    failure     \* why startup stopped

vars == <<pc, file, env, argv, opts, defaults, envv, args, logTo, server, failure>>

(* Every way of giving or omitting each setting in one source.          *)
Sources(T(_)) ==
    {f \in [Keys -> UNION {T(k) : k \in Keys} \cup {Absent}] :
        \A k \in Keys : f[k] \in T(k) \cup {Absent}}

TypeOK ==
    /\ pc \in PCs
    /\ file \in Sources(Text) /\ env \in Sources(Text) /\ argv \in Sources(ArgText)
    /\ opts \in [provider : Providers \cup {Absent}, markdown : BOOLEAN]
    /\ logTo \in {"none", "file", "null"}
    /\ server \in {"none", "web", "stdio"}
    /\ failure \in Failures

Init ==
    /\ pc = "config"
    /\ file \in Sources(Text)
    /\ env \in Sources(Text)
    /\ argv \in Sources(ArgText)
    /\ opts \in [provider : Providers \cup {Absent}, markdown : BOOLEAN]
    /\ defaults = [k \in Keys |-> Absent]
    /\ envv = [k \in Keys |-> Absent]
    /\ args = [k \in Keys |-> Absent]
    /\ logTo = "none"
    /\ server = "none"
    /\ failure = "none"

inputs == <<file, env, argv, opts>>

Fail(why) == pc' = "failed" /\ failure' = why

-----------------------------------------------------------------------------
(* Lines 82-94: config.get(section, key, fallback=...) for every setting.  *)
ReadConfigFile ==
    /\ pc = "config"
    /\ defaults' = [k \in Keys |-> IF file[k] # Absent THEN file[k] ELSE Builtin[k]]
    /\ pc' = "env"
    /\ UNCHANGED <<inputs, envv, args, logTo, server, failure>>

(* Variant: the environment falls back to the built-in value, not to the *)
(* config file's.                                                         *)
LayerEnvironmentBuiltin ==
    /\ pc = "env"
    /\ envv' = [k \in Keys |-> IF env[k] # Absent THEN env[k] ELSE Builtin[k]]
    /\ pc' = "parse"
    /\ UNCHANGED <<inputs, defaults, args, logTo, server, failure>>

(* Lines 97-103: os.getenv(NAME, defaults[key]).                           *)
LayerEnvironment ==
    /\ pc = "env"
    /\ envv' = [k \in Keys |-> IF env[k] # Absent THEN env[k] ELSE defaults[k]]
    /\ pc' = "parse"
    /\ UNCHANGED <<inputs, defaults, args, logTo, server, failure>>

(* The argparse default of an option: the boolean of the layered text,   *)
(* int() of the port's, or the text itself.                                *)
ArgDefault(k) ==
    IF k \in BoolKeys THEN StrToBool(envv[k])
    ELSE IF k = PortKey THEN Numeral[envv[k]]
    ELSE envv[k]

(* An option given on the command line; argparse applies type=int.        *)
ArgValue(k) == IF k = PortKey THEN Numeral[argv[k]] ELSE argv[k]

(* Lines 106-125.  The defaults are computed while the parser is built:   *)
(* int(listen_port_env) at line 112 raises ValueError on a text that is   *)
(* not a numeral, before parse_args runs.  parse_args then exits with a   *)
(* usage error on a --listen-port that is not a numeral.                   *)
ParseArguments ==
    /\ pc = "parse"
    /\ \/ envv[PortKey] = Junk /\ Fail("value_error") /\ UNCHANGED args
       \/ envv[PortKey] # Junk /\ argv[PortKey] = Junk /\ Fail("usage") /\ UNCHANGED args
       \/ /\ envv[PortKey] # Junk /\ argv[PortKey] # Junk
          /\ args' = [k \in Keys |-> IF argv[k] # Absent THEN ArgValue(k) ELSE ArgDefault(k)]
          /\ pc' = "provider"
          /\ UNCHANGED failure
    /\ UNCHANGED <<inputs, defaults, envv, logTo, server>>

(* Lines 155-160: a --provider that is not supported raises AssertionError. *)
CheckProvider ==
    /\ pc = "provider"
    /\ \/ opts.provider \in Providers \ Supported /\ Fail("assertion")
       \/ opts.provider \notin Providers \ Supported /\ pc' = "logging" /\ UNCHANGED failure
    /\ UNCHANGED <<inputs, defaults, envv, args, logTo, server>>

(* Lines 163-172: a log file in the log directory; when the directory or  *)
(* the file cannot be created, a NullHandler: startup goes on without logs. *)
SetupLogging ==
    /\ pc = "logging"
    /\ logTo' \in {"file", "null"}
    /\ pc' = "console"
    /\ UNCHANGED <<inputs, defaults, envv, args, server, failure>>

(* Lines 175-180: console logging needs the web server; parser.error exits. *)
CheckConsoleLogging ==
    /\ pc = "console"
    /\ \/ args[ConsoleKey] /\ ~args[WebKey] /\ Fail("usage")
       \/ ~(args[ConsoleKey] /\ ~args[WebKey]) /\ pc' = "create" /\ UNCHANGED failure
    /\ UNCHANGED <<inputs, defaults, envv, args, logTo, server>>

(* Lines 196-216: the web server or the stdio server, then the markdown   *)
(* documentation or start().                                               *)
CreateServer ==
    /\ pc = "create"
    /\ server' = IF args[WebKey] THEN "web" ELSE "stdio"
    /\ pc' = IF opts.markdown THEN "documented" ELSE "serving"
    /\ UNCHANGED <<inputs, defaults, envv, args, logTo, failure>>

(* main has handed over to the server, or has stopped.                    *)
Done ==
    /\ pc \in {"serving", "documented", "failed"}
    /\ UNCHANGED vars

Next ==
    \/ ReadConfigFile \/ LayerEnvironment \/ ParseArguments \/ CheckProvider
    \/ SetupLogging \/ CheckConsoleLogging \/ CreateServer \/ Done

Spec == Init /\ [][Next]_vars

-----------------------------------------------------------------------------
(* Properties.                                                             *)

(* The text a setting takes by the precedence of spec section 6 (line 83): command  *)
(* line, then environment variable, then config file, then the built-in.  *)
Chosen(k) ==
    IF argv[k] # Absent THEN argv[k]
    ELSE IF env[k] # Absent THEN env[k]
    ELSE IF file[k] # Absent THEN file[k]
    ELSE Builtin[k]

Setting(k) ==
    IF k \in BoolKeys /\ argv[k] = Absent THEN StrToBool(Chosen(k))
    ELSE IF k = PortKey THEN Numeral[Chosen(k)]
    ELSE Chosen(k)

(* Precedence (spec section 6 and the comment at line 105): the server is *)
(* built from the settings of the highest source that gives each one,     *)
(* across the three layering steps of main.                                *)
LayeredSettings ==
    pc \in {"serving", "documented"} => \A k \in Keys : args[k] = Setting(k)

(* A port text that is not a numeral stops startup only when it is the    *)
(* port in effect: a command-line --listen-port takes precedence over the *)
(* environment and the config file (line 105), so a bad LISTEN_PORT it    *)
(* overrides must not matter.                                              *)
PortErrorOnlyFromEffectiveSource ==
    failure = "value_error" => Chosen(PortKey) = Junk
=============================================================================
