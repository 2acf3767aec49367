------------------------ MODULE ServiceConfigProofs ------------------------
(***************************************************************************)
(* Proof that main settles every setting by the precedence of spec        *)
(* section 6 (LayeredSettings), for every set of settings, texts, numerals *)
(* and built-in values: each of the three layering steps is remembered in *)
(* an invariant that relates its result to the sources below it.           *)
(***************************************************************************)
EXTENDS ServiceConfig, TLAPS

(* Where main is once the environment, and once argparse, have been read. *)
AfterEnv == PCs \ {"config", "env"}
Parsed == {"provider", "logging", "console", "create", "serving", "documented"}

(* The defaults dict is the config file over the built-in fallbacks.       *)
FileLayer ==
    pc # "config" =>
        \A k \in Keys : defaults[k] = IF file[k] # Absent THEN file[k] ELSE Builtin[k]

(* The *_env locals are the environment over the defaults dict.            *)
EnvLayer ==
    pc \in AfterEnv =>
        \A k \in Keys : envv[k] = IF env[k] # Absent THEN env[k] ELSE defaults[k]

(* The parsed arguments are the command line over the argparse defaults.   *)
ArgLayer ==
    pc \in Parsed =>
        \A k \in Keys : args[k] = IF argv[k] # Absent THEN ArgValue(k) ELSE ArgDefault(k)

IInv == pc \in PCs /\ FileLayer /\ EnvLayer /\ ArgLayer
-----------------------------------------------------------------------------
USE ConfigAssumption

LEMMA InitIInv == Init => IInv
  BY DEF Init, IInv, PCs, FileLayer, EnvLayer, ArgLayer, AfterEnv, Parsed

(* A step after argparse that keeps the layered state keeps IInv.          *)
LEMMA LaterStep ==
  ASSUME IInv, UNCHANGED <<inputs, defaults, envv, args>>,
         pc \in Parsed, pc' \in Parsed \cup {"failed"}
  PROVE  IInv'
  BY DEF IInv, PCs, FileLayer, EnvLayer, ArgLayer, AfterEnv, Parsed, inputs,
         ArgValue, ArgDefault

LEMMA IInvStep == IInv /\ [Next]_vars => IInv'
  <1> SUFFICES ASSUME IInv, [Next]_vars PROVE IInv'
    OBVIOUS
  <1>1. CASE ReadConfigFile
    BY <1>1 DEF ReadConfigFile, IInv, PCs, FileLayer, EnvLayer, ArgLayer, AfterEnv,
                Parsed, inputs
  <1>2. CASE LayerEnvironment
    BY <1>2 DEF LayerEnvironment, IInv, PCs, FileLayer, EnvLayer, ArgLayer, AfterEnv,
                Parsed, inputs
  <1>3. CASE ParseArguments
    <2>1. pc = "parse" /\ UNCHANGED <<inputs, defaults, envv>>
      BY <1>3 DEF ParseArguments
    <2>2. pc' \in {"failed", "provider"}
      BY <1>3 DEF ParseArguments, Fail
    <2>3. pc' = "provider" =>
            args' = [k \in Keys |-> IF argv[k] # Absent THEN ArgValue(k) ELSE ArgDefault(k)]
      BY <1>3 DEF ParseArguments, Fail
    <2>4. ArgLayer'
      BY <2>1, <2>2, <2>3 DEF ArgLayer, Parsed, ArgValue, ArgDefault, inputs
    <2>5. QED
      BY <2>1, <2>2, <2>4 DEF IInv, PCs, FileLayer, EnvLayer, AfterEnv, inputs
  <1>4. CASE CheckProvider \/ SetupLogging \/ CheckConsoleLogging \/ CreateServer
    <2>1. pc \in Parsed /\ pc' \in Parsed \cup {"failed"}
      BY <1>4 DEF CheckProvider, SetupLogging, CheckConsoleLogging, CreateServer,
                  Parsed, Fail
    <2>2. UNCHANGED <<inputs, defaults, envv, args>>
      BY <1>4 DEF CheckProvider, SetupLogging, CheckConsoleLogging, CreateServer
    <2>3. QED
      BY <2>1, <2>2, LaterStep
  <1>5. CASE Done \/ UNCHANGED vars
    BY <1>5 DEF Done, vars, IInv, PCs, FileLayer, EnvLayer, ArgLayer, AfterEnv, Parsed,
                ArgValue, ArgDefault
  <1>6. QED
    BY <1>1, <1>2, <1>3, <1>4, <1>5 DEF Next

(* The three layers compose to the precedence of Chosen, setting by       *)
(* setting.                                                                *)
LEMMA LayersGiveSetting ==
  ASSUME IInv, pc \in Parsed, NEW k \in Keys
  PROVE  args[k] = Setting(k)
  <1>1. defaults[k] = IF file[k] # Absent THEN file[k] ELSE Builtin[k]
    BY DEF IInv, FileLayer, Parsed
  <1>2. envv[k] = IF env[k] # Absent THEN env[k] ELSE defaults[k]
    BY DEF IInv, EnvLayer, AfterEnv, Parsed, PCs
  <1>3. args[k] = IF argv[k] # Absent THEN ArgValue(k) ELSE ArgDefault(k)
    BY DEF IInv, ArgLayer
  <1>4. CASE argv[k] # Absent
    BY <1>3, <1>4 DEF ArgValue, Setting, Chosen
  <1>5. CASE argv[k] = Absent
    <2>1. envv[k] = Chosen(k)
      BY <1>1, <1>2, <1>5 DEF Chosen
    <2>2. args[k] = ArgDefault(k)
      BY <1>3, <1>5
    <2>3. CASE k \in BoolKeys
      BY <1>5, <2>1, <2>2, <2>3 DEF ArgDefault, Setting
    <2>4. CASE k = PortKey
      BY <1>5, <2>1, <2>2, <2>4 DEF ArgDefault, Setting
    <2>5. CASE k \notin BoolKeys /\ k # PortKey
      BY <1>5, <2>1, <2>2, <2>5 DEF ArgDefault, Setting
    <2>6. QED
      BY <2>3, <2>4, <2>5
  <1>6. QED
    BY <1>4, <1>5

(* Precedence, for every value of the constants: a server that main      *)
(* starts, or documents, uses for every setting the value of the highest *)
(* of command line, environment variable, config file and built-in that   *)
(* gives one, through the three layering steps of lines 82-125.           *)
THEOREM SettingsLayered == Spec => []LayeredSettings
  <1>1. IInv => LayeredSettings
    BY LayersGiveSetting DEF LayeredSettings, Parsed
  <1>2. QED
    BY <1>1, InitIInv, IInvStep, PTL DEF Spec
=============================================================================
