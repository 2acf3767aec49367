---------------------------- MODULE DebugAttach ----------------------------
(***************************************************************************)
(* The remote debugging steps of main (ossdbtoolsservice_main.py, lines   *)
(* 131-149 and 182-185), and what main writes on standard output before   *)
(* and after the stdio server takes it over as its channel (lines 187-216). *)
(* The options --enable-remote-debugging and --enable-remote-debugging-wait *)
(* are ints with const 3000; an option that is not given (None) and one    *)
(* given as 0 are both falsy and read alike by lines 132-133 and 148, so   *)
(* both are 0 here.  debugpy.listen raises when the port is taken by       *)
(* another process or is beyond the last port; a client may attach once   *)
(* debugpy listens.  The steps of lines 151-180 are modelled in           *)
(* ServiceConfig; they write nothing on standard output.                   *)
(***************************************************************************)
EXTENDS Naturals, Sequences

CONSTANTS
    MaxPort,    \* the last port number
    Options     \* the values the two debugging options may have (0: falsy)

ASSUME DebugAssumption ==
    /\ MaxPort \in Nat \ {0}
    /\ Options \subseteq 0..MaxPort
    /\ 0 \in Options

VARIABLES
    pc,          \* where main is
    web,         \* args.enable_web_server
    dbg,         \* args.enable_remote_debugging
    dbgWait,     \* args.enable_remote_debugging_wait
    busy,        \* ports other processes listen on
    port,        \* the local port of lines 133 and 146
    listening,   \* the port debugpy listens on, or 0
    waitFlag,    \* wait_for_debugger
    attached,    \* a debugger client has attached
    stdout       \* what was written on standard output, in order

vars == <<pc, web, dbg, dbgWait, busy, port, listening, waitFlag, attached, stdout>>

Ports == 1..MaxPort

(* debugpy.listen((address, p)) succeeds.                                  *)
CanListen(p) == p \in Ports /\ p \notin busy

TypeOK ==
    /\ pc \in {"debug", "retry", "logging", "wait", "create", "serving", "replied",
               "documented", "crashed"}
    /\ web \in BOOLEAN /\ dbg \in Options /\ dbgWait \in Options
    /\ busy \subseteq Ports /\ port \in 0..MaxPort + 1 /\ listening \in 0..MaxPort
    /\ waitFlag \in BOOLEAN /\ attached \in BOOLEAN
    /\ stdout \in Seq({"text", "frame"})

Init ==
    /\ pc = "debug"
    /\ web \in BOOLEAN
    /\ dbg \in Options /\ dbgWait \in Options
    /\ busy \in SUBSET Ports
    /\ port = 0 /\ listening = 0
    /\ waitFlag = FALSE /\ attached = FALSE
    /\ stdout = <<>>

(* A line printed by print().                                              *)
Printed(n) == [k \in 1..n |-> "text"]

(* Lines 148-149.                                                          *)
SetWaitFlag == waitFlag' = (dbgWait # 0)

-----------------------------------------------------------------------------
(* Lines 132-143: without a truthy option nothing happens; otherwise three *)
(* lines are printed and debugpy listens on the first truthy option; when  *)
(* listen raises, the except branch runs next.                             *)
StartDebugger ==
    /\ pc = "debug"
    /\ \/ dbg = 0 /\ dbgWait = 0 /\ pc' = "logging"
          /\ UNCHANGED <<port, listening, waitFlag, stdout>>
       \/ /\ dbg # 0 \/ dbgWait # 0
          /\ port' = IF dbg # 0 THEN dbg ELSE dbgWait
          /\ stdout' = stdout \o Printed(3)
          /\ \/ CanListen(port') /\ listening' = port' /\ SetWaitFlag /\ pc' = "logging"
             \/ ~CanListen(port') /\ pc' = "retry" /\ UNCHANGED <<listening, waitFlag>>
    /\ UNCHANGED <<web, dbg, dbgWait, busy, attached>>

(* Variant: the except branch listens again on the same port.             *)
RetryDebuggerSamePort ==
    /\ pc = "retry"
    /\ \/ CanListen(port) /\ listening' = port /\ SetWaitFlag /\ pc' = "logging"
       \/ ~CanListen(port) /\ pc' = "crashed" /\ UNCHANGED <<listening, waitFlag>>
    /\ UNCHANGED <<web, dbg, dbgWait, busy, port, attached, stdout>>

(* Lines 144-149: the next port; an exception of this listen is not caught *)
(* and ends main.                                                          *)
RetryDebugger ==
    /\ pc = "retry"
    /\ port' = port + 1
    /\ \/ CanListen(port') /\ listening' = port' /\ SetWaitFlag /\ pc' = "logging"
       \/ ~CanListen(port') /\ pc' = "crashed" /\ UNCHANGED <<listening, waitFlag>>
    /\ UNCHANGED <<web, dbg, dbgWait, busy, attached, stdout>>

(* A debugger client connects to the port debugpy listens on.             *)
AttachClient ==
    /\ listening # 0 /\ ~attached
    /\ attached' = TRUE
    /\ UNCHANGED <<pc, web, dbg, dbgWait, busy, port, listening, waitFlag, stdout>>

(* Lines 151-180 (ServiceConfig), which print nothing.                     *)
SetUpLogging ==
    /\ pc = "logging"
    /\ pc' = "wait"
    /\ UNCHANGED <<web, dbg, dbgWait, busy, port, listening, waitFlag, attached, stdout>>

(* Lines 182-185: debugpy.wait_for_client() blocks until a client attaches. *)
WaitForDebugger ==
    /\ pc = "wait"
    /\ waitFlag => attached
    /\ pc' = "create"
    /\ UNCHANGED <<web, dbg, dbgWait, busy, port, listening, waitFlag, attached, stdout>>

(* Lines 187-216: the web server, or the stdio server on standard output;  *)
(* then the markdown documentation (written to a file) or start().         *)
CreateServer ==
    /\ pc = "create"
    /\ pc' \in {"serving", "documented"}
    /\ UNCHANGED <<web, dbg, dbgWait, busy, port, listening, waitFlag, attached, stdout>>

(* The stdio server writes a frame on standard output.                     *)
StdioReply ==
    /\ pc = "serving" /\ ~web
    /\ stdout' = Append(stdout, "frame")
    /\ pc' = "replied"
    /\ UNCHANGED <<web, dbg, dbgWait, busy, port, listening, waitFlag, attached>>

(* main serves over the network, has documented the requests, or ended.  *)
Done ==
    /\ \/ pc = "serving" /\ web
       \/ pc \in {"replied", "documented", "crashed"}
    /\ UNCHANGED vars

Next ==
    \/ StartDebugger \/ RetryDebugger \/ AttachClient \/ SetUpLogging
    \/ WaitForDebugger \/ CreateServer \/ StdioReply \/ Done

Spec == Init /\ [][Next]_vars

-----------------------------------------------------------------------------
(* Properties.                                                             *)

(* The port the options ask for (line 133).                                *)
Requested == IF dbg # 0 THEN dbg ELSE dbgWait

(* The retry of lines 144-147: debugging ends main only when the requested *)
(* port and the next one both cannot be listened on, and otherwise debugpy *)
(* listens on the first of them that is free.                             *)
DebugFailsOnlyWhenPortsTaken ==
    /\ pc = "crashed" => ~CanListen(Requested) /\ ~CanListen(Requested + 1)
    /\ pc \in {"wait", "create", "serving", "replied", "documented"} /\ Requested # 0
         => listening = IF CanListen(Requested) THEN Requested ELSE Requested + 1

(* In stdio mode standard output is the JSON-RPC channel (line 191, spec   *)
(* 4.2 stream binding): everything written on it must be an encoded frame. *)
StdoutCarriesOnlyFrames ==
    ~web /\ pc = "replied" => \A k \in DOMAIN stdout : stdout[k] = "frame"
=============================================================================
