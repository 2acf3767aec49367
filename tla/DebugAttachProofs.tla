------------------------- MODULE DebugAttachProofs -------------------------
(***************************************************************************)
(* Proofs about DebugAttach: the type invariant, and that the retry of    *)
(* the remote debugging block ends main only when the requested port and   *)
(* the next one are both unusable, for every last port and every set of   *)
(* option values.                                                          *)
(***************************************************************************)
EXTENDS DebugAttach, SequenceTheorems, TLAPS

(* Where main is once the debugging block is behind it.                    *)
Past == {"logging", "wait", "create", "serving", "replied", "documented"}

(* What each stage of the block knows about the port.  In the except      *)
(* branch the local port still holds the requested port, which listen     *)
(* refused; once main ended there, it holds the next one, which listen    *)
(* refused too; past the block, debugpy listens on the first usable one.  *)
PortInv ==
    /\ pc = "retry" => Requested # 0 /\ port = Requested /\ ~CanListen(Requested)
    /\ pc = "crashed" =>
          /\ Requested # 0 /\ port = Requested + 1
          /\ ~CanListen(Requested) /\ ~CanListen(Requested + 1)
    /\ pc \in Past /\ Requested # 0 =>
          listening = IF CanListen(Requested) THEN Requested ELSE Requested + 1

IInv == TypeOK /\ PortInv
-----------------------------------------------------------------------------
USE DebugAssumption

LEMMA InitIInv == Init => IInv
  <1> SUFFICES ASSUME Init PROVE IInv
    OBVIOUS
  <1>1. stdout \in Seq({"text", "frame"})
    BY EmptySeq DEF Init
  <1>2. TypeOK
    <2>1. MaxPort \in Nat
      BY DEF DebugAssumption
    <2>2. port \in 0..MaxPort + 1 /\ listening \in 0..MaxPort
      BY <2>1 DEF Init
    <2>3. busy \subseteq Ports /\ dbg \in Options /\ dbgWait \in Options
      BY DEF Init
    <2>4. pc = "debug" /\ web \in BOOLEAN /\ waitFlag \in BOOLEAN /\ attached \in BOOLEAN
      BY Zenon DEF Init
    <2>5. QED
      BY <1>1, <2>2, <2>3, <2>4 DEF TypeOK
  <1>3. PortInv
    BY DEF Init, PortInv, Past
  <1>4. QED
    BY <1>2, <1>3 DEF IInv

(* The banner keeps standard output a sequence of texts and frames.        *)
LEMMA PrintedType ==
  ASSUME NEW s \in Seq({"text", "frame"}), NEW n \in Nat
  PROVE  s \o Printed(n) \in Seq({"text", "frame"})
  <1>1. Printed(n) \in Seq({"text", "frame"})
    <2>1. Printed(n) \in [1..n -> {"text", "frame"}]
      BY DEF Printed
    <2>2. QED
      BY <2>1, SeqDef
  <1>2. QED
    BY <1>1, ConcatProperties

(* A listen that succeeds on the first usable one of the requested port  *)
(* and the next moves main past the block with the invariant intact.      *)
LEMMA ListenedStep ==
  ASSUME TypeOK, NEW p \in Ports, Requested # 0,
         p = IF CanListen(Requested) THEN Requested ELSE Requested + 1,
         UNCHANGED <<dbg, dbgWait, busy, web, attached>>,
         listening' = p, pc' = "logging", SetWaitFlag,
         port' \in 0..MaxPort + 1, stdout' \in Seq({"text", "frame"})
  PROVE  IInv'
  <1>1. Requested' = Requested /\ CanListen(Requested)' = CanListen(Requested)
    BY DEF Requested, CanListen
  <1>2. TypeOK'
    <2>1. listening' \in 0..MaxPort /\ waitFlag' \in BOOLEAN
      BY DEF Ports, SetWaitFlag
    <2>2. web' \in BOOLEAN /\ attached' \in BOOLEAN /\ busy' \subseteq Ports
          /\ dbg' \in Options /\ dbgWait' \in Options
      BY DEF TypeOK
    <2>3. QED
      BY <2>1, <2>2 DEF TypeOK
  <1>3. PortInv'
    BY <1>1 DEF PortInv, Past
  <1>4. QED
    BY <1>2, <1>3 DEF IInv

(* Lines 143 and 147 as the invariant sees them: a listen on port p that  *)
(* succeeds moves main past the block with debugpy listening on p.         *)
LEMMA StartStep ==
  ASSUME IInv, StartDebugger PROVE IInv'
  <1> USE DEF IInv, TypeOK, PortInv, Past, Ports
  <1>1. CASE dbg = 0 /\ dbgWait = 0
    BY <1>1 DEF StartDebugger, Requested
  <1>2. CASE dbg # 0 \/ dbgWait # 0
    <2>1. port' = Requested /\ Requested \in Options \ {0}
      BY <1>2 DEF StartDebugger, Requested
    <2>2. stdout' \in Seq({"text", "frame"})
      BY <1>2, PrintedType DEF StartDebugger
    <2>3. UNCHANGED <<dbg, dbgWait, busy, web, attached>> /\ pc' \in {"logging", "retry"}
      BY <1>2 DEF StartDebugger
    <2>4. CASE CanListen(Requested)
      <3>1. listening' = Requested /\ pc' = "logging" /\ SetWaitFlag
        BY <1>2, <2>1, <2>4 DEF StartDebugger
      <3>2. Requested \in Ports /\ port' \in 0..MaxPort + 1
        BY <2>1, <2>4 DEF CanListen
      <3>3. QED
        BY <2>1, <2>2, <2>3, <2>4, <3>1, <3>2, ListenedStep
    <2>5. CASE ~CanListen(Requested)
      BY <1>2, <2>1, <2>2, <2>3, <2>5 DEF StartDebugger, CanListen, Requested
    <2>6. QED
      BY <2>4, <2>5
  <1>3. QED
    BY <1>1, <1>2

(* The except branch: the next port is the only other one tried.          *)
LEMMA RetryStep ==
  ASSUME IInv, RetryDebugger PROVE IInv'
  <1> USE DEF IInv, TypeOK, PortInv, Past, Ports
  <1>1. pc = "retry" /\ port' = Requested + 1 /\ Requested \in Options \ {0}
        /\ ~CanListen(Requested)
    BY DEF RetryDebugger, Requested
  <1>2. UNCHANGED <<dbg, dbgWait, busy, web, attached, stdout>>
    BY DEF RetryDebugger
  <1>3. CASE CanListen(Requested + 1)
    <2>1. listening' = Requested + 1 /\ pc' = "logging" /\ SetWaitFlag
      BY <1>1, <1>3 DEF RetryDebugger
    <2>2. Requested + 1 \in Ports /\ port' \in 0..MaxPort + 1
      BY <1>1, <1>3 DEF CanListen
    <2>3. QED
      BY <1>1, <1>2, <1>3, <2>1, <2>2, ListenedStep
  <1>4. CASE ~CanListen(Requested + 1)
    BY <1>1, <1>2, <1>4 DEF RetryDebugger, CanListen, Requested
  <1>5. QED
    BY <1>3, <1>4

LEMMA IInvStep == IInv /\ [Next]_vars => IInv'
  <1> SUFFICES ASSUME IInv, [Next]_vars PROVE IInv'
    OBVIOUS
  <1>1. CASE StartDebugger
    BY <1>1, StartStep
  <1>2. CASE RetryDebugger
    BY <1>2, RetryStep
  <1>3. CASE AttachClient
    BY <1>3 DEF AttachClient, IInv, TypeOK, PortInv, CanListen, Requested, Ports
  <1>4. CASE SetUpLogging \/ WaitForDebugger \/ CreateServer
    BY <1>4 DEF SetUpLogging, WaitForDebugger, CreateServer, IInv, TypeOK, PortInv,
                Past, CanListen, Requested, Ports
  <1>5. CASE StdioReply
    <2>1. stdout' \in Seq({"text", "frame"})
      BY <1>5, AppendProperties DEF StdioReply, IInv, TypeOK
    <2>2. QED
      BY <1>5, <2>1 DEF StdioReply, IInv, TypeOK, PortInv, Past, CanListen, Requested, Ports
  <1>6. CASE Done \/ UNCHANGED vars
    BY <1>6 DEF Done, vars, IInv, TypeOK, PortInv, Past, CanListen, Requested, Ports
  <1>7. QED
    BY <1>1, <1>2, <1>3, <1>4, <1>5, <1>6 DEF Next

(* Type correctness of main's debugging steps: in particular the retried  *)
(* port is at most one past the last port, and standard output only ever *)
(* holds banner lines and frames.                                          *)
THEOREM DebugTyped == Spec => []TypeOK
  BY InitIInv, IInvStep, PTL DEF Spec, IInv

(* The retry of lines 144-147, for every last port and every pair of      *)
(* option values: main ends in the debugging block only when the          *)
(* requested port and the next one both cannot be listened on, and past   *)
(* the block debugpy listens on the first of them that can.               *)
THEOREM DebugRetryCorrect == Spec => []DebugFailsOnlyWhenPortsTaken
  <1>1. IInv => DebugFailsOnlyWhenPortsTaken
    BY DEF IInv, PortInv, Past, DebugFailsOnlyWhenPortsTaken
  <1>2. QED
    BY <1>1, InitIInv, IInvStep, PTL DEF Spec
=============================================================================
