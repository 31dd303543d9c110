-------------------------- MODULE GracefulStopProofs --------------------------
(* Theorems about GracefulStop: the listeners, the signals and the drain   *)
(* loop of a stop use the pipeline only as MailPipeline allows.            *)
EXTENDS GracefulStop, TLAPS

(* One goroutine flushes, and never two at a time: once a stop is under    *)
(* way no signal is served, and the drain loop begins a flush only after   *)
(* the one before it has ended.                                            *)
OneFlush ==
  /\ stopPc # "run" /\ drainPc # "flush" => flushPc = "idle"
  /\ drainPc # "readMail" => stopPc = "stopped"

LEMMA InitOneFlush == Init => OneFlush
  BY DEF Init, OneFlush, Front!Init

-----------------------------------------------------------------------------
(* No goroutine of the pipeline begins a flush by itself.                  *)
LEMMA PipeIdle == ASSUME flushPc = "idle", Pipe!Goroutines PROVE flushPc' = "idle"
<1>1. CASE Pipe!Senders
  BY <1>1 DEF Pipe!Senders, Pipe!SendMail, Pipe!SendOk, Pipe!SendPermanentError, Pipe!SendLimitReached, Pipe!Finish,
              Pipe!SendDefer, Pipe!SenderPushError, Pipe!SenderRelease, Pipe!flush
<1> QED
  BY <1>1 DEF Pipe!Goroutines, Pipe!ClonerPop, Pipe!ClonerSpawn, Pipe!HandlerExtract,
              Pipe!HandlerPush, Pipe!FlushErrors, Pipe!FlushCheck, Pipe!FlushReceive,
              Pipe!FlushSend, Pipe!flush

(* A stop that is under way stays so.                                      *)
LEMMA FrontStops ==
  ASSUME FrontStep
  PROVE  /\ stopPc = "run" <=> stopPc' = "run"
         /\ stopPc = "stopped" => stopPc' = "stopped"
<1>1. CASE Front!TcpStep \/ Front!SmtpStep
  BY <1>1 DEF Front!TcpStep, Front!SmtpStep
<1>2. CASE Front!StopListeners
  BY <1>2 DEF Front!StopListeners, Front!StopSmtp, Front!SmtpStopped, Front!TcpStopped
<1> QED
  BY <1>1, <1>2 DEF FrontStep

LEMMA NextOneFlush == OneFlush /\ [Next]_vars => OneFlush'
<1> SUFFICES ASSUME OneFlush, [Next]_vars PROVE OneFlush'
  OBVIOUS
<1>1. CASE UNCHANGED vars
  BY <1>1 DEF vars, pipeVars, frontVars, drainVars, OneFlush
<1>2. CASE FrontStep
  BY <1>2, FrontStops DEF FrontStep, pipeVars, drainVars, OneFlush
<1>3. ASSUME NEW i \in SmtpId, SmtpMessage(i) PROVE OneFlush'
  BY <1>3 DEF SmtpMessage, Front!SmtpMessage, Pipe!Accept, Pipe!flush, drainVars, OneFlush
<1>4. ASSUME NEW c \in Conn, NEW i \in TcpId, TcpMessage(c, i) PROVE OneFlush'
  BY <1>4 DEF TcpMessage, Front!TcpPush, Pipe!Accept, Pipe!flush, drainVars, OneFlush
<1>5. CASE PipeStep
  BY <1>5, PipeIdle DEF PipeStep, frontVars, drainVars, OneFlush
<1>6. CASE FlushQueues
  BY <1>6 DEF FlushQueues, Pipe!FlushSignal, frontVars, drainVars, OneFlush
<1>7. CASE StopSignal
  BY <1>7 DEF StopSignal, Front!StopSignal, pipeVars, drainVars, OneFlush
<1>8. CASE Drain
  BY <1>8 DEF Drain, ReadMailLength, ReadErrorLength, FlushDone, Exit, pipeVars,
              frontVars, OneFlush
<1> QED
  BY <1>1, <1>2, <1>3, <1>4, <1>5, <1>6, <1>7, <1>8 DEF Next

-----------------------------------------------------------------------------
(* A step of the process is a step of the pipeline or leaves it alone; the *)
(* drain loop's turn to flush is a flush signal.                           *)
LEMMA NextPipe == OneFlush /\ [Next]_vars => [Pipe!Next]_(Pipe!vars)
<1> SUFFICES ASSUME OneFlush, [Next]_vars PROVE Pipe!Next \/ UNCHANGED Pipe!vars
  OBVIOUS
<1>1. UNCHANGED pipeVars => UNCHANGED Pipe!vars
  BY DEF pipeVars, Pipe!vars, Pipe!channels, Pipe!senders, Pipe!flush, Pipe!history
<1>2. CASE UNCHANGED vars \/ FrontStep \/ StopSignal
  BY <1>1, <1>2 DEF vars, FrontStep, StopSignal
<1>3. ASSUME NEW i \in SmtpId, SmtpMessage(i) PROVE Pipe!Next
  BY <1>3 DEF SmtpMessage, Pipe!Next, Id
<1>4. ASSUME NEW c \in Conn, NEW i \in TcpId, TcpMessage(c, i) PROVE Pipe!Next
  BY <1>4 DEF TcpMessage, Pipe!Next, Id
<1>5. CASE PipeStep \/ FlushQueues
  BY <1>5 DEF PipeStep, FlushQueues, Pipe!Next
<1>6. CASE ReadErrorLength
  <2>1. CASE seen + Len(errCh) > 0
    <3>1. flushPc = "idle" /\ flushPc' = "check"
      BY <1>6, <2>1 DEF ReadErrorLength, OneFlush
    <3>2. Pipe!FlushSignal
      BY <1>6, <3>1 DEF ReadErrorLength, Pipe!FlushSignal, Pipe!channels, Pipe!senders,
                        Pipe!history
    <3> QED
      BY <3>2 DEF Pipe!Next
  <2>2. CASE ~(seen + Len(errCh) > 0)
    BY <1>1, <1>6, <2>2 DEF ReadErrorLength, pipeVars
  <2> QED
    BY <2>1, <2>2
<1>7. CASE ReadMailLength \/ FlushDone \/ Exit
  BY <1>1, <1>7 DEF ReadMailLength, FlushDone, Exit
<1> QED
  BY <1>2, <1>3, <1>4, <1>5, <1>6, <1>7 DEF Next, Drain

(* Whatever signals come and whenever the stop comes, the pipeline in the  *)
(* process behaves as MailPipeline says: flushes of the drain loop         *)
(* included, there is never more than one flush under way.                 *)
THEOREM PipelineImplemented == Spec => ImplementsPipeline
<1>1. Init => Pipe!Init
  BY DEF Init
<1> QED
  BY <1>1, InitOneFlush, NextOneFlush, NextPipe, PTL DEF Spec, ImplementsPipeline, Pipe!Spec
=============================================================================
