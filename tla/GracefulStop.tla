----------------------------- MODULE GracefulStop -----------------------------
(***************************************************************************)
(* The whole process around the mail pipeline: the two listeners that feed *)
(* it and the signal goroutine of smtprelay.go, which flushes the error    *)
(* queue on SIGUSR2 and, on SIGINT or SIGTERM, stops the listeners, drains *)
(* the queues and ends the process.                                        *)
(*                                                                         *)
(* An SMTP session carries at most one message for one domain, so it is    *)
(* named by the queue entry it makes.                                      *)
(***************************************************************************)
EXTENDS Integers, Sequences, FiniteSets

CONSTANTS
  SmtpId,                        \* entries that arrive over SMTP
  Conn, Packet,                  \* TCP connections and what they carry
  TCPMaxConnections, TCPMaxHandlers, MaxIncomingConnections,
  MailCap, ErrCap, MaxOutcoming, MaxErrors, NumMX,
  RelayModeEnabled, RelayServer,
  Hung,                          \* entries whose server may never answer
  None

VARIABLES
  mailCh, errCh, cloner, sending, deferring, exiting, limiter, handler,
  flushPc, flusher, fate, tried,                            \* MailPipeline
  started, loopPc, loopConn, connTokens, handTokens, conn, answer,
  messages, entries, settled, stop, late,
  acceptLoop, stopped, session, slots, stopPc,              \* Listeners
  drainPc,      \* where GracefullyStop is once the listeners are stopped
  seen          \* the mail queue length it has read

Front == INSTANCE Listeners WITH Session <- SmtpId
TcpId == Front!Entry
Id == SmtpId \cup TcpId
Pipe == INSTANCE MailPipeline

pipeVars == <<mailCh, errCh, cloner, sending, deferring, exiting, limiter,
              handler, flushPc, flusher, fate, tried>>
frontVars == <<started, loopPc, loopConn, connTokens, handTokens, conn, answer,
               messages, entries, settled, stop, late,
               acceptLoop, stopped, session, slots, stopPc>>
drainVars == <<drainPc, seen>>
vars == <<pipeVars, frontVars, drainVars>>

TypeOK ==
  /\ Pipe!TypeOK
  /\ Front!TypeOK
  /\ drainPc \in {"readMail", "readError", "flush", "drained", "exited"}
  /\ seen \in 0..MailCap

Init ==
  /\ Pipe!Init
  /\ Front!Init
  /\ drainPc = "readMail"
  /\ seen = 0

-----------------------------------------------------------------------------
(* The handlers of both listeners push an entry before the client is       *)
(* answered, and wait while the mail queue is full.                        *)

SmtpMessage(i) ==
  /\ Front!SmtpMessage(i)
  /\ Pipe!Accept(i)
  /\ UNCHANGED drainVars

TcpMessage(c, i) ==
  /\ Front!TcpPush(c, i)
  /\ Pipe!Accept(i)
  /\ UNCHANGED drainVars

FrontStep ==
  /\ Front!TcpStep \/ Front!SmtpStep \/ Front!StopListeners
  /\ UNCHANGED <<pipeVars, drainVars>>

PipeStep ==
  /\ Pipe!Goroutines
  /\ UNCHANGED <<frontVars, drainVars>>

-----------------------------------------------------------------------------
(* The signal goroutine: it serves one signal at a time. *)

FlushQueues ==
  /\ stopPc = "run"
  /\ Pipe!FlushSignal
  /\ UNCHANGED <<frontVars, drainVars>>

StopSignal ==
  /\ flushPc = "idle"
  /\ Front!StopSignal
  /\ UNCHANGED <<pipeVars, drainVars>>

(* GetMailQueueLength()+GetErrorQueueLength() is two reads.                *)
ReadMailLength ==
  /\ stopPc = "stopped" /\ drainPc = "readMail"
  /\ seen' = Len(mailCh)
  /\ drainPc' = "readError"
  /\ UNCHANGED <<pipeVars, frontVars>>

(* Mutant: the loop flushes at least one entry without looking. *)
ReadErrorLengthDoWhile ==
  /\ drainPc = "readError"
  /\ IF seen + Len(errCh) > 0
     THEN drainPc' = "flush" /\ flushPc' = "recv"
     ELSE drainPc' = "drained" /\ UNCHANGED flushPc
  /\ UNCHANGED <<mailCh, errCh, cloner, sending, deferring, exiting, limiter,
                 handler, flusher, fate, tried, frontVars, seen>>

ReadErrorLength ==
  /\ drainPc = "readError"
  /\ IF seen + Len(errCh) > 0
     THEN drainPc' = "flush" /\ flushPc' = "check"
     ELSE drainPc' = "drained" /\ UNCHANGED flushPc
  /\ UNCHANGED <<mailCh, errCh, cloner, sending, deferring, exiting, limiter,
                 handler, flusher, fate, tried, frontVars, seen>>

FlushDone ==
  /\ drainPc = "flush" /\ flushPc = "idle"
  /\ drainPc' = "readMail"
  /\ UNCHANGED <<pipeVars, frontVars, seen>>

(* EXIT <- 1 lets main return. *)
Exit ==
  /\ drainPc = "drained"
  /\ drainPc' = "exited"
  /\ UNCHANGED <<pipeVars, frontVars, seen>>

Drain == ReadMailLength \/ ReadErrorLength \/ FlushDone \/ Exit

Running == Front!Running /\ drainPc # "exited"

Next ==
  /\ Running
  /\ \/ FrontStep \/ \E i \in SmtpId : SmtpMessage(i)
     \/ \E c \in Conn, i \in TcpId : TcpMessage(c, i)
     \/ PipeStep
     \/ FlushQueues \/ StopSignal \/ Drain

Spec == Init /\ [][Next]_vars

(* The fairness of the parts, for the steps taken while the process runs:  *)
(* one conjunct per goroutine (for SenderRelease: for those at their end). *)
(* As in MailPipeline nothing obliges the servers of Hung to answer: the   *)
(* SMTP client sets no deadline, and the stop sets none for it.            *)
InPipe(A) == Running /\ A /\ UNCHANGED <<frontVars, drainVars>>
InFront(A) == Running /\ A /\ UNCHANGED <<pipeVars, drainVars>>

SendingOf(i) == \E e \in sending : e.id = i /\ Pipe!SendMail(e)
DeferringOf(i) == \E e \in deferring : e.id = i /\ Pipe!SenderPushError(e)

TcpHandler(c) ==
  \/ InFront(Front!InTcp(Front!Tcp!HandlerStep(c)))
  \/ Running /\ \E i \in TcpId : TcpMessage(c, i)

SignalGoroutine ==
  \/ InFront(Front!StopListeners)
  \/ Running /\ Drain
  \/ InPipe(Pipe!FlushErrors)

Fairness ==
  /\ WF_vars(InPipe(Pipe!ClonerPop \/ Pipe!ClonerSpawn))
  /\ \A i \in Id \ Hung : WF_vars(InPipe(SendingOf(i)))
  /\ \A i \in Id : WF_vars(InPipe(DeferringOf(i)))
  /\ WF_vars(InPipe(Pipe!SenderRelease))
  /\ WF_vars(InPipe(Pipe!HandlerExtract \/ Pipe!HandlerPush))
  /\ WF_vars(SignalGoroutine)
  /\ \A c \in Conn : WF_vars(TcpHandler(c))
  /\ \A i \in SmtpId : WF_vars(InFront(Front!InSmtp(Front!Smtp!Serve(i))))
  /\ WF_vars(InFront(Front!InSmtp(Front!Smtp!ServeBegin \/ Front!Smtp!AcceptStopped)))

FairSpec == Spec /\ Fairness

-----------------------------------------------------------------------------
(* Properties *)

(* To the pipeline the listeners, the signals and the stop are one         *)
(* environment it was made for: what holds of MailPipeline holds here,     *)
(* flushes from the stop loop included, until the process ends.            *)
ImplementsPipeline == Pipe!Spec

(* FlushErrors waits for an entry the error handler has taken from under   *)
(* it.                                                                     *)
FlushHangs == flushPc = "recv" /\ errCh = <<>>

(* Every slot of SenderLimiter belongs to a conversation whose server      *)
(* never answers: what is left in the queues stays there.                  *)
SlotsHang == Cardinality({e \in sending : e.id \in Hung}) >= MaxOutcoming


(* What the log says GracefullyStop waits for: at the end of the process   *)
(* every message accepted was delivered or dropped.                        *)
OutgoingDrained == drainPc = "exited" => Pipe!InFlight = {}

(* What the log says StopSMTPServer waits for: no session is at work once  *)
(* it has returned.                                                        *)
IncomingDrained ==
  stopPc \in {"tcp", "stopped"} => \A i \in SmtpId : session[i] # "open"

(* What the log says StopTCPListener waits for: no connection is being     *)
(* served once it has returned.                                            *)
TcpDrained ==
  stopPc = "stopped" =>
    \A c \in Conn : conn[c] \in {"client", "done"}
=============================================================================
