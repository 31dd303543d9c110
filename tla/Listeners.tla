------------------------------- MODULE Listeners -------------------------------
(***************************************************************************)
(* The two listeners of the process and the goroutine of smtprelay.go that *)
(* stops them.  main starts the three together, so a stop signal may come  *)
(* before a listener is up.                                                *)
(***************************************************************************)
EXTENDS Integers, Sequences, FiniteSets

CONSTANTS
  Conn, Packet, TCPMaxConnections, TCPMaxHandlers, None,   \* TcpListener
  Session, MaxIncomingConnections                          \* SmtpServer

Entry == UNION {UNION {Packet[c][k] : k \in 1..Len(Packet[c])} : c \in Conn}

VARIABLES
  started, loopPc, loopConn, connTokens, handTokens, conn, answer,
  messages, entries, settled, stop, late,                   \* TcpListener
  acceptLoop, stopped, session, slots,                      \* SmtpServer
  stopPc        \* where the signal goroutine is in GracefullyStop

Tcp == INSTANCE TcpListener
Smtp == INSTANCE SmtpServer

ASSUME ListenersAssumption == Tcp!Constants /\ Smtp!Constants

tcpVars == <<started, loopPc, loopConn, connTokens, handTokens, conn, answer,
             messages, entries, settled, stop, late>>
smtpVars == <<acceptLoop, stopped, session, slots>>
vars == <<tcpVars, smtpVars, stopPc>>

TypeOK ==
  /\ Tcp!TypeOK /\ Smtp!TypeOK
  /\ stopPc \in {"run", "smtp", "smtpWait", "tcp", "stopped", "crashed"}

Init == Tcp!Init /\ Smtp!Init /\ stopPc = "run"

-----------------------------------------------------------------------------
TcpStep ==
  /\ Tcp!LoopStep \/ \E c \in Conn : Tcp!HandlerStep(c)
  /\ UNCHANGED <<smtpVars, stopPc>>

TcpPush(c, e) ==
  /\ Tcp!PushEntry(c, e)
  /\ UNCHANGED <<smtpVars, stopPc>>

SmtpStep ==
  /\ Smtp!LoopStep \/ \E i \in Session : Smtp!SessionStep(i)
  /\ UNCHANGED <<tcpVars, stopPc>>

(* A message of the session was handed over; it is the session's last.     *)
SmtpMessage(i) ==
  /\ Smtp!Leave(i)
  /\ UNCHANGED <<tcpVars, stopPc>>

-----------------------------------------------------------------------------
(* The signal goroutine: SIGINT or SIGTERM calls GracefullyStop. *)

StopSignal ==
  /\ stopPc = "run"
  /\ stopPc' = "smtp"
  /\ UNCHANGED <<tcpVars, smtpVars>>

(* StopSMTPServer: server.Listener is nil until Start has set it, and a    *)
(* call of its Stop then is a panic that ends the process.                 *)
StopSmtp ==
  /\ stopPc = "smtp"
  /\ \/ Smtp!Stop /\ stopPc' = "smtpWait"
     \/ /\ ~Smtp!HasListener
        /\ stopPc' = "crashed"
        /\ UNCHANGED smtpVars
  /\ UNCHANGED tcpVars

(* Mutant: Stop closes the channel and does not wait. *)
SmtpStoppedAtOnce ==
  /\ stopPc = "smtpWait"
  /\ stopPc' = "tcp"
  /\ Tcp!Stop
  /\ UNCHANGED smtpVars

(* It returns when the accept loop has ended, or has not begun; then       *)
(* StopTCPListener is called.                                              *)
SmtpStopped ==
  /\ stopPc = "smtpWait"
  /\ Smtp!StopReturns
  /\ stopPc' = "tcp"
  /\ Tcp!Stop
  /\ UNCHANGED smtpVars

TcpStopped ==
  /\ stopPc = "tcp"
  /\ Tcp!Stopped
  /\ stopPc' = "stopped"
  /\ UNCHANGED <<tcpVars, smtpVars>>

StopListeners == StopSmtp \/ SmtpStopped \/ TcpStopped

(* A panic of any goroutine ends the process. *)
Running == stopPc # "crashed" /\ acceptLoop # "failed" /\ loopPc # "failed"

Next ==
  /\ Running
  /\ \/ TcpStep \/ \E c \in Conn, e \in Entry : TcpPush(c, e)
     \/ SmtpStep \/ \E i \in Session : SmtpMessage(i)
     \/ StopSignal \/ StopListeners

Spec == Init /\ [][Next]_vars

(* Fairness, for the steps taken while the process runs.  A TCP connection *)
(* has a deadline, so reading ends; goroutines that compete for tokens     *)
(* need no more than weak fairness, for connections are finite.  The       *)
(* accept loop of the SMTP server has a deadline of a second.  Nothing is  *)
(* assumed of clients, nor of what a session waits for.                    *)
InTcp(A) == Running /\ A /\ UNCHANGED <<smtpVars, stopPc>>
InSmtp(A) == Running /\ A /\ UNCHANGED <<tcpVars, stopPc>>

Fairness ==
  /\ WF_vars(InTcp(Tcp!Listen \/ Tcp!ListenFail))
  /\ WF_vars(InTcp(Tcp!LoopCheck)) /\ WF_vars(InTcp(Tcp!LoopSpawn))
  /\ \A c \in Conn :
       /\ WF_vars(InTcp(Tcp!HandlerStart(c)))
       /\ WF_vars(InTcp(Tcp!HandlerStep(c) \/ \E e \in Entry : Tcp!PushEntry(c, e)))
  /\ WF_vars(InSmtp(Smtp!Start \/ Smtp!ListenFail))
  /\ WF_vars(InSmtp(Smtp!ServeBegin)) /\ WF_vars(InSmtp(Smtp!AcceptStopped))
  /\ \A i \in Session : WF_vars(InSmtp(Smtp!Serve(i)))
  /\ WF_vars(Running /\ StopListeners)

FairSpec == Spec /\ Fairness

-----------------------------------------------------------------------------
(* Properties *)

(* Of the parts, in the presence of each other: see TcpListener and        *)
(* SmtpServer.                                                             *)
TokensBalance == Tcp!TokensBalance
ErrorNothingQueued == Tcp!ErrorNothingQueued
AtMostOneLate == Tcp!AtMostOneLate
SlotsExact == Smtp!SlotsExact

(* A connection the TCP loop has accepted is served to the end unless the  *)
(* process ends: no return path of another connection's handler keeps the  *)
(* token it needs.                                                         *)
EveryConnectionServed ==
  \A c \in Conn : conn[c] = "accepted" ~> conn[c] = "done" \/ ~Running

(* One bad message, or one domain without an MX record, does not cost the  *)
(* rest of its packet: once its handler is at work every message and every *)
(* domain is queued or counted as dropped.                                 *)
PacketSettled ==
  \A c \in Conn :
    conn[c] = "handling" ~>
      \/ Tcp!EntriesOf(c) \subseteq settled["queued"] \cup settled["dropped"]
      \/ ~Running

(* No client gets a session once StopSMTPServer has returned, although it  *)
(* may have returned before the accept loop had begun.                     *)
NoSessionAfterStop ==
  [][(stopPc \in {"tcp", "stopped"}) =>
       \A i \in Session : session'[i] = "begun" => session[i] = "begun"]_vars
=============================================================================
