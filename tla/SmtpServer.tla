------------------------------ MODULE SmtpServer ------------------------------
(***************************************************************************)
(* How SMTP connections become sessions: StoppableSMTPServer of            *)
(* smtplistener.go starts a goroutine that runs Serve of smtpd.go, whose   *)
(* accept loop gives every connection a goroutine; a bounded channel       *)
(* limits how many of those hold a session at a time.  What a session does *)
(* is the subject of SmtpSession.                                          *)
(***************************************************************************)
EXTENDS Integers, FiniteSets

CONSTANTS
  Session,                 \* the connections clients may open
  MaxIncomingConnections   \* conf.MaxIncomingConnections

(* What is assumed of them, where the module is used.                      *)
Constants == IsFiniteSet(Session) /\ MaxIncomingConnections \in Int

(* configureDefaults; a negative number makes no limiter, which is as good *)
(* as a place for everybody.                                               *)
Limit ==
  IF MaxIncomingConnections < 0 THEN Cardinality(Session)
  ELSE IF MaxIncomingConnections = 0 THEN 100 ELSE MaxIncomingConnections

VARIABLES
  acceptLoop,   \* where the goroutine of Start is
  stopped,      \* whether the listener's stop channel is closed
  session,      \* where each connection is in its life
  slots         \* len(limiter)

vars == <<acceptLoop, stopped, session, slots>>

TypeOK ==
  /\ acceptLoop \in {"unbound", "failed", "begin", "accept", "serve", "ended"}
  /\ stopped \in BOOLEAN
  /\ session \in [Session -> {"client", "accepted", "begun", "open", "rejected",
                              "leaving", "done"}]
  /\ slots \in 0..Limit

Init ==
  /\ acceptLoop = "unbound"
  /\ stopped = FALSE
  /\ session = [i \in Session |-> "client"]
  /\ slots = 0

-----------------------------------------------------------------------------
(* StoppableSMTPServer *)

(* The port is bound and server.Listener set, then a goroutine is created. *)
Start ==
  /\ acceptLoop = "unbound"
  /\ acceptLoop' = "begin"
  /\ UNCHANGED <<stopped, session, slots>>

(* StartSMTPServer panics: the process ends.                               *)
ListenFail ==
  /\ acceptLoop = "unbound"
  /\ acceptLoop' = "failed"
  /\ UNCHANGED <<stopped, session, slots>>

(* The goroutine counts itself in the WaitGroup only when it runs.         *)
ServeBegin ==
  /\ acceptLoop = "begin"
  /\ acceptLoop' = "accept"
  /\ UNCHANGED <<stopped, session, slots>>

HasListener == acceptLoop \notin {"unbound", "failed"}

WaitGroup == IF acceptLoop \in {"accept", "serve"} THEN 1 ELSE 0

(* The first half of Stop; without a listener it dereferences nil.         *)
Stop ==
  /\ HasListener
  /\ stopped' = TRUE
  /\ UNCHANGED <<acceptLoop, session, slots>>

(* The second half: WaitGroup.Wait, which no session is counted in.        *)
StopReturns == stopped /\ WaitGroup = 0

-----------------------------------------------------------------------------
(* StoppableListener.Accept, and what Serve makes of its result *)

(* Mutant: the stop channel is looked at before the accept.                *)
AcceptUnchecked(i) ==
  /\ acceptLoop = "accept"
  /\ session[i] = "client"
  /\ session' = [session EXCEPT ![i] = "accepted"]
  /\ acceptLoop' = "serve"
  /\ UNCHANGED <<stopped, slots>>

Accept(i) ==
  /\ acceptLoop = "accept" /\ ~stopped
  /\ session[i] = "client"
  /\ session' = [session EXCEPT ![i] = "accepted"]
  /\ acceptLoop' = "serve"
  /\ UNCHANGED <<stopped, slots>>


(* The deadline of a second wakes the loop when nobody connects; somebody  *)
(* who did connect is dropped.                                             *)
AcceptStopped ==
  /\ acceptLoop = "accept" /\ stopped
  /\ acceptLoop' = "ended"
  /\ \/ UNCHANGED session
     \/ \E i \in Session : /\ session[i] = "client"
                           /\ session' = [session EXCEPT ![i] = "done"]
  /\ UNCHANGED <<stopped, slots>>

(* A temporary error only makes Serve sleep for a second; any other ends   *)
(* it, and the process goes on without an SMTP listener.                   *)
AcceptError ==
  /\ acceptLoop = "accept" /\ ~stopped
  /\ acceptLoop' = "ended"
  /\ UNCHANGED <<stopped, session, slots>>

(* newSession, and a goroutine of its own.                                 *)
Serve(i) ==
  /\ acceptLoop = "serve"
  /\ session[i] = "accepted"
  /\ session' = [session EXCEPT ![i] = "begun"]
  /\ acceptLoop' = "accept"
  /\ UNCHANGED <<stopped, slots>>

-----------------------------------------------------------------------------
(* The goroutine of a connection: a slot of the limiter or a 421.          *)

Admit(i) ==
  /\ session[i] = "begun"
  /\ slots < Limit
  /\ slots' = slots + 1
  /\ session' = [session EXCEPT ![i] = "open"]
  /\ UNCHANGED <<acceptLoop, stopped>>

Reject(i) ==
  /\ session[i] = "begun"
  /\ slots = Limit
  /\ session' = [session EXCEPT ![i] = "rejected"]
  /\ UNCHANGED <<acceptLoop, stopped, slots>>

(* The client quits, breaks off or lets the deadline pass.                 *)
Leave(i) ==
  /\ session[i] = "open"
  /\ session' = [session EXCEPT ![i] = "leaving"]
  /\ UNCHANGED <<acceptLoop, stopped, slots>>

(* Mutant: serve's return does not empty the slot.                         *)
CloseKeepsSlot(i) ==
  /\ session[i] = "leaving"
  /\ session' = [session EXCEPT ![i] = "done"]
  /\ UNCHANGED <<acceptLoop, stopped, slots>>

(* The deferred close, which sleeps, comes before the slot is given back.  *)
Close(i) ==
  /\ session[i] = "leaving"
  /\ session' = [session EXCEPT ![i] = "done"]
  /\ slots' = slots - 1
  /\ UNCHANGED <<acceptLoop, stopped>>

LoopStep ==
  \/ Start \/ ListenFail \/ ServeBegin
  \/ AcceptStopped \/ AcceptError
  \/ \E i \in Session : Accept(i) \/ Serve(i)

(* The steps of a connection's goroutine other than a message.             *)
SessionStep(i) == Admit(i) \/ Reject(i) \/ Leave(i) \/ Close(i)

Next == LoopStep \/ Stop \/ \E i \in Session : SessionStep(i)

Spec == Init /\ [][Next]_vars

-----------------------------------------------------------------------------
(* Properties *)

(* "Max concurrent connections": a session is open only with a slot, every *)
(* way out of a session gives its slot back, and a rejected client took    *)
(* none.                                                                   *)
SlotsExact ==
  /\ slots = Cardinality({i \in Session : session[i] \in {"open", "leaving"}})
  /\ slots <= Limit
=============================================================================
