---------------------------- MODULE MailPipeline ----------------------------
(***************************************************************************)
(* The outgoing half of smtprelay: the two bounded channels of mq.go and   *)
(* the goroutines of sender.go that move queue entries between them.       *)
(*                                                                         *)
(*   listeners --PushMail--> mailCh --CloneMailers--> SendMail goroutines  *)
(*                             ^                            |              *)
(*                             |                        PushError          *)
(*              error handler  |                            v              *)
(*              and FlushErrors+------------------------- errCh            *)
(*                                                                         *)
(* A queue entry is a value that is copied from hand to hand, so the model *)
(* keeps every copy where the code keeps it (a channel slot or the local   *)
(* variable of a goroutine) and nothing says in advance that there is only *)
(* one.  Time is abstract: the delay of a deferred entry elapses whenever  *)
(* the error handler takes its next step.                                  *)
(***************************************************************************)
EXTENDS Naturals, Sequences, FiniteSets

CONSTANTS
  Id,                    \* the queue entries the listeners may push
  MailCap,               \* MAX_MAIL_BUFFER_SIZE, the capacity of mailCh
  ErrCap,                \* MAX_ERROR_BUFFER_SIZE, the capacity of errCh
  MaxOutcoming,          \* conf.MaxOutcomingConnections
  MaxErrors,             \* conf.DeferredMailMaxErrors
  NumMX,                 \* MX records of a recipient domain
  RelayModeEnabled,      \* conf.RelayModeEnabled
  RelayServer,           \* conf.RelayServer
  Hung,                  \* entries whose server may never answer
  None                   \* an empty hand

ASSUME CapacityAssumption ==
  /\ MailCap \in Nat \ {0}
  /\ ErrCap \in Nat \ {0}
  /\ MaxOutcoming \in Nat

ASSUME RetryAssumption ==
  /\ MaxErrors \in Nat
  /\ NumMX \in Nat \ {0}
  /\ RelayModeEnabled \in BOOLEAN

ASSUME IdAssumption == IsFiniteSet(Id) /\ Hung \subseteq Id

(* The servers a message can be aimed at: a position in the domain's MX    *)
(* list or, in relay mode, the relay.                                      *)
Server == IF RelayModeEnabled THEN {RelayServer} ELSE 0..(NumMX - 1)

QueueEntry == [id : Id, errorCount : 0..MaxErrors, server : Server]

ASSUME NoneAssumption == None \notin QueueEntry

VARIABLES
  mailCh,      \* MailChannel
  errCh,       \* ErrorChannel
  cloner,      \* the entry CloneMailers has popped and not yet handed over
  sending,     \* entries of SendMail goroutines talking to a server
  deferring,   \* entries of SendMail goroutines in PushError
  exiting,     \* SendMail goroutines that are done but still hold a slot
  limiter,     \* len(SenderLimiter)
  handler,     \* the entry StartErrorHandler has extracted
  flushPc,     \* where the signal goroutine is in FlushErrors
  flusher,     \* the entry FlushErrors has received
  fate,        \* history: what became of each entry
  tried        \* history: the servers each entry was offered to, in order

channels == <<mailCh, errCh>>
senders == <<sending, deferring, exiting, limiter>>
flush == <<flushPc, flusher>>
history == <<fate, tried>>
vars == <<channels, cloner, senders, handler, flush, history>>

Fates == {"new", "inflight", "sent", "rejected", "expired"}

TypeOK ==
  /\ mailCh \in Seq(QueueEntry) /\ Len(mailCh) <= MailCap
  /\ errCh \in Seq(QueueEntry) /\ Len(errCh) <= ErrCap
  /\ cloner \in QueueEntry \cup {None}
  /\ sending \in SUBSET QueueEntry
  /\ deferring \in SUBSET QueueEntry
  /\ exiting \in Nat
  /\ limiter \in 0..MaxOutcoming
  /\ handler \in QueueEntry \cup {None}
  /\ flushPc \in {"idle", "check", "recv", "send"}
  /\ flusher \in QueueEntry \cup {None}
  /\ fate \in [Id -> Fates]
  /\ tried \in [Id -> Seq(Server)]

Init ==
  /\ mailCh = <<>> /\ errCh = <<>>
  /\ cloner = None
  /\ sending = {} /\ deferring = {} /\ exiting = 0 /\ limiter = 0
  /\ handler = None
  /\ flushPc = "idle" /\ flusher = None
  /\ fate = [i \in Id |-> "new"]
  /\ tried = [i \in Id |-> <<>>]

-----------------------------------------------------------------------------
(* The channel operations of mq.go. *)

PushMail(e) ==
  /\ Len(mailCh) < MailCap
  /\ mailCh' = Append(mailCh, e)

PopMail ==
  /\ mailCh # <<>>
  /\ mailCh' = Tail(mailCh)

(* Mutant: a send that drops the entry when the channel is full. *)
PushErrorOrDrop(e) ==
  errCh' = IF Len(errCh) < ErrCap THEN Append(errCh, e) ELSE errCh

PushError(e) ==
  /\ Len(errCh) < ErrCap
  /\ errCh' = Append(errCh, e)

TakeError ==
  /\ errCh # <<>>
  /\ errCh' = Tail(errCh)

(* lookupMailServer for a domain whose MX list is stable: the record       *)
(* errorCount points at.                                                   *)
MXServer(n) == n % NumMX

(* A listener pushes a new entry, aimed at the relay or at the first MX.   *)
Accept(i) ==
  /\ fate[i] = "new"
  /\ PushMail([id |-> i, errorCount |-> 0,
               server |-> IF RelayModeEnabled THEN RelayServer ELSE MXServer(0)])
  /\ fate' = [fate EXCEPT ![i] = "inflight"]
  /\ UNCHANGED <<errCh, cloner, senders, handler, flush, tried>>

-----------------------------------------------------------------------------
(* CloneMailers *)

ClonerPop ==
  /\ cloner = None
  /\ PopMail
  /\ cloner' = Head(mailCh)
  /\ UNCHANGED <<errCh, senders, handler, flush, history>>

(* Mutant: the limit is compared with <=. *)
ClonerSpawnOneTooMany ==
  /\ cloner # None
  /\ limiter <= MaxOutcoming
  /\ limiter' = limiter + 1
  /\ sending' = sending \cup {cloner}
  /\ cloner' = None
  /\ UNCHANGED <<channels, deferring, exiting, handler, flush, history>>

(* The send on SenderLimiter blocks while all slots are taken.             *)
ClonerSpawn ==
  /\ cloner # None
  /\ limiter < MaxOutcoming
  /\ limiter' = limiter + 1
  /\ sending' = sending \cup {cloner}
  /\ cloner' = None
  /\ UNCHANGED <<channels, deferring, exiting, handler, flush, history>>

-----------------------------------------------------------------------------
(* SendMail.  The goroutine of e ends with a fate for e, and its deferred  *)
(* function gives the slot back in a step of its own.                      *)

Attempt(e) ==
  tried' = [tried EXCEPT ![e.id] = Append(@, e.server)]

(* Mutant: a return path that does not give its slot back. *)
FinishLeak(e, f) ==
  /\ sending' = sending \ {e}
  /\ fate' = [fate EXCEPT ![e.id] = f]
  /\ UNCHANGED <<channels, cloner, deferring, exiting, limiter, handler, flush>>

Finish(e, f) ==
  /\ sending' = sending \ {e}
  /\ exiting' = exiting + 1
  /\ fate' = [fate EXCEPT ![e.id] = f]
  /\ UNCHANGED <<channels, cloner, deferring, limiter, handler, flush>>

SendOk(e) ==
  /\ Attempt(e)
  /\ Finish(e, "sent")

SendPermanentError(e) ==
  /\ Attempt(e)
  /\ Finish(e, "rejected")

(* Mutant: the entry is dropped one attempt early. *)
SendLimitTooEarly(e) ==
  /\ e.errorCount + 2 >= MaxErrors
  /\ Attempt(e)
  /\ Finish(e, "expired")

SendLimitReached(e) ==
  /\ e.errorCount + 1 >= MaxErrors
  /\ Attempt(e)
  /\ Finish(e, "expired")

(* The server of the next attempt; a failed lookup keeps the old one.      *)
NextServer(e, n) ==
  IF RelayModeEnabled THEN {RelayServer} ELSE {MXServer(n), e.server}

(* Mutant: the lookup gets the counter of the attempt that just failed. *)
SendDeferStaleCount(e) ==
  /\ e.errorCount + 1 < MaxErrors
  /\ Attempt(e)
  /\ sending' = sending \ {e}
  /\ \E s \in NextServer(e, e.errorCount) :
       deferring' = deferring \cup {[id |-> e.id, errorCount |-> e.errorCount + 1, server |-> s]}
  /\ UNCHANGED <<channels, cloner, exiting, limiter, handler, flush, fate>>

SendDefer(e) ==
  /\ e.errorCount + 1 < MaxErrors
  /\ Attempt(e)
  /\ sending' = sending \ {e}
  /\ \E s \in NextServer(e, e.errorCount + 1) :
       deferring' = deferring \cup {[id |-> e.id, errorCount |-> e.errorCount + 1, server |-> s]}
  /\ UNCHANGED <<channels, cloner, exiting, limiter, handler, flush, fate>>

SendMail(e) ==
  /\ e \in sending
  /\ SendOk(e) \/ SendPermanentError(e) \/ SendLimitReached(e) \/ SendDefer(e)

(* Mutant: the slot is not given back after a failure that will be tried   *)
(* again.                                                                  *)
PushErrorKeepsSlot(e) ==
  /\ e \in deferring
  /\ PushError(e)
  /\ deferring' = deferring \ {e}
  /\ UNCHANGED <<mailCh, cloner, sending, exiting, limiter, handler, flush, history>>

SenderPushError(e) ==
  /\ e \in deferring
  /\ PushError(e)
  /\ deferring' = deferring \ {e}
  /\ exiting' = exiting + 1
  /\ UNCHANGED <<mailCh, cloner, sending, limiter, handler, flush, history>>

SenderRelease ==
  /\ exiting > 0
  /\ exiting' = exiting - 1
  /\ limiter' = limiter - 1
  /\ UNCHANGED <<channels, cloner, sending, deferring, handler, flush, history>>

-----------------------------------------------------------------------------
(* StartErrorHandler: the extracted entry is in no channel while the       *)
(* handler sleeps until its delay is over.                                 *)

HandlerExtract ==
  /\ handler = None
  /\ TakeError
  /\ handler' = Head(errCh)
  /\ UNCHANGED <<mailCh, cloner, senders, flush, history>>

HandlerPush ==
  /\ handler # None
  /\ PushMail(handler)
  /\ handler' = None
  /\ UNCHANGED <<errCh, cloner, senders, flush, history>>

-----------------------------------------------------------------------------
(* FlushErrors, run by the signal goroutine on SIGUSR2.  The length is     *)
(* read in one step and the receive is another: the error handler may      *)
(* empty the channel in between, and then the receive blocks.              *)

FlushSignal ==
  /\ flushPc = "idle"
  /\ flushPc' = "check"
  /\ UNCHANGED <<channels, cloner, senders, handler, flusher, history>>

FlushCheck ==
  /\ flushPc = "check"
  /\ flushPc' = IF Len(errCh) > 0 THEN "recv" ELSE "idle"
  /\ UNCHANGED <<channels, cloner, senders, handler, flusher, history>>

(* Mutant: a flushed entry starts its attempts afresh. *)
FlushReceiveReset ==
  /\ flushPc = "recv"
  /\ TakeError
  /\ flusher' = [Head(errCh) EXCEPT !.errorCount = 0]
  /\ flushPc' = "send"
  /\ UNCHANGED <<mailCh, cloner, senders, handler, history>>

FlushReceive ==
  /\ flushPc = "recv"
  /\ TakeError
  /\ flusher' = [Head(errCh) EXCEPT !.errorCount = MaxErrors]
  /\ flushPc' = "send"
  /\ UNCHANGED <<mailCh, cloner, senders, handler, history>>

FlushSend ==
  /\ flushPc = "send"
  /\ PushMail(flusher)
  /\ flusher' = None
  /\ flushPc' = "check"
  /\ UNCHANGED <<errCh, cloner, senders, handler, history>>

-----------------------------------------------------------------------------
Senders ==
  \/ \E e \in sending : SendMail(e)
  \/ \E e \in deferring : SenderPushError(e)
  \/ SenderRelease

FlushErrors == FlushCheck \/ FlushReceive \/ FlushSend

Goroutines ==
  \/ ClonerPop \/ ClonerSpawn
  \/ Senders
  \/ HandlerExtract \/ HandlerPush
  \/ FlushErrors

Next ==
  \/ \E i \in Id : Accept(i)
  \/ FlushSignal
  \/ Goroutines

Spec == Init /\ [][Next]_vars

(* Each goroutine keeps running.  An entry makes a bounded number of       *)
(* attempts, so those that compete for a channel do so finitely often and  *)
(* weak fairness is enough.  FlushReceive has none, and neither have the   *)
(* conversations of Hung: the SMTP client sets no deadline, so that the    *)
(* others end is an assumption about their servers.                        *)
Fairness ==
  /\ WF_vars(ClonerPop) /\ WF_vars(ClonerSpawn)
  /\ \A i \in Id \ Hung : WF_vars(\E e \in sending : e.id = i /\ SendMail(e))
  /\ \A i \in Id : WF_vars(\E e \in deferring : e.id = i /\ SenderPushError(e))
  /\ WF_vars(SenderRelease)
  /\ WF_vars(HandlerExtract) /\ WF_vars(HandlerPush)
  /\ WF_vars(FlushCheck) /\ WF_vars(FlushSend)

FairSpec == Spec /\ Fairness

-----------------------------------------------------------------------------
(* Properties *)

Positions(q, i) == {k \in 1..Len(q) : q[k].id = i}

Count(q, i) == Cardinality(Positions(q, i))

CopiesIn(S, i) == {e \in S : e.id = i}

CountIn(S, i) == Cardinality(CopiesIn(S, i))

InHand(h, i) == IF h # None /\ h.id = i THEN 1 ELSE 0

(* The copies of entry i that exist anywhere in the process. *)
Copies(i) ==
  Count(mailCh, i) + Count(errCh, i)
    + CountIn(sending, i) + CountIn(deferring, i)
    + InHand(cloner, i) + InHand(handler, i) + InHand(flusher, i)

(* Conservation: an entry that was pushed and has no fate yet exists       *)
(* exactly once, whatever the interleaving of the cloner, the senders, the *)
(* error handler and a flush; any other entry exists nowhere.  No mail is  *)
(* lost or duplicated inside the relay.                                    *)
Conservation ==
  \A i \in Id : Copies(i) = IF fate[i] = "inflight" THEN 1 ELSE 0

(* The slots of SenderLimiter are exactly the SendMail goroutines that     *)
(* have not finished, on all the return paths of SendMail: no slot leaks   *)
(* and none is given back twice.                                           *)
LimiterExact ==
  limiter = Cardinality(sending) + Cardinality(deferring) + exiting

(* No entry is offered to servers more than MaxErrors times (once, when    *)
(* the limit is 0), flushes included: a flush may only shorten the life of *)
(* an entry.                                                               *)
AttemptsBounded ==
  \A i \in Id : Len(tried[i]) <= IF MaxErrors = 0 THEN 1 ELSE MaxErrors

(* Attempt k of an entry goes to the MX record k selects, or, after a      *)
(* failed lookup, to the server of the attempt before it: the counter that *)
(* travels with the entry, which a flush overwrites, and the server chosen *)
(* for it never come apart.                                                *)
Rotation ==
  \A i \in Id : \A k \in 1..Len(tried[i]) :
    \/ tried[i][k] = (IF RelayModeEnabled THEN RelayServer ELSE MXServer(k - 1))
    \/ k > 1 /\ tried[i][k] = tried[i][k - 1]

InFlight == {i \in Id : fate[i] = "inflight"}

(* Every goroutine of the pipeline is blocked or has nothing to do. *)
Blocked ==
  /\ IF cloner = None THEN mailCh = <<>> ELSE limiter >= MaxOutcoming
  /\ sending = {} /\ exiting = 0
  /\ deferring # {} => Len(errCh) >= ErrCap
  /\ IF handler = None THEN errCh = <<>> ELSE Len(mailCh) >= MailCap
  /\ flushPc # "check"
  /\ flushPc = "recv" => errCh = <<>>
  /\ flushPc = "send" => Len(mailCh) >= MailCap

(* The cycle mailCh -> senders -> errCh -> error handler -> mailCh locks   *)
(* up only when both channels, all the sender slots and the hands of the   *)
(* cloner and of the error handler are full: with a smaller backlog some   *)
(* goroutine can always move.                                              *)
GridlockNeedsBacklog ==
  Blocked /\ InFlight # {} =>
    Cardinality(InFlight) >= MailCap + ErrCap + MaxOutcoming + 2

(* Every accepted entry is eventually delivered or dropped, though signals *)
(* may flush at any time and though fewer than MaxOutcoming servers (those *)
(* of the entries in Hung) never answer and keep their slots for ever.     *)
EveryMailResolved ==
  \A i \in Id \ Hung : fate[i] = "inflight" ~> fate[i] \in {"sent", "rejected", "expired"}

-----------------------------------------------------------------------------
(* The pipeline implements MailSpool. *)

Contents(q) == {q[k] : k \in 1..Len(q)}

Waiting == deferring \cup Contents(errCh) \cup ({handler} \ {None})

Held == Contents(mailCh) \cup sending \cup Waiting \cup ({cloner, flusher} \ {None})

StatusOf(i) ==
  IF fate[i] # "inflight" THEN fate[i]
  ELSE IF \E e \in sending : e.id = i THEN "sending"
  ELSE IF \E e \in Waiting : e.id = i THEN "deferred"
  ELSE "queued"

Spool == INSTANCE MailSpool WITH
  status <- [i \in Id |-> StatusOf(i)],
  attempts <- [i \in Id |-> Len(tried[i])],
  lastChance <- {e.id : e \in {h \in Held : MaxErrors > 0 /\ h.errorCount = MaxErrors}}

(* The channels, hands and counters, with every interleaving of the        *)
(* goroutines, add up to the life of an entry MailSpool describes: offered *)
(* to one server at a time, at most MaxOutcoming at once, dropped for a    *)
(* temporary error only when its attempts are used up or after a flush.    *)
ImplementsSpool == Spool!Spec
=============================================================================
