------------------------------ MODULE Statistics ------------------------------
(***************************************************************************)
(* stats.go: counters that other goroutines change by sending differences  *)
(* over channels, one collecting goroutine per channel.  The model has the *)
(* senders' counter, kept by a difference of +1 and one of -1 around each  *)
(* SendMail goroutine, and the counters of sent and dropped messages.  The *)
(* handlers' counter works like the senders'.                              *)
(*                                                                         *)
(* InitStatistics runs in a goroutine that main does not wait for.  Until  *)
(* it has made a channel the variable is nil, and a send on nil blocks for *)
(* ever, whatever is assigned to the variable later.                       *)
(***************************************************************************)
EXTENDS Integers, Sequences, FiniteSets

CONSTANTS
  Mail,                      \* the messages sent in turn, one goroutine each
  MaxOutcoming,              \* conf.MaxOutcomingConnections
  STATISTICS_CHANNELS_SIZE   \* capacity of the channels but MailSentChannel

ASSUME StatisticsAssumption ==
  /\ IsFiniteSet(Mail)
  /\ MaxOutcoming \in Nat \ {0} /\ STATISTICS_CHANNELS_SIZE \in Nat \ {0}

VARIABLES
  made,          \* how far InitStatistics is
  sendersCh,     \* MailSendersChannel
  droppedCh,     \* MailDroppedChannel
  sendersCount,  \* MailSendersCounter
  sentCount,     \* MailSentCounter
  droppedCount,  \* MailDroppedCounter
  limiter,       \* len(SenderLimiter)
  pc             \* where the goroutine of each message is

channels == <<sendersCh, droppedCh>>
counters == <<sendersCount, sentCount, droppedCount>>
vars == <<made, channels, counters, limiter, pc>>

(* MailSendersChannel is the last to be made; the collectors follow. *)
Progress == <<"nothing", "sentCh", "droppedCh", "sendersCh", "collectors">>
Made(what) == made >= CHOOSE k \in 1..5 : Progress[k] = what

TypeOK ==
  /\ made \in 1..5
  /\ sendersCh \in Seq({1, -1}) /\ Len(sendersCh) <= STATISTICS_CHANNELS_SIZE
  /\ droppedCh \in Seq({1}) /\ Len(droppedCh) <= STATISTICS_CHANNELS_SIZE
  /\ sendersCount \in Int /\ sentCount \in Nat /\ droppedCount \in Nat
  /\ limiter \in 0..MaxOutcoming
  /\ pc \in [Mail -> {"queued", "begin", "sending", "sent", "dropped", "end",
                      "release", "done", "stuck"}]

Init ==
  /\ made = 1
  /\ sendersCh = <<>> /\ droppedCh = <<>>
  /\ sendersCount = 0 /\ sentCount = 0 /\ droppedCount = 0
  /\ limiter = 0
  /\ pc = [m \in Mail |-> "queued"]

Goto(m, from, to) == pc[m] = from /\ pc' = [pc EXCEPT ![m] = to]

InitStatistics ==
  /\ made < 5
  /\ made' = made + 1
  /\ UNCHANGED <<channels, counters, limiter, pc>>

Spawn(m) ==
  /\ limiter < MaxOutcoming
  /\ limiter' = limiter + 1
  /\ Goto(m, "queued", "begin")
  /\ UNCHANGED <<made, channels, counters>>

Send(d) ==
  /\ Len(sendersCh) < STATISTICS_CHANNELS_SIZE
  /\ sendersCh' = Append(sendersCh, d)

(* The first statement of SendMail: on a nil channel the goroutine stops   *)
(* there for good, with its slot.                                          *)
MailSendersIncreaseCounter(m) ==
  \/ /\ Made("sendersCh")
     /\ Send(1)
     /\ Goto(m, "begin", "sending")
     /\ UNCHANGED <<made, droppedCh, counters, limiter>>
  \/ /\ ~Made("sendersCh")
     /\ Goto(m, "begin", "stuck")
     /\ UNCHANGED <<made, channels, counters, limiter>>

SendMail(m) ==
  /\ \E result \in {"sent", "dropped", "end"} : Goto(m, "sending", result)
  /\ UNCHANGED <<made, channels, counters, limiter>>

(* MailSentChannel has no buffer: its collector takes the value at once.   *)
MailSentIncreaseCounter(m) ==
  /\ Made("collectors")
  /\ sentCount' = sentCount + 1
  /\ Goto(m, "sent", "end")
  /\ UNCHANGED <<made, channels, sendersCount, droppedCount, limiter>>

MailDroppedIncreaseCounter(m) ==
  /\ Len(droppedCh) < STATISTICS_CHANNELS_SIZE
  /\ droppedCh' = Append(droppedCh, 1)
  /\ Goto(m, "dropped", "end")
  /\ UNCHANGED <<made, sendersCh, counters, limiter>>

(* Mutant: the slot is given back first. *)
DecreaseAfterRelease(m) ==
  \/ /\ limiter' = limiter - 1
     /\ Goto(m, "end", "release")
     /\ UNCHANGED <<made, channels, counters>>
  \/ /\ Send(-1)
     /\ Goto(m, "release", "done")
     /\ UNCHANGED <<made, droppedCh, counters, limiter>>

(* The deferred function of SendMail: first the counter, then the slot.    *)
MailSendersDecreaseCounter(m) ==
  \/ /\ Send(-1)
     /\ Goto(m, "end", "release")
     /\ UNCHANGED <<made, droppedCh, counters, limiter>>
  \/ /\ limiter' = limiter - 1
     /\ Goto(m, "release", "done")
     /\ UNCHANGED <<made, channels, counters>>

(* Mutant: the difference is taken for the value. *)
CollectSendersAssign ==
  /\ Made("collectors")
  /\ sendersCh # <<>>
  /\ sendersCount' = Head(sendersCh)
  /\ sendersCh' = Tail(sendersCh)
  /\ UNCHANGED <<made, droppedCh, sentCount, droppedCount, limiter, pc>>

CollectSenders ==
  /\ Made("collectors")
  /\ sendersCh # <<>>
  /\ sendersCount' = sendersCount + Head(sendersCh)
  /\ sendersCh' = Tail(sendersCh)
  /\ UNCHANGED <<made, droppedCh, sentCount, droppedCount, limiter, pc>>

(* Mutant: a collector that receives once instead of ranging. *)
CollectDroppedOnce ==
  /\ Made("collectors")
  /\ droppedCh # <<>> /\ droppedCount = 0
  /\ droppedCount' = droppedCount + Head(droppedCh)
  /\ droppedCh' = Tail(droppedCh)
  /\ UNCHANGED <<made, sendersCh, sendersCount, sentCount, limiter, pc>>

CollectDropped ==
  /\ Made("collectors")
  /\ droppedCh # <<>>
  /\ droppedCount' = droppedCount + Head(droppedCh)
  /\ droppedCh' = Tail(droppedCh)
  /\ UNCHANGED <<made, sendersCh, sendersCount, sentCount, limiter, pc>>

Goroutine(m) ==
  \/ Spawn(m) \/ MailSendersIncreaseCounter(m) \/ SendMail(m)
  \/ MailSentIncreaseCounter(m) \/ MailDroppedIncreaseCounter(m)
  \/ MailSendersDecreaseCounter(m)

Next ==
  \/ InitStatistics \/ CollectSenders \/ CollectDropped
  \/ \E m \in Mail : Goroutine(m)

Spec == Init /\ [][Next]_vars

(* Messages are finite, so weak fairness is enough for goroutines that     *)
(* compete for a channel.                                                  *)
FairSpec ==
  /\ Spec
  /\ WF_vars(InitStatistics) /\ WF_vars(CollectSenders) /\ WF_vars(CollectDropped)
  /\ \A m \in Mail : WF_vars(Goroutine(m))

-----------------------------------------------------------------------------
(* Properties *)

(* What the statistics page shows as open outbound connections never leaves the range   *)
(* of the limiter, however late the differences are collected: a slot is   *)
(* given back only after the counter was told.                             *)
SendersInRange == sendersCount \in 0..MaxOutcoming

(* Counting never holds up a message for good once the channels exist:     *)
(* only the messages that were faster than InitStatistics stay behind.     *)
CountingEnds ==
  \A m \in Mail : pc[m] = "sending" ~> pc[m] = "done"

(* What the first k differences in a channel come to.                      *)
At(q, k, d) == {j \in 1..k : q[j] = d}
Net(q, k) == Cardinality(At(q, k, 1)) - Cardinality(At(q, k, -1))

Where(states) == {m \in Mail : pc[m] \in states}

(* Nothing is counted twice or forgotten: when all is collected, the       *)
(* counters agree with what became of the messages.                        *)
CountersAgree ==
  /\ sendersCount + Net(sendersCh, Len(sendersCh))
       = Cardinality(Where({"sending", "sent", "dropped", "end"}))
  /\ sentCount + droppedCount + Len(droppedCh)
       <= Cardinality(Where({"end", "release", "done"}))
=============================================================================
