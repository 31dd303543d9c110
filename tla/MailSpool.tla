------------------------------ MODULE MailSpool ------------------------------
(***************************************************************************)
(* What the outgoing half of smtprelay promises, with no channels and no   *)
(* goroutines: each entry is queued, offered to a server, and then sent,   *)
(* dropped, or set aside to be queued again, a bounded number of times.    *)
(***************************************************************************)
EXTENDS Naturals, FiniteSets

CONSTANTS
  Id,            \* the entries
  MaxErrors,     \* conf.DeferredMailMaxErrors
  MaxOutcoming   \* conf.MaxOutcomingConnections

VARIABLES
  status,        \* where each entry is in its life
  attempts,      \* how often each entry was offered to a server
  lastChance     \* unresolved entries an operator flushed: the next failure
                 \* drops them

vars == <<status, attempts, lastChance>>

Final == {"sent", "rejected", "expired"}

TypeOK ==
  /\ status \in [Id -> {"new", "queued", "sending", "deferred"} \cup Final]
  /\ attempts \in [Id -> Nat]
  /\ lastChance \in SUBSET Id

Init ==
  /\ status = [i \in Id |-> "new"]
  /\ attempts = [i \in Id |-> 0]
  /\ lastChance = {}

Move(i, from, to) ==
  /\ status[i] = from
  /\ status' = [status EXCEPT ![i] = to]

Attempt(i) == attempts' = [attempts EXCEPT ![i] = @ + 1]

Accept(i) ==
  /\ Move(i, "new", "queued")
  /\ UNCHANGED <<attempts, lastChance>>

End(i, fate) ==
  /\ Move(i, "sending", fate)
  /\ Attempt(i)
  /\ lastChance' = lastChance \ {i}

(* An entry is offered to one server at a time, and at most MaxOutcoming   *)
(* entries are being offered at once.                                      *)
Begin(i) ==
  /\ Cardinality({j \in Id : status[j] = "sending"}) < MaxOutcoming
  /\ Move(i, "queued", "sending")
  /\ UNCHANGED <<attempts, lastChance>>

Succeed(i) == End(i, "sent")

Reject(i) == End(i, "rejected")

(* An entry expires only when its attempts are used up or it was flushed.  *)
Expire(i) ==
  /\ attempts[i] + 1 >= MaxErrors \/ i \in lastChance
  /\ End(i, "expired")

Defer(i) ==
  /\ attempts[i] + 1 < MaxErrors
  /\ i \notin lastChance
  /\ Move(i, "sending", "deferred")
  /\ Attempt(i)
  /\ UNCHANGED lastChance

Requeue(i) ==
  /\ Move(i, "deferred", "queued")
  /\ UNCHANGED <<attempts, lastChance>>

Flush(i) ==
  /\ Move(i, "deferred", "queued")
  /\ lastChance' = lastChance \cup {i}
  /\ UNCHANGED attempts

Next ==
  \E i \in Id :
    \/ Accept(i) \/ Begin(i)
    \/ Succeed(i) \/ Reject(i) \/ Expire(i) \/ Defer(i)
    \/ Requeue(i) \/ Flush(i)

Spec == Init /\ [][Next]_vars
=============================================================================
