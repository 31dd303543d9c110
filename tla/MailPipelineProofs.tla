-------------------------- MODULE MailPipelineProofs --------------------------
(* Theorems about MailPipeline, for every value of its constants: types,   *)
(* conservation and the attempts of an entry; then the life of an entry,   *)
(* which is the refinement of MailSpool; then when the goroutines block    *)
(* one another.                                                            *)
EXTENDS MailPipeline, FiniteSetTheorems, TLAPS

-----------------------------------------------------------------------------
(* Counting the copies of an entry in a channel and in a set. *)

(* The positions of an entry in a channel are finitely many. *)
LEMMA CountType ==
  ASSUME NEW S, NEW q \in Seq(S), NEW i
  PROVE  /\ IsFiniteSet(Positions(q, i))
         /\ Count(q, i) \in Nat
         /\ Count(q, i) = 0 => \A k \in 1..Len(q) : q[k].id # i
<1>1. IsFiniteSet(1..Len(q))
  BY FS_Interval
<1>2. Positions(q, i) \in SUBSET (1..Len(q))
  BY DEF Positions
<1>3. IsFiniteSet(Positions(q, i))
  BY <1>1, <1>2, FS_Subset
<1>4. Count(q, i) \in Nat
  BY <1>3, FS_CardinalityType DEF Count
<1>5. Count(q, i) = 0 => Positions(q, i) = {}
  BY <1>3, FS_EmptySet DEF Count
<1> QED
  BY <1>3, <1>4, <1>5 DEF Positions

(* A send adds one copy of the entry sent and of no other. *)
LEMMA CountAppend ==
  ASSUME NEW S, NEW q \in Seq(S), NEW e \in S, NEW i
  PROVE  Count(Append(q, e), i) = Count(q, i) + (IF e.id = i THEN 1 ELSE 0)
<1> DEFINE n == Len(q) + 1
<1>1. /\ Len(Append(q, e)) = n
      /\ \A k \in 1..Len(q) : Append(q, e)[k] = q[k]
      /\ Append(q, e)[n] = e
      /\ n \notin 1..Len(q) /\ 1..n = (1..Len(q)) \cup {n}
  OBVIOUS
<1>2. n \notin Positions(q, i)
  BY <1>1 DEF Positions
<1>3. IsFiniteSet(Positions(q, i))
  BY CountType
<1>4. CASE e.id = i
  <2>1. Positions(Append(q, e), i) = Positions(q, i) \cup {n}
    BY <1>1, <1>4 DEF Positions
  <2>2. Cardinality(Positions(q, i) \cup {n}) = Cardinality(Positions(q, i)) + 1
    BY <1>2, <1>3, FS_AddElement
  <2>3. Count(Append(q, e), i) = Count(q, i) + 1
    BY <2>1, <2>2 DEF Count
  <2> QED
    BY <1>4, <2>3
<1>5. CASE e.id # i
  <2>1. Positions(Append(q, e), i) = Positions(q, i)
    BY <1>1, <1>5 DEF Positions
  <2>2. Count(q, i) \in Nat
    BY CountType
  <2> QED
    BY <2>1, <2>2, <1>5 DEF Count
<1> QED
  BY <1>4, <1>5

(* A receive removes one copy of the entry received and of no other. *)
LEMMA CountTail ==
  ASSUME NEW S, NEW q \in Seq(S), q # <<>>, NEW i
  PROVE  Count(q, i) = Count(Tail(q), i) + (IF Head(q).id = i THEN 1 ELSE 0)
<1> DEFINE P == Positions(q, i) \ {1}
           T == Positions(Tail(q), i)
           f == [k \in P |-> k - 1]
<1>1. /\ Len(q) \in Nat /\ Len(q) > 0 /\ Head(q) = q[1]
      /\ Tail(q) \in Seq(S) /\ Len(Tail(q)) = Len(q) - 1
      /\ \A k \in 1..Len(Tail(q)) : Tail(q)[k] = q[k + 1]
  OBVIOUS
<1>2. IsFiniteSet(Positions(q, i)) /\ IsFiniteSet(P)
  BY CountType, FS_RemoveElement
<1>3. f \in Bijection(P, T)
  <2>1. f \in [P -> T]
    BY <1>1 DEF Positions
  <2>2. \A x, y \in P : f[x] = f[y] => x = y
    BY <1>1 DEF Positions
  <2>3. \A t \in T : t + 1 \in P /\ f[t + 1] = t
    BY <1>1 DEF Positions
  <2> QED
    BY <2>1, <2>2, <2>3 DEF Bijection, Injection, Surjection, IsInjective
<1>4. Cardinality(T) = Cardinality(P)
  BY <1>2, <1>3, FS_Bijection DEF ExistsBijection
<1>5. 1 \in Positions(q, i) <=> Head(q).id = i
  BY <1>1 DEF Positions
<1>6. Cardinality(P) = IF Head(q).id = i THEN Cardinality(Positions(q, i)) - 1
                                         ELSE Cardinality(Positions(q, i))
  BY <1>2, <1>5, FS_RemoveElement
<1>7. Cardinality(Positions(q, i)) \in Nat
  BY <1>2, FS_CardinalityType
<1> QED
  BY <1>4, <1>6, <1>7 DEF Count

(* The same for the sets of senders. *)
LEMMA CountInType ==
  ASSUME NEW S, IsFiniteSet(S), NEW i
  PROVE  /\ IsFiniteSet(CopiesIn(S, i))
         /\ CountIn(S, i) \in Nat
         /\ CountIn(S, i) = 0 => \A e \in S : e.id # i
<1>0. CopiesIn(S, i) \in SUBSET S
  BY DEF CopiesIn
<1>1. IsFiniteSet(CopiesIn(S, i))
  BY <1>0, FS_Subset
<1>2. CountIn(S, i) \in Nat
  BY <1>1, FS_CardinalityType DEF CountIn
<1>3. CountIn(S, i) = 0 => CopiesIn(S, i) = {}
  BY <1>1, FS_EmptySet DEF CountIn
<1> QED
  BY <1>1, <1>2, <1>3 DEF CopiesIn

(* A goroutine that takes an entry in hand adds one copy of it.            *)
LEMMA CountInAdd ==
  ASSUME NEW S, IsFiniteSet(S), NEW x, x \notin S, NEW i
  PROVE  /\ IsFiniteSet(S \cup {x})
         /\ CountIn(S \cup {x}, i) = CountIn(S, i) + (IF x.id = i THEN 1 ELSE 0)
<1>1. /\ IsFiniteSet(CopiesIn(S, i)) /\ CountIn(S, i) \in Nat
      /\ IsFiniteSet(S \cup {x})
  BY CountInType, FS_AddElement
<1>2. /\ x \notin CopiesIn(S, i)
      /\ CopiesIn(S \cup {x}, i) = IF x.id = i THEN CopiesIn(S, i) \cup {x} ELSE CopiesIn(S, i)
  BY DEF CopiesIn
<1>3. Cardinality(CopiesIn(S, i) \cup {x}) = CountIn(S, i) + 1
  BY <1>1, <1>2, FS_AddElement DEF CountIn
<1>4. CASE x.id = i
  BY <1>1, <1>2, <1>3, <1>4 DEF CountIn
<1>5. CASE x.id # i
  BY <1>1, <1>2, <1>5 DEF CountIn
<1> QED
  BY <1>4, <1>5

(* A goroutine that lets its entry go removes one copy of it.              *)
LEMMA CountInRemove ==
  ASSUME NEW S, IsFiniteSet(S), NEW x \in S, NEW i
  PROVE  /\ IsFiniteSet(S \ {x})
         /\ CountIn(S, i) = CountIn(S \ {x}, i) + (IF x.id = i THEN 1 ELSE 0)
<1>1. IsFiniteSet(S \ {x}) /\ x \notin S \ {x} /\ S = (S \ {x}) \cup {x}
  BY FS_RemoveElement
<1> QED
  BY <1>1, CountInAdd

-----------------------------------------------------------------------------
(* The inductive invariant.  The bound on limiter needs the exact count of *)
(* the slots, that count needs that an entry handed to a new sender is not *)
(* being sent already, and that is what Conservation says.                 *)

FlushHand == flushPc = "send" <=> flusher # None

Inv ==
  /\ TypeOK
  /\ IsFiniteSet(sending) /\ IsFiniteSet(deferring)
  /\ FlushHand
  /\ LimiterExact
  /\ Conservation

(* Every term of Copies is a number, so no term exceeds the sum. *)
LEMMA CopiesTerms ==
  ASSUME Inv, NEW i \in Id
  PROVE  /\ Count(mailCh, i) \in Nat /\ Count(errCh, i) \in Nat
         /\ CountIn(sending, i) \in Nat /\ CountIn(deferring, i) \in Nat
         /\ InHand(cloner, i) \in {0, 1} /\ InHand(handler, i) \in {0, 1}
         /\ InHand(flusher, i) \in {0, 1}
         /\ Copies(i) <= 1
         /\ Copies(i) = 1 <=> fate[i] = "inflight"
<1>1. Count(mailCh, i) \in Nat /\ Count(errCh, i) \in Nat
  BY CountType DEF Inv, TypeOK
<1>2. CountIn(sending, i) \in Nat /\ CountIn(deferring, i) \in Nat
  BY CountInType DEF Inv
<1> QED
  BY <1>1, <1>2 DEF Inv, Conservation, InHand

(* The channels, the hands and the limiter start empty.                    *)
LEMMA InitInv == Init => Inv
<1> SUFFICES ASSUME Init PROVE Inv
  OBVIOUS
<1> USE DEF Init
<1>1. TypeOK
  BY CapacityAssumption DEF TypeOK, Fates, QueueEntry
<1>2. IsFiniteSet(sending) /\ IsFiniteSet(deferring) /\ Cardinality({}) = 0
  BY FS_EmptySet
<1>3. FlushHand /\ LimiterExact
  BY <1>2 DEF FlushHand, LimiterExact
<1>4. Conservation
  <2> SUFFICES ASSUME NEW i \in Id PROVE Copies(i) = 0
    BY DEF Conservation
  <2>1. Positions(<<>>, i) = {} /\ CopiesIn({}, i) = {}
    BY DEF Positions, CopiesIn
  <2>2. Count(<<>>, i) = 0 /\ CountIn({}, i) = 0
    BY <2>1, <1>2 DEF Count, CountIn
  <2> QED
    BY <2>2 DEF Copies, InHand
<1> QED
  BY <1>1, <1>2, <1>3, <1>4 DEF Inv

-----------------------------------------------------------------------------
(* One lemma per step. *)

(* A listener's push makes the first copy of an entry, for the entry had   *)
(* none while it was new.                                                  *)
LEMMA AcceptInv ==
  ASSUME Inv, NEW i \in Id, Accept(i)
  PROVE  Inv'
<1> DEFINE s == IF RelayModeEnabled THEN RelayServer ELSE MXServer(0)
           e == [id |-> i, errorCount |-> 0, server |-> s]
<1>1. e \in QueueEntry
  BY RetryAssumption DEF QueueEntry, Server, MXServer
<1>2. mailCh' = Append(mailCh, e)
  BY DEF Accept, PushMail
<1>3. TypeOK'
  <2>1. mailCh' \in Seq(QueueEntry) /\ Len(mailCh') <= MailCap
    BY <1>1, <1>2, CapacityAssumption DEF Inv, TypeOK, Accept, PushMail
  <2>2. fate' \in [Id -> Fates]
    BY DEF Inv, TypeOK, Accept, Fates
  <2> QED
    BY <2>1, <2>2 DEF Inv, TypeOK, Accept, flush, senders
<1>4. Conservation'
  <2> SUFFICES ASSUME NEW j \in Id
               PROVE Copies(j)' = IF fate'[j] = "inflight" THEN 1 ELSE 0
    BY DEF Conservation
  <2>1. Count(mailCh', j) = Count(mailCh, j) + (IF i = j THEN 1 ELSE 0)
    BY <1>1, <1>2, CountAppend DEF Inv, TypeOK
  <2>2. Copies(j)' = Copies(j) + (IF i = j THEN 1 ELSE 0)
    BY <2>1, CopiesTerms DEF Copies, Accept, flush, senders
  <2>3. Copies(j) = IF fate[j] = "inflight" THEN 1 ELSE 0
    BY DEF Inv, Conservation
  <2> QED
    BY <2>2, <2>3 DEF Inv, TypeOK, Accept
<1> QED
  BY <1>3, <1>4 DEF Inv, Accept, flush, senders, FlushHand, LimiterExact

(* CloneMailers moves the head of mailCh to its hand.                      *)
LEMMA ClonerPopInv ==
  ASSUME Inv, ClonerPop
  PROVE  Inv'
<1>1. Head(mailCh) \in QueueEntry
  BY DEF Inv, TypeOK, ClonerPop, PopMail
<1>2. TypeOK'
  <2>1. mailCh' \in Seq(QueueEntry) /\ Len(mailCh') <= MailCap
    BY CapacityAssumption DEF Inv, TypeOK, ClonerPop, PopMail
  <2> QED
    BY <1>1, <2>1 DEF Inv, TypeOK, ClonerPop, flush, senders, history
<1>3. Conservation'
  <2> SUFFICES ASSUME NEW j \in Id
               PROVE Copies(j)' = Copies(j)
    BY DEF Inv, Conservation, ClonerPop, history
  <2>1. Count(mailCh, j) = Count(mailCh', j) + (IF Head(mailCh).id = j THEN 1 ELSE 0)
    BY CountTail DEF Inv, TypeOK, ClonerPop, PopMail
  <2>2. InHand(cloner, j) = 0 /\ InHand(cloner', j) = IF Head(mailCh).id = j THEN 1 ELSE 0
    BY <1>1, NoneAssumption DEF ClonerPop, InHand
  <2>3. Count(mailCh', j) \in Nat
    BY <1>2, CountType DEF TypeOK
  <2> QED
    BY <2>1, <2>2, <2>3, CopiesTerms DEF Copies, ClonerPop, flush, senders
<1> QED
  BY <1>2, <1>3 DEF Inv, ClonerPop, flush, senders, FlushHand, LimiterExact

(* The entry the cloner holds is not being sent: it exists only once. *)
LEMMA ClonerSpawnInv ==
  ASSUME Inv, ClonerSpawn
  PROVE  Inv'
<1>1. cloner \in QueueEntry /\ cloner.id \in Id /\ cloner \notin sending
  <2>1. cloner \in QueueEntry /\ cloner.id \in Id /\ InHand(cloner, cloner.id) = 1
    BY DEF Inv, TypeOK, ClonerSpawn, QueueEntry, InHand
  <2>2. CountIn(sending, cloner.id) = 0
    BY <2>1, CopiesTerms DEF Copies
  <2> QED
    BY <2>1, <2>2, CountInType DEF Inv
<1>2. TypeOK'
  <2>1. sending' \in SUBSET QueueEntry
    BY <1>1 DEF Inv, TypeOK, ClonerSpawn
  <2>2. limiter' \in 0..MaxOutcoming
    BY CapacityAssumption DEF Inv, TypeOK, ClonerSpawn
  <2> QED
    BY <2>1, <2>2 DEF Inv, TypeOK, ClonerSpawn, channels, flush, history
<1>3. IsFiniteSet(sending') /\ IsFiniteSet(deferring')
  BY FS_AddElement DEF Inv, ClonerSpawn
<1>4. LimiterExact'
  <2>1. Cardinality(sending') = Cardinality(sending) + 1
    BY <1>1, FS_AddElement DEF Inv, ClonerSpawn
  <2>2. Cardinality(sending) \in Nat /\ Cardinality(deferring) \in Nat
    BY FS_CardinalityType DEF Inv
  <2> QED
    BY <2>1, <2>2 DEF Inv, TypeOK, LimiterExact, ClonerSpawn
<1>5. Conservation'
  <2> SUFFICES ASSUME NEW j \in Id
               PROVE Copies(j)' = Copies(j)
    BY DEF Inv, Conservation, ClonerSpawn, history
  <2>1. CountIn(sending', j) = CountIn(sending, j) + (IF cloner.id = j THEN 1 ELSE 0)
    BY <1>1, CountInAdd DEF Inv, ClonerSpawn
  <2>2. InHand(cloner', j) = 0 /\ InHand(cloner, j) = IF cloner.id = j THEN 1 ELSE 0
    BY DEF ClonerSpawn, InHand
  <2> QED
    BY <2>1, <2>2, CopiesTerms DEF Copies, ClonerSpawn, channels, flush
<1> QED
  BY <1>2, <1>3, <1>4, <1>5 DEF Inv, ClonerSpawn, flush, FlushHand

(* A goroutine that ends with a fate gives up the only copy of its entry   *)
(* and keeps its slot until its deferred function runs.                    *)
LEMMA FinishInv ==
  ASSUME Inv, NEW e \in sending, NEW f \in {"sent", "rejected", "expired"},
         Attempt(e), Finish(e, f)
  PROVE  Inv'
<1>1. e \in QueueEntry /\ e.id \in Id /\ e.server \in Server
  BY DEF Inv, TypeOK, QueueEntry
<1>2. TypeOK'
  <2>1. fate' \in [Id -> Fates] /\ tried' \in [Id -> Seq(Server)]
    BY <1>1 DEF Inv, TypeOK, Finish, Attempt, Fates
  <2> QED
    BY <2>1 DEF Inv, TypeOK, Finish, channels, flush
<1>3. IsFiniteSet(sending') /\ IsFiniteSet(deferring')
  BY FS_RemoveElement DEF Inv, Finish
<1>4. LimiterExact'
  <2>1. Cardinality(sending') = Cardinality(sending) - 1
    BY FS_RemoveElement DEF Inv, Finish
  <2>2. Cardinality(sending) \in Nat /\ Cardinality(deferring) \in Nat
    BY FS_CardinalityType DEF Inv
  <2>3. exiting \in Nat /\ limiter = Cardinality(sending) + Cardinality(deferring) + exiting
    BY DEF Inv, TypeOK, LimiterExact
  <2> QED
    BY <2>1, <2>2, <2>3 DEF LimiterExact, Finish
<1>5. Conservation'
  <2> SUFFICES ASSUME NEW j \in Id
               PROVE Copies(j)' = IF fate'[j] = "inflight" THEN 1 ELSE 0
    BY DEF Conservation
  <2>1. CountIn(sending, j) = CountIn(sending', j) + (IF e.id = j THEN 1 ELSE 0)
    BY CountInRemove DEF Inv, Finish
  <2>2. CountIn(sending', j) \in Nat
    BY <1>3, CountInType
  <2>3. Copies(j) = Copies(j)' + (IF e.id = j THEN 1 ELSE 0)
    BY <2>1, <2>2, CopiesTerms DEF Copies, Finish, channels, flush
  <2>4. Copies(j)' \in Nat
    BY <2>2, CopiesTerms DEF Copies, Finish, channels, flush
  <2>5. fate'[j] = IF e.id = j THEN f ELSE fate[j]
    BY DEF Inv, TypeOK, Finish
  <2> QED
    BY <2>3, <2>4, <2>5, CopiesTerms
<1> QED
  BY <1>2, <1>3, <1>4, <1>5 DEF Inv, Finish, flush, FlushHand

(* The entry that is deferred gets a higher counter, and no copy of it was *)
(* being deferred already.                                                 *)
LEMMA SendDeferInv ==
  ASSUME Inv, NEW e \in sending, SendDefer(e)
  PROVE  Inv'
<1>1. e \in QueueEntry /\ e.id \in Id /\ e.server \in Server
  BY DEF Inv, TypeOK, QueueEntry
<1> PICK s \in NextServer(e, e.errorCount + 1) :
      deferring' = deferring \cup {[id |-> e.id, errorCount |-> e.errorCount + 1, server |-> s]}
  BY DEF SendDefer
<1> DEFINE d == [id |-> e.id, errorCount |-> e.errorCount + 1, server |-> s]
<1>2. d \in QueueEntry /\ d.id = e.id
  <2>1. e.errorCount \in 0..MaxErrors /\ e.errorCount + 1 < MaxErrors
    BY <1>1 DEF QueueEntry, SendDefer
  <2>2. s \in Server
    BY <1>1, <2>1, RetryAssumption DEF NextServer, Server, MXServer
  <2> QED
    BY <1>1, <2>1, <2>2, RetryAssumption DEF QueueEntry
<1> HIDE DEF d
<1>3. deferring' = deferring \cup {d} /\ sending' = sending \ {e}
  BY DEF d, SendDefer
<1>4. d \notin deferring
  <2>1. CountIn(sending, e.id) # 0
    BY CountInType DEF Inv
  <2>2. CountIn(deferring, e.id) = 0
    BY <1>1, <2>1, CopiesTerms DEF Copies
  <2> QED
    BY <1>2, <2>2, CountInType DEF Inv
<1>5. TypeOK'
  <2>1. tried' \in [Id -> Seq(Server)]
    BY <1>1 DEF Inv, TypeOK, SendDefer, Attempt
  <2> QED
    BY <1>2, <1>3, <2>1 DEF Inv, TypeOK, SendDefer, channels, flush
<1>6. IsFiniteSet(sending') /\ IsFiniteSet(deferring')
  BY <1>3, FS_RemoveElement, FS_AddElement DEF Inv
<1>7. LimiterExact'
  <2>1. Cardinality(sending') = Cardinality(sending) - 1
    BY <1>3, FS_RemoveElement DEF Inv
  <2>2. Cardinality(deferring') = Cardinality(deferring) + 1
    BY <1>3, <1>4, FS_AddElement DEF Inv
  <2>3. Cardinality(sending) \in Nat /\ Cardinality(deferring) \in Nat
    BY FS_CardinalityType DEF Inv
  <2> QED
    BY <2>1, <2>2, <2>3 DEF Inv, TypeOK, LimiterExact, SendDefer
<1>8. Conservation'
  <2> SUFFICES ASSUME NEW j \in Id
               PROVE Copies(j)' = Copies(j)
    BY DEF Inv, Conservation, SendDefer
  <2>1. CountIn(sending, j) = CountIn(sending', j) + (IF e.id = j THEN 1 ELSE 0)
    BY <1>3, CountInRemove DEF Inv
  <2>2. CountIn(deferring', j) = CountIn(deferring, j) + (IF e.id = j THEN 1 ELSE 0)
    <3>1. CountIn(deferring \cup {d}, j) = CountIn(deferring, j) + (IF d.id = j THEN 1 ELSE 0)
      BY <1>4, CountInAdd DEF Inv
    <3> QED
      BY <1>2, <1>3, <3>1
  <2>3. CountIn(sending', j) \in Nat
    BY <1>6, CountInType
  <2> QED
    BY <2>1, <2>2, <2>3, CopiesTerms DEF Copies, SendDefer, channels, flush
<1> QED
  BY <1>5, <1>6, <1>7, <1>8 DEF Inv, SendDefer, flush, FlushHand

(* All four ways SendMail goes on after an attempt.                        *)
LEMMA SendMailInv ==
  ASSUME Inv, NEW e \in sending, SendMail(e)
  PROVE  Inv'
<1>1. CASE SendOk(e)
  BY <1>1, FinishInv DEF SendOk
<1>2. CASE SendPermanentError(e)
  BY <1>2, FinishInv DEF SendPermanentError
<1>3. CASE SendLimitReached(e)
  BY <1>3, FinishInv DEF SendLimitReached
<1>4. CASE SendDefer(e)
  BY <1>4, SendDeferInv
<1> QED
  BY <1>1, <1>2, <1>3, <1>4 DEF SendMail

(* A deferred entry moves from its goroutine to errCh.                     *)
LEMMA SenderPushErrorInv ==
  ASSUME Inv, NEW e \in deferring, SenderPushError(e)
  PROVE  Inv'
<1>1. e \in QueueEntry /\ e.id \in Id
  BY DEF Inv, TypeOK, QueueEntry
<1>2. TypeOK'
  <2>1. errCh' \in Seq(QueueEntry) /\ Len(errCh') <= ErrCap
    BY <1>1, CapacityAssumption DEF Inv, TypeOK, SenderPushError, PushError
  <2> QED
    BY <2>1 DEF Inv, TypeOK, SenderPushError, flush, history
<1>3. IsFiniteSet(sending') /\ IsFiniteSet(deferring')
  BY FS_RemoveElement DEF Inv, SenderPushError
<1>4. LimiterExact'
  <2>1. Cardinality(deferring') = Cardinality(deferring) - 1
    BY FS_RemoveElement DEF Inv, SenderPushError
  <2>2. Cardinality(sending) \in Nat /\ Cardinality(deferring) \in Nat
    BY FS_CardinalityType DEF Inv
  <2>3. exiting \in Nat /\ limiter = Cardinality(sending) + Cardinality(deferring) + exiting
    BY DEF Inv, TypeOK, LimiterExact
  <2> QED
    BY <2>1, <2>2, <2>3 DEF LimiterExact, SenderPushError
<1>5. Conservation'
  <2> SUFFICES ASSUME NEW j \in Id
               PROVE Copies(j)' = Copies(j)
    BY DEF Inv, Conservation, SenderPushError, history
  <2>1. CountIn(deferring, j) = CountIn(deferring', j) + (IF e.id = j THEN 1 ELSE 0)
    BY CountInRemove DEF Inv, SenderPushError
  <2>2. Count(errCh', j) = Count(errCh, j) + (IF e.id = j THEN 1 ELSE 0)
    BY <1>1, CountAppend DEF Inv, TypeOK, SenderPushError, PushError
  <2>3. CountIn(deferring', j) \in Nat
    BY <1>3, CountInType
  <2> QED
    BY <2>1, <2>2, <2>3, CopiesTerms DEF Copies, SenderPushError, flush
<1> QED
  BY <1>2, <1>3, <1>4, <1>5 DEF Inv, SenderPushError, flush, FlushHand

(* The deferred function of SendMail gives back a slot that was taken.     *)
LEMMA SenderReleaseInv ==
  ASSUME Inv, SenderRelease
  PROVE  Inv'
<1>1. Cardinality(sending) \in Nat /\ Cardinality(deferring) \in Nat
  BY FS_CardinalityType DEF Inv
<1>2. /\ exiting \in Nat /\ exiting > 0 /\ limiter \in 0..MaxOutcoming
      /\ limiter = Cardinality(sending) + Cardinality(deferring) + exiting
  BY DEF Inv, TypeOK, LimiterExact, SenderRelease
<1>3. /\ exiting' \in Nat /\ limiter' \in 0..MaxOutcoming
      /\ limiter' = Cardinality(sending) + Cardinality(deferring) + exiting'
  BY <1>1, <1>2, CapacityAssumption DEF SenderRelease
<1>4. TypeOK' /\ LimiterExact'
  BY <1>3 DEF Inv, TypeOK, LimiterExact, SenderRelease, channels, flush, history
<1> QED
  BY <1>4 DEF Inv, SenderRelease, channels, flush, history, FlushHand, Conservation, Copies

(* StartErrorHandler moves the head of errCh to its hand.                  *)
LEMMA HandlerExtractInv ==
  ASSUME Inv, HandlerExtract
  PROVE  Inv'
<1>1. Head(errCh) \in QueueEntry
  BY DEF Inv, TypeOK, HandlerExtract, TakeError
<1>2. TypeOK'
  <2>1. errCh' \in Seq(QueueEntry) /\ Len(errCh') <= ErrCap
    BY CapacityAssumption DEF Inv, TypeOK, HandlerExtract, TakeError
  <2> QED
    BY <1>1, <2>1 DEF Inv, TypeOK, HandlerExtract, flush, senders, history
<1>3. Conservation'
  <2> SUFFICES ASSUME NEW j \in Id
               PROVE Copies(j)' = Copies(j)
    BY DEF Inv, Conservation, HandlerExtract, history
  <2>1. Count(errCh, j) = Count(errCh', j) + (IF Head(errCh).id = j THEN 1 ELSE 0)
    BY CountTail DEF Inv, TypeOK, HandlerExtract, TakeError
  <2>2. InHand(handler, j) = 0 /\ InHand(handler', j) = IF Head(errCh).id = j THEN 1 ELSE 0
    BY <1>1, NoneAssumption DEF HandlerExtract, InHand
  <2>3. Count(errCh', j) \in Nat
    BY <1>2, CountType DEF TypeOK
  <2> QED
    BY <2>1, <2>2, <2>3, CopiesTerms DEF Copies, HandlerExtract, flush, senders
<1> QED
  BY <1>2, <1>3 DEF Inv, HandlerExtract, flush, senders, FlushHand, LimiterExact

(* StartErrorHandler moves the entry in its hand to mailCh.                *)
LEMMA HandlerPushInv ==
  ASSUME Inv, HandlerPush
  PROVE  Inv'
<1>1. handler \in QueueEntry
  BY DEF Inv, TypeOK, HandlerPush
<1>2. TypeOK'
  <2>1. mailCh' \in Seq(QueueEntry) /\ Len(mailCh') <= MailCap
    BY <1>1, CapacityAssumption DEF Inv, TypeOK, HandlerPush, PushMail
  <2> QED
    BY <2>1 DEF Inv, TypeOK, HandlerPush, flush, senders, history
<1>3. Conservation'
  <2> SUFFICES ASSUME NEW j \in Id
               PROVE Copies(j)' = Copies(j)
    BY DEF Inv, Conservation, HandlerPush, history
  <2>1. Count(mailCh', j) = Count(mailCh, j) + (IF handler.id = j THEN 1 ELSE 0)
    BY <1>1, CountAppend DEF Inv, TypeOK, HandlerPush, PushMail
  <2>2. InHand(handler', j) = 0 /\ InHand(handler, j) = IF handler.id = j THEN 1 ELSE 0
    BY DEF HandlerPush, InHand
  <2> QED
    BY <2>1, <2>2, CopiesTerms DEF Copies, HandlerPush, flush, senders
<1> QED
  BY <1>2, <1>3 DEF Inv, HandlerPush, flush, senders, FlushHand, LimiterExact

(* FlushErrors takes the head of errCh; the counter it overwrites is no    *)
(* part of what identifies the entry.                                      *)
LEMMA FlushReceiveInv ==
  ASSUME Inv, FlushReceive
  PROVE  Inv'
<1> DEFINE e == [Head(errCh) EXCEPT !.errorCount = MaxErrors]
<1>1. Head(errCh) \in QueueEntry
  BY DEF Inv, TypeOK, FlushReceive, TakeError
<1>2. e \in QueueEntry /\ e.id = Head(errCh).id
  BY <1>1, RetryAssumption DEF QueueEntry
<1> HIDE DEF e
<1>3. flusher' = e /\ flusher = None
  BY DEF e, FlushReceive, Inv, FlushHand
<1>4. e # None
  BY <1>2, NoneAssumption
<1>5. TypeOK'
  <2>1. errCh' \in Seq(QueueEntry) /\ Len(errCh') <= ErrCap
    BY CapacityAssumption DEF Inv, TypeOK, FlushReceive, TakeError
  <2> QED
    BY <1>2, <1>3, <2>1 DEF Inv, TypeOK, FlushReceive, senders, history
<1>6. FlushHand'
  BY <1>3, <1>4 DEF FlushHand, FlushReceive
<1>7. Conservation'
  <2> SUFFICES ASSUME NEW j \in Id
               PROVE Copies(j)' = Copies(j)
    BY DEF Inv, Conservation, FlushReceive, history
  <2>1. Count(errCh, j) = Count(errCh', j) + (IF Head(errCh).id = j THEN 1 ELSE 0)
    BY CountTail DEF Inv, TypeOK, FlushReceive, TakeError
  <2>2. InHand(flusher, j) = 0 /\ InHand(flusher', j) = IF Head(errCh).id = j THEN 1 ELSE 0
    BY <1>2, <1>3, <1>4 DEF InHand
  <2>3. Count(errCh', j) \in Nat
    BY <1>5, CountType DEF TypeOK
  <2> QED
    BY <2>1, <2>2, <2>3, CopiesTerms DEF Copies, FlushReceive, senders
<1> QED
  BY <1>5, <1>6, <1>7 DEF Inv, FlushReceive, senders, LimiterExact

(* FlushErrors moves the entry it received to mailCh.                      *)
LEMMA FlushSendInv ==
  ASSUME Inv, FlushSend
  PROVE  Inv'
<1>1. flusher \in QueueEntry /\ flusher # None
  BY DEF Inv, TypeOK, FlushHand, FlushSend
<1>2. TypeOK'
  <2>1. mailCh' \in Seq(QueueEntry) /\ Len(mailCh') <= MailCap
    BY <1>1, CapacityAssumption DEF Inv, TypeOK, FlushSend, PushMail
  <2> QED
    BY <2>1 DEF Inv, TypeOK, FlushSend, senders, history
<1>3. Conservation'
  <2> SUFFICES ASSUME NEW j \in Id
               PROVE Copies(j)' = Copies(j)
    BY DEF Inv, Conservation, FlushSend, history
  <2>1. Count(mailCh', j) = Count(mailCh, j) + (IF flusher.id = j THEN 1 ELSE 0)
    BY <1>1, CountAppend DEF Inv, TypeOK, FlushSend, PushMail
  <2>2. InHand(flusher', j) = 0 /\ InHand(flusher, j) = IF flusher.id = j THEN 1 ELSE 0
    BY <1>1 DEF FlushSend, InHand
  <2> QED
    BY <2>1, <2>2, CopiesTerms DEF Copies, FlushSend, senders
<1> QED
  BY <1>2, <1>3 DEF Inv, FlushSend, senders, FlushHand, LimiterExact

(* The steps that move no entry. *)
LEMMA FlushControlInv ==
  ASSUME Inv, FlushSignal \/ FlushCheck \/ UNCHANGED vars
  PROVE  Inv'
<1>1. /\ flushPc' \in {"idle", "check", "recv", "send"} /\ FlushHand'
      /\ UNCHANGED <<channels, cloner, senders, handler, flusher, history>>
  BY DEF Inv, TypeOK, FlushHand, FlushSignal, FlushCheck, vars, flush
<1> QED
  BY <1>1 DEF Inv, TypeOK, LimiterExact, Conservation, Copies, channels, senders, history

-----------------------------------------------------------------------------
(* The theorems. *)

(* Every step preserves the invariant: one case for each lemma above.      *)
LEMMA NextInv == Inv /\ [Next]_vars => Inv'
<1> SUFFICES ASSUME Inv, [Next]_vars PROVE Inv'
  OBVIOUS
<1>1. CASE \E i \in Id : Accept(i)
  BY <1>1, AcceptInv
<1>2. CASE FlushSignal \/ FlushCheck \/ UNCHANGED vars
  BY <1>2, FlushControlInv
<1>3. CASE ClonerPop
  BY <1>3, ClonerPopInv
<1>4. CASE ClonerSpawn
  BY <1>4, ClonerSpawnInv
<1>5. CASE \E e \in sending : SendMail(e)
  BY <1>5, SendMailInv
<1>6. CASE \E e \in deferring : SenderPushError(e)
  BY <1>6, SenderPushErrorInv
<1>7. CASE SenderRelease
  BY <1>7, SenderReleaseInv
<1>8. CASE HandlerExtract
  BY <1>8, HandlerExtractInv
<1>9. CASE HandlerPush
  BY <1>9, HandlerPushInv
<1>10. CASE FlushReceive
  BY <1>10, FlushReceiveInv
<1>11. CASE FlushSend
  BY <1>11, FlushSendInv
<1> QED
  BY <1>1, <1>2, <1>3, <1>4, <1>5, <1>6, <1>7, <1>8, <1>9, <1>10, <1>11
     DEF Next, Goroutines, Senders, FlushErrors

(* The invariant holds of every behaviour of the pipeline, for any number  *)
(* of entries, capacities, slots, attempts and MX records.                 *)
THEOREM InvariantHolds == Spec => []Inv
  BY InitInv, NextInv, PTL DEF Spec

(* Type correctness: in particular no channel and no limiter of mq.go and  *)
(* sender.go ever exceeds its capacity, and the counter of an entry never  *)
(* exceeds DeferredMailMaxErrors.                                          *)
THEOREM TypeCorrect == Spec => []TypeOK
  BY InvariantHolds, PTL DEF Inv

(* No entry is lost or duplicated by the interleavings of the cloner, the  *)
(* senders, the error handler and a flush.                                 *)
THEOREM NothingLost == Spec => []Conservation
  BY InvariantHolds, PTL DEF Inv

(* Every return path of SendMail gives its slot back exactly once.         *)
THEOREM SlotsBalance == Spec => []LimiterExact
  BY InvariantHolds, PTL DEF Inv

-----------------------------------------------------------------------------
(* The attempts of an entry.  The counter that travels with the only copy  *)
(* of an entry is never behind the attempts it has made: a failed attempt  *)
(* raises both, and a flush raises the counter alone.  That there is one   *)
(* copy comes from Conservation.                                           *)

AttemptLimit == IF MaxErrors = 0 THEN 1 ELSE MaxErrors

AttemptsLeft ==
  /\ \A i \in Id : fate[i] = "new" => tried[i] = <<>>
  /\ \A e \in Held : Len(tried[e.id]) <= e.errorCount /\ Len(tried[e.id]) < AttemptLimit
  /\ AttemptsBounded

(* The copies other than the one goroutine e has. *)
HeldElsewhere(e) ==
  Contents(mailCh) \cup (sending \ {e}) \cup Waiting \cup ({cloner, flusher} \ {None})

(* An entry that is being sent is in no other place. *)
LEMMA SentIsAlone ==
  ASSUME Inv, NEW e \in sending
  PROVE  /\ \A h \in HeldElsewhere(e) : h.id # e.id
         /\ fate[e.id] = "inflight"
<1>1. e.id \in Id
  BY DEF Inv, TypeOK, QueueEntry
<1> DEFINE i == e.id
<1>2. CountIn(sending, i) = CountIn(sending \ {e}, i) + 1
  BY CountInRemove DEF Inv
<1>3. CountIn(sending \ {e}, i) \in Nat /\ IsFiniteSet(sending \ {e})
  BY CountInType, CountInRemove DEF Inv
<1> HIDE DEF i
<1>4. /\ Count(mailCh, i) = 0 /\ Count(errCh, i) = 0
      /\ CountIn(sending \ {e}, i) = 0 /\ CountIn(deferring, i) = 0
      /\ InHand(cloner, i) = 0 /\ InHand(handler, i) = 0 /\ InHand(flusher, i) = 0
      /\ Copies(i) = 1
  BY <1>1, <1>2, <1>3, CopiesTerms DEF Copies, i
<1>5. \A h \in Contents(mailCh) \cup Contents(errCh) : h.id # i
  <2>1. \A q \in Seq(QueueEntry) : Count(q, i) = 0 => \A h \in Contents(q) : h.id # i
    BY CountType DEF Contents
  <2> QED
    BY <1>4, <2>1 DEF Inv, TypeOK
<1>6. \A h \in (sending \ {e}) \cup deferring : h.id # i
  BY <1>3, <1>4, CountInType DEF Inv
<1>7. \A h \in {cloner, handler, flusher} \ {None} : h.id # i
  BY <1>4 DEF InHand
<1>8. fate[i] = "inflight"
  BY <1>1, <1>4, CopiesTerms DEF i
<1> QED
  BY <1>5, <1>6, <1>7, <1>8 DEF HeldElsewhere, Waiting, i

(* The channels and hands start empty. *)
LEMMA InitAttempts == Init => AttemptsLeft
<1> SUFFICES ASSUME Init PROVE AttemptsLeft
  OBVIOUS
<1>1. \A i \in Id : tried[i] = <<>> /\ Len(tried[i]) = 0
  BY DEF Init
<1>2. Held = {}
  BY DEF Init, Held, Waiting, Contents
<1> QED
  BY <1>1, <1>2, RetryAssumption DEF AttemptsLeft, AttemptsBounded

(* What a channel holds after a send and after a receive. *)
LEMMA ContentsAppend ==
  ASSUME NEW q \in Seq(QueueEntry), NEW e \in QueueEntry
  PROVE  Contents(Append(q, e)) = Contents(q) \cup {e}
<1>1. /\ Len(q) \in Nat /\ Len(Append(q, e)) = Len(q) + 1
      /\ Append(q, e)[Len(q) + 1] = e
      /\ \A k \in 1..Len(q) : Append(q, e)[k] = q[k]
  OBVIOUS
<1>2. 1..(Len(q) + 1) = (1..Len(q)) \cup {Len(q) + 1}
  BY <1>1
<1> QED
  BY <1>1, <1>2, Zenon DEF Contents

LEMMA ContentsTail ==
  ASSUME NEW q \in Seq(QueueEntry), q # <<>>
  PROVE  /\ Contents(Tail(q)) \subseteq Contents(q)
         /\ Head(q) \in Contents(q)
  BY DEF Contents

(* A step that offers nothing to a server and brings in no new copy. *)
LEMMA MoveAttempts ==
  ASSUME Inv, AttemptsLeft, UNCHANGED tried, Held' \subseteq Held,
         \A i \in Id : fate'[i] = "new" => fate[i] = "new"
  PROVE  AttemptsLeft'
  BY DEF AttemptsLeft, AttemptsBounded

(* An attempt that ends its entry, or defers it with a counter one higher. *)
LEMMA SendAttempts ==
  ASSUME Inv, AttemptsLeft, NEW e \in sending, Attempt(e),
         \A h \in Held' : \/ h \in HeldElsewhere(e)
                          \/ /\ h.id = e.id /\ h.errorCount = e.errorCount + 1
                             /\ h.errorCount < MaxErrors,
         \A i \in Id : fate'[i] = "new" => fate[i] = "new" /\ i # e.id
  PROVE  AttemptsLeft'
<1>1. e \in QueueEntry /\ e.id \in Id /\ e.errorCount \in Nat /\ e.server \in Server
  BY RetryAssumption DEF Inv, TypeOK, QueueEntry
<1>2. tried \in [Id -> Seq(Server)]
  BY DEF Inv, TypeOK
<1>3. e \in Held /\ HeldElsewhere(e) \subseteq Held
  BY DEF Held, HeldElsewhere
<1>4. \A h \in HeldElsewhere(e) : h \in QueueEntry /\ h.id \in Id /\ h.id # e.id
  <2>1. HeldElsewhere(e) \subseteq QueueEntry
    BY DEF HeldElsewhere, Contents, Waiting, Inv, TypeOK
  <2> QED
    BY <2>1, SentIsAlone DEF QueueEntry
<1>5. \A i \in Id : tried'[i] = IF i = e.id THEN Append(tried[i], e.server) ELSE tried[i]
  BY <1>2 DEF Attempt
<1>6. Len(tried[e.id]) \in Nat /\ Len(tried'[e.id]) = Len(tried[e.id]) + 1
  <2>1. tried[e.id] \in Seq(Server) /\ tried'[e.id] = Append(tried[e.id], e.server)
    BY <1>1, <1>2, <1>5
  <2> QED
    BY <1>1, <2>1
<1>7. Len(tried[e.id]) <= e.errorCount /\ Len(tried[e.id]) < AttemptLimit
  BY <1>3 DEF AttemptsLeft
<1>8. AttemptLimit \in Nat
  BY RetryAssumption DEF AttemptLimit
<1>9. \A i \in Id : fate'[i] = "new" => tried'[i] = <<>>
  BY <1>5 DEF AttemptsLeft
<1>10. \A h \in Held' : Len(tried'[h.id]) <= h.errorCount /\ Len(tried'[h.id]) < AttemptLimit
  <2> SUFFICES ASSUME NEW h \in Held'
               PROVE Len(tried'[h.id]) <= h.errorCount /\ Len(tried'[h.id]) < AttemptLimit
    OBVIOUS
  <2>1. CASE h \in HeldElsewhere(e)
    BY <1>3, <1>4, <1>5, <2>1 DEF AttemptsLeft
  <2>2. CASE h.id = e.id /\ h.errorCount = e.errorCount + 1 /\ h.errorCount < MaxErrors
    BY <1>1, <1>6, <1>7, <1>8, <2>2, RetryAssumption DEF AttemptLimit
  <2> QED
    BY <2>1, <2>2
<1>11. AttemptsBounded'
  <2> SUFFICES ASSUME NEW i \in Id PROVE Len(tried'[i]) <= AttemptLimit
    BY DEF AttemptsBounded, AttemptLimit
  <2>1. CASE i = e.id
    BY <1>6, <1>7, <1>8, <2>1
  <2>2. CASE i # e.id
    BY <1>5, <2>2 DEF AttemptsLeft, AttemptsBounded, AttemptLimit
  <2> QED
    BY <2>1, <2>2
<1> QED
  BY <1>9, <1>10, <1>11 DEF AttemptsLeft, AttemptLimit

(* Every step preserves what the attempts of an entry are bounded by.      *)
LEMMA NextAttempts == Inv /\ AttemptsLeft /\ [Next]_vars => AttemptsLeft'
<1> SUFFICES ASSUME Inv, AttemptsLeft, [Next]_vars PROVE AttemptsLeft'
  OBVIOUS
<1> USE DEF Inv, TypeOK
<1>1. CASE \E i \in Id : Accept(i)
  <2> SUFFICES ASSUME NEW i \in Id, Accept(i) PROVE AttemptsLeft'
    BY <1>1
  <2> DEFINE e == [id |-> i, errorCount |-> 0,
                   server |-> IF RelayModeEnabled THEN RelayServer ELSE MXServer(0)]
  <2>1. e \in QueueEntry
    BY RetryAssumption DEF QueueEntry, Server, MXServer
  <2>2. Contents(mailCh') = Contents(mailCh) \cup {e}
    BY <2>1, ContentsAppend DEF Accept, PushMail
  <2>3. Held' = Held \cup {e} /\ tried[i] = <<>> /\ e.id = i /\ e.errorCount = 0
    BY <2>2 DEF Held, Waiting, Accept, senders, flush, AttemptsLeft
  <2>4. Len(tried[i]) <= e.errorCount /\ Len(tried[i]) < AttemptLimit
    BY <2>3, RetryAssumption DEF AttemptLimit
  <2>5. \A j \in Id : fate'[j] = "new" => fate[j] = "new"
    BY DEF Accept
  <2> HIDE DEF e
  <2> QED
    BY <2>3, <2>4, <2>5 DEF AttemptsLeft, AttemptsBounded, Accept
<1>2. CASE FlushSignal \/ FlushCheck \/ UNCHANGED vars
  BY <1>2, MoveAttempts DEF FlushSignal, FlushCheck, vars, channels, senders, flush, history,
     Held, Waiting
<1>3. CASE ClonerPop
  <2>1. Contents(mailCh') \subseteq Contents(mailCh) /\ cloner' \in Contents(mailCh)
    BY <1>3, ContentsTail DEF ClonerPop, PopMail
  <2> QED
    BY <1>3, <2>1, MoveAttempts DEF ClonerPop, Held, Waiting, senders, flush, history
<1>4. CASE ClonerSpawn
  BY <1>4, MoveAttempts DEF ClonerSpawn, Held, Waiting, channels, flush, history
<1>5. CASE \E e \in sending : SendMail(e)
  <2> SUFFICES ASSUME NEW e \in sending, SendMail(e) PROVE AttemptsLeft'
    BY <1>5
  <2>0. e \in QueueEntry /\ e.id \in Id /\ e.errorCount \in Nat
    BY RetryAssumption DEF QueueEntry
  <2>1. ASSUME NEW f \in Fates, f # "new", Attempt(e), Finish(e, f)
        PROVE  AttemptsLeft'
    <3>1. Held' \subseteq HeldElsewhere(e)
      BY <2>1 DEF Finish, Held, HeldElsewhere, Waiting, channels, flush
    <3>2. \A i \in Id : fate'[i] = "new" => fate[i] = "new" /\ i # e.id
      BY <2>0, <2>1 DEF Finish
    <3> QED
      BY <2>1, <3>1, <3>2, SendAttempts
  <2>2. CASE SendDefer(e)
    <3>1. PICK s \in NextServer(e, e.errorCount + 1) :
            deferring' = deferring \cup
              {[id |-> e.id, errorCount |-> e.errorCount + 1, server |-> s]}
      BY <2>2 DEF SendDefer
    <3> DEFINE d == [id |-> e.id, errorCount |-> e.errorCount + 1, server |-> s]
    <3>2. Held' \subseteq HeldElsewhere(e) \cup {d}
      BY <2>2, <3>1 DEF SendDefer, Held, HeldElsewhere, Waiting, channels, flush
    <3>3. d.id = e.id /\ d.errorCount = e.errorCount + 1 /\ d.errorCount < MaxErrors
      BY <2>2 DEF SendDefer
    <3>4. \A i \in Id : fate'[i] = "new" => fate[i] = "new" /\ i # e.id
      BY <2>2, SentIsAlone DEF SendDefer
    <3>5. Attempt(e)
      BY <2>2 DEF SendDefer
    <3> HIDE DEF d
    <3> QED
      BY <3>2, <3>3, <3>4, <3>5, SendAttempts
  <2>3. CASE SendOk(e)
    BY <2>1, <2>3 DEF SendOk, Fates
  <2>4. CASE SendPermanentError(e)
    BY <2>1, <2>4 DEF SendPermanentError, Fates
  <2>5. CASE SendLimitReached(e)
    BY <2>1, <2>5 DEF SendLimitReached, Fates
  <2> QED
    BY <2>2, <2>3, <2>4, <2>5 DEF SendMail
<1>6. CASE \E e \in deferring : SenderPushError(e)
  <2> SUFFICES ASSUME NEW e \in deferring, SenderPushError(e) PROVE AttemptsLeft'
    BY <1>6
  <2>1. Contents(errCh') = Contents(errCh) \cup {e}
    BY ContentsAppend DEF SenderPushError, PushError
  <2> QED
    BY <2>1, MoveAttempts DEF SenderPushError, Held, Waiting, flush, history
<1>7. CASE SenderRelease
  BY <1>7, MoveAttempts DEF SenderRelease, Held, Waiting, channels, flush, history
<1>8. CASE HandlerExtract
  <2>1. Contents(errCh') \subseteq Contents(errCh) /\ handler' \in Contents(errCh)
    BY <1>8, ContentsTail DEF HandlerExtract, TakeError
  <2> QED
    BY <1>8, <2>1, MoveAttempts DEF HandlerExtract, Held, Waiting, senders, flush, history
<1>9. CASE HandlerPush
  <2>1. Contents(mailCh') = Contents(mailCh) \cup {handler}
    BY <1>9, ContentsAppend DEF HandlerPush, PushMail
  <2> QED
    BY <1>9, <2>1, MoveAttempts DEF HandlerPush, Held, Waiting, senders, flush, history
<1>10. CASE FlushReceive
  <2> DEFINE h == Head(errCh)
  <2>1. Contents(errCh') \subseteq Contents(errCh) /\ h \in Contents(errCh) /\ h \in QueueEntry
    BY <1>10, ContentsTail DEF FlushReceive, TakeError
  <2>2. flusher' = [h EXCEPT !.errorCount = MaxErrors]
    BY <1>10 DEF FlushReceive
  <2> HIDE DEF h
  <2>3. /\ flusher'.id = h.id /\ flusher'.errorCount = MaxErrors
        /\ h.id \in Id /\ h.errorCount \in 0..MaxErrors
    BY <2>1, <2>2 DEF QueueEntry
  <2>4. h \in Held /\ Held' \subseteq Held \cup {flusher'}
    BY <1>10, <2>1 DEF FlushReceive, Held, Waiting, senders
  <2>5. Len(tried[h.id]) \in Nat /\ Len(tried[h.id]) <= h.errorCount /\ Len(tried[h.id]) < AttemptLimit
    BY <2>3, <2>4 DEF AttemptsLeft
  <2>6. Len(tried[h.id]) <= MaxErrors
    BY <2>3, <2>5, RetryAssumption
  <2>7. UNCHANGED <<fate, tried>>
    BY <1>10 DEF FlushReceive, history
  <2> QED
    BY <2>3, <2>4, <2>5, <2>6, <2>7 DEF AttemptsLeft, AttemptsBounded
<1>11. CASE FlushSend
  <2>1. flusher \in QueueEntry
    BY <1>11 DEF FlushSend, FlushHand
  <2>2. Contents(mailCh') = Contents(mailCh) \cup {flusher}
    BY <1>11, <2>1, ContentsAppend DEF FlushSend, PushMail
  <2>3. flusher # None
    BY <2>1, NoneAssumption
  <2> QED
    BY <1>11, <2>2, <2>3, MoveAttempts DEF FlushSend, Held, Waiting, senders, history
<1> QED
  BY <1>1, <1>2, <1>3, <1>4, <1>5, <1>6, <1>7, <1>8, <1>9, <1>10, <1>11
     DEF Next, Goroutines, Senders, FlushErrors

(* No entry is offered to servers more often than DeferredMailMaxErrors    *)
(* allows, however often and whenever FlushErrors overwrites its counter.  *)
THEOREM AttemptsLimited == Spec => []AttemptsBounded
<1>1. Init => AttemptsLeft
  BY InitAttempts
<1>2. Inv /\ AttemptsLeft /\ [Next]_vars => AttemptsLeft'
  BY NextAttempts
<1>3. AttemptsLeft => AttemptsBounded
  BY DEF AttemptsLeft
<1> QED
  BY <1>1, <1>2, <1>3, InvariantHolds, PTL DEF Spec

-----------------------------------------------------------------------------
(* The life of an entry: which server each attempt goes to, and that the   *)
(* pipeline implements MailSpool.                                          *)
(*                                                                         *)
(* Both are argued from three sets of entries, which stand for the seven   *)
(* places an entry can be in; every step of a goroutine moves one entry    *)
(* between these sets, or none.                                            *)

Queued == Contents(mailCh) \cup ({cloner, flusher} \ {None})

-----------------------------------------------------------------------------
(* Conservation in terms of these sets: an unresolved entry is in exactly  *)
(* one of them, with one counter and one server.                           *)

Apart ==
  /\ \A g, h \in Held : g.id = h.id => g = h
  /\ Queued \cap sending = {} /\ Queued \cap Waiting = {} /\ sending \cap Waiting = {}
  /\ \A h \in Held : h \in QueueEntry /\ fate[h.id] = "inflight"
  /\ \A i \in Id : fate[i] = "inflight" => \E h \in Held : h.id = i

LEMMA ChannelOnce ==
  ASSUME NEW q \in Seq(QueueEntry), NEW i
  PROVE  /\ Count(q, i) \in Nat
         /\ \A g \in Contents(q) : g.id = i => Count(q, i) >= 1
         /\ Count(q, i) >= 1 => \E g \in Contents(q) : g.id = i
         /\ \A g, h \in Contents(q) :
              g.id = i /\ h.id = i /\ Count(q, i) <= 1 => g = h
<1>1. IsFiniteSet(Positions(q, i)) /\ Count(q, i) \in Nat
  BY CountType
<1>2. Count(q, i) = 0 => \A g \in Contents(q) : g.id # i
  BY CountType DEF Contents
<1>3. Count(q, i) >= 1 => \E g \in Contents(q) : g.id = i
  <2>1. Positions(q, i) = {} => Count(q, i) = 0
    BY FS_EmptySet DEF Count
  <2> QED
    BY <1>1, <2>1 DEF Positions, Contents
<1>4. ASSUME NEW g \in Contents(q), NEW h \in Contents(q),
             g.id = i, h.id = i, g # h
      PROVE  Count(q, i) >= 2
  <2>1. PICK k \in 1..Len(q), l \in 1..Len(q) : q[k] = g /\ q[l] = h
    BY DEF Contents
  <2>2. k # l /\ {k, l} \in SUBSET Positions(q, i)
    BY <1>4, <2>1 DEF Positions
  <2>3. Cardinality({k, l}) = 2
    <3>1. IsFiniteSet({k}) /\ Cardinality({k}) = 1 /\ l \notin {k}
      BY <2>2, FS_Singleton
    <3>2. Cardinality({k} \cup {l}) = 1 + 1
      BY <3>1, FS_AddElement
    <3>3. {k, l} = {k} \cup {l}
      OBVIOUS
    <3> QED
      BY <3>2, <3>3
  <2>4. Cardinality({k, l}) <= Cardinality(Positions(q, i))
    BY <1>1, <2>2, FS_Subset
  <2> QED
    BY <2>3, <2>4 DEF Count
<1> QED
  BY <1>1, <1>2, <1>3, <1>4

LEMMA SetOnce ==
  ASSUME NEW S, IsFiniteSet(S), NEW i
  PROVE  /\ CountIn(S, i) \in Nat
         /\ \A g \in S : g.id = i => CountIn(S, i) >= 1
         /\ CountIn(S, i) >= 1 => \E g \in S : g.id = i
         /\ \A g, h \in S : g.id = i /\ h.id = i /\ CountIn(S, i) <= 1 => g = h
<1>1. CountIn(S, i) \in Nat /\ (CountIn(S, i) = 0 => \A g \in S : g.id # i)
  BY CountInType
<1>2. CountIn(S, i) >= 1 => \E g \in S : g.id = i
  <2>1. CopiesIn(S, i) = {} => CountIn(S, i) = 0
    BY FS_EmptySet DEF CountIn
  <2> QED
    BY <1>1, <2>1 DEF CopiesIn
<1>3. ASSUME NEW g \in S, NEW h \in S, g.id = i, h.id = i, g # h
      PROVE  CountIn(S, i) >= 2
  <2>1. IsFiniteSet(S \ {g}) /\ CountIn(S, i) = CountIn(S \ {g}, i) + 1
    BY <1>3, CountInRemove
  <2>2. CountIn(S \ {g}, i) \in Nat /\ CountIn(S \ {g}, i) # 0
    BY <1>3, <2>1, CountInType
  <2> QED
    BY <2>1, <2>2
<1> QED
  BY <1>1, <1>2, <1>3

LEMMA HandOnce ==
  ASSUME NEW x, NEW i
  PROVE  /\ InHand(x, i) \in {0, 1}
         /\ x # None /\ x.id = i <=> InHand(x, i) = 1
  BY DEF InHand

LEMMA InvApart == Inv => Apart
<1> SUFFICES ASSUME Inv PROVE Apart
  OBVIOUS
<1> USE DEF Inv, TypeOK
<1>1. \A h \in Held : h \in QueueEntry /\ h.id \in Id
  <2>1. Held \subseteq QueueEntry
    BY DEF Held, Waiting, Contents
  <2> QED
    BY <2>1 DEF QueueEntry
<1>2. ASSUME NEW i \in Id
      PROVE  /\ \A x \in Contents(mailCh) : x.id = i => Count(mailCh, i) >= 1
             /\ \A x \in Contents(errCh) : x.id = i => Count(errCh, i) >= 1
             /\ \A x \in sending : x.id = i => CountIn(sending, i) >= 1
             /\ \A x \in deferring : x.id = i => CountIn(deferring, i) >= 1
             /\ cloner # None /\ cloner.id = i => InHand(cloner, i) = 1
             /\ handler # None /\ handler.id = i => InHand(handler, i) = 1
             /\ flusher # None /\ flusher.id = i => InHand(flusher, i) = 1
  BY ChannelOnce, SetOnce, HandOnce
<1>3. ASSUME NEW i \in Id
      PROVE  /\ Count(mailCh, i) <= 1 => \A g, h \in Contents(mailCh) : g.id = i /\ h.id = i => g = h
             /\ Count(errCh, i) <= 1 => \A g, h \in Contents(errCh) : g.id = i /\ h.id = i => g = h
             /\ CountIn(sending, i) <= 1 => \A g, h \in sending : g.id = i /\ h.id = i => g = h
             /\ CountIn(deferring, i) <= 1 => \A g, h \in deferring : g.id = i /\ h.id = i => g = h
  BY ChannelOnce, SetOnce
<1>4. ASSUME NEW i \in Id, NEW g \in Held, NEW h \in Held, g.id = i, h.id = i
      PROVE  /\ g = h /\ Copies(i) = 1
             /\ ~(g \in Queued /\ h \in sending) /\ ~(g \in Queued /\ h \in Waiting)
             /\ ~(g \in sending /\ h \in Waiting)
  <2> DEFINE m == Count(mailCh, i)      r == Count(errCh, i)
             s == CountIn(sending, i)   d == CountIn(deferring, i)
             c == InHand(cloner, i)     p == InHand(handler, i)
             f == InHand(flusher, i)
  <2>1. /\ m \in Nat /\ r \in Nat /\ s \in Nat /\ d \in Nat /\ c \in Nat /\ p \in Nat /\ f \in Nat
        /\ m + r + s + d + c + p + f <= 1
        /\ m + r + s + d + c + p + f = Copies(i)
    <3>1. m + r + s + d + c + p + f = Copies(i)
      <4> HIDE DEF m, r, s, d, c, p, f
      <4>1. Copies(i) = m + r + s + d + c + p + f
        BY DEF Copies, m, r, s, d, c, p, f
      <4> QED
        BY <4>1
    <3> HIDE DEF Inv, TypeOK
    <3>2. m \in Nat /\ r \in Nat /\ s \in Nat /\ d \in Nat /\ c \in Nat /\ p \in Nat /\ f \in Nat
      BY CopiesTerms
    <3>3. Copies(i) <= 1
      BY CopiesTerms
    <3> HIDE DEF m, r, s, d, c, p, f
    <3> QED
      BY <3>1, <3>2, <3>3
  <2>2. ASSUME NEW x \in Held, x.id = i
        PROVE  /\ x \in Contents(mailCh) => m >= 1
               /\ x \in Contents(errCh) => r >= 1
               /\ x \in sending => s >= 1
               /\ x \in deferring => d >= 1
               /\ x = cloner /\ x # None => c >= 1
               /\ x = handler /\ x # None => p >= 1
               /\ x = flusher /\ x # None => f >= 1
    BY <1>2, <2>2
  <2>3. /\ m <= 1 /\ g \in Contents(mailCh) /\ h \in Contents(mailCh) => g = h
        /\ r <= 1 /\ g \in Contents(errCh) /\ h \in Contents(errCh) => g = h
        /\ s <= 1 /\ g \in sending /\ h \in sending => g = h
        /\ d <= 1 /\ g \in deferring /\ h \in deferring => g = h
    BY <1>3, <1>4
  <2> HIDE DEF m, r, s, d, c, p, f
  <2>4. ASSUME NEW x \in Held
        PROVE  \/ x \in Contents(mailCh) \/ x \in Contents(errCh)
               \/ x \in sending \/ x \in deferring
               \/ x = cloner /\ x # None
               \/ x = handler /\ x # None
               \/ x = flusher /\ x # None
    BY <2>4 DEF Held, Waiting
  <2>5. Copies(i) = 1
    BY <1>4, <2>1, <2>2, <2>4
  <2>6. /\ g \in Contents(mailCh) <=> h \in Contents(mailCh)
        /\ g \in Contents(errCh) <=> h \in Contents(errCh)
        /\ g \in sending <=> h \in sending
        /\ g \in deferring <=> h \in deferring
        /\ g = cloner /\ g # None <=> h = cloner /\ h # None
        /\ g = handler /\ g # None <=> h = handler /\ h # None
        /\ g = flusher /\ g # None <=> h = flusher /\ h # None
    BY <1>4, <2>1, <2>2, <2>4
  <2>7. g = h
    BY <2>1, <2>3, <2>4, <2>6
  <2>8. /\ ~(g \in sending /\ g \in Queued) /\ ~(g \in Waiting /\ g \in Queued)
        /\ ~(g \in sending /\ g \in Waiting)
    BY <1>4, <2>1, <2>2 DEF Queued, Waiting
  <2> QED
    BY <2>5, <2>7, <2>8
<1>5. ASSUME NEW i \in Id, fate[i] = "inflight" PROVE \E h \in Held : h.id = i
  <2>1. Copies(i) = 1
    BY <1>5, CopiesTerms
  <2>2. \/ Count(mailCh, i) >= 1 \/ Count(errCh, i) >= 1
        \/ CountIn(sending, i) >= 1 \/ CountIn(deferring, i) >= 1
        \/ InHand(cloner, i) = 1 \/ InHand(handler, i) = 1 \/ InHand(flusher, i) = 1
    BY <2>1, CopiesTerms DEF Copies
  <2> QED
    BY <2>2, ChannelOnce, SetOnce, HandOnce DEF Held, Waiting
<1> QED
  <2>1. \A g, h \in Held : g.id = h.id => g = h
    BY <1>1, <1>4
  <2>2. Queued \cap sending = {} /\ Queued \cap Waiting = {} /\ sending \cap Waiting = {}
    <3>1. ASSUME NEW x \in Held
          PROVE  /\ ~(x \in Queued /\ x \in sending) /\ ~(x \in Queued /\ x \in Waiting)
                 /\ ~(x \in sending /\ x \in Waiting)
      BY <1>1, <1>4
    <3>2. sending \subseteq Held /\ Waiting \subseteq Held
      BY DEF Held
    <3> QED
      BY <3>1, <3>2
  <2>3. \A h \in Held : fate[h.id] = "inflight"
    BY <1>1, <1>4, CopiesTerms
  <2> QED
    BY <1>1, <1>5, <2>1, <2>2, <2>3 DEF Apart

-----------------------------------------------------------------------------
(* The steps, as seen in the three sets. *)

FirstEntry(i) ==
  [id |-> i, errorCount |-> 0,
   server |-> IF RelayModeEnabled THEN RelayServer ELSE MXServer(0)]

Deferred(e, s) == [id |-> e.id, errorCount |-> e.errorCount + 1, server |-> s]

Flushed(h) == [h EXCEPT !.errorCount = MaxErrors]

Accepts(i) ==
  /\ fate[i] = "new" /\ fate' = [fate EXCEPT ![i] = "inflight"]
  /\ Queued' = Queued \cup {FirstEntry(i)}
  /\ UNCHANGED <<sending, Waiting, tried>>

Stays == UNCHANGED <<Queued, sending, Waiting, fate, tried>>

Spawns(c) ==
  /\ limiter < MaxOutcoming
  /\ Queued = Queued' \cup {c} /\ sending' = sending \cup {c}
  /\ UNCHANGED <<Waiting, fate, tried>>

Ends(e, f) ==
  /\ e \in sending /\ Attempt(e)
  /\ f = "expired" => e.errorCount + 1 >= MaxErrors
  /\ fate' = [fate EXCEPT ![e.id] = f]
  /\ sending' = sending \ {e}
  /\ UNCHANGED <<Queued, Waiting>>

Defers(e, s) ==
  /\ e \in sending /\ Attempt(e)
  /\ e.errorCount + 1 < MaxErrors
  /\ s \in NextServer(e, e.errorCount + 1)
  /\ sending' = sending \ {e} /\ Waiting' = Waiting \cup {Deferred(e, s)}
  /\ UNCHANGED <<Queued, fate>>

Requeues(h) ==
  /\ Waiting = Waiting' \cup {h} /\ Queued' = Queued \cup {h}
  /\ UNCHANGED <<sending, fate, tried>>

Flushes(h) ==
  /\ Waiting = Waiting' \cup {h} /\ Queued' = Queued \cup {Flushed(h)}
  /\ UNCHANGED <<sending, fate, tried>>

Ending == {"sent", "rejected", "expired"}

SetStep ==
  \/ Stays
  \/ \E i \in Id : Accepts(i)
  \/ \E c \in Held : Spawns(c)
  \/ \E e \in Held, f \in Ending : Ends(e, f)
  \/ \E e \in Held, s \in Server : Defers(e, s)
  \/ \E h \in Held : Requeues(h) \/ Flushes(h)

LEMMA ContentsReceive ==
  ASSUME NEW q \in Seq(QueueEntry), q # <<>>
  PROVE  Contents(q) = Contents(Tail(q)) \cup {Head(q)}
<1>1. /\ Len(q) \in Nat /\ Len(q) > 0 /\ Head(q) = q[1]
      /\ Len(Tail(q)) = Len(q) - 1
      /\ \A k \in 1..Len(Tail(q)) : Tail(q)[k] = q[k + 1]
  OBVIOUS
<1>2. Contents(Tail(q)) \cup {Head(q)} \subseteq Contents(q)
  BY <1>1 DEF Contents
<1>3. ASSUME NEW k \in 1..Len(q) PROVE q[k] \in Contents(Tail(q)) \cup {Head(q)}
  <2>1. CASE k = 1
    BY <1>1, <2>1
  <2>2. CASE k # 1
    <3>1. k - 1 \in 1..Len(Tail(q)) /\ Tail(q)[k - 1] = q[k]
      BY <1>1, <2>2
    <3> QED
      BY <3>1 DEF Contents
  <2> QED
    BY <2>1, <2>2
<1> QED
  BY <1>2, <1>3 DEF Contents

LEMMA NextSets == ASSUME Inv, [Next]_vars PROVE SetStep
<1> USE DEF Inv, TypeOK
<1>0. MaxErrors \in Nat /\ None \notin QueueEntry
  BY RetryAssumption, NoneAssumption
<1>1. ASSUME NEW i \in Id, Accept(i) PROVE Accepts(i)
  <2>1. FirstEntry(i) \in QueueEntry
    BY RetryAssumption DEF FirstEntry, QueueEntry, Server, MXServer
  <2>2. Contents(mailCh') = Contents(mailCh) \cup {FirstEntry(i)}
    BY <1>1, <2>1, ContentsAppend DEF Accept, PushMail, FirstEntry
  <2> QED
    BY <1>1, <2>2 DEF Accept, Accepts, Queued, Waiting, senders, flush
<1>2. CASE FlushSignal \/ FlushCheck \/ SenderRelease \/ UNCHANGED vars
  BY <1>2 DEF FlushSignal, FlushCheck, SenderRelease, vars, channels, senders, flush,
              history, SetStep, Stays, Queued, Waiting
<1>3. CASE ClonerPop
  <2>1. Contents(mailCh) = Contents(mailCh') \cup {cloner'} /\ cloner' # None
    BY <1>0, <1>3, ContentsReceive DEF ClonerPop, PopMail
  <2> QED
    BY <1>3, <2>1 DEF ClonerPop, SetStep, Stays, Queued, Waiting, senders, flush, history
<1>4. CASE ClonerSpawn
  BY <1>4 DEF ClonerSpawn, SetStep, Spawns, Held, Queued, Waiting, channels, flush, history
<1>5. ASSUME NEW e \in sending, SendMail(e) PROVE SetStep
  <2>0. e \in Held /\ e \in QueueEntry /\ e.server \in Server /\ e.errorCount \in Nat
    BY <1>0 DEF Held, QueueEntry
  <2>1. ASSUME NEW f \in Ending, Attempt(e), Finish(e, f),
               f = "expired" => e.errorCount + 1 >= MaxErrors
        PROVE  SetStep
    BY <2>0, <2>1 DEF Finish, SetStep, Ends, Queued, Waiting, channels, flush
  <2>2. CASE SendDefer(e)
    <3>1. PICK s \in NextServer(e, e.errorCount + 1) :
            deferring' = deferring \cup {Deferred(e, s)}
      BY <2>2 DEF SendDefer, Deferred
    <3>2. s \in Server
      BY <2>0, <3>1, RetryAssumption DEF NextServer, Server, MXServer
    <3>3. Waiting' = Waiting \cup {Deferred(e, s)}
      BY <2>2, <3>1 DEF SendDefer, Waiting, channels
    <3>4. Defers(e, s)
      BY <2>0, <2>2, <3>1, <3>3 DEF SendDefer, Defers, Queued, channels, flush
    <3> QED
      BY <2>0, <3>2, <3>4 DEF SetStep
  <2> QED
    BY <1>5, <2>1, <2>2
       DEF SendMail, SendOk, SendPermanentError, SendLimitReached, Ending
<1>6. ASSUME NEW e \in deferring, SenderPushError(e) PROVE SetStep
  <2>1. Contents(errCh') = Contents(errCh) \cup {e}
    BY <1>6, ContentsAppend DEF SenderPushError, PushError
  <2> QED
    BY <1>6, <2>1 DEF SenderPushError, SetStep, Stays, Queued, Waiting, flush, history
<1>7. CASE HandlerExtract
  <2>1. Contents(errCh) = Contents(errCh') \cup {handler'} /\ handler' # None
    BY <1>0, <1>7, ContentsReceive DEF HandlerExtract, TakeError
  <2> QED
    BY <1>7, <2>1 DEF HandlerExtract, SetStep, Stays, Queued, Waiting, senders, flush, history
<1>8. CASE HandlerPush
  <2>1. Contents(mailCh') = Contents(mailCh) \cup {handler}
    BY <1>8, ContentsAppend DEF HandlerPush, PushMail
  <2>2. Requeues(handler) /\ handler \in Held
    BY <1>8, <2>1 DEF HandlerPush, Requeues, Held, Queued, Waiting, senders, flush, history
  <2> QED
    BY <2>2 DEF SetStep
<1>9. CASE FlushReceive
  <2> DEFINE h == Head(errCh)
  <2>1. /\ Contents(errCh) = Contents(errCh') \cup {h} /\ h \in Contents(errCh)
        /\ h \in QueueEntry
    BY <1>9, ContentsReceive, ContentsTail DEF FlushReceive, TakeError
  <2>2. flusher' = Flushed(h) /\ flusher = None
    BY <1>9 DEF FlushReceive, Flushed, FlushHand
  <2> HIDE DEF h
  <2>3. Flushed(h) \in QueueEntry
    <3>1. MaxErrors \in 0..MaxErrors
      BY <1>0
    <3> QED
      BY <2>1, <3>1 DEF Flushed, QueueEntry
  <2>4. Flushes(h) /\ h \in Held
    BY <1>0, <1>9, <2>1, <2>2, <2>3
       DEF FlushReceive, Flushes, Held, Queued, Waiting, senders, history
  <2> QED
    BY <2>4 DEF SetStep
<1>10. CASE FlushSend
  <2>1. flusher \in QueueEntry /\ flusher # None
    BY <1>0, <1>10 DEF FlushSend, FlushHand
  <2>2. Contents(mailCh') = Contents(mailCh) \cup {flusher}
    BY <1>10, <2>1, ContentsAppend DEF FlushSend, PushMail
  <2> QED
    BY <1>10, <2>1, <2>2
       DEF FlushSend, SetStep, Stays, Queued, Waiting, senders, history
<1> QED
  BY <1>1, <1>2, <1>3, <1>4, <1>5, <1>6, <1>7, <1>8, <1>9, <1>10
     DEF Next, Goroutines, Senders, FlushErrors, SetStep

-----------------------------------------------------------------------------
(* Which server an attempt goes to. *)

Aim(n) == IF RelayModeEnabled THEN RelayServer ELSE MXServer(n)

(* An entry that still exists is aimed at the server of its next attempt,  *)
(* or at that of its last one; the counter it carries is the number of its *)
(* attempts, or it was flushed and there is no attempt after the next.     *)
AimOK(h) ==
  LET n == Len(tried[h.id])
  IN  /\ h.errorCount \in {n, MaxErrors}
      /\ \/ h.server = Aim(n)
         \/ n > 0 /\ h.server = tried[h.id][n]

Aimed ==
  /\ \A i \in Id : fate[i] = "new" => tried[i] = <<>>
  /\ \A h \in Held : AimOK(h)
  /\ \A h \in Waiting : h.errorCount > 0
  /\ Rotation

LEMMA InitAimed == Init => Aimed
<1> SUFFICES ASSUME Init PROVE Aimed
  OBVIOUS
<1>1. \A i \in Id : tried[i] = <<>> /\ Len(tried[i]) = 0
  BY DEF Init
<1>2. Held = {} /\ Waiting = {}
  BY DEF Init, Held, Waiting, Contents
<1> QED
  BY <1>1, <1>2 DEF Aimed, Rotation

(* A step without an attempt.                                              *)
LEMMA AimedMoves ==
  ASSUME Inv, Aimed, UNCHANGED tried, \A i \in Id : fate'[i] = "new" => fate[i] = "new",
         \A h \in Held' : \E g \in Held : /\ g.id = h.id /\ g.server = h.server
                                      /\ h.errorCount \in {g.errorCount, MaxErrors},
         \A h \in Waiting' : h \in Waiting
  PROVE  Aimed'
<1>1. \A h \in Held' : AimOK(h)'
  BY DEF Aimed, AimOK, Aim
<1> QED
  BY <1>1 DEF Aimed, Rotation

(* An attempt: it goes where its entry was aimed, and the entry, if there  *)
(* is another attempt, is aimed anew.                                      *)
LEMMA AimedAttempts ==
  ASSUME Inv, Apart, Aimed, NEW e \in sending, Attempt(e),
         \A h \in Held' : \/ h \in Held \ {e}
                          \/ \E s \in NextServer(e, e.errorCount + 1) :
                               h = Deferred(e, s) /\ e.errorCount + 1 < MaxErrors,
         \A h \in Waiting' : h \in Waiting \/ h.errorCount = e.errorCount + 1,
         \A i \in Id : fate'[i] = "new" => fate[i] = "new" /\ i # e.id
  PROVE  Aimed'
<1>1. e \in QueueEntry /\ e.id \in Id /\ e.errorCount \in Nat /\ e.server \in Server /\ e \in Held
  BY RetryAssumption DEF Inv, TypeOK, QueueEntry, Held
<1> DEFINE n == Len(tried[e.id])
<1>2. tried \in [Id -> Seq(Server)] /\ tried[e.id] \in Seq(Server) /\ n \in Nat
  BY <1>1 DEF Inv, TypeOK
<1>3. \A i \in Id : tried'[i] = IF i = e.id THEN Append(tried[i], e.server) ELSE tried[i]
  BY <1>2 DEF Attempt
<1>4. /\ Len(tried'[e.id]) = n + 1 /\ tried'[e.id][n + 1] = e.server
      /\ \A k \in 1..n : tried'[e.id][k] = tried[e.id][k]
  <2> DEFINE q == tried[e.id]
  <2>1. tried'[e.id] = Append(q, e.server) /\ q \in Seq(Server) /\ n = Len(q)
    BY <1>1, <1>2, <1>3
  <2> HIDE DEF n, q
  <2>2. /\ Len(Append(q, e.server)) = n + 1 /\ Append(q, e.server)[n + 1] = e.server
        /\ \A k \in 1..n : Append(q, e.server)[k] = q[k]
    BY <1>1, <2>1
  <2> QED
    BY <2>1, <2>2 DEF q
<1>5. /\ e.errorCount \in {n, MaxErrors}
      /\ e.server = Aim(n) \/ (n > 0 /\ e.server = tried[e.id][n])
  BY <1>1 DEF Aimed, AimOK
<1> HIDE DEF n
<1>6. ASSUME NEW h \in Held' PROVE AimOK(h)'
  <2>1. CASE h \in Held \ {e}
    <3>1. h.id \in Id /\ h.id # e.id /\ AimOK(h)
      BY <1>1, <2>1 DEF Apart, Aimed, QueueEntry
    <3>2. tried'[h.id] = tried[h.id]
      BY <1>3, <3>1
    <3> QED
      BY <3>1, <3>2 DEF AimOK, Aim
  <2>2. ASSUME NEW s \in NextServer(e, e.errorCount + 1), h = Deferred(e, s),
               e.errorCount + 1 < MaxErrors
        PROVE  AimOK(h)'
    <3>1. h.id = e.id /\ h.errorCount = e.errorCount + 1 /\ h.server = s
      BY <2>2 DEF Deferred
    <3>2. e.errorCount = n
      BY <1>1, <1>2, <1>5, <2>2, RetryAssumption
    <3>3. s = Aim(n + 1) \/ s = e.server
      BY <3>2 DEF NextServer, Aim
    <3> QED
      BY <1>2, <1>4, <3>1, <3>2, <3>3 DEF AimOK, Aim
  <2> QED
    BY <2>1, <2>2
<1>7. Rotation'
  <2> SUFFICES ASSUME NEW i \in Id, NEW k \in 1..Len(tried'[i])
               PROVE  tried'[i][k] = Aim(k - 1) \/ (k > 1 /\ tried'[i][k] = tried'[i][k - 1])
    BY DEF Rotation, Aim
  <2>1. CASE i # e.id
    BY <1>3, <2>1 DEF Aimed, Rotation, Aim
  <2>2. CASE i = e.id /\ k \in 1..n
    <3>1. tried[i][k] = Aim(k - 1) \/ (k > 1 /\ tried[i][k] = tried[i][k - 1])
      BY <2>2 DEF Aimed, Rotation, Aim, n
    <3> QED
      BY <1>2, <1>4, <2>2, <3>1
  <2>3. CASE i = e.id /\ k = n + 1
    BY <1>2, <1>4, <1>5, <2>3
  <2> QED
    BY <1>2, <1>4, <2>1, <2>2, <2>3
<1>8. \A h \in Waiting' : h.errorCount > 0
  BY <1>1 DEF Aimed
<1>9. \A i \in Id : fate'[i] = "new" => tried'[i] = <<>>
  BY <1>3 DEF Aimed
<1> QED
  BY <1>6, <1>7, <1>8, <1>9 DEF Aimed

LEMMA HeldParts ==
  /\ Held = Queued \cup sending \cup Waiting
  /\ Held' = Queued' \cup sending' \cup Waiting'
  BY DEF Held, Queued

LEMMA NextAimed == ASSUME Inv, Aimed, [Next]_vars PROVE Aimed'
<1>0. Apart /\ SetStep
  BY InvApart, NextSets
<1>1. CASE Stays \/ (\E c \in Held : Spawns(c)) \/ (\E h \in Held : Requeues(h))
  <2>1. Held' = Held /\ Waiting' \subseteq Waiting /\ UNCHANGED <<fate, tried>>
    BY <1>1, HeldParts DEF Stays, Spawns, Requeues
  <2> QED
    BY <2>1, AimedMoves
<1>2. ASSUME NEW h \in Held, Flushes(h) PROVE Aimed'
  <2>1. h \in QueueEntry
    BY <1>0 DEF Apart
  <2>2. Flushed(h).id = h.id /\ Flushed(h).server = h.server /\ Flushed(h).errorCount = MaxErrors
    BY <2>1 DEF Flushed, QueueEntry
  <2>3. Held' \subseteq Held \cup {Flushed(h)} /\ Waiting' \subseteq Waiting
    BY <1>2, HeldParts DEF Flushes
  <2> QED
    BY <1>2, <2>2, <2>3, AimedMoves DEF Flushes
<1>3. ASSUME NEW i \in Id, Accepts(i) PROVE Aimed'
  <2>1. tried[i] = <<>> /\ Len(tried[i]) = 0
    BY <1>3 DEF Accepts, Aimed
  <2>2. AimOK(FirstEntry(i))
    BY <2>1 DEF AimOK, FirstEntry, Aim
  <2>3. Held' = Held \cup {FirstEntry(i)} /\ UNCHANGED <<Waiting, tried>>
    BY <1>3, HeldParts DEF Accepts
  <2>4. \A h \in Held' : AimOK(h)'
    BY <2>2, <2>3 DEF Aimed, AimOK, Aim
  <2>5. \A j \in Id : fate'[j] = "new" => fate[j] = "new"
    BY <1>3 DEF Accepts
  <2> QED
    BY <2>3, <2>4, <2>5 DEF Aimed, Rotation
<1>4. ASSUME NEW e \in Held, NEW f \in Ending, Ends(e, f) PROVE Aimed'
  <2>1. Held' \subseteq Held \ {e} /\ Waiting' = Waiting
    BY <1>0, <1>4, HeldParts DEF Ends, Apart
  <2>2. \A i \in Id : fate'[i] = "new" => fate[i] = "new" /\ i # e.id
    BY <1>0, <1>4 DEF Ends, Ending, Apart, Inv, TypeOK
  <2> QED
    BY <1>0, <1>4, <2>1, <2>2, AimedAttempts DEF Ends
<1>5. ASSUME NEW e \in Held, NEW s \in Server, Defers(e, s) PROVE Aimed'
  <2>1. Held' \subseteq (Held \ {e}) \cup {Deferred(e, s)}
    BY <1>0, <1>5, HeldParts DEF Defers, Apart
  <2>2. Waiting' = Waiting \cup {Deferred(e, s)} /\ Deferred(e, s).errorCount = e.errorCount + 1
    BY <1>5 DEF Defers, Deferred
  <2>3. \A i \in Id : fate'[i] = "new" => fate[i] = "new" /\ i # e.id
    BY <1>0, <1>5 DEF Defers, Apart
  <2> QED
    BY <1>0, <1>5, <2>1, <2>2, <2>3, AimedAttempts DEF Defers
<1> QED
  BY <1>0, <1>1, <1>2, <1>3, <1>4, <1>5 DEF SetStep

LEMMA AlwaysAimed == Spec => [](Inv /\ Aimed)
<1>1. Init => Aimed
  BY InitAimed
<1>2. Inv /\ Aimed /\ [Next]_vars => Aimed'
  BY NextAimed
<1> QED
  BY <1>1, <1>2, InvariantHolds, PTL DEF Spec

(* Attempt k of an entry goes to the server record k selects or, after a   *)
(* failed lookup, to that of the attempt before, for any number of records *)
(* and whatever a flush does to the counter the lookup depends on.         *)
THEOREM RotationHolds == Spec => []Rotation
<1>1. Aimed => Rotation
  BY DEF Aimed
<1> QED
  BY <1>1, AlwaysAimed, PTL

-----------------------------------------------------------------------------
(* The pipeline implements MailSpool.  The variables of MailSpool under    *)
(* the refinement mapping: *)

status == [i \in Id |-> StatusOf(i)]

attempts == [i \in Id |-> Len(tried[i])]

lastChance == {e.id : e \in {h \in Held : MaxErrors > 0 /\ h.errorCount = MaxErrors}}

(* The status of an entry is the set it is in, before and after a step.    *)
LEMMA StatusIs ==
  /\ Apart => /\ \A h \in Queued : StatusOf(h.id) = "queued"
              /\ \A h \in sending : StatusOf(h.id) = "sending"
              /\ \A h \in Waiting : StatusOf(h.id) = "deferred"
              /\ \A h \in Held : h.id \in Id
              /\ \A i \in Id : fate[i] # "inflight" => StatusOf(i) = fate[i]
  /\ Apart' => /\ \A h \in Queued' : StatusOf(h.id)' = "queued"
               /\ \A h \in sending' : StatusOf(h.id)' = "sending"
               /\ \A h \in Waiting' : StatusOf(h.id)' = "deferred"
               /\ \A i \in Id : fate'[i] # "inflight" => StatusOf(i)' = fate'[i]
<1>1. ASSUME Apart
      PROVE  /\ \A h \in Queued : StatusOf(h.id) = "queued"
             /\ \A h \in sending : StatusOf(h.id) = "sending"
             /\ \A h \in Waiting : StatusOf(h.id) = "deferred"
             /\ \A h \in Held : h.id \in Id
             /\ \A i \in Id : fate[i] # "inflight" => StatusOf(i) = fate[i]
  BY <1>1, HeldParts DEF Apart, StatusOf, QueueEntry
<1>2. ASSUME Apart'
      PROVE  /\ \A h \in Queued' : StatusOf(h.id)' = "queued"
             /\ \A h \in sending' : StatusOf(h.id)' = "sending"
             /\ \A h \in Waiting' : StatusOf(h.id)' = "deferred"
             /\ \A i \in Id : fate'[i] # "inflight" => StatusOf(i)' = fate'[i]
  BY <1>2, HeldParts DEF Apart, StatusOf, QueueEntry
<1> QED
  BY <1>1, <1>2

(* The other entries keep their status. *)
LEMMA StatusKept ==
  ASSUME NEW i, NEW s, StatusOf(i)' = s,
         \A j \in Id \ {i} :
           /\ fate'[j] = fate[j]
           /\ (\E h \in sending' : h.id = j) <=> (\E h \in sending : h.id = j)
           /\ (\E h \in Waiting' : h.id = j) <=> (\E h \in Waiting : h.id = j)
  PROVE  status' = [status EXCEPT ![i] = s]
<1>1. \A j \in Id \ {i} : StatusOf(j)' = StatusOf(j)
  BY DEF StatusOf
<1> QED
  BY <1>1 DEF status

(* One attempt more. *)
LEMMA AttemptCounted ==
  ASSUME Inv, NEW e \in Held, Apart, Attempt(e)
  PROVE  attempts' = [attempts EXCEPT ![e.id] = @ + 1]
<1>1. e.id \in Id /\ e.server \in Server /\ tried \in [Id -> Seq(Server)]
  BY DEF Apart, QueueEntry, Inv, TypeOK
<1>2. \A i \in Id : tried'[i] = IF i = e.id THEN Append(tried[i], e.server) ELSE tried[i]
  BY <1>1 DEF Attempt
<1>3. \A q \in Seq(Server) : Len(Append(q, e.server)) = Len(q) + 1
  BY <1>1
<1>4. \A i \in Id : Len(tried'[i]) = IF i = e.id THEN Len(tried[i]) + 1 ELSE Len(tried[i])
  BY <1>1, <1>2, <1>3
<1> QED
  BY <1>1, <1>4 DEF attempts

(* As many entries are being sent as there are goroutines that send.       *)
LEMMA SendingCounted ==
  ASSUME Inv, Apart, limiter < MaxOutcoming
  PROVE  Cardinality({j \in Id : status[j] = "sending"}) < MaxOutcoming
<1> DEFINE ids == {j \in Id : status[j] = "sending"}
           f == [e \in sending |-> e.id]
<1>1. IsFiniteSet(sending) /\ IsFiniteSet(deferring)
  BY DEF Inv
<1>2. f \in Bijection(sending, ids)
  <2>1. f \in [sending -> ids]
    BY StatusIs, HeldParts DEF status
  <2>2. \A g, h \in sending : f[g] = f[h] => g = h
    BY HeldParts DEF Apart
  <2>3. \A j \in ids : \E e \in sending : f[e] = j
    BY DEF status, StatusOf, Inv, TypeOK, Fates
  <2> QED
    BY <2>1, <2>2, <2>3 DEF Bijection, Injection, Surjection, IsInjective
<1>3. Cardinality(ids) = Cardinality(sending)
  BY <1>1, <1>2, FS_Bijection DEF ExistsBijection
<1>4. Cardinality(sending) \in Nat /\ Cardinality(deferring) \in Nat /\ exiting \in Nat
  BY <1>1, FS_CardinalityType DEF Inv, TypeOK
<1> QED
  BY <1>3, <1>4, CapacityAssumption DEF Inv, TypeOK, LimiterExact

(* Every step of the pipeline is a step of MailSpool or changes nothing in *)
(* it.  One lemma per kind of step; Spool's actions are stated over the    *)
(* three functions above, which are what Spool substitutes.                *)
LEMMA SpoolAccepts ==
  ASSUME Inv, Apart, Apart', NEW i \in Id, Accepts(i) PROVE Spool!Accept(i)
<1>1. status[i] = "new"
  BY StatusIs DEF Accepts, status
<1>2. status' = [status EXCEPT ![i] = "queued"]
  <2>1. FirstEntry(i) \in Queued' /\ FirstEntry(i).id = i
    BY DEF Accepts, FirstEntry
  <2>2. StatusOf(i)' = "queued"
    BY <2>1, StatusIs
  <2> QED
    BY <2>2, StatusKept DEF Accepts
<1>3. attempts' = attempts
  BY DEF Accepts, attempts
<1>4. lastChance' = lastChance
  <2>1. Held' = Held \cup {FirstEntry(i)} /\ FirstEntry(i).errorCount = 0
    BY HeldParts DEF Accepts, FirstEntry
  <2> QED
    BY <2>1, RetryAssumption DEF lastChance
<1> QED
  BY <1>1, <1>2, <1>3, <1>4 DEF Spool!Accept, Spool!Move, status, attempts, lastChance

LEMMA SpoolSpawns ==
  ASSUME Inv, Apart, Apart', NEW c \in Held, Spawns(c) PROVE Spool!Begin(c.id)
<1>1. status[c.id] = "queued" /\ c.id \in Id
  BY StatusIs DEF Spawns, status
<1>2. status' = [status EXCEPT ![c.id] = "sending"]
  <2>1. StatusOf(c.id)' = "sending"
    BY StatusIs DEF Spawns
  <2> QED
    BY <2>1, StatusKept DEF Spawns
<1>3. attempts' = attempts /\ lastChance' = lastChance
  BY HeldParts DEF Spawns, attempts, lastChance
<1>4. Cardinality({j \in Id : status[j] = "sending"}) < MaxOutcoming
  BY SendingCounted DEF Spawns
<1> QED
  BY <1>1, <1>2, <1>3, <1>4
     DEF Spool!Begin, Spool!Move, Spool!Cardinality, Cardinality, status, attempts, lastChance

LEMMA SpoolEnds ==
  ASSUME Inv, Apart, Apart', Aimed, NEW e \in Held, NEW f \in Ending, Ends(e, f)
  PROVE  Spool!Succeed(e.id) \/ Spool!Reject(e.id) \/ Spool!Expire(e.id)
<1>1. status[e.id] = "sending" /\ e.id \in Id
  BY StatusIs DEF Ends, status
<1>2. status' = [status EXCEPT ![e.id] = f]
  <2>1. fate'[e.id] = f /\ f # "inflight" /\ \A j \in Id \ {e.id} : fate'[j] = fate[j]
    BY <1>1 DEF Ends, Ending, Inv, TypeOK
  <2>2. StatusOf(e.id)' = f
    BY <1>1, <2>1, StatusIs
  <2> QED
    BY <2>1, <2>2, StatusKept DEF Ends
<1>3. attempts' = [attempts EXCEPT ![e.id] = @ + 1]
  BY AttemptCounted DEF Ends
<1>4. lastChance' = lastChance \ {e.id}
  <2>1. Held' = Held \ {e} /\ \A h \in Held : h.id = e.id => h = e
    BY HeldParts DEF Ends, Apart
  <2> QED
    BY <2>1 DEF lastChance
<1>5. f = "expired" => attempts[e.id] + 1 >= MaxErrors \/ e.id \in lastChance
  <2> SUFFICES ASSUME f = "expired", e.id \notin lastChance PROVE attempts[e.id] + 1 >= MaxErrors
    OBVIOUS
  <2>1. e.errorCount + 1 >= MaxErrors /\ e.errorCount \in {attempts[e.id], MaxErrors}
    BY <1>1 DEF Ends, Aimed, AimOK, attempts
  <2>2. e.errorCount = MaxErrors => MaxErrors = 0
    BY RetryAssumption DEF lastChance
  <2>3. attempts[e.id] \in Nat
    BY <1>1 DEF attempts, Inv, TypeOK
  <2> QED
    BY <2>1, <2>2, <2>3, RetryAssumption
<1> QED
  BY <1>1, <1>2, <1>3, <1>4, <1>5
     DEF Ending, Spool!Succeed, Spool!Reject, Spool!Expire, Spool!End, Spool!Move,
         Spool!Attempt, status, attempts, lastChance

LEMMA SpoolDefers ==
  ASSUME Inv, Apart, Apart', Aimed, NEW e \in Held, NEW s \in Server, Defers(e, s)
  PROVE  Spool!Defer(e.id)
<1>1. status[e.id] = "sending" /\ e.id \in Id /\ e.errorCount \in Nat
  BY StatusIs, RetryAssumption DEF Defers, status, Apart, QueueEntry
<1>2. Deferred(e, s).id = e.id /\ Deferred(e, s).errorCount = e.errorCount + 1
  BY DEF Deferred
<1>3. status' = [status EXCEPT ![e.id] = "deferred"]
  <2>1. Deferred(e, s) \in Waiting'
    BY DEF Defers
  <2>2. StatusOf(e.id)' = "deferred"
    BY <1>2, <2>1, StatusIs
  <2> QED
    BY <1>2, <2>2, StatusKept DEF Defers
<1>4. attempts' = [attempts EXCEPT ![e.id] = @ + 1]
  BY AttemptCounted DEF Defers
<1>5. \A h \in Held : h.id = e.id => h = e
  BY DEF Apart
<1>6. lastChance' = lastChance
  <2>1. Held' = (Held \ {e}) \cup {Deferred(e, s)}
    BY HeldParts DEF Defers, Apart
  <2>2. e.errorCount # MaxErrors /\ Deferred(e, s).errorCount # MaxErrors
    BY <1>1, <1>2, RetryAssumption DEF Defers
  <2> QED
    BY <2>1, <2>2 DEF lastChance
<1>7. attempts[e.id] + 1 < MaxErrors /\ e.id \notin lastChance
  <2>1. e.errorCount # MaxErrors /\ e.errorCount + 1 < MaxErrors
    BY <1>1, RetryAssumption DEF Defers
  <2>2. e.errorCount = attempts[e.id]
    BY <1>1, <2>1 DEF Aimed, AimOK, attempts
  <2> QED
    BY <1>5, <2>1, <2>2 DEF lastChance
<1> QED
  BY <1>1, <1>3, <1>4, <1>6, <1>7
     DEF Spool!Defer, Spool!Move, Spool!Attempt, status, attempts, lastChance

LEMMA SpoolRequeues ==
  ASSUME Inv, Apart, Apart', NEW h \in Held, Requeues(h) PROVE Spool!Requeue(h.id)
<1>1. status[h.id] = "deferred" /\ h.id \in Id
  BY StatusIs DEF Requeues, status
<1>2. status' = [status EXCEPT ![h.id] = "queued"]
  <2>1. StatusOf(h.id)' = "queued"
    BY StatusIs DEF Requeues
  <2> QED
    BY <2>1, StatusKept DEF Requeues
<1>3. attempts' = attempts /\ lastChance' = lastChance
  BY HeldParts DEF Requeues, attempts, lastChance
<1> QED
  BY <1>1, <1>2, <1>3 DEF Spool!Requeue, Spool!Move, status, attempts, lastChance

LEMMA SpoolFlushes ==
  ASSUME Inv, Apart, Apart', Aimed, NEW h \in Held, Flushes(h) PROVE Spool!Flush(h.id)
<1>1. status[h.id] = "deferred" /\ h.id \in Id /\ h \in QueueEntry /\ h \in Waiting
  BY StatusIs DEF Flushes, status, Apart
<1>2. Flushed(h).id = h.id /\ Flushed(h).errorCount = MaxErrors
  BY <1>1 DEF Flushed, QueueEntry
<1>3. status' = [status EXCEPT ![h.id] = "queued"]
  <2>1. Flushed(h) \in Queued'
    BY DEF Flushes
  <2>2. StatusOf(h.id)' = "queued"
    BY <1>2, <2>1, StatusIs
  <2> QED
    BY <2>2, StatusKept DEF Flushes
<1>4. attempts' = attempts
  BY DEF Flushes, attempts
<1>5. lastChance' = lastChance \cup {h.id}
  <2>1. MaxErrors > 0
    BY <1>1, RetryAssumption DEF Aimed, QueueEntry
  <2>2. /\ Held' \subseteq Held \cup {Flushed(h)} /\ Flushed(h) \in Held'
        /\ Held \subseteq Held' \cup {h}
    BY HeldParts DEF Flushes
  <2> QED
    BY <1>2, <2>1, <2>2 DEF lastChance
<1> QED
  BY <1>1, <1>3, <1>4, <1>5 DEF Spool!Flush, Spool!Move, status, attempts, lastChance

LEMMA SpoolStays == ASSUME Stays PROVE UNCHANGED Spool!vars
<1>1. Held' = Held
  BY HeldParts DEF Stays
<1>2. status' = status
  BY DEF Stays, status, StatusOf
<1>3. attempts' = attempts /\ lastChance' = lastChance
  BY <1>1 DEF Stays, attempts, lastChance
<1> QED
  BY <1>2, <1>3 DEF Spool!vars, status, attempts, lastChance

LEMMA SpoolInit == Init => Spool!Init
<1> SUFFICES ASSUME Init PROVE Spool!Init
  OBVIOUS
<1>1. Held = {} /\ \A i \in Id : fate[i] = "new" /\ Len(tried[i]) = 0
  BY DEF Init, Held, Waiting, Contents
<1>2. status = [i \in Id |-> "new"] /\ attempts = [i \in Id |-> 0] /\ lastChance = {}
  BY <1>1 DEF status, StatusOf, attempts, lastChance
<1> QED
  BY <1>2 DEF Spool!Init, status, attempts, lastChance

LEMMA SpoolNext ==
  ASSUME Inv, Aimed, [Next]_vars PROVE [Spool!Next]_(Spool!vars)
<1>1. Inv' /\ Apart /\ SetStep
  BY NextInv, InvApart, NextSets
<1>2. Apart'
  BY <1>1, InvApart, PTL
<1>3. CASE Stays
  BY <1>3, SpoolStays
<1>4. ASSUME NEW i \in Id, Accepts(i) PROVE Spool!Next
  BY <1>1, <1>2, <1>4, SpoolAccepts DEF Spool!Next
<1>5. \A h \in Held : h.id \in Id
  BY <1>1, StatusIs
<1>6. ASSUME NEW c \in Held, Spawns(c) PROVE Spool!Next
  BY <1>1, <1>2, <1>5, <1>6, SpoolSpawns DEF Spool!Next
<1>7. ASSUME NEW e \in Held, NEW f \in Ending, Ends(e, f) PROVE Spool!Next
  BY <1>1, <1>2, <1>5, <1>7, SpoolEnds DEF Spool!Next
<1>8. ASSUME NEW e \in Held, NEW s \in Server, Defers(e, s) PROVE Spool!Next
  BY <1>1, <1>2, <1>5, <1>8, SpoolDefers DEF Spool!Next
<1>9. ASSUME NEW h \in Held, Requeues(h) \/ Flushes(h) PROVE Spool!Next
  BY <1>1, <1>2, <1>5, <1>9, SpoolRequeues, SpoolFlushes DEF Spool!Next
<1> QED
  BY <1>1, <1>3, <1>4, <1>6, <1>7, <1>8, <1>9 DEF SetStep

(* The channels, hands and goroutines of mq.go and sender.go, under every  *)
(* interleaving and with flushes at any time, are an implementation of the *)
(* life of an entry that MailSpool specifies, for every value of the       *)
(* constants.                                                              *)
THEOREM SpoolImplemented == Spec => ImplementsSpool
<1>1. Init => Spool!Init
  BY SpoolInit
<1>2. Inv /\ Aimed /\ [Next]_vars => [Spool!Next]_(Spool!vars)
  BY SpoolNext
<1> QED
  BY <1>1, <1>2, AlwaysAimed, PTL DEF Spec, ImplementsSpool, Spool!Spec

-----------------------------------------------------------------------------
(* Gridlock.  Where everybody is blocked the places that are full hold as  *)
(* many different entries as they have room for.                           *)

LEMMA OnePlace ==
  ASSUME Inv, NEW x \in Held
  PROVE  /\ ~(x \in Contents(mailCh) /\ x \in Contents(errCh))
         /\ ~(x \in Contents(mailCh) \cup Contents(errCh) /\ x \in deferring)
         /\ x \in Contents(mailCh) \cup Contents(errCh) \cup deferring => x # cloner /\ x # handler
         /\ ~(x = cloner /\ x = handler)
<1> DEFINE i == x.id
<1>1. x \in QueueEntry /\ x # None /\ i \in Id
  BY InvApart, NoneAssumption DEF Apart, QueueEntry
<1>2. /\ x \in Contents(mailCh) => Count(mailCh, i) >= 1
      /\ x \in Contents(errCh) => Count(errCh, i) >= 1
      /\ x \in deferring => CountIn(deferring, i) >= 1
      /\ x = cloner => InHand(cloner, i) >= 1
      /\ x = handler => InHand(handler, i) >= 1
  <2>1. mailCh \in Seq(QueueEntry) /\ errCh \in Seq(QueueEntry) /\ IsFiniteSet(deferring)
    BY DEF Inv, TypeOK
  <2> QED
    BY <1>1, <2>1, ChannelOnce, SetOnce DEF InHand
<1>3. /\ Count(mailCh, i) \in Nat /\ Count(errCh, i) \in Nat
      /\ CountIn(deferring, i) \in Nat /\ InHand(cloner, i) \in Nat /\ InHand(handler, i) \in Nat
      /\ Count(mailCh, i) + Count(errCh, i) + CountIn(deferring, i)
           + InHand(cloner, i) + InHand(handler, i) <= 1
  BY <1>1, CopiesTerms DEF Copies
<1> QED
  BY <1>2, <1>3

(* Two different things are two. *)
LEMMA Pair ==
  ASSUME NEW x, NEW y, x # y
  PROVE  Cardinality({x, y}) = 2
<1>1. IsFiniteSet({x}) /\ Cardinality({x}) = 1 /\ y \notin {x}
  BY FS_Singleton
<1>2. Cardinality({x} \cup {y}) = 1 + 1
  BY <1>1, FS_AddElement
<1>3. {x, y} = {x} \cup {y}
  OBVIOUS
<1> QED
  BY <1>2, <1>3

(* A channel holds as many entries as it is long.                          *)
LEMMA ChannelDistinct ==
  ASSUME Inv, NEW q \in {mailCh, errCh}
  PROVE  IsFiniteSet(Contents(q)) /\ Cardinality(Contents(q)) = Len(q)
<1> DEFINE f == [k \in 1..Len(q) |-> q[k]]
<1>1. q \in Seq(QueueEntry) /\ Len(q) \in Nat
  BY DEF Inv, TypeOK
<1>2. ASSUME NEW k \in 1..Len(q), NEW l \in 1..Len(q), q[k] = q[l], k # l PROVE FALSE
  <2> DEFINE i == q[k].id
  <2>1. i \in Id
    <3>1. q[k] \in QueueEntry
      BY <1>1, <1>2
    <3> QED
      BY <3>1 DEF QueueEntry
  <2>2. {k, l} \in SUBSET Positions(q, i) /\ IsFiniteSet(Positions(q, i))
    BY <1>1, <1>2, CountType DEF Positions
  <2>3. Cardinality({k, l}) = 2
    BY <1>2, Pair
  <2>4. Count(q, i) >= 2 /\ Count(q, i) \in Nat
    BY <1>1, <2>2, <2>3, FS_Subset, CountType DEF Count
  <2>5. Count(q, i) <= 1
    BY <2>1, CopiesTerms DEF Copies
  <2> QED
    BY <2>4, <2>5
<1>3. f \in Bijection(1..Len(q), Contents(q))
  BY <1>2 DEF Contents, Bijection, Injection, Surjection, IsInjective
<1>4. IsFiniteSet(1..Len(q)) /\ Cardinality(1..Len(q)) = Len(q)
  BY <1>1, FS_Interval
<1> QED
  BY <1>3, <1>4, FS_Bijection DEF ExistsBijection

(* Two disjoint sets of entries. *)
LEMMA Together ==
  ASSUME NEW S, NEW T, IsFiniteSet(S), IsFiniteSet(T), \A x \in S : x \notin T
  PROVE  /\ IsFiniteSet(S \cup T)
         /\ Cardinality(S \cup T) = Cardinality(S) + Cardinality(T)
<1>1. S \cap T = {}
  OBVIOUS
<1>2. Cardinality(S) \in Nat /\ Cardinality(T) \in Nat /\ Cardinality({}) = 0
  BY FS_CardinalityType, FS_EmptySet
<1>3. /\ IsFiniteSet(S \cup T)
      /\ Cardinality(S \cup T) = Cardinality(S) + Cardinality(T) - Cardinality(S \cap T)
  BY FS_Union
<1>4. Cardinality(S \cap T) = 0
  BY <1>1, <1>2
<1> QED
  BY <1>2, <1>3, <1>4

(* The goroutines of the pipeline are blocked on each other, with an       *)
(* entry unresolved, only when both channels, all slots and the hands of   *)
(* the cloner and of the error handler are full.                           *)
LEMMA GridlockFull ==
  ASSUME Inv, MaxOutcoming > 0, Blocked, InFlight # {}
  PROVE  /\ Len(mailCh) = MailCap /\ Len(errCh) = ErrCap
         /\ Cardinality(deferring) = MaxOutcoming
         /\ cloner # None /\ handler # None
<1> USE DEF Inv, TypeOK
<1>1. Len(mailCh) \in Nat /\ Len(errCh) \in Nat /\ Len(<<>>) = 0
  OBVIOUS
<1>2. PICK h \in Held : TRUE
  BY InvApart DEF Apart, InFlight
<1>3. sending = {} /\ exiting = 0
  BY DEF Blocked
<1>4. cloner # None
  <2> SUFFICES ASSUME cloner = None PROVE FALSE
    OBVIOUS
  <2>1. mailCh = <<>> /\ Len(mailCh) < MailCap
    BY <1>1, CapacityAssumption DEF Blocked
  <2>2. handler = None /\ errCh = <<>> /\ Len(errCh) < ErrCap
    BY <1>1, <2>1, CapacityAssumption DEF Blocked
  <2>3. deferring = {} /\ flusher = None
    BY <2>1, <2>2, CapacityAssumption DEF Blocked, FlushHand
  <2> QED
    BY <1>2, <1>3, <2>1, <2>2, <2>3 DEF Held, Waiting, Contents
<1>5. Cardinality(deferring) \in Nat /\ Cardinality(sending) = 0
  BY <1>3, FS_CardinalityType, FS_EmptySet
<1>6. Cardinality(deferring) = MaxOutcoming
  BY <1>3, <1>4, <1>5, CapacityAssumption DEF Blocked, LimiterExact
<1>7. deferring # {}
  BY <1>6, FS_EmptySet
<1>8. Len(errCh) = ErrCap /\ errCh # <<>>
  BY <1>1, <1>7, CapacityAssumption DEF Blocked
<1>9. handler # None /\ Len(mailCh) = MailCap
  BY <1>1, <1>8, CapacityAssumption DEF Blocked
<1> QED
  BY <1>4, <1>6, <1>8, <1>9

LEMMA GridlockCounts ==
  ASSUME Inv, MaxOutcoming > 0, Blocked, InFlight # {}
  PROVE  Cardinality(InFlight) >= MailCap + ErrCap + MaxOutcoming + 2
<1> DEFINE A == Contents(mailCh) \cup Contents(errCh)
           B == A \cup deferring
           C == B \cup {cloner}
           D == C \cup {handler}
           f == [h \in D |-> h.id]
<1>1. D \subseteq Held
  BY GridlockFull DEF Held, Waiting
<1>2. IsFiniteSet(A) /\ Cardinality(A) = MailCap + ErrCap
  <2>1. IsFiniteSet(Contents(mailCh)) /\ Cardinality(Contents(mailCh)) = MailCap
    BY ChannelDistinct, GridlockFull
  <2>2. IsFiniteSet(Contents(errCh)) /\ Cardinality(Contents(errCh)) = ErrCap
    BY ChannelDistinct, GridlockFull
  <2>3. \A x \in Contents(mailCh) : x \notin Contents(errCh)
    BY <1>1, OnePlace
  <2> QED
    BY <2>1, <2>2, <2>3, Together
<1>3. IsFiniteSet(B) /\ Cardinality(B) = MailCap + ErrCap + MaxOutcoming
  BY <1>1, <1>2, OnePlace, Together, GridlockFull DEF Inv
<1>4. MailCap + ErrCap + MaxOutcoming \in Nat
  BY CapacityAssumption
<1>5. cloner \notin B /\ handler \notin C
  BY <1>1, OnePlace
<1>6. IsFiniteSet(C) /\ Cardinality(C) = MailCap + ErrCap + MaxOutcoming + 1
  <2> HIDE DEF A, B
  <2>1. IsFiniteSet(B \cup {cloner}) /\ Cardinality(B \cup {cloner}) = Cardinality(B) + 1
    BY <1>3, <1>5, FS_AddElement
  <2> QED
    BY <1>3, <2>1
<1>7. Cardinality(D) = MailCap + ErrCap + MaxOutcoming + 2
  <2> HIDE DEF A, B, C, D
  <2>1. Cardinality(C \cup {handler}) = Cardinality(C) + 1
    BY <1>5, <1>6, FS_AddElement
  <2>2. Cardinality(D) = Cardinality(C) + 1
    BY <2>1 DEF D
  <2> QED
    BY <1>4, <1>6, <2>2
<1>8. IsFiniteSet(InFlight) /\ Cardinality(InFlight) \in Nat
  <2>1. InFlight \in SUBSET Id
    BY DEF InFlight
  <2> QED
    BY <2>1, IdAssumption, FS_Subset, FS_CardinalityType
<1>9. f \in Injection(D, InFlight)
  <2> HIDE DEF D
  <2>1. \A h \in D : h.id \in InFlight
    BY <1>1, InvApart DEF Apart, InFlight, QueueEntry
  <2>2. \A g, h \in D : g.id = h.id => g = h
    BY <1>1, InvApart DEF Apart
  <2> QED
    BY <2>1, <2>2 DEF Injection, IsInjective
<1> HIDE DEF f, D
<1>10. Cardinality(D) <= Cardinality(InFlight)
  BY <1>8, <1>9, FS_Injection
<1> QED
  BY <1>7, <1>10

(* With a slot for a sender, the cycle of channels locks up only behind a  *)
(* backlog that fills every buffer, slot and hand: with less unresolved    *)
(* mail some goroutine can always move.                                    *)
THEOREM GridlockBound ==
  ASSUME MaxOutcoming > 0 PROVE Spec => []GridlockNeedsBacklog
<1>1. Inv => GridlockNeedsBacklog
  BY GridlockCounts DEF GridlockNeedsBacklog
<1> QED
  BY <1>1, InvariantHolds, PTL
=============================================================================
