--------------------------- MODULE StatisticsProofs ----------------------------
(* Theorems about Statistics, for any number of messages, every limit of   *)
(* outgoing connections and every size of the channels.                    *)
EXTENDS Statistics, FiniteSetTheorems, TLAPS

(* The messages a collector that has received everything would have        *)
(* counted as open, those that have a slot, and those that were counted as *)
(* sent or dropped or did not have to be.                                  *)
InFlight == Where({"sending", "sent", "dropped", "end"})
Holders == Where({"begin", "sending", "sent", "dropped", "end", "release", "stuck"})
Settled == Where({"end", "release", "done"})

(* The counter stays in its range while the differences in the channel are *)
(* collected one after the other: what it shows is what was true when the  *)
(* last one collected was sent.                                            *)
PrefixesInRange ==
  \A k \in 0..Len(sendersCh) : sendersCount + Net(sendersCh, k) \in 0..MaxOutcoming

(* Everything in the channel collected, the counter is the number of       *)
(* messages between their two differences.                                 *)
SendersAgree == sendersCount + Net(sendersCh, Len(sendersCh)) = Cardinality(InFlight)

(* No message is counted twice: the end of a message is counted at most    *)
(* once, as sent or as dropped.                                            *)
SettledAgree == sentCount + droppedCount + Len(droppedCh) <= Cardinality(Settled)

Senders == PrefixesInRange /\ SendersAgree

Inv == TypeOK /\ limiter = Cardinality(Holders) /\ Senders /\ SettledAgree

LEMMA Agreement == CountersAgree <=> SendersAgree /\ SettledAgree
  BY DEF CountersAgree, SendersAgree, SettledAgree, InFlight, Settled

-----------------------------------------------------------------------------
(* The differences of a channel. *)

LEMMA AtType ==
  ASSUME NEW q, NEW k \in Nat, NEW d
  PROVE  /\ IsFiniteSet(At(q, k, d)) /\ Cardinality(At(q, k, d)) \in Nat
         /\ Cardinality(At(q, 0, d)) = 0
<1>1. IsFiniteSet(1..k)
  BY FS_Interval
<1>2. At(q, k, d) \in SUBSET (1..k) /\ At(q, 0, d) = {}
  BY DEF At
<1>3. IsFiniteSet(At(q, k, d)) /\ Cardinality({}) = 0
  BY <1>1, <1>2, FS_Subset, FS_EmptySet
<1> QED
  BY <1>2, <1>3, FS_CardinalityType

LEMMA NetType ==
  ASSUME NEW q, NEW k \in Nat PROVE Net(q, k) \in Int /\ Net(q, 0) = 0
<1>1. /\ Cardinality(At(q, k, 1)) \in Nat /\ Cardinality(At(q, k, -1)) \in Nat
      /\ Cardinality(At(q, 0, 1)) = 0 /\ Cardinality(At(q, 0, -1)) = 0
  BY AtType
<1> QED
  BY <1>1 DEF Net

(* One difference more. *)
LEMMA NetNext ==
  ASSUME NEW q, NEW k \in Nat, q[k + 1] \in {1, -1}
  PROVE  Net(q, k + 1) = Net(q, k) + q[k + 1]
<1> DEFINE C(j, d) == Cardinality(At(q, j, d))
<1>1. ASSUME NEW d \in {1, -1}
      PROVE  C(k + 1, d) = C(k, d) + (IF q[k + 1] = d THEN 1 ELSE 0)
  <2>1. 1..(k + 1) = (1..k) \cup {k + 1} /\ k + 1 \notin 1..k
    OBVIOUS
  <2>2. IsFiniteSet(At(q, k, d)) /\ C(k, d) \in Nat
    BY AtType
  <2>3. CASE q[k + 1] = d
    <3>1. At(q, k + 1, d) = At(q, k, d) \cup {k + 1} /\ k + 1 \notin At(q, k, d)
      BY <2>1, <2>3 DEF At
    <3>2. C(k + 1, d) = C(k, d) + 1
      BY <2>2, <3>1, FS_AddElement
    <3> QED
      BY <2>3, <3>2
  <2>4. CASE q[k + 1] # d
    <3>1. At(q, k + 1, d) = At(q, k, d)
      BY <2>1, <2>4 DEF At
    <3> QED
      BY <2>2, <2>4, <3>1
  <2> QED
    BY <2>3, <2>4
<1>2. C(k, 1) \in Nat /\ C(k, -1) \in Nat
  BY AtType
<1>3. Net(q, k + 1) = C(k + 1, 1) - C(k + 1, -1) /\ Net(q, k) = C(k, 1) - C(k, -1)
  BY DEF Net
<1> HIDE DEF C
<1>4. CASE q[k + 1] = 1
  BY <1>1, <1>2, <1>3, <1>4
<1>5. CASE q[k + 1] = -1
  BY <1>1, <1>2, <1>3, <1>5
<1> QED
  BY <1>4, <1>5

(* A send adds its difference at the end. *)
LEMMA NetAppend ==
  ASSUME NEW q \in Seq({1, -1}), NEW d \in {1, -1}
  PROVE  /\ \A k \in 0..Len(q) : Net(Append(q, d), k) = Net(q, k)
         /\ Len(Append(q, d)) = Len(q) + 1
         /\ Net(Append(q, d), Len(q) + 1) = Net(q, Len(q)) + d
<1> DEFINE r == Append(q, d)
<1>1. /\ Len(q) \in Nat /\ Len(r) = Len(q) + 1 /\ r[Len(q) + 1] = d
      /\ \A j \in 1..Len(q) : r[j] = q[j]
  OBVIOUS
<1>2. ASSUME NEW k \in 0..Len(q) PROVE Net(r, k) = Net(q, k)
  <2>1. \A j \in 1..k : j \in 1..Len(q)
    BY <1>1
  <2>2. At(r, k, 1) = At(q, k, 1) /\ At(r, k, -1) = At(q, k, -1)
    BY <1>1, <2>1 DEF At
  <2> QED
    BY <2>2 DEF Net
<1> HIDE DEF r
<1>3. Net(r, Len(q) + 1) = Net(r, Len(q)) + r[Len(q) + 1]
  BY <1>1, NetNext
<1>4. Len(q) \in 0..Len(q)
  BY <1>1
<1> QED
  BY <1>1, <1>2, <1>3, <1>4 DEF r

(* A receive takes its difference from every sum. *)
LEMMA AtTail ==
  ASSUME NEW q \in Seq({1, -1}), q # <<>>, NEW d, NEW k \in 0..(Len(q) - 1)
  PROVE  Cardinality(At(q, k + 1, d))
           = Cardinality(At(Tail(q), k, d)) + (IF Head(q) = d THEN 1 ELSE 0)
<1> DEFINE P == At(q, k + 1, d) \ {1}
           T == At(Tail(q), k, d)
           f == [j \in P |-> j - 1]
<1>1. /\ Len(q) \in Nat /\ Len(q) > 0 /\ Head(q) = q[1] /\ k \in Nat
      /\ \A j \in 1..k : Tail(q)[j] = q[j + 1]
  OBVIOUS
<1>2. IsFiniteSet(At(q, k + 1, d)) /\ Cardinality(At(q, k + 1, d)) \in Nat
  BY <1>1, AtType
<1>3. IsFiniteSet(P)
  BY <1>2, FS_RemoveElement
<1>4. f \in Bijection(P, T)
  <2>1. f \in [P -> T]
    BY <1>1 DEF At
  <2>2. \A x, y \in P : f[x] = f[y] => x = y
    BY <1>1 DEF At
  <2>3. \A t \in T : t + 1 \in P /\ f[t + 1] = t
    BY <1>1 DEF At
  <2> QED
    BY <2>1, <2>2, <2>3 DEF Bijection, Injection, Surjection, IsInjective
<1>5. ExistsBijection(P, T)
  BY <1>4 DEF ExistsBijection
<1>6. Cardinality(T) = Cardinality(P)
  BY <1>3, <1>5, FS_Bijection
<1>7. 1 \in At(q, k + 1, d) <=> Head(q) = d
  BY <1>1 DEF At
<1>8. Cardinality(P) = IF Head(q) = d THEN Cardinality(At(q, k + 1, d)) - 1
                                      ELSE Cardinality(At(q, k + 1, d))
  BY <1>2, <1>7, FS_RemoveElement
<1> HIDE DEF P, T
<1>9. Cardinality(At(q, k + 1, d)) = Cardinality(T) + (IF Head(q) = d THEN 1 ELSE 0)
  BY <1>2, <1>6, <1>8
<1> QED
  BY <1>9 DEF T

LEMMA NetTail ==
  ASSUME NEW q \in Seq({1, -1}), q # <<>>
  PROVE  /\ Head(q) \in {1, -1}
         /\ Len(Tail(q)) = Len(q) - 1
         /\ \A k \in 0..(Len(q) - 1) : Head(q) + Net(Tail(q), k) = Net(q, k + 1)
<1>1. Head(q) \in {1, -1} /\ Len(Tail(q)) = Len(q) - 1 /\ Tail(q) \in Seq({1, -1})
  OBVIOUS
<1>2. ASSUME NEW k \in 0..(Len(q) - 1)
      PROVE  Head(q) + Net(Tail(q), k) = Net(q, k + 1)
  <2> DEFINE C(r, j, d) == Cardinality(At(r, j, d))
  <2>1. /\ C(q, k + 1, 1) = C(Tail(q), k, 1) + (IF Head(q) = 1 THEN 1 ELSE 0)
        /\ C(q, k + 1, -1) = C(Tail(q), k, -1) + (IF Head(q) = -1 THEN 1 ELSE 0)
    BY AtTail
  <2>2. C(Tail(q), k, 1) \in Nat /\ C(Tail(q), k, -1) \in Nat
    BY AtType
  <2>3. /\ Net(q, k + 1) = C(q, k + 1, 1) - C(q, k + 1, -1)
        /\ Net(Tail(q), k) = C(Tail(q), k, 1) - C(Tail(q), k, -1)
    BY DEF Net
  <2> HIDE DEF C
  <2> QED
    BY <1>1, <2>1, <2>2, <2>3
<1> QED
  BY <1>1, <1>2

-----------------------------------------------------------------------------
(* The messages in some states. *)

LEMMA WhereType ==
  ASSUME NEW S
  PROVE  IsFiniteSet(Where(S)) /\ Cardinality(Where(S)) \in Nat
<1>1. Where(S) \in SUBSET Mail
  BY DEF Where
<1>2. IsFiniteSet(Where(S))
  BY <1>1, FS_Subset, StatisticsAssumption
<1> QED
  BY <1>2, FS_CardinalityType

(* A message that changes its state joins, leaves or stays. *)
LEMMA Moves ==
  ASSUME TypeOK, NEW m \in Mail, NEW from, NEW to, Goto(m, from, to), NEW S
  PROVE  /\ from \in S /\ to \in S => Where(S)' = Where(S)
         /\ from \notin S /\ to \notin S => Where(S)' = Where(S)
         /\ from \notin S /\ to \in S =>
              Cardinality(Where(S)') = Cardinality(Where(S)) + 1
         /\ from \in S /\ to \notin S =>
              Cardinality(Where(S)') = Cardinality(Where(S)) - 1
<1>1. pc[m] = from /\ pc'[m] = to /\ \A x \in Mail \ {m} : pc'[x] = pc[x]
  BY DEF Goto, TypeOK
<1>2. IsFiniteSet(Where(S))
  BY WhereType
<1>3. ASSUME from \in S <=> to \in S PROVE Where(S)' = Where(S)
  BY <1>1, <1>3 DEF Where
<1>4. ASSUME from \notin S, to \in S
      PROVE  Cardinality(Where(S)') = Cardinality(Where(S)) + 1
  <2>1. Where(S)' = Where(S) \cup {m} /\ m \notin Where(S)
    BY <1>1, <1>4 DEF Where
  <2> QED
    BY <1>2, <2>1, FS_AddElement
<1>5. ASSUME from \in S, to \notin S
      PROVE  Cardinality(Where(S)') = Cardinality(Where(S)) - 1
  <2>1. Where(S)' = Where(S) \ {m} /\ m \in Where(S)
    BY <1>1, <1>5 DEF Where
  <2> QED
    BY <1>2, <2>1, FS_RemoveElement
<1> QED
  BY <1>3, <1>4, <1>5

(* Who is in flight has a slot. *)
LEMMA FlightHolds ==
  /\ Cardinality(InFlight) \in Nat /\ Cardinality(Holders) \in Nat
  /\ Cardinality(Settled) \in Nat
  /\ Cardinality(InFlight) <= Cardinality(Holders)
<1>1. InFlight \subseteq Holders
  BY DEF InFlight, Holders, Where
<1>2. IsFiniteSet(Holders) /\ IsFiniteSet(InFlight) /\ IsFiniteSet(Settled)
  BY WhereType DEF Holders, InFlight, Settled
<1> QED
  BY <1>1, <1>2, FS_Subset, FS_CardinalityType

-----------------------------------------------------------------------------
(* The senders' counter. *)

(* Nothing was sent, collected, begun or ended.                            *)
LEMMA SendersQuiet ==
  ASSUME Senders, UNCHANGED <<sendersCh, sendersCount>>,
         Cardinality(InFlight') = Cardinality(InFlight)
  PROVE  Senders'
  BY DEF Senders, PrefixesInRange, SendersAgree

(* A goroutine told the counter of its begin or its end.                   *)
LEMMA SendersTold ==
  ASSUME TypeOK, Senders, NEW d \in {1, -1}, Send(d), UNCHANGED sendersCount,
         Cardinality(InFlight') = Cardinality(InFlight) + d,
         Cardinality(InFlight') \in 0..MaxOutcoming
  PROVE  /\ Senders'
         /\ sendersCh' \in Seq({1, -1}) /\ Len(sendersCh') <= STATISTICS_CHANNELS_SIZE
<1> DEFINE n == Len(sendersCh)
<1>1. /\ sendersCh \in Seq({1, -1}) /\ n \in Nat /\ sendersCount \in Int
      /\ sendersCh' = Append(sendersCh, d)
  BY DEF Send, TypeOK
<1>2. /\ \A k \in 0..n : Net(sendersCh', k) = Net(sendersCh, k)
      /\ Len(sendersCh') = n + 1
      /\ Net(sendersCh', n + 1) = Net(sendersCh, n) + d
  BY <1>1, NetAppend
<1>3. Net(sendersCh, n) \in Int /\ Cardinality(InFlight) \in Nat
  BY <1>1, NetType, FlightHolds
<1>4. sendersCount + Net(sendersCh, n) = Cardinality(InFlight)
  BY DEF Senders, SendersAgree
<1> HIDE DEF n
<1>5. sendersCount' + Net(sendersCh', n + 1) = Cardinality(InFlight')
  BY <1>1, <1>2, <1>3, <1>4
<1>6. ASSUME NEW k \in 0..(n + 1)
      PROVE  sendersCount' + Net(sendersCh', k) \in 0..MaxOutcoming
  <2>1. CASE k \in 0..n
    BY <1>2, <2>1 DEF Senders, PrefixesInRange, n
  <2>2. CASE k = n + 1
    BY <1>5, <2>2
  <2> QED
    BY <1>1, <2>1, <2>2
<1>7. Senders'
  BY <1>2, <1>5, <1>6 DEF Senders, PrefixesInRange, SendersAgree
<1>8. sendersCh' \in Seq({1, -1})
  BY <1>1
<1> QED
  BY <1>1, <1>2, <1>7, <1>8, StatisticsAssumption DEF Send, n

(* The collector took one difference.                                      *)
LEMMA SendersCollected ==
  ASSUME TypeOK, Senders, CollectSenders
  PROVE  /\ Senders'
         /\ sendersCh' \in Seq({1, -1}) /\ Len(sendersCh') <= STATISTICS_CHANNELS_SIZE
         /\ sendersCount' \in Int
<1> DEFINE n == Len(sendersCh)
           d == Head(sendersCh)
<1>1. /\ sendersCh \in Seq({1, -1}) /\ sendersCh # <<>> /\ n \in Nat /\ n > 0
      /\ sendersCount \in Int
      /\ sendersCh' = Tail(sendersCh) /\ sendersCount' = sendersCount + d
      /\ UNCHANGED pc
  BY DEF CollectSenders, TypeOK
<1>2. /\ d \in {1, -1} /\ Len(sendersCh') = n - 1
      /\ \A k \in 0..(n - 1) : d + Net(sendersCh', k) = Net(sendersCh, k + 1)
  BY <1>1, NetTail
<1>3. \A k \in Nat : Net(sendersCh', k) \in Int
  BY NetType
<1>4. InFlight' = InFlight
  BY <1>1 DEF InFlight, Where
<1> HIDE DEF n, d
<1>5. ASSUME NEW k \in 0..(n - 1)
      PROVE  sendersCount' + Net(sendersCh', k) = sendersCount + Net(sendersCh, k + 1)
  <2>1. d + Net(sendersCh', k) = Net(sendersCh, k + 1) /\ k \in Nat
    BY <1>1, <1>2
  <2>2. Net(sendersCh', k) \in Int /\ d \in Int
    BY <1>2, <1>3, <2>1
  <2> QED
    BY <1>1, <2>1, <2>2
<1>6. PrefixesInRange'
  <2>1. \A k \in 0..(n - 1) : k + 1 \in 0..n
    BY <1>1
  <2>2. \A k \in 0..n : sendersCount + Net(sendersCh, k) \in 0..MaxOutcoming
    BY DEF Senders, PrefixesInRange, n
  <2> QED
    BY <1>2, <1>5, <2>1, <2>2 DEF PrefixesInRange
<1>7. SendersAgree'
  <2>1. n - 1 \in 0..(n - 1) /\ (n - 1) + 1 = n
    BY <1>1
  <2>2. sendersCount' + Net(sendersCh', n - 1) = sendersCount + Net(sendersCh, n)
    BY <1>5, <2>1
  <2> QED
    BY <1>2, <1>4, <2>2 DEF Senders, SendersAgree, n
<1>8. sendersCh' \in Seq({1, -1}) /\ sendersCount' \in Int
  BY <1>1, <1>2
<1>9. Len(sendersCh') <= STATISTICS_CHANNELS_SIZE
  BY <1>1, <1>2, StatisticsAssumption DEF TypeOK, n
<1> QED
  BY <1>6, <1>7, <1>8, <1>9 DEF Senders

-----------------------------------------------------------------------------
LEMMA InitInv == Init => Inv
<1> SUFFICES ASSUME Init PROVE Inv
  OBVIOUS
<1>1. InFlight = {} /\ Holders = {} /\ Settled = {} /\ Cardinality({}) = 0
  BY FS_EmptySet DEF Init, InFlight, Holders, Settled, Where
<1>2. /\ sendersCh = <<>> /\ droppedCh = <<>> /\ Len(<<>>) = 0
      /\ sendersCount = 0 /\ sentCount = 0 /\ droppedCount = 0 /\ limiter = 0
  BY DEF Init
<1>3. TypeOK
  BY <1>2, StatisticsAssumption DEF Init, TypeOK
<1>4. Net(<<>>, 0) = 0
  BY NetType
<1>5. PrefixesInRange
  BY <1>2, <1>4, StatisticsAssumption DEF PrefixesInRange
<1>6. SendersAgree /\ SettledAgree
  BY <1>1, <1>2, <1>4 DEF SendersAgree, SettledAgree
<1> QED
  BY <1>1, <1>2, <1>3, <1>5, <1>6 DEF Inv, Senders

(* A step of a goroutine that moves no difference: its slot and what it    *)
(* has settled are counted with it.                                        *)
LEMMA SpawnInv == ASSUME Inv, NEW m \in Mail, Spawn(m) PROVE Inv'
<1>1. TypeOK /\ Goto(m, "queued", "begin")
  BY DEF Inv, Spawn
<1>2. /\ InFlight' = InFlight /\ Settled' = Settled
      /\ Cardinality(Holders') = Cardinality(Holders) + 1
  BY <1>1, Moves DEF InFlight, Settled, Holders
<1>3. Senders'
  BY <1>2, SendersQuiet DEF Inv, Spawn, channels, counters
<1>4. SettledAgree'
  BY <1>2 DEF Inv, SettledAgree, Spawn, channels, counters
<1>5. limiter' = Cardinality(Holders') /\ limiter' \in 0..MaxOutcoming
  BY <1>2, StatisticsAssumption DEF Inv, Spawn, TypeOK
<1>6. TypeOK'
  BY <1>1, <1>5 DEF Spawn, Goto, TypeOK, channels, counters
<1> QED
  BY <1>3, <1>4, <1>5, <1>6 DEF Inv

LEMMA IncreaseInv ==
  ASSUME Inv, NEW m \in Mail, MailSendersIncreaseCounter(m) PROVE Inv'
<1>1. CASE Goto(m, "begin", "stuck") /\ UNCHANGED <<made, channels, counters, limiter>>
  <2>1. InFlight' = InFlight /\ Settled' = Settled /\ Holders' = Holders
    BY <1>1, Moves DEF Inv, InFlight, Settled, Holders
  <2>2. Senders'
    BY <1>1, <2>1, SendersQuiet DEF Inv, channels, counters
  <2>3. SettledAgree'
    BY <1>1, <2>1 DEF Inv, SettledAgree, channels, counters
  <2>4. TypeOK'
    BY <1>1 DEF Inv, Goto, TypeOK, channels, counters
  <2> QED
    BY <1>1, <2>1, <2>2, <2>3, <2>4 DEF Inv
<1>2. CASE /\ Send(1)
           /\ Goto(m, "begin", "sending")
           /\ UNCHANGED <<made, droppedCh, counters, limiter>>
  <2>1. /\ Holders' = Holders /\ Settled' = Settled
        /\ Cardinality(InFlight') = Cardinality(InFlight) + 1
    BY <1>2, Moves DEF Inv, InFlight, Settled, Holders
  <2>2. InFlight' \subseteq Holders
    BY <2>1 DEF InFlight, Holders, Where
  <2>3. Cardinality(InFlight') <= Cardinality(Holders)
    BY <2>2, WhereType, FS_Subset DEF Holders
  <2>7. Cardinality(InFlight') \in 0..MaxOutcoming
    BY <2>1, <2>3, FlightHolds, StatisticsAssumption DEF Inv, TypeOK
  <2>4. /\ Senders'
        /\ sendersCh' \in Seq({1, -1}) /\ Len(sendersCh') <= STATISTICS_CHANNELS_SIZE
    BY <1>2, <2>1, <2>7, SendersTold DEF Inv, counters
  <2>5. SettledAgree'
    BY <1>2, <2>1 DEF Inv, SettledAgree, counters
  <2>6. TypeOK'
    BY <1>2, <2>4 DEF Inv, Goto, TypeOK, counters
  <2> QED
    BY <1>2, <2>1, <2>4, <2>5, <2>6 DEF Inv
<1> QED
  BY <1>1, <1>2 DEF MailSendersIncreaseCounter

LEMMA SendMailInv == ASSUME Inv, NEW m \in Mail, SendMail(m) PROVE Inv'
<1>1. PICK result \in {"sent", "dropped", "end"} : Goto(m, "sending", result)
  BY DEF SendMail
<1>2. /\ InFlight' = InFlight /\ Holders' = Holders
      /\ \/ Settled' = Settled
         \/ Cardinality(Settled') = Cardinality(Settled) + 1
  BY <1>1, Moves DEF Inv, InFlight, Settled, Holders
<1>3. Senders'
  BY <1>2, SendersQuiet DEF Inv, SendMail, channels, counters
<1>4. SettledAgree'
  <2>1. Cardinality(Settled') >= Cardinality(Settled)
    BY <1>2, FlightHolds
  <2>2. sentCount \in Nat /\ droppedCount \in Nat /\ Len(droppedCh) \in Nat
    BY DEF Inv, TypeOK
  <2>3. Cardinality(Settled') \in Nat
    BY <1>2, FlightHolds
  <2>4. /\ sentCount + droppedCount + Len(droppedCh) <= Cardinality(Settled)
        /\ UNCHANGED <<sentCount, droppedCount, droppedCh>>
    BY DEF Inv, SettledAgree, SendMail, channels, counters
  <2>5. sentCount + droppedCount + Len(droppedCh) <= Cardinality(Settled')
    BY <2>1, <2>2, <2>3, <2>4, FlightHolds
  <2> QED
    BY <2>4, <2>5 DEF SettledAgree
<1>5. TypeOK'
  BY <1>1 DEF Inv, SendMail, Goto, TypeOK, channels, counters
<1> QED
  BY <1>2, <1>3, <1>4, <1>5 DEF Inv, SendMail

(* One more message counted as sent or dropped, and one more settled.      *)
LEMMA CountedInv ==
  ASSUME Inv, NEW m \in Mail, MailSentIncreaseCounter(m) \/ MailDroppedIncreaseCounter(m)
  PROVE  Inv'
<1>1. PICK from \in {"sent", "dropped"} : Goto(m, from, "end")
  BY DEF MailSentIncreaseCounter, MailDroppedIncreaseCounter
<1>2. /\ InFlight' = InFlight /\ Holders' = Holders
      /\ Cardinality(Settled') = Cardinality(Settled) + 1
  BY <1>1, Moves DEF Inv, InFlight, Settled, Holders
<1>3. UNCHANGED <<made, sendersCh, sendersCount, limiter>>
  BY DEF MailSentIncreaseCounter, MailDroppedIncreaseCounter, channels, counters
<1>4. Senders'
  BY <1>2, <1>3, SendersQuiet DEF Inv
<1>5. /\ sentCount \in Nat /\ droppedCount \in Nat /\ droppedCh \in Seq({1})
      /\ Len(droppedCh) \in Nat /\ Len(droppedCh) <= STATISTICS_CHANNELS_SIZE
  BY DEF Inv, TypeOK
<1>6. /\ sentCount' \in Nat /\ droppedCount' \in Nat /\ droppedCh' \in Seq({1})
      /\ Len(droppedCh') \in Nat /\ Len(droppedCh') <= STATISTICS_CHANNELS_SIZE
      /\ sentCount' + droppedCount' + Len(droppedCh')
           = sentCount + droppedCount + Len(droppedCh) + 1
  <2>1. CASE MailSentIncreaseCounter(m)
    BY <1>5, <2>1 DEF MailSentIncreaseCounter, channels
  <2>2. CASE MailDroppedIncreaseCounter(m)
    <3>1. /\ droppedCh' = Append(droppedCh, 1) /\ Len(droppedCh) < STATISTICS_CHANNELS_SIZE
          /\ UNCHANGED <<sentCount, droppedCount>>
      BY <2>2 DEF MailDroppedIncreaseCounter, counters
    <3>2. droppedCh' \in Seq({1}) /\ Len(droppedCh') = Len(droppedCh) + 1
      BY <1>5, <3>1
    <3> QED
      BY <1>5, <3>1, <3>2, StatisticsAssumption
  <2> QED
    BY <2>1, <2>2
<1>7. SettledAgree'
  <2>1. sentCount + droppedCount + Len(droppedCh) <= Cardinality(Settled)
    BY DEF Inv, SettledAgree
  <2>2. sentCount' + droppedCount' + Len(droppedCh') <= Cardinality(Settled')
    BY <1>2, <1>5, <1>6, <2>1, FlightHolds
  <2> QED
    BY <2>2 DEF SettledAgree
<1>8. TypeOK'
  BY <1>1, <1>3, <1>6 DEF Inv, Goto, TypeOK
<1> QED
  BY <1>2, <1>3, <1>4, <1>7, <1>8 DEF Inv

(* The deferred function: the difference first, then the slot.             *)
LEMMA DecreaseInv ==
  ASSUME Inv, NEW m \in Mail, MailSendersDecreaseCounter(m) PROVE Inv'
<1>1. CASE /\ Send(-1)
           /\ Goto(m, "end", "release")
           /\ UNCHANGED <<made, droppedCh, counters, limiter>>
  <2>1. /\ Holders' = Holders /\ Settled' = Settled
        /\ Cardinality(InFlight') = Cardinality(InFlight) - 1
    BY <1>1, Moves DEF Inv, InFlight, Settled, Holders
  <2>2. Cardinality(InFlight) # 0
    <3>1. m \in InFlight
      BY <1>1 DEF Goto, InFlight, Where
    <3>2. IsFiniteSet(InFlight)
      BY WhereType DEF InFlight
    <3> QED
      BY <3>1, <3>2, FS_EmptySet
  <2>3. /\ Cardinality(InFlight') \in 0..MaxOutcoming
        /\ Cardinality(InFlight') = Cardinality(InFlight) + (-1)
    BY <2>1, <2>2, FlightHolds, StatisticsAssumption DEF Inv, TypeOK
  <2>4. /\ Senders'
        /\ sendersCh' \in Seq({1, -1}) /\ Len(sendersCh') <= STATISTICS_CHANNELS_SIZE
    BY <1>1, <2>3, SendersTold DEF Inv, counters
  <2>5. SettledAgree'
    BY <1>1, <2>1 DEF Inv, SettledAgree, counters
  <2>6. TypeOK'
    BY <1>1, <2>4 DEF Inv, Goto, TypeOK, counters
  <2> QED
    BY <1>1, <2>1, <2>4, <2>5, <2>6 DEF Inv
<1>2. CASE /\ limiter' = limiter - 1
           /\ Goto(m, "release", "done")
           /\ UNCHANGED <<made, channels, counters>>
  <2>1. /\ InFlight' = InFlight /\ Settled' = Settled
        /\ Cardinality(Holders') = Cardinality(Holders) - 1
    BY <1>2, Moves DEF Inv, InFlight, Settled, Holders
  <2>2. Cardinality(Holders) # 0
    <3>1. m \in Holders
      BY <1>2 DEF Goto, Holders, Where
    <3>2. IsFiniteSet(Holders)
      BY WhereType DEF Holders
    <3> QED
      BY <3>1, <3>2, FS_EmptySet
  <2>3. limiter' = Cardinality(Holders') /\ limiter' \in 0..MaxOutcoming
    BY <1>2, <2>1, <2>2, FlightHolds, StatisticsAssumption DEF Inv, TypeOK
  <2>4. Senders'
    BY <1>2, <2>1, SendersQuiet DEF Inv, channels, counters
  <2>5. SettledAgree'
    BY <1>2, <2>1 DEF Inv, SettledAgree, channels, counters
  <2>6. TypeOK'
    BY <1>2, <2>3 DEF Inv, Goto, TypeOK, channels, counters
  <2> QED
    BY <2>3, <2>4, <2>5, <2>6 DEF Inv
<1> QED
  BY <1>1, <1>2 DEF MailSendersDecreaseCounter

-----------------------------------------------------------------------------
(* The collectors *)

LEMMA CollectSendersInv == ASSUME Inv, CollectSenders PROVE Inv'
<1>1. UNCHANGED <<made, droppedCh, sentCount, droppedCount, limiter, pc>>
  BY DEF CollectSenders
<1>2. /\ Senders'
      /\ sendersCh' \in Seq({1, -1}) /\ Len(sendersCh') <= STATISTICS_CHANNELS_SIZE
      /\ sendersCount' \in Int
  BY SendersCollected DEF Inv
<1>3. Settled' = Settled /\ Holders' = Holders
  BY <1>1 DEF Settled, Holders, Where
<1>4. SettledAgree'
  BY <1>1, <1>3 DEF Inv, SettledAgree
<1>5. TypeOK'
  BY <1>1, <1>2 DEF Inv, TypeOK
<1> QED
  BY <1>1, <1>2, <1>3, <1>4, <1>5 DEF Inv

LEMMA CollectDroppedInv == ASSUME Inv, CollectDropped PROVE Inv'
<1>1. /\ UNCHANGED <<made, sendersCh, sendersCount, sentCount, limiter, pc>>
      /\ droppedCh \in Seq({1}) /\ droppedCh # <<>>
      /\ droppedCh' = Tail(droppedCh) /\ droppedCount' = droppedCount + Head(droppedCh)
  BY DEF CollectDropped, Inv, TypeOK
<1>2. /\ Head(droppedCh) = 1 /\ droppedCh' \in Seq({1})
      /\ Len(droppedCh') = Len(droppedCh) - 1 /\ Len(droppedCh) \in Nat /\ Len(droppedCh) > 0
  BY <1>1
<1>3. Settled' = Settled /\ Holders' = Holders /\ InFlight' = InFlight
  BY <1>1 DEF Settled, Holders, InFlight, Where
<1>4. Senders'
  BY <1>1, <1>3, SendersQuiet DEF Inv
<1>5. sentCount \in Nat /\ droppedCount \in Nat
  BY DEF Inv, TypeOK
<1>6. SettledAgree'
  <2>1. sentCount' + droppedCount' + Len(droppedCh') = sentCount + droppedCount + Len(droppedCh)
    BY <1>1, <1>2, <1>5
  <2> QED
    BY <1>3, <2>1 DEF Inv, SettledAgree
<1>7. droppedCount' \in Nat /\ Len(droppedCh') <= STATISTICS_CHANNELS_SIZE
  BY <1>1, <1>2, <1>5, StatisticsAssumption DEF Inv, TypeOK
<1>8. TypeOK'
  BY <1>1, <1>2, <1>7 DEF Inv, TypeOK
<1> QED
  BY <1>1, <1>3, <1>4, <1>6, <1>8 DEF Inv

(* The channels being made, and stuttering.                                *)
LEMMA QuietInv == ASSUME Inv, InitStatistics \/ UNCHANGED vars PROVE Inv'
<1>1. UNCHANGED <<channels, counters, limiter, pc>>
  BY DEF InitStatistics, vars
<1>2. Settled' = Settled /\ Holders' = Holders /\ InFlight' = InFlight
  BY <1>1 DEF Settled, Holders, InFlight, Where
<1>3. Senders'
  BY <1>1, <1>2, SendersQuiet DEF Inv, channels, counters
<1>4. SettledAgree'
  BY <1>1, <1>2 DEF Inv, SettledAgree, channels, counters
<1>5. made' \in 1..5
  BY DEF Inv, TypeOK, InitStatistics, vars
<1>6. TypeOK'
  BY <1>1, <1>5 DEF Inv, TypeOK, channels, counters
<1> QED
  BY <1>1, <1>2, <1>3, <1>4, <1>6 DEF Inv

LEMMA NextInv == Inv /\ [Next]_vars => Inv'
  BY SpawnInv, IncreaseInv, SendMailInv, CountedInv, DecreaseInv, CollectSendersInv,
     CollectDroppedInv, QuietInv DEF Next, Goroutine

LEMMA AlwaysInv == Spec => []Inv
  BY InitInv, NextInv, PTL DEF Spec

-----------------------------------------------------------------------------
(* The number of outgoing connections on the statistics page is never      *)
(* negative and never above the limit, whatever the collector has not      *)
(* received yet.                                                           *)
THEOREM SendersAlwaysInRange == Spec => []SendersInRange
<1>1. Inv => SendersInRange
  <2> SUFFICES ASSUME Inv PROVE SendersInRange
    OBVIOUS
  <2>1. Len(sendersCh) \in Nat /\ sendersCount \in Int
    BY DEF Inv, TypeOK
  <2>2. sendersCount + Net(sendersCh, 0) \in 0..MaxOutcoming
    BY <2>1 DEF Inv, Senders, PrefixesInRange
  <2>3. Net(sendersCh, 0) = 0
    BY NetType
  <2> QED
    BY <2>1, <2>2, <2>3 DEF SendersInRange
<1> QED
  BY <1>1, AlwaysInv, PTL

(* The counters account for every message: what has been counted and what  *)
(* is under way in the channels is what became of the messages.            *)
THEOREM CountersAlwaysAgree == Spec => []CountersAgree
<1>1. Inv => CountersAgree
  BY Agreement DEF Inv, Senders
<1> QED
  BY <1>1, AlwaysInv, PTL
=============================================================================
