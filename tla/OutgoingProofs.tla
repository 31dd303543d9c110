---------------------------- MODULE OutgoingProofs ----------------------------
(* Theorems about Outgoing, for every number of recipients and attempts, *)
(* every message and any number of attempts of the neighbour.            *)
EXTENDS Outgoing, SequenceTheorems, WellFoundedInduction, TLAPS

-----------------------------------------------------------------------------
(* Signing is no step of the conversation, and the conversation takes    *)
(* only its own steps: what is shown of SmtpClient holds of Outgoing.    *)
LEMMA Conversation == OutgoingSpec => Spec
<1>1. OutgoingInit => Init
  BY DEF OutgoingInit
<1>2. [OutgoingNext]_outgoing => [Next]_vars
  BY DEF OutgoingNext, outgoing, DKIMSign, Converse, NeighbourAgain
<1> QED
  BY <1>1, <1>2, PTL DEF OutgoingSpec, Spec

-----------------------------------------------------------------------------
(* The conversation.  No recipient is accepted before RCPT and none is   *)
(* missing after it; an error leads to the end of the attempt; an        *)
(* attempt that got past the message without an error was taken over.    *)
RecipientsCounted ==
  /\ pc \in {"dial", "greeting", "ehlo", "helo", "starttls", "tlsEhlo", "mail"} =>
       accepted = 0
  /\ pc = "rcpt" => accepted < NumRcpt
  /\ pc \in {"data", "body", "quit"} => accepted = NumRcpt

ErrorsEnd ==
  /\ err # nil => pc = "close"
  /\ outcome # "pending" => pc = "close"
  /\ pc = "quit" \/ (pc = "close" /\ err = nil) => copies > 0

(* The attempt under way has made a copy only at its end; each one       *)
(* before has made one at the most, and was counted.                     *)
CopiesCounted ==
  /\ copies <= errorCount + (IF pc \in {"quit", "close"} THEN 1 ELSE 0)
  /\ MaxErrors > 0 => errorCount < MaxErrors

(* Before the first EHLO nothing is offered, and TLS is on before the    *)
(* second.                                                               *)
OfferHeard ==
  /\ pc \in {"dial", "greeting", "ehlo", "helo"} => ~offered
  /\ pc = "tlsEhlo" => tls

(* The two flags of the connection, and the rest.                        *)
FlagsOK == tls \in BOOLEAN /\ offered \in BOOLEAN /\ OfferHeard /\ TLSIfOffered

CountsOK ==
  /\ pc \in Stages
  /\ ext \in SUBSET Extensions /\ accepted \in 0..NumRcpt
  /\ err \in ErrorTexts \cup {nil}
  /\ errorCount \in 0..MaxErrors
  /\ outcome \in {"pending", "sent", "rejected", "expired"}
  /\ copies \in Nat /\ partial \in BOOLEAN
  /\ RecipientsCounted /\ ErrorsEnd /\ CopiesCounted /\ SentIsTakenOver

ClientInv ==
  /\ TypeOK
  /\ RecipientsCounted /\ ErrorsEnd /\ CopiesCounted /\ OfferHeard
  /\ SentIsTakenOver /\ TLSIfOffered

LEMMA InTwoParts == ClientInv <=> FlagsOK /\ CountsOK
  BY DEF ClientInv, FlagsOK, CountsOK, TypeOK

LEMMA InitClientInv == Init => ClientInv
<1> SUFFICES ASSUME Init PROVE ClientInv
  OBVIOUS
<1>1. CountsOK
  <2>1. ~partial /\ partial \in BOOLEAN
    BY Zenon DEF Init
  <2> QED
    BY <2>1, ClientAssumption
       DEF Init, CountsOK, Stages, nil, RecipientsCounted, ErrorsEnd, CopiesCounted,
           SentIsTakenOver
<1>2. FlagsOK
  BY DEF Init, FlagsOK, OfferHeard, TLSIfOffered
<1> QED
  BY <1>1, <1>2, InTwoParts

(* The steps before the message is sent, a failure of any of them        *)
(* included.                                                             *)
LEMMA TalkCounts ==
  ASSUME CountsOK,
         Dial \/ NewClient \/ ehlo \/ helo \/ StartTLS \/ tlsEhlo \/ Mail \/ Rcpt \/ Data
  PROVE  CountsOK'
<1> USE ClientAssumption
    DEF CountsOK, Stages, ErrorTexts, nil, Broken, RecipientsCounted, ErrorsEnd,
        CopiesCounted, SentIsTakenOver, history
<1>1. CASE Dial
  BY <1>1 DEF Dial
<1>2. CASE NewClient \/ helo
  BY <1>2 DEF NewClient, helo, Step, Fail
<1>3. CASE ehlo
  BY <1>3 DEF ehlo, Supported
<1>4. CASE StartTLS \/ tlsEhlo
  BY <1>4 DEF StartTLS, tlsEhlo, Fail
<1>5. CASE Mail \/ Data
  BY <1>5 DEF Mail, Data, Step, Fail
<1>6. CASE Rcpt
  BY <1>6 DEF Rcpt, Fail
<1> QED
  BY <1>1, <1>2, <1>3, <1>4, <1>5, <1>6

(* The message itself, and the end of the conversation.                  *)
LEMMA WriteCounts == ASSUME CountsOK, WriteAndClose \/ Quit PROVE CountsOK'
<1> USE ClientAssumption
    DEF CountsOK, Stages, ErrorTexts, nil, Broken, RecipientsCounted, ErrorsEnd,
        CopiesCounted, SentIsTakenOver, history
<1>1. CASE WriteAndClose
  BY <1>1 DEF WriteAndClose, TakeOver, Fail
<1>2. CASE Quit
  BY <1>2 DEF Quit, Step, Fail
<1> QED
  BY <1>1, <1>2

(* A deferred entry has one attempt less, an entry that is done keeps    *)
(* what its last attempt has made.                                       *)
LEMMA FinishCounts == ASSUME CountsOK, Finish PROVE CountsOK'
<1> USE ClientAssumption
    DEF CountsOK, Stages, nil, RecipientsCounted, ErrorsEnd, CopiesCounted,
        SentIsTakenOver, conversation, history
<1>1. CASE /\ pc = "close" /\ UNCHANGED <<errorCount, conversation, history>>
           /\ outcome' = "sent" => err = nil
           /\ outcome' \in {"sent", "rejected", "expired"}
  BY <1>1
<1>2. CASE errorCount + 1 < MaxErrors /\ errorCount' = errorCount + 1 /\ Again
  BY <1>2 DEF Finish, Again
<1> QED
  BY <1>1, <1>2 DEF Finish, End

(* The flags change at the two EHLOs, the handshake and the next         *)
(* attempt.                                                              *)
LEMMA NextFlags == ASSUME FlagsOK, Next PROVE FlagsOK'
<1> USE DEF FlagsOK, OfferHeard, TLSIfOffered
<1>1. CASE Dial \/ NewClient \/ helo \/ Mail \/ Rcpt \/ Data \/ WriteAndClose \/ Quit
  <2>1. UNCHANGED <<tls, offered>>
    BY <1>1 DEF Dial, NewClient, helo, Mail, Data, Quit, Step, Rcpt, WriteAndClose,
                TakeOver, Fail, history
  <2>2. \/ pc' = "close"
        \/ pc \in {"dial", "greeting"} /\ pc' \in {"greeting", "ehlo"}
        \/ pc = "helo" /\ pc' = "mail"
        \/ /\ pc \in {"mail", "rcpt", "data", "body"}
           /\ pc' \in {"rcpt", "data", "body", "quit"}
    BY <1>1 DEF Dial, NewClient, helo, Mail, Data, Quit, Step, Rcpt, WriteAndClose, Fail
  <2> QED
    BY <2>1, <2>2, ZenonT(30)
<1>2. CASE ehlo
  <2>1. tls' = tls
    BY <1>2 DEF ehlo
  <2>4. offered' \in BOOLEAN
    <3>1. offered' = offered \/ offered' = ("STARTTLS" \in ext')
      BY <1>2 DEF ehlo
    <3>2. ("STARTTLS" \in ext') \in BOOLEAN
      BY SMT
    <3> QED
      BY <3>1, <3>2, Zenon
  <2>2. pc' \in {"starttls", "mail", "helo"}
    BY <1>2 DEF ehlo
  <2>3. pc' \in {"mail", "helo"} => ~offered'
    BY <1>2 DEF ehlo, Supported
  <2> QED
    BY <2>1, <2>2, <2>3, <2>4, Zenon
<1>3. CASE StartTLS
  BY <1>3 DEF StartTLS, Fail, history
<1>4. CASE tlsEhlo
  BY <1>4 DEF tlsEhlo, Fail, history
<1>5. CASE Finish
  <2>1. CASE UNCHANGED <<conversation, history>>
    BY <2>1 DEF conversation, history
  <2>2. CASE Again
    BY <2>2 DEF Again
  <2> QED
    BY <1>5, <2>1, <2>2 DEF Finish, End
<1> QED
  BY <1>1, <1>2, <1>3, <1>4, <1>5 DEF Next

LEMMA NextClientInv == ClientInv /\ [Next]_vars => ClientInv'
<1>1. ASSUME ClientInv, UNCHANGED vars PROVE ClientInv'
  <2>1. UNCHANGED <<pc, ext, tls, accepted, err, errorCount, outcome, offered, copies,
                    partial>>
    BY <1>1 DEF vars, conversation, history
  <2> QED
    BY <1>1, <2>1, Zenon
       DEF ClientInv, TypeOK, RecipientsCounted, ErrorsEnd, CopiesCounted, OfferHeard,
           SentIsTakenOver, TLSIfOffered
<1>2. ASSUME ClientInv, Next PROVE ClientInv'
  <2>1. FlagsOK /\ CountsOK
    BY <1>2, InTwoParts
  <2>2. FlagsOK' /\ CountsOK'
    BY <1>2, <2>1, TalkCounts, WriteCounts, FinishCounts, NextFlags DEF Next
  <2> QED
    BY <2>2 DEF ClientInv, FlagsOK, CountsOK, TypeOK
<1> QED
  BY <1>1, <1>2

LEMMA ClientInvHolds == Spec => []ClientInv
  BY InitClientInv, NextClientInv, PTL DEF Spec

-----------------------------------------------------------------------------
(* What is logged and counted as sent was taken over by a server, for    *)
(* all its recipients, whatever the servers answer.                      *)
THEOREM SentWasTakenOver == OutgoingSpec => []SentIsTakenOver
  BY Conversation, ClientInvHolds, PTL DEF ClientInv

(* A server that offered STARTTLS, spelled in upper case, gets neither   *)
(* an address nor a message in plain text.                               *)
THEOREM TLSWhereOffered == OutgoingSpec => []TLSIfOffered
  BY Conversation, ClientInvHolds, PTL DEF ClientInv

(* Lost answers make no more copies of a message than the entry has      *)
(* attempts.                                                             *)
THEOREM CopiesLimited == OutgoingSpec => []CopiesBounded
<1>1. ClientInv => CopiesBounded
  BY ClientAssumption DEF ClientInv, TypeOK, CopiesCounted, CopiesBounded
<1> QED
  BY <1>1, Conversation, ClientInvHolds, PTL

-----------------------------------------------------------------------------
(* Induction on a range of numbers, and FlattenSeq                       *)

LEMMA LeastNatural ==
  ASSUME NEW T \in SUBSET Nat, T # {}
  PROVE  \E m \in T : \A n \in T : m <= n
<1> DEFINE R == {ss \in Nat \X Nat : ss[1] < ss[2]}
<1>1. IsWellFoundedOn(R, Nat)
  BY NatLessThanWellFounded DEF OpToRel
<1> HIDE DEF R
<1>2. PICK m \in T : \A n \in T : ~(<<n, m>> \in R)
  BY <1>1, WFMin
<1>3. ASSUME NEW n \in T, n < m PROVE FALSE
  <2>1. <<n, m>> \in Nat \X Nat /\ <<n, m>>[1] < <<n, m>>[2]
    BY <1>3
  <2>2. <<n, m>> \in R
    BY <2>1, Zenon DEF R
  <2> QED
    BY <1>2, <2>2
<1> QED
  BY <1>2, <1>3

-----------------------------------------------------------------------------
(* A set of numbers that has 0 and, with each number below n, the next   *)
(* one has all of them.                                                  *)
LEMMA UpTo ==
  ASSUME NEW n \in Nat, NEW P \in SUBSET Nat, 0 \in P,
         \A k \in 0..(n - 1) : k \in P => k + 1 \in P
  PROVE  \A k \in 0..n : k \in P
<1> DEFINE T == {k \in 0..n : k \notin P}
<1> SUFFICES ASSUME T # {} PROVE FALSE
  OBVIOUS
<1>1. PICK m \in T : \A k \in T : m <= k
  <2>1. T \in SUBSET Nat
    OBVIOUS
  <2> HIDE DEF T
  <2> QED
    BY <2>1, LeastNatural
<1>2. m # 0
  BY <1>1
<1>3. m - 1 \in 0..(n - 1) /\ m - 1 \notin T /\ m - 1 \in 0..n
  BY <1>1, <1>2
<1>4. m - 1 \in P
  BY <1>3
<1> QED
  BY <1>1, <1>3, <1>4

(* The concatenations of the first elements of a sequence of sequences.  *)
IsFlattening(f, seqs, S) ==
  /\ f \in [0..Len(seqs) -> Seq(S)]
  /\ f[0] = <<>>
  /\ \A i \in 1..Len(seqs) : f[i] = f[i - 1] \o seqs[i]

Flattens(f, seqs, n) ==
  f = [i \in 1..n |-> IF i = 1 THEN seqs[i] ELSE f[i - 1] \o seqs[i]]

LEMMA FlattensExists ==
  ASSUME NEW seqs, NEW n \in Nat PROVE \E f : Flattens(f, seqs, n)
<1> DEFINE P == {k \in Nat : \E f : Flattens(f, seqs, k)}
<1>1. 0 \in P
  <2>1. 1..0 = {}
    OBVIOUS
  <2>2. Flattens([i \in 1..0 |-> {}], seqs, 0)
    BY <2>1 DEF Flattens
  <2> QED
    BY <2>2
<1>2. ASSUME NEW k \in 0..(n - 1), k \in P PROVE k + 1 \in P
  <2>1. PICK g : Flattens(g, seqs, k)
    BY <1>2
  <2> DEFINE m == k + 1
             f == [i \in 1..m |-> IF i = m THEN (IF m = 1 THEN seqs[m] ELSE g[m - 1] \o seqs[m])
                                            ELSE g[i]]
             h == [i \in 1..m |-> IF i = 1 THEN seqs[i] ELSE f[i - 1] \o seqs[i]]
  <2>2. ASSUME NEW j \in 1..m PROVE f[j] = h[j]
    <3>0. j # 1 => j - 1 \in 1..m /\ j - 1 # m /\ f[j - 1] = g[j - 1]
      OBVIOUS
    <3>1. CASE j = m
      BY <3>0, <3>1
    <3>2. CASE j # m
      <4>1. j \in 1..k /\ f[j] = g[j]
        BY <3>2
      <4>2. g[j] = IF j = 1 THEN seqs[j] ELSE g[j - 1] \o seqs[j]
        BY <2>1, <4>1 DEF Flattens
      <4> QED
        BY <3>0, <4>1, <4>2
    <3> QED
      BY <3>1, <3>2
  <2>3. f = h
    BY <2>2
  <2>4. Flattens(f, seqs, m)
    BY <2>3 DEF Flattens
  <2>5. m \in Nat
    OBVIOUS
  <2> HIDE DEF f, h
  <2> QED
    BY <2>4, <2>5
<1> HIDE DEF P
<1>3. P \in SUBSET Nat
  BY DEF P
<1>4. n \in P
  BY <1>1, <1>2, <1>3, UpTo
<1> QED
  BY <1>4 DEF P

LEMMA FlattenIs ==
  ASSUME NEW S, NEW n \in Nat, NEW seqs \in [1..n -> Seq(S)]
  PROVE  \E f : IsFlattening(f, seqs, S) /\ FlattenSeq(seqs) = f[n]
<1>1. Len(seqs) = n /\ seqs \in Seq(Seq(S))
  OBVIOUS
<1>2. CASE n = 0
  <2>1. 0..0 = {0} /\ 1..0 = {} /\ seqs = <<>> /\ FlattenSeq(seqs) = <<>>
    BY <1>1, <1>2 DEF FlattenSeq
  <2>2. [i \in {0} |-> <<>>] \in [0..0 -> Seq(S)]
    BY <2>1
  <2>3. IsFlattening([i \in {0} |-> <<>>], seqs, S)
    BY <1>1, <1>2, <2>1, <2>2 DEF IsFlattening
  <2> QED
    BY <1>2, <2>1, <2>3
<1>3. CASE n # 0
  <2> DEFINE g == CHOOSE g : Flattens(g, seqs, n)
  <2>1. Flattens(g, seqs, n)
    BY FlattensExists
  <2>2. FlattenSeq(seqs) = g[n]
    BY <1>1, <1>3 DEF FlattenSeq, Flattens
  <2> HIDE DEF g
  <2>3. \A i \in 1..n : g[i] = IF i = 1 THEN seqs[i] ELSE g[i - 1] \o seqs[i]
    BY <2>1 DEF Flattens
  <2> DEFINE f == [i \in 0..n |-> IF i = 0 THEN <<>> ELSE g[i]]
             P == {i \in 0..n : f[i] \in Seq(S)}
  <2>4. \A i \in 1..n : seqs[i] \in Seq(S)
    OBVIOUS
  <2>5. ASSUME NEW i \in 1..n PROVE f[i] = f[i - 1] \o seqs[i]
    <3>1. seqs[i] = <<>> \o seqs[i]
      BY <2>4, ConcatEmptySeq
    <3>2. CASE i = 1
      <4>1. f[i] = seqs[i] /\ f[i - 1] = <<>>
        BY <2>3, <3>2
      <4> QED
        BY <3>1, <4>1
    <3>3. CASE i # 1
      <4>1. i - 1 \in 0..n /\ i - 1 # 0 /\ i \in 0..n /\ i # 0
        BY <3>3
      <4>2. f[i] = g[i] /\ f[i - 1] = g[i - 1]
        BY <4>1
      <4> QED
        BY <2>3, <3>3, <4>2
    <3> QED
      BY <3>2, <3>3
  <2>6. f[0] = <<>> /\ 0 \in 0..n
    OBVIOUS
  <2> HIDE DEF f
  <2>7. ASSUME NEW k \in 0..(n - 1), k \in P PROVE k + 1 \in P
    <3>1. k + 1 \in 1..n /\ k + 1 \in 0..n /\ (k + 1) - 1 = k
      OBVIOUS
    <3>2. f[k] \in Seq(S) /\ f[k + 1] = f[k] \o seqs[k + 1]
      BY <2>5, <2>7, <3>1
    <3>3. f[k + 1] \in Seq(S)
      BY <2>4, <3>1, <3>2, ConcatProperties
    <3> QED
      BY <3>1, <3>3
  <2>8. 0 \in P
    BY <2>6, EmptySeq
  <2>9. P \in SUBSET Nat
    OBVIOUS
  <2>10. \A k \in 0..n : k \in P
    <3> HIDE DEF P
    <3> QED
      BY <2>7, <2>8, <2>9, UpTo
  <2>11. f \in [0..n -> Seq(S)]
    BY <2>10 DEF f
  <2>12. f[n] = g[n]
    BY <1>3 DEF f
  <2> QED
    BY <1>1, <2>2, <2>5, <2>6, <2>11, <2>12 DEF IsFlattening
<1> QED
  BY <1>2, <1>3

(* Where every piece is one element, nothing changes.                    *)
LEMMA FlattenSingletons ==
  ASSUME NEW S, NEW n \in Nat, NEW g \in [1..n -> S], NEW seqs,
         seqs = [i \in 1..n |-> <<g[i]>>]
  PROVE  FlattenSeq(seqs) = g
<1>1. seqs \in [1..n -> Seq(S)] /\ Len(seqs) = n
  OBVIOUS
<1>2. PICK f : IsFlattening(f, seqs, S) /\ FlattenSeq(seqs) = f[n]
  BY <1>1, FlattenIs
<1>3. /\ \A k \in 0..n : f[k] \in Seq(S)
      /\ f[0] = <<>> /\ \A i \in 1..n : f[i] = f[i - 1] \o <<g[i]>>
  BY <1>1, <1>2 DEF IsFlattening
<1> DEFINE P == {k \in 0..n : Len(f[k]) = k /\ \A i \in 1..k : f[k][i] = g[i]}
<1>4. ASSUME NEW k \in 0..(n - 1), k \in P PROVE k + 1 \in P
  <2>1. k + 1 \in 1..n /\ k + 1 \in 0..n /\ (k + 1) - 1 = k
    OBVIOUS
  <2>2. f[k + 1] = f[k] \o <<g[k + 1]>> /\ f[k] \in Seq(S) /\ g[k + 1] \in S
    <3>1. g[k + 1] \in S
      BY <2>1
    <3>2. f[k + 1] = f[(k + 1) - 1] \o <<g[k + 1]>>
      BY <1>3, <2>1
    <3>3. k \in 0..n
      OBVIOUS
    <3>4. f[k] \in Seq(S)
      BY <1>3, <3>3
    <3> QED
      BY <2>1, <3>1, <3>2, <3>4
  <2>3. /\ Len(f[k + 1]) = k + 1
        /\ \A i \in 1..(k + 1) : f[k + 1][i] = IF i <= k THEN f[k][i] ELSE g[k + 1]
    BY <1>4, <2>2
  <2>4. \A i \in 1..(k + 1) : f[k + 1][i] = g[i]
    BY <1>4, <2>3
  <2> QED
    BY <2>1, <2>3, <2>4
<1>5. 0 \in P
  BY <1>3
<1>6. \A k \in 0..n : k \in P
  <2>1. P \in SUBSET Nat
    OBVIOUS
  <2> HIDE DEF P
  <2> QED
    BY <1>4, <1>5, <2>1, UpTo
<1>7. n \in 0..n
  OBVIOUS
<1>8. f[n] \in Seq(S) /\ Len(f[n]) = n /\ \A i \in 1..n : f[n][i] = g[i]
  BY <1>3, <1>6, <1>7
<1>9. g \in Seq(S) /\ Len(g) = n
  OBVIOUS
<1> QED
  BY <1>2, <1>8, <1>9, SeqEqual
-----------------------------------------------------------------------------
(* The last byte of text                                                 *)

(* Of numbers up to a bound there is a greatest, which Max chooses.      *)
LEMMA Greatest ==
  ASSUME NEW b \in Nat, NEW T \in SUBSET (0..b), T # {}
  PROVE  Max(T) \in T /\ \A n \in T : Max(T) >= n
<1> DEFINE U == {u \in 0..b : b - u \in T}
<1>1. \A n \in T : n \in 0..b /\ b - n \in U
  <2> SUFFICES ASSUME NEW n \in T PROVE n \in 0..b /\ b - n \in U
    OBVIOUS
  <2>1. n \in 0..b /\ b - (b - n) = n
    OBVIOUS
  <2> QED
    BY <2>1
<1>2. U \in SUBSET Nat /\ U # {}
  <2>1. PICK n \in T : TRUE
    OBVIOUS
  <2>2. b - n \in U
    BY <1>1
  <2>3. \A u \in U : u \in Nat
    OBVIOUS
  <2> HIDE DEF U
  <2> QED
    BY <2>2, <2>3
<1>3. PICK m \in U : \A n \in U : m <= n
  BY <1>2, LeastNatural
<1>4. b - m \in T /\ m \in 0..b
  BY <1>3
<1> HIDE DEF U
<1>5. \A n \in T : b - m >= n
  BY <1>1, <1>3, <1>4
<1> QED
  BY <1>4, <1>5 DEF Max

(* LastText is where the text of a body ends.                            *)
LEMMA LastTextIs ==
  ASSUME NEW q \in Seq(Byte)
  PROVE  /\ LastText(q) \in 0..Len(q)
         /\ LastText(q) > 0 => q[LastText(q)] \notin Trimmed
         /\ \A i \in 1..Len(q) : i > LastText(q) => q[i] \in Trimmed
<1> DEFINE T == {0} \cup {i \in DOMAIN q : q[i] \notin Trimmed}
<1>1. Len(q) \in Nat /\ DOMAIN q = 1..Len(q)
  OBVIOUS
<1>2. T \in SUBSET (0..Len(q)) /\ T # {}
  BY <1>1
<1>3. Max(T) \in T /\ \A n \in T : Max(T) >= n
  BY <1>1, <1>2, Greatest
<1>4. LastText(q) = Max(T)
  BY DEF LastText
<1> HIDE DEF T
<1>5. LastText(q) \in T /\ \A n \in T : LastText(q) >= n
  BY <1>3, <1>4
<1> QED
  BY <1>1, <1>5 DEF T

-----------------------------------------------------------------------------
(* The text of the shared bytes                                          *)

(* One body has the text of another: the same bytes up to the last one   *)
(* of text, and as many blanks and line ends behind it, whichever they   *)
(* are.                                                                  *)
SameText(q, m) ==
  /\ q \in Seq(Byte) /\ Len(q) = Len(m)
  /\ \A i \in 1..Kept(m) : q[i] = m[i]
  /\ \A i \in 1..Len(m) : i > Kept(m) => q[i] \in Trimmed

LEMMA KeptIs ==
  ASSUME NEW q \in Seq(Byte)
  PROVE  /\ Kept(q) \in 0..Len(q)
         /\ Kept(q) = Len(q) \/ (Kept(q) > 0 /\ q[Kept(q)] \notin Trimmed)
         /\ \A i \in 1..Len(q) : i > Kept(q) => q[i] \in Trimmed
<1>1. Len(q) \in Nat
  OBVIOUS
<1>2. /\ LastText(q) \in 0..Len(q)
      /\ LastText(q) > 0 => q[LastText(q)] \notin Trimmed
      /\ \A i \in 1..Len(q) : i > LastText(q) => q[i] \in Trimmed
  BY LastTextIs
<1> QED
  BY <1>1, <1>2 DEF Kept

(* Bodies of the same text end at the same place.                        *)
LEMMA SameKept ==
  ASSUME NEW m \in Seq(Byte), NEW q, SameText(q, m)
  PROVE  Kept(q) = Kept(m)
<1>1. q \in Seq(Byte) /\ Len(q) = Len(m) /\ Len(m) \in Nat
  BY DEF SameText
<1> DEFINE k == LastText(q)  l == LastText(m)
<1>2. /\ k \in 0..Len(m)
      /\ k > 0 => q[k] \notin Trimmed
      /\ \A i \in 1..Len(m) : i > k => q[i] \in Trimmed
  BY <1>1, LastTextIs
<1>3. /\ l \in 0..Len(m)
      /\ l > 0 => m[l] \notin Trimmed
      /\ \A i \in 1..Len(m) : i > l => m[i] \in Trimmed
  BY LastTextIs
<1>4. Kept(m) = (IF l = 0 THEN Len(m) ELSE l) /\ Kept(q) = (IF k = 0 THEN Len(m) ELSE k)
  BY <1>1 DEF Kept
<1>5. /\ \A i \in 1..Kept(m) : q[i] = m[i]
      /\ \A i \in 1..Len(m) : i > Kept(m) => q[i] \in Trimmed
  BY DEF SameText
<1> HIDE DEF k, l
<1>6. CASE l = 0
  <2>1. \A i \in 1..Len(m) : q[i] \in Trimmed
    BY <1>1, <1>3, <1>4, <1>5, <1>6
  <2>2. k = 0
    BY <1>1, <1>2, <2>1
  <2> QED
    BY <1>4, <1>6, <2>2
<1>7. CASE l > 0
  <2>1. q[l] \notin Trimmed /\ \A i \in 1..Len(m) : i > l => q[i] \in Trimmed
    BY <1>3, <1>4, <1>5, <1>7
  <2>2. k = l
    BY <1>1, <1>2, <1>3, <1>7, <2>1
  <2> QED
    BY <1>3, <1>4, <1>7, <2>2
<1> QED
  BY <1>1, <1>3, <1>6, <1>7

(* append(body[:i+1], '\r', '\n') writes only behind the text.           *)
LEMMA AppendKeeps ==
  ASSUME NEW m \in Seq(Byte), NEW q, SameText(q, m), NEW slack
  PROVE  SameText(AppendInPlace(q, slack), m)
<1> DEFINE a == AppendInPlace(q, slack)
<1>1. q \in Seq(Byte) /\ Len(q) = Len(m) /\ Len(m) \in Nat /\ Kept(m) \in 0..Len(m)
  BY KeptIs DEF SameText
<1>2. Kept(q) = Kept(m)
  BY SameKept
<1>3. CASE a = q
  BY <1>3
<1>4. CASE a = [i \in DOMAIN q |-> IF i = Kept(q) + 1 THEN "cr"
                                  ELSE IF i = Kept(q) + 2 THEN "lf" ELSE q[i]]
  <2> HIDE DEF a
  <2>1. DOMAIN q = 1..Len(m) /\ \A i \in 1..Len(m) : q[i] \in Byte
    BY <1>1
  <2>2. a \in [1..Len(m) -> Byte]
    BY <1>4, <2>1 DEF Byte
  <2>3. a \in Seq(Byte) /\ Len(a) = Len(m)
    BY <1>1, <2>2
  <2>4. \A i \in 1..Kept(m) : a[i] = q[i]
    BY <1>1, <1>2, <1>4, <2>1
  <2>5. \A i \in 1..Len(m) : a[i] = q[i] \/ a[i] \in Trimmed
    BY <1>4, <2>1 DEF Trimmed
  <2> QED
    BY <1>1, <2>3, <2>4, <2>5 DEF SameText, a
<1> QED
  BY <1>3, <1>4 DEF AppendInPlace

-----------------------------------------------------------------------------
(* What the DotWriter sends of a text                                    *)

(* The carriage returns behind which HalfEnded looks.                    *)
Run(q, i) == {n \in 0..i : \A j \in (i - n + 1)..i : q[j] = "cr"}

LEMMA RunIs ==
  ASSUME NEW q, NEW i \in Nat
  PROVE  /\ Max(Run(q, i)) \in Run(q, i)
         /\ Max(Run(q, i)) < i => q[i - Max(Run(q, i))] # "cr"
<1>1. 0 \in Run(q, i) /\ Run(q, i) \in SUBSET (0..i)
  BY DEF Run
<1>2. PICK m : m = Max(Run(q, i))
  OBVIOUS
<1>3. m \in Run(q, i) /\ \A n \in Run(q, i) : m >= n
  BY <1>1, <1>2, Greatest
<1>4. ASSUME m < i, q[i - m] = "cr" PROVE FALSE
  <2>1. m \in 0..i /\ \A j \in (i - m + 1)..i : q[j] = "cr"
    BY <1>3 DEF Run
  <2>2. m + 1 \in 0..i /\ i - (m + 1) + 1 = i - m
    BY <1>4, <2>1
  <2>3. \A j \in (i - m)..i : q[j] = "cr"
    BY <1>4, <2>1
  <2>4. m + 1 \in Run(q, i)
    BY <2>2, <2>3 DEF Run
  <2> QED
    BY <1>3, <2>1, <2>4
<1> QED
  BY <1>2, <1>3, <1>4

LEMMA LongestRun ==
  ASSUME NEW q, NEW i \in Nat, NEW n \in Run(q, i), n < i => q[i - n] # "cr"
  PROVE  Max(Run(q, i)) = n
<1>1. Run(q, i) \in SUBSET (0..i)
  BY DEF Run
<1>2. PICK m : m = Max(Run(q, i))
  OBVIOUS
<1>3. m \in Run(q, i) /\ m >= n /\ m \in 0..i /\ n \in 0..i
  BY <1>1, <1>2, Greatest
<1>4. ASSUME m > n PROVE FALSE
  <2>1. i - n \in (i - m + 1)..i
    BY <1>3, <1>4
  <2>2. q[i - n] = "cr"
    BY <1>3, <2>1 DEF Run
  <2> QED
    BY <1>3, <1>4, <2>2
<1> QED
  BY <1>2, <1>3, <1>4

(* The DotWriter's state CR, byte by byte.                               *)
LEMMA HalfEndedZero == ASSUME NEW q PROVE ~HalfEnded(q, 0)
<1>1. Run(q, 0) = {0}
  BY DEF Run
<1>2. Max(Run(q, 0)) = 0
  BY <1>1, LongestRun
<1> QED
  BY <1>2 DEF HalfEnded, Run

LEMMA HalfEndedStep ==
  ASSUME NEW q, NEW i \in Nat
  PROVE  HalfEnded(q, i + 1) <=> q[i + 1] = "cr" /\ ~HalfEnded(q, i)
<1>1. PICK m : m = Max(Run(q, i))
  OBVIOUS
<1>2. m \in Run(q, i) /\ (m < i => q[i - m] # "cr")
  BY <1>1, RunIs
<1>3. m \in 0..i /\ \A j \in (i - m + 1)..i : q[j] = "cr"
  BY <1>2 DEF Run
<1>4. CASE q[i + 1] = "cr"
  <2>1. /\ m + 1 \in 0..(i + 1) /\ (i + 1) - (m + 1) + 1 = i - m + 1
        /\ (i + 1) - (m + 1) = i - m
    BY <1>3
  <2>2. \A j \in (i - m + 1)..(i + 1) : q[j] = "cr"
    BY <1>3, <1>4
  <2>3. m + 1 \in Run(q, i + 1)
    BY <2>1, <2>2 DEF Run
  <2>4. m + 1 < i + 1 => q[(i + 1) - (m + 1)] # "cr"
    BY <1>2, <1>3, <2>1
  <2>5. Max(Run(q, i + 1)) = m + 1
    BY <2>3, <2>4, LongestRun
  <2>6. (m + 1) % 2 = 1 <=> ~(m % 2 = 1)
    BY <1>3
  <2> QED
    BY <1>1, <1>4, <2>5, <2>6 DEF HalfEnded, Run
<1>5. CASE q[i + 1] # "cr"
  <2>1. 0 \in Run(q, i + 1)
    BY DEF Run
  <2>2. (i + 1) - 0 = i + 1
    OBVIOUS
  <2>3. Max(Run(q, i + 1)) = 0
    BY <1>5, <2>1, <2>2, LongestRun
  <2> QED
    BY <1>5, <2>3 DEF HalfEnded, Run
<1> QED
  BY <1>4, <1>5

LEMMA HalfEndedSame ==
  ASSUME NEW p, NEW q, NEW i \in Nat, \A j \in 1..i : p[j] = q[j]
  PROVE  HalfEnded(p, i) <=> HalfEnded(q, i)
<1>1. \A n \in 0..i : \A j \in (i - n + 1)..i : p[j] = q[j]
  OBVIOUS
<1>2. Run(p, i) = Run(q, i)
  BY <1>1, Zenon DEF Run
<1> QED
  BY <1>2 DEF HalfEnded, Run

(* A line feed by itself, and the end of a text, is behind no half.      *)
LEMMA NotHalfEnded ==
  ASSUME NEW q, NEW i \in Nat, i > 0 => q[i] # "cr" PROVE ~HalfEnded(q, i)
<1>1. CASE i = 0
  BY <1>1, HalfEndedZero
<1>2. CASE i > 0
  <2>1. PICK n \in Nat : i = n + 1
    <3>1. i - 1 \in Nat /\ i = (i - 1) + 1
      BY <1>2
    <3> QED
      BY <3>1
  <2> QED
    BY <1>2, <2>1, HalfEndedStep
<1> QED
  BY <1>1, <1>2

LEMMA Alphabet == /\ Trimmed \subseteq Byte /\ CRLF \in Seq(Trimmed) /\ Len(CRLF) = 2
                  /\ CRLF[1] = "cr" /\ CRLF[2] = "lf" /\ CRLF \in Seq(Byte)
  BY DEF Trimmed, Byte, CRLF

LEMMA EndIs ==
  ASSUME NEW q \in Seq(Byte)
  PROVE  DotEnd(q) \in {<<>>, <<"lf">>, CRLF} /\ DotEnd(q) \in Seq(Trimmed)
<1>1. DotEnd(q) \in {<<>>, <<"lf">>, CRLF}
  BY DEF DotEnd
<1>2. <<>> \in Seq(Trimmed) /\ <<"lf">> \in Seq(Trimmed) /\ CRLF \in Seq(Trimmed)
  BY Alphabet DEF Trimmed
<1> QED
  BY <1>1, <1>2

(* The bytes behind a text are blanks and line ends.                     *)
Extends(d, t) ==
  /\ d \in Seq(Byte) /\ Len(t) <= Len(d)
  /\ \A i \in 1..Len(t) : d[i] = t[i]
  /\ \A i \in 1..Len(d) : i > Len(t) => d[i] \in Trimmed

LEMMA ExtendsAppend ==
  ASSUME NEW t \in Seq(Byte), NEW d, Extends(d, t), NEW u \in Seq(Trimmed)
  PROVE  Extends(d \o u, t)
<1>1. d \in Seq(Byte) /\ u \in Seq(Byte) /\ Len(d) \in Nat /\ Len(u) \in Nat /\ Len(t) \in Nat
  BY Alphabet, SeqMonotonic DEF Extends
<1>2. /\ d \o u \in Seq(Byte) /\ Len(d \o u) = Len(d) + Len(u)
      /\ \A i \in 1..(Len(d) + Len(u)) : (d \o u)[i] = IF i <= Len(d) THEN d[i] ELSE u[i - Len(d)]
  BY <1>1, ConcatProperties
<1>3. \A i \in 1..(Len(d) + Len(u)) : i > Len(d) => u[i - Len(d)] \in Trimmed
  <2> TAKE i \in 1..(Len(d) + Len(u))
  <2>1. i > Len(d) => i - Len(d) \in 1..Len(u)
    BY <1>1
  <2> QED
    BY <2>1, ElementOfSeq
<1> HIDE DEF Extends
<1>4. /\ Len(t) <= Len(d)
      /\ \A i \in 1..Len(t) : d[i] = t[i]
      /\ \A i \in 1..Len(d) : i > Len(t) => d[i] \in Trimmed
  BY DEF Extends
<1> QED
  BY <1>1, <1>2, <1>3, <1>4 DEF Extends

LEMMA ExtendsText ==
  ASSUME NEW t \in Seq(Byte), Len(t) > 0, t[Len(t)] \notin Trimmed, NEW d, Extends(d, t)
  PROVE  LastText(d) = Len(t) /\ SubSeq(d, 1, LastText(d)) = t
<1>1. d \in Seq(Byte) /\ Len(d) \in Nat /\ Len(t) \in 1..Len(d)
  BY DEF Extends
<1>2. LastText(d) = Len(t)
  BY <1>1, LastTextIs DEF Extends
<1>3. /\ SubSeq(d, 1, Len(t)) \in Seq(Byte) /\ Len(SubSeq(d, 1, Len(t))) = Len(t)
      /\ \A i \in 1..Len(t) : SubSeq(d, 1, Len(t))[i] = d[i]
  BY <1>1
<1>4. SubSeq(d, 1, Len(t)) = t
  BY <1>3, SeqEqual DEF Extends
<1> QED
  BY <1>2, <1>4

Pieces(q) ==
  [i \in DOMAIN q |-> IF q[i] = "lf" /\ ~HalfEnded(q, i - 1) THEN CRLF ELSE <<q[i]>>]

LEMMA PiecesAre ==
  ASSUME NEW q \in Seq(Byte)
  PROVE  /\ Pieces(q) \in [1..Len(q) -> Seq(Byte)] /\ Len(Pieces(q)) = Len(q)
         /\ DotLines(q) = FlattenSeq(Pieces(q))
<1>1. DOMAIN q = 1..Len(q) /\ Len(q) \in Nat /\ \A i \in 1..Len(q) : <<q[i]>> \in Seq(Byte)
  OBVIOUS
<1>2. Pieces(q) \in [1..Len(q) -> Seq(Byte)]
  BY <1>1, Alphabet DEF Pieces
<1>3. Len(Pieces(q)) = Len(q)
  BY <1>1, <1>2
<1> QED
  BY <1>2, <1>3 DEF DotLines, Pieces

(* The text that is sent ends with the last byte of text.                *)
LEMMA TextIs ==
  ASSUME NEW q \in Seq(Byte), NEW k \in 1..Len(q), LastText(q) = k,
         NEW f, IsFlattening(f, Pieces(q), Byte), DotLines(q) = f[Len(q)]
  PROVE  SubSeq(DotWriter(q), 1, LastText(DotWriter(q))) = f[k]
<1>1. /\ Len(q) \in Nat /\ \A i \in 0..Len(q) : f[i] \in Seq(Byte)
      /\ \A i \in 1..Len(q) : f[i] = f[i - 1] \o Pieces(q)[i]
      /\ \A i \in 1..Len(q) : Pieces(q)[i] = CRLF \/ Pieces(q)[i] = <<q[i]>>
  BY PiecesAre DEF IsFlattening, Pieces
<1>2. q[k] \notin Trimmed /\ \A i \in 1..Len(q) : i > k => q[i] \in Trimmed
  BY LastTextIs
<1>3. f[k] \in Seq(Byte) /\ Len(f[k]) > 0 /\ f[k][Len(f[k])] \notin Trimmed
  <2>1. q[k] # "lf"
    BY <1>2 DEF Trimmed
  <2>2. Pieces(q)[k] = <<q[k]>>
    BY <2>1 DEF Pieces
  <2>3. k \in 1..Len(q) /\ k - 1 \in 0..Len(q) /\ q[k] \in Byte
    BY <1>1
  <2>4. f[k] = f[k - 1] \o <<q[k]>>
    BY <1>1, <2>2, <2>3
  <2>5. f[k - 1] \in Seq(Byte)
    BY <1>1, <2>3
  <2>6. <<q[k]>> \in Seq(Byte)
    BY <2>3
  <2>7. Len(f[k]) = Len(f[k - 1]) + 1 /\ f[k][Len(f[k - 1]) + 1] = q[k] /\ Len(f[k - 1]) \in Nat
    BY <2>4, <2>5, <2>6
  <2> QED
    BY <1>1, <1>2, <2>7
<1> DEFINE P == {j \in 0..(Len(q) - k) : Extends(f[k + j], f[k])}
<1>4. 0 \in P
  BY <1>1, <1>3 DEF Extends
<1>5. ASSUME NEW j \in 0..(Len(q) - k - 1), j \in P PROVE j + 1 \in P
  <2>1. k + (j + 1) \in 1..Len(q) /\ k + (j + 1) > k /\ j + 1 \in 0..(Len(q) - k)
        /\ (k + (j + 1)) - 1 = k + j
    BY <1>1
  <2>2. f[k + (j + 1)] = f[k + j] \o Pieces(q)[k + (j + 1)]
    BY <1>1, <2>1
  <2>3. Pieces(q)[k + (j + 1)] \in Seq(Trimmed)
    <3>1. q[k + (j + 1)] \in Trimmed
      BY <1>2, <2>1
    <3>2. <<q[k + (j + 1)]>> \in Seq(Trimmed)
      BY <3>1
    <3> QED
      BY <1>1, <2>1, <3>2, Alphabet
  <2>4. Extends(f[k + (j + 1)], f[k])
    BY <1>3, <1>5, <2>2, <2>3, ExtendsAppend
  <2> QED
    BY <2>1, <2>4
<1>6. Extends(f[Len(q)], f[k])
  <2>1. P \in SUBSET Nat /\ Len(q) - k \in Nat
    BY <1>1
  <2> HIDE DEF P
  <2>2. \A j \in 0..(Len(q) - k) : j \in P
    BY <1>4, <1>5, <2>1, UpTo
  <2>3. Len(q) - k \in P
    BY <2>1, <2>2
  <2>4. k + (Len(q) - k) = Len(q)
    BY <1>1
  <2> QED
    BY <2>3, <2>4 DEF P
<1>7. Extends(DotWriter(q), f[k])
  BY <1>3, <1>6, EndIs, ExtendsAppend DEF DotWriter
<1> QED
  BY <1>3, <1>7, ExtendsText

LEMMA DotLinesIs ==
  ASSUME NEW q \in Seq(Byte)
  PROVE  \E f : IsFlattening(f, Pieces(q), Byte) /\ DotLines(q) = f[Len(q)]
<1>1. PICK n \in Nat : n = Len(q)
  OBVIOUS
<1>2. PICK p : p = Pieces(q)
  OBVIOUS
<1>3. p \in [1..n -> Seq(Byte)] /\ DotLines(q) = FlattenSeq(p)
  BY <1>1, <1>2, PiecesAre
<1>4. \E f : IsFlattening(f, p, Byte) /\ FlattenSeq(p) = f[n]
  BY <1>3, FlattenIs
<1> QED
  BY <1>1, <1>2, <1>3, <1>4

(* Bodies of the same text are sent with the same text.                  *)
LEMMA SameTextSent ==
  ASSUME NEW m \in Seq(Byte), NEW q, SameText(q, m)
  PROVE  Text(q) = Text(m)
<1>1. /\ q \in Seq(Byte) /\ Len(q) = Len(m) /\ Len(m) \in Nat
      /\ \A i \in 1..Kept(m) : q[i] = m[i]
  BY DEF SameText
<1>2. CASE LastText(m) = 0
  <2>1. Kept(m) = Len(m)
    BY <1>2 DEF Kept
  <2>2. q = m
    BY <1>1, <2>1, SeqEqual
  <2> QED
    BY <2>2
<1>3. CASE LastText(m) # 0
  <2>1. PICK k \in 1..Len(m) : LastText(m) = k /\ m[k] \notin Trimmed
    BY <1>1, <1>3, LastTextIs
  <2>2. Kept(m) = k /\ Kept(q) = k /\ q[k] \notin Trimmed
    BY <1>1, <1>3, <2>1, SameKept DEF Kept
  <2>3. LastText(q) = k
    BY <1>1, <2>1, <2>2, LastTextIs DEF Kept
  <2>4. PICK f : IsFlattening(f, Pieces(m), Byte) /\ DotLines(m) = f[Len(m)]
    BY <1>1, DotLinesIs
  <2>5. PICK g : IsFlattening(g, Pieces(q), Byte) /\ DotLines(q) = g[Len(q)]
    BY <1>1, DotLinesIs
  <2>6. ASSUME NEW i \in 1..k PROVE Pieces(q)[i] = Pieces(m)[i]
    <3>1. i \in DOMAIN q /\ i \in DOMAIN m /\ q[i] = m[i]
      BY <1>1, <2>1, <2>2
    <3>2. HalfEnded(q, i - 1) <=> HalfEnded(m, i - 1)
      <4>1. PICK n \in Nat : n = i - 1 /\ \A j \in 1..n : q[j] = m[j]
        BY <1>1, <2>2
      <4> QED
        BY <4>1, HalfEndedSame
    <3> QED
      BY <3>1, <3>2 DEF Pieces
  <2> DEFINE P == {j \in 0..k : g[j] = f[j]}
  <2>7. 0 \in P
    BY <2>4, <2>5 DEF IsFlattening
  <2>8. ASSUME NEW j \in 0..(k - 1), j \in P PROVE j + 1 \in P
    <3>1. j + 1 \in 1..k /\ j + 1 \in 1..Len(m) /\ (j + 1) - 1 = j /\ j + 1 \in 0..k
      BY <1>1, <2>1
    <3>2. f[j + 1] = f[j] \o Pieces(m)[j + 1]
      BY <2>4, <3>1, PiecesAre DEF IsFlattening
    <3>3. g[j + 1] = g[j] \o Pieces(q)[j + 1]
      BY <1>1, <2>5, <3>1, PiecesAre DEF IsFlattening
    <3>4. g[j] = f[j] /\ Pieces(q)[j + 1] = Pieces(m)[j + 1]
      BY <2>6, <2>8, <3>1
    <3>5. g[j + 1] = f[j + 1]
      BY <3>2, <3>3, <3>4
    <3> QED
      BY <3>1, <3>5
  <2>9. g[k] = f[k]
    <3>1. P \in SUBSET Nat /\ k \in Nat
      BY <2>1
    <3> HIDE DEF P
    <3>2. \A j \in 0..k : j \in P
      BY <2>7, <2>8, <3>1, UpTo
    <3>3. k \in P
      BY <3>1, <3>2
    <3> QED
      BY <3>3 DEF P
  <2>10. Text(m) = f[k]
    BY <2>1, <2>4, TextIs DEF Text
  <2>11. Text(q) = g[k]
    BY <1>1, <2>1, <2>3, <2>5, TextIs DEF Text
  <2> QED
    BY <2>9, <2>10, <2>11
<1> QED
  BY <1>2, <1>3

-----------------------------------------------------------------------------
(* What bytes.Replace makes of a body                                    *)

(* What a copy with CRLFs is made of.                                    *)
CopyPieces(q) == [i \in DOMAIN q |-> IF q[i] = "lf" THEN CRLF ELSE <<q[i]>>]

LEMMA CopyIs ==
  ASSUME NEW q \in Seq(Byte)
  PROVE  \E f : IsFlattening(f, CopyPieces(q), Byte) /\ LfToCrlf(q) = f[Len(q)]
                /\ Len(CopyPieces(q)) = Len(q)
<1>1. PICK n \in Nat : n = Len(q)
  OBVIOUS
<1>2. PICK p : p = CopyPieces(q)
  OBVIOUS
<1>3. DOMAIN q = 1..n /\ \A i \in 1..n : <<q[i]>> \in Seq(Byte)
  BY <1>1
<1>4. p \in [1..n -> Seq(Byte)]
  BY <1>2, <1>3, Alphabet DEF CopyPieces
<1>5. Len(p) = n
  BY <1>4
<1>6. LfToCrlf(q) = FlattenSeq(p)
  BY <1>2 DEF LfToCrlf, CopyPieces
<1>7. \E f : IsFlattening(f, p, Byte) /\ FlattenSeq(p) = f[n]
  BY <1>4, FlattenIs
<1> QED
  BY <1>1, <1>2, <1>5, <1>6, <1>7

LEMMA CopyTyped == ASSUME NEW q \in Seq(Byte) PROVE LfToCrlf(q) \in Seq(Byte)
<1>1. PICK f : IsFlattening(f, CopyPieces(q), Byte) /\ LfToCrlf(q) = f[Len(q)]
                /\ Len(CopyPieces(q)) = Len(q)
  BY CopyIs
<1>2. Len(q) \in 0..Len(q)
  OBVIOUS
<1> QED
  BY <1>1, <1>2 DEF IsFlattening

(* Every line feed is what the DotWriter takes for the end of a CRLF.    *)
LinesEnded(q) == \A i \in 1..Len(q) : q[i] = "lf" => HalfEnded(q, i - 1)

(* No line feed is the second byte of a CRLF.                            *)
NoCrlf(m) == \A i \in DOMAIN m : m[i] = "lf" => i = 1 \/ m[i - 1] # "cr"

LEMMA AppendCrlf ==
  ASSUME NEW q \in Seq(Byte)
  PROVE  /\ q \o CRLF \in Seq(Byte) /\ Len(q \o CRLF) = Len(q) + 2 /\ Len(q) \in Nat
         /\ \A i \in 1..Len(q) : (q \o CRLF)[i] = q[i]
         /\ (q \o CRLF)[Len(q) + 1] = "cr" /\ (q \o CRLF)[Len(q) + 2] = "lf"
<1>1. PICK p \in Seq(Byte) : p = CRLF
  BY Alphabet
<1>2. Len(p) = 2 /\ p[1] = "cr" /\ p[2] = "lf" /\ Len(q) \in Nat
  BY <1>1, Alphabet
<1>3. PICK r : r = q \o p
  OBVIOUS
<1>4. /\ r \in Seq(Byte) /\ Len(r) = Len(q) + Len(p)
      /\ \A i \in 1..(Len(q) + Len(p)) : r[i] = IF i <= Len(q) THEN q[i] ELSE p[i - Len(q)]
  BY <1>1, <1>3, ConcatProperties
<1>5. (Len(q) + 1) - Len(q) = 1 /\ (Len(q) + 2) - Len(q) = 2
  BY <1>2
<1>6. r[Len(q) + 1] = "cr" /\ r[Len(q) + 2] = "lf" /\ \A i \in 1..Len(q) : r[i] = q[i]
  BY <1>2, <1>4, <1>5
<1> QED
  BY <1>1, <1>2, <1>3, <1>4, <1>6

LEMMA EndedPrefix ==
  ASSUME NEW q \in Seq(Byte), LinesEnded(q), NEW r,
         \A i \in 1..Len(q) : r[i] = q[i]
  PROVE  \A i \in 1..Len(q) : r[i] = "lf" => HalfEnded(r, i - 1)
<1> TAKE i \in 1..Len(q)
<1>1. PICK n \in Nat : n = i - 1 /\ \A j \in 1..n : r[j] = q[j]
  OBVIOUS
<1>2. HalfEnded(r, n) <=> HalfEnded(q, n)
  BY <1>1, HalfEndedSame
<1> QED
  BY <1>1, <1>2 DEF LinesEnded

(* One byte, or a line end, behind ended lines.                          *)
LEMMA EndedAppendByte ==
  ASSUME NEW q \in Seq(Byte), LinesEnded(q), NEW b \in Byte \ {"lf"}
  PROVE  /\ LinesEnded(q \o <<b>>)
         /\ HalfEnded(q \o <<b>>, Len(q \o <<b>>)) <=> b = "cr" /\ ~HalfEnded(q, Len(q))
<1>1. PICK n \in Nat : n = Len(q)
  OBVIOUS
<1>2. PICK r : r = q \o <<b>>
  OBVIOUS
<1>3. Len(r) = n + 1 /\ r[n + 1] = b /\ \A i \in 1..n : r[i] = q[i]
  BY <1>1, <1>2
<1>4. \A i \in 1..n : r[i] = "lf" => HalfEnded(r, i - 1)
  BY <1>1, <1>3, EndedPrefix
<1>5. \A i \in 1..(n + 1) : i \in 1..n \/ i = n + 1
  OBVIOUS
<1>6. LinesEnded(r)
  BY <1>3, <1>4, <1>5 DEF LinesEnded
<1>7. HalfEnded(r, n) <=> HalfEnded(q, n)
  BY <1>3, HalfEndedSame
<1>8. HalfEnded(r, n + 1) <=> b = "cr" /\ ~HalfEnded(q, n)
  BY <1>3, <1>7, HalfEndedStep
<1> QED
  BY <1>1, <1>2, <1>3, <1>6, <1>8

LEMMA EndedAppendLine ==
  ASSUME NEW q \in Seq(Byte), LinesEnded(q), ~HalfEnded(q, Len(q))
  PROVE  LinesEnded(q \o CRLF) /\ ~HalfEnded(q \o CRLF, Len(q \o CRLF))
<1>1. PICK n \in Nat : n = Len(q)
  OBVIOUS
<1>2. PICK r : r = q \o CRLF
  OBVIOUS
<1>3. Len(r) = n + 2 /\ r[n + 1] = "cr" /\ r[n + 2] = "lf" /\ \A i \in 1..n : r[i] = q[i]
  BY <1>1, <1>2, AppendCrlf
<1>4. \A i \in 1..n : r[i] = "lf" => HalfEnded(r, i - 1)
  BY <1>1, <1>3, EndedPrefix
<1>5. ~HalfEnded(r, n)
  BY <1>1, <1>3, HalfEndedSame
<1>6. HalfEnded(r, n + 1)
  BY <1>3, <1>5, HalfEndedStep
<1>7. /\ \A i \in 1..(n + 2) : i \in 1..n \/ i = n + 1 \/ i = n + 2
      /\ (n + 2) - 1 = n + 1 /\ n + 2 \in Nat /\ n + 2 > 0
  OBVIOUS
<1>8. LinesEnded(r)
  <2> SUFFICES ASSUME NEW i \in 1..(n + 2), r[i] = "lf" PROVE HalfEnded(r, i - 1)
    BY <1>3 DEF LinesEnded
  <2>1. CASE i \in 1..n
    BY <1>4, <2>1
  <2>2. CASE i = n + 1
    BY <1>3, <2>2
  <2>3. CASE i = n + 2
    BY <1>6, <1>7, <2>3
  <2> QED
    BY <1>7, <2>1, <2>2, <2>3
<1>9. ~HalfEnded(r, n + 2)
  BY <1>3, <1>7, NotHalfEnded
<1> QED
  BY <1>2, <1>3, <1>8, <1>9

(* A copy with CRLFs has its lines ended, and is half ended where the    *)
(* original is.                                                          *)
LEMMA CopyEnded ==
  ASSUME NEW m \in Seq(Byte), NoCrlf(m)
  PROVE  /\ LinesEnded(LfToCrlf(m))
         /\ HalfEnded(LfToCrlf(m), Len(LfToCrlf(m))) <=> HalfEnded(m, Len(m))
<1>1. PICK f : IsFlattening(f, CopyPieces(m), Byte) /\ LfToCrlf(m) = f[Len(m)]
                /\ Len(CopyPieces(m)) = Len(m)
  BY CopyIs
<1>2. /\ \A j \in 0..Len(m) : f[j] \in Seq(Byte)
      /\ f[0] = <<>>
      /\ \A i \in 1..Len(m) : f[i] = f[i - 1] \o CopyPieces(m)[i]
  BY <1>1 DEF IsFlattening
<1> DEFINE P == {j \in 0..Len(m) : /\ LinesEnded(f[j])
                                   /\ HalfEnded(f[j], Len(f[j])) <=> HalfEnded(m, j)}
<1>3. 0 \in P
  <2>1. LinesEnded(f[0]) /\ Len(f[0]) = 0
    BY <1>2 DEF LinesEnded
  <2> QED
    BY <2>1, HalfEndedZero
<1>4. ASSUME NEW j \in 0..(Len(m) - 1), j \in P PROVE j + 1 \in P
  <2>1. /\ j + 1 \in 1..Len(m) /\ j + 1 \in 0..Len(m) /\ (j + 1) - 1 = j /\ j \in 0..Len(m)
        /\ j \in Nat /\ j + 1 \in DOMAIN m /\ j + 1 \in Nat /\ j + 1 > 0
    OBVIOUS
  <2>2. PICK g \in Seq(Byte) : g = f[j]
    BY <1>2, <2>1
  <2>3. f[j + 1] = g \o CopyPieces(m)[j + 1]
    BY <1>2, <2>1, <2>2
  <2>4. LinesEnded(g) /\ (HalfEnded(g, Len(g)) <=> HalfEnded(m, j))
    BY <1>4, <2>2
  <2>5. HalfEnded(m, j + 1) <=> m[j + 1] = "cr" /\ ~HalfEnded(m, j)
    BY <2>1, HalfEndedStep
  <2>6. CASE m[j + 1] = "lf"
    <3>1. CopyPieces(m)[j + 1] = CRLF
      BY <2>1, <2>6 DEF CopyPieces
    <3>2. j > 0 => m[j] # "cr"
      <4>1. j + 1 = 1 \/ m[(j + 1) - 1] # "cr"
        BY <2>1, <2>6 DEF NoCrlf
      <4> QED
        BY <2>1, <4>1
    <3>3. ~HalfEnded(m, j)
      BY <2>1, <3>2, NotHalfEnded
    <3> QED
      BY <2>1, <2>3, <2>4, <2>5, <2>6, <3>1, <3>3, EndedAppendLine
  <2>7. CASE m[j + 1] # "lf"
    <3>1. PICK b \in Byte \ {"lf"} : b = m[j + 1]
      BY <2>1, <2>7
    <3>2. CopyPieces(m)[j + 1] = <<b>>
      BY <2>1, <2>7, <3>1 DEF CopyPieces
    <3> QED
      <4>1. /\ LinesEnded(g \o <<b>>)
            /\ HalfEnded(g \o <<b>>, Len(g \o <<b>>)) <=> b = "cr" /\ ~HalfEnded(g, Len(g))
        BY <2>4, EndedAppendByte
      <4>2. f[j + 1] = g \o <<b>>
        BY <2>3, <3>2
      <4>3. LinesEnded(f[j + 1]) /\ (HalfEnded(f[j + 1], Len(f[j + 1])) <=> HalfEnded(m, j + 1))
        BY <2>4, <2>5, <3>1, <4>1, <4>2
      <4> QED
        BY <2>1, <4>3
  <2> QED
    BY <2>6, <2>7
<1>5. Len(m) \in P
  <2>1. P \in SUBSET Nat /\ Len(m) \in Nat
    OBVIOUS
  <2> HIDE DEF P
  <2>2. \A j \in 0..Len(m) : j \in P
    BY <1>3, <1>4, <2>1, UpTo
  <2> QED
    BY <2>1, <2>2
<1> QED
  BY <1>1, <1>5

(* Where every line is ended the DotWriter changes no line.              *)
LEMMA EndedLinesSent ==
  ASSUME NEW q \in Seq(Byte), LinesEnded(q) PROVE DotLines(q) = q
<1>1. PICK n \in Nat : n = Len(q)
  OBVIOUS
<1>2. q \in [1..n -> Byte] /\ DOMAIN q = 1..n
  BY <1>1
<1>3. Pieces(q) = [i \in 1..n |-> <<q[i]>>]
  BY <1>1, <1>2 DEF Pieces, LinesEnded
<1>4. FlattenSeq(Pieces(q)) = q
  BY <1>2, <1>3, FlattenSingletons
<1> QED
  BY <1>4, PiecesAre

(* No line feed is the second byte of a CRLF: bytes.Replace does what    *)
(* the DotWriter does.                                                   *)
LEMMA CopySent ==
  ASSUME NEW m \in Seq(Byte), NoCrlf(m)
  PROVE  DotWriter(LfToCrlf(m)) = DotWriter(m)
<1>1. Pieces(m) = CopyPieces(m)
  <2>1. ASSUME NEW i \in DOMAIN m, m[i] = "lf" PROVE ~HalfEnded(m, i - 1)
    <3>1. i - 1 \in Nat /\ (i - 1 > 0 => m[i - 1] # "cr")
      BY <2>1 DEF NoCrlf
    <3> QED
      BY <3>1, NotHalfEnded
  <2> QED
    BY <2>1 DEF Pieces, CopyPieces
<1>2. DotLines(m) = LfToCrlf(m)
  BY <1>1, PiecesAre DEF LfToCrlf, CopyPieces
<1>3. DotLines(LfToCrlf(m)) = LfToCrlf(m)
  BY CopyTyped, CopyEnded, EndedLinesSent
<1>4. DotEnd(LfToCrlf(m)) = DotEnd(m)
  <2>1. PICK f : IsFlattening(f, CopyPieces(m), Byte) /\ LfToCrlf(m) = f[Len(m)]
                /\ Len(CopyPieces(m)) = Len(m)
    BY CopyIs
  <2>2. PICK c : c = LfToCrlf(m)
    OBVIOUS
  <2>3. CASE m = <<>>
    BY <2>1, <2>3 DEF IsFlattening
  <2>4. CASE m # <<>>
    <3>1. PICK n \in Nat : n = Len(m) /\ n > 0
      BY <2>4
    <3>2. f[n - 1] \in Seq(Byte) /\ c = f[n - 1] \o CopyPieces(m)[n]
      <4>1. n \in 1..Len(m) /\ n - 1 \in 0..Len(m)
        BY <3>1
      <4> QED
        BY <2>1, <2>2, <3>1, <4>1 DEF IsFlattening
    <3>3. PICK s \in Seq(Byte) : c = s \o CopyPieces(m)[n]
      BY <3>2
    <3>4. m[n] \in Byte /\ n \in DOMAIN m
      BY <3>1
    <3>5. CASE m[n] = "lf"
      <4>1. CopyPieces(m)[n] = CRLF
        BY <3>4, <3>5 DEF CopyPieces
      <4>2. c = s \o CRLF
        BY <3>3, <4>1
      <4>3. Len(c) = Len(s) + 2 /\ c[Len(s) + 2] = "lf" /\ Len(s) \in Nat
        BY <4>2, AppendCrlf
      <4>4. Last(c) = "lf" /\ Last(m) = "lf"
        BY <3>1, <3>5, <4>3 DEF Last
      <4> QED
        BY <2>2, <4>4 DEF DotEnd
    <3>6. CASE m[n] # "lf"
      <4>1. CopyPieces(m)[n] = <<m[n]>>
        BY <3>4, <3>6 DEF CopyPieces
      <4>2. c = s \o <<m[n]>>
        BY <3>3, <4>1
      <4>3. Len(c) = Len(s) + 1 /\ c[Len(s) + 1] = m[n] /\ Len(s) \in Nat
        BY <3>4, <4>2
      <4>4. Last(c) = Last(m) /\ c # <<>>
        BY <3>1, <4>3 DEF Last
      <4> QED
        BY <2>2, <2>4, <4>4, CopyEnded DEF DotEnd
    <3> QED
      BY <3>5, <3>6
  <2> QED
    BY <2>3, <2>4
<1> QED
  BY <1>2, <1>3, <1>4 DEF DotWriter

-----------------------------------------------------------------------------
(* What is hashed, sent and hashed again                                 *)

(* A body that is a text and a number of line ends behind it.            *)
EndsAfter(b, t, j) ==
  /\ b \in Seq(Byte) /\ Len(b) = Len(t) + 2 * j
  /\ \A i \in 1..Len(t) : b[i] = t[i]
  /\ \A i \in 1..j : b[Len(t) + 2 * i - 1] = "cr" /\ b[Len(t) + 2 * i] = "lf"

IsText(t) == t \in Seq(Byte) /\ Len(t) > 0 /\ t[Len(t)] \notin Trimmed

LEMMA EvenOrOdd ==
  ASSUME NEW j \in Nat, NEW n \in 1..(2 * j)
  PROVE  \E x \in 1..j : n = 2 * x - 1 \/ n = 2 * x
<1>1. (n + 1) \div 2 \in 1..j /\ (n = 2 * ((n + 1) \div 2) - 1 \/ n = 2 * ((n + 1) \div 2))
  OBVIOUS
<1> QED
  BY <1>1

LEMMA EndsAfterText ==
  ASSUME NEW t, IsText(t), NEW j \in Nat, NEW b, EndsAfter(b, t, j)
  PROVE  /\ LastText(b) = Len(t) /\ Kept(b) = Len(t) /\ b # <<>>
         /\ SubSeq(b, 1, Len(t)) = t
<1>1. Len(t) \in Nat /\ b \in Seq(Byte) /\ Len(b) = Len(t) + 2 * j /\ t \in Seq(Byte)
  BY DEF EndsAfter, IsText
<1>2. ASSUME NEW i \in 1..Len(b), i > Len(t) PROVE b[i] \in Trimmed
  <2>1. i - Len(t) \in 1..(2 * j)
    BY <1>1, <1>2
  <2>2. PICK x \in 1..j : i - Len(t) = 2 * x - 1 \/ i - Len(t) = 2 * x
    BY <2>1, EvenOrOdd
  <2>3. i = Len(t) + 2 * x - 1 \/ i = Len(t) + 2 * x
    BY <1>1, <2>2
  <2> QED
    BY <2>3 DEF EndsAfter, Trimmed
<1>3. Extends(b, t)
  BY <1>1, <1>2 DEF Extends, EndsAfter
<1>4. LastText(b) = Len(t) /\ SubSeq(b, 1, LastText(b)) = t
  BY <1>1, <1>3, ExtendsText DEF IsText
<1> QED
  BY <1>1, <1>4 DEF Kept, IsText

(* What is hashed of such a body, and what the write behind it changes.  *)
LEMMA CanonicalOf ==
  ASSUME NEW t, IsText(t), NEW j \in Nat, NEW b, EndsAfter(b, t, j)
  PROVE  canonicalBody(b) = t \o CRLF
  BY EndsAfterText DEF canonicalBody

LEMMA AppendNothing ==
  ASSUME NEW t, IsText(t), NEW j \in Nat, NEW b, EndsAfter(b, t, j), NEW slack
  PROVE  AppendInPlace(b, slack) = b
<1> DEFINE a == [i \in DOMAIN b |-> IF i = Kept(b) + 1 THEN "cr"
                                  ELSE IF i = Kept(b) + 2 THEN "lf" ELSE b[i]]
<1>1. Kept(b) = Len(t) /\ Len(t) \in Nat
  BY EndsAfterText DEF IsText
<1>2. b \in Seq(Byte) /\ Len(b) = Len(t) + 2 * j /\ DOMAIN b = 1..Len(b)
  BY DEF EndsAfter
<1>3. ASSUME NEW i \in DOMAIN b PROVE a[i] = b[i]
  <2>1. 1 \in 1..j => b[Len(t) + 1] = "cr" /\ b[Len(t) + 2] = "lf"
    <3>1. Len(t) + 2 * 1 - 1 = Len(t) + 1 /\ Len(t) + 2 * 1 = Len(t) + 2
      BY <1>1
    <3> QED
      BY <3>1 DEF EndsAfter
  <2>2. i \in 1..(Len(t) + 2 * j)
    BY <1>2
  <2>3. i = Len(t) + 1 \/ i = Len(t) + 2 => 1 \in 1..j
    BY <1>1, <2>2
  <2>4. i = Len(t) + 1 \/ i = Len(t) + 2 \/ a[i] = b[i]
    BY <1>1
  <2> QED
    BY <1>1, <2>1, <2>3, <2>4
<1>4. a = b
  BY <1>2, <1>3
<1> QED
  BY <1>4 DEF AppendInPlace

(* What the DotWriter makes of it.                                       *)
LEMMA SentAfter ==
  ASSUME NEW t, IsText(t), NEW j \in Nat, NEW b, EndsAfter(b, t, j), LinesEnded(b)
  PROVE  \E l \in Nat : l > 0 /\ EndsAfter(DotWriter(b), t, l)
<1>1. /\ b \in Seq(Byte) /\ Len(b) = Len(t) + 2 * j /\ Len(t) \in Nat /\ Len(t) > 0
      /\ \A i \in 1..Len(t) : b[i] = t[i]
      /\ \A i \in 1..j : b[Len(t) + 2 * i - 1] = "cr" /\ b[Len(t) + 2 * i] = "lf"
      /\ t[Len(t)] \notin Trimmed
  BY DEF EndsAfter, IsText
<1>2. DotLines(b) = b /\ b # <<>>
  BY <1>1, EndedLinesSent
<1>3. CASE j = 0
  <2>1. Last(b) \notin {"cr", "lf"} /\ b[Len(b)] # "cr" /\ Len(b) \in Nat
    BY <1>1, <1>3 DEF Last, Trimmed
  <2>2. DotWriter(b) = b \o CRLF
    BY <1>2, <2>1, NotHalfEnded DEF DotWriter, DotEnd
  <2>3. /\ b \o CRLF \in Seq(Byte) /\ Len(b \o CRLF) = Len(t) + 2
        /\ \A i \in 1..Len(t) : (b \o CRLF)[i] = t[i]
        /\ (b \o CRLF)[Len(t) + 1] = "cr" /\ (b \o CRLF)[Len(t) + 2] = "lf"
    BY <1>1, <1>3, AppendCrlf
  <2>4. Len(t) + 2 * 1 = Len(t) + 2 /\ Len(t) + 2 * 1 - 1 = Len(t) + 1 /\ 1..1 = {1}
    BY <1>1
  <2>5. EndsAfter(b \o CRLF, t, 1)
    BY <2>3, <2>4 DEF EndsAfter
  <2> QED
    BY <2>2, <2>5
<1>4. CASE j > 0
  <2>1. j \in 1..j /\ b[Len(b)] = "lf"
    BY <1>1, <1>4
  <2>2. DotEnd(b) = <<>>
    BY <2>1 DEF DotEnd, Last
  <2>3. DotWriter(b) = b
    BY <1>1, <1>2, <2>2, ConcatEmptySeq DEF DotWriter
  <2> QED
    BY <1>4, <2>3
<1> QED
  BY <1>3, <1>4

(* What a receiver hashes of it.                                         *)
LEMMA ReceivedAfter ==
  ASSUME NEW t, IsText(t), NEW j \in Nat, j > 0, NEW d, EndsAfter(d, t, j)
  PROVE  RfcBody(d) = t \o CRLF
<1> DEFINE Pair(k) == SubSeq(d, Len(d) - 2 * k + 1, Len(d) - 2 * k + 2) = CRLF
           K == {k \in 0..(Len(d) \div 2) : \A i \in 1..k : Pair(i)}
<1>1. /\ d \in Seq(Byte) /\ Len(d) = Len(t) + 2 * j /\ Len(t) \in Nat /\ Len(t) > 0
      /\ \A i \in 1..Len(t) : d[i] = t[i]
      /\ \A i \in 1..j : d[Len(t) + 2 * i - 1] = "cr" /\ d[Len(t) + 2 * i] = "lf"
      /\ t[Len(t)] \notin Trimmed
  BY DEF EndsAfter, IsText
<1>2. ASSUME NEW k \in 1..(Len(d) \div 2)
      PROVE  /\ Len(SubSeq(d, Len(d) - 2 * k + 1, Len(d) - 2 * k + 2)) = 2
             /\ SubSeq(d, Len(d) - 2 * k + 1, Len(d) - 2 * k + 2) \in Seq(Byte)
             /\ SubSeq(d, Len(d) - 2 * k + 1, Len(d) - 2 * k + 2)[1] = d[Len(d) - 2 * k + 1]
             /\ SubSeq(d, Len(d) - 2 * k + 1, Len(d) - 2 * k + 2)[2] = d[Len(d) - 2 * k + 2]
  <2>1. PICK m : m = Len(d) - 2 * k + 1
    OBVIOUS
  <2>2. PICK n \in Nat : n = Len(d)
    <3>1. Len(d) \in Nat
      BY <1>1, LenProperties
    <3> QED
      BY <3>1
  <2>3. k \in 1..(n \div 2)
    BY <2>2
  <2>4. k \in Nat /\ k >= 1 /\ 2 * k <= n
    BY <2>3
  <2>5. PICK p : p = m + 1
    OBVIOUS
  <2>6. m \in 1..n /\ p \in 1..n /\ Len(d) - 2 * k + 2 = p
    BY <2>1, <2>2, <2>4, <2>5
  <2>7. m \in Int /\ p \in Int /\ m <= p /\ p - m + 1 = 2 /\ m + 1 - 1 = m /\ m + 2 - 1 = p
    BY <2>5, <2>6
  <2>8. ASSUME NEW i \in m..p PROVE d[i] \in Byte
    <3>1. i \in 1..Len(d)
      BY <2>2, <2>6
    <3> QED
      BY <1>1, <3>1, ElementOfSeq
  <2>9. PICK s : s = SubSeq(d, m, p)
    OBVIOUS
  <2>10. s \in Seq(Byte) /\ Len(s) = 2 /\ \A i \in 1..2 : s[i] = d[m + i - 1]
    BY <2>7, <2>8, <2>9, SubSeqProperties
  <2>11. s = SubSeq(d, Len(d) - 2 * k + 1, Len(d) - 2 * k + 2)
    BY <2>1, <2>6, <2>9
  <2>12. s[1] = d[Len(d) - 2 * k + 1] /\ s[2] = d[Len(d) - 2 * k + 2]
    <3>1. s[1] = d[m] /\ s[2] = d[p]
      BY <2>7, <2>10
    <3> QED
      BY <2>1, <2>6, <3>1
  <2> QED
    BY <2>10, <2>11, <2>12
<1>3. ASSUME NEW i \in 1..j PROVE Pair(i)
  <2>1. i \in 1..(Len(d) \div 2)
    BY <1>1
  <2>2. /\ j - i + 1 \in 1..j
        /\ Len(d) - 2 * i + 1 = Len(t) + 2 * (j - i + 1) - 1
        /\ Len(d) - 2 * i + 2 = Len(t) + 2 * (j - i + 1)
    BY <1>1
  <2>3. d[Len(d) - 2 * i + 1] = "cr" /\ d[Len(d) - 2 * i + 2] = "lf"
    BY <1>1, <2>2
  <2>4. PICK s : s = SubSeq(d, Len(d) - 2 * i + 1, Len(d) - 2 * i + 2)
    OBVIOUS
  <2>5. s \in Seq(Byte) /\ Len(s) = 2 /\ s[1] = "cr" /\ s[2] = "lf"
    BY <1>2, <2>1, <2>3, <2>4
  <2>6. s = CRLF
    BY <2>5 DEF CRLF
  <2> QED
    BY <2>4, <2>6
<1>4. ASSUME NEW k \in K PROVE k <= j
  <2> SUFFICES ASSUME k > j PROVE FALSE
    BY DEF K
  <2>1. k \in 0..(Len(d) \div 2) /\ j + 1 \in 1..k
    OBVIOUS
  <2>2. Pair(j + 1)
    BY <2>1
  <2>3. j + 1 \in 1..(Len(d) \div 2)
    BY <2>1, <1>1
  <2>4. d[Len(d) - 2 * (j + 1) + 2] = "lf"
    <3>1. PICK s : s = SubSeq(d, Len(d) - 2 * (j + 1) + 1, Len(d) - 2 * (j + 1) + 2)
      OBVIOUS
    <3>2. s = CRLF
      BY <2>2, <3>1
    <3>3. s[2] = d[Len(d) - 2 * (j + 1) + 2]
      BY <1>2, <2>3, <3>1
    <3> QED
      BY <3>2, <3>3, Alphabet
  <2>5. Len(d) - 2 * (j + 1) + 2 = Len(t) /\ Len(t) \in 1..Len(t)
    BY <1>1
  <2> QED
    BY <1>1, <2>4, <2>5 DEF Trimmed
<1>5. j \in K
  <2>1. j \in 0..(Len(d) \div 2)
    BY <1>1
  <2> QED
    BY <1>3, <2>1
<1>6. Max(K) = j
  <2>1. PICK h \in Nat : h = Len(d) \div 2
    BY <1>1
  <2>2. K \in SUBSET (0..h)
    BY <2>1
  <2> HIDE DEF K
  <2>3. Max(K) \in K /\ \A k \in K : Max(K) >= k
    BY <1>5, <2>2, Greatest
  <2>4. Max(K) = j
    <3>1. PICK x \in K : x = Max(K) /\ x >= j
      BY <1>5, <2>3
    <3>2. x <= j /\ x \in Nat
      BY <1>4, <2>2
    <3> QED
      BY <3>1, <3>2
  <2> QED
    BY <2>4
<1>7. RfcBody(d) = SubSeq(d, 1, Len(d) - 2 * Max(K)) \o CRLF
  BY DEF RfcBody
<1>8. Len(d) - 2 * j = Len(t)
  BY <1>1
<1> QED
  BY <1>6, <1>7, <1>8, EndsAfterText

(* What is signed of a regular message.                                  *)
SignedBody(b) ==
  \/ b = <<>>
  \/ LinesEnded(b) /\ \E t : IsText(t) /\ \E j \in Nat : EndsAfter(b, t, j)

LEMMA BodyVerifies ==
  ASSUME NEW b, SignedBody(b)
  PROVE  canonicalBody(b) = RfcBody(DotWriter(b)) /\ \A slack : AppendInPlace(b, slack) = b
<1>1. CASE b = <<>>
  <2>1. <<>> \in Seq(Byte) /\ LinesEnded(<<>>)
    BY DEF LinesEnded
  <2>2. DotWriter(<<>>) = <<>>
    <3>1. DotLines(<<>>) = <<>>
      BY <2>1, EndedLinesSent
    <3>2. DotEnd(<<>>) = <<>>
      BY DEF DotEnd
    <3>3. <<>> \o <<>> = <<>>
      BY <2>1, ConcatEmptySeq
    <3> QED
      BY <3>1, <3>2, <3>3 DEF DotWriter
  <2>3. RfcBody(<<>>) = CRLF
    <3> DEFINE Pair(k) == SubSeq(<<>>, Len(<<>>) - 2 * k + 1, Len(<<>>) - 2 * k + 2) = CRLF
               K == {k \in 0..(Len(<<>>) \div 2) : \A i \in 1..k : Pair(i)}
    <3>1. K = {0}
      <4>1. Len(<<>>) = 0 /\ 0 \div 2 = 0 /\ 0..0 = {0} /\ 1..0 = {}
        OBVIOUS
      <4> HIDE DEF Pair
      <4> QED
        BY <4>1
    <3>2. RfcBody(<<>>) = SubSeq(<<>>, 1, Len(<<>>) - 2 * Max(K)) \o CRLF
      BY DEF RfcBody
    <3>3. Max({0}) = 0
      BY DEF Max
    <3>4. SubSeq(<<>>, 1, 0) = <<>>
      BY SubSeqEmpty
    <3>5. Len(<<>>) - 2 * 0 = 0
      OBVIOUS
    <3>6. <<>> \o CRLF = CRLF
      BY Alphabet, ConcatEmptySeq
    <3> HIDE DEF K
    <3> QED
      BY <3>1, <3>2, <3>3, <3>4, <3>5, <3>6
  <2> QED
    BY <1>1, <2>2, <2>3 DEF canonicalBody, AppendInPlace
<1>2. CASE b # <<>>
  <2>1. PICK t : LinesEnded(b) /\ IsText(t) /\ \E j \in Nat : EndsAfter(b, t, j)
    BY <1>2 DEF SignedBody
  <2>2. PICK j \in Nat : EndsAfter(b, t, j)
    BY <2>1
  <2>3. PICK l \in Nat : l > 0 /\ EndsAfter(DotWriter(b), t, l)
    BY <2>1, <2>2, SentAfter
  <2>4. RfcBody(DotWriter(b)) = t \o CRLF
    BY <2>1, <2>3, ReceivedAfter
  <2>5. canonicalBody(b) = t \o CRLF
    BY <2>1, <2>2, CanonicalOf
  <2> QED
    BY <2>1, <2>2, <2>4, <2>5, AppendNothing
<1> QED
  BY <1>1, <1>2

(* A regular message with CRLFs is signed as it is.                      *)
LEMMA RegularSigned ==
  ASSUME NEW m, m.body \in Seq(Byte), m.eol = "crlf", RegularBody(m)
  PROVE  SignedBody(m.body)
<1>1. PICK q \in Seq(Byte) : q = m.body
  OBVIOUS
<1>2. CASE q = <<>>
  BY <1>1, <1>2 DEF SignedBody
<1>3. CASE q # <<>>
  <2>1. /\ LastText(q) > 0
        /\ \A i \in DOMAIN q : q[i] = "lf" => HalfEnded(q, i - 1)
        /\ \E k \in 0..Len(SubSeq(q, LastText(q) + 1, Len(q))) :
             SubSeq(q, LastText(q) + 1, Len(q)) =
               [i \in 1..(2 * k) |-> IF i % 2 = 1 THEN "cr" ELSE "lf"]
    BY <1>1, <1>3 DEF RegularBody, EndsInLines
  <2>2. PICK l \in 1..Len(q) : l = LastText(q) /\ q[l] \notin Trimmed
    BY <2>1, LastTextIs
  <2>3. PICK tail : tail = SubSeq(q, l + 1, Len(q))
    OBVIOUS
  <2>4. PICK n \in Nat : n = Len(q) /\ \A i \in 1..n : q[i] \in Byte
    OBVIOUS
  <2>5. /\ Len(tail) = n - l
        /\ \A i \in 1..(n - l) : tail[i] = q[l + i]
    <3>1. l + 1 \in Int /\ n \in Int /\ (l + 1 <= n \/ n - l = 0) /\ n - (l + 1) + 1 = n - l
      BY <2>4
    <3>2. ASSUME NEW i \in (l + 1)..n PROVE q[i] \in Byte
      BY <2>4
    <3>3. \A i \in 1..(n - l) : (l + 1) + i - 1 = l + i
      BY <2>4
    <3>4. PICK p : p = l + 1
      OBVIOUS
    <3>5. /\ Len(SubSeq(q, p, n)) = IF p <= n THEN n - p + 1 ELSE 0
          /\ \A i \in 1..(n - p + 1) : SubSeq(q, p, n)[i] = q[p + i - 1]
      BY <3>1, <3>2, <3>4, SubSeqProperties
    <3> QED
      BY <2>3, <2>4, <3>1, <3>3, <3>4, <3>5
  <2>6. PICK k \in Nat : tail = [i \in 1..(2 * k) |-> IF i % 2 = 1 THEN "cr" ELSE "lf"]
    <3>1. \E k \in 0..Len(tail) : tail = [i \in 1..(2 * k) |-> IF i % 2 = 1 THEN "cr" ELSE "lf"]
      BY <2>1, <2>2, <2>3
    <3>2. \A k \in 0..Len(tail) : k \in Nat
      BY <2>4, <2>5
    <3> QED
      BY <3>1, <3>2, Zenon
  <2>7. n = l + 2 * k
    BY <2>4, <2>5, <2>6
  <2>8. PICK t : t = SubSeq(q, 1, l)
    OBVIOUS
  <2>9. t \in Seq(Byte) /\ Len(t) = l /\ \A i \in 1..l : t[i] = q[i]
    BY <2>8
  <2>10. ASSUME NEW i \in 1..k PROVE q[l + 2 * i - 1] = "cr" /\ q[l + 2 * i] = "lf"
    <3>1. 2 * i - 1 \in 1..(2 * k) /\ 2 * i \in 1..(2 * k)
          /\ (2 * i - 1) % 2 = 1 /\ (2 * i) % 2 = 0
      OBVIOUS
    <3>2. tail[2 * i - 1] = "cr" /\ tail[2 * i] = "lf"
      BY <2>6, <3>1
    <3>3. tail[2 * i - 1] = q[l + (2 * i - 1)] /\ tail[2 * i] = q[l + 2 * i]
      BY <2>5, <2>7, <3>1
    <3>4. l + (2 * i - 1) = l + 2 * i - 1
      OBVIOUS
    <3> QED
      BY <3>2, <3>3, <3>4
  <2>11. EndsAfter(q, t, k)
    BY <2>4, <2>7, <2>9, <2>10 DEF EndsAfter
  <2>12. IsText(t)
    BY <2>2, <2>9 DEF IsText
  <2>13. LinesEnded(q)
    <3>1. DOMAIN q = 1..Len(q)
      OBVIOUS
    <3> QED
      BY <2>1, <3>1, Zenon DEF LinesEnded
  <2> QED
    BY <1>1, <2>11, <2>12, <2>13 DEF SignedBody
<1> QED
  BY <1>2, <1>3

(* Behind its last byte of text the copy of a body has a line end for    *)
(* every line feed.                                                      *)
LEMMA CopyEnds ==
  ASSUME NEW q \in Seq(Byte), NEW l \in 1..Len(q), q[l] \notin Trimmed,
         \A i \in 1..Len(q) : i > l => q[i] = "lf"
  PROVE  \E t : IsText(t) /\ \E j \in Nat : EndsAfter(LfToCrlf(q), t, j)
<1>1. PICK f : IsFlattening(f, CopyPieces(q), Byte) /\ LfToCrlf(q) = f[Len(q)]
                /\ Len(CopyPieces(q)) = Len(q)
  BY CopyIs
<1>2. PICK n \in Nat : n = Len(q) /\ l \in 1..n /\ DOMAIN q = 1..n
  OBVIOUS
<1>3. /\ \A i \in 0..n : f[i] \in Seq(Byte)
      /\ \A i \in 1..n : f[i] = f[i - 1] \o CopyPieces(q)[i]
  BY <1>1, <1>2 DEF IsFlattening
<1>4. IsText(f[l])
  <2>1. q[l] # "lf" /\ q[l] \in Byte /\ l \in DOMAIN q
    BY <1>2 DEF Trimmed
  <2>2. CopyPieces(q)[l] = <<q[l]>>
    BY <2>1 DEF CopyPieces
  <2>3. PICK s \in Seq(Byte) : s = f[l - 1]
    BY <1>2, <1>3
  <2>4. f[l] = s \o <<q[l]>>
    BY <1>2, <1>3, <2>2, <2>3
  <2>5. Len(f[l]) = Len(s) + 1 /\ f[l][Len(s) + 1] = q[l] /\ Len(s) \in Nat
    BY <2>1, <2>4
  <2> QED
    BY <1>2, <1>3, <2>5 DEF IsText
<1> DEFINE P == {j \in 0..(n - l) : EndsAfter(f[l + j], f[l], j)}
<1>5. 0 \in P
  <2>1. l + 0 = l /\ f[l] \in Seq(Byte) /\ 0 \in 0..(n - l) /\ Len(f[l]) + 2 * 0 = Len(f[l])
    BY <1>2, <1>3
  <2>2. EndsAfter(f[l], f[l], 0)
    BY <2>1 DEF EndsAfter
  <2> QED
    BY <2>1, <2>2
<1>6. ASSUME NEW j \in 0..(n - l - 1), j \in P PROVE j + 1 \in P
  <2>1. /\ j + 1 \in 0..(n - l) /\ l + (j + 1) \in 1..n /\ l + (j + 1) > l
        /\ (l + (j + 1)) - 1 = l + j /\ l + j \in 0..n
    BY <1>2
  <2>2. CopyPieces(q)[l + (j + 1)] = CRLF
    BY <1>2, <2>1 DEF CopyPieces
  <2>3. PICK s \in Seq(Byte) : s = f[l + j]
    BY <1>3, <2>1
  <2>4. f[l + (j + 1)] = s \o CRLF
    BY <1>3, <2>1, <2>2, <2>3
  <2>5. PICK t \in Seq(Byte) : t = f[l]
    BY <1>2, <1>3
  <2>6. /\ Len(s) = Len(t) + 2 * j /\ Len(t) \in Nat
        /\ \A i \in 1..Len(t) : s[i] = t[i]
        /\ \A i \in 1..j : s[Len(t) + 2 * i - 1] = "cr" /\ s[Len(t) + 2 * i] = "lf"
    <3>1. EndsAfter(s, t, j)
      BY <1>6, <2>3, <2>5
    <3>2. Len(t) \in Nat
      BY <2>5
    <3> QED
      BY <3>1, <3>2, Zenon DEF EndsAfter
  <2>7. PICK r : r = s \o CRLF
    OBVIOUS
  <2>8. /\ r \in Seq(Byte) /\ Len(r) = Len(s) + 2 /\ Len(s) \in Nat
        /\ \A i \in 1..Len(s) : r[i] = s[i]
        /\ r[Len(s) + 1] = "cr" /\ r[Len(s) + 2] = "lf"
    BY <2>7, AppendCrlf
  <2>9. Len(r) = Len(t) + 2 * (j + 1) /\ \A i \in 1..Len(t) : r[i] = t[i]
    BY <2>6, <2>8
  <2>10. ASSUME NEW i \in 1..(j + 1)
         PROVE  r[Len(t) + 2 * i - 1] = "cr" /\ r[Len(t) + 2 * i] = "lf"
    <3>1. CASE i \in 1..j
      <4>1. Len(t) + 2 * i - 1 \in 1..Len(s) /\ Len(t) + 2 * i \in 1..Len(s)
        BY <2>6, <3>1
      <4> QED
        BY <2>6, <2>8, <3>1, <4>1
    <3>2. CASE i = j + 1
      <4>1. Len(t) + 2 * i - 1 = Len(s) + 1 /\ Len(t) + 2 * i = Len(s) + 2
        BY <2>6, <3>2
      <4> QED
        BY <2>8, <4>1
    <3> QED
      BY <3>1, <3>2
  <2>11. EndsAfter(r, t, j + 1)
    BY <2>8, <2>9, <2>10 DEF EndsAfter
  <2>12. EndsAfter(f[l + (j + 1)], f[l], j + 1)
    BY <2>4, <2>5, <2>7, <2>11
  <2> QED
    BY <2>1, <2>12
<1>7. n - l \in P
  <2>1. P \in SUBSET Nat /\ n - l \in Nat
    BY <1>2
  <2> HIDE DEF P
  <2>2. \A j \in 0..(n - l) : j \in P
    BY <1>5, <1>6, <2>1, UpTo
  <2> QED
    BY <2>1, <2>2
<1>8. EndsAfter(f[n], f[l], n - l) /\ n - l \in Nat
  <2>1. l + (n - l) = n /\ n - l \in Nat
    BY <1>2
  <2> QED
    BY <1>7, <2>1
<1> QED
  BY <1>1, <1>2, <1>4, <1>8

(* A regular message without CRLFs is signed as a copy.                  *)
LEMMA RegularCopySigned ==
  ASSUME NEW m, m.body \in Seq(Byte), NoCrlf(m.body), m.eol = "lf", RegularBody(m)
  PROVE  SignedBody(LfToCrlf(m.body))
<1>1. PICK q \in Seq(Byte) : q = m.body
  OBVIOUS
<1>2. CASE q = <<>>
  <2>1. LfToCrlf(q) = <<>>
    BY <1>2, CopyIs DEF IsFlattening
  <2> QED
    BY <1>1, <2>1 DEF SignedBody
<1>3. CASE q # <<>>
  <2>1. /\ LastText(q) > 0
        /\ Range(SubSeq(q, LastText(q) + 1, Len(q))) \subseteq {"lf"}
    BY <1>1, <1>3 DEF RegularBody, EndsInLines
  <2>2. PICK l \in 1..Len(q) : l = LastText(q) /\ q[l] \notin Trimmed
    BY <2>1, LastTextIs
  <2>3. ASSUME NEW i \in 1..Len(q), i > l PROVE q[i] = "lf"
    <3>1. PICK tail : tail = SubSeq(q, l + 1, Len(q))
      OBVIOUS
    <3>2. i - l \in DOMAIN tail /\ tail[i - l] = q[i]
      <4>1. PICK n \in Nat : n = Len(q) /\ \A x \in 1..n : q[x] \in Byte
        OBVIOUS
      <4>2. PICK p \in 1..n : p = l + 1
        BY <2>3, <4>1
      <4>3. \A x \in p..n : q[x] \in Byte
        BY <4>1
      <4>4. /\ tail \in Seq(Byte) /\ Len(tail) = IF p <= n THEN n - p + 1 ELSE 0
            /\ \A x \in 1..(n - p + 1) : tail[x] = q[p + x - 1]
        BY <3>1, <4>1, <4>2, <4>3, SubSeqProperties
      <4>5. PICK x \in 1..(n - p + 1) : x = i - l /\ p + x - 1 = i /\ p <= n
        BY <2>3, <4>1, <4>2
      <4>6. Len(tail) = n - p + 1 /\ DOMAIN tail = 1..Len(tail)
        BY <4>4, <4>5
      <4>7. x \in DOMAIN tail
        BY <4>5, <4>6
      <4>8. tail[x] = q[i]
        BY <4>4, <4>5
      <4> QED
        BY <4>5, <4>7, <4>8
    <3>3. tail[i - l] \in Range(tail)
      BY <3>2 DEF Range
    <3> QED
      BY <2>1, <2>2, <3>1, <3>2, <3>3
  <2>4. LinesEnded(LfToCrlf(q))
    BY <1>1, CopyEnded
  <2>5. \E t : IsText(t) /\ \E j \in Nat : EndsAfter(LfToCrlf(q), t, j)
    BY <2>2, <2>3, CopyEnds
  <2> QED
    BY <1>1, <2>4, <2>5 DEF SignedBody
<1> QED
  BY <1>2, <1>3

-----------------------------------------------------------------------------
(* The header                                                            *)

(* Of one number, Min and Max choose that one.                           *)
LEMMA OnlyOne == ASSUME NEW j \in Int PROVE Min({j}) = j /\ Max({j}) = j
  BY DEF Min, Max

(* The only field of a name that is signed.                              *)
OnlyField(fields, r) ==
  /\ r.name # SignatureHeaderKey
  /\ \E j \in DOMAIN fields : Having(fields, r.name) = {j} /\ r = fields[j]

LEMMA SignedFields ==
  ASSUME NEW S, NEW fields \in Seq(S), RegularFields(fields)
  PROVE  \E n \in Nat : \E R :
           /\ \A r \in R : OnlyField(fields, r)
           /\ signableHeaderList(fields) \in [1..n -> R]
<1> DEFINE Found(name) == IF Having(fields, name) = {} THEN <<>> ELSE <<Get(fields, name)>>
           found == [i \in DOMAIN StdSignableHeaders |-> Found(StdSignableHeaders[i])]
           R == {Get(fields, name) : name \in {x \in Range(StdSignableHeaders) :
                                                 Having(fields, x) # {}}}
<1>1. DOMAIN StdSignableHeaders = 1..3
  BY DEF StdSignableHeaders
<1>2. ASSUME NEW name \in Range(StdSignableHeaders), Having(fields, name) # {}
      PROVE  OnlyField(fields, Get(fields, name))
  <2>1. PICK j \in Having(fields, name) : TRUE
    BY <1>2
  <2>2. Having(fields, name) = {j}
    BY <2>1 DEF RegularFields
  <2>3. j \in DOMAIN fields /\ j \in Int /\ fields[j].name = name
    BY <2>1 DEF Having
  <2>4. Get(fields, name) = fields[j]
    BY <2>2, <2>3, OnlyOne DEF Get
  <2>5. name # SignatureHeaderKey
    BY <1>2 DEF RegularFields
  <2> QED
    BY <2>2, <2>3, <2>4, <2>5 DEF OnlyField
<1>3. \A r \in R : OnlyField(fields, r)
  BY <1>2
<1>4. \A i \in 1..3 : StdSignableHeaders[i] \in Range(StdSignableHeaders)
  BY <1>1 DEF Range
<1>5. ASSUME NEW i \in 1..3 PROVE Found(StdSignableHeaders[i]) \in Seq(R)
  <2>1. CASE Having(fields, StdSignableHeaders[i]) = {}
    BY <2>1, EmptySeq
  <2>2. CASE Having(fields, StdSignableHeaders[i]) # {}
    <3>1. Get(fields, StdSignableHeaders[i]) \in R
      BY <1>4, <2>2
    <3> HIDE DEF R
    <3> QED
      BY <2>2, <3>1
  <2> QED
    BY <2>1, <2>2
<1>6. found \in [1..3 -> Seq(R)]
  BY <1>1, <1>5
<1>7. signableHeaderList(fields) = FlattenSeq(found)
  BY DEF signableHeaderList
<1> HIDE DEF found, R, Found
<1>8. PICK f : IsFlattening(f, found, R) /\ FlattenSeq(found) = f[3]
  BY <1>6, FlattenIs
<1>9. f[3] \in Seq(R)
  <2>1. Len(found) = 3 /\ 3 \in 0..3
    BY <1>6
  <2> QED
    BY <1>8, <2>1 DEF IsFlattening
<1>10. PICK l \in Seq(R) : l = signableHeaderList(fields)
  BY <1>7, <1>8, <1>9
<1>11. Len(l) \in Nat /\ l \in [1..Len(l) -> R]
  OBVIOUS
<1> QED
  BY <1>3, <1>10, <1>11

(* The receiver finds the fields that h= names, and signs the same       *)
(* block.                                                                *)
LEMMA HeaderVerifies ==
  ASSUME NEW S, NEW fields \in Seq(S), RegularFields(fields), NEW c,
         c.h = Fields(signableHeaderList(fields))
  PROVE  /\ \A i \in DOMAIN c.h : Having(fields, c.h[i]) # {}
         /\ signableHeaderBlock(fields, c) = RfcBlock(fields, c)
<1>0. PICK n \in Nat : \E R : /\ \A r \in R : OnlyField(fields, r)
                              /\ signableHeaderList(fields) \in [1..n -> R]
  BY SignedFields
<1>1. PICK R : /\ \A r \in R : OnlyField(fields, r)
               /\ signableHeaderList(fields) \in [1..n -> R]
  BY <1>0
<1>2. PICK list \in [1..n -> R] : list = signableHeaderList(fields)
  BY <1>1
<1>3. DOMAIN list = 1..n /\ \A i \in 1..n : OnlyField(fields, list[i])
  BY <1>1
<1> DEFINE Named(name) == IF name = SignatureHeaderKey THEN <<>> ELSE <<name>>
           named == [i \in DOMAIN list |-> Named(list[i].name)]
           names == {r.name : r \in R}
           h == [i \in 1..n |-> list[i].name]
<1>4. named = [i \in 1..n |-> <<h[i]>>]
  BY <1>3 DEF OnlyField
<1>5. h \in [1..n -> names]
  BY <1>2
<1>6. Fields(list) = FlattenSeq(named)
  BY DEF Fields
<1>7. FlattenSeq(named) = h
  <2> HIDE DEF named, h, names
  <2> QED
    BY <1>4, <1>5, FlattenSingletons
<1>8. c.h = h
  BY <1>2, <1>6, <1>7
<1>9. ASSUME NEW i \in 1..n
      PROVE  /\ Having(fields, h[i]) # {}
             /\ fields[Max(Having(fields, h[i]))] = list[i]
  <2>1. PICK j \in DOMAIN fields : Having(fields, list[i].name) = {j} /\ list[i] = fields[j]
    BY <1>3 DEF OnlyField
  <2>2. j \in Int
    OBVIOUS
  <2> QED
    BY <2>1, <2>2, OnlyOne
<1>10. DOMAIN h = 1..n
  OBVIOUS
<1> HIDE DEF h
<1>11. [i \in DOMAIN list |-> Canonical(list[i])] =
       [i \in DOMAIN c.h |-> Canonical(fields[Max(Having(fields, c.h[i]))])]
  BY <1>3, <1>8, <1>9, <1>10
<1>12. signableHeaderBlock(fields, c) = [i \in DOMAIN list |-> Canonical(list[i])] \o <<c>>
  BY <1>2 DEF signableHeaderBlock
<1> QED
  BY <1>8, <1>9, <1>10, <1>11, <1>12 DEF RfcBlock

-----------------------------------------------------------------------------
(* Signing, by any entry at any time, leaves the text in the array of    *)
(* each entry as it was accepted; a body without CRLF is signed as a     *)
(* copy, so nothing of its array changes.  What goes out, unless it is   *)
(* such a copy, is the array.                                            *)
TextOf(e) ==
  /\ SameText(Bytes(e), message[e].body)
  /\ Copied(e) => Bytes(e) = message[e].body
  /\ stage[e] = "ready" /\ ~(signing /\ Copied(e)) =>
       SameText(wire[e].body, message[e].body)

(* The body that is signed, as the listener accepted it.                 *)
Given(e) == IF Copied(e) THEN LfToCrlf(message[e].body) ELSE message[e].body

SignedAs(fields, bytes, c, s) ==
  c = NewConf(fields, bytes) /\ s = signableHeaderBlock(fields, c)

(* Between the hash and the end of the attempt nobody changes what was   *)
(* hashed; a copy carries its own write, and the array of a regular body *)
(* never changes at all.                                                 *)
HashOf(e) ==
  /\ stage[e] = "hashed" => SignedAs(message[e].fields, Given(e), conf[e], sig[e])
  /\ stage[e] = "hashed" /\ Copied(e) => body[e] = AppendInPlace(Given(e), 0)
  /\ stage[e] = "ready" => wire[e].signed = signing
  /\ stage[e] = "ready" /\ signing =>
       /\ wire[e].fields = message[e].fields
       /\ SignedAs(message[e].fields, Given(e), wire[e].conf, wire[e].sig)
  /\ stage[e] = "ready" /\ signing /\ Copied(e) =>
       wire[e].body = AppendInPlace(Given(e), 0)
  /\ RegularBody(message[e]) /\ ~Copied(e) =>
       /\ Bytes(e) = message[e].body
       /\ stage[e] = "ready" => wire[e].body = message[e].body

EntriesOK ==
  /\ message \in [Entry -> Messages] /\ array \in [Entry -> 1..2]
  /\ array["own"] = array["neighbour"] => message["own"] = message["neighbour"]
  /\ DOMAIN data = 1..2
  /\ stage \in [Entry -> {"start", "hashed", "ready"}]
  /\ DOMAIN wire = Entry /\ DOMAIN conf = Entry /\ DOMAIN sig = Entry /\ DOMAIN body = Entry
  /\ \A e \in Entry : stage[e] = "hashed" => signing
  /\ attempts \in 0..MaxNeighbour /\ signing \in BOOLEAN

OutgoingInv == EntriesOK /\ \A e \in Entry : TextOf(e) /\ HashOf(e)

LEMMA SelfText == ASSUME NEW m \in Seq(Byte) PROVE SameText(m, m)
  BY KeptIs DEF SameText

(* The hash is taken of the text alone.                                  *)
LEMMA SameHash ==
  ASSUME NEW m \in Seq(Byte), NEW q, SameText(q, m)
  PROVE  canonicalBody(q) = canonicalBody(m)
<1>1. q \in Seq(Byte) /\ Len(q) = Len(m) /\ Kept(q) = Kept(m)
  BY SameKept DEF SameText
<1>2. q = <<>> <=> m = <<>>
  BY <1>1
<1>3. PICK k \in 0..Len(m) : k = Kept(m)
  BY KeptIs
<1>4. /\ SubSeq(q, 1, k) \in Seq(Byte) /\ Len(SubSeq(q, 1, k)) = k
      /\ \A i \in 1..k : SubSeq(q, 1, k)[i] = q[i]
  BY <1>1, <1>3
<1>5. /\ SubSeq(m, 1, k) \in Seq(Byte) /\ Len(SubSeq(m, 1, k)) = k
      /\ \A i \in 1..k : SubSeq(m, 1, k)[i] = m[i]
  BY <1>3
<1>6. \A i \in 1..k : q[i] = m[i]
  BY <1>3 DEF SameText
<1>7. SubSeq(q, 1, k) = SubSeq(m, 1, k)
  BY <1>4, <1>5, <1>6, SeqEqual
<1> QED
  BY <1>1, <1>2, <1>3, <1>7 DEF canonicalBody

LEMMA MessageIs ==
  ASSUME OutgoingInv, NEW e \in Entry
  PROVE  /\ message[e] \in Messages /\ message[e].body \in Seq(Byte) /\ array[e] \in 1..2
         /\ message[e].fields \in Seq(Range(message[e].fields))
         /\ Copied(e) => NoCrlf(message[e].body)
         /\ ~Copied(e) => message[e].eol = "crlf"
  BY OutgoingAssumption DEF OutgoingInv, EntriesOK, Copied, NoCrlf

LEMMA InitOutgoingInv == OutgoingInit => OutgoingInv
<1> SUFFICES ASSUME OutgoingInit PROVE OutgoingInv
  OBVIOUS
<1>1. \A e \in Entry : Bytes(e) = message[e].body
  BY DEF OutgoingInit, Entry, Bytes
<1>2. \A e \in Entry : SameText(Bytes(e), message[e].body)
  BY <1>1, SelfText, OutgoingAssumption DEF OutgoingInit
<1>3. array \in [Entry -> 1..2]
  BY DEF OutgoingInit, Entry
<1>4. EntriesOK
  BY <1>3, OutgoingAssumption DEF OutgoingInit, EntriesOK, Entry
<1>5. \A e \in Entry : stage[e] = "start"
  BY DEF OutgoingInit
<1>6. \A e \in Entry : TextOf(e)
  BY <1>1, <1>2, <1>5 DEF TextOf
<1>7. \A e \in Entry : HashOf(e)
  BY <1>1, <1>5 DEF HashOf
<1> QED
  BY <1>4, <1>6, <1>7 DEF OutgoingInv

(* What a step leaves to an entry that it does not touch.                *)
SameEntry(e) ==
  /\ Bytes(e)' = Bytes(e)
  /\ \/ stage'[e] = "start"
     \/ /\ stage'[e] = stage[e] /\ wire'[e] = wire[e]
        /\ conf'[e] = conf[e] /\ sig'[e] = sig[e] /\ body'[e] = body[e]

LEMMA SameEntryInv ==
  ASSUME OutgoingInv, UNCHANGED rigid, NEW e \in Entry, SameEntry(e)
  PROVE  TextOf(e)' /\ HashOf(e)'
<1>1. TextOf(e) /\ HashOf(e) /\ UNCHANGED <<message, array, signing>>
  BY DEF OutgoingInv, rigid
<1>2. (Copied(e)' <=> Copied(e)) /\ Given(e)' = Given(e)
  BY <1>1 DEF Copied, Given
<1>3. Bytes(e)' = Bytes(e)
  BY DEF SameEntry
<1>4. CASE stage'[e] = "start"
  BY <1>1, <1>2, <1>3, <1>4 DEF TextOf, HashOf
<1>5. CASE /\ stage'[e] = stage[e] /\ wire'[e] = wire[e]
           /\ conf'[e] = conf[e] /\ sig'[e] = sig[e] /\ body'[e] = body[e]
  <2>1. TextOf(e)'
    BY <1>1, <1>2, <1>3, <1>5 DEF TextOf
  <2>2. HashOf(e)'
    BY <1>1, <1>2, <1>3, <1>5 DEF HashOf, SignedAs
  <2> QED
    BY <2>1, <2>2
<1> QED
  BY <1>4, <1>5 DEF SameEntry

(* The hash is that of the body as it was accepted, whatever has been    *)
(* written behind its text.                                              *)
LEMMA HashGiven ==
  ASSUME OutgoingInv, NEW e \in Entry
  PROVE  canonicalBody(SignBody(e)) = canonicalBody(Given(e))
<1>1. TextOf(e) /\ message[e].body \in Seq(Byte)
  BY MessageIs DEF OutgoingInv
<1>2. SameText(Bytes(e), message[e].body)
  BY <1>1 DEF TextOf
<1>3. canonicalBody(Bytes(e)) = canonicalBody(message[e].body)
  BY <1>1, <1>2, SameHash
<1> QED
  BY <1>1, <1>3 DEF TextOf, SignBody, Given

(* The array of an entry is written by a signing of one of its entries.  *)
LEMMA HashWrites ==
  ASSUME OutgoingInv, NEW e \in Entry, SignHash(e), UNCHANGED rigid, NEW f \in Entry
  PROVE  /\ SameText(Bytes(f)', message[f].body)
         /\ Copied(f) => Bytes(f)' = message[f].body
         /\ RegularBody(message[f]) /\ ~Copied(f) => Bytes(f)' = message[f].body
<1>1. /\ UNCHANGED <<message, array>> /\ TextOf(f) /\ HashOf(f)
      /\ message[f].body \in Seq(Byte) /\ array[f] \in 1..2 /\ array[e] \in 1..2
      /\ ~Copied(f) => message[f].eol = "crlf"
  BY MessageIs DEF OutgoingInv, rigid
<1>2. CASE Bytes(f)' = Bytes(f)
  BY <1>1, <1>2 DEF TextOf, HashOf
<1>3. CASE ~Copied(e) /\ array[f] = array[e]
  <2>1. message[f] = message[e] /\ ~Copied(f)
    BY <1>3 DEF OutgoingInv, EntriesOK, Entry, Copied
  <2>2. Bytes(f)' = AppendInPlace(Bytes(f), message[e].slack)
    BY <1>1, <1>3 DEF SignHash, Bytes, OutgoingInv, EntriesOK
  <2>3. SameText(Bytes(f)', message[f].body)
    BY <1>1, <2>2, AppendKeeps DEF TextOf
  <2>4. ASSUME RegularBody(message[f]) PROVE Bytes(f)' = message[f].body
    <3>1. SignedBody(message[f].body)
      BY <1>1, <2>1, <2>4, RegularSigned
    <3>2. Bytes(f) = message[f].body
      BY <1>1, <2>1, <2>4 DEF HashOf
    <3> QED
      BY <2>2, <3>1, <3>2, BodyVerifies
  <2> QED
    BY <2>1, <2>3, <2>4
<1>4. Bytes(f)' = Bytes(f) \/ (~Copied(e) /\ array[f] = array[e])
  BY <1>1 DEF SignHash, Bytes, OutgoingInv, EntriesOK
<1> QED
  BY <1>2, <1>3, <1>4

LEMMA HashInv ==
  ASSUME OutgoingInv, NEW e \in Entry, SignHash(e), UNCHANGED rigid PROVE OutgoingInv'
<1>1. /\ UNCHANGED <<message, array, signing, wire, attempts>> /\ signing
      /\ stage' = [stage EXCEPT ![e] = "hashed"]
      /\ conf' = [conf EXCEPT ![e] = NewConf(message[e].fields, SignBody(e))]
      /\ sig' = [sig EXCEPT ![e] = signableHeaderBlock(message[e].fields,
                                     NewConf(message[e].fields, SignBody(e)))]
      /\ body' = body \/ body' = [body EXCEPT ![e] = AppendInPlace(SignBody(e), 0)]
      /\ data' = data \/ data' = [data EXCEPT ![array[e]] = AppendInPlace(@, message[e].slack)]
      /\ Copied(e) => body' = [body EXCEPT ![e] = AppendInPlace(SignBody(e), 0)]
  BY DEF SignHash, rigid, ConfOf
<1>2. EntriesOK'
  BY <1>1 DEF OutgoingInv, EntriesOK
<1>3. \A f \in Entry : (Copied(f)' <=> Copied(f)) /\ Given(f)' = Given(f)
  BY <1>1 DEF Copied, Given
<1>4. \A f \in Entry : TextOf(f) /\ HashOf(f)
  BY DEF OutgoingInv
<1>5. ASSUME NEW f \in Entry PROVE TextOf(f)'
  <2>1. stage'[f] = "ready" => stage[f] = "ready" /\ wire'[f] = wire[f]
    BY <1>1 DEF OutgoingInv, EntriesOK
  <2> QED
    BY <1>1, <1>3, <1>4, <2>1, HashWrites DEF TextOf
<1>6. ASSUME NEW f \in Entry, f # e PROVE HashOf(f)'
  <2>1. /\ stage'[f] = stage[f] /\ wire'[f] = wire[f]
        /\ conf'[f] = conf[f] /\ sig'[f] = sig[f] /\ body'[f] = body[f]
    BY <1>1, <1>6 DEF OutgoingInv, EntriesOK
  <2>2. /\ UNCHANGED <<message, signing>> /\ HashOf(f)
        /\ (Copied(f)' <=> Copied(f)) /\ Given(f)' = Given(f)
    BY <1>1, <1>3, <1>4
  <2>3. RegularBody(message[f]) /\ ~Copied(f) => Bytes(f)' = message[f].body
    BY HashWrites
  <2> QED
    BY <2>1, <2>2, <2>3 DEF HashOf
<1>7. HashOf(e)'
  <2>1. stage'[e] = "hashed"
    BY <1>1 DEF OutgoingInv, EntriesOK
  <2>2. NewConf(message[e].fields, SignBody(e)) = NewConf(message[e].fields, Given(e))
    BY HashGiven DEF NewConf
  <2>3. conf'[e] = NewConf(message[e].fields, SignBody(e))
    BY <1>1 DEF OutgoingInv, EntriesOK
  <2>4. sig'[e] = signableHeaderBlock(message[e].fields,
                    NewConf(message[e].fields, SignBody(e)))
    BY <1>1 DEF OutgoingInv, EntriesOK
  <2>5. SignedAs(message[e].fields, Given(e), conf'[e], sig'[e])
    BY <1>1, <1>3, <2>2, <2>3, <2>4 DEF SignedAs
  <2>6. Copied(e) => body'[e] = AppendInPlace(Given(e), 0)
    <3>1. Copied(e) => SignBody(e) = Given(e)
      BY <1>4 DEF TextOf, SignBody, Given
    <3> QED
      BY <1>1, <3>1 DEF OutgoingInv, EntriesOK
  <2> QED
    BY <1>1, <1>3, <2>1, <2>5, <2>6, HashWrites DEF HashOf
<1> QED
  BY <1>2, <1>5, <1>6, <1>7 DEF OutgoingInv

(* What is handed to the client.                                         *)
LEMMA EmitInv ==
  ASSUME OutgoingInv, NEW e \in Entry, SignEmit(e) \/ NotSigned(e), UNCHANGED rigid
  PROVE  OutgoingInv'
<1>1. /\ UNCHANGED <<message, array, signing, data, body, conf, sig, attempts>>
      /\ stage' = [stage EXCEPT ![e] = "ready"]
      /\ \E w : wire' = [wire EXCEPT ![e] = w]
  BY DEF SignEmit, NotSigned, rigid
<1>2. \A f \in Entry : Bytes(f)' = Bytes(f) /\ (Copied(f)' <=> Copied(f)) /\ Given(f)' = Given(f)
  BY <1>1 DEF Bytes, Copied, Given
<1>3. EntriesOK'
  BY <1>1 DEF OutgoingInv, EntriesOK
<1>4. ASSUME NEW f \in Entry, f # e PROVE TextOf(f)' /\ HashOf(f)'
  <2>1. SameEntry(f)
    BY <1>1, <1>2, <1>4 DEF SameEntry, OutgoingInv, EntriesOK
  <2> QED
    BY <2>1, SameEntryInv
<1>5. TextOf(e) /\ HashOf(e) /\ stage'[e] = "ready"
  BY <1>1 DEF OutgoingInv, EntriesOK
<1>6. ASSUME SignEmit(e) PROVE TextOf(e)' /\ HashOf(e)'
  <2>1. signing /\ stage[e] = "hashed"
    BY <1>6 DEF SignEmit, OutgoingInv, EntriesOK
  <2>2. /\ wire'[e].signed = TRUE /\ wire'[e].fields = message[e].fields
        /\ wire'[e].conf = conf[e] /\ wire'[e].sig = sig[e]
        /\ wire'[e].body = IF Copied(e) THEN body[e] ELSE Bytes(e)
    BY <1>6 DEF SignEmit, ConfOf, OutgoingInv, EntriesOK
  <2>3. TextOf(e)'
    BY <1>1, <1>2, <1>5, <2>1, <2>2 DEF TextOf
  <2>4. SignedAs(message[e].fields, Given(e), wire'[e].conf, wire'[e].sig)
    BY <1>1, <1>2, <1>5, <2>1, <2>2 DEF HashOf, SignedAs
  <2>5. HashOf(e)'
    BY <1>1, <1>2, <1>5, <2>1, <2>2, <2>4 DEF HashOf
  <2> QED
    BY <2>3, <2>5
<1>7. ASSUME NotSigned(e) PROVE TextOf(e)' /\ HashOf(e)'
  <2>1. ~signing /\ wire'[e].signed = FALSE /\ wire'[e].body = Bytes(e)
    BY <1>7 DEF NotSigned, OutgoingInv, EntriesOK
  <2>2. signing = FALSE
    BY <2>1 DEF OutgoingInv, EntriesOK
  <2>3. TextOf(e)'
    BY <1>1, <1>2, <1>5, <2>1 DEF TextOf
  <2>4. HashOf(e)'
    BY <1>1, <1>2, <1>5, <2>1, <2>2 DEF HashOf
  <2> QED
    BY <2>3, <2>4
<1> QED
  BY <1>3, <1>4, <1>6, <1>7 DEF OutgoingInv

(* The end of an attempt of one of the entries, and other steps of the   *)
(* conversation.                                                         *)
LEMMA AttemptInv ==
  ASSUME OutgoingInv, Converse \/ NeighbourAgain \/ UNCHANGED outgoing PROVE OutgoingInv'
<1>1. UNCHANGED <<message, array, signing, data, conf, sig>> /\ UNCHANGED rigid
  BY DEF Converse, NeighbourAgain, NextAttempt, outgoing, rigid, dkim
<1>2. /\ attempts' \in 0..MaxNeighbour
      /\ \/ UNCHANGED <<stage, wire, body>>
         \/ \E e \in Entry : /\ stage' = [stage EXCEPT ![e] = "start"]
                             /\ wire' = [wire EXCEPT ![e] = NoWire]
                             /\ body' = [body EXCEPT ![e] = <<>>]
  BY OutgoingAssumption
     DEF Converse, NeighbourAgain, NextAttempt, outgoing, dkim, Entry, OutgoingInv, EntriesOK
<1>3. EntriesOK'
  BY <1>1, <1>2 DEF OutgoingInv, EntriesOK
<1>4. ASSUME NEW f \in Entry PROVE SameEntry(f)
  BY <1>1, <1>2 DEF SameEntry, Bytes, OutgoingInv, EntriesOK
<1> QED
  BY <1>1, <1>3, <1>4, SameEntryInv DEF OutgoingInv

LEMMA NextOutgoingInv == OutgoingInv /\ [OutgoingNext]_outgoing => OutgoingInv'
  BY HashInv, EmitInv, AttemptInv DEF OutgoingNext, DKIMSign

LEMMA OutgoingInvHolds == OutgoingSpec => []OutgoingInv
  BY InitOutgoingInv, NextOutgoingInv, PTL DEF OutgoingSpec

-----------------------------------------------------------------------------
(* Entries of one message share its bytes, and each signing writes to    *)
(* them; whoever signs, however often and whenever, every attempt sends  *)
(* the text that the listener accepted.                                  *)
THEOREM TextAlwaysKept == OutgoingSpec => []TextKept
<1>1. ASSUME OutgoingInv, NEW e \in Entry, stage[e] = "ready"
      PROVE  Text(wire[e].body) = Text(message[e].body)
  <2>1. TextOf(e) /\ HashOf(e)
    BY <1>1 DEF OutgoingInv
  <2>2. PICK m \in Seq(Byte) : m = message[e].body
    BY <1>1, MessageIs
  <2>3. CASE signing /\ Copied(e)
    <3>1. wire[e].body = AppendInPlace(LfToCrlf(m), 0)
      BY <1>1, <2>1, <2>2, <2>3 DEF HashOf, Given
    <3>2. LfToCrlf(m) \in Seq(Byte)
      BY CopyTyped
    <3>3. SameText(wire[e].body, LfToCrlf(m))
      BY <3>1, <3>2, SelfText, AppendKeeps
    <3>4. Text(wire[e].body) = Text(LfToCrlf(m))
      BY <3>2, <3>3, SameTextSent
    <3>5. DotWriter(LfToCrlf(m)) = DotWriter(m)
      BY <1>1, <2>2, <2>3, MessageIs, CopySent
    <3> QED
      BY <2>2, <3>4, <3>5 DEF Text
  <2>4. CASE ~(signing /\ Copied(e))
    <3>1. SameText(wire[e].body, m)
      BY <1>1, <2>1, <2>2, <2>4 DEF TextOf
    <3> QED
      BY <2>2, <3>1, SameTextSent
  <2> QED
    BY <2>3, <2>4
<1>2. OutgoingInv => TextKept
  BY <1>1 DEF TextKept
<1> QED
  BY <1>2, OutgoingInvHolds, PTL

(* The signature of every attempt verifies at a receiver, for every      *)
(* message the signing code is right about, whatever other goroutines    *)
(* sign at the same time and have written to the shared bytes.           *)
THEOREM SignatureAlwaysVerifies == OutgoingSpec => []SignatureVerifies
<1>1. ASSUME OutgoingInv, NEW e \in Entry, stage[e] = "ready", wire[e].signed,
             Regular(message[e])
      PROVE  Verifies(wire[e])
  <2>1. HashOf(e) /\ message[e].body \in Seq(Byte)
    BY <1>1, MessageIs DEF OutgoingInv
  <2>2. /\ signing /\ wire[e].fields = message[e].fields
        /\ SignedAs(message[e].fields, Given(e), wire[e].conf, wire[e].sig)
    BY <1>1, <2>1 DEF HashOf
  <2>3. RegularFields(message[e].fields) /\ RegularBody(message[e])
    BY <1>1 DEF Regular
  <2>4. SignedBody(Given(e))
    BY <1>1, <2>1, <2>3, MessageIs, RegularSigned, RegularCopySigned DEF Given, Copied
  <2>5. wire[e].body = Given(e)
    <3>1. CASE Copied(e)
      BY <1>1, <2>1, <2>2, <2>4, <3>1, BodyVerifies DEF HashOf
    <3>2. CASE ~Copied(e)
      BY <1>1, <2>1, <2>3, <3>2 DEF HashOf, Given
    <3> QED
      BY <3>1, <3>2
  <2>6. wire[e].conf.bh = RfcBody(DotWriter(wire[e].body))
    BY <2>2, <2>4, <2>5, BodyVerifies DEF SignedAs, NewConf
  <2>7. wire[e].conf.h = Fields(signableHeaderList(message[e].fields))
    BY <2>2 DEF SignedAs, NewConf
  <2>8. message[e].fields \in Seq(Range(message[e].fields))
    BY <1>1, MessageIs
  <2> QED
    BY <2>2, <2>3, <2>6, <2>7, <2>8, HeaderVerifies DEF SignedAs, Verifies
<1>2. OutgoingInv => SignatureVerifies
  BY <1>1 DEF SignatureVerifies
<1> QED
  BY <1>2, OutgoingInvHolds, PTL
=============================================================================
