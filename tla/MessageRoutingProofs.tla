------------------------- MODULE MessageRoutingProofs -------------------------
(* Theorems about MessageRouting, for any messages and limits, any spelling *)
(* of the domains, and any answers of the name servers.                     *)
EXTENDS MessageRouting, FiniteSetTheorems, WellFoundedInduction, TLAPS

-----------------------------------------------------------------------------
(* Numbers *)

LEMMA LeastNatural ==
  ASSUME NEW T \in SUBSET Nat, T # {}
  PROVE  \E m \in T : \A n \in T : m <= n
<1> DEFINE R == {ss \in Nat \X Nat : ss[1] < ss[2]}
<1>1. IsWellFoundedOn(R, Nat)
  BY NatLessThanWellFounded DEF OpToRel
<1> HIDE DEF R
<1>2. PICK m \in T : \A n \in T : ~(<<n, m>> \in R)
  BY <1>1, WFMin
<1>3. ASSUME NEW n \in T, n < m PROVE FALSE
  <2>1. <<n, m>> \in Nat \X Nat /\ <<n, m>>[1] < <<n, m>>[2]
    BY <1>3
  <2>2. <<n, m>> \in R
    BY <2>1, Zenon DEF R
  <2> QED
    BY <1>2, <2>2
<1> QED
  BY <1>2, <1>3

(* The recursive functions exist: a least bound without one would have one. *)
IsRedirection(f, name, dns, k) ==
  f = [j \in 0..k |-> IF j = 0 THEN name ELSE Redirect(f[j - 1], dns)]

LEMMA RedirectionExists ==
  ASSUME NEW name, NEW dns, NEW k \in Nat
  PROVE  \E f : IsRedirection(f, name, dns, k)
<1> DEFINE T == {m \in Nat : ~\E f : IsRedirection(f, name, dns, m)}
<1> SUFFICES ASSUME T # {} PROVE FALSE
  OBVIOUS
<1>1. PICK m \in T : \A n \in T : m <= n
  BY LeastNatural
<1>2. CASE m = 0
  <2>1. 0..0 = {0}
    OBVIOUS
  <2>2. IsRedirection([j \in 0..0 |-> name], name, dns, 0)
    BY <2>1 DEF IsRedirection
  <2> QED
    BY <1>2, <2>2
<1>3. CASE m # 0
  <2>1. m - 1 \in Nat /\ m - 1 \notin T
    BY <1>1, <1>3
  <2>2. PICK g : IsRedirection(g, name, dns, m - 1)
    BY <2>1
  <2> DEFINE f == [j \in 0..m |-> IF j = m THEN Redirect(g[m - 1], dns) ELSE g[j]]
             h == [j \in 0..m |-> IF j = 0 THEN name ELSE Redirect(f[j - 1], dns)]
  <2>3. ASSUME NEW j \in 0..m PROVE f[j] = h[j]
    <3>1. CASE j = m
      <4>1. f[m - 1] = g[m - 1] /\ m - 1 \in 0..m
        BY <2>1
      <4> QED
        BY <1>3, <3>1, <4>1
    <3>2. CASE j # m
      <4>1. j \in 0..(m - 1) /\ f[j] = g[j]
        BY <3>2
      <4>2. g[j] = IF j = 0 THEN name ELSE Redirect(g[j - 1], dns)
        BY <2>2, <4>1 DEF IsRedirection
      <4>3. j # 0 => j - 1 \in 0..m /\ j - 1 # m /\ f[j - 1] = g[j - 1]
        BY <4>1
      <4> QED
        BY <4>1, <4>2, <4>3
    <3> QED
      BY <3>1, <3>2
  <2>4. f = h
    BY <2>3
  <2>5. IsRedirection(f, name, dns, m)
    BY <2>4 DEF IsRedirection
  <2> QED
    BY <2>5
<1> QED
  BY <1>2, <1>3

LEMMA RedirectedIs ==
  ASSUME NEW name, NEW dns, NEW k \in Nat
  PROVE  \E f : IsRedirection(f, name, dns, k) /\ Redirected(name, dns, k) = f[k]
<1> DEFINE step == CHOOSE f : IsRedirection(f, name, dns, k)
<1>1. IsRedirection(step, name, dns, k)
  BY RedirectionExists
<1>2. Redirected(name, dns, k) = step[k]
  BY DEF Redirected, IsRedirection
<1> QED
  BY <1>1, <1>2

IsRound(f, l, n) == f = [k \in 0..n |-> IF k >= l THEN f[k - l] ELSE k]

LEMMA RoundExists ==
  ASSUME NEW l \in Nat \ {0}, NEW n \in Nat
  PROVE  \E f : IsRound(f, l, n)
<1> DEFINE T == {m \in Nat : ~\E f : IsRound(f, l, m)}
<1> SUFFICES ASSUME T # {} PROVE FALSE
  OBVIOUS
<1>1. PICK m \in T : \A k \in T : m <= k
  BY LeastNatural
<1>2. CASE m = 0
  <2>1. 0..0 = {0} /\ ~(0 >= l)
    OBVIOUS
  <2>2. IsRound([k \in 0..0 |-> 0], l, 0)
    BY <2>1 DEF IsRound
  <2> QED
    BY <1>2, <2>2
<1>3. CASE m # 0
  <2>1. m - 1 \in Nat /\ m - 1 \notin T
    BY <1>1, <1>3
  <2>2. PICK g : IsRound(g, l, m - 1)
    BY <2>1
  <2> DEFINE f == [k \in 0..m |-> IF k = m THEN (IF m >= l THEN g[m - l] ELSE m) ELSE g[k]]
             h == [k \in 0..m |-> IF k >= l THEN f[k - l] ELSE k]
  <2>3. ASSUME NEW j \in 0..m PROVE f[j] = h[j]
    <3>0. j >= l => j - l \in 0..m /\ j - l # m /\ j - l \in 0..(m - 1)
      OBVIOUS
    <3>1. CASE j = m
      BY <3>0, <3>1
    <3>2. CASE j # m
      <4>1. j \in 0..(m - 1) /\ f[j] = g[j]
        BY <3>2
      <4>2. g[j] = IF j >= l THEN g[j - l] ELSE j
        BY <2>2, <4>1 DEF IsRound
      <4> QED
        BY <3>0, <4>1, <4>2
    <3> QED
      BY <3>1, <3>2
  <2>4. f = h
    BY <2>3
  <2>5. IsRound(f, l, m)
    BY <2>4 DEF IsRound
  <2> QED
    BY <2>5
<1> QED
  BY <1>2, <1>3

(* getRoundElement returns an index, n itself as long as it is one. *)
LEMMA RoundIs ==
  ASSUME NEW n \in Nat, NEW l \in Nat \ {0}
  PROVE  Round(n, l) \in 0..(l - 1) /\ (n < l => Round(n, l) = n)
<1> DEFINE rest == CHOOSE f : IsRound(f, l, n)
<1>1. IsRound(rest, l, n)
  BY RoundExists
<1>2. Round(n, l) = rest[n]
  BY DEF Round, IsRound
<1> HIDE DEF rest
<1>3. \A k \in 0..n : rest[k] = IF k >= l THEN rest[k - l] ELSE k
  BY <1>1 DEF IsRound
<1> DEFINE T == {k \in 0..n : rest[k] \notin 0..(l - 1)}
<1>4. ASSUME T # {} PROVE FALSE
  <2>1. PICK m \in T : \A k \in T : m <= k
    <3>1. T \in SUBSET Nat
      OBVIOUS
    <3> HIDE DEF T
    <3> QED
      BY <1>4, <3>1, LeastNatural
  <2>2. m >= l
    BY <1>3, <2>1
  <2>3. m - l \in 0..n /\ m - l < m
    BY <2>2
  <2>4. rest[m] = rest[m - l] /\ m - l \notin T
    BY <1>3, <2>1, <2>2, <2>3
  <2> QED
    BY <2>1, <2>3, <2>4
<1>5. rest[n] \in 0..(l - 1)
  BY <1>4
<1> QED
  BY <1>2, <1>3, <1>5

-----------------------------------------------------------------------------
(* What an answer is made of. *)

Resolver(dns) ==
  /\ dns.answer \in Seq(Range(dns.answer))
  /\ \A rr \in Range(dns.answer) :
       /\ rr.owner \in Domain /\ rr.pref \in Nat /\ rr.value # NoServer
       /\ rr.type = "CNAME" => rr.value \in Domain

LEMMA Resolvers ==
  ASSUME AnswersAssumption, NEW d \in Domain, NEW dns \in Answers[d] PROVE Resolver(dns)
  BY DEF AnswersAssumption, Resolver

LEMMA Places ==
  ASSUME NEW dns, Resolver(dns), NEW name, NEW type
  PROVE  /\ OfType(name, dns, type) \in SUBSET (1..Len(dns.answer))
         /\ Len(dns.answer) \in Nat
         /\ IsFiniteSet(OfType(name, dns, type))
         /\ Cardinality(OfType(name, dns, type)) \in Nat
         /\ \A i \in OfType(name, dns, type) :
              LET rr == dns.answer[i] IN
              /\ rr \in AllRecords(dns) /\ rr.type = type
              /\ Folded[rr.owner] = Folded[name]
<1>1. DOMAIN dns.answer = 1..Len(dns.answer) /\ Len(dns.answer) \in Nat
  BY DEF Resolver
<1>2. IsFiniteSet(1..Len(dns.answer))
  BY <1>1, FS_Interval
<1>3. OfType(name, dns, type) \in SUBSET (1..Len(dns.answer))
  BY <1>1 DEF OfType, Matching
<1>4. IsFiniteSet(OfType(name, dns, type)) /\ Cardinality(OfType(name, dns, type)) \in Nat
  BY <1>2, <1>3, FS_Subset, FS_CardinalityType
<1>5. ASSUME NEW i \in OfType(name, dns, type)
      PROVE  /\ dns.answer[i] \in AllRecords(dns) /\ dns.answer[i].type = type
             /\ Folded[dns.answer[i].owner] = Folded[name]
  BY DEF OfType, Matching, AllRecords, Range, equalASCIILabel
<1> QED
  BY <1>1, <1>3, <1>4, <1>5

(* A set of names that follows the aliases has, with a name that a         *)
(* redirection comes to, every spelling of it.                             *)
AllSpellings(m, names) == m \in Domain /\ \A n \in Domain : Folded[n] = Folded[m] => n \in names

LEMMA RedirectReachable ==
  ASSUME NEW d \in Domain, NEW dns, Resolver(dns), NEW names \in SUBSET Domain,
         Follows(names, d, dns), NEW m, AllSpellings(m, names)
  PROVE  AllSpellings(Redirect(m, dns), names)
<1>1. CASE Aliases(m, dns) = {}
  BY <1>1 DEF Redirect
<1>2. CASE Aliases(m, dns) # {}
  <2> DEFINE A == Aliases(m, dns)
             rr == dns.answer[Min(A)]
  <2>1. A \in SUBSET Nat
    BY Places DEF Aliases
  <2>2. Min(A) \in A
    <3> HIDE DEF A
    <3>1. \E x \in A : \A y \in A : x <= y
      BY <1>2, <2>1, LeastNatural DEF A
    <3> QED
      BY <3>1 DEF Min
  <2>3. rr \in AllRecords(dns) /\ rr.type = "CNAME" /\ Folded[rr.owner] = Folded[m]
    BY <2>2, Places DEF Aliases
  <2>4. rr \in AliasRecords(dns) /\ rr.value \in Domain
    BY <2>3 DEF AliasRecords, AllRecords, Resolver
  <2>5. m \in names
    BY DEF AllSpellings
  <2> HIDE DEF rr
  <2>6. AllSpellings(rr.value, names)
    BY <2>3, <2>4, <2>5 DEF Follows, AllSpellings
  <2> QED
    BY <1>2, <2>6 DEF Redirect, rr
<1> QED
  BY <1>1, <1>2

LEMMA RedirectedReachable ==
  ASSUME NEW d \in Domain, NEW dns, Resolver(dns), NEW names \in SUBSET Domain,
         Follows(names, d, dns), NEW k \in Nat, NEW c \in Domain, Folded[c] = Folded[d]
  PROVE  AllSpellings(Redirected(c, dns, k), names)
<1>1. PICK f : IsRedirection(f, c, dns, k) /\ Redirected(c, dns, k) = f[k]
  BY RedirectedIs
<1>2. \A j \in 0..k : f[j] = IF j = 0 THEN c ELSE Redirect(f[j - 1], dns)
  BY <1>1 DEF IsRedirection
<1> DEFINE T == {j \in 0..k : ~AllSpellings(f[j], names)}
<1>3. ASSUME T # {} PROVE FALSE
  <2>1. PICK m \in T : \A j \in T : m <= j
    <3>1. T \in SUBSET Nat
      OBVIOUS
    <3> HIDE DEF T
    <3> QED
      BY <1>3, <3>1, LeastNatural
  <2>2. AllSpellings(c, names)
    BY DEF Follows, AllSpellings
  <2>3. m # 0
    BY <1>2, <2>1, <2>2
  <2>4. m - 1 \in 0..k /\ m - 1 \notin T
    BY <2>1, <2>3
  <2>5. AllSpellings(f[m - 1], names) /\ f[m] = Redirect(f[m - 1], dns)
    BY <1>2, <2>1, <2>3, <2>4
  <2>6. AllSpellings(f[m], names)
    BY <2>5, RedirectReachable
  <2> QED
    BY <2>1, <2>6
<1> QED
  BY <1>1, <1>3

(* The records of an answer lead to exchangers of the domain. *)
LEMMA AnswerIs ==
  ASSUME NEW d \in Domain, NEW c \in Domain, Folded[c] = Folded[d],
         NEW dns \in Answers[Folded[d]], Resolver(dns), NEW i \in answer(c, dns)
  PROVE  HostOf(dns.answer[i].value) \in Exchangers[d]
<1> DEFINE last == Redirected(c, dns, MaxRedirects - 1)
<1>r. PICK rr : rr = dns.answer[i]
  OBVIOUS
<1>1. Aliases(last, dns) = {} /\ i \in OfType(last, dns, "MX")
  BY DEF answer
<1>2. MaxRedirects - 1 \in Nat
  BY DEF MaxRedirects
<1>4. \A names \in SUBSET Domain : Follows(names, d, dns) => AllSpellings(last, names)
  BY <1>2, RedirectedReachable
<1> HIDE DEF last
<1>5. rr \in AllRecords(dns) /\ rr.type = "MX" /\ Folded[rr.owner] = Folded[last]
  BY <1>r, <1>1, Places
<1>6. rr.owner \in Domain
  BY <1>5 DEF AllRecords, Resolver
<1>7. rr.owner \in Reachable(d, dns)
  BY <1>4, <1>5, <1>6 DEF Reachable, AllSpellings
<1>8. ASSUME NEW alias \in AliasRecords(dns), Folded[alias.owner] = Folded[rr.owner] PROVE FALSE
  <2>1. PICK j \in DOMAIN dns.answer : dns.answer[j] = alias
    BY DEF AliasRecords, AllRecords, Range
  <2>2. j \in Aliases(last, dns)
    BY <1>5, <1>8, <2>1 DEF AliasRecords, AllRecords, Aliases, OfType, Matching, equalASCIILabel
  <2> QED
    BY <1>1, <2>2
<1> DEFINE Of(z) == {r \in AllRecords(z) :
                       /\ r.type = "MX" /\ r.owner \in Reachable(d, z)
                       /\ ~\E alias \in AliasRecords(z) : Folded[alias.owner] = Folded[r.owner]}
<1>9. rr \in Of(dns)
  BY <1>5, <1>7, <1>8
<1> HIDE DEF Of
<1>10. HostOf(rr.value) \in {HostOf(r.value) : r \in UNION {Of(z) : z \in Answers[Folded[d]]}}
  BY <1>9
<1> QED
  BY <1>r, <1>10 DEF Exchangers, Of

-----------------------------------------------------------------------------
(* byPref.sort *)

(* A sorted order takes every record once. *)
LEMMA OrderIs ==
  ASSUME NEW dns, NEW R, IsFiniteSet(R), NEW hosts \in byPref(R, dns)
  PROVE  /\ Cardinality(R) \in Nat /\ Len(hosts) = Cardinality(R)
         /\ hosts \in Bijection(1..Cardinality(R), R)
<1>1. Cardinality(R) \in Nat
  BY FS_CardinalityType
<1>2. hosts \in [1..Cardinality(R) -> R] /\ IsInjective(hosts)
  BY DEF byPref
<1>3. hosts \in Injection(1..Cardinality(R), R)
  BY <1>2 DEF Injection, IsInjective
<1>4. IsFiniteSet(1..Cardinality(R)) /\ Cardinality(1..Cardinality(R)) = Cardinality(R)
  <2>1. ASSUME NEW n \in Nat PROVE IsFiniteSet(1..n) /\ Cardinality(1..n) = n
    <3>1. IsFiniteSet(1..n) /\ Cardinality(1..n) = IF 1 > n THEN 0 ELSE n - 1 + 1
      BY FS_Interval
    <3> QED
      BY <3>1
  <2> QED
    BY <1>1, <2>1
<1>5. hosts \in Surjection(1..Cardinality(R), R)
  BY <1>3, <1>4, FS_Injection
<1> QED
  BY <1>1, <1>2, <1>3, <1>5 DEF Bijection

(* In every order the records of a preference below q come first.          *)
LEMMA LowerFirst ==
  ASSUME NEW dns, NEW R, IsFiniteSet(R), NEW hosts \in byPref(R, dns),
         \A j \in R : dns.answer[j].pref \in Nat, NEW q \in Nat
  PROVE  /\ Cardinality(Before(q, R, dns)) \in 0..Cardinality(R)
         /\ \A k \in 1..Cardinality(R) :
              /\ hosts[k] \in R
              /\ dns.answer[hosts[k]].pref < q <=> k <= Cardinality(Before(q, R, dns))
<1> DEFINE Pref(j) == dns.answer[j].pref
           n == Cardinality(R)
           Low == {j \in R : Pref(j) < q}
           J == {j \in 1..n : Pref(hosts[j]) < q}
           T == {j \in 1..(n + 1) : j \notin J}
<1>1. n \in Nat /\ hosts \in Bijection(1..n, R)
  BY OrderIs
<1>2. \A j, k \in 1..n : j < k => Pref(hosts[j]) <= Pref(hosts[k])
  BY <1>1 DEF byPref, Bijection, Injection
<1>3. \A j \in R : Pref(j) \in Nat
  OBVIOUS
<1> HIDE DEF n, Pref
<1>4. hosts \in [1..n -> R] /\ \A j \in R : \E k \in 1..n : hosts[k] = j
  BY <1>1 DEF Bijection, Injection, Surjection
<1>5. PICK m \in T : \A j \in T : m <= j
  <2>1. T \in SUBSET Nat /\ n + 1 \in T
    BY <1>1
  <2> HIDE DEF T
  <2> QED
    BY <2>1, LeastNatural
<1>6. J = 1..(m - 1)
  <2>1. ASSUME NEW j \in J PROVE j < m
    <3>1. j \in 1..n /\ m \in 1..(n + 1)
      BY <1>5
    <3>2. CASE m < j
      <4>1. Pref(hosts[m]) <= Pref(hosts[j]) /\ m \in 1..n
        BY <1>1, <1>2, <3>1, <3>2
      <4>2. Pref(hosts[m]) < q
        BY <1>3, <1>4, <2>1, <4>1
      <4> QED
        BY <1>5, <4>1, <4>2
    <3>3. m # j
      BY <1>5
    <3> QED
      BY <1>1, <3>1, <3>2, <3>3
  <2>2. ASSUME NEW j \in 1..(m - 1) PROVE j \in J
    BY <1>1, <1>5
  <2>3. J \in SUBSET (1..n) /\ m \in 1..(n + 1)
    BY <1>5
  <2> HIDE DEF J
  <2>4. J \subseteq 1..(m - 1)
    BY <1>1, <2>1, <2>3
  <2>5. 1..(m - 1) \subseteq J
    BY <2>2
  <2> QED
    BY <2>4, <2>5
<1>7. Cardinality(Low) = m - 1 /\ m - 1 \in Nat
  <2> DEFINE f == [j \in J |-> hosts[j]]
  <2>1. f \in Bijection(J, Low)
    <3>1. f \in Injection(J, Low)
      BY <1>1, <1>4 DEF Bijection, Injection, IsInjective
    <3>2. f \in Surjection(J, Low)
      <4>1. ASSUME NEW j \in Low PROVE \E k \in J : f[k] = j
        BY <1>4
      <4> QED
        BY <1>4, <4>1 DEF Surjection
    <3> QED
      BY <3>1, <3>2 DEF Bijection
  <2>2. m - 1 \in Nat
    BY <1>1, <1>5
  <2>3. ASSUME NEW k \in Nat PROVE IsFiniteSet(1..k) /\ Cardinality(1..k) = k
    <3>1. IsFiniteSet(1..k) /\ Cardinality(1..k) = IF 1 > k THEN 0 ELSE k - 1 + 1
      BY FS_Interval
    <3> QED
      BY <3>1
  <2>4. IsFiniteSet(J) /\ Cardinality(J) = m - 1
    BY <1>6, <2>2, <2>3
  <2>5. ExistsBijection(J, Low)
    BY <2>1 DEF ExistsBijection
  <2> HIDE DEF J, Low
  <2> QED
    BY <2>2, <2>4, <2>5, FS_Bijection
<1>8. Cardinality(Before(q, R, dns)) = m - 1
  BY <1>7 DEF Pref, Before
<1>9. m - 1 \in 0..n
  BY <1>1, <1>5, <1>7
<1>10. \A k \in 1..n : hosts[k] \in R /\ (Pref(hosts[k]) < q <=> k \in J)
  BY <1>4
<1>11. \A k \in 1..n : k \in J <=> k <= m - 1
  BY <1>1, <1>6, <1>9
<1> HIDE DEF J
<1> QED
  BY <1>8, <1>9, <1>10, <1>11 DEF n, Pref

(* There are no more turns than records.                                   *)
LEMMA TurnIndex ==
  ASSUME NEW dns, NEW R, IsFiniteSet(R), NEW p \in Nat, NEW c \in Turns(p, R, dns)
  PROVE  c \in Nat /\ c < Cardinality(R)
<1>1. PICK q \in Nat : q = p + 1
  OBVIOUS
<1>2. Before(p, R, dns) \in SUBSET R /\ Before(q, R, dns) \in SUBSET R
  BY DEF Before
<1>3. /\ Cardinality(Before(p, R, dns)) \in Nat
      /\ Cardinality(Before(q, R, dns)) \in Nat
      /\ Cardinality(Before(q, R, dns)) <= Cardinality(R)
      /\ Cardinality(R) \in Nat
  BY <1>2, FS_Subset, FS_CardinalityType
<1>4. c \in Cardinality(Before(p, R, dns)) .. (Cardinality(Before(q, R, dns)) - 1)
  BY <1>1 DEF Turns
<1> QED
  BY <1>3, <1>4

(* An attempt whose turn it is finds a record of that preference: equal    *)
(* preferences alone may change places.                                    *)
LEMMA TurnFinds ==
  ASSUME NEW dns, NEW R, IsFiniteSet(R), NEW hosts \in byPref(R, dns),
         \A j \in R : dns.answer[j].pref \in Nat, NEW p \in Nat,
         NEW c \in Turns(p, R, dns)
  PROVE  /\ c \in Nat /\ c < Cardinality(R)
         /\ hosts[c + 1] \in R
         /\ dns.answer[hosts[c + 1]].pref = p
<1>1. PICK n \in Nat : n = Cardinality(R)
  BY FS_CardinalityType
<1>2. PICK low \in 0..n : /\ low = Cardinality(Before(p, R, dns))
                         /\ \A k \in 1..n : dns.answer[hosts[k]].pref < p <=> k <= low
  BY <1>1, LowerFirst
<1>3. PICK q \in Nat : q = p + 1
  OBVIOUS
<1>4. PICK high \in 0..n : /\ high = Cardinality(Before(q, R, dns))
                          /\ \A k \in 1..n : /\ hosts[k] \in R
                                            /\ dns.answer[hosts[k]].pref < q <=> k <= high
  BY <1>1, LowerFirst
<1>5. c \in low..(high - 1)
  BY <1>2, <1>3, <1>4 DEF Turns
<1>6. c \in Nat /\ c < n /\ c + 1 \in 1..n /\ ~(c + 1 <= low) /\ c + 1 <= high
  BY <1>1, <1>2, <1>4, <1>5
<1>7. PICK h \in R : h = hosts[c + 1]
  BY <1>4, <1>6
<1>8. dns.answer[h].pref \in Nat /\ dns.answer[h].pref < q /\ ~(dns.answer[h].pref < p)
  BY <1>2, <1>4, <1>6, <1>7
<1> QED
  BY <1>1, <1>3, <1>6, <1>7, <1>8

(* Names that differ in the case of letters have the same answer. *)
LEMMA SpellingsAgree ==
  ASSUME NEW m, NEW n, Folded[m] = Folded[n], NEW dns
  PROVE  answer(m, dns) = answer(n, dns)
<1>1. \A x, y, type : Folded[x] = Folded[y] => OfType(x, dns, type) = OfType(y, dns, type)
  BY DEF OfType, Matching, equalASCIILabel
<1>2. \A x, y : Folded[x] = Folded[y] => Folded[Redirect(x, dns)] = Folded[Redirect(y, dns)]
  BY <1>1 DEF Redirect, Aliases
<1>3. PICK k \in Nat : k = MaxRedirects - 1
  BY DEF MaxRedirects
<1>4. PICK f : IsRedirection(f, m, dns, k) /\ Redirected(m, dns, k) = f[k]
  BY RedirectedIs
<1>5. PICK g : IsRedirection(g, n, dns, k) /\ Redirected(n, dns, k) = g[k]
  BY RedirectedIs
<1> DEFINE T == {j \in 0..k : Folded[f[j]] # Folded[g[j]]}
<1>6. ASSUME T # {} PROVE FALSE
  <2>1. PICK i \in T : \A j \in T : i <= j
    <3>1. T \in SUBSET Nat
      OBVIOUS
    <3> HIDE DEF T
    <3> QED
      BY <1>6, <3>1, LeastNatural
  <2>2. \A j \in 0..k : /\ f[j] = IF j = 0 THEN m ELSE Redirect(f[j - 1], dns)
                        /\ g[j] = IF j = 0 THEN n ELSE Redirect(g[j - 1], dns)
    BY <1>4, <1>5 DEF IsRedirection
  <2>3. i # 0
    BY <2>1, <2>2
  <2>4. i - 1 \in 0..k /\ i - 1 \notin T
    BY <2>1, <2>3
  <2>5. Folded[f[i - 1]] = Folded[g[i - 1]]
    BY <2>4
  <2>6. f[i] = Redirect(f[i - 1], dns) /\ g[i] = Redirect(g[i - 1], dns)
    BY <2>1, <2>2, <2>3
  <2> QED
    BY <1>2, <2>1, <2>5, <2>6
<1>7. k \in 0..k
  OBVIOUS
<1>8. Folded[Redirected(m, dns, k)] = Folded[Redirected(n, dns, k)]
  BY <1>4, <1>5, <1>6, <1>7
<1> QED
  BY <1>1, <1>3, <1>8 DEF answer, Aliases

LEMMA AnswerFinite ==
  ASSUME NEW dns, Resolver(dns), NEW name
  PROVE  /\ IsFiniteSet(answer(name, dns))
         /\ \A i \in answer(name, dns) :
              /\ dns.answer[i].pref \in Nat /\ dns.answer[i].value # NoServer
<1>1. IsFiniteSet({})
  BY FS_EmptySet
<1>2. IsFiniteSet(answer(name, dns))
  BY <1>1, Places DEF answer
<1>3. ASSUME NEW i \in answer(name, dns)
      PROVE  dns.answer[i].pref \in Nat /\ dns.answer[i].value # NoServer
  <2>1. i \in OfType(Redirected(name, dns, MaxRedirects - 1), dns, "MX")
    BY DEF answer
  <2>2. dns.answer[i] \in AllRecords(dns)
    BY <2>1, Places
  <2> QED
    BY <2>2 DEF AllRecords, Resolver
<1> QED
  BY <1>2, <1>3

-----------------------------------------------------------------------------
(* lookupMailServer *)

(* What the k-th attempt to send makes of one order of the records. *)
Choice(hosts, dns, k) == ServerOf(dns.answer[RoundElement(hosts, k)].value)

(* The selected record is one of the answer, of which it is the k-th of the *)
(* order as long as there are so many.                                      *)
LEMMA RoundElementIs ==
  ASSUME NEW dns, NEW R, IsFiniteSet(R), R # {}, NEW hosts \in byPref(R, dns), NEW k \in Nat
  PROVE  /\ RoundElement(hosts, k) \in R
         /\ k < Cardinality(R) => RoundElement(hosts, k) = hosts[k + 1]
<1>1. PICK n \in Nat : n = Cardinality(R) /\ Len(hosts) = n /\ hosts \in Bijection(1..n, R)
  BY OrderIs
<1>2. n # 0
  BY <1>1, FS_EmptySet
<1>3. Round(k, n) \in 0..(n - 1) /\ (k < n => Round(k, n) = k)
  BY <1>2, RoundIs
<1>4. hosts \in [1..n -> R] /\ Round(k, n) + 1 \in 1..n
  BY <1>1, <1>3 DEF Bijection, Injection
<1> QED
  BY <1>1, <1>3, <1>4 DEF RoundElement

Chosen(server, c, k) ==
  \E dns \in Answers[Folded[c]] :
     answer(c, dns) # {} =>
       \E hosts \in byPref(answer(c, dns), dns) : server = Choice(hosts, dns, k)

(* A server that a lookup returned is not this host, and is the host of a  *)
(* record of the domain.                                                   *)
LEMMA LookupIs ==
  ASSUME RoutingAssumption, AnswersAssumption,
         NEW c \in Domain, NEW k \in Nat, NEW server \in Lookups(c, k)
  PROVE  /\ server # NoServer =>
              /\ server \notin LocalNames /\ c \notin LocalNames
              /\ \A d \in Domain : Folded[d] = Folded[c] => server \in Exchangers[d]
         /\ c \notin LocalNames => Chosen(server, c, k)
<1>1. c \in LocalNames => server = NoServer
  BY DEF Lookups
<1>2. CASE c \notin LocalNames
  <2> DEFINE Of(dns) == LET mxList == answer(c, dns) IN
               IF mxList = {} THEN {NoServer}
               ELSE {ServerOf(dns.answer[RoundElement(hosts, k)].value) :
                       hosts \in byPref(mxList, dns)}
  <2>1. PICK dns \in Answers[Folded[c]] : server \in Of(dns)
    BY <1>2 DEF Lookups
  <2>2. Folded[c] \in Domain
    BY DEF RoutingAssumption
  <2>3. Resolver(dns)
    BY <2>2, Resolvers
  <2>4. CASE answer(c, dns) = {}
    BY <1>2, <2>1, <2>4 DEF Chosen
  <2>5. CASE answer(c, dns) # {}
    <3>1. PICK hosts \in byPref(answer(c, dns), dns) : server = Choice(hosts, dns, k)
      BY <2>1, <2>5 DEF Choice
    <3>2. IsFiniteSet(answer(c, dns))
      BY <2>3, AnswerFinite
    <3>3. PICK i \in answer(c, dns) : i = RoundElement(hosts, k)
      BY <2>5, <3>2, RoundElementIs
    <3>4. \A d \in Domain : Folded[d] = Folded[c] => HostOf(dns.answer[i].value) \in Exchangers[d]
      BY <2>3, AnswerIs
    <3>5. server # NoServer => server \notin LocalNames /\ server = HostOf(dns.answer[i].value)
      BY <3>1, <3>3 DEF Choice, ServerOf
    <3> QED
      BY <1>2, <3>1, <3>4, <3>5 DEF Chosen
  <2> QED
    BY <2>4, <2>5
<1> QED
  BY <1>1, <1>2

-----------------------------------------------------------------------------
(* The invariant *)

Made == entries \cup pushed

(* Of a domain whose answer never changes every attempt so far, but those  *)
(* whose lookup failed, chose a record by its number, in one order or      *)
(* another: the entry was offered to its server, is aimed at it now, or    *)
(* the record was no server.                                               *)
Tried(e) ==
  \A dns \in Answers[Folded[e.domain]] :
    Answers[Folded[e.domain]] = {dns} /\ answer(e.domain, dns) # {} =>
      \A k \in (0..e.errorCount) \ e.missed : \E hosts \in byPref(answer(e.domain, dns), dns) :
        Choice(hosts, dns, k) \in
          {NoServer} \cup e.offered \cup (IF k = e.errorCount THEN {e.server} ELSE {})

Aimed(e) == AimedElsewhere(e) /\ e.server \in Exchangers[e.domain] /\ Tried(e)

(* An entry is for one of the domains of the message that has been looked  *)
(* up, carries the recipients of that domain, and its server, outside      *)
(* relay mode, is what a lookup returned.                                  *)
IsEntry(e) ==
  e = [domain |-> e.domain, rcpts |-> e.rcpts, server |-> e.server,
       errorCount |-> e.errorCount, offered |-> e.offered, missed |-> e.missed]

WellMade(e) ==
  /\ IsEntry(e)
  /\ e.errorCount \in Nat
  /\ e.domain \in RcptDomains(msg) \ pending
  /\ e.rcpts = RecipientsOf(msg, e.domain)
  /\ ~RelayModeEnabled => Aimed(e)

EntriesInv ==
  /\ \A e \in Made : WellMade(e)
  /\ \A e, f \in Made : e.domain = f.domain => e = f

(* Every domain is still to be looked up, dropped, or has its entry.       *)
Covered ==
  \A d \in RcptDomains(msg) :
    d \in pending \cup dropped \/ \E e \in Made : e.domain = d

(* What the place of the handler says of the rest of the state: nothing is *)
(* pushed while a lookup may still fail, and nothing is left unlooked at   *)
(* once something was pushed or the message was taken over.                *)
Progress ==
  /\ msg \in Messages
  /\ pc \in {"received", "lookup", "done"}
  /\ pc = "received" => entries = {} /\ dropped = {} /\ pending = {}
  /\ pc # "done" => reply = 0
  /\ pc # "received" /\ pushed # {} => Len(msg) \in 1..MaxRecipients
  /\ pc = "lookup" => Len(msg) \in 1..MaxRecipients /\ Covered
  /\ pending \subseteq RcptDomains(msg)
  /\ pc = "done" => entries = {}
  /\ pc = "done" /\ (reply = 250 \/ pushed # {}) => Covered
  /\ pending # {} => pushed = {} /\ reply # 250
  /\ via = "smtp" => dropped = {}
  /\ reply # 0 => via = "smtp"
  /\ reply \notin {0, 250} => pushed = {}
  /\ pc = "received" => pushed = {}

Inv == EntriesInv /\ Progress

-----------------------------------------------------------------------------
LEMMA InitInv == Init => Inv
  BY DEF Init, Inv, EntriesInv, Progress, Made

(* A message that is refused leaves no entry; nothing of it was pushed.     *)
LEMMA RefuseInv ==
  ASSUME Inv, NEW code \in Nat \ {0, 250}, Refuse(code), pushed = {}
  PROVE  Inv'
<1>1. Made' = {}
  BY DEF Refuse, Made
<1>2. EntriesInv'
  BY <1>1 DEF EntriesInv
<1>3. reply' # 250 /\ (reply' # 0 => via' = "smtp") /\ pushed' = {}
  BY DEF Refuse
<1>4. Progress'
  BY <1>3 DEF Inv, Progress, Refuse
<1> QED
  BY <1>2, <1>4 DEF Inv

LEMMA ParseMessageInv == ASSUME Inv, ParseMessage PROVE Inv'
<1>1. Made' = {} /\ pushed' = {}
  BY DEF ParseMessage, Inv, Progress, Made
<1>2. EntriesInv'
  BY <1>1 DEF EntriesInv
<1>3. Covered'
  BY DEF ParseMessage, Covered
<1>4. Progress'
  BY <1>1, <1>3 DEF Inv, Progress, ParseMessage
<1> QED
  BY <1>2, <1>4 DEF Inv

(* What a first lookup returned is where the entry may go. *)
LEMMA FirstAim ==
  ASSUME RoutingAssumption, AnswersAssumption, NEW d \in Domain,
         NEW server \in Lookups(Folded[d], 0) \ {NoServer},
         NEW e, e.domain = d, e.server = server, e.errorCount = 0, e.missed = {}
  PROVE  Aimed(e)
<1>1. Folded[d] \in Domain /\ Folded[Folded[d]] = Folded[d]
  BY DEF RoutingAssumption
<1>2. AimedElsewhere(e) /\ server \in Exchangers[d]
  BY <1>1, LookupIs DEF AimedElsewhere
<1>k. PICK k \in Nat : k = 0
  OBVIOUS
<1>z. Folded[d] \notin LocalNames
  BY <1>2 DEF AimedElsewhere
<1>3. PICK dns \in Answers[Folded[d]] :
        answer(Folded[d], dns) # {} =>
          \E hosts \in byPref(answer(Folded[d], dns), dns) : server = Choice(hosts, dns, 0)
  <2>1. PICK c \in Domain : c = Folded[d] /\ Folded[c] = c
    BY <1>1
  <2>2. server \in Lookups(c, k) /\ c \notin LocalNames
    BY <1>k, <1>z, <2>1
  <2>3. Chosen(server, c, k)
    BY <2>2, LookupIs
  <2> QED
    BY <1>k, <2>1, <2>3 DEF Chosen
<1>4. answer(Folded[d], dns) = answer(d, dns)
  BY <1>1, SpellingsAgree
<1>5. Tried(e)
  <2>1. 0..0 = {0}
    OBVIOUS
  <2> QED
    BY <1>3, <1>4, <2>1 DEF Tried
<1> QED
  BY <1>2, <1>5 DEF Aimed

(* A later lookup keeps the entry aimed, and the server it had was offered *)
(* the message.                                                            *)
LEMMA NextAim ==
  ASSUME RoutingAssumption, AnswersAssumption, NEW e, e.domain \in Domain, e.errorCount \in Nat,
         Aimed(e), NEW s \in Lookups(e.domain, e.errorCount + 1) \cup {NoServer},
         NEW f, f.domain = e.domain, f.errorCount = e.errorCount + 1,
         f.offered = e.offered \cup {e.server},
         f.server = IF s = NoServer THEN e.server ELSE s,
         f.missed = IF s = NoServer THEN e.missed \cup {e.errorCount + 1} ELSE e.missed
  PROVE  Aimed(f)
<1>d. PICK d \in Domain : d = e.domain
  OBVIOUS
<1>1. d \notin LocalNames /\ Folded[d] \notin LocalNames
  BY <1>d DEF Aimed, AimedElsewhere, RoutingAssumption
<1>k. PICK k \in Nat : k = e.errorCount + 1
  OBVIOUS
<1>s. s # NoServer => s \in Lookups(d, k)
  BY <1>d, <1>k
<1>2. s # NoServer => s \notin LocalNames /\ s \in Exchangers[d]
  BY <1>s, LookupIs
<1>3. AimedElsewhere(f) /\ f.server \in Exchangers[d]
  BY <1>1, <1>2, <1>d DEF Aimed, AimedElsewhere
<1>4. s # NoServer => Chosen(s, d, k)
  BY <1>1, <1>s, LookupIs
<1>5. Tried(f)
  <2> SUFFICES ASSUME NEW dns \in Answers[Folded[d]], Answers[Folded[d]] = {dns},
                      answer(d, dns) # {}, NEW j \in (0..k) \ f.missed
               PROVE  \E hosts \in byPref(answer(d, dns), dns) :
                        Choice(hosts, dns, j) \in
                          {NoServer} \cup f.offered \cup (IF j = k THEN {f.server} ELSE {})
    BY <1>d, <1>k DEF Tried
  <2>1. CASE j = k
    <3>1. s # NoServer /\ f.server = s
      BY <1>k, <2>1
    <3> QED
      BY <1>4, <2>1, <3>1 DEF Chosen
  <2>2. CASE j # k
    <3>1. j \in (0..e.errorCount) \ e.missed
      BY <1>k, <2>2
    <3>2. PICK hosts \in byPref(answer(d, dns), dns) :
            Choice(hosts, dns, j) \in
              {NoServer} \cup e.offered \cup (IF j = e.errorCount THEN {e.server} ELSE {})
      BY <1>d, <3>1 DEF Aimed, Tried
    <3> QED
      BY <3>2
  <2> QED
    BY <2>1, <2>2
<1> QED
  BY <1>3, <1>5, <1>d DEF Aimed

LEMMA LookupOkInv == ASSUME RoutingAssumption, AnswersAssumption, Inv, NEW d \in Domain, LookupOk(d) PROVE Inv'
<1>1. PICK server \in Lookups(Folded[d], 0) \ {NoServer} :
        entries' = entries \cup {Entry(d, server)}
  BY DEF LookupOk
<1>e. PICK e : e = Entry(d, server)
  OBVIOUS
<1>2. Made' = Made \cup {e} /\ pushed = {} /\ d \in pending
  BY <1>1, <1>e DEF LookupOk, Made, Inv, Progress
<1>3. /\ IsEntry(e) /\ e.domain = d /\ e.rcpts = RecipientsOf(msg, d)
      /\ e.errorCount = 0 /\ e.missed = {}
      /\ ~RelayModeEnabled => e.server = server
  BY <1>e DEF Entry, IsEntry
<1>4. ~RelayModeEnabled => Aimed(e)
  BY <1>1, <1>3, FirstAim
<1>5. d \in RcptDomains(msg) \ pending'
  BY <1>2 DEF LookupOk, Inv, Progress
<1>6. EntriesInv'
  <2>1. WellMade(e)'
    BY <1>3, <1>4, <1>5 DEF WellMade, LookupOk, RecipientsOf
  <2>2. \A f \in Made : WellMade(f)' /\ f.domain # d
    BY <1>2 DEF Inv, EntriesInv, WellMade, LookupOk, RecipientsOf
  <2> QED
    BY <1>2, <1>3, <2>1, <2>2 DEF Inv, EntriesInv
<1>7. Covered'
  <2>1. Covered
    BY DEF Inv, Progress, LookupOk
  <2> QED
    BY <1>2, <1>3, <2>1 DEF Covered, LookupOk
<1> QED
  BY <1>2, <1>6, <1>7 DEF Inv, Progress, LookupOk

LEMMA LookupFailInv == ASSUME Inv, NEW d \in Domain, LookupFail(d) PROVE Inv'
<1>1. pushed = {} /\ pc = "lookup" /\ Covered
  BY DEF Inv, Progress, LookupFail
<1>2. CASE Refuse(554)
  BY <1>1, <1>2, RefuseInv
<1>3. CASE ~Refuse(554)
  <2>1. /\ Made' = Made /\ via = "tcp" /\ pending' = pending \ {d}
        /\ dropped' = dropped \cup {d}
    BY <1>3 DEF LookupFail, Made
  <2>2. EntriesInv'
    BY <1>3, <2>1 DEF Inv, EntriesInv, WellMade, LookupFail, RecipientsOf
  <2>3. Covered'
    BY <1>1, <1>3, <2>1 DEF Covered, LookupFail
  <2> QED
    BY <1>1, <1>3, <2>1, <2>2, <2>3 DEF Inv, Progress, LookupFail
<1> QED
  BY <1>2, <1>3

LEMMA PushMailInv == ASSUME Inv, NEW e \in entries, PushMail(e) PROVE Inv'
<1>1. Made' = Made
  BY DEF PushMail, Made
<1>2. EntriesInv'
  BY <1>1 DEF Inv, EntriesInv, WellMade, PushMail, RecipientsOf
<1>3. Covered'
  BY <1>1 DEF Inv, Progress, Covered, PushMail
<1> QED
  BY <1>2, <1>3 DEF Inv, Progress, PushMail

LEMMA ReturnInv == ASSUME Inv, Return PROVE Inv'
<1>1. Made' = Made
  BY DEF Return, Made
<1>2. EntriesInv'
  BY <1>1 DEF Inv, EntriesInv, WellMade, Return, RecipientsOf
<1>3. Covered'
  BY <1>1 DEF Inv, Progress, Covered, Return
<1> QED
  BY <1>2, <1>3 DEF Inv, Progress, Return

LEMMA AgainIs ==
  ASSUME NEW e, IsEntry(e), NEW n, NEW s
  PROVE  Again(e, n, s) =
           [domain |-> e.domain, rcpts |-> e.rcpts,
            server |-> IF s = NoServer THEN e.server ELSE s,
            errorCount |-> n, offered |-> e.offered \cup {e.server},
            missed |-> IF s = NoServer THEN e.missed \cup {n} ELSE e.missed]
<1>1. PICK d, r, z, k, o, m :
        e = [domain |-> d, rcpts |-> r, server |-> z, errorCount |-> k, offered |-> o,
             missed |-> m]
  BY DEF IsEntry
<1>2. e.domain = d /\ e.rcpts = r /\ e.server = z /\ e.offered = o /\ e.missed = m
  BY <1>1
<1>3. PICK p, t, w : /\ p = o \cup {z} /\ t = (IF s = NoServer THEN z ELSE s)
                     /\ w = (IF s = NoServer THEN m \cup {n} ELSE m)
  OBVIOUS
<1> DEFINE e1 == [e EXCEPT !.errorCount = n]
           e2 == [e1 EXCEPT !.offered = p]
           e3 == [e2 EXCEPT !.server = t]
           e4 == [e3 EXCEPT !.missed = w]
<1>4. e1 = [domain |-> d, rcpts |-> r, server |-> z, errorCount |-> n, offered |-> o,
            missed |-> m]
  BY <1>1
<1> HIDE DEF e1
<1>5. e2 = [domain |-> d, rcpts |-> r, server |-> z, errorCount |-> n, offered |-> p,
            missed |-> m]
  BY <1>4
<1> HIDE DEF e2
<1>6. e3 = [domain |-> d, rcpts |-> r, server |-> t, errorCount |-> n, offered |-> p,
            missed |-> m]
  BY <1>5
<1> HIDE DEF e3
<1>7. e4 = [domain |-> d, rcpts |-> r, server |-> t, errorCount |-> n, offered |-> p,
            missed |-> w]
  BY <1>6
<1>8. Again(e, n, s) = e4
  <2>1. Again(e, n, s) = [e EXCEPT !.errorCount = n, !.offered = p, !.server = t, !.missed = w]
    BY <1>2, <1>3 DEF Again
  <2> QED
    BY <2>1 DEF e1, e2, e3
<1> HIDE DEF e4
<1> QED
  BY <1>2, <1>3, <1>7, <1>8

(* A retry changes the server and the counters of one entry.                *)
LEMMA RetryInv ==
  ASSUME RoutingAssumption, AnswersAssumption, Inv, NEW e \in pushed, Retry(e)
  PROVE  Inv'
<1>1. PICK s \in IF RelayModeEnabled THEN {RelayServer}
                 ELSE Lookups(e.domain, e.errorCount + 1) \cup {NoServer} :
        pushed' = (pushed \ {e}) \cup {Again(e, e.errorCount + 1, s)}
  BY DEF Retry
<1> DEFINE f == Again(e, e.errorCount + 1, s)
<1>2. entries = {} /\ WellMade(e)
  BY DEF Retry, Inv, Progress, EntriesInv, Made
<1>3. /\ IsEntry(f) /\ f.domain = e.domain /\ f.rcpts = e.rcpts
      /\ f.errorCount = e.errorCount + 1 /\ f.offered = e.offered \cup {e.server}
      /\ f.server = IF s = NoServer THEN e.server ELSE s
      /\ f.missed = IF s = NoServer THEN e.missed \cup {e.errorCount + 1} ELSE e.missed
  <2>1. IsEntry(e)
    BY <1>2 DEF WellMade
  <2>2. PICK n, t, w, o : /\ n = e.errorCount + 1 /\ o = e.offered \cup {e.server}
                          /\ t = (IF s = NoServer THEN e.server ELSE s)
                          /\ w = (IF s = NoServer THEN e.missed \cup {n} ELSE e.missed)
    OBVIOUS
  <2>3. Again(e, n, s) = [domain |-> e.domain, rcpts |-> e.rcpts, server |-> t,
                          errorCount |-> n, offered |-> o, missed |-> w]
    BY <2>1, <2>2, AgainIs
  <2>4. f = [domain |-> e.domain, rcpts |-> e.rcpts, server |-> t,
             errorCount |-> n, offered |-> o, missed |-> w]
    BY <2>2, <2>3
  <2> HIDE DEF f
  <2>5. /\ f.domain = e.domain /\ f.rcpts = e.rcpts /\ f.server = t
        /\ f.errorCount = n /\ f.offered = o /\ f.missed = w
    BY <2>4
  <2> QED
    BY <2>2, <2>4, <2>5 DEF IsEntry
<1> HIDE DEF f
<1>4. ~RelayModeEnabled => Aimed(f)
  <2>1. e.domain \in Domain /\ e.errorCount \in Nat
    BY <1>2 DEF WellMade, RcptDomains, Inv, Progress, RoutingAssumption
  <2> QED
    BY <1>1, <1>2, <1>3, <2>1, NextAim DEF WellMade
<1>5. pushed' = (pushed \ {e}) \cup {f} /\ entries' = {}
  BY <1>1, <1>2 DEF f, Retry
<1>6. EntriesInv'
  <2>1. WellMade(f)'
    BY <1>2, <1>3, <1>4 DEF WellMade, Retry, RecipientsOf
  <2>2. \A h \in pushed \ {e} : WellMade(h)' /\ h.domain # e.domain
    BY DEF Inv, EntriesInv, WellMade, Retry, RecipientsOf, Made
  <2> QED
    BY <1>2, <1>3, <1>5, <2>1, <2>2 DEF Inv, EntriesInv, Made
<1>7. Covered'
  <2>1. Covered
    BY DEF Inv, Progress, Retry
  <2> QED
    BY <1>2, <1>3, <1>5, <2>1 DEF Covered, Retry, Made
<1> QED
  BY <1>5, <1>6, <1>7 DEF Inv, Progress, Retry

LEMMA StutterInv == ASSUME Inv, UNCHANGED vars PROVE Inv'
  BY DEF Inv, EntriesInv, Progress, Made, WellMade, RecipientsOf,
         Covered, vars

THEOREM InvariantHolds == Spec => []Inv
<1>1. ASSUME Inv, [Next]_vars PROVE Inv'
  <2>1. CASE ParseError
    BY <1>1, <2>1, RefuseInv DEF ParseError, Inv, Progress
  <2>2. CASE TooManyRecipients
    BY <1>1, <2>2, RefuseInv DEF TooManyRecipients, Inv, Progress
  <2>3. CASE ParseMessage
    BY <1>1, <2>3, ParseMessageInv
  <2>4. ASSUME NEW d \in Domain, LookupOk(d) PROVE Inv'
    BY <1>1, <2>4, LookupOkInv, RoutingAssumption, AnswersAssumption
  <2>5. ASSUME NEW d \in Domain, LookupFail(d) PROVE Inv'
    BY <1>1, <2>5, LookupFailInv
  <2>6. ASSUME NEW e \in entries, PushMail(e) PROVE Inv'
    BY <1>1, <2>6, PushMailInv
  <2>7. ASSUME NEW e \in pushed, Retry(e) PROVE Inv'
    BY <1>1, <2>7, RetryInv, RoutingAssumption, AnswersAssumption
  <2>8. CASE Return
    BY <1>1, <2>8, ReturnInv
  <2>9. CASE UNCHANGED vars
    BY <1>1, <2>9, StutterInv
  <2> QED
    BY <1>1, <2>1, <2>2, <2>3, <2>4, <2>5, <2>6, <2>7, <2>8, <2>9 DEF Next
<1> QED
  BY InitInv, <1>1, PTL DEF Spec

-----------------------------------------------------------------------------
(* What follows from the invariant. *)

LEMMA AllOrNothingFollows == ASSUME RoutingAssumption, Inv PROVE AllOrNothing
<1>1. ASSUME via = "smtp", reply = 250, NEW k \in 1..Len(msg) PROVE Holders(k) # {}
  <2> DEFINE d == DomainOf[msg[k]]
  <2>1. d \in RcptDomains(msg)
    BY DEF RcptDomains
  <2>2. pc = "done" /\ Covered /\ pending = {} /\ dropped = {} /\ entries = {}
    BY <1>1 DEF Inv, Progress
  <2>3. PICK e \in pushed : e.domain = d
    BY <2>1, <2>2 DEF Covered, Made
  <2>4. e.rcpts = RecipientsOf(msg, d)
    BY <2>3 DEF Inv, EntriesInv, Made, WellMade
  <2>5. k \in e.rcpts
    BY <2>4 DEF RecipientsOf
  <2> QED
    BY <2>5 DEF Holders
<1>2. reply \notin {0, 250} => pushed = {}
  BY DEF Inv, Progress
<1> QED
  BY <1>1, <1>2 DEF AllOrNothing

LEMMA RcptDomainsFinite ==
  ASSUME RoutingAssumption, NEW m \in Messages PROVE IsFiniteSet(RcptDomains(m))
<1> DEFINE f == [k \in 1..Len(m) |-> DomainOf[m[k]]]
<1>1. Len(m) \in Nat
  BY DEF RoutingAssumption
<1>2. IsFiniteSet(1..Len(m))
  BY <1>1, FS_Interval
<1>3. f \in Surjection(1..Len(m), RcptDomains(m))
  BY DEF Surjection, RcptDomains
<1> QED
  BY <1>2, <1>3, FS_Surjection

LEMMA OneCopyFollows == ASSUME RoutingAssumption, Inv PROVE OneCopyEach
<1> SUFFICES ASSUME NEW k \in 1..Len(msg)
             PROVE  LET d == DomainOf[msg[k]]
                        spelled == {c \in RcptDomains(msg) : Folded[c] = Folded[d]}
                    IN /\ Cardinality(Holders(k)) <= Cardinality(spelled)
                       /\ pc = "done" /\ pushed # {} /\ Holders(k) = {} => spelled \subseteq dropped
  BY DEF OneCopyEach
<1> DEFINE d == DomainOf[msg[k]]
           spelled == {c \in RcptDomains(msg) : Folded[c] = Folded[d]}
<1>1. \A e \in pushed : WellMade(e) /\ \A f \in pushed : e.domain = f.domain => e = f
  BY DEF Inv, EntriesInv, Made
<1>2. \A e \in pushed : e \in Holders(k) <=> e.domain \in spelled
  <2> TAKE e \in pushed
  <2>1. e.domain \in RcptDomains(msg) /\ e.rcpts = RecipientsOf(msg, e.domain)
    BY <1>1 DEF WellMade
  <2> QED
    BY <2>1 DEF Holders, RecipientsOf
<1>3. Cardinality(Holders(k)) <= Cardinality(spelled)
  <2> DEFINE f == [e \in Holders(k) |-> e.domain]
  <2>1. msg \in Messages
    BY DEF Inv, Progress
  <2>2. IsFiniteSet(RcptDomains(msg))
    BY <2>1, RcptDomainsFinite
  <2>3. IsFiniteSet(spelled)
    <3>1. spelled \in SUBSET RcptDomains(msg)
      OBVIOUS
    <3> QED
      BY <2>2, <3>1, FS_Subset
  <2>4. \A e \in Holders(k) : e \in pushed
    BY DEF Holders
  <2>5. f \in Injection(Holders(k), spelled)
    <3> HIDE DEF spelled
    <3> QED
      BY <1>1, <1>2, <2>4 DEF Injection, IsInjective
  <2> HIDE DEF f, spelled
  <2> QED
    BY <2>3, <2>5, FS_Injection
<1>4. ASSUME pc = "done", pushed # {}, Holders(k) = {} PROVE spelled \subseteq dropped
  <2>1. Covered /\ entries = {} /\ pending = {}
    BY <1>4 DEF Inv, Progress
  <2> QED
    BY <1>2, <1>4, <2>1 DEF Covered, Made
<1> QED
  BY <1>3, <1>4

(* Over SMTP a message is taken over as a whole or refused as a whole:     *)
(* AllOrNothing, whatever its domains and their name servers do.  It says  *)
(* nothing of a message that came over TCP, which loses the domains whose  *)
(* lookup fails and keeps the others.                                      *)
THEOREM TakenAsAWhole == Spec => []AllOrNothing
<1>1. Inv => AllOrNothing
  BY AllOrNothingFollows, RoutingAssumption
<1> QED
  BY InvariantHolds, <1>1, PTL

(* A recipient is in no more entries than the message has spellings of its *)
(* domain, which is one if the message does not mix them, and in none only *)
(* when the lookup failed for each of them: OneCopyEach.                   *)
THEOREM CopiesMatchDomains == Spec => []OneCopyEach
<1>1. Inv => OneCopyEach
  BY OneCopyFollows, RoutingAssumption
<1> QED
  BY InvariantHolds, <1>1, PTL

(* Outside relay mode no entry is aimed at this host by name, at any       *)
(* attempt, and every entry has the recipients of one domain.  The empty   *)
(* host, which the dialer takes for the local system, is not excluded: an  *)
(* entry for a domain that publishes the record "." is aimed at it, and    *)
(* only an entry for such a domain.                                        *)
EmptyHostPublished(d) ==
  \E dns \in Answers[Folded[d]] : \E rr \in AllRecords(dns) :
    rr.type = "MX" /\ HostOf(rr.value) = NoHost

NeverAimedHere ==
  \A e \in pushed :
    /\ OfOneDomain(e)
    /\ ~RelayModeEnabled =>
         /\ AimedElsewhere(e)
         /\ e.server = NoHost => EmptyHostPublished(e.domain)

THEOREM LoopsExcluded == Spec => []NeverAimedHere
<1>1. ASSUME RoutingAssumption, Inv, NEW e \in pushed
      PROVE  /\ OfOneDomain(e)
             /\ ~RelayModeEnabled =>
                  /\ AimedElsewhere(e)
                  /\ e.server = NoHost => EmptyHostPublished(e.domain)
  <2>1. WellMade(e) /\ msg \in Messages
    BY <1>1 DEF Inv, EntriesInv, Progress, Made
  <2>2. Len(msg) \in 1..MaxRecipients \/ pc = "received"
    BY <1>1 DEF Inv, Progress
  <2>3. pc # "received" /\ Len(msg) \in Nat /\ Len(msg) <= MaxRecipients /\ MaxRecipients \in Nat
    BY <1>1, <2>1, <2>2 DEF Inv, Progress, RoutingAssumption
  <2>4. e.rcpts \in SUBSET (1..Len(msg))
    BY <2>1 DEF WellMade, RecipientsOf
  <2>5. ASSUME NEW n \in Nat PROVE IsFiniteSet(1..n) /\ Cardinality(1..n) = n
    <3>1. IsFiniteSet(1..n) /\ Cardinality(1..n) = IF 1 > n THEN 0 ELSE n - 1 + 1
      BY FS_Interval
    <3> QED
      BY <3>1
  <2>6. IsFiniteSet(e.rcpts) /\ Cardinality(e.rcpts) <= Len(msg)
    BY <2>3, <2>4, <2>5, FS_Subset
  <2>7. Cardinality(e.rcpts) <= MaxRecipients
    BY <2>3, <2>6, FS_CardinalityType
  <2>8. e.domain \in Domain
    BY <1>1, <2>1 DEF WellMade, RcptDomains, RoutingAssumption
  <2>9. e.server \in Exchangers[e.domain] /\ e.server = NoHost => EmptyHostPublished(e.domain)
    BY <2>8 DEF Exchangers, EmptyHostPublished
  <2> QED
    BY <2>1, <2>7, <2>9 DEF OfOneDomain, WellMade, Aimed, RecipientsOf
<1>2. Inv => NeverAimedHere
  BY <1>1, RoutingAssumption DEF NeverAimedHere
<1> QED
  BY InvariantHolds, <1>2, PTL

(* An entry is aimed, at every attempt, at a mail exchanger of its domain  *)
(* and never at this host by name: EntriesWellAimed, however the answers   *)
(* are ordered, whichever lookups fail and however long the chains of      *)
(* aliases are.  The empty host of a domain that publishes "." counts as   *)
(* an exchanger of that domain here.                                       *)
THEOREM EntriesAlwaysWellAimed == Spec => []EntriesWellAimed
<1>1. Inv => \A e \in pushed : ~RelayModeEnabled => Aimed(e)
  BY DEF Inv, EntriesInv, WellMade, Made
<1>2. Inv /\ NeverAimedHere => EntriesWellAimed
  BY <1>1 DEF NeverAimedHere, EntriesWellAimed, Aimed
<1> QED
  BY InvariantHolds, LoopsExcluded, <1>2, PTL

LEMMA PreferenceTriedFollows ==
  ASSUME RoutingAssumption, AnswersAssumption, Inv, ~RelayModeEnabled,
         NEW e \in pushed, NEW dns \in Answers[Folded[e.domain]],
         Answers[Folded[e.domain]] = {dns},
         NEW mxList, mxList = answer(e.domain, dns), e.errorCount >= Cardinality(mxList),
         NEW i \in mxList,
         \A j \in mxList : dns.answer[j].pref = dns.answer[i].pref =>
           dns.answer[j].value \notin {EmptyRecord} \cup LocalNames,
         NEW c \in Turns(dns.answer[i].pref, mxList, dns), c \notin e.missed
  PROVE  \E j \in mxList : /\ dns.answer[j].pref = dns.answer[i].pref
                           /\ HostOf(dns.answer[j].value) \in e.offered
<1>1. WellMade(e) /\ Tried(e) /\ e.errorCount \in Nat
  BY DEF Inv, EntriesInv, WellMade, Made, Aimed
<1>2. Folded[e.domain] \in Domain
  BY <1>1 DEF WellMade, RcptDomains, Inv, Progress, RoutingAssumption
<1>3. Resolver(dns)
  BY <1>2, Resolvers
<1>4. /\ IsFiniteSet(mxList) /\ Cardinality(mxList) \in Nat
      /\ \A j \in mxList : dns.answer[j].pref \in Nat /\ dns.answer[j].value # NoServer
  BY <1>3, AnswerFinite, FS_CardinalityType
<1>5. PICK p \in Nat : p = dns.answer[i].pref
  BY <1>4
<1>6. \A hosts \in byPref(mxList, dns) :
        /\ c \in Nat /\ c < Cardinality(mxList)
        /\ hosts[c + 1] \in mxList
        /\ dns.answer[hosts[c + 1]].pref = dns.answer[i].pref
  BY <1>4, <1>5, TurnFinds
<1>7. \A k \in (0..e.errorCount) \ e.missed : \E hosts \in byPref(mxList, dns) :
        Choice(hosts, dns, k) \in
          {NoServer} \cup e.offered \cup (IF k = e.errorCount THEN {e.server} ELSE {})
  BY <1>1 DEF Tried
<1>8. c \in Nat /\ c < Cardinality(mxList)
  BY <1>4, <1>5, TurnIndex
<1>9. c \in (0..e.errorCount) \ e.missed /\ c # e.errorCount
  BY <1>1, <1>4, <1>8
<1>10. PICK hosts \in byPref(mxList, dns) : Choice(hosts, dns, c) \in {NoServer} \cup e.offered
  BY <1>7, <1>9
<1>11. PICK j \in mxList : j = RoundElement(hosts, c) /\ j = hosts[c + 1]
  BY <1>4, <1>8, RoundElementIs
<1>12. dns.answer[j].pref = dns.answer[i].pref
  BY <1>6, <1>11
<1>13. PICK r : r = dns.answer[j].value
  OBVIOUS
<1>14. r # EmptyRecord /\ r \notin LocalNames /\ r # NoServer
  BY <1>4, <1>12, <1>13
<1>15. HostOf(r) \notin LocalNames /\ HostOf(r) # NoServer
  BY <1>14 DEF HostOf, AnswersAssumption
<1>16. Choice(hosts, dns, c) = HostOf(r)
  BY <1>11, <1>13, <1>14, <1>15 DEF Choice, ServerOf
<1>17. HostOf(r) \in e.offered
  BY <1>10, <1>15, <1>16
<1> QED
  BY <1>12, <1>13, <1>17

(* The shuffles lose no preference: whatever orders the attempts see, as   *)
(* many of them as the domain has records have met one record of every     *)
(* preference, but for those all of whose turns fell on failed lookups:    *)
(* EveryPreferenceTried.                                                   *)
THEOREM PreferencesAlwaysTried == Spec => []EveryPreferenceTried
<1>1. ASSUME RoutingAssumption, AnswersAssumption, Inv PROVE EveryPreferenceTried
  <2> SUFFICES ASSUME ~RelayModeEnabled, NEW e \in pushed, NEW dns \in Answers[Folded[e.domain]],
                      Answers[Folded[e.domain]] = {dns},
                      e.errorCount >= Cardinality(answer(e.domain, dns)),
                      NEW i \in answer(e.domain, dns),
                      NEW c \in Turns(dns.answer[i].pref, answer(e.domain, dns), dns),
                      c \notin e.missed
               PROVE  LET mxList == answer(e.domain, dns)
                          Hosts(p) == {dns.answer[j].value : j \in {k \in mxList : dns.answer[k].pref = p}}
                      IN Hosts(dns.answer[i].pref) \cap ({EmptyRecord} \cup LocalNames) = {}
                           => \E r \in Hosts(dns.answer[i].pref) : HostOf(r) \in e.offered
    BY DEF EveryPreferenceTried
  <2>1. PICK mxList : mxList = answer(e.domain, dns)
    OBVIOUS
  <2> DEFINE Hosts(p) == {dns.answer[j].value : j \in {k \in mxList : dns.answer[k].pref = p}}
  <2>2. ASSUME Hosts(dns.answer[i].pref) \cap ({EmptyRecord} \cup LocalNames) = {}
        PROVE  \E r \in Hosts(dns.answer[i].pref) : HostOf(r) \in e.offered
    <3>1. \A j \in mxList : dns.answer[j].pref = dns.answer[i].pref =>
            dns.answer[j].value \notin {EmptyRecord} \cup LocalNames
      BY <2>2
    <3> HIDE DEF Hosts
    <3>2. \E j \in mxList : /\ dns.answer[j].pref = dns.answer[i].pref
                            /\ HostOf(dns.answer[j].value) \in e.offered
      BY <1>1, <2>1, <3>1, PreferenceTriedFollows
    <3> QED
      BY <3>2 DEF Hosts
  <2> QED
    BY <2>1, <2>2
<1> QED
  BY InvariantHolds, <1>1, RoutingAssumption, AnswersAssumption, PTL
=============================================================================
