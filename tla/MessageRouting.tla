---------------------------- MODULE MessageRouting ----------------------------
(***************************************************************************)
(* How one message becomes queue entries: ParseMessage groups its          *)
(* recipients by domain, lookupMailServer finds a server for each domain,  *)
(* and smtpHandler or tcpHandler makes one entry per domain and pushes     *)
(* them.  The two handlers differ in what a failed lookup does: over SMTP  *)
(* it refuses the message, over TCP it drops that domain.  Every later     *)
(* attempt to send an entry looks a server up again.                       *)
(*                                                                         *)
(* A recipient is an opaque address; its domain keeps the letter case the  *)
(* client gave it, and Folded is what strings.ToLower makes of it.         *)
(***************************************************************************)
EXTENDS DnsClient

CONSTANTS
  Recipient,          \* addresses
  DomainOf,           \* the domain of each address
  Answers,            \* what name servers may say of each domain
  LocalNames,         \* "localhost" and "127.0.0.1"
  EmptyRecord,        \* a record whose host name has no character
  RootRecord,         \* the record "." of a domain that takes no mail
  NoHost,             \* an empty host name
  MaxRecipients,      \* conf.MaxRecipients
  MaxAttempt,         \* bound: how often an entry is tried again
  RelayModeEnabled,   \* conf.RelayModeEnabled
  RelayServer,        \* conf.RelayServer
  NoServer,           \* a lookup that failed
  Messages            \* the recipient lists clients send

ASSUME RoutingAssumption ==
  /\ DomainOf \in [Recipient -> Domain]
  /\ Folded \in [Domain -> Domain]
  /\ \A d \in Domain : Folded[Folded[d]] = Folded[d]
  /\ \A d \in Domain \cap LocalNames : Folded[d] = d
  /\ MaxRecipients \in Nat /\ MaxAttempt \in Nat
  /\ RelayModeEnabled \in BOOLEAN
  /\ \A m \in Messages : m \in Seq(Recipient)

(* What a resolver can return; an empty host is not this host.             *)
ASSUME AnswersAssumption ==
  /\ \A d \in Domain : \A dns \in Answers[d] : \A rr \in Range(dns.answer) :
       /\ rr.owner \in Domain /\ rr.pref \in Nat /\ rr.value # NoServer
       /\ rr.type = "CNAME" => rr.value \in Domain
  /\ \A d \in Domain : \A dns \in Answers[d] : dns.answer \in Seq(Range(dns.answer))
  /\ NoHost \notin LocalNames \cup {NoServer}

VARIABLES
  via,       \* the listener that took the message
  msg,       \* its recipients
  pc,        \* where its handler is
  pending,   \* domains of RcptDomains not looked up yet
  entries,   \* entries made and not pushed
  pushed,    \* entries pushed
  reply,     \* what an SMTP client was answered
  dropped    \* domains the TCP handler has dropped

vars == <<via, msg, pc, pending, entries, pushed, reply, dropped>>

-----------------------------------------------------------------------------
(* lookupMailServer *)

(* getRoundElement subtracts the length until the rest is an index. *)
Round(n, l) ==
  LET rest[k \in 0..n] == IF k >= l THEN rest[k - l] ELSE k IN rest[n]

RoundElement(hosts, n) == hosts[Round(n, Len(hosts)) + 1]

(* The host of a record is its name without the last dot. *)
HostOf(r) == IF r = RootRecord THEN NoHost ELSE r

(* The server a record names: none if it is empty or this host. *)
ServerOf(r) ==
  IF r = EmptyRecord \/ HostOf(r) \in LocalNames THEN NoServer ELSE HostOf(r)

(* What the n-th lookup may return: a domain that is this host or has no   *)
(* record has no server, any other the one of the record n selects.        *)
Lookups(d, n) ==
  IF d \in LocalNames THEN {NoServer}
  ELSE UNION {LET mxList == answer(d, dns) IN
                IF mxList = {} THEN {NoServer}
                ELSE {ServerOf(dns.answer[RoundElement(hosts, n)].value) :
                        hosts \in byPref(mxList, dns)} :
              dns \in Answers[Folded[d]]}

-----------------------------------------------------------------------------
(* RcptDomains: the domains as spelled. *)
RcptDomains(m) == {DomainOf[m[k]] : k \in 1..Len(m)}

(* GetDomainRecipientList compares with EqualFold. *)
RecipientsOf(m, d) == {k \in 1..Len(m) : Folded[DomainOf[m[k]]] = Folded[d]}

(* With two histories: the servers the entry was offered to, and the       *)
(* attempts for which the lookup failed.                                   *)
Entry(d, server) ==
  [domain |-> d, rcpts |-> RecipientsOf(msg, d),
   server |-> IF RelayModeEnabled THEN RelayServer ELSE server,
   errorCount |-> 0, offered |-> {}, missed |-> {}]

Init ==
  /\ via \in {"smtp", "tcp"}
  /\ msg \in Messages
  /\ pc = "received"
  /\ pending = {} /\ entries = {} /\ pushed = {} /\ dropped = {}
  /\ reply = 0

Refuse(code) ==
  /\ pc' = "done"
  /\ reply' = IF via = "smtp" THEN code ELSE 0
  /\ entries' = {}
  /\ UNCHANGED <<via, msg, pending, pushed, dropped>>

(* An address or a header that does not parse. *)
ParseError ==
  /\ pc = "received"
  /\ Refuse(450)

TooManyRecipients ==
  /\ pc = "received"
  /\ Len(msg) > MaxRecipients \/ Len(msg) = 0
  /\ Refuse(452)

ParseMessage ==
  /\ pc = "received"
  /\ Len(msg) \in 1..MaxRecipients
  /\ pc' = "lookup"
  /\ pending' = RcptDomains(msg)
  /\ UNCHANGED <<via, msg, entries, pushed, reply, dropped>>

(* Mutant: the domain is not put into lower case.                          *)
LookupAsSpelled(d) ==
  /\ pc = "lookup"
  /\ d \in pending
  /\ pending' = pending \ {d}
  /\ \E server \in Lookups(d, 0) \ {NoServer} :
       entries' = entries \cup {Entry(d, server)}
  /\ UNCHANGED <<via, msg, pc, pushed, reply, dropped>>

LookupOk(d) ==
  /\ pc = "lookup"
  /\ d \in pending
  /\ pending' = pending \ {d}
  /\ \E server \in Lookups(Folded[d], 0) \ {NoServer} :
       entries' = entries \cup {Entry(d, server)}
  /\ UNCHANGED <<via, msg, pc, pushed, reply, dropped>>

(* Mutant: over SMTP too only the domain is dropped. *)
LookupFailSkips(d) ==
  /\ pc = "lookup"
  /\ d \in pending
  /\ pending' = pending \ {d}
  /\ dropped' = dropped \cup {d}
  /\ UNCHANGED <<via, msg, pc, entries, pushed, reply>>

(* Mutant: the loop over the domains of a TCP message is left. *)
LookupFailBreaks(d) ==
  /\ pc = "lookup"
  /\ d \in pending
  /\ \/ via = "smtp" /\ Refuse(554)
     \/ /\ via = "tcp"
        /\ pending' = {}
        /\ dropped' = dropped \cup {d}
        /\ UNCHANGED <<via, msg, pc, entries, pushed, reply>>

(* No usable record, or a resolver that does not answer just now.          *)
LookupFail(d) ==
  /\ pc = "lookup"
  /\ d \in pending
  /\ \/ via = "smtp" /\ Refuse(554)
     \/ /\ via = "tcp"
        /\ pending' = pending \ {d}
        /\ dropped' = dropped \cup {d}
        /\ UNCHANGED <<via, msg, pc, entries, pushed, reply>>

PushMail(e) ==
  /\ pc = "lookup" /\ pending = {}
  /\ e \in entries
  /\ entries' = entries \ {e}
  /\ pushed' = pushed \cup {e}
  /\ UNCHANGED <<via, msg, pc, pending, reply, dropped>>

(* The handler returns nil when the last entry is pushed. *)
Return ==
  /\ pc = "lookup" /\ pending = {} /\ entries = {}
  /\ pc' = "done"
  /\ reply' = IF via = "smtp" THEN 250 ELSE 0
  /\ UNCHANGED <<via, msg, pending, entries, pushed, dropped>>

(* The server of attempt n: the one the lookup found, or the old one.      *)
Again(e, n, s) ==
  [e EXCEPT !.errorCount = n, !.offered = @ \cup {e.server},
            !.server = IF s = NoServer THEN @ ELSE s,
            !.missed = IF s = NoServer THEN @ \cup {n} ELSE @]

(* Mutant: the error count is raised after the lookup.                     *)
RetryStaleCount(e) ==
  /\ pc = "done" /\ e \in pushed
  /\ e.errorCount < MaxAttempt
  /\ \E s \in IF RelayModeEnabled THEN {RelayServer}
              ELSE Lookups(e.domain, e.errorCount) \cup {NoServer} :
       pushed' = (pushed \ {e}) \cup {Again(e, e.errorCount + 1, s)}
  /\ UNCHANGED <<via, msg, pc, pending, entries, reply, dropped>>

(* SendMail after an attempt that failed: the domain is looked up as it is *)
(* spelled.  A lookup that fails, because the record is no server or the   *)
(* resolver does not answer just now, leaves the old server, and the count *)
(* is raised all the same.  The queues the entry passes through between    *)
(* two attempts are those of MailPipeline.                                 *)
Retry(e) ==
  /\ pc = "done" /\ e \in pushed
  /\ e.errorCount < MaxAttempt
  /\ \E s \in IF RelayModeEnabled THEN {RelayServer}
              ELSE Lookups(e.domain, e.errorCount + 1) \cup {NoServer} :
       pushed' = (pushed \ {e}) \cup {Again(e, e.errorCount + 1, s)}
  /\ UNCHANGED <<via, msg, pc, pending, entries, reply, dropped>>

Next ==
  \/ ParseError \/ TooManyRecipients \/ ParseMessage
  \/ \E d \in Domain : LookupOk(d) \/ LookupFail(d)
  \/ \E e \in entries : PushMail(e)
  \/ \E e \in pushed : Retry(e)
  \/ Return

Spec == Init /\ [][Next]_vars

-----------------------------------------------------------------------------
(* Properties *)

AllRecords(dns) == {rr \in Range(dns.answer) : rr.body /\ rr.class = "IN"}
AliasRecords(dns) == {rr \in AllRecords(dns) : rr.type = "CNAME"}

(* The names a chain of aliases leads to, in any number of steps: those in *)
(* every set that has the domain and follows the aliases.                  *)
Follows(names, d, dns) ==
  /\ \A n \in Domain : Folded[n] = Folded[d] => n \in names
  /\ \A rr \in AliasRecords(dns), m \in names, n \in Domain :
       Folded[rr.owner] = Folded[m] /\ Folded[rr.value] = Folded[n] => n \in names
Reachable(d, dns) ==
  {n \in Domain : \A names \in SUBSET Domain : Follows(names, d, dns) => n \in names}

(* The hosts mail for a domain may be taken to. *)
Exchangers ==
  [d \in Domain |->
     {HostOf(rr.value) : rr \in
        UNION {{r \in AllRecords(dns) :
                  /\ r.type = "MX" /\ r.owner \in Reachable(d, dns)
                  /\ ~\E alias \in AliasRecords(dns) : Folded[alias.owner] = Folded[r.owner]} :
                 dns \in Answers[Folded[d]]}}]

Holders(k) == {e \in pushed : k \in e.rcpts}

(* A message is taken over as a whole: the client that is answered 250 has *)
(* every recipient in some entry, and the one that is refused may send the *)
(* message again, for nothing of it was pushed.                            *)
AllOrNothing ==
  via = "smtp" =>
    /\ reply = 250 => \A k \in 1..Len(msg) : Holders(k) # {}
    /\ reply \notin {0, 250} => pushed = {}

(* A failed domain costs a TCP client that domain and no other, and a      *)
(* recipient is in one entry only, so that it gets one copy, unless the    *)
(* message spells its domain in two ways.                                  *)
OneCopyEach ==
  \A k \in 1..Len(msg) :
    LET d == DomainOf[msg[k]]
        spelled == {c \in RcptDomains(msg) : Folded[c] = Folded[d]}
    IN /\ Cardinality(Holders(k)) <= Cardinality(spelled)
       /\ pc = "done" /\ pushed # {} /\ Holders(k) = {} => spelled \subseteq dropped

OfOneDomain(e) ==
  /\ \A k \in e.rcpts : Folded[DomainOf[msg[k]]] = Folded[e.domain]
  /\ Cardinality(e.rcpts) <= MaxRecipients

AimedElsewhere(e) ==
  e.server \notin LocalNames \cup {NoServer} /\ Folded[e.domain] \notin LocalNames

(* An entry never mixes domains, carries no more recipients than allowed,  *)
(* and, without a relay server, whatever attempt it is at, it is aimed at  *)
(* the host of an MX record of its domain, or of the name its domain is an *)
(* alias of, and never at this host by name.  The empty host of the record *)
(* "." is not counted as this host: see EmptyHostRefused.                  *)
EntriesWellAimed ==
  \A e \in pushed :
    /\ OfOneDomain(e)
    /\ ~RelayModeEnabled => AimedElsewhere(e) /\ e.server \in Exchangers[e.domain]

(* "incorrect MX record for domain": a record with an empty host is        *)
(* refused by lookupMailServer.  It does not hold: the emptiness of a name *)
(* is tested before its last dot is cut off.                               *)
EmptyHostRefused == \A e \in pushed : e.server # NoHost

(* The attempts, in the first round over the records, whose number selects *)
(* a record of preference p, however records of one preference change      *)
(* places.                                                                 *)
Before(p, mxList, dns) == {i \in mxList : dns.answer[i].pref < p}
Turns(p, mxList, dns) ==
  Cardinality(Before(p, mxList, dns)) .. Cardinality(Before(p + 1, mxList, dns)) - 1

(* Over as many attempts as its domain has MX records an entry is offered  *)
(* to a server of every preference whose records are usable, although the  *)
(* records are shuffled anew for each attempt.  A preference may go        *)
(* untried only if the lookup failed at every attempt that was its turn:   *)
(* the entry then stays with the server it had and the count goes on, so   *)
(* that the turn comes again in the next round only.  That each server has *)
(* its turn is not promised: servers of one preference may change places.  *)
EveryPreferenceTried ==
  ~RelayModeEnabled =>
    \A e \in pushed : \A dns \in Answers[Folded[e.domain]] :
      LET mxList == answer(e.domain, dns)
          Hosts(p) == {dns.answer[i].value : i \in {j \in mxList : dns.answer[j].pref = p}}
      IN
        Answers[Folded[e.domain]] = {dns} /\ e.errorCount >= Cardinality(mxList)
          => \A p \in {dns.answer[i].pref : i \in mxList} :
               /\ Hosts(p) \cap ({EmptyRecord} \cup LocalNames) = {}
               /\ ~(Turns(p, mxList, dns) \subseteq e.missed)
               => \E r \in Hosts(p) : HostOf(r) \in e.offered

(* "In relay mode it redirects all messages to relay server".              *)
RelayRedirectsAll ==
  RelayModeEnabled /\ via = "smtp" /\ pc = "done" /\ reply # 450
    /\ Len(msg) \in 1..MaxRecipients
  => reply = 250
=============================================================================
