------------------------------ MODULE DnsClient ------------------------------
(***************************************************************************)
(* build/patches/dnsclient.go, the file make.sh puts into the Go library:  *)
(* what it makes of the answer to a query for MX records, and the order    *)
(* in which it hands them out.                                             *)
(*                                                                         *)
(* A message is a record of its code and its answer section; a resource    *)
(* record has an owner, a class, a type, a value and a preference, and may *)
(* have lost its body.  A record is known by its place in the answer.      *)
(***************************************************************************)
EXTENDS Naturals, Sequences, SequencesExt

CONSTANTS
  Domain,    \* domain names, as spelled
  Folded     \* the name in lower case

MaxRedirects == 10

equalASCIILabel(x, y) == Folded[x] = Folded[y]

(* The records of a name that have a body. *)
Matching(name, dns) ==
  {i \in DOMAIN dns.answer :
     LET rr == dns.answer[i] IN
     rr.body /\ rr.class = "IN" /\ equalASCIILabel(rr.owner, name)}

OfType(name, dns, type) == {i \in Matching(name, dns) : dns.answer[i].type = type}

(* Mutant: what stands before the alias is kept. *)
AliasesAfterRecords(name, dns) ==
  IF OfType(name, dns, "MX") # {} THEN {} ELSE OfType(name, dns, "CNAME")

(* The first alias of a name redirects, whatever stands before it. *)
Aliases(name, dns) == OfType(name, dns, "CNAME")

Redirect(name, dns) ==
  IF Aliases(name, dns) = {} THEN name ELSE dns.answer[Min(Aliases(name, dns))].value

(* The name after k redirections. *)
Redirected(name, dns, k) ==
  LET step[j \in 0..k] == IF j = 0 THEN name ELSE Redirect(step[j - 1], dns)
  IN step[k]

(* answer: the records of the name at the end of the aliases, none when    *)
(* the server reports an error or the aliases do not end.                  *)
answer(name, dns) ==
  LET last == Redirected(name, dns, MaxRedirects - 1) IN
    IF dns.rcode # "success" \/ Aliases(last, dns) # {} THEN {}
    ELSE OfType(last, dns, "MX")

(* byPref.sort: a shuffle, then a sort by preference that may leave equal  *)
(* preferences in any order.                                               *)
byPref(records, dns) ==
  {s \in [1..Cardinality(records) -> records] :
     /\ IsInjective(s)
     /\ \A j, k \in DOMAIN s : j < k => dns.answer[s[j]].pref <= dns.answer[s[k]].pref}
=============================================================================
