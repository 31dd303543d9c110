--------------------------- MODULE MCMessageRouting ---------------------------
(* Messages to six domains: one spelled in two ways, with two servers of   *)
(* one preference and a third, whose answer has records that do not count; *)
(* one with a record that points back at the relay; an alias of the first, *)
(* which has an MX record of its own as well; aliases that never end, or   *)
(* no answer; a domain that declares it takes no mail; this host, in upper *)
(* case.                                                                   *)
EXTENDS MessageRouting

CONSTANTS r1, r2, r3, r4, r5, r6, r7,
          good, goodUpper, loop, aliased, circle, nullmx, localUpper,
          h1, h2, h3, localhost

MCDomainOf == [r \in Recipient |-> CASE r = r1 -> good [] r = r2 -> goodUpper
                                     [] r = r3 -> loop [] r = r4 -> aliased
                                     [] r = r5 -> circle [] r = r6 -> nullmx
                                     [] r = r7 -> localUpper]
MCFolded == [d \in Domain |-> CASE d = goodUpper -> good [] d = localUpper -> localhost
                                [] OTHER -> d]

RR(owner, type, value, pref) ==
  [owner |-> owner, class |-> "IN", type |-> type, body |-> TRUE,
   value |-> value, pref |-> pref]
Headless(rr) == [rr EXCEPT !.body = FALSE]
Chaos(rr) == [rr EXCEPT !.class = "CH"]
Reply(records) == [rcode |-> "success", answer |-> records]
Failure == [rcode |-> "failure", answer |-> <<>>]

MX(d, host, pref) == RR(d, "MX", host, pref)

MCAnswers ==
  [d \in Domain |->
     CASE d = good ->
            {Reply(<<Headless(MX(good, localhost, 0)), MX(good, h3, 20), MX(goodUpper, h1, 10),
                     RR(good, "TXT", h3, 0), MX(loop, localhost, 0), MX(good, h2, 10)>>)}
       [] d = loop -> {Reply(<<MX(loop, h1, 5), MX(loop, localhost, 7), MX(loop, EmptyRecord, 9)>>)}
       [] d = aliased -> {Reply(<<MX(aliased, h3, 0), Chaos(RR(aliased, "CNAME", circle, 0)),
                                RR(aliased, "CNAME", goodUpper, 0), MX(good, h1, 10)>>)}
       [] d = circle -> {Reply(<<RR(circle, "CNAME", aliased, 0), RR(aliased, "CNAME", circle, 0)>>),
                         Failure}
       [] d = nullmx -> {Reply(<<MX(nullmx, RootRecord, 0)>>)}
       [] d = localhost -> {Reply(<<MX(localhost, h1, 0)>>)}
       [] OTHER -> {Reply(<<>>)}]

(* Up to two recipients in any order, three in one order, and four.        *)
MCMessages ==
  UNION {[1..n -> Recipient] : n \in 0..2}
    \cup {SetToSeq(s) : s \in {t \in SUBSET Recipient : Cardinality(t) = 3}}
    \cup {<<r1, r3, r1, r3>>}
=============================================================================
