----------------------------- MODULE DkimSigning -----------------------------
(***************************************************************************)
(* dkim/: what signing does to a message, as operators, and what a         *)
(* receiver that follows RFC 6376 makes of the result.  A message is its   *)
(* header fields, in order, its body and the way its lines end:            *)
(*                                                                         *)
(*   [fields : Seq([name, form, value]), eol : {"crlf", "lf"},             *)
(*    body : Seq(Byte), slack : Nat]                                       *)
(*                                                                         *)
(* A body is a sequence of bytes, since canonicalization is about its last *)
(* ones; "x" stands for every byte that is neither blank nor a line end.   *)
(* The form of a field is its spelling, spacing and folding; slack is the  *)
(* capacity of the Go slice beyond its length.  A hash is the text it is   *)
(* taken of, a signature the hash it signs.                                *)
(***************************************************************************)
EXTENDS Naturals, Sequences, FiniteSetsExt, SequencesExt

Byte == {"x", "sp", "cr", "lf"}
CRLF == <<"cr", "lf">>
SignatureHeaderKey == "dkim-signature"

(* The fields that are signed, in this order, in lower case; the code has  *)
(* Cc, Content-Type, Date, From, Reply-To, Subject and To.                 *)
StdSignableHeaders == <<"from", "subject", SignatureHeaderKey>>

-----------------------------------------------------------------------------
(* The body. *)

Trimmed == {"cr", "lf", "sp"}

(* Index of the last byte that the code takes for text, 0 without one.     *)
LastText(body) == Max({0} \cup {i \in DOMAIN body : body[i] \notin Trimmed})

(* Where the loop that drops the empty lines at the end stops; without any *)
(* text it never stops.                                                    *)
Kept(body) == IF LastText(body) = 0 THEN Len(body) ELSE LastText(body)

(* canonicalBody with the simple canonicalization of bodies, the only one  *)
(* NewConf configures.                                                     *)
canonicalBody(body) ==
  IF body = <<>> THEN CRLF ELSE SubSeq(body, 1, Kept(body)) \o CRLF

(* Mutant: the trimmed slice is cut one byte too early. *)
AppendInPlaceEarly(body, slack) ==
  IF body = <<>> \/ Kept(body) + 1 > Len(body) + slack THEN body
  ELSE [i \in DOMAIN body |-> IF i = Kept(body) THEN "cr"
                              ELSE IF i = Kept(body) + 1 THEN "lf" ELSE body[i]]

(* append(body[:i+1], '\r', '\n') writes into the array of the message     *)
(* when the two bytes fit, and the caller's slice shows them.              *)
AppendInPlace(body, slack) ==
  IF body = <<>> \/ Kept(body) + 2 > Len(body) + slack THEN body
  ELSE [i \in DOMAIN body |-> IF i = Kept(body) + 1 THEN "cr"
                              ELSE IF i = Kept(body) + 2 THEN "lf" ELSE body[i]]

(* bytes.Replace of every "\n" by "\r\n".                                  *)
LfToCrlf(body) ==
  FlattenSeq([i \in DOMAIN body |-> IF body[i] = "lf" THEN CRLF ELSE <<body[i]>>])

-----------------------------------------------------------------------------
(* The header. *)

Canonical(field) == [name |-> field.name, value |-> field.value]

(* Get returns the first field of a name.                                  *)
Having(fields, name) == {i \in DOMAIN fields : fields[i].name = name}
Get(fields, name) == fields[Min(Having(fields, name))]

signableHeaderList(fields) ==
  LET Found(name) == IF Having(fields, name) = {} THEN <<>> ELSE <<Get(fields, name)>>
  IN FlattenSeq([i \in DOMAIN StdSignableHeaders |-> Found(StdSignableHeaders[i])])

(* The names for h=, without that of an earlier signature.                 *)
Fields(list) ==
  LET Named(name) == IF name = SignatureHeaderKey THEN <<>> ELSE <<name>>
  IN FlattenSeq([i \in DOMAIN list |-> Named(list[i].name)])

(* What is signed: the fields in canonical form, then the signature field  *)
(* with its h= and bh= and an empty b=.                                    *)
signableHeaderBlock(fields, conf) ==
  [i \in DOMAIN signableHeaderList(fields) |-> Canonical(signableHeaderList(fields)[i])]
    \o <<conf>>

NewConf(fields, body) ==
  [h |-> Fields(signableHeaderList(fields)), bh |-> canonicalBody(body)]

-----------------------------------------------------------------------------
(* External: the way to the receiver and the receiver. *)

(* textproto's DotWriter has seen half a line end (its state CR) behind    *)
(* the first of several carriage returns, no longer behind the second,     *)
(* again behind the third: behind a run of odd length.                     *)
HalfEnded(body, i) ==
  Max({n \in 0..i : \A j \in (i - n + 1)..i : body[j] = "cr"}) % 2 = 1

(* A line feed there ends the line, another one becomes a line end of its  *)
(* own, and the last line is ended.                                        *)
DotLines(body) ==
  FlattenSeq([i \in DOMAIN body |->
                IF body[i] = "lf" /\ ~HalfEnded(body, i - 1) THEN CRLF ELSE <<body[i]>>])

DotEnd(body) ==
  IF body = <<>> \/ Last(body) = "lf" THEN <<>>
  ELSE IF HalfEnded(body, Len(body)) THEN <<"lf">> ELSE CRLF

DotWriter(body) == DotLines(body) \o DotEnd(body)

(* RFC 6376, 3.4.3: empty lines at the end of the body are ignored.        *)
RfcBody(body) ==
  LET Pair(k) == SubSeq(body, Len(body) - 2 * k + 1, Len(body) - 2 * k + 2) = CRLF
      pairs == Max({k \in 0..(Len(body) \div 2) : \A j \in 1..k : Pair(j)})
  IN SubSeq(body, 1, Len(body) - 2 * pairs) \o CRLF

(* RFC 6376, 5.4.2: of several fields of one name the last is the first    *)
(* that h= refers to.  The code never names a field twice.                 *)
RfcBlock(fields, conf) ==
  [i \in DOMAIN conf.h |-> Canonical(fields[Max(Having(fields, conf.h[i]))])] \o <<conf>>

(* wire = [fields, conf, sig, body], as the client sends it.               *)
Verifies(wire) ==
  /\ wire.conf.bh = RfcBody(DotWriter(wire.body))
  /\ \A i \in DOMAIN wire.conf.h : Having(wire.fields, wire.conf.h[i]) # {}
  /\ wire.sig = RfcBlock(wire.fields, wire.conf)

-----------------------------------------------------------------------------
(* The messages the signing code is right about.  It signs the first of    *)
(* several fields of a name, signs an earlier signature without naming it, *)
(* does not know a body without text, drops blanks at the end of the last  *)
(* line although the simple canonicalization keeps them, and leaves mixed  *)
(* line ends, and line ends with a second carriage return before them, to  *)
(* the DotWriter, which changes them after the hash.                       *)

RegularFields(fields) ==
  /\ Having(fields, SignatureHeaderKey) = {}
  /\ \A name \in Range(StdSignableHeaders) : \A i, j \in Having(fields, name) : i = j

EndsInLines(tail, eol) ==
  IF eol = "lf" THEN Range(tail) \subseteq {"lf"}
  ELSE \E k \in 0..Len(tail) :
         tail = [i \in 1..(2 * k) |-> IF i % 2 = 1 THEN "cr" ELSE "lf"]

RegularBody(m) ==
  \/ m.body = <<>>
  \/ /\ LastText(m.body) > 0
     /\ EndsInLines(SubSeq(m.body, LastText(m.body) + 1, Len(m.body)), m.eol)
     /\ m.eol = "crlf" => \A i \in DOMAIN m.body :
          m.body[i] = "lf" => HalfEnded(m.body, i - 1)

Regular(m) == RegularFields(m.fields) /\ RegularBody(m)
=============================================================================
