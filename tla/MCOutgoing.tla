----------------------------- MODULE MCOutgoing -----------------------------
(* Messages that end in every way a body can within two bytes and perhaps  *)
(* a line end, with and without room behind the slice, some with runs of   *)
(* carriage returns before a line feed, and some with an irregular header. *)
EXTENDS Outgoing

Field(name, value) == [name |-> name, form |-> "plain", value |-> value]

Plain == <<Field("from", "f1"), Field("received", "r1"), Field("subject", "s1")>>
Folded == <<[Field("subject", "s1") EXCEPT !.form = "folded"]>>
Twice == <<Field("from", "f1"), Field("from", "f2")>>
Signed == <<Field(SignatureHeaderKey, "d1"), Field("from", "f1")>>

Msg(fields, eol, bytes, slack) ==
  [fields |-> fields, eol |-> eol, body |-> bytes, slack |-> slack]

Blanks == UNION {[1..n -> Byte \ {"x"}] : n \in 0..2}
Ends == Blanks \cup {s \o CRLF : s \in Blanks}
LfEnds == {s \in Ends : "cr" \notin Range(s)}

(* The neighbour, when it is an entry of another message.                  *)
Another == Msg(Folded, "crlf", <<"x", "x">> \o CRLF \o CRLF, 1)

MCMessages ==
  {Another}
    \cup {Msg(Plain, "crlf", <<"x">> \o s, slack) : s \in Ends, slack \in {0, 2}}
    \cup {Msg(Folded, "lf", <<"x", "lf", "x">> \o s, 2) : s \in LfEnds}
    \cup {Msg(Folded, "crlf", s, 2) : s \in {<<>>, CRLF, <<"x">> \o CRLF \o <<"x", "sp">> \o CRLF}}
    \cup {Msg(Folded, "crlf", <<"x", "cr">> \o s \o <<"x">> \o CRLF, 2) :
            s \in {CRLF, <<"cr">> \o CRLF}}
    \cup {Msg(f, "crlf", <<"x">> \o CRLF, 0) : f \in {Twice, Signed}}

MCInit ==
  /\ OutgoingInit
  /\ array["neighbour"] = 2 => message["neighbour"] = Another

MCSpec == MCInit /\ [][OutgoingNext]_outgoing
=============================================================================
