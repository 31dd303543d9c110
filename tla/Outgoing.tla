------------------------------- MODULE Outgoing -------------------------------
(***************************************************************************)
(* SendMail of sender.go as a whole: every attempt signs the message       *)
(* (DKIMSign of dkim.go, the operators of DkimSigning) and then holds a    *)
(* conversation (SmtpClient).                                              *)
(*                                                                         *)
(* A queue entry carries a slice, not a message: the entries made of one   *)
(* message for several domains share one array of bytes, and signing       *)
(* writes to it.  Beside the entry whose attempts are followed there is a  *)
(* neighbour, an entry of the same message or of another message of the    *)
(* same sender domain, that is signed again and again meanwhile.           *)
(***************************************************************************)
EXTENDS SmtpClient, DkimSigning

CONSTANTS
  Messages,         \* messages the listeners may have accepted
  MaxNeighbour,     \* bound: attempts of the neighbour
  NoWire            \* nothing has been sent in this attempt

(* Lines of a message end in line feeds alone only if it has no CRLF.      *)
ASSUME OutgoingAssumption ==
  /\ \A m \in Messages :
       /\ m.body \in Seq(Byte) /\ m.slack \in Nat
       /\ m.fields \in Seq(Range(m.fields))
       /\ m.eol \in {"crlf", "lf"}
       /\ m.eol = "lf" => \A i \in DOMAIN m.body :
            m.body[i] = "lf" => i = 1 \/ m.body[i - 1] # "cr"
  /\ MaxNeighbour \in Nat

VARIABLES
  message,   \* per entry: the message as it was accepted
  array,     \* per entry: which array its Data is a slice of
  signing,   \* conf.DKIMEnabled and a key for the sender's domain
  data,      \* per array: the bytes of the body
  stage,     \* per entry: where DKIMSign is
  body,      \* per entry: the body Sign works on, when it is a copy
  conf,      \* per entry: d.Conf
  sig,       \* per entry: the signature
  wire,      \* per entry: what goes to the server
  attempts   \* history: attempts of the neighbour

rigid == <<message, array, signing>>
dkim == <<data, stage, body, conf, sig, wire, attempts>>
outgoing == <<vars, rigid, dkim>>

Entry == {"own", "neighbour"}

OutgoingTypeOK ==
  /\ TypeOK
  /\ message \in [Entry -> Messages] /\ array \in [Entry -> 1..2]
  /\ \A a \in 1..2 : data[a] \in Seq(Byte)
  /\ \A e \in Entry :
       /\ stage[e] \in {"start", "hashed", "ready"}
       /\ Len(data[array[e]]) = Len(message[e].body)
  /\ attempts \in 0..MaxNeighbour

OutgoingInit ==
  /\ Init
  /\ message \in [Entry -> Messages]
  /\ \/ array = [own |-> 1, neighbour |-> 1] /\ message["own"] = message["neighbour"]
     \/ array = [own |-> 1, neighbour |-> 2]
  /\ signing \in BOOLEAN
  /\ data = <<message["own"].body, message["neighbour"].body>>
  /\ stage = [e \in Entry |-> "start"]
  /\ body = [e \in Entry |-> <<>>]
  /\ conf = [e \in Entry |-> NewConf(<<>>, <<>>)]
  /\ sig = [e \in Entry |-> <<>>]
  /\ wire = [e \in Entry |-> NoWire]
  /\ attempts = 0

-----------------------------------------------------------------------------
(* DKIMSign, in the goroutine of an entry. *)

(* Mutant: all signings use the configuration kept in DKIMRepo. *)
OneConf(e) == "own"

(* The map NewConf makes for each signing.                                 *)
ConfOf(e) == e

Bytes(e) == data[array[e]]

(* A message without any CRLF is signed as a copy with CRLFs, another one  *)
(* as the slice itself.                                                    *)
Copied(e) == message[e].eol = "lf"

SignBody(e) == IF Copied(e) THEN LfToCrlf(Bytes(e)) ELSE Bytes(e)

(* Everything up to the signature: the hash of the body, with its write    *)
(* behind the text, h=, bh= and the signature of the block.                *)
SignHash(e) ==
  /\ stage[e] = "start" /\ signing
  /\ LET new == NewConf(message[e].fields, SignBody(e)) IN
       /\ conf' = [conf EXCEPT ![ConfOf(e)] = new]
       /\ sig' = [sig EXCEPT ![e] = signableHeaderBlock(message[e].fields, new)]
  /\ IF Copied(e)
       THEN /\ body' = [body EXCEPT ![e] = AppendInPlace(SignBody(e), 0)]
            /\ UNCHANGED data
       ELSE /\ data' = [data EXCEPT ![array[e]] = AppendInPlace(@, message[e].slack)]
            /\ UNCHANGED body
  /\ stage' = [stage EXCEPT ![e] = "hashed"]
  /\ UNCHANGED <<wire, attempts>>

(* The signature field, the fields as they came and the body as it is now. *)
SignEmit(e) ==
  /\ stage[e] = "hashed"
  /\ wire' = [wire EXCEPT ![e] =
       [signed |-> TRUE, fields |-> message[e].fields, conf |-> conf[ConfOf(e)],
        sig |-> sig[e], body |-> IF Copied(e) THEN body[e] ELSE Bytes(e)]]
  /\ stage' = [stage EXCEPT ![e] = "ready"]
  /\ UNCHANGED <<data, body, conf, sig, attempts>>

(* No signing, or "no key in keyrepo": entry.Data goes out as it is.       *)
NotSigned(e) ==
  /\ stage[e] = "start" /\ ~signing
  /\ wire' = [wire EXCEPT ![e] = [signed |-> FALSE, body |-> Bytes(e)]]
  /\ stage' = [stage EXCEPT ![e] = "ready"]
  /\ UNCHANGED <<data, body, conf, sig, attempts>>

DKIMSign(e) ==
  /\ SignHash(e) \/ SignEmit(e) \/ NotSigned(e)
  /\ UNCHANGED <<vars, rigid>>

-----------------------------------------------------------------------------
NextAttempt(e) ==
  /\ stage' = [stage EXCEPT ![e] = "start"]
  /\ wire' = [wire EXCEPT ![e] = NoWire]
  /\ body' = [body EXCEPT ![e] = <<>>]
  /\ UNCHANGED <<data, conf, sig>>

(* The conversation begins when the message is ready; a deferred entry is  *)
(* signed again.                                                           *)
Converse ==
  /\ stage["own"] = "ready"
  /\ Next
  /\ IF errorCount' = errorCount THEN UNCHANGED dkim
                                 ELSE NextAttempt("own") /\ UNCHANGED attempts
  /\ UNCHANGED rigid

(* The neighbour's attempt is over and another one begins.                 *)
NeighbourAgain ==
  /\ stage["neighbour"] = "ready" /\ attempts < MaxNeighbour
  /\ NextAttempt("neighbour")
  /\ attempts' = attempts + 1
  /\ UNCHANGED <<vars, rigid>>

OutgoingNext ==
  \/ \E e \in Entry : DKIMSign(e)
  \/ Converse
  \/ NeighbourAgain

OutgoingSpec == OutgoingInit /\ [][OutgoingNext]_outgoing

-----------------------------------------------------------------------------
(* Properties. *)

(* The signature of every attempt verifies at the receiver, whatever other *)
(* goroutines sign at the same time and whatever they have written to the  *)
(* shared bytes before, for the messages the code is right about           *)
(* (Regular in DkimSigning names the others).                              *)
SignatureVerifies ==
  \A e \in Entry :
    (stage[e] = "ready" /\ wire[e].signed /\ Regular(message[e])) => Verifies(wire[e])

(* What signing writes to the shared array never touches the text: every   *)
(* attempt of every entry sends the text that was accepted, and only the   *)
(* blanks and line ends behind it can differ.                              *)
Text(bytes) == SubSeq(DotWriter(bytes), 1, LastText(DotWriter(bytes)))

TextKept ==
  \A e \in Entry :
    stage[e] = "ready" => Text(wire[e].body) = Text(message[e].body)
=============================================================================
