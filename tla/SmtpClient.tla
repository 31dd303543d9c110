------------------------------ MODULE SmtpClient ------------------------------
(***************************************************************************)
(* One queue entry and the conversations smtp.SendMail holds about it, one *)
(* per attempt, with servers that may answer anything or break off at any  *)
(* point.  What the server does is external: a reply is the expected code  *)
(* or another one, and the error SendMail returns is a text that begins    *)
(* with that code, or, for a broken connection, with no number at all.     *)
(***************************************************************************)
EXTENDS Naturals

CONSTANTS
  NumRcpt,     \* recipients of the entry
  MaxErrors    \* conf.DeferredMailMaxErrors

ASSUME ClientAssumption == NumRcpt \in Nat \ {0} /\ MaxErrors \in Nat

VARIABLES
  pc,          \* what the client does next
  ext,         \* c.ext: the extensions of the server, as it spells them
  tls,         \* c.tls
  accepted,    \* recipients the server has accepted
  err,         \* the error SendMail returns
  errorCount,  \* entry.ErrorCount
  outcome,     \* what the relay makes of it
  offered,     \* history: the server has offered STARTTLS, in upper case
  copies,      \* history: how often a server took over the message
  partial      \* history: it was taken over without some recipient

conversation == <<pc, ext, tls, accepted, err>>
history == <<offered, copies, partial>>
vars == <<conversation, errorCount, outcome, history>>

(* EHLO keywords; "starttls" stands for every spelling of STARTTLS that is *)
(* not all upper case.                                                     *)
Extensions == {"STARTTLS", "starttls", "8BITMIME"}

(* Extension turns the name it is asked for into upper case and looks it   *)
(* up among the server's spellings: it finds those in upper case only.     *)
Supported(name, spellings) == name \in spellings

nil == 0
Broken == 1       \* the text of a network error: it begins with no number
ErrorTexts == {Broken, 354, 421, 550}
Stages == {"dial", "greeting", "ehlo", "helo", "starttls", "tlsEhlo", "mail",
           "rcpt", "data", "body", "quit", "close"}

TypeOK ==
  /\ pc \in Stages
  /\ ext \in SUBSET Extensions /\ tls \in BOOLEAN
  /\ accepted \in 0..NumRcpt
  /\ err \in ErrorTexts \cup {nil}
  /\ errorCount \in 0..MaxErrors
  /\ outcome \in {"pending", "sent", "rejected", "expired"}
  /\ offered \in BOOLEAN /\ copies \in Nat /\ partial \in BOOLEAN

Init ==
  /\ pc = "dial" /\ ext = {} /\ tls = FALSE /\ accepted = 0 /\ err = nil
  /\ errorCount = 0 /\ outcome = "pending"
  /\ offered = FALSE /\ copies = 0 /\ partial = FALSE

-----------------------------------------------------------------------------
Fail ==
  /\ pc' = "close"
  /\ err' \in ErrorTexts
  /\ UNCHANGED <<ext, tls, accepted>>

(* A command with no effect on the server but its reply. *)
Step(from, to) ==
  /\ pc = from
  /\ \/ pc' = to /\ UNCHANGED <<ext, tls, accepted, err>>
     \/ Fail
  /\ UNCHANGED <<errorCount, outcome, history>>

(* A failure to connect has no code. *)
Dial ==
  /\ pc = "dial"
  /\ \/ pc' = "greeting" /\ UNCHANGED err
     \/ pc' = "close" /\ err' = Broken
  /\ UNCHANGED <<ext, tls, accepted, errorCount, outcome, history>>

NewClient == Step("greeting", "ehlo")

(* The first EHLO may be refused: then HELO, and no extensions.            *)
ehlo ==
  /\ pc = "ehlo"
  /\ \/ /\ ext' \in SUBSET Extensions
        /\ offered' = ("STARTTLS" \in ext')
        /\ pc' = IF Supported("STARTTLS", ext') THEN "starttls" ELSE "mail"
     \/ pc' = "helo" /\ ext' = {} /\ UNCHANGED offered
  /\ UNCHANGED <<tls, accepted, err, errorCount, outcome, copies, partial>>

helo == Step("helo", "mail")

(* Mutant: a server that refuses STARTTLS gets the mail all the same. *)
StartTLSOptional ==
  /\ pc = "starttls"
  /\ \/ pc' = "tlsEhlo" /\ tls' = TRUE
     \/ pc' = "mail" /\ UNCHANGED tls
  /\ UNCHANGED <<ext, accepted, err, errorCount, outcome, history>>

StartTLS ==
  /\ pc = "starttls"
  /\ \/ pc' = "tlsEhlo" /\ tls' = TRUE /\ UNCHANGED <<ext, accepted, err>>
     \/ Fail
  /\ UNCHANGED <<errorCount, outcome, history>>

(* The second EHLO, with the handshake before it, has no second chance.    *)
tlsEhlo ==
  /\ pc = "tlsEhlo"
  /\ \/ ext' \in SUBSET Extensions /\ pc' = "mail" /\ UNCHANGED <<tls, accepted, err>>
     \/ Fail
  /\ UNCHANGED <<errorCount, outcome, history>>

Mail == Step("mail", "rcpt")

(* Mutant: a refused recipient is passed over. *)
RcptPassedOver ==
  /\ pc = "rcpt"
  /\ \/ /\ accepted' = accepted + 1
        /\ pc' = IF accepted' = NumRcpt THEN "data" ELSE "rcpt"
     \/ accepted > 0 /\ pc' = "data" /\ UNCHANGED accepted
  /\ UNCHANGED <<ext, tls, err, errorCount, outcome, history>>

Rcpt ==
  /\ pc = "rcpt"
  /\ \/ /\ accepted' = accepted + 1
        /\ pc' = IF accepted' = NumRcpt THEN "data" ELSE "rcpt"
        /\ UNCHANGED <<ext, tls, err>>
     \/ Fail
  /\ UNCHANGED <<errorCount, outcome, history>>

Data == Step("data", "body")

TakeOver ==
  /\ copies' = copies + 1
  /\ partial' = (partial \/ accepted < NumRcpt)
  /\ UNCHANGED offered

(* Mutant: the answer to the message is not looked at. *)
WriteIgnoresAnswer ==
  /\ pc = "body"
  /\ pc' = "quit"
  /\ TakeOver \/ UNCHANGED history
  /\ UNCHANGED <<ext, tls, accepted, err, errorCount, outcome>>

(* Write and Close: the server takes the message over and says so, takes   *)
(* it over and the answer is lost, or does not take it.                    *)
WriteAndClose ==
  /\ pc = "body"
  /\ \/ TakeOver /\ pc' = "quit" /\ UNCHANGED <<ext, tls, accepted, err>>
     \/ /\ TakeOver
        /\ pc' = "close" /\ err' = Broken /\ UNCHANGED <<ext, tls, accepted>>
     \/ Fail /\ UNCHANGED history
  /\ UNCHANGED <<errorCount, outcome>>

(* The error of QUIT is the error of SendMail.                             *)
Quit == Step("quit", "close")

-----------------------------------------------------------------------------
(* What SendMail of sender.go makes of the error.                          *)

Again ==
  /\ pc' = "dial" /\ ext' = {} /\ tls' = FALSE /\ accepted' = 0 /\ err' = nil
  /\ offered' = FALSE
  /\ UNCHANGED <<outcome, copies, partial>>

End(o) == outcome' = o /\ UNCHANGED <<conversation, history>>

(* A text without a code in front counts as 450.                           *)
StatusMessageError == 450
ParseOutcomingError(text) == IF text = Broken THEN StatusMessageError ELSE text

Permanent(text) == ParseOutcomingError(text) \div 100 = 5

(* Mutant: the limit is compared with >. *)
FinishOneMore ==
  /\ pc = "close" /\ outcome = "pending"
  /\ \/ err = nil /\ End("sent") /\ UNCHANGED errorCount
     \/ err # nil /\ Permanent(err) /\ End("rejected") /\ UNCHANGED errorCount
     \/ /\ err # nil /\ ~Permanent(err)
        /\ IF errorCount + 1 > MaxErrors THEN End("expired") /\ UNCHANGED errorCount
                                         ELSE errorCount' = errorCount + 1 /\ Again

Finish ==
  /\ pc = "close" /\ outcome = "pending"
  /\ \/ err = nil /\ End("sent") /\ UNCHANGED errorCount
     \/ err # nil /\ Permanent(err) /\ End("rejected") /\ UNCHANGED errorCount
     \/ /\ err # nil /\ ~Permanent(err)
        /\ IF errorCount + 1 >= MaxErrors THEN End("expired") /\ UNCHANGED errorCount
                                          ELSE errorCount' = errorCount + 1 /\ Again

Next ==
  \/ Dial \/ NewClient \/ ehlo \/ helo \/ StartTLS \/ tlsEhlo
  \/ Mail \/ Rcpt \/ Data \/ WriteAndClose \/ Quit
  \/ Finish

Spec == Init /\ [][Next]_vars

-----------------------------------------------------------------------------
(* Properties *)

(* What is logged and counted as sent was taken over by a server, and a    *)
(* message is never taken over for some of its recipients only: one        *)
(* refused recipient keeps the message from the others too.                *)
SentIsTakenOver == (outcome = "sent" => copies > 0) /\ ~partial

(* "switches to TLS if possible": a server that offered STARTTLS, spelled  *)
(* in upper case, gets no address and no message in plain text, not even   *)
(* when it then refuses.  An offer spelled otherwise is not heard: that    *)
(* server gets both in plain text.                                         *)
TLSIfOffered == offered /\ pc \in {"mail", "rcpt", "data", "body", "quit"} => tls

(* A lost answer or a failed QUIT makes the relay send a message again     *)
(* that was taken over; the recipients get a bounded number of copies.     *)
CopiesBounded == copies <= IF MaxErrors = 0 THEN 1 ELSE MaxErrors

(* "msg %s DROPPED": what is logged and counted as dropped for a permanent *)
(* error was not delivered.                                                *)
DroppedIsNotDelivered == outcome = "rejected" => copies = 0
=============================================================================
