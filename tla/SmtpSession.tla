----------------------------- MODULE SmtpSession -----------------------------
(***************************************************************************)
(* One session of the SMTP server in smtpd/: serve() reads the client's    *)
(* lines one by one and handle() dispatches each to its handler, which     *)
(* changes the session and answers.  A message is reduced to its length,   *)
(* an address to being well formed or not, an envelope to the transaction  *)
(* it belongs to and its number of recipients.                             *)
(***************************************************************************)
EXTENDS Naturals, Sequences

CONSTANTS
  MaxRecipients,    \* srv.MaxRecipients
  MaxMessageSize,   \* srv.MaxMessageSize
  MaxTransactions,  \* bound: MAIL commands accepted in a session
  MaxPipelined,     \* bound: lines read together with a QUIT
  None              \* no envelope

ASSUME ServerAssumption ==
  /\ MaxRecipients \in Nat \ {0}
  /\ MaxMessageSize \in Nat \ {0}
  /\ MaxTransactions \in Nat /\ MaxPipelined \in Nat

(* What a server may be configured with: TLSConfig, Authenticator and the  *)
(* four checkers are set or nil.  configureDefaults refuses ForceTLS       *)
(* without a TLSConfig.                                                    *)
Servers ==
  {s \in [TLSConfig : BOOLEAN, ForceTLS : BOOLEAN, Authenticator : BOOLEAN,
          EnableXCLIENT : BOOLEAN, Checkers : BOOLEAN] :
     s.ForceTLS => s.TLSConfig}

Envelope == [txn : 1..MaxTransactions, rcpts : 0..MaxRecipients]

ASSUME NoneAssumption == None \notin Envelope

VARIABLES
  srv,        \* session.server
  pc,         \* what the session waits for
  helo,       \* peer.HeloName # ""
  envelope,   \* session.envelope
  tls,        \* session.tls
  user,       \* how peer.Username was set
  lines,      \* after the connection was closed: lines already read
  reply,      \* the code of the last reply
  size,       \* the length of the last message sent
  txns,       \* MAIL commands accepted
  view,       \* history: the envelope as the client knows it from replies
  greeted,    \* history: HELO or EHLO was accepted over the current connection
  delivered   \* history: what the Handler was given, in order

vars == <<srv, pc, helo, envelope, tls, user, lines, reply, size, txns, view,
          greeted, delivered>>

States == {"connected", "command", "data", "plain", "login", "password",
           "closed", "panicked", "ended"}

TypeOK ==
  /\ srv \in Servers
  /\ pc \in States
  /\ helo \in BOOLEAN /\ tls \in BOOLEAN /\ greeted \in BOOLEAN
  /\ envelope \in Envelope \cup {None}
  /\ view \in Envelope \cup {None}
  /\ user \in {"none", "auth", "xclient"}
  /\ lines \in 0..MaxPipelined
  /\ size \in 0..(MaxMessageSize + 1)
  /\ txns \in 0..MaxTransactions
  /\ delivered \in Seq(Envelope \X BOOLEAN)

Init ==
  /\ srv \in Servers
  /\ pc = "connected"
  /\ helo = FALSE /\ envelope = None /\ tls = FALSE /\ user = "none"
  /\ lines = 0 /\ reply = 0 /\ size = 0 /\ txns = 0
  /\ view = None /\ greeted = FALSE /\ delivered = <<>>

-----------------------------------------------------------------------------
(* What a client learns from a reply.  END is the answer to a message,     *)
(* LINE the answer to a line that is too long, after which, as serve()     *)
(* says, the client starts over.                                           *)

ForgetsOn == {<<"HELO", 250>>, <<"RSET", 250>>, <<"STARTTLS", 220>>, <<"LINE", 500>>}

Answer(cmd, code) ==
  /\ reply' = code
  /\ view' = CASE cmd = "MAIL" /\ code = 250 -> [txn |-> txns', rcpts |-> 0]
               [] cmd = "RCPT" /\ code = 250 /\ view # None
                    -> [view EXCEPT !.rcpts = @ + 1]
               [] cmd = "END" \/ <<cmd, code>> \in ForgetsOn -> None
               [] OTHER -> view

(* A line was read.  After close() the loop of serve() goes on with the    *)
(* lines the scanner already holds.                                        *)
ReadLine ==
  \/ pc = "command" /\ UNCHANGED <<pc, lines>>
  \/ pc = "closed" /\ lines > 0 /\ lines' = lines - 1 /\ UNCHANGED pc

(* Answered without any change to the session.                             *)
Refuse(cmd, code) ==
  /\ Answer(cmd, code)
  /\ UNCHANGED <<helo, envelope, tls, user, size, txns, greeted, delivered>>

reset == envelope' = None

welcome ==
  /\ pc = "connected"
  /\ \/ Answer("CONNECT", 220) /\ pc' = "command" /\ UNCHANGED lines
     \/ /\ srv.Checkers
        /\ Answer("CONNECT", 502)
        /\ pc' = "closed" /\ lines' \in 0..MaxPipelined
  /\ UNCHANGED <<helo, envelope, tls, user, size, txns, greeted, delivered>>

(* HELO and EHLO: a second one resets the envelope before the checker may  *)
(* refuse it.                                                              *)
handleHELO ==
  /\ ReadLine
  /\ \/ Refuse("HELO", 502)
     \/ /\ IF helo THEN reset ELSE UNCHANGED envelope
        /\ \/ /\ srv.Checkers
              /\ Answer("HELO", 502)
              /\ UNCHANGED <<helo, greeted>>
           \/ /\ helo' = TRUE /\ greeted' = TRUE
              /\ Answer("HELO", 250)
        /\ UNCHANGED <<tls, user, size, txns, delivered>>

(* Mutant: ForceTLS is forgotten. *)
MailInPlainText ==
  /\ ReadLine
  /\ \/ Refuse("MAIL", 502)
     \/ /\ helo
        /\ envelope = None
        /\ txns < MaxTransactions
        /\ txns' = txns + 1
        /\ envelope' = [txn |-> txns', rcpts |-> 0]
        /\ Answer("MAIL", 250)
        /\ UNCHANGED <<helo, tls, user, size, greeted, delivered>>

(* A MAIL that is refused may be ill-formed or refused by the checker.     *)
handleMAIL ==
  /\ ReadLine
  /\ \/ Refuse("MAIL", 502)
     \/ /\ helo
        /\ srv.ForceTLS => tls
        /\ envelope = None
        /\ txns < MaxTransactions
        /\ txns' = txns + 1
        /\ envelope' = [txn |-> txns', rcpts |-> 0]
        /\ Answer("MAIL", 250)
        /\ UNCHANGED <<helo, tls, user, size, greeted, delivered>>

(* Mutant: the limit is compared with >. *)
RcptOneTooMany ==
  /\ ReadLine
  /\ \/ Refuse("RCPT", 502)
     \/ /\ envelope # None
        /\ envelope.rcpts <= MaxRecipients
        /\ envelope' = [envelope EXCEPT !.rcpts = @ + 1]
        /\ Answer("RCPT", 250)
        /\ UNCHANGED <<helo, tls, user, size, txns, greeted, delivered>>

handleRCPT ==
  /\ ReadLine
  /\ \/ Refuse("RCPT", 502)
     \/ envelope # None /\ envelope.rcpts >= MaxRecipients /\ Refuse("RCPT", 452)
     \/ /\ envelope # None
        /\ envelope.rcpts < MaxRecipients
        /\ envelope' = [envelope EXCEPT !.rcpts = @ + 1]
        /\ Answer("RCPT", 250)
        /\ UNCHANGED <<helo, tls, user, size, txns, greeted, delivered>>

(* A handshake that fails is answered on the plain connection and changes  *)
(* nothing; one that succeeds takes a new reader and keeps HeloName.       *)
handleSTARTTLS ==
  /\ ReadLine
  /\ \/ (tls \/ ~srv.TLSConfig) /\ Refuse("STARTTLS", 502)
     \/ /\ ~tls /\ srv.TLSConfig
        /\ \/ Refuse("STARTTLS", 550)
           \/ /\ pc = "command"
              /\ reset
              /\ tls' = TRUE /\ greeted' = FALSE
              /\ Answer("STARTTLS", 220)
              /\ UNCHANGED <<helo, user, size, txns, delivered>>

handleDATA ==
  \/ /\ ReadLine
     /\ envelope # None => envelope.rcpts = 0
     /\ Refuse("DATA", 502)
  \/ /\ pc = "command"
     /\ envelope # None /\ envelope.rcpts > 0
     /\ pc' = "data"
     /\ Answer("DATA", 354)
     /\ UNCHANGED <<helo, envelope, tls, user, lines, size, txns, greeted, delivered>>

(* A message shorter than MaxMessageSize ends before CopyN has copied that *)
(* many bytes; the Handler gets it and may return an error.                *)
DataDelivered ==
  /\ pc = "data"
  /\ size' \in 0..(MaxMessageSize - 1)
  /\ delivered' = Append(delivered, <<envelope, tls>>)
  /\ \E code \in {250, 554} : Answer("END", code)
  /\ reset
  /\ pc' = "command"
  /\ UNCHANGED <<helo, tls, user, lines, txns, greeted>>

(* Mutant: an oversized message leaves its envelope behind. *)
DataTooLongNoReset ==
  /\ pc = "data"
  /\ size' \in MaxMessageSize..(MaxMessageSize + 1)
  /\ Answer("END", 552)
  /\ pc' = "command"
  /\ UNCHANGED <<helo, envelope, tls, user, lines, txns, greeted, delivered>>

DataTooLong ==
  /\ pc = "data"
  /\ size' \in MaxMessageSize..(MaxMessageSize + 1)
  /\ Answer("END", 552)
  /\ reset
  /\ pc' = "command"
  /\ UNCHANGED <<helo, tls, user, lines, txns, greeted, delivered>>

handleRSET ==
  /\ ReadLine
  /\ reset
  /\ Answer("RSET", 250)
  /\ UNCHANGED <<helo, tls, user, size, txns, greeted, delivered>>

(* NOOP and unknown commands. *)
handleOther ==
  /\ ReadLine
  /\ \E code \in {250, 502} : Refuse("OTHER", code)

handleQUIT ==
  /\ Refuse("QUIT", 221)
  /\ \/ pc = "command" /\ pc' = "closed" /\ lines' \in 0..MaxPipelined
     \/ pc = "closed" /\ lines > 0 /\ lines' = lines - 1 /\ UNCHANGED pc

(* Mutant: credentials are taken in plain text. *)
AuthInPlainText ==
  /\ ReadLine
  /\ \/ Refuse("AUTH", 502)
     \/ /\ srv.Authenticator /\ helo
        /\ user' = "auth"
        /\ Answer("AUTH", 235)
        /\ UNCHANGED <<helo, envelope, tls, size, txns, greeted, delivered>>

(* AUTH reads the credentials from further lines unless PLAIN has them; an *)
(* AUTH without a mechanism indexes past the end of the fields.            *)
handleAUTH ==
  \/ /\ ReadLine
     /\ Refuse("AUTH", 502)
  \/ /\ ReadLine
     /\ srv.Authenticator /\ helo /\ tls
     /\ user' = "auth"
     /\ Answer("AUTH", 235)
     /\ UNCHANGED <<helo, envelope, tls, size, txns, greeted, delivered>>
  \/ /\ pc = "command"
     /\ srv.Authenticator /\ helo /\ tls
     /\ \/ pc' \in {"plain", "login"} /\ Answer("AUTH", 334)
        \/ pc' = "panicked" /\ UNCHANGED <<reply, view>>
     /\ UNCHANGED <<helo, envelope, tls, user, lines, size, txns, greeted, delivered>>

(* A line that is too long ends the handler without an answer.  The        *)
(* scanner then gives out what it holds of the line, which is taken for a  *)
(* command, and serve() answers the rest as in LineTooLong.                *)
AuthLine ==
  /\ \/ /\ pc = "login"
        /\ pc' = "password" /\ Answer("AUTH", 334) /\ UNCHANGED user
     \/ /\ pc \in {"plain", "password"}
        /\ pc' = "command" /\ Answer("AUTH", 235) /\ user' = "auth"
     \/ /\ pc \in {"plain", "login", "password"}
        /\ pc' = "command" /\ Answer("AUTH", 502) /\ UNCHANGED user
     \/ /\ pc \in {"plain", "login", "password"}
        /\ pc' = "command" /\ UNCHANGED <<reply, view, user>>
  /\ UNCHANGED <<helo, envelope, tls, lines, size, txns, greeted, delivered>>

(* XCLIENT may set the name and the user, and greets the client again.     *)
handleXCLIENT ==
  \/ /\ ReadLine
     /\ \/ ~srv.EnableXCLIENT /\ Refuse("XCLIENT", 550)
        \/ srv.EnableXCLIENT /\ Refuse("XCLIENT", 502)
  \/ /\ srv.EnableXCLIENT
     /\ pc = "command"
     /\ helo' \in {helo, TRUE}
     /\ user' \in {user, "xclient"}
     /\ \/ Answer("XCLIENT", 220) /\ UNCHANGED <<pc, lines>>
        \/ /\ srv.Checkers
           /\ Answer("XCLIENT", 502)
           /\ pc' = "closed" /\ lines' \in 0..MaxPipelined
     /\ UNCHANGED <<envelope, tls, size, txns, greeted, delivered>>

(* bufio.ErrTooLong *)
LineTooLong ==
  /\ pc = "command"
  /\ reset
  /\ Answer("LINE", 500)
  /\ UNCHANGED <<pc, helo, tls, user, lines, size, txns, greeted, delivered>>

(* A network error or a timeout, whatever the session was reading; after a *)
(* close the end of the lines.                                             *)
End ==
  /\ pc \notin {"panicked", "ended"} /\ (pc = "closed" => lines = 0)
  /\ pc' = "ended"
  /\ UNCHANGED <<helo, envelope, tls, user, lines, reply, size, txns, view,
                 greeted, delivered>>

Next ==
  /\ \/ welcome
     \/ handleHELO \/ handleMAIL \/ handleRCPT \/ handleSTARTTLS
     \/ handleDATA \/ DataDelivered \/ DataTooLong
     \/ handleRSET \/ handleOther \/ handleQUIT
     \/ handleAUTH \/ AuthLine \/ handleXCLIENT
     \/ LineTooLong \/ End
  /\ UNCHANGED srv

Spec == Init /\ [][Next]_vars

-----------------------------------------------------------------------------
(* Properties *)

(* The envelope the server keeps is the one its replies have described to  *)
(* the client: same transaction, same number of recipients, none when the  *)
(* client was told so.  Only a HELO a checker refuses may leave the client *)
(* with an envelope the server has dropped.                                *)
EnvelopeAsAcknowledged ==
  envelope = view \/ (srv.Checkers /\ envelope = None)

(* Each message handed over belongs to a transaction of its own, has an    *)
(* acceptable number of recipients and, under ForceTLS, came encrypted.    *)
DeliveredOnce ==
  \A k \in 1..Len(delivered) :
    /\ delivered[k][1].rcpts \in 1..MaxRecipients
    /\ srv.ForceTLS => delivered[k][2]
    /\ \A j \in 1..(k - 1) : delivered[j][1].txn < delivered[k][1].txn

(* "Enable PLAIN/LOGIN authentication, only available after STARTTLS":     *)
(* not only is nobody let in before, nobody is asked for credentials, and  *)
(* the AUTH that ends the process is out of reach of a server, such as the *)
(* relay's, that has no Authenticator or no TLS.                           *)
AuthOnlyOverTLS ==
  user = "auth" \/ pc \in {"plain", "login", "password", "panicked"}
    => tls /\ srv.Authenticator

(* "a new EHLO/HELO is required after STARTTLS": no envelope is opened     *)
(* over TLS before one.                                                    *)
HeloAfterStartTLS == tls /\ envelope # None => greeted

(* A message is refused for its size only when it exceeds MaxMessageSize.  *)
RefusedOnlyOversize == reply = 552 => size > MaxMessageSize
=============================================================================
