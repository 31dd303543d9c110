--------------------------- MODULE SmtpSessionProofs ---------------------------
(* Theorems about SmtpSession, for every configuration of the server, every *)
(* limit and any number of commands, pipelined or not.                      *)
EXTENDS SmtpSession, TLAPS

(* What is in progress is consistent: DATA is read for an envelope that has *)
(* recipients, an envelope was opened after a HELO, and under TLS where TLS *)
(* is forced, and it is the one of the last MAIL command.                   *)
InProgress ==
  /\ pc = "data" => envelope # None /\ envelope.rcpts > 0
  /\ envelope # None => /\ helo
                        /\ srv.ForceTLS => tls
                        /\ envelope.txn = txns

(* The messages handed over belong to earlier transactions.                 *)
Earlier ==
  \A k \in 1..Len(delivered) :
    /\ delivered[k][1].txn <= txns
    /\ envelope # None => delivered[k][1].txn < txns

Inv ==
  /\ TypeOK /\ InProgress /\ Earlier
  /\ EnvelopeAsAcknowledged /\ DeliveredOnce /\ AuthOnlyOverTLS

-----------------------------------------------------------------------------
(* What a step may do to the transaction in progress. *)

Kept == UNCHANGED <<envelope, view, txns, tls, delivered>>

Dropped ==
  /\ envelope' = None
  /\ view' = None \/ (srv.Checkers /\ view' = view)
  /\ tls' \in {tls, TRUE}
  /\ UNCHANGED <<txns, delivered>>

Opened ==
  /\ envelope = None /\ helo /\ txns < MaxTransactions
  /\ srv.ForceTLS => tls
  /\ txns' = txns + 1
  /\ envelope' = [txn |-> txns', rcpts |-> 0] /\ view' = envelope'
  /\ UNCHANGED <<tls, delivered>>

Grown ==
  /\ envelope # None /\ envelope.rcpts < MaxRecipients
  /\ envelope' = [envelope EXCEPT !.rcpts = @ + 1]
  /\ view' = IF view = None THEN view ELSE [view EXCEPT !.rcpts = @ + 1]
  /\ UNCHANGED <<txns, tls, delivered>>

HandedOver ==
  /\ pc = "data"
  /\ envelope' = None /\ view' = None
  /\ delivered' = Append(delivered, <<envelope, tls>>)
  /\ UNCHANGED <<txns, tls>>

(* How an answer leaves the client's view.                                 *)
LEMMA AnswerForgets ==
  ASSUME NEW cmd, NEW code, Answer(cmd, code), cmd = "END" \/ <<cmd, code>> \in ForgetsOn
  PROVE  view' = None
  BY DEF Answer, ForgetsOn

LEMMA AnswerMail ==
  ASSUME Answer("MAIL", 250) PROVE view' = [txn |-> txns', rcpts |-> 0]
  BY DEF Answer, ForgetsOn

LEMMA AnswerRcpt ==
  ASSUME Answer("RCPT", 250)
  PROVE  view' = IF view = None THEN view ELSE [view EXCEPT !.rcpts = @ + 1]
  BY DEF Answer, ForgetsOn

(* The answers that tell the client nothing of an envelope.                *)
Silent(cmd, code) ==
  \/ cmd \in {"CONNECT", "DATA", "OTHER", "QUIT", "AUTH", "XCLIENT"}
  \/ cmd \in {"HELO", "STARTTLS", "MAIL", "RCPT"} /\ code \in {452, 502, 550}

LEMMA AnswerSilent ==
  ASSUME NEW cmd, NEW code, Answer(cmd, code), Silent(cmd, code)
  PROVE  view' = view
<1>1. <<cmd, code>> \notin ForgetsOn /\ cmd # "END"
  BY DEF Silent, ForgetsOn
<1>2. cmd \in {"MAIL", "RCPT"} => code # 250
  BY DEF Silent
<1> QED
  BY <1>1, <1>2 DEF Answer

(* A command that is refused keeps everything but the reply.               *)
LEMMA Refused ==
  ASSUME NEW cmd, NEW code, Refuse(cmd, code), Silent(cmd, code)
  PROVE  Kept /\ UNCHANGED user
  BY AnswerSilent DEF Refuse, Kept

(* The steps that may move the transaction, one by one.                    *)
LEMMA StepHELO == ASSUME InProgress, handleHELO PROVE Kept \/ Dropped
<1>1. CASE Refuse("HELO", 502)
  BY <1>1, Refused DEF Silent
<1>2. CASE srv.Checkers /\ Answer("HELO", 502)
           /\ (IF helo THEN reset ELSE UNCHANGED envelope)
           /\ UNCHANGED <<tls, txns, delivered>>
  <2>1. view' = view
    BY <1>2, AnswerSilent DEF Silent
  <2> QED
    BY <1>2, <2>1 DEF Kept, Dropped, reset
<1>3. CASE Answer("HELO", 250)
           /\ (IF helo THEN reset ELSE UNCHANGED envelope)
           /\ UNCHANGED <<tls, txns, delivered>>
  <2>1. view' = None
    BY <1>3, AnswerForgets DEF ForgetsOn
  <2>2. envelope' = None
    BY <1>3 DEF InProgress, reset
  <2> QED
    BY <1>3, <2>1, <2>2 DEF Dropped
<1> QED
  BY <1>1, <1>2, <1>3 DEF handleHELO

LEMMA StepMAIL == handleMAIL => Kept \/ Opened
<1> SUFFICES ASSUME handleMAIL PROVE Kept \/ Opened
  OBVIOUS
<1>1. CASE Refuse("MAIL", 502)
  BY <1>1, Refused DEF Silent
<1>2. CASE ~Refuse("MAIL", 502)
  <2>1. Answer("MAIL", 250) /\ envelope' = [txn |-> txns', rcpts |-> 0]
    BY <1>2 DEF handleMAIL
  <2>2. view' = envelope'
    BY <2>1, AnswerMail
  <2> QED
    BY <1>2, <2>2 DEF handleMAIL, Opened
<1> QED
  BY <1>1, <1>2

LEMMA StepRCPT == handleRCPT => Kept \/ Grown
<1> SUFFICES ASSUME handleRCPT PROVE Kept \/ Grown
  OBVIOUS
<1>1. CASE Refuse("RCPT", 502) \/ Refuse("RCPT", 452)
  BY <1>1, Refused DEF Silent
<1>2. CASE ~(Refuse("RCPT", 502) \/ Refuse("RCPT", 452))
  <2>1. /\ envelope # None /\ envelope.rcpts < MaxRecipients
        /\ envelope' = [envelope EXCEPT !.rcpts = @ + 1]
        /\ Answer("RCPT", 250)
        /\ UNCHANGED <<txns, tls, delivered>>
    BY <1>2 DEF handleRCPT
  <2> QED
    BY <2>1, AnswerRcpt DEF Grown
<1> QED
  BY <1>1, <1>2

LEMMA StepSTARTTLS == handleSTARTTLS => Kept \/ Dropped
<1> SUFFICES ASSUME handleSTARTTLS PROVE Kept \/ Dropped
  OBVIOUS
<1>1. CASE Refuse("STARTTLS", 502) \/ Refuse("STARTTLS", 550)
  BY <1>1, Refused DEF Silent
<1>2. CASE ~(Refuse("STARTTLS", 502) \/ Refuse("STARTTLS", 550))
  <2>1. reset /\ tls' = TRUE /\ Answer("STARTTLS", 220) /\ UNCHANGED <<txns, delivered>>
    BY <1>2 DEF handleSTARTTLS
  <2>2. view' = None
    BY <2>1, AnswerForgets DEF ForgetsOn
  <2> QED
    BY <2>1, <2>2 DEF Dropped, reset
<1> QED
  BY <1>1, <1>2

LEMMA StepDATA == handleDATA => Kept
<1> SUFFICES ASSUME handleDATA PROVE Kept
  OBVIOUS
<1>1. CASE Refuse("DATA", 502)
  BY <1>1, Refused DEF Silent
<1>2. CASE ~Refuse("DATA", 502)
  <2>1. Answer("DATA", 354) /\ UNCHANGED <<envelope, tls, txns, delivered>>
    BY <1>2 DEF handleDATA
  <2> QED
    BY <2>1, AnswerSilent DEF Silent, Kept
<1> QED
  BY <1>1, <1>2

LEMMA StepMessage ==
  /\ DataDelivered => HandedOver
  /\ DataTooLong \/ handleRSET \/ LineTooLong => Dropped
<1>1. ASSUME DataDelivered PROVE HandedOver
  <2>1. PICK code \in {250, 554} : Answer("END", code)
    BY <1>1 DEF DataDelivered
  <2>2. view' = None
    BY <2>1, AnswerForgets
  <2> QED
    BY <1>1, <2>2 DEF DataDelivered, HandedOver, reset
<1>2. ASSUME DataTooLong \/ handleRSET \/ LineTooLong PROVE Dropped
  <2>1. Answer("END", 552) \/ Answer("RSET", 250) \/ Answer("LINE", 500)
    BY <1>2 DEF DataTooLong, handleRSET, LineTooLong
  <2>2. view' = None
    BY <2>1, AnswerForgets DEF ForgetsOn
  <2>3. reset /\ UNCHANGED <<tls, txns, delivered>>
    BY <1>2 DEF DataTooLong, handleRSET, LineTooLong
  <2> QED
    BY <2>2, <2>3 DEF Dropped, reset
<1> QED
  BY <1>1, <1>2

(* Nothing else has to do with the transaction.                            *)
LEMMA StepOther ==
  ASSUME welcome \/ handleOther \/ handleQUIT \/ handleAUTH \/ AuthLine
           \/ handleXCLIENT \/ End
  PROVE  Kept
<1>1. CASE welcome \/ AuthLine
  <2>1. /\ \/ Answer("CONNECT", 220) \/ Answer("CONNECT", 502)
           \/ Answer("AUTH", 334) \/ Answer("AUTH", 235) \/ Answer("AUTH", 502)
           \/ UNCHANGED view
        /\ UNCHANGED <<envelope, tls, txns, delivered>>
    BY <1>1 DEF welcome, AuthLine
  <2> QED
    BY <2>1, AnswerSilent DEF Silent, Kept
<1>2. CASE handleOther \/ handleQUIT
  <2>1. (\E code \in {250, 502} : Refuse("OTHER", code)) \/ Refuse("QUIT", 221)
    BY <1>2 DEF handleOther, handleQUIT
  <2> QED
    BY <2>1, Refused DEF Silent
<1>3. CASE handleAUTH
  <2>1. \/ Refuse("AUTH", 502)
        \/ /\ Answer("AUTH", 235) \/ Answer("AUTH", 334) \/ UNCHANGED <<reply, view>>
           /\ UNCHANGED <<envelope, tls, txns, delivered>>
    BY <1>3 DEF handleAUTH
  <2> QED
    BY <2>1, Refused, AnswerSilent DEF Silent, Kept
<1>4. CASE handleXCLIENT
  <2>1. \/ Refuse("XCLIENT", 550) \/ Refuse("XCLIENT", 502)
        \/ /\ Answer("XCLIENT", 220) \/ Answer("XCLIENT", 502)
           /\ UNCHANGED <<envelope, tls, txns, delivered>>
    BY <1>4 DEF handleXCLIENT
  <2> QED
    BY <2>1, Refused, AnswerSilent DEF Silent, Kept
<1>5. CASE End
  BY <1>5 DEF End, Kept
<1> QED
  BY <1>1, <1>2, <1>3, <1>4, <1>5

LEMMA Steps ==
  ASSUME InProgress, [Next]_vars
  PROVE  Kept \/ Dropped \/ Opened \/ Grown \/ HandedOver
<1>1. CASE UNCHANGED vars
  BY <1>1 DEF vars, Kept
<1>2. CASE Next
  BY <1>2, StepHELO, StepMAIL, StepRCPT, StepSTARTTLS, StepDATA, StepMessage, StepOther
     DEF Next
<1> QED
  BY <1>1, <1>2

-----------------------------------------------------------------------------
LEMMA InitInv == Init => Inv
<1> SUFFICES ASSUME Init PROVE Inv
  OBVIOUS
<1>1. delivered = <<>> /\ envelope = None /\ view = None
  BY DEF Init
<1>2. delivered \in Seq(Envelope \X BOOLEAN)
  BY <1>1
<1>3. 0 \in 0..MaxPipelined /\ 0 \in 0..(MaxMessageSize + 1) /\ 0 \in 0..MaxTransactions
  BY ServerAssumption
<1>4. TypeOK
  BY <1>1, <1>2, <1>3 DEF Init, TypeOK, States
<1> QED
  BY <1>1, <1>4 DEF Init, Inv, InProgress, Earlier, EnvelopeAsAcknowledged, DeliveredOnce,
                    AuthOnlyOverTLS

(* A line read leaves the session where it is.                             *)
LEMMA ReadLineTypes ==
  ASSUME TypeOK, ReadLine
  PROVE  pc' = pc /\ pc \in {"command", "closed"} /\ lines' \in 0..MaxPipelined
  BY ServerAssumption DEF TypeOK, ReadLine

(* The variables that have no part in a transaction.                       *)
LEMMA SessionTypes ==
  ASSUME TypeOK, [Next]_vars
  PROVE  /\ srv' = srv /\ pc' \in States
         /\ helo' \in {helo, TRUE} /\ tls' \in {tls, TRUE} /\ greeted' \in BOOLEAN
         /\ user' \in {"none", "auth", "xclient"}
         /\ lines' \in 0..MaxPipelined /\ size' \in 0..(MaxMessageSize + 1)
<1> DEFINE SizeOK == size' \in 0..(MaxMessageSize + 1)
           LinesOK == lines' \in 0..MaxPipelined
           PcOK == pc' \in States
           Flags == /\ helo' \in {helo, TRUE} /\ tls' \in {tls, TRUE} /\ greeted' \in BOOLEAN
                    /\ user' \in {"none", "auth", "xclient"}
           Good == SizeOK /\ LinesOK /\ PcOK /\ Flags
<1> SUFFICES Good
  BY DEF Next, vars
<1> USE DEF Refuse
<1>0. /\ size \in 0..(MaxMessageSize + 1) /\ lines \in 0..MaxPipelined
      /\ greeted \in BOOLEAN /\ user \in {"none", "auth", "xclient"}
      /\ pc \in States /\ {"command", "closed", "data", "panicked", "ended"} \subseteq States
      /\ {"plain", "login", "password"} \subseteq States
      /\ ReadLine => LinesOK /\ PcOK
  BY ReadLineTypes DEF States, TypeOK
<1>1. CASE welcome
  BY <1>0, <1>1 DEF welcome
<1>2. CASE handleHELO
  BY <1>0, <1>2 DEF handleHELO
<1>3. CASE handleMAIL
  BY <1>0, <1>3 DEF handleMAIL
<1>4. CASE handleRCPT
  BY <1>0, <1>4 DEF handleRCPT
<1>5. CASE handleSTARTTLS
  BY <1>0, <1>5 DEF handleSTARTTLS
<1>6. CASE handleDATA
  <2>1. UNCHANGED <<helo, tls, greeted, user, size>>
    BY <1>6 DEF handleDATA
  <2>2. ReadLine \/ (pc' = "data" /\ UNCHANGED lines)
    BY <1>6 DEF handleDATA
  <2> QED
    BY <1>0, <2>1, <2>2
<1>7. CASE DataDelivered
  BY <1>0, <1>7, ServerAssumption DEF DataDelivered
<1>8. CASE DataTooLong
  BY <1>0, <1>8, ServerAssumption DEF DataTooLong
<1>9. CASE handleRSET
  BY <1>0, <1>9 DEF handleRSET
<1>10. CASE handleOther
  BY <1>0, <1>10 DEF handleOther
<1>11. CASE handleQUIT
  <2>1. lines > 0 /\ lines' = lines - 1 => LinesOK
    BY <1>0, ServerAssumption
  <2> QED
    BY <1>0, <1>11, <2>1 DEF handleQUIT
<1>12. CASE handleAUTH
  <2>1. UNCHANGED <<helo, tls, greeted, size>> /\ user' \in {user, "auth"}
    BY <1>12 DEF handleAUTH
  <2>2. ReadLine \/ (pc' \in {"plain", "login", "panicked"} /\ UNCHANGED lines)
    BY <1>12 DEF handleAUTH
  <2> QED
    BY <1>0, <2>1, <2>2
<1>13. CASE AuthLine
  BY <1>0, <1>13 DEF AuthLine
<1>14. CASE handleXCLIENT
  <2>1. /\ UNCHANGED <<tls, greeted, size>>
        /\ helo' \in {helo, TRUE} /\ user' \in {user, "xclient"}
    BY <1>14 DEF handleXCLIENT
  <2>2. \/ ReadLine
        \/ UNCHANGED <<pc, lines>>
        \/ pc' = "closed" /\ lines' \in 0..MaxPipelined
    BY <1>14 DEF handleXCLIENT
  <2> QED
    BY <1>0, <2>1, <2>2
<1>15. CASE LineTooLong \/ End
  <2>1. UNCHANGED <<helo, tls, greeted, user, size, lines>> /\ pc' \in {pc, "ended"}
    BY <1>15 DEF LineTooLong, End
  <2> QED
    BY <1>0, <2>1
<1>16. CASE UNCHANGED vars
  BY <1>0, <1>16 DEF vars
<1> QED
  <2> HIDE DEF Good
  <2> QED
    BY <1>1, <1>2, <1>3, <1>4, <1>5, <1>6, <1>7, <1>8, <1>9, <1>10, <1>11, <1>12, <1>13,
       <1>14, <1>15, <1>16 DEF Next

(* The transaction's own variables.                                        *)
LEMMA TransactionTypes ==
  ASSUME Inv, Kept \/ Dropped \/ Opened \/ Grown \/ HandedOver
  PROVE  /\ envelope' \in Envelope \cup {None} /\ view' \in Envelope \cup {None}
         /\ txns' \in 0..MaxTransactions
         /\ delivered' \in Seq(Envelope \X BOOLEAN)
<1>1. CASE Kept \/ Dropped
  BY <1>1 DEF Inv, TypeOK, Kept, Dropped
<1>2. CASE Opened
  <2>1. txns' \in 1..MaxTransactions /\ 0 \in 0..MaxRecipients
    BY <1>2, ServerAssumption DEF Opened, Inv, TypeOK
  <2>2. envelope' \in Envelope /\ view' = envelope'
    BY <1>2, <2>1 DEF Opened, Envelope
  <2> QED
    BY <1>2, <2>1, <2>2, ServerAssumption DEF Opened, Inv, TypeOK
<1>3. CASE Grown
  <2>1. envelope \in Envelope /\ view = envelope
    BY <1>3 DEF Grown, Inv, TypeOK, EnvelopeAsAcknowledged
  <2>2. envelope.rcpts + 1 \in 0..MaxRecipients
    BY <1>3, <2>1, ServerAssumption DEF Grown, Envelope
  <2>3. [envelope EXCEPT !.rcpts = @ + 1] \in Envelope
    BY <2>1, <2>2 DEF Envelope
  <2>4. view # None
    BY <2>1, NoneAssumption
  <2> QED
    BY <1>3, <2>1, <2>3, <2>4 DEF Grown, Inv, TypeOK
<1>4. CASE HandedOver
  <2>1. <<envelope, tls>> \in Envelope \X BOOLEAN
    BY <1>4 DEF HandedOver, Inv, TypeOK, InProgress
  <2> QED
    BY <1>4, <2>1 DEF HandedOver, Inv, TypeOK
<1> QED
  BY <1>1, <1>2, <1>3, <1>4

LEMMA TypeStep == ASSUME Inv, [Next]_vars PROVE TypeOK'
<1>1. tls' \in BOOLEAN /\ helo' \in BOOLEAN
  BY SessionTypes DEF Inv, TypeOK
<1>2. TypeOK /\ InProgress
  BY DEF Inv
<1> QED
  BY <1>1, <1>2, SessionTypes, Steps, TransactionTypes DEF TypeOK

-----------------------------------------------------------------------------
(* DATA is read only for an envelope that has recipients.                  *)
LEMMA DataStep ==
  ASSUME TypeOK, InProgress, [Next]_vars, pc' = "data"
  PROVE  envelope' = envelope /\ envelope # None /\ envelope.rcpts > 0
<1>1. CASE UNCHANGED vars
  BY <1>1 DEF vars, InProgress
<1>2. CASE handleDATA /\ pc' = "data"
  BY <1>2 DEF handleDATA, ReadLine
<1>3. ~(welcome \/ handleHELO \/ handleMAIL \/ handleRCPT \/ handleSTARTTLS
         \/ DataDelivered \/ DataTooLong)
  BY DEF welcome, handleHELO, handleMAIL, handleRCPT, handleSTARTTLS, DataDelivered,
         DataTooLong, ReadLine
<1>4. ~(handleRSET \/ handleOther \/ handleQUIT \/ LineTooLong \/ End)
  BY DEF handleRSET, handleOther, handleQUIT, LineTooLong, End, ReadLine
<1>5. ~(handleAUTH \/ AuthLine \/ handleXCLIENT)
  BY DEF handleAUTH, AuthLine, handleXCLIENT, ReadLine
<1> QED
  BY <1>1, <1>2, <1>3, <1>4, <1>5 DEF Next

LEMMA InProgressStep == ASSUME Inv, [Next]_vars PROVE InProgress'
<1>1. pc' = "data" => envelope' # None /\ envelope'.rcpts > 0
  BY DataStep DEF Inv
<1>2. srv' = srv /\ (helo => helo') /\ (tls => tls')
  BY SessionTypes DEF Inv, TypeOK
<1>3. ASSUME envelope' # None
      PROVE  helo' /\ (srv'.ForceTLS => tls') /\ envelope'.txn = txns'
  <2>1. CASE Kept
    BY <1>2, <1>3, <2>1 DEF Kept, Inv, InProgress
  <2>2. CASE Opened
    BY <1>2, <2>2 DEF Opened
  <2>3. CASE Grown
    <3>1. envelope \in Envelope
      BY <2>3 DEF Grown, Inv, TypeOK
    <3>2. envelope'.txn = envelope.txn
      BY <2>3, <3>1 DEF Grown, Envelope
    <3> QED
      BY <1>2, <2>3, <3>2 DEF Grown, Inv, InProgress
  <2>4. ~Dropped /\ ~HandedOver
    BY <1>3 DEF Dropped, HandedOver
  <2> QED
    BY <2>1, <2>2, <2>3, <2>4, Steps DEF Inv
<1> QED
  BY <1>1, <1>3 DEF InProgress

(* What was handed over is the message of an earlier transaction than any  *)
(* to come: the next one gets a higher number.                             *)
LEMMA DeliveryStep == ASSUME Inv, [Next]_vars PROVE Earlier' /\ DeliveredOnce'
<1> DEFINE Txn(k) == delivered[k][1].txn
<1>1. /\ delivered \in Seq(Envelope \X BOOLEAN) /\ txns \in Nat
      /\ \A k \in 1..Len(delivered) : Txn(k) \in Nat
  BY DEF Inv, TypeOK, Envelope
<1>2. srv' = srv
  BY SessionTypes DEF Inv
<1>3. CASE UNCHANGED <<txns, delivered>> /\ (envelope' # None => envelope # None)
  BY <1>2, <1>3 DEF Inv, Earlier, DeliveredOnce
<1>4. CASE Opened
  <2>1. ASSUME NEW k \in 1..Len(delivered)
        PROVE  Txn(k) <= txns /\ txns' = txns + 1 /\ Txn(k) <= txns' /\ Txn(k) < txns'
    BY <1>1, <1>4 DEF Opened, Inv, Earlier
  <2> QED
    BY <1>2, <1>4, <2>1 DEF Opened, Inv, Earlier, DeliveredOnce
<1>5. CASE HandedOver
  <2> DEFINE n == Len(delivered)
             m == <<envelope, tls>>
  <2>1. /\ envelope \in Envelope /\ envelope.txn = txns
        /\ envelope.rcpts \in 1..MaxRecipients /\ (srv.ForceTLS => tls)
    BY <1>5, ServerAssumption DEF HandedOver, Inv, TypeOK, InProgress, Envelope
  <2>2. m \in Envelope \X BOOLEAN /\ n \in Nat
    BY <1>1, <2>1 DEF Inv, TypeOK
  <2>3. /\ Len(delivered') = n + 1 /\ delivered'[n + 1] = m
        /\ \A k \in 1..n : delivered'[k] = delivered[k]
    BY <1>1, <1>5, <2>2 DEF HandedOver
  <2>4. m[1] = envelope /\ m[2] = tls
    OBVIOUS
  <2>5. envelope' = None /\ txns' = txns
    BY <1>5 DEF HandedOver
  <2>6. \A k \in 1..n : Txn(k) < txns
    BY <2>1, NoneAssumption DEF Inv, Earlier
  <2> HIDE DEF n, m
  <2>7. Earlier'
    <3>1. ASSUME NEW k \in 1..(n + 1) PROVE delivered'[k][1].txn <= txns
      <4>1. CASE k \in 1..n
        BY <1>1, <2>3, <2>6, <4>1 DEF n
      <4>2. CASE k = n + 1
        BY <1>1, <2>1, <2>3, <2>4, <4>2
      <4> QED
        BY <2>2, <4>1, <4>2
    <3> QED
      BY <2>3, <2>5, <3>1 DEF Earlier
  <2>8. ASSUME NEW k \in 1..(n + 1)
        PROVE  /\ delivered'[k][1].rcpts \in 1..MaxRecipients
               /\ srv'.ForceTLS => delivered'[k][2]
               /\ \A j \in 1..(k - 1) : delivered'[j][1].txn < delivered'[k][1].txn
    <3>1. CASE k \in 1..n
      <4>1. \A j \in 1..(k - 1) : j \in 1..n
        BY <2>2, <3>1
      <4> QED
        BY <1>2, <2>3, <3>1, <4>1 DEF Inv, DeliveredOnce, n
    <3>2. CASE k = n + 1
      <4>1. \A j \in 1..(k - 1) : j \in 1..n
        BY <2>2, <3>2
      <4> QED
        BY <1>2, <2>1, <2>3, <2>4, <2>6, <3>2, <4>1
    <3> QED
      BY <2>2, <3>1, <3>2
  <2> QED
    BY <2>3, <2>7, <2>8 DEF DeliveredOnce
<1>6. \/ UNCHANGED <<txns, delivered>> /\ (envelope' # None => envelope # None)
      \/ Opened \/ HandedOver
  BY Steps DEF Inv, Kept, Dropped, Grown
<1> QED
  BY <1>3, <1>4, <1>5, <1>6

(* The client's view moves with the envelope.                              *)
LEMMA AcknowledgedStep == ASSUME Inv, [Next]_vars PROVE EnvelopeAsAcknowledged'
<1>1. srv' = srv
  BY SessionTypes DEF Inv
<1>2. EnvelopeAsAcknowledged /\ InProgress
  BY DEF Inv
<1>3. CASE Kept \/ Dropped \/ Opened \/ HandedOver
  BY <1>1, <1>2, <1>3 DEF EnvelopeAsAcknowledged, Kept, Dropped, Opened, HandedOver
<1>4. CASE Grown
  <2>1. view = envelope /\ view # None
    BY <1>2, <1>4 DEF Grown, EnvelopeAsAcknowledged
  <2> QED
    BY <1>4, <2>1 DEF Grown, EnvelopeAsAcknowledged
<1> QED
  BY <1>2, <1>3, <1>4, Steps

(* Only AUTH asks for credentials, and only over TLS; TLS stays.           *)
LEMMA AuthStep == ASSUME Inv, [Next]_vars PROVE AuthOnlyOverTLS'
<1> DEFINE asked == {"plain", "login", "password", "panicked"}
           Asks == \/ user' # user /\ user' = "auth"
                   \/ pc' # pc /\ pc' \in asked
<1>1. srv' = srv /\ (tls => tls')
  BY SessionTypes DEF Inv, TypeOK
<1>2. ASSUME Asks PROVE tls /\ srv.Authenticator
  <2>1. CASE handleAUTH
    BY <1>2, <2>1 DEF handleAUTH, ReadLine, Refuse
  <2>2. CASE AuthLine
    BY <1>2, <2>2 DEF AuthLine, Inv, AuthOnlyOverTLS
  <2>3. ~(welcome \/ handleHELO \/ handleMAIL \/ handleRCPT \/ handleSTARTTLS)
    BY <1>2 DEF welcome, handleHELO, handleMAIL, handleRCPT, handleSTARTTLS, ReadLine, Refuse
  <2>4. ~(handleDATA \/ DataDelivered \/ DataTooLong \/ handleRSET \/ handleOther
            \/ LineTooLong \/ End)
    BY <1>2 DEF handleDATA, DataDelivered, DataTooLong, handleRSET, handleOther,
                LineTooLong, End, ReadLine, Refuse
  <2>5. ~(handleQUIT \/ handleXCLIENT \/ UNCHANGED vars)
    BY <1>2 DEF handleQUIT, handleXCLIENT, ReadLine, Refuse, vars
  <2> QED
    BY <2>1, <2>2, <2>3, <2>4, <2>5 DEF Next
<1> QED
  BY <1>1, <1>2 DEF Inv, AuthOnlyOverTLS

LEMMA NextInv == Inv /\ [Next]_vars => Inv'
  BY TypeStep, InProgressStep, DeliveryStep, AcknowledgedStep, AuthStep DEF Inv

LEMMA AlwaysInv == Spec => []Inv
  BY InitInv, NextInv, PTL DEF Spec

-----------------------------------------------------------------------------
(* Every variable of a session keeps its type: no more recipients than the *)
(* server allows, no state but those of serve() and its handlers.          *)
THEOREM TypesHold == Spec => []TypeOK
<1>1. Inv => TypeOK
  BY DEF Inv
<1> QED
  BY <1>1, AlwaysInv, PTL

(* The server's envelope is the one its replies have described, whatever   *)
(* the client sends and in whatever order.                                 *)
THEOREM AcknowledgedAlways == Spec => []EnvelopeAsAcknowledged
<1>1. Inv => EnvelopeAsAcknowledged
  BY DEF Inv
<1> QED
  BY <1>1, AlwaysInv, PTL

(* No message is handed over twice, without recipients or with too many,   *)
(* or in plain text where TLS is forced.                                   *)
THEOREM DeliveredOnceAlways == Spec => []DeliveredOnce
<1>1. Inv => DeliveredOnce
  BY DEF Inv
<1> QED
  BY <1>1, AlwaysInv, PTL

(* Credentials are asked for, and accepted, over TLS only, and only by a   *)
(* server that has an Authenticator.                                       *)
THEOREM AuthOverTLSAlways == Spec => []AuthOnlyOverTLS
<1>1. Inv => AuthOnlyOverTLS
  BY DEF Inv
<1> QED
  BY <1>1, AlwaysInv, PTL
=============================================================================
