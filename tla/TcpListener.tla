----------------------------- MODULE TcpListener -----------------------------
(***************************************************************************)
(* tcplistener.go: the listener that takes packets of messages from local  *)
(* programs.  One goroutine accepts connections, one goroutine per         *)
(* connection reads its packet, answers it and pushes its messages; two    *)
(* channels of tokens limit the open connections and the running handlers. *)
(*                                                                         *)
(* A packet is a sequence of messages and a message the set of the queue   *)
(* entries it makes, one per recipient domain.                             *)
(***************************************************************************)
EXTENDS Naturals, Sequences, FiniteSets

CONSTANTS
  Conn,               \* the connections programs may open
  Entry,              \* the queue entries their messages make
  Packet,             \* the packet each connection carries
  TCPMaxConnections,  \* conf.TCPMaxConnections
  TCPMaxHandlers,     \* conf.TCPMaxHandlers
  None                \* the accept loop holds no connection

EntriesOf(c) == UNION {Packet[c][k] : k \in 1..Len(Packet[c])}

(* What is assumed of them, where the module is used.  An entry is known   *)
(* by the UUID it gets when its message is parsed, so no two packets make  *)
(* the same one.                                                           *)
Constants ==
  /\ IsFiniteSet(Conn)
  /\ TCPMaxConnections \in Nat /\ TCPMaxHandlers \in Nat
  /\ Packet \in [Conn -> Seq(SUBSET Entry)]
  /\ \A c, d \in Conn : c # d => EntriesOf(c) \cap EntriesOf(d) = {}

VARIABLES
  started,      \* TCPListenerStarted
  loopPc,       \* where the accept loop is
  loopConn,     \* the connection it has accepted
  connTokens,   \* len(TCPConnectionsLimiter)
  handTokens,   \* len(TCPHandlersLimiter)
  conn,         \* where each connection is in its life
  answer,       \* what its client was told
  messages,     \* messages a handler has not looked at yet
  entries,      \* entries a handler has made and not pushed yet
  settled,      \* history: entries pushed, and entries counted as dropped
  stop,         \* history: whether StopTCPListener was called, and when
  late          \* history: connections accepted after that

loop == <<loopPc, loopConn>>
tokens == <<connTokens, handTokens>>
handlers == <<conn, answer, messages, entries>>
stopping == <<stop, late>>
vars == <<started, loop, tokens, handlers, settled, stopping>>

TypeOK ==
  /\ started \in BOOLEAN
  /\ loopPc \in {"unbound", "failed", "check", "accept", "limit", "ended"}
  /\ loopConn \in Conn \cup {None}
  /\ connTokens \in 0..TCPMaxConnections
  /\ handTokens \in 0..TCPMaxHandlers
  /\ conn \in [Conn -> {"client", "accepted", "waiting", "reading", "decoding",
                        "handling", "done"}]
  /\ answer \in [Conn -> {"none", "OK", "error"}]
  /\ messages \in [Conn -> Seq(SUBSET Entry)]
  /\ entries \in [Conn -> SUBSET Entry]
  /\ settled \in [{"queued", "dropped"} -> SUBSET Entry]
  /\ stop \in {"none", "early", "heard"}
  /\ late \in SUBSET Conn

Init ==
  /\ started = FALSE
  /\ loopPc = "unbound" /\ loopConn = None
  /\ connTokens = 0 /\ handTokens = 0
  /\ conn = [c \in Conn |-> "client"]
  /\ answer = [c \in Conn |-> "none"]
  /\ messages = [c \in Conn |-> <<>>]
  /\ entries = [c \in Conn |-> {}]
  /\ settled = [k \in {"queued", "dropped"} |-> {}]
  /\ stop = "none" /\ late = {}

-----------------------------------------------------------------------------
(* StartTCPServer *)

(* The port is bound, the channels are made and the flag is set, whoever   *)
(* may have cleared it before.                                             *)
Listen ==
  /\ loopPc = "unbound"
  /\ loopPc' = "check"
  /\ started' = TRUE
  /\ UNCHANGED <<loopConn, tokens, handlers, settled, stopping>>

(* It panics: the process ends.                                            *)
ListenFail ==
  /\ loopPc = "unbound"
  /\ loopPc' = "failed"
  /\ UNCHANGED <<started, loopConn, tokens, handlers, settled, stopping>>

(* The flag is read only between two connections. *)

(* Mutant: the loop runs until the process ends. *)
LoopCheckForever ==
  /\ loopPc = "check"
  /\ loopPc' = "accept"
  /\ UNCHANGED <<started, loopConn, tokens, handlers, settled, stopping>>

LoopCheck ==
  /\ loopPc = "check"
  /\ loopPc' = IF started THEN "accept" ELSE "ended"
  /\ UNCHANGED <<started, loopConn, tokens, handlers, settled, stopping>>

LoopAccept(c) ==
  /\ loopPc = "accept"
  /\ conn[c] = "client"
  /\ conn' = [conn EXCEPT ![c] = "accepted"]
  /\ loopConn' = c
  /\ loopPc' = "limit"
  /\ late' = IF stop = "none" THEN late ELSE late \cup {c}
  /\ UNCHANGED <<started, tokens, answer, messages, entries, settled, stop>>

(* The error is logged and the loop goes round.                            *)
LoopAcceptError ==
  /\ loopPc = "accept"
  /\ loopPc' = "check"
  /\ UNCHANGED <<started, loopConn, tokens, handlers, settled, stopping>>

(* Mutant: the limit is compared with <=. *)
LoopSpawnOneTooMany ==
  /\ loopPc = "limit"
  /\ connTokens <= TCPMaxConnections
  /\ connTokens' = connTokens + 1
  /\ conn' = [conn EXCEPT ![loopConn] = "waiting"]
  /\ loopConn' = None
  /\ loopPc' = "check"
  /\ UNCHANGED <<started, handTokens, answer, messages, entries, settled, stopping>>

(* The send on TCPConnectionsLimiter blocks while all tokens are taken.    *)
LoopSpawn ==
  /\ loopPc = "limit"
  /\ connTokens < TCPMaxConnections
  /\ connTokens' = connTokens + 1
  /\ conn' = [conn EXCEPT ![loopConn] = "waiting"]
  /\ loopConn' = None
  /\ loopPc' = "check"
  /\ UNCHANGED <<started, handTokens, answer, messages, entries, settled, stopping>>

(* StopTCPListener clears the flag and polls the handlers' tokens, which   *)
(* are 0 while there is no channel yet.                                    *)
Stop ==
  /\ stop = "none"
  /\ started' = FALSE
  /\ stop' = IF loopPc = "unbound" THEN "early" ELSE "heard"
  /\ UNCHANGED <<loop, tokens, handlers, settled, late>>

Stopped == stop # "none" /\ handTokens = 0

-----------------------------------------------------------------------------
(* tcpHandler *)

HandlerStart(c) ==
  /\ conn[c] = "waiting"
  /\ handTokens < TCPMaxHandlers
  /\ handTokens' = handTokens + 1
  /\ conn' = [conn EXCEPT ![c] = "reading"]
  /\ UNCHANGED <<started, loop, connTokens, answer, messages, entries, settled, stopping>>

(* Mutant: no return behind writeErrorResponse. *)
ReadErrorGoesOn(c) ==
  /\ conn[c] = "reading"
  /\ conn' = [conn EXCEPT ![c] = "decoding"]
  /\ answer' \in {[answer EXCEPT ![c] = "error"], answer}
  /\ connTokens' = connTokens - 1
  /\ UNCHANGED <<started, loop, handTokens, messages, entries, settled, stopping>>

(* Metadata, payload and compression errors, the deadline included: the    *)
(* client is told, or nothing reaches it (it closed at once, the deadline  *)
(* is over for the write too, or it has reset the connection).             *)
ReadError(c) ==
  /\ conn[c] = "reading"
  /\ conn' = [conn EXCEPT ![c] = "done"]
  /\ answer' \in {[answer EXCEPT ![c] = "error"], answer}
  /\ connTokens' = connTokens - 1
  /\ handTokens' = handTokens - 1
  /\ UNCHANGED <<started, loop, messages, entries, settled, stopping>>

(* Mutant: the success response leaves the connection's token behind. *)
ReadOkKeepsToken(c) ==
  /\ conn[c] = "reading"
  /\ conn' = [conn EXCEPT ![c] = "decoding"]
  /\ answer' \in {[answer EXCEPT ![c] = "OK"], answer}
  /\ UNCHANGED <<started, loop, tokens, messages, entries, settled, stopping>>

(* The client is told OK before the packet is decoded.  The error of the   *)
(* write is ignored: a client that has reset the connection, or whose      *)
(* deadline is over, is told nothing and the handler goes on.              *)
ReadOk(c) ==
  /\ conn[c] = "reading"
  /\ conn' = [conn EXCEPT ![c] = "decoding"]
  /\ answer' \in {[answer EXCEPT ![c] = "OK"], answer}
  /\ connTokens' = connTokens - 1
  /\ UNCHANGED <<started, loop, handTokens, messages, entries, settled, stopping>>

DecodeError(c) ==
  /\ conn[c] = "decoding"
  /\ conn' = [conn EXCEPT ![c] = "done"]
  /\ handTokens' = handTokens - 1
  /\ UNCHANGED <<started, loop, connTokens, answer, messages, entries, settled, stopping>>

DecodeOk(c) ==
  /\ conn[c] = "decoding"
  /\ conn' = [conn EXCEPT ![c] = "handling"]
  /\ messages' = [messages EXCEPT ![c] = Packet[c]]
  /\ UNCHANGED <<started, loop, tokens, answer, entries, settled, stopping>>

(* The next message: dropped as a whole when it does not parse or has too  *)
(* many recipients; otherwise each domain without an MX record is dropped  *)
(* and entries are made for the others.                                    *)
NextMessage(c) ==
  /\ conn[c] = "handling"
  /\ entries[c] = {} /\ messages[c] # <<>>
  /\ \E found \in SUBSET Head(messages[c]) :
       /\ entries' = [entries EXCEPT ![c] = found]
       /\ settled' = [settled EXCEPT !["dropped"] = @ \cup (Head(messages[c]) \ found)]
  /\ messages' = [messages EXCEPT ![c] = Tail(@)]
  /\ UNCHANGED <<started, loop, tokens, conn, answer, stopping>>

(* The map of domains has no order, so any entry may be pushed next.       *)
PushEntry(c, e) ==
  /\ conn[c] = "handling"
  /\ e \in entries[c]
  /\ entries' = [entries EXCEPT ![c] = @ \ {e}]
  /\ settled' = [settled EXCEPT !["queued"] = @ \cup {e}]
  /\ UNCHANGED <<started, loop, tokens, conn, answer, messages, stopping>>

(* Mutant: the handler ends after its first message. *)
HandlerEndEarly(c) ==
  /\ conn[c] = "handling"
  /\ entries[c] = {}
  /\ conn' = [conn EXCEPT ![c] = "done"]
  /\ handTokens' = handTokens - 1
  /\ UNCHANGED <<started, loop, connTokens, answer, messages, entries, settled, stopping>>

HandlerEnd(c) ==
  /\ conn[c] = "handling"
  /\ entries[c] = {} /\ messages[c] = <<>>
  /\ conn' = [conn EXCEPT ![c] = "done"]
  /\ handTokens' = handTokens - 1
  /\ UNCHANGED <<started, loop, connTokens, answer, messages, entries, settled, stopping>>

(* A handler's steps other than pushing. *)
HandlerStep(c) ==
  \/ HandlerStart(c)
  \/ ReadError(c) \/ ReadOk(c)
  \/ DecodeError(c) \/ DecodeOk(c)
  \/ NextMessage(c) \/ HandlerEnd(c)

LoopStep ==
  \/ Listen \/ ListenFail
  \/ LoopCheck \/ LoopAcceptError \/ LoopSpawn
  \/ \E c \in Conn : LoopAccept(c)

Next ==
  \/ LoopStep \/ Stop
  \/ \E c \in Conn : HandlerStep(c) \/ \E e \in Entry : PushEntry(c, e)

Spec == Init /\ [][Next]_vars

-----------------------------------------------------------------------------
(* Properties *)

In(states) == Cardinality({c \in Conn : conn[c] \in states})

(* Each return path of tcpHandler, with or without an answer, gives back   *)
(* the connection's token and the handler's token exactly once.            *)
TokensBalance ==
  /\ connTokens = In({"waiting", "reading"})
  /\ handTokens = In({"reading", "decoding", "handling"})

(* A client that was told of an error may send again without making        *)
(* duplicates: none of its messages was queued, or ever will be.  A client *)
(* that was told nothing cannot know: when the write of its OK failed, its *)
(* messages are queued all the same.                                       *)
ErrorNothingQueued ==
  \A c \in Conn :
    answer[c] = "error" => /\ conn[c] = "done"
                           /\ EntriesOf(c) \cap settled["queued"] = {}

(* The listener takes at most one connection after StopTCPListener has     *)
(* cleared its flag: the one the loop was already waiting for.  A stop     *)
(* that comes before the listener is up is forgotten.                      *)
AtMostOneLate == stop = "heard" => Cardinality(late) <= 1
=============================================================================
