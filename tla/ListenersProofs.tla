---------------------------- MODULE ListenersProofs ----------------------------
(* Theorems about Listeners, for every finite set of connections, every    *)
(* packet they may carry and every value of the three limits, 0 included.  *)
(* First each listener by itself, then both in one process, with the       *)
(* signal goroutine stopping them.                                         *)
EXTENDS Listeners, FiniteSetTheorems, TLAPS

(* The modules of the listeners count as this one does.                    *)
LEMMA SameCounting ==
  /\ \A S : Tcp!Cardinality(S) = Cardinality(S)
           /\ Smtp!Cardinality(S) = Cardinality(S)
  /\ \A S : (Tcp!IsFiniteSet(S) <=> IsFiniteSet(S))
           /\ (Smtp!IsFiniteSet(S) <=> IsFiniteSet(S))
  BY DEF Tcp!Cardinality, Smtp!Cardinality, Cardinality,
         Tcp!IsFiniteSet, Smtp!IsFiniteSet, IsFiniteSet

-----------------------------------------------------------------------------
(* The TCP listener *)

(* The connections that hold a token of each limiter.                      *)
ConnHolders == {c \in Conn : conn[c] \in {"waiting", "reading"}}
HandHolders == {c \in Conn : conn[c] \in {"reading", "decoding", "handling"}}

(* The loop spawns a handler for the connection it has accepted, which has *)
(* no token yet.                                                           *)
LoopHand ==
  loopPc = "limit" => loopConn \in Conn /\ conn[loopConn] = "accepted"

TokensInv == Tcp!TypeOK /\ Tcp!TokensBalance /\ LoopHand

-----------------------------------------------------------------------------
(* Counting: both sets are finite, a member more is a token more, a member *)
(* less a token less, and who holds a token is counted.                    *)
LEMMA HoldersFinite ==
  ASSUME Tcp!Constants
  PROVE  /\ IsFiniteSet(ConnHolders) /\ Cardinality(ConnHolders) \in Nat
         /\ IsFiniteSet(HandHolders) /\ Cardinality(HandHolders) \in Nat
<1>1. ConnHolders \in SUBSET Conn /\ HandHolders \in SUBSET Conn
  BY DEF ConnHolders, HandHolders
<1>2. IsFiniteSet(ConnHolders) /\ IsFiniteSet(HandHolders)
  BY <1>1, SameCounting, FS_Subset DEF Tcp!Constants
<1> QED
  BY <1>2, FS_CardinalityType

LEMMA OneMore ==
  ASSUME NEW S, IsFiniteSet(S), NEW c, c \notin S
  PROVE  Cardinality(S \cup {c}) = Cardinality(S) + 1
  BY FS_AddElement

LEMMA OneLess ==
  ASSUME NEW S, IsFiniteSet(S), NEW c \in S
  PROVE  Cardinality(S \ {c}) = Cardinality(S) - 1 /\ Cardinality(S) >= 1
<1>1. Cardinality(S) \in Nat /\ Cardinality(S) # 0
  BY FS_CardinalityType, FS_EmptySet
<1> QED
  BY <1>1, FS_RemoveElement

(* TokensBalance in terms of the two sets.                                 *)
LEMMA Balance ==
  Tcp!TokensBalance <=> /\ connTokens = Cardinality(ConnHolders)
                        /\ handTokens = Cardinality(HandHolders)
  BY SameCounting DEF Tcp!TokensBalance, Tcp!In, ConnHolders, HandHolders

-----------------------------------------------------------------------------
LEMMA InitTokensInv == ASSUME Tcp!Constants PROVE Tcp!Init => TokensInv
<1> SUFFICES ASSUME Tcp!Init PROVE TokensInv
  OBVIOUS
<1>1. ConnHolders = {} /\ HandHolders = {}
  BY DEF Tcp!Init, ConnHolders, HandHolders
<1>2. Tcp!TokensBalance
  BY <1>1, FS_EmptySet, Balance DEF Tcp!Init
<1>3. messages \in [Conn -> Seq(SUBSET Entry)]
  BY DEF Tcp!Init
<1>4. settled \in [{"queued", "dropped"} -> SUBSET Entry]
  BY DEF Tcp!Init
<1>5. connTokens \in 0..TCPMaxConnections /\ handTokens \in 0..TCPMaxHandlers
  BY DEF Tcp!Init, Tcp!Constants
<1>6. Tcp!TypeOK
  BY <1>3, <1>4, <1>5 DEF Tcp!Init, Tcp!TypeOK
<1> QED
  BY <1>2, <1>6 DEF Tcp!Init, TokensInv, LoopHand

(* A step that moves no token and leaves its holders alone.                *)
LEMMA SameTokens ==
  ASSUME TokensInv, Tcp!TypeOK', LoopHand', UNCHANGED Tcp!tokens,
         ConnHolders' = ConnHolders, HandHolders' = HandHolders
  PROVE  TokensInv'
<1>1. Tcp!TokensBalance'
  BY Balance
       DEF TokensInv, Tcp!tokens, Tcp!TokensBalance, Tcp!In, ConnHolders,
           HandHolders
<1> QED
  BY <1>1 DEF TokensInv

-----------------------------------------------------------------------------
(* The accept loop and the stop *)

LEMMA LoopQuietInv ==
  ASSUME Tcp!Constants, TokensInv,
         \/ Tcp!Listen \/ Tcp!ListenFail \/ Tcp!LoopCheck
         \/ Tcp!LoopAcceptError \/ Tcp!Stop
  PROVE  TokensInv'
<1>1. Tcp!TypeOK' /\ LoopHand'
  BY DEF Tcp!Listen, Tcp!ListenFail, Tcp!LoopCheck, Tcp!LoopAcceptError, Tcp!Stop,
         TokensInv, Tcp!TypeOK,
         LoopHand, Tcp!loop, Tcp!tokens, Tcp!handlers, Tcp!stopping
<1>2. UNCHANGED <<Tcp!tokens, conn>>
  BY DEF Tcp!Listen, Tcp!ListenFail, Tcp!LoopCheck, Tcp!LoopAcceptError, Tcp!Stop,
         Tcp!tokens, Tcp!handlers
<1> QED
  BY <1>1, <1>2, SameTokens DEF ConnHolders, HandHolders

LEMMA LoopAcceptInv ==
  ASSUME Tcp!Constants, TokensInv, NEW c \in Conn, Tcp!LoopAccept(c) PROVE TokensInv'
<1>1. Tcp!TypeOK' /\ LoopHand'
  BY DEF Tcp!LoopAccept, TokensInv, Tcp!TypeOK, LoopHand, Tcp!tokens
<1>2. ConnHolders' = ConnHolders /\ HandHolders' = HandHolders
  BY DEF Tcp!LoopAccept, TokensInv, Tcp!TypeOK, ConnHolders, HandHolders
<1> QED
  BY <1>1, <1>2, SameTokens DEF Tcp!LoopAccept

(* The new handler's token is taken for a connection that had none.        *)
LEMMA LoopSpawnInv ==
  ASSUME Tcp!Constants, TokensInv, Tcp!LoopSpawn PROVE TokensInv'
<1> DEFINE c == loopConn
<1>1. c \in Conn /\ conn[c] = "accepted" /\ conn' = [conn EXCEPT ![c] = "waiting"]
  BY DEF Tcp!LoopSpawn, TokensInv, LoopHand
<1>2. /\ c \notin ConnHolders /\ ConnHolders' = ConnHolders \cup {c}
      /\ HandHolders' = HandHolders
  BY <1>1 DEF TokensInv, Tcp!TypeOK, ConnHolders, HandHolders
<1>3. Cardinality(ConnHolders') = connTokens'
  BY <1>2, HoldersFinite, OneMore, Balance DEF Tcp!LoopSpawn, TokensInv
<1>4. Tcp!TokensBalance'
  BY <1>2, <1>3, Balance, SameCounting
     DEF Tcp!LoopSpawn, TokensInv, Tcp!TokensBalance, Tcp!In, ConnHolders, HandHolders
<1>5. connTokens' \in 0..TCPMaxConnections
  BY DEF Tcp!LoopSpawn, TokensInv, Tcp!TypeOK, Tcp!Constants
<1>6. Tcp!TypeOK' /\ LoopHand'
  BY <1>5 DEF Tcp!LoopSpawn, TokensInv, Tcp!TypeOK, LoopHand, Tcp!stopping
<1> QED
  BY <1>4, <1>6 DEF TokensInv

-----------------------------------------------------------------------------
(* tcpHandler *)

(* The loop's own connection is not touched by the handlers.               *)
LEMMA HandStays ==
  ASSUME TokensInv, NEW c \in Conn, conn[c] # "accepted",
         NEW s, conn' = [conn EXCEPT ![c] = s], UNCHANGED Tcp!loop
  PROVE  LoopHand'
  BY DEF TokensInv, Tcp!TypeOK, LoopHand, Tcp!loop

LEMMA HandlerStartInv ==
  ASSUME Tcp!Constants, TokensInv, NEW c \in Conn, Tcp!HandlerStart(c) PROVE TokensInv'
<1>1. conn[c] = "waiting" /\ conn' = [conn EXCEPT ![c] = "reading"]
  BY DEF Tcp!HandlerStart
<1>2. /\ c \notin HandHolders /\ HandHolders' = HandHolders \cup {c}
      /\ ConnHolders' = ConnHolders
  BY <1>1 DEF TokensInv, Tcp!TypeOK, ConnHolders, HandHolders
<1>3. Cardinality(HandHolders') = handTokens'
  BY <1>2, HoldersFinite, OneMore, Balance DEF Tcp!HandlerStart, TokensInv
<1>4. Tcp!TokensBalance'
  BY <1>2, <1>3, Balance, SameCounting
    
         DEF Tcp!HandlerStart, TokensInv, Tcp!TokensBalance, Tcp!In, ConnHolders,
             HandHolders
<1>5. handTokens' \in 0..TCPMaxHandlers
  BY DEF Tcp!HandlerStart, TokensInv, Tcp!TypeOK, Tcp!Constants
<1>6. Tcp!TypeOK'
  BY <1>5 DEF Tcp!HandlerStart, TokensInv, Tcp!TypeOK, Tcp!loop, Tcp!stopping
<1> QED
  BY <1>1, <1>4, <1>6, HandStays DEF Tcp!HandlerStart, TokensInv

(* The connection's token and the handler's go together.                   *)
LEMMA ReadErrorInv ==
  ASSUME Tcp!Constants, TokensInv, NEW c \in Conn, Tcp!ReadError(c) PROVE TokensInv'
<1>1. conn[c] = "reading" /\ conn' = [conn EXCEPT ![c] = "done"]
  BY DEF Tcp!ReadError
<1>2. /\ c \in ConnHolders /\ ConnHolders' = ConnHolders \ {c}
      /\ c \in HandHolders /\ HandHolders' = HandHolders \ {c}
  BY <1>1 DEF TokensInv, Tcp!TypeOK, ConnHolders, HandHolders
<1>3. Cardinality(ConnHolders') = connTokens' /\ connTokens >= 1
  BY <1>2, HoldersFinite, OneLess, Balance DEF Tcp!ReadError, TokensInv
<1>4. Cardinality(HandHolders') = handTokens' /\ handTokens >= 1
  BY <1>2, HoldersFinite, OneLess, Balance DEF Tcp!ReadError, TokensInv
<1>5. Tcp!TokensBalance'
  BY <1>3, <1>4, SameCounting DEF Tcp!TokensBalance, Tcp!In, ConnHolders, HandHolders
<1>6. connTokens' \in 0..TCPMaxConnections /\ handTokens' \in 0..TCPMaxHandlers
  BY <1>3, <1>4 DEF Tcp!ReadError, TokensInv, Tcp!TypeOK, Tcp!Constants
<1>7. Tcp!TypeOK'
  BY <1>6 DEF Tcp!ReadError, TokensInv, Tcp!TypeOK, Tcp!loop, Tcp!stopping
<1> QED
  BY <1>1, <1>5, <1>7, HandStays DEF Tcp!ReadError, TokensInv

(* The answer gives the connection's token back; the handler goes on.      *)
LEMMA ReadOkInv ==
  ASSUME Tcp!Constants, TokensInv, NEW c \in Conn, Tcp!ReadOk(c) PROVE TokensInv'
<1>1. conn[c] = "reading" /\ conn' = [conn EXCEPT ![c] = "decoding"]
  BY DEF Tcp!ReadOk
<1>2. /\ c \in ConnHolders /\ ConnHolders' = ConnHolders \ {c}
      /\ HandHolders' = HandHolders
  BY <1>1 DEF TokensInv, Tcp!TypeOK, ConnHolders, HandHolders
<1>3. Cardinality(ConnHolders') = connTokens' /\ connTokens >= 1
  BY <1>2, HoldersFinite, OneLess, Balance DEF Tcp!ReadOk, TokensInv
<1>4. Tcp!TokensBalance'
  BY <1>2, <1>3, Balance, SameCounting
     DEF Tcp!ReadOk, TokensInv, Tcp!TokensBalance, Tcp!In, ConnHolders, HandHolders
<1>5. connTokens' \in 0..TCPMaxConnections
  BY <1>3 DEF Tcp!ReadOk, TokensInv, Tcp!TypeOK, Tcp!Constants
<1>6. Tcp!TypeOK'
  BY <1>5 DEF Tcp!ReadOk, TokensInv, Tcp!TypeOK, Tcp!loop, Tcp!stopping
<1> QED
  BY <1>1, <1>4, <1>6, HandStays DEF Tcp!ReadOk, TokensInv

(* The deferred function gives the handler's token back, after a packet    *)
(* that does not decode or at the end of its messages.                     *)
LEMMA HandlerDoneInv ==
  ASSUME Tcp!Constants, TokensInv, NEW c \in Conn,
         Tcp!DecodeError(c) \/ Tcp!HandlerEnd(c)
  PROVE  TokensInv'
<1>1. /\ conn[c] \in {"decoding", "handling"} /\ conn' = [conn EXCEPT ![c] = "done"]
      /\ handTokens' = handTokens - 1
      /\ UNCHANGED <<started, Tcp!loop, connTokens, answer, messages,
                      entries, settled, Tcp!stopping>>
  BY DEF Tcp!DecodeError, Tcp!HandlerEnd
<1>2. /\ c \in HandHolders /\ HandHolders' = HandHolders \ {c}
      /\ ConnHolders' = ConnHolders
  BY <1>1 DEF TokensInv, Tcp!TypeOK, ConnHolders, HandHolders
<1>3. Cardinality(HandHolders') = handTokens' /\ handTokens >= 1
  BY <1>1, <1>2, HoldersFinite, OneLess, Balance DEF TokensInv
<1>4. Tcp!TokensBalance'
  BY <1>1, <1>2, <1>3, Balance, SameCounting
     DEF TokensInv, Tcp!TokensBalance, Tcp!In, ConnHolders, HandHolders
<1>5. handTokens' \in 0..TCPMaxHandlers
  BY <1>1, <1>3 DEF TokensInv, Tcp!TypeOK, Tcp!Constants
<1>6. Tcp!TypeOK'
  BY <1>1, <1>5 DEF TokensInv, Tcp!TypeOK, Tcp!loop, Tcp!stopping
<1> QED
  BY <1>1, <1>4, <1>6, HandStays DEF TokensInv

(* Decoding, and the loop over messages and domains, move no token.        *)
LEMMA HandlerQuietInv ==
  ASSUME Tcp!Constants, TokensInv, NEW c \in Conn,
         Tcp!DecodeOk(c) \/ Tcp!NextMessage(c) \/ (\E e \in Entry : Tcp!PushEntry(c, e))
  PROVE  TokensInv'
<1>1. CASE Tcp!DecodeOk(c)
  <2>1. Packet[c] \in Seq(SUBSET Entry)
    BY DEF Tcp!Constants
  <2>2. Tcp!TypeOK'
    BY <1>1, <2>1
         DEF Tcp!DecodeOk, TokensInv, Tcp!TypeOK, Tcp!loop, Tcp!tokens, Tcp!stopping
  <2>3. LoopHand'
    BY <1>1, HandStays DEF Tcp!DecodeOk
  <2>4. ConnHolders' = ConnHolders /\ HandHolders' = HandHolders
    BY <1>1 DEF Tcp!DecodeOk, TokensInv, Tcp!TypeOK, ConnHolders, HandHolders
  <2> QED
    BY <1>1, <2>2, <2>3, <2>4, SameTokens DEF Tcp!DecodeOk
<1>2. CASE Tcp!NextMessage(c)
  <2>1. messages[c] \in Seq(SUBSET Entry) /\ messages[c] # <<>>
    BY <1>2 DEF Tcp!NextMessage, TokensInv, Tcp!TypeOK
  <2>2. Head(messages[c]) \in SUBSET Entry /\ Tail(messages[c]) \in Seq(SUBSET Entry)
    BY <2>1
  <2>3. messages' \in [Conn -> Seq(SUBSET Entry)]
    BY <1>2, <2>2 DEF Tcp!NextMessage, TokensInv, Tcp!TypeOK
  <2>4. PICK found \in SUBSET Head(messages[c]) :
          /\ entries' = [entries EXCEPT ![c] = found]
          /\ settled' = [settled EXCEPT !["dropped"] = @ \cup (Head(messages[c]) \ found)]
    BY <1>2 DEF Tcp!NextMessage
  <2>5. /\ entries' \in [Conn -> SUBSET Entry]
        /\ settled' \in [{"queued", "dropped"} -> SUBSET Entry]
    BY <2>2, <2>4 DEF TokensInv, Tcp!TypeOK
  <2>6. Tcp!TypeOK' /\ LoopHand'
    BY <1>2, <2>3, <2>5
      
           DEF Tcp!NextMessage, TokensInv, Tcp!TypeOK, LoopHand, Tcp!loop,
               Tcp!tokens, Tcp!stopping
  <2> QED
    BY <1>2, <2>6, SameTokens DEF Tcp!NextMessage, ConnHolders, HandHolders
<1>3. ASSUME NEW e \in Entry, Tcp!PushEntry(c, e) PROVE TokensInv'
  <2>1. Tcp!TypeOK' /\ LoopHand'
    BY <1>3
         DEF Tcp!PushEntry, TokensInv, Tcp!TypeOK, LoopHand, Tcp!loop, Tcp!tokens,
             Tcp!stopping
  <2> QED
    BY <1>3, <2>1, SameTokens DEF Tcp!PushEntry, ConnHolders, HandHolders
<1> QED
  BY <1>1, <1>2, <1>3

-----------------------------------------------------------------------------
LEMMA NextTokensInv ==
  ASSUME Tcp!Constants, TokensInv, [Tcp!Next]_Tcp!vars PROVE TokensInv'
<1>1. CASE UNCHANGED Tcp!vars
  BY <1>1, SameTokens
    
         DEF Tcp!vars, Tcp!loop, Tcp!tokens, Tcp!handlers, Tcp!stopping, TokensInv,
             Tcp!TypeOK, LoopHand,
         ConnHolders, HandHolders
<1>2. CASE Tcp!LoopStep \/ Tcp!Stop
  BY <1>2, LoopQuietInv, LoopAcceptInv, LoopSpawnInv DEF Tcp!LoopStep
<1>3. ASSUME NEW c \in Conn, Tcp!HandlerStep(c) \/ \E e \in Entry : Tcp!PushEntry(c, e)
      PROVE  TokensInv'
  BY <1>3, HandlerStartInv, ReadErrorInv, ReadOkInv, HandlerDoneInv,
     HandlerQuietInv DEF Tcp!HandlerStep
<1> QED
  BY <1>1, <1>2, <1>3 DEF Tcp!Next

-----------------------------------------------------------------------------
(* A stop that finds the listener up leaves at most the one accept that    *)
(* was under way: after it the flag is down, and the loop comes back to    *)
(* the flag before it accepts again.                                       *)
LateInv ==
  /\ stop = "none" => late = {}
  /\ stop = "heard" =>
       /\ ~started /\ loopPc # "unbound"
       /\ loopPc = "accept" => late = {}
       /\ Cardinality(late) <= 1

LEMMA InitLateInv == Tcp!Init => LateInv
  BY DEF Tcp!Init, LateInv

LEMMA NextLateInv == ASSUME Tcp!TypeOK, LateInv, [Tcp!Next]_Tcp!vars PROVE LateInv'
<1>1. Cardinality({}) = 0
  BY FS_EmptySet
<1>2. CASE Tcp!Stop
  BY <1>1, <1>2 DEF Tcp!Stop, LateInv, Tcp!loop
<1>3. ASSUME NEW c \in Conn, Tcp!LoopAccept(c) PROVE LateInv'
  <2>1. CASE stop = "heard"
    <3>1. late' = {c}
      BY <1>3, <2>1 DEF Tcp!LoopAccept, LateInv
    <3>2. Cardinality(late') = 1
      BY <3>1, FS_Singleton
    <3> QED
      BY <1>3, <2>1, <3>2 DEF Tcp!LoopAccept, LateInv
  <2>2. CASE stop # "heard"
    BY <1>3, <2>2 DEF Tcp!LoopAccept, LateInv
  <2> QED
    BY <2>1, <2>2
<1>4. CASE \/ Tcp!Listen \/ Tcp!ListenFail \/ Tcp!LoopCheck
           \/ Tcp!LoopAcceptError \/ Tcp!LoopSpawn
  BY <1>4
       DEF Tcp!Listen, Tcp!ListenFail, Tcp!LoopCheck, Tcp!LoopAcceptError,
           Tcp!LoopSpawn, LateInv, Tcp!stopping
<1>5. ASSUME UNCHANGED <<started, Tcp!loop, Tcp!stopping>> PROVE LateInv'
  BY <1>5 DEF LateInv, Tcp!loop, Tcp!stopping
<1>6. ASSUME NEW c \in Conn, Tcp!HandlerStep(c) \/ \E e \in Entry : Tcp!PushEntry(c, e)
      PROVE  UNCHANGED <<started, Tcp!loop, Tcp!stopping>>
  BY <1>6
       DEF Tcp!HandlerStep, Tcp!HandlerStart, Tcp!ReadError, Tcp!ReadOk,
           Tcp!DecodeError, Tcp!DecodeOk,
              Tcp!NextMessage, Tcp!HandlerEnd, Tcp!PushEntry
<1> QED
  BY <1>2, <1>3, <1>4, <1>5, <1>6 DEF Tcp!Next, Tcp!LoopStep, Tcp!vars

-----------------------------------------------------------------------------
(* Nothing is told to a client before its packet is read, a handler that   *)
(* goes on has told its client no error, what a handler has in hand is its *)
(* own packet's, and a connection that has not got so far, or was told of  *)
(* an error, has nothing in the queue.                                     *)
OwnEntries(c) ==
  /\ \A k \in 1..Len(messages[c]) : messages[c][k] \subseteq Tcp!EntriesOf(c)
  /\ entries[c] \subseteq Tcp!EntriesOf(c)

Unanswered == {"client", "accepted", "waiting", "reading"}

AnswerInv ==
  \A c \in Conn :
    /\ conn[c] \in Unanswered => answer[c] = "none"
    /\ conn[c] \in {"decoding", "handling"} => answer[c] # "error"
    /\ conn[c] \in Unanswered \/ answer[c] = "error" =>
         Tcp!EntriesOf(c) \cap settled["queued"] = {}
    /\ OwnEntries(c)

LEMMA InitAnswerInv == ASSUME Tcp!Constants PROVE Tcp!Init => AnswerInv
<1> SUFFICES ASSUME Tcp!Init, NEW c \in Conn
             PROVE  /\ conn[c] = "client" /\ answer[c] = "none"
                    /\ entries[c] = {} /\ messages[c] = <<>>
                    /\ settled["queued"] = {}
  BY DEF AnswerInv, OwnEntries, Unanswered
<1> QED
  BY DEF Tcp!Init

(* A message of the rest of a sequence is a message of the sequence.       *)
LEMMA TailMessages ==
  ASSUME NEW S, NEW q \in Seq(S), q # <<>>, NEW E,
         \A k \in 1..Len(q) : q[k] \subseteq E
  PROVE  /\ Head(q) \subseteq E
         /\ \A k \in 1..Len(Tail(q)) : Tail(q)[k] \subseteq E
<1>1. Len(q) \in Nat \ {0} /\ Len(Tail(q)) = Len(q) - 1 /\ Head(q) = q[1]
  OBVIOUS
<1>2. ASSUME NEW k \in 1..Len(Tail(q))
      PROVE  Tail(q)[k] = q[k + 1] /\ k + 1 \in 1..Len(q)
  BY <1>1
<1>3. Head(q) \subseteq E
  BY <1>1
<1> QED
  BY <1>2, <1>3

(* The steps of one connection before its packet is decoded.               *)
LEMMA AnswerStep ==
  ASSUME Tcp!TypeOK, AnswerInv, NEW c \in Conn,
         \/ Tcp!HandlerStart(c) \/ Tcp!ReadError(c) \/ Tcp!ReadOk(c)
         \/ Tcp!DecodeError(c) \/ Tcp!HandlerEnd(c)
  PROVE  AnswerInv'
<1>1. UNCHANGED <<messages, entries, settled>>
  BY DEF Tcp!HandlerStart, Tcp!ReadError, Tcp!ReadOk, Tcp!DecodeError, Tcp!HandlerEnd
<1>2. /\ conn'[c] \in Unanswered \/ answer'[c] = "error" =>
           conn[c] \in Unanswered \/ answer[c] = "error"
      /\ conn'[c] \in Unanswered => answer'[c] = "none"
      /\ conn'[c] \in {"decoding", "handling"} => answer'[c] # "error"
  BY DEF Unanswered, Tcp!HandlerStart, Tcp!ReadError, Tcp!ReadOk, Tcp!DecodeError,
         Tcp!HandlerEnd, AnswerInv, Tcp!TypeOK
<1>3. \A d \in Conn \ {c} : conn'[d] = conn[d] /\ answer'[d] = answer[d]
  BY DEF Tcp!HandlerStart, Tcp!ReadError, Tcp!ReadOk, Tcp!DecodeError,
         Tcp!HandlerEnd, Tcp!TypeOK
<1>4. \A d \in Conn : OwnEntries(d)'
  BY <1>1 DEF AnswerInv, OwnEntries
<1> QED
  BY <1>1, <1>2, <1>3, <1>4 DEF AnswerInv

(* The loop over messages and domains.                                     *)
LEMMA HandlingStep ==
  ASSUME Tcp!Constants, Tcp!TypeOK, AnswerInv, NEW c \in Conn,
         Tcp!DecodeOk(c) \/ Tcp!NextMessage(c) \/ (\E e \in Entry : Tcp!PushEntry(c, e))
  PROVE  AnswerInv'
<1>1. /\ answer[c] # "error" /\ UNCHANGED answer
      /\ conn'[c] = "handling" /\ conn'[c] \notin Unanswered
  BY DEF Unanswered, Tcp!DecodeOk, Tcp!NextMessage, Tcp!PushEntry, AnswerInv, Tcp!TypeOK
<1>2. \A d \in Conn \ {c} : /\ conn'[d] = conn[d]
                            /\ entries'[d] = entries[d] /\ messages'[d] = messages[d]
  BY DEF Tcp!DecodeOk, Tcp!NextMessage, Tcp!PushEntry, Tcp!TypeOK
<1>3. settled'["queued"] \subseteq settled["queued"] \cup Tcp!EntriesOf(c)
  BY DEF Tcp!DecodeOk, Tcp!NextMessage, Tcp!PushEntry, AnswerInv, OwnEntries, Tcp!TypeOK
<1>4. OwnEntries(c)'
  <2>1. CASE Tcp!DecodeOk(c)
    <3>1. \A k \in 1..Len(Packet[c]) : Packet[c][k] \subseteq Tcp!EntriesOf(c)
      BY DEF Tcp!EntriesOf
    <3>2. messages'[c] = Packet[c] /\ entries'[c] = entries[c]
      BY <2>1 DEF Tcp!DecodeOk, Tcp!TypeOK
    <3> QED
      BY <3>1, <3>2 DEF OwnEntries, AnswerInv, Tcp!EntriesOf
  <2>2. CASE Tcp!NextMessage(c)
    <3>1. /\ messages[c] \in Seq(SUBSET Entry) /\ messages[c] # <<>>
          /\ \A k \in 1..Len(messages[c]) : messages[c][k] \subseteq Tcp!EntriesOf(c)
      BY <2>2 DEF Tcp!NextMessage, AnswerInv, OwnEntries, Tcp!TypeOK
    <3>2. messages'[c] = Tail(messages[c]) /\ entries'[c] \subseteq Head(messages[c])
      BY <2>2 DEF Tcp!NextMessage, Tcp!TypeOK
    <3>3. /\ Head(messages[c]) \subseteq Tcp!EntriesOf(c)
          /\ \A k \in 1..Len(Tail(messages[c])) :
               Tail(messages[c])[k] \subseteq Tcp!EntriesOf(c)
      BY <3>1, TailMessages
    <3> QED
      BY <3>2, <3>3 DEF OwnEntries, Tcp!EntriesOf
  <2>3. CASE \E e \in Entry : Tcp!PushEntry(c, e)
    BY <2>3 DEF Tcp!PushEntry, OwnEntries, AnswerInv, Tcp!EntriesOf, Tcp!TypeOK
  <2> QED
    BY <2>1, <2>2, <2>3
<1>5. ASSUME NEW d \in Conn \ {c}, conn[d] \in Unanswered \/ answer[d] = "error"
      PROVE  Tcp!EntriesOf(d) \cap settled'["queued"] = {}
  BY <1>3, <1>5 DEF AnswerInv, Tcp!Constants
<1>6. \A d \in Conn : OwnEntries(d)'
  BY <1>2, <1>4 DEF AnswerInv, OwnEntries, Tcp!EntriesOf
<1> QED
  BY <1>1, <1>2, <1>5, <1>6 DEF AnswerInv

LEMMA NextAnswerInv ==
  ASSUME Tcp!Constants, Tcp!TypeOK, LoopHand, AnswerInv, [Tcp!Next]_Tcp!vars
  PROVE  AnswerInv'
<1>1. CASE Tcp!LoopStep \/ Tcp!Stop \/ UNCHANGED Tcp!vars
  <2>1. UNCHANGED <<answer, messages, entries, settled>>
    BY <1>1
         DEF Tcp!LoopStep, Tcp!Listen, Tcp!ListenFail, Tcp!LoopCheck, Tcp!LoopAccept,
             Tcp!LoopAcceptError,
                Tcp!LoopSpawn, Tcp!Stop, Tcp!vars, Tcp!handlers
  <2>2. \A c \in Conn :
          conn'[c] = conn[c] \/ (/\ conn[c] \in {"client", "accepted"}
                                /\ conn'[c] \in {"accepted", "waiting"})
    BY <1>1
         DEF Tcp!LoopStep, Tcp!Listen, Tcp!ListenFail, Tcp!LoopCheck, Tcp!LoopAccept,
             Tcp!LoopAcceptError,
                Tcp!LoopSpawn, Tcp!Stop, Tcp!vars, Tcp!handlers, Tcp!TypeOK, LoopHand
  <2>3. \A c \in Conn : OwnEntries(c)'
    BY <2>1 DEF AnswerInv, OwnEntries, Tcp!EntriesOf
  <2> QED
    BY <2>1, <2>2, <2>3 DEF AnswerInv, Unanswered
<1>2. ASSUME NEW c \in Conn, Tcp!HandlerStep(c) \/ \E e \in Entry : Tcp!PushEntry(c, e)
      PROVE  AnswerInv'
  BY <1>2, AnswerStep, HandlingStep DEF Tcp!HandlerStep
<1> QED
  BY <1>1, <1>2 DEF Tcp!Next

-----------------------------------------------------------------------------
(* The SMTP server *)

(* The connections that hold a slot of the limiter.                        *)
Holding == {i \in Session : session[i] \in {"open", "leaving"}}

-----------------------------------------------------------------------------
(* The limiter has a capacity, whatever is configured.                     *)
LEMMA LimitType == ASSUME Smtp!Constants PROVE Smtp!Limit \in Nat
<1>1. Cardinality(Session) \in Nat
  BY SameCounting, FS_CardinalityType DEF Smtp!Constants
<1> QED
  BY <1>1, SameCounting DEF Smtp!Constants, Smtp!Limit

(* The connections with a slot are finitely many.                          *)
LEMMA HoldingFinite ==
  ASSUME Smtp!Constants PROVE IsFiniteSet(Holding) /\ Cardinality(Holding) \in Nat
<1>1. Holding \in SUBSET Session
  BY DEF Holding
<1>2. IsFiniteSet(Holding)
  BY <1>1, SameCounting, FS_Subset DEF Smtp!Constants
<1> QED
  BY <1>2, FS_CardinalityType

-----------------------------------------------------------------------------
(* TypeOK and SlotsExact need each other: that slots stays above zero when *)
(* a session ends is known from the exact count, and the count changes by  *)
(* one only because a session is in one place of its life at a time.       *)
SmtpInv == Smtp!TypeOK /\ Smtp!SlotsExact

LEMMA InitSmtpInv == ASSUME Smtp!Constants PROVE Smtp!Init => SmtpInv
<1> SUFFICES ASSUME Smtp!Init PROVE SmtpInv
  OBVIOUS
<1>1. Smtp!Limit \in Nat
  BY LimitType
<1>2. Holding = {}
  BY DEF Smtp!Init, Holding
<1>3. Cardinality(Holding) = 0
  BY <1>2, FS_EmptySet
<1>4. slots \in 0..Smtp!Limit /\ slots <= Smtp!Limit
  BY <1>1 DEF Smtp!Init
<1>5. Smtp!TypeOK
  BY <1>4 DEF Smtp!Init, Smtp!TypeOK
<1> QED
  BY <1>3, <1>4, <1>5, SameCounting DEF Smtp!Init, SmtpInv, Smtp!SlotsExact, Holding

(* A connection moves between places that hold no slot, or that hold one.  *)
LEMMA SameHolding ==
  ASSUME Smtp!Constants, SmtpInv, Smtp!TypeOK', Holding' = Holding, slots' = slots
  PROVE  SmtpInv'
<1>1. slots' = Cardinality(Holding') /\ slots' <= Smtp!Limit
  BY SameCounting DEF SmtpInv, Smtp!SlotsExact, Holding
<1> QED
  BY <1>1, SameCounting DEF SmtpInv, Smtp!SlotsExact, Holding

LEMMA AdmitInv ==
  ASSUME Smtp!Constants, SmtpInv, NEW i \in Session, Smtp!Admit(i) PROVE SmtpInv'
<1>1. Smtp!Limit \in Nat /\ slots \in Nat /\ slots = Cardinality(Holding)
  BY LimitType, SameCounting DEF SmtpInv, Smtp!TypeOK, Smtp!SlotsExact, Holding
<1>2. slots' = slots + 1 /\ slots' \in 0..Smtp!Limit
  BY <1>1 DEF Smtp!Admit, SmtpInv, Smtp!TypeOK
<1>3. i \notin Holding /\ Holding' = Holding \cup {i}
  BY DEF Smtp!Admit, SmtpInv, Smtp!TypeOK, Holding
<1>4. Cardinality(Holding') = slots'
  BY <1>1, <1>2, <1>3, HoldingFinite, FS_AddElement
<1>5. Smtp!TypeOK'
  BY <1>2 DEF Smtp!Admit, SmtpInv, Smtp!TypeOK
<1> QED
  BY <1>1, <1>2, <1>4, <1>5, SameCounting DEF SmtpInv, Smtp!SlotsExact, Holding

LEMMA CloseInv ==
  ASSUME Smtp!Constants, SmtpInv, NEW i \in Session, Smtp!Close(i) PROVE SmtpInv'
<1>1. Smtp!Limit \in Nat /\ slots \in 0..Smtp!Limit /\ slots = Cardinality(Holding)
  BY LimitType, SameCounting DEF SmtpInv, Smtp!TypeOK, Smtp!SlotsExact, Holding
<1>2. i \in Holding /\ Holding' = Holding \ {i}
  BY DEF Smtp!Close, SmtpInv, Smtp!TypeOK, Holding
<1>3. Holding # {} /\ Cardinality(Holding) # 0
  BY <1>2, HoldingFinite, FS_EmptySet
<1>4. slots' = slots - 1 /\ slots' \in 0..Smtp!Limit
  BY <1>1, <1>3 DEF Smtp!Close
<1>5. Cardinality(Holding') = slots'
  BY <1>1, <1>2, <1>4, HoldingFinite, FS_RemoveElement
<1>6. Smtp!TypeOK'
  BY <1>4 DEF Smtp!Close, SmtpInv, Smtp!TypeOK
<1> QED
  BY <1>1, <1>4, <1>5, <1>6, SameCounting DEF SmtpInv, Smtp!SlotsExact, Holding

-----------------------------------------------------------------------------
LEMMA NextSmtpInv ==
  ASSUME Smtp!Constants, SmtpInv, [Smtp!Next]_Smtp!vars PROVE SmtpInv'
<1> USE DEF SmtpInv
<1>1. CASE UNCHANGED Smtp!vars
  BY <1>1, SameHolding DEF Smtp!vars, Smtp!TypeOK, Holding
<1>2. CASE \/ Smtp!Start \/ Smtp!ListenFail \/ Smtp!ServeBegin
           \/ Smtp!Stop \/ Smtp!AcceptError
  BY <1>2, SameHolding
    
         DEF Smtp!Start, Smtp!ListenFail, Smtp!ServeBegin, Smtp!Stop,
             Smtp!AcceptError, Smtp!TypeOK, Holding
<1>3. CASE Smtp!AcceptStopped
  <2>1. Smtp!TypeOK'
    BY <1>3 DEF Smtp!AcceptStopped, Smtp!TypeOK
  <2>2. Holding' = Holding
    BY <1>3 DEF Smtp!AcceptStopped, Smtp!TypeOK, Holding
  <2> QED
    BY <1>3, <2>1, <2>2, SameHolding DEF Smtp!AcceptStopped
<1>4. ASSUME NEW i \in Session,
             Smtp!Accept(i) \/ Smtp!Serve(i) \/ Smtp!Reject(i) \/ Smtp!Leave(i)
      PROVE  SmtpInv'
  <2>1. Smtp!TypeOK'
    BY <1>4 DEF Smtp!Accept, Smtp!Serve, Smtp!Reject, Smtp!Leave, Smtp!TypeOK
  <2>2. Holding' = Holding
    BY <1>4 DEF Smtp!Accept, Smtp!Serve, Smtp!Reject, Smtp!Leave, Smtp!TypeOK, Holding
  <2> QED
    BY <1>4, <2>1, <2>2, SameHolding
         DEF Smtp!Accept, Smtp!Serve, Smtp!Reject, Smtp!Leave
<1> QED
  BY <1>1, <1>2, <1>3, <1>4, AdmitInv, CloseInv
       DEF Smtp!Next, Smtp!LoopStep, Smtp!SessionStep

-----------------------------------------------------------------------------
(* Both *)

(* The TCP listener's invariants together.                                 *)
TcpInv == TokensInv /\ LateInv /\ AnswerInv

Inv == TcpInv /\ SmtpInv

LEMMA InitInv == Init => Inv
  BY ListenersAssumption, InitTokensInv, InitLateInv, InitAnswerInv, InitSmtpInv
     DEF Init, Inv, TcpInv

LEMMA TcpMoves == TcpInv /\ [Tcp!Next]_Tcp!vars => TcpInv'
  BY ListenersAssumption, NextTokensInv, NextLateInv, NextAnswerInv
     DEF TcpInv, TokensInv

LEMMA TcpQuiet == TcpInv /\ UNCHANGED tcpVars => TcpInv'
<1> SUFFICES ASSUME TcpInv, UNCHANGED tcpVars PROVE TcpInv'
  OBVIOUS
<1>1. UNCHANGED Tcp!vars
  BY DEF tcpVars, Tcp!vars, Tcp!loop, Tcp!tokens, Tcp!handlers, Tcp!stopping
<1> QED
  BY <1>1, TcpMoves

LEMMA SmtpMoves == SmtpInv /\ [Smtp!Next]_Smtp!vars => SmtpInv'
  BY ListenersAssumption, NextSmtpInv

LEMMA SmtpQuiet == SmtpInv /\ UNCHANGED smtpVars => SmtpInv'
<1> SUFFICES ASSUME SmtpInv, UNCHANGED smtpVars PROVE SmtpInv'
  OBVIOUS
<1>1. UNCHANGED Smtp!vars
  BY DEF smtpVars, Smtp!vars
<1> QED
  BY <1>1, SmtpMoves

(* A step of the process is a step of one listener, or a step of neither;  *)
(* in the signal goroutine one listener is stopped after the other.        *)
LEMMA NextInv == Inv /\ [Next]_vars => Inv'
<1> SUFFICES ASSUME Inv, [Next]_vars PROVE Inv'
  OBVIOUS
<1>1. CASE UNCHANGED vars \/ StopSignal \/ TcpStopped
  BY <1>1, TcpQuiet, SmtpQuiet DEF vars, StopSignal, TcpStopped, Inv
<1>2. CASE TcpStep \/ \E c \in Conn, e \in Entry : TcpPush(c, e)
  <2>1. Tcp!Next /\ UNCHANGED smtpVars
    BY <1>2 DEF TcpStep, TcpPush, Tcp!Next
  <2> QED
    BY <2>1, TcpMoves, SmtpQuiet DEF Inv
<1>3. CASE SmtpStep \/ \E i \in Session : SmtpMessage(i)
  <2>1. Smtp!Next /\ UNCHANGED tcpVars
    BY <1>3 DEF SmtpStep, SmtpMessage, Smtp!Next, Smtp!SessionStep
  <2> QED
    BY <2>1, SmtpMoves, TcpQuiet DEF Inv
<1>4. CASE StopSmtp
  <2>1. (Smtp!Next \/ UNCHANGED smtpVars) /\ UNCHANGED tcpVars
    BY <1>4 DEF StopSmtp, Smtp!Next
  <2> QED
    BY <2>1, SmtpMoves, SmtpQuiet, TcpQuiet DEF Inv
<1>5. CASE SmtpStopped
  <2>1. Tcp!Next /\ UNCHANGED smtpVars
    BY <1>5 DEF SmtpStopped, Tcp!Next
  <2> QED
    BY <2>1, TcpMoves, SmtpQuiet DEF Inv
<1> QED
  BY <1>1, <1>2, <1>3, <1>4, <1>5 DEF Next, StopListeners

LEMMA AlwaysInv == Spec => []Inv
  BY InitInv, NextInv, PTL DEF Spec

-----------------------------------------------------------------------------
(* Every return path of the TCP handlers gives back its tokens, and only   *)
(* its own, with the listener stopped at any time.                         *)
THEOREM TokensAlwaysBalance == Spec => []TokensBalance
<1>1. Inv => TokensBalance
  BY DEF Inv, TcpInv, TokensInv, TokensBalance
<1> QED
  BY <1>1, AlwaysInv, PTL

(* Who was told of an error has nothing queued, now or later, and may send *)
(* again: an error is told only before the packet is decoded, the handler  *)
(* that told it ends, and only what a connection carried is ever queued    *)
(* for it.  Nothing is said of a client that was told nothing.             *)
THEOREM ErrorMeansNotQueued == Spec => []ErrorNothingQueued
<1>1. Inv => ErrorNothingQueued
  BY DEF Inv, TcpInv, TokensInv, Tcp!TypeOK, AnswerInv, Unanswered,
         ErrorNothingQueued, Tcp!ErrorNothingQueued
<1> QED
  BY <1>1, AlwaysInv, PTL

(* A TCP listener that was up when GracefullyStop came to it accepts at    *)
(* most the connection it was waiting for.                                 *)
THEOREM LateAtMostOne == Spec => []AtMostOneLate
<1>1. Inv => AtMostOneLate
  BY SameCounting DEF Inv, TcpInv, LateInv, AtMostOneLate, Tcp!AtMostOneLate
<1> QED
  BY <1>1, AlwaysInv, PTL

(* SMTP sessions and slots of the limiter correspond, and never more than  *)
(* MaxIncomingConnections are open.                                        *)
THEOREM SlotsAlwaysExact == Spec => []SlotsExact
<1>1. Inv => SlotsExact
  BY DEF Inv, SmtpInv, SlotsExact
<1> QED
  BY <1>1, AlwaysInv, PTL

(* The variables of the process keep their types, the limits of tokens and *)
(* slots among them.                                                       *)
THEOREM TypesHold == Spec => []TypeOK
<1> DEFINE PcOK == stopPc \in {"run", "smtp", "smtpWait", "tcp", "stopped", "crashed"}
<1>1. Init => PcOK
  BY DEF Init
<1>2. PcOK /\ [Next]_vars => PcOK'
  BY DEF Next, vars, TcpStep, TcpPush, SmtpStep, SmtpMessage, StopSignal,
         StopListeners, StopSmtp, SmtpStopped, TcpStopped
<1>3. Inv /\ PcOK => TypeOK
  BY DEF Inv, TcpInv, TokensInv, SmtpInv, TypeOK
<1> QED
  BY <1>1, <1>2, <1>3, AlwaysInv, PTL DEF Spec

-----------------------------------------------------------------------------
(* Once Stop has closed the channel the listener exists and its loop can   *)
(* only end; once Wait has returned no connection is in the loop's hand.   *)
StopInv ==
  /\ stopPc \in {"smtpWait", "tcp", "stopped"} => stopped /\ Smtp!HasListener
  /\ stopPc \in {"tcp", "stopped"} => acceptLoop # "serve"

LEMMA InitStopInv == Init => StopInv
  BY DEF Init, StopInv

LEMMA NextStopInv == StopInv /\ [Next]_vars => StopInv'
<1> SUFFICES ASSUME StopInv, [Next]_vars PROVE StopInv'
  OBVIOUS
<1>1. CASE UNCHANGED vars \/ TcpStep \/ \E c \in Conn, e \in Entry : TcpPush(c, e)
  BY <1>1 DEF vars, smtpVars, TcpStep, TcpPush, StopInv, Smtp!HasListener
<1>2. CASE SmtpStep \/ \E i \in Session : SmtpMessage(i)
  BY <1>2
     DEF SmtpStep, SmtpMessage, StopInv, Smtp!HasListener, Smtp!LoopStep,
         Smtp!SessionStep, Smtp!Start, Smtp!ListenFail, Smtp!ServeBegin,
         Smtp!AcceptStopped, Smtp!AcceptError, Smtp!Accept, Smtp!Serve, Smtp!Admit,
         Smtp!Reject, Smtp!Leave, Smtp!Close
<1>3. CASE StopSignal \/ StopSmtp
  BY <1>3 DEF StopSignal, StopSmtp, Smtp!Stop, smtpVars, StopInv, Smtp!HasListener
<1>4. CASE SmtpStopped \/ TcpStopped
  BY <1>4 DEF SmtpStopped, TcpStopped, Smtp!StopReturns, Smtp!WaitGroup, smtpVars,
              StopInv, Smtp!HasListener
<1> QED
  BY <1>1, <1>2, <1>3, <1>4 DEF Next, StopListeners

(* No connection becomes a session after StopSMTPServer has returned, also *)
(* when it did not wait because the accept loop had not begun.             *)
THEOREM NothingBegunAfterStop == Spec => NoSessionAfterStop
<1>1. Inv /\ StopInv /\ [Next]_vars =>
        [(stopPc \in {"tcp", "stopped"}) =>
           \A i \in Session : session'[i] = "begun" => session[i] = "begun"]_vars
  <2> SUFFICES ASSUME Inv, StopInv, Next, stopPc \in {"tcp", "stopped"},
                      NEW i \in Session, session'[i] = "begun"
               PROVE  session[i] = "begun"
    OBVIOUS
  <2>1. CASE SmtpStep \/ \E j \in Session : SmtpMessage(j)
    <3>1. session \in [Session -> {"client", "accepted", "begun", "open", "rejected",
                                   "leaving", "done"}]
      BY DEF Inv, SmtpInv, Smtp!TypeOK
    <3> QED
      BY <2>1, <3>1
         DEF SmtpStep, SmtpMessage, StopInv, Smtp!LoopStep, Smtp!SessionStep,
             Smtp!Start, Smtp!ListenFail, Smtp!ServeBegin, Smtp!AcceptStopped,
             Smtp!AcceptError, Smtp!Accept, Smtp!Serve, Smtp!Admit, Smtp!Reject,
             Smtp!Leave, Smtp!Close
  <2>2. CASE ~(SmtpStep \/ \E j \in Session : SmtpMessage(j))
    <3>1. UNCHANGED session
      BY <2>2 DEF Next, TcpStep, TcpPush, StopSignal, StopListeners, StopSmtp,
                  SmtpStopped, TcpStopped, Smtp!Stop, smtpVars
    <3> QED
      BY <3>1
  <2> QED
    BY <2>1, <2>2
<1> QED
  BY <1>1, InitStopInv, NextStopInv, AlwaysInv, PTL DEF Spec, NoSessionAfterStop
=============================================================================
