--------------------------- MODULE RequestReplyProofs ---------------------------
(***************************************************************************)
(* Theorems about `RequestReply`, for any number of requests and of reply  *)
(* channels and any capacity of the channel of requests.                   *)
(***************************************************************************)
EXTENDS RequestReply, Lemmas

(***************************************************************************)
(* What is proved of the two channels on their own.                        *)
(***************************************************************************)
RequestFacts == INSTANCE SpscProofs WITH
    Messages <- Channels, Tasks <- {Client, Server}, MaxBuffered <- Capacity + MaxRequests

ReplyFacts == INSTANCE OneshotProofs WITH
    Messages <- 0..MaxRequests, Tasks <- {Client, Server},
    count <- replyCount, waker <- replyWaker, buf <- replyBuf, alive <- replyAlive,
    polledBy <- replyPolledBy, notified <- replyNotified

(* The constants are such as the two channels assume.                      *)
LEMMA RequestsAssume ==
    /\ Capacity \in Nat \ {0}
    /\ Capacity + MaxRequests \in Nat /\ Capacity + MaxRequests >= Capacity
    /\ Nil \notin Channels \cup {Client, Server}
BY CapacityIsPositive, RequestsAreBounded, NilIsNothing

LEMMA RepliesAssume ==
    /\ Nil \notin (0..MaxRequests) \cup {Client, Server} \cup {None, Err}
    /\ None \notin 0..MaxRequests /\ Err \notin 0..MaxRequests
BY NilIsNothing, NoneAndErrAreNoNumbers

(* The channels of the exchange are those the facts are about.             *)
LEMMA SameRequests ==
    /\ Requests!Init <=> RequestFacts!Init
    /\ Requests!Next <=> RequestFacts!Next
    /\ Requests!vars = requestVars /\ RequestFacts!vars = requestVars
<1>1. Requests!Init <=> RequestFacts!Init
  BY DEF Requests!Init, RequestFacts!Init, Requests!Ends, RequestFacts!Ends,
         Requests!Rc!New, RequestFacts!Rc!New
<1>2. Requests!Next <=> RequestFacts!Next
  BY Zenon
     DEF Requests!Next, Requests!TrySend, Requests!Send, Requests!ResumeSend,
         Requests!PollSend, Requests!Push, Requests!Recv, Requests!RecvMessage,
         Requests!RecvEnd, Requests!RecvWaits, Requests!CancelSend,
         Requests!CancelRecv, Requests!DropSender, Requests!DropReceiver,
         Requests!Leave, Requests!PolledAndWakes, Requests!AtCapacity,
         Requests!Ends, Requests!shared, Requests!Rc!BothPresent,
         Requests!Rc!Dropped, Requests!Rc!DropFrees,
         RequestFacts!Next, RequestFacts!TrySend, RequestFacts!Send,
         RequestFacts!ResumeSend, RequestFacts!PollSend, RequestFacts!Push,
         RequestFacts!Recv, RequestFacts!RecvMessage, RequestFacts!RecvEnd,
         RequestFacts!RecvWaits, RequestFacts!CancelSend,
         RequestFacts!CancelRecv, RequestFacts!DropSender,
         RequestFacts!DropReceiver, RequestFacts!Leave,
         RequestFacts!PolledAndWakes, RequestFacts!AtCapacity,
         RequestFacts!Ends, RequestFacts!shared, RequestFacts!Rc!BothPresent,
         RequestFacts!Rc!Dropped, RequestFacts!Rc!DropFrees
<1> QED
  BY <1>1, <1>2 DEF Requests!vars, RequestFacts!vars, requestVars

LEMMA SameReplies ==
    /\ Replies!Init <=> ReplyFacts!Init
    /\ Replies!Next <=> ReplyFacts!Next
    /\ Replies!vars = replyVars /\ ReplyFacts!vars = replyVars
<1>1. Replies!Init <=> ReplyFacts!Init
  BY DEF Replies!Init, ReplyFacts!Init
<1>2. Replies!Next <=> ReplyFacts!Next
  BY Zenon
     DEF Replies!Next, Replies!Create, Replies!Send, Replies!DropSender,
         Replies!Release, Replies!TakeAndWake, Replies!Poll, Replies!Answer,
         Replies!PollMessage, Replies!PollEnd, Replies!PollPending,
         Replies!DropReceiver, Replies!BothPresent, Replies!Rc!New,
         Replies!Rc!BothPresent, Replies!Rc!Dropped, Replies!Rc!DropFrees,
         ReplyFacts!Next, ReplyFacts!Create, ReplyFacts!Send,
         ReplyFacts!DropSender, ReplyFacts!Release, ReplyFacts!TakeAndWake,
         ReplyFacts!Poll, ReplyFacts!Answer, ReplyFacts!PollMessage,
         ReplyFacts!PollEnd, ReplyFacts!PollPending, ReplyFacts!DropReceiver,
         ReplyFacts!BothPresent, ReplyFacts!Rc!New, ReplyFacts!Rc!BothPresent,
         ReplyFacts!Rc!Dropped, ReplyFacts!Rc!DropFrees
<1> QED
  BY <1>1, <1>2 DEF Replies!vars, ReplyFacts!vars, replyVars

-----------------------------------------------------------------------------
(***************************************************************************)
(* The channel of requests.                                                *)
(***************************************************************************)

(* Every step of the exchange is for the channel of requests one that      *)
(* `Spsc` allows, or none.                                                 *)
LEMMA RequestsStep == [Next]_vars => [Requests!Next]_(Requests!vars)
<1> SUFFICES ASSUME [Next]_vars
             PROVE  Requests!Next \/ UNCHANGED requestVars
  BY DEF Requests!vars, requestVars
<1>1. ASSUME NEW c \in Channels, Request(c)
      PROVE  Requests!Next
  <2>1. Requests!Send(Client, c) \/ Requests!TrySend(c)
    BY <1>1 DEF Request
  <2> QED
    BY <2>1 DEF Requests!Next
<1>2. ASSUME NEW c \in Channels, Open(c) \/ Discard(c) \/ Await(c) \/ GiveUp(c)
      PROVE  UNCHANGED requestVars
  BY <1>2 DEF Open, Discard, Await, GiveUp
<1>3. CASE ResumeRequest
  BY <1>3 DEF ResumeRequest, Requests!Next
<1>4. CASE CancelRequest
  BY <1>4 DEF CancelRequest, Requests!Next
<1>5. CASE ClientHangsUp \/ ServerHangsUp
  BY <1>5 DEF ClientHangsUp, ServerHangsUp, Hangup, Requests!Next
<1>6. CASE Receive
  <2>1. Requests!RecvMessage \/ Requests!RecvWaits(Server) \/ Requests!RecvEnd
    BY <1>6 DEF Receive
  <2> QED
    BY <2>1 DEF Requests!Next, Requests!Recv
<1>7. CASE CancelReceive
  BY <1>7 DEF CancelReceive, Requests!Next
<1>8. CASE Reply \/ UNCHANGED vars
  BY <1>8 DEF Reply, vars
<1> QED
  BY <1>1, <1>2, <1>3, <1>4, <1>5, <1>6, <1>7, <1>8 DEF Next

(* In the exchange the channel of requests is used as `Spsc` says it may   *)
(* be: all that is proved of that channel holds in it.                     *)
THEOREM RequestsImplementSpsc == Spec => Requests!Spec
<1>1. Init => Requests!Init
  BY DEF Init
<1> QED
  BY <1>1, RequestsStep, PTL DEF Spec, Requests!Spec

LEMMA RequestsInvariance == Spec => []RequestFacts!Inv
<1>1. Init => RequestFacts!Inv
  BY SameRequests, RequestsAssume, RequestFacts!InitInv DEF Init
<1>2. RequestFacts!Inv /\ [Next]_vars => RequestFacts!Inv'
  <2>1. [Next]_vars => [RequestFacts!Next]_(RequestFacts!vars)
    BY RequestsStep, SameRequests DEF Requests!vars, RequestFacts!vars
  <2> QED
    BY <2>1, RequestsAssume, RequestFacts!NextInv
<1> QED
  BY <1>1, <1>2, PTL DEF Spec

(* Neither the client nor the server sleeps on a request that can go on:   *)
(* the server on one in the buffer or on the end, the client on room for   *)
(* its own or on a server that has hung up.                                *)
THEOREM RequestsNotified ==
    Spec => [](Requests!ReceiverNotified /\ Requests!SenderNotified)
<1>1. RequestFacts!Inv => Requests!ReceiverNotified
  BY DEF RequestFacts!Inv, RequestFacts!ReceiverWaits, Requests!ReceiverNotified
<1>2. RequestFacts!Inv => Requests!SenderNotified
  BY CapacityIsPositive DEF RequestFacts!Inv, RequestFacts!SenderWaits,
     Requests!SenderNotified, RequestFacts!AtCapacity, Requests!HasRoom
<1> QED
  BY <1>1, <1>2, RequestsInvariance, PTL

-----------------------------------------------------------------------------
(***************************************************************************)
(* The channels of replies.  They are used as `Oneshot` says, but for the  *)
(* buffer of requests that is freed: several senders are dropped at once.  *)
(***************************************************************************)

Senders == {c \in Channels : "tx" \in replyAlive[c]}

RepliesInv == ReplyFacts!Inv /\ ReplyFacts!WakerIsRegistered

LEMMA RepliesInit == Init => RepliesInv
BY SameReplies, RepliesAssume, ReplyFacts!InitInv, ReplyFacts!InitRegistered
   DEF Init, RepliesInv

LEMMA RepliesStep ==
    ASSUME RepliesInv, Replies!Next \/ UNCHANGED replyVars
    PROVE  RepliesInv'
<1>1. [ReplyFacts!Next]_(ReplyFacts!vars)
  BY SameReplies DEF ReplyFacts!vars, replyVars
<1> QED
  BY <1>1, RepliesAssume, ReplyFacts!NextInv, ReplyFacts!NextRegistered DEF RepliesInv

(* What a step of one of them does to its sender and to what that was told.*)
LEMMA CreateTells ==
    ASSUME RepliesInv, NEW c \in Channels, Replies!Create(c)
    PROVE  /\ RepliesInv'
           /\ c \notin Senders /\ Senders' = Senders \cup {c}
           /\ \A d \in Channels : sent'[d] = IF d = c THEN Nil ELSE sent[d]
<1>1. RepliesInv'
  BY RepliesStep DEF Replies!Next
<1>2. /\ replyAlive \in [Channels -> SUBSET {"tx", "rx"}]
      /\ sent \in [Channels -> (0..MaxRequests) \cup {Err, Nil}]
  BY DEF RepliesInv, ReplyFacts!Inv, ReplyFacts!TypeOK
<1> QED
  BY <1>1, <1>2 DEF Replies!Create, Senders

LEMMA SenderTells ==
    ASSUME RepliesInv, NEW c \in Channels,
           NEW m \in 0..MaxRequests, Replies!Send(c, m) \/ Replies!DropSender(c)
    PROVE  /\ RepliesInv'
           /\ Senders' = Senders \ {c}
           /\ \A d \in Channels \ {c} : sent'[d] = sent[d]
           /\ sent'[c] \in {Nil, Err, m}
<1>1. RepliesInv'
  BY RepliesStep DEF Replies!Next
<1>2. /\ replyAlive \in [Channels -> SUBSET {"tx", "rx"}]
      /\ sent \in [Channels -> (0..MaxRequests) \cup {Err, Nil}]
      /\ "tx" \in replyAlive[c] => sent[c] = Nil
  BY DEF RepliesInv, ReplyFacts!Inv, ReplyFacts!TypeOK, ReplyFacts!UsedOnce
<1>3. "tx" \in replyAlive[c] /\ replyAlive' = [replyAlive EXCEPT ![c] = @ \ {"tx"}]
  BY DEF Replies!Send, Replies!DropSender, Replies!Release
<1>4. Senders' = Senders \ {c}
  BY <1>2, <1>3 DEF Senders
<1>5. sent' = sent \/ sent' = [sent EXCEPT ![c] = m] \/ sent' = [sent EXCEPT ![c] = Err]
  BY DEF Replies!Send, Replies!DropSender
<1> QED
  BY <1>1, <1>2, <1>3, <1>4, <1>5

LEMMA ReceiverTells ==
    ASSUME RepliesInv, NEW c \in Channels,
           \/ Replies!PollMessage(c) \/ Replies!PollEnd(c)
           \/ Replies!PollPending(c, Client) \/ Replies!DropReceiver(c)
    PROVE  RepliesInv' /\ Senders' = Senders /\ sent' = sent
<1>1. RepliesInv'
  BY RepliesStep DEF Replies!Next, Replies!Poll
<1>2. replyAlive \in [Channels -> SUBSET {"tx", "rx"}]
  BY DEF RepliesInv, ReplyFacts!Inv, ReplyFacts!TypeOK
<1>3. /\ \/ replyAlive' = replyAlive
         \/ replyAlive' = [replyAlive EXCEPT ![c] = @ \ {"rx"}]
      /\ sent' = sent
  BY DEF Replies!PollMessage, Replies!PollEnd, Replies!PollPending,
         Replies!DropReceiver, Replies!Release
<1>4. Senders' = Senders
  BY <1>2, <1>3 DEF Senders
<1> QED
  BY <1>1, <1>3, <1>4

LEMMA NoReplyStep ==
    ASSUME RepliesInv, UNCHANGED replyVars
    PROVE  RepliesInv' /\ Senders' = Senders /\ sent' = sent
BY RepliesStep DEF replyVars, Senders

(* The senders in the buffer are dropped: each is there, so the count of   *)
(* its channel goes down to what it should be, and each wakes its receiver.*)
LEMMA FreeBufferTells ==
    ASSUME RepliesInv, FreeBuffer,
           \A c \in Channels : c \in Buffered => c \in Senders
    PROVE  RepliesInv' /\ Senders' = Senders \ Buffered /\ sent' = sent
<1>a. ReplyFacts!TypeOK /\ ReplyFacts!UsedOnce
  BY DEF RepliesInv, ReplyFacts!Inv
<1>1. \A c \in Channels :
         replyAlive'[c] = IF c \in Buffered THEN replyAlive[c] \ {"tx"} ELSE replyAlive[c]
  BY DEF FreeBuffer
<1>2. replyAlive' \in [Channels -> SUBSET {"tx", "rx"}]
  BY <1>a DEF FreeBuffer, ReplyFacts!TypeOK
<1>3. \A c \in Channels :
         replyCount'[c] = IF c \in Buffered THEN replyCount[c] - 1 ELSE replyCount[c]
  BY DEF FreeBuffer, Rc!Dropped
<1>4. ASSUME NEW c \in Channels
      PROVE  replyCount'[c] = ReplyFacts!Cardinality(replyAlive'[c]) /\ replyCount'[c] \in 0..2
  <2>1. replyAlive[c] \in SUBSET {"tx", "rx"} /\ replyCount[c] = ReplyFacts!Cardinality(replyAlive[c])
    BY <1>a DEF ReplyFacts!TypeOK
  <2>2. c \in Buffered => "tx" \in replyAlive[c]
    BY DEF Senders
  <2>3. "tx" \in replyAlive[c] =>
           ReplyFacts!Cardinality(replyAlive[c] \ {"tx"})
              = ReplyFacts!Cardinality(replyAlive[c]) - 1
    BY <2>1, RepliesAssume, ReplyFacts!CountTells
  <2>4. replyCount'[c] = ReplyFacts!Cardinality(replyAlive'[c])
    BY <1>1, <1>3, <2>1, <2>2, <2>3
  <2>5. replyAlive'[c] \in SUBSET {"tx", "rx"}
    BY <1>2
  <2> QED
    BY <2>4, <2>5, RepliesAssume, ReplyFacts!CountTells
<1>5. replyCount' \in [Channels -> 0..2]
  <2>1. replyCount' = [c \in Channels |-> replyCount'[c]]
    BY DEF FreeBuffer
  <2> QED
    BY <1>4, <2>1
<1>6. /\ \A c \in Channels : replyWaker'[c] = IF c \in Buffered THEN Nil ELSE replyWaker[c]
      /\ replyWaker' \in [Channels -> {Client, Server} \cup {Nil}]
  BY <1>a DEF FreeBuffer, ReplyFacts!TypeOK
<1>7. UNCHANGED <<replyBuf, sent, received, replyPolledBy>>
  BY DEF FreeBuffer
<1>8. /\ replyNotified \subseteq replyNotified'
      /\ replyNotified' \subseteq {c \in Channels : replyPolledBy'[c] # Nil}
  BY <1>a, <1>7 DEF FreeBuffer, ReplyFacts!TypeOK
<1>9. \A c \in Channels :
         c \in Buffered /\ replyWaker[c] # Nil /\ replyPolledBy[c] = replyWaker[c]
            => c \in replyNotified'
  BY DEF FreeBuffer
<1>10. ASSUME NEW c \in Channels, replyCount'[c] = 0
       PROVE  replyBuf'[c] = Nil /\ replyWaker'[c] = Nil
  <2>1. CASE c \in Buffered
    <3>1. replyWaker'[c] = Nil
      BY <1>6, <2>1
    <3>2. "tx" \in replyAlive[c]
      BY <2>1 DEF Senders
    <3>3. replyBuf[c] = Nil
      BY <1>a, <3>2, RepliesAssume DEF ReplyFacts!TypeOK, ReplyFacts!UsedOnce
    <3> QED
      BY <1>7, <3>1, <3>3
  <2>2. CASE c \notin Buffered
    BY <1>a, <1>3, <1>6, <1>7, <1>10, <2>2 DEF ReplyFacts!TypeOK
  <2> QED
    BY <2>1, <2>2
<1>11. ReplyFacts!TypeOK'
  BY <1>a, <1>2, <1>4, <1>5, <1>6, <1>7, <1>8, <1>10 DEF ReplyFacts!TypeOK
<1>12. ReplyFacts!UsedOnce'
  BY <1>a, <1>1, <1>7 DEF ReplyFacts!UsedOnce
<1>13. ReplyFacts!AnswerIsTrue' /\ ReplyFacts!AcceptedIsKept'
  BY <1>1, <1>7 DEF RepliesInv, ReplyFacts!Inv, ReplyFacts!AnswerIsTrue,
                    ReplyFacts!AcceptedIsKept
<1>14. ReplyFacts!WakerIsRegistered'
  <2> SUFFICES ASSUME NEW c \in Channels, replyPolledBy'[c] # Nil, c \notin replyNotified'
               PROVE  /\ replyWaker'[c] = replyPolledBy'[c] /\ replyBuf'[c] = Nil
                      /\ replyCount'[c] = 2
    BY DEF ReplyFacts!WakerIsRegistered, ReplyFacts!BothPresent, ReplyFacts!Rc!BothPresent
  <2>1. /\ replyWaker[c] = replyPolledBy[c] /\ replyBuf[c] = Nil
        /\ replyCount[c] = 2
    BY <1>7, <1>8 DEF RepliesInv, ReplyFacts!WakerIsRegistered,
                      ReplyFacts!BothPresent, ReplyFacts!Rc!BothPresent
  <2>2. c \notin Buffered
    BY <1>7, <1>9, <2>1
  <2> QED
    BY <1>3, <1>6, <1>7, <2>1, <2>2
<1>15. Senders' = Senders \ Buffered
  BY <1>1 DEF Senders
<1> QED
  BY <1>7, <1>11, <1>12, <1>13, <1>14, <1>15 DEF RepliesInv, ReplyFacts!Inv

-----------------------------------------------------------------------------
(***************************************************************************)
(* The exchange.                                                           *)
(***************************************************************************)

(* SendersHaveOwner, owner by owner.                                       *)
Apart ==
    /\ NoTwice(buf)
    /\ \A c \in Channels :
          /\ c \in Senders <=> c \in held \/ c = sending \/ Holds(buf, c) \/ c = serving
          /\ c \in held => c # sending /\ ~Holds(buf, c) /\ c # serving
          /\ c = sending => ~Holds(buf, c) /\ c # serving
          /\ c = serving => ~Holds(buf, c)

(* The requests the server has taken out.                                  *)
Taken == IF serving = Nil THEN n ELSE n + 1

(* The buffer holds the requests that were accepted last, by their         *)
(* numbers, and the server has the one before them.                        *)
Numbered ==
    /\ Taken + Len(buf) <= requests
    /\ "tx" \in alive => Taken + Len(buf) = requests
    /\ sending # Nil => requests < MaxRequests
    /\ \A i \in 1..Len(buf) : number[buf[i]] = Taken + i - 1
    /\ serving # Nil => number[serving] = n

(* What was sent through a channel is the number of its request.           *)
SentIsNumber == \A c \in Channels : sent[c] \in {Nil, Err, number[c]}

Typed == /\ held \subseteq Channels
         /\ serving \in Channels \cup {Nil}
         /\ n \in Nat
         /\ requests \in 0..MaxRequests
         /\ number \in [Channels -> (0..MaxRequests) \cup {Nil}]

(* That the replies match needs every sender to have one owner             *)
(* (SendersHaveOwner): a request whose sender were in the buffer twice, or *)
(* both there and with the server, would be numbered twice.                *)
Exchange == Typed /\ Apart /\ Numbered /\ SentIsNumber

Inv == RequestFacts!Inv /\ RepliesInv /\ Exchange

(* What the channel of requests contributes.                               *)
LEMMA RequestsTyped ==
    ASSUME RequestFacts!Inv
    PROVE  /\ buf \in Seq(Channels) /\ Len(buf) \in Nat
           /\ sending \in Channels \cup {Nil}
           /\ sending # Nil => "tx" \in alive
           /\ \A e \in alive : count = 1 <=> alive = {e}
<1>1. /\ buf \in Seq(Channels) /\ sending \in Channels \cup {Nil}
      /\ sending # Nil => "tx" \in alive
      /\ RequestFacts!TypeOK
  BY DEF RequestFacts!Inv, RequestFacts!TypeOK, RequestFacts!CallsBorrow, RequestFacts!Ends
<1>2. \A e \in alive : count = 1 <=> alive = {e}
  BY <1>1, RequestsAssume, RequestFacts!FlagsTell DEF RequestFacts!Rc!DropFrees
<1> QED
  BY <1>1, <1>2, LenProperties

LEMMA InBuffer == \A c : c \in Buffered <=> Holds(buf, c)
BY DEF Buffered, Holds

LEMMA InitExchange == Init => Exchange
<1> SUFFICES ASSUME Init
             PROVE  Exchange
  OBVIOUS
<1>1. /\ buf = << >> /\ sending = Nil /\ held = {} /\ serving = Nil
      /\ n = 0 /\ requests = 0 /\ number = [c \in Channels |-> Nil]
      /\ \A c \in Channels : replyAlive[c] = {} /\ sent[c] = Nil
  BY DEF Init, Requests!Init, Replies!Init
<1>2. Nil \notin Channels
  BY NilIsNothing
<1>3. Typed
  BY <1>1, RequestsAreBounded DEF Typed
<1>4. Apart
  BY <1>1, <1>2 DEF Apart, Senders, NoTwice, Holds
<1>5. Numbered /\ SentIsNumber
  BY <1>1 DEF Numbered, Taken, SentIsNumber
<1> QED
  BY <1>3, <1>4, <1>5 DEF Exchange

(* The request of c leaves the client's hands, or a `send` that was        *)
(* suspended: it is accepted, it waits, or it fails and its sender is      *)
(* dropped.                                                                *)
LEMMA OutcomeKeeps ==
    ASSUME Inv, NEW c \in Channels,
           \/ c \in held /\ sending = Nil
           \/ c = sending,
           requests < MaxRequests,
           "tx" \in alive, alive' = alive,
           \/ sending' = Nil /\ buf' = Append(buf, c)
           \/ sending' = c /\ buf' = buf
           \/ sending' = Nil /\ buf' = buf,
           Outcome(c)
    PROVE  RepliesInv' /\ Exchange'
<1>a. Typed /\ Apart /\ Numbered /\ SentIsNumber /\ RepliesInv
  BY DEF Inv, Exchange
<1>b. Nil \notin Channels
  BY NilIsNothing
<1>c. /\ buf \in Seq(Channels) /\ Len(buf) \in Nat
      /\ sending \in Channels \cup {Nil}
  BY RequestsTyped DEF Inv
<1>d. held' = held \ {c} /\ UNCHANGED <<serving, n>>
  BY DEF Outcome
<1>e. c \in Senders /\ c # serving /\ ~Holds(buf, c) /\ NoTwice(buf)
  BY <1>a DEF Apart
<1>1. CASE sending' = Nil /\ buf' = Append(buf, c)
  <2>1. /\ Len(buf') = Len(buf) + 1
        /\ \A i \in 1..(Len(buf) + 1) : buf'[i] = IF i = Len(buf) + 1 THEN c ELSE buf[i]
    BY <1>1, <1>c, AppendProperties
  <2>2. /\ requests' = requests + 1
        /\ number' = [number EXCEPT ![c] = requests]
        /\ UNCHANGED replyVars
    BY <1>c, <2>1 DEF Outcome
  <2>3. RepliesInv' /\ Senders' = Senders /\ sent' = sent
    BY <1>a, <2>2, NoReplyStep
  <2>4. NoTwice(buf') /\ \A d : Holds(buf', d) <=> Holds(buf, d) \/ d = c
    BY <1>1, <1>c, <1>e, AppendHolds
  <2>5. Apart'
    BY <1>a, <1>b, <1>c, <1>d, <1>e, <1>1, <2>3, <2>4 DEF Apart
  <2>6. Typed'
    BY <1>a, <1>d, <2>2, RequestsAreBounded DEF Typed
  <2>7. Numbered'
    <3>1. Taken + Len(buf) = requests /\ Taken' = Taken
      BY <1>a, <1>d DEF Numbered, Taken
    <3>2. Taken \in Nat /\ requests \in Nat
      BY <1>a DEF Typed, Taken
    <3>3. Taken' + Len(buf') = requests'
      BY <1>c, <2>1, <2>2, <3>1, <3>2
    <3>4. /\ number'[c] = requests
          /\ \A d : d # c => number'[d] = number[d]
      BY <1>a, <2>2 DEF Typed
    <3>5. ASSUME NEW i \in 1..Len(buf')
          PROVE  number'[buf'[i]] = Taken' + i - 1
      <4>1. CASE i = Len(buf) + 1
        BY <1>c, <2>1, <3>1, <3>2, <3>4, <4>1
      <4>2. CASE i \in 1..Len(buf)
        <5>1. buf'[i] = buf[i] /\ buf[i] # c
          BY <1>c, <1>e, <2>1, <4>2 DEF Holds
        <5> QED
          BY <1>a, <3>1, <3>4, <4>2, <5>1 DEF Numbered
      <4> QED
        BY <1>c, <2>1, <4>1, <4>2
    <3>6. serving' # Nil => number'[serving'] = n'
      BY <1>a, <1>d, <1>e, <3>4 DEF Numbered
    <3> QED
      BY <1>1, <3>2, <3>3, <3>5, <3>6, <2>2, <2>1, <1>c DEF Numbered
  <2>8. SentIsNumber'
    <3>1. sent[c] = Nil
      BY <1>a, <1>e DEF RepliesInv, ReplyFacts!Inv, ReplyFacts!UsedOnce, Senders
    <3> QED
      BY <1>a, <2>2, <2>3, <3>1 DEF SentIsNumber, Typed
  <2> QED
    BY <2>3, <2>5, <2>6, <2>7, <2>8 DEF Exchange
<1>2. CASE sending' = c /\ buf' = buf
  <2>1. requests' = requests /\ number' = number /\ UNCHANGED replyVars
    BY <1>2, <1>b, <1>c DEF Outcome
  <2>2. RepliesInv' /\ Senders' = Senders /\ sent' = sent
    BY <1>a, <2>1, NoReplyStep
  <2>3. Apart'
    BY <1>a, <1>b, <1>d, <1>e, <1>2, <2>2 DEF Apart
  <2>4. Typed' /\ Numbered' /\ SentIsNumber'
    BY <1>a, <1>d, <1>2, <2>1, <2>2 DEF Typed, Numbered, Taken, SentIsNumber
  <2> QED
    BY <2>2, <2>3, <2>4 DEF Exchange
<1>3. CASE sending' = Nil /\ buf' = buf
  <2>1. requests' = requests /\ number' = number /\ Replies!DropSender(c)
    BY <1>3, <1>c DEF Outcome
  <2>2. 0 \in 0..MaxRequests
    BY RequestsAreBounded
  <2>3. /\ RepliesInv' /\ Senders' = Senders \ {c}
        /\ sent' = sent
    BY <1>a, <2>1, <2>2, SenderTells DEF Replies!DropSender
  <2>4. Apart'
    BY <1>a, <1>b, <1>d, <1>e, <1>3, <2>3 DEF Apart
  <2>5. Typed' /\ Numbered'
    BY <1>a, <1>d, <1>3, <2>1 DEF Typed, Numbered, Taken
  <2>6. SentIsNumber'
    BY <1>a, <2>1, <2>3 DEF SentIsNumber
  <2> QED
    BY <2>3, <2>4, <2>5, <2>6 DEF Exchange
<1> QED
  BY <1>1, <1>2, <1>3

(* What a step of `send` can lead to, resumed or not.                      *)
LEMMA SendTells ==
    ASSUME RequestFacts!Inv, NEW c \in Channels,
           \/ Requests!Send(Client, c)
           \/ Requests!TrySend(c)
           \/ (Requests!ResumeSend(Client) \/ Requests!CancelSend) /\ c = sending
    PROVE  /\ "tx" \in alive /\ alive' = alive
           /\ \/ sending' = Nil /\ buf' = Append(buf, c)
              \/ sending' = c /\ buf' = buf
              \/ sending' = Nil /\ buf' = buf
<1>1. \/ "tx" \in alive /\ Requests!PollSend(Client, c)
      \/ Requests!TrySend(c)
      \/ Requests!CancelSend /\ c = sending
  BY RequestsTyped DEF Requests!Send, Requests!ResumeSend
<1>2. CASE "tx" \in alive /\ Requests!PollSend(Client, c)
  BY <1>2 DEF Requests!PollSend, Requests!Push
<1>3. CASE Requests!TrySend(c)
  BY <1>3 DEF Requests!TrySend, Requests!Push
<1>4. CASE Requests!CancelSend /\ c = sending
  BY <1>4, RequestsTyped DEF Requests!CancelSend, Requests!shared
<1> QED
  BY <1>1, <1>2, <1>3, <1>4

LEMMA SendKeeps ==
    ASSUME Inv,
           \/ \E c \in Channels : Request(c)
           \/ ResumeRequest \/ CancelRequest
    PROVE  RepliesInv' /\ Exchange'
<1>a. RequestFacts!Inv /\ Typed /\ Numbered
  BY DEF Inv, Exchange
<1>1. ASSUME NEW c \in Channels, Request(c)
      PROVE  RepliesInv' /\ Exchange'
  <2>1. /\ c \in held /\ sending = Nil /\ requests < MaxRequests /\ Outcome(c)
        /\ Requests!Send(Client, c) \/ Requests!TrySend(c)
    BY <1>1 DEF Request, Requests!Send, Requests!TrySend
  <2> QED
    BY <1>a, <2>1, SendTells, OutcomeKeeps
<1>2. CASE ResumeRequest \/ CancelRequest
  <2>1. /\ sending # Nil /\ Outcome(sending)
        /\ Requests!ResumeSend(Client) \/ Requests!CancelSend
    BY <1>2 DEF ResumeRequest, CancelRequest, Requests!ResumeSend, Requests!CancelSend
  <2>2. sending \in Channels /\ requests < MaxRequests
    BY <1>a, <2>1, RequestsTyped DEF Numbered
  <2> QED
    BY <1>a, <2>1, <2>2, SendTells, OutcomeKeeps
<1> QED
  BY <1>1, <1>2

(* The client makes a sender, or drops one.                                *)
LEMMA HeldKeeps ==
    ASSUME Inv, NEW c \in Channels, Open(c) \/ Discard(c)
    PROVE  RepliesInv' /\ Exchange'
<1>a. Typed /\ Apart /\ Numbered /\ SentIsNumber /\ RepliesInv
  BY DEF Inv, Exchange
<1>b. UNCHANGED <<buf, sending, alive, serving, n, requests>>
  BY DEF Open, Discard, requestVars
<1>1. CASE Open(c)
  <2>1. /\ RepliesInv'
        /\ c \notin Senders /\ Senders' = Senders \cup {c}
        /\ \A d \in Channels : sent'[d] = IF d = c THEN Nil ELSE sent[d]
    BY <1>a, <1>1, CreateTells DEF Open
  <2>2. held' = held \cup {c} /\ number' = [number EXCEPT ![c] = Nil]
    BY <1>1 DEF Open
  <2>3. Apart'
    BY <1>a, <1>b, <2>1, <2>2 DEF Apart
  <2>4. /\ \A d : d # c => number'[d] = number[d]
        /\ \A i \in 1..Len(buf) : buf[i] # c
        /\ serving # c
    BY <1>a, <2>1, <2>2 DEF Typed, Apart, Holds
  <2>5. Typed' /\ Numbered' /\ SentIsNumber'
    BY <1>a, <1>b, <2>1, <2>2, <2>4 DEF Typed, Numbered, Taken, SentIsNumber
  <2> QED
    BY <2>1, <2>3, <2>5 DEF Exchange
<1>2. CASE Discard(c)
  <2>1. c \in held /\ held' = held \ {c} /\ number' = number /\ Replies!DropSender(c)
    BY <1>2 DEF Discard
  <2>2. /\ RepliesInv' /\ Senders' = Senders \ {c}
        /\ sent' = sent
    <3>1. 0 \in 0..MaxRequests
      BY RequestsAreBounded
    <3> QED
      BY <1>a, <2>1, <3>1, SenderTells DEF Replies!DropSender
  <2>3. Apart'
    BY <1>a, <1>b, <2>1, <2>2 DEF Apart
  <2>4. Typed' /\ Numbered' /\ SentIsNumber'
    BY <1>a, <1>b, <2>1, <2>2 DEF Typed, Numbered, Taken, SentIsNumber
  <2> QED
    BY <2>2, <2>3, <2>4 DEF Exchange
<1> QED
  BY <1>1, <1>2

(* The owners of the senders see nothing of what the receivers do.         *)
LEMMA ReceiverKeeps ==
    ASSUME Inv, NEW c \in Channels, Await(c) \/ GiveUp(c)
    PROVE  RepliesInv' /\ Exchange'
<1>a. Typed /\ Apart /\ Numbered /\ SentIsNumber /\ RepliesInv
  BY DEF Inv, Exchange
<1>1. UNCHANGED <<buf, sending, alive, held, serving, n, requests, number>>
  BY DEF Await, GiveUp, requestVars
<1>2. RepliesInv' /\ Senders' = Senders /\ sent' = sent
  BY <1>a, ReceiverTells DEF Await, GiveUp
<1> QED
  BY <1>a, <1>1, <1>2 DEF Exchange, Typed, Apart, Numbered, Taken, SentIsNumber

(* The server takes out the oldest request, or there is none.              *)
LEMMA ReceiveKeeps ==
    ASSUME Inv, Receive \/ CancelReceive
    PROVE  RepliesInv' /\ Exchange'
<1>a. Typed /\ Apart /\ Numbered /\ SentIsNumber /\ RepliesInv
  BY DEF Inv, Exchange
<1>b. buf \in Seq(Channels) /\ Nil \notin Channels
  BY RequestsTyped, NilIsNothing DEF Inv
<1>c. /\ UNCHANGED <<sending, alive, held, n, requests, number>>
      /\ RepliesInv' /\ Senders' = Senders /\ sent' = sent
  BY <1>a, NoReplyStep DEF Receive, CancelReceive, Requests!RecvMessage,
     Requests!RecvWaits, Requests!RecvEnd, Requests!CancelRecv, Requests!shared
<1>1. CASE Receive /\ Requests!RecvMessage /\ serving' = Head(buf)
  <2>1. buf # << >> /\ buf' = Tail(buf) /\ serving' = Head(buf) /\ serving = Nil
    BY <1>1 DEF Receive, Requests!RecvMessage
  <2>2. /\ Head(buf) \in Channels /\ Holds(buf, Head(buf))
        /\ NoTwice(buf')
        /\ \A e : Holds(buf', e) <=> Holds(buf, e) /\ e # Head(buf)
    BY <1>a, <1>b, <2>1, TailHolds DEF Apart
  <2>3. Apart'
    BY <1>a, <1>b, <1>c, <2>1, <2>2 DEF Apart
  <2>4. Typed' /\ SentIsNumber'
    BY <1>a, <1>c, <2>1, <2>2 DEF Typed, SentIsNumber
  <2>5. Numbered'
    <3>1. /\ Len(buf) \in Nat \ {0} /\ Len(buf') = Len(buf) - 1 /\ Head(buf) = buf[1]
          /\ \A i \in 1..Len(buf') : buf'[i] = buf[i + 1]
      BY <1>b, <2>1, HeadTailProperties, EmptySeq
    <3>2. Taken = n /\ Taken' = n + 1 /\ n \in Nat
      BY <1>a, <1>b, <1>c, <2>1, <2>2 DEF Taken, Typed
    <3>3. Taken' + Len(buf') = Taken + Len(buf)
      BY <3>1, <3>2
    <3>4. \A i \in 1..Len(buf') : number'[buf'[i]] = Taken' + i - 1
      <4> SUFFICES ASSUME NEW i \in 1..Len(buf')
                   PROVE  number'[buf'[i]] = Taken' + i - 1
        OBVIOUS
      <4>1. i + 1 \in 1..Len(buf)
        BY <3>1
      <4>2. number[buf[i + 1]] = Taken + (i + 1) - 1
        BY <1>a, <4>1 DEF Numbered
      <4> QED
        BY <1>c, <3>1, <3>2, <4>2
    <3>5. number'[serving'] = n'
      <4>1. number[buf[1]] = Taken + 1 - 1
        BY <1>a, <3>1 DEF Numbered
      <4> QED
        BY <1>c, <2>1, <3>1, <3>2, <4>1
    <3> QED
      BY <1>a, <1>c, <3>3, <3>4, <3>5 DEF Numbered
  <2> QED
    BY <1>c, <2>3, <2>4, <2>5 DEF Exchange
<1>2. CASE UNCHANGED <<buf, serving>>
  BY <1>a, <1>c, <1>2 DEF Exchange, Typed, Apart, Numbered, Taken, SentIsNumber
<1>3. Receive => \/ Requests!RecvMessage /\ serving' = Head(buf)
                 \/ UNCHANGED <<buf, serving>>
  BY DEF Receive, Requests!RecvWaits, Requests!RecvEnd
<1>4. CancelReceive => UNCHANGED <<buf, serving>>
  BY DEF CancelReceive, Requests!CancelRecv, Requests!shared
<1> QED
  BY <1>1, <1>2, <1>3, <1>4

(* The server sends the number of the request, or drops the sender.        *)
LEMMA ReplyKeeps ==
    ASSUME Inv, Reply
    PROVE  RepliesInv' /\ Exchange'
<1>a. Typed /\ Apart /\ Numbered /\ SentIsNumber /\ RepliesInv
  BY DEF Inv, Exchange
<1>b. Nil \notin Channels /\ Len(buf) \in Nat
  BY RequestsTyped, NilIsNothing DEF Inv
<1>1. /\ UNCHANGED <<buf, sending, alive, held, requests, number>>
      /\ serving \in Channels /\ serving' = Nil /\ n' = n + 1
      /\ Replies!Send(serving, n) \/ Replies!DropSender(serving)
  BY <1>a DEF Reply, requestVars, Typed
<1>2. Taken = n + 1 /\ Taken' = n + 1 /\ n \in 0..MaxRequests
  BY <1>a, <1>b, <1>1, RequestsAreBounded DEF Taken, Numbered, Typed
<1>3. /\ RepliesInv' /\ Senders' = Senders \ {serving}
      /\ \A d \in Channels \ {serving} : sent'[d] = sent[d]
      /\ sent'[serving] \in {Nil, Err, n}
  BY <1>a, <1>1, <1>2, SenderTells
<1>4. Typed'
  BY <1>a, <1>1 DEF Typed
<1>5. Apart'
  BY <1>a, <1>b, <1>1, <1>3 DEF Apart
<1>6. Numbered'
  BY <1>a, <1>1, <1>2 DEF Numbered
<1>7. SentIsNumber'
  BY <1>a, <1>b, <1>1, <1>3 DEF SentIsNumber, Numbered
<1> QED
  BY <1>3, <1>4, <1>5, <1>6, <1>7 DEF Exchange

(* A half of the channel of requests goes, the last one with the buffer.   *)
LEMMA HangupKeeps ==
    ASSUME Inv, ClientHangsUp \/ ServerHangsUp
    PROVE  RepliesInv' /\ Exchange'
<1>a. Typed /\ Apart /\ Numbered /\ SentIsNumber /\ RepliesInv
  BY DEF Inv, Exchange
<1>b. Nil \notin Channels /\ Len(buf) \in Nat
  BY RequestsTyped, NilIsNothing DEF Inv
<1>1. PICK e \in alive : /\ alive' = alive \ {e}
                         /\ buf' = IF count = 1 THEN << >> ELSE buf
  BY DEF ClientHangsUp, ServerHangsUp, Hangup, Requests!DropSender,
         Requests!DropReceiver, Requests!Leave, Requests!Rc!DropFrees
<1>2. /\ sending' = sending
      /\ UNCHANGED <<held, serving, n, requests, number>>
      /\ IF alive' = {} THEN FreeBuffer ELSE UNCHANGED replyVars
  BY DEF ClientHangsUp, ServerHangsUp, Hangup, Requests!DropSender,
         Requests!DropReceiver, Requests!Leave
<1>3. count = 1 <=> alive' = {}
  BY <1>1, RequestsTyped DEF Inv
<1>4. CASE alive' = {}
  <2>1. buf' = << >> /\ Len(buf') = 0
    BY <1>1, <1>3, <1>4
  <2>2. RepliesInv' /\ Senders' = Senders \ Buffered /\ sent' = sent
    BY <1>a, <1>2, <1>4, InBuffer, FreeBufferTells DEF Apart
  <2>3. Apart'
    <3>1. NoTwice(buf') /\ \A c : ~Holds(buf', c)
      BY <2>1 DEF NoTwice, Holds
    <3> QED
      BY <1>a, <1>2, <2>2, <3>1, InBuffer DEF Apart
  <2>4. Numbered'
    <3>1. Taken' = Taken /\ Taken \in Nat
      BY <1>a, <1>2 DEF Taken, Typed
    <3> QED
      BY <1>a, <1>b, <1>2, <1>4, <2>1, <3>1 DEF Numbered, Typed
  <2>5. Typed' /\ SentIsNumber'
    BY <1>a, <1>2, <2>2 DEF Typed, SentIsNumber
  <2> QED
    BY <2>2, <2>3, <2>4, <2>5 DEF Exchange
<1>5. CASE alive' # {}
  <2>1. buf' = buf /\ ("tx" \in alive' => "tx" \in alive)
    BY <1>1, <1>3, <1>5
  <2>2. RepliesInv' /\ Senders' = Senders /\ sent' = sent
    BY <1>a, <1>2, <1>5, NoReplyStep
  <2> QED
    BY <1>a, <1>2, <2>1, <2>2 DEF Exchange, Typed, Apart, Numbered, Taken, SentIsNumber
<1> QED
  BY <1>4, <1>5

LEMMA NextInv == Inv /\ [Next]_vars => RepliesInv' /\ Exchange'
<1> SUFFICES ASSUME Inv, [Next]_vars
             PROVE  RepliesInv' /\ Exchange'
  OBVIOUS
<1>1. CASE UNCHANGED vars
  <2>1. RepliesInv' /\ Senders' = Senders /\ sent' = sent
    BY <1>1, NoReplyStep DEF Inv, vars
  <2>2. UNCHANGED <<buf, sending, alive, held, serving, n, requests, number>>
    BY <1>1 DEF vars, requestVars
  <2> QED
    BY <2>1, <2>2 DEF Inv, Exchange, Typed, Apart, Numbered, Taken, SentIsNumber
<1> QED
  BY <1>1, SendKeeps, HeldKeeps, ReceiverKeeps, ReceiveKeeps, ReplyKeeps, HangupKeeps DEF Next

LEMMA Invariance == Spec => []Inv
<1>1. Init => RepliesInv /\ Exchange
  BY RepliesInit, InitExchange
<1> QED
  BY <1>1, RequestsInvariance, NextInv, PTL DEF Spec, Inv

-----------------------------------------------------------------------------
(* The sender of a reply has one owner from when it is made until it is    *)
(* used or dropped, whatever becomes of the calls and the halves on its    *)
(* way.                                                                    *)
THEOREM RequestReplyOwners == Spec => []SendersHaveOwner
<1>1. Inv => SendersHaveOwner
  <2> SUFFICES ASSUME Inv
               PROVE  SendersHaveOwner
    OBVIOUS
  <2>a. Apart
    BY DEF Inv, Exchange
  <2>1. /\ DOMAIN Owners = {"client", "send", "buffer", "server"}
        /\ Owners["client"] = held /\ Owners["send"] = {sending}
        /\ Owners["buffer"] = Buffered /\ Owners["server"] = {serving}
    BY DEF Owners
  <2>2. ASSUME NEW c \in Channels
        PROVE  "tx" \in replyAlive[c] <=> \E p \in DOMAIN Owners : c \in Owners[p]
    BY <2>a, <2>1, InBuffer DEF Apart, Senders
  <2>3. ASSUME NEW c \in Channels, NEW p \in DOMAIN Owners, NEW q \in DOMAIN Owners,
               c \in Owners[p], c \in Owners[q]
        PROVE  p = q
    BY <2>a, <2>1, <2>3, InBuffer DEF Apart
  <2> QED
    BY <2>a, <2>2, <2>3 DEF SendersHaveOwner, Apart, NoTwice
<1> QED
  BY <1>1, Invariance, PTL

(* The request that was accepted as the k-th is answered with k or not at  *)
(* all, and one that was not accepted is not answered, for any number of   *)
(* requests under way at once.                                             *)
THEOREM RequestReplyMatches == Spec => []RepliesMatch
<1>1. Inv => RepliesMatch
  <2> SUFFICES ASSUME Inv, NEW c \in Channels
               PROVE  received[c] \in {Nil, None, number[c]}
    BY DEF RepliesMatch
  <2>1. received[c] \in 0..MaxRequests => sent[c] = received[c]
    BY DEF Inv, RepliesInv, ReplyFacts!Inv, ReplyFacts!AnswerIsTrue
  <2>2. received[c] \in (0..MaxRequests) \cup {None, Nil}
    BY DEF Inv, RepliesInv, ReplyFacts!Inv, ReplyFacts!TypeOK
  <2>3. sent[c] \in {Nil, Err, number[c]}
    BY DEF Inv, Exchange, SentIsNumber
  <2> QED
    BY <2>1, <2>2, <2>3, RepliesAssume
<1> QED
  BY <1>1, Invariance, PTL

(* Who awaits a reply and was told nothing since the latest poll can still *)
(* be told: the sender is in someone's hands, and the waker it will call   *)
(* is that of the latest poll.                                             *)
AwaitedIsOwned ==
    \A c \in Channels : (replyPolledBy[c] # Nil /\ c \notin replyNotified) =>
        /\ replyWaker[c] = replyPolledBy[c]
        /\ \E p \in DOMAIN Owners : c \in Owners[p]

(* No reply is awaited in vain: also a request that fails, is given up or  *)
(* goes with the buffer of the channel has its client woken.               *)
THEOREM RequestReplyAwaited == Spec => []AwaitedIsOwned
<1>1. Inv /\ SendersHaveOwner => AwaitedIsOwned
  <2> SUFFICES ASSUME Inv, SendersHaveOwner, NEW c \in Channels,
                      replyPolledBy[c] # Nil, c \notin replyNotified
               PROVE  /\ replyWaker[c] = replyPolledBy[c]
                      /\ "tx" \in replyAlive[c]
    BY DEF AwaitedIsOwned, SendersHaveOwner
  <2>1. replyWaker[c] = replyPolledBy[c] /\ replyCount[c] = 2
    BY DEF Inv, RepliesInv, ReplyFacts!WakerIsRegistered, ReplyFacts!BothPresent,
           ReplyFacts!Rc!BothPresent
  <2>2. replyAlive[c] \in SUBSET {"tx", "rx"}
        /\ replyCount[c] = ReplyFacts!Cardinality(replyAlive[c])
    BY DEF Inv, RepliesInv, ReplyFacts!Inv, ReplyFacts!TypeOK
  <2> QED
    BY <2>1, <2>2, RepliesAssume, ReplyFacts!CountTells
<1> QED
  BY <1>1, RequestReplyOwners, Invariance, PTL
=============================================================================
