---------------------------- MODULE RequestReply ----------------------------
(***************************************************************************)
(* Requests and replies as src/tests/oneshot.rs makes them: a client sends *)
(* the sender of a new oneshot channel through an spsc channel and awaits  *)
(* its receiver; a server takes the senders out and sends the number of    *)
(* the request through each.  Composes `Spsc` and `Oneshot`.               *)
(*                                                                         *)
(* Both sides may do at any time what the drop of a task makes them do: a  *)
(* call is given up, a half, a sender or a receiver goes.  The client may  *)
(* have several requests under way.                                        *)
(***************************************************************************)
EXTENDS Naturals, Sequences, FiniteSets

CONSTANTS Channels,       \* the oneshot channels
          Client, Server, \* the two tasks
          Capacity,       \* of the spsc channel
          MaxRequests,    \* bound of the model on the requests sent
          None, Err, Nil

ASSUME CapacityIsPositive == Capacity \in Nat \ {0}
ASSUME RequestsAreBounded == MaxRequests \in Nat
ASSUME NilIsNothing ==
    Nil \notin Channels \cup {Client, Server} \cup (0..MaxRequests) \cup {None, Err}
ASSUME NoneAndErrAreNoNumbers == None \notin 0..MaxRequests /\ Err \notin 0..MaxRequests

(* The channel of requests; its variables are those of `Spsc`.             *)
VARIABLES count, tx, rx, buf, unbounded, alive, sending, polledBy, notified, ended

(* The channels of replies; the variables are those of `Oneshot`.          *)
VARIABLES replyCount, replyWaker, replyBuf, replyAlive,
          sent, received, replyPolledBy, replyNotified

VARIABLES
    held,       \* the senders the client has made and not sent yet
    serving,    \* the sender the server has taken out, Nil if it has none
    n,          \* `n` of the server: the requests it has dealt with
    requests,   \* history: the requests the spsc channel has accepted
    number      \* history: which of them was each channel's, Nil if none

requestVars == <<count, tx, rx, buf, unbounded, alive, sending, polledBy, notified, ended>>
replyVars == <<replyCount, replyWaker, replyBuf, replyAlive,
               sent, received, replyPolledBy, replyNotified>>
vars == <<requestVars, replyVars, held, serving, n, requests, number>>

Requests == INSTANCE Spsc WITH Messages <- Channels, Tasks <- {Client, Server},
                               MaxBuffered <- Capacity + MaxRequests

Replies == INSTANCE Oneshot WITH
    Messages <- 0..MaxRequests, Tasks <- {Client, Server},
    count <- replyCount, waker <- replyWaker, buf <- replyBuf, alive <- replyAlive,
    polledBy <- replyPolledBy, notified <- replyNotified

Rc == INSTANCE BiRc

Buffered == {buf[i] : i \in 1..Len(buf)}

Init == /\ Requests!Init /\ Replies!Init
        /\ held = {} /\ serving = Nil /\ n = 0
        /\ requests = 0 /\ number = [c \in Channels |-> Nil]

-----------------------------------------------------------------------------
(***************************************************************************)
(* The client.                                                             *)
(***************************************************************************)

(* oneshot::channel().                                                     *)
Open(c) == /\ Replies!Create(c)
           /\ held' = held \cup {c}
           /\ number' = [number EXCEPT ![c] = Nil]
           /\ UNCHANGED <<requestVars, serving, n, requests>>

(* What becomes of the request of c in a step of `send`: it is accepted    *)
(* and gets its number, it waits, or it fails and is dropped.              *)
Outcome(c) ==
    /\ requests' = IF Len(buf') > Len(buf) THEN requests + 1 ELSE requests
    /\ number' = IF Len(buf') > Len(buf) THEN [number EXCEPT ![c] = requests]
                                         ELSE number
    /\ IF sending' = Nil /\ Len(buf') = Len(buf) THEN Replies!DropSender(c)
                                                 ELSE UNCHANGED replyVars
    /\ held' = held \ {c}
    /\ UNCHANGED <<serving, n>>

(* tx.send(oneshot_tx).await, tx.try_send(oneshot_tx).                     *)
Request(c) == /\ c \in held /\ requests < MaxRequests
              /\ Requests!Send(Client, c) \/ Requests!TrySend(c)
              /\ Outcome(c)

ResumeRequest == Requests!ResumeSend(Client) /\ Outcome(sending)

(* Mutant: the value of a dropped `send` is not dropped with it.           *)
CancelRequest_Leaks == /\ Requests!CancelSend
                       /\ UNCHANGED <<replyVars, held, serving, n, requests, number>>

CancelRequest == Requests!CancelSend /\ Outcome(sending)

(* A try_send that fails, or the client drops a sender it has not sent.    *)
Discard(c) == /\ c \in held
              /\ Replies!DropSender(c)
              /\ held' = held \ {c}
              /\ UNCHANGED <<requestVars, serving, n, requests, number>>

(* oneshot_rx.await, once the request was sent.                            *)
Await(c) == /\ c \notin held /\ c # sending
            /\ \/ Replies!PollMessage(c) \/ Replies!PollEnd(c)
               \/ Replies!PollPending(c, Client)
            /\ UNCHANGED <<requestVars, held, serving, n, requests, number>>

GiveUp(c) == /\ Replies!DropReceiver(c)
             /\ UNCHANGED <<requestVars, held, serving, n, requests, number>>

-----------------------------------------------------------------------------
(***************************************************************************)
(* The server.                                                             *)
(***************************************************************************)

(* rx.recv().await, with a request at hand and with none.                  *)
Receive == /\ serving = Nil
           /\ \/ Requests!RecvMessage /\ serving' = Head(buf)
              \/ (Requests!RecvWaits(Server) \/ Requests!RecvEnd) /\ UNCHANGED serving
           /\ UNCHANGED <<replyVars, held, n, requests, number>>

CancelReceive == /\ Requests!CancelRecv
                 /\ UNCHANGED <<replyVars, held, serving, n, requests, number>>

(* oneshot_tx.send(n), or the sender is dropped; then n += 1.              *)
Reply == /\ serving # Nil
         /\ Replies!Send(serving, n) \/ Replies!DropSender(serving)
         /\ n' = n + 1
         /\ serving' = Nil
         /\ UNCHANGED <<requestVars, held, requests, number>>

-----------------------------------------------------------------------------
(* The last half of the channel of requests goes, and the senders in its   *)
(* buffer with it: each takes its receiver's waker and calls it.           *)
FreeBuffer ==
    /\ replyAlive' = [c \in Channels |-> IF c \in Buffered THEN replyAlive[c] \ {"tx"}
                                                           ELSE replyAlive[c]]
    /\ replyCount' = [c \in Channels |-> IF c \in Buffered THEN Rc!Dropped(replyCount[c])
                                                           ELSE replyCount[c]]
    /\ replyWaker' = [c \in Channels |-> IF c \in Buffered THEN Nil ELSE replyWaker[c]]
    /\ replyNotified' = replyNotified \cup
          {d \in Channels : \E c \in Buffered : /\ replyWaker[c] # Nil
                                                /\ replyPolledBy[d] = replyWaker[c]}
    /\ UNCHANGED <<replyBuf, sent, received, replyPolledBy>>

Hangup(drop) == /\ drop
                /\ IF alive' = {} THEN FreeBuffer ELSE UNCHANGED replyVars
                /\ UNCHANGED <<held, serving, n, requests, number>>

ClientHangsUp == Hangup(Requests!DropSender)
ServerHangsUp == serving = Nil /\ Hangup(Requests!DropReceiver)

-----------------------------------------------------------------------------
Next == \/ \E c \in Channels : \/ Open(c) \/ Request(c) \/ Discard(c)
                               \/ Await(c) \/ GiveUp(c)
        \/ ResumeRequest \/ CancelRequest \/ ClientHangsUp
        \/ Receive \/ CancelReceive \/ Reply \/ ServerHangsUp

Spec == Init /\ [][Next]_vars

(***************************************************************************)
(* The executor polls a call whose task was woken, and the server goes on  *)
(* serving or hangs up.                                                    *)
(***************************************************************************)
FairSpec == /\ Spec
            /\ \A c \in Channels : WF_vars(c \in replyNotified /\ Await(c))
            /\ WF_vars("tx" \in notified /\ ResumeRequest)
            /\ WF_vars("rx" \in notified /\ Receive)
            /\ WF_vars(polledBy["rx"] = Nil /\ (Receive \/ ServerHangsUp))
            /\ WF_vars(Reply)

-----------------------------------------------------------------------------
(***************************************************************************)
(* Correctness.                                                            *)
(***************************************************************************)

(* Who can have the sender of a reply.                                     *)
Owners == [client |-> held, send |-> {sending}, buffer |-> Buffered, server |-> {serving}]

(* No sender of a reply is lost on its way and none is had twice: the      *)
(* client has it, a suspended `send`, the buffer, or the server, and once  *)
(* nobody has it it was dropped, which is what its receiver learns from.   *)
SendersHaveOwner ==
    /\ \A i, j \in 1..Len(buf) : buf[i] = buf[j] => i = j
    /\ \A c \in Channels :
          /\ "tx" \in replyAlive[c] <=> \E p \in DOMAIN Owners : c \in Owners[p]
          /\ \A p, q \in DOMAIN Owners : c \in Owners[p] /\ c \in Owners[q] => p = q

(* Replies are not mixed up: the k-th request that was accepted is         *)
(* answered with k, and none is answered that was not accepted, whichever  *)
(* requests fail, wait for room, or are given up on the way.               *)
RepliesMatch == \A c \in Channels : received[c] \in {Nil, None, number[c]}

(* A request that was accepted and that nobody will take out: the server   *)
(* has hung up, and the buffer stays for as long as the client has its     *)
(* half.                                                                   *)
Stranded(c) == c \in Buffered /\ "rx" \notin alive

(* Who awaits a reply is told something, unless its request is stranded.   *)
Answered == \A c \in Channels :
               replyPolledBy[c] # Nil ~> (replyPolledBy[c] = Nil \/ Stranded(c))
=============================================================================
