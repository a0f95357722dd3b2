------------------------------ MODULE PSClient ------------------------------
(***************************************************************************)
(* The Go client of the pubsub server (pubsub/psclient/client.go): calls   *)
(* (Subscribe, Unsubscribe, ServerVersion, Ping) from several goroutines,  *)
(* the receiver that hands each response to its call by request ID and     *)
(* everything else to the application, and the end of the connection.      *)
(*                                                                         *)
(* The server (external) answers a request once, pings aside, in order,    *)
(* and pushes events in between.  A write may be reported as failed after  *)
(* the server got it.  Another goroutine than a caller reads Receive().    *)
(***************************************************************************)
EXTENDS Integers, Sequences

CONSTANTS Callers,
          RecvSize,                   \* Of recvMsgChan: 16 in the code.
          MaxRequests, MaxPushes      \* Bounds.

VARIABLES
    call,        \* What every caller is doing: [at, id, kind, got].
    requests,    \* The IDs in the map of response channels.
    nextID,
    toServer, fromServer,      \* The two directions of the connection.
    up,                        \* The connection.
    receiver,                  \* TRUE while the receiver runs and ctx is not done.
    handing,                   \* Goroutines with a response for its channel.
    recvMsgs,                  \* recvMsgChan
    pushes

psclientVars == <<call, requests, nextID, toServer, fromServer, up, receiver, handing,
                  recvMsgs, pushes>>

NoID == -1
Idle == [at |-> "idle", id |-> NoID, kind |-> "none", got |-> NoID]

Init ==
    /\ call = [t \in Callers |-> Idle]
    /\ requests = {} /\ nextID = 0
    /\ toServer = <<>> /\ fromServer = <<>> /\ up = TRUE /\ receiver = TRUE
    /\ handing = {} /\ recvMsgs = <<>> /\ pushes = 0

\* newResponseChan: the ID and its channel, under reqMtx.
newResponseChan(t, kind) ==
    /\ call[t].at \in {"idle", "returned"} /\ nextID < MaxRequests
    /\ call' = [call EXCEPT ![t] = [at |-> "sends", id |-> nextID, kind |-> kind, got |-> NoID]]
    /\ requests' = requests \cup {nextID} /\ nextID' = nextID + 1
    /\ UNCHANGED <<toServer, fromServer, up, receiver, handing, recvMsgs, pushes>>

\* A call returns with what it got; the deferred deleteRequestID.
Returns(t, got) ==
    /\ call' = [call EXCEPT ![t] = [@ EXCEPT !.at = "returned", !.got = got]]
    /\ requests' = requests \ {call[t].id}

\* send: the server gets the message, or it does not and the call fails.
send(t) ==
    /\ call[t].at = "sends"
    /\ \/ /\ up
          /\ toServer' = Append(toServer, [id |-> call[t].id, kind |-> call[t].kind])
          /\ call' = [call EXCEPT ![t].at = "written"] /\ UNCHANGED requests
       \/ Returns(t, NoID) /\ UNCHANGED toServer
    /\ UNCHANGED <<nextID, fromServer, up, receiver, handing, recvMsgs, pushes>>

\* The write is reported as done, and a call other than Ping waits for the
\* response; or it is reported as failed.
Written(t) ==
    /\ call[t].at = "written"
    /\ \/ call[t].kind # "ping" /\ call' = [call EXCEPT ![t].at = "waits"] /\ UNCHANGED requests
       \/ Returns(t, NoID)
    /\ UNCHANGED <<nextID, toServer, fromServer, up, receiver, handing, recvMsgs, pushes>>

\* External: the server's receive loop, see PubSub.
ServerAnswers ==
    /\ up /\ toServer # <<>>
    /\ toServer' = Tail(toServer)
    /\ fromServer' = IF Head(toServer).kind = "ping" THEN fromServer
                     ELSE Append(fromServer, [event |-> "resp", id |-> Head(toServer).id])
    /\ UNCHANGED <<call, requests, nextID, up, receiver, handing, recvMsgs, pushes>>

ServerPushes ==
    /\ up /\ pushes < MaxPushes
    /\ \E event \in {"newblock", "bye", "unknown"} :
          fromServer' = Append(fromServer, [event |-> event, id |-> NoID])
    /\ pushes' = pushes + 1
    /\ UNCHANGED <<call, requests, nextID, toServer, up, receiver, handing, recvMsgs>>

\* The connection breaks, or Stop closes it.
Breaks ==
    /\ up /\ up' = FALSE
    /\ UNCHANGED <<call, requests, nextID, toServer, fromServer, receiver, handing,
                   recvMsgs, pushes>>

\* What a message is: a response, the end, an event to hand on, or an unknown
\* event, which is dropped.
DecodeMsg(event) ==
    CASE event = "resp" -> "ResponseMessage"
      [] event = "bye" -> "HangUp"
      [] event = "newblock" -> "WebsocketBlock"
      [] OTHER -> "error"

\* The receiver itself sends on the unbuffered channel.
FreeInline == receiver /\ handing = {}

\* A response for an ID in the map is handed over by a goroutine of its own, so
\* that the receiver goes on.
Free == receiver

\* One turn of the receiver; the channel to the application may be full.  After
\* a "bye" it ends.
receiverTurn ==
    /\ Free /\ up /\ fromServer # <<>>
    /\ fromServer' = Tail(fromServer)
    /\ LET m == Head(fromServer)
           type == DecodeMsg(m.event)
       IN  \/ /\ type = "ResponseMessage"
              /\ handing' = IF m.id \in requests THEN handing \cup {m.id} ELSE handing
              /\ UNCHANGED <<recvMsgs, receiver>>
           \/ /\ type \in {"WebsocketBlock", "HangUp"} /\ Len(recvMsgs) < RecvSize
              /\ recvMsgs' = Append(recvMsgs, type) /\ receiver' = (type # "HangUp")
              /\ UNCHANGED handing
           \/ type = "error" /\ UNCHANGED <<recvMsgs, receiver, handing>>
    /\ UNCHANGED <<call, requests, nextID, toServer, up, pushes>>

\* Reading fails, or ctx is done.  Response channels are left as they are.
receiverEnds ==
    /\ receiver /\ ~up
    /\ receiver' = FALSE
    /\ UNCHANGED <<call, requests, nextID, toServer, fromServer, up, handing, recvMsgs, pushes>>

\* The unbuffered send meets the waiting call; the channel is closed and the ID
\* deleted.
Delivers(id) ==
    /\ id \in handing
    /\ \E t \in Callers :
          call[t].at = "waits" /\ call[t].id = id /\ Returns(t, id)
    /\ handing' = handing \ {id}
    /\ UNCHANGED <<nextID, toServer, fromServer, up, receiver, recvMsgs, pushes>>

AppReads ==
    /\ recvMsgs # <<>> /\ recvMsgs' = Tail(recvMsgs)
    /\ UNCHANGED <<call, requests, nextID, toServer, fromServer, up, receiver, handing, pushes>>

Next ==
    \/ \E t \in Callers :
          send(t) \/ Written(t) \/ \E kind \in {"subscribe", "ping"} : newResponseChan(t, kind)
    \/ ServerAnswers \/ ServerPushes \/ Breaks
    \/ receiverTurn \/ receiverEnds \/ AppReads
    \/ \E id \in handing : Delivers(id)

Fairness ==
    /\ WF_psclientVars(ServerAnswers) /\ WF_psclientVars(receiverTurn)
    /\ WF_psclientVars(AppReads)
    /\ \A t \in Callers : WF_psclientVars(Written(t))
    /\ \A id \in 0 .. MaxRequests - 1 : WF_psclientVars(Delivers(id))

Spec == Init /\ [][Next]_psclientVars /\ Fairness

(***************************************************************************)
(* Properties.                                                             *)
(***************************************************************************)
\* While the receiver runs on an open connection every call gets its response,
\* whatever other calls do whose write failed although the server answered.
\* (When the connection breaks, a call that waits goes on waiting: nothing
\* closes its channel.)
CallsAreAnswered ==
    \A t \in Callers :
       call[t].at = "waits" ~> (call[t].at = "returned" /\ call[t].got = call[t].id)
                               \/ ~up \/ ~receiver

(***************************************************************************)
(* Mutants.                                                                *)
(***************************************************************************)
=============================================================================
