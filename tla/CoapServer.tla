------------------------------ MODULE CoapServer ------------------------------
(***************************************************************************)
(* The CoAP server: the list of messages that wait for an acknowledgement  *)
(* or a response (sendlist), the observers of its resources (obsserver),   *)
(* the observations it made itself (obsclient), the daemon that reads,     *)
(* retransmits and times out (CoAPServer_yield), and the calls of the      *)
(* application.  A callback runs in the daemon and may call the API too.   *)
(*                                                                         *)
(* HAL mutexes are recursive.  A section under one mutex is one step;      *)
(* sendlist.list_mutex and obsserver.list_mutex are variables because      *)
(* CoAPObsServer_notify and Check_timeout take them in opposite orders.    *)
(*                                                                         *)
(* Datagrams are lost, repeated and reordered: a peer may answer whatever  *)
(* was written to it, at any later time and any number of times.           *)
(***************************************************************************)
EXTENDS Integers, Sequences, FiniteSets, SequencesExt, Lists

CONSTANTS Threads,    \* threads of the application
          Daemon,     \* the thread CoAPServer_init creates
          NoThread,
          Remotes,    \* peers
          IdMax,      \* COAP_MAX_MESSAGE_ID
          FirstIds,   \* values of the id counter to start with
          RetryMax,   \* COAP_MAX_RETRY_COUNT
          SendMax,    \* the values send_maxcount may be configured to
          ObsMax,     \* obs_maxcount
          Kinds,      \* kinds of message the application sends (whether "con" observes is in its answer)
          PeerIds,    \* message ids the peers use in their requests
          MaxSends    \* bound: messages sent, responses and notifications included

ASSUME CoapServerAssumption ==
    /\ Daemon \notin Threads /\ NoThread \notin Threads \cup {Daemon} /\ Remotes # {}
    /\ IdMax \in Nat \ {0, 1} /\ PeerIds \cup FirstIds \subseteq 1 .. IdMax /\ RetryMax \in Nat \ {0}
    /\ SendMax \subseteq Nat \ {0} /\ ObsMax \in Nat \ {0} /\ MaxSends \in Nat
    /\ Kinds \subseteq {"con", "non", "unobserve", "multicast"}

Callers == Threads \cup {Daemon}
Serials == 0 .. MaxSends          \* 0: a message without a handler
Ids     == 1 .. IdMax

VARIABLES
    message_id,
    sendlist, sendcount,     \* sendlist.list and sendlist.count
    send_maxcount,           \* sendlist.maxcount, set by CoAPContext_create
    send_lock, obs_lock, obsc_lock,   \* holders of the three list mutexes
    obsserver,               \* sequence of [remote, con]
    obsclient,               \* tokens observed
    pc, msg,                 \* per caller: step of its call, and the message
    dpc, why, dnode, dlive,  \* daemon: step; the callback it is in; the node it uses; is it allocated
    req,                     \* the request whose callback runs
    running, semaphore, context,
    address_known,           \* HAL_Wifi_Get_IP reports the own address
    written, asked,          \* ids, and tokens of requests, that peers may answer
    sent,                    \* messages begun
    kept, ret, finals, cancelled   \* history, by serial

locks  == <<send_lock, obs_lock, obsc_lock>>
list   == <<sendlist, sendcount>>
calls  == <<pc, msg, message_id, sent>>
daemon == <<dpc, why, dnode, dlive, req>>
peers  == <<obsserver, obsclient, written, asked, send_maxcount>>
life   == <<running, semaphore, context, address_known>>
hist   == <<kept, ret, finals, cancelled>>
vars   == <<locks, list, calls, daemon, life, hist, peers>>

\* What CoAPMessage_send is given: serial names the handler (0: none, or one that
\* is never called because the message is not listed), token is the token of an
\* own request (0: one of the peer's), walk is the next place in obsserver when
\* the message is a notification.
Messages == [serial : Serials, token : Serials, id : 0 .. IdMax, con : BOOLEAN, keep : BOOLEAN,
             kind : Kinds \cup {"none", "response", "notify"}, remote : Remotes, walk : 0 .. ObsMax + 1]
NoMsg == [serial |-> 0, token |-> 0, id |-> 0, con |-> FALSE, keep |-> FALSE,
          kind |-> "none", remote |-> CHOOSE r \in Remotes : TRUE, walk |-> 0]
IsResponse(m) == m.kind \in {"response", "notify"}

\* CoAPSendNode; due says that its timeout has passed.
Nodes == [serial : Serials, token : Serials, id : Ids, resp : BOOLEAN, keep : BOOLEAN,
          remote : Remotes, acked : BOOLEAN, retrans_count : 0 .. RetryMax, due : BOOLEAN]
NodeOf(m) == [serial |-> m.serial, token |-> m.token, id |-> m.id, resp |-> IsResponse(m),
              keep |-> m.keep, remote |-> m.remote, acked |-> FALSE,
              retrans_count |-> IF m.con THEN RetryMax ELSE 0, due |-> FALSE]
NoNode == NodeOf([NoMsg EXCEPT !.id = 1])
\* Requests of the peers; only of an observation the type is remembered.
Requests == {q \in [remote : Remotes, id : PeerIds, con : BOOLEAN, observe : BOOLEAN] : q.con => q.observe}
NoReq  == [remote |-> NoMsg.remote, id |-> 1, con |-> FALSE, observe |-> FALSE]

Init ==
    /\ message_id \in FirstIds   \* after any number of earlier messages
    /\ sendlist = <<>> /\ sendcount = 0 /\ send_maxcount \in SendMax
    /\ send_lock = NoThread /\ obs_lock = NoThread /\ obsc_lock = NoThread
    /\ obsserver = <<>> /\ obsclient = {}
    /\ pc = [c \in Callers |-> "idle"] /\ msg = [c \in Callers |-> NoMsg]
    /\ dpc \in {"top", "none"}  \* HAL_ThreadCreate may fail: nobody looks
    /\ why = "none" /\ dnode = NoNode /\ dlive = TRUE /\ req = NoReq
    /\ running = TRUE /\ semaphore = 0 /\ context = "up" /\ address_known \in BOOLEAN
    /\ written = {} /\ asked = {} /\ sent = 0
    /\ kept = {} /\ ret = [s \in Serials |-> "none"]
    /\ finals = [s \in Serials |-> 0] /\ cancelled = {}

Free(lock, c) == lock \in {NoThread, c}

\* A caller between two API calls: a thread, or the daemon in a callback.  Once
\* CoAPServer_deinit was called no thread may call (its context is being freed).
MayCall(c) == /\ context = "up" /\ pc[c] = "idle"
              /\ IF c = Daemon THEN dpc = "callback" ELSE running

-----------------------------------------------------------------------------
(* Sending *)

\* At the maximum the counter restarts at 1 and 1 is given twice.
CoAPMessageId_gen == IF message_id = IdMax THEN 1 ELSE message_id
IdAfter == IF message_id = IdMax THEN 1 ELSE message_id + 1

BeginSend(c, m) ==
    /\ sent < MaxSends /\ sent' = sent + 1
    /\ msg' = [msg EXCEPT ![c] = m] /\ pc' = [pc EXCEPT ![c] = "send"]

\* The application builds a request with a fresh token and a handler, as
\* CoAPServerMultiCast_send does; "unobserve" repeats the token observed.
SendRequest(c, k, r) ==
    LET s == sent + 1
    IN  /\ MayCall(c)
        /\ \E t \in IF k = "unobserve" THEN obsclient ELSE {s} :
               BeginSend(c, [serial |-> s, token |-> t, id |-> CoAPMessageId_gen,
                             con |-> k \notin {"non", "multicast"}, keep |-> k = "multicast",
                             kind |-> k, remote |-> r, walk |-> 0])
        /\ message_id' = IdAfter
        /\ kept' = IF k = "multicast" THEN kept \cup {s} ELSE kept
        /\ UNCHANGED <<locks, list, daemon, life, ret, finals, cancelled, peers>>

\* The place in obsserver of the peer of the request being answered.
Observing(r) == SelectInSeq(obsserver, LAMBDA o : o.remote = r)

\* An observer that exists is only given the new token; its type stays.
CoAPObsServer_add(q) ==
    IF Observing(q.remote) # 0 \/ Len(obsserver) >= ObsMax THEN obsserver
    ELSE Append(obsserver, [remote |-> q.remote, con |-> q.con])

\* Only the daemon responds: the request lives on its stack.  The response
\* reuses the id of the request and may have a handler.
CoAPServerResp_send(qos, handler) ==
    /\ MayCall(Daemon) /\ why = "request"
    /\ req.observe => Free(obs_lock, Daemon)
    /\ obsserver' = IF req.observe THEN CoAPObsServer_add(req) ELSE obsserver
    /\ BeginSend(Daemon, [NoMsg EXCEPT !.serial = IF qos /\ handler THEN sent + 1 ELSE 0,
                                       !.id = req.id, !.con = qos, !.kind = "response",
                                       !.remote = req.remote])
    /\ UNCHANGED <<message_id, locks, list, daemon, life, hist, obsclient, written, asked, send_maxcount>>

\* Where CoAPMessage_send returns to: the walk of CoAPObsServer_notify or the caller.
Back(c) == IF msg[c].walk > 0 THEN "walk" ELSE "idle"

Returned(c, how) == /\ pc' = [pc EXCEPT ![c] = Back(c)]
                    /\ msg' = [msg EXCEPT ![c] = [NoMsg EXCEPT !.walk = msg[c].walk]]
                    /\ ret' = [ret EXCEPT ![msg[c].serial] = IF msg[c].serial = 0 THEN @ ELSE how]

\* Requests and confirmable responses are kept for retransmission.
Listed(m) == ~IsResponse(m) \/ m.con

\* A GET that ends an observation forgets it before the packet is written;
\* the node is listed only after it was.
CoAPMessage_send(c) ==
    LET m == msg[c]
    IN  /\ pc[c] = "send"
        /\ IF m.kind = "unobserve"
           THEN /\ Free(obsc_lock, c)
                /\ obsclient' = obsclient \ {m.token}
           ELSE UNCHANGED obsclient
        /\ \/ /\ Returned(c, "error")
              /\ UNCHANGED <<written, asked>>
           \/ /\ written' = written \cup {m.id}
              /\ asked' = asked \cup ({m.token} \ {0})
              /\ IF Listed(m) THEN pc' = [pc EXCEPT ![c] = "add"] /\ UNCHANGED <<ret, msg>>
                              ELSE Returned(c, "ok")
        /\ UNCHANGED <<message_id, sent, locks, list, daemon, life, kept, finals, cancelled, obsserver, send_maxcount>>

HasRoom == sendcount < send_maxcount

CoAPMessageList_add(c) ==
    /\ pc[c] = "add" /\ Free(send_lock, c)
    /\ IF HasRoom
       THEN /\ sendlist' = Append(sendlist, NodeOf(msg[c])) /\ sendcount' = sendcount + 1
            /\ Returned(c, "ok")
       ELSE Returned(c, "error") /\ UNCHANGED list
    /\ UNCHANGED <<message_id, sent, locks, daemon, life, kept, finals, cancelled, peers>>

\* CoAPMessageId_cancel and CoAPMessage_cancel: every node with the id goes.
CoAPMessageId_cancel(c, id) ==
    LET gone == {n \in ToSet(sendlist) : n.id = id}
    IN  /\ MayCall(c) /\ Free(send_lock, c) /\ id \in written /\ gone # {}
        /\ sendlist' = Without(sendlist, gone)
        /\ sendcount' = sendcount - Cardinality({i \in 1 .. Len(sendlist) : sendlist[i] \in gone})
        /\ cancelled' = cancelled \cup ({n.serial : n \in gone} \ (kept \cup {0}))
        /\ dlive' = (dlive /\ ~(why = "response" /\ dnode \in gone))
        /\ UNCHANGED <<locks, calls, dpc, why, dnode, req, life, kept, ret, finals, peers>>

-----------------------------------------------------------------------------
(* Observers *)

CoAPObsServer_notify(c) ==
    /\ MayCall(c) /\ Free(obs_lock, c) /\ obsserver # <<>> /\ sent < MaxSends
    /\ obs_lock' = c
    /\ pc' = [pc EXCEPT ![c] = "walk"] /\ msg' = [msg EXCEPT ![c] = [NoMsg EXCEPT !.walk = 1]]
    /\ UNCHANGED <<send_lock, obsc_lock, list, message_id, sent, daemon, life, hist, peers>>

\* obsserver.list_mutex is held from the first observer to the last.
\* (When MaxSends is reached the walk ends early.)
NotifyNext(c) ==
    LET i == msg[c].walk
    IN  /\ pc[c] = "walk"
        /\ IF i \in 1 .. Len(obsserver) /\ sent < MaxSends
           THEN /\ BeginSend(c, [NoMsg EXCEPT !.id = CoAPMessageId_gen, !.con = obsserver[i].con, !.kind = "notify",
                                            !.remote = obsserver[i].remote, !.walk = i + 1])
                /\ message_id' = IdAfter /\ UNCHANGED obs_lock
           ELSE /\ pc' = [pc EXCEPT ![c] = "idle"] /\ msg' = [msg EXCEPT ![c] = NoMsg]
                /\ obs_lock' = NoThread /\ UNCHANGED <<message_id, sent>>
        /\ UNCHANGED <<send_lock, obsc_lock, list, daemon, life, hist, peers>>

-----------------------------------------------------------------------------
(* The daemon *)

\* Mutant of TopOfLoop: the daemon leaves without posting the semaphore.
TopOfLoopUnposted ==
    /\ dpc = "top"
    /\ dpc' = IF running THEN "read" ELSE "left"
    /\ UNCHANGED <<why, dnode, dlive, req, life, locks, list, calls, hist, peers>>

TopOfLoop ==
    /\ dpc = "top"
    /\ IF running THEN dpc' = "read" /\ UNCHANGED semaphore
                  ELSE dpc' = "left" /\ semaphore' = semaphore + 1
    /\ UNCHANGED <<why, dnode, dlive, req, running, context, address_known, locks, list, calls, hist, peers>>

\* The first node with the id, whoever its peer is.
Named(id) == SelectInSeq(sendlist, LAMBDA n : n.id = id)

\* The history of outcomes leaves out the messages that are kept.
Called(s) == finals' = [finals EXCEPT ![s] = IF @ < 2 /\ s \notin kept THEN @ + 1 ELSE @]

\* An ACK or a RST.  A response is done, and this is its outcome; a request is
\* not repeated any more.  The handler runs under sendlist.list_mutex.
CoAPAckMessage_handle(id) ==
    LET i == Named(id)
    IN  /\ dpc = "read" /\ id \in written /\ i # 0
        /\ Free(send_lock, Daemon)
        /\ IF sendlist[i].resp
           THEN sendlist' = RemoveAt(sendlist, i) /\ sendcount' = sendcount - 1
           ELSE sendlist' = [sendlist EXCEPT ![i].acked = TRUE] /\ UNCHANGED sendcount
        /\ IF sendlist[i].serial # 0
           THEN dpc' = "callback" /\ why' = "ack" /\ send_lock' = Daemon
           ELSE UNCHANGED <<dpc, why, send_lock>>
        /\ IF sendlist[i].serial # 0 /\ sendlist[i].resp
           THEN Called(sendlist[i].serial) ELSE UNCHANGED finals
        /\ UNCHANGED <<dnode, dlive, req, obs_lock, obsc_lock, calls, life, kept, ret, cancelled, peers>>

\* CoAPObsClient_add for a response whose request is listed (first) or not.
CoAPObsClient_add(t, observe, first) ==
    CASE ~observe -> obsclient \ {t}
      [] observe /\ first /\ Cardinality(obsclient) < ObsMax -> obsclient \cup {t}
      [] OTHER -> obsclient

Waiting(t) == SelectInSeq(sendlist, LAMBDA n : n.token = t)

\* Mutant of Unlink: the node stays in the list.
UnlinkNothing(i) == UNCHANGED list
\* The node is unlinked, unless it is kept, before its handler runs unlocked.
Unlink(i) == IF sendlist[i].keep THEN UNCHANGED list
             ELSE sendlist' = RemoveAt(sendlist, i) /\ sendcount' = sendcount - 1

CoAPRespMessage_handle(t, observe) ==
    LET i == Waiting(t)
    IN  /\ dpc = "read" /\ t \in asked /\ i # 0
        /\ Free(send_lock, Daemon)
        /\ Unlink(i)
        /\ obsclient' = CoAPObsClient_add(t, observe, TRUE)
        /\ dpc' = "callback" /\ why' = "response" /\ dnode' = sendlist[i] /\ dlive' = TRUE
        /\ Called(sendlist[i].serial)
        /\ UNCHANGED <<locks, calls, req, life, kept, ret, cancelled, obsserver, written, asked, send_maxcount>>

\* No request waits: a later notification of an observed resource is given to
\* its handler under obsclient.list_mutex; a plain response ends the observation.
NotificationReceived(t, observe) ==
    /\ dpc = "read" /\ t \in asked /\ Waiting(t) = 0
    /\ Free(send_lock, Daemon) /\ Free(obsc_lock, Daemon)
    /\ t \in obsclient
    /\ obsclient' = CoAPObsClient_add(t, observe, FALSE)
    /\ IF observe
       THEN dpc' = "callback" /\ why' = "observed" /\ obsc_lock' = Daemon
       ELSE UNCHANGED <<dpc, why, obsc_lock>>
    /\ UNCHANGED <<dnode, dlive, req, send_lock, obs_lock, list, calls, life, hist, obsserver, written, asked, send_maxcount>>

\* A request for the resource is acknowledged and given to its callback.  (A
\* ping, and a request that is not allowed, is answered and leaves no state.)
CoAPRequestMessage_handle(q) ==
    /\ dpc = "read"
    /\ dpc' = "callback" /\ why' = "request" /\ req' = q
    /\ UNCHANGED <<dnode, dlive, locks, list, calls, life, hist, peers>>

\* The daemon is done with the node, frees it unless it is kept, and releases
\* the mutex under which the handler ran.
CallbackReturns ==
    /\ dpc = "callback" /\ pc[Daemon] = "idle"
    /\ dpc' = IF why = "timeout" THEN "check" ELSE "read"
    /\ why' = "none" /\ dnode' = NoNode /\ dlive' = TRUE /\ req' = NoReq
    /\ send_lock' = IF why = "ack" THEN NoThread ELSE send_lock
    /\ obsc_lock' = IF why = "observed" THEN NoThread ELSE obsc_lock
    /\ UNCHANGED <<obs_lock, list, calls, life, hist, peers>>

\* CoAPNetwork_read returns nothing within waittime.  Without an own address the
\* empty one of the peer passes for it: "drop the packet from itself", and the
\* daemon reads on.  (The mbed HAL never reports an address.)
NothingToRead ==
    /\ dpc = "read" /\ address_known /\ dpc' = "retransmit"
    /\ UNCHANGED <<why, dnode, dlive, req, locks, list, calls, life, hist, peers>>

\* Mutant of Repeated: an acknowledged node is passed over, so that it never times out.
RepeatedUnlessAcked(n) == IF n.due /\ n.retrans_count > 0 /\ ~n.acked
                          THEN [n EXCEPT !.retrans_count = @ - 1, !.due = FALSE] ELSE n
\* Every node whose time has come loses one repetition, sent or not.
Repeated(n) == IF n.due /\ n.retrans_count > 0
               THEN [n EXCEPT !.retrans_count = @ - 1, !.due = FALSE] ELSE n
Retansmit ==
    /\ dpc = "retransmit" /\ dpc' = "check" /\ Free(send_lock, Daemon)
    /\ sendlist' = [i \in 1 .. Len(sendlist) |-> Repeated(sendlist[i])]
    /\ UNCHANGED <<sendcount, why, dnode, dlive, req, locks, calls, life, hist, peers>>

TimedOut(n) == ~n.keep /\ n.retrans_count = 0 /\ n.due

\* The first node that timed out is unlinked; sendlist.list_mutex stays held.
Check_timeout ==
    LET i == SelectInSeq(sendlist, TimedOut)
    IN  /\ dpc = "check" /\ Free(send_lock, Daemon)
        /\ IF i = 0
           THEN dpc' = "top" /\ UNCHANGED <<list, send_lock, dnode>>
           ELSE /\ Unlink(i) /\ dnode' = sendlist[i]
                /\ dpc' = "evict" /\ send_lock' = Daemon
        /\ UNCHANGED <<why, dlive, req, obs_lock, obsc_lock, calls, life, hist, peers>>

\* CoapObsServerAll_delete, for whatever message timed out, then the handler.
EvictObservers ==
    /\ dpc = "evict" /\ Free(obs_lock, Daemon)
    /\ obsserver' = Without(obsserver, {o \in ToSet(obsserver) : o.remote = dnode.remote})
    /\ send_lock' = NoThread
    /\ IF dnode.serial # 0
       THEN dpc' = "callback" /\ why' = "timeout" /\ Called(dnode.serial) /\ UNCHANGED dnode
       ELSE dpc' = "check" /\ dnode' = NoNode /\ UNCHANGED <<why, finals>>
    /\ UNCHANGED <<dlive, req, obs_lock, obsc_lock, list, calls, life, kept, ret, cancelled, obsclient, written, asked, send_maxcount>>

\* (Nobody looks at the timer of a node that is kept.)
TimerExpires(i) ==
    /\ context = "up" /\ ~sendlist[i].due /\ ~sendlist[i].keep
    /\ sendlist' = [sendlist EXCEPT ![i].due = TRUE]
    /\ UNCHANGED <<sendcount, locks, calls, daemon, life, hist, peers>>

-----------------------------------------------------------------------------
(* CoAPServer_deinit, once the application's threads use the server no more *)

StopDaemon(t) ==
    /\ MayCall(t) /\ running /\ \A u \in Threads : pc[u] = "idle"
    /\ running' = FALSE /\ pc' = [pc EXCEPT ![t] = "stopping"]
    /\ UNCHANGED <<msg, message_id, sent, semaphore, context, address_known, locks, list, daemon, hist, peers>>

\* Mutant of DaemonStopped: the semaphore is not waited for.
DaemonAssumedStopped == TRUE
DaemonStopped == semaphore > 0

CoAPContext_free(t) ==
    /\ pc[t] = "stopping" /\ DaemonStopped
    /\ pc' = [pc EXCEPT ![t] = "idle"] /\ semaphore' = 0 /\ context' = "freed"
    /\ sendlist' = <<>> /\ obsserver' = <<>> /\ obsclient' = {}
    /\ UNCHANGED <<msg, message_id, sent, running, address_known, sendcount, locks, daemon, hist, written, asked, send_maxcount>>

-----------------------------------------------------------------------------
CallerStep(c) ==
    CoAPMessage_send(c) \/ CoAPMessageList_add(c) \/ NotifyNext(c) \/ CoAPContext_free(c)

DaemonHandles ==
    \/ \E id \in Ids : CoAPAckMessage_handle(id)
    \/ \E t \in Serials, o \in BOOLEAN : CoAPRespMessage_handle(t, o) \/ NotificationReceived(t, o)
    \/ \E q \in Requests : CoAPRequestMessage_handle(q)

DaemonStep ==
    TopOfLoop \/ CallbackReturns \/ Retansmit \/ Check_timeout \/ EvictObservers

Next ==
    \/ \E c \in Callers, k \in Kinds, r \in Remotes : SendRequest(c, k, r)
    \/ \E qos, handler \in BOOLEAN : CoAPServerResp_send(qos, handler)
    \/ \E c \in Callers, id \in Ids : CoAPMessageId_cancel(c, id)
    \/ \E c \in Callers : CoAPObsServer_notify(c) \/ CallerStep(c)
    \/ DaemonHandles \/ NothingToRead \/ DaemonStep
    \/ \E i \in 1 .. Len(sendlist) : TimerExpires(i)
    \/ \E t \in Threads : StopDaemon(t)

Spec == Init /\ [][Next]_vars

\* Threads in a call and the daemon run (a mutex is given to its waiters in
\* turn: strong fairness), timers expire, and the network is
\* silent for waittime again and again.
FairSpec ==
    /\ Spec
    /\ \A c \in Callers : SF_vars(CallerStep(c))
    /\ WF_vars(DaemonStep) /\ SF_vars(NothingToRead)
    /\ WF_vars(\E i \in 1 .. Len(sendlist) : TimerExpires(i))

-----------------------------------------------------------------------------
(* Properties *)

\* Types of the context of the server, its lists and the callers' locals.
TypeOK ==
    /\ message_id \in Ids /\ send_maxcount \in SendMax /\ sendcount \in 0 .. send_maxcount /\ sent \in 0 .. MaxSends
    /\ sendlist \in Seq(Nodes) /\ Len(sendlist) <= send_maxcount
    /\ {send_lock, obs_lock, obsc_lock} \subseteq Callers \cup {NoThread}
    /\ obsserver \in Seq([remote : Remotes, con : BOOLEAN]) /\ Len(obsserver) <= ObsMax
    /\ obsclient \subseteq Serials /\ asked \subseteq Serials /\ written \subseteq Ids
    /\ pc \in [Callers -> {"idle", "send", "add", "walk", "stopping"}]
    /\ msg \in [Callers -> Messages]
    /\ dpc \in {"none", "top", "read", "callback", "retransmit", "check", "evict", "left"}
    /\ dnode \in Nodes /\ dlive \in BOOLEAN

\* sendlist.count is the length of the list on every path that links or
\* unlinks a node (sent, full, acknowledged, answered, cancelled, timed out).
SendListCounted == context = "up" => sendcount = Len(sendlist)

\* The handler of a message that is not kept is called at most once with its
\* outcome (of a request a response or a timeout, of a confirmable response its
\* acknowledgement or a timeout), however often the peer answers and whichever
\* of them and a cancellation comes first; and never when CoAPMessage_send
\* reported an error.
OneOutcome ==
    \A s \in 1 .. MaxSends : s \notin kept =>
        finals[s] <= IF ret[s] = "error" \/ s \in cancelled THEN 0 ELSE 1

\* A node the daemon still reads after a handler was called without the mutex
\* is freed by nobody else, unless the message is one that is kept.
HandlerNodeIsOwned == ~dlive => dnode.keep

\* A peer is listed once as an observer.
ObserversDistinct ==
    \A i, j \in 1 .. Len(obsserver) : obsserver[i].remote = obsserver[j].remote => i = j

\* One caller holds sendlist.list_mutex and waits for obsserver.list_mutex, the
\* other holds obsserver.list_mutex and waits for sendlist.list_mutex.
Inversion ==
    /\ send_lock = Daemon
    /\ obs_lock \in Threads /\ pc[obs_lock] = "add"

\* What c does next may need a mutex that d holds; between two calls of the API,
\* and in the daemon's own steps, that may be any of them.
WaitsFor(c, d) ==
    /\ c # d
    /\ \/ pc[c] = "idle" /\ d \in {send_lock, obs_lock, obsc_lock}
       \/ pc[c] = "add" /\ d = send_lock
       \/ pc[c] = "send" /\ msg[c].kind = "unobserve" /\ d = obsc_lock

\* Nobody waits in a circle, except in the inversion: a wait for somebody who
\* waits, the daemon for the thread that notifies, goes no further.
OnlyInversionBlocks ==
    ~Inversion => \A c, d, e, x \in Callers : ~(WaitsFor(c, d) /\ WaitsFor(d, e) /\ WaitsFor(e, x))

\* The lists of the server are sound, counted and without duplicates, no node
\* is freed under the daemon that reads it, and the mutexes are taken in an
\* order, the inversion apart.
CoapInv ==
    TypeOK /\ SendListCounted /\ ObserversDistinct /\ HandlerNodeIsOwned /\ OnlyInversionBlocks

\* CoAPServer_deinit frees the context only when the daemon has left it.
ContextOutlivesDaemon == context = "freed" => dpc = "left"

\* The daemon exists, and a read that finds nothing ends its reading.
LooksAtTimers == dpc # "none" /\ address_known

\* Every message with a handler that CoAPMessage_send accepted gets its outcome
\* from a daemon that looks at its timers, unless it is kept, it is cancelled,
\* the server is stopped, or the mutexes are locked for good; an acknowledgement
\* alone does not keep it listed for ever.
AcceptedIsSettled ==
    \A s \in 1 .. MaxSends :
        (ret[s] = "ok" /\ s \notin kept /\ LooksAtTimers)
            ~> (finals[s] > 0 \/ s \in cancelled \/ ~running \/ Inversion)

\* Every call returns, whatever the daemon does, with the inversion as the only
\* way in which the server's threads block each other for good; CoAPServer_deinit
\* returns, too, unless the daemon it waits for was not created or reads for ever.
CallsReturn ==
    \A c \in Callers :
        pc[c] # "idle" ~> \/ pc[c] = "idle" \/ Inversion
                          \/ pc[c] = "stopping" /\ ~LooksAtTimers
=============================================================================
