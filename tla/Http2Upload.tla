----------------------------- MODULE Http2Upload -----------------------------
(***************************************************************************)
(* File upload over HTTP/2: the queue of uploads and the thread that works *)
(* it off (http2_upload_api.c), the synchronous stream calls it makes      *)
(* (http2_api.c), and http2_io, the thread that reads, pings and           *)
(* reconnects.  The application is one thread.                             *)
(*                                                                         *)
(* A stream call holds handle->mutex while it sends and inserts its node,  *)
(* and http2_io while it reads or pings: each is one step.  reconnect()    *)
(* takes no mutex.  Stream ids start again with every session.             *)
(*                                                                         *)
(* Lengths are counted in packets (FS_UPLOAD_PACKET_LEN).                  *)
(***************************************************************************)
EXTENDS Integers, Sequences, FiniteSets, SequencesExt, Lists

CONSTANTS N,             \* bound: uploads the application requests
          FileLen,       \* length of the file of each upload; 0: no such file
          PartLen,       \* length of a part, one HTTP/2 request
          Offsets,       \* where the server lets an upload begin
          SpecLen,       \* the length each upload asks for; 0: the whole file
          Stops,         \* bound: uploads the application may stop
          KeepAliveCnt,  \* IOT_HTTP2_KEEP_ALIVE_CNT
          MaxBreaks      \* bound: times the connection breaks or a pong is late

ASSUME Http2Assumption ==
    /\ N \in Nat /\ FileLen \in [1 .. N -> Nat] /\ PartLen \in Nat \ {0}
    /\ Offsets \subseteq Nat /\ SpecLen \in [1 .. N -> Nat] /\ Stops \subseteq 1 .. N
    /\ KeepAliveCnt \in Nat \ {0} /\ MaxBreaks \in Nat

Uploads == 1 .. N

VARIABLES
    conn,          \* "up", "broken" (the peer is gone), "freed" (http2_connect is not cleared yet),
                   \* "none" (http2_connect is NULL)
    session, next_id, breaks,
    init_state, handle,
    ipc, rv, connect_state, retry_cnt,            \* http2_io
    ping_state, timer_valid,                      \* keep-alive
    stream_list,   \* newest first: [id, session, u, channel, status, posted]
    open_requests, \* requests of this session the server has not answered
    upc, cur,      \* the upload thread: step, and its locals
    file_list, file_thread, if_stop, threads,
    apc, arg,      \* the application: step, and the upload it asks about
    requested,     \* uploads requested so far
    accepted,      \* those whose request returned success
    ended,         \* history: the uploads whose end_cb was called, in order
    stored,        \* history: packets of the current upload the server accepted
    missed,        \* history: uploads queued behind a thread that has seen the queue empty
    stale          \* history: the handle was stored after its thread had left

conns   == <<conn, session, next_id, breaks>>
io      == <<ipc, rv, connect_state, retry_cnt>>
ping    == <<ping_state, timer_valid>>
streams == <<stream_list, open_requests>>
queue   == <<file_list, file_thread, if_stop, threads>>
app     == <<apc, arg, requested, accepted, missed, stale>>
hist    == <<ended, stored>>
life    == <<init_state, handle>>
vars    == <<conns, io, ping, streams, queue, app, hist, life, upc, cur>>

\* u: the upload; node: the [id, session] the thread waits on; sid and ssn:
\* h2_stream_id of the part and the session it belongs to; begun: the offset the
\* server gave; file_offset and upload_len; part_len and send_len of the part;
\* res: what end_cb is told.
NoCur == [u |-> 0, node |-> <<0, 0>>, sid |-> 0, ssn |-> 0, begun |-> 0, file_offset |-> 0, upload_len |-> 0,
          part_len |-> 0, send_len |-> 0, res |-> "none"]

Init ==
    /\ conn = "up" /\ session = 0 /\ next_id = 1 /\ breaks = 0
    /\ init_state = TRUE /\ handle = "up"
    /\ ipc = "top" /\ rv = 0 /\ connect_state = FALSE /\ retry_cnt = 0
    /\ ping_state = "idle" /\ timer_valid = FALSE
    /\ stream_list = <<>> /\ open_requests = {}
    /\ upc = "none" /\ cur = NoCur
    /\ file_list = <<>> /\ file_thread = FALSE /\ if_stop = {} /\ threads = 0
    /\ apc = "idle" /\ arg = 0 /\ requested = 0 /\ accepted = {} /\ missed = {} /\ stale = FALSE
    /\ ended = <<>> /\ stored = {}

-----------------------------------------------------------------------------
(* Stream nodes *)

\* http2_stream_node_search: the first node with the id.
Find(id) == SelectInSeq(stream_list, LAMBDA n : n.id = id)

NodeOf(id) == [id |-> id, session |-> session, u |-> cur.u, channel |-> FALSE,
               status |-> "none", posted |-> FALSE]

\* Mutant of Insert: a new node is added at the end of the list.
InsertLast(n) == Append(stream_list, n)
\* http2_stream_node_insert: list_add, at the head.
Insert(n) == <<n>> \o stream_list

\* http2_stream_node_remove
Removed(id) == IF Find(id) = 0 THEN stream_list ELSE RemoveAt(stream_list, Find(id))

\* The node the upload thread waits on, by identity.
Mine == SelectInSeq(stream_list, LAMBDA n : <<n.id, n.session>> = cur.node)

-----------------------------------------------------------------------------
(* http2_io *)

IoLeaves ==
    /\ ipc = "top" /\ ~init_state /\ ipc' = "left"
    /\ UNCHANGED <<rv, connect_state, retry_cnt, conns, ping, streams, queue, app, hist, life, upc, cur>>

\* Mutant of Answered: every status is taken for success.
AnsweredOnAnyStatus(n, how) == [n EXCEPT !.channel = TRUE, !.status = "200", !.posted = TRUE]

\* on_stream_header for the headers of a response: x-data-stream-id and
\* x-response-status, or a :status other than 200.  A response with only one
\* of the first two wakes nobody and is as good as none.
Answered(n, how) ==
    IF how = "ok" THEN [n EXCEPT !.channel = TRUE, !.status = "200", !.posted = TRUE]
    ELSE [n EXCEPT !.status = "bad", !.posted = TRUE]

\* The server keeps a part it accepts.
Keep(q) == stored' = IF q.u = cur.u THEN stored \cup q.units ELSE stored

ReadAnswer(q, how) ==
    /\ ipc = "top" /\ init_state /\ connect_state /\ conn = "up" /\ q \in open_requests
    /\ open_requests' = open_requests \ {q}
    /\ stream_list' = IF Find(q.id) = 0 THEN stream_list
                      ELSE [stream_list EXCEPT ![Find(q.id)] = Answered(@, how)]
    /\ IF how = "ok" THEN Keep(q) ELSE UNCHANGED stored
    /\ rv' = 0 /\ ipc' = "ping"
    /\ UNCHANGED <<connect_state, retry_cnt, conns, ping, queue, app, ended, life, upc, cur>>

ReadPong ==
    /\ ipc = "top" /\ init_state /\ connect_state /\ conn = "up" /\ ping_state = "sending"
    /\ ping_state' = "recved" /\ rv' = 0 /\ ipc' = "ping"
    /\ UNCHANGED <<connect_state, retry_cnt, timer_valid, conns, streams, queue, app, hist, life, upc, cur>>

\* What iotx_http2_exec_io and iotx_http2_client_send_ping return: without a
\* connection an error; a broken one may be silent, and take the frame.
ExecResult == CASE conn = "none" -> {-1} [] conn = "up" -> {0} [] OTHER -> {0, -1}

\* Nothing comes; a broken connection fails, or is silent; none fails; without
\* connect_state the step is skipped and rv keeps its value.
ReadNothing ==
    /\ ipc = "top" /\ init_state /\ ipc' = "ping"
    /\ rv' \in IF connect_state THEN ExecResult ELSE {rv}
    /\ UNCHANGED <<connect_state, retry_cnt, conns, ping, streams, queue, app, hist, life, upc, cur>>

\* Mutant of PongMissing: the answer to a ping is not checked.
PongNeverMissing(ps) == FALSE
\* iotx_http2_client_recv_ping
PongMissing(ps) == ps = "sending"

\* retry_cnt counts the failures since the last (re)connection.
Judge(r) ==
    IF r < 0
    THEN IF retry_cnt = KeepAliveCnt - 1
         THEN ipc' = "disconnect" /\ connect_state' = FALSE /\ UNCHANGED retry_cnt
         ELSE ipc' = "top" /\ retry_cnt' = retry_cnt + 1 /\ UNCHANGED connect_state
    ELSE /\ ipc' = "top" /\ connect_state' = TRUE
         /\ retry_cnt' = IF connect_state THEN retry_cnt ELSE 0

\* A ping when it is due (every 30 s), the answer looked for when its 3 s are
\* over, then the outcome of the round.  Both have passed only when a connect
\* took long: the ping comes first and starts the 3 s again.
KeepAlive(due, expired) ==
    /\ ipc = "ping"
    /\ due => (~timer_valid \/ ~connect_state)
    /\ expired => timer_valid
    /\ \E sent \in IF due THEN ExecResult ELSE {rv} :
          LET pinged == due /\ sent = 0
              ps     == IF ~due THEN ping_state ELSE IF pinged THEN "sending" ELSE "idle"
              checks == expired /\ ~pinged
              late   == checks /\ conn = "up" /\ PongMissing(ps)
              r      == IF checks THEN (IF PongMissing(ps) THEN -1 ELSE 0) ELSE sent
          IN  /\ late => breaks < MaxBreaks
              /\ breaks' = IF late THEN breaks + 1 ELSE breaks
              /\ ping_state' = ps /\ timer_valid' = (pinged \/ (timer_valid /\ ~checks))
              /\ rv' = r /\ Judge(r)
    /\ UNCHANGED <<conn, session, next_id, streams, queue, app, hist, life, upc, cur>>

\* reconnect(): the old connection, if there is one, is closed and freed, then
\* http2_connect is cleared, then a new connection is tried.  What the upload
\* thread does with a freed connection is undefined; it is given the outcomes of
\* a broken one (the memory holds the closed session until it is used again).
ReconnectCloses ==
    /\ ipc = "disconnect" /\ ipc' = "clear"
    /\ conn' = (IF conn = "none" THEN "none" ELSE "freed") /\ open_requests' = {}
    /\ UNCHANGED <<rv, connect_state, retry_cnt, session, next_id, breaks, ping, stream_list, queue, app, hist, life, upc, cur>>

ReconnectClears ==
    /\ ipc = "clear" /\ ipc' = "connect" /\ conn' = "none"
    /\ UNCHANGED <<rv, connect_state, retry_cnt, session, next_id, breaks, ping, streams, queue, app, hist, life, upc, cur>>

ReconnectOpens ==
    /\ ipc = "connect" /\ ipc' = "top"
    /\ \/ conn' = "up" /\ session' = session + 1 /\ next_id' = 1 /\ rv' = 0
       \/ rv' = -1 /\ UNCHANGED <<conn, session, next_id>>
    /\ UNCHANGED <<connect_state, retry_cnt, breaks, ping, streams, queue, app, hist, life, upc, cur>>

IoStep ==
    \/ IoLeaves \/ ReadNothing \/ (\E due, expired \in BOOLEAN : KeepAlive(due, expired))
    \/ ReconnectCloses \/ ReconnectClears \/ ReconnectOpens

ConnectionBreaks ==
    /\ conn = "up" /\ breaks < MaxBreaks
    /\ conn' = "broken" /\ breaks' = breaks + 1 /\ open_requests' = {}
    /\ UNCHANGED <<session, next_id, stream_list, io, ping, queue, app, hist, life, upc, cur>>

-----------------------------------------------------------------------------
(* The stream calls of the upload thread: IOT_HTTP2_Stream_Open, _Send, FS_Close *)

\* iotx_http2_client_send submits a request and sends it, then the node is
\* inserted.  The server sees the request when it is complete.
Submit(units, complete) ==
    /\ conn # "none"
    /\ next_id' = next_id + 1 /\ stream_list' = Insert(NodeOf(next_id))
    /\ open_requests' = IF conn = "up" /\ complete
                        THEN open_requests \cup {[id |-> next_id, u |-> cur.u, units |-> units]}
                        ELSE open_requests
    /\ UNCHANGED <<conn, session, breaks>>

\* Without a connection nothing is inserted; when only the sending fails the
\* request has an id and its node is inserted and stays.
SubmitFails ==
    /\ \/ conn = "none" /\ UNCHANGED <<next_id, stream_list>>
       \/ conn \in {"broken", "freed"} /\ next_id' = next_id + 1 /\ stream_list' = Insert(NodeOf(next_id))
    /\ UNCHANGED <<conn, session, breaks, open_requests>>

WaitOn(id, ssn) == <<id, ssn>>

\* HAL_SemaphoreWait returns because http2_io posted.
Woken == Mine # 0 /\ stream_list[Mine].posted
Succeeds == Woken /\ stream_list[Mine].status = "200"

\* It returns an error, or the status is bad: the node is removed by its id.
WaitFails ==
    /\ ~Succeeds
    /\ stream_list' = Removed(cur.node[1])
    /\ UNCHANGED <<open_requests, conns>>

Uploading(step) == upc = step /\ handle = "up"
End(how) == upc' = "end" /\ cur' = [cur EXCEPT !.res = how]
others == <<io, ping, app, life, queue>>

LookForWork ==
    /\ Uploading("look")
    /\ IF ~init_state
       THEN upc' = "none" /\ threads' = threads - 1 /\ UNCHANGED cur
       ELSE IF file_list = <<>>
            THEN upc' = "empty" /\ UNCHANGED <<threads, cur>>
            ELSE upc' = "open" /\ cur' = [NoCur EXCEPT !.u = Head(file_list)] /\ UNCHANGED threads
    /\ UNCHANGED <<file_list, file_thread, if_stop, io, ping, app, life, conns, streams, hist>>

\* Mutant of LeaveThread: file_thread is not cleared.
LeaveThreadKnown ==
    /\ Uploading("empty")
    /\ upc' = "none" /\ threads' = threads - 1
    /\ UNCHANGED <<file_list, file_thread, if_stop, cur, io, ping, app, life, conns, streams, hist>>
\* file_thread is cleared after the list was unlocked.
LeaveThread ==
    /\ Uploading("empty")
    /\ upc' = "none" /\ threads' = threads - 1 /\ file_thread' = FALSE
    /\ UNCHANGED <<file_list, if_stop, cur, io, ping, app, life, conns, streams, hist>>

OpenChannel ==
    /\ Uploading("open")
    /\ \/ /\ FileLen[cur.u] > 0 /\ Submit({}, TRUE)
          /\ upc' = "openw" /\ cur' = [cur EXCEPT !.node = WaitOn(next_id, session)]
       \/ FileLen[cur.u] > 0 /\ SubmitFails /\ End("fail")
       \/ FileLen[cur.u] = 0 /\ End("fail") /\ UNCHANGED <<conns, streams>>
    /\ UNCHANGED <<others, hist>>

\* How much is uploaded: from the server's offset on or to the end.
UploadLen(u, o) ==
    IF SpecLen[u] # 0 /\ SpecLen[u] + o < FileLen[u] THEN SpecLen[u] + o ELSE FileLen[u]

\* Taking up the part at an offset.  When nothing is left no packet is sent, and
\* the result of _http2_fs_part_send_sync is a variable that was never assigned.
TakePart(c) ==
    LET left == c.upload_len - c.file_offset
        len  == IF left < PartLen THEN left ELSE PartLen
        c1   == [c EXCEPT !.part_len = len, !.send_len = 0]
    IN  IF len = 0
        THEN \/ upc' = "close" /\ cur' = c1
             \/ upc' = "end" /\ cur' = [c1 EXCEPT !.res = "fail"]
        ELSE upc' = "send" /\ cur' = c1

Opened ==
    /\ Uploading("openw")
    /\ \/ /\ Succeeds /\ UNCHANGED <<conns, streams>>
          /\ \/ \E o \in Offsets \cap (0 .. FileLen[cur.u]) :
                   TakePart([cur EXCEPT !.begun = o, !.file_offset = o, !.upload_len = UploadLen(cur.u, o)])
             \/ End("fail")                                            \* no upload id in the answer
       \/ WaitFails /\ End("fail")
    /\ UNCHANGED <<others, hist>>

Units == cur.file_offset .. (cur.file_offset + cur.part_len - 1)
LastPacket == cur.send_len + 1 = cur.part_len

\* if_stop is looked at after every packet; then the next packet, part or the end.
NextPacket(c) ==
    LET done == [c EXCEPT !.file_offset = @ + c.part_len]
    IN  CASE c.u \in if_stop -> upc' = "end" /\ cur' = [c EXCEPT !.res = "stopped"]
          [] c.u \notin if_stop /\ c.send_len < c.part_len -> upc' = "send" /\ cur' = c
          [] OTHER -> IF done.file_offset < done.upload_len THEN TakePart(done)
                      ELSE upc' = "close" /\ cur' = done

\* The last packet of a part waits for the answer to the part.
AfterPacket(c) == IF LastPacket THEN upc' = "sendw" /\ cur' = c ELSE NextPacket(c)

SendFirstPacket ==
    /\ Uploading("send") /\ cur.send_len = 0 /\ init_state
    /\ \/ /\ Submit(Units, LastPacket)
          /\ AfterPacket([cur EXCEPT !.sid = next_id, !.ssn = session, !.send_len = 1, !.node = WaitOn(next_id, session)])
       \/ SubmitFails /\ End("fail")
    /\ UNCHANGED <<others, hist>>

\* nghttp2_submit_data on h2_stream_id: a later session has no such stream and
\* the packet fails.  After the last one the node is looked up by its id.
SendPacket ==
    /\ Uploading("send") /\ cur.send_len > 0 /\ init_state
    /\ \/ /\ conn # "none" /\ cur.ssn = session
          /\ open_requests' = IF LastPacket /\ conn = "up"
                              THEN open_requests \cup {[id |-> cur.sid, u |-> cur.u, units |-> Units]}
                              ELSE open_requests
          /\ IF LastPacket /\ Find(cur.sid) = 0
             THEN End("fail")
             ELSE AfterPacket([cur EXCEPT !.send_len = @ + 1,
                                 !.node = IF LastPacket THEN WaitOn(cur.sid, stream_list[Find(cur.sid)].session) ELSE @])
       \/ (conn # "up" \/ cur.ssn # session) /\ End("fail") /\ UNCHANGED open_requests
    /\ UNCHANGED <<others, conns, stream_list, hist>>

\* The handle was told to stop, the file cannot be read, or the window stays shut.
PacketFails ==
    /\ Uploading("send") /\ End("fail")
    /\ UNCHANGED <<others, conns, streams, hist>>

PartAnswered ==
    /\ Uploading("sendw")
    /\ \/ Succeeds /\ NextPacket(cur) /\ UNCHANGED <<conns, streams>>
       \/ WaitFails /\ End("fail")
    /\ UNCHANGED <<others, hist>>

\* IOT_HTTP2_FS_Close.  Its result is not looked at.
CloseChannel ==
    /\ Uploading("close")
    /\ \/ /\ Submit({}, TRUE)
          /\ upc' = "closew" /\ cur' = [cur EXCEPT !.node = WaitOn(next_id, session)]
       \/ SubmitFails /\ End("success")
    /\ UNCHANGED <<others, hist>>

Closed ==
    /\ Uploading("closew")
    /\ stream_list' = Without(stream_list, {n \in ToSet(stream_list) : n.id = cur.sid \/ (n.channel /\ n.u = cur.u)})
    /\ End("success")
    /\ UNCHANGED <<others, conns, open_requests, hist>>

\* Mutant of Complete: the node taken off the queue is the last one.
CompleteLast ==
    /\ Uploading("end")
    /\ ended' = Append(ended, cur.u) /\ stored' = {}
    /\ file_list' = Front(file_list) /\ upc' = "look" /\ cur' = NoCur
    /\ UNCHANGED <<file_thread, if_stop, threads, io, ping, app, life, conns, streams>>
\* end_cb, then the upload leaves the queue.
Complete ==
    /\ Uploading("end")
    /\ ended' = Append(ended, cur.u) /\ stored' = {}
    /\ file_list' = Tail(file_list) /\ if_stop' = if_stop \ {cur.u} /\ upc' = "look" /\ cur' = NoCur
    /\ UNCHANGED <<file_thread, threads, io, ping, app, life, conns, streams>>

UploadStep ==
    \/ LookForWork \/ LeaveThread \/ OpenChannel \/ Opened \/ SendFirstPacket \/ SendPacket
    \/ PacketFails \/ PartAnswered \/ CloseChannel \/ Closed \/ Complete

-----------------------------------------------------------------------------
(* The application *)

rest == <<conns, io, ping, streams, hist, cur>>

\* IOT_HTTP2_UploadFile_Request: the upload is queued ...
Request ==
    /\ apc = "idle" /\ init_state /\ requested < N
    /\ requested' = requested + 1 /\ arg' = requested + 1 /\ apc' = "check"
    /\ file_list' = Append(file_list, requested + 1)
    /\ UNCHANGED <<accepted, missed, stale, file_thread, if_stop, threads, life, upc, rest>>

ThreadNeeded == ~file_thread

\* ... and a thread is started when none is known to run, which finds the upload
\* and all before it.  When the one that is known has already found the queue
\* empty, whether it has left or not, nobody takes the upload up.
StartThread ==
    /\ apc = "check"
    /\ \/ /\ ThreadNeeded
          /\ threads' = threads + 1 /\ upc' = (IF upc = "none" THEN "look" ELSE upc)
          /\ apc' = "store" /\ missed' = {} /\ UNCHANGED <<arg, accepted>>
       \/ /\ ThreadNeeded     \* HAL_ThreadCreate fails
          /\ apc' = "idle" /\ arg' = 0 /\ UNCHANGED <<threads, upc, accepted, missed>>
       \/ /\ ~ThreadNeeded
          /\ apc' = "idle" /\ arg' = 0 /\ accepted' = accepted \cup {arg}
          /\ missed' = IF upc = "empty" \/ stale THEN missed \cup {arg} ELSE missed
          /\ UNCHANGED <<threads, upc>>
    /\ UNCHANGED <<requested, stale, file_list, file_thread, if_stop, life, rest>>

\* HAL_ThreadCreate stores the handle after it started the thread, which may
\* have cleared it before.
StoreThread ==
    /\ apc = "store" /\ apc' = "idle" /\ arg' = 0
    /\ file_thread' = TRUE /\ accepted' = accepted \cup {arg} /\ stale' = (upc = "none")
    /\ UNCHANGED <<requested, missed, file_list, if_stop, threads, life, upc, rest>>

\* IOT_HTTP2_Ioctl looks the upload up, unlocks, and marks it under the lock
\* again; an upload that has ended in between is marked in freed memory.
IoctlFind(u) ==
    /\ apc = "idle" /\ init_state /\ u \in (ToSet(file_list) \cap Stops) \ if_stop
    /\ apc' = "ioctl" /\ arg' = u
    /\ UNCHANGED <<requested, accepted, missed, stale, queue, life, upc, rest>>

IoctlStop ==
    /\ apc = "ioctl" /\ apc' = "idle" /\ arg' = 0
    /\ if_stop' = if_stop \cup {arg}
    /\ UNCHANGED <<requested, accepted, missed, stale, file_list, file_thread, threads, life, upc, rest>>

\* IOT_HTTP2_UploadFile_Disconnect waits for http2_io, not for the upload
\* thread: what that thread does after the handle is freed is not modelled.
Disconnect ==
    /\ apc = "idle" /\ init_state /\ requested = N
    /\ init_state' = FALSE /\ apc' = "stopping"
    /\ UNCHANGED <<arg, requested, accepted, missed, stale, queue, handle, upc, rest>>

FreeHandle ==
    /\ apc = "stopping" /\ ipc = "left"
    /\ apc' = "idle" /\ handle' = "freed" /\ conn' = "none"
    /\ stream_list' = <<>> /\ file_list' = <<>>
    /\ UNCHANGED <<arg, requested, accepted, missed, stale, file_thread, if_stop, threads, init_state, upc,
                   session, next_id, breaks, io, ping, open_requests, hist, cur>>

AppStep == StartThread \/ StoreThread \/ IoctlStop \/ FreeHandle

Next ==
    \/ IoStep \/ ReadPong \/ ConnectionBreaks
    \/ \E q \in open_requests, how \in {"ok", "error"} : ReadAnswer(q, how)
    \/ UploadStep
    \/ \E u \in Uploads : IoctlFind(u)
    \/ Request \/ Disconnect \/ AppStep

Spec == Init /\ [][Next]_vars

\* The three threads run, and while http2_io turns round the ping comes due and
\* the time for its answer passes.  Nothing is assumed of the server.
FairSpec ==
    /\ Spec /\ WF_vars(IoStep \/ ReadPong \/ \E q \in open_requests, how \in {"ok", "error"} : ReadAnswer(q, how))
    /\ SF_vars(KeepAlive(TRUE, FALSE)) /\ SF_vars(KeepAlive(FALSE, TRUE))
    /\ WF_vars(UploadStep) /\ WF_vars(AppStep)

-----------------------------------------------------------------------------
(* Properties *)

\* Types of the handle, the stream nodes and the upload queue.
TypeOK ==
    /\ conn \in {"up", "broken", "freed", "none"} /\ session \in Nat /\ next_id \in Nat
    /\ rv \in {0, -1} /\ retry_cnt \in 0 .. (KeepAliveCnt - 1) /\ connect_state \in BOOLEAN
    /\ \A i \in 1 .. Len(stream_list) :
          stream_list[i] \in [id : Nat, session : Nat, u : Uploads, channel : BOOLEAN,
                              status : {"none", "200", "bad"}, posted : BOOLEAN]
    /\ file_list \in Seq(Uploads) /\ if_stop \subseteq Uploads /\ threads \in 0 .. 1
    /\ cur.send_len \in 0 .. cur.part_len /\ cur.part_len \in 0 .. PartLen

\* upload_completed_cb reports UPLOAD_SUCCESS only when the server accepted
\* every packet from the offset it gave to the end of what was asked for,
\* across lost connections, new sessions and answers that come late.
SuccessIsStored ==
    (upc = "end" /\ cur.res = "success") => (cur.begun .. (cur.upload_len - 1)) \subseteq stored

\* upload_completed_cb is called at most once for an upload, and uploads end
\* in the order in which they were requested.
EndOnceInOrder ==
    \A i \in 1 .. Len(ended) : ended[i] = i

\* The node found for the id the upload thread waits on is the node it waits
\* on: an answer wakes that thread, and the node it removes is its own, though
\* nodes of earlier sessions with the same id are still listed.
AnswerFindsWaiter ==
    (upc \in {"openw", "sendw", "closew"} /\ handle = "up") =>
        /\ Find(cur.node[1]) # 0
        /\ stream_list[Find(cur.node[1])].session = cur.node[2]

\* The list of streams is sound: whoever waits is found by its answer.
UploadInv == TypeOK /\ AnswerFindsWaiter

\* connect_state does not stay set without a connection.  It may be set for a
\* moment: a pong that came before the connection was lost lets http2_io
\* report a reconnection while http2_connect is NULL.
ConnectStateIsCorrected ==
    (connect_state /\ conn # "up") ~> (~connect_state \/ conn = "up" \/ ~init_state)

\* The uploads whose requests were accepted all end, again and again, unless the
\* handle is disconnected.  Left out are those queued behind a thread that had
\* seen the queue empty: one about to clear file_thread, until a later request
\* starts another thread, and one whose handle was stored after it had left.
AcceptedUploadEnds ==
    []<>(accepted \ missed \subseteq ToSet(ended) \/ ~init_state)
=============================================================================
