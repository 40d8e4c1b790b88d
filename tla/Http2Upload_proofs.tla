-------------------------- MODULE Http2Upload_proofs --------------------------
(***************************************************************************)
(* Proofs about Http2Upload for any number of uploads, file and part       *)
(* lengths, offsets, pings and lost connections.                           *)
(*                                                                         *)
(* A success is a fact about the server that the device infers from one    *)
(* status in one node.  The inductive invariant follows the part that is   *)
(* being sent: its node is the first one with its id, the only request     *)
(* that can answer it is its own, and a part whose session is over has no  *)
(* request that could be answered at all.                                  *)
(***************************************************************************)
EXTENDS Http2Upload, Lists_proofs, TLAPS

Nodes == [id : Nat, session : Nat, u : Uploads, channel : BOOLEAN,
          status : {"none", "200", "bad"}, posted : BOOLEAN]
Requests == [id : Nat, u : Uploads, units : SUBSET Int]
Locals == [u : 0 .. N, node : Nat \X Nat, sid : Nat, ssn : Nat, begun : Nat, file_offset : Nat,
           upload_len : Nat, part_len : 0 .. PartLen, send_len : 0 .. PartLen,
           res : {"none", "fail", "stopped", "success"}]

Waiting == {"openw", "sendw", "closew"}
Working == {"open", "send", "close", "end"} \cup Waiting

(* Types, in three groups: what http2_io, the stream calls and the queue   *)
(* use.                                                                    *)
IoTypes ==
    /\ conn \in {"up", "broken", "freed", "none"} /\ session \in Nat /\ next_id \in Nat
    /\ rv \in {0, -1} /\ retry_cnt \in 0 .. (KeepAliveCnt - 1) /\ connect_state \in BOOLEAN
    /\ ipc \in {"top", "ping", "disconnect", "clear", "connect", "left"}
StreamTypes ==
    /\ stream_list \in Seq(Nodes) /\ open_requests \subseteq Requests
    /\ upc \in Working \cup {"none", "look", "empty"} /\ cur \in Locals
    /\ cur.send_len <= cur.part_len
QueueTypes ==
    /\ file_list \in Seq(Uploads) /\ if_stop \subseteq Uploads
    /\ requested \in 0 .. N /\ ended \in Seq(Nat)
    /\ apc = "ioctl" => arg \in Uploads

(* The handle is freed after init_state was cleared and http2_io has left. *)
LifePart ==
    /\ init_state \in BOOLEAN /\ handle \in {"up", "freed"}
    /\ apc = "stopping" \/ handle = "freed" => ~init_state
    /\ handle = "freed" => ipc = "left"
    /\ ipc = "connect" => conn = "none"
    /\ ipc = "clear" => conn # "up"

(* There is one upload thread, or none, and file_thread knows of it, or    *)
(* HAL_ThreadCreate has not stored its handle yet.                         *)
ThreadPart ==
    /\ threads = IF upc = "none" THEN 0 ELSE 1
    /\ upc # "none" => file_thread \/ apc = "store"

(* The queue holds what was requested and has not ended, in order, and the *)
(* thread works on its first upload.                                       *)
QueuePart ==
    handle = "up" =>
        /\ Len(file_list) = requested - Len(ended)
        /\ \A i \in 1 .. Len(file_list) : file_list[i] = Len(ended) + i
        /\ upc \in Working => file_list # <<>> /\ cur.u = file_list[1]

(* What was uploaded before the part in progress is stored.                *)
ProgressPart ==
    /\ upc \in {"send", "sendw"} =>
          /\ cur.part_len > 0 /\ cur.file_offset + cur.part_len <= cur.upload_len
          /\ cur.begun .. (cur.file_offset - 1) \subseteq stored
          /\ IF upc = "send" THEN cur.send_len < cur.part_len ELSE cur.send_len = cur.part_len
    /\ upc \in {"close", "closew"} => cur.begun .. (cur.upload_len - 1) \subseteq stored

(* Requests have ids of the session, which only a connection can answer.   *)
RequestPart ==
    /\ \A q \in open_requests : q.id < next_id
    /\ conn # "up" /\ handle = "up" => open_requests = {}

(* The part in progress: its node, and who can answer it.                  *)
InPart == handle = "up" /\ upc \in {"send", "sendw"} /\ cur.send_len > 0
PartPart ==
    InPart =>
        /\ cur.ssn <= session /\ Find(cur.sid) # 0
        /\ upc = "sendw" => cur.node = <<cur.sid, cur.ssn>>
        /\ stream_list[Find(cur.sid)].session = cur.ssn
        /\ stream_list[Find(cur.sid)].status = "200" => upc = "sendw" /\ Units \subseteq stored
        /\ IF cur.ssn = session
           THEN /\ cur.sid < next_id
                /\ \A q \in open_requests : q.id = cur.sid =>
                      upc = "sendw" /\ q.u = cur.u /\ q.units = Units
           ELSE open_requests = {}

StreamParts ==
    /\ StreamTypes /\ ProgressPart /\ RequestPart /\ PartPart
    /\ AnswerFindsWaiter /\ SuccessIsStored
QueueParts == QueueTypes /\ ThreadPart /\ QueuePart /\ EndOnceInOrder

IInv == IoTypes /\ LifePart /\ StreamParts /\ QueueParts

-----------------------------------------------------------------------------
(* The first node with an id *)

First(L, id, f) ==
    IF f = 0 THEN \A i \in 1 .. Len(L) : L[i].id # id
    ELSE /\ f \in 1 .. Len(L) /\ L[f].id = id
         /\ \A j \in 1 .. Len(L) : L[j].id = id => f <= j

LEMMA MinIsFirst ==
  ASSUME NEW L \in Seq(Nodes), NEW id, NEW f,
         LET I == {i \in 1 .. Len(L) : L[i].id = id} IN f = IF I # {} THEN Min(I) ELSE 0
  PROVE  First(L, id, f)
<1> DEFINE I == {i \in 1 .. Len(L) : L[i].id = id}
<1>1. I \in SUBSET Nat /\ 0 \notin I
  OBVIOUS
<1>2. CASE I = {}
  BY <1>2 DEF First
<1>3. CASE I # {}
  <2>1. f = Min(I)
    BY <1>3
  <2>2. f \in I /\ \A j \in I : f <= j
    <3> HIDE DEF I
    <3> QED BY <1>1, <1>3, <2>1, MinFacts
  <2> QED BY <1>1, <2>2 DEF First
<1> QED BY <1>2, <1>3

(* http2_stream_node_search finds the first node, now and after a step.    *)
LEMMA FindIsFirst ==
  ASSUME stream_list \in Seq(Nodes), NEW id
  PROVE  First(stream_list, id, Find(id))
<1>1. PICK L \in Seq(Nodes) : L = stream_list
  OBVIOUS
<1>2. PICK f : f = Find(id)
  OBVIOUS
<1>3. LET I == {i \in 1 .. Len(L) : L[i].id = id} IN f = IF I # {} THEN Min(I) ELSE 0
  BY <1>1, <1>2 DEF Find, SelectInSeq
<1> QED BY <1>1, <1>2, <1>3, MinIsFirst

LEMMA FindIsFirstNext ==
  ASSUME stream_list' \in Seq(Nodes), NEW id
  PROVE  First(stream_list', id, Find(id)')
<1>1. PICK L \in Seq(Nodes) : L = stream_list'
  OBVIOUS
<1>2. PICK f : f = Find(id)'
  OBVIOUS
<1>3. LET I == {i \in 1 .. Len(L) : L[i].id = id} IN f = IF I # {} THEN Min(I) ELSE 0
  BY <1>1, <1>2 DEF Find, SelectInSeq
<1> QED BY <1>1, <1>2, <1>3, MinIsFirst

LEMMA FirstUnique ==
  ASSUME NEW L \in Seq(Nodes), NEW id, NEW f, NEW g, First(L, id, f), First(L, id, g)
  PROVE  f = g
<1>1. Len(L) \in Nat
  OBVIOUS
<1> QED BY <1>1 DEF First

LEMMA FindSame ==
  ASSUME stream_list \in Seq(Nodes), stream_list' = stream_list, NEW id
  PROVE  Find(id)' = Find(id)
  BY FindIsFirst, FindIsFirstNext, FirstUnique

(* The node the upload thread waits on is the one its answer finds.        *)
LEMMA MineIsFound ==
  ASSUME StreamTypes, AnswerFindsWaiter, upc \in Waiting, handle = "up"
  PROVE  Mine = Find(cur.node[1])
<1> DEFINE I == {i \in 1 .. Len(stream_list) : <<stream_list[i].id, stream_list[i].session>> = cur.node}
           f == Find(cur.node[1])
<1>1. f # 0 /\ stream_list[f].session = cur.node[2]
  BY DEF AnswerFindsWaiter, Waiting
<1>2. f \in 1 .. Len(stream_list) /\ stream_list[f].id = cur.node[1]
      /\ \A j \in 1 .. Len(stream_list) : stream_list[j].id = cur.node[1] => f <= j
  BY <1>1, FindIsFirst DEF StreamTypes, First
<1>3. cur.node \in Nat \X Nat
  BY DEF StreamTypes, Locals
<1>4. f \in I /\ \A j \in I : f <= j
  <2>1. cur.node = <<cur.node[1], cur.node[2]>>
    BY <1>3
  <2>2. f \in I
    BY <1>1, <1>2, <2>1
  <2>3. ASSUME NEW j \in I PROVE f <= j
    <3>1. stream_list[j].id = cur.node[1]
      BY <2>1
    <3> QED BY <1>2, <3>1
  <2> QED BY <2>2, <2>3
<1>5. Mine = Min(I)
  <2>1. Mine = IF I # {} THEN Min(I) ELSE 0
    BY DEF Mine, SelectInSeq
  <2> HIDE DEF I, f
  <2> QED BY <1>4, <2>1
<1>6. I \in SUBSET Nat
  BY DEF StreamTypes
<1>7. Min(I) \in I /\ \A j \in I : Min(I) <= j
  <2> HIDE DEF I, f
  <2> QED BY <1>4, <1>6, MinFacts
<1> HIDE DEF I, f
<1>8. Min(I) \in Nat /\ f \in Nat
  BY <1>4, <1>6, <1>7
<1>9. Min(I) = f
  BY <1>4, <1>7, <1>8
<1> QED BY <1>5, <1>9 DEF f

-----------------------------------------------------------------------------
(* What a change of the list of streams leaves of it *)

(* http2_stream_node_insert: the new node is found by its id.              *)
LEMMA InsertFacts ==
  ASSUME stream_list \in Seq(Nodes), NEW n \in Nodes, stream_list' = Insert(n)
  PROVE  stream_list' \in Seq(Nodes) /\ stream_list'[1] = n /\ Find(n.id)' = 1
<1>1. /\ stream_list' \in Seq(Nodes) /\ stream_list'[1] = n /\ Len(stream_list') \in Nat \ {0}
  BY DEF Insert
<1>2. PICK k : k = n.id
  OBVIOUS
<1>3. First(stream_list', k, 1)
  BY <1>1, <1>2 DEF First
<1>4. First(stream_list', k, Find(k)')
  BY <1>1, FindIsFirstNext
<1> QED BY <1>1, <1>2, <1>3, <1>4, FirstUnique

(* on_stream_header fills in a node and moves none.                        *)
LEMMA UpdateFacts ==
  ASSUME stream_list \in Seq(Nodes), NEW i \in 1 .. Len(stream_list), NEW m \in Nodes,
         m.id = stream_list[i].id, stream_list' = [stream_list EXCEPT ![i] = m]
  PROVE  /\ stream_list' \in Seq(Nodes)
         /\ \A j \in 1 .. Len(stream_list) : stream_list'[j] = IF j = i THEN m ELSE stream_list[j]
         /\ \A id : Find(id)' = Find(id)
<1>1. /\ stream_list' \in Seq(Nodes) /\ Len(stream_list') = Len(stream_list)
      /\ \A j \in 1 .. Len(stream_list) : stream_list'[j] = IF j = i THEN m ELSE stream_list[j]
  OBVIOUS
<1>2. ASSUME NEW id PROVE Find(id)' = Find(id)
  <2>1. First(stream_list, id, Find(id)) /\ First(stream_list', id, Find(id)')
    BY <1>1, FindIsFirst, FindIsFirstNext
  <2>2. \A j \in 1 .. Len(stream_list) : stream_list'[j].id = stream_list[j].id
    BY <1>1
  <2>3. First(stream_list', id, Find(id))
    BY <1>1, <2>1, <2>2 DEF First
  <2> QED BY <1>1, <2>1, <2>3, FirstUnique
<1> QED BY <1>1, <1>2

LEMMA RemovedFacts ==
  ASSUME stream_list \in Seq(Nodes), NEW id
  PROVE  Removed(id) \in Seq(Nodes)
<1>1. First(stream_list, id, Find(id))
  BY FindIsFirst
<1> QED BY <1>1, RemoveAtFacts DEF Removed, First

-----------------------------------------------------------------------------
(* Init *)

LEMMA InitIInv == Init => IInv
<1> SUFFICES ASSUME Init PROVE IInv
  OBVIOUS
<1>1. IoTypes
  <2>1. KeepAliveCnt \in Nat \ {0} /\ 0 \in 0 .. (KeepAliveCnt - 1)
    BY Http2Assumption
  <2> QED BY <2>1 DEF Init, IoTypes
<1>2. QueueParts /\ LifePart
  <2>1. N \in Nat /\ 0 \in 0 .. N
    BY Http2Assumption
  <2>2. QueueTypes /\ LifePart /\ ThreadPart
    BY <2>1 DEF Init, QueueTypes, LifePart, ThreadPart
  <2>3. QueuePart /\ EndOnceInOrder
    <3>1. Len(file_list) = 0 /\ Len(ended) = 0 /\ requested = 0 /\ upc = "none"
      BY DEF Init
    <3> QED BY <3>1 DEF QueuePart, EndOnceInOrder, Working, Waiting
  <2> QED BY <2>2, <2>3 DEF QueueParts
<1>3. cur \in Locals /\ cur.send_len <= cur.part_len
  BY Http2Assumption DEF Init, NoCur, Locals
<1>4. StreamParts
  BY <1>3 DEF Init, StreamParts, StreamTypes, ProgressPart, RequestPart, PartPart, InPart,
       AnswerFindsWaiter, SuccessIsStored, Working, Waiting
<1> QED BY <1>1, <1>2, <1>4 DEF IInv

-----------------------------------------------------------------------------
(* Steps that leave the upload thread where it is *)

LEMMA StreamQuiet ==
  ASSUME IoTypes, StreamParts, RequestPart', session' \in Nat,
         UNCHANGED <<stream_list, upc, cur, stored, handle>>,
         open_requests' \subseteq open_requests,
         \/ session' = session /\ next_id' = next_id
         \/ session' > session /\ open_requests' = {}
  PROVE  StreamParts'
<1> USE DEF StreamParts
<1>1. StreamTypes'
  BY DEF StreamTypes
<1>2. ProgressPart' /\ SuccessIsStored'
  BY DEF ProgressPart, SuccessIsStored
<1>3. \A id : Find(id)' = Find(id)
  BY FindSame DEF StreamTypes
<1>4. AnswerFindsWaiter'
  BY <1>3 DEF AnswerFindsWaiter
<1>5. PartPart'
  <2> SUFFICES ASSUME InPart' PROVE PartPart'
    BY DEF PartPart
  <2>1. InPart /\ Units' = Units
    BY DEF InPart, Units
  <2>2. Find(cur.sid)' = Find(cur.sid)
    BY <1>3
  <2>3. cur.ssn \in Nat /\ session \in Nat
    BY DEF StreamTypes, Locals, IoTypes
  <2>4. IF cur.ssn = session'
        THEN /\ cur.sid < next_id'
             /\ \A q \in open_requests' : q.id = cur.sid =>
                   upc = "sendw" /\ q.u = cur.u /\ q.units = Units
        ELSE open_requests' = {}
    BY <2>1, <2>3 DEF PartPart
  <2>5. cur.ssn <= session'
    BY <2>1, <2>3 DEF PartPart
  <2> QED BY <2>1, <2>2, <2>4, <2>5 DEF PartPart
<1> QED BY <1>1, <1>2, <1>4, <1>5

LEMMA QueueQuiet ==
  ASSUME QueueParts,
         UNCHANGED <<file_list, file_thread, if_stop, threads, requested, ended,
                     handle, apc, arg, upc, cur>>
  PROVE  QueueParts'
  BY DEF QueueParts, QueueTypes, ThreadPart, QueuePart, EndOnceInOrder

(* The steps of http2_io that read nothing that belongs to a stream.       *)
LEMMA IoKeeps ==
  ASSUME IInv, IoStep \/ ReadPong \/ ConnectionBreaks
  PROVE  IInv'
<1> USE DEF IInv
<1>1. /\ UNCHANGED <<file_list, file_thread, if_stop, threads, requested, ended,
                     init_state, handle, apc, arg, upc, cur, stream_list, stored>>
      /\ open_requests' \subseteq open_requests
  BY DEF IoStep, IoLeaves, ReadNothing, KeepAlive, ReconnectCloses, ReconnectClears, ReconnectOpens, ReadPong,
       ConnectionBreaks, queue, app, life, hist, streams
<1>2. QueueParts'
  BY <1>1, QueueQuiet
<1>3. IoTypes'
  <2>1. CASE IoLeaves \/ ReadPong \/ ConnectionBreaks \/ ReconnectCloses \/ ReconnectClears \/ ReconnectOpens \/ ReadNothing
    BY <2>1 DEF IoLeaves, ReadPong, ConnectionBreaks, ReconnectCloses, ReconnectClears, ReconnectOpens, ReadNothing,
         ExecResult, IoTypes, conns, io
  <2>2. ASSUME NEW due \in BOOLEAN, NEW expired \in BOOLEAN, KeepAlive(due, expired) PROVE IoTypes'
    <3>1. /\ UNCHANGED <<conn, session, next_id>>
          /\ rv' \in {0, -1} /\ Judge(rv')
      BY <2>2 DEF KeepAlive, ExecResult, IoTypes
    <3>2. KeepAliveCnt \in Nat \ {0} /\ retry_cnt \in 0 .. (KeepAliveCnt - 1)
      BY Http2Assumption DEF IoTypes
    <3>3. retry_cnt' \in 0 .. (KeepAliveCnt - 1)
      <4>1. \/ retry_cnt' = retry_cnt
            \/ retry_cnt' = 0
            \/ retry_cnt # KeepAliveCnt - 1 /\ retry_cnt' = retry_cnt + 1
        BY <3>1 DEF Judge
      <4> QED BY <3>2, <4>1
    <3>4. connect_state' \in BOOLEAN /\ ipc' \in {"top", "disconnect"}
      BY <3>1 DEF Judge, IoTypes
    <3> QED BY <3>1, <3>3, <3>4 DEF IoTypes
  <2> QED BY <2>1, <2>2 DEF IoStep
<1>4. /\ RequestPart'
      /\ \/ session' = session /\ next_id' = next_id
         \/ session' > session /\ open_requests' = {}
  <2>0. RequestPart /\ session \in Nat /\ conn \in {"up", "broken", "freed", "none"} /\ handle \in {"up", "freed"}
    BY DEF StreamParts, IoTypes, LifePart
  <2>1. CASE ReconnectCloses \/ ConnectionBreaks
    BY <1>1, <2>0, <2>1 DEF ReconnectCloses, ConnectionBreaks, RequestPart
  <2>2. CASE UNCHANGED <<conn, session, next_id, open_requests>>
    BY <1>1, <2>0, <2>2 DEF RequestPart
  <2>3. CASE ReconnectOpens
    <3>1. open_requests = {} /\ UNCHANGED open_requests
      BY <2>3 DEF ReconnectOpens, streams, LifePart, RequestPart, StreamParts
    <3> QED BY <1>1, <2>0, <2>2, <2>3, <3>1 DEF ReconnectOpens, RequestPart
  <2>4. CASE ReconnectClears
    BY <1>1, <2>0, <2>4 DEF ReconnectClears, streams, LifePart, RequestPart
  <2> QED BY <2>1, <2>2, <2>3, <2>4 DEF IoStep, IoLeaves, ReadNothing, KeepAlive, ReadPong, conns, streams
<1>5. StreamParts'
  BY <1>1, <1>3, <1>4, StreamQuiet DEF IoTypes
<1>6. LifePart'
  BY <1>1 DEF LifePart, IoTypes, IoStep, IoLeaves, ReadNothing, KeepAlive, Judge, ReconnectCloses,
       ReconnectClears, ReconnectOpens, ReadPong, ConnectionBreaks, conns, io
<1> QED BY <1>2, <1>3, <1>5, <1>6

(* An answer is read: it can only tell of the part it belongs to.          *)
LEMMA ReadAnswerKeeps ==
  ASSUME IInv, NEW q \in open_requests, NEW how \in {"ok", "error"}, ReadAnswer(q, how)
  PROVE  IInv'
<1> USE DEF IInv, StreamParts
<1>1. /\ UNCHANGED <<file_list, file_thread, if_stop, threads, requested, ended, init_state, handle,
                     apc, arg, upc, cur, conn, session, next_id, connect_state, retry_cnt>>
      /\ open_requests' = open_requests \ {q} /\ rv' = 0 /\ ipc' = "ping" /\ init_state /\ ipc = "top"
  BY DEF ReadAnswer, queue, app, life, conns
<1>2. QueueParts' /\ IoTypes' /\ LifePart' /\ RequestPart'
  <2>1. QueueParts'
    BY <1>1, QueueQuiet
  <2>2. IoTypes' /\ LifePart'
    BY <1>1 DEF IoTypes, LifePart
  <2>3. RequestPart'
    BY <1>1 DEF RequestPart
  <2> QED BY <2>1, <2>2, <2>3
<1>3. handle = "up"
  BY <1>1 DEF LifePart
<1>4. stored \subseteq stored' /\ (how = "ok" /\ q.u = cur.u => q.units \subseteq stored')
  BY DEF ReadAnswer, Keep
<1>5. ProgressPart' /\ SuccessIsStored'
  BY <1>1, <1>4 DEF ProgressPart, SuccessIsStored
<1>6. /\ stream_list' \in Seq(Nodes)
      /\ \A id : Find(id)' = Find(id)
      /\ \A j \in 1 .. Len(stream_list) :
            /\ stream_list'[j].session = stream_list[j].session
            /\ stream_list'[j].status # stream_list[j].status => j = Find(q.id)
            /\ stream_list'[j].status = "200" /\ stream_list[j].status # "200" => how = "ok"
  <2>1. CASE Find(q.id) = 0
    BY <2>1, FindSame DEF ReadAnswer, StreamTypes
  <2>2. CASE Find(q.id) # 0
    <3> DEFINE f == Find(q.id)
               m == Answered(stream_list[f], how)
    <3>1. f \in 1 .. Len(stream_list) /\ stream_list[f] \in Nodes
      BY <2>2, FindIsFirst DEF StreamTypes, First
    <3>2. /\ m \in Nodes /\ m.id = stream_list[f].id /\ m.session = stream_list[f].session
          /\ m.status = "200" => how = "ok"
      BY <3>1 DEF Answered, Nodes
    <3>3. stream_list' = [stream_list EXCEPT ![f] = m]
      BY <2>2 DEF ReadAnswer
    <3> HIDE DEF m
    <3>4. PICK i \in 1 .. Len(stream_list) : i = f
      BY <3>1
    <3>5. stream_list \in Seq(Nodes)
      BY DEF StreamTypes
    <3>6. /\ stream_list' \in Seq(Nodes)
          /\ \A j \in 1 .. Len(stream_list) : stream_list'[j] = IF j = i THEN m ELSE stream_list[j]
          /\ \A id : Find(id)' = Find(id)
      <4> HIDE DEF f
      <4> QED BY <3>2, <3>3, <3>4, <3>5, UpdateFacts
    <3> QED BY <3>2, <3>4, <3>6
  <2> QED BY <2>1, <2>2
<1>7. StreamTypes'
  BY <1>1, <1>6 DEF StreamTypes
<1>8. AnswerFindsWaiter'
  <2> SUFFICES ASSUME upc \in Waiting PROVE AnswerFindsWaiter'
    BY <1>1 DEF AnswerFindsWaiter, Waiting
  <2>1. PICK k : k = cur.node[1]
    OBVIOUS
  <2>2. Find(k) # 0 /\ stream_list[Find(k)].session = cur.node[2]
    BY <1>3, <2>1 DEF AnswerFindsWaiter, Waiting
  <2>3. Find(k) \in 1 .. Len(stream_list)
    BY <2>2, FindIsFirst DEF StreamTypes, First
  <2>4. Find(k)' # 0 /\ stream_list'[Find(k)'].session = cur.node[2]
    BY <1>6, <2>2, <2>3
  <2>5. Find(cur.node[1])' = Find(k)'
    BY <1>1, <2>1
  <2> QED BY <1>1, <2>4, <2>5 DEF AnswerFindsWaiter
<1>9. PartPart'
  <2> SUFFICES ASSUME InPart' PROVE PartPart'
    BY DEF PartPart
  <2>1. InPart /\ Units' = Units
    BY <1>1 DEF InPart, Units
  <2>2. PICK k : k = cur.sid
    OBVIOUS
  <2>3. Find(k)' = Find(k) /\ Find(cur.sid)' = Find(k)' /\ Find(k) # 0
    BY <1>1, <1>6, <2>1, <2>2 DEF PartPart
  <2>4. Find(k) \in 1 .. Len(stream_list) /\ stream_list[Find(k)].id = k
    BY <2>3, FindIsFirst DEF StreamTypes, First
  <2>5. ASSUME stream_list'[Find(k)].status = "200" PROVE upc = "sendw" /\ Units \subseteq stored'
    <3>1. CASE stream_list[Find(k)].status = "200"
      BY <1>4, <2>1, <2>2, <3>1 DEF PartPart
    <3>2. CASE stream_list[Find(k)].status # "200"
      <4>1. how = "ok" /\ Find(k) = Find(q.id)
        BY <1>6, <2>4, <2>5, <3>2
      <4>2. q.id = cur.sid
        <5>1. First(stream_list, q.id, Find(q.id))
          BY FindIsFirst DEF StreamTypes
        <5> QED BY <2>2, <2>3, <2>4, <4>1, <5>1 DEF First
      <4>3. upc = "sendw" /\ q.u = cur.u /\ q.units = Units
        BY <2>1, <4>2 DEF PartPart
      <4> QED BY <1>4, <4>1, <4>3
    <3> QED BY <3>1, <3>2
  <2>6. stream_list'[Find(k)].session = cur.ssn
    BY <1>6, <2>1, <2>2, <2>4 DEF PartPart
  <2> QED BY <1>1, <2>1, <2>2, <2>3, <2>5, <2>6 DEF PartPart
<1> QED BY <1>2, <1>5, <1>7, <1>8, <1>9

-----------------------------------------------------------------------------
(* Steps of the application *)

(* The upload thread is in no stream call.                                 *)
LEMMA Between ==
  ASSUME StreamTypes', RequestPart', upc' \in {"none", "look", "empty", "open", "end"},
         upc' = "end" => cur'.res # "success"
  PROVE  StreamParts'
  BY DEF StreamParts, ProgressPart, PartPart, InPart, AnswerFindsWaiter, SuccessIsStored

LEMMA AppKeeps ==
  ASSUME IInv, Request \/ Disconnect \/ AppStep \/ \E u \in Uploads : IoctlFind(u)
  PROVE  IInv'
<1> USE DEF IInv, rest, conns, io, streams, hist, queue, life
<1>0. IoTypes'
  BY DEF IoTypes, Request, Disconnect, AppStep, IoctlFind, StartThread, StoreThread, IoctlStop, FreeHandle
<1>1. CASE Request
  <2>1. StreamParts'
    BY <1>1, StreamQuiet DEF Request, IoTypes, StreamParts, RequestPart
  <2>2. LifePart'
    BY <1>1 DEF Request, LifePart
  <2>3. /\ file_list \in Seq(Uploads) /\ requested + 1 \in Uploads /\ requested \in Nat
        /\ file_list' = Append(file_list, requested + 1) /\ requested' = requested + 1
        /\ UNCHANGED <<file_thread, if_stop, threads, ended, handle, upc, cur>>
        /\ apc = "idle" /\ apc' = "check"
    BY <1>1, Http2Assumption DEF Request, QueueParts, QueueTypes, Uploads
  <2>4. /\ file_list' \in Seq(Uploads) /\ Len(file_list') = Len(file_list) + 1 /\ Len(file_list) \in Nat
        /\ \A j \in 1 .. Len(file_list) : file_list'[j] = file_list[j]
        /\ file_list'[Len(file_list) + 1] = requested + 1
    BY <2>3, AppendFacts
  <2>5. QueueTypes' /\ ThreadPart' /\ EndOnceInOrder'
    <3>1. requested' \in 0 .. N
      BY <2>3, Http2Assumption DEF Uploads
    <3> QED BY <2>3, <2>4, <3>1 DEF QueueParts, QueueTypes, ThreadPart, EndOnceInOrder
  <2>6. QueuePart'
    <3> SUFFICES ASSUME handle = "up" PROVE QueuePart'
      BY <2>3 DEF QueuePart
    <3>1. Len(ended) \in Nat
      BY DEF QueueParts, QueueTypes
    <3>2. Len(file_list) = requested - Len(ended)
          /\ \A i \in 1 .. Len(file_list) : file_list[i] = Len(ended) + i
      BY DEF QueueParts, QueuePart
    <3>3. Len(file_list') = requested' - Len(ended')
      BY <2>3, <2>4, <3>1, <3>2
    <3>4. \A i \in 1 .. Len(file_list') : file_list'[i] = Len(ended') + i
      <4> TAKE i \in 1 .. Len(file_list')
      <4>1. i \in 1 .. Len(file_list) \/ i = Len(file_list) + 1
        BY <2>4
      <4>2. CASE i \in 1 .. Len(file_list)
        BY <2>3, <2>4, <3>2, <4>2
      <4>3. CASE i = Len(file_list) + 1
        <5>1. file_list'[i] = requested + 1 /\ Len(ended) + i = requested + 1
          BY <2>3, <2>4, <3>1, <3>2, <4>3
        <5> QED BY <2>3, <5>1
      <4> QED BY <4>1, <4>2, <4>3
    <3>5. ASSUME upc \in Working PROVE file_list' # <<>> /\ cur.u = file_list'[1]
      <4>1. file_list # <<>> /\ cur.u = file_list[1]
        BY <3>5 DEF QueueParts, QueuePart
      <4>2. 1 \in 1 .. Len(file_list)
        BY <2>3, <4>1
      <4>3. file_list' # <<>>
        BY <2>4
      <4> QED BY <2>4, <4>1, <4>2, <4>3
    <3> QED BY <2>3, <3>3, <3>4, <3>5 DEF QueuePart
  <2> QED BY <1>0, <2>1, <2>2, <2>5, <2>6 DEF QueueParts
<1>2. CASE StartThread
  <2>1. LifePart'
    BY <1>2 DEF StartThread, LifePart
  <2>2. /\ UNCHANGED <<file_list, file_thread, if_stop, requested, ended, handle, cur>> /\ apc = "check"
        /\ \/ UNCHANGED <<upc, threads>> /\ apc' = "idle"
           \/ ~file_thread /\ threads' = threads + 1 /\ apc' = "store"
              /\ upc' = IF upc = "none" THEN "look" ELSE upc
    BY <1>2 DEF StartThread, ThreadNeeded
  <2>3. CASE UNCHANGED <<upc, threads>> /\ apc' = "idle"
    <3>1. QueueParts'
      BY <2>2, <2>3 DEF QueueParts, QueueTypes, ThreadPart, QueuePart, EndOnceInOrder
    <3>2. StreamParts'
      BY <1>2, <2>3, StreamQuiet DEF StartThread, IoTypes, StreamParts, RequestPart
    <3> QED BY <1>0, <2>1, <3>1, <3>2
  <2>4. CASE ~file_thread /\ threads' = threads + 1 /\ apc' = "store"
             /\ upc' = IF upc = "none" THEN "look" ELSE upc
    <3>1. upc = "none" /\ threads = 0 /\ upc' = "look" /\ threads' = 1
      BY <2>2, <2>4 DEF QueueParts, ThreadPart
    <3>2. QueueParts'
      BY <2>2, <2>4, <3>1 DEF QueueParts, QueueTypes, ThreadPart, QueuePart, EndOnceInOrder, Working, Waiting
    <3>3. StreamTypes' /\ RequestPart'
      BY <1>2, <3>1 DEF StartThread, StreamParts, StreamTypes, RequestPart
    <3>4. StreamParts'
      BY <3>1, <3>3, Between
    <3> QED BY <1>0, <2>1, <3>2, <3>4
  <2> QED BY <2>2, <2>3, <2>4
<1>5. CASE StoreThread
  <2>1. StreamParts'
    BY <1>5, StreamQuiet DEF StoreThread, IoTypes, StreamParts, RequestPart
  <2>2. LifePart'
    BY <1>5 DEF StoreThread, LifePart
  <2>3. QueueParts'
    BY <1>5 DEF StoreThread, QueueParts, QueueTypes, ThreadPart, QueuePart, EndOnceInOrder
  <2> QED BY <1>0, <2>1, <2>2, <2>3
<1>3. CASE IoctlStop \/ Disconnect \/ \E u \in Uploads : IoctlFind(u)
  <2>1. StreamParts'
    BY <1>3, StreamQuiet DEF IoctlStop, Disconnect, IoctlFind, IoTypes, StreamParts, RequestPart
  <2>2. LifePart'
    <3>1. CASE IoctlStop
      BY <3>1 DEF IoctlStop, LifePart
    <3>2. CASE Disconnect
      BY <3>2 DEF Disconnect, LifePart
    <3>3. CASE \E u \in Uploads : IoctlFind(u)
      BY <3>3 DEF IoctlFind, LifePart
    <3> QED BY <1>3, <3>1, <3>2, <3>3
  <2>3. if_stop' \subseteq Uploads
    <3>1. ToSet(file_list) \subseteq Uploads
      BY DEF ToSet, QueueParts, QueueTypes
    <3> QED BY <1>3, <3>1 DEF IoctlStop, Disconnect, IoctlFind, QueueParts, QueueTypes
  <2>4. /\ UNCHANGED <<file_list, file_thread, threads, requested, ended, handle, upc, cur>>
        /\ apc # "store" /\ (apc' = "ioctl" => arg' \in Uploads)
    BY <1>3 DEF IoctlStop, Disconnect, IoctlFind
  <2>5. QueueParts'
    BY <2>3, <2>4 DEF QueueParts, QueueTypes, ThreadPart, QueuePart, EndOnceInOrder
  <2> QED BY <1>0, <2>1, <2>2, <2>5
<1>4. CASE FreeHandle
  <2>1. /\ handle' = "freed" /\ stream_list' = <<>> /\ file_list' = <<>> /\ ipc = "left" /\ apc = "stopping"
        /\ apc' = "idle"
        /\ UNCHANGED <<requested, file_thread, if_stop, threads, init_state, upc, next_id, ipc,
                       open_requests, ended, stored, cur>>
    BY <1>4 DEF FreeHandle
  <2>2. StreamParts'
    BY <2>1 DEF StreamParts, StreamTypes, ProgressPart, RequestPart, PartPart, InPart,
         AnswerFindsWaiter, SuccessIsStored
  <2>3. LifePart'
    BY <2>1 DEF LifePart
  <2>4. QueueParts'
    BY <2>1 DEF QueueParts, QueueTypes, ThreadPart, QueuePart, EndOnceInOrder
  <2> QED BY <1>0, <2>2, <2>3, <2>4
<1> QED BY <1>1, <1>2, <1>3, <1>4, <1>5 DEF AppStep

-----------------------------------------------------------------------------
(* Steps of the upload thread *)

(* The thread goes on with the upload at the head of the queue.            *)
LEMMA WorkKeeps ==
  ASSUME QueueParts, LifePart, upc \in Working, upc' \in Working, cur'.u = cur.u,
         UNCHANGED <<file_list, file_thread, if_stop, threads, requested, ended,
                     init_state, handle, apc, arg, ipc, conn>>
  PROVE  QueueParts' /\ LifePart'
<1>1. upc # "none" /\ upc' # "none"
  BY DEF Working, Waiting
<1> QED BY <1>1 DEF QueueParts, QueueTypes, ThreadPart, QueuePart, EndOnceInOrder, LifePart

(* It gives up.                                                            *)
LEMMA EndKeeps ==
  ASSUME StreamTypes, stream_list' \in Seq(Nodes), open_requests' \subseteq Requests, RequestPart',
         NEW how \in {"fail", "stopped"}, End(how)
  PROVE  StreamParts' /\ cur'.u = cur.u /\ upc' \in Working
<1>1. upc' = "end" /\ cur' \in Locals /\ cur'.send_len <= cur'.part_len /\ cur'.res # "success"
      /\ cur'.u = cur.u
  BY DEF End, StreamTypes, Locals
<1>2. StreamTypes' /\ upc' \in Working
  BY <1>1 DEF StreamTypes, Working
<1> QED BY <1>1, <1>2, Between

(* A request is submitted: its node is the first one with its id, and it   *)
(* is the only request with that id.                                       *)
LEMMA SubmitFacts ==
  ASSUME IoTypes, StreamTypes, RequestPart, cur.u \in Uploads, handle' = handle,
         NEW units \in SUBSET Int, NEW complete \in BOOLEAN, Submit(units, complete)
  PROVE  /\ stream_list' \in Seq(Nodes) /\ open_requests' \subseteq Requests
         /\ next_id' = next_id + 1 /\ UNCHANGED <<conn, session>>
         /\ RequestPart'
         /\ stream_list'[1].session = session /\ stream_list'[1].status = "none"
         /\ \A k : k = next_id => Find(k)' = 1
         /\ \A q \in open_requests' : q.id = next_id => complete /\ q.u = cur.u /\ q.units = units
<1> DEFINE n == NodeOf(next_id)
           r == [id |-> next_id, u |-> cur.u, units |-> units]
<1>1. n \in Nodes /\ n.id = next_id /\ n.session = session /\ n.status = "none"
  BY DEF NodeOf, Nodes, IoTypes
<1>2. stream_list' = Insert(n) /\ next_id' = next_id + 1 /\ UNCHANGED <<conn, session>>
  BY DEF Submit
<1>3. stream_list \in Seq(Nodes) /\ next_id \in Nat
  BY DEF StreamTypes, IoTypes
<1> HIDE DEF n
<1>4. stream_list' \in Seq(Nodes) /\ stream_list'[1] = n
  BY <1>1, <1>2, <1>3, InsertFacts
<1>5. ASSUME NEW k, k = next_id PROVE Find(k)' = 1
  <2>1. PICK m \in Nodes : m = n
    BY <1>1
  <2>2. Find(m.id)' = 1
    BY <1>2, <1>3, <2>1, InsertFacts
  <2> QED BY <1>1, <1>5, <2>1, <2>2
<1>6. r \in Requests /\ r.id = next_id
  BY <1>3 DEF Requests
<1>7. open_requests' = IF conn = "up" /\ complete THEN open_requests \cup {r} ELSE open_requests
  BY DEF Submit
<1>8. open_requests' \subseteq Requests
  BY <1>6, <1>7 DEF StreamTypes
<1>9. \A q \in open_requests : q.id < next_id /\ q.id \in Nat
  BY DEF RequestPart, StreamTypes, Requests
<1>10. RequestPart'
  <2>1. \A q \in open_requests' : q.id < next_id'
    BY <1>2, <1>3, <1>7, <1>9
  <2>2. conn' # "up" /\ handle' = "up" => open_requests' = {}
    BY <1>2, <1>7 DEF RequestPart
  <2> QED BY <2>1, <2>2 DEF RequestPart
<1>11. \A q \in open_requests' : q.id = next_id => complete /\ q.u = cur.u /\ q.units = units
  BY <1>3, <1>7, <1>9
<1> QED BY <1>1, <1>2, <1>4, <1>5, <1>8, <1>10, <1>11

LEMMA SubmitFailsFacts ==
  ASSUME IoTypes, StreamTypes, RequestPart, cur.u \in Uploads, handle' = handle, SubmitFails
  PROVE  /\ stream_list' \in Seq(Nodes) /\ open_requests' \subseteq Requests
         /\ next_id' \in Nat /\ UNCHANGED <<conn, session>> /\ RequestPart'
<1>1. NodeOf(next_id) \in Nodes /\ next_id \in Nat /\ stream_list \in Seq(Nodes)
  BY DEF NodeOf, Nodes, IoTypes, StreamTypes
<1>2. /\ UNCHANGED <<conn, session, open_requests>>
      /\ \/ UNCHANGED <<next_id, stream_list>>
         \/ next_id' = next_id + 1 /\ stream_list' = Insert(NodeOf(next_id))
  BY DEF SubmitFails
<1>3. stream_list' \in Seq(Nodes)
  BY <1>1, <1>2, InsertFacts
<1>4. RequestPart'
  <2>1. \A q \in open_requests : q.id \in Nat
    BY DEF StreamTypes, Requests
  <2> QED BY <1>1, <1>2, <2>1 DEF RequestPart
<1> QED BY <1>1, <1>2, <1>3, <1>4 DEF StreamTypes

(* The part at an offset.                                                  *)
LEMMA TakePartFacts ==
  ASSUME NEW c \in Locals, c.file_offset <= c.upload_len, TakePart(c)
  PROVE  /\ cur' \in Locals /\ cur'.send_len = 0
         /\ cur'.u = c.u /\ cur'.begun = c.begun /\ cur'.node = c.node
         /\ cur'.file_offset = c.file_offset /\ cur'.upload_len = c.upload_len
         /\ cur'.file_offset + cur'.part_len <= cur'.upload_len
         /\ \/ upc' = "send" /\ cur'.part_len > 0
            \/ upc' = "close" /\ c.file_offset = c.upload_len
            \/ upc' = "end" /\ cur'.res = "fail"
<1> DEFINE left == c.upload_len - c.file_offset
           len == IF left < PartLen THEN left ELSE PartLen
           c1 == [c EXCEPT !.part_len = len, !.send_len = 0]
<1>1. c.upload_len \in Nat /\ c.file_offset \in Nat /\ PartLen \in Nat \ {0}
  BY Http2Assumption DEF Locals
<1>2. left \in Nat /\ len \in 0 .. PartLen /\ len <= left /\ 0 \in 0 .. PartLen
      /\ (len = 0 => c.file_offset = c.upload_len)
  BY <1>1
<1> HIDE DEF len
<1>3. /\ c1 \in Locals /\ c1.send_len = 0 /\ c1.part_len = len
      /\ c1.u = c.u /\ c1.begun = c.begun /\ c1.node = c.node
      /\ c1.file_offset = c.file_offset /\ c1.upload_len = c.upload_len
  BY <1>2 DEF Locals
<1>4. c.file_offset + len <= c.upload_len
  BY <1>1, <1>2
<1>5. IF len = 0
      THEN \/ upc' = "close" /\ cur' = c1
           \/ upc' = "end" /\ cur' = [c1 EXCEPT !.res = "fail"]
      ELSE upc' = "send" /\ cur' = c1
  BY DEF TakePart, len
<1> HIDE DEF c1, left
<1>6. CASE upc' \in {"close", "send"} /\ cur' = c1
  BY <1>1, <1>2, <1>3, <1>4, <1>5, <1>6
<1>7. CASE upc' = "end" /\ cur' = [c1 EXCEPT !.res = "fail"]
  <2>1. /\ cur' \in Locals /\ cur'.send_len = 0 /\ cur'.part_len = len /\ cur'.res = "fail"
        /\ cur'.u = c.u /\ cur'.begun = c.begun /\ cur'.node = c.node
        /\ cur'.file_offset = c.file_offset /\ cur'.upload_len = c.upload_len
    BY <1>3, <1>7 DEF Locals
  <2> QED BY <1>4, <1>7, <2>1
<1> QED BY <1>5, <1>6, <1>7

LEMMA TakePartKeeps ==
  ASSUME NEW c \in Locals, c.file_offset <= c.upload_len, TakePart(c),
         c.begun .. (c.file_offset - 1) \subseteq stored, stored' = stored,
         stream_list' \in Seq(Nodes), open_requests' \subseteq Requests, RequestPart'
  PROVE  StreamParts' /\ cur'.u = c.u /\ upc' \in Working
<1>1. /\ cur' \in Locals /\ cur'.send_len = 0
      /\ cur'.u = c.u /\ cur'.begun = c.begun
      /\ cur'.file_offset = c.file_offset /\ cur'.upload_len = c.upload_len
      /\ cur'.file_offset + cur'.part_len <= cur'.upload_len
      /\ \/ upc' = "send" /\ cur'.part_len > 0
         \/ upc' = "close" /\ c.file_offset = c.upload_len
         \/ upc' = "end" /\ cur'.res = "fail"
  BY TakePartFacts
<1>2. upc' \in Working /\ StreamTypes'
  <2>1. cur'.part_len >= 0 /\ upc' \in Working
    BY <1>1, Http2Assumption DEF Locals, Working
  <2> QED BY <1>1, <2>1 DEF StreamTypes
<1>3. ProgressPart'
  BY <1>1 DEF ProgressPart
<1>4. PartPart' /\ AnswerFindsWaiter' /\ SuccessIsStored'
  BY <1>1 DEF PartPart, InPart, AnswerFindsWaiter, SuccessIsStored
<1> QED BY <1>1, <1>2, <1>3, <1>4 DEF StreamParts

(* After a packet: stopped, the next packet, the next part, or the end.    *)
LEMMA NextPacketFacts ==
  ASSUME NEW c \in Locals, NextPacket(c)
  PROVE  \/ upc' = "end" /\ cur' = [c EXCEPT !.res = "stopped"]
         \/ upc' = "send" /\ cur' = c /\ c.send_len < c.part_len
         \/ /\ ~(c.send_len < c.part_len)
            /\ LET done == [c EXCEPT !.file_offset = c.file_offset + c.part_len]
               IN  \/ TakePart(done)
                   \/ ~(done.file_offset < done.upload_len) /\ upc' = "close" /\ cur' = done
<1>1. CASE c.u \in if_stop
  BY <1>1 DEF NextPacket
<1>2. CASE c.u \notin if_stop /\ c.send_len < c.part_len
  BY <1>2 DEF NextPacket
<1>3. CASE c.u \notin if_stop /\ ~(c.send_len < c.part_len)
  <2> DEFINE done == [c EXCEPT !.file_offset = c.file_offset + c.part_len]
  <2>1. IF done.file_offset < done.upload_len THEN TakePart(done)
        ELSE upc' = "close" /\ cur' = done
    BY <1>3 DEF NextPacket, Locals
  <2> QED BY <1>3, <2>1
<1> QED BY <1>1, <1>2, <1>3

(* A part was answered with success.                                       *)
LEMMA PartDoneKeeps ==
  ASSUME StreamParts, RequestPart', upc = "sendw", Units \subseteq stored, NextPacket(cur),
         UNCHANGED <<stream_list, open_requests, stored>>
  PROVE  StreamParts' /\ cur'.u = cur.u /\ upc' \in Working
<1> USE DEF StreamParts
<1> DEFINE done == [cur EXCEPT !.file_offset = cur.file_offset + cur.part_len]
<1>1. /\ cur \in Locals /\ cur.send_len = cur.part_len
      /\ cur.file_offset \in Nat /\ cur.part_len \in Nat /\ cur.upload_len \in Nat /\ cur.begun \in Nat
      /\ cur.file_offset + cur.part_len <= cur.upload_len
      /\ cur.begun .. (cur.file_offset - 1) \subseteq stored
  BY Http2Assumption DEF StreamTypes, Locals, ProgressPart
<1>2. /\ done \in Locals /\ done.u = cur.u /\ done.begun = cur.begun
      /\ done.upload_len = cur.upload_len /\ done.send_len = cur.send_len /\ done.part_len = cur.part_len
      /\ done.file_offset = cur.file_offset + cur.part_len
  BY <1>1 DEF Locals
<1>3. done.begun .. (done.file_offset - 1) \subseteq stored
  <2> SUFFICES ASSUME NEW x \in done.begun .. (done.file_offset - 1) PROVE x \in stored
    OBVIOUS
  <2>1. x \in Int /\ cur.begun <= x /\ x <= cur.file_offset + cur.part_len - 1
    BY <1>1, <1>2
  <2>2. x \in cur.begun .. (cur.file_offset - 1) \/ x \in Units
    BY <1>1, <2>1 DEF Units
  <2> QED BY <1>1, <2>2
<1>4. stream_list' \in Seq(Nodes) /\ open_requests' \subseteq Requests
  BY DEF StreamTypes
<1> HIDE DEF done
<1>5. \/ upc' = "end" /\ cur' = [cur EXCEPT !.res = "stopped"]
      \/ TakePart(done)
      \/ ~(done.file_offset < done.upload_len) /\ upc' = "close" /\ cur' = done
  <2>1. ~(cur.send_len < cur.part_len)
    BY <1>1
  <2> QED BY <1>1, <2>1, NextPacketFacts DEF done
<1>6. CASE upc' = "end" /\ cur' = [cur EXCEPT !.res = "stopped"]
  BY <1>4, <1>6, EndKeeps DEF End
<1>7. CASE TakePart(done)
  BY <1>1, <1>2, <1>3, <1>4, <1>7, TakePartKeeps
<1>8. CASE ~(done.file_offset < done.upload_len) /\ upc' = "close" /\ cur' = done
  <2>1. done.file_offset = done.upload_len
    BY <1>1, <1>2, <1>8
  <2>2. StreamTypes' /\ upc' \in Working
    BY <1>1, <1>2, <1>4, <1>8 DEF StreamTypes, Working
  <2>3. ProgressPart'
    BY <1>3, <1>8, <2>1 DEF ProgressPart
  <2>4. PartPart' /\ AnswerFindsWaiter' /\ SuccessIsStored'
    BY <1>8 DEF PartPart, InPart, AnswerFindsWaiter, SuccessIsStored
  <2> QED BY <1>2, <1>8, <2>2, <2>3, <2>4
<1> QED BY <1>5, <1>6, <1>7, <1>8

-----------------------------------------------------------------------------
(* One lemma per stream call *)

(* What holds when the thread is in a call.                                *)
LEMMA AtWork ==
  ASSUME IInv, handle = "up", upc \in Working
  PROVE  cur.u \in Uploads /\ IoTypes /\ StreamTypes /\ RequestPart /\ cur \in Locals
<1>1. file_list # <<>> /\ cur.u = file_list[1] /\ file_list \in Seq(Uploads)
  BY DEF IInv, QueueParts, QueuePart, QueueTypes
<1> QED BY <1>1 DEF IInv, StreamParts, StreamTypes

(* The rest of the invariant follows when the stream call keeps its own.   *)
LEMMA CallKeeps ==
  ASSUME IInv, upc \in Working, upc' \in Working, cur'.u = cur.u, StreamParts',
         next_id' \in Nat, UNCHANGED <<conn, session, others, ended>>
  PROVE  IInv'
<1>1. QueueParts' /\ LifePart'
  BY WorkKeeps DEF IInv, others, io, app, life, queue
<1>2. IoTypes'
  BY DEF IInv, IoTypes, others, io
<1> QED BY <1>1, <1>2 DEF IInv

LEMMA OpenChannelKeeps ==
  ASSUME IInv, OpenChannel
  PROVE  IInv'
<1>1. upc = "open" /\ upc \in Working /\ handle = "up" /\ handle' = handle /\ stored' = stored
      /\ UNCHANGED <<others, ended>>
  BY DEF OpenChannel, Uploading, Working, others, life, hist
<1>2. cur.u \in Uploads /\ IoTypes /\ StreamTypes /\ RequestPart /\ cur \in Locals
  BY <1>1, AtWork
<1>3. CASE Submit({}, TRUE) /\ upc' = "openw" /\ cur' = [cur EXCEPT !.node = WaitOn(next_id, session)]
  <2>1. /\ stream_list' \in Seq(Nodes) /\ open_requests' \subseteq Requests
        /\ next_id' = next_id + 1 /\ UNCHANGED <<conn, session>>
        /\ RequestPart' /\ stream_list'[1].session = session
        /\ \A k : k = next_id => Find(k)' = 1
    BY <1>1, <1>2, <1>3, SubmitFacts
  <2>2. next_id \in Nat /\ session \in Nat
    BY <1>2 DEF IoTypes
  <2>3. cur' \in Locals /\ cur'.u = cur.u /\ cur'.node = <<next_id, session>>
        /\ cur'.send_len = cur.send_len /\ cur'.part_len = cur.part_len
    BY <1>2, <1>3, <2>2 DEF Locals, WaitOn
  <2>4. StreamTypes' /\ upc' \in Working
    BY <1>2, <1>3, <2>1, <2>3 DEF StreamTypes, Working, Waiting
  <2>5. ProgressPart' /\ PartPart' /\ SuccessIsStored'
    BY <1>3 DEF ProgressPart, PartPart, InPart, SuccessIsStored
  <2>6. AnswerFindsWaiter'
    <3>1. PICK k : k = next_id
      OBVIOUS
    <3>2. Find(cur.node[1])' = 1 /\ cur'.node[2] = session
      BY <2>1, <2>3, <3>1
    <3> QED BY <2>1, <3>2 DEF AnswerFindsWaiter
  <2>7. StreamParts'
    BY <2>1, <2>4, <2>5, <2>6 DEF StreamParts
  <2> QED BY <1>1, <2>1, <2>2, <2>3, <2>4, <2>7, CallKeeps
<1>4. CASE SubmitFails /\ End("fail")
  <2>1. /\ stream_list' \in Seq(Nodes) /\ open_requests' \subseteq Requests
        /\ next_id' \in Nat /\ UNCHANGED <<conn, session>> /\ RequestPart'
    BY <1>1, <1>2, <1>4, SubmitFailsFacts
  <2>2. StreamParts' /\ cur'.u = cur.u /\ upc' \in Working
    BY <1>2, <1>4, <2>1, EndKeeps
  <2> QED BY <1>1, <2>1, <2>2, CallKeeps
<1>5. CASE End("fail") /\ UNCHANGED <<conns, streams>>
  <2>1. /\ UNCHANGED <<conn, session, next_id, stream_list, open_requests>> /\ RequestPart' /\ next_id \in Nat
    BY <1>1, <1>2, <1>5 DEF conns, streams, RequestPart, IoTypes
  <2>2. StreamParts' /\ cur'.u = cur.u /\ upc' \in Working
    BY <1>2, <1>5, <2>1, EndKeeps DEF StreamTypes
  <2> QED BY <1>1, <2>1, <2>2, CallKeeps
<1> QED BY <1>3, <1>4, <1>5 DEF OpenChannel

(* A wait that fails takes its node off and ends the upload.               *)
LEMMA WaitFailsKeeps ==
  ASSUME IInv, handle = "up", upc \in Working, WaitFails, End("fail"), UNCHANGED <<others, hist>>
  PROVE  IInv'
<1>1. cur.u \in Uploads /\ IoTypes /\ StreamTypes /\ RequestPart /\ cur \in Locals
  BY AtWork
<1>2. /\ UNCHANGED <<open_requests, conn, session, next_id, handle, ended>>
      /\ stream_list' = Removed(cur.node[1])
  BY DEF WaitFails, conns, others, life, hist
<1>3. stream_list' \in Seq(Nodes) /\ open_requests' \subseteq Requests /\ RequestPart' /\ next_id' \in Nat
  BY <1>1, <1>2, RemovedFacts DEF StreamTypes, RequestPart, IoTypes
<1>4. StreamParts' /\ cur'.u = cur.u /\ upc' \in Working
  BY <1>1, <1>3, EndKeeps
<1> QED BY <1>2, <1>3, <1>4, CallKeeps

LEMMA OpenedKeeps ==
  ASSUME IInv, Opened
  PROVE  IInv'
<1>1. upc = "openw" /\ upc \in Working /\ handle = "up" /\ handle' = handle /\ stored' = stored
      /\ UNCHANGED <<others, ended, hist>>
  BY DEF Opened, Uploading, Working, Waiting, others, life, hist
<1>2. cur.u \in Uploads /\ IoTypes /\ StreamTypes /\ RequestPart /\ cur \in Locals
  BY <1>1, AtWork
<1>3. CASE WaitFails /\ End("fail")
  BY <1>1, <1>3, WaitFailsKeeps
<1>4. ASSUME UNCHANGED <<conns, streams>>
      PROVE  /\ stream_list' \in Seq(Nodes) /\ open_requests' \subseteq Requests /\ RequestPart'
             /\ next_id' \in Nat /\ UNCHANGED <<conn, session>>
  BY <1>1, <1>2, <1>4 DEF conns, streams, RequestPart, StreamTypes, IoTypes
<1>5. CASE End("fail") /\ UNCHANGED <<conns, streams>>
  <2>1. StreamParts' /\ cur'.u = cur.u /\ upc' \in Working
    BY <1>2, <1>4, <1>5, EndKeeps
  <2> QED BY <1>1, <1>4, <1>5, <2>1, CallKeeps
<1>6. ASSUME UNCHANGED <<conns, streams>>, NEW o \in Offsets \cap (0 .. FileLen[cur.u]),
             TakePart([cur EXCEPT !.begun = o, !.file_offset = o, !.upload_len = UploadLen(cur.u, o)])
      PROVE  IInv'
  <2> DEFINE c == [cur EXCEPT !.begun = o, !.file_offset = o, !.upload_len = UploadLen(cur.u, o)]
  <2>1. o \in Nat /\ FileLen[cur.u] \in Nat /\ SpecLen[cur.u] \in Nat /\ o <= FileLen[cur.u]
    BY <1>2, Http2Assumption DEF Uploads
  <2>2. UploadLen(cur.u, o) \in Nat /\ o <= UploadLen(cur.u, o)
    BY <2>1 DEF UploadLen
  <2>3. c \in Locals /\ c.begun = o /\ c.file_offset = o /\ c.upload_len = UploadLen(cur.u, o) /\ c.u = cur.u
    BY <1>2, <2>1, <2>2 DEF Locals
  <2>4. TakePart(c)
    BY <1>6
  <2> HIDE DEF c
  <2>5. c.begun .. (c.file_offset - 1) \subseteq stored
    BY <2>1, <2>3
  <2>6. StreamParts' /\ cur'.u = c.u /\ upc' \in Working
    BY <1>1, <1>4, <1>6, <2>2, <2>3, <2>4, <2>5, TakePartKeeps
  <2> QED BY <1>1, <1>4, <1>6, <2>3, <2>6, CallKeeps
<1> QED BY <1>3, <1>5, <1>6 DEF Opened

(* A packet that is not the last of its part was sent: the next, or stop.  *)
LEMMA MorePackets ==
  ASSUME NEW c \in Locals, c.send_len < c.part_len, NextPacket(c)
  PROVE  \/ upc' = "send" /\ cur' = c
         \/ upc' = "end" /\ cur' = [c EXCEPT !.res = "stopped"]
  BY NextPacketFacts

(* The part in progress after a packet; the last one is waited for.        *)
LEMMA PacketKeeps ==
  ASSUME NEW c \in Locals, NEW last \in BOOLEAN, 0 < c.send_len, c.file_offset + c.part_len <= c.upload_len,
         IF last THEN c.send_len = c.part_len /\ upc' = "sendw" /\ cur' = c
                 ELSE c.send_len < c.part_len /\ NextPacket(c),
         c.begun .. (c.file_offset - 1) \subseteq stored, stored' = stored,
         stream_list' \in Seq(Nodes), open_requests' \subseteq Requests, RequestPart',
         session' = session, session \in Nat, c.ssn <= session,
         \A k : k = c.sid => Find(k)' # 0 /\ stream_list'[Find(k)'].session = c.ssn
                             /\ stream_list'[Find(k)'].status # "200",
         last => c.node = <<c.sid, c.ssn>>,
         c.ssn = session =>
            /\ c.sid < next_id'
            /\ \A q \in open_requests' : q.id = c.sid =>
                  last /\ q.u = c.u /\ q.units = c.file_offset .. (c.file_offset + c.part_len - 1),
         c.ssn # session => open_requests' = {}
  PROVE  StreamParts' /\ cur'.u = c.u /\ upc' \in Working
<1>0. c.send_len \in Nat /\ c.part_len \in Nat
  BY Http2Assumption DEF Locals
<1>1. CASE ~last /\ upc' = "end" /\ cur' = [c EXCEPT !.res = "stopped"]
  <2>1. /\ cur' \in Locals /\ cur'.res # "success" /\ cur'.u = c.u
        /\ cur'.send_len = c.send_len /\ cur'.part_len = c.part_len
    BY <1>1 DEF Locals
  <2>2. StreamTypes' /\ upc' \in Working
    BY <1>0, <1>1, <2>1 DEF StreamTypes, Working
  <2> QED BY <1>1, <2>1, <2>2, Between
<1>2. CASE cur' = c /\ upc' = IF last THEN "sendw" ELSE "send"
  <2>1. StreamTypes' /\ upc' \in Working
    BY <1>0, <1>2 DEF StreamTypes, Working, Waiting
  <2>2. ProgressPart' /\ SuccessIsStored'
    BY <1>0, <1>2 DEF ProgressPart, SuccessIsStored
  <2>3. PICK k : k = c.sid
    OBVIOUS
  <2>4. Find(cur.sid)' = Find(k)'
    BY <1>2, <2>3
  <2>5. Units' = c.file_offset .. (c.file_offset + c.part_len - 1)
    BY <1>2 DEF Units
  <2>6. PartPart'
    BY <1>2, <2>3, <2>4, <2>5 DEF PartPart
  <2>7. AnswerFindsWaiter'
    <3> SUFFICES ASSUME last PROVE AnswerFindsWaiter'
      BY <1>2 DEF AnswerFindsWaiter
    <3>1. cur'.node[1] = k /\ cur'.node[2] = c.ssn
      BY <1>2, <2>3
    <3>2. Find(cur.node[1])' = Find(k)'
      BY <3>1
    <3> QED BY <2>3, <3>1, <3>2 DEF AnswerFindsWaiter
  <2> QED BY <1>2, <2>1, <2>2, <2>6, <2>7 DEF StreamParts
<1>3. \/ ~last /\ upc' = "end" /\ cur' = [c EXCEPT !.res = "stopped"]
      \/ cur' = c /\ upc' = IF last THEN "sendw" ELSE "send"
  BY MorePackets
<1> QED BY <1>1, <1>2, <1>3

LEMMA SendFirstPacketKeeps ==
  ASSUME IInv, SendFirstPacket
  PROVE  IInv'
<1>1. upc = "send" /\ upc \in Working /\ handle = "up" /\ handle' = handle /\ stored' = stored
      /\ cur.send_len = 0 /\ UNCHANGED <<others, ended>>
  BY DEF SendFirstPacket, Uploading, Working, others, life, hist
<1>2. cur.u \in Uploads /\ IoTypes /\ StreamTypes /\ RequestPart /\ cur \in Locals
  BY <1>1, AtWork
<1>3. CASE SubmitFails /\ End("fail")
  <2>1. /\ stream_list' \in Seq(Nodes) /\ open_requests' \subseteq Requests
        /\ next_id' \in Nat /\ UNCHANGED <<conn, session>> /\ RequestPart'
    BY <1>1, <1>2, <1>3, SubmitFailsFacts
  <2>2. StreamParts' /\ cur'.u = cur.u /\ upc' \in Working
    BY <1>2, <1>3, <2>1, EndKeeps
  <2> QED BY <1>1, <2>1, <2>2, CallKeeps
<1>4. ASSUME Submit(Units, LastPacket),
             AfterPacket([cur EXCEPT !.sid = next_id, !.ssn = session, !.send_len = 1, !.node = WaitOn(next_id, session)])
      PROVE  IInv'
  <2> DEFINE c == [cur EXCEPT !.sid = next_id, !.ssn = session, !.send_len = 1, !.node = WaitOn(next_id, session)]
  <2>1. next_id \in Nat /\ session \in Nat /\ PartLen \in Nat \ {0} /\ 1 \in 0 .. PartLen
    BY <1>2, Http2Assumption DEF IoTypes
  <2>2. /\ c \in Locals /\ c.sid = next_id /\ c.ssn = session /\ c.send_len = 1 /\ c.node = <<next_id, session>>
        /\ c.u = cur.u /\ c.file_offset = cur.file_offset /\ c.part_len = cur.part_len
        /\ c.upload_len = cur.upload_len /\ c.begun = cur.begun
    BY <1>2, <2>1 DEF Locals, WaitOn
  <2>3. AfterPacket(c)
    BY <1>4
  <2> HIDE DEF c
  <2>4. Units \in SUBSET Int /\ LastPacket \in BOOLEAN
    BY DEF Units, LastPacket
  <2>5. /\ stream_list' \in Seq(Nodes) /\ open_requests' \subseteq Requests
        /\ next_id' = next_id + 1 /\ UNCHANGED <<conn, session>>
        /\ RequestPart'
        /\ stream_list'[1].session = session /\ stream_list'[1].status = "none"
        /\ \A k : k = next_id => Find(k)' = 1
        /\ \A q \in open_requests' : q.id = next_id => LastPacket /\ q.u = cur.u /\ q.units = Units
    BY <1>1, <1>2, <1>4, <2>4, SubmitFacts
  <2>6. /\ cur.part_len \in Nat \ {0} /\ cur.file_offset + cur.part_len <= cur.upload_len
        /\ cur.begun .. (cur.file_offset - 1) \subseteq stored
    BY <1>1, <1>2, Http2Assumption DEF IInv, StreamParts, ProgressPart, Locals
  <2>7. PICK last \in BOOLEAN : last = LastPacket
    BY <2>4
  <2>8. IF last THEN c.send_len = c.part_len /\ upc' = "sendw" /\ cur' = c
                ELSE c.send_len < c.part_len /\ NextPacket(c)
    <3>1. LastPacket <=> cur.part_len = 1
      BY <1>1, <2>6 DEF LastPacket
    <3> QED BY <2>2, <2>3, <2>6, <2>7, <3>1 DEF AfterPacket
  <2>9. \A k : k = c.sid => Find(k)' # 0 /\ stream_list'[Find(k)'].session = c.ssn
                            /\ stream_list'[Find(k)'].status # "200"
    BY <2>2, <2>5
  <2>10. \A q \in open_requests' : q.id = c.sid =>
            last /\ q.u = c.u /\ q.units = c.file_offset .. (c.file_offset + c.part_len - 1)
    BY <2>2, <2>5, <2>7 DEF Units
  <2>11. StreamParts' /\ cur'.u = c.u /\ upc' \in Working
    <3>1. 0 < c.send_len /\ c.file_offset + c.part_len <= c.upload_len
          /\ c.begun .. (c.file_offset - 1) \subseteq stored /\ c.ssn <= session /\ c.sid < next_id'
      BY <2>1, <2>2, <2>5, <2>6
    <3> QED BY <1>1, <2>1, <2>2, <2>5, <2>8, <2>9, <2>10, <3>1, PacketKeeps
  <2> QED BY <1>1, <2>1, <2>2, <2>5, <2>11, CallKeeps
<1> QED BY <1>3, <1>4 DEF SendFirstPacket

LEMMA SendPacketKeeps ==
  ASSUME IInv, SendPacket
  PROVE  IInv'
<1>1. upc = "send" /\ upc \in Working /\ handle = "up" /\ handle' = handle /\ stored' = stored
      /\ cur.send_len > 0 /\ UNCHANGED <<others, ended, stream_list, conn, session, next_id>>
  BY DEF SendPacket, Uploading, Working, others, life, hist, conns
<1>2. cur.u \in Uploads /\ IoTypes /\ StreamTypes /\ RequestPart /\ cur \in Locals
  BY <1>1, AtWork
<1>3. next_id \in Nat /\ session \in Nat /\ cur.ssn \in Nat /\ cur.sid \in Nat
      /\ stream_list' \in Seq(Nodes)
  BY <1>1, <1>2 DEF IoTypes, Locals, StreamTypes
<1>4. /\ cur.ssn <= session /\ Find(cur.sid) # 0
      /\ stream_list[Find(cur.sid)].session = cur.ssn
      /\ stream_list[Find(cur.sid)].status # "200"
      /\ cur.ssn = session => cur.sid < next_id /\ \A q \in open_requests : q.id # cur.sid
      /\ cur.ssn # session => open_requests = {}
  BY <1>1 DEF IInv, StreamParts, PartPart, InPart
<1>5. CASE End("fail") /\ UNCHANGED open_requests
  <2>1. open_requests' \subseteq Requests /\ RequestPart'
    BY <1>1, <1>2, <1>5 DEF RequestPart, StreamTypes
  <2>2. StreamParts' /\ cur'.u = cur.u /\ upc' \in Working
    BY <1>2, <1>3, <1>5, <2>1, EndKeeps
  <2> QED BY <1>1, <1>3, <2>2, CallKeeps
<1>6. ASSUME conn # "none", cur.ssn = session,
             open_requests' = IF LastPacket /\ conn = "up"
                              THEN open_requests \cup {[id |-> cur.sid, u |-> cur.u, units |-> Units]}
                              ELSE open_requests,
             AfterPacket([cur EXCEPT !.send_len = @ + 1,
                            !.node = IF LastPacket THEN WaitOn(cur.sid, stream_list[Find(cur.sid)].session) ELSE @])
      PROVE  IInv'
  <2> DEFINE c == [cur EXCEPT !.send_len = cur.send_len + 1,
                     !.node = IF LastPacket THEN <<cur.sid, cur.ssn>> ELSE cur.node]
             r == [id |-> cur.sid, u |-> cur.u, units |-> Units]
  <2>1. /\ cur.part_len \in Nat \ {0} /\ cur.part_len <= PartLen /\ cur.send_len \in Nat
        /\ cur.send_len < cur.part_len /\ PartLen \in Nat
        /\ cur.file_offset + cur.part_len <= cur.upload_len
        /\ cur.begun .. (cur.file_offset - 1) \subseteq stored
    BY <1>1, <1>2, Http2Assumption DEF IInv, StreamParts, ProgressPart, Locals
  <2>2. cur.send_len + 1 \in 0 .. PartLen
    BY <2>1
  <2>3. /\ c \in Locals /\ c.sid = cur.sid /\ c.ssn = cur.ssn /\ c.send_len = cur.send_len + 1
        /\ LastPacket => c.node = <<cur.sid, cur.ssn>>
        /\ c.u = cur.u /\ c.file_offset = cur.file_offset /\ c.part_len = cur.part_len
        /\ c.upload_len = cur.upload_len /\ c.begun = cur.begun
    BY <1>2, <1>3, <2>2 DEF Locals
  <2>4. AfterPacket(c)
    BY <1>2, <1>4, <1>6 DEF WaitOn, Locals
  <2> HIDE DEF c
  <2>5. r \in Requests /\ r.id = cur.sid /\ r.u = cur.u /\ r.units = Units
    <3>1. Units \in SUBSET Int
      BY DEF Units
    <3> QED BY <1>2, <1>3, <3>1 DEF Requests
  <2>6. open_requests' = IF LastPacket /\ conn = "up" /\ cur.ssn = session
                         THEN open_requests \cup {r} ELSE open_requests
    BY <1>6
  <2> HIDE DEF r
  <2>7. open_requests' \subseteq Requests
    BY <1>2, <2>5, <2>6 DEF StreamTypes
  <2>8. RequestPart'
    <3>1. \A q \in open_requests' : q.id < next_id'
      BY <1>1, <1>2, <1>4, <2>5, <2>6 DEF RequestPart
    <3>2. conn' # "up" /\ handle' = "up" => open_requests' = {}
      BY <1>1, <1>2, <2>6 DEF RequestPart
    <3> QED BY <3>1, <3>2 DEF RequestPart
  <2>9. PICK last \in BOOLEAN : last = LastPacket
    BY DEF LastPacket
  <2>10. IF last THEN c.send_len = c.part_len /\ upc' = "sendw" /\ cur' = c
                 ELSE c.send_len < c.part_len /\ NextPacket(c)
    <3>1. LastPacket <=> c.send_len = c.part_len
      BY <2>3 DEF LastPacket
    <3>2. c.send_len # c.part_len => c.send_len < c.part_len
      BY <2>1, <2>3
    <3> QED BY <2>4, <2>9, <3>1, <3>2 DEF AfterPacket
  <2>11. \A k : k = c.sid => Find(k)' # 0 /\ stream_list'[Find(k)'].session = c.ssn
                             /\ stream_list'[Find(k)'].status # "200"
    <3> TAKE k
    <3> HAVE k = c.sid
    <3>1. Find(k)' = Find(k) /\ k = cur.sid
      BY <1>1, <1>2, <2>3, FindSame DEF StreamTypes
    <3> QED BY <1>1, <1>4, <2>3, <3>1
  <2>12. c.ssn = session =>
            /\ c.sid < next_id'
            /\ \A q \in open_requests' : q.id = c.sid =>
                  last /\ q.u = c.u /\ q.units = c.file_offset .. (c.file_offset + c.part_len - 1)
    <3> HAVE c.ssn = session
    <3>1. c.sid < next_id'
      BY <1>1, <1>4, <2>3
    <3>2. ASSUME NEW q \in open_requests', q.id = c.sid
          PROVE  last /\ q.u = c.u /\ q.units = c.file_offset .. (c.file_offset + c.part_len - 1)
      <4>1. q = r /\ LastPacket
        BY <1>4, <2>3, <2>6, <3>2
      <4>2. Units = c.file_offset .. (c.file_offset + c.part_len - 1)
        BY <2>3 DEF Units
      <4> QED BY <2>3, <2>5, <2>9, <4>1, <4>2
    <3> QED BY <3>1, <3>2
  <2>13. c.ssn # session => open_requests' = {}
    BY <1>4, <2>3, <2>6
  <2>14. StreamParts' /\ cur'.u = c.u /\ upc' \in Working
    <3>1. 0 < c.send_len /\ c.file_offset + c.part_len <= c.upload_len
          /\ c.begun .. (c.file_offset - 1) \subseteq stored /\ c.ssn <= session
      BY <1>4, <2>1, <2>3
    <3>2. last => c.node = <<c.sid, c.ssn>>
      BY <2>3, <2>9
    <3> QED BY <1>1, <1>3, <2>3, <2>7, <2>8, <2>10, <2>11, <2>12, <2>13, <3>1, <3>2, PacketKeeps
  <2> QED BY <1>1, <1>3, <2>3, <2>14, CallKeeps
<1> QED BY <1>4, <1>5, <1>6 DEF SendPacket

LEMMA PacketFailsKeeps ==
  ASSUME IInv, PacketFails
  PROVE  IInv'
<1>1. upc \in Working /\ handle = "up" /\ UNCHANGED <<others, ended, stream_list, open_requests, conn,
        session, next_id, handle>> /\ End("fail")
  BY DEF PacketFails, Uploading, Working, others, life, hist, conns, streams
<1>2. IoTypes /\ StreamTypes /\ RequestPart
  BY <1>1, AtWork
<1>3. stream_list' \in Seq(Nodes) /\ open_requests' \subseteq Requests /\ RequestPart' /\ next_id' \in Nat
  BY <1>1, <1>2 DEF StreamTypes, RequestPart, IoTypes
<1>4. StreamParts' /\ cur'.u = cur.u /\ upc' \in Working
  BY <1>1, <1>2, <1>3, EndKeeps
<1> QED BY <1>1, <1>3, <1>4, CallKeeps

(* The answer to a part: the thread that was woken with success has its    *)
(* part stored.                                                            *)
LEMMA PartAnsweredKeeps ==
  ASSUME IInv, PartAnswered
  PROVE  IInv'
<1>1. upc = "sendw" /\ upc \in Working /\ handle = "up" /\ handle' = handle /\ stored' = stored
      /\ UNCHANGED <<others, ended, hist>>
  BY DEF PartAnswered, Uploading, Working, Waiting, others, life, hist
<1>2. CASE WaitFails /\ End("fail")
  BY <1>1, <1>2, WaitFailsKeeps
<1>3. CASE Succeeds /\ NextPacket(cur) /\ UNCHANGED <<conns, streams>>
  <2>1. StreamTypes /\ AnswerFindsWaiter /\ RequestPart /\ IoTypes
    BY DEF IInv, StreamParts
  <2>2. InPart
    BY <1>1, Http2Assumption DEF InPart, IInv, StreamParts, ProgressPart, StreamTypes, Locals
  <2>3. cur.node = <<cur.sid, cur.ssn>>
        /\ (stream_list[Find(cur.sid)].status = "200" => Units \subseteq stored)
    BY <1>1, <2>2 DEF IInv, StreamParts, PartPart
  <2>4. Mine = Find(cur.sid)
    <3>1. Mine = Find(cur.node[1])
      BY <1>1, <2>1, MineIsFound DEF Waiting
    <3> QED BY <2>3, <3>1
  <2>5. Units \subseteq stored
    BY <1>3, <2>3, <2>4 DEF Succeeds
  <2>6. UNCHANGED <<stream_list, open_requests, conn, session, next_id>> /\ RequestPart' /\ next_id' \in Nat
    BY <1>1, <1>3, <2>1 DEF conns, streams, RequestPart, IoTypes
  <2>7. StreamParts' /\ cur'.u = cur.u /\ upc' \in Working
    BY <1>1, <1>3, <2>5, <2>6, PartDoneKeeps DEF IInv
  <2> QED BY <1>1, <2>6, <2>7, CallKeeps
<1> QED BY <1>2, <1>3 DEF PartAnswered

(* The upload ends with success.                                           *)
LEMMA SuccessKeeps ==
  ASSUME StreamParts, upc \in {"close", "closew"}, End("success"), stored' = stored,
         stream_list' \in Seq(Nodes), open_requests' \subseteq Requests, RequestPart'
  PROVE  StreamParts' /\ cur'.u = cur.u /\ upc' \in Working
<1>1. /\ upc' = "end" /\ cur' \in Locals /\ cur'.send_len <= cur'.part_len
      /\ cur'.u = cur.u /\ cur'.begun = cur.begun /\ cur'.upload_len = cur.upload_len
  BY DEF End, StreamParts, StreamTypes, Locals
<1>2. StreamTypes' /\ upc' \in Working
  BY <1>1 DEF StreamTypes, Working
<1>3. ProgressPart' /\ PartPart' /\ AnswerFindsWaiter'
  BY <1>1 DEF ProgressPart, PartPart, InPart, AnswerFindsWaiter
<1>4. SuccessIsStored'
  BY <1>1 DEF SuccessIsStored, StreamParts, ProgressPart
<1> QED BY <1>1, <1>2, <1>3, <1>4 DEF StreamParts

LEMMA CloseChannelKeeps ==
  ASSUME IInv, CloseChannel
  PROVE  IInv'
<1>1. upc = "close" /\ upc \in Working /\ handle = "up" /\ handle' = handle /\ stored' = stored
      /\ UNCHANGED <<others, ended>>
  BY DEF CloseChannel, Uploading, Working, others, life, hist
<1>2. cur.u \in Uploads /\ IoTypes /\ StreamTypes /\ RequestPart /\ cur \in Locals
  BY <1>1, AtWork
<1>3. CASE Submit({}, TRUE) /\ upc' = "closew" /\ cur' = [cur EXCEPT !.node = WaitOn(next_id, session)]
  <2>1. /\ stream_list' \in Seq(Nodes) /\ open_requests' \subseteq Requests
        /\ next_id' = next_id + 1 /\ UNCHANGED <<conn, session>>
        /\ RequestPart' /\ stream_list'[1].session = session
        /\ \A k : k = next_id => Find(k)' = 1
    BY <1>1, <1>2, <1>3, SubmitFacts
  <2>2. next_id \in Nat /\ session \in Nat
    BY <1>2 DEF IoTypes
  <2>3. /\ cur' \in Locals /\ cur'.u = cur.u /\ cur'.node = <<next_id, session>>
        /\ cur'.send_len = cur.send_len /\ cur'.part_len = cur.part_len
        /\ cur'.begun = cur.begun /\ cur'.upload_len = cur.upload_len
    BY <1>2, <1>3, <2>2 DEF Locals, WaitOn
  <2>4. StreamTypes' /\ upc' \in Working
    BY <1>2, <1>3, <2>1, <2>3 DEF StreamTypes, Working, Waiting
  <2>5. ProgressPart' /\ PartPart' /\ SuccessIsStored'
    BY <1>1, <1>3, <2>3 DEF ProgressPart, PartPart, InPart, SuccessIsStored, IInv, StreamParts
  <2>6. AnswerFindsWaiter'
    <3>1. PICK k : k = next_id
      OBVIOUS
    <3>2. Find(cur.node[1])' = 1 /\ cur'.node[2] = session
      BY <2>1, <2>3, <3>1
    <3> QED BY <2>1, <3>2 DEF AnswerFindsWaiter
  <2>7. StreamParts'
    BY <2>1, <2>4, <2>5, <2>6 DEF StreamParts
  <2> QED BY <1>1, <2>1, <2>2, <2>3, <2>4, <2>7, CallKeeps
<1>4. CASE SubmitFails /\ End("success")
  <2>1. /\ stream_list' \in Seq(Nodes) /\ open_requests' \subseteq Requests
        /\ next_id' \in Nat /\ UNCHANGED <<conn, session>> /\ RequestPart'
    BY <1>1, <1>2, <1>4, SubmitFailsFacts
  <2>2. StreamParts' /\ cur'.u = cur.u /\ upc' \in Working
    BY <1>1, <1>4, <2>1, SuccessKeeps DEF IInv
  <2> QED BY <1>1, <2>1, <2>2, CallKeeps
<1> QED BY <1>3, <1>4 DEF CloseChannel

LEMMA ClosedKeeps ==
  ASSUME IInv, Closed
  PROVE  IInv'
<1>1. /\ upc = "closew" /\ upc \in Working /\ handle = "up" /\ End("success")
      /\ UNCHANGED <<others, ended, stored, open_requests, conn, session, next_id, handle>>
  BY DEF Closed, Uploading, Working, Waiting, others, life, hist, conns
<1>2. IoTypes /\ StreamTypes /\ RequestPart
  BY <1>1, AtWork
<1>3. stream_list' \in Seq(Nodes)
  BY <1>2, WithoutNumbers DEF Closed, StreamTypes
<1>4. open_requests' \subseteq Requests /\ RequestPart' /\ next_id' \in Nat
  BY <1>1, <1>2 DEF StreamTypes, RequestPart, IoTypes
<1>5. StreamParts' /\ cur'.u = cur.u /\ upc' \in Working
  BY <1>1, <1>3, <1>4, SuccessKeeps DEF IInv
<1> QED BY <1>1, <1>4, <1>5, CallKeeps

-----------------------------------------------------------------------------
(* The queue *)

LEMMA LookForWorkKeeps ==
  ASSUME IInv, LookForWork
  PROVE  IInv'
<1>1. /\ upc = "look" /\ handle = "up"
      /\ UNCHANGED <<file_list, file_thread, if_stop, ipc, rv, connect_state, retry_cnt, apc, arg, requested,
                     init_state, handle, conn, session, next_id, stream_list, open_requests, ended, stored>>
  BY DEF LookForWork, Uploading, io, app, life, conns, streams, hist
<1>2. IoTypes' /\ LifePart' /\ RequestPart' /\ QueueTypes' /\ EndOnceInOrder'
  BY <1>1 DEF IInv, IoTypes, LifePart, StreamParts, RequestPart, QueueParts, QueueTypes, EndOnceInOrder
<1>3. cur \in Locals /\ cur.send_len <= cur.part_len /\ stream_list \in Seq(Nodes) /\ open_requests \subseteq Requests
  BY DEF IInv, StreamParts, StreamTypes
<1>4. CASE upc' \in {"none", "empty"} /\ cur' = cur
           /\ threads' = IF upc' = "none" THEN threads - 1 ELSE threads
  <2>1. StreamTypes'
    BY <1>1, <1>3, <1>4 DEF StreamTypes
  <2>2. StreamParts'
    BY <1>2, <1>4, <2>1, Between
  <2>3. ThreadPart' /\ QueuePart'
    BY <1>1, <1>4 DEF IInv, QueueParts, ThreadPart, QueuePart, Working, Waiting
  <2> QED BY <1>2, <2>2, <2>3 DEF IInv, QueueParts
<1>5. CASE file_list # <<>> /\ upc' = "open" /\ cur' = [NoCur EXCEPT !.u = Head(file_list)] /\ threads' = threads
  <2>1. file_list \in Seq(Uploads) /\ Head(file_list) = file_list[1] /\ file_list[1] \in Uploads
    BY <1>5, TailFacts DEF IInv, QueueParts, QueueTypes
  <2>2. cur' \in Locals /\ cur'.send_len = 0 /\ cur'.part_len = 0 /\ cur'.u = file_list[1]
    <3>1. file_list[1] \in 0 .. N /\ 0 \in 0 .. PartLen
      BY <2>1, Http2Assumption DEF Uploads
    <3> QED BY <1>5, <2>1, <3>1 DEF NoCur, Locals
  <2>3. StreamTypes'
    BY <1>1, <1>3, <1>5, <2>2 DEF StreamTypes, Working
  <2>4. StreamParts'
    BY <1>2, <1>5, <2>3, Between
  <2>5. ThreadPart' /\ QueuePart'
    BY <1>1, <1>5, <2>2 DEF IInv, QueueParts, ThreadPart, QueuePart
  <2> QED BY <1>2, <2>4, <2>5 DEF IInv, QueueParts
<1> QED BY <1>4, <1>5 DEF LookForWork

LEMMA LeaveThreadKeeps ==
  ASSUME IInv, LeaveThread
  PROVE  IInv'
<1>1. /\ upc = "empty" /\ upc' = "none" /\ threads' = threads - 1
      /\ UNCHANGED <<file_list, if_stop, ipc, rv, connect_state, retry_cnt, apc, arg, requested, cur,
                     init_state, handle, conn, session, next_id, stream_list, open_requests, ended, stored>>
  BY DEF LeaveThread, Uploading, io, app, life, conns, streams, hist
<1>2. IoTypes' /\ LifePart' /\ RequestPart' /\ QueueTypes' /\ EndOnceInOrder'
  BY <1>1 DEF IInv, IoTypes, LifePart, StreamParts, RequestPart, QueueParts, QueueTypes, EndOnceInOrder
<1>3. StreamTypes'
  BY <1>1 DEF IInv, StreamParts, StreamTypes
<1>4. StreamParts'
  BY <1>1, <1>2, <1>3, Between
<1>5. ThreadPart' /\ QueuePart'
  BY <1>1 DEF IInv, QueueParts, ThreadPart, QueuePart, Working, Waiting
<1> QED BY <1>2, <1>4, <1>5 DEF IInv, QueueParts

(* end_cb is called for the first upload of the queue, which leaves it.    *)
LEMMA CompleteKeeps ==
  ASSUME IInv, Complete
  PROVE  IInv'
<1>1. /\ upc = "end" /\ upc \in Working /\ handle = "up" /\ upc' = "look" /\ cur' = NoCur
      /\ ended' = Append(ended, cur.u) /\ file_list' = Tail(file_list) /\ if_stop' = if_stop \ {cur.u}
      /\ UNCHANGED <<file_thread, threads, ipc, rv, connect_state, retry_cnt, apc, arg, requested,
                     init_state, handle, conn, session, next_id, stream_list, open_requests>>
  BY DEF Complete, Uploading, Working, io, app, life, conns, streams
<1>2. IoTypes' /\ LifePart' /\ RequestPart' /\ ThreadPart'
  BY <1>1 DEF IInv, IoTypes, LifePart, StreamParts, RequestPart, QueueParts, ThreadPart
<1>3. StreamParts'
  <2>1. cur' \in Locals /\ cur'.send_len <= cur'.part_len
    BY <1>1, Http2Assumption DEF NoCur, Locals
  <2>2. StreamTypes'
    BY <1>1, <2>1 DEF IInv, StreamParts, StreamTypes
  <2> QED BY <1>1, <1>2, <2>2, Between
<1>4. /\ file_list \in Seq(Uploads) /\ file_list # <<>> /\ cur.u = file_list[1]
      /\ Len(file_list) = requested - Len(ended)
      /\ \A i \in 1 .. Len(file_list) : file_list[i] = Len(ended) + i
      /\ ended \in Seq(Nat) /\ requested \in 0 .. N /\ N \in Nat
  BY <1>1, Http2Assumption DEF IInv, QueueParts, QueuePart, QueueTypes
<1>5. /\ Tail(file_list) \in Seq(Uploads) /\ Len(Tail(file_list)) = Len(file_list) - 1
      /\ Len(file_list) \in Nat \ {0} /\ file_list[1] \in Uploads
      /\ \A j \in 1 .. Len(Tail(file_list)) : Tail(file_list)[j] = file_list[j + 1] /\ j + 1 \in 1 .. Len(file_list)
  BY <1>4, TailFacts
<1>6. cur.u = Len(ended) + 1 /\ cur.u \in Nat /\ Len(ended) \in Nat
  <2>1. 1 \in 1 .. Len(file_list)
    BY <1>5
  <2> QED BY <1>4, <2>1
<1>7. /\ Append(ended, cur.u) \in Seq(Nat) /\ Len(Append(ended, cur.u)) = Len(ended) + 1
      /\ \A j \in 1 .. Len(ended) : Append(ended, cur.u)[j] = ended[j]
      /\ Append(ended, cur.u)[Len(ended) + 1] = cur.u
  BY <1>4, <1>6, AppendFacts
<1>8. QueueTypes'
  BY <1>1, <1>4, <1>5, <1>7 DEF IInv, QueueParts, QueueTypes
<1>9. EndOnceInOrder'
  <2>1. \A i \in 1 .. Len(ended) : ended[i] = i
    BY DEF IInv, QueueParts, EndOnceInOrder
  <2>2. ASSUME NEW i \in 1 .. Len(ended') PROVE ended'[i] = i
    <3>1. CASE i \in 1 .. Len(ended)
      BY <1>1, <1>7, <2>1, <3>1
    <3>2. CASE i = Len(ended) + 1
      BY <1>1, <1>6, <1>7, <3>2
    <3> QED BY <1>1, <1>6, <1>7, <3>1, <3>2
  <2> QED BY <2>2 DEF EndOnceInOrder
<1>10. QueuePart'
  <2>1. Len(file_list') = requested' - Len(ended')
    <3>1. Len(file_list') = Len(file_list) - 1 /\ Len(ended') = Len(ended) + 1 /\ requested' = requested
      BY <1>1, <1>5, <1>7
    <3>2. requested \in Int /\ Len(file_list) = requested - Len(ended)
      BY <1>4
    <3> QED BY <1>6, <3>1, <3>2
  <2>2. ASSUME NEW i \in 1 .. Len(file_list') PROVE file_list'[i] = Len(ended') + i
    <3>1. file_list'[i] = file_list[i + 1] /\ i + 1 \in 1 .. Len(file_list)
      BY <1>1, <1>5
    <3>2. file_list'[i] = Len(ended) + (i + 1)
      BY <1>4, <3>1
    <3>3. Len(ended') = Len(ended) + 1 /\ i \in Nat
      BY <1>1, <1>5, <1>7
    <3> QED BY <1>6, <3>2, <3>3
  <2> QED BY <1>1, <2>1, <2>2 DEF QueuePart, Working, Waiting
<1> QED BY <1>2, <1>3, <1>8, <1>9, <1>10 DEF IInv, QueueParts

-----------------------------------------------------------------------------
(* The theorems *)

(* The invariant is inductive.                                             *)
THEOREM Inductive == Spec => []IInv
<1>1. IInv /\ [Next]_vars => IInv'
  <2> SUFFICES ASSUME IInv, [Next]_vars PROVE IInv'
    OBVIOUS
  <2>1. CASE UNCHANGED vars
    <3>1. QueueParts'
      BY <2>1, QueueQuiet DEF IInv, vars, queue, app, hist, life
    <3>2. StreamParts'
      BY <2>1, StreamQuiet DEF IInv, vars, conns, streams, hist, life, IoTypes, StreamParts, RequestPart
    <3>3. IoTypes' /\ LifePart'
      BY <2>1 DEF IInv, vars, conns, io, app, life, IoTypes, LifePart
    <3> QED BY <3>1, <3>2, <3>3 DEF IInv
  <2>2. CASE UploadStep
    BY <2>2, LookForWorkKeeps, LeaveThreadKeeps, OpenChannelKeeps, OpenedKeeps, SendFirstPacketKeeps,
       SendPacketKeeps, PacketFailsKeeps, PartAnsweredKeeps, CloseChannelKeeps, ClosedKeeps, CompleteKeeps
       DEF UploadStep
  <2>3. CASE \E q \in open_requests, how \in {"ok", "error"} : ReadAnswer(q, how)
    BY <2>3, ReadAnswerKeeps
  <2> QED BY <2>1, <2>2, <2>3, IoKeeps, AppKeeps DEF Next
<1> QED BY <1>1, InitIInv, PTL DEF Spec

(* Whoever waits in a stream call of the upload thread is found by its     *)
(* answer, though nodes of earlier sessions with the same id are listed;   *)
(* and there is at most one upload thread.                                 *)
THEOREM UploadSafe == Spec => []UploadInv
<1>1. IInv => UploadInv
  <2> SUFFICES ASSUME IInv PROVE UploadInv
    OBVIOUS
  <2>1. threads \in 0 .. 1 /\ AnswerFindsWaiter
    BY DEF IInv, QueueParts, ThreadPart, StreamParts
  <2>2. \A i \in 1 .. Len(stream_list) : stream_list[i] \in Nodes
    BY DEF IInv, StreamParts, StreamTypes
  <2>3. cur.send_len \in 0 .. cur.part_len /\ cur.part_len \in 0 .. PartLen
    BY Http2Assumption DEF IInv, StreamParts, StreamTypes, Locals
  <2> QED BY <2>1, <2>2, <2>3 DEF IInv, UploadInv, TypeOK, IoTypes, QueueParts, QueueTypes, Nodes
<1> QED BY <1>1, Inductive, PTL

(* UPLOAD_SUCCESS is reported only for a file the server has: every packet *)
(* from the offset it gave on was accepted, whatever connections were lost *)
(* and sessions opened in between.                                         *)
THEOREM SuccessStored == Spec => []SuccessIsStored
<1>1. IInv => SuccessIsStored
  BY DEF IInv, StreamParts
<1> QED BY <1>1, Inductive, PTL

(* upload_completed_cb is called once per upload and in the order of the   *)
(* requests.                                                               *)
THEOREM EndsInOrder == Spec => []EndOnceInOrder
<1>1. IInv => EndOnceInOrder
  BY DEF IInv, QueueParts
<1> QED BY <1>1, Inductive, PTL
=============================================================================
