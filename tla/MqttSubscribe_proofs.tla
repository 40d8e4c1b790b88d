------------------------- MODULE MqttSubscribe_proofs -------------------------
(***************************************************************************)
(* Proofs about MqttSubscribe for any number of threads, handlers,         *)
(* filters, packet ids and events.                                         *)
(*                                                                         *)
(* lock_yield lets one thread handle a packet at a time, lock_write_buf is *)
(* held by the call that is about to remove handlers, and ids are never    *)
(* given twice while they can be counted.                                  *)
(***************************************************************************)
EXTENDS MqttSubscribe, MqttTopic, Lists_proofs, TLAPS

Acks == [id : 1 .. MaxIds, ack : {"UNDEF", "SUCCESS", "NACK"}]
Steps == {"idle", "id", "send", "failed", "add", "remove", "return", "wait", "yield", "decide"}
YieldSteps == {"none", "cycle", "handle", "walk", "cb"}
Calls == [kind : Kinds \cup {"none"}, h : Handlers \cup {NoHandler},
          id : 0 .. MaxIds, ret : -1 .. MaxIds, subed : BOOLEAN]
Withins == {"none", "disconnect", "reconnect", "identity"}
Walks == [type : {"none", "SUBACK", "UNSUBACK", "PUBLISH", "garbled", "default"},
          f : Filters \cup {"none"}, at : Handlers \cup {NoHandler}, freed : BOOLEAN,
          due : SUBSET Handlers, called : SUBSET Handlers]
Results == [kind : {"none", "sync"}, ret : -1 .. MaxIds, early : BOOLEAN]

(* The records the lists, the buffers and the threads' locals are made of. *)
CallTypes ==
    /\ packet_id \in 0 .. MaxIds
    /\ pc \in [Threads -> Steps] /\ call \in [Threads -> Calls]
    /\ result \in [Threads -> Results]
ListTypes ==
    /\ list_sub_handle \in Seq(Handlers) /\ list_sub_sync_ack \in Seq(Acks)
YieldTypes ==
    /\ ypc \in [Threads -> YieldSteps] /\ walk \in [Threads -> Walks]
    /\ within \in [Threads -> Withins]
    /\ in_yield_cb \in BOOLEAN /\ buf_read \in Packets \cup {NoPkt}
    /\ lock_yield \in Threads \cup {NoThread}
NetTypes ==
    /\ online \in BOOLEAN /\ lock_write_buf \in Threads \cup {NoThread}
    /\ toBroker \in Seq(Requests) /\ toClient \in Seq(Packets)
    /\ broker \subseteq Filters /\ granted \subseteq 1 .. MaxIds

(* An id is given to one call; the bound is counted.                       *)
IdPart ==
    /\ packet_id + Cardinality({t \in Threads : pc[t] = "id"}) <= MaxIds
    /\ \A t \in Threads : call[t].id <= packet_id
    /\ \A t, u \in Threads : t # u /\ call[t].id > 0 => call[t].id # call[u].id

(* The locals of a call at its steps.                                      *)
CallOK(t) ==
    /\ pc[t] # "idle" => call[t].h \in Handlers
    /\ pc[t] \in {"send", "failed", "add", "remove"} => call[t].id > 0
    /\ pc[t] \in {"id", "send", "failed", "add", "remove"} => call[t].ret = -1
    /\ call[t].ret > 0 => call[t].ret = call[t].id
    /\ call[t].kind = "sync" => t \in Yielders
    /\ pc[t] \in {"yield", "wait", "decide"} => call[t].kind = "sync"
    /\ call[t].subed => pc[t] \in {"yield", "wait", "decide"} /\ call[t].ret > 0
    /\ lock_write_buf = t <=> pc[t] = "remove"
CallPart == \A t \in Threads : CallOK(t)

(* The nodes for SUBACKs and who takes them off.                           *)
AckPart ==
    /\ \A i \in 1 .. Len(list_sub_sync_ack) :
          \E t \in Threads : call[t].subed /\ call[t].ret = list_sub_sync_ack[i].id
    /\ \A i, j \in 1 .. Len(list_sub_sync_ack) :
          list_sub_sync_ack[i].id = list_sub_sync_ack[j].id => i = j
    /\ \A i \in 1 .. Len(list_sub_sync_ack) :
          list_sub_sync_ack[i].ack = "SUCCESS" => list_sub_sync_ack[i].id \in granted

(* One thread handles a packet or is in a callback outside _handle_event,  *)
(* and what it may be doing besides.  A yield inside such a callback       *)
(* belongs to a synchronous subscription.                                  *)
YieldOK(t) ==
    /\ ypc[t] \in {"handle", "walk", "cb"} \/ within[t] # "none" <=> lock_yield = t
    /\ ypc[t] # "none" \/ within[t] # "none" => t \in Yielders
    /\ ypc[t] = "cb" => in_yield_cb /\ pc[t] \notin {"yield", "decide"}
    /\ ypc[t] \in {"cycle", "handle", "walk"} => pc[t] \in {"idle", "wait"}
    /\ ypc[t] # "none" /\ within[t] # "none" => pc[t] = "wait"

(* What is in the read buffer for the thread that holds lock_yield.        *)
BufferOK(t) ==
    /\ ypc[t] = "handle" => buf_read \in Packets
    /\ ypc[t] \in {"walk", "cb"} /\ walk[t].type = "PUBLISH" =>
          buf_read = [type |-> "PUBLISH", f |-> walk[t].f]
    /\ within[t] = "identity" /\ ypc[t] \in {"none", "cycle"} /\ buf_read # NoPkt =>
          buf_read \in Packets /\ buf_read.type = "PUBLISH"
YieldPart == \A t \in Threads : YieldOK(t) /\ BufferOK(t)

Distinct == \A i, j \in 1 .. Len(list_sub_handle) : list_sub_handle[i] = list_sub_handle[j] => i = j

(* h is in the list behind the node the walk stands on.                    *)
Ahead(list, at, h) ==
    \E i \in 1 .. Len(list) :
        /\ list[i] = h
        /\ at # NoHandler => \E j \in 1 .. Len(list) : list[j] = at /\ j < i

(* A walk over the handlers has not passed one that is due.                *)
WalkOK(t) ==
    LET w == walk[t]
    IN  /\ w.at = NoHandler => ~w.freed
        /\ w.at # NoHandler => w.at \in w.called
        /\ w.at # NoHandler /\ ~w.freed =>
              \E j \in 1 .. Len(list_sub_handle) : list_sub_handle[j] = w.at
        /\ ypc[t] = "handle" => /\ w.at = NoHandler /\ w.called = {} /\ w.due = {}
                                /\ w.type = buf_read.type
        /\ ypc[t] = "walk" => w.type \in {"PUBLISH", "garbled"}
        /\ w.type = "default" => ypc[t] = "cb"
        /\ ypc[t] \in {"none", "cycle"} \/ w.type = "default" => w.due \subseteq w.called
        /\ ypc[t] \in {"walk", "cb"} /\ ~w.freed =>
              \A h \in w.due \ w.called : FilterOf[h] \in Matches[w.f] /\ Ahead(list_sub_handle, w.at, h)
WalkPart == \A t \in Threads : WalkOK(t)

IInv == /\ CallTypes /\ ListTypes /\ YieldTypes /\ NetTypes
        /\ IdPart /\ CallPart /\ AckPart /\ YieldPart
        /\ Distinct /\ WalkPart /\ SyncMeansGranted

(* The last request about f that the broker will read subscribes it.       *)
EndsSubscribed(f) ==
    \/ \E i \in 1 .. Len(toBroker) :
          /\ toBroker[i].f = f /\ toBroker[i].type = "SUBSCRIBE"
          /\ \A j \in 1 .. Len(toBroker) : j > i => toBroker[j].f # f
    \/ f \in broker /\ \A j \in 1 .. Len(toBroker) : toBroker[j].f # f

Handled(f) ==
    \E h \in Handlers :
        /\ FilterOf[h] = f
        /\ \/ \E i \in 1 .. Len(list_sub_handle) : list_sub_handle[i] = h
           \/ \E t \in Threads : pc[t] = "add" /\ call[t].h = h

HandledPart ==
    \A f \in Filters \ unsubLost : EndsSubscribed(f) =>
        /\ f \in stripped \/ Handled(f)
        /\ \A t \in Threads : pc[t] = "remove" => FilterOf[call[t].h] # f

-----------------------------------------------------------------------------
(* What a step of one thread does to the calls                             *)

(* Only the call of t moves on.                                            *)
Moves(t) == /\ pc' \in [Threads -> Steps] /\ call' \in [Threads -> Calls]
            /\ \A u \in Threads : u # t => pc'[u] = pc[u] /\ call'[u] = call[u]

LEMMA GotoFacts ==
  ASSUME CallTypes, NEW t \in Threads, NEW step \in Steps, Goto(t, step)
  PROVE  /\ pc' \in [Threads -> Steps] /\ pc'[t] = step
         /\ \A u \in Threads : u # t => pc'[u] = pc[u]
  BY DEF CallTypes, Goto

LEMMA NoCallType == NoCall \in Calls /\ NoResult \in Results
  BY SubscribeAssumption DEF NoCall, NoResult, Calls, Results

LEMMA LeaveFacts ==
  ASSUME CallTypes, NEW t \in Threads, NEW ret \in -1 .. MaxIds, NEW early \in BOOLEAN,
         Leave(t, ret, early)
  PROVE  /\ Moves(t) /\ pc'[t] = "idle" /\ call'[t] = NoCall
         /\ result' \in [Threads -> Results]
         /\ \A u \in Threads : u # t => result'[u] = result[u]
         /\ result'[t].kind = "sync" => result'[t].ret = ret /\ result'[t].early = early
<1>1. /\ pc' \in [Threads -> Steps] /\ pc'[t] = "idle"
      /\ \A u \in Threads : u # t => pc'[u] = pc[u]
  BY GotoFacts DEF Leave, Steps
<1>2. call' = [call EXCEPT ![t] = NoCall] /\ call \in [Threads -> Calls]
  BY DEF Leave, CallTypes
<1>3. /\ call' \in [Threads -> Calls] /\ call'[t] = NoCall
      /\ \A u \in Threads : u # t => call'[u] = call[u]
  <2> HIDE DEF NoCall, Calls
  <2> QED BY <1>2, NoCallType
<1> DEFINE r == IF call[t].kind # "sync" THEN NoResult
                ELSE [kind |-> "sync", ret |-> ret, early |-> early]
<1>4. r \in Results /\ (r.kind = "sync" => r.ret = ret /\ r.early = early)
  BY NoCallType DEF Results, NoResult
<1>5. result' = [result EXCEPT ![t] = r] /\ result \in [Threads -> Results]
  BY DEF Leave, CallTypes
<1> HIDE DEF r
<1> QED BY <1>1, <1>3, <1>4, <1>5 DEF Moves

(* Threads are finitely many, so that the bound on ids can be counted.     *)
LEMMA CountFacts ==
  ASSUME NEW p
  PROVE  /\ IsFiniteSet({u \in Threads : p[u] = "id"})
         /\ Cardinality({u \in Threads : p[u] = "id"}) \in Nat
<1>1. IsFiniteSet({u \in Threads : p[u] = "id"})
  BY SubscribeAssumption, FS_Subset
<1> QED BY <1>1, FS_CardinalityType

(* No call starts to take an id, and no id is taken.                       *)
LEMMA IdsKeep ==
  ASSUME IInv, NEW t \in Threads, Moves(t), UNCHANGED packet_id,
         pc'[t] # "id", call'[t].id = call[t].id \/ call'[t].id = 0
  PROVE  IdPart'
<1> USE DEF IInv
<1> DEFINE Taking == {u \in Threads : pc[u] = "id"}
           Then == {u \in Threads : pc'[u] = "id"}
<1>1. Then \subseteq Taking
  BY DEF Moves
<1>2. /\ IsFiniteSet(Taking) /\ Cardinality(Taking) \in Nat
      /\ Cardinality(Then) \in Nat
  BY CountFacts
<1>3. Cardinality(Then) <= Cardinality(Taking)
  <2> HIDE DEF Taking, Then
  <2> QED BY <1>1, <1>2, FS_Subset
<1>4. packet_id' + Cardinality(Then) <= MaxIds
  <2>1. packet_id + Cardinality(Taking) <= MaxIds /\ packet_id \in Nat /\ MaxIds \in Nat
    BY SubscribeAssumption DEF IdPart, CallTypes
  <2> HIDE DEF Taking, Then
  <2> QED BY <1>2, <1>3, <2>1
<1>5. \A u \in Threads : call'[u].id = call[u].id \/ call'[u].id = 0
  BY DEF Moves
<1>6. \A u \in Threads : call[u].id \in Nat /\ packet_id \in Nat
  BY DEF CallTypes, Calls
<1>7. \A u \in Threads : call'[u].id <= packet_id
  BY <1>5, <1>6 DEF IdPart
<1>8. ASSUME NEW u \in Threads, NEW v \in Threads, u # v, call'[u].id > 0
      PROVE  call'[u].id # call'[v].id
  BY <1>5, <1>6, <1>8 DEF IdPart
<1> QED BY <1>4, <1>7, <1>8 DEF IdPart

(* A call is about to take an id: the bound leaves one.                    *)
LEMMA IdWanted ==
  ASSUME IInv, NEW t \in Threads, Moves(t), UNCHANGED packet_id, IdLeft,
         call'[t].id = call[t].id \/ call'[t].id = 0
  PROVE  IdPart'
<1> USE DEF IInv
<1> DEFINE Taking == {u \in Threads : pc[u] = "id"}
           Then == {u \in Threads : pc'[u] = "id"}
<1>1. Then \subseteq Taking \cup {t}
  BY DEF Moves
<1>2. /\ IsFiniteSet(Taking) /\ Cardinality(Taking) \in Nat
      /\ Cardinality(Then) \in Nat
  BY CountFacts
<1>3. Cardinality(Then) <= Cardinality(Taking) + 1
  <2> HIDE DEF Taking, Then
  <2>1. /\ IsFiniteSet(Taking \cup {t})
        /\ Cardinality(Taking \cup {t}) <= Cardinality(Taking) + 1
    BY <1>2, FS_AddElement
  <2>2. Cardinality(Then) <= Cardinality(Taking \cup {t}) /\ Cardinality(Taking \cup {t}) \in Nat
    BY <1>1, <2>1, FS_Subset, FS_CardinalityType
  <2> QED BY <1>2, <2>1, <2>2
<1>4. packet_id' + Cardinality(Then) <= MaxIds
  <2>1. packet_id + Cardinality(Taking) < MaxIds /\ packet_id \in Nat /\ MaxIds \in Nat
    BY SubscribeAssumption DEF IdLeft, CallTypes
  <2> HIDE DEF Taking, Then
  <2> QED BY <1>2, <1>3, <2>1
<1>5. \A u \in Threads : call'[u].id = call[u].id \/ call'[u].id = 0
  BY DEF Moves
<1>6. \A u \in Threads : call[u].id \in Nat /\ packet_id \in Nat
  BY DEF CallTypes, Calls
<1>7. \A u \in Threads : call'[u].id <= packet_id
  BY <1>5, <1>6 DEF IdPart
<1>8. ASSUME NEW u \in Threads, NEW v \in Threads, u # v, call'[u].id > 0
      PROVE  call'[u].id # call'[v].id
  BY <1>5, <1>6, <1>8 DEF IdPart
<1> QED BY <1>4, <1>7, <1>8 DEF IdPart

(* The other calls stay as they are.                                       *)
LEMMA CallsKeep ==
  ASSUME IInv, NEW t \in Threads, Moves(t), CallOK(t)',
         \A u \in Threads : u # t => (lock_write_buf' = u <=> lock_write_buf = u)
  PROVE  CallPart'
  BY DEF IInv, CallPart, CallOK, Moves

(* No call that owns a node lets go of it.                                 *)
LEMMA AcksKeep ==
  ASSUME IInv, NEW t \in Threads, Moves(t), UNCHANGED <<list_sub_sync_ack, granted>>,
         call[t].subed => call'[t].subed /\ call'[t].ret = call[t].ret
  PROVE  AckPart'
<1>1. \A u \in Threads : call[u].subed => call'[u].subed /\ call'[u].ret = call[u].ret
  BY DEF Moves
<1> QED BY <1>1 DEF IInv, AckPart

(* The yields go on as they were, but for the step of t in its call.       *)
LEMMA YieldsKeep ==
  ASSUME IInv, NEW t \in Threads, Moves(t), UNCHANGED <<ypc, within, lock_yield, in_yield_cb, buf_read>>,
         \A u \in Threads : walk'[u].type = walk[u].type /\ walk'[u].f = walk[u].f,
         ypc[t] \in {"none", "cb"}, ypc[t] = "cb" => pc'[t] \notin {"yield", "decide"} /\ pc[t] # "wait"
  PROVE  YieldPart'
  BY DEF IInv, YieldPart, YieldOK, BufferOK, Moves

LEMMA WalksKeep ==
  ASSUME WalkPart, UNCHANGED <<walk, ypc, buf_read, list_sub_handle>>
  PROVE  WalkPart'
  BY DEF WalkPart, WalkOK, Ahead

(* A thread in a call is in no yield, or in a callback of one.             *)
LEMMA InCall ==
  ASSUME IInv, NEW t \in Threads, pc[t] \notin {"idle", "wait"}
  PROVE  ypc[t] \in {"none", "cb"} /\ (pc[t] \in {"yield", "decide"} => ypc[t] = "none")
  BY DEF IInv, YieldPart, YieldOK, YieldTypes, YieldSteps

(* A call's id, or what it will return, is stored.                         *)
LEMMA IdStored ==
  ASSUME CallTypes, NEW t \in Threads, NEW x \in 0 .. MaxIds,
         call' = [call EXCEPT ![t].id = x]
  PROVE  /\ call' \in [Threads -> Calls] /\ \A u \in Threads : u # t => call'[u] = call[u]
         /\ call'[t].id = x /\ call'[t].h = call[t].h /\ call'[t].kind = call[t].kind
         /\ call'[t].ret = call[t].ret /\ call'[t].subed = call[t].subed
<1>1. call \in [Threads -> Calls] /\ call[t] \in Calls
  BY DEF CallTypes
<1>2. call'[t] = [call[t] EXCEPT !.id = x]
  BY <1>1
<1>3. [call[t] EXCEPT !.id = x] \in Calls
  BY <1>1 DEF Calls
<1>4. call' = [call EXCEPT ![t] = [call[t] EXCEPT !.id = x]]
  BY <1>1
<1>5. call' \in [Threads -> Calls] /\ \A u \in Threads : u # t => call'[u] = call[u]
  BY <1>1, <1>3, <1>4
<1> QED BY <1>1, <1>2, <1>5 DEF Calls

LEMMA RetStored ==
  ASSUME CallTypes, NEW t \in Threads, NEW x \in -1 .. MaxIds,
         call' = [call EXCEPT ![t].ret = x]
  PROVE  /\ call' \in [Threads -> Calls] /\ \A u \in Threads : u # t => call'[u] = call[u]
         /\ call'[t].ret = x /\ call'[t].h = call[t].h /\ call'[t].kind = call[t].kind
         /\ call'[t].id = call[t].id /\ call'[t].subed = call[t].subed
<1>1. call \in [Threads -> Calls] /\ call[t] \in Calls
  BY DEF CallTypes
<1>2. call'[t] = [call[t] EXCEPT !.ret = x]
  BY <1>1
<1>3. [call[t] EXCEPT !.ret = x] \in Calls
  BY <1>1 DEF Calls
<1>4. call' = [call EXCEPT ![t] = [call[t] EXCEPT !.ret = x]]
  BY <1>1
<1>5. call' \in [Threads -> Calls] /\ \A u \in Threads : u # t => call'[u] = call[u]
  BY <1>1, <1>3, <1>4
<1> QED BY <1>1, <1>2, <1>5 DEF Calls

(* A step of a call that leaves the lists, the results and the SUBACKs     *)
(* alone.                                                                  *)
LEMMA QuietStep ==
  ASSUME IInv, NEW t \in Threads, Moves(t), IdPart', CallOK(t)', packet_id' \in 0 .. MaxIds,
         NetTypes', pc[t] # "wait", ypc[t] \in {"none", "cb"}, pc'[t] \in {"yield", "decide"} => ypc[t] # "cb",
         \A u \in Threads : u # t => (lock_write_buf' = u <=> lock_write_buf = u),
         call[t].subed => call'[t].subed /\ call'[t].ret = call[t].ret,
         UNCHANGED <<yield, result, in_yield_cb, list_sub_handle, list_sub_sync_ack, granted>>
  PROVE  IInv'
<1> USE DEF IInv
<1>1. UNCHANGED <<ypc, walk, within, buf_read, lock_yield>>
  BY DEF yield
<1>2. CallTypes' /\ ListTypes' /\ YieldTypes'
  BY <1>1 DEF CallTypes, ListTypes, YieldTypes, Moves
<1>3. CallPart'
  BY CallsKeep
<1>4. AckPart'
  BY AcksKeep
<1>5. YieldPart'
  BY <1>1, YieldsKeep
<1>6. WalkPart' /\ Distinct'
  BY <1>1, WalksKeep DEF Distinct
<1>7. SyncMeansGranted'
  BY DEF SyncMeansGranted
<1> QED BY <1>2, <1>3, <1>4, <1>5, <1>6, <1>7

-----------------------------------------------------------------------------
(* Calls                                                                   *)

LEMMA BeginCallKeeps ==
  ASSUME IInv, NEW t \in Threads, NEW k \in Kinds, NEW h \in Handlers, BeginCall(t, k, h)
  PROVE  IInv'
<1> USE DEF IInv
<1> DEFINE c == [NoCall EXCEPT !.kind = k, !.h = h, !.ret = -1]
<1>1. /\ c \in Calls /\ c.kind = k /\ c.h = h /\ c.ret = -1
      /\ c.id = 0 /\ c.subed = FALSE
  <2> DEFINE c1 == [NoCall EXCEPT !.kind = k]
             c2 == [c1 EXCEPT !.h = h]
  <2>1. c1 \in Calls /\ c1.kind = k /\ c1.id = 0 /\ c1.subed = FALSE
    <3>1. NoCall \in Calls /\ NoCall.id = 0 /\ NoCall.subed = FALSE
      BY NoCallType DEF NoCall
    <3> HIDE DEF NoCall
    <3> QED BY <3>1 DEF Calls
  <2>2. c2 \in Calls /\ c2.kind = k /\ c2.h = h /\ c2.id = 0 /\ c2.subed = FALSE
    <3> HIDE DEF c1
    <3> QED BY <2>1 DEF Calls
  <2>3. c = [c2 EXCEPT !.ret = -1]
    OBVIOUS
  <2>4. -1 \in -1 .. MaxIds
    BY SubscribeAssumption
  <2> HIDE DEF c2, c
  <2> QED BY <2>2, <2>3, <2>4 DEF Calls
<1>2. /\ pc[t] = "idle" /\ ypc[t] \in {"none", "cb"} /\ (k = "sync" => t \in Yielders)
      /\ call' = [call EXCEPT ![t] = c] /\ result' = [result EXCEPT ![t] = NoResult]
      /\ Goto(t, "id") /\ IdLeft
      /\ UNCHANGED <<yield, net, client, granted>>
  BY DEF BeginCall, MayCall
<1>3. UNCHANGED <<ypc, walk, within, buf_read, lock_yield, toBroker, toClient, broker, online, packet_id,
                  list_sub_handle, list_sub_sync_ack, lock_write_buf, in_yield_cb, granted>>
  BY <1>2 DEF yield, net, client
<1> HIDE DEF c
<1>4. call \in [Threads -> Calls] /\ result \in [Threads -> Results]
  BY DEF CallTypes
<1>5. /\ pc' \in [Threads -> Steps] /\ pc'[t] = "id"
      /\ \A u \in Threads : u # t => pc'[u] = pc[u]
  BY <1>2, GotoFacts DEF Steps
<1>6. Moves(t) /\ call'[t] = c
  BY <1>1, <1>2, <1>4, <1>5 DEF Moves
<1>7. /\ result' \in [Threads -> Results] /\ result'[t] = NoResult
      /\ \A u \in Threads : u # t => result'[u] = result[u]
  <2> HIDE DEF NoResult, Results
  <2> QED BY <1>2, <1>4, NoCallType
<1>8. CallTypes' /\ ListTypes' /\ YieldTypes' /\ NetTypes'
  BY <1>3, <1>5, <1>6, <1>7 DEF CallTypes, ListTypes, YieldTypes, NetTypes, Moves
<1>9. IdPart'
  BY <1>1, <1>2, <1>3, <1>6, IdWanted
<1>10. CallOK(t)
  BY DEF CallPart
<1>11. CallPart'
  <2>1. CallOK(t)'
    BY <1>1, <1>2, <1>3, <1>5, <1>6, <1>10 DEF CallOK
  <2> QED BY <1>3, <1>6, <2>1, CallsKeep
<1>12. AckPart'
  BY <1>2, <1>3, <1>6, <1>10, AcksKeep DEF CallOK
<1>13. YieldPart'
  BY <1>2, <1>3, <1>5, <1>6, YieldsKeep
<1>14. WalkPart' /\ Distinct'
  BY <1>3, WalksKeep DEF Distinct
<1>15. SyncMeansGranted'
  BY <1>3, <1>7 DEF SyncMeansGranted, NoResult
<1> QED BY <1>8, <1>9, <1>11, <1>12, <1>13, <1>14, <1>15

(* The id is new: no call has one above packet_id.                         *)
LEMMA TakeIdKeeps ==
  ASSUME IInv, NEW t \in Threads, TakeId(t)
  PROVE  IInv'
<1> USE DEF IInv
<1> DEFINE step == IF ~online THEN "return" ELSE IF call[t].kind = "local" THEN "add" ELSE "send"
           Taking == {u \in Threads : pc[u] = "id"}
           Then == {u \in Threads : pc'[u] = "id"}
<1>1. /\ pc[t] = "id" /\ packet_id' = packet_id + 1
      /\ call' = [call EXCEPT ![t].id = packet_id + 1] /\ Goto(t, step)
      /\ UNCHANGED <<yield, result, in_yield_cb, list_sub_handle, list_sub_sync_ack, granted>>
      /\ UNCHANGED <<net, online, lock_write_buf>>
  BY DEF TakeId
<1>2. step \in Steps /\ step \in {"return", "add", "send"}
  BY DEF Steps
<1> HIDE DEF step
<1>3. /\ pc' \in [Threads -> Steps] /\ pc'[t] = step
      /\ \A u \in Threads : u # t => pc'[u] = pc[u]
  BY <1>1, <1>2, GotoFacts
<1>4. Then = Taking \ {t} /\ t \in Taking
  BY <1>1, <1>2, <1>3
<1>5. packet_id' + Cardinality(Then) <= MaxIds /\ packet_id' \in 0 .. MaxIds
  <2>1. packet_id + Cardinality(Taking) <= MaxIds /\ packet_id \in Nat /\ MaxIds \in Nat
    BY SubscribeAssumption DEF IdPart, CallTypes
  <2>2. IsFiniteSet(Taking) /\ Cardinality(Taking) \in Nat /\ Cardinality(Then) \in Nat
    BY CountFacts
  <2> HIDE DEF Taking, Then
  <2>3. Cardinality(Then) = Cardinality(Taking) - 1
    BY <1>4, <2>2, FS_RemoveElement
  <2> QED BY <1>1, <2>1, <2>2, <2>3
<1>6. /\ call' \in [Threads -> Calls] /\ \A u \in Threads : u # t => call'[u] = call[u]
      /\ call'[t].id = packet_id + 1 /\ call'[t].h = call[t].h /\ call'[t].kind = call[t].kind
      /\ call'[t].ret = call[t].ret /\ call'[t].subed = call[t].subed
  BY <1>1, <1>5, IdStored
<1>7. Moves(t)
  BY <1>3, <1>6 DEF Moves
<1>8. IdPart'
  <2>1. \A u \in Threads : call[u].id \in Nat /\ packet_id \in Nat /\ call[u].id <= packet_id
    BY DEF CallTypes, Calls, IdPart
  <2>2. \A u \in Threads : call'[u].id <= packet_id'
    BY <1>1, <1>6, <2>1
  <2>3. ASSUME NEW u \in Threads, NEW v \in Threads, u # v, call'[u].id > 0
        PROVE  call'[u].id # call'[v].id
    <3>1. CASE u = t
      BY <1>6, <2>1, <2>3, <3>1
    <3>2. CASE v = t
      BY <1>6, <2>1, <2>3, <3>2
    <3>3. CASE u # t /\ v # t
      BY <1>6, <2>3, <3>3 DEF IdPart
    <3> QED BY <3>1, <3>2, <3>3
  <2> QED BY <1>5, <2>2, <2>3 DEF IdPart
<1>9. CallOK(t)
  BY DEF CallPart
<1>10. packet_id \in Nat
  BY DEF CallTypes
<1>11. CallOK(t)'
  BY <1>1, <1>2, <1>3, <1>6, <1>9, <1>10 DEF CallOK
<1>12. NetTypes'
  BY <1>1 DEF NetTypes, net
<1>13. ypc[t] \in {"none", "cb"}
  BY <1>1, InCall
<1> QED BY <1>1, <1>2, <1>3, <1>5, <1>6, <1>7, <1>8, <1>11, <1>12, <1>13, QuietStep

(* An UNSUBSCRIBE is written with lock_write_buf kept, so that nobody      *)
(* else is about to remove handlers.                                       *)
LEMMA SendRequestKeeps ==
  ASSUME IInv, NEW t \in Threads, SendRequest(t)
  PROVE  IInv'
<1> USE DEF IInv
<1> DEFINE step == IF call[t].kind = "unsub" THEN "remove" ELSE "add"
<1>1. /\ pc[t] = "send" /\ lock_write_buf = NoThread
      /\ toBroker' = IF online THEN Append(toBroker, RequestOf(t)) ELSE toBroker
      /\ lock_write_buf' = IF call[t].kind = "unsub" THEN t ELSE NoThread
      /\ Goto(t, step)
      /\ UNCHANGED <<yield, result, in_yield_cb, list_sub_handle, list_sub_sync_ack, granted>>
      /\ UNCHANGED <<call, toClient, broker, online, packet_id>>
  BY DEF SendRequest, KeepsLock
<1>2. step \in Steps
  BY DEF Steps
<1>3. /\ pc' \in [Threads -> Steps] /\ pc'[t] = step
      /\ \A u \in Threads : u # t => pc'[u] = pc[u]
  <2> HIDE DEF step
  <2> QED BY <1>1, <1>2, GotoFacts
<1>4. Moves(t) /\ call' = call
  BY <1>1, <1>3 DEF Moves, CallTypes
<1>5. CallOK(t)
  BY DEF CallPart
<1>6. RequestOf(t) \in Requests
  <2>1. call[t].id \in 1 .. MaxIds
    BY <1>1, <1>5 DEF CallOK, CallTypes, Calls
  <2>2. call[t].h \in Handlers
    BY <1>1, <1>5 DEF CallOK
  <2>3. FilterOf[call[t].h] \in Filters
    BY <2>2, SubscribeAssumption
  <2> QED BY <2>1, <2>3 DEF RequestOf, Requests
<1>7. toBroker' \in Seq(Requests)
  BY <1>1, <1>6, AppendFacts DEF NetTypes
<1>8. NetTypes'
  BY <1>1, <1>7 DEF NetTypes
<1>9. IdPart'
  BY <1>1, <1>3, <1>4, IdsKeep
<1>10. CallOK(t)'
  <2>1. t # NoThread
    BY SubscribeAssumption
  <2> QED BY <1>1, <1>3, <1>4, <1>5, <2>1 DEF CallOK
<1>11. \A u \in Threads : u # t => (lock_write_buf' = u <=> lock_write_buf = u)
  BY <1>1, SubscribeAssumption
<1>12. ypc[t] \in {"none", "cb"}
  BY <1>1, InCall
<1>13. packet_id' \in 0 .. MaxIds
  BY <1>1 DEF CallTypes
<1> QED BY <1>1, <1>3, <1>4, <1>8, <1>9, <1>10, <1>11, <1>12, <1>13, QuietStep

LEMMA SendFailsKeeps ==
  ASSUME IInv, NEW t \in Threads, SendFails(t)
  PROVE  IInv'
<1> USE DEF IInv
<1>1. /\ pc[t] = "send" /\ Goto(t, "failed")
      /\ UNCHANGED <<yield, result, in_yield_cb, list_sub_handle, list_sub_sync_ack, granted>>
      /\ UNCHANGED <<call, toBroker, toClient, broker, online, packet_id, lock_write_buf>>
  BY DEF SendFails, client
<1>2. /\ pc' \in [Threads -> Steps] /\ pc'[t] = "failed"
      /\ \A u \in Threads : u # t => pc'[u] = pc[u]
  BY <1>1, GotoFacts DEF Steps
<1>3. Moves(t)
  BY <1>1, <1>2 DEF Moves, CallTypes
<1>4. NetTypes' /\ packet_id' \in 0 .. MaxIds
  BY <1>1 DEF NetTypes, CallTypes
<1>5. IdPart'
  BY <1>1, <1>2, <1>3, IdsKeep
<1>6. CallOK(t)'
  BY <1>1, <1>2 DEF CallPart, CallOK
<1>7. ypc[t] \in {"none", "cb"}
  BY <1>1, InCall
<1> QED BY <1>1, <1>2, <1>3, <1>4, <1>5, <1>6, <1>7, QuietStep

LEMMA StoreDisconnectedKeeps ==
  ASSUME IInv, NEW t \in Threads, StoreDisconnected(t)
  PROVE  IInv'
<1> USE DEF IInv
<1>1. /\ pc[t] = "failed" /\ Goto(t, "return") /\ online' = FALSE
      /\ UNCHANGED <<yield, result, in_yield_cb, list_sub_handle, list_sub_sync_ack, granted>>
      /\ UNCHANGED <<call, toBroker, toClient, broker, packet_id, lock_write_buf>>
  BY DEF StoreDisconnected, net
<1>2. /\ pc' \in [Threads -> Steps] /\ pc'[t] = "return"
      /\ \A u \in Threads : u # t => pc'[u] = pc[u]
  BY <1>1, GotoFacts DEF Steps
<1>3. Moves(t)
  BY <1>1, <1>2 DEF Moves, CallTypes
<1>4. NetTypes' /\ packet_id' \in 0 .. MaxIds
  BY <1>1 DEF NetTypes, CallTypes
<1>5. IdPart'
  BY <1>1, <1>2, <1>3, IdsKeep
<1>6. CallOK(t)'
  BY <1>1, <1>2 DEF CallPart, CallOK
<1>7. ypc[t] \in {"none", "cb"}
  BY <1>1, InCall
<1> QED BY <1>1, <1>2, <1>3, <1>4, <1>5, <1>6, <1>7, QuietStep

(* Time is left.                                                           *)
LEMMA NextRoundKeeps ==
  ASSUME IInv, NEW t \in Threads, NextRound(t)
  PROVE  IInv'
<1> USE DEF IInv
<1>1. /\ pc[t] = "decide"
      /\ UNCHANGED <<yield, result, in_yield_cb, list_sub_handle, list_sub_sync_ack, granted>>
      /\ UNCHANGED <<call, toBroker, toClient, broker, online, packet_id, lock_write_buf>>
  BY DEF NextRound, client, net
<1>2. /\ NetTypes' /\ packet_id' \in 0 .. MaxIds
      /\ \A u \in Threads : u # t => (lock_write_buf' = u <=> lock_write_buf = u)
  BY <1>1 DEF NetTypes, CallTypes
<1>3. ypc[t] = "none"
  BY <1>1, InCall
<1>4. CallOK(t) /\ call[t].ret \in -1 .. MaxIds /\ MaxIds \in Nat
  BY SubscribeAssumption DEF CallPart, CallTypes, Calls
<1>5. CASE call[t].ret < 0
  <2>1. IdLeft /\ Goto(t, "id")
    BY <1>5 DEF NextRound
  <2>2. /\ pc' \in [Threads -> Steps] /\ pc'[t] = "id"
        /\ \A u \in Threads : u # t => pc'[u] = pc[u]
    BY <2>1, GotoFacts DEF Steps
  <2>3. Moves(t)
    BY <1>1, <2>2 DEF Moves, CallTypes
  <2>4. IdPart'
    BY <1>1, <2>1, <2>2, <2>3, IdWanted
  <2>5. call[t].ret = -1
    BY <1>4, <1>5
  <2>6. CallOK(t)'
    BY <1>1, <1>4, <2>2, <2>5 DEF CallOK
  <2> QED BY <1>1, <1>2, <1>3, <2>2, <2>3, <2>4, <2>6, QuietStep
<1>6. CASE ~(call[t].ret < 0)
  <2>1. Goto(t, "yield")
    BY <1>6 DEF NextRound
  <2>2. /\ pc' \in [Threads -> Steps] /\ pc'[t] = "yield"
        /\ \A u \in Threads : u # t => pc'[u] = pc[u]
    BY <2>1, GotoFacts DEF Steps
  <2>3. Moves(t)
    BY <1>1, <2>2 DEF Moves, CallTypes
  <2>4. IdPart'
    BY <1>1, <2>2, <2>3, IdsKeep
  <2>5. CallOK(t)'
    BY <1>1, <1>4, <2>2 DEF CallOK
  <2> QED BY <1>1, <1>2, <1>3, <2>2, <2>3, <2>4, <2>5, QuietStep
<1> QED BY <1>5, <1>6

(* Return before, or without, waiting for a SUBACK.                        *)
LEMMA ReturnToCallerKeeps ==
  ASSUME IInv, NEW t \in Threads, ReturnToCaller(t)
  PROVE  IInv'
<1> USE DEF IInv
<1>1. /\ pc[t] = "return" /\ Leave(t, call[t].ret, TRUE)
      /\ UNCHANGED <<ypc, walk, within, buf_read, lock_yield, toBroker, toClient, broker, online, packet_id,
                     list_sub_handle, list_sub_sync_ack, lock_write_buf, in_yield_cb, granted>>
  BY DEF ReturnToCaller, yield, net, client
<1>2. CallOK(t) /\ call[t].ret \in -1 .. MaxIds
  BY DEF CallPart, CallTypes, Calls
<1>3. /\ Moves(t) /\ pc'[t] = "idle" /\ call'[t] = NoCall
      /\ result' \in [Threads -> Results]
      /\ \A u \in Threads : u # t => result'[u] = result[u]
      /\ result'[t].kind = "sync" => result'[t].ret = call[t].ret /\ result'[t].early = TRUE
  BY <1>1, <1>2, LeaveFacts
<1>4. CallTypes' /\ ListTypes' /\ YieldTypes' /\ NetTypes'
  BY <1>1, <1>3 DEF CallTypes, ListTypes, YieldTypes, NetTypes, Moves
<1>5. IdPart'
  BY <1>1, <1>3, IdsKeep DEF NoCall
<1>6. CallPart'
  <2>1. CallOK(t)'
    BY <1>1, <1>2, <1>3 DEF CallOK, NoCall
  <2> QED BY <1>1, <1>3, <2>1, CallsKeep
<1>7. AckPart'
  BY <1>1, <1>2, <1>3, AcksKeep DEF CallOK
<1>8. YieldPart'
  BY <1>1, <1>3, InCall, YieldsKeep
<1>9. WalkPart' /\ Distinct'
  BY <1>1, WalksKeep DEF Distinct
<1>10. SyncMeansGranted'
  BY <1>1, <1>3 DEF SyncMeansGranted
<1> QED BY <1>4, <1>5, <1>6, <1>7, <1>8, <1>9, <1>10

(* The handler is new to the list, or the list stays as it is.             *)
LEMMA AddHandlerKeeps ==
  ASSUME IInv, NEW t \in Threads, AddHandler(t)
  PROVE  IInv'
<1> USE DEF IInv
<1> DEFINE l == list_sub_handle
           h == call[t].h
<1>1. /\ pc[t] = "add" /\ Goto(t, "return") /\ call' = [call EXCEPT ![t].ret = call[t].id]
      /\ l' = IF Contains(l, h) THEN l ELSE Append(l, h)
      /\ UNCHANGED <<result, ypc, walk, within, buf_read, lock_yield, toBroker, toClient, broker, online,
                     packet_id, list_sub_sync_ack, lock_write_buf, in_yield_cb, granted>>
  BY DEF AddHandler, AddedTo, yield, net
<1>2. CallOK(t) /\ call[t].id \in 0 .. MaxIds
  BY DEF CallPart, CallTypes, Calls
<1>3. h \in Handlers
  BY <1>1, <1>2 DEF CallOK
<1>4. /\ pc' \in [Threads -> Steps] /\ pc'[t] = "return"
      /\ \A u \in Threads : u # t => pc'[u] = pc[u]
  BY <1>1, GotoFacts DEF Steps
<1>5. /\ call' \in [Threads -> Calls] /\ \A u \in Threads : u # t => call'[u] = call[u]
      /\ call'[t].ret = call[t].id /\ call'[t].h = call[t].h /\ call'[t].kind = call[t].kind
      /\ call'[t].id = call[t].id /\ call'[t].subed = call[t].subed
  <2>1. call[t].id \in -1 .. MaxIds
    BY <1>2
  <2> QED BY <1>1, <2>1, RetStored
<1>6. Moves(t)
  BY <1>4, <1>5 DEF Moves
<1>7. /\ l \in Seq(Handlers) /\ l' \in Seq(Handlers) /\ Len(l) \in Nat
      /\ \A i \in 1 .. Len(l) : i \in 1 .. Len(l') /\ l'[i] = l[i]
      /\ \A i \in 1 .. Len(l') : i \in 1 .. Len(l) \/ (i = Len(l) + 1 /\ l'[i] = h /\ ~Contains(l, h))
  <2>1. l \in Seq(Handlers)
    BY DEF ListTypes
  <2>2. /\ Append(l, h) \in Seq(Handlers) /\ Len(Append(l, h)) = Len(l) + 1 /\ Len(l) \in Nat
        /\ \A j \in 1 .. Len(l) : Append(l, h)[j] = l[j]
        /\ Append(l, h)[Len(l) + 1] = h
    BY <1>3, <2>1, AppendFacts
  <2> HIDE DEF l, h
  <2> QED BY <1>1, <2>1, <2>2
<1>8. CallTypes' /\ ListTypes' /\ YieldTypes' /\ NetTypes'
  BY <1>1, <1>4, <1>5, <1>7 DEF CallTypes, ListTypes, YieldTypes, NetTypes
<1>9. IdPart'
  BY <1>1, <1>4, <1>5, <1>6, IdsKeep
<1>10. CallPart'
  <2>1. CallOK(t)'
    BY <1>1, <1>2, <1>4, <1>5 DEF CallOK
  <2> QED BY <1>1, <1>6, <2>1, CallsKeep
<1>11. AckPart'
  BY <1>1, <1>2, <1>5, <1>6, AcksKeep DEF CallOK
<1>12. YieldPart'
  BY <1>1, <1>4, <1>6, InCall, YieldsKeep
<1>13. Distinct'
  <2> SUFFICES ASSUME NEW i \in 1 .. Len(l'), NEW j \in 1 .. Len(l'), l'[i] = l'[j]
               PROVE  i = j
    BY DEF Distinct
  <2> HIDE DEF l, h
  <2>1. \A a, b \in 1 .. Len(l) : l[a] = l[b] => a = b
    BY DEF Distinct, l
  <2>2. \A a \in 1 .. Len(l) : ~Contains(l, h) => l[a] # h
    BY DEF Contains
  <2> QED BY <1>7, <2>1, <2>2
<1>14. WalkPart'
  <2>1. \A at, g : Ahead(l, at, g) => Ahead(l', at, g)
    <3> HIDE DEF l
    <3> QED BY <1>7 DEF Ahead
  <2>2. \A at : (\E j \in 1 .. Len(l) : l[j] = at) => \E j \in 1 .. Len(l') : l'[j] = at
    <3> HIDE DEF l
    <3> QED BY <1>7
  <2> SUFFICES ASSUME NEW u \in Threads PROVE WalkOK(u)'
    BY DEF WalkPart
  <2>3. WalkOK(u)
    BY DEF WalkPart
  <2> QED BY <1>1, <2>1, <2>2, <2>3 DEF WalkOK
<1>15. SyncMeansGranted'
  BY <1>1 DEF SyncMeansGranted
<1> QED BY <1>8, <1>9, <1>10, <1>11, <1>12, <1>13, <1>14, <1>15

(* The nodes that are left keep their order, so that what is due is still  *)
(* ahead of every walk.                                                    *)
LEMMA RemoveHandlersKeeps ==
  ASSUME IInv, NEW t \in Threads, RemoveHandlers(t)
  PROVE  IInv'
<1> USE DEF IInv
<1> DEFINE l == list_sub_handle
           gone == Found(t)
           w(u) == Freed(walk[u], gone)
<1>w. walk' = [u \in Threads |-> w(u)]
  BY DEF RemoveHandlers
<1>1. /\ pc[t] = "remove" /\ Goto(t, "return") /\ call' = [call EXCEPT ![t].ret = call[t].id]
      /\ l' = Without(l, gone)
      /\ lock_write_buf' = IF lock_write_buf = t THEN NoThread ELSE lock_write_buf
      /\ UNCHANGED <<result, ypc, within, buf_read, lock_yield, toBroker, toClient, broker, online,
                     packet_id, list_sub_sync_ack, in_yield_cb, granted>>
  BY DEF RemoveHandlers, yield, net
<1>2. CallOK(t) /\ call[t].id \in 0 .. MaxIds
  BY DEF CallPart, CallTypes, Calls
<1>3. lock_write_buf = t /\ lock_write_buf' = NoThread /\ t # NoThread
  BY <1>1, <1>2, SubscribeAssumption DEF CallOK
<1>4. /\ pc' \in [Threads -> Steps] /\ pc'[t] = "return"
      /\ \A u \in Threads : u # t => pc'[u] = pc[u]
  BY <1>1, GotoFacts DEF Steps
<1>5. /\ call' \in [Threads -> Calls] /\ \A u \in Threads : u # t => call'[u] = call[u]
      /\ call'[t].ret = call[t].id /\ call'[t].h = call[t].h /\ call'[t].kind = call[t].kind
      /\ call'[t].id = call[t].id /\ call'[t].subed = call[t].subed
  <2>1. call[t].id \in -1 .. MaxIds
    BY <1>2
  <2> QED BY <1>1, <2>1, RetStored
<1>6. Moves(t)
  BY <1>4, <1>5 DEF Moves
<1>7. /\ l \in Seq(Handlers) /\ l' \in Seq(Handlers)
      /\ \E f : Numbers(f, l', l, gone, Len(l))
  <2>1. l \in Seq(Handlers)
    BY DEF ListTypes
  <2> HIDE DEF l, gone
  <2> QED BY <1>1, <2>1, WithoutNumbers
<1>8. PICK f : Numbers(f, l', l, gone, Len(l))
  BY <1>7
<1>9. \A u \in Threads :
        /\ w(u) \in Walks /\ walk'[u] = w(u)
        /\ w(u).type = walk[u].type /\ w(u).f = walk[u].f /\ w(u).at = walk[u].at
        /\ w(u).called = walk[u].called /\ w(u).due = walk[u].due \ gone
        /\ w(u).freed = (walk[u].freed \/ walk[u].at \in gone)
  <2> SUFFICES ASSUME NEW u \in Threads
               PROVE  /\ w(u) \in Walks /\ walk'[u] = w(u)
                      /\ w(u).type = walk[u].type /\ w(u).f = walk[u].f /\ w(u).at = walk[u].at
                      /\ w(u).called = walk[u].called /\ w(u).due = walk[u].due \ gone
                      /\ w(u).freed = (walk[u].freed \/ walk[u].at \in gone)
    OBVIOUS
  <2>1. walk[u] \in Walks
    BY DEF YieldTypes
  <2> DEFINE b == walk[u].freed \/ walk[u].at \in gone
             w1 == [walk[u] EXCEPT !.freed = b]
  <2>2. b \in BOOLEAN
    BY <2>1 DEF Walks
  <2>3. /\ w1 \in Walks /\ w1.type = walk[u].type /\ w1.f = walk[u].f /\ w1.at = walk[u].at
        /\ w1.called = walk[u].called /\ w1.due = walk[u].due /\ w1.freed = b
    <3> HIDE DEF b
    <3> QED BY <2>1, <2>2 DEF Walks
  <2>4. w(u) = [w1 EXCEPT !.due = walk[u].due \ gone]
    BY <2>1 DEF Walks, Freed
  <2>5. walk'[u] = w(u)
    BY <1>w
  <2> HIDE DEF w1, b, w
  <2> QED BY <2>3, <2>4, <2>5 DEF Walks, b
<1> HIDE DEF w
<1>10. walk' \in [Threads -> Walks]
  BY <1>w, <1>9
<1>11. CallTypes' /\ ListTypes' /\ YieldTypes' /\ NetTypes'
  BY <1>1, <1>3, <1>4, <1>5, <1>7, <1>10 DEF CallTypes, ListTypes, YieldTypes, NetTypes
<1>12. IdPart'
  BY <1>1, <1>4, <1>5, <1>6, IdsKeep
<1>13. CallPart'
  <2>1. CallOK(t)'
    BY <1>1, <1>2, <1>3, <1>4, <1>5 DEF CallOK
  <2>2. \A u \in Threads : u # t => (lock_write_buf' = u <=> lock_write_buf = u)
    BY <1>3, SubscribeAssumption
  <2> QED BY <1>6, <2>1, <2>2, CallsKeep
<1>14. AckPart'
  BY <1>1, <1>2, <1>5, <1>6, AcksKeep DEF CallOK
<1>15. YieldPart'
  BY <1>1, <1>4, <1>6, <1>9, InCall, YieldsKeep
<1> HIDE DEF l, gone
<1>16. /\ f \in [1 .. Len(l') -> 1 .. Len(l)] /\ Len(l) \in Nat /\ Len(l') \in Nat
       /\ \A i, j \in 1 .. Len(l') : i < j => f[i] < f[j]
       /\ \A i \in 1 .. Len(l') : l'[i] = l[f[i]] /\ l[f[i]] \notin gone
       /\ \A j \in 1 .. Len(l) : l[j] \notin gone => \E i \in 1 .. Len(l') : f[i] = j
  BY <1>7, <1>8 DEF Numbers
<1>17. Distinct'
  <2> SUFFICES ASSUME NEW i \in 1 .. Len(l'), NEW j \in 1 .. Len(l'), l'[i] = l'[j]
               PROVE  i = j
    BY DEF Distinct, l
  <2>1. f[i] = f[j]
    <3>1. \A a, b \in 1 .. Len(l) : l[a] = l[b] => a = b
      BY DEF Distinct, l
    <3> QED BY <1>16, <3>1
  <2>2. f[i] \in Int /\ f[j] \in Int
    BY <1>16
  <2>3. i < j \/ j < i \/ i = j
    OBVIOUS
  <2> QED BY <1>16, <2>1, <2>2, <2>3
<1>18. ASSUME NEW at, NEW h, Ahead(l, at, h), h \notin gone, at = NoHandler \/ at \notin gone
       PROVE  Ahead(l', at, h)
  <2>1. PICK i \in 1 .. Len(l) :
          l[i] = h /\ (at # NoHandler => \E j \in 1 .. Len(l) : l[j] = at /\ j < i)
    BY <1>18 DEF Ahead
  <2>2. PICK i1 \in 1 .. Len(l') : f[i1] = i
    BY <1>16, <1>18, <2>1
  <2>3. l'[i1] = h
    BY <1>16, <2>1, <2>2
  <2>4. ASSUME at # NoHandler PROVE \E j1 \in 1 .. Len(l') : l'[j1] = at /\ j1 < i1
    <3>1. PICK j \in 1 .. Len(l) : l[j] = at /\ j < i
      BY <2>1, <2>4
    <3>2. PICK j1 \in 1 .. Len(l') : f[j1] = j
      BY <1>16, <1>18, <2>4, <3>1
    <3>3. l'[j1] = at
      BY <1>16, <3>1, <3>2
    <3>4. j1 < i1 \/ i1 < j1 \/ i1 = j1
      OBVIOUS
    <3>5. j1 < i1
      BY <1>16, <2>2, <3>1, <3>2, <3>4
    <3> QED BY <3>3, <3>5
  <2> QED BY <2>3, <2>4 DEF Ahead
<1>19. WalkPart'
  <2> SUFFICES ASSUME NEW u \in Threads PROVE WalkOK(u)'
    BY DEF WalkPart
  <2>1. WalkOK(u) /\ walk[u] \in Walks /\ walk'[u] = w(u)
    BY <1>9 DEF WalkPart, YieldTypes
  <2>2. /\ w(u).type = walk[u].type /\ w(u).f = walk[u].f /\ w(u).at = walk[u].at
        /\ w(u).called = walk[u].called /\ w(u).due = walk[u].due \ gone
        /\ w(u).freed = (walk[u].freed \/ walk[u].at \in gone)
        /\ walk[u].freed \in BOOLEAN
    BY <1>9, <2>1 DEF Walks
  <2>3. NoHandler \notin gone
    BY SubscribeAssumption DEF gone, Found
  <2>4. ASSUME walk[u].at # NoHandler, ~w(u).freed
        PROVE  \E j \in 1 .. Len(l') : l'[j] = w(u).at
    <3>1. PICK j \in 1 .. Len(l) : l[j] = walk[u].at
      BY <2>1, <2>2, <2>4 DEF WalkOK, l
    <3>2. PICK i \in 1 .. Len(l') : f[i] = j
      BY <1>16, <2>2, <2>4, <3>1
    <3>3. l'[i] = w(u).at
      BY <1>16, <2>2, <3>1, <3>2
    <3> QED BY <3>3
  <2>5. ASSUME ypc[u] \in {"walk", "cb"}, ~w(u).freed, NEW h \in w(u).due \ w(u).called
        PROVE  FilterOf[h] \in Matches[w(u).f] /\ Ahead(l', w(u).at, h)
    <3>1. FilterOf[h] \in Matches[walk[u].f] /\ Ahead(l, walk[u].at, h)
      BY <2>1, <2>2, <2>5 DEF WalkOK, l
    <3>2. h \notin gone /\ walk[u].at \notin gone
      BY <2>2, <2>5
    <3> QED BY <1>18, <2>2, <3>1, <3>2
  <2>6. /\ w(u).at = NoHandler => ~w(u).freed
        /\ w(u).at # NoHandler => w(u).at \in w(u).called
        /\ ypc[u] = "handle" => /\ w(u).at = NoHandler /\ w(u).called = {} /\ w(u).due = {}
                                /\ w(u).type = buf_read.type
        /\ ypc[u] = "walk" => w(u).type \in {"PUBLISH", "garbled"}
        /\ w(u).type = "default" => ypc[u] = "cb"
        /\ ypc[u] \in {"none", "cycle"} \/ w(u).type = "default" => w(u).due \subseteq w(u).called
    BY <2>1, <2>2, <2>3 DEF WalkOK
  <2> QED BY <1>1, <2>1, <2>2, <2>4, <2>5, <2>6 DEF WalkOK, l
<1>20. SyncMeansGranted'
  BY <1>1 DEF SyncMeansGranted
<1> QED BY <1>11, <1>12, <1>13, <1>14, <1>15, <1>17, <1>19, <1>20

-----------------------------------------------------------------------------
(* Synchronous subscriptions                                               *)

(* A call begins to wait for its SUBACK: no other node has its id.         *)
LEMMA AddSyncNodeKeeps ==
  ASSUME IInv, NEW t \in Threads, AddSyncNode(t)
  PROVE  IInv'
<1> USE DEF IInv
<1> DEFINE l == list_sub_sync_ack
           n == [id |-> call[t].ret, ack |-> "UNDEF"]
<1>1. /\ pc[t] = "return" /\ call[t].kind = "sync" /\ ~in_yield_cb /\ Goto(t, "yield")
      /\ UNCHANGED <<result, ypc, walk, within, buf_read, lock_yield, toBroker, toClient, broker, online,
                     packet_id, list_sub_handle, lock_write_buf, in_yield_cb, granted>>
  BY DEF AddSyncNode, yield, net
<1>2. CallOK(t) /\ call[t].ret \in -1 .. MaxIds /\ call[t].id \in 0 .. MaxIds
  BY DEF CallPart, CallTypes, Calls
<1>3. /\ pc' \in [Threads -> Steps] /\ pc'[t] = "yield"
      /\ \A u \in Threads : u # t => pc'[u] = pc[u]
  BY <1>1, GotoFacts DEF Steps
<1>4. ypc[t] = "none"
  <2>1. YieldOK(t)
    BY DEF YieldPart
  <2> QED BY <1>1, <2>1, InCall DEF YieldOK
<1>5. ASSUME call[t].ret > 0
      PROVE  l' = Append(l, n) /\ call' = [call EXCEPT ![t].subed = TRUE]
  BY <1>5 DEF AddSyncNode
<1>6. ASSUME ~(call[t].ret > 0)
      PROVE  l' = l /\ call' = call
  BY <1>6 DEF AddSyncNode
<1>7. /\ call' \in [Threads -> Calls] /\ \A u \in Threads : u # t => call'[u] = call[u]
      /\ call'[t].ret = call[t].ret /\ call'[t].h = call[t].h /\ call'[t].kind = call[t].kind
      /\ call'[t].id = call[t].id /\ (call'[t].subed => call[t].ret > 0)
      /\ call[t].ret > 0 => call'[t].subed
  <2>1. call \in [Threads -> Calls] /\ call[t] \in Calls
    BY DEF CallTypes
  <2>2. CASE call[t].ret > 0
    <3>1. call'[t] = [call[t] EXCEPT !.subed = TRUE]
      BY <1>5, <2>1, <2>2
    <3>2. [call[t] EXCEPT !.subed = TRUE] \in Calls
      BY <2>1 DEF Calls
    <3>3. call' = [call EXCEPT ![t] = [call[t] EXCEPT !.subed = TRUE]]
      BY <1>5, <2>1, <2>2
    <3>4. call' \in [Threads -> Calls] /\ \A u \in Threads : u # t => call'[u] = call[u]
      BY <2>1, <3>2, <3>3
    <3> QED BY <2>1, <2>2, <3>1, <3>4 DEF Calls
  <2>3. CASE ~(call[t].ret > 0)
    <3>1. ~call[t].subed
      BY <1>1, <1>2 DEF CallOK
    <3> QED BY <1>6, <2>1, <2>3, <3>1
  <2> QED BY <2>2, <2>3
<1>8. Moves(t)
  BY <1>3, <1>7 DEF Moves
<1>9. l \in Seq(Acks)
  BY DEF ListTypes
<1>10. call[t].ret > 0 => n \in Acks /\ n.id = call[t].ret /\ n.ack = "UNDEF"
  BY <1>2 DEF Acks
<1>11. \A i \in 1 .. Len(l) : l[i].id # call[t].ret \/ ~(call[t].ret > 0)
  <2> SUFFICES ASSUME NEW i \in 1 .. Len(l), call[t].ret > 0, l[i].id = call[t].ret PROVE FALSE
    OBVIOUS
  <2>1. PICK u \in Threads : call[u].subed /\ call[u].ret = l[i].id
    BY DEF AckPart
  <2>2. u # t
    BY <1>1, <1>2, <2>1 DEF CallOK
  <2>3. CallOK(u)
    BY DEF CallPart
  <2>4. call[u].id = call[t].ret /\ call[t].id = call[t].ret
    BY <1>2, <2>1, <2>3 DEF CallOK
  <2> QED BY <2>2, <2>4 DEF IdPart
<1>12. ASSUME call[t].ret > 0 PROVE l' \in Seq(Acks) /\ AckPart'
  <2>1. /\ l' \in Seq(Acks) /\ Len(l') = Len(l) + 1 /\ Len(l) \in Nat
        /\ \A j \in 1 .. Len(l) : l'[j] = l[j]
        /\ l'[Len(l) + 1].id = call[t].ret /\ l'[Len(l) + 1].ack = "UNDEF"
    <3>1. /\ Append(l, n) \in Seq(Acks) /\ Len(Append(l, n)) = Len(l) + 1 /\ Len(l) \in Nat
          /\ \A j \in 1 .. Len(l) : Append(l, n)[j] = l[j]
          /\ Append(l, n)[Len(l) + 1] = n
      <4> HIDE DEF n, l
      <4> QED BY <1>9, <1>10, <1>12, AppendFacts
    <3> HIDE DEF n, l
    <3> QED BY <1>5, <1>10, <1>12, <3>1
  <2>2. \A i \in 1 .. Len(l') : i \in 1 .. Len(l) \/ i = Len(l) + 1
    BY <2>1
  <2>3. \A i \in 1 .. Len(l') : \E u \in Threads : call'[u].subed /\ call'[u].ret = l'[i].id
    <3> SUFFICES ASSUME NEW i \in 1 .. Len(l')
                 PROVE  \E u \in Threads : call'[u].subed /\ call'[u].ret = l'[i].id
      OBVIOUS
    <3>1. CASE i \in 1 .. Len(l)
      <4>1. PICK u \in Threads : call[u].subed /\ call[u].ret = l[i].id
        BY <3>1 DEF AckPart
      <4>2. u # t
        BY <1>1, <1>2, <4>1 DEF CallOK
      <4> QED BY <1>7, <2>1, <3>1, <4>1, <4>2
    <3>2. CASE i = Len(l) + 1
      BY <1>7, <1>12, <2>1, <3>2
    <3> QED BY <2>2, <3>1, <3>2
  <2>4. ASSUME NEW i \in 1 .. Len(l'), NEW j \in 1 .. Len(l'), l'[i].id = l'[j].id
        PROVE  i = j
    <3>1. \A a, b \in 1 .. Len(l) : l[a].id = l[b].id => a = b
      BY DEF AckPart
    <3> HIDE DEF l
    <3> QED BY <1>11, <1>12, <2>1, <2>2, <2>4, <3>1
  <2>5. \A i \in 1 .. Len(l') : l'[i].ack = "SUCCESS" => l'[i].id \in granted
    <3>1. \A i \in 1 .. Len(l) : l[i].ack = "SUCCESS" => l[i].id \in granted
      BY DEF AckPart
    <3> HIDE DEF l
    <3> QED BY <2>1, <2>2, <3>1
  <2> QED BY <1>1, <2>1, <2>3, <2>4, <2>5 DEF AckPart
<1>13. l' \in Seq(Acks) /\ AckPart'
  <2>1. CASE ~(call[t].ret > 0)
    <3>1. ~call[t].subed
      BY <1>1, <1>2 DEF CallOK
    <3> QED BY <1>1, <1>6, <1>8, <1>9, <2>1, <3>1, AcksKeep
  <2> QED BY <1>12, <2>1
<1>14. CallTypes' /\ ListTypes' /\ YieldTypes' /\ NetTypes'
  BY <1>1, <1>3, <1>7, <1>13 DEF CallTypes, ListTypes, YieldTypes, NetTypes
<1>15. IdPart'
  BY <1>1, <1>3, <1>7, <1>8, IdsKeep
<1>16. CallPart'
  <2>1. CallOK(t)'
    BY <1>1, <1>2, <1>3, <1>7 DEF CallOK
  <2> QED BY <1>1, <1>8, <2>1, CallsKeep
<1>17. YieldPart'
  BY <1>1, <1>4, <1>8, YieldsKeep
<1>18. WalkPart' /\ Distinct' /\ SyncMeansGranted'
  BY <1>1, WalksKeep DEF Distinct, SyncMeansGranted
<1> QED BY <1>13, <1>14, <1>15, <1>16, <1>17, <1>18

(* A call that stops waiting has taken its node off: the nodes that are    *)
(* left belong to other calls.                                             *)
LEMMA AcksLeft ==
  ASSUME IInv, NEW t \in Threads, Moves(t), UNCHANGED granted,
         list_sub_sync_ack' \in Seq(Acks),
         NEW f \in [1 .. Len(list_sub_sync_ack') -> 1 .. Len(list_sub_sync_ack)],
         \A i, j \in 1 .. Len(list_sub_sync_ack') : f[i] = f[j] => i = j,
         \A i \in 1 .. Len(list_sub_sync_ack') :
            /\ list_sub_sync_ack'[i] = list_sub_sync_ack[f[i]]
            /\ list_sub_sync_ack'[i].id # call[t].ret
  PROVE  AckPart'
<1> DEFINE l == list_sub_sync_ack
<1>1. /\ \A i \in 1 .. Len(l) : \E u \in Threads : call[u].subed /\ call[u].ret = l[i].id
      /\ \A i, j \in 1 .. Len(l) : l[i].id = l[j].id => i = j
      /\ \A i \in 1 .. Len(l) : l[i].ack = "SUCCESS" => l[i].id \in granted
  BY DEF IInv, AckPart
<1> HIDE DEF l
<1>2. /\ \A i \in 1 .. Len(l') : f[i] \in 1 .. Len(l) /\ l'[i] = l[f[i]] /\ l'[i].id # call[t].ret
      /\ \A i, j \in 1 .. Len(l') : f[i] = f[j] => i = j
  BY DEF l
<1>3. ASSUME NEW i \in 1 .. Len(l')
      PROVE  \E u \in Threads : call'[u].subed /\ call'[u].ret = l'[i].id
  <2>1. PICK u \in Threads : call[u].subed /\ call[u].ret = l[f[i]].id
    BY <1>1, <1>2
  <2>2. u # t
    BY <1>2, <2>1
  <2> QED BY <1>2, <2>1, <2>2 DEF Moves
<1>4. \A i, j \in 1 .. Len(l') : l'[i].id = l'[j].id => i = j
  BY <1>1, <1>2
<1>5. \A i \in 1 .. Len(l') : l'[i].ack = "SUCCESS" => l'[i].id \in granted
  BY <1>1, <1>2
<1> QED BY <1>3, <1>4, <1>5 DEF AckPart, l

LEMMA LookForAckKeeps ==
  ASSUME IInv, NEW t \in Threads, LookForAck(t)
  PROVE  IInv'
<1> USE DEF IInv
<1> DEFINE l == list_sub_sync_ack
<1>1. /\ pc[t] = "wait" /\ ypc[t] = "none"
      /\ UNCHANGED <<ypc, walk, within, buf_read, lock_yield, toBroker, toClient, broker, online,
                     packet_id, list_sub_handle, lock_write_buf, in_yield_cb, granted>>
  BY DEF LookForAck, yield, net
<1>2. CallOK(t) /\ call[t].ret \in -1 .. MaxIds /\ call[t].id \in 0 .. MaxIds
  BY DEF CallPart, CallTypes, Calls
<1>3. YieldTypes' /\ NetTypes' /\ packet_id' \in 0 .. MaxIds /\ list_sub_handle' \in Seq(Handlers)
  BY <1>1 DEF YieldTypes, NetTypes, CallTypes, ListTypes
<1>4. WalkPart' /\ Distinct'
  BY <1>1, WalksKeep DEF Distinct
<1>5. CASE l = <<>> \/ l[1].id # call[t].ret \/ l[1].ack = "UNDEF"
  <2>1. Goto(t, "decide") /\ UNCHANGED <<call, result, l>>
    BY <1>5 DEF LookForAck
  <2>2. /\ pc' \in [Threads -> Steps] /\ pc'[t] = "decide"
        /\ \A u \in Threads : u # t => pc'[u] = pc[u]
    BY <2>1, GotoFacts DEF Steps
  <2>3. Moves(t)
    BY <2>1, <2>2 DEF Moves, CallTypes
  <2>4. CallTypes' /\ ListTypes'
    BY <1>3, <2>1, <2>2 DEF CallTypes, ListTypes
  <2>5. IdPart'
    BY <1>1, <2>1, <2>2, <2>3, IdsKeep
  <2>6. CallPart'
    <3>1. CallOK(t)'
      BY <1>1, <1>2, <2>1, <2>2 DEF CallOK
    <3> QED BY <1>1, <2>3, <3>1, CallsKeep
  <2>7. AckPart'
    BY <1>1, <2>1, <2>3, AcksKeep
  <2>8. YieldPart'
    BY <1>1, <2>3, YieldsKeep
  <2>9. SyncMeansGranted'
    BY <1>1, <2>1 DEF SyncMeansGranted
  <2> QED BY <1>3, <1>4, <2>4, <2>5, <2>6, <2>7, <2>8, <2>9
<1>6. CASE ~(l = <<>> \/ l[1].id # call[t].ret \/ l[1].ack = "UNDEF")
  <2>1. /\ l # <<>> /\ l[1].id = call[t].ret /\ l[1].ack # "UNDEF" /\ l' = Tail(l)
        /\ IF l[1].ack = "SUCCESS" THEN Leave(t, call[t].ret, FALSE)
           ELSE /\ call' = [call EXCEPT ![t].ret = -1, ![t].subed = FALSE]
                /\ Goto(t, "decide") /\ UNCHANGED result
    BY <1>6 DEF LookForAck, Unlinked, Confirms
  <2>2. /\ l \in Seq(Acks) /\ l' \in Seq(Acks) /\ Len(l') = Len(l) - 1 /\ Len(l) \in Nat \ {0}
        /\ \A j \in 1 .. Len(l') : l'[j] = l[j + 1] /\ j + 1 \in 1 .. Len(l)
    <3>1. l \in Seq(Acks)
      BY DEF ListTypes
    <3> HIDE DEF l
    <3> QED BY <2>1, <3>1, TailFacts
  <2>3. l[1].ack = "SUCCESS" => call[t].ret \in granted
    BY <2>1, <2>2 DEF AckPart
  <2>4. ASSUME Moves(t) PROVE AckPart'
    <3> DEFINE f == [j \in 1 .. Len(l') |-> j + 1]
    <3>1. f \in [1 .. Len(l') -> 1 .. Len(l)]
      BY <2>2
    <3>2. \A i, j \in 1 .. Len(l') : f[i] = f[j] => i = j
      BY <2>2
    <3>3. ASSUME NEW i \in 1 .. Len(l')
          PROVE  l'[i] = l[f[i]] /\ l'[i].id # call[t].ret
      <4>1. l'[i] = l[i + 1] /\ i + 1 \in 1 .. Len(l) /\ f[i] = i + 1 /\ i + 1 # 1 /\ 1 \in 1 .. Len(l)
        BY <2>2
      <4>2. l[i + 1].id # l[1].id
        BY <4>1 DEF AckPart
      <4> QED BY <2>1, <4>1, <4>2
    <3> HIDE DEF f
    <3> QED BY <1>1, <2>2, <2>4, <3>1, <3>2, <3>3, AcksLeft
  <2>5. CASE l[1].ack = "SUCCESS"
    <3>1. Leave(t, call[t].ret, FALSE)
      BY <2>1, <2>5
    <3>2. /\ Moves(t) /\ pc'[t] = "idle" /\ call'[t] = NoCall
          /\ result' \in [Threads -> Results]
          /\ \A u \in Threads : u # t => result'[u] = result[u]
          /\ result'[t].kind = "sync" => result'[t].ret = call[t].ret /\ result'[t].early = FALSE
      BY <1>2, <3>1, LeaveFacts
    <3>3. CallTypes' /\ ListTypes'
      BY <1>3, <2>2, <3>2 DEF CallTypes, ListTypes, Moves
    <3>4. IdPart'
      BY <1>1, <3>2, IdsKeep DEF NoCall
    <3>5. CallPart'
      <4>1. CallOK(t)'
        BY <1>1, <1>2, <3>2 DEF CallOK, NoCall
      <4> QED BY <1>1, <3>2, <4>1, CallsKeep
    <3>6. YieldPart'
      BY <1>1, <3>2, YieldsKeep
    <3>7. SyncMeansGranted'
      BY <1>1, <2>3, <2>5, <3>2 DEF SyncMeansGranted
    <3> QED BY <1>3, <1>4, <2>4, <3>2, <3>3, <3>4, <3>5, <3>6, <3>7
  <2>6. CASE l[1].ack # "SUCCESS"
    <3>1. /\ call' = [call EXCEPT ![t].ret = -1, ![t].subed = FALSE]
          /\ Goto(t, "decide") /\ UNCHANGED result
      BY <2>1, <2>6
    <3>2. /\ pc' \in [Threads -> Steps] /\ pc'[t] = "decide"
          /\ \A u \in Threads : u # t => pc'[u] = pc[u]
      BY <3>1, GotoFacts DEF Steps
    <3>3. /\ call' \in [Threads -> Calls] /\ \A u \in Threads : u # t => call'[u] = call[u]
          /\ call'[t].ret = -1 /\ call'[t].h = call[t].h /\ call'[t].kind = call[t].kind
          /\ call'[t].id = call[t].id /\ ~call'[t].subed
      <4>1. call \in [Threads -> Calls] /\ call[t] \in Calls /\ -1 \in -1 .. MaxIds
        BY SubscribeAssumption DEF CallTypes
      <4> DEFINE c1 == [call[t] EXCEPT !.ret = -1]
                 c2 == [c1 EXCEPT !.subed = FALSE]
      <4>2. /\ c1 \in Calls /\ c1.ret = -1 /\ c1.h = call[t].h /\ c1.kind = call[t].kind
            /\ c1.id = call[t].id
        BY <4>1 DEF Calls
      <4>3. /\ c2 \in Calls /\ c2.ret = -1 /\ c2.h = call[t].h /\ c2.kind = call[t].kind
            /\ c2.id = call[t].id /\ ~c2.subed
        <5> HIDE DEF c1
        <5> QED BY <4>2 DEF Calls
      <4>4. call' = [call EXCEPT ![t] = c2]
        BY <3>1, <4>1
      <4> HIDE DEF c2
      <4> QED BY <4>1, <4>3, <4>4
    <3>4. Moves(t)
      BY <3>2, <3>3 DEF Moves
    <3>5. CallTypes' /\ ListTypes'
      BY <1>3, <2>2, <3>1, <3>2, <3>3 DEF CallTypes, ListTypes
    <3>6. IdPart'
      BY <1>1, <3>2, <3>3, <3>4, IdsKeep
    <3>7. CallPart'
      <4>1. CallOK(t)'
        BY <1>1, <1>2, <3>2, <3>3 DEF CallOK
      <4> QED BY <1>1, <3>4, <4>1, CallsKeep
    <3>8. YieldPart'
      BY <1>1, <3>4, YieldsKeep
    <3>9. SyncMeansGranted'
      BY <1>1, <3>1 DEF SyncMeansGranted
    <3> QED BY <1>3, <1>4, <2>4, <3>4, <3>5, <3>6, <3>7, <3>8, <3>9
  <2> QED BY <2>5, <2>6
<1> QED BY <1>5, <1>6

LEMMA SyncTimeoutKeeps ==
  ASSUME IInv, NEW t \in Threads, SyncTimeout(t)
  PROVE  IInv'
<1> USE DEF IInv
<1> DEFINE l == list_sub_sync_ack
           gone == {n \in ToSet(l) : n.id = call[t].ret}
<1>1. /\ pc[t] = "decide" /\ l' = Without(l, gone) /\ Leave(t, -1, FALSE)
      /\ UNCHANGED <<ypc, walk, within, buf_read, lock_yield, toBroker, toClient, broker, online,
                     packet_id, list_sub_handle, lock_write_buf, in_yield_cb, granted>>
  BY DEF SyncTimeout, yield, net
<1>2. CallOK(t) /\ -1 \in -1 .. MaxIds /\ ypc[t] = "none"
  BY <1>1, SubscribeAssumption, InCall DEF CallPart
<1>3. /\ Moves(t) /\ pc'[t] = "idle" /\ call'[t] = NoCall
      /\ result' \in [Threads -> Results]
      /\ \A u \in Threads : u # t => result'[u] = result[u]
      /\ result'[t].kind = "sync" => result'[t].ret = -1 /\ result'[t].early = FALSE
  BY <1>1, <1>2, LeaveFacts
<1>4. l \in Seq(Acks)
  BY DEF ListTypes
<1>5. l' \in Seq(Acks) /\ \E f : Numbers(f, l', l, gone, Len(l))
  <2> HIDE DEF l, gone
  <2> QED BY <1>1, <1>4, WithoutNumbers
<1>6. PICK f : Numbers(f, l', l, gone, Len(l))
  BY <1>5
<1>7. /\ f \in [1 .. Len(l') -> 1 .. Len(l)] /\ Len(l') \in Nat
      /\ \A i, j \in 1 .. Len(l') : i < j => f[i] < f[j]
      /\ \A i \in 1 .. Len(l') : l'[i] = l[f[i]] /\ l[f[i]] \notin gone
  <2> HIDE DEF l, gone
  <2>1. Len(l') \in Nat
    BY <1>5
  <2> QED BY <1>6, <2>1 DEF Numbers
<1>8. \A i, j \in 1 .. Len(l') : f[i] = f[j] => i = j
  <2> SUFFICES ASSUME NEW i \in 1 .. Len(l'), NEW j \in 1 .. Len(l'), f[i] = f[j] PROVE i = j
    OBVIOUS
  <2> HIDE DEF l, gone
  <2>1. f[i] \in Int /\ f[j] \in Int
    BY <1>7
  <2>2. i < j \/ j < i \/ i = j
    OBVIOUS
  <2> QED BY <1>7, <2>1, <2>2
<1>9. \A i \in 1 .. Len(l') : l'[i] = l[f[i]] /\ l'[i].id # call[t].ret
  <2> SUFFICES ASSUME NEW i \in 1 .. Len(l') PROVE l'[i] = l[f[i]] /\ l'[i].id # call[t].ret
    OBVIOUS
  <2>1. l[f[i]] \in ToSet(l)
    <3> HIDE DEF l, gone
    <3> QED BY <1>4, <1>7 DEF ToSet
  <2>2. l'[i] = l[f[i]] /\ l[f[i]] \notin gone
    BY <1>7
  <2> HIDE DEF l
  <2> QED BY <2>1, <2>2
<1>10. AckPart'
  BY <1>1, <1>3, <1>5, <1>7, <1>8, <1>9, AcksLeft
<1>11. CallTypes' /\ ListTypes' /\ YieldTypes' /\ NetTypes'
  BY <1>1, <1>3, <1>5 DEF CallTypes, ListTypes, YieldTypes, NetTypes, Moves
<1>12. IdPart'
  BY <1>1, <1>3, IdsKeep DEF NoCall
<1>13. CallPart'
  <2>1. CallOK(t)'
    BY <1>1, <1>2, <1>3 DEF CallOK, NoCall
  <2> QED BY <1>1, <1>3, <2>1, CallsKeep
<1>14. YieldPart'
  BY <1>1, <1>2, <1>3, YieldsKeep
<1>15. WalkPart' /\ Distinct'
  BY <1>1, WalksKeep DEF Distinct
<1>16. SyncMeansGranted'
  BY <1>1, <1>3 DEF SyncMeansGranted
<1> QED BY <1>10, <1>11, <1>12, <1>13, <1>14, <1>15, <1>16

-----------------------------------------------------------------------------
(* Yields                                                                  *)

LEMMA GotoYFacts ==
  ASSUME YieldTypes, NEW t \in Threads, NEW step \in YieldSteps, GotoY(t, step)
  PROVE  /\ ypc' \in [Threads -> YieldSteps] /\ ypc'[t] = step
         /\ \A u \in Threads : u # t => ypc'[u] = ypc[u]
  BY DEF YieldTypes, GotoY

(* One walk is replaced.                                                   *)
LEMMA WalkStored ==
  ASSUME YieldTypes, NEW t \in Threads, NEW w \in Walks, walk' = [walk EXCEPT ![t] = w]
  PROVE  /\ walk' \in [Threads -> Walks] /\ walk'[t] = w
         /\ \A u \in Threads : u # t => walk'[u] = walk[u]
  BY DEF YieldTypes

(* A step of t in its yield: the calls stay, and another thread that is    *)
(* handling a packet holds lock_yield.                                     *)
LEMMA YieldStepKeeps ==
  ASSUME IInv, NEW t \in Threads,
         UNCHANGED <<pc, call, result, packet_id, lock_write_buf, list_sub_handle>>,
         granted \subseteq granted', YieldTypes', NetTypes',
         list_sub_sync_ack' \in Seq(Acks), AckPart',
         \A u \in Threads : u # t => /\ ypc'[u] = ypc[u] /\ walk'[u] = walk[u]
                                     /\ within'[u] = within[u]
                                     /\ lock_yield' = u <=> lock_yield = u,
         in_yield_cb => in_yield_cb' \/ lock_yield = t,
         buf_read' = buf_read \/ lock_yield \in {t, NoThread},
         YieldOK(t)', BufferOK(t)', WalkOK(t)'
  PROVE  IInv'
<1> USE DEF IInv
<1>1. CallTypes' /\ ListTypes' /\ Distinct'
  BY DEF CallTypes, ListTypes, Distinct
<1>2. IdPart' /\ CallPart'
  BY DEF IdPart, CallPart, CallOK
<1>3. ASSUME NEW u \in Threads, u # t PROVE YieldOK(u)'
  BY <1>3 DEF YieldPart, YieldOK
<1>b. ASSUME NEW u \in Threads, u # t PROVE BufferOK(u)'
  <2>1. YieldOK(u) /\ BufferOK(u) /\ u # NoThread
    BY SubscribeAssumption DEF YieldPart
  <2>2. CASE lock_yield = u
    <3>1. buf_read' = buf_read /\ ypc'[u] = ypc[u] /\ walk'[u] = walk[u] /\ within'[u] = within[u]
      BY <1>b, <2>1, <2>2
    <3> QED BY <2>1, <3>1 DEF BufferOK
  <2>3. CASE lock_yield # u
    <3>1. ypc'[u] \notin {"handle", "walk", "cb"} /\ within'[u] = "none"
      BY <1>b, <2>1, <2>3 DEF YieldOK
    <3> QED BY <3>1 DEF BufferOK
  <2> QED BY <2>2, <2>3
<1>4. ASSUME NEW u \in Threads, u # t PROVE WalkOK(u)'
  <2>1. WalkOK(u) /\ YieldOK(u) /\ u # NoThread
    BY SubscribeAssumption DEF WalkPart, YieldPart
  <2>2. ypc[u] = "handle" => buf_read' = buf_read
    BY <1>4, <2>1 DEF YieldOK
  <2>3. ypc'[u] = ypc[u] /\ walk'[u] = walk[u] /\ list_sub_handle' = list_sub_handle
    BY <1>4
  <2> QED BY <2>1, <2>2, <2>3 DEF WalkOK, Ahead
<1>5. YieldPart' /\ WalkPart'
  BY <1>3, <1>4, <1>b DEF YieldPart, WalkPart
<1>6. SyncMeansGranted'
  BY DEF SyncMeansGranted
<1> QED BY <1>1, <1>2, <1>5, <1>6

LEMMA AcksStay ==
  ASSUME IInv, UNCHANGED <<list_sub_sync_ack, granted, call>>
  PROVE  list_sub_sync_ack' \in Seq(Acks) /\ AckPart'
  BY DEF IInv, ListTypes, AckPart

(* A step of the network or the broker.                                    *)
LEMMA NetStepKeeps ==
  ASSUME IInv, NetTypes', UNCHANGED <<api, yield, granted>>,
         UNCHANGED <<packet_id, list_sub_handle, list_sub_sync_ack, lock_write_buf, in_yield_cb>>
  PROVE  IInv'
<1> USE DEF IInv, api, yield
<1>1. CallTypes' /\ ListTypes' /\ YieldTypes'
  BY DEF CallTypes, ListTypes, YieldTypes
<1>2. IdPart' /\ CallPart'
  BY DEF IdPart, CallPart, CallOK
<1>3. YieldPart' /\ Distinct'
  BY DEF YieldPart, YieldOK, BufferOK, Distinct
<1>4. AckPart' /\ SyncMeansGranted'
  BY AcksStay DEF SyncMeansGranted
<1>5. WalkPart'
  BY WalksKeep
<1> QED BY <1>1, <1>2, <1>3, <1>4, <1>5

LEMMA NoWalkType == NoWalk \in Walks
  BY DEF NoWalk, Walks

LEMMA YieldBeginKeeps ==
  ASSUME IInv, NEW t \in Threads, YieldBegin(t)
  PROVE  IInv'
<1> USE DEF IInv
<1>1. /\ t \in Yielders /\ ypc[t] = "none" /\ MayLock(t) /\ GotoY(t, "cycle")
      /\ UNCHANGED <<call, result, walk, within, lock_yield, granted, packet_id, list_sub_handle,
                     list_sub_sync_ack, lock_write_buf, in_yield_cb>>
      /\ buf_read' = buf_read \/ buf_read' = NoPkt
  BY DEF YieldBegin, Reconnected
<1>t. \A u \in Threads : YieldOK(u) /\ BufferOK(u)
  BY DEF YieldPart
<1>l. lock_yield \in {t, NoThread}
  BY <1>1, <1>t DEF MayLock, YieldOK
<1>2. /\ ypc' \in [Threads -> YieldSteps] /\ ypc'[t] = "cycle"
      /\ \A u \in Threads : u # t => ypc'[u] = ypc[u]
  BY <1>1, GotoYFacts DEF YieldSteps
<1>3. /\ Moves(t)
      /\ \/ pc[t] = "idle" /\ pc'[t] = "idle" /\ within[t] = "none"
         \/ pc[t] = "yield" /\ pc'[t] = "wait"
  <2>1. call' = call /\ call \in [Threads -> Calls] /\ pc \in [Threads -> Steps]
    BY <1>1 DEF CallTypes
  <2>2. CASE pc[t] = "idle" /\ within[t] = "none" /\ UNCHANGED pc
    <3>1. pc' = pc /\ pc[t] = "idle" /\ within[t] = "none"
      BY <2>2
    <3> QED BY <2>1, <3>1 DEF Moves
  <2>3. CASE pc[t] = "yield" /\ Goto(t, "wait")
    BY <2>1, <2>3, GotoFacts DEF Moves, Steps
  <2> QED BY <2>2, <2>3 DEF YieldBegin
<1>4. NetTypes'
  <2>1. CASE UNCHANGED <<online, net, buf_read>>
    BY <1>1, <2>1 DEF NetTypes, net
  <2>2. CASE Reconnected
    BY <1>1, <2>2 DEF NetTypes, Reconnected
  <2> QED BY <2>1, <2>2 DEF YieldBegin
<1>5. CallTypes' /\ ListTypes' /\ YieldTypes'
  BY <1>1, <1>2, <1>3 DEF CallTypes, ListTypes, YieldTypes, Moves
<1>6. IdPart'
  BY <1>1, <1>3, IdsKeep
<1>7. CallOK(t)
  BY DEF CallPart
<1>8. CallPart'
  <2>1. CallOK(t)'
    BY <1>1, <1>3, <1>7 DEF CallOK
  <2> QED BY <1>1, <1>3, <2>1, CallsKeep
<1>9. AckPart'
  BY <1>1, AcksStay
<1>10. YieldPart'
  <2>2. YieldOK(t)'
    BY <1>1, <1>2, <1>3, <1>t, SubscribeAssumption DEF YieldOK
  <2>3. BufferOK(t)'
    BY <1>1, <1>2, <1>t DEF BufferOK
  <2>4. ASSUME NEW u \in Threads, u # t PROVE YieldOK(u)' /\ BufferOK(u)'
    <3>1. /\ ypc'[u] = ypc[u] /\ within'[u] = within[u] /\ walk'[u] = walk[u] /\ pc'[u] = pc[u]
          /\ lock_yield' = lock_yield /\ in_yield_cb' = in_yield_cb /\ u # NoThread
      BY <1>1, <1>2, <1>3, <2>4, SubscribeAssumption DEF Moves
    <3>2. YieldOK(u)'
      BY <1>t, <3>1 DEF YieldOK
    <3>3. ypc[u] \notin {"handle", "walk", "cb"} /\ within[u] = "none"
      BY <1>l, <1>t, <2>4, <3>1 DEF YieldOK
    <3> QED BY <3>1, <3>2, <3>3 DEF BufferOK
  <2> QED BY <2>2, <2>3, <2>4 DEF YieldPart
<1>11. Distinct' /\ SyncMeansGranted'
  BY <1>1 DEF Distinct, SyncMeansGranted
<1>12. WalkPart'
  <2> SUFFICES ASSUME NEW u \in Threads PROVE WalkOK(u)'
    BY DEF WalkPart
  <2>1. WalkOK(u)
    BY DEF WalkPart
  <2>2. ypc'[u] # "handle"
    <3>1. CASE u = t
      BY <1>2, <3>1
    <3>2. CASE u # t
      BY <1>l, <1>t, <1>2, <3>2, SubscribeAssumption DEF YieldOK
    <3> QED BY <3>1, <3>2
  <2>3. walk' = walk /\ list_sub_handle' = list_sub_handle
    BY <1>1
  <2> QED BY <1>1, <1>2, <2>1, <2>2, <2>3 DEF WalkOK
<1> QED BY <1>4, <1>5, <1>6, <1>8, <1>9, <1>10, <1>11, <1>12

LEMMA WithinStored ==
  ASSUME YieldTypes, NEW t \in Threads, NEW x \in Withins, within' = [within EXCEPT ![t] = x]
  PROVE  /\ within' \in [Threads -> Withins] /\ within'[t] = x
         /\ \A u \in Threads : u # t => within'[u] = within[u]
  BY DEF YieldTypes

LEMMA EventCallbackKeeps ==
  ASSUME IInv, NEW t \in Threads, EventCallback(t)
  PROVE  IInv'
<1> USE DEF IInv
<1>1. /\ t \in Yielders /\ pc[t] = "idle" /\ ypc[t] = "none" /\ lock_yield = NoThread /\ lock_yield' = t
      /\ UNCHANGED <<pc, call, result, packet_id, lock_write_buf, list_sub_handle>>
      /\ UNCHANGED <<ypc, walk, list_sub_sync_ack, in_yield_cb, granted>>
      /\ buf_read' = buf_read \/ buf_read' = NoPkt
  BY DEF EventCallback, Reconnected, api
<1>2. PICK x \in {"disconnect", "reconnect"} : within' = [within EXCEPT ![t] = x]
  BY DEF EventCallback
<1>3. /\ within' \in [Threads -> Withins] /\ within'[t] = x
      /\ \A u \in Threads : u # t => within'[u] = within[u]
  BY <1>2, WithinStored DEF Withins
<1>4. NetTypes'
  <2>1. CASE UNCHANGED <<online, net, buf_read>>
    BY <1>1, <2>1 DEF NetTypes, net
  <2>2. CASE Reconnected
    BY <1>1, <2>2 DEF NetTypes, Reconnected
  <2> QED BY <2>1, <2>2 DEF EventCallback
<1>5. YieldTypes'
  BY <1>1, <1>3 DEF YieldTypes
<1>6. YieldOK(t)'
  BY <1>1, <1>3 DEF YieldPart, YieldOK
<1>7. BufferOK(t)'
  BY <1>1, <1>2, <1>3 DEF BufferOK
<1>8. WalkOK(t)'
  BY <1>1 DEF WalkPart, WalkOK, Ahead
<1>9. \A u \in Threads : u # t => (lock_yield' = u <=> lock_yield = u)
  BY <1>1, SubscribeAssumption
<1> QED BY <1>1, <1>3, <1>4, <1>5, <1>6, <1>7, <1>8, <1>9, AcksStay, YieldStepKeeps

LEMMA EventReturnsKeeps ==
  ASSUME IInv, NEW t \in Threads, EventReturns(t)
  PROVE  IInv'
<1> USE DEF IInv
<1>1. /\ within[t] \in {"disconnect", "reconnect"} /\ pc[t] = "idle" /\ ypc[t] = "none"
      /\ online' = (online /\ within[t] = "reconnect")
      /\ within' = [within EXCEPT ![t] = "none"] /\ lock_yield' = NoThread /\ GotoY(t, "cycle")
      /\ UNCHANGED <<pc, call, result, packet_id, lock_write_buf, list_sub_handle>>
      /\ UNCHANGED <<walk, buf_read, toBroker, toClient, broker, list_sub_sync_ack, in_yield_cb, granted>>
  BY DEF EventReturns, api, net
<1>2. /\ within' \in [Threads -> Withins] /\ within'[t] = "none"
      /\ \A u \in Threads : u # t => within'[u] = within[u]
  BY <1>1, WithinStored DEF Withins
<1>3. /\ ypc' \in [Threads -> YieldSteps] /\ ypc'[t] = "cycle"
      /\ \A u \in Threads : u # t => ypc'[u] = ypc[u]
  BY <1>1, GotoYFacts DEF YieldSteps
<1>4. YieldTypes'
  BY <1>1, <1>2, <1>3 DEF YieldTypes
<1>n. NetTypes'
  <2>1. online' \in BOOLEAN
    BY <1>1
  <2> QED BY <1>1, <2>1 DEF NetTypes
<1>5. lock_yield = t /\ t \in Yielders /\ t # NoThread
  BY <1>1, SubscribeAssumption DEF YieldPart, YieldOK
<1>6. YieldOK(t)'
  BY <1>1, <1>2, <1>3, <1>5 DEF YieldOK
<1>7. BufferOK(t)'
  BY <1>2, <1>3 DEF BufferOK
<1>8. WalkOK(t)'
  BY <1>1, <1>3 DEF WalkPart, WalkOK, Ahead
<1>9. \A u \in Threads : u # t => (lock_yield' = u <=> lock_yield = u)
  BY <1>1, <1>5, SubscribeAssumption
<1> QED BY <1>1, <1>2, <1>3, <1>4, <1>n, <1>5, <1>6, <1>7, <1>8, <1>9, AcksStay, YieldStepKeeps

LEMMA ReadPacketKeeps ==
  ASSUME IInv, NEW t \in Threads, ReadPacket(t)
  PROVE  IInv'
<1> USE DEF IInv
<1> DEFINE p == Head(toClient)
           w == [NoWalk EXCEPT !.type = p.type]
<1>1. /\ ypc[t] = "cycle" /\ MayLock(t) /\ toClient # <<>>
      /\ lock_yield' = t /\ buf_read' = p /\ toClient' = Tail(toClient)
      /\ walk' = [walk EXCEPT ![t] = w] /\ GotoY(t, "handle")
      /\ UNCHANGED <<pc, call, result, packet_id, lock_write_buf, list_sub_handle>>
      /\ UNCHANGED <<within, toBroker, broker, online, list_sub_sync_ack, in_yield_cb, granted>>
  BY DEF ReadPacket, api, client
<1>l. lock_yield \in {t, NoThread} /\ YieldOK(t) /\ t # NoThread
  BY <1>1, SubscribeAssumption DEF MayLock, YieldPart, YieldOK
<1>2. p \in Packets /\ toClient' \in Seq(Packets)
  BY <1>1, TailFacts DEF NetTypes
<1>3. p.type \in {"SUBACK", "UNSUBACK", "PUBLISH"}
  BY <1>2 DEF Packets
<1>4. /\ w \in Walks /\ w.type = p.type /\ w.at = NoHandler /\ ~w.freed
      /\ w.due = {} /\ w.called = {}
  <2>1. /\ NoWalk \in Walks /\ NoWalk.at = NoHandler /\ ~NoWalk.freed
        /\ NoWalk.due = {} /\ NoWalk.called = {}
    BY NoWalkType DEF NoWalk
  <2> HIDE DEF p, NoWalk
  <2> QED BY <1>3, <2>1 DEF Walks
<1> HIDE DEF w, p
<1>5. /\ walk' \in [Threads -> Walks] /\ walk'[t] = w
      /\ \A u \in Threads : u # t => walk'[u] = walk[u]
  BY <1>1, <1>4, WalkStored
<1>6. /\ ypc' \in [Threads -> YieldSteps] /\ ypc'[t] = "handle"
      /\ \A u \in Threads : u # t => ypc'[u] = ypc[u]
  BY <1>1, GotoYFacts DEF YieldSteps
<1>7. YieldTypes' /\ NetTypes'
  BY <1>1, <1>2, <1>5, <1>6 DEF YieldTypes, NetTypes
<1>8. YieldOK(t)' /\ BufferOK(t)'
  BY <1>1, <1>2, <1>6, <1>l DEF YieldOK, BufferOK
<1>9. WalkOK(t)'
  BY <1>1, <1>3, <1>4, <1>5, <1>6 DEF WalkOK
<1>10. \A u \in Threads : u # t => (lock_yield' = u <=> lock_yield = u)
  BY <1>1, <1>l, SubscribeAssumption
<1> QED
  BY <1>1, <1>l, <1>5, <1>6, <1>7, <1>8, <1>9, <1>10, AcksStay, YieldStepKeeps

LEMMA ReadFailsKeeps ==
  ASSUME IInv, NEW t \in Threads, ReadFails(t)
  PROVE  IInv'
<1> USE DEF IInv
<1>1. /\ ypc[t] = "cycle" /\ MayLock(t) /\ buf_read' = NoPkt /\ online' = FALSE
      /\ UNCHANGED <<pc, call, result, packet_id, lock_write_buf, list_sub_handle>>
      /\ UNCHANGED <<ypc, walk, within, lock_yield, toBroker, toClient, broker, list_sub_sync_ack,
                     in_yield_cb, granted>>
  BY DEF ReadFails, api
<1>2. YieldTypes' /\ NetTypes'
  BY <1>1 DEF YieldTypes, NetTypes
<1>3. lock_yield \in {t, NoThread} /\ YieldOK(t)
  BY <1>1 DEF MayLock, YieldPart, YieldOK
<1>4. YieldOK(t)' /\ BufferOK(t)'
  BY <1>1, <1>3 DEF YieldOK, BufferOK
<1>5. WalkOK(t)'
  BY <1>1 DEF WalkPart, WalkOK, Ahead
<1> QED BY <1>1, <1>2, <1>3, <1>4, <1>5, AcksStay, YieldStepKeeps

LEMMA YieldEndKeeps ==
  ASSUME IInv, NEW t \in Threads, YieldEnd(t)
  PROVE  IInv'
<1> USE DEF IInv
<1>1. /\ ypc[t] = "cycle" /\ MayLock(t) /\ GotoY(t, "none")
      /\ walk' = [walk EXCEPT ![t] = NoWalk]
      /\ UNCHANGED <<pc, call, result, packet_id, lock_write_buf, list_sub_handle>>
      /\ UNCHANGED <<toBroker, toClient, broker, online, list_sub_sync_ack, in_yield_cb, granted,
                     within, lock_yield>>
      /\ buf_read' = buf_read \/ buf_read' = NoPkt
  BY DEF YieldEnd, api, client, net
<1>l. lock_yield \in {t, NoThread} /\ YieldOK(t) /\ BufferOK(t)
  BY <1>1 DEF MayLock, YieldPart, YieldOK
<1>2. /\ walk' \in [Threads -> Walks] /\ walk'[t] = NoWalk
      /\ \A u \in Threads : u # t => walk'[u] = walk[u]
  <2> HIDE DEF NoWalk
  <2> QED BY <1>1, NoWalkType, WalkStored
<1>3. /\ ypc' \in [Threads -> YieldSteps] /\ ypc'[t] = "none"
      /\ \A u \in Threads : u # t => ypc'[u] = ypc[u]
  BY <1>1, GotoYFacts DEF YieldSteps
<1>4. YieldTypes' /\ NetTypes'
  BY <1>1, <1>2, <1>3 DEF YieldTypes, NetTypes
<1>5. YieldOK(t)'
  BY <1>1, <1>3, <1>l DEF YieldOK
<1>6. WalkOK(t)'
  BY <1>1, <1>2, <1>3 DEF WalkOK, NoWalk
<1>7. BufferOK(t)'
  BY <1>1, <1>3, <1>l DEF BufferOK
<1> QED BY <1>1, <1>l, <1>2, <1>3, <1>4, <1>5, <1>6, <1>7, AcksStay, YieldStepKeeps

(* A thread that handles a packet holds lock_yield, and the packet is in   *)
(* the buffer.                                                             *)
LEMMA Handling ==
  ASSUME IInv, NEW t \in Threads, ypc[t] \in {"handle", "walk", "cb"}
  PROVE  /\ lock_yield = t /\ t # NoThread /\ t \in Yielders
         /\ ypc[t] = "handle" => buf_read \in Packets
         /\ ypc[t] # "cb" => pc[t] \in {"idle", "wait"}
         /\ within[t] # "none" => pc[t] = "wait"
         /\ BufferOK(t)
  BY SubscribeAssumption DEF IInv, YieldPart, YieldOK, BufferOK

(* A callback for a SUBACK or an UNSUBACK begins.                          *)
LEMMA AckCallback ==
  ASSUME IInv, NEW t \in Threads, ypc[t] = "handle", EnterCallback(t),
         buf_read.type \in {"SUBACK", "UNSUBACK"},
         granted \subseteq granted', granted' \subseteq 1 .. MaxIds,
         list_sub_sync_ack' \in Seq(Acks), AckPart',
         UNCHANGED <<api, walk, within, buf_read, lock_yield, net, online, packet_id, list_sub_handle,
                     lock_write_buf>>
  PROVE  IInv'
<1> USE DEF IInv
<1>1. /\ in_yield_cb' = TRUE /\ GotoY(t, "cb")
      /\ UNCHANGED <<pc, call, result, packet_id, lock_write_buf, list_sub_handle>>
      /\ UNCHANGED <<toBroker, toClient, broker, online, walk, within, buf_read, lock_yield>>
  BY DEF EnterCallback, api, net
<1>2. /\ ypc' \in [Threads -> YieldSteps] /\ ypc'[t] = "cb"
      /\ \A u \in Threads : u # t => ypc'[u] = ypc[u]
  BY <1>1, GotoYFacts DEF YieldSteps
<1>3. YieldTypes' /\ NetTypes'
  BY <1>1, <1>2 DEF YieldTypes, NetTypes
<1>4. YieldOK(t)'
  BY <1>1, <1>2, Handling DEF YieldOK
<1>5. WalkOK(t)
  BY DEF WalkPart
<1>6. WalkOK(t)'
  BY <1>1, <1>2, <1>5 DEF WalkOK
<1>7. BufferOK(t)'
  <2>1. walk'[t].type # "PUBLISH"
    BY <1>1, <1>5 DEF WalkOK
  <2> QED BY <1>2, <2>1 DEF BufferOK
<1> QED BY <1>1, <1>2, <1>3, <1>4, <1>6, <1>7, YieldStepKeeps

LEMMA RecvSubackKeeps ==
  ASSUME IInv, NEW t \in Threads, iotx_mc_handle_recv_SUBACK(t)
  PROVE  IInv'
<1> USE DEF IInv
<1> DEFINE l == list_sub_sync_ack
           a == IF buf_read.ok THEN "SUCCESS" ELSE "NACK"
           mark(i) == IF l[i].id = buf_read.id THEN [l[i] EXCEPT !.ack = a] ELSE l[i]
<1>1. /\ ypc[t] = "handle" /\ buf_read.type = "SUBACK" /\ EnterCallback(t)
      /\ l' = [i \in DOMAIN l |-> mark(i)]
      /\ granted' = IF buf_read.ok THEN granted \cup {buf_read.id} ELSE granted
      /\ UNCHANGED <<api, walk, within, buf_read, lock_yield, net, online, packet_id, list_sub_handle,
                     lock_write_buf>>
  BY DEF iotx_mc_handle_recv_SUBACK, TakesUp, MarkAcks
<1>2. buf_read.id \in 1 .. MaxIds /\ buf_read.ok \in BOOLEAN
  <2>1. buf_read \in Packets
    BY <1>1, Handling
  <2> QED BY <1>1, <2>1 DEF Packets
<1>3. granted \subseteq granted' /\ granted' \subseteq 1 .. MaxIds
  BY <1>1, <1>2 DEF NetTypes
<1>4. l \in Seq(Acks) /\ DOMAIN l = 1 .. Len(l) /\ Len(l) \in Nat
  BY DEF ListTypes
<1>5. \A i \in 1 .. Len(l) : mark(i) \in Acks /\ mark(i).id = l[i].id
                             /\ (mark(i).ack = l[i].ack \/ (mark(i).ack = a /\ l[i].id = buf_read.id))
  <2> SUFFICES ASSUME NEW i \in 1 .. Len(l)
               PROVE  /\ mark(i) \in Acks /\ mark(i).id = l[i].id
                      /\ (mark(i).ack = l[i].ack \/ (mark(i).ack = a /\ l[i].id = buf_read.id))
    OBVIOUS
  <2>1. l[i] \in Acks
    BY <1>4
  <2>2. a \in {"UNDEF", "SUCCESS", "NACK"}
    OBVIOUS
  <2> HIDE DEF a, l
  <2> QED BY <2>1, <2>2 DEF Acks
<1> HIDE DEF mark
<1>6. /\ l' \in Seq(Acks) /\ Len(l') = Len(l)
      /\ \A i \in 1 .. Len(l) : l'[i] = mark(i)
  <2> HIDE DEF l
  <2> QED BY <1>1, <1>4, <1>5
<1>7. AckPart'
  <2>1. call' = call
    BY <1>1 DEF api
  <2>2. /\ \A i \in 1 .. Len(l) : \E u \in Threads : call[u].subed /\ call[u].ret = l[i].id
        /\ \A i, j \in 1 .. Len(l) : l[i].id = l[j].id => i = j
        /\ \A i \in 1 .. Len(l) : l[i].ack = "SUCCESS" => l[i].id \in granted
    BY DEF AckPart
  <2>3. \A i \in 1 .. Len(l') : l'[i].id = l[i].id /\ i \in 1 .. Len(l)
    <3> HIDE DEF l, a
    <3> QED BY <1>5, <1>6
  <2>4. ASSUME NEW i \in 1 .. Len(l'), l'[i].ack = "SUCCESS"
        PROVE  l'[i].id \in granted'
    <3>1. CASE l'[i].ack = l[i].ack
      BY <1>3, <2>2, <2>3, <2>4, <3>1
    <3>2. CASE l'[i].ack = a /\ l[i].id = buf_read.id
      BY <1>1, <2>3, <2>4, <3>2
    <3> QED BY <1>5, <1>6, <2>3, <3>1, <3>2
  <2> HIDE DEF l
  <2>5. \A i, j \in 1 .. Len(l') : l'[i].id = l'[j].id => i = j
    BY <2>2, <2>3
  <2>6. \A i \in 1 .. Len(l') : \E u \in Threads : call'[u].subed /\ call'[u].ret = l'[i].id
    BY <2>1, <2>2, <2>3
  <2> QED BY <2>4, <2>5, <2>6 DEF AckPart, l
<1>8. buf_read.type \in {"SUBACK", "UNSUBACK"}
  BY <1>1
<1> QED BY <1>1, <1>3, <1>6, <1>7, <1>8, AckCallback

LEMMA RecvUnsubackKeeps ==
  ASSUME IInv, NEW t \in Threads, iotx_mc_handle_recv_UNSUBACK(t)
  PROVE  IInv'
<1>1. /\ ypc[t] = "handle" /\ buf_read.type \in {"SUBACK", "UNSUBACK"} /\ EnterCallback(t)
      /\ UNCHANGED <<granted, list_sub_sync_ack>>
      /\ UNCHANGED <<api, walk, within, buf_read, lock_yield, net, online, packet_id, list_sub_handle,
                     lock_write_buf>>
  BY DEF iotx_mc_handle_recv_UNSUBACK, TakesUp
<1>2. granted' \subseteq 1 .. MaxIds /\ granted \subseteq granted'
  BY <1>1 DEF IInv, NetTypes
<1>3. list_sub_sync_ack' \in Seq(Acks) /\ AckPart'
  BY <1>1, AcksStay DEF api
<1> QED BY <1>1, <1>2, <1>3, AckCallback

(* A walk begins: every handler that matches and is in the list is due.    *)
LEMMA WalkBeginsKeeps ==
  ASSUME IInv, NEW t \in Threads, NEW f \in Filters, NEW type \in {"PUBLISH", "garbled"},
         BeginWalk(t, type, f), GotoY(t, "walk"), lock_yield = t, t \in Yielders, pc[t] \in {"idle", "wait"},
         type = "PUBLISH" => buf_read = [type |-> "PUBLISH", f |-> f],
         within' \in [Threads -> Withins], within'[t] # "none" => pc[t] = "wait",
         \A u \in Threads : u # t => within'[u] = within[u],
         UNCHANGED <<api, buf_read, lock_yield, net, client, granted>>
  PROVE  IInv'
<1> USE DEF IInv
<1> DEFINE l == list_sub_handle
           due == {h \in ToSet(l) : type = "PUBLISH" /\ FilterOf[h] \in Matches[f]}
           w1 == [NoWalk EXCEPT !.type = type]
           w2 == [w1 EXCEPT !.f = f]
           w == [w2 EXCEPT !.due = due]
<1>1. /\ UNCHANGED <<pc, call, result, packet_id, lock_write_buf, list_sub_handle>>
      /\ UNCHANGED <<toBroker, toClient, broker, online, list_sub_sync_ack, in_yield_cb, granted,
                     buf_read, lock_yield>>
  BY DEF api, net, client
<1>3. l \in Seq(Handlers) /\ DOMAIN l = 1 .. Len(l)
  BY DEF ListTypes
<1>4. /\ due \subseteq Handlers
      /\ \A h \in due : FilterOf[h] \in Matches[f] /\ \E i \in 1 .. Len(l) : l[i] = h
  <2> HIDE DEF l
  <2> QED BY <1>3 DEF ToSet
<1>5. walk' = [walk EXCEPT ![t] = w]
  BY DEF BeginWalk
<1>6. /\ NoWalk \in Walks /\ NoWalk.at = NoHandler /\ NoWalk.freed = FALSE /\ NoWalk.called = {}
  BY NoWalkType DEF NoWalk
<1> HIDE DEF due, NoWalk
<1>7. w1 \in Walks /\ w1.type = type /\ w1.at = NoHandler /\ ~w1.freed /\ w1.called = {}
  BY <1>6 DEF Walks
<1>c. w2 \in Walks /\ w2.type = type /\ w2.f = f /\ w2.at = NoHandler /\ ~w2.freed /\ w2.called = {}
  <2> HIDE DEF w1
  <2> QED BY <1>7 DEF Walks
<1>8. /\ w \in Walks /\ w.type = type /\ w.f = f /\ w.at = NoHandler /\ ~w.freed /\ w.called = {}
      /\ w.due = due
  <2> HIDE DEF w2
  <2> QED BY <1>4, <1>c DEF Walks
<1> HIDE DEF w
<1>9. /\ walk' \in [Threads -> Walks] /\ walk'[t] = w
      /\ \A u \in Threads : u # t => walk'[u] = walk[u]
  BY <1>5, <1>8, WalkStored
<1>10. /\ ypc' \in [Threads -> YieldSteps] /\ ypc'[t] = "walk"
       /\ \A u \in Threads : u # t => ypc'[u] = ypc[u]
  BY GotoYFacts DEF YieldSteps
<1>11. YieldTypes' /\ NetTypes'
  BY <1>1, <1>9, <1>10 DEF YieldTypes, NetTypes
<1>12. YieldOK(t)'
  BY <1>1, <1>10 DEF YieldOK
<1>13. BufferOK(t)'
  BY <1>1, <1>8, <1>9, <1>10 DEF BufferOK
<1>14. WalkOK(t)'
  <2>1. \A h \in due : FilterOf[h] \in Matches[w.f] /\ Ahead(l, NoHandler, h)
    BY <1>4, <1>8 DEF Ahead
  <2> QED BY <1>1, <1>8, <1>9, <1>10, <2>1 DEF WalkOK
<1> QED BY <1>1, <1>9, <1>10, <1>11, <1>12, <1>13, <1>14, AcksStay, YieldStepKeeps

LEMMA PublishPacket ==
  ASSUME NEW p \in Packets, p.type = "PUBLISH"
  PROVE  p.f \in Filters /\ p = [type |-> "PUBLISH", f |-> p.f]
  BY DEF Packets

LEMMA RecvPublishKeeps ==
  ASSUME IInv, NEW t \in Threads, iotx_mc_handle_recv_PUBLISH(t)
  PROVE  IInv'
<1>1. /\ ypc[t] = "handle" /\ buf_read.type = "PUBLISH" /\ GotoY(t, "walk")
      /\ BeginWalk(t, "PUBLISH", buf_read.f)
      /\ UNCHANGED <<api, within, buf_read, lock_yield, net, client, granted>>
  BY DEF iotx_mc_handle_recv_PUBLISH, TakesUp
<1>2. /\ lock_yield = t /\ t \in Yielders /\ buf_read \in Packets /\ pc[t] \in {"idle", "wait"}
      /\ within[t] # "none" => pc[t] = "wait"
  BY <1>1, Handling
<1>3. buf_read.f \in Filters /\ buf_read = [type |-> "PUBLISH", f |-> buf_read.f]
  BY <1>1, <1>2, PublishPacket
<1>4. within' \in [Threads -> Withins] /\ within' = within
  BY <1>1 DEF IInv, YieldTypes
<1> QED BY <1>1, <1>2, <1>3, <1>4, WalkBeginsKeeps

LEMMA IdentityReturnsKeeps ==
  ASSUME IInv, NEW t \in Threads, IdentityReturns(t)
  PROVE  IInv'
<1>1. /\ within[t] = "identity" /\ pc[t] = "idle" /\ ypc[t] = "none" /\ GotoY(t, "walk")
      /\ within' = [within EXCEPT ![t] = "none"]
      /\ UNCHANGED <<api, buf_read, lock_yield, net, client, granted>>
  BY DEF IdentityReturns
<1>2. lock_yield = t /\ t \in Yielders /\ BufferOK(t)
  BY <1>1 DEF IInv, YieldPart, YieldOK
<1>3. /\ within' \in [Threads -> Withins] /\ within'[t] = "none"
      /\ \A u \in Threads : u # t => within'[u] = within[u]
  BY <1>1, WithinStored DEF IInv, Withins
<1>4. CASE buf_read # NoPkt
  <2>1. buf_read \in Packets /\ buf_read.type = "PUBLISH"
    BY <1>1, <1>2, <1>4 DEF BufferOK
  <2>2. buf_read.f \in Filters /\ buf_read = [type |-> "PUBLISH", f |-> buf_read.f]
    BY <2>1, PublishPacket
  <2>3. BeginWalk(t, "PUBLISH", buf_read.f)
    BY <1>4 DEF IdentityReturns
  <2> QED BY <1>1, <1>2, <1>3, <2>2, <2>3, WalkBeginsKeeps
<1>5. CASE buf_read = NoPkt
  <2>1. PICK f \in Filters : BeginWalk(t, "garbled", f)
    BY <1>5 DEF IdentityReturns
  <2> QED BY <1>1, <1>2, <1>3, <2>1, WalkBeginsKeeps
<1> QED BY <1>4, <1>5

LEMMA IdentityKeeps ==
  ASSUME IInv, NEW t \in Threads, iotx_mc_parse_identity_response(t)
  PROVE  IInv'
<1> USE DEF IInv
<1>1. /\ ypc[t] = "handle" /\ buf_read.type = "PUBLISH" /\ pc[t] = "idle" /\ GotoY(t, "none")
      /\ within' = [within EXCEPT ![t] = "identity"] /\ walk' = [walk EXCEPT ![t] = NoWalk]
      /\ UNCHANGED <<pc, call, result, packet_id, lock_write_buf, list_sub_handle>>
      /\ UNCHANGED <<toBroker, toClient, broker, online, list_sub_sync_ack, in_yield_cb, granted,
                     buf_read, lock_yield>>
  BY DEF iotx_mc_parse_identity_response, TakesUp, api, client, net
<1>2. lock_yield = t /\ t \in Yielders /\ buf_read \in Packets
  BY <1>1, Handling
<1>3. /\ within' \in [Threads -> Withins] /\ within'[t] = "identity"
      /\ \A u \in Threads : u # t => within'[u] = within[u]
  BY <1>1, WithinStored DEF Withins
<1>4. /\ walk' \in [Threads -> Walks] /\ walk'[t] = NoWalk
      /\ \A u \in Threads : u # t => walk'[u] = walk[u]
  <2> HIDE DEF NoWalk
  <2> QED BY <1>1, NoWalkType, WalkStored
<1>5. /\ ypc' \in [Threads -> YieldSteps] /\ ypc'[t] = "none"
      /\ \A u \in Threads : u # t => ypc'[u] = ypc[u]
  BY <1>1, GotoYFacts DEF YieldSteps
<1>6. YieldTypes' /\ NetTypes'
  BY <1>1, <1>3, <1>4, <1>5 DEF YieldTypes, NetTypes
<1>7. YieldOK(t)' /\ BufferOK(t)'
  BY <1>1, <1>2, <1>3, <1>5 DEF YieldOK, BufferOK
<1>8. WalkOK(t)'
  BY <1>1, <1>4, <1>5 DEF WalkOK, NoWalk
<1> QED BY <1>1, <1>2, <1>3, <1>4, <1>5, <1>6, <1>7, <1>8, AcksStay, YieldStepKeeps

(* From where the walk goes on, everything that is due is still ahead.     *)
LEMMA DueIsAhead ==
  ASSUME IInv, NEW t \in Threads, ypc[t] = "walk", NEW i \in Resume(t), ~walk[t].freed,
         NEW h \in walk[t].due \ walk[t].called
  PROVE  \E k \in MatchesFrom(t, i) : list_sub_handle[k] = h
<1> USE DEF IInv
<1> DEFINE l == list_sub_handle
           at == walk[t].at
<1>1. /\ FilterOf[h] \in Matches[walk[t].f] /\ Ahead(l, at, h)
      /\ at # NoHandler => \E j \in 1 .. Len(l) : l[j] = at
  BY DEF WalkPart, WalkOK
<1>2. l \in Seq(Handlers) /\ DOMAIN l = 1 .. Len(l) /\ Len(l) \in Nat
  BY DEF ListTypes
<1>3. PICK k \in 1 .. Len(l) :
        l[k] = h /\ (at # NoHandler => \E j \in 1 .. Len(l) : l[j] = at /\ j < k)
  BY <1>1 DEF Ahead
<1>4. i \in Nat /\ i <= k
  <2>1. CASE at = NoHandler
    <3>1. Resume(t) = {1}
      BY <2>1, Zenon DEF Resume
    <3> QED BY <2>1, <3>1
  <2>2. CASE at # NoHandler
    <3>1. Resume(t) = {Position(at) + 1}
      BY <2>2, Zenon DEF Resume
    <3>2. PICK j \in 1 .. Len(l) : l[j] = at /\ j < k
      BY <1>3, <2>2
    <3>3. Position(at) \in 1 .. Len(l) /\ l[Position(at)] = at
      <4>1. \E m \in DOMAIN l : l[m] = at
        BY <1>2, <3>2
      <4>2. Position(at) \in DOMAIN l /\ l[Position(at)] = at
        BY <4>1, Zenon DEF Position
      <4> QED BY <1>2, <4>2
    <3>4. Position(at) = j
      BY <3>2, <3>3 DEF Distinct
    <3> QED BY <3>1, <3>2, <3>4
  <2> QED BY <2>1, <2>2
<1>5. k \in i .. Len(l)
  BY <1>4
<1>6. k \in MatchesFrom(t, i)
  BY <1>1, <1>3, <1>5 DEF MatchesFrom
<1> QED BY <1>3, <1>6

LEMMA ResumeType ==
  ASSUME IInv, NEW t \in Threads, ypc[t] = "walk", NEW i \in Resume(t)
  PROVE  i \in Nat \ {0}
<1> USE DEF IInv
<1> DEFINE l == list_sub_handle
           at == walk[t].at
<1>1. l \in Seq(Handlers) /\ DOMAIN l = 1 .. Len(l) /\ Len(l) \in Nat
  BY DEF ListTypes
<1>2. CASE at = NoHandler
  <2>1. Resume(t) = {1}
    BY <1>2, Zenon DEF Resume
  <2> QED BY <2>1
<1>3. CASE at # NoHandler /\ walk[t].freed
  <2>1. Resume(t) = 1 .. Len(l) + 1
    BY <1>3, Zenon DEF Resume
  <2> QED BY <1>1, <2>1
<1>4. CASE at # NoHandler /\ ~walk[t].freed
  <2>1. Resume(t) = {Position(at) + 1}
    BY <1>4, Zenon DEF Resume
  <2>2. \E m \in DOMAIN l : l[m] = at
    BY <1>1, <1>4 DEF WalkPart, WalkOK
  <2>3. Position(at) \in DOMAIN l
    BY <2>2, Zenon DEF Position
  <2> QED BY <1>1, <2>1, <2>3
<1> QED BY <1>2, <1>3, <1>4

(* Min of a set of positions is its least element.                         *)
LEMMA MinIsLeast ==
  ASSUME NEW T \in SUBSET Nat, T # {}
  PROVE  Min(T) \in T /\ \A k \in T : Min(T) <= k
<1>1. \E m \in T : \A k \in T : m <= k
  BY LeastElement
<1> QED BY <1>1 DEF Min

(* The walk goes on to the next handler: what is due and not yet called is *)
(* behind it.  At the end of the list nothing is due any more.             *)
LEMMA DeliverKeeps ==
  ASSUME IInv, NEW t \in Threads, iotx_mc_deliver_message(t)
  PROVE  IInv'
<1> USE DEF IInv
<1> DEFINE l == list_sub_handle
           due == IF walk[t].freed THEN {} ELSE walk[t].due
<1>1. /\ ypc[t] = "walk"
      /\ UNCHANGED <<pc, call, result, packet_id, lock_write_buf, list_sub_handle>>
      /\ UNCHANGED <<within, toBroker, toClient, broker, online, list_sub_sync_ack, granted>>
  BY DEF iotx_mc_deliver_message, api, net
<1>2. PICK i \in Resume(t) :
        \/ /\ MatchesFrom(t, i) # {}
           /\ walk' = [walk EXCEPT ![t].at = l[Min(MatchesFrom(t, i))], ![t].freed = FALSE,
                                   ![t].due = due,
                                   ![t].called = @ \cup {l[Min(MatchesFrom(t, i))]}]
           /\ EnterCallback(t) /\ UNCHANGED <<buf_read, lock_yield>>
        \/ /\ MatchesFrom(t, i) = {} /\ walk[t].called = {}
           /\ walk' = [walk EXCEPT ![t].type = "default"]
           /\ EnterCallback(t) /\ UNCHANGED <<buf_read, lock_yield>>
        \/ /\ MatchesFrom(t, i) = {} /\ walk[t].called # {}
           /\ walk' = [walk EXCEPT ![t].at = NoHandler, ![t].freed = FALSE, ![t].due = due]
           /\ buf_read' = NoPkt /\ lock_yield' = Released(t)
           /\ GotoY(t, "cycle") /\ UNCHANGED in_yield_cb
  BY ZenonT(60) DEF iotx_mc_deliver_message
<1> DEFINE here == MatchesFrom(t, i)
<1>3. i \in Nat \ {0}
  BY <1>1, ResumeType
<1>4. walk \in [Threads -> Walks] /\ walk[t] \in Walks
  BY DEF YieldTypes
<1>5. /\ WalkOK(t) /\ walk[t].type \in {"PUBLISH", "garbled"} /\ due \subseteq Handlers /\ walk[t].freed \in BOOLEAN
      /\ walk[t].called \subseteq Handlers
  BY <1>1, <1>4 DEF WalkPart, WalkOK, Walks
<1>6. l \in Seq(Handlers) /\ Len(l) \in Nat
  BY DEF ListTypes
<1>7. \A h \in due \ walk[t].called : FilterOf[h] \in Matches[walk[t].f] /\ \E k \in here : l[k] = h
  <2> SUFFICES ASSUME NEW h \in due \ walk[t].called
               PROVE  FilterOf[h] \in Matches[walk[t].f] /\ \E k \in here : l[k] = h
    OBVIOUS
  <2>1. ~walk[t].freed /\ h \in walk[t].due \ walk[t].called
    OBVIOUS
  <2>2. FilterOf[h] \in Matches[walk[t].f]
    BY <1>1, <1>5, <2>1 DEF WalkOK
  <2> QED BY <1>1, <2>1, <2>2, DueIsAhead
<1>8. here \subseteq 1 .. Len(l) /\ here \in SUBSET Nat
  <2>1. here = {j \in i .. Len(l) : FilterOf[l[j]] \in Matches[walk[t].f]}
    BY DEF MatchesFrom
  <2> HIDE DEF here, l
  <2> QED BY <1>3, <1>6, <2>1
<1>9. /\ lock_yield = t /\ t # NoThread /\ t \in Yielders
      /\ pc[t] \in {"idle", "wait"} /\ (within[t] # "none" => pc[t] = "wait") /\ BufferOK(t)
  BY <1>1, Handling
<1>10. CASE here # {} /\ EnterCallback(t) /\ UNCHANGED <<buf_read, lock_yield>>
            /\ walk' = [walk EXCEPT ![t].at = l[Min(here)], ![t].freed = FALSE, ![t].due = due,
                                    ![t].called = @ \cup {l[Min(here)]}]
  <2> DEFINE h == l[Min(here)]
             w1 == [walk[t] EXCEPT !.at = h]
             w2 == [w1 EXCEPT !.freed = FALSE]
             w3 == [w2 EXCEPT !.due = due]
             w  == [w3 EXCEPT !.called = walk[t].called \cup {h}]
  <2>1. Min(here) \in here /\ \A k \in here : Min(here) <= k
    <3> HIDE DEF here
    <3> QED BY <1>8, <1>10, MinIsLeast
  <2>2. h \in Handlers /\ h # NoHandler
    <3> HIDE DEF here, l
    <3>1. Min(here) \in 1 .. Len(l)
      BY <1>8, <2>1
    <3>2. h \in Handlers
      BY <1>6, <3>1
    <3> QED BY <3>2, SubscribeAssumption
  <2>3. walk' = [walk EXCEPT ![t] = w]
    <3> HIDE DEF here, l, h, due
    <3> QED BY <1>4, <1>10 DEF h, Walks
  <2> HIDE DEF h, due
  <2>4. /\ w1 \in Walks /\ w1.type = walk[t].type /\ w1.f = walk[t].f /\ w1.at = h
        /\ w1.called = walk[t].called
    BY <1>4, <2>2 DEF Walks
  <2>5. /\ w2 \in Walks /\ w2.type = walk[t].type /\ w2.f = walk[t].f /\ w2.at = h
        /\ w2.called = walk[t].called /\ ~w2.freed
    <3> HIDE DEF w1
    <3> QED BY <2>4 DEF Walks
  <2>6. /\ w3 \in Walks /\ w3.type = walk[t].type /\ w3.f = walk[t].f /\ w3.at = h
        /\ w3.called = walk[t].called /\ ~w3.freed /\ w3.due = due
    <3> HIDE DEF w2
    <3> QED BY <1>5, <2>5 DEF Walks
  <2>7. /\ w \in Walks /\ w.type = walk[t].type /\ w.f = walk[t].f /\ w.at = h
        /\ w.called = walk[t].called \cup {h} /\ ~w.freed /\ w.due = due
    <3> HIDE DEF w3
    <3> QED BY <1>5, <2>2, <2>6 DEF Walks
  <2> HIDE DEF w
  <2>8. /\ walk' \in [Threads -> Walks] /\ walk'[t] = w
        /\ \A u \in Threads : u # t => walk'[u] = walk[u]
    BY <2>3, <2>7, WalkStored
  <2>9. /\ ypc' \in [Threads -> YieldSteps] /\ ypc'[t] = "cb" /\ in_yield_cb' = TRUE
        /\ \A u \in Threads : u # t => ypc'[u] = ypc[u]
    BY <1>10, GotoYFacts DEF YieldSteps, EnterCallback
  <2>10. YieldTypes' /\ NetTypes'
    BY <1>1, <1>10, <2>8, <2>9 DEF YieldTypes, NetTypes
  <2>11. YieldOK(t)'
    BY <1>1, <1>9, <1>10, <2>9 DEF YieldOK
  <2>12. ASSUME NEW g \in w.due \ w.called
         PROVE  FilterOf[g] \in Matches[w.f] /\ Ahead(l, h, g)
    <3>1. g \in due \ walk[t].called /\ g # h
      BY <2>7, <2>12
    <3>2. PICK k \in here : l[k] = g
      BY <1>7, <3>1
    <3>3. FilterOf[g] \in Matches[w.f]
      BY <1>7, <2>7, <3>1
    <3>4. l[Min(here)] = h /\ Min(here) # k
      BY <3>1, <3>2 DEF h
    <3>5. Min(here) < k /\ k \in 1 .. Len(l) /\ Min(here) \in 1 .. Len(l)
      <4> HIDE DEF here, l
      <4>1. Min(here) \in 1 .. Len(l) /\ k \in 1 .. Len(l)
        BY <1>8, <2>1, <3>2
      <4>2. Min(here) <= k
        BY <2>1, <3>2
      <4> QED BY <3>4, <4>1, <4>2
    <3> QED BY <3>2, <3>3, <3>4, <3>5 DEF Ahead
  <2>13. \E j \in 1 .. Len(l) : l[j] = h
    BY <1>8, <2>1 DEF h
  <2>14. WalkOK(t)'
    BY <1>1, <1>5, <2>2, <2>7, <2>8, <2>9, <2>12, <2>13 DEF WalkOK
  <2>15. BufferOK(t)'
    BY <1>1, <1>9, <1>10, <2>7, <2>8, <2>9 DEF BufferOK
  <2> QED BY <1>1, <1>9, <1>10, <2>8, <2>9, <2>10, <2>11, <2>14, <2>15, AcksStay, YieldStepKeeps
<1>11. CASE here = {} /\ walk[t].called = {} /\ EnterCallback(t) /\ UNCHANGED <<buf_read, lock_yield>>
            /\ walk' = [walk EXCEPT ![t].type = "default"]
  <2> DEFINE w == [walk[t] EXCEPT !.type = "default"]
  <2>1. walk' = [walk EXCEPT ![t] = w]
    BY <1>4, <1>11
  <2>2. /\ w \in Walks /\ w.type = "default" /\ w.f = walk[t].f /\ w.at = walk[t].at
        /\ w.called = walk[t].called /\ w.freed = walk[t].freed /\ w.due = walk[t].due
    BY <1>4 DEF Walks
  <2> HIDE DEF w
  <2>3. /\ walk' \in [Threads -> Walks] /\ walk'[t] = w
        /\ \A u \in Threads : u # t => walk'[u] = walk[u]
    BY <2>1, <2>2, WalkStored
  <2>4. /\ ypc' \in [Threads -> YieldSteps] /\ ypc'[t] = "cb" /\ in_yield_cb' = TRUE
        /\ \A u \in Threads : u # t => ypc'[u] = ypc[u]
    BY <1>11, GotoYFacts DEF YieldSteps, EnterCallback
  <2>5. YieldTypes' /\ NetTypes'
    BY <1>1, <1>11, <2>3, <2>4 DEF YieldTypes, NetTypes
  <2>6. YieldOK(t)'
    BY <1>1, <1>9, <1>11, <2>4 DEF YieldOK
  <2>7. walk[t].at = NoHandler /\ ~walk[t].freed
    BY <1>5, <1>11 DEF WalkOK
  <2>8. w.due \subseteq w.called
    BY <1>7, <1>11, <2>2, <2>7
  <2>9. WalkOK(t)'
    BY <2>2, <2>3, <2>4, <2>7, <2>8 DEF WalkOK
  <2>10. BufferOK(t)'
    BY <2>2, <2>3, <2>4 DEF BufferOK
  <2> QED BY <1>1, <1>9, <1>11, <2>3, <2>4, <2>5, <2>6, <2>9, <2>10, AcksStay, YieldStepKeeps
<1>12. CASE here = {} /\ buf_read' = NoPkt /\ lock_yield' = Released(t)
            /\ GotoY(t, "cycle") /\ UNCHANGED in_yield_cb
            /\ walk' = [walk EXCEPT ![t].at = NoHandler, ![t].freed = FALSE, ![t].due = due]
  <2> DEFINE w1 == [walk[t] EXCEPT !.at = NoHandler]
             w2 == [w1 EXCEPT !.freed = FALSE]
             w  == [w2 EXCEPT !.due = due]
  <2> HIDE DEF due
  <2>1. walk' = [walk EXCEPT ![t] = w]
    BY <1>4, <1>12
  <2>2. w1 \in Walks /\ w1.type = walk[t].type /\ w1.at = NoHandler /\ w1.called = walk[t].called
    BY <1>4 DEF Walks
  <2>3. /\ w2 \in Walks /\ w2.type = walk[t].type /\ w2.at = NoHandler
        /\ w2.called = walk[t].called /\ ~w2.freed
    <3> HIDE DEF w1
    <3> QED BY <2>2 DEF Walks
  <2>4. /\ w \in Walks /\ w.type = walk[t].type /\ w.at = NoHandler
        /\ w.called = walk[t].called /\ ~w.freed /\ w.due = due
    <3> HIDE DEF w2
    <3> QED BY <1>5, <2>3 DEF Walks
  <2> HIDE DEF w
  <2>5. /\ walk' \in [Threads -> Walks] /\ walk'[t] = w
        /\ \A u \in Threads : u # t => walk'[u] = walk[u]
    BY <2>1, <2>4, WalkStored
  <2>6. /\ ypc' \in [Threads -> YieldSteps] /\ ypc'[t] = "cycle"
        /\ \A u \in Threads : u # t => ypc'[u] = ypc[u]
    BY <1>12, GotoYFacts DEF YieldSteps
  <2>7. YieldTypes' /\ NetTypes'
    <3>1. lock_yield' \in Threads \cup {NoThread}
      BY <1>12 DEF Released
    <3> QED BY <1>1, <1>12, <2>5, <2>6, <3>1 DEF YieldTypes, NetTypes
  <2>8. YieldOK(t)' /\ BufferOK(t)'
    <3>1. within'[t] # "none" <=> lock_yield' = t
      BY <1>1, <1>9, <1>12 DEF Released
    <3>2. YieldOK(t)'
      BY <1>1, <1>9, <2>6, <3>1 DEF YieldOK
    <3> QED BY <1>12, <2>6, <3>2 DEF BufferOK
  <2>9. w.due \subseteq w.called
    BY <1>7, <1>12, <2>4
  <2>10. WalkOK(t)'
    BY <1>5, <2>4, <2>5, <2>6, <2>9 DEF WalkOK
  <2>11. \A u \in Threads : u # t => (lock_yield' = u <=> lock_yield = u)
    BY <1>9, <1>12, SubscribeAssumption DEF Released
  <2> QED BY <1>1, <1>9, <1>12, <2>5, <2>6, <2>7, <2>8, <2>10, <2>11, AcksStay, YieldStepKeeps
<1> QED BY <1>2, <1>10, <1>11, <1>12

LEMMA CallbackReturnsKeeps ==
  ASSUME IInv, NEW t \in Threads, CallbackReturns(t)
  PROVE  IInv'
<1> USE DEF IInv
<1>1. /\ ypc[t] = "cb" /\ pc[t] \in {"idle", "wait"} /\ in_yield_cb' = FALSE
      /\ UNCHANGED <<pc, call, result, packet_id, lock_write_buf, list_sub_handle>>
      /\ UNCHANGED <<within, toBroker, toClient, broker, online, list_sub_sync_ack, granted>>
  BY DEF CallbackReturns, api, net
<1>2. /\ lock_yield = t /\ t # NoThread /\ t \in Yielders
      /\ (within[t] # "none" => pc[t] = "wait") /\ BufferOK(t)
  BY <1>1, Handling
<1>3. WalkOK(t)
  BY DEF WalkPart
<1>4. CASE walk[t].type \in {"PUBLISH", "garbled"}
  <2>1. GotoY(t, "walk") /\ UNCHANGED <<walk, buf_read, lock_yield>>
    BY <1>4 DEF CallbackReturns
  <2>2. /\ ypc' \in [Threads -> YieldSteps] /\ ypc'[t] = "walk"
        /\ \A u \in Threads : u # t => ypc'[u] = ypc[u]
    BY <2>1, GotoYFacts DEF YieldSteps
  <2>3. YieldTypes' /\ NetTypes'
    BY <1>1, <2>1, <2>2 DEF YieldTypes, NetTypes
  <2>4. YieldOK(t)'
    BY <1>1, <1>2, <2>1, <2>2 DEF YieldOK
  <2>5. WalkOK(t)'
    BY <1>1, <1>3, <1>4, <2>1, <2>2 DEF WalkOK
  <2>6. BufferOK(t)'
    BY <1>1, <1>2, <2>1, <2>2 DEF BufferOK
  <2> QED BY <1>1, <1>2, <2>1, <2>2, <2>3, <2>4, <2>5, <2>6, AcksStay, YieldStepKeeps
<1>5. CASE walk[t].type \notin {"PUBLISH", "garbled"}
  <2>1. /\ GotoY(t, "cycle") /\ buf_read' = NoPkt /\ lock_yield' = Released(t)
        /\ walk' = [walk EXCEPT ![t] = NoWalk]
    BY <1>5 DEF CallbackReturns
  <2>2. /\ ypc' \in [Threads -> YieldSteps] /\ ypc'[t] = "cycle"
        /\ \A u \in Threads : u # t => ypc'[u] = ypc[u]
    BY <2>1, GotoYFacts DEF YieldSteps
  <2>3. /\ walk' \in [Threads -> Walks] /\ walk'[t] = NoWalk
        /\ \A u \in Threads : u # t => walk'[u] = walk[u]
    <3> HIDE DEF NoWalk
    <3> QED BY <2>1, NoWalkType, WalkStored
  <2>4. YieldTypes' /\ NetTypes'
    <3>1. lock_yield' \in Threads \cup {NoThread}
      BY <2>1 DEF Released
    <3> QED BY <1>1, <2>1, <2>2, <2>3, <3>1 DEF YieldTypes, NetTypes
  <2>5. YieldOK(t)' /\ BufferOK(t)'
    <3>1. within'[t] # "none" <=> lock_yield' = t
      BY <1>1, <1>2, <2>1 DEF Released
    <3>2. YieldOK(t)'
      BY <1>1, <1>2, <2>2, <3>1 DEF YieldOK
    <3> QED BY <2>1, <2>2, <3>2 DEF BufferOK
  <2>6. WalkOK(t)'
    BY <2>2, <2>3 DEF WalkOK, NoWalk
  <2>7. \A u \in Threads : u # t => (lock_yield' = u <=> lock_yield = u)
    BY <1>2, <2>1, SubscribeAssumption DEF Released
  <2> QED BY <1>1, <1>2, <2>1, <2>2, <2>3, <2>4, <2>5, <2>6, <2>7, AcksStay, YieldStepKeeps
<1> QED BY <1>4, <1>5

-----------------------------------------------------------------------------
(* The broker                                                              *)

LEMMA BrokerStepKeeps ==
  ASSUME IInv, BrokerStep
  PROVE  IInv'
<1> USE DEF IInv
<1> DEFINE p == Head(toBroker)
<1>1. /\ toBroker # <<>> /\ toBroker' = Tail(toBroker)
      /\ \/ /\ p.type = "SUBSCRIBE"
            /\ \E ok \in BOOLEAN :
                  /\ broker' = IF ok THEN broker \cup {p.f} ELSE broker
                  /\ toClient' = Append(toClient, [type |-> "SUBACK", id |-> p.id, ok |-> ok])
         \/ /\ p.type = "UNSUBSCRIBE"
            /\ broker' = broker \ {p.f}
            /\ toClient' = Append(toClient, [type |-> "UNSUBACK", id |-> p.id])
  BY DEF BrokerStep
<1>2. /\ UNCHANGED <<api, yield, granted>>
      /\ UNCHANGED <<online, packet_id, list_sub_handle, list_sub_sync_ack, lock_write_buf, in_yield_cb>>
  BY DEF BrokerStep, client
<1>3. p \in Requests /\ toBroker' \in Seq(Requests)
  BY <1>1, TailFacts DEF NetTypes
<1>4. p.id \in 1 .. MaxIds /\ p.f \in Filters
  BY <1>3 DEF Requests
<1> HIDE DEF p
<1>5. /\ \A ok \in BOOLEAN : [type |-> "SUBACK", id |-> p.id, ok |-> ok] \in Packets
      /\ [type |-> "UNSUBACK", id |-> p.id] \in Packets
  BY <1>4 DEF Packets
<1>6. toClient \in Seq(Packets) /\ broker \subseteq Filters
  BY DEF NetTypes
<1>7. toClient' \in Seq(Packets) /\ broker' \subseteq Filters
  <2>1. CASE p.type = "SUBSCRIBE"
    <3>1. PICK ok \in BOOLEAN :
            /\ broker' = IF ok THEN broker \cup {p.f} ELSE broker
            /\ toClient' = Append(toClient, [type |-> "SUBACK", id |-> p.id, ok |-> ok])
      BY <1>1, <2>1
    <3>2. broker' \subseteq Filters
      BY <1>4, <1>6, <3>1
    <3>3. [type |-> "SUBACK", id |-> p.id, ok |-> ok] \in Packets
      BY <1>5
    <3>4. toClient' \in Seq(Packets)
      BY <1>6, <3>1, <3>3, AppendFacts
    <3> QED BY <3>2, <3>4
  <2>2. CASE p.type = "UNSUBSCRIBE"
    <3>1. /\ broker' = broker \ {p.f}
          /\ toClient' = Append(toClient, [type |-> "UNSUBACK", id |-> p.id])
      BY <1>1, <2>2
    <3>2. toClient' \in Seq(Packets)
      BY <1>5, <1>6, <3>1, AppendFacts
    <3> QED BY <1>6, <3>1, <3>2
  <2> QED BY <1>1, <2>1, <2>2
<1>8. NetTypes'
  BY <1>2, <1>3, <1>7 DEF NetTypes
<1> QED BY <1>2, <1>8, NetStepKeeps

LEMMA BrokerPublishKeeps ==
  ASSUME IInv, NEW f \in Filters, BrokerPublish(f)
  PROVE  IInv'
<1> USE DEF IInv
<1>1. /\ toClient' = Append(toClient, [type |-> "PUBLISH", f |-> f])
      /\ UNCHANGED <<api, yield, granted>>
      /\ UNCHANGED <<online, packet_id, list_sub_handle, list_sub_sync_ack, lock_write_buf, in_yield_cb>>
      /\ UNCHANGED <<toBroker, broker>>
  BY DEF BrokerPublish, client
<1>2. [type |-> "PUBLISH", f |-> f] \in Packets
  BY DEF Packets
<1>3. toClient' \in Seq(Packets)
  BY <1>1, <1>2, AppendFacts DEF NetTypes
<1>4. NetTypes'
  BY <1>1, <1>3 DEF NetTypes
<1> QED BY <1>1, <1>4, NetStepKeeps

-----------------------------------------------------------------------------
(* The invariant                                                           *)

LEMMA InitIInv ==
  ASSUME Init PROVE IInv
<1> USE DEF Init, IInv
<1>1. /\ MaxIds \in Nat /\ NoThread \notin Threads
      /\ \A t \in Threads : pc[t] = "idle" /\ ypc[t] = "none" /\ call[t] = NoCall
                            /\ walk[t] = NoWalk /\ result[t] = NoResult
  BY SubscribeAssumption
<1>w. \A t \in Threads : within[t] = "none"
  OBVIOUS
<1>2. CallTypes
  <2> HIDE DEF NoCall, NoResult
  <2> QED BY <1>1, NoCallType DEF CallTypes, Steps
<1>3. YieldTypes
  <2> HIDE DEF NoWalk
  <2> QED BY NoWalkType DEF YieldTypes, YieldSteps, Withins
<1>4. ListTypes /\ NetTypes
  BY DEF ListTypes, NetTypes
<1>5. IdPart
  <2>1. {t \in Threads : pc[t] = "id"} = {}
    BY <1>1
  <2>2. Cardinality({t \in Threads : pc[t] = "id"}) = 0
    BY <2>1, FS_EmptySet
  <2> QED BY <1>1, <2>2 DEF IdPart, NoCall
<1>6. CallPart
  BY <1>1 DEF CallPart, CallOK, NoCall
<1>7. AckPart /\ Distinct
  BY DEF AckPart, Distinct
<1>8. YieldPart
  BY <1>1, <1>w DEF YieldPart, YieldOK, BufferOK
<1>9. WalkPart
  BY <1>1 DEF WalkPart, WalkOK, NoWalk
<1>10. SyncMeansGranted
  BY <1>1 DEF SyncMeansGranted, NoResult
<1> QED BY <1>2, <1>3, <1>4, <1>5, <1>6, <1>7, <1>8, <1>9, <1>10

LEMMA ApiArguments == \A a \in Apis : a[1] \in Kinds /\ a[2] \in Handlers
  BY SubscribeAssumption

(* One case per action.                                                    *)
LEMMA StepIInv ==
  ASSUME IInv, [Next]_vars PROVE IInv'
<1>1. CASE UNCHANGED vars
  <2>1. NetTypes'
    BY <1>1 DEF IInv, NetTypes, vars, net, client
  <2> QED BY <1>1, <2>1, NetStepKeeps DEF vars, client
<1>2. ASSUME NEW t \in Threads, NEW a \in Apis, BeginCall(t, a[1], a[2]) PROVE IInv'
  BY <1>2, ApiArguments, BeginCallKeeps
<1>3. ASSUME NEW t \in Threads, CallStep(t) PROVE IInv'
  BY <1>3, TakeIdKeeps, SendRequestKeeps, SendFailsKeeps, StoreDisconnectedKeeps,
     AddHandlerKeeps, RemoveHandlersKeeps, ReturnToCallerKeeps, AddSyncNodeKeeps,
     LookForAckKeeps, NextRoundKeeps DEF CallStep
<1>4. ASSUME NEW t \in Threads, SyncTimeout(t) \/ YieldBegin(t) \/ EventCallback(t) PROVE IInv'
  BY <1>4, SyncTimeoutKeeps, YieldBeginKeeps, EventCallbackKeeps
<1>5. ASSUME NEW t \in Threads, YieldStep(t) PROVE IInv'
  BY <1>5, EventReturnsKeeps, ReadPacketKeeps, ReadFailsKeeps, YieldEndKeeps, RecvSubackKeeps,
     RecvUnsubackKeeps, RecvPublishKeeps, IdentityKeeps, IdentityReturnsKeeps, DeliverKeeps,
     CallbackReturnsKeeps DEF YieldStep
<1>6. CASE BrokerStep
  BY <1>6, BrokerStepKeeps
<1>7. ASSUME NEW f \in Filters, BrokerPublish(f) PROVE IInv'
  BY <1>7, BrokerPublishKeeps
<1> QED BY <1>1, <1>2, <1>3, <1>4, <1>5, <1>6, <1>7 DEF Next

(* The invariant holds in every state, for any number of threads.          *)
THEOREM Inductive == Spec => []IInv
<1>1. Init => IInv
  BY InitIInv
<1>2. IInv /\ [Next]_vars => IInv'
  BY StepIInv
<1> QED BY <1>1, <1>2, PTL DEF Spec

(* There are no more nodes for SUBACKs than threads that can wait: each    *)
(* node's call is a different thread's.                                    *)
LEMMA FewNodes ==
  ASSUME IInv PROVE Len(list_sub_sync_ack) <= Cardinality(Yielders)
<1> USE DEF IInv
<1> DEFINE l == list_sub_sync_ack
           owner == [i \in 1 .. Len(l) |-> CHOOSE t \in Threads : call[t].subed /\ call[t].ret = l[i].id]
<1>1. \A i \in 1 .. Len(l) : owner[i] \in Threads /\ call[owner[i]].subed /\ call[owner[i]].ret = l[i].id
  BY DEF AckPart
<1>2. \A i \in 1 .. Len(l) : owner[i] \in Yielders
  BY <1>1 DEF CallPart, CallOK
<1>3. \A i, j \in 1 .. Len(l) : owner[i] = owner[j] => i = j
  <2>1. \A i, j \in 1 .. Len(l) : l[i].id = l[j].id => i = j
    BY DEF AckPart
  <2> HIDE DEF owner, l
  <2> QED BY <1>1, <2>1
<1>4. owner \in Injection(1 .. Len(l), Yielders)
  <2>1. owner \in [1 .. Len(l) -> Yielders]
    BY <1>2
  <2> HIDE DEF owner, l
  <2> QED BY <1>3, <2>1 DEF Injection, IsInjective
<1>5. IsFiniteSet(Yielders)
  BY SubscribeAssumption, FS_Subset
<1>6. Cardinality(1 .. Len(l)) <= Cardinality(Yielders)
  <2> HIDE DEF owner, l
  <2> QED BY <1>4, <1>5, FS_Injection
<1>7. Cardinality(1 .. Len(l)) = Len(l)
  <2>1. Len(l) \in Nat
    BY DEF ListTypes
  <2> HIDE DEF l
  <2>2. 1 \in Int /\ Len(l) \in Int
    BY <2>1
  <2>3. Cardinality(1 .. Len(l)) = IF 1 > Len(l) THEN 0 ELSE Len(l) - 1 + 1
    BY <2>2, FS_Interval
  <2> QED BY <2>1, <2>3
<1> QED BY <1>6, <1>7

(* Only filters are said to have lost their handlers.                      *)
StrippedType == stripped \subseteq Filters

LEMMA StrippedInit == Init => StrippedType
  BY DEF Init, StrippedType

LEMMA StrippedStep ==
  ASSUME StrippedType, [Next]_vars PROVE StrippedType'
<1> USE DEF client, StrippedType
<1>1. CASE UNCHANGED vars
  BY <1>1 DEF vars
<1>2. ASSUME NEW t \in Threads, NEW a \in Apis, BeginCall(t, a[1], a[2])
      PROVE  stripped' \subseteq Filters
  BY <1>2 DEF BeginCall
<1>3. ASSUME NEW t \in Threads, CallStep(t) PROVE stripped' \subseteq Filters
  <2>1. CASE AddHandler(t)
    BY <2>1 DEF AddHandler
  <2>2. CASE RemoveHandlers(t)
    <3>1. stripped' = stripped \cup AlsoTaken(t)
      BY <2>2 DEF RemoveHandlers
    <3>2. AlsoTaken(t) \subseteq Filters
      BY SubscribeAssumption DEF AlsoTaken, Found
    <3> QED BY <3>1, <3>2
  <2>3. CASE TakeId(t) \/ SendRequest(t) \/ SendFails(t) \/ StoreDisconnected(t)
    BY <2>3 DEF TakeId, SendRequest, SendFails, StoreDisconnected
  <2>4. CASE ReturnToCaller(t) \/ AddSyncNode(t) \/ LookForAck(t) \/ NextRound(t)
    BY <2>4 DEF ReturnToCaller, AddSyncNode, LookForAck, NextRound
  <2> QED BY <1>3, <2>1, <2>2, <2>3, <2>4 DEF CallStep
<1>4. ASSUME NEW t \in Threads, SyncTimeout(t) \/ YieldBegin(t) \/ EventCallback(t)
      PROVE  stripped' \subseteq Filters
  BY <1>4 DEF SyncTimeout, YieldBegin, EventCallback
<1>5. ASSUME NEW t \in Threads, YieldStep(t) PROVE stripped' \subseteq Filters
  <2>1. EventReturns(t) \/ ReadPacket(t) \/ ReadFails(t) \/ YieldEnd(t) => UNCHANGED stripped
    BY DEF EventReturns, ReadPacket, ReadFails, YieldEnd
  <2>2. iotx_mc_handle_recv_SUBACK(t) \/ iotx_mc_handle_recv_UNSUBACK(t)
          \/ iotx_mc_handle_recv_PUBLISH(t) => UNCHANGED stripped
    BY DEF iotx_mc_handle_recv_SUBACK, iotx_mc_handle_recv_UNSUBACK, iotx_mc_handle_recv_PUBLISH
  <2>3. iotx_mc_parse_identity_response(t) \/ IdentityReturns(t) => UNCHANGED stripped
    BY DEF iotx_mc_parse_identity_response, IdentityReturns
  <2>4. iotx_mc_deliver_message(t) => UNCHANGED stripped
    BY ZenonT(60) DEF iotx_mc_deliver_message
  <2>5. CallbackReturns(t) => UNCHANGED stripped
    BY DEF CallbackReturns
  <2> QED BY <1>5, <2>1, <2>2, <2>3, <2>4, <2>5 DEF YieldStep
<1>6. CASE BrokerStep
  BY <1>6 DEF BrokerStep
<1>7. ASSUME NEW f \in Filters, BrokerPublish(f) PROVE stripped' \subseteq Filters
  BY <1>7 DEF BrokerPublish
<1> QED BY <1>1, <1>2, <1>3, <1>4, <1>5, <1>6, <1>7 DEF Next

(* The two lists stay sound (SubscribeInv): a handler is listed once, a    *)
(* node for a SUBACK has the one call that will take it off; a callback of *)
(* _handle_event never waits for a SUBACK, although those of DISCONNECT,   *)
(* RECONNECT and the identity response do; and a message stays in the read *)
(* buffer until the last handler it is given to has returned.              *)
THEOREM SubscribeSafe == Spec => []SubscribeInv
<1> USE DEF IInv
<1>1. IInv /\ stripped \subseteq Filters => TypeOK
  <2> SUFFICES ASSUME IInv, stripped \subseteq Filters PROVE TypeOK
    OBVIOUS
  <2>1. \A i \in DOMAIN list_sub_sync_ack : list_sub_sync_ack[i] \in Acks
    BY DEF ListTypes
  <2>2. lock_yield \in Yielders \cup {NoThread}
    BY DEF YieldTypes, YieldPart, YieldOK
  <2>3. \A t \in Threads : /\ pc[t] \in Steps /\ call[t] \in Calls /\ ypc[t] \in YieldSteps
                            /\ within[t] \in Withins
    BY DEF CallTypes, YieldTypes
  <2> QED BY <2>1, <2>2, <2>3, FewNodes
       DEF TypeOK, CallTypes, ListTypes, YieldTypes, NetTypes, Acks, Steps, Calls, YieldSteps, Withins
<1>2. IInv => NoDuplicateHandlers
  <2> SUFFICES ASSUME IInv PROVE NoDuplicateHandlers
    OBVIOUS
  <2>1. DOMAIN list_sub_handle = 1 .. Len(list_sub_handle)
    BY DEF ListTypes
  <2> QED BY <2>1 DEF NoDuplicateHandlers, IsInjective, Distinct
<1>3. IInv => SyncNodesOwned
  <2> SUFFICES ASSUME IInv PROVE SyncNodesOwned
    OBVIOUS
  <2>1. DOMAIN list_sub_sync_ack = 1 .. Len(list_sub_sync_ack)
    BY DEF ListTypes
  <2> QED BY <2>1 DEF SyncNodesOwned, AckPart
<1>4. IInv => NoNestedYield
  BY DEF NoNestedYield, InCallback, YieldPart, YieldOK
<1>5. IInv => MessageKept
  BY DEF MessageKept, YieldPart, BufferOK
<1>6. Init => StrippedType
  BY StrippedInit
<1>7. StrippedType /\ [Next]_vars => StrippedType'
  BY StrippedStep
<1>8. IInv /\ StrippedType => SubscribeInv
  BY <1>1, <1>2, <1>3, <1>4, <1>5 DEF SubscribeInv, StrippedType
<1> QED BY <1>6, <1>7, <1>8, Inductive, PTL DEF Spec

(* A synchronous subscription that reports success after waiting has had   *)
(* its SUBACK, whichever thread handled it.                                *)
THEOREM SyncGranted == Spec => []SyncMeansGranted
<1>1. IInv => SyncMeansGranted
  BY DEF IInv
<1> QED BY <1>1, Inductive, PTL

(* A message reaches every handler of its filter that was in the list when *)
(* its walk began and stayed there, while other threads add and remove     *)
(* handlers between the callbacks.                                         *)
THEOREM Delivered == Spec => []DeliveredToAll
<1>1. IInv => DeliveredToAll
  BY DEF IInv, DeliveredToAll, WalkPart, WalkOK
<1> QED BY <1>1, Inductive, PTL

-----------------------------------------------------------------------------
(* What the broker delivers has a handler                                  *)

Elsewhere(t) == \A u \in Threads : u # t => pc'[u] = pc[u] /\ call'[u] = call[u]

(* Nothing the broker will deliver is new.                                 *)
NoneNew == \A f \in Filters \ unsubLost' : EndsSubscribed(f)' => f \notin unsubLost /\ EndsSubscribed(f)

LEMMA SameRequests ==
  ASSUME UNCHANGED <<toBroker, broker>>, unsubLost \subseteq unsubLost'
  PROVE  NoneNew
  BY DEF NoneNew, EndsSubscribed

(* A call neither stops adding a handler nor starts removing some.         *)
LEMMA HandledKeeps ==
  ASSUME HandledPart, NEW t \in Threads, Elsewhere(t), pc[t] # "add", pc'[t] # "remove",
         UNCHANGED <<list_sub_handle, stripped>>, NoneNew
  PROVE  HandledPart'
<1> SUFFICES ASSUME NEW f \in Filters \ unsubLost', EndsSubscribed(f)'
             PROVE  (f \in stripped' \/ Handled(f)') /\ \A u \in Threads : pc'[u] = "remove" => FilterOf[call'[u].h] # f
  BY DEF HandledPart
<1>1. (f \in stripped \/ Handled(f)) /\ \A u \in Threads : pc[u] = "remove" => FilterOf[call[u].h] # f
  BY DEF HandledPart, NoneNew
<1>2. f \in stripped' \/ Handled(f)'
  BY <1>1 DEF Handled, Elsewhere
<1> QED BY <1>1, <1>2 DEF Elsewhere

LEMMA HandledStays ==
  ASSUME HandledPart, UNCHANGED <<pc, call, list_sub_handle, stripped>>, NoneNew
  PROVE  HandledPart'
<1> SUFFICES ASSUME NEW f \in Filters \ unsubLost', EndsSubscribed(f)'
             PROVE  (f \in stripped' \/ Handled(f)') /\ \A u \in Threads : pc'[u] = "remove" => FilterOf[call'[u].h] # f
  BY DEF HandledPart
<1>1. (f \in stripped \/ Handled(f)) /\ \A u \in Threads : pc[u] = "remove" => FilterOf[call[u].h] # f
  BY DEF HandledPart, NoneNew
<1> QED BY <1>1 DEF Handled

(* The steps of a call that are not about handlers.                        *)
LEMMA CallHandled ==
  ASSUME IInv, HandledPart, NEW t \in Threads,
         \/ \E k \in Kinds, h \in Handlers : BeginCall(t, k, h)
         \/ TakeId(t) \/ SendFails(t) \/ StoreDisconnected(t) \/ ReturnToCaller(t)
         \/ AddSyncNode(t) \/ LookForAck(t) \/ NextRound(t) \/ SyncTimeout(t)
  PROVE  HandledPart'
<1> USE DEF IInv, CallTypes, Elsewhere, Goto, Leave
<1> DEFINE Fine == /\ Elsewhere(t) /\ pc[t] # "add" /\ pc'[t] # "remove"
                   /\ UNCHANGED <<list_sub_handle, stripped, toBroker, broker, unsubLost>>
<1>1. ASSUME NEW k \in Kinds, NEW h \in Handlers, BeginCall(t, k, h) PROVE Fine
  <2>1. /\ pc[t] = "idle" /\ pc' = [pc EXCEPT ![t] = "id"]
        /\ UNCHANGED <<list_sub_handle, stripped, toBroker, broker, unsubLost>>
    BY <1>1, Zenon DEF BeginCall, MayCall, client, net
  <2>2. \E c : call' = [call EXCEPT ![t] = c]
    BY <1>1, Zenon DEF BeginCall
  <2> QED BY <2>1, <2>2
<1>2. ASSUME TakeId(t) PROVE Fine
  BY <1>2 DEF TakeId, net
<1>3. ASSUME SendFails(t) PROVE Fine
  BY <1>3 DEF SendFails, client
<1>4. ASSUME StoreDisconnected(t) PROVE Fine
  BY <1>4 DEF StoreDisconnected, net
<1>5. ASSUME ReturnToCaller(t) PROVE Fine
  BY <1>5 DEF ReturnToCaller, client, net
<1>6. ASSUME AddSyncNode(t) PROVE Fine
  BY <1>6 DEF AddSyncNode, net
<1>7. ASSUME LookForAck(t) PROVE Fine
  BY <1>7 DEF LookForAck, net
<1>8. ASSUME NextRound(t) PROVE Fine
  BY <1>8 DEF NextRound, client, net
<1>9. ASSUME SyncTimeout(t) PROVE Fine
  BY <1>9 DEF SyncTimeout, net
<1>10. Fine
  BY <1>1, <1>2, <1>3, <1>4, <1>5, <1>6, <1>7, <1>8, <1>9
<1> QED BY <1>10, SameRequests, HandledKeeps

(* A request about f is last: it decides.  The others' filters stay as     *)
(* they were.                                                              *)
LEMMA LastDecides ==
  ASSUME toBroker \in Seq(Requests), NEW r \in Requests, toBroker' = Append(toBroker, r),
         UNCHANGED broker, NEW f, EndsSubscribed(f)'
  PROVE  IF r.f = f THEN r.type = "SUBSCRIBE" ELSE EndsSubscribed(f)
<1> DEFINE q == toBroker
<1>1. /\ Len(q') = Len(q) + 1 /\ Len(q) \in Nat
      /\ \A j \in 1 .. Len(q) : q'[j] = q[j] /\ j \in 1 .. Len(q') /\ j < Len(q')
      /\ q'[Len(q')] = r
      /\ Len(q') \in 1 .. Len(q')
  BY AppendFacts
<1>2. \A j \in 1 .. Len(q') : j \in 1 .. Len(q) \/ j = Len(q')
  BY <1>1
<1>3. \/ \E k \in 1 .. Len(q') : /\ q'[k].f = f /\ q'[k].type = "SUBSCRIBE"
                                 /\ \A j \in 1 .. Len(q') : j > k => q'[j].f # f
      \/ f \in broker /\ \A j \in 1 .. Len(q') : q'[j].f # f
  BY DEF EndsSubscribed
<1> HIDE DEF q
<1>4. CASE r.f = f
  <2>1. PICK k \in 1 .. Len(q') : /\ q'[k].f = f /\ q'[k].type = "SUBSCRIBE"
                                  /\ \A j \in 1 .. Len(q') : j > k => q'[j].f # f
    BY <1>1, <1>3, <1>4
  <2>2. k = Len(q')
    BY <1>1, <1>2, <1>4, <2>1
  <2> QED BY <1>1, <1>4, <2>1, <2>2
<1>5. CASE r.f # f
  <2>1. ASSUME NEW k \in 1 .. Len(q'), q'[k].f = f, q'[k].type = "SUBSCRIBE",
               \A j \in 1 .. Len(q') : j > k => q'[j].f # f
        PROVE  EndsSubscribed(f)
    <3>1. k \in 1 .. Len(q)
      BY <1>1, <1>2, <1>5, <2>1
    <3>2. q[k].f = f /\ q[k].type = "SUBSCRIBE"
      BY <1>1, <2>1, <3>1
    <3>3. \A j \in 1 .. Len(q) : j > k => q[j].f # f
      BY <1>1, <2>1
    <3> QED BY <3>1, <3>2, <3>3 DEF EndsSubscribed, q
  <2>2. ASSUME f \in broker, \A j \in 1 .. Len(q') : q'[j].f # f
        PROVE  EndsSubscribed(f)
    <3>1. \A j \in 1 .. Len(q) : q[j].f # f
      BY <1>1, <2>2
    <3> QED BY <2>2, <3>1 DEF EndsSubscribed, q
  <2> QED BY <1>3, <1>5, <2>1, <2>2
<1> QED BY <1>4, <1>5

(* lock_write_buf is free when a request is written: no other call is      *)
(* between its UNSUBSCRIBE and the removal of the handlers.                *)
LEMMA SendHandled ==
  ASSUME IInv, HandledPart, NEW t \in Threads, SendRequest(t)
  PROVE  HandledPart'
<1> USE DEF IInv
<1> DEFINE g == FilterOf[call[t].h]
           r == RequestOf(t)
<1>1. /\ pc[t] = "send" /\ lock_write_buf = NoThread
      /\ toBroker' = IF online THEN Append(toBroker, r) ELSE toBroker
      /\ pc' = [pc EXCEPT ![t] = IF call[t].kind = "unsub" THEN "remove" ELSE "add"]
      /\ unsubLost' = IF online \/ call[t].kind # "unsub" THEN unsubLost ELSE unsubLost \cup {g}
      /\ UNCHANGED <<call, broker, list_sub_handle, stripped>>
  BY DEF SendRequest, Goto
<1>2. \A u \in Threads : pc[u] # "remove"
  BY <1>1, SubscribeAssumption DEF CallPart, CallOK
<1>3. /\ \A u \in Threads : u # t => pc'[u] = pc[u]
      /\ pc'[t] = IF call[t].kind = "unsub" THEN "remove" ELSE "add"
  BY <1>1 DEF CallTypes
<1>4. CallOK(t) /\ call[t].h \in Handlers /\ call[t].id \in 1 .. MaxIds /\ g \in Filters
  <2>1. CallOK(t)
    BY DEF CallPart
  <2>2. call[t].h \in Handlers /\ call[t].id > 0
    BY <1>1, <2>1 DEF CallOK
  <2>3. call[t].id \in 1 .. MaxIds
    BY <2>2 DEF CallTypes, Calls
  <2> QED BY <2>1, <2>2, <2>3, SubscribeAssumption
<1>5. /\ r \in Requests /\ r.f = g
      /\ r.type = IF call[t].kind = "unsub" THEN "UNSUBSCRIBE" ELSE "SUBSCRIBE"
  BY <1>4 DEF RequestOf, Requests
<1> HIDE DEF r
<1> SUFFICES ASSUME NEW f \in Filters \ unsubLost', EndsSubscribed(f)'
             PROVE  (f \in stripped' \/ Handled(f)') /\ \A u \in Threads : pc'[u] = "remove" => FilterOf[call'[u].h] # f
  BY DEF HandledPart
<1>6. f \in Filters \ unsubLost
  BY <1>1
<1>7. ASSUME EndsSubscribed(f) PROVE f \in stripped' \/ Handled(f)'
  <2>1. f \in stripped \/ Handled(f)
    BY <1>6, <1>7 DEF HandledPart
  <2> QED BY <1>1, <1>3, <2>1 DEF Handled
<1>8. CASE online
  <2>1. toBroker \in Seq(Requests) /\ toBroker' = Append(toBroker, r)
    BY <1>1, <1>8 DEF NetTypes
  <2>2. IF r.f = f THEN r.type = "SUBSCRIBE" ELSE EndsSubscribed(f)
    BY <1>1, <1>5, <2>1, LastDecides
  <2>3. CASE f = g
    <3>1. call[t].kind # "unsub" /\ pc'[t] = "add"
      BY <1>3, <1>5, <2>2, <2>3
    <3>2. Handled(f)'
      BY <1>1, <1>4, <2>3, <3>1 DEF Handled
    <3> QED BY <1>2, <1>3, <3>1, <3>2
  <2>4. CASE f # g
    <3>1. f \in stripped' \/ Handled(f)'
      BY <1>5, <1>7, <2>2, <2>4
    <3> QED BY <1>1, <1>2, <1>3, <2>4, <3>1
  <2> QED BY <2>3, <2>4
<1>9. CASE ~online
  <2>1. UNCHANGED <<toBroker, broker>>
    BY <1>1, <1>9
  <2>2. EndsSubscribed(f)
    BY <2>1 DEF EndsSubscribed
  <2>3. call[t].kind = "unsub" => f # g
    BY <1>1, <1>9
  <2> QED BY <1>1, <1>2, <1>3, <1>7, <2>2, <2>3
<1> QED BY <1>8, <1>9

LEMMA AddHandled ==
  ASSUME IInv, HandledPart, NEW t \in Threads, AddHandler(t)
  PROVE  HandledPart'
<1> USE DEF IInv
<1> DEFINE l == list_sub_handle
           g == call[t].h
<1>1. /\ pc[t] = "add" /\ pc' = [pc EXCEPT ![t] = "return"]
      /\ l' = IF Contains(l, g) THEN l ELSE Append(l, g)
      /\ call' = [call EXCEPT ![t].ret = call[t].id]
      /\ stripped' = stripped \ {FilterOf[g]}
      /\ UNCHANGED <<toBroker, broker, unsubLost>>
  BY DEF AddHandler, AddedTo, Goto, net
<1>2. Elsewhere(t) /\ pc'[t] = "return"
  BY <1>1 DEF Elsewhere, CallTypes
<1>3. g \in Handlers
  BY <1>1 DEF CallPart, CallOK
<1>4. /\ \A i \in 1 .. Len(l) : i \in 1 .. Len(l') /\ l'[i] = l[i]
      /\ \E i \in 1 .. Len(l') : l'[i] = g
  <2>1. l \in Seq(Handlers)
    BY DEF ListTypes
  <2>2. /\ Len(Append(l, g)) = Len(l) + 1 /\ Len(l) \in Nat
        /\ \A j \in 1 .. Len(l) : Append(l, g)[j] = l[j]
        /\ Append(l, g)[Len(l) + 1] = g
    BY <1>3, <2>1, AppendFacts
  <2> HIDE DEF l, g
  <2>3. CASE Contains(l, g)
    BY <1>1, <2>3 DEF Contains
  <2>4. CASE ~Contains(l, g)
    <3>1. l' = Append(l, g)
      BY <1>1, <2>4
    <3>2. Len(l) + 1 \in 1 .. Len(l')
      BY <2>2, <3>1
    <3> QED BY <2>2, <3>1, <3>2
  <2> QED BY <2>3, <2>4
<1> SUFFICES ASSUME NEW f \in Filters \ unsubLost', EndsSubscribed(f)'
             PROVE  (f \in stripped' \/ Handled(f)') /\ \A u \in Threads : pc'[u] = "remove" => FilterOf[call'[u].h] # f
  BY DEF HandledPart
<1>5. (f \in stripped \/ Handled(f)) /\ \A u \in Threads : pc[u] = "remove" => FilterOf[call[u].h] # f
  BY <1>1 DEF HandledPart, EndsSubscribed
<1>s. CASE f = FilterOf[g]
  <2>1. Handled(f)'
    BY <1>3, <1>4, <1>s DEF Handled
  <2> QED BY <1>2, <1>5, <2>1 DEF Elsewhere
<1>o. CASE f # FilterOf[g] /\ f \in stripped
  BY <1>1, <1>2, <1>5, <1>o DEF Elsewhere
<1> SUFFICES ASSUME f \notin stripped
             PROVE  (f \in stripped' \/ Handled(f)') /\ \A u \in Threads : pc'[u] = "remove" => FilterOf[call'[u].h] # f
  BY <1>s, <1>o
<1>6. PICK h \in Handlers : /\ FilterOf[h] = f
                            /\ \/ \E i \in 1 .. Len(l) : l[i] = h
                               \/ \E u \in Threads : pc[u] = "add" /\ call[u].h = h
  BY <1>5 DEF Handled
<1>7. \/ \E i \in 1 .. Len(l') : l'[i] = h
      \/ \E u \in Threads : pc'[u] = "add" /\ call'[u].h = h
  <2>1. CASE \E i \in 1 .. Len(l) : l[i] = h
    BY <1>4, <2>1
  <2>2. ASSUME NEW u \in Threads, pc[u] = "add", call[u].h = h
        PROVE  \/ \E i \in 1 .. Len(l') : l'[i] = h
               \/ \E v \in Threads : pc'[v] = "add" /\ call'[v].h = h
    <3>1. CASE u = t
      BY <1>4, <2>2, <3>1
    <3>2. CASE u # t
      BY <1>2, <2>2, <3>2 DEF Elsewhere
    <3> QED BY <3>1, <3>2
  <2> QED BY <1>6, <2>1, <2>2
<1>8. Handled(f)'
  BY <1>6, <1>7 DEF Handled
<1> QED BY <1>2, <1>5, <1>8 DEF Elsewhere

(* A handler that is removed is of the filter the call has unsubscribed,   *)
(* which the broker is not going to deliver as long as the lock is held,   *)
(* or its filter is stripped.                                              *)
LEMMA RemoveHandled ==
  ASSUME IInv, HandledPart, NEW t \in Threads, RemoveHandlers(t)
  PROVE  HandledPart'
<1> USE DEF IInv
<1> DEFINE l == list_sub_handle
           gone == Found(t)
<1>1. /\ pc[t] = "remove" /\ pc' = [pc EXCEPT ![t] = "return"] /\ l' = Without(l, gone)
      /\ call' = [call EXCEPT ![t].ret = call[t].id]
      /\ stripped' = stripped \cup AlsoTaken(t)
      /\ UNCHANGED <<toBroker, broker, unsubLost>>
  BY DEF RemoveHandlers, Goto, net
<1>2. Elsewhere(t) /\ pc'[t] = "return"
  BY <1>1 DEF Elsewhere, CallTypes
<1>3. call[t].h \in Handlers
  BY <1>1 DEF CallPart, CallOK
<1>4. l \in Seq(Handlers)
  BY DEF ListTypes
<1>5. \A j \in 1 .. Len(l) : l[j] \notin gone => \E i \in 1 .. Len(l') : l'[i] = l[j]
  <2> HIDE DEF l, gone
  <2>1. PICK f : Numbers(f, l', l, gone, Len(l))
    BY <1>1, <1>4, WithoutNumbers
  <2> QED BY <2>1 DEF Numbers
<1> SUFFICES ASSUME NEW f \in Filters \ unsubLost', EndsSubscribed(f)'
             PROVE  (f \in stripped' \/ Handled(f)') /\ \A u \in Threads : pc'[u] = "remove" => FilterOf[call'[u].h] # f
  BY DEF HandledPart
<1>6. (f \in stripped \/ Handled(f)) /\ \A u \in Threads : pc[u] = "remove" => FilterOf[call[u].h] # f
  BY <1>1 DEF HandledPart, EndsSubscribed
<1>7. ASSUME f \notin stripped' PROVE Handled(f)'
  <2>1. PICK h \in Handlers : /\ FilterOf[h] = f
                              /\ \/ \E i \in 1 .. Len(l) : l[i] = h
                                 \/ \E u \in Threads : pc[u] = "add" /\ call[u].h = h
    BY <1>1, <1>6, <1>7 DEF Handled
  <2>2. ASSUME NEW i \in 1 .. Len(l), l[i] = h PROVE h \notin gone
    <3>1. h \in ToSet(l)
      <4> HIDE DEF l
      <4> QED BY <1>4, <2>2 DEF ToSet
    <3>2. f # FilterOf[call[t].h]
      BY <1>1, <1>6
    <3>3. h \in gone => f \in AlsoTaken(t)
      BY <2>1, <3>1, <3>2 DEF AlsoTaken
    <3> QED BY <1>1, <1>7, <3>3
  <2>3. \/ \E i \in 1 .. Len(l') : l'[i] = h
        \/ \E u \in Threads : pc'[u] = "add" /\ call'[u].h = h
    <3> HIDE DEF l, gone
    <3> QED BY <1>1, <1>2, <1>5, <2>1, <2>2 DEF Elsewhere
  <2> QED BY <2>1, <2>3 DEF Handled
<1> QED BY <1>2, <1>6, <1>7 DEF Elsewhere

(* Max of a set of positions is its greatest element.                      *)
LEMMA MaxIsGreatest ==
  ASSUME NEW n \in Nat, NEW T \in SUBSET (1 .. n), T # {}
  PROVE  Max(T) \in T /\ \A k \in T : Max(T) >= k
<1>1. T \in SUBSET (0 .. n)
  OBVIOUS
<1>2. \E m \in T : \A k \in T : k <= m
  BY <1>1, GreatestElement
<1>3. \E m \in T : \A k \in T : m >= k
  BY <1>1, <1>2
<1> QED BY <1>3 DEF Max

(* With the connection a request is lost.  A filter without an UNSUBSCRIBE *)
(* under way was going to be delivered before, too.                        *)
LEMMA ReconnectNoneNew ==
  ASSUME IInv, Reconnected PROVE NoneNew
<1> USE DEF IInv
<1> DEFINE q == toBroker
<1>1. /\ unsubLost' = unsubLost \cup {q[i].f : i \in {j \in DOMAIN q : q[j].type = "UNSUBSCRIBE"}}
      /\ q' = <<>> /\ broker' = broker
  BY DEF Reconnected
<1>2. q \in Seq(Requests) /\ DOMAIN q = 1 .. Len(q) /\ Len(q) \in Nat
  BY DEF NetTypes
<1>3. \A j \in 1 .. Len(q) : q[j].type \in {"SUBSCRIBE", "UNSUBSCRIBE"}
  <2>1. \A j \in 1 .. Len(q) : q[j] \in Requests
    BY <1>2
  <2>2. \A r \in Requests : r.type \in {"SUBSCRIBE", "UNSUBSCRIBE"}
    BY DEF Requests
  <2> HIDE DEF q, Requests
  <2> QED BY <2>1, <2>2
<1> SUFFICES ASSUME NEW f \in Filters \ unsubLost', EndsSubscribed(f)'
             PROVE  f \notin unsubLost /\ EndsSubscribed(f)
  BY DEF NoneNew
<1>4. f \in broker /\ f \notin unsubLost
  BY <1>1 DEF EndsSubscribed
<1> HIDE DEF q
<1>5. \A j \in 1 .. Len(q) : q[j].f = f => q[j].type = "SUBSCRIBE"
  BY <1>1, <1>2, <1>3
<1> DEFINE about == {j \in 1 .. Len(q) : q[j].f = f}
<1>6. CASE about = {}
  BY <1>4, <1>6 DEF EndsSubscribed, q
<1>7. CASE about # {}
  <2>1. about \in SUBSET (1 .. Len(q))
    OBVIOUS
  <2>2. Max(about) \in about /\ \A k \in about : Max(about) >= k
    <3> HIDE DEF about
    <3> QED BY <1>2, <1>7, <2>1, MaxIsGreatest
  <2> DEFINE m == Max(about)
  <2>3. m \in 1 .. Len(q) /\ q[m].f = f /\ q[m].type = "SUBSCRIBE"
    BY <1>5, <2>2
  <2>4. \A j \in 1 .. Len(q) : j > m => q[j].f # f
    BY <2>2, <2>3
  <2> HIDE DEF m
  <2> QED BY <1>4, <2>3, <2>4 DEF EndsSubscribed, q
<1> QED BY <1>4, <1>6, <1>7

LEMMA BeginHandled ==
  ASSUME IInv, HandledPart, NEW t \in Threads, YieldBegin(t) \/ EventCallback(t)
  PROVE  HandledPart'
<1>1. NoneNew
  <2>1. CASE UNCHANGED net
    BY <2>1, SameRequests DEF net
  <2>2. CASE Reconnected
    BY <2>2, ReconnectNoneNew
  <2> QED BY <2>1, <2>2 DEF YieldBegin, EventCallback
<1>2. Elsewhere(t) /\ pc[t] # "add" /\ pc'[t] # "remove" /\ UNCHANGED <<list_sub_handle, stripped>>
  <2>1. CASE pc[t] = "idle" /\ UNCHANGED pc
    BY <2>1 DEF YieldBegin, EventCallback, Elsewhere, api
  <2>2. CASE YieldBegin(t) /\ pc[t] = "yield" /\ Goto(t, "wait")
    BY <2>2 DEF YieldBegin, Elsewhere, Goto, IInv, CallTypes
  <2> QED BY <2>1, <2>2 DEF YieldBegin, EventCallback, api
<1> QED BY <1>1, <1>2, HandledKeeps

(* Steps of a yield touch neither calls nor requests.                      *)
LEMMA YieldHandled ==
  ASSUME HandledPart, NEW t \in Threads, YieldStep(t)
  PROVE  HandledPart'
<1> DEFINE Fine == UNCHANGED <<pc, call, list_sub_handle, stripped, toBroker, broker, unsubLost>>
<1> USE DEF api, net, client
<1>1. EventReturns(t) \/ ReadPacket(t) \/ ReadFails(t) \/ YieldEnd(t) => Fine
  BY DEF EventReturns, ReadPacket, ReadFails, YieldEnd
<1>2. iotx_mc_handle_recv_SUBACK(t) \/ iotx_mc_handle_recv_UNSUBACK(t) => Fine
  BY DEF iotx_mc_handle_recv_SUBACK, iotx_mc_handle_recv_UNSUBACK
<1>3. iotx_mc_handle_recv_PUBLISH(t) \/ CallbackReturns(t) => Fine
  BY DEF iotx_mc_handle_recv_PUBLISH, CallbackReturns
<1>d. iotx_mc_deliver_message(t) => Fine
  BY ZenonT(60) DEF iotx_mc_deliver_message
<1>4. iotx_mc_parse_identity_response(t) \/ IdentityReturns(t) => Fine
  BY DEF iotx_mc_parse_identity_response, IdentityReturns
<1>5. Fine
  BY <1>1, <1>2, <1>3, <1>d, <1>4 DEF YieldStep
<1> QED BY <1>5, SameRequests, HandledStays

(* The broker takes the first request: a later one still decides, or it    *)
(* was the last.                                                           *)
LEMMA BrokerHandled ==
  ASSUME IInv, HandledPart, BrokerStep
  PROVE  HandledPart'
<1> USE DEF IInv
<1> DEFINE q == toBroker
<1>1. /\ q # <<>> /\ q' = Tail(q)
      /\ UNCHANGED <<pc, call, list_sub_handle, stripped, unsubLost>>
  BY DEF BrokerStep, api, client
<1>2. \A f \in broker' : f \in broker \/ (f = Head(q).f /\ Head(q).type = "SUBSCRIBE")
  BY DEF BrokerStep
<1>3. \A f \in broker' : f = Head(q).f => Head(q).type = "SUBSCRIBE"
  BY DEF BrokerStep
<1>4. /\ Len(q') = Len(q) - 1 /\ Len(q) \in Nat \ {0} /\ Head(q) = q[1]
      /\ \A j \in 1 .. Len(q') : q'[j] = q[j + 1] /\ j + 1 \in 1 .. Len(q)
  BY <1>1, TailFacts DEF NetTypes
<1>5. \A j \in 1 .. Len(q) : j = 1 \/ (j - 1 \in 1 .. Len(q') /\ q'[j - 1] = q[j])
  BY <1>4
<1>6. ASSUME NEW f \in Filters, EndsSubscribed(f)' PROVE EndsSubscribed(f)
  <2>1. \/ \E k \in 1 .. Len(q') : /\ q'[k].f = f /\ q'[k].type = "SUBSCRIBE"
                                   /\ \A j \in 1 .. Len(q') : j > k => q'[j].f # f
        \/ f \in broker' /\ \A j \in 1 .. Len(q') : q'[j].f # f
    BY <1>6 DEF EndsSubscribed
  <2> HIDE DEF q
  <2>2. ASSUME NEW k \in 1 .. Len(q'), q'[k].f = f, q'[k].type = "SUBSCRIBE",
               \A j \in 1 .. Len(q') : j > k => q'[j].f # f
        PROVE  EndsSubscribed(f)
    <3>1. k + 1 \in 1 .. Len(q) /\ q'[k] = q[k + 1]
      BY <1>4, <2>2
    <3>0. q[k + 1].f = f /\ q[k + 1].type = "SUBSCRIBE"
      BY <2>2, <3>1
    <3>2. ASSUME NEW j \in 1 .. Len(q), j > k + 1 PROVE q[j].f # f
      <4>1. j # 1 /\ j - 1 > k
        BY <3>2
      <4>2. j - 1 \in 1 .. Len(q') /\ q'[j - 1] = q[j]
        BY <1>5, <4>1
      <4> QED BY <2>2, <4>1, <4>2
    <3> QED BY <3>0, <3>1, <3>2 DEF EndsSubscribed, q
  <2>3. ASSUME f \in broker', \A j \in 1 .. Len(q') : q'[j].f # f
        PROVE  EndsSubscribed(f)
    <3>1. CASE q[1].f = f
      <4>1. 1 \in 1 .. Len(q) /\ q[1].f = f /\ q[1].type = "SUBSCRIBE"
        BY <1>3, <1>4, <2>3, <3>1
      <4>2. \A j \in 1 .. Len(q) : j > 1 => q[j].f # f
        BY <1>5, <2>3
      <4> QED BY <4>1, <4>2 DEF EndsSubscribed, q
    <3>2. CASE q[1].f # f
      <4>1. f \in broker
        BY <1>2, <1>4, <2>3, <3>2
      <4>2. \A j \in 1 .. Len(q) : q[j].f # f
        BY <1>5, <2>3, <3>2
      <4> QED BY <4>1, <4>2 DEF EndsSubscribed, q
    <3> QED BY <3>1, <3>2
  <2> QED BY <2>1, <2>2, <2>3
<1>7. NoneNew
  BY <1>1, <1>6 DEF NoneNew
<1> QED BY <1>1, <1>7, HandledStays

LEMMA StepHandled ==
  ASSUME IInv, HandledPart, [Next]_vars
  PROVE  HandledPart'
<1>1. CASE UNCHANGED vars
  BY <1>1, SameRequests, HandledStays DEF vars, api, net, client
<1>2. ASSUME NEW t \in Threads, NEW a \in Apis, BeginCall(t, a[1], a[2])
      PROVE  HandledPart'
  BY <1>2, ApiArguments, CallHandled
<1>3. ASSUME NEW t \in Threads, CallStep(t) PROVE HandledPart'
  BY <1>3, CallHandled, SendHandled, AddHandled, RemoveHandled DEF CallStep
<1>4. ASSUME NEW t \in Threads, SyncTimeout(t) \/ YieldBegin(t) \/ EventCallback(t) PROVE HandledPart'
  BY <1>4, CallHandled, BeginHandled
<1>5. ASSUME NEW t \in Threads, YieldStep(t) PROVE HandledPart'
  BY <1>5, YieldHandled
<1>6. CASE BrokerStep
  BY <1>6, BrokerHandled
<1>7. ASSUME NEW f \in Filters, BrokerPublish(f) PROVE HandledPart'
  BY <1>7, SameRequests, HandledStays DEF BrokerPublish, api, client
<1> QED BY <1>1, <1>2, <1>3, <1>4, <1>5, <1>6, <1>7 DEF Next

(* While the broker delivers a filter, or is about to, a handler of it is  *)
(* listed or being added, whatever filters match each other: unless its    *)
(* UNSUBSCRIBE was lost, or MQTTUnsubscribe of another filter has taken    *)
(* its handlers and none was added since.                                  *)
THEOREM SubscribedHandled == Spec => []SubscribedIsHandled
<1>1. Init => HandledPart
  BY DEF Init, HandledPart, EndsSubscribed
<1>2. IInv /\ HandledPart /\ [Next]_vars => HandledPart'
  BY StepHandled
<1>3. IInv /\ HandledPart => SubscribedIsHandled
  <2> SUFFICES ASSUME IInv, HandledPart, NEW f \in Filters \ (unsubLost \cup stripped),
                      WillBeSubscribed(f)
               PROVE  \E h \in Handlers :
                        /\ FilterOf[h] = f
                        /\ \/ Contains(list_sub_handle, h)
                           \/ \E t \in Threads : pc[t] = "add" /\ call[t].h = h
    BY DEF SubscribedIsHandled
  <2> DEFINE q == toBroker
             about == {i \in DOMAIN q : q[i].f = f}
  <2>1. DOMAIN q = 1 .. Len(q) /\ Len(q) \in Nat
    BY DEF IInv, NetTypes
  <2>2. EndsSubscribed(f)
    <3>1. CASE about = {}
      <4>1. f \in broker
        BY <3>1 DEF WillBeSubscribed
      <4>2. \A j \in 1 .. Len(q) : q[j].f # f
        BY <2>1, <3>1
      <4> QED BY <4>1, <4>2 DEF EndsSubscribed
    <3>2. CASE about # {}
      <4>1. q[Max(about)].type = "SUBSCRIBE"
        BY <3>2 DEF WillBeSubscribed
      <4>2. about \in SUBSET (1 .. Len(q))
        BY <2>1
      <4>3. Max(about) \in about /\ \A k \in about : Max(about) >= k
        <5> HIDE DEF about
        <5> QED BY <2>1, <3>2, <4>2, MaxIsGreatest
      <4> DEFINE m == Max(about)
      <4>4. m \in 1 .. Len(q) /\ q[m].f = f /\ q[m].type = "SUBSCRIBE"
        BY <2>1, <4>1, <4>3
      <4>5. ASSUME NEW j \in 1 .. Len(q), j > m PROVE q[j].f # f
        <5>1. j \in about => m >= j
          BY <4>3
        <5>2. j \notin about
          <6> HIDE DEF about, m
          <6> QED BY <4>4, <4>5, <5>1
        <5> QED BY <2>1, <5>2
      <4> HIDE DEF m
      <4> QED BY <4>4, <4>5 DEF EndsSubscribed
    <3> QED BY <3>1, <3>2
  <2>3. Handled(f)
    BY <2>2 DEF HandledPart
  <2> QED BY <2>3 DEF Handled, Contains
<1> QED BY <1>1, <1>2, <1>3, Inductive, PTL DEF Spec

-----------------------------------------------------------------------------
(* Topics.  MqttTopic for every alphabet and every length of names and     *)
(* filters.  The search goes through both strings level by level: the      *)
(* levels behind it are covered, and in the level it is in either the      *)
(* characters agree so far or a "+" has taken it whole.                    *)
(* What the cuts of a topic are: its ends and its separators, in order.    *)
AreCuts(c, s) ==
    /\ c \in Seq(Nat) /\ Len(c) >= 2
    /\ c[1] = 0 /\ c[Len(c)] = Len(s) + 1
    /\ \A i, j \in 1 .. Len(c) : i < j => c[i] < c[j]
    /\ \A k \in 2 .. Len(c) - 1 : c[k] \in 1 .. Len(s) /\ s[c[k]] = "/"
    /\ \A i \in 1 .. Len(s) : s[i] = "/" => \E k \in 2 .. Len(c) - 1 : c[k] = i

(* Slashes collects the places of the separators, in order.                *)
LEMMA SlashesFacts ==
  ASSUME NEW S, NEW s \in Seq(S)
  PROVE  LET r == Slashes(s)
         IN  /\ r \in Seq(Nat) /\ Len(r) \in Nat
             /\ \A i, j \in 1 .. Len(r) : i < j => r[i] < r[j]
             /\ \A i \in 1 .. Len(r) : r[i] \in 1 .. Len(s) /\ s[r[i]] = "/"
             /\ \A j \in 1 .. Len(s) : s[j] = "/" => \E i \in 1 .. Len(r) : r[i] = j
<1> DEFINE p == [i \in 1 .. Len(s) |-> i]
           gone == {i \in 1 .. Len(s) : s[i] # "/"}
           r == Slashes(s)
<1>1. Len(s) \in Nat
  OBVIOUS
<1>2. p \in Seq(Nat) /\ Len(p) = Len(s) /\ \A i \in 1 .. Len(s) : p[i] = i
  BY <1>1
<1>3. r = Without(p, gone)
  BY DEF Slashes
<1>4. \A i \in 1 .. Len(s) : i \notin gone <=> s[i] = "/"
  OBVIOUS
<1> HIDE DEF p, gone, r
<1>5. r \in Seq(Nat) /\ \E f : Numbers(f, r, p, gone, Len(s))
  BY <1>2, <1>3, WithoutNumbers
<1>6. PICK f : Numbers(f, r, p, gone, Len(s))
  BY <1>5
<1>7. Len(r) \in Nat
  BY <1>5
<1>8. \A i \in 1 .. Len(r) : f[i] \in 1 .. Len(s) /\ r[i] = f[i] /\ r[i] \notin gone
  BY <1>2, <1>6, <1>7 DEF Numbers
<1>9. \A i, j \in 1 .. Len(r) : i < j => r[i] < r[j]
  BY <1>6, <1>8 DEF Numbers
<1>10. \A j \in 1 .. Len(s) : s[j] = "/" => \E i \in 1 .. Len(r) : r[i] = j
  <2> SUFFICES ASSUME NEW j \in 1 .. Len(s), s[j] = "/" PROVE \E i \in 1 .. Len(r) : r[i] = j
    OBVIOUS
  <2>1. p[j] \notin gone
    BY <1>2, <1>4
  <2>2. PICK i \in 1 .. Len(r) : f[i] = j
    BY <1>6, <2>1 DEF Numbers
  <2> QED BY <1>8, <2>2
<1> QED BY <1>4, <1>5, <1>7, <1>8, <1>9, <1>10 DEF r

(* Cuts is the sequence it is meant to be.                                 *)
LEMMA CutsFacts ==
  ASSUME NEW S, NEW s \in Seq(S)
  PROVE  AreCuts(Cuts(s), s)
<1> DEFINE r == Slashes(s)
           c == Cuts(s)
           n == Len(r)
<1>1. /\ r \in Seq(Nat) /\ n \in Nat /\ Len(s) \in Nat
      /\ \A i, j \in 1 .. n : i < j => r[i] < r[j]
      /\ \A i \in 1 .. n : r[i] \in 1 .. Len(s) /\ s[r[i]] = "/"
      /\ \A j \in 1 .. Len(s) : s[j] = "/" => \E i \in 1 .. n : r[i] = j
  BY SlashesFacts
<1>2. c = (<<0>> \o r) \o <<Len(s) + 1>>
  BY DEF Cuts
<1> HIDE DEF r, c
<1>3. /\ <<0>> \o r \in Seq(Nat) /\ Len(<<0>> \o r) = n + 1
      /\ (<<0>> \o r)[1] = 0 /\ \A i \in 1 .. n : (<<0>> \o r)[i + 1] = r[i]
  BY <1>1
<1>4. /\ c \in Seq(Nat) /\ Len(c) = n + 2
      /\ c[1] = 0 /\ c[n + 2] = Len(s) + 1 /\ \A i \in 1 .. n : c[i + 1] = r[i]
  <2> DEFINE q == <<0>> \o r
  <2>1. /\ q \in Seq(Nat) /\ Len(q) = n + 1
        /\ q[1] = 0 /\ \A i \in 1 .. n : q[i + 1] = r[i]
    BY <1>3
  <2>2. c = q \o <<Len(s) + 1>>
    BY <1>2
  <2> HIDE DEF q
  <2>3. c \in Seq(Nat) /\ Len(c) = n + 2 /\ c[n + 2] = Len(s) + 1
        /\ \A i \in 1 .. n + 1 : c[i] = q[i]
    BY <1>1, <2>1, <2>2
  <2>4. 1 \in 1 .. n + 1 /\ \A i \in 1 .. n : i + 1 \in 1 .. n + 1
    BY <1>1
  <2> QED BY <2>1, <2>3, <2>4
<1>5. \A k \in 2 .. Len(c) - 1 : k - 1 \in 1 .. n /\ c[k] = r[k - 1]
  <2> SUFFICES ASSUME NEW k \in 2 .. Len(c) - 1 PROVE k - 1 \in 1 .. n /\ c[k] = r[k - 1]
    OBVIOUS
  <2>1. k - 1 \in 1 .. n /\ k = (k - 1) + 1
    BY <1>1, <1>4
  <2> QED BY <1>4, <2>1
<1>6. \A k \in 2 .. Len(c) - 1 : c[k] \in 1 .. Len(s) /\ s[c[k]] = "/"
  <2> SUFFICES ASSUME NEW k \in 2 .. Len(c) - 1 PROVE c[k] \in 1 .. Len(s) /\ s[c[k]] = "/"
    OBVIOUS
  <2>1. PICK i \in 1 .. n : c[k] = r[i]
    BY <1>5
  <2> QED BY <1>1, <2>1
<1>7. \A i \in 1 .. Len(s) : s[i] = "/" => \E k \in 2 .. Len(c) - 1 : c[k] = i
  <2> SUFFICES ASSUME NEW i \in 1 .. Len(s), s[i] = "/"
               PROVE  \E k \in 2 .. Len(c) - 1 : c[k] = i
    OBVIOUS
  <2>1. PICK j \in 1 .. n : r[j] = i
    BY <1>1
  <2>2. j + 1 \in 2 .. Len(c) - 1 /\ c[j + 1] = i
    BY <1>1, <1>4, <2>1, SMTT(20)
  <2> QED BY <2>2
<1>8. \A i, j \in 1 .. Len(c) : i < j => c[i] < c[j]
  <2> SUFFICES ASSUME NEW i \in 1 .. Len(c), NEW j \in 1 .. Len(c), i < j PROVE c[i] < c[j]
    OBVIOUS
  <2>1. CASE i = 1
    <3>1. j \in 2 .. Len(c) - 1 \/ j = n + 2
      BY <1>1, <1>4, <2>1
    <3> QED BY <1>1, <1>4, <1>6, <2>1, <3>1
  <2>2. CASE j = n + 2 /\ i # 1
    <3>1. i \in 2 .. Len(c) - 1
      BY <1>1, <1>4, <2>2
    <3> QED BY <1>1, <1>4, <1>6, <2>2, <3>1
  <2>3. CASE i # 1 /\ j # n + 2
    <3>1. i \in 2 .. Len(c) - 1 /\ j \in 2 .. Len(c) - 1 /\ i - 1 < j - 1
      BY <1>1, <1>4, <2>3, SMTT(20)
    <3> QED BY <1>1, <1>5, <3>1
  <2> QED BY <2>1, <2>2, <2>3
<1> QED BY <1>1, <1>4, <1>6, <1>7, <1>8 DEF AreCuts, c

(* Where level k of s lies: behind cut lo and before cut hi, with no       *)
(* separator inside.                                                       *)
LevelAt(s, k, lo, hi) ==
    /\ lo \in 0 .. Len(s) /\ hi \in 1 .. Len(s) + 1 /\ lo < hi
    /\ \A i \in lo + 1 .. hi - 1 : s[i] # "/"
    /\ hi <= Len(s) => s[hi] = "/" /\ k < Len(Levels(s)) 
    /\ k < Len(Levels(s)) => hi <= Len(s) /\ s[hi] = "/"
    /\ Len(Levels(s)[k]) = hi - lo - 1
    /\ \A i \in 1 .. hi - lo - 1 : Levels(s)[k][i] = s[lo + i]

(* Each level lies between two cuts.                                       *)
LEMMA LevelFacts ==
  ASSUME NEW S, NEW s \in Seq(S)
  PROVE  /\ Levels(s) \in Seq(Seq(S)) /\ Len(Levels(s)) \in Nat \ {0}
         /\ Cuts(s) \in Seq(Nat) /\ Len(Cuts(s)) = Len(Levels(s)) + 1
         /\ Cuts(s)[1] = 0 /\ Cuts(s)[Len(Levels(s)) + 1] = Len(s) + 1
         /\ \A k \in 1 .. Len(Levels(s)) : LevelAt(s, k, Cuts(s)[k], Cuts(s)[k + 1])
<1> DEFINE c == Cuts(s)
           L == Levels(s)
           n == Len(c) - 1
<1>1. AreCuts(c, s) /\ Len(s) \in Nat
  BY CutsFacts
<1>2. L = [k \in 1 .. n |-> SubSeq(s, c[k] + 1, c[k + 1] - 1)]
  BY DEF Levels
<1> HIDE DEF c, L
<1>3. c \in Seq(Nat) /\ Len(c) \in Nat /\ n \in Nat /\ n >= 1 /\ Len(c) = n + 1
  BY <1>1 DEF AreCuts
<1> HIDE DEF n
<1>4. ASSUME NEW k \in 1 .. n
      PROVE  /\ c[k] \in 0 .. Len(s) /\ c[k + 1] \in 1 .. Len(s) + 1 /\ c[k] < c[k + 1]
             /\ \A i \in c[k] + 1 .. c[k + 1] - 1 : s[i] # "/"
             /\ k = n => c[k + 1] = Len(s) + 1
             /\ k < n => c[k + 1] \in 1 .. Len(s) /\ s[c[k + 1]] = "/"
  <2>1. k \in 1 .. Len(c) /\ k + 1 \in 1 .. Len(c) /\ k < k + 1
    BY <1>3
  <2>2. c[k] < c[k + 1] /\ c[k] \in Nat /\ c[k + 1] \in Nat
    BY <1>1, <1>3, <2>1 DEF AreCuts
  <2>3. k = n => c[k + 1] = Len(s) + 1
    BY <1>1, <1>3 DEF AreCuts
  <2>4. k < n => c[k + 1] \in 1 .. Len(s) /\ s[c[k + 1]] = "/"
    <3>1. k < n => k + 1 \in 2 .. Len(c) - 1
      BY <1>3
    <3> QED BY <1>1, <3>1 DEF AreCuts
  <2>5. ASSUME NEW i \in c[k] + 1 .. c[k + 1] - 1, s[i] = "/" PROVE FALSE
    <3>1. i \in 1 .. Len(s) /\ c[k] < i /\ i < c[k + 1]
      BY <1>1, <1>3, <2>2, <2>3, <2>4
    <3>2. PICK m \in 2 .. Len(c) - 1 : c[m] = i
      BY <1>1, <2>5, <3>1 DEF AreCuts
    <3>3. m \in 1 .. Len(c) /\ (m < k \/ m = k \/ m = k + 1 \/ k + 1 < m)
      BY <1>3
    <3>4. m < k => c[m] < c[k]
      BY <1>1, <2>1, <3>3 DEF AreCuts
    <3>5. k + 1 < m => c[k + 1] < c[m]
      BY <1>1, <2>1, <3>3 DEF AreCuts
    <3> QED BY <2>2, <3>1, <3>2, <3>3, <3>4, <3>5
  <2>6. k = n \/ k < n
    BY <1>3
  <2>7. c[k] \in 0 .. Len(s) /\ c[k + 1] \in 1 .. Len(s) + 1
    BY <1>1, <2>2, <2>3, <2>4, <2>6
  <2> QED BY <2>2, <2>3, <2>4, <2>5, <2>7
<1>5. ASSUME NEW k \in 1 .. n
      PROVE  /\ SubSeq(s, c[k] + 1, c[k + 1] - 1) \in Seq(S)
             /\ Len(SubSeq(s, c[k] + 1, c[k + 1] - 1)) = c[k + 1] - c[k] - 1
             /\ \A i \in 1 .. c[k + 1] - c[k] - 1 :
                  SubSeq(s, c[k] + 1, c[k + 1] - 1)[i] = s[c[k] + i]
  <2>1. PICK a : a = c[k] + 1
    OBVIOUS
  <2>2. PICK b : b = c[k + 1] - 1
    OBVIOUS
  <2>3. c[k] \in 0 .. Len(s) /\ c[k + 1] \in 1 .. Len(s) + 1 /\ c[k] < c[k + 1]
    BY <1>4
  <2>4. a \in Int /\ b \in Int /\ a \in 1 .. Len(s) + 1 /\ b \in 0 .. Len(s) /\ a <= b + 1
        /\ c[k] = a - 1 /\ c[k + 1] = b + 1
    BY <1>1, <2>1, <2>2, <2>3, SMTT(20)
  <2>5. \A i \in a .. b : s[i] \in S
    BY <1>1, <2>4
  <2>6. /\ SubSeq(s, a, b) \in Seq(S)
        /\ Len(SubSeq(s, a, b)) = IF a <= b THEN b - a + 1 ELSE 0
        /\ \A i \in 1 .. b - a + 1 : SubSeq(s, a, b)[i] = s[a + i - 1]
    BY <2>4, <2>5, SubSeqProperties
  <2>7. c[k + 1] - c[k] - 1 = b - a + 1 /\ \A i \in 1 .. b - a + 1 : c[k] + i = a + i - 1
    BY <2>4
  <2>8. Len(SubSeq(s, a, b)) = b - a + 1
    BY <2>4, <2>6
  <2> QED BY <2>1, <2>2, <2>6, <2>7, <2>8
<1>6. L \in Seq(Seq(S)) /\ Len(L) = n /\ \A k \in 1 .. n : L[k] = SubSeq(s, c[k] + 1, c[k + 1] - 1)
  <2>1. \A k \in 1 .. n : SubSeq(s, c[k] + 1, c[k + 1] - 1) \in Seq(S)
    BY <1>5
  <2>2. L \in [1 .. n -> Seq(S)] /\ \A k \in 1 .. n : L[k] = SubSeq(s, c[k] + 1, c[k + 1] - 1)
    BY <1>2, <2>1, Zenon
  <2>3. L \in Seq(Seq(S)) /\ Len(L) = n
    BY <1>3, <2>2
  <2> QED BY <2>2, <2>3
<1>7. ASSUME NEW k \in 1 .. n PROVE LevelAt(s, k, c[k], c[k + 1])
  <2>1. Len(L[k]) = c[k + 1] - c[k] - 1 /\ \A i \in 1 .. c[k + 1] - c[k] - 1 : L[k][i] = s[c[k] + i]
    <3>1. L[k] = SubSeq(s, c[k] + 1, c[k + 1] - 1)
      BY <1>6, Zenon
    <3>2. /\ Len(SubSeq(s, c[k] + 1, c[k + 1] - 1)) = c[k + 1] - c[k] - 1
          /\ \A i \in 1 .. c[k + 1] - c[k] - 1 :
               SubSeq(s, c[k] + 1, c[k + 1] - 1)[i] = s[c[k] + i]
      BY <1>5, Zenon
    <3> QED BY <3>1, <3>2, Zenon
  <2>2. k = n \/ k < n
    BY <1>3
  <2>3. Len(Levels(s)) = n
    BY <1>6 DEF L
  <2>4. c[k + 1] <= Len(s) <=> k < n
    <3>1. CASE k = n
      <4>1. c[k + 1] = Len(s) + 1
        BY <1>4, <3>1
      <4> QED BY <1>1, <1>3, <3>1, <4>1
    <3>2. CASE k < n
      <4>1. c[k + 1] \in 1 .. Len(s)
        BY <1>4, <3>2
      <4> QED BY <1>1, <3>2, <4>1
    <3> QED BY <2>2, <3>1, <3>2
  <2> QED BY <1>4, <2>1, <2>3, <2>4 DEF LevelAt, L
<1>8. c[1] = 0 /\ c[n + 1] = Len(s) + 1
  BY <1>1, <1>3 DEF AreCuts
<1> QED BY <1>3, <1>6, <1>7, <1>8 DEF c, L

-----------------------------------------------------------------------------
(* The strings.                                                            *)

(* A wildcard fills its level.                                             *)
WildcardsAlone(s) == \A k \in 1 .. Len(Levels(s)) : iotx_mc_check_rule(Levels(s)[k])

(* A filter that iotx_mc_check_topic accepts has every wildcard alone in   *)
(* its level: the one level infra_strtok may not report has one character. *)
LEMMA CheckedLevels ==
  ASSUME NEW S, NEW s \in Seq(S), iotx_mc_check_topic(s)
  PROVE  WildcardsAlone(s)
<1> DEFINE L == Levels(s)
           n == Len(L)
           cut == n > 1 /\ Len(L[n]) = 1 /\ L[n - 1] # <<>>
           q == IF cut THEN Front(L) ELSE L
           t == Tokens(s)
<1>1. L \in Seq(Seq(S)) /\ n \in Nat \ {0}
  BY LevelFacts
<1>2. t = Without(q, {<<>>})
  BY DEF Tokens, NonEmpty
<1>3. \A k \in DOMAIN t : iotx_mc_check_rule(t[k])
  BY DEF iotx_mc_check_topic
<1> SUFFICES ASSUME NEW k \in 1 .. n PROVE iotx_mc_check_rule(L[k])
  BY DEF WildcardsAlone
<1> HIDE DEF L, t
<1>4. L[k] \in Seq(S)
  BY <1>1
<1>5. CASE L[k] = <<>>
  BY <1>5 DEF iotx_mc_check_rule
<1>6. CASE cut /\ k = n
  BY <1>6 DEF iotx_mc_check_rule
<1>7. CASE L[k] # <<>> /\ ~ (cut /\ k = n)
  <2>1. q \in Seq(Seq(S)) /\ Len(q) \in Nat /\ k \in 1 .. Len(q) /\ q[k] = L[k]
    <3>1. CASE ~ cut
      BY <1>1, <3>1
    <3>2. CASE cut
      <4>1. q = SubSeq(L, 1, n - 1) /\ k \in 1 .. n - 1
        BY <1>1, <1>7, <3>2 DEF Front
      <4>2. 1 \in Int /\ n - 1 \in Int /\ 1 <= n - 1 /\ \A i \in 1 .. n - 1 : L[i] \in Seq(S)
        BY <1>1, <3>2
      <4>3. /\ SubSeq(L, 1, n - 1) \in Seq(Seq(S)) /\ Len(SubSeq(L, 1, n - 1)) = n - 1
            /\ \A i \in 1 .. n - 1 : SubSeq(L, 1, n - 1)[i] = L[i]
        <5> HIDE DEF n
        <5>1. /\ SubSeq(L, 1, n - 1) \in Seq(Seq(S))
              /\ Len(SubSeq(L, 1, n - 1)) = IF 1 <= n - 1 THEN n - 1 - 1 + 1 ELSE 0
              /\ \A i \in 1 .. n - 1 - 1 + 1 : SubSeq(L, 1, n - 1)[i] = L[1 + i - 1]
          BY <4>2, SubSeqProperties
        <5> QED BY <1>1, <4>2, <5>1
      <4>4. n - 1 \in Nat
        BY <4>2
      <4> HIDE DEF q, n
      <4> QED BY <4>1, <4>3, <4>4
    <3> QED BY <3>1, <3>2
  <2> HIDE DEF q
  <2>2. PICK h : Numbers(h, t, q, {<<>>}, Len(q))
    BY <1>2, <2>1, WithoutNumbers
  <2>3. PICK i \in 1 .. Len(t) : h[i] = k
    BY <1>7, <2>1, <2>2 DEF Numbers
  <2>4. t[i] = L[k]
    BY <2>1, <2>2, <2>3 DEF Numbers
  <2>5. t \in Seq(Seq(S))
    BY <1>2, <2>1, WithoutNumbers
  <2>6. i \in DOMAIN t
    BY <2>5
  <2> QED BY <1>3, <2>4, <2>6
<1> QED BY <1>5, <1>6, <1>7

(* The filters of the list's nodes.                                        *)
LEMMA FilterFacts ==
  ASSUME NEW s \in TopicFilters
  PROVE  /\ s \in Seq(Characters) /\ Len(s) \in Nat \ {0} /\ s[1] = "/"
         /\ WildcardsAlone(s)
         /\ s \in Seq(Letters \cup {"/", "+", "#"})
<1> DEFINE S == Letters \cup {"/", "+", "#"}
<1>1. PICK m \in 0 .. FilterMax : s \in [1 .. m -> S]
  BY DEF TopicFilters, SeqOf
<1>2. m \in Nat
  BY TopicAssumption
<1>3. s \in Seq(S) /\ Len(s) \in Nat
  BY <1>1, <1>2
<1>4. \A i \in 1 .. m : s[i] \in Characters
  BY <1>1 DEF Characters
<1>5. s \in Seq(Characters)
  BY <1>1, <1>2, <1>4
<1>6. iotx_mc_check_topic(s) /\ s # <<>> /\ s[1] = "/"
  BY DEF TopicFilters, iotx_mc_check_topic
<1>7. WildcardsAlone(s)
  BY <1>5, <1>6, CheckedLevels
<1> QED BY <1>3, <1>5, <1>6, <1>7

(* The names of incoming messages: they have no wildcards.                 *)
LEMMA NameFacts ==
  ASSUME NEW s \in TopicNames
  PROVE  /\ s \in Seq(Characters) /\ Len(s) \in Nat \ {0} /\ s[1] = "/"
         /\ \A i \in 1 .. Len(s) : s[i] \notin {"+", "#"}
<1> DEFINE S == Letters \cup {"/"}
<1>1. PICK m \in 0 .. NameMax : s \in [1 .. m -> S]
  BY DEF TopicNames, SeqOf
<1>2. m \in Nat
  BY TopicAssumption
<1>3. s \in Seq(S) /\ Len(s) = m
  BY <1>1, <1>2
<1>4. \A i \in 1 .. m : s[i] \in Characters /\ s[i] \notin {"+", "#"}
  BY <1>1, TopicAssumption DEF Characters
<1>5. s \in Seq(Characters)
  BY <1>1, <1>2, <1>4
<1>6. s # <<>> /\ s[1] = "/"
  BY DEF TopicNames
<1> QED BY <1>2, <1>3, <1>4, <1>5, <1>6

(* What an unsubscription looks for.                                       *)
LEMMA SearchedFacts ==
  ASSUME NEW s \in TopicFilters
  PROVE  LET n == SearchedName(s)
         IN  n \in Seq(Characters) /\ n # <<>> /\ n[Len(n)] = NUL
<1>1. NUL \in Characters
  BY DEF Characters
<1> QED BY <1>1, FilterFacts DEF SearchedName

(* A topic begins with a separator: its first level is empty.              *)
LEMMA FirstLevelEmpty ==
  ASSUME NEW S, NEW s \in Seq(S), s # <<>>, s[1] = "/"
  PROVE  Cuts(s)[1] = 0 /\ Cuts(s)[2] = 1 /\ Len(Levels(s)) \in Nat \ {0, 1} /\ Levels(s)[1] = <<>>
<1>1. Len(s) \in Nat \ {0}
  OBVIOUS
<1>2. /\ Len(Levels(s)) \in Nat \ {0} /\ Cuts(s)[1] = 0
      /\ Levels(s) \in Seq(Seq(S))
      /\ LevelAt(s, 1, Cuts(s)[1], Cuts(s)[2])
  <2>1. 1 \in 1 .. Len(Levels(s)) /\ 1 + 1 = 2
    BY LevelFacts
  <2> QED BY <2>1, LevelFacts
<1>3. Cuts(s)[2] = 1
  <2>1. PICK hi : hi = Cuts(s)[2]
    OBVIOUS
  <2>2. hi \in 1 .. Len(s) + 1 /\ \A i \in 0 + 1 .. hi - 1 : s[i] # "/"
    BY <1>2, <2>1 DEF LevelAt
  <2> QED BY <1>1, <2>1, <2>2
<1>4. Len(Levels(s)) # 1 /\ Len(Levels(s)[1]) = 0
  <2>1. LevelAt(s, 1, 0, 1)
    BY <1>2, <1>3
  <2>2. (1 <= Len(s) => 1 < Len(Levels(s))) /\ Len(Levels(s)[1]) = 1 - 0 - 1
    BY <2>1 DEF LevelAt
  <2>3. 1 < Len(Levels(s)) /\ 1 - 0 - 1 = 0
    BY <1>1, <2>2
  <2>4. Len(Levels(s)) \in Nat
    BY <1>2
  <2>5. Len(Levels(s)) # 1
    BY <2>3, <2>4
  <2> QED BY <2>2, <2>3, <2>5
<1>5. Levels(s)[1] \in Seq(S)
  BY <1>2
<1> QED BY <1>2, <1>3, <1>4, <1>5
-----------------------------------------------------------------------------
(* The walk.                                                               *)

(* Level k of the filter covers level k of the name.                       *)
Covers(f, n, k) == Levels(f)[k] \in {<<"+">>, Levels(n)[k]}

(* The characters of the level are the same so far.                        *)
Aligned(f, n, i, j, a, c) ==
    i - a = j - c /\ \A m \in 1 .. i - a - 1 : f[a + m] = n[c + m]

(* Both positions are in level k, all levels before it are covered, and so *)
(* is the part of level k that is behind them.                             *)
InLevel(f, n, i, j, k) ==
    /\ Cuts(f)[k] < i /\ i <= Cuts(f)[k + 1]
    /\ Cuts(n)[k] < j /\ j <= Cuts(n)[k + 1]
    /\ \A m \in 1 .. k - 1 : Covers(f, n, m)
    /\ \/ Aligned(f, n, i, j, Cuts(f)[k], Cuts(n)[k])
       \/ Levels(f)[k] = <<"+">> /\ i = Cuts(f)[k + 1] /\ j = Cuts(n)[k + 1]

(* A "#" has taken the rest of the name, and the filter ends behind it.    *)
BehindHash(f, n, i, j) ==
    /\ i = Len(f) + 1 /\ j = Len(n) + 1
    /\ Len(Levels(f)) <= Len(Levels(n)) /\ Levels(f)[Len(Levels(f))] = <<"#">>
    /\ \A m \in 1 .. Len(Levels(f)) - 1 : Covers(f, n, m)

(* A "#" has taken the rest of the name, but the filter goes on.           *)
BeforeRest(f, n, i, j) ==
    /\ i <= Len(f) /\ j = Len(n) + 1
    /\ \E m \in 1 .. Len(Levels(f)) - 1 : Levels(f)[m] = <<"#">>

(* How far the search has come.                                            *)
Walked(f, n, i, j) ==
    \/ \E k \in 1 .. Len(Levels(f)) : k <= Len(Levels(n)) /\ InLevel(f, n, i, j, k)
    \/ BehindHash(f, n, i, j)
    \/ BeforeRest(f, n, i, j)

(* a and b are the ends of level k of s, and level k is what lies between. *)
Ends(s, k, a, b) ==
    /\ Len(s) \in Nat /\ Len(Levels(s)) \in Nat \ {0} /\ k \in Nat \ {0}
    /\ a \in 0 .. Len(s) /\ b \in 1 .. Len(s) + 1
    /\ a = Cuts(s)[k] /\ b = Cuts(s)[k + 1] /\ a < b
    /\ \A m \in a + 1 .. b - 1 : s[m] # "/"
    /\ k < Len(Levels(s)) <=> b <= Len(s)
    /\ b <= Len(s) => s[b] = "/"
    /\ Levels(s)[k] \in Seq(Characters) /\ Len(Levels(s)[k]) = b - a - 1
    /\ \A m \in 1 .. b - a - 1 : Levels(s)[k][m] = s[a + m]

LEMMA LevelEnds ==
  ASSUME NEW s \in Seq(Characters), NEW k \in 1 .. Len(Levels(s))
  PROVE  \E a, b : Ends(s, k, a, b)
<1>1. /\ LevelAt(s, k, Cuts(s)[k], Cuts(s)[k + 1])
      /\ Levels(s) \in Seq(Seq(Characters)) /\ Len(Levels(s)) \in Nat \ {0}
  BY LevelFacts
<1>2. Levels(s)[k] \in Seq(Characters) /\ Len(s) \in Nat /\ k \in Nat \ {0}
  BY <1>1
<1>3. PICK a, b : a = Cuts(s)[k] /\ b = Cuts(s)[k + 1]
  OBVIOUS
<1>4. LevelAt(s, k, a, b)
  BY <1>1, <1>3
<1>5. a \in 0 .. Len(s) /\ b \in 1 .. Len(s) + 1 /\ a < b
  BY <1>4 DEF LevelAt
<1>6. (k < Len(Levels(s)) <=> b <= Len(s)) /\ (b <= Len(s) => s[b] = "/")
  BY <1>4 DEF LevelAt
<1>7. /\ \A m \in a + 1 .. b - 1 : s[m] # "/"
      /\ Len(Levels(s)[k]) = b - a - 1
      /\ \A m \in 1 .. b - a - 1 : Levels(s)[k][m] = s[a + m]
  BY <1>4 DEF LevelAt
<1>8. Len(Levels(s)) \in Nat \ {0}
  BY <1>1
<1>9. Ends(s, k, a, b)
  BY <1>2, <1>3, <1>5, <1>6, <1>7, <1>8 DEF Ends
<1> QED BY <1>9

(* A wildcard of an accepted filter is its level.                          *)
LEMMA WildcardLevel ==
  ASSUME NEW s \in Seq(Characters), WildcardsAlone(s), NEW k \in 1 .. Len(Levels(s)),
         NEW i \in 1 .. Len(s), Cuts(s)[k] < i, i <= Cuts(s)[k + 1],
         s[i] \in {"+", "#"}
  PROVE  i = Cuts(s)[k] + 1 /\ Cuts(s)[k + 1] = Cuts(s)[k] + 2 /\ Levels(s)[k] = <<s[i]>>
<1>1. PICK a, b : Ends(s, k, a, b)
  BY LevelEnds
<1>2. /\ Len(s) \in Nat /\ a \in 0 .. Len(s) /\ b \in 1 .. Len(s) + 1
      /\ a = Cuts(s)[k] /\ b = Cuts(s)[k + 1]
      /\ b <= Len(s) => s[b] = "/"
  BY <1>1 DEF Ends
<1>3. a < i /\ i < b
  <2>1. i # b
    BY <1>2
  <2> QED BY <1>2, <2>1
<1>4. i - a \in 1 .. b - a - 1 /\ a + (i - a) = i
  BY <1>2, <1>3, SMTT(20)
<1>5. Levels(s)[k][i - a] = s[i]
  BY <1>1, <1>4 DEF Ends
<1>6. i - a \in DOMAIN Levels(s)[k]
  <2>1. Levels(s)[k] \in Seq(Characters) /\ Len(Levels(s)[k]) = b - a - 1
    BY <1>1 DEF Ends
  <2> QED BY <1>4, <2>1
<1>7. Len(Levels(s)[k]) = 1
  BY <1>5, <1>6 DEF WildcardsAlone, iotx_mc_check_rule
<1>8. b = a + 2 /\ i = a + 1
  <2>1. 1 = b - a - 1
    BY <1>1, <1>7 DEF Ends
  <2> QED BY <1>2, <1>3, <2>1, SMTT(20)
<1>9. Levels(s)[k][1] = s[i]
  <2>1. i - a = 1
    BY <1>2, <1>8
  <2> QED BY <1>5, <2>1
<1>10. Levels(s)[k] = <<s[i]>>
  <2>1. Levels(s)[k] \in Seq(Characters)
    BY <1>1 DEF Ends
  <2> QED BY <1>7, <1>9, <2>1
<1> QED BY <1>2, <1>8, <1>10

(* The search begins in the first level.                                   *)
LEMMA WalkBegins ==
  ASSUME NEW f \in Seq(Characters), NEW n \in Seq(Characters)
  PROVE  Walked(f, n, 1, 1)
<1>1. 1 \in 1 .. Len(Levels(f)) /\ 1 \in 1 .. Len(Levels(n)) /\ 1 <= Len(Levels(n))
  BY LevelFacts
<1>2. Cuts(f)[1] = 0 /\ Cuts(n)[1] = 0
  BY LevelFacts
<1>3. 1 <= Cuts(f)[1 + 1] /\ 1 <= Cuts(n)[1 + 1]
  <2>1. PICK a, b : Ends(f, 1, a, b)
    BY <1>1, LevelEnds
  <2>2. PICK c, d : Ends(n, 1, c, d)
    BY <1>1, LevelEnds
  <2> QED BY <2>1, <2>2, SMTT(20) DEF Ends
<1>4. Aligned(f, n, 1, 1, Cuts(f)[1], Cuts(n)[1])
  BY <1>2 DEF Aligned
<1>5. InLevel(f, n, 1, 1, 1)
  BY <1>2, <1>3, <1>4 DEF InLevel
<1> QED BY <1>1, <1>5 DEF Walked

(* The rest of the level is skipped by "+": its end is unique.             *)
LEMMA LevelEndUnique ==
  ASSUME NEW n \in Seq(Characters), NEW k \in 1 .. Len(Levels(n)), NEW j \in 1 .. Len(n),
         Cuts(n)[k] < j, j <= Cuts(n)[k + 1], n[j] # "/",
         NEW e \in j + 1 .. Len(n) + 1,
         \A m \in j + 1 .. e - 1 : n[m] # "/",
         e <= Len(n) => n[e] = "/"
  PROVE  e = Cuts(n)[k + 1]
<1>1. PICK c, d : Ends(n, k, c, d)
  BY LevelEnds
<1>2. /\ Len(n) \in Nat /\ c \in 0 .. Len(n) /\ d \in 1 .. Len(n) + 1
      /\ c = Cuts(n)[k] /\ d = Cuts(n)[k + 1]
      /\ \A m \in c + 1 .. d - 1 : n[m] # "/"
      /\ d <= Len(n) => n[d] = "/"
  BY <1>1 DEF Ends
<1>3. c < j /\ j < d
  <2>1. j # d
    BY <1>2
  <2> QED BY <1>2, <2>1
<1>4. ASSUME d < e PROVE FALSE
  <2>1. d \in j + 1 .. e - 1 /\ d <= Len(n)
    BY <1>2, <1>3, <1>4
  <2> QED BY <1>2, <2>1
<1>5. ASSUME e < d PROVE FALSE
  <2>1. e \in c + 1 .. d - 1 /\ e <= Len(n)
    BY <1>2, <1>3, <1>5
  <2> QED BY <1>2, <2>1
<1> QED BY <1>2, <1>4, <1>5

(* A level that is the same to its ends in both strings.                   *)
LEMMA SameLevel ==
  ASSUME NEW f, NEW n, NEW k, NEW a, NEW b, NEW c, NEW d,
         Ends(f, k, a, b), Ends(n, k, c, d), Aligned(f, n, b, d, a, c)
  PROVE  Levels(f)[k] = Levels(n)[k]
<1> DEFINE F == Levels(f)[k]
           N == Levels(n)[k]
<1>1. /\ F \in Seq(Characters) /\ Len(F) = b - a - 1
      /\ \A m \in 1 .. b - a - 1 : F[m] = f[a + m]
  BY DEF Ends
<1>2. /\ N \in Seq(Characters) /\ Len(N) = d - c - 1
      /\ \A m \in 1 .. d - c - 1 : N[m] = n[c + m]
  BY DEF Ends
<1>3. b - a = d - c /\ \A m \in 1 .. b - a - 1 : f[a + m] = n[c + m]
  BY DEF Aligned
<1>4. d - c - 1 = b - a - 1
  BY <1>3
<1> HIDE DEF F, N
<1>5. Len(F) = Len(N) /\ \A m \in 1 .. Len(F) : F[m] = N[m]
  BY <1>1, <1>2, <1>3, <1>4
<1>6. F = N
  BY <1>1, <1>2, <1>5, SeqEqual
<1> QED BY <1>6 DEF F, N

(* Both strings have a separator: both go on to the next level.            *)
LEMMA WalkSeparator ==
  ASSUME NEW f \in Seq(Characters), NEW n \in Seq(Characters),
         NEW k \in 1 .. Len(Levels(f)), k <= Len(Levels(n)),
         NEW i \in 1 .. Len(f), NEW j \in 1 .. Len(n), InLevel(f, n, i, j, k),
         f[i] = "/", n[j] = "/"
  PROVE  Walked(f, n, i + 1, j + 1)
<1>0. k \in 1 .. Len(Levels(n))
  BY LevelFacts
<1>1. PICK a, b : Ends(f, k, a, b)
  BY LevelEnds
<1>2. PICK c, d : Ends(n, k, c, d)
  BY <1>0, LevelEnds
<1>3. a < i /\ i <= b /\ c < j /\ j <= d
  BY <1>1, <1>2 DEF InLevel, Ends
<1>4. i = b
  <2>1. a \in Nat /\ b \in Nat /\ \A m \in a + 1 .. b - 1 : f[m] # "/"
    BY <1>1 DEF Ends
  <2> QED BY <1>3, <2>1
<1>5. j = d
  <2>1. c \in Nat /\ d \in Nat /\ \A m \in c + 1 .. d - 1 : n[m] # "/"
    BY <1>2 DEF Ends
  <2> QED BY <1>3, <2>1
<1>6. k < Len(Levels(f)) /\ k < Len(Levels(n)) /\ k \in Nat \ {0}
      /\ Len(Levels(f)) \in Nat /\ Len(Levels(n)) \in Nat
  BY <1>1, <1>2, <1>4, <1>5 DEF Ends
<1>7. k + 1 \in 1 .. Len(Levels(f)) /\ k + 1 \in 1 .. Len(Levels(n)) /\ k + 1 <= Len(Levels(n))
  BY <1>6
<1>8. PICK a2, b2 : Ends(f, k + 1, a2, b2)
  BY <1>7, LevelEnds
<1>9. PICK c2, d2 : Ends(n, k + 1, c2, d2)
  BY <1>7, LevelEnds
<1>10. /\ Cuts(f)[k + 1] = i /\ Cuts(n)[k + 1] = j
       /\ Cuts(f)[k + 1 + 1] = b2 /\ Cuts(n)[k + 1 + 1] = d2
       /\ b2 \in Nat /\ d2 \in Nat /\ i < b2 /\ j < d2
  <2>1. Cuts(f)[k + 1] = i
    BY <1>1, <1>4 DEF Ends
  <2>2. Cuts(n)[k + 1] = j
    BY <1>2, <1>5 DEF Ends
  <2>3. a2 = Cuts(f)[k + 1] /\ Cuts(f)[k + 1 + 1] = b2 /\ a2 < b2 /\ b2 \in Nat
    BY <1>8 DEF Ends
  <2>4. c2 = Cuts(n)[k + 1] /\ Cuts(n)[k + 1 + 1] = d2 /\ c2 < d2 /\ d2 \in Nat
    BY <1>9 DEF Ends
  <2> QED BY <2>1, <2>2, <2>3, <2>4
<1>11. Covers(f, n, k)
  <2>1. CASE Aligned(f, n, i, j, Cuts(f)[k], Cuts(n)[k])
    <3>1. Aligned(f, n, b, d, a, c)
      BY <1>1, <1>2, <1>4, <1>5, <2>1 DEF Ends
    <3> QED BY <1>1, <1>2, <3>1, SameLevel DEF Covers
  <2>2. CASE Levels(f)[k] = <<"+">>
    BY <2>2 DEF Covers
  <2> QED BY <2>1, <2>2 DEF InLevel
<1>12. \A m \in 1 .. k + 1 - 1 : Covers(f, n, m)
  <2>1. \A m \in 1 .. k - 1 : Covers(f, n, m)
    BY DEF InLevel
  <2>2. \A m \in 1 .. k + 1 - 1 : m = k \/ m \in 1 .. k - 1
    BY <1>6
  <2> QED BY <1>11, <2>1, <2>2
<1>13. Aligned(f, n, i + 1, j + 1, i, j)
  <2>1. i + 1 - i = 1 /\ j + 1 - j = 1
    OBVIOUS
  <2> QED BY <2>1 DEF Aligned
<1>14. InLevel(f, n, i + 1, j + 1, k + 1)
  <2>1. i < i + 1 /\ i + 1 <= b2 /\ j < j + 1 /\ j + 1 <= d2
    BY <1>10
  <2> QED BY <1>10, <1>12, <1>13, <2>1 DEF InLevel
<1> QED BY <1>7, <1>14 DEF Walked

(* The same letter in both strings.                                        *)
LEMMA WalkLetter ==
  ASSUME NEW f \in Seq(Characters), NEW n \in Seq(Characters),
         NEW k \in 1 .. Len(Levels(f)), k <= Len(Levels(n)),
         NEW i \in 1 .. Len(f), NEW j \in 1 .. Len(n), InLevel(f, n, i, j, k),
         f[i] = n[j], f[i] # "/"
  PROVE  Walked(f, n, i + 1, j + 1)
<1>0. k \in 1 .. Len(Levels(n))
  BY LevelFacts
<1>1. PICK a, b : Ends(f, k, a, b)
  BY LevelEnds
<1>2. PICK c, d : Ends(n, k, c, d)
  BY <1>0, LevelEnds
<1>3. /\ a < i /\ i <= b /\ c < j /\ j <= d
      /\ a = Cuts(f)[k] /\ b = Cuts(f)[k + 1] /\ c = Cuts(n)[k] /\ d = Cuts(n)[k + 1]
  BY <1>1, <1>2 DEF InLevel, Ends
<1>4. i < b /\ a \in Nat /\ b \in Nat
  <2>1. Len(f) \in Nat /\ a \in Nat /\ b \in Nat /\ (b <= Len(f) => f[b] = "/")
    BY <1>1 DEF Ends
  <2> QED BY <1>3, <2>1
<1>5. j < d /\ c \in Nat /\ d \in Nat
  <2>1. Len(n) \in Nat /\ c \in Nat /\ d \in Nat /\ (d <= Len(n) => n[d] = "/")
    BY <1>2 DEF Ends
  <2> QED BY <1>3, <2>1
<1>6. Aligned(f, n, i, j, a, c)
  <2>1. i # Cuts(f)[k + 1]
    BY <1>3, <1>4
  <2> QED BY <1>3, <2>1 DEF InLevel
<1>7. Aligned(f, n, i + 1, j + 1, a, c)
  <2>1. i - a = j - c /\ \A m \in 1 .. i - a - 1 : f[a + m] = n[c + m]
    BY <1>6 DEF Aligned
  <2>2. PICK p, q : p = i + 1 /\ q = j + 1
    OBVIOUS
  <2>3. p - a = q - c
    BY <1>4, <1>5, <2>1, <2>2
  <2>4. \A m \in 1 .. p - a - 1 : f[a + m] = n[c + m]
    <3> SUFFICES ASSUME NEW m \in 1 .. p - a - 1 PROVE f[a + m] = n[c + m]
      OBVIOUS
    <3>1. m \in 1 .. i - a - 1 \/ (a + m = i /\ c + m = j)
      BY <1>4, <1>5, <2>1, <2>2
    <3> QED BY <2>1, <3>1
  <2>5. Aligned(f, n, p, q, a, c)
    BY <2>3, <2>4 DEF Aligned
  <2> QED BY <2>2, <2>5
<1>8. a < i + 1 /\ i + 1 <= b /\ c < j + 1 /\ j + 1 <= d
  <2>1. i \in Nat /\ j \in Nat /\ a < i /\ c < j
    BY <1>3
  <2> QED BY <1>4, <1>5, <2>1
<1>9. InLevel(f, n, i + 1, j + 1, k)
  BY <1>3, <1>7, <1>8 DEF InLevel
<1> QED BY <1>9 DEF Walked

(* A "+" takes the level of the name.                                      *)
LEMMA WalkPlus ==
  ASSUME NEW f \in Seq(Characters), NEW n \in Seq(Characters), WildcardsAlone(f),
         NEW k \in 1 .. Len(Levels(f)), k <= Len(Levels(n)),
         NEW i \in 1 .. Len(f), NEW j \in 1 .. Len(n), InLevel(f, n, i, j, k),
         f[i] = "+", n[j] # "/",
         NEW e \in j + 1 .. Len(n) + 1,
         \A m \in j + 1 .. e - 1 : n[m] # "/",
         e <= Len(n) => n[e] = "/"
  PROVE  Walked(f, n, i + 1, e)
<1>0. k \in 1 .. Len(Levels(n))
  BY LevelFacts
<1>1. /\ Cuts(f)[k] < i /\ i <= Cuts(f)[k + 1] /\ Cuts(n)[k] < j /\ j <= Cuts(n)[k + 1]
      /\ \A m \in 1 .. k - 1 : Covers(f, n, m)
  BY DEF InLevel
<1>2. i = Cuts(f)[k] + 1 /\ Cuts(f)[k + 1] = Cuts(f)[k] + 2 /\ Levels(f)[k] = <<"+">>
  BY <1>1, WildcardLevel, SMTT(20)
<1>3. e = Cuts(n)[k + 1]
  BY <1>0, <1>1, LevelEndUnique
<1>4. PICK a, b : Ends(f, k, a, b)
  BY LevelEnds
<1>5. PICK c, d : Ends(n, k, c, d)
  BY <1>0, LevelEnds
<1>6. Cuts(f)[k] \in Nat /\ Cuts(f)[k + 1] \in Nat /\ Cuts(n)[k] < Cuts(n)[k + 1]
      /\ Cuts(n)[k + 1] \in Nat
  <2>1. Cuts(f)[k] \in Nat /\ Cuts(f)[k + 1] \in Nat
    BY <1>4 DEF Ends
  <2>2. Cuts(n)[k] < Cuts(n)[k + 1] /\ Cuts(n)[k + 1] \in Nat
    BY <1>5 DEF Ends
  <2> QED BY <2>1, <2>2
<1>7. i + 1 = Cuts(f)[k + 1] /\ Cuts(f)[k] < i + 1
  BY <1>2, <1>6, SMTT(20)
<1>8. i + 1 <= Cuts(f)[k + 1] /\ Cuts(n)[k] < e /\ e <= Cuts(n)[k + 1]
  BY <1>3, <1>6, <1>7
<1>9. InLevel(f, n, i + 1, e, k)
  BY <1>1, <1>2, <1>3, <1>7, <1>8 DEF InLevel
<1> QED BY <1>9 DEF Walked

(* A "#" takes the rest of the name.                                       *)
LEMMA WalkHash ==
  ASSUME NEW f \in Seq(Characters), NEW n \in Seq(Characters), WildcardsAlone(f),
         NEW k \in 1 .. Len(Levels(f)), k <= Len(Levels(n)),
         NEW i \in 1 .. Len(f), NEW j \in 1 .. Len(n), InLevel(f, n, i, j, k),
         f[i] = "#"
  PROVE  Walked(f, n, i + 1, Len(n) + 1)
<1>1. /\ Cuts(f)[k] < i /\ i <= Cuts(f)[k + 1]
      /\ \A m \in 1 .. k - 1 : Covers(f, n, m)
  BY DEF InLevel
<1>2. i = Cuts(f)[k] + 1 /\ Cuts(f)[k + 1] = Cuts(f)[k] + 2 /\ Levels(f)[k] = <<"#">>
  BY <1>1, WildcardLevel
<1>3. PICK a, b : Ends(f, k, a, b)
  BY LevelEnds
<1>4. i + 1 = b /\ b \in 1 .. Len(f) + 1 /\ Len(f) \in Nat
  BY <1>2, <1>3, SMTT(20) DEF Ends
<1>5. k < Len(Levels(f)) <=> b <= Len(f)
  BY <1>3 DEF Ends
<1>6. Len(Levels(f)) \in Nat /\ k \in Nat
  BY <1>3 DEF Ends
<1>7. CASE k < Len(Levels(f))
  <2>1. k \in 1 .. Len(Levels(f)) - 1
    BY <1>6, <1>7
  <2>2. BeforeRest(f, n, i + 1, Len(n) + 1)
    BY <1>2, <1>4, <1>5, <1>7, <2>1 DEF BeforeRest
  <2> QED BY <2>2 DEF Walked
<1>8. CASE k = Len(Levels(f))
  <2>1. ~(b <= Len(f))
    BY <1>5, <1>6, <1>8
  <2>2. i + 1 = Len(f) + 1
    BY <1>4, <2>1
  <2>3. BehindHash(f, n, i + 1, Len(n) + 1)
    BY <1>1, <1>2, <1>8, <2>2 DEF BehindHash
  <2> QED BY <2>3 DEF Walked
<1> QED BY <1>6, <1>7, <1>8

(* One round of the search: to is where the name is continued.             *)
LEMMA WalkRound ==
  ASSUME NEW f \in Seq(Characters), NEW n \in Seq(Characters), WildcardsAlone(f),
         NEW i \in 1 .. Len(f), NEW j \in 1 .. Len(n), Walked(f, n, i, j),
         n[j] = "/" => f[i] = "/", f[i] \in {"+", "#", n[j]},
         NEW to,
         f[i] = "+" => /\ to \in j + 1 .. Len(n) + 1
                       /\ \A m \in j + 1 .. to - 1 : n[m] # "/"
                       /\ to <= Len(n) => n[to] = "/",
         f[i] = "#" => to = Len(n) + 1,
         f[i] \notin {"+", "#"} => to = j + 1
  PROVE  Walked(f, n, i + 1, to)
<1>1. Len(f) \in Nat /\ Len(n) \in Nat
  OBVIOUS
<1>2. ~ BehindHash(f, n, i, j) /\ ~ BeforeRest(f, n, i, j)
  BY <1>1 DEF BehindHash, BeforeRest
<1>3. PICK k \in 1 .. Len(Levels(f)) : k <= Len(Levels(n)) /\ InLevel(f, n, i, j, k)
  BY <1>2 DEF Walked
<1>4. CASE f[i] = "+"
  BY <1>3, <1>4, WalkPlus
<1>5. CASE f[i] = "#"
  BY <1>3, <1>5, WalkHash
<1>6. CASE f[i] = "/"
  <2>1. n[j] = "/" /\ to = j + 1
    BY <1>6
  <2> QED BY <1>3, <1>6, <2>1, WalkSeparator
<1>7. CASE f[i] \notin {"+", "#", "/"}
  <2>1. f[i] = n[j] /\ to = j + 1
    BY <1>7
  <2> QED BY <1>3, <1>7, <2>1, WalkLetter
<1> QED BY <1>4, <1>5, <1>6, <1>7

(* The end of a level exists.                                              *)
LEMMA EndOfLevelFacts ==
  ASSUME NEW n \in Seq(Characters), NEW j \in 1 .. Len(n)
  PROVE  \E e \in j + 1 .. Len(n) + 1 :
            (\A m \in j + 1 .. e - 1 : n[m] # "/") /\ (e <= Len(n) => n[e] = "/")
<1>1. Len(n) \in Nat
  OBVIOUS
<1> DEFINE T == {e \in j + 1 .. Len(n) + 1 : e <= Len(n) => n[e] = "/"}
<1>2. T \in SUBSET Nat /\ Len(n) + 1 \in T
  BY <1>1
<1>3. PICK e \in T : \A m \in T : e <= m
  <2> HIDE DEF T
  <2> QED BY <1>2, LeastElement
<1>4. ASSUME NEW m \in j + 1 .. e - 1, n[m] = "/" PROVE FALSE
  <2>1. m \in T /\ ~(e <= m)
    BY <1>1, <1>4
  <2> QED BY <1>3, <2>1
<1> QED BY <1>4

(* A topic covers itself.                                                  *)
LEMMA SameIsCovered ==
  ASSUME NEW f \in Seq(Characters)
  PROVE  LevelMatch(Levels(f), Levels(f))
<1>1. Len(Levels(f)) \in Nat \ {0}
  BY LevelFacts
<1> QED BY <1>1 DEF LevelMatch

(* Covered to the end of both strings.                                     *)
LEMMA MatchedIsCovered ==
  ASSUME NEW f \in Seq(Characters), NEW n \in Seq(Characters),
         Walked(f, n, Len(f) + 1, Len(n) + 1)
  PROVE  LevelMatch(Levels(f), Levels(n))
<1> DEFINE N == Len(Levels(f))
           M == Len(Levels(n))
<1>1. N \in Nat \ {0} /\ M \in Nat \ {0} /\ Len(f) \in Nat /\ Len(n) \in Nat
  BY LevelFacts
<1>2. CASE BehindHash(f, n, Len(f) + 1, Len(n) + 1)
  <2>1. /\ N <= M /\ Levels(f)[N] = <<"#">>
        /\ \A m \in 1 .. N - 1 : Levels(f)[m] \in {<<"+">>, Levels(n)[m]}
    BY <1>2 DEF BehindHash, Covers
  <2>2. M >= N - 1
    BY <1>1, <2>1
  <2> QED BY <2>1, <2>2 DEF LevelMatch
<1>3. CASE BeforeRest(f, n, Len(f) + 1, Len(n) + 1)
  BY <1>1, <1>3 DEF BeforeRest
<1>4. ASSUME NEW k \in 1 .. N, k <= M, InLevel(f, n, Len(f) + 1, Len(n) + 1, k)
      PROVE  LevelMatch(Levels(f), Levels(n))
  <2>0. k \in 1 .. M
    BY <1>1, <1>4
  <2>1. PICK a, b : Ends(f, k, a, b)
    BY LevelEnds
  <2>2. PICK c, d : Ends(n, k, c, d)
    BY <2>0, LevelEnds
  <2>3. b = Len(f) + 1 /\ k = N
    <3>1. b \in 1 .. Len(f) + 1 /\ Len(f) + 1 <= b /\ (k < N <=> b <= Len(f))
      BY <1>4, <2>1 DEF Ends, InLevel
    <3> QED BY <1>1, <3>1
  <2>4. d = Len(n) + 1 /\ k = M
    <3>1. d \in 1 .. Len(n) + 1 /\ Len(n) + 1 <= d /\ (k < M <=> d <= Len(n))
      BY <1>4, <2>2 DEF Ends, InLevel
    <3> QED BY <1>1, <2>0, <3>1
  <2>5. Covers(f, n, k)
    <3>1. CASE Aligned(f, n, Len(f) + 1, Len(n) + 1, Cuts(f)[k], Cuts(n)[k])
      <4>1. Aligned(f, n, b, d, a, c)
        BY <2>1, <2>2, <2>3, <2>4, <3>1 DEF Ends
      <4> QED BY <2>1, <2>2, <4>1, SameLevel DEF Covers
    <3>2. CASE Levels(f)[k] = <<"+">>
      BY <3>2 DEF Covers
    <3> QED BY <1>4, <3>1, <3>2 DEF InLevel
  <2>6. \A m \in 1 .. N : Levels(f)[m] \in {<<"+">>, Levels(n)[m]}
    <3>1. \A m \in 1 .. k - 1 : Covers(f, n, m)
      BY <1>4 DEF InLevel
    <3>2. \A m \in 1 .. N : m = k \/ m \in 1 .. k - 1
      BY <1>1, <2>3
    <3> QED BY <2>5, <3>1, <3>2 DEF Covers
  <2>7. M = N /\ M >= N - 1 /\ \A m \in 1 .. N - 1 : m \in 1 .. N
    BY <1>1, <2>3, <2>4
  <2> QED BY <2>6, <2>7 DEF LevelMatch
<1> QED BY <1>2, <1>3, <1>4 DEF Walked

(* A name without wildcards has no level that is one.                      *)
LEMMA PlainLevel ==
  ASSUME NEW n \in Seq(Characters), NEW k \in 1 .. Len(Levels(n)),
         \A i \in 1 .. Len(n) : n[i] \notin {"+", "#"}
  PROVE  Levels(n)[k] \notin {<<"+">>, <<"#">>}
<1> SUFFICES ASSUME Levels(n)[k] \in {<<"+">>, <<"#">>} PROVE FALSE
  OBVIOUS
<1>1. PICK c, d : Ends(n, k, c, d)
  BY LevelEnds
<1>2. Len(Levels(n)[k]) = 1 /\ Levels(n)[k][1] \in {"+", "#"}
  OBVIOUS
<1>3. /\ c \in 0 .. Len(n) /\ d \in 1 .. Len(n) + 1 /\ Len(n) \in Nat
      /\ Len(Levels(n)[k]) = d - c - 1
      /\ \A m \in 1 .. d - c - 1 : Levels(n)[k][m] = n[c + m]
  BY <1>1 DEF Ends
<1>4. d - c - 1 = 1
  BY <1>2, <1>3
<1>5. Levels(n)[k][1] = n[c + 1]
  BY <1>3, <1>4
<1>6. c + 1 \in 1 .. Len(n)
  BY <1>3, <1>4
<1> QED BY <1>2, <1>5, <1>6

(* The message's topic, and a filter that covers it with no fewer levels.  *)
CoveredName(f, n) ==
    /\ \A i \in 1 .. Len(n) : n[i] \notin {"+", "#"}
    /\ \A k \in 2 .. Len(Levels(n)) : Levels(n)[k] # <<>>
    /\ Len(Levels(n)) >= Len(Levels(f))
    /\ LevelMatch(Levels(f), Levels(n))

(* What it says of the levels: a "#" covers the last, every other is a "+" *)
(* or the level of the name.                                               *)
LEMMA CoveredLevels ==
  ASSUME NEW f \in Seq(Characters), NEW n \in Seq(Characters), CoveredName(f, n),
         NEW k \in 1 .. Len(Levels(f))
  PROVE  /\ k \in 1 .. Len(Levels(n))
         /\ \/ Levels(f)[k] = <<"+">> \/ Levels(f)[k] = Levels(n)[k]
            \/ Levels(f)[k] = <<"#">> /\ k = Len(Levels(f))
         /\ k = Len(Levels(f)) /\ Levels(f)[k] # <<"#">> => k = Len(Levels(n))
<1> DEFINE N == Len(Levels(f))
           M == Len(Levels(n))
           hash == Levels(f)[N] = <<"#">>
<1>1. N \in Nat \ {0} /\ M \in Nat \ {0} /\ N <= M
  BY LevelFacts DEF CoveredName
<1>2. LevelMatch(Levels(f), Levels(n))
  BY DEF CoveredName
<1>3. CASE hash
  <2>1. \A m \in 1 .. N - 1 : Levels(f)[m] \in {<<"+">>, Levels(n)[m]}
    BY <1>2, <1>3 DEF LevelMatch
  <2>2. k = N \/ k \in 1 .. N - 1
    BY <1>1
  <2>3. k \in 1 .. M
    BY <1>1
  <2> QED BY <1>3, <2>1, <2>2, <2>3
<1>4. CASE ~ hash
  <2>1. M = N /\ \A m \in 1 .. N : Levels(f)[m] \in {<<"+">>, Levels(n)[m]}
    BY <1>2, <1>4 DEF LevelMatch
  <2> QED BY <1>1, <2>1
<1> QED BY <1>3, <1>4

(* The level of the filter is a wildcard that the search has still to      *)
(* take.                                                                   *)
LEMMA WildcardAhead ==
  ASSUME NEW f \in Seq(Characters), NEW n \in Seq(Characters), CoveredName(f, n),
         f # <<>>, f[1] = "/", NEW k \in 1 .. Len(Levels(f)), k <= Len(Levels(n)),
         NEW i \in 1 .. Len(f) + 1, NEW j \in 1 .. Len(n) + 1, InLevel(f, n, i, j, k),
         Aligned(f, n, i, j, Cuts(f)[k], Cuts(n)[k]),
         Levels(f)[k] = <<"+">> \/ Levels(f)[k] = <<"#">>
  PROVE  i <= Len(f) /\ j <= Len(n) /\ n[j] # "/" /\ f[i] \in {"+", "#"}
<1>0. k \in 1 .. Len(Levels(n))
  BY LevelFacts
<1>1. PICK a, b : Ends(f, k, a, b)
  BY LevelEnds
<1>2. PICK c, d : Ends(n, k, c, d)
  BY <1>0, LevelEnds
<1>3. /\ a < i /\ i <= b /\ c < j /\ j <= d /\ Aligned(f, n, i, j, a, c)
  BY <1>1, <1>2 DEF InLevel, Ends
<1>4. /\ Len(f) \in Nat /\ a \in 0 .. Len(f) /\ b \in 1 .. Len(f) + 1
      /\ Len(Levels(f)[k]) = b - a - 1
      /\ \A m \in 1 .. b - a - 1 : Levels(f)[k][m] = f[a + m]
  BY <1>1 DEF Ends
<1>5. /\ Len(n) \in Nat /\ c \in 0 .. Len(n) /\ d \in 1 .. Len(n) + 1
      /\ Levels(n)[k] \in Seq(Characters) /\ Len(Levels(n)[k]) = d - c - 1
      /\ \A m \in c + 1 .. d - 1 : n[m] # "/"
  BY <1>2 DEF Ends
<1>6. Len(Levels(f)[k]) = 1 /\ Levels(f)[k][1] \in {"+", "#"}
  <2>1. CASE Levels(f)[k] = <<"+">>
    BY <2>1
  <2>2. CASE Levels(f)[k] = <<"#">>
    BY <2>2
  <2> QED BY <2>1, <2>2
<1>7. b = a + 2 /\ f[a + 1] \in {"+", "#"}
  <2>1. b - a - 1 = 1
    BY <1>4, <1>6
  <2>2. Levels(f)[k][1] = f[a + 1]
    BY <1>4, <2>1
  <2>3. b = a + 2
    BY <1>4, <2>1
  <2> QED BY <1>6, <2>2, <2>3
<1>8. i = a + 1 /\ j = c + 1
  <2>1. i - a = j - c /\ \A m \in 1 .. i - a - 1 : f[a + m] = n[c + m]
    BY <1>3 DEF Aligned
  <2>2. i # a + 2
    <3> SUFFICES ASSUME i = a + 2 PROVE FALSE
      OBVIOUS
    <3>1. 1 \in 1 .. i - a - 1 /\ c + 1 \in 1 .. Len(n)
      BY <1>4, <1>5, <2>1
    <3>2. f[a + 1] = n[c + 1]
      BY <2>1, <3>1
    <3>3. n[c + 1] \notin {"+", "#"}
      BY <3>1 DEF CoveredName
    <3> QED BY <1>7, <3>2, <3>3
  <2> QED BY <1>3, <1>4, <1>5, <1>7, <2>1, <2>2
<1>9. k # 1
  <2>1. Levels(f)[1] = <<>>
    BY FirstLevelEmpty
  <2> QED BY <1>6, <2>1
<1>10. Levels(n)[k] # <<>>
  <2>1. k \in 2 .. Len(Levels(n))
    BY <1>0, <1>9
  <2> QED BY <2>1 DEF CoveredName
<1>11. d > c + 1
  BY <1>5, <1>10
<1>12. j \in c + 1 .. d - 1 /\ j <= Len(n) /\ i <= Len(f)
  BY <1>4, <1>5, <1>7, <1>8, <1>11, SMTT(20)
<1> QED BY <1>5, <1>7, <1>8, <1>12

(* As long as the ends are not reached, the search of a covered name goes  *)
(* on.                                                                     *)
LEMMA CoveredGoesOn ==
  ASSUME NEW f \in Seq(Characters), NEW n \in Seq(Characters), CoveredName(f, n),
         f # <<>>, f[1] = "/",
         NEW i \in 1 .. Len(f) + 1, NEW j \in 1 .. Len(n) + 1, Walked(f, n, i, j),
         ~ (i = Len(f) + 1 /\ j = Len(n) + 1)
  PROVE  /\ i <= Len(f) /\ j <= Len(n)
         /\ n[j] = "/" => f[i] = "/"
         /\ f[i] \in {"+", "#", n[j]}
<1> DEFINE N == Len(Levels(f))
           M == Len(Levels(n))
<1>1. N \in Nat \ {0} /\ M \in Nat \ {0} /\ N <= M /\ Len(f) \in Nat /\ Len(n) \in Nat
  <2>1. N \in Nat \ {0} /\ M \in Nat \ {0}
    BY LevelFacts
  <2>2. M >= N
    BY DEF CoveredName
  <2> QED BY <2>1, <2>2
<1>2. \A m \in 1 .. M : Levels(n)[m] \notin {<<"+">>, <<"#">>}
  BY PlainLevel DEF CoveredName
<1>3. ~ BehindHash(f, n, i, j)
  BY DEF BehindHash
<1>4. ~ BeforeRest(f, n, i, j)
  <2> SUFFICES ASSUME NEW m \in 1 .. N - 1, Levels(f)[m] = <<"#">> PROVE FALSE
    BY DEF BeforeRest
  <2>1. m \in 1 .. N /\ m # N
    BY <1>1
  <2>2. m \in 1 .. M /\ (<<"#">> = <<"+">> \/ <<"#">> = Levels(n)[m])
    BY <2>1, CoveredLevels
  <2>3. <<"#">> # <<"+">>
    OBVIOUS
  <2> QED BY <1>2, <2>2, <2>3
<1>5. PICK k \in 1 .. N : k <= M /\ InLevel(f, n, i, j, k)
  BY <1>3, <1>4 DEF Walked
<1>6. /\ k \in 1 .. M
      /\ \/ Levels(f)[k] = <<"+">> \/ Levels(f)[k] = Levels(n)[k]
         \/ Levels(f)[k] = <<"#">> /\ k = N
      /\ k = N /\ Levels(f)[k] # <<"#">> => k = M
  BY CoveredLevels
<1>7. PICK a, b : Ends(f, k, a, b)
  BY LevelEnds
<1>8. PICK c, d : Ends(n, k, c, d)
  BY <1>6, LevelEnds
<1>9. /\ a < i /\ i <= b /\ c < j /\ j <= d
      /\ a = Cuts(f)[k] /\ b = Cuts(f)[k + 1] /\ c = Cuts(n)[k] /\ d = Cuts(n)[k + 1]
  BY <1>5, <1>7, <1>8 DEF InLevel, Ends
<1>10. ASSUME i = b, j = d, Levels(f)[k] # <<"#">>
       PROVE  i <= Len(f) /\ j <= Len(n) /\ f[i] = "/" /\ n[j] = "/"
  <2>1. (k < N <=> b <= Len(f)) /\ (b <= Len(f) => f[b] = "/") /\ b \in 1 .. Len(f) + 1
    BY <1>7 DEF Ends
  <2>2. (k < M <=> d <= Len(n)) /\ (d <= Len(n) => n[d] = "/") /\ d \in 1 .. Len(n) + 1
    BY <1>8 DEF Ends
  <2>3. CASE k = N
    <3>1. k = M /\ ~(k < N) /\ ~(k < M)
      BY <1>1, <1>6, <1>10, <2>3
    <3>2. b = Len(f) + 1 /\ d = Len(n) + 1
      BY <1>1, <2>1, <2>2, <3>1
    <3> QED BY <1>10, <3>2
  <2>4. CASE k # N
    <3>1. k < N /\ k < M
      BY <1>1, <2>4
    <3> QED BY <1>10, <2>1, <2>2, <3>1
  <2> QED BY <2>3, <2>4
<1>11. CASE Levels(f)[k] = <<"+">> /\ i = b /\ j = d
  <2>1. Levels(f)[k] # <<"#">>
    BY <1>11
  <2> QED BY <1>10, <1>11, <2>1
<1>12. CASE Aligned(f, n, i, j, Cuts(f)[k], Cuts(n)[k]) /\ Levels(f)[k] \in {<<"+">>, <<"#">>}
  BY <1>5, <1>12, WildcardAhead
<1>13. CASE Aligned(f, n, i, j, Cuts(f)[k], Cuts(n)[k]) /\ Levels(f)[k] = Levels(n)[k]
  <2>1. Levels(f)[k] # <<"#">>
    BY <1>2, <1>6, <1>13
  <2>2. /\ a \in 0 .. Len(f) /\ b \in 1 .. Len(f) + 1
        /\ Len(Levels(f)[k]) = b - a - 1 /\ \A m \in 1 .. b - a - 1 : Levels(f)[k][m] = f[a + m]
        /\ \A m \in a + 1 .. b - 1 : f[m] # "/"
    BY <1>7 DEF Ends
  <2>3. /\ c \in 0 .. Len(n) /\ d \in 1 .. Len(n) + 1
        /\ Len(Levels(n)[k]) = d - c - 1 /\ \A m \in 1 .. d - c - 1 : Levels(n)[k][m] = n[c + m]
    BY <1>8 DEF Ends
  <2>4. i - a = j - c /\ b - a - 1 = d - c - 1
    BY <1>9, <1>13, <2>2, <2>3 DEF Aligned
  <2>5. CASE i = b
    <3>1. j = d
      BY <1>1, <2>2, <2>3, <2>4, <2>5, SMTT(20)
    <3> QED BY <1>10, <2>1, <2>5, <3>1
  <2>6. CASE i # b
    <3>1. i <= Len(f) /\ j <= Len(n) /\ i - a \in 1 .. b - a - 1 /\ i - a \in 1 .. d - c - 1
          /\ a + (i - a) = i /\ c + (i - a) = j
      <4>1. a \in Nat /\ b \in Nat /\ c \in Nat /\ d \in Nat /\ b <= Len(f) + 1 /\ d <= Len(n) + 1
        BY <1>1, <2>2, <2>3
      <4>2. a < i /\ i <= b /\ c < j /\ j <= d /\ i \in Nat /\ j \in Nat
        BY <1>9
      <4>3. i < b /\ j < d
        BY <2>4, <2>6, <4>1, <4>2
      <4> QED BY <1>1, <2>4, <4>1, <4>2, <4>3
    <3>2. Levels(f)[k][i - a] = f[i] /\ Levels(n)[k][i - a] = n[j]
      BY <2>2, <2>3, <3>1
    <3>3. f[i] = n[j]
      BY <1>13, <3>2
    <3> QED BY <3>1, <3>3
  <2> QED BY <2>5, <2>6
<1> QED BY <1>5, <1>6, <1>9, <1>11, <1>12, <1>13 DEF InLevel

(* A string that ends in the zero is covered only by a filter that ends in *)
(* a wildcard.                                                             *)
LEMMA ZeroLevel ==
  ASSUME NEW f \in TopicFilters, NEW n \in Seq(Characters), n # <<>>, n[Len(n)] = NUL,
         LevelMatch(Levels(f), Levels(n))
  PROVE  Levels(f)[Len(Levels(f))] \in {<<"+">>, <<"#">>}
<1> DEFINE k == Len(Levels(f))
<1> SUFFICES ASSUME Levels(f)[k] \notin {<<"+">>, <<"#">>} PROVE FALSE
  OBVIOUS
<1>1. f \in Seq(Characters) /\ f \in Seq(Letters \cup {"/", "+", "#"}) /\ Len(n) \in Nat \ {0}
  BY FilterFacts
<1>2. k \in Nat \ {0} /\ k \in 1 .. Len(Levels(f)) /\ Len(Levels(n)) \in Nat \ {0}
  BY <1>1, LevelFacts
<1>3. k = Len(Levels(n)) /\ Levels(f)[k] = Levels(n)[k]
  <2>1. Len(Levels(n)) = k /\ \A m \in 1 .. k : Levels(f)[m] \in {<<"+">>, Levels(n)[m]}
    BY DEF LevelMatch
  <2> QED BY <1>2, <2>1
<1> HIDE DEF k
<1>4. k \in 1 .. Len(Levels(n))
  BY <1>2, <1>3
<1>5. PICK a, b : Ends(f, k, a, b)
  BY <1>1, <1>2, LevelEnds
<1>6. PICK c, d : Ends(n, k, c, d)
  BY <1>4, LevelEnds
<1>7. /\ c \in 0 .. Len(n) /\ d = Len(n) + 1 /\ c = Cuts(n)[k]
      /\ Len(Levels(n)[k]) = d - c - 1 /\ \A m \in 1 .. d - c - 1 : Levels(n)[k][m] = n[c + m]
  <2>1. d \in 1 .. Len(n) + 1 /\ (k < Len(Levels(n)) <=> d <= Len(n))
    BY <1>6 DEF Ends
  <2>2. d = Len(n) + 1
    BY <1>1, <1>2, <1>3, <2>1
  <2> QED BY <1>6, <2>2 DEF Ends
<1>8. c # Len(n)
  <2> SUFFICES ASSUME c = Len(n) PROVE FALSE
    OBVIOUS
  <2>1. CASE k = 1
    <3>1. Cuts(n)[1] = 0
      BY LevelFacts
    <3> QED BY <1>1, <1>7, <2>1, <3>1
  <2>2. CASE k # 1
    <3>1. k - 1 \in 1 .. Len(Levels(n)) /\ (k - 1) + 1 = k
      BY <1>2, <1>4, <2>2
    <3>2. PICK c1, d1 : Ends(n, k - 1, c1, d1)
      BY <3>1, LevelEnds
    <3>3. d1 = Cuts(n)[k] /\ (d1 <= Len(n) => n[d1] = "/")
      BY <3>1, <3>2 DEF Ends
    <3>4. n[Len(n)] = "/"
      BY <1>1, <1>7, <3>3
    <3> QED BY <3>4 DEF NUL
  <2> QED BY <2>1, <2>2
<1>9. PICK m : m = Len(n) - c
  OBVIOUS
<1>10. m \in 1 .. d - c - 1 /\ c + m = Len(n)
  BY <1>1, <1>7, <1>8, <1>9, SMTT(20)
<1>11. Levels(n)[k][m] = NUL
  BY <1>7, <1>10
<1>12. /\ a \in 0 .. Len(f) /\ b \in 1 .. Len(f) + 1 /\ Len(f) \in Nat
       /\ Len(Levels(f)[k]) = b - a - 1 /\ \A l \in 1 .. b - a - 1 : Levels(f)[k][l] = f[a + l]
  BY <1>5 DEF Ends
<1>13. b - a - 1 = d - c - 1
  BY <1>3, <1>7, <1>12
<1>14. f[a + m] = NUL /\ a + m \in 1 .. Len(f)
  <2>1. m \in 1 .. b - a - 1
    BY <1>10, <1>13
  <2>2. a + m \in 1 .. Len(f)
    BY <1>12, <2>1
  <2> QED BY <1>3, <1>11, <1>12, <2>1, <2>2
<1>15. f[a + m] \in Letters \cup {"/", "+", "#"}
  BY <1>1, <1>14
<1> QED BY <1>14, <1>15, TopicAssumption DEF NUL

-----------------------------------------------------------------------------
(* The search.                                                             *)

(* The strings are the ones the search began with.                         *)
StringsKept ==
    /\ filter \in TopicFilters
    /\ mode = "deliver" => name \in TopicNames
    /\ mode = "unsubscribe" => name # <<>> /\ name[Len(name)] = NUL

TopicIInv ==
    /\ TopicTypeOK
    /\ StringsKept
    /\ found = "unknown" => Walked(filter, name, curf, curn)
    /\ FoundIsCovered
    /\ CoveredIsDelivered

LEMMA TopicInitInv == TopicInit => TopicIInv
<1> SUFFICES ASSUME TopicInit PROVE TopicIInv
  OBVIOUS
<1>1. filter \in TopicFilters /\ curf = 1 /\ curn = 1 /\ found = "unknown"
  BY DEF TopicInit
<1>2. mode \in {"deliver", "unsubscribe"} /\ (mode = "deliver" => name \in TopicNames)
  BY DEF TopicInit
<1>3. filter \in Seq(Characters) /\ name \in Seq(Characters)
  <2>1. filter \in Seq(Characters)
    BY <1>1, FilterFacts
  <2>2. CASE name \in TopicNames
    BY <2>1, <2>2, NameFacts
  <2>3. CASE name \in {SearchedName(s) : s \in TopicFilters}
    BY <2>1, <2>3, SearchedFacts
  <2> QED BY <2>2, <2>3 DEF TopicInit
<1>4. curf \in 1 .. Len(filter) + 1 /\ curn \in 1 .. Len(name) + 1
  BY <1>1, <1>3
<1>5. Walked(filter, name, curf, curn)
  BY <1>1, <1>3, WalkBegins
<1>6. mode = "unsubscribe" => name # <<>> /\ name[Len(name)] = NUL
  BY SearchedFacts DEF TopicInit
<1> QED BY <1>1, <1>2, <1>3, <1>4, <1>5, <1>6
        DEF TopicIInv, TopicTypeOK, StringsKept, FoundIsCovered, CoveredIsDelivered

(* The string is the filter itself.                                        *)
LEMMA EqualsStep == TopicIInv /\ MQTTPacket_equals => TopicIInv'
<1> SUFFICES ASSUME TopicIInv, MQTTPacket_equals PROVE TopicIInv'
  OBVIOUS
<1> USE DEF MQTTPacket_equals
<1>1. TopicTypeOK' /\ StringsKept'
  BY DEF TopicIInv, TopicTypeOK, StringsKept
<1>2. LevelMatch(Levels(filter), Levels(name))
  BY SameIsCovered DEF TopicIInv, TopicTypeOK, StringsKept
<1>3. FoundIsCovered' /\ CoveredIsDelivered'
  BY <1>2 DEF FoundIsCovered, CoveredIsDelivered
<1> QED BY <1>1, <1>3 DEF TopicIInv

(* A round of the loop.                                                    *)
LEMMA RoundStep == TopicIInv /\ MatchChar => TopicIInv'
<1> SUFFICES ASSUME TopicIInv, MatchChar PROVE TopicIInv'
  OBVIOUS
<1>1. /\ filter \in Seq(Characters) /\ name \in Seq(Characters) /\ WildcardsAlone(filter)
      /\ Len(filter) \in Nat /\ Len(name) \in Nat
  BY FilterFacts DEF TopicIInv, TopicTypeOK, StringsKept
<1>2. /\ curf \in 1 .. Len(filter) /\ curn \in 1 .. Len(name) /\ found = "unknown"
      /\ Walked(filter, name, curf, curn)
  BY <1>1 DEF TopicIInv, TopicTypeOK, StringsKept, MatchChar, InLoop
<1>3. /\ name[curn] = "/" => filter[curf] = "/"
      /\ filter[curf] \in {"+", "#", name[curn]}
  BY DEF MatchChar, SameChar
<1>4. /\ EndOfLevel \in curn + 1 .. Len(name) + 1
      /\ \A m \in curn + 1 .. EndOfLevel - 1 : name[m] # "/"
      /\ EndOfLevel <= Len(name) => name[EndOfLevel] = "/"
  <2>1. \E e \in curn + 1 .. Len(name) + 1 :
            (\A m \in curn + 1 .. e - 1 : name[m] # "/") /\ (e <= Len(name) => name[e] = "/")
    BY <1>1, <1>2, EndOfLevelFacts
  <2> QED BY <2>1 DEF EndOfLevel
<1>5. PICK to : to = CASE filter[curf] = "+" -> EndOfLevel
                       [] filter[curf] = "#" -> EndOfName
                       [] OTHER -> curn + 1
  OBVIOUS
<1>6. filter[curf] = "+" => to = EndOfLevel
  BY <1>5
<1>7. filter[curf] = "#" => to = Len(name) + 1
  BY <1>5 DEF EndOfName
<1>8. filter[curf] \notin {"+", "#"} => to = curn + 1
  BY <1>5
<1>9. /\ filter[curf] = "+" => /\ to \in curn + 1 .. Len(name) + 1
                               /\ \A m \in curn + 1 .. to - 1 : name[m] # "/"
                               /\ to <= Len(name) => name[to] = "/"
  BY <1>4, <1>6
<1>10. Walked(filter, name, curf + 1, to)
  BY <1>1, <1>2, <1>3, <1>7, <1>8, <1>9, WalkRound
<1>11. to \in 1 .. Len(name) + 1
  BY <1>1, <1>2, <1>7, <1>8, <1>9
<1>12. curf + 1 \in 1 .. Len(filter) + 1
  BY <1>1, <1>2
<1>13. curf' = curf + 1 /\ curn' = to /\ filter' = filter /\ name' = name /\ mode' = mode
       /\ found' = found
  BY <1>5 DEF MatchChar
<1>14. TopicTypeOK' /\ StringsKept'
  BY <1>11, <1>12, <1>13 DEF TopicIInv, TopicTypeOK, StringsKept
<1>15. Walked(filter, name, curf, curn)'
  BY <1>10, <1>13
<1>16. FoundIsCovered' /\ CoveredIsDelivered'
  BY <1>2, <1>13 DEF FoundIsCovered, CoveredIsDelivered
<1> QED BY <1>14, <1>15, <1>16 DEF TopicIInv

(* The result: at the ends of both strings all levels are covered, and the *)
(* search of a covered name does not stop before.                          *)
LEMMA ResultStep == TopicIInv /\ iotx_mc_is_topic_matched => TopicIInv'
<1> SUFFICES ASSUME TopicIInv, iotx_mc_is_topic_matched PROVE TopicIInv'
  OBVIOUS
<1>1. /\ filter \in Seq(Characters) /\ name \in Seq(Characters)
      /\ curf \in 1 .. Len(filter) + 1 /\ curn \in 1 .. Len(name) + 1
      /\ filter # <<>> /\ filter[1] = "/"
  BY FilterFacts DEF TopicIInv, TopicTypeOK, StringsKept
<1>2. Walked(filter, name, curf, curn)
  BY DEF TopicIInv, iotx_mc_is_topic_matched
<1>3. /\ found' = IF curn = Len(name) + 1 /\ curf = Len(filter) + 1 THEN "yes" ELSE "no"
      /\ UNCHANGED <<mode, filter, name, curf, curn>>
  BY DEF iotx_mc_is_topic_matched
<1>4. TopicTypeOK' /\ StringsKept'
  BY <1>3 DEF TopicIInv, TopicTypeOK, StringsKept
<1>5. found' # "unknown"
  BY <1>3
<1>6. FoundIsCovered'
  <2> SUFFICES ASSUME found' = "yes" PROVE LevelMatch(Levels(filter), Levels(name))
    BY <1>3 DEF FoundIsCovered
  <2>1. curn = Len(name) + 1 /\ curf = Len(filter) + 1
    BY <1>3
  <2>2. Walked(filter, name, Len(filter) + 1, Len(name) + 1)
    BY <1>2, <2>1
  <2> QED BY <1>1, <2>2, MatchedIsCovered
<1>7. CoveredIsDelivered'
  <2> SUFFICES ASSUME mode = "deliver", found' = "no",
                      \A k \in 2 .. Len(Levels(name)) : Levels(name)[k] # <<>>,
                      Len(Levels(name)) >= Len(Levels(filter)),
                      LevelMatch(Levels(filter), Levels(name))
               PROVE  FALSE
    BY <1>3 DEF CoveredIsDelivered
  <2>1. name \in TopicNames
    BY DEF TopicIInv, StringsKept
  <2>2. CoveredName(filter, name)
    BY <2>1, NameFacts DEF CoveredName
  <2>3. ~ (curf = Len(filter) + 1 /\ curn = Len(name) + 1)
    BY <1>3
  <2>4. /\ curf <= Len(filter) /\ curn <= Len(name)
        /\ name[curn] = "/" => filter[curf] = "/"
        /\ filter[curf] \in {"+", "#", name[curn]}
    BY <1>1, <1>2, <2>2, <2>3, CoveredGoesOn
  <2> QED BY <2>4 DEF iotx_mc_is_topic_matched, InLoop, SameChar
<1> QED BY <1>4, <1>5, <1>6, <1>7 DEF TopicIInv

LEMMA TopicStep == TopicIInv /\ [TopicNext]_topicVars => TopicIInv'
<1> SUFFICES ASSUME TopicIInv, [TopicNext]_topicVars PROVE TopicIInv'
  OBVIOUS
<1>1. CASE MQTTPacket_equals
  BY <1>1, EqualsStep
<1>2. CASE MatchChar
  BY <1>2, RoundStep
<1>3. CASE iotx_mc_is_topic_matched
  BY <1>3, ResultStep
<1>4. CASE SearchOver \/ UNCHANGED topicVars
  <2>1. UNCHANGED topicVars
    BY <1>4 DEF SearchOver
  <2> QED BY <2>1 DEF TopicIInv, TopicTypeOK, StringsKept, FoundIsCovered, CoveredIsDelivered, topicVars
<1> QED BY <1>1, <1>2, <1>3, <1>4 DEF TopicNext

(* The search is always where its inductive invariant says.                *)
LEMMA TopicAlways == TopicSpec => []TopicIInv
<1>1. TopicInit => TopicIInv
  BY TopicInitInv
<1>2. TopicIInv /\ [TopicNext]_topicVars => TopicIInv'
  BY TopicStep
<1> QED BY <1>1, <1>2, PTL DEF TopicSpec

(* What an unsubscription has found is covered by a filter without zeros.  *)
LEMMA FoundNeedsWildcard == TopicIInv => ZeroNeedsWildcard
<1> SUFFICES ASSUME TopicIInv, mode = "unsubscribe", found = "yes"
             PROVE  Levels(filter)[Len(Levels(filter))] \in {<<"+">>, <<"#">>}
  BY DEF ZeroNeedsWildcard
<1>1. filter \in TopicFilters /\ filter \in Seq(Characters) /\ name \in Seq(Characters)
      /\ name # <<>> /\ name[Len(name)] = NUL
  BY DEF TopicIInv, TopicTypeOK, StringsKept
<1>2. LevelMatch(Levels(filter), Levels(name))
  BY DEF TopicIInv, FoundIsCovered
<1> QED BY <1>1, <1>2, ZeroLevel

(* iotx_mc_is_topic_matched never leaves either string, whatever it or     *)
(* MQTTPacket_equals finds is covered by its filter, level by level, and   *)
(* what an unsubscription finds has a filter that ends in a wildcard.      *)
THEOREM SearchIsSound == TopicSpec => []TopicInv
<1>1. TopicIInv => TopicInv
  BY FoundNeedsWildcard DEF TopicIInv, TopicInv
<1> QED BY <1>1, TopicAlways, PTL

(* No message whose levels are not empty misses a filter that covers it    *)
(* with as many levels: the search by characters is complete for them.     *)
THEOREM SearchIsComplete == TopicSpec => []CoveredIsDelivered
<1>1. TopicIInv => CoveredIsDelivered
  BY DEF TopicIInv
<1> QED BY <1>1, TopicAlways, PTL

(* iotx_mc_check_topic accepts no filter with a wildcard beside another    *)
(* character of its level, although infra_strtok hides a last level of one *)
(* character from iotx_mc_check_rule.                                      *)
THEOREM AcceptedWildcardsStandAlone ==
  \A s \in TopicFilters : WildcardsAlone(s)
BY FilterFacts
=============================================================================
