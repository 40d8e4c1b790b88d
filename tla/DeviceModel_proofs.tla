------------------------- MODULE DeviceModel_proofs -------------------------
(***************************************************************************)
(* What holds of the device model's request/reply sessions for every size  *)
(* of the message cache and of the IPC queue and any number of requests    *)
(* and replies.                                                            *)
(***************************************************************************)
EXTENDS DmRequest, Ota, FiniteSetTheorems, SequenceTheorems, TLAPS

(* The call in progress: its request is new to the cache until Link, and   *)
(* the room CheckRoom saw is still there.                                  *)
AppInv ==
    /\ app.pc # "idle" => app.id \in 0 .. next_id - 1 /\ app.id \notin sent
    /\ app.pc \in {"check", "link"} => app.id \notin cached \cup faded
    /\ app.pc = "link" => dmc_list_size < CacheMax
    /\ cached \cup faded \cup sent \subseteq 0 .. next_id - 1

(* Who is inside dm_msg_cache_tick, and what it has still to remove.       *)
TickInv ==
    /\ aged \subseteq cached
    /\ cached \cap faded = {}
    /\ \A y \in Yielders : ypc[y] = "tick" <=> cache_mutex = y
    /\ \A y \in Yielders : ypc[y] = "tick" => due[y] \subseteq aged

(* Only requests the cloud got are answered.                               *)
ReplyInv ==
    /\ \A y \in Yielders : ypc[y] \in {"notify", "forget"} => ycur[y] \in sent
    /\ \A r \in Requests : replies[r] > 0 => r \in sent

CacheInv == TypeOK /\ AppInv /\ TickInv /\ SlotAccounting /\ ReplyInv

LEMMA RequestsFinite == IsFiniteSet(Requests)
  BY FS_Interval, DmAssumption DEF Requests

LEMMA SubsetsFinite == \A S \in SUBSET Requests : IsFiniteSet(S) /\ Cardinality(S) \in Nat
  BY RequestsFinite, FS_Subset, FS_CardinalityType

LEMMA RequestsInt == Requests \subseteq Nat /\ -1 \notin Requests
  BY DmAssumption DEF Requests

(* What dm_ipc_msg_insert does to the queue's type.                        *)
LEMMA InsertType ==
  ASSUME TypeOK, NEW m \in Messages, dm_ipc_msg_insert(m)
  PROVE  /\ queue' \in Seq(Messages) /\ Len(queue') <= QueueMax
         /\ dropped' \in SUBSET Requests
<1>1. CASE Len(queue) >= QueueMax
  BY <1>1 DEF dm_ipc_msg_insert, TypeOK, Messages
<1>2. CASE ~(Len(queue) >= QueueMax)
  <2>1. queue' = Append(queue, m) /\ dropped' = dropped
    BY <1>2 DEF dm_ipc_msg_insert
  <2>2. Len(queue') = Len(queue) + 1 /\ queue' \in Seq(Messages)
    BY <2>1 DEF TypeOK
  <2> QED BY <1>2, <2>1, <2>2, DmAssumption, LenProperties DEF TypeOK
<1> QED BY <1>1, <1>2

LEMMA MessagesTyped ==
  ASSUME TypeOK, NEW r \in Requests
  PROVE  Reply(r) \in Messages /\ Timeout(r) \in Messages /\ Other \in Messages
  BY DEF TypeOK, Reply, Timeout, Other, Messages, ReplyType, CachedType, EventTypes, Kinds,
         OptionalKinds

(* What dm_msg_cache_remove does to the slots.                             *)
LEMMA RemoveSlot ==
  ASSUME CacheInv, NEW r \in Requests, dm_msg_cache_remove(r)
  PROVE  /\ dmc_list_size' \in 0 .. CacheMax
         /\ dmc_list_size' <= dmc_list_size
         /\ SlotAccounting'
<1>1. IsFiniteSet(cached) /\ Cardinality(cached) \in Nat /\ Cardinality(faded) \in Nat
  BY SubsetsFinite DEF CacheInv, TypeOK
<1>2. CASE r \in cached
  <2>1. Cardinality(cached \ {r}) = Cardinality(cached) - 1
    BY <1>1, <1>2, FS_RemoveElement
  <2>2. Cardinality(cached \ {r}) \in Nat
    BY SubsetsFinite DEF CacheInv, TypeOK
  <2>3. cached' = cached \ {r} /\ faded' = faded /\ dmc_list_size' = dmc_list_size - 1
    BY <1>2 DEF dm_msg_cache_remove
  <2>4. dmc_list_size = Cardinality(cached) + Cardinality(faded) /\ dmc_list_size \in 0 .. CacheMax
    BY DEF CacheInv, TypeOK, SlotAccounting
  <2>5. Cardinality(cached') = Cardinality(cached) - 1 /\ Cardinality(cached') \in Nat
    BY <2>1, <2>2, <2>3
  <2>6. Cardinality(faded') = Cardinality(faded)
    BY <2>3
  <2> QED BY <1>1, <2>3, <2>4, <2>5, <2>6, DmAssumption DEF SlotAccounting
<1>3. CASE r \notin cached
  <2>1. cached' = cached /\ faded' = faded /\ dmc_list_size' = dmc_list_size
    BY <1>3 DEF dm_msg_cache_remove
  <2>2. dmc_list_size \in 0 .. CacheMax /\ SlotAccounting
    BY DEF CacheInv, TypeOK
  <2> QED BY <2>1, <2>2, DmAssumption DEF SlotAccounting
<1> QED BY <1>2, <1>3

(* The records of the requesting thread.                                   *)
AppType == [pc : {"idle", "check", "link", "send", "remove"}, id : Requests \cup {-1}]

LEMMA AppGoto ==
  ASSUME NEW a \in AppType, NEW pc \in {"idle", "check", "link", "send", "remove"}
  PROVE  /\ [a EXCEPT !.pc = pc] \in AppType
         /\ [a EXCEPT !.pc = pc].pc = pc
         /\ [a EXCEPT !.pc = pc].id = a.id
  BY DEF AppType

LEMMA CacheInit == Init => CacheInv
<1> SUFFICES ASSUME Init PROVE CacheInv
  OBVIOUS
<1>1. TypeOK
  BY DmAssumption, RequestsInt DEF Init, TypeOK, Kinds, OptionalKinds
<1>2. Cardinality({}) = 0
  BY FS_EmptySet
<1> QED
  BY <1>1, <1>2, DmAssumption, RequestsInt
  DEF Init, CacheInv, AppInv, TickInv, SlotAccounting, ReplyInv

(* One step keeps the cache's bookkeeping in order.                        *)
LEMMA CacheStep == CacheInv /\ [Next]_vars => CacheInv'
<1> SUFFICES ASSUME CacheInv, [Next]_vars PROVE CacheInv'
  OBVIOUS
<1> USE DmAssumption
<1>i. /\ TypeOK /\ AppInv /\ TickInv /\ SlotAccounting /\ ReplyInv
  BY DEF CacheInv
<1>r. Requests \subseteq Nat /\ -1 \notin Requests /\ Requests = 0 .. MaxRequests - 1
  BY RequestsInt DEF Requests
<1>1. CASE UNCHANGED vars
  BY <1>1, <1>i DEF vars, appVars, cacheVars, ipcVars, yieldVars, CacheInv, TypeOK, AppInv, TickInv,
                    SlotAccounting, ReplyInv
<1>2. ASSUME NEW k \in CallKinds, NEW wanted \in BOOLEAN, Call(k, wanted) PROVE CacheInv'
  <2>1. k \in Kinds /\ next_id \in Requests
    BY <1>2, <1>i, <1>r DEF Call, TypeOK
  <2>a. app' \in AppType
    BY <1>2, <2>1 DEF Call, AppType
  <2>b. kind' \in [Requests -> Kinds] /\ next_id' \in 0 .. MaxRequests
    BY <1>2, <1>i, <2>1 DEF Call, TypeOK
  <2>2. TypeOK'
    BY <1>2, <1>i, <2>a, <2>b DEF Call, TypeOK, AppType, cacheVars, ipcVars, yieldVars
  <2>3. AppInv'
    BY <1>2, <1>i, <1>r, <2>1 DEF Call, TypeOK, AppInv, cacheVars
  <2>4. TickInv' /\ SlotAccounting' /\ ReplyInv'
    BY <1>2, <1>i DEF Call, TickInv, SlotAccounting, ReplyInv, cacheVars, yieldVars
  <2> QED BY <2>2, <2>3, <2>4 DEF CacheInv
<1>3. CASE CheckRoom
  <2>a. app \in AppType /\ app.id \in Requests
    BY <1>3, <1>i, <1>r DEF CheckRoom, TypeOK, AppInv, AppType
  <2>b. /\ app' \in AppType /\ app'.id = app.id
        /\ app'.pc = "send" \/ (app'.pc = "link" /\ ~(dmc_list_size >= CacheMax))
    <3>1. CASE dmc_list_size >= CacheMax
      <4>1. app' = [app EXCEPT !.pc = "send"]
        BY <1>3, <3>1 DEF CheckRoom
      <4> QED BY <2>a, <4>1, AppGoto
    <3>2. CASE ~(dmc_list_size >= CacheMax)
      <4>1. app' = [app EXCEPT !.pc = "link"]
        BY <1>3, <3>2 DEF CheckRoom
      <4> QED BY <2>a, <3>2, <4>1, AppGoto
    <3> QED BY <3>1, <3>2
  <2>1. TypeOK'
    BY <1>3, <1>i, <2>a, <2>b DEF CheckRoom, TypeOK, AppType, cacheVars, ipcVars, yieldVars
  <2>2. AppInv'
    BY <1>3, <1>i, <2>b DEF CheckRoom, TypeOK, AppInv, cacheVars
  <2>3. TickInv' /\ SlotAccounting' /\ ReplyInv'
    BY <1>3, <1>i DEF CheckRoom, TickInv, SlotAccounting, ReplyInv, cacheVars, yieldVars
  <2> QED BY <2>1, <2>2, <2>3 DEF CacheInv
<1>4. CASE Link
  <2>1. /\ app.id \in Requests /\ app.id \in 0 .. next_id - 1
        /\ app.id \notin cached \cup faded /\ dmc_list_size < CacheMax
    BY <1>4, <1>i, <1>r DEF Link, TypeOK, AppInv
  <2>a. app' \in AppType /\ app'.id = app.id /\ app'.pc = "send"
    BY <1>4, <1>i, AppGoto DEF Link, TypeOK, AppType
  <2>b. cached' \in SUBSET Requests /\ dmc_list_size' \in 0 .. CacheMax
    BY <1>4, <1>i, <2>1 DEF Link, TypeOK
  <2>2. TypeOK'
    BY <1>4, <1>i, <2>a, <2>b DEF Link, TypeOK, AppType, ipcVars, yieldVars
  <2>3. AppInv'
    BY <1>4, <1>i, <2>1, <2>a DEF Link, TypeOK, AppInv
  <2>4. TickInv' /\ ReplyInv'
    BY <1>4, <1>i, <2>1 DEF Link, TickInv, ReplyInv, yieldVars
  <2>5. SlotAccounting'
    <3>1. IsFiniteSet(cached) /\ Cardinality(cached) \in Nat /\ Cardinality(faded) \in Nat
      BY SubsetsFinite, <1>i DEF TypeOK
    <3>2. Cardinality(cached \cup {app.id}) = Cardinality(cached) + 1
      BY <3>1, <2>1, FS_AddElement
    <3>3. Cardinality(cached') = Cardinality(cached) + 1 /\ Cardinality(faded') = Cardinality(faded)
      BY <1>4, <3>2 DEF Link
    <3>4. dmc_list_size' = dmc_list_size + 1
      BY <1>4 DEF Link
    <3> QED BY <1>i, <3>1, <3>3, <3>4 DEF SlotAccounting
  <2> QED BY <2>2, <2>3, <2>4, <2>5 DEF CacheInv
<1>5. CASE dm_msg_request
  <2>0. app.id \in Requests /\ app.id \in 0 .. next_id - 1
    BY <1>5, <1>i, <1>r DEF dm_msg_request, TypeOK, AppInv
  <2>a. /\ app' \in AppType
        /\ \/ app'.pc = "idle" /\ sent' = sent \cup {app.id}
           \/ app'.pc = "remove" /\ app'.id = app.id /\ sent' = sent
        /\ returned' \in [Requests -> {"pending", "ok", "failed"}] /\ sent' \in SUBSET Requests
    <3>0. app \in AppType
      BY <1>i DEF TypeOK, AppType
    <3>1. CASE /\ sent' = sent \cup {app.id}
               /\ returned' = [returned EXCEPT ![app.id] = "ok"]
               /\ app' = [pc |-> "idle", id |-> -1]
      BY <1>i, <2>0, <3>1 DEF TypeOK, AppType
    <3>2. CASE app' = [app EXCEPT !.pc = "remove"] /\ UNCHANGED <<sent, returned>>
      BY <1>i, <3>0, <3>2, AppGoto DEF TypeOK
    <3> QED BY <1>5, <3>1, <3>2 DEF dm_msg_request
  <2>1. TypeOK'
    BY <1>5, <1>i, <2>a DEF dm_msg_request, TypeOK, AppType, cacheVars, ipcVars, yieldVars
  <2>2. AppInv'
    BY <1>5, <1>i, <2>0, <2>a DEF dm_msg_request, TypeOK, AppInv, cacheVars
  <2>3. TickInv' /\ SlotAccounting' /\ ReplyInv'
    BY <1>5, <1>i DEF dm_msg_request, TickInv, SlotAccounting, ReplyInv, cacheVars, yieldVars
  <2> QED BY <2>1, <2>2, <2>3 DEF CacheInv
<1>6. CASE GiveUp
  <2>0. app.id \in Requests /\ dm_msg_cache_remove(app.id)
    BY <1>6, <1>i, <1>r DEF GiveUp, TypeOK, AppInv
  <2>1. dmc_list_size' \in 0 .. CacheMax /\ dmc_list_size' <= dmc_list_size /\ SlotAccounting'
    BY <2>0, RemoveSlot
  <2>2. cached' = cached \ {app.id} /\ aged' = aged \ {app.id} /\ UNCHANGED <<cache_mutex, faded, raced>>
        /\ cache_mutex = NoThread
    BY <2>0 DEF dm_msg_cache_remove
  <2>3. TypeOK'
    BY <1>6, <1>i, <2>0, <2>1, <2>2 DEF GiveUp, TypeOK, ipcVars, yieldVars
  <2>4. AppInv'
    BY <1>6, <1>i, <2>2 DEF GiveUp, TypeOK, AppInv
  <2>5. TickInv' /\ ReplyInv'
    BY <1>6, <1>i, <2>2 DEF GiveUp, TickInv, ReplyInv, yieldVars
  <2> QED BY <2>1, <2>3, <2>4, <2>5 DEF CacheInv
<1>7. ASSUME NEW r \in Requests, Age(r) PROVE CacheInv'
  <2>1. TypeOK'
    BY <1>7, <1>i DEF Age, TypeOK, appVars, ipcVars, yieldVars
  <2>2. AppInv' /\ TickInv' /\ SlotAccounting' /\ ReplyInv'
    BY <1>7, <1>i DEF Age, TypeOK, AppInv, TickInv, SlotAccounting, ReplyInv, appVars, yieldVars
  <2> QED BY <2>1, <2>2 DEF CacheInv
<1>8. ASSUME NEW y \in Yielders, NEW r \in Requests, dm_msg_cache_search(y, r) PROVE CacheInv'
  <2>1. TypeOK'
    BY <1>8, <1>i DEF dm_msg_cache_search, Goto, TypeOK, appVars, cacheVars, ipcVars
  <2>2. AppInv' /\ SlotAccounting'
    BY <1>8, <1>i DEF dm_msg_cache_search, AppInv, SlotAccounting, appVars, cacheVars
  <2>3. TickInv'
    BY <1>8, <1>i DEF dm_msg_cache_search, Goto, TypeOK, TickInv, appVars, cacheVars
  <2>4. ReplyInv'
    BY <1>8, <1>i DEF dm_msg_cache_search, Goto, TypeOK, ReplyInv, appVars
  <2> QED BY <2>1, <2>2, <2>3, <2>4 DEF CacheInv
<1>9. ASSUME NEW y \in Yielders, NotifyReply(y) PROVE CacheInv'
  <2>0. ycur[y] \in Requests
    BY <1>9, <1>i DEF NotifyReply, ReplyInv, TypeOK
  <2>1. Reply(ycur[y]) \in Messages
    BY <1>i, <2>0, MessagesTyped
  <2>2. queue' \in Seq(Messages) /\ Len(queue') <= QueueMax /\ dropped' \in SUBSET Requests
    BY <1>9, <1>i, <2>1, InsertType DEF NotifyReply
  <2>3. TypeOK'
    BY <1>9, <1>i, <2>2 DEF NotifyReply, Goto, TypeOK, appVars, cacheVars
  <2>4. AppInv' /\ SlotAccounting'
    BY <1>9, <1>i DEF NotifyReply, AppInv, SlotAccounting, appVars, cacheVars
  <2>5. TickInv' /\ ReplyInv'
    BY <1>9, <1>i DEF NotifyReply, Goto, TypeOK, TickInv, ReplyInv, appVars, cacheVars
  <2> QED BY <2>3, <2>4, <2>5 DEF CacheInv
<1>10. ASSUME NEW y \in Yielders, ForgetReplied(y) PROVE CacheInv'
  <2>0. ycur[y] \in Requests /\ dm_msg_cache_remove(ycur[y])
    BY <1>10, <1>i DEF ForgetReplied, ReplyInv, TypeOK
  <2>1. dmc_list_size' \in 0 .. CacheMax /\ dmc_list_size' <= dmc_list_size /\ SlotAccounting'
    BY <2>0, RemoveSlot
  <2>2. cached' = cached \ {ycur[y]} /\ aged' = aged \ {ycur[y]} /\ UNCHANGED <<cache_mutex, faded, raced>>
        /\ cache_mutex = NoThread
    BY <2>0 DEF dm_msg_cache_remove
  <2>3. TypeOK'
    BY <1>10, <1>i, <2>1, <2>2 DEF ForgetReplied, Goto, TypeOK, appVars, ipcVars
  <2>4. AppInv'
    BY <1>10, <1>i, <2>1, <2>2 DEF ForgetReplied, TypeOK, AppInv, appVars
  <2>5. TickInv' /\ ReplyInv'
    BY <1>10, <1>i, <2>2 DEF ForgetReplied, Goto, TypeOK, TickInv, ReplyInv, appVars
  <2> QED BY <2>1, <2>3, <2>4, <2>5 DEF CacheInv
<1>11. ASSUME NEW y \in Yielders, Downstream(y) PROVE CacheInv'
  <2>1. Other \in Messages
    BY DEF Other, Messages, EventTypes
  <2>2. queue' \in Seq(Messages) /\ Len(queue') <= QueueMax /\ dropped' \in SUBSET Requests
    BY <1>11, <1>i, <2>1, InsertType DEF Downstream
  <2>3. TypeOK'
    BY <1>11, <1>i, <2>2 DEF Downstream, TypeOK, appVars, cacheVars, yieldVars
  <2>4. AppInv' /\ SlotAccounting' /\ TickInv' /\ ReplyInv'
    BY <1>11, <1>i DEF Downstream, AppInv, SlotAccounting, TickInv, ReplyInv, appVars, cacheVars, yieldVars
  <2> QED BY <2>3, <2>4 DEF CacheInv
<1>12. ASSUME NEW y \in Yielders, TickBegin(y) PROVE CacheInv'
  <2>1. TypeOK'
    BY <1>12, <1>i DEF TickBegin, Goto, TypeOK, appVars, ipcVars
  <2>2. AppInv' /\ SlotAccounting'
    BY <1>12, <1>i DEF TickBegin, AppInv, SlotAccounting, appVars
  <2>3. TickInv' /\ ReplyInv'
    BY <1>12, <1>i DEF TickBegin, Goto, TypeOK, TickInv, ReplyInv, appVars
  <2> QED BY <2>1, <2>2, <2>3 DEF CacheInv
<1>13. ASSUME NEW y \in Yielders, TickNode(y) PROVE CacheInv'
  <2>1. PICK r \in due[y] : /\ dm_ipc_msg_insert(Timeout(r))
                            /\ cached' = cached \ {r}
                            /\ aged' = aged \ {r}
                            /\ faded' = faded \cup {r}
                            /\ raced' = raced \cup {q \in {r} : BeingAnswered(q)}
                            /\ due' = [due EXCEPT ![y] = @ \ {r}]
    BY <1>13 DEF TickNode
  <2>2. r \in aged /\ r \in cached /\ r \notin faded /\ r \in Requests /\ cache_mutex = y
    BY <1>13, <1>i DEF TickNode, TickInv, TypeOK
  <2>3. queue' \in Seq(Messages) /\ Len(queue') <= QueueMax /\ dropped' \in SUBSET Requests
    BY <1>i, <2>1, <2>2, MessagesTyped, InsertType
  <2>4. TypeOK'
    BY <1>13, <1>i, <2>1, <2>2, <2>3 DEF TickNode, TypeOK, appVars
  <2>5. AppInv'
    BY <1>13, <1>i, <2>1, <2>2 DEF TickNode, AppInv, appVars
  <2>6. TickInv'
    BY <1>13, <1>i, <2>1, <2>2 DEF TickNode, TypeOK, TickInv
  <2>7. SlotAccounting'
    <3>1. /\ IsFiniteSet(cached) /\ Cardinality(cached) \in Nat
          /\ IsFiniteSet(faded) /\ Cardinality(faded) \in Nat
      BY SubsetsFinite, <1>i DEF TypeOK
    <3>2. Cardinality(cached \ {r}) = Cardinality(cached) - 1
      BY <3>1, <2>2, FS_RemoveElement
    <3>3. Cardinality(faded \cup {r}) = Cardinality(faded) + 1
      BY <3>1, <2>2, FS_AddElement
    <3>4. /\ Cardinality(cached') = Cardinality(cached) - 1
          /\ Cardinality(faded') = Cardinality(faded) + 1
          /\ dmc_list_size' = dmc_list_size
      BY <1>13, <2>1, <3>2, <3>3 DEF TickNode
    <3> QED BY <1>i, <3>1, <3>4 DEF SlotAccounting
  <2>8. ReplyInv'
    BY <1>13, <1>i DEF TickNode, ReplyInv, appVars
  <2> QED BY <2>4, <2>5, <2>6, <2>7, <2>8 DEF CacheInv
<1>14. ASSUME NEW y \in Yielders, TickEnd(y) PROVE CacheInv'
  <2>1. TypeOK'
    BY <1>14, <1>i DEF TickEnd, Goto, TypeOK, appVars, ipcVars
  <2>2. AppInv' /\ SlotAccounting'
    BY <1>14, <1>i DEF TickEnd, AppInv, SlotAccounting, appVars
  <2>3. TickInv' /\ ReplyInv'
    BY <1>14, <1>i DEF TickEnd, Goto, TypeOK, TickInv, ReplyInv, appVars
  <2> QED BY <2>1, <2>2, <2>3 DEF CacheInv
<1>15. ASSUME NEW y \in Yielders, dm_ipc_msg_next(y) PROVE CacheInv'
  <2>1. /\ Tail(queue) \in Seq(Messages) /\ Len(Tail(queue)) = Len(queue) - 1
        /\ Head(queue) \in Messages
    BY <1>15, <1>i, HeadTailProperties DEF dm_ipc_msg_next, TypeOK
  <2>3. told' \in [Requests -> [BOOLEAN -> Nat]]
    <3>1. Head(queue).timeout \in BOOLEAN
      BY <2>1 DEF Messages
    <3>2. CASE Head(queue).id \in Requests /\ UserCallback(Head(queue)) # "none"
      <4>1. told' = [told EXCEPT ![Head(queue).id][Head(queue).timeout] = @ + 1]
        BY <1>15, <3>2 DEF dm_ipc_msg_next
      <4>2. told[Head(queue).id] \in [BOOLEAN -> Nat]
        BY <1>i, <3>2 DEF TypeOK
      <4>3. [told[Head(queue).id] EXCEPT ![Head(queue).timeout] = @ + 1] \in [BOOLEAN -> Nat]
        BY <3>1, <4>2
      <4>4. told \in [Requests -> [BOOLEAN -> Nat]]
        BY <1>i DEF TypeOK
      <4> QED BY <4>1, <4>3, <4>4
    <3>3. CASE ~(Head(queue).id \in Requests /\ UserCallback(Head(queue)) # "none")
      BY <1>15, <1>i, <3>3 DEF dm_ipc_msg_next, TypeOK
    <3> QED BY <3>2, <3>3
  <2>4. TypeOK'
    BY <1>15, <1>i, <2>1, <2>3, SMTT(30) DEF dm_ipc_msg_next, TypeOK, appVars, cacheVars
  <2>5. AppInv' /\ SlotAccounting' /\ TickInv' /\ ReplyInv'
    BY <1>15, <1>i DEF dm_ipc_msg_next, AppInv, SlotAccounting, TickInv, ReplyInv, appVars, cacheVars
  <2> QED BY <2>4, <2>5 DEF CacheInv
<1>16. ASSUME NEW y \in Yielders, DrainEnd(y) PROVE CacheInv'
  <2>1. TypeOK'
    BY <1>16, <1>i DEF DrainEnd, Goto, TypeOK, appVars, cacheVars, ipcVars
  <2>2. AppInv' /\ SlotAccounting'
    BY <1>16, <1>i DEF DrainEnd, AppInv, SlotAccounting, appVars, cacheVars
  <2>3. TickInv' /\ ReplyInv'
    BY <1>16, <1>i DEF DrainEnd, Goto, TypeOK, TickInv, ReplyInv, appVars, cacheVars
  <2> QED BY <2>1, <2>2, <2>3 DEF CacheInv
<1> QED
  BY <1>1, <1>2, <1>3, <1>4, <1>5, <1>6, <1>7, <1>8, <1>9, <1>10, <1>11, <1>12, <1>13, <1>14, <1>15,
     <1>16 DEF Next, App, Dispatch

LEMMA CacheInvariance == Spec => []CacheInv
  BY CacheInit, CacheStep, PTL DEF Spec

-----------------------------------------------------------------------------
(* Every variable keeps its type; dmc_list_size stays between 0 and        *)
(* CacheMax and the IPC queue never outgrows QueueMax, for any number of   *)
(* yielding threads (dm_msg_cache_insert, dm_ipc_msg_insert).              *)
THEOREM DmTypeCorrect == Spec => []TypeOK
  BY CacheInvariance, PTL DEF CacheInv

(* For every cache size and any number of threads: a slot of the cache     *)
(* that is counted and not in use was lost to a time-out                   *)
(* (dm_msg_cache_tick), and no slot is ever lost or gained another way.    *)
THEOREM SlotsLostToTimeoutsOnly == Spec => []SlotAccounting
  BY CacheInvariance, PTL DEF CacheInv

-----------------------------------------------------------------------------
(* Where the outcomes the user hears of come from.                         *)
Answered(r) == r \in faded \/ replies[r] > 0

HeardInv ==
    /\ \A i \in DOMAIN queue : queue[i].id \in Requests => Answered(queue[i].id)
    /\ \A r \in Requests, timeout \in BOOLEAN : told[r][timeout] > 0 => Answered(r)
    /\ \A r \in dropped : Answered(r)
    /\ \A y \in Yielders : ypc[y] \in {"notify", "forget"} => replies[ycur[y]] > 0

(* Sums of two counts.                                                     *)
LEMMA SumZero == \A a, b : a = 0 /\ b = 0 => a + b = 0
  OBVIOUS

LEMMA SumOne == \A a, b \in 0 .. 1 : a = 0 \/ b = 0 => a + b <= 1
  OBVIOUS

(* What a failed call leaves behind.                                       *)
FailInv ==
    /\ app.pc # "idle" => returned[app.id] = "pending"
    /\ \A r \in Requests : r >= next_id => returned[r] = "pending"
    /\ \A r \in Requests : returned[r] = "failed" => r \notin cached /\ r \notin sent

HistoryInv == CacheInv /\ HeardInv /\ FailInv

(* dm_ipc_msg_insert adds at most one message, at the end.                 *)
LEMMA InsertAt ==
  ASSUME TypeOK, NEW m \in Messages, dm_ipc_msg_insert(m)
  PROVE  /\ \A i \in DOMAIN queue' : \/ i \in DOMAIN queue /\ queue'[i] = queue[i]
                                     \/ i = Len(queue) + 1 /\ queue'[i] = m
         /\ \/ dropped' = dropped
            \/ dropped' = dropped \cup ({m.id} \ {-1}) /\ queue' = queue
<1>1. CASE Len(queue) >= QueueMax
  <2>1. queue' = queue /\ dropped' = dropped \cup ({m.id} \ {-1})
    BY <1>1 DEF dm_ipc_msg_insert
  <2> QED BY <2>1
<1>2. CASE ~(Len(queue) >= QueueMax)
  <2>1. queue' = Append(queue, m) /\ dropped' = dropped
    BY <1>2 DEF dm_ipc_msg_insert
  <2>2. queue \in Seq(Messages)
    BY DEF TypeOK
  <2>3. /\ DOMAIN queue' = 1 .. Len(queue) + 1 /\ DOMAIN queue = 1 .. Len(queue)
        /\ Len(queue) \in Nat
        /\ \A i \in 1 .. Len(queue) : queue'[i] = queue[i]
        /\ queue'[Len(queue) + 1] = m
    BY <2>1, <2>2, AppendProperties, LenProperties
  <2> QED BY <2>1, <2>3
<1> QED BY <1>1, <1>2

LEMMA TailAt ==
  ASSUME TypeOK, queue # <<>>
  PROVE  /\ Head(queue) = queue[1] /\ 1 \in DOMAIN queue
         /\ \A i \in DOMAIN Tail(queue) : i + 1 \in DOMAIN queue /\ Tail(queue)[i] = queue[i + 1] /\ i # 0
<1>1. queue \in Seq(Messages)
  BY DEF TypeOK
<1> QED BY <1>1, HeadTailProperties

LEMMA HistoryInit == Init => HistoryInv
<1> SUFFICES ASSUME Init PROVE HistoryInv
  OBVIOUS
<1>1. CacheInv
  BY CacheInit
<1>2. HeardInv
  BY DEF Init, HeardInv
<1>3. FailInv
  BY DEF Init, FailInv
<1> QED BY <1>1, <1>2, <1>3 DEF HistoryInv

LEMMA HeardStep == HistoryInv /\ [Next]_vars => HeardInv'
<1> SUFFICES ASSUME HistoryInv, [Next]_vars PROVE HeardInv'
  OBVIOUS
<1>i. TypeOK /\ TickInv /\ ReplyInv /\ HeardInv
  BY DEF HistoryInv, CacheInv
<1>r. Requests \subseteq Nat /\ -1 \notin Requests
  BY RequestsInt
<1>1. CASE UNCHANGED vars
  BY <1>1, <1>i DEF vars, appVars, cacheVars, ipcVars, yieldVars, HeardInv, Answered
<1>2. ASSUME NEW k \in CallKinds, NEW wanted \in BOOLEAN, Call(k, wanted) PROVE HeardInv'
  BY <1>2, <1>i DEF Call, cacheVars, ipcVars, yieldVars, HeardInv, Answered
<1>3. CASE CheckRoom
  BY <1>3, <1>i DEF CheckRoom, cacheVars, ipcVars, yieldVars, HeardInv, Answered
<1>4. CASE Link
  BY <1>4, <1>i DEF Link, ipcVars, yieldVars, HeardInv, Answered
<1>5. CASE dm_msg_request
  BY <1>5, <1>i DEF dm_msg_request, cacheVars, ipcVars, yieldVars, HeardInv, Answered
<1>6. CASE GiveUp
  BY <1>6, <1>i DEF GiveUp, dm_msg_cache_remove, ipcVars, yieldVars, HeardInv, Answered
<1>7. ASSUME NEW r \in Requests, Age(r) PROVE HeardInv'
  BY <1>7, <1>i DEF Age, ipcVars, yieldVars, HeardInv, Answered
<1>8. ASSUME NEW y \in Yielders, NEW r \in Requests, dm_msg_cache_search(y, r) PROVE HeardInv'
  <2>1. \A q \in Requests : replies[q] > 0 => replies'[q] > 0
    BY <1>8, <1>i, DmAssumption DEF dm_msg_cache_search, TypeOK
  <2>2. replies'[r] > 0
    BY <1>8, <1>i, DmAssumption DEF dm_msg_cache_search, TypeOK
  <2>3. \A q \in Requests : Answered(q) => (Answered(q))'
    BY <1>8, <2>1 DEF dm_msg_cache_search, Answered, cacheVars
  <2>4. \A z \in Yielders : ypc'[z] \in {"notify", "forget"} => replies'[ycur'[z]] > 0
    BY <1>8, <1>i, <2>1, <2>2 DEF dm_msg_cache_search, Goto, TypeOK, HeardInv, ReplyInv
  <2> QED BY <1>8, <1>i, <2>1, <2>4 DEF dm_msg_cache_search, ipcVars, cacheVars, HeardInv, TypeOK, Answered
<1>9. ASSUME NEW y \in Yielders, NotifyReply(y) PROVE HeardInv'
  <2>0. ycur[y] \in Requests /\ replies[ycur[y]] > 0
    BY <1>9, <1>i DEF NotifyReply, ReplyInv, TypeOK, HeardInv
  <2>1. Reply(ycur[y]) \in Messages /\ Reply(ycur[y]).id = ycur[y]
    BY <1>i, <2>0, MessagesTyped DEF Reply
  <2>2. /\ \A i \in DOMAIN queue' : \/ i \in DOMAIN queue /\ queue'[i] = queue[i]
                                    \/ i = Len(queue) + 1 /\ queue'[i] = Reply(ycur[y])
        /\ dropped' = dropped \/ dropped' = dropped \cup ({ycur[y]} \ {-1})
    BY <1>9, <1>i, <2>1, InsertAt DEF NotifyReply
  <2> QED BY <1>9, <1>i, <2>0, <2>1, <2>2 DEF NotifyReply, Goto, TypeOK, cacheVars, HeardInv, Answered
<1>10. ASSUME NEW y \in Yielders, ForgetReplied(y) PROVE HeardInv'
  BY <1>10, <1>i DEF ForgetReplied, Goto, dm_msg_cache_remove, TypeOK, ipcVars, HeardInv, Answered
<1>11. ASSUME NEW y \in Yielders, Downstream(y) PROVE HeardInv'
  <2>1. Other \in Messages /\ Other.id = -1
    BY DEF Other, Messages, EventTypes
  <2>2. /\ \A i \in DOMAIN queue' : \/ i \in DOMAIN queue /\ queue'[i] = queue[i]
                                    \/ i = Len(queue) + 1 /\ queue'[i] = Other
        /\ dropped' = dropped
    BY <1>11, <1>i, <2>1, InsertAt DEF Downstream
  <2> QED BY <1>11, <1>i, <1>r, <2>1, <2>2 DEF Downstream, cacheVars, yieldVars, HeardInv, Answered
<1>12. ASSUME NEW y \in Yielders, TickBegin(y) PROVE HeardInv'
  BY <1>12, <1>i DEF TickBegin, Goto, TypeOK, ipcVars, HeardInv, Answered
<1>13. ASSUME NEW y \in Yielders, TickNode(y) PROVE HeardInv'
  <2>1. PICK r \in due[y] : dm_ipc_msg_insert(Timeout(r)) /\ faded' = faded \cup {r}
    BY <1>13 DEF TickNode
  <2>2. r \in Requests
    BY <1>i DEF TypeOK
  <2>3. Timeout(r) \in Messages /\ Timeout(r).id = r
    BY <1>i, <2>2, MessagesTyped DEF Timeout
  <2>4. /\ \A i \in DOMAIN queue' : \/ i \in DOMAIN queue /\ queue'[i] = queue[i]
                                    \/ i = Len(queue) + 1 /\ queue'[i] = Timeout(r)
        /\ dropped' = dropped \/ dropped' = dropped \cup ({r} \ {-1})
    BY <1>i, <2>1, <2>3, InsertAt
  <2> QED BY <1>13, <1>i, <2>1, <2>3, <2>4 DEF TickNode, HeardInv, Answered
<1>14. ASSUME NEW y \in Yielders, TickEnd(y) PROVE HeardInv'
  BY <1>14, <1>i DEF TickEnd, Goto, TypeOK, ipcVars, HeardInv, Answered
<1>15. ASSUME NEW y \in Yielders, dm_ipc_msg_next(y) PROVE HeardInv'
  <2>1. /\ Head(queue) = queue[1] /\ 1 \in DOMAIN queue
        /\ \A i \in DOMAIN queue' : i + 1 \in DOMAIN queue /\ queue'[i] = queue[i + 1]
    BY <1>15, <1>i, TailAt DEF dm_ipc_msg_next
  <2>2. \A r \in Requests, timeout \in BOOLEAN :
            told'[r][timeout] > 0 => told[r][timeout] > 0 \/ r = Head(queue).id
    BY <1>15, <1>i DEF dm_ipc_msg_next, TypeOK
  <2> QED BY <1>15, <1>i, <2>1, <2>2 DEF dm_ipc_msg_next, cacheVars, HeardInv, Answered
<1>16. ASSUME NEW y \in Yielders, DrainEnd(y) PROVE HeardInv'
  BY <1>16, <1>i DEF DrainEnd, Goto, TypeOK, cacheVars, ipcVars, HeardInv, Answered
<1> QED
  BY <1>1, <1>2, <1>3, <1>4, <1>5, <1>6, <1>7, <1>8, <1>9, <1>10, <1>11, <1>12, <1>13, <1>14, <1>15,
     <1>16 DEF Next, App, Dispatch

LEMMA FailStep == HistoryInv /\ [Next]_vars => FailInv'
<1> SUFFICES ASSUME HistoryInv, [Next]_vars PROVE FailInv'
  OBVIOUS
<1>i. TypeOK /\ AppInv /\ FailInv
  BY DEF HistoryInv, CacheInv
<1>r. Requests = 0 .. MaxRequests - 1 /\ MaxRequests \in Nat
  BY DmAssumption DEF Requests
<1>1. CASE UNCHANGED vars
  BY <1>1, <1>i DEF vars, appVars, cacheVars, FailInv
<1>2. ASSUME NEW k \in CallKinds, NEW wanted \in BOOLEAN, Call(k, wanted) PROVE FailInv'
  BY <1>2, <1>i, <1>r DEF Call, cacheVars, FailInv, TypeOK
<1>3. CASE CheckRoom
  <2>1. app'.id = app.id
    BY <1>3, <1>i DEF CheckRoom, TypeOK
  <2> QED BY <1>3, <1>i, <2>1 DEF CheckRoom, cacheVars, FailInv
<1>4. CASE Link
  <2>1. app'.id = app.id
    BY <1>4, <1>i DEF Link, TypeOK
  <2> QED BY <1>4, <1>i, <2>1 DEF Link, FailInv
<1>5. CASE dm_msg_request
  <2>0. app.id \in Requests /\ app.id < next_id
    BY <1>5, <1>i, <1>r DEF dm_msg_request, AppInv, TypeOK
  <2>1. CASE /\ sent' = sent \cup {app.id}
             /\ returned' = [returned EXCEPT ![app.id] = "ok"]
             /\ app' = [pc |-> "idle", id |-> -1]
    BY <1>5, <1>i, <1>r, <2>0, <2>1 DEF dm_msg_request, cacheVars, FailInv, TypeOK
  <2>2. CASE app' = [app EXCEPT !.pc = "remove"] /\ UNCHANGED <<sent, returned>>
    <3>1. app'.id = app.id
      BY <1>i, <2>2 DEF TypeOK
    <3> QED BY <1>5, <1>i, <2>2, <3>1 DEF dm_msg_request, cacheVars, FailInv
  <2> QED BY <1>5, <2>1, <2>2 DEF dm_msg_request
<1>6. CASE GiveUp
  <2>0. app.id \in Requests /\ app.id < next_id /\ app.id \notin sent
    BY <1>6, <1>i, <1>r DEF GiveUp, AppInv, TypeOK
  <2> QED BY <1>6, <1>i, <1>r, <2>0, SMTT(30) DEF GiveUp, dm_msg_cache_remove, FailInv, TypeOK
<1>7. ASSUME NEW r \in Requests, Age(r) PROVE FailInv'
  BY <1>7, <1>i DEF Age, appVars, FailInv
<1>8. ASSUME NEW y \in Yielders, NEW r \in Requests, dm_msg_cache_search(y, r) PROVE FailInv'
  BY <1>8, <1>i DEF dm_msg_cache_search, appVars, cacheVars, FailInv
<1>9. ASSUME NEW y \in Yielders, Dispatch(y) \/ Downstream(y) PROVE FailInv'
  <2>1. UNCHANGED appVars /\ cached' \subseteq cached
    BY <1>9 DEF Dispatch, Downstream, NotifyReply, ForgetReplied, dm_msg_cache_remove, TickBegin, TickNode,
                TickEnd, dm_ipc_msg_next, DrainEnd, cacheVars
  <2> QED BY <1>i, <2>1 DEF appVars, FailInv
<1> QED
  BY <1>1, <1>2, <1>3, <1>4, <1>5, <1>6, <1>7, <1>8, <1>9 DEF Next, App

LEMMA HistoryInvariance == Spec => []HistoryInv
<1>1. HistoryInv /\ [Next]_vars => HistoryInv'
  BY CacheStep, HeardStep, FailStep DEF HistoryInv
<1> QED BY <1>1, HistoryInit, PTL DEF Spec

(* For any number of yielding threads: a request whose call failed is out  *)
(* of the cache, never replied to, and can only have been timed out        *)
(* (the dm_mgr_upstream_thing_* functions' dm_msg_cache_remove).           *)
THEOREM FailedCallsAreForgotten == Spec => []FailedIsForgotten
<1>1. HistoryInv => FailedIsForgotten
  <2> SUFFICES ASSUME HistoryInv, NEW r \in Requests, returned[r] = "failed"
               PROVE  /\ r \notin cached
                      /\ replies[r] = 0
                      /\ r \notin faded => Heard(r, TRUE) + Heard(r, FALSE) = 0
    BY DEF FailedIsForgotten
  <2>1. r \notin cached /\ r \notin sent
    BY DEF HistoryInv, FailInv
  <2>2. replies[r] = 0
    BY <2>1, DmAssumption DEF HistoryInv, CacheInv, ReplyInv, TypeOK
  <2>3. ASSUME r \notin faded, NEW timeout \in BOOLEAN PROVE Heard(r, timeout) = 0
    <3>1. ~Answered(r) /\ told[r][timeout] \in Nat
      BY <2>2, <2>3 DEF Answered, HistoryInv, CacheInv, TypeOK
    <3>2. told[r][timeout] = 0 /\ About(r, timeout) = {}
      BY <3>1 DEF HistoryInv, HeardInv, About
    <3> QED BY <3>2, FS_EmptySet DEF Heard
  <2>4. r \notin faded => Heard(r, TRUE) = 0 /\ Heard(r, FALSE) = 0
    BY <2>3
  <2>5. r \notin faded => Heard(r, TRUE) + Heard(r, FALSE) = 0
    BY <2>4, SumZero, Zenon
  <2> QED BY <2>1, <2>2, <2>5
<1> QED BY <1>1, HistoryInvariance, PTL

(* The message cache is consistent, whatever the threads and the cloud do. *)
THEOREM CacheSound == Spec => []DmInv
  BY DmTypeCorrect, SlotsLostToTimeoutsOnly, FailedCallsAreForgotten, PTL DEF DmInv

-----------------------------------------------------------------------------
(* Nothing was reported about the reply to r, or about its time-out, and   *)
(* nothing will be from what is queued.                                    *)
Quiet(r, timeout) ==
    /\ told[r][timeout] = 0
    /\ \A i \in DOMAIN queue : ~(queue[i].id = r /\ queue[i].timeout = timeout)

(* The reply and the time-out of a request are each in one of three        *)
(* places: quiet, in the queue once, or told once.                         *)
QueuedOnce ==
    \A i, j \in DOMAIN queue :
        queue[i].id = queue[j].id /\ queue[i].timeout = queue[j].timeout /\ queue[i].id \in Requests => i = j
ToldOnce ==
    \A r \in Requests, timeout \in BOOLEAN :
        /\ told[r][timeout] <= 1
        /\ told[r][timeout] > 0 => \A i \in DOMAIN queue : ~(queue[i].id = r /\ queue[i].timeout = timeout)

(* Only a request that faded out was reported as timed out; the reply to a *)
(* cached request was not reported, except between NotifyReply and         *)
(* ForgetReplied.                                                          *)
TimeoutFresh == \A r \in Requests : r \notin faded => Quiet(r, TRUE)
ReplyFresh ==
    \A r \in cached : (\A y \in Yielders : ypc[y] = "forget" => ycur[y] # r) =>
                          Quiet(r, FALSE) /\ r \notin dropped
NotifyFresh == \A y \in Yielders : ypc[y] = "notify" => Quiet(ycur[y], FALSE)

(* The client's yield lock admits one handler of a reply at a time.        *)
OneHandler ==
    \A y, z \in Yielders : ypc[y] \in {"notify", "forget"} /\ ypc[z] \in {"notify", "forget"} => y = z

(* A request that did not time out under the handler of its reply is told  *)
(* of one outcome only.                                                    *)
Separate ==
    \A r \in Requests : r \notin raced =>
        /\ Quiet(r, TRUE) \/ Quiet(r, FALSE)
        /\ r \in dropped => Quiet(r, TRUE) /\ Quiet(r, FALSE)

Outcomes == QueuedOnce /\ ToldOnce /\ TimeoutFresh /\ ReplyFresh /\ NotifyFresh /\ OneHandler /\ Separate

OutcomeInv == HistoryInv /\ Outcomes /\ ReplyReadsLiveNode

(* Queueing a message about something quiet, or about no request.          *)
LEMMA InsertOutcome ==
  ASSUME TypeOK, QueuedOnce, ToldOnce,
         NEW m \in Messages, dm_ipc_msg_insert(m), told' = told,
         m.id \in Requests => Quiet(m.id, m.timeout)
  PROVE  /\ QueuedOnce' /\ ToldOnce'
         /\ \A r \in Requests, timeout \in BOOLEAN :
               ~(r = m.id /\ timeout = m.timeout) /\ Quiet(r, timeout) => (Quiet(r, timeout))'
         /\ \A r \in Requests : r # m.id /\ r \in dropped' => r \in dropped
         /\ m.id \in Requests /\ m.id \notin dropped /\ m.id \in dropped' => (Quiet(m.id, m.timeout))'
<1>1. /\ \A i \in DOMAIN queue' : (i \in DOMAIN queue /\ queue'[i] = queue[i])
                                  \/ (i = Len(queue) + 1 /\ queue'[i] = m)
      /\ \/ dropped' = dropped
         \/ dropped' = dropped \cup ({m.id} \ {-1}) /\ queue' = queue
  BY InsertAt
<1>2. QueuedOnce'
  BY <1>1 DEF QueuedOnce, Quiet
<1>3. ToldOnce'
  BY <1>1 DEF ToldOnce, Quiet
<1>4. \A r \in Requests, timeout \in BOOLEAN :
          ~(r = m.id /\ timeout = m.timeout) /\ Quiet(r, timeout) => (Quiet(r, timeout))'
  BY <1>1 DEF Quiet
<1>5. \A r \in Requests : r # m.id /\ r \in dropped' => r \in dropped
  BY <1>1
<1>6. m.id \in Requests /\ m.id \notin dropped /\ m.id \in dropped' => (Quiet(m.id, m.timeout))'
  BY <1>1 DEF Quiet
<1> QED BY <1>2, <1>3, <1>4, <1>5, <1>6

(* Steps that report nothing keep what is quiet.                           *)
LEMMA SilentStep ==
  ASSUME Outcomes, UNCHANGED <<queue, told>>
  PROVE  /\ QueuedOnce' /\ ToldOnce'
         /\ \A r \in Requests, timeout \in BOOLEAN : Quiet(r, timeout) => (Quiet(r, timeout))'
  BY DEF Outcomes, QueuedOnce, ToldOnce, Quiet

(* What depends on the reports alone, where they are kept.                 *)
LEMMA QuietKeeps ==
  ASSUME Outcomes, UNCHANGED <<faded, raced, dropped>>,
         \A r \in Requests, timeout \in BOOLEAN : Quiet(r, timeout) => (Quiet(r, timeout))'
  PROVE  TimeoutFresh' /\ Separate'
  BY DEF Outcomes, TimeoutFresh, Separate

LEMMA OutcomeInit == Init => OutcomeInv
<1> SUFFICES ASSUME Init PROVE OutcomeInv
  OBVIOUS
<1>1. HistoryInv
  BY HistoryInit
<1>2. \A r \in Requests, timeout \in BOOLEAN : Quiet(r, timeout)
  BY DEF Init, Quiet
<1>3. QueuedOnce /\ ToldOnce /\ ReplyFresh /\ NotifyFresh /\ OneHandler /\ ReplyReadsLiveNode
  BY DEF Init, QueuedOnce, ToldOnce, ReplyFresh, NotifyFresh, OneHandler, ReplyReadsLiveNode
<1>4. TimeoutFresh /\ Separate
  BY <1>2 DEF TimeoutFresh, Separate
<1> QED BY <1>1, <1>3, <1>4 DEF OutcomeInv, Outcomes

LEMMA OutcomeStep == OutcomeInv /\ [Next]_vars => OutcomeInv'
<1> SUFFICES ASSUME OutcomeInv, [Next]_vars PROVE OutcomeInv'
  OBVIOUS
<1>h. HistoryInv'
  BY CacheStep, HeardStep, FailStep DEF OutcomeInv, HistoryInv
<1>i. TypeOK /\ AppInv /\ TickInv /\ ReplyInv /\ HeardInv
  BY DEF OutcomeInv, HistoryInv, CacheInv
<1>o. /\ Outcomes /\ ReplyReadsLiveNode /\ QueuedOnce /\ ToldOnce /\ TimeoutFresh /\ ReplyFresh
      /\ NotifyFresh /\ OneHandler /\ Separate
  BY DEF OutcomeInv, Outcomes
<1>r. Requests \subseteq Nat /\ -1 \notin Requests /\ cached \subseteq Requests
  BY RequestsInt, <1>i DEF TypeOK
<1>c. \A y \in Yielders : ypc[y] \in {"notify", "forget"} => ycur[y] \in Requests
  BY <1>i DEF ReplyInv, TypeOK
<1> DEFINE Goal == Outcomes' /\ ReplyReadsLiveNode'
<1> SUFFICES Goal
  BY <1>h DEF OutcomeInv
<1>1. ASSUME UNCHANGED <<queue, dropped, told, ypc, ycur, faded, raced>>, cached' \subseteq cached,
             \A y \in Yielders : ypc[y] = "notify" /\ ycur[y] \in cached => ycur[y] \in cached'
      PROVE  Goal
  <2>1. /\ QueuedOnce' /\ ToldOnce'
        /\ \A r \in Requests, timeout \in BOOLEAN : Quiet(r, timeout) => (Quiet(r, timeout))'
    BY <1>1, <1>o, SilentStep
  <2>2. TimeoutFresh' /\ Separate'
    BY <1>1, <1>o, <2>1, QuietKeeps
  <2>3. ReplyFresh'
    BY <1>1, <1>o, <1>r, <2>1 DEF ReplyFresh
  <2>4. NotifyFresh' /\ OneHandler'
    BY <1>1, <1>o, <1>c, <2>1 DEF NotifyFresh, OneHandler
  <2>5. ReplyReadsLiveNode'
    BY <1>1, <1>o DEF ReplyReadsLiveNode
  <2> QED BY <2>1, <2>2, <2>3, <2>4, <2>5 DEF Outcomes
<1>2. CASE \/ UNCHANGED vars
           \/ \E k \in CallKinds, wanted \in BOOLEAN : Call(k, wanted)
           \/ CheckRoom
           \/ dm_msg_request
           \/ \E r \in Requests : Age(r)
  <2>1. UNCHANGED <<queue, dropped, told, ypc, ycur, cached, faded, raced>>
    BY <1>2 DEF vars, Call, CheckRoom, dm_msg_request, Age, ipcVars, yieldVars, cacheVars
  <2> QED BY <1>1, <2>1
<1>4. CASE Link
  <2>0. /\ UNCHANGED <<queue, dropped, told, ypc, ycur, faded, raced>>
        /\ cached' = cached \cup {app.id}
    BY <1>4 DEF Link, ipcVars, yieldVars
  <2>1. /\ QueuedOnce' /\ ToldOnce'
        /\ \A r \in Requests, timeout \in BOOLEAN : Quiet(r, timeout) => (Quiet(r, timeout))'
    BY <1>o, <2>0, SilentStep
  <2>2. app.id \in Requests /\ app.id \notin faded /\ app.id \notin sent
    BY <1>4, <1>i, <1>r DEF Link, AppInv, TypeOK
  <2>a. replies[app.id] \in 0 .. MaxReplies /\ MaxReplies \in Nat
    BY <2>2, <1>i, DmAssumption DEF TypeOK
  <2>b. ~(replies[app.id] > 0)
    BY <2>a, <2>2, <1>i DEF ReplyInv
  <2>c. ~Answered(app.id)
    BY <2>b, <2>2 DEF Answered
  <2>d. ASSUME NEW timeout \in BOOLEAN PROVE told[app.id][timeout] = 0
    <3>1. told[app.id][timeout] \in Nat
      BY <2>2, <1>i DEF TypeOK
    <3>2. ~(told[app.id][timeout] > 0)
      BY <2>2, <2>c, <1>i DEF HeardInv
    <3> QED BY <3>1, <3>2
  <2>e. told[app.id][FALSE] = 0
    BY <2>d
  <2>f. \A i \in DOMAIN queue : queue[i].id # app.id
    BY <2>2, <2>c, <1>i DEF HeardInv
  <2>4. Quiet(app.id, FALSE) /\ app.id \notin dropped
    BY <2>2, <2>c, <2>e, <2>f, <1>i DEF HeardInv, Quiet
  <2>5. TimeoutFresh' /\ Separate'
    BY <1>o, <2>0, <2>1, QuietKeeps
  <2>6. ReplyFresh'
    BY <1>o, <1>r, <2>0, <2>1, <2>2, <2>4 DEF ReplyFresh
  <2>7. NotifyFresh' /\ OneHandler' /\ ReplyReadsLiveNode'
    BY <1>o, <1>c, <2>0, <2>1 DEF NotifyFresh, OneHandler, ReplyReadsLiveNode
  <2> QED BY <2>1, <2>5, <2>6, <2>7 DEF Outcomes
<1>6. CASE GiveUp
  <2>1. UNCHANGED <<queue, dropped, told, ypc, ycur, faded, raced>> /\ cached' = cached \ {app.id}
    BY <1>6 DEF GiveUp, dm_msg_cache_remove, ipcVars, yieldVars
  <2>2. app.id \notin sent
    BY <1>6, <1>i DEF GiveUp, AppInv
  <2>3. \A y \in Yielders : ypc[y] = "notify" /\ ycur[y] \in cached => ycur[y] \in cached'
    BY <1>i, <2>1, <2>2 DEF ReplyInv
  <2> QED BY <1>1, <2>1, <2>3
<1>8. ASSUME NEW y \in Yielders, NEW r \in Requests, dm_msg_cache_search(y, r) PROVE Goal
  <2>0. /\ UNCHANGED <<queue, dropped, told, cached, faded, raced>>
        /\ \A z \in Yielders : ypc[z] \notin {"notify", "forget"}
        /\ ycur' = [ycur EXCEPT ![y] = r]
        /\ ypc' = [ypc EXCEPT ![y] = IF r \in cached THEN "notify" ELSE "forget"]
    BY <1>8 DEF dm_msg_cache_search, Goto, ipcVars, cacheVars
  <2>1. /\ QueuedOnce' /\ ToldOnce'
        /\ \A q \in Requests, timeout \in BOOLEAN : Quiet(q, timeout) => (Quiet(q, timeout))'
    BY <1>o, <2>0, SilentStep
  <2>2. TimeoutFresh' /\ Separate'
    BY <1>o, <2>0, <2>1, QuietKeeps
  <2>3. \A q \in cached : Quiet(q, FALSE) /\ q \notin dropped
    BY <1>o, <2>0 DEF ReplyFresh
  <2>4. ReplyFresh'
    BY <1>r, <2>0, <2>1, <2>3 DEF ReplyFresh
  <2>5. /\ \A z \in Yielders : ypc'[z] \in {"notify", "forget"} => z = y
        /\ ycur'[y] = r /\ (ypc'[y] = "notify" => r \in cached)
    BY <1>i, <2>0 DEF TypeOK
  <2>6. OneHandler'
    BY <2>5 DEF OneHandler
  <2>7. ReplyReadsLiveNode'
    BY <2>0, <2>5 DEF ReplyReadsLiveNode
  <2>8. NotifyFresh'
    <3>1. r \in cached => (Quiet(r, FALSE))'
      BY <1>r, <2>1, <2>3
    <3>2. SUFFICES ASSUME NEW z \in Yielders, ypc'[z] = "notify" PROVE (Quiet(ycur[z], FALSE))'
      BY DEF NotifyFresh
    <3>3. z = y /\ ycur'[z] = r /\ r \in cached
      BY <2>5, <3>2
    <3> QED BY <3>1, <3>3 DEF Quiet
  <2> QED BY <2>1, <2>2, <2>4, <2>6, <2>7, <2>8 DEF Outcomes
<1>9. ASSUME NEW y \in Yielders, NotifyReply(y) PROVE Goal
  <2> DEFINE r == ycur[y]
  <2>0. /\ r \in Requests /\ Quiet(r, FALSE) /\ r \in cached \cup raced /\ ypc[y] = "notify"
        /\ UNCHANGED <<told, cached, faded, raced, ycur>> /\ ypc' = [ypc EXCEPT ![y] = "forget"]
    BY <1>9, <1>o, <1>c DEF NotifyReply, Goto, NotifyFresh, ReplyReadsLiveNode, cacheVars
  <2>1. Reply(r) \in Messages /\ Reply(r).id = r /\ Reply(r).timeout = FALSE
    BY <1>i, <2>0, MessagesTyped DEF Reply
  <2>2. \A z \in Yielders : z # y => ypc[z] \notin {"notify", "forget"}
    BY <1>o, <2>0 DEF OneHandler
  <2>3. /\ QueuedOnce' /\ ToldOnce'
        /\ \A q \in Requests, timeout \in BOOLEAN :
              ~(q = r /\ timeout = FALSE) /\ Quiet(q, timeout) => (Quiet(q, timeout))'
        /\ \A q \in Requests : q # r /\ q \in dropped' => q \in dropped
        /\ r \notin dropped /\ r \in dropped' => (Quiet(r, FALSE))'
    BY <1>9, <1>i, <1>o, <2>0, <2>1, InsertOutcome DEF NotifyReply
  <2>4. TimeoutFresh'
    BY <1>o, <2>0, <2>3 DEF TimeoutFresh
  <2>5. ypc'[y] = "forget" /\ \A z \in Yielders : z # y => ypc'[z] = ypc[z]
    BY <1>i, <2>0 DEF TypeOK
  <2>6. r \in cached => r \notin dropped /\ r \notin faded
    BY <1>i, <1>o, <2>0, <2>2 DEF ReplyFresh, TickInv
  <2>7. ReplyFresh'
    <3> SUFFICES ASSUME NEW q \in cached', \A z \in Yielders : ypc'[z] = "forget" => ycur'[z] # q
                 PROVE  (Quiet(q, FALSE))' /\ q \notin dropped'
      BY DEF ReplyFresh
    <3>1. q # r /\ q \in cached /\ q \in Requests
      BY <1>r, <2>0, <2>5
    <3>2. Quiet(q, FALSE) /\ q \notin dropped
      BY <1>o, <2>0, <2>2, <3>1 DEF ReplyFresh
    <3> QED BY <2>3, <3>1, <3>2
  <2>8. NotifyFresh' /\ OneHandler' /\ ReplyReadsLiveNode'
    BY <2>2, <2>5 DEF NotifyFresh, OneHandler, ReplyReadsLiveNode
  <2>9. Separate'
    <3> SUFFICES ASSUME NEW q \in Requests, q \notin raced
                 PROVE  /\ (Quiet(q, TRUE))' \/ (Quiet(q, FALSE))'
                        /\ q \in dropped' => (Quiet(q, TRUE))' /\ (Quiet(q, FALSE))'
      BY <2>0 DEF Separate
    <3>1. CASE q # r
      BY <1>o, <2>3, <3>1 DEF Separate
    <3>2. CASE q = r
      <4>1. r \notin dropped /\ Quiet(r, TRUE)
        BY <1>o, <2>0, <2>6, <3>2 DEF TimeoutFresh
      <4> QED BY <2>0, <2>3, <3>2, <4>1
    <3> QED BY <3>1, <3>2
  <2> QED BY <2>3, <2>4, <2>7, <2>8, <2>9 DEF Outcomes
<1>10. ASSUME NEW y \in Yielders, ForgetReplied(y) PROVE Goal
  <2>0. /\ UNCHANGED <<queue, dropped, told, faded, raced>> /\ ypc[y] = "forget"
        /\ cached' = cached \ {ycur[y]} /\ ypc' = [ypc EXCEPT ![y] = "yield"]
        /\ ycur' = [ycur EXCEPT ![y] = -1]
    BY <1>10 DEF ForgetReplied, Goto, dm_msg_cache_remove, ipcVars
  <2>1. /\ QueuedOnce' /\ ToldOnce'
        /\ \A q \in Requests, timeout \in BOOLEAN : Quiet(q, timeout) => (Quiet(q, timeout))'
    BY <1>o, <2>0, SilentStep
  <2>2. TimeoutFresh' /\ Separate'
    BY <1>o, <2>0, <2>1, QuietKeeps
  <2>3. \A z \in Yielders : z # y => ypc[z] \notin {"notify", "forget"}
    BY <1>o, <2>0 DEF OneHandler
  <2>4. \A z \in Yielders : ypc'[z] \notin {"notify", "forget"}
    BY <1>i, <2>0, <2>3 DEF TypeOK
  <2>5. \A q \in cached' : Quiet(q, FALSE) /\ q \notin dropped
    BY <1>o, <2>0, <2>3 DEF ReplyFresh
  <2>6. ReplyFresh'
    BY <1>r, <2>0, <2>1, <2>5 DEF ReplyFresh
  <2>7. NotifyFresh' /\ OneHandler' /\ ReplyReadsLiveNode'
    BY <2>4 DEF NotifyFresh, OneHandler, ReplyReadsLiveNode
  <2> QED BY <2>1, <2>2, <2>6, <2>7 DEF Outcomes
<1>11. ASSUME NEW y \in Yielders, Downstream(y) PROVE Goal
  <2>0. UNCHANGED <<ypc, ycur, cached, faded, raced, told>> /\ dm_ipc_msg_insert(Other)
    BY <1>11 DEF Downstream, yieldVars, cacheVars
  <2>1. Other \in Messages /\ Other.id = -1
    BY DEF Other, Messages, EventTypes
  <2>2. /\ QueuedOnce' /\ ToldOnce'
        /\ \A r \in Requests, timeout \in BOOLEAN : Quiet(r, timeout) => (Quiet(r, timeout))'
    BY <1>i, <1>o, <1>r, <2>0, <2>1, InsertOutcome
  <2>3. dropped' = dropped
    BY <2>0, <2>1 DEF dm_ipc_msg_insert
  <2>4. TimeoutFresh' /\ Separate'
    BY <1>o, <2>0, <2>2, <2>3, QuietKeeps
  <2>5. ReplyFresh'
    BY <1>o, <1>r, <2>0, <2>2, <2>3 DEF ReplyFresh
  <2>6. NotifyFresh' /\ OneHandler' /\ ReplyReadsLiveNode'
    BY <1>o, <1>c, <2>0, <2>2 DEF NotifyFresh, OneHandler, ReplyReadsLiveNode
  <2> QED BY <2>2, <2>4, <2>5, <2>6 DEF Outcomes
<1>12. ASSUME NEW y \in Yielders, TickBegin(y) \/ TickEnd(y) \/ DrainEnd(y) PROVE Goal
  <2>0. /\ UNCHANGED <<queue, dropped, told, cached, faded, raced, ycur>>
        /\ ypc[y] \in {"yield", "tick", "drain"}
        /\ \E pc \in {"yield", "tick", "drain"} : ypc' = [ypc EXCEPT ![y] = pc]
    BY <1>12 DEF TickBegin, TickEnd, DrainEnd, Goto, cacheVars, ipcVars
  <2>1. /\ QueuedOnce' /\ ToldOnce'
        /\ \A q \in Requests, timeout \in BOOLEAN : Quiet(q, timeout) => (Quiet(q, timeout))'
    BY <1>o, <2>0, SilentStep
  <2>2. TimeoutFresh' /\ Separate'
    BY <1>o, <2>0, <2>1, QuietKeeps
  <2>3. \A z \in Yielders : \/ ypc'[z] = ypc[z]
                            \/ {ypc[z], ypc'[z]} \cap {"notify", "forget"} = {}
    BY <1>i, <2>0 DEF TypeOK
  <2>4. ReplyFresh'
    BY <1>o, <1>r, <2>0, <2>1, <2>3 DEF ReplyFresh
  <2>5. NotifyFresh' /\ OneHandler' /\ ReplyReadsLiveNode'
    BY <1>o, <1>c, <2>0, <2>1, <2>3 DEF NotifyFresh, OneHandler, ReplyReadsLiveNode
  <2> QED BY <2>1, <2>2, <2>4, <2>5 DEF Outcomes
<1>13. ASSUME NEW y \in Yielders, TickNode(y) PROVE Goal
  <2>1. PICK r \in due[y] : /\ dm_ipc_msg_insert(Timeout(r)) /\ cached' = cached \ {r}
                            /\ faded' = faded \cup {r}
                            /\ raced' = raced \cup {q \in {r} : BeingAnswered(q)}
    BY <1>13 DEF TickNode
  <2>0. UNCHANGED <<told, ypc, ycur>>
    BY <1>13 DEF TickNode
  <2>2. r \in cached /\ r \in Requests /\ r \notin faded /\ Quiet(r, TRUE)
    BY <1>13, <1>i, <1>o DEF TickNode, TickInv, TypeOK, TimeoutFresh
  <2>3. Timeout(r) \in Messages /\ Timeout(r).id = r /\ Timeout(r).timeout = TRUE
    BY <1>i, <2>2, MessagesTyped DEF Timeout
  <2>4. /\ QueuedOnce' /\ ToldOnce'
        /\ \A q \in Requests, timeout \in BOOLEAN :
              ~(q = r /\ timeout = TRUE) /\ Quiet(q, timeout) => (Quiet(q, timeout))'
        /\ \A q \in Requests : q # r /\ q \in dropped' => q \in dropped
        /\ r \notin dropped /\ r \in dropped' => (Quiet(r, TRUE))'
    BY <1>i, <1>o, <2>0, <2>1, <2>2, <2>3, InsertOutcome
  <2>5. TimeoutFresh'
    BY <1>o, <2>1, <2>4 DEF TimeoutFresh
  <2>6. ReplyFresh'
    BY <1>o, <1>r, <2>0, <2>1, <2>4 DEF ReplyFresh
  <2>7. NotifyFresh' /\ OneHandler'
    BY <1>o, <1>c, <2>0, <2>4 DEF NotifyFresh, OneHandler
  <2>8. ReplyReadsLiveNode'
    BY <1>o, <2>0, <2>1 DEF ReplyReadsLiveNode, BeingAnswered
  <2>9. Separate'
    <3> SUFFICES ASSUME NEW q \in Requests, q \notin raced'
                 PROVE  /\ (Quiet(q, TRUE))' \/ (Quiet(q, FALSE))'
                        /\ q \in dropped' => (Quiet(q, TRUE))' /\ (Quiet(q, FALSE))'
      BY DEF Separate
    <3>1. CASE q # r
      BY <1>o, <2>1, <2>4, <3>1 DEF Separate
    <3>2. CASE q = r
      <4>1. \A z \in Yielders : ypc[z] = "forget" => ycur[z] # r
        BY <2>1, <3>2 DEF BeingAnswered
      <4>2. Quiet(r, FALSE) /\ r \notin dropped
        BY <1>o, <2>2, <4>1 DEF ReplyFresh
      <4> QED BY <2>2, <2>4, <3>2, <4>2
    <3> QED BY <3>1, <3>2
  <2> QED BY <2>4, <2>5, <2>6, <2>7, <2>8, <2>9 DEF Outcomes
<1>15. ASSUME NEW y \in Yielders, dm_ipc_msg_next(y) PROVE Goal
  <2>0. UNCHANGED <<dropped, cached, faded, raced, ypc, ycur>>
    BY <1>15 DEF dm_ipc_msg_next, cacheVars
  <2>1. /\ Head(queue) = queue[1] /\ 1 \in DOMAIN queue
        /\ \A i \in DOMAIN queue' : i + 1 \in DOMAIN queue /\ queue'[i] = queue[i + 1] /\ i # 0
    BY <1>15, <1>i, TailAt DEF dm_ipc_msg_next
  <2>2. /\ \A i \in DOMAIN queue' : i \in Nat
        /\ \A i \in DOMAIN queue : i \in Nat
    <3>1. queue \in Seq(Messages) /\ queue' \in Seq(Messages)
      BY <1>15, <1>i, HeadTailProperties DEF dm_ipc_msg_next, TypeOK
    <3> QED BY <3>1, LenProperties
  <2>3. QueuedOnce'
    <3> SUFFICES ASSUME NEW i \in DOMAIN queue', NEW j \in DOMAIN queue',
                        queue'[i].id = queue'[j].id, queue'[i].timeout = queue'[j].timeout,
                        queue'[i].id \in Requests
                 PROVE  i = j
      BY DEF QueuedOnce
    <3>1. i + 1 = j + 1
      BY <1>o, <2>1 DEF QueuedOnce
    <3> QED BY <2>2, <3>1
  <2>4. \A i \in DOMAIN queue' : queue'[i].id \in Requests =>
            ~(queue'[i].id = Head(queue).id /\ queue'[i].timeout = Head(queue).timeout)
    BY <1>o, <2>1, <2>2 DEF QueuedOnce
  <2>5. \A r \in Requests, timeout \in BOOLEAN :
            \/ told'[r][timeout] = told[r][timeout]
            \/ /\ r = Head(queue).id /\ timeout = Head(queue).timeout
               /\ told'[r][timeout] = told[r][timeout] + 1
    <3>1. \/ told' = told
          \/ /\ Head(queue).id \in Requests
             /\ told' = [told EXCEPT ![Head(queue).id][Head(queue).timeout] = @ + 1]
      BY <1>15 DEF dm_ipc_msg_next
    <3>2. told \in [Requests -> [BOOLEAN -> Nat]]
      BY <1>i DEF TypeOK
    <3> QED BY <3>1, <3>2
  <2>6. ASSUME NEW r \in Requests, NEW timeout \in BOOLEAN
        PROVE  /\ told'[r][timeout] <= 1
               /\ told'[r][timeout] > 0 =>
                     \A i \in DOMAIN queue' : ~(queue'[i].id = r /\ queue'[i].timeout = timeout)
    <3>1. CASE told'[r][timeout] = told[r][timeout]
      BY <1>o, <2>1, <3>1 DEF ToldOnce
    <3>2. CASE /\ r = Head(queue).id /\ timeout = Head(queue).timeout
               /\ told'[r][timeout] = told[r][timeout] + 1
      <4>1. told[r][timeout] \in Nat
        BY <1>i DEF TypeOK
      <4>2. ~(told[r][timeout] > 0)
        BY <1>o, <2>1, <3>2 DEF ToldOnce
      <4>3. told'[r][timeout] = 1
        BY <3>2, <4>1, <4>2
      <4> QED BY <2>4, <3>2, <4>3
    <3> QED BY <2>5, <3>1, <3>2
  <2>7. ToldOnce'
    BY <2>6 DEF ToldOnce
  <2>8. \A r \in Requests, timeout \in BOOLEAN : Quiet(r, timeout) => (Quiet(r, timeout))'
    <3> SUFFICES ASSUME NEW r \in Requests, NEW timeout \in BOOLEAN, Quiet(r, timeout)
                 PROVE  (Quiet(r, timeout))'
      OBVIOUS
    <3>1. ~(r = Head(queue).id /\ timeout = Head(queue).timeout)
      BY <2>1 DEF Quiet
    <3>2. told'[r][timeout] = 0
      BY <2>5, <3>1 DEF Quiet
    <3>3. \A i \in DOMAIN queue' : ~(queue'[i].id = r /\ queue'[i].timeout = timeout)
      BY <2>1 DEF Quiet
    <3> QED BY <3>2, <3>3 DEF Quiet
  <2>9. TimeoutFresh' /\ Separate'
    BY <1>o, <2>0, <2>8, QuietKeeps
  <2>10. ReplyFresh'
    BY <1>o, <1>r, <2>0, <2>8 DEF ReplyFresh
  <2>11. NotifyFresh' /\ OneHandler' /\ ReplyReadsLiveNode'
    BY <1>o, <1>c, <2>0, <2>8 DEF NotifyFresh, OneHandler, ReplyReadsLiveNode
  <2> QED BY <2>3, <2>7, <2>9, <2>10, <2>11 DEF Outcomes
<1> QED
  BY <1>2, <1>4, <1>6, <1>8, <1>9, <1>10, <1>11, <1>12, <1>13, <1>15 DEF Next, App, Dispatch

LEMMA OutcomeInvariance == Spec => []OutcomeInv
  BY OutcomeInit, OutcomeStep, PTL DEF Spec

(* What is queued once or told once is heard once.                         *)
LEMMA HeardOnce ==
  ASSUME OutcomeInv, NEW r \in Requests, NEW timeout \in BOOLEAN
  PROVE  Heard(r, timeout) \in 0 .. 1 /\ (Quiet(r, timeout) => Heard(r, timeout) = 0)
<1>1. told[r][timeout] \in 0 .. 1
  BY DEF OutcomeInv, Outcomes, HistoryInv, CacheInv, TypeOK, ToldOnce
<1>2. CASE About(r, timeout) = {}
  <2>1. Cardinality(About(r, timeout)) = 0
    BY <1>2, FS_EmptySet
  <2> QED BY <1>1, <2>1 DEF Heard, Quiet
<1>3. CASE About(r, timeout) # {}
  <2>1. PICK i \in DOMAIN queue : queue[i].id = r /\ queue[i].timeout = timeout
    BY <1>3 DEF About
  <2>2. About(r, timeout) = {i}
    BY <2>1 DEF About, OutcomeInv, Outcomes, QueuedOnce
  <2>3. Cardinality(About(r, timeout)) = 1
    BY <2>2, FS_Singleton
  <2>4. told[r][timeout] = 0
    BY <1>1, <2>1 DEF OutcomeInv, Outcomes, ToldOnce
  <2>5. ~Quiet(r, timeout)
    BY <2>1 DEF Quiet
  <2> QED BY <2>3, <2>4, <2>5 DEF Heard
<1> QED BY <1>2, <1>3

(* For any number of yielding threads, whatever the sizes of the cache and *)
(* of the queue and however often the cloud answers: the user hears of a   *)
(* reply once at most and of a time-out once at most, and of both, or of   *)
(* one after the other was dropped, only if the request timed out in one   *)
(* thread while another was handling its reply.                            *)
THEOREM AtMostOneOutcome == Spec => []OneOutcome
<1>1. OutcomeInv => OneOutcome
  <2> SUFFICES ASSUME OutcomeInv, NEW r \in Requests
               PROVE  /\ \A timeout \in BOOLEAN : Heard(r, timeout) <= 1
                      /\ r \notin raced => Heard(r, TRUE) + Heard(r, FALSE) <= 1
                      /\ r \in dropped \ raced => Heard(r, TRUE) + Heard(r, FALSE) = 0
    BY DEF OneOutcome
  <2>1. \A timeout \in BOOLEAN :
            Heard(r, timeout) \in 0 .. 1 /\ (Quiet(r, timeout) => Heard(r, timeout) = 0)
    BY HeardOnce
  <2>2. r \notin raced => /\ Quiet(r, TRUE) \/ Quiet(r, FALSE)
                          /\ r \in dropped => Quiet(r, TRUE) /\ Quiet(r, FALSE)
    BY DEF OutcomeInv, Outcomes, Separate
  <2>3. /\ Heard(r, TRUE) \in 0 .. 1 /\ (Quiet(r, TRUE) => Heard(r, TRUE) = 0)
        /\ Heard(r, FALSE) \in 0 .. 1 /\ (Quiet(r, FALSE) => Heard(r, FALSE) = 0)
    BY <2>1
  <2>4. \A timeout \in BOOLEAN : Heard(r, timeout) <= 1
    BY <2>1
  <2>5. r \notin raced => Heard(r, TRUE) + Heard(r, FALSE) <= 1
    BY <2>2, <2>3, SumOne, Zenon
  <2>6. r \in dropped \ raced => Heard(r, TRUE) + Heard(r, FALSE) = 0
    BY <2>2, <2>3, SumZero, Zenon
  <2> QED BY <2>4, <2>5, <2>6
<1> QED BY <1>1, OutcomeInvariance, PTL

(* For any number of yielding threads: the node dm_msg_cache_search found  *)
(* is alive when the handler of the reply reads its device id, or was      *)
(* freed by another thread's dm_msg_cache_tick; nothing else frees it.     *)
THEOREM NoReadAfterFree == Spec => []ReplyReadsLiveNode
<1>1. OutcomeInv => ReplyReadsLiveNode
  BY DEF OutcomeInv
<1> QED BY <1>1, OutcomeInvariance, PTL

-----------------------------------------------------------------------------
(***************************************************************************)
(* Updates of firmware and configuration, for any images, sizes and        *)
(* numbers of pushes, failures and retries: the accounts of a download are *)
(* sound, and an update that reports success has stored the image that was *)
(* announced.                                                              *)
(***************************************************************************)

(* The image a channel of this kind is opened for.                         *)
Url(k) == IF k = "fota" THEN purl ELSE cota_url

(* What is hashed, fetched and stored are units; the counters never run ahead. *)
CountPart ==
    /\ stored \in Seq(Units) /\ output \in Seq(Units) /\ md5 \in Seq(Units) \cup {None}
    /\ accepted \in Nat /\ pushes \in 0 .. MaxPushes
    /\ spc # "idle" => accepted < pushes
    /\ restarted \in BOOLEAN

(* A handler past the parser, and a type that is set, have their URL.      *)
UrlPart ==
    /\ spc \in {"channel", "type", "done"} => Url(Kind[push]) # None
    /\ type # "none" => Url(type) # None

(* The update thread: its steps, what it holds, and, in an update of the
   firmware, the flags of the HAL.                                         *)
UpdatePart ==
    /\ upc = "idle" <=> step = "none"
    /\ step # "write" => output = <<>>
    /\ upc = "fota" => "failed" \notin mbedbl_status
    /\ upc = "fota" /\ step = "check" => "prepared" \in mbedbl_status

OtaIInv == OtaTypeOK /\ CountPart /\ UrlPart /\ UpdatePart /\ BytesAgree

(* NULL is not a digest, not even of nothing.                              *)
LEMMA EmptyDigest == <<>> \in Seq(Units) /\ <<>> # None /\ Len(<<>>) = 0
<1>1. <<>> \in Seq(Units) /\ Len(<<>>) = 0
  OBVIOUS
<1> QED BY <1>1, OtaAssumption

(* Strings of units, joined.                                               *)
LEMMA Joined ==
  ASSUME NEW s \in Seq(Units), NEW t \in Seq(Units)
  PROVE  /\ s \o t \in Seq(Units) /\ Len(s \o t) = Len(s) + Len(t)
         /\ s \o <<>> = s /\ <<>> \o s = s
         /\ Len(s) \in Nat /\ (Len(s) = 0 => s = <<>>)
  BY ConcatEmptySeq, EmptySeq

(* A push that is refused changes nothing; one that is admitted only the handler. *)
LEMMA PushArrivesKeeps ==
  ASSUME OtaIInv, NEW img \in Images, PushArrives(img)
  PROVE  OtaIInv'
  BY OtaAssumption DEF OtaIInv, OtaTypeOK, CountPart, UrlPart, UpdatePart, BytesAgree, Url,
     Channels, ImageKinds, PushArrives, Admits, params, fetchv, update, news

(* A parser that stops early leaves parameters of two pushes, never a handler
   without its URL. *)
LEMMA ParsePushKeeps ==
  ASSUME OtaIInv, NEW n \in 0 .. 4, ParsePush(n)
  PROVE  OtaIInv'
  BY OtaAssumption DEF OtaIInv, OtaTypeOK, CountPart, UrlPart, UpdatePart, BytesAgree, Url,
     Channels, ImageKinds, ParsePush, update, news

(* The channel of a push is for an image; one of a configuration restarts the
   accounts of an update it runs into, one of firmware leaves them alone.  *)
LEMMA PushChannelKeeps ==
  ASSUME OtaIInv, PushChannel
  PROVE  OtaIInv'
<1> USE OtaAssumption DEF OtaIInv, OtaTypeOK, CountPart, UrlPart, UpdatePart, BytesAgree, Url,
       Channels, ImageKinds
<1>1. ch_fetch' # None => ch_fetch' \in Channels
  BY DEF PushChannel, OpenChannel, Channel
<1>2. md5' \in {md5, <<>>} /\ size_file' \in Nat /\ size_fetched' \in Nat
  BY DEF PushChannel
<1>3. OtaTypeOK'
  BY <1>1, <1>2, EmptyDigest DEF PushChannel, params, update, news
<1>4. CountPart'
  BY <1>2, EmptyDigest DEF PushChannel, params, update, news
<1>5. UrlPart' /\ UpdatePart' /\ BytesAgree'
  BY DEF PushChannel, params, update, news
<1> QED BY <1>3, <1>4, <1>5

(* The type is set by a handler that has its URL. *)
LEMMA PushTypeKeeps ==
  ASSUME OtaIInv, PushType
  PROVE  OtaIInv'
  BY OtaAssumption DEF OtaIInv, OtaTypeOK, CountPart, UrlPart, UpdatePart, BytesAgree, Url,
     Channels, ImageKinds, PushType, params, update, news

(* The handler counts the push it accepts. *)
LEMMA PushDoneKeeps ==
  ASSUME OtaIInv, PushDone
  PROVE  OtaIInv'
  BY OtaAssumption DEF OtaIInv, OtaTypeOK, CountPart, UrlPart, UpdatePart, BytesAgree, Url,
     Channels, ImageKinds, PushDone, CleanState, params, update

(* The report goes no further than what was accepted. *)
LEMMA StatusCheckKeeps ==
  ASSUME OtaIInv, NEW k \in ImageKinds, StatusCheck(k)
  PROVE  OtaIInv'
  BY OtaAssumption DEF OtaIInv, OtaTypeOK, CountPart, UrlPart, UpdatePart, BytesAgree, Url,
     Channels, ImageKinds, StatusCheck, params, fetchv, signal, update

(* An update starts from nothing. *)
LEMMA PerformKeeps ==
  ASSUME OtaIInv, NEW k \in ImageKinds, Perform(k)
  PROVE  OtaIInv'
<1> USE OtaAssumption DEF OtaIInv, ImageKinds
<1>1. /\ stored' = <<>> /\ output' = <<>> /\ stored' \o output' = <<>>
      /\ Len(stored' \o output') = 0 /\ size_fetched' = 0
  BY EmptyDigest, Joined DEF Perform, UpdatePart, OtaTypeOK
<1>2. OtaTypeOK'
  BY <1>1 DEF OtaTypeOK, UpdatePart, Channels, Perform, params, signal, news
<1>a. CountPart'
  BY <1>1, EmptyDigest DEF CountPart, Perform, signal, news
<1>b. UrlPart' /\ UpdatePart'
  BY <1>1 DEF UrlPart, UpdatePart, Url, Perform, params, signal
<1>3. BytesAgree'
  BY <1>1 DEF BytesAgree, Perform
<1> QED BY <1>2, <1>a, <1>b, <1>3

(* The end of an update leaves the update thread idle and empty-handed.    *)
LEMMA ReturnFacts ==
  ASSUME OtaIInv, upc # "idle", NEW how, NEW status, Return(how, status)
  PROVE  /\ upc' = "idle" /\ step' = "none" /\ chan' = None
         /\ stored' \in Seq(Units) /\ output' = <<>> /\ retry' \in 0 .. MaxRetry
         /\ mbedbl_status' = status /\ result'.how = how
         /\ is_report' \in [ImageKinds -> BOOLEAN]
  BY EmptyDigest, OtaAssumption DEF OtaIInv, OtaTypeOK, Return, ImageKinds

(* A failed download ends the update, or goes back with one retry more.    *)
LEMMA FetchFailsFacts ==
  ASSUME OtaIInv, upc # "idle", step # "none", step # "write", FetchFails
  PROVE  /\ \/ upc' = "idle" /\ step' = "none"
            \/ upc' = upc /\ step' = "yield" /\ stored' = stored
         /\ chan' = None
         /\ output' = <<>> /\ mbedbl_status' = mbedbl_status
         /\ stored' \in Seq(Units) /\ retry' \in 0 .. MaxRetry
         /\ is_report' \in [ImageKinds -> BOOLEAN]
<1>1. CASE upc = "fota" /\ RetriesLeft
  BY <1>1, OtaAssumption
     DEF FetchFails, RetriesLeft, CountRetry, OtaIInv, OtaTypeOK, CountPart, UpdatePart
<1>2. CASE ~(upc = "fota" /\ RetriesLeft)
  BY <1>2, ReturnFacts DEF FetchFails
<1> QED BY <1>1, <1>2

(* A channel is reopened only for a type that has its URL; the digest exists
   from here on.                                                           *)
LEMMA FetchYieldKeeps ==
  ASSUME OtaIInv, FetchYield
  PROVE  OtaIInv'
<1> USE OtaAssumption DEF OtaIInv, ImageKinds
<1>1. /\ upc # "idle" /\ step = "yield" /\ output = <<>>
      /\ UNCHANGED <<type, size_file, size_fetched, params, signal, accepted, reported, restarted>>
  BY DEF FetchYield, UpdatePart
<1>2. ch_fetch' \in Channels \cup {None}
  BY DEF FetchYield, Reopened, Channel, Channels, OtaTypeOK, UrlPart, Url
<1>3. /\ state' \in {"inited", "pushed", "fetching", "fetched"}
      /\ md5' \in Seq(Units) \cup {None}
      /\ md5 # None => md5' = md5
  BY <1>1, EmptyDigest DEF FetchYield, OtaTypeOK, CountPart
<1>4. \/ /\ upc' = upc /\ step' = "fetch" /\ chan' = ch_fetch' /\ ch_fetch' # None
         /\ md5' # None
         /\ UNCHANGED <<output, stored, mbedbl_status, is_report, retry>>
      \/ FetchFails
  BY EmptyDigest DEF FetchYield
<1>a. stored \o output \in Seq(Units) /\ stored \o output # None
  BY Joined DEF CountPart
<1>5. CASE /\ upc' = upc /\ step' = "fetch" /\ chan' = ch_fetch' /\ ch_fetch' # None
           /\ md5' # None
           /\ UNCHANGED <<output, stored, mbedbl_status, is_report, retry>>
  <2>1. OtaTypeOK'
    BY <1>1, <1>2, <1>3, <1>5 DEF OtaTypeOK, params, signal
  <2>2. CountPart' /\ UrlPart'
    BY <1>1, <1>3, <1>5 DEF CountPart, UrlPart, Url, params, signal
  <2>3. UpdatePart'
    BY <1>1, <1>5 DEF UpdatePart
  <2>4. BytesAgree'
    BY <1>1, <1>3, <1>5, <1>a DEF BytesAgree
  <2> QED BY <2>1, <2>2, <2>3, <2>4
<1>6. CASE FetchFails
  <2>1. OtaTypeOK'
    BY <1>1, <1>2, <1>3, <1>6, FetchFailsFacts DEF OtaTypeOK, params, signal
  <2>2. CountPart' /\ UrlPart'
    BY <1>1, <1>3, <1>6, FetchFailsFacts, EmptyDigest DEF CountPart, UrlPart, Url, params, signal
  <2>3. UpdatePart'
    BY <1>1, <1>6, FetchFailsFacts DEF UpdatePart
  <2>4. BytesAgree'
    BY <1>1, <1>3, <1>6, <1>a, FetchFailsFacts DEF BytesAgree
  <2> QED BY <2>1, <2>2, <2>3, <2>4
<1> QED BY <1>4, <1>5, <1>6

(* What is delivered goes into the digest and on its way to the storage, and
   the size fetched advances by it.                                        *)
LEMMA FetchedKeeps ==
  ASSUME OtaIInv, Fetched
  PROVE  OtaIInv'
<1> USE OtaAssumption DEF OtaIInv, ImageKinds
<1>1. /\ upc # "idle" /\ step = "fetch" /\ md5 # None
      /\ chan \in Channels /\ output = <<>>
      /\ step' = "write" /\ chan' = None /\ retry' = 0
      /\ UNCHANGED <<size_file, upc, stored, mbedbl_status, result, fails, params, signal, news, restarted>>
  BY DEF Fetched, OtaTypeOK, UpdatePart
<1>2. PICK out \in Delivers(chan) :
        /\ md5' = RestartDigest \o out /\ size_fetched' = size_fetched + Len(out) /\ output' = out
        /\ ch_fetch' \in {ch_fetch, Advanced(chan, out)}
  BY DEF Fetched
<1>3. out \in Seq(Units)
  <2>1. \A u \in Units : <<u>> \in Seq(Units)
    OBVIOUS
  <2>2. <<"page", 0>> \in Units
    BY DEF Units
  <2>3. <<chan.img, chan.next>> \in Units
    BY <1>1 DEF Channels, Units
  <2>4. out = << <<chan.img, chan.next>> >> \/ out = <<>> \/ out = << <<"page", 0>> >>
    BY DEF Delivers, Pages
  <2> QED BY <2>1, <2>2, <2>3, <2>4, EmptyDigest
<1>4. /\ RestartDigest \in Seq(Units)
      /\ ~restarted /\ Len(stored) = size_fetched => RestartDigest = stored
      /\ ~restarted => Len(stored) <= size_fetched
      /\ ~restarted /\ upc = "fota" => Len(stored) = size_fetched
  <2>1. stored \o output = stored /\ Len(stored) \in Nat /\ (Len(stored) = 0 => stored = <<>>)
    BY <1>1, Joined DEF CountPart
  <2>2. CASE size_fetched = 0
    BY <1>1, <2>1, <2>2, EmptyDigest DEF RestartDigest, BytesAgree
  <2>3. CASE size_fetched # 0
    BY <1>1, <2>1, <2>3 DEF RestartDigest, BytesAgree, CountPart, OtaTypeOK
  <2> QED BY <2>2, <2>3
<1>5. /\ md5' \in Seq(Units) /\ Len(out) \in Nat /\ size_fetched' \in Nat /\ size_fetched \in Nat
      /\ Len(stored) \in Nat /\ Len(stored' \o output') = Len(stored) + Len(out)
  BY <1>1, <1>2, <1>3, <1>4, Joined DEF CountPart, OtaTypeOK
<1>6. ch_fetch' \in Channels \cup {None}
  <2>1. Advanced(chan, out) \in Channels
    BY <1>1 DEF Advanced, Channels
  <2> QED BY <1>2, <2>1 DEF OtaTypeOK
<1>7. state' \in {"fetched", state} /\ type' \in {"none", type}
  BY DEF Fetched
<1>8. OtaTypeOK'
  BY <1>1, <1>5, <1>6, <1>7 DEF OtaTypeOK, params, signal, news
<1>9. CountPart' /\ UrlPart'
  BY <1>1, <1>2, <1>3, <1>5, <1>7 DEF CountPart, UrlPart, Url, params, signal, news
<1>10. UpdatePart'
  BY <1>1 DEF UpdatePart
<1>11. BytesAgree'
  <2>1. ~restarted /\ Len(stored' \o output') = size_fetched' => md5' = stored' \o output'
    BY <1>1, <1>2, <1>4, <1>5
  <2>2. /\ ~restarted => Len(stored' \o output') <= size_fetched'
        /\ ~restarted /\ upc = "fota" => Len(stored' \o output') = size_fetched'
    BY <1>2, <1>4, <1>5
  <2> QED BY <1>1, <2>1, <2>2 DEF BytesAgree
<1> QED BY <1>8, <1>9, <1>10, <1>11

(* A failed download closes the channel.                                   *)
LEMMA FetchErrorKeeps ==
  ASSUME OtaIInv, FetchError
  PROVE  OtaIInv'
<1> USE DEF OtaIInv
<1>1. /\ upc # "idle" /\ step = "fetch" /\ ch_fetch' = None /\ output = <<>>
      /\ UNCHANGED <<state, type, size_file, size_fetched, md5, params, signal, accepted,
                     reported, restarted>>
      /\ FetchFails
  BY DEF FetchError, UpdatePart
<1>2. OtaTypeOK'
  BY <1>1, FetchFailsFacts DEF OtaTypeOK, params, signal
<1>3. CountPart' /\ UrlPart'
  BY <1>1, FetchFailsFacts, EmptyDigest DEF CountPart, UrlPart, Url, params, signal
<1>4. UpdatePart' /\ BytesAgree'
  BY <1>1, FetchFailsFacts DEF UpdatePart, BytesAgree
<1> QED BY <1>2, <1>3, <1>4

(* What is written was fetched.                                            *)
LEMMA WriteKeeps ==
  ASSUME OtaIInv, Write
  PROVE  OtaIInv'
<1> USE DEF OtaIInv
<1>1. /\ upc # "idle" /\ step = "write" /\ step' = "check" /\ output' = <<>>
      /\ mbedbl_status' = mbedbl_status \cup {"prepared"}
      /\ UNCHANGED <<upc, chan, retry, fails, result, fetchv, params, signal, news, restarted>>
  BY DEF Write
<1>2. /\ stored' \in Seq(Units) /\ stored' \o output' = stored \o output
  BY <1>1, Joined DEF Write, CountPart
<1>3. OtaTypeOK'
  BY <1>1 DEF OtaTypeOK, fetchv, params, signal, news
<1>4. CountPart' /\ UrlPart' /\ UpdatePart'
  BY <1>1, <1>2, EmptyDigest DEF CountPart, UrlPart, UpdatePart, Url, fetchv, params, signal, news
<1>5. BytesAgree'
  BY <1>1, <1>2 DEF BytesAgree, fetchv
<1> QED BY <1>3, <1>4, <1>5

(* A failed write ends an update of the firmware; one of the configuration
   goes on with less written than fetched, if there was anything to write. *)
LEMMA WriteFailsKeeps ==
  ASSUME OtaIInv, WriteFails
  PROVE  OtaIInv'
<1> USE DEF OtaIInv
<1>1. /\ upc # "idle" /\ step = "write" /\ chan = None
      /\ UNCHANGED <<fetchv, params, signal, accepted, reported, restarted>>
  BY DEF WriteFails, OtaTypeOK
<1>2. PICK status \in {mbedbl_status, {"prepared", "failed"}} :
        IF upc = "fota" THEN Return("fail", status)
        ELSE /\ step' = "check" /\ output' = <<>> /\ mbedbl_status' = status
             /\ UNCHANGED <<upc, chan, stored, retry, result, is_report>>
  BY DEF WriteFails
<1>3. status \subseteq {"prepared", "failed"}
  BY DEF OtaTypeOK
<1>4. CASE upc = "fota"
  <2>1. /\ upc' = "idle" /\ step' = "none" /\ chan' = None
        /\ stored' \in Seq(Units) /\ output' = <<>> /\ retry' \in 0 .. MaxRetry
        /\ mbedbl_status' = status
        /\ is_report' \in [ImageKinds -> BOOLEAN]
    BY <1>2, <1>4, ReturnFacts
  <2>2. OtaTypeOK'
    BY <1>1, <1>3, <2>1 DEF OtaTypeOK, fetchv, params, signal
  <2>3. CountPart' /\ UrlPart' /\ UpdatePart' /\ BytesAgree'
    BY <1>1, <2>1, EmptyDigest
       DEF CountPart, UrlPart, UpdatePart, BytesAgree, Url, fetchv, params, signal
  <2> QED BY <2>2, <2>3
<1>5. CASE upc # "fota"
  <2>1. /\ step' = "check" /\ output' = <<>> /\ mbedbl_status' = status
        /\ UNCHANGED <<upc, chan, stored, retry, result, is_report>>
    BY <1>2, <1>5
  <2>2. OtaTypeOK'
    BY <1>1, <1>3, <2>1 DEF OtaTypeOK, fetchv, params, signal
  <2>3. CountPart' /\ UrlPart' /\ UpdatePart'
    BY <1>1, <1>5, <2>1, EmptyDigest
       DEF CountPart, UrlPart, UpdatePart, Url, fetchv, params, signal
  <2>4. /\ stored' \o output' = stored
        /\ Len(stored \o output) = Len(stored) + Len(output)
        /\ Len(stored) \in Nat /\ Len(output) \in Nat
        /\ Len(output) = 0 => stored \o output = stored
    BY <2>1, Joined DEF CountPart
  <2>5. size_fetched \in Nat
    BY DEF OtaTypeOK
  <2>6. BytesAgree'
    BY <1>1, <1>5, <2>1, <2>4, <2>5 DEF BytesAgree, fetchv
  <2> QED BY <2>2, <2>3, <2>6
<1> QED BY <1>4, <1>5

(* The last check ends the update; another one goes on.                    *)
LEMMA CheckKeeps ==
  ASSUME OtaIInv, Check
  PROVE  OtaIInv'
<1> USE DEF OtaIInv
<1>1. /\ upc # "idle" /\ step = "check" /\ chan = None
      /\ UNCHANGED <<state, type, size_file, size_fetched, ch_fetch, params, signal,
                     accepted, reported, restarted>>
  BY DEF Check, OtaTypeOK
<1>2. CASE state = "fetched"
  <2>1. /\ Return(IF Valid THEN "ok" ELSE "fail", mbedbl_status)
        /\ md5' \in {md5, None}
    BY <1>2 DEF Check
  <2>2. /\ upc' = "idle" /\ step' = "none" /\ chan' = None
        /\ stored' \in Seq(Units) /\ output' = <<>> /\ retry' \in 0 .. MaxRetry
        /\ mbedbl_status' = mbedbl_status
        /\ is_report' \in [ImageKinds -> BOOLEAN]
    BY <1>1, <2>1, ReturnFacts
  <2>3. OtaTypeOK'
    BY <1>1, <2>2 DEF OtaTypeOK, params, signal
  <2>4. CountPart' /\ UrlPart'
    BY <1>1, <2>1, <2>2, EmptyDigest DEF CountPart, UrlPart, Url, params, signal
  <2>5. UpdatePart' /\ BytesAgree'
    BY <1>1, <2>2 DEF UpdatePart, BytesAgree
  <2> QED BY <2>3, <2>4, <2>5
<1>3. CASE state # "fetched"
  <2>1. step' = "yield" /\ UNCHANGED <<upc, chan, output, stored, mbedbl_status, retry, is_report, md5>>
    BY <1>3 DEF Check
  <2>2. OtaTypeOK'
    BY <1>1, <2>1 DEF OtaTypeOK, params, signal
  <2>3. CountPart' /\ UrlPart' /\ UpdatePart'
    BY <1>1, <2>1 DEF CountPart, UrlPart, Url, UpdatePart, params, signal
  <2>4. BytesAgree'
    BY <1>1, <2>1 DEF BytesAgree
  <2> QED BY <2>2, <2>3, <2>4
<1> QED BY <1>2, <1>3

LEMMA OtaInitIInv == OtaInit => OtaIInv
<1> SUFFICES ASSUME OtaInit PROVE OtaIInv
  OBVIOUS
<1>1. OtaTypeOK
  BY OtaAssumption, EmptyDigest DEF OtaInit, OtaTypeOK, ImageKinds
<1>2. CountPart
  <2>1. pushes \in 0 .. MaxPushes /\ accepted \in Nat
    BY OtaAssumption DEF OtaInit
  <2> QED BY <2>1, EmptyDigest DEF OtaInit, CountPart
<1>3. UrlPart /\ UpdatePart /\ BytesAgree
  BY DEF OtaInit, UrlPart, UpdatePart, BytesAgree
<1> QED BY <1>1, <1>2, <1>3 DEF OtaIInv

LEMMA OtaStepIInv == OtaIInv /\ [OtaNext]_otaVars => OtaIInv'
<1> SUFFICES ASSUME OtaIInv, [OtaNext]_otaVars PROVE OtaIInv'
  OBVIOUS
<1>1. CASE \E img \in Images : PushArrives(img)
  BY <1>1, PushArrivesKeeps
<1>2. CASE SignalStep
  BY <1>2, ParsePushKeeps, PushChannelKeeps, PushTypeKeeps, PushDoneKeeps DEF SignalStep
<1>3. CASE \E k \in ImageKinds : StatusCheck(k)
  BY <1>3, StatusCheckKeeps
<1>4. CASE \E k \in ImageKinds : Perform(k)
  BY <1>4, PerformKeeps
<1>5. CASE UpdateStep
  BY <1>5, FetchYieldKeeps, FetchedKeeps, FetchErrorKeeps, WriteKeeps, WriteFailsKeeps, CheckKeeps
     DEF UpdateStep
<1>6. CASE UNCHANGED otaVars
  BY <1>6 DEF otaVars, params, fetchv, signal, update, news, OtaIInv, OtaTypeOK, CountPart, UrlPart,
     Url, UpdatePart, BytesAgree
<1> QED BY <1>1, <1>2, <1>3, <1>4, <1>5, <1>6 DEF OtaNext

(* The threads' steps, the URLs and the accounts agree in every state.     *)
THEOREM OtaInductive == OtaSpec => []OtaIInv
  BY OtaInitIInv, OtaStepIInv, PTL DEF OtaSpec

(* In every behaviour the accounts of a download are sound: no more is written
   than was fetched, firmware is written whole, and what was written, if no
   failed write was ignored, is what was hashed, however often it was retried,
   resumed or announced in pieces (iotx_ota.c, dm_fota.c, dm_cota.c).      *)
THEOREM OtaSafe == OtaSpec => []OtaInv
<1>1. OtaIInv => OtaInv
  BY DEF OtaIInv, OtaInv
<1> QED BY <1>1, OtaInductive, PTL

(* A step that reports success finds the announced image written.          *)
SuccessStep ==
    (upc # "idle" /\ upc' = "idle" /\ result'.how = "ok" /\ ~restarted) =>
        /\ Expected # None
        /\ upc = "fota" => stored = Content(Expected) /\ mbedbl_status = {"prepared"}
        /\ Len(stored) = size_fetched => stored = Content(Expected)

LEMMA StepSuccess == OtaIInv /\ [OtaNext]_otaVars => SuccessStep
<1> SUFFICES ASSUME OtaIInv, [OtaNext]_otaVars,
                    upc # "idle", upc' = "idle", result'.how = "ok", ~restarted
             PROVE  /\ Expected # None
                    /\ upc = "fota" => stored = Content(Expected) /\ mbedbl_status = {"prepared"}
                    /\ Len(stored) = size_fetched => stored = Content(Expected)
  BY DEF SuccessStep
<1>1. UpdateStep
  BY DEF OtaNext, otaVars, update, PushArrives, SignalStep, ParsePush, PushChannel, PushType,
     PushDone, StatusCheck, Perform
<1>2. \A status : ~Return("fail", status)
  BY ReturnFacts
<1>3. Check
  BY <1>1, <1>2 DEF UpdateStep, FetchYield, Fetched, FetchError, Write, WriteFails, FetchFails
<1>4. state = "fetched" /\ Valid /\ step = "check"
  BY <1>2, <1>3 DEF Check
<1>5. stored \o output = stored
  BY <1>4, Joined DEF OtaIInv, CountPart, UpdatePart
<1>6. /\ Len(stored) = size_fetched => md5 = stored
      /\ upc = "fota" => Len(stored) = size_fetched
  BY <1>4, <1>5 DEF OtaIInv, BytesAgree
<1>7. upc = "fota" => mbedbl_status = {"prepared"}
  BY <1>4 DEF OtaIInv, OtaTypeOK, UpdatePart
<1> QED BY <1>4, <1>6, <1>7 DEF Valid

(* In every behaviour an update of the firmware that returns success has written
   exactly the image whose digest was announced, and the HAL may commit it,
   although the code compares the digest of what it hashed; an update of the
   configuration has, if it wrote as much as it fetched (dm_fota_perform_sync,
   dm_cota_perform_sync).                                                  *)
THEOREM ImageStored == OtaSpec => SuccessIsImage
<1>1. OtaIInv /\ [OtaNext]_otaVars => [SuccessStep]_otaVars
  BY StepSuccess
<1> QED BY <1>1, OtaInductive, PTL DEF OtaSpec, SuccessIsImage, SuccessStep

=============================================================================
