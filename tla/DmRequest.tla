------------------------------ MODULE DmRequest ------------------------------
(***************************************************************************)
(* The request/reply sessions of the device model.  A request to the cloud *)
(* (property post, event post, desired get/delete, device info update/     *)
(* delete) is remembered in the message cache until its reply comes or it  *)
(* fades out after DM_MSG_CACHE_TIMEOUT_MS_DEFAULT; either outcome is put  *)
(* into the bounded IPC queue, from which iotx_dm_dispatch calls the user. *)
(*                                                                         *)
(* Requests are made one at a time (_iotx_linkkit_mutex, _dm_api_lock) by  *)
(* the application; every thread of Yielders loops over IOT_Linkkit_Yield  *)
(* (the cm_yield thread of iotx_cm.c and a synchronous subscription only   *)
(* over the part that is dm_client_yield).  dm_client_yield runs under the *)
(* MQTT client's yield lock, the rest of the loop does not.  A step ends   *)
(* where a mutex is taken or released.                                     *)
(*                                                                         *)
(* A request is its message id.  Ids grow and requests are serialised, so  *)
(* the order of the cache list is the order of the ids and the list is     *)
(* represented by the set of the ids in it.  The cloud is external.        *)
(***************************************************************************)
EXTENDS Integers, Sequences, FiniteSets

CONSTANTS Yielders,     \* threads that call IOT_Linkkit_Yield
          CacheMax,     \* CONFIG_MSGCACHE_QUEUE_MAXLEN
          QueueMax,     \* CONFIG_DISPATCH_QUEUE_MAXLEN
          CallKinds,    \* the request functions the application uses
          MaxRequests,  \* bound: requests made
          MaxReplies    \* bound: deliveries of the reply to one request

NoThread == "no thread"

(* The request functions, by what they do with the cache: the optional     *)
(* ones cache the request only if the user asked for replies.              *)
OptionalKinds == {"property_post", "event_post", "desired_get", "desired_delete"}
Kinds == OptionalKinds \cup {"deviceinfo_update", "deviceinfo_delete"}

ASSUME DmAssumption ==
    /\ Yielders # {} /\ NoThread \notin Yielders
    /\ CacheMax \in Nat \ {0}
    /\ QueueMax \in Nat \ {0}
    /\ CallKinds \subseteq Kinds
    /\ MaxRequests \in Nat
    /\ MaxReplies \in Nat

VARIABLES
  next_id,        \* g_report_id
  kind,           \* kind[r]: which dm_mgr_upstream_thing_* function made r
  app,            \* the requesting thread: its next step and its request
  cached,         \* dmc_list
  dmc_list_size,
  aged,           \* cached nodes older than DM_MSG_CACHE_TIMEOUT_MS_DEFAULT
  cache_mutex,    \* the yielder inside dm_msg_cache_tick, or NoThread
  queue,          \* msg_list of dm_ipc
  ypc,            \* next step of each yielder
  ycur,           \* the request whose reply a yielder handles
  due,            \* nodes dm_msg_cache_tick still has to time out
  count,          \* count of iotx_dm_dispatch
  replies,        \* replies[r]: deliveries of the reply to r so far
  returned,       \* returned[r]: what the API call returned
  sent,           \* requests the cloud got
  refused,        \* requests dm_msg_cache_insert answered with LIST_FULL
  faded,          \* requests dm_msg_cache_tick removed
  raced,          \* the ones of them whose reply a thread was handling meanwhile
  dropped,        \* requests with an outcome dm_ipc_msg_insert refused
  told            \* told[r][timeout]: the user callbacks made about the reply to r
                  \* (FALSE) and about its time-out (TRUE)

appVars   == <<next_id, kind, app, returned, sent, refused>>
cacheVars == <<cached, dmc_list_size, aged, cache_mutex, faded, raced>>
ipcVars   == <<queue, dropped>>
yieldVars == <<ypc, ycur, due, count>>
vars == <<appVars, cacheVars, ipcVars, yieldVars, replies, told>>

Requests == 0 .. MaxRequests - 1

(* The event type stored in the cache node, reported when it fades out.    *)
CachedType(k) == IF k = "event_post" THEN "property_post" ELSE k

(* The event type the handler of the reply reports.                        *)
ReplyType(k) == k

(* _iotx_linkkit_event_callback: the user callback an event leads to.  The *)
(* time-out message carries no "data" member, without which the case of    *)
(* the desired-get reply returns early.                                    *)
UserCallback(e) ==
    CASE e.type = "event_post" -> "ITE_TRIGGER_EVENT_REPLY"
      [] e.type = "desired_get" -> IF e.timeout THEN "none" ELSE "ITE_PROPERTY_DESIRED_GET_REPLY"
      [] OTHER -> "ITE_REPORT_REPLY"

(* A message of the IPC queue about request r.                             *)
Reply(r)   == [id |-> r, type |-> ReplyType(kind[r]), timeout |-> FALSE]
Timeout(r) == [id |-> r, type |-> CachedType(kind[r]), timeout |-> TRUE]

(* A message that is no outcome of a request: a property set, a service    *)
(* call, a connection event.                                               *)
Other == [id |-> -1, type |-> "other", timeout |-> FALSE]

EventTypes == Kinds \cup {"other"}
Messages == [id : Requests \cup {-1}, type : EventTypes, timeout : BOOLEAN]

(* Every variable has values of its type, and dmc_list_size stays within   *)
(* the bound dm_msg_cache_insert enforces.                                 *)
TypeOK ==
    /\ next_id \in 0 .. MaxRequests
    /\ kind \in [Requests -> Kinds]
    /\ app \in [pc : {"idle", "check", "link", "send", "remove"}, id : Requests \cup {-1}]
    /\ cached \in SUBSET Requests
    /\ dmc_list_size \in 0 .. CacheMax
    /\ aged \in SUBSET Requests
    /\ cache_mutex \in Yielders \cup {NoThread}
    /\ queue \in Seq(Messages) /\ Len(queue) <= QueueMax
    /\ ypc \in [Yielders -> {"yield", "notify", "forget", "tick", "drain"}]
    /\ ycur \in [Yielders -> Requests \cup {-1}]
    /\ due \in [Yielders -> SUBSET Requests]
    /\ count \in [Yielders -> 0 .. QueueMax]
    /\ replies \in [Requests -> 0 .. MaxReplies]
    /\ returned \in [Requests -> {"pending", "ok", "failed"}]
    /\ sent \in SUBSET Requests
    /\ refused \in SUBSET Requests
    /\ faded \in SUBSET Requests
    /\ raced \in SUBSET faded
    /\ dropped \in SUBSET Requests
    /\ told \in [Requests -> [BOOLEAN -> Nat]]

(* iotx_dm_open has initialised the cache and the queue, and the device is *)
(* connected.                                                              *)
Init ==
    /\ next_id = 0
    /\ kind = [r \in Requests |-> "property_post"]
    /\ app = [pc |-> "idle", id |-> -1]
    /\ cached = {} /\ dmc_list_size = 0 /\ aged = {} /\ cache_mutex = NoThread
    /\ queue = <<>>
    /\ ypc = [y \in Yielders |-> "yield"]
    /\ ycur = [y \in Yielders |-> -1]
    /\ due = [y \in Yielders |-> {}]
    /\ count = [y \in Yielders |-> 0]
    /\ replies = [r \in Requests |-> 0]
    /\ returned = [r \in Requests |-> "pending"]
    /\ sent = {} /\ refused = {} /\ faded = {} /\ raced = {} /\ dropped = {}
    /\ told = [r \in Requests |-> [timeout \in BOOLEAN |-> 0]]

-----------------------------------------------------------------------------
(* The message cache and the IPC queue.                                    *)

(* Mutant of dm_msg_cache_remove: a slot is given back though nothing was  *)
(* found.                                                                  *)
RemoveAlwaysDecrements(r) ==
    /\ cache_mutex = NoThread
    /\ cached' = cached \ {r}
    /\ aged' = aged \ {r}
    /\ dmc_list_size' = dmc_list_size - 1
    /\ UNCHANGED <<cache_mutex, faded, raced>>

(* dm_msg_cache_remove(r), called with cache_mutex free.                   *)
dm_msg_cache_remove(r) ==
    /\ cache_mutex = NoThread
    /\ cached' = cached \ {r}
    /\ aged' = aged \ {r}
    /\ dmc_list_size' = IF r \in cached THEN dmc_list_size - 1 ELSE dmc_list_size
    /\ UNCHANGED <<cache_mutex, faded, raced>>

(* dm_ipc_msg_insert(m): a full queue refuses the message, which the       *)
(* senders then free.                                                      *)
dm_ipc_msg_insert(m) ==
    IF Len(queue) >= QueueMax
      THEN /\ dropped' = dropped \cup ({m.id} \ {-1})
           /\ UNCHANGED queue
      ELSE /\ queue' = Append(queue, m)
           /\ UNCHANGED dropped

-----------------------------------------------------------------------------
(* The application: one dm_mgr_upstream_thing_* call at a time.            *)

(* The call is assembled with a new id; the functions of OptionalKinds     *)
(* read the option that says whether the user wants the reply.             *)
Call(k, wanted) ==
    /\ app.pc = "idle"
    /\ next_id < MaxRequests
    /\ k \in OptionalKinds \/ wanted
    /\ next_id' = next_id + 1
    /\ kind' = [kind EXCEPT ![next_id] = k]
    /\ app' = [pc |-> IF wanted THEN "check" ELSE "send", id |-> next_id]
    /\ UNCHANGED <<returned, sent, refused, cacheVars, ipcVars, yieldVars, replies, told>>

(* dm_msg_cache_insert looks at dmc_list_size before it takes the mutex;   *)
(* its callers ignore the refusal and send all the same.                   *)
CheckRoom ==
    /\ app.pc = "check"
    /\ IF dmc_list_size >= CacheMax
         THEN /\ app' = [app EXCEPT !.pc = "send"]
              /\ refused' = refused \cup {app.id}
         ELSE /\ app' = [app EXCEPT !.pc = "link"]
              /\ UNCHANGED refused
    /\ UNCHANGED <<next_id, kind, returned, sent, cacheVars, ipcVars, yieldVars, replies, told>>

Link ==
    /\ app.pc = "link"
    /\ cache_mutex = NoThread
    /\ cached' = cached \cup {app.id}
    /\ dmc_list_size' = dmc_list_size + 1
    /\ app' = [app EXCEPT !.pc = "send"]
    /\ UNCHANGED <<next_id, kind, returned, sent, refused, aged, cache_mutex, faded, raced,
                   ipcVars, yieldVars, replies, told>>

(* dm_msg_request publishes at QoS 0: the cloud gets the request, or the   *)
(* write fails.                                                            *)
dm_msg_request ==
    /\ app.pc = "send"
    /\ \/ /\ sent' = sent \cup {app.id}
          /\ returned' = [returned EXCEPT ![app.id] = "ok"]
          /\ app' = [pc |-> "idle", id |-> -1]
       \/ /\ app' = [app EXCEPT !.pc = "remove"]
          /\ UNCHANGED <<sent, returned>>
    /\ UNCHANGED <<next_id, kind, refused, cacheVars, ipcVars, yieldVars, replies, told>>

(* The request could not be sent: it is taken out of the cache and the     *)
(* call fails.                                                             *)
GiveUp ==
    /\ app.pc = "remove"
    /\ dm_msg_cache_remove(app.id)
    /\ returned' = [returned EXCEPT ![app.id] = "failed"]
    /\ app' = [pc |-> "idle", id |-> -1]
    /\ UNCHANGED <<next_id, kind, sent, refused, ipcVars, yieldVars, replies, told>>

-----------------------------------------------------------------------------
(* The yielding threads.                                                   *)

Goto(y, pc) == ypc' = [ypc EXCEPT ![y] = pc]

(* Time passes; nodes age in the order of their creation.                  *)
Age(r) ==
    /\ r \in cached \ aged
    /\ \A s \in cached : s < r => s \in aged
    /\ aged' = aged \cup {r}
    /\ UNCHANGED <<appVars, cached, dmc_list_size, cache_mutex, faded, raced, ipcVars, yieldVars,
                   replies, told>>

(* Mutant of dm_msg_cache_search: its result is not looked at.             *)
SearchResultIgnored(y, r) ==
    /\ ypc[y] = "yield"
    /\ \A z \in Yielders : ypc[z] \notin {"notify", "forget"}
    /\ r \in sent
    /\ replies[r] < MaxReplies
    /\ cache_mutex = NoThread
    /\ replies' = [replies EXCEPT ![r] = @ + 1]
    /\ ycur' = [ycur EXCEPT ![y] = r]
    /\ Goto(y, "notify")
    /\ UNCHANGED <<appVars, cacheVars, ipcVars, due, count, told>>

(* dm_client_yield delivers the reply to r, in whatever order the cloud    *)
(* answers, perhaps twice; dm_msg_cache_search looks r up.                 *)
dm_msg_cache_search(y, r) ==
    /\ ypc[y] = "yield"
    /\ \A z \in Yielders : ypc[z] \notin {"notify", "forget"}
    /\ r \in sent
    /\ replies[r] < MaxReplies
    /\ cache_mutex = NoThread
    /\ replies' = [replies EXCEPT ![r] = @ + 1]
    /\ ycur' = [ycur EXCEPT ![y] = r]
    /\ Goto(y, IF r \in cached THEN "notify" ELSE "forget")
    /\ UNCHANGED <<appVars, cacheVars, ipcVars, due, count, told>>

(* The node was found: its device id is read, without the mutex, and the   *)
(* reply is queued for the user.                                           *)
NotifyReply(y) ==
    /\ ypc[y] = "notify"
    /\ dm_ipc_msg_insert(Reply(ycur[y]))
    /\ Goto(y, "forget")
    /\ UNCHANGED <<appVars, cacheVars, ycur, due, count, replies, told>>

(* Mutant of ForgetReplied: the answered request stays in the cache.       *)
KeepReplied(y) ==
    /\ ypc[y] = "forget"
    /\ ycur' = [ycur EXCEPT ![y] = -1]
    /\ Goto(y, "yield")
    /\ UNCHANGED <<appVars, cacheVars, ipcVars, due, count, replies, told>>

(* The handler of the reply ends by removing the request from the cache,   *)
(* whether or not the reply could be queued.                               *)
ForgetReplied(y) ==
    /\ ypc[y] = "forget"
    /\ dm_msg_cache_remove(ycur[y])
    /\ ycur' = [ycur EXCEPT ![y] = -1]
    /\ Goto(y, "yield")
    /\ UNCHANGED <<appVars, ipcVars, due, count, replies, told>>

(* dm_client_yield delivers a message that answers no request.             *)
Downstream(y) ==
    /\ ypc[y] = "yield"
    /\ \A z \in Yielders : ypc[z] \notin {"notify", "forget"}
    /\ dm_ipc_msg_insert(Other)
    /\ UNCHANGED <<appVars, cacheVars, yieldVars, replies, told>>

(* iotx_dm_dispatch: dm_msg_cache_tick takes the mutex and compares every  *)
(* node's age with the current time.                                       *)
TickBegin(y) ==
    /\ ypc[y] = "yield"
    /\ cache_mutex = NoThread
    /\ cache_mutex' = y
    /\ due' = [due EXCEPT ![y] = aged]
    /\ Goto(y, "tick")
    /\ UNCHANGED <<appVars, cached, dmc_list_size, aged, faded, raced, ipcVars, ycur, count,
                   replies, told>>

(* A thread is between dm_msg_cache_search and dm_msg_cache_remove with r. *)
BeingAnswered(r) == \E z \in Yielders : ypc[z] \in {"notify", "forget"} /\ ycur[z] = r

(* Mutant of TickNode: the node fades out without a message to the user.   *)
TickSilently(y) ==
    /\ ypc[y] = "tick"
    /\ \E r \in due[y] :
          /\ \A s \in due[y] : r <= s
          /\ cached' = cached \ {r}
          /\ aged' = aged \ {r}
          /\ faded' = faded \cup {r}
          /\ raced' = raced \cup {q \in {r} : BeingAnswered(q)}
          /\ due' = [due EXCEPT ![y] = @ \ {r}]
    /\ UNCHANGED <<appVars, dmc_list_size, cache_mutex, ypc, ycur, count, ipcVars, replies, told>>

(* The next node that is too old: the time-out message is queued and the   *)
(* node is unlinked and freed.  dmc_list_size keeps its value.             *)
TickNode(y) ==
    /\ ypc[y] = "tick"
    /\ \E r \in due[y] :
          /\ \A s \in due[y] : r <= s
          /\ dm_ipc_msg_insert(Timeout(r))
          /\ cached' = cached \ {r}
          /\ aged' = aged \ {r}
          /\ faded' = faded \cup {r}
          /\ raced' = raced \cup {q \in {r} : BeingAnswered(q)}
          /\ due' = [due EXCEPT ![y] = @ \ {r}]
    /\ UNCHANGED <<appVars, dmc_list_size, cache_mutex, ypc, ycur, count, replies, told>>

TickEnd(y) ==
    /\ ypc[y] = "tick"
    /\ due[y] = {}
    /\ cache_mutex' = NoThread
    /\ count' = [count EXCEPT ![y] = 0]
    /\ Goto(y, "drain")
    /\ UNCHANGED <<appVars, cached, dmc_list_size, aged, faded, raced, ipcVars, ycur, due,
                   replies, told>>

(* One round of the loop of iotx_dm_dispatch: dm_ipc_msg_next, then the    *)
(* user's callback.                                                        *)
dm_ipc_msg_next(y) ==
    /\ ypc[y] = "drain"
    /\ count[y] < QueueMax
    /\ queue # <<>>
    /\ queue' = Tail(queue)
    /\ count' = [count EXCEPT ![y] = @ + 1]
    /\ LET m == Head(queue)
       IN IF m.id \in Requests /\ UserCallback(m) # "none"
            THEN told' = [told EXCEPT ![m.id][m.timeout] = @ + 1]
            ELSE UNCHANGED told
    /\ UNCHANGED <<appVars, cacheVars, dropped, ypc, ycur, due, replies>>

DrainEnd(y) ==
    /\ ypc[y] = "drain"
    /\ count[y] = QueueMax \/ queue = <<>>
    /\ Goto(y, "yield")
    /\ UNCHANGED <<appVars, cacheVars, ipcVars, ycur, due, count, replies, told>>

-----------------------------------------------------------------------------
App == CheckRoom \/ Link \/ dm_msg_request \/ GiveUp

Dispatch(y) ==
    \/ NotifyReply(y) \/ ForgetReplied(y)
    \/ TickBegin(y) \/ TickNode(y) \/ TickEnd(y)
    \/ dm_ipc_msg_next(y) \/ DrainEnd(y)

Next ==
    \/ \E k \in CallKinds, wanted \in BOOLEAN : Call(k, wanted)
    \/ App
    \/ \E r \in Requests : Age(r)
    \/ \E y \in Yielders : Dispatch(y) \/ Downstream(y)
    \/ \E y \in Yielders, r \in Requests : dm_msg_cache_search(y, r)

Spec == Init /\ [][Next]_vars

(* The application finishes the calls it makes, every yielding thread      *)
(* keeps calling IOT_Linkkit_Yield, and time passes.                       *)
Fairness ==
    /\ WF_vars(App)
    /\ \A y \in Yielders : WF_vars(Dispatch(y))
    /\ WF_vars(\E r \in Requests : Age(r))

FairSpec == Spec /\ Fairness

-----------------------------------------------------------------------------
(* Properties.                                                             *)

(* What is queued about the reply to r, or about its time-out, and what    *)
(* the user has heard or will hear of it.                                  *)
About(r, timeout) == {i \in DOMAIN queue : queue[i].id = r /\ queue[i].timeout = timeout}
Heard(r, timeout) == Cardinality(About(r, timeout)) + told[r][timeout]

(* The user hears of a reply at most once and of a time-out at most once,  *)
(* whenever the reply comes and however often; never of both, and not of   *)
(* one when the other was dropped, unless the request timed out in a       *)
(* second yielding thread just while its reply was being handled           *)
(* (dm_msg_cache_search and dm_msg_cache_remove against dm_msg_cache_tick).*)
OneOutcome ==
    \A r \in Requests :
        /\ \A timeout \in BOOLEAN : Heard(r, timeout) <= 1
        /\ r \notin raced => Heard(r, TRUE) + Heard(r, FALSE) <= 1
        /\ r \in dropped \ raced => Heard(r, TRUE) + Heard(r, FALSE) = 0

(* The nodes in the cache never outnumber what dmc_list_size says, and     *)
(* every slot that is counted and not in use was lost to a time-out:       *)
(* dm_msg_cache_remove gives slots back, dm_msg_cache_tick does not.       *)
SlotAccounting == dmc_list_size = Cardinality(cached) + Cardinality(faded)

(* The handler of a reply reads the device id of a node that is still in   *)
(* the cache (dm_message.c:607), or that the dm_msg_cache_tick of another  *)
(* thread freed under it: the failing call of the request, the handler of  *)
(* a repeated reply and the thread's own tick never do.                    *)
ReplyReadsLiveNode == \A y \in Yielders : ypc[y] = "notify" => ycur[y] \in cached \cup raced

(* When the API has returned an error the request is out of the cache, so  *)
(* nothing more can come of it, and what the user may have heard of it is  *)
(* a time-out that happened while the send was blocked: no reply.          *)
FailedIsForgotten ==
    \A r \in Requests : returned[r] = "failed" =>
        /\ r \notin cached
        /\ replies[r] = 0
        /\ r \notin faded => Heard(r, TRUE) + Heard(r, FALSE) = 0

(* The message cache is consistent: every slot is accounted for, and a     *)
(* request whose call failed has left it.                                  *)
DmInv == TypeOK /\ SlotAccounting /\ FailedIsForgotten

(* A request whose outcome the user asked for is answered: a callback      *)
(* comes, unless the queue was full when the outcome was due, the call     *)
(* itself failed, or it was a desired get, whose time-out has no callback. *)
CachedIsAnswered ==
    \A r \in Requests :
        r \in cached ~> \/ told[r][TRUE] + told[r][FALSE] > 0
                        \/ r \in dropped
                        \/ returned[r] = "failed"
                        \/ kind[r] = "desired_get"

(* STATE_DEV_MODEL_CTX_LIST_FULL says that the cache list is full.         *)
FullMeansFull == [][refused' # refused => Cardinality(cached) = CacheMax]_vars
=============================================================================
