--------------------------- MODULE Gateway_proofs ---------------------------
(***************************************************************************)
(* Proofs about Gateway for any number of callers, sub-devices, calls,     *)
(* pushes and losses and any length of the queue.                          *)
(*                                                                         *)
(* The mutex serialises the calls, ids grow, and the replies are handled   *)
(* in the order of the requests.  So a reply that grants the request of    *)
(* the call in progress is the last message there is, and what it did to   *)
(* the device list stays until the call returns.                           *)
(***************************************************************************)
EXTENDS Gateway, FiniteSetTheorems, SequenceTheorems, TLAPS

Ops == {"register", "topo_add", "topo_delete", "login", "logout"}
Replies == [id : Nat, op : Ops, dev : Devices, ok : BOOLEAN]
Events == [id : Nat, ok : BOOLEAN]
Steps == {"idle", "lock", "request", "insert", "wait", "read", "success",
          "subscribe", "close_lock", "close", "undefined"}
Statuses == {"none", "authorized", "registered", "attached", "logined"}

(* Steps of a call that holds the mutex; of one whose request was sent.    *)
Calling == {"request", "insert", "wait", "read", "subscribe", "success"}
Asked == {"insert", "wait", "read", "subscribe", "success"}

(* The records the lists are made of.                                      *)
Types ==
    /\ is_opened \in BOOLEAN /\ yield_running \in BOOLEAN /\ is_yield_running \in BOOLEAN
    /\ mutex \in Callers \cup {NoThread}
    /\ app \in [Callers -> [pc : Steps, kind : Kinds \cup {"none"},
                            dev : Devices \cup {"none"}, op : Ops \cup {"none"}, id : Nat]]
    /\ sync \subseteq [id : Nat, ok : BOOLEAN, posted : BOOLEAN]
    /\ dev \in [Devices -> [devid : Nat, status : Statuses, secret : BOOLEAN]]
    /\ cache \subseteq [id : Nat, devid : Nat]
    /\ next_id \in Nat \ {0} /\ next_devid \in Nat
    /\ down \in Seq(Replies)
    /\ cm \in [pc : {"idle", "session", "topo", "forget"}, msg : Replies \cup {NoMessage}]
    /\ ipc \in Seq(Events) /\ Len(ipc) <= QueueMax
    /\ count \in 0 .. QueueMax
    /\ ypc \in {"out", "entered", "tick", "drain", "callback", "undefined"}
    /\ accepted \in [Devices -> Nat] /\ session \subseteq Devices

(* The call in progress holds the mutex and its device keeps its node.     *)
CallPart ==
    /\ \A c \in Callers : app[c].pc \in Calling \cup {"close"} <=> mutex = c
    /\ \A c \in Callers : app[c].pc = "lock" => app[c].dev \in Devices /\ app[c].kind \in Kinds
    /\ \A c \in Callers : app[c].pc \in Calling =>
          /\ app[c].dev \in Devices /\ app[c].op \in Ops
          /\ dev[app[c].dev].devid # 0
    /\ \A d \in Devices : dev[d].devid = 0 => dev[d].status = "none"

(* Ids only grow; the request of the call in progress is the latest.       *)
IdPart ==
    /\ \A c \in Callers : app[c].id < next_id
    /\ \A c \in Callers : app[c].pc \in Asked => app[c].id = next_id - 1 /\ app[c].id > 0
    /\ \A n \in sync : n.id < next_id
    /\ \A d \in Devices : dev[d].devid < next_devid
    /\ next_devid > 0
    /\ \A n \in cache : n.id < next_id /\ n.devid < next_devid
    /\ \A j \in 1 .. Len(ipc) : ipc[j].id < next_id

(* The replies are handled in the order of the requests.                   *)
OrderPart ==
    /\ \A j \in 1 .. Len(down) : down[j].id < next_id
    /\ \A j, k \in 1 .. Len(down) : j < k => down[j].id < down[k].id
    /\ cm.pc # "idle" =>
          /\ cm.msg \in Replies /\ cm.msg.id < next_id
          /\ \A j \in 1 .. Len(down) : cm.msg.id < down[j].id
    /\ cm.pc = "session" <=> cm.pc # "idle" /\ cm.pc # "forget"
                             /\ cm.msg.op \in {"register", "login", "logout"}

(* Only the call that waits has a node.                                    *)
SyncPart ==
    /\ \A n \in sync : \E c \in Callers : app[c].pc \in {"wait", "read"} /\ app[c].id = n.id
    /\ \A c \in Callers : app[c].pc \in {"wait", "read"} =>
          \E n \in sync : n.id = app[c].id /\ \A m \in sync : m.id = n.id => m = n

(* m is the reply to the request of c.                                     *)
Answers(m, c) ==
    /\ m.dev = app[c].dev /\ m.op = app[c].op
    /\ m.ok => accepted[app[c].dev] = app[c].id

(* The cloud granted the request, its reply was handled and no other is on *)
(* its way.                                                                *)
Granted(c) ==
    /\ accepted[app[c].dev] = app[c].id
    /\ down = <<>> /\ cm.pc \in {"idle", "forget"}
    /\ app[c].op \in {"login", "logout"} => dev[app[c].dev].status = StatusAfter(app[c].op)

AnswerPart ==
    \A c \in Callers :
        /\ app[c].pc \in {"insert", "wait", "read"} =>
              /\ \A j \in 1 .. Len(down) : down[j].id = app[c].id => Answers(down[j], c)
              /\ cm.pc # "idle" /\ cm.msg.id = app[c].id => Answers(cm.msg, c)
              /\ \A j \in 1 .. Len(ipc) : ipc[j].id = app[c].id /\ ipc[j].ok => Granted(c)
              /\ \A n \in sync : n.id = app[c].id /\ n.ok => Granted(c)
        /\ app[c].pc \in {"subscribe", "success"} => Granted(c)

(* A granted request that changes the session of d.                        *)
Changes(m, d) == m.dev = d /\ m.ok /\ m.op \in {"login", "logout", "topo_delete"}

(* No message on its way from place k on changes the session of d.         *)
NoneFrom(k, d) == \A j \in 1 .. Len(down) : j >= k => ~Changes(down[j], d)
InHand(d) == cm.pc \in {"session", "topo"} /\ Changes(cm.msg, d)

(* Whatever sets the status of a device last, sets it as the cloud has it. *)
SessionPart ==
    \A d \in Devices \ lost :
        /\ dev[d].status = "logined" /\ ~InHand(d) /\ NoneFrom(1, d) => d \in session
        /\ InHand(d) /\ cm.msg.op = "login" /\ NoneFrom(1, d) => d \in session
        /\ \A k \in 1 .. Len(down) :
              Changes(down[k], d) /\ down[k].op = "login" /\ NoneFrom(k + 1, d) => d \in session

IInv == /\ Types /\ CallPart /\ IdPart /\ OrderPart
        /\ SyncPart /\ AnswerPart /\ SessionPart

-----------------------------------------------------------------------------
(* What a step of one caller does to the callers                           *)

AppRecords == [pc : Steps, kind : Kinds \cup {"none"}, dev : Devices \cup {"none"},
               op : Ops \cup {"none"}, id : Nat]

(* Only the call of c moves on.                                            *)
Moves(c) == /\ app' \in [Callers -> AppRecords]
            /\ \A x \in Callers : x # c => app'[x] = app[x]

LEMMA StepFacts ==
  ASSUME Types, NEW c \in Callers, NEW pc \in Steps, Step(c, pc)
  PROVE  /\ Moves(c) /\ app'[c].pc = pc
         /\ app'[c].kind = app[c].kind /\ app'[c].dev = app[c].dev
         /\ app'[c].op = app[c].op /\ app'[c].id = app[c].id
  BY DEF Types, Step, Moves, AppRecords

LEMMA FailFacts ==
  ASSUME Types, NEW c \in Callers, app' = [app EXCEPT ![c] = Idle]
  PROVE  Moves(c) /\ app'[c].pc = "idle" /\ app'[c].id = 0
  BY DEF Types, Idle, Moves, AppRecords, Steps

(* A call goes on to a request of its own.                                 *)
LEMMA RequestFacts ==
  ASSUME Types, NEW c \in Callers, NEW op \in Ops,
         app' = [app EXCEPT ![c].pc = "request", ![c].op = op]
  PROVE  /\ Moves(c) /\ app'[c].pc = "request" /\ app'[c].op = op
         /\ app'[c].dev = app[c].dev /\ app'[c].id = app[c].id
<1>1. app \in [Callers -> AppRecords]
  BY DEF Types, AppRecords
<1>2. /\ \A x \in Callers : x # c => app'[x] = app[x]
      /\ app'[c] = [app[c] EXCEPT !.pc = "request", !.op = op]
      /\ app' = [x \in Callers |-> app'[x]]
  BY <1>1
<1>3. app'[c] \in AppRecords
  BY <1>1, <1>2 DEF AppRecords, Steps
<1>4. app' \in [Callers -> AppRecords]
  BY <1>1, <1>2, <1>3
<1> QED BY <1>1, <1>2, <1>4 DEF Moves, AppRecords

(* The request of c is sent under the next id.                             *)
LEMMA SentFacts ==
  ASSUME Types, NEW c \in Callers,
         app' = [app EXCEPT ![c].pc = "insert", ![c].id = next_id]
  PROVE  /\ Moves(c) /\ app'[c].pc = "insert" /\ app'[c].id = next_id
         /\ app'[c].dev = app[c].dev /\ app'[c].op = app[c].op
<1>1. app \in [Callers -> AppRecords] /\ next_id \in Nat
  BY DEF Types, AppRecords
<1>2. /\ \A x \in Callers : x # c => app'[x] = app[x]
      /\ app'[c] = [app[c] EXCEPT !.pc = "insert", !.id = next_id]
      /\ app' = [x \in Callers |-> app'[x]]
  BY <1>1
<1>3. app'[c] \in AppRecords
  BY <1>1, <1>2 DEF AppRecords, Steps
<1>4. app' \in [Callers -> AppRecords]
  BY <1>1, <1>2, <1>3
<1> QED BY <1>1, <1>2, <1>4 DEF Moves, AppRecords

(* The mutex lets one call proceed.                                        *)
LEMMA OneCall ==
  ASSUME IInv, NEW c \in Callers, app[c].pc \in Calling \cup {"close"}
  PROVE  /\ mutex = c
         /\ \A x \in Callers : x # c => app[x].pc \notin Calling \cup {"close"}
  BY DEF IInv, CallPart

(* What decides about the sessions is left alone.                          *)
LEMMA SessionFrame ==
  ASSUME SessionPart, UNCHANGED <<dev, down, cm, session, lost>>
  PROVE  SessionPart'
  BY DEF SessionPart, InHand, NoneFrom, Changes

(* No device comes to be taken for logged in.                              *)
LEMMA SessionStays ==
  ASSUME SessionPart, UNCHANGED <<down, cm, session, lost>>,
         \A d \in Devices : dev'[d].status = "logined" => dev[d].status = "logined"
  PROVE  SessionPart'
<1>1. \A d \in Devices : (InHand(d)' <=> InHand(d)) /\ \A k : NoneFrom(k, d)' <=> NoneFrom(k, d)
  BY DEF InHand, NoneFrom, Changes
<1> QED BY <1>1 DEF SessionPart, Changes

(* A caller with no node and no answer to look for moves to such a step.   *)
LEMMA OutsideKeeps ==
  ASSUME IInv, NEW c \in Callers, Moves(c),
         app[c].pc \notin {"wait", "read"}, app'[c].pc \notin Asked,
         UNCHANGED <<sync, dev, down, cm, ipc, accepted, session, lost>>
  PROVE  SyncPart' /\ AnswerPart' /\ SessionPart'
<1>1. \A x \in Callers : app'[x].pc \in Asked => x # c /\ app'[x] = app[x]
  BY DEF Moves
<1>2. \A x \in Callers : app[x].pc \in {"wait", "read"} => app'[x] = app[x]
  BY DEF Moves
<1>3. SyncPart'
  BY <1>1, <1>2 DEF IInv, SyncPart, Asked
<1>4. AnswerPart'
  BY <1>1 DEF IInv, AnswerPart, Asked, Answers, Granted, StatusAfter
<1>5. SessionPart'
  BY SessionFrame DEF IInv
<1> QED BY <1>3, <1>4, <1>5

(* The caller c moves and keeps the rules of the mutex and of the ids.     *)
LEMMA MoveKeeps ==
  ASSUME IInv, NEW c \in Callers, Moves(c),
         UNCHANGED <<next_id, dev, next_devid, cache, down, cm, ipc>>, sync' \subseteq sync,
         app'[c].pc \in Calling \cup {"close"} <=> mutex' = c,
         \A x \in Callers : x # c => (mutex' = x <=> mutex = x),
         app'[c].pc = "lock" => app'[c].dev \in Devices /\ app'[c].kind \in Kinds,
         app'[c].pc \in Calling =>
            app'[c].dev \in Devices /\ app'[c].op \in Ops /\ dev[app'[c].dev].devid # 0,
         app'[c].id < next_id,
         app'[c].pc \in Asked => app'[c].id = next_id - 1 /\ app'[c].id > 0
  PROVE  CallPart' /\ IdPart' /\ OrderPart'
<1>1. \A x \in Callers : x = c \/ app'[x] = app[x]
  BY DEF Moves
<1>2. CallPart'
  BY <1>1 DEF IInv, CallPart
<1>3. IdPart'
  BY <1>1 DEF IInv, IdPart
<1>4. OrderPart'
  BY DEF IInv, OrderPart
<1> QED BY <1>2, <1>3, <1>4

(* A call that ends, with or without success, gives the mutex back.        *)
LEMMA EndKeeps ==
  ASSUME IInv, NEW c \in Callers, app' = [app EXCEPT ![c] = Idle], mutex' = NoThread,
         mutex \in {c, NoThread},
         UNCHANGED <<is_opened, yield_running, is_yield_running, next_id, dev, next_devid,
                     cache, down, cm, ipc, lost, yield, accepted, session>>,
         sync' \subseteq sync
  PROVE  Types' /\ CallPart' /\ IdPart' /\ OrderPart'
<1>1. Moves(c) /\ app'[c].pc = "idle" /\ app'[c].id = 0
  BY FailFacts DEF IInv
<1>2. Types'
  BY <1>1 DEF IInv, Types, Moves, AppRecords, yield
<1>3. \A x \in Callers : x # c => (mutex' = x <=> mutex = x)
  BY GatewayAssumption
<1>4. 0 < next_id /\ c # mutex'
  BY GatewayAssumption DEF IInv, Types
<1>5. CallPart' /\ IdPart' /\ OrderPart'
  BY <1>1, <1>3, <1>4, MoveKeeps DEF Calling, Asked
<1> QED BY <1>2, <1>5

(* Steps that leave the calls, the lists and the messages alone.           *)
LEMMA QuietKeeps ==
  ASSUME IInv, Types',
         UNCHANGED <<mutex, app, next_id, sync, dev, next_devid, cache, down, lost, cm, ipc,
                     accepted, session>>
  PROVE  IInv'
<1>1. CallPart' /\ IdPart' /\ OrderPart'
  BY DEF IInv, CallPart, IdPart, OrderPart
<1>2. SyncPart' /\ AnswerPart'
  BY DEF IInv, SyncPart, AnswerPart, Answers, Granted, StatusAfter
<1>3. SessionPart'
  BY SessionFrame DEF IInv
<1> QED BY <1>1, <1>2, <1>3 DEF IInv

-----------------------------------------------------------------------------
(* Calls of the API                                                        *)

LEMMA BeginCallKeeps ==
  ASSUME IInv, NEW c \in Callers, NEW k \in Kinds, NEW d \in Devices, BeginCall(c, k, d)
  PROVE  IInv'
<1> USE DEF IInv
<1>1. /\ Moves(c) /\ app[c].pc = "idle" /\ app'[c].pc = "lock"
      /\ app'[c].kind = k /\ app'[c].dev = d /\ app'[c].id = 0
  BY DEF BeginCall, MayCall, Types, Idle, Moves, AppRecords, Steps
<1>2. UNCHANGED <<linkkit, next_id, sync, devices, cache, net, cm, ipc, yield, cloud>>
  BY DEF BeginCall
<1>3. Types'
  BY <1>1, <1>2 DEF Types, Moves, AppRecords, linkkit, devices, net, yield, cloud
<1>4. CallPart' /\ IdPart' /\ OrderPart'
  <2>1. mutex # c
    BY <1>1 DEF CallPart, Calling
  <2>2. 0 < next_id
    BY DEF Types
  <2> QED BY <1>1, <1>2, <2>1, <2>2, MoveKeeps DEF Calling, Asked, linkkit, devices, net
<1>5. SyncPart' /\ AnswerPart' /\ SessionPart'
  BY <1>1, <1>2, OutsideKeeps DEF devices, net, cloud, Asked
<1> QED BY <1>3, <1>4, <1>5

LEMMA FirstOpType == ASSUME NEW k \in Kinds, NEW d \in Devices PROVE FirstOp(k, d) \in Ops
  BY Zenon DEF FirstOp, Kinds, Ops

(* A call that may begin takes the mutex, another one fails without it.    *)
LEMMA EnterKeeps ==
  ASSUME IInv, NEW c \in Callers, Enter(c)
  PROVE  IInv'
<1> USE DEF IInv
<1>1. /\ app[c].pc = "lock" /\ mutex = NoThread /\ app[c].dev \in Devices
      /\ app[c].kind \in Kinds
      /\ UNCHANGED <<is_opened, yield_running, is_yield_running, next_id, calls, sync,
                     devices, cache, net, cm, ipc, yield, cloud>>
  BY DEF Enter, CallPart
<1>2. CASE Allowed(app[c].kind, app[c].dev)
  <2>1. /\ Moves(c) /\ app'[c].pc = "request" /\ app'[c].op \in Ops
        /\ app'[c].dev = app[c].dev /\ app'[c].id = app[c].id
        /\ mutex' = c /\ dev[app[c].dev].devid # 0
    BY <1>1, <1>2, FirstOpType, RequestFacts DEF Enter, Allowed
  <2>2. Types'
    BY <1>1, <2>1 DEF Types, Moves, AppRecords, devices, net, yield, cloud
  <2>3. CallPart' /\ IdPart' /\ OrderPart'
    <3>1. \A x \in Callers : x # c => (mutex' = x <=> mutex = x)
      BY <1>1, <2>1, GatewayAssumption
    <3> QED BY <1>1, <2>1, <3>1, MoveKeeps DEF IdPart, Calling, Asked, devices, net
  <2>4. SyncPart' /\ AnswerPart' /\ SessionPart'
    BY <1>1, <2>1, OutsideKeeps DEF devices, net, cloud, Asked
  <2> QED BY <2>2, <2>3, <2>4
<1>3. CASE ~Allowed(app[c].kind, app[c].dev)
  <2>1. app' = [app EXCEPT ![c] = Idle] /\ mutex' = NoThread
    BY <1>3 DEF Enter, Fail
  <2>2. Types' /\ CallPart' /\ IdPart' /\ OrderPart'
    BY <1>1, <2>1, EndKeeps DEF devices, net, cloud, Asked
  <2>3. SyncPart' /\ AnswerPart' /\ SessionPart'
    BY <1>1, <2>1, FailFacts, OutsideKeeps DEF devices, net, cloud, Asked
  <2> QED BY <2>2, <2>3
<1> QED BY <1>2, <1>3

LEMMA SendFailsKeeps ==
  ASSUME IInv, NEW c \in Callers, SendFails(c)
  PROVE  IInv'
<1>1. /\ app[c].pc = "request" /\ mutex = c
      /\ app' = [app EXCEPT ![c] = Idle] /\ mutex' = NoThread
  BY DEF IInv, CallPart, Calling, SendFails, Fail
<1>2. Types' /\ CallPart' /\ IdPart' /\ OrderPart'
  BY <1>1, EndKeeps DEF SendFails, devices, net, cloud
<1>3. SyncPart' /\ AnswerPart' /\ SessionPart'
  BY <1>1, FailFacts, OutsideKeeps DEF IInv, SendFails, devices, net, cloud, Asked
<1> QED BY <1>2, <1>3 DEF IInv

LEMMA SucceedKeeps ==
  ASSUME IInv, NEW c \in Callers, Succeed(c)
  PROVE  IInv'
<1>1. /\ app[c].pc = "success" /\ mutex = c
      /\ app' = [app EXCEPT ![c] = Idle] /\ mutex' = NoThread
  BY DEF IInv, CallPart, Calling, Succeed
<1>2. Types' /\ CallPart' /\ IdPart' /\ OrderPart'
  BY <1>1, EndKeeps DEF Succeed, devices, net, cloud
<1>3. SyncPart' /\ AnswerPart' /\ SessionPart'
  BY <1>1, FailFacts, OutsideKeeps DEF IInv, Succeed, devices, net, cloud, Asked
<1> QED BY <1>2, <1>3 DEF IInv

(* A step of the call in progress that keeps the mutex, the device and the id. *)
LEMMA GoesOn ==
  ASSUME IInv, NEW c \in Callers, app[c].pc \in Asked,
         NEW pc \in Asked, Step(c, pc),
         UNCHANGED <<is_opened, yield_running, is_yield_running, mutex, next_id, dev,
                     next_devid, cache, down, cm, ipc, yield, accepted, session, lost>>,
         sync' \subseteq [id : Nat, ok : BOOLEAN, posted : BOOLEAN],
         \A n \in sync' : n.id < next_id
  PROVE  Types' /\ CallPart' /\ IdPart' /\ OrderPart' /\ SessionPart'
<1> USE DEF IInv
<1>1. /\ Moves(c) /\ app'[c].pc = pc /\ app'[c].dev = app[c].dev
      /\ app'[c].op = app[c].op /\ app'[c].id = app[c].id
  BY StepFacts DEF Asked, Steps
<1>2. Types'
  BY <1>1 DEF Types, Moves, AppRecords, yield
<1>3. \A x \in Callers : x = c \/ app'[x] = app[x]
  BY <1>1 DEF Moves
<1>4. CallPart'
  BY <1>1, <1>3 DEF CallPart, Calling, Asked
<1>5. IdPart'
  BY <1>1, <1>3 DEF IdPart
<1>6. OrderPart' /\ SessionPart'
  BY SessionFrame DEF OrderPart
<1> QED BY <1>2, <1>4, <1>5, <1>6

(* There is no other node when a call adds its own.                        *)
LEMMA InsertNodeKeeps ==
  ASSUME IInv, NEW c \in Callers, InsertNode(c)
  PROVE  IInv'
<1> USE DEF IInv
<1> DEFINE node == [id |-> app[c].id, ok |-> FALSE, posted |-> FALSE]
<1>1. /\ app[c].pc = "insert" /\ Step(c, "wait")
      /\ sync' = sync \cup {node}
      /\ UNCHANGED <<linkkit, next_id, calls, devices, cache, net, cm, ipc, yield, cloud>>
  BY DEF InsertNode
<1>2. /\ Moves(c) /\ app'[c].pc = "wait" /\ app'[c].dev = app[c].dev
      /\ app'[c].op = app[c].op /\ app'[c].id = app[c].id
  BY <1>1, StepFacts DEF Steps
<1>3. \A x \in Callers : x # c => app[x].pc \notin Calling /\ app'[x] = app[x]
  BY <1>1, <1>2, OneCall DEF Calling, Moves
<1>4. sync = {}
  BY <1>1, <1>3 DEF SyncPart, Calling
<1>5. /\ sync' \subseteq [id : Nat, ok : BOOLEAN, posted : BOOLEAN]
      /\ \A n \in sync' : n.id < next_id
  BY <1>1, <1>4 DEF Types, IdPart
<1>6. Types' /\ CallPart' /\ IdPart' /\ OrderPart' /\ SessionPart'
  BY <1>1, <1>5, GoesOn DEF Asked, linkkit, devices, net, cloud
<1>7. SyncPart'
  BY <1>1, <1>2, <1>3, <1>4 DEF SyncPart, Calling
<1>8. AnswerPart'
  BY <1>1, <1>2, <1>3, <1>4 DEF AnswerPart, Answers, Granted, StatusAfter, Calling, devices,
     net, cloud
<1> QED BY <1>6, <1>7, <1>8

LEMMA WokenKeeps ==
  ASSUME IInv, NEW c \in Callers, Woken(c)
  PROVE  IInv'
<1> USE DEF IInv
<1>1. /\ app[c].pc = "wait" /\ Step(c, "read")
      /\ UNCHANGED <<linkkit, next_id, calls, sync, devices, cache, net, cm, ipc, yield, cloud>>
  BY DEF Woken
<1>2. /\ Moves(c) /\ app'[c].pc = "read" /\ app'[c].dev = app[c].dev
      /\ app'[c].op = app[c].op /\ app'[c].id = app[c].id
  BY <1>1, StepFacts DEF Steps
<1>3. \A x \in Callers : x # c => app'[x] = app[x]
  BY <1>2 DEF Moves
<1>4. Types' /\ CallPart' /\ IdPart' /\ OrderPart' /\ SessionPart'
  BY <1>1, GoesOn DEF Asked, Types, IdPart, linkkit, devices, net, cloud
<1>5. SyncPart'
  BY <1>1, <1>2, <1>3 DEF SyncPart
<1>6. AnswerPart'
  BY <1>1, <1>2, <1>3 DEF AnswerPart, Answers, Granted, StatusAfter, devices, net, cloud
<1> QED BY <1>4, <1>5, <1>6

(* The node of the call in progress is the only one.                       *)
LEMMA OwnNodes ==
  ASSUME IInv, NEW c \in Callers, app[c].pc \in Calling
  PROVE  sync \ NodesOf(app[c].id) = {}
<1>1. \A n \in sync : n.id = app[c].id
  BY OneCall DEF IInv, SyncPart, Calling
<1> QED BY <1>1 DEF NodesOf

(* The call in progress has ended and its node is gone: nobody waits.      *)
LEMMA NobodyWaits ==
  ASSUME IInv, NEW c \in Callers, app[c].pc \in Calling \cup {"close"}, Moves(c),
         app'[c].pc \notin Asked, sync' = {}
  PROVE  SyncPart' /\ AnswerPart'
<1>1. \A x \in Callers : app'[x].pc \notin Asked
  BY OneCall DEF Moves, Asked, Calling
<1> QED BY <1>1 DEF SyncPart, AnswerPart, Asked

LEMMA TimedOutKeeps ==
  ASSUME IInv, NEW c \in Callers, TimedOut(c)
  PROVE  IInv'
<1> USE DEF IInv
<1>1. /\ app[c].pc = "wait" /\ app' = [app EXCEPT ![c] = Idle] /\ mutex' = NoThread
      /\ sync' = sync \ NodesOf(app[c].id)
      /\ UNCHANGED <<is_opened, yield_running, is_yield_running, next_id, calls, devices,
                     cache, net, cm, ipc, yield, cloud>>
  BY DEF TimedOut, Fail
<1>2. sync' = {} /\ mutex = c
  BY <1>1, OwnNodes, OneCall DEF Calling
<1>3. Moves(c) /\ app'[c].pc = "idle" /\ app'[c].id = 0
  BY <1>1, FailFacts
<1>4. Types' /\ CallPart' /\ IdPart' /\ OrderPart'
  BY <1>1, <1>2, EndKeeps DEF devices, net, cloud
<1>5. SyncPart' /\ AnswerPart'
  BY <1>1, <1>2, <1>3, NobodyWaits DEF Calling, Asked
<1>6. SessionPart'
  BY <1>1, SessionFrame DEF devices, net, cloud
<1> QED BY <1>4, <1>5, <1>6

(* A node with a good code was granted, and stays so until the call returns. *)
LEMMA ReadCodeKeeps ==
  ASSUME IInv, NEW c \in Callers, ReadCode(c)
  PROVE  IInv'
<1> USE DEF IInv
<1>1. /\ app[c].pc = "read" /\ sync' = sync \ NodesOf(app[c].id)
      /\ UNCHANGED <<is_opened, yield_running, is_yield_running, next_id, calls, devices,
                     cache, net, cm, ipc, yield, cloud>>
  BY DEF ReadCode
<1>2. sync' = {} /\ mutex = c /\ \A x \in Callers : x # c => app[x].pc \notin Calling
  BY <1>1, OwnNodes, OneCall DEF Calling
<1>3. PICK n \in NodesOf(app[c].id) :
          \/ ~n.ok /\ Fail(c)
          \/ /\ n.ok /\ app[c].op = "register"
             /\ app' = [app EXCEPT ![c].pc = "request", ![c].op = "topo_add"]
             /\ UNCHANGED mutex
          \/ n.ok /\ app[c].op = "login" /\ Step(c, "subscribe") /\ UNCHANGED mutex
          \/ n.ok /\ app[c].op \notin {"register", "login"} /\ Step(c, "success") /\ UNCHANGED mutex
  BY DEF ReadCode
<1>4. SessionPart'
  BY <1>1, SessionFrame DEF devices, net, cloud
<1>5. CASE Fail(c)
  <2>1. Moves(c) /\ app'[c].pc = "idle"
    BY <1>5, FailFacts DEF Fail
  <2>2. Types' /\ CallPart' /\ IdPart' /\ OrderPart'
    BY <1>1, <1>2, <1>5, EndKeeps DEF Fail, devices, net, cloud
  <2>3. SyncPart' /\ AnswerPart'
    BY <1>1, <1>2, <2>1, NobodyWaits DEF Calling, Asked
  <2> QED BY <1>4, <2>2, <2>3
<1>6. CASE /\ app' = [app EXCEPT ![c].pc = "request", ![c].op = "topo_add"]
           /\ UNCHANGED mutex
  <2>1. /\ Moves(c) /\ app'[c].pc = "request" /\ app'[c].op = "topo_add"
        /\ app'[c].dev = app[c].dev /\ app'[c].id = app[c].id
    BY <1>6, RequestFacts DEF Ops
  <2>2. Types'
    BY <1>1, <1>2, <1>6, <2>1 DEF Types, Moves, AppRecords, devices, net, yield, cloud
  <2>3. CallPart'
    BY <1>1, <1>2, <1>6, <2>1 DEF CallPart, Moves, Calling, Ops, devices
  <2>4. IdPart' /\ OrderPart'
    BY <1>1, <1>2, <2>1 DEF IdPart, OrderPart, Moves, Asked, devices, net
  <2>5. SyncPart' /\ AnswerPart'
    BY <1>1, <1>2, <2>1, NobodyWaits DEF Calling, Asked
  <2> QED BY <1>4, <2>2, <2>3, <2>4, <2>5
<1>7. ASSUME NEW pc \in {"subscribe", "success"}, n.ok, Step(c, pc), UNCHANGED mutex
      PROVE  IInv'
  <2>1. /\ Moves(c) /\ app'[c].pc = pc /\ app'[c].dev = app[c].dev
        /\ app'[c].op = app[c].op /\ app'[c].id = app[c].id
    BY <1>7, StepFacts DEF Steps
  <2>2. Types' /\ CallPart' /\ IdPart' /\ OrderPart'
    BY <1>1, <1>2, <1>7, GoesOn DEF Asked, devices, net, cloud
  <2>3. Granted(c)
    BY <1>1, <1>3, <1>7 DEF AnswerPart, NodesOf
  <2>4. Granted(c)'
    BY <1>1, <2>1, <2>3 DEF Granted, StatusAfter, devices, net, cloud
  <2>5. \A x \in Callers : x # c => app'[x].pc \notin Calling
    BY <1>2, <2>1 DEF Moves
  <2>6. SyncPart' /\ AnswerPart'
    BY <1>2, <2>1, <2>4, <2>5 DEF SyncPart, AnswerPart, Calling
  <2> QED BY <1>4, <2>2, <2>6
<1> QED BY <1>3, <1>5, <1>6, <1>7

LEMMA SubscribeKeeps ==
  ASSUME IInv, NEW c \in Callers, Subscribe(c)
  PROVE  IInv'
<1> USE DEF IInv
<1>1. /\ app[c].pc = "subscribe"
      /\ UNCHANGED <<is_opened, yield_running, is_yield_running, next_id, calls, sync,
                     devices, cache, net, cm, ipc, yield, cloud>>
  BY DEF Subscribe
<1>2. CASE Fail(c)
  <2>1. Types' /\ CallPart' /\ IdPart' /\ OrderPart'
    BY <1>1, <1>2, OneCall, EndKeeps DEF Fail, Calling, devices, net, cloud
  <2>2. SyncPart' /\ AnswerPart' /\ SessionPart'
    BY <1>1, <1>2, FailFacts, OutsideKeeps DEF Fail, devices, net, cloud, Asked
  <2> QED BY <2>1, <2>2
<1>3. CASE Step(c, "success") /\ UNCHANGED mutex
  <2>1. /\ Moves(c) /\ app'[c].pc = "success" /\ app'[c].dev = app[c].dev
        /\ app'[c].op = app[c].op /\ app'[c].id = app[c].id
    BY <1>3, StepFacts DEF Steps
  <2>2. Types' /\ CallPart' /\ IdPart' /\ OrderPart' /\ SessionPart'
    BY <1>1, <1>3, GoesOn DEF Asked, Types, IdPart, devices, net, cloud
  <2>3. \A x \in Callers : x # c => app'[x] = app[x]
    BY <2>1 DEF Moves
  <2>4. SyncPart'
    BY <1>1, <2>1, <2>3 DEF SyncPart
  <2>5. Granted(c)'
    BY <1>1, <2>1 DEF AnswerPart, Granted, StatusAfter, devices, net, cloud
  <2>6. AnswerPart'
    BY <1>1, <2>1, <2>3, <2>5 DEF AnswerPart, Answers, Granted, StatusAfter, devices, net, cloud
  <2> QED BY <2>2, <2>4, <2>6
<1> QED BY <1>2, <1>3 DEF Subscribe

-----------------------------------------------------------------------------
(* IOT_Linkkit_Close                                                       *)

LEMMA CloseBeginKeeps ==
  ASSUME IInv, NEW c \in Callers, CloseBegin(c)
  PROVE  IInv'
<1> USE DEF IInv
<1>1. /\ app[c].pc = "idle" /\ yield_running' = FALSE
      /\ app' = [app EXCEPT ![c] = IF is_yield_running THEN Idle
                                   ELSE [Idle EXCEPT !.pc = "close_lock"]]
      /\ UNCHANGED <<is_opened, is_yield_running, mutex, next_id, sync, devices, cache, net, cm,
                     ipc, yield, cloud>>
  BY DEF CloseBegin, MayCall
<1>2. Moves(c) /\ app'[c].pc \in {"idle", "close_lock"} /\ app'[c].id = 0
  BY <1>1 DEF Types, Idle, Moves, AppRecords, Steps
<1>3. Types'
  BY <1>1, <1>2 DEF Types, Moves, AppRecords, devices, net, yield, cloud
<1>4. CallPart' /\ IdPart' /\ OrderPart'
  <2>1. mutex # c
    BY <1>1 DEF CallPart, Calling
  <2>2. 0 < next_id
    BY DEF Types
  <2> QED BY <1>1, <1>2, <2>1, <2>2, MoveKeeps DEF Calling, Asked, devices, net
<1>5. SyncPart' /\ AnswerPart' /\ SessionPart'
  BY <1>1, <1>2, OutsideKeeps DEF devices, net, cloud, Asked
<1> QED BY <1>3, <1>4, <1>5

LEMMA CloseEnterKeeps ==
  ASSUME IInv, NEW c \in Callers, CloseEnter(c)
  PROVE  IInv'
<1> USE DEF IInv
<1>1. /\ app[c].pc = "close_lock" /\ mutex = NoThread /\ is_opened' = FALSE
      /\ UNCHANGED <<yield_running, is_yield_running, next_id, calls, sync, devices, cache, net,
                     cm, ipc, yield, cloud>>
      /\ \/ Step(c, "close") /\ mutex' = c
         \/ Fail(c)
  BY DEF CloseEnter, CloseMayEnter
<1>2. /\ Moves(c)
      /\ \/ app'[c].pc = "close" /\ mutex' = c /\ app'[c].id = app[c].id
         \/ app'[c].pc = "idle" /\ mutex' = NoThread /\ app'[c].id = 0
  BY <1>1, StepFacts, FailFacts DEF Steps, Fail
<1>3. Types'
  BY <1>1, <1>2 DEF Types, Moves, AppRecords, devices, net, yield, cloud
<1>4. CallPart' /\ IdPart' /\ OrderPart'
  <2>1. c # NoThread /\ \A x \in Callers : x # c => (mutex' = x <=> mutex = x)
    BY <1>1, <1>2, GatewayAssumption
  <2>2. app'[c].id < next_id
    BY <1>2 DEF Types, IdPart
  <2> QED BY <1>1, <1>2, <2>1, <2>2, MoveKeeps DEF Calling, Asked, devices, net
<1>5. SyncPart' /\ AnswerPart' /\ SessionPart'
  BY <1>1, <1>2, OutsideKeeps DEF devices, net, cloud, Asked
<1> QED BY <1>3, <1>4, <1>5

(* Nobody is in a call when the lists are destroyed.                       *)
LEMMA CloseDoneKeeps ==
  ASSUME IInv, NEW c \in Callers, CloseDone(c)
  PROVE  IInv'
<1> USE DEF IInv
<1>1. /\ app[c].pc = "close" /\ cm.pc = "idle" /\ mutex' = NoThread
      /\ sync' = {} /\ cache' = {} /\ ipc' = <<>> /\ down' = <<>>
      /\ dev' = [d \in Devices |-> NoDevice]
      /\ is_yield_running' = FALSE /\ yield_running' = FALSE
      /\ ypc' = IF ypc \in {"out", "entered"} THEN ypc ELSE "undefined"
      /\ UNCHANGED <<is_opened, next_id, calls, next_devid, losses, lost, pushes, cm, count, cloud>>
  BY DEF CloseDone
<1>2. /\ app' = [x \in Callers |-> app'[x]]
      /\ app'[c] = Idle
      /\ \A x \in Callers : x # c /\ app[x].pc \in {"lock", "close_lock"}
                            => app'[x] = [app[x] EXCEPT !.pc = "undefined"]
      /\ \A x \in Callers : x # c /\ app[x].pc \notin {"lock", "close_lock"}
                            => app'[x] = app[x]
  <2> DEFINE after(x) ==
        CASE x = c -> Idle
          [] app[x].pc \in {"lock", "close_lock"} -> [app[x] EXCEPT !.pc = "undefined"]
          [] OTHER -> app[x]
  <2>1. app' = [x \in Callers |-> after(x)]
    BY Zenon DEF CloseDone
  <2>2. app'[c] = Idle
    BY <1>1, <2>1, Zenon
  <2>3. ASSUME NEW x \in Callers, x # c, app[x].pc \in {"lock", "close_lock"}
        PROVE  app'[x] = [app[x] EXCEPT !.pc = "undefined"]
    BY <2>1, <2>3, Zenon
  <2>4. ASSUME NEW x \in Callers, x # c, app[x].pc \notin {"lock", "close_lock"}
        PROVE  app'[x] = app[x]
    BY <2>1, <2>4, Zenon
  <2>5. app' = [x \in Callers |-> app'[x]]
    <3> HIDE DEF after
    <3> QED BY <2>1
  <2> QED BY <2>2, <2>3, <2>4, <2>5
<1>3. app' \in [Callers -> AppRecords] /\ \A x \in Callers : app'[x].id < next_id
  <2>1. app \in [Callers -> AppRecords] /\ \A x \in Callers : app[x].id < next_id
    BY DEF Types, AppRecords, IdPart
  <2>2. Idle \in AppRecords /\ Idle.id < next_id
    BY DEF Types, Idle, AppRecords, Steps
  <2>3. \A x \in Callers : /\ [app[x] EXCEPT !.pc = "undefined"] \in AppRecords
                           /\ [app[x] EXCEPT !.pc = "undefined"].id < next_id
    BY <2>1 DEF AppRecords, Steps
  <2>4. \A x \in Callers : app'[x] \in AppRecords /\ app'[x].id < next_id
    BY <1>2, <2>1, <2>2, <2>3
  <2> QED BY <1>2, <2>4
<1>4. \A x \in Callers : app'[x].pc \notin Calling \cup {"close", "lock"}
  <2>1. app \in [Callers -> AppRecords]
    BY DEF Types, AppRecords
  <2>2. \A x \in Callers : x # c => app[x].pc \notin Calling \cup {"close"}
    BY <1>1, OneCall
  <2>3. \A x \in Callers : [app[x] EXCEPT !.pc = "undefined"].pc = "undefined"
    BY <2>1 DEF AppRecords
  <2>4. Idle.pc = "idle"
    BY DEF Idle
  <2> QED BY <1>2, <2>2, <2>3, <2>4 DEF Calling
<1>5. \A d \in Devices : dev'[d].devid = 0 /\ dev'[d].status = "none"
  BY <1>1 DEF NoDevice
<1>6. Types'
  <2>1. dev' \in [Devices -> [devid : Nat, status : Statuses, secret : BOOLEAN]]
    BY <1>1 DEF NoDevice, Statuses
  <2>2. down' \in Seq(Replies) /\ ipc' \in Seq(Events) /\ Len(ipc') = 0
    BY <1>1
  <2>3. Len(ipc') <= QueueMax
    BY <2>2, GatewayAssumption
  <2> QED BY <1>1, <1>3, <2>1, <2>2, <2>3 DEF Types, AppRecords, cloud
<1>7. CallPart'
  BY <1>1, <1>4, <1>5, GatewayAssumption DEF CallPart
<1>8. IdPart'
  <2>1. next_devid > 0
    BY DEF IdPart
  <2> QED BY <1>1, <1>3, <1>4, <1>5, <2>1 DEF IdPart, Asked, Calling
<1>9. OrderPart' /\ SyncPart' /\ AnswerPart'
  BY <1>1, <1>4 DEF OrderPart, SyncPart, AnswerPart, Calling
<1>10. SessionPart'
  BY <1>1, <1>5 DEF SessionPart, InHand
<1> QED BY <1>6, <1>7, <1>8, <1>9, <1>10

-----------------------------------------------------------------------------
(* Sub-devices are opened and closed                                       *)

(* A node of another device is added: no call is about this one.           *)
LEMMA SlaveOpenKeeps ==
  ASSUME IInv, NEW c \in Callers, NEW d \in Devices, NEW secret \in BOOLEAN,
         SlaveOpen(c, d, secret)
  PROVE  IInv'
<1> USE DEF IInv
<1>1. /\ dev[d].devid = 0 /\ next_devid' = next_devid + 1
      /\ dev' = [dev EXCEPT ![d] = [devid |-> next_devid, status |-> "authorized",
                                    secret |-> secret]]
      /\ UNCHANGED <<linkkit, app, next_id, sync, cache, net, cm, ipc, yield, cloud>>
  BY DEF SlaveOpen
<1>2. /\ dev'[d].devid = next_devid /\ dev'[d].status = "authorized"
      /\ \A e \in Devices : e # d => dev'[e] = dev[e]
      /\ dev' \in [Devices -> [devid : Nat, status : Statuses, secret : BOOLEAN]]
      /\ next_devid > 0 /\ next_devid' \in Nat /\ next_devid < next_devid'
  BY <1>1 DEF Types, Statuses, IdPart
<1>3. Types'
  BY <1>1, <1>2 DEF Types, linkkit, net, yield, cloud
<1>4. \A x \in Callers : app[x].pc \in Calling => app[x].dev # d
  BY <1>1 DEF CallPart
<1>5. CallPart'
  BY <1>1, <1>2, <1>4 DEF CallPart, linkkit
<1>6. IdPart' /\ OrderPart' /\ SyncPart'
  BY <1>1, <1>2 DEF IdPart, OrderPart, SyncPart, Types, net
<1>7. AnswerPart'
  <2>1. \A x \in Callers : app[x].pc \in Asked => dev'[app[x].dev] = dev[app[x].dev]
    BY <1>2, <1>4 DEF CallPart, Calling, Asked
  <2>2. \A x \in Callers : app[x].pc \in Asked /\ Granted(x) => Granted(x)'
    BY <1>1, <2>1 DEF Granted, StatusAfter, net, cloud
  <2> QED BY <1>1, <2>2 DEF AnswerPart, Answers, Asked, net, cloud
<1>8. SessionPart'
  <2>1. \A e \in Devices : dev'[e].status = "logined" => dev[e].status = "logined"
    BY <1>2
  <2> QED BY <1>1, <2>1, SessionStays DEF net, cloud
<1> QED BY <1>3, <1>5, <1>6, <1>7, <1>8

(* A device is closed only when no call is in progress.                    *)
LEMMA SlaveCloseKeeps ==
  ASSUME IInv, NEW c \in Callers, NEW d \in Devices, SlaveClose(c, d)
  PROVE  IInv'
<1> USE DEF IInv
<1>1. /\ mutex = NoThread /\ dev' = [dev EXCEPT ![d] = NoDevice]
      /\ UNCHANGED <<linkkit, app, next_id, next_devid, sync, cache, net, cm, ipc, yield, cloud>>
  BY DEF SlaveClose
<1>2. /\ dev'[d].devid = 0 /\ dev'[d].status = "none"
      /\ \A e \in Devices : e # d => dev'[e] = dev[e]
      /\ dev' \in [Devices -> [devid : Nat, status : Statuses, secret : BOOLEAN]]
  BY <1>1 DEF Types, Statuses, NoDevice
<1>3. \A x \in Callers : app[x].pc \notin Calling
  BY <1>1, GatewayAssumption DEF CallPart
<1>4. Types'
  BY <1>1, <1>2 DEF Types, linkkit, net, yield, cloud
<1>5. CallPart'
  BY <1>1, <1>2, <1>3 DEF CallPart, linkkit
<1>6. IdPart' /\ OrderPart' /\ SyncPart'
  BY <1>1, <1>2 DEF IdPart, OrderPart, SyncPart, Types, net
<1>7. AnswerPart'
  BY <1>1, <1>3 DEF AnswerPart, Calling
<1>8. SessionPart'
  <2>1. \A e \in Devices : dev'[e].status = "logined" => dev[e].status = "logined"
    BY <1>2
  <2> QED BY <1>1, <2>1, SessionStays DEF net, cloud
<1> QED BY <1>4, <1>5, <1>6, <1>7, <1>8

-----------------------------------------------------------------------------
(* The cloud                                                               *)

(* What a grant means for the history.                                     *)
LEMMA GrantFacts ==
  ASSUME Types, NEW op \in Ops, NEW d \in Devices, Grant(op, d)
  PROVE  /\ accepted' \in [Devices -> Nat] /\ accepted'[d] = next_id
         /\ session' \subseteq Devices
         /\ \A e \in Devices : e # d => (e \in session' <=> e \in session)
         /\ op = "login" => d \in session'
         /\ op \in {"register", "topo_add"} => session' = session
<1>1. accepted' \in [Devices -> Nat] /\ accepted'[d] = next_id
  BY DEF Grant, Types
<1>2. /\ op = "login" => session' = session \cup {d}
      /\ op \in {"logout", "topo_delete"} => session' = session \ {d}
      /\ op \in {"register", "topo_add"} => session' = session
  BY Zenon DEF Grant
<1> QED BY <1>1, <1>2 DEF Ops, Types

(* A request is answered or lost; the answer says what became of it.       *)
LEMMA CloudFacts ==
  ASSUME Types, NEW op \in Ops, NEW d \in Devices, Cloud(op, d)
  PROVE  /\ Grant(op, d) \/ UNCHANGED <<accepted, session>>
         /\ \/ /\ lost' = lost
               /\ \E ok \in BOOLEAN :
                     /\ down' = Append(down, [id |-> next_id, op |-> op, dev |-> d, ok |-> ok])
                     /\ ok => Grant(op, d)
                     /\ ~ok => UNCHANGED <<accepted, session>>
            \/ down' = down /\ lost' = lost \cup {d}
<1>1. CASE \E ok \in BOOLEAN :
              /\ IF ok THEN Entitled(op, d) /\ Grant(op, d) ELSE UNCHANGED cloud
              /\ down' = Append(down, [id |-> next_id, op |-> op, dev |-> d, ok |-> ok])
              /\ UNCHANGED <<losses, lost>>
  BY <1>1 DEF cloud
<1>2. CASE /\ losses < MaxLosses /\ losses' = losses + 1
           /\ lost' = lost \cup {d}
           /\ UNCHANGED down
           /\ (Entitled(op, d) /\ Grant(op, d)) \/ UNCHANGED cloud
  BY <1>2 DEF cloud
<1> QED BY <1>1, <1>2 DEF Cloud

(* Sequences: adding at the end, taking from the front.                    *)
LEMMA AppendFacts ==
  ASSUME NEW S, NEW s \in Seq(S), NEW e \in S
  PROVE  /\ Append(s, e) \in Seq(S) /\ Len(Append(s, e)) = Len(s) + 1 /\ Len(s) \in Nat
         /\ \A j \in 1 .. Len(s) : Append(s, e)[j] = s[j]
         /\ Append(s, e)[Len(s) + 1] = e
  OBVIOUS

LEMMA TailFacts ==
  ASSUME NEW S, NEW s \in Seq(S), s # <<>>
  PROVE  /\ Tail(s) \in Seq(S) /\ Len(Tail(s)) = Len(s) - 1 /\ Len(s) \in Nat \ {0}
         /\ Head(s) = s[1] /\ s[1] \in S
         /\ \A j \in 1 .. Len(Tail(s)) : Tail(s)[j] = s[j + 1] /\ j + 1 \in 1 .. Len(s)
  OBVIOUS

(* The reply is appended under the next id: it is the last, and the only   *)
(* one about the request.                                                  *)
LEMMA SendRequestKeeps ==
  ASSUME IInv, NEW c \in Callers, SendRequest(c)
  PROVE  IInv'
<1> USE DEF IInv
<1> DEFINE d == app[c].dev
           op == app[c].op
           Reply(ok) == [id |-> next_id, op |-> op, dev |-> d, ok |-> ok]
<1>1. /\ app[c].pc = "request" /\ dev[d].devid # 0 /\ Cloud(op, d)
      /\ cache' = cache \cup {[id |-> next_id, devid |-> dev[d].devid]}
      /\ app' = [app EXCEPT ![c].pc = "insert", ![c].id = next_id]
      /\ next_id' = next_id + 1
      /\ UNCHANGED <<linkkit, calls, sync, devices, pushes, cm, ipc, yield>>
  BY DEF SendRequest
<1>2. d \in Devices /\ op \in Ops /\ next_id \in Nat \ {0}
  BY <1>1 DEF CallPart, Calling, Types
<1>3. /\ Moves(c) /\ app'[c].pc = "insert" /\ app'[c].id = next_id
      /\ app'[c].dev = d /\ app'[c].op = op
  BY <1>1, SentFacts
<1>4. /\ mutex = c
      /\ \A x \in Callers : x # c => app[x].pc \notin Calling \cup {"close"} /\ app'[x] = app[x]
  BY <1>1, <1>3, OneCall DEF Calling, Moves
<1> HIDE DEF d, op
<1>5. /\ Grant(op, d) \/ UNCHANGED <<accepted, session>>
      /\ \/ /\ lost' = lost
            /\ \E ok \in BOOLEAN :
                  /\ down' = Append(down, Reply(ok))
                  /\ ok => Grant(op, d)
                  /\ ~ok => UNCHANGED <<accepted, session>>
         \/ down' = down /\ lost' = lost \cup {d}
  BY <1>1, <1>2, CloudFacts
<1>6. /\ accepted' \in [Devices -> Nat] /\ session' \subseteq Devices
      /\ \A e \in Devices : e # d => (e \in session' <=> e \in session)
  BY <1>2, <1>5, GrantFacts DEF Types
<1>7. \A ok \in BOOLEAN : Reply(ok) \in Replies
  BY <1>2 DEF Replies
<1>8. ASSUME down' \in Seq(Replies) PROVE Types'
  <2>1. cache' \subseteq [id : Nat, devid : Nat]
    BY <1>1, <1>2 DEF Types
  <2>2. /\ app' \in [Callers -> AppRecords] /\ next_id' \in Nat \ {0}
        /\ UNCHANGED <<linkkit, sync, devices, cm, ipc, yield>>
    BY <1>1, <1>2, <1>3 DEF Moves
  <2> QED BY <1>6, <1>8, <2>1, <2>2 DEF Types, AppRecords, linkkit, devices, yield
<1>9. CallPart'
  BY <1>1, <1>2, <1>3, <1>4 DEF CallPart, Calling, linkkit, devices
<1>10. IdPart'
  <2>1. \A x \in Callers : app[x].id \in Nat
    BY DEF Types
  <2>2. \A x \in Callers : app'[x].id < next_id'
    <3>1. app'[c].id < next_id' /\ next_id' = next_id + 1
      BY <1>1, <1>2, <1>3
    <3>2. \A x \in Callers : app[x].id < next_id
      BY DEF IdPart
    <3>3. ASSUME NEW x \in Callers, x # c PROVE app'[x].id < next_id'
      BY <1>2, <1>4, <2>1, <3>1, <3>2, <3>3
    <3> QED BY <3>1, <3>3
  <2>3. \A x \in Callers : app'[x].pc \in Asked => app'[x].id = next_id' - 1 /\ app'[x].id > 0
    <3>1. app'[c].id = next_id' - 1 /\ app'[c].id > 0
      BY <1>1, <1>2, <1>3
    <3>2. \A x \in Callers : app'[x].pc \in Asked => x = c
      BY <1>4 DEF Asked, Calling
    <3> QED BY <3>1, <3>2
  <2>4. \A n \in sync' : n.id < next_id'
    BY <1>1, <1>2 DEF IdPart, Types
  <2>5. \A n \in cache' : n.id < next_id' /\ n.devid < next_devid'
    BY <1>1, <1>2 DEF IdPart, Types, devices
  <2>6. \A j \in 1 .. Len(ipc') : ipc'[j].id < next_id'
    BY <1>1, <1>2 DEF IdPart, Types, Events
  <2> QED BY <1>1, <2>2, <2>3, <2>4, <2>5, <2>6 DEF IdPart, devices
<1>11. SyncPart'
  <2>1. \A x \in Callers : app[x].pc \notin {"wait", "read"}
    BY <1>1, <1>4 DEF Calling
  <2>2. \A x \in Callers : app'[x].pc \notin {"wait", "read"}
    BY <1>3, <1>4 DEF Calling
  <2> QED BY <1>1, <2>1, <2>2 DEF SyncPart
<1>12. /\ \A j \in 1 .. Len(down) : down[j] \in Replies /\ down[j].id \in Nat
                                    /\ down[j].id < next_id
       /\ \A j \in 1 .. Len(ipc) : ipc[j].id < next_id /\ ipc[j].id \in Nat
       /\ \A n \in sync : n.id < next_id /\ n.id \in Nat
       /\ cm.pc # "idle" => cm.msg.id < next_id /\ cm.msg.id \in Nat /\ cm.msg \in Replies
  <2>1. \A j \in 1 .. Len(down) : down[j] \in Replies
    BY DEF Types
  <2>2. \A j \in 1 .. Len(ipc) : ipc[j] \in Events
    BY DEF Types
  <2>3. \A n \in sync : n.id \in Nat
    BY DEF Types
  <2>4. /\ \A m \in Replies : m.id \in Nat
        /\ \A e \in Events : e.id \in Nat
    BY DEF Replies, Events
  <2> QED BY <2>1, <2>2, <2>3, <2>4 DEF IdPart, OrderPart
<1>13. ASSUME \/ down' = down
              \/ /\ Len(down') = Len(down) + 1 /\ Len(down) \in Nat
                 /\ \A j \in 1 .. Len(down) : down'[j] = down[j]
                 /\ \E ok \in BOOLEAN : /\ down'[Len(down) + 1] = Reply(ok)
                                        /\ ok => Grant(op, d)
       PROVE  OrderPart' /\ AnswerPart'
  <2> HIDE DEF Reply
  <2>1. \A ok \in BOOLEAN : Reply(ok).id = next_id /\ Reply(ok).dev = d /\ Reply(ok).op = op
                            /\ Reply(ok).ok = ok
    BY DEF Reply
  <2>2. \A j \in 1 .. Len(down') :
            \/ j \in 1 .. Len(down) /\ down'[j] = down[j]
            \/ /\ j = Len(down) + 1 /\ down'[j].id = next_id
               /\ down'[j].dev = d /\ down'[j].op = op
               /\ down'[j].ok => accepted'[d] = next_id
    BY <1>2, <1>13, <2>1, GrantFacts
  <2>3. \A j \in 1 .. Len(down') : down'[j].id < next_id'
    BY <1>1, <1>2, <1>12, <2>2
  <2>4. \A j, k \in 1 .. Len(down') : j < k => down'[j].id < down'[k].id
    <3> SUFFICES ASSUME NEW j \in 1 .. Len(down'), NEW k \in 1 .. Len(down'), j < k
                 PROVE  down'[j].id < down'[k].id
      OBVIOUS
    <3>1. Len(down) \in Nat
      BY DEF Types
    <3>2. j \in 1 .. Len(down) /\ down'[j] = down[j]
      BY <1>13, <2>2, <3>1
    <3>3. CASE k \in 1 .. Len(down) /\ down'[k] = down[k]
      BY <3>2, <3>3 DEF OrderPart
    <3>4. CASE down'[k].id = next_id
      BY <1>12, <3>2, <3>4
    <3> QED BY <2>2, <3>3, <3>4
  <2>5. cm.pc # "idle" => \A j \in 1 .. Len(down') : cm.msg.id < down'[j].id
    BY <1>12, <2>2 DEF OrderPart
  <2>6. OrderPart'
    BY <1>1, <1>2, <1>12, <2>3, <2>4, <2>5 DEF OrderPart
  <2>7. /\ \A j \in 1 .. Len(down') : down'[j].id = next_id =>
              /\ down'[j].dev = d /\ down'[j].op = op
              /\ down'[j].ok => accepted'[d] = next_id
        /\ ~(cm'.pc # "idle" /\ cm'.msg.id = next_id)
        /\ \A j \in 1 .. Len(ipc') : ipc'[j].id # next_id
        /\ \A n \in sync' : n.id # next_id
    BY <1>1, <1>2, <1>12, <2>2
  <2>8. \A x \in Callers : app'[x].pc \in Asked => x = c
    BY <1>4 DEF Asked, Calling
  <2>9. AnswerPart'
    BY <1>3, <2>7, <2>8 DEF AnswerPart, Answers, Asked
  <2> QED BY <2>6, <2>9
<1>14. CASE down' = down /\ lost' = lost \cup {d}
  <2>1. SessionPart'
    BY <1>1, <1>6, <1>14 DEF SessionPart, InHand, NoneFrom, Changes, devices
  <2> QED BY <1>8, <1>9, <1>10, <1>11, <1>13, <1>14, <2>1 DEF Types
<1>15. ASSUME NEW ok \in BOOLEAN, lost' = lost, down' = Append(down, Reply(ok)),
              ok => Grant(op, d), ~ok => UNCHANGED <<accepted, session>>
       PROVE  IInv'
  <2>1. /\ down' \in Seq(Replies) /\ Len(down') = Len(down) + 1 /\ Len(down) \in Nat
        /\ \A j \in 1 .. Len(down) : down'[j] = down[j]
        /\ down'[Len(down) + 1] = Reply(ok)
    BY <1>7, <1>15, AppendFacts DEF Types
  <2>2. OrderPart' /\ AnswerPart'
    BY <1>13, <1>15, <2>1
  <2>3. SessionPart'
    <3> SUFFICES ASSUME NEW e \in Devices \ lost
                 PROVE  /\ dev[e].status = "logined" /\ ~InHand(e)' /\ NoneFrom(1, e)' => e \in session'
                        /\ InHand(e)' /\ cm.msg.op = "login" /\ NoneFrom(1, e)' => e \in session'
                        /\ \A k \in 1 .. Len(down') :
                              Changes(down'[k], e) /\ down'[k].op = "login" /\ NoneFrom(k + 1, e)'
                              => e \in session'
      BY <1>1, <1>15 DEF SessionPart, devices, Changes
    <3>1. Changes(Reply(ok), e) <=> e = d /\ ok /\ op \in {"login", "logout", "topo_delete"}
      BY DEF Changes
    <3> HIDE DEF Reply
    <3>2. /\ InHand(e)' <=> InHand(e)
          /\ \A k \in Nat : k <= Len(down) + 1 /\ NoneFrom(k, e)'
                            => NoneFrom(k, e) /\ ~Changes(Reply(ok), e)
      BY <1>1, <2>1 DEF InHand, NoneFrom, Changes
    <3>3. ~Changes(Reply(ok), e) => (e \in session' <=> e \in session)
      BY <1>2, <1>6, <1>15, <3>1, GrantFacts DEF Ops
    <3>4. Changes(Reply(ok), e) /\ Reply(ok).op = "login" => e \in session'
      BY <1>2, <1>15, <3>1, GrantFacts DEF Reply
    <3>5. \A k \in 1 .. Len(down') : \/ k \in 1 .. Len(down) /\ k + 1 <= Len(down) + 1
                                        /\ k + 1 \in Nat /\ down'[k] = down[k]
                                     \/ down'[k] = Reply(ok)
      BY <2>1
    <3> QED BY <2>1, <3>2, <3>3, <3>4, <3>5 DEF SessionPart
  <2> QED BY <1>8, <1>9, <1>10, <1>11, <2>1, <2>2, <2>3
<1> QED BY <1>5, <1>14, <1>15

-----------------------------------------------------------------------------
(* The cm_yield thread                                                     *)

(* A full queue refuses an event, otherwise it is the last.                *)
LEMMA QueueFacts ==
  ASSUME Types, NEW e \in Events
  PROVE  /\ QueueInsert(e) \in Seq(Events) /\ Len(QueueInsert(e)) <= QueueMax
         /\ \A j \in 1 .. Len(QueueInsert(e)) :
               \/ j \in 1 .. Len(ipc) /\ QueueInsert(e)[j] = ipc[j]
               \/ QueueInsert(e)[j] = e
<1>1. ipc \in Seq(Events) /\ Len(ipc) \in Nat /\ Len(ipc) <= QueueMax /\ QueueMax \in Nat
  BY GatewayAssumption DEF Types
<1>2. CASE Len(ipc) >= QueueMax
  BY <1>1, <1>2 DEF QueueInsert
<1>3. CASE ~(Len(ipc) >= QueueMax)
  <2>1. QueueInsert(e) = Append(ipc, e)
    BY <1>3 DEF QueueInsert
  <2> QED BY <1>1, <1>3, <2>1, AppendFacts
<1> QED BY <1>2, <1>3

(* Steps of the threads that leave the calls and the nodes alone.          *)
LEMMA ThreadKeeps ==
  ASSUME IInv, UNCHANGED <<mutex, app, next_id, sync, next_devid>>,
         \A d \in Devices : /\ dev'[d].devid = dev[d].devid
                            /\ dev'[d].devid = 0 => dev'[d].status = "none",
         cache' \subseteq cache,
         \A j \in 1 .. Len(ipc') : ipc'[j].id < next_id
  PROVE  CallPart' /\ IdPart' /\ SyncPart'
<1> USE DEF IInv
<1>1. CallPart'
  BY DEF CallPart
<1>2. IdPart'
  BY DEF IdPart
<1>3. SyncPart'
  BY DEF SyncPart
<1> QED BY <1>1, <1>2, <1>3

(* An event that grants nothing is queued.                                 *)
LEMMA EventKeeps ==
  ASSUME IInv, Types', NEW e \in Events, ipc' = QueueInsert(e), e.id < next_id,
         e.id = 0 \/ ~e.ok,
         UNCHANGED <<mutex, app, next_id, sync, dev, next_devid, down, lost, cm, accepted, session>>,
         cache' \subseteq cache
  PROVE  IInv'
<1> USE DEF IInv
<1>1. \A j \in 1 .. Len(ipc') : (j \in 1 .. Len(ipc) /\ ipc'[j] = ipc[j]) \/ ipc'[j] = e
  BY QueueFacts
<1>2. CallPart' /\ IdPart' /\ SyncPart'
  <2>1. \A j \in 1 .. Len(ipc') : ipc'[j].id < next_id
    BY <1>1 DEF IdPart
  <2>2. \A d \in Devices : dev'[d].devid = 0 => dev'[d].status = "none"
    BY DEF CallPart
  <2> QED BY <2>1, <2>2, ThreadKeeps
<1>3. OrderPart' /\ SessionPart'
  BY SessionFrame DEF OrderPart
<1>4. AnswerPart'
  <2>1. \A c \in Callers : Granted(c)' <=> Granted(c)
    BY DEF Granted, StatusAfter
  <2>2. \A c \in Callers : app[c].pc \in Asked => app[c].id # 0
    BY DEF IdPart, Types
  <2>3. \A c \in Callers : app[c].pc \in {"insert", "wait", "read"} =>
           \A j \in 1 .. Len(ipc') : ipc'[j].id = app[c].id /\ ipc'[j].ok => Granted(c)
    BY <1>1, <2>2 DEF AnswerPart, Asked
  <2> QED BY <2>1, <2>3 DEF AnswerPart, Answers
<1> QED BY <1>2, <1>3, <1>4

LEMMA CmPushKeeps ==
  ASSUME IInv, CmPush
  PROVE  IInv'
<1> USE DEF IInv
<1> DEFINE e == [id |-> 0, ok |-> TRUE]
<1>1. /\ ipc' = QueueInsert(e)
      /\ UNCHANGED <<linkkit, caller, sync, devices, cache, down, losses, lost, cm, yield, cloud>>
  BY DEF CmPush
<1>2. e \in Events /\ e.id = 0 /\ 0 < next_id
  BY DEF Events, Types
<1> HIDE DEF e
<1>3. Types'
  BY <1>1, <1>2, QueueFacts DEF Types, linkkit, caller, devices, yield, cloud
<1> QED BY <1>1, <1>2, <1>3, EventKeeps DEF linkkit, caller, devices, cloud

(* The first reply is taken in hand: the others come after it.             *)
LEMMA CmTakeKeeps ==
  ASSUME IInv, CmTake
  PROVE  IInv'
<1> USE DEF IInv
<1> DEFINE m == Head(down)
<1>1. /\ cm.pc = "idle" /\ down # <<>> /\ down' = Tail(down) /\ cm'.msg = m
      /\ lost' = IF cm'.pc = "forget" THEN lost \cup {m.dev} ELSE lost
      /\ UNCHANGED <<linkkit, caller, sync, devices, cache, losses, pushes, ipc, yield, cloud>>
  BY DEF CmTake
<1>2. /\ cm' = [msg |-> m, pc |-> cm'.pc]
      /\ m.op \in {"register", "login", "logout"} => cm'.pc = "session"
      /\ m.op \notin {"register", "login", "logout"} => cm'.pc \in {"topo", "forget"}
  BY DEF CmTake
<1>3. /\ down' \in Seq(Replies) /\ Len(down') = Len(down) - 1 /\ Len(down) \in Nat \ {0}
      /\ m = down[1] /\ m \in Replies /\ m.id \in Nat /\ m.dev \in Devices
      /\ \A j \in 1 .. Len(down') : down'[j] = down[j + 1] /\ j + 1 \in 1 .. Len(down)
  <2>1. down \in Seq(Replies)
    BY DEF Types
  <2>2. /\ Tail(down) \in Seq(Replies) /\ Len(Tail(down)) = Len(down) - 1 /\ Len(down) \in Nat \ {0}
        /\ Head(down) = down[1] /\ down[1] \in Replies
        /\ \A j \in 1 .. Len(Tail(down)) : Tail(down)[j] = down[j + 1] /\ j + 1 \in 1 .. Len(down)
    BY <1>1, <2>1, TailFacts
  <2>3. \A x \in Replies : x.id \in Nat /\ x.dev \in Devices
    BY DEF Replies
  <2> QED BY <1>1, <2>2, <2>3
<1> HIDE DEF m
<1>4. Types'
  BY <1>1, <1>2, <1>3 DEF Types, linkkit, caller, devices, yield, cloud
<1>5. CallPart' /\ IdPart' /\ SyncPart'
  BY <1>1, ThreadKeeps DEF CallPart, IdPart, linkkit, caller, devices
<1>6. OrderPart'
  <2>1. \A j \in 1 .. Len(down') : down'[j].id < next_id /\ m.id < down'[j].id
    BY <1>3 DEF OrderPart
  <2>2. ASSUME NEW j \in 1 .. Len(down'), NEW k \in 1 .. Len(down'), j < k
        PROVE  down'[j].id < down'[k].id
    <3>1. j + 1 \in 1 .. Len(down) /\ k + 1 \in 1 .. Len(down) /\ j + 1 < k + 1
      BY <1>3, <2>2
    <3>2. down[j + 1].id < down[k + 1].id
      BY <3>1 DEF OrderPart
    <3> QED BY <1>3, <3>2
  <2>3. m.id < next_id
    BY <1>3 DEF OrderPart
  <2> QED BY <1>1, <1>2, <1>3, <2>1, <2>2, <2>3 DEF OrderPart, caller
<1>7. AnswerPart'
  <2>1. \A c \in Callers : ~Granted(c)
    BY <1>1 DEF Granted
  <2> QED BY <1>1, <1>2, <1>3, <2>1 DEF AnswerPart, Answers, caller, cloud
<1>8. SessionPart'
  <2> SUFFICES ASSUME NEW d \in Devices \ lost'
               PROVE  /\ dev[d].status = "logined" /\ ~InHand(d)' /\ NoneFrom(1, d)' => d \in session
                      /\ InHand(d)' /\ m.op = "login" /\ NoneFrom(1, d)' => d \in session
                      /\ \A k \in 1 .. Len(down') :
                            Changes(down'[k], d) /\ down'[k].op = "login" /\ NoneFrom(k + 1, d)'
                            => d \in session
    BY <1>1 DEF SessionPart, devices, cloud, Changes
  <2>1. d \in Devices \ lost /\ ~InHand(d) /\ (~InHand(d)' => ~Changes(m, d))
        /\ (InHand(d)' => Changes(m, d))
    BY <1>1, <1>2 DEF InHand, Changes
  <2>2. \A k \in Nat \ {0} : NoneFrom(k, d)' => NoneFrom(k + 1, d)
    <3> SUFFICES ASSUME NEW k \in Nat \ {0}, NoneFrom(k, d)',
                        NEW j \in 1 .. Len(down), j >= k + 1
                 PROVE  ~Changes(down[j], d)
      BY DEF NoneFrom
    <3>1. j - 1 \in 1 .. Len(down') /\ j - 1 >= k /\ down'[j - 1] = down[j]
      BY <1>3
    <3> QED BY <3>1 DEF NoneFrom, Changes
  <2>3. ~Changes(m, d) /\ NoneFrom(2, d) => NoneFrom(1, d)
    BY <1>3 DEF NoneFrom
  <2>4. NoneFrom(1, d)' => NoneFrom(2, d)
    BY <2>2
  <2>5. 1 \in 1 .. Len(down)
    BY <1>3
  <2>6. ASSUME NEW k \in 1 .. Len(down'), Changes(down'[k], d), down'[k].op = "login",
               NoneFrom(k + 1, d)'
        PROVE  d \in session
    <3>1. k + 1 \in 1 .. Len(down) /\ down'[k] = down[k + 1] /\ NoneFrom((k + 1) + 1, d)
      BY <1>3, <2>2, <2>6
    <3> QED BY <2>1, <2>6, <3>1 DEF SessionPart
  <2>7. dev[d].status = "logined" /\ ~InHand(d)' /\ NoneFrom(1, d)' => d \in session
    BY <2>1, <2>3, <2>4 DEF SessionPart
  <2>8. InHand(d)' /\ m.op = "login" /\ NoneFrom(1, d)' => d \in session
    <3>1. Changes(down[1], d) /\ down[1].op = "login" /\ NoneFrom(1 + 1, d) => d \in session
      BY <2>1, <2>5 DEF SessionPart
    <3> QED BY <1>3, <2>1, <2>4, <3>1
  <2> QED BY <2>6, <2>7, <2>8
<1> QED BY <1>4, <1>5, <1>6, <1>7, <1>8

(* A reply in hand about the latest request is the last message there is.  *)
LEMMA LastReply ==
  ASSUME IInv, NEW c \in Callers, app[c].pc \in Asked, cm.pc # "idle", cm.msg.id = app[c].id
  PROVE  down = <<>>
<1> USE DEF IInv
<1>1. /\ app[c].id = next_id - 1 /\ next_id \in Nat /\ down \in Seq(Replies)
      /\ \A j \in 1 .. Len(down) : cm.msg.id < down[j].id /\ down[j].id < next_id
  BY DEF IdPart, OrderPart, Types
<1>2. ASSUME NEW j \in 1 .. Len(down) PROVE FALSE
  <2>1. down[j] \in Replies /\ cm.msg \in Replies
    BY <1>1 DEF OrderPart
  <2>2. down[j].id \in Nat /\ cm.msg.id \in Nat
    BY <2>1 DEF Replies
  <2> QED BY <1>1, <2>2
<1> QED BY <1>1, <1>2

(* The handler of a reply in hand queues its event.                        *)
LEMMA ReplyKeeps ==
  ASSUME IInv, Types', cm.pc \in {"session", "topo"}, CmStep("forget"),
         \/ ipc' = ipc
         \/ ipc' = QueueInsert([id |-> cm.msg.id, ok |-> cm.msg.ok]),
         UNCHANGED <<mutex, app, next_id, sync, next_devid, cache, down, accepted, session>>,
         \A d \in Devices : /\ dev'[d].devid = dev[d].devid
                            /\ dev'[d].devid = 0 => dev'[d].status = "none",
         cm.msg.ok /\ cm.msg.op \in {"login", "logout"} /\ dev[cm.msg.dev].devid # 0
            => dev'[cm.msg.dev].status = StatusAfter(cm.msg.op)
  PROVE  CallPart' /\ IdPart' /\ OrderPart' /\ SyncPart' /\ AnswerPart'
<1> USE DEF IInv
<1> DEFINE m == cm.msg
           e == [id |-> m.id, ok |-> m.ok]
<1>1. m \in Replies /\ m.id < next_id /\ m.id \in Nat /\ m.ok \in BOOLEAN
  BY DEF OrderPart, Replies
<1>2. e \in Events /\ e.id = m.id /\ e.ok = m.ok
  BY <1>1 DEF Events
<1>3. cm'.pc = "forget" /\ cm'.msg = cm.msg
  BY DEF CmStep, Types
<1> HIDE DEF e
<1>4. \A j \in 1 .. Len(ipc') : (j \in 1 .. Len(ipc) /\ ipc'[j] = ipc[j]) \/ ipc'[j] = e
  BY <1>2, QueueFacts DEF e
<1>5. CallPart' /\ IdPart' /\ SyncPart'
  <2>1. \A j \in 1 .. Len(ipc') : ipc'[j].id < next_id
    BY <1>1, <1>2, <1>4 DEF IdPart
  <2> QED BY <2>1, ThreadKeeps
<1>6. OrderPart'
  BY <1>3 DEF OrderPart
<1>7. AnswerPart'
  <2>1. \A c \in Callers : ~Granted(c)
    BY DEF Granted
  <2>2. ASSUME NEW c \in Callers, app[c].pc \in {"insert", "wait", "read"},
               NEW j \in 1 .. Len(ipc'), ipc'[j].id = app[c].id, ipc'[j].ok
        PROVE  Granted(c)'
    <3>1. m.id = app[c].id /\ m.ok
      BY <1>2, <1>4, <2>1, <2>2 DEF AnswerPart
    <3>2. down = <<>>
      BY <2>2, <3>1, LastReply DEF Asked
    <3>3. Answers(m, c)
      BY <2>2, <3>1 DEF AnswerPart
    <3>4. dev[app[c].dev].devid # 0
      BY <2>2 DEF CallPart, Calling
    <3>5. accepted'[app[c].dev] = app[c].id /\ m.dev = app[c].dev /\ m.op = app[c].op
      BY <3>1, <3>3 DEF Answers
    <3> QED BY <1>3, <3>1, <3>2, <3>4, <3>5 DEF Granted, StatusAfter
  <2>3. \A c \in Callers : app[c].pc \in {"insert", "wait", "read"} =>
           /\ \A j \in 1 .. Len(down) : down[j].id = app[c].id => Answers(down[j], c)
           /\ cm.pc # "idle" /\ cm.msg.id = app[c].id => Answers(cm.msg, c)
           /\ \A n \in sync : ~(n.id = app[c].id /\ n.ok)
    BY <2>1 DEF AnswerPart
  <2>4. \A c \in Callers : app[c].pc \notin {"subscribe", "success"}
    BY <2>1 DEF AnswerPart
  <2> QED BY <1>3, <2>2, <2>3, <2>4 DEF AnswerPart, Answers
<1> QED BY <1>5, <1>6, <1>7

(* The reply in hand was handled: what it set is what the cloud has.       *)
LEMMA ReplySession ==
  ASSUME IInv, cm.pc \in {"session", "topo"}, CmStep("forget"), UNCHANGED <<down, session>>,
         lost \subseteq lost',
         \A d \in Devices \ lost' : dev'[d].status = "logined" =>
            \/ dev[d].status = "logined" /\ ~InHand(d)
            \/ InHand(d) /\ cm.msg.op = "login"
  PROVE  SessionPart'
<1>1. cm'.pc = "forget"
  BY DEF CmStep, IInv, Types
<1>2. \A d \in Devices : ~InHand(d)'
  BY <1>1 DEF InHand
<1>3. \A d \in Devices, k \in Nat : NoneFrom(k, d)' <=> NoneFrom(k, d)
  BY DEF NoneFrom, Changes
<1>4. \A d \in Devices \ lost' : d \in Devices \ lost
  OBVIOUS
<1>5. \A d \in Devices \ lost' :
         dev'[d].status = "logined" /\ ~InHand(d)' /\ NoneFrom(1, d)' => d \in session
  BY <1>3, <1>4 DEF IInv, SessionPart
<1>6. \A d \in Devices \ lost' : \A k \in 1 .. Len(down) :
         Changes(down[k], d) /\ down[k].op = "login" /\ NoneFrom(k + 1, d)' => d \in session
  <2>1. \A k \in 1 .. Len(down) : k + 1 \in Nat
    BY DEF IInv, Types
  <2> QED BY <1>3, <1>4, <2>1 DEF IInv, SessionPart
<1> QED BY <1>2, <1>5, <1>6 DEF SessionPart, Changes

(* A reply to login, logout or registration, found by the device's name.   *)
LEMMA CmSessionReplyKeeps ==
  ASSUME IInv, CmSessionReply
  PROVE  IInv'
<1> USE DEF IInv
<1> DEFINE m == cm.msg
           Devs == [devid : Nat, status : Statuses, secret : BOOLEAN]
<1>1. /\ cm.pc = "session" /\ CmStep("forget")
      /\ ipc' = ipc \/ ipc' = QueueInsert([id |-> m.id, ok |-> m.ok])
      /\ UNCHANGED <<linkkit, caller, sync, next_devid, cache, net, yield, cloud>>
  BY DEF CmSessionReply
<1>2. /\ m \in Replies /\ m.dev \in Devices /\ m.ok \in BOOLEAN /\ m.id \in Nat
      /\ m.op \in {"register", "login", "logout"} /\ m.op \in Ops
  BY <1>1 DEF OrderPart, Replies
<1>3. dev \in [Devices -> Devs]
  BY DEF Types
<1>4. /\ dev[m.dev].devid = 0 => dev' = dev
      /\ dev[m.dev].devid # 0 /\ ~m.ok => dev' = dev
      /\ dev[m.dev].devid # 0 /\ m.ok /\ m.op = "register"
         => dev' = [dev EXCEPT ![m.dev].status = "registered", ![m.dev].secret = TRUE]
      /\ dev[m.dev].devid # 0 /\ m.ok /\ m.op = "login"
         => dev' = [dev EXCEPT ![m.dev].status = "logined"]
      /\ dev[m.dev].devid # 0 /\ m.ok /\ m.op = "logout"
         => dev' = [dev EXCEPT ![m.dev].status = "attached"]
  <2> DEFINE D == CASE m.op = "register" -> Registered(m.dev, m.ok)
                    [] m.op = "login" -> SetStatus(m.dev, "logined", m.ok)
                    [] m.op = "logout" -> SetStatus(m.dev, "attached", m.ok)
  <2>1. dev' = IF dev[m.dev].devid = 0 THEN dev ELSE D
    BY Zenon DEF CmSessionReply
  <2>2. m.op = "register" => D = Registered(m.dev, m.ok)
    BY Zenon
  <2>3. m.op = "login" => D = SetStatus(m.dev, "logined", m.ok)
    BY Zenon
  <2>4. m.op = "logout" => D = SetStatus(m.dev, "attached", m.ok)
    BY Zenon
  <2> HIDE DEF D
  <2> QED BY <1>2, <2>1, <2>2, <2>3, <2>4 DEF SetStatus, Registered
<1>5. /\ dev' \in [Devices -> Devs]
      /\ \A d \in Devices : dev'[d].devid = dev[d].devid
      /\ \A d \in Devices : d # m.dev => dev'[d] = dev[d]
      /\ \/ dev' = dev /\ (dev[m.dev].devid = 0 \/ ~m.ok)
         \/ /\ dev[m.dev].devid # 0 /\ m.ok
            /\ m.op = "register" => dev'[m.dev].status = "registered"
            /\ m.op = "login" => dev'[m.dev].status = "logined"
            /\ m.op = "logout" => dev'[m.dev].status = "attached"
  <2>1. CASE dev' = dev /\ (dev[m.dev].devid = 0 \/ ~m.ok)
    BY <1>3, <2>1
  <2>2. CASE dev[m.dev].devid # 0 /\ m.ok /\ m.op = "register"
    <3>1. dev' = [dev EXCEPT ![m.dev] = [dev[m.dev] EXCEPT !.status = "registered", !.secret = TRUE]]
      BY <1>2, <1>3, <1>4, <2>2
    <3>2. [dev[m.dev] EXCEPT !.status = "registered", !.secret = TRUE] \in Devs
      BY <1>2, <1>3 DEF Statuses
    <3>3. /\ [dev[m.dev] EXCEPT !.status = "registered", !.secret = TRUE].devid = dev[m.dev].devid
          /\ [dev[m.dev] EXCEPT !.status = "registered", !.secret = TRUE].status = "registered"
      BY <1>2, <1>3
    <3> HIDE DEF Devs
    <3> QED BY <1>2, <1>3, <2>2, <3>1, <3>2, <3>3
  <2>3. CASE dev[m.dev].devid # 0 /\ m.ok /\ m.op = "login"
    BY <1>2, <1>3, <1>4, <2>3 DEF Statuses
  <2>4. CASE dev[m.dev].devid # 0 /\ m.ok /\ m.op = "logout"
    BY <1>2, <1>3, <1>4, <2>4 DEF Statuses
  <2> QED BY <1>2, <1>4, <2>1, <2>2, <2>3, <2>4
<1>6. Types'
  <2>1. [id |-> m.id, ok |-> m.ok] \in Events
    BY <1>2 DEF Events
  <2>2. ipc' \in Seq(Events) /\ Len(ipc') <= QueueMax
    BY <1>1, <2>1, QueueFacts DEF Types
  <2>3. cm' \in [pc : {"idle", "session", "topo", "forget"}, msg : Replies \cup {NoMessage}]
    BY <1>1 DEF Types, CmStep
  <2> QED BY <1>1, <1>5, <2>2, <2>3 DEF Types, linkkit, caller, net, yield, cloud
<1>7. \A d \in Devices : dev'[d].devid = 0 => dev'[d].status = "none"
  BY <1>5 DEF CallPart
<1>8. CallPart' /\ IdPart' /\ OrderPart' /\ SyncPart' /\ AnswerPart'
  <2>1. m.ok /\ m.op \in {"login", "logout"} /\ dev[m.dev].devid # 0
           => dev'[m.dev].status = StatusAfter(m.op)
    BY <1>5 DEF StatusAfter
  <2> QED BY <1>1, <1>5, <1>6, <1>7, <2>1, ReplyKeeps DEF linkkit, caller, net, cloud
<1>9. SessionPart'
  <2>1. ASSUME NEW d \in Devices, dev'[d].status = "logined"
        PROVE  \/ dev[d].status = "logined" /\ ~InHand(d)
               \/ InHand(d) /\ m.op = "login"
    <3>1. dev'[d].devid # 0
      BY <1>7, <2>1
    <3>2. CASE d # m.dev
      BY <1>5, <2>1, <3>2 DEF InHand, Changes
    <3>3. CASE d = m.dev
      BY <1>1, <1>2, <1>5, <2>1, <3>1, <3>3 DEF InHand, Changes
    <3> QED BY <3>2, <3>3
  <2> QED BY <1>1, <2>1, ReplySession DEF net, cloud
<1> QED BY <1>6, <1>8, <1>9

(* A reply to a topology request, found by the devid in the cache.         *)
LEMMA CmTopoReplyKeeps ==
  ASSUME IInv, CmTopoReply
  PROVE  IInv'
<1> USE DEF IInv
<1> DEFINE m == cm.msg
           Devs == [devid : Nat, status : Statuses, secret : BOOLEAN]
           Found(devid) == {d \in Devices : dev[d].devid = devid /\ devid # 0}
<1>1. /\ cm.pc = "topo" /\ CmStep("forget")
      /\ ipc' = QueueInsert([id |-> m.id, ok |-> m.ok])
      /\ UNCHANGED <<linkkit, caller, sync, next_devid, cache, down, losses, pushes, yield, cloud>>
  BY DEF CmTopoReply
<1>2. PICK devid \in IF CachedId(m.id) THEN {n.devid : n \in {x \in cache : x.id = m.id}}
                     ELSE {dev[d].devid : d \in Devices} \cup {0} :
         /\ dev' = [d \in Devices |-> IF m.ok /\ d \in Found(devid)
                                      THEN [dev[d] EXCEPT !.status = "attached"] ELSE dev[d]]
         /\ lost' = IF devid = dev[m.dev].devid THEN lost ELSE lost \cup {m.dev}
  BY DEF CmTopoReply
<1>3. /\ m \in Replies /\ m.dev \in Devices /\ m.ok \in BOOLEAN /\ m.id \in Nat
      /\ m.op \notin {"register", "login", "logout"} /\ m.op \in Ops
  BY <1>1 DEF OrderPart, Replies
<1>4. dev \in [Devices -> Devs]
  BY DEF Types
<1>5. /\ dev' \in [Devices -> Devs]
      /\ \A d \in Devices : /\ dev'[d].devid = dev[d].devid
                            /\ \/ dev'[d] = dev[d] /\ ~(m.ok /\ d \in Found(devid))
                               \/ dev'[d].status = "attached" /\ dev[d].devid # 0
  <2>1. \A d \in Devices : /\ [dev[d] EXCEPT !.status = "attached"] \in Devs
                           /\ [dev[d] EXCEPT !.status = "attached"].devid = dev[d].devid
                           /\ [dev[d] EXCEPT !.status = "attached"].status = "attached"
    BY <1>4 DEF Statuses
  <2> HIDE DEF Devs
  <2> QED BY <1>2, <1>4, <2>1
<1>6. Types'
  <2>1. [id |-> m.id, ok |-> m.ok] \in Events
    BY <1>3 DEF Events
  <2>2. ipc' \in Seq(Events) /\ Len(ipc') <= QueueMax
    BY <1>1, <2>1, QueueFacts DEF Types
  <2>3. cm' \in [pc : {"idle", "session", "topo", "forget"}, msg : Replies \cup {NoMessage}]
    BY <1>1 DEF Types, CmStep
  <2> QED BY <1>1, <1>5, <2>2, <2>3 DEF Types, linkkit, caller, yield, cloud
<1>7. \A d \in Devices : dev'[d].devid = 0 => dev'[d].status = "none"
  BY <1>5 DEF CallPart
<1>8. CallPart' /\ IdPart' /\ OrderPart' /\ SyncPart' /\ AnswerPart'
  BY <1>1, <1>3, <1>5, <1>6, <1>7, ReplyKeeps DEF linkkit, caller, cloud
<1>9. SessionPart'
  <2>1. ASSUME NEW d \in Devices \ lost', dev'[d].status = "logined"
        PROVE  dev[d].status = "logined" /\ ~InHand(d)
    <3>1. dev'[d] = dev[d] /\ ~(m.ok /\ d \in Found(devid)) /\ dev[d].devid # 0
      BY <1>5, <1>7, <2>1
    <3>2. d = m.dev => devid = dev[d].devid
      BY <1>2, <2>1
    <3> QED BY <2>1, <3>1, <3>2 DEF InHand, Changes
  <2>2. lost \subseteq lost'
    BY <1>2
  <2> QED BY <1>1, <2>1, <2>2, ReplySession DEF cloud
<1> QED BY <1>6, <1>8, <1>9

LEMMA CmForgetKeeps ==
  ASSUME IInv, CmForget
  PROVE  IInv'
<1> USE DEF IInv
<1>1. /\ cm.pc = "forget" /\ cm'.pc = "idle" /\ cm' = [pc |-> "idle", msg |-> NoMessage]
      /\ cache' \subseteq cache
      /\ UNCHANGED <<linkkit, caller, sync, devices, net, ipc, yield, cloud>>
  BY DEF CmForget
<1>2. Types'
  BY <1>1 DEF Types, linkkit, caller, devices, net, yield, cloud
<1>3. CallPart' /\ IdPart' /\ SyncPart'
  BY <1>1, ThreadKeeps DEF CallPart, IdPart, linkkit, caller, devices
<1>4. OrderPart'
  BY <1>1 DEF OrderPart, caller, net
<1>5. AnswerPart'
  <2>1. \A c \in Callers : Granted(c) => Granted(c)'
    BY <1>1 DEF Granted, StatusAfter, caller, devices, net, cloud
  <2> QED BY <1>1, <2>1 DEF AnswerPart, Answers, caller, net, cloud
<1>6. SessionPart'
  BY <1>1 DEF SessionPart, InHand, NoneFrom, Changes, devices, net, cloud
<1> QED BY <1>2, <1>3, <1>4, <1>5, <1>6

-----------------------------------------------------------------------------
(* IOT_Linkkit_Yield                                                       *)

LEMMA YieldStepsKeep ==
  ASSUME IInv, YieldTest \/ YieldEnter \/ TickEnd \/ CallbackReports \/ YieldEnd
  PROVE  IInv'
<1>1. /\ UNCHANGED <<is_opened, yield_running, mutex, caller, sync, devices, cache, net, cm,
                     ipc, cloud>>
      /\ is_yield_running' \in BOOLEAN
      /\ ypc' \in {"out", "entered", "tick", "drain"}
      /\ count' = count \/ count' = 0
  BY DEF YieldTest, YieldEnter, TickEnd, CallbackReports, YieldEnd, linkkit, IInv, Types
<1>2. count' \in 0 .. QueueMax
  BY <1>1, GatewayAssumption DEF IInv, Types
<1>3. Types'
  BY <1>1, <1>2 DEF IInv, Types, caller, devices, net, cloud
<1> QED BY <1>1, <1>3, QuietKeeps DEF caller, devices, net, cloud

(* A request fades out: its event carries an error.                        *)
LEMMA TickNodeKeeps ==
  ASSUME IInv, TickNode
  PROVE  IInv'
<1> USE DEF IInv
<1>1. UNCHANGED <<linkkit, caller, sync, devices, net, cm, yield, cloud>>
  BY DEF TickNode
<1>2. PICK n \in cache : cache' = cache \ {n} /\ ipc' = QueueInsert([id |-> n.id, ok |-> FALSE])
  BY DEF TickNode
<1> DEFINE e == [id |-> n.id, ok |-> FALSE]
<1>3. e \in Events /\ e.id = n.id /\ e.ok = FALSE /\ n.id < next_id
  BY DEF Events, Types, IdPart
<1> HIDE DEF e
<1>4. ipc' = QueueInsert(e) /\ cache' \subseteq cache
  BY <1>2 DEF e
<1>5. Types'
  <2>1. ipc' \in Seq(Events) /\ Len(ipc') <= QueueMax
    BY <1>3, <1>4, QueueFacts
  <2> QED BY <1>1, <1>4, <2>1 DEF Types, linkkit, caller, devices, net, yield, cloud
<1> QED BY <1>1, <1>3, <1>4, <1>5, EventKeeps DEF linkkit, caller, devices, net, cloud

(* The event's code goes to the node with its id, and to no other.         *)
LEMMA DispatchEventKeeps ==
  ASSUME IInv, DispatchEvent
  PROVE  IInv'
<1> USE DEF IInv
<1> DEFINE e == Head(ipc)
           Nodes == [id : Nat, ok : BOOLEAN, posted : BOOLEAN]
           Posted(n) == IF Wakes(n, e.id) THEN [n EXCEPT !.ok = e.ok, !.posted = TRUE] ELSE n
<1>1. /\ ypc = "drain" /\ count < QueueMax /\ ipc # <<>>
      /\ ipc' = Tail(ipc) /\ count' = count + 1
      /\ \/ ypc' = "callback" /\ sync' = sync
         \/ sync' = {Posted(n) : n \in sync} /\ ypc' = ypc
      /\ UNCHANGED <<linkkit, caller, devices, cache, net, cm, cloud>>
  BY DEF DispatchEvent
<1>2. /\ ipc' \in Seq(Events) /\ Len(ipc') = Len(ipc) - 1 /\ Len(ipc) \in Nat \ {0}
      /\ e = ipc[1] /\ e \in Events
      /\ \A j \in 1 .. Len(ipc') : ipc'[j] = ipc[j + 1] /\ j + 1 \in 1 .. Len(ipc)
  <2>1. ipc \in Seq(Events)
    BY DEF Types
  <2>2. /\ Tail(ipc) \in Seq(Events) /\ Len(Tail(ipc)) = Len(ipc) - 1 /\ Len(ipc) \in Nat \ {0}
        /\ Head(ipc) = ipc[1] /\ ipc[1] \in Events
        /\ \A j \in 1 .. Len(Tail(ipc)) : Tail(ipc)[j] = ipc[j + 1] /\ j + 1 \in 1 .. Len(ipc)
    BY <1>1, <2>1, TailFacts
  <2> QED BY <1>1, <2>2
<1> HIDE DEF e
<1>3. \A n \in sync : /\ Posted(n) \in Nodes /\ Posted(n).id = n.id
                      /\ Posted(n).ok => n.ok \/ (n.id = e.id /\ e.ok)
  <2>1. \A n \in sync : n \in Nodes
    BY DEF Types
  <2>2. e.ok \in BOOLEAN
    BY <1>2 DEF Events
  <2> QED BY <2>1, <2>2 DEF Wakes
<1> HIDE DEF Posted, Nodes
<1>4. /\ \A x \in sync' : \E n \in sync : /\ x.id = n.id /\ x \in Nodes
                                          /\ x.ok => n.ok \/ (n.id = e.id /\ e.ok)
      /\ \/ sync' = sync
         \/ sync' = {Posted(n) : n \in sync}
  <2>1. \A n \in sync : n \in Nodes
    BY DEF Types, Nodes
  <2> QED BY <1>1, <1>3, <2>1
<1>5. Types'
  <2>1. sync' \subseteq Nodes
    BY <1>4
  <2>2. Len(ipc') <= QueueMax /\ count' \in 0 .. QueueMax
    BY <1>1, <1>2, GatewayAssumption DEF Types
  <2> QED BY <1>1, <1>2, <2>1, <2>2 DEF Types, Nodes, linkkit, caller, devices, net, cloud
<1>6. CallPart' /\ OrderPart'
  BY <1>1 DEF CallPart, OrderPart, linkkit, caller, devices, net
<1>7. IdPart'
  <2>1. \A x \in sync' : x.id < next_id
    BY <1>4 DEF IdPart
  <2>2. \A j \in 1 .. Len(ipc') : ipc'[j].id < next_id
    BY <1>2 DEF IdPart
  <2> QED BY <1>1, <2>1, <2>2 DEF IdPart, caller, devices
<1>8. SyncPart'
  <2>1. app' = app
    BY <1>1 DEF caller
  <2>2. \A x \in sync' : \E c \in Callers : app[c].pc \in {"wait", "read"} /\ app[c].id = x.id
    BY <1>4 DEF SyncPart
  <2>3. ASSUME NEW c \in Callers, app[c].pc \in {"wait", "read"}
        PROVE  \E n \in sync' : n.id = app[c].id /\ \A x \in sync' : x.id = n.id => x = n
    <3>1. PICK n \in sync : n.id = app[c].id /\ \A x \in sync : x.id = n.id => x = n
      BY <2>3 DEF SyncPart
    <3>2. CASE sync' = sync
      BY <3>1, <3>2
    <3>3. CASE sync' = {Posted(x) : x \in sync}
      <4>1. Posted(n) \in sync' /\ Posted(n).id = app[c].id
        BY <1>3, <3>1, <3>3
      <4>2. \A x \in sync' : x.id = Posted(n).id => x = Posted(n)
        BY <1>3, <3>1, <3>3
      <4> QED BY <4>1, <4>2
    <3> QED BY <1>4, <3>2, <3>3
  <2> QED BY <2>1, <2>2, <2>3 DEF SyncPart
<1>9. AnswerPart'
  <2>1. \A c \in Callers : Granted(c)' <=> Granted(c)
    BY <1>1 DEF Granted, StatusAfter, caller, devices, net, cloud
  <2>2. 1 \in 1 .. Len(ipc)
    BY <1>2
  <2>3. ASSUME NEW c \in Callers, app[c].pc \in {"insert", "wait", "read"}
        PROVE  /\ \A j \in 1 .. Len(ipc') : ipc'[j].id = app[c].id /\ ipc'[j].ok => Granted(c)
               /\ \A n \in sync' : n.id = app[c].id /\ n.ok => Granted(c)
    <3>1. /\ \A j \in 1 .. Len(ipc) : ipc[j].id = app[c].id /\ ipc[j].ok => Granted(c)
          /\ \A n \in sync : n.id = app[c].id /\ n.ok => Granted(c)
      BY <2>3 DEF AnswerPart
    <3>2. e.id = app[c].id /\ e.ok => Granted(c)
      BY <1>2, <2>2, <3>1
    <3> QED BY <1>2, <1>4, <3>1, <3>2
  <2> QED BY <1>1, <2>1, <2>3 DEF AnswerPart, Answers, caller, net, cloud
<1>10. SessionPart'
  BY <1>1, SessionFrame DEF devices, net, cloud
<1> QED BY <1>5, <1>6, <1>7, <1>8, <1>9, <1>10

-----------------------------------------------------------------------------
(* The invariant                                                           *)

LEMMA InitIInv == ASSUME Init PROVE IInv
<1>1. Cardinality(Devices) \in Nat
  BY GatewayAssumption, FS_CardinalityType
<1>2. PICK number \in [Devices -> 1 .. Cardinality(Devices)] :
         dev = [d \in Devices |->
                  [devid |-> number[d], status |-> "authorized", secret |-> d \in registered]]
  BY DEF Init
<1>3. \A d \in Devices : /\ dev[d].devid = number[d] /\ dev[d].status = "authorized"
                         /\ number[d] \in Nat \ {0} /\ number[d] < next_devid
  BY <1>1, <1>2 DEF Init
<1>4. \A c \in Callers : app[c].pc = "idle" /\ app[c].id = 0
  BY DEF Init, Idle
<1>5. Types
  <2>1. app \in [Callers -> AppRecords]
    BY DEF Init, Idle, AppRecords, Steps
  <2>2. dev \in [Devices -> [devid : Nat, status : Statuses, secret : BOOLEAN]]
    BY <1>2, <1>3 DEF Statuses
  <2>3. down = <<>> /\ ipc = <<>> /\ Len(ipc) = 0
    BY DEF Init
  <2>4. down \in Seq(Replies) /\ ipc \in Seq(Events) /\ Len(ipc) <= QueueMax
    BY <2>3, GatewayAssumption
  <2>5. next_id \in Nat \ {0} /\ next_devid \in Nat /\ count \in 0 .. QueueMax
    BY <1>1, GatewayAssumption DEF Init
  <2> QED BY <2>1, <2>2, <2>4, <2>5 DEF Init, Types, AppRecords
<1>6. CallPart
  BY <1>3, <1>4, GatewayAssumption DEF Init, CallPart, Calling
<1>7. IdPart
  BY <1>1, <1>3, <1>4 DEF Init, IdPart, Asked
<1>8. OrderPart /\ SyncPart /\ AnswerPart
  BY <1>4 DEF Init, OrderPart, SyncPart, AnswerPart
<1>9. SessionPart
  BY <1>3 DEF Init, SessionPart, InHand
<1> QED BY <1>5, <1>6, <1>7, <1>8, <1>9 DEF IInv

LEMMA StepIInv == ASSUME IInv, [Next]_vars PROVE IInv'
<1>1. CASE UNCHANGED vars
  <2>1. Types'
    BY <1>1 DEF IInv, Types, vars, linkkit, caller, devices, net, yield, cloud
  <2> QED BY <1>1, <2>1, QuietKeeps DEF vars, linkkit, caller, devices, net, cloud
<1>2. ASSUME NEW c \in Callers, CallStep(c) \/ CloseBegin(c) PROVE IInv'
  BY <1>2, EnterKeeps, SendRequestKeeps, SendFailsKeeps, InsertNodeKeeps, WokenKeeps,
     TimedOutKeeps, ReadCodeKeeps, SubscribeKeeps, SucceedKeeps, CloseEnterKeeps,
     CloseDoneKeeps, CloseBeginKeeps DEF CallStep
<1>3. ASSUME NEW c \in Callers, NEW d \in Devices,
             \/ \E secret \in BOOLEAN : SlaveOpen(c, d, secret)
             \/ SlaveClose(c, d)
             \/ \E k \in Kinds : BeginCall(c, k, d)
      PROVE  IInv'
  BY <1>3, SlaveOpenKeeps, SlaveCloseKeeps, BeginCallKeeps
<1>4. CASE CmPush \/ CmThread
  BY <1>4, CmPushKeeps, CmTakeKeeps, CmSessionReplyKeeps, CmTopoReplyKeeps, CmForgetKeeps
     DEF CmThread
<1>5. CASE YieldThread
  BY <1>5, YieldStepsKeep, TickNodeKeeps, DispatchEventKeeps DEF YieldThread
<1> QED BY <1>1, <1>2, <1>3, <1>4, <1>5 DEF Next

(* The conjunction of the parts is an invariant of the program.            *)
THEOREM Inductive == Spec => []IInv
<1>1. Init => IInv
  BY InitIInv
<1>2. IInv /\ [Next]_vars => IInv'
  BY StepIInv
<1> QED BY <1>1, <1>2, PTL DEF Spec

(* The queue of events never grows past CONFIG_DISPATCH_QUEUE_MAXLEN, and  *)
(* a caller that waits for its semaphore, or was woken, finds its node in  *)
(* upstream_sync_callback_list: IOT_Linkkit_Close never frees it.          *)
THEOREM GatewaySafe == Spec => []GatewayInv
<1>1. ASSUME IInv PROVE TypeOK
  BY <1>1 DEF IInv, Types, IdPart, TypeOK, Steps, Statuses
<1>2. ASSUME IInv PROVE NodeOutlivesWait
  <2> SUFFICES ASSUME NEW c \in Callers, app[c].pc \in {"wait", "read"}
               PROVE  Cardinality(NodesOf(app[c].id)) = 1
    BY DEF NodeOutlivesWait
  <2>1. PICK n \in sync : n.id = app[c].id /\ \A m \in sync : m.id = n.id => m = n
    BY <1>2 DEF IInv, SyncPart
  <2>2. NodesOf(app[c].id) = {n}
    BY <2>1 DEF NodesOf
  <2> QED BY <2>2, FS_Singleton
<1>3. IInv => GatewayInv
  BY <1>1, <1>2 DEF GatewayInv
<1> QED BY <1>3, Inductive, PTL

(* A call on a sub-device returns success only if the cloud accepted the   *)
(* request the call itself made, and nothing about the device since; after *)
(* a login or a logout the device list says so.                            *)
THEOREM SuccessGranted == Spec => []SuccessIsGranted
<1>1. IInv => SuccessIsGranted
  BY DEF IInv, AnswerPart, Granted, SuccessIsGranted
<1> QED BY <1>1, Inductive, PTL

(* A device whose messages were all handled and that the device list says  *)
(* is LOGINED was logged in by the last session request the cloud granted. *)
THEOREM LoginTrue == Spec => []LoginStatusTrue
<1>1. ASSUME IInv PROVE LoginStatusTrue
  <2> SUFFICES ASSUME NEW d \in Devices, dev[d].status = "logined",
                      d \notin {down[i].dev : i \in DOMAIN down} \cup {cm.msg.dev} \cup lost
               PROVE  d \in session
    BY DEF LoginStatusTrue
  <2>1. down \in Seq(Replies)
    BY <1>1 DEF IInv, Types
  <2>2. \A j \in 1 .. Len(down) : down[j].dev # d
    BY <2>1
  <2>3. ~InHand(d) /\ NoneFrom(1, d)
    BY <2>2 DEF InHand, NoneFrom, Changes
  <2> QED BY <1>1, <2>3 DEF IInv, SessionPart
<1>2. IInv => LoginStatusTrue
  BY <1>1
<1> QED BY <1>2, Inductive, PTL

=============================================================================
