-------------------------- MODULE CoapServer_proofs --------------------------
(***************************************************************************)
(* Proofs about CoapServer for any number of threads, peers, messages,     *)
(* retransmissions and ids and any size of the lists.                      *)
(*                                                                         *)
(* A message, named by its serial, is in one place at a time: in the call  *)
(* that sends it, in the send list, or in the hands of the daemon that     *)
(* times it out.  It has an outcome only when it has left them all, and    *)
(* no step puts it back.  The mutexes play no part in this.                *)
(***************************************************************************)
EXTENDS CoapServer, Lists_proofs, TLAPS

Steps == {"idle", "send", "add", "walk", "stopping"}
Sending == {"send", "add"}
Observers == [remote : Remotes, con : BOOLEAN]

(* The records of the callers, the daemon and the history.                 *)
CallTypes ==
    /\ message_id \in Ids /\ sent \in 0 .. MaxSends
    /\ pc \in [Callers -> Steps] /\ msg \in [Callers -> Messages]
    /\ kept \subseteq 1 .. sent
    /\ ret \in [Serials -> {"none", "ok", "error"}] /\ finals \in [Serials -> 0 .. 2]
    /\ cancelled \subseteq Serials
ListTypes ==
    /\ sendlist \in Seq(Nodes) /\ send_maxcount \in SendMax
    /\ sendcount \in 0 .. send_maxcount /\ Len(sendlist) <= send_maxcount
DaemonTypes ==
    /\ dpc \in {"none", "top", "read", "callback", "retransmit", "check", "evict", "left"}
    /\ dnode \in Nodes /\ dlive \in BOOLEAN /\ req \in Requests \cup {NoReq}
    /\ {send_lock, obs_lock, obsc_lock} \subseteq Callers \cup {NoThread}
PeerTypes ==
    /\ obsserver \in Seq(Observers) /\ Len(obsserver) <= ObsMax
    /\ obsclient \subseteq Serials /\ asked \subseteq Serials \ {0} /\ written \subseteq Ids
    /\ running \in BOOLEAN /\ semaphore \in Nat /\ context \in {"up", "freed"}

(* Calls end before the context does, and so does the daemon.              *)
LifePart ==
    /\ ~running => \A t \in Threads : pc[t] \in {"idle", "stopping"}
    /\ \A c \in Callers : pc[c] = "stopping" => c \in Threads /\ ~running
    /\ pc[Daemon] # "idle" => dpc = "callback"
    /\ semaphore > 0 => dpc = "left"
    /\ context = "freed" => dpc = "left" /\ ~running
    /\ dpc # "callback" => dlive

(* What a message that is being sent, and what a node, says of itself.     *)
MessageOK(m) ==
    /\ m.id \in Ids /\ m.serial <= sent
    /\ m.serial = 0 => m.token = 0
    /\ IsResponse(m) => ~m.keep
    /\ m.keep <=> m.serial \in kept
NodeOK(n) ==
    /\ n.serial <= sent
    /\ n.serial = 0 => n.token = 0
    /\ n.resp => ~n.keep
    /\ n.keep <=> n.serial \in kept
KindPart ==
    /\ \A c \in Callers : pc[c] \in Sending => MessageOK(msg[c])
    /\ \A i \in 1 .. Len(sendlist) : NodeOK(sendlist[i])
    /\ NodeOK(dnode)

(* The daemon holds a node that it unlinked.                               *)
InHand == dpc = "evict" \/ (why = "response" /\ ~dnode.keep)
InCall(s) == \E c \in Callers : pc[c] \in Sending /\ msg[c].serial = s
InList(s) == \E i \in 1 .. Len(sendlist) : sendlist[i].serial = s

(* A request is in one place at a time.                                    *)
OnePlace ==
    /\ \A c, e \in Callers :
          /\ c # e /\ pc[c] \in Sending /\ pc[e] \in Sending /\ msg[c].serial # 0
          => msg[c].serial # msg[e].serial
    /\ \A i, j \in 1 .. Len(sendlist) :
          sendlist[i].serial = sendlist[j].serial /\ sendlist[i].serial # 0 => i = j
    /\ \A s \in 1 .. MaxSends : InList(s) => ~InCall(s)
    /\ InHand /\ dnode.serial # 0 => ~InCall(dnode.serial) /\ ~InList(dnode.serial)
    /\ why = "response" => dpc = "callback" /\ dnode.serial # 0

(* While it is in one, nothing has been heard of it.                       *)
Pending(s) == ret[s] = "ok" /\ finals[s] = 0 /\ s \notin cancelled
OutcomePart ==
    \A s \in (1 .. MaxSends) \ kept :
        /\ s > sent \/ InCall(s) => ret[s] = "none" /\ finals[s] = 0 /\ s \notin cancelled
        /\ InList(s) => Pending(s)
        /\ dpc = "evict" /\ dnode.serial = s => Pending(s)

IInv == /\ CallTypes /\ ListTypes /\ DaemonTypes /\ PeerTypes
        /\ LifePart /\ KindPart /\ OnePlace /\ OutcomePart
        /\ SendListCounted /\ ObserversDistinct /\ HandlerNodeIsOwned /\ OneOutcome

-----------------------------------------------------------------------------
(* The records are what they should be                                     *)

LEMMA NoMsgFacts ==
  /\ NoMsg \in Messages /\ NoMsg.serial = 0 /\ NoMsg.token = 0
  /\ NoMsg.keep = FALSE /\ NoMsg.kind = "none"
  BY CoapServerAssumption DEF NoMsg, Messages, Serials

(* A message that is listed becomes a node with its serial.                *)
LEMMA NodeOfFacts ==
  ASSUME NEW m \in Messages, m.id \in Ids
  PROVE  /\ NodeOf(m) \in Nodes
         /\ NodeOf(m).serial = m.serial /\ NodeOf(m).token = m.token
         /\ NodeOf(m).keep = m.keep /\ NodeOf(m).resp = IsResponse(m)
<1>1. RetryMax \in Nat
  BY CoapServerAssumption
<1> QED BY <1>1 DEF NodeOf, Messages, Nodes, IsResponse

LEMMA NoNodeFacts ==
  NoNode \in Nodes /\ NoNode.serial = 0 /\ NoNode.token = 0 /\ ~NoNode.keep /\ ~NoNode.resp
<1> DEFINE m == [NoMsg EXCEPT !.id = 1]
<1>1. /\ m \in Messages /\ m.id \in Ids /\ m.serial = 0 /\ m.token = 0
      /\ m.keep = FALSE /\ IsResponse(m) = FALSE
  <2>1. 1 \in 0 .. IdMax /\ 1 \in Ids
    BY CoapServerAssumption DEF Ids
  <2> QED BY <2>1, NoMsgFacts DEF Messages, IsResponse
<1> HIDE DEF m
<1> QED BY <1>1, NodeOfFacts DEF NoNode, m

(* Init *)
LEMMA InitIInv == Init => IInv
<1> SUFFICES ASSUME Init PROVE IInv
  OBVIOUS
<1>1. CallTypes
  BY CoapServerAssumption, NoMsgFacts DEF Init, CallTypes, Steps, Serials, Callers
<1>2. ListTypes /\ SendListCounted
  BY CoapServerAssumption DEF Init, ListTypes, SendListCounted
<1>3. DaemonTypes /\ HandlerNodeIsOwned
  BY NoNodeFacts DEF Init, DaemonTypes, HandlerNodeIsOwned
<1>4. PeerTypes /\ ObserversDistinct
  BY CoapServerAssumption DEF Init, PeerTypes, ObserversDistinct
<1>5. LifePart
  BY CoapServerAssumption DEF Init, LifePart, Callers
<1>6. KindPart
  BY NoNodeFacts DEF Init, KindPart, Sending, NodeOK
<1>7. OnePlace
  BY NoNodeFacts DEF Init, OnePlace, Sending, InList, InCall, InHand
<1>8. OutcomePart /\ OneOutcome
  BY CoapServerAssumption DEF Init, OutcomePart, OneOutcome, Sending, InList, InCall, Serials
<1> QED BY <1>1, <1>2, <1>3, <1>4, <1>5, <1>6, <1>7, <1>8 DEF IInv

-----------------------------------------------------------------------------
(* The send list                                                           *)

(* A node that is still the same message.                                  *)
Same(n, o) == n.serial = o.serial /\ n.token = o.token /\ n.keep = o.keep /\ n.resp = o.resp

(* The list loses nodes, or changes what is not the message.               *)
Shrinks ==
    \E f \in [1 .. Len(sendlist') -> 1 .. Len(sendlist)] :
        /\ \A i, j \in 1 .. Len(sendlist') : f[i] = f[j] => i = j
        /\ \A i \in 1 .. Len(sendlist') : Same(sendlist'[i], sendlist[f[i]])

LEMMA StaysShrinks ==
  ASSUME ListTypes, sendlist' \in Seq(Nodes), Len(sendlist') = Len(sendlist),
         \A i \in 1 .. Len(sendlist) : Same(sendlist'[i], sendlist[i])
  PROVE  Shrinks
<1> DEFINE f == [i \in 1 .. Len(sendlist') |-> i]
<1>1. f \in [1 .. Len(sendlist') -> 1 .. Len(sendlist)] /\ \A i \in 1 .. Len(sendlist') : f[i] = i
  OBVIOUS
<1> HIDE DEF f
<1> QED BY <1>1 DEF Shrinks

LEMMA UnchangedShrinks == ASSUME ListTypes, sendlist' = sendlist PROVE Shrinks
  BY StaysShrinks DEF ListTypes, Same

LEMMA RemoveAtShrinks ==
  ASSUME ListTypes, NEW i \in 1 .. Len(sendlist), sendlist' = RemoveAt(sendlist, i)
  PROVE  /\ sendlist' \in Seq(Nodes) /\ Len(sendlist') = Len(sendlist) - 1 /\ Shrinks
         /\ \A j \in 1 .. Len(sendlist') :
               \E k \in 1 .. Len(sendlist) : k # i /\ sendlist'[j] = sendlist[k]
<1>0. sendlist \in Seq(Nodes) /\ Len(sendlist) \in Nat /\ i \in Nat
  BY DEF ListTypes
<1>1. /\ sendlist' \in Seq(Nodes) /\ Len(sendlist') = Len(sendlist) - 1
      /\ \A j \in 1 .. Len(sendlist') :
            LET k == IF j < i THEN j ELSE j + 1
            IN  k \in 1 .. Len(sendlist) /\ k # i /\ sendlist'[j] = sendlist[k]
  BY <1>0, RemoveAtFacts
<1> DEFINE f == [j \in 1 .. Len(sendlist') |-> IF j < i THEN j ELSE j + 1]
<1>2. \A j \in 1 .. Len(sendlist') : f[j] = IF j < i THEN j ELSE j + 1
  OBVIOUS
<1>3. \A j \in 1 .. Len(sendlist') :
         f[j] \in 1 .. Len(sendlist) /\ f[j] # i /\ sendlist'[j] = sendlist[f[j]]
  BY <1>1, <1>2
<1>4. f \in [1 .. Len(sendlist') -> 1 .. Len(sendlist)]
  BY <1>3
<1> HIDE DEF f
<1>5. \A j, k \in 1 .. Len(sendlist') : f[j] = f[k] => j = k
  <2> SUFFICES ASSUME NEW j \in 1 .. Len(sendlist'), NEW k \in 1 .. Len(sendlist'), f[j] = f[k]
               PROVE  j = k
    OBVIOUS
  <2>1. /\ f[j] = IF j < i THEN j ELSE j + 1
        /\ f[k] = IF k < i THEN k ELSE k + 1
    BY <1>2
  <2>2. j \in Int /\ k \in Int /\ i \in Int
    OBVIOUS
  <2>3. (IF j < i THEN j ELSE j + 1) = (IF k < i THEN k ELSE k + 1)
    BY <2>1
  <2> QED BY ONLY <2>2, <2>3
<1>6. Shrinks
  BY <1>3, <1>4, <1>5 DEF Shrinks, Same
<1> QED BY <1>1, <1>3, <1>6

LEMMA WithoutShrinks ==
  ASSUME ListTypes, NEW gone, sendlist' = Without(sendlist, gone)
  PROVE  /\ sendlist' \in Seq(Nodes) /\ Shrinks
         /\ \A j \in 1 .. Len(sendlist') :
               \E k \in 1 .. Len(sendlist) : sendlist'[j] = sendlist[k] /\ sendlist[k] \notin gone
<1>0. sendlist \in Seq(Nodes)
  BY DEF ListTypes
<1>1. sendlist' \in Seq(Nodes)
  BY <1>0, WithoutNumbers
<1>2. PICK f : Numbers(f, sendlist', sendlist, gone, Len(sendlist))
  BY <1>0, WithoutNumbers
<1>3. f \in [1 .. Len(sendlist') -> 1 .. Len(sendlist)]
  BY <1>2 DEF Numbers
<1>4. \A j \in 1 .. Len(sendlist') : sendlist'[j] = sendlist[f[j]] /\ sendlist[f[j]] \notin gone
  BY <1>2 DEF Numbers
<1>5. \A j, k \in 1 .. Len(sendlist') : f[j] = f[k] => j = k
  <2> SUFFICES ASSUME NEW j \in 1 .. Len(sendlist'), NEW k \in 1 .. Len(sendlist'),
                      f[j] = f[k], j # k
               PROVE  FALSE
    OBVIOUS
  <2>1. Len(sendlist') \in Nat /\ Len(sendlist) \in Nat
    BY <1>0, <1>1
  <2>2. j < k \/ k < j
    BY <2>1
  <2>3. f[j] < f[k] \/ f[k] < f[j]
    BY <1>2, <2>2 DEF Numbers
  <2>4. f[j] \in Nat /\ f[k] \in Nat
    BY <1>3, <2>1
  <2> QED BY <2>3, <2>4
<1>6. Shrinks
  BY <1>3, <1>4, <1>5 DEF Shrinks, Same
<1> QED BY <1>1, <1>3, <1>4, <1>6

(* What holds of the nodes of a list holds of a shorter one.               *)
LEMMA ShrinkFacts ==
  ASSUME ListTypes, KindPart, OnePlace, Shrinks, sent' = sent, kept' = kept
  PROVE  /\ (\A i \in 1 .. Len(sendlist) : NodeOK(sendlist[i]))'
         /\ \A i, j \in 1 .. Len(sendlist') :
               sendlist'[i].serial = sendlist'[j].serial /\ sendlist'[i].serial # 0 => i = j
         /\ \A s \in Serials : InList(s)' => InList(s)
<1>1. PICK f \in [1 .. Len(sendlist') -> 1 .. Len(sendlist)] :
        /\ \A i, j \in 1 .. Len(sendlist') : f[i] = f[j] => i = j
        /\ \A i \in 1 .. Len(sendlist') : Same(sendlist'[i], sendlist[f[i]])
  BY DEF Shrinks
<1>2. \A i \in 1 .. Len(sendlist') : f[i] \in 1 .. Len(sendlist)
  BY <1>1
<1>3. (\A i \in 1 .. Len(sendlist) : NodeOK(sendlist[i]))'
  BY <1>1, <1>2 DEF Same, KindPart, NodeOK
<1>4. \A i, j \in 1 .. Len(sendlist') :
               sendlist'[i].serial = sendlist'[j].serial /\ sendlist'[i].serial # 0 => i = j
  BY <1>1, <1>2 DEF Same, OnePlace
<1>5. \A s \in Serials : InList(s)' => InList(s)
  BY <1>1, <1>2 DEF Same, InList
<1> QED BY <1>3, <1>4, <1>5

-----------------------------------------------------------------------------
(* What the serials go through                                             *)

SerialParts == KindPart /\ OnePlace /\ OutcomePart /\ OneOutcome
history == <<sent, kept, ret, finals, cancelled>>

(* No call begins to send.                                                 *)
CallsQuiet == \A c \in Callers : pc'[c] \in Sending => pc[c] \in Sending /\ msg'[c] = msg[c]
(* The daemon takes no node in hand.                                       *)
DaemonQuiet ==
    /\ dnode' \in {dnode, NoNode}
    /\ dpc' = "evict" => dpc = "evict" /\ dnode' = dnode
    /\ why' = "response" => why = "response" /\ dpc' = dpc /\ dnode' = dnode

LEMMA CallsQuietFacts ==
  ASSUME CallTypes, KindPart, OnePlace, CallsQuiet, sent' = sent, kept' = kept
  PROVE  /\ (\A c \in Callers : pc[c] \in Sending => MessageOK(msg[c]))'
         /\ \A c, e \in Callers :
              /\ c # e /\ pc'[c] \in Sending /\ pc'[e] \in Sending /\ msg'[c].serial # 0
              => msg'[c].serial # msg'[e].serial
         /\ \A s \in Serials : InCall(s)' => InCall(s)
<1>1. (\A c \in Callers : pc[c] \in Sending => MessageOK(msg[c]))'
  BY DEF CallsQuiet, KindPart, MessageOK
<1>2. \A c, e \in Callers :
              /\ c # e /\ pc'[c] \in Sending /\ pc'[e] \in Sending /\ msg'[c].serial # 0
              => msg'[c].serial # msg'[e].serial
  BY DEF CallsQuiet, OnePlace
<1>3. \A s \in Serials : InCall(s)' => InCall(s)
  BY DEF CallsQuiet, InCall
<1> QED BY <1>1, <1>2, <1>3

(* A step that moves no request keeps what is known of them.               *)
LEMMA QuietKeeps ==
  ASSUME CallTypes, ListTypes, DaemonTypes, SerialParts, UNCHANGED history,
         CallsQuiet, Shrinks, DaemonQuiet
  PROVE  SerialParts'
<1> USE DEF SerialParts, history
<1>0. 1 .. MaxSends \subseteq Serials /\ dnode.serial \in Serials /\ MaxSends \in Nat
  BY CoapServerAssumption DEF Serials, DaemonTypes, Nodes
<1>1. KindPart'
  <2>1. NodeOK(dnode)'
    <3>1. 0 \notin kept /\ 0 <= sent
      BY DEF CallTypes
    <3>2. CASE dnode' = dnode
      BY <3>2 DEF KindPart, NodeOK
    <3>3. CASE dnode' = NoNode
      BY <3>1, <3>3, NoNodeFacts DEF NodeOK
    <3> QED BY <3>2, <3>3 DEF DaemonQuiet
  <2> QED BY <2>1, ShrinkFacts, CallsQuietFacts DEF KindPart
<1>2. OnePlace'
  <2>1. (why = "response" => dpc = "callback" /\ dnode.serial # 0)'
    BY DEF DaemonQuiet, OnePlace
  <2>2. (InHand /\ dnode.serial # 0 => ~InCall(dnode.serial) /\ ~InList(dnode.serial))'
    <3> SUFFICES ASSUME InHand', dnode'.serial # 0
                 PROVE  ~(InCall(dnode.serial)') /\ ~(InList(dnode.serial)')
      BY DEF InHand, DaemonQuiet, InCall, InList
    <3>1. InHand /\ dnode' = dnode
      BY DEF InHand, DaemonQuiet
    <3>2. ~InCall(dnode.serial) /\ ~InList(dnode.serial)
      BY <3>1 DEF OnePlace
    <3> QED BY <1>0, <3>1, <3>2, ShrinkFacts, CallsQuietFacts DEF InCall, InList
  <2>3. \A s \in 1 .. MaxSends : InList(s)' => ~(InCall(s)')
    BY <1>0, ShrinkFacts, CallsQuietFacts DEF OnePlace
  <2>4. (\A s \in 1 .. MaxSends : InList(s) => ~InCall(s))'
    BY <2>3
  <2> QED BY <2>1, <2>2, <2>4, ShrinkFacts, CallsQuietFacts DEF OnePlace
<1>3. OutcomePart'
  <2> SUFFICES ASSUME NEW s \in (1 .. MaxSends) \ kept
               PROVE  /\ s > sent \/ InCall(s)' =>
                            ret[s] = "none" /\ finals[s] = 0 /\ s \notin cancelled
                      /\ InList(s)' => Pending(s)
                      /\ dpc' = "evict" /\ dnode'.serial = s => Pending(s)
    BY DEF OutcomePart, Pending
  <2> QED BY <1>0, ShrinkFacts, CallsQuietFacts DEF OutcomePart, DaemonQuiet
<1>4. OneOutcome'
  BY DEF OneOutcome
<1> QED BY <1>1, <1>2, <1>3, <1>4

(* A message that begins is new, or has no serial.                         *)
LEMMA BeginKeeps ==
  ASSUME CallTypes, ListTypes, DaemonTypes, SerialParts,
         NEW c \in Callers, NEW m \in Messages, pc[c] \notin Sending, BeginSend(c, m),
         m.id \in Ids, m.serial \in {0, sent + 1}, m.serial = 0 => m.token = 0,
         IsResponse(m) => ~m.keep, m.keep => m.serial = sent + 1,
         kept' = IF m.keep THEN kept \cup {sent + 1} ELSE kept,
         UNCHANGED <<ret, finals, cancelled, sendlist, dnode, dpc, why>>
  PROVE  /\ SerialParts'
         /\ sent' \in 0 .. MaxSends /\ kept' \subseteq 1 .. sent'
         /\ pc' \in [Callers -> Steps] /\ msg' \in [Callers -> Messages]
         /\ pc'[c] = "send" /\ \A e \in Callers : e # c => pc'[e] = pc[e]
<1> USE DEF SerialParts
<1>1. /\ pc' \in [Callers -> Steps] /\ msg' \in [Callers -> Messages]
      /\ pc'[c] = "send" /\ msg'[c] = m
      /\ \A e \in Callers : e # c => pc'[e] = pc[e] /\ msg'[e] = msg[e]
  BY DEF CallTypes, BeginSend, Steps
<1>2. /\ sent \in Nat /\ sent' = sent + 1 /\ sent' \in 0 .. MaxSends /\ MaxSends \in Nat
      /\ kept \subseteq 1 .. sent
  BY CoapServerAssumption DEF CallTypes, BeginSend
<1>3. kept' \subseteq 1 .. sent' /\ kept \subseteq kept' /\ 0 \notin kept'
      /\ \A s \in 0 .. sent : s \in kept' <=> s \in kept
  BY <1>2
<1>4. m.keep \in BOOLEAN /\ (m.keep <=> m.serial \in kept')
  <2>1. m.keep \in BOOLEAN
    BY DEF Messages
  <2>2. CASE m.keep
    BY <1>2, <2>2
  <2>3. CASE ~m.keep
    <3>1. kept' = kept
      BY <2>3
    <3>2. m.serial \notin kept
      BY <1>2
    <3> QED BY <2>1, <2>3, <3>1, <3>2
  <2> QED BY <2>1, <2>2, <2>3
<1>5. ASSUME NEW n \in Nodes, NodeOK(n) PROVE NodeOK(n)' /\ n.serial \in 0 .. sent
  <2>1. n.serial \in 0 .. sent
    BY <1>2, <1>5 DEF NodeOK, Nodes, Serials
  <2>2. n.serial <= sent' /\ (n.serial \in kept' <=> n.serial \in kept)
    BY <1>2, <1>3, <2>1
  <2> QED BY <1>5, <2>1, <2>2 DEF NodeOK
<1>6. ASSUME NEW e \in Callers, e # c, pc[e] \in Sending
      PROVE  MessageOK(msg[e])' /\ msg[e].serial \in 0 .. sent
  <2>0. MessageOK(msg[e]) /\ msg[e] \in Messages /\ msg'[e] = msg[e]
    BY <1>1, <1>6 DEF KindPart, CallTypes
  <2>1. msg[e].serial \in 0 .. sent
    BY <1>2, <2>0 DEF MessageOK, Messages, Serials
  <2>2. msg[e].serial <= sent' /\ (msg[e].serial \in kept' <=> msg[e].serial \in kept)
    BY <1>2, <1>3, <2>1
  <2> QED BY <2>0, <2>1, <2>2 DEF MessageOK
<1>7. KindPart'
  <2>1. MessageOK(msg[c])'
    BY <1>1, <1>2, <1>4 DEF MessageOK
  <2>2. (\A e \in Callers : pc[e] \in Sending => MessageOK(msg[e]))'
    BY <1>1, <1>6, <2>1
  <2>3. \A i \in 1 .. Len(sendlist) : sendlist[i] \in Nodes /\ NodeOK(sendlist[i])
    BY DEF ListTypes, KindPart
  <2>4. (\A i \in 1 .. Len(sendlist) : NodeOK(sendlist[i]))'
    BY <1>5, <2>3
  <2>5. NodeOK(dnode)'
    BY <1>5 DEF KindPart, DaemonTypes
  <2> QED BY <2>2, <2>4, <2>5 DEF KindPart
<1>8. \A s : InList(s)' <=> InList(s)
  BY DEF InList
<1>9. \A s : InCall(s)' => InCall(s) \/ s = m.serial
  BY <1>1 DEF InCall
<1>10. \A s \in Nat : InList(s) => s <= sent
  BY DEF InList, KindPart, NodeOK
<1>11. OnePlace'
  <2>1. (\A d, e \in Callers :
          /\ d # e /\ pc[d] \in Sending /\ pc[e] \in Sending /\ msg[d].serial # 0
          => msg[d].serial # msg[e].serial)'
    <3> SUFFICES ASSUME NEW d \in Callers, NEW e \in Callers, d # e,
                        pc'[d] \in Sending, pc'[e] \in Sending, msg'[d].serial # 0
                 PROVE  msg'[d].serial # msg'[e].serial
      OBVIOUS
    <3>1. CASE d = c
      BY <1>1, <1>2, <1>6, <3>1
    <3>2. CASE e = c
      BY <1>1, <1>2, <1>6, <3>2
    <3>3. CASE d # c /\ e # c
      BY <1>1, <3>3 DEF OnePlace
    <3> QED BY <3>1, <3>2, <3>3
  <2>2. (\A s \in 1 .. MaxSends : InList(s) => ~InCall(s))'
    <3> SUFFICES ASSUME NEW s \in 1 .. MaxSends, InList(s)' PROVE ~(InCall(s)')
      OBVIOUS
    <3>1. s \in Nat /\ s # 0 /\ s <= sent
      BY <1>2, <1>8, <1>10
    <3> QED BY <1>2, <1>8, <1>9, <3>1 DEF OnePlace
  <2>3. (InHand /\ dnode.serial # 0 => ~InCall(dnode.serial) /\ ~InList(dnode.serial))'
    <3>1. dnode.serial \in 0 .. sent
      BY <1>5 DEF KindPart, DaemonTypes
    <3> SUFFICES ASSUME InHand, dnode.serial # 0
                 PROVE  ~(InCall(dnode.serial)') /\ ~(InList(dnode.serial)')
      BY DEF InHand, InCall, InList
    <3>2. ~InCall(dnode.serial) /\ ~InList(dnode.serial)
      BY DEF OnePlace
    <3> QED BY <1>2, <1>8, <1>9, <3>1, <3>2
  <2> QED BY <2>1, <2>2, <2>3 DEF OnePlace
<1>12. OutcomePart'
  <2> SUFFICES ASSUME NEW s \in (1 .. MaxSends) \ kept'
               PROVE  /\ s > sent' \/ InCall(s)' =>
                            ret[s] = "none" /\ finals[s] = 0 /\ s \notin cancelled
                      /\ InList(s)' => Pending(s)
                      /\ dpc = "evict" /\ dnode.serial = s => Pending(s)
    BY DEF OutcomePart, Pending
  <2>1. s \in (1 .. MaxSends) \ kept /\ s \in Nat
    BY <1>2, <1>3
  <2>2. s > sent' \/ InCall(s)' => s > sent \/ InCall(s)
    BY <1>2, <1>9, <2>1
  <2> QED BY <1>8, <2>1, <2>2 DEF OutcomePart
<1>13. OneOutcome'
  BY <1>3 DEF OneOutcome
<1> QED BY <1>1, <1>2, <1>3, <1>7, <1>11, <1>12, <1>13

(* A call that returns leaves its message in the list, or nowhere.         *)
LEMMA ReturnKeeps ==
  ASSUME CallTypes, ListTypes, DaemonTypes, SerialParts,
         NEW c \in Callers, pc[c] \in Sending, NEW how \in {"ok", "error"}, Returned(c, how),
         \/ sendlist' = sendlist
         \/ how = "ok" /\ sendlist' = Append(sendlist, NodeOf(msg[c])),
         UNCHANGED <<sent, kept, finals, cancelled, dnode, dpc, why>>
  PROVE  /\ SerialParts'
         /\ pc' \in [Callers -> Steps] /\ msg' \in [Callers -> Messages]
         /\ ret' \in [Serials -> {"none", "ok", "error"}]
         /\ pc'[c] \in {"idle", "walk"} /\ pc'[c] = Back(c)
         /\ \A e \in Callers : e # c => pc'[e] = pc[e]
         /\ sendlist' \in Seq(Nodes)
<1> USE DEF SerialParts
<1>0. PICK s0 : s0 = msg[c].serial
  OBVIOUS
<1>1. /\ pc' \in [Callers -> Steps] /\ pc'[c] = Back(c) /\ pc'[c] \in {"idle", "walk"}
      /\ \A e \in Callers : e # c => pc'[e] = pc[e] /\ msg'[e] = msg[e]
  BY DEF CallTypes, Returned, Back, Steps
<1>2. msg' \in [Callers -> Messages]
  <2>1. msg[c] \in Messages
    BY DEF CallTypes
  <2>2. [NoMsg EXCEPT !.walk = msg[c].walk] \in Messages
    BY <2>1, NoMsgFacts DEF Messages
  <2> QED BY <2>2 DEF CallTypes, Returned
<1>3. /\ MessageOK(msg[c]) /\ msg[c] \in Messages /\ s0 \in Serials
      /\ s0 # 0 => s0 \in 1 .. MaxSends
  <2>1. MessageOK(msg[c]) /\ msg[c] \in Messages
    BY DEF KindPart, CallTypes
  <2>2. s0 \in Serials
    BY <1>0, <2>1 DEF Messages
  <2> QED BY <2>1, <2>2, CoapServerAssumption DEF Serials
<1>4. /\ ret' \in [Serials -> {"none", "ok", "error"}]
      /\ \A s \in Serials : s # s0 => ret'[s] = ret[s]
      /\ s0 # 0 => ret'[s0] = how
  BY <1>0, <1>3 DEF CallTypes, Returned
<1>5. CallsQuiet /\ InCall(s0)
  BY <1>0, <1>1 DEF CallsQuiet, Sending, InCall
<1>6. /\ (\A e \in Callers : pc[e] \in Sending => MessageOK(msg[e]))'
      /\ \A d, e \in Callers :
              /\ d # e /\ pc'[d] \in Sending /\ pc'[e] \in Sending /\ msg'[d].serial # 0
              => msg'[d].serial # msg'[e].serial
      /\ \A s \in Serials : InCall(s)' => InCall(s)
  BY <1>5, CallsQuietFacts
<1>7. s0 # 0 => ~(InCall(s0)')
  <2> SUFFICES ASSUME s0 # 0, NEW e \in Callers, pc'[e] \in Sending, msg'[e].serial = s0
               PROVE  FALSE
    BY DEF InCall
  <2>1. e # c /\ pc[e] \in Sending /\ msg[e].serial = s0
    BY <1>1, <1>5 DEF CallsQuiet, Sending
  <2> QED BY <1>0, <2>1 DEF OnePlace
<1>8. sendlist \in Seq(Nodes) /\ Len(sendlist) \in Nat
  BY DEF ListTypes
<1>9. /\ sendlist' \in Seq(Nodes)
      /\ (\A i \in 1 .. Len(sendlist) : NodeOK(sendlist[i]))'
      /\ \A i, j \in 1 .. Len(sendlist') :
            sendlist'[i].serial = sendlist'[j].serial /\ sendlist'[i].serial # 0 => i = j
      /\ \A s \in Serials : InList(s)' => InList(s) \/ (s = s0 /\ how = "ok")
  <2>1. CASE sendlist' = sendlist
    <3>1. \A s : InList(s)' => InList(s)
      BY <2>1 DEF InList
    <3>2. (\A i \in 1 .. Len(sendlist) : NodeOK(sendlist[i]))'
      BY <2>1 DEF KindPart, NodeOK
    <3> QED BY <1>8, <2>1, <3>1, <3>2 DEF OnePlace
  <2>2. CASE how = "ok" /\ sendlist' = Append(sendlist, NodeOf(msg[c]))
    <3>0. PICK n : n = NodeOf(msg[c])
      OBVIOUS
    <3>1. n \in Nodes /\ n.serial = s0 /\ NodeOK(n)'
      <4>1. msg[c].id \in Ids
        BY <1>3 DEF MessageOK
      <4>2. /\ n \in Nodes /\ n.serial = s0 /\ n.token = msg[c].token /\ n.keep = msg[c].keep
            /\ n.resp = IsResponse(msg[c])
        BY <1>0, <1>3, <3>0, <4>1, NodeOfFacts
      <4>3. NodeOK(n)
        BY <1>0, <1>3, <4>2 DEF MessageOK, NodeOK
      <4> QED BY <4>2, <4>3 DEF NodeOK
    <3>2. /\ sendlist' \in Seq(Nodes) /\ Len(sendlist') = Len(sendlist) + 1
          /\ \A j \in 1 .. Len(sendlist) : sendlist'[j] = sendlist[j]
          /\ sendlist'[Len(sendlist) + 1] = n
      BY <1>8, <2>2, <3>0, <3>1, AppendFacts
    <3>3. \A j \in 1 .. Len(sendlist') : j \in 1 .. Len(sendlist) \/ j = Len(sendlist) + 1
      BY <1>8, <3>2
    <3>4. (\A i \in 1 .. Len(sendlist) : NodeOK(sendlist[i]))'
      <4> SUFFICES ASSUME NEW i \in 1 .. Len(sendlist') PROVE NodeOK(sendlist[i])'
        OBVIOUS
      <4>1. CASE i \in 1 .. Len(sendlist)
        BY <3>2, <4>1 DEF KindPart, NodeOK
      <4>2. CASE i = Len(sendlist) + 1
        BY <3>1, <3>2, <4>2 DEF NodeOK
      <4> QED BY <3>3, <4>1, <4>2
    <3>5. s0 # 0 => \A i \in 1 .. Len(sendlist) : sendlist[i].serial # s0
      BY <1>3, <1>5 DEF OnePlace, InList
    <3>6. \A i, j \in 1 .. Len(sendlist') :
            sendlist'[i].serial = sendlist'[j].serial /\ sendlist'[i].serial # 0 => i = j
      <4> SUFFICES ASSUME NEW i \in 1 .. Len(sendlist'), NEW j \in 1 .. Len(sendlist'),
                          sendlist'[i].serial = sendlist'[j].serial, sendlist'[i].serial # 0
                   PROVE  i = j
        OBVIOUS
      <4>1. CASE i \in 1 .. Len(sendlist) /\ j \in 1 .. Len(sendlist)
        BY <3>2, <4>1 DEF OnePlace
      <4>2. CASE i = Len(sendlist) + 1 /\ j \in 1 .. Len(sendlist)
        BY <3>1, <3>2, <3>5, <4>2
      <4>3. CASE j = Len(sendlist) + 1 /\ i \in 1 .. Len(sendlist)
        BY <3>1, <3>2, <3>5, <4>3
      <4> QED BY <3>3, <4>1, <4>2, <4>3
    <3>7. \A s \in Serials : InList(s)' => InList(s) \/ (s = s0 /\ how = "ok")
      BY <2>2, <3>1, <3>2, <3>3 DEF InList
    <3> QED BY <3>2, <3>4, <3>6, <3>7
  <2> QED BY <2>1, <2>2
<1>10. 1 .. MaxSends \subseteq Serials /\ dnode.serial \in Serials
       /\ (dnode.serial # 0 => dnode.serial \in 1 .. MaxSends)
  BY CoapServerAssumption DEF Serials, DaemonTypes, Nodes
<1>11. KindPart'
  <2>1. NodeOK(dnode)'
    BY DEF KindPart, NodeOK
  <2> QED BY <1>6, <1>9, <2>1 DEF KindPart
<1>12. OnePlace'
  <2>1. (\A s \in 1 .. MaxSends : InList(s) => ~InCall(s))'
    <3> SUFFICES ASSUME NEW s \in 1 .. MaxSends, InList(s)' PROVE ~(InCall(s)')
      OBVIOUS
    <3>1. s # 0 /\ s \in Serials
      BY <1>10
    <3> QED BY <1>6, <1>7, <1>9, <3>1 DEF OnePlace
  <2>2. (InHand /\ dnode.serial # 0 => ~InCall(dnode.serial) /\ ~InList(dnode.serial))'
    <3> SUFFICES ASSUME InHand, dnode.serial # 0
                 PROVE  ~(InCall(dnode.serial)') /\ ~(InList(dnode.serial)')
      BY DEF InHand, InCall, InList
    <3>1. ~InCall(dnode.serial) /\ ~InList(dnode.serial)
      BY DEF OnePlace
    <3> QED BY <1>5, <1>6, <1>9, <1>10, <3>1
  <2> QED BY <1>6, <1>9, <2>1, <2>2 DEF OnePlace
<1>13. OutcomePart' /\ OneOutcome'
  <2>0. s0 <= sent /\ sent \in Nat /\ MaxSends \in Nat
    BY <1>0, <1>3, CoapServerAssumption DEF MessageOK, CallTypes
  <2>1. ASSUME NEW s \in (1 .. MaxSends) \ kept
        PROVE  /\ s > sent \/ InCall(s)' =>
                     ret'[s] = "none" /\ finals[s] = 0 /\ s \notin cancelled
               /\ InList(s)' => Pending(s)'
               /\ dpc = "evict" /\ dnode.serial = s => Pending(s)'
               /\ finals[s] <= IF ret'[s] = "error" \/ s \in cancelled THEN 0 ELSE 1
    <3>1. s \in Serials /\ s # 0 /\ s \in Nat
      BY <1>10
    <3>2. CASE s = s0
      <4>1. finals[s] = 0 /\ s \notin cancelled /\ ~(s > sent)
        BY <1>5, <2>0, <3>2 DEF OutcomePart
      <4>2. ~InList(s) /\ ~(dpc = "evict" /\ dnode.serial = s)
        BY <1>5, <3>1, <3>2 DEF OnePlace, InHand
      <4>3. InList(s)' => Pending(s)'
        BY <1>4, <1>9, <3>1, <3>2, <4>1, <4>2 DEF Pending
      <4> QED BY <1>7, <3>1, <3>2, <4>1, <4>2, <4>3
    <3>3. CASE s # s0
      <4>1. ret'[s] = ret[s]
        BY <1>4, <3>1, <3>3
      <4>2. Pending(s)' <=> Pending(s)
        BY <4>1 DEF Pending
      <4>3. (InList(s)' => InList(s)) /\ (InCall(s)' => InCall(s))
        BY <1>6, <1>9, <3>1, <3>3
      <4> QED BY <4>1, <4>2, <4>3 DEF OutcomePart, OneOutcome
    <3> QED BY <3>2, <3>3
  <2>2. OutcomePart'
    BY <2>1 DEF OutcomePart
  <2> QED BY <2>1, <2>2 DEF OneOutcome
<1> QED BY <1>1, <1>2, <1>4, <1>9, <1>11, <1>12, <1>13

(* A cancelled request was listed, so it has no outcome and gets none.     *)
LEMMA CancelKeeps ==
  ASSUME CallTypes, ListTypes, DaemonTypes, SerialParts, HandlerNodeIsOwned,
         NEW c \in Callers, NEW id \in Ids, CoAPMessageId_cancel(c, id)
  PROVE  /\ SerialParts' /\ HandlerNodeIsOwned'
         /\ sendlist' \in Seq(Nodes) /\ cancelled' \subseteq Serials
<1> USE DEF SerialParts
<1>0. PICK gone : gone = {n \in ToSet(sendlist) : n.id = id}
  OBVIOUS
<1>1. /\ sendlist' = Without(sendlist, gone)
      /\ cancelled' = cancelled \cup ({n.serial : n \in gone} \ (kept \cup {0}))
      /\ dlive' = (dlive /\ ~(why = "response" /\ dnode \in gone))
      /\ UNCHANGED <<sent, kept, ret, finals, pc, msg, dnode, dpc, why>>
  BY <1>0 DEF CoAPMessageId_cancel, calls
<1>2. /\ sendlist' \in Seq(Nodes) /\ Shrinks
      /\ \A j \in 1 .. Len(sendlist') :
            \E k \in 1 .. Len(sendlist) : sendlist'[j] = sendlist[k] /\ sendlist[k] \notin gone
  BY <1>1, WithoutShrinks
<1>3. sendlist \in Seq(Nodes) /\ \A n \in gone : \E i \in 1 .. Len(sendlist) : sendlist[i] = n
  BY <1>0 DEF ListTypes, ToSet
<1>4. /\ (\A i \in 1 .. Len(sendlist) : NodeOK(sendlist[i]))'
      /\ \A i, j \in 1 .. Len(sendlist') :
            sendlist'[i].serial = sendlist'[j].serial /\ sendlist'[i].serial # 0 => i = j
      /\ \A s \in Serials : InList(s)' => InList(s)
  BY <1>1, <1>2, ShrinkFacts
<1>5. \A s : InCall(s)' <=> InCall(s)
  BY <1>1 DEF InCall
<1>6. /\ 1 .. MaxSends \subseteq Serials /\ dnode.serial \in Serials /\ MaxSends \in Nat
      /\ \A n \in gone : n.serial \in Serials
  <2>1. 1 .. MaxSends \subseteq Serials /\ dnode.serial \in Serials /\ MaxSends \in Nat
    BY CoapServerAssumption DEF Serials, DaemonTypes, Nodes
  <2>2. \A n \in gone : n \in Nodes
    BY <1>3
  <2> QED BY <2>1, <2>2 DEF Nodes
<1>7. \A n \in gone : InList(n.serial)
  BY <1>3 DEF InList
<1>8. KindPart'
  <2>1. NodeOK(dnode)' /\ (\A e \in Callers : pc[e] \in Sending => MessageOK(msg[e]))'
    BY <1>1 DEF KindPart, NodeOK, MessageOK
  <2> QED BY <1>4, <2>1 DEF KindPart
<1>9. OnePlace'
  <2>1. (\A s \in 1 .. MaxSends : InList(s) => ~InCall(s))'
    <3> SUFFICES ASSUME NEW s \in 1 .. MaxSends, InList(s)' PROVE ~(InCall(s)')
      OBVIOUS
    <3> QED BY <1>4, <1>5, <1>6 DEF OnePlace
  <2>2. (InHand /\ dnode.serial # 0 => ~InCall(dnode.serial) /\ ~InList(dnode.serial))'
    <3> SUFFICES ASSUME InHand, dnode.serial # 0
                 PROVE  ~(InCall(dnode.serial)') /\ ~(InList(dnode.serial)')
      BY <1>1 DEF InHand, InCall, InList
    <3>1. ~InCall(dnode.serial) /\ ~InList(dnode.serial)
      BY DEF OnePlace
    <3> QED BY <1>1, <1>4, <1>5, <1>6, <3>1 DEF InCall, InList
  <2>3. (\A d, e \in Callers :
          /\ d # e /\ pc[d] \in Sending /\ pc[e] \in Sending /\ msg[d].serial # 0
          => msg[d].serial # msg[e].serial)'
    BY <1>1 DEF OnePlace
  <2>4. (why = "response" => dpc = "callback" /\ dnode.serial # 0)'
    BY <1>1 DEF OnePlace
  <2> QED BY <1>4, <2>1, <2>2, <2>3, <2>4 DEF OnePlace
<1>10. ASSUME NEW s \in (1 .. MaxSends) \ kept
       PROVE  /\ s > sent \/ InCall(s)' =>
                     ret[s] = "none" /\ finals[s] = 0 /\ s \notin cancelled'
              /\ InList(s)' => Pending(s)'
              /\ dpc = "evict" /\ dnode.serial = s => Pending(s)'
              /\ finals[s] <= IF ret[s] = "error" \/ s \in cancelled' THEN 0 ELSE 1
  <2>1. s \in Serials /\ s \in Nat /\ s # 0
    BY <1>6
  <2>2. CASE \E n \in gone : n.serial = s
    <3>1. PICK n \in gone : n.serial = s
      BY <2>2
    <3>2. InList(s) /\ ~InCall(s) /\ finals[s] = 0
      BY <1>7, <3>1 DEF OnePlace, OutcomePart, Pending
    <3>3. ~(s > sent)
      BY <2>1, <3>2 DEF InList, KindPart, NodeOK, CallTypes
    <3>4. ~(InList(s)')
      <4> SUFFICES ASSUME NEW j \in 1 .. Len(sendlist'), sendlist'[j].serial = s PROVE FALSE
        BY DEF InList
      <4>1. PICK k \in 1 .. Len(sendlist) : sendlist'[j] = sendlist[k] /\ sendlist[k] \notin gone
        BY <1>2
      <4>2. PICK i \in 1 .. Len(sendlist) : sendlist[i] = n
        BY <1>3
      <4>3. i = k
        BY <2>1, <3>1, <4>1, <4>2 DEF OnePlace
      <4> QED BY <4>1, <4>2, <4>3
    <3>5. ~(dpc = "evict" /\ dnode.serial = s)
      BY <2>1, <3>2 DEF OnePlace, InHand
    <3> QED BY <1>5, <3>2, <3>3, <3>4, <3>5
  <2>3. CASE ~\E n \in gone : n.serial = s
    <3>1. s \in cancelled' <=> s \in cancelled
      BY <1>1, <2>3
    <3>2. Pending(s)' <=> Pending(s)
      BY <1>1, <3>1 DEF Pending
    <3> QED BY <1>4, <1>5, <2>1, <3>1, <3>2 DEF OutcomePart, OneOutcome
  <2> QED BY <2>2, <2>3
<1>11. OutcomePart' /\ OneOutcome'
  <2>1. OutcomePart'
    BY <1>1, <1>10 DEF OutcomePart
  <2> QED BY <1>1, <1>10, <2>1 DEF OneOutcome
<1>12. HandlerNodeIsOwned'
  <2> SUFFICES ASSUME ~dlive', ~dnode.keep PROVE FALSE
    BY <1>1 DEF HandlerNodeIsOwned
  <2>1. why = "response" /\ dnode \in gone
    BY <1>1 DEF HandlerNodeIsOwned
  <2>2. InHand /\ dnode.serial # 0 /\ InList(dnode.serial)
    BY <1>7, <2>1 DEF InHand, OnePlace
  <2> QED BY <2>2 DEF OnePlace
<1>13. cancelled' \subseteq Serials
  BY <1>1, <1>6 DEF CallTypes
<1> QED BY <1>2, <1>8, <1>9, <1>11, <1>12, <1>13

(* A node that the daemon unlinks is in its hand, and nowhere else.        *)
LEMMA TakenKeeps ==
  ASSUME CallTypes, ListTypes, DaemonTypes, SerialParts, NEW i \in 1 .. Len(sendlist),
         IF sendlist[i].keep THEN sendlist' = sendlist ELSE sendlist' = RemoveAt(sendlist, i),
         dnode' = sendlist[i], UNCHANGED <<sent, kept, pc, msg>>,
         why' = "response" => dpc' = "callback" /\ sendlist[i].serial # 0,
         dpc' = "evict" => ~sendlist[i].keep
  PROVE  /\ KindPart' /\ OnePlace'
         /\ \A s \in Serials : InList(s)' => InList(s)
         /\ \A s : InCall(s)' <=> InCall(s)
         /\ ~sendlist[i].keep /\ sendlist[i].serial # 0 =>
               ~(\E j \in 1 .. Len(sendlist') : sendlist'[j].serial = sendlist[i].serial)
<1> USE DEF SerialParts
<1>0. sendlist[i] \in Nodes /\ NodeOK(sendlist[i])
  BY DEF ListTypes, KindPart
<1>1. Shrinks /\ (~sendlist[i].keep => \A j \in 1 .. Len(sendlist') :
         \E k \in 1 .. Len(sendlist) : k # i /\ sendlist'[j] = sendlist[k])
  <2>1. CASE sendlist[i].keep
    BY <2>1, UnchangedShrinks
  <2>2. CASE ~sendlist[i].keep
    BY <2>2, RemoveAtShrinks
  <2> QED BY <2>1, <2>2
<1>2. /\ (\A j \in 1 .. Len(sendlist) : NodeOK(sendlist[j]))'
      /\ \A j, k \in 1 .. Len(sendlist') :
            sendlist'[j].serial = sendlist'[k].serial /\ sendlist'[j].serial # 0 => j = k
      /\ \A s \in Serials : InList(s)' => InList(s)
  BY <1>1, ShrinkFacts
<1>3. \A s : InCall(s)' <=> InCall(s)
  BY DEF InCall
<1>4. ~sendlist[i].keep /\ sendlist[i].serial # 0 =>
               ~(\E j \in 1 .. Len(sendlist') : sendlist'[j].serial = sendlist[i].serial)
  BY <1>1 DEF OnePlace
<1>5. KindPart'
  <2>1. NodeOK(dnode)' /\ (\A e \in Callers : pc[e] \in Sending => MessageOK(msg[e]))'
    BY <1>0 DEF KindPart, NodeOK, MessageOK
  <2> QED BY <1>2, <2>1 DEF KindPart
<1>6. 1 .. MaxSends \subseteq Serials /\ MaxSends \in Nat
      /\ (sendlist[i].serial # 0 => sendlist[i].serial \in 1 .. MaxSends)
  BY <1>0, CoapServerAssumption DEF Serials, Nodes
<1>7. OnePlace'
  <2>1. (\A s \in 1 .. MaxSends : InList(s) => ~InCall(s))'
    <3> SUFFICES ASSUME NEW s \in 1 .. MaxSends, InList(s)' PROVE ~(InCall(s)')
      OBVIOUS
    <3> QED BY <1>2, <1>3, <1>6 DEF OnePlace
  <2>2. (InHand /\ dnode.serial # 0 => ~InCall(dnode.serial) /\ ~InList(dnode.serial))'
    <3>0. PICK s : s = sendlist[i].serial
      OBVIOUS
    <3> SUFFICES ASSUME InHand', s # 0 PROVE ~(InCall(s)') /\ ~(InList(s)')
      BY <3>0 DEF InCall, InList
    <3>1. ~sendlist[i].keep
      BY DEF InHand
    <3>2. InList(s) /\ s \in 1 .. MaxSends
      BY <1>6, <3>0 DEF InList
    <3>3. ~InCall(s)
      BY <3>2 DEF OnePlace
    <3>4. ~(InList(s)')
      BY <1>4, <3>0, <3>1 DEF InList
    <3> QED BY <1>3, <3>3, <3>4
  <2>3. (\A d, e \in Callers :
          /\ d # e /\ pc[d] \in Sending /\ pc[e] \in Sending /\ msg[d].serial # 0
          => msg[d].serial # msg[e].serial)'
    BY DEF OnePlace
  <2>4. (why = "response" => dpc = "callback" /\ dnode.serial # 0)'
    OBVIOUS
  <2> QED BY <1>2, <2>1, <2>2, <2>3, <2>4 DEF OnePlace
<1> QED BY <1>2, <1>3, <1>4, <1>5, <1>7

LEMMA CalledFacts ==
  ASSUME CallTypes, NEW s \in Serials, Called(s)
  PROVE  /\ finals' \in [Serials -> 0 .. 2]
         /\ \A r \in Serials : r # s => finals'[r] = finals[r]
         /\ s \notin kept /\ finals[s] = 0 => finals'[s] = 1
  BY DEF CallTypes, Called

(* The outcome of a request that is neither in a call nor listed any more. *)
LEMMA OutcomeKeeps ==
  ASSUME CallTypes, SerialParts, NEW r \in Serials, r # 0, Called(r), r \notin kept => Pending(r),
         UNCHANGED <<sent, kept, ret, cancelled>>, r <= sent, dpc' # "evict",
         \A s \in Serials : InList(s)' => InList(s),
         \A s \in Serials : InCall(s)' => InCall(s),
         r \notin kept => ~(InCall(r)') /\ ~(InList(r)')
  PROVE  OutcomePart' /\ OneOutcome'
<1> USE DEF SerialParts
<1>0. 1 .. MaxSends \subseteq Serials /\ MaxSends \in Nat /\ sent \in Nat
  BY CoapServerAssumption DEF Serials, CallTypes
<1>1. ASSUME NEW s \in (1 .. MaxSends) \ kept
      PROVE  /\ s > sent \/ InCall(s)' =>
                    ret[s] = "none" /\ finals'[s] = 0 /\ s \notin cancelled
             /\ InList(s)' => Pending(s)'
             /\ finals'[s] <= IF ret[s] = "error" \/ s \in cancelled THEN 0 ELSE 1
  <2>0. s \in Serials /\ s \in Nat
    BY <1>0
  <2>1. CASE s = r
    <3>1. finals'[s] = 1 /\ ret[s] = "ok" /\ s \notin cancelled
      BY <2>0, <2>1, CalledFacts DEF Pending
    <3>2. ~(s > sent)
      BY <1>0, <2>0, <2>1
    <3>3. ~(InCall(s)') /\ ~(InList(s)')
      BY <2>1
    <3> QED BY <3>1, <3>2, <3>3
  <2>2. CASE s # r
    <3>1. finals'[s] = finals[s]
      BY <2>0, <2>2, CalledFacts
    <3>2. Pending(s)' <=> Pending(s)
      BY <3>1 DEF Pending
    <3> QED BY <2>0, <3>1, <3>2 DEF OutcomePart, OneOutcome
  <2> QED BY <2>1, <2>2
<1>2. OutcomePart'
  BY <1>1 DEF OutcomePart
<1> QED BY <1>1, <1>2 DEF OneOutcome

(* A place that SelectInSeq finds is a place of the list that passes.      *)
LEMMA WaitingFacts ==
  ASSUME ListTypes, NEW t, Waiting(t) # 0
  PROVE  Waiting(t) \in 1 .. Len(sendlist) /\ sendlist[Waiting(t)].token = t
<1> DEFINE I == {i \in 1 .. Len(sendlist) : sendlist[i].token = t}
<1>1. Waiting(t) = IF I # {} THEN Min(I) ELSE 0
  BY DEF Waiting, SelectInSeq
<1>2. I \in SUBSET Nat
  BY DEF ListTypes
<1>3. Min(I) \in I
  <2>1. I # {}
    BY <1>1
  <2> HIDE DEF I
  <2> QED BY <1>2, <2>1, MinFacts
<1> QED BY <1>1, <1>3

LEMMA TimedOutFacts ==
  ASSUME ListTypes, SelectInSeq(sendlist, TimedOut) # 0
  PROVE  /\ SelectInSeq(sendlist, TimedOut) \in 1 .. Len(sendlist)
         /\ TimedOut(sendlist[SelectInSeq(sendlist, TimedOut)])
<1> DEFINE I == {i \in 1 .. Len(sendlist) : TimedOut(sendlist[i])}
<1>1. SelectInSeq(sendlist, TimedOut) = IF I # {} THEN Min(I) ELSE 0
  BY DEF SelectInSeq
<1>2. I \in SUBSET Nat
  BY DEF ListTypes
<1>3. Min(I) \in I
  <2>1. I # {}
    BY <1>1
  <2> HIDE DEF I
  <2> QED BY <1>2, <2>1, MinFacts
<1> QED BY <1>1, <1>3

LEMMA NamedFacts ==
  ASSUME ListTypes, NEW id, Named(id) # 0
  PROVE  Named(id) \in 1 .. Len(sendlist)
<1> DEFINE I == {i \in 1 .. Len(sendlist) : sendlist[i].id = id}
<1>1. Named(id) = IF I # {} THEN Min(I) ELSE 0
  BY DEF Named, SelectInSeq
<1>2. I \in SUBSET Nat
  BY DEF ListTypes
<1>3. Min(I) \in I
  <2>1. I # {}
    BY <1>1
  <2> HIDE DEF I
  <2> QED BY <1>2, <2>1, MinFacts
<1> QED BY <1>1, <1>3

(* A response is given to the handler of a request that had no outcome.    *)
LEMMA RespKeeps ==
  ASSUME CallTypes, ListTypes, DaemonTypes, PeerTypes, SerialParts,
         NEW t \in Serials, NEW o \in BOOLEAN, CoAPRespMessage_handle(t, o)
  PROVE  SerialParts' /\ finals' \in [Serials -> 0 .. 2] /\ dnode' \in Nodes
<1> USE DEF SerialParts
<1>0. PICK i : i = Waiting(t)
  OBVIOUS
<1>1. i \in 1 .. Len(sendlist) /\ sendlist[i].token = t /\ t # 0
  BY <1>0, WaitingFacts DEF CoAPRespMessage_handle, PeerTypes
<1>2. PICK r : r = sendlist[i].serial
  OBVIOUS
<1>3. /\ sendlist[i] \in Nodes /\ NodeOK(sendlist[i]) /\ r \in Serials /\ r # 0 /\ r <= sent
      /\ sendlist[i].keep \in BOOLEAN
  <2>1. sendlist[i] \in Nodes /\ NodeOK(sendlist[i])
    BY <1>1 DEF ListTypes, KindPart
  <2>2. r \in Serials /\ sendlist[i].keep \in BOOLEAN
    BY <1>2, <2>1 DEF Nodes
  <2> QED BY <1>1, <1>2, <2>1, <2>2 DEF NodeOK
<1>4. /\ Unlink(i) /\ dnode' = sendlist[i] /\ dpc' = "callback" /\ why' = "response" /\ Called(r)
      /\ UNCHANGED <<sent, kept, ret, cancelled, pc, msg>>
  BY <1>0, <1>2 DEF CoAPRespMessage_handle, calls
<1>5. IF sendlist[i].keep THEN sendlist' = sendlist ELSE sendlist' = RemoveAt(sendlist, i)
  BY <1>4 DEF Unlink, list
<1>6. /\ KindPart' /\ OnePlace'
      /\ \A s \in Serials : InList(s)' => InList(s)
      /\ \A s : InCall(s)' <=> InCall(s)
      /\ ~sendlist[i].keep =>
               ~(\E j \in 1 .. Len(sendlist') : sendlist'[j].serial = sendlist[i].serial)
  BY <1>1, <1>2, <1>3, <1>4, <1>5, TakenKeeps
<1>7. InList(r) /\ (r \in kept <=> sendlist[i].keep) /\ r \in 1 .. MaxSends
  <2>1. r \in 1 .. MaxSends
    BY <1>3, CoapServerAssumption DEF Serials
  <2> QED BY <1>1, <1>2, <1>3, <2>1 DEF InList, NodeOK
<1>8. r \notin kept => Pending(r) /\ ~(InCall(r)') /\ ~(InList(r)')
  <2> SUFFICES ASSUME r \notin kept PROVE Pending(r) /\ ~(InCall(r)') /\ ~(InList(r)')
    OBVIOUS
  <2>1. Pending(r) /\ ~InCall(r)
    BY <1>7 DEF OutcomePart, OnePlace
  <2>2. ~(InList(r)')
    BY <1>2, <1>6, <1>7 DEF InList
  <2> QED BY <1>6, <2>1, <2>2
<1>9. OutcomePart' /\ OneOutcome'
  BY <1>3, <1>4, <1>6, <1>8, OutcomeKeeps
<1> QED BY <1>3, <1>4, <1>6, <1>9, CalledFacts

(* A message that timed out is in the daemon's hand.                       *)
LEMMA TimeoutKeeps ==
  ASSUME CallTypes, ListTypes, DaemonTypes, SerialParts, Check_timeout,
         SelectInSeq(sendlist, TimedOut) # 0
  PROVE  /\ SerialParts' /\ dnode' \in Nodes
         /\ \E i \in 1 .. Len(sendlist) : sendlist' = RemoveAt(sendlist, i) /\ sendcount' = sendcount - 1
<1> USE DEF SerialParts
<1>0. PICK i : i = SelectInSeq(sendlist, TimedOut)
  OBVIOUS
<1>1. i \in 1 .. Len(sendlist) /\ TimedOut(sendlist[i])
  BY <1>0, TimedOutFacts
<1>2. /\ Unlink(i) /\ dnode' = sendlist[i] /\ dpc = "check" /\ dpc' = "evict"
      /\ UNCHANGED <<sent, kept, ret, finals, cancelled, pc, msg, why>>
  BY <1>0 DEF Check_timeout, calls, hist
<1>3. ~sendlist[i].keep /\ sendlist' = RemoveAt(sendlist, i) /\ sendcount' = sendcount - 1
  BY <1>1, <1>2 DEF TimedOut, Unlink
<1>4. why' # "response"
  BY <1>2 DEF OnePlace
<1>5. /\ KindPart' /\ OnePlace'
      /\ \A s \in Serials : InList(s)' => InList(s)
      /\ \A s : InCall(s)' <=> InCall(s)
  BY <1>1, <1>2, <1>3, <1>4, TakenKeeps
<1>6. OutcomePart'
  <2>0. 1 .. MaxSends \subseteq Serials
    BY CoapServerAssumption DEF Serials
  <2> SUFFICES ASSUME NEW s \in (1 .. MaxSends) \ kept
               PROVE  /\ s > sent \/ InCall(s)' =>
                            ret[s] = "none" /\ finals[s] = 0 /\ s \notin cancelled
                      /\ InList(s)' => Pending(s)
                      /\ sendlist[i].serial = s => Pending(s)
    BY <1>2 DEF OutcomePart, Pending
  <2>1. sendlist[i].serial = s => InList(s)
    BY <1>1 DEF InList
  <2> QED BY <1>5, <2>0, <2>1 DEF OutcomePart
<1>7. OneOutcome'
  BY <1>2 DEF OneOutcome
<1>8. dnode' \in Nodes
  BY <1>1, <1>2 DEF ListTypes
<1> QED BY <1>1, <1>3, <1>5, <1>6, <1>7, <1>8

(* Its handler is told, once.                                              *)
LEMMA EvictKeeps ==
  ASSUME CallTypes, ListTypes, DaemonTypes, SerialParts, EvictObservers
  PROVE  SerialParts' /\ finals' \in [Serials -> 0 .. 2] /\ dnode' \in Nodes
<1> USE DEF SerialParts
<1>0. PICK r : r = dnode.serial
  OBVIOUS
<1>1. /\ dpc = "evict" /\ UNCHANGED <<sent, kept, ret, cancelled, pc, msg, sendlist>>
      /\ why # "response"
  BY DEF EvictObservers, calls, list, OnePlace
<1>2. Shrinks /\ CallsQuiet
  BY <1>1, UnchangedShrinks DEF CallsQuiet
<1>3. CASE r = 0
  <2>1. dpc' = "check" /\ dnode' = NoNode /\ UNCHANGED <<why, finals>>
    BY <1>0, <1>3 DEF EvictObservers
  <2>2. DaemonQuiet
    BY <1>1, <2>1 DEF DaemonQuiet
  <2>3. SerialParts'
    BY <1>1, <1>2, <2>1, <2>2, QuietKeeps DEF history
  <2> QED BY <2>1, <2>3, NoNodeFacts DEF CallTypes
<1>4. CASE r # 0
  <2>1. dpc' = "callback" /\ why' = "timeout" /\ dnode' = dnode /\ Called(r)
    BY <1>0, <1>4 DEF EvictObservers
  <2>2. r \in Serials /\ r \in 1 .. MaxSends /\ r <= sent
    BY <1>0, <1>4, CoapServerAssumption DEF DaemonTypes, Nodes, Serials, KindPart, NodeOK
  <2>3. (\A s : InList(s)' <=> InList(s)) /\ (\A s : InCall(s)' <=> InCall(s))
    BY <1>1 DEF InList, InCall
  <2>4. ~InCall(r) /\ ~InList(r)
    BY <1>0, <1>1, <1>4 DEF OnePlace, InHand
  <2>5. r \notin kept => Pending(r)
    BY <1>0, <1>1, <2>2 DEF OutcomePart
  <2>6. OutcomePart' /\ OneOutcome'
    BY <1>1, <1>4, <2>1, <2>2, <2>3, <2>4, <2>5, OutcomeKeeps
  <2>7. KindPart'
    BY <1>1, <2>1 DEF KindPart, NodeOK, MessageOK
  <2>8. OnePlace'
    <3>1. ~(InHand')
      BY <2>1 DEF InHand
    <3>2. (\A s \in 1 .. MaxSends : InList(s) => ~InCall(s))'
      BY <2>3 DEF OnePlace
    <3> QED BY <1>1, <2>1, <3>1, <3>2 DEF OnePlace
  <2> QED BY <2>1, <2>2, <2>6, <2>7, <2>8, CalledFacts DEF DaemonTypes
<1> QED BY <1>3, <1>4

-----------------------------------------------------------------------------
(* The actions                                                             *)

ListParts == ListTypes /\ SendListCounted
ObserverParts == PeerTypes /\ ObserversDistinct
DaemonParts == DaemonTypes /\ HandlerNodeIsOwned

LEMMA IInvParts ==
  /\ IInv <=> CallTypes /\ ListParts /\ DaemonParts /\ ObserverParts /\ LifePart /\ SerialParts
  /\ IInv' <=> CallTypes' /\ ListParts' /\ DaemonParts' /\ ObserverParts' /\ LifePart' /\ SerialParts'
  BY DEF IInv, ListParts, ObserverParts, DaemonParts, SerialParts

LEMMA ListFrame == ASSUME ListParts, UNCHANGED <<list, send_maxcount, context>> PROVE ListParts'
  BY DEF ListParts, ListTypes, SendListCounted, list
LEMMA DaemonFrame == ASSUME DaemonParts, UNCHANGED <<daemon, locks>> PROVE DaemonParts'
  BY DEF DaemonParts, DaemonTypes, HandlerNodeIsOwned, daemon, locks
LEMMA ObserverFrame ==
  ASSUME ObserverParts, UNCHANGED <<obsserver, obsclient, asked, written, life>> PROVE ObserverParts'
  BY DEF ObserverParts, PeerTypes, ObserversDistinct, life
LEMMA CallFrame == ASSUME CallTypes, UNCHANGED <<calls, hist>> PROVE CallTypes'
  BY DEF CallTypes, calls, hist

(* A caller moves on inside the calls; only one that may call begins one.  *)
LEMMA LifeKeeps ==
  ASSUME LifePart, CallTypes, NEW c \in Callers, pc' \in [Callers -> Steps],
         \A e \in Callers : e # c => pc'[e] = pc[e],
         pc'[c] # "stopping",
         pc'[c] # "idle" => IF c = Daemon THEN dpc = "callback" ELSE running,
         UNCHANGED <<running, semaphore, context, dpc, dlive>>
  PROVE  LifePart'
<1> USE DEF LifePart, Callers
<1>1. (c \in Threads /\ c # Daemon) \/ c = Daemon
  OBVIOUS
<1>2. Daemon \notin Threads
  BY CoapServerAssumption
<1> QED BY <1>1, <1>2

(* Whoever is inside a call was allowed to begin it.                       *)
LEMMA InsideFacts ==
  ASSUME LifePart, CallTypes, NEW c \in Callers, pc[c] \in {"send", "add", "walk"}
  PROVE  IF c = Daemon THEN dpc = "callback" ELSE running
  BY DEF LifePart, Callers, CallTypes

LEMMA IdFacts == ASSUME CallTypes PROVE CoAPMessageId_gen \in Ids /\ IdAfter \in Ids
<1>1. IdMax \in Nat /\ IdMax > 1
  BY CoapServerAssumption
<1> QED BY <1>1 DEF CallTypes, Ids, CoAPMessageId_gen, IdAfter

LEMMA SendRequestKeeps ==
  ASSUME IInv, NEW c \in Callers, NEW k \in Kinds, NEW r \in Remotes, SendRequest(c, k, r)
  PROVE  IInv'
<1> USE IInvParts
<1>1. PICK t \in Serials : BeginSend(c, [serial |-> sent + 1, token |-> t, id |-> CoAPMessageId_gen,
                             con |-> k \notin {"non", "multicast"}, keep |-> k = "multicast",
                             kind |-> k, remote |-> r, walk |-> 0])
  <2>1. obsclient \subseteq Serials
    BY DEF ObserverParts, PeerTypes
  <2>2. sent < MaxSends => sent + 1 \in Serials
    BY CoapServerAssumption DEF CallTypes, Serials
  <2> QED BY <2>1, <2>2 DEF SendRequest, BeginSend
<1> DEFINE m == [serial |-> sent + 1, token |-> t, id |-> CoAPMessageId_gen,
                 con |-> k \notin {"non", "multicast"}, keep |-> k = "multicast",
                 kind |-> k, remote |-> r, walk |-> 0]
<1>2. /\ sent + 1 \in Serials /\ sent + 1 # 0 /\ CoAPMessageId_gen \in Ids
      /\ CoAPMessageId_gen \in 0 .. IdMax /\ 0 \in 0 .. ObsMax + 1
  <2>1. sent < MaxSends /\ sent \in 0 .. MaxSends /\ MaxSends \in Nat
    BY <1>1, CoapServerAssumption DEF BeginSend, CallTypes
  <2>2. IdMax \in Nat /\ ObsMax \in Nat
    BY CoapServerAssumption
  <2> QED BY <2>1, <2>2, IdFacts DEF Serials, Ids
<1>3. /\ m \in Messages /\ m.id \in Ids /\ m.serial = sent + 1 /\ ~IsResponse(m)
      /\ m.keep = (k = "multicast")
  BY <1>2, CoapServerAssumption DEF Messages, IsResponse
<1>4. BeginSend(c, m) /\ sent + 1 # 0
  BY <1>1, <1>2
<1> HIDE DEF m
<1>5. /\ pc[c] = "idle" /\ context = "up" /\ (IF c = Daemon THEN dpc = "callback" ELSE running)
      /\ kept' = IF m.keep THEN kept \cup {sent + 1} ELSE kept
      /\ message_id' = IdAfter
      /\ UNCHANGED <<locks, list, daemon, life, ret, finals, cancelled, peers>>
  BY <1>3 DEF SendRequest, MayCall
<1>6. /\ SerialParts'
      /\ sent' \in 0 .. MaxSends /\ kept' \subseteq 1 .. sent'
      /\ pc' \in [Callers -> Steps] /\ msg' \in [Callers -> Messages]
      /\ pc'[c] = "send" /\ \A e \in Callers : e # c => pc'[e] = pc[e]
  <2>1. pc[c] \notin Sending /\ UNCHANGED <<ret, finals, cancelled, sendlist, dnode, dpc, why>>
    BY <1>5 DEF Sending, list, daemon
  <2>2. ListTypes /\ DaemonTypes
    BY DEF ListParts, DaemonParts
  <2> QED BY <1>3, <1>4, <1>5, <2>1, <2>2, BeginKeeps
<1>7. CallTypes'
  BY <1>5, <1>6, IdFacts DEF CallTypes
<1>8. LifePart'
  BY <1>5, <1>6, LifeKeeps DEF life, daemon
<1> QED BY <1>5, <1>6, <1>7, <1>8, ListFrame, DaemonFrame, ObserverFrame DEF peers, life

LEMMA RequestFacts ==
  ASSUME NEW q \in Requests \cup {NoReq}
  PROVE  q.remote \in Remotes /\ q.con \in BOOLEAN /\ q.id \in Ids /\ q.id \in 0 .. IdMax
<1>1. PeerIds \subseteq Ids /\ 1 \in Ids /\ Ids \subseteq 0 .. IdMax
  BY CoapServerAssumption DEF Ids
<1>2. CASE q \in Requests
  <2>1. q \in [remote : Remotes, id : PeerIds, con : BOOLEAN, observe : BOOLEAN]
    BY <1>2 DEF Requests
  <2> QED BY <1>1, <2>1
<1>3. CASE q = NoReq
  <2>1. NoMsg.remote \in Remotes
    BY NoMsgFacts DEF Messages
  <2> QED BY <1>1, <1>3, <2>1 DEF NoReq
<1> QED BY <1>2, <1>3

LEMMA ObserverAdded ==
  ASSUME ObserverParts, NEW q \in Requests \cup {NoReq}
  PROVE  /\ CoAPObsServer_add(q) \in Seq(Observers) /\ Len(CoAPObsServer_add(q)) <= ObsMax
         /\ \A i, j \in 1 .. Len(CoAPObsServer_add(q)) :
               CoAPObsServer_add(q)[i].remote = CoAPObsServer_add(q)[j].remote => i = j
<1>0. obsserver \in Seq(Observers) /\ Len(obsserver) \in Nat /\ Len(obsserver) <= ObsMax /\ ObsMax \in Nat
  BY CoapServerAssumption DEF ObserverParts, PeerTypes
<1>1. CASE Observing(q.remote) # 0 \/ Len(obsserver) >= ObsMax
  BY <1>0, <1>1 DEF CoAPObsServer_add, ObserverParts, ObserversDistinct
<1>2. CASE ~(Observing(q.remote) # 0 \/ Len(obsserver) >= ObsMax)
  <2> DEFINE I == {i \in 1 .. Len(obsserver) : obsserver[i].remote = q.remote}
             o == [remote |-> q.remote, con |-> q.con]
             r == Append(obsserver, o)
  <2>1. Observing(q.remote) = IF I # {} THEN Min(I) ELSE 0
    BY DEF Observing, SelectInSeq
  <2>2. I = {}
    <3> SUFFICES ASSUME I # {} PROVE FALSE
      OBVIOUS
    <3>1. I \in SUBSET Nat /\ 0 \notin I
      BY <1>0
    <3>2. Min(I) = 0
      BY <1>2, <2>1
    <3> HIDE DEF I
    <3> QED BY <3>1, <3>2, MinFacts
  <2>3. \A i \in 1 .. Len(obsserver) : obsserver[i].remote # q.remote
    BY <2>2
  <2>4. o \in Observers /\ o.remote = q.remote
    BY RequestFacts DEF Observers
  <2> HIDE DEF o
  <2>5. /\ r \in Seq(Observers) /\ Len(r) = Len(obsserver) + 1
        /\ \A j \in 1 .. Len(obsserver) : r[j] = obsserver[j]
        /\ r[Len(obsserver) + 1] = o
    BY <1>0, <2>4, AppendFacts
  <2>6. CoAPObsServer_add(q) = r
    BY <1>2 DEF CoAPObsServer_add, o
  <2> HIDE DEF r
  <2>7. \A i, j \in 1 .. Len(r) : r[i].remote = r[j].remote => i = j
    <3> SUFFICES ASSUME NEW i \in 1 .. Len(r), NEW j \in 1 .. Len(r), r[i].remote = r[j].remote
                 PROVE  i = j
      OBVIOUS
    <3>1. (i \in 1 .. Len(obsserver) \/ i = Len(obsserver) + 1)
          /\ (j \in 1 .. Len(obsserver) \/ j = Len(obsserver) + 1)
      BY <1>0, <2>5
    <3>2. CASE i \in 1 .. Len(obsserver) /\ j \in 1 .. Len(obsserver)
      BY <2>5, <3>2 DEF ObserverParts, ObserversDistinct
    <3>3. CASE i \in 1 .. Len(obsserver) /\ j = Len(obsserver) + 1
      BY <2>3, <2>4, <2>5, <3>3
    <3>4. CASE j \in 1 .. Len(obsserver) /\ i = Len(obsserver) + 1
      BY <2>3, <2>4, <2>5, <3>4
    <3> QED BY <3>1, <3>2, <3>3, <3>4
  <2>8. Len(r) <= ObsMax
    BY <1>0, <1>2, <2>5
  <2> QED BY <2>5, <2>6, <2>7, <2>8
<1> QED BY <1>1, <1>2

LEMMA RespSendKeeps ==
  ASSUME IInv, NEW qos \in BOOLEAN, NEW handler \in BOOLEAN, CoAPServerResp_send(qos, handler)
  PROVE  IInv'
<1> USE IInvParts
<1>0. PICK s : s = IF qos /\ handler THEN sent + 1 ELSE 0
  OBVIOUS
<1> DEFINE m == [NoMsg EXCEPT !.serial = s, !.id = req.id, !.con = qos, !.kind = "response", !.remote = req.remote]
<1>1. req \in Requests \cup {NoReq}
  BY DEF DaemonParts, DaemonTypes
<1>2. req.id \in Ids /\ req.id \in 0 .. IdMax /\ req.remote \in Remotes
  BY <1>1, RequestFacts
<1>3. /\ m \in Messages /\ m.id \in Ids /\ m.serial \in {0, sent + 1} /\ m.token = 0
      /\ m.keep = FALSE
  <2>1. s \in Serials /\ s \in {0, sent + 1}
    BY <1>0, CoapServerAssumption DEF CoAPServerResp_send, BeginSend, CallTypes, Serials
  <2> QED BY <1>2, <2>1, NoMsgFacts DEF Messages
<1>4. BeginSend(Daemon, m) /\ Daemon \in Callers
  BY <1>0 DEF CoAPServerResp_send, Callers
<1> HIDE DEF m
<1>5. /\ pc[Daemon] = "idle" /\ dpc = "callback"
      /\ obsserver' = IF req.observe THEN CoAPObsServer_add(req) ELSE obsserver
      /\ UNCHANGED <<message_id, locks, list, daemon, life, hist, obsclient, written, asked, send_maxcount>>
  BY DEF CoAPServerResp_send, MayCall
<1>6. /\ SerialParts'
      /\ sent' \in 0 .. MaxSends /\ kept' \subseteq 1 .. sent'
      /\ pc' \in [Callers -> Steps] /\ msg' \in [Callers -> Messages]
      /\ pc'[Daemon] = "send" /\ \A e \in Callers : e # Daemon => pc'[e] = pc[e]
  <2>1. pc[Daemon] \notin Sending /\ UNCHANGED <<kept, ret, finals, cancelled, sendlist, dnode, dpc, why>>
    BY <1>5 DEF Sending, list, daemon, hist
  <2>2. ListTypes /\ DaemonTypes
    BY DEF ListParts, DaemonParts
  <2> QED BY <1>3, <1>4, <1>5, <2>1, <2>2, BeginKeeps
<1>7. CallTypes'
  BY <1>5, <1>6 DEF CallTypes, hist
<1>8. LifePart'
  BY <1>4, <1>5, <1>6, LifeKeeps DEF life, daemon
<1>9. ObserverParts'
  <2>1. CASE req.observe
    <3>1. obsserver' = CoAPObsServer_add(req)
      BY <1>5, <2>1
    <3> QED BY <1>1, <1>5, <3>1, ObserverAdded DEF ObserverParts, PeerTypes, ObserversDistinct, life
  <2>2. CASE ~req.observe
    BY <1>5, <2>2, ObserverFrame
  <2> QED BY <2>1, <2>2
<1> QED BY <1>5, <1>6, <1>7, <1>8, <1>9, ListFrame, DaemonFrame DEF life

LEMMA MessageSendKeeps ==
  ASSUME IInv, NEW c \in Callers, CoAPMessage_send(c)
  PROVE  IInv'
<1> USE IInvParts
<1>1. /\ pc[c] = "send" /\ pc[c] \in Sending
      /\ UNCHANGED <<message_id, sent, locks, list, daemon, life, kept, finals, cancelled, obsserver,
                     send_maxcount>>
  BY DEF CoAPMessage_send, Sending
<1>2. ListParts' /\ DaemonParts'
  BY <1>1, ListFrame, DaemonFrame DEF life
<1>3. obsclient' \subseteq obsclient /\ asked' \subseteq Serials \ {0} /\ written' \subseteq Ids
  <2>1. msg[c] \in Messages /\ MessageOK(msg[c])
    BY <1>1 DEF CallTypes, SerialParts, KindPart
  <2>2. msg[c].token \in Serials /\ msg[c].id \in Ids
    BY <2>1 DEF Messages, MessageOK
  <2>3. asked \subseteq Serials \ {0} /\ written \subseteq Ids
    BY DEF ObserverParts, PeerTypes
  <2> QED BY <2>2, <2>3 DEF CoAPMessage_send
<1>4. ObserverParts'
  BY <1>1, <1>3 DEF ObserverParts, PeerTypes, ObserversDistinct, life
<1>5. IF c = Daemon THEN dpc = "callback" ELSE running
  BY <1>1, InsideFacts
<1>6. CASE \E how \in {"ok", "error"} : Returned(c, how)
  <2>1. PICK how \in {"ok", "error"} : Returned(c, how)
    BY <1>6
  <2>2. /\ SerialParts'
        /\ pc' \in [Callers -> Steps] /\ msg' \in [Callers -> Messages]
        /\ ret' \in [Serials -> {"none", "ok", "error"}]
        /\ pc'[c] \in {"idle", "walk"}
        /\ \A e \in Callers : e # c => pc'[e] = pc[e]
    <3>1. UNCHANGED <<sent, kept, finals, cancelled, dnode, dpc, why, sendlist>>
      BY <1>1 DEF list, daemon
    <3>2. ListTypes /\ DaemonTypes
      BY DEF ListParts, DaemonParts
    <3> QED BY <1>1, <2>1, <3>1, <3>2, ReturnKeeps
  <2>3. CallTypes'
    BY <1>1, <2>2 DEF CallTypes
  <2>4. LifePart'
    BY <1>1, <1>5, <2>2, LifeKeeps DEF life, daemon
  <2> QED BY <1>2, <1>4, <2>2, <2>3, <2>4
<1>7. CASE pc' = [pc EXCEPT ![c] = "add"] /\ UNCHANGED <<ret, msg>>
  <2>1. pc' \in [Callers -> Steps] /\ pc'[c] = "add" /\ \A e \in Callers : e # c => pc'[e] = pc[e]
    BY <1>7 DEF CallTypes, Steps
  <2>2. CallTypes'
    BY <1>1, <1>7, <2>1 DEF CallTypes
  <2>3. LifePart'
    BY <1>1, <1>5, <2>1, LifeKeeps DEF life, daemon
  <2>4. SerialParts'
    <3>1. CallsQuiet
      BY <1>1, <1>7, <2>1 DEF CallsQuiet
    <3>2. DaemonQuiet /\ UNCHANGED history
      BY <1>1, <1>7 DEF DaemonQuiet, daemon, history
    <3>3. Shrinks
      BY <1>1, UnchangedShrinks DEF ListParts, list
    <3> QED BY <3>1, <3>2, <3>3, QuietKeeps DEF ListParts, DaemonParts
  <2> QED BY <1>2, <1>4, <2>2, <2>3, <2>4
<1> QED BY <1>6, <1>7 DEF CoAPMessage_send

LEMMA ListAddKeeps ==
  ASSUME IInv, NEW c \in Callers, CoAPMessageList_add(c)
  PROVE  IInv'
<1> USE IInvParts
<1>1. /\ pc[c] = "add" /\ pc[c] \in Sending
      /\ UNCHANGED <<message_id, sent, locks, daemon, life, kept, finals, cancelled, peers>>
  BY DEF CoAPMessageList_add, Sending
<1>2. DaemonParts' /\ ObserverParts'
  BY <1>1, ObserverFrame, DaemonFrame DEF peers
<1>3. IF c = Daemon THEN dpc = "callback" ELSE running
  BY <1>1, InsideFacts
<1>4. PICK how \in {"ok", "error"} :
        /\ Returned(c, how)
        /\ \/ UNCHANGED list
           \/ /\ how = "ok" /\ HasRoom /\ sendcount' = sendcount + 1
              /\ sendlist' = Append(sendlist, NodeOf(msg[c]))
  BY DEF CoAPMessageList_add
<1>5. /\ SerialParts'
      /\ pc' \in [Callers -> Steps] /\ msg' \in [Callers -> Messages]
      /\ ret' \in [Serials -> {"none", "ok", "error"}]
      /\ pc'[c] \in {"idle", "walk"}
      /\ \A e \in Callers : e # c => pc'[e] = pc[e]
      /\ sendlist' \in Seq(Nodes)
  <2>1. UNCHANGED <<sent, kept, finals, cancelled, dnode, dpc, why>>
    BY <1>1 DEF daemon
  <2>2. sendlist' = sendlist \/ (how = "ok" /\ sendlist' = Append(sendlist, NodeOf(msg[c])))
    BY <1>4 DEF list
  <2>3. ListTypes /\ DaemonTypes
    BY DEF ListParts, DaemonParts
  <2> QED BY <1>1, <1>4, <2>1, <2>2, <2>3, ReturnKeeps
<1>6. CallTypes'
  BY <1>1, <1>5 DEF CallTypes
<1>7. LifePart'
  BY <1>1, <1>3, <1>5, LifeKeeps DEF life, daemon
<1>8. ListParts'
  <2>1. CASE UNCHANGED list
    BY <1>1, <2>1, ListFrame DEF peers, life
  <2>2. CASE HasRoom /\ sendcount' = sendcount + 1 /\ sendlist' = Append(sendlist, NodeOf(msg[c]))
    <3>0. context = "up"
      BY <1>1, <1>3, CoapServerAssumption DEF LifePart, ObserverParts, PeerTypes
    <3>1. sendlist \in Seq(Nodes) /\ sendcount = Len(sendlist) /\ send_maxcount \in Nat
      BY <3>0, CoapServerAssumption DEF ListParts, ListTypes, SendListCounted
    <3>2. Len(sendlist') = Len(sendlist) + 1 /\ Len(sendlist) \in Nat
      BY <2>2, <3>1
    <3> QED BY <1>1, <1>5, <2>2, <3>1, <3>2
            DEF ListParts, ListTypes, SendListCounted, HasRoom, peers, life
  <2> QED BY <1>4, <2>1, <2>2
<1> QED BY <1>2, <1>5, <1>6, <1>7, <1>8

LEMMA CancelKeepsIInv ==
  ASSUME IInv, NEW c \in Callers, NEW id \in Ids, CoAPMessageId_cancel(c, id)
  PROVE  IInv'
<1> USE IInvParts
<1>1. /\ UNCHANGED <<locks, calls, dpc, why, dnode, req, life, kept, ret, finals, peers>>
      /\ context = "up" /\ (c = Daemon => dpc = "callback")
  BY DEF CoAPMessageId_cancel, MayCall
<1>2. /\ SerialParts' /\ HandlerNodeIsOwned'
      /\ sendlist' \in Seq(Nodes) /\ cancelled' \subseteq Serials
  BY CancelKeeps DEF ListParts, DaemonParts
<1>3. CallTypes'
  BY <1>1, <1>2 DEF CallTypes, calls
<1>4. ObserverParts'
  BY <1>1, ObserverFrame DEF peers
<1>5. PICK gone : gone = {n \in ToSet(sendlist) : n.id = id}
  OBVIOUS
<1>6. /\ sendlist' = Without(sendlist, gone)
      /\ sendcount' = sendcount - Cardinality({i \in 1 .. Len(sendlist) : sendlist[i] \in gone})
      /\ dlive' = (dlive /\ ~(why = "response" /\ dnode \in gone))
  BY <1>5 DEF CoAPMessageId_cancel
<1>7. ListParts'
  <2>1. sendlist \in Seq(Nodes) /\ sendcount = Len(sendlist) /\ send_maxcount \in Nat
        /\ Len(sendlist) \in Nat /\ Len(sendlist) <= send_maxcount /\ send_maxcount \in SendMax
    <3>1. sendlist \in Seq(Nodes) /\ sendcount = Len(sendlist) /\ Len(sendlist) <= send_maxcount
      BY <1>1 DEF ListParts, ListTypes, SendListCounted
    <3>2. send_maxcount \in SendMax /\ send_maxcount \in Nat
      BY CoapServerAssumption DEF ListParts, ListTypes
    <3> QED BY <3>1, <3>2
  <2>2. PICK n : n = Cardinality({i \in 1 .. Len(sendlist) : sendlist[i] \in gone})
    OBVIOUS
  <2>3. n \in Nat /\ Len(sendlist') = Len(sendlist) - n
    BY <1>6, <2>1, <2>2, WithoutLength
  <2>4. sendcount' = Len(sendlist') /\ Len(sendlist') \in Nat /\ Len(sendlist') <= send_maxcount
    BY <1>2, <1>6, <2>1, <2>2, <2>3
  <2> QED BY <1>1, <1>2, <2>1, <2>4 DEF ListParts, ListTypes, SendListCounted, peers
<1>8. DaemonParts'
  BY <1>1, <1>2, <1>6 DEF DaemonParts, DaemonTypes, locks
<1>9. LifePart'
  <2>1. dpc # "callback" => dlive'
    BY <1>1, <1>6 DEF LifePart, SerialParts, OnePlace
  <2> QED BY <1>1, <2>1 DEF LifePart, calls, life
<1> QED BY <1>2, <1>3, <1>4, <1>7, <1>8, <1>9

LEMMA NotifyKeeps ==
  ASSUME IInv, NEW c \in Callers, CoAPObsServer_notify(c)
  PROVE  IInv'
<1> USE IInvParts
<1>1. /\ pc[c] = "idle" /\ (IF c = Daemon THEN dpc = "callback" ELSE running)
      /\ obs_lock' = c /\ pc' = [pc EXCEPT ![c] = "walk"]
      /\ msg' = [msg EXCEPT ![c] = [NoMsg EXCEPT !.walk = 1]]
      /\ UNCHANGED <<send_lock, obsc_lock, list, message_id, sent, daemon, life, hist, peers>>
  BY DEF CoAPObsServer_notify, MayCall
<1>2. /\ pc' \in [Callers -> Steps] /\ pc'[c] = "walk"
      /\ \A e \in Callers : e # c => pc'[e] = pc[e] /\ msg'[e] = msg[e]
  BY <1>1 DEF CallTypes, Steps
<1>3. msg' \in [Callers -> Messages]
  <2>1. 1 \in 0 .. ObsMax + 1
    BY CoapServerAssumption
  <2>2. [NoMsg EXCEPT !.walk = 1] \in Messages
    BY <2>1, NoMsgFacts DEF Messages
  <2> QED BY <1>1, <2>2 DEF CallTypes
<1>4. CallTypes'
  BY <1>1, <1>2, <1>3 DEF CallTypes, hist
<1>5. ListParts' /\ ObserverParts'
  BY <1>1, ListFrame, ObserverFrame DEF peers, life
<1>6. DaemonParts'
  BY <1>1 DEF DaemonParts, DaemonTypes, HandlerNodeIsOwned, daemon
<1>7. LifePart'
  BY <1>1, <1>2, LifeKeeps DEF life, daemon
<1>8. SerialParts'
  <2>1. CallsQuiet
    BY <1>2 DEF CallsQuiet, Sending
  <2>2. DaemonQuiet /\ UNCHANGED history
    BY <1>1 DEF DaemonQuiet, daemon, history, hist
  <2>3. Shrinks
    BY <1>1, UnchangedShrinks DEF ListParts, list
  <2> QED BY <2>1, <2>2, <2>3, QuietKeeps DEF ListParts, DaemonParts
<1> QED BY <1>4, <1>5, <1>6, <1>7, <1>8

LEMMA NotifyNextKeeps ==
  ASSUME IInv, NEW c \in Callers, NotifyNext(c)
  PROVE  IInv'
<1> USE IInvParts
<1>0. PICK i : i = msg[c].walk
  OBVIOUS
<1>1. /\ pc[c] = "walk"
      /\ UNCHANGED <<send_lock, obsc_lock, list, daemon, life, hist, peers>>
  BY DEF NotifyNext
<1>2. ListParts' /\ ObserverParts'
  BY <1>1, ListFrame, ObserverFrame DEF peers, life
<1>3. IF c = Daemon THEN dpc = "callback" ELSE running
  BY <1>1, InsideFacts
<1>4. CASE i \in 1 .. Len(obsserver) /\ sent < MaxSends
  <2> DEFINE m == [NoMsg EXCEPT !.id = CoAPMessageId_gen, !.con = obsserver[i].con, !.kind = "notify",
                                !.remote = obsserver[i].remote, !.walk = i + 1]
  <2>1. BeginSend(c, m) /\ message_id' = IdAfter /\ obs_lock' = obs_lock
    BY <1>0, <1>4 DEF NotifyNext
  <2>2. /\ obsserver[i] \in Observers /\ i + 1 \in 0 .. ObsMax + 1
    <3>1. obsserver \in Seq(Observers) /\ Len(obsserver) \in Nat /\ Len(obsserver) <= ObsMax /\ ObsMax \in Nat
      BY CoapServerAssumption DEF ObserverParts, PeerTypes
    <3> QED BY <1>4, <3>1
  <2>3. CoAPMessageId_gen \in Ids /\ CoAPMessageId_gen \in 0 .. IdMax /\ IdAfter \in Ids
    BY IdFacts DEF Ids
  <2>4. m \in Messages /\ m.id \in Ids /\ m.serial = 0 /\ m.token = 0 /\ m.keep = FALSE
    BY <2>2, <2>3, NoMsgFacts DEF Messages, Observers
  <2> HIDE DEF m
  <2>5. /\ SerialParts'
        /\ sent' \in 0 .. MaxSends /\ kept' \subseteq 1 .. sent'
        /\ pc' \in [Callers -> Steps] /\ msg' \in [Callers -> Messages]
        /\ pc'[c] = "send" /\ \A e \in Callers : e # c => pc'[e] = pc[e]
    <3>1. pc[c] \notin Sending /\ UNCHANGED <<kept, ret, finals, cancelled, sendlist, dnode, dpc, why>>
      BY <1>1 DEF Sending, list, daemon, hist
    <3>2. ListTypes /\ DaemonTypes
      BY DEF ListParts, DaemonParts
    <3> QED BY <2>1, <2>4, <3>1, <3>2, BeginKeeps
  <2>6. CallTypes'
    BY <1>1, <2>1, <2>3, <2>5 DEF CallTypes, hist
  <2>7. LifePart'
    BY <1>1, <1>3, <2>5, LifeKeeps DEF life, daemon
  <2> QED BY <1>1, <1>2, <2>1, <2>5, <2>6, <2>7, DaemonFrame DEF locks
<1>5. CASE ~(i \in 1 .. Len(obsserver) /\ sent < MaxSends)
  <2>1. /\ pc' = [pc EXCEPT ![c] = "idle"] /\ msg' = [msg EXCEPT ![c] = NoMsg]
        /\ obs_lock' = NoThread /\ UNCHANGED <<message_id, sent>>
    BY <1>0, <1>5 DEF NotifyNext
  <2>2. /\ pc' \in [Callers -> Steps] /\ pc'[c] = "idle"
        /\ \A e \in Callers : e # c => pc'[e] = pc[e] /\ msg'[e] = msg[e]
    BY <2>1 DEF CallTypes, Steps
  <2>3. msg' \in [Callers -> Messages]
    BY <2>1, NoMsgFacts DEF CallTypes
  <2>4. CallTypes'
    BY <1>1, <2>1, <2>2, <2>3 DEF CallTypes, hist
  <2>5. DaemonParts'
    BY <1>1, <2>1 DEF DaemonParts, DaemonTypes, HandlerNodeIsOwned, daemon
  <2>6. LifePart'
    BY <1>1, <2>2, LifeKeeps DEF life, daemon
  <2>7. SerialParts'
    <3>1. CallsQuiet
      BY <2>2 DEF CallsQuiet, Sending
    <3>2. DaemonQuiet /\ UNCHANGED history
      BY <1>1, <2>1 DEF DaemonQuiet, daemon, history, hist
    <3>3. Shrinks
      BY <1>1, UnchangedShrinks DEF ListParts, list
    <3> QED BY <3>1, <3>2, <3>3, QuietKeeps DEF ListParts, DaemonParts
  <2> QED BY <1>2, <2>4, <2>5, <2>6, <2>7
<1> QED BY <1>4, <1>5

(* A step of the daemon that touches neither the list nor a call.          *)
LEMMA DaemonMoves ==
  ASSUME IInv, UNCHANGED <<list, calls, hist, send_maxcount, context, running>>,
         DaemonQuiet, DaemonTypes', dlive' \in {dlive, TRUE}, dnode' = dnode \/ dlive',
         ObserverParts', semaphore' > 0 => dpc' = "left", context = "freed" => dpc' = "left",
         dpc' # "callback" => pc[Daemon] = "idle" /\ dlive'
  PROVE  IInv'
<1> USE IInvParts
<1>1. CallTypes' /\ ListParts'
  BY ListFrame, CallFrame
<1>2. LifePart'
  BY DEF LifePart, calls
<1>3. DaemonParts'
  BY DEF DaemonParts, HandlerNodeIsOwned
<1>4. SerialParts'
  <2>1. CallsQuiet /\ UNCHANGED history
    BY DEF CallsQuiet, calls, history, hist
  <2>2. Shrinks
    BY UnchangedShrinks DEF ListParts, list
  <2> QED BY <2>1, <2>2, QuietKeeps DEF ListParts, DaemonParts
<1> QED BY <1>1, <1>2, <1>3, <1>4

(* The daemon is outside the callbacks, where it is in no call.            *)
LEMMA OutsideFacts ==
  ASSUME IInv, dpc \notin {"callback", "left"}
  PROVE  pc[Daemon] = "idle" /\ dlive /\ dlive = TRUE /\ context = "up" /\ ~(semaphore > 0) /\ why # "response"
<1>1. dlive \in BOOLEAN /\ context \in {"up", "freed"} /\ dlive
  BY DEF IInv, DaemonTypes, PeerTypes, LifePart
<1> QED BY <1>1 DEF IInv, LifePart, OnePlace

LEMMA TopKeeps == ASSUME IInv, TopOfLoop PROVE IInv'
<1> USE IInvParts
<1>1. /\ dpc = "top" /\ dpc' \in {"read", "left"}
      /\ IF running THEN dpc' = "read" /\ semaphore' = semaphore ELSE dpc' = "left" /\ semaphore' = semaphore + 1
      /\ UNCHANGED <<why, dnode, dlive, req, running, context, locks, list, calls, hist, peers>>
  BY DEF TopOfLoop
<1>2. pc[Daemon] = "idle" /\ dlive /\ dlive = TRUE /\ context = "up" /\ ~(semaphore > 0)
  BY <1>1, OutsideFacts
<1>3. DaemonQuiet /\ DaemonTypes'
  BY <1>1 DEF DaemonQuiet, DaemonParts, DaemonTypes, locks, SerialParts, OnePlace
<1>4. ObserverParts'
  BY <1>1 DEF ObserverParts, PeerTypes, ObserversDistinct, peers
<1> QED BY <1>1, <1>2, <1>3, <1>4, DaemonMoves DEF peers

LEMMA RequestKeeps == ASSUME IInv, NEW q \in Requests, CoAPRequestMessage_handle(q) PROVE IInv'
<1> USE IInvParts
<1>1. /\ dpc = "read" /\ dpc' = "callback" /\ why' = "request" /\ req' = q
      /\ UNCHANGED <<dnode, dlive, locks, list, calls, life, hist, peers>>
  BY DEF CoAPRequestMessage_handle
<1>2. context = "up" /\ ~(semaphore > 0)
  BY <1>1, OutsideFacts
<1>3. DaemonQuiet /\ DaemonTypes'
  BY <1>1 DEF DaemonQuiet, DaemonParts, DaemonTypes, locks
<1> QED BY <1>1, <1>2, <1>3, DaemonMoves, ObserverFrame DEF peers, life

LEMMA NothingKeeps == ASSUME IInv, NothingToRead PROVE IInv'
<1> USE IInvParts
<1>1. /\ dpc = "read" /\ dpc' = "retransmit"
      /\ UNCHANGED <<why, dnode, dlive, req, locks, list, calls, life, hist, peers>>
  BY DEF NothingToRead
<1>2. pc[Daemon] = "idle" /\ dlive /\ context = "up" /\ ~(semaphore > 0) /\ why # "response"
  BY <1>1, OutsideFacts
<1>3. DaemonQuiet /\ DaemonTypes'
  BY <1>1, <1>2 DEF DaemonQuiet, DaemonParts, DaemonTypes, locks
<1> QED BY <1>1, <1>2, <1>3, DaemonMoves, ObserverFrame DEF peers, life

LEMMA CallbackKeeps == ASSUME IInv, CallbackReturns PROVE IInv'
<1> USE IInvParts
<1>1. /\ dpc = "callback" /\ pc[Daemon] = "idle" /\ dpc' \in {"check", "read"}
      /\ why' = "none" /\ dnode' = NoNode /\ dlive' = TRUE /\ req' = NoReq
      /\ send_lock' \in {NoThread, send_lock} /\ obsc_lock' \in {NoThread, obsc_lock}
      /\ UNCHANGED <<obs_lock, list, calls, life, hist, peers>>
  BY DEF CallbackReturns
<1>2. context = "up" /\ ~(semaphore > 0)
  BY <1>1 DEF LifePart, ObserverParts, PeerTypes
<1>3. DaemonQuiet /\ DaemonTypes'
  BY <1>1, NoNodeFacts DEF DaemonQuiet, DaemonParts, DaemonTypes
<1> QED BY <1>1, <1>2, <1>3, DaemonMoves, ObserverFrame DEF peers, life

LEMMA NotificationKeeps ==
  ASSUME IInv, NEW t \in Serials, NEW o \in BOOLEAN, NotificationReceived(t, o) PROVE IInv'
<1> USE IInvParts
<1>1. /\ dpc = "read" /\ obsclient' = CoAPObsClient_add(t, o, FALSE)
      /\ \/ dpc' = "callback" /\ why' = "observed" /\ obsc_lock' = Daemon
         \/ UNCHANGED <<dpc, why, obsc_lock>>
      /\ UNCHANGED <<dnode, dlive, req, send_lock, obs_lock, list, calls, life, hist, obsserver, written,
                     asked, send_maxcount>>
  BY DEF NotificationReceived
<1>2. pc[Daemon] = "idle" /\ dlive /\ context = "up" /\ ~(semaphore > 0) /\ why # "response"
  BY <1>1, OutsideFacts
<1>3. DaemonQuiet /\ DaemonTypes'
  BY <1>1, <1>2 DEF DaemonQuiet, DaemonParts, DaemonTypes, Callers
<1>4. obsclient' \subseteq obsclient
  BY <1>1 DEF CoAPObsClient_add
<1>5. ObserverParts'
  BY <1>1, <1>4 DEF ObserverParts, PeerTypes, ObserversDistinct, life
<1> QED BY <1>1, <1>2, <1>3, <1>5, DaemonMoves DEF life

(* A step that changes the nodes' timers or flags, or unlinks a response.  *)
LEMMA ListMoves ==
  ASSUME IInv, context = "up", UNCHANGED <<calls, hist, life, peers>>,
         sendlist' \in Seq(Nodes), Shrinks, sendcount' = Len(sendlist'), Len(sendlist') <= Len(sendlist),
         DaemonQuiet, DaemonTypes', UNCHANGED <<dnode, dlive>>,
         dpc = "callback" => dpc' = "callback", dpc' = "left" <=> dpc = "left"
  PROVE  IInv'
<1> USE IInvParts
<1>1. CallTypes' /\ ObserverParts'
  BY CallFrame, ObserverFrame DEF peers
<1>2. ListParts'
  <2>1. Len(sendlist') \in Nat /\ Len(sendlist) \in Nat /\ Len(sendlist) <= send_maxcount
        /\ send_maxcount \in SendMax
    BY DEF ListParts, ListTypes
  <2>2. send_maxcount \in Nat
    BY <2>1, CoapServerAssumption
  <2> QED BY <2>1, <2>2 DEF ListParts, ListTypes, SendListCounted, peers
<1>3. LifePart'
  BY DEF LifePart, calls, life
<1>4. DaemonParts'
  BY DEF DaemonParts, HandlerNodeIsOwned
<1>5. SerialParts'
  <2>1. CallsQuiet /\ UNCHANGED history
    BY DEF CallsQuiet, calls, history, hist
  <2> QED BY <2>1, QuietKeeps DEF ListParts, DaemonParts
<1> QED BY <1>1, <1>2, <1>3, <1>4, <1>5

(* A flag of a node does not make it another message.                      *)
LEMMA FlagFacts ==
  ASSUME NEW n \in Nodes
  PROVE  /\ [n EXCEPT !.acked = TRUE] \in Nodes /\ Same([n EXCEPT !.acked = TRUE], n)
         /\ [n EXCEPT !.due = TRUE] \in Nodes /\ Same([n EXCEPT !.due = TRUE], n)
<1>1. [n EXCEPT !.acked = TRUE] \in Nodes /\ [n EXCEPT !.due = TRUE] \in Nodes
  BY DEF Nodes
<1> QED BY <1>1 DEF Nodes, Same

LEMMA FlagShrinks ==
  ASSUME ListTypes, NEW i \in 1 .. Len(sendlist), NEW n \in Nodes, Same(n, sendlist[i]),
         sendlist' = [sendlist EXCEPT ![i] = n]
  PROVE  sendlist' \in Seq(Nodes) /\ Len(sendlist') = Len(sendlist) /\ Shrinks
<1>1. sendlist \in Seq(Nodes) /\ Len(sendlist) \in Nat
  BY DEF ListTypes
<1>2. sendlist' \in Seq(Nodes) /\ Len(sendlist') = Len(sendlist)
      /\ \A j \in 1 .. Len(sendlist) : sendlist'[j] = IF j = i THEN n ELSE sendlist[j]
  BY <1>1
<1>3. \A j \in 1 .. Len(sendlist) : Same(sendlist'[j], sendlist[j])
  BY <1>2 DEF Same
<1> QED BY <1>2, <1>3, StaysShrinks

(* The acknowledgement of a response is the outcome of its handler.        *)
LEMMA AckOutcome ==
  ASSUME CallTypes, ListTypes, DaemonTypes, SerialParts, dpc = "read", why # "response",
         NEW i \in 1 .. Len(sendlist), sendlist[i].resp, sendlist[i].serial # 0,
         sendlist' = RemoveAt(sendlist, i), Called(sendlist[i].serial),
         dpc' = "callback", why' = "ack", UNCHANGED <<dnode, sent, kept, ret, cancelled, pc, msg>>
  PROVE  SerialParts' /\ finals' \in [Serials -> 0 .. 2]
<1> USE DEF SerialParts
<1>0. PICK r : r = sendlist[i].serial
  OBVIOUS
<1>1. NodeOK(sendlist[i]) /\ r \in Serials /\ r # 0 /\ r <= sent /\ r \notin kept /\ InList(r)
  <2>1. sendlist[i] \in Nodes /\ NodeOK(sendlist[i])
    BY DEF ListTypes, KindPart
  <2>2. r \in Serials
    BY <1>0, <2>1 DEF Nodes
  <2> QED BY <1>0, <2>1, <2>2 DEF NodeOK, InList
<1>2. r \in 1 .. MaxSends /\ 1 .. MaxSends \subseteq Serials /\ dnode.serial \in Serials
  BY <1>1, CoapServerAssumption DEF Serials, DaemonTypes, Nodes
<1>3. Shrinks /\ \A j \in 1 .. Len(sendlist') :
         \E k \in 1 .. Len(sendlist) : k # i /\ sendlist'[j] = sendlist[k]
  BY RemoveAtShrinks
<1>4. /\ (\A j \in 1 .. Len(sendlist) : NodeOK(sendlist[j]))'
      /\ \A j, k \in 1 .. Len(sendlist') :
            sendlist'[j].serial = sendlist'[k].serial /\ sendlist'[j].serial # 0 => j = k
      /\ \A s \in Serials : InList(s)' => InList(s)
  BY <1>3, ShrinkFacts
<1>5. \A s : InCall(s)' <=> InCall(s)
  BY DEF InCall
<1>6. ~(InList(r)')
  BY <1>0, <1>1, <1>3 DEF OnePlace, InList
<1>7. Pending(r) /\ ~InCall(r)
  BY <1>1, <1>2 DEF OnePlace, OutcomePart
<1>8. OutcomePart' /\ OneOutcome'
  <2>1. Called(r)
    BY <1>0
  <2> QED BY <1>1, <1>4, <1>5, <1>6, <1>7, <2>1, OutcomeKeeps
<1>9. KindPart'
  <2>1. NodeOK(dnode)' /\ (\A e \in Callers : pc[e] \in Sending => MessageOK(msg[e]))'
    BY DEF KindPart, NodeOK, MessageOK
  <2> QED BY <1>4, <2>1 DEF KindPart
<1>10. OnePlace'
  <2>1. (\A s \in 1 .. MaxSends : InList(s) => ~InCall(s))'
    <3> SUFFICES ASSUME NEW s \in 1 .. MaxSends, InList(s)' PROVE ~(InCall(s)')
      OBVIOUS
    <3> QED BY <1>2, <1>4, <1>5 DEF OnePlace
  <2>2. ~(InHand')
    BY DEF InHand
  <2>3. (\A d, e \in Callers :
          /\ d # e /\ pc[d] \in Sending /\ pc[e] \in Sending /\ msg[d].serial # 0
          => msg[d].serial # msg[e].serial)'
    BY DEF OnePlace
  <2> QED BY <1>4, <2>1, <2>2, <2>3 DEF OnePlace
<1> QED BY <1>0, <1>1, <1>8, <1>9, <1>10, CalledFacts

LEMMA AckKeeps == ASSUME IInv, NEW id \in Ids, CoAPAckMessage_handle(id) PROVE IInv'
<1> USE IInvParts
<1>0. PICK i : i = Named(id)
  OBVIOUS
<1>1. i \in 1 .. Len(sendlist)
  BY <1>0, NamedFacts DEF CoAPAckMessage_handle, ListParts
<1>2. /\ dpc = "read"
      /\ \/ sendlist' = RemoveAt(sendlist, i) /\ sendcount' = sendcount - 1 /\ sendlist[i].resp
         \/ sendlist' = [sendlist EXCEPT ![i].acked = TRUE] /\ sendcount' = sendcount
      /\ \/ dpc' = "callback" /\ why' = "ack" /\ send_lock' = Daemon
         \/ UNCHANGED <<dpc, why, send_lock>>
      /\ UNCHANGED <<dnode, dlive, req, obs_lock, obsc_lock, calls, life, kept, ret, cancelled, peers>>
  BY <1>0 DEF CoAPAckMessage_handle
<1>3. dlive /\ context = "up" /\ why # "response" /\ ~(semaphore > 0)
  BY <1>2, OutsideFacts
<1>4. DaemonQuiet /\ DaemonTypes'
  BY <1>2, <1>3 DEF DaemonQuiet, DaemonParts, DaemonTypes, Callers
<1>5. sendlist \in Seq(Nodes) /\ sendcount = Len(sendlist) /\ Len(sendlist) \in Nat
  BY <1>3 DEF ListParts, ListTypes, SendListCounted
<1>6. /\ sendlist' \in Seq(Nodes) /\ Shrinks /\ sendcount' = Len(sendlist')
      /\ Len(sendlist') <= Len(sendlist)
  <2>1. CASE sendlist' = RemoveAt(sendlist, i) /\ sendcount' = sendcount - 1
    BY <1>1, <1>5, <2>1, RemoveAtShrinks DEF ListParts
  <2>2. CASE sendlist' = [sendlist EXCEPT ![i].acked = TRUE] /\ sendcount' = sendcount
    <3>1. sendlist[i] \in Nodes
      BY <1>1, <1>5
    <3>2. sendlist' = [sendlist EXCEPT ![i] = [sendlist[i] EXCEPT !.acked = TRUE]]
      BY <2>2
    <3>3. sendlist' \in Seq(Nodes) /\ Len(sendlist') = Len(sendlist) /\ Shrinks
      BY <1>1, <3>1, <3>2, FlagFacts, FlagShrinks DEF ListParts
    <3> QED BY <1>5, <2>2, <3>3
  <2> QED BY <1>2, <2>1, <2>2
<1>7. CASE ~(sendlist[i].serial # 0 /\ sendlist[i].resp)
  <2>1. UNCHANGED finals
    BY <1>0, <1>7 DEF CoAPAckMessage_handle
  <2> QED BY <1>2, <1>3, <1>4, <1>6, <2>1, ListMoves DEF hist
<1>8. CASE sendlist[i].serial # 0 /\ sendlist[i].resp
  <2>1. /\ dpc' = "callback" /\ why' = "ack" /\ Called(sendlist[i].serial)
        /\ sendlist' = RemoveAt(sendlist, i)
    BY <1>0, <1>8 DEF CoAPAckMessage_handle
  <2>2. UNCHANGED <<sent, kept, ret, cancelled, pc, msg, dnode>>
    BY <1>2 DEF calls
  <2>3. SerialParts' /\ finals' \in [Serials -> 0 .. 2]
    BY <1>1, <1>2, <1>3, <1>8, <2>1, <2>2, AckOutcome DEF ListParts, DaemonParts
  <2>4. CallTypes'
    BY <1>2, <2>3 DEF CallTypes, calls
  <2>5. ListParts'
    <3>1. Len(sendlist') \in Nat /\ Len(sendlist) <= send_maxcount /\ send_maxcount \in SendMax
      BY <1>6 DEF ListParts, ListTypes
    <3>2. send_maxcount \in Nat
      BY <3>1, CoapServerAssumption
    <3> QED BY <1>2, <1>5, <1>6, <3>1, <3>2 DEF ListParts, ListTypes, SendListCounted, peers
  <2>6. DaemonParts' /\ ObserverParts'
    BY <1>2, <1>4, ObserverFrame DEF DaemonParts, HandlerNodeIsOwned, peers
  <2>7. LifePart'
    BY <1>2, <1>3, <2>1 DEF LifePart, calls, life
  <2> QED BY <2>3, <2>4, <2>5, <2>6, <2>7
<1> QED BY <1>7, <1>8

LEMMA TimerKeeps ==
  ASSUME IInv, NEW i \in 1 .. Len(sendlist), TimerExpires(i) PROVE IInv'
<1> USE IInvParts
<1>1. /\ context = "up" /\ sendlist' = [sendlist EXCEPT ![i].due = TRUE]
      /\ UNCHANGED <<sendcount, locks, calls, daemon, life, hist, peers>>
  BY DEF TimerExpires
<1>2. sendlist \in Seq(Nodes) /\ sendcount = Len(sendlist) /\ Len(sendlist) \in Nat
  BY <1>1 DEF ListParts, ListTypes, SendListCounted
<1>3. sendlist[i] \in Nodes
  BY <1>2
<1>4. sendlist' = [sendlist EXCEPT ![i] = [sendlist[i] EXCEPT !.due = TRUE]]
  BY <1>1
<1>5. sendlist' \in Seq(Nodes) /\ Len(sendlist') = Len(sendlist) /\ Shrinks
  BY <1>3, <1>4, FlagFacts, FlagShrinks DEF ListParts
<1>7. DaemonQuiet /\ DaemonTypes'
  BY <1>1 DEF DaemonQuiet, DaemonParts, DaemonTypes, daemon, locks
<1>8. UNCHANGED <<dnode, dlive, dpc>>
  BY <1>1 DEF daemon
<1> QED BY <1>1, <1>2, <1>5, <1>7, <1>8, ListMoves

LEMMA RepeatedFacts ==
  ASSUME NEW n \in Nodes PROVE Repeated(n) \in Nodes /\ Same(Repeated(n), n)
<1>1. CASE n.due /\ n.retrans_count > 0
  <2>1. n.retrans_count - 1 \in 0 .. RetryMax
    BY <1>1, CoapServerAssumption DEF Nodes
  <2>2. Repeated(n) = [n EXCEPT !.retrans_count = n.retrans_count - 1, !.due = FALSE]
    BY <1>1 DEF Repeated
  <2> QED BY <2>1, <2>2 DEF Nodes, Same
<1>2. CASE ~(n.due /\ n.retrans_count > 0)
  BY <1>2 DEF Repeated, Same
<1> QED BY <1>1, <1>2

LEMMA RetansmitKeeps == ASSUME IInv, Retansmit PROVE IInv'
<1> USE IInvParts
<1>1. /\ dpc = "retransmit" /\ dpc' = "check"
      /\ sendlist' = [i \in 1 .. Len(sendlist) |-> Repeated(sendlist[i])]
      /\ UNCHANGED <<sendcount, why, dnode, dlive, req, locks, calls, life, hist, peers>>
  BY DEF Retansmit
<1>2. dlive /\ context = "up" /\ why # "response"
  BY <1>1, OutsideFacts
<1>3. sendlist \in Seq(Nodes) /\ sendcount = Len(sendlist) /\ Len(sendlist) \in Nat
  BY <1>2 DEF ListParts, ListTypes, SendListCounted
<1>4. \A i \in 1 .. Len(sendlist) : Repeated(sendlist[i]) \in Nodes /\ Same(Repeated(sendlist[i]), sendlist[i])
  BY <1>3, RepeatedFacts
<1>5. sendlist' \in Seq(Nodes) /\ Len(sendlist') = Len(sendlist)
      /\ \A j \in 1 .. Len(sendlist) : Same(sendlist'[j], sendlist[j])
  BY <1>1, <1>3, <1>4
<1>6. Shrinks
  BY <1>5, StaysShrinks DEF ListParts
<1>7. DaemonQuiet /\ DaemonTypes'
  BY <1>1, <1>2 DEF DaemonQuiet, DaemonParts, DaemonTypes, locks
<1> QED BY <1>1, <1>2, <1>3, <1>5, <1>6, <1>7, ListMoves

LEMMA RespKeepsIInv ==
  ASSUME IInv, NEW t \in Serials, NEW o \in BOOLEAN, CoAPRespMessage_handle(t, o)
  PROVE  IInv'
<1> USE IInvParts
<1>0. PICK i : i = Waiting(t)
  OBVIOUS
<1>1. i \in 1 .. Len(sendlist)
  BY <1>0, WaitingFacts DEF CoAPRespMessage_handle, ListParts
<1>2. /\ dpc = "read" /\ Unlink(i) /\ obsclient' = CoAPObsClient_add(t, o, TRUE)
      /\ dpc' = "callback" /\ dlive' = TRUE
      /\ UNCHANGED <<locks, calls, req, life, kept, ret, cancelled, obsserver, written, asked, send_maxcount>>
  BY <1>0 DEF CoAPRespMessage_handle
<1>3. context = "up" /\ ~(semaphore > 0)
  BY <1>2, OutsideFacts
<1>4. SerialParts' /\ finals' \in [Serials -> 0 .. 2] /\ dnode' \in Nodes
  BY RespKeeps DEF ListParts, DaemonParts, ObserverParts
<1>5. CallTypes'
  BY <1>2, <1>4 DEF CallTypes, calls
<1>6. ListParts'
  <2>1. sendlist \in Seq(Nodes) /\ sendcount = Len(sendlist) /\ Len(sendlist) \in Nat
        /\ Len(sendlist) <= send_maxcount /\ send_maxcount \in SendMax
    BY <1>3 DEF ListParts, ListTypes, SendListCounted
  <2>2. send_maxcount \in Nat
    BY <2>1, CoapServerAssumption
  <2>3. CASE sendlist[i].keep
    <3>1. UNCHANGED list
      BY <1>2, <2>3 DEF Unlink
    <3> QED BY <1>2, <3>1, ListFrame DEF life
  <2>4. CASE ~sendlist[i].keep
    <3>1. sendlist' = RemoveAt(sendlist, i) /\ sendcount' = sendcount - 1
      BY <1>2, <2>4 DEF Unlink
    <3>2. sendlist' \in Seq(Nodes) /\ Len(sendlist') = Len(sendlist) - 1
      BY <1>1, <3>1, RemoveAtShrinks DEF ListParts
    <3>3. sendcount' = Len(sendlist') /\ Len(sendlist') \in Nat /\ Len(sendlist') <= send_maxcount
      BY <2>1, <2>2, <3>1, <3>2
    <3> QED BY <1>2, <2>1, <2>2, <3>2, <3>3 DEF ListParts, ListTypes, SendListCounted
  <2> QED BY <2>3, <2>4
<1>7. DaemonParts'
  BY <1>2, <1>4 DEF DaemonParts, DaemonTypes, HandlerNodeIsOwned, locks
<1>8. ObserverParts'
  <2>1. obsclient' \subseteq Serials
    BY <1>2 DEF CoAPObsClient_add, ObserverParts, PeerTypes
  <2> QED BY <1>2, <2>1 DEF ObserverParts, PeerTypes, ObserversDistinct, life
<1>9. LifePart'
  BY <1>2, <1>3 DEF LifePart, calls, life
<1> QED BY <1>4, <1>5, <1>6, <1>7, <1>8, <1>9

LEMMA CheckTimeoutKeeps == ASSUME IInv, Check_timeout PROVE IInv'
<1> USE IInvParts
<1>1. /\ dpc = "check"
      /\ UNCHANGED <<why, dlive, req, obs_lock, obsc_lock, calls, life, hist, peers>>
  BY DEF Check_timeout
<1>2. pc[Daemon] = "idle" /\ dlive /\ context = "up" /\ ~(semaphore > 0) /\ why # "response"
  BY <1>1, OutsideFacts
<1>3. CASE SelectInSeq(sendlist, TimedOut) = 0
  <2>1. dpc' = "top" /\ UNCHANGED <<list, send_lock, dnode>>
    BY <1>3 DEF Check_timeout
  <2>2. DaemonQuiet /\ DaemonTypes'
    BY <1>1, <1>2, <2>1 DEF DaemonQuiet, DaemonParts, DaemonTypes
  <2> QED BY <1>1, <1>2, <2>1, <2>2, DaemonMoves, ObserverFrame DEF peers, life
<1>4. CASE SelectInSeq(sendlist, TimedOut) # 0
  <2>1. dpc' = "evict" /\ send_lock' = Daemon
    BY <1>4 DEF Check_timeout
  <2>2. /\ SerialParts' /\ dnode' \in Nodes
        /\ \E i \in 1 .. Len(sendlist) : sendlist' = RemoveAt(sendlist, i) /\ sendcount' = sendcount - 1
    BY <1>4, TimeoutKeeps DEF ListParts, DaemonParts
  <2>3. CallTypes' /\ ObserverParts'
    BY <1>1, CallFrame, ObserverFrame DEF peers
  <2>4. ListParts'
    <3>1. sendlist \in Seq(Nodes) /\ sendcount = Len(sendlist) /\ Len(sendlist) \in Nat
          /\ Len(sendlist) <= send_maxcount /\ send_maxcount \in SendMax
      BY <1>2 DEF ListParts, ListTypes, SendListCounted
    <3>2. send_maxcount \in Nat
      BY <3>1, CoapServerAssumption
    <3>3. /\ sendlist' \in Seq(Nodes) /\ Len(sendlist') = Len(sendlist) - 1
          /\ sendcount' = sendcount - 1
      BY <2>2, RemoveAtShrinks DEF ListParts
    <3>4. sendcount' = Len(sendlist') /\ Len(sendlist') \in Nat /\ Len(sendlist') <= send_maxcount
      BY <3>1, <3>2, <3>3
    <3> QED BY <1>1, <3>1, <3>2, <3>3, <3>4 DEF ListParts, ListTypes, SendListCounted, peers
  <2>5. DaemonParts'
    BY <1>1, <1>2, <2>1, <2>2 DEF DaemonParts, DaemonTypes, HandlerNodeIsOwned, Callers
  <2>6. LifePart'
    BY <1>1, <1>2, <2>1 DEF LifePart, calls, life
  <2> QED BY <2>2, <2>3, <2>4, <2>5, <2>6
<1> QED BY <1>3, <1>4

LEMMA EvictKeepsIInv == ASSUME IInv, EvictObservers PROVE IInv'
<1> USE IInvParts
<1>1. /\ dpc = "evict" /\ dpc' \in {"callback", "check"}
      /\ obsserver' = Without(obsserver, {o \in ToSet(obsserver) : o.remote = dnode.remote})
      /\ send_lock' = NoThread
      /\ UNCHANGED <<dlive, req, obs_lock, obsc_lock, list, calls, life, kept, ret, cancelled, obsclient,
                     written, asked, send_maxcount>>
  BY DEF EvictObservers
<1>2. pc[Daemon] = "idle" /\ dlive /\ context = "up" /\ ~(semaphore > 0)
  BY <1>1, OutsideFacts
<1>3. SerialParts' /\ finals' \in [Serials -> 0 .. 2] /\ dnode' \in Nodes
  BY EvictKeeps DEF ListParts, DaemonParts
<1>4. CallTypes' /\ ListParts'
  BY <1>1, <1>3, ListFrame DEF CallTypes, calls, life
<1>5. DaemonParts'
  BY <1>1, <1>2, <1>3 DEF DaemonParts, DaemonTypes, HandlerNodeIsOwned
<1>6. LifePart'
  BY <1>1, <1>2 DEF LifePart, calls, life
<1>7. ObserverParts'
  <2>0. PICK gone : gone = {o \in ToSet(obsserver) : o.remote = dnode.remote}
    OBVIOUS
  <2>1. obsserver \in Seq(Observers) /\ Len(obsserver) \in Nat /\ Len(obsserver) <= ObsMax /\ ObsMax \in Nat
    BY CoapServerAssumption DEF ObserverParts, PeerTypes
  <2>2. obsserver' = Without(obsserver, gone)
    BY <1>1, <2>0
  <2>3. obsserver' \in Seq(Observers) /\ Len(obsserver') <= ObsMax
    <3>1. PICK n : n = Cardinality({i \in 1 .. Len(obsserver) : obsserver[i] \in gone})
      OBVIOUS
    <3>2. n \in Nat /\ Len(obsserver') = Len(obsserver) - n
      BY <2>1, <2>2, <3>1, WithoutLength
    <3>3. obsserver' \in Seq(Observers)
      BY <2>1, <2>2, WithoutNumbers
    <3> QED BY <2>1, <3>2, <3>3
  <2>4. PICK f : Numbers(f, obsserver', obsserver, gone, Len(obsserver))
    BY <2>1, <2>2, WithoutNumbers
  <2>5. \A i, j \in 1 .. Len(obsserver') : obsserver'[i].remote = obsserver'[j].remote => i = j
    <3> SUFFICES ASSUME NEW i \in 1 .. Len(obsserver'), NEW j \in 1 .. Len(obsserver'),
                        obsserver'[i].remote = obsserver'[j].remote, i # j
                 PROVE  FALSE
      OBVIOUS
    <3>1. /\ f[i] \in 1 .. Len(obsserver) /\ f[j] \in 1 .. Len(obsserver)
          /\ obsserver'[i] = obsserver[f[i]] /\ obsserver'[j] = obsserver[f[j]]
      BY <2>4 DEF Numbers
    <3>2. f[i] = f[j]
      BY <3>1 DEF ObserverParts, ObserversDistinct
    <3>3. i < j \/ j < i
      BY <2>3
    <3>4. f[i] < f[j] \/ f[j] < f[i]
      BY <2>4, <3>3 DEF Numbers
    <3>5. f[i] \in Nat /\ f[j] \in Nat
      BY <2>1, <3>1
    <3> QED BY <3>2, <3>4, <3>5
  <2> QED BY <1>1, <2>3, <2>5 DEF ObserverParts, PeerTypes, ObserversDistinct, life
<1> QED BY <1>3, <1>4, <1>5, <1>6, <1>7

LEMMA StopKeeps == ASSUME IInv, NEW t \in Threads, StopDaemon(t) PROVE IInv'
<1> USE IInvParts
<1>1. /\ pc[t] = "idle" /\ context = "up" /\ (\A u \in Threads : pc[u] = "idle") /\ running /\ running' = FALSE
      /\ pc' = [pc EXCEPT ![t] = "stopping"]
      /\ UNCHANGED <<msg, message_id, sent, semaphore, context, locks, list, daemon, hist, peers>>
  BY DEF StopDaemon, MayCall
<1>2. t \in Callers /\ t # Daemon /\ Daemon \in Callers
  BY CoapServerAssumption DEF Callers
<1>3. pc' \in [Callers -> Steps] /\ pc'[t] = "stopping" /\ \A e \in Callers : e # t => pc'[e] = pc[e]
  BY <1>1, <1>2 DEF CallTypes, Steps
<1>4. CallTypes'
  BY <1>1, <1>3 DEF CallTypes, hist
<1>5. ListParts' /\ DaemonParts'
  BY <1>1, ListFrame, DaemonFrame DEF peers
<1>6. ObserverParts'
  BY <1>1 DEF ObserverParts, PeerTypes, ObserversDistinct, peers
<1>7. LifePart'
  <2>1. \A u \in Threads : u \in Callers
    BY DEF Callers
  <2> QED BY <1>1, <1>2, <1>3, <2>1 DEF LifePart, daemon
<1>8. SerialParts'
  <2>1. CallsQuiet /\ UNCHANGED history /\ DaemonQuiet
    BY <1>1, <1>3 DEF CallsQuiet, Sending, history, hist, DaemonQuiet, daemon
  <2>2. Shrinks
    BY <1>1, UnchangedShrinks DEF ListParts, list
  <2> QED BY <2>1, <2>2, QuietKeeps DEF ListParts, DaemonParts
<1> QED BY <1>4, <1>5, <1>6, <1>7, <1>8

LEMMA FreeKeeps == ASSUME IInv, NEW t \in Callers, CoAPContext_free(t) PROVE IInv'
<1> USE IInvParts
<1>1. /\ pc[t] = "stopping" /\ semaphore > 0
      /\ pc' = [pc EXCEPT ![t] = "idle"] /\ semaphore' = 0 /\ context' = "freed"
      /\ sendlist' = <<>> /\ obsserver' = <<>> /\ obsclient' = {}
      /\ UNCHANGED <<msg, message_id, sent, running, sendcount, locks, daemon, hist, written, asked, send_maxcount>>
  BY DEF CoAPContext_free, DaemonStopped
<1>2. dpc = "left" /\ ~running /\ t \in Threads
  BY <1>1 DEF LifePart
<1>3. pc' \in [Callers -> Steps] /\ pc'[t] = "idle" /\ \A e \in Callers : e # t => pc'[e] = pc[e]
  BY <1>1 DEF CallTypes, Steps
<1>4. CallTypes'
  BY <1>1, <1>3 DEF CallTypes, hist
<1>5. DaemonParts'
  BY <1>1, DaemonFrame
<1>6. ListParts'
  <2>1. sendlist' \in Seq(Nodes) /\ Len(sendlist') = 0
    BY <1>1
  <2>2. send_maxcount \in Nat
    BY CoapServerAssumption DEF ListParts, ListTypes
  <2> QED BY <1>1, <2>1, <2>2 DEF ListParts, ListTypes, SendListCounted
<1>7. ObserverParts'
  <2>1. obsserver' \in Seq(Observers) /\ Len(obsserver') = 0 /\ ObsMax \in Nat
    BY <1>1, CoapServerAssumption
  <2> QED BY <1>1, <2>1 DEF ObserverParts, PeerTypes, ObserversDistinct
<1>8. LifePart'
  <2>1. Daemon \in Callers /\ \A u \in Threads : u \in Callers
    BY DEF Callers
  <2> QED BY <1>1, <1>2, <1>3, <2>1 DEF LifePart, daemon
<1>9. SerialParts'
  <2>1. CallsQuiet /\ UNCHANGED history /\ DaemonQuiet
    BY <1>1, <1>3 DEF CallsQuiet, Sending, history, hist, DaemonQuiet, daemon
  <2>2. Shrinks
    <3>1. Len(sendlist') = 0 /\ 1 .. Len(sendlist') = {}
      BY <1>1
    <3>2. [i \in {} |-> i] \in [{} -> 1 .. Len(sendlist)]
      OBVIOUS
    <3> QED BY <3>1, <3>2 DEF Shrinks
  <2> QED BY <2>1, <2>2, QuietKeeps DEF ListParts, DaemonParts
<1> QED BY <1>4, <1>5, <1>6, <1>7, <1>8, <1>9

LEMMA StutterKeeps == ASSUME IInv, UNCHANGED vars PROVE IInv'
<1> USE IInvParts
<1>1. UNCHANGED <<locks, list, calls, daemon, life, hist, peers>>
  BY DEF vars
<1>2. CallTypes' /\ ListParts' /\ DaemonParts' /\ ObserverParts'
  BY <1>1, CallFrame, ListFrame, DaemonFrame, ObserverFrame DEF peers, life
<1>3. LifePart'
  BY <1>1 DEF LifePart, calls, daemon, life
<1>4. SerialParts'
  <2>1. CallsQuiet /\ UNCHANGED history /\ DaemonQuiet
    BY <1>1 DEF CallsQuiet, calls, history, hist, DaemonQuiet, daemon, SerialParts, OnePlace
  <2>2. Shrinks
    BY <1>1, UnchangedShrinks DEF ListParts, list
  <2> QED BY <2>1, <2>2, QuietKeeps DEF ListParts, DaemonParts
<1> QED BY <1>2, <1>3, <1>4

(* The invariant is inductive.                                             *)
THEOREM Inductive == Spec => []IInv
<1>1. Init => IInv
  BY InitIInv
<1>2. IInv /\ [Next]_vars => IInv'
  <2> SUFFICES ASSUME IInv, [Next]_vars PROVE IInv'
    OBVIOUS
  <2>1. CASE \E c \in Callers, k \in Kinds, r \in Remotes : SendRequest(c, k, r)
    BY <2>1, SendRequestKeeps
  <2>2. CASE \E qos, handler \in BOOLEAN : CoAPServerResp_send(qos, handler)
    BY <2>2, RespSendKeeps
  <2>3. CASE \E c \in Callers, id \in Ids : CoAPMessageId_cancel(c, id)
    BY <2>3, CancelKeepsIInv
  <2>4. CASE \E c \in Callers : CoAPObsServer_notify(c) \/ CallerStep(c)
    BY <2>4, NotifyKeeps, MessageSendKeeps, ListAddKeeps, NotifyNextKeeps, FreeKeeps DEF CallerStep
  <2>5. CASE DaemonHandles
    BY <2>5, AckKeeps, RespKeepsIInv, NotificationKeeps, RequestKeeps DEF DaemonHandles
  <2>6. CASE NothingToRead \/ DaemonStep
    BY <2>6, NothingKeeps, TopKeeps, CallbackKeeps, RetansmitKeeps, CheckTimeoutKeeps, EvictKeepsIInv
       DEF DaemonStep
  <2>7. CASE \E i \in 1 .. Len(sendlist) : TimerExpires(i)
    BY <2>7, TimerKeeps
  <2>8. CASE \E t \in Threads : StopDaemon(t)
    BY <2>8, StopKeeps
  <2>9. CASE UNCHANGED vars
    BY <2>9, StutterKeeps
  <2> QED BY <2>1, <2>2, <2>3, <2>4, <2>5, <2>6, <2>7, <2>8, <2>9 DEF Next
<1> QED BY <1>1, <1>2, PTL DEF Spec

-----------------------------------------------------------------------------
(* The mutexes                                                             *)

(* Over more than one step, sendlist.list_mutex and obsclient.list_mutex   *)
(* are held by the daemon only, obsserver.list_mutex by a caller that      *)
(* walks the observers.                                                    *)
Notifies(c) ==
    /\ pc[c] \in {"walk", "send", "add"} /\ msg[c].walk > 0
    /\ pc[c] = "send" => msg[c].kind # "unobserve"
LockPart ==
    /\ send_lock \in {NoThread, Daemon} /\ obsc_lock \in {NoThread, Daemon}
    /\ \A c \in Callers : c = obs_lock => Notifies(c)

(* A walk begins in the daemon or in a thread that is in no other call.    *)
LEMMA LockStep == IInv /\ LockPart /\ [Next]_vars => LockPart'
<1> SUFFICES ASSUME IInv, LockPart, [Next]_vars PROVE LockPart'
  OBVIOUS
<1>1. /\ pc \in [Callers -> Steps] /\ msg \in [Callers -> Messages]
      /\ \A c \in Callers : msg[c].walk \in Nat
  BY CoapServerAssumption DEF IInv, CallTypes, Messages
<1>2. NoThread \notin Callers /\ Daemon \in Callers
  BY CoapServerAssumption DEF Callers
<1>3. ASSUME NEW c \in Callers, c # obs_lock, obs_lock' = obs_lock,
             UNCHANGED <<send_lock, obsc_lock>>,
             \A e \in Callers : e # c => pc'[e] = pc[e] /\ msg'[e] = msg[e]
      PROVE  LockPart'
  BY <1>3 DEF LockPart, Notifies
<1>4. \A c \in Callers : pc[c] \in {"idle", "stopping"} => c # obs_lock
  BY DEF LockPart, Notifies
<1>5. CASE UNCHANGED <<pc, msg, obs_lock>>
           /\ send_lock' \in {send_lock, NoThread, Daemon} /\ obsc_lock' \in {obsc_lock, NoThread, Daemon}
  BY <1>5 DEF LockPart, Notifies
<1>6. ASSUME NEW c \in Callers, NEW k \in Kinds, NEW r \in Remotes, SendRequest(c, k, r)
      PROVE  LockPart'
  <2>1. pc[c] = "idle" /\ UNCHANGED locks
        /\ \A e \in Callers : e # c => pc'[e] = pc[e] /\ msg'[e] = msg[e]
    BY <1>1, <1>6 DEF SendRequest, MayCall, BeginSend
  <2> QED BY <1>3, <1>4, <2>1 DEF locks
<1>7. ASSUME NEW qos \in BOOLEAN, NEW handler \in BOOLEAN, CoAPServerResp_send(qos, handler)
      PROVE  LockPart'
  <2>1. pc[Daemon] = "idle" /\ UNCHANGED locks
        /\ \A e \in Callers : e # Daemon => pc'[e] = pc[e] /\ msg'[e] = msg[e]
    BY <1>1, <1>7 DEF CoAPServerResp_send, MayCall, BeginSend
  <2> QED BY <1>2, <1>3, <1>4, <2>1 DEF locks
<1>8. ASSUME NEW c \in Callers, CoAPObsServer_notify(c) PROVE LockPart'
  <2>1. obs_lock' = c /\ UNCHANGED <<send_lock, obsc_lock>>
    BY <1>8 DEF CoAPObsServer_notify
  <2>2. pc'[c] = "walk" /\ msg'[c].walk = 1
    BY <1>1, <1>8 DEF CoAPObsServer_notify, NoMsg
  <2> QED BY <2>1, <2>2 DEF LockPart, Notifies
<1>9. ASSUME NEW c \in Callers, c = obs_lock, obs_lock' = obs_lock, Notifies(c)',
             UNCHANGED <<send_lock, obsc_lock>>
      PROVE  LockPart'
  BY <1>9 DEF LockPart
<1>10. ASSUME NEW c \in Callers, NEW how, Returned(c, how), UNCHANGED locks PROVE LockPart'
  <2>1. /\ \A e \in Callers : e # c => pc'[e] = pc[e] /\ msg'[e] = msg[e]
        /\ pc'[c] = Back(c) /\ msg'[c].walk = msg[c].walk
    BY <1>1, <1>10 DEF Returned, NoMsg
  <2>2. CASE c # obs_lock
    BY <1>3, <1>10, <2>1, <2>2 DEF locks
  <2>3. CASE c = obs_lock
    <3>1. Notifies(c)'
      BY <2>1, <2>3 DEF LockPart, Notifies, Back
    <3> QED BY <1>9, <1>10, <2>3, <3>1 DEF locks
  <2> QED BY <2>2, <2>3
<1>11. ASSUME NEW c \in Callers, CoAPMessage_send(c) PROVE LockPart'
  <2>1. UNCHANGED locks
    BY <1>11 DEF CoAPMessage_send
  <2>2. CASE \E how \in {"ok", "error"} : Returned(c, how)
    BY <1>10, <2>1, <2>2
  <2>3. CASE pc' = [pc EXCEPT ![c] = "add"] /\ UNCHANGED msg
    <3>1. pc'[c] = "add" /\ \A e \in Callers : e # c => pc'[e] = pc[e]
      BY <1>1, <2>3
    <3>2. CASE c # obs_lock
      BY <1>3, <2>1, <2>3, <3>1, <3>2 DEF locks
    <3>3. CASE c = obs_lock
      <4>1. Notifies(c)'
        BY <2>3, <3>1, <3>3 DEF LockPart, Notifies
      <4> QED BY <1>9, <2>1, <3>3, <4>1 DEF locks
    <3> QED BY <3>2, <3>3
  <2> QED BY <1>11, <2>2, <2>3 DEF CoAPMessage_send
<1>12. ASSUME NEW c \in Callers, CoAPMessageList_add(c) PROVE LockPart'
  BY <1>10, <1>12 DEF CoAPMessageList_add
<1>13. ASSUME NEW c \in Callers, NotifyNext(c) PROVE LockPart'
  <2>0. UNCHANGED <<send_lock, obsc_lock>>
    BY <1>13 DEF NotifyNext
  <2>1. CASE obs_lock' = NoThread
    BY <1>2, <2>0, <2>1 DEF LockPart
  <2>2. CASE obs_lock' = obs_lock /\ msg[c].walk \in 1 .. Len(obsserver)
             /\ BeginSend(c, [NoMsg EXCEPT !.id = CoAPMessageId_gen, !.con = obsserver[msg[c].walk].con,
                                           !.kind = "notify", !.remote = obsserver[msg[c].walk].remote,
                                           !.walk = msg[c].walk + 1])
    <3>1. /\ pc'[c] = "send" /\ msg'[c].kind = "notify" /\ msg'[c].walk = msg[c].walk + 1
          /\ \A e \in Callers : e # c => pc'[e] = pc[e] /\ msg'[e] = msg[e]
      BY <1>1, <2>2 DEF BeginSend, NoMsg
    <3>2. CASE c # obs_lock
      BY <1>3, <2>0, <2>2, <3>1, <3>2
    <3>3. CASE c = obs_lock
      <4>1. msg'[c].walk > 0
        BY <1>1, <3>1
      <4>2. Notifies(c)'
        BY <3>1, <4>1 DEF Notifies
      <4> QED BY <1>9, <2>0, <2>2, <3>3, <4>2
    <3> QED BY <3>2, <3>3
  <2> QED BY <1>13, <2>1, <2>2 DEF NotifyNext
<1>14. ASSUME NEW c \in Callers, CoAPContext_free(c) PROVE LockPart'
  <2>1. pc[c] = "stopping" /\ UNCHANGED <<msg, locks>> /\ \A e \in Callers : e # c => pc'[e] = pc[e]
    BY <1>1, <1>14 DEF CoAPContext_free
  <2> QED BY <1>3, <1>4, <2>1 DEF locks
<1>15. ASSUME NEW t \in Threads, StopDaemon(t) PROVE LockPart'
  <2>1. /\ t \in Callers /\ pc[t] = "idle" /\ UNCHANGED <<msg, locks>>
        /\ \A e \in Callers : e # t => pc'[e] = pc[e]
    BY <1>1, <1>15 DEF StopDaemon, Callers
  <2> QED BY <1>3, <1>4, <2>1 DEF locks
<1>16. ASSUME NEW c \in Callers, NEW id \in Ids, CoAPMessageId_cancel(c, id) PROVE LockPart'
  BY <1>5, <1>16 DEF CoAPMessageId_cancel, locks, calls
<1>17. CASE DaemonHandles
  BY <1>5, <1>17 DEF DaemonHandles, CoAPAckMessage_handle, CoAPRespMessage_handle,
     NotificationReceived, CoAPRequestMessage_handle, locks, calls
<1>18. CASE NothingToRead \/ DaemonStep
  BY <1>5, <1>18 DEF NothingToRead, DaemonStep, TopOfLoop, CallbackReturns, Retansmit,
     Check_timeout, EvictObservers, locks, calls
<1>19. CASE (\E i \in 1 .. Len(sendlist) : TimerExpires(i)) \/ UNCHANGED vars
  BY <1>5, <1>19 DEF TimerExpires, vars, locks, calls
<1> QED BY <1>6, <1>7, <1>8, <1>11, <1>12, <1>13, <1>14, <1>15, <1>16, <1>17, <1>18, <1>19
        DEF Next, CallerStep

(* Who waits in a walk of the observers waits for the daemon.              *)
LEMMA WaitsEnd == ASSUME LockPart PROVE OnlyInversionBlocks
<1> SUFFICES ASSUME NEW c \in Callers, NEW d \in Callers, NEW e \in Callers, NEW x \in Callers,
                    WaitsFor(c, d), WaitsFor(d, e), WaitsFor(e, x)
             PROVE  Inversion
  BY DEF OnlyInversionBlocks
<1>1. NoThread \notin Callers /\ \A t \in Callers : t # Daemon => t \in Threads
  BY CoapServerAssumption DEF Callers
<1>2. ASSUME NEW t \in Callers, NEW u \in Callers, t # Daemon, t = obs_lock, WaitsFor(t, u)
      PROVE  Inversion
  <2>1. pc[t] = "add" /\ u = send_lock
    BY <1>2 DEF LockPart, Notifies, WaitsFor
  <2>2. send_lock = Daemon
    BY <1>1, <2>1 DEF LockPart
  <2> QED BY <1>1, <1>2, <2>1, <2>2 DEF Inversion
<1>3. \A t, u \in Callers : WaitsFor(t, u) => u = Daemon \/ u = obs_lock
  BY <1>1 DEF WaitsFor, LockPart
<1>4. CASE d = Daemon
  <2>1. e # Daemon /\ e = obs_lock
    BY <1>3, <1>4 DEF WaitsFor
  <2> QED BY <1>2, <2>1
<1>5. CASE d # Daemon
  <2>1. d = obs_lock
    BY <1>3, <1>5
  <2> QED BY <1>2, <1>5, <2>1
<1> QED BY <1>4, <1>5

(* CoAPObsServer_notify and Check_timeout apart, which take two mutexes in *)
(* opposite orders, the callers of the server never wait in a circle,      *)
(* however many threads call it and whatever the callbacks call.           *)
THEOREM WaitsAreOrdered == Spec => []OnlyInversionBlocks
<1>1. Init => LockPart
  BY CoapServerAssumption DEF Init, LockPart, Callers
<1>2. IInv /\ LockPart /\ [Next]_vars => LockPart'
  BY LockStep
<1>3. LockPart => OnlyInversionBlocks
  BY WaitsEnd
<1> QED BY <1>1, <1>2, <1>3, Inductive, PTL DEF Spec

(* The lists of the server are sound on every path that links, unlinks or  *)
(* frees a node: CoAPMessageList_add, the handlers of ACKs and responses,  *)
(* Check_timeout, the two cancellations, CoAPObsServer_add and             *)
(* CoapObsServerAll_delete.                                                *)
THEOREM CoapSafe == Spec => []CoapInv
<1>1. IInv /\ OnlyInversionBlocks => CoapInv
  <2>1. Serials \ {0} \subseteq Serials
    OBVIOUS
  <2> QED BY <2>1 DEF IInv, CoapInv, TypeOK, CallTypes, ListTypes, DaemonTypes, PeerTypes, Steps, Observers
<1> QED BY <1>1, Inductive, WaitsAreOrdered, PTL

(* The handler of a request or of a confirmable response is called at most *)
(* once with its outcome, and never when the call reported an error or the *)
(* message was cancelled.                                                  *)
THEOREM HandlerToldOnce == Spec => []OneOutcome
<1>1. IInv => OneOutcome
  BY DEF IInv
<1> QED BY <1>1, Inductive, PTL

(* CoAPServer_deinit frees the context only when the daemon has left it.   *)
THEOREM ContextSafe == Spec => []ContextOutlivesDaemon
<1>1. IInv => ContextOutlivesDaemon
  BY DEF IInv, LifePart, ContextOutlivesDaemon
<1> QED BY <1>1, Inductive, PTL
=============================================================================
