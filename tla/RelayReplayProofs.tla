-------------------------- MODULE RelayReplayProofs --------------------------
(***************************************************************************)
(* Theorems about the replay log of a relay session, for every number of   *)
(* peers, every queue and replay budget and every length of the log.       *)
(***************************************************************************)
EXTENDS RelayReplay, FiniteSetTheorems, TLAPS

(* What one message adds keeps the types and the size of a queue.          *)
LEMMA AppendUpdateType ==
  ASSUME TypeOK, NEW body \in AllBodies, AppendUpdate(body)
  PROVE  /\ nextSeq' \in 1..MaxSeq + 1
         /\ log' \in SUBSET Update
         /\ published' \in SUBSET Update
         /\ oldestLost' = oldestLost
         /\ queue' \in [Peers -> Seq(Message)]
         /\ \A p \in Peers : Len(queue'[p]) <= QueueCap
         /\ closing \subseteq closing' /\ closing' \subseteq live
<1> DEFINE u == [seq |-> nextSeq, body |-> body]
<1>1. nextSeq \in 1..MaxSeq /\ u \in Update
  BY BoundsAssumption DEF TypeOK, AppendUpdate, Update
<1>2. LiveUpdate(u) \in Message
  BY <1>1, BoundsAssumption DEF LiveUpdate, Message
<1>3. nextSeq' \in 1..MaxSeq + 1 /\ log' \in SUBSET Update
      /\ published' \in SUBSET Update /\ oldestLost' = oldestLost
  BY <1>1, BoundsAssumption DEF TypeOK, AppendUpdate
<1>4. FanOut(u)
  BY DEF AppendUpdate
<1>5. queue' \in [Peers -> Seq(Message)]
  BY <1>2, <1>4 DEF FanOut, TypeOK
<1>6. ASSUME NEW p \in Peers PROVE Len(queue'[p]) <= QueueCap
  BY <1>2, <1>4, BoundsAssumption DEF FanOut, TypeOK, Room
<1>7. closing \subseteq closing' /\ closing' \subseteq live
  BY <1>4 DEF FanOut, TypeOK
<1> QED
  BY <1>3, <1>5, <1>6, <1>7

(* Dropping one message of a sequence leaves a sequence, shorter by one,   *)
(* with all the other messages.                                            *)
LEMMA WithoutType ==
  ASSUME NEW S, NEW s \in Seq(S), NEW i \in 1..Len(s)
  PROVE  /\ Without(s, i) \in Seq(S)
         /\ Len(Without(s, i)) = Len(s) - 1
         /\ \A j \in 1..Len(s) : j # i =>
              \E k \in 1..Len(s) - 1 : Without(s, i)[k] = s[j]
<1> DEFINE t == Without(s, i)
<1>1. Len(s) \in Nat /\ Len(s) - 1 \in Nat
  OBVIOUS
<1>2. t \in [1..Len(s) - 1 -> S]
  BY <1>1 DEF Without
<1>3. t \in Seq(S)
  BY <1>1, <1>2
<1>4. Len(t) = Len(s) - 1
  BY <1>1, <1>2, <1>3 DEF Without
<1>5. ASSUME NEW j \in 1..Len(s), j # i
      PROVE  \E k \in 1..Len(s) - 1 : t[k] = s[j]
  <2>1. CASE j < i
    BY <1>1, <2>1 DEF Without
  <2>2. CASE j > i
    <3>1. j - 1 \in 1..Len(s) - 1 /\ ~(j - 1 < i) /\ (j - 1) + 1 = j
      BY <1>1, <2>2
    <3> QED
      BY <3>1 DEF Without
  <2> QED
    BY <1>5, <2>1, <2>2
<1> QED
  BY <1>3, <1>4, <1>5

LEMMA SyncMessagesType ==
  ASSUME TypeOK, NEW after \in 0..MaxSeq, NEW cut \in 0..MaxSeq
  PROVE  SyncMessages(after, cut) \in Seq(Message)
<1>1. \A us \in SUBSET Update, t \in BOOLEAN : SyncMessage(us, t) \in Message
  BY BoundsAssumption DEF SyncMessage, Message, TypeOK
<1> DEFINE low  == {u \in After(after) : u.seq <= cut}
           high == {u \in After(after) : u.seq > cut}
<1>2. After(after) \in SUBSET Update /\ low \in SUBSET Update
      /\ high \in SUBSET Update
  BY DEF After, TypeOK
<1> HIDE DEF low, high
<1>3. ASSUME NEW m \in Message, NEW n \in Message
      PROVE  <<m>> \in Seq(Message) /\ <<m, n>> \in Seq(Message)
  OBVIOUS
<1>4. /\ SyncMessage({}, TRUE) \in Message
      /\ SyncMessage(After(after), FALSE) \in Message
      /\ SyncMessage(low, FALSE) \in Message
      /\ SyncMessage(high, FALSE) \in Message
  BY <1>1, <1>2
<1> QED
  BY <1>3, <1>4 DEF SyncMessages, low, high

LEMMA RoomType ==
  ASSUME TypeOK, NEW p \in Peers
  PROVE  Room(p) \in 0..QueueCap /\ Len(queue[p]) + Room(p) <= QueueCap
BY BoundsAssumption DEF Room, TypeOK

-----------------------------------------------------------------------------
LEMMA InitType == Init => TypeOK
BY BoundsAssumption DEF Init, TypeOK, Unsynced

LEMMA NextType == ASSUME TypeOK, [Next]_vars PROVE TypeOK'
<1>1. ASSUME NEW body \in Bodies, Publish(body) PROVE TypeOK'
  <2>1. body \in AllBodies
    BY BodiesAssumption
  <2> QED
    BY <1>1, <2>1, AppendUpdateType DEF Publish, TypeOK
<1>2. ASSUME NEW p \in Peers, Register(p) PROVE TypeOK'
  BY <1>2, BoundsAssumption DEF Register, TypeOK, sessionVars, Unsynced
<1>3. ASSUME NEW p \in Peers, AnnounceJoin(p) PROVE TypeOK'
  <2>1. "presence" \in AllBodies
    BY DEF AllBodies
  <2> QED
    BY <1>3, <2>1, AppendUpdateType DEF AnnounceJoin, TypeOK
<1>4. ASSUME NEW p \in Peers, ReadyFails(p) PROVE TypeOK'
  BY <1>4, BoundsAssumption DEF ReadyFails, TypeOK, sessionVars
<1>5. ASSUME NEW p \in Peers, NEW after \in 0..MaxSeq, NEW cut \in 0..MaxSeq,
             Sync(p, after, cut)
      PROVE  TypeOK'
  <2> DEFINE reply == SyncMessages(after, cut)
             sent  == IF Len(reply) <= Room(p) THEN reply
                      ELSE SubSeq(reply, 1, Room(p))
  <2>1. reply \in Seq(Message)
    BY SyncMessagesType
  <2>2. sent \in Seq(Message) /\ Len(sent) <= Room(p)
    <3> HIDE DEF reply
    <3> QED
      BY <2>1, RoomType, BoundsAssumption
  <2>3. queue' = [queue EXCEPT ![p] = @ \o sent]
    BY <1>5 DEF Sync
  <2> HIDE DEF sent
  <2>4. queue' \in [Peers -> Seq(Message)]
    BY <2>2, <2>3 DEF TypeOK
  <2>5. \A q \in Peers : Len(queue'[q]) <= QueueCap
    <3>1. Len(queue[p]) \in Nat /\ Len(sent) \in Nat
          /\ Len(queue[p] \o sent) = Len(queue[p]) + Len(sent)
      BY <2>2 DEF TypeOK
    <3> QED
      BY <2>2, <2>3, <3>1, RoomType, BoundsAssumption DEF TypeOK
  <2>6. closing' \in SUBSET live /\ base' \in [Peers -> 0..MaxSeq + 1]
    BY <1>5, BoundsAssumption DEF Sync, TypeOK
  <2> QED
    BY <1>5, <2>4, <2>5, <2>6 DEF Sync, TypeOK, sessionVars
<1>6. ASSUME NEW p \in Peers, NEW i \in 1..QueueCap, Transmit(p, i)
      PROVE  TypeOK'
  <2>1. queue[p] \in Seq(Message) /\ i \in 1..Len(queue[p])
        /\ queue[p][i] \in Message
    BY <1>6 DEF Transmit, TypeOK
  <2>2. Without(queue[p], i) \in Seq(Message)
        /\ Len(Without(queue[p], i)) = Len(queue[p]) - 1
    BY <2>1, WithoutType
  <2>3. queue' = [queue EXCEPT ![p] = Without(queue[p], i)]
    BY <1>6 DEF Transmit
  <2>4. queue' \in [Peers -> Seq(Message)]
    BY <2>2, <2>3 DEF TypeOK
  <2>5. \A q \in Peers : Len(queue'[q]) <= QueueCap
    BY <2>1, <2>2, <2>3, BoundsAssumption DEF TypeOK
  <2>6. received' \in [Peers -> SUBSET Update]
    BY <1>6, <2>1 DEF Transmit, TypeOK, Message
  <2> QED
    BY <1>6, <2>4, <2>5, <2>6 DEF Transmit, TypeOK, sessionVars
<1>7. ASSUME NEW p \in Peers, CloseSocket(p) PROVE TypeOK'
  BY <1>7, BoundsAssumption DEF CloseSocket, TypeOK, sessionVars
<1>8. ASSUME NEW p \in Peers, Unregister(p) PROVE TypeOK'
  BY <1>8 DEF Unregister, TypeOK, sessionVars
<1>9. ASSUME NEW p \in Peers, AnnounceLeave(p) PROVE TypeOK'
  <2>1. "presence" \in AllBodies
    BY DEF AllBodies
  <2> QED
    BY <1>9, <2>1, AppendUpdateType DEF AnnounceLeave, TypeOK
<1>10. ASSUME NEW last \in log, Prune(last) PROVE TypeOK'
  BY <1>10, BoundsAssumption
  DEF Prune, TypeOK, After, Larger, peerVars, Update
<1>11. CASE UNCHANGED vars
  BY <1>11 DEF vars, sessionVars, peerVars, TypeOK
<1> QED
  BY <1>1, <1>2, <1>3, <1>4, <1>5, <1>6, <1>7, <1>8, <1>9, <1>10, <1>11
  DEF Next, PeerStep, SessionStep, SyncStep

(***************************************************************************)
(* Types: no step of the relay overfills a queue or leaves its numbers.    *)
(***************************************************************************)
THEOREM TypeCorrect == Spec => []TypeOK
<1>1. TypeOK /\ [Next]_vars => TypeOK'
  BY NextType
<1> QED
  BY <1>1, InitType, PTL DEF Spec

-----------------------------------------------------------------------------
(***************************************************************************)
(* The inductive invariant.  ReplayComplete speaks of the numbers a peer   *)
(* may ask from and SyncedPeerHasAll of queues; neither survives a step on *)
(* its own.  What carries them is where a published update can be: a body  *)
(* that no other supersedes is in the log or below the number that         *)
(* retention reports, and the log holds nothing that was not published     *)
(* under a number already given away.                                      *)
(***************************************************************************)
Numbered == log \subseteq published /\ \A u \in published : u.seq < nextSeq

Kept == \A u \in published :
          u.body # "presence" => u \in log \/ u.seq < oldestLost

IInv == Numbered /\ Kept /\ SyncedPeerHasAll

(* Kept is ReplayComplete said of single updates.                          *)
LEMMA KeptIsComplete == TypeOK /\ Kept => ReplayComplete
BY BoundsAssumption
DEF TypeOK, Kept, ReplayComplete, HistoryTruncated, Update

LEMMA InQueued ==
  ASSUME NEW p \in Peers
  PROVE  /\ \A i \in 1..Len(queue[p]) : queue[p][i].updates \subseteq Queued(p)
         /\ \A u \in Queued(p) : \E i \in 1..Len(queue[p]) :
              u \in queue[p][i].updates
BY DEF Queued

LEMMA InQueuedNext ==
  ASSUME NEW p \in Peers
  PROVE  \A i \in 1..Len(queue'[p]) : queue'[p][i].updates \subseteq Queued(p)'
BY DEF Queued

(* A queue that grows at its end loses nothing and gains what is appended. *)
LEMMA QueueGrows ==
  ASSUME TypeOK, NEW p \in Peers, NEW t \in Seq(Message),
         queue'[p] = queue[p] \o t
  PROVE  /\ Queued(p) \subseteq Queued(p)'
         /\ \A i \in 1..Len(t) : t[i].updates \subseteq Queued(p)'
<1>1. queue[p] \in Seq(Message) /\ Len(queue[p]) \in Nat /\ Len(t) \in Nat
  BY DEF TypeOK
<1>2. Len(queue'[p]) = Len(queue[p]) + Len(t)
  BY <1>1
<1>3. ASSUME NEW i \in 1..Len(queue[p])
      PROVE  i \in 1..Len(queue'[p]) /\ queue'[p][i] = queue[p][i]
  BY <1>1, <1>2
<1>4. ASSUME NEW i \in 1..Len(t)
      PROVE  /\ Len(queue[p]) + i \in 1..Len(queue'[p])
             /\ queue'[p][Len(queue[p]) + i] = t[i]
  BY <1>1, <1>2
<1> QED
  BY <1>3, <1>4, InQueued, InQueuedNext

LEMMA AppendKeepsInvariant ==
  ASSUME TypeOK, IInv, NEW body \in AllBodies, AppendUpdate(body),
         UNCHANGED <<open, live, received, base>>
  PROVE  IInv'
<1> DEFINE u == [seq |-> nextSeq, body |-> body]
<1>1. /\ u.seq = nextSeq /\ u.body = body /\ published' = published \cup {u}
      /\ nextSeq' = nextSeq + 1 /\ oldestLost' = oldestLost /\ FanOut(u)
      /\ log' = {v \in log : body = "presence" => v.body # "presence"} \cup {u}
      /\ nextSeq \in Nat /\ u \in Update
  BY BoundsAssumption DEF AppendUpdate, TypeOK, Update
<1> HIDE DEF u
<1>2. Numbered'
  BY <1>1 DEF IInv, Numbered, TypeOK, Update
<1>3. Kept'
  BY <1>1 DEF IInv, Kept
<1>4. ASSUME NEW p \in (live' \cap open') \ closing', NEW v \in published',
             v.seq > base'[p], v.body # "presence"
      PROVE  v \in received'[p] \cup Queued(p)'
  <2>1. p \in Peers /\ p \in (live \cap open) \ closing /\ Room(p) > 0
    BY <1>1, <1>4, RoomType DEF FanOut, TypeOK
  <2>2. LiveUpdate(u) \in Message /\ u \in LiveUpdate(u).updates
    BY <1>1, BoundsAssumption DEF LiveUpdate, Message
  <2>3. queue'[p] = queue[p] \o <<LiveUpdate(u)>>
    <3>1. queue'[p] = Append(queue[p], LiveUpdate(u))
      BY <1>1, <2>1 DEF FanOut
    <3>2. queue[p] \in Seq(Message)
      BY <2>1 DEF TypeOK
    <3>3. ASSUME NEW q \in Seq(Message), NEW m \in Message
          PROVE  Append(q, m) = q \o <<m>>
      OBVIOUS
    <3> QED
      BY <2>2, <3>1, <3>2, <3>3
  <2>4. Queued(p) \subseteq Queued(p)' /\ u \in Queued(p)'
    <3> DEFINE t == <<LiveUpdate(u)>>
    <3>1. t \in Seq(Message) /\ 1 \in 1..Len(t) /\ t[1] = LiveUpdate(u)
      BY <2>2
    <3> HIDE DEF t
    <3>2. queue'[p] = queue[p] \o t
      BY <2>3 DEF t
    <3> QED
      BY <2>1, <2>2, <3>1, <3>2, QueueGrows
  <2>5. CASE v = u
    BY <2>4, <2>5
  <2>6. CASE v \in published
    BY <1>4, <2>1, <2>4, <2>6 DEF IInv, SyncedPeerHasAll
  <2> QED
    BY <1>1, <1>4, <2>5, <2>6
<1> QED
  BY <1>2, <1>3, <1>4 DEF IInv, SyncedPeerHasAll

(* A reply that is not truncated carries all the log holds after a number. *)
LEMMA ReplyIsComplete ==
  ASSUME TypeOK, NEW after \in 0..MaxSeq, NEW cut \in 0..MaxSeq,
         ~TruncatedReply(after), NEW u \in log, u.seq > after
  PROVE  \E i \in 1..Len(SyncMessages(after, cut)) :
           u \in SyncMessages(after, cut)[i].updates
<1> DEFINE low  == {v \in After(after) : v.seq <= cut}
           high == {v \in After(after) : v.seq > cut}
<1>1. u \in After(after) /\ u.seq \in Nat
  BY DEF After, TypeOK, Update
<1>2. u \in low \/ u \in high
  BY <1>1
<1> HIDE DEF low, high
<1>4. CASE low = {} \/ high = {}
  <2>1. SyncMessages(after, cut) = <<SyncMessage(After(after), FALSE)>>
    BY <1>4, ~TruncatedReply(after) DEF SyncMessages, low, high
  <2>2. Len(<<SyncMessage(After(after), FALSE)>>) = 1
        /\ <<SyncMessage(After(after), FALSE)>>[1] = SyncMessage(After(after), FALSE)
    OBVIOUS
  <2>3. u \in SyncMessages(after, cut)[1].updates
        /\ Len(SyncMessages(after, cut)) = 1
    BY <1>1, <2>1, <2>2 DEF SyncMessage
  <2> QED
    BY <2>3
<1>5. CASE ~(low = {} \/ high = {})
  <2>1. SyncMessages(after, cut)
          = <<SyncMessage(low, FALSE), SyncMessage(high, FALSE)>>
    BY <1>5, ~TruncatedReply(after) DEF SyncMessages, low, high
  <2>2. ASSUME NEW m, NEW n
        PROVE  Len(<<m, n>>) = 2 /\ <<m, n>>[1] = m /\ <<m, n>>[2] = n
    OBVIOUS
  <2>3. /\ Len(SyncMessages(after, cut)) = 2
        /\ SyncMessages(after, cut)[1] = SyncMessage(low, FALSE)
        /\ SyncMessages(after, cut)[2] = SyncMessage(high, FALSE)
    BY <2>1, <2>2
  <2>4. CASE u \in low
    <3>1. u \in SyncMessages(after, cut)[1].updates
      BY <2>3, <2>4 DEF SyncMessage
    <3>2. 1 \in 1..Len(SyncMessages(after, cut))
      BY <2>3
    <3> QED
      BY <3>1, <3>2, Zenon
  <2>5. CASE u \in high
    <3>1. u \in SyncMessages(after, cut)[2].updates
      BY <2>3, <2>5 DEF SyncMessage
    <3>2. 2 \in 1..Len(SyncMessages(after, cut))
      BY <2>3
    <3> QED
      BY <3>1, <3>2, Zenon
  <2> QED
    BY <1>2, <2>4, <2>5
<1> QED
  BY <1>4, <1>5

LEMMA SyncKeepsInvariant ==
  ASSUME TypeOK, IInv, NEW p \in Peers, NEW after \in 0..MaxSeq,
         NEW cut \in 0..MaxSeq, Sync(p, after, cut)
  PROVE  SyncedPeerHasAll'
<1> DEFINE reply == SyncMessages(after, cut)
           sent  == IF Len(reply) <= Room(p) THEN reply
                    ELSE SubSeq(reply, 1, Room(p))
<1>1. reply \in Seq(Message)
  BY SyncMessagesType
<1>2. sent \in Seq(Message)
  <2> HIDE DEF reply
  <2> QED
    BY <1>1, RoomType, BoundsAssumption
<1>3. queue' = [queue EXCEPT ![p] = queue[p] \o sent]
  BY DEF Sync
<1>4. /\ base' = [base EXCEPT ![p] =
                    IF TruncatedReply(after) THEN nextSeq - 1 ELSE after]
      /\ closing \subseteq closing'
      /\ p \notin closing' => sent = reply
      /\ UNCHANGED <<published, live, open, received>>
  BY DEF Sync, sessionVars
<1> HIDE DEF sent, reply
<1>5. queue'[p] = queue[p] \o sent /\ \A q \in Peers : q # p => queue'[q] = queue[q]
  BY <1>3 DEF TypeOK
<1>6. ASSUME NEW q \in (live' \cap open') \ closing', NEW v \in published',
             v.seq > base'[q], v.body # "presence"
      PROVE  v \in received'[q] \cup Queued(q)'
  <2>1. q \in Peers /\ q \in (live \cap open) \ closing /\ v \in published
    BY <1>4, <1>6 DEF TypeOK
  <2>2. CASE q # p
    <3>1. Queued(q)' = Queued(q)
      BY <1>5, <2>1, <2>2 DEF Queued
    <3>2. base'[q] = base[q]
      BY <1>4, <2>1, <2>2 DEF TypeOK
    <3> QED
      BY <1>4, <1>6, <2>1, <3>1, <3>2 DEF IInv, SyncedPeerHasAll
  <2>3. CASE q = p
    <3>1. sent = reply
      BY <1>4, <1>6, <2>3
    <3>2. CASE TruncatedReply(after)
      <4>1. v.seq > nextSeq - 1
        BY <1>4, <1>6, <2>3, <3>2 DEF TypeOK
      <4>2. v.seq < nextSeq /\ v.seq \in Nat /\ nextSeq \in Nat
        BY <2>1, BoundsAssumption DEF IInv, Numbered, TypeOK, Update
      <4> QED
        BY <4>1, <4>2
    <3>3. CASE ~TruncatedReply(after)
      <4>1. v.seq > after
        BY <1>4, <1>6, <2>3, <3>3 DEF TypeOK
      <4>2. v \in log
        BY <1>6, <2>1, <3>3, <4>1, KeptIsComplete
        DEF IInv, ReplayComplete, TruncatedReply
      <4>3. \E i \in 1..Len(reply) : v \in reply[i].updates
        BY <3>3, <4>1, <4>2, ReplyIsComplete DEF reply
      <4> QED
        BY <1>1, <1>5, <2>3, <3>1, <4>3, QueueGrows
    <3> QED
      BY <3>2, <3>3
  <2> QED
    BY <2>2, <2>3
<1> QED
  BY <1>6 DEF SyncedPeerHasAll

(* What leaves a queue is handed to the socket; the rest stays.            *)
LEMMA HandedOver ==
  ASSUME TypeOK, NEW p \in Peers, NEW i \in 1..QueueCap, Transmit(p, i)
  PROVE  Queued(p) \subseteq received'[p] \cup Queued(p)'
<1> DEFINE q == queue[p]
<1>1. /\ q \in Seq(Message) /\ i \in 1..Len(q)
      /\ queue'[p] = Without(q, i)
      /\ received'[p] = received[p] \cup q[i].updates
  BY DEF Transmit, TypeOK
<1> HIDE DEF q
<1>2. ASSUME NEW u \in Queued(p) PROVE u \in received'[p] \cup Queued(p)'
  <2>1. PICK j \in 1..Len(q) : u \in q[j].updates
    BY InQueued DEF q
  <2>2. CASE j = i
    BY <1>1, <2>1, <2>2
  <2>3. CASE j # i
    <3>1. PICK k \in 1..Len(q) - 1 : Without(q, i)[k] = q[j]
      BY <1>1, <2>3, WithoutType
    <3>2. k \in 1..Len(queue'[p])
      BY <1>1, <3>1, WithoutType
    <3> QED
      BY <1>1, <2>1, <3>1, <3>2, InQueuedNext
  <2> QED
    BY <2>2, <2>3
<1> QED
  BY <1>2

LEMMA TransmitKeepsInvariant ==
  ASSUME TypeOK, IInv, NEW p \in Peers, NEW i \in 1..QueueCap, Transmit(p, i)
  PROVE  SyncedPeerHasAll'
<1>1. /\ \A q \in Peers : q # p => queue'[q] = queue[q]
      /\ \A q \in Peers : received[q] \subseteq received'[q]
      /\ UNCHANGED <<published, live, open, closing, base>>
  BY DEF Transmit, TypeOK, sessionVars
<1>2. \A q \in Peers : received[q] \cup Queued(q) \subseteq received'[q] \cup Queued(q)'
  BY <1>1, HandedOver DEF Queued
<1> QED
  BY <1>1, <1>2 DEF IInv, SyncedPeerHasAll, TypeOK

LEMMA IInvInductive == TypeOK /\ IInv /\ [Next]_vars => IInv'
<1> SUFFICES ASSUME TypeOK, IInv, [Next]_vars PROVE IInv'
  OBVIOUS
<1>1. ASSUME NEW body \in Bodies, Publish(body) PROVE IInv'
  <2>1. body \in AllBodies
    BY BodiesAssumption
  <2> QED
    BY <1>1, <2>1, AppendKeepsInvariant DEF Publish
<1>2. "presence" \in AllBodies
  BY DEF AllBodies
<1>3. ASSUME NEW p \in Peers, AnnounceJoin(p) \/ AnnounceLeave(p) PROVE IInv'
  BY <1>2, <1>3, AppendKeepsInvariant DEF AnnounceJoin, AnnounceLeave
<1>4. ASSUME NEW p \in Peers, Register(p) PROVE IInv'
  <2>1. Numbered' /\ Kept'
    BY <1>4 DEF Register, sessionVars, IInv, Numbered, Kept
  <2>2. ASSUME NEW q \in (live' \cap open') \ closing', NEW v \in published',
               v.seq > base'[q], v.body # "presence"
        PROVE  v \in received'[q] \cup Queued(q)'
    <3>1. q \in Peers
      BY <1>4, <2>2 DEF Register, TypeOK
    <3>2. CASE q = p
      <4>1. base'[p] = MaxSeq + 1
        BY <1>4 DEF Register, TypeOK, Unsynced
      <4>2. v.seq \in 1..MaxSeq
        BY <1>4, <2>2 DEF Register, sessionVars, TypeOK, Update
      <4> QED
        BY <2>2, <3>2, <4>1, <4>2, BoundsAssumption
    <3>3. CASE q # p
      <4>1. /\ q \in (live \cap open) \ closing /\ v \in published
            /\ base'[q] = base[q] /\ received'[q] = received[q]
            /\ queue'[q] = queue[q]
        BY <1>4, <2>2, <3>1, <3>3 DEF Register, sessionVars, TypeOK
      <4>2. Queued(q)' = Queued(q)
        BY <4>1 DEF Queued
      <4> QED
        BY <2>2, <4>1, <4>2 DEF IInv, SyncedPeerHasAll
    <3> QED
      BY <3>2, <3>3
  <2> QED
    BY <2>1, <2>2 DEF IInv, SyncedPeerHasAll
<1>5. ASSUME NEW p \in Peers, ReadyFails(p) \/ CloseSocket(p) PROVE IInv'
  <2>1. /\ open' = open \ {p} /\ closing \subseteq closing'
        /\ UNCHANGED <<sessionVars, live, received, base>>
        /\ \A q \in Peers : q # p => queue'[q] = queue[q]
    BY <1>5 DEF ReadyFails, CloseSocket, TypeOK
  <2>2. Numbered' /\ Kept'
    BY <2>1 DEF sessionVars, IInv, Numbered, Kept
  <2>3. \A q \in Peers : q # p => Queued(q)' = Queued(q)
    BY <2>1 DEF Queued
  <2>4. SyncedPeerHasAll'
    BY <2>1, <2>3 DEF sessionVars, IInv, SyncedPeerHasAll, TypeOK
  <2> QED
    BY <2>2, <2>4 DEF IInv
<1>6. ASSUME NEW p \in Peers, NEW i \in 1..QueueCap, Transmit(p, i) PROVE IInv'
  BY <1>6, TransmitKeepsInvariant
  DEF Transmit, sessionVars, IInv, Numbered, Kept
<1>7. ASSUME NEW p \in Peers, Unregister(p) PROVE IInv'
  BY <1>7 DEF Unregister, sessionVars, IInv, Numbered, Kept,
              SyncedPeerHasAll, Queued
<1>8. ASSUME NEW last \in log, Prune(last) PROVE IInv'
  <2>1. /\ log' = {u \in log : u.seq > last.seq}
        /\ oldestLost' >= oldestLost /\ oldestLost' > last.seq
        /\ last.seq \in Nat /\ oldestLost \in Nat /\ oldestLost' \in Nat
    BY <1>8, BoundsAssumption DEF Prune, After, Larger, TypeOK, Update
  <2>2. \A u \in published : u.seq \in Nat
    BY DEF TypeOK, Update
  <2>3. Numbered'
    BY <1>8, <2>1 DEF Prune, IInv, Numbered
  <2>4. Kept'
    BY <1>8, <2>1, <2>2 DEF Prune, IInv, Kept
  <2>5. SyncedPeerHasAll'
    BY <1>8 DEF Prune, peerVars, IInv, SyncedPeerHasAll, Queued
  <2> QED
    BY <2>3, <2>4, <2>5 DEF IInv
<1>9. ASSUME NEW p \in Peers, NEW after \in 0..MaxSeq, NEW cut \in 0..MaxSeq,
             Sync(p, after, cut)
      PROVE  IInv'
  BY <1>9, SyncKeepsInvariant DEF Sync, sessionVars, IInv, Numbered, Kept
<1>10. CASE UNCHANGED vars
  BY <1>10 DEF vars, sessionVars, peerVars, IInv, Numbered, Kept,
               SyncedPeerHasAll, Queued
<1> QED
  BY <1>1, <1>3, <1>4, <1>5, <1>6, <1>7, <1>8, <1>9, <1>10
  DEF Next, PeerStep, SessionStep, SyncStep

LEMMA InvariantHolds == Spec => [](TypeOK /\ IInv)
<1>1. Init => IInv
  BY DEF Init, IInv, Numbered, Kept, SyncedPeerHasAll
<1> QED
  BY <1>1, IInvInductive, TypeCorrect, PTL DEF Spec

(***************************************************************************)
(* A sync that is answered without a truncation marker misses nothing      *)
(* (history_truncated, append_update_locked, prune_state).                 *)
(***************************************************************************)
THEOREM ReplayIsComplete == Spec => []ReplayComplete
<1>1. TypeOK /\ IInv => ReplayComplete
  BY KeptIsComplete DEF IInv
<1> QED
  BY <1>1, InvariantHolds, PTL

(***************************************************************************)
(* A registered peer whose sync was answered has, or is about to be        *)
(* handed, every update it is owed (send_sync_to_peer, queue_message).     *)
(***************************************************************************)
THEOREM SyncedPeersMissNothing == Spec => []SyncedPeerHasAll
<1>1. TypeOK /\ IInv => SyncedPeerHasAll
  BY DEF IInv
<1> QED
  BY <1>1, InvariantHolds, PTL

-----------------------------------------------------------------------------
(***************************************************************************)
(* The order of a socket.  SyncedPeerHasAll says that what a peer is owed  *)
(* is with it or queued; that nothing behind it was handed over first      *)
(* needs the order of the queue: a live update is behind everything that   *)
(* is before it in the queue or was handed over already, except for what   *)
(* may overtake.  The messages of a reply need no place in that order: the *)
(* live updates after them have later numbers than all of the log had.     *)
(***************************************************************************)
Overtaking == {"bootstrap", "foreign"}

Published(p) ==
  /\ received[p] \subseteq published
  /\ \A i \in 1..Len(queue[p]) : queue[p][i].updates \subseteq published

LiveIsBehind(p) ==
  \A i \in 1..Len(queue[p]) : queue[p][i].type = "update" =>
    \A u \in queue[p][i].updates :
      /\ \A v \in received[p] : v.body \in Overtaking \/ v.seq < u.seq
      /\ \A j \in 1..Len(queue[p]) : j < i =>
           \A v \in queue[p][j].updates : v.seq < u.seq

QueuesInOrder == \A p \in Peers : Published(p) /\ LiveIsBehind(p)

(* The messages of a concatenation are those of its parts.                 *)
LEMMA MessagesOfConcat ==
  ASSUME NEW s \in Seq(Message), NEW t \in Seq(Message)
  PROVE  /\ Len(s) \in Nat /\ Len(t) \in Nat /\ Len(s \o t) = Len(s) + Len(t)
         /\ \A i \in 1..Len(s) : (s \o t)[i] = s[i]
         /\ \A i \in 1..Len(s) + Len(t) : i > Len(s) =>
              i - Len(s) \in 1..Len(t) /\ (s \o t)[i] = t[i - Len(s)]
OBVIOUS

(* The messages that are left when one is dropped keep their order.        *)
LEMMA MessagesOfWithout ==
  ASSUME NEW s \in Seq(Message), NEW i \in 1..Len(s)
  PROVE  /\ Len(s) \in Nat /\ i \in Nat /\ Len(Without(s, i)) = Len(s) - 1
         /\ \A k \in 1..Len(s) - 1 : k < i =>
              Without(s, i)[k] = s[k] /\ k \in 1..Len(s)
         /\ \A k \in 1..Len(s) - 1 : ~(k < i) =>
              Without(s, i)[k] = s[k + 1] /\ k + 1 \in 1..Len(s)
<1>1. Len(s) \in Nat /\ i \in Nat
  OBVIOUS
<1>2. Len(Without(s, i)) = Len(s) - 1
  BY WithoutType
<1> QED
  BY <1>1, <1>2 DEF Without

(* A queue stays in order when what is appended to it was published, and a *)
(* live update among it comes first and is new.                            *)
LEMMA GrowingKeepsOrder ==
  ASSUME TypeOK, Numbered, NEW p \in Peers, Published(p), LiveIsBehind(p),
         published \subseteq published', NEW t \in Seq(Message),
         queue'[p] = queue[p] \o t, received'[p] = received[p],
         \A i \in 1..Len(t) :
           /\ t[i].updates \subseteq published'
           /\ t[i].type = "update" => i = 1 /\ \A u \in t[i].updates : u.seq >= nextSeq
  PROVE  Published(p)' /\ LiveIsBehind(p)'
<1> DEFINE s == queue[p]
           n == Len(s)
<1>1. s \in Seq(Message)
  BY DEF TypeOK
<1>2. /\ n \in Nat /\ Len(t) \in Nat /\ Len(queue'[p]) = n + Len(t)
      /\ \A i \in 1..n : queue'[p][i] = s[i]
      /\ \A i \in 1..n + Len(t) : i > n =>
           i - n \in 1..Len(t) /\ queue'[p][i] = t[i - n]
  BY <1>1, MessagesOfConcat
<1>3. \A i \in 1..n : s[i].updates \subseteq published
  BY DEF Published
<1> HIDE DEF s, n
<1>4. \A i \in 1..n + Len(t) : queue'[p][i].updates \subseteq published'
  <2>1. ASSUME NEW i \in 1..n + Len(t) PROVE queue'[p][i].updates \subseteq published'
    <3>1. CASE i <= n
      BY <1>2, <1>3, <3>1
    <3>2. CASE i > n
      BY <1>2, <3>2
    <3> QED
      BY <1>2, <3>1, <3>2
  <2> QED
    BY <2>1
<1>5. Published(p)'
  BY <1>2, <1>4 DEF Published
<1>6. ASSUME NEW i \in 1..n + Len(t), queue'[p][i].type = "update",
             NEW u \in queue'[p][i].updates
      PROVE  /\ \A v \in received[p] : v.body \in Overtaking \/ v.seq < u.seq
             /\ \A j \in 1..n + Len(t) : j < i =>
                  \A v \in queue'[p][j].updates : v.seq < u.seq
  <2>1. CASE i <= n
    <3>1. i \in 1..n /\ s[i].type = "update" /\ u \in s[i].updates
      BY <1>2, <1>6, <2>1
    <3>2. /\ \A v \in received[p] : v.body \in Overtaking \/ v.seq < u.seq
          /\ \A j \in 1..n : j < i => \A v \in s[j].updates : v.seq < u.seq
      BY <3>1 DEF LiveIsBehind, s, n
    <3>3. \A j \in 1..n + Len(t) : j < i => j \in 1..n /\ queue'[p][j] = s[j]
      BY <1>2, <2>1
    <3> QED
      BY <3>2, <3>3
  <2>2. CASE i > n
    <3>1. i - n \in 1..Len(t) /\ queue'[p][i] = t[i - n]
      BY <1>2, <2>2
    <3>2. i - n = 1 /\ u.seq >= nextSeq
      BY <1>6, <3>1
    <3>3. \A j \in 1..n + Len(t) : j < i => j \in 1..n /\ queue'[p][j] = s[j]
      BY <1>2, <3>2
    <3>4. /\ \A v \in published : v.seq < nextSeq /\ v.seq \in Nat
          /\ nextSeq \in Nat /\ u.seq \in Nat
      <4>1. u \in published'
        BY <1>4, <1>6
      <4>2. u.seq \in Nat
        <5>1. t[i - n] \in Message
          BY <3>1
        <5>2. u \in Update
          BY <1>6, <3>1, <5>1 DEF Message
        <5> QED
          BY <5>2 DEF Update
      <4> QED
        BY <4>2, BoundsAssumption DEF Numbered, TypeOK, Update
    <3>5. \A v \in published : v.seq < u.seq
      BY <3>2, <3>4
    <3> QED
      BY <1>3, <3>3, <3>5 DEF Published
  <2> QED
    BY <1>2, <2>1, <2>2
<1>7. LiveIsBehind(p)'
  BY <1>2, <1>6 DEF LiveIsBehind
<1> QED
  BY <1>5, <1>7

(* A peer whose queue and deliveries do not change stays in order.         *)
LEMMA RestKeepsOrder ==
  ASSUME NEW p \in Peers, Published(p), LiveIsBehind(p), published \subseteq published',
         queue'[p] = queue[p], received'[p] = received[p]
  PROVE  Published(p)' /\ LiveIsBehind(p)'
BY DEF Published, LiveIsBehind

LEMMA EmptyIsInOrder ==
  ASSUME NEW p \in Peers, queue'[p] = <<>>, received'[p] \subseteq published'
  PROVE  Published(p)' /\ LiveIsBehind(p)'
<1>1. Len(queue'[p]) = 0
  OBVIOUS
<1> QED
  BY <1>1 DEF Published, LiveIsBehind

LEMMA AppendKeepsOrder ==
  ASSUME TypeOK, IInv, QueuesInOrder, NEW body \in AllBodies, AppendUpdate(body),
         UNCHANGED received
  PROVE  QueuesInOrder'
<1> DEFINE u == [seq |-> nextSeq, body |-> body]
<1>1. /\ u.seq = nextSeq /\ published' = published \cup {u} /\ FanOut(u)
      /\ nextSeq \in Nat /\ u \in Update
  BY BoundsAssumption DEF AppendUpdate, TypeOK, Update
<1> HIDE DEF u
<1>2. ASSUME NEW p \in Peers PROVE Published(p)' /\ LiveIsBehind(p)'
  <2>1. CASE p \in live /\ Room(p) > 0
    <3> DEFINE t == <<LiveUpdate(u)>>
    <3>1. LiveUpdate(u) \in Message /\ LiveUpdate(u).updates = {u}
      BY <1>1, BoundsAssumption DEF LiveUpdate, Message
    <3>2. t \in Seq(Message) /\ \A i \in 1..Len(t) : i = 1 /\ t[i] = LiveUpdate(u)
      BY <3>1
    <3>3. queue'[p] = queue[p] \o t
      <4>1. queue'[p] = Append(queue[p], LiveUpdate(u))
        BY <1>1, <2>1 DEF FanOut
      <4>2. queue[p] \in Seq(Message)
        BY DEF TypeOK
      <4>3. \A q \in Seq(Message), m \in Message : Append(q, m) = q \o <<m>>
        OBVIOUS
      <4> QED
        BY <3>1, <4>1, <4>2, <4>3
    <3>4. \A i \in 1..Len(t) :
            /\ t[i].updates \subseteq published'
            /\ t[i].type = "update" => i = 1 /\ \A v \in t[i].updates : v.seq >= nextSeq
      BY <1>1, <3>1, <3>2
    <3> HIDE DEF t
    <3> QED
      BY <1>1, <3>2, <3>3, <3>4, GrowingKeepsOrder DEF IInv, QueuesInOrder
  <2>2. CASE ~(p \in live /\ Room(p) > 0)
    <3>1. queue'[p] = queue[p]
      BY <1>1, <2>2 DEF FanOut
    <3> QED
      BY <1>1, <3>1, RestKeepsOrder DEF QueuesInOrder
  <2> QED
    BY <2>1, <2>2
<1> QED
  BY <1>2 DEF QueuesInOrder

(* A reply is made of what the log holds, and none of it is a live update. *)
LEMMA ReplyIsPublished ==
  ASSUME TypeOK, IInv, NEW after \in 0..MaxSeq, NEW cut \in 0..MaxSeq
  PROVE  \A i \in 1..Len(SyncMessages(after, cut)) :
           /\ SyncMessages(after, cut)[i].updates \subseteq published
           /\ SyncMessages(after, cut)[i].type = "sync"
<1> DEFINE low  == {u \in After(after) : u.seq <= cut}
           high == {u \in After(after) : u.seq > cut}
           IsReply(m) == m.updates \subseteq published /\ m.type = "sync"
<1>1. After(after) \subseteq published /\ low \subseteq published /\ high \subseteq published
  BY DEF After, IInv, Numbered
<1>2. \A us \in SUBSET published, truncated \in BOOLEAN : IsReply(SyncMessage(us, truncated))
  BY DEF SyncMessage
<1>3. /\ IsReply(SyncMessage({}, TRUE)) /\ IsReply(SyncMessage(After(after), FALSE))
      /\ IsReply(SyncMessage(low, FALSE)) /\ IsReply(SyncMessage(high, FALSE))
  BY <1>1, <1>2
<1>4. \/ SyncMessages(after, cut) = <<SyncMessage({}, TRUE)>>
      \/ SyncMessages(after, cut) = <<SyncMessage(After(after), FALSE)>>
      \/ SyncMessages(after, cut) = <<SyncMessage(low, FALSE), SyncMessage(high, FALSE)>>
  BY DEF SyncMessages
<1> HIDE DEF low, high, IsReply
<1>5. ASSUME NEW m, NEW k, IsReply(m), IsReply(k)
      PROVE  /\ \A i \in 1..Len(<<m>>) : IsReply(<<m>>[i])
             /\ \A i \in 1..Len(<<m, k>>) : IsReply(<<m, k>>[i])
  BY <1>5
<1>6. \A i \in 1..Len(SyncMessages(after, cut)) : IsReply(SyncMessages(after, cut)[i])
  BY <1>3, <1>4, <1>5
<1> QED
  BY <1>6 DEF IsReply

LEMMA SyncKeepsOrder ==
  ASSUME TypeOK, IInv, QueuesInOrder, NEW p \in Peers, NEW after \in 0..MaxSeq,
         NEW cut \in 0..MaxSeq, Sync(p, after, cut)
  PROVE  QueuesInOrder'
<1> DEFINE reply == SyncMessages(after, cut)
           sent  == IF Len(reply) <= Room(p) THEN reply
                    ELSE SubSeq(reply, 1, Room(p))
<1>1. reply \in Seq(Message)
  BY SyncMessagesType
<1>2. \A i \in 1..Len(reply) : reply[i].updates \subseteq published /\ reply[i].type = "sync"
  BY ReplyIsPublished
<1>3. queue' = [queue EXCEPT ![p] = queue[p] \o sent]
  BY DEF Sync
<1> HIDE DEF reply
<1>4. sent \in Seq(Message) /\ \A i \in 1..Len(sent) : i \in 1..Len(reply) /\ sent[i] = reply[i]
  <2>1. Room(p) \in Nat /\ Len(reply) \in Nat
    BY <1>1, RoomType, BoundsAssumption
  <2>2. CASE Len(reply) <= Room(p)
    BY <1>1, <2>2
  <2>3. CASE ~(Len(reply) <= Room(p))
    BY <1>1, <2>1, <2>3
  <2> QED
    BY <2>2, <2>3
<1> HIDE DEF sent
<1>5. /\ queue'[p] = queue[p] \o sent
      /\ \A q \in Peers : q # p => queue'[q] = queue[q]
      /\ received' = received /\ published' = published
  BY <1>3 DEF TypeOK, Sync, sessionVars
<1>6. \A i \in 1..Len(sent) : sent[i].updates \subseteq published' /\ sent[i].type # "update"
  BY <1>2, <1>4, <1>5
<1>7. Published(p)' /\ LiveIsBehind(p)'
  BY <1>4, <1>5, <1>6, GrowingKeepsOrder DEF IInv, QueuesInOrder
<1>8. ASSUME NEW q \in Peers, q # p PROVE Published(q)' /\ LiveIsBehind(q)'
  BY <1>5, <1>8, RestKeepsOrder DEF QueuesInOrder
<1> QED
  BY <1>7, <1>8 DEF QueuesInOrder

(* What is handed over was before the rest of its queue, or may overtake.  *)
LEMMA TransmitKeepsOrder ==
  ASSUME TypeOK, IInv, QueuesInOrder, NEW p \in Peers, NEW i \in 1..QueueCap, Transmit(p, i)
  PROVE  QueuesInOrder'
<1> DEFINE s == queue[p]
           n == Len(s)
<1>1. /\ s \in Seq(Message) /\ i \in 1..n
      /\ i = 1 \/ InControlLane(s[i])
      /\ queue'[p] = Without(s, i)
      /\ received'[p] = received[p] \cup s[i].updates
      /\ \A q \in Peers : q # p => queue'[q] = queue[q] /\ received'[q] = received[q]
      /\ published' = published
  BY DEF Transmit, TypeOK, sessionVars
<1>2. /\ Published(p) /\ \A j \in 1..n : s[j].updates \subseteq published
      /\ \A j \in 1..n : s[j].type = "update" => \A u \in s[j].updates :
           /\ \A v \in received[p] : v.body \in Overtaking \/ v.seq < u.seq
           /\ \A k \in 1..n : k < j => \A v \in s[k].updates : v.seq < u.seq
  BY DEF QueuesInOrder, Published, LiveIsBehind
<1>3. ASSUME NEW q \in Peers, q # p PROVE Published(q)' /\ LiveIsBehind(q)'
  BY <1>1, <1>3, RestKeepsOrder DEF QueuesInOrder
<1> HIDE DEF s, n
<1>4. /\ n \in Nat /\ i \in Nat /\ Len(queue'[p]) = n - 1
      /\ \A k \in 1..n - 1 : k < i => queue'[p][k] = s[k] /\ k \in 1..n
      /\ \A k \in 1..n - 1 : ~(k < i) => queue'[p][k] = s[k + 1] /\ k + 1 \in 1..n
  BY <1>1, MessagesOfWithout DEF n
<1> DEFINE at(k) == IF k < i THEN k ELSE k + 1
<1>5. \A k \in 1..n - 1 : at(k) \in 1..n /\ queue'[p][k] = s[at(k)] /\ at(k) # i
  BY <1>4
<1>6. \A k, j \in 1..n - 1 : j < k => at(j) < at(k)
  BY <1>4
<1>7. \A k \in 1..n - 1 : i = 1 => i < at(k)
  BY <1>4
<1> HIDE DEF at
<1>8. Published(p)'
  <2>1. received'[p] \subseteq published'
    BY <1>1, <1>2 DEF Published
  <2>2. \A k \in 1..n - 1 : queue'[p][k].updates \subseteq published'
    BY <1>1, <1>2, <1>5
  <2> QED
    BY <1>4, <2>1, <2>2 DEF Published
<1>9. ASSUME NEW k \in 1..n - 1, queue'[p][k].type = "update",
             NEW u \in queue'[p][k].updates
      PROVE  /\ \A v \in received'[p] : v.body \in Overtaking \/ v.seq < u.seq
             /\ \A j \in 1..n - 1 : j < k =>
                  \A v \in queue'[p][j].updates : v.seq < u.seq
  <2>1. at(k) \in 1..n /\ s[at(k)].type = "update" /\ u \in s[at(k)].updates
    BY <1>5, <1>9
  <2>2. \A v \in s[i].updates : v.body \in Overtaking \/ v.seq < u.seq
    <3>1. CASE i = 1
      BY <1>1, <1>2, <1>7, <2>1, <3>1
    <3>2. CASE InControlLane(s[i])
      BY <3>2 DEF InControlLane, Overtaking
    <3> QED
      BY <1>1, <3>1, <3>2
  <2>3. \A v \in received'[p] : v.body \in Overtaking \/ v.seq < u.seq
    BY <1>1, <1>2, <2>1, <2>2
  <2>4. ASSUME NEW j \in 1..n - 1, j < k, NEW v \in queue'[p][j].updates
        PROVE  v.seq < u.seq
    BY <1>2, <1>5, <1>6, <2>1, <2>4
  <2> QED
    BY <2>3, <2>4
<1>10. LiveIsBehind(p)'
  BY <1>4, <1>9 DEF LiveIsBehind
<1> QED
  BY <1>3, <1>8, <1>10 DEF QueuesInOrder

LEMMA InOrderInductive == TypeOK /\ IInv /\ QueuesInOrder /\ [Next]_vars => QueuesInOrder'
<1> SUFFICES ASSUME TypeOK, IInv, QueuesInOrder, [Next]_vars PROVE QueuesInOrder'
  OBVIOUS
<1>1. ASSUME NEW body \in Bodies, Publish(body) PROVE QueuesInOrder'
  <2>1. body \in AllBodies
    BY BodiesAssumption
  <2> QED
    BY <1>1, <2>1, AppendKeepsOrder DEF Publish
<1>2. ASSUME NEW p \in Peers, AnnounceJoin(p) \/ AnnounceLeave(p) PROVE QueuesInOrder'
  <2>1. "presence" \in AllBodies
    BY DEF AllBodies
  <2> QED
    BY <1>2, <2>1, AppendKeepsOrder DEF AnnounceJoin, AnnounceLeave
<1>3. ASSUME NEW p \in Peers, Register(p) \/ ReadyFails(p) \/ CloseSocket(p)
      PROVE  QueuesInOrder'
  <2>1. /\ queue'[p] = <<>> /\ received'[p] \in {{}, received[p]}
        /\ published' = published
        /\ \A q \in Peers : q # p => queue'[q] = queue[q] /\ received'[q] = received[q]
    BY <1>3 DEF Register, ReadyFails, CloseSocket, TypeOK, sessionVars
  <2>2. Published(p)' /\ LiveIsBehind(p)'
    BY <2>1, EmptyIsInOrder DEF QueuesInOrder, Published
  <2>3. ASSUME NEW q \in Peers, q # p PROVE Published(q)' /\ LiveIsBehind(q)'
    BY <2>1, <2>3, RestKeepsOrder DEF QueuesInOrder
  <2> QED
    BY <2>2, <2>3 DEF QueuesInOrder
<1>4. ASSUME NEW p \in Peers, NEW i \in 1..QueueCap, Transmit(p, i) PROVE QueuesInOrder'
  BY <1>4, TransmitKeepsOrder
<1>5. CASE \/ \E p \in Peers : Unregister(p)
           \/ \E last \in log : Prune(last)
           \/ UNCHANGED vars
  <2>1. UNCHANGED <<queue, received, published>>
    BY <1>5 DEF Unregister, Prune, vars, sessionVars, peerVars
  <2> QED
    BY <2>1, RestKeepsOrder DEF QueuesInOrder
<1>6. ASSUME NEW p \in Peers, NEW after \in 0..MaxSeq, NEW cut \in 0..MaxSeq,
             Sync(p, after, cut)
      PROVE  QueuesInOrder'
  BY <1>6, SyncKeepsOrder
<1> QED
  BY <1>1, <1>2, <1>3, <1>4, <1>5, <1>6 DEF Next, PeerStep, SessionStep, SyncStep

LEMMA InitOrder == Init => QueuesInOrder
<1>1. \A s : s = <<>> => Len(s) = 0
  OBVIOUS
<1> QED
  BY <1>1 DEF Init, QueuesInOrder, Published, LiveIsBehind

(***************************************************************************)
(* Once a peer has read its reply to the end, an update it is handed in    *)
(* order comes after every update it is owed before that one, however      *)
(* replies, live updates and control messages interleave on its way        *)
(* (append_update_locked, send_sync_to_peer, the lanes of the transport).  *)
(***************************************************************************)
THEOREM SocketHasNoGaps == Spec => []DeliveredWithoutGaps
<1>1. TypeOK /\ IInv /\ QueuesInOrder => DeliveredWithoutGaps
  <2> SUFFICES ASSUME TypeOK, IInv, QueuesInOrder, NEW p \in (live \cap open) \ closing,
                      \A i \in 1..Len(queue[p]) : queue[p][i].type = "update",
                      NEW u \in published, NEW v \in received[p],
                      base[p] < u.seq, u.seq < v.seq, u.body # "presence",
                      v.body \notin {"bootstrap", "foreign"},
                      u \notin received[p]
               PROVE  FALSE
    BY DEF DeliveredWithoutGaps
  <2>1. p \in Peers
    BY DEF TypeOK
  <2>2. u \in Queued(p)
    <3>1. base[p] \in Nat /\ u.seq \in Nat /\ u.seq > base[p]
      BY <2>1, BoundsAssumption DEF TypeOK, Update
    <3> QED
      BY <3>1 DEF IInv, SyncedPeerHasAll
  <2>3. PICK i \in 1..Len(queue[p]) : u \in queue[p][i].updates
    BY <2>1, <2>2, InQueued
  <2>4. v.seq < u.seq
    BY <2>1, <2>3 DEF QueuesInOrder, LiveIsBehind, Overtaking
  <2>5. v.seq \in Nat /\ u.seq \in Nat
    BY <2>1 DEF TypeOK, Update
  <2> QED
    BY <2>4, <2>5
<1> QED
  BY <1>1, InitOrder, InvariantHolds, InOrderInductive, PTL DEF Spec

-----------------------------------------------------------------------------
(***************************************************************************)
(* What a step of the relay means for the reader of one socket, whoever    *)
(* reads it: the client of HostSync.  A truncated message is a mark; one   *)
(* reply has one at most.                                                  *)
(***************************************************************************)
HasMark(s) == \E i \in 1..Len(s) : s[i].truncated

OneMark(s) == \A i, j \in 1..Len(s) : s[i].truncated /\ s[j].truncated => i = j

UniqueNumbers == /\ IsFiniteSet(published)
                 /\ \A u, v \in published : u.seq = v.seq => u = v

Sound == TypeOK /\ IInv /\ QueuesInOrder /\ UniqueNumbers

LEMMA MarksOfConcat ==
  ASSUME NEW s \in Seq(Message), NEW t \in Seq(Message)
  PROVE  /\ HasMark(s \o t) <=> HasMark(s) \/ HasMark(t)
         /\ OneMark(s) /\ ~HasMark(t) => OneMark(s \o t)
         /\ OneMark(t) /\ ~HasMark(s) => OneMark(s \o t)
<1> DEFINE st == s \o t
           n == Len(s)
           m == Len(t)
<1>1. /\ n \in Nat /\ m \in Nat /\ Len(st) = n + m
      /\ \A i \in 1..n : st[i] = s[i]
      /\ \A i \in 1..n + m : i > n => i - n \in 1..m /\ st[i] = t[i - n]
  BY MessagesOfConcat
<1>2. \A i \in 1..m : n + i \in 1..n + m /\ n + i > n /\ (n + i) - n = i
  BY <1>1
<1>3. \A i \in 1..m : st[n + i] = t[i]
  BY <1>1, <1>2
<1>4. \A i \in 1..n : i \in 1..n + m
  BY <1>1
<1>5. \A i \in 1..n + m : i > n \/ i \in 1..n
  BY <1>1
<1> HIDE DEF st, n, m
<1>6. HasMark(st) <=> HasMark(s) \/ HasMark(t)
  BY <1>1, <1>2, <1>3, <1>4, <1>5 DEF HasMark, n, m
<1>7. OneMark(s) /\ ~HasMark(t) => OneMark(st)
  BY <1>1, <1>5 DEF OneMark, HasMark, n, m
<1>8. OneMark(t) /\ ~HasMark(s) => OneMark(st)
  <2> SUFFICES ASSUME OneMark(t), ~HasMark(s),
                      NEW i \in 1..n + m, NEW j \in 1..n + m,
                      st[i].truncated, st[j].truncated
               PROVE  i = j
    BY <1>1 DEF OneMark
  <2>1. i > n /\ j > n
    BY <1>1, <1>5 DEF HasMark, n
  <2>2. i - n = j - n
    BY <1>1, <2>1 DEF OneMark, m
  <2> QED
    BY <1>1, <2>2
<1> QED
  BY <1>6, <1>7, <1>8 DEF st

LEMMA MarksOfWithout ==
  ASSUME NEW s \in Seq(Message), NEW i \in 1..Len(s)
  PROVE  /\ HasMark(Without(s, i)) => HasMark(s)
         /\ HasMark(s) /\ ~s[i].truncated => HasMark(Without(s, i))
         /\ OneMark(s) => OneMark(Without(s, i))
         /\ OneMark(s) /\ s[i].truncated => ~HasMark(Without(s, i))
<1> DEFINE t == Without(s, i)
           n == Len(s)
           at(k) == IF k < i THEN k ELSE k + 1
<1>1. /\ n \in Nat /\ i \in 1..n /\ Len(t) = n - 1
      /\ \A k \in 1..n - 1 : k < i => t[k] = s[k] /\ k \in 1..n
      /\ \A k \in 1..n - 1 : ~(k < i) => t[k] = s[k + 1] /\ k + 1 \in 1..n
  BY MessagesOfWithout
<1>2. \A k \in 1..n - 1 : at(k) \in 1..n /\ t[k] = s[at(k)] /\ at(k) # i
  BY <1>1
<1>3. \A j, k \in 1..n - 1 : at(j) = at(k) => j = k
  BY <1>1
<1>4. \A j \in 1..n : j # i => \E k \in 1..n - 1 : t[k] = s[j]
  BY WithoutType
<1> HIDE DEF t, n, at
<1>5. HasMark(t) => HasMark(s)
  BY <1>1, <1>2 DEF HasMark, n
<1>6. HasMark(s) /\ ~s[i].truncated => HasMark(t)
  <2> SUFFICES ASSUME NEW j \in 1..n, s[j].truncated, ~s[i].truncated
               PROVE  \E k \in 1..n - 1 : t[k].truncated
    BY <1>1 DEF HasMark, n
  <2>1. j # i
    OBVIOUS
  <2> QED
    BY <1>4, <2>1
<1>7. OneMark(s) => OneMark(t)
  <2> SUFFICES ASSUME OneMark(s), NEW j \in 1..n - 1, NEW k \in 1..n - 1,
                      t[j].truncated, t[k].truncated
               PROVE  j = k
    BY <1>1 DEF OneMark
  <2>1. at(j) = at(k)
    BY <1>2 DEF OneMark, n
  <2> QED
    BY <1>3, <2>1
<1>8. OneMark(s) /\ s[i].truncated => ~HasMark(t)
  BY <1>1, <1>2 DEF OneMark, HasMark, n
<1> QED
  BY <1>5, <1>6, <1>7, <1>8 DEF t

(* What a sync request puts into the queue of its sender.                  *)
Sent(p, after, cut) ==
  IF Len(SyncMessages(after, cut)) <= Room(p) THEN SyncMessages(after, cut)
  ELSE SubSeq(SyncMessages(after, cut), 1, Room(p))

LEMMA MarksOfReply ==
  ASSUME TypeOK, NEW p \in Peers, NEW after \in 0..MaxSeq, NEW cut \in 0..MaxSeq
  PROVE  /\ Sent(p, after, cut) \in Seq(Message)
         /\ OneMark(Sent(p, after, cut))
         /\ HasMark(SyncMessages(after, cut)) <=> TruncatedReply(after)
<1> DEFINE reply == SyncMessages(after, cut)
<1>1. reply \in Seq(Message)
  BY SyncMessagesType
<1>2. \/ TruncatedReply(after) /\ HasMark(reply) /\ OneMark(reply)
      \/ ~TruncatedReply(after) /\ ~HasMark(reply)
  <2> DEFINE low  == {u \in After(after) : u.seq <= cut}
             high == {u \in After(after) : u.seq > cut}
  <2>1. \A us : SyncMessage(us, TRUE).truncated /\ ~SyncMessage(us, FALSE).truncated
    BY DEF SyncMessage
  <2>2. \/ TruncatedReply(after) /\ reply = <<SyncMessage({}, TRUE)>>
        \/ ~TruncatedReply(after) /\ reply = <<SyncMessage(After(after), FALSE)>>
        \/ ~TruncatedReply(after) /\ reply = <<SyncMessage(low, FALSE), SyncMessage(high, FALSE)>>
    BY DEF SyncMessages
  <2> HIDE DEF low, high, reply
  <2>3. ASSUME NEW m, m.truncated PROVE HasMark(<<m>>) /\ OneMark(<<m>>)
    BY <2>3 DEF HasMark, OneMark
  <2>4. ASSUME NEW m, ~m.truncated PROVE ~HasMark(<<m>>)
    BY <2>4 DEF HasMark
  <2>5. ASSUME NEW m, NEW k, ~m.truncated, ~k.truncated PROVE ~HasMark(<<m, k>>)
    BY <2>5 DEF HasMark
  <2> QED
    BY <2>1, <2>2, <2>3, <2>4, <2>5
<1>3. HasMark(reply) <=> TruncatedReply(after)
  BY <1>2
<1>4. OneMark(reply)
  BY <1>2 DEF OneMark, HasMark
<1> HIDE DEF reply
<1>5. ASSUME NEW k \in 0..QueueCap, k < Len(reply)
      PROVE  SubSeq(reply, 1, k) \in Seq(Message) /\ OneMark(SubSeq(reply, 1, k))
  <2>1. /\ SubSeq(reply, 1, k) \in Seq(Message) /\ Len(SubSeq(reply, 1, k)) = k
        /\ \A i \in 1..k : i \in 1..Len(reply) /\ SubSeq(reply, 1, k)[i] = reply[i]
    BY <1>1, <1>5, BoundsAssumption
  <2> QED
    BY <1>4, <2>1 DEF OneMark
<1>6. Sent(p, after, cut) \in Seq(Message) /\ OneMark(Sent(p, after, cut))
  <2>1. Room(p) \in 0..QueueCap /\ Len(reply) \in Nat
    BY <1>1, RoomType
  <2>2. Sent(p, after, cut) = IF Len(reply) <= Room(p) THEN reply ELSE SubSeq(reply, 1, Room(p))
    BY DEF Sent, reply
  <2>3. CASE Len(reply) <= Room(p)
    BY <1>1, <1>4, <2>2, <2>3
  <2>4. CASE Room(p) < Len(reply)
    BY <1>5, <2>1, <2>2, <2>4
  <2> QED
    BY <2>1, <2>3, <2>4, BoundsAssumption
<1> QED
  BY <1>3, <1>6 DEF reply

(***************************************************************************)
(* A peer that is not removed is not disturbed by what others do: its      *)
(* queue only grows, by every update that is published, and no mark comes. *)
(***************************************************************************)
Undisturbed(p) ==
  /\ received'[p] = received[p] /\ published \subseteq published'
  /\ HasMark(queue'[p]) => HasMark(queue[p])
  /\ OneMark(queue[p]) => OneMark(queue'[p])
  /\ p \in (live' \cap open') \ closing' =>
       /\ p \in (live \cap open) \ closing
       /\ HasMark(queue[p]) => HasMark(queue'[p])
       /\ Queued(p) \subseteq Queued(p)'
       /\ published' \subseteq published \cup Queued(p)'

LEMMA QueueStays ==
  ASSUME NEW p \in Peers, queue'[p] = queue[p], received'[p] = received[p],
         published' = published, open' \subseteq open, live' \subseteq live,
         p \in closing => p \in closing' \/ p \notin live'
  PROVE  Undisturbed(p)
BY DEF Undisturbed, HasMark, OneMark, Queued

LEMMA AppendForReader ==
  ASSUME TypeOK, NEW body \in AllBodies, AppendUpdate(body), NEW p \in Peers,
         UNCHANGED <<open, live, received>>
  PROVE  Undisturbed(p)
<1> DEFINE u == [seq |-> nextSeq, body |-> body]
           m == LiveUpdate(u)
           s == queue[p]
           t == <<m>>
<1>1. /\ u \in Update /\ published' = published \cup {u} /\ FanOut(u)
      /\ s \in Seq(Message)
  BY BoundsAssumption DEF AppendUpdate, TypeOK, Update
<1>2. m \in Message /\ m.updates = {u} /\ ~m.truncated
  BY <1>1, BoundsAssumption DEF LiveUpdate, Message
<1>3. t \in Seq(Message) /\ Len(t) = 1 /\ t[1] = m
  BY <1>2
<1>4. ~HasMark(t)
  <2> HIDE DEF t
  <2> QED
    BY <1>2, <1>3 DEF HasMark
<1>5. CASE p \in live /\ Room(p) > 0
  <2>1. queue'[p] = s \o t
    <3>1. queue'[p] = Append(s, m)
      BY <1>1, <1>5 DEF FanOut
    <3>2. \A q \in Seq(Message), n \in Message : Append(q, n) = q \o <<n>>
      OBVIOUS
    <3> QED
      BY <1>1, <1>2, <3>1, <3>2
  <2>2. HasMark(queue'[p]) <=> HasMark(s)
    <3> HIDE DEF t, s
    <3> QED
      BY <1>1, <1>3, <1>4, <2>1, MarksOfConcat
  <2>3. OneMark(s) => OneMark(queue'[p])
    <3> HIDE DEF t, s
    <3> QED
      BY <1>1, <1>3, <1>4, <2>1, MarksOfConcat
  <2>4. Queued(p) \subseteq Queued(p)' /\ u \in Queued(p)'
    <3> HIDE DEF t
    <3>1. queue'[p] = queue[p] \o t
      BY <2>1
    <3>2. Queued(p) \subseteq Queued(p)' /\ \A i \in 1..Len(t) : t[i].updates \subseteq Queued(p)'
      BY <1>3, <3>1, QueueGrows
    <3> QED
      BY <1>2, <1>3, <3>2
  <2>5. closing \subseteq closing'
    BY <1>1 DEF FanOut
  <2> QED
    BY <1>1, <2>2, <2>3, <2>4, <2>5 DEF Undisturbed
<1>6. CASE ~(p \in live /\ Room(p) > 0)
  <2>1. queue'[p] = queue[p] /\ (p \in live => p \in closing')
    BY <1>1, <1>6, RoomType DEF FanOut
  <2> QED
    BY <1>1, <2>1 DEF Undisturbed
<1> QED
  BY <1>5, <1>6

LEMMA OthersForReader ==
  ASSUME TypeOK, NEW p \in Peers,
         \/ \E body \in Bodies : Publish(body)
         \/ \E last \in log : Prune(last)
         \/ \E q \in Peers : \/ AnnounceJoin(q) \/ ReadyFails(q) \/ CloseSocket(q)
                             \/ Unregister(q) \/ AnnounceLeave(q)
         \/ \E q \in Peers \ {p}, i \in 1..QueueCap : Transmit(q, i)
         \/ UNCHANGED vars
  PROVE  Undisturbed(p)
<1>1. ASSUME NEW body \in Bodies, Publish(body) PROVE Undisturbed(p)
  <2>1. body \in AllBodies
    BY BodiesAssumption
  <2> QED
    BY <1>1, <2>1, AppendForReader DEF Publish
<1>2. ASSUME NEW q \in Peers, AnnounceJoin(q) \/ AnnounceLeave(q) PROVE Undisturbed(p)
  <2>1. "presence" \in AllBodies
    BY DEF AllBodies
  <2> QED
    BY <1>2, <2>1, AppendForReader DEF AnnounceJoin, AnnounceLeave
<1>3. ASSUME NEW q \in Peers, ReadyFails(q) \/ CloseSocket(q) PROVE Undisturbed(p)
  <2>1. CASE q = p
    <3>1. /\ queue'[p] = <<>> /\ p \notin open'
          /\ received' = received /\ published' = published
      BY <1>3, <2>1 DEF ReadyFails, CloseSocket, sessionVars, TypeOK
    <3>2. ~HasMark(<<>>) /\ OneMark(<<>>)
      BY DEF HasMark, OneMark
    <3> QED
      BY <3>1, <3>2 DEF Undisturbed
  <2>2. CASE q # p
    BY <1>3, <2>2, QueueStays DEF ReadyFails, CloseSocket, sessionVars, TypeOK
  <2> QED
    BY <2>1, <2>2
<1>4. ASSUME NEW q \in Peers, Unregister(q) PROVE Undisturbed(p)
  BY <1>4, QueueStays DEF Unregister, sessionVars
<1>5. ASSUME NEW last \in log, Prune(last) PROVE Undisturbed(p)
  BY <1>5, QueueStays DEF Prune, peerVars
<1>6. ASSUME NEW q \in Peers \ {p}, NEW i \in 1..QueueCap, Transmit(q, i)
      PROVE  Undisturbed(p)
  BY <1>6, QueueStays DEF Transmit, sessionVars, TypeOK
<1>7. CASE UNCHANGED vars
  BY <1>7, QueueStays DEF vars, sessionVars, peerVars
<1> QED
  BY <1>1, <1>2, <1>3, <1>4, <1>5, <1>6, <1>7

(* What the request of the reader itself brings: everything after the      *)
(* number it asked from, or a mark, unless it is being removed.            *)
LEMMA SyncForReader ==
  ASSUME Sound, NEW p \in Peers, NEW after \in 0..MaxSeq, NEW cut \in 0..MaxSeq,
         Sync(p, after, cut), ~HasMark(queue[p])
  PROVE  /\ UNCHANGED <<received, published, open, live>>
         /\ p \notin closing' => p \notin closing
         /\ OneMark(queue'[p]) /\ Queued(p) \subseteq Queued(p)'
         /\ p \in (live' \cap open') \ closing' /\ ~HasMark(queue'[p]) =>
              \A u \in published' : u.seq > after /\ u.body # "presence" =>
                u \in received'[p] \cup Queued(p)'
<1> DEFINE s == queue[p]
           t == Sent(p, after, cut)
<1>1. /\ s \in Seq(Message) /\ t \in Seq(Message) /\ OneMark(t)
      /\ HasMark(SyncMessages(after, cut)) <=> TruncatedReply(after)
  BY MarksOfReply DEF Sound, TypeOK
<1>2. queue'[p] = s \o t
  BY DEF Sync, Sent, Sound, TypeOK
<1>3. /\ UNCHANGED <<received, published, open, live>>
      /\ p \notin closing' => p \notin closing /\ t = SyncMessages(after, cut)
      /\ base'[p] = IF TruncatedReply(after) THEN nextSeq - 1 ELSE after
  BY DEF Sync, Sent, sessionVars, Sound, TypeOK
<1> HIDE DEF t
<1>4. Queued(p) \subseteq Queued(p)'
  BY <1>1, <1>2, QueueGrows DEF Sound
<1> HIDE DEF s
<1>5. OneMark(queue'[p]) /\ (HasMark(queue'[p]) <=> HasMark(t))
  BY <1>1, <1>2, MarksOfConcat DEF s
<1>6. SyncedPeerHasAll'
  BY SyncKeepsInvariant DEF Sound
<1>7. ASSUME p \in (live' \cap open') \ closing', ~HasMark(queue'[p]),
             NEW u \in published', u.seq > after, u.body # "presence"
      PROVE  u \in received'[p] \cup Queued(p)'
  <2>1. base'[p] = after
    BY <1>1, <1>3, <1>5, <1>7
  <2> QED
    BY <1>6, <1>7, <2>1 DEF SyncedPeerHasAll
<1> QED
  BY <1>3, <1>4, <1>5, <1>7

LEMMA TransmitForReader ==
  ASSUME Sound, NEW p \in Peers, NEW i \in 1..QueueCap, Transmit(p, i), OneMark(queue[p])
  PROVE  /\ queue[p][i] \in Message /\ queue[p][i].updates \subseteq published
         /\ UNCHANGED <<published, open, live, closing>>
         /\ received'[p] = received[p] \cup queue[p][i].updates
         /\ Queued(p) \subseteq received'[p] \cup Queued(p)'
         /\ OneMark(queue'[p])
         /\ HasMark(queue[p]) <=> queue[p][i].truncated \/ HasMark(queue'[p])
         /\ ~(queue[p][i].truncated /\ HasMark(queue'[p]))
<1> DEFINE s == queue[p]
<1>1. /\ s \in Seq(Message) /\ i \in 1..Len(s)
      /\ queue'[p] = Without(s, i)
      /\ received'[p] = received[p] \cup s[i].updates
      /\ UNCHANGED <<published, open, live, closing>>
  BY DEF Transmit, Sound, TypeOK, sessionVars
<1>2. s[i].updates \subseteq published
  BY <1>1 DEF Sound, QueuesInOrder, Published
<1>3. Queued(p) \subseteq received'[p] \cup Queued(p)'
  BY HandedOver DEF Sound
<1>4. OneMark(s)
  OBVIOUS
<1> HIDE DEF s
<1>5. /\ OneMark(queue'[p])
      /\ HasMark(s) <=> s[i].truncated \/ HasMark(queue'[p])
      /\ ~(s[i].truncated /\ HasMark(queue'[p]))
  <2>1. s[i].truncated => HasMark(s)
    BY <1>1 DEF HasMark
  <2> QED
    BY <1>1, <1>4, <2>1, MarksOfWithout
<1>6. s[i] \in Message
  BY <1>1
<1> QED
  BY <1>1, <1>2, <1>3, <1>5, <1>6 DEF s

(* A connection begins with an empty queue.                                *)
LEMMA RegisterForReader ==
  ASSUME Sound, NEW p \in Peers, Register(p)
  PROVE  received'[p] = {} /\ ~HasMark(queue'[p]) /\ OneMark(queue'[p])
<1>1. received'[p] = {} /\ queue'[p] = <<>>
  BY DEF Register, Sound, TypeOK
<1> QED
  BY <1>1 DEF HasMark, OneMark

LEMMA InitSound == Init => Sound
<1> SUFFICES ASSUME Init PROVE Sound
  OBVIOUS
<1>1. IInv
  BY DEF Init, IInv, Numbered, Kept, SyncedPeerHasAll
<1>2. UniqueNumbers
  BY FS_EmptySet DEF Init, UniqueNumbers
<1> QED
  BY <1>1, <1>2, InitType, InitOrder DEF Sound

LEMMA NextSound == ASSUME Sound, [Next]_vars PROVE Sound'
<1>1. TypeOK' /\ IInv' /\ QueuesInOrder'
  BY NextType, IInvInductive, InOrderInductive DEF Sound
<1>2. UniqueNumbers'
  <2>1. CASE published' = published
    BY <2>1 DEF Sound, UniqueNumbers
  <2>2. ASSUME NEW body, AppendUpdate(body) PROVE UniqueNumbers'
    <3>1. PICK u : u.seq = nextSeq /\ published' = published \cup {u}
      BY <2>2 DEF AppendUpdate
    <3>2. IsFiniteSet(published')
      BY <3>1, FS_AddElement DEF Sound, UniqueNumbers
    <3>3. \A v \in published : v.seq < nextSeq /\ v.seq \in Nat /\ nextSeq \in Nat
      BY BoundsAssumption DEF Sound, IInv, Numbered, TypeOK, Update
    <3>4. \A v \in published : v.seq # u.seq
      BY <3>1, <3>3
    <3> QED
      BY <3>1, <3>2, <3>4 DEF Sound, UniqueNumbers
  <2> QED
    BY <2>1, <2>2
    DEF Next, PeerStep, SessionStep, SyncStep, Publish, Register, AnnounceJoin,
        ReadyFails, Transmit, CloseSocket, Unregister, AnnounceLeave, Prune, Sync,
        vars, sessionVars
<1> QED
  BY <1>1, <1>2 DEF Sound
=============================================================================
