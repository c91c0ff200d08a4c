---------------------------- MODULE RelayReplay ----------------------------
(***************************************************************************)
(* The replay log of one relay session (crates/falcondeck-relay/src/app.rs)*)
(* and its fan-out to the session's connected client peers.                *)
(*                                                                         *)
(* A session numbers its updates, keeps a suffix of them, and owes every   *)
(* peer that asks `sync after_seq` either all retained updates after that  *)
(* number or a truncation marker.  Appending, replaying and registering    *)
(* happen under one store lock and are one action each; the tail of        *)
(* register_peer and unregister_peer (the presence broadcast) runs after   *)
(* the lock was released and is an action of its own that is owed by the   *)
(* state (joining, leaving).                                               *)
(*                                                                         *)
(* Abstractions: an update is its number and the kind of its body; byte    *)
(* budgets are counts; the peers are clients that negotiated neither       *)
(* compact_index nor scoped_events.                                        *)
(***************************************************************************)
EXTENDS Naturals, Sequences, FiniteSets

CONSTANTS
  Peers,        (* slots for client connections                            *)
  Bodies,       (* kinds of update appended by others than these peers: the
                   daemon, its joins and leaves, and the action queue     *)
  MaxSeq,       (* bound of the model: updates ever appended               *)
  QueueCap,     (* PEER_QUEUE_CAPACITY and PEER_QUEUE_MAX_BYTES            *)
  ReplayMax     (* WS_SYNC_REPLAY_MAX_UPDATES and _MAX_BYTES               *)

AllBodies == {"presence",                     \* MachinePresence
              "event", "unreadable",          \* Encrypted, with or without the
                                              \* key the clients hold
              "status",                       \* ActionStatus
              "bootstrap", "foreign"}         \* SessionBootstrap, by addressee

ASSUME BodiesAssumption == Bodies \subseteq AllBodies
ASSUME BoundsAssumption ==
  MaxSeq \in Nat \ {0} /\ QueueCap \in Nat \ {0} /\ ReplayMax \in Nat \ {0}

VARIABLES
  nextSeq,      (* SessionRecord.next_seq                                  *)
  oldestLost,   (* SessionRecord.oldest_lost_seq                           *)
  log,          (* SessionRecord.updates; a Vec sorted by seq              *)
  open,         (* peers whose socket_loop still runs                      *)
  live,         (* LiveSession.peers                                       *)
  closing,      (* live peers whose unregister_peer has been started       *)
  joining,      (* peers whose after_peer_ready is still to come           *)
  leaving,      (* removed peers whose presence broadcast is to come       *)
  queue,        (* PeerQueue and transport lanes of each peer, oldest first*)
  published,    (* history: every update ever appended                     *)
  received,     (* history: updates handed to each peer's socket           *)
  base          (* history: where each peer's completed sync begins        *)

sessionVars == <<nextSeq, oldestLost, log, published>>
peerVars    == <<open, live, closing, joining, leaving, queue, received, base>>
vars        == <<sessionVars, peerVars>>

Unsynced == MaxSeq + 1      \* base of a peer whose sync was not answered yet

Update  == [seq : 1..MaxSeq, body : AllBodies]
Message == [type : {"update", "sync"}, updates : SUBSET Update,
            next : 0..MaxSeq + 1, truncated : BOOLEAN]

Larger(a, b) == IF a >= b THEN a ELSE b

(***************************************************************************)
(* The replay a peer is owed, and whether it can be given.                 *)
(***************************************************************************)
After(seq) == {u \in log : u.seq > seq}

HistoryTruncated(after) == after >= nextSeq \/ after + 1 < oldestLost

ReplayFits(updates) == Cardinality(updates) <= ReplayMax

TruncatedReply(after) == HistoryTruncated(after) \/ ~ReplayFits(After(after))

Queued(p) == UNION {queue[p][i].updates : i \in 1..Len(queue[p])}

(***************************************************************************)
(* try_send of some messages to one peer: the messages that fit are        *)
(* queued; a message that does not fit, or a socket that is gone, starts   *)
(* the removal of the peer, which stays live until unregister_peer runs.   *)
(***************************************************************************)
(* Mutant of Room: a peer may always be sent QueueCap more messages.       *)
RoomUnbounded(p) == IF p \in open THEN QueueCap ELSE 0

Room(p) == IF p \in open THEN QueueCap - Len(queue[p]) ELSE 0

LiveUpdate(u) ==
  [type |-> "update", updates |-> {u}, next |-> 0, truncated |-> FALSE]

(* Mutant of FanOut: a peer that missed an update stays.                   *)
FanOutWithoutRemoval(u) ==
  /\ queue' = [p \in Peers |-> IF p \in live /\ Room(p) > 0
                                 THEN Append(queue[p], LiveUpdate(u))
                                 ELSE queue[p]]
  /\ UNCHANGED closing

FanOut(u) ==
  /\ queue' = [p \in Peers |-> IF p \in live /\ Room(p) > 0
                                 THEN Append(queue[p], LiveUpdate(u))
                                 ELSE queue[p]]
  /\ closing' = closing \cup {p \in live : Room(p) = 0}

(***************************************************************************)
(* append_update_locked: a presence supersedes the presences before it     *)
(* without counting them as lost; every body takes the next number and is  *)
(* fanned out before the lock is released.                                 *)
(***************************************************************************)
AppendUpdate(body) ==
  LET u == [seq |-> nextSeq, body |-> body] IN
  /\ nextSeq <= MaxSeq
  /\ nextSeq' = nextSeq + 1
  /\ log' = {v \in log : body = "presence" => v.body # "presence"} \cup {u}
  /\ published' = published \cup {u}
  /\ FanOut(u)
  /\ UNCHANGED oldestLost

(* A daemon's `update` message, or an ActionStatus of the action queue.    *)
Publish(body) ==
  /\ AppendUpdate(body)
  /\ UNCHANGED <<open, live, joining, leaving, received, base>>

(* register_peer: from here on the peer is part of the fan-out, before it  *)
(* has asked for the updates it missed.                                    *)
Register(p) ==
  /\ p \notin open \cup live \cup joining \cup leaving
  /\ open' = open \cup {p}
  /\ live' = live \cup {p}
  /\ joining' = joining \cup {p}
  /\ queue' = [queue EXCEPT ![p] = <<>>]
  /\ received' = [received EXCEPT ![p] = {}]
  /\ base' = [base EXCEPT ![p] = Unsynced]
  /\ UNCHANGED <<sessionVars, closing, leaving>>

(* after_peer_ready: the presence broadcast that follows registration. The *)
(* socket loop reads the peer's messages only after it.                    *)
AnnounceJoin(p) ==
  /\ p \in joining
  /\ joining' = joining \ {p}
  /\ AppendUpdate("presence")
  /\ UNCHANGED <<open, live, leaving, received, base>>

(* The Ready frame could not be written: the loop is never entered.        *)
ReadyFails(p) ==
  /\ p \in joining \cap open
  /\ joining' = joining \ {p}
  /\ open' = open \ {p}
  /\ closing' = closing \cup ({p} \cap live)
  /\ queue' = [queue EXCEPT ![p] = <<>>]
  /\ UNCHANGED <<sessionVars, live, leaving, received, base>>

(***************************************************************************)
(* send_sync_to_peer: selection and queueing under one lock.  A truncated  *)
(* reply carries no updates; an intact one is cut into messages by size,   *)
(* here into at most two at any point.                                     *)
(***************************************************************************)
SyncMessage(updates, truncated) ==
  [type |-> "sync", updates |-> updates, next |-> nextSeq,
   truncated |-> truncated]

SyncMessages(after, cut) ==
  LET low  == {u \in After(after) : u.seq <= cut}
      high == {u \in After(after) : u.seq > cut}
  IN IF TruncatedReply(after) THEN <<SyncMessage({}, TRUE)>>
     ELSE IF low = {} \/ high = {} THEN <<SyncMessage(After(after), FALSE)>>
     ELSE <<SyncMessage(low, FALSE), SyncMessage(high, FALSE)>>

(* handle_message(Sync) by a peer that is still registered.                *)
Sync(p, after, cut) ==
  LET reply == SyncMessages(after, cut)
      fits  == Len(reply) <= Room(p)
  IN
  /\ p \in (live \cap open) \ joining
  /\ queue' = [queue EXCEPT ![p] =
                 IF fits THEN @ \o reply ELSE @ \o SubSeq(reply, 1, Room(p))]
  /\ closing' = IF fits THEN closing ELSE closing \cup {p}
  /\ base' = [base EXCEPT ![p] =
                 IF TruncatedReply(after) THEN nextSeq - 1 ELSE after]
  /\ UNCHANGED <<sessionVars, open, live, joining, leaving, received>>

(* A message leaves for the peer, also after the peer was unregistered:    *)
(* the channel is drained before it reports closed.  Bootstraps travel in  *)
(* the transport's control lane and may pass what waits before them.       *)
InControlLane(m) ==
  m.type = "update" /\ \A u \in m.updates : u.body \in {"bootstrap", "foreign"}

Without(s, i) ==
  [j \in 1..Len(s) - 1 |-> IF j < i THEN s[j] ELSE s[j + 1]]

(* Mutant of Transmit: any message may pass the others.                    *)
TransmitAnyOrder(p, i) ==
  /\ p \in open \ joining
  /\ i \in 1..Len(queue[p])
  /\ queue' = [queue EXCEPT ![p] = Without(@, i)]
  /\ received' = [received EXCEPT ![p] = @ \cup queue[p][i].updates]
  /\ UNCHANGED <<sessionVars, open, live, closing, joining, leaving, base>>

Transmit(p, i) ==
  /\ p \in open \ joining
  /\ i \in 1..Len(queue[p])
  /\ i = 1 \/ InControlLane(queue[p][i])
  /\ queue' = [queue EXCEPT ![p] = Without(@, i)]
  /\ received' = [received EXCEPT ![p] = @ \cup queue[p][i].updates]
  /\ UNCHANGED <<sessionVars, open, live, closing, joining, leaving, base>>

(* The loop of p ends (peer gone, idle, write failed, channel closed).     *)
CloseSocket(p) ==
  /\ p \in open \ joining
  /\ open' = open \ {p}
  /\ queue' = [queue EXCEPT ![p] = <<>>]
  /\ closing' = closing \cup ({p} \cap live)
  /\ UNCHANGED <<sessionVars, live, joining, leaving, received, base>>

(* Mutant of Unregister: only after the socket loop ended by itself.       *)
UnregisterClosedOnly(p) ==
  /\ p \in closing \ open
  /\ live' = live \ {p}
  /\ closing' = closing \ {p}
  /\ leaving' = leaving \cup {p}
  /\ UNCHANGED <<sessionVars, open, joining, queue, received, base>>

(* unregister_peer up to the release of the store lock.                    *)
Unregister(p) ==
  /\ p \in closing
  /\ live' = live \ {p}
  /\ closing' = closing \ {p}
  /\ leaving' = leaving \cup {p}
  /\ UNCHANGED <<sessionVars, open, joining, queue, received, base>>

(* The presence broadcast at the end of unregister_peer.                   *)
AnnounceLeave(p) ==
  /\ p \in leaving
  /\ leaving' = leaving \ {p}
  /\ AppendUpdate("presence")
  /\ UNCHANGED <<open, live, joining, received, base>>

(* Mutant of Prune: the lost range is not recorded.                        *)
PruneSilently(last) ==
  /\ last \in log
  /\ log' = After(last.seq)
  /\ UNCHANGED <<nextSeq, oldestLost, published, peerVars>>

(* prune_state: retention drops a prefix of the log by number, whatever    *)
(* limit (age, count or bytes) asked for it.                               *)
Prune(last) ==
  /\ last \in log
  /\ log' = After(last.seq)
  /\ oldestLost' = Larger(oldestLost, last.seq + 1)
  /\ UNCHANGED <<nextSeq, published, peerVars>>

Init ==
  /\ nextSeq = 1
  /\ oldestLost = 0
  /\ log = {}
  /\ published = {}
  /\ open = {} /\ live = {} /\ closing = {} /\ joining = {} /\ leaving = {}
  /\ queue = [p \in Peers |-> <<>>]
  /\ received = [p \in Peers |-> {}]
  /\ base = [p \in Peers |-> Unsynced]

PeerStep(p) ==
  \/ Register(p) \/ AnnounceJoin(p) \/ ReadyFails(p)
  \/ \E i \in 1..QueueCap : Transmit(p, i)
  \/ CloseSocket(p) \/ Unregister(p) \/ AnnounceLeave(p)

SessionStep ==
  \/ \E body \in Bodies : Publish(body)
  \/ \E last \in log : Prune(last)

(* A client asks from any number it may hold.                              *)
SyncStep ==
  \E p \in Peers, after \in 0..MaxSeq, cut \in 0..MaxSeq : Sync(p, after, cut)

Next == (\E p \in Peers : PeerStep(p)) \/ SessionStep \/ SyncStep

Spec == Init /\ [][Next]_vars

(* The socket loop and the spawned removal task are always scheduled.      *)
Fairness == \A p \in Peers : WF_vars(Transmit(p, 1)) /\ WF_vars(Unregister(p))

FairSpec == Spec /\ Fairness

-----------------------------------------------------------------------------
TypeOK ==
  /\ nextSeq \in 1..MaxSeq + 1
  /\ oldestLost \in 0..MaxSeq + 1
  /\ log \in SUBSET Update
  /\ published \in SUBSET Update
  /\ open \in SUBSET Peers /\ live \in SUBSET Peers /\ closing \in SUBSET live
  /\ joining \in SUBSET Peers /\ leaving \in SUBSET Peers
  /\ queue \in [Peers -> Seq(Message)]
  /\ \A p \in Peers : Len(queue[p]) <= QueueCap
  /\ received \in [Peers -> SUBSET Update]
  /\ base \in [Peers -> 0..MaxSeq + 1]

(***************************************************************************)
(* A sync that is not answered with a truncation marker misses nothing:    *)
(* whatever supersession and retention removed from the log, a peer that   *)
(* resumes after any number still gets every update beyond it that is not  *)
(* an outdated presence (append_update_locked, prune_state,                *)
(* history_truncated).                                                     *)
(***************************************************************************)
ReplayComplete ==
  \A after \in 0..MaxSeq :
    ~HistoryTruncated(after) =>
      \A u \in published : u.seq > after /\ u.body # "presence" => u \in log

(***************************************************************************)
(* Replay and live fan-out leave no gap between them: once the sync of a   *)
(* peer was answered, every later update, and every update between its     *)
(* cursor and the reply, was handed to its socket or waits in its queue,   *)
(* unless the peer is being removed (the lock in send_sync_to_peer and     *)
(* append_update_locked, queue_message).                                   *)
(***************************************************************************)
SyncedPeerHasAll ==
  \A p \in (live \cap open) \ closing :
    \A u \in published :
      u.seq > base[p] /\ u.body # "presence" => u \in received[p] \cup Queued(p)

(***************************************************************************)
(* The order of the socket has no holes: once a peer has read its reply to *)
(* the end, an update it is handed in order comes after every update it is *)
(* owed before that one (fan-out under the store lock; bootstraps, which   *)
(* overtake in the control lane, are excepted).                            *)
(***************************************************************************)
DeliveredWithoutGaps ==
  \A p \in (live \cap open) \ closing :
    (\A i \in 1..Len(queue[p]) : queue[p][i].type = "update") =>
      \A u \in published, v \in received[p] :
        /\ base[p] < u.seq /\ u.seq < v.seq
        /\ u.body # "presence" /\ v.body \notin {"bootstrap", "foreign"}
        => u \in received[p]

(***************************************************************************)
(* A peer that stays registered is sent every update it is owed: its queue *)
(* is drained, and a peer whose queue overflowed does not stay registered. *)
(***************************************************************************)
OwedUpdatesArrive ==
  \A p \in Peers : \A s \in 1..MaxSeq :
    (p \in live /\ \E u \in published : /\ u.seq = s /\ u.seq > base[p]
                                        /\ u.body # "presence")
      ~> (p \notin live \/ \E u \in received[p] : u.seq = s)
=============================================================================
