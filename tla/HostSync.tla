----------------------------- MODULE HostSync -----------------------------
(***************************************************************************)
(* A relay session and one host client that follows it across              *)
(* connections: RelayReplay and HostClient joined by the socket.  Every    *)
(* connection uses a peer slot of the relay; the client knows the slot of  *)
(* its current socket and ignores the others.                              *)
(***************************************************************************)
EXTENDS Naturals, Sequences, FiniteSets

CONSTANTS Peers, Bodies, MaxSeq, QueueCap, ReplayMax, MaxParked,
          NoPeer    (* no socket                                           *)

ASSUME NoPeerAssumption == NoPeer \notin Peers
ASSUME BoundsAssumption ==
  /\ MaxSeq \in Nat \ {0} /\ QueueCap \in Nat \ {0} /\ ReplayMax \in Nat \ {0}
  /\ MaxParked \in Nat \ {0}

VARIABLES
  nextSeq, oldestLost, log, open, live, closing, joining, leaving, queue,
  published, received, base,
  cursor, key, pending, parked, evicted, truncNext, recovery, snapshot,
  snapPoint, flush, batch, nextCursor, events, deferred, applied, covered,
  sock,         (* peer slot of this.socket                                *)
  request,      (* a sync request on its way to the relay, or NoRequest    *)
  resume        (* history: the cursor at the start of this connection     *)

Relay  == INSTANCE RelayReplay
Client == INSTANCE HostClient

ASSUME BodiesAssumption == Bodies \subseteq Relay!AllBodies

linkVars   == <<sock, request, resume>>
relayVars  == <<nextSeq, oldestLost, log, open, live, closing, joining, leaving,
                queue, published, received, base>>
clientVars == <<cursor, key, pending, parked, evicted, truncNext, recovery,
                snapshot, snapPoint, flush, batch, nextCursor, events,
                deferred, applied, covered>>
vars == <<relayVars, clientVars, linkVars>>

NoRequest == MaxSeq + 1

(* connect and onopen: the relay registers the peer, the client asks for   *)
(* everything after its cursor.                                            *)
Connect(p) ==
  /\ sock = NoPeer
  /\ Relay!Register(p)
  /\ sock' = p /\ request' = cursor /\ resume' = cursor
  /\ UNCHANGED clientVars

AnswerSync(cut) ==
  /\ request # NoRequest
  /\ Relay!Sync(sock, request, cut)
  /\ request' = NoRequest
  /\ UNCHANGED <<clientVars, sock, resume>>

Deliver(i) ==
  /\ sock # NoPeer
  /\ Relay!Transmit(sock, i)
  /\ Client!Receive(queue[sock][i])
  /\ UNCHANGED linkVars

(* What reaches a socket the client has given up is ignored.               *)
DeliverStale(p, i) ==
  /\ p # sock
  /\ Relay!Transmit(p, i)
  /\ UNCHANGED <<clientVars, linkVars>>

(* The client loses or gives up its socket; the relay notices on its own.  *)
Reconnect ==
  /\ sock # NoPeer
  /\ Client!ScheduleReconnect
  /\ sock' = NoPeer /\ request' = NoRequest
  /\ UNCHANGED <<relayVars, resume>>

RelayOnly(A) == A /\ UNCHANGED <<clientVars, linkVars>>

ClientOnly(A) == A /\ UNCHANGED <<relayVars, linkVars>>

RelayStep ==
  \/ \E body \in Bodies : RelayOnly(Relay!Publish(body))
  \/ \E last \in log : RelayOnly(Relay!Prune(last))
  \/ \E p \in Peers : \/ RelayOnly(Relay!AnnounceJoin(p))
                      \/ RelayOnly(Relay!ReadyFails(p))
                      \/ RelayOnly(Relay!CloseSocket(p))
                      \/ RelayOnly(Relay!Unregister(p))
                      \/ RelayOnly(Relay!AnnounceLeave(p))

(* The snapshot request travels over the same socket.                      *)
SnapshotProgress ==
  \/ sock \in live \cap open /\ ClientOnly(Client!SnapshotTaken(nextSeq))
  \/ sock \in open /\ ClientOnly(Client!SnapshotArrives)

SnapshotStep ==
  /\ sock # NoPeer
  /\ \/ SnapshotProgress
     \/ ClientOnly(Client!Refresh)
     \/ ClientOnly(Client!SnapshotFails)

Init == /\ Relay!Init /\ Client!Init
        /\ sock = NoPeer /\ request = NoRequest /\ resume = 0

Next ==
  \/ \E p \in Peers : Connect(p)
  \/ \E cut \in 0..MaxSeq : AnswerSync(cut)
  \/ \E i \in 1..QueueCap : Deliver(i)
  \/ \E p \in Peers, i \in 1..QueueCap : DeliverStale(p, i)
  \/ Reconnect
  \/ RelayStep
  \/ ClientOnly(Client!FlushStep)
  \/ SnapshotStep

Spec == Init /\ [][Next]_vars

(* The socket loop and the writer of the relay are scheduled, the client's *)
(* event loop runs, and the daemon answers.                                *)
Fairness ==
  /\ WF_vars(\E cut \in 0..MaxSeq : AnswerSync(cut))
  /\ WF_vars(Deliver(1))
  /\ WF_vars(ClientOnly(Client!FlushStep))
  /\ WF_vars(SnapshotProgress)

FairSpec == Spec /\ Fairness

-----------------------------------------------------------------------------
TypeOK ==
  /\ Relay!TypeOK
  /\ cursor \in 0..MaxSeq /\ nextCursor \in 0..MaxSeq /\ key \in BOOLEAN
  /\ pending \in Seq(Relay!Update) /\ batch \in Seq(Relay!Update)
  /\ parked \in Seq(Relay!Update) /\ Len(parked) <= MaxParked /\ evicted \in BOOLEAN
  /\ snapshot \in {"idle", "asked", "taken"} /\ snapPoint \in 0..MaxSeq + 1
  /\ recovery \in 0..2 /\ truncNext \in 0..MaxSeq + 1
  /\ flush \in {"idle", "loop", "batch", "tail", "stale"}
  /\ events \subseteq 1..MaxSeq /\ deferred \in 0..MaxSeq
  /\ applied \subseteq 1..MaxSeq /\ covered \in 0..MaxSeq
  /\ sock \in Peers \cup {NoPeer} /\ request \in 0..MaxSeq + 1
  /\ resume \in 0..MaxSeq

(* The state derived from the updates up to seq lacks the update u.        *)
Missing(u) == u.body = "event" /\ u.seq \notin applied /\ u.seq > covered

Elements(s) == {s[i] : i \in 1..Len(s)}

(* Updates the client holds but has not consumed.                          *)
Held == Elements(pending) \cup Elements(batch) \cup Elements(parked)

(***************************************************************************)
(* docs/remote-sync-qa.md:65, "no cursor may advance beyond an unapplied   *)
(* update": what lies at or before the cursor is in the derived state.     *)
(***************************************************************************)
CursorNeverSkips ==
  \A u \in published : u.seq <= cursor => ~Missing(u)

(***************************************************************************)
(* What the cursor may pass on a connection is still going to be applied   *)
(* on that connection: an event beyond the point the connection resumed    *)
(* from is applied, part of a snapshot, held by the client, on its way, or *)
(* due to the sync request or the recovery under way (an eviction from the *)
(* parked updates ends in a recovery as soon as the key arrives).          *)
(***************************************************************************)
PassedIsOnTheWay ==
  (sock # NoPeer /\ sock \in (live \cap open) \ closing) =>
    \A u \in published :
      resume < u.seq /\ u.seq <= cursor /\ Missing(u) =>
        \/ request # NoRequest
        \/ u \in Held \/ u.seq \in events
        \/ u \in Relay!Queued(sock)
        \/ recovery > 0 \/ evicted
        \/ \E i \in 1..Len(queue[sock]) : queue[sock][i].truncated

(***************************************************************************)
(* "The cursor is intentionally still at its last acknowledged value here" *)
(* (remote-host-client.ts:868): the cursor passes a decrypted event only   *)
(* in the step that applies it.                                            *)
(***************************************************************************)
CursorWaitsForEvents ==
  [][\A e \in events \cup events' : cursor < e /\ e <= cursor' => e \in applied']_vars

(***************************************************************************)
(* The backlog, the barrier and the recovery never wait on each other      *)
(* forever: on a connection that stays up and has its key, every event     *)
(* beyond the point it resumed from ends up in the derived state.          *)
(***************************************************************************)
Linked == sock \in (live \cap open) \ (closing \cup joining) /\ key

EventsReachTheClient ==
  \A s \in 1..MaxSeq :
    (Linked /\ resume < s /\ \E u \in published : u.seq = s /\ Missing(u))
      ~> (~Linked \/ resume >= s \/ s \in applied \/ s <= covered)
=============================================================================
