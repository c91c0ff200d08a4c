---------------------------- MODULE HostClient ----------------------------
(***************************************************************************)
(* The replay side of RemoteHostClient                                     *)
(* (packages/client-core/src/remote-host-client.ts) with the host          *)
(* connection that owns it (apps/desktop/src/hosts.ts): received updates   *)
(* wait in a backlog, one flush at a time consumes them, events are        *)
(* applied to the derived state, and the cursor from which the next        *)
(* connection resumes follows.                                             *)
(*                                                                         *)
(* JavaScript runs to completion between awaits.  A flush is cut into the  *)
(* steps of its loop, and only the real awaits (a decryption, a snapshot   *)
(* in flight) are states in which another callback may run: AtAwait.       *)
(*                                                                         *)
(* The module has no Next of its own: HostSync joins these actions with    *)
(* the relay's.                                                            *)
(***************************************************************************)
EXTENDS Naturals, Sequences, FiniteSets

CONSTANTS
  MaxSeq,      (* bound of the model: highest update number                *)
  MaxParked    (* MAX_PENDING_ENCRYPTED_UPDATES                            *)

VARIABLES
  cursor,      (* this.cursor, sent as after_seq by the next connection    *)
  key,         (* this.sessionCrypto is set                                *)
  pending,     (* this.pendingUpdates                                      *)
  parked,      (* this.parkedEncryptedUpdates                              *)
  evicted,     (* this.evictedWhileParked                                  *)
  truncNext,   (* this.pendingTruncationNextSeq, 0 for null                *)
  recovery,    (* snapshots that snapshotRecoveryPromise has still to load;
                  not 0 is this.snapshotRecoveryRequired                   *)
  snapshot,    (* refreshSnapshot: idle, asked, or answered by the daemon  *)
  snapPoint,   (* updates below this number are part of the answer         *)
  flush,       (* where the one flush in progress stands                   *)
  batch,       (* its batch, from the update it looks at                   *)
  nextCursor,  (* its nextCursor                                           *)
  events,      (* its daemonEvents, as update numbers                      *)
  deferred,    (* its deferredBootstrapSeq, 0 for null                     *)
  applied,     (* history: numbers of the events in the derived state      *)
  covered      (* history: a snapshot brought the updates up to this one   *)

flushVars  == <<flush, batch, nextCursor, events, deferred>>
recoverVars == <<truncNext, recovery, snapshot, snapPoint>>
vars == <<cursor, key, pending, parked, evicted, recoverVars, flushVars,
          applied, covered>>

Encrypted == {"event", "unreadable"}

Higher(a, b) == IF a >= b THEN a ELSE b

(* The updates of a replay message in the order of their numbers.          *)
InOrder(updates) ==
  CHOOSE s \in [1..Cardinality(updates) -> updates] :
    \A i, j \in DOMAIN s : i < j => s[i].seq < s[j].seq

WaitingForRecovery == recovery > 0 /\ key

Decrypting == flush = "batch" /\ batch # <<>> /\ Head(batch).body \in Encrypted
              /\ key

(* onEvents does not settle while a snapshot request is in flight.         *)
HeldByBarrier == flush = "batch" /\ batch = <<>> /\ events # {}
                 /\ snapshot # "idle"

AtAwait ==
  \/ flush \in {"idle", "stale"}
  \/ flush = "loop" /\ pending # <<>> /\ WaitingForRecovery
  \/ flush = "tail" /\ WaitingForRecovery
  \/ Decrypting
  \/ HeldByBarrier

(* refreshSnapshot joins the request in flight, if there is one.           *)
AskSnapshot == snapshot' = IF snapshot = "idle" THEN "asked" ELSE snapshot

-----------------------------------------------------------------------------
(***************************************************************************)
(* scheduleReconnect: everything that belongs to the connection is         *)
(* dropped.  A flush that waits for a snapshot ends with the request; one  *)
(* that waits for a decryption is stale and ends when that settles.  A     *)
(* backlog over its limit takes this step instead of Receive.              *)
(***************************************************************************)
ScheduleReconnect ==
  /\ AtAwait
  /\ pending' = <<>> /\ parked' = <<>> /\ evicted' = FALSE
  /\ truncNext' = 0 /\ recovery' = 0
  /\ snapshot' = "idle" /\ snapPoint' = 0
  /\ flush' = IF Decrypting \/ flush = "stale" THEN "stale" ELSE "idle"
  /\ batch' = <<>> /\ events' = {} /\ deferred' = 0 /\ nextCursor' = cursor
  /\ UNCHANGED <<cursor, key, applied, covered>>

(* The stale flush sees another generation and returns; its finally block  *)
(* starts the flush of what arrived meanwhile.                             *)
StaleFlushEnds ==
  /\ flush = "stale"
  /\ flush' = IF pending = <<>> THEN "idle" ELSE "loop"
  /\ UNCHANGED <<cursor, key, pending, parked, evicted, recoverVars, batch,
                 nextCursor, events, deferred, applied, covered>>

(* handleServerMessage of an `update` or a `sync`.                         *)
Receive(m) ==
  /\ AtAwait
  /\ pending' = pending \o InOrder(m.updates)
  /\ flush' = IF flush = "idle" THEN "loop" ELSE flush
  /\ IF m.truncated
       THEN /\ truncNext' = Higher(truncNext, m.next)
            /\ recovery' = IF key THEN recovery + 1 ELSE 1
            /\ IF key THEN AskSnapshot ELSE UNCHANGED snapshot
       ELSE UNCHANGED <<truncNext, recovery, snapshot>>
  /\ UNCHANGED <<cursor, key, parked, evicted, snapPoint, batch, nextCursor,
                 events, deferred, applied, covered>>

-----------------------------------------------------------------------------
(* The steps of flushUpdates.                                              *)
TakeBatch ==
  /\ flush = "loop" /\ pending # <<>> /\ ~WaitingForRecovery
  /\ flush' = "batch"
  /\ batch' = pending /\ pending' = <<>>
  /\ nextCursor' = cursor /\ events' = {} /\ deferred' = 0
  /\ UNCHANGED <<cursor, key, parked, evicted, recoverVars, applied, covered>>

(* advanceCursor: not while updates are parked.                            *)
Advanced(seq) == IF parked = <<>> THEN Higher(nextCursor, seq) ELSE nextCursor

NextIs(bodies) == flush = "batch" /\ batch # <<>> /\ Head(batch).body \in bodies

SkipUpdate ==
  /\ NextIs({"presence", "status", "foreign"})
  /\ nextCursor' = Advanced(Head(batch).seq)
  /\ batch' = Tail(batch)
  /\ UNCHANGED <<cursor, key, pending, parked, evicted, recoverVars, flush,
                 events, deferred, applied, covered>>

(* Mutant of InstallKey: the parked updates are dropped.                   *)
InstallKeyForgetting(ready) ==
  /\ NextIs({"bootstrap"})
  /\ key' = TRUE
  /\ batch' = Tail(batch) /\ parked' = <<>> /\ evicted' = FALSE
  /\ nextCursor' = Higher(nextCursor, Head(batch).seq)
  /\ cursor' = nextCursor'
  /\ UNCHANGED <<pending, recoverVars, flush, events, deferred, applied, covered>>

(* The bootstrap of this client installs the key, puts the parked updates  *)
(* after itself, and stores the cursor at once.  The first key makes the   *)
(* host connection load a snapshot if the daemon is known to be ready.     *)
InstallKey(ready) ==
  LET seq   == Head(batch).seq
      later == IF parked = <<>> THEN deferred ELSE seq
  IN
  /\ NextIs({"bootstrap"})
  /\ key' = TRUE
  /\ batch' = parked \o Tail(batch)
  /\ parked' = <<>>
  /\ deferred' = later
  /\ evicted' = FALSE
  /\ recovery' = IF evicted THEN recovery + 1 ELSE recovery
  /\ IF recovery' > 0 \/ (ready /\ ~key)
       THEN AskSnapshot
       ELSE UNCHANGED snapshot
  /\ nextCursor' = IF later = 0 THEN Higher(nextCursor, seq) ELSE nextCursor
  /\ cursor' = nextCursor'
  /\ UNCHANGED <<pending, truncNext, snapPoint, flush, events, applied, covered>>

(* Mutant of Park: the parked updates are not bounded.                     *)
ParkUnbounded ==
  /\ NextIs(Encrypted) /\ ~key
  /\ parked' = Append(parked, Head(batch))
  /\ batch' = Tail(batch)
  /\ UNCHANGED <<cursor, key, pending, evicted, recoverVars, flush, nextCursor,
                 events, deferred, applied, covered>>

(* Without a key an encrypted update is parked; the oldest makes room.     *)
Park ==
  LET full == Len(parked) >= MaxParked IN
  /\ NextIs(Encrypted) /\ ~key
  /\ parked' = Append(IF full THEN Tail(parked) ELSE parked, Head(batch))
  /\ evicted' = (evicted \/ full)
  /\ batch' = Tail(batch)
  /\ UNCHANGED <<cursor, key, pending, recoverVars, flush, nextCursor, events,
                 deferred, applied, covered>>

(* The encrypted updates at the head of the batch are decrypted together.  *)
(* One that cannot be decrypted is left behind the cursor, unless a later  *)
(* one of the batch succeeds.                                              *)
RunLength ==
  CHOOSE n \in 1..Len(batch) :
    /\ \A i \in 1..n : batch[i].body \in Encrypted
    /\ n = Len(batch) \/ batch[n + 1].body \notin Encrypted

Decrypted ==
  {batch[i].seq : i \in {j \in 1..RunLength : batch[j].body = "event"}}

AfterDecryption ==
  IF Decrypted = {} THEN nextCursor
  ELSE Advanced(CHOOSE n \in Decrypted : \A m \in Decrypted : m <= n)

Decrypt ==
  /\ Decrypting
  /\ nextCursor' = AfterDecryption
  /\ events' = events \cup Decrypted
  /\ batch' = SubSeq(batch, RunLength + 1, Len(batch))
  /\ UNCHANGED <<cursor, key, pending, parked, evicted, recoverVars, flush,
                 deferred, applied, covered>>

(* The end of a batch: the events are applied, then the cursor follows.    *)
Commit ==
  /\ flush = "batch" /\ batch = <<>>
  /\ events = {} \/ (snapshot = "idle" /\ recovery = 0)
  /\ applied' = applied \cup events
  /\ cursor' = IF deferred = 0 THEN nextCursor ELSE Advanced(deferred)
  /\ flush' = "loop"
  /\ nextCursor' = cursor' /\ events' = {} /\ deferred' = 0
  /\ UNCHANGED <<key, pending, parked, evicted, recoverVars, batch, covered>>

LeaveLoop ==
  /\ flush = "loop" /\ pending = <<>>
  /\ flush' = "tail"
  /\ UNCHANGED <<cursor, key, pending, parked, evicted, recoverVars, batch,
                 nextCursor, events, deferred, applied, covered>>

(* After the last batch the point up to which the relay skipped history is *)
(* adopted, once the snapshot arrived and nothing is parked.               *)
EndFlush ==
  /\ flush = "tail" /\ ~WaitingForRecovery
  /\ IF recovery = 0 /\ truncNext # 0 /\ parked = <<>>
       THEN cursor' = Higher(cursor, truncNext - 1) /\ truncNext' = 0
       ELSE UNCHANGED <<cursor, truncNext>>
  /\ flush' = IF pending = <<>> THEN "idle" ELSE "loop"
  /\ nextCursor' = cursor'
  /\ UNCHANGED <<key, pending, parked, evicted, recovery, snapshot, snapPoint,
                 batch, events, deferred, applied, covered>>

FlushStep ==
  \/ StaleFlushEnds \/ TakeBatch \/ SkipUpdate \/ Park \/ Decrypt \/ Commit
  \/ LeaveLoop \/ EndFlush \/ \E ready \in BOOLEAN : InstallKey(ready)

-----------------------------------------------------------------------------
(* refreshSnapshot asked for by the application or by a presence update.   *)
Refresh ==
  /\ AtAwait /\ key /\ snapshot = "idle"
  /\ snapshot' = "asked"
  /\ UNCHANGED <<cursor, key, pending, parked, evicted, truncNext, recovery,
                 snapPoint, flushVars, applied, covered>>

(* The daemon answers with its state; it contains every update published   *)
(* before, that is every one numbered below next.                          *)
SnapshotTaken(next) ==
  /\ snapshot = "asked"
  /\ snapshot' = "taken" /\ snapPoint' = next
  /\ UNCHANGED <<cursor, key, pending, parked, evicted, truncNext, recovery,
                 flushVars, applied, covered>>

(* Mutant of SnapshotArrives: the recovery is not counted down.            *)
SnapshotArrivesUncounted ==
  /\ AtAwait /\ snapshot = "taken"
  /\ snapshot' = IF recovery > 1 THEN "asked" ELSE "idle"
  /\ snapPoint' = 0
  /\ covered' = Higher(covered, snapPoint - 1)
  /\ UNCHANGED <<cursor, key, pending, parked, evicted, truncNext, recovery,
                 flushVars, applied>>

SnapshotArrives ==
  /\ AtAwait /\ snapshot = "taken"
  /\ snapshot' = IF recovery > 1 THEN "asked" ELSE "idle"
  /\ snapPoint' = 0
  /\ recovery' = IF recovery > 1 THEN recovery - 1 ELSE 0
  /\ covered' = Higher(covered, snapPoint - 1)
  /\ UNCHANGED <<cursor, key, pending, parked, evicted, truncNext, flushVars,
                 applied>>

(* The request fails while nothing waits for it.  When a recovery or the    *)
(* barrier waits, the failure ends in scheduleReconnect.                   *)
SnapshotFails ==
  /\ AtAwait /\ snapshot # "idle" /\ recovery = 0 /\ ~HeldByBarrier
  /\ snapshot' = "idle" /\ snapPoint' = 0
  /\ UNCHANGED <<cursor, key, pending, parked, evicted, truncNext, recovery,
                 flushVars, applied, covered>>

Init ==
  /\ cursor = 0 /\ key \in BOOLEAN
  /\ pending = <<>> /\ parked = <<>> /\ evicted = FALSE
  /\ truncNext = 0 /\ recovery = 0
  /\ snapshot = "idle" /\ snapPoint = 0
  /\ flush = "idle" /\ batch = <<>> /\ nextCursor = 0
  /\ events = {} /\ deferred = 0
  /\ applied = {} /\ covered = 0
=============================================================================
