---------------------------- MODULE RelayDevices ----------------------------
(***************************************************************************)
(* Pairing and trusted devices of one relay session over the PostgreSQL    *)
(* backend (crates/falcondeck-relay/src/app.rs, persistence.rs): a client  *)
(* takes a challenge and claims a pairing code with its identity key, gets *)
(* a device with a token, opens sockets with single-use tickets; the       *)
(* daemon, or the device itself, revokes and purges.                       *)
(*                                                                         *)
(* Every handler changes the memory under the store lock and writes rows   *)
(* after it released the lock, so that the writes of different handlers    *)
(* reach the store in any order.  A full device row carries the generation *)
(* of its snapshot.                                                        *)
(*                                                                         *)
(* Abstractions: a token is named by the generation that brought it; what  *)
(* signatures prove is that the claimer has the key and took the           *)
(* challenge; labels, push tokens and last_seen_at are left out, but a     *)
(* change of the push registration is a row write like any other.  The     *)
(* code of a pairing is known to nobody before start_pairing wrote it.     *)
(* Pairings and challenges that expire only stop claims, which may stop    *)
(* without them, and are left out.                                         *)
(***************************************************************************)
EXTENDS Naturals, FiniteSets

CONSTANTS
  Keys,         (* identity keys of clients                                *)
  Devices,      (* device ids                                              *)
  Pairings,     (* pairing ids                                             *)
  Conns,        (* peer ids of client sockets                              *)
  RevokeEarly,  (* a device may be revoked while a claim of it is written  *)
  WritesFail,   (* a write to the store may fail                           *)
  MaxGen,       (* bound: generations of a device                          *)
  MaxRestarts,  (* bound: crashes of the relay                             *)
  None          (* no key, no device                                       *)

ASSUME NoneAssumption == None \notin Keys \cup Devices
ASSUME BoundsAssumption ==
  /\ RevokeEarly \in BOOLEAN /\ WritesFail \in BOOLEAN
  /\ MaxGen \in Nat \ {0} /\ MaxRestarts \in Nat

VARIABLES
  device,       (* SessionRecord.devices                                   *)
  pairing,      (* PersistedState.pairings: unused, open, or the device    *)
                (* that claimed it                                         *)
  challenge,    (* pairing_challenges: who took the outstanding one        *)
  cached,       (* devices with an entry in issued_client_tokens           *)
  conn,         (* client sockets: with a ticket, admitted, or a live peer *)
  handling,     (* peers that hold their operation_lock to handle a message *)
  due,          (* handlers that released the store lock and are not done  *)
  diskDevice,   (* relay_devices                                           *)
  diskPairing,  (* relay_pairings                                          *)
  given,        (* device ids given out                                    *)
  claimed,      (* history: the token of the last successful claim         *)
  revoked,      (* history: devices whose revocation was answered          *)
  unsettled,    (* history: devices with a write that failed or was cut off *)
  restarts

socketVars == <<conn, handling>>
claimVars == <<pairing, challenge, cached, given>>
diskVars == <<diskDevice, diskPairing>>
historyVars == <<claimed, revoked, unsettled, restarts>>
vars == <<device, claimVars, socketVars, due, diskVars, historyVars>>

Record(status, key, token, gen) ==
  [status |-> status, key |-> key, token |-> token, gen |-> gen]

Absent == Record("absent", None, 0, 0)

Row == [status : {"absent", "active", "revoked"}, key : Keys \cup {None},
        token : 0..MaxGen, gen : 0..MaxGen + 1]

Active(d) == device[d].status = "active"

(***************************************************************************)
(* A handler between two of its steps: the device row it took, the pairing *)
(* it claimed, and the peers it has still to remove.                       *)
(***************************************************************************)
Task(kind, d, row, p, peers) ==
  [kind |-> kind, dev |-> d, row |-> row, pair |-> p, peers |-> peers,
   step |-> IF kind = "claim" THEN "pairing" ELSE "device"]

Tasks == [kind : {"claim", "push", "revoke", "purge"}, dev : Devices, row : Row,
          pair : Pairings \cup {None}, peers : SUBSET Conns,
          step : {"pairing", "device", "peers"}]

Claiming(d) == \E t \in due : t.kind = "claim" /\ t.dev = d

PeersOf(d) == {c \in Conns : conn[c] = <<"live", d>>}

-----------------------------------------------------------------------------
StartPairing(p) ==
  /\ pairing[p] = "unused"
  /\ pairing' = [pairing EXCEPT ![p] = "open"]
  /\ diskPairing' = [diskPairing EXCEPT ![p] = "open"]
  /\ UNCHANGED <<device, challenge, cached, given, socketVars, due, diskDevice, historyVars>>

(* create_pairing_challenge replaces the outstanding challenge.            *)
TakeChallenge(p, k) ==
  /\ pairing[p] # "unused"
  /\ challenge' = [challenge EXCEPT ![p] = k]
  /\ UNCHANGED <<device, pairing, cached, given, socketVars, due, diskVars, historyVars>>

(* The device a claim of p by k is for: that of the pairing, if k may      *)
(* attach to it again; else a device of the key, or a new one.             *)
OfKey(k) == {d \in Devices : Active(d) /\ device[d].key = k}

(* Mutant of Candidates: each open pairing makes a device.                 *)
CandidatesNew(p, k) ==
  IF pairing[p] = "open" THEN Devices \ given ELSE OfKey(k) \cap {pairing[p]}

Candidates(p, k) ==
  IF pairing[p] # "open" THEN OfKey(k) \cap {pairing[p]}
  ELSE IF OfKey(k) # {} THEN OfKey(k) ELSE Devices \ given

(* Mutant of Token: every claim brings a token.                            *)
TokenFresh(d) == device[d].gen + 1

(* The process keeps the tokens it issued; after a restart only their      *)
(* verifiers are known, and a claim rotates the token.                     *)
Token(d) == IF d \in cached THEN device[d].token ELSE device[d].gen + 1

(* claim_pairing up to the release of the store lock                       *)
Claim(p, k, d) ==
  LET row == Record("active", k, Token(d), device[d].gen + 1) IN
  /\ challenge[p] = k
  /\ d \in Candidates(p, k) /\ device[d].gen < MaxGen
  /\ challenge' = [challenge EXCEPT ![p] = None]
  /\ device' = [device EXCEPT ![d] = row]
  /\ pairing' = [pairing EXCEPT ![p] = d]
  /\ cached' = cached \cup {d} /\ given' = given \cup {d}
  /\ due' = due \cup {Task("claim", d, row, p, {})}
  /\ UNCHANGED <<socketVars, diskVars, historyVars>>

(* A claim that fails uses the challenge up all the same.                  *)
ClaimRefused(p, k) ==
  /\ challenge[p] # None
  /\ challenge[p] # k \/ (pairing[p] \in Devices /\ Candidates(p, k) = {})
  /\ challenge' = [challenge EXCEPT ![p] = None]
  /\ UNCHANGED <<device, pairing, cached, given, socketVars, due, diskVars, historyVars>>

(* register_push_registration by a client that got a token, that is after  *)
(* its first claim was written                                             *)
SetPush(d) ==
  /\ Active(d) /\ device[d].gen < MaxGen /\ diskDevice[d] # Absent
  /\ device' = [device EXCEPT ![d].gen = @ + 1]
  /\ due' = due \cup {Task("push", d, device'[d], None, {})}
  /\ UNCHANGED <<claimVars, socketVars, diskVars, historyVars>>

(* Mutants of Revoke: the token stays in the cache; the generation stays.  *)
RevokeKeepingToken(d) ==
  /\ Active(d) /\ (RevokeEarly \/ ~Claiming(d))
  /\ device' = [device EXCEPT ![d].status = "revoked", ![d].gen = @ + 1]
  /\ due' = due \cup {Task("revoke", d, device'[d], None, PeersOf(d))}
  /\ UNCHANGED <<pairing, challenge, cached, given, socketVars, diskVars, historyVars>>

RevokeSameGeneration(d) ==
  /\ Active(d) /\ (RevokeEarly \/ ~Claiming(d))
  /\ device' = [device EXCEPT ![d].status = "revoked"]
  /\ cached' = cached \ {d}
  /\ due' = due \cup {Task("revoke", d, device'[d], None, PeersOf(d))}
  /\ UNCHANGED <<pairing, challenge, given, socketVars, diskVars, historyVars>>

(* revoke_trusted_device: the daemon revokes an active device; it purges a *)
(* revoked one, and a device purges itself.                                *)
Revoke(d) ==
  /\ Active(d) /\ (RevokeEarly \/ ~Claiming(d))
  /\ device' = [device EXCEPT ![d].status = "revoked", ![d].gen = @ + 1]
  /\ cached' = cached \ {d}
  /\ due' = due \cup {Task("revoke", d, device'[d], None, PeersOf(d))}
  /\ UNCHANGED <<pairing, challenge, given, socketVars, diskVars, historyVars>>

Purge(d) ==
  /\ device[d].status # "absent" /\ (RevokeEarly \/ ~Claiming(d))
  /\ device' = [device EXCEPT ![d] = Absent]
  /\ cached' = cached \ {d}
  /\ due' = due \cup {Task("purge", d, Absent, None, PeersOf(d))}
  /\ UNCHANGED <<pairing, challenge, given, socketVars, diskVars, historyVars>>

-----------------------------------------------------------------------------
(* Sockets: issue_ws_ticket, consume_ws_ticket, register_peer, and the     *)
(* handling of a message, each a critical section of its own.              *)
Sockets(c, state) == conn' = [conn EXCEPT ![c] = state]

SocketOnly == UNCHANGED <<device, claimVars, due, diskVars, historyVars>>

IssueTicket(c, d) ==
  /\ conn[c] = <<"new", None>> /\ Active(d)
  /\ Sockets(c, <<"ticket", d>>)
  /\ SocketOnly /\ UNCHANGED handling

ConsumeTicket(c) ==
  /\ conn[c][1] = "ticket"
  /\ Sockets(c, IF Active(conn[c][2]) THEN <<"admitted", conn[c][2]>> ELSE <<"gone", None>>)
  /\ SocketOnly /\ UNCHANGED handling

(* Mutant of RegisterPeer: the check of the ticket is relied on.           *)
RegisterPeerUnchecked(c) ==
  /\ conn[c][1] = "admitted"
  /\ Sockets(c, <<"live", conn[c][2]>>)
  /\ SocketOnly /\ UNCHANGED handling

RegisterPeer(c) ==
  /\ conn[c][1] = "admitted"
  /\ Sockets(c, IF Active(conn[c][2]) THEN <<"live", conn[c][2]>> ELSE <<"gone", None>>)
  /\ SocketOnly /\ UNCHANGED handling

BeginMessage(c) ==
  /\ conn[c][1] = "live" /\ c \notin handling /\ Active(conn[c][2])
  /\ handling' = handling \cup {c}
  /\ SocketOnly /\ UNCHANGED conn

EndMessage(c) ==
  /\ c \in handling
  /\ handling' = handling \ {c}
  /\ SocketOnly /\ UNCHANGED conn

(* The socket ends; unregister_peer waits for the operation lock.          *)
Disconnect(c) ==
  /\ conn[c][1] = "live" /\ c \notin handling
  /\ Sockets(c, <<"gone", None>>)
  /\ SocketOnly /\ UNCHANGED handling

-----------------------------------------------------------------------------
(* The steps of a handler after the store lock.                            *)
Becomes(t, step) == due' = (due \ {t}) \cup {[t EXCEPT !.step = step]}

WritePairing(t) ==
  /\ t.step = "pairing"
  /\ diskPairing' = [diskPairing EXCEPT ![t.pair] = t.dev]
  /\ Becomes(t, "device")
  /\ UNCHANGED <<device, claimVars, socketVars, diskDevice, historyVars>>

(* UPSERT_DEVICE_SQL for a claim, UPDATE_DEVICE_IF_NEWER_SQL for the rest, *)
(* DELETE for a purge                                                      *)
Stored(t, row) ==
  IF t.kind = "purge" THEN Absent
  ELSE IF (t.kind = "claim" \/ row # Absent) /\ row.gen < t.row.gen THEN t.row ELSE row

WriteDevice(t) ==
  /\ t.step = "device"
  /\ diskDevice' = [diskDevice EXCEPT ![t.dev] = Stored(t, @)]
  /\ IF t.kind \in {"revoke", "purge"} THEN Becomes(t, "peers") ELSE due' = due \ {t}
  /\ claimed' = IF t.kind = "claim" THEN [claimed EXCEPT ![t.dev] = t.row.token] ELSE claimed
  /\ UNCHANGED <<device, claimVars, socketVars, diskPairing, revoked, unsettled, restarts>>

(* The handler ends with the error: nothing is undone, and a revocation    *)
(* leaves the peers.                                                       *)
WriteFails(t) ==
  /\ WritesFail /\ t.step \in {"pairing", "device"}
  /\ due' = due \ {t}
  /\ unsettled' = unsettled \cup {t.dev}
  /\ claimed' = IF t.kind = "claim" THEN [claimed EXCEPT ![t.dev] = 0] ELSE claimed
  /\ UNCHANGED <<device, claimVars, socketVars, diskVars, revoked, restarts>>

(* unregister_peer of one of the collected peers                           *)
RemovePeer(t, c) ==
  /\ t.step = "peers" /\ c \in t.peers \ handling
  /\ Sockets(c, <<"gone", None>>)
  /\ due' = (due \ {t}) \cup {[t EXCEPT !.peers = @ \ {c}]}
  /\ UNCHANGED <<device, claimVars, handling, diskVars, historyVars>>

AnswerRevocation(t) ==
  /\ t.step = "peers" /\ t.peers = {}
  /\ due' = due \ {t}
  /\ revoked' = revoked \cup {t.dev}
  /\ UNCHANGED <<device, claimVars, socketVars, diskVars, claimed, unsettled, restarts>>

(* The relay crashes and starts again from its store.                      *)
Restart ==
  /\ restarts < MaxRestarts
  /\ restarts' = restarts + 1
  /\ device' = diskDevice /\ pairing' = diskPairing
  /\ challenge' = [p \in Pairings |-> None] /\ cached' = {}
  /\ conn' = [c \in Conns |-> IF conn[c][1] = "new" THEN conn[c] ELSE <<"gone", None>>]
  /\ handling' = {} /\ due' = {}
  /\ unsettled' = unsettled \cup {t.dev : t \in due}
  /\ claimed' = [d \in Devices |-> IF Claiming(d) THEN 0 ELSE claimed[d]]
  /\ UNCHANGED <<diskVars, given, revoked>>

Init ==
  /\ device = [d \in Devices |-> Absent] /\ diskDevice = device
  /\ pairing = [p \in Pairings |-> "unused"] /\ diskPairing = pairing
  /\ challenge = [p \in Pairings |-> None]
  /\ cached = {} /\ given = {} /\ due = {}
  /\ conn = [c \in Conns |-> <<"new", None>>] /\ handling = {}
  /\ claimed = [d \in Devices |-> 0] /\ revoked = {} /\ unsettled = {}
  /\ restarts = 0

Finish(t) ==
  \/ WritePairing(t) \/ WriteDevice(t) \/ WriteFails(t)
  \/ \E c \in Conns : RemovePeer(t, c)
  \/ AnswerRevocation(t)

Next ==
  \/ \E p \in Pairings : StartPairing(p)
  \/ \E p \in Pairings, k \in Keys : \/ TakeChallenge(p, k) \/ ClaimRefused(p, k)
                                     \/ \E d \in Devices : Claim(p, k, d)
  \/ \E d \in Devices : SetPush(d) \/ Revoke(d) \/ Purge(d)
  \/ \E c \in Conns : \/ \E d \in Devices : IssueTicket(c, d)
                      \/ ConsumeTicket(c) \/ RegisterPeer(c) \/ Disconnect(c)
                      \/ BeginMessage(c) \/ EndMessage(c)
  \/ \E t \in due : Finish(t)
  \/ Restart

Spec == Init /\ [][Next]_vars

-----------------------------------------------------------------------------
(* Devices, pairings, sockets and handlers are well formed, and a live     *)
(* cache entry belongs to an active device.                                *)
TypeOK ==
  /\ {device, diskDevice} \subseteq [Devices -> Row]
  /\ {pairing, diskPairing} \subseteq [Pairings -> {"unused", "open"} \cup Devices]
  /\ challenge \in [Pairings -> Keys \cup {None}]
  /\ cached \subseteq given /\ \A d \in cached : Active(d)
  /\ conn \in [Conns -> {"new", "ticket", "admitted", "live", "gone"} \X (Devices \cup {None})]
  /\ handling \subseteq {c \in Conns : conn[c][1] = "live"}
  /\ due \subseteq Tasks
  /\ given \subseteq Devices /\ revoked \subseteq given /\ unsettled \subseteq given
  /\ claimed \in [Devices -> 0..MaxGen]
  /\ restarts \in 0..MaxRestarts

(* A revocation that was answered is complete (docs/verified-bug-ledger.md *)
(* 045): the device has no live peer, and no message of it is still being  *)
(* handled, although tickets and sockets were under way.                   *)
RevokedIsGone == \A d \in revoked : PeersOf(d) = {}

(* "a slow earlier write cannot restore a revoked row" (app.rs:549-551):   *)
(* the store does not have a device active whose revocation was answered,  *)
(* so that no restart brings it back.                                      *)
RevocationIsStored == \A d \in revoked : diskDevice[d].status # "active"

(* A client has one active device, however many pairings it claims, unless *)
(* a write of one of its devices was lost.                                 *)
OneDevicePerKey ==
  \A d, e \in Devices \ unsettled :
    Active(d) /\ Active(e) /\ device[d].key = device[e].key => d = e

(* A client whose claim succeeded can authenticate with the token it got,  *)
(* as long as its device is active, no later claim of it is under way, and *)
(* none failed: claims that overlap give out the same token.               *)
ClaimedTokenWorks ==
  \A d \in Devices :
    claimed[d] # 0 /\ Active(d) /\ ~Claiming(d) => device[d].token = claimed[d]
=============================================================================
