------------------------- MODULE RelayDevicesProofs -------------------------
(* Proofs about the trusted devices of a relay session (RelayDevices) for  *)
(* any number of keys, devices, pairings and sockets, with failing writes  *)
(* and any number of crashes.  Everything but the types needs that a device *)
(* is not revoked while a claim of it is being written (RevokeEarly).      *)
EXTENDS RelayDevices, TLAPS

Ending(t) == t.kind \in {"revoke", "purge"}

(* A row that is not there is Absent, and a token is not younger than the  *)
(* row that holds it.                                                      *)
WellRow(row) ==
  /\ row.status = "absent" => row = Absent
  /\ row.status = "active" => row.gen <= MaxGen
  /\ row.token <= row.gen

RowsAreWell ==
  /\ \A d \in Devices : WellRow(device[d]) /\ WellRow(diskDevice[d])
  /\ \A t \in due : WellRow(t.row)

(* What was not given out is nowhere.                                      *)
OnlyGiven ==
  /\ \A d \in Devices \ given : device[d] = Absent /\ diskDevice[d] = Absent
  /\ \A t \in due : t.dev \in given

(* A claim and a push registration write an active device, a revocation a  *)
(* revoked one; only what ends a device removes peers.                     *)
RowsFitKinds ==
  \A t \in due :
    /\ t.kind \in {"claim", "push"} => t.row.status = "active"
    /\ t.kind = "revoke" => t.row.status = "revoked"
    /\ t.kind = "purge" => t.row.status = "absent"
    /\ t.step = "peers" => Ending(t)
    /\ t.step = "pairing" => t.kind = "claim" /\ t.pair \in Pairings

TInv == TypeOK /\ RowsAreWell /\ OnlyGiven /\ RowsFitKinds

(* While a claim is written its device is active, has its cache entry and  *)
(* the token of the claim.                                                 *)
ClaimsAreCurrent ==
  \A t \in due : t.kind = "claim" =>
    /\ Active(t.dev) /\ t.dev \in cached
    /\ t.row.token = device[t.dev].token

(* From a revocation on the device is not active and gets no peer that the *)
(* revocation does not know of; when peers are removed the store has it.   *)
EndingIsFinal ==
  \A t \in due : Ending(t) =>
    /\ ~Active(t.dev) /\ PeersOf(t.dev) \subseteq t.peers
    /\ t.step = "peers" => diskDevice[t.dev].status # "active"

RevokedIsFinal == \A d \in revoked : ~Active(d)

(* The generation of a revoked row is above that of every active row that  *)
(* is stored or still to be written.                                       *)
RevocationOutranks ==
  \A d \in Devices :
    /\ \A t, u \in due : t.dev = d /\ u.dev = d /\ t.kind = "revoke" /\ u.row.status = "active"
         => u.row.gen < t.row.gen
    /\ \A t \in due : t.dev = d /\ t.kind = "revoke" /\ diskDevice[d].status = "active"
         => diskDevice[d].gen < t.row.gen
    /\ diskDevice[d].status = "revoked" =>
         /\ ~Active(d)
         /\ \A u \in due : u.dev = d /\ u.row.status = "active" => u.row.gen < diskDevice[d].gen

(* An active row is a snapshot of the device in memory, not newer than it; *)
(* all of them since the token was issued hold the token.                  *)
Snapshot(row, of) ==
  /\ row.gen <= of.gen
  /\ row.status = "active" => row.key = of.key /\ (row.gen >= of.token => row.token = of.token)

RowsAreSnapshots ==
  \A d \in Devices : Active(d) =>
    /\ Snapshot(diskDevice[d], device[d])
    /\ \A t \in due : t.dev = d => Snapshot(t.row, device[d])

(* Once no claim is under way, the token that was given out is the one in  *)
(* memory, in the store and in every row that may still get there.         *)
TokenIsSettled ==
  \A d \in Devices : claimed[d] # 0 /\ ~Claiming(d) =>
    /\ Active(d) => device[d].token = claimed[d]
    /\ diskDevice[d].status = "active" => diskDevice[d].token = claimed[d]
    /\ \A t \in due : t.dev = d /\ t.row.status = "active" /\ t.row.gen >= claimed[d]
         => t.row.token = claimed[d]

(* What the store has active is active, or its end is about to be written, *)
(* or a write of it was lost.                                              *)
StoreFollows ==
  \A d \in Devices \ unsettled : diskDevice[d].status = "active" =>
    Active(d) \/ \E t \in due : t.dev = d /\ Ending(t)

DInv ==
  /\ ClaimsAreCurrent /\ EndingIsFinal /\ RevokedIsFinal /\ RevocationOutranks
  /\ RowsAreSnapshots /\ TokenIsSettled /\ StoreFollows
  /\ RevokedIsGone /\ RevocationIsStored /\ OneDevicePerKey

-----------------------------------------------------------------------------
LEMMA AbsentFacts ==
  /\ Absent \in Row /\ WellRow(Absent)
  /\ Absent.status = "absent" /\ Absent.gen = 0 /\ Absent.token = 0
BY BoundsAssumption DEF Absent, Record, Row, WellRow

(* The devices, the stored devices and the tasks have the rows they should *)
(* have.                                                                   *)
LEMMA RowFacts ==
  ASSUME TInv
  PROVE  /\ device \in [Devices -> Row] /\ diskDevice \in [Devices -> Row]
         /\ \A d \in Devices : device[d] \in Row /\ diskDevice[d] \in Row
         /\ \A t \in due : t \in Tasks /\ t.dev \in Devices /\ t.row \in Row
         /\ \A d \in Devices : Active(d) => d \in given
BY AbsentFacts DEF TInv, TypeOK, Tasks, OnlyGiven, Active

LEMMA InitTypes == Init => TInv
<1> SUFFICES ASSUME Init PROVE TInv
  OBVIOUS
<1>1. /\ device = [d \in Devices |-> Absent] /\ diskDevice = [d \in Devices |-> Absent]
      /\ pairing = [p \in Pairings |-> "unused"] /\ diskPairing = [p \in Pairings |-> "unused"]
      /\ challenge = [p \in Pairings |-> None]
      /\ cached = {} /\ given = {} /\ due = {}
      /\ conn = [c \in Conns |-> <<"new", None>>] /\ handling = {}
      /\ claimed = [d \in Devices |-> 0] /\ revoked = {} /\ unsettled = {} /\ restarts = 0
  BY DEF Init
<1>2. TypeOK
  <2>1. {device, diskDevice} \subseteq [Devices -> Row]
    BY <1>1, AbsentFacts
  <2>2. {pairing, diskPairing} \subseteq [Pairings -> {"unused", "open"} \cup Devices]
    BY <1>1
  <2>3. conn \in [Conns -> {"new", "ticket", "admitted", "live", "gone"} \X (Devices \cup {None})]
    BY <1>1
  <2>4. claimed \in [Devices -> 0..MaxGen] /\ restarts \in 0..MaxRestarts
    BY <1>1, BoundsAssumption
  <2> QED
    BY <1>1, <2>1, <2>2, <2>3, <2>4 DEF TypeOK
<1>3. RowsAreWell /\ OnlyGiven /\ RowsFitKinds
  BY <1>1, AbsentFacts DEF RowsAreWell, OnlyGiven, RowsFitKinds
<1> QED
  BY <1>2, <1>3 DEF TInv

(* A step that leaves devices, handlers and ids alone.                     *)
LEMMA TypesStay ==
  ASSUME TInv, UNCHANGED <<device, diskDevice, due, cached, given, historyVars>>,
         pairing' \in [Pairings -> {"unused", "open"} \cup Devices],
         diskPairing' \in [Pairings -> {"unused", "open"} \cup Devices],
         challenge' \in [Pairings -> Keys \cup {None}],
         conn' \in [Conns -> {"new", "ticket", "admitted", "live", "gone"} \X (Devices \cup {None})],
         handling' \subseteq {c \in Conns : conn'[c][1] = "live"}
  PROVE  TInv'
<1>1. UNCHANGED <<device, diskDevice, due, cached, given, claimed, revoked, unsettled, restarts>>
  BY DEF historyVars
<1>2. TypeOK'
  BY <1>1 DEF TInv, TypeOK, Active
<1>3. RowsAreWell' /\ OnlyGiven' /\ RowsFitKinds'
  BY <1>1 DEF TInv, RowsAreWell, OnlyGiven, RowsFitKinds
<1> QED
  BY <1>2, <1>3 DEF TInv

LEMMA StartPairingTypes ==
  ASSUME TInv, NEW p \in Pairings, StartPairing(p)
  PROVE  TInv'
<1>1. /\ pairing' = [pairing EXCEPT ![p] = "open"]
      /\ diskPairing' = [diskPairing EXCEPT ![p] = "open"]
      /\ UNCHANGED <<device, diskDevice, due, cached, given, historyVars>>
      /\ UNCHANGED <<challenge, conn, handling>>
  BY DEF StartPairing, socketVars
<1> QED
  BY <1>1, TypesStay DEF TInv, TypeOK

LEMMA ChallengeTypes ==
  ASSUME TInv, NEW p \in Pairings, NEW k \in Keys, TakeChallenge(p, k) \/ ClaimRefused(p, k)
  PROVE  TInv'
<1>1. /\ challenge' = [challenge EXCEPT ![p] = k] \/ challenge' = [challenge EXCEPT ![p] = None]
      /\ UNCHANGED <<device, diskDevice, due, cached, given, historyVars>>
      /\ UNCHANGED <<pairing, diskPairing, conn, handling>>
  BY DEF TakeChallenge, ClaimRefused, socketVars, diskVars
<1>2. challenge' \in [Pairings -> Keys \cup {None}]
  BY <1>1 DEF TInv, TypeOK
<1> QED
  BY <1>1, <1>2, TypesStay DEF TInv, TypeOK

(* The socket actions change nothing but sockets.                          *)
SocketStep(c) ==
  \/ \E d \in Devices : IssueTicket(c, d)
  \/ ConsumeTicket(c) \/ RegisterPeer(c) \/ Disconnect(c)
  \/ BeginMessage(c) \/ EndMessage(c)

LEMMA SocketTypes ==
  ASSUME TInv, NEW c \in Conns, SocketStep(c)
  PROVE  TInv'
<1>1. /\ UNCHANGED <<device, diskDevice, due, cached, given, historyVars>>
      /\ UNCHANGED <<pairing, diskPairing, challenge>>
  BY DEF SocketStep, IssueTicket, ConsumeTicket, RegisterPeer, Disconnect, BeginMessage,
     EndMessage, SocketOnly, claimVars, diskVars
<1> DEFINE States == {"new", "ticket", "admitted", "live", "gone"} \X (Devices \cup {None})
<1>2. conn[c] \in States /\ conn[c][2] \in Devices \cup {None}
  BY DEF TInv, TypeOK
<1>3. \/ \E s \in States : /\ conn' = [conn EXCEPT ![c] = s]
                           /\ UNCHANGED handling
                           /\ conn[c][1] = "live" => c \notin handling
      \/ /\ UNCHANGED conn
         /\ handling' \subseteq handling \cup {c}
         /\ c \in handling' /\ c \notin handling => conn[c][1] = "live"
  <2>1. ASSUME NEW d \in Devices, IssueTicket(c, d)
        PROVE  /\ conn[c][1] # "live" /\ UNCHANGED handling
               /\ conn' = [conn EXCEPT ![c] = <<"ticket", d>>] /\ <<"ticket", d>> \in States
    <3>1. conn[c] = <<"new", None>> /\ conn' = [conn EXCEPT ![c] = <<"ticket", d>>] /\ UNCHANGED handling
      BY <2>1 DEF IssueTicket, Sockets
    <3> QED
      BY <3>1
  <2>2. CASE ConsumeTicket(c)
    BY <2>2, <1>2 DEF ConsumeTicket, Sockets
  <2>3. CASE RegisterPeer(c)
    BY <2>3, <1>2 DEF RegisterPeer, Sockets
  <2>4. CASE Disconnect(c)
    BY <2>4 DEF Disconnect, Sockets
  <2>5. CASE BeginMessage(c)
    BY <2>5 DEF BeginMessage
  <2>6. CASE EndMessage(c)
    BY <2>6 DEF EndMessage
  <2> QED
    BY <2>1, <2>2, <2>3, <2>4, <2>5, <2>6 DEF SocketStep
<1> HIDE DEF States
<1>4. conn \in [Conns -> States] /\ handling \subseteq {e \in Conns : conn[e][1] = "live"}
  BY DEF TInv, TypeOK, States
<1>5. conn' \in [Conns -> States] /\ handling' \subseteq {e \in Conns : conn'[e][1] = "live"}
  <2>1. ASSUME NEW s \in States, conn' = [conn EXCEPT ![c] = s], UNCHANGED handling,
               conn[c][1] = "live" => c \notin handling
        PROVE  conn' \in [Conns -> States] /\ handling' \subseteq {e \in Conns : conn'[e][1] = "live"}
    <3>1. conn' \in [Conns -> States] /\ \A e \in Conns \ {c} : conn'[e] = conn[e]
      BY <2>1, <1>4
    <3>2. c \notin handling
      BY <2>1, <1>4
    <3> QED
      BY <3>1, <3>2, <2>1, <1>4
  <2>2. ASSUME UNCHANGED conn, handling' \subseteq handling \cup {c},
               c \in handling' /\ c \notin handling => conn[c][1] = "live"
        PROVE  conn' \in [Conns -> States] /\ handling' \subseteq {e \in Conns : conn'[e][1] = "live"}
    BY <2>2, <1>4
  <2> QED
    BY <1>3, <2>1, <2>2
<1> QED
  BY <1>1, <1>5, TypesStay DEF TInv, TypeOK, States

-----------------------------------------------------------------------------
LEMMA TaskFacts ==
  ASSUME NEW kind \in {"claim", "push", "revoke", "purge"}, NEW d \in Devices, NEW row \in Row,
         NEW p \in Pairings \cup {None}, NEW peers \in SUBSET Conns
  PROVE  /\ Task(kind, d, row, p, peers) \in Tasks
         /\ Task(kind, d, row, p, peers).kind = kind /\ Task(kind, d, row, p, peers).dev = d
         /\ Task(kind, d, row, p, peers).row = row /\ Task(kind, d, row, p, peers).pair = p
         /\ Task(kind, d, row, p, peers).peers = peers
         /\ Task(kind, d, row, p, peers).step = IF kind = "claim" THEN "pairing" ELSE "device"
BY DEF Task, Tasks

(* The row of a claim: one generation further, with a token not younger    *)
(* than the row.                                                           *)
ClaimedRow(k, d) == Record("active", k, Token(d), device[d].gen + 1)

LEMMA ClaimedRowFacts ==
  ASSUME TInv, NEW k \in Keys, NEW d \in Devices, device[d].gen < MaxGen
  PROVE  /\ ClaimedRow(k, d) \in Row /\ WellRow(ClaimedRow(k, d))
         /\ ClaimedRow(k, d).status = "active" /\ ClaimedRow(k, d).key = k
         /\ ClaimedRow(k, d).token = Token(d) /\ ClaimedRow(k, d).gen = device[d].gen + 1
<1>1. device[d] \in Row /\ device[d].token <= device[d].gen /\ device[d].gen \in Nat
  BY RowFacts DEF TInv, RowsAreWell, WellRow, Row
<1>2. Token(d) \in 0..MaxGen /\ Token(d) <= device[d].gen + 1 /\ device[d].gen + 1 \in 0..MaxGen
  BY <1>1, BoundsAssumption DEF Token, Row
<1> QED
  BY <1>2, BoundsAssumption DEF ClaimedRow, Record, Row, WellRow

LEMMA ClaimTypes ==
  ASSUME TInv, NEW p \in Pairings, NEW k \in Keys, NEW d \in Devices, Claim(p, k, d)
  PROVE  TInv'
<1> DEFINE row == ClaimedRow(k, d)
           task == Task("claim", d, row, p, {})
<1>1. /\ device[d].gen < MaxGen
      /\ challenge' = [challenge EXCEPT ![p] = None]
      /\ device' = [device EXCEPT ![d] = row]
      /\ pairing' = [pairing EXCEPT ![p] = d]
      /\ cached' = cached \cup {d} /\ given' = given \cup {d}
      /\ due' = due \cup {task}
      /\ UNCHANGED <<conn, handling, diskDevice, diskPairing, claimed, revoked, unsettled, restarts>>
  BY DEF Claim, ClaimedRow, socketVars, diskVars, historyVars
<1>2. row \in Row /\ WellRow(row) /\ row.status = "active"
  BY <1>1, ClaimedRowFacts
<1> HIDE DEF row
<1>3. /\ task \in Tasks /\ task.kind = "claim" /\ task.dev = d /\ task.row = row
      /\ task.pair = p /\ task.step = "pairing"
  BY <1>2, TaskFacts
<1> HIDE DEF task
<1>4. /\ device' \in [Devices -> Row] /\ device'[d] = row
      /\ \A e \in Devices \ {d} : device'[e] = device[e]
  BY <1>1, <1>2, RowFacts
<1>5. TypeOK'
  <2>1. pairing' \in [Pairings -> {"unused", "open"} \cup Devices]
    BY <1>1 DEF TInv, TypeOK
  <2>2. challenge' \in [Pairings -> Keys \cup {None}]
    BY <1>1 DEF TInv, TypeOK
  <2>3. \A e \in cached' : Active(e)'
    BY <1>1, <1>2, <1>4 DEF TInv, TypeOK, Active
  <2> QED
    BY <1>1, <1>3, <1>4, <2>1, <2>2, <2>3 DEF TInv, TypeOK
<1>6. RowsAreWell'
  BY <1>1, <1>2, <1>3, <1>4 DEF TInv, RowsAreWell
<1>7. OnlyGiven' /\ RowsFitKinds'
  BY <1>1, <1>2, <1>3, <1>4 DEF TInv, OnlyGiven, RowsFitKinds
<1> QED
  BY <1>5, <1>6, <1>7 DEF TInv

(* A row of the same device that follows another one.                      *)
LEMMA NewRowTypes ==
  ASSUME TInv, NEW task \in Tasks, task.dev \in given, WellRow(task.row), task.step = "device",
         \/ task.kind = "push" /\ task.row.status = "active"
         \/ task.kind = "revoke" /\ task.row.status = "revoked"
         \/ task.kind = "purge" /\ task.row.status = "absent",
         device' \in [Devices -> Row], device'[task.dev] = task.row,
         \A e \in Devices \ {task.dev} : device'[e] = device[e],
         cached' \subseteq cached, task.row.status = "active" \/ task.dev \notin cached',
         due' = due \cup {task},
         UNCHANGED <<pairing, challenge, given, conn, handling, diskDevice, diskPairing, claimed,
                     revoked, unsettled, restarts>>
  PROVE  TInv'
<1>1. task.dev \in Devices
  BY DEF TInv, TypeOK
<1>2. \A e \in cached' : Active(e)'
  BY <1>1 DEF TInv, TypeOK, Active
<1>3. TypeOK'
  BY <1>2 DEF TInv, TypeOK
<1>4. RowsAreWell'
  BY <1>1 DEF TInv, RowsAreWell
<1>5. OnlyGiven'
  BY <1>1 DEF TInv, OnlyGiven
<1>6. RowsFitKinds'
  BY DEF TInv, RowsFitKinds, Ending
<1> QED
  BY <1>3, <1>4, <1>5, <1>6 DEF TInv

LEMMA SetPushFacts ==
  ASSUME TInv, NEW d \in Devices, SetPush(d)
  PROVE  /\ d \in given /\ device[d].gen < MaxGen /\ Active(d)
         /\ device' \in [Devices -> Row] /\ \A e \in Devices \ {d} : device'[e] = device[e]
         /\ device'[d] \in Row /\ WellRow(device'[d]) /\ device'[d].status = "active"
         /\ device'[d].gen = device[d].gen + 1 /\ device'[d].token = device[d].token
         /\ device'[d].key = device[d].key
         /\ due' = due \cup {Task("push", d, device'[d], None, {})}
         /\ UNCHANGED <<pairing, challenge, cached, given, conn, handling, diskDevice, diskPairing,
                        claimed, revoked, unsettled, restarts>>
<1>1. /\ Active(d) /\ device[d].gen < MaxGen
      /\ device' = [device EXCEPT ![d] = [device[d] EXCEPT !.gen = @ + 1]]
      /\ due' = due \cup {Task("push", d, device'[d], None, {})}
      /\ UNCHANGED <<pairing, challenge, cached, given, conn, handling, diskDevice, diskPairing,
                     claimed, revoked, unsettled, restarts>>
  BY DEF SetPush, claimVars, socketVars, diskVars, historyVars
<1>2. device[d] \in Row /\ WellRow(device[d]) /\ device \in [Devices -> Row] /\ d \in given
  BY <1>1, RowFacts DEF TInv, RowsAreWell
<1>3. device'[d] = [device[d] EXCEPT !.gen = @ + 1]
  BY <1>1, <1>2
<1>4. device[d].gen \in Nat /\ device[d].gen + 1 \in 0..MaxGen + 1 /\ device[d].status = "active"
  BY <1>1, <1>2, BoundsAssumption DEF Row, Active
<1>5. /\ device'[d] \in Row /\ device'[d].status = "active" /\ device'[d].gen = device[d].gen + 1
      /\ device'[d].token = device[d].token /\ device'[d].key = device[d].key
  BY <1>2, <1>3, <1>4 DEF Row
<1>6. WellRow(device'[d])
  BY <1>1, <1>2, <1>4, <1>5, BoundsAssumption DEF WellRow, Row
<1> QED
  BY <1>1, <1>2, <1>5, <1>6

LEMMA SetPushTypes ==
  ASSUME TInv, NEW d \in Devices, SetPush(d)
  PROVE  TInv'
<1> PICK row \in Row : row = device'[d]
  BY SetPushFacts
<1> DEFINE task == Task("push", d, row, None, {})
<1>1. task \in Tasks /\ task.kind = "push" /\ task.dev = d /\ task.row = row /\ task.step = "device"
  BY SetPushFacts, TaskFacts
<1>2. row \in Row /\ WellRow(row) /\ row.status = "active" /\ due' = due \cup {task}
  BY SetPushFacts
<1>3. /\ device' \in [Devices -> Row] /\ \A e \in Devices \ {d} : device'[e] = device[e]
      /\ device'[d] = row /\ d \in given
      /\ UNCHANGED <<pairing, challenge, given, conn, handling, diskDevice, diskPairing, claimed,
                     revoked, unsettled, restarts>>
  BY SetPushFacts
<1>4. cached' \subseteq cached
  BY SetPushFacts
<1> HIDE DEF task
<1> QED
  BY <1>1, <1>2, <1>3, <1>4, NewRowTypes

LEMMA RevokeFacts ==
  ASSUME TInv, NEW d \in Devices, Revoke(d)
  PROVE  /\ d \in given /\ Active(d) /\ (RevokeEarly \/ ~Claiming(d))
         /\ device'[d] \in Row /\ WellRow(device'[d]) /\ device'[d].status = "revoked"
         /\ device'[d].gen = device[d].gen + 1
         /\ device' \in [Devices -> Row] /\ \A e \in Devices \ {d} : device'[e] = device[e]
         /\ cached' = cached \ {d}
         /\ due' = due \cup {Task("revoke", d, device'[d], None, PeersOf(d))}
         /\ UNCHANGED <<pairing, challenge, given, conn, handling, diskDevice, diskPairing,
                        claimed, revoked, unsettled, restarts>>
<1>1. /\ Active(d) /\ (RevokeEarly \/ ~Claiming(d))
      /\ device' = [device EXCEPT ![d].status = "revoked", ![d].gen = @ + 1]
      /\ cached' = cached \ {d}
      /\ due' = due \cup {Task("revoke", d, device'[d], None, PeersOf(d))}
      /\ UNCHANGED <<pairing, challenge, given, conn, handling, diskDevice, diskPairing,
                     claimed, revoked, unsettled, restarts>>
  BY DEF Revoke, socketVars, diskVars, historyVars
<1>2. device[d] \in Row /\ WellRow(device[d]) /\ device \in [Devices -> Row] /\ d \in given
  BY <1>1, RowFacts DEF TInv, RowsAreWell
<1>3. /\ device'[d] = [device[d] EXCEPT !.status = "revoked", !.gen = @ + 1]
      /\ device' = [device EXCEPT ![d] = device'[d]]
  BY <1>1, <1>2
<1>4. device[d].gen \in Nat /\ device[d].gen + 1 \in 0..MaxGen + 1 /\ device[d].status = "active"
  BY <1>1, <1>2, BoundsAssumption DEF Row, WellRow, Active
<1>5. /\ device'[d] \in Row /\ device'[d].status = "revoked" /\ device'[d].gen = device[d].gen + 1
      /\ device'[d].token = device[d].token
  BY <1>2, <1>3, <1>4, BoundsAssumption DEF Row
<1>6. WellRow(device'[d])
  BY <1>2, <1>4, <1>5, BoundsAssumption DEF WellRow, Row
<1> QED
  BY <1>1, <1>2, <1>3, <1>5, <1>6

LEMMA RevokeTypes ==
  ASSUME TInv, NEW d \in Devices, Revoke(d)
  PROVE  TInv'
<1> PICK row \in Row : row = device'[d]
  BY RevokeFacts
<1> DEFINE task == Task("revoke", d, row, None, PeersOf(d))
<1>1. PeersOf(d) \in SUBSET Conns
  BY DEF PeersOf
<1>2. task \in Tasks /\ task.kind = "revoke" /\ task.dev = d /\ task.row = row /\ task.step = "device"
  BY <1>1, RevokeFacts, TaskFacts
<1>3. d \notin cached' /\ due' = due \cup {task}
  BY RevokeFacts
<1> HIDE DEF task
<1>4. row \in Row /\ WellRow(row) /\ row.status = "revoked"
  BY RevokeFacts
<1>5. /\ device' \in [Devices -> Row] /\ \A e \in Devices \ {d} : device'[e] = device[e]
      /\ device'[d] = row /\ d \in given
      /\ UNCHANGED <<pairing, challenge, given, conn, handling, diskDevice, diskPairing, claimed,
                     revoked, unsettled, restarts>>
  BY RevokeFacts
<1>6. cached' \subseteq cached
  BY RevokeFacts
<1> QED
  BY <1>2, <1>3, <1>4, <1>5, <1>6, NewRowTypes

LEMMA PurgeFacts ==
  ASSUME TInv, NEW d \in Devices, Purge(d)
  PROVE  /\ d \in given /\ (RevokeEarly \/ ~Claiming(d))
         /\ device' \in [Devices -> Row] /\ \A e \in Devices \ {d} : device'[e] = device[e]
         /\ device'[d] = Absent
         /\ cached' = cached \ {d}
         /\ due' = due \cup {Task("purge", d, Absent, None, PeersOf(d))}
         /\ UNCHANGED <<pairing, challenge, given, conn, handling, diskDevice, diskPairing,
                        claimed, revoked, unsettled, restarts>>
<1>1. /\ device[d].status # "absent" /\ (RevokeEarly \/ ~Claiming(d))
      /\ device' = [device EXCEPT ![d] = Absent]
      /\ cached' = cached \ {d}
      /\ due' = due \cup {Task("purge", d, Absent, None, PeersOf(d))}
      /\ UNCHANGED <<pairing, challenge, given, conn, handling, diskDevice, diskPairing,
                     claimed, revoked, unsettled, restarts>>
  BY DEF Purge, socketVars, diskVars, historyVars
<1>2. d \in given
  BY <1>1, AbsentFacts DEF TInv, OnlyGiven
<1> QED
  BY <1>1, <1>2, RowFacts, AbsentFacts

LEMMA PurgeTypes ==
  ASSUME TInv, NEW d \in Devices, Purge(d)
  PROVE  TInv'
<1> DEFINE task == Task("purge", d, Absent, None, PeersOf(d))
<1>1. PeersOf(d) \in SUBSET Conns
  BY DEF PeersOf
<1>2. task \in Tasks /\ task.kind = "purge" /\ task.dev = d /\ task.row = Absent /\ task.step = "device"
  BY <1>1, AbsentFacts, TaskFacts
<1>3. d \notin cached' /\ due' = due \cup {task}
  BY PurgeFacts
<1> HIDE DEF task
<1> QED
  BY <1>2, <1>3, AbsentFacts, PurgeFacts, NewRowTypes

-----------------------------------------------------------------------------
(* u is w, or what w becomes when a handler goes on.                       *)
Follows(u, w) ==
  /\ u \in Tasks /\ u.kind = w.kind /\ u.dev = w.dev /\ u.row = w.row
  /\ u.step = "peers" => Ending(u)
  /\ u.step = "pairing" => w.step = "pairing" /\ u.pair = w.pair

LEMMA FollowsItself == ASSUME TInv, NEW t \in due PROVE Follows(t, t)
BY DEF TInv, TypeOK, RowsFitKinds, Follows

LEMMA BecomesFacts ==
  ASSUME TInv, NEW t \in due, NEW step \in {"device", "peers"}, step = "peers" => Ending(t)
  PROVE  /\ Follows([t EXCEPT !.step = step], t)
         /\ [t EXCEPT !.step = step].step = step
         /\ [t EXCEPT !.step = step].peers = t.peers
<1>1. t \in Tasks
  BY DEF TInv, TypeOK
<1> QED
  BY <1>1 DEF Follows, Tasks, Ending

LEMMA HandlersGoOn ==
  ASSUME TInv, UNCHANGED <<device, claimVars>>,
         \A u \in due' : \E w \in due : Follows(u, w),
         diskDevice' \in [Devices -> Row], \A d \in Devices : WellRow(diskDevice'[d]),
         \A d \in Devices \ given : diskDevice'[d] = Absent,
         diskPairing' \in [Pairings -> {"unused", "open"} \cup Devices],
         conn' \in [Conns -> {"new", "ticket", "admitted", "live", "gone"} \X (Devices \cup {None})],
         handling' \subseteq {c \in Conns : conn'[c][1] = "live"},
         claimed' \in [Devices -> 0..MaxGen],
         revoked' \subseteq given, unsettled' \subseteq given, UNCHANGED restarts
  PROVE  TInv'
<1>1. UNCHANGED <<device, pairing, challenge, cached, given>>
  BY DEF claimVars
<1>2. TypeOK'
  BY <1>1 DEF TInv, TypeOK, Active, Follows
<1>3. RowsAreWell'
  BY <1>1 DEF TInv, RowsAreWell, Follows
<1>4. OnlyGiven'
  BY <1>1 DEF TInv, OnlyGiven, Follows
<1>5. RowsFitKinds'
  BY DEF TInv, RowsFitKinds, Follows
<1> QED
  BY <1>2, <1>3, <1>4, <1>5 DEF TInv

LEMMA WritePairingFacts ==
  ASSUME TInv, NEW t \in due, WritePairing(t)
  PROVE  /\ t.step = "pairing" /\ t.kind = "claim"
         /\ diskPairing' = [diskPairing EXCEPT ![t.pair] = t.dev]
         /\ due' = (due \ {t}) \cup {[t EXCEPT !.step = "device"]}
         /\ UNCHANGED <<device, claimVars, conn, handling, diskDevice, claimed, revoked, unsettled, restarts>>
         /\ \A u \in due' : \E w \in due :
              Follows(u, w) /\ u.peers = w.peers /\ (u.step # "peers" \/ w = u)
<1>1. /\ t.step = "pairing"
      /\ diskPairing' = [diskPairing EXCEPT ![t.pair] = t.dev]
      /\ due' = (due \ {t}) \cup {[t EXCEPT !.step = "device"]}
      /\ UNCHANGED <<device, claimVars, conn, handling, diskDevice, claimed, revoked, unsettled, restarts>>
  BY DEF WritePairing, Becomes, socketVars, historyVars
<1>2. t.kind = "claim"
  BY <1>1 DEF TInv, RowsFitKinds
<1>3. ASSUME NEW u \in due'
      PROVE  \E w \in due :
               Follows(u, w) /\ u.peers = w.peers /\ (u.step # "peers" \/ w = u)
  <2>1. CASE u \in due
    BY <2>1, FollowsItself
  <2>2. CASE u = [t EXCEPT !.step = "device"]
    <3>1. Follows(u, t) /\ u.peers = t.peers /\ u.step = "device"
      BY <2>2, BecomesFacts
    <3> QED
      BY <3>1
  <2> QED
    BY <1>1, <2>1, <2>2
<1> QED
  BY <1>1, <1>2, <1>3

LEMMA WritePairingTypes ==
  ASSUME TInv, NEW t \in due, WritePairing(t)
  PROVE  TInv'
<1>1. t.dev \in Devices /\ diskPairing \in [Pairings -> {"unused", "open"} \cup Devices]
  BY RowFacts DEF TInv, TypeOK
<1>2. diskPairing' \in [Pairings -> {"unused", "open"} \cup Devices]
  BY <1>1, WritePairingFacts
<1>3. \A u \in due' : \E w \in due : Follows(u, w)
  BY WritePairingFacts
<1>4. UNCHANGED <<device, claimVars, conn, handling, diskDevice, claimed, revoked, unsettled, restarts>>
  BY WritePairingFacts
<1>5. /\ diskDevice \in [Devices -> Row]
      /\ conn \in [Conns -> {"new", "ticket", "admitted", "live", "gone"} \X (Devices \cup {None})]
      /\ handling \subseteq {c \in Conns : conn[c][1] = "live"}
      /\ claimed \in [Devices -> 0..MaxGen]
      /\ revoked \subseteq given /\ unsettled \subseteq given
      /\ \A d \in Devices : WellRow(diskDevice[d])
      /\ \A d \in Devices \ given : diskDevice[d] = Absent
  BY RowFacts DEF TInv, TypeOK, RowsAreWell, OnlyGiven
<1> QED
  BY <1>2, <1>3, <1>4, <1>5, HandlersGoOn

(* What a write leaves in the store: the row of the handler, nothing, or   *)
(* what was there.                                                         *)
LEMMA WriteDeviceFacts ==
  ASSUME TInv, NEW t \in due, WriteDevice(t)
  PROVE  /\ t.step = "device" /\ t.dev \in Devices
         /\ diskDevice' \in [Devices -> Row] /\ diskDevice'[t.dev] = Stored(t, diskDevice[t.dev])
         /\ \A d \in Devices \ {t.dev} : diskDevice'[d] = diskDevice[d]
         /\ \/ t.kind = "purge" /\ diskDevice'[t.dev] = Absent
            \/ /\ t.kind # "purge" /\ diskDevice'[t.dev] = t.row
               /\ diskDevice[t.dev].gen < t.row.gen
               /\ t.kind = "claim" \/ diskDevice[t.dev] # Absent
            \/ /\ t.kind # "purge" /\ diskDevice'[t.dev] = diskDevice[t.dev]
               /\ diskDevice[t.dev].gen >= t.row.gen \/ diskDevice[t.dev] = Absent
               /\ t.kind = "claim" => diskDevice[t.dev].gen >= t.row.gen
         /\ IF Ending(t) THEN due' = (due \ {t}) \cup {[t EXCEPT !.step = "peers"]} ELSE due' = due \ {t}
         /\ claimed' = IF t.kind = "claim" THEN [claimed EXCEPT ![t.dev] = t.row.token] ELSE claimed
         /\ UNCHANGED <<device, claimVars, conn, handling, diskPairing, revoked, unsettled, restarts>>
<1>1. /\ t.step = "device"
      /\ diskDevice' = [diskDevice EXCEPT ![t.dev] = Stored(t, diskDevice[t.dev])]
      /\ IF Ending(t) THEN due' = (due \ {t}) \cup {[t EXCEPT !.step = "peers"]} ELSE due' = due \ {t}
      /\ claimed' = IF t.kind = "claim" THEN [claimed EXCEPT ![t.dev] = t.row.token] ELSE claimed
      /\ UNCHANGED <<device, claimVars, conn, handling, diskPairing, revoked, unsettled, restarts>>
  BY DEF WriteDevice, Becomes, Ending, socketVars
<1>2. /\ t.dev \in Devices /\ t.row \in Row /\ diskDevice \in [Devices -> Row]
      /\ diskDevice[t.dev] \in Row
  BY RowFacts
<1>3. Stored(t, diskDevice[t.dev]) \in Row
  BY <1>2, AbsentFacts DEF Stored
<1>4. t.row.gen \in Nat /\ diskDevice[t.dev].gen \in Nat
  BY <1>2, BoundsAssumption DEF Row
<1>5. diskDevice'[t.dev] = Stored(t, diskDevice[t.dev])
  BY <1>1, <1>2
<1>6. \/ t.kind = "purge" /\ diskDevice'[t.dev] = Absent
      \/ /\ t.kind # "purge" /\ diskDevice'[t.dev] = t.row
         /\ diskDevice[t.dev].gen < t.row.gen
         /\ t.kind = "claim" \/ diskDevice[t.dev] # Absent
      \/ /\ t.kind # "purge" /\ diskDevice'[t.dev] = diskDevice[t.dev]
         /\ diskDevice[t.dev].gen >= t.row.gen \/ diskDevice[t.dev] = Absent
         /\ t.kind = "claim" => diskDevice[t.dev].gen >= t.row.gen
  BY <1>4, <1>5 DEF Stored
<1> QED
  BY <1>1, <1>2, <1>3, <1>5, <1>6

LEMMA WriteDeviceTasks ==
  ASSUME TInv, NEW t \in due, WriteDevice(t)
  PROVE  \A u \in due' : \E w \in due : /\ Follows(u, w) /\ u.peers = w.peers
                                        /\ u.step = "peers" => w = u \/ w = t
                                        /\ w = t => Ending(t) /\ u = [t EXCEPT !.step = "peers"]
<1>1. t.step # "peers"
  BY WriteDeviceFacts
<1> SUFFICES ASSUME NEW u \in due'
             PROVE  \E w \in due : /\ Follows(u, w) /\ u.peers = w.peers
                                   /\ u.step = "peers" => w = u \/ w = t
                                   /\ w = t => Ending(t) /\ u = [t EXCEPT !.step = "peers"]
  OBVIOUS
<1>2. CASE u \in due /\ u # t
  BY <1>2, FollowsItself
<1>3. CASE Ending(t) /\ u = [t EXCEPT !.step = "peers"]
  BY <1>3, BecomesFacts
<1> QED
  BY <1>2, <1>3, WriteDeviceFacts

LEMMA WriteDeviceTypes ==
  ASSUME TInv, NEW t \in due, WriteDevice(t)
  PROVE  TInv'
<1>1. \A u \in due' : \E w \in due : Follows(u, w)
  BY WriteDeviceTasks
<1>2. WellRow(t.row) /\ t.dev \in given /\ t.row.token \in 0..MaxGen /\ t.dev \in Devices
  BY RowFacts DEF TInv, RowsAreWell, OnlyGiven, Row
<1>3. \A d \in Devices : WellRow(diskDevice'[d])
  BY <1>2, WriteDeviceFacts, AbsentFacts DEF TInv, RowsAreWell
<1>4. \A d \in Devices \ given : diskDevice'[d] = Absent
  BY <1>2, WriteDeviceFacts DEF TInv, OnlyGiven
<1>5. claimed' \in [Devices -> 0..MaxGen]
  BY <1>2, WriteDeviceFacts DEF TInv, TypeOK
<1>6. /\ diskDevice' \in [Devices -> Row]
      /\ UNCHANGED <<device, claimVars, conn, handling, diskPairing, revoked, unsettled, restarts>>
  BY WriteDeviceFacts
<1>7. /\ diskPairing \in [Pairings -> {"unused", "open"} \cup Devices]
      /\ conn \in [Conns -> {"new", "ticket", "admitted", "live", "gone"} \X (Devices \cup {None})]
      /\ handling \subseteq {c \in Conns : conn[c][1] = "live"}
      /\ revoked \subseteq given /\ unsettled \subseteq given
  BY DEF TInv, TypeOK
<1> QED
  BY <1>1, <1>3, <1>4, <1>5, <1>6, <1>7, HandlersGoOn

LEMMA WriteFailsFacts ==
  ASSUME TInv, NEW t \in due, WriteFails(t)
  PROVE  /\ t.dev \in Devices /\ due' = due \ {t} /\ unsettled' = unsettled \cup {t.dev}
         /\ claimed' = IF t.kind = "claim" THEN [claimed EXCEPT ![t.dev] = 0] ELSE claimed
         /\ UNCHANGED <<device, claimVars, conn, handling, diskDevice, diskPairing, revoked, restarts>>
BY RowFacts DEF WriteFails, socketVars, diskVars

LEMMA WriteFailsTypes ==
  ASSUME TInv, NEW t \in due, WriteFails(t)
  PROVE  TInv'
<1>1. \A u \in due' : \E w \in due : Follows(u, w)
  BY WriteFailsFacts, FollowsItself
<1>2. t.dev \in given /\ t.dev \in Devices
  BY WriteFailsFacts DEF TInv, OnlyGiven
<1>3. claimed' \in [Devices -> 0..MaxGen] /\ unsettled' \subseteq given
  BY <1>2, WriteFailsFacts, BoundsAssumption DEF TInv, TypeOK
<1>4. UNCHANGED <<device, claimVars, conn, handling, diskDevice, diskPairing, revoked, restarts>>
  BY WriteFailsFacts
<1>5. /\ diskDevice \in [Devices -> Row]
      /\ diskPairing \in [Pairings -> {"unused", "open"} \cup Devices]
      /\ conn \in [Conns -> {"new", "ticket", "admitted", "live", "gone"} \X (Devices \cup {None})]
      /\ handling \subseteq {c \in Conns : conn[c][1] = "live"} /\ revoked \subseteq given
      /\ \A d \in Devices : WellRow(diskDevice[d])
      /\ \A d \in Devices \ given : diskDevice[d] = Absent
  BY RowFacts DEF TInv, TypeOK, RowsAreWell, OnlyGiven
<1> QED
  BY <1>1, <1>3, <1>4, <1>5, HandlersGoOn

LEMMA RemovePeerFacts ==
  ASSUME TInv, NEW t \in due, NEW c \in Conns, RemovePeer(t, c)
  PROVE  /\ t.step = "peers" /\ c \in t.peers /\ c \notin handling
         /\ conn' \in [Conns -> {"new", "ticket", "admitted", "live", "gone"} \X (Devices \cup {None})]
         /\ conn'[c] = <<"gone", None>> /\ \A e \in Conns \ {c} : conn'[e] = conn[e]
         /\ UNCHANGED <<device, claimVars, handling, diskDevice, diskPairing, claimed, revoked,
                        unsettled, restarts>>
         /\ due' = (due \ {t}) \cup {[t EXCEPT !.peers = @ \ {c}]}
         /\ \A u \in due' : \E w \in due :
              Follows(u, w) /\ u.step = w.step /\ w.peers \ {c} \subseteq u.peers
<1>1. /\ t.step = "peers" /\ c \in t.peers /\ c \notin handling
      /\ conn' = [conn EXCEPT ![c] = <<"gone", None>>]
      /\ due' = (due \ {t}) \cup {[t EXCEPT !.peers = @ \ {c}]}
      /\ UNCHANGED <<device, claimVars, handling, diskDevice, diskPairing, claimed, revoked,
                     unsettled, restarts>>
  BY DEF RemovePeer, Sockets, diskVars, historyVars
<1>2. /\ conn' \in [Conns -> {"new", "ticket", "admitted", "live", "gone"} \X (Devices \cup {None})]
      /\ conn'[c] = <<"gone", None>> /\ \A e \in Conns \ {c} : conn'[e] = conn[e]
  BY <1>1 DEF TInv, TypeOK
<1>3. t \in Tasks
  BY DEF TInv, TypeOK
<1>4. /\ Follows([t EXCEPT !.peers = @ \ {c}], t) /\ [t EXCEPT !.peers = @ \ {c}].step = t.step
      /\ [t EXCEPT !.peers = @ \ {c}].peers = t.peers \ {c}
  BY <1>3, FollowsItself DEF Follows, Tasks, Ending
<1>5. ASSUME NEW u \in due'
      PROVE  \E w \in due : Follows(u, w) /\ u.step = w.step /\ w.peers \ {c} \subseteq u.peers
  <2>1. CASE u \in due
    BY <2>1, FollowsItself
  <2>2. CASE u = [t EXCEPT !.peers = @ \ {c}]
    BY <2>2, <1>4
  <2> QED
    BY <1>1, <2>1, <2>2
<1> QED
  BY <1>1, <1>2, <1>5

LEMMA RemovePeerTypes ==
  ASSUME TInv, NEW t \in due, NEW c \in Conns, RemovePeer(t, c)
  PROVE  TInv'
<1>1. \A u \in due' : \E w \in due : Follows(u, w)
  BY RemovePeerFacts
<1>2. /\ conn' \in [Conns -> {"new", "ticket", "admitted", "live", "gone"} \X (Devices \cup {None})]
      /\ c \notin handling /\ \A e \in Conns \ {c} : conn'[e] = conn[e]
      /\ UNCHANGED <<device, claimVars, handling, diskDevice, diskPairing, claimed, revoked,
                     unsettled, restarts>>
  BY RemovePeerFacts
<1>3. /\ diskDevice \in [Devices -> Row]
      /\ diskPairing \in [Pairings -> {"unused", "open"} \cup Devices]
      /\ handling \subseteq {e \in Conns : conn[e][1] = "live"}
      /\ revoked \subseteq given /\ unsettled \subseteq given
      /\ claimed \in [Devices -> 0..MaxGen]
      /\ \A d \in Devices : WellRow(diskDevice[d])
      /\ \A d \in Devices \ given : diskDevice[d] = Absent
  BY RowFacts DEF TInv, TypeOK, RowsAreWell, OnlyGiven
<1>4. handling' \subseteq {e \in Conns : conn'[e][1] = "live"}
  BY <1>2, <1>3
<1> QED
  BY <1>1, <1>2, <1>3, <1>4, HandlersGoOn

LEMMA AnswerFacts ==
  ASSUME TInv, NEW t \in due, AnswerRevocation(t)
  PROVE  /\ t.step = "peers" /\ t.peers = {} /\ Ending(t) /\ t.dev \in Devices
         /\ due' = due \ {t} /\ revoked' = revoked \cup {t.dev}
         /\ UNCHANGED <<device, claimVars, conn, handling, diskDevice, diskPairing, claimed,
                        unsettled, restarts>>
<1>1. t.step = "peers"
  BY DEF AnswerRevocation
<1>2. Ending(t)
  BY <1>1 DEF TInv, RowsFitKinds
<1> QED
  BY <1>2, RowFacts DEF AnswerRevocation, socketVars, diskVars

LEMMA AnswerTypes ==
  ASSUME TInv, NEW t \in due, AnswerRevocation(t)
  PROVE  TInv'
<1>1. \A u \in due' : \E w \in due : Follows(u, w)
  BY AnswerFacts, FollowsItself
<1>2. revoked' \subseteq given
  BY AnswerFacts DEF TInv, TypeOK, OnlyGiven
<1>3. UNCHANGED <<device, claimVars, conn, handling, diskDevice, diskPairing, claimed, unsettled, restarts>>
  BY AnswerFacts
<1>4. /\ diskDevice \in [Devices -> Row]
      /\ diskPairing \in [Pairings -> {"unused", "open"} \cup Devices]
      /\ conn \in [Conns -> {"new", "ticket", "admitted", "live", "gone"} \X (Devices \cup {None})]
      /\ handling \subseteq {e \in Conns : conn[e][1] = "live"} /\ unsettled \subseteq given
      /\ claimed \in [Devices -> 0..MaxGen]
      /\ \A d \in Devices : WellRow(diskDevice[d])
      /\ \A d \in Devices \ given : diskDevice[d] = Absent
  BY RowFacts DEF TInv, TypeOK, RowsAreWell, OnlyGiven
<1> QED
  BY <1>1, <1>2, <1>3, <1>4, HandlersGoOn

LEMMA RestartFacts ==
  ASSUME TInv, Restart
  PROVE  /\ device' = diskDevice /\ cached' = {} /\ due' = {} /\ handling' = {}
         /\ \A c \in Conns : (conn'[c] = conn[c] /\ conn[c][1] = "new") \/ conn'[c] = <<"gone", None>>
         /\ conn' \in [Conns -> {"new", "ticket", "admitted", "live", "gone"} \X (Devices \cup {None})]
         /\ unsettled' = unsettled \cup {t.dev : t \in due}
         /\ claimed' = [d \in Devices |-> IF Claiming(d) THEN 0 ELSE claimed[d]]
         /\ UNCHANGED <<diskDevice, diskPairing, given, revoked>>
<1>1. /\ device' = diskDevice /\ cached' = {} /\ due' = {} /\ handling' = {}
      /\ conn' = [c \in Conns |-> IF conn[c][1] = "new" THEN conn[c] ELSE <<"gone", None>>]
      /\ unsettled' = unsettled \cup {t.dev : t \in due}
      /\ claimed' = [d \in Devices |-> IF Claiming(d) THEN 0 ELSE claimed[d]]
      /\ UNCHANGED <<diskDevice, diskPairing, given, revoked>>
  BY DEF Restart, diskVars
<1>2. conn \in [Conns -> {"new", "ticket", "admitted", "live", "gone"} \X (Devices \cup {None})]
  BY DEF TInv, TypeOK
<1>3. <<"gone", None>> \in {"new", "ticket", "admitted", "live", "gone"} \X (Devices \cup {None})
  OBVIOUS
<1>4. conn' \in [Conns -> {"new", "ticket", "admitted", "live", "gone"} \X (Devices \cup {None})]
  BY <1>1, <1>2, <1>3
<1> QED
  BY <1>1, <1>4

LEMMA RestartTypes ==
  ASSUME TInv, Restart
  PROVE  TInv'
<1>1. /\ restarts' = restarts + 1 /\ restarts < MaxRestarts /\ pairing' = diskPairing
      /\ challenge' = [p \in Pairings |-> None]
  BY DEF Restart
<1>2. restarts' \in 0..MaxRestarts
  BY <1>1, BoundsAssumption DEF TInv, TypeOK
<1>3. claimed' \in [Devices -> 0..MaxGen]
  BY RestartFacts, BoundsAssumption DEF TInv, TypeOK
<1>4. unsettled' \subseteq given
  BY RestartFacts DEF TInv, TypeOK, OnlyGiven
<1>5. TypeOK'
  BY <1>1, <1>2, <1>3, <1>4, RestartFacts DEF TInv, TypeOK
<1>6. RowsAreWell' /\ OnlyGiven' /\ RowsFitKinds'
  BY RestartFacts DEF TInv, RowsAreWell, OnlyGiven, RowsFitKinds
<1> QED
  BY <1>5, <1>6 DEF TInv

LEMMA TypesInductive == TInv /\ [Next]_vars => TInv'
<1> SUFFICES ASSUME TInv, [Next]_vars PROVE TInv'
  OBVIOUS
<1>1. ASSUME NEW p \in Pairings, StartPairing(p) PROVE TInv'
  BY <1>1, StartPairingTypes
<1>2. ASSUME NEW p \in Pairings, NEW k \in Keys, TakeChallenge(p, k) \/ ClaimRefused(p, k) PROVE TInv'
  BY <1>2, ChallengeTypes
<1>3. ASSUME NEW p \in Pairings, NEW k \in Keys, NEW d \in Devices, Claim(p, k, d) PROVE TInv'
  BY <1>3, ClaimTypes
<1>4. ASSUME NEW d \in Devices, SetPush(d) \/ Revoke(d) \/ Purge(d) PROVE TInv'
  BY <1>4, SetPushTypes, RevokeTypes, PurgeTypes
<1>5. ASSUME NEW c \in Conns, SocketStep(c) PROVE TInv'
  BY <1>5, SocketTypes
<1>6. ASSUME NEW t \in due, Finish(t) PROVE TInv'
  BY <1>6, WritePairingTypes, WriteDeviceTypes, WriteFailsTypes, RemovePeerTypes, AnswerTypes DEF Finish
<1>7. ASSUME UNCHANGED vars PROVE TInv'
  <2>1. /\ UNCHANGED <<device, diskDevice, due, cached, given, historyVars>>
        /\ UNCHANGED <<pairing, diskPairing, challenge, conn, handling>>
    BY <1>7 DEF vars, claimVars, socketVars, diskVars
  <2> QED
    BY <2>1, TypesStay DEF TInv, TypeOK
<1> QED
  BY <1>1, <1>2, <1>3, <1>4, <1>5, <1>6, <1>7, RestartTypes DEF Next, SocketStep

-----------------------------------------------------------------------------
LEMMA InitDevices == Init => DInv
<1> SUFFICES ASSUME Init PROVE DInv
  OBVIOUS
<1>1. /\ due = {} /\ revoked = {}
      /\ \A d \in Devices : device[d] = Absent /\ diskDevice[d] = Absent /\ claimed[d] = 0
  BY DEF Init
<1>2. ClaimsAreCurrent /\ EndingIsFinal /\ RevokedIsFinal /\ RevokedIsGone /\ RevocationIsStored
  BY <1>1 DEF ClaimsAreCurrent, EndingIsFinal, RevokedIsFinal, RevokedIsGone, RevocationIsStored
<1>3. \A d \in Devices : ~Active(d)
  BY <1>1, AbsentFacts DEF Active
<1>4. RevocationOutranks /\ RowsAreSnapshots /\ TokenIsSettled /\ StoreFollows /\ OneDevicePerKey
  BY <1>1, <1>3, AbsentFacts DEF RevocationOutranks, RowsAreSnapshots, TokenIsSettled,
     StoreFollows, OneDevicePerKey
<1> QED
  BY <1>2, <1>4 DEF DInv

(* A step of pairings and sockets that gives an inactive device no peer.   *)
LEMMA DevicesStay ==
  ASSUME TInv, DInv,
         UNCHANGED <<device, cached, due, diskDevice, claimed, revoked, unsettled>>,
         \A d \in Devices : ~Active(d) => PeersOf(d)' \subseteq PeersOf(d)
  PROVE  DInv'
<1>1. \A d : (Active(d)' <=> Active(d)) /\ (Claiming(d)' <=> Claiming(d))
  BY DEF Active, Claiming
<1>2. ClaimsAreCurrent' /\ RevokedIsFinal' /\ RevocationIsStored' /\ StoreFollows' /\ OneDevicePerKey'
  BY <1>1 DEF DInv, ClaimsAreCurrent, RevokedIsFinal, RevocationIsStored, StoreFollows, OneDevicePerKey
<1>3. EndingIsFinal'
  BY <1>1, RowFacts DEF DInv, EndingIsFinal
<1>4. RevokedIsGone'
  BY DEF DInv, RevokedIsGone, RevokedIsFinal, TInv, TypeOK
<1>5. RevocationOutranks' /\ RowsAreSnapshots' /\ TokenIsSettled'
  BY <1>1 DEF DInv, RevocationOutranks, RowsAreSnapshots, TokenIsSettled
<1> QED
  BY <1>2, <1>3, <1>4, <1>5 DEF DInv

LEMMA PairingStep ==
  ASSUME TInv, DInv, NEW p \in Pairings,
         StartPairing(p) \/ \E k \in Keys : TakeChallenge(p, k) \/ ClaimRefused(p, k)
  PROVE  DInv'
<1>1. UNCHANGED <<device, cached, due, diskDevice, claimed, revoked, unsettled, conn>>
  BY DEF StartPairing, TakeChallenge, ClaimRefused, socketVars, diskVars, historyVars
<1> QED
  BY <1>1, DevicesStay DEF PeersOf

(* A socket becomes a peer only of an active device.                       *)
LEMMA SocketsStep ==
  ASSUME TInv, DInv, NEW c \in Conns, SocketStep(c)
  PROVE  DInv'
<1>1. UNCHANGED <<device, cached, due, diskDevice, claimed, revoked, unsettled>>
  BY DEF SocketStep, IssueTicket, ConsumeTicket, RegisterPeer, Disconnect, BeginMessage,
     EndMessage, SocketOnly, claimVars, diskVars, historyVars
<1>2. ASSUME NEW d \in Devices, ~Active(d), NEW e \in Conns, conn'[e] = <<"live", d>>
      PROVE  conn[e] = <<"live", d>>
  <2>1. conn \in [Conns -> {"new", "ticket", "admitted", "live", "gone"} \X (Devices \cup {None})]
    BY DEF TInv, TypeOK
  <2>2. <<"live", d>>[1] = "live" /\ <<"live", d>>[2] = d
    OBVIOUS
  <2>3. ASSUME NEW f \in Devices, IssueTicket(c, f) PROVE conn[e] = <<"live", d>>
    <3>1. conn' = [conn EXCEPT ![c] = <<"ticket", f>>]
      BY <2>3 DEF IssueTicket, Sockets
    <3>2. <<"ticket", f>> # <<"live", d>>
      OBVIOUS
    <3> QED
      BY <3>1, <3>2, <2>1, <1>2
  <2>4. CASE ConsumeTicket(c)
    <3>1. PICK s \in {<<"admitted", conn[c][2]>>, <<"gone", None>>} : conn' = [conn EXCEPT ![c] = s]
      BY <2>4 DEF ConsumeTicket, Sockets
    <3>2. s # <<"live", d>>
      OBVIOUS
    <3> QED
      BY <3>1, <3>2, <2>1, <1>2
  <2>5. CASE RegisterPeer(c)
    <3>1. PICK s \in {<<"live", conn[c][2]>>, <<"gone", None>>} :
            conn' = [conn EXCEPT ![c] = s] /\ (s = <<"gone", None>> \/ Active(conn[c][2]))
      BY <2>5 DEF RegisterPeer, Sockets
    <3>2. s # <<"live", d>>
      BY <3>1, <1>2
    <3> QED
      BY <3>1, <3>2, <2>1, <1>2
  <2>6. CASE Disconnect(c)
    <3>1. conn' = [conn EXCEPT ![c] = <<"gone", None>>]
      BY <2>6 DEF Disconnect, Sockets
    <3>2. <<"gone", None>> # <<"live", d>>
      OBVIOUS
    <3> QED
      BY <3>1, <3>2, <2>1, <1>2
  <2>7. CASE BeginMessage(c) \/ EndMessage(c)
    BY <2>7, <1>2 DEF BeginMessage, EndMessage
  <2> QED
    BY <2>3, <2>4, <2>5, <2>6, <2>7 DEF SocketStep
<1>3. \A d \in Devices : ~Active(d) => PeersOf(d)' \subseteq PeersOf(d)
  BY <1>2 DEF PeersOf
<1> QED
  BY <1>1, <1>3, DevicesStay

-----------------------------------------------------------------------------
LEMMA ClaimFacts ==
  ASSUME TInv, NEW p \in Pairings, NEW k \in Keys, NEW d \in Devices, Claim(p, k, d)
  PROVE  \E row \in Row, task \in Tasks :
           /\ row.status = "active" /\ row.key = k
           /\ row.gen = device[d].gen + 1 /\ device[d].gen \in Nat
           /\ row.token = IF d \in cached THEN device[d].token ELSE row.gen
           /\ device'[d] = row /\ \A e \in Devices \ {d} : device'[e] = device[e]
           /\ task.kind = "claim" /\ task.dev = d /\ task.row = row
           /\ cached' = cached \cup {d} /\ due' = due \cup {task}
           /\ UNCHANGED <<conn, diskDevice, claimed, revoked, unsettled>>
           /\ \/ Active(d) /\ device[d].key = k
              \/ d \notin given /\ OfKey(k) = {}
<1> DEFINE row == ClaimedRow(k, d)
           task == Task("claim", d, row, p, {})
<1>1. /\ device[d].gen < MaxGen /\ d \in Candidates(p, k)
      /\ device' = [device EXCEPT ![d] = row]
      /\ cached' = cached \cup {d} /\ due' = due \cup {task}
      /\ UNCHANGED <<conn, diskDevice, claimed, revoked, unsettled>>
  BY DEF Claim, ClaimedRow, socketVars, diskVars, historyVars
<1>2. /\ row \in Row /\ row.status = "active" /\ row.key = k /\ row.token = Token(d)
      /\ row.gen = device[d].gen + 1
  BY <1>1, ClaimedRowFacts
<1>3. row.token = IF d \in cached THEN device[d].token ELSE row.gen
  BY <1>2 DEF Token
<1> HIDE DEF row
<1>4. task \in Tasks /\ task.kind = "claim" /\ task.dev = d /\ task.row = row
  BY <1>2, TaskFacts
<1> HIDE DEF task
<1>5. device'[d] = row /\ \A e \in Devices \ {d} : device'[e] = device[e]
  BY <1>1, RowFacts
<1>6. device[d].gen \in Nat
  BY RowFacts DEF Row
<1>7. \/ Active(d) /\ device[d].key = k
      \/ d \notin given /\ OfKey(k) = {}
  BY <1>1 DEF Candidates, OfKey
<1> QED
  BY <1>1, <1>2, <1>3, <1>4, <1>5, <1>6, <1>7

(* A claim attaches to an active device or to one that nothing is known    *)
(* of; its token is the one of the other claims under way.                 *)
LEMMA ClaimStep ==
  ASSUME TInv, DInv, NEW p \in Pairings, NEW k \in Keys, NEW d \in Devices, Claim(p, k, d)
  PROVE  DInv'
<1>1. PICK row \in Row, task \in Tasks :
        /\ row.status = "active" /\ row.key = k
        /\ row.gen = device[d].gen + 1 /\ device[d].gen \in Nat
        /\ row.token = IF d \in cached THEN device[d].token ELSE row.gen
        /\ device'[d] = row /\ \A e \in Devices \ {d} : device'[e] = device[e]
        /\ task.kind = "claim" /\ task.dev = d /\ task.row = row
        /\ cached' = cached \cup {d} /\ due' = due \cup {task}
        /\ UNCHANGED <<conn, diskDevice, claimed, revoked, unsettled>>
        /\ \/ Active(d) /\ device[d].key = k
           \/ d \notin given /\ OfKey(k) = {}
  BY ClaimFacts
<1>2. Active(d)' /\ \A e \in Devices \ {d} : Active(e)' <=> Active(e)
  BY <1>1 DEF Active
<1>3. d \notin given => /\ \A t \in due : t.dev # d
                        /\ diskDevice[d] = Absent /\ d \notin cached /\ d \notin revoked
  BY DEF TInv, TypeOK, OnlyGiven
<1>4. \A t \in due : t.dev \in Devices /\ (Ending(t) => t.dev # d)
  BY <1>1, <1>3, RowFacts DEF DInv, EndingIsFinal
<1>5. ~Ending(task)
  BY <1>1 DEF Ending
<1>6. \A e : PeersOf(e)' = PeersOf(e)
  BY <1>1 DEF PeersOf
<1>7. d \notin revoked
  BY <1>1, <1>3 DEF DInv, RevokedIsFinal
<1>8. ClaimsAreCurrent'
  BY <1>1, <1>2, <1>3, <1>4 DEF DInv, ClaimsAreCurrent
<1>9. EndingIsFinal'
  BY <1>1, <1>2, <1>4, <1>5, <1>6 DEF DInv, EndingIsFinal
<1>10. RevokedIsFinal' /\ RevokedIsGone' /\ RevocationIsStored'
  BY <1>1, <1>2, <1>6, <1>7 DEF DInv, RevokedIsFinal, RevokedIsGone, RevocationIsStored, TInv, TypeOK
<1>11. RevocationOutranks'
  <2>1. \A t \in due : t.kind = "revoke" => t.dev # d
    BY <1>4 DEF Ending
  <2>2. diskDevice[d].status # "revoked"
    BY <1>1, <1>3, AbsentFacts DEF DInv, RevocationOutranks
  <2> QED
    BY <1>1, <1>2, <2>1, <2>2 DEF DInv, RevocationOutranks
<1>12. RowsAreSnapshots'
  <2> SUFFICES ASSUME NEW e \in Devices, Active(e)'
               PROVE  /\ Snapshot(diskDevice[e], device'[e])
                      /\ \A t \in due' : t.dev = e => Snapshot(t.row, device'[e])
    BY <1>1 DEF RowsAreSnapshots
  <2>1. CASE e # d
    BY <2>1, <1>1, <1>2 DEF DInv, RowsAreSnapshots
  <2>2. CASE e = d /\ d \notin given
    <3>1. Snapshot(diskDevice[d], row) /\ Snapshot(row, row)
      BY <2>2, <1>1, <1>3, AbsentFacts DEF Snapshot, Row
    <3> QED
      BY <2>2, <3>1, <1>1, <1>3
  <2>3. CASE e = d /\ Active(d)
    <3>1. ASSUME NEW old \in Row, WellRow(old), Snapshot(old, device[d]) PROVE Snapshot(old, row)
      <4>1. device[d].key = k
        BY <2>3, <1>1, <1>3, RowFacts
      <4>2. old.gen \in Nat /\ device[d].gen \in Nat /\ row.gen = device[d].gen + 1
        BY <1>1 DEF Row
      <4> QED
        BY <4>1, <4>2, <3>1, <1>1 DEF Snapshot
    <3>2. Snapshot(diskDevice[d], row)
      BY <3>1, <2>3, RowFacts DEF DInv, RowsAreSnapshots, TInv, RowsAreWell
    <3>3. \A t \in due : t.dev = d => Snapshot(t.row, row)
      BY <3>1, <2>3, RowFacts DEF DInv, RowsAreSnapshots, TInv, RowsAreWell
    <3>4. Snapshot(row, row)
      BY DEF Snapshot, Row
    <3> QED
      BY <2>3, <3>2, <3>3, <3>4, <1>1
  <2> QED
    BY <2>1, <2>2, <2>3, <1>1
<1>13. TokenIsSettled'
  <2>1. Claiming(d)' /\ \A e \in Devices \ {d} : Claiming(e)' <=> Claiming(e)
    BY <1>1 DEF Claiming
  <2> QED
    BY <1>1, <1>2, <2>1 DEF DInv, TokenIsSettled
<1>14. StoreFollows'
  BY <1>1, <1>2 DEF DInv, StoreFollows
<1>15. OneDevicePerKey'
  <2>1. ASSUME NEW e \in Devices \ unsettled, e # d, Active(e), device[e].key = k, d \notin unsettled
        PROVE  FALSE
    BY <2>1, <1>1 DEF DInv, OneDevicePerKey, OfKey
  <2> QED
    BY <1>1, <1>2, <2>1 DEF DInv, OneDevicePerKey
<1> QED
  BY <1>8, <1>9, <1>10, <1>11, <1>12, <1>13, <1>14, <1>15 DEF DInv

(* A push registration is one more snapshot of an active device.           *)
LEMMA SetPushStep ==
  ASSUME TInv, DInv, NEW d \in Devices, SetPush(d)
  PROVE  DInv'
<1>1. PICK row \in Row : row = device'[d]
  BY SetPushFacts
<1>2. PICK task \in Tasks : /\ task.kind = "push" /\ task.dev = d /\ task.row = row
                            /\ due' = due \cup {task}
  BY <1>1, SetPushFacts, TaskFacts
<1>3. /\ row.status = "active" /\ row.key = device[d].key /\ row.token = device[d].token
      /\ row.gen = device[d].gen + 1 /\ device[d].gen \in Nat
      /\ \A e \in Devices \ {d} : device'[e] = device[e]
      /\ Active(d)
      /\ UNCHANGED <<cached, conn, diskDevice, claimed, revoked, unsettled>>
  BY <1>1, SetPushFacts, RowFacts DEF Row
<1>4. \A e \in Devices : Active(e)' <=> Active(e)
  BY <1>1, <1>3 DEF Active
<1>5. \A t \in due : t.dev \in Devices /\ (Ending(t) => t.dev # d)
  BY <1>3, RowFacts DEF DInv, EndingIsFinal
<1>6. ~Ending(task)
  BY <1>2 DEF Ending
<1>7. \A e : PeersOf(e)' = PeersOf(e) /\ (Claiming(e)' <=> Claiming(e))
  BY <1>2, <1>3 DEF PeersOf, Claiming
<1>8. ClaimsAreCurrent'
  BY <1>1, <1>2, <1>3, <1>4, <1>5 DEF DInv, ClaimsAreCurrent
<1>9. EndingIsFinal'
  BY <1>2, <1>3, <1>4, <1>5, <1>6, <1>7 DEF DInv, EndingIsFinal
<1>10. RevokedIsFinal' /\ RevokedIsGone' /\ RevocationIsStored'
  BY <1>3, <1>4, <1>7 DEF DInv, RevokedIsFinal, RevokedIsGone, RevocationIsStored, TInv, TypeOK
<1>11. RevocationOutranks'
  <2>1. \A t \in due : t.kind = "revoke" => t.dev # d
    BY <1>5 DEF Ending
  <2>2. diskDevice[d].status # "revoked"
    BY <1>3 DEF DInv, RevocationOutranks
  <2> QED
    BY <1>2, <1>3, <1>4, <2>1, <2>2 DEF DInv, RevocationOutranks
<1>12. RowsAreSnapshots'
  <2> SUFFICES ASSUME NEW e \in Devices, Active(e)
               PROVE  /\ Snapshot(diskDevice[e], device'[e])
                      /\ \A t \in due' : t.dev = e => Snapshot(t.row, device'[e])
    BY <1>3, <1>4 DEF RowsAreSnapshots
  <2>1. CASE e # d
    BY <2>1, <1>2, <1>3 DEF DInv, RowsAreSnapshots
  <2>2. CASE e = d
    <3>1. ASSUME NEW old \in Row, Snapshot(old, device[d]) PROVE Snapshot(old, row)
      BY <3>1, <1>3 DEF Snapshot, Row
    <3>2. Snapshot(diskDevice[d], row) /\ \A t \in due : t.dev = d => Snapshot(t.row, row)
      BY <3>1, <2>2, RowFacts DEF DInv, RowsAreSnapshots
    <3>3. Snapshot(row, row)
      BY DEF Snapshot, Row
    <3> QED
      BY <2>2, <3>2, <3>3, <1>1, <1>2
  <2> QED
    BY <2>1, <2>2
<1>13. TokenIsSettled'
  <2> SUFFICES ASSUME NEW e \in Devices, claimed[e] # 0, ~Claiming(e)
               PROVE  /\ Active(e) => device'[e].token = claimed[e]
                      /\ diskDevice[e].status = "active" => diskDevice[e].token = claimed[e]
                      /\ \A t \in due' : t.dev = e /\ t.row.status = "active" /\ t.row.gen >= claimed[e]
                           => t.row.token = claimed[e]
    BY <1>3, <1>4, <1>7 DEF TokenIsSettled
  <2> QED
    BY <1>1, <1>2, <1>3 DEF DInv, TokenIsSettled
<1>14. StoreFollows'
  BY <1>2, <1>3, <1>4 DEF DInv, StoreFollows
<1>15. OneDevicePerKey'
  <2>1. \A e \in Devices : Active(e) => device'[e].key = device[e].key
    BY <1>1, <1>3
  <2> QED
    BY <1>3, <1>4, <2>1 DEF DInv, OneDevicePerKey
<1> QED
  BY <1>8, <1>9, <1>10, <1>11, <1>12, <1>13, <1>14, <1>15 DEF DInv

(* The end of a device, by a revocation or a purge, while no claim of it   *)
(* is being written.                                                       *)
LEMMA EndStep ==
  ASSUME TInv, DInv, NEW task \in Tasks, Ending(task), ~Claiming(task.dev),
         task.dev \in Devices, task.row.status # "active", task.step = "device",
         PeersOf(task.dev) \subseteq task.peers,
         task.kind = "revoke" => Active(task.dev) /\ task.row.gen = device[task.dev].gen + 1,
         device'[task.dev] = task.row,
         \A e \in Devices \ {task.dev} : device'[e] = device[e],
         cached' = cached \ {task.dev}, due' = due \cup {task},
         UNCHANGED <<conn, diskDevice, claimed, revoked, unsettled>>
  PROVE  DInv'
<1> DEFINE d == task.dev
<1>1. ~Active(d)' /\ \A e \in Devices \ {d} : Active(e)' <=> Active(e)
  BY DEF Active
<1>2. \A t \in due : t.dev \in Devices /\ (t.kind = "claim" => t.dev # d)
  BY RowFacts DEF Claiming
<1>3. task.kind # "claim"
  BY DEF Ending
<1>4. \A e : PeersOf(e)' = PeersOf(e) /\ (Claiming(e)' <=> Claiming(e))
  BY <1>3 DEF PeersOf, Claiming
<1>5. \A e \in Devices : Active(e)' => Active(e) /\ device'[e] = device[e] /\ e # d
  BY <1>1
<1>6. ClaimsAreCurrent'
  BY <1>1, <1>2, <1>3 DEF DInv, ClaimsAreCurrent
<1>7. EndingIsFinal'
  BY <1>1, <1>2, <1>4 DEF DInv, EndingIsFinal
<1>8. RevokedIsFinal' /\ RevokedIsGone' /\ RevocationIsStored'
  BY <1>1, <1>4 DEF DInv, RevokedIsFinal, RevokedIsGone, RevocationIsStored, TInv, TypeOK
<1>9. RevocationOutranks'
  <2> SUFFICES ASSUME NEW e \in Devices
               PROVE  /\ \A t, u \in due' : t.dev = e /\ u.dev = e /\ t.kind = "revoke" /\ u.row.status = "active"
                           => u.row.gen < t.row.gen
                      /\ \A t \in due' : t.dev = e /\ t.kind = "revoke" /\ diskDevice[e].status = "active"
                           => diskDevice[e].gen < t.row.gen
                      /\ diskDevice[e].status = "revoked" =>
                           /\ ~Active(e)'
                           /\ \A u \in due' : u.dev = e /\ u.row.status = "active" => u.row.gen < diskDevice[e].gen
    BY DEF RevocationOutranks
  <2>1. ASSUME task.kind = "revoke", e = d
        PROVE  /\ \A u \in due : u.dev = e => u.row.gen < task.row.gen
               /\ diskDevice[e].gen < task.row.gen
    <3>1. Active(d) /\ task.row.gen = device[d].gen + 1 /\ device[d].gen \in Nat
      BY <2>1, RowFacts DEF Row
    <3>2. \A u \in due : u.row.gen \in Nat
      BY RowFacts DEF Row
    <3>3. diskDevice[d].gen \in Nat
      BY RowFacts DEF Row
    <3>4. diskDevice[d].gen <= device[d].gen /\ \A u \in due : u.dev = d => u.row.gen <= device[d].gen
      BY <3>1 DEF DInv, RowsAreSnapshots, Snapshot
    <3> QED
      BY <2>1, <3>1, <3>2, <3>3, <3>4
  <2>2. ~Active(e) => ~Active(e)'
    BY <1>1
  <2> QED
    BY <2>1, <2>2 DEF DInv, RevocationOutranks
<1>10. RowsAreSnapshots'
  BY <1>5 DEF DInv, RowsAreSnapshots
<1>11. TokenIsSettled'
  BY <1>4, <1>5 DEF DInv, TokenIsSettled
<1>12. StoreFollows'
  BY <1>1 DEF DInv, StoreFollows
<1>13. OneDevicePerKey'
  BY <1>5 DEF DInv, OneDevicePerKey
<1> QED
  BY <1>6, <1>7, <1>8, <1>9, <1>10, <1>11, <1>12, <1>13 DEF DInv

LEMMA RevokeStep ==
  ASSUME TInv, DInv, RevokeEarly = FALSE, NEW d \in Devices, Revoke(d)
  PROVE  DInv'
<1>1. PICK row \in Row : row = device'[d]
  BY RevokeFacts
<1> DEFINE task == Task("revoke", d, row, None, PeersOf(d))
<1>2. PeersOf(d) \in SUBSET Conns
  BY DEF PeersOf
<1>3. /\ task \in Tasks /\ task.kind = "revoke" /\ task.dev = d /\ task.row = row /\ task.step = "device"
      /\ task.peers = PeersOf(d)
  BY <1>2, TaskFacts
<1>4. due' = due \cup {task}
  BY <1>1, RevokeFacts
<1> HIDE DEF task
<1>5. Ending(task)
  BY <1>3 DEF Ending
<1>6. /\ Active(d) /\ ~Claiming(d) /\ row.status = "revoked" /\ row.gen = device[d].gen + 1
      /\ \A e \in Devices \ {d} : device'[e] = device[e]
      /\ cached' = cached \ {d}
      /\ UNCHANGED <<conn, diskDevice, claimed, revoked, unsettled>>
  BY <1>1, RevokeFacts
<1> QED
  BY <1>1, <1>3, <1>4, <1>5, <1>6, EndStep

LEMMA PurgeStep ==
  ASSUME TInv, DInv, RevokeEarly = FALSE, NEW d \in Devices, Purge(d)
  PROVE  DInv'
<1> DEFINE task == Task("purge", d, Absent, None, PeersOf(d))
<1>1. PeersOf(d) \in SUBSET Conns
  BY DEF PeersOf
<1>2. /\ task \in Tasks /\ task.kind = "purge" /\ task.dev = d /\ task.row = Absent /\ task.step = "device"
      /\ task.peers = PeersOf(d)
  BY <1>1, AbsentFacts, TaskFacts
<1>3. due' = due \cup {task}
  BY PurgeFacts
<1> HIDE DEF task
<1>4. Ending(task)
  BY <1>2 DEF Ending
<1>5. /\ ~Claiming(d) /\ device'[d] = Absent
      /\ \A e \in Devices \ {d} : device'[e] = device[e]
      /\ cached' = cached \ {d}
      /\ UNCHANGED <<conn, diskDevice, claimed, revoked, unsettled>>
  BY PurgeFacts
<1> QED
  BY <1>2, <1>3, <1>4, <1>5, AbsentFacts, EndStep

-----------------------------------------------------------------------------
(* A handler goes on without a write of a device row.                      *)
LEMMA StoreStays ==
  ASSUME TInv, DInv, UNCHANGED <<device, claimVars, diskDevice>>,
         \A u \in due' : \E w \in due : Follows(u, w),
         unsettled \subseteq unsettled',
         \A d \in Devices : claimed'[d] # 0 =>
           claimed'[d] = claimed[d] /\ (Claiming(d) => Claiming(d)')
  PROVE  /\ ClaimsAreCurrent' /\ RevocationOutranks' /\ RowsAreSnapshots'
         /\ TokenIsSettled' /\ OneDevicePerKey'
<1>1. UNCHANGED <<device, cached, diskDevice>>
  BY DEF claimVars
<1>2. \A d : Active(d)' <=> Active(d)
  BY <1>1 DEF Active
<1>3. \A u \in due' : \E w \in due : u.kind = w.kind /\ u.dev = w.dev /\ u.row = w.row
  BY DEF Follows
<1>4. ClaimsAreCurrent'
  BY <1>1, <1>2, <1>3 DEF DInv, ClaimsAreCurrent
<1>5. RevocationOutranks'
  <2> SUFFICES ASSUME NEW d \in Devices
               PROVE  /\ \A t, u \in due' : t.dev = d /\ u.dev = d /\ t.kind = "revoke" /\ u.row.status = "active"
                           => u.row.gen < t.row.gen
                      /\ \A t \in due' : t.dev = d /\ t.kind = "revoke" /\ diskDevice[d].status = "active"
                           => diskDevice[d].gen < t.row.gen
                      /\ diskDevice[d].status = "revoked" =>
                           /\ ~Active(d)
                           /\ \A u \in due' : u.dev = d /\ u.row.status = "active" => u.row.gen < diskDevice[d].gen
    BY <1>1, <1>2 DEF RevocationOutranks
  <2>1. ASSUME NEW t \in due', NEW u \in due', t.dev = d, u.dev = d, t.kind = "revoke", u.row.status = "active"
        PROVE  u.row.gen < t.row.gen
    <3>1. PICK v \in due : t.kind = v.kind /\ t.dev = v.dev /\ t.row = v.row
      BY <1>3
    <3>2. PICK w \in due : u.kind = w.kind /\ u.dev = w.dev /\ u.row = w.row
      BY <1>3
    <3> QED
      BY <2>1, <3>1, <3>2 DEF DInv, RevocationOutranks
  <2>2. ASSUME NEW t \in due', t.dev = d
        PROVE  /\ t.kind = "revoke" /\ diskDevice[d].status = "active" => diskDevice[d].gen < t.row.gen
               /\ diskDevice[d].status = "revoked" /\ t.row.status = "active" => t.row.gen < diskDevice[d].gen
    <3>1. PICK v \in due : t.kind = v.kind /\ t.dev = v.dev /\ t.row = v.row
      BY <1>3
    <3> QED
      BY <2>2, <3>1 DEF DInv, RevocationOutranks
  <2>3. diskDevice[d].status = "revoked" => ~Active(d)
    BY DEF DInv, RevocationOutranks
  <2> QED
    BY <2>1, <2>2, <2>3
<1>6. RowsAreSnapshots'
  BY <1>1, <1>2, <1>3 DEF DInv, RowsAreSnapshots
<1>7. TokenIsSettled'
  <2> SUFFICES ASSUME NEW d \in Devices, claimed'[d] # 0, ~Claiming(d)'
               PROVE  /\ Active(d) => device[d].token = claimed'[d]
                      /\ diskDevice[d].status = "active" => diskDevice[d].token = claimed'[d]
                      /\ \A t \in due' : t.dev = d /\ t.row.status = "active" /\ t.row.gen >= claimed'[d]
                           => t.row.token = claimed'[d]
    BY <1>1, <1>2 DEF TokenIsSettled
  <2>1. claimed'[d] = claimed[d] /\ ~Claiming(d)
    OBVIOUS
  <2>2. /\ Active(d) => device[d].token = claimed[d]
        /\ diskDevice[d].status = "active" => diskDevice[d].token = claimed[d]
        /\ \A t \in due : t.dev = d /\ t.row.status = "active" /\ t.row.gen >= claimed[d]
             => t.row.token = claimed[d]
    BY <2>1 DEF DInv, TokenIsSettled
  <2> QED
    BY <1>3, <2>1, <2>2
<1>8. OneDevicePerKey'
  BY <1>1, <1>2 DEF DInv, OneDevicePerKey
<1> QED
  BY <1>4, <1>5, <1>6, <1>7, <1>8

LEMMA WritePairingStep ==
  ASSUME TInv, DInv, NEW t \in due, WritePairing(t)
  PROVE  DInv'
<1>1. /\ UNCHANGED <<device, claimVars, conn, diskDevice, claimed, revoked, unsettled>>
      /\ \A u \in due' : \E w \in due :
           Follows(u, w) /\ u.peers = w.peers /\ (u.step # "peers" \/ w = u)
  BY WritePairingFacts
<1>2. \A d : (Active(d)' <=> Active(d)) /\ PeersOf(d)' = PeersOf(d)
  BY <1>1 DEF Active, PeersOf
<1>3. PICK next \in due' : next = [t EXCEPT !.step = "device"]
  BY WritePairingFacts
<1>4. t.kind = "claim" /\ next.kind = t.kind /\ next.dev = t.dev
  BY <1>3, WritePairingFacts DEF TInv, TypeOK, Tasks
<1>5. \A w \in due : w = t \/ w \in due'
  BY WritePairingFacts
<1>6. \A d : Claiming(d) => Claiming(d)'
  BY <1>4, <1>5 DEF Claiming
<1>7. /\ ClaimsAreCurrent' /\ RevocationOutranks' /\ RowsAreSnapshots'
      /\ TokenIsSettled' /\ OneDevicePerKey'
  <2>1. \A u \in due' : \E w \in due : Follows(u, w)
    BY <1>1
  <2>2. \A d \in Devices : claimed'[d] # 0 =>
          claimed'[d] = claimed[d] /\ (Claiming(d) => Claiming(d)')
    BY <1>1, <1>6
  <2> QED
    BY <1>1, <2>1, <2>2, StoreStays
<1>8. EndingIsFinal'
  <2> SUFFICES ASSUME NEW u \in due', Ending(u)
               PROVE  /\ ~Active(u.dev) /\ PeersOf(u.dev) \subseteq u.peers
                      /\ u.step = "peers" => diskDevice[u.dev].status # "active"
    BY <1>1, <1>2 DEF EndingIsFinal
  <2>1. PICK w \in due : Follows(u, w) /\ u.peers = w.peers /\ (u.step # "peers" \/ w = u)
    BY <1>1
  <2>2. Ending(w) /\ w.dev = u.dev
    BY <2>1 DEF Follows, Ending
  <2> QED
    BY <2>1, <2>2 DEF DInv, EndingIsFinal
<1>9. RevokedIsFinal' /\ RevokedIsGone' /\ RevocationIsStored'
  BY <1>1, <1>2 DEF DInv, RevokedIsFinal, RevokedIsGone, RevocationIsStored
<1>10. StoreFollows'
  BY <1>1, <1>2, <1>4, <1>5 DEF DInv, StoreFollows, Ending
<1> QED
  BY <1>7, <1>8, <1>9, <1>10 DEF DInv

LEMMA WriteFailsStep ==
  ASSUME TInv, DInv, NEW t \in due, WriteFails(t)
  PROVE  DInv'
<1>1. /\ t.dev \in Devices /\ due' = due \ {t} /\ unsettled' = unsettled \cup {t.dev}
      /\ claimed' = IF t.kind = "claim" THEN [claimed EXCEPT ![t.dev] = 0] ELSE claimed
      /\ UNCHANGED <<device, claimVars, conn, diskDevice, revoked>>
  BY WriteFailsFacts
<1>2. \A d : (Active(d)' <=> Active(d)) /\ PeersOf(d)' = PeersOf(d)
  BY <1>1 DEF Active, PeersOf
<1>3. claimed \in [Devices -> 0..MaxGen]
  BY DEF TInv, TypeOK
<1>4. /\ ClaimsAreCurrent' /\ RevocationOutranks' /\ RowsAreSnapshots'
      /\ TokenIsSettled' /\ OneDevicePerKey'
  <2>1. \A u \in due' : \E w \in due : Follows(u, w)
    BY <1>1, FollowsItself
  <2>2. ASSUME NEW d \in Devices, claimed'[d] # 0
        PROVE  claimed'[d] = claimed[d] /\ (Claiming(d) => Claiming(d)')
    <3>1. CASE t.kind = "claim"
      <4>1. d # t.dev /\ claimed'[d] = claimed[d]
        BY <3>1, <2>2, <1>1, <1>3
      <4> QED
        BY <4>1, <1>1 DEF Claiming
    <3>2. CASE t.kind # "claim"
      BY <3>2, <1>1 DEF Claiming
    <3> QED
      BY <3>1, <3>2
  <2>3. unsettled \subseteq unsettled' /\ UNCHANGED <<device, claimVars, diskDevice>>
    BY <1>1
  <2> QED
    BY <2>1, <2>2, <2>3, StoreStays
<1>5. EndingIsFinal'
  BY <1>1, <1>2 DEF DInv, EndingIsFinal
<1>6. RevokedIsFinal' /\ RevokedIsGone' /\ RevocationIsStored'
  BY <1>1, <1>2 DEF DInv, RevokedIsFinal, RevokedIsGone, RevocationIsStored
<1>7. StoreFollows'
  BY <1>1, <1>2 DEF DInv, StoreFollows
<1> QED
  BY <1>4, <1>5, <1>6, <1>7 DEF DInv

LEMMA RemovePeerStep ==
  ASSUME TInv, DInv, NEW t \in due, NEW c \in Conns, RemovePeer(t, c)
  PROVE  DInv'
<1>1. /\ t.step = "peers"
      /\ conn'[c] = <<"gone", None>> /\ \A e \in Conns \ {c} : conn'[e] = conn[e]
      /\ UNCHANGED <<device, claimVars, diskDevice, claimed, revoked, unsettled>>
      /\ due' = (due \ {t}) \cup {[t EXCEPT !.peers = @ \ {c}]}
      /\ \A u \in due' : \E w \in due :
           Follows(u, w) /\ u.step = w.step /\ w.peers \ {c} \subseteq u.peers
  BY RemovePeerFacts
<1>2. \A d : Active(d)' <=> Active(d)
  BY <1>1 DEF Active
<1>3. \A d : PeersOf(d)' \subseteq PeersOf(d) \ {c}
  <2>1. \A d : <<"gone", None>> # <<"live", d>>
    OBVIOUS
  <2> QED
    BY <1>1, <2>1 DEF PeersOf
<1>4. PICK next \in due' : next = [t EXCEPT !.peers = @ \ {c}]
  BY <1>1
<1>5. next.kind = t.kind /\ next.dev = t.dev
  BY <1>4 DEF TInv, TypeOK, Tasks
<1>6. \A w \in due : w = t \/ w \in due'
  BY <1>1
<1>7. \A d : Claiming(d) => Claiming(d)'
  BY <1>5, <1>6 DEF Claiming
<1>8. /\ ClaimsAreCurrent' /\ RevocationOutranks' /\ RowsAreSnapshots'
      /\ TokenIsSettled' /\ OneDevicePerKey'
  <2>1. \A u \in due' : \E w \in due : Follows(u, w)
    BY <1>1
  <2>2. \A d \in Devices : claimed'[d] # 0 =>
          claimed'[d] = claimed[d] /\ (Claiming(d) => Claiming(d)')
    BY <1>1, <1>7
  <2> QED
    BY <1>1, <2>1, <2>2, StoreStays
<1>9. EndingIsFinal'
  <2> SUFFICES ASSUME NEW u \in due', Ending(u)
               PROVE  /\ ~Active(u.dev) /\ PeersOf(u.dev)' \subseteq u.peers
                      /\ u.step = "peers" => diskDevice[u.dev].status # "active"
    BY <1>1, <1>2 DEF EndingIsFinal
  <2>1. PICK w \in due : Follows(u, w) /\ u.step = w.step /\ w.peers \ {c} \subseteq u.peers
    BY <1>1
  <2>2. Ending(w) /\ w.dev = u.dev
    BY <2>1 DEF Follows, Ending
  <2>3. /\ ~Active(w.dev) /\ PeersOf(w.dev) \subseteq w.peers
        /\ w.step = "peers" => diskDevice[w.dev].status # "active"
    BY <2>2 DEF DInv, EndingIsFinal
  <2>4. PeersOf(u.dev)' \subseteq u.peers
    BY <1>3, <2>1, <2>2, <2>3
  <2> QED
    BY <2>1, <2>2, <2>3, <2>4
<1>10. RevokedIsFinal' /\ RevokedIsGone' /\ RevocationIsStored'
  BY <1>1, <1>2, <1>3 DEF DInv, RevokedIsFinal, RevokedIsGone, RevocationIsStored
<1>11. StoreFollows'
  <2>1. next.kind = t.kind => (Ending(next) <=> Ending(t))
    BY DEF Ending
  <2> QED
    BY <1>1, <1>2, <1>5, <1>6, <2>1 DEF DInv, StoreFollows
<1> QED
  BY <1>8, <1>9, <1>10, <1>11 DEF DInv

(* The answer comes when the store has the end and no peer is left.        *)
LEMMA AnswerStep ==
  ASSUME TInv, DInv, NEW t \in due, AnswerRevocation(t)
  PROVE  DInv'
<1>1. /\ t.step = "peers" /\ t.peers = {} /\ Ending(t) /\ t.dev \in Devices
      /\ due' = due \ {t} /\ revoked' = revoked \cup {t.dev}
      /\ UNCHANGED <<device, claimVars, conn, diskDevice, claimed, unsettled>>
  BY AnswerFacts
<1>2. \A d : (Active(d)' <=> Active(d)) /\ PeersOf(d)' = PeersOf(d)
  BY <1>1 DEF Active, PeersOf
<1>3. ~Active(t.dev) /\ PeersOf(t.dev) = {} /\ diskDevice[t.dev].status # "active"
  BY <1>1 DEF DInv, EndingIsFinal
<1>4. \A d : Claiming(d) => Claiming(d)'
  BY <1>1 DEF Claiming, Ending
<1>5. /\ ClaimsAreCurrent' /\ RevocationOutranks' /\ RowsAreSnapshots'
      /\ TokenIsSettled' /\ OneDevicePerKey'
  <2>1. \A u \in due' : \E w \in due : Follows(u, w)
    BY <1>1, FollowsItself
  <2>2. \A d \in Devices : claimed'[d] # 0 =>
          claimed'[d] = claimed[d] /\ (Claiming(d) => Claiming(d)')
    BY <1>1, <1>4
  <2> QED
    BY <1>1, <2>1, <2>2, StoreStays
<1>6. EndingIsFinal'
  BY <1>1, <1>2 DEF DInv, EndingIsFinal
<1>7. RevokedIsFinal' /\ RevokedIsGone' /\ RevocationIsStored'
  BY <1>1, <1>2, <1>3 DEF DInv, RevokedIsFinal, RevokedIsGone, RevocationIsStored
<1>8. StoreFollows'
  BY <1>1, <1>2, <1>3 DEF DInv, StoreFollows
<1> QED
  BY <1>5, <1>6, <1>7, <1>8 DEF DInv

(* What a write can put into the store of an inactive device whose end is  *)
(* stored.                                                                 *)
LEMMA EndedStays ==
  ASSUME TInv, DInv, NEW t \in due, WriteDevice(t),
         ~Active(t.dev), diskDevice[t.dev].status # "active"
  PROVE  diskDevice'[t.dev].status # "active"
<1> DEFINE d == t.dev
<1>1. t.kind # "claim" /\ d \in Devices /\ t.row \in Row /\ diskDevice[d] \in Row
  BY RowFacts DEF DInv, ClaimsAreCurrent
<1>2. \/ diskDevice'[d] = Absent \/ diskDevice'[d] = diskDevice[d]
      \/ diskDevice'[d] = t.row /\ diskDevice[d].gen < t.row.gen /\ diskDevice[d] # Absent
  BY <1>1, WriteDeviceFacts
<1>3. ASSUME t.row.status = "active", diskDevice[d] # Absent, diskDevice[d].gen < t.row.gen
      PROVE  FALSE
  <2>1. diskDevice[d].status = "revoked"
    BY <1>1, <1>3 DEF TInv, RowsAreWell, WellRow, Row
  <2>2. t.row.gen < diskDevice[d].gen
    BY <1>1, <1>3, <2>1 DEF DInv, RevocationOutranks
  <2> QED
    BY <1>1, <1>3, <2>2, BoundsAssumption DEF Row
<1> QED
  BY <1>2, <1>3, AbsentFacts

(* The write of a claim, of a push registration or of an end, however late *)
(* it comes.                                                               *)
LEMMA WriteDeviceStep ==
  ASSUME TInv, DInv, NEW t \in due, WriteDevice(t)
  PROVE  DInv'
<1> DEFINE d == t.dev
<1>1. /\ t.step = "device" /\ d \in Devices
      /\ \A e \in Devices \ {d} : diskDevice'[e] = diskDevice[e]
      /\ UNCHANGED <<device, cached, conn, revoked, unsettled>>
  BY WriteDeviceFacts DEF claimVars
<1>2. \/ t.kind = "purge" /\ diskDevice'[d] = Absent
      \/ /\ t.kind # "purge" /\ diskDevice'[d] = t.row
         /\ diskDevice[d].gen < t.row.gen
         /\ t.kind = "claim" \/ diskDevice[d] # Absent
      \/ /\ t.kind # "purge" /\ diskDevice'[d] = diskDevice[d]
         /\ diskDevice[d].gen >= t.row.gen \/ diskDevice[d] = Absent
         /\ t.kind = "claim" => diskDevice[d].gen >= t.row.gen
  BY WriteDeviceFacts
<1>3. \A u \in due' : \E w \in due : /\ u.kind = w.kind /\ u.dev = w.dev /\ u.row = w.row
                                     /\ u.peers = w.peers
                                     /\ u.step = "peers" => w = u \/ w = t
  BY WriteDeviceTasks DEF Follows
<1>4. \A u \in due : u # t => u \in due'
  BY WriteDeviceFacts
<1>5. Ending(t) => \E u \in due' : u.dev = d /\ Ending(u)
  <2>1. t \in Tasks
    BY DEF TInv, TypeOK
  <2>2. [t EXCEPT !.step = "peers"].kind = t.kind /\ [t EXCEPT !.step = "peers"].dev = t.dev
    BY <2>1 DEF Tasks
  <2> QED
    BY <2>2, WriteDeviceFacts DEF Ending
<1>6. \A e : (Active(e)' <=> Active(e)) /\ PeersOf(e)' = PeersOf(e)
  BY <1>1 DEF Active, PeersOf
<1>7. /\ t.kind \in {"claim", "push", "revoke", "purge"} /\ t.row \in Row /\ WellRow(t.row)
      /\ \A e \in Devices : diskDevice[e] \in Row /\ device[e] \in Row /\ WellRow(diskDevice[e])
      /\ t.kind \in {"claim", "push"} => t.row.status = "active"
      /\ t.kind = "revoke" => t.row.status = "revoked"
  BY RowFacts DEF TInv, TypeOK, Tasks, RowsAreWell, RowsFitKinds
<1>8. /\ t.row.gen \in Nat /\ t.row.token \in Nat
      /\ diskDevice[d].gen \in Nat /\ diskDevice[d].token \in Nat
  BY <1>1, <1>7, BoundsAssumption DEF Row
<1>9. t.kind = "claim" => Active(d) /\ t.row.token = device[d].token
  BY DEF DInv, ClaimsAreCurrent
<1>10. Ending(t) => ~Active(d)
  BY DEF DInv, EndingIsFinal
<1>11. ASSUME t.kind = "push", diskDevice[d] # Absent, diskDevice[d].gen < t.row.gen
       PROVE  diskDevice[d].status = "active"
  <2>1. diskDevice[d].status \in {"active", "revoked"}
    BY <1>1, <1>7, <1>11 DEF WellRow, Row
  <2>2. diskDevice[d].status = "revoked" => t.row.gen < diskDevice[d].gen
    BY <1>1, <1>7, <1>11 DEF DInv, RevocationOutranks
  <2> QED
    BY <2>1, <2>2, <1>8, <1>11
<1>12. ClaimsAreCurrent'
  BY <1>1, <1>3, <1>6 DEF DInv, ClaimsAreCurrent
<1>13. EndingIsFinal'
  <2> SUFFICES ASSUME NEW u \in due', Ending(u)
               PROVE  /\ ~Active(u.dev) /\ PeersOf(u.dev) \subseteq u.peers
                      /\ u.step = "peers" => diskDevice'[u.dev].status # "active"
    BY <1>6 DEF EndingIsFinal
  <2>1. PICK w \in due : /\ u.kind = w.kind /\ u.dev = w.dev /\ u.row = w.row /\ u.peers = w.peers
                         /\ u.step = "peers" => w = u \/ w = t
    BY <1>3
  <2>2. Ending(w) /\ w.dev \in Devices
    BY <2>1, RowFacts DEF Ending
  <2>3. ~Active(w.dev) /\ PeersOf(w.dev) \subseteq w.peers
    BY <2>2 DEF DInv, EndingIsFinal
  <2>4. CASE u.step = "peers" /\ w = u
    <3>1. diskDevice[u.dev].status # "active"
      BY <2>2, <2>4 DEF DInv, EndingIsFinal
    <3> QED
      BY <3>1, <2>1, <2>2, <2>3, <2>4, <1>1, EndedStays
  <2>5. CASE w = t
    <3>1. t.kind = "revoke" \/ t.kind = "purge"
      BY <2>2, <2>5 DEF Ending
    <3>2. CASE t.kind = "revoke"
      <4>1. diskDevice[d].status = "active" => diskDevice[d].gen < t.row.gen
        BY <3>2, <1>1 DEF DInv, RevocationOutranks
      <4>2. diskDevice'[d].status # "active"
        BY <4>1, <3>2, <1>2, <1>7, <1>8, AbsentFacts
      <4> QED
        BY <4>2, <2>1, <2>3, <2>5
    <3>3. CASE t.kind = "purge"
      BY <3>3, <1>2, AbsentFacts, <2>1, <2>3, <2>5
    <3> QED
      BY <3>1, <3>2, <3>3
  <2> QED
    BY <2>1, <2>3, <2>4, <2>5
<1>14. RevokedIsFinal' /\ RevokedIsGone'
  BY <1>1, <1>6 DEF DInv, RevokedIsFinal, RevokedIsGone
<1>15. RevocationIsStored'
  <2> SUFFICES ASSUME NEW e \in revoked PROVE diskDevice'[e].status # "active"
    BY <1>1 DEF RevocationIsStored
  <2>1. e \in Devices /\ ~Active(e) /\ diskDevice[e].status # "active"
    BY DEF DInv, RevokedIsFinal, RevocationIsStored, TInv, TypeOK
  <2> QED
    BY <2>1, <1>1, EndedStays
<1>16. RevocationOutranks'
  <2> SUFFICES ASSUME NEW e \in Devices
               PROVE  /\ \A v, u \in due' : v.dev = e /\ u.dev = e /\ v.kind = "revoke" /\ u.row.status = "active"
                           => u.row.gen < v.row.gen
                      /\ \A v \in due' : v.dev = e /\ v.kind = "revoke" /\ diskDevice'[e].status = "active"
                           => diskDevice'[e].gen < v.row.gen
                      /\ diskDevice'[e].status = "revoked" =>
                           /\ ~Active(e)
                           /\ \A u \in due' : u.dev = e /\ u.row.status = "active" => u.row.gen < diskDevice'[e].gen
    BY <1>6 DEF RevocationOutranks
  <2>1. /\ \A v, u \in due : v.dev = e /\ u.dev = e /\ v.kind = "revoke" /\ u.row.status = "active"
             => u.row.gen < v.row.gen
        /\ \A v \in due : v.dev = e /\ v.kind = "revoke" /\ diskDevice[e].status = "active"
             => diskDevice[e].gen < v.row.gen
        /\ diskDevice[e].status = "revoked" =>
             /\ ~Active(e)
             /\ \A u \in due : u.dev = e /\ u.row.status = "active" => u.row.gen < diskDevice[e].gen
    BY DEF DInv, RevocationOutranks
  <2>2. ASSUME NEW v \in due', NEW u \in due', v.dev = e, u.dev = e, v.kind = "revoke", u.row.status = "active"
        PROVE  u.row.gen < v.row.gen
    <3>1. PICK x \in due : v.kind = x.kind /\ v.dev = x.dev /\ v.row = x.row
      BY <1>3
    <3>2. PICK w \in due : u.kind = w.kind /\ u.dev = w.dev /\ u.row = w.row
      BY <1>3
    <3> QED
      BY <2>1, <2>2, <3>1, <3>2
  <2>3. ASSUME NEW v \in due', v.dev = e, v.kind = "revoke", diskDevice'[e].status = "active"
        PROVE  diskDevice'[e].gen < v.row.gen
    <3>1. PICK x \in due : v.kind = x.kind /\ v.dev = x.dev /\ v.row = x.row
      BY <1>3
    <3>2. diskDevice'[e] = diskDevice[e] \/ (e = d /\ diskDevice'[e] = t.row)
      BY <2>3, <1>1, <1>2, AbsentFacts
    <3> QED
      BY <2>1, <2>3, <3>1, <3>2
  <2>4. ASSUME diskDevice'[e].status = "revoked"
        PROVE  /\ ~Active(e)
               /\ \A u \in due' : u.dev = e /\ u.row.status = "active" => u.row.gen < diskDevice'[e].gen
    <3>1. diskDevice'[e] = diskDevice[e] \/ (e = d /\ diskDevice'[e] = t.row)
      BY <2>4, <1>1, <1>2, AbsentFacts
    <3>2. CASE diskDevice'[e] = diskDevice[e]
      BY <3>2, <2>1, <2>4, <1>3
    <3>3. CASE e = d /\ diskDevice'[e] = t.row
      <4>1. t.kind = "revoke" \/ t.kind = "purge"
        BY <3>3, <2>4, <1>7
      <4>2. t.kind = "revoke"
        BY <4>1, <3>3, <2>4, <1>2, AbsentFacts
      <4>3. ~Active(d)
        BY <4>2, <1>10 DEF Ending
      <4> QED
        BY <4>2, <4>3, <3>3, <2>1, <1>3
    <3> QED
      BY <3>1, <3>2, <3>3
  <2> QED
    BY <2>2, <2>3, <2>4
<1>17. RowsAreSnapshots'
  <2> SUFFICES ASSUME NEW e \in Devices, Active(e)
               PROVE  /\ Snapshot(diskDevice'[e], device[e])
                      /\ \A u \in due' : u.dev = e => Snapshot(u.row, device[e])
    BY <1>1, <1>6 DEF RowsAreSnapshots
  <2>1. Snapshot(diskDevice[e], device[e]) /\ \A w \in due : w.dev = e => Snapshot(w.row, device[e])
    BY DEF DInv, RowsAreSnapshots
  <2>2. diskDevice'[e] = diskDevice[e] \/ (e = d /\ diskDevice'[e] = t.row)
    BY <1>1, <1>2, <1>10 DEF Ending
  <2> QED
    BY <2>1, <2>2, <1>3
<1>18. TokenIsSettled'
  <2>1. claimed \in [Devices -> 0..MaxGen]
    BY DEF TInv, TypeOK
  <2>2. claimed' = IF t.kind = "claim" THEN [claimed EXCEPT ![d] = t.row.token] ELSE claimed
    BY WriteDeviceFacts
  <2>3. \A e : Claiming(e) /\ (t.kind # "claim" \/ e # d) => Claiming(e)'
    BY <1>4 DEF Claiming
  <2> SUFFICES ASSUME NEW e \in Devices, claimed'[e] # 0, ~Claiming(e)'
               PROVE  /\ Active(e) => device[e].token = claimed'[e]
                      /\ diskDevice'[e].status = "active" => diskDevice'[e].token = claimed'[e]
                      /\ \A u \in due' : u.dev = e /\ u.row.status = "active" /\ u.row.gen >= claimed'[e]
                           => u.row.token = claimed'[e]
    BY <1>1, <1>6 DEF TokenIsSettled
  <2>4. CASE t.kind = "claim" /\ e = d
    <3>1. claimed'[e] = t.row.token /\ t.row.token = device[e].token
      BY <2>1, <2>2, <2>4, <1>9
    <3>2. Snapshot(diskDevice[e], device[e]) /\ \A w \in due : w.dev = e => Snapshot(w.row, device[e])
      BY <2>4, <1>9 DEF DInv, RowsAreSnapshots
    <3>3. diskDevice'[e].status = "active" => diskDevice'[e].token = claimed'[e]
      <4>1. CASE diskDevice'[e] = t.row
        BY <4>1, <3>1
      <4>2. CASE diskDevice'[e] = diskDevice[e] /\ diskDevice[e].gen >= t.row.gen
        <5>1. diskDevice[e].gen >= device[e].token
          BY <4>2, <3>1, <2>4, <1>7, <1>8 DEF WellRow
        <5> QED
          BY <5>1, <4>2, <3>1, <3>2 DEF Snapshot
      <4> QED
        BY <4>1, <4>2, <2>4, <1>2
    <3>4. \A u \in due' : u.dev = e /\ u.row.status = "active" /\ u.row.gen >= claimed'[e]
                           => u.row.token = claimed'[e]
      BY <3>1, <3>2, <1>3 DEF Snapshot
    <3> QED
      BY <3>1, <3>3, <3>4
  <2>5. CASE t.kind # "claim" \/ e # d
    <3>1. claimed'[e] = claimed[e] /\ ~Claiming(e)
      BY <2>1, <2>2, <2>3, <2>5
    <3>2. /\ Active(e) => device[e].token = claimed[e]
          /\ diskDevice[e].status = "active" => diskDevice[e].token = claimed[e]
          /\ \A w \in due : w.dev = e /\ w.row.status = "active" /\ w.row.gen >= claimed[e]
               => w.row.token = claimed[e]
      BY <3>1 DEF DInv, TokenIsSettled
    <3>3. CASE e # d \/ diskDevice'[e] = diskDevice[e] \/ diskDevice'[e] = Absent
      BY <3>1, <3>2, <3>3, <1>1, <1>3, AbsentFacts
    <3>4. CASE e = d /\ diskDevice'[e] = t.row /\ diskDevice[d].gen < t.row.gen /\ diskDevice[d] # Absent
      <4>1. t.row.status = "active" => t.row.token = claimed[e]
        <5>1. SUFFICES ASSUME t.row.status = "active" PROVE t.row.token = claimed[e]
          OBVIOUS
        <5>2. t.kind = "push" \/ t.kind = "purge"
          BY <5>1, <3>4, <2>5, <1>7
        <5>3. CASE t.kind = "push"
          <6>1. diskDevice[d].token = claimed[e] /\ diskDevice[d].token <= diskDevice[d].gen
            BY <5>3, <3>2, <3>4, <1>1, <1>7, <1>11 DEF WellRow
          <6>2. t.row.gen >= claimed[e]
            BY <6>1, <3>4, <1>8
          <6> QED
            BY <6>2, <5>1, <3>2, <3>4
        <5>4. CASE t.kind = "purge"
          BY <5>4, <5>1, <3>4, <1>2, AbsentFacts
        <5> QED
          BY <5>2, <5>3, <5>4
      <4> QED
        BY <4>1, <3>1, <3>2, <3>4, <1>3
    <3> QED
      BY <3>3, <3>4, <2>5, <1>2
  <2> QED
    BY <2>4, <2>5
<1>19. StoreFollows'
  <2> SUFFICES ASSUME NEW e \in Devices \ unsettled, diskDevice'[e].status = "active"
               PROVE  Active(e) \/ \E u \in due' : u.dev = e /\ Ending(u)
    BY <1>1, <1>6 DEF StoreFollows
  <2>1. CASE diskDevice[e].status = "active"
    <3>1. Active(e) \/ \E u \in due : u.dev = e /\ Ending(u)
      BY <2>1 DEF DInv, StoreFollows
    <3> QED
      BY <3>1, <1>4, <1>5
  <2>2. CASE diskDevice[e].status # "active"
    <3>1. e = d /\ diskDevice'[e] = t.row /\ t.kind # "purge"
      BY <2>2, <1>1, <1>2, AbsentFacts
    <3>2. t.kind = "claim"
      BY <3>1, <2>2, <1>2, <1>7, <1>11
    <3> QED
      BY <3>1, <3>2, <1>9
  <2> QED
    BY <2>1, <2>2
<1>20. OneDevicePerKey'
  BY <1>1, <1>6 DEF DInv, OneDevicePerKey
<1> QED
  BY <1>12, <1>13, <1>14, <1>15, <1>16, <1>17, <1>18, <1>19, <1>20 DEF DInv

(* After a crash the devices are those of the store.                       *)
LEMMA RestartStep ==
  ASSUME TInv, DInv, Restart
  PROVE  DInv'
<1>1. /\ device' = diskDevice /\ due' = {}
      /\ unsettled' = unsettled \cup {t.dev : t \in due}
      /\ claimed' = [d \in Devices |-> IF Claiming(d) THEN 0 ELSE claimed[d]]
      /\ UNCHANGED <<diskDevice, revoked>>
  BY RestartFacts
<1>2. \A d : Active(d)' <=> diskDevice[d].status = "active"
  BY <1>1 DEF Active
<1>3. \A d : PeersOf(d)' = {}
  <2>1. \A d : <<"gone", None>> # <<"live", d>> /\ <<"live", d>>[1] = "live"
    OBVIOUS
  <2>2. \A c \in Conns : (conn'[c] = conn[c] /\ conn[c][1] = "new") \/ conn'[c] = <<"gone", None>>
    BY RestartFacts
  <2> QED
    BY <2>1, <2>2 DEF PeersOf
<1>4. ClaimsAreCurrent' /\ EndingIsFinal' /\ StoreFollows'
  BY <1>1, <1>2 DEF ClaimsAreCurrent, EndingIsFinal, StoreFollows
<1>5. RevokedIsFinal' /\ RevokedIsGone' /\ RevocationIsStored'
  BY <1>1, <1>2, <1>3 DEF DInv, RevokedIsFinal, RevokedIsGone, RevocationIsStored
<1>6. RevocationOutranks'
  BY <1>1, <1>2 DEF RevocationOutranks
<1>7. RowsAreSnapshots'
  <2>1. \A d \in Devices : diskDevice[d].gen \in Nat
    BY RowFacts, BoundsAssumption DEF Row
  <2> QED
    BY <1>1, <2>1 DEF RowsAreSnapshots, Snapshot
<1>8. TokenIsSettled'
  BY <1>1, <1>2 DEF DInv, TokenIsSettled
<1>9. OneDevicePerKey'
  <2> SUFFICES ASSUME NEW d \in Devices \ unsettled', NEW e \in Devices \ unsettled',
                      diskDevice[d].status = "active", diskDevice[e].status = "active",
                      diskDevice[d].key = diskDevice[e].key
               PROVE  d = e
    BY <1>1, <1>2 DEF OneDevicePerKey
  <2>1. d \notin unsettled /\ e \notin unsettled /\ \A t \in due : t.dev # d /\ t.dev # e
    BY <1>1
  <2>2. Active(d) /\ Active(e)
    BY <2>1 DEF DInv, StoreFollows
  <2>3. device[d].key = diskDevice[d].key /\ device[e].key = diskDevice[e].key
    BY <2>2 DEF DInv, RowsAreSnapshots, Snapshot
  <2> QED
    BY <2>1, <2>2, <2>3 DEF DInv, OneDevicePerKey
<1> QED
  BY <1>4, <1>5, <1>6, <1>7, <1>8, <1>9 DEF DInv

LEMMA Inductive ==
  ASSUME RevokeEarly = FALSE PROVE TInv /\ DInv /\ [Next]_vars => DInv'
<1> SUFFICES ASSUME TInv, DInv, [Next]_vars PROVE DInv'
  OBVIOUS
<1>1. ASSUME NEW p \in Pairings,
             StartPairing(p) \/ \E k \in Keys : TakeChallenge(p, k) \/ ClaimRefused(p, k)
      PROVE  DInv'
  BY <1>1, PairingStep
<1>2. ASSUME NEW p \in Pairings, NEW k \in Keys, NEW d \in Devices, Claim(p, k, d) PROVE DInv'
  BY <1>2, ClaimStep
<1>3. ASSUME NEW d \in Devices, SetPush(d) \/ Revoke(d) \/ Purge(d) PROVE DInv'
  BY <1>3, SetPushStep, RevokeStep, PurgeStep
<1>4. ASSUME NEW c \in Conns, SocketStep(c) PROVE DInv'
  BY <1>4, SocketsStep
<1>5. ASSUME NEW t \in due, Finish(t) PROVE DInv'
  BY <1>5, WritePairingStep, WriteDeviceStep, WriteFailsStep, RemovePeerStep, AnswerStep DEF Finish
<1>6. ASSUME UNCHANGED vars PROVE DInv'
  <2>1. UNCHANGED <<device, cached, due, diskDevice, claimed, revoked, unsettled, conn>>
    BY <1>6 DEF vars, claimVars, socketVars, diskVars, historyVars
  <2> QED
    BY <2>1, DevicesStay DEF PeersOf
<1> QED
  BY <1>1, <1>2, <1>3, <1>4, <1>5, <1>6, RestartStep DEF Next, SocketStep

-----------------------------------------------------------------------------
(* Whatever is claimed, registered, revoked, purged, written, lost or cut  *)
(* off by a crash: devices, pairings, sockets and handlers stay well       *)
(* formed, and a cached token is that of an active device.                 *)
THEOREM TypeCorrect == Spec => []TypeOK
<1>1. Spec => []TInv
  BY InitTypes, TypesInductive, PTL DEF Spec
<1>2. TInv => TypeOK
  BY DEF TInv
<1> QED
  BY <1>1, <1>2, PTL

LEMMA Always == ASSUME RevokeEarly = FALSE PROVE Spec => [](TInv /\ DInv)
<1>1. Init => TInv /\ DInv
  BY InitTypes, InitDevices
<1>2. (TInv /\ DInv) /\ [Next]_vars => (TInv /\ DInv)'
  BY TypesInductive, Inductive
<1> QED
  BY <1>1, <1>2, PTL DEF Spec

(* A revocation that was answered is complete: the device has no live      *)
(* peer, whatever tickets, sockets and messages were under way, if it was  *)
(* not revoked while a claim of it was being written.                      *)
THEOREM RevocationIsComplete ==
  ASSUME RevokeEarly = FALSE PROVE Spec => []RevokedIsGone
<1>1. TInv /\ DInv => RevokedIsGone
  BY DEF DInv
<1> QED
  BY <1>1, Always, PTL

(* No write that comes late and no crash brings a device back whose        *)
(* revocation was answered: the generations decide between the rows.       *)
THEOREM RevocationIsDurable ==
  ASSUME RevokeEarly = FALSE PROVE Spec => []RevocationIsStored
<1>1. TInv /\ DInv => RevocationIsStored
  BY DEF DInv
<1> QED
  BY <1>1, Always, PTL

(* However many pairings a client claims, at once, after a revocation or   *)
(* after a crash, it has one active device, unless a write was lost.       *)
THEOREM KeyHasOneDevice ==
  ASSUME RevokeEarly = FALSE PROVE Spec => []OneDevicePerKey
<1>1. TInv /\ DInv => OneDevicePerKey
  BY DEF DInv
<1> QED
  BY <1>1, Always, PTL

(* The token that a successful claim gave out is the token of the device   *)
(* while it is active, across writes in any order and crashes, if no later *)
(* claim is under way and none failed.                                     *)
THEOREM TokenWorks ==
  ASSUME RevokeEarly = FALSE PROVE Spec => []ClaimedTokenWorks
<1>1. TInv /\ DInv => ClaimedTokenWorks
  BY DEF DInv, TokenIsSettled, ClaimedTokenWorks
<1> QED
  BY <1>1, Always, PTL
=============================================================================
