------------------------------ MODULE RelayRpc ------------------------------
(***************************************************************************)
(* Request routing of one relay session (crates/falcondeck-relay/src/      *)
(* app.rs): clients call methods, daemon connections register them, and    *)
(* the relay keeps every call that was neither answered nor failed.        *)
(*                                                                         *)
(* Connections of one daemon overlap while it reconnects: the newest owner *)
(* of a method serves new calls, calls of a connection that went away are  *)
(* handed to a surviving owner or parked until one registers.              *)
(*                                                                         *)
(* Every handler changes the routing tables under one store lock; the      *)
(* requests it computed are queued after the lock was released and travel  *)
(* on their own (wire).  Results are counted where they are computed: a    *)
(* client that loses one is removed like any client whose socket closes.   *)
(* A message handler excludes the removal of its own peer (operation_lock).*)
(*                                                                         *)
(* Abstractions: a peer id names one connection and is never used again;   *)
(* the clock is the two facts it decides, whether a call is past its       *)
(* deadline and whether the daemon was lost within the grace period; the   *)
(* byte budget is a count; a client does not reuse the id of a finished    *)
(* call (rpcCounter in remote-host-client.ts).                             *)
(***************************************************************************)
EXTENDS Integers, Sequences, FiniteSets

CONSTANTS
  Clients, Daemons,  (* peer ids of client and daemon connections          *)
  Methods,
  Ids,               (* request ids of a client                            *)
  MaxPending,        (* PENDING_RPC_MAX_COUNT and PENDING_RPC_MAX_BYTES    *)
  NoPeer             (* responder_peer_id of a parked call                 *)

ASSUME PeersAssumption ==
  Clients \cap Daemons = {} /\ NoPeer \notin Clients \cup Daemons
ASSUME BudgetAssumption == MaxPending \in Nat \ {0}

VARIABLES
  peers,      (* LiveSession.peers                                         *)
  used,       (* peer ids given out                                        *)
  open,       (* peers whose socket_loop runs                              *)
  closing,    (* live peers whose unregister_peer has been started         *)
  owners,     (* LiveSession.rpc_methods, in order of registration         *)
  grace,      (* the last daemon was lost at most 20 seconds ago           *)
  pending,    (* LiveSession.pending_rpc                                   *)
  wire,       (* messages computed by a handler and not yet received       *)
  working,    (* requests a daemon connection received and did not answer  *)
  made,       (* history: ids their client used                            *)
  owed,       (* history: calls accepted less final results computed       *)
  answered    (* history: calls that were given a final result             *)

tableVars == <<owners, grace, pending>>
peerVars == <<peers, used, open>>
history == <<made, owed, answered>>
vars == <<peerVars, closing, tableVars, wire, working, history>>

Peers == Clients \cup Daemons
Calls == Clients \X Ids         \* a namespaced request id
Requester(call) == call[1]

Entry == [method : Methods, responder : Daemons \cup {NoPeer}, late : BOOLEAN]

Request(d, call) == [to |-> d, call |-> call]

Requests == [to : Daemons, call : Calls]

-----------------------------------------------------------------------------
(* rpc_owner: the newest live owner of a method.                           *)
LiveOwners(m, own, live) == {i \in 1..Len(own[m]) : own[m][i] \in live}

HasOwner(m, own, live) == LiveOwners(m, own, live) # {}

Owner(m, own, live) ==
  own[m][CHOOSE i \in LiveOwners(m, own, live) :
           \A j \in LiveOwners(m, own, live) : j <= i]

OwnerOrNone(m, own, live) ==
  IF HasOwner(m, own, live) THEN Owner(m, own, live) ELSE NoPeer

(* Registration and removal of an owner, who is in the list at most once.  *)
Enlisted(own, d) ==
  IF \E i \in 1..Len(own) : own[i] = d THEN own ELSE Append(own, d)

Delisted(own, d) ==
  IF \E i \in 1..Len(own) : own[i] = d
    THEN LET at == CHOOSE i \in 1..Len(own) : own[i] = d
         IN [j \in 1..Len(own) - 1 |-> IF j < at THEN own[j] ELSE own[j + 1]]
    ELSE own

(* daemon_reconnect_grace_active                                           *)
GraceActive == grace /\ peers \cap Daemons = {}

Restricted(calls) == [call \in calls |-> pending[call]]

(* take_expired_rpcs and notify_expired_rpcs                               *)
Late == {call \in DOMAIN pending : pending[call].late}

InTime == DOMAIN pending \ Late

TimedOut == {call \in Late : Requester(call) \in peers}

(* Results for these calls are queued for their clients.                   *)
Settle(calls) ==
  /\ owed' = [call \in Calls |-> owed[call] - (IF call \in calls THEN 1 ELSE 0)]
  /\ answered' = answered \cup calls

-----------------------------------------------------------------------------
(* register_peer                                                           *)
Connect(p) ==
  /\ p \notin used
  /\ used' = used \cup {p} /\ peers' = peers \cup {p} /\ open' = open \cup {p}
  /\ UNCHANGED <<closing, tableVars, wire, working, history>>

(* handle_message passes a message on only for a peer that is registered.  *)
Handled(p) == p \in peers \cap open

(* Mutant of Parked: the new owner takes over every call of its method.    *)
ParkedOrServed(m) == {call \in DOMAIN pending : pending[call].method = m}

(* register_rpc_method: the new owner adopts the parked calls.             *)
Parked(m) == {call \in DOMAIN pending :
                pending[call].responder = NoPeer /\ pending[call].method = m}

RpcRegister(d, m) ==
  /\ Handled(d)
  /\ owners' = [owners EXCEPT ![m] = Enlisted(@, d)]
  /\ pending' = [call \in DOMAIN pending |->
                   IF call \in Parked(m) THEN [pending[call] EXCEPT !.responder = d]
                   ELSE pending[call]]
  /\ wire' = wire \cup {Request(d, call) : call \in Parked(m)}
  /\ UNCHANGED <<peerVars, closing, grace, working, history>>

(* unregister_rpc_method: calls the owner already has stay with it.        *)
RpcUnregister(d, m) ==
  /\ Handled(d)
  /\ owners' = [owners EXCEPT ![m] = Delisted(@, d)]
  /\ UNCHANGED <<peerVars, closing, grace, pending, wire, working, history>>

(* Mutant of Refusal: the table is allowed to grow.                        *)
RefusalUnbounded(call, m) ==
  IF call \in InTime THEN "conflict"
  ELSE IF ~HasOwner(m, owners, peers) /\ ~GraceActive THEN "unavailable"
  ELSE "none"

(***************************************************************************)
(* forward_rpc_call: what is late is swept first, then the call is         *)
(* refused, parked or given to the newest owner.  A refusal for a conflict *)
(* leaves the call that is in flight alone; the other refusals answer the  *)
(* call they refuse.                                                       *)
(***************************************************************************)
Refusal(call, m) ==
  IF call \in InTime THEN "conflict"
  ELSE IF ~HasOwner(m, owners, peers) /\ ~GraceActive THEN "unavailable"
  ELSE IF Cardinality(InTime) >= MaxPending THEN "exhausted"
  ELSE "none"

Refuse ==
  /\ pending' = Restricted(InTime)
  /\ Settle(TimedOut)
  /\ UNCHANGED wire

AcceptAndSettle(call) ==
  /\ owed' = [other \in Calls |-> owed[other] + (IF other = call THEN 1 ELSE 0)
                                  - (IF other \in TimedOut THEN 1 ELSE 0)]
  /\ answered' = answered \cup TimedOut

(* Mutant of Accept: every call is parked.                                 *)
AcceptParking(call, m) ==
  /\ pending' = [other \in InTime \cup {call} |->
                   IF other = call
                     THEN [method |-> m, responder |-> NoPeer, late |-> FALSE]
                     ELSE pending[other]]
  /\ AcceptAndSettle(call)
  /\ UNCHANGED wire

Accept(call, m) ==
  LET target == OwnerOrNone(m, owners, peers) IN
  /\ pending' = [other \in InTime \cup {call} |->
                   IF other = call
                     THEN [method |-> m, responder |-> target, late |-> FALSE]
                     ELSE pending[other]]
  /\ wire' = wire \cup (IF target = NoPeer THEN {} ELSE {Request(target, call)})
  /\ AcceptAndSettle(call)

RpcCall(c, id, m) ==
  LET call == <<c, id>> IN
  /\ Handled(c)
  /\ call \in made => call \in DOMAIN pending
  /\ made' = made \cup {call}
  /\ \/ /\ Refusal(call, m) = "none"
        /\ Accept(call, m)
     \/ /\ Refusal(call, m) # "none"
        /\ Refuse
  /\ UNCHANGED <<peerVars, closing, owners, grace, working>>

(***************************************************************************)
(* resolve_rpc: an answer counts only in time and from the connection that *)
(* serves the call now; any other answer is dropped.                       *)
(***************************************************************************)
Counts(d, call) == call \in InTime /\ pending[call].responder = d

(* Mutant of RpcResult: an answer of another connection also removes the   *)
(* entry it does not resolve (it is not put back).                         *)
RpcResultForgetting(d, call) ==
  /\ Handled(d)
  /\ <<d, call>> \in working
  /\ working' = working \ {<<d, call>>}
  /\ pending' = Restricted(InTime \ {call})
  /\ Settle(TimedOut \cup {answer \in {call} : Counts(d, answer) /\ Requester(answer) \in peers})
  /\ UNCHANGED <<peerVars, closing, owners, grace, wire, made>>

RpcResult(d, call) ==
  /\ Handled(d)
  /\ <<d, call>> \in working
  /\ working' = working \ {<<d, call>>}
  /\ \/ /\ Counts(d, call)
        /\ pending' = Restricted(InTime \ {call})
        /\ Settle(TimedOut \cup {answer \in {call} : Requester(answer) \in peers})
     \/ /\ ~Counts(d, call)
        /\ pending' = Restricted(InTime)
        /\ Settle(TimedOut)
  /\ UNCHANGED <<peerVars, closing, owners, grace, wire, made>>

(***************************************************************************)
(* schedule_rpc_timeout: 30 seconds after its insertion a call is late,    *)
(* and the timer of a pending call, or the idle tick, sweeps it.           *)
(***************************************************************************)
TimePasses(call) ==
  /\ call \in InTime
  /\ pending' = [pending EXCEPT ![call].late = TRUE]
  /\ UNCHANGED <<peerVars, closing, owners, grace, wire, working, history>>

(* Mutant of Sweep: what no connection serves is left where it is.         *)
SweepServed ==
  LET served == {call \in Late : pending[call].responder # NoPeer} IN
  /\ served # {}
  /\ pending' = Restricted(DOMAIN pending \ served)
  /\ Settle(TimedOut \cap served)
  /\ UNCHANGED <<peerVars, closing, owners, grace, wire, working, made>>

Sweep ==
  /\ Late # {}
  /\ pending' = Restricted(InTime)
  /\ Settle(TimedOut)
  /\ UNCHANGED <<peerVars, closing, owners, grace, wire, working, made>>

(* DAEMON_RECONNECT_GRACE_SECONDS have passed.                             *)
GraceEnds ==
  /\ grace
  /\ grace' = FALSE
  /\ UNCHANGED <<peerVars, closing, owners, pending, wire, working, history>>

(***************************************************************************)
(* unregister_peer, in two steps: it is started by the end of a socket     *)
(* loop or by a message that did not fit the queue of the peer, and does   *)
(* its work once no handler runs for the peer.  Calls of the peer are      *)
(* forgotten; calls it serves go to the newest owner that is left, and are *)
(* parked when there is none.                                              *)
(***************************************************************************)
Close(p) ==
  /\ p \in open
  /\ open' = open \ {p}
  /\ closing' = closing \cup ({p} \cap peers)
  /\ UNCHANGED <<peers, used, tableVars, wire, working, history>>

(* Mutant of Orphans: a call already past its deadline stays as it is.     *)
OrphansInTime(p, calls) == {call \in calls : pending[call].responder = p /\ ~pending[call].late}

Orphans(p, calls) == {call \in calls : pending[call].responder = p}

Unregister(p) ==
  LET left      == peers \ {p}
      kept      == [m \in Methods |-> Delisted(owners[m], p)]
      calls     == {call \in DOMAIN pending : Requester(call) # p}
      orphans   == Orphans(p, calls)
      heir(call) == OwnerOrNone(pending[call].method, kept, left)
  IN
  /\ p \in closing
  /\ closing' = closing \ {p}
  /\ peers' = left
  /\ grace' = (grace \/ p \in Daemons)
  /\ owners' = kept
  /\ pending' = [call \in calls |->
                   IF call \in orphans THEN [pending[call] EXCEPT !.responder = heir(call)]
                   ELSE pending[call]]
  /\ wire' = wire \cup {Request(heir(call), call) :
                           call \in {o \in orphans : heir(o) # NoPeer}}
  /\ working' = {w \in working : w[1] # p}
  /\ UNCHANGED <<used, open, history>>

-----------------------------------------------------------------------------
(* The socket loop hands a queued request to the daemon.                   *)
Receive(msg) ==
  /\ msg \in wire
  /\ msg.to \in open
  /\ wire' = wire \ {msg}
  /\ working' = working \cup {<<msg.to, msg.call>>}
  /\ UNCHANGED <<peerVars, closing, tableVars, history>>

(* Mutant of Lose: the peer that missed a message stays registered.        *)
LoseOnly(msg) ==
  /\ msg \in wire
  /\ wire' = wire \ {msg}
  /\ UNCHANGED <<peerVars, closing, tableVars, working, history>>

(* queue_message: a request that does not fit, or whose peer is gone, is   *)
(* lost and starts unregister_peer; so is one the closed socket had left.  *)
Lose(msg) ==
  /\ msg \in wire
  /\ wire' = wire \ {msg}
  /\ closing' = closing \cup ({msg.to} \cap peers)
  /\ UNCHANGED <<peerVars, tableVars, working, history>>

-----------------------------------------------------------------------------
Init ==
  /\ peers = {} /\ used = {} /\ open = {} /\ closing = {}
  /\ owners = [m \in Methods |-> <<>>]
  /\ grace = FALSE
  /\ pending = << >>
  /\ wire = {} /\ working = {} /\ made = {} /\ answered = {}
  /\ owed = [call \in Calls |-> 0]

Next ==
  \/ \E p \in Peers : Connect(p) \/ Close(p) \/ Unregister(p)
  \/ \E d \in Daemons, m \in Methods : RpcRegister(d, m) \/ RpcUnregister(d, m)
  \/ \E c \in Clients, id \in Ids, m \in Methods : RpcCall(c, id, m)
  \/ \E d \in Daemons, call \in Calls : RpcResult(d, call)
  \/ \E call \in Calls : TimePasses(call)
  \/ Sweep
  \/ GraceEnds
  \/ \E msg \in wire : Receive(msg) \/ Lose(msg)

Spec == Init /\ [][Next]_vars

(***************************************************************************)
(* Deadlines pass, the timer of a pending call fires, and a removal that   *)
(* was started gets the operation lock.  No daemon has to answer, to       *)
(* reconnect or to register anything, and no message has to arrive.        *)
(***************************************************************************)
FairSpec ==
  /\ Spec
  /\ \A call \in Calls : WF_vars(TimePasses(call))
  /\ WF_vars(Sweep)
  /\ \A p \in Peers : WF_vars(Unregister(p))

-----------------------------------------------------------------------------
(* The routing tables hold peers, methods and calls of the session.        *)
TypeOK ==
  /\ peers \subseteq used /\ used \subseteq Peers
  /\ open \subseteq used /\ closing \subseteq peers
  /\ owners \in [Methods -> Seq(Daemons)]
  /\ grace \in BOOLEAN
  /\ DOMAIN pending \subseteq Calls
  /\ \A call \in DOMAIN pending : pending[call] \in Entry
  /\ wire \subseteq Requests
  /\ working \subseteq Daemons \X Calls
  /\ made \subseteq Calls /\ answered \subseteq made
  /\ owed \in [Calls -> Int]
  /\ Cardinality(DOMAIN pending) <= MaxPending

(* No entry outlives a connection it names: removing a peer leaves neither *)
(* a call nobody waits for nor a call that waits for a gone connection.    *)
PendingHasLivePeers ==
  \A call \in DOMAIN pending :
    /\ Requester(call) \in peers
    /\ pending[call].responder \in peers \cup {NoPeer}

(* A call is parked only as long as no connection serves its method:       *)
(* whichever of call, registration and removal comes first, nothing waits  *)
(* for its deadline beside a daemon that could take it.                    *)
ParkedHasNoServer ==
  \A call \in DOMAIN pending :
    pending[call].responder = NoPeer => ~HasOwner(pending[call].method, owners, peers)

(* The connection a call is assigned to has the request, will get it, or   *)
(* is being removed, which hands the call on: no call is with a connection *)
(* that never heard of it.                                                 *)
AssignedIsTold ==
  \A call \in DOMAIN pending :
    LET d == pending[call].responder IN
    d # NoPeer => \/ Request(d, call) \in wire
                  \/ <<d, call>> \in working
                  \/ d \in closing

(* Across hand-overs, parking, sweeps and late answers a call of a         *)
(* connected client is either pending or was given exactly one result.     *)
AnsweredOnce ==
  \A call \in Calls : Requester(call) \in peers =>
    owed[call] = IF call \in DOMAIN pending THEN 1 ELSE 0

(* Unless its id was answered before (the client gave up and reused it), a *)
(* pending call runs on one registered connection at most: a hand-over     *)
(* happens only when the former server has been removed.                   *)
OneLiveServer ==
  \A call \in DOMAIN pending \ answered : \A d \in peers :
    (Request(d, call) \in wire \/ <<d, call>> \in working) => pending[call].responder = d

(* Every accepted call ends in a result for its client, or with the client *)
(* gone, whatever the daemon connections do.  (For an id that is reused,   *)
(* its first call.)                                                        *)
CallsEnd ==
  \A call \in Calls :
    (call \in DOMAIN pending) ~> (Requester(call) \notin peers \/ call \in answered)
=============================================================================
