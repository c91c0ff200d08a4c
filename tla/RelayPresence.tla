--------------------------- MODULE RelayPresence ----------------------------
(***************************************************************************)
(* Presence of the daemon of one relay session (crates/falcondeck-relay/   *)
(* src/app.rs, broadcast_presence).  Whatever may change it, the coming    *)
(* and going of peers and the registrations of the daemon, ends in a       *)
(* broadcast: the presence is computed under the store lock, sent to the   *)
(* peers, and appended to the update log, with the lock released between.  *)
(*                                                                         *)
(* The broadcasts of one connection follow each other, because its socket  *)
(* loop awaits its handlers; those of different connections overlap, and   *)
(* so does the removal of a connection with whatever it did before.        *)
(*                                                                         *)
(* Abstractions: last_seen_at and the dispatch of actions are left out.    *)
(***************************************************************************)
EXTENDS Naturals

CONSTANTS
  Daemons,     (* peer ids of daemon connections                           *)
  Clients      (* tasks of client connections: joining or leaving          *)

(* REQUIRED_SYNC_RPC_METHOD and REQUIRED_THREAD_DETAIL_RPC_METHOD          *)
Required == {"snapshot.current", "thread.detail"}

VARIABLES
  daemons,     (* live daemon connections                                  *)
  used,        (* peer ids given out                                       *)
  registered,  (* rpc_methods, of the required methods                     *)
  task,        (* the broadcast each handler is in                         *)
  shown,       (* the presence the peers were sent last                    *)
  logged,      (* the presence row of the update log                       *)
  computed     (* history: the presence computed last                      *)

vars == <<daemons, used, registered, task, shown, logged, computed>>
outVars == <<shown, logged, computed>>

Presence == [connected : BOOLEAN, ready : BOOLEAN]

(* daemon_rpc_ready and machine_presence                                   *)
Ready(live, methods) == \A m \in Required : \E d \in live : <<d, m>> \in methods

Current == [connected |-> daemons # {}, ready |-> Ready(daemons, registered)]

Nothing == [connected |-> FALSE, ready |-> FALSE]

(* A handler task is idle or at a step of broadcast_presence, with the     *)
(* presence it holds.                                                      *)
Handlers == (Daemons \X {"serve", "remove"}) \cup (Clients \X {"client"})

At(step, p) == [step |-> step, presence |-> p]
Idle == At("idle", Nothing)

InBroadcast(h) == task[h].step # "idle"

Starts(h) == task' = [task EXCEPT ![h] = At("compute", Nothing)]

(* Mutant of Changes: a registration is no change of readiness.            *)
ChangesNever(live, methods) == FALSE

(* readiness_changed                                                       *)
Changes(live, methods) == Ready(live, methods) # Current.ready

-----------------------------------------------------------------------------
(* register_peer, and after_peer_ready, which broadcasts                   *)
Connect(d) ==
  /\ d \notin used
  /\ used' = used \cup {d} /\ daemons' = daemons \cup {d}
  /\ Starts(<<d, "serve">>)
  /\ UNCHANGED <<registered, outVars>>

(* Mutant of Disconnect: rpc_methods keeps the peer.                       *)
DisconnectKeepingMethods(d) ==
  /\ d \in daemons
  /\ daemons' = daemons \ {d}
  /\ Starts(<<d, "remove">>)
  /\ UNCHANGED <<used, registered, outVars>>

(* unregister_peer; the broadcast after register_peer holds no operation   *)
(* lock and may still be under way.                                        *)
Disconnect(d) ==
  /\ d \in daemons
  /\ daemons' = daemons \ {d}
  /\ registered' = {r \in registered : r[1] # d}
  /\ Starts(<<d, "remove">>)
  /\ UNCHANGED <<used, outVars>>

(* register_rpc_method and unregister_rpc_method                           *)
SetRegistered(d, methods) ==
  /\ d \in daemons /\ ~InBroadcast(<<d, "serve">>)
  /\ registered' = methods
  /\ IF Changes(daemons, methods) THEN Starts(<<d, "serve">>) ELSE UNCHANGED task
  /\ UNCHANGED <<daemons, used, outVars>>

Register(d, m) == SetRegistered(d, registered \cup {<<d, m>>})

Unregister(d, m) == SetRegistered(d, registered \ {<<d, m>>})

(* A client connects or disconnects.                                       *)
ClientChange(c) ==
  /\ ~InBroadcast(<<c, "client">>)
  /\ Starts(<<c, "client">>)
  /\ UNCHANGED <<daemons, used, registered, outVars>>

-----------------------------------------------------------------------------
(* broadcast_presence, in three steps                                      *)

Compute(h) ==
  /\ task[h].step = "compute"
  /\ task' = [task EXCEPT ![h] = At("send", Current)]
  /\ computed' = Current
  /\ UNCHANGED <<daemons, used, registered, shown, logged>>

(* Mutant of Send: the presence is not logged.                             *)
SendUnlogged(h) ==
  /\ task[h].step = "send"
  /\ task' = [task EXCEPT ![h] = Idle]
  /\ shown' = task[h].presence
  /\ UNCHANGED <<daemons, used, registered, logged, computed>>

Send(h) ==
  /\ task[h].step = "send"
  /\ task' = [task EXCEPT ![h].step = "append"]
  /\ shown' = task[h].presence
  /\ UNCHANGED <<daemons, used, registered, logged, computed>>

AppendPresence(h) ==
  /\ task[h].step = "append"
  /\ task' = [task EXCEPT ![h] = Idle]
  /\ shown' = task[h].presence /\ logged' = task[h].presence
  /\ UNCHANGED <<daemons, used, registered, computed>>

Init ==
  /\ daemons = {} /\ used = {} /\ registered = {}
  /\ task = [h \in Handlers |-> Idle]
  /\ shown = Nothing /\ logged = Nothing /\ computed = Nothing

Broadcast(h) == Compute(h) \/ Send(h) \/ AppendPresence(h)

(* The steps of the relay with the daemon of this repository, which never  *)
(* takes a registration back (remote_bridge.rs sends RpcRegister only).    *)
OwnDaemonNext ==
  \/ \E d \in Daemons : Connect(d) \/ Disconnect(d)
  \/ \E d \in Daemons, m \in Required : Register(d, m)
  \/ \E c \in Clients : ClientChange(c)
  \/ \E h \in Handlers : Broadcast(h)

Next == OwnDaemonNext \/ \E d \in Daemons, m \in Required : Unregister(d, m)

Spec == Init /\ [][Next]_vars

(* Broadcasts run on, and a connected daemon registers its methods again   *)
(* with every heartbeat (remote_bridge.rs).                                *)
FairSpec ==
  /\ Init /\ [][OwnDaemonNext]_vars
  /\ \A h \in Handlers : WF_vars(Broadcast(h))
  /\ \A d \in Daemons, m \in Required : WF_vars(Register(d, m))

-----------------------------------------------------------------------------
(* Peers, registrations and broadcasts are what they should be.            *)
TypeOK ==
  /\ daemons \subseteq used /\ used \subseteq Daemons
  /\ registered \subseteq daemons \X Required
  /\ task \in [Handlers -> [step : {"idle", "compute", "send", "append"}, presence : Presence]]
  /\ {shown, logged, computed} \subseteq Presence

(* No change is forgotten: as long as the presence computed last is not    *)
(* the current one, a broadcast that will compute it is under way.         *)
ChangesAreComputed == computed # Current => \E h \in Handlers : task[h].step = "compute"

(* The peers were sent what the log says, or a broadcast is about to tell  *)
(* the log: who reads the log and who listens end up with the same.        *)
LogFollowsPeers == shown # logged => \E h \in Handlers : task[h].step = "append"

(* docs/remote-sync-qa.md:50-51: heartbeat re-registration restores        *)
(* daemon_rpc_ready, as the clients see it, without a reconnect.           *)
ReadinessShows ==
  \A d \in Daemons : (d \in daemons) ~> (d \notin daemons \/ (logged.ready /\ shown.ready))
=============================================================================
