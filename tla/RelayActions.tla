---------------------------- MODULE RelayActions ----------------------------
(***************************************************************************)
(* Durable queued actions of one relay session (crates/falcondeck-relay/   *)
(* src/app.rs): a client submits an action, the relay stores it and hands  *)
(* it to the newest daemon connection, which reports Executing and then    *)
(* Completed or Failed.  What a connection had in flight when it went away *)
(* is queued again.                                                        *)
(*                                                                         *)
(* Every handler changes the actions under the store lock and does the     *)
(* rest after it was released: it writes what it changed and the update    *)
(* that tells of it, runs a dispatch pass, writes what that changed and    *)
(* queues the requests of the pass.  A task in due is a handler between    *)
(* two of these steps; handlers of different peers, requests and timers    *)
(* overlap freely, those of one connection do not (socket_loop awaits      *)
(* them, and unregister_peer waits for the operation lock).                *)
(*                                                                         *)
(* Abstractions: "ended" stands for Completed and Failed; the ActionStatus *)
(* updates are left to RelayReplay, only the write of each is a step here; *)
(* an action that a crash left nothing of may be submitted once more under *)
(* its id; a daemon reports only what it was asked to do (remote_bridge.rs,*)
(* handle_queued_remote_action), so the refusal of a report from a         *)
(* connection that does not own the action has no step.                    *)
(***************************************************************************)
EXTENDS Naturals, Sequences, FiniteSets, SequencesExt

CONSTANTS
  Daemons,      (* peer ids of daemon connections                          *)
  Actions,      (* action ids                                              *)
  MaxDispatch,  (* MAX_ACTIONS_PER_DISPATCH                                *)
  MaxFaults,    (* bound: crashes of the relay and failing writes          *)
  NoPeer        (* owner_peer_id of an action nobody has                   *)

ASSUME DispatchAssumption == MaxDispatch \in Nat \ {0}
ASSUME BoundsAssumption ==
  MaxFaults \in Nat /\ NoPeer \notin Daemons

VARIABLES
  conns,     (* daemon_peer_ids: live daemon connections, newest last      *)
  used,      (* peer ids given out                                         *)
  closing,   (* connections whose unregister_peer was started              *)
  action,    (* SessionRecord.actions                                      *)
  due,       (* handlers that released the store lock and are not done     *)
  requests,  (* ActionRequested messages queued for a connection           *)
  held,      (* what a connected daemon has, and whether it reported it    *)
  disk,      (* the status the store has of each action                    *)
  accepted,  (* history: actions whose submission was answered with success *)
  faults     (* crashes and failing writes so far                          *)

vars == <<conns, used, closing, action, due, requests, held, disk, accepted,
          faults>>

Statuses == {"absent", "queued", "dispatched", "executing", "ended"}
InFlight == {"dispatched", "executing"}

Live == ToSet(conns)
Newest == Last(conns)          \* newest_daemon_peer

(* daemon_peer_ids without d, which is in it once.                         *)
Without(d) ==
  LET at == CHOOSE i \in 1..Len(conns) : conns[i] = d
  IN [j \in 1..Len(conns) - 1 |-> IF j < at THEN conns[j] ELSE conns[j + 1]]

With(status, owner) == [status |-> status, owner |-> owner]

InStatus(status) == {a \in Actions : action[a].status = status}

(***************************************************************************)
(* A task: which handler, for which connection (by), its next step, and    *)
(* the actions (of the connection to) the step is about.                   *)
(***************************************************************************)
Kinds == {"submit", "ready", "executing", "ended", "requeue"}
Steps == {"write", "announce", "dispatch", "write requests", "request"}

Task(kind, by, step, as) == [kind |-> kind, by |-> by, step |-> step, as |-> as, to |-> NoPeer]

Tasks == [kind : Kinds, by : Daemons \cup {NoPeer}, step : Steps, as : SUBSET Actions,
          to : Daemons \cup {NoPeer}]

WrittenBy(kind) == IF kind \in {"executing", "ended"} THEN kind ELSE "queued"

(* The socket loop of a connection is inside a handler.                    *)
Reporting(d) == \E t \in due : t.by = d /\ t.kind \in {"executing", "ended"}
Busy(d) == Reporting(d) \/ \E t \in due : t.by = d /\ t.kind = "ready"

Stored(as, status) == [a \in Actions |-> IF a \in as THEN status ELSE disk[a]]

-----------------------------------------------------------------------------
(* register_peer for a daemon; after_peer_ready runs a dispatch pass.      *)
Connect(d) ==
  /\ d \notin used
  /\ used' = used \cup {d}
  /\ conns' = Append(conns, d)
  /\ due' = due \cup {Task("ready", d, "dispatch", {})}
  /\ UNCHANGED <<closing, action, requests, held, disk, accepted, faults>>

(* submit_action.  A retry of a known idempotency key only runs a dispatch *)
(* pass.                                                                   *)
Submit(a) ==
  /\ action[a].status = "absent"
  /\ action' = [action EXCEPT ![a] = With("queued", NoPeer)]
  /\ due' = due \cup {Task("submit", NoPeer, "write", {a})}
  /\ UNCHANGED <<conns, used, closing, requests, held, disk, accepted, faults>>

Resubmit(a) ==
  /\ action[a].status # "absent"
  /\ due' = due \cup {Task("submit", NoPeer, "dispatch", {})}
  /\ UNCHANGED <<conns, used, closing, action, requests, held, disk, accepted,
                 faults>>

(* update_action for the connection that owns the action.                  *)
Report(d, a, status) ==
  /\ d \in Live /\ ~Busy(d)
  /\ action[a].owner = d
  /\ <<d, a, IF status = "executing" THEN "asked" ELSE "begun">> \in held
  /\ held' = {h \in held : h[1] # d \/ h[2] # a} \cup
               (IF status = "executing" THEN {<<d, a, "begun">>} ELSE {})
  /\ action' = [action EXCEPT ![a] = With(status, IF status = "ended" THEN NoPeer ELSE d)]
  /\ due' = due \cup {Task(status, d, "write", {a})}
  /\ UNCHANGED <<conns, used, closing, requests, disk, accepted, faults>>

(* Socket loops end, and requests do not fit: unregister_peer is started.  *)
Close(d) ==
  /\ d \in Live \ closing
  /\ closing' = closing \cup {d}
  /\ UNCHANGED <<conns, used, action, due, requests, held, disk, accepted, faults>>

(* Mutant of Unregister: only what is executing is taken back.             *)
UnregisterExecuting(d) ==
  LET mine == {a \in Actions : action[a].owner = d /\ action[a].status = "executing"} IN
  /\ d \in closing /\ ~Reporting(d)
  /\ closing' = closing \ {d}
  /\ conns' = Without(d)
  /\ action' = [a \in Actions |-> IF a \in mine THEN With("queued", NoPeer) ELSE action[a]]
  /\ held' = {h \in held : h[1] # d}
  /\ due' = IF mine = {} THEN due ELSE due \cup {Task("requeue", d, "write", mine)}
  /\ UNCHANGED <<used, requests, disk, accepted, faults>>

Unregister(d) ==
  LET mine == {a \in Actions : action[a].owner = d /\ action[a].status \in InFlight} IN
  /\ d \in closing /\ ~Reporting(d)
  /\ closing' = closing \ {d}
  /\ conns' = Without(d)
  /\ action' = [a \in Actions |-> IF a \in mine THEN With("queued", NoPeer) ELSE action[a]]
  /\ held' = {h \in held : h[1] # d}
  /\ due' = IF mine = {} THEN due ELSE due \cup {Task("requeue", d, "write", mine)}
  /\ UNCHANGED <<used, requests, disk, accepted, faults>>

-----------------------------------------------------------------------------
(* The step behind one of the two writes of a handler.                     *)
Written(t) ==
  IF t.step = "write" THEN [t EXCEPT !.step = "announce"]
  ELSE [t EXCEPT !.step = "dispatch", !.as = {}]

(* persist_action_state of what a handler captured under the lock.         *)
Write(t) ==
  /\ t \in due /\ t.step = "write"
  /\ disk' = Stored(t.as, WrittenBy(t.kind))
  /\ due' = (due \ {t}) \cup {Written(t)}
  /\ UNCHANGED <<conns, used, closing, action, requests, held, accepted, faults>>

(* persist_appended_update; the handler is done but for its dispatch pass, *)
(* and a submission is as good as answered.                                *)
Announce(t) ==
  /\ t \in due /\ t.step = "announce"
  /\ accepted' = IF t.kind = "submit" THEN accepted \cup t.as ELSE accepted
  /\ due' = (due \ {t}) \cup {Written(t)}
  /\ UNCHANGED <<conns, used, closing, action, requests, held, disk, faults>>

(* Mutant of WriteFails: submit_action hides the error.                    *)
WriteFailsQuietly(t) ==
  /\ faults < MaxFaults /\ faults' = faults + 1
  /\ t \in due /\ t.step \in {"write", "announce"}
  /\ due' = (due \ {t}) \cup (IF t.kind = "requeue" THEN {Written(t)} ELSE {})
  /\ accepted' = IF t.kind = "submit" THEN accepted \cup t.as ELSE accepted
  /\ UNCHANGED <<conns, used, closing, action, requests, held, disk>>

(* A failed write, the first or the second, ends submit_action and         *)
(* update_action with an error and without a dispatch pass;                *)
(* unregister_peer ignores it.                                             *)
WriteFails(t) ==
  /\ faults < MaxFaults /\ faults' = faults + 1
  /\ t \in due /\ t.step \in {"write", "announce"}
  /\ due' = (due \ {t}) \cup (IF t.kind = "requeue" THEN {Written(t)} ELSE {})
  /\ UNCHANGED <<conns, used, closing, action, requests, held, disk, accepted>>

(* Mutant of Batches: what was dispatched but not begun is sent again.     *)
BatchesAgain == {{a} : a \in InStatus("queued") \cup InStatus("dispatched")}

(***************************************************************************)
(* dispatch_pending_actions: the newest daemon connection gets up to       *)
(* MaxDispatch of the queued actions (in the order of a hash map); the     *)
(* requests leave after the write.                                         *)
(***************************************************************************)
Batches ==
  {as \in SUBSET InStatus("queued") :
     \/ Cardinality(as) = MaxDispatch
     \/ as = InStatus("queued") /\ Cardinality(as) < MaxDispatch}

DispatchNothing(t) ==
  /\ t \in due /\ t.step = "dispatch"
  /\ conns = <<>> \/ InStatus("queued") = {}
  /\ due' = due \ {t}
  /\ UNCHANGED <<conns, used, closing, action, requests, held, disk, accepted,
                 faults>>

Dispatch(t) ==
  /\ t \in due /\ t.step = "dispatch"
  /\ conns # <<>>
  /\ \E as \in Batches \ {{}} :
       /\ action' = [a \in Actions |->
                       IF a \in as THEN With("dispatched", Newest) ELSE action[a]]
       /\ due' = (due \ {t}) \cup
                   {[t EXCEPT !.step = "write requests", !.as = as, !.to = Newest]}
  /\ UNCHANGED <<conns, used, closing, requests, held, disk, accepted, faults>>

WriteRequests(t) ==
  /\ t \in due /\ t.step = "write requests"
  /\ \/ disk' = Stored(t.as, "dispatched") /\ UNCHANGED faults
     \/ faults < MaxFaults /\ faults' = faults + 1 /\ UNCHANGED disk
  /\ due' = (due \ {t}) \cup {[t EXCEPT !.step = "request"]}
  /\ UNCHANGED <<conns, used, closing, action, requests, held, accepted>>

Request(t) ==
  /\ t \in due /\ t.step = "request"
  /\ requests' = requests \cup {<<t.to, a>> : a \in t.as}
  /\ due' = due \ {t}
  /\ UNCHANGED <<conns, used, closing, action, held, disk, accepted, faults>>

(* The socket loop hands the request on; or the queue is full or closed.   *)
Deliver(d, a) ==
  /\ <<d, a>> \in requests
  /\ d \in Live /\ ~Busy(d)
  /\ requests' = requests \ {<<d, a>>}
  /\ held' = held \cup {<<d, a, "asked">>}
  /\ UNCHANGED <<conns, used, closing, action, due, disk, accepted, faults>>

(* Mutant of Lose: a removal is started for a connection that is gone too. *)
LoseStartingAny(d, a) ==
  /\ <<d, a>> \in requests
  /\ requests' = requests \ {<<d, a>>}
  /\ closing' = closing \cup {d}
  /\ UNCHANGED <<conns, used, action, due, held, disk, accepted, faults>>

(* Mutant of Lose: the connection that missed a request stays.             *)
LoseOnly(d, a) ==
  /\ <<d, a>> \in requests
  /\ requests' = requests \ {<<d, a>>}
  /\ UNCHANGED <<conns, used, closing, action, due, held, disk, accepted, faults>>

Lose(d, a) ==
  /\ <<d, a>> \in requests
  /\ requests' = requests \ {<<d, a>>}
  /\ closing' = closing \cup ({d} \cap Live)
  /\ UNCHANGED <<conns, used, action, due, held, disk, accepted, faults>>

-----------------------------------------------------------------------------
(* Mutant of Normalized: what was executing is left as it was.             *)
NormalizedDispatched(status) == IF status = "dispatched" THEN "queued" ELSE status

(* normalize_in_flight_actions: a relay that starts queues what it finds   *)
(* in flight.  No connection is left, so that peer ids may be used again.  *)
Normalized(status) == IF status \in InFlight THEN "queued" ELSE status

Restart ==
  /\ faults < MaxFaults /\ faults' = faults + 1
  /\ action' = [a \in Actions |-> With(Normalized(disk[a]), NoPeer)]
  /\ disk' = [a \in Actions |-> Normalized(disk[a])]
  /\ conns' = <<>> /\ used' = {} /\ closing' = {} /\ due' = {} /\ requests' = {} /\ held' = {}
  /\ UNCHANGED accepted

Init ==
  /\ conns = <<>> /\ used = {} /\ closing = {}
  /\ action = [a \in Actions |-> With("absent", NoPeer)]
  /\ due = {} /\ requests = {} /\ held = {}
  /\ disk = [a \in Actions |-> "absent"]
  /\ accepted = {} /\ faults = 0

Finish(t) ==
  \/ Write(t) \/ WriteFails(t) \/ Announce(t)
  \/ DispatchNothing(t) \/ Dispatch(t) \/ WriteRequests(t) \/ Request(t)

Next ==
  \/ \E d \in Daemons : Connect(d) \/ Close(d) \/ Unregister(d)
  \/ \E a \in Actions : Submit(a) \/ Resubmit(a)
  \/ \E d \in Daemons, a \in Actions, s \in {"executing", "ended"} : Report(d, a, s)
  \/ \E t \in due : Finish(t)
  \/ \E d \in Daemons, a \in Actions : Deliver(d, a) \/ Lose(d, a)
  \/ Restart

Spec == Init /\ [][Next]_vars

-----------------------------------------------------------------------------
(* Connections, actions and handlers are well formed.                      *)
TypeOK ==
  /\ conns \in Seq(Daemons) /\ Live \subseteq used /\ used \subseteq Daemons
  /\ closing \subseteq Live
  /\ action \in [Actions -> [status : Statuses, owner : Daemons \cup {NoPeer}]]
  /\ due \subseteq Tasks
  /\ requests \subseteq Daemons \X Actions
  /\ held \subseteq Daemons \X Actions \X {"asked", "begun"}
  /\ disk \in [Actions -> Statuses]
  /\ accepted \subseteq Actions
  /\ faults \in 0..MaxFaults

(* An action is in flight exactly as long as a live connection owns it: no *)
(* removal, restart or late handler leaves one with a connection that can  *)
(* neither finish nor lose it.                                             *)
InFlightHasLiveOwner ==
  \A a \in Actions :
    IF action[a].status \in InFlight THEN action[a].owner \in Live
    ELSE action[a].owner = NoPeer

(* An action is never with two live connections, and never with one that   *)
(* does not own it: it is queued again only when its owner was removed.    *)
OneLiveRunner ==
  \A a \in Actions : \A d \in Live :
    (<<d, a>> \in requests \/ \E phase \in {"asked", "begun"} : <<d, a, phase>> \in held)
      => action[a].owner = d

(* What is in flight on a connection was requested from it, will be, or is *)
(* being taken back: no action waits for a daemon that never heard of it.  *)
OwnerIsAsked ==
  \A a \in Actions : action[a].status = "dispatched" =>
    LET d == action[a].owner IN
    \/ d \in closing
    \/ <<d, a>> \in requests \/ <<d, a, "asked">> \in held
    \/ \E t \in due : t.to = d /\ a \in t.as

(* A submission that was answered with success is not lost by a crash.     *)
AcceptedSurvives == \A a \in accepted : action[a].status # "absent"

(***************************************************************************)
(* Handlers run on, connected daemons report what they were asked to do,   *)
(* queued requests leave and a removal gets the operation lock.  Nothing   *)
(* makes a daemon connect or a client retry.  Each handler, connection and *)
(* removal is scheduled by itself; all that is needed of it is that they   *)
(* do not all stand still while clients retry.                             *)
(***************************************************************************)
Retried(t) == t.kind = "submit" /\ t.step = "dispatch"

Progress ==
  \/ \E t \in due : ~Retried(t) /\ Finish(t)
  \/ \E d \in Daemons : Unregister(d)
  \/ \E d \in Daemons, a \in Actions :
       Deliver(d, a) \/ \E s \in {"executing", "ended"} : Report(d, a, s)

FairSpec == Spec /\ WF_vars(Progress) /\ WF_vars(\E t \in due : Retried(t) /\ Finish(t))

(* As soon as a daemon stays connected every accepted action ends, also    *)
(* one that a crash or a removal took back.                                *)
ActionsEnd ==
  \A a \in Actions :
    <>[](conns # <<>>) => ((a \in accepted) ~> (action[a].status = "ended"))
=============================================================================
