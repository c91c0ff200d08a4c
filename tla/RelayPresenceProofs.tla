------------------------ MODULE RelayPresenceProofs -------------------------
(* Proofs about the presence broadcasts (RelayPresence) for any number of  *)
(* daemon connections and clients.                                         *)
EXTENDS RelayPresence, TLAPS

Steps == {"idle", "compute", "send", "append"}

(* A handler of a connection is in a broadcast only once the connection    *)
(* was made, and in that of its removal only once it is gone.              *)
Begun ==
  \A d \in Daemons :
    /\ task[<<d, "serve">>].step # "idle" => d \in used
    /\ task[<<d, "remove">>].step # "idle" => d \in used \ daemons

IInv == ChangesAreComputed /\ Begun /\ LogFollowsPeers

-----------------------------------------------------------------------------
LEMMA CurrentType == Current \in Presence /\ Nothing \in Presence
BY DEF Current, Nothing, Presence, Ready

LEMMA InitHolds == Init => TypeOK /\ IInv
<1> SUFFICES ASSUME Init PROVE TypeOK /\ IInv
  OBVIOUS
<1>1. Nothing \in Presence
  BY CurrentType
<1>2. TypeOK
  BY <1>1 DEF Init, TypeOK, Idle, At
<1>3. Current = Nothing
  BY DEF Init, Current, Nothing, Ready, Required
<1>4. \A h \in Handlers : task[h].step = "idle"
  BY DEF Init, Idle, At
<1>5. IInv
  BY <1>3, <1>4 DEF Init, IInv, ChangesAreComputed, LogFollowsPeers, Begun, Handlers
<1> QED
  BY <1>2, <1>5

(* What the start of a broadcast does to the handlers.                     *)
LEMMA StartsStep ==
  ASSUME TypeOK, NEW h \in Handlers, Starts(h)
  PROVE  /\ task' \in [Handlers -> [step : Steps, presence : Presence]]
         /\ task'[h].step = "compute"
         /\ \A g \in Handlers \ {h} : task'[g] = task[g]
<1>1. At("compute", Nothing) \in [step : Steps, presence : Presence]
  BY CurrentType DEF At, Steps
<1>2. At("compute", Nothing).step = "compute"
  BY DEF At
<1>3. task \in [Handlers -> [step : Steps, presence : Presence]]
  BY DEF TypeOK, Steps
<1> QED
  BY <1>1, <1>2, <1>3 DEF Starts

(* Starting a broadcast from an idle handler keeps what is said of the log. *)
LEMMA StartKeepsLog ==
  ASSUME TypeOK, LogFollowsPeers, NEW h \in Handlers, task[h].step = "idle",
         Starts(h), UNCHANGED <<shown, logged>>
  PROVE  LogFollowsPeers'
<1> SUFFICES ASSUME shown # logged PROVE \E g \in Handlers : task'[g].step = "append"
  BY DEF LogFollowsPeers
<1>1. PICK g \in Handlers : task[g].step = "append"
  BY DEF LogFollowsPeers
<1>2. g # h
  BY <1>1
<1> QED
  BY <1>1, <1>2, StartsStep

-----------------------------------------------------------------------------
LEMMA ConnectStep ==
  ASSUME TypeOK, IInv, NEW d \in Daemons, Connect(d) PROVE TypeOK' /\ IInv'
<1> DEFINE h == <<d, "serve">>
<1>1. h \in Handlers /\ task[h].step = "idle"
  BY DEF Handlers, IInv, Begun, Connect
<1>2. Starts(h)
  BY DEF Connect
<1>3. TypeOK'
  BY <1>1, <1>2, StartsStep DEF TypeOK, Connect, outVars, Steps
<1>4. ChangesAreComputed'
  BY <1>1, <1>2, StartsStep DEF ChangesAreComputed
<1>5. LogFollowsPeers'
  BY <1>1, <1>2, StartKeepsLog DEF IInv, Connect, outVars
<1>6. Begun'
  <2>1. SUFFICES ASSUME NEW e \in Daemons
                 PROVE  /\ task'[<<e, "serve">>].step # "idle" => e \in used'
                        /\ task'[<<e, "remove">>].step # "idle" => e \in used' \ daemons'
    BY DEF Begun
  <2>2. CASE e = d
    BY <2>2, <1>1, <1>2, StartsStep DEF IInv, Begun, Connect, Handlers
  <2>3. CASE e # d
    BY <2>3, <1>1, <1>2, StartsStep DEF IInv, Begun, Connect, Handlers
  <2> QED
    BY <2>2, <2>3
<1> QED
  BY <1>3, <1>4, <1>5, <1>6 DEF IInv

LEMMA DisconnectStep ==
  ASSUME TypeOK, IInv, NEW d \in Daemons, Disconnect(d) PROVE TypeOK' /\ IInv'
<1> DEFINE h == <<d, "remove">>
<1>1. h \in Handlers /\ task[h].step = "idle"
  BY DEF Handlers, IInv, Begun, Disconnect
<1>2. Starts(h)
  BY DEF Disconnect
<1>3. registered' \subseteq daemons' \X Required
  BY DEF Disconnect, TypeOK
<1>4. TypeOK'
  BY <1>1, <1>2, <1>3, StartsStep DEF TypeOK, Disconnect, outVars, Steps
<1>5. ChangesAreComputed'
  BY <1>1, <1>2, StartsStep DEF ChangesAreComputed
<1>6. LogFollowsPeers'
  BY <1>1, <1>2, StartKeepsLog DEF IInv, Disconnect, outVars
<1>7. Begun'
  <2>1. SUFFICES ASSUME NEW e \in Daemons
                 PROVE  /\ task'[<<e, "serve">>].step # "idle" => e \in used'
                        /\ task'[<<e, "remove">>].step # "idle" => e \in used' \ daemons'
    BY DEF Begun
  <2>2. d \in used
    BY DEF TypeOK, Disconnect
  <2>3. CASE e = d
    BY <2>2, <2>3, <1>1, <1>2, StartsStep DEF IInv, Begun, Disconnect, Handlers
  <2>4. CASE e # d
    BY <2>4, <1>1, <1>2, StartsStep DEF IInv, Begun, Disconnect, Handlers
  <2> QED
    BY <2>3, <2>4
<1> QED
  BY <1>4, <1>5, <1>6, <1>7 DEF IInv

(* A registration that changes the readiness starts a broadcast; one that  *)
(* does not leaves the presence as it was.                                 *)
LEMMA RegistrationStep ==
  ASSUME TypeOK, IInv, NEW d \in Daemons, NEW methods \in SUBSET (daemons \X Required),
         SetRegistered(d, methods)
  PROVE  TypeOK' /\ IInv'
<1> DEFINE h == <<d, "serve">>
<1>1. h \in Handlers /\ task[h].step = "idle" /\ d \in used
  BY DEF Handlers, SetRegistered, InBroadcast, TypeOK
<1>2. CASE Changes(daemons, methods)
  <2>1. Starts(h)
    BY <1>2 DEF SetRegistered
  <2>2. TypeOK'
    BY <1>1, <2>1, StartsStep DEF TypeOK, SetRegistered, outVars, Steps
  <2>3. ChangesAreComputed'
    BY <1>1, <2>1, StartsStep DEF ChangesAreComputed
  <2>4. LogFollowsPeers'
    BY <1>1, <2>1, StartKeepsLog DEF IInv, SetRegistered, outVars
  <2>5. Begun'
    <3> SUFFICES ASSUME NEW e \in Daemons
                 PROVE  /\ task'[<<e, "serve">>].step # "idle" => e \in used
                        /\ task'[<<e, "remove">>].step # "idle" => e \in used \ daemons
      BY DEF Begun, SetRegistered
    <3>1. <<e, "serve">> \in Handlers /\ <<e, "remove">> \in Handlers
      BY DEF Handlers
    <3>2. <<e, "remove">> # h /\ (e # d => <<e, "serve">> # h)
      OBVIOUS
    <3>3. /\ task'[<<e, "remove">>] = task[<<e, "remove">>]
          /\ e # d => task'[<<e, "serve">>] = task[<<e, "serve">>]
      BY <1>1, <2>1, <3>1, <3>2, StartsStep
    <3> QED
      BY <1>1, <3>3 DEF IInv, Begun
  <2> QED
    BY <2>2, <2>3, <2>4, <2>5 DEF IInv
<1>3. CASE ~Changes(daemons, methods)
  <2>1. UNCHANGED <<daemons, used, task, shown, logged, computed>> /\ registered' = methods
    BY <1>3 DEF SetRegistered, outVars
  <2>2. Current' = Current
    BY <1>3, <2>1 DEF Changes, Current
  <2> QED
    BY <2>1, <2>2 DEF TypeOK, IInv, ChangesAreComputed, LogFollowsPeers, Begun
<1> QED
  BY <1>2, <1>3

LEMMA ClientStep ==
  ASSUME TypeOK, IInv, NEW c \in Clients, ClientChange(c) PROVE TypeOK' /\ IInv'
<1> DEFINE h == <<c, "client">>
<1>1. h \in Handlers /\ task[h].step = "idle" /\ Starts(h)
  BY DEF Handlers, ClientChange, InBroadcast
<1>2. TypeOK'
  BY <1>1, StartsStep DEF TypeOK, ClientChange, outVars, Steps
<1>3. ChangesAreComputed'
  BY <1>1, StartsStep DEF ChangesAreComputed
<1>4. LogFollowsPeers'
  BY <1>1, StartKeepsLog DEF IInv, ClientChange, outVars
<1>5. Begun'
  <2> SUFFICES ASSUME NEW d \in Daemons
               PROVE  /\ task'[<<d, "serve">>].step # "idle" => d \in used
                      /\ task'[<<d, "remove">>].step # "idle" => d \in used \ daemons
    BY DEF Begun, ClientChange
  <2>1. <<d, "serve">> \in Handlers \ {h} /\ <<d, "remove">> \in Handlers \ {h}
    BY DEF Handlers
  <2>2. task'[<<d, "serve">>] = task[<<d, "serve">>] /\ task'[<<d, "remove">>] = task[<<d, "remove">>]
    BY <1>1, <2>1, StartsStep
  <2> QED
    BY <2>2 DEF IInv, Begun
<1> QED
  BY <1>2, <1>3, <1>4, <1>5 DEF IInv

LEMMA BroadcastStep ==
  ASSUME TypeOK, IInv, NEW h \in Handlers, Broadcast(h) PROVE TypeOK' /\ IInv'
<1>1. task[h].step # "idle" /\ task[h] \in [step : Steps, presence : Presence]
  BY DEF Broadcast, Compute, Send, AppendPresence, TypeOK, Steps
<1>2. UNCHANGED <<daemons, used, registered>> /\ Current' = Current
  BY DEF Broadcast, Compute, Send, AppendPresence, Current
<1>3. \A g \in Handlers \ {h} : task'[g] = task[g]
  BY DEF Broadcast, Compute, Send, AppendPresence, TypeOK
<1>4. task' \in [Handlers -> [step : Steps, presence : Presence]]
  <2>1. CASE Compute(h)
    BY <2>1, CurrentType DEF Compute, TypeOK, At, Steps
  <2>2. CASE Send(h)
    BY <2>2, <1>1 DEF Send, TypeOK, Steps
  <2>3. CASE AppendPresence(h)
    BY <2>3, CurrentType DEF AppendPresence, TypeOK, Idle, At, Steps
  <2> QED
    BY <2>1, <2>2, <2>3 DEF Broadcast
<1>5. {shown', logged', computed'} \subseteq Presence
  BY <1>1, CurrentType DEF Broadcast, Compute, Send, AppendPresence, TypeOK
<1>6. TypeOK'
  BY <1>2, <1>4, <1>5 DEF TypeOK, Steps
<1>7. Begun'
  BY <1>1, <1>2, <1>3 DEF IInv, Begun, Handlers
<1>8. ChangesAreComputed'
  <2>1. CASE Compute(h)
    BY <2>1, <1>2 DEF Compute, ChangesAreComputed
  <2>2. CASE Send(h) \/ AppendPresence(h)
    <3>1. task[h].step # "compute" /\ computed' = computed
      BY <2>2 DEF Send, AppendPresence
    <3> QED
      BY <3>1, <1>2, <1>3 DEF IInv, ChangesAreComputed
  <2> QED
    BY <2>1, <2>2 DEF Broadcast
<1>9. LogFollowsPeers'
  <2>1. CASE Compute(h)
    <3>1. task[h].step # "append" /\ UNCHANGED <<shown, logged>>
      BY <2>1 DEF Compute
    <3> QED
      BY <3>1, <1>3 DEF IInv, LogFollowsPeers
  <2>2. CASE Send(h)
    BY <2>2, <1>1 DEF Send, LogFollowsPeers, TypeOK
  <2>3. CASE AppendPresence(h)
    BY <2>3 DEF AppendPresence, LogFollowsPeers
  <2> QED
    BY <2>1, <2>2, <2>3 DEF Broadcast
<1> QED
  BY <1>6, <1>7, <1>8, <1>9 DEF IInv

-----------------------------------------------------------------------------
LEMMA Inductive == TypeOK /\ IInv /\ [Next]_vars => TypeOK' /\ IInv'
<1> SUFFICES ASSUME TypeOK, IInv, [Next]_vars PROVE TypeOK' /\ IInv'
  OBVIOUS
<1>1. ASSUME NEW d \in Daemons, Connect(d) \/ Disconnect(d) PROVE TypeOK' /\ IInv'
  BY <1>1, ConnectStep, DisconnectStep
<1>2. ASSUME NEW d \in Daemons, NEW m \in Required, Register(d, m) PROVE TypeOK' /\ IInv'
  <2>1. registered \cup {<<d, m>>} \in SUBSET (daemons \X Required)
    BY <1>2 DEF Register, SetRegistered, TypeOK
  <2> QED
    BY <1>2, <2>1, RegistrationStep DEF Register
<1>3. ASSUME NEW d \in Daemons, NEW m \in Required, Unregister(d, m) PROVE TypeOK' /\ IInv'
  <2>1. registered \ {<<d, m>>} \in SUBSET (daemons \X Required)
    BY DEF TypeOK
  <2> QED
    BY <1>3, <2>1, RegistrationStep DEF Unregister
<1>4. ASSUME NEW c \in Clients, ClientChange(c) PROVE TypeOK' /\ IInv'
  BY <1>4, ClientStep
<1>5. ASSUME NEW h \in Handlers, Broadcast(h) PROVE TypeOK' /\ IInv'
  BY <1>5, BroadcastStep
<1>6. CASE UNCHANGED vars
  BY <1>6 DEF vars, TypeOK, IInv, ChangesAreComputed, LogFollowsPeers, Begun, Current
<1> QED
  BY <1>1, <1>2, <1>3, <1>4, <1>5, <1>6 DEF Next, OwnDaemonNext

LEMMA InvariantHolds == Spec => [](TypeOK /\ IInv)
<1>1. Init => TypeOK /\ IInv
  BY InitHolds
<1>2. TypeOK /\ IInv /\ [Next]_vars => TypeOK' /\ IInv'
  BY Inductive
<1> QED
  BY <1>1, <1>2, PTL DEF Spec

(* The types of the presence model hold for any set of connections.        *)
THEOREM PresenceTypeCorrect == Spec => []TypeOK
BY InvariantHolds, PTL

(* No change of the presence is forgotten: until a broadcast has computed  *)
(* the current presence, one that will compute it is under way             *)
(* (broadcast_presence and every handler that ends in it).                 *)
THEOREM NoChangeForgotten == Spec => []ChangesAreComputed
<1>1. TypeOK /\ IInv => ChangesAreComputed
  BY DEF IInv
<1> QED
  BY <1>1, InvariantHolds, PTL

(* The peers were last sent what the log has last, or the broadcast that   *)
(* sent it is about to append it.                                          *)
THEOREM LogIsWhatWasSent == Spec => []LogFollowsPeers
<1>1. TypeOK /\ IInv => LogFollowsPeers
  BY DEF IInv
<1> QED
  BY <1>1, InvariantHolds, PTL
=============================================================================
