--------------------------- MODULE RelayRpcProofs ---------------------------
(* Proofs about the request routing of a relay session (RelayRpc) for any  *)
(* number of connections, methods and calls.                               *)
EXTENDS RelayRpc, FiniteSetTheorems, WellFoundedInduction, TLAPS

(* What is on its way, being worked on or registered stems from a peer id  *)
(* and a call that were used, and no call is owed to an unused id.         *)
Traces ==
  /\ IsFiniteSet(DOMAIN pending) /\ DOMAIN pending \subseteq made
  /\ \A msg \in wire : msg.to \in used /\ msg.call \in made
  /\ \A w \in working : w[1] \in used /\ w[2] \in made
  /\ \A m \in Methods : \A i \in 1..Len(owners[m]) : owners[m][i] \in used
  /\ \A call \in Calls : Requester(call) \notin used => owed[call] = 0

IInv == /\ Traces
        /\ PendingHasLivePeers /\ ParkedHasNoServer /\ AssignedIsTold
        /\ AnsweredOnce /\ OneLiveServer

-----------------------------------------------------------------------------
(* The newest owner: a set of positions in a list has a largest element.   *)
LEMMA LargestExists ==
  ASSUME NEW n \in Nat, NEW I \in SUBSET (1..n), I # {}
  PROVE  \E i \in I : \A j \in I : j <= i
<1>0. I \subseteq Int
  OBVIOUS
<1>1. IsFiniteSet(I)
  <2>1. IsFiniteSet(1..n)
    BY FS_Interval
  <2> QED BY <2>1, FS_Subset
<1> DEFINE Above(i) == {j \in I : i < j}
           Tails == {Above(i) : i \in I}
<1>2. Tails \subseteq FiniteSubsetsOf(I) /\ Tails # {}
  <2>1. ASSUME NEW i \in I PROVE Above(i) \in FiniteSubsetsOf(I)
    BY <1>1, FS_Subset DEF FiniteSubsetsOf
  <2> QED BY <2>1
<1>3. PICK T \in Tails : \A U \in Tails : <<U, T>> \notin StrictSubsetOrdering(I)
  <2> HIDE DEF Tails
  <2>1. IsWellFoundedOn(StrictSubsetOrdering(I), FiniteSubsetsOf(I))
    BY FS_StrictSubsetOrderingWellFounded
  <2> QED BY <1>2, <2>1, WFMin
<1>4. PICK i \in I : T = Above(i)
  BY <1>3
<1>5. ASSUME NEW j \in I, i < j PROVE FALSE
  <2>0. \A k \in I : j < k => i < k
    BY <1>0, <1>5
  <2>1. Above(j) \subseteq Above(i)
    BY <2>0
  <2>2. j \in Above(i) /\ j \notin Above(j)
    BY <1>0, <1>5
  <2>3. <<Above(j), Above(i)>> \in StrictSubsetOrdering(I)
    BY <2>1, <2>2 DEF StrictSubsetOrdering
  <2>4. Above(j) \in Tails
    OBVIOUS
  <2> QED BY <2>3, <2>4, <1>3, <1>4
<1> QED BY <1>0, <1>4, <1>5

(* rpc_owner returns a connection that is live and registered the method,  *)
(* or none when there is none.                                             *)
LEMMA OwnerFacts ==
  ASSUME NEW own \in [Methods -> Seq(Daemons)], NEW m \in Methods, NEW live
  PROVE  /\ HasOwner(m, own, live) => /\ Owner(m, own, live) \in Daemons \cap live
                                      /\ \E i \in 1..Len(own[m]) : own[m][i] = Owner(m, own, live)
         /\ OwnerOrNone(m, own, live) \in (Daemons \cap live) \cup {NoPeer}
         /\ OwnerOrNone(m, own, live) = NoPeer <=> ~HasOwner(m, own, live)
<1>1. own[m] \in Seq(Daemons) /\ Len(own[m]) \in Nat
  OBVIOUS
<1>2. ASSUME HasOwner(m, own, live)
      PROVE  /\ Owner(m, own, live) \in Daemons \cap live
             /\ \E i \in 1..Len(own[m]) : own[m][i] = Owner(m, own, live)
  <2> DEFINE I == LiveOwners(m, own, live)
             Top(i) == \A j \in I : j <= i
  <2>1. I \in SUBSET (1..Len(own[m])) /\ I # {}
    BY <1>2 DEF HasOwner, LiveOwners
  <2>2. \E i \in I : Top(i)
    <3> HIDE DEF I
    <3> QED BY <1>1, <2>1, LargestExists
  <2>3. (CHOOSE i \in I : Top(i)) \in I
    <3> HIDE DEF I, Top
    <3> QED BY <2>2
  <2>4. Owner(m, own, live) = own[m][CHOOSE i \in I : Top(i)]
    BY DEF Owner
  <2>5. \A i \in I : own[m][i] \in Daemons \cap live /\ i \in 1..Len(own[m])
    BY <1>1 DEF LiveOwners
  <2> HIDE DEF I, Top
  <2> QED BY <2>3, <2>4, <2>5
<1> QED
  BY <1>2, PeersAssumption DEF OwnerOrNone

LEMMA EnlistedFacts ==
  ASSUME NEW own \in Seq(Daemons), NEW d \in Daemons
  PROVE  /\ Enlisted(own, d) \in Seq(Daemons)
         /\ \A i \in 1..Len(Enlisted(own, d)) :
              \/ Enlisted(own, d)[i] = d
              \/ \E j \in 1..Len(own) : own[j] = Enlisted(own, d)[i]
         /\ \A j \in 1..Len(own) :
              \E i \in 1..Len(Enlisted(own, d)) : Enlisted(own, d)[i] = own[j]
         /\ \E i \in 1..Len(Enlisted(own, d)) : Enlisted(own, d)[i] = d
<1>1. CASE \E i \in 1..Len(own) : own[i] = d
  BY <1>1 DEF Enlisted
<1>2. CASE ~\E i \in 1..Len(own) : own[i] = d
  <2>1. Enlisted(own, d) = Append(own, d)
    BY <1>2 DEF Enlisted
  <2>2. /\ Append(own, d) \in Seq(Daemons) /\ Len(Append(own, d)) = Len(own) + 1
        /\ Append(own, d)[Len(own) + 1] = d
        /\ \A i \in 1..Len(own) : Append(own, d)[i] = own[i]
    OBVIOUS
  <2>3. Len(own) \in Nat
    OBVIOUS
  <2> QED
    BY <2>1, <2>2, <2>3
<1> QED
  BY <1>1, <1>2

LEMMA DelistedFacts ==
  ASSUME NEW own \in Seq(Daemons), NEW d
  PROVE  /\ Delisted(own, d) \in Seq(Daemons)
         /\ \A i \in 1..Len(Delisted(own, d)) :
              \E j \in 1..Len(own) : own[j] = Delisted(own, d)[i]
<1>1. CASE ~\E i \in 1..Len(own) : own[i] = d
  BY <1>1 DEF Delisted
<1>2. CASE \E i \in 1..Len(own) : own[i] = d
  <2> DEFINE at == CHOOSE i \in 1..Len(own) : own[i] = d
             short == [j \in 1..Len(own) - 1 |-> IF j < at THEN own[j] ELSE own[j + 1]]
  <2>1. Delisted(own, d) = short
    BY <1>2 DEF Delisted
  <2>2. at \in 1..Len(own) /\ Len(own) \in Nat
    BY <1>2
  <2> HIDE DEF at
  <2>3. \A j \in 1..Len(own) - 1 : \E i \in 1..Len(own) : short[j] = own[i]
    BY <2>2
  <2>4. short \in Seq(Daemons) /\ Len(short) = Len(own) - 1
    <3>1. Len(own) - 1 \in Nat
      BY <2>2
    <3>2. \A i \in 1..Len(own) : own[i] \in Daemons
      OBVIOUS
    <3>3. short \in [1..Len(own) - 1 -> Daemons]
      BY <2>3, <3>2
    <3> QED BY <3>1, <3>3
  <2> HIDE DEF short
  <2> QED BY <2>1, <2>3, <2>4
<1> QED
  BY <1>1, <1>2

-----------------------------------------------------------------------------
LEMMA InitHolds == Init => TypeOK /\ IInv
<1> SUFFICES ASSUME Init PROVE TypeOK /\ IInv
  OBVIOUS
<1>1. DOMAIN pending = {} /\ IsFiniteSet({}) /\ Cardinality({}) = 0
  BY FS_EmptySet DEF Init
<1>2. TypeOK
  <2>1. Cardinality(DOMAIN pending) <= MaxPending
    BY <1>1, BudgetAssumption
  <2>2. owners \in [Methods -> Seq(Daemons)] /\ owed \in [Calls -> Int]
    BY DEF Init
  <2> QED
    BY <1>1, <2>1, <2>2 DEF Init, TypeOK
<1>3. \A m \in Methods : Len(owners[m]) = 0
  BY DEF Init
<1>4. Traces
  BY <1>1, <1>3 DEF Init, Traces
<1>5. PendingHasLivePeers /\ ParkedHasNoServer /\ AssignedIsTold /\ OneLiveServer
  BY <1>1 DEF PendingHasLivePeers, ParkedHasNoServer, AssignedIsTold, OneLiveServer
<1>6. AnsweredOnce
  BY <1>1 DEF Init, AnsweredOnce
<1> QED
  BY <1>2, <1>4, <1>5, <1>6 DEF IInv

(* Calls leave the table, and those of connected clients are given their   *)
(* result: what refusals, results and sweeps have in common.               *)
LEMMA CallsLeave ==
  ASSUME TypeOK, IInv, NEW S \in SUBSET DOMAIN pending,
         pending' = Restricted(S),
         Settle({call \in DOMAIN pending \ S : Requester(call) \in peers}),
         UNCHANGED <<peerVars, closing, owners, grace, wire>>,
         working' \subseteq working,
         \A call \in S : \A d \in Daemons :
           <<d, call>> \in working /\ pending[call].responder = d => <<d, call>> \in working',
         made \subseteq made', made' \subseteq Calls
  PROVE  TypeOK' /\ IInv'
<1> DEFINE done == {call \in DOMAIN pending \ S : Requester(call) \in peers}
<1>1. /\ DOMAIN pending' = S /\ \A call \in S : pending'[call] = pending[call]
      /\ S \subseteq Calls /\ S \subseteq made /\ done \subseteq made
      /\ UNCHANGED <<peers, used, open>>
  BY DEF Restricted, TypeOK, IInv, Traces, peerVars
<1>2. IsFiniteSet(S) /\ Cardinality(S) <= MaxPending
  <2>1. IsFiniteSet(DOMAIN pending) /\ Cardinality(DOMAIN pending) <= MaxPending
    BY DEF IInv, Traces, TypeOK
  <2>2. IsFiniteSet(S) /\ Cardinality(S) <= Cardinality(DOMAIN pending)
    BY <2>1, FS_Subset
  <2>3. Cardinality(S) \in Nat /\ Cardinality(DOMAIN pending) \in Nat /\ MaxPending \in Nat
    BY <2>1, <2>2, FS_CardinalityType, BudgetAssumption
  <2> QED
    BY <2>1, <2>2, <2>3
<1>3. /\ owed' \in [Calls -> Int]
      /\ \A call \in Calls : owed'[call] = owed[call] - (IF call \in done THEN 1 ELSE 0)
      /\ answered' = answered \cup done
  BY DEF Settle, TypeOK
<1>4. TypeOK'
  BY <1>1, <1>2, <1>3 DEF TypeOK
<1>5. Traces'
  BY <1>1, <1>2, <1>3 DEF IInv, Traces, TypeOK
<1>6. PendingHasLivePeers' /\ ParkedHasNoServer'
  BY <1>1 DEF IInv, PendingHasLivePeers, ParkedHasNoServer, HasOwner, LiveOwners
<1>7. AssignedIsTold'
  <2> SUFFICES ASSUME NEW call \in S, pending[call].responder # NoPeer
               PROVE  \/ Request(pending[call].responder, call) \in wire
                      \/ <<pending[call].responder, call>> \in working'
                      \/ pending[call].responder \in closing
    BY <1>1 DEF AssignedIsTold
  <2>1. pending[call].responder \in Daemons
    BY DEF TypeOK, Entry
  <2> QED
    BY <2>1 DEF IInv, AssignedIsTold
<1>8. AnsweredOnce'
  <2> SUFFICES ASSUME NEW call \in Calls, Requester(call) \in peers
               PROVE  owed'[call] = IF call \in S THEN 1 ELSE 0
    BY <1>1 DEF AnsweredOnce
  <2>1. owed[call] = IF call \in DOMAIN pending THEN 1 ELSE 0
    BY DEF IInv, AnsweredOnce
  <2> QED
    BY <2>1, <1>3
<1>9. OneLiveServer'
  BY <1>1, <1>3 DEF IInv, OneLiveServer
<1> QED
  BY <1>4, <1>5, <1>6, <1>7, <1>8, <1>9 DEF IInv

(* Every pending call is of a connected client, so a sweep settles all of  *)
(* them that are late.                                                     *)
LEMMA LateAreSettled ==
  ASSUME TypeOK, IInv
  PROVE  /\ InTime \in SUBSET DOMAIN pending
         /\ TimedOut = {call \in DOMAIN pending \ InTime : Requester(call) \in peers}
         /\ TimedOut = Late
BY DEF InTime, Late, TimedOut, IInv, PendingHasLivePeers

LEMMA SweepStep ==
  ASSUME TypeOK, IInv, Sweep PROVE TypeOK' /\ IInv'
BY LateAreSettled, CallsLeave DEF Sweep, TypeOK

LEMMA ResultStep ==
  ASSUME TypeOK, IInv, NEW d \in Daemons, NEW call \in Calls, RpcResult(d, call)
  PROVE  TypeOK' /\ IInv'
<1>1. CASE Counts(d, call)
  <2> DEFINE S == InTime \ {call}
  <2>1. S \in SUBSET DOMAIN pending
    BY DEF InTime
  <2>2. TimedOut \cup {answer \in {call} : Requester(answer) \in peers}
          = {other \in DOMAIN pending \ S : Requester(other) \in peers}
    BY <1>1, LateAreSettled DEF Counts
  <2>3. /\ pending' = Restricted(S)
        /\ Settle({other \in DOMAIN pending \ S : Requester(other) \in peers})
    BY <1>1, <2>2 DEF RpcResult
  <2>4. \A other \in S : \A e \in Daemons :
          <<e, other>> \in working => <<e, other>> \in working'
    BY DEF RpcResult
  <2> HIDE DEF S
  <2> QED
    BY <2>1, <2>3, <2>4, CallsLeave DEF RpcResult, TypeOK
<1>2. CASE ~Counts(d, call)
  <2>1. /\ pending' = Restricted(InTime)
        /\ Settle({other \in DOMAIN pending \ InTime : Requester(other) \in peers})
    BY <1>2, LateAreSettled DEF RpcResult
  <2>2. \A other \in InTime : \A e \in Daemons :
          <<e, other>> \in working /\ pending[other].responder = e => <<e, other>> \in working'
    BY <1>2 DEF RpcResult, Counts
  <2> QED
    BY <2>1, <2>2, LateAreSettled, CallsLeave DEF RpcResult, TypeOK
<1> QED
  BY <1>1, <1>2

-----------------------------------------------------------------------------
LEMMA ConnectStep ==
  ASSUME TypeOK, IInv, NEW p \in Peers, Connect(p) PROVE TypeOK' /\ IInv'
<1>1. /\ p \notin used /\ used' = used \cup {p} /\ peers' = peers \cup {p}
      /\ open' = open \cup {p}
      /\ UNCHANGED <<closing, owners, grace, pending, wire, working, made, owed, answered>>
  BY DEF Connect, tableVars, history
<1>2. TypeOK'
  BY <1>1 DEF TypeOK
<1>3. Traces'
  BY <1>1 DEF IInv, Traces
<1>4. PendingHasLivePeers' /\ AssignedIsTold'
  BY <1>1 DEF IInv, PendingHasLivePeers, AssignedIsTold
<1>5. ParkedHasNoServer'
  <2> SUFFICES ASSUME NEW call \in DOMAIN pending, pending[call].responder = NoPeer,
                      NEW i \in 1..Len(owners[pending[call].method]),
                      owners[pending[call].method][i] \in peers \cup {p}
               PROVE  FALSE
    BY <1>1 DEF ParkedHasNoServer, HasOwner, LiveOwners
  <2>1. pending[call].method \in Methods
    BY DEF TypeOK, Entry
  <2>2. owners[pending[call].method][i] # p
    BY <1>1, <2>1 DEF IInv, Traces
  <2> QED
    BY <2>2 DEF IInv, ParkedHasNoServer, HasOwner, LiveOwners
<1>6. AnsweredOnce'
  <2> SUFFICES ASSUME NEW call \in Calls, Requester(call) \in peers \cup {p}
               PROVE  owed[call] = IF call \in DOMAIN pending THEN 1 ELSE 0
    BY <1>1 DEF AnsweredOnce
  <2>1. CASE Requester(call) \in peers
    BY <2>1 DEF IInv, AnsweredOnce
  <2>2. CASE Requester(call) = p
    <3>1. owed[call] = 0
      BY <2>2, <1>1 DEF IInv, Traces
    <3>2. call \notin DOMAIN pending
      BY <2>2, <1>1 DEF IInv, PendingHasLivePeers, TypeOK
    <3> QED
      BY <3>1, <3>2
  <2> QED
    BY <2>1, <2>2
<1>7. OneLiveServer'
  <2> SUFFICES ASSUME NEW call \in DOMAIN pending \ answered, NEW d \in peers \cup {p},
                      Request(d, call) \in wire \/ <<d, call>> \in working
               PROVE  pending[call].responder = d
    BY <1>1 DEF OneLiveServer
  <2>1. d # p
    BY <1>1 DEF IInv, Traces, Request
  <2> QED
    BY <2>1 DEF IInv, OneLiveServer
<1> QED
  BY <1>2, <1>3, <1>4, <1>5, <1>6, <1>7 DEF IInv

LEMMA CloseStep ==
  ASSUME TypeOK, IInv, NEW p \in Peers, Close(p) PROVE TypeOK' /\ IInv'
<1>1. /\ open' = open \ {p} /\ closing' = closing \cup ({p} \cap peers)
      /\ UNCHANGED <<peers, used, owners, grace, pending, wire, working, made, owed, answered>>
  BY DEF Close, tableVars, history
<1>2. TypeOK'
  BY <1>1 DEF TypeOK
<1> QED
  BY <1>1, <1>2 DEF IInv, Traces, PendingHasLivePeers, ParkedHasNoServer, HasOwner,
     LiveOwners, AssignedIsTold, AnsweredOnce, OneLiveServer

LEMMA ReceiveStep ==
  ASSUME TypeOK, IInv, NEW msg \in wire, Receive(msg) PROVE TypeOK' /\ IInv'
<1>1. /\ wire' = wire \ {msg} /\ working' = working \cup {<<msg.to, msg.call>>}
      /\ UNCHANGED <<peers, used, open, closing, owners, grace, pending, made, owed, answered>>
  BY DEF Receive, peerVars, tableVars, history
<1>2. /\ msg \in Requests /\ msg.to \in Daemons /\ msg.call \in Calls
      /\ msg = Request(msg.to, msg.call)
  BY DEF TypeOK, Requests, Request
<1>3. TypeOK'
  BY <1>1, <1>2 DEF TypeOK
<1>4. Traces'
  BY <1>1, <1>2 DEF IInv, Traces
<1>5. PendingHasLivePeers' /\ ParkedHasNoServer' /\ AnsweredOnce'
  BY <1>1 DEF IInv, PendingHasLivePeers, ParkedHasNoServer, HasOwner, LiveOwners, AnsweredOnce
<1>6. AssignedIsTold'
  BY <1>1, <1>2 DEF IInv, AssignedIsTold, Request
<1>7. OneLiveServer'
  BY <1>1, <1>2 DEF IInv, OneLiveServer, Request
<1> QED
  BY <1>3, <1>4, <1>5, <1>6, <1>7 DEF IInv

LEMMA LoseStep ==
  ASSUME TypeOK, IInv, NEW msg \in wire, Lose(msg) PROVE TypeOK' /\ IInv'
<1>1. /\ wire' = wire \ {msg} /\ closing' = closing \cup ({msg.to} \cap peers)
      /\ UNCHANGED <<peers, used, open, owners, grace, pending, working, made, owed, answered>>
  BY DEF Lose, peerVars, tableVars, history
<1>2. msg \in Requests
  BY DEF TypeOK
<1>3. TypeOK'
  BY <1>1 DEF TypeOK
<1>4. Traces'
  BY <1>1 DEF IInv, Traces
<1>5. PendingHasLivePeers' /\ ParkedHasNoServer' /\ AnsweredOnce' /\ OneLiveServer'
  BY <1>1 DEF IInv, PendingHasLivePeers, ParkedHasNoServer, HasOwner, LiveOwners,
     AnsweredOnce, OneLiveServer
<1>6. AssignedIsTold'
  <2> SUFFICES ASSUME NEW call \in DOMAIN pending, NEW d, d = pending[call].responder,
                      d # NoPeer
               PROVE  \/ Request(d, call) \in wire' \/ <<d, call>> \in working \/ d \in closing'
    BY <1>1 DEF AssignedIsTold
  <2>1. d \in peers
    BY DEF IInv, PendingHasLivePeers
  <2>2. Request(d, call) = msg => d = msg.to
    BY DEF Request
  <2> QED
    BY <2>1, <2>2, <1>1 DEF IInv, AssignedIsTold
<1> QED
  BY <1>3, <1>4, <1>5, <1>6 DEF IInv

LEMMA TimeStep ==
  ASSUME TypeOK, IInv, (\E call \in Calls : TimePasses(call)) \/ GraceEnds
  PROVE  TypeOK' /\ IInv'
<1>1. CASE GraceEnds
  <2>1. UNCHANGED <<peers, used, open, closing, owners, pending, wire, working, made, owed, answered>>
        /\ grace' \in BOOLEAN
    BY <1>1 DEF GraceEnds, peerVars, history
  <2> QED
    BY <2>1 DEF TypeOK, IInv, Traces, PendingHasLivePeers, ParkedHasNoServer, HasOwner,
       LiveOwners, AssignedIsTold, AnsweredOnce, OneLiveServer
<1>2. ASSUME NEW call \in Calls, TimePasses(call) PROVE TypeOK' /\ IInv'
  <2>1. /\ DOMAIN pending' = DOMAIN pending
        /\ UNCHANGED <<peers, used, open, closing, owners, grace, wire, working, made, owed, answered>>
    BY <1>2 DEF TimePasses, peerVars, history
  <2>2. \A other \in DOMAIN pending :
          /\ pending'[other] \in Entry
          /\ pending'[other].method = pending[other].method
          /\ pending'[other].responder = pending[other].responder
    BY <1>2 DEF TimePasses, TypeOK, Entry
  <2>3. TypeOK'
    BY <2>1, <2>2 DEF TypeOK
  <2> QED
    BY <2>1, <2>2, <2>3 DEF IInv, Traces, PendingHasLivePeers, ParkedHasNoServer, HasOwner,
       LiveOwners, AssignedIsTold, AnsweredOnce, OneLiveServer
<1> QED
  BY <1>1, <1>2

-----------------------------------------------------------------------------
(* What ParkedHasNoServer says of the list of owners.                      *)
LEMMA NobodyServesParked ==
  ASSUME TypeOK, IInv, NEW call \in DOMAIN pending, pending[call].responder = NoPeer
  PROVE  /\ pending[call].method \in Methods
         /\ \A j \in 1..Len(owners[pending[call].method]) :
              owners[pending[call].method][j] \notin peers
BY DEF TypeOK, Entry, IInv, ParkedHasNoServer, HasOwner, LiveOwners

LEMMA UnregisterMethodStep ==
  ASSUME TypeOK, IInv, NEW d \in Daemons, NEW m \in Methods, RpcUnregister(d, m)
  PROVE  TypeOK' /\ IInv'
<1>1. /\ owners' = [owners EXCEPT ![m] = Delisted(owners[m], d)]
      /\ UNCHANGED <<peers, used, open, closing, grace, pending, wire, working, made, owed, answered>>
  BY DEF RpcUnregister, peerVars, history
<1>2. owners \in [Methods -> Seq(Daemons)]
  BY DEF TypeOK
<1>3. /\ owners' \in [Methods -> Seq(Daemons)]
      /\ \A n \in Methods : \A i \in 1..Len(owners'[n]) :
           \E j \in 1..Len(owners[n]) : owners[n][j] = owners'[n][i]
  BY <1>1, <1>2, DelistedFacts
<1>4. TypeOK'
  BY <1>1, <1>3 DEF TypeOK
<1>5. Traces'
  BY <1>1, <1>3 DEF IInv, Traces
<1>6. ParkedHasNoServer'
  <2> SUFFICES ASSUME NEW call \in DOMAIN pending, pending[call].responder = NoPeer,
                      NEW i \in 1..Len(owners'[pending[call].method]),
                      owners'[pending[call].method][i] \in peers
               PROVE  FALSE
    BY <1>1 DEF ParkedHasNoServer, HasOwner, LiveOwners
  <2>1. pending[call].method \in Methods
    BY NobodyServesParked
  <2>2. PICK j \in 1..Len(owners[pending[call].method]) :
          owners[pending[call].method][j] = owners'[pending[call].method][i]
    BY <2>1, <1>3
  <2> QED
    BY <2>2, NobodyServesParked
<1> QED
  BY <1>1, <1>4, <1>5, <1>6 DEF IInv, PendingHasLivePeers, AssignedIsTold, AnsweredOnce, OneLiveServer

(* The parked calls of a method are adopted by the connection that         *)
(* registers it; nobody else had them.                                     *)
LEMMA RegisterMethodStep ==
  ASSUME TypeOK, IInv, NEW d \in Daemons, NEW m \in Methods, RpcRegister(d, m)
  PROVE  TypeOK' /\ IInv'
<1>1. /\ owners' = [owners EXCEPT ![m] = Enlisted(owners[m], d)]
      /\ d \in peers /\ d \in used
      /\ wire' = wire \cup {Request(d, call) : call \in Parked(m)}
      /\ UNCHANGED <<peers, used, open, closing, grace, working, made, owed, answered>>
  BY DEF RpcRegister, Handled, peerVars, history, TypeOK
<1>2. owners \in [Methods -> Seq(Daemons)]
  BY DEF TypeOK
<1>3. /\ owners' \in [Methods -> Seq(Daemons)]
      /\ \A n \in Methods : \A i \in 1..Len(owners'[n]) :
           (n = m /\ owners'[n][i] = d) \/ \E j \in 1..Len(owners[n]) : owners[n][j] = owners'[n][i]
      /\ \A n \in Methods : n # m => owners'[n] = owners[n]
  <2>1. owners[m] \in Seq(Daemons)
    BY <1>2
  <2>2. owners'[m] = Enlisted(owners[m], d) /\ \A n \in Methods : n # m => owners'[n] = owners[n]
    BY <1>1, <1>2
  <2>3. Enlisted(owners[m], d) \in Seq(Daemons)
    BY <2>1, EnlistedFacts
  <2>4. \A i \in 1..Len(owners'[m]) :
          owners'[m][i] = d \/ \E j \in 1..Len(owners[m]) : owners[m][j] = owners'[m][i]
    <3>1. \A i \in 1..Len(Enlisted(owners[m], d)) :
            \/ Enlisted(owners[m], d)[i] = d
            \/ \E j \in 1..Len(owners[m]) : owners[m][j] = Enlisted(owners[m], d)[i]
      BY <2>1, EnlistedFacts
    <3> QED
      BY <3>1, <2>2
  <2>5. owners' \in [Methods -> Seq(Daemons)]
    BY <1>1, <1>2, <2>3
  <2> QED
    BY <2>2, <2>4, <2>5
<1>4. /\ DOMAIN pending' = DOMAIN pending
      /\ \A call \in Parked(m) : pending'[call] = [pending[call] EXCEPT !.responder = d]
      /\ \A call \in DOMAIN pending \ Parked(m) : pending'[call] = pending[call]
      /\ Parked(m) \subseteq DOMAIN pending
  BY DEF RpcRegister, Parked
<1>5. \A call \in DOMAIN pending : pending[call] \in Entry /\ call \in Calls
  BY DEF TypeOK
<1>6. \A call \in Parked(m) :
        /\ pending'[call] \in Entry /\ pending'[call].responder = d
        /\ pending[call].responder = NoPeer /\ pending'[call].method = pending[call].method
  BY <1>4, <1>5 DEF Entry, Parked
<1>7. TypeOK'
  <2>1. {Request(d, call) : call \in Parked(m)} \subseteq Requests
    BY <1>4, <1>5 DEF Request, Requests
  <2> QED
    BY <1>1, <1>3, <1>4, <1>5, <1>6, <2>1 DEF TypeOK
<1>8. Traces'
  <2>1. \A msg \in wire' : msg.to \in used /\ msg.call \in made
    BY <1>1, <1>4 DEF IInv, Traces, Request
  <2>2. \A n \in Methods : \A i \in 1..Len(owners'[n]) : owners'[n][i] \in used
    BY <1>1, <1>3 DEF IInv, Traces
  <2> QED
    BY <1>1, <1>4, <2>1, <2>2 DEF IInv, Traces
<1>9. PendingHasLivePeers'
  BY <1>1, <1>4, <1>6 DEF IInv, PendingHasLivePeers
<1>10. ParkedHasNoServer'
  <2> SUFFICES ASSUME NEW call \in DOMAIN pending, pending'[call].responder = NoPeer,
                      NEW i \in 1..Len(owners'[pending'[call].method]),
                      owners'[pending'[call].method][i] \in peers
               PROVE  FALSE
    BY <1>1, <1>4 DEF ParkedHasNoServer, HasOwner, LiveOwners
  <2>1. call \notin Parked(m)
    BY <1>6, PeersAssumption
  <2>2. pending'[call] = pending[call] /\ pending[call].method \in Methods
    BY <2>1, <1>4, <1>5 DEF Entry
  <2>3. pending[call].method # m
    BY <2>1, <2>2 DEF Parked
  <2>4. owners'[pending[call].method] = owners[pending[call].method]
    BY <2>2, <2>3, <1>3
  <2> QED
    BY <2>2, <2>4 DEF IInv, ParkedHasNoServer, HasOwner, LiveOwners
<1>11. AssignedIsTold'
  <2> SUFFICES ASSUME NEW call \in DOMAIN pending, pending'[call].responder # NoPeer
               PROVE  \/ Request(pending'[call].responder, call) \in wire'
                      \/ <<pending'[call].responder, call>> \in working
                      \/ pending'[call].responder \in closing
    BY <1>1, <1>4 DEF AssignedIsTold
  <2>1. CASE call \in Parked(m)
    BY <2>1, <1>1, <1>6
  <2>2. CASE call \notin Parked(m)
    BY <2>2, <1>1, <1>4 DEF IInv, AssignedIsTold
  <2> QED
    BY <2>1, <2>2
<1>12. AnsweredOnce'
  BY <1>1, <1>4 DEF IInv, AnsweredOnce
<1>13. OneLiveServer'
  <2> SUFFICES ASSUME NEW call \in DOMAIN pending \ answered, NEW e \in peers,
                      Request(e, call) \in wire' \/ <<e, call>> \in working
               PROVE  pending'[call].responder = e
    BY <1>1, <1>4 DEF OneLiveServer
  <2>1. CASE Request(e, call) \in wire \/ <<e, call>> \in working
    <3>1. pending[call].responder = e
      BY <2>1 DEF IInv, OneLiveServer
    <3>2. e \in Daemons
      BY <2>1 DEF TypeOK, Requests, Request
    <3>3. call \notin Parked(m)
      BY <3>1, <3>2, <1>6, PeersAssumption
    <3> QED
      BY <3>1, <3>3, <1>4
  <2>2. CASE ~(Request(e, call) \in wire \/ <<e, call>> \in working)
    <3>1. PICK other \in Parked(m) : Request(e, call) = Request(d, other)
      BY <2>2, <1>1
    <3>2. e = d /\ call = other
      BY <3>1 DEF Request
    <3> QED
      BY <3>2, <1>6
  <2> QED
    BY <2>1, <2>2
<1> QED
  BY <1>7, <1>8, <1>9, <1>10, <1>11, <1>12, <1>13 DEF IInv

-----------------------------------------------------------------------------
(* A call that is accepted is new, or its late predecessor is settled in   *)
(* the same step.                                                          *)
LEMMA AcceptStep ==
  ASSUME TypeOK, IInv, NEW c \in Clients, NEW id \in Ids, NEW m \in Methods,
         RpcCall(c, id, m), Refusal(<<c, id>>, m) = "none"
  PROVE  TypeOK' /\ IInv'
<1> DEFINE call == <<c, id>>
           target == OwnerOrNone(m, owners, peers)
<1>1. /\ call \in Calls /\ Requester(call) = c /\ c \in peers /\ c \in used
      /\ made' = made \cup {call}
      /\ UNCHANGED <<peers, used, open, closing, owners, grace, working>>
      /\ call \in made => call \in DOMAIN pending
  BY DEF RpcCall, Handled, Calls, Requester, peerVars, TypeOK
<1>2. call \notin InTime /\ ~(Cardinality(InTime) >= MaxPending)
  BY DEF Refusal
<1>3. /\ Accept(call, m)
      /\ wire' = wire \cup (IF target = NoPeer THEN {} ELSE {Request(target, call)})
  BY DEF RpcCall, Accept
<1>4. /\ target \in (Daemons \cap peers) \cup {NoPeer}
      /\ target = NoPeer <=> ~HasOwner(m, owners, peers)
  BY OwnerFacts DEF TypeOK
<1> HIDE DEF target
<1>5. /\ DOMAIN pending' = InTime \cup {call}
      /\ pending'[call] = [method |-> m, responder |-> target, late |-> FALSE]
      /\ \A other \in InTime : pending'[other] = pending[other]
  BY <1>2, <1>3 DEF Accept, target
<1>6. /\ InTime \subseteq DOMAIN pending /\ DOMAIN pending \subseteq Calls
      /\ DOMAIN pending \subseteq made /\ TimedOut = DOMAIN pending \ InTime
      /\ \A other \in InTime : pending[other] \in Entry
  BY LateAreSettled DEF InTime, Late, TypeOK, IInv, Traces
<1>7. /\ IsFiniteSet(InTime \cup {call}) /\ Cardinality(InTime \cup {call}) <= MaxPending
  <2>1. IsFiniteSet(InTime)
    BY <1>6, FS_Subset DEF IInv, Traces
  <2>2. /\ IsFiniteSet(InTime \cup {call})
        /\ Cardinality(InTime \cup {call}) = Cardinality(InTime) + 1
    BY <2>1, <1>2, FS_AddElement
  <2>3. Cardinality(InTime) \in Nat /\ MaxPending \in Nat
    BY <2>1, FS_CardinalityType, BudgetAssumption
  <2> QED
    BY <2>2, <2>3, <1>2
<1>8. /\ owed' \in [Calls -> Int]
      /\ \A other \in Calls :
           owed'[other] = owed[other] + (IF other = call THEN 1 ELSE 0)
                                      - (IF other \in TimedOut THEN 1 ELSE 0)
      /\ answered' = answered \cup TimedOut
  BY <1>3 DEF Accept, AcceptAndSettle, TypeOK
<1>9. TypeOK'
  <2>1. pending'[call] \in Entry
    BY <1>4, <1>5 DEF Entry
  <2>2. wire' \subseteq Requests
    <3>1. target # NoPeer => Request(target, call) \in Requests
      BY <1>1, <1>4 DEF Request, Requests
    <3> QED
      BY <3>1, <1>3 DEF TypeOK
  <2>3. used \subseteq Peers /\ made' \subseteq Calls /\ answered' \subseteq made'
    BY <1>1, <1>6, <1>8 DEF TypeOK
  <2> QED
    BY <2>1, <2>2, <2>3, <1>1, <1>5, <1>6, <1>7, <1>8 DEF TypeOK
<1>10. Traces'
  <2>1. \A msg \in wire' : msg.to \in used /\ msg.call \in made'
    BY <1>1, <1>3, <1>4 DEF IInv, Traces, TypeOK, Request
  <2>2. \A other \in Calls : Requester(other) \notin used => owed'[other] = 0
    <3> SUFFICES ASSUME NEW other \in Calls, Requester(other) \notin used PROVE owed'[other] = 0
      OBVIOUS
    <3>1. other # call /\ other \notin TimedOut
      BY <1>1 DEF TimedOut, TypeOK
    <3> QED
      BY <3>1, <1>8 DEF IInv, Traces, TypeOK
  <2> QED
    BY <2>1, <2>2, <1>1, <1>5, <1>6, <1>7 DEF IInv, Traces
<1>11. PendingHasLivePeers'
  BY <1>1, <1>4, <1>5, <1>6 DEF IInv, PendingHasLivePeers
<1>12. ParkedHasNoServer'
  <2>1. pending'[call].method = m /\ pending'[call].responder = target
    BY <1>5
  <2>2. pending'[call].responder = NoPeer => ~HasOwner(pending'[call].method, owners, peers)
    BY <2>1, <1>4
  <2> QED
    BY <2>2, <1>1, <1>5, <1>6 DEF IInv, ParkedHasNoServer
<1>13. AssignedIsTold'
  <2> SUFFICES ASSUME NEW other \in InTime \cup {call}, pending'[other].responder # NoPeer
               PROVE  \/ Request(pending'[other].responder, other) \in wire'
                      \/ <<pending'[other].responder, other>> \in working
                      \/ pending'[other].responder \in closing
    BY <1>1, <1>5 DEF AssignedIsTold
  <2>1. CASE other = call
    BY <2>1, <1>3, <1>5
  <2>2. CASE other \in InTime
    BY <2>2, <1>3, <1>5, <1>6 DEF IInv, AssignedIsTold
  <2> QED
    BY <2>1, <2>2
<1>14. AnsweredOnce'
  <2> SUFFICES ASSUME NEW other \in Calls, Requester(other) \in peers
               PROVE  owed'[other] = IF other \in InTime \cup {call} THEN 1 ELSE 0
    BY <1>1, <1>5 DEF AnsweredOnce
  <2>1. owed[other] = IF other \in DOMAIN pending THEN 1 ELSE 0
    BY DEF IInv, AnsweredOnce
  <2> QED
    BY <2>1, <1>2, <1>6, <1>8
<1>15. OneLiveServer'
  <2> SUFFICES ASSUME NEW other \in (InTime \cup {call}) \ answered', NEW d \in peers,
                      Request(d, other) \in wire' \/ <<d, other>> \in working
               PROVE  pending'[other].responder = d
    BY <1>1, <1>5 DEF OneLiveServer
  <2>1. CASE other = call
    <3>1. call \notin made
      BY <2>1, <1>1, <1>2, <1>6, <1>8
    <3>2. Request(d, call) \notin wire /\ <<d, call>> \notin working
      BY <3>1 DEF IInv, Traces, Request
    <3>3. Request(d, call) = Request(target, call)
      BY <2>1, <3>2, <1>3
    <3> QED
      BY <2>1, <3>3, <1>5 DEF Request
  <2>2. CASE other # call
    <3>1. Request(d, other) \in wire \/ <<d, other>> \in working
      BY <2>2, <1>3 DEF Request
    <3>2. other \in DOMAIN pending \ answered
      BY <2>2, <1>6, <1>8
    <3>3. pending[other].responder = d
      BY <3>1, <3>2 DEF IInv, OneLiveServer
    <3> QED
      BY <2>2, <3>3, <1>5
  <2> QED
    BY <2>1, <2>2
<1> QED
  BY <1>9, <1>10, <1>11, <1>12, <1>13, <1>14, <1>15 DEF IInv

LEMMA CallStep ==
  ASSUME TypeOK, IInv, NEW c \in Clients, NEW id \in Ids, NEW m \in Methods, RpcCall(c, id, m)
  PROVE  TypeOK' /\ IInv'
<1>1. CASE Refusal(<<c, id>>, m) = "none"
  BY <1>1, AcceptStep
<1>2. CASE Refusal(<<c, id>>, m) # "none"
  <2>1. Refuse /\ UNCHANGED <<peerVars, closing, owners, grace, working>>
        /\ made' = made \cup {<<c, id>>} /\ <<c, id>> \in Calls
    BY <1>2 DEF RpcCall, Calls
  <2>2. /\ pending' = Restricted(InTime)
        /\ Settle({other \in DOMAIN pending \ InTime : Requester(other) \in peers})
    BY <2>1, LateAreSettled DEF Refuse
  <2> QED
    BY <2>1, <2>2, LateAreSettled, CallsLeave DEF Refuse, TypeOK
<1> QED
  BY <1>1, <1>2

-----------------------------------------------------------------------------
(* A removal hands the calls of the removed connection to a live owner, or *)
(* parks them because none is left.                                        *)
LEMMA UnregisterStep ==
  ASSUME TypeOK, IInv, NEW p \in Peers, Unregister(p)
  PROVE  TypeOK' /\ IInv'
<1> DEFINE left == peers \ {p}
           kept == [m \in Methods |-> Delisted(owners[m], p)]
           calls == {call \in DOMAIN pending : Requester(call) # p}
           orphans == Orphans(p, calls)
           heir(call) == OwnerOrNone(pending[call].method, kept, left)
           told == {Request(heir(call), call) : call \in {o \in orphans : heir(o) # NoPeer}}
<1>1. /\ p \in peers /\ closing' = closing \ {p} /\ peers' = left /\ owners' = kept
      /\ grace' \in BOOLEAN
      /\ wire' = wire \cup told
      /\ working' = {w \in working : w[1] # p}
      /\ UNCHANGED <<used, open, made, owed, answered>>
  BY DEF Unregister, TypeOK, history
<1>2. /\ kept \in [Methods -> Seq(Daemons)]
      /\ \A m \in Methods : \A i \in 1..Len(kept[m]) :
           \E j \in 1..Len(owners[m]) : owners[m][j] = kept[m][i]
  <2>1. \A m \in Methods : owners[m] \in Seq(Daemons) /\ kept[m] = Delisted(owners[m], p)
    BY DEF TypeOK
  <2>2. \A m \in Methods : Delisted(owners[m], p) \in Seq(Daemons)
    BY <2>1, DelistedFacts
  <2>3. ASSUME NEW m \in Methods
        PROVE  \A i \in 1..Len(kept[m]) : \E j \in 1..Len(owners[m]) : owners[m][j] = kept[m][i]
    <3>1. \A i \in 1..Len(Delisted(owners[m], p)) :
            \E j \in 1..Len(owners[m]) : owners[m][j] = Delisted(owners[m], p)[i]
      BY <2>1, DelistedFacts
    <3> QED
      BY <3>1, <2>1
  <2> QED
    BY <2>2, <2>3
<1>3. \A call \in DOMAIN pending : pending[call] \in Entry /\ pending[call].method \in Methods
  BY DEF TypeOK, Entry
<1>4. ASSUME NEW call \in DOMAIN pending
      PROVE  /\ heir(call) \in (Daemons \cap left) \cup {NoPeer}
             /\ heir(call) = NoPeer <=> ~HasOwner(pending[call].method, kept, left)
  <2> HIDE DEF left, kept
  <2> QED
    BY <1>2, <1>3, OwnerFacts
<1>5. /\ DOMAIN pending' = calls
      /\ \A call \in orphans : pending'[call] = [pending[call] EXCEPT !.responder = heir(call)]
      /\ \A call \in calls \ orphans : pending'[call] = pending[call]
      /\ orphans \subseteq calls
  <2>1. pending' = [call \in calls |->
                     IF call \in orphans THEN [pending[call] EXCEPT !.responder = heir(call)]
                     ELSE pending[call]]
    BY DEF Unregister
  <2>2. orphans \subseteq calls
    BY DEF Orphans
  <2> HIDE DEF calls, orphans, heir
  <2> QED
    BY <2>1, <2>2
<1>6. /\ calls \subseteq DOMAIN pending
      /\ \A call \in calls : Requester(call) # p
      /\ \A call \in DOMAIN pending : Requester(call) # p => call \in calls
      /\ \A call \in calls : call \in orphans <=> pending[call].responder = p
  BY DEF Orphans
<1>7. \A call \in orphans : /\ pending'[call] \in Entry
                            /\ pending'[call].responder = heir(call)
                            /\ pending'[call].method = pending[call].method
  <2> HIDE DEF calls, orphans, heir
  <2> SUFFICES ASSUME NEW call \in orphans
               PROVE  /\ pending'[call] \in Entry
                      /\ pending'[call].responder = heir(call)
                      /\ pending'[call].method = pending[call].method
    OBVIOUS
  <2>1. call \in DOMAIN pending /\ pending[call] \in Entry
    BY <1>3, <1>5, <1>6
  <2>2. heir(call) \in Daemons \cup {NoPeer}
    BY <2>1, <1>4
  <2>3. \A h \in Daemons \cup {NoPeer} :
          LET e == [pending[call] EXCEPT !.responder = h]
          IN e \in Entry /\ e.responder = h /\ e.method = pending[call].method
    BY <2>1 DEF Entry
  <2>4. pending'[call] = [pending[call] EXCEPT !.responder = heir(call)]
    BY <1>5
  <2> QED
    BY <2>2, <2>3, <2>4
<1> HIDE DEF kept, calls, orphans, heir
<1>8. IsFiniteSet(calls) /\ Cardinality(calls) <= MaxPending
  <2>1. IsFiniteSet(DOMAIN pending) /\ Cardinality(DOMAIN pending) <= MaxPending
    BY DEF IInv, Traces, TypeOK
  <2>2. IsFiniteSet(calls) /\ Cardinality(calls) <= Cardinality(DOMAIN pending)
    BY <2>1, <1>6, FS_Subset
  <2>3. Cardinality(calls) \in Nat /\ Cardinality(DOMAIN pending) \in Nat /\ MaxPending \in Nat
    BY <2>1, <2>2, FS_CardinalityType, BudgetAssumption
  <2> QED
    BY <2>1, <2>2, <2>3
<1>9. TypeOK'
  <2>1. wire' \subseteq Requests
    <3>1. \A call \in orphans : heir(call) # NoPeer => Request(heir(call), call) \in Requests
      BY <1>4, <1>5, <1>6 DEF TypeOK, Request, Requests
    <3> QED
      BY <3>1, <1>1 DEF TypeOK
  <2>2. \A call \in calls : pending'[call] \in Entry
    BY <1>3, <1>5, <1>6, <1>7
  <2> QED
    BY <2>1, <2>2, <1>1, <1>2, <1>5, <1>6, <1>8 DEF TypeOK
<1>10. Traces'
  <2>1. \A msg \in wire' : msg.to \in used /\ msg.call \in made
    <3>1. \A call \in orphans : heir(call) # NoPeer =>
            Request(heir(call), call).to \in used /\ Request(heir(call), call).call \in made
      BY <1>4, <1>5, <1>6 DEF Request, TypeOK, IInv, Traces
    <3> QED
      BY <3>1, <1>1 DEF IInv, Traces
  <2>2. \A m \in Methods : \A i \in 1..Len(owners'[m]) : owners'[m][i] \in used
    BY <1>1, <1>2 DEF IInv, Traces
  <2> QED
    BY <2>1, <2>2, <1>1, <1>5, <1>6, <1>8 DEF IInv, Traces
<1>11. PendingHasLivePeers'
  <2> SUFFICES ASSUME NEW call \in calls
               PROVE  /\ Requester(call) \in left
                      /\ pending'[call].responder \in left \cup {NoPeer}
    BY <1>1, <1>5 DEF PendingHasLivePeers
  <2>1. Requester(call) \in peers /\ pending[call].responder \in peers \cup {NoPeer}
    BY <1>6 DEF IInv, PendingHasLivePeers
  <2>2. CASE call \in orphans
    BY <2>1, <2>2, <1>4, <1>6, <1>7
  <2>3. CASE call \notin orphans
    BY <2>1, <2>3, <1>5, <1>6
  <2> QED
    BY <2>2, <2>3
<1>12. ParkedHasNoServer'
  <2> SUFFICES ASSUME NEW call \in calls, pending'[call].responder = NoPeer
               PROVE  ~HasOwner(pending'[call].method, kept, left)
    BY <1>1, <1>5 DEF ParkedHasNoServer, HasOwner, LiveOwners
  <2>1. CASE call \in orphans
    BY <2>1, <1>4, <1>6, <1>7
  <2>2. CASE call \notin orphans
    <3>1. pending'[call] = pending[call] /\ pending[call].responder = NoPeer
          /\ pending[call].method \in Methods
      BY <2>2, <1>3, <1>5, <1>6
    <3>2. \A j \in 1..Len(owners[pending[call].method]) :
            owners[pending[call].method][j] \notin peers
      BY <3>1, <1>6, NobodyServesParked
    <3>3. \A i \in 1..Len(kept[pending[call].method]) :
            kept[pending[call].method][i] \notin left
      BY <3>1, <3>2, <1>2
    <3> QED
      BY <3>1, <3>3 DEF HasOwner, LiveOwners
  <2> QED
    BY <2>1, <2>2
<1>13. AssignedIsTold'
  <2> SUFFICES ASSUME NEW call \in calls, pending'[call].responder # NoPeer
               PROVE  \/ Request(pending'[call].responder, call) \in wire'
                      \/ <<pending'[call].responder, call>> \in working'
                      \/ pending'[call].responder \in closing'
    BY <1>1, <1>5 DEF AssignedIsTold
  <2>1. CASE call \in orphans
    BY <2>1, <1>1, <1>7
  <2>2. CASE call \notin orphans
    <3>1. pending'[call] = pending[call] /\ pending[call].responder # p
      BY <2>2, <1>5, <1>6
    <3>2. \/ Request(pending[call].responder, call) \in wire
          \/ <<pending[call].responder, call>> \in working
          \/ pending[call].responder \in closing
      BY <3>1, <1>6 DEF IInv, AssignedIsTold
    <3> QED
      BY <3>1, <3>2, <1>1
  <2> QED
    BY <2>1, <2>2
<1>14. AnsweredOnce'
  BY <1>1, <1>5, <1>6 DEF IInv, AnsweredOnce
<1>15. OneLiveServer'
  <2> SUFFICES ASSUME NEW call \in calls \ answered, NEW d \in left,
                      Request(d, call) \in wire' \/ <<d, call>> \in working'
               PROVE  pending'[call].responder = d
    BY <1>1, <1>5 DEF OneLiveServer
  <2>1. CASE Request(d, call) \in wire \/ <<d, call>> \in working
    <3>1. pending[call].responder = d /\ d # p
      BY <2>1, <1>6 DEF IInv, OneLiveServer
    <3> QED
      BY <3>1, <1>5, <1>6
  <2>2. CASE ~(Request(d, call) \in wire \/ <<d, call>> \in working)
    <3>1. Request(d, call) \in told
      BY <2>2, <1>1
    <3>2. PICK o \in orphans : Request(d, call) = Request(heir(o), o)
      BY <3>1
    <3>3. d = heir(o) /\ call = o
      BY <3>2 DEF Request
    <3> QED
      BY <3>3, <1>7
  <2> QED
    BY <2>1, <2>2
<1> QED
  BY <1>9, <1>10, <1>11, <1>12, <1>13, <1>14, <1>15 DEF IInv

-----------------------------------------------------------------------------
LEMMA Inductive == TypeOK /\ IInv /\ [Next]_vars => TypeOK' /\ IInv'
<1> SUFFICES ASSUME TypeOK, IInv, [Next]_vars PROVE TypeOK' /\ IInv'
  OBVIOUS
<1>1. ASSUME NEW p \in Peers, Connect(p) \/ Close(p) \/ Unregister(p) PROVE TypeOK' /\ IInv'
  BY <1>1, ConnectStep, CloseStep, UnregisterStep
<1>2. ASSUME NEW d \in Daemons, NEW m \in Methods, RpcRegister(d, m) \/ RpcUnregister(d, m)
      PROVE  TypeOK' /\ IInv'
  BY <1>2, RegisterMethodStep, UnregisterMethodStep
<1>3. ASSUME NEW c \in Clients, NEW id \in Ids, NEW m \in Methods, RpcCall(c, id, m)
      PROVE  TypeOK' /\ IInv'
  BY <1>3, CallStep
<1>4. ASSUME NEW d \in Daemons, NEW call \in Calls, RpcResult(d, call) PROVE TypeOK' /\ IInv'
  BY <1>4, ResultStep
<1>5. CASE (\E call \in Calls : TimePasses(call)) \/ GraceEnds
  BY <1>5, TimeStep
<1>6. CASE Sweep
  BY <1>6, SweepStep
<1>7. ASSUME NEW msg \in wire, Receive(msg) \/ Lose(msg) PROVE TypeOK' /\ IInv'
  BY <1>7, ReceiveStep, LoseStep
<1>8. CASE UNCHANGED vars
  BY <1>8 DEF vars, peerVars, tableVars, history, TypeOK, IInv, Traces, PendingHasLivePeers,
     ParkedHasNoServer, HasOwner, LiveOwners, AssignedIsTold, AnsweredOnce, OneLiveServer
<1> QED
  BY <1>1, <1>2, <1>3, <1>4, <1>5, <1>6, <1>7, <1>8 DEF Next

LEMMA InvariantHolds == Spec => [](TypeOK /\ IInv)
<1> QED
  BY InitHolds, Inductive, PTL DEF Spec

(* Owners, pending calls, requests and results stay well formed, and the   *)
(* table of pending calls never grows past its budget                      *)
(* (PENDING_RPC_MAX_COUNT in forward_rpc_call).                            *)
THEOREM RpcTypeCorrect == Spec => []TypeOK
BY InvariantHolds, PTL

(* unregister_peer leaves no call of, and no call with, a connection that  *)
(* is gone.                                                                *)
THEOREM NoOrphanedCalls == Spec => []PendingHasLivePeers
<1>1. IInv => PendingHasLivePeers
  BY DEF IInv
<1> QED
  BY <1>1, InvariantHolds, PTL

(* forward_rpc_call, register_rpc_method and unregister_peer between them  *)
(* never leave a call waiting while a live connection serves its method.   *)
THEOREM ParkedOnlyWithoutServer == Spec => []ParkedHasNoServer
<1>1. IInv => ParkedHasNoServer
  BY DEF IInv
<1> QED
  BY <1>1, InvariantHolds, PTL

(* A connection that a call is assigned to has its request, will get it,   *)
(* or is being removed.                                                    *)
THEOREM AssignedCallsAreTold == Spec => []AssignedIsTold
<1>1. IInv => AssignedIsTold
  BY DEF IInv
<1> QED
  BY <1>1, InvariantHolds, PTL

(* resolve_rpc, notify_expired_rpcs and the refusals of forward_rpc_call   *)
(* give a connected client exactly one result for a call.                  *)
THEOREM ExactlyOneResult == Spec => []AnsweredOnce
<1>1. IInv => AnsweredOnce
  BY DEF IInv
<1> QED
  BY <1>1, InvariantHolds, PTL

(* A hand-over never gives a pending call to a second connection while the *)
(* first one is still registered.                                          *)
THEOREM AtMostOneLiveServer == Spec => []OneLiveServer
<1>1. IInv => OneLiveServer
  BY DEF IInv
<1> QED
  BY <1>1, InvariantHolds, PTL
=============================================================================
