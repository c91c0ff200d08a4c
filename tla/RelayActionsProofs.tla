------------------------- MODULE RelayActionsProofs -------------------------
(* Proofs about the durable actions of a relay session (RelayActions) for  *)
(* any number of connections and actions, any batch size and any number of *)
(* crashes and failing writes.                                             *)
EXTENDS RelayActions, TLAPS

Handing(t) == t.step \in {"write requests", "request"}

(* A connection is listed once: peer ids are not used twice while the relay *)
(* runs.                                                                   *)
ListedOnce == \A i, j \in 1..Len(conns) : conns[i] = conns[j] => i = j

(* Whatever names a connection names one that was there.                   *)
NamesAreUsed ==
  /\ \A t \in due : t.to \in used \cup {NoPeer}
  /\ \A r \in requests : r[1] \in used
  /\ \A h \in held : h[1] \in used

(* A handler names a connection exactly while it hands actions to it, and  *)
(* is only about actions that were submitted; what a submission announces  *)
(* was written.                                                            *)
TasksAreAboutActions ==
  \A t \in due :
    /\ t.to # NoPeer <=> Handing(t)
    /\ \A a \in t.as : action[a].status # "absent"
    /\ t.kind = "submit" /\ t.step = "announce" => \A a \in t.as : disk[a] # "absent"

(* What is between the dispatch pass and a live connection is dispatched   *)
(* to it and is in one place: in one handler, queued, or with the daemon.  *)
HandedOnce ==
  \A t \in due : t.to \in Live => \A a \in t.as :
    /\ action[a].status = "dispatched" /\ action[a].owner = t.to
    /\ <<t.to, a>> \notin requests
    /\ \A h \in held : h[1] # t.to \/ h[2] # a
    /\ \A u \in due : u.to = t.to /\ a \in u.as => u = t

RequestedOnce ==
  \A r \in requests : r[1] \in Live =>
    /\ action[r[2]].status = "dispatched" /\ action[r[2]].owner = r[1]
    /\ \A h \in held : h[1] # r[1] \/ h[2] # r[2]

(* A live daemon was asked for what is dispatched to it, and has begun     *)
(* what is executing.                                                      *)
HeldAsOwned ==
  \A h \in held : h[1] \in Live =>
    /\ action[h[2]].status = IF h[3] = "asked" THEN "dispatched" ELSE "executing"
    /\ action[h[2]].owner = h[1]

AcceptedIsStored == \A a \in accepted : disk[a] # "absent"

IInv ==
  /\ ListedOnce /\ NamesAreUsed /\ TasksAreAboutActions
  /\ HandedOnce /\ RequestedOnce /\ HeldAsOwned /\ AcceptedIsStored
  /\ InFlightHasLiveOwner /\ OwnerIsAsked /\ AcceptedSurvives

-----------------------------------------------------------------------------
LEMMA LiveFacts == Live = {conns[i] : i \in DOMAIN conns}
BY DEF Live, ToSet

(* The newest connection is a live one.                                    *)
LEMMA NewestIsLive ==
  ASSUME TypeOK, conns # <<>>
  PROVE  Newest \in Live /\ Newest \in Daemons
<1>1. conns \in Seq(Daemons) /\ Len(conns) \in 1..Len(conns) /\ DOMAIN conns = 1..Len(conns)
  BY DEF TypeOK
<1> QED
  BY <1>1, LiveFacts DEF Newest, Last

(* Removing a connection that is listed once leaves exactly the others,    *)
(* each of them once.                                                      *)
LEMMA WithoutFacts ==
  ASSUME TypeOK, ListedOnce, NEW d \in Live, conns' = Without(d)
  PROVE  conns' \in Seq(Daemons) /\ Live' = Live \ {d} /\ ListedOnce'
<1> DEFINE at == CHOOSE i \in 1..Len(conns) : conns[i] = d
           n == Len(conns)
<1>1. /\ conns \in Seq(Daemons) /\ n \in Nat /\ DOMAIN conns = 1..n
      /\ \A i \in 1..n : conns[i] \in Daemons
  BY DEF TypeOK
<1>2. at \in 1..n /\ conns[at] = d
  BY <1>1, LiveFacts
<1>3. conns' = [j \in 1..n - 1 |-> IF j < at THEN conns[j] ELSE conns[j + 1]]
  BY DEF Without
<1> HIDE DEF at, n
<1>4. n - 1 \in Nat /\ \A j \in 1..n - 1 : j \in 1..n /\ j + 1 \in 1..n
  BY <1>1, <1>2
<1>5. conns' \in [1..n - 1 -> Daemons]
  BY <1>1, <1>3, <1>4
<1>6. conns' \in Seq(Daemons) /\ Len(conns') = n - 1
  BY <1>4, <1>5
<1>7. \A i, j \in 1..n : conns[i] = conns[j] => i = j
  BY DEF ListedOnce, n
<1>8. ListedOnce'
  BY <1>1, <1>2, <1>3, <1>4, <1>6, <1>7 DEF ListedOnce
<1>9. Live' = {conns'[i] : i \in 1..n - 1}
  BY <1>3 DEF Live, ToSet
<1>10. ASSUME NEW e \in Live' PROVE e \in Live /\ e # d
  <2>1. PICK j \in 1..n - 1 : conns'[j] = e
    BY <1>9
  <2>2. CASE j < at
    BY <2>1, <2>2, <1>1, <1>2, <1>3, <1>4, <1>7, LiveFacts
  <2>3. CASE ~(j < at)
    <3>1. conns'[j] = conns[j + 1] /\ j + 1 \in 1..n /\ j + 1 # at
      BY <2>1, <2>3, <1>2, <1>3, <1>4
    <3> QED
      BY <3>1, <2>1, <1>1, <1>2, <1>7, LiveFacts
  <2> QED
    BY <2>2, <2>3
<1>11. ASSUME NEW e \in Live, e # d PROVE e \in Live'
  <2>1. PICK j \in 1..n : conns[j] = e
    BY <1>1, LiveFacts
  <2>2. CASE j < at
    BY <2>1, <2>2, <1>1, <1>2, <1>3, <1>9
  <2>3. CASE ~(j < at)
    <3>1. j # at
      BY <2>1, <1>2, <1>11
    <3>2. j - 1 \in 1..n - 1 /\ ~(j - 1 < at)
      BY <2>3, <3>1, <1>1, <1>2
    <3>3. conns'[j - 1] = conns[j]
      BY <3>2, <1>3
    <3> QED
      BY <3>2, <3>3, <2>1, <1>9
  <2> QED
    BY <2>2, <2>3
<1> QED
  BY <1>6, <1>8, <1>10, <1>11

-----------------------------------------------------------------------------
LEMMA InitHolds == Init => TypeOK /\ IInv
<1> SUFFICES ASSUME Init PROVE TypeOK /\ IInv
  OBVIOUS
<1>1. conns = <<>> /\ Live = {}
  BY LiveFacts DEF Init
<1>2. TypeOK
  BY <1>1, BoundsAssumption DEF Init, TypeOK, With, Statuses
<1>3. IInv
  BY <1>1 DEF Init, IInv, ListedOnce, NamesAreUsed, TasksAreAboutActions, HandedOnce,
     RequestedOnce, HeldAsOwned, AcceptedIsStored, InFlightHasLiveOwner, OwnerIsAsked,
     AcceptedSurvives, With, InFlight
<1> QED
  BY <1>2, <1>3

LEMMA ConnectStep ==
  ASSUME TypeOK, IInv, NEW d \in Daemons, Connect(d)
  PROVE  TypeOK' /\ IInv'
<1> DEFINE task == Task("ready", d, "dispatch", {})
<1>1. /\ d \notin used /\ used' = used \cup {d} /\ conns' = Append(conns, d)
      /\ due' = due \cup {task}
      /\ UNCHANGED <<closing, action, requests, held, disk, accepted, faults>>
  BY DEF Connect
<1>2. task \in Tasks /\ task.as = {} /\ task.to = NoPeer /\ ~Handing(task)
  BY DEF Task, Tasks, Kinds, Steps, Handing
<1> HIDE DEF task
<1>3. conns \in Seq(Daemons) /\ Live \subseteq used /\ Live \subseteq Daemons
  BY DEF TypeOK
<1>4. conns' \in Seq(Daemons) /\ Live' = Live \cup {d} /\ ListedOnce'
  <2>1. /\ conns' \in Seq(Daemons) /\ Len(conns') = Len(conns) + 1 /\ Len(conns) \in Nat
        /\ \A i \in 1..Len(conns) : conns'[i] = conns[i]
        /\ conns'[Len(conns) + 1] = d
        /\ DOMAIN conns = 1..Len(conns) /\ DOMAIN conns' = 1..Len(conns')
    BY <1>1, <1>3
  <2>2. Live' = {conns'[i] : i \in 1..Len(conns')}
    BY <2>1 DEF Live, ToSet
  <2>3. Live' = Live \cup {d}
    BY <2>1, <2>2, LiveFacts
  <2>4. \A i \in 1..Len(conns) : conns[i] # d
    BY <2>1, <1>1, <1>3, LiveFacts
  <2>5. ListedOnce'
    BY <2>1, <2>4 DEF IInv, ListedOnce
  <2> QED
    BY <2>1, <2>3, <2>5
<1>5. TypeOK'
  BY <1>1, <1>2, <1>4 DEF TypeOK
<1>6. NamesAreUsed' /\ TasksAreAboutActions'
  BY <1>1, <1>2 DEF IInv, NamesAreUsed, TasksAreAboutActions
<1>7. /\ \A t \in due : t.to # d
      /\ \A r \in requests : r[1] # d
      /\ \A h \in held : h[1] # d
  BY <1>1, BoundsAssumption DEF IInv, NamesAreUsed
<1>8. NoPeer \notin Live'
  BY <1>3, <1>4, BoundsAssumption
<1>9. HandedOnce' /\ RequestedOnce' /\ HeldAsOwned'
  BY <1>1, <1>2, <1>4, <1>7, <1>8 DEF IInv, HandedOnce, RequestedOnce, HeldAsOwned
<1>10. InFlightHasLiveOwner' /\ OwnerIsAsked'
  BY <1>1, <1>4 DEF IInv, InFlightHasLiveOwner, OwnerIsAsked
<1>11. AcceptedSurvives' /\ AcceptedIsStored'
  BY <1>1 DEF IInv, AcceptedSurvives, AcceptedIsStored
<1> QED
  BY <1>4, <1>5, <1>6, <1>9, <1>10, <1>11 DEF IInv

(* What a client submits is about no connection.                           *)
LEMMA SubmitStep ==
  ASSUME TypeOK, IInv, NEW a \in Actions, Submit(a)
  PROVE  TypeOK' /\ IInv'
<1> DEFINE task == Task("submit", NoPeer, "write", {a})
<1>1. /\ action[a].status = "absent"
      /\ action' = [action EXCEPT ![a] = With("queued", NoPeer)]
      /\ due' = due \cup {task}
      /\ UNCHANGED <<conns, used, closing, requests, held, disk, accepted, faults>>
  BY DEF Submit
<1>2. /\ task \in Tasks /\ task.as = {a} /\ task.to = NoPeer /\ ~Handing(task)
      /\ task.step = "write"
  BY DEF Task, Tasks, Kinds, Steps, Handing
<1> HIDE DEF task
<1>3. Live' = Live /\ NoPeer \notin Live /\ Live \subseteq Daemons
  BY <1>1, BoundsAssumption DEF Live, TypeOK
<1>4. With("queued", NoPeer) \in [status : Statuses, owner : Daemons \cup {NoPeer}]
  BY DEF With, Statuses
<1>5. /\ action'[a] = With("queued", NoPeer)
      /\ \A o \in Actions \ {a} : action'[o] = action[o]
      /\ action' \in [Actions -> [status : Statuses, owner : Daemons \cup {NoPeer}]]
  BY <1>1, <1>4 DEF TypeOK
<1>6. action[a].owner = NoPeer
  BY <1>1 DEF IInv, InFlightHasLiveOwner, InFlight
<1>7. TypeOK'
  BY <1>1, <1>2, <1>3, <1>5 DEF TypeOK
<1>8. ListedOnce' /\ NamesAreUsed'
  BY <1>1, <1>2 DEF IInv, ListedOnce, NamesAreUsed
<1>9. \A o \in Actions : action'[o].status = "absent" => action[o].status = "absent" /\ o # a
  BY <1>5 DEF With
<1>10. \A t \in due : t \in Tasks /\ t.as \subseteq Actions
  BY DEF TypeOK, Tasks
<1>11. TasksAreAboutActions'
  BY <1>1, <1>2, <1>5, <1>9, <1>10 DEF IInv, TasksAreAboutActions
<1>12. HandedOnce'
  BY <1>1, <1>2, <1>3, <1>5, <1>6, <1>10 DEF IInv, HandedOnce, With
<1>13. RequestedOnce' /\ HeldAsOwned'
  BY <1>1, <1>3, <1>5, <1>6 DEF IInv, RequestedOnce, HeldAsOwned, With, TypeOK
<1>14. InFlightHasLiveOwner' /\ OwnerIsAsked'
  BY <1>1, <1>3, <1>5 DEF IInv, InFlightHasLiveOwner, OwnerIsAsked, With, InFlight
<1>15. AcceptedSurvives' /\ AcceptedIsStored'
  BY <1>1, <1>9 DEF IInv, AcceptedSurvives, AcceptedIsStored, TypeOK
<1> QED
  BY <1>7, <1>8, <1>11, <1>12, <1>13, <1>14, <1>15 DEF IInv

(* A handler that only has its dispatch pass left changes nothing the      *)
(* invariant speaks of.                                                    *)
LEMMA ResubmitStep ==
  ASSUME TypeOK, IInv, NEW a \in Actions, Resubmit(a)
  PROVE  TypeOK' /\ IInv'
<1> DEFINE task == Task("submit", NoPeer, "dispatch", {})
<1>1. /\ due' = due \cup {task}
      /\ UNCHANGED <<conns, used, closing, action, requests, held, disk, accepted, faults>>
  BY DEF Resubmit
<1>2. task \in Tasks /\ task.as = {} /\ task.to = NoPeer /\ ~Handing(task)
  BY DEF Task, Tasks, Kinds, Steps, Handing
<1> HIDE DEF task
<1>3. Live' = Live /\ NoPeer \notin Live
  BY <1>1, BoundsAssumption DEF Live, TypeOK
<1>4. TypeOK'
  BY <1>1, <1>2, <1>3 DEF TypeOK
<1>5. ListedOnce' /\ NamesAreUsed' /\ TasksAreAboutActions'
  BY <1>1, <1>2 DEF IInv, ListedOnce, NamesAreUsed, TasksAreAboutActions
<1>6. HandedOnce' /\ RequestedOnce' /\ HeldAsOwned'
  BY <1>1, <1>2, <1>3 DEF IInv, HandedOnce, RequestedOnce, HeldAsOwned
<1>7. InFlightHasLiveOwner' /\ OwnerIsAsked' /\ AcceptedSurvives' /\ AcceptedIsStored'
  BY <1>1, <1>3 DEF IInv, InFlightHasLiveOwner, OwnerIsAsked, AcceptedSurvives, AcceptedIsStored
<1> QED
  BY <1>4, <1>5, <1>6, <1>7 DEF IInv

(* A report is about what is with the daemon, so that no handler and no    *)
(* queued request is about it, and what it changes is with nobody else.    *)
LEMMA ReportStep ==
  ASSUME TypeOK, IInv, NEW d \in Daemons, NEW a \in Actions,
         NEW s \in {"executing", "ended"}, Report(d, a, s)
  PROVE  TypeOK' /\ IInv'
<1> DEFINE task == Task(s, d, "write", {a})
           phase == IF s = "executing" THEN "asked" ELSE "begun"
           next == With(s, IF s = "ended" THEN NoPeer ELSE d)
<1>1. /\ d \in Live /\ action[a].owner = d /\ <<d, a, phase>> \in held
      /\ held' = {h \in held : h[1] # d \/ h[2] # a} \cup
                   (IF s = "executing" THEN {<<d, a, "begun">>} ELSE {})
      /\ action' = [action EXCEPT ![a] = next]
      /\ due' = due \cup {task}
      /\ UNCHANGED <<conns, used, closing, requests, disk, accepted, faults>>
  BY DEF Report
<1>2. /\ task \in Tasks /\ task.as = {a} /\ task.to = NoPeer /\ ~Handing(task)
      /\ task.step = "write"
  BY DEF Task, Tasks, Kinds, Steps, Handing
<1>3. /\ next \in [status : Statuses, owner : Daemons \cup {NoPeer}]
      /\ next.status = s /\ next.owner = IF s = "ended" THEN NoPeer ELSE d
  BY DEF With, Statuses
<1> HIDE DEF task, next
<1>4. Live' = Live /\ NoPeer \notin Live /\ Live \subseteq Daemons
  BY <1>1, BoundsAssumption DEF Live, TypeOK
<1>5. /\ action'[a] = next
      /\ \A o \in Actions \ {a} : action'[o] = action[o]
      /\ action' \in [Actions -> [status : Statuses, owner : Daemons \cup {NoPeer}]]
  BY <1>1, <1>3 DEF TypeOK
<1>6. \A t \in due : t \in Tasks /\ t.as \subseteq Actions
  BY DEF TypeOK, Tasks
<1>21. d \in Live /\ action[a].owner = d
  BY DEF Report
<1>7. \E h \in held : h[1] = d /\ h[2] = a
  <2>1. <<d, a, phase>>[1] = d /\ <<d, a, phase>>[2] = a
    OBVIOUS
  <2> HIDE DEF phase
  <2> QED
    BY <1>1, <2>1
<1>8. \A h \in held : h[1] \in Live /\ h[2] = a => h[1] = d
  BY <1>21 DEF IInv, HeldAsOwned
<1>9. \A t \in due : t.to \in Live => a \notin t.as
  <2> SUFFICES ASSUME NEW t \in due, t.to \in Live, a \in t.as PROVE FALSE
    OBVIOUS
  <2>1. action[a].owner = t.to /\ \A h \in held : h[1] # t.to \/ h[2] # a
    BY DEF IInv, HandedOnce
  <2> QED
    BY <2>1, <1>21, <1>7
<1>10. \A r \in requests : r[1] \in Live => r[2] # a
  BY <1>21, <1>7 DEF IInv, RequestedOnce
<1>11. \A h \in held' : (h \in held /\ (h[1] # d \/ h[2] # a)) \/ (s = "executing" /\ h = <<d, a, "begun">>)
  BY <1>1
<1>12. TypeOK'
  BY <1>1, <1>2, <1>4, <1>5 DEF TypeOK
<1>13. ListedOnce' /\ NamesAreUsed'
  BY <1>1, <1>2, <1>4 DEF IInv, ListedOnce, NamesAreUsed, TypeOK
<1>14. TasksAreAboutActions'
  BY <1>1, <1>2, <1>3, <1>5, <1>6 DEF IInv, TasksAreAboutActions
<1>15. HandedOnce'
  BY <1>1, <1>2, <1>4, <1>5, <1>6, <1>9, <1>11 DEF IInv, HandedOnce
<1>16. RequestedOnce'
  BY <1>1, <1>4, <1>5, <1>10, <1>11 DEF IInv, RequestedOnce, TypeOK
<1>17. HeldAsOwned'
  <2> SUFFICES ASSUME NEW h \in held', h[1] \in Live
               PROVE  /\ action'[h[2]].status = IF h[3] = "asked" THEN "dispatched" ELSE "executing"
                      /\ action'[h[2]].owner = h[1]
    BY <1>4 DEF HeldAsOwned
  <2>1. CASE h \in held /\ (h[1] # d \/ h[2] # a)
    <3>1. h[2] \in Actions \ {a}
      BY <2>1, <1>8 DEF TypeOK
    <3> QED
      BY <2>1, <3>1, <1>5 DEF IInv, HeldAsOwned
  <2>2. CASE s = "executing" /\ h = <<d, a, "begun">>
    BY <2>2, <1>3, <1>5
  <2> QED
    BY <2>1, <2>2, <1>11
<1>18. InFlightHasLiveOwner'
  BY <1>1, <1>3, <1>4, <1>5 DEF IInv, InFlightHasLiveOwner, InFlight
<1>19. OwnerIsAsked'
  <2> SUFFICES ASSUME NEW o \in Actions, action'[o].status = "dispatched"
               PROVE  LET e == action'[o].owner IN
                        \/ e \in closing' \/ <<e, o>> \in requests' \/ <<e, o, "asked">> \in held'
                        \/ \E t \in due' : t.to = e /\ o \in t.as
    BY DEF OwnerIsAsked
  <2>1. o # a /\ action'[o] = action[o]
    BY <1>3, <1>5
  <2> QED
    BY <2>1, <1>1 DEF IInv, OwnerIsAsked
<1>20. AcceptedSurvives' /\ AcceptedIsStored'
  BY <1>1, <1>3, <1>5 DEF IInv, AcceptedSurvives, AcceptedIsStored, TypeOK
<1> QED
  BY <1>12, <1>13, <1>14, <1>15, <1>16, <1>17, <1>18, <1>19, <1>20 DEF IInv

LEMMA CloseStep ==
  ASSUME TypeOK, IInv, NEW d \in Daemons, Close(d)
  PROVE  TypeOK' /\ IInv'
<1>1. /\ d \in Live /\ closing' = closing \cup {d}
      /\ UNCHANGED <<conns, used, action, due, requests, held, disk, accepted, faults>>
  BY DEF Close
<1>2. Live' = Live
  BY <1>1 DEF Live
<1>3. TypeOK'
  BY <1>1, <1>2 DEF TypeOK
<1>4. ListedOnce' /\ NamesAreUsed' /\ TasksAreAboutActions' /\ AcceptedSurvives' /\ AcceptedIsStored'
  BY <1>1 DEF IInv, ListedOnce, NamesAreUsed, TasksAreAboutActions, AcceptedSurvives, AcceptedIsStored
<1>5. HandedOnce' /\ RequestedOnce' /\ HeldAsOwned' /\ InFlightHasLiveOwner' /\ OwnerIsAsked'
  BY <1>1, <1>2 DEF IInv, HandedOnce, RequestedOnce, HeldAsOwned, InFlightHasLiveOwner, OwnerIsAsked
<1> QED
  BY <1>3, <1>4, <1>5 DEF IInv

(* The removal of a connection queues what was in flight on it; nothing of *)
(* the other connections changes.                                          *)
LEMMA UnregisterStep ==
  ASSUME TypeOK, IInv, NEW d \in Daemons, Unregister(d)
  PROVE  TypeOK' /\ IInv'
<1> DEFINE mine == {a \in Actions : action[a].owner = d /\ action[a].status \in InFlight}
           task == Task("requeue", d, "write", mine)
<1>1. /\ d \in closing /\ closing' = closing \ {d}
      /\ conns' = Without(d)
      /\ action' = [a \in Actions |-> IF a \in mine THEN With("queued", NoPeer) ELSE action[a]]
      /\ held' = {h \in held : h[1] # d}
      /\ due' = (IF mine = {} THEN due ELSE due \cup {task})
      /\ UNCHANGED <<used, requests, disk, accepted, faults>>
  BY DEF Unregister
<1>2. /\ task \in Tasks /\ task.as = mine /\ task.to = NoPeer /\ ~Handing(task)
      /\ task.step = "write"
  BY DEF Task, Tasks, Kinds, Steps, Handing
<1>3. \A a \in Actions : a \in mine <=> action[a].owner = d
  BY BoundsAssumption DEF IInv, InFlightHasLiveOwner
<1>4. mine \subseteq Actions
  OBVIOUS
<1> HIDE DEF task, mine
<1>5. d \in Live
  BY <1>1 DEF TypeOK
<1>6. conns' \in Seq(Daemons) /\ Live' = Live \ {d} /\ ListedOnce'
  BY <1>1, <1>5, WithoutFacts DEF IInv
<1>7. NoPeer \notin Live /\ Live \subseteq Daemons
  BY BoundsAssumption DEF TypeOK
<1>8. /\ \A a \in mine : action'[a].status = "queued" /\ action'[a].owner = NoPeer
      /\ \A a \in Actions \ mine : action'[a] = action[a]
      /\ action' \in [Actions -> [status : Statuses, owner : Daemons \cup {NoPeer}]]
  BY <1>1, <1>4 DEF TypeOK, With, Statuses
<1>9. \A t \in due : t \in Tasks /\ t.as \subseteq Actions
  BY DEF TypeOK, Tasks
<1>10. due \subseteq due' /\ \A t \in due' : t \in due \/ t = task
  BY <1>1
<1>11. TypeOK'
  BY <1>1, <1>2, <1>6, <1>8, <1>10 DEF TypeOK
<1>12. NamesAreUsed'
  BY <1>1, <1>2, <1>10 DEF IInv, NamesAreUsed
<1>13. TasksAreAboutActions'
  <2>1. \A a \in mine : action[a].status # "absent"
    BY <1>3, <1>4, <1>7, <1>5 DEF IInv, InFlightHasLiveOwner, InFlight
  <2>2. \A a \in Actions : action[a].status # "absent" => action'[a].status # "absent"
    BY <1>8
  <2>3. \A a \in task.as : action'[a].status # "absent"
    BY <1>2, <1>8
  <2>4. disk' = disk
    BY <1>1
  <2> QED
    BY <1>2, <1>9, <1>10, <2>2, <2>3, <2>4 DEF IInv, TasksAreAboutActions
<1>14. HandedOnce'
  <2> SUFFICES ASSUME NEW t \in due', t.to \in Live', NEW a \in t.as
               PROVE  /\ action'[a].status = "dispatched" /\ action'[a].owner = t.to
                      /\ <<t.to, a>> \notin requests'
                      /\ \A h \in held' : h[1] # t.to \/ h[2] # a
                      /\ \A u \in due' : u.to = t.to /\ a \in u.as => u = t
    BY DEF HandedOnce
  <2>1. t \in due /\ t.to \in Live /\ t.to # d /\ t.to # NoPeer /\ a \in Actions
    BY <1>2, <1>6, <1>7, <1>9, <1>10
  <2>2. /\ action[a].status = "dispatched" /\ action[a].owner = t.to
        /\ <<t.to, a>> \notin requests
        /\ \A h \in held : h[1] # t.to \/ h[2] # a
        /\ \A u \in due : u.to = t.to /\ a \in u.as => u = t
    BY <2>1 DEF IInv, HandedOnce
  <2>3. action'[a] = action[a]
    BY <2>1, <2>2, <1>3, <1>8
  <2> QED
    BY <2>1, <2>2, <2>3, <1>1, <1>2, <1>10
<1>15. RequestedOnce'
  <2> SUFFICES ASSUME NEW r \in requests, r[1] \in Live, r[1] # d
               PROVE  /\ action'[r[2]].status = "dispatched" /\ action'[r[2]].owner = r[1]
                      /\ \A h \in held' : h[1] # r[1] \/ h[2] # r[2]
    BY <1>1, <1>6 DEF RequestedOnce
  <2>1. /\ action[r[2]].status = "dispatched" /\ action[r[2]].owner = r[1]
        /\ \A h \in held : h[1] # r[1] \/ h[2] # r[2]
    BY DEF IInv, RequestedOnce
  <2>2. r[2] \in Actions
    BY DEF TypeOK
  <2> QED
    BY <2>1, <2>2, <1>1, <1>3, <1>8
<1>16. HeldAsOwned'
  <2> SUFFICES ASSUME NEW h \in held, h[1] \in Live, h[1] # d
               PROVE  /\ action'[h[2]].status = IF h[3] = "asked" THEN "dispatched" ELSE "executing"
                      /\ action'[h[2]].owner = h[1]
    BY <1>1, <1>6 DEF HeldAsOwned
  <2>1. /\ action[h[2]].status = IF h[3] = "asked" THEN "dispatched" ELSE "executing"
        /\ action[h[2]].owner = h[1]
    BY DEF IInv, HeldAsOwned
  <2>2. h[2] \in Actions
    BY DEF TypeOK
  <2> QED
    BY <2>1, <2>2, <1>3, <1>8
<1>17. InFlightHasLiveOwner'
  BY <1>3, <1>4, <1>6, <1>8 DEF IInv, InFlightHasLiveOwner, InFlight
<1>18. OwnerIsAsked'
  <2> SUFFICES ASSUME NEW a \in Actions, action'[a].status = "dispatched"
               PROVE  LET e == action'[a].owner IN
                        \/ e \in closing' \/ <<e, a>> \in requests' \/ <<e, a, "asked">> \in held'
                        \/ \E t \in due' : t.to = e /\ a \in t.as
    BY DEF OwnerIsAsked
  <2>1. a \notin mine /\ action'[a] = action[a] /\ action[a].owner # d
    BY <1>3, <1>8
  <2>2. LET e == action[a].owner IN
          \/ e \in closing \/ <<e, a>> \in requests \/ <<e, a, "asked">> \in held
          \/ \E t \in due : t.to = e /\ a \in t.as
    BY <2>1 DEF IInv, OwnerIsAsked
  <2> QED
    BY <2>1, <2>2, <1>1, <1>10
<1>19. AcceptedSurvives' /\ AcceptedIsStored'
  BY <1>1, <1>8 DEF IInv, AcceptedSurvives, AcceptedIsStored, TypeOK
<1> QED
  BY <1>6, <1>11, <1>12, <1>13, <1>14, <1>15, <1>16, <1>17, <1>18, <1>19 DEF IInv

-----------------------------------------------------------------------------
(* A handler that hands nothing over may go on, or end, without any        *)
(* connection or action being touched.                                     *)
LEMMA MovedOn ==
  ASSUME TypeOK, IInv, NEW t \in due, ~Handing(t),
         due \ {t} \subseteq due',
         \A u \in due' \ due : u \in Tasks /\ ~Handing(u) /\ u.to = NoPeer /\ u.as \subseteq t.as,
         UNCHANGED <<conns, used, closing, action, requests, held>>
  PROVE  /\ Live' = Live /\ due' \subseteq Tasks
         /\ ListedOnce' /\ NamesAreUsed' /\ HandedOnce' /\ RequestedOnce' /\ HeldAsOwned'
         /\ InFlightHasLiveOwner' /\ OwnerIsAsked'
         /\ \A u \in due' : /\ u.to # NoPeer <=> Handing(u)
                            /\ \A a \in u.as : action'[a].status # "absent"
<1>1. t.to = NoPeer
  BY DEF IInv, TasksAreAboutActions
<1>2. Live' = Live /\ NoPeer \notin Live /\ due' \subseteq Tasks
  BY BoundsAssumption DEF Live, TypeOK
<1>3. ListedOnce' /\ NamesAreUsed'
  BY <1>1 DEF IInv, ListedOnce, NamesAreUsed
<1>4. HandedOnce'
  BY <1>1, <1>2 DEF IInv, HandedOnce
<1>5. RequestedOnce' /\ HeldAsOwned' /\ InFlightHasLiveOwner'
  BY <1>2 DEF IInv, RequestedOnce, HeldAsOwned, InFlightHasLiveOwner
<1>6. OwnerIsAsked'
  <2> SUFFICES ASSUME NEW a \in Actions, action[a].status = "dispatched"
               PROVE  LET e == action[a].owner IN
                        \/ e \in closing \/ <<e, a>> \in requests \/ <<e, a, "asked">> \in held
                        \/ \E u \in due' : u.to = e /\ a \in u.as
    BY DEF OwnerIsAsked
  <2>1. action[a].owner # NoPeer
    BY <1>2 DEF IInv, InFlightHasLiveOwner, InFlight
  <2> QED
    BY <2>1, <1>1 DEF IInv, OwnerIsAsked
<1>7. \A u \in due' : /\ u.to # NoPeer <=> Handing(u)
                      /\ \A a \in u.as : action'[a].status # "absent"
  BY <1>1 DEF IInv, TasksAreAboutActions
<1> QED
  BY <1>2, <1>3, <1>4, <1>5, <1>6, <1>7

LEMMA WrittenFacts ==
  ASSUME TypeOK, IInv, NEW t \in due, t.step \in {"write", "announce"}
  PROVE  /\ ~Handing(t) /\ Written(t) \in Tasks /\ ~Handing(Written(t))
         /\ Written(t).to = NoPeer /\ Written(t).as \subseteq t.as
         /\ Written(t).kind = t.kind
         /\ t.step = "write" => Written(t).as = t.as
         /\ Written(t).step = "announce" => t.step = "write"
<1>1. t \in Tasks /\ ~Handing(t)
  BY DEF TypeOK, Handing
<1>2. t.to = NoPeer
  BY <1>1 DEF IInv, TasksAreAboutActions
<1> QED
  BY <1>1, <1>2 DEF Written, Tasks, Steps, Handing

(* A write stores no status that means an action was never submitted.      *)
LEMMA WriteStep ==
  ASSUME TypeOK, IInv, NEW t \in due, Write(t)
  PROVE  TypeOK' /\ IInv'
<1>1. /\ t.step = "write" /\ disk' = Stored(t.as, WrittenBy(t.kind))
      /\ due' = (due \ {t}) \cup {Written(t)}
      /\ UNCHANGED <<conns, used, closing, action, requests, held, accepted, faults>>
  BY DEF Write
<1>2. /\ disk' \in [Actions -> Statuses]
      /\ \A a \in Actions : disk[a] # "absent" \/ a \in t.as => disk'[a] # "absent"
  BY <1>1 DEF Stored, WrittenBy, TypeOK, Statuses
<1>3. /\ Live' = Live /\ due' \subseteq Tasks
      /\ ListedOnce' /\ NamesAreUsed' /\ HandedOnce' /\ RequestedOnce' /\ HeldAsOwned'
      /\ InFlightHasLiveOwner' /\ OwnerIsAsked'
      /\ \A u \in due' : /\ u.to # NoPeer <=> Handing(u)
                         /\ \A a \in u.as : action'[a].status # "absent"
  BY <1>1, WrittenFacts, MovedOn
<1>4. TypeOK'
  BY <1>1, <1>2, <1>3 DEF TypeOK
<1>5. TasksAreAboutActions'
  <2> SUFFICES ASSUME NEW u \in due', u.kind = "submit", u.step = "announce", NEW a \in u.as
               PROVE  disk'[a] # "absent"
    BY <1>3 DEF TasksAreAboutActions
  <2>1. a \in Actions
    BY <1>3 DEF Tasks
  <2>2. CASE u \in due
    BY <2>1, <2>2, <1>2 DEF IInv, TasksAreAboutActions
  <2>3. CASE u = Written(t)
    BY <2>1, <2>3, <1>1, <1>2, WrittenFacts
  <2> QED
    BY <2>2, <2>3, <1>1
<1>6. AcceptedSurvives' /\ AcceptedIsStored'
  BY <1>1, <1>2 DEF IInv, AcceptedSurvives, AcceptedIsStored, TypeOK
<1> QED
  BY <1>3, <1>4, <1>5, <1>6 DEF IInv

(* What ends with a failed write is not answered with success.             *)
LEMMA WriteFailsStep ==
  ASSUME TypeOK, IInv, NEW t \in due, WriteFails(t)
  PROVE  TypeOK' /\ IInv'
<1> DEFINE left == IF t.kind = "requeue" THEN {Written(t)} ELSE {}
<1>1. /\ faults < MaxFaults /\ faults' = faults + 1
      /\ t.step \in {"write", "announce"}
      /\ due' = (due \ {t}) \cup left
      /\ UNCHANGED <<conns, used, closing, action, requests, held, disk, accepted>>
  BY DEF WriteFails
<1>2. \A u \in left : /\ u \in Tasks /\ ~Handing(u) /\ u.to = NoPeer /\ u.as \subseteq t.as
                      /\ u.kind = "requeue"
  BY <1>1, WrittenFacts
<1> HIDE DEF left
<1>3. /\ Live' = Live /\ due' \subseteq Tasks
      /\ ListedOnce' /\ NamesAreUsed' /\ HandedOnce' /\ RequestedOnce' /\ HeldAsOwned'
      /\ InFlightHasLiveOwner' /\ OwnerIsAsked'
      /\ \A u \in due' : /\ u.to # NoPeer <=> Handing(u)
                         /\ \A a \in u.as : action'[a].status # "absent"
  BY <1>1, <1>2, WrittenFacts, MovedOn
<1>4. TypeOK'
  BY <1>1, <1>3, BoundsAssumption DEF TypeOK
<1>5. TasksAreAboutActions'
  BY <1>1, <1>2, <1>3 DEF IInv, TasksAreAboutActions
<1>6. AcceptedSurvives' /\ AcceptedIsStored'
  BY <1>1 DEF IInv, AcceptedSurvives, AcceptedIsStored
<1> QED
  BY <1>3, <1>4, <1>5, <1>6 DEF IInv

(* What a submission announces is in the store.                            *)
LEMMA AnnounceStep ==
  ASSUME TypeOK, IInv, NEW t \in due, Announce(t)
  PROVE  TypeOK' /\ IInv'
<1>1. /\ t.step = "announce"
      /\ accepted' = (IF t.kind = "submit" THEN accepted \cup t.as ELSE accepted)
      /\ due' = (due \ {t}) \cup {Written(t)}
      /\ UNCHANGED <<conns, used, closing, action, requests, held, disk, faults>>
  BY DEF Announce
<1>2. /\ Live' = Live /\ due' \subseteq Tasks
      /\ ListedOnce' /\ NamesAreUsed' /\ HandedOnce' /\ RequestedOnce' /\ HeldAsOwned'
      /\ InFlightHasLiveOwner' /\ OwnerIsAsked'
      /\ \A u \in due' : /\ u.to # NoPeer <=> Handing(u)
                         /\ \A a \in u.as : action'[a].status # "absent"
  BY <1>1, WrittenFacts, MovedOn
<1>3. t.as \subseteq Actions
  BY DEF TypeOK, Tasks
<1>4. TypeOK'
  BY <1>1, <1>2, <1>3 DEF TypeOK
<1>5. TasksAreAboutActions'
  BY <1>1, <1>2, WrittenFacts DEF IInv, TasksAreAboutActions
<1>6. AcceptedSurvives' /\ AcceptedIsStored'
  BY <1>1 DEF IInv, AcceptedSurvives, AcceptedIsStored, TasksAreAboutActions
<1> QED
  BY <1>2, <1>4, <1>5, <1>6 DEF IInv

LEMMA DispatchNothingStep ==
  ASSUME TypeOK, IInv, NEW t \in due, DispatchNothing(t)
  PROVE  TypeOK' /\ IInv'
<1>1. /\ t.step = "dispatch" /\ due' = due \ {t}
      /\ UNCHANGED <<conns, used, closing, action, requests, held, disk, accepted, faults>>
  BY DEF DispatchNothing
<1>2. ~Handing(t)
  BY <1>1 DEF Handing
<1>3. /\ Live' = Live /\ due' \subseteq Tasks
      /\ ListedOnce' /\ NamesAreUsed' /\ HandedOnce' /\ RequestedOnce' /\ HeldAsOwned'
      /\ InFlightHasLiveOwner' /\ OwnerIsAsked'
      /\ \A u \in due' : /\ u.to # NoPeer <=> Handing(u)
                         /\ \A a \in u.as : action'[a].status # "absent"
  BY <1>1, <1>2, MovedOn
<1>4. TypeOK'
  BY <1>1, <1>3 DEF TypeOK
<1>5. TasksAreAboutActions'
  BY <1>1, <1>3 DEF IInv, TasksAreAboutActions
<1>6. AcceptedSurvives' /\ AcceptedIsStored'
  BY <1>1 DEF IInv, AcceptedSurvives, AcceptedIsStored
<1> QED
  BY <1>3, <1>4, <1>5, <1>6 DEF IInv

(* A batch consists of queued actions, which nobody has.                   *)
LEMMA DispatchStep ==
  ASSUME TypeOK, IInv, NEW t \in due, Dispatch(t)
  PROVE  TypeOK' /\ IInv'
<1>1. PICK as \in Batches \ {{}} :
        /\ action' = [a \in Actions |->
                        IF a \in as THEN With("dispatched", Newest) ELSE action[a]]
        /\ due' = (due \ {t}) \cup
                    {[t EXCEPT !.step = "write requests", !.as = as, !.to = Newest]}
  BY DEF Dispatch
<1> DEFINE task == [t EXCEPT !.step = "write requests", !.as = as, !.to = Newest]
<1>2. /\ t.step = "dispatch" /\ conns # <<>>
      /\ UNCHANGED <<conns, used, closing, requests, held, disk, accepted, faults>>
  BY DEF Dispatch
<1>3. Newest \in Live /\ Newest \in Daemons /\ Newest \in used
  BY <1>2, NewestIsLive DEF TypeOK
<1>4. as \subseteq Actions /\ \A a \in as : action[a].status = "queued"
  BY <1>1 DEF Batches, InStatus
<1>5. /\ task \in Tasks /\ task.as = as /\ task.to = Newest /\ Handing(task)
      /\ task.step = "write requests"
  BY <1>3, <1>4 DEF TypeOK, Tasks, Steps, Handing
<1>6. \A u \in due' : (u \in due /\ u # t) \/ u = task
  BY <1>1
<1>14. task \in due' /\ \A u \in due : u # t => u \in due'
  BY <1>1
<1>15. due' \subseteq Tasks
  BY <1>5, <1>6 DEF TypeOK
<1> HIDE DEF task
<1>7. t.to = NoPeer
  BY <1>2 DEF IInv, TasksAreAboutActions, Handing
<1>8. /\ \A a \in as : action'[a].status = "dispatched" /\ action'[a].owner = Newest
      /\ \A a \in Actions \ as : action'[a] = action[a]
      /\ action' \in [Actions -> [status : Statuses, owner : Daemons \cup {NoPeer}]]
  BY <1>1, <1>3, <1>4 DEF TypeOK, With, Statuses
<1>9. Live' = Live /\ NoPeer \notin Live
  BY <1>2, BoundsAssumption DEF Live, TypeOK
<1>10. \A u \in due : u \in Tasks /\ u.as \subseteq Actions
  BY DEF TypeOK, Tasks
<1>11. \A u \in due : u.to \in Live => u.as \cap as = {}
  <2> SUFFICES ASSUME NEW u \in due, u.to \in Live, NEW a \in u.as, a \in as PROVE FALSE
    OBVIOUS
  <2>1. action[a].status = "dispatched"
    BY DEF IInv, HandedOnce
  <2> QED
    BY <2>1, <1>4
<1>12. \A r \in requests : r[1] \in Live => r[2] \notin as
  <2> SUFFICES ASSUME NEW r \in requests, r[1] \in Live, r[2] \in as PROVE FALSE
    OBVIOUS
  <2>1. action[r[2]].status = "dispatched"
    BY DEF IInv, RequestedOnce
  <2> QED
    BY <2>1, <1>4
<1>13. \A h \in held : h[1] \in Live => h[2] \notin as
  <2> SUFFICES ASSUME NEW h \in held, h[1] \in Live, h[2] \in as PROVE FALSE
    OBVIOUS
  <2>1. action[h[2]].status # "queued"
    BY DEF IInv, HeldAsOwned
  <2> QED
    BY <2>1, <1>4
<1>16. TypeOK'
  BY <1>2, <1>8, <1>9, <1>15 DEF TypeOK
<1>17. ListedOnce' /\ NamesAreUsed'
  BY <1>2, <1>3, <1>5, <1>6 DEF IInv, ListedOnce, NamesAreUsed
<1>18. TasksAreAboutActions'
  <2>1. Newest # NoPeer
    BY <1>3, BoundsAssumption
  <2>2. \A a \in Actions : action[a].status # "absent" => action'[a].status # "absent"
    BY <1>8
  <2>3. \A a \in task.as : action'[a].status # "absent"
    BY <1>5, <1>8
  <2>4. disk' = disk
    BY <1>2
  <2> QED
    BY <2>1, <2>2, <2>3, <2>4, <1>5, <1>6, <1>10 DEF IInv, TasksAreAboutActions
<1>19. HandedOnce'
  <2> SUFFICES ASSUME NEW u \in due', u.to \in Live, NEW a \in u.as
               PROVE  /\ action'[a].status = "dispatched" /\ action'[a].owner = u.to
                      /\ <<u.to, a>> \notin requests
                      /\ \A h \in held : h[1] # u.to \/ h[2] # a
                      /\ \A v \in due' : v.to = u.to /\ a \in v.as => v = u
    BY <1>2, <1>9 DEF HandedOnce
  <2>1. CASE u = task
    <3>1. <<u.to, a>> \notin requests
      <4>1. <<u.to, a>>[1] = u.to /\ <<u.to, a>>[2] = a
        OBVIOUS
      <4> QED
        BY <4>1, <2>1, <1>5, <1>12
    <3> QED
      BY <3>1, <2>1, <1>5, <1>6, <1>8, <1>11, <1>13
  <2>2. CASE u \in due /\ u # t
    <3>1. /\ action[a].status = "dispatched" /\ action[a].owner = u.to
          /\ <<u.to, a>> \notin requests
          /\ \A h \in held : h[1] # u.to \/ h[2] # a
          /\ \A v \in due : v.to = u.to /\ a \in v.as => v = u
      BY <2>2 DEF IInv, HandedOnce
    <3>2. a \in Actions \ as
      BY <2>2, <1>10, <1>11
    <3> QED
      BY <3>1, <3>2, <1>5, <1>6, <1>8
  <2> QED
    BY <2>1, <2>2, <1>6
<1>20. RequestedOnce'
  <2>1. \A r \in requests : r[2] \in Actions
    BY DEF TypeOK
  <2> QED
    BY <2>1, <1>2, <1>8, <1>9, <1>12 DEF IInv, RequestedOnce
<1>21. HeldAsOwned'
  <2>1. \A h \in held : h[2] \in Actions
    BY DEF TypeOK
  <2>2. \A h \in held : h[1] \in Live => action'[h[2]] = action[h[2]]
    BY <2>1, <1>8, <1>13
  <2> QED
    BY <2>2, <1>2, <1>9 DEF IInv, HeldAsOwned
<1>22. InFlightHasLiveOwner'
  BY <1>3, <1>4, <1>8, <1>9 DEF IInv, InFlightHasLiveOwner, InFlight
<1>23. OwnerIsAsked'
  <2> SUFFICES ASSUME NEW a \in Actions, action'[a].status = "dispatched"
               PROVE  LET e == action'[a].owner IN
                        \/ e \in closing \/ <<e, a>> \in requests \/ <<e, a, "asked">> \in held
                        \/ \E u \in due' : u.to = e /\ a \in u.as
    BY <1>2 DEF OwnerIsAsked
  <2>1. CASE a \in as
    BY <2>1, <1>5, <1>8, <1>14
  <2>2. CASE a \notin as
    <3>1. action'[a] = action[a] /\ action[a].owner # NoPeer
      BY <2>2, <1>8, <1>9 DEF IInv, InFlightHasLiveOwner, InFlight
    <3> QED
      BY <3>1, <1>7, <1>14 DEF IInv, OwnerIsAsked
  <2> QED
    BY <2>1, <2>2
<1>24. AcceptedSurvives' /\ AcceptedIsStored'
  BY <1>2, <1>8 DEF IInv, AcceptedSurvives, AcceptedIsStored, TypeOK
<1> QED
  BY <1>16, <1>17, <1>18, <1>19, <1>20, <1>21, <1>22, <1>23, <1>24 DEF IInv

(* The handler keeps what it hands over while it writes it.                *)
LEMMA WriteRequestsStep ==
  ASSUME TypeOK, IInv, NEW t \in due, WriteRequests(t)
  PROVE  TypeOK' /\ IInv'
<1> DEFINE task == [t EXCEPT !.step = "request"]
<1>1. /\ t.step = "write requests" /\ t \in Tasks
      /\ due' = (due \ {t}) \cup {task}
      /\ \/ disk' = Stored(t.as, "dispatched") /\ UNCHANGED faults
         \/ faults < MaxFaults /\ faults' = faults + 1 /\ UNCHANGED disk
      /\ UNCHANGED <<conns, used, closing, action, requests, held, accepted>>
  BY DEF WriteRequests, TypeOK
<1>2. /\ task \in Tasks /\ task.as = t.as /\ task.to = t.to /\ Handing(task)
      /\ task.step = "request" /\ Handing(t)
  BY <1>1 DEF Tasks, Steps, Handing
<1>3. \A u \in due' : (u \in due /\ u # t) \/ u = task
  BY <1>1
<1>4. task \in due' /\ \A u \in due : u # t => u \in due'
  BY <1>1
<1> HIDE DEF task
<1>5. /\ disk' \in [Actions -> Statuses]
      /\ \A a \in Actions : disk[a] # "absent" => disk'[a] # "absent"
  BY <1>1 DEF Stored, TypeOK, Statuses
<1>6. Live' = Live /\ NoPeer \notin Live
  BY <1>1, BoundsAssumption DEF Live, TypeOK
<1>7. TypeOK'
  <2>1. due' \subseteq Tasks
    BY <1>2, <1>3 DEF TypeOK
  <2>2. faults' \in 0..MaxFaults
    <3>1. faults' = faults \/ (faults < MaxFaults /\ faults' = faults + 1)
      BY DEF WriteRequests
    <3> QED
      BY <3>1, BoundsAssumption DEF TypeOK
  <2> QED
    BY <2>1, <2>2, <1>1, <1>5, <1>6 DEF TypeOK
<1>8. ListedOnce' /\ NamesAreUsed'
  BY <1>1, <1>2, <1>3 DEF IInv, ListedOnce, NamesAreUsed
<1>9. \A u \in due : u.as \subseteq Actions
  BY DEF TypeOK, Tasks
<1>10. TasksAreAboutActions'
  BY <1>1, <1>2, <1>3, <1>5, <1>9 DEF IInv, TasksAreAboutActions
<1>11. HandedOnce'
  <2> SUFFICES ASSUME NEW u \in due', u.to \in Live, NEW a \in u.as
               PROVE  /\ action[a].status = "dispatched" /\ action[a].owner = u.to
                      /\ <<u.to, a>> \notin requests
                      /\ \A h \in held : h[1] # u.to \/ h[2] # a
                      /\ \A v \in due' : v.to = u.to /\ a \in v.as => v = u
    BY <1>1, <1>6 DEF HandedOnce
  <2>1. PICK w \in due : w.to = u.to /\ w.as = u.as /\ (u = task <=> w = t) /\ (u # task => w = u)
    BY <1>2, <1>3
  <2>2. /\ action[a].status = "dispatched" /\ action[a].owner = w.to
        /\ <<w.to, a>> \notin requests
        /\ \A h \in held : h[1] # w.to \/ h[2] # a
        /\ \A v \in due : v.to = w.to /\ a \in v.as => v = w
    BY <2>1 DEF IInv, HandedOnce
  <2>3. ASSUME NEW v \in due', v.to = u.to, a \in v.as PROVE v = u
    <3>1. CASE v = task
      BY <3>1, <2>1, <2>2, <2>3, <1>2
    <3>2. CASE v \in due /\ v # t
      BY <3>2, <2>1, <2>2, <2>3
    <3> QED
      BY <3>1, <3>2, <1>3
  <2> QED
    BY <2>1, <2>2, <2>3
<1>12. RequestedOnce' /\ HeldAsOwned' /\ InFlightHasLiveOwner'
  BY <1>1, <1>6 DEF IInv, RequestedOnce, HeldAsOwned, InFlightHasLiveOwner
<1>13. OwnerIsAsked'
  <2> SUFFICES ASSUME NEW a \in Actions, action[a].status = "dispatched"
               PROVE  LET e == action[a].owner IN
                        \/ e \in closing \/ <<e, a>> \in requests \/ <<e, a, "asked">> \in held
                        \/ \E u \in due' : u.to = e /\ a \in u.as
    BY <1>1 DEF OwnerIsAsked
  <2> QED
    BY <1>2, <1>4 DEF IInv, OwnerIsAsked
<1>14. AcceptedSurvives' /\ AcceptedIsStored'
  BY <1>1, <1>5 DEF IInv, AcceptedSurvives, AcceptedIsStored, TypeOK
<1> QED
  BY <1>7, <1>8, <1>10, <1>11, <1>12, <1>13, <1>14 DEF IInv

(* What the handler had is queued for the connection instead.              *)
LEMMA RequestStep ==
  ASSUME TypeOK, IInv, NEW t \in due, Request(t)
  PROVE  TypeOK' /\ IInv'
<1>1. /\ t.step = "request" /\ t \in Tasks /\ due' = due \ {t}
      /\ requests' = requests \cup {<<t.to, a>> : a \in t.as}
      /\ UNCHANGED <<conns, used, closing, action, held, disk, accepted, faults>>
  BY DEF Request, TypeOK
<1>2. t.to \in Daemons /\ t.to \in used /\ t.as \subseteq Actions
  BY <1>1 DEF IInv, TasksAreAboutActions, NamesAreUsed, Handing, Tasks
<1>3. Live' = Live /\ NoPeer \notin Live
  BY <1>1, BoundsAssumption DEF Live, TypeOK
<1>4. \A r \in requests' : r \in requests \/ (r[1] = t.to /\ r[2] \in t.as /\ r = <<r[1], r[2]>>)
  BY <1>1
<1>5. TypeOK'
  BY <1>1, <1>2, <1>3 DEF TypeOK
<1>6. ListedOnce' /\ NamesAreUsed' /\ TasksAreAboutActions'
  BY <1>1, <1>2, <1>4 DEF IInv, ListedOnce, NamesAreUsed, TasksAreAboutActions
<1>7. HandedOnce'
  <2> SUFFICES ASSUME NEW u \in due, u # t, u.to \in Live, NEW a \in u.as
               PROVE  <<u.to, a>> \notin requests'
    BY <1>1, <1>3 DEF IInv, HandedOnce
  <2>1. <<u.to, a>> \notin requests /\ (t.to = u.to /\ a \in t.as => t = u)
    BY DEF IInv, HandedOnce
  <2> QED
    BY <2>1, <1>1
<1>8. RequestedOnce'
  <2> SUFFICES ASSUME NEW r \in requests', r[1] \in Live
               PROVE  /\ action[r[2]].status = "dispatched" /\ action[r[2]].owner = r[1]
                      /\ \A h \in held : h[1] # r[1] \/ h[2] # r[2]
    BY <1>1, <1>3 DEF RequestedOnce
  <2> QED
    BY <1>4 DEF IInv, RequestedOnce, HandedOnce
<1>9. HeldAsOwned' /\ InFlightHasLiveOwner' /\ AcceptedSurvives' /\ AcceptedIsStored'
  BY <1>1, <1>3 DEF IInv, HeldAsOwned, InFlightHasLiveOwner, AcceptedSurvives, AcceptedIsStored
<1>10. OwnerIsAsked'
  <2> SUFFICES ASSUME NEW a \in Actions, action[a].status = "dispatched"
               PROVE  LET e == action[a].owner IN
                        \/ e \in closing \/ <<e, a>> \in requests' \/ <<e, a, "asked">> \in held
                        \/ \E u \in due' : u.to = e /\ a \in u.as
    BY <1>1 DEF OwnerIsAsked
  <2> QED
    BY <1>1 DEF IInv, OwnerIsAsked
<1> QED
  BY <1>5, <1>6, <1>7, <1>8, <1>9, <1>10 DEF IInv

-----------------------------------------------------------------------------
LEMMA DeliverStep ==
  ASSUME TypeOK, IInv, NEW d \in Daemons, NEW a \in Actions, Deliver(d, a)
  PROVE  TypeOK' /\ IInv'
<1>1. /\ <<d, a>> \in requests /\ d \in Live
      /\ requests' = requests \ {<<d, a>>}
      /\ held' = held \cup {<<d, a, "asked">>}
      /\ UNCHANGED <<conns, used, closing, action, due, disk, accepted, faults>>
  BY DEF Deliver
<1>2. Live' = Live /\ NoPeer \notin Live
  BY <1>1, BoundsAssumption DEF Live, TypeOK
<1>3. /\ <<d, a>>[1] = d /\ <<d, a>>[2] = a
      /\ <<d, a, "asked">>[1] = d /\ <<d, a, "asked">>[2] = a /\ <<d, a, "asked">>[3] = "asked"
  OBVIOUS
<1>4. action[a].status = "dispatched" /\ action[a].owner = d
  BY <1>1, <1>3 DEF IInv, RequestedOnce
<1>5. \A h \in held' : h \in held \/ (h[1] = d /\ h[2] = a /\ h[3] = "asked")
  BY <1>1
<1>6. \A r \in requests' : r \in requests /\ r = <<r[1], r[2]>> /\ (r[1] # d \/ r[2] # a)
  BY <1>1 DEF TypeOK
<1>7. TypeOK'
  BY <1>1, <1>2 DEF TypeOK
<1>8. ListedOnce' /\ NamesAreUsed' /\ TasksAreAboutActions'
  BY <1>1, <1>2, <1>5, <1>6 DEF IInv, ListedOnce, NamesAreUsed, TasksAreAboutActions, TypeOK
<1>9. HandedOnce'
  <2>1. \A t \in due : t.to \in Live => \A b \in t.as :
          (\A h \in held' : h[1] # t.to \/ h[2] # b)
    <3> SUFFICES ASSUME NEW t \in due, t.to \in Live, NEW b \in t.as, NEW h \in held',
                        h[1] = t.to, h[2] = b
                 PROVE  FALSE
      OBVIOUS
    <3>1. <<t.to, b>> \notin requests /\ \A g \in held : g[1] # t.to \/ g[2] # b
      BY DEF IInv, HandedOnce
    <3> QED
      BY <3>1, <1>1, <1>5
  <2> QED
    BY <2>1, <1>1, <1>2 DEF IInv, HandedOnce
<1>10. RequestedOnce'
  BY <1>1, <1>2, <1>5, <1>6 DEF IInv, RequestedOnce
<1>11. HeldAsOwned'
  BY <1>1, <1>2, <1>4, <1>5 DEF IInv, HeldAsOwned
<1>12. OwnerIsAsked'
  <2> SUFFICES ASSUME NEW b \in Actions, action[b].status = "dispatched"
               PROVE  LET e == action[b].owner IN
                        \/ e \in closing \/ <<e, b>> \in requests' \/ <<e, b, "asked">> \in held'
                        \/ \E u \in due : u.to = e /\ b \in u.as
    BY <1>1 DEF OwnerIsAsked
  <2> DEFINE e == action[b].owner
  <2>1. \/ e \in closing \/ <<e, b>> \in requests \/ <<e, b, "asked">> \in held
        \/ \E u \in due : u.to = e /\ b \in u.as
    BY DEF IInv, OwnerIsAsked
  <2>2. <<e, b>> \in requests => <<e, b>> \in requests' \/ <<e, b, "asked">> \in held'
    <3> HIDE DEF e
    <3>1. CASE e = d /\ b = a
      BY <3>1, <1>1
    <3>2. CASE ~(e = d /\ b = a)
      <4>1. <<e, b>> # <<d, a>>
        BY <3>2
      <4> QED
        BY <4>1, <1>1
    <3> QED
      BY <3>1, <3>2
  <2> QED
    BY <2>1, <2>2, <1>1
<1>13. InFlightHasLiveOwner' /\ AcceptedSurvives' /\ AcceptedIsStored'
  BY <1>1, <1>2 DEF IInv, InFlightHasLiveOwner, AcceptedSurvives, AcceptedIsStored
<1> QED
  BY <1>7, <1>8, <1>9, <1>10, <1>11, <1>12, <1>13 DEF IInv

(* A request that is lost starts the removal of its connection.            *)
LEMMA LoseStep ==
  ASSUME TypeOK, IInv, NEW d \in Daemons, NEW a \in Actions, Lose(d, a)
  PROVE  TypeOK' /\ IInv'
<1>1. /\ <<d, a>> \in requests
      /\ requests' = requests \ {<<d, a>>}
      /\ closing' = closing \cup ({d} \cap Live)
      /\ UNCHANGED <<conns, used, action, due, held, disk, accepted, faults>>
  BY DEF Lose
<1>2. Live' = Live
  BY <1>1 DEF Live
<1>3. TypeOK'
  BY <1>1, <1>2 DEF TypeOK
<1>4. ListedOnce' /\ NamesAreUsed' /\ TasksAreAboutActions'
  BY <1>1 DEF IInv, ListedOnce, NamesAreUsed, TasksAreAboutActions
<1>5. HandedOnce' /\ RequestedOnce' /\ HeldAsOwned'
  BY <1>1, <1>2 DEF IInv, HandedOnce, RequestedOnce, HeldAsOwned
<1>6. OwnerIsAsked'
  <2> SUFFICES ASSUME NEW b \in Actions, action[b].status = "dispatched"
               PROVE  LET e == action[b].owner IN
                        \/ e \in closing' \/ <<e, b>> \in requests' \/ <<e, b, "asked">> \in held
                        \/ \E u \in due : u.to = e /\ b \in u.as
    BY <1>1 DEF OwnerIsAsked
  <2>1. action[b].owner \in Live
    BY DEF IInv, InFlightHasLiveOwner, InFlight
  <2>2. CASE action[b].owner = d
    BY <2>1, <2>2, <1>1 DEF IInv, OwnerIsAsked
  <2>3. CASE action[b].owner # d
    BY <2>3, <1>1 DEF IInv, OwnerIsAsked
  <2> QED
    BY <2>2, <2>3
<1>7. InFlightHasLiveOwner' /\ AcceptedSurvives' /\ AcceptedIsStored'
  BY <1>1, <1>2 DEF IInv, InFlightHasLiveOwner, AcceptedSurvives, AcceptedIsStored
<1> QED
  BY <1>3, <1>4, <1>5, <1>6, <1>7 DEF IInv

(* A relay that starts has the actions it stored, none of them in flight.  *)
LEMMA RestartStep ==
  ASSUME TypeOK, IInv, Restart
  PROVE  TypeOK' /\ IInv'
<1>1. /\ faults < MaxFaults /\ faults' = faults + 1
      /\ action' = [a \in Actions |-> With(Normalized(disk[a]), NoPeer)]
      /\ disk' = [a \in Actions |-> Normalized(disk[a])]
      /\ conns' = <<>> /\ used' = {} /\ closing' = {} /\ due' = {} /\ requests' = {} /\ held' = {}
      /\ UNCHANGED accepted
  BY DEF Restart
<1>2. \A a \in Actions :
        /\ Normalized(disk[a]) \in Statuses \ InFlight
        /\ disk[a] # "absent" => Normalized(disk[a]) # "absent"
  BY DEF TypeOK, Normalized, Statuses, InFlight
<1>3. /\ \A a \in Actions : /\ action'[a].status = Normalized(disk[a])
                            /\ action'[a].owner = NoPeer
                            /\ disk'[a] = Normalized(disk[a])
      /\ action' \in [Actions -> [status : Statuses, owner : Daemons \cup {NoPeer}]]
      /\ disk' \in [Actions -> Statuses]
  BY <1>1, <1>2 DEF With
<1>4. Live' = {} /\ <<>> \in Seq(Daemons)
  BY <1>1 DEF Live, ToSet
<1>5. TypeOK'
  BY <1>1, <1>3, <1>4, BoundsAssumption DEF TypeOK
<1>6. InFlightHasLiveOwner' /\ OwnerIsAsked'
  BY <1>2, <1>3 DEF InFlightHasLiveOwner, OwnerIsAsked, InFlight
<1>7. AcceptedSurvives' /\ AcceptedIsStored'
  BY <1>1, <1>2, <1>3 DEF IInv, AcceptedSurvives, AcceptedIsStored, TypeOK
<1>8. /\ ListedOnce' /\ NamesAreUsed' /\ TasksAreAboutActions'
      /\ HandedOnce' /\ RequestedOnce' /\ HeldAsOwned'
  BY <1>1 DEF ListedOnce, NamesAreUsed, TasksAreAboutActions, HandedOnce, RequestedOnce, HeldAsOwned
<1> QED
  BY <1>5, <1>6, <1>7, <1>8 DEF IInv

-----------------------------------------------------------------------------
LEMMA Inductive == TypeOK /\ IInv /\ [Next]_vars => TypeOK' /\ IInv'
<1> SUFFICES ASSUME TypeOK, IInv, [Next]_vars PROVE TypeOK' /\ IInv'
  OBVIOUS
<1>1. ASSUME NEW d \in Daemons, Connect(d) \/ Close(d) \/ Unregister(d)
      PROVE  TypeOK' /\ IInv'
  BY <1>1, ConnectStep, CloseStep, UnregisterStep
<1>2. ASSUME NEW a \in Actions, Submit(a) \/ Resubmit(a)
      PROVE  TypeOK' /\ IInv'
  BY <1>2, SubmitStep, ResubmitStep
<1>3. ASSUME NEW d \in Daemons, NEW a \in Actions, NEW s \in {"executing", "ended"}, Report(d, a, s)
      PROVE  TypeOK' /\ IInv'
  BY <1>3, ReportStep
<1>4. ASSUME NEW t \in due, Finish(t)
      PROVE  TypeOK' /\ IInv'
  BY <1>4, WriteStep, WriteFailsStep, AnnounceStep, DispatchNothingStep, DispatchStep,
     WriteRequestsStep, RequestStep DEF Finish
<1>5. ASSUME NEW d \in Daemons, NEW a \in Actions, Deliver(d, a) \/ Lose(d, a)
      PROVE  TypeOK' /\ IInv'
  BY <1>5, DeliverStep, LoseStep
<1>6. ASSUME UNCHANGED vars
      PROVE  TypeOK' /\ IInv'
  <2>1. Live' = Live
    BY <1>6 DEF vars, Live
  <2>2. TypeOK'
    BY <1>6, <2>1 DEF vars, TypeOK
  <2>3. ListedOnce' /\ NamesAreUsed' /\ TasksAreAboutActions' /\ HandedOnce'
    BY <1>6, <2>1 DEF vars, IInv, ListedOnce, NamesAreUsed, TasksAreAboutActions, HandedOnce
  <2>4. /\ RequestedOnce' /\ HeldAsOwned' /\ InFlightHasLiveOwner'
        /\ OwnerIsAsked' /\ AcceptedSurvives' /\ AcceptedIsStored'
    BY <1>6, <2>1 DEF vars, IInv, RequestedOnce, HeldAsOwned, InFlightHasLiveOwner,
       OwnerIsAsked, AcceptedSurvives, AcceptedIsStored
  <2> QED
    BY <2>2, <2>3, <2>4 DEF IInv
<1> QED
  BY <1>1, <1>2, <1>3, <1>4, <1>5, <1>6, RestartStep DEF Next

LEMMA Always == Spec => [](TypeOK /\ IInv)
BY InitHolds, Inductive, PTL DEF Spec

(* Connections, actions and the handlers of RelayActions stay well formed. *)
THEOREM TypeCorrect == Spec => []TypeOK
BY Always, PTL

(* An action is in flight exactly as long as a live connection owns it,    *)
(* whatever is removed, restarted or late (unregister_peer, update_action, *)
(* dispatch_pending_actions, normalize_in_flight_actions).                 *)
THEOREM InFlightIsOwned == Spec => []InFlightHasLiveOwner
<1>1. IInv => InFlightHasLiveOwner
  BY DEF IInv
<1> QED
  BY <1>1, Always, PTL

(* No live connection has, or will get, an action another one owns: an     *)
(* action runs on one daemon at a time.                                    *)
THEOREM RunsOnOneDaemon == Spec => []OneLiveRunner
<1>1. TypeOK /\ IInv => OneLiveRunner
  <2> SUFFICES ASSUME IInv, NEW a \in Actions, NEW d \in Live,
                      \/ <<d, a>> \in requests
                      \/ \E phase \in {"asked", "begun"} : <<d, a, phase>> \in held
               PROVE  action[a].owner = d
    BY DEF OneLiveRunner
  <2>1. CASE <<d, a>> \in requests
    <3>1. <<d, a>>[1] = d /\ <<d, a>>[2] = a
      OBVIOUS
    <3> QED
      BY <2>1, <3>1 DEF IInv, RequestedOnce
  <2>2. ASSUME NEW phase \in {"asked", "begun"}, <<d, a, phase>> \in held
        PROVE  action[a].owner = d
    <3>1. <<d, a, phase>>[1] = d /\ <<d, a, phase>>[2] = a
      OBVIOUS
    <3> QED
      BY <2>2, <3>1 DEF IInv, HeldAsOwned
  <2> QED
    BY <2>1, <2>2
<1> QED
  BY <1>1, Always, PTL

(* A dispatched action was requested from its owner, will be, or is being  *)
(* taken back: none waits for a daemon that never heard of it.             *)
THEOREM DispatchedIsRequested == Spec => []OwnerIsAsked
<1>1. IInv => OwnerIsAsked
  BY DEF IInv
<1> QED
  BY <1>1, Always, PTL

(* A submission that was answered with success outlives every crash of the *)
(* relay: it was written before it was announced.                          *)
THEOREM AcceptedIsKept == Spec => []AcceptedSurvives
<1>1. IInv => AcceptedSurvives
  BY DEF IInv
<1> QED
  BY <1>1, Always, PTL
=============================================================================
