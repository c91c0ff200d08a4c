-------------------------- MODULE TurnQueueProofs ---------------------------
(* Proofs about the queue of a thread (TurnQueue) for any messages, limits *)
(* and number of faults: its types, what settles and wakes it, its bound,  *)
(* and, in the second half, that it keeps what it confirmed, implements    *)
(* the outbox it promises (Outbox) and sends nothing twice.                *)
EXTENDS TurnQueue, WellFoundedInduction, SequenceTheorems, TLAPS

Full == {e \in Entries : e.words # <<>>}

(* Every entry carries words, and the dispatch task holds an entry exactly *)
(* while its send is under way: the entry it takes is never mistaken for   *)
(* none.                                                                   *)
Shape ==
  /\ queue \in Seq(Full) /\ disk.queue \in Seq(Full)
  /\ dispatching = Nothing \/ dispatching \in Full
  /\ op.kind = "steering" => op.entry \in Full
  /\ dispatching = Nothing <=> call["dispatch"] = "waiting"

-----------------------------------------------------------------------------
(* Entries, words and sequences of them.                                   *)
LEMMA NothingIsEmpty == Nothing \in Entries /\ Nothing \notin Full
BY DEF Nothing, Entries, Full

LEMMA FullIsEntry ==
  /\ \A e \in Full : e \in Entries
  /\ \A s \in Seq(Full) : s \in Seq(Entries)
BY DEF Full

LEMMA WordsTypes ==
  /\ \A e \in Entries : WordsOf(e) \in SUBSET Words
  /\ \A s \in Seq(Entries) : WordsIn(s) \in SUBSET Words
<1>1. ASSUME NEW e \in Entries PROVE WordsOf(e) \in SUBSET Words
  <2>1. e.words \in Seq(Words)
    BY DEF Entries
  <2> QED
    BY <2>1 DEF WordsOf, ToSet
<1>2. ASSUME NEW s \in Seq(Entries) PROVE WordsIn(s) \in SUBSET Words
  <2>1. \A i \in DOMAIN s : s[i] \in Entries
    OBVIOUS
  <2> QED
    BY <1>1, <2>1 DEF WordsIn
<1> QED
  BY <1>1, <1>2

LEMMA ConcatType ==
  ASSUME NEW S, NEW s \in Seq(S), NEW t \in Seq(S)
  PROVE  s \o t \in Seq(S) /\ Len(s \o t) = Len(s) + Len(t)
OBVIOUS

LEMMA RemoveAtType ==
  ASSUME NEW S, NEW s \in Seq(S), NEW i \in DOMAIN s
  PROVE  RemoveAt(s, i) \in Seq(S) /\ Len(RemoveAt(s, i)) = Len(s) - 1
<1>1. i \in 1..Len(s)
  OBVIOUS
<1>2. SubSeq(s, 1, i - 1) \in Seq(S) /\ Len(SubSeq(s, 1, i - 1)) = i - 1
  BY <1>1
<1>3. SubSeq(s, i + 1, Len(s)) \in Seq(S) /\ Len(SubSeq(s, i + 1, Len(s))) = Len(s) - i
  BY <1>1
<1> DEFINE front == SubSeq(s, 1, i - 1)
           back  == SubSeq(s, i + 1, Len(s))
<1>4. RemoveAt(s, i) = front \o back
  BY DEF RemoveAt
<1> HIDE DEF front, back
<1>5. front \in Seq(S) /\ back \in Seq(S) /\ Len(front) = i - 1 /\ Len(back) = Len(s) - i
  BY <1>2, <1>3 DEF front, back
<1>6. front \o back \in Seq(S) /\ Len(front \o back) = Len(front) + Len(back)
  BY <1>5, ConcatType
<1> QED
  BY <1>1, <1>4, <1>5, <1>6

LEMMA InsertAtType ==
  ASSUME NEW S, NEW s \in Seq(S), NEW i \in 1..(Len(s) + 1), NEW e \in S
  PROVE  InsertAt(s, i, e) \in Seq(S) /\ Len(InsertAt(s, i, e)) = Len(s) + 1
<1>1. SubSeq(s, 1, i - 1) \in Seq(S) /\ Len(SubSeq(s, 1, i - 1)) = i - 1
  OBVIOUS
<1>2. SubSeq(s, i, Len(s)) \in Seq(S) /\ Len(SubSeq(s, i, Len(s))) = Len(s) + 1 - i
  OBVIOUS
<1>3. <<e>> \in Seq(S) /\ Len(<<e>>) = 1
  OBVIOUS
<1> DEFINE front == SubSeq(s, 1, i - 1)
           back  == SubSeq(s, i, Len(s))
<1>4. InsertAt(s, i, e) = front \o <<e>> \o back
  BY DEF InsertAt
<1> HIDE DEF front, back
<1>5. /\ front \in Seq(S) /\ back \in Seq(S)
      /\ Len(front) = i - 1 /\ Len(back) = Len(s) + 1 - i
  BY <1>1, <1>2 DEF front, back
<1>6. front \o <<e>> \in Seq(S) /\ Len(front \o <<e>>) = i
  BY <1>3, <1>5, ConcatType
<1>7. /\ front \o <<e>> \o back \in Seq(S)
      /\ Len(front \o <<e>> \o back) = i + Len(back)
  BY <1>5, <1>6, ConcatType
<1> QED
  BY <1>4, <1>5, <1>7

LEMMA ReorderType ==
  ASSUME NEW S, NEW s \in Seq(S), NEW order \in [DOMAIN s -> DOMAIN s]
  PROVE  LET r == [i \in DOMAIN s |-> s[order[i]]] IN r \in Seq(S) /\ Len(r) = Len(s)
<1> DEFINE r == [i \in DOMAIN s |-> s[order[i]]]
<1>1. DOMAIN s = 1..Len(s) /\ Len(s) \in Nat
  OBVIOUS
<1>2. \A i \in DOMAIN s : s[i] \in S
  OBVIOUS
<1>3. r \in [1..Len(s) -> S]
  BY <1>1, <1>2
<1>4. r \in Seq(S)
  BY <1>1, <1>3
<1>5. Len(r) = Len(s)
  BY <1>1, <1>3, <1>4
<1> QED
  BY <1>4, <1>5

-----------------------------------------------------------------------------
(* What the parts of the actions leave behind.                             *)
LEMMA SnapshotType ==
  ASSUME TypeOK, Shape
  PROVE  /\ Snapshot \in [queue : Seq(Entries), status : Statuses]
         /\ Snapshot.queue \in Seq(Full)
         /\ Snapshot.status = status
         /\ Len(Snapshot.queue) = Len(queue) + (IF dispatching = Nothing THEN 0 ELSE 1)
<1> DEFINE head == IF dispatching = Nothing THEN <<>> ELSE <<dispatching>>
<1>1. head \in Seq(Full) /\ Len(head) = IF dispatching = Nothing THEN 0 ELSE 1
  BY DEF Shape
<1>2. queue \in Seq(Full) /\ status \in Statuses
  BY DEF Shape, TypeOK
<1>3. head \o queue \in Seq(Full) /\ Len(head \o queue) = Len(head) + Len(queue)
  BY <1>1, <1>2
<1>4. Snapshot.queue = head \o queue /\ Snapshot.status = status
  BY DEF Snapshot
<1>5. Snapshot \in [queue : Seq(Entries), status : Statuses]
  BY <1>2, <1>3, FullIsEntry DEF Snapshot
<1> QED
  BY <1>1, <1>2, <1>3, <1>4, <1>5

LEMMA SteeringType == ASSUME TypeOK PROVE Steering \in SUBSET Words
BY WordsTypes DEF TypeOK, Steering

LEMMA TryPersistStep ==
  ASSUME TypeOK, Shape, NEW ok \in BOOLEAN, TryPersist(ok)
  PROVE  /\ disk' \in [queue : Seq(Entries), status : Statuses]
         /\ disk'.queue \in Seq(Full)
         /\ exposed' \in SUBSET Words
         /\ faults' \in 0..MaxFaults
         /\ disk' = Snapshot \/ disk' = disk
<1>1. CASE ok
  <2>1. disk' = Snapshot /\ faults' = faults
    BY <1>1 DEF TryPersist, Persist
  <2>2. exposed' \in SUBSET Words
    BY <1>1, SteeringType DEF TryPersist, Persist, TypeOK
  <2> QED
    BY <2>1, <2>2, SnapshotType DEF TypeOK
<1>2. CASE ~ok
  BY <1>2, BoundsAssumption DEF TryPersist, TypeOK, Shape
<1> QED
  BY <1>1, <1>2

LEMMA SaidTypes ==
  ASSUME TypeOK, NEW c \in Callers
  PROVE  SaidBy(c) \in Seq(Words) /\ Said(c) \in SUBSET Words
<1>1. SaidBy(c) \in Seq(Words)
  <2>1. CASE c = "dispatch"
    BY <2>1 DEF SaidBy, TypeOK, Entries
  <2>2. CASE c = "resume"
    BY <2>2 DEF SaidBy
  <2>3. CASE c \in Messages /\ c # "dispatch" /\ c # "resume"
    BY <2>3 DEF SaidBy, Words
  <2> QED
    BY <2>1, <2>2, <2>3 DEF Callers
<1> QED
  BY <1>1 DEF Said, ToSet

LEMMA GivenTypes ==
  ASSUME TypeOK, NEW ws \in SUBSET Words, GivenToAgent(ws)
  PROVE  sent' \in SUBSET Words /\ twice' \in SUBSET Words
BY DEF GivenToAgent, TypeOK

LEMMA GoesType ==
  ASSUME TypeOK, NEW c \in Callers, NEW s \in Steps, Goes(c, s)
  PROVE  /\ call' \in [Callers -> Steps]
         /\ call'[c] = s
         /\ \A d \in Callers : d # c => call'[d] = call[d]
BY DEF Goes, TypeOK

(* A call that moves on does not change whether the dispatch task waits.   *)
LEMMA GoesKeepsWaiting ==
  ASSUME TypeOK, NEW c \in Callers, NEW s \in Steps \ {"waiting"}, Goes(c, s),
         call[c] # "waiting" \/ c # "dispatch"
  PROVE  /\ call' \in [Callers -> Steps]
         /\ call["dispatch"] = "waiting" <=> call'["dispatch"] = "waiting"
<1>1. "dispatch" \in Callers
  BY DEF Callers
<1> QED
  BY <1>1, GoesType

LEMMA MessageIsNoTask ==
  \A c \in Messages : c # "dispatch" /\ c # "resume"
BY WordsAssumption

LEMMA LargestOfInterval ==
  ASSUME NEW n \in Nat, NEW S \in SUBSET (1..n), S # {}
  PROVE  \E k \in S : \A j \in S : j <= k
<1> DEFINE R == OpToRel(<, Nat)
           D == {n - i : i \in S}
<1>1. IsWellFoundedOn(R, Nat)
  BY NatLessThanWellFounded
<1>2. \A x, y \in Nat : x < y => <<x, y>> \in R
  BY DEF OpToRel
<1>3. D \subseteq Nat /\ D # {}
  <2>1. ASSUME NEW i \in S PROVE n - i \in Nat
    OBVIOUS
  <2>2. PICK i \in S : TRUE
    OBVIOUS
  <2>3. n - i \in D
    OBVIOUS
  <2> QED
    BY <2>1, <2>3
<1> HIDE DEF R, D
<1>4. PICK d \in D : \A e \in D : ~(<<e, d>> \in R)
  BY <1>1, <1>3, WFMin
<1>5. PICK k \in S : d = n - k
  BY <1>4 DEF D
<1>6. ASSUME NEW j \in S PROVE j <= k
  <2>1. n - j \in D /\ n - j \in Nat /\ d \in Nat
    BY <1>3, <1>4 DEF D
  <2>2. ~(n - j < d)
    BY <1>2, <1>4, <2>1
  <2> QED
    BY <1>5, <2>1, <2>2
<1> QED
  BY <1>6

(* The entry that takes the words of another agent message.                *)
LEMMA MergedEntry ==
  ASSUME TypeOK, Shape, NEW c, merge_agent_message(c)
  PROVE  /\ NewestAgentEntry \in DOMAIN queue /\ queue[NewestAgentEntry] \in Full
         /\ c \in Words
         /\ [queue[NewestAgentEntry] EXCEPT !.words = Append(@, c)] \in Full
<1> DEFINE k == NewestAgentEntry
<1>1. c \in Words
  BY DEF merge_agent_message, Words, Messages
<1>2. AgentEntries \in SUBSET (1..Len(queue)) /\ AgentEntries # {}
  BY DEF AgentEntries, merge_agent_message, Shape
<1>3. k \in DOMAIN queue
  <2>1. Len(queue) \in Nat
    BY DEF TypeOK
  <2>2. \E i \in AgentEntries : \A j \in AgentEntries : j <= i
    BY <1>2, <2>1, LargestOfInterval
  <2>3. k \in AgentEntries
    BY <2>2 DEF NewestAgentEntry
  <2> QED
    BY <2>3 DEF AgentEntries
<1> HIDE DEF k
<1>4. queue[k] \in Full
  BY <1>3 DEF Shape
<1> DEFINE e == [queue[k] EXCEPT !.words = Append(@, c)]
<1>5. e \in Full
  <2> DEFINE ws == Append(queue[k].words, c)
  <2>1. queue[k] \in Entries /\ queue[k].words \in Seq(Words)
    BY <1>4 DEF Full, Entries
  <2>2. ws \in Seq(Words) /\ ws # <<>>
    BY <1>1, <2>1
  <2>3. e = [queue[k] EXCEPT !.words = ws]
    OBVIOUS
  <2> HIDE DEF ws, e
  <2>4. e \in Entries /\ e.words = ws
    BY <2>1, <2>2, <2>3 DEF Entries
  <2> QED
    BY <2>2, <2>4 DEF Full
<1> QED
  BY <1>1, <1>3, <1>4, <1>5 DEF k, e

LEMMA MergedType ==
  ASSUME TypeOK, Shape, NEW c, merge_agent_message(c)
  PROVE  Merged(c) \in Seq(Full) /\ Len(Merged(c)) = Len(queue)
<1> DEFINE k == NewestAgentEntry
           e == [queue[k] EXCEPT !.words = Append(@, c)]
<1>1. k \in DOMAIN queue /\ e \in Full
  BY MergedEntry
<1>2. Merged(c) = [queue EXCEPT ![k] = e]
  BY DEF Merged
<1> HIDE DEF k, e
<1>3. queue \in Seq(Full)
  BY DEF Shape
<1>4. \A q \in Seq(Full) : k \in DOMAIN q =>
        [q EXCEPT ![k] = e] \in Seq(Full) /\ Len([q EXCEPT ![k] = e]) = Len(q)
  BY <1>1
<1> QED
  BY <1>1, <1>2, <1>3, <1>4

-----------------------------------------------------------------------------
LEMMA InitShape == Init => TypeOK /\ Shape
<1> SUFFICES ASSUME Init PROVE TypeOK /\ Shape
  OBVIOUS
<1>1. call \in [Callers -> Steps] /\ call["dispatch"] = "waiting"
  BY WordsAssumption DEF Init, Callers, Steps
<1>2. op \in [kind : {"none", "saving", "editing", "steering", "acknowledging"},
              entry : Entries, at : Nat \ {0}]
  BY NothingIsEmpty DEF Init, Quiet
<1>3. disk \in [queue : Seq(Entries), status : Statuses] /\ disk.queue \in Seq(Full)
  BY DEF Init, Statuses
<1>4. <<>> \in Seq(Entries) /\ <<>> \in Seq(Full)
  OBVIOUS
<1>5. TypeOK
  <2>1. status \in Statuses /\ missed \in BOOLEAN
    BY DEF Init, Statuses
  <2>2. queue \in Seq(Entries) /\ dispatching \in Entries
    BY <1>4, NothingIsEmpty DEF Init
  <2>3. /\ wakes \in Nat /\ commits \in Nat /\ turns \in Nat
        /\ ops \in 0..MaxOps /\ faults \in 0..MaxFaults
    BY BoundsAssumption DEF Init
  <2> QED
    BY <1>1, <1>2, <1>3, <2>1, <2>2, <2>3 DEF Init, TypeOK
<1>6. Shape
  BY <1>1, <1>3, <1>4 DEF Init, Shape, Quiet
<1> QED
  BY <1>5, <1>6

LEMMA ResumeShape ==
  ASSUME TypeOK, Shape, Resume PROVE TypeOK' /\ Shape'
<1>1. /\ call' \in [Callers -> Steps]
      /\ call["dispatch"] = "waiting" <=> call'["dispatch"] = "waiting"
  BY GoesKeepsWaiting DEF Resume, Callers, Steps
<1> QED
  BY <1>1 DEF Resume, TypeOK, Shape, queueVars, heardVars, sentVars

LEMMA TrySteerShape ==
  ASSUME TypeOK, Shape, NEW c \in Callers, TrySteer(c) PROVE TypeOK' /\ Shape'
<1>1. /\ call' \in [Callers -> Steps]
      /\ call["dispatch"] = "waiting" <=> call'["dispatch"] = "waiting"
  BY GoesKeepsWaiting DEF TrySteer, Steps
<1> QED
  BY <1>1 DEF TrySteer, TypeOK, Shape, queueVars, heardVars, sentVars

LEMMA SteeredShape ==
  ASSUME TypeOK, Shape, NEW c \in Callers, Steered(c) PROVE TypeOK' /\ Shape'
<1>1. PICK s \in {"done", "failed", "unsteered"} : Goes(c, s)
  BY DEF Steered
<1>2. /\ call' \in [Callers -> Steps]
      /\ call["dispatch"] = "waiting" <=> call'["dispatch"] = "waiting"
  BY <1>1, GoesKeepsWaiting DEF Steered, Steps
<1>3. /\ sent' \in SUBSET Words /\ twice' \in SUBSET Words
      /\ taken' \in SUBSET Words /\ repeatable' \in SUBSET Words
  BY SaidTypes, GivenTypes DEF Steered, TypeOK, sentVars
<1> QED
  BY <1>2, <1>3 DEF Steered, TypeOK, Shape, queueVars

(* The entry of a send carries its words.                                  *)
LEMMA EntryOfType ==
  ASSUME TypeOK, Shape, NEW c \in Callers, c # "resume",
         call[c] \in {"ready", "unsteered"}
  PROVE  EntryOf(c) \in Full
<1>1. SaidBy(c) # <<>>
  BY NothingIsEmpty DEF SaidBy, Shape, Full
<1>2. SaidBy(c) \in Seq(Words)
  BY SaidTypes
<1>3. AsksToSteer(c) \in BOOLEAN
  <2>1. dispatching.steer \in BOOLEAN
    BY DEF TypeOK, Entries
  <2>2. (c \in SteerMessages) \in BOOLEAN
    OBVIOUS
  <2> QED
    BY <2>1, <2>2 DEF AsksToSteer
<1> QED
  BY <1>1, <1>2, <1>3 DEF EntryOf, Full, Entries

LEMMA TryEnqueueShape ==
  ASSUME TypeOK, Shape, NEW c \in Callers, TryEnqueue(c) PROVE TypeOK' /\ Shape'
<1>1. PICK s \in {"free", "failed", "saving"} : Goes(c, s)
  BY DEF TryEnqueue
<1>2. /\ call' \in [Callers -> Steps]
      /\ call["dispatch"] = "waiting" <=> call'["dispatch"] = "waiting"
  BY <1>1, GoesKeepsWaiting DEF TryEnqueue, Steps
<1>3. taken' \in SUBSET Words
  BY SaidTypes DEF TryEnqueue, TypeOK
<1>4. c # "resume" => EntryOf(c) \in Full
  BY EntryOfType DEF TryEnqueue
<1>5. queue' \in Seq(Full)
  <2>1. CASE queue' = queue
    BY <2>1 DEF Shape
  <2>2. CASE merge_agent_message(c) /\ queue' = Merged(c)
    BY <2>2, MergedType
  <2>3. CASE c # "resume" /\ queue' = Append(queue, EntryOf(c))
    BY <2>3, <1>4 DEF Shape
  <2> QED
    BY <2>1, <2>2, <2>3 DEF TryEnqueue
<1> QED
  BY <1>2, <1>3, <1>5, FullIsEntry DEF TryEnqueue, TypeOK, Shape, sentVars

LEMMA SaveQueuedShape ==
  ASSUME TypeOK, Shape, NEW c \in Callers, SaveQueued(c) PROVE TypeOK' /\ Shape'
<1>1. PICK s \in {"done", "failed"} : Goes(c, s)
  BY DEF SaveQueued
<1>2. /\ call' \in [Callers -> Steps]
      /\ call["dispatch"] = "waiting" <=> call'["dispatch"] = "waiting"
  BY <1>1, GoesKeepsWaiting DEF SaveQueued, Steps
<1>3. /\ disk' \in [queue : Seq(Entries), status : Statuses]
      /\ disk'.queue \in Seq(Full)
      /\ exposed' \in SUBSET Words /\ faults' \in 0..MaxFaults
  BY TryPersistStep DEF SaveQueued
<1>4. acked' \in SUBSET Words /\ repeatable' \in SUBSET Words
  BY SaidTypes DEF SaveQueued, TypeOK
<1> QED
  BY <1>2, <1>3, <1>4 DEF SaveQueued, TypeOK, Shape, queueVars, sentVars

LEMMA BeginShape ==
  ASSUME TypeOK, Shape, NEW c \in Callers, Begin(c) PROVE TypeOK' /\ Shape'
<1>1. /\ call' \in [Callers -> Steps]
      /\ call["dispatch"] = "waiting" <=> call'["dispatch"] = "waiting"
  BY GoesKeepsWaiting DEF Begin, Steps
<1> QED
  BY <1>1 DEF Begin, Statuses, TypeOK, Shape, queueVars, heardVars, sentVars

LEMMA RecordShape ==
  ASSUME TypeOK, Shape, NEW c \in Callers, Record(c) PROVE TypeOK' /\ Shape'
<1>1. PICK s \in {"starting", "failed"} : Goes(c, s)
  BY DEF Record
<1>2. /\ call' \in [Callers -> Steps]
      /\ call["dispatch"] = "waiting" <=> call'["dispatch"] = "waiting"
  BY <1>1, GoesKeepsWaiting DEF Record, Steps
<1>3. /\ disk' \in [queue : Seq(Entries), status : Statuses]
      /\ disk'.queue \in Seq(Full)
      /\ exposed' \in SUBSET Words /\ faults' \in 0..MaxFaults
  BY TryPersistStep DEF Record
<1>4. status' \in Statuses
  BY DEF Record, TypeOK, FailedStatus, Statuses
<1> QED
  BY <1>2, <1>3, <1>4 DEF Record, TypeOK, Shape, queueVars, heardVars, sentVars

LEMMA StartedShape ==
  ASSUME TypeOK, Shape, NEW c \in Callers, Started(c) PROVE TypeOK' /\ Shape'
<1>1. PICK s \in {"done", "failed"} : Goes(c, s)
  BY DEF Started
<1>2. /\ call' \in [Callers -> Steps]
      /\ call["dispatch"] = "waiting" <=> call'["dispatch"] = "waiting"
  BY <1>1, GoesKeepsWaiting DEF Started, Steps
<1>3. /\ sent' \in SUBSET Words /\ twice' \in SUBSET Words /\ taken' \in SUBSET Words
  BY SaidTypes, GivenTypes DEF Started, TypeOK, sentVars
<1>4. status' \in Statuses /\ turns' \in Nat
  BY DEF Started, TypeOK, FailedStatus, Statuses
<1> QED
  BY <1>2, <1>3, <1>4 DEF Started, TypeOK, Shape, queueVars

LEMMA TurnEndShape ==
  ASSUME TypeOK, Shape, TurnEnd PROVE TypeOK' /\ Shape'
<1>1. status' \in Statuses /\ turns' \in Nat /\ wakes' \in Nat
  BY DEF TurnEnd, TypeOK, Statuses
<1>2. missed' \in BOOLEAN
  BY DEF TurnEnd
<1> QED
  BY <1>1, <1>2 DEF TurnEnd, TypeOK, Shape, queueVars, heardVars, sentVars

LEMMA DispatchNextShape ==
  ASSUME TypeOK, Shape, DispatchNext PROVE TypeOK' /\ Shape'
<1>1. wakes' \in Nat
  BY DEF DispatchNext, TypeOK
<1>2. missed' \in BOOLEAN
  <2>1. CASE missed' = missed
    BY <2>1 DEF TypeOK
  <2>2. CASE missed' = (missed \/ dispatching # Nothing)
    BY <2>2
  <2> QED
    BY <2>1, <2>2 DEF DispatchNext
<1>3. CASE queued_turn_is_held
  <2>1. UNCHANGED <<queue, dispatching, call>>
    BY <1>3 DEF DispatchNext, queueVars
  <2> QED
    BY <1>1, <1>2, <2>1 DEF DispatchNext, TypeOK, Shape, heardVars, sentVars
<1>4. CASE ~queued_turn_is_held
  <2>1. queue # <<>> /\ dispatching = Nothing
    BY <1>4 DEF queued_turn_is_held
  <2>2. Head(queue) \in Full /\ Tail(queue) \in Seq(Full)
    BY <2>1 DEF Shape
  <2>3. dispatching' = Head(queue) /\ queue' = Tail(queue) /\ Goes("dispatch", "ready")
    BY <1>4 DEF DispatchNext
  <2>4. call' \in [Callers -> Steps] /\ call'["dispatch"] = "ready"
    BY <2>3, GoesType DEF Callers, Steps
  <2>5. queue' \in Seq(Entries) /\ dispatching' \in Entries /\ dispatching' # Nothing
    BY <2>2, <2>3, FullIsEntry, NothingIsEmpty
  <2> QED
    BY <1>1, <1>2, <2>2, <2>3, <2>4, <2>5
    DEF DispatchNext, TypeOK, Shape, heardVars, sentVars
<1> QED
  BY <1>3, <1>4

LEMMA DispatchedShape ==
  ASSUME TypeOK, Shape, Dispatched PROVE TypeOK' /\ Shape'
<1>1. dispatching \in Full
  BY DEF Dispatched, Shape
<1>2. <<dispatching>> \o queue \in Seq(Full)
  <2>1. <<dispatching>> \in Seq(Full)
    BY <1>1
  <2> QED
    BY <2>1, ConcatType DEF Shape
<1>3. queue' \in Seq(Full) /\ queue' \in Seq(Entries)
  BY <1>2, FullIsEntry DEF Dispatched, Shape
<1>4. call' \in [Callers -> Steps] /\ call'["dispatch"] = "waiting"
  BY GoesType DEF Dispatched, Callers, Steps
<1>5. commits' \in Nat
  BY DEF Dispatched, TypeOK
<1> QED
  BY <1>3, <1>4, <1>5, NothingIsEmpty DEF Dispatched, TypeOK, Shape, heardVars, sentVars

LEMMA CommitDispatchShape ==
  ASSUME TypeOK, Shape, CommitDispatch PROVE TypeOK' /\ Shape'
<1>1. /\ disk' \in [queue : Seq(Entries), status : Statuses]
      /\ disk'.queue \in Seq(Full)
      /\ exposed' \in SUBSET Words /\ faults' \in 0..MaxFaults
  BY TryPersistStep DEF CommitDispatch
<1>2. commits' \in Nat
  BY DEF CommitDispatch, TypeOK
<1> QED
  BY <1>1, <1>2 DEF CommitDispatch, TypeOK, Shape, queueVars, heardVars, sentVars

LEMMA RemoveShape ==
  ASSUME TypeOK, Shape, NEW i \in DOMAIN queue, remove_queued_turn(i)
  PROVE  TypeOK' /\ Shape'
<1>1. queue' \in Seq(Full) /\ queue' \in Seq(Entries)
  BY RemoveAtType, FullIsEntry DEF remove_queued_turn, Shape
<1>2. withdrawn' \in SUBSET Words
  <2>1. queue[i] \in Entries
    BY DEF TypeOK
  <2> QED
    BY <2>1, WordsTypes DEF remove_queued_turn, TypeOK
<1>3. op' \in [kind : {"none", "saving", "editing", "steering", "acknowledging"},
               entry : Entries, at : Nat \ {0}] /\ op'.kind = "saving"
  BY NothingIsEmpty DEF remove_queued_turn, StartsOperation, Operation
<1>4. ops' \in 0..MaxOps
  BY BoundsAssumption DEF remove_queued_turn, StartsOperation, TypeOK
<1> QED
  BY <1>1, <1>2, <1>3, <1>4 DEF remove_queued_turn, TypeOK, Shape, sentVars

LEMMA EditShape ==
  ASSUME TypeOK, Shape, NEW i \in DOMAIN queue, NEW w \in Edits, edit_queued_turn(i, w)
  PROVE  TypeOK' /\ Shape'
<1> DEFINE e == WithText(queue[i], w)
<1>1. queue[i] \in Entries /\ queue \in Seq(Full) /\ i \in 1..Len(queue)
  BY DEF TypeOK, Shape
<1>2. w \in Words
  BY DEF Words
<1>3. e \in Full
  <2> DEFINE ws == <<w>>
  <2>1. ws \in Seq(Words) /\ ws # <<>>
    BY <1>2
  <2>2. e = [queue[i] EXCEPT !.words = ws]
    BY DEF WithText
  <2> HIDE DEF ws, e
  <2>3. e \in Entries /\ e.words = ws
    BY <1>1, <2>1, <2>2 DEF Entries
  <2> QED
    BY <2>1, <2>3 DEF Full
<1>4. queue' = [queue EXCEPT ![i] = e]
  BY DEF edit_queued_turn
<1>5. op' = [kind |-> "editing", entry |-> e, at |-> i]
  BY DEF edit_queued_turn, StartsOperation, Operation
<1> HIDE DEF e
<1>6. queue' \in Seq(Full) /\ queue' \in Seq(Entries)
  <2>1. \A q \in Seq(Full) : i \in DOMAIN q => [q EXCEPT ![i] = e] \in Seq(Full)
    BY <1>3
  <2> QED
    BY <1>1, <1>4, <2>1, FullIsEntry
<1>7. op' \in [kind : {"none", "saving", "editing", "steering", "acknowledging"},
               entry : Entries, at : Nat \ {0}] /\ op'.kind = "editing"
  BY <1>1, <1>3, <1>5, FullIsEntry
<1>8. withdrawn' \in SUBSET Words /\ taken' \in SUBSET Words
  BY <1>1, <1>2, WordsTypes DEF edit_queued_turn, TypeOK
<1>9. ops' \in 0..MaxOps
  BY BoundsAssumption DEF edit_queued_turn, StartsOperation, TypeOK
<1> QED
  BY <1>6, <1>7, <1>8, <1>9 DEF edit_queued_turn, TypeOK, Shape, sentVars

LEMMA ReorderShape ==
  ASSUME TypeOK, Shape, NEW order \in [DOMAIN queue -> DOMAIN queue],
         reorder_queued_turns(order)
  PROVE  TypeOK' /\ Shape'
<1>1. queue' \in Seq(Full) /\ queue' \in Seq(Entries)
  BY ReorderType, FullIsEntry DEF reorder_queued_turns, Shape
<1>2. op' \in [kind : {"none", "saving", "editing", "steering", "acknowledging"},
               entry : Entries, at : Nat \ {0}] /\ op'.kind = "saving"
  BY NothingIsEmpty DEF reorder_queued_turns, StartsOperation, Operation
<1>3. ops' \in 0..MaxOps
  BY BoundsAssumption DEF reorder_queued_turns, StartsOperation, TypeOK
<1> QED
  BY <1>1, <1>2, <1>3 DEF reorder_queued_turns, TypeOK, Shape, heardVars, sentVars

LEMMA SteerShape ==
  ASSUME TypeOK, Shape, NEW i \in DOMAIN queue, steer_queued_turn(i)
  PROVE  TypeOK' /\ Shape'
<1>1. queue' \in Seq(Full) /\ queue' \in Seq(Entries)
  BY RemoveAtType, FullIsEntry DEF steer_queued_turn, Shape
<1>2. queue[i] \in Full /\ queue[i] \in Entries /\ i \in Nat \ {0}
  BY FullIsEntry DEF Shape
<1>3. op' \in [kind : {"none", "saving", "editing", "steering", "acknowledging"},
               entry : Entries, at : Nat \ {0}] /\ op'.entry \in Full
  BY <1>2 DEF steer_queued_turn, StartsOperation, Operation
<1>4. ops' \in 0..MaxOps
  BY BoundsAssumption DEF steer_queued_turn, StartsOperation, TypeOK
<1> QED
  BY <1>1, <1>3, <1>4 DEF steer_queued_turn, TypeOK, Shape, heardVars, sentVars

(* Where a steer puts its entry back.                                      *)
LEMMA SteerAnsweredQueue ==
  ASSUME TypeOK, Shape, SteerAnswered
  PROVE  queue' \in Seq(Full) /\ Len(queue') <= Len(queue) + 1
<1> DEFINE at == IF op.at <= Len(queue) THEN op.at ELSE Len(queue) + 1
<1>1. op.entry \in Full /\ queue \in Seq(Full)
  BY DEF SteerAnswered, Shape
<1>2. CASE queue' = queue
  BY <1>1, <1>2
<1>3. CASE queue' = InsertAt(queue, at, op.entry)
  <2>1. at \in 1..(Len(queue) + 1)
    BY DEF TypeOK
  <2> HIDE DEF at
  <2> QED
    BY <1>1, <1>3, <2>1, InsertAtType
<1> QED
  BY <1>2, <1>3 DEF SteerAnswered

LEMMA SteerAnsweredShape ==
  ASSUME TypeOK, Shape, SteerAnswered PROVE TypeOK' /\ Shape'
<1>1. queue' \in Seq(Full) /\ queue' \in Seq(Entries)
  BY SteerAnsweredQueue, FullIsEntry
<1>2. PICK reached \in BOOLEAN, recorded \in BOOLEAN :
        /\ IF reached THEN GivenToAgent(WordsOf(op.entry)) ELSE UNCHANGED sentVars
        /\ IF recorded
           THEN UNCHANGED <<queue, repeatable, missed>>
           ELSE /\ repeatable' = repeatable \cup (IF reached THEN WordsOf(op.entry) ELSE {})
                /\ missed' = (missed \/ ~thread_is_busy)
  BY DEF SteerAnswered
<1>3. WordsOf(op.entry) \in SUBSET Words
  BY WordsTypes DEF TypeOK
<1>4. sent' \in SUBSET Words /\ twice' \in SUBSET Words
  BY <1>2, <1>3, GivenTypes DEF TypeOK, sentVars
<1>5. repeatable' \in SUBSET Words
  BY <1>2, <1>3 DEF TypeOK
<1>6. missed' \in BOOLEAN
  <2>1. CASE recorded
    BY <1>2, <2>1 DEF TypeOK
  <2>2. CASE ~recorded
    BY <1>2, <2>2
  <2> QED
    BY <2>1, <2>2
<1>7. op' \in [kind : {"none", "saving", "editing", "steering", "acknowledging"},
               entry : Entries, at : Nat \ {0}] /\ op'.kind = "saving"
  BY NothingIsEmpty DEF SteerAnswered, Operation
<1> QED
  BY <1>1, <1>4, <1>5, <1>6, <1>7 DEF SteerAnswered, TypeOK, Shape, heardVars

LEMMA QuietType ==
  /\ Quiet \in [kind : {"none", "saving", "editing", "steering", "acknowledging"},
                entry : Entries, at : Nat \ {0}]
  /\ Quiet.kind = "none"
BY NothingIsEmpty DEF Quiet

LEMMA SaveOperationShape ==
  ASSUME TypeOK, Shape, SaveOperation PROVE TypeOK' /\ Shape'
<1>1. /\ disk' \in [queue : Seq(Entries), status : Statuses]
      /\ disk'.queue \in Seq(Full)
      /\ exposed' \in SUBSET Words /\ faults' \in 0..MaxFaults
  BY TryPersistStep DEF SaveOperation
<1>2. acked' \in SUBSET Words
  <2>1. WordsOf(op.entry) \in SUBSET Words
    BY WordsTypes DEF TypeOK
  <2> QED
    BY <2>1 DEF SaveOperation, TypeOK
<1> QED
  BY <1>1, <1>2, QuietType DEF SaveOperation, TypeOK, Shape, queueVars, sentVars

LEMMA AcknowledgeShape ==
  ASSUME TypeOK, Shape, Acknowledge PROVE TypeOK' /\ Shape'
<1>1. op' \in [kind : {"none", "saving", "editing", "steering", "acknowledging"},
               entry : Entries, at : Nat \ {0}] /\ op'.kind = "acknowledging"
  BY NothingIsEmpty DEF Acknowledge, StartsOperation, Operation
<1>2. ops' \in 0..MaxOps
  BY BoundsAssumption DEF Acknowledge, StartsOperation, TypeOK
<1>3. status' \in Statuses
  BY DEF Acknowledge, Statuses
<1> QED
  BY <1>1, <1>2, <1>3 DEF Acknowledge, TypeOK, Shape, queueVars, heardVars, sentVars

LEMMA AcknowledgedShape ==
  ASSUME TypeOK, Shape, Acknowledged PROVE TypeOK' /\ Shape'
<1>1. /\ disk' \in [queue : Seq(Entries), status : Statuses]
      /\ disk'.queue \in Seq(Full)
      /\ exposed' \in SUBSET Words /\ faults' \in 0..MaxFaults
  BY TryPersistStep DEF Acknowledged
<1>2. wakes' \in Nat
  BY DEF Acknowledged, TypeOK
<1>3. missed' \in BOOLEAN
  BY DEF Acknowledged
<1> QED
  BY <1>1, <1>2, <1>3, QuietType DEF Acknowledged, TypeOK, Shape, queueVars, heardVars, sentVars

(* The end of the process and the restore, from what the file holds.       *)
LEMMA RestoreShape ==
  ASSUME TypeOK, Shape, NEW saved, Restore(saved),
         saved \in [queue : Seq(Entries), status : Statuses], saved.queue \in Seq(Full),
         faults < MaxFaults, faults' = faults + 1, UNCHANGED <<heardVars, sentVars, ops>>
  PROVE  TypeOK' /\ Shape'
<1>1. saved.status \in Statuses /\ saved.queue \in Seq(Entries)
  OBVIOUS
<1>2. status' \in Statuses
  BY <1>1 DEF Restore, CutOff, Statuses
<1>3. call' \in [Callers -> Steps] /\ call'["dispatch"] = "waiting"
  BY MessageIsNoTask DEF Restore, Callers, Steps
<1>4. wakes' \in Nat /\ commits' \in Nat /\ turns' \in Nat /\ faults' \in 0..MaxFaults
  BY BoundsAssumption DEF Restore, TypeOK
<1>5. missed' \in BOOLEAN
  BY DEF Restore
<1>6. exposed' \in SUBSET Words /\ repeatable' \in SUBSET Words
  BY <1>1, WordsTypes, SteeringType DEF Restore, TypeOK
<1>7. queue' = saved.queue /\ dispatching' = Nothing /\ op' = Quiet /\ disk' = saved
  BY DEF Restore
<1>8. TypeOK'
  BY <1>1, <1>2, <1>3, <1>4, <1>5, <1>6, <1>7, NothingIsEmpty, QuietType
  DEF TypeOK, heardVars, sentVars
<1>9. Shape'
  BY <1>3, <1>7, QuietType DEF Shape
<1> QED
  BY <1>8, <1>9

LEMMA CrashShape ==
  ASSUME TypeOK, Shape, Crash PROVE TypeOK' /\ Shape'
BY RestoreShape DEF Crash, TypeOK, Shape

LEMMA ShutdownShape ==
  ASSUME TypeOK, Shape, Shutdown PROVE TypeOK' /\ Shape'
<1> DEFINE saved == [Snapshot EXCEPT !.status = CutOff(@)]
<1>1. CutOff(Snapshot.status) \in Statuses
  BY SnapshotType DEF CutOff, Statuses
<1>2. saved \in [queue : Seq(Entries), status : Statuses] /\ saved.queue \in Seq(Full)
  BY <1>1, SnapshotType
<1> HIDE DEF saved
<1>3. Restore(saved)
  BY DEF Shutdown, saved
<1> QED
  BY <1>2, <1>3, RestoreShape DEF Shutdown

LEMMA NextShape ==
  ASSUME TypeOK, Shape, [Next]_vars PROVE TypeOK' /\ Shape'
<1>1. CASE UNCHANGED vars
  BY <1>1 DEF vars, TypeOK, Shape, queueVars, heardVars, sentVars
<1>2. ASSUME NEW c \in Callers, CallStep(c) PROVE TypeOK' /\ Shape'
  BY <1>2, TrySteerShape, SteeredShape, TryEnqueueShape, SaveQueuedShape, BeginShape,
     RecordShape, StartedShape DEF CallStep
<1>3. CASE Resume
  BY <1>3, ResumeShape
<1>4. CASE TurnEnd
  BY <1>4, TurnEndShape
<1>5. CASE DispatchNext \/ Dispatched \/ CommitDispatch
  BY <1>5, DispatchNextShape, DispatchedShape, CommitDispatchShape
<1>6. CASE QueueOperation
  BY <1>6, RemoveShape, EditShape, ReorderShape, SteerShape DEF QueueOperation
<1>7. CASE SteerAnswered \/ SaveOperation
  BY <1>7, SteerAnsweredShape, SaveOperationShape
<1>8. CASE Acknowledge \/ Acknowledged
  BY <1>8, AcknowledgeShape, AcknowledgedShape
<1>9. CASE Crash \/ Shutdown
  BY <1>9, CrashShape, ShutdownShape
<1> QED
  BY <1>1, <1>2, <1>3, <1>4, <1>5, <1>6, <1>7, <1>8, <1>9 DEF Next

(* Every reachable state has its types, every queued entry has words, and  *)
(* the dispatch task holds one exactly while its send is under way.        *)
THEOREM TypeCorrect == Spec => [](TypeOK /\ Shape)
<1>1. Init => TypeOK /\ Shape
  BY InitShape
<1>2. TypeOK /\ Shape /\ [Next]_vars => (TypeOK /\ Shape)'
  BY NextShape
<1> QED
  BY <1>1, <1>2, PTL DEF Spec

-----------------------------------------------------------------------------
(* A busy thread will settle.                                              *)
LEMMA OthersStillRunning ==
  ASSUME TypeOK, BusyThreadWillSettle, UNCHANGED <<status, turns>>,
         NEW c \in Callers, NEW s \in Steps, Goes(c, s),
         call[c] \notin {"recording", "starting"}
  PROVE  BusyThreadWillSettle'
<1> SUFFICES ASSUME thread_is_busy' PROVE (turns > 0 \/ \E d \in Callers :
                                              call[d] \in {"recording", "starting"})'
  BY DEF BusyThreadWillSettle
<1>1. thread_is_busy
  BY DEF thread_is_busy
<1>2. CASE turns > 0
  BY <1>2
<1>3. CASE ~(turns > 0)
  <2>1. PICK d \in Callers : call[d] \in {"recording", "starting"}
    BY <1>1, <1>3 DEF BusyThreadWillSettle
  <2>2. call'[d] = call[d]
    BY <2>1, GoesType
  <2> QED
    BY <2>1, <2>2
<1> QED
  BY <1>2, <1>3

LEMMA NextSettles ==
  ASSUME TypeOK, Shape, BusyThreadWillSettle, [Next]_vars
  PROVE  BusyThreadWillSettle'
<1> USE DEF BusyThreadWillSettle, thread_is_busy
<1>1. CASE UNCHANGED <<status, turns, call>>
  BY <1>1
<1>2. ASSUME NEW c \in Callers, CallStep(c) PROVE BusyThreadWillSettle'
  <2>1. CASE TrySteer(c)
    BY <2>1, OthersStillRunning DEF TrySteer, Steps
  <2>2. CASE Steered(c)
    <3>1. PICK s \in {"done", "failed", "unsteered"} : Goes(c, s)
      BY <2>2 DEF Steered
    <3> QED
      BY <2>2, <3>1, OthersStillRunning DEF Steered, Steps
  <2>3. CASE TryEnqueue(c)
    <3>1. PICK s \in {"free", "failed", "saving"} : Goes(c, s)
      BY <2>3 DEF TryEnqueue
    <3> QED
      BY <2>3, <3>1, OthersStillRunning DEF TryEnqueue, Steps
  <2>4. CASE SaveQueued(c)
    <3>1. PICK s \in {"done", "failed"} : Goes(c, s)
      BY <2>4 DEF SaveQueued
    <3> QED
      BY <2>4, <3>1, OthersStillRunning DEF SaveQueued, Steps
  <2>5. CASE Begin(c)
    <3>1. call'[c] = "recording"
      BY <2>5, GoesType DEF Begin, Steps
    <3> QED
      BY <3>1
  <2>6. CASE Record(c)
    <3>1. CASE Goes(c, "starting")
      <4>1. call'[c] = "starting"
        BY <3>1, GoesType DEF Steps
      <4> QED
        BY <4>1
    <3>2. CASE status' = FailedStatus(c)
      BY <3>2 DEF FailedStatus
    <3> QED
      BY <2>6, <3>1, <3>2 DEF Record
  <2>7. CASE Started(c)
    <3>1. CASE turns' = turns + 1
      BY <3>1 DEF TypeOK
    <3>2. CASE status' = FailedStatus(c)
      BY <3>2 DEF FailedStatus
    <3> QED
      BY <2>7, <3>1, <3>2 DEF Started
  <2> QED
    BY <1>2, <2>1, <2>2, <2>3, <2>4, <2>5, <2>6, <2>7 DEF CallStep
<1>3. CASE Resume
  BY <1>3, OthersStillRunning DEF Resume, Callers, Steps
<1>4. CASE TurnEnd \/ Acknowledge
  BY <1>4 DEF TurnEnd, Acknowledge
<1>5. CASE DispatchNext
  <2>1. CASE queued_turn_is_held
    BY <1>1, <1>5, <2>1 DEF DispatchNext
  <2>2. CASE ~queued_turn_is_held
    <3>1. call["dispatch"] = "waiting" /\ Goes("dispatch", "ready")
      BY <1>5, <2>2 DEF DispatchNext, queued_turn_is_held, Shape
    <3> QED
      BY <1>5, <3>1, OthersStillRunning DEF DispatchNext, Callers, Steps
  <2> QED
    BY <2>1, <2>2
<1>6. CASE Dispatched
  BY <1>6, OthersStillRunning DEF Dispatched, Callers, Steps
<1>7. CASE CommitDispatch \/ QueueOperation \/ SteerAnswered \/ SaveOperation \/ Acknowledged
  BY <1>1, <1>7 DEF CommitDispatch, QueueOperation, SteerAnswered, SaveOperation, Acknowledged,
     remove_queued_turn, steer_queued_turn, edit_queued_turn, reorder_queued_turns
<1>8. CASE Crash \/ Shutdown
  BY <1>8 DEF Crash, Shutdown, Restore, CutOff
<1>9. CASE UNCHANGED vars
  BY <1>1, <1>9 DEF vars
<1> QED
  BY <1>2, <1>3, <1>4, <1>5, <1>6, <1>7, <1>8, <1>9 DEF Next

(* Whatever starts, ends and failures overlap, a thread that is marked     *)
(* Running has a turn with the provider or a start on its way.             *)
THEOREM BusyThreadsSettle == Spec => []BusyThreadWillSettle
<1>1. Init => BusyThreadWillSettle
  BY DEF Init, BusyThreadWillSettle, thread_is_busy
<1>2. TypeOK /\ Shape /\ BusyThreadWillSettle /\ [Next]_vars => BusyThreadWillSettle'
  BY NextSettles
<1> QED
  BY <1>1, <1>2, TypeCorrect, PTL DEF Spec

-----------------------------------------------------------------------------
(* An idle queue is woken.  While the dispatch task is past the start of   *)
(* its send, an idle thread means that a turn ended meanwhile: that end    *)
(* brought a wake, and a wake that came too early is noted as missed.      *)
Woken == wakes > 0 \/ op.kind = "acknowledging" \/ missed

CrossingIsWoken ==
  status = "idle" /\ dispatching # Nothing /\ call["dispatch"] \notin {"ready", "free"}
    => Woken

IdleInv == IdleQueueIsWoken /\ CrossingIsWoken

LEMMA CallStepWakes ==
  ASSUME TypeOK, Shape, IdleInv, NEW c \in Callers, CallStep(c)
  PROVE  IdleInv'
<1> USE DEF IdleInv, IdleQueueIsWoken, CrossingIsWoken, Woken
<1> "dispatch" \in Callers
  BY DEF Callers
<1>1. CASE TrySteer(c)
  BY <1>1 DEF TrySteer, thread_is_busy, queueVars
<1>2. CASE Steered(c)
  <2>1. PICK s \in {"done", "failed", "unsteered"} : Goes(c, s)
    BY <1>2 DEF Steered
  <2>2. call'["dispatch"] \notin {"ready", "free"} => call["dispatch"] \notin {"ready", "free"}
    BY <1>2, <2>1, GoesType DEF Steered, Steps
  <2> QED
    BY <1>2, <2>2 DEF Steered, queueVars
<1>3. CASE TryEnqueue(c)
  <2>1. CASE thread_is_busy
    BY <1>3, <2>1 DEF TryEnqueue, thread_is_busy
  <2>2. CASE ~thread_is_busy
    <3>1. Goes(c, "free") /\ UNCHANGED queue
      BY <1>3, <2>2 DEF TryEnqueue
    <3>2. call'["dispatch"] \notin {"ready", "free"} => call'["dispatch"] = call["dispatch"]
      BY <3>1, GoesType DEF Steps
    <3> QED
      BY <1>3, <3>1, <3>2 DEF TryEnqueue
  <2> QED
    BY <2>1, <2>2
<1>4. CASE SaveQueued(c)
  <2>1. PICK s \in {"done", "failed"} : Goes(c, s)
    BY <1>4 DEF SaveQueued
  <2>2. call'["dispatch"] \notin {"ready", "free"} => call["dispatch"] \notin {"ready", "free"}
    BY <1>4, <2>1, GoesType DEF SaveQueued, Steps
  <2> QED
    BY <1>4, <2>2 DEF SaveQueued, queueVars
<1>5. CASE Begin(c)
  BY <1>5 DEF Begin
<1>6. CASE Record(c)
  <2>1. CASE status' = FailedStatus(c)
    BY <2>1 DEF FailedStatus
  <2>2. CASE Goes(c, "starting") /\ UNCHANGED status
    <3>1. call'["dispatch"] \notin {"ready", "free"} => call["dispatch"] \notin {"ready", "free"}
      BY <1>6, <2>2, GoesType DEF Record, Steps
    <3> QED
      BY <1>6, <2>2, <3>1 DEF Record, queueVars
  <2> QED
    BY <1>6, <2>1, <2>2 DEF Record
<1>7. CASE Started(c)
  BY <1>7 DEF Started, FailedStatus
<1> QED
  BY <1>1, <1>2, <1>3, <1>4, <1>5, <1>6, <1>7 DEF CallStep

LEMMA QueueOperationWakes ==
  ASSUME TypeOK, Shape, IdleInv, QueueOperation
  PROVE  IdleInv'
<1>1. UNCHANGED <<status, dispatching, call, wakes, missed>>
  BY DEF QueueOperation, remove_queued_turn, steer_queued_turn, edit_queued_turn,
     reorder_queued_turns
<1>2. op.kind = "none"
  BY QuietType DEF QueueOperation, remove_queued_turn, steer_queued_turn, edit_queued_turn,
     reorder_queued_turns, StartsOperation
<1>3. queue' # <<>> => queue # <<>>
  <2>1. CASE \E i \in DOMAIN queue : TRUE
    BY <2>1
  <2>2. CASE \E order \in [DOMAIN queue -> DOMAIN queue] : reorder_queued_turns(order)
    <3>1. PICK order \in [DOMAIN queue -> DOMAIN queue] : reorder_queued_turns(order)
      BY <2>2
    <3>2. queue' = [i \in DOMAIN queue |-> queue[order[i]]]
      BY <3>1 DEF reorder_queued_turns
    <3>3. queue' \in Seq(Full) /\ Len(queue') = Len(queue)
      BY <3>2, ReorderType DEF Shape
    <3> QED
      BY <3>3 DEF Shape
  <2> QED
    BY <2>1, <2>2 DEF QueueOperation
<1> QED
  BY <1>1, <1>2, <1>3 DEF IdleInv, IdleQueueIsWoken, CrossingIsWoken, Woken

LEMMA RestoreWakes ==
  ASSUME NEW saved, Restore(saved) PROVE IdleInv'
BY DEF Restore, IdleInv, IdleQueueIsWoken, CrossingIsWoken, Woken

LEMMA NextWakes ==
  ASSUME TypeOK, Shape, IdleInv, [Next]_vars PROVE IdleInv'
<1> USE DEF IdleInv, IdleQueueIsWoken, CrossingIsWoken, Woken
<1>1. CASE Resume
  BY <1>1 DEF Resume
<1>2. CASE TurnEnd
  BY <1>2 DEF TurnEnd, TypeOK
<1>3. CASE DispatchNext
  <2>1. CASE queued_turn_is_held
    <3>1. UNCHANGED <<status, queue, dispatching, call, op>>
      BY <1>3, <2>1 DEF DispatchNext, queueVars
    <3>2. missed' = (missed \/ dispatching # Nothing)
      BY <1>3, <2>1 DEF DispatchNext
    <3>3. CASE dispatching # Nothing
      BY <3>2, <3>3
    <3>4. CASE dispatching = Nothing
      BY <2>1, <3>1, <3>4 DEF queued_turn_is_held, thread_is_busy
    <3> QED
      BY <3>3, <3>4
  <2>2. CASE ~queued_turn_is_held
    <3>1. /\ dispatching' = Head(queue) /\ Goes("dispatch", "ready")
          /\ queue # <<>>
      BY <1>3, <2>2 DEF DispatchNext, queued_turn_is_held
    <3>2. dispatching' # Nothing
      BY <3>1, NothingIsEmpty DEF Shape
    <3>3. call'["dispatch"] = "ready"
      BY <3>1, GoesType DEF Callers, Steps
    <3> QED
      BY <3>2, <3>3
  <2> QED
    BY <2>1, <2>2
<1>4. CASE Dispatched
  <2>1. dispatching # Nothing /\ call["dispatch"] \in {"done", "failed"}
    BY <1>4 DEF Dispatched, Shape
  <2> QED
    BY <1>4, <2>1 DEF Dispatched
<1>5. CASE CommitDispatch
  BY <1>5 DEF CommitDispatch, queueVars
<1>6. CASE SteerAnswered
  <2>1. op.kind = "steering" /\ UNCHANGED <<status, dispatching, call, wakes>>
    BY <1>6 DEF SteerAnswered
  <2>2. CASE UNCHANGED <<queue, missed>>
    BY <2>1, <2>2
  <2>3. CASE missed' = (missed \/ ~thread_is_busy)
    BY <2>1, <2>3 DEF thread_is_busy
  <2> QED
    BY <1>6, <2>2, <2>3 DEF SteerAnswered
<1>7. CASE SaveOperation
  BY <1>7, QuietType DEF SaveOperation, queueVars
<1>8. CASE Acknowledge
  <2>1. op'.kind = "acknowledging"
    BY <1>8 DEF Acknowledge, StartsOperation, Operation
  <2> QED
    BY <2>1
<1>9. CASE Acknowledged
  BY <1>9 DEF Acknowledged, TypeOK
<1>10. CASE UNCHANGED vars
  BY <1>10 DEF vars, queueVars
<1> QED
  BY <1>1, <1>2, <1>3, <1>4, <1>5, <1>6, <1>7, <1>8, <1>9, <1>10, CallStepWakes,
     QueueOperationWakes, RestoreWakes DEF Next, Crash, Shutdown

(* A queue behind an idle thread has a dispatch on its way, but for the    *)
(* two overlaps that the model names.                                      *)
THEOREM IdleQueuesAreWoken == Spec => []IdleQueueIsWoken
<1>1. Init => IdleInv
  BY DEF Init, IdleInv, IdleQueueIsWoken, CrossingIsWoken
<1>2. TypeOK /\ Shape /\ IdleInv /\ [Next]_vars => IdleInv'
  BY NextWakes
<1>3. IdleInv => IdleQueueIsWoken
  BY DEF IdleInv
<1> QED
  BY <1>1, <1>2, <1>3, TypeCorrect, PTL DEF Spec

-----------------------------------------------------------------------------
(* The bound.  What a write finds in memory is bounded as the queue is, so *)
(* the file, and the queue a restart takes from it, are.                   *)
BoundInv == QueueIsBounded /\ Len(disk.queue) <= MAX_QUEUED_TURNS + 2

Held    == IF dispatching = Nothing THEN 0 ELSE 1
Carried == IF op.kind = "steering" THEN 1 ELSE 0

LEMMA LoadIsBounded ==
  ASSUME BoundInv
  PROVE  /\ Held \in 0..1 /\ Carried \in 0..1
         /\ Len(queue) + Held + Carried <= MAX_QUEUED_TURNS + 2
<1>1. Held \in 0..1 /\ Carried \in 0..1
  BY DEF Held, Carried
<1>2. Len(queue) + Held + Carried <= MAX_QUEUED_TURNS + 2
  BY DEF BoundInv, QueueIsBounded, Held, Carried
<1> QED
  BY <1>1, <1>2

LEMMA PersistKeepsBound ==
  ASSUME TypeOK, Shape, BoundInv, NEW ok \in BOOLEAN, TryPersist(ok)
  PROVE  Len(disk'.queue) <= MAX_QUEUED_TURNS + 2
<1>1. Len(Snapshot.queue) <= MAX_QUEUED_TURNS + 2
  <2>1. Len(Snapshot.queue) = Len(queue) + Held
    BY SnapshotType DEF Held
  <2>2. Len(queue) + Held + (IF op.kind = "steering" THEN 1 ELSE 0) <= MAX_QUEUED_TURNS + 2
    BY DEF BoundInv, QueueIsBounded, Held
  <2>3. Len(queue) \in Nat /\ Held \in Nat
    BY DEF TypeOK, Held
  <2> QED
    BY <2>1, <2>2, <2>3, LimitsAssumption
<1>2. disk' = Snapshot \/ disk' = disk
  BY TryPersistStep
<1> QED
  BY <1>1, <1>2 DEF BoundInv

LEMMA RestoreBound ==
  ASSUME NEW saved, Restore(saved), saved.queue \in Seq(Full),
         Len(saved.queue) <= MAX_QUEUED_TURNS + 2
  PROVE  BoundInv'
<1>1. queue' = saved.queue /\ dispatching' = Nothing /\ op'.kind = "none" /\ disk' = saved
  BY QuietType DEF Restore
<1>2. Len(saved.queue) \in Nat
  OBVIOUS
<1> QED
  BY <1>1, <1>2, LimitsAssumption DEF BoundInv, QueueIsBounded

(* The entry a send parks finds room for itself and for the two entries    *)
(* that may come back.                                                     *)
LEMMA TryEnqueueBound ==
  ASSUME TypeOK, Shape, BoundInv, NEW c \in Callers, TryEnqueue(c)
  PROVE  BoundInv'
<1>1. UNCHANGED <<dispatching, op, disk>>
  BY DEF TryEnqueue
<1>2. Len(queue) \in Nat
  BY DEF TypeOK
<1>3. Len(queue') = Len(queue) \/ (Len(queue) < MAX_QUEUED_TURNS /\ Len(queue') = Len(queue) + 1)
  <2>1. CASE queue' = queue
    BY <2>1
  <2>2. CASE merge_agent_message(c) /\ queue' = Merged(c)
    BY <2>2, MergedType
  <2>3. CASE ~merge_agent_message(c) /\ ~QueueIsFull /\ queue' = Append(queue, EntryOf(c))
    <3>1. Len(queue') = Len(queue) + 1
      BY <2>3 DEF TypeOK
    <3> QED
      BY <1>2, <2>3, <3>1, LimitsAssumption DEF QueueIsFull
  <2> QED
    BY <2>1, <2>2, <2>3 DEF TryEnqueue
<1>4. Held' = Held /\ Carried' = Carried
  BY <1>1 DEF Held, Carried
<1>5. Len(queue') + Held' + Carried' <= MAX_QUEUED_TURNS + 2
  BY <1>2, <1>3, <1>4, LoadIsBounded, LimitsAssumption
<1> QED
  BY <1>1, <1>5 DEF BoundInv, QueueIsBounded, Held, Carried

LEMMA QueueOperationBound ==
  ASSUME TypeOK, Shape, BoundInv, QueueOperation
  PROVE  BoundInv'
<1>1. UNCHANGED <<dispatching, disk>>
  BY DEF QueueOperation, remove_queued_turn, steer_queued_turn, edit_queued_turn,
     reorder_queued_turns
<1>2. op.kind = "none" /\ Len(queue) \in Nat /\ queue \in Seq(Full)
  BY QuietType DEF QueueOperation, remove_queued_turn, steer_queued_turn, edit_queued_turn,
     reorder_queued_turns, StartsOperation, TypeOK, Shape
<1>3. \/ Len(queue') = Len(queue) - 1
      \/ Len(queue') = Len(queue) /\ op'.kind \in {"saving", "editing"}
  <2>1. CASE \E i \in DOMAIN queue : remove_queued_turn(i) \/ steer_queued_turn(i)
    BY <1>2, <2>1, RemoveAtType DEF remove_queued_turn, steer_queued_turn
  <2>2. CASE \E i \in DOMAIN queue, w \in Edits : edit_queued_turn(i, w)
    BY <1>2, <2>2 DEF edit_queued_turn, StartsOperation, Operation
  <2>3. CASE \E order \in [DOMAIN queue -> DOMAIN queue] : reorder_queued_turns(order)
    BY <1>2, <2>3, ReorderType DEF reorder_queued_turns, StartsOperation, Operation
  <2> QED
    BY <2>1, <2>2, <2>3 DEF QueueOperation
<1>4. Held' = Held /\ Carried = 0 /\ Carried' \in 0..1
  BY <1>1, <1>2 DEF Held, Carried
<1>5. op'.kind \in {"saving", "editing"} => Carried' = 0
  BY DEF Carried
<1>6. Len(queue') + Held' + Carried' <= MAX_QUEUED_TURNS + 2
  BY <1>2, <1>3, <1>4, <1>5, LoadIsBounded, LimitsAssumption
<1> QED
  BY <1>1, <1>6 DEF BoundInv, QueueIsBounded, Held, Carried

LEMMA NextBound ==
  ASSUME TypeOK, Shape, BoundInv, [Next]_vars PROVE BoundInv'
<1> USE DEF BoundInv, QueueIsBounded
<1>1. Len(queue) \in Nat
  BY DEF TypeOK
<1>2. CASE UNCHANGED <<queue, dispatching, op, disk>>
  BY <1>2
<1>3. ASSUME NEW c \in Callers, CallStep(c) PROVE BoundInv'
  <2>1. CASE TrySteer(c) \/ Steered(c) \/ Begin(c) \/ Started(c)
    BY <1>2, <2>1 DEF TrySteer, Steered, Begin, Started, queueVars
  <2>2. CASE TryEnqueue(c)
    BY <2>2, TryEnqueueBound
  <2>3. CASE SaveQueued(c)
    <3>1. UNCHANGED <<queue, dispatching, op>>
      BY <2>3 DEF SaveQueued, queueVars
    <3>2. Len(disk'.queue) <= MAX_QUEUED_TURNS + 2
      BY <2>3, PersistKeepsBound DEF SaveQueued
    <3> QED
      BY <3>1, <3>2
  <2>4. CASE Record(c)
    <3>1. UNCHANGED <<queue, dispatching, op>>
      BY <2>4 DEF Record, queueVars
    <3>2. Len(disk'.queue) <= MAX_QUEUED_TURNS + 2
      BY <2>4, PersistKeepsBound DEF Record
    <3> QED
      BY <3>1, <3>2
  <2> QED
    BY <1>3, <2>1, <2>2, <2>3, <2>4 DEF CallStep
<1>4. CASE Resume \/ TurnEnd
  BY <1>2, <1>4 DEF Resume, TurnEnd, queueVars
<1>5. CASE DispatchNext
  <2>1. CASE queued_turn_is_held
    BY <1>2, <1>5, <2>1 DEF DispatchNext, queueVars
  <2>2. CASE ~queued_turn_is_held
    <3>1. queue # <<>> /\ dispatching = Nothing
      BY <2>2 DEF queued_turn_is_held
    <3>2. queue' = Tail(queue) /\ UNCHANGED <<op, disk>>
      BY <1>5, <2>2 DEF DispatchNext
    <3>3. Len(queue') = Len(queue) - 1
      BY <3>1, <3>2 DEF TypeOK
    <3>4. Held = 0 /\ Held' \in 0..1 /\ Carried' = Carried
      BY <3>1, <3>2 DEF Held, Carried
    <3>5. Len(queue') + Held' + Carried' <= MAX_QUEUED_TURNS + 2
      BY <1>1, <3>3, <3>4, LoadIsBounded, LimitsAssumption
    <3> QED
      BY <3>2, <3>5 DEF Held, Carried
  <2> QED
    BY <2>1, <2>2
<1>6. CASE Dispatched
  <2>1. dispatching # Nothing /\ dispatching \in Full /\ dispatching' = Nothing
    BY <1>6 DEF Dispatched, Shape
  <2>2. queue' = queue \/ queue' = <<dispatching>> \o queue
    BY <1>6 DEF Dispatched
  <2>3. Len(<<dispatching>> \o queue) = Len(queue) + 1
    BY <2>1 DEF Shape
  <2>4. UNCHANGED <<op, disk>>
    BY <1>6 DEF Dispatched
  <2> QED
    BY <1>1, <2>1, <2>2, <2>3, <2>4, LimitsAssumption
<1>7. CASE CommitDispatch
  <2>1. UNCHANGED <<queue, dispatching, op>>
    BY <1>7 DEF CommitDispatch, queueVars
  <2>2. Len(disk'.queue) <= MAX_QUEUED_TURNS + 2
    BY <1>7, PersistKeepsBound DEF CommitDispatch
  <2> QED
    BY <2>1, <2>2
<1>8. CASE SteerAnswered
  <2>1. op.kind = "steering" /\ op'.kind = "saving" /\ UNCHANGED <<dispatching, disk>>
    BY <1>8 DEF SteerAnswered, Operation
  <2>2. Len(queue') <= Len(queue) + 1 /\ Len(queue') \in Nat
    BY <1>8, SteerAnsweredQueue
  <2> QED
    BY <1>1, <2>1, <2>2, LimitsAssumption
<1>9. CASE SaveOperation \/ Acknowledged
  <2>1. UNCHANGED <<queue, dispatching>> /\ op.kind # "steering" /\ op'.kind = "none"
    BY <1>9, QuietType DEF SaveOperation, Acknowledged, queueVars
  <2>2. Len(disk'.queue) <= MAX_QUEUED_TURNS + 2
    BY <1>9, PersistKeepsBound DEF SaveOperation, Acknowledged
  <2> QED
    BY <2>1, <2>2
<1>10. CASE Acknowledge
  <2>1. op.kind = "none" /\ op'.kind = "acknowledging" /\ UNCHANGED <<queue, dispatching, disk>>
    BY <1>10, QuietType DEF Acknowledge, StartsOperation, Operation, queueVars
  <2> QED
    BY <2>1
<1>11. CASE Crash
  BY <1>11, RestoreBound DEF Crash, Shape
<1>12. CASE Shutdown
  <2>1. Len(Snapshot.queue) <= MAX_QUEUED_TURNS + 2 /\ Snapshot.queue \in Seq(Full)
    <3>1. Len(Snapshot.queue) = Len(queue) + Held /\ Held \in Nat
      BY SnapshotType DEF Held
    <3>2. Len(queue) + Held + (IF op.kind = "steering" THEN 1 ELSE 0) <= MAX_QUEUED_TURNS + 2
      BY DEF Held
    <3> QED
      BY <1>1, <3>1, <3>2, SnapshotType, LimitsAssumption
  <2> DEFINE saved == [Snapshot EXCEPT !.status = CutOff(@)]
  <2>2. saved.queue = Snapshot.queue
    BY SnapshotType
  <2> HIDE DEF saved
  <2>3. Restore(saved)
    BY <1>12 DEF Shutdown, saved
  <2> QED
    BY <2>1, <2>2, <2>3, RestoreBound
<1>13. CASE UNCHANGED vars
  BY <1>2, <1>13 DEF vars, queueVars
<1> QED
  BY <1>3, <1>4, <1>5, <1>6, <1>7, <1>8, <1>9, <1>10, <1>11, <1>12, <1>13,
     QueueOperationBound DEF Next

(* The queue, with the entries that are out of it but may come back, never *)
(* exceeds its limit by more than those two, across restarts too.          *)
THEOREM QueueStaysBounded == Spec => []QueueIsBounded
<1>1. Init => BoundInv
  BY LimitsAssumption, QuietType DEF Init, BoundInv, QueueIsBounded
<1>2. TypeOK /\ Shape /\ BoundInv /\ [Next]_vars => BoundInv'
  BY NextBound
<1>3. BoundInv => QueueIsBounded
  BY DEF BoundInv
<1> QED
  BY <1>1, <1>2, <1>3, TypeCorrect, PTL DEF Spec

-----------------------------------------------------------------------------
(* Where the words of every message are.                                   *)
Queued   == WordsIn(queue)
Crossing == WordsOf(dispatching)
Gone     == sent \cup withdrawn
Owed     == InMemory \cup OnDisk

(* The steps of a send before anyone took its message.                     *)
Unheard == {"ready", "steering", "unsteered", "free", "recording", "starting"}

(* Where every word is accounted for.  The last two conjuncts are about    *)
(* the callers: a message whose call is not past its start was never       *)
(* taken, and what a call or an edit is about to confirm is not lost.      *)
Accounts ==
  /\ ConfirmedIsKept
  /\ OnDisk \subseteq InMemory \cup Gone
  /\ Gone \cup InMemory \cup acked \subseteq taken
  /\ call["dispatch"] \in {"saving", "done"} => Crossing \subseteq Gone \cup Queued \cup Steering
  /\ op.kind = "editing" => WordsOf(op.entry) \subseteq Gone \cup InMemory
  /\ op.kind \notin {"editing", "steering"} => op.entry = Nothing
  /\ \A c \in Messages :
       /\ call[c] \in Unheard => c \notin taken
       /\ call[c] = "saving" => c \in Gone \cup InMemory

-----------------------------------------------------------------------------
(* The words of sequences of entries.                                      *)
LEMMA WordsOfNothing == WordsOf(Nothing) = {}
BY DEF WordsOf, Nothing, ToSet

LEMMA InWordsIn ==
  ASSUME NEW s \in Seq(Entries), NEW w
  PROVE  w \in WordsIn(s) <=> \E i \in 1..Len(s) : w \in WordsOf(s[i])
<1>1. DOMAIN s = 1..Len(s)
  OBVIOUS
<1> QED
  BY <1>1 DEF WordsIn

LEMMA WordsInConcat ==
  ASSUME NEW s \in Seq(Entries), NEW t \in Seq(Entries)
  PROVE  WordsIn(s \o t) = WordsIn(s) \cup WordsIn(t)
<1>1. s \o t \in Seq(Entries) /\ Len(s \o t) = Len(s) + Len(t)
  BY ConcatType
<1>2. ASSUME NEW w \in WordsIn(s \o t) PROVE w \in WordsIn(s) \cup WordsIn(t)
  <2>1. PICK i \in 1..Len(s \o t) : w \in WordsOf((s \o t)[i])
    BY <1>1, <1>2, InWordsIn
  <2>2. CASE i <= Len(s)
    <3>1. (s \o t)[i] = s[i] /\ i \in 1..Len(s)
      BY <1>1, <2>2
    <3> QED
      BY <2>1, <3>1, InWordsIn
  <2>3. CASE i > Len(s)
    <3>1. (s \o t)[i] = t[i - Len(s)] /\ i - Len(s) \in 1..Len(t)
      BY <1>1, <2>3
    <3> QED
      BY <2>1, <3>1, InWordsIn
  <2> QED
    BY <1>1, <2>2, <2>3
<1>3. ASSUME NEW w \in WordsIn(s) PROVE w \in WordsIn(s \o t)
  <2>1. PICK i \in 1..Len(s) : w \in WordsOf(s[i])
    BY <1>3, InWordsIn
  <2>2. (s \o t)[i] = s[i] /\ i \in 1..Len(s \o t)
    BY <1>1
  <2> QED
    BY <1>1, <2>1, <2>2, InWordsIn
<1>4. ASSUME NEW w \in WordsIn(t) PROVE w \in WordsIn(s \o t)
  <2>1. PICK i \in 1..Len(t) : w \in WordsOf(t[i])
    BY <1>4, InWordsIn
  <2>2. (s \o t)[i + Len(s)] = t[i] /\ i + Len(s) \in 1..Len(s \o t)
    BY <1>1
  <2> QED
    BY <1>1, <2>1, <2>2, InWordsIn
<1> QED
  BY <1>2, <1>3, <1>4

LEMMA WordsInOne ==
  ASSUME NEW e \in Entries PROVE WordsIn(<<e>>) = WordsOf(e)
<1>1. <<e>> \in Seq(Entries) /\ Len(<<e>>) = 1 /\ <<e>>[1] = e
  OBVIOUS
<1>2. DOMAIN <<e>> = {1}
  OBVIOUS
<1> QED
  BY <1>1, <1>2 DEF WordsIn

LEMMA WordsInCons ==
  ASSUME NEW s \in Seq(Entries), NEW e \in Entries
  PROVE  /\ WordsIn(<<e>> \o s) = WordsOf(e) \cup WordsIn(s)
         /\ WordsIn(Append(s, e)) = WordsIn(s) \cup WordsOf(e)
<1>1. <<e>> \in Seq(Entries)
  OBVIOUS
<1>2. Append(s, e) = s \o <<e>>
  OBVIOUS
<1> QED
  BY <1>1, <1>2, WordsInConcat, WordsInOne

LEMMA WordsInTail ==
  ASSUME NEW s \in Seq(Entries), s # <<>>
  PROVE  WordsIn(s) = WordsOf(Head(s)) \cup WordsIn(Tail(s))
<1>1. Head(s) \in Entries /\ Tail(s) \in Seq(Entries) /\ s = <<Head(s)>> \o Tail(s)
  OBVIOUS
<1> QED
  BY <1>1, WordsInCons

LEMMA WordsInSplit ==
  ASSUME NEW s \in Seq(Entries), NEW i \in 1..(Len(s) + 1)
  PROVE  /\ SubSeq(s, 1, i - 1) \in Seq(Entries) /\ SubSeq(s, i, Len(s)) \in Seq(Entries)
         /\ WordsIn(s) = WordsIn(SubSeq(s, 1, i - 1)) \cup WordsIn(SubSeq(s, i, Len(s)))
<1>1. SubSeq(s, 1, i - 1) \in Seq(Entries) /\ SubSeq(s, i, Len(s)) \in Seq(Entries)
  OBVIOUS
<1>2. s = SubSeq(s, 1, i - 1) \o SubSeq(s, i, Len(s))
  <2>1. /\ Len(s) \in Nat /\ (i - 1) + 1 = i
        /\ 1 \in 1..(Len(s) + 1) /\ i - 1 \in (1 - 1)..Len(s) /\ Len(s) \in (i - 1)..Len(s)
    OBVIOUS
  <2>2. SubSeq(s, 1, i - 1) \o SubSeq(s, (i - 1) + 1, Len(s)) = SubSeq(s, 1, Len(s))
    BY <2>1, ConcatAdjacentSubSeq
  <2> QED
    BY <2>1, <2>2, SubSeqFull
<1> QED
  BY <1>1, <1>2, WordsInConcat

LEMMA WordsInRemoveAt ==
  ASSUME NEW s \in Seq(Entries), NEW i \in DOMAIN s
  PROVE  WordsIn(s) = WordsOf(s[i]) \cup WordsIn(RemoveAt(s, i))
<1> DEFINE front == SubSeq(s, 1, i - 1)
           back  == SubSeq(s, i + 1, Len(s))
<1>1. i \in 1..Len(s) /\ Len(s) \in Nat /\ s[i] \in Entries
  OBVIOUS
<1>2. front \in Seq(Entries) /\ back \in Seq(Entries)
  BY <1>1
<1>3. SubSeq(s, i, Len(s)) = <<s[i]>> \o back
  <2>1. Len(s) \in i..Len(s)
    BY <1>1
  <2> QED
    BY <1>1, <2>1, SubSeqRecursiveFirst
<1>4. WordsIn(s) = WordsIn(front) \cup WordsIn(SubSeq(s, i, Len(s)))
  BY <1>1, WordsInSplit
<1>5. RemoveAt(s, i) = front \o back
  BY DEF RemoveAt
<1> HIDE DEF front, back
<1>6. WordsIn(<<s[i]>> \o back) = WordsOf(s[i]) \cup WordsIn(back)
  BY <1>1, <1>2, WordsInCons
<1>7. WordsIn(front \o back) = WordsIn(front) \cup WordsIn(back)
  BY <1>2, WordsInConcat
<1> QED
  BY <1>3, <1>4, <1>5, <1>6, <1>7

LEMMA WordsInInsertAt ==
  ASSUME NEW s \in Seq(Entries), NEW i \in 1..(Len(s) + 1), NEW e \in Entries
  PROVE  WordsIn(InsertAt(s, i, e)) = WordsIn(s) \cup WordsOf(e)
<1> DEFINE front == SubSeq(s, 1, i - 1)
           back  == SubSeq(s, i, Len(s))
           one   == <<e>>
<1>1. /\ front \in Seq(Entries) /\ back \in Seq(Entries)
      /\ WordsIn(s) = WordsIn(front) \cup WordsIn(back)
  BY WordsInSplit
<1>2. InsertAt(s, i, e) = (front \o one) \o back
  BY DEF InsertAt
<1>3. one \in Seq(Entries) /\ WordsIn(one) = WordsOf(e)
  BY WordsInOne
<1> HIDE DEF front, back, one
<1>4. front \o one \in Seq(Entries)
  BY <1>1, <1>3, ConcatType
<1>5. WordsIn(front \o one) = WordsIn(front) \cup WordsOf(e)
  BY <1>1, <1>3, WordsInConcat
<1>6. WordsIn((front \o one) \o back) = WordsIn(front \o one) \cup WordsIn(back)
  BY <1>1, <1>4, WordsInConcat
<1> QED
  BY <1>1, <1>2, <1>5, <1>6

LEMMA WordsInExcept ==
  ASSUME NEW s \in Seq(Entries), NEW i \in DOMAIN s, NEW e \in Entries
  PROVE  LET t == [s EXCEPT ![i] = e]
         IN  /\ WordsOf(e) \subseteq WordsIn(t)
             /\ WordsIn(t) \subseteq WordsIn(s) \cup WordsOf(e)
             /\ WordsIn(s) \subseteq WordsIn(t) \cup WordsOf(s[i])
<1> DEFINE t == [s EXCEPT ![i] = e]
<1>1. DOMAIN t = DOMAIN s /\ t[i] = e /\ \A j \in DOMAIN s : j # i => t[j] = s[j]
  OBVIOUS
<1> HIDE DEF t
<1>2. WordsOf(e) \subseteq WordsIn(t)
  BY <1>1 DEF WordsIn
<1>3. WordsIn(t) \subseteq WordsIn(s) \cup WordsOf(e)
  BY <1>1 DEF WordsIn
<1>4. WordsIn(s) \subseteq WordsIn(t) \cup WordsOf(s[i])
  BY <1>1 DEF WordsIn
<1> QED
  BY <1>2, <1>3, <1>4 DEF t

LEMMA WordsInReorder ==
  ASSUME NEW s \in Seq(Entries), NEW order \in Bijection(DOMAIN s, DOMAIN s)
  PROVE  WordsIn([i \in DOMAIN s |-> s[order[i]]]) = WordsIn(s)
<1> DEFINE t == [i \in DOMAIN s |-> s[order[i]]]
<1>1. /\ \A i \in DOMAIN s : order[i] \in DOMAIN s
      /\ \A j \in DOMAIN s : \E i \in DOMAIN s : order[i] = j
  BY DEF Bijection, Injection, Surjection
<1>2. DOMAIN t = DOMAIN s /\ \A i \in DOMAIN s : t[i] = s[order[i]]
  OBVIOUS
<1> HIDE DEF t
<1>3. WordsIn(t) \subseteq WordsIn(s)
  BY <1>1, <1>2 DEF WordsIn
<1>4. WordsIn(s) \subseteq WordsIn(t)
  <2> SUFFICES ASSUME NEW j \in DOMAIN s, NEW w \in WordsOf(s[j]) PROVE w \in WordsIn(t)
    BY DEF WordsIn
  <2>1. PICK i \in DOMAIN s : order[i] = j
    BY <1>1
  <2> QED
    BY <1>2, <2>1 DEF WordsIn
<1> QED
  BY <1>3, <1>4 DEF t

LEMMA WordsInMerged ==
  ASSUME TypeOK, Shape, NEW c, merge_agent_message(c)
  PROVE  WordsIn(Merged(c)) = WordsIn(queue) \cup {c}
<1> DEFINE k == NewestAgentEntry
           e == [queue[k] EXCEPT !.words = Append(@, c)]
<1>1. k \in DOMAIN queue /\ queue[k] \in Entries /\ e \in Entries
  BY MergedEntry, FullIsEntry
<1>2. Merged(c) = [queue EXCEPT ![k] = e]
  BY DEF Merged
<1>3. WordsOf(e) = WordsOf(queue[k]) \cup {c}
  <2> DEFINE ws == queue[k].words
  <2>1. ws \in Seq(Words) /\ e.words = Append(ws, c)
    BY <1>1 DEF Entries
  <2> HIDE DEF ws
  <2>2. /\ DOMAIN ws = 1..Len(ws) /\ Len(ws) \in Nat
        /\ DOMAIN Append(ws, c) = 1..(Len(ws) + 1) /\ Append(ws, c)[Len(ws) + 1] = c
        /\ \A i \in 1..Len(ws) : Append(ws, c)[i] = ws[i]
    BY <2>1
  <2>3. 1..(Len(ws) + 1) = (1..Len(ws)) \cup {Len(ws) + 1}
    BY <2>2
  <2>4. ToSet(Append(ws, c)) = ToSet(ws) \cup {c}
    BY <2>2, <2>3 DEF ToSet
  <2> QED
    BY <2>1, <2>4 DEF WordsOf, ws
<1> HIDE DEF k, e
<1>4. queue \in Seq(Entries)
  BY DEF TypeOK
<1>5. WordsOf(queue[k]) \subseteq WordsIn(queue)
  BY <1>1 DEF WordsIn
<1> QED
  BY <1>1, <1>2, <1>3, <1>4, <1>5, WordsInExcept

(* What a write records.                                                   *)
LEMMA WordsInSnapshot ==
  ASSUME TypeOK, Shape PROVE WordsIn(Snapshot.queue) = Queued \cup Crossing
<1>1. queue \in Seq(Entries) /\ dispatching \in Entries
  BY DEF TypeOK
<1>2. CASE dispatching = Nothing
  <2>1. Snapshot.queue = <<>> \o queue /\ <<>> \o queue = queue
    BY <1>1, <1>2 DEF Snapshot
  <2> QED
    BY <1>2, <2>1, WordsOfNothing DEF Queued, Crossing
<1>3. CASE dispatching # Nothing
  <2>1. Snapshot.queue = <<dispatching>> \o queue
    BY <1>3 DEF Snapshot
  <2> QED
    BY <1>1, <2>1, WordsInCons DEF Queued, Crossing
<1> QED
  BY <1>2, <1>3

-----------------------------------------------------------------------------
(* What a step of the living process does to the words: the work of an     *)
(* outbox.                                                                 *)
Flow ==
  /\ taken \subseteq taken' /\ acked \subseteq acked'
  /\ sent \subseteq sent' /\ withdrawn \subseteq withdrawn'
  /\ (Owed' \ Owed) \cap taken = {}
  /\ (sent' \ sent) \cap (taken \ Owed) = {}
  /\ Owed \ Owed' \subseteq Gone'

LEMMA SaidFacts ==
  /\ \A c \in Messages : Said(c) = {c}
  /\ Said("dispatch") = Crossing /\ Said("resume") = {}
<1>1. ASSUME NEW c \in Messages PROVE Said(c) = {c}
  <2>1. SaidBy(c) = <<c>>
    BY MessageIsNoTask DEF SaidBy
  <2>2. DOMAIN <<c>> = {1} /\ <<c>>[1] = c
    OBVIOUS
  <2> QED
    BY <2>1, <2>2 DEF Said, ToSet
<1>2. Said("dispatch") = Crossing
  BY DEF Said, SaidBy, Crossing, WordsOf
<1>3. Said("resume") = {}
  <2>1. DOMAIN <<>> = {}
    OBVIOUS
  <2> QED
    BY <2>1 DEF Said, SaidBy, ToSet
<1> QED
  BY <1>1, <1>2, <1>3

(* A call moves on and nothing else.                                       *)
LEMMA CallFlow ==
  ASSUME TypeOK, Accounts, UNCHANGED <<queueVars, op, disk, heardVars, sentVars, exposed>>,
         NEW c \in Callers, NEW s \in Steps \ {"saving"}, Goes(c, s),
         s = "done" => c # "dispatch",
         s \in Unheard => call[c] \in Unheard \/ c \notin Messages
  PROVE  Accounts' /\ Flow
<1>1. UNCHANGED <<queue, dispatching, op, disk, taken, acked, withdrawn, sent, exposed>>
  BY DEF queueVars, heardVars, sentVars
<1>2. /\ Queued' = Queued /\ Crossing' = Crossing /\ Steering' = Steering
      /\ InMemory' = InMemory /\ OnDisk' = OnDisk /\ Gone' = Gone /\ Owed' = Owed
  BY <1>1 DEF Queued, Crossing, Steering, InMemory, OnDisk, Gone, Owed
<1>3. ConfirmedIsKept'
  BY <1>1, <1>2 DEF ConfirmedIsKept, Accounts
<1>4. call'["dispatch"] \in {"saving", "done"} => call'["dispatch"] = call["dispatch"]
  BY GoesType DEF Callers
<1>5. \A d \in Messages :
        /\ call'[d] \in Unheard => call[d] \in Unheard
        /\ call'[d] = "saving" => call[d] = "saving"
  BY GoesType DEF Callers
<1>6. Accounts'
  BY <1>1, <1>2, <1>3, <1>4, <1>5 DEF Accounts
<1> QED
  BY <1>1, <1>2, <1>6 DEF Flow

(* The agent gets the words of a call.                                     *)
LEMMA GivenFlow ==
  ASSUME TypeOK, Accounts, UNCHANGED <<queueVars, op, disk, acked, withdrawn, exposed>>,
         NEW c \in Callers, NEW s \in {"done", "failed"}, Goes(c, s), call[c] \in Unheard,
         GivenToAgent(Said(c)), taken' = taken \cup Said(c)
  PROVE  Accounts' /\ Flow
<1>1. UNCHANGED <<queue, dispatching, op, disk, acked, withdrawn, exposed>>
  BY DEF queueVars
<1>2. /\ Queued' = Queued /\ Crossing' = Crossing /\ Steering' = Steering
      /\ InMemory' = InMemory /\ OnDisk' = OnDisk /\ Owed' = Owed
  BY <1>1 DEF Queued, Crossing, Steering, InMemory, OnDisk, Owed
<1>3. sent' = sent \cup Said(c) /\ Gone' = Gone \cup Said(c)
  BY <1>1 DEF GivenToAgent, Gone
<1>4. ConfirmedIsKept'
  BY <1>1, <1>2, <1>3 DEF ConfirmedIsKept, Accounts
<1>5. \/ c \in Messages /\ Said(c) = {c} /\ c \notin taken
      \/ c = "dispatch" /\ Said(c) = Crossing
      \/ c = "resume" /\ Said(c) = {}
  BY SaidFacts DEF Callers, Accounts
<1>6. Crossing \subseteq taken /\ Crossing \subseteq Owed
  BY DEF Accounts, InMemory, Owed, Crossing
<1>7. \A d \in Callers : /\ d # c => call'[d] = call[d]
                         /\ d = c => call'[d] = s
  BY GoesType DEF Steps
<1>8. \A d \in Messages :
        /\ call'[d] \in Unheard => call[d] \in Unheard /\ d # c
        /\ call'[d] = "saving" => call[d] = "saving"
  BY <1>7 DEF Callers, Unheard
<1>9. \A d \in Messages : call'[d] \in Unheard => d \notin taken'
  BY <1>5, <1>6, <1>8 DEF Accounts
<1>10. call'["dispatch"] \in {"saving", "done"} =>
         Crossing \subseteq Gone' \cup Queued \cup Steering
  BY <1>3, <1>5, <1>7, MessageIsNoTask DEF Accounts, Callers
<1>11. Accounts'
  <2>1. Gone' \cup InMemory' \cup acked' \subseteq taken'
    BY <1>1, <1>2, <1>3 DEF Accounts
  <2>2. OnDisk' \subseteq InMemory' \cup Gone'
    BY <1>2, <1>3 DEF Accounts
  <2>3. op'.kind = "editing" => WordsOf(op'.entry) \subseteq Gone' \cup InMemory'
    BY <1>1, <1>2, <1>3 DEF Accounts
  <2>4. \A d \in Messages : call'[d] = "saving" => d \in Gone' \cup InMemory'
    BY <1>2, <1>3, <1>8 DEF Accounts
  <2> QED
    BY <1>1, <1>2, <1>4, <1>9, <1>10, <2>1, <2>2, <2>3, <2>4 DEF Accounts
<1>12. Flow
  BY <1>1, <1>2, <1>3, <1>5, <1>6 DEF Flow
<1> QED
  BY <1>11, <1>12

(* A write, and what is confirmed when it succeeds.                        *)
LEMMA PersistFlow ==
  ASSUME TypeOK, Shape, Accounts, NEW ok \in BOOLEAN, TryPersist(ok),
         UNCHANGED <<queue, dispatching, taken, sent, withdrawn>>, Steering' = Steering,
         NEW X \in SUBSET (Gone \cup InMemory), acked' = acked \cup X, ok \/ X = {}
  PROVE  /\ ConfirmedIsKept'
         /\ OnDisk' \subseteq InMemory' \cup Gone'
         /\ Gone' \cup InMemory' \cup acked' \subseteq taken'
         /\ Queued' = Queued /\ Crossing' = Crossing /\ InMemory' = InMemory /\ Gone' = Gone
         /\ Flow
<1>1. /\ Queued' = Queued /\ Crossing' = Crossing /\ InMemory' = InMemory /\ Gone' = Gone
      /\ InMemory = Queued \cup Crossing \cup Steering
  BY DEF Queued, Crossing, InMemory, Gone
<1>2. CASE ok
  <2>1. /\ disk' = Snapshot
        /\ exposed' = (exposed \cup Steering) \ WordsIn(Snapshot.queue)
    BY <1>2 DEF TryPersist, Persist
  <2>2. OnDisk' = Queued \cup Crossing
    BY <2>1, WordsInSnapshot DEF OnDisk
  <2>3. exposed' = (exposed \cup Steering) \ OnDisk'
    BY <2>1, <2>2, WordsInSnapshot
  <2>4. ConfirmedIsKept'
    <3>1. acked \ Gone \subseteq InMemory \cup exposed
      BY DEF Accounts, ConfirmedIsKept, Gone
    <3>2. acked' \ Gone \subseteq InMemory \cup exposed
      BY <3>1
    <3>3. acked' \ Gone' \subseteq (InMemory' \cup exposed') \cap (OnDisk' \cup exposed')
      BY <1>1, <2>2, <2>3, <3>2
    <3> QED
      BY <3>3 DEF ConfirmedIsKept, Gone
  <2>5. OnDisk' \subseteq InMemory' /\ OnDisk \subseteq InMemory \cup Gone
    BY <1>1, <2>2 DEF Accounts
  <2>6. Flow
    BY <1>1, <2>5 DEF Flow, Owed
  <2> QED
    BY <1>1, <2>4, <2>5, <2>6 DEF Accounts
<1>3. CASE ~ok
  <2>1. disk' = disk /\ exposed' = exposed /\ acked' = acked
    BY <1>3 DEF TryPersist
  <2>2. OnDisk' = OnDisk
    BY <2>1 DEF OnDisk
  <2>3. ConfirmedIsKept'
    BY <1>1, <2>1, <2>2 DEF ConfirmedIsKept, Accounts, Gone
  <2>4. Flow
    BY <1>1, <2>1, <2>2 DEF Flow, Owed
  <2> QED
    BY <1>1, <2>1, <2>2, <2>3, <2>4 DEF Accounts
<1> QED
  BY <1>2, <1>3

(* A write between two steps of a call.                                    *)
LEMMA CallPersistFlow ==
  ASSUME TypeOK, Shape, Accounts, NEW ok \in BOOLEAN, TryPersist(ok),
         UNCHANGED <<queueVars, op, taken, sent, withdrawn>>,
         NEW X \in SUBSET (Gone \cup InMemory), acked' = acked \cup X, ok \/ X = {},
         NEW c \in Callers, NEW s \in Steps \ {"saving"}, Goes(c, s),
         s = "done" => c # "dispatch" \/ call[c] = "saving",
         s \in Unheard => call[c] \in Unheard \/ c \notin Messages
  PROVE  Accounts' /\ Flow
<1>1. Steering' = Steering /\ UNCHANGED <<queue, dispatching, op>>
  BY DEF Steering, queueVars
<1>2. /\ ConfirmedIsKept'
      /\ OnDisk' \subseteq InMemory' \cup Gone'
      /\ Gone' \cup InMemory' \cup acked' \subseteq taken'
      /\ Queued' = Queued /\ Crossing' = Crossing /\ InMemory' = InMemory /\ Gone' = Gone
      /\ Flow
  BY <1>1, PersistFlow
<1>3. call'["dispatch"] \in {"saving", "done"} => call["dispatch"] \in {"saving", "done"}
  BY GoesType DEF Callers
<1>4. \A d \in Messages :
        /\ call'[d] \in Unheard => call[d] \in Unheard
        /\ call'[d] = "saving" => call[d] = "saving"
  BY GoesType DEF Callers
<1>5. Accounts'
  BY <1>1, <1>2, <1>3, <1>4 DEF Accounts
<1> QED
  BY <1>2, <1>5

(* What a send parks is in the queue.                                      *)
LEMMA TryEnqueueFlow ==
  ASSUME TypeOK, Shape, Accounts, NEW c \in Callers, TryEnqueue(c)
  PROVE  Accounts' /\ Flow
<1>1. ASSUME NEW s \in {"free", "failed"}, Goes(c, s), UNCHANGED <<queue, taken>>
      PROVE  Accounts' /\ Flow
  <2>1. UNCHANGED queueVars /\ UNCHANGED heardVars
    BY <1>1 DEF TryEnqueue, queueVars, heardVars
  <2> QED
    BY <1>1, <2>1, CallFlow DEF TryEnqueue, Steps, Unheard
<1>2. ASSUME Goes(c, "saving"), taken' = taken \cup Said(c), c # "resume",
             \/ merge_agent_message(c) /\ queue' = Merged(c)
             \/ queue' = Append(queue, EntryOf(c))
      PROVE  Accounts' /\ Flow
  <2>1. Queued' = Queued \cup Said(c)
    <3>1. CASE merge_agent_message(c) /\ queue' = Merged(c)
      <4>1. c \in Messages
        BY <3>1 DEF merge_agent_message, Messages
      <4> QED
        BY <3>1, <4>1, WordsInMerged, SaidFacts DEF Queued
    <3>2. CASE queue' = Append(queue, EntryOf(c))
      <4>1. EntryOf(c) \in Entries /\ queue \in Seq(Entries)
        BY <1>2, EntryOfType, FullIsEntry DEF TryEnqueue, TypeOK
      <4>2. WordsOf(EntryOf(c)) = Said(c)
        BY DEF WordsOf, EntryOf, Said
      <4> QED
        BY <3>2, <4>1, <4>2, WordsInCons DEF Queued
    <3> QED
      BY <1>2, <3>1, <3>2
  <2>2. UNCHANGED <<dispatching, op, disk, acked, withdrawn, sent, exposed>>
    BY DEF TryEnqueue, sentVars
  <2>3. /\ Crossing' = Crossing /\ Steering' = Steering /\ OnDisk' = OnDisk /\ Gone' = Gone
        /\ InMemory' = InMemory \cup Said(c) /\ Owed' = Owed \cup Said(c)
    BY <2>1, <2>2 DEF Queued, Crossing, Steering, InMemory, OnDisk, Gone, Owed
  <2>4. \/ c \in Messages /\ Said(c) = {c} /\ c \notin taken
        \/ c = "dispatch" /\ Said(c) = Crossing
    BY <1>2, SaidFacts DEF Callers, Accounts, TryEnqueue, Unheard
  <2>5. Crossing \subseteq taken /\ Crossing \subseteq Owed
    BY DEF Accounts, InMemory, Owed, Crossing
  <2>6. \A d \in Callers : /\ d # c => call'[d] = call[d]
                           /\ d = c => call'[d] = "saving"
    BY <1>2, GoesType DEF Steps
  <2>7. ConfirmedIsKept'
    BY <2>2, <2>3 DEF ConfirmedIsKept, Accounts
  <2>8. \A d \in Messages : call'[d] \in Unheard => d \notin taken'
    BY <1>2, <2>4, <2>5, <2>6 DEF Accounts, Callers, Unheard
  <2>9. \A d \in Messages : call'[d] = "saving" => d \in Gone' \cup InMemory'
    BY <2>3, <2>4, <2>6, MessageIsNoTask DEF Accounts, Callers
  <2>10. call'["dispatch"] \in {"saving", "done"}
           => Crossing' \subseteq Gone' \cup Queued' \cup Steering'
    BY <2>1, <2>3, <2>4, <2>6, MessageIsNoTask DEF Accounts, Callers
  <2>11. Gone' \cup InMemory' \cup acked' \subseteq taken' /\ OnDisk' \subseteq InMemory' \cup Gone'
    BY <1>2, <2>2, <2>3 DEF Accounts
  <2>12. op'.kind = "editing" => WordsOf(op'.entry) \subseteq Gone' \cup InMemory'
    BY <2>2, <2>3 DEF Accounts
  <2>13. Accounts'
    BY <2>2, <2>7, <2>8, <2>9, <2>10, <2>11, <2>12 DEF Accounts
  <2>14. Flow
    BY <1>2, <2>2, <2>3, <2>4, <2>5 DEF Flow
  <2> QED
    BY <2>13, <2>14
<1> QED
  BY <1>1, <1>2 DEF TryEnqueue

LEMMA CallStepFlow ==
  ASSUME TypeOK, Shape, Accounts, NEW c \in Callers, CallStep(c)
  PROVE  Accounts' /\ Flow
<1>1. CASE TrySteer(c)
  BY <1>1, CallFlow DEF TrySteer, Steps, Unheard
<1>2. CASE Steered(c)
  <2>1. ASSUME GivenToAgent(Said(c)), taken' = taken \cup Said(c),
               NEW s \in {"done", "failed"}, Goes(c, s)
        PROVE  Accounts' /\ Flow
    BY <1>2, <2>1, GivenFlow DEF Steered, Unheard
  <2>2. ASSUME UNCHANGED <<sentVars, taken>>, NEW s \in {"unsteered", "failed"}, Goes(c, s)
        PROVE  Accounts' /\ Flow
    <3>1. UNCHANGED heardVars
      BY <1>2, <2>2 DEF Steered, heardVars
    <3> QED
      BY <1>2, <2>2, <3>1, CallFlow DEF Steered, Steps, Unheard
  <2> QED
    BY <1>2, <2>1, <2>2 DEF Steered
<1>3. CASE TryEnqueue(c)
  BY <1>3, TryEnqueueFlow
<1>4. CASE SaveQueued(c)
  <2>1. CASE TryPersist(TRUE) /\ Goes(c, "done") /\ acked' = acked \cup (Said(c) \cap {c})
    <3>1. Said(c) \cap {c} \in SUBSET (Gone \cup InMemory)
      <4>1. CASE c \in Messages
        BY <1>4, <4>1, SaidFacts DEF SaveQueued, Accounts
      <4>2. CASE c = "dispatch"
        BY <4>2, SaidFacts DEF InMemory, Crossing
      <4>3. CASE c = "resume"
        BY <4>3, SaidFacts
      <4> QED
        BY <4>1, <4>2, <4>3 DEF Callers
    <3> QED
      BY <1>4, <2>1, <3>1, CallPersistFlow DEF SaveQueued, Steps, Unheard, sentVars
  <2>2. CASE TryPersist(FALSE) /\ Goes(c, "failed") /\ UNCHANGED acked
    <3>1. acked' = acked \cup {}
      BY <2>2
    <3> QED
      BY <1>4, <2>2, <3>1, CallPersistFlow DEF SaveQueued, Steps, Unheard, sentVars
  <2> QED
    BY <1>4, <2>1, <2>2 DEF SaveQueued
<1>5. CASE Begin(c)
  BY <1>5, CallFlow DEF Begin, Steps, Unheard
<1>6. CASE Record(c)
  <2>1. PICK ok \in BOOLEAN, s \in {"starting", "failed"} : TryPersist(ok) /\ Goes(c, s)
    BY <1>6 DEF Record
  <2>2. acked' = acked \cup {} /\ UNCHANGED <<taken, withdrawn, sent>>
    BY <1>6 DEF Record, heardVars, sentVars
  <2> QED
    BY <1>6, <2>1, <2>2, CallPersistFlow DEF Record, Steps, Unheard
<1>7. CASE Started(c)
  <2>1. CASE GivenToAgent(Said(c)) /\ taken' = taken \cup Said(c) /\ Goes(c, "done")
    BY <1>7, <2>1, GivenFlow DEF Started, Unheard
  <2>2. CASE UNCHANGED <<sentVars, taken>> /\ Goes(c, "failed")
    <3>1. UNCHANGED heardVars
      BY <1>7, <2>2 DEF Started, heardVars
    <3> QED
      BY <1>7, <2>2, <3>1, CallFlow DEF Started, Steps, Unheard
  <2> QED
    BY <1>7, <2>1, <2>2 DEF Started
<1> QED
  BY <1>1, <1>2, <1>3, <1>4, <1>5, <1>6, <1>7 DEF CallStep

(* Nothing that holds words changes.                                       *)
LEMMA StillFlow ==
  ASSUME Accounts, UNCHANGED <<queue, dispatching, call, disk, heardVars, sentVars, exposed>>,
         Steering' = Steering, op' = op \/ (op'.entry = Nothing /\ op'.kind # "editing")
  PROVE  Accounts' /\ Flow
<1>1. UNCHANGED <<taken, acked, withdrawn, sent>>
  BY DEF heardVars, sentVars
<1>2. /\ Queued' = Queued /\ Crossing' = Crossing
      /\ InMemory' = InMemory /\ OnDisk' = OnDisk /\ Gone' = Gone /\ Owed' = Owed
  BY <1>1 DEF Queued, Crossing, InMemory, OnDisk, Gone, Owed
<1>3. ConfirmedIsKept'
  BY <1>1, <1>2 DEF ConfirmedIsKept, Accounts
<1>4. Accounts'
  BY <1>1, <1>2, <1>3 DEF Accounts
<1> QED
  BY <1>1, <1>2, <1>4 DEF Flow

(* The dispatch task takes the head of the queue ...                       *)
LEMMA DispatchNextFlow ==
  ASSUME TypeOK, Shape, Accounts, DispatchNext
  PROVE  Accounts' /\ Flow
<1>1. CASE queued_turn_is_held
  BY <1>1, StillFlow DEF DispatchNext, queueVars, Steering
<1>2. CASE ~queued_turn_is_held
  <2>1. queue # <<>> /\ dispatching = Nothing
    BY <1>2 DEF queued_turn_is_held
  <2>2. dispatching' = Head(queue) /\ queue' = Tail(queue) /\ Goes("dispatch", "ready")
    BY <1>2 DEF DispatchNext
  <2>3. Queued = Crossing' \cup Queued' /\ Crossing = {}
    BY <2>1, <2>2, WordsInTail, WordsOfNothing DEF TypeOK, Queued, Crossing
  <2>4. UNCHANGED <<op, disk, taken, acked, withdrawn, sent, exposed>>
    BY DEF DispatchNext, heardVars, sentVars
  <2>5. /\ Steering' = Steering /\ InMemory' = InMemory /\ OnDisk' = OnDisk
        /\ Gone' = Gone /\ Owed' = Owed
    BY <2>3, <2>4 DEF Queued, Crossing, Steering, InMemory, OnDisk, Gone, Owed
  <2>6. call'["dispatch"] = "ready" /\ \A d \in Messages : call'[d] = call[d]
    BY <2>2, GoesType, MessageIsNoTask DEF Callers, Steps
  <2>7. ConfirmedIsKept'
    BY <2>4, <2>5 DEF ConfirmedIsKept, Accounts
  <2>8. Accounts'
    BY <2>4, <2>5, <2>6, <2>7 DEF Accounts
  <2> QED
    BY <2>4, <2>5, <2>8 DEF Flow
<1> QED
  BY <1>1, <1>2

(* ... and gives it back, unless its words are somewhere else.             *)
LEMMA DispatchedFlow ==
  ASSUME TypeOK, Shape, Accounts, Dispatched
  PROVE  Accounts' /\ Flow
<1>1. dispatching \in Entries /\ queue \in Seq(Entries)
  BY DEF TypeOK
<1>2. UNCHANGED <<op, disk, taken, acked, withdrawn, sent, exposed>> /\ Crossing' = {}
  BY WordsOfNothing DEF Dispatched, heardVars, sentVars, Crossing
<1>3. Queued' = Queued \/ Queued' = Crossing \cup Queued
  BY <1>1, WordsInCons DEF Dispatched, Queued, Crossing
<1>4. Crossing \subseteq Gone \cup Queued' \cup Steering
  <2>1. CASE call["dispatch"] = "done"
    BY <2>1 DEF Dispatched, Accounts, Queued
  <2>2. CASE call["dispatch"] = "failed"
    BY <1>1, <2>2, WordsInCons DEF Dispatched, Queued, Crossing
  <2> QED
    BY <2>1, <2>2 DEF Dispatched
<1>5. /\ Steering' = Steering /\ OnDisk' = OnDisk /\ Gone' = Gone
      /\ InMemory' \subseteq InMemory /\ InMemory \subseteq InMemory' \cup Gone
      /\ Owed' \subseteq Owed /\ Owed \subseteq Owed' \cup Gone
  BY <1>2, <1>3, <1>4 DEF Queued, Crossing, Steering, InMemory, OnDisk, Gone, Owed
<1>6. call'["dispatch"] = "waiting" /\ \A d \in Messages : call'[d] = call[d]
  BY GoesType, MessageIsNoTask DEF Dispatched, Callers, Steps
<1>7. ConfirmedIsKept'
  BY <1>2, <1>5 DEF ConfirmedIsKept, Accounts, Gone
<1>8. Accounts'
  BY <1>2, <1>5, <1>6, <1>7 DEF Accounts
<1> QED
  BY <1>2, <1>5, <1>8 DEF Flow

LEMMA RemoveFlow ==
  ASSUME TypeOK, Shape, Accounts, NEW i \in DOMAIN queue, remove_queued_turn(i)
  PROVE  Accounts' /\ Flow
<1>1. Queued = WordsOf(queue[i]) \cup Queued' /\ withdrawn' = withdrawn \cup WordsOf(queue[i])
  BY WordsInRemoveAt DEF remove_queued_turn, TypeOK, Queued
<1>2. /\ op.kind = "none" /\ op'.kind = "saving" /\ op'.entry = Nothing
      /\ Steering = {} /\ Steering' = {}
  BY QuietType DEF remove_queued_turn, StartsOperation, Operation, Steering
<1>3. UNCHANGED <<dispatching, call, disk, taken, acked, sent, exposed>>
  BY DEF remove_queued_turn, sentVars
<1>4. /\ Crossing' = Crossing /\ OnDisk' = OnDisk /\ Gone' = Gone \cup WordsOf(queue[i])
      /\ InMemory = InMemory' \cup WordsOf(queue[i])
      /\ Owed = Owed' \cup WordsOf(queue[i])
  BY <1>1, <1>2, <1>3 DEF Queued, Crossing, InMemory, OnDisk, Gone, Owed
<1>5. ConfirmedIsKept'
  BY <1>3, <1>4 DEF ConfirmedIsKept, Accounts, Gone
<1>6. Accounts'
  BY <1>1, <1>2, <1>3, <1>4, <1>5 DEF Accounts
<1> QED
  BY <1>1, <1>3, <1>4, <1>6 DEF Flow

LEMMA EditedWords ==
  ASSUME NEW e \in Entries, NEW w \in Edits
  PROVE  WithText(e, w) \in Entries /\ WordsOf(WithText(e, w)) = {w}
<1> DEFINE ws == <<w>>
           f == WithText(e, w)
<1>1. ws \in Seq(Words) /\ DOMAIN ws = {1} /\ ws[1] = w
  BY DEF Words
<1>2. f = [e EXCEPT !.words = ws]
  BY DEF WithText
<1> HIDE DEF ws, f
<1>3. f \in Entries /\ f.words = ws
  BY <1>1, <1>2 DEF Entries
<1>4. WordsOf(f) = {w}
  BY <1>1, <1>3 DEF WordsOf, ToSet
<1> QED
  BY <1>3, <1>4 DEF f

LEMMA EditFlow ==
  ASSUME TypeOK, Shape, Accounts, NEW i \in DOMAIN queue, NEW w \in Edits,
         edit_queued_turn(i, w)
  PROVE  Accounts' /\ Flow
<1> DEFINE e == WithText(queue[i], w)
<1>1. queue[i] \in Entries /\ queue \in Seq(Entries)
  BY DEF TypeOK
<1>2. e \in Entries /\ WordsOf(e) = {w}
  BY <1>1, EditedWords
<1>3. queue' = [queue EXCEPT ![i] = e] /\ withdrawn' = withdrawn \cup WordsOf(queue[i])
  BY DEF edit_queued_turn
<1>4. /\ op.kind = "none" /\ op'.kind = "editing" /\ op'.entry = e
      /\ Steering = {} /\ Steering' = {}
  BY QuietType DEF edit_queued_turn, StartsOperation, Operation, Steering
<1> HIDE DEF e
<1>5. /\ w \in Queued' /\ Queued' \subseteq Queued \cup {w}
      /\ Queued \subseteq Queued' \cup WordsOf(queue[i])
      /\ WordsOf(queue[i]) \subseteq Queued
  <2>1. WordsOf(queue[i]) \subseteq Queued
    BY DEF Queued, WordsIn
  <2> QED
    BY <1>1, <1>2, <1>3, <2>1, WordsInExcept DEF Queued
<1>6. UNCHANGED <<dispatching, call, disk, acked, sent, exposed>>
  BY DEF edit_queued_turn, sentVars
<1>7. w \notin taken /\ taken' = taken \cup {w} /\ w \notin Messages
  BY WordsAssumption DEF edit_queued_turn
<1>8. /\ Crossing' = Crossing /\ OnDisk' = OnDisk /\ Gone' = Gone \cup WordsOf(queue[i])
      /\ InMemory' \subseteq InMemory \cup {w} /\ w \in InMemory'
      /\ InMemory \subseteq InMemory' \cup WordsOf(queue[i])
      /\ Owed' \subseteq Owed \cup {w} /\ Owed \subseteq Owed' \cup WordsOf(queue[i])
  BY <1>3, <1>4, <1>5, <1>6 DEF Queued, Crossing, InMemory, OnDisk, Gone, Owed
<1>9. WordsOf(queue[i]) \subseteq taken
  BY <1>5 DEF Accounts, InMemory, Queued
<1>10. ConfirmedIsKept'
  BY <1>6, <1>8 DEF ConfirmedIsKept, Accounts, Gone
<1>11. Accounts'
  BY <1>2, <1>4, <1>5, <1>6, <1>7, <1>8, <1>9, <1>10 DEF Accounts
<1> QED
  BY <1>3, <1>6, <1>7, <1>8, <1>11 DEF Flow

LEMMA ReorderFlow ==
  ASSUME TypeOK, Shape, Accounts, NEW order \in [DOMAIN queue -> DOMAIN queue],
         reorder_queued_turns(order)
  PROVE  Accounts' /\ Flow
<1>1. Queued' = Queued
  BY WordsInReorder DEF reorder_queued_turns, TypeOK, Queued
<1>2. /\ op.kind = "none" /\ op'.kind = "saving" /\ op'.entry = Nothing
      /\ Steering = {} /\ Steering' = {}
  BY QuietType DEF reorder_queued_turns, StartsOperation, Operation, Steering
<1>3. UNCHANGED <<dispatching, call, disk, taken, acked, withdrawn, sent, exposed>>
  BY DEF reorder_queued_turns, heardVars, sentVars
<1>4. /\ Crossing' = Crossing /\ OnDisk' = OnDisk /\ Gone' = Gone
      /\ InMemory' = InMemory /\ Owed' = Owed
  BY <1>1, <1>2, <1>3 DEF Queued, Crossing, InMemory, OnDisk, Gone, Owed
<1>5. ConfirmedIsKept'
  BY <1>3, <1>4 DEF ConfirmedIsKept, Accounts
<1>6. Accounts'
  BY <1>1, <1>2, <1>3, <1>4, <1>5 DEF Accounts
<1> QED
  BY <1>3, <1>4, <1>6 DEF Flow

LEMMA SteerFlow ==
  ASSUME TypeOK, Shape, Accounts, NEW i \in DOMAIN queue, steer_queued_turn(i)
  PROVE  Accounts' /\ Flow
<1>1. Queued = WordsOf(queue[i]) \cup Queued'
  BY WordsInRemoveAt DEF steer_queued_turn, TypeOK, Queued
<1>2. /\ op.kind = "none" /\ op'.kind = "steering"
      /\ Steering = {} /\ Steering' = WordsOf(queue[i])
  BY QuietType DEF steer_queued_turn, StartsOperation, Operation, Steering
<1>3. UNCHANGED <<dispatching, call, disk, taken, acked, withdrawn, sent, exposed>>
  BY DEF steer_queued_turn, heardVars, sentVars
<1>4. /\ Crossing' = Crossing /\ OnDisk' = OnDisk /\ Gone' = Gone
      /\ InMemory' = InMemory /\ Owed' = Owed
  BY <1>1, <1>2, <1>3 DEF Queued, Crossing, InMemory, OnDisk, Gone, Owed
<1>5. ConfirmedIsKept'
  BY <1>3, <1>4 DEF ConfirmedIsKept, Accounts
<1>6. Accounts'
  BY <1>1, <1>2, <1>3, <1>4, <1>5 DEF Accounts
<1> QED
  BY <1>3, <1>4, <1>6 DEF Flow

LEMMA SteerAnsweredFlow ==
  ASSUME TypeOK, Shape, Accounts, SteerAnswered
  PROVE  Accounts' /\ Flow
<1> DEFINE at == IF op.at <= Len(queue) THEN op.at ELSE Len(queue) + 1
<1>1. PICK reached \in BOOLEAN, recorded \in BOOLEAN :
        /\ recorded => reached
        /\ IF reached THEN GivenToAgent(WordsOf(op.entry)) ELSE UNCHANGED sentVars
        /\ IF recorded
           THEN UNCHANGED <<queue, repeatable, missed>>
           ELSE queue' = InsertAt(queue, at, op.entry)
  BY DEF SteerAnswered
<1>2. op.entry \in Entries /\ queue \in Seq(Entries) /\ at \in 1..(Len(queue) + 1)
  BY DEF TypeOK
<1> HIDE DEF at
<1>3. Steering = WordsOf(op.entry) /\ Steering' = {} /\ op'.kind = "saving" /\ op'.entry = Nothing
  BY DEF SteerAnswered, Operation, Steering
<1>4. UNCHANGED <<dispatching, call, disk, taken, acked, withdrawn, exposed>>
  BY DEF SteerAnswered, heardVars
<1>5. sent' = sent \/ sent' = sent \cup Steering
  BY <1>1, <1>3 DEF GivenToAgent, sentVars
<1>6. Queued' = Queued \/ Queued' = Queued \cup Steering
  BY <1>1, <1>2, <1>3, WordsInInsertAt DEF Queued
<1>7. Steering \subseteq sent' \cup Queued'
  <2>1. CASE recorded
    BY <1>1, <1>3, <2>1 DEF GivenToAgent
  <2>2. CASE ~recorded
    BY <1>1, <1>2, <1>3, <2>2, WordsInInsertAt DEF Queued
  <2> QED
    BY <2>1, <2>2
<1>8. Steering \subseteq InMemory /\ InMemory \subseteq taken /\ InMemory \subseteq Owed
  BY DEF Accounts, InMemory, Owed
<1>9. /\ Crossing' = Crossing /\ OnDisk' = OnDisk
      /\ Gone \subseteq Gone' /\ Gone' \subseteq Gone \cup Steering /\ sent' \subseteq Gone'
      /\ InMemory' \subseteq InMemory /\ InMemory \subseteq InMemory' \cup Gone'
      /\ Owed' \subseteq Owed /\ Owed \subseteq Owed' \cup Gone'
  BY <1>3, <1>4, <1>5, <1>6, <1>7 DEF Queued, Crossing, InMemory, OnDisk, Gone, Owed
<1>10. ConfirmedIsKept'
  BY <1>4, <1>9 DEF ConfirmedIsKept, Accounts, Gone
<1>11. call'["dispatch"] \in {"saving", "done"}
         => Crossing' \subseteq Gone' \cup Queued' \cup Steering'
  BY <1>4, <1>6, <1>7, <1>9 DEF Accounts
<1>12. Accounts'
  BY <1>3, <1>4, <1>8, <1>9, <1>10, <1>11 DEF Accounts
<1> QED
  BY <1>4, <1>5, <1>8, <1>9, <1>12 DEF Flow

(* The writes outside of calls.                                            *)
LEMMA OwnPersistFlow ==
  ASSUME TypeOK, Shape, Accounts, NEW ok \in BOOLEAN, TryPersist(ok),
         UNCHANGED <<queueVars, call, taken, sent, withdrawn>>,
         op' = op \/ (op.kind # "steering" /\ op' = Quiet),
         NEW X \in SUBSET (Gone \cup InMemory), acked' = acked \cup X, ok \/ X = {}
  PROVE  Accounts' /\ Flow
<1>1. Steering' = Steering /\ UNCHANGED <<queue, dispatching>>
  BY QuietType DEF Steering, queueVars
<1>2. /\ ConfirmedIsKept'
      /\ OnDisk' \subseteq InMemory' \cup Gone'
      /\ Gone' \cup InMemory' \cup acked' \subseteq taken'
      /\ Queued' = Queued /\ Crossing' = Crossing /\ InMemory' = InMemory /\ Gone' = Gone
      /\ Flow
  BY <1>1, PersistFlow
<1>3. op' = op \/ (op'.kind = "none" /\ op'.entry = Nothing)
  BY QuietType DEF Quiet
<1>4. Accounts'
  BY <1>1, <1>2, <1>3 DEF Accounts
<1> QED
  BY <1>2, <1>4

LEMMA SaveOperationFlow ==
  ASSUME TypeOK, Shape, Accounts, SaveOperation
  PROVE  Accounts' /\ Flow
<1>1. WordsOf(op.entry) \in SUBSET (Gone \cup InMemory)
  BY WordsOfNothing DEF SaveOperation, Accounts
<1>2. UNCHANGED <<queueVars, call, taken, sent, withdrawn>> /\ op.kind # "steering" /\ op' = Quiet
  BY DEF SaveOperation, sentVars
<1>3. CASE TryPersist(TRUE) /\ acked' = acked \cup WordsOf(op.entry)
  BY <1>1, <1>2, <1>3, OwnPersistFlow
<1>4. CASE TryPersist(FALSE) /\ acked' = acked \cup {}
  BY <1>2, <1>4, OwnPersistFlow
<1> QED
  BY <1>3, <1>4 DEF SaveOperation

LEMMA CommitFlow ==
  ASSUME TypeOK, Shape, Accounts, CommitDispatch \/ Acknowledged
  PROVE  Accounts' /\ Flow
<1>1. PICK ok \in BOOLEAN : TryPersist(ok)
  BY DEF CommitDispatch, Acknowledged
<1>2. /\ UNCHANGED <<queueVars, call, taken, sent, withdrawn>> /\ acked' = acked \cup {}
      /\ op' = op \/ (op.kind # "steering" /\ op' = Quiet)
  BY DEF CommitDispatch, Acknowledged, heardVars, sentVars
<1> QED
  BY <1>1, <1>2, OwnPersistFlow

LEMMA LifeFlow ==
  ASSUME TypeOK, Shape, Accounts, Next, ~Crash, ~Shutdown
  PROVE  Accounts' /\ Flow
<1>1. CASE Resume
  <2>1. call["resume"] \notin Unheard => "resume" \notin Messages
    BY MessageIsNoTask
  <2> QED
    BY <1>1, <2>1, MessageIsNoTask, CallFlow DEF Resume, Callers, Steps
<1>2. CASE TurnEnd
  BY <1>2, StillFlow DEF TurnEnd, queueVars, Steering
<1>3. CASE Acknowledge
  <2>1. /\ op.kind = "none" /\ op'.kind = "acknowledging" /\ op'.entry = Nothing
        /\ Steering' = Steering
    BY <1>3, QuietType DEF Acknowledge, StartsOperation, Operation, Steering
  <2> QED
    BY <1>3, <2>1, StillFlow DEF Acknowledge, queueVars
<1>4. CASE QueueOperation
  BY <1>4, RemoveFlow, SteerFlow, EditFlow, ReorderFlow DEF QueueOperation
<1> QED
  BY <1>1, <1>2, <1>3, <1>4, CallStepFlow, DispatchNextFlow, DispatchedFlow, CommitFlow,
     SteerAnsweredFlow, SaveOperationFlow DEF Next

(* The process ends: what was not confirmed may be lost.                   *)
LEMMA RestoreFlow ==
  ASSUME TypeOK, Shape, Accounts, NEW saved, Restore(saved), UNCHANGED <<heardVars, sentVars>>,
         WordsIn(saved.queue) \subseteq Owed,
         acked \ Gone \subseteq WordsIn(saved.queue) \cup exposed \cup Steering
  PROVE  /\ Accounts'
         /\ Owed' \subseteq Owed
         /\ (Owed \ Owed') \cap acked \subseteq exposed' \cup Gone
         /\ UNCHANGED <<taken, acked, sent, withdrawn>>
<1> DEFINE R == WordsIn(saved.queue)
<1>1. /\ queue' = saved.queue /\ dispatching' = Nothing /\ op' = Quiet /\ disk' = saved
      /\ exposed' = (exposed \cup Steering) \ R
  BY DEF Restore
<1>2. UNCHANGED <<taken, acked, sent, withdrawn>>
  BY DEF heardVars, sentVars
<1>3. Queued' = R /\ Crossing' = {} /\ Steering' = {} /\ OnDisk' = R /\ Gone' = Gone
  BY <1>1, <1>2, WordsOfNothing, QuietType DEF Queued, Crossing, Steering, OnDisk, Gone
<1> HIDE DEF R
<1>4. InMemory' = R /\ Owed' = R
  BY <1>3 DEF Queued, Crossing, InMemory, Owed
<1>5. acked \ Gone \subseteq R \cup exposed'
  BY <1>1 DEF R
<1>6. R \subseteq taken
  BY DEF R, Accounts, Owed
<1>7. ConfirmedIsKept'
  BY <1>2, <1>3, <1>4, <1>5 DEF ConfirmedIsKept, Gone
<1>8. /\ call'["dispatch"] = "waiting"
      /\ \A d \in Messages : call'[d] = "done" \/ (call'[d] = "ready" /\ call[d] = "ready")
  BY MessageIsNoTask DEF Restore, Callers
<1>9. op'.kind = "none" /\ op'.entry = Nothing
  BY <1>1 DEF Quiet
<1>10. Accounts'
  BY <1>2, <1>3, <1>4, <1>6, <1>7, <1>8, <1>9 DEF Accounts, Unheard
<1>11. (Owed \ Owed') \cap acked \subseteq exposed' \cup Gone
  BY <1>4, <1>5
<1> QED
  BY <1>2, <1>4, <1>10, <1>11 DEF R

LEMMA StopFlow ==
  ASSUME TypeOK, Shape, Accounts, Crash \/ Shutdown
  PROVE  /\ Accounts'
         /\ Owed' \subseteq Owed
         /\ (Owed \ Owed') \cap acked \subseteq exposed' \cup Gone
         /\ UNCHANGED <<taken, acked, sent, withdrawn>>
<1>1. CASE Crash
  <2>1. WordsIn(disk.queue) = OnDisk /\ OnDisk \subseteq Owed
    BY DEF OnDisk, Owed
  <2>2. acked \ Gone \subseteq OnDisk \cup exposed
    BY DEF Accounts, ConfirmedIsKept, Gone
  <2> QED
    BY <1>1, <2>1, <2>2, RestoreFlow DEF Crash
<1>2. CASE Shutdown
  <2> DEFINE saved == [Snapshot EXCEPT !.status = CutOff(@)]
  <2>1. saved.queue = Snapshot.queue
    BY SnapshotType
  <2>2. Restore(saved)
    BY <1>2 DEF Shutdown
  <2> HIDE DEF saved
  <2>3. WordsIn(saved.queue) = Queued \cup Crossing
    BY <2>1, WordsInSnapshot
  <2>4. InMemory = Queued \cup Crossing \cup Steering /\ InMemory \subseteq Owed
    BY DEF InMemory, Queued, Crossing, Owed
  <2>5. acked \ Gone \subseteq InMemory \cup exposed
    BY DEF Accounts, ConfirmedIsKept, Gone
  <2> QED
    BY <1>2, <2>2, <2>3, <2>4, <2>5, RestoreFlow DEF Shutdown
<1> QED
  BY <1>1, <1>2

-----------------------------------------------------------------------------
LEMMA InitAccounts == ASSUME Init PROVE Accounts /\ Owed = {}
<1>1. Queued = {} /\ Crossing = {} /\ Steering = {} /\ OnDisk = {}
  <2>1. WordsIn(<<>>) = {}
    BY DEF WordsIn
  <2>2. disk.queue = <<>>
    BY DEF Init
  <2> QED
    BY <2>1, <2>2, WordsOfNothing DEF Init, Queued, Crossing, Steering, OnDisk, Quiet
<1>2. InMemory = {} /\ Gone = {} /\ Owed = {}
  BY <1>1 DEF Init, Queued, Crossing, InMemory, Gone, Owed
<1>3. op.kind = "none" /\ op.entry = Nothing
  BY DEF Init, Quiet
<1>4. call["dispatch"] = "waiting" /\ \A c \in Messages : call[c] = "ready"
  BY MessageIsNoTask DEF Init, Callers
<1>5. taken = {} /\ acked = {}
  BY DEF Init
<1>6. ConfirmedIsKept
  BY <1>5 DEF ConfirmedIsKept
<1> QED
  BY <1>1, <1>2, <1>3, <1>4, <1>5, <1>6 DEF Accounts

LEMMA NextAccounts ==
  ASSUME TypeOK, Shape, Accounts, [Next]_vars
  PROVE  Accounts'
<1>1. CASE UNCHANGED vars
  <2>1. UNCHANGED <<queue, dispatching, call, disk, heardVars, sentVars, exposed, op>>
    BY <1>1 DEF vars, heardVars, sentVars
  <2> QED
    BY <2>1, StillFlow DEF Steering
<1>2. CASE Crash \/ Shutdown
  BY <1>2, StopFlow
<1>3. CASE Next /\ ~Crash /\ ~Shutdown
  BY <1>3, LifeFlow
<1> QED
  BY <1>1, <1>2, <1>3

(* A message the caller was told is queued, or an edit that was answered,  *)
(* is with the agent, was taken back, or is in memory and on disk, however *)
(* sends, steers, edits, writes that fail, crashes and restarts overlap;   *)
(* only what a steer held during another handler's write is excepted       *)
(* (try_enqueue_turn, steer_queued_turn, persist_local_state).             *)
THEOREM ConfirmedWordsAreKept == Spec => []ConfirmedIsKept
<1>1. Init => Accounts
  BY InitAccounts
<1>2. TypeOK /\ Shape /\ Accounts /\ [Next]_vars => Accounts'
  BY NextAccounts
<1>3. Accounts => ConfirmedIsKept
  BY DEF Accounts
<1> QED
  BY <1>1, <1>2, <1>3, TypeCorrect, PTL DEF Spec

-----------------------------------------------------------------------------
(* Every step is work of the outbox, or a stop, or no step of it.          *)
LEMMA PromiseWorks ==
  ASSUME TypeOK', Accounts, Accounts', Flow
  PROVE  Promise!Work
<1>1. taken' \in SUBSET Words /\ exposed' \in SUBSET Words
  BY DEF TypeOK
<1>2. Owed \cup Owed' \subseteq taken' /\ acked' \subseteq taken'
  BY DEF Accounts, Flow, Owed
<1>3. Promise!Recorded
  BY <1>1, <1>2 DEF Promise!Recorded, Flow, Owed
<1> QED
  BY <1>3 DEF Promise!Work, Flow, Owed, Gone

LEMMA PromiseStep ==
  ASSUME TypeOK, TypeOK', Shape, Accounts, Accounts', [Next]_vars
  PROVE  [Promise!Next]_(Promise!vars)
<1>1. CASE UNCHANGED vars
  <2>1. UNCHANGED <<queue, dispatching, call, disk, heardVars, sentVars, exposed, op>>
    BY <1>1 DEF vars, heardVars, sentVars
  <2>2. Flow
    BY <2>1, StillFlow DEF Steering
  <2> QED
    BY <2>2, PromiseWorks DEF Promise!Next
<1>2. CASE Crash \/ Shutdown
  <2>1. exposed' \in SUBSET Words
    BY DEF TypeOK
  <2>2. Promise!Stop
    BY <1>2, <2>1, StopFlow DEF Promise!Stop, Owed, Gone
  <2> QED
    BY <2>2 DEF Promise!Next
<1>3. CASE Next /\ ~Crash /\ ~Shutdown
  BY <1>3, LifeFlow, PromiseWorks DEF Promise!Next
<1> QED
  BY <1>1, <1>2, <1>3

(* The queue of a thread implements the outbox it promises to be: a word   *)
(* stops being owed only because the agent has it or the user took it      *)
(* back, or because the process ended before it was confirmed or while it  *)
(* was exposed; what was dealt with is never owed or given to the agent    *)
(* again ("The queue is an outbox", try_enqueue_turn).                     *)
THEOREM QueueKeepsPromise == Spec => KeepsPromise
<1>1. Init => Accounts /\ Promise!Init
  BY InitAccounts DEF Init, Promise!Init, Owed
<1>2. TypeOK /\ Shape /\ Accounts /\ [Next]_vars => Accounts'
  BY NextAccounts
<1>3. TypeOK /\ TypeOK' /\ Shape /\ Accounts /\ Accounts' /\ [Next]_vars
        => [Promise!Next]_(Promise!vars)
  BY PromiseStep
<1> QED
  BY <1>1, <1>2, <1>3, TypeCorrect, PTL DEF Spec, KeepsPromise, Promise!Spec

-----------------------------------------------------------------------------
(* The agent gets a word once.  A word that somebody still has to give to  *)
(* the agent is in one place: one entry of the queue, the entry the        *)
(* dispatch task holds, or the entry a steer holds.  While the dispatch    *)
(* task saves or settles, the entry it holds will not be given again: it   *)
(* is queued or with the agent.                                            *)
InHand == IF call["dispatch"] \in {"saving", "done"} THEN {} ELSE Crossing

Apart(s, X) ==
  \A i, j \in DOMAIN s : i # j => WordsOf(s[i]) \cap WordsOf(s[j]) \subseteq X

Once ==
  /\ SentOnce
  /\ (Queued \cup InHand \cup Steering) \cap sent \subseteq repeatable
  /\ Queued \cap InHand \subseteq repeatable
  /\ Queued \cap Steering \subseteq repeatable
  /\ InHand \cap Steering \subseteq repeatable
  /\ Apart(queue, repeatable)

LEMMA ApartGrows ==
  ASSUME NEW s, NEW X, NEW Y, Apart(s, X), X \subseteq Y PROVE Apart(s, Y)
BY DEF Apart

(* Entries are apart in a concatenation if they are in its parts and the   *)
(* parts have no words in common.                                          *)
LEMMA ApartConcat ==
  ASSUME NEW X, NEW s \in Seq(Entries), NEW t \in Seq(Entries)
  PROVE  Apart(s \o t, X) <=> /\ Apart(s, X) /\ Apart(t, X)
                              /\ WordsIn(s) \cap WordsIn(t) \subseteq X
<1> DEFINE st == s \o t
           n == Len(s)
           m == Len(t)
<1>1. /\ n \in Nat /\ m \in Nat /\ DOMAIN s = 1..n /\ DOMAIN t = 1..m
      /\ DOMAIN st = 1..n + m
      /\ \A i \in 1..n : i \in 1..n + m /\ st[i] = s[i]
      /\ \A i \in 1..m : i + n \in 1..n + m /\ st[i + n] = t[i] /\ ~(i + n \in 1..n)
      /\ \A i \in 1..n + m : i \in 1..n \/ (i - n \in 1..m /\ st[i] = t[i - n])
  OBVIOUS
<1>2. /\ \A w : w \in WordsIn(s) <=> \E i \in 1..n : w \in WordsOf(s[i])
      /\ \A w : w \in WordsIn(t) <=> \E i \in 1..m : w \in WordsOf(t[i])
  BY InWordsIn
<1> HIDE DEF st, n, m
<1>3. ASSUME Apart(st, X) PROVE Apart(s, X)
  BY <1>1, <1>3 DEF Apart
<1>4. ASSUME Apart(st, X) PROVE Apart(t, X)
  <2>1. ASSUME NEW i \in 1..m, NEW j \in 1..m, i # j
        PROVE  WordsOf(t[i]) \cap WordsOf(t[j]) \subseteq X
    <3>1. /\ i + n \in DOMAIN st /\ j + n \in DOMAIN st /\ i + n # j + n
          /\ st[i + n] = t[i] /\ st[j + n] = t[j]
      BY <1>1, <2>1
    <3>2. WordsOf(st[i + n]) \cap WordsOf(st[j + n]) \subseteq X
      BY <1>4, <3>1 DEF Apart
    <3> QED
      BY <3>1, <3>2
  <2> QED
    BY <1>1, <2>1 DEF Apart
<1>5. ASSUME Apart(st, X), NEW w \in WordsIn(s), w \in WordsIn(t) PROVE w \in X
  <2>1. PICK i \in 1..n : w \in WordsOf(s[i])
    BY <1>2, <1>5
  <2>2. PICK j \in 1..m : w \in WordsOf(t[j])
    BY <1>2, <1>5
  <2>3. i \in DOMAIN st /\ j + n \in DOMAIN st /\ i # j + n /\ st[i] = s[i] /\ st[j + n] = t[j]
    BY <1>1
  <2>4. WordsOf(st[i]) \cap WordsOf(st[j + n]) \subseteq X
    BY <1>5, <2>3 DEF Apart
  <2> QED
    BY <2>1, <2>2, <2>3, <2>4
<1>6. ASSUME Apart(s, X), Apart(t, X), WordsIn(s) \cap WordsIn(t) \subseteq X
      PROVE  Apart(st, X)
  <2> SUFFICES ASSUME NEW i \in 1..n + m, NEW j \in 1..n + m, i # j,
                      NEW w \in WordsOf(st[i]), w \in WordsOf(st[j])
               PROVE  w \in X
    BY <1>1 DEF Apart
  <2>1. CASE i \in 1..n /\ j \in 1..n
    BY <1>1, <1>6, <2>1 DEF Apart
  <2>2. CASE i \notin 1..n /\ j \notin 1..n
    <3>1. i - n \in 1..m /\ j - n \in 1..m /\ i - n # j - n
          /\ w \in WordsOf(t[i - n]) /\ w \in WordsOf(t[j - n])
      BY <1>1, <2>2
    <3> QED
      BY <1>1, <1>6, <3>1 DEF Apart
  <2>3. CASE i \in 1..n /\ j \notin 1..n
    <3>1. w \in WordsOf(s[i]) /\ j - n \in 1..m /\ w \in WordsOf(t[j - n])
      BY <1>1, <2>3
    <3>2. w \in WordsIn(s) /\ w \in WordsIn(t)
      BY <1>2, <2>3, <3>1
    <3> QED
      BY <1>6, <3>2
  <2>4. CASE i \notin 1..n /\ j \in 1..n
    <3>1. w \in WordsOf(s[j]) /\ i - n \in 1..m /\ w \in WordsOf(t[i - n])
      BY <1>1, <2>4
    <3>2. w \in WordsIn(s) /\ w \in WordsIn(t)
      BY <1>2, <2>4, <3>1
    <3> QED
      BY <1>6, <3>2
  <2> QED
    BY <2>1, <2>2, <2>3, <2>4
<1> QED
  BY <1>3, <1>4, <1>5, <1>6 DEF st

LEMMA ApartCons ==
  ASSUME NEW X, NEW s \in Seq(Entries), NEW e \in Entries
  PROVE  /\ Apart(<<e>> \o s, X) <=> Apart(s, X) /\ WordsOf(e) \cap WordsIn(s) \subseteq X
         /\ Apart(Append(s, e), X) <=> Apart(s, X) /\ WordsOf(e) \cap WordsIn(s) \subseteq X
<1> DEFINE one == <<e>>
<1>1. one \in Seq(Entries) /\ DOMAIN one = {1} /\ Append(s, e) = s \o one
  OBVIOUS
<1>2. WordsIn(one) = WordsOf(e)
  BY WordsInOne
<1> HIDE DEF one
<1>3. Apart(one, X)
  BY <1>1 DEF Apart
<1>4. Apart(one \o s, X) <=> Apart(s, X) /\ WordsOf(e) \cap WordsIn(s) \subseteq X
  BY <1>1, <1>2, <1>3, ApartConcat
<1>5. Apart(s \o one, X) <=> Apart(s, X) /\ WordsIn(s) \cap WordsOf(e) \subseteq X
  BY <1>1, <1>2, <1>3, ApartConcat
<1> QED
  BY <1>1, <1>4, <1>5 DEF one

LEMMA ApartTail ==
  ASSUME NEW X, NEW s \in Seq(Entries), s # <<>>, Apart(s, X)
  PROVE  Apart(Tail(s), X) /\ WordsOf(Head(s)) \cap WordsIn(Tail(s)) \subseteq X
<1> DEFINE h == Head(s)
           t == Tail(s)
<1>1. h \in Entries /\ t \in Seq(Entries) /\ s = <<h>> \o t
  OBVIOUS
<1> HIDE DEF h, t
<1>2. Apart(t, X) /\ WordsOf(h) \cap WordsIn(t) \subseteq X
  BY <1>1, ApartCons
<1> QED
  BY <1>2 DEF h, t

LEMMA ApartRemoveAt ==
  ASSUME NEW X, NEW s \in Seq(Entries), NEW i \in DOMAIN s, Apart(s, X)
  PROVE  /\ Apart(RemoveAt(s, i), X)
         /\ WordsOf(s[i]) \cap WordsIn(RemoveAt(s, i)) \subseteq X
<1> DEFINE front == SubSeq(s, 1, i - 1)
           back  == SubSeq(s, i + 1, Len(s))
           rest  == SubSeq(s, i, Len(s))
<1>1. i \in 1..Len(s) /\ i \in 1..(Len(s) + 1) /\ Len(s) \in Nat /\ s[i] \in Entries
  OBVIOUS
<1>2. front \in Seq(Entries) /\ back \in Seq(Entries) /\ rest \in Seq(Entries)
  BY <1>1
<1>3. rest = <<s[i]>> \o back
  <2>1. Len(s) \in i..Len(s)
    BY <1>1
  <2> QED
    BY <1>1, <2>1, SubSeqRecursiveFirst
<1>4. s = front \o rest
  <2>1. /\ Len(s) \in Nat /\ (i - 1) + 1 = i
        /\ 1 \in 1..(Len(s) + 1) /\ i - 1 \in (1 - 1)..Len(s) /\ Len(s) \in (i - 1)..Len(s)
    BY <1>1
  <2>2. SubSeq(s, 1, i - 1) \o SubSeq(s, (i - 1) + 1, Len(s)) = SubSeq(s, 1, Len(s))
    BY <2>1, ConcatAdjacentSubSeq
  <2> QED
    BY <2>1, <2>2, SubSeqFull
<1>5. RemoveAt(s, i) = front \o back
  BY DEF RemoveAt
<1> HIDE DEF front, back, rest
<1>6. Apart(front, X) /\ Apart(rest, X) /\ WordsIn(front) \cap WordsIn(rest) \subseteq X
  BY <1>2, <1>4, ApartConcat
<1>7. Apart(back, X) /\ WordsOf(s[i]) \cap WordsIn(back) \subseteq X
  BY <1>1, <1>2, <1>3, <1>6, ApartCons
<1>8. WordsIn(rest) = WordsOf(s[i]) \cup WordsIn(back)
  BY <1>1, <1>2, <1>3, WordsInCons
<1>9. Apart(front \o back, X)
  BY <1>2, <1>6, <1>7, <1>8, ApartConcat
<1>10. WordsIn(front \o back) = WordsIn(front) \cup WordsIn(back)
  BY <1>2, WordsInConcat
<1> QED
  BY <1>5, <1>6, <1>7, <1>8, <1>9, <1>10

LEMMA ApartInsertAt ==
  ASSUME NEW X, NEW s \in Seq(Entries), NEW i \in 1..(Len(s) + 1), NEW e \in Entries,
         Apart(s, X), WordsOf(e) \cap WordsIn(s) \subseteq X
  PROVE  Apart(InsertAt(s, i, e), X)
<1> DEFINE front == SubSeq(s, 1, i - 1)
           back  == SubSeq(s, i, Len(s))
           one   == <<e>>
<1>1. /\ front \in Seq(Entries) /\ back \in Seq(Entries)
      /\ WordsIn(s) = WordsIn(front) \cup WordsIn(back)
  BY WordsInSplit
<1>2. InsertAt(s, i, e) = (front \o one) \o back
  BY DEF InsertAt
<1>3. s = front \o back
  <2>1. /\ Len(s) \in Nat /\ (i - 1) + 1 = i
        /\ 1 \in 1..(Len(s) + 1) /\ i - 1 \in (1 - 1)..Len(s) /\ Len(s) \in (i - 1)..Len(s)
    OBVIOUS
  <2>2. SubSeq(s, 1, i - 1) \o SubSeq(s, (i - 1) + 1, Len(s)) = SubSeq(s, 1, Len(s))
    BY <2>1, ConcatAdjacentSubSeq
  <2> QED
    BY <2>1, <2>2, SubSeqFull
<1>4. one \in Seq(Entries) /\ DOMAIN one = {1}
  OBVIOUS
<1>5. WordsIn(one) = WordsOf(e)
  BY WordsInOne
<1> HIDE DEF front, back, one
<1>6. Apart(front, X) /\ Apart(back, X) /\ WordsIn(front) \cap WordsIn(back) \subseteq X
  BY <1>1, <1>3, ApartConcat
<1>7. front \o one \in Seq(Entries) /\ WordsIn(front \o one) = WordsIn(front) \cup WordsOf(e)
  BY <1>1, <1>4, <1>5, ConcatType, WordsInConcat
<1>8. Apart(one, X)
  BY <1>4 DEF Apart
<1>9. Apart(front \o one, X)
  BY <1>1, <1>4, <1>5, <1>6, <1>8, ApartConcat
<1>10. WordsIn(front \o one) \cap WordsIn(back) \subseteq X
  BY <1>1, <1>6, <1>7
<1>11. Apart((front \o one) \o back, X)
  BY <1>1, <1>6, <1>7, <1>9, <1>10, ApartConcat
<1> QED
  BY <1>2, <1>11

(* An entry that gets new words only stays apart from the others.          *)
LEMMA ApartExcept ==
  ASSUME NEW X, NEW s \in Seq(Entries), NEW i \in DOMAIN s, NEW e \in Entries, Apart(s, X),
         (WordsOf(e) \ WordsOf(s[i])) \cap WordsIn(s) \subseteq X
  PROVE  Apart([s EXCEPT ![i] = e], X)
<1> DEFINE t == [s EXCEPT ![i] = e]
<1>1. DOMAIN t = DOMAIN s /\ t[i] = e /\ \A j \in DOMAIN s : j # i => t[j] = s[j]
  OBVIOUS
<1>2. \A j \in DOMAIN s : WordsOf(s[j]) \subseteq WordsIn(s)
  BY DEF WordsIn
<1> HIDE DEF t
<1>3. ASSUME NEW j \in DOMAIN s, j # i PROVE WordsOf(e) \cap WordsOf(s[j]) \subseteq X
  BY <1>2, <1>3 DEF Apart
<1>4. \A j, k \in DOMAIN s : j # i /\ k # i /\ j # k => WordsOf(s[j]) \cap WordsOf(s[k]) \subseteq X
  BY DEF Apart
<1>5. Apart(t, X)
  BY <1>1, <1>3, <1>4 DEF Apart
<1> QED
  BY <1>5 DEF t

LEMMA ApartReorder ==
  ASSUME NEW X, NEW s \in Seq(Entries), NEW order \in Bijection(DOMAIN s, DOMAIN s), Apart(s, X)
  PROVE  Apart([i \in DOMAIN s |-> s[order[i]]], X)
<1>1. /\ \A i \in DOMAIN s : order[i] \in DOMAIN s
      /\ \A i, j \in DOMAIN s : i # j => order[i] # order[j]
  BY DEF Bijection, Injection, IsInjective
<1> QED
  BY <1>1 DEF Apart

(* Calls: one that only moves on, and one whose words the agent gets.      *)
LEMMA OnceCall ==
  ASSUME TypeOK, Once, UNCHANGED <<queue, dispatching, op, sent, twice>>,
         repeatable \subseteq repeatable', NEW c \in Callers, NEW s \in Steps, Goes(c, s),
         c = "dispatch" /\ call[c] \in {"saving", "done"} => Crossing \subseteq repeatable'
  PROVE  Once'
<1>1. Queued' = Queued /\ Crossing' = Crossing /\ Steering' = Steering
  BY DEF Queued, Crossing, Steering
<1>2. InHand' \subseteq InHand \/ Crossing \subseteq repeatable'
  <2>1. CASE c = "dispatch"
    BY <1>1, <2>1 DEF InHand
  <2>2. CASE c # "dispatch"
    <3>1. call'["dispatch"] = call["dispatch"]
      BY <2>2, GoesType DEF Callers
    <3> QED
      BY <1>1, <3>1 DEF InHand
  <2> QED
    BY <2>1, <2>2
<1>3. InHand' \subseteq Crossing
  BY <1>1 DEF InHand
<1>4. Apart(queue, repeatable')
  BY ApartGrows DEF Once
<1> QED
  BY <1>1, <1>2, <1>3, <1>4 DEF Once, SentOnce

LEMMA OnceGiven ==
  ASSUME TypeOK, Accounts, Once, UNCHANGED <<queue, dispatching, op>>,
         repeatable \subseteq repeatable', NEW c \in Callers, NEW s \in {"done", "failed"},
         Goes(c, s), call[c] \in Unheard, GivenToAgent(Said(c)),
         s = "done" \/ repeatable' = repeatable \cup Said(c)
  PROVE  Once'
<1>1. Queued' = Queued /\ Crossing' = Crossing /\ Steering' = Steering
  BY DEF Queued, Crossing, Steering
<1>2. sent' = sent \cup Said(c) /\ twice' = twice \cup (sent \cap Said(c))
  BY DEF GivenToAgent
<1>3. Apart(queue, repeatable')
  BY ApartGrows DEF Once
<1>4. /\ Queued \subseteq taken /\ InHand \subseteq taken
      /\ Steering \subseteq taken /\ sent \subseteq taken
  BY DEF Accounts, Gone, InMemory, Queued, InHand, Crossing
<1>5. CASE c # "dispatch"
  <2>1. call'["dispatch"] = call["dispatch"] /\ InHand' = InHand
    BY <1>1, <1>5, GoesType DEF Callers, Steps, InHand
  <2>2. Said(c) \cap taken = {}
    BY <1>5, SaidFacts DEF Callers, Accounts
  <2> QED
    BY <1>1, <1>2, <1>3, <1>4, <2>1, <2>2 DEF Once, SentOnce
<1>6. CASE c = "dispatch"
  <2>1. Said(c) = Crossing /\ InHand = Crossing
    BY <1>6, SaidFacts DEF InHand, Unheard
  <2>2. InHand' = {} \/ Crossing \subseteq repeatable'
    <3>1. call'["dispatch"] = s
      BY <1>6, GoesType DEF Steps
    <3> QED
      BY <2>1, <3>1 DEF InHand
  <2>3. InHand' \subseteq InHand
    BY <1>1, <2>1 DEF InHand
  <2> QED
    BY <1>1, <1>2, <1>3, <2>1, <2>2, <2>3 DEF Once, SentOnce
<1> QED
  BY <1>5, <1>6

(* A message that is parked is new to the queue; what the dispatch task    *)
(* parks again it does not hold any more.                                  *)
LEMMA OnceEnqueued ==
  ASSUME TypeOK, Shape, Accounts, Once, NEW c \in Callers, TryEnqueue(c)
  PROVE  Once'
<1>1. UNCHANGED <<dispatching, op, sent, twice, repeatable>> /\ call[c] \in Unheard
  BY DEF TryEnqueue, sentVars, Unheard
<1>2. ASSUME NEW s \in {"free", "failed"}, Goes(c, s), UNCHANGED queue PROVE Once'
  BY <1>1, <1>2, OnceCall DEF Steps, Unheard
<1>3. ASSUME Goes(c, "saving"), c # "resume",
             \/ merge_agent_message(c) /\ queue' = Merged(c)
             \/ queue' = Append(queue, EntryOf(c))
      PROVE  Once'
  <2>1. queue \in Seq(Entries) /\ Crossing' = Crossing /\ Steering' = Steering
    BY <1>1 DEF TypeOK, Crossing, Steering
  <2>2. /\ Queued \subseteq taken /\ InHand \subseteq taken
        /\ Steering \subseteq taken /\ sent \subseteq taken
    BY DEF Accounts, Gone, InMemory, Queued, InHand, Crossing
  <2>3. \/ c \in Messages /\ c # "dispatch" /\ Said(c) \cap taken = {}
        \/ c = "dispatch" /\ Said(c) = InHand
    BY <1>1, <1>3, SaidFacts, MessageIsNoTask DEF Callers, Accounts, InHand, Unheard
  <2>4. \/ c # "dispatch" /\ InHand' = InHand
        \/ c = "dispatch" /\ InHand' = {}
    <3>1. CASE c # "dispatch"
      <4>1. call'["dispatch"] = call["dispatch"]
        BY <1>3, <3>1, GoesType DEF Callers, Steps
      <4> QED
        BY <2>1, <3>1, <4>1 DEF InHand
    <3>2. CASE c = "dispatch"
      <4>1. call'["dispatch"] = "saving"
        BY <1>3, <3>2, GoesType DEF Steps
      <4> QED
        BY <3>2, <4>1 DEF InHand
    <3> QED
      BY <3>1, <3>2
  <2>5. Queued' = Queued \cup Said(c) /\ Apart(queue', repeatable)
    <3>1. CASE merge_agent_message(c) /\ queue' = Merged(c)
      <4> DEFINE k == NewestAgentEntry
                 e == [queue[k] EXCEPT !.words = Append(@, c)]
      <4>1. c \in Messages /\ Said(c) = {c} /\ c \notin taken
        BY <1>1, <3>1, SaidFacts DEF merge_agent_message, Messages, Accounts
      <4>2. Queued' = Queued \cup {c}
        BY <3>1, WordsInMerged DEF Queued
      <4>3. k \in DOMAIN queue /\ queue[k] \in Entries /\ e \in Entries
        BY <3>1, MergedEntry, FullIsEntry
      <4>4. queue' = [queue EXCEPT ![k] = e]
        BY <3>1 DEF Merged
      <4>5. WordsOf(e) \subseteq Queued \cup {c} \cup WordsOf(queue[k])
        <5>1. queue'[k] = e /\ k \in DOMAIN queue'
          BY <4>3, <4>4
        <5>2. WordsOf(e) \subseteq Queued'
          BY <5>1 DEF Queued, WordsIn
        <5> QED
          BY <4>2, <5>2
      <4>6. WordsOf(e) \subseteq WordsOf(queue[k]) \cup {c}
        <5> DEFINE ws == queue[k].words
        <5>1. ws \in Seq(Words) /\ e.words = Append(ws, c)
          BY <4>3 DEF Entries
        <5> HIDE DEF ws
        <5>2. \A x \in ToSet(Append(ws, c)) : x \in ToSet(ws) \/ x = c
          <6>1. /\ DOMAIN ws = 1..Len(ws) /\ Len(ws) \in Nat
                /\ DOMAIN Append(ws, c) = 1..(Len(ws) + 1) /\ Append(ws, c)[Len(ws) + 1] = c
                /\ \A i \in 1..Len(ws) : Append(ws, c)[i] = ws[i]
            BY <5>1
          <6> QED
            BY <6>1 DEF ToSet
        <5> QED
          BY <5>1, <5>2 DEF WordsOf, ws
      <4> HIDE DEF e, k
      <4>7. (WordsOf(e) \ WordsOf(queue[k])) \cap WordsIn(queue) \subseteq repeatable
        BY <2>2, <4>1, <4>6 DEF Queued
      <4>8. Apart([queue EXCEPT ![k] = e], repeatable)
        BY <2>1, <4>3, <4>7, ApartExcept DEF Once
      <4> QED
        BY <4>1, <4>2, <4>4, <4>8
    <3>2. CASE queue' = Append(queue, EntryOf(c))
      <4>1. EntryOf(c) \in Entries
        BY <1>3, EntryOfType, FullIsEntry DEF TryEnqueue
      <4>2. WordsOf(EntryOf(c)) = Said(c)
        BY DEF WordsOf, EntryOf, Said
      <4>3. Queued' = Queued \cup Said(c)
        BY <2>1, <3>2, <4>1, <4>2, WordsInCons DEF Queued
      <4>4. Said(c) \cap Queued \subseteq repeatable
        BY <2>2, <2>3 DEF Once
      <4>5. Apart(Append(queue, EntryOf(c)), repeatable)
        BY <2>1, <4>1, <4>2, <4>4, ApartCons DEF Once, Queued
      <4> QED
        BY <3>2, <4>3, <4>5
    <3> QED
      BY <1>3, <3>1, <3>2
  <2> QED
    BY <1>1, <2>1, <2>2, <2>3, <2>4, <2>5 DEF Once, SentOnce
<1> QED
  BY <1>2, <1>3 DEF TryEnqueue

LEMMA OnceCallStep ==
  ASSUME TypeOK, Shape, Accounts, Once, NEW c \in Callers, CallStep(c)
  PROVE  Once'
<1>1. CASE TrySteer(c)
  BY <1>1, OnceCall DEF TrySteer, Steps, queueVars, sentVars
<1>2. CASE Steered(c)
  <2>1. UNCHANGED <<queue, dispatching, op>> /\ call[c] \in Unheard
    BY <1>2 DEF Steered, queueVars, Unheard
  <2>2. CASE GivenToAgent(Said(c)) /\ Goes(c, "done") /\ UNCHANGED repeatable
    BY <2>1, <2>2, OnceGiven
  <2>3. CASE /\ GivenToAgent(Said(c)) /\ Goes(c, "failed")
             /\ repeatable' = repeatable \cup Said(c)
    BY <2>1, <2>3, OnceGiven
  <2>4. ASSUME UNCHANGED <<sentVars, repeatable>>, NEW s \in {"unsteered", "failed"}, Goes(c, s)
        PROVE  Once'
    BY <2>1, <2>4, OnceCall DEF Steps, Unheard, sentVars
  <2> QED
    BY <1>2, <2>2, <2>3, <2>4 DEF Steered
<1>3. CASE TryEnqueue(c)
  BY <1>3, OnceEnqueued
<1>4. CASE SaveQueued(c)
  <2>1. UNCHANGED <<queue, dispatching, op, sent, twice>> /\ call[c] = "saving"
    BY <1>4 DEF SaveQueued, queueVars, sentVars
  <2>2. CASE Goes(c, "failed") /\ repeatable' = repeatable \cup Said(c)
    BY <2>1, <2>2, OnceCall, SaidFacts DEF Steps
  <2>3. CASE Goes(c, "done") /\ UNCHANGED repeatable
    <3>1. /\ Queued' = Queued /\ Steering' = Steering /\ InHand' = InHand
      <4>1. call'["dispatch"] = call["dispatch"] \/ (c = "dispatch" /\ call'["dispatch"] = "done")
        BY <2>3, GoesType DEF Callers, Steps
      <4> QED
        BY <2>1, <4>1 DEF Queued, Steering, InHand, Crossing
    <3> QED
      BY <2>1, <2>3, <3>1 DEF Once, SentOnce
  <2> QED
    BY <1>4, <2>2, <2>3 DEF SaveQueued
<1>5. CASE Begin(c)
  BY <1>5, OnceCall DEF Begin, Steps, queueVars, sentVars
<1>6. CASE Record(c)
  <2>1. PICK s \in {"starting", "failed"} : Goes(c, s)
    BY <1>6 DEF Record
  <2> QED
    BY <1>6, <2>1, OnceCall DEF Record, Steps, queueVars, sentVars
<1>7. CASE Started(c)
  <2>1. UNCHANGED <<queue, dispatching, op, repeatable>> /\ call[c] \in Unheard
    BY <1>7 DEF Started, queueVars, Unheard
  <2>2. CASE GivenToAgent(Said(c)) /\ Goes(c, "done")
    BY <2>1, <2>2, OnceGiven
  <2>3. CASE UNCHANGED sentVars /\ Goes(c, "failed")
    BY <2>1, <2>3, OnceCall DEF Steps, Unheard, sentVars
  <2> QED
    BY <1>7, <2>2, <2>3 DEF Started
<1> QED
  BY <1>1, <1>2, <1>3, <1>4, <1>5, <1>6, <1>7 DEF CallStep

(* The dispatch task.                                                      *)
LEMMA OnceDispatchNext ==
  ASSUME TypeOK, Shape, Once, DispatchNext PROVE Once'
<1>1. UNCHANGED <<op, sent, twice, repeatable>> /\ Steering' = Steering
  BY DEF DispatchNext, sentVars, Steering
<1>2. CASE queued_turn_is_held
  <2>1. UNCHANGED <<queue, dispatching, call>>
    BY <1>2 DEF DispatchNext, queueVars
  <2>2. Queued' = Queued /\ InHand' = InHand
    BY <2>1 DEF Queued, InHand, Crossing
  <2> QED
    BY <1>1, <2>1, <2>2 DEF Once, SentOnce
<1>3. CASE ~queued_turn_is_held
  <2>1. queue # <<>> /\ queue \in Seq(Entries)
    BY <1>3 DEF queued_turn_is_held, TypeOK
  <2>2. dispatching' = Head(queue) /\ queue' = Tail(queue) /\ Goes("dispatch", "ready")
    BY <1>3 DEF DispatchNext
  <2>3. call'["dispatch"] = "ready"
    BY <2>2, GoesType DEF Callers, Steps
  <2>4. InHand' = WordsOf(Head(queue))
    BY <2>2, <2>3 DEF InHand, Crossing
  <2>5. Queued = InHand' \cup Queued'
    BY <2>1, <2>2, <2>4, WordsInTail DEF Queued
  <2>6. Apart(queue', repeatable) /\ InHand' \cap Queued' \subseteq repeatable
    BY <2>1, <2>2, <2>4, ApartTail DEF Once, Queued
  <2> QED
    BY <1>1, <2>5, <2>6 DEF Once, SentOnce
<1> QED
  BY <1>2, <1>3

LEMMA OnceDispatched ==
  ASSUME TypeOK, Once, Dispatched PROVE Once'
<1>1. UNCHANGED <<op, sent, twice, repeatable>> /\ Steering' = Steering
  BY DEF Dispatched, sentVars, Steering
<1>2. InHand' = {}
  BY WordsOfNothing DEF Dispatched, InHand, Crossing
<1>3. dispatching \in Entries /\ queue \in Seq(Entries)
  BY DEF TypeOK
<1>4. CASE call["dispatch"] = "done"
  <2>1. queue' = queue /\ Queued' = Queued
    BY <1>4 DEF Dispatched, Queued
  <2> QED
    BY <1>1, <1>2, <2>1 DEF Once, SentOnce
<1>5. CASE call["dispatch"] = "failed"
  <2>1. queue' = <<dispatching>> \o queue /\ InHand = WordsOf(dispatching)
    BY <1>5 DEF Dispatched, InHand, Crossing
  <2>2. Queued' = InHand \cup Queued
    BY <1>3, <2>1, WordsInCons DEF Queued
  <2>3. Apart(queue', repeatable)
    BY <1>3, <2>1, ApartCons DEF Once, Queued
  <2> QED
    BY <1>1, <1>2, <2>2, <2>3 DEF Once, SentOnce
<1> QED
  BY <1>4, <1>5 DEF Dispatched

(* Operations on the queue.                                                *)
LEMMA OnceQueueOperation ==
  ASSUME TypeOK, Shape, Accounts, Once, QueueOperation PROVE Once'
<1>1. queue \in Seq(Entries) /\ \A i \in DOMAIN queue : queue[i] \in Entries
  BY DEF TypeOK
<1>2. ASSUME NEW i \in DOMAIN queue, remove_queued_turn(i) PROVE Once'
  <2>1. /\ UNCHANGED <<dispatching, call, sent, twice, repeatable>> /\ Steering' = {}
    BY <1>2 DEF remove_queued_turn, StartsOperation, Operation, Steering, sentVars
  <2>2. queue' = RemoveAt(queue, i) /\ InHand' = InHand
    BY <1>2, <2>1 DEF remove_queued_turn, InHand, Crossing
  <2>3. Queued' \subseteq Queued
    BY <1>1, <2>2, WordsInRemoveAt DEF Queued
  <2>4. Apart(queue', repeatable)
    BY <1>1, <2>2, ApartRemoveAt DEF Once
  <2> QED
    BY <2>1, <2>2, <2>3, <2>4 DEF Once, SentOnce
<1>3. ASSUME NEW i \in DOMAIN queue, steer_queued_turn(i) PROVE Once'
  <2>1. /\ UNCHANGED <<dispatching, call, sent, twice, repeatable>>
        /\ Steering' = WordsOf(queue[i])
    BY <1>3 DEF steer_queued_turn, StartsOperation, Operation, Steering, sentVars
  <2>2. queue' = RemoveAt(queue, i) /\ InHand' = InHand
    BY <1>3, <2>1 DEF steer_queued_turn, InHand, Crossing
  <2>3. Queued = Steering' \cup Queued'
    BY <1>1, <2>1, <2>2, WordsInRemoveAt DEF Queued
  <2>4. Apart(queue', repeatable) /\ Steering' \cap Queued' \subseteq repeatable
    BY <1>1, <2>1, <2>2, ApartRemoveAt DEF Once, Queued
  <2> QED
    BY <2>1, <2>2, <2>3, <2>4 DEF Once, SentOnce
<1>4. ASSUME NEW i \in DOMAIN queue, NEW w \in Edits, edit_queued_turn(i, w) PROVE Once'
  <2> DEFINE e == WithText(queue[i], w)
  <2>1. e \in Entries /\ WordsOf(e) = {w}
    BY <1>1, EditedWords
  <2>2. /\ UNCHANGED <<dispatching, call, sent, twice, repeatable>> /\ Steering' = {}
    BY <1>4 DEF edit_queued_turn, StartsOperation, Operation, Steering, sentVars
  <2>3. queue' = [queue EXCEPT ![i] = e] /\ InHand' = InHand /\ w \notin taken
    BY <1>4, <2>2 DEF edit_queued_turn, InHand, Crossing
  <2> HIDE DEF e
  <2>4. Queued' \subseteq Queued \cup {w}
    BY <1>1, <2>1, <2>3, WordsInExcept DEF Queued
  <2>5. w \notin Queued /\ w \notin InHand /\ w \notin sent
    BY <2>3 DEF Accounts, Gone, InMemory, Queued, InHand, Crossing
  <2>6. Apart(queue', repeatable)
    BY <1>1, <2>1, <2>3, <2>5, ApartExcept DEF Once, Queued
  <2> QED
    BY <2>2, <2>3, <2>4, <2>5, <2>6 DEF Once, SentOnce
<1>5. ASSUME NEW order \in [DOMAIN queue -> DOMAIN queue], reorder_queued_turns(order)
      PROVE  Once'
  <2>1. /\ UNCHANGED <<dispatching, call, sent, twice, repeatable>> /\ Steering' = {}
    BY <1>5 DEF reorder_queued_turns, StartsOperation, Operation, Steering, sentVars
  <2>2. /\ queue' = [i \in DOMAIN queue |-> queue[order[i]]] /\ InHand' = InHand
        /\ order \in Bijection(DOMAIN queue, DOMAIN queue)
    BY <1>5, <2>1 DEF reorder_queued_turns, InHand, Crossing
  <2>3. Queued' = Queued
    BY <1>1, <2>2, WordsInReorder DEF Queued
  <2>4. Apart(queue', repeatable)
    BY <1>1, <2>2, ApartReorder DEF Once
  <2> QED
    BY <2>1, <2>2, <2>3, <2>4 DEF Once, SentOnce
<1> QED
  BY <1>2, <1>3, <1>4, <1>5 DEF QueueOperation

LEMMA OnceSteerAnswered ==
  ASSUME TypeOK, Once, SteerAnswered PROVE Once'
<1> DEFINE at == IF op.at <= Len(queue) THEN op.at ELSE Len(queue) + 1
<1>1. PICK reached \in BOOLEAN, recorded \in BOOLEAN :
        /\ recorded => reached
        /\ IF reached THEN GivenToAgent(WordsOf(op.entry)) ELSE UNCHANGED sentVars
        /\ IF recorded
           THEN UNCHANGED <<queue, repeatable, missed>>
           ELSE /\ queue' = InsertAt(queue, at, op.entry)
                /\ repeatable' = repeatable \cup (IF reached THEN WordsOf(op.entry) ELSE {})
  BY DEF SteerAnswered
<1>2. op.entry \in Entries /\ queue \in Seq(Entries) /\ at \in 1..(Len(queue) + 1)
  BY DEF TypeOK
<1> HIDE DEF at
<1>3. /\ Steering = WordsOf(op.entry) /\ Steering' = {} /\ InHand' = InHand
      /\ WordsOf(op.entry) \cap WordsIn(queue) \subseteq repeatable
  BY DEF SteerAnswered, Operation, Steering, InHand, Crossing, Once, Queued
<1>4. CASE recorded
  <2>1. Queued' = Queued /\ queue' = queue /\ repeatable' = repeatable
        /\ sent' = sent \cup Steering /\ twice' = twice \cup (sent \cap Steering)
    BY <1>1, <1>3, <1>4 DEF Queued, GivenToAgent
  <2> QED
    BY <1>3, <2>1 DEF Once, SentOnce
<1>5. CASE ~recorded
  <2>1. Queued' = Queued \cup Steering
    BY <1>1, <1>2, <1>3, <1>5, WordsInInsertAt DEF Queued
  <2>2. Apart(queue', repeatable)
    BY <1>1, <1>2, <1>3, <1>5, ApartInsertAt DEF Once
  <2>3. repeatable \subseteq repeatable'
    BY <1>1, <1>5
  <2>4. Apart(queue', repeatable')
    BY <2>2, <2>3, ApartGrows
  <2>5. CASE reached
    <3>1. /\ repeatable' = repeatable \cup Steering
          /\ sent' = sent \cup Steering /\ twice' = twice \cup (sent \cap Steering)
      BY <1>1, <1>3, <1>5, <2>5 DEF GivenToAgent
    <3> QED
      BY <1>3, <2>1, <2>4, <3>1 DEF Once, SentOnce
  <2>6. CASE ~reached
    <3>1. sent' = sent /\ twice' = twice
      BY <1>1, <2>6 DEF sentVars
    <3> QED
      BY <1>3, <2>1, <2>3, <2>4, <3>1 DEF Once, SentOnce
  <2> QED
    BY <2>5, <2>6
<1> QED
  BY <1>4, <1>5

(* What a process finds in its file may have been sent.                    *)
LEMMA OnceRestored ==
  ASSUME Once, NEW saved, Restore(saved), UNCHANGED sentVars PROVE Once'
<1>1. /\ queue' = saved.queue /\ dispatching' = Nothing /\ op' = Quiet
      /\ repeatable' = repeatable \cup WordsIn(saved.queue)
      /\ sent' = sent /\ twice' = twice
  BY DEF Restore, sentVars
<1>2. Queued' \subseteq repeatable' /\ InHand' = {} /\ Steering' = {}
  BY <1>1, WordsOfNothing, QuietType DEF Queued, InHand, Crossing, Steering
<1>3. \A i \in DOMAIN queue' : WordsOf(queue'[i]) \subseteq Queued'
  BY DEF Queued, WordsIn
<1>4. Apart(queue', repeatable')
  BY <1>2, <1>3 DEF Apart
<1> QED
  BY <1>1, <1>2, <1>4 DEF Once, SentOnce

LEMMA OnceStill ==
  ASSUME Once, UNCHANGED <<queue, dispatching, sent, twice, repeatable>>, Steering' = Steering,
         call'["dispatch"] = call["dispatch"]
  PROVE  Once'
<1>1. Queued' = Queued /\ InHand' = InHand
  BY DEF Queued, InHand, Crossing
<1> QED
  BY <1>1 DEF Once, SentOnce

LEMMA NextOnce ==
  ASSUME TypeOK, Shape, Accounts, Once, [Next]_vars PROVE Once'
<1>1. CASE Resume
  <2>1. "resume" \in Callers /\ "ready" \in Steps
    BY DEF Callers, Steps
  <2> QED
    BY <1>1, <2>1, OnceCall DEF Resume, queueVars, sentVars
<1>2. CASE TurnEnd \/ UNCHANGED vars \/ CommitDispatch
  <2>1. UNCHANGED <<queue, dispatching, call, op, sent, twice, repeatable>>
    BY <1>2 DEF TurnEnd, CommitDispatch, vars, queueVars, sentVars
  <2> QED
    BY <2>1, OnceStill DEF Steering
<1>3. CASE Acknowledge \/ Acknowledged \/ SaveOperation
  <2>1. UNCHANGED <<queue, dispatching, call, sent, twice, repeatable>>
    BY <1>3 DEF Acknowledge, Acknowledged, SaveOperation, queueVars, sentVars
  <2>2. op.kind # "steering" /\ op'.kind # "steering"
    <3>1. CASE Acknowledge
      BY <3>1 DEF Acknowledge, StartsOperation, Operation, Quiet
    <3>2. CASE Acknowledged \/ SaveOperation
      <4>1. op' = Quiet /\ op.kind \in {"saving", "editing", "acknowledging"}
        BY <3>2 DEF Acknowledged, SaveOperation
      <4> QED
        BY <4>1 DEF Quiet
    <3> QED
      BY <1>3, <3>1, <3>2
  <2> QED
    BY <2>1, <2>2, OnceStill DEF Steering
<1>4. CASE Crash
  BY <1>4, OnceRestored DEF Crash
<1>5. CASE Shutdown
  BY <1>5, OnceRestored DEF Shutdown
<1> QED
  BY <1>1, <1>2, <1>3, <1>4, <1>5, OnceCallStep, OnceDispatchNext, OnceDispatched,
     OnceQueueOperation, OnceSteerAnswered DEF Next

(***************************************************************************)
(* The agent gets no word twice, whatever steers, dispatches, edits, ends  *)
(* of turns and failing writes overlap, but for words whose caller cannot  *)
(* know what became of them (steer_queued_turn, dispatch_next_queued_turn, *)
(* the restore of the queue).                                              *)
(***************************************************************************)
THEOREM WordsAreSentOnce == Spec => []SentOnce
<1>1. Init => Once
  <2> SUFFICES ASSUME Init PROVE Once
    OBVIOUS
  <2>1. Accounts /\ InMemory = {}
    BY InitAccounts DEF Owed
  <2>2. Queued = {} /\ InHand = {} /\ Steering = {}
    BY <2>1 DEF InMemory, Queued, InHand, Crossing
  <2>3. queue = <<>> /\ sent = {} /\ twice = {} /\ DOMAIN <<>> = {}
    BY DEF Init
  <2> QED
    BY <2>2, <2>3 DEF Once, SentOnce, Apart
<1>2. Init => Accounts
  BY InitAccounts
<1>3. TypeOK /\ Shape /\ Accounts /\ [Next]_vars => Accounts'
  BY NextAccounts
<1>4. TypeOK /\ Shape /\ Accounts /\ Once /\ [Next]_vars => Once'
  BY NextOnce
<1>5. Once => SentOnce
  BY DEF Once
<1> QED
  BY <1>1, <1>2, <1>3, <1>4, <1>5, TypeCorrect, PTL DEF Spec
=============================================================================
