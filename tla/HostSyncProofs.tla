--------------------------- MODULE HostSyncProofs ---------------------------
(***************************************************************************)
(* Theorems about a relay session and the client that follows it, for      *)
(* every number of peers, every bound of the relay's queues and replies    *)
(* and every number of updates a client parks.  The relay's part of each   *)
(* step is a step of RelayReplay, so that what RelayReplayProofs shows of  *)
(* it holds here.                                                          *)
(***************************************************************************)
EXTENDS HostSync, FiniteSetTheorems, TLAPS

Replay == INSTANCE RelayReplayProofs

(* Each instance brings its own name for the operators of FiniteSets.      *)
LEMMA SameCardinality ==
  ASSUME NEW S
  PROVE  /\ Client!Cardinality(S) = Cardinality(S)
         /\ Relay!Cardinality(S) = Cardinality(S)
         /\ Replay!Cardinality(S) = Cardinality(S)
         /\ Replay!IsFiniteSet(S) <=> IsFiniteSet(S)
BY DEF Client!Cardinality, Relay!Cardinality, Replay!Cardinality, Cardinality,
       Replay!IsFiniteSet, IsFiniteSet

-----------------------------------------------------------------------------
(* Numbers: a non-empty set of them has a smallest and a largest one.      *)
LEMMA SmallestNumber ==
  ASSUME NEW n \in Nat, NEW S \in SUBSET (1..n), S # {}
  PROVE  \E i \in S : \A j \in S : i <= j
<1> DEFINE Intervals == {1..i : i \in S}
<1>1. Intervals \subseteq FiniteSubsetsOf(1..n)
  <2> SUFFICES ASSUME NEW i \in S PROVE 1..i \in FiniteSubsetsOf(1..n)
    OBVIOUS
  <2>1. IsFiniteSet(1..i) /\ 1..i \subseteq 1..n
    BY FS_Interval
  <2> QED
    BY <2>1 DEF FiniteSubsetsOf
<1>2. Intervals # {}
  OBVIOUS
<1> HIDE DEF Intervals
<1>3. PICK least \in Intervals : \A s \in Intervals : ~ (<<s, least>> \in StrictSubsetOrdering(1..n))
  BY <1>1, <1>2, FS_StrictSubsetOrderingWellFounded, WFMin
<1>4. PICK i \in S : least = 1..i
  BY <1>3 DEF Intervals
<1>5. ASSUME NEW j \in S, j < i PROVE FALSE
  <2>1. i \in 1..n /\ j \in 1..n
    OBVIOUS
  <2>2. 1..j \subseteq 1..i /\ i \in 1..i /\ i \notin 1..j
    BY <1>5, <2>1
  <2>3. <<1..j, 1..i>> \in StrictSubsetOrdering(1..n)
    BY <2>1, <2>2 DEF StrictSubsetOrdering
  <2>4. 1..j \in Intervals
    BY DEF Intervals
  <2> QED
    BY <1>3, <1>4, <2>3, <2>4
<1> QED
  BY <1>5

LEMMA LargestNumber ==
  ASSUME NEW n \in Nat, NEW S \in SUBSET (1..n), S # {}
  PROVE  \E i \in S : \A j \in S : j <= i
<1> DEFINE Mirrored == {n + 1 - i : i \in S}
<1>1. Mirrored \in SUBSET (1..n) /\ Mirrored # {}
  <2>1. ASSUME NEW i \in S PROVE n + 1 - i \in 1..n
    <3>1. i \in 1..n
      OBVIOUS
    <3> QED
      BY <3>1
  <2> QED
    BY <2>1
<1>2. PICK m \in Mirrored : \A k \in Mirrored : m <= k
  <2> HIDE DEF Mirrored
  <2> QED
    BY <1>1, SmallestNumber
<1>3. PICK i \in S : m = n + 1 - i
  BY <1>2
<1>4. ASSUME NEW j \in S PROVE j <= i
  <2>1. n + 1 - j \in Mirrored
    OBVIOUS
  <2>2. m <= n + 1 - j /\ i \in 1..n /\ j \in 1..n
    BY <1>2, <2>1
  <2> QED
    BY <1>3, <2>2
<1> QED
  BY <1>4

-----------------------------------------------------------------------------
(* What operations on sequences of updates do to their elements.           *)
Update == Relay!Update

LEMMA UpdateFacts ==
  ASSUME NEW u \in Update PROVE u.seq \in 1..MaxSeq /\ u.seq \in Nat
BY BoundsAssumption DEF Update, Relay!Update

LEMMA ElementsOfEmpty == Elements(<<>>) = {}
BY DEF Elements

LEMMA EmptySequence == <<>> \in Seq(Update) /\ Len(<<>>) <= MaxParked
<1>1. Len(<<>>) = 0 /\ <<>> \in Seq(Update)
  OBVIOUS
<1> QED
  BY <1>1, BoundsAssumption

LEMMA ElementsOfConcat ==
  ASSUME NEW s \in Seq(Update), NEW t \in Seq(Update)
  PROVE  s \o t \in Seq(Update) /\ Elements(s \o t) = Elements(s) \cup Elements(t)
<1> DEFINE st == s \o t
           n == Len(s)
           m == Len(t)
<1>1. /\ n \in Nat /\ m \in Nat /\ Len(st) = n + m /\ st \in Seq(Update)
      /\ \A i \in 1..n : st[i] = s[i]
      /\ \A i \in 1..n + m : i > n => i - n \in 1..m /\ st[i] = t[i - n]
  OBVIOUS
<1> HIDE DEF st, n, m
<1>2. \A i \in 1..m : n + i \in 1..n + m /\ st[n + i] = t[i]
  <2>1. \A i \in 1..m : n + i \in 1..n + m /\ n + i > n /\ (n + i) - n = i
    BY <1>1
  <2> QED
    BY <1>1, <2>1
<1>3. \A i \in 1..n : i \in 1..n + m
  BY <1>1
<1>4. \A i \in 1..n + m : i \in 1..n \/ i > n
  BY <1>1
<1>5. /\ Elements(s) = {s[i] : i \in 1..n} /\ Elements(t) = {t[i] : i \in 1..m}
      /\ Elements(st) = {st[i] : i \in 1..n + m}
  BY <1>1 DEF Elements, n, m
<1>6. \A u \in Elements(st) : u \in Elements(s) \cup Elements(t)
  BY <1>1, <1>4, <1>5
<1>7. \A u \in Elements(s) \cup Elements(t) : u \in Elements(st)
  BY <1>1, <1>2, <1>3, <1>5
<1> QED
  BY <1>1, <1>6, <1>7 DEF st

LEMMA ElementsOfTail ==
  ASSUME NEW s \in Seq(Update), s # <<>>
  PROVE  /\ Head(s) \in Update /\ Tail(s) \in Seq(Update) /\ Len(Tail(s)) = Len(s) - 1
         /\ Elements(s) = {Head(s)} \cup Elements(Tail(s))
<1> DEFINE h == Head(s)
           t == Tail(s)
           one == <<h>>
<1>1. /\ h \in Update /\ t \in Seq(Update) /\ Len(t) = Len(s) - 1 /\ s = one \o t
      /\ one \in Seq(Update) /\ Len(one) = 1 /\ one[1] = h
  OBVIOUS
<1> HIDE DEF h, t, one
<1>2. Elements(one) = {h}
  BY <1>1 DEF Elements
<1>3. Elements(s) = {h} \cup Elements(t)
  BY <1>1, <1>2, ElementsOfConcat
<1> QED
  BY <1>1, <1>3 DEF h, t

LEMMA ElementsOfAppend ==
  ASSUME NEW s \in Seq(Update), NEW u \in Update
  PROVE  /\ Append(s, u) \in Seq(Update) /\ Len(Append(s, u)) = Len(s) + 1
         /\ Elements(Append(s, u)) = Elements(s) \cup {u}
<1> DEFINE one == <<u>>
<1>1. /\ Append(s, u) = s \o one /\ Append(s, u) \in Seq(Update)
      /\ Len(Append(s, u)) = Len(s) + 1
      /\ one \in Seq(Update) /\ Len(one) = 1 /\ one[1] = u
  OBVIOUS
<1> HIDE DEF one
<1>2. Elements(one) = {u}
  BY <1>1 DEF Elements
<1>3. Elements(Append(s, u)) = Elements(s) \cup {u}
  BY <1>1, <1>2, ElementsOfConcat
<1> QED
  BY <1>1, <1>3

LEMMA ElementsOfRest ==
  ASSUME NEW s \in Seq(Update), NEW k \in 1..Len(s)
  PROVE  /\ SubSeq(s, k + 1, Len(s)) \in Seq(Update)
         /\ \A i \in 1..Len(s) : i > k => s[i] \in Elements(SubSeq(s, k + 1, Len(s)))
<1> DEFINE t == SubSeq(s, k + 1, Len(s))
           n == Len(s)
<1>1. /\ n \in Nat /\ t \in Seq(Update) /\ Len(t) = n - k
      /\ \A i \in 1..n - k : t[i] = s[k + i]
  OBVIOUS
<1>2. \A i \in 1..n : i > k => i - k \in 1..n - k /\ k + (i - k) = i
  BY <1>1
<1> HIDE DEF t, n
<1>3. \A i \in 1..n : i > k => s[i] \in Elements(t)
  BY <1>1, <1>2 DEF Elements
<1> QED
  BY <1>1, <1>3 DEF t, n

-----------------------------------------------------------------------------
(***************************************************************************)
(* The updates of a message in the order of their numbers.  That a finite  *)
(* set of updates with different numbers can be listed in this order at    *)
(* all follows from the well-foundedness of its subsets: take away the     *)
(* last one.                                                               *)
(***************************************************************************)
Listing(s, U) ==
  /\ s \in [1..Cardinality(U) -> U]
  /\ \A i, j \in DOMAIN s : i < j => s[i].seq < s[j].seq

LEMMA ListingExtends ==
  ASSUME NEW U \in SUBSET Update, IsFiniteSet(U), NEW w \in U,
         \A u \in U \ {w} : u.seq < w.seq,
         NEW s, Listing(s, U \ {w})
  PROVE  \E t : Listing(t, U)
<1> DEFINE n == Cardinality(U)
           t == [i \in 1..n |-> IF i = n THEN w ELSE s[i]]
<1>1. Cardinality(U \ {w}) = n - 1 /\ n \in Nat /\ n - 1 \in Nat
  <2>1. IsFiniteSet(U \ {w}) /\ Cardinality(U \ {w}) = n - 1
    BY FS_RemoveElement
  <2>2. n \in Nat /\ Cardinality(U \ {w}) \in Nat
    BY <2>1, FS_CardinalityType
  <2> QED
    BY <2>1, <2>2
<1>2. /\ s \in [1..n - 1 -> U \ {w}]
      /\ \A i, j \in 1..n - 1 : i < j => s[i].seq < s[j].seq
  BY <1>1 DEF Listing
<1> HIDE DEF n
<1>3. \A i \in 1..n : i = n \/ i \in 1..n - 1
  BY <1>1
<1>4. t \in [1..n -> U]
  BY <1>2, <1>3
<1>5. ASSUME NEW i \in 1..n, NEW j \in 1..n, i < j PROVE t[i].seq < t[j].seq
  <2>1. i \in 1..n - 1 /\ t[i] = s[i] /\ i # n
    BY <1>1, <1>5
  <2>2. CASE j = n
    BY <1>2, <2>1, <2>2
  <2>3. CASE j # n
    BY <1>2, <1>3, <1>5, <2>1, <2>3
  <2> QED
    BY <2>2, <2>3
<1> HIDE DEF t
<1>6. DOMAIN t = 1..n
  BY <1>4
<1> QED
  BY <1>4, <1>5, <1>6 DEF Listing, n

LEMMA LastUpdate ==
  ASSUME NEW U \in SUBSET Update, U # {}, \A u, v \in U : u.seq = v.seq => u = v
  PROVE  \E w \in U : \A u \in U \ {w} : u.seq < w.seq
<1> DEFINE numbers == {u.seq : u \in U}
<1>1. numbers \in SUBSET (1..MaxSeq) /\ numbers # {} /\ MaxSeq \in Nat
  BY UpdateFacts, BoundsAssumption
<1>2. PICK k \in numbers : \A j \in numbers : j <= k
  <2> HIDE DEF numbers
  <2> QED
    BY <1>1, LargestNumber
<1>3. PICK w \in U : w.seq = k
  BY <1>2
<1>4. ASSUME NEW u \in U \ {w} PROVE u.seq < w.seq
  <2>1. u.seq \in numbers /\ u.seq # w.seq
    OBVIOUS
  <2>2. u.seq <= w.seq /\ u.seq \in Nat /\ w.seq \in Nat
    BY <1>2, <1>3, <2>1, UpdateFacts
  <2> QED
    BY <2>1, <2>2
<1> QED
  BY <1>4

LEMMA ListingExists ==
  ASSUME NEW U \in SUBSET Update, IsFiniteSet(U), \A u, v \in U : u.seq = v.seq => u = v
  PROVE  \E s : Listing(s, U)
<1> DEFINE Unlisted == {V \in SUBSET U : ~ \E s : Listing(s, V)}
<1>1. ASSUME Unlisted # {} PROVE FALSE
  <2>1. Unlisted \subseteq FiniteSubsetsOf(U)
    BY FS_Subset DEF FiniteSubsetsOf
  <2> HIDE DEF Unlisted
  <2>2. PICK V \in Unlisted : \A W \in Unlisted : ~ (<<W, V>> \in StrictSubsetOrdering(U))
    BY <1>1, <2>1, FS_StrictSubsetOrderingWellFounded, WFMin
  <2>3. V \in SUBSET U /\ IsFiniteSet(V) /\ ~ \E s : Listing(s, V)
    BY <2>2, FS_Subset DEF Unlisted
  <2>4. V # {}
    <3>1. ASSUME V = {} PROVE Listing(<<>>, V)
      <4>1. Cardinality(V) = 0
        BY <3>1, FS_EmptySet
      <4> QED
        BY <3>1, <4>1 DEF Listing
    <3> QED
      BY <2>3, <3>1
  <2>5. PICK w \in V : \A u \in V \ {w} : u.seq < w.seq
    BY <2>3, <2>4, LastUpdate
  <2>6. V \ {w} \notin Unlisted
    <3>1. <<V \ {w}, V>> \in StrictSubsetOrdering(U)
      BY <2>3 DEF StrictSubsetOrdering
    <3> QED
      BY <2>2, <3>1
  <2>7. PICK s : Listing(s, V \ {w})
    BY <2>3, <2>6 DEF Unlisted
  <2> QED
    BY <2>3, <2>5, <2>7, ListingExtends
<1> QED
  BY <1>1

LEMMA InOrderLists ==
  ASSUME NEW U \in SUBSET Update, IsFiniteSet(U), \A u, v \in U : u.seq = v.seq => u = v
  PROVE  Client!InOrder(U) \in Seq(Update) /\ Elements(Client!InOrder(U)) = U
<1> DEFINE s == Client!InOrder(U)
           n == Cardinality(U)
<1>1. n \in Nat
  BY FS_CardinalityType
<1>2. Listing(s, U)
  <2>1. \E t \in [1..Cardinality(U) -> U] :
          \A i, j \in DOMAIN t : i < j => t[i].seq < t[j].seq
    BY ListingExists DEF Listing
  <2> QED
    BY <2>1, SameCardinality, Zenon DEF Listing, Client!InOrder
<1> HIDE DEF s, n
<1>3. s \in [1..n -> U] /\ \A i, j \in 1..n : i < j => s[i].seq < s[j].seq
  BY <1>2 DEF Listing, n
<1>4. s \in Seq(Update) /\ Len(s) = n
  BY <1>1, <1>3
<1>5. s \in Injection(1..n, U)
  <2>1. ASSUME NEW i \in 1..n, NEW j \in 1..n, s[i] = s[j] PROVE i = j
    <3>1. s[i].seq \in Nat
      BY <1>3, UpdateFacts
    <3> QED
      BY <1>3, <2>1, <3>1
  <2> QED
    BY <1>3, <2>1 DEF Injection, IsInjective
<1>6. s \in Surjection(1..n, U)
  <2>1. Cardinality(1..n) = n
    BY <1>1, FS_Interval
  <2> QED
    BY <1>5, <2>1, FS_Injection DEF n
<1>7. Elements(s) = U
  BY <1>3, <1>4, <1>6 DEF Elements, Surjection
<1> QED
  BY <1>4, <1>7 DEF s

-----------------------------------------------------------------------------
(***************************************************************************)
(* The relay of this module and the relay of the theorems about it are the *)
(* same.                                                                   *)
(***************************************************************************)
LEMMA SameData ==
  /\ Relay!Update = Replay!Update /\ Relay!Message = Replay!Message
  /\ Relay!TypeOK <=> Replay!TypeOK
  /\ Relay!Init <=> Replay!Init
  /\ \A p : Relay!Room(p) = Replay!Room(p) /\ Relay!Queued(p) = Replay!Queued(p)
  /\ \A seq : Relay!After(seq) = Replay!After(seq)
<1>1. Relay!Update = Replay!Update /\ Relay!Message = Replay!Message
  BY DEF Relay!Update, Replay!Update, Relay!Message, Replay!Message,
         Relay!AllBodies, Replay!AllBodies
<1>2. Relay!TypeOK <=> Replay!TypeOK
  BY <1>1 DEF Relay!TypeOK, Replay!TypeOK
<1> QED
  BY <1>1, <1>2 DEF Relay!Init, Replay!Init, Relay!Unsynced, Replay!Unsynced,
     Relay!Room, Replay!Room, Relay!Queued, Replay!Queued, Relay!After, Replay!After

LEMMA SameReply ==
  ASSUME NEW after, NEW cut
  PROVE  /\ Relay!TruncatedReply(after) <=> Replay!TruncatedReply(after)
         /\ Relay!SyncMessages(after, cut) = Replay!SyncMessages(after, cut)
<1>1. Relay!TruncatedReply(after) <=> Replay!TruncatedReply(after)
  BY SameData, SameCardinality
  DEF Relay!TruncatedReply, Replay!TruncatedReply, Relay!HistoryTruncated,
      Replay!HistoryTruncated, Relay!ReplayFits, Replay!ReplayFits
<1> QED
  BY <1>1, SameData
  DEF Relay!SyncMessages, Replay!SyncMessages, Relay!SyncMessage, Replay!SyncMessage

LEMMA SameAppend ==
  ASSUME NEW body PROVE Relay!AppendUpdate(body) <=> Replay!AppendUpdate(body)
BY SameData DEF Relay!AppendUpdate, Replay!AppendUpdate, Relay!FanOut, Replay!FanOut,
                Relay!LiveUpdate, Replay!LiveUpdate

LEMMA SameSteps ==
  /\ \A p : /\ Relay!Register(p) <=> Replay!Register(p)
            /\ Relay!AnnounceJoin(p) <=> Replay!AnnounceJoin(p)
            /\ Relay!ReadyFails(p) <=> Replay!ReadyFails(p)
            /\ Relay!CloseSocket(p) <=> Replay!CloseSocket(p)
            /\ Relay!Unregister(p) <=> Replay!Unregister(p)
            /\ Relay!AnnounceLeave(p) <=> Replay!AnnounceLeave(p)
  /\ \A body : Relay!Publish(body) <=> Replay!Publish(body)
  /\ \A last : Relay!Prune(last) <=> Replay!Prune(last)
  /\ \A p, i : Relay!Transmit(p, i) <=> Replay!Transmit(p, i)
  /\ \A p, after, cut : Relay!Sync(p, after, cut) <=> Replay!Sync(p, after, cut)
<1> USE DEF Relay!sessionVars, Replay!sessionVars, Relay!peerVars, Replay!peerVars
<1>1. ASSUME NEW p
      PROVE  /\ Relay!Register(p) <=> Replay!Register(p)
             /\ Relay!AnnounceJoin(p) <=> Replay!AnnounceJoin(p)
             /\ Relay!ReadyFails(p) <=> Replay!ReadyFails(p)
             /\ Relay!CloseSocket(p) <=> Replay!CloseSocket(p)
             /\ Relay!Unregister(p) <=> Replay!Unregister(p)
             /\ Relay!AnnounceLeave(p) <=> Replay!AnnounceLeave(p)
  BY SameAppend
  DEF Relay!Register, Replay!Register, Relay!Unsynced, Replay!Unsynced,
      Relay!AnnounceJoin, Replay!AnnounceJoin, Relay!ReadyFails, Replay!ReadyFails,
      Relay!CloseSocket, Replay!CloseSocket, Relay!Unregister, Replay!Unregister,
      Relay!AnnounceLeave, Replay!AnnounceLeave
<1>2. ASSUME NEW body PROVE Relay!Publish(body) <=> Replay!Publish(body)
  BY SameAppend DEF Relay!Publish, Replay!Publish
<1>3. ASSUME NEW last PROVE Relay!Prune(last) <=> Replay!Prune(last)
  BY SameData DEF Relay!Prune, Replay!Prune, Relay!Larger, Replay!Larger
<1>4. ASSUME NEW p, NEW i PROVE Relay!Transmit(p, i) <=> Replay!Transmit(p, i)
  BY DEF Relay!Transmit, Replay!Transmit, Relay!InControlLane, Replay!InControlLane,
         Relay!Without, Replay!Without
<1>5. ASSUME NEW p, NEW after, NEW cut
      PROVE  Relay!Sync(p, after, cut) <=> Replay!Sync(p, after, cut)
  BY SameReply, SameData DEF Relay!Sync, Replay!Sync
<1> QED
  BY <1>1, <1>2, <1>3, <1>4, <1>5

LEMMA ReplayAssumptions ==
  /\ Bodies \subseteq Replay!AllBodies
  /\ MaxSeq \in Nat \ {0} /\ QueueCap \in Nat \ {0} /\ ReplayMax \in Nat \ {0}
BY BodiesAssumption, BoundsAssumption DEF Relay!AllBodies, Replay!AllBodies

(* Every step is a step of the relay, or none of its business.             *)
LEMMA RelayTakesStep ==
  ASSUME TypeOK, [Next]_vars PROVE [Replay!Next]_(Replay!vars)
<1> USE SameSteps
<1>1. ASSUME NEW p \in Peers, Connect(p) PROVE Replay!Next
  BY <1>1 DEF Connect, Replay!Next, Replay!PeerStep
<1>2. ASSUME NEW cut \in 0..MaxSeq, AnswerSync(cut) PROVE Replay!Next
  <2>1. sock \in Peers /\ request \in 0..MaxSeq
    BY <1>2, SameData, BoundsAssumption
    DEF AnswerSync, NoRequest, TypeOK, Replay!TypeOK, Replay!Sync
  <2> QED
    BY <1>2, <2>1 DEF AnswerSync, Replay!Next, Replay!SyncStep
<1>3. ASSUME NEW i \in 1..QueueCap, Deliver(i) PROVE Replay!Next
  BY <1>3 DEF Deliver, TypeOK, Replay!Next, Replay!PeerStep
<1>4. ASSUME NEW p \in Peers, NEW i \in 1..QueueCap, DeliverStale(p, i) PROVE Replay!Next
  BY <1>4 DEF DeliverStale, Replay!Next, Replay!PeerStep
<1>5. CASE RelayStep
  BY <1>5 DEF RelayStep, RelayOnly, Replay!Next, Replay!PeerStep, Replay!SessionStep
<1>6. CASE Reconnect \/ ClientOnly(Client!FlushStep) \/ SnapshotStep \/ UNCHANGED vars
  BY <1>6 DEF Reconnect, ClientOnly, SnapshotStep, SnapshotProgress, vars, relayVars,
              Replay!vars, Replay!sessionVars, Replay!peerVars
<1> QED
  BY <1>1, <1>2, <1>3, <1>4, <1>5, <1>6 DEF Next

LEMMA RelayStaysSound ==
  ASSUME TypeOK, Replay!Sound, [Next]_vars PROVE Replay!Sound'
BY RelayTakesStep, Replay!NextSound, ReplayAssumptions

-----------------------------------------------------------------------------
(***************************************************************************)
(* The client.  ClientTypeOK is the client's part of TypeOK but for the    *)
(* bound of recovery, which needs an argument of its own.                  *)
(***************************************************************************)
ClientTypeOK ==
  /\ cursor \in 0..MaxSeq /\ nextCursor \in 0..MaxSeq /\ key \in BOOLEAN
  /\ pending \in Seq(Update) /\ batch \in Seq(Update)
  /\ parked \in Seq(Update) /\ Len(parked) <= MaxParked /\ evicted \in BOOLEAN
  /\ snapshot \in {"idle", "asked", "taken"} /\ snapPoint \in 0..MaxSeq + 1
  /\ recovery \in Nat /\ truncNext \in 0..MaxSeq + 1
  /\ flush \in {"idle", "loop", "batch", "tail", "stale"}
  /\ events \subseteq 1..MaxSeq /\ deferred \in 0..MaxSeq
  /\ applied \subseteq 1..MaxSeq /\ covered \in 0..MaxSeq

LEMMA TypeParts ==
  TypeOK <=> /\ Relay!TypeOK /\ ClientTypeOK /\ recovery \in 0..2
             /\ sock \in Peers \cup {NoPeer} /\ request \in 0..MaxSeq + 1
             /\ resume \in 0..MaxSeq
<1>1. recovery \in 0..2 => recovery \in Nat
  OBVIOUS
<1> QED
  BY <1>1, Zenon DEF TypeOK, ClientTypeOK, Update

(* The run of encrypted updates at the head of a batch.                    *)
LEMMA RunFacts ==
  ASSUME ClientTypeOK, Client!Decrypting
  PROVE  /\ Client!RunLength \in 1..Len(batch)
         /\ \A i \in 1..Client!RunLength : batch[i].body \in Client!Encrypted
<1> DEFINE n == Len(batch)
           Ends == {i \in 1..n : i = n \/ batch[i + 1].body \notin Client!Encrypted}
<1>1. n \in Nat /\ n \in 1..n /\ Head(batch) = batch[1] /\ batch # <<>>
  BY DEF ClientTypeOK, Client!Decrypting
<1>2. batch[1].body \in Client!Encrypted
  BY <1>1 DEF Client!Decrypting
<1>3. Ends \in SUBSET (1..n) /\ Ends # {}
  BY <1>1
<1>4. PICK k \in Ends : \A i \in Ends : k <= i
  <2> HIDE DEF Ends, n
  <2> QED
    BY <1>1, <1>3, SmallestNumber
<1>5. k \in 1..n /\ (k = n \/ batch[k + 1].body \notin Client!Encrypted)
  BY <1>4
<1>6. ASSUME NEW i \in 1..k PROVE batch[i].body \in Client!Encrypted
  <2>1. CASE i = 1
    BY <1>2, <2>1
  <2>2. CASE i # 1
    <3>1. i - 1 \in 1..n /\ i - 1 # n /\ (i - 1) + 1 = i /\ ~(k <= i - 1)
      BY <1>1, <1>5, <2>2
    <3> QED
      BY <1>4, <3>1
  <2> QED
    BY <2>1, <2>2
<1> HIDE DEF Ends
<1>7. \E r \in 1..Len(batch) :
        /\ \A i \in 1..r : batch[i].body \in Client!Encrypted
        /\ r = Len(batch) \/ batch[r + 1].body \notin Client!Encrypted
  BY <1>5, <1>6
<1> QED
  BY <1>7, Zenon DEF Client!RunLength

LEMMA DecryptedFacts ==
  ASSUME ClientTypeOK, Client!Decrypting
  PROVE  /\ Client!Decrypted \subseteq 1..MaxSeq
         /\ \A u \in Elements(batch) : u.body = "event" =>
              \/ u.seq \in Client!Decrypted
              \/ u \in Elements(SubSeq(batch, Client!RunLength + 1, Len(batch)))
         /\ SubSeq(batch, Client!RunLength + 1, Len(batch)) \in Seq(Update)
<1> DEFINE r == Client!RunLength
           n == Len(batch)
<1>1. r \in 1..n /\ n \in Nat /\ batch \in Seq(Update)
  BY RunFacts DEF ClientTypeOK
<1>2. Client!Decrypted = {batch[i].seq : i \in {j \in 1..r : batch[j].body = "event"}}
  BY DEF Client!Decrypted
<1> HIDE DEF r
<1>3. \A i \in 1..n : batch[i] \in Update
  BY <1>1
<1>4. \A i \in 1..r : i \in 1..n
  BY <1>1
<1>5. Client!Decrypted \subseteq 1..MaxSeq
  BY <1>2, <1>3, <1>4, UpdateFacts
<1>6. /\ SubSeq(batch, r + 1, n) \in Seq(Update)
      /\ \A i \in 1..n : i > r => batch[i] \in Elements(SubSeq(batch, r + 1, n))
  BY <1>1, ElementsOfRest
<1>7. ASSUME NEW u \in Elements(batch), u.body = "event"
      PROVE  u.seq \in Client!Decrypted \/ u \in Elements(SubSeq(batch, r + 1, n))
  <2>1. PICK i \in 1..n : u = batch[i]
    BY DEF Elements
  <2>2. i \in 1..r \/ i > r
    BY <1>1
  <2> QED
    BY <1>2, <1>6, <1>7, <2>1, <2>2
<1> QED
  BY <1>5, <1>6, <1>7 DEF r

LEMMA AdvancedType ==
  ASSUME ClientTypeOK, NEW seq \in 0..MaxSeq PROVE Client!Advanced(seq) \in 0..MaxSeq
BY DEF ClientTypeOK, Client!Advanced, Client!Higher

LEMMA AfterDecryptionType ==
  ASSUME ClientTypeOK, Client!Decrypting PROVE Client!AfterDecryption \in 0..MaxSeq
<1>1. CASE Client!Decrypted = {}
  BY <1>1 DEF Client!AfterDecryption, ClientTypeOK
<1>2. CASE Client!Decrypted # {}
  <2> DEFINE last == CHOOSE n \in Client!Decrypted : \A m \in Client!Decrypted : m <= n
  <2>1. \E n \in Client!Decrypted : \A m \in Client!Decrypted : m <= n
    BY <1>2, DecryptedFacts, LargestNumber, BoundsAssumption
  <2>2. last \in Client!Decrypted
    BY <2>1
  <2>3. last \in 0..MaxSeq
    BY <2>2, DecryptedFacts, BoundsAssumption
  <2>4. Client!AfterDecryption = Client!Advanced(last)
    BY <1>2 DEF Client!AfterDecryption
  <2> HIDE DEF last
  <2> QED
    BY <2>3, <2>4, AdvancedType
<1> QED
  BY <1>1, <1>2

-----------------------------------------------------------------------------
(* The client's part of the types, action by action.                       *)
LEMMA FlushType ==
  ASSUME ClientTypeOK, Client!FlushStep PROVE ClientTypeOK'
<1> USE BoundsAssumption DEF Client!recoverVars, Client!flushVars
<1>1. CASE Client!StaleFlushEnds
  BY <1>1 DEF Client!StaleFlushEnds, ClientTypeOK
<1>2. CASE Client!TakeBatch
  BY <1>2 DEF Client!TakeBatch, ClientTypeOK
<1>3. CASE Client!SkipUpdate
  <2>1. /\ Head(batch) \in Update /\ Tail(batch) \in Seq(Update)
        /\ Head(batch).seq \in 0..MaxSeq
    BY <1>3, ElementsOfTail, UpdateFacts DEF Client!SkipUpdate, Client!NextIs, ClientTypeOK
  <2> QED
    BY <1>3, <2>1, AdvancedType DEF Client!SkipUpdate, ClientTypeOK
<1>4. CASE Client!Park
  <2>1. /\ Head(batch) \in Update /\ Tail(batch) \in Seq(Update)
    BY <1>4, ElementsOfTail DEF Client!Park, Client!NextIs, ClientTypeOK
  <2> DEFINE full == Len(parked) >= MaxParked
             room == IF full THEN Tail(parked) ELSE parked
  <2>2. room \in Seq(Update) /\ Len(room) + 1 <= MaxParked
    <3>1. CASE full
      <4>1. parked # <<>> /\ parked \in Seq(Update) /\ Len(parked) = MaxParked
        BY <3>1 DEF ClientTypeOK
      <4> QED
        BY <3>1, <4>1, ElementsOfTail
    <3>2. CASE ~full
      BY <3>2 DEF ClientTypeOK
    <3> QED
      BY <3>1, <3>2
  <2>3. /\ parked' = Append(room, Head(batch)) /\ batch' = Tail(batch)
        /\ evicted' \in BOOLEAN
    BY <1>4 DEF Client!Park, ClientTypeOK
  <2> HIDE DEF room, full
  <2>4. parked' \in Seq(Update) /\ Len(parked') <= MaxParked
    BY <2>1, <2>2, <2>3, ElementsOfAppend
  <2> QED
    BY <1>4, <2>1, <2>3, <2>4 DEF Client!Park, ClientTypeOK
<1>5. CASE Client!Decrypt
  <2>1. /\ batch' \in Seq(Update) /\ events' \subseteq 1..MaxSeq
        /\ nextCursor' \in 0..MaxSeq
    BY <1>5, DecryptedFacts, AfterDecryptionType DEF Client!Decrypt, ClientTypeOK
  <2> QED
    BY <1>5, <2>1 DEF Client!Decrypt, ClientTypeOK
<1>6. CASE Client!Commit
  <2>1. Client!Advanced(deferred) \in 0..MaxSeq
    BY AdvancedType DEF ClientTypeOK
  <2>2. cursor' \in 0..MaxSeq /\ nextCursor' \in 0..MaxSeq
    BY <1>6, <2>1 DEF Client!Commit, ClientTypeOK
  <2>3. applied' \subseteq 1..MaxSeq /\ events' = {} /\ deferred' = 0 /\ flush' = "loop"
    BY <1>6 DEF Client!Commit, ClientTypeOK
  <2> QED
    BY <1>6, <2>2, <2>3 DEF Client!Commit, ClientTypeOK
<1>7. CASE Client!LeaveLoop
  BY <1>7 DEF Client!LeaveLoop, ClientTypeOK
<1>8. CASE Client!EndFlush
  <2>1. cursor' \in 0..MaxSeq /\ truncNext' \in 0..MaxSeq + 1
    BY <1>8 DEF Client!EndFlush, Client!Higher, ClientTypeOK
  <2> QED
    BY <1>8, <2>1 DEF Client!EndFlush, ClientTypeOK
<1>9. ASSUME NEW ready \in BOOLEAN, Client!InstallKey(ready) PROVE ClientTypeOK'
  <2>1. /\ Head(batch) \in Update /\ Tail(batch) \in Seq(Update)
        /\ Head(batch).seq \in 0..MaxSeq
    BY <1>9, ElementsOfTail, UpdateFacts DEF Client!InstallKey, Client!NextIs, ClientTypeOK
  <2>2. parked \o Tail(batch) \in Seq(Update)
    BY <2>1, ElementsOfConcat DEF ClientTypeOK
  <2>3. deferred' \in 0..MaxSeq
    BY <1>9, <2>1 DEF Client!InstallKey, ClientTypeOK
  <2>4. nextCursor' \in 0..MaxSeq /\ cursor' \in 0..MaxSeq
    BY <1>9, <2>1 DEF Client!InstallKey, Client!Higher, ClientTypeOK
  <2>5. recovery' \in Nat /\ snapshot' \in {"idle", "asked", "taken"}
    BY <1>9 DEF Client!InstallKey, Client!AskSnapshot, ClientTypeOK
  <2>6. /\ key' = TRUE /\ batch' = parked \o Tail(batch) /\ parked' = <<>>
        /\ evicted' = FALSE
        /\ UNCHANGED <<pending, truncNext, snapPoint, flush, events, applied, covered>>
    BY <1>9 DEF Client!InstallKey
  <2>7. batch' \in Seq(Update) /\ parked' \in Seq(Update) /\ Len(parked') <= MaxParked
    BY <2>2, <2>6, EmptySequence
  <2> QED
    BY <2>3, <2>4, <2>5, <2>6, <2>7 DEF ClientTypeOK
<1> QED
  BY <1>1, <1>2, <1>3, <1>4, <1>5, <1>6, <1>7, <1>8, <1>9 DEF Client!FlushStep

LEMMA ReconnectType ==
  ASSUME ClientTypeOK, Client!ScheduleReconnect PROVE ClientTypeOK'
<1>1. /\ pending' \in Seq(Update) /\ batch' \in Seq(Update)
      /\ parked' \in Seq(Update) /\ Len(parked') <= MaxParked
  BY EmptySequence DEF Client!ScheduleReconnect
<1>2. flush' \in {"idle", "stale"} /\ nextCursor' = cursor
  BY DEF Client!ScheduleReconnect
<1>3. 0 \in 0..MaxSeq /\ 0 \in 0..MaxSeq + 1 /\ 0 \in Nat /\ {} \subseteq 1..MaxSeq
  BY BoundsAssumption
<1> QED
  BY <1>1, <1>2, <1>3 DEF Client!ScheduleReconnect, ClientTypeOK

LEMMA ReceiveType ==
  ASSUME ClientTypeOK, NEW m, m.next \in 0..MaxSeq + 1,
         Client!InOrder(m.updates) \in Seq(Update), Client!Receive(m)
  PROVE  ClientTypeOK'
<1> USE DEF Client!recoverVars, Client!flushVars
<1>1. pending' \in Seq(Update)
  BY ElementsOfConcat DEF Client!Receive, ClientTypeOK
<1>2. /\ truncNext' \in 0..MaxSeq + 1 /\ recovery' \in Nat
      /\ snapshot' \in {"idle", "asked", "taken"}
  <2>1. truncNext' \in 0..MaxSeq + 1
    BY DEF Client!Receive, Client!Higher, ClientTypeOK
  <2>2. recovery' \in Nat
    BY DEF Client!Receive, ClientTypeOK
  <2>3. snapshot' \in {"idle", "asked", "taken"}
    BY DEF Client!Receive, Client!AskSnapshot, ClientTypeOK
  <2> QED
    BY <2>1, <2>2, <2>3
<1> QED
  BY <1>1, <1>2 DEF Client!Receive, ClientTypeOK

LEMMA SnapshotType ==
  ASSUME ClientTypeOK, nextSeq \in 1..MaxSeq + 1,
         \/ Client!SnapshotTaken(nextSeq) \/ Client!SnapshotArrives
         \/ Client!SnapshotFails \/ Client!Refresh
  PROVE  ClientTypeOK'
<1> USE BoundsAssumption DEF Client!recoverVars, Client!flushVars
<1>1. CASE Client!SnapshotTaken(nextSeq)
  BY <1>1 DEF Client!SnapshotTaken, ClientTypeOK
<1>2. CASE Client!SnapshotArrives
  <2>1. covered' \in 0..MaxSeq /\ recovery' \in Nat
    BY <1>2 DEF Client!SnapshotArrives, Client!Higher, ClientTypeOK
  <2> QED
    BY <1>2, <2>1 DEF Client!SnapshotArrives, ClientTypeOK
<1>3. CASE Client!SnapshotFails
  BY <1>3 DEF Client!SnapshotFails, ClientTypeOK
<1>4. CASE Client!Refresh
  BY <1>4 DEF Client!Refresh, ClientTypeOK
<1> QED
  BY <1>1, <1>2, <1>3, <1>4

-----------------------------------------------------------------------------
(***************************************************************************)
(* The invariant of the client and its connection.                         *)
(***************************************************************************)
BatchIsOfTheFlush == flush # "batch" => batch = <<>> /\ events = {}

KeyComesOnce == /\ key => ~evicted
                /\ ~key => snapshot = "idle"

NothingOffline ==
  /\ request # NoRequest => sock # NoPeer /\ request = resume
  /\ sock = NoPeer => /\ pending = <<>> /\ flush \in {"idle", "stale"}
                      /\ recovery = 0 /\ snapshot = "idle"

(* A connection brings one truncation marker at most, and with what was    *)
(* evicted before the key came there are two recoveries at most.           *)
Due == request # NoRequest \/ Replay!HasMark(queue[sock])

RecoveriesAreFew ==
  sock # NoPeer =>
    /\ Replay!OneMark(queue[sock])
    /\ request # NoRequest => ~Replay!HasMark(queue[sock])
    /\ recovery + (IF Due THEN 1 ELSE 0) <= IF key THEN 2 ELSE 1

ClientInv == BatchIsOfTheFlush /\ KeyComesOnce /\ NothingOffline

(* The steps of a flush leave the connection alone, may ask for a          *)
(* snapshot, and turn an eviction into a recovery with a snapshot that is  *)
(* yet to be taken.                                                        *)
LEMMA FlushEffects ==
  ASSUME ClientTypeOK, ClientInv, Client!FlushStep
  PROVE  /\ UNCHANGED <<snapPoint, covered>> /\ BatchIsOfTheFlush' /\ KeyComesOnce'
         /\ key => key'
         /\ snapshot' = "taken" => snapshot = "taken"
         /\ \/ recovery' = recovery /\ (evicted => evicted')
            \/ ~key /\ key' /\ recovery' = recovery + 1 /\ snapshot' = "asked"
         /\ sock = NoPeer => /\ pending' = <<>> /\ flush' \in {"idle", "stale"}
                             /\ recovery' = 0 /\ snapshot' = "idle"
<1> USE DEF Client!recoverVars, Client!flushVars, ClientInv
<1>1. CASE Client!StaleFlushEnds
  BY <1>1 DEF Client!StaleFlushEnds, BatchIsOfTheFlush, KeyComesOnce, NothingOffline
<1>2. CASE Client!TakeBatch
  BY <1>2 DEF Client!TakeBatch, BatchIsOfTheFlush, KeyComesOnce, NothingOffline
<1>3. CASE Client!SkipUpdate
  BY <1>3 DEF Client!SkipUpdate, Client!NextIs, BatchIsOfTheFlush, KeyComesOnce,
              NothingOffline
<1>4. CASE Client!Park
  BY <1>4 DEF Client!Park, Client!NextIs, BatchIsOfTheFlush, KeyComesOnce,
              NothingOffline, ClientTypeOK
<1>5. CASE Client!Decrypt
  BY <1>5 DEF Client!Decrypt, Client!Decrypting, BatchIsOfTheFlush, KeyComesOnce,
              NothingOffline
<1>6. CASE Client!Commit
  BY <1>6 DEF Client!Commit, BatchIsOfTheFlush, KeyComesOnce, NothingOffline
<1>7. CASE Client!LeaveLoop
  BY <1>7 DEF Client!LeaveLoop, BatchIsOfTheFlush, KeyComesOnce, NothingOffline
<1>8. CASE Client!EndFlush
  BY <1>8 DEF Client!EndFlush, BatchIsOfTheFlush, KeyComesOnce, NothingOffline
<1>9. ASSUME NEW ready \in BOOLEAN, Client!InstallKey(ready)
      PROVE  /\ UNCHANGED <<snapPoint, covered>> /\ BatchIsOfTheFlush' /\ KeyComesOnce'
             /\ key => key'
             /\ snapshot' = "taken" => snapshot = "taken"
             /\ \/ recovery' = recovery /\ (evicted => evicted')
                \/ ~key /\ key' /\ recovery' = recovery + 1 /\ snapshot' = "asked"
             /\ sock # NoPeer
  <2>1. /\ flush = "batch" /\ flush' = flush /\ key' = TRUE /\ evicted' = FALSE
        /\ recovery' = IF evicted THEN recovery + 1 ELSE recovery
        /\ \/ snapshot' = (IF snapshot = "idle" THEN "asked" ELSE snapshot)
           \/ recovery' = 0 /\ snapshot' = snapshot
        /\ UNCHANGED <<snapPoint, covered>>
    BY <1>9 DEF Client!InstallKey, Client!NextIs, Client!AskSnapshot, ClientTypeOK
  <2> QED
    BY <2>1 DEF BatchIsOfTheFlush, KeyComesOnce, NothingOffline, ClientTypeOK
<1> QED
  BY <1>1, <1>2, <1>3, <1>4, <1>5, <1>6, <1>7, <1>8, <1>9 DEF Client!FlushStep

-----------------------------------------------------------------------------
(***************************************************************************)
(* Where the events of a connection are.  Reached: handed to the socket of *)
(* the client or on the way to it.  Accounted: held by the client, or      *)
(* already in the derived state.                                           *)
(***************************************************************************)
Up == sock # NoPeer /\ sock \in (live \cap open) \ closing

Reached == received[sock] \cup Replay!Queued(sock)

Accounted(u) ==
  u \in Held \/ u.seq \in events \/ u.seq \in applied \/ u.seq <= covered

(* What a snapshot lacks reaches the client on its own.                    *)
SnapshotLeavesRest ==
  Up /\ snapshot = "taken" =>
    \A u \in published : u.body = "event" /\ u.seq >= snapPoint => u \in Reached

(* With the reply in the queue and no recovery under way, what the client  *)
(* was owed has reached it or is part of a snapshot.                       *)
OwedHasReached ==
  Up /\ ~Due /\ recovery = 0 =>
    \A u \in published :
      u.body = "event" /\ u.seq > resume /\ u.seq > covered => u \in Reached

(* An event that reached the client and that it holds no longer is going   *)
(* to be part of a snapshot that a recovery waits for.                     *)
DroppedIsRecovered ==
  sock # NoPeer =>
    \A u \in received[sock] : u.body = "event" =>
      \/ Accounted(u) \/ evicted
      \/ recovery > 0 /\ (snapshot = "taken" => u.seq < snapPoint)

ConnectionInv == SnapshotLeavesRest /\ OwedHasReached /\ DroppedIsRecovered

LinkTypeOK == /\ sock \in Peers \cup {NoPeer} /\ request \in 0..MaxSeq + 1
              /\ resume \in 0..MaxSeq

ClientSide == ClientTypeOK /\ LinkTypeOK /\ ClientInv /\ RecoveriesAreFew /\ ConnectionInv

IInv == Replay!Sound /\ ClientSide

(* A step of a flush loses no event but by an eviction.                    *)
LEMMA FlushKeepsEvents ==
  ASSUME ClientTypeOK, BatchIsOfTheFlush, Client!FlushStep,
         NEW u \in Update, u.body = "event", Accounted(u)
  PROVE  Accounted(u)' \/ evicted'
<1> USE DEF Client!recoverVars, Client!flushVars
<1>1. u.body \notin {"presence", "status", "foreign", "bootstrap"}
  OBVIOUS
<1>2. CASE Client!StaleFlushEnds \/ Client!LeaveLoop
  BY <1>2 DEF Client!StaleFlushEnds, Client!LeaveLoop, Accounted, Held, Elements
<1>3. CASE Client!EndFlush
  BY <1>3 DEF Client!EndFlush, Accounted, Held, Elements
<1>4. CASE Client!TakeBatch
  <2>1. batch = <<>> /\ events = {}
    BY <1>4 DEF Client!TakeBatch, BatchIsOfTheFlush
  <2>2. /\ batch' = pending /\ pending' = <<>> /\ parked' = parked
        /\ UNCHANGED <<applied, covered>>
    BY <1>4 DEF Client!TakeBatch
  <2> QED
    BY <2>1, <2>2, ElementsOfEmpty DEF Accounted, Held, Elements
<1>5. CASE Client!SkipUpdate
  <2>1. Elements(batch) = {Head(batch)} \cup Elements(Tail(batch))
    BY <1>5, ElementsOfTail DEF Client!SkipUpdate, Client!NextIs, ClientTypeOK
  <2>2. Head(batch) # u
    BY <1>1, <1>5 DEF Client!SkipUpdate, Client!NextIs
  <2>3. batch' = Tail(batch) /\ UNCHANGED <<pending, parked, events, applied, covered>>
    BY <1>5 DEF Client!SkipUpdate
  <2> QED
    BY <2>1, <2>2, <2>3 DEF Accounted, Held, Elements
<1>6. CASE Client!Park
  <2>1. CASE Len(parked) >= MaxParked
    BY <1>6, <2>1 DEF Client!Park
  <2>2. CASE ~(Len(parked) >= MaxParked)
    <3>1. /\ parked' = Append(parked, Head(batch)) /\ batch' = Tail(batch)
          /\ UNCHANGED <<pending, events, applied, covered>>
      BY <1>6, <2>2 DEF Client!Park
    <3>2. /\ Elements(batch) = {Head(batch)} \cup Elements(Tail(batch))
          /\ Head(batch) \in Update
      BY <1>6, ElementsOfTail DEF Client!Park, Client!NextIs, ClientTypeOK
    <3>3. Elements(Append(parked, Head(batch))) = Elements(parked) \cup {Head(batch)}
      BY <3>2, ElementsOfAppend DEF ClientTypeOK
    <3> QED
      BY <3>1, <3>2, <3>3 DEF Accounted, Held
  <2> QED
    BY <2>1, <2>2
<1>7. CASE Client!Decrypt
  <2> DEFINE rest == SubSeq(batch, Client!RunLength + 1, Len(batch))
  <2>1. /\ batch' = rest /\ events' = events \cup Client!Decrypted
        /\ UNCHANGED <<pending, parked, applied, covered>> /\ Client!Decrypting
    BY <1>7 DEF Client!Decrypt
  <2>2. u \in Elements(batch) => u.seq \in Client!Decrypted \/ u \in Elements(rest)
    BY <2>1, DecryptedFacts
  <2> HIDE DEF rest
  <2> QED
    BY <2>1, <2>2 DEF Accounted, Held, Elements
<1>8. CASE Client!Commit
  BY <1>8 DEF Client!Commit, Accounted, Held, Elements
<1>9. ASSUME NEW ready \in BOOLEAN, Client!InstallKey(ready) PROVE Accounted(u)'
  <2>1. /\ Elements(batch) = {Head(batch)} \cup Elements(Tail(batch))
        /\ Tail(batch) \in Seq(Update)
    BY <1>9, ElementsOfTail DEF Client!InstallKey, Client!NextIs, ClientTypeOK
  <2>2. Head(batch) # u
    BY <1>1, <1>9 DEF Client!InstallKey, Client!NextIs
  <2>3. Elements(parked \o Tail(batch)) = Elements(parked) \cup Elements(Tail(batch))
    BY <2>1, ElementsOfConcat DEF ClientTypeOK
  <2>4. /\ batch' = parked \o Tail(batch)
        /\ UNCHANGED <<pending, events, applied, covered>>
    BY <1>9 DEF Client!InstallKey
  <2>5. u \in Held => u \in Held'
    BY <2>1, <2>2, <2>3, <2>4 DEF Held
  <2> QED
    BY <2>4, <2>5 DEF Accounted
<1> QED
  BY <1>2, <1>3, <1>4, <1>5, <1>6, <1>7, <1>8, <1>9 DEF Client!FlushStep

LEMMA FewIsTyped == IInv => TypeOK
<1> SUFFICES ASSUME IInv PROVE TypeOK
  OBVIOUS
<1>1. Relay!TypeOK
  BY SameData DEF IInv, Replay!Sound
<1>2. recovery \in 0..2
  <2>1. CASE sock = NoPeer
    BY <2>1 DEF IInv, ClientSide, ClientInv, NothingOffline
  <2>2. CASE sock # NoPeer
    BY <2>2 DEF IInv, ClientSide, RecoveriesAreFew, ClientTypeOK
  <2> QED
    BY <2>1, <2>2
<1> QED
  BY <1>1, <1>2, TypeParts DEF IInv, ClientSide, LinkTypeOK

-----------------------------------------------------------------------------
(* The client's side of the invariant, action by action.                   *)
LEMMA ConnectKeeps ==
  ASSUME IInv, NEW p \in Peers, Connect(p) PROVE ClientSide'
<1> USE DEF IInv, ClientSide
<1>1. /\ sock = NoPeer /\ sock' = p /\ p # NoPeer /\ request' = cursor /\ resume' = cursor
      /\ UNCHANGED clientVars
  BY NoPeerAssumption DEF Connect
<1>2. received'[p] = {} /\ ~Replay!HasMark(queue'[p]) /\ Replay!OneMark(queue'[p])
  BY SameSteps, ReplayAssumptions, Replay!RegisterForReader DEF Connect
<1>3. ClientTypeOK' /\ LinkTypeOK' /\ request' # NoRequest
  BY <1>1, BoundsAssumption DEF ClientTypeOK, LinkTypeOK, NoRequest, clientVars
<1>4. ClientInv'
  BY <1>1 DEF ClientInv, BatchIsOfTheFlush, KeyComesOnce, NothingOffline, clientVars
<1>5. recovery' = 0 /\ snapshot' = "idle" /\ Due'
  BY <1>1, <1>3 DEF ClientInv, NothingOffline, Due, clientVars
<1>6. RecoveriesAreFew'
  BY <1>1, <1>2, <1>5 DEF RecoveriesAreFew
<1>7. ConnectionInv'
  BY <1>1, <1>2, <1>5
  DEF ConnectionInv, SnapshotLeavesRest, OwedHasReached, DroppedIsRecovered
<1> QED
  BY <1>3, <1>4, <1>6, <1>7

LEMMA ReachedBy ==
  ASSUME NEW p, p = sock
  PROVE  /\ Reached = received[p] \cup Replay!Queued(p)
         /\ sock' = sock => Reached' = received'[p] \cup Replay!Queued(p)'
BY DEF Reached, Replay!Queued

LEMMA AnswerSyncKeeps ==
  ASSUME IInv, NEW cut \in 0..MaxSeq, AnswerSync(cut) PROVE ClientSide'
<1> USE DEF IInv, ClientSide
<1>1. /\ request # NoRequest /\ request' = NoRequest /\ request = resume
      /\ sock # NoPeer /\ sock \in Peers /\ request \in 0..MaxSeq
      /\ UNCHANGED <<clientVars, sock, resume>>
  BY BoundsAssumption DEF AnswerSync, ClientInv, NothingOffline, LinkTypeOK, NoRequest
<1> PICK p \in Peers : p = sock
  BY <1>1
<1> PICK after \in 0..MaxSeq : after = request
  BY <1>1
<1>2. ~Replay!HasMark(queue[p])
  BY <1>1 DEF RecoveriesAreFew
<1>3. Replay!Sync(p, after, cut)
  BY SameSteps DEF AnswerSync
<1>4. /\ UNCHANGED <<received, published, open, live>>
      /\ p \notin closing' => p \notin closing
      /\ Replay!OneMark(queue'[p])
      /\ Replay!Queued(p) \subseteq Replay!Queued(p)'
      /\ p \in (live' \cap open') \ closing' /\ ~Replay!HasMark(queue'[p]) =>
           \A u \in published' : u.seq > after /\ u.body # "presence" =>
             u \in received'[p] \cup Replay!Queued(p)'
  BY <1>2, <1>3, ReplayAssumptions, Replay!SyncForReader
<1>5. ClientTypeOK' /\ LinkTypeOK' /\ ClientInv'
  BY <1>1, BoundsAssumption
  DEF ClientTypeOK, LinkTypeOK, ClientInv, BatchIsOfTheFlush, KeyComesOnce,
      NothingOffline, clientVars, NoRequest
<1>6. RecoveriesAreFew'
  BY <1>1, <1>2, <1>4 DEF RecoveriesAreFew, Due, clientVars, ClientTypeOK
<1>7. Up' => Up
  BY <1>1, <1>4 DEF Up
<1>8. Reached \subseteq Reached' /\ Reached' = received'[p] \cup Replay!Queued(p)'
  BY <1>1, <1>4, ReachedBy
<1>9. SnapshotLeavesRest'
  BY <1>1, <1>4, <1>7, <1>8 DEF SnapshotLeavesRest, ConnectionInv, clientVars
<1>10. OwedHasReached'
  <2>1. Up' /\ ~Due' => \A u \in published' :
          u.seq > after /\ u.body # "presence" => u \in Reached'
    BY <1>1, <1>4, <1>8 DEF Up, Due
  <2> QED
    BY <1>1, <2>1 DEF OwedHasReached
<1>11. DroppedIsRecovered'
  BY <1>1, <1>4 DEF DroppedIsRecovered, ConnectionInv, Accounted, Held, Elements, clientVars
<1> QED
  BY <1>5, <1>6, <1>9, <1>10, <1>11 DEF ConnectionInv

(* What the relay does for others, or on its own.                          *)
LEMMA QuietKeeps ==
  ASSUME IInv, UNCHANGED <<clientVars, linkVars>>,
         \A p \in Peers : p = sock => Replay!Undisturbed(p)
  PROVE  ClientSide'
<1> USE DEF IInv, ClientSide
<1>1. ClientTypeOK' /\ LinkTypeOK' /\ ClientInv'
  BY DEF ClientTypeOK, LinkTypeOK, ClientInv, BatchIsOfTheFlush, KeyComesOnce,
         NothingOffline, clientVars, linkVars
<1>2. CASE sock = NoPeer
  BY <1>1, <1>2
  DEF RecoveriesAreFew, ConnectionInv, SnapshotLeavesRest, OwedHasReached,
      DroppedIsRecovered, Up, linkVars
<1>3. CASE sock # NoPeer
  <2> PICK p \in Peers : p = sock
    BY <1>3 DEF LinkTypeOK
  <2> Replay!Undisturbed(p)
    OBVIOUS
  <2>1. /\ received'[p] = received[p] /\ published \subseteq published'
        /\ Replay!HasMark(queue'[p]) => Replay!HasMark(queue[p])
        /\ Replay!OneMark(queue[p]) => Replay!OneMark(queue'[p])
        /\ p \in (live' \cap open') \ closing' =>
             /\ p \in (live \cap open) \ closing
             /\ Replay!HasMark(queue[p]) => Replay!HasMark(queue'[p])
             /\ Replay!Queued(p) \subseteq Replay!Queued(p)'
             /\ published' \subseteq published \cup Replay!Queued(p)'
    BY DEF Replay!Undisturbed
  <2>2. UNCHANGED <<sock, request, resume, recovery, key, snapshot, snapPoint, covered>>
    BY DEF clientVars, linkVars
  <2>3. Up' => /\ Up /\ Reached \subseteq Reached' /\ (Due => Due')
               /\ \A u \in published' : u \in published \/ u \in Reached'
    BY <2>1, <2>2, ReachedBy DEF Up, Due
  <2>4. RecoveriesAreFew'
    BY <1>3, <2>1, <2>2 DEF RecoveriesAreFew, Due, ClientTypeOK
  <2>5. SnapshotLeavesRest' /\ OwedHasReached'
    BY <2>2, <2>3 DEF SnapshotLeavesRest, OwedHasReached, ConnectionInv
  <2>6. DroppedIsRecovered'
    BY <2>1, <2>2 DEF DroppedIsRecovered, ConnectionInv, Accounted, Held, Elements, clientVars
  <2> QED
    BY <1>1, <2>4, <2>5, <2>6 DEF ConnectionInv
<1> QED
  BY <1>2, <1>3

LEMMA DeliverKeeps ==
  ASSUME IInv, NEW i \in 1..QueueCap, Deliver(i) PROVE ClientSide'
<1> USE DEF IInv, ClientSide
<1> PICK p \in Peers : p = sock
  BY DEF Deliver, LinkTypeOK
<1> DEFINE m == queue[p][i]
<1>1. /\ sock # NoPeer /\ UNCHANGED linkVars /\ Client!Receive(m)
      /\ Replay!Transmit(p, i) /\ Replay!OneMark(queue[p])
  BY SameSteps DEF Deliver, RecoveriesAreFew
<1>2. /\ m \in Replay!Message /\ m.updates \subseteq published
      /\ UNCHANGED <<published, open, live, closing>>
      /\ received'[p] = received[p] \cup m.updates
      /\ Replay!Queued(p) \subseteq received'[p] \cup Replay!Queued(p)'
      /\ Replay!OneMark(queue'[p])
      /\ Replay!HasMark(queue[p]) <=> m.truncated \/ Replay!HasMark(queue'[p])
      /\ ~(m.truncated /\ Replay!HasMark(queue'[p]))
  BY <1>1, ReplayAssumptions, Replay!TransmitForReader
<1> HIDE DEF m
<1>3. m.next \in 0..MaxSeq + 1 /\ m.truncated \in BOOLEAN /\ published \in SUBSET Update
  BY <1>2, SameData DEF Replay!Message, Replay!Sound, Replay!TypeOK, Update
<1>4. /\ Client!InOrder(m.updates) \in Seq(Update)
      /\ Elements(Client!InOrder(m.updates)) = m.updates
  <2>1. /\ m.updates \in SUBSET Update /\ IsFiniteSet(m.updates)
        /\ \A u, v \in m.updates : u.seq = v.seq => u = v
    BY <1>2, <1>3, SameCardinality, FS_Subset DEF Replay!Sound, Replay!UniqueNumbers
  <2> QED
    BY <2>1, InOrderLists
<1>5. ClientTypeOK' /\ LinkTypeOK'
  BY <1>1, <1>3, <1>4, ReceiveType DEF LinkTypeOK, linkVars
<1>6. /\ Elements(pending') = Elements(pending) \cup m.updates
      /\ UNCHANGED <<key, batch, parked, evicted, events, applied, covered, snapPoint>>
      /\ flush' = IF flush = "idle" THEN "loop" ELSE flush
      /\ snapshot' # snapshot => key /\ m.truncated /\ snapshot = "idle" /\ snapshot' = "asked"
      /\ recovery' = IF m.truncated THEN (IF key THEN recovery + 1 ELSE 1) ELSE recovery
  <2>1. pending' = pending \o Client!InOrder(m.updates)
    BY <1>1 DEF Client!Receive
  <2>2. Elements(pending') = Elements(pending) \cup m.updates
    BY <1>4, <2>1, ElementsOfConcat DEF ClientTypeOK
  <2> QED
    BY <1>1, <2>2 DEF Client!Receive, Client!AskSnapshot
<1>7. ClientInv'
  BY <1>1, <1>6
  DEF ClientInv, BatchIsOfTheFlush, KeyComesOnce, NothingOffline, linkVars
<1>8. /\ sock' = sock /\ request' = request /\ resume' = resume
      /\ Up' => Up
      /\ Reached \subseteq Reached'
  BY <1>1, <1>2, ReachedBy DEF Up, linkVars
<1>9. m.truncated => request = NoRequest /\ ~Due' /\ Due
  BY <1>1, <1>2, <1>8 DEF RecoveriesAreFew, Due
<1>10. ~m.truncated => (Due' <=> Due)
  BY <1>2, <1>8 DEF Due
<1>11. RecoveriesAreFew'
  <2>1. recovery + (IF Due THEN 1 ELSE 0) <= IF key THEN 2 ELSE 1
    BY <1>1 DEF RecoveriesAreFew
  <2>2. recovery' + (IF Due' THEN 1 ELSE 0) <= IF key' THEN 2 ELSE 1
    BY <1>3, <1>6, <1>9, <1>10, <2>1 DEF ClientTypeOK
  <2>3. request' # NoRequest => ~Replay!HasMark(queue'[p])
    BY <1>1, <1>2, <1>8 DEF RecoveriesAreFew
  <2> QED
    BY <1>2, <1>8, <2>2, <2>3 DEF RecoveriesAreFew
<1>12. SnapshotLeavesRest'
  BY <1>2, <1>6, <1>8 DEF ConnectionInv, SnapshotLeavesRest
<1>13. OwedHasReached'
  <2>1. recovery' = 0 => ~m.truncated /\ recovery = 0
    BY <1>3, <1>6 DEF ClientTypeOK
  <2> QED
    BY <1>2, <1>6, <1>8, <1>10, <2>1 DEF ConnectionInv, OwedHasReached
<1>14. DroppedIsRecovered'
  <2>1. \A u : Accounted(u) => Accounted(u)'
    BY <1>6 DEF Accounted, Held
  <2>2. \A u \in m.updates : Accounted(u)'
    BY <1>6 DEF Accounted, Held
  <2>3. recovery > 0 => recovery' > 0
    BY <1>3, <1>6 DEF ClientTypeOK
  <2> QED
    BY <1>1, <1>2, <1>6, <1>8, <2>1, <2>2, <2>3 DEF ConnectionInv, DroppedIsRecovered
<1> QED
  BY <1>5, <1>7, <1>11, <1>12, <1>13, <1>14 DEF ConnectionInv

LEMMA ReconnectKeeps ==
  ASSUME IInv, Reconnect PROVE ClientSide'
<1> USE DEF IInv, ClientSide
<1>1. /\ sock' = NoPeer /\ request' = NoRequest /\ resume' = resume
      /\ Client!ScheduleReconnect
  BY DEF Reconnect
<1>2. ClientTypeOK' /\ LinkTypeOK'
  BY <1>1, ReconnectType, BoundsAssumption DEF LinkTypeOK, NoRequest
<1>3. ClientInv'
  BY <1>1
  DEF Client!ScheduleReconnect, ClientInv, BatchIsOfTheFlush, KeyComesOnce,
      NothingOffline, NoRequest
<1> QED
  BY <1>1, <1>2, <1>3
  DEF RecoveriesAreFew, ConnectionInv, SnapshotLeavesRest, OwedHasReached,
      DroppedIsRecovered, Up

LEMMA FlushKeeps ==
  ASSUME IInv, ClientOnly(Client!FlushStep) PROVE ClientSide'
<1> USE DEF IInv, ClientSide
<1>1. Client!FlushStep /\ UNCHANGED <<relayVars, linkVars>>
  BY DEF ClientOnly
<1>2. /\ UNCHANGED <<snapPoint, covered>> /\ BatchIsOfTheFlush' /\ KeyComesOnce'
      /\ key => key'
      /\ snapshot' = "taken" => snapshot = "taken"
      /\ \/ recovery' = recovery /\ (evicted => evicted')
         \/ ~key /\ key' /\ recovery' = recovery + 1 /\ snapshot' = "asked"
      /\ sock = NoPeer => /\ pending' = <<>> /\ flush' \in {"idle", "stale"}
                          /\ recovery' = 0 /\ snapshot' = "idle"
  BY <1>1, FlushEffects
<1>3. ClientTypeOK' /\ LinkTypeOK' /\ ClientInv'
  BY <1>1, <1>2, FlushType DEF LinkTypeOK, ClientInv, NothingOffline, linkVars
<1>4. /\ Up' <=> Up
      /\ Reached' = Reached
      /\ Due' <=> Due
      /\ UNCHANGED <<sock, request, resume, published, received, queue>>
  BY <1>1 DEF Up, Reached, Replay!Queued, Due, relayVars, linkVars
<1>5. RecoveriesAreFew'
  <2> DEFINE due == IF Due THEN 1 ELSE 0
  <2>1. (IF Due' THEN 1 ELSE 0) = due /\ due \in {0, 1}
    BY <1>4
  <2>2. sock # NoPeer => recovery + due <= IF key THEN 2 ELSE 1
    BY DEF RecoveriesAreFew
  <2> HIDE DEF due
  <2>3. sock # NoPeer => recovery' + due <= IF key' THEN 2 ELSE 1
    <3>1. CASE recovery' = recovery
      BY <1>2, <2>1, <2>2, <3>1 DEF ClientTypeOK
    <3>2. CASE ~key /\ key' /\ recovery' = recovery + 1
      BY <2>1, <2>2, <3>2 DEF ClientTypeOK
    <3> QED
      BY <1>2, <3>1, <3>2
  <2> QED
    BY <1>4, <2>1, <2>3 DEF RecoveriesAreFew
<1>6. SnapshotLeavesRest' /\ OwedHasReached'
  BY <1>2, <1>4 DEF ConnectionInv, SnapshotLeavesRest, OwedHasReached, ClientTypeOK
<1>7. DroppedIsRecovered'
  <2> SUFFICES ASSUME sock # NoPeer, NEW u \in received[sock], u.body = "event"
               PROVE  \/ Accounted(u)' \/ evicted'
                      \/ recovery' > 0 /\ (snapshot' = "taken" => u.seq < snapPoint')
    BY <1>4 DEF DroppedIsRecovered
  <2>1. u \in Update
    BY SameData DEF LinkTypeOK, Replay!Sound, Replay!TypeOK, Update
  <2>2. \/ Accounted(u) \/ evicted
        \/ recovery > 0 /\ (snapshot = "taken" => u.seq < snapPoint)
    BY DEF ConnectionInv, DroppedIsRecovered
  <2>3. Accounted(u) => Accounted(u)' \/ evicted'
    BY <1>1, <2>1, FlushKeepsEvents DEF ClientInv
  <2> QED
    BY <1>2, <2>2, <2>3 DEF ClientTypeOK
<1> QED
  BY <1>3, <1>5, <1>6, <1>7 DEF ConnectionInv

LEMMA FewerStayWithin ==
  ASSUME NEW fewer \in Nat, NEW few \in Nat, NEW due \in Nat, NEW most \in Nat,
         fewer <= few, few + due <= most
  PROVE  fewer + due <= most
OBVIOUS

LEMMA SnapshotKeeps ==
  ASSUME IInv, SnapshotStep PROVE ClientSide'
<1> USE DEF IInv, ClientSide, Client!recoverVars, Client!flushVars
<1>1. /\ sock # NoPeer /\ UNCHANGED <<relayVars, linkVars>>
      /\ \/ Client!SnapshotTaken(nextSeq) \/ Client!SnapshotArrives
         \/ Client!SnapshotFails \/ Client!Refresh
  BY DEF SnapshotStep, SnapshotProgress, ClientOnly
<1>2. ClientTypeOK'
  BY <1>1, SnapshotType DEF Replay!Sound, Replay!TypeOK
<1>3. /\ Up' <=> Up
      /\ Reached' = Reached
      /\ Due' <=> Due
      /\ UNCHANGED <<sock, request, resume, published, received, queue>>
  BY <1>1 DEF Up, Reached, Replay!Queued, Due, relayVars, linkVars
<1>4. /\ LinkTypeOK'
      /\ UNCHANGED <<key, pending, batch, parked, evicted, events, applied, flush>>
  BY <1>1
  DEF LinkTypeOK, linkVars, Client!SnapshotTaken, Client!SnapshotArrives,
      Client!SnapshotFails, Client!Refresh
<1>5. key \/ snapshot' = "idle"
  BY <1>1
  DEF ClientInv, KeyComesOnce, Client!SnapshotTaken, Client!SnapshotArrives, Client!SnapshotFails, Client!Refresh
<1>6. ClientInv'
  BY <1>1, <1>3, <1>4, <1>5 DEF ClientInv, BatchIsOfTheFlush, KeyComesOnce, NothingOffline
<1>7. recovery' \in Nat /\ recovery' <= recovery
  <2>1. recovery \in Nat
    BY DEF ClientTypeOK
  <2>2. CASE Client!SnapshotArrives
    BY <2>1, <2>2 DEF Client!SnapshotArrives
  <2>3. CASE ~Client!SnapshotArrives
    <3>1. recovery' = recovery
      BY <1>1, <2>3 DEF Client!SnapshotTaken, Client!SnapshotFails, Client!Refresh
    <3> QED
      BY <2>1, <3>1
  <2> QED
    BY <2>2, <2>3
<1>8. RecoveriesAreFew'
  <2> DEFINE due == IF Due THEN 1 ELSE 0
             most == IF key THEN 2 ELSE 1
  <2>1. /\ (IF Due' THEN 1 ELSE 0) = due /\ due \in Nat
        /\ (IF key' THEN 2 ELSE 1) = most /\ most \in Nat
    BY <1>3, <1>4
  <2>2. recovery \in Nat /\ recovery + due <= most
    BY <1>1 DEF RecoveriesAreFew, ClientTypeOK
  <2> HIDE DEF due, most
  <2>3. recovery' + due <= most
    BY <1>7, <2>1, <2>2, FewerStayWithin
  <2> QED
    BY <1>3, <2>1, <2>3 DEF RecoveriesAreFew
<1>9. \A u : u \in Held' <=> u \in Held
  BY <1>4 DEF Held, Elements
<1>10. \A u \in published : u.seq \in Nat /\ nextSeq \in Nat /\ u.seq < nextSeq
  BY UpdateFacts, SameData, BoundsAssumption
  DEF Replay!Sound, Replay!TypeOK, Replay!IInv, Replay!Numbered, Update
<1>11. sock \in Peers /\ received[sock] \subseteq published
  BY <1>1 DEF LinkTypeOK, Replay!Sound, Replay!QueuesInOrder, Replay!Published
<1>12. CASE Client!SnapshotTaken(nextSeq)
  <2>1. snapshot' = "taken" /\ snapPoint' = nextSeq /\ UNCHANGED <<recovery, covered>>
    BY <1>12 DEF Client!SnapshotTaken
  <2>2. SnapshotLeavesRest'
    BY <1>3, <1>10, <2>1 DEF SnapshotLeavesRest
  <2>3. OwedHasReached' /\ DroppedIsRecovered'
    BY <1>3, <1>4, <1>9, <1>10, <1>11, <2>1
    DEF ConnectionInv, OwedHasReached, DroppedIsRecovered, Accounted
  <2> QED
    BY <1>2, <1>4, <1>6, <1>8, <2>2, <2>3 DEF ConnectionInv
<1>13. CASE Client!SnapshotArrives
  <2>1. /\ snapshot = "taken" /\ snapshot' # "taken"
        /\ recovery' = 0 => recovery \in {0, 1}
        /\ covered' = IF covered >= snapPoint - 1 THEN covered ELSE snapPoint - 1
    BY <1>13 DEF Client!SnapshotArrives, Client!Higher, ClientTypeOK
  <2>2. \A u \in published : /\ u.seq <= covered => u.seq <= covered'
                             /\ u.seq > covered' => u.seq > covered /\ u.seq >= snapPoint
                             /\ u.seq < snapPoint => u.seq <= covered'
    <3>1. covered \in Nat /\ snapPoint \in Nat
      BY BoundsAssumption DEF ClientTypeOK
    <3> QED
      BY <1>10, <2>1, <3>1
  <2>3. SnapshotLeavesRest'
    BY <2>1 DEF SnapshotLeavesRest
  <2>4. OwedHasReached'
    BY <1>3, <2>1, <2>2 DEF ConnectionInv, SnapshotLeavesRest, OwedHasReached
  <2>5. DroppedIsRecovered'
    BY <1>3, <1>4, <1>9, <1>11, <2>1, <2>2
    DEF ConnectionInv, DroppedIsRecovered, Accounted
  <2> QED
    BY <1>2, <1>4, <1>6, <1>8, <2>3, <2>4, <2>5 DEF ConnectionInv
<1>14. CASE Client!SnapshotFails \/ Client!Refresh
  <2>1. snapshot' # "taken" /\ UNCHANGED <<recovery, covered>>
    BY <1>14 DEF Client!SnapshotFails, Client!Refresh
  <2>2. SnapshotLeavesRest'
    BY <2>1 DEF SnapshotLeavesRest
  <2>3. OwedHasReached' /\ DroppedIsRecovered'
    BY <1>3, <1>4, <1>9, <2>1
    DEF ConnectionInv, OwedHasReached, DroppedIsRecovered, Accounted
  <2> QED
    BY <1>2, <1>4, <1>6, <1>8, <2>2, <2>3 DEF ConnectionInv
<1> QED
  BY <1>1, <1>12, <1>13, <1>14

-----------------------------------------------------------------------------
LEMMA InitIInv == Init => IInv
<1> SUFFICES ASSUME Init PROVE IInv
  OBVIOUS
<1>1. Replay!Sound
  BY SameData, ReplayAssumptions, Replay!InitSound DEF Init
<1>2. ClientTypeOK /\ LinkTypeOK
  <2>1. 0 \in 0..MaxSeq /\ 0 \in 0..MaxSeq + 1 /\ 0 \in Nat /\ NoRequest \in 0..MaxSeq + 1
    BY BoundsAssumption DEF NoRequest
  <2> QED
    BY <2>1, EmptySequence DEF Init, Client!Init, ClientTypeOK, LinkTypeOK
<1>3. ClientInv
  BY DEF Init, Client!Init, ClientInv, BatchIsOfTheFlush, KeyComesOnce, NothingOffline
<1>4. RecoveriesAreFew /\ ConnectionInv
  BY DEF Init, RecoveriesAreFew, ConnectionInv, SnapshotLeavesRest, OwedHasReached,
         DroppedIsRecovered, Up
<1> QED
  BY <1>1, <1>2, <1>3, <1>4 DEF IInv, ClientSide

LEMMA RelayStepIsQuiet ==
  ASSUME IInv, \/ RelayStep
               \/ \E p \in Peers, i \in 1..QueueCap : DeliverStale(p, i)
               \/ UNCHANGED vars
  PROVE  ClientSide'
<1> USE SameSteps
<1>1. UNCHANGED <<clientVars, linkVars>>
  BY DEF RelayStep, RelayOnly, DeliverStale, vars
<1>2. ASSUME NEW p \in Peers, p = sock PROVE Replay!Undisturbed(p)
  <2>1. Replay!TypeOK
    BY DEF IInv, Replay!Sound
  <2>2. \/ \E body \in Bodies : Replay!Publish(body)
        \/ \E last \in log : Replay!Prune(last)
        \/ \E q \in Peers : \/ Replay!AnnounceJoin(q) \/ Replay!ReadyFails(q)
                            \/ Replay!CloseSocket(q)
                            \/ Replay!Unregister(q) \/ Replay!AnnounceLeave(q)
        \/ \E q \in Peers \ {p}, i \in 1..QueueCap : Replay!Transmit(q, i)
        \/ UNCHANGED Replay!vars
    BY <1>2
    DEF RelayStep, RelayOnly, DeliverStale, vars, relayVars, Replay!vars,
        Replay!sessionVars, Replay!peerVars
  <2> QED
    BY <2>1, <2>2, ReplayAssumptions, Replay!OthersForReader
<1> QED
  BY <1>1, <1>2, QuietKeeps

LEMMA NextIInv == IInv /\ [Next]_vars => IInv'
<1> SUFFICES ASSUME IInv, [Next]_vars PROVE IInv'
  OBVIOUS
<1>1. Replay!Sound'
  BY RelayStaysSound, FewIsTyped DEF IInv
<1>2. ClientSide'
  BY ConnectKeeps, AnswerSyncKeeps, DeliverKeeps, ReconnectKeeps, RelayStepIsQuiet,
     FlushKeeps, SnapshotKeeps DEF Next
<1> QED
  BY <1>1, <1>2 DEF IInv

(***************************************************************************)
(* The state keeps its types on every connection and across them: replies, *)
(* live updates and truncation markers of the relay, what the client holds *)
(* of them, and the recoveries, of which never more than two are under way *)
(* (handleServerMessage, flushUpdates, refreshSnapshot,                    *)
(* scheduleReconnect).                                                     *)
(***************************************************************************)
THEOREM TypeCorrect == Spec => []TypeOK
BY InitIInv, NextIInv, FewIsTyped, PTL DEF Spec

(***************************************************************************)
(* On a connection that the relay has not given up, nothing that the       *)
(* cursor may pass is lost: an event that is not in the derived state is   *)
(* held by the client, on its way, or due to the sync request or to a      *)
(* recovery, whatever the relay superseded, pruned or truncated, the       *)
(* client parked, evicted or could not decrypt, and snapshots brought      *)
(* meanwhile.                                                              *)
(***************************************************************************)
THEOREM PassedStaysOnTheWay == Spec => []PassedIsOnTheWay
<1>1. IInv => PassedIsOnTheWay
  <2> SUFFICES ASSUME IInv, Up, NEW u \in published, resume < u.seq, Missing(u),
                      ~Due, u \notin Held, u.seq \notin events,
                      ~(recovery > 0), ~evicted
               PROVE  u \in Relay!Queued(sock)
    BY DEF PassedIsOnTheWay, Up, Due, Replay!HasMark
  <2> USE DEF IInv, ClientSide, ConnectionInv
  <2>1. u.seq \in Nat /\ resume \in Nat /\ covered \in Nat /\ recovery = 0
    BY UpdateFacts, SameData, BoundsAssumption
    DEF Replay!Sound, Replay!TypeOK, Update, LinkTypeOK, ClientTypeOK
  <2>2. u \in Reached
    BY <2>1 DEF OwedHasReached, Missing
  <2>3. u \notin received[sock]
    <3>1. ~Accounted(u)
      BY <2>1 DEF Accounted, Missing
    <3> QED
      BY <3>1 DEF DroppedIsRecovered, Up, Missing
  <2> QED
    BY <2>2, <2>3, SameData DEF Reached
<1> QED
  BY <1>1, InitIInv, NextIInv, PTL DEF Spec
=============================================================================
