-------------------------- MODULE AutomationsProofs --------------------------
(* Proofs about the automations of the daemon (Automations) for any number *)
(* of automations, any policies, triggers and bounds, whatever users ask   *)
(* for while the scheduler works off its lists, writes fail and the        *)
(* process ends: the types, and that the runs keep the promise of the      *)
(* ledger (RunLedger).                                                     *)
EXTENDS Automations, FiniteSetTheorems, SequenceTheorems, TLAPS

(* An occurrence that was given to a run is past, and the schedule of its  *)
(* automation is beyond it.                                                *)
ConsumedIsPast ==
  \A k \in keys : /\ k[2] <= now
                  /\ automation[k[1]].next # Never => k[2] < automation[k[1]].next

(* What the scheduler still has on its list was not given to a run since.  *)
ListIsFresh == \A x \in loop.due : x \notin keys /\ x[2] <= now

(* A scheduled run has consumed its occurrence.                            *)
RunsHaveKeys ==
  \A r \in RunIds : runs[r].due # Never => <<runs[r].automation, runs[r].due>> \in keys

LInv == ConsumedIsPast /\ ListIsFresh /\ RunsHaveKeys

-----------------------------------------------------------------------------
(* Times and schedules.                                                    *)
LEMMA TimeFacts ==
  /\ MaxTime \in Nat \ {0} /\ Times \subseteq Nat \ {0} /\ Never \notin Times /\ Never = 0
  /\ \A t \in Times : t - 1 \in Nat
BY BoundsAssumption DEF Times, Never

(* A set of instants that is not empty has a least one: the intervals up   *)
(* to its elements are finite sets.                                        *)
LEMMA LeastTime ==
  ASSUME NEW times \in SUBSET Times, times # {}
  PROVE  \E t \in times : \A u \in times : t <= u
<1> DEFINE Intervals == {1..t : t \in times}
<1>1. Intervals \subseteq FiniteSubsetsOf(Times)
  <2> SUFFICES ASSUME NEW t \in times PROVE 1..t \in FiniteSubsetsOf(Times)
    OBVIOUS
  <2>1. t \in 1..MaxTime /\ MaxTime \in Nat
    BY BoundsAssumption DEF Times
  <2>2. IsFiniteSet(1..t)
    BY <2>1, FS_Interval
  <2> QED
    BY <2>1, <2>2 DEF FiniteSubsetsOf, Times
<1>2. Intervals # {}
  OBVIOUS
<1> HIDE DEF Intervals
<1>3. PICK least \in Intervals : \A i \in Intervals : ~ (<<i, least>> \in StrictSubsetOrdering(Times))
  BY <1>1, <1>2, FS_StrictSubsetOrderingWellFounded, WFMin
<1>4. PICK t \in times : least = 1..t
  BY <1>3 DEF Intervals
<1>5. ASSUME NEW u \in times, u < t PROVE FALSE
  <2>1. t \in 1..MaxTime /\ u \in 1..MaxTime
    BY DEF Times
  <2>2. 1..u \in Intervals /\ 1..t \in Intervals
    BY DEF Intervals
  <2>3. 1..u \subseteq 1..t /\ t \in 1..t /\ t \notin 1..u
    BY <2>1, <1>5
  <2>4. <<1..u, 1..t>> \in StrictSubsetOrdering(Times)
    BY <2>2, <2>3, <1>1 DEF StrictSubsetOrdering, FiniteSubsetsOf
  <2> QED
    BY <2>2, <2>4, <1>3, <1>4
<1>6. \A u \in times : u \in Nat /\ t \in Nat
  BY TimeFacts
<1> QED
  BY <1>5, <1>6

LEMMA MinimumFacts ==
  ASSUME NEW times \in SUBSET Times
  PROVE  Minimum(times) = Never \/ Minimum(times) \in times
<1>1. CASE times = {}
  BY <1>1 DEF Minimum
<1>2. CASE times # {}
  <2>1. \E t \in times : \A u \in times : t <= u
    BY <1>2, LeastTime
  <2>2. Min(times) \in times
    BY <2>1 DEF Min
  <2> QED
    BY <1>2, <2>2 DEF Minimum
<1> QED
  BY <1>1, <1>2

(* The next occurrence of a schedule is in the future.                     *)
LEMMA NextFacts ==
  ASSUME NEW trigger
  PROVE  /\ next_occurrence(trigger, now) \in Times \cup {Never}
         /\ next_occurrence(trigger, now) # Never => next_occurrence(trigger, now) > now
<1> DEFINE times == {t \in Occurrences(trigger) : t > now}
<1>1. times \subseteq Times /\ \A t \in times : t > now
  BY DEF Occurrences
<1> HIDE DEF times
<1>2. Minimum(times) = Never \/ Minimum(times) \in times
  BY <1>1, MinimumFacts
<1>3. next_occurrence(trigger, now) = Minimum(times)
  BY DEF next_occurrence, times
<1> QED
  BY <1>1, <1>2, <1>3

LEMMA AdvanceFacts ==
  ASSUME NEW a, NEW dispatched
  PROVE  /\ advance_after(a, dispatched) \in Times \cup {Never}
         /\ advance_after(a, dispatched) # Never => advance_after(a, dispatched) > now
<1> DEFINE times == {t \in Occurrences(automation[a].trigger) : t > now /\ <<a, t>> \notin dispatched}
<1>1. times \subseteq Times /\ \A t \in times : t > now
  BY DEF Occurrences
<1> HIDE DEF times
<1>2. Minimum(times) = Never \/ Minimum(times) \in times
  BY <1>1, MinimumFacts
<1>3. advance_after(a, dispatched) = Minimum(times)
  BY DEF advance_after, times
<1> QED
  BY <1>1, <1>2, <1>3

-----------------------------------------------------------------------------
(* Types.                                                                  *)
Definition == [state : States, trigger : Triggers \cup {Every(1)}, next : Times \cup {Never}]
RunRecord == [automation : Ids, status : {"queued", "running", "settled"}, due : Times \cup {Never}]
ExecutorStates == {"none", "slot", "work", "lost"}

LEMMA RunFacts ==
  ASSUME TypeOK
  PROVE  /\ runs \in Seq(RunRecord) /\ executor \in Seq(ExecutorStates)
         /\ Len(runs) \in Nat /\ Len(executor) = Len(runs)
         /\ RunIds = 1..Len(runs) /\ DOMAIN executor = RunIds
         /\ \A r \in RunIds : runs[r] \in RunRecord /\ executor[r] \in ExecutorStates
         /\ automation \in [Ids -> Definition]
         /\ now \in Times /\ now \in Nat
<1>1. runs \in Seq(RunRecord) /\ executor \in Seq(ExecutorStates) /\ Len(executor) = Len(runs)
  BY DEF TypeOK, RunRecord, ExecutorStates
<1>2. automation \in [Ids -> Definition] /\ now \in Times /\ now \in Nat
  BY TimeFacts DEF TypeOK, Definition
<1>3. /\ Len(runs) \in Nat /\ RunIds = 1..Len(runs) /\ DOMAIN executor = RunIds
      /\ \A r \in RunIds : runs[r] \in RunRecord /\ executor[r] \in ExecutorStates
  BY <1>1 DEF RunIds
<1> QED
  BY <1>1, <1>2, <1>3

LEMMA NextIsNumber ==
  ASSUME NEW f \in [Ids -> Definition], NEW a \in Ids PROVE f[a].next \in Nat
<1>1. f[a] \in Definition
  OBVIOUS
<1>2. f[a].next \in Times \cup {Never}
  BY <1>1 DEF Definition
<1>3. \A t \in Times \cup {Never} : t \in Nat
  BY TimeFacts
<1> QED
  BY <1>2, <1>3

(* A change of one definition; of the status of a run; one more run.       *)
LEMMA DefinitionFacts ==
  ASSUME TypeOK, NEW a \in Ids, NEW d \in Definition
  PROVE  [automation EXCEPT ![a] = d] \in [Ids -> Definition]
BY RunFacts

LEMMA StatusFacts ==
  ASSUME TypeOK, NEW r \in RunIds, NEW status \in {"queued", "running", "settled"}
  PROVE  /\ WithStatus(r, status) \in Seq(RunRecord) /\ Len(WithStatus(r, status)) = Len(runs)
         /\ DOMAIN WithStatus(r, status) = RunIds
         /\ \A s \in RunIds : /\ WithStatus(r, status)[s].automation = runs[s].automation
                              /\ WithStatus(r, status)[s].due = runs[s].due
<1>1. runs \in [1..Len(runs) -> RunRecord] /\ Len(runs) \in Nat /\ RunIds = 1..Len(runs)
  BY RunFacts
<1>2. [runs[r] EXCEPT !.status = status] \in RunRecord
  BY <1>1 DEF RunRecord
<1>3. WithStatus(r, status) \in [1..Len(runs) -> RunRecord]
  BY <1>1, <1>2 DEF WithStatus
<1>4. WithStatus(r, status) \in Seq(RunRecord) /\ Len(WithStatus(r, status)) = Len(runs)
  BY <1>1, <1>3
<1>5. \A s \in RunIds : /\ WithStatus(r, status)[s].automation = runs[s].automation
                        /\ WithStatus(r, status)[s].due = runs[s].due
  BY <1>1 DEF WithStatus, RunRecord
<1> QED
  BY <1>1, <1>3, <1>4, <1>5

LEMMA ExecutorFacts ==
  ASSUME TypeOK, NEW r \in RunIds, NEW x \in ExecutorStates
  PROVE  /\ [executor EXCEPT ![r] = x] \in Seq(ExecutorStates)
         /\ Len([executor EXCEPT ![r] = x]) = Len(runs)
<1>1. executor \in [1..Len(runs) -> ExecutorStates] /\ Len(runs) \in Nat
  BY RunFacts
<1>2. [executor EXCEPT ![r] = x] \in [1..Len(runs) -> ExecutorStates]
  BY <1>1
<1> QED
  BY <1>1, <1>2

LEMMA RecordedFacts ==
  ASSUME TypeOK, NEW a \in Ids, NEW due \in Times \cup {Never}, Recorded(a, due)
  PROVE  /\ runs' \in Seq(RunRecord) /\ executor' \in Seq(ExecutorStates)
         /\ Len(executor') = Len(runs') /\ Len(runs') = Len(runs) + 1
         /\ DOMAIN runs' = RunIds \cup {Len(runs) + 1}
         /\ \A r \in RunIds : runs'[r] = runs[r]
         /\ runs'[Len(runs) + 1].automation = a /\ runs'[Len(runs) + 1].due = due
         /\ runs' = Append(runs, Run(a, overlap_disposition(a), due))
         /\ overlap_disposition(a) \in {"queued", "settled"}
<1>1. overlap_disposition(a) \in {"queued", "settled"}
  BY DEF overlap_disposition
<1>2. PICK run \in RunRecord : /\ run = Run(a, overlap_disposition(a), due)
                               /\ run.automation = a /\ run.due = due
  <2>1. Run(a, overlap_disposition(a), due) \in RunRecord
    BY <1>1 DEF Run, RunRecord
  <2> QED
    BY <2>1 DEF Run
<1>3. runs' = Append(runs, run) /\ executor' = Append(executor, "none")
  BY <1>2 DEF Recorded
<1> QED
  BY <1>1, <1>2, <1>3, RunFacts DEF RunIds, ExecutorStates

(* What the types say of the next state, piece by piece.                   *)
LEMMA TypesOfNext ==
  ASSUME now' \in Times, notified' \in BOOLEAN, ops' \in 0..MaxOps, faults' \in 0..MaxFaults,
         automation' \in [Ids -> Definition], runs' \in Seq(RunRecord),
         executor' \in Seq(ExecutorStates), Len(executor') = Len(runs'),
         keys' \subseteq Ids \X Times,
         loop' \in [step : {"waiting", "due", "queued"}, due : SUBSET (Ids \X Times),
                    todo : SUBSET (DOMAIN runs')]
  PROVE  TypeOK'
BY DEF TypeOK, Definition, RunRecord, ExecutorStates, RunIds

LEMMA InitTypes == Init => TypeOK
<1> SUFFICES ASSUME Init PROVE TypeOK
  OBVIOUS
<1>1. [state |-> "absent", trigger |-> Every(1), next |-> Never] \in
        [state : States, trigger : Triggers \cup {Every(1)}, next : Times \cup {Never}]
  BY DEF States
<1>2. automation \in [Ids -> [state : States, trigger : Triggers \cup {Every(1)},
                              next : Times \cup {Never}]]
  BY <1>1 DEF Init
<1>3. now \in Times /\ ops \in 0..MaxOps /\ faults \in 0..MaxFaults
  BY BoundsAssumption DEF Init, Times
<1>4. /\ runs = <<>> /\ executor = <<>> /\ keys = {} /\ notified = FALSE
      /\ loop = [step |-> "waiting", due |-> {}, todo |-> {}]
  BY DEF Init, Waiting
<1>5. loop \in [step : {"waiting", "due", "queued"}, due : SUBSET (Ids \X Times), todo : SUBSET RunIds]
  BY <1>4
<1>6. /\ runs \in Seq([automation : Ids, status : {"queued", "running", "settled"},
                      due : Times \cup {Never}])
      /\ executor \in Seq({"none", "slot", "work", "lost"}) /\ Len(executor) = Len(runs)
  BY <1>4
<1> QED
  BY <1>2, <1>3, <1>4, <1>5, <1>6 DEF TypeOK

LEMMA FaultFacts ==
  ASSUME TypeOK, UNCHANGED faults \/ (faults < MaxFaults /\ faults' = faults + 1)
  PROVE  faults' \in 0..MaxFaults
BY BoundsAssumption DEF TypeOK

(* A request that changes definitions only.                                *)
LEMMA DefinitionTypes ==
  ASSUME TypeOK, Requests, automation' \in [Ids -> Definition], UNCHANGED <<runs, keys, executor>>
  PROVE  TypeOK'
<1>1. /\ ops' \in 0..MaxOps /\ notified' \in BOOLEAN /\ UNCHANGED <<now, loop, faults>>
  BY BoundsAssumption DEF Requests, Commits, TypeOK
<1> QED
  BY <1>1 DEF TypeOK, Definition, RunIds

LEMMA RequestTypes ==
  ASSUME TypeOK, Request
  PROVE  TypeOK'
<1>1. ASSUME NEW a \in Ids, NEW trigger \in Triggers,
             create_automation(a, trigger) \/ update_automation(a, trigger)
      PROVE  TypeOK'
  <2>1. PICK next \in Times \cup {Never} : next = next_occurrence(trigger, now)
    BY NextFacts
  <2>2. automation[a].state \in States
    BY RunFacts DEF Definition
  <2>3. \E state \in States : automation' = [automation EXCEPT ![a] =
          [state |-> state, trigger |-> trigger, next |-> next]]
    BY <1>1, <2>1, <2>2 DEF create_automation, update_automation, States
  <2>4. \A state \in States : [state |-> state, trigger |-> trigger, next |-> next] \in Definition
    BY DEF Definition
  <2>5. automation' \in [Ids -> Definition]
    BY <2>3, <2>4, DefinitionFacts
  <2> QED
    BY <1>1, <2>5, DefinitionTypes DEF create_automation, update_automation
<1>2. ASSUME NEW a \in Ids, Pause(a) PROVE TypeOK'
  <2>1. automation' = [automation EXCEPT ![a] = [automation[a] EXCEPT !.state = "paused"]]
    BY <1>2 DEF Pause
  <2>2. [automation[a] EXCEPT !.state = "paused"] \in Definition
    BY RunFacts DEF Definition, States
  <2> QED
    BY <1>2, <2>1, <2>2, DefinitionFacts, DefinitionTypes DEF Pause
<1>3. ASSUME NEW a \in Ids, Resume(a) PROVE TypeOK'
  <2>1. PICK next \in Times \cup {Never} : next = advance_after(a, keys)
    BY AdvanceFacts
  <2>2. \/ automation' = automation
        \/ automation' = [automation EXCEPT ![a] = [automation[a] EXCEPT !.state = "enabled", !.next = next]]
    BY <1>3, <2>1, RunFacts DEF Resume
  <2>3. [automation[a] EXCEPT !.state = "enabled", !.next = next] \in Definition
    BY RunFacts DEF Definition, States
  <2>4. automation' \in [Ids -> Definition]
    BY <2>2, <2>3, RunFacts, DefinitionFacts
  <2> QED
    BY <1>3, <2>4, DefinitionTypes DEF Resume
<1>4. ASSUME NEW a \in Ids, delete_automation(a) PROVE TypeOK'
  <2>1. automation' = [automation EXCEPT ![a] =
                         [automation[a] EXCEPT !.state = "deleted", !.next = Never]]
    BY <1>4, RunFacts DEF delete_automation
  <2>2. [automation[a] EXCEPT !.state = "deleted", !.next = Never] \in Definition
    BY RunFacts DEF Definition, States
  <2> QED
    BY <1>4, <2>1, <2>2, DefinitionFacts, DefinitionTypes DEF delete_automation
<1>5. ASSUME NEW a \in Ids, run_automation_now(a) PROVE TypeOK'
  <2>1. /\ ops' \in 0..MaxOps /\ notified' \in BOOLEAN /\ UNCHANGED <<now, loop, faults, automation, keys>>
    BY <1>5, BoundsAssumption DEF run_automation_now, Requests, Commits, TypeOK
  <2>2. Recorded(a, Never)
    BY <1>5 DEF run_automation_now
  <2>3. /\ runs' \in Seq(RunRecord) /\ executor' \in Seq(ExecutorStates) /\ Len(executor') = Len(runs')
        /\ RunIds \subseteq DOMAIN runs'
    BY <2>2, RecordedFacts
  <2>4. loop \in [step : {"waiting", "due", "queued"}, due : SUBSET (Ids \X Times),
                  todo : SUBSET (DOMAIN runs')]
    BY <2>3 DEF TypeOK
  <2> QED
    BY <2>1, <2>3, <2>4, RunFacts, TypesOfNext DEF TypeOK
<1> QED
  BY <1>1, <1>2, <1>3, <1>4, <1>5 DEF Request

(* What the loop remembers.                                                *)
Loops(ids) == [step : {"waiting", "due", "queued"}, due : SUBSET (Ids \X Times), todo : SUBSET ids]

LEMMA LoopFacts ==
  ASSUME TypeOK
  PROVE  /\ loop \in Loops(RunIds) /\ DueNow \subseteq Ids \X Times
         /\ Waiting \in Loops(RunIds)
         /\ \A t \in DueNow : t[1] \in Ids /\ t[2] \in 1..now /\ t[2] = automation[t[1]].next
<1>1. loop \in Loops(RunIds) /\ Waiting \in Loops(RunIds)
  BY DEF TypeOK, Loops, Waiting
<1>2. \A t \in DueNow : /\ t[1] \in Ids /\ t[2] \in 1..now /\ t[2] = automation[t[1]].next
                        /\ t = <<t[1], t[2]>>
  BY DEF DueNow
<1>3. \A n \in 1..now : n \in Times
  BY RunFacts, BoundsAssumption DEF Times
<1> QED
  BY <1>1, <1>2, <1>3

LEMMA ConsumedFacts ==
  ASSUME TypeOK, NEW a \in Ids, NEW due \in Times, Consumed(a, due)
  PROVE  /\ automation' \in [Ids -> Definition]
         /\ \A b \in Ids \ {a} : automation'[b] = automation[b]
         /\ automation'[a].next # Never => automation'[a].next > now
         /\ keys' = keys \cup {<<a, due>>} /\ keys' \subseteq Ids \X Times
<1>1. PICK next \in Times \cup {Never} : next = advance_after(a, keys') /\ (next # Never => next > now)
  BY AdvanceFacts
<1>2. automation' = [automation EXCEPT ![a] = [automation[a] EXCEPT !.next = next]]
  BY <1>1 DEF Consumed
<1>3. [automation[a] EXCEPT !.next = next] \in Definition /\ [automation[a] EXCEPT !.next = next].next = next
  BY RunFacts DEF Definition
<1>4. keys' = keys \cup {<<a, due>>} /\ keys' \subseteq Ids \X Times
  BY DEF Consumed, TypeOK
<1> QED
  BY <1>1, <1>2, <1>3, <1>4, RunFacts

(* An entry of the list is given to a run, or the pass ends.               *)
LEMMA EnqueueDueFacts ==
  ASSUME TypeOK, NEW a \in Ids, NEW due \in Times, EnqueueDue(a, due)
  PROVE  /\ <<a, due>> \in loop.due /\ UNCHANGED <<now, ops>>
         /\ \/ /\ Commits /\ Recorded(a, due) /\ Consumed(a, due)
               /\ loop' = [loop EXCEPT !.due = @ \ {<<a, due>>}, !.todo = loop'.todo]
               /\ loop'.todo \in {{}, {Len(runs) + 1}} /\ loop'.due = loop.due \ {<<a, due>>}
               /\ loop' \in Loops(DOMAIN runs')
            \/ /\ UNCHANGED <<automation, runs, keys, executor, notified>>
               /\ loop' \in Loops(RunIds) /\ loop'.due = {}
               /\ UNCHANGED faults \/ (faults < MaxFaults /\ faults' = faults + 1)
<1>1. <<a, due>> \in loop.due /\ UNCHANGED <<now, ops>>
  BY DEF EnqueueDue, Oldest
<1>2. loop \in [step : {"waiting", "due", "queued"}, due : SUBSET (Ids \X Times), todo : SUBSET RunIds]
  BY DEF TypeOK
<1>3. CASE /\ Commits /\ Recorded(a, due) /\ Consumed(a, due)
           /\ loop' = [loop EXCEPT !.due = @ \ {<<a, due>>},
                !.todo = IF overlap_disposition(a) = "queued" THEN {Len(runs) + 1} ELSE {}]
  <2>1. PICK todo \in {{}, {Len(runs) + 1}} :
          loop' = [loop EXCEPT !.due = @ \ {<<a, due>>}, !.todo = todo]
    BY <1>3
  <2>2. todo \subseteq DOMAIN runs'
    BY <1>3, RecordedFacts
  <2>3. loop'.todo = todo /\ loop'.due = loop.due \ {<<a, due>>} /\ loop' \in Loops(DOMAIN runs')
    BY <2>1, <2>2, <1>2 DEF Loops
  <2> QED
    BY <2>1, <2>3, <1>1, <1>3
<1>4. CASE loop' = [loop EXCEPT !.due = {}]
  <2>1. loop' \in Loops(RunIds) /\ loop'.due = {}
    BY <1>2, <1>4 DEF Loops
  <2>2. \/ UNCHANGED <<automation, runs, keys, executor, notified, faults>>
        \/ /\ Commits /\ Recorded(a, due) /\ Consumed(a, due)
           /\ loop' = [loop EXCEPT !.due = @ \ {<<a, due>>},
                !.todo = IF overlap_disposition(a) = "queued" THEN {Len(runs) + 1} ELSE {}]
        \/ /\ UNCHANGED <<automation, runs, keys, executor, notified>>
           /\ faults < MaxFaults /\ faults' = faults + 1
    BY DEF EnqueueDue, WriteFails, storeVars
  <2> QED
    BY <2>1, <2>2, <1>1, <1>3
<1> QED
  BY <1>3, <1>4 DEF EnqueueDue

(* A claim starts a run that is queued and free, or changes no run.        *)
LEMMA ClaimFacts ==
  ASSUME TypeOK, NEW r \in RunIds, Claim(r)
  PROVE  /\ UNCHANGED <<now, ops, automation, keys>>
         /\ loop' \in Loops(RunIds) /\ loop'.due = loop.due
         /\ notified' \in BOOLEAN
         /\ UNCHANGED faults \/ (faults < MaxFaults /\ faults' = faults + 1)
         /\ \/ UNCHANGED <<runs, executor>>
            \/ /\ runs[r].status = "queued" /\ IsFree(r)
               /\ runs' = WithStatus(r, "running") /\ executor' = [executor EXCEPT ![r] = "slot"]
<1>1. loop \in [step : {"waiting", "due", "queued"}, due : SUBSET (Ids \X Times), todo : SUBSET RunIds]
  BY DEF TypeOK
<1>2. loop' = [loop EXCEPT !.todo = @ \ {r}] /\ UNCHANGED <<now, ops>>
  BY DEF Claim
<1>3. loop' \in Loops(RunIds) /\ loop'.due = loop.due
  BY <1>1, <1>2 DEF Loops
<1>4. notified \in BOOLEAN
  BY DEF TypeOK
<1> QED
  BY <1>2, <1>3, <1>4 DEF Claim, Commits, WriteFails, storeVars

LEMMA LoopTypes ==
  ASSUME TypeOK, Wake \/ ReadQueued \/ Sleep
  PROVE  TypeOK'
<1>1. QueuedRuns \subseteq RunIds
  BY DEF QueuedRuns
<1>2. loop' \in Loops(RunIds) /\ notified' \in BOOLEAN
  <2>1. DueNow \subseteq Ids \X Times /\ Waiting \in Loops(RunIds) /\ notified \in BOOLEAN
    BY LoopFacts DEF TypeOK
  <2>2. CASE Wake
    BY <2>1, <2>2 DEF Wake, Loops
  <2>3. CASE ReadQueued
    BY <1>1, <2>1, <2>3 DEF ReadQueued, Loops
  <2>4. CASE Sleep
    BY <2>1, <2>4 DEF Sleep
  <2> QED
    BY <2>2, <2>3, <2>4
<1>3. UNCHANGED <<now, automation, runs, keys, executor, ops, faults>>
  BY DEF Wake, ReadQueued, Sleep, storeVars
<1> QED
  BY <1>2, <1>3 DEF TypeOK, Loops, RunIds

LEMMA EnqueueDueTypes ==
  ASSUME TypeOK, NEW a \in Ids, NEW due \in Times, EnqueueDue(a, due)
  PROVE  TypeOK'
<1>1. CASE /\ Commits /\ Recorded(a, due) /\ Consumed(a, due) /\ loop' \in Loops(DOMAIN runs')
  <2>1. /\ runs' \in Seq(RunRecord) /\ executor' \in Seq(ExecutorStates) /\ Len(executor') = Len(runs')
        /\ automation' \in [Ids -> Definition] /\ keys' \subseteq Ids \X Times
    BY <1>1, RecordedFacts, ConsumedFacts
  <2>2. notified' \in BOOLEAN /\ UNCHANGED <<now, ops, faults>>
    BY <1>1, EnqueueDueFacts DEF Commits
  <2> QED
    BY <1>1, <2>1, <2>2, TypesOfNext DEF TypeOK, Loops
<1>2. CASE /\ UNCHANGED <<automation, runs, keys, executor, notified>> /\ loop' \in Loops(RunIds)
           /\ UNCHANGED faults \/ (faults < MaxFaults /\ faults' = faults + 1)
  BY <1>2, EnqueueDueFacts, FaultFacts DEF TypeOK, Loops, RunIds
<1> QED
  BY <1>1, <1>2, EnqueueDueFacts

LEMMA ClaimTypes ==
  ASSUME TypeOK, NEW r \in RunIds, Claim(r)
  PROVE  TypeOK'
<1>1. /\ UNCHANGED <<now, ops, automation, keys>> /\ loop' \in Loops(RunIds)
      /\ notified' \in BOOLEAN /\ faults' \in 0..MaxFaults
  BY ClaimFacts, FaultFacts
<1>2. CASE UNCHANGED <<runs, executor>>
  BY <1>1, <1>2 DEF TypeOK, Loops, RunIds
<1>3. CASE runs' = WithStatus(r, "running") /\ executor' = [executor EXCEPT ![r] = "slot"]
  <2>1. runs' \in Seq(RunRecord) /\ Len(runs') = Len(runs) /\ DOMAIN runs' = RunIds
    BY <1>3, StatusFacts
  <2>2. executor' \in Seq(ExecutorStates) /\ Len(executor') = Len(runs)
    BY <1>3, ExecutorFacts DEF ExecutorStates
  <2> QED
    BY <1>1, <2>1, <2>2, RunFacts, TypesOfNext DEF TypeOK, Loops
<1> QED
  BY <1>2, <1>3, ClaimFacts

(* The end of a run may complete its automation.                           *)
LEMMA FinishedFacts ==
  ASSUME TypeOK, NEW r \in RunIds, Finished(r)
  PROVE  /\ runs' = WithStatus(r, "settled") /\ UNCHANGED keys
         /\ automation' \in [Ids -> Definition]
         /\ \A a \in Ids : automation'[a].next \in {automation[a].next, Never}
<1> DEFINE a == runs[r].automation
<1>1. a \in Ids
  BY RunFacts DEF RunRecord
<1>2. \/ automation' = automation
      \/ automation' = [automation EXCEPT ![a] =
                          [automation[a] EXCEPT !.state = "completed", !.next = Never]]
  BY RunFacts DEF Finished
<1>3. /\ [automation[a] EXCEPT !.state = "completed", !.next = Never] \in Definition
      /\ [automation[a] EXCEPT !.state = "completed", !.next = Never].next = Never
  BY <1>1, RunFacts DEF Definition, States
<1> QED
  BY <1>1, <1>2, <1>3, RunFacts DEF Finished

LEMMA ExecutorStepFacts ==
  ASSUME TypeOK, NEW r \in RunIds, Executor(r)
  PROVE  /\ UNCHANGED <<now, loop, ops, keys>>
         /\ notified' \in BOOLEAN
         /\ UNCHANGED faults \/ (faults < MaxFaults /\ faults' = faults + 1)
         /\ automation' \in [Ids -> Definition]
         /\ \A a \in Ids : automation'[a].next \in {automation[a].next, Never}
         /\ UNCHANGED runs \/ runs' = WithStatus(r, "settled")
         /\ \E x \in ExecutorStates : executor' = [executor EXCEPT ![r] = x]
<1>1. automation \in [Ids -> Definition] /\ notified \in BOOLEAN
  BY RunFacts DEF TypeOK
<1>2. CASE TakeSlot(r)
  BY <1>1, <1>2 DEF TakeSlot, ExecutorStates, storeVars
<1>3. CASE Finish(r)
  <2>1. CASE Commits /\ Finished(r) /\ executor' = [executor EXCEPT ![r] = "none"]
    BY <1>3, <2>1, FinishedFacts DEF Finish, Commits, ExecutorStates
  <2>2. CASE WriteFails /\ executor' = [executor EXCEPT ![r] = "lost"]
    BY <1>1, <1>3, <2>2 DEF Finish, WriteFails, ExecutorStates, storeVars
  <2> QED
    BY <1>3, <2>1, <2>2 DEF Finish
<1>4. CASE skip_run_dependency(r)
  BY <1>1, <1>4 DEF skip_run_dependency, Commits, WriteFails, ExecutorStates, storeVars
<1> QED
  BY <1>2, <1>3, <1>4 DEF Executor

LEMMA ExecutorTypes ==
  ASSUME TypeOK, NEW r \in RunIds, Executor(r)
  PROVE  TypeOK'
<1>1. /\ UNCHANGED <<now, loop, ops, keys>> /\ notified' \in BOOLEAN /\ faults' \in 0..MaxFaults
      /\ automation' \in [Ids -> Definition]
  BY ExecutorStepFacts, FaultFacts
<1>2. runs' \in Seq(RunRecord) /\ Len(runs') = Len(runs) /\ DOMAIN runs' = RunIds
  BY ExecutorStepFacts, StatusFacts, RunFacts DEF RunIds
<1>3. executor' \in Seq(ExecutorStates) /\ Len(executor') = Len(runs)
  BY ExecutorStepFacts, ExecutorFacts
<1> QED
  BY <1>1, <1>2, <1>3, TypesOfNext DEF TypeOK

LEMMA RestartFacts ==
  ASSUME TypeOK, Restart
  PROVE  /\ faults' \in 0..MaxFaults /\ UNCHANGED <<now, keys, ops>>
         /\ loop' = Waiting /\ notified' = FALSE
         /\ runs' = [r \in RunIds |-> [runs[r] EXCEPT !.status = "settled"]]
         /\ runs' \in Seq(RunRecord) /\ Len(runs') = Len(runs) /\ DOMAIN runs' = RunIds
         /\ \A r \in RunIds : runs'[r].automation = runs[r].automation /\ runs'[r].due = runs[r].due
         /\ executor' \in Seq(ExecutorStates) /\ Len(executor') = Len(runs)
         /\ automation' \in [Ids -> Definition]
         /\ \A a \in Ids : \/ automation'[a].next \in {automation[a].next, Never}
                           \/ automation'[a].next > now
                           \/ automation[a].next \in 1..now /\ automation'[a].next = now
<1>1. /\ faults' \in 0..MaxFaults /\ UNCHANGED <<now, keys, ops>> /\ loop' = Waiting /\ notified' = FALSE
      /\ runs' = [r \in RunIds |-> [runs[r] EXCEPT !.status = "settled"]]
      /\ executor' = [r \in RunIds |-> "none"]
      /\ automation' = [a \in Ids |-> Reconciled(a)]
  BY FaultFacts DEF Restart
<1>2. \A r \in RunIds : /\ [runs[r] EXCEPT !.status = "settled"] \in RunRecord
                        /\ [runs[r] EXCEPT !.status = "settled"].automation = runs[r].automation
                        /\ [runs[r] EXCEPT !.status = "settled"].due = runs[r].due
  BY RunFacts DEF RunRecord
<1>3. /\ runs' \in [1..Len(runs) -> RunRecord] /\ executor' \in [1..Len(runs) -> ExecutorStates]
      /\ Len(runs) \in Nat /\ RunIds = 1..Len(runs)
  BY <1>1, <1>2, RunFacts DEF ExecutorStates
<1>4. ASSUME NEW a \in Ids
      PROVE  /\ Reconciled(a) \in Definition
             /\ \/ Reconciled(a).next \in {automation[a].next, Never}
                \/ Reconciled(a).next > now
                \/ automation[a].next \in 1..now /\ Reconciled(a).next = now
  <2>1. PICK next \in Times \cup {Never} : next = advance_after(a, keys) /\ (next # Never => next > now)
    BY AdvanceFacts
  <2>2. \/ Reconciled(a) = automation[a]
        \/ Reconciled(a) = [automation[a] EXCEPT !.next = next]
        \/ automation[a].next \in 1..now /\ Reconciled(a) = [automation[a] EXCEPT !.next = now]
    BY <2>1 DEF Reconciled
  <2>3. automation[a] \in Definition
    BY RunFacts
  <2>4. /\ [automation[a] EXCEPT !.next = next] \in Definition /\ [automation[a] EXCEPT !.next = next].next = next
        /\ [automation[a] EXCEPT !.next = now] \in Definition /\ [automation[a] EXCEPT !.next = now].next = now
    BY <2>3, RunFacts DEF Definition
  <2> QED
    BY <2>1, <2>2, <2>3, <2>4
<1>5. \A r \in RunIds : runs'[r].automation = runs[r].automation /\ runs'[r].due = runs[r].due
  BY <1>1, <1>2
<1>6. runs' \in Seq(RunRecord) /\ Len(runs') = Len(runs) /\ DOMAIN runs' = RunIds
  BY <1>3
<1>7. executor' \in Seq(ExecutorStates) /\ Len(executor') = Len(runs)
  BY <1>3
<1> QED
  BY <1>1, <1>4, <1>5, <1>6, <1>7

LEMMA RestartTypes ==
  ASSUME TypeOK, Restart
  PROVE  TypeOK'
<1>1. Waiting \in Loops(RunIds)
  BY LoopFacts
<1> QED
  BY <1>1, RestartFacts, TypesOfNext DEF TypeOK, Loops

LEMMA TypesInductive == TypeOK /\ [Next]_vars => TypeOK'
<1> SUFFICES ASSUME TypeOK, [Next]_vars PROVE TypeOK'
  OBVIOUS
<1>1. CASE Scheduler
  BY <1>1, LoopTypes, EnqueueDueTypes, ClaimTypes DEF Scheduler
<1>2. CASE Tick
  <2>1. now' \in Times
    BY <1>2, RunFacts, BoundsAssumption DEF Tick, Times
  <2> QED
    BY <1>2, <2>1 DEF Tick, TypeOK, storeVars, RunIds
<1>3. ASSUME NEW r \in RunIds, Executor(r) PROVE TypeOK'
  BY <1>3, ExecutorTypes
<1>4. CASE UNCHANGED vars
  BY <1>4 DEF vars, storeVars, TypeOK, RunIds
<1> QED
  BY <1>1, <1>2, <1>3, <1>4, RequestTypes, RestartTypes DEF Next

-----------------------------------------------------------------------------
(* Which occurrences were given to runs.                                   *)
LEMMA InitKeys == Init => LInv
BY DEF Init, LInv, ConsumedIsPast, ListIsFresh, RunsHaveKeys, Waiting, RunIds

(* A step that moves schedules only forward, gives out no occurrence and   *)
(* puts none on the list.                                                  *)
LEMMA KeysStay ==
  ASSUME TypeOK, TypeOK', LInv, UNCHANGED keys, now <= now',
         \A a \in Ids : \/ automation'[a].next \in {automation[a].next, Never}
                        \/ automation'[a].next > now
                        \/ automation[a].next \in 1..now /\ automation'[a].next = now,
         loop'.due \subseteq loop.due,
         \A r \in DOMAIN runs' : \/ runs'[r].due = Never
                                 \/ /\ r \in RunIds /\ runs'[r].due = runs[r].due
                                    /\ runs'[r].automation = runs[r].automation
  PROVE  LInv'
<1>1. now \in Nat /\ now' \in Nat /\ Never = 0
  BY TimeFacts DEF TypeOK
<1>2. \A k \in keys : k[1] \in Ids /\ k[2] \in Nat
  BY TimeFacts DEF TypeOK
<1>3. \A a \in Ids : automation[a].next \in Nat /\ automation'[a].next \in Nat
  <2>1. automation \in [Ids -> Definition] /\ automation' \in [Ids -> Definition]
    BY DEF TypeOK, Definition
  <2> QED
    BY <2>1, NextIsNumber
<1>4. \A x \in loop.due : x[2] \in Nat
  BY TimeFacts DEF TypeOK
<1>5. ConsumedIsPast'
  <2> SUFFICES ASSUME NEW k \in keys
               PROVE  k[2] <= now' /\ (automation'[k[1]].next # Never => k[2] < automation'[k[1]].next)
    BY DEF ConsumedIsPast
  <2>1. k[2] <= now /\ (automation[k[1]].next # Never => k[2] < automation[k[1]].next)
    BY DEF LInv, ConsumedIsPast
  <2>2. /\ k[2] \in Nat /\ automation[k[1]].next \in Nat /\ automation'[k[1]].next \in Nat
        /\ \/ automation'[k[1]].next \in {automation[k[1]].next, Never}
           \/ automation'[k[1]].next > now
           \/ automation[k[1]].next \in 1..now /\ automation'[k[1]].next = now
    BY <1>2, <1>3
  <2> QED
    BY <1>1, <2>1, <2>2
<1>6. ListIsFresh'
  <2>1. \A x \in loop.due : x \notin keys /\ x[2] <= now
    BY DEF LInv, ListIsFresh
  <2> QED
    BY <1>1, <1>4, <2>1 DEF ListIsFresh
<1>7. RunsHaveKeys'
  BY DEF LInv, RunsHaveKeys, RunIds
<1> QED
  BY <1>5, <1>6, <1>7 DEF LInv

LEMMA RequestKeys ==
  ASSUME TypeOK, TypeOK', LInv, Request
  PROVE  LInv'
<1>1. UNCHANGED <<now, keys, loop>>
  BY DEF Request, create_automation, update_automation, Pause, Resume, delete_automation,
     run_automation_now, Requests
<1>2. now \in Nat
  BY RunFacts
<1>3. ASSUME NEW a \in Ids, NEW trigger \in Triggers,
             create_automation(a, trigger) \/ update_automation(a, trigger)
      PROVE  LInv'
  <2>1. PICK next : next = next_occurrence(trigger, now) /\ next > now
    BY <1>3, NextFacts DEF create_automation, update_automation
  <2>2. \E state : automation' = [automation EXCEPT ![a] =
                     [state |-> state, trigger |-> trigger, next |-> next]]
    BY <1>3, <2>1 DEF create_automation, update_automation
  <2>3. automation'[a].next > now /\ \A b \in Ids \ {a} : automation'[b] = automation[b]
    BY <2>1, <2>2, RunFacts
  <2>4. UNCHANGED runs
    BY <1>3 DEF create_automation, update_automation
  <2> QED
    BY <1>1, <1>2, <2>3, <2>4, KeysStay DEF RunIds
<1>4. ASSUME NEW a \in Ids, Pause(a) \/ Resume(a) \/ delete_automation(a) PROVE LInv'
  <2>1. PICK next : next = advance_after(a, keys) /\ (next # Never => next > now)
    BY AdvanceFacts
  <2>2. automation[a] \in Definition /\ automation \in [Ids -> Definition]
    BY RunFacts
  <2>3. \/ automation' = automation
        \/ \E state : automation' = [automation EXCEPT ![a] = [automation[a] EXCEPT !.state = state]]
        \/ \E state : automation' = [automation EXCEPT ![a] =
                                       [automation[a] EXCEPT !.state = state, !.next = next]]
        \/ \E state : automation' = [automation EXCEPT ![a] =
                                       [automation[a] EXCEPT !.state = state, !.next = Never]]
    BY <1>4, <2>1, <2>2 DEF Pause, Resume, delete_automation
  <2>4. \A b \in Ids : \/ automation'[b].next \in {automation[b].next, Never}
                       \/ automation'[b].next > now
    <3>1. \A state : /\ [automation[a] EXCEPT !.state = state].next = automation[a].next
                     /\ [automation[a] EXCEPT !.state = state, !.next = next].next = next
                     /\ [automation[a] EXCEPT !.state = state, !.next = Never].next = Never
      BY <2>2 DEF Definition
    <3>2. \/ automation' = automation
          \/ \E d : /\ automation' = [automation EXCEPT ![a] = d]
                   /\ d.next \in {automation[a].next, next, Never}
      BY <2>3, <3>1
    <3> QED
      BY <2>1, <2>2, <3>2
  <2>5. UNCHANGED runs
    BY <1>4 DEF Pause, Resume, delete_automation
  <2> QED
    BY <1>1, <1>2, <2>4, <2>5, KeysStay DEF RunIds
<1>5. ASSUME NEW a \in Ids, run_automation_now(a) PROVE LInv'
  <2>1. UNCHANGED automation /\ Recorded(a, Never)
    BY <1>5 DEF run_automation_now
  <2>2. \A r \in DOMAIN runs' : \/ runs'[r].due = Never
                                \/ r \in RunIds /\ runs'[r] = runs[r]
    BY <2>1, RecordedFacts
  <2> QED
    BY <1>1, <1>2, <2>1, <2>2, KeysStay
<1> QED
  BY <1>3, <1>4, <1>5 DEF Request

(* The list is made of the next occurrences, all of them not consumed.     *)
LEMMA LoopKeys ==
  ASSUME TypeOK, TypeOK', LInv, Wake \/ ReadQueued \/ Sleep
  PROVE  LInv'
<1>1. UNCHANGED <<now, keys, automation, runs>> /\ now \in Nat
  BY RunFacts DEF Wake, ReadQueued, Sleep, storeVars
<1>2. CASE ReadQueued \/ Sleep
  <2>1. loop'.due \subseteq loop.due
    BY <1>2 DEF ReadQueued, Sleep, Waiting
  <2> QED
    BY <1>1, <2>1, KeysStay DEF RunIds
<1>3. CASE Wake
  <2>1. loop'.due = DueNow
    BY <1>3 DEF Wake
  <2>2. ASSUME NEW x \in DueNow PROVE x \notin keys /\ x[2] <= now
    <3>1. x[1] \in Ids /\ x[2] \in 1..now /\ x[2] = automation[x[1]].next
      BY LoopFacts
    <3>2. x[2] # Never /\ x[2] <= now /\ x[2] \in Nat
      BY <1>1, <3>1, TimeFacts
    <3>3. x \in keys => x[2] < automation[x[1]].next
      BY <3>1, <3>2 DEF LInv, ConsumedIsPast
    <3> QED
      BY <3>1, <3>2, <3>3
  <2> QED
    BY <1>1, <2>1, <2>2 DEF LInv, ConsumedIsPast, ListIsFresh, RunsHaveKeys, RunIds
<1> QED
  BY <1>2, <1>3

LEMMA EnqueueDueKeys ==
  ASSUME TypeOK, TypeOK', LInv, NEW a \in Ids, NEW due \in Times, EnqueueDue(a, due)
  PROVE  LInv'
<1>1. <<a, due>> \in loop.due /\ UNCHANGED now /\ now \in Nat
  BY EnqueueDueFacts, RunFacts
<1>2. CASE /\ Recorded(a, due) /\ Consumed(a, due)
           /\ loop'.due = loop.due \ {<<a, due>>}
  <2>1. /\ \A b \in Ids \ {a} : automation'[b] = automation[b]
        /\ automation'[a].next # Never => automation'[a].next > now
        /\ keys' = keys \cup {<<a, due>>}
    BY <1>2, ConsumedFacts
  <2>2. due <= now /\ due \in Nat
    BY <1>1, TimeFacts DEF LInv, ListIsFresh
  <2>3. ConsumedIsPast'
    <3> SUFFICES ASSUME NEW k \in keys'
                 PROVE  k[2] <= now /\ (automation'[k[1]].next # Never => k[2] < automation'[k[1]].next)
      BY <1>1 DEF ConsumedIsPast
    <3>1. k[1] \in Ids /\ k[2] \in Nat /\ automation'[k[1]].next \in Nat
      <4>1. k \in Ids \X Times /\ automation' \in [Ids -> Definition]
        BY DEF TypeOK, Definition
      <4> QED
        BY <4>1, TimeFacts, NextIsNumber
    <3>2. k[2] <= now
      BY <2>1, <2>2 DEF LInv, ConsumedIsPast
    <3>3. CASE k[1] = a
      BY <1>1, <2>1, <3>1, <3>2, <3>3
    <3>4. CASE k[1] # a
      <4>1. k \in keys /\ automation'[k[1]] = automation[k[1]]
        BY <2>1, <3>1, <3>4
      <4> QED
        BY <3>2, <4>1 DEF LInv, ConsumedIsPast
    <3> QED
      BY <3>3, <3>4
  <2>4. ListIsFresh'
    BY <1>1, <1>2, <2>1 DEF LInv, ListIsFresh
  <2>5. RunsHaveKeys'
    <3>1. /\ DOMAIN runs' = RunIds \cup {Len(runs) + 1}
          /\ \A r \in RunIds : runs'[r] = runs[r]
          /\ runs'[Len(runs) + 1].automation = a /\ runs'[Len(runs) + 1].due = due
      BY <1>2, RecordedFacts
    <3> QED
      BY <2>1, <3>1 DEF LInv, RunsHaveKeys, RunIds
  <2> QED
    BY <2>3, <2>4, <2>5 DEF LInv
<1>3. CASE UNCHANGED <<automation, runs, keys>> /\ loop'.due = {}
  BY <1>1, <1>3, KeysStay DEF RunIds
<1> QED
  BY <1>2, <1>3, EnqueueDueFacts

LEMMA KeysInductive == TypeOK /\ TypeOK' /\ LInv /\ [Next]_vars => LInv'
<1> SUFFICES ASSUME TypeOK, TypeOK', LInv, [Next]_vars PROVE LInv'
  OBVIOUS
<1>1. now \in Nat
  BY RunFacts
<1>2. ASSUME NEW r \in RunIds, Claim(r) PROVE LInv'
  <2>1. UNCHANGED <<now, automation, keys>> /\ loop'.due = loop.due
    BY <1>2, ClaimFacts
  <2>2. \A s \in DOMAIN runs' : /\ s \in RunIds /\ runs'[s].due = runs[s].due
                                /\ runs'[s].automation = runs[s].automation
    <3>1. UNCHANGED runs \/ runs' = WithStatus(r, "running")
      BY <1>2, ClaimFacts
    <3>2. CASE runs' = WithStatus(r, "running")
      BY <3>2, StatusFacts
    <3> QED
      BY <3>1, <3>2 DEF RunIds
  <2> QED
    BY <1>1, <2>1, <2>2, KeysStay
<1>3. CASE Scheduler
  BY <1>2, <1>3, LoopKeys, EnqueueDueKeys DEF Scheduler
<1>4. CASE Tick
  BY <1>1, <1>4, KeysStay DEF Tick, storeVars, RunIds
<1>5. ASSUME NEW r \in RunIds, Executor(r) PROVE LInv'
  <2>1. UNCHANGED <<now, keys, loop>> /\ \A a \in Ids : automation'[a].next \in {automation[a].next, Never}
    BY <1>5, ExecutorStepFacts
  <2>2. \A s \in DOMAIN runs' : /\ s \in RunIds /\ runs'[s].due = runs[s].due
                                /\ runs'[s].automation = runs[s].automation
    <3>1. UNCHANGED runs \/ runs' = WithStatus(r, "settled")
      BY <1>5, ExecutorStepFacts
    <3>2. CASE runs' = WithStatus(r, "settled")
      BY <3>2, StatusFacts
    <3> QED
      BY <3>1, <3>2 DEF RunIds
  <2> QED
    BY <1>1, <2>1, <2>2, KeysStay
<1>6. CASE Restart
  <2>1. loop'.due \subseteq loop.due
    BY <1>6, RestartFacts DEF Waiting
  <2> QED
    BY <1>1, <1>6, <2>1, RestartFacts, KeysStay
<1>7. CASE UNCHANGED vars
  BY <1>1, <1>7, KeysStay DEF vars, storeVars, RunIds
<1> QED
  BY <1>3, <1>4, <1>5, <1>6, <1>7, RequestKeys DEF Next

-----------------------------------------------------------------------------
(* Every step is one of the ledger, or none.                               *)
LEMMA RecordedIsRecord ==
  ASSUME TypeOK, NEW a \in Ids, NEW due \in Times \cup {Never}, Recorded(a, due),
         due # Never => \A r \in RunIds : runs[r].automation # a \/ runs[r].due # due
  PROVE  Ledger!Next
<1>1. PICK status \in {"queued", "settled"} : status = overlap_disposition(a)
  BY RecordedFacts
<1>2. runs' = Append(runs, [automation |-> a, status |-> status, due |-> due])
  BY <1>1 DEF Recorded, Run
<1>3. due # 0 => \A r \in DOMAIN runs : <<runs[r].automation, runs[r].due>> # <<a, due>>
  BY DEF RunIds, Never
<1>4. Ledger!Record(a, due, status)
  BY <1>2, <1>3 DEF Ledger!Record
<1> QED
  BY <1>4 DEF Ledger!Next

LEMMA LedgerStep == TypeOK /\ LInv /\ [Next]_vars => [Ledger!Next]_runs
<1> SUFFICES ASSUME TypeOK, LInv, [Next]_vars PROVE Ledger!Next \/ UNCHANGED runs
  OBVIOUS
<1>1. CASE Request
  <2>1. ASSUME NEW a \in Ids, run_automation_now(a) PROVE Ledger!Next
    BY <2>1, RecordedIsRecord DEF run_automation_now
  <2> QED
    BY <1>1, <2>1 DEF Request, create_automation, update_automation, Pause, Resume, delete_automation
<1>2. ASSUME NEW a \in Ids, NEW due \in Times, EnqueueDue(a, due)
      PROVE  Ledger!Next \/ UNCHANGED runs
  <2>1. <<a, due>> \notin keys
    BY <1>2, EnqueueDueFacts DEF LInv, ListIsFresh
  <2>2. \A r \in RunIds : runs[r].automation # a \/ runs[r].due # due
    BY <2>1, TimeFacts DEF LInv, RunsHaveKeys
  <2> QED
    BY <1>2, <2>2, EnqueueDueFacts, RecordedIsRecord
<1>3. ASSUME NEW r \in RunIds, Claim(r) PROVE Ledger!Next \/ UNCHANGED runs
  <2>1. CASE runs[r].status = "queued" /\ IsFree(r) /\ runs' = WithStatus(r, "running")
    <3>1. runs[r].automation \in Ids /\ \A s \in RunIds : runs[s].status \in {"queued", "running", "settled"}
      BY RunFacts DEF RunRecord
    <3>2. \/ runs[r].automation \in Overlapping
          \/ \A s \in DOMAIN runs : runs[s].automation = runs[r].automation => runs[s].status # "running"
      BY <2>1, <3>1 DEF IsFree, OfStatus, Overlapping, RunIds
    <3>3. Ledger!Start(r)
      BY <2>1, <3>2 DEF Ledger!Start, WithStatus
    <3> QED
      BY <3>3 DEF Ledger!Next, RunIds
  <2> QED
    BY <1>3, <2>1, ClaimFacts
<1>4. CASE Scheduler
  BY <1>2, <1>3, <1>4 DEF Scheduler, Wake, ReadQueued, Sleep, storeVars
<1>5. ASSUME NEW r \in RunIds, Executor(r) PROVE Ledger!Next \/ UNCHANGED runs
  <2>1. CASE runs' = WithStatus(r, "settled")
    <3>1. Ledger!Settle(r)
      BY <2>1 DEF Ledger!Settle, WithStatus
    <3> QED
      BY <3>1 DEF Ledger!Next, RunIds
  <2> QED
    BY <1>5, <2>1, ExecutorStepFacts
<1>6. CASE Restart
  <2>1. Ledger!SettleAll
    BY <1>6, RestartFacts DEF Ledger!SettleAll, RunIds
  <2> QED
    BY <2>1 DEF Ledger!Next
<1>7. CASE Tick \/ UNCHANGED vars
  BY <1>7 DEF Tick, vars, storeVars
<1> QED
  BY <1>1, <1>4, <1>5, <1>6, <1>7 DEF Next

-----------------------------------------------------------------------------
(* Whatever users ask for and the scheduler has read, writes fail or the   *)
(* process ends: definitions, runs, lists and executors stay well formed,  *)
(* and a next occurrence is one of the schedule's instants.                *)
THEOREM TypeCorrect == Spec => []TypeOK
BY InitTypes, TypesInductive, PTL DEF Spec

(* The runs keep the promise of the ledger: they are recorded, perhaps     *)
(* started, and settled, in this order; an occurrence is given to one run, *)
(* however stale the list it was taken from; and an automation that does   *)
(* not allow overlaps has one started run at a time.                       *)
THEOREM LedgerIsKept == Spec => KeepsLedger
<1>1. Init => LInv /\ Ledger!Init
  BY InitKeys DEF Init, Ledger!Init
<1>2. Spec => []TypeOK
  BY TypeCorrect
<1>3. TypeOK /\ TypeOK' /\ LInv /\ [Next]_vars => LInv'
  BY KeysInductive
<1>4. TypeOK /\ LInv /\ [Next]_vars => [Ledger!Next]_runs
  BY LedgerStep
<1> QED
  BY <1>1, <1>2, <1>3, <1>4, PTL DEF Spec, KeepsLedger, Ledger!Spec
=============================================================================
