----------------------------- MODULE Automations -----------------------------
(***************************************************************************)
(* Automations of the daemon: definitions, their schedule, the runs they   *)
(* make, the scheduler that starts them and the executors that carry them  *)
(* out (crates/falcondeck-daemon/src/control: service.rs, scheduler.rs,    *)
(* automations.rs, store.rs).                                              *)
(*                                                                         *)
(* Every change goes through mutate: under the mutation lock the state is  *)
(* copied, changed, written and put in place, and the scheduler notified;  *)
(* a failing write changes nothing.  So memory and file are one variable   *)
(* and a mutation is one step.  The scheduler reads its lists between      *)
(* mutations and acts on them later; loop holds what it read.              *)
(*                                                                         *)
(* Abstractions: time is a few instants, an interval or cron schedule the  *)
(* multiples of a period, and the horizon MaxTime; Queued, Running and     *)
(* SkippedOverlap are the statuses that matter, the others are "settled";  *)
(* the turn a run dispatches is external (TurnQueue has it); what a run    *)
(* reads of workspaces, bots and connectors only decides how it ends.      *)
(***************************************************************************)
EXTENDS Naturals, Sequences, FiniteSets, FiniteSetsExt

CONSTANTS
  Ids,           (* automation ids                                         *)
  Policy,        (* concurrency_policy of each automation                  *)
  Misfire,       (* misfire_policy of each automation                      *)
  Triggers,      (* triggers an automation may have                        *)
  MAX_CONCURRENT_AUTOMATION_RUNS,
  MaxTime,       (* bound: the last instant                                *)
  MaxOps,        (* bound: requests of users and agents                    *)
  MaxFaults      (* bound: ends of the process and writes that fail        *)

(* A trigger: once at an instant, or every so many of them.                *)
Once(t) == [once |-> TRUE, at |-> t]
Every(k) == [once |-> FALSE, at |-> k]

ASSUME PolicyAssumption ==
  /\ Policy \in [Ids -> {"skip", "queue_one", "allow"}]
  /\ Misfire \in [Ids -> {"skip", "run_once"}]
ASSUME TriggerAssumption ==
  Triggers \subseteq {Once(t) : t \in 1..MaxTime} \cup {Every(k) : k \in 1..MaxTime}
ASSUME BoundsAssumption ==
  /\ MAX_CONCURRENT_AUTOMATION_RUNS \in Nat \ {0} /\ MaxTime \in Nat \ {0}
  /\ MaxOps \in Nat /\ MaxFaults \in Nat

VARIABLES
  now,
  automation,  (* state, trigger and next_run_at of each definition        *)
  runs,        (* PersistedControlState.runs                               *)
  keys,        (* occurrence_keys                                          *)
  loop,        (* where scheduler_loop is, and the lists it has read       *)
  notified,    (* the permit of scheduler_notify                           *)
  executor,    (* of each run: none, slot, work, or lost                   *)
  ops, faults

storeVars == <<automation, runs, keys>>
vars == <<now, storeVars, loop, notified, executor, ops, faults>>

Never == 0
Times == 1..MaxTime
States == {"absent", "enabled", "paused", "completed", "deleted"}

Minimum(times) == IF times = {} THEN Never ELSE Min(times)
Occurrences(trigger) ==
  {t \in Times : IF trigger.once THEN t = trigger.at ELSE t % trigger.at = 0}

(* Mutant of next_occurrence: the horizon is not looked at.                *)
NextByPeriod(trigger, after) == IF trigger.once THEN trigger.at ELSE after + trigger.at

(* next_occurrence, and advance_after, which skips what was dispatched.    *)
next_occurrence(trigger, after) == Minimum({t \in Occurrences(trigger) : t > after})
advance_after(a, dispatched) ==
  Minimum({t \in Occurrences(automation[a].trigger) : t > now /\ <<a, t>> \notin dispatched})

RunIds == DOMAIN runs
OfStatus(a, status) == {r \in RunIds : runs[r].automation = a /\ runs[r].status = status}
Run(a, status, due) == [automation |-> a, status |-> status, due |-> due]
WithStatus(r, status) == [runs EXCEPT ![r].status = status]

(* mutate commits, or its write fails.                                     *)
Commits == notified' = TRUE /\ UNCHANGED faults
WriteFails == faults < MaxFaults /\ faults' = faults + 1 /\ UNCHANGED <<storeVars, notified>>
-----------------------------------------------------------------------------
(* Requests.                                                               *)
Requests == ops < MaxOps /\ ops' = ops + 1 /\ Commits /\ UNCHANGED <<now, loop>>

create_automation(a, trigger) ==
  /\ Requests /\ automation[a].state = "absent"
  /\ next_occurrence(trigger, now) # Never
  /\ automation' = [automation EXCEPT ![a] =
       [state |-> "enabled", trigger |-> trigger, next |-> next_occurrence(trigger, now)]]
  /\ UNCHANGED <<runs, keys, executor>>

Exists(a) == automation[a].state \notin {"absent", "deleted"}
CanRun(a) == automation[a].state \in {"enabled", "paused"}

(* A new trigger must have a next occurrence; it enables what completed.   *)
update_automation(a, trigger) ==
  /\ Requests /\ Exists(a)
  /\ next_occurrence(trigger, now) # Never
  /\ automation' = [automation EXCEPT ![a] =
       [state |-> IF @.state = "completed" THEN "enabled" ELSE @.state,
        trigger |-> trigger, next |-> next_occurrence(trigger, now)]]
  /\ UNCHANGED <<runs, keys, executor>>

(* set_automation_state.  Resuming what is paused recalculates the next    *)
(* occurrence; what is completed is not resumed.                           *)
Pause(a) ==
  /\ Requests /\ Exists(a)
  /\ automation' = [automation EXCEPT ![a].state = "paused"]
  /\ UNCHANGED <<runs, keys, executor>>

Resume(a) ==
  /\ Requests /\ CanRun(a)
  /\ automation' = IF automation[a].state = "enabled" THEN automation
       ELSE [automation EXCEPT ![a].state = "enabled", ![a].next = advance_after(a, keys)]
  /\ UNCHANGED <<runs, keys, executor>>

delete_automation(a) ==
  /\ Requests /\ Exists(a)
  /\ automation' = [automation EXCEPT ![a].state = "deleted", ![a].next = Never]
  /\ UNCHANGED <<runs, keys, executor>>

(* enqueue_run.  The overlap policy decides whether the run waits; a       *)
(* scheduled run consumes its occurrence and advances the schedule.        *)
overlap_disposition(a) ==
  IF OfStatus(a, "running") = {} \/ Policy[a] = "allow" THEN "queued"
  ELSE IF Policy[a] = "queue_one" /\ OfStatus(a, "queued") = {} THEN "queued" ELSE "settled"

Recorded(a, due) ==
  /\ runs' = Append(runs, Run(a, overlap_disposition(a), due))
  /\ executor' = Append(executor, "none")

run_automation_now(a) ==
  /\ Requests /\ CanRun(a)
  /\ Recorded(a, Never)
  /\ UNCHANGED <<automation, keys>>

Consumed(a, due) ==
  /\ keys' = keys \cup {<<a, due>>}
  /\ automation' = [automation EXCEPT ![a].next = advance_after(a, keys')]

-----------------------------------------------------------------------------
(* scheduler_loop.  A list it reads is sorted and worked off from the      *)
(* front: the set of its entries, of which an oldest one is taken next.    *)
Waiting == [step |-> "waiting", due |-> {}, todo |-> {}]

(* due_automations: definitions that are enabled and due, oldest first.    *)
DueNow == {<<a, automation[a].next>> : a \in {b \in Ids : automation[b].state = "enabled"
                                               /\ automation[b].next \in 1..now}}
Oldest(entries) == {x \in entries : \A y \in entries : x[2] <= y[2]}

(* Mutant of QueuedRuns: runs asked for by hand are not looked for.        *)
QueuedRunsDue == {r \in RunIds : runs[r].status = "queued" /\ runs[r].due # Never}

(* queued_runs; the oldest is the one that was recorded first.             *)
QueuedRuns == {r \in RunIds : runs[r].status = "queued"}

(* Mutant of Wake: there is no timer.                                      *)
WakeOnNotice ==
  /\ loop = Waiting /\ notified
  /\ loop' = [step |-> "due", due |-> DueNow, todo |-> {}]
  /\ notified' = FALSE
  /\ UNCHANGED <<now, storeVars, executor, ops, faults>>

(* The loop wakes: it was notified, a run is due, or the idle poll ends.   *)
Wake ==
  /\ loop = Waiting
  /\ loop' = [step |-> "due", due |-> DueNow, todo |-> {}]
  /\ notified' = FALSE
  /\ UNCHANGED <<now, storeVars, executor, ops, faults>>

(* dispatch_due, one entry of the list: a run that has not to wait is      *)
(* claimed before the next entry; an error ends the pass.                  *)
EnqueueDue(a, due) ==
  /\ loop.step = "due" /\ loop.todo = {}
  /\ <<a, due>> \in Oldest(loop.due)
  /\ \/ /\ CanRun(a) /\ Commits
        /\ Recorded(a, due) /\ Consumed(a, due)
        /\ loop' = [loop EXCEPT !.due = @ \ {<<a, due>>},
             !.todo = IF overlap_disposition(a) = "queued" THEN {Len(runs) + 1} ELSE {}]
     \/ /\ ~CanRun(a)
        /\ loop' = [loop EXCEPT !.due = {}]
        /\ UNCHANGED <<storeVars, executor, notified, faults>>
     \/ /\ WriteFails
        /\ loop' = [loop EXCEPT !.due = {}] /\ UNCHANGED executor
  /\ UNCHANGED <<now, ops>>

(* spawn_queued_runs reads its list when the due ones are through.         *)
ReadQueued ==
  /\ loop.step = "due" /\ loop.due = {} /\ loop.todo = {}
  /\ loop' = [step |-> "queued", due |-> {}, todo |-> QueuedRuns]
  /\ UNCHANGED <<now, storeVars, notified, executor, ops, faults>>

(* Mutant of IsFree: runs of the automation are not looked at.             *)
IsFreeAlways(r) == TRUE

(* claim_run_if_automation_free: a declined claim is committed, too.       *)
IsFree(r) ==
  \/ Policy[runs[r].automation] = "allow" /\ automation[runs[r].automation].state # "deleted"
  \/ OfStatus(runs[r].automation, "running") = {}

Claim(r) ==
  /\ r \in loop.todo /\ \A s \in loop.todo : r <= s
  /\ loop' = [loop EXCEPT !.todo = @ \ {r}]
  /\ \/ /\ Commits
        /\ IF runs[r].status = "queued" /\ IsFree(r)
           THEN runs' = WithStatus(r, "running") /\ executor' = [executor EXCEPT ![r] = "slot"]
           ELSE UNCHANGED <<runs, executor>>
        /\ UNCHANGED <<automation, keys>>
     \/ WriteFails /\ UNCHANGED executor
  /\ UNCHANGED <<now, ops>>

Sleep ==
  /\ loop.step = "queued" /\ loop.todo = {}
  /\ loop' = Waiting
  /\ UNCHANGED <<now, storeVars, notified, executor, ops, faults>>

-----------------------------------------------------------------------------
(* execute_run of a claimed run.                                           *)
InWork == {r \in RunIds : executor[r] = "work"}

(* finish_run: a one-time automation that is enabled is completed.         *)
Finished(r) ==
  LET a == runs[r].automation IN
  /\ runs' = WithStatus(r, "settled")
  /\ automation' = IF automation[a].state = "enabled" /\ automation[a].trigger.once
                   THEN [automation EXCEPT ![a].state = "completed", ![a].next = Never]
                   ELSE automation
  /\ UNCHANGED keys

(* The run gets a slot; without its definition it fails.                   *)
TakeSlot(r) ==
  /\ executor[r] = "slot" /\ Cardinality(InWork) < MAX_CONCURRENT_AUTOMATION_RUNS
  /\ executor' = [executor EXCEPT ![r] = "work"]
  /\ UNCHANGED <<now, storeVars, loop, notified, ops, faults>>

(* The run ends: its turn was over, could not be dispatched, or an Idle or *)
(* Error thread stands for it.  If the write fails nobody tries again.     *)
Finish(r) ==
  /\ executor[r] = "work"
  /\ \/ Commits /\ Finished(r) /\ executor' = [executor EXCEPT ![r] = "none"]
     \/ WriteFails /\ executor' = [executor EXCEPT ![r] = "lost"]
  /\ UNCHANGED <<now, loop, ops>>

(* skip_run_dependency: the definition is not told.  (If its write fails,  *)
(* nobody tries again either.)                                             *)
skip_run_dependency(r) ==
  /\ executor[r] = "work"
  /\ \/ /\ Commits /\ runs' = WithStatus(r, "settled") /\ UNCHANGED <<automation, keys>>
        /\ executor' = [executor EXCEPT ![r] = "none"]
     \/ WriteFails /\ executor' = [executor EXCEPT ![r] = "lost"]
  /\ UNCHANGED <<now, loop, ops>>

-----------------------------------------------------------------------------
Tick ==
  /\ now < MaxTime /\ now' = now + 1
  /\ UNCHANGED <<storeVars, loop, notified, executor, ops, faults>>

(* reconcile_misfire.                                                      *)
Reconciled(a) ==
  LET d == automation[a] IN
  IF d.state = "enabled" /\ d.next \in 1..now
  THEN [d EXCEPT !.next = IF Misfire[a] = "skip" THEN advance_after(a, keys) ELSE now]
  ELSE d

(* The process ends and restore brings the state back.                     *)
Restart ==
  /\ faults < MaxFaults /\ faults' = faults + 1
  /\ runs' = [r \in RunIds |-> [runs[r] EXCEPT !.status = "settled"]]
  /\ automation' = [a \in Ids |-> Reconciled(a)]
  /\ executor' = [r \in RunIds |-> "none"]
  /\ loop' = Waiting /\ notified' = FALSE
  /\ UNCHANGED <<now, keys, ops>>

-----------------------------------------------------------------------------
Init ==
  /\ now = 1
  /\ automation = [a \in Ids |-> [state |-> "absent", trigger |-> Every(1), next |-> Never]]
  /\ runs = <<>> /\ keys = {} /\ executor = <<>>
  /\ loop = Waiting /\ notified = FALSE
  /\ ops = 0 /\ faults = 0

Request ==
  \E a \in Ids :
    \/ \E trigger \in Triggers : create_automation(a, trigger) \/ update_automation(a, trigger)
    \/ Pause(a) \/ Resume(a) \/ delete_automation(a) \/ run_automation_now(a)

Scheduler ==
  \/ Wake \/ ReadQueued \/ Sleep
  \/ \E a \in Ids, due \in Times : EnqueueDue(a, due)
  \/ \E r \in RunIds : Claim(r)

Executor(r) == TakeSlot(r) \/ Finish(r) \/ skip_run_dependency(r)

Next == Request \/ Scheduler \/ Tick \/ Restart \/ \E r \in RunIds : Executor(r)

Spec == Init /\ [][Next]_vars

(* The loop is run, its timers end, and the turns of executors end.        *)
Fairness == WF_vars(Scheduler) /\ WF_vars(\E r \in RunIds : Executor(r))

FairSpec == Spec /\ Fairness
-----------------------------------------------------------------------------
(* Types.                                                                  *)
TypeOK ==
  /\ now \in Times /\ notified \in BOOLEAN
  /\ ops \in 0..MaxOps /\ faults \in 0..MaxFaults
  /\ automation \in [Ids -> [state : States, trigger : Triggers \cup {Every(1)},
                             next : Times \cup {Never}]]
  /\ runs \in Seq([automation : Ids, status : {"queued", "running", "settled"},
                   due : Times \cup {Never}])
  /\ executor \in Seq({"none", "slot", "work", "lost"}) /\ Len(executor) = Len(runs)
  /\ keys \in SUBSET (Ids \X Times)
  /\ loop \in [step : {"waiting", "due", "queued"}, due : SUBSET (Ids \X Times), todo : SUBSET RunIds]

(* Runs keep the promise of the ledger, which knows nothing of schedules,  *)
(* lists, permits and executors: they only move on, an occurrence is given *)
(* to one run, and one run of an automation is started at a time unless    *)
(* its policy allows overlaps.                                             *)
Overlapping == {a \in Ids : Policy[a] = "allow"}
Ledger == INSTANCE RunLedger WITH Automations <- Ids, Occasions <- Times \cup {Never}
KeepsLedger == Ledger!Spec

(* No automation stays due: its occurrence is given to a run, or the       *)
(* automation is stopped or rescheduled, however often a write fails.      *)
DueIsRun == []<>(DueNow = {})

(* When no more runs are asked for every run settles, whether it was       *)
(* started at once or had to wait, unless a failed write left a run of its *)
(* automation started for ever.                                            *)
Stranded(r) == \E s \in RunIds : runs[s].automation = runs[r].automation /\ executor[s] = "lost"
RunsSettle == []<>(\A r \in RunIds : runs[r].status = "settled" \/ Stranded(r))
==============================================================================
