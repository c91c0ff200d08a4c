------------------------------ MODULE TurnQueue ------------------------------
(***************************************************************************)
(* The turns of one thread and the messages queued behind them             *)
(* (crates/falcondeck-daemon/src/app/workspace_ops.rs, app/notifications.rs,*)
(* app.rs).  A message sent to a busy thread is steered into the running   *)
(* turn or parked in a durable queue; every turn end spawns a task that    *)
(* starts the next queued message.                                         *)
(*                                                                         *)
(* The workspaces lock covers single steps only.  A call (a request of the *)
(* user or of another thread, the dispatch task, a resume) awaits between  *)
(* its look at the queue, the change of status, the writes of the state    *)
(* file and the provider; call says where it is.  wakes counts the         *)
(* dispatch tasks that have not looked at the thread yet, turn-end         *)
(* handlers on their way to spawn one included.                            *)
(*                                                                         *)
(* Abstractions: a message, or the text an edit gives one, is a word; an   *)
(* entry is the words merged into it; ids are positions (every operation   *)
(* looks its id up under the lock); "running" stands for Running and       *)
(* WaitingForInput, "interrupted" for Error with the text of a shutdown;   *)
(* all agent messages have one sender; a retry after a provider outage is  *)
(* part of the turn it repeats.  The provider is external.                 *)
(***************************************************************************)
EXTENDS Naturals, Sequences, FiniteSets, SequencesExt

CONSTANTS
  UserMessages, AgentMessages,  (* messages users and another thread send  *)
  SteerMessages,                (* messages sent with steer                *)
  Edits,                        (* texts an edit may put into an entry     *)
  MAX_QUEUED_TURNS,
  MaxMerged,  (* words that fit an entry (MAX_MERGED_AGENT_CHARS)          *)
  CanSteer,   (* the provider advertises supports_steering                 *)
  MaxFaults,  (* bound: ends of the process and writes that fail           *)
  MaxOps      (* bound: operations on the queue                            *)

Messages == UserMessages \cup AgentMessages
Words == Messages \cup Edits
Callers == Messages \cup {"dispatch", "resume"}

ASSUME LimitsAssumption == MAX_QUEUED_TURNS \in Nat \ {0} /\ MaxMerged \in Nat \ {0}
ASSUME WordsAssumption ==
  /\ {"dispatch", "resume"} \cap Messages = {} /\ Messages \cap Edits = {}
  /\ SteerMessages \subseteq UserMessages
ASSUME BoundsAssumption ==
  CanSteer \in BOOLEAN /\ MaxFaults \in Nat /\ MaxOps \in Nat

VARIABLES
  status,       (* ThreadSummary.status                                    *)
  queue,        (* queued_requests                                         *)
  dispatching,  (* dispatching_request                                     *)
  call,         (* the step each send_turn_with_startup_mode is at         *)
  op,           (* the operation on the queue that is under way            *)
  wakes,        (* dispatch_next_queued_turn tasks                         *)
  commits,      (* dispatch tasks that are done but for their last write   *)
  turns,        (* turns the provider runs                                 *)
  disk,         (* PersistedThreadState                                    *)
  taken, acked, (* history: words queued; confirmed to who sent them       *)
  sent, twice,  (* history: words the agent got; got more than once        *)
  withdrawn,    (* history: words the user removed or replaced             *)
  exposed,      (* history: words a steer held while no write had them     *)
  repeatable,   (* history: words whose caller cannot know what became of  *)
                (* them: a stop, a failed write, an unrecorded steer       *)
  missed,       (* history: the last wake found an entry crossing, or a    *)
                (* steer put an entry back after the turn ended            *)
  ops, faults

queueVars == <<queue, dispatching>>
heardVars == <<taken, acked, withdrawn>>
sentVars == <<sent, twice>>
vars == <<status, queue, dispatching, call, op, wakes, commits, turns, disk, taken, acked, sent,
          twice, withdrawn, exposed, repeatable, missed, ops, faults>>

Statuses == {"idle", "running", "error", "interrupted"}
Entries == [words : Seq(Words), agent : BOOLEAN, steer : BOOLEAN]
Nothing == [words |-> <<>>, agent |-> FALSE, steer |-> FALSE]

Steps == {"waiting", "ready", "steering", "unsteered", "saving", "free", "recording",
          "starting", "done", "failed"}
Quiet == [kind |-> "none", entry |-> Nothing, at |-> 1]

WordsOf(e) == ToSet(e.words)
WordsIn(s) == UNION {WordsOf(s[i]) : i \in DOMAIN s}
Steering == IF op.kind = "steering" THEN WordsOf(op.entry) ELSE {}
InMemory == WordsIn(queue) \cup WordsOf(dispatching) \cup Steering
OnDisk == WordsIn(disk.queue)

thread_is_busy == status = "running"

(* What persist_local_state writes of the thread.                          *)
Snapshot ==
  [queue |-> (IF dispatching = Nothing THEN <<>> ELSE <<dispatching>>) \o queue,
   status |-> status]

Persist ==
  /\ disk' = Snapshot /\ UNCHANGED faults
  /\ exposed' = (exposed \cup Steering) \ WordsIn(Snapshot.queue)

(* A write that may fail.                                                  *)
TryPersist(ok) ==
  IF ok THEN Persist
  ELSE faults < MaxFaults /\ faults' = faults + 1 /\ UNCHANGED <<disk, exposed>>

SaidBy(c) == IF c = "dispatch" THEN dispatching.words ELSE IF c = "resume" THEN <<>> ELSE <<c>>
Said(c) == ToSet(SaidBy(c))

AsksToSteer(c) == IF c = "dispatch" THEN dispatching.steer ELSE c \in SteerMessages

(* The entry try_enqueue_turn makes of a call.                             *)
EntryOf(c) == [words |-> SaidBy(c), agent |-> c \in AgentMessages, steer |-> AsksToSteer(c)]

GivenToAgent(ws) == sent' = sent \cup ws /\ twice' = twice \cup (sent \cap ws)

Goes(c, step) == call' = [call EXCEPT ![c] = step]

(* The status a start that failed leaves behind.                           *)
FailedStatus(c) == IF c = "resume" THEN "interrupted" ELSE "error"
-----------------------------------------------------------------------------
(* send_turn_with_startup_mode, up to the check of the thread's status.    *)

(* A resume of the interrupted turn starts (prepare_interrupted_resume).   *)
Resume ==
  /\ call["resume"] \in {"waiting", "done", "failed"} /\ status = "interrupted"
  /\ Goes("resume", "ready")
  /\ UNCHANGED <<status, queueVars, op, wakes, commits, turns, disk, heardVars,
                 sentVars, exposed, repeatable, missed, ops, faults>>

(* try_steer_turn: the check and the provider's answer are two steps.      *)
TrySteer(c) ==
  /\ call[c] = "ready" /\ AsksToSteer(c)
  /\ CanSteer /\ thread_is_busy
  /\ Goes(c, "steering")
  /\ UNCHANGED <<status, queueVars, op, wakes, commits, turns, disk, heardVars,
                 sentVars, exposed, repeatable, missed, ops, faults>>

(* The provider took the words, which may not get recorded; the turn is    *)
(* over and the call goes on as a send; or it fails.                       *)
Steered(c) ==
  /\ call[c] = "steering"
  /\ \/ /\ turns > 0
        /\ GivenToAgent(Said(c)) /\ taken' = taken \cup Said(c)
        /\ \/ Goes(c, "done") /\ UNCHANGED repeatable
           \/ Goes(c, "failed") /\ repeatable' = repeatable \cup Said(c)
     \/ /\ Goes(c, "unsteered") \/ Goes(c, "failed")
        /\ UNCHANGED <<sentVars, taken, repeatable>>
  /\ UNCHANGED <<status, queueVars, op, wakes, commits, turns, disk, acked,
                 withdrawn, exposed, missed, ops, faults>>

(* merge_agent_message: the newest entry of the sender takes the words.    *)
AgentEntries == {i \in DOMAIN queue : queue[i].agent}
NewestAgentEntry == CHOOSE i \in AgentEntries : \A j \in AgentEntries : j <= i
merge_agent_message(c) ==
  /\ c \in AgentMessages /\ AgentEntries # {}
  /\ Len(queue[NewestAgentEntry].words) < MaxMerged
Merged(c) == [queue EXCEPT ![NewestAgentEntry].words = Append(@, c)]

QueueIsFull == Len(queue) >= MAX_QUEUED_TURNS

(* try_enqueue_turn, under the workspaces lock.                            *)
TryEnqueue(c) ==
  /\ call[c] \in {"ready", "unsteered"}
  /\ \/ /\ ~thread_is_busy
        /\ Goes(c, "free") /\ UNCHANGED <<queue, taken>>
     \/ /\ thread_is_busy /\ (c = "resume" \/ (~merge_agent_message(c) /\ QueueIsFull))
        /\ Goes(c, "failed") /\ UNCHANGED <<queue, taken>>
     \/ /\ thread_is_busy /\ c # "resume"
        /\ merge_agent_message(c) \/ ~QueueIsFull
        /\ queue' = IF merge_agent_message(c) THEN Merged(c)
                    ELSE Append(queue, EntryOf(c))
        /\ taken' = taken \cup Said(c)
        /\ Goes(c, "saving")
  /\ UNCHANGED <<status, dispatching, op, wakes, commits, turns, disk, acked,
                 withdrawn, sentVars, exposed, repeatable, missed, ops, faults>>

(* Mutant of SaveQueued: the answer does not wait for the write.           *)
SaveQueuedLate(c) ==
  /\ call[c] = "saving"
  /\ Goes(c, "done") /\ acked' = acked \cup (Said(c) \cap Messages)
  /\ UNCHANGED <<status, queueVars, op, wakes, commits, turns, disk, taken,
                 withdrawn, sentVars, exposed, repeatable, missed, ops, faults>>

(* ... and its write: the entry stays queued when it fails.                *)
SaveQueued(c) ==
  /\ call[c] = "saving"
  /\ \/ /\ TryPersist(TRUE)
        /\ Goes(c, "done") /\ acked' = acked \cup (Said(c) \cap {c})
        /\ UNCHANGED repeatable
     \/ /\ TryPersist(FALSE)
        /\ Goes(c, "failed") /\ repeatable' = repeatable \cup Said(c)
        /\ UNCHANGED acked
  /\ UNCHANGED <<status, queueVars, op, wakes, commits, turns, taken, withdrawn,
                 sentVars, missed, ops>>

(* The start of a turn: status is not looked at again.                     *)
Begin(c) ==
  /\ call[c] = "free"
  /\ status' = "running"
  /\ Goes(c, "recording")
  /\ UNCHANGED <<queueVars, op, wakes, commits, turns, disk, heardVars, sentVars,
                 exposed, repeatable, missed, ops, faults>>

(* Mutant of Record: a failed write leaves the status as it is.            *)
RecordKeepsStatus(c) ==
  /\ call[c] = "recording"
  /\ \/ TryPersist(TRUE) /\ Goes(c, "starting")
     \/ TryPersist(FALSE) /\ Goes(c, "failed")
  /\ UNCHANGED <<status, queueVars, op, wakes, commits, turns, heardVars, sentVars,
                 repeatable, missed, ops>>

Record(c) ==
  /\ call[c] = "recording"
  /\ \/ TryPersist(TRUE) /\ Goes(c, "starting") /\ UNCHANGED status
     \/ TryPersist(FALSE) /\ Goes(c, "failed") /\ status' = FailedStatus(c)
  /\ UNCHANGED <<queueVars, op, wakes, commits, turns, heardVars, sentVars,
                 repeatable, missed, ops>>

(* ProviderRuntime::send_turn answers; turn/started came before.           *)
Started(c) ==
  /\ call[c] = "starting"
  /\ \/ /\ turns' = turns + 1 /\ status' = "running"
        /\ GivenToAgent(Said(c)) /\ taken' = taken \cup Said(c)
        /\ Goes(c, "done")
     \/ /\ status' = FailedStatus(c) /\ Goes(c, "failed")
        /\ UNCHANGED <<turns, sentVars, taken>>
  /\ UNCHANGED <<queueVars, op, wakes, commits, disk, acked, withdrawn, exposed,
                 repeatable, missed, ops, faults>>

(* Mutant of TurnEnd: an end that is reported twice counts twice.          *)
TurnEndTwice ==
  /\ turns > 0 /\ turns' \in {turns - 1, turns - 2}
  /\ status' \in {"idle", "error"}
  /\ wakes' = wakes + 1 /\ missed' = FALSE
  /\ UNCHANGED <<queueVars, call, op, commits, disk, heardVars, sentVars, exposed,
                 repeatable, ops, faults>>

(* A turn ends, well or not (turn/completed and its siblings).             *)
TurnEnd ==
  /\ turns > 0 /\ turns' = turns - 1
  /\ status' \in {"idle", "error"}
  /\ wakes' = wakes + 1 /\ missed' = FALSE
  /\ UNCHANGED <<queueVars, call, op, commits, disk, heardVars, sentVars, exposed,
                 repeatable, ops, faults>>

-----------------------------------------------------------------------------
(* dispatch_next_queued_turn.                                              *)
queued_turn_is_held ==
  \/ thread_is_busy \/ status = "interrupted"
  \/ queue = <<>> \/ dispatching # Nothing

(* Mutant of DispatchNext: the entry stays in the queue as well.           *)
DispatchNextKeeping ==
  /\ wakes > 0 /\ wakes' = wakes - 1
  /\ IF queued_turn_is_held
     THEN /\ missed' = (missed \/ dispatching # Nothing)
          /\ UNCHANGED <<queueVars, call>>
     ELSE /\ dispatching' = Head(queue) /\ UNCHANGED <<queue, missed>>
          /\ Goes("dispatch", "ready")
  /\ UNCHANGED <<status, op, commits, turns, disk, heardVars, sentVars, exposed,
                 repeatable, ops, faults>>

DispatchNext ==
  /\ wakes > 0 /\ wakes' = wakes - 1
  /\ IF queued_turn_is_held
     THEN /\ missed' = (missed \/ dispatching # Nothing)
          /\ UNCHANGED <<queueVars, call>>
     ELSE /\ dispatching' = Head(queue) /\ queue' = Tail(queue)
          /\ Goes("dispatch", "ready")
          /\ UNCHANGED missed
  /\ UNCHANGED <<status, op, commits, turns, disk, heardVars, sentVars, exposed,
                 repeatable, ops, faults>>

(* Mutant of Dispatched: what could not be started is dropped.             *)
DispatchedOnce ==
  /\ call["dispatch"] \in {"done", "failed"}
  /\ dispatching' = Nothing
  /\ Goes("dispatch", "waiting") /\ commits' = commits + 1
  /\ UNCHANGED <<status, queue, op, wakes, turns, disk, heardVars, sentVars, exposed,
                 repeatable, missed, ops, faults>>

(* The provider has the entry, or another turn's queue; or the entry goes  *)
(* back to the head.                                                       *)
Dispatched ==
  /\ call["dispatch"] \in {"done", "failed"}
  /\ dispatching' = Nothing
  /\ queue' = IF call["dispatch"] = "done" THEN queue ELSE <<dispatching>> \o queue
  /\ Goes("dispatch", "waiting") /\ commits' = commits + 1
  /\ UNCHANGED <<status, op, wakes, turns, disk, heardVars, sentVars, exposed,
                 repeatable, missed, ops, faults>>

CommitDispatch ==
  /\ commits > 0 /\ commits' = commits - 1
  /\ \E ok \in BOOLEAN : TryPersist(ok)
  /\ UNCHANGED <<status, queueVars, call, op, wakes, turns, heardVars, sentVars,
                 repeatable, missed, ops>>

-----------------------------------------------------------------------------
(* Operations on the queue: one at a time.                                 *)
Operation(kind, entry, i) ==
  op' = [kind |-> kind, entry |-> entry, at |-> i]

StartsOperation(kind, entry, i) ==
  /\ op = Quiet /\ ops < MaxOps /\ ops' = ops + 1
  /\ Operation(kind, entry, i)

remove_queued_turn(i) ==
  /\ queue' = RemoveAt(queue, i)
  /\ withdrawn' = withdrawn \cup WordsOf(queue[i])
  /\ StartsOperation("saving", Nothing, 1)
  /\ UNCHANGED <<status, dispatching, call, wakes, commits, turns, disk, taken,
                 acked, sentVars, exposed, repeatable, missed, faults>>

(* The new text stands for every word of the entry.                        *)
WithText(e, w) == [e EXCEPT !.words = <<w>>]
edit_queued_turn(i, w) ==
  /\ w \notin taken
  /\ queue' = [queue EXCEPT ![i] = WithText(@, w)]
  /\ withdrawn' = withdrawn \cup WordsOf(queue[i])
  /\ taken' = taken \cup {w}
  /\ StartsOperation("editing", WithText(queue[i], w), i)
  /\ UNCHANGED <<status, dispatching, call, wakes, commits, turns, disk, acked,
                 sentVars, exposed, repeatable, missed, faults>>

(* Every id exactly once.                                                  *)
reorder_queued_turns(order) ==
  /\ order \in Bijection(DOMAIN queue, DOMAIN queue)
  /\ queue' = [i \in DOMAIN queue |-> queue[order[i]]]
  /\ StartsOperation("saving", Nothing, 1)
  /\ UNCHANGED <<status, dispatching, call, wakes, commits, turns, disk, heardVars,
                 sentVars, exposed, repeatable, missed, faults>>

(* Mutant of steer_queued_turn: the entry is left in the queue.            *)
SteerCopy(i) ==
  /\ CanSteer /\ thread_is_busy
  /\ StartsOperation("steering", queue[i], i)
  /\ UNCHANGED <<status, queueVars, call, wakes, commits, turns, disk, heardVars,
                 sentVars, exposed, repeatable, missed, faults>>

(* steer_queued_turn: the entry is in no queue until the provider answers. *)
steer_queued_turn(i) ==
  /\ CanSteer /\ thread_is_busy
  /\ queue' = RemoveAt(queue, i)
  /\ StartsOperation("steering", queue[i], i)
  /\ UNCHANGED <<status, dispatching, call, wakes, commits, turns, disk, heardVars,
                 sentVars, exposed, repeatable, missed, faults>>

(* It was steered; it was but could not be recorded; it was not.           *)
SteerAnswered ==
  /\ op.kind = "steering"
  /\ \E reached, recorded \in BOOLEAN :
       /\ (reached => turns > 0) /\ (recorded => reached)
       /\ IF reached THEN GivenToAgent(WordsOf(op.entry)) ELSE UNCHANGED sentVars
       /\ IF recorded
          THEN UNCHANGED <<queue, repeatable, missed>>
          ELSE /\ queue' = InsertAt(queue, IF op.at <= Len(queue) THEN op.at ELSE Len(queue) + 1,
                                    op.entry)
               /\ repeatable' = repeatable \cup (IF reached THEN WordsOf(op.entry) ELSE {})
               /\ missed' = (missed \/ ~thread_is_busy)
  /\ Operation("saving", Nothing, 1)
  /\ UNCHANGED <<status, dispatching, call, wakes, commits, turns, disk, heardVars,
                 exposed, ops, faults>>

(* The write an operation ends with.                                       *)
SaveOperation ==
  /\ op.kind \in {"saving", "editing"}
  /\ \/ TryPersist(TRUE) /\ acked' = acked \cup WordsOf(op.entry)
     \/ TryPersist(FALSE) /\ UNCHANGED acked
  /\ op' = Quiet
  /\ UNCHANGED <<status, queueVars, call, wakes, commits, turns, taken, withdrawn,
                 sentVars, repeatable, missed, ops>>

(* update_thread acknowledges an interruption, writes, and dispatches.     *)
Acknowledge ==
  /\ status = "interrupted"
  /\ status' = "idle"
  /\ StartsOperation("acknowledging", Nothing, 1)
  /\ UNCHANGED <<queueVars, call, wakes, commits, turns, disk, heardVars, sentVars,
                 exposed, repeatable, missed, faults>>

(* Mutant of Acknowledged: the queue is not looked at.                     *)
AcknowledgedOnly ==
  /\ op.kind = "acknowledging"
  /\ \E ok \in BOOLEAN : TryPersist(ok)
  /\ op' = Quiet
  /\ UNCHANGED <<status, queueVars, call, turns, wakes, commits, missed, heardVars,
                 sentVars, repeatable, ops>>

Acknowledged ==
  /\ op.kind = "acknowledging"
  /\ \E ok \in BOOLEAN : TryPersist(ok)
  /\ op' = Quiet
  /\ wakes' = wakes + 1 /\ missed' = FALSE
  /\ UNCHANGED <<status, queueVars, call, commits, turns, heardVars, sentVars,
                 repeatable, ops>>

-----------------------------------------------------------------------------
(* The process ends and another one restores the thread and dispatches its *)
(* queue.  A clean shutdown waits for the dispatch task, marks the running *)
(* thread and writes.                                                      *)
CutOff(s) == IF s = "running" THEN "interrupted" ELSE s

Restore(saved) ==
  /\ disk' = saved
  /\ queue' = saved.queue /\ dispatching' = Nothing /\ op' = Quiet
  /\ status' = CutOff(saved.status)
  /\ call' = [c \in Callers |-> IF c \in Messages
                                THEN IF call[c] = "ready" THEN "ready" ELSE "done"
                                ELSE "waiting"]
  /\ wakes' = IF saved.queue = <<>> THEN 0 ELSE 1
  /\ commits' = 0 /\ turns' = 0 /\ missed' = FALSE
  /\ exposed' = (exposed \cup Steering) \ WordsIn(saved.queue)
  /\ repeatable' = repeatable \cup WordsIn(saved.queue)

Crash ==
  /\ faults < MaxFaults /\ faults' = faults + 1
  /\ Restore(disk)
  /\ UNCHANGED <<heardVars, sentVars, ops>>

Shutdown ==
  /\ faults < MaxFaults /\ faults' = faults + 1
  /\ call["dispatch"] = "waiting" /\ commits = 0
  /\ Restore([Snapshot EXCEPT !.status = CutOff(@)])
  /\ UNCHANGED <<heardVars, sentVars, ops>>

-----------------------------------------------------------------------------
Init ==
  /\ status = "idle" /\ queue = <<>> /\ dispatching = Nothing
  /\ call = [c \in Callers |-> IF c \in Messages THEN "ready" ELSE "waiting"]
  /\ op = Quiet /\ wakes = 0 /\ commits = 0 /\ turns = 0
  /\ disk = [queue |-> <<>>, status |-> "idle"]
  /\ taken = {} /\ acked = {} /\ sent = {} /\ twice = {} /\ withdrawn = {}
  /\ exposed = {} /\ repeatable = {} /\ missed = FALSE /\ ops = 0 /\ faults = 0

CallStep(c) ==
  \/ TrySteer(c) \/ Steered(c) \/ TryEnqueue(c) \/ SaveQueued(c)
  \/ Begin(c) \/ Record(c) \/ Started(c)

QueueOperation ==
  \/ \E i \in DOMAIN queue : remove_queued_turn(i) \/ steer_queued_turn(i)
  \/ \E i \in DOMAIN queue, w \in Edits : edit_queued_turn(i, w)
  \/ \E order \in [DOMAIN queue -> DOMAIN queue] : reorder_queued_turns(order)

Next ==
  \/ \E c \in Callers : CallStep(c)
  \/ Resume \/ TurnEnd \/ DispatchNext \/ Dispatched \/ CommitDispatch
  \/ QueueOperation \/ SteerAnswered \/ SaveOperation \/ Acknowledge \/ Acknowledged
  \/ Crash \/ Shutdown

Spec == Init /\ [][Next]_vars
-----------------------------------------------------------------------------
(* Types.                                                                  *)
TypeOK ==
  /\ status \in Statuses
  /\ queue \in Seq(Entries) /\ dispatching \in Entries
  /\ call \in [Callers -> Steps]
  /\ op \in [kind : {"none", "saving", "editing", "steering", "acknowledging"},
             entry : Entries, at : Nat \ {0}]
  /\ wakes \in Nat /\ commits \in Nat /\ turns \in Nat
  /\ ops \in 0..MaxOps /\ faults \in 0..MaxFaults
  /\ disk \in [queue : Seq(Entries), status : Statuses]
  /\ taken \in SUBSET Words /\ acked \in SUBSET Words
  /\ sent \in SUBSET Words /\ twice \in SUBSET Words
  /\ withdrawn \in SUBSET Words /\ exposed \in SUBSET Words /\ repeatable \in SUBSET Words
  /\ missed \in BOOLEAN

(* A message that was answered with "queued", or an edit that was answered *)
(* with "edited", is with the agent, was taken back by the user, or is in  *)
(* memory; and it is on disk unless a steer held it during another         *)
(* handler's write (field comment of dispatching_request, app.rs:521-523). *)
ConfirmedIsKept ==
  \A w \in acked \ (sent \cup withdrawn) :
     /\ w \in InMemory \cup exposed
     /\ w \in OnDisk \cup exposed

(* A busy thread has a turn that will end or a start that will succeed or  *)
(* fail: no interleaving of starts, ends and failures leaves it Running    *)
(* for ever, with every later message parked.                              *)
BusyThreadWillSettle ==
  thread_is_busy => turns > 0 \/ \E c \in Callers : call[c] \in {"recording", "starting"}

(* "Called at every turn-end transition": an idle thread with a queue has  *)
(* a dispatch under way or on its way, unless the last one found an entry  *)
(* still crossing or a steer gave its entry back after the turn was over.  *)
IdleQueueIsWoken ==
  status = "idle" /\ queue # <<>> /\ dispatching = Nothing
    => wakes > 0 \/ op.kind = "acknowledging" \/ missed

(* The agent gets a word once, whatever steers, dispatches, ends of turns  *)
(* and failures overlap; twice only a word whose caller cannot know.       *)
SentOnce == twice \subseteq repeatable

(* The bound on parked messages, over by one for the entry a dispatch may  *)
(* give back and by one for a steer.                                       *)
QueueIsBounded ==
  Len(queue) + (IF dispatching = Nothing THEN 0 ELSE 1)
             + (IF op.kind = "steering" THEN 1 ELSE 0) <= MAX_QUEUED_TURNS + 2

(* The queue keeps the promise of an outbox.                               *)
Promise == INSTANCE Outbox WITH owed <- InMemory \cup OnDisk, confirmed <- acked
KeepsPromise == Promise!Spec
==============================================================================
