------------------------------ MODULE RunLedger ------------------------------
(***************************************************************************)
(* What the runs of automations promise (crates/falcondeck-daemon/src/     *)
(* control): a run is recorded, perhaps started, and settled, each once    *)
(* and in this order, whatever wakes, claims, failing writes and restarts  *)
(* come between; an occurrence of a schedule is given to one run at most   *)
(* (store.rs, occurrence_keys: "so ambiguous local times and misfire       *)
(* replays cannot dispatch the same occurrence twice"); and an automation  *)
(* that does not allow overlaps has one started run at a time.             *)
(***************************************************************************)
EXTENDS Naturals, Sequences

CONSTANTS Automations, Occasions, Overlapping

VARIABLE runs  (* the automation, occurrence (0: by hand), status of each  *)

Init == runs = <<>>

Record(a, due, status) ==
  /\ due # 0 => \A r \in DOMAIN runs : <<runs[r].automation, runs[r].due>> # <<a, due>>
  /\ runs' = Append(runs, [automation |-> a, status |-> status, due |-> due])

Start(r) ==
  /\ runs[r].status = "queued"
  /\ runs[r].automation \in Overlapping
     \/ \A s \in DOMAIN runs : runs[s].automation = runs[r].automation => runs[s].status # "running"
  /\ runs' = [runs EXCEPT ![r].status = "running"]

Settle(r) == runs' = [runs EXCEPT ![r].status = "settled"]

SettleAll == runs' = [r \in DOMAIN runs |-> [runs[r] EXCEPT !.status = "settled"]]

Next ==
  \/ \E a \in Automations, due \in Occasions, status \in {"queued", "settled"} : Record(a, due, status)
  \/ \E r \in DOMAIN runs : Start(r) \/ Settle(r)
  \/ SettleAll

Spec == Init /\ [][Next]_runs
==============================================================================
