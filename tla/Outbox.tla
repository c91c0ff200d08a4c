------------------------------- MODULE Outbox --------------------------------
(***************************************************************************)
(* What the queue of a thread promises about the words handed to it        *)
(* (crates/falcondeck-daemon/src/app/workspace_ops.rs, try_enqueue_turn:   *)
(* "The queue is an outbox: disk commit precedes the success response. A   *)
(* client may safely clear its composer once this function returns.").     *)
(*                                                                         *)
(* A word is owed from the moment the queue takes it until neither memory  *)
(* nor disk holds it.  It stops being owed only because the agent has it   *)
(* or the user took it back; words that were not confirmed may be lost     *)
(* with the process, and so may those that are exposed, which the module   *)
(* that uses this one says.  What was dealt with is never owed, and never  *)
(* given to the agent, again.                                              *)
(***************************************************************************)
CONSTANT Words

VARIABLES owed, taken, confirmed, sent, withdrawn, exposed

vars == <<owed, taken, confirmed, sent, withdrawn, exposed>>

Init ==
  /\ owed = {} /\ taken = {} /\ confirmed = {}
  /\ sent = {} /\ withdrawn = {} /\ exposed = {}

(* What is recorded is never unrecorded, and only what was taken is        *)
(* confirmed.                                                              *)
Recorded ==
  /\ taken' \in SUBSET Words /\ exposed' \in SUBSET Words
  /\ owed \cup owed' \subseteq taken'
  /\ taken \subseteq taken' /\ confirmed \subseteq confirmed'
  /\ sent \subseteq sent' /\ withdrawn \subseteq withdrawn'
  /\ confirmed' \subseteq taken'

(* The owner works: it takes words it never had, gives the agent words it  *)
(* owes or never had, and parts with words the agent got or the user took  *)
(* back.                                                                   *)
Work ==
  /\ Recorded
  /\ (owed' \ owed) \cap taken = {}
  /\ (sent' \ sent) \cap (taken \ owed) = {}
  /\ owed \ owed' \subseteq sent' \cup withdrawn'

(* It stops and starts again: what was not confirmed may be lost.          *)
Stop ==
  /\ owed' \subseteq owed
  /\ (owed \ owed') \cap confirmed \subseteq exposed' \cup sent \cup withdrawn
  /\ exposed' \in SUBSET Words
  /\ UNCHANGED <<taken, confirmed, sent, withdrawn>>

Next == Work \/ Stop

Spec == Init /\ [][Next]_vars
==============================================================================
