---------------------------- MODULE MCAutomations ----------------------------
EXTENDS Automations, TLC
CONSTANTS queueing, overlapping, skipping

AllPolicies == (queueing :> "queue_one") @@ (overlapping :> "allow") @@ (skipping :> "skip")
SomeMisfires == (queueing :> "run_once") @@ (overlapping :> "skip") @@ (skipping :> "skip")
SomeTriggers == {Once(2), Every(2)}
==============================================================================
