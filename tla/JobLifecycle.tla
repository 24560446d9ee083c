---------------------------- MODULE JobLifecycle ----------------------------
(***************************************************************************)
(* What the outbox promises about one row of outbox_jobs, as its header    *)
(* (src/src/infra/outbox.ts) draws it: a job is queued once, is claimed by *)
(* a worker, goes back to the queue any number of times, and ends in one   *)
(* terminal status that is never left.  One statement of the program may   *)
(* move several rows at once (a batch claim, an expiry sweep, a            *)
(* suppression hook), each of them along an arrow.                         *)
(***************************************************************************)

CONSTANT Jobs

VARIABLE status

Open == {"pending", "leased"}
Terminal == {"sent", "delivered", "failed", "unknown", "suppressed"}
Statuses == {"absent"} \cup Open \cup Terminal

(***************************************************************************)
(* The arrows.  A job that was never handed to a worker can only be        *)
(* withheld ("suppressed"); every other ending is reached from a lease.    *)
(***************************************************************************)
Arrows(s) ==
    CASE s = "absent"  -> {"pending"}
      [] s = "pending" -> {"leased", "suppressed"}
      [] s = "leased"  -> {"pending"} \cup Terminal
      [] OTHER         -> {}

Init == status = [j \in Jobs |-> "absent"]

Next == /\ status' \in [Jobs -> Statuses]
        /\ \A j \in Jobs : status'[j] = status[j] \/ status'[j] \in Arrows(status[j])

Spec == Init /\ [][Next]_status
=============================================================================
