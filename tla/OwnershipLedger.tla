--------------------------- MODULE OwnershipLedger ---------------------------
(***************************************************************************)
(* What the job ownership registry promises to its callers: a set of       *)
(* records that only grows, one record at a time, and a verdict for every  *)
(* call of JobTracker.register that agrees with it.                        *)
(*                                                                         *)
(*   ok       the record is there (and, since the set only grows, stays)   *)
(*   refused  the record is not there and never will be                    *)
(*   unknown  the call lost touch with the login node: the record may be   *)
(*            there, or appear later, or never                             *)
(*                                                                         *)
(* Nothing here says how: locks, version tokens and remote scripts belong  *)
(* to module Registry, which implements this specification.                *)
(***************************************************************************)

CONSTANTS
    Writers,   \* the register calls; a call is named after the job it records
    Earlier    \* the jobs recorded before

VARIABLES
    entries,   \* the jobs that have an ownership record
    outcome    \* outcome[w]: where call w stands, as its caller sees it

vars == <<entries, outcome>>

Outcomes == {"idle", "pending", "ok", "refused", "unknown"}

TypeOK ==
    /\ entries \in SUBSET (Earlier \cup Writers)
    /\ outcome \in [Writers -> Outcomes]

Init ==
    /\ entries \in {{}, Earlier}
    /\ outcome = [w \in Writers |-> "idle"]

Start(w) ==
    /\ outcome[w] = "idle"
    /\ outcome' = [outcome EXCEPT ![w] = "pending"]
    /\ UNCHANGED entries

\* The record appears while its call is under way, or after the call lost
\* touch with the node that is still executing it.
Record(w) ==
    /\ outcome[w] \in {"pending", "unknown"}
    /\ w \notin entries
    /\ entries' = entries \cup {w}
    /\ UNCHANGED outcome

Confirm(w) ==
    /\ outcome[w] = "pending"
    /\ w \in entries
    /\ outcome' = [outcome EXCEPT ![w] = "ok"]
    /\ UNCHANGED entries

Refuse(w) ==
    /\ outcome[w] \in {"idle", "pending"}
    /\ w \notin entries
    /\ outcome' = [outcome EXCEPT ![w] = "refused"]
    /\ UNCHANGED entries

LoseTouch(w) ==
    /\ outcome[w] = "pending"
    /\ outcome' = [outcome EXCEPT ![w] = "unknown"]
    /\ UNCHANGED entries

Next ==
    \E w \in Writers :
        Start(w) \/ Record(w) \/ Confirm(w) \/ Refuse(w) \/ LoseTouch(w)

Spec == Init /\ [][Next]_vars
==============================================================================
