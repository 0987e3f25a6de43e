----------------------------- MODULE MountLedger -----------------------------
(***************************************************************************)
(* What the mount ledger promises: a table of who has which session, where  *)
(* taking a session is one step that no other running process can be part  *)
(* of.  Locks, files, retries and reservations are the business of          *)
(* SessionMounts, which implements this.                                    *)
(***************************************************************************)
CONSTANTS Procs, Sessions
VARIABLES
    live,       \* which processes are running
    mounts      \* the sessions recorded for each process

vars == <<live, mounts>>

Init ==
    /\ live = [p \in Procs |-> TRUE]
    /\ mounts = [p \in Procs |-> {}]

(* p's record becomes mine; of the others only dead ones may be dropped.    *)
Rewrite(p, mine) ==
    /\ live[p]
    /\ mounts' \in [Procs -> SUBSET Sessions]
    /\ mounts'[p] = mine
    /\ \A q \in Procs \ {p} :
          mounts'[q] = mounts[q] \/ (~live[q] /\ mounts'[q] = {})
    /\ UNCHANGED live

FreeFor(p, s) == \A q \in Procs \ {p} : live[q] => s \notin mounts[q]

(* A claim: one session that no running process has is added.               *)
Take(p, s) ==
    /\ FreeFor(p, s)
    /\ \E keep \in SUBSET mounts[p] : Rewrite(p, keep \cup {s})

(* A publication: what is no longer mounted is given back.                  *)
Give(p) == \E keep \in SUBSET mounts[p] : Rewrite(p, keep)

Die(p) ==
    /\ live[p]
    /\ live' = [live EXCEPT ![p] = FALSE]
    /\ UNCHANGED mounts

Next ==
    \E p \in Procs :
        \/ \E s \in Sessions : Take(p, s)
        \/ Give(p)
        \/ Die(p)

Spec == Init /\ [][Next]_vars
=============================================================================
