-------------------------- MODULE OutboxLifecycle ---------------------------
(***************************************************************************)
(* What the outbox promises of each of its entries, whatever rows, runs    *)
(* and UI handlers do: an entry starts pending, is worked on only when it  *)
(* is pending or failed, leaves the work as done, failed or in conflict,   *)
(* and done and conflict are final.  An entry is never removed.            *)
(***************************************************************************)
EXTENDS Naturals, Sequences

VARIABLE status   \* the status column of the entries, oldest first

Init == status = << >>

\* One transaction makes up to three entries.
Enqueue ==
    \E n \in 1 .. 3 :
        status' = [i \in 1 .. Len(status) + n |->
                      IF i <= Len(status) THEN status[i] ELSE "pending"]

Claim(i) ==
    /\ status[i] \in {"pending", "failed"}
    /\ status' = [status EXCEPT ![i] = "processing"]

Settle(i, result) ==
    /\ status[i] = "processing"
    /\ status' = [status EXCEPT ![i] = result]

Next ==
    \/ Enqueue
    \/ \E i \in DOMAIN status :
          Claim(i) \/ \E result \in {"done", "failed", "conflict"} : Settle(i, result)

Spec == Init /\ [][Next]_status
=============================================================================
