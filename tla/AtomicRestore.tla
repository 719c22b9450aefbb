---------------------------- MODULE AtomicRestore ----------------------------
(***************************************************************************)
(* What scripts/backup.sh promises about the wallet: a restore replaces it *)
(* by the archive in one step or keeps it, and its exit status says which; *)
(* a backup never changes it.                                              *)
(***************************************************************************)
CONSTANTS Wallets, Initial, Archives, None

VARIABLES value, request, answer

Idle == [archive |-> None, old |-> None]
Goal == IF request.archive = None THEN request.old ELSE request.archive

Init == value = Initial /\ request = Idle /\ answer = "none"

Begin(a) ==
    /\ request = Idle
    /\ request' = [archive |-> a, old |-> value]
    /\ answer' = "none"
    /\ UNCHANGED value

Commit ==
    /\ request # Idle
    /\ value' = Goal
    /\ UNCHANGED <<request, answer>>

End(a) ==
    /\ request # Idle
    /\ a = "done" => value = Goal
    /\ a \in {"failed", "cancelled"} => value = request.old
    /\ request' = Idle /\ answer' = a
    /\ UNCHANGED value

Next ==
    \/ \E a \in Archives \cup {None} : Begin(a)
    \/ Commit
    \/ \E a \in {"done", "failed", "cancelled", "interrupted", "killed"} : End(a)

Spec == Init /\ [][Next]_<<value, request, answer>>
=============================================================================
