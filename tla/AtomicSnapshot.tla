--------------------------- MODULE AtomicSnapshot ---------------------------
(***************************************************************************)
(* What write_snapshot promises, and CrashRecovery takes for granted: the  *)
(* snapshot at a path is replaced whole by a later one or left alone, and  *)
(* a crash brings back at most a replacement that was not made durable.    *)
(* Snapshots are numbered in the order of the calls; 0 is no snapshot.     *)
(***************************************************************************)
EXTENDS Naturals

VARIABLES
    visible,    \* the snapshot at the path
    possible    \* the snapshots a crash may leave there

vars == <<visible, possible>>

Init == visible = 0 /\ possible = {0}

Replace ==
    /\ visible' \in Nat
    /\ \A n \in possible : visible' > n
    /\ possible' = possible \cup {visible'}

MakeDurable == possible' = {visible} /\ UNCHANGED visible

Crash == visible' \in possible /\ possible' = {visible'}

Next == Replace \/ MakeDurable \/ Crash

Spec == Init /\ [][Next]_vars

=============================================================================
