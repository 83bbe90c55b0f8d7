-------------------------- MODULE SnapshotHistory --------------------------
(***************************************************************************)
(* What the assessments of an engagement promise, without requests, locks  *)
(* or gap rows: a history of scored snapshots that is only ever appended   *)
(* to.  A snapshot is taken once and never changes; a correction is a new  *)
(* snapshot with a higher number to which the corrected one points.        *)
(* AssessmentLifecycle implements it (see HistorySpec there).              *)
(***************************************************************************)
EXTENDS Integers

CONSTANTS
    Number,   \* the snapshots of an engagement, in order
    Content,  \* what a snapshot can say
    None      \* not taken

VARIABLES
    snapshot,  \* what each snapshot says
    successor  \* its correction, 0 while it has none

vars == <<snapshot, successor>>

Init ==
    /\ snapshot = [n \in Number |-> None]
    /\ successor = [n \in Number |-> 0]

Take(n) ==
    /\ snapshot[n] = None
    /\ \E c \in Content : snapshot' = [snapshot EXCEPT ![n] = c]

Correct(o, n) ==
    /\ snapshot[o] # None
    /\ o < n
    /\ successor' = [successor EXCEPT ![o] = n]

Next == \E n \in Number :
    /\ Take(n)
    /\ UNCHANGED successor \/ \E o \in Number : Correct(o, n)

Spec == Init /\ [][Next]_vars
=============================================================================
