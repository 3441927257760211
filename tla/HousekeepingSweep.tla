-------------------------- MODULE HousekeepingSweep --------------------------
(***************************************************************************)
(* What a sweep kind of the housekeeping service promises, with the        *)
(* iteration's steps (lock, lookup, per-candidate calls, deferred unlock)  *)
(* collapsed: a replica owns the kind exclusively, applies side effects    *)
(* only to records of the page of projects after its own cursor, and on    *)
(* release either keeps its cursor or moves it by exactly one page.  A     *)
(* crash forgets the replica's cursors and ends its ownership.             *)
(***************************************************************************)
CONSTANTS
    Replicas,         \* server replicas
    SweepKinds,       \* sweep kinds
    PageRecords(_, _),\* PageRecords(k, c): records of kind k in the page after cursor c
    NextCursor(_),    \* the cursor after the page that follows cursor c
    Sentinel,         \* the start-of-cycle cursor
    Nobody            \* no replica owns the kind

VARIABLES
    owner,    \* [SweepKinds -> Replicas \cup {Nobody}]
    cursor,   \* [Replicas -> [SweepKinds -> cursor]]
    applied   \* [SweepKinds -> records the kind's side effect reached]

Init ==
    /\ owner = [k \in SweepKinds |-> Nobody]
    /\ cursor = [r \in Replicas |-> [k \in SweepKinds |-> Sentinel]]
    /\ applied = [k \in SweepKinds |-> {}]

\* A replica becomes the only one running the kind.
Acquire(r, k) ==
    /\ owner[k] = Nobody
    /\ owner' = [owner EXCEPT ![k] = r]
    /\ UNCHANGED <<cursor, applied>>

\* The owner applies the side effect to records of its current page.
Apply(r, k, S) ==
    /\ owner[k] = r
    /\ S \subseteq PageRecords(k, cursor[r][k])
    /\ applied' = [applied EXCEPT ![k] = @ \cup S]
    /\ UNCHANGED <<owner, cursor>>

\* The owner gives the kind up; it keeps its cursor (the iteration failed)
\* or moves it past the page (the iteration succeeded).
Release(r, k) ==
    /\ owner[k] = r
    /\ owner' = [owner EXCEPT ![k] = Nobody]
    /\ cursor' \in {[cursor EXCEPT ![r][k] = c] :
                       c \in {cursor[r][k], NextCursor(cursor[r][k])}}
    /\ UNCHANGED applied

\* The replica's process dies: its cursors start over, what it owned is free.
Crash(r) ==
    /\ owner' = [k \in SweepKinds |-> IF owner[k] = r THEN Nobody ELSE owner[k]]
    /\ cursor' = [cursor EXCEPT ![r] = [k \in SweepKinds |-> Sentinel]]
    /\ UNCHANGED applied

Next ==
    \/ \E r \in Replicas, k \in SweepKinds :
          \/ Acquire(r, k)
          \/ \E S \in SUBSET PageRecords(k, cursor[r][k]) : Apply(r, k, S)
          \/ Release(r, k)
    \/ \E r \in Replicas : Crash(r)

Spec == Init /\ [][Next]_<<owner, cursor, applied>>

=============================================================================
