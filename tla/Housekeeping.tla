---------------------------- MODULE Housekeeping ----------------------------
(***************************************************************************)
(* The housekeeping service of the Yorkie server                           *)
(* (src/server/backend/housekeeping/housekeeping.go).                      *)
(*                                                                         *)
(* Every server replica runs one loop per sweep kind:                      *)
(*   "deactivate"  AttachDeactivateCandidates -> deactivateCandidates      *)
(*   "hardDelete"  AttachDocumentHardDeletion  -> DeleteDocument           *)
(* Each iteration takes the kind's cluster-wide lock, lists the next page  *)
(* of projects after the loop's in-memory cursor, collects at most a       *)
(* per-project number of candidates of every listed project, applies the   *)
(* side effect, releases the lock (deferred Unlock) and, only on success,  *)
(* adopts the new cursor and waits for the interval or for Stop.           *)
(*                                                                         *)
(* The lock service and the store are external: their behaviour is taken   *)
(* from the interfaces the code calls (NewLocker/Lock/Unlock, and          *)
(* FindNextNCyclingProjectInfos, Find*CandidatesPerProject,                *)
(* clients.Deactivate, DeleteDocument).                                    *)
(***************************************************************************)
EXTENDS Integers, Sequences, FiniteSets, Functions

CONSTANTS
    Replicas,           \* server replicas sharing one database and one coordinator
    NumTenants,         \* projects are 1..NumTenants, ordered by ID
    PageSize,           \* projectFetchSize
    CandidateLimit,     \* [SweepKinds -> limit per project] of each kind
    SweepKinds,         \* the sweep kinds whose loops the model runs
    Clients,            \* client IDs (naturals, the store's order)
    Docs,               \* document IDs (naturals, the store's order)
    ClientProject,      \* [Clients -> project of the client]
    DocProject,         \* [Docs -> project of the document]
    Version,            \* [Replicas -> code version the replica runs]
    StoreWraps,         \* FindNextNCyclingProjectInfos wraps to the first project
    PersistentFailure,  \* store/coordinator errors never stop (store unreachable)
    MaxFailures,        \* bound on injected errors when they are transient
    MaxCrashes,         \* bound on replica crash-restarts
    MaxActivity         \* bound on client requests that refresh a client's activity

DC == "deactivate"
HD == "hardDelete"
Kinds == {DC, HD}

\* The two copies of the sweep code in the repository.
\* "server": package housekeeping (housekeeping.go:1-347);
\* "clients": package clients (housekeeping.go:348-567);
\* "legacy": the older package housekeeping (unnamed/part_000).
Versions == {"server", "clients", "legacy"}

Tenants == 1..NumTenants

\* database.DefaultProjectID, the cursor's start-of-cycle value.
DefaultProjectID == 0

NoHolder == "none"

ASSUME NumTenantsAssumption == NumTenants \in Nat
ASSUME PageSizeAssumption == PageSize \in Nat \ {0}
ASSUME KindsAssumption == SweepKinds \subseteq Kinds
ASSUME LimitAssumption == CandidateLimit \in [SweepKinds -> Nat \ {0}]
ASSUME ItemsAssumption ==
    /\ Clients \subseteq Nat /\ Docs \subseteq Nat
    /\ ClientProject \in [Clients -> Tenants]
    /\ DocProject \in [Docs -> Tenants]
ASSUME VersionAssumption == Version \in [Replicas -> Versions]
ASSUME ReplicasAssumption == NoHolder \notin Replicas
ASSUME BoundsAssumption ==
    /\ PersistentFailure \in BOOLEAN /\ StoreWraps \in BOOLEAN
    /\ MaxFailures \in Nat /\ MaxCrashes \in Nat /\ MaxActivity \in Nat

\* The lock key each version uses for each kind (housekeeping.go:35-36,
\* housekeeping.go:378-379, part_000:35-36): the hard-deletion keys differ.
HardDeletionKey ==
    [server  |-> "housekeeping/DocumentHardDeletionLock",
     clients |-> "housekeeping/documentHardDeletionLock",
     legacy  |-> "housekeeping/hardDeletionLock"]

LockKey(v, k) ==
    IF k = DC THEN "housekeeping/deactivateCandidates" ELSE HardDeletionKey[v]

LockKeys == {LockKey(v, k) : v \in Versions, k \in Kinds}

KeyOf(r, k) == LockKey(Version[r], k)

\* The records a kind's side effect applies to, and the project of each.
Items(k) == IF k = DC THEN Clients ELSE Docs
ProjectOf(k, i) == IF k = DC THEN ClientProject[i] ELSE DocProject[i]

\* Loop positions: "idle" is the top of the for loop (before NewLocker),
\* "find" holds the lock before the candidate lookup, "act" applies the
\* side effect, "done"/"fail" are the returns whose deferred Unlock has not
\* run yet, "wait" is the select on the interval and Stop.
PCs == {"idle", "find", "act", "done", "fail", "wait", "stopped"}

\* Positions between a successful Lock and the deferred Unlock.
Holding == {"find", "act", "done", "fail"}

VARIABLES
    pc,        \* [Replicas -> [SweepKinds -> PCs]]
    cursor,    \* housekeepingLastProjectID of each loop
    lastProjectID, \* the cursor the running iteration will return
    projects,  \* the page of projects the iteration listed
    looked,    \* the listed projects whose candidates the iteration looked up
    cands,     \* the candidates the iteration collected
    batch,     \* candidates not yet applied by the iteration
    seen,      \* projects whose candidates were looked up since the cursor left the sentinel
    holder,    \* [LockKeys -> Replicas \cup {NoHolder}], the coordinator's locks
    applied,   \* [SweepKinds -> records deactivated / hard deleted in the store]
    stopReq,   \* Stop was called on the replica's Housekeeping (h.ctx cancelled)
    failures,  \* errors injected so far
    crashes,   \* crash-restarts so far
    active,    \* clients whose last activity is within the deactivation threshold
    activity   \* client requests so far

vars == <<pc, cursor, lastProjectID, projects, looked, cands, batch, seen, holder, applied,
          stopReq, failures, crashes, active, activity>>

-----------------------------------------------------------------------------
(* The store (spec-modelled).                                              *)

MinOf(a, b) == IF a <= b THEN a ELSE b

\* Mutant: the page counts one project too many past the last one.
FindNextNCyclingOffByOne(after) ==
    LET gt == [i \in 1..MinOf(PageSize, NumTenants - after + 1) |-> after + i]
        wrap == IF StoreWraps
                THEN [i \in 1..MinOf(PageSize - Len(gt), after) |-> i]
                ELSE << >>
    IN  gt \o wrap

\* FindNextNCyclingProjectInfos(pageSize, after): up to PageSize projects
\* with ID > after and, when the store wraps, then projects with ID <= after.
FindNextNCyclingProjectInfos(after) ==
    LET gt == [i \in 1..MinOf(PageSize, NumTenants - after) |-> after + i]
        wrap == IF StoreWraps
                THEN [i \in 1..MinOf(PageSize - Len(gt), after) |-> i]
                ELSE << >>
    IN  gt \o wrap

\* The n smallest IDs of S: a per-project lookup with a limit.
FirstN(S, n) == {x \in S : Cardinality({y \in S : y < x}) < n}

\* The records the store's candidate query selects: clients not yet
\* deactivated whose last activity is older than the threshold, documents
\* soft-deleted past the grace period and not yet hard deleted.
Eligible(k) == IF k = DC THEN Items(k) \ (applied[k] \cup active) ELSE Items(k) \ applied[k]

\* Find*CandidatesPerProject: records of the project still eligible.
CandidatesPerProject(k, t) ==
    FirstN({i \in Eligible(k) : ProjectOf(k, i) = t}, CandidateLimit[k])

-----------------------------------------------------------------------------
(* The coordinator's part of the sweep.                                    *)

\* Mutant: a full page is taken for the end of the project set.
TopProjectIDLe(ps) ==
    IF Len(ps) <= PageSize THEN DefaultProjectID ELSE ps[Len(ps)]

\* The cursor an iteration returns (housekeeping.go:301-306).
TopProjectID(ps) ==
    IF Len(ps) < PageSize THEN DefaultProjectID ELSE ps[Len(ps)]

\* Position of a project in the listed page.
PosIn(ps, t) == CHOOSE i \in 1..Len(ps) : ps[i] = t

\* c is the next candidate the range loop visits: candidates are in
\* listing order of their projects, then in ID order.
IsBatchHead(r, k, c) ==
    \A d \in batch[r][k] :
        LET pc_ == PosIn(projects[r][k], ProjectOf(k, c))
            pd == PosIn(projects[r][k], ProjectOf(k, d))
        IN  pc_ < pd \/ (pc_ = pd /\ c <= d)

CanFail == PersistentFailure \/ failures < MaxFailures

CountFailure == failures' = IF PersistentFailure THEN failures ELSE failures + 1

SetPc(r, k, p) == pc' = [pc EXCEPT ![r][k] = p]

-----------------------------------------------------------------------------
Init ==
    /\ pc = [r \in Replicas |-> [k \in SweepKinds |-> "idle"]]
    /\ cursor = [r \in Replicas |-> [k \in SweepKinds |-> DefaultProjectID]]
    /\ lastProjectID = [r \in Replicas |-> [k \in SweepKinds |-> DefaultProjectID]]
    /\ projects = [r \in Replicas |-> [k \in SweepKinds |-> << >>]]
    /\ looked = [r \in Replicas |-> [k \in SweepKinds |-> {}]]
    /\ cands = [r \in Replicas |-> [k \in SweepKinds |-> {}]]
    /\ batch = [r \in Replicas |-> [k \in SweepKinds |-> {}]]
    /\ seen = [r \in Replicas |-> [k \in SweepKinds |-> {}]]
    /\ holder = [key \in LockKeys |-> NoHolder]
    /\ applied = [k \in SweepKinds |-> {}]
    /\ stopReq = [r \in Replicas |-> FALSE]
    /\ failures = 0
    /\ crashes = 0
    /\ active = {}
    /\ activity = 0

\* Mutant: Unlock is called right after Lock instead of being deferred.
LockNoDefer(r, k) ==
    /\ pc[r][k] = "idle"
    /\ holder[KeyOf(r, k)] = NoHolder
    /\ pc' = [pc EXCEPT ![r][k] = "find"]
    /\ UNCHANGED <<cursor, projects, looked, cands, batch, seen, holder, applied,
                   stopReq, failures, crashes, active, activity, lastProjectID>>

\* NewLocker and Lock succeed: the coordinator grants the kind's lock.
\* Lock blocks while another locker holds the key.
Lock(r, k) ==
    /\ pc[r][k] = "idle"
    /\ holder[KeyOf(r, k)] = NoHolder
    /\ holder' = [holder EXCEPT ![KeyOf(r, k)] = r]
    /\ SetPc(r, k, "find")
    /\ UNCHANGED <<cursor, projects, looked, cands, batch, seen, applied, stopReq,
                   failures, crashes, active, activity, lastProjectID>>

\* NewLocker or Lock returns an error: the iteration returns it, the loop
\* logs it and continues at once, with the cursor unchanged.
LockFail(r, k) ==
    /\ pc[r][k] = "idle"
    /\ CanFail
    /\ CountFailure
    /\ UNCHANGED <<pc, cursor, projects, looked, cands, batch, seen, holder, applied,
                   stopReq, crashes, active, activity, lastProjectID>>

\* Mutant: the lookup loop stops before the last listed project.
FindCandidatesSkipLast(r, k) ==
    /\ pc[r][k] = "find"
    /\ LET ps == FindNextNCyclingProjectInfos(cursor[r][k])
           lookups == {ps[i] : i \in 1..Len(ps) - 1}
           cs == UNION {CandidatesPerProject(k, t) : t \in lookups}
       IN  /\ projects' = [projects EXCEPT ![r][k] = ps]
           /\ looked' = [looked EXCEPT ![r][k] = lookups]
           /\ cands' = [cands EXCEPT ![r][k] = cs]
           /\ batch' = [batch EXCEPT ![r][k] = cs]
    /\ pc' = [pc EXCEPT ![r][k] = "act"]
    /\ lastProjectID' = [lastProjectID EXCEPT ![r][k] =
                           TopProjectID(projects'[r][k])]
    /\ UNCHANGED <<cursor, seen, holder, applied, stopReq, failures, crashes,
                   active, activity>>

\* FindDeactivateCandidates / FindDocumentHardDeletionCandidates: list the
\* page after the cursor, then collect each listed project's candidates.
FindCandidates(r, k) ==
    /\ pc[r][k] = "find"
    /\ LET ps == FindNextNCyclingProjectInfos(cursor[r][k])
           lookups == {ps[i] : i \in 1..Len(ps)}
           cs == UNION {CandidatesPerProject(k, t) : t \in lookups}
       IN  /\ projects' = [projects EXCEPT ![r][k] = ps]
           /\ looked' = [looked EXCEPT ![r][k] = lookups]
           /\ cands' = [cands EXCEPT ![r][k] = cs]
           /\ batch' = [batch EXCEPT ![r][k] = cs]
    /\ SetPc(r, k, "act")
    /\ lastProjectID' = [lastProjectID EXCEPT ![r][k] =
                           TopProjectID(projects'[r][k])]
    /\ UNCHANGED <<cursor, seen, holder, applied, stopReq, failures, crashes,
                   active, activity>>

\* The project listing or a per-project lookup returns an error.
FindCandidatesFail(r, k) ==
    /\ pc[r][k] = "find"
    /\ CanFail
    /\ CountFailure
    /\ SetPc(r, k, "fail")
    /\ UNCHANGED <<cursor, projects, looked, cands, batch, seen, holder, applied,
                   stopReq, crashes, active, activity, lastProjectID>>

\* One turn of the range loop over the candidates: clients.Deactivate.
Deactivate(r, k) ==
    /\ k = DC
    /\ pc[r][k] = "act"
    /\ batch[r][k] # {}
    /\ \E c \in batch[r][k] :
          /\ IsBatchHead(r, k, c)
          /\ applied' = [applied EXCEPT ![k] = @ \cup {c}]
          /\ batch' = [batch EXCEPT ![r][k] = @ \ {c}]
    /\ UNCHANGED <<pc, cursor, projects, looked, cands, seen, holder, stopReq,
                   failures, crashes, active, activity, lastProjectID>>

\* clients.Deactivate fails: the iteration returns at once; the candidates
\* deactivated before stay deactivated.
DeactivateFail(r, k) ==
    /\ k = DC
    /\ pc[r][k] = "act"
    /\ batch[r][k] # {}
    /\ CanFail
    /\ CountFailure
    /\ SetPc(r, k, "fail")
    /\ UNCHANGED <<cursor, projects, looked, cands, batch, seen, holder, applied,
                   stopReq, crashes, active, activity, lastProjectID>>

\* The range loop ends: the iteration returns the new cursor.
DeactivateDone(r, k) ==
    /\ k = DC
    /\ pc[r][k] = "act"
    /\ batch[r][k] = {}
    /\ SetPc(r, k, "done")
    /\ UNCHANGED <<cursor, projects, looked, cands, batch, seen, holder, applied,
                   stopReq, failures, crashes, active, activity, lastProjectID>>

\* Mutant: every copy takes the next cursor from the batch deletion's
\* result, as the legacy copy does.
HardDeletionResultAny(r, k) == {DefaultProjectID} \cup Tenants

\* The cursor the iteration returns after the batch deletion: the legacy
\* copy returns the project ID database.HardDeletion reports, which no
\* contract ties to the page it listed; the other copies return the one
\* Find*Candidates computed.
HardDeletionResult(r, k) ==
    IF Version[r] = "legacy" THEN {DefaultProjectID} \cup Tenants
    ELSE {lastProjectID[r][k]}

\* database.DeleteDocument hard-deletes the whole batch in one call.
DeleteDocument(r, k) ==
    /\ k = HD
    /\ pc[r][k] = "act"
    /\ applied' = [applied EXCEPT ![k] = @ \cup batch[r][k]]
    /\ batch' = [batch EXCEPT ![r][k] = {}]
    /\ \E id \in HardDeletionResult(r, k) :
          lastProjectID' = [lastProjectID EXCEPT ![r][k] = id]
    /\ SetPc(r, k, "done")
    /\ UNCHANGED <<cursor, projects, looked, cands, seen, holder, stopReq, failures,
                   crashes, active, activity>>

\* The batch deletion returns an error after removing any part of it.
DeleteDocumentFail(r, k) ==
    /\ k = HD
    /\ pc[r][k] = "act"
    /\ CanFail
    /\ CountFailure
    /\ \E gone \in SUBSET batch[r][k] :
          applied' = [applied EXCEPT ![k] = @ \cup gone]
    /\ SetPc(r, k, "fail")
    /\ UNCHANGED <<cursor, projects, looked, cands, batch, seen, holder, stopReq,
                   crashes, active, activity, lastProjectID>>

\* The deferred locker.Unlock: it frees the key, or fails and is only
\* logged, leaving the key held until its lease expires.
DeferredUnlock(r, k) ==
    \/ /\ holder' = [holder EXCEPT ![KeyOf(r, k)] = NoHolder]
       /\ UNCHANGED failures
    \/ /\ CanFail
       /\ CountFailure
       /\ UNCHANGED holder

\* Mutant: the loop assigns the returned cursor before checking the error,
\* so an error resets it to DefaultProjectID.
UnlockAdoptOnError(r, k) ==
    /\ pc[r][k] \in {"done", "fail"}
    /\ DeferredUnlock(r, k)
    /\ LET top == IF pc[r][k] = "done" THEN lastProjectID[r][k]
                  ELSE DefaultProjectID
       IN  /\ cursor' = [cursor EXCEPT ![r][k] = top]
           /\ seen' = [seen EXCEPT ![r][k] =
                         IF top = DefaultProjectID THEN {} ELSE @ \cup looked[r][k]]
    /\ pc' = [pc EXCEPT ![r][k] = IF pc[r][k] = "done" THEN "wait" ELSE "idle"]
    /\ UNCHANGED <<projects, looked, cands, batch, applied, stopReq, crashes, active, activity, lastProjectID>>

\* The deferred Unlock runs, then the loop either continues at once after
\* an error or adopts the returned cursor and goes to the select.  An Unlock
\* error is only logged: the key stays held until its lease expires.
Unlock(r, k) ==
    /\ pc[r][k] \in {"done", "fail"}
    /\ DeferredUnlock(r, k)
    /\ IF pc[r][k] = "done"
       THEN LET top == lastProjectID[r][k]
            IN  /\ cursor' = [cursor EXCEPT ![r][k] = top]
                /\ seen' = [seen EXCEPT ![r][k] =
                              IF top = DefaultProjectID THEN {}
                              ELSE @ \cup looked[r][k]]
                /\ SetPc(r, k, "wait")
       ELSE /\ SetPc(r, k, "idle")
            /\ UNCHANGED <<cursor, seen>>
    /\ UNCHANGED <<projects, looked, cands, batch, applied, stopReq, crashes, active, activity, lastProjectID>>

\* time.After(interval) fires: the next iteration starts.
AfterInterval(r, k) ==
    /\ pc[r][k] = "wait"
    /\ ~stopReq[r]
    /\ SetPc(r, k, "idle")
    /\ UNCHANGED <<cursor, projects, looked, cands, batch, seen, holder, applied,
                   stopReq, failures, crashes, active, activity, lastProjectID>>

\* Mutant: "break" instead of "return" in the Done case only leaves the
\* select, and the loop goes on.
DoneBreak(r, k) ==
    /\ pc[r][k] = "wait"
    /\ stopReq[r]
    /\ pc' = [pc EXCEPT ![r][k] = "idle"]
    /\ UNCHANGED <<cursor, projects, looked, cands, batch, seen, holder, applied,
                   stopReq, failures, crashes, active, activity, lastProjectID>>

\* h.ctx.Done() is selected: the loop returns.
Done(r, k) ==
    /\ pc[r][k] = "wait"
    /\ stopReq[r]
    /\ SetPc(r, k, "stopped")
    /\ UNCHANGED <<cursor, projects, looked, cands, batch, seen, holder, applied,
                   stopReq, failures, crashes, active, activity, lastProjectID>>

\* Housekeeping.Stop: cancelFunc().
Stop(r) ==
    /\ ~stopReq[r]
    /\ stopReq' = [stopReq EXCEPT ![r] = TRUE]
    /\ UNCHANGED <<pc, cursor, projects, looked, cands, batch, seen, holder, applied,
                   failures, crashes, active, activity, lastProjectID>>

\* The replica process dies at any point and is started again: the loops
\* start over from the sentinel cursor; locks it held stay held until
\* their leases expire.
Restart(r) ==
    /\ crashes < MaxCrashes
    /\ crashes' = crashes + 1
    /\ pc' = [pc EXCEPT ![r] = [k \in SweepKinds |-> "idle"]]
    /\ cursor' = [cursor EXCEPT ![r] = [k \in SweepKinds |-> DefaultProjectID]]
    /\ lastProjectID' = [lastProjectID EXCEPT ![r] =
                           [k \in SweepKinds |-> DefaultProjectID]]
    /\ projects' = [projects EXCEPT ![r] = [k \in SweepKinds |-> << >>]]
    /\ looked' = [looked EXCEPT ![r] = [k \in SweepKinds |-> {}]]
    /\ cands' = [cands EXCEPT ![r] = [k \in SweepKinds |-> {}]]
    /\ batch' = [batch EXCEPT ![r] = [k \in SweepKinds |-> {}]]
    /\ seen' = [seen EXCEPT ![r] = [k \in SweepKinds |-> {}]]
    /\ stopReq' = [stopReq EXCEPT ![r] = FALSE]
    /\ UNCHANGED <<holder, applied, failures, active, activity>>

\* Mutant: the lease expires while its owner is still inside the sweep
\* (a lease TTL shorter than one iteration).
LeaseExpireEarly(key) ==
    /\ holder[key] # NoHolder
    /\ holder' = [holder EXCEPT ![key] = NoHolder]
    /\ UNCHANGED <<pc, cursor, projects, looked, cands, batch, seen, applied,
                   stopReq, failures, crashes, active, activity, lastProjectID>>

\* The coordinator frees a key whose owner no longer runs under it
\* (crashed, or its Unlock failed): the lease expired.
LeaseExpire(key) ==
    /\ holder[key] # NoHolder
    /\ \A k \in SweepKinds :
          KeyOf(holder[key], k) = key => pc[holder[key]][k] \notin Holding
    /\ holder' = [holder EXCEPT ![key] = NoHolder]
    /\ UNCHANGED <<pc, cursor, projects, looked, cands, batch, seen, applied, stopReq,
                   failures, crashes, active, activity, lastProjectID>>

\* A request of a client that is not deactivated (PushPull, Attach, ...)
\* refreshes its last activity.  It is served by any replica and is not
\* serialized by the housekeeping lock.
ClientActivity(c) ==
    /\ DC \in SweepKinds
    /\ c \notin applied[DC] \cup active
    /\ activity < MaxActivity
    /\ active' = active \cup {c}
    /\ activity' = activity + 1
    /\ UNCHANGED <<pc, cursor, projects, looked, cands, batch, seen, holder, applied,
                   stopReq, failures, crashes, lastProjectID>>

\* The client stays silent past the deactivation threshold.
ClientIdle(c) ==
    /\ c \in active
    /\ active' = active \ {c}
    /\ UNCHANGED <<pc, cursor, projects, looked, cands, batch, seen, holder, applied,
                   stopReq, failures, crashes, activity, lastProjectID>>

\* One loop's steps.
Loop(r, k) ==
    \/ Lock(r, k) \/ LockFail(r, k)
    \/ FindCandidates(r, k) \/ FindCandidatesFail(r, k)
    \/ Deactivate(r, k) \/ DeactivateFail(r, k) \/ DeactivateDone(r, k)
    \/ DeleteDocument(r, k) \/ DeleteDocumentFail(r, k)
    \/ Unlock(r, k) \/ AfterInterval(r, k) \/ Done(r, k)

\* Every loop has returned: nothing is left to do.
Terminated ==
    /\ \A r \in Replicas, k \in SweepKinds : pc[r][k] = "stopped"
    /\ UNCHANGED vars

Next ==
    \/ \E r \in Replicas, k \in SweepKinds : Loop(r, k)
    \/ \E r \in Replicas : Stop(r) \/ Restart(r)
    \/ \E key \in LockKeys : LeaseExpire(key)
    \/ \E c \in Clients : ClientActivity(c) \/ ClientIdle(c)
    \/ Terminated

\* Goroutines are scheduled (weak fairness of each loop); the coordinator
\* grants a contended lock to every waiter eventually (strong fairness of
\* Lock); leases expire; time passes, so an active client becomes idle.
Fairness ==
    /\ \A r \in Replicas, k \in SweepKinds :
          WF_vars(Loop(r, k)) /\ SF_vars(Lock(r, k))
    /\ \A key \in LockKeys : WF_vars(LeaseExpire(key))
    /\ \A c \in Clients : WF_vars(ClientIdle(c))

Spec == Init /\ [][Next]_vars

FairSpec == Spec /\ Fairness

-----------------------------------------------------------------------------
(* Refinement of the abstract sweep (HousekeepingSweep).                   *)

\* The records of kind k in the projects of the page after cursor c.
SweepPageRecords(k, c) ==
    {i \in Items(k) : ProjectOf(k, i) \in Range(FindNextNCyclingProjectInfos(c))}

\* The cursor a successful iteration starting at c returns.
SweepNextCursor(c) == TopProjectID(FindNextNCyclingProjectInfos(c))

\* The replica whose loop of kind k is between Lock and the deferred
\* Unlock under the program counters p, if any.
OwnerOf(p, k) ==
    IF \E r \in Replicas : p[r][k] \in Holding
    THEN CHOOSE r \in Replicas : p[r][k] \in Holding
    ELSE NoHolder

\* The abstract owner of each kind.
SweepOwner == [k \in SweepKinds |-> OwnerOf(pc, k)]

Sweep == INSTANCE HousekeepingSweep
            WITH owner <- SweepOwner, cursor <- cursor, applied <- applied,
                 PageRecords <- SweepPageRecords, NextCursor <- SweepNextCursor,
                 Sentinel <- DefaultProjectID, Nobody <- NoHolder

-----------------------------------------------------------------------------
(* Properties.                                                             *)

TypeOK ==
    /\ pc \in [Replicas -> [SweepKinds -> PCs]]
    /\ cursor \in [Replicas -> [SweepKinds -> 0..NumTenants]]
    /\ lastProjectID \in [Replicas -> [SweepKinds -> 0..NumTenants]]
    /\ projects \in [Replicas -> [SweepKinds -> Seq(Tenants)]]
    /\ looked \in [Replicas -> [SweepKinds -> SUBSET Tenants]]
    /\ seen \in [Replicas -> [SweepKinds -> SUBSET Tenants]]
    /\ cands \in [Replicas -> [SweepKinds -> SUBSET (Clients \cup Docs)]]
    /\ batch \in [Replicas -> [SweepKinds -> SUBSET (Clients \cup Docs)]]
    /\ holder \in [LockKeys -> Replicas \cup {NoHolder}]
    /\ applied \in [SweepKinds -> SUBSET (Clients \cup Docs)]
    /\ stopReq \in [Replicas -> BOOLEAN]
    /\ failures \in Nat
    /\ crashes \in 0..MaxCrashes
    /\ active \subseteq Clients
    /\ activity \in 0..MaxActivity

\* Cluster-wide exclusivity of a sweep kind (spec section 1): no two
\* replicas are between Lock and the deferred Unlock of the same kind at
\* once, whatever crashes, failed Unlocks and lease expiries happened.
MutualExclusion ==
    \A k \in SweepKinds, r1, r2 \in Replicas :
        pc[r1][k] \in Holding /\ pc[r2][k] \in Holding => r1 = r2

\* The coordinator's view agrees with the loops': a loop between Lock and
\* its deferred Unlock is the recorded holder of its kind's key, across
\* failed Unlocks, crash-restarts and lease expiry.  (Inductive invariant
\* behind MutualExclusion.)
LockHeld ==
    \A r \in Replicas, k \in SweepKinds :
        pc[r][k] \in Holding => holder[KeyOf(r, k)] = r

\* Every replica uses the same lock key for each sweep kind (true when all
\* replicas run the same version of the code).
KeysAgree ==
    \A r1, r2 \in Replicas, k \in SweepKinds : KeyOf(r1, k) = KeyOf(r2, k)

\* Round-robin fairness of the cursor: when a loop's cursor points after
\* project t, the candidates of every project up to t have been looked up
\* by a successful iteration since the cursor last left the sentinel; the
\* page arithmetic of Find*Candidates never jumps over a project.
Coverage ==
    \A r \in Replicas, k \in SweepKinds :
        cursor[r][k] # DefaultProjectID => 1..cursor[r][k] \subseteq seen[r][k]

\* The loop adopts a new cursor only after the iteration applied every
\* candidate it collected: an error in the middle of the batch (a failing
\* clients.Deactivate or DeleteDocument) never moves the cursor past
\* projects whose candidates were left unprocessed.
CursorAfterBatch ==
    [][\A r \in Replicas, k \in SweepKinds :
          (cursor'[r][k] # cursor[r][k] /\ crashes' = crashes)
             => cands[r][k] \subseteq applied'[k]]_vars

\* clients.Deactivate only deactivates a client that is idle at that
\* moment (spec: a client candidate is eligible because its last activity
\* is older than the threshold).  The candidate was read under the lock,
\* but the client's own requests are not serialized by that lock.
DeactivatesIdleOnly ==
    [][(DC \in SweepKinds) =>
         \A c \in applied'[DC] \ applied[DC] : c \notin active]_vars

\* The loops implement the abstract sweep: one owner per kind at a time,
\* side effects only on records of the page after the owner's cursor
\* (never on a page listed by an earlier iteration), and a cursor that
\* moves by exactly one page on success, stays on error and restarts from
\* the sentinel after a crash.
SweepRefinement == Sweep!Spec

\* Every record that is a candidate when the loops start is eventually
\* deactivated / hard deleted, unless every replica's loop of that kind
\* has stopped: the cursor keeps cycling over all projects and the
\* per-project limit only delays a large project to later cycles.
EventuallyApplied ==
    \A k \in SweepKinds :
        <>(applied[k] = Items(k) \/ \A r \in Replicas : pc[r][k] = "stopped")

\* After Stop, every loop of the replica eventually returns (unless the
\* process restarted): cancellation is only seen at the select, so this
\* needs iterations to succeed eventually.
StopTerminates ==
    \A r \in Replicas :
        stopReq[r] ~> (~stopReq[r] \/ \A k \in SweepKinds : pc[r][k] = "stopped")

=============================================================================
