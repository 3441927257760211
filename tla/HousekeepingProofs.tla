------------------------- MODULE HousekeepingProofs -------------------------
(***************************************************************************)
(* Proofs about the housekeeping model, for every value of the constants   *)
(* that satisfies the assumptions of Housekeeping.                         *)
(***************************************************************************)
EXTENDS Housekeeping, SequenceTheorems, TLAPS

USE NumTenantsAssumption, PageSizeAssumption, KindsAssumption,
    LimitAssumption, ItemsAssumption, VersionAssumption,
    ReplicasAssumption, BoundsAssumption
USE DEF Kinds, DC, HD, Versions, Tenants, NoHolder, DefaultProjectID, PCs

-----------------------------------------------------------------------------
(* The store's page of projects is a sequence of existing projects.        *)

\* A function on 1..n is a sequence.
LEMMA FunIsSeq ==
    ASSUME NEW S, NEW n \in Nat, NEW f \in [1..n -> S]
    PROVE  f \in Seq(S)
BY SeqDef

LEMMA ListingType ==
    ASSUME NEW after \in 0..NumTenants
    PROVE  FindNextNCyclingProjectInfos(after) \in Seq(Tenants)
<1> DEFINE gt == [i \in 1..MinOf(PageSize, NumTenants - after) |-> after + i]
           wrap == IF StoreWraps
                   THEN [i \in 1..MinOf(PageSize - Len(gt), after) |-> i]
                   ELSE << >>
<1>1. gt \in Seq(Tenants)
  <2>1. MinOf(PageSize, NumTenants - after) \in Nat
    BY DEF MinOf
  <2>2. gt \in [1..MinOf(PageSize, NumTenants - after) -> Tenants]
    BY DEF MinOf, Tenants
  <2>. QED  BY <2>1, <2>2, FunIsSeq
<1>2. wrap \in Seq(Tenants)
  <2>1. CASE StoreWraps
    <3>1. Len(gt) <= PageSize
      BY DEF MinOf
    <3>2. MinOf(PageSize - Len(gt), after) \in Nat
      BY <1>1, <3>1 DEF MinOf
    <3>3. [i \in 1..MinOf(PageSize - Len(gt), after) |-> i]
            \in [1..MinOf(PageSize - Len(gt), after) -> Tenants]
      BY <1>1, <3>1 DEF MinOf, Tenants
    <3>4. wrap = [i \in 1..MinOf(PageSize - Len(gt), after) |-> i]
      BY <2>1
    <3>. QED  BY <3>2, <3>3, <3>4, FunIsSeq
  <2>2. CASE ~StoreWraps
    BY <2>2, EmptySeq
  <2>. QED  BY <2>1, <2>2
<1>. QED  BY <1>1, <1>2, ConcatProperties DEF FindNextNCyclingProjectInfos

\* The cursor an iteration returns is the sentinel or a project.
LEMMA TopType ==
    ASSUME NEW ps \in Seq(Tenants)
    PROVE  TopProjectID(ps) \in 0..NumTenants
BY ElementOfSeq, LenProperties DEF TopProjectID, Tenants, DefaultProjectID

\* A per-project lookup returns records of the kind.
LEMMA CandidatesType ==
    ASSUME NEW k \in SweepKinds, NEW t
    PROVE  CandidatesPerProject(k, t) \subseteq Clients \cup Docs
BY DEF CandidatesPerProject, FirstN, Eligible, Items

(* Lock keys.                                                              *)

\* The two kinds of one replica never share a lock key.
LEMMA KeysDistinct ==
    ASSUME NEW r \in Replicas, NEW k1 \in SweepKinds, NEW k2 \in SweepKinds,
           k1 # k2
    PROVE  KeyOf(r, k1) # KeyOf(r, k2)
BY DEF KeyOf, LockKey, HardDeletionKey

\* Every loop's key is one of the coordinator's keys.
LEMMA KeyType ==
    ASSUME NEW r \in Replicas, NEW k \in SweepKinds
    PROVE  KeyOf(r, k) \in LockKeys
BY DEF KeyOf, LockKeys

-----------------------------------------------------------------------------
(* Type correctness.                                                       *)

\* Every reachable state of the housekeeping loops, locks and store is
\* well typed.
THEOREM TypeCorrect == Spec => []TypeOK
<1>1. Init => TypeOK
  BY DEF Init, TypeOK, DefaultProjectID, EmptySeq
<1>2. TypeOK /\ [Next]_vars => TypeOK'
  <2> SUFFICES ASSUME TypeOK, [Next]_vars PROVE TypeOK'
    OBVIOUS
  <2>1. ASSUME NEW r \in Replicas, NEW k \in SweepKinds, Lock(r, k)
        PROVE  TypeOK'
    BY <2>1, KeyType DEF Lock, SetPc, TypeOK
  <2>2. ASSUME NEW r \in Replicas, NEW k \in SweepKinds, LockFail(r, k)
        PROVE  TypeOK'
    BY <2>2 DEF LockFail, CountFailure, TypeOK
  <2>3. ASSUME NEW r \in Replicas, NEW k \in SweepKinds, FindCandidates(r, k)
        PROVE  TypeOK'
    <3> DEFINE ps == FindNextNCyclingProjectInfos(cursor[r][k])
    <3>1. ps \in Seq(Tenants)
      BY ListingType DEF TypeOK
    <3>2. {ps[i] : i \in 1..Len(ps)} \subseteq Tenants
      BY <3>1, ElementOfSeq
    <3>3. UNION {CandidatesPerProject(k, t) : t \in {ps[i] : i \in 1..Len(ps)}}
            \subseteq Clients \cup Docs
      <4>1. \A t : CandidatesPerProject(k, t) \subseteq Clients \cup Docs
        BY CandidatesType
      <4>. QED  BY <4>1
    <3>4. TopProjectID(ps) \in 0..NumTenants
      BY <3>1, TopType
    <3>5. projects'[r][k] = ps
      BY <2>3, <3>1 DEF FindCandidates, TypeOK
    <3>. QED  BY <2>3, <3>1, <3>2, <3>3, <3>4, <3>5
              DEF FindCandidates, SetPc, TypeOK
  <2>4. ASSUME NEW r \in Replicas, NEW k \in SweepKinds, FindCandidatesFail(r, k)
        PROVE  TypeOK'
    BY <2>4 DEF FindCandidatesFail, CountFailure, SetPc, TypeOK
  <2>5. ASSUME NEW r \in Replicas, NEW k \in SweepKinds, Deactivate(r, k)
        PROVE  TypeOK'
    BY <2>5 DEF Deactivate, TypeOK
  <2>6. ASSUME NEW r \in Replicas, NEW k \in SweepKinds, DeactivateFail(r, k)
        PROVE  TypeOK'
    BY <2>6 DEF DeactivateFail, CountFailure, SetPc, TypeOK
  <2>7. ASSUME NEW r \in Replicas, NEW k \in SweepKinds, DeactivateDone(r, k)
        PROVE  TypeOK'
    BY <2>7 DEF DeactivateDone, SetPc, TypeOK
  <2>8. ASSUME NEW r \in Replicas, NEW k \in SweepKinds, DeleteDocument(r, k)
        PROVE  TypeOK'
    <3>1. PICK id \in HardDeletionResult(r, k) :
                 lastProjectID' = [lastProjectID EXCEPT ![r][k] = id]
      BY <2>8 DEF DeleteDocument
    <3>2. id \in 0..NumTenants
      BY DEF HardDeletionResult, TypeOK
    <3>. QED  BY <2>8, <3>1, <3>2 DEF DeleteDocument, SetPc, TypeOK
  <2>9. ASSUME NEW r \in Replicas, NEW k \in SweepKinds, DeleteDocumentFail(r, k)
        PROVE  TypeOK'
    <3>1. PICK gone \in SUBSET batch[r][k] :
                 applied' = [applied EXCEPT ![k] = @ \cup gone]
      BY <2>9 DEF DeleteDocumentFail
    <3>2. gone \subseteq Clients \cup Docs
      BY <3>1 DEF TypeOK
    <3>3. /\ pc' = [pc EXCEPT ![r][k] = "fail"]
          /\ failures' \in Nat
          /\ UNCHANGED <<cursor, projects, looked, cands, batch, seen, holder,
                         stopReq, crashes, active, activity, lastProjectID>>
      BY <2>9 DEF DeleteDocumentFail, CountFailure, SetPc, TypeOK
    <3>. QED  BY <3>1, <3>2, <3>3 DEF TypeOK
  <2>10. ASSUME NEW r \in Replicas, NEW k \in SweepKinds, Unlock(r, k)
         PROVE  TypeOK'
    <3>1. lastProjectID[r][k] \in 0..NumTenants
      BY DEF TypeOK
    <3>2. looked[r][k] \subseteq Tenants
      BY DEF TypeOK
    <3>3. KeyOf(r, k) \in LockKeys
      BY DEF KeyOf, LockKeys
    <3>4. holder' \in [LockKeys -> Replicas \cup {NoHolder}]
      BY <2>10, <3>3 DEF Unlock, DeferredUnlock, TypeOK
    <3>5. failures' \in Nat
      BY <2>10 DEF Unlock, DeferredUnlock, CountFailure, TypeOK
    <3>6. CASE pc[r][k] = "done"
      <4>1. /\ cursor' = [cursor EXCEPT ![r][k] = lastProjectID[r][k]]
            /\ seen' = [seen EXCEPT ![r][k] =
                         IF lastProjectID[r][k] = DefaultProjectID
                         THEN {} ELSE @ \cup looked[r][k]]
            /\ pc' = [pc EXCEPT ![r][k] = "wait"]
            /\ UNCHANGED <<projects, looked, cands, batch, applied, stopReq, crashes,
                           active, activity, lastProjectID>>
        BY <2>10, <3>6 DEF Unlock, DeferredUnlock, SetPc
      <4>. QED  BY <3>1, <3>2, <3>4, <3>5, <4>1 DEF TypeOK
    <3>7. CASE pc[r][k] # "done"
      <4>1. /\ pc' = [pc EXCEPT ![r][k] = "idle"]
            /\ UNCHANGED <<cursor, seen, projects, looked, cands, batch, applied,
                           stopReq, crashes, active, activity, lastProjectID>>
        BY <2>10, <3>7 DEF Unlock, DeferredUnlock, SetPc
      <4>. QED  BY <3>4, <3>5, <4>1 DEF TypeOK
    <3>. QED  BY <3>6, <3>7
  <2>11. ASSUME NEW r \in Replicas, NEW k \in SweepKinds, AfterInterval(r, k)
         PROVE  TypeOK'
    BY <2>11 DEF AfterInterval, SetPc, TypeOK
  <2>12. ASSUME NEW r \in Replicas, NEW k \in SweepKinds, Done(r, k)
         PROVE  TypeOK'
    BY <2>12 DEF Done, SetPc, TypeOK
  <2>13. ASSUME NEW r \in Replicas, Stop(r)
         PROVE  TypeOK'
    BY <2>13 DEF Stop, TypeOK
  <2>14. ASSUME NEW r \in Replicas, Restart(r)
         PROVE  TypeOK'
    BY <2>14, EmptySeq DEF Restart, TypeOK, DefaultProjectID
  <2>15. ASSUME NEW key \in LockKeys, LeaseExpire(key)
         PROVE  TypeOK'
    BY <2>15 DEF LeaseExpire, TypeOK
  <2>16. CASE Terminated \/ UNCHANGED vars
    BY <2>16 DEF Terminated, vars, TypeOK
  <2>17. ASSUME NEW c \in Clients, ClientActivity(c)
         PROVE  TypeOK'
    BY <2>17 DEF ClientActivity, TypeOK
  <2>18. ASSUME NEW c \in Clients, ClientIdle(c)
         PROVE  TypeOK'
    BY <2>18 DEF ClientIdle, TypeOK
  <2>. QED
    BY <2>1, <2>2, <2>3, <2>4, <2>5, <2>6, <2>7, <2>8, <2>9, <2>10,
       <2>11, <2>12, <2>13, <2>14, <2>15, <2>16, <2>17, <2>18 DEF Next, Loop
<1>. QED  BY <1>1, <1>2, PTL DEF Spec

-----------------------------------------------------------------------------
(* Mutual exclusion.                                                       *)

\* A loop between Lock and the deferred Unlock is the holder of its key.
THEOREM LockHeldInvariant == Spec => []LockHeld
<1>1. Init => LockHeld
  BY DEF Init, LockHeld, Holding
<1>2. TypeOK /\ LockHeld /\ [Next]_vars => LockHeld'
  <2> SUFFICES ASSUME TypeOK, LockHeld, [Next]_vars,
                      NEW r2 \in Replicas, NEW k2 \in SweepKinds,
                      pc'[r2][k2] \in Holding
               PROVE  holder'[KeyOf(r2, k2)] = r2
    BY DEF LockHeld
  <2> USE KeyType DEF TypeOK
  \* Steps that take no lock, release none, and never enter Holding.
  <2>1. ASSUME holder' = holder,
               pc[r2][k2] \in Holding \/ pc'[r2][k2] \notin Holding
        PROVE  holder'[KeyOf(r2, k2)] = r2
    BY <2>1 DEF LockHeld
  <2>2. ASSUME NEW r \in Replicas, NEW k \in SweepKinds, Lock(r, k)
        PROVE  holder'[KeyOf(r2, k2)] = r2
    <3>1. CASE <<r2, k2>> = <<r, k>>
      BY <2>2, <3>1 DEF Lock
    <3>2. CASE <<r2, k2>> # <<r, k>>
      <4>1. pc[r2][k2] \in Holding
        BY <2>2, <3>2 DEF Lock, SetPc
      <4>2. holder[KeyOf(r2, k2)] = r2
        BY <4>1 DEF LockHeld
      <4>3. KeyOf(r2, k2) # KeyOf(r, k)
        BY <2>2, <4>2, ReplicasAssumption DEF Lock
      <4>. QED  BY <2>2, <4>2, <4>3 DEF Lock
    <3>. QED  BY <3>1, <3>2
  <2>3. ASSUME NEW r \in Replicas, NEW k \in SweepKinds, Unlock(r, k)
        PROVE  holder'[KeyOf(r2, k2)] = r2
    <3>1. <<r2, k2>> # <<r, k>>
      BY <2>3 DEF Unlock, DeferredUnlock, SetPc, Holding
    <3>2. pc' = [pc EXCEPT ![r][k] = IF pc[r][k] = "done" THEN "wait" ELSE "idle"]
      BY <2>3 DEF Unlock, DeferredUnlock, SetPc
    <3>7. pc[r2][k2] \in Holding
      BY <3>1, <3>2
    <3>3. holder[KeyOf(r2, k2)] = r2
      BY <3>7 DEF LockHeld
    <3>4. pc[r][k] \in Holding
      BY <2>3 DEF Unlock, DeferredUnlock, Holding
    <3>5. holder[KeyOf(r, k)] = r
      BY <3>4 DEF LockHeld
    <3>6. KeyOf(r2, k2) # KeyOf(r, k)
      <4>1. CASE r2 = r
        BY <3>1, <4>1, KeysDistinct
      <4>2. CASE r2 # r
        BY <3>3, <3>5, <4>2
      <4>. QED  BY <4>1, <4>2
    <3>. QED  BY <2>3, <3>3, <3>6 DEF Unlock, DeferredUnlock
  <2>4. ASSUME NEW key \in LockKeys, LeaseExpire(key)
        PROVE  holder'[KeyOf(r2, k2)] = r2
    <3>1. pc[r2][k2] \in Holding /\ holder[KeyOf(r2, k2)] = r2
      BY <2>4 DEF LeaseExpire, LockHeld
    <3>2. KeyOf(r2, k2) # key
      BY <2>4, <3>1 DEF LeaseExpire
    <3>. QED  BY <2>4, <3>1, <3>2 DEF LeaseExpire
  <2>5. ASSUME NEW r \in Replicas, Restart(r)
        PROVE  holder'[KeyOf(r2, k2)] = r2
    <3>1. r2 # r
      BY <2>5 DEF Restart, Holding
    <3>. QED  BY <2>5, <3>1, <2>1 DEF Restart
  <2>6. ASSUME NEW r \in Replicas, Stop(r)
        PROVE  holder'[KeyOf(r2, k2)] = r2
    BY <2>6, <2>1 DEF Stop
  <2>7. ASSUME NEW r \in Replicas, NEW k \in SweepKinds,
               \/ LockFail(r, k) \/ FindCandidates(r, k)
               \/ FindCandidatesFail(r, k) \/ Deactivate(r, k)
               \/ DeactivateFail(r, k) \/ DeactivateDone(r, k)
               \/ DeleteDocument(r, k) \/ DeleteDocumentFail(r, k)
               \/ AfterInterval(r, k) \/ Done(r, k)
        PROVE  holder'[KeyOf(r2, k2)] = r2
    <3>1. holder' = holder
      BY <2>7 DEF LockFail, FindCandidates, FindCandidatesFail, Deactivate,
                  DeactivateFail, DeactivateDone, DeleteDocument,
                  DeleteDocumentFail, AfterInterval, Done
    <3>2. pc[r2][k2] \in Holding \/ pc'[r2][k2] \notin Holding
      <4>1. CASE LockFail(r, k)
        BY <4>1 DEF LockFail
      <4>2. CASE FindCandidates(r, k)
        BY <4>2 DEF FindCandidates, SetPc, Holding
      <4>3. CASE FindCandidatesFail(r, k)
        BY <4>3 DEF FindCandidatesFail, SetPc, Holding
      <4>4. CASE Deactivate(r, k)
        BY <4>4 DEF Deactivate
      <4>5. CASE DeactivateFail(r, k)
        BY <4>5 DEF DeactivateFail, SetPc, Holding
      <4>6. CASE DeactivateDone(r, k)
        BY <4>6 DEF DeactivateDone, SetPc, Holding
      <4>7. CASE DeleteDocument(r, k)
        BY <4>7 DEF DeleteDocument, SetPc, Holding
      <4>8. CASE DeleteDocumentFail(r, k)
        BY <4>8 DEF DeleteDocumentFail, SetPc, Holding
      <4>9. CASE AfterInterval(r, k)
        BY <4>9 DEF AfterInterval, SetPc, Holding
      <4>10. CASE Done(r, k)
        BY <4>10 DEF Done, SetPc, Holding
      <4>. QED  BY <2>7, <4>1, <4>2, <4>3, <4>4, <4>5, <4>6, <4>7, <4>8, <4>9, <4>10
    <3>. QED  BY <3>1, <3>2, <2>1
  <2>8. CASE Terminated \/ UNCHANGED vars
    BY <2>8, <2>1 DEF Terminated, vars
  <2>9. ASSUME NEW c \in Clients, ClientActivity(c) \/ ClientIdle(c)
        PROVE  holder'[KeyOf(r2, k2)] = r2
    BY <2>9, <2>1 DEF ClientActivity, ClientIdle
  <2>. QED
    BY <2>2, <2>3, <2>4, <2>5, <2>6, <2>7, <2>8, <2>9 DEF Next, Loop
<1>. QED  BY <1>1, <1>2, TypeCorrect, PTL DEF Spec

\* Cluster-wide exclusivity of each sweep kind (MutualExclusion) holds in
\* every behaviour when all replicas use the same lock key per kind; the
\* mixed-version run shows the premise cannot be dropped.
THEOREM MutualExclusionSafe == KeysAgree => (Spec => []MutualExclusion)
<1> SUFFICES ASSUME KeysAgree PROVE Spec => []MutualExclusion
  OBVIOUS
<1>1. LockHeld => MutualExclusion
  <2> SUFFICES ASSUME LockHeld,
                      NEW k \in SweepKinds, NEW r1 \in Replicas, NEW r2 \in Replicas,
                      pc[r1][k] \in Holding, pc[r2][k] \in Holding
               PROVE  r1 = r2
    BY DEF MutualExclusion
  <2>1. holder[KeyOf(r1, k)] = r1 /\ holder[KeyOf(r2, k)] = r2
    BY DEF LockHeld
  <2>2. KeyOf(r1, k) = KeyOf(r2, k)
    BY DEF KeysAgree
  <2>. QED  BY <2>1, <2>2
<1>. QED  BY <1>1, LockHeldInvariant, PTL

=============================================================================
