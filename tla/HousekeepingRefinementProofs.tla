---------------------- MODULE HousekeepingRefinementProofs ----------------------
(***************************************************************************)
(* The housekeeping loops implement the abstract sweep HousekeepingSweep   *)
(* under the refinement mapping of Housekeeping (SweepOwner, cursor,       *)
(* applied), when every replica uses the same lock key per kind and none   *)
(* runs the legacy copy, whose next cursor is whatever HardDeletion        *)
(* returns.                                                                *)
(***************************************************************************)
EXTENDS HousekeepingProofs

\* No replica runs the legacy copy (unnamed/part_000).
NoLegacy == \A r \in Replicas : Version[r] # "legacy"

\* A loop that has listed its page and not yet unlocked will return the
\* cursor after that page.
PageInv ==
    \A r \in Replicas, k \in SweepKinds :
        pc[r][k] \in {"act", "done"} =>
            lastProjectID[r][k] = SweepNextCursor(cursor[r][k])

\* The candidates a loop still has to apply lie in the page after its cursor.
BatchInv ==
    \A r \in Replicas, k \in SweepKinds :
        pc[r][k] = "act" => batch[r][k] \subseteq SweepPageRecords(k, cursor[r][k])

-----------------------------------------------------------------------------
(* The abstract owner.                                                     *)

\* A replica inside the sweep, the only one, is the owner.
LEMMA OwnerIs ==
    ASSUME NEW p, NEW k, NEW r \in Replicas, p[r][k] \in Holding,
           \A r1, r2 \in Replicas :
               p[r1][k] \in Holding /\ p[r2][k] \in Holding => r1 = r2
    PROVE  OwnerOf(p, k) = r
BY DEF OwnerOf

\* With nobody inside the sweep there is no owner.
LEMMA OwnerNone ==
    ASSUME NEW p, NEW k, \A r \in Replicas : p[r][k] \notin Holding
    PROVE  OwnerOf(p, k) = NoHolder
BY DEF OwnerOf

\* The owner, if any, is inside the sweep.
LEMMA OwnerHolds ==
    ASSUME NEW p, NEW k, NEW r \in Replicas, OwnerOf(p, k) = r
    PROVE  p[r][k] \in Holding
BY ReplicasAssumption DEF OwnerOf

\* The owner only depends on who is inside the sweep.
LEMMA OwnerSame ==
    ASSUME NEW p, NEW q, NEW k,
           \A r \in Replicas : p[r][k] \in Holding <=> q[r][k] \in Holding
    PROVE  OwnerOf(p, k) = OwnerOf(q, k)
BY DEF OwnerOf

-----------------------------------------------------------------------------
(* The page the running iteration works on.                                *)

\* The candidates collected from a page are records of that page.
LEMMA CandidatesInPage ==
    ASSUME NEW k \in SweepKinds, NEW c \in 0..NumTenants
    PROVE  LET ps == FindNextNCyclingProjectInfos(c)
           IN  UNION {CandidatesPerProject(k, t) : t \in {ps[i] : i \in 1..Len(ps)}}
                  \subseteq SweepPageRecords(k, c)
<1> DEFINE ps == FindNextNCyclingProjectInfos(c)
<1>1. ps \in Seq(Tenants)
  BY ListingType
<1>2. Range(ps) = {ps[i] : i \in 1..Len(ps)}
  BY <1>1, LenProperties DEF Range
<1>3. \A t : CandidatesPerProject(k, t) \subseteq {i \in Items(k) : ProjectOf(k, i) = t}
  BY DEF CandidatesPerProject, FirstN, Eligible
<1>. QED  BY <1>2, <1>3 DEF SweepPageRecords

\* With no replica on the legacy copy, the loops keep returning the cursor
\* of the page they listed, and apply only candidates of that page.
THEOREM PageInvariant == NoLegacy => (Spec => [](PageInv /\ BatchInv))
<1> SUFFICES ASSUME NoLegacy PROVE Spec => [](PageInv /\ BatchInv)
  OBVIOUS
<1>1. Init => PageInv /\ BatchInv
  BY DEF Init, PageInv, BatchInv
<1>2. TypeOK /\ PageInv /\ BatchInv /\ [Next]_vars => PageInv' /\ BatchInv'
  <2> SUFFICES ASSUME TypeOK, PageInv, BatchInv, [Next]_vars,
                      NEW r2 \in Replicas, NEW k2 \in SweepKinds
               PROVE  /\ pc'[r2][k2] \in {"act", "done"} =>
                            lastProjectID'[r2][k2] = SweepNextCursor(cursor'[r2][k2])
                      /\ pc'[r2][k2] = "act" =>
                            batch'[r2][k2] \subseteq SweepPageRecords(k2, cursor'[r2][k2])
    BY DEF PageInv, BatchInv
  <2> USE DEF TypeOK
  \* The loop (r2, k2) keeps its page, cursor and position, or leaves "act"
  \* and "done", or shrinks its batch.
  <2>1. ASSUME pc[r2][k2] \in {"act", "done"} \/ pc'[r2][k2] \notin {"act", "done"},
               pc'[r2][k2] = "act" => pc[r2][k2] = "act",
               lastProjectID'[r2][k2] = lastProjectID[r2][k2],
               cursor'[r2][k2] = cursor[r2][k2],
               batch'[r2][k2] \subseteq batch[r2][k2]
        PROVE  /\ pc'[r2][k2] \in {"act", "done"} =>
                     lastProjectID'[r2][k2] = SweepNextCursor(cursor'[r2][k2])
               /\ pc'[r2][k2] = "act" =>
                     batch'[r2][k2] \subseteq SweepPageRecords(k2, cursor'[r2][k2])
    BY <2>1 DEF PageInv, BatchInv
  \* Steps that do not touch the loop (r2, k2).
  <2>2. ASSUME pc'[r2][k2] = pc[r2][k2],
               lastProjectID'[r2][k2] = lastProjectID[r2][k2],
               cursor'[r2][k2] = cursor[r2][k2],
               batch'[r2][k2] = batch[r2][k2]
        PROVE  /\ pc'[r2][k2] \in {"act", "done"} =>
                     lastProjectID'[r2][k2] = SweepNextCursor(cursor'[r2][k2])
               /\ pc'[r2][k2] = "act" =>
                     batch'[r2][k2] \subseteq SweepPageRecords(k2, cursor'[r2][k2])
    BY <2>2, <2>1
  \* Steps after which the loop (r2, k2) is neither in "act" nor in "done".
  <2>3. ASSUME pc'[r2][k2] \notin {"act", "done"}
        PROVE  /\ pc'[r2][k2] \in {"act", "done"} =>
                     lastProjectID'[r2][k2] = SweepNextCursor(cursor'[r2][k2])
               /\ pc'[r2][k2] = "act" =>
                     batch'[r2][k2] \subseteq SweepPageRecords(k2, cursor'[r2][k2])
    BY <2>3
  <2>4. ASSUME NEW r \in Replicas, NEW k \in SweepKinds, FindCandidates(r, k)
        PROVE  /\ pc'[r2][k2] \in {"act", "done"} =>
                     lastProjectID'[r2][k2] = SweepNextCursor(cursor'[r2][k2])
               /\ pc'[r2][k2] = "act" =>
                     batch'[r2][k2] \subseteq SweepPageRecords(k2, cursor'[r2][k2])
    <3>1. CASE <<r2, k2>> = <<r, k>>
      <4>1. lastProjectID'[r][k] = SweepNextCursor(cursor[r][k])
        BY <2>4 DEF FindCandidates, SweepNextCursor
      <4>2. batch'[r][k] \subseteq SweepPageRecords(k, cursor[r][k])
        BY <2>4, CandidatesInPage DEF FindCandidates
      <4>. QED  BY <2>4, <3>1, <4>1, <4>2 DEF FindCandidates
    <3>4. CASE <<r2, k2>> # <<r, k>>
      BY <2>4, <3>4, <2>2 DEF FindCandidates, SetPc
    <3>. QED  BY <3>1, <3>4
  <2>5. ASSUME NEW r \in Replicas, NEW k \in SweepKinds, Deactivate(r, k)
        PROVE  /\ pc'[r2][k2] \in {"act", "done"} =>
                     lastProjectID'[r2][k2] = SweepNextCursor(cursor'[r2][k2])
               /\ pc'[r2][k2] = "act" =>
                     batch'[r2][k2] \subseteq SweepPageRecords(k2, cursor'[r2][k2])
    <3>1. PICK c \in batch[r][k] : batch' = [batch EXCEPT ![r][k] = @ \ {c}]
      BY <2>5 DEF Deactivate
    <3>. QED  BY <2>5, <3>1, <2>1 DEF Deactivate
  <2>6. ASSUME NEW r \in Replicas, NEW k \in SweepKinds, DeactivateDone(r, k)
        PROVE  /\ pc'[r2][k2] \in {"act", "done"} =>
                     lastProjectID'[r2][k2] = SweepNextCursor(cursor'[r2][k2])
               /\ pc'[r2][k2] = "act" =>
                     batch'[r2][k2] \subseteq SweepPageRecords(k2, cursor'[r2][k2])
    BY <2>6, <2>1 DEF DeactivateDone, SetPc
  <2>7. ASSUME NEW r \in Replicas, NEW k \in SweepKinds, DeleteDocument(r, k)
        PROVE  /\ pc'[r2][k2] \in {"act", "done"} =>
                     lastProjectID'[r2][k2] = SweepNextCursor(cursor'[r2][k2])
               /\ pc'[r2][k2] = "act" =>
                     batch'[r2][k2] \subseteq SweepPageRecords(k2, cursor'[r2][k2])
    <3>1. HardDeletionResult(r, k) = {lastProjectID[r][k]}
      BY DEF HardDeletionResult, NoLegacy
    <3>2. lastProjectID' = lastProjectID
      BY <2>7, <3>1 DEF DeleteDocument
    <3>. QED  BY <2>7, <3>2, <2>1 DEF DeleteDocument, SetPc
  <2>8. ASSUME NEW r \in Replicas, NEW k \in SweepKinds,
               \/ Lock(r, k) \/ FindCandidatesFail(r, k) \/ DeactivateFail(r, k)
               \/ DeleteDocumentFail(r, k) \/ Unlock(r, k) \/ AfterInterval(r, k)
               \/ Done(r, k)
        PROVE  /\ pc'[r2][k2] \in {"act", "done"} =>
                     lastProjectID'[r2][k2] = SweepNextCursor(cursor'[r2][k2])
               /\ pc'[r2][k2] = "act" =>
                     batch'[r2][k2] \subseteq SweepPageRecords(k2, cursor'[r2][k2])
    <3>1. CASE <<r2, k2>> = <<r, k>>
      <4>1. pc'[r][k] \notin {"act", "done"}
        BY <2>8 DEF Lock, FindCandidatesFail, DeactivateFail, DeleteDocumentFail,
                    Unlock, DeferredUnlock, AfterInterval, Done, SetPc
      <4>. QED  BY <3>1, <4>1, <2>3
    <3>3. CASE <<r2, k2>> # <<r, k>>
      <4>1. /\ pc'[r2][k2] = pc[r2][k2]
            /\ lastProjectID'[r2][k2] = lastProjectID[r2][k2]
            /\ cursor'[r2][k2] = cursor[r2][k2]
            /\ batch'[r2][k2] = batch[r2][k2]
        BY <2>8, <3>3 DEF Lock, FindCandidatesFail, DeactivateFail,
                          DeleteDocumentFail, Unlock, DeferredUnlock,
                          AfterInterval, Done, SetPc
      <4>. QED  BY <4>1, <2>2
    <3>. QED  BY <3>1, <3>3
  <2>9. ASSUME NEW r \in Replicas, Restart(r)
        PROVE  /\ pc'[r2][k2] \in {"act", "done"} =>
                     lastProjectID'[r2][k2] = SweepNextCursor(cursor'[r2][k2])
               /\ pc'[r2][k2] = "act" =>
                     batch'[r2][k2] \subseteq SweepPageRecords(k2, cursor'[r2][k2])
    <3>1. CASE r2 = r
      BY <2>9, <3>1, <2>3 DEF Restart
    <3>2. CASE r2 # r
      BY <2>9, <3>2, <2>2 DEF Restart
    <3>. QED  BY <3>1, <3>2
  <2>10. ASSUME \/ \E r \in Replicas, k \in SweepKinds : LockFail(r, k)
                \/ \E r \in Replicas : Stop(r)
                \/ \E key \in LockKeys : LeaseExpire(key)
                \/ \E c \in Clients : ClientActivity(c) \/ ClientIdle(c)
                \/ Terminated \/ UNCHANGED vars
         PROVE  /\ pc'[r2][k2] \in {"act", "done"} =>
                      lastProjectID'[r2][k2] = SweepNextCursor(cursor'[r2][k2])
                /\ pc'[r2][k2] = "act" =>
                      batch'[r2][k2] \subseteq SweepPageRecords(k2, cursor'[r2][k2])
    <3>1. UNCHANGED <<pc, lastProjectID, cursor, batch>>
      BY <2>10 DEF LockFail, Stop, LeaseExpire, ClientActivity, ClientIdle,
                   Terminated, vars
    <3>. QED  BY <3>1, <2>2
  <2>. QED
    BY <2>4, <2>5, <2>6, <2>7, <2>8, <2>9, <2>10 DEF Next, Loop
<1>. QED  BY <1>1, <1>2, TypeCorrect, PTL DEF Spec

-----------------------------------------------------------------------------
(* Refinement.                                                             *)

\* SweepRefinement: with one lock key per kind and no legacy replica, every
\* behaviour of the loops is a behaviour of the abstract sweep under the
\* mapping SweepOwner, cursor, applied.
THEOREM SweepRefinementProof == KeysAgree /\ NoLegacy => (Spec => SweepRefinement)
<1> SUFFICES ASSUME KeysAgree, NoLegacy PROVE Spec => Sweep!Spec
  BY DEF SweepRefinement
<1> DEFINE Inv == TypeOK /\ LockHeld /\ PageInv /\ BatchInv
           avars == <<SweepOwner, cursor, applied>>
<1>1. Spec => []Inv
  BY TypeCorrect, LockHeldInvariant, PageInvariant, PTL
<1>2. Init => Sweep!Init
  <2> SUFFICES ASSUME Init PROVE Sweep!Init
    OBVIOUS
  <2>1. \A k \in SweepKinds : OwnerOf(pc, k) = NoHolder
    BY OwnerNone DEF Init, Holding
  <2>. QED  BY <2>1 DEF Init, Sweep!Init, SweepOwner
<1>3. Inv /\ Inv' /\ [Next]_vars => [Sweep!Next]_avars
  <2> SUFFICES ASSUME TypeOK, LockHeld, PageInv, BatchInv, TypeOK', LockHeld',
                      [Next]_vars
               PROVE  [Sweep!Next]_avars
    BY DEF Inv
  <2> USE DEF TypeOK
  <2>1. MutualExclusion /\ MutualExclusion'
    <3>1. MutualExclusion
      <4> SUFFICES ASSUME NEW k \in SweepKinds, NEW r1 \in Replicas, NEW r2 \in Replicas,
                          pc[r1][k] \in Holding, pc[r2][k] \in Holding
                   PROVE  r1 = r2
        BY DEF MutualExclusion
      <4>1. holder[KeyOf(r1, k)] = r1 /\ holder[KeyOf(r2, k)] = r2
        BY DEF LockHeld
      <4>. QED  BY <4>1 DEF KeysAgree
    <3>2. MutualExclusion'
      <4> SUFFICES ASSUME NEW k \in SweepKinds, NEW r1 \in Replicas, NEW r2 \in Replicas,
                          pc'[r1][k] \in Holding, pc'[r2][k] \in Holding
                   PROVE  r1 = r2
        BY DEF MutualExclusion
      <4>1. holder'[KeyOf(r1, k)] = r1 /\ holder'[KeyOf(r2, k)] = r2
        BY DEF LockHeld
      <4>. QED  BY <4>1 DEF KeysAgree
    <3>. QED  BY <3>1, <3>2
  \* Who is inside each sweep is unchanged: so is the abstract owner.
  <2>2. ASSUME \A r \in Replicas, k \in SweepKinds :
                   pc'[r][k] \in Holding <=> pc[r][k] \in Holding
        PROVE  SweepOwner' = SweepOwner
    <3>1. \A k \in SweepKinds : OwnerOf(pc', k) = OwnerOf(pc, k)
      BY <2>2, OwnerSame
    <3>. QED  BY <3>1 DEF SweepOwner
  \* Steps invisible to the abstract sweep.
  <2>3. ASSUME \A r \in Replicas, k \in SweepKinds :
                   pc'[r][k] \in Holding <=> pc[r][k] \in Holding,
               cursor' = cursor, applied' = applied
        PROVE  [Sweep!Next]_avars
    BY <2>3, <2>2
  \* One loop moves: the other loops of its kind and the other kinds keep
  \* their owner.
  <2>4. ASSUME NEW r \in Replicas, NEW k \in SweepKinds, NEW v,
               pc' = [pc EXCEPT ![r][k] = v]
        PROVE  /\ \A r1 \in Replicas \ {r} : pc'[r1][k] = pc[r1][k]
               /\ pc'[r][k] = v
               /\ \A k2 \in SweepKinds \ {k} : OwnerOf(pc', k2) = OwnerOf(pc, k2)
    <3>1. \A r1 \in Replicas \ {r} : pc'[r1][k] = pc[r1][k]
      BY <2>4
    <3>2. pc'[r][k] = v
      BY <2>4
    <3>3. ASSUME NEW k2 \in SweepKinds \ {k} PROVE OwnerOf(pc', k2) = OwnerOf(pc, k2)
      <4>1. \A r1 \in Replicas : pc'[r1][k2] \in Holding <=> pc[r1][k2] \in Holding
        BY <2>4
      <4>. QED  BY <4>1, OwnerSame
    <3>. QED  BY <3>1, <3>2, <3>3
  <2>5. ASSUME NEW r \in Replicas, NEW k \in SweepKinds, NEW v,
               pc' = [pc EXCEPT ![r][k] = v],
               v \in Holding <=> pc[r][k] \in Holding
        PROVE  \A r1 \in Replicas, k1 \in SweepKinds :
                   pc'[r1][k1] \in Holding <=> pc[r1][k1] \in Holding
    <3> SUFFICES ASSUME NEW r1 \in Replicas, NEW k1 \in SweepKinds
                 PROVE  pc'[r1][k1] \in Holding <=> pc[r1][k1] \in Holding
      OBVIOUS
    <3>1. CASE r1 = r /\ k1 = k
      <4>1. pc'[r1][k1] = v
        BY <2>5, <3>1
      <4>. QED  BY <2>5, <3>1, <4>1
    <3>2. CASE ~(r1 = r /\ k1 = k)
      <4>1. pc'[r1][k1] = pc[r1][k1]
        BY <2>5, <3>2
      <4>. QED  BY <4>1
    <3>. QED  BY <3>1, <3>2
  \* A replica inside a sweep is its owner, before and after the step.
  <2>6. ASSUME NEW r \in Replicas, NEW k \in SweepKinds, pc[r][k] \in Holding
        PROVE  SweepOwner[k] = r
    <3>1. \A r1, r2 \in Replicas :
              pc[r1][k] \in Holding /\ pc[r2][k] \in Holding => r1 = r2
      BY <2>1 DEF MutualExclusion
    <3>2. OwnerOf(pc, k) = r
      BY <2>6, <3>1, OwnerIs
    <3>. QED  BY <3>2 DEF SweepOwner
  <2>7. ASSUME NEW r \in Replicas, NEW k \in SweepKinds, pc'[r][k] \in Holding
        PROVE  OwnerOf(pc', k) = r
    <3>1. \A r1, r2 \in Replicas :
              pc'[r1][k] \in Holding /\ pc'[r2][k] \in Holding => r1 = r2
      BY <2>1 DEF MutualExclusion
    <3>. QED  BY <2>7, <3>1, OwnerIs
  \* The owner leaves the sweep: nobody owns it after the step.
  <2>8. ASSUME NEW r \in Replicas, NEW k \in SweepKinds,
               pc[r][k] \in Holding, pc'[r][k] \notin Holding,
               \A r1 \in Replicas \ {r} : pc'[r1][k] = pc[r1][k]
        PROVE  OwnerOf(pc', k) = NoHolder
    <3>1. \A r1 \in Replicas \ {r} : pc[r1][k] \notin Holding
      BY <2>1, <2>8 DEF MutualExclusion
    <3>2. \A r1 \in Replicas : pc'[r1][k] \notin Holding
      BY <2>8, <3>1
    <3>. QED  BY <3>2, OwnerNone
  <2>9. ASSUME NEW r \in Replicas, NEW k \in SweepKinds, Lock(r, k)
        PROVE  [Sweep!Next]_avars
    <3>1. \A r1 \in Replicas : pc[r1][k] \notin Holding
      BY <2>9, ReplicasAssumption DEF Lock, LockHeld, KeysAgree
    <3>2. SweepOwner[k] = NoHolder
      BY <3>1, OwnerNone DEF SweepOwner
    <3>3. pc' = [pc EXCEPT ![r][k] = "find"]
      BY <2>9 DEF Lock, SetPc
    <3>4. OwnerOf(pc', k) = r
      <4>1. pc'[r][k] \in Holding
        BY <3>3, <2>4 DEF Holding
      <4>. QED  BY <4>1, <2>7
    <3>5. \A k2 \in SweepKinds \ {k} : OwnerOf(pc', k2) = OwnerOf(pc, k2)
      BY <3>3, <2>4
    <3>6. SweepOwner' = [SweepOwner EXCEPT ![k] = r]
      BY <3>4, <3>5 DEF SweepOwner
    <3>7. Sweep!Acquire(r, k)
      BY <2>9, <3>2, <3>6 DEF Lock, Sweep!Acquire
    <3>. QED  BY <3>7 DEF Sweep!Next
  \* The owner applies the side effect to S.
  <2>10. ASSUME NEW r \in Replicas, NEW k \in SweepKinds, NEW S,
                pc[r][k] = "act",
                SweepOwner' = SweepOwner,
                S \subseteq batch[r][k],
                applied' = [applied EXCEPT ![k] = @ \cup S],
                cursor' = cursor
         PROVE  [Sweep!Next]_avars
    <3>1. SweepOwner[k] = r
      BY <2>10, <2>6 DEF Holding
    <3>2. S \subseteq SweepPageRecords(k, cursor[r][k])
      BY <2>10 DEF BatchInv
    <3>3. Sweep!Apply(r, k, S)
      BY <2>10, <3>1, <3>2 DEF Sweep!Apply
    <3>. QED  BY <3>2, <3>3 DEF Sweep!Next
  <2>11. ASSUME NEW r \in Replicas, NEW k \in SweepKinds, Deactivate(r, k)
         PROVE  [Sweep!Next]_avars
    <3>1. PICK c \in batch[r][k] : applied' = [applied EXCEPT ![k] = @ \cup {c}]
      BY <2>11 DEF Deactivate
    <3>2. SweepOwner' = SweepOwner
      BY <2>11, <2>2 DEF Deactivate
    <3>3. pc[r][k] = "act" /\ cursor' = cursor
      BY <2>11 DEF Deactivate
    <3>4. SweepOwner[k] = r
      BY <3>3, <2>6 DEF Holding
    <3>5. {c} \subseteq SweepPageRecords(k, cursor[r][k])
      BY <3>3 DEF BatchInv
    <3>6. Sweep!Apply(r, k, {c})
      BY <3>1, <3>2, <3>3, <3>4, <3>5 DEF Sweep!Apply
    <3>. QED  BY <3>5, <3>6 DEF Sweep!Next
  <2>12. ASSUME NEW r \in Replicas, NEW k \in SweepKinds, DeleteDocument(r, k)
         PROVE  [Sweep!Next]_avars
    <3>1. pc' = [pc EXCEPT ![r][k] = "done"] /\ pc[r][k] = "act"
      BY <2>12 DEF DeleteDocument, SetPc
    <3>2. SweepOwner' = SweepOwner
      <4>1. \A r1 \in Replicas, k1 \in SweepKinds :
                pc'[r1][k1] \in Holding <=> pc[r1][k1] \in Holding
        BY <3>1, <2>5 DEF Holding
      <4>. QED  BY <4>1, <2>2
    <3>3. applied' = [applied EXCEPT ![k] = @ \cup batch[r][k]] /\ cursor' = cursor
      BY <2>12 DEF DeleteDocument
    <3>. QED  BY <3>1, <3>2, <3>3, <2>10
  <2>13. ASSUME NEW r \in Replicas, NEW k \in SweepKinds, DeleteDocumentFail(r, k)
         PROVE  [Sweep!Next]_avars
    <3>1. PICK gone \in SUBSET batch[r][k] :
                 applied' = [applied EXCEPT ![k] = @ \cup gone]
      BY <2>13 DEF DeleteDocumentFail
    <3>2. pc' = [pc EXCEPT ![r][k] = "fail"] /\ pc[r][k] = "act"
      BY <2>13 DEF DeleteDocumentFail, SetPc
    <3>3. SweepOwner' = SweepOwner
      <4>1. \A r1 \in Replicas, k1 \in SweepKinds :
                pc'[r1][k1] \in Holding <=> pc[r1][k1] \in Holding
        BY <3>2, <2>5 DEF Holding
      <4>. QED  BY <4>1, <2>2
    <3>4. cursor' = cursor
      BY <2>13 DEF DeleteDocumentFail
    <3>. QED  BY <3>1, <3>2, <3>3, <3>4, <2>10
  <2>14. ASSUME NEW r \in Replicas, NEW k \in SweepKinds, Unlock(r, k)
         PROVE  [Sweep!Next]_avars
    <3>1. pc[r][k] \in Holding
      BY <2>14 DEF Unlock, Holding
    <3>2. SweepOwner[k] = r
      BY <3>1, <2>6
    <3>3. pc' = [pc EXCEPT ![r][k] = IF pc[r][k] = "done" THEN "wait" ELSE "idle"]
      BY <2>14 DEF Unlock, SetPc
    <3>4. OwnerOf(pc', k) = NoHolder
      <4>1. pc'[r][k] = IF pc[r][k] = "done" THEN "wait" ELSE "idle"
        BY <3>3
      <4>2. pc'[r][k] \notin Holding
        BY <4>1 DEF Holding
      <4>3. \A r1 \in Replicas \ {r} : pc'[r1][k] = pc[r1][k]
        BY <3>3
      <4>. QED  BY <3>1, <4>2, <4>3, <2>8
    <3>5. \A k2 \in SweepKinds \ {k} : OwnerOf(pc', k2) = OwnerOf(pc, k2)
      BY <3>3, <2>4
    <3>6. SweepOwner' = [SweepOwner EXCEPT ![k] = NoHolder]
      BY <3>4, <3>5 DEF SweepOwner
    <3>7. cursor' \in {[cursor EXCEPT ![r][k] = c] :
                         c \in {cursor[r][k], SweepNextCursor(cursor[r][k])}}
      <4>1. CASE pc[r][k] = "done"
        <5>1. cursor' = [cursor EXCEPT ![r][k] = lastProjectID[r][k]]
          BY <2>14, <4>1 DEF Unlock
        <5>. QED  BY <4>1, <5>1 DEF PageInv
      <4>2. CASE pc[r][k] # "done"
        <5>1. cursor' = cursor
          BY <2>14, <4>2 DEF Unlock
        <5>. QED  BY <5>1
      <4>. QED  BY <4>1, <4>2
    <3>8. Sweep!Release(r, k)
      BY <2>14, <3>2, <3>6, <3>7 DEF Unlock, Sweep!Release
    <3>. QED  BY <3>8 DEF Sweep!Next
  <2>15. ASSUME NEW r \in Replicas, Restart(r)
         PROVE  [Sweep!Next]_avars
    <3>1. pc' = [pc EXCEPT ![r] = [k \in SweepKinds |-> "idle"]]
      BY <2>15 DEF Restart
    <3>2. ASSUME NEW k \in SweepKinds
          PROVE  SweepOwner'[k] = IF SweepOwner[k] = r THEN NoHolder ELSE SweepOwner[k]
      <4>0. pc'[r][k] \notin Holding /\ \A r1 \in Replicas \ {r} : pc'[r1][k] = pc[r1][k]
        BY <3>1 DEF Holding
      <4>1. CASE pc[r][k] \in Holding
        <5>1. SweepOwner[k] = r
          BY <4>1, <2>6
        <5>2. OwnerOf(pc', k) = NoHolder
          BY <4>0, <4>1, <2>8
        <5>. QED  BY <5>1, <5>2 DEF SweepOwner
      <4>2. CASE pc[r][k] \notin Holding
        <5>1. \A r1 \in Replicas : pc'[r1][k] \in Holding <=> pc[r1][k] \in Holding
          BY <3>1, <4>2 DEF Holding
        <5>2. OwnerOf(pc', k) = OwnerOf(pc, k)
          BY <5>1, OwnerSame
        <5>3. OwnerOf(pc, k) # r
          BY <4>2, OwnerHolds
        <5>. QED  BY <5>2, <5>3 DEF SweepOwner
      <4>. QED  BY <4>1, <4>2
    <3>3. SweepOwner' = [k \in SweepKinds |->
                           IF SweepOwner[k] = r THEN NoHolder ELSE SweepOwner[k]]
      BY <3>2 DEF SweepOwner
    <3>4. Sweep!Crash(r)
      BY <2>15, <3>3 DEF Restart, Sweep!Crash
    <3>. QED  BY <3>4 DEF Sweep!Next
  <2>16. ASSUME NEW r \in Replicas, NEW k \in SweepKinds,
                \/ LockFail(r, k) \/ FindCandidates(r, k) \/ FindCandidatesFail(r, k)
                \/ DeactivateFail(r, k) \/ DeactivateDone(r, k)
                \/ AfterInterval(r, k) \/ Done(r, k)
         PROVE  [Sweep!Next]_avars
    <3>1. cursor' = cursor /\ applied' = applied
      BY <2>16 DEF LockFail, FindCandidates, FindCandidatesFail, DeactivateFail,
                   DeactivateDone, AfterInterval, Done
    <3>2. \A r1 \in Replicas, k1 \in SweepKinds :
              pc'[r1][k1] \in Holding <=> pc[r1][k1] \in Holding
      <4>1. CASE LockFail(r, k)
        BY <4>1 DEF LockFail
      <4>2. CASE FindCandidates(r, k)
        BY <4>2, <2>5 DEF FindCandidates, SetPc, Holding
      <4>3. CASE FindCandidatesFail(r, k)
        BY <4>3, <2>5 DEF FindCandidatesFail, SetPc, Holding
      <4>4. CASE DeactivateFail(r, k)
        BY <4>4, <2>5 DEF DeactivateFail, SetPc, Holding
      <4>5. CASE DeactivateDone(r, k)
        BY <4>5, <2>5 DEF DeactivateDone, SetPc, Holding
      <4>6. CASE AfterInterval(r, k)
        BY <4>6, <2>5 DEF AfterInterval, SetPc, Holding
      <4>7. CASE Done(r, k)
        BY <4>7, <2>5 DEF Done, SetPc, Holding
      <4>. QED  BY <2>16, <4>1, <4>2, <4>3, <4>4, <4>5, <4>6, <4>7
    <3>. QED  BY <3>1, <3>2, <2>3
  <2>17. ASSUME \/ \E r \in Replicas : Stop(r)
                \/ \E key \in LockKeys : LeaseExpire(key)
                \/ \E c \in Clients : ClientActivity(c) \/ ClientIdle(c)
                \/ Terminated \/ UNCHANGED vars
         PROVE  [Sweep!Next]_avars
    <3>1. UNCHANGED <<pc, cursor, applied>>
      BY <2>17 DEF Stop, LeaseExpire, ClientActivity, ClientIdle, Terminated, vars
    <3>. QED  BY <3>1, <2>3
  <2>. QED
    BY <2>9, <2>11, <2>12, <2>13, <2>14, <2>15, <2>16, <2>17 DEF Next, Loop
<1>. QED  BY <1>1, <1>2, <1>3, PTL DEF Spec, Sweep!Spec

=============================================================================
