----------------------- MODULE HousekeepingCursorProofs -----------------------
(***************************************************************************)
(* Proofs about the loops' cursor: it moves only after the whole batch of  *)
(* the iteration was applied (CursorAfterBatch), and it never points past  *)
(* a project that was not looked up since the cycle began (Coverage).      *)
(***************************************************************************)
EXTENDS HousekeepingRefinementProofs

USE NumTenantsAssumption, PageSizeAssumption, KindsAssumption,
    LimitAssumption, ItemsAssumption, VersionAssumption,
    ReplicasAssumption, BoundsAssumption
USE DEF Kinds, DC, HD, Versions, Tenants, NoHolder, DefaultProjectID, PCs

-----------------------------------------------------------------------------
(* The batch of an iteration.                                              *)

\* While an iteration applies its batch, every candidate it collected and
\* no longer holds in the batch has been applied; when it returns
\* successfully the batch is empty.
AppliedInv ==
    \A r \in Replicas, k \in SweepKinds :
        /\ pc[r][k] \in {"act", "done"} => cands[r][k] \ batch[r][k] \subseteq applied[k]
        /\ pc[r][k] = "done" => batch[r][k] = {}

\* In every reachable state, an iteration between its lookup and its
\* return has applied every candidate it already took out of its batch.
THEOREM AppliedInvariant == Spec => []AppliedInv
<1>1. Init => AppliedInv
  BY DEF Init, AppliedInv
<1>2. TypeOK /\ AppliedInv /\ [Next]_vars => AppliedInv'
  <2> SUFFICES ASSUME TypeOK, AppliedInv, [Next]_vars,
                      NEW r2 \in Replicas, NEW k2 \in SweepKinds
               PROVE  /\ pc'[r2][k2] \in {"act", "done"} =>
                            cands'[r2][k2] \ batch'[r2][k2] \subseteq applied'[k2]
                      /\ pc'[r2][k2] = "done" => batch'[r2][k2] = {}
    BY DEF AppliedInv
  <2> USE DEF TypeOK
  <2> DEFINE Goal == /\ pc'[r2][k2] \in {"act", "done"} =>
                          cands'[r2][k2] \ batch'[r2][k2] \subseteq applied'[k2]
                     /\ pc'[r2][k2] = "done" => batch'[r2][k2] = {}
  \* The loop (r2, k2) is left alone and applied only grows.
  <2>1. ASSUME pc'[r2][k2] = pc[r2][k2], cands'[r2][k2] = cands[r2][k2],
               batch'[r2][k2] = batch[r2][k2], applied[k2] \subseteq applied'[k2]
        PROVE  Goal
    BY <2>1 DEF AppliedInv
  \* The loop (r2, k2) leaves "act" and "done".
  <2>2. ASSUME pc'[r2][k2] \notin {"act", "done"}
        PROVE  Goal
    BY <2>2
  <2>3. ASSUME NEW r \in Replicas, NEW k \in SweepKinds, FindCandidates(r, k)
        PROVE  Goal
    <3>1. CASE <<r2, k2>> = <<r, k>>
      BY <2>3, <3>1 DEF FindCandidates, SetPc
    <3>2. CASE <<r2, k2>> # <<r, k>>
      BY <2>3, <3>2, <2>1 DEF FindCandidates, SetPc
    <3>. QED  BY <3>1, <3>2
  <2>4. ASSUME NEW r \in Replicas, NEW k \in SweepKinds, Deactivate(r, k)
        PROVE  Goal
    <3>1. PICK c \in batch[r][k] :
                 /\ applied' = [applied EXCEPT ![k] = @ \cup {c}]
                 /\ batch' = [batch EXCEPT ![r][k] = @ \ {c}]
      BY <2>4 DEF Deactivate
    <3>2. applied[k2] \subseteq applied'[k2]
      BY <3>1
    <3>3. CASE <<r2, k2>> = <<r, k>>
      BY <2>4, <3>1, <3>3 DEF Deactivate, AppliedInv
    <3>4. CASE <<r2, k2>> # <<r, k>>
      BY <2>4, <3>1, <3>2, <3>4, <2>1 DEF Deactivate
    <3>. QED  BY <3>3, <3>4
  <2>5. ASSUME NEW r \in Replicas, NEW k \in SweepKinds, DeactivateDone(r, k)
        PROVE  Goal
    BY <2>5, <2>1 DEF DeactivateDone, SetPc, AppliedInv
  <2>6. ASSUME NEW r \in Replicas, NEW k \in SweepKinds, DeleteDocument(r, k)
        PROVE  Goal
    <3>1. applied[k2] \subseteq applied'[k2]
      BY <2>6 DEF DeleteDocument
    <3>2. CASE <<r2, k2>> = <<r, k>>
      <4>1. cands[r][k] \ batch[r][k] \subseteq applied[k]
        BY <2>6 DEF DeleteDocument, AppliedInv
      <4>2. /\ applied'[k] = applied[k] \cup batch[r][k]
            /\ batch'[r][k] = {} /\ cands'[r][k] = cands[r][k]
        BY <2>6 DEF DeleteDocument
      <4>3. pc'[r][k] = "done"
        BY <2>6 DEF DeleteDocument, SetPc
      <4>. QED  BY <3>2, <4>1, <4>2, <4>3
    <3>3. CASE <<r2, k2>> # <<r, k>>
      BY <2>6, <3>1, <3>3, <2>1 DEF DeleteDocument, SetPc
    <3>. QED  BY <3>2, <3>3
  <2>7. ASSUME NEW r \in Replicas, NEW k \in SweepKinds, DeleteDocumentFail(r, k)
        PROVE  Goal
    <3>1. PICK gone \in SUBSET batch[r][k] :
                 applied' = [applied EXCEPT ![k] = @ \cup gone]
      BY <2>7 DEF DeleteDocumentFail
    <3>2. applied[k2] \subseteq applied'[k2]
      BY <3>1
    <3>3. CASE <<r2, k2>> = <<r, k>>
      BY <2>7, <3>3, <2>2 DEF DeleteDocumentFail, SetPc
    <3>4. CASE <<r2, k2>> # <<r, k>>
      BY <2>7, <3>2, <3>4, <2>1 DEF DeleteDocumentFail, SetPc
    <3>. QED  BY <3>3, <3>4
  <2>8. ASSUME NEW r \in Replicas, NEW k \in SweepKinds,
               \/ Lock(r, k) \/ LockFail(r, k) \/ FindCandidatesFail(r, k)
               \/ DeactivateFail(r, k) \/ Unlock(r, k) \/ AfterInterval(r, k)
               \/ Done(r, k)
        PROVE  Goal
    <3>1. CASE <<r2, k2>> = <<r, k>>
      BY <2>8, <3>1, <2>1, <2>2
         DEF Lock, LockFail, FindCandidatesFail, DeactivateFail, Unlock, AfterInterval,
             Done, SetPc
    <3>2. CASE <<r2, k2>> # <<r, k>>
      <4> DEFINE Same == /\ pc'[r2][k2] = pc[r2][k2]
                         /\ cands' = cands /\ batch' = batch /\ applied' = applied
      <4>1. Lock(r, k) => Same
        BY <3>2 DEF Lock, SetPc, Same
      <4>2. LockFail(r, k) => Same
        BY <3>2 DEF LockFail, SetPc, Same
      <4>3. FindCandidatesFail(r, k) => Same
        BY <3>2 DEF FindCandidatesFail, SetPc, Same
      <4>4. DeactivateFail(r, k) => Same
        BY <3>2 DEF DeactivateFail, SetPc, Same
      <4>5. Unlock(r, k) => Same
        BY <3>2 DEF Unlock, SetPc, Same
      <4>6. AfterInterval(r, k) => Same
        BY <3>2 DEF AfterInterval, SetPc, Same
      <4>7. Done(r, k) => Same
        BY <3>2 DEF Done, SetPc, Same
      <4>8. Same
        BY <2>8, <4>1, <4>2, <4>3, <4>4, <4>5, <4>6, <4>7
      <4>. QED  BY <4>8, <2>1 DEF Same
    <3>. QED  BY <3>1, <3>2
  <2>9. ASSUME NEW r \in Replicas, Restart(r)
        PROVE  Goal
    <3>1. CASE r2 = r
      BY <2>9, <3>1, <2>2 DEF Restart
    <3>2. CASE r2 # r
      BY <2>9, <3>2, <2>1 DEF Restart
    <3>. QED  BY <3>1, <3>2
  <2>10. ASSUME \/ \E r \in Replicas : Stop(r)
                \/ \E key \in LockKeys : LeaseExpire(key)
                \/ \E c \in Clients : ClientActivity(c) \/ ClientIdle(c)
                \/ Terminated \/ UNCHANGED vars
         PROVE  Goal
    BY <2>10, <2>1 DEF Stop, LeaseExpire, ClientActivity, ClientIdle, Terminated, vars
  <2>. QED
    BY <2>3, <2>4, <2>5, <2>6, <2>7, <2>8, <2>9, <2>10 DEF Next, Loop
<1>. QED  BY <1>1, <1>2, TypeCorrect, PTL DEF Spec

\* CursorAfterBatch: a loop adopts a new cursor (other than by a crash)
\* only once every candidate its iteration collected has been applied, so
\* an error in the middle of the batch never moves the cursor past the
\* unprocessed candidates.
THEOREM CursorAfterBatchSafe == Spec => CursorAfterBatch
<1> DEFINE A == \A r \in Replicas, k \in SweepKinds :
                   (cursor'[r][k] # cursor[r][k] /\ crashes' = crashes)
                      => cands[r][k] \subseteq applied'[k]
<1>1. TypeOK /\ AppliedInv /\ [Next]_vars => [A]_vars
  <2> SUFFICES ASSUME TypeOK, AppliedInv, [Next]_vars,
                      NEW r2 \in Replicas, NEW k2 \in SweepKinds,
                      cursor'[r2][k2] # cursor[r2][k2], crashes' = crashes
               PROVE  cands[r2][k2] \subseteq applied'[k2]
    BY DEF vars
  <2> USE DEF TypeOK
  \* Only the loop's own successful Unlock moves its cursor.
  <2>1. ASSUME NEW r \in Replicas, NEW k \in SweepKinds, Unlock(r, k)
        PROVE  cands[r2][k2] \subseteq applied'[k2]
    <3>1. <<r2, k2>> = <<r, k>> /\ pc[r][k] = "done"
      BY <2>1 DEF Unlock, SetPc
    <3>. QED  BY <2>1, <3>1 DEF Unlock, AppliedInv
  <2>2. ASSUME NEW r \in Replicas, Restart(r)
        PROVE  FALSE
    BY <2>2 DEF Restart
  <2>3. ASSUME NEW r \in Replicas, NEW k \in SweepKinds,
               \/ Lock(r, k) \/ LockFail(r, k) \/ FindCandidates(r, k)
               \/ FindCandidatesFail(r, k) \/ Deactivate(r, k) \/ DeactivateFail(r, k)
               \/ DeactivateDone(r, k) \/ DeleteDocument(r, k) \/ DeleteDocumentFail(r, k)
               \/ AfterInterval(r, k) \/ Done(r, k)
        PROVE  FALSE
    BY <2>3 DEF Lock, LockFail, FindCandidates, FindCandidatesFail, Deactivate,
                DeactivateFail, DeactivateDone, DeleteDocument, DeleteDocumentFail,
                AfterInterval, Done
  <2>4. ASSUME \/ \E r \in Replicas : Stop(r)
               \/ \E key \in LockKeys : LeaseExpire(key)
               \/ \E c \in Clients : ClientActivity(c) \/ ClientIdle(c)
               \/ Terminated \/ UNCHANGED vars
        PROVE  FALSE
    BY <2>4 DEF Stop, LeaseExpire, ClientActivity, ClientIdle, Terminated, vars
  <2>. QED
    BY <2>1, <2>2, <2>3, <2>4 DEF Next, Loop
<1>. QED  BY <1>1, AppliedInvariant, TypeCorrect, PTL DEF CursorAfterBatch, Spec

-----------------------------------------------------------------------------
(* The page arithmetic of the listing.                                     *)

\* If the page after cursor c ends in a project t (a full page), every
\* project up to t is on the page or was covered before c.
LEMMA CoverStep ==
    ASSUME NEW c \in 0..NumTenants, NEW Before,
           c # DefaultProjectID => 1..c \subseteq Before,
           TopProjectID(FindNextNCyclingProjectInfos(c)) # DefaultProjectID
    PROVE  1..TopProjectID(FindNextNCyclingProjectInfos(c))
              \subseteq Before \cup Range(FindNextNCyclingProjectInfos(c))
<1> DEFINE g == MinOf(PageSize, NumTenants - c)
           gt == [i \in 1..g |-> c + i]
           w == IF StoreWraps THEN MinOf(PageSize - g, c) ELSE 0
           wrap == [i \in 1..w |-> i]
           ps == FindNextNCyclingProjectInfos(c)
<1>1. g \in 0..PageSize /\ w \in 0..PageSize - g /\ w <= c
  BY DEF MinOf
<1>2. gt \in Seq(Tenants) /\ Len(gt) = g
  <2>1. gt \in [1..g -> Tenants]
    BY <1>1 DEF MinOf
  <2>2. gt \in Seq(Tenants)
    BY <1>1, <2>1, FunIsSeq
  <2>3. DOMAIN gt = 1..Len(gt) /\ Len(gt) \in Nat
    BY <2>2, LenProperties
  <2>. QED  BY <1>1, <2>2, <2>3
<1>3. wrap \in Seq(Tenants) /\ Len(wrap) = w
  <2>1. wrap \in [1..w -> Tenants]
    BY <1>1
  <2>2. wrap \in Seq(Tenants)
    BY <1>1, <2>1, FunIsSeq
  <2>3. DOMAIN wrap = 1..Len(wrap) /\ Len(wrap) \in Nat
    BY <2>2, LenProperties
  <2>. QED  BY <1>1, <2>2, <2>3
<1>4. ps = gt \o wrap
  <2>1. CASE StoreWraps
    BY <1>2, <2>1 DEF FindNextNCyclingProjectInfos
  <2>2. CASE ~StoreWraps
    <3>1. wrap = << >>
      BY <2>2
    <3>. QED  BY <1>2, <2>2, <3>1 DEF FindNextNCyclingProjectInfos
  <2>. QED  BY <2>1, <2>2
<1>5. /\ ps \in Seq(Tenants)
      /\ Len(ps) = g + w
      /\ \A i \in 1..g + w : ps[i] = IF i <= g THEN c + i ELSE i - g
  <2> HIDE DEF gt, wrap
  <2>0. /\ gt \o wrap \in Seq(Tenants)
        /\ Len(gt \o wrap) = Len(gt) + Len(wrap)
        /\ \A i \in 1..Len(gt) + Len(wrap) :
              (gt \o wrap)[i] = IF i <= Len(gt) THEN gt[i] ELSE wrap[i - Len(gt)]
    <3>1. \A s1, s2 \in Seq(Tenants) :
              /\ s1 \o s2 \in Seq(Tenants)
              /\ Len(s1 \o s2) = Len(s1) + Len(s2)
              /\ \A i \in 1..Len(s1) + Len(s2) :
                    (s1 \o s2)[i] = IF i <= Len(s1) THEN s1[i] ELSE s2[i - Len(s1)]
      BY ConcatProperties
    <3>. QED  BY <1>2, <1>3, <3>1
  <2>1. /\ gt \o wrap \in Seq(Tenants)
        /\ Len(gt \o wrap) = g + w
        /\ \A i \in 1..g + w :
              (gt \o wrap)[i] = IF i <= g THEN gt[i] ELSE wrap[i - g]
    BY <1>2, <1>3, <2>0
  <2> USE DEF gt, wrap
  <2>2. ASSUME NEW i \in 1..g + w
        PROVE  (IF i <= g THEN gt[i] ELSE wrap[i - g]) = IF i <= g THEN c + i ELSE i - g
    BY <1>1
  <2>. QED  BY <1>4, <2>1, <2>2
<1>6. Range(ps) = {ps[i] : i \in 1..g + w}
  <2>1. DOMAIN ps = 1..g + w
    BY <1>5, LenProperties
  <2>. QED  BY <2>1 DEF Range
<1>7. g + w = PageSize /\ TopProjectID(ps) = ps[g + w]
  BY <1>1, <1>5 DEF TopProjectID, DefaultProjectID
<1>8. CASE w = 0
  <2>1. TopProjectID(ps) = c + g
    BY <1>1, <1>5, <1>7, <1>8
  <2>2. \A x \in c + 1..c + g : x \in Range(ps)
    <3> SUFFICES ASSUME NEW x \in c + 1..c + g PROVE x \in Range(ps)
      OBVIOUS
    <3>1. x - c \in 1..g + w /\ ps[x - c] = x
      BY <1>1, <1>5
    <3>. QED  BY <1>6, <3>1
  <2>3. \A x \in 1..c : x \in Before
    BY DEF DefaultProjectID
  <2>. QED  BY <1>1, <2>1, <2>2, <2>3
<1>9. CASE w # 0
  <2>1. TopProjectID(ps) = w
    BY <1>1, <1>5, <1>7, <1>9
  <2>2. \A x \in 1..w : x \in Range(ps)
    <3> SUFFICES ASSUME NEW x \in 1..w PROVE x \in Range(ps)
      OBVIOUS
    <3>1. g + x \in 1..g + w
      BY <1>1
    <3>2. ps[g + x] = x
      <4>1. ~(g + x <= g)
        BY <1>1
      <4>2. ps[g + x] = IF g + x <= g THEN c + (g + x) ELSE (g + x) - g
        BY <3>1, <1>5
      <4>. QED  BY <4>1, <4>2, <1>1
    <3>. QED  BY <1>6, <3>1, <3>2
  <2>. QED  BY <2>1, <2>2
<1>. QED  BY <1>8, <1>9

-----------------------------------------------------------------------------
(* Coverage.                                                               *)

\* An iteration that has looked up its candidates looked up exactly the
\* projects of the page listed after its cursor.
LookedInv ==
    \A r \in Replicas, k \in SweepKinds :
        pc[r][k] \in {"act", "done"} =>
            looked[r][k] = Range(FindNextNCyclingProjectInfos(cursor[r][k]))

\* Coverage: with no replica on the legacy copy, a loop's cursor never
\* points past a project whose candidates were not looked up since the
\* cursor last left the sentinel, whatever errors, crashes and other
\* replicas do: the page arithmetic of Find*Candidates and the adoption of
\* the returned cursor only after a successful iteration never skip a
\* project.
THEOREM CoverageInvariant == NoLegacy => (Spec => []Coverage)
<1> SUFFICES ASSUME NoLegacy PROVE Spec => []Coverage
  OBVIOUS
<1>1. Spec => [](TypeOK /\ PageInv)
  BY TypeCorrect, PageInvariant, PTL
<1>2. Init => Coverage /\ LookedInv
  BY DEF Init, Coverage, LookedInv
<1>3. TypeOK /\ PageInv /\ Coverage /\ LookedInv /\ [Next]_vars
        => Coverage' /\ LookedInv'
  <2> SUFFICES ASSUME TypeOK, PageInv, Coverage, LookedInv, [Next]_vars,
                      NEW r2 \in Replicas, NEW k2 \in SweepKinds
               PROVE  /\ cursor'[r2][k2] # DefaultProjectID =>
                            1..cursor'[r2][k2] \subseteq seen'[r2][k2]
                      /\ pc'[r2][k2] \in {"act", "done"} =>
                            looked'[r2][k2] =
                               Range(FindNextNCyclingProjectInfos(cursor'[r2][k2]))
    BY DEF Coverage, LookedInv
  <2> USE DEF TypeOK
  <2> DEFINE Goal == /\ cursor'[r2][k2] # DefaultProjectID =>
                          1..cursor'[r2][k2] \subseteq seen'[r2][k2]
                     /\ pc'[r2][k2] \in {"act", "done"} =>
                          looked'[r2][k2] =
                             Range(FindNextNCyclingProjectInfos(cursor'[r2][k2]))
  \* The cursor, the covered projects and the lookups of (r2, k2) stay,
  \* and (r2, k2) enters "act" or "done" only from one of them.
  <2>1. ASSUME cursor'[r2][k2] = cursor[r2][k2], seen'[r2][k2] = seen[r2][k2],
               looked'[r2][k2] = looked[r2][k2],
               pc'[r2][k2] \in {"act", "done"} => pc[r2][k2] \in {"act", "done"}
        PROVE  Goal
    BY <2>1 DEF Coverage, LookedInv
  \* The loop (r2, k2) starts over from the sentinel.
  <2>2. ASSUME cursor'[r2][k2] = DefaultProjectID, pc'[r2][k2] \notin {"act", "done"}
        PROVE  Goal
    BY <2>2
  <2>3. ASSUME NEW r \in Replicas, NEW k \in SweepKinds, FindCandidates(r, k)
        PROVE  Goal
    <3>1. CASE <<r2, k2>> = <<r, k>>
      <4> DEFINE ps == FindNextNCyclingProjectInfos(cursor[r][k])
      <4>1. looked'[r][k] = {ps[i] : i \in 1..Len(ps)}
        BY <2>3 DEF FindCandidates
      <4>0. ps \in Seq(Tenants)
        BY ListingType DEF TypeOK
      <4>2. Range(ps) = {ps[i] : i \in 1..Len(ps)}
        <5>1. DOMAIN ps = 1..Len(ps)
          BY <4>0
        <5>. QED  BY <5>1 DEF Range
      <4>3. cursor' = cursor /\ seen' = seen
        BY <2>3 DEF FindCandidates
      <4>. QED  BY <3>1, <4>1, <4>2, <4>3 DEF Coverage
    <3>2. CASE <<r2, k2>> # <<r, k>>
      BY <2>3, <3>2, <2>1 DEF FindCandidates, SetPc
    <3>. QED  BY <3>1, <3>2
  <2>4. ASSUME NEW r \in Replicas, NEW k \in SweepKinds, Unlock(r, k)
        PROVE  Goal
    <3>1. CASE <<r2, k2>> = <<r, k>> /\ pc[r][k] = "done"
      <4> DEFINE c == cursor[r][k]
                 ps == FindNextNCyclingProjectInfos(c)
                 nxt == lastProjectID[r][k]
      <4>0. c \in 0..NumTenants
        BY DEF TypeOK
      <4>1. nxt = TopProjectID(ps)
        BY <3>1 DEF PageInv, SweepNextCursor, c, ps, nxt
      <4>2. /\ cursor' = [cursor EXCEPT ![r][k] = nxt]
            /\ seen' = [seen EXCEPT ![r][k] =
                          IF nxt = DefaultProjectID THEN {} ELSE @ \cup looked[r][k]]
            /\ pc' = [pc EXCEPT ![r][k] = "wait"]
        BY <2>4, <3>1 DEF Unlock, SetPc, nxt
      <4>5. /\ cursor'[r][k] = nxt
            /\ seen'[r][k] = IF nxt = DefaultProjectID THEN {}
                             ELSE seen[r][k] \cup looked[r][k]
            /\ pc'[r][k] = "wait"
        BY <4>2
      <4>3. looked[r][k] = Range(ps)
        BY <3>1 DEF LookedInv
      <4>4. nxt # DefaultProjectID => 1..nxt \subseteq seen[r][k] \cup Range(ps)
        <5>1. c # DefaultProjectID => 1..c \subseteq seen[r][k]
          BY DEF Coverage
        <5>. QED  BY <4>0, <4>1, <5>1, CoverStep DEF ps
      <4>. QED  BY <3>1, <4>5, <4>3, <4>4
    <3>2. CASE <<r2, k2>> = <<r, k>> /\ pc[r][k] # "done"
      BY <2>4, <3>2, <2>1 DEF Unlock, SetPc
    <3>3. CASE <<r2, k2>> # <<r, k>>
      BY <2>4, <3>3, <2>1 DEF Unlock, SetPc
    <3>. QED  BY <3>1, <3>2, <3>3
  <2>5. ASSUME NEW r \in Replicas, Restart(r)
        PROVE  Goal
    <3>1. CASE r2 = r
      BY <2>5, <3>1, <2>2 DEF Restart
    <3>2. CASE r2 # r
      BY <2>5, <3>2, <2>1 DEF Restart
    <3>. QED  BY <3>1, <3>2
  <2>6. ASSUME NEW r \in Replicas, NEW k \in SweepKinds,
               \/ Lock(r, k) \/ LockFail(r, k) \/ FindCandidatesFail(r, k)
               \/ Deactivate(r, k) \/ DeactivateFail(r, k) \/ DeactivateDone(r, k)
               \/ DeleteDocument(r, k) \/ DeleteDocumentFail(r, k)
               \/ AfterInterval(r, k) \/ Done(r, k)
        PROVE  Goal
    <3> DEFINE Keeps == /\ cursor' = cursor /\ seen' = seen /\ looked' = looked
                        /\ pc'[r2][k2] \in {"act", "done"} =>
                              pc[r2][k2] \in {"act", "done"}
    <3>1. Lock(r, k) => Keeps
      BY DEF Lock, SetPc, Keeps
    <3>2. LockFail(r, k) => Keeps
      BY DEF LockFail, Keeps
    <3>3. FindCandidatesFail(r, k) => Keeps
      BY DEF FindCandidatesFail, SetPc, Keeps
    <3>4. Deactivate(r, k) => Keeps
      BY DEF Deactivate, Keeps
    <3>5. DeactivateFail(r, k) => Keeps
      BY DEF DeactivateFail, SetPc, Keeps
    <3>6. DeactivateDone(r, k) => Keeps
      BY DEF DeactivateDone, SetPc, Keeps
    <3>7. DeleteDocument(r, k) => Keeps
      BY DEF DeleteDocument, SetPc, Keeps
    <3>8. DeleteDocumentFail(r, k) => Keeps
      BY DEF DeleteDocumentFail, SetPc, Keeps
    <3>9. AfterInterval(r, k) => Keeps
      BY DEF AfterInterval, SetPc, Keeps
    <3>10. Done(r, k) => Keeps
      BY DEF Done, SetPc, Keeps
    <3>. QED  BY <2>6, <3>1, <3>2, <3>3, <3>4, <3>5, <3>6, <3>7, <3>8, <3>9, <3>10,
                 <2>1 DEF Keeps
  <2>7. ASSUME \/ \E r \in Replicas : Stop(r)
               \/ \E key \in LockKeys : LeaseExpire(key)
               \/ \E c \in Clients : ClientActivity(c) \/ ClientIdle(c)
               \/ Terminated \/ UNCHANGED vars
        PROVE  Goal
    BY <2>7, <2>1 DEF Stop, LeaseExpire, ClientActivity, ClientIdle, Terminated, vars
  <2>. QED
    BY <2>3, <2>4, <2>5, <2>6, <2>7 DEF Next, Loop
<1>. QED  BY <1>1, <1>2, <1>3, PTL DEF Spec

=============================================================================
