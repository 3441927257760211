# Housekeeping of the Yorkie server: TLA+ models, runs and proofs

This directory holds the verification project for the housekeeping
service in `src/server/backend/housekeeping/housekeeping.go`. That file
holds two copies of the sweep code: the `housekeeping` package (lines
1-347) and the `clients` package (lines 348-567). A third, older copy is
`src/unnamed/part_000`.

## 1. Inventory

### Components

| Component | Source | State it keeps | Operations |
|---|---|---|---|
| Scheduler loop, one per sweep kind (`AttachDeactivateCandidates`, `AttachDocumentHardDeletion`) | housekeeping.go:128-170 | `housekeepingLastProjectID`, the in-memory cursor | call the executor; on error `continue` at once; on success adopt the cursor, then `select` on `time.After(interval)` or `h.ctx.Done()` |
| Sweep executor (`deactivateCandidates`, `DeleteDocument`; `clients.DeactivateInactives`, `clients.DeleteDocuments`) | housekeeping.go:172-277, 382-528 | only locals: the locker, the page, the candidates | `NewLocker`, `Lock`, deferred `Unlock`; find candidates; deactivate each client (abort on the first error) or hard-delete the batch in one call; return the next cursor |
| Candidate finder (`FindDeactivateCandidates`, `FindDocumentHardDeletionCandidates`, both copies) | housekeeping.go:279-347, 440-471, 530-567 | none | list `projectFetchSize` projects after the cursor; look up at most the per-project limit of candidates in each; next cursor = `DefaultProjectID` if the page is short, else the last project |
| Service lifecycle (`New`, `Start`, `Stop`) | housekeeping.go:57-126 | `ctx`, `cancelFunc`, the parsed durations and limits | start both loops as goroutines; `Stop` cancels the context |
| Lock coordinator (`sync.Coordinator`, `Locker`) | external | who holds which key | blocking `Lock`; `Unlock`, whose failure is only logged; lease expiry |
| Database | external | projects, clients, documents | `FindNextNCyclingProjectInfos`, `Find*CandidatesPerProject`, `clients.Deactivate`, `DeleteDocument(s)` |
| Legacy copy | `src/unnamed/part_000` | as above | same loops; its hard deletion takes the next cursor from `database.HardDeletion` and locks `housekeeping/hardDeletionLock` |
| `primitive_test.go` | src/pkg/document/crdt | none | a unit test of CRDT value marshalling, unrelated to housekeeping |

### How they interact

Every server replica runs both loops as goroutines. Replicas share one
database and one coordinator. No state is shared between the two loops
of a replica, or between replicas, except through the coordinator's keys
and the database. The cursor is not persisted. A loop only sees
cancellation at its `select`.

### What is hard

- **Interleaving across replicas.** Exclusivity depends only on the
  coordinator key. All copies use the same key for deactivation, but the
  hard-deletion keys differ: `DocumentHardDeletionLock` in the
  `housekeeping` package, `documentHardDeletionLock` in the `clients`
  package, `hardDeletionLock` in the legacy copy.
- **Partial failure.** A batch stops at the first failing deactivation.
  Earlier candidates stay deactivated, and the cursor must not advance.
  A failing batch delete may already have removed part of the batch.
- **Retry without backoff.** After an error the loop starts the next
  iteration at once. A persistent error therefore never reaches the
  `select`, so `Stop` is never observed.
- **Crash and lease.** A replica can die between `Lock` and `Unlock`,
  or `Unlock` can fail. Either way the key stays held until the lease
  expires. The cursor resets on restart.
- **Cursor arithmetic.** End of cycle is detected by
  `len(projects) < projectFetchSize`, and per-project limits push part of
  a large project into later cycles. Fairness over projects depends on
  both being right.

### Properties that make it correct

- Per sweep kind, at most one replica is between `Lock` and the deferred
  `Unlock` (`MutualExclusion`). The coordinator's holder agrees with the
  loops (`LockHeld`).
- When the cursor is past project t, every project up to t has been swept
  since the cursor left the sentinel (`Coverage`).
- The cursor moves only after every candidate of the iteration was
  applied (`CursorAfterBatch`).
- Every candidate is eventually deactivated or deleted
  (`EventuallyApplied`).
- After `Stop`, every loop of the replica eventually returns
  (`StopTerminates`).

## 2. Modules

### `Housekeeping.tla`: the core

This module models the replicas, both loops of each replica, the
coordinator and the database.

- **Constants.**
  - `Replicas`.
  - `NumTenants`: projects are `1..NumTenants`.
  - `PageSize` (`projectFetchSize`).
  - `CandidateLimit` for each kind.
  - `SweepKinds`: the loops that run.
  - `Clients`, `Docs` and their projects.
  - `Version`: the copy of the code each replica runs: `"server"`,
    `"clients"` or `"legacy"` (`part_000`). The version picks the
    hard-deletion lock key (`HardDeletionKey`) and, for `"legacy"`, where
    the next hard-deletion cursor comes from (`HardDeletionResult`).
  - `StoreWraps`: whether the listing wraps past the last project.
  - `PersistentFailure`, `MaxFailures`, `MaxCrashes`.
  - `MaxActivity`: how many times a client may become active again.
- **State.**
  - Per replica and kind: `pc` (position in the loop), `cursor`
    (`housekeepingLastProjectID`), `projects` (the listed page), `looked`
    (the projects looked up), `cands` and `batch` (the candidates, and
    those not yet applied), `seen` (projects swept since the cursor left
    `DefaultProjectID`), `lastProjectID` (the cursor the running
    iteration will return).
  - Shared: `holder` (the coordinator's keys), `applied` (records
    deactivated or hard-deleted in the store).
  - Per replica: `stopReq` (the context was cancelled).
  - Clients: `active` (clients whose last activity is recent, so the
    store does not list them as deactivation candidates).
  - Counters: `failures`, `crashes`, `activity`.
- **Actions and the code they model.**
  - `Lock` / `LockFail`: `NewLocker` and `Lock`, or their error.
  - `FindCandidates` / `FindCandidatesFail`: the whole `Find*Candidates`.
  - `Deactivate` / `DeactivateFail` / `DeactivateDone`: the turns of the
    range loop.
  - `DeleteDocument` / `DeleteDocumentFail`. For a `"legacy"` replica,
    `DeleteDocument` also replaces the iteration's result by the project
    ID `database.HardDeletion` returns (part_000:181). That function is
    not in the repository, so the result is any project ID or the
    sentinel.
  - `Unlock`: the deferred `locker.Unlock` (`DeferredUnlock`), then the
    loop's `continue` or cursor assignment.
  - `AfterInterval` and `Done`: the two cases of the `select`.
  - `Stop`.
  - `Restart`: a crash, then `Start` again.
  - `LeaseExpire`: the coordinator frees a key whose owner has left it.
  - `ClientActivity` / `ClientIdle` (marked `spec_modelled`): a request
    of a client that is not deactivated refreshes its last activity, and
    later the threshold elapses again. Requests are served by any replica
    and do not take the housekeeping lock.
- **Where the map points for the two copies.** The map sends some actions
  to the `housekeeping` copy and some to the `clients` copy. Their control
  flow is identical, and the model covers both.
- **The store (marked `spec_modelled`).** The page listing follows the
  spec: projects with IDs greater than the cursor, followed by the first
  projects when the store wraps. A per-project lookup returns the
  `CandidateLimit` smallest eligible IDs. Eligibility abstracts the
  last-activity and grace-period timestamps.
- **`AfterInterval`.** It is enabled only while the context is live. The
  timer is created when the `select` is entered, so once `h.ctx` is
  cancelled, `Done` is the case that is ready first.
- **Fairness.**
  - Weak fairness for each loop's steps: the goroutines are scheduled.
  - Strong fairness for `Lock`: the coordinator serves waiters in order,
    and the key is free only intermittently.
  - Weak fairness for `LeaseExpire`.
  - Weak fairness for `ClientIdle`: time passes, so an active client
    that sends nothing more becomes eligible again.
  - Errors, `Stop` and `Restart` are not fair. Errors are finitely many
    (`MaxFailures`) unless `PersistentFailure` holds.

### `HousekeepingSweep.tla`: what a sweep kind promises

The abstract specification collapses one iteration. Its state is
`owner` (per kind), `cursor` (per replica and kind) and `applied`. Its
actions:

- `Acquire(r, k)`: a free kind gets owner `r`.
- `Apply(r, k, S)`: the owner applies the side effect to records `S` of
  the page after its own cursor (`PageRecords`).
- `Release(r, k)`: the owner gives the kind up. Its cursor either stays
  or moves to `NextCursor`, the cursor after exactly one page.
- `Crash(r)`: `r`'s cursors go back to the sentinel and what it owned
  is free.

The page and the next cursor are constant operators, so the abstract
module does not depend on the store.

`Housekeeping` instantiates it as `Sweep` with this refinement mapping:

- `owner` is `SweepOwner`: the replica whose `pc` is in `Holding` for the
  kind (between `Lock` and the deferred `Unlock`), or `NoHolder`.
- `cursor` and `applied` map to themselves.
- `PageRecords(k, c)` is the records of kind `k` in the projects that
  `FindNextNCyclingProjectInfos(c)` lists.
- `NextCursor(c)` is `TopProjectID` of that page.

`Lock` maps to `Acquire`. `Deactivate`, `DeleteDocument` and
`DeleteDocumentFail` map to `Apply`. `Unlock` maps to `Release` and
`Restart` to `Crash`. Every other step is a stutter.

The property `SweepRefinement == Sweep!Spec` holds only if three things
are true:

- the lock excludes;
- nothing is applied outside the page just listed;
- the cursor never moves by anything but the page's own next cursor.

### `MC_Housekeeping.tla` and the runs

The model values are two replicas, `r1` and `r2`, and three projects
with pages of 2 and a limit of 1. Project 3 holds two clients and both
documents, so it needs two visits, and it is only reached once the
cursor has gone past the first page. Project 1 has one client and
project 2 has none. Both sweep kinds do not fit in one run, so each kind
runs on its own. The kinds share nothing except `Stop` and `Restart`.

| Run | Config | Expect | What it shows |
|---|---|---|---|
| `deactivate_sweep` | `MC_Housekeeping_DC.cfg` | pass, 34k states | Non-wrapping store, 2 transient errors, 1 crash. All seven properties hold, and so does `SweepRefinement`. |
| `hard_delete_sweep` | `MC_Housekeeping_HD.cfg` | pass, 65k states | Wrapping store and partial batch deletes. Exclusivity, coverage, cursor-after-batch, eventual deletion and `SweepRefinement` hold. |
| `deactivate_sweep_with_activity` | `MC_Housekeeping_DCActivity.cfg` | pass, 71k states | One client becomes active and idle again during the sweep, and the store fails once. `CursorAfterBatch` and `EventuallyApplied` still hold. |
| `deactivate_under_client_activity` | `MC_Housekeeping_Activity.cfg` | violation | `DeactivatesIdleOnly` fails. r1 locks and lists client c as a candidate. c then sends a request, and r1 deactivates it anyway. |
| `legacy_hard_deletion_cursor` | `MC_Housekeeping_Legacy.cfg` | violation | `Coverage` fails. A legacy replica lists page {1, 2} and deletes, and `HardDeletion` returns 3. Its cursor then claims project 3 was covered when it was never looked up. |
| `mixed_version_lock` | `MC_Housekeeping_Mixed.cfg` | violation | r1 runs the `housekeeping` package and r2 the `clients` package. Both hold their own hard-deletion key and are inside the sweep together, two steps from the start. |
| `stop_under_persistent_failure` | `MC_Housekeeping_Retry.cfg` | violation | A `Lock` error that never clears keeps a stopped replica's loop alive forever. |

Every property of the passing runs has a mutant that TLC kills. Each
mutant is a plausible bug in the code:

- `Unlock` called right after `Lock` instead of deferred;
- a lease that expires during the sweep;
- a lookup loop that skips the last project;
- the cursor assigned before the error check;
- `<=` instead of `<` at the end-of-cycle test;
- `break` instead of `return` in the `Done` case;
- a page that is one project too long;
- every copy taking the next cursor from `HardDeletion`, as the legacy
  copy does. This one breaks `SweepRefinement` in the hard-deletion run.

For `SweepRefinement` in the deactivation run, the mutant is the
non-deferred `Unlock`. The mutant that assigns the cursor before
checking the error is not caught by the refinement at this size. With 3
projects and pages of 2, the cursor values are only 0 and 2, and a reset
to 0 is also a legal step of the abstract sweep (`Crash`, or a `Release`
from cursor 2). `CursorAfterBatch` catches that mutant.

The bounds are large enough for what the properties need:

- A wrap happens.
- A short page happens, when the cursor is at 2 of 3.
- A project needs two cycles.
- An error can come in the middle of a batch.
- A crash can come while holding the key, and an `Unlock` can fail.
- Both replicas contend for the key.
- In the activity runs, a candidate can turn active between the lookup
  and the call that deactivates it.

`MaxActivity` is 0 in the two main runs. That keeps the deactivation
run under a minute. The separate activity run covers the client
actions.

### `HousekeepingProofs.tla`: what TLAPS proves

The proofs hold for all constants satisfying the `ASSUME`s of
`Housekeeping`.

- `TypeCorrect`: `Spec => []TypeOK`. It rests on three lemmas:
  - `ListingType`: a page is a sequence of projects.
  - `TopType`: the returned cursor is the sentinel or a project.
  - `CandidatesType`.
- `LockHeldInvariant`: `Spec => []LockHeld`. Every loop between `Lock`
  and its deferred `Unlock` is the coordinator's holder of its key. The
  argument has one step per action:
  - `Lock` takes only a free key. A holding loop's key has a holder, and
    `NoHolder` is not a replica.
  - `Unlock` only frees its own key. Two holding loops with the same key
    would have the same holder, and the kinds of one replica have
    different keys (`KeysDistinct`).
  - `LeaseExpire` only frees keys whose owner is not inside a sweep under
    that key.
  - `Restart` takes the replica out of every sweep.

  This invariant needs no assumption on versions.
- `MutualExclusionSafe`: `KeysAgree => (Spec => []MutualExclusion)`. It
  follows from `LockHeld`. If all replicas map each kind to the same key,
  two holders of that key are the same replica. The `mixed_version_lock`
  run shows the premise is needed.

### `HousekeepingRefinementProofs.tla`: the refinement

These proofs assume `KeysAgree` and `NoLegacy` (no replica runs the
legacy copy).

- `PageInvariant`: `Spec => [](PageInv /\ BatchInv)`.
  - `PageInv`: once a loop has listed its page, the cursor it will
    return (`lastProjectID`) is the page's next cursor.
  - `BatchInv`: the batch it works on holds records of that page only.

  The lemma `CandidatesInPage` shows that the union of the per-project
  lookups lies inside `SweepPageRecords`. The legacy copy breaks
  `PageInv`, which is why `NoLegacy` is assumed.
- `SweepRefinementProof`: `Spec => SweepRefinement`. The argument:
  - It uses the invariants `TypeOK`, `LockHeld`, `PageInv` and
    `BatchInv`. With `KeysAgree`, `LockHeld` gives mutual exclusion in
    both states of a step.
  - The lemmas `OwnerIs`, `OwnerNone`, `OwnerHolds` and `OwnerSame`
    describe the `CHOOSE` in `OwnerOf`. The owner is the one replica in
    `Holding`, or `NoHolder` if there is none. It depends only on who is
    in `Holding`.
  - `Init` maps to the abstract `Init`.
  - Each action maps to its abstract step, as listed above, or to a
    stutter. `Unlock` needs `PageInv`: its cursor is
    `NextCursor(cursor)`. `Apply` needs `BatchInv`.

### `HousekeepingCursorProofs.tla`: the cursor

This module extends `HousekeepingRefinementProofs` and repeats its `USE`
of the constant assumptions (a `USE` is not inherited).

- `AppliedInvariant`: `Spec => []AppliedInv`. For a loop in `act` or
  `done`, every candidate it has already taken out of its batch
  (`cands \ batch`) is in `applied` of its kind. In `done`, the batch is
  empty. It is inductive with `TypeOK` alone. `applied` only grows.
  Only the loop's own `Deactivate` or `DeleteDocument` moves a candidate
  out of the batch, and it adds that candidate to `applied` in the same
  step. `FindCandidates` starts with `batch = cands`.
- `CursorAfterBatchSafe`: `Spec => CursorAfterBatch`. The action
  property follows from `AppliedInv`. Only `Unlock` from `done` moves a
  cursor, and then the whole page's candidates are applied. `Restart`
  resets the cursor but also counts a crash, which the property allows.
  It needs no assumption on versions or keys.
- `CoverStep` is a lemma about the listing. If `1..c` was covered before
  (or `c` is the sentinel) and the page after `c` ends at a project
  `top`, then the old coverage plus the listed projects include `1..top`.
  The proof computes the page as the non-wrapping part
  `c+1 .. c+g` and, when `StoreWraps`, the wrapped part `1..w`. It
  treats the two cases `w = 0` and `w > 0`.
- `CoverageInvariant`: `NoLegacy => (Spec => []Coverage)`. `Coverage` is
  not inductive by itself, because `Unlock` adds `looked` to `seen`, and
  nothing in `Coverage` says what `looked` is. The strengthening:
  - `LookedInv`: a loop in `act` or `done` looked up exactly the
    projects of the page after its cursor.
  - `PageInv` (from `PageInvariant`, which needs `NoLegacy`): the cursor
    it will return is that page's top.

  With these, the `Unlock` step is `CoverStep`. TLC checked `LookedInv`
  as an invariant of the `deactivate_sweep` and `hard_delete_sweep` runs
  before the proof was written. The `legacy_hard_deletion_cursor` run
  shows that `NoLegacy` is needed.

Every safety property checked by a passing run is now proved for all
constants: `TypeOK`, `LockHeld`, `MutualExclusion`, `Coverage`,
`CursorAfterBatch` and `SweepRefinement`.

What stays with TLC:

- `DeactivatesIdleOnly`, which does not hold (finding 3);
- the liveness properties `EventuallyApplied` and `StopTerminates`;
  liveness and `ENABLED` are beyond TLAPS;
- the refinement with legacy replicas present, which the
  `legacy_hard_deletion_cursor` run shows does not hold.

## 3. Findings

1. **Hard-deletion lock keys differ between the copies**
   (`mixed_version_lock`). The `housekeeping` package locks
   `housekeeping/DocumentHardDeletionLock` (housekeeping.go:36). The
   `clients` package locks `housekeeping/documentHardDeletionLock`
   (housekeeping.go:378). The spec promises one lock per sweep kind. A
   cluster that mixes the two, for example during a rolling upgrade,
   hard-deletes concurrently.
2. **`Stop` is not observed while errors persist**
   (`stop_under_persistent_failure`). The spec already names the
   no-backoff retry as a risk. The model shows its consequence: the spec's
   "Stopped is reached when shutdown is requested" only holds if an
   iteration eventually succeeds.
3. **An active client can be deactivated**
   (`deactivate_under_client_activity`). `deactivateCandidates` calls
   `clients.Deactivate` on the list it read (housekeeping.go:256) and
   does not check activity again. The housekeeping lock does not
   serialize client requests. A client that is active again after
   `FindDeactivateCandidates` is still deactivated. The spec describes
   candidates as clients inactive past the threshold.
4. **The legacy hard-deletion cursor is not the page's**
   (`legacy_hard_deletion_cursor`). `part_000:181` overwrites
   `lastProjectID` with the result of `database.HardDeletion`. Unless
   that function returns the last project of the listed page, the
   round-robin skips projects.

## 4. Plan for the next sittings

1. **Grace period.** Documents that become eligible over time, and
   liveness of "deleted after the grace period".
2. **More proofs.** Lemmas on the listing, such as: the page lists
   distinct projects, and a full cycle of pages visits every project.
3. **Boundary runs.**
   - `NumTenants` a multiple of `PageSize`: the non-wrapping listing
     needs one extra empty iteration before the cursor resets.
   - `NumTenants < PageSize`.
   - A three-version cluster with all three hard-deletion keys.
