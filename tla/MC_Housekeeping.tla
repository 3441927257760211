------------------------- MODULE MC_Housekeeping -------------------------
(* Small instances of Housekeeping for TLC.                                *)
EXTENDS Housekeeping, TLC

CONSTANTS r1, r2

MCReplicas == {r1, r2}

\* Project 3 owns two clients and both documents, more than the
\* per-project limit of one, so it needs two visits; project 1 has one
\* client and project 2 nothing: with pages of 2 the cursor must reach
\* past the first page for project 3 to be swept at all.
MCClients == {1, 2, 3}
MCClientProject == (1 :> 1) @@ (2 :> 3) @@ (3 :> 3)
MCDocs == {1, 2}
MCDocProject == (1 :> 3) @@ (2 :> 3)

MCLimitOne == [k \in SweepKinds |-> 1]

MCDeactivateOnly == {DC}
MCHardDeleteOnly == {HD}

MCSameVersion == [r \in MCReplicas |-> "server"]
\* A rolling upgrade: one replica runs the housekeeping package, the other
\* the clients package.
MCMixedVersions == (r1 :> "server") @@ (r2 :> "clients")

\* Every replica runs the legacy copy (unnamed/part_000).
MCLegacyVersion == [r \in MCReplicas |-> "legacy"]

=============================================================================
