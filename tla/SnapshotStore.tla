---------------------------- MODULE SnapshotStore ----------------------------
(***************************************************************************)
(* What the model service promises about published context snapshots,      *)
(* whatever threads compute them: context requests and private             *)
(* invalidations draw numbers from one counter, only the newest number may *)
(* be published, and an invalidation number never is.                      *)
(*                                                                         *)
(* SnapshotCoordinator is the code's implementation of this module.        *)
(***************************************************************************)
EXTENDS Naturals

CONSTANT None           \* no snapshot

VARIABLES
    requestedEpoch,     \* the newest number handed out
    boundaries,         \* the numbers handed out to invalidations
    latest,             \* the epoch of the snapshot queries see by default, or None
    retained            \* the epochs a query may still ask for by number

storeVars == <<requestedEpoch, boundaries, latest, retained>>

StoreInit ==
    /\ requestedEpoch = 0
    /\ boundaries = {}
    /\ latest = None
    /\ retained = {}

\* A context request takes the next number.
Ask ==
    /\ requestedEpoch' = requestedEpoch + 1
    /\ UNCHANGED <<boundaries, latest, retained>>

\* A private invalidation takes the next number as a boundary.
Retire ==
    /\ requestedEpoch' = requestedEpoch + 1
    /\ boundaries' = boundaries \cup {requestedEpoch + 1}
    /\ UNCHANGED <<latest, retained>>

\* The newest request becomes visible; older snapshots may be dropped.
Publish ==
    /\ requestedEpoch > 0
    /\ requestedEpoch \notin boundaries
    /\ latest' = requestedEpoch
    /\ requestedEpoch \in retained'
    /\ retained' \subseteq retained \cup {requestedEpoch}
    /\ UNCHANGED <<requestedEpoch, boundaries>>

\* An invalidation hides every snapshot.
Hide ==
    /\ boundaries # {}
    /\ latest' = None
    /\ retained' = {}
    /\ UNCHANGED <<requestedEpoch, boundaries>>

StoreNext == Ask \/ Retire \/ Publish \/ Hide

StoreSpec == StoreInit /\ [][StoreNext]_storeVars
=============================================================================
