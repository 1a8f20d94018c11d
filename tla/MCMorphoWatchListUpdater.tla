---------------------- MODULE MCMorphoWatchListUpdater -----------------------
(***************************************************************************)
(* Instances of MorphoWatchListUpdater for TLC: a stream for each kind.    *)
(***************************************************************************)
EXTENDS MorphoWatchListUpdater

CONSTANTS alice, bob, m1, m2

MCChannel == [k \in Kinds |-> k]

=============================================================================
