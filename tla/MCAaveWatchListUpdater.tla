----------------------- MODULE MCAaveWatchListUpdater ------------------------
(***************************************************************************)
(* An instance of AaveWatchListUpdater for TLC: one stream for all.        *)
(***************************************************************************)
EXTENDS AaveWatchListUpdater

MCChannel == [k \in Kinds |-> "pool"]

=============================================================================
