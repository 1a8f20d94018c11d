----------------------------- MODULE MCComponents ------------------------------
(***************************************************************************)
(* Instances for TLC of the components that share no state with another:   *)
(* the readers, the route finder, the simulator and the process's life.    *)
(* Each behaviour is one of one of them, the others rest.                  *)
(***************************************************************************)
EXTENDS MorphoReader, AaveReader, RouteFinder, RevmSimulator, Lifecycle

CONSTANTS weth, usdc

VARIABLE part \* the component that moves

mcVars == <<part, vars, aaveVars, routeVars, simVars, lifeVars>>

MCUnit == [r \in {weth, usdc} |-> IF r = weth THEN 10 ELSE 1]

MCInit ==
  /\ part \in {"morpho", "aave", "routes", "simulator", "life"}
  /\ Init
  /\ AaveInit
  /\ RouteInit
  /\ SimInit
  /\ LifeInit

MCNext ==
  \/ part = "morpho" /\ Next /\ UNCHANGED <<part, aaveVars, routeVars, simVars, lifeVars>>
  \/ part = "aave" /\ AaveNext /\ UNCHANGED <<part, vars, routeVars, simVars, lifeVars>>
  \/ part = "routes" /\ RouteNext /\ UNCHANGED <<part, vars, aaveVars, simVars, lifeVars>>
  \/ part = "simulator" /\ SimNext /\ UNCHANGED <<part, vars, aaveVars, routeVars, lifeVars>>
  \/ part = "life" /\ LifeNext /\ UNCHANGED <<part, vars, aaveVars, routeVars, simVars>>

Alone(step) == part = "life" /\ step /\ UNCHANGED <<part, vars, aaveVars, routeVars, simVars>>

(* Tasks are polled; the watcher's select sees the shutdown some time. *)
MCSpec ==
  /\ MCInit /\ [][MCNext]_mcVars
  /\ WF_mcVars(Alone(MainStep))
  /\ WF_mcVars(Alone(StopStep))
  /\ WF_mcVars(Alone(CommandStep))
  /\ WF_mcVars(Alone(WatcherStep /\ FeedMoves))
  /\ SF_mcVars(Alone(WatcherSeesShutdown /\ FeedMoves))

TypesOK == TypeOK /\ AaveTypeOK /\ RouteTypeOK /\ SimTypeOK /\ LifeTypeOK

=============================================================================
