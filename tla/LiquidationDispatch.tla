------------------------- MODULE LiquidationDispatch -------------------------
(***************************************************************************)
(* What the pipeline promises, without quotes, simulations or permits: of  *)
(* every payload it accepts it disposes once, either dropping it or        *)
(* calling the liquidator contract once with a job that pays for itself,   *)
(* working on at most Limit payloads at a time.                            *)
(***************************************************************************)
EXTENDS Naturals, FiniteSets

CONSTANTS
  Payloads,
  Limit, \* payloads worked on at a time
  Calls, \* the contract calls worth making
  None   \* "no call"

VARIABLES
  status, \* "new", "accepted", "working", "done"
  call    \* history: the contract call made for the payload

vars == <<status, call>>

Working == {p \in Payloads : status[p] = "working"}

Init ==
  /\ status = [p \in Payloads |-> "new"]
  /\ call = [p \in Payloads |-> None]

Accept(p) ==
  /\ status[p] = "new"
  /\ status' = [status EXCEPT ![p] = "accepted"]
  /\ UNCHANGED call

Begin(p) ==
  /\ status[p] = "accepted"
  /\ Cardinality(Working) < Limit
  /\ status' = [status EXCEPT ![p] = "working"]
  /\ UNCHANGED call

Drop(p) ==
  /\ status[p] = "working"
  /\ status' = [status EXCEPT ![p] = "done"]
  /\ UNCHANGED call

CallContract(p) ==
  /\ status[p] = "working"
  /\ status' = [status EXCEPT ![p] = "done"]
  /\ call'[p] \in Calls
  /\ call' = [call EXCEPT ![p] = call'[p]]

(* On shutdown, payloads nobody has begun to work on are given up. *)
GiveUp(ps) ==
  /\ \A p \in ps : status[p] = "accepted"
  /\ status' = [p \in Payloads |-> IF p \in ps THEN "done" ELSE status[p]]
  /\ UNCHANGED call

Next ==
  \/ \E p \in Payloads : Accept(p) \/ Begin(p) \/ Drop(p) \/ CallContract(p)
  \/ \E ps \in SUBSET Payloads : GiveUp(ps)

Spec == Init /\ [][Next]_vars

=============================================================================
