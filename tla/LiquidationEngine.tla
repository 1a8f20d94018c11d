-------------------------- MODULE LiquidationEngine --------------------------
(***************************************************************************)
(* The execution pipeline of core/services/liquidation_engine.rs.          *)
(*                                                                         *)
(* One task, the loop of start_pipeline, takes payloads from the bounded   *)
(* channel the scanner fills.  For each one it acquires a permit of a      *)
(* semaphore and spawns a task that runs process_payload: validate the     *)
(* profile, quote the swap, simulate the job, refresh the position,        *)
(* possibly quote and simulate once more, and broadcast.  Every .await of  *)
(* process_payload is a step, so the tasks interleave at those points.     *)
(*                                                                         *)
(* The readers, the DEX, the simulator and the liquidator contract are     *)
(* reached through traits (core/ports.rs): each answers with any value of  *)
(* its type that the adapters can return, or with an error.                *)
(***************************************************************************)
EXTENDS Naturals, Sequences, FiniteSets

CONSTANTS
  Payloads,         \* the scanner's payloads, numbered as it sends them
  Profiles,         \* the borrower profiles a protocol reader may return
  Assets,           \* the collateral assets they name
  MaxQuote,         \* bound: the largest amount a quote guarantees
  MaxGas,           \* bound: the largest gas estimate
  PayloadCap,       \* capacity of the payload channel
  ConcurrencyLimit, \* permits of the semaphore
  None              \* "no value yet"

(***************************************************************************)
(* The part of BorrowerProfile the pipeline looks at.  seize is            *)
(* seize_amount, coll is collateral_asset, shares stands for the pair      *)
(* repaid_shares and seized_assets.  The debt asset and the market are     *)
(* fixed by the identity.                                                  *)
(***************************************************************************)
Profile == [debt : Nat, seize : Nat, coll : Assets, shares : Nat]

(***************************************************************************)
(* swap_data of a quote, abstracted to what it sells: an amount of one     *)
(* collateral asset.                                                       *)
(***************************************************************************)
Route == [coll : Assets, amount : Nat]

Job == [debt : Nat, seize : Nat, coll : Assets, shares : Nat,
        minOut : Nat, route : Route]

Gas == 1 .. MaxGas
Heads == {"payload_block", "latest"}
Simulation == [job : Job, gas : Gas, head : Heads]
Broadcast == [job : Job, gas : Gas]

ASSUME ProfilesAssumption == Profiles \subseteq Profile
ASSUME QuoteAssumption == MaxQuote \in Nat /\ MaxGas \in Nat
ASSUME LimitAssumption ==
  PayloadCap \in Nat \ {0} /\ ConcurrencyLimit \in Nat \ {0}
ASSUME PayloadsAssumption == IsFiniteSet(Payloads) /\ Payloads \subseteq Nat
ASSUME NoneAssumption ==
  None \notin Profile \cup Job \cup Gas \cup Simulation \cup Broadcast

(***************************************************************************)
(* Both adapters return no profile whose debt to cover is zero.            *)
(***************************************************************************)
ASSUME DebtAssumption == \A r \in Profiles : r.debt > 0

VARIABLES
  shutdown,   \* the value of the watch channel
  loop,       \* "select", "acquire" (waits for a permit) or "stopped"
  queue,      \* the payload channel
  permits,    \* free permits of the semaphore
  pc,         \* where each payload is
  profile,    \* payload.profile
  job,        \* the job process_payload holds
  gas,        \* its gas_used
  refreshed,  \* what refresh_borrower last returned for the payload
  simulated,  \* history: the last simulation that succeeded
  sent        \* history: the call of the liquidator contract

vars == <<shutdown, loop, queue, permits, pc, profile, job, gas, refreshed,
          simulated, sent>>

taskVars == <<profile, job, gas, refreshed, simulated, sent>>

(***************************************************************************)
(* A payload is produced by the scanner ("unsent"), waits in the channel,  *)
(* is taken by the loop ("taken"), runs, and ends in a place of Ended.     *)
(***************************************************************************)
Running == {"validate", "quote", "simulate", "refresh", "requote",
            "resimulate", "broadcast"}
Ended == {"rejected", "aborted", "submitted", "failed", "discarded", "cancelled"}
Places == {"unsent", "queued", "taken"} \cup Running \cup Ended

Tasks == {p \in Payloads : pc[p] \in Running}

-----------------------------------------------------------------------------
Init ==
  /\ shutdown = FALSE
  /\ loop = "select"
  /\ queue = <<>>
  /\ permits = ConcurrencyLimit
  /\ pc = [p \in Payloads |-> "unsent"]
  /\ profile = [p \in Payloads |-> None]
  /\ job = [p \in Payloads |-> None]
  /\ gas = [p \in Payloads |-> None]
  /\ refreshed = [p \in Payloads |-> None]
  /\ simulated = [p \in Payloads |-> None]
  /\ sent = [p \in Payloads |-> None]

(***************************************************************************)
(* The scanner's payload_tx.send: waits while the channel is full, fails   *)
(* once the loop has dropped the receiver.                                 *)
(***************************************************************************)
SendPayload(p) ==
  /\ pc[p] = "unsent"
  /\ \A q \in Payloads : q < p => pc[q] # "unsent"
  /\ loop # "stopped"
  /\ Len(queue) < PayloadCap
  /\ \E r \in Profiles : profile' = [profile EXCEPT ![p] = r]
  /\ queue' = Append(queue, p)
  /\ pc' = [pc EXCEPT ![p] = "queued"]
  /\ UNCHANGED <<shutdown, loop, permits, job, gas, refreshed, simulated, sent>>

(***************************************************************************)
(* Ctrl-C in run: shutdown_tx.send(true).                                  *)
(***************************************************************************)
RequestShutdown ==
  /\ ~shutdown
  /\ shutdown' = TRUE
  /\ UNCHANGED <<loop, queue, permits, pc, taskVars>>

(***************************************************************************)
(* The end of the loop: the receiver is dropped, and with it the payloads  *)
(* in the channel and in the loop's hand.                                  *)
(***************************************************************************)
DropReceiver ==
  /\ loop' = "stopped"
  /\ queue' = <<>>
  /\ pc' = [p \in Payloads |->
              IF pc[p] \in {"queued", "taken"} THEN "discarded" ELSE pc[p]]
  /\ profile' = [p \in Payloads |->
                   IF pc[p] \in {"queued", "taken"} THEN None ELSE profile[p]]
  /\ UNCHANGED <<shutdown, permits, job, gas, refreshed, simulated, sent>>

(***************************************************************************)
(* The select arms of the loop.  Both may be ready; either may be taken.   *)
(* The shutdown signal is not looked at while the loop waits for a permit. *)
(***************************************************************************)
StopLoop ==
  /\ loop = "select"
  /\ shutdown
  /\ DropReceiver

TakePayload ==
  /\ loop = "select"
  /\ queue # <<>>
  /\ loop' = "acquire"
  /\ queue' = Tail(queue)
  /\ pc' = [pc EXCEPT ![Head(queue)] = "taken"]
  /\ UNCHANGED <<shutdown, permits, taskVars>>

(* Mutant: no permit is needed. *)
SpawnTaskUnlimited(p) ==
  /\ loop = "acquire"
  /\ pc[p] = "taken"
  /\ permits' = permits - 1
  /\ loop' = "select"
  /\ pc' = [pc EXCEPT ![p] = "validate"]
  /\ UNCHANGED <<shutdown, queue, taskVars>>

SpawnTask(p) ==
  /\ loop = "acquire"
  /\ pc[p] = "taken"
  /\ permits > 0
  /\ permits' = permits - 1
  /\ loop' = "select"
  /\ pc' = [pc EXCEPT ![p] = "validate"]
  /\ UNCHANGED <<shutdown, queue, taskVars>>

(***************************************************************************)
(* run joins only the tasks it registered, of which the loop is none:      *)
(* start_pipeline_engine registers the task that starts it.  Some time     *)
(* after the signal main returns, and the runtime's drop cancels the loop  *)
(* wherever it waits.                                                      *)
(***************************************************************************)
CancelLoop ==
  /\ shutdown
  /\ loop # "stopped"
  /\ DropReceiver

-----------------------------------------------------------------------------
(* Mutant: only a task that broadcast gives its permit back. *)
GotoLeaks(p, place) ==
  /\ pc' = [pc EXCEPT ![p] = place]
  /\ permits' = IF place \in {"submitted", "failed"} THEN permits + 1 ELSE permits
  /\ UNCHANGED <<shutdown, loop, queue>>

(***************************************************************************)
(* process_payload.  A task that returns drops its permit.                 *)
(***************************************************************************)
Goto(p, place) ==
  /\ pc' = [pc EXCEPT ![p] = place]
  /\ permits' = IF place \in Ended THEN permits + 1 ELSE permits
  /\ UNCHANGED <<shutdown, loop, queue>>

(* A task that returns without a broadcast, with its payload and its job. *)
Drop(p, place) ==
  /\ Goto(p, place)
  /\ profile' = [profile EXCEPT ![p] = None]
  /\ job' = [job EXCEPT ![p] = None]
  /\ gas' = [gas EXCEPT ![p] = None]
  /\ refreshed' = [refreshed EXCEPT ![p] = None]
  /\ simulated' = [simulated EXCEPT ![p] = None]
  /\ UNCHANGED sent

(* validate_profile *)
Acceptable(r) == r.seize # 0 /\ r.debt # 0

ValidateProfile(p) ==
  /\ pc[p] = "validate"
  /\ \/ Acceptable(profile[p]) /\ Goto(p, "quote") /\ UNCHANGED taskVars
     \/ ~Acceptable(profile[p]) /\ Drop(p, "rejected")

(***************************************************************************)
(* get_swap_quote: an error, or a route that sells the whole seize amount  *)
(* for a guaranteed minimum.  Selling nothing guarantees nothing.          *)
(***************************************************************************)
QuoteOutcomes(r) == IF r.seize = 0 THEN {0} ELSE 0 .. MaxQuote

RouteFor(r) == [coll |-> r.coll, amount |-> r.seize]

Profitable(m, r) == ~(m < r.debt)

BuildJob(r, m) ==
  [debt |-> r.debt, seize |-> r.seize, coll |-> r.coll, shares |-> r.shares,
   minOut |-> m, route |-> RouteFor(r)]

FetchQuote(p) ==
  /\ pc[p] = "quote"
  /\ \E m \in QuoteOutcomes(profile[p]) :
       /\ Profitable(m, profile[p])
       /\ job' = [job EXCEPT ![p] = BuildJob(profile[p], m)]
  /\ Goto(p, "simulate")
  /\ UNCHANGED <<profile, gas, refreshed, simulated, sent>>

RejectQuote(p) ==
  /\ pc[p] = "quote"
  /\ Drop(p, "rejected")

(* simulate_job, against payload.block_number *)
SimulateJob(p) ==
  /\ pc[p] = "simulate"
  /\ \E g \in Gas :
       /\ gas' = [gas EXCEPT ![p] = g]
       /\ simulated' = [simulated EXCEPT ![p] =
            [job |-> job[p], gas |-> g, head |-> "payload_block"]]
  /\ Goto(p, "refresh")
  /\ UNCHANGED <<profile, job, refreshed, sent>>

SimulationReverts(p) ==
  /\ pc[p] = "simulate"
  /\ Drop(p, "rejected")

(* Mutant: a changed seize amount goes unnoticed. *)
StateChangedDebtOnly(r, j) == r.debt # j.debt

(***************************************************************************)
(* jit_refresh_guard.  The refreshed profile is compared with the job in   *)
(* the debt to cover and in the seize amount only.                         *)
(***************************************************************************)
StateChanged(r, j) == r.debt # j.debt \/ r.seize # j.seize

RefreshBorrower(p) ==
  /\ pc[p] = "refresh"
  /\ \E r \in Profiles :
       /\ refreshed' = [refreshed EXCEPT ![p] = r]
       /\ Goto(p, IF StateChanged(r, job[p]) THEN "requote" ELSE "broadcast")
  /\ UNCHANGED <<profile, job, gas, simulated, sent>>

RefreshFails(p) ==
  /\ pc[p] = "refresh"
  /\ Drop(p, "aborted")

(***************************************************************************)
(* try_revalidate_and_simulate.  The collateral asset of the job is not    *)
(* among the fields it updates.                                            *)
(***************************************************************************)
UpdateJob(j, r, m) ==
  [j EXCEPT !.debt = r.debt, !.seize = r.seize, !.shares = r.shares,
            !.minOut = m, !.route = RouteFor(r)]

(* Mutant: the new quote is not held against the new debt. *)
RequoteUnchecked(p) ==
  /\ pc[p] = "requote"
  /\ \E m \in QuoteOutcomes(refreshed[p]) :
       job' = [job EXCEPT ![p] = UpdateJob(job[p], refreshed[p], m)]
  /\ Goto(p, "resimulate")
  /\ UNCHANGED <<profile, gas, refreshed, simulated, sent>>

(* Mutant: the updated job is not simulated again. *)
RequoteUnsimulated(p) ==
  /\ pc[p] = "requote"
  /\ \E m \in QuoteOutcomes(refreshed[p]) :
       /\ Profitable(m, refreshed[p])
       /\ job' = [job EXCEPT ![p] = UpdateJob(job[p], refreshed[p], m)]
  /\ Goto(p, "broadcast")
  /\ UNCHANGED <<profile, gas, refreshed, simulated, sent>>

Requote(p) ==
  /\ pc[p] = "requote"
  /\ \E m \in QuoteOutcomes(refreshed[p]) :
       /\ Profitable(m, refreshed[p])
       /\ job' = [job EXCEPT ![p] = UpdateJob(job[p], refreshed[p], m)]
  /\ Goto(p, "resimulate")
  /\ UNCHANGED <<profile, gas, refreshed, simulated, sent>>

Resimulate(p) ==
  /\ pc[p] = "resimulate"
  /\ \E g \in Gas :
       /\ gas' = [gas EXCEPT ![p] = g]
       /\ simulated' = [simulated EXCEPT ![p] =
            [job |-> job[p], gas |-> g, head |-> "latest"]]
  /\ Goto(p, "broadcast")
  /\ UNCHANGED <<profile, job, refreshed, sent>>

RevalidationFails(p) ==
  /\ pc[p] \in {"requote", "resimulate"}
  /\ Drop(p, "aborted")

(* The call of the liquidator contract. *)
Send(p) ==
  /\ sent' = [sent EXCEPT ![p] = [job |-> job[p], gas |-> gas[p]]]
  /\ UNCHANGED <<profile, job, gas, refreshed, simulated>>

(***************************************************************************)
(* execute_liquidation: the contract call is made; the node accepts the    *)
(* transaction or returns an error.                                        *)
(***************************************************************************)
ExecuteLiquidation(p) ==
  /\ pc[p] = "broadcast"
  /\ Send(p)
  /\ \E place \in {"submitted", "failed"} : Goto(p, place)

(***************************************************************************)
(* The runtime's drop cancels an evaluation at whatever it awaits.  One    *)
(* that awaits the broadcast may have made the call already.               *)
(***************************************************************************)
CancelTask(p) ==
  /\ shutdown
  /\ pc[p] \in Running
  /\ \/ Drop(p, "cancelled")
     \/ /\ pc[p] = "broadcast"
        /\ Send(p)
        /\ Goto(p, "cancelled")

TaskStep(p) ==
  \/ ValidateProfile(p)
  \/ FetchQuote(p)
  \/ RejectQuote(p)
  \/ SimulateJob(p)
  \/ SimulationReverts(p)
  \/ RefreshBorrower(p)
  \/ RefreshFails(p)
  \/ Requote(p)
  \/ Resimulate(p)
  \/ RevalidationFails(p)
  \/ ExecuteLiquidation(p)
  \/ CancelTask(p)

LoopStep ==
  \/ StopLoop
  \/ CancelLoop
  \/ TakePayload
  \/ \E p \in Payloads : SpawnTask(p)

Next ==
  \/ RequestShutdown
  \/ LoopStep
  \/ \E p \in Payloads : SendPayload(p) \/ TaskStep(p)

Spec == Init /\ [][Next]_vars

(***************************************************************************)
(* The loop and every task are tokio tasks: polled again whenever what     *)
(* they wait for is ready, until the runtime's drop cancels them, which    *)
(* their steps include; so nothing is promised of an evaluation after the  *)
(* shutdown but that it ends one way or the other.  The calls a task       *)
(* awaits return: the HTTP provider answers or fails.  Nothing obliges the *)
(* scanner to send or the operator to stop the bot.                        *)
(***************************************************************************)
Fairness == WF_vars(LoopStep) /\ \A p \in Payloads : WF_vars(TaskStep(p))

FairSpec == Spec /\ Fairness

-----------------------------------------------------------------------------
TypeOK ==
  /\ shutdown \in BOOLEAN
  /\ loop \in {"select", "acquire", "stopped"}
  /\ queue \in Seq(Payloads)
  /\ permits \in Nat
  /\ pc \in [Payloads -> Places]
  /\ profile \in [Payloads -> Profiles \cup {None}]
  /\ job \in [Payloads -> Job \cup {None}]
  /\ gas \in [Payloads -> Gas \cup {None}]
  /\ refreshed \in [Payloads -> Profiles \cup {None}]
  /\ simulated \in [Payloads -> Simulation \cup {None}]
  /\ sent \in [Payloads -> Broadcast \cup {None}]

(***************************************************************************)
(* What is known of a payload at each place: the inductive invariant       *)
(* behind the three properties that follow.                                *)
(***************************************************************************)
Progress(p) ==
  /\ pc[p] \in {"queued", "taken"} \cup Running => profile[p] \in Profiles
  /\ pc[p] \in Running \ {"validate"} => profile[p].seize > 0
  /\ pc[p] \in Running \ {"validate", "quote"} =>
       /\ job[p] \in Job
       /\ job[p].minOut >= job[p].debt
       /\ job[p].debt > 0
       /\ job[p].seize > 0
       /\ job[p].route.amount = job[p].seize
  /\ pc[p] \in {"simulate", "refresh", "requote"} =>
       ~StateChanged(profile[p], job[p])
  /\ pc[p] \in {"refresh", "requote", "broadcast"} =>
       /\ gas[p] \in Gas
       /\ simulated[p] \in Simulation
       /\ simulated[p].job = job[p]
       /\ simulated[p].gas = gas[p]
  /\ pc[p] \in {"requote", "resimulate", "broadcast"} =>
       refreshed[p] \in Profiles
  /\ pc[p] \in {"resimulate", "broadcast"} =>
       ~StateChanged(refreshed[p], job[p])
  /\ pc[p] = "broadcast" /\ StateChanged(refreshed[p], profile[p]) =>
       simulated[p].head = "latest"
  /\ sent[p] # None => pc[p] \in {"submitted", "failed", "cancelled"}

(* The channel holds queued payloads, none of them twice. *)
ChannelOK ==
  \A i \in 1 .. Len(queue) :
    /\ pc[queue[i]] = "queued"
    /\ \A k \in 1 .. Len(queue) : queue[i] = queue[k] => i = k

IInv == TypeOK /\ ChannelOK /\ \A p \in Payloads : Progress(p)

(***************************************************************************)
(* What reaches the contract is exactly the job that was simulated last,   *)
(* with the gas limit that simulation measured; and when the refresh found *)
(* the amounts moved since the scan, that simulation ran against the       *)
(* latest block, never against the block of the scan.                      *)
(***************************************************************************)
SentWasSimulated ==
  \A p \in Payloads : sent[p] # None =>
    /\ simulated[p] # None
    /\ sent[p] = [job |-> simulated[p].job, gas |-> simulated[p].gas]
    /\ StateChanged(refreshed[p], profile[p]) => simulated[p].head = "latest"

(***************************************************************************)
(* What reaches the contract repays and seizes the amounts of the last     *)
(* refresh, and its swap sells exactly the amount seized: a position that  *)
(* moved between scan, quote and simulation is never liquidated with the   *)
(* old amounts.                                                            *)
(***************************************************************************)
SentIsFresh ==
  \A p \in Payloads : sent[p] # None =>
    /\ refreshed[p] # None
    /\ sent[p].job.debt = refreshed[p].debt
    /\ sent[p].job.seize = refreshed[p].seize
    /\ sent[p].job.route.amount = refreshed[p].seize

(***************************************************************************)
(* The economic guard on both paths: the swap guarantees at least the debt *)
(* the contract repays, and never for an empty seizure, though the amounts *)
(* are validated only before the first quote.                              *)
(***************************************************************************)
SentPays ==
  \A p \in Payloads : sent[p] # None =>
    /\ sent[p].job.minOut >= sent[p].job.debt
    /\ sent[p].job.debt > 0
    /\ sent[p].job.seize > 0

(***************************************************************************)
(* No permit is lost or made: every free permit and every running task add *)
(* up to the limit, on every path out of process_payload.  So at most      *)
(* ConcurrencyLimit payloads are ever in flight.                           *)
(***************************************************************************)
PermitsConserved == permits + Cardinality(Tasks) = ConcurrencyLimit

(***************************************************************************)
(* Every payload the channel accepted reaches an end, its permit returned: *)
(* neither a full semaphore nor a full channel wedges the pipeline, and no *)
(* error path forgets a payload.  Once main has returned, that end may be  *)
(* to be cut off.                                                          *)
(***************************************************************************)
EveryPayloadEnds ==
  \A p \in Payloads : pc[p] = "queued" ~> pc[p] \in Ended

(***************************************************************************)
(* The pipeline implements LiquidationDispatch.  A payload in the channel, *)
(* or in the hand of a loop that waits for a permit, is accepted; one with *)
(* a task is worked on.                                                    *)
(***************************************************************************)
StatusOf(place) ==
  CASE place = "unsent" -> "new"
    [] place \in {"queued", "taken"} -> "accepted"
    [] place \in Running -> "working"
    [] OTHER -> "done"

PayingCalls ==
  {c \in Broadcast :
     c.job.minOut >= c.job.debt /\ c.job.debt > 0 /\ c.job.seize > 0}

Promise == INSTANCE LiquidationDispatch WITH
  Limit <- ConcurrencyLimit,
  Calls <- PayingCalls,
  status <- [p \in Payloads |-> StatusOf(pc[p])],
  call <- sent

Dispatch == Promise!Spec

(***************************************************************************)
(* "Re-queries protocol state ... to detect and handle state changes"      *)
(* (liquidation_engine.rs:282): the job handed to the second simulation    *)
(* seizes the collateral its own swap sells.                               *)
(***************************************************************************)
RefreshHandled ==
  \A p \in Payloads : pc[p] = "resimulate" => job[p].coll = job[p].route.coll

=============================================================================
