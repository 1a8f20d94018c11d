----------------------------- MODULE RouteFinder -----------------------------
(***************************************************************************)
(* adapters/uniswap_v3_adapter.rs: a quote for a swap, by the route the    *)
(* cache remembers for the pair and the bucket of the amount, or by the    *)
(* best of all routes.  The calls are the pipeline's tasks; they share the *)
(* cache (a moka cache with a time to live and a capacity).                *)
(*                                                                         *)
(* A route is one of the four single hops or of the hub paths; pools are   *)
(* reduced to which routes have liquidity.  The quoter's answers are any.  *)
(***************************************************************************)
EXTENDS Integers, FiniteSets

CONSTANTS
  Callers,     \* tasks that ask for quotes
  TokenPairs,  \* (src_token, dest_token)
  Routes,      \* topologies between them
  NoRoute,
  SwapAmounts, \* bound: the amounts asked for
  MaxOut,      \* bound: what a route gives
  Ttl          \* time to live of an entry, 3 s

ASSUME RouteAssumption ==
  /\ NoRoute \notin Routes
  /\ TokenPairs # {}
  /\ SwapAmounts \subseteq Nat \ {0} /\ SwapAmounts # {}
  /\ MaxOut \in Nat /\ Ttl \in Nat \ {0}

(* U256::bits *)
Bits(n) == CHOOSE k \in 0 .. 256 : n < 2 ^ k /\ \A j \in 0 .. k - 1 : 2 ^ j <= n

(***************************************************************************)
(* CacheKey::new: ten times the approximate logarithm, plus a digit.  The  *)
(* quotient has one digit or two; its last one is kept.                    *)
(***************************************************************************)
Magnitude(amount) == (Bits(amount) * 301) \div 1000

Digit(amount) ==
  LET m == Magnitude(amount)
  IN  (amount \div 10 ^ (IF m = 0 THEN 0 ELSE m - 1)) % 10

Bucket(amount) == Magnitude(amount) * 10 + Digit(amount)

Key(pair, amount) == <<pair, Bucket(amount)>>

Keys == {Key(p, a) : p \in TokenPairs, a \in SwapAmounts}

-----------------------------------------------------------------------------
VARIABLES
  routeCache, \* the entry of each key: its route, its age in seconds, and the
              \* amount it was found for (history)
  liquid,     \* the routes that have liquidity
  asking      \* the call of each task

routeVars == <<routeCache, liquid, asking>>

Entries == [route : Routes \cup {NoRoute}, age : 0 .. Ttl, amount : SwapAmounts \cup {0}]

NoEntry == [route |-> NoRoute, age |-> 0, amount |-> 0]

(***************************************************************************)
(* A call: where it is, what it asks, the entry it goes by, the routes     *)
(* that had liquidity when all were asked (history), whether that failed.  *)
(***************************************************************************)
Calls ==
  [at : {"idle", "requote", "batch", "quoted", "failed"},
   pair : TokenPairs, amount : SwapAmounts, entry : Entries,
   seen : SUBSET Routes, erred : BOOLEAN]

NoCall ==
  [at |-> "idle", pair |-> CHOOSE p \in TokenPairs : TRUE,
   amount |-> CHOOSE a \in SwapAmounts : TRUE,
   entry |-> NoEntry, seen |-> Routes, erred |-> FALSE]

RouteInit ==
  /\ routeCache = [k \in Keys |-> NoEntry]
  /\ liquid = Routes
  /\ asking = [t \in Callers |-> NoCall]

(* Mutant: an entry does not expire. *)
LiveForever(e) == e.route # NoRoute

(* An entry older than the time to live is not returned. *)
Live(e) == e.route # NoRoute /\ e.age < Ttl

KeyOf(t) == Key(asking[t].pair, asking[t].amount)

Move(t, place) == asking' = [asking EXCEPT ![t].at = place]

(* evaluate_route: a hit goes on with the entry's route alone, a miss      *)
(* invalidates the key before all are asked. *)
AskQuote(t, pair, amount) ==
  LET e == routeCache[Key(pair, amount)] IN
  /\ asking[t].at \in {"idle", "quoted", "failed"}
  /\ asking' = [asking EXCEPT ![t] =
       [at |-> IF Live(e) THEN "requote" ELSE "batch", pair |-> pair, amount |-> amount,
        entry |-> IF Live(e) THEN e ELSE NoEntry, seen |-> Routes, erred |-> FALSE]]
  /\ routeCache' =
       IF Live(e) THEN routeCache
       ELSE [routeCache EXCEPT ![Key(pair, amount)] = NoEntry]
  /\ UNCHANGED liquid

(* The known topology still gives something for the new amount. *)
RequoteWorks(t) ==
  /\ asking[t].at = "requote"
  /\ asking[t].entry.route \in liquid
  /\ Move(t, "quoted")
  /\ UNCHANGED <<routeCache, liquid>>

(* Mutant: a known topology that gives nothing ends the call. *)
RequoteFailsCall(t) ==
  /\ asking[t].at = "requote"
  /\ Move(t, "failed")
  /\ UNCHANGED <<routeCache, liquid>>

(* It gives nothing, or the call fails: the entry is dropped, whoever's it *)
(* is by now, and all routes are asked. *)
RequoteFails(t) ==
  /\ asking[t].at = "requote"
  /\ asking' = [asking EXCEPT ![t].at = "batch", ![t].entry = NoEntry]
  /\ routeCache' = [routeCache EXCEPT ![KeyOf(t)] = NoEntry]
  /\ UNCHANGED liquid

(***************************************************************************)
(* find_best_route_multicall: the route that gives most, of those that     *)
(* give anything, is inserted.                                             *)
(***************************************************************************)
AskAllRoutes(t) ==
  LET e(r) == [route |-> r, age |-> 0, amount |-> asking[t].amount] IN
  /\ asking[t].at = "batch"
  /\ \/ \E out \in [liquid -> 1 .. MaxOut] : \E r \in liquid :
          /\ \A s \in liquid : out[s] <= out[r]
          /\ asking' = [asking EXCEPT ![t].at = "quoted", ![t].entry = e(r),
                                      ![t].seen = liquid]
          /\ routeCache' = [routeCache EXCEPT ![KeyOf(t)] = e(r)]
     \/ /\ liquid = {}
        /\ asking' = [asking EXCEPT ![t].at = "failed", ![t].seen = {}]
        /\ UNCHANGED routeCache
  /\ UNCHANGED liquid

(* aggregate_3 fails: no route is known to give anything. *)
AskAllFails(t) ==
  /\ asking[t].at = "batch"
  /\ asking' = [asking EXCEPT ![t].at = "failed", ![t].erred = TRUE]
  /\ UNCHANGED <<routeCache, liquid>>

(* A second goes by. *)
Tick ==
  /\ routeCache' = [k \in Keys |->
       [routeCache[k] EXCEPT !.age = IF routeCache[k] # NoEntry /\ @ < Ttl THEN @ + 1 ELSE @]]
  /\ UNCHANGED <<liquid, asking>>

(* The cache is full and lets an entry go. *)
Evict(k) ==
  /\ routeCache' = [routeCache EXCEPT ![k] = NoEntry]
  /\ UNCHANGED <<liquid, asking>>

(* The pools move. *)
MoveLiquidity ==
  /\ liquid' \in SUBSET Routes
  /\ UNCHANGED <<routeCache, asking>>

QuoteStep(t) ==
  \/ \E pair \in TokenPairs, amount \in SwapAmounts : AskQuote(t, pair, amount)
  \/ RequoteWorks(t)
  \/ RequoteFails(t)
  \/ AskAllRoutes(t)
  \/ AskAllFails(t)

RouteNext ==
  \/ \E t \in Callers : QuoteStep(t)
  \/ Tick
  \/ \E k \in Keys : Evict(k)
  \/ MoveLiquidity

RouteSpec == RouteInit /\ [][RouteNext]_routeVars

-----------------------------------------------------------------------------
RouteTypeOK ==
  /\ routeCache \in [Keys -> Entries]
  /\ liquid \subseteq Routes
  /\ asking \in [Callers -> Calls]

(***************************************************************************)
(* A quote never goes by a route that was found best longer ago than the   *)
(* time to live when the quote was asked for, however often the route is   *)
(* used in between and whichever task found it.                            *)
(***************************************************************************)
RoutesAreRecent ==
  \A t \in Callers : asking[t].at \in {"requote", "quoted"} => asking[t].entry.age < Ttl

(***************************************************************************)
(* A cached route that has dried up never hides one that has not: a call   *)
(* fails only when no route had liquidity while it asked, or when it could *)
(* not ask.                                                                *)
(***************************************************************************)
FailsOnlyWithoutRoutes ==
  \A t \in Callers : asking[t].at = "failed" => asking[t].seen = {} \/ asking[t].erred

(***************************************************************************)
(* "Logarithmic scaling bucket to accurately group trade amounts (~10%     *)
(* resolution)" (uniswap_v3_adapter.rs:19): a route is used only for       *)
(* amounts near the one it was found best for.  Generously, half of it to  *)
(* twice it.                                                               *)
(***************************************************************************)
BucketsAreNarrow ==
  \A t \in Callers :
    LET c == asking[t] IN
    c.at = "requote" => c.amount <= 2 * c.entry.amount /\ c.entry.amount <= 2 * c.amount

=============================================================================
