------------------------------ MODULE DebtEvents -----------------------------
(***************************************************************************)
(* The lending protocol's contract, as a watch list updater sees it: who   *)
(* owes what, and the streams of its events.  A debt read and the events   *)
(* come from the same node, but an event waits in its stream while the     *)
(* updater is busy.                                                        *)
(*                                                                         *)
(* This is not code of the repository: it is what the updaters assume of   *)
(* the node, the contracts and the event filters of ethers.                *)
(***************************************************************************)
EXTENDS WatchList, Sequences

CONSTANTS
  Channels,  \* the event streams
  Channel,   \* which of them carries the events of a kind
  MayEnd,    \* the streams that may end
  MaxEvents  \* bound: how many events the contract emits

Kinds == {"borrow", "repay", "liquidate"}

ASSUME EventsAssumption ==
  /\ Channel \in [Kinds -> Channels]
  /\ MayEnd \subseteq Channels
  /\ MaxEvents \in Nat

VARIABLES
  owed,    \* the pairs with a debt
  streams, \* the events of each stream not yet read
  live,    \* the streams that have not ended
  missed,  \* history: the pairs whose last borrow reached no stream
  emitted  \* how many events were emitted

eventVars == <<owed, streams, live, missed, emitted>>

Event == [kind : Kinds, pair : Pairs]

(***************************************************************************)
(* The bootstrap reads up to a block that is in the past when the streams  *)
(* are created: what is borrowed in between is missed.                     *)
(***************************************************************************)
EventsInit ==
  /\ owed \in SUBSET Pairs
  /\ streams = [c \in Channels |-> <<>>]
  /\ live = Channels
  /\ missed = owed \ cache
  /\ emitted = 0

Emit(kind, e) ==
  LET c == Channel[kind] IN
  /\ emitted < MaxEvents
  /\ emitted' = emitted + 1
  /\ streams' = IF c \in live
       THEN [streams EXCEPT ![c] = Append(@, [kind |-> kind, pair |-> e])]
       ELSE streams
  /\ missed' = IF kind # "borrow" THEN missed
               ELSE IF c \in live THEN missed \ {e} ELSE missed \cup {e}
  /\ UNCHANGED live

Borrow(e) ==
  /\ owed' = owed \cup {e}
  /\ Emit("borrow", e)

(* A repayment or a liquidation, in full or in part. *)
Reduce(e) ==
  /\ e \in owed
  /\ owed' \in {owed, owed \ {e}}
  /\ \E kind \in {"repay", "liquidate"} : Emit(kind, e)

EndStream(c) ==
  /\ c \in MayEnd \cap live
  /\ streams[c] = <<>>
  /\ live' = live \ {c}
  /\ UNCHANGED <<owed, streams, missed, emitted>>

(* The pairs whose borrow waits in a stream. *)
Pending ==
  {e \in Pairs : \E c \in Channels : \E i \in 1 .. Len(streams[c]) :
     streams[c][i] = [kind |-> "borrow", pair |-> e]}

Read(c) ==
  /\ streams[c] # <<>>
  /\ streams' = [streams EXCEPT ![c] = Tail(@)]
  /\ UNCHANGED <<owed, live, missed, emitted>>

(* An updater that stops drops its streams. *)
StopListening ==
  /\ missed' = missed \cup Pending
  /\ streams' = [c \in Channels |-> <<>>]
  /\ live' = {}
  /\ UNCHANGED <<owed, emitted>>

EventsTypeOK ==
  /\ owed \subseteq Pairs
  /\ streams \in [Channels -> Seq(Event)]
  /\ live \subseteq Channels
  /\ missed \subseteq Pairs
  /\ emitted \in 0 .. MaxEvents

=============================================================================
