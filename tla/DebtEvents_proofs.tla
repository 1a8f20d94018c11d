-------------------------- MODULE DebtEvents_proofs ---------------------------
(***************************************************************************)
(* What the operations of WatchList and DebtEvents keep, for any borrowers,*)
(* assets and streams: the lemmas the proofs of both updaters share.       *)
(***************************************************************************)
EXTENDS DebtEvents, FiniteSetTheorems, TLAPS

(* The pairs whose borrow the updater is still to read, or never will. *)
Heard == Pending \cup missed

LEMMA AppendPends ==
  ASSUME EventsTypeOK, NEW c \in Channels, NEW k \in Kinds, NEW e \in Pairs,
         streams' = [streams EXCEPT ![c] = Append(@, [kind |-> k, pair |-> e])]
  PROVE  /\ streams' \in [Channels -> Seq(Event)]
         /\ Pending \subseteq Pending'
         /\ k = "borrow" => e \in Pending'
  <1> DEFINE v == [kind |-> k, pair |-> e]
  <1>1. v \in Event
    BY DEF Event
  <1>2. streams \in [Channels -> Seq(Event)] /\ streams[c] \in Seq(Event)
    BY DEF EventsTypeOK
  <1> HIDE DEF v
  <1>3. Append(streams[c], v) \in Seq(Event)
    BY <1>1, <1>2
  <1>4. streams' = [streams EXCEPT ![c] = Append(streams[c], v)]
    BY <1>2 DEF v
  <1>5. streams' \in [Channels -> Seq(Event)]
    BY <1>2, <1>3, <1>4
  <1>6. /\ Len(Append(streams[c], v)) = Len(streams[c]) + 1
        /\ Append(streams[c], v)[Len(streams[c]) + 1] = v
        /\ \A i \in 1 .. Len(streams[c]) : Append(streams[c], v)[i] = streams[c][i]
        /\ Len(streams[c]) \in Nat
    BY <1>1, <1>2
  <1>7. Pending \subseteq Pending'
    <2> SUFFICES ASSUME NEW f \in Pending PROVE f \in Pending'
      OBVIOUS
    <2>1. PICK d \in Channels : \E i \in 1 .. Len(streams[d]) :
            streams[d][i] = [kind |-> "borrow", pair |-> f]
      BY DEF Pending
    <2>2. PICK i \in 1 .. Len(streams[d]) : streams[d][i] = [kind |-> "borrow", pair |-> f]
      BY <2>1
    <2>3. i \in 1 .. Len(streams'[d]) /\ streams'[d][i] = streams[d][i]
      BY <1>2, <1>4, <1>6
    <2>4. f \in Pairs
      BY DEF Pending
    <2> QED  BY <2>2, <2>3, <2>4 DEF Pending
  <1>8. ASSUME k = "borrow" PROVE e \in Pending'
    <2>1. streams'[c] = Append(streams[c], v)
      BY <1>2, <1>4
    <2>2. Len(streams[c]) + 1 \in 1 .. Len(streams'[c])
      BY <1>6, <2>1
    <2>3. streams'[c][Len(streams[c]) + 1] = [kind |-> "borrow", pair |-> e]
      BY <1>6, <1>8, <2>1 DEF v
    <2> QED  BY <2>2, <2>3 DEF Pending
  <1> QED  BY <1>5, <1>7, <1>8

LEMMA TailPends ==
  ASSUME EventsTypeOK, NEW c \in Channels, streams[c] # <<>>,
         streams' = [streams EXCEPT ![c] = Tail(@)]
  PROVE  /\ streams' \in [Channels -> Seq(Event)]
         /\ Head(streams[c]) \in Event
         /\ \A e \in Pending :
              e \in Pending' \/ Head(streams[c]) = [kind |-> "borrow", pair |-> e]
  <1>1. streams \in [Channels -> Seq(Event)] /\ streams[c] \in Seq(Event)
    BY DEF EventsTypeOK
  <1>2. streams' = [streams EXCEPT ![c] = Tail(streams[c])]
    OBVIOUS
  <1> DEFINE q == streams[c]
  <1>3. /\ Tail(q) \in Seq(Event) /\ Head(q) = q[1] /\ Head(q) \in Event
        /\ Len(q) \in Nat \ {0} /\ Len(Tail(q)) = Len(q) - 1
        /\ \A i \in 1 .. Len(q) - 1 : Tail(q)[i] = q[i + 1]
    BY <1>1
  <1>4. streams' \in [Channels -> Seq(Event)]
    BY <1>1, <1>2, <1>3
  <1>5. ASSUME NEW e \in Pending, Head(q) # [kind |-> "borrow", pair |-> e]
        PROVE  e \in Pending'
    <2>1. PICK d \in Channels : \E i \in 1 .. Len(streams[d]) :
            streams[d][i] = [kind |-> "borrow", pair |-> e]
      BY DEF Pending
    <2>2. PICK i \in 1 .. Len(streams[d]) : streams[d][i] = [kind |-> "borrow", pair |-> e]
      BY <2>1
    <2>3. e \in Pairs
      BY DEF Pending
    <2>4. CASE d # c
      <3>1. streams'[d] = streams[d]
        BY <1>1, <1>2, <2>4
      <3> QED  BY <2>2, <2>3, <3>1 DEF Pending
    <2>5. CASE d = c
      <3>1. i # 1
        BY <1>3, <1>5, <2>2, <2>5
      <3>2. streams'[c] = Tail(q)
        BY <1>1, <1>2
      <3>3. i \in 1 .. Len(q)
        BY <2>5
      <3>4. i - 1 \in 1 .. Len(q) - 1 /\ (i - 1) + 1 = i
        BY <1>3, <3>1, <3>3
      <3>5. i - 1 \in 1 .. Len(streams'[c]) /\ streams'[c][i - 1] = q[i]
        BY <1>3, <3>2, <3>4
      <3>6. streams'[c][i - 1] = [kind |-> "borrow", pair |-> e]
        BY <2>2, <2>5, <3>5
      <3> QED  BY <2>3, <3>5, <3>6 DEF Pending
    <2> QED  BY <2>4, <2>5
  <1> QED  BY <1>3, <1>4, <1>5

-----------------------------------------------------------------------------
LEMMA EmitKeeps ==
  ASSUME EventsTypeOK, NEW k \in Kinds, NEW e \in Pairs, Emit(k, e)
  PROVE  /\ streams' \in [Channels -> Seq(Event)]
         /\ UNCHANGED live /\ missed' \subseteq Pairs /\ emitted' \in 0 .. MaxEvents
         /\ Heard \subseteq Heard'
         /\ k = "borrow" => e \in Heard'
  <1> DEFINE c == Channel[k]
  <1>1. c \in Channels
    BY EventsAssumption
  <1>2. /\ emitted' \in 0 .. MaxEvents /\ missed' \subseteq Pairs /\ UNCHANGED live
    BY EventsAssumption DEF Emit, EventsTypeOK
  <1>3. CASE c \in live
    <2>1. streams' = [streams EXCEPT ![c] = Append(@, [kind |-> k, pair |-> e])]
      BY <1>3 DEF Emit
    <2>2. /\ streams' \in [Channels -> Seq(Event)]
          /\ Pending \subseteq Pending' /\ (k = "borrow" => e \in Pending')
      BY <1>1, <2>1, AppendPends
    <2>3. missed \subseteq missed' \cup (IF k = "borrow" THEN {e} ELSE {})
      BY <1>3 DEF Emit
    <2> QED  BY <1>2, <2>2, <2>3 DEF Heard
  <1>4. CASE c \notin live
    <2>1. streams' = streams
      BY <1>4 DEF Emit
    <2>2. Pending' = Pending
      BY <2>1 DEF Pending
    <2>3. missed \subseteq missed' /\ (k = "borrow" => e \in missed')
      BY <1>4 DEF Emit
    <2>4. streams' \in [Channels -> Seq(Event)]
      BY <2>1 DEF EventsTypeOK
    <2> QED  BY <1>2, <2>2, <2>3, <2>4 DEF Heard
  <1> QED  BY <1>3, <1>4

LEMMA BorrowKeeps ==
  ASSUME EventsTypeOK, NEW e \in Pairs, Borrow(e)
  PROVE  EventsTypeOK' /\ owed' = owed \cup {e} /\ Heard \cup {e} \subseteq Heard'
  BY EmitKeeps DEF Borrow, EventsTypeOK, Kinds

LEMMA ReduceKeeps ==
  ASSUME EventsTypeOK, NEW e \in Pairs, Reduce(e)
  PROVE  EventsTypeOK' /\ owed' \subseteq owed /\ Heard \subseteq Heard'
  <1>1. PICK k \in {"repay", "liquidate"} : Emit(k, e)
    BY DEF Reduce
  <1>2. k \in Kinds
    BY DEF Kinds
  <1> QED  BY <1>1, <1>2, EmitKeeps DEF Reduce, EventsTypeOK

LEMMA EndStreamKeeps ==
  ASSUME EventsTypeOK, NEW c \in Channels, EndStream(c)
  PROVE  EventsTypeOK' /\ owed' = owed /\ Heard \subseteq Heard'
  BY DEF EndStream, EventsTypeOK, Heard, Pending

LEMMA ReadKeeps ==
  ASSUME EventsTypeOK, NEW c \in Channels, Read(c)
  PROVE  /\ EventsTypeOK' /\ owed' = owed
         /\ Head(streams[c]).pair \in Pairs
         /\ \A e \in Heard :
              e \in Heard' \/ (/\ Head(streams[c]).kind = "borrow"
                               /\ Head(streams[c]).pair = e)
  <1>1. /\ streams' \in [Channels -> Seq(Event)]
        /\ Head(streams[c]) \in Event
        /\ \A e \in Pending :
             e \in Pending' \/ Head(streams[c]) = [kind |-> "borrow", pair |-> e]
    BY TailPends DEF Read
  <1>2. EventsTypeOK' /\ owed' = owed /\ missed' = missed
    BY <1>1 DEF Read, EventsTypeOK
  <1>3. Head(streams[c]).pair \in Pairs
    BY <1>1 DEF Event
  <1>4. ASSUME NEW e \in Heard, e \notin Heard'
        PROVE  Head(streams[c]).kind = "borrow" /\ Head(streams[c]).pair = e
    <2>1. e \in Pending /\ e \notin Pending'
      BY <1>2, <1>4 DEF Heard
    <2>2. Head(streams[c]) = [kind |-> "borrow", pair |-> e]
      BY <1>1, <2>1
    <2> QED  BY <2>2
  <1> QED  BY <1>2, <1>3, <1>4

LEMMA StopKeeps ==
  ASSUME EventsTypeOK, StopListening
  PROVE  EventsTypeOK' /\ owed' = owed /\ Heard \subseteq Heard'
  <1>1. Pending \subseteq Pairs
    BY DEF Pending
  <1>2. streams' \in [Channels -> Seq(Event)]
    BY DEF StopListening
  <1> QED  BY <1>1, <1>2 DEF StopListening, EventsTypeOK, Heard

LEMMA StillKeeps == UNCHANGED eventVars => Heard' = Heard
  BY DEF eventVars, Heard, Pending

-----------------------------------------------------------------------------
LEMMA RowsOf == ASSUME NEW S \in SUBSET Pairs, NEW e PROVE RowOf(S, e) \subseteq Pairs
  BY DEF RowOf

LEMMA PersistKeeps ==
  ASSUME ListTypeOK, NEW e \in Pairs, cache' \in SUBSET Pairs, Persist(e)
  PROVE  /\ ListTypeOK' /\ rows' = rows /\ sledFailures' = sledFailures
         /\ job' = [job EXCEPT ![e] = "write"]
         /\ row' = [row EXCEPT ![e] = RowOf(cache', e)]
  <1>1. RowOf(cache', e) \in SUBSET Pairs
    BY RowsOf
  <1>2. row' = [row EXCEPT ![e] = RowOf(cache', e)]
    BY DEF Persist
  <1>3. row' \in [Pairs -> SUBSET Pairs]
    BY <1>1, <1>2 DEF ListTypeOK
  <1>4. job' = [job EXCEPT ![e] = "write"] /\ rows' = rows /\ sledFailures' = sledFailures
    BY DEF Persist, SetJob
  <1>5. job' \in [Pairs -> Stages]
    BY <1>4 DEF ListTypeOK, Stages
  <1> QED  BY <1>2, <1>3, <1>4, <1>5 DEF ListTypeOK

LEMMA AddKeeps ==
  ASSUME ListTypeOK, NEW e \in Pairs, Add(e)
  PROVE  ListTypeOK'
  <1>1. cache' \in SUBSET Pairs
    BY DEF Add, ListTypeOK
  <1>2. CASE e \in cache
    BY <1>1, <1>2 DEF Add, ListTypeOK
  <1>3. CASE e \notin cache
    BY <1>1, <1>3, PersistKeeps DEF Add
  <1> QED  BY <1>2, <1>3

LEMMA SetJobKeeps ==
  ASSUME ListTypeOK, NEW e \in Pairs, NEW s \in Stages, SetJob(e, s),
         UNCHANGED <<cache, rows, row, sledFailures>>
  PROVE  ListTypeOK'
  BY DEF ListTypeOK, SetJob

LEMMA RemoveKeeps ==
  ASSUME ListTypeOK, NEW e \in Pairs, Remove(e)
  PROVE  ListTypeOK'
  <1>1. cache' \in SUBSET Pairs
    BY DEF Remove, ListTypeOK
  <1>2. CASE e \in cache
    BY <1>1, <1>2, PersistKeeps DEF Remove
  <1>3. CASE e \notin cache
    BY <1>1, <1>3 DEF Remove, SetJob, ListTypeOK, Stages
  <1> QED  BY <1>2, <1>3

LEMMA WriteKeeps ==
  ASSUME ListTypeOK, NEW e \in Pairs, WriteRow(e) \/ WriteFails(e)
  PROVE  ListTypeOK'
  <1>1. /\ row' = [row EXCEPT ![e] = {}] /\ job' = [job EXCEPT ![e] = "none"]
        /\ cache' = cache
    BY DEF WriteRow, WriteFails, SetJob
  <1>2. row' \in [Pairs -> SUBSET Pairs] /\ job' \in [Pairs -> Stages]
    BY <1>1 DEF ListTypeOK, Stages
  <1>3. rows' \subseteq Pairs
    BY DEF WriteRow, WriteFails, ListTypeOK
  <1>4. sledFailures' \in 0 .. MaxSledFailures
    BY WatchListAssumption DEF WriteRow, WriteFails, ListTypeOK
  <1> QED  BY <1>1, <1>2, <1>3, <1>4 DEF ListTypeOK

-----------------------------------------------------------------------------
(* An answer "no debt" that is acted upon later is wrong only if a borrow  *)
(* came after it, and that the updater is still to read.                   *)
ClearedHeard == \A e \in Pairs : job[e] = "clear" /\ e \in owed => e \in Heard

DebtorsKept == owed \subseteq cache \cup Heard

Safe == ClearedHeard /\ DebtorsKept

LEMMA SafeStays ==
  ASSUME Safe, owed' \subseteq owed, Heard \subseteq Heard', cache' = cache,
         \A e \in Pairs : job'[e] = "clear" => job[e] = "clear"
  PROVE  Safe'
  BY DEF Safe, ClearedHeard, DebtorsKept

LEMMA SafeChain ==
  ASSUME Safe, EventsTypeOK, cache' = cache, job' = job,
         \/ \E e \in Pairs : Borrow(e) \/ Reduce(e)
         \/ \E c \in Channels : EndStream(c)
  PROVE  Safe' /\ EventsTypeOK'
  <1>1. ASSUME NEW e \in Pairs, Borrow(e) PROVE Safe' /\ EventsTypeOK'
    <2>1. EventsTypeOK' /\ owed' = owed \cup {e} /\ Heard \cup {e} \subseteq Heard'
      BY <1>1, BorrowKeeps
    <2> QED  BY <2>1 DEF Safe, ClearedHeard, DebtorsKept
  <1>2. ASSUME NEW e \in Pairs, Reduce(e) PROVE Safe' /\ EventsTypeOK'
    BY <1>2, ReduceKeeps, SafeStays
  <1>3. ASSUME NEW c \in Channels, EndStream(c) PROVE Safe' /\ EventsTypeOK'
    BY <1>3, EndStreamKeeps, SafeStays
  <1> QED  BY <1>1, <1>2, <1>3

LEMMA SafeBorrow ==
  ASSUME Safe, EventsTypeOK, ListTypeOK, NoJobs, NEW c \in Channels, Read(c),
         Head(streams[c]).kind = "borrow", Add(Head(streams[c]).pair)
  PROVE  Safe' /\ EventsTypeOK' /\ ListTypeOK'
  <1> DEFINE b == Head(streams[c]).pair
  <1>1. /\ EventsTypeOK' /\ owed' = owed /\ b \in Pairs
        /\ \A e \in Heard : e \in Heard' \/ b = e
    BY ReadKeeps
  <1> HIDE DEF b
  <1>2. Add(b)
    BY DEF b
  <1>3. cache' = cache \cup {b}
    BY <1>2 DEF Add
  <1>4. \A e \in Pairs : job'[e] # "clear"
    BY <1>1, <1>2 DEF Add, Persist, SetJob, NoJobs, ListTypeOK
  <1>5. Safe'
    BY <1>1, <1>3, <1>4 DEF Safe, ClearedHeard, DebtorsKept
  <1>6. ListTypeOK'
    BY <1>1, <1>2, AddKeeps
  <1> QED  BY <1>1, <1>5, <1>6

LEMMA SafeRepay ==
  ASSUME Safe, EventsTypeOK, ListTypeOK, NoJobs, NEW c \in Channels, Read(c),
         Head(streams[c]).kind # "borrow", SetJob(Head(streams[c]).pair, "check"),
         UNCHANGED <<cache, rows, row, sledFailures>>
  PROVE  /\ Safe' /\ EventsTypeOK' /\ ListTypeOK'
         /\ Head(streams[c]).pair \in Pairs
  <1> DEFINE b == Head(streams[c]).pair
  <1>1. /\ EventsTypeOK' /\ owed' = owed /\ b \in Pairs
        /\ Heard \subseteq Heard'
    BY ReadKeeps
  <1> HIDE DEF b
  <1>2. job' = [job EXCEPT ![b] = "check"]
    BY DEF b, SetJob
  <1>3. \A e \in Pairs : job'[e] # "clear"
    BY <1>1, <1>2 DEF NoJobs, ListTypeOK
  <1>4. Safe'
    BY <1>1, <1>3, SafeStays
  <1>5. ListTypeOK'
    BY <1>1, <1>2, SetJobKeeps DEF SetJob, Stages
  <1> QED  BY <1>1, <1>4, <1>5 DEF b

LEMMA SafeCheck ==
  ASSUME Safe, ListTypeOK, NEW e \in Pairs,
         SetJob(e, IF e \in owed THEN "none" ELSE "clear"),
         UNCHANGED <<cache, rows, row, sledFailures, eventVars>>
  PROVE  Safe' /\ ListTypeOK'
  <1>1. Heard' = Heard /\ owed' = owed
    BY StillKeeps DEF eventVars
  <1>2. ListTypeOK'
    BY SetJobKeeps DEF Stages
  <1>3. \A f \in Pairs : job'[f] = "clear" => job[f] = "clear" \/ (f = e /\ e \notin owed)
    BY DEF SetJob, ListTypeOK
  <1> QED  BY <1>1, <1>2, <1>3 DEF Safe, ClearedHeard, DebtorsKept

LEMMA SafeSetJob ==
  ASSUME Safe, ListTypeOK, NEW e \in Pairs, NEW s \in {"none", "check"}, SetJob(e, s),
         UNCHANGED <<cache, rows, row, sledFailures>>,
         owed' \subseteq owed, Heard \subseteq Heard'
  PROVE  Safe' /\ ListTypeOK'
  <1>1. ListTypeOK'
    BY SetJobKeeps DEF Stages
  <1>2. \A f \in Pairs : job'[f] = "clear" => job[f] = "clear"
    BY DEF SetJob, ListTypeOK
  <1> QED  BY <1>1, <1>2, SafeStays

LEMMA SafeRemove ==
  ASSUME Safe, ListTypeOK, NEW e \in Pairs, Remove(e), UNCHANGED eventVars
  PROVE  Safe' /\ ListTypeOK'
  <1>1. Heard' = Heard /\ owed' = owed
    BY StillKeeps DEF eventVars
  <1>2. cache' = cache \ {e} /\ job[e] = "clear"
    BY DEF Remove
  <1>3. \A f \in Pairs : job'[f] = "clear" => job[f] = "clear"
    BY DEF Remove, Persist, SetJob, ListTypeOK
  <1>4. ListTypeOK'
    BY RemoveKeeps
  <1> QED  BY <1>1, <1>2, <1>3, <1>4 DEF Safe, ClearedHeard, DebtorsKept

LEMMA SafeWrite ==
  ASSUME Safe, ListTypeOK, NEW e \in Pairs, WriteRow(e) \/ WriteFails(e),
         owed' \subseteq owed, Heard \subseteq Heard'
  PROVE  Safe' /\ ListTypeOK'
  <1>1. cache' = cache /\ \A f \in Pairs : job'[f] = "clear" => job[f] = "clear"
    BY DEF WriteRow, WriteFails, SetJob, ListTypeOK
  <1> QED  BY <1>1, SafeStays, WriteKeeps

LEMMA SafeInit ==
  ASSUME ListInit, EventsInit
  PROVE  Safe /\ ListTypeOK /\ EventsTypeOK /\ NoJobs
  <1>1. ListTypeOK
    BY WatchListAssumption DEF ListInit, ListTypeOK, Stages
  <1>2. EventsTypeOK
    BY EventsAssumption DEF EventsInit, EventsTypeOK
  <1>3. NoJobs /\ \A e \in Pairs : job[e] = "none"
    BY DEF ListInit, NoJobs
  <1>4. owed \subseteq cache \cup Heard
    BY DEF EventsInit, Heard
  <1> QED  BY <1>1, <1>2, <1>3, <1>4 DEF Safe, ClearedHeard, DebtorsKept

-----------------------------------------------------------------------------
(* How many jobs are under way, when one of them moves to another stage. *)
LEMMA ActiveCounts ==
  /\ IsFiniteSet(Active) /\ Cardinality(Active) \in Nat
  /\ \A D \in SUBSET Active : Cardinality(D) <= Cardinality(Active)
  <1>1. IsFiniteSet(Pairs)
    BY FS_Product, WatchListAssumption DEF Pairs
  <1>2. Active \in SUBSET Pairs
    BY DEF Active
  <1>3. IsFiniteSet(Active)
    BY <1>1, <1>2, FS_Subset
  <1> QED  BY <1>3, FS_Subset, FS_CardinalityType

LEMMA ActiveStep ==
  ASSUME ListTypeOK, NEW e \in Pairs, NEW s \in Stages, SetJob(e, s)
  PROVE  /\ Cardinality(Active) \in Nat /\ Cardinality(Active') \in Nat
         /\ Cardinality(Active') <= Cardinality(Active) + 1
         /\ e \in Active \/ s \in {"none", "waiting"} =>
              Cardinality(Active') <= Cardinality(Active)
  <1> DEFINE bound == IF e \in Active THEN Active ELSE Active \cup {e}
  <1>1. IsFiniteSet(Active) /\ Cardinality(Active) \in Nat
    BY ActiveCounts
  <1>2. /\ IsFiniteSet(Active \cup {e})
        /\ e \notin Active => Cardinality(Active \cup {e}) = Cardinality(Active) + 1
        /\ e \in Active => Active \cup {e} = Active
    BY <1>1, FS_AddElement
  <1>3. job' = [job EXCEPT ![e] = s] /\ job \in [Pairs -> Stages]
    BY DEF SetJob, ListTypeOK
  <1>4. Active' \in SUBSET (Active \cup {e})
    BY <1>3 DEF Active
  <1>5. Cardinality(Active') <= Cardinality(Active \cup {e}) /\ IsFiniteSet(Active')
    BY <1>2, <1>4, FS_Subset
  <1>6. Cardinality(Active') \in Nat
    BY <1>5, FS_CardinalityType
  <1>7. ASSUME s \in {"none", "waiting"} PROVE Cardinality(Active') <= Cardinality(Active)
    <2>1. Active' \in SUBSET Active
      BY <1>3, <1>7 DEF Active
    <2> QED  BY <1>1, <2>1, FS_Subset
  <1>8. ASSUME e \in Active PROVE Cardinality(Active') <= Cardinality(Active)
    BY <1>2, <1>5, <1>8
  <1>9. Cardinality(Active') <= Cardinality(Active) + 1
    <2>1. CASE e \in Active
      BY <1>1, <1>6, <1>8, <2>1
    <2>2. CASE e \notin Active
      BY <1>2, <1>5, <2>2
    <2> QED  BY <2>1, <2>2
  <1> QED  BY <1>1, <1>6, <1>7, <1>8, <1>9

LEMMA IdleCounts == NoJobs => Active = {} /\ Cardinality(Active) = 0
  BY FS_EmptySet DEF NoJobs, Active

(* The steps of a job move it alone, and to no later job's place. *)
LEMMA JobMoves ==
  ASSUME NEW e \in Pairs,
         \/ Remove(e) \/ WriteRow(e) \/ WriteFails(e)
  PROVE  /\ job[e] # "none"
         /\ \E s \in Stages : SetJob(e, s)
         /\ job[e] \in {"clear", "write"}
  BY DEF Remove, WriteRow, WriteFails, Persist, Stages

(***************************************************************************)
(* What an updater at p has under way when a prune may run n jobs at once: *)
(* between handlers and once stopped nothing, in an event's handler one    *)
(* job.                                                                    *)
(***************************************************************************)
UnderWay(p, n) ==
  /\ p \in {"select", "stopped"} => NoJobs
  /\ p = "event" => \A e, f \in Pairs : job[e] # "none" /\ job[f] # "none" => e = f
  /\ Cardinality(Active) <= n

(* A step of a job that exists; an error in an event's handler stops it. *)
LEMMA UnderWayStep ==
  ASSUME NEW p, NEW q, NEW n \in Nat, UnderWay(p, n), ListTypeOK,
         NEW e \in Pairs, NEW s \in Stages, SetJob(e, s), job[e] # "none",
         e \in Active \/ Cardinality(Active) < n,
         q = p \/ (p = "event" /\ q = "stopped" /\ s = "none")
  PROVE  UnderWay(q, n)'
  <1>1. job' = [job EXCEPT ![e] = s] /\ job \in [Pairs -> Stages]
    BY DEF SetJob, ListTypeOK
  <1>2. p \notin {"select", "stopped"}
    BY DEF UnderWay, NoJobs
  <1>3. q \in {"select", "stopped"} => NoJobs'
    BY <1>1, <1>2 DEF UnderWay, NoJobs
  <1>4. q = "event" => \A f, g \in Pairs : job'[f] # "none" /\ job'[g] # "none" => f = g
    BY <1>1 DEF UnderWay
  <1>5. Cardinality(Active') <= n
    BY ActiveStep DEF UnderWay
  <1> QED  BY <1>3, <1>4, <1>5 DEF UnderWay

(* An event's handler begins with no job, and has one at most. *)
LEMMA UnderWayEvent ==
  ASSUME NoJobs, ListTypeOK, NEW e \in Pairs, NEW n \in Nat \ {0},
         job' = job \/ \E s \in Stages : SetJob(e, s)
  PROVE  UnderWay("event", n)'
  <1>1. Cardinality(Active) = 0
    BY IdleCounts
  <1>2. CASE job' = job
    <2>1. NoJobs' /\ Active' = Active
      BY <1>2 DEF NoJobs, Active
    <2> QED  BY <1>1, <2>1 DEF UnderWay, NoJobs
  <1>3. ASSUME NEW s \in Stages, SetJob(e, s) PROVE UnderWay("event", n)'
    <2>1. Cardinality(Active') <= n
      BY <1>1, <1>3, ActiveStep
    <2>2. job' = [job EXCEPT ![e] = s] /\ \A f \in Pairs : job[f] = "none"
      BY <1>3 DEF SetJob, NoJobs
    <2>3. \A f, g \in Pairs : job'[f] # "none" /\ job'[g] # "none" => f = g
      BY <2>2 DEF ListTypeOK
    <2> QED  BY <2>1, <2>3 DEF UnderWay
  <1> QED  BY <1>2, <1>3

(* A prune begins with jobs that wait. *)
LEMMA UnderWayPrune ==
  ASSUME NEW n \in Nat, \A e \in Pairs : job'[e] \in {"none", "waiting"}
  PROVE  UnderWay("prune", n)'
  <1>1. Active' = {}
    BY DEF Active
  <1>2. Cardinality(Active') = 0
    BY <1>1, FS_EmptySet
  <1> QED  BY <1>2 DEF UnderWay

(* What leaves the jobs alone, or finds none. *)
LEMMA UnderWayStays ==
  ASSUME NEW p, NEW q, NEW n \in Nat, UnderWay(p, n), job' = job,
         q = p \/ NoJobs
  PROVE  UnderWay(q, n)'
  <1>1. Active' = Active /\ (NoJobs' <=> NoJobs)
    BY DEF Active, NoJobs
  <1> QED  BY <1>1 DEF UnderWay, NoJobs

=============================================================================
