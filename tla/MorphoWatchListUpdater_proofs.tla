--------------------- MODULE MorphoWatchListUpdater_proofs --------------------
(***************************************************************************)
(* Morpho's watch list updater, for any borrowers, markets, streams and    *)
(* width of a prune: no debt it heard of is lost, and between two handlers *)
(* the tree holds every tracked pair.                                      *)
(***************************************************************************)
EXTENDS MorphoWatchListUpdater, DebtEvents_proofs

(* A handler runs to its end before the next select. *)
SelectIdle == updater = "select" => NoJobs

(* The copy a job is to write holds what its borrower still has: the map   *)
(* only shrinks while jobs are under way.                                  *)
CopiesCover == \A e \in Pairs : job[e] = "write" => RowOf(cache, e) \subseteq row[e]

(* What is tracked and not in the tree is about to be written by the       *)
(* handler of its borrow.                                                  *)
OnDisk ==
  \A e \in cache :
    \/ updater = "stopped"
    \/ e \in rows
    \/ updater = "event" /\ job[e] = "write"

Inv == TypeOK /\ SelectIdle /\ Safe /\ CopiesCover /\ OnDisk

-----------------------------------------------------------------------------
LEMMA InvInit == Init => Inv
  <1> SUFFICES ASSUME Init PROVE Inv
    OBVIOUS
  <1>1. Safe /\ ListTypeOK /\ EventsTypeOK /\ NoJobs
    BY SafeInit DEF Init
  <1>2. TypeOK
    BY <1>1, UpdaterAssumption DEF Init, TypeOK
  <1>3. CopiesCover
    BY <1>1 DEF CopiesCover, NoJobs
  <1>4. OnDisk
    BY DEF Init, ListInit, OnDisk
  <1> QED  BY <1>1, <1>2, <1>3, <1>4 DEF Inv, SelectIdle

LEMMA ChainKeeps == Inv /\ ChainStep => Inv'
  <1> SUFFICES ASSUME Inv, ChainStep PROVE Inv'
    OBVIOUS
  <1>1. UNCHANGED <<cache, rows, job, row, sledFailures, updater, commands>>
    BY DEF ChainStep, listVars
  <1>2. Safe' /\ EventsTypeOK'
    BY <1>1, SafeChain DEF Inv, TypeOK, ChainStep
  <1>3. ListTypeOK' /\ (NoJobs' <=> NoJobs)
    BY <1>1 DEF Inv, TypeOK, ListTypeOK, NoJobs
  <1>4. TypeOK' /\ SelectIdle'
    BY <1>1, <1>2, <1>3 DEF Inv, TypeOK, SelectIdle
  <1>5. CopiesCover' /\ OnDisk'
    BY <1>1 DEF Inv, CopiesCover, OnDisk, RowOf
  <1> QED  BY <1>2, <1>4, <1>5 DEF Inv

LEMMA BorrowHandled == ASSUME Inv, NEW c \in Channels, HandleBorrow(c) PROVE Inv'
  <1> DEFINE b == Head(streams[c]).pair
  <1>1. NoJobs /\ Safe /\ ListTypeOK /\ EventsTypeOK
    BY DEF Inv, TypeOK, SelectIdle, HandleBorrow
  <1>2. Safe' /\ EventsTypeOK' /\ ListTypeOK'
    BY <1>1, SafeBorrow DEF HandleBorrow
  <1>3. b \in Pairs /\ Add(b)
    BY <1>1, ReadKeeps DEF HandleBorrow
  <1>4. updater' = "event" /\ commands' = commands
    BY DEF HandleBorrow
  <1> HIDE DEF b
  <1>5. /\ cache' = cache \cup {b} /\ rows' = rows
        /\ \A e \in Pairs : job'[e] = "write" => e = b /\ row'[e] = RowOf(cache', e)
        /\ b \notin cache => job'[b] = "write"
    BY <1>1, <1>3 DEF Add, Persist, SetJob, NoJobs, ListTypeOK
  <1>6. cache \subseteq rows
    BY <1>1 DEF Inv, OnDisk, NoJobs, ListTypeOK, HandleBorrow
  <1>7. OnDisk'
    BY <1>4, <1>5, <1>6 DEF OnDisk
  <1>8. CopiesCover'
    BY <1>5 DEF CopiesCover, RowOf
  <1>9. TypeOK'
    BY <1>2, <1>4 DEF Inv, TypeOK
  <1> QED  BY <1>2, <1>4, <1>7, <1>8, <1>9 DEF Inv, SelectIdle

LEMMA RepayHandled == ASSUME Inv, NEW c \in Channels, HandleRepay(c) PROVE Inv'
  <1> DEFINE b == Head(streams[c]).pair
  <1>1. NoJobs /\ Safe /\ ListTypeOK /\ EventsTypeOK
    BY DEF Inv, TypeOK, SelectIdle, HandleRepay
  <1>2. Safe' /\ EventsTypeOK' /\ ListTypeOK' /\ b \in Pairs
    BY <1>1, SafeRepay DEF HandleRepay
  <1>3. SetJob(b, "check") /\ UNCHANGED <<cache, rows, commands>> /\ updater' = "event"
    BY DEF HandleRepay
  <1> HIDE DEF b
  <1>4. \A e \in Pairs : job'[e] # "write"
    BY <1>1, <1>2, <1>3 DEF SetJob, NoJobs, ListTypeOK
  <1>5. cache \subseteq rows
    BY <1>1 DEF Inv, OnDisk, NoJobs, ListTypeOK, HandleRepay
  <1>6. CopiesCover' /\ OnDisk'
    BY <1>3, <1>4, <1>5 DEF CopiesCover, OnDisk
  <1>7. TypeOK'
    BY <1>2, <1>3 DEF Inv, TypeOK
  <1> QED  BY <1>2, <1>3, <1>6, <1>7 DEF Inv, SelectIdle

LEMMA PruneStarted == Inv /\ StartPrune => Inv'
  <1> SUFFICES ASSUME Inv, StartPrune PROVE Inv'
    OBVIOUS
  <1>1. /\ NoJobs /\ ListTypeOK /\ EventsTypeOK /\ UNCHANGED eventVars
        /\ UNCHANGED <<cache, rows, row, sledFailures>>
        /\ updater' = "prune" /\ commands > 0 /\ commands' = commands - 1
        /\ job' = [e \in Pairs |-> IF e \in cache THEN "waiting" ELSE "none"]
    BY DEF Inv, TypeOK, SelectIdle, StartPrune
  <1>2. \A e \in Pairs : job'[e] \notin {"clear", "write"}
    BY <1>1
  <1>3. Heard' = Heard /\ owed' = owed /\ EventsTypeOK'
    BY <1>1, StillKeeps DEF eventVars, EventsTypeOK
  <1>4. Safe'
    BY <1>1, <1>2, <1>3, SafeStays DEF Inv
  <1>5. TypeOK'
    BY <1>1, <1>3, UpdaterAssumption DEF Inv, TypeOK, ListTypeOK, Stages
  <1>6. cache \subseteq rows
    BY <1>1 DEF Inv, OnDisk, NoJobs, ListTypeOK, StartPrune
  <1>7. CopiesCover' /\ OnDisk' /\ SelectIdle'
    BY <1>1, <1>2, <1>6 DEF CopiesCover, OnDisk, SelectIdle
  <1> QED  BY <1>4, <1>5, <1>7 DEF Inv

-----------------------------------------------------------------------------
(* A job that moves on without writing. *)
LEMMA StageKeeps ==
  ASSUME Inv, NEW e \in Pairs, NEW s \in {"none", "check", "clear"}, SetJob(e, s),
         job[e] \in {"waiting", "check"}, Safe', ListTypeOK',
         UNCHANGED <<cache, rows, row, sledFailures, eventVars, updater, commands>>
  PROVE  Inv'
  <1>1. EventsTypeOK'
    BY DEF Inv, TypeOK, EventsTypeOK, eventVars
  <1>2. TypeOK'
    BY <1>1 DEF Inv, TypeOK
  <1>3. SelectIdle'
    BY DEF Inv, SelectIdle, NoJobs
  <1>4. \A f \in Pairs : (job'[f] = "write" <=> job[f] = "write")
    BY DEF SetJob, Inv, TypeOK, ListTypeOK
  <1>5. CopiesCover'
    BY <1>4 DEF Inv, CopiesCover, RowOf
  <1>6. OnDisk'
    BY <1>4 DEF Inv, OnDisk, TypeOK, ListTypeOK
  <1> QED  BY <1>2, <1>3, <1>5, <1>6 DEF Inv

LEMMA JobBegun == ASSUME Inv, NEW e \in Pairs, BeginJob(e) PROVE Inv'
  <1>1. Safe' /\ ListTypeOK'
    BY SafeSetJob, StillKeeps DEF Inv, TypeOK, BeginJob, eventVars
  <1> QED  BY <1>1, StageKeeps DEF BeginJob

LEMMA DebtChecked == ASSUME Inv, NEW e \in Pairs, CheckDebt(e) PROVE Inv'
  <1>1. Safe' /\ ListTypeOK'
    BY SafeCheck DEF Inv, TypeOK, CheckDebt
  <1> QED  BY <1>1, StageKeeps DEF CheckDebt

LEMMA CheckFailed == ASSUME Inv, NEW e \in Pairs, CheckFails(e) PROVE Inv'
  <1>1. Safe' /\ ListTypeOK'
    BY SafeSetJob, StillKeeps DEF Inv, TypeOK, CheckFails, eventVars
  <1> QED  BY <1>1, StageKeeps DEF CheckFails

LEMMA ClearedRemoved == ASSUME Inv, NEW e \in Pairs, RemoveCleared(e) PROVE Inv'
  <1>1. Remove(e) /\ UNCHANGED <<eventVars, updater, commands>>
    BY DEF RemoveCleared
  <1>2. Safe' /\ ListTypeOK'
    BY <1>1, SafeRemove DEF Inv, TypeOK
  <1>3. TypeOK'
    BY <1>1, <1>2 DEF Inv, TypeOK, EventsTypeOK, eventVars
  <1>4. SelectIdle'
    BY <1>1 DEF Inv, SelectIdle, NoJobs, Remove
  <1>5. /\ cache' = cache \ {e} /\ rows' = rows
        /\ \A f \in Pairs : f # e => job'[f] = job[f] /\ row'[f] = row[f]
        /\ job'[e] = "write" => row'[e] = RowOf(cache', e)
    BY <1>1 DEF Remove, Persist, SetJob, Inv, TypeOK, ListTypeOK
  <1>6. CopiesCover'
    BY <1>5 DEF Inv, CopiesCover, RowOf
  <1>7. OnDisk'
    BY <1>1, <1>5 DEF Inv, OnDisk, TypeOK, ListTypeOK
  <1> QED  BY <1>2, <1>3, <1>4, <1>6, <1>7 DEF Inv

LEMMA RowWritten == ASSUME Inv, NEW e \in Pairs, FinishWrite(e) PROVE Inv'
  <1>1. WriteRow(e) /\ UNCHANGED <<eventVars, updater, commands>>
    BY DEF FinishWrite
  <1>2. Safe' /\ ListTypeOK'
    BY <1>1, SafeWrite, StillKeeps DEF Inv, TypeOK, eventVars
  <1>3. TypeOK'
    BY <1>1, <1>2 DEF Inv, TypeOK, EventsTypeOK, eventVars
  <1>4. SelectIdle'
    BY <1>1 DEF Inv, SelectIdle, NoJobs, WriteRow
  <1>5. /\ cache' = cache /\ job[e] = "write" /\ job'[e] = "none"
        /\ rows' = (rows \ RowOf(rows, e)) \cup row[e]
        /\ \A f \in Pairs : f # e => job'[f] = job[f] /\ row'[f] = row[f]
    BY <1>1 DEF WriteRow, SetJob, Inv, TypeOK, ListTypeOK
  <1>6. CopiesCover'
    BY <1>5 DEF Inv, CopiesCover, RowOf
  <1>7. RowOf(cache, e) \subseteq row[e]
    BY <1>5 DEF Inv, CopiesCover
  <1>8. OnDisk'
    BY <1>1, <1>5, <1>7 DEF Inv, OnDisk, TypeOK, ListTypeOK, RowOf
  <1> QED  BY <1>2, <1>3, <1>4, <1>6, <1>8 DEF Inv

LEMMA WriteFailed == ASSUME Inv, NEW e \in Pairs, FailWrite(e) PROVE Inv'
  <1>1. WriteFails(e) /\ commands' = commands
    BY DEF FailWrite
  <1>2. EventsTypeOK' /\ owed' = owed /\ Heard \subseteq Heard'
    BY StopKeeps, StillKeeps DEF FailWrite, Inv, TypeOK, EventsTypeOK, eventVars
  <1>3. Safe' /\ ListTypeOK'
    BY <1>1, <1>2, SafeWrite DEF Inv, TypeOK
  <1>4. /\ updater' \in {"select", "event", "prune", "stopped"}
        /\ updater = "event" => updater' = "stopped"
        /\ updater # "event" => updater' = updater
    BY DEF FailWrite, Inv, TypeOK
  <1>5. TypeOK'
    BY <1>1, <1>2, <1>3, <1>4 DEF Inv, TypeOK
  <1>6. SelectIdle'
    BY <1>1, <1>4 DEF Inv, SelectIdle, NoJobs, WriteFails
  <1>7. /\ cache' = cache /\ rows' = rows /\ job'[e] = "none"
        /\ \A f \in Pairs : f # e => job'[f] = job[f] /\ row'[f] = row[f]
    BY <1>1 DEF WriteFails, SetJob, Inv, TypeOK, ListTypeOK
  <1>8. CopiesCover'
    BY <1>7 DEF Inv, CopiesCover, RowOf
  <1>9. OnDisk'
    BY <1>4, <1>7 DEF Inv, OnDisk
  <1> QED  BY <1>3, <1>5, <1>6, <1>8, <1>9 DEF Inv

LEMMA HandlerFinished == Inv /\ FinishHandler => Inv'
  <1> SUFFICES ASSUME Inv, FinishHandler PROVE Inv'
    OBVIOUS
  <1>1. /\ NoJobs /\ UNCHANGED <<cache, rows, job, row, sledFailures, eventVars, commands>>
        /\ updater' = "select" /\ updater # "stopped"
    BY DEF FinishHandler, listVars
  <1>2. Safe' /\ ListTypeOK' /\ EventsTypeOK'
    BY <1>1, StillKeeps, SafeStays DEF Inv, TypeOK, ListTypeOK, EventsTypeOK, eventVars
  <1>3. TypeOK' /\ SelectIdle'
    BY <1>1, <1>2 DEF Inv, TypeOK, SelectIdle, NoJobs
  <1>4. CopiesCover' /\ OnDisk'
    BY <1>1 DEF Inv, CopiesCover, OnDisk, RowOf, NoJobs, TypeOK, ListTypeOK
  <1> QED  BY <1>2, <1>3, <1>4 DEF Inv

LEMMA Stopped == Inv /\ Stop => Inv'
  <1> SUFFICES ASSUME Inv, Stop PROVE Inv'
    OBVIOUS
  <1>1. /\ UNCHANGED <<cache, rows, job, row, sledFailures, commands>>
        /\ updater' = "stopped" /\ StopListening
    BY DEF Stop, listVars
  <1>2. EventsTypeOK' /\ owed' = owed /\ Heard \subseteq Heard'
    BY <1>1, StopKeeps DEF Inv, TypeOK
  <1>3. Safe' /\ ListTypeOK'
    BY <1>1, <1>2, SafeStays DEF Inv, TypeOK, ListTypeOK
  <1>4. TypeOK' /\ SelectIdle'
    BY <1>1, <1>2, <1>3 DEF Inv, TypeOK, SelectIdle
  <1>5. CopiesCover' /\ OnDisk'
    BY <1>1 DEF Inv, CopiesCover, OnDisk, RowOf
  <1> QED  BY <1>3, <1>4, <1>5 DEF Inv

LEMMA InvStill == Inv /\ UNCHANGED <<listVars, eventVars, updater>> /\ commands' \in 0 .. CmdCap => Inv'
  <1> SUFFICES ASSUME Inv, UNCHANGED <<listVars, eventVars, updater>>, commands' \in 0 .. CmdCap
               PROVE  Inv'
    OBVIOUS
  <1>1. Safe' /\ ListTypeOK' /\ EventsTypeOK'
    BY StillKeeps, SafeStays
       DEF Inv, TypeOK, ListTypeOK, EventsTypeOK, eventVars, listVars
  <1>2. TypeOK' /\ SelectIdle' /\ CopiesCover' /\ OnDisk'
    BY <1>1 DEF Inv, TypeOK, SelectIdle, NoJobs, CopiesCover, OnDisk, RowOf, listVars
  <1> QED  BY <1>1, <1>2 DEF Inv

-----------------------------------------------------------------------------
LEMMA InvNext == Inv /\ [Next]_vars => Inv'
  <1> SUFFICES ASSUME Inv, [Next]_vars PROVE Inv'
    OBVIOUS
  <1>1. CASE ChainStep
    BY <1>1, ChainKeeps
  <1>2. CASE SendPrune
    BY <1>2, InvStill, UpdaterAssumption DEF SendPrune, Inv, TypeOK
  <1>3. CASE Handle
    BY <1>3, BorrowHandled, RepayHandled DEF Handle
  <1>4. CASE StartPrune
    BY <1>4, PruneStarted
  <1>5. ASSUME NEW e \in Pairs, JobStep(e) PROVE Inv'
    BY <1>5, JobBegun, DebtChecked, CheckFailed, ClearedRemoved, RowWritten, WriteFailed
       DEF JobStep
  <1>6. CASE FinishHandler
    BY <1>6, HandlerFinished
  <1>7. CASE Stop
    BY <1>7, Stopped
  <1>8. CASE UNCHANGED vars
    BY <1>8, InvStill DEF vars, Inv, TypeOK
  <1> QED  BY <1>1, <1>2, <1>3, <1>4, <1>5, <1>6, <1>7, <1>8 DEF Next

LEMMA InvAlways == Spec => []Inv
  BY InvInit, InvNext, PTL DEF Spec

(* The state of Morpho's updater keeps its types. *)
THEOREM MorphoUpdaterTypeCorrect == Spec => []TypeOK
  <1>1. Inv => TypeOK
    BY DEF Inv
  <1> QED  BY <1>1, InvAlways, PTL

(* No removal loses a debt the updater heard of, whatever answers of the   *)
(* node it acts on and in whatever order the streams are read.             *)
THEOREM MorphoNoDebtorLost == Spec => []NoDebtorLost
  <1>1. Inv => NoDebtorLost
    BY DEF Inv, Safe, DebtorsKept, Heard, NoDebtorLost
  <1> QED  BY <1>1, InvAlways, PTL

(* Between two handlers the tree holds every tracked pair, however many    *)
(* jobs of a prune write at once and whichever writes fail.                *)
THEOREM MorphoTrackedOnDisk == Spec => []TrackedOnDisk
  <1>1. Inv => TrackedOnDisk
    BY DEF Inv, OnDisk, SelectIdle, NoJobs, TypeOK, ListTypeOK, TrackedOnDisk
  <1> QED  BY <1>1, InvAlways, PTL

-----------------------------------------------------------------------------
(***************************************************************************)
(* An updater that has stopped, or that is about to select, has no check   *)
(* and no write under way, so that joining its task waits for all it has   *)
(* begun; an event's handler has one job, and a prune never more than      *)
(* Concurrency.                                                            *)
(***************************************************************************)
HandlersApart == UnderWay(updater, Concurrency)

LEMMA ApartStep == Inv /\ HandlersApart /\ [Next]_vars => HandlersApart'
  <1> SUFFICES ASSUME Inv, HandlersApart, [Next]_vars PROVE HandlersApart'
    OBVIOUS
  <1>0. ListTypeOK /\ EventsTypeOK /\ Concurrency \in Nat \ {0} /\ (updater = "select" => NoJobs)
    BY UpdaterAssumption DEF Inv, TypeOK, SelectIdle
  <1>1. CASE ChainStep \/ SendPrune \/ UNCHANGED vars
    <2>1. job' = job /\ updater' = updater
      BY <1>1 DEF ChainStep, SendPrune, vars, listVars
    <2> QED  BY <1>0, <2>1, UnderWayStays DEF HandlersApart
  <1>2. ASSUME NEW c \in Channels, HandleBorrow(c) \/ HandleRepay(c) PROVE HandlersApart'
    <2>1. /\ Head(streams[c]).pair \in Pairs /\ NoJobs /\ updater' = "event"
      BY <1>0, <1>2, ReadKeeps DEF HandleBorrow, HandleRepay
    <2>2. job' = job \/ \E s \in Stages : SetJob(Head(streams[c]).pair, s)
      BY <1>2 DEF HandleBorrow, HandleRepay, Add, Persist, listVars, Stages
    <2>3. UnderWay("event", Concurrency)'
      BY <1>0, <2>1, <2>2, UnderWayEvent
    <2> QED  BY <2>1, <2>3 DEF HandlersApart, UnderWay
  <1>3. CASE StartPrune
    <2>1. /\ \A e \in Pairs : job'[e] \in {"none", "waiting"}
          /\ updater' = "prune"
      BY <1>3 DEF StartPrune
    <2>2. UnderWay("prune", Concurrency)'
      BY <1>0, <2>1, UnderWayPrune
    <2> QED  BY <2>1, <2>2 DEF HandlersApart, UnderWay
  <1>4. ASSUME NEW e \in Pairs, JobStep(e) PROVE HandlersApart'
    <2>1. \E s \in Stages :
            /\ SetJob(e, s) /\ job[e] # "none"
            /\ e \in Active \/ Cardinality(Active) < Concurrency
            /\ \/ updater' = updater
               \/ updater = "event" /\ updater' = "stopped" /\ s = "none"
      <3>1. CASE BeginJob(e)
        BY <3>1 DEF BeginJob, Stages
      <3>2. CASE CheckDebt(e) \/ CheckFails(e)
        BY <3>2 DEF CheckDebt, CheckFails, Active, Stages
      <3>3. CASE RemoveCleared(e) \/ FinishWrite(e)
        BY <3>3, JobMoves DEF RemoveCleared, FinishWrite, Active
      <3>4. CASE FailWrite(e)
        <4>1. WriteFails(e) /\ SetJob(e, "none")
          BY <3>4 DEF FailWrite, WriteFails
        <4>2. updater' = updater \/ (updater = "event" /\ updater' = "stopped")
          BY <3>4 DEF FailWrite
        <4> QED  BY <4>1, <4>2, JobMoves DEF Active, Stages
      <3> QED  BY <1>4, <3>1, <3>2, <3>3, <3>4 DEF JobStep
    <2>2. UnderWay(updater, Concurrency)
      BY DEF HandlersApart
    <2>3. PICK s \in Stages :
            /\ SetJob(e, s) /\ job[e] # "none"
            /\ e \in Active \/ Cardinality(Active) < Concurrency
            /\ \/ updater' = updater
               \/ updater = "event" /\ updater' = "stopped" /\ s = "none"
      BY <2>1
    <2>4. \A q : q = updater' => UnderWay(q, Concurrency)'
      BY <1>0, <2>2, <2>3, UnderWayStep
    <2> QED  BY <2>4 DEF HandlersApart, UnderWay
  <1>5. CASE FinishHandler \/ Stop
    <2>1. job' = job /\ NoJobs
      BY <1>0, <1>5 DEF FinishHandler, Stop, listVars
    <2> QED  BY <1>0, <2>1, UnderWayStays DEF HandlersApart
  <1> QED
    BY <1>1, <1>2, <1>3, <1>4, <1>5 DEF Next, Handle

LEMMA ApartAlways == Spec => []HandlersApart
  <1>1. Init => HandlersApart
    <2> SUFFICES ASSUME Init PROVE HandlersApart
      OBVIOUS
    <2>1. NoJobs /\ updater = "select"
      BY SafeInit DEF Init
    <2> QED  BY <2>1, IdleCounts, UpdaterAssumption DEF HandlersApart, UnderWay
  <1> QED  BY <1>1, ApartStep, InvAlways, PTL DEF Spec

(* Whatever fails, a handler leaves nothing under way behind it, and a     *)
(* prune keeps to its width.                                               *)
THEOREM MorphoHandlersApart == Spec => []HandlersApart
  BY ApartAlways

-----------------------------------------------------------------------------
(* As in Aave's list: a copy under way is its row, and what is in the tree *)
(* and not in the map is about to leave the tree.                          *)
CopiesFresh == \A e \in Pairs : job[e] = "write" => row[e] = RowOf(cache, e)

NoLeftovers ==
  sledFailures = 0 => \A e \in rows : e \in cache \/ job[e] = "write"

Sequential == CopiesFresh /\ NoLeftovers

LEMMA OneActive ==
  ASSUME Concurrency = 1, HandlersApart, NEW e \in Active, NEW f \in Active
  PROVE  e = f
  <1> SUFFICES ASSUME e # f PROVE FALSE
    OBVIOUS
  <1>1. IsFiniteSet({e}) /\ Cardinality({e}) = 1
    BY FS_Singleton
  <1>2. Cardinality({e} \cup {f}) = 2
    BY <1>1, FS_AddElement
  <1>3. Cardinality({e} \cup {f}) <= Cardinality(Active) /\ Cardinality(Active) \in Nat
    BY ActiveCounts
  <1> QED  BY <1>2, <1>3 DEF HandlersApart, UnderWay

LEMMA SequentialStep ==
  ASSUME Concurrency = 1, Inv, HandlersApart, Sequential, [Next]_vars
  PROVE  Sequential'
  <1>0. /\ rows \subseteq Pairs /\ cache \subseteq Pairs /\ job \in [Pairs -> Stages]
        /\ row \in [Pairs -> SUBSET Pairs] /\ sledFailures \in Nat
        /\ updater = "select" => NoJobs
    BY WatchListAssumption DEF Inv, TypeOK, ListTypeOK, SelectIdle
  <1>1. CASE UNCHANGED <<cache, rows, row, sledFailures>> /\ \A e \in Pairs : job'[e] = "write" <=> job[e] = "write"
    BY <1>0, <1>1 DEF Sequential, CopiesFresh, NoLeftovers, RowOf
  <1>2. CASE ChainStep \/ SendPrune \/ FinishHandler \/ Stop \/ UNCHANGED vars
    <2>1. UNCHANGED <<cache, rows, row, sledFailures, job>>
      BY <1>2 DEF ChainStep, SendPrune, FinishHandler, Stop, vars, listVars
    <2> QED  BY <1>1, <2>1
  <1>3. ASSUME NEW c \in Channels, HandleBorrow(c) PROVE Sequential'
    <2> DEFINE b == Head(streams[c]).pair
    <2>1. b \in Pairs /\ NoJobs /\ Add(b)
      BY <1>0, <1>3, ReadKeeps DEF HandleBorrow, Inv, TypeOK
    <2> HIDE DEF b
    <2>2. /\ cache' = cache \cup {b} /\ rows' = rows /\ sledFailures' = sledFailures
          /\ \A e \in Pairs : job'[e] = "write" => e = b /\ row'[e] = RowOf(cache', e)
      BY <1>0, <2>1 DEF Add, Persist, SetJob, NoJobs
    <2>3. CopiesFresh'
      BY <2>2 DEF CopiesFresh, RowOf
    <2>4. NoLeftovers'
      BY <1>0, <2>1, <2>2 DEF Sequential, NoLeftovers, NoJobs
    <2> QED  BY <2>3, <2>4 DEF Sequential
  <1>4. ASSUME NEW c \in Channels, HandleRepay(c) PROVE Sequential'
    <2>1. Head(streams[c]).pair \in Pairs /\ NoJobs
      BY <1>0, <1>4, ReadKeeps DEF HandleRepay, Inv, TypeOK
    <2>2. \A e \in Pairs : job'[e] = "write" <=> job[e] = "write"
      BY <1>0, <1>4, <2>1 DEF HandleRepay, SetJob, NoJobs
    <2> QED  BY <1>1, <1>4, <2>2 DEF HandleRepay
  <1>5. CASE StartPrune
    <2>1. \A e \in Pairs : job'[e] = "write" <=> job[e] = "write"
      BY <1>0, <1>5 DEF StartPrune, NoJobs
    <2> QED  BY <1>1, <1>5, <2>1 DEF StartPrune
  <1>6. ASSUME NEW e \in Pairs, BeginJob(e) \/ CheckDebt(e) \/ CheckFails(e) PROVE Sequential'
    <2>1. \A f \in Pairs : job'[f] = "write" <=> job[f] = "write"
      BY <1>0, <1>6 DEF BeginJob, CheckDebt, CheckFails, SetJob
    <2> QED  BY <1>1, <1>6, <2>1 DEF BeginJob, CheckDebt, CheckFails
  <1>7. ASSUME NEW e \in Pairs, RemoveCleared(e) \/ FinishWrite(e) \/ FailWrite(e)
        PROVE  Sequential'
    <2>0. job[e] \in {"clear", "write"}
      BY <1>7 DEF RemoveCleared, FinishWrite, FailWrite, Remove, WriteRow, WriteFails
    <2>1. \A f \in Pairs : job[f] = "write" => f = e
      BY <2>0, OneActive DEF Active
    <2>2. CASE RemoveCleared(e)
      <3>1. /\ cache' = cache \ {e} /\ rows' = rows /\ sledFailures' = sledFailures
            /\ \A f \in Pairs : f # e => job'[f] = job[f]
            /\ job'[e] = "write" => row'[e] = RowOf(cache', e)
            /\ e \in cache => job'[e] = "write"
        BY <1>0, <2>2 DEF RemoveCleared, Remove, Persist, SetJob
      <3>2. CopiesFresh'
        BY <2>1, <3>1 DEF CopiesFresh, RowOf
      <3>3. job[e] = "clear"
        BY <2>2 DEF RemoveCleared, Remove
      <3>4. NoLeftovers'
        BY <1>0, <2>1, <3>1, <3>3 DEF Sequential, NoLeftovers
      <3> QED  BY <3>2, <3>4 DEF Sequential
    <2>3. CASE FinishWrite(e)
      <3>1. /\ cache' = cache /\ rows' = (rows \ RowOf(rows, e)) \cup row[e]
            /\ sledFailures' = sledFailures
            /\ job[e] = "write" /\ \A f \in Pairs : job'[f] # "write"
        BY <1>0, <2>1, <2>3 DEF FinishWrite, WriteRow, SetJob
      <3>2. row[e] \subseteq cache
        BY <3>1 DEF Sequential, CopiesFresh, RowOf
      <3>3. \A f \in rows : f \notin RowOf(rows, e) => f # e
        BY DEF RowOf
      <3>4. NoLeftovers'
        BY <1>0, <2>1, <3>1, <3>2, <3>3 DEF Sequential, NoLeftovers
      <3> QED  BY <3>1, <3>4 DEF Sequential, CopiesFresh
    <2>4. CASE FailWrite(e)
      <3>1. /\ sledFailures' # 0 /\ \A f \in Pairs : job'[f] # "write"
        BY <1>0, <2>1, <2>4 DEF FailWrite, WriteFails, SetJob
      <3> QED  BY <3>1 DEF Sequential, CopiesFresh, NoLeftovers
    <2> QED  BY <1>7, <2>2, <2>3, <2>4
  <1> QED
    BY <1>2, <1>3, <1>4, <1>5, <1>6, <1>7 DEF Next, Handle, JobStep

(***************************************************************************)
(* Were the jobs of a prune run one at a time, the tree would match the    *)
(* map whenever no write failed, for any borrowers, markets and events:    *)
(* what the run morpho_rows shows violated (two writes of one row that     *)
(* overtake each other) comes from the width of the prune alone.           *)
(***************************************************************************)
THEOREM SequentialPrunesMatch ==
  ASSUME Concurrency = 1
  PROVE  Spec => []TreeMatchesMap
  <1>1. Init => Sequential
    BY DEF Init, ListInit, Sequential, CopiesFresh, NoLeftovers
  <1>2. Inv /\ HandlersApart /\ Sequential /\ [Next]_vars => Sequential'
    BY SequentialStep
  <1>3. Inv /\ Sequential => TreeMatchesMap
    <2> SUFFICES ASSUME Inv, Sequential, updater = "select", sledFailures = 0
                 PROVE  rows = cache
      BY DEF TreeMatchesMap
    <2>1. NoJobs /\ rows \subseteq Pairs /\ cache \subseteq Pairs
      BY DEF Inv, SelectIdle, TypeOK, ListTypeOK
    <2>2. rows \subseteq cache
      BY <2>1 DEF Sequential, NoLeftovers, NoJobs
    <2>3. cache \subseteq rows
      BY <2>1 DEF Inv, OnDisk, NoJobs
    <2> QED  BY <2>2, <2>3
  <1> QED  BY <1>1, <1>2, <1>3, InvAlways, ApartAlways, PTL DEF Spec

=============================================================================
