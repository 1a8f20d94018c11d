---------------------- MODULE AaveWatchListUpdater_proofs ---------------------
(***************************************************************************)
(* Aave's watch list updater, for any borrowers, reserves, streams and     *)
(* width of a prune: no debt it heard of is lost, and between two handlers *)
(* the tree holds the tracked pairs and, if no write failed, no others.    *)
(***************************************************************************)
EXTENDS AaveWatchListUpdater, DebtEvents_proofs

(* A handler runs to its end before the next select. *)
SelectIdle == updater = "select" => NoJobs

(* An event's handler has one job, a prune one of each borrower. *)
JobsApart ==
  \A e, f \in Pairs : e[1] = f[1] /\ job[e] # "none" /\ job[f] # "none" => e = f

(* So the copy a job is to write does not age. *)
CopiesFresh == \A e \in Pairs : job[e] = "write" => row[e] = RowOf(cache, e)

(* What is tracked and not in the tree is about to be written by the       *)
(* handler of its borrow.                                                  *)
OnDisk ==
  \A e \in cache :
    \/ updater = "stopped"
    \/ e \in rows
    \/ updater = "event" /\ job[e] = "write"

(* What is in the tree and not tracked is about to leave the tree. *)
NoLeftovers ==
  sledFailures = 0 => \A e \in rows : e \in cache \/ job[e] = "write"

Inv ==
  TypeOK /\ SelectIdle /\ Safe /\ JobsApart /\ CopiesFresh /\ OnDisk /\ NoLeftovers

-----------------------------------------------------------------------------
LEMMA InvInit == Init => Inv
  <1> SUFFICES ASSUME Init PROVE Inv
    OBVIOUS
  <1>1. Safe /\ ListTypeOK /\ EventsTypeOK /\ NoJobs
    BY SafeInit DEF Init
  <1>2. TypeOK
    BY <1>1, UpdaterAssumption DEF Init, TypeOK
  <1>3. CopiesFresh /\ JobsApart
    BY <1>1 DEF CopiesFresh, JobsApart, NoJobs
  <1>4. OnDisk /\ NoLeftovers
    BY DEF Init, ListInit, OnDisk, NoLeftovers
  <1> QED  BY <1>1, <1>2, <1>3, <1>4 DEF Inv, SelectIdle

LEMMA ChainKeeps == Inv /\ ChainStep => Inv'
  <1> SUFFICES ASSUME Inv, ChainStep PROVE Inv'
    OBVIOUS
  <1>1. UNCHANGED <<cache, rows, job, row, sledFailures, updater, commands>>
    BY DEF ChainStep, listVars
  <1>2. Safe' /\ EventsTypeOK'
    BY <1>1, SafeChain DEF Inv, TypeOK, ChainStep
  <1>3. ListTypeOK' /\ (NoJobs' <=> NoJobs)
    BY <1>1 DEF Inv, TypeOK, ListTypeOK, NoJobs
  <1>4. TypeOK' /\ SelectIdle'
    BY <1>1, <1>2, <1>3 DEF Inv, TypeOK, SelectIdle
  <1>5. CopiesFresh' /\ OnDisk' /\ JobsApart' /\ NoLeftovers'
    BY <1>1 DEF Inv, CopiesFresh, OnDisk, RowOf, JobsApart, NoLeftovers
  <1> QED  BY <1>2, <1>4, <1>5 DEF Inv

LEMMA BorrowHandled == ASSUME Inv, NEW c \in Channels, HandleBorrow(c) PROVE Inv'
  <1> DEFINE b == Head(streams[c]).pair
  <1>1. NoJobs /\ Safe /\ ListTypeOK /\ EventsTypeOK
    BY DEF Inv, TypeOK, SelectIdle, HandleBorrow
  <1>2. Safe' /\ EventsTypeOK' /\ ListTypeOK'
    BY <1>1, SafeBorrow DEF HandleBorrow
  <1>3. b \in Pairs /\ Add(b)
    BY <1>1, ReadKeeps DEF HandleBorrow
  <1>4. updater' = "event" /\ commands' = commands
    BY DEF HandleBorrow
  <1> HIDE DEF b
  <1>5. /\ cache' = cache \cup {b} /\ rows' = rows
        /\ \A e \in Pairs : job'[e] # "none" => e = b /\ row'[e] = RowOf(cache', e)
        /\ sledFailures' = sledFailures
        /\ b \notin cache => job'[b] = "write"
    BY <1>1, <1>3 DEF Add, Persist, SetJob, NoJobs, ListTypeOK
  <1>6. cache \subseteq rows /\ (sledFailures = 0 => rows \subseteq cache)
    BY <1>1 DEF Inv, OnDisk, NoLeftovers, NoJobs, ListTypeOK, HandleBorrow
  <1>7. OnDisk' /\ NoLeftovers'
    BY <1>4, <1>5, <1>6 DEF OnDisk, NoLeftovers
  <1>8. CopiesFresh' /\ JobsApart'
    BY <1>5 DEF CopiesFresh, JobsApart
  <1>9. TypeOK'
    BY <1>2, <1>4 DEF Inv, TypeOK
  <1> QED  BY <1>2, <1>4, <1>7, <1>8, <1>9 DEF Inv, SelectIdle

LEMMA RepayHandled == ASSUME Inv, NEW c \in Channels, HandleRepay(c) PROVE Inv'
  <1> DEFINE b == Head(streams[c]).pair
  <1>1. NoJobs /\ Safe /\ ListTypeOK /\ EventsTypeOK
    BY DEF Inv, TypeOK, SelectIdle, HandleRepay
  <1>2. Safe' /\ EventsTypeOK' /\ ListTypeOK' /\ b \in Pairs
    BY <1>1, SafeRepay DEF HandleRepay
  <1>3. /\ SetJob(b, "check") /\ updater' = "event"
        /\ UNCHANGED <<cache, rows, sledFailures, commands>>
    BY DEF HandleRepay
  <1> HIDE DEF b
  <1>4. \A e \in Pairs : job'[e] # "write" /\ (job'[e] # "none" => e = b)
    BY <1>1, <1>2, <1>3 DEF SetJob, NoJobs, ListTypeOK
  <1>5. cache \subseteq rows /\ (sledFailures = 0 => rows \subseteq cache)
    BY <1>1 DEF Inv, OnDisk, NoLeftovers, NoJobs, ListTypeOK, HandleRepay
  <1>6. CopiesFresh' /\ JobsApart' /\ OnDisk' /\ NoLeftovers'
    BY <1>3, <1>4, <1>5 DEF CopiesFresh, JobsApart, OnDisk, NoLeftovers
  <1>7. TypeOK'
    BY <1>2, <1>3 DEF Inv, TypeOK
  <1> QED  BY <1>2, <1>3, <1>6, <1>7 DEF Inv, SelectIdle

LEMMA PruneStarted == Inv /\ StartPrune => Inv'
  <1> SUFFICES ASSUME Inv, StartPrune PROVE Inv'
    OBVIOUS
  <1>1. /\ NoJobs /\ ListTypeOK /\ EventsTypeOK /\ UNCHANGED eventVars
        /\ UNCHANGED <<cache, rows, row, sledFailures>>
        /\ updater' = "prune" /\ commands > 0 /\ commands' = commands - 1
    BY DEF Inv, TypeOK, SelectIdle, StartPrune
  <1> DEFINE JobsOf(s) == [e \in Pairs |-> IF e \in s THEN "waiting" ELSE "none"]
  <1>2. PICK s \in Snapshots : job' = JobsOf(s)
    BY DEF StartPrune
  <1>3. /\ job' \in [Pairs -> Stages]
        /\ \A e \in Pairs : job'[e] \notin {"clear", "write"} /\ (job'[e] # "none" => e \in s)
    BY <1>2 DEF Stages
  <1>4. Heard' = Heard /\ owed' = owed /\ EventsTypeOK'
    BY <1>1, StillKeeps DEF eventVars, EventsTypeOK
  <1>5. Safe'
    BY <1>1, <1>3, <1>4, SafeStays DEF Inv
  <1>6. TypeOK'
    BY <1>1, <1>3, <1>4, UpdaterAssumption DEF Inv, TypeOK, ListTypeOK
  <1>7. cache \subseteq rows /\ (sledFailures = 0 => rows \subseteq cache)
    BY <1>1 DEF Inv, OnDisk, NoLeftovers, NoJobs, ListTypeOK, StartPrune
  <1>8. CopiesFresh' /\ OnDisk' /\ NoLeftovers' /\ SelectIdle'
    BY <1>1, <1>3, <1>7 DEF CopiesFresh, OnDisk, NoLeftovers, SelectIdle
  <1>9. JobsApart'
    <2> SUFFICES ASSUME NEW e \in s, NEW f \in s, e[1] = f[1] PROVE e = f
      BY <1>3 DEF JobsApart
    <2>1. e \in cache /\ s \subseteq cache
      BY DEF Snapshots
    <2>2. PICK g \in s : RowOf(s, e) = {g}
      BY <2>1 DEF Snapshots
    <2> QED  BY <2>2 DEF RowOf
  <1> QED  BY <1>5, <1>6, <1>8, <1>9 DEF Inv

-----------------------------------------------------------------------------
(* A job that moves on without writing. *)
LEMMA StageKeeps ==
  ASSUME Inv, NEW e \in Pairs, NEW s \in {"none", "check", "clear"}, SetJob(e, s),
         job[e] \in {"waiting", "check"}, Safe', ListTypeOK',
         UNCHANGED <<cache, rows, row, sledFailures, commands>>,
         EventsTypeOK', updater' \in {updater, "stopped"}
  PROVE  Inv'
  <1>1. TypeOK'
    BY DEF Inv, TypeOK
  <1>2. SelectIdle'
    BY DEF Inv, SelectIdle, NoJobs
  <1>3. \A f \in Pairs :
          /\ job'[f] = "write" <=> job[f] = "write"
          /\ job'[f] # "none" => job[f] # "none"
    BY DEF SetJob, Inv, TypeOK, ListTypeOK
  <1>4. CopiesFresh'
    BY <1>3 DEF Inv, CopiesFresh, RowOf
  <1>5. JobsApart'
    BY <1>3 DEF Inv, JobsApart
  <1>6. OnDisk' /\ NoLeftovers'
    BY <1>3 DEF Inv, OnDisk, NoLeftovers, TypeOK, ListTypeOK
  <1> QED  BY <1>1, <1>2, <1>4, <1>5, <1>6 DEF Inv

LEMMA JobBegun == ASSUME Inv, NEW e \in Pairs, BeginJob(e) PROVE Inv'
  <1>1. Safe' /\ ListTypeOK' /\ EventsTypeOK'
    BY SafeSetJob, StillKeeps DEF Inv, TypeOK, BeginJob, EventsTypeOK, eventVars
  <1> QED  BY <1>1, StageKeeps DEF BeginJob

LEMMA DebtChecked == ASSUME Inv, NEW e \in Pairs, CheckDebt(e) PROVE Inv'
  <1>1. Safe' /\ ListTypeOK' /\ EventsTypeOK'
    BY SafeCheck DEF Inv, TypeOK, CheckDebt, EventsTypeOK, eventVars
  <1> QED  BY <1>1, StageKeeps DEF CheckDebt

LEMMA LeftOnError ==
  ASSUME Inv, LeaveOnError
  PROVE  /\ EventsTypeOK' /\ owed' = owed /\ Heard \subseteq Heard'
         /\ updater' \in {updater, "stopped"} /\ commands' = commands
         /\ updater = "event" => updater' = "stopped"
  BY StopKeeps, StillKeeps DEF LeaveOnError, Inv, TypeOK, EventsTypeOK, eventVars

LEMMA CheckFailed == ASSUME Inv, NEW e \in Pairs, CheckFails(e) PROVE Inv'
  <1>1. LeaveOnError /\ UNCHANGED <<cache, rows, row, sledFailures>> /\ SetJob(e, "none")
    BY DEF CheckFails
  <1>2. /\ EventsTypeOK' /\ owed' = owed /\ Heard \subseteq Heard'
        /\ updater' \in {updater, "stopped"} /\ commands' = commands
    BY <1>1, LeftOnError DEF Inv
  <1>3. Safe' /\ ListTypeOK'
    BY <1>1, <1>2, SafeSetJob DEF Inv, TypeOK
  <1> QED  BY <1>1, <1>2, <1>3, StageKeeps DEF CheckFails

LEMMA ClearedRemoved == ASSUME Inv, NEW e \in Pairs, RemoveCleared(e) PROVE Inv'
  <1>1. Remove(e) /\ UNCHANGED <<eventVars, updater, commands>>
    BY DEF RemoveCleared
  <1>2. Safe' /\ ListTypeOK'
    BY <1>1, SafeRemove DEF Inv, TypeOK
  <1>3. TypeOK'
    BY <1>1, <1>2 DEF Inv, TypeOK, EventsTypeOK, eventVars
  <1>4. SelectIdle'
    BY <1>1 DEF Inv, SelectIdle, NoJobs, Remove
  <1>5. /\ cache' = cache \ {e} /\ rows' = rows /\ sledFailures' = sledFailures
        /\ job[e] = "clear"
        /\ \A f \in Pairs : f # e => job'[f] = job[f] /\ row'[f] = row[f]
        /\ job'[e] = "write" => row'[e] = RowOf(cache', e)
        /\ e \in cache => job'[e] = "write"
    BY <1>1 DEF Remove, Persist, SetJob, Inv, TypeOK, ListTypeOK
  <1>6. JobsApart'
    BY <1>5 DEF Inv, JobsApart
  <1>7. CopiesFresh'
    <2> SUFFICES ASSUME NEW f \in Pairs, job'[f] = "write", f # e
                 PROVE  row[f] = RowOf(cache', f)
      BY <1>5 DEF CopiesFresh
    <2>1. row[f] = RowOf(cache, f) /\ f[1] # e[1]
      BY <1>5 DEF Inv, CopiesFresh, JobsApart
    <2> QED  BY <1>5, <2>1 DEF RowOf
  <1>8. OnDisk' /\ NoLeftovers'
    BY <1>1, <1>5 DEF Inv, OnDisk, NoLeftovers, TypeOK, ListTypeOK
  <1> QED  BY <1>2, <1>3, <1>4, <1>6, <1>7, <1>8 DEF Inv

LEMMA RowWritten == ASSUME Inv, NEW e \in Pairs, FinishWrite(e) PROVE Inv'
  <1>1. WriteRow(e) /\ UNCHANGED <<eventVars, updater, commands>>
    BY DEF FinishWrite
  <1>2. Safe' /\ ListTypeOK'
    BY <1>1, SafeWrite, StillKeeps DEF Inv, TypeOK, eventVars
  <1>3. TypeOK'
    BY <1>1, <1>2 DEF Inv, TypeOK, EventsTypeOK, eventVars
  <1>4. SelectIdle'
    BY <1>1 DEF Inv, SelectIdle, NoJobs, WriteRow
  <1>5. /\ cache' = cache /\ sledFailures' = sledFailures
        /\ job[e] = "write" /\ job'[e] = "none"
        /\ rows' = (rows \ RowOf(rows, e)) \cup row[e]
        /\ \A f \in Pairs : f # e => job'[f] = job[f] /\ row'[f] = row[f]
    BY <1>1 DEF WriteRow, SetJob, Inv, TypeOK, ListTypeOK
  <1>6. CopiesFresh' /\ JobsApart'
    BY <1>5 DEF Inv, CopiesFresh, JobsApart, RowOf
  <1>7. row[e] = RowOf(cache, e)
    BY <1>5 DEF Inv, CopiesFresh
  <1>8. OnDisk' /\ NoLeftovers'
    BY <1>1, <1>5, <1>7 DEF Inv, OnDisk, NoLeftovers, TypeOK, ListTypeOK, RowOf
  <1> QED  BY <1>2, <1>3, <1>4, <1>6, <1>8 DEF Inv

LEMMA WriteFailed == ASSUME Inv, NEW e \in Pairs, FailWrite(e) PROVE Inv'
  <1>1. WriteFails(e) /\ LeaveOnError
    BY DEF FailWrite
  <1>2. /\ EventsTypeOK' /\ owed' = owed /\ Heard \subseteq Heard'
        /\ updater' \in {updater, "stopped"} /\ commands' = commands
        /\ updater = "event" => updater' = "stopped"
    BY <1>1, LeftOnError
  <1>3. Safe' /\ ListTypeOK'
    BY <1>1, <1>2, SafeWrite DEF Inv, TypeOK
  <1>4. TypeOK'
    BY <1>2, <1>3 DEF Inv, TypeOK
  <1>5. SelectIdle'
    BY <1>1, <1>2 DEF Inv, SelectIdle, NoJobs, WriteFails
  <1>6. /\ cache' = cache /\ rows' = rows /\ job'[e] = "none" /\ sledFailures' # 0
        /\ \A f \in Pairs : f # e => job'[f] = job[f] /\ row'[f] = row[f]
    BY <1>1, WatchListAssumption DEF WriteFails, SetJob, Inv, TypeOK, ListTypeOK
  <1>7. CopiesFresh' /\ JobsApart'
    BY <1>6 DEF Inv, CopiesFresh, JobsApart, RowOf
  <1>8. OnDisk' /\ NoLeftovers'
    BY <1>2, <1>6 DEF Inv, OnDisk, NoLeftovers
  <1> QED  BY <1>3, <1>4, <1>5, <1>7, <1>8 DEF Inv

LEMMA HandlerFinished == Inv /\ FinishHandler => Inv'
  <1> SUFFICES ASSUME Inv, FinishHandler PROVE Inv'
    OBVIOUS
  <1>1. /\ NoJobs /\ UNCHANGED <<cache, rows, job, row, sledFailures, eventVars, commands>>
        /\ updater' = "select" /\ updater # "stopped"
    BY DEF FinishHandler, listVars
  <1>2. Safe' /\ ListTypeOK' /\ EventsTypeOK'
    BY <1>1, StillKeeps, SafeStays DEF Inv, TypeOK, ListTypeOK, EventsTypeOK, eventVars
  <1>3. TypeOK' /\ SelectIdle'
    BY <1>1, <1>2 DEF Inv, TypeOK, SelectIdle, NoJobs
  <1>4. CopiesFresh' /\ JobsApart' /\ OnDisk' /\ NoLeftovers'
    BY <1>1 DEF Inv, CopiesFresh, JobsApart, OnDisk, NoLeftovers, NoJobs, TypeOK, ListTypeOK
  <1> QED  BY <1>2, <1>3, <1>4 DEF Inv

LEMMA Stopped == Inv /\ Stop => Inv'
  <1> SUFFICES ASSUME Inv, Stop PROVE Inv'
    OBVIOUS
  <1>1. /\ UNCHANGED <<cache, rows, job, row, sledFailures, commands>>
        /\ updater' = "stopped" /\ StopListening
    BY DEF Stop, listVars
  <1>2. EventsTypeOK' /\ owed' = owed /\ Heard \subseteq Heard'
    BY <1>1, StopKeeps DEF Inv, TypeOK
  <1>3. Safe' /\ ListTypeOK'
    BY <1>1, <1>2, SafeStays DEF Inv, TypeOK, ListTypeOK
  <1>4. TypeOK' /\ SelectIdle'
    BY <1>1, <1>2, <1>3 DEF Inv, TypeOK, SelectIdle
  <1>5. CopiesFresh' /\ JobsApart' /\ OnDisk' /\ NoLeftovers'
    BY <1>1 DEF Inv, CopiesFresh, JobsApart, OnDisk, NoLeftovers, RowOf
  <1> QED  BY <1>3, <1>4, <1>5 DEF Inv

LEMMA InvStill == Inv /\ UNCHANGED <<listVars, eventVars, updater>> /\ commands' \in 0 .. CmdCap => Inv'
  <1> SUFFICES ASSUME Inv, UNCHANGED <<listVars, eventVars, updater>>, commands' \in 0 .. CmdCap
               PROVE  Inv'
    OBVIOUS
  <1>1. Safe' /\ ListTypeOK' /\ EventsTypeOK'
    BY StillKeeps, SafeStays
       DEF Inv, TypeOK, ListTypeOK, EventsTypeOK, eventVars, listVars
  <1>2. TypeOK' /\ SelectIdle' /\ CopiesFresh' /\ OnDisk'
    BY <1>1 DEF Inv, TypeOK, SelectIdle, NoJobs, CopiesFresh, OnDisk, RowOf, listVars
  <1>3. JobsApart' /\ NoLeftovers'
    BY DEF Inv, JobsApart, NoLeftovers, listVars
  <1> QED  BY <1>1, <1>2, <1>3 DEF Inv

-----------------------------------------------------------------------------
LEMMA InvNext == Inv /\ [Next]_vars => Inv'
  <1> SUFFICES ASSUME Inv, [Next]_vars PROVE Inv'
    OBVIOUS
  <1>1. CASE ChainStep
    BY <1>1, ChainKeeps
  <1>2. CASE SendPrune
    BY <1>2, InvStill, UpdaterAssumption DEF SendPrune, Inv, TypeOK
  <1>3. CASE Handle
    BY <1>3, BorrowHandled, RepayHandled DEF Handle
  <1>4. CASE StartPrune
    BY <1>4, PruneStarted
  <1>5. ASSUME NEW e \in Pairs, JobStep(e) PROVE Inv'
    BY <1>5, JobBegun, DebtChecked, CheckFailed, ClearedRemoved, RowWritten, WriteFailed
       DEF JobStep
  <1>6. CASE FinishHandler
    BY <1>6, HandlerFinished
  <1>7. CASE Stop
    BY <1>7, Stopped
  <1>8. CASE UNCHANGED vars
    BY <1>8, InvStill DEF vars, Inv, TypeOK
  <1> QED  BY <1>1, <1>2, <1>3, <1>4, <1>5, <1>6, <1>7, <1>8 DEF Next

LEMMA InvAlways == Spec => []Inv
  BY InvInit, InvNext, PTL DEF Spec

(* The state of Aave's updater keeps its types. *)
THEOREM AaveUpdaterTypeCorrect == Spec => []TypeOK
  <1>1. Inv => TypeOK
    BY DEF Inv
  <1> QED  BY <1>1, InvAlways, PTL

(* No removal loses a debt the updater heard of, whatever answers of the   *)
(* node it acts on.                                                        *)
THEOREM AaveNoDebtorLost == Spec => []NoDebtorLost
  <1>1. Inv => NoDebtorLost
    BY DEF Inv, Safe, DebtorsKept, Heard, NoDebtorLost
  <1> QED  BY <1>1, InvAlways, PTL

(* Between two handlers the tree holds every tracked pair and, if no write *)
(* failed, nothing else: what rests on the snapshot's one pair a borrower. *)
THEOREM AaveTreeMatchesMap == Spec => []TreeMatchesMap
  <1>1. Inv => TreeMatchesMap
    BY DEF Inv, OnDisk, NoLeftovers, SelectIdle, NoJobs, TypeOK, ListTypeOK, TreeMatchesMap
  <1> QED  BY <1>1, InvAlways, PTL

-----------------------------------------------------------------------------
(***************************************************************************)
(* An updater that has stopped, or that is about to select, has no check   *)
(* and no write under way, so that joining its task waits for all it has   *)
(* begun; an event's handler has one job, and a prune never more than      *)
(* Concurrency.                                                            *)
(***************************************************************************)
HandlersApart == UnderWay(updater, Concurrency)

LEMMA ApartStep == Inv /\ HandlersApart /\ [Next]_vars => HandlersApart'
  <1> SUFFICES ASSUME Inv, HandlersApart, [Next]_vars PROVE HandlersApart'
    OBVIOUS
  <1>0. ListTypeOK /\ EventsTypeOK /\ Concurrency \in Nat \ {0} /\ (updater = "select" => NoJobs)
    BY UpdaterAssumption DEF Inv, TypeOK, SelectIdle
  <1>1. CASE ChainStep \/ SendPrune \/ UNCHANGED vars
    <2>1. job' = job /\ updater' = updater
      BY <1>1 DEF ChainStep, SendPrune, vars, listVars
    <2> QED  BY <1>0, <2>1, UnderWayStays DEF HandlersApart
  <1>2. ASSUME NEW c \in Channels, HandleBorrow(c) \/ HandleRepay(c) PROVE HandlersApart'
    <2>1. /\ Head(streams[c]).pair \in Pairs /\ NoJobs /\ updater' = "event"
      BY <1>0, <1>2, ReadKeeps DEF HandleBorrow, HandleRepay
    <2>2. job' = job \/ \E s \in Stages : SetJob(Head(streams[c]).pair, s)
      BY <1>2 DEF HandleBorrow, HandleRepay, Add, Persist, listVars, Stages
    <2>3. UnderWay("event", Concurrency)'
      BY <1>0, <2>1, <2>2, UnderWayEvent
    <2> QED  BY <2>1, <2>3 DEF HandlersApart, UnderWay
  <1>3. CASE StartPrune
    <2>1. /\ \A e \in Pairs : job'[e] \in {"none", "waiting"}
          /\ updater' = "prune"
      BY <1>3 DEF StartPrune
    <2>2. UnderWay("prune", Concurrency)'
      BY <1>0, <2>1, UnderWayPrune
    <2> QED  BY <2>1, <2>2 DEF HandlersApart, UnderWay
  <1>4. ASSUME NEW e \in Pairs, JobStep(e) PROVE HandlersApart'
    <2>1. \E s \in Stages :
            /\ SetJob(e, s) /\ job[e] # "none"
            /\ e \in Active \/ Cardinality(Active) < Concurrency
            /\ \/ updater' = updater
               \/ updater = "event" /\ updater' = "stopped" /\ s = "none"
      <3>1. CASE BeginJob(e)
        BY <3>1 DEF BeginJob, Stages
      <3>2. CASE CheckDebt(e) \/ CheckFails(e)
        BY <3>2 DEF CheckDebt, CheckFails, LeaveOnError, Active, Stages
      <3>3. CASE RemoveCleared(e) \/ FinishWrite(e)
        BY <3>3, JobMoves DEF RemoveCleared, FinishWrite, Active
      <3>4. CASE FailWrite(e)
        <4>1. WriteFails(e) /\ SetJob(e, "none")
          BY <3>4 DEF FailWrite, WriteFails
        <4>2. updater' = updater \/ (updater = "event" /\ updater' = "stopped")
          BY <3>4 DEF FailWrite, LeaveOnError
        <4> QED  BY <4>1, <4>2, JobMoves DEF Active, Stages
      <3> QED  BY <1>4, <3>1, <3>2, <3>3, <3>4 DEF JobStep
    <2>2. UnderWay(updater, Concurrency)
      BY DEF HandlersApart
    <2>3. PICK s \in Stages :
            /\ SetJob(e, s) /\ job[e] # "none"
            /\ e \in Active \/ Cardinality(Active) < Concurrency
            /\ \/ updater' = updater
               \/ updater = "event" /\ updater' = "stopped" /\ s = "none"
      BY <2>1
    <2>4. \A q : q = updater' => UnderWay(q, Concurrency)'
      BY <1>0, <2>2, <2>3, UnderWayStep
    <2> QED  BY <2>4 DEF HandlersApart, UnderWay
  <1>5. CASE FinishHandler \/ Stop
    <2>1. job' = job /\ NoJobs
      BY <1>0, <1>5 DEF FinishHandler, Stop, listVars
    <2> QED  BY <1>0, <2>1, UnderWayStays DEF HandlersApart
  <1> QED
    BY <1>1, <1>2, <1>3, <1>4, <1>5 DEF Next, Handle

LEMMA ApartAlways == Spec => []HandlersApart
  <1>1. Init => HandlersApart
    <2> SUFFICES ASSUME Init PROVE HandlersApart
      OBVIOUS
    <2>1. NoJobs /\ updater = "select"
      BY SafeInit DEF Init
    <2> QED  BY <2>1, IdleCounts, UpdaterAssumption DEF HandlersApart, UnderWay
  <1> QED  BY <1>1, ApartStep, InvAlways, PTL DEF Spec

(* Whatever fails, a handler leaves nothing under way behind it, and a     *)
(* prune keeps to its width.                                               *)
THEOREM AaveHandlersApart == Spec => []HandlersApart
  BY ApartAlways

=============================================================================
