-------------------------- MODULE GameSyncProofs --------------------------
(***************************************************************************)
(* Theorems about module GameSync, for any games, ids, dumps and workers,  *)
(* any number of runs, games deleted or given another id meanwhile, faults.*)
(***************************************************************************)
EXTENDS GameSync, TLAPS

-----------------------------------------------------------------------------
(* The inductive invariant of the runs.                                     *)

SyncTypes ==
    /\ exists \subseteq Games
    /\ bggId \in [Games -> BggIds \cup {None}]
    /\ cover \in [Games -> Thumbnails \cup {None}]
    /\ runs \in [Runs -> Run]
    /\ started \in 0 .. MaxRuns
    /\ syncInProgress \in BOOLEAN
    /\ crashed \in BOOLEAN
    /\ edited \subseteq Games

Backfilling(run) == run.pc \in {"download", "backfill"}

\* A run keeps its workers until they are awaited: the covers of a run that has
\* not failed are downloaded before it ends.  What is left to do is games while
\* it backfills, games with their items afterwards.
Sound(run) ==
    /\ run.pc # "count"
    /\ Backfilling(run) => run.todo \subseteq Games
    /\ run.pc = "backfill" => \A g \in run.todo : run.index \in Dumps /\ run.index[g] # <<>>
    /\ run.pc \in {"fetch", "persist"} => run.todo \subseteq Listed
    /\ run.batch # {} => run.pc = "persist"
    /\ run.pc \in {"off", "dump", "download", "backfill"} =>
            \A w \in Workers : run.workers[w].pc = "off"
    /\ run.pc \in {"list", "fetch", "persist"} =>
            \A w \in Workers : run.workers[w].pc \in {"poll", "download", "write"}
    /\ run.pc = "awaitWorkers" /\ ~run.failed => \A w \in Workers : run.workers[w].pc # "off"
    /\ \A w \in Workers : run.workers[w].pc = "ended" => run.queue = <<>> /\ ProducerDone(run)
    /\ run.pc = "ended" /\ ~run.failed =>
            run.queue = <<>> /\ \A w \in Workers : ~WorkerActive(run, w)

\* Only the last run that was started has a producer, and the flag is up.
Latest ==
    \A k \in Runs :
        /\ runs[k].pc # "off" <=> k <= started
        /\ runs[k].pc \notin {"off", "ended"} => k = started /\ syncInProgress

RunsInv == SyncTypes /\ (\A k \in Runs : Sound(runs[k])) /\ Latest

-----------------------------------------------------------------------------
(* A step of one run.                                                       *)

LEMMA OffIsRun == Off \in Run /\ Off.pc = "off" /\ Sound(Off)
<1>1. PICK off : off = Off
  OBVIOUS
<1>2. NoDump \in Dumps \cup {NoDump} /\ Default \in Thumbnails
  BY DEF Thumbnails
<1>3. /\ Off.pc = "off" /\ Off.todo = {} /\ Off.index = NoDump /\ Off.raced = {}
      /\ Off.batch = {} /\ Off.queue = <<>> /\ Off.failed = FALSE
      /\ Off.data \in [BggIds -> Thumbnails] /\ Off.workers \in [Workers -> Worker]
      /\ \A w \in Workers : Off.workers[w].pc = "off"
  BY <1>2 DEF Off, Worker
<1>4. Off \in Run
  BY <1>2, <1>3 DEF Off, Run, Phases
<1>5. Sound(Off)
  BY <1>3 DEF Sound, Backfilling, ProducerDone, WorkerActive
<1>6. QED
  BY <1>3, <1>4, <1>5

\* The run itself and the others after a step.
LEMMA PutIs ==
    ASSUME RunsInv, NEW k \in Runs, NEW q, Put(k, q)
    PROVE  /\ DOMAIN runs' = Runs
           /\ runs'[k] = q
           /\ \A j \in Runs : j # k => runs'[j] = runs[j]
  BY DEF RunsInv, SyncTypes, Put

LEMMA RunStep ==
    ASSUME RunsInv, NEW k \in Runs, NEW q \in Run, Put(k, q), Sound(q),
           runs[k].pc # "off", q.pc # "off",
           q.pc # "ended" => runs[k].pc # "ended",
           exists' \subseteq Games, bggId' \in [Games -> BggIds \cup {None}],
           cover' \in [Games -> Thumbnails \cup {None}],
           UNCHANGED <<edited, started, syncInProgress, crashed>>
    PROVE  RunsInv'
<1>1. /\ DOMAIN runs' = Runs /\ runs'[k] = q
      /\ \A j \in Runs : j # k => runs'[j] = runs[j]
  BY PutIs
<1>2. runs' \in [Runs -> Run]
  BY <1>1 DEF RunsInv, SyncTypes, Put
<1>3. \A j \in Runs : Sound(runs'[j])
  BY <1>1 DEF RunsInv
<1>4. Latest'
  BY <1>1 DEF RunsInv, Latest
<1>5. SyncTypes'
  BY <1>2 DEF RunsInv, SyncTypes
<1>6. QED
  BY <1>3, <1>4, <1>5 DEF RunsInv, Sound, Backfilling, ProducerDone, WorkerActive

LEMMA CrashInv ==
    ASSUME RunsInv, Crash, UNCHANGED <<Table, started>>
    PROVE  RunsInv'
<1>1. PICK dead : dead = [Off EXCEPT !.pc = "ended", !.failed = TRUE]
  OBVIOUS
<1>2. /\ dead \in Run /\ dead.pc = "ended" /\ dead.failed = TRUE /\ dead.batch = {}
      /\ dead.queue = Off.queue /\ dead.workers = Off.workers
  BY <1>1, OffIsRun DEF Run, Phases, Off
<1>3. \A k \in Runs : runs'[k] = IF runs[k].pc = "off" THEN Off ELSE dead
  BY <1>1 DEF Crash
<1>4. Sound(dead)
  BY <1>2 DEF Sound, Backfilling, Off
<1>5. runs' \in [Runs -> Run]
  BY <1>1, <1>2, OffIsRun DEF Crash
<1>6. \A k \in Runs : Sound(runs[k])'
  BY <1>3, <1>4, OffIsRun DEF Sound, Backfilling, ProducerDone, WorkerActive
<1>7. Latest'
  BY <1>2, <1>3, OffIsRun DEF RunsInv, Latest
<1>8. SyncTypes'
  BY <1>5 DEF RunsInv, SyncTypes, Crash, Table
<1>9. QED
  BY <1>6, <1>7, <1>8 DEF RunsInv

-----------------------------------------------------------------------------
(* The producer.                                                            *)

LEMMA RunTypes ==
    ASSUME RunsInv, NEW k \in Runs
    PROVE  /\ runs[k] \in Run /\ Sound(runs[k])
           /\ exists \subseteq Games
           /\ bggId \in [Games -> BggIds \cup {None}]
           /\ cover \in [Games -> Thumbnails \cup {None}]
  BY DEF RunsInv, SyncTypes

\* A step that changes the run only.
LEMMA RunOnly ==
    ASSUME RunsInv, NEW k \in Runs, NEW q \in Run, Put(k, q), Sound(q),
           runs[k].pc # "off", q.pc # "off",
           q.pc # "ended" => runs[k].pc # "ended",
           UNCHANGED <<Table, Process>>
    PROVE  RunsInv'
<1>1. UNCHANGED <<exists, bggId, cover>> /\ UNCHANGED <<edited, started, syncInProgress, crashed>>
  BY DEF Table, Process
<1>2. /\ exists' \subseteq Games /\ bggId' \in [Games -> BggIds \cup {None}]
      /\ cover' \in [Games -> Thumbnails \cup {None}]
  BY <1>1, RunTypes
<1>3. QED
  BY <1>1, <1>2, RunStep

\* The catch block of a run without workers.
LEMMA ThrownSound ==
    ASSUME NEW run, Sound(run), run.pc \in {"dump", "download", "backfill"},
           NEW q, q.pc = "awaitWorkers", q.failed = TRUE, q.batch = run.batch,
           q.workers = run.workers
    PROVE  Sound(q)
  BY DEF Sound, Backfilling, ProducerDone

LEMMA ThrownIsSound ==
    ASSUME NEW run \in Run, Sound(run), run.pc \in {"dump", "download", "backfill"}
    PROVE  Thrown(run) \in Run /\ Thrown(run).pc = "awaitWorkers" /\ Sound(Thrown(run))
<1>1. PICK q : q = Thrown(run)
  OBVIOUS
<1>2. /\ q \in Run /\ q.pc = "awaitWorkers" /\ q.failed = TRUE /\ q.batch = run.batch
      /\ q.workers = run.workers
  BY <1>1 DEF Run, Phases, Thrown
<1>3. Sound(q)
  BY <1>2, ThrownSound
<1>4. QED
  BY <1>1, <1>2, <1>3

LEMMA ListUnconnectedInv ==
    ASSUME RunsInv, NEW k \in Runs, ListUnconnected(k)
    PROVE  RunsInv'
<1>1. PICK run \in Run : run = runs[k] /\ Sound(run) /\ run.pc = "dump"
  BY RunTypes DEF ListUnconnected
<1>2. PICK unconnected : unconnected = {g \in exists : bggId[g] = None}
  OBVIOUS
<1>3. unconnected \subseteq Games
  BY <1>2, RunTypes
<1>4. UNCHANGED <<Table, Process>>
  BY DEF ListUnconnected
<1>5. CASE Put(k, [run EXCEPT !.pc = IF unconnected = {} THEN "backfill" ELSE "download",
                              !.todo = unconnected])
  <2>1. PICK q : q = [run EXCEPT !.pc = IF unconnected = {} THEN "backfill" ELSE "download",
                                 !.todo = unconnected]
    OBVIOUS
  <2>2. /\ q \in Run /\ q.pc = IF unconnected = {} THEN "backfill" ELSE "download"
        /\ q.todo = unconnected /\ q.batch = run.batch /\ q.workers = run.workers
        /\ q.queue = run.queue
    BY <1>1, <1>3, <2>1 DEF Run, Phases
  <2>3. Sound(q)
    BY <1>1, <1>3, <2>2 DEF Sound, Backfilling, ProducerDone
  <2>4. Put(k, q)
    BY <1>5, <2>1
  <2>5. QED
    BY <1>1, <1>4, <2>2, <2>3, <2>4, RunOnly
<1>6. CASE Put(k, Thrown(run))
  BY <1>1, <1>6, <1>4, ThrownIsSound, RunOnly
<1>7. QED
  BY <1>1, <1>2, <1>5, <1>6 DEF ListUnconnected

LEMMA DownloadDumpInv ==
    ASSUME RunsInv, NEW k \in Runs, DownloadDump(k)
    PROVE  RunsInv'
<1>1. PICK run \in Run : run = runs[k] /\ Sound(run) /\ run.pc = "download"
  BY RunTypes DEF DownloadDump
<1>2. UNCHANGED <<Table, Process>>
  BY DEF DownloadDump
<1>3. ASSUME NEW dump \in Dumps,
             Put(k, [run EXCEPT !.pc = "backfill", !.index = dump,
                                !.todo = {g \in @ : dump[g] # <<>>}])
      PROVE  RunsInv'
  <2>1. PICK todo : todo = {g \in run.todo : dump[g] # <<>>}
    OBVIOUS
  <2>2. PICK q : q = [run EXCEPT !.pc = "backfill", !.index = dump, !.todo = todo]
    OBVIOUS
  <2>3. run.todo \subseteq Games
    BY <1>1 DEF Sound, Backfilling
  <2>4. todo \subseteq Games /\ \A g \in todo : dump[g] # <<>>
    BY <2>1, <2>3
  <2>5. /\ q \in Run /\ q.pc = "backfill" /\ q.todo = todo /\ q.index = dump
        /\ q.batch = run.batch /\ q.workers = run.workers /\ q.queue = run.queue
    BY <1>1, <2>2, <2>4 DEF Run, Phases
  <2>6. Sound(q)
    BY <1>1, <2>4, <2>5 DEF Sound, Backfilling, ProducerDone
  <2>7. Put(k, q)
    BY <1>3, <2>1, <2>2, <1>1 DEF Run
  <2>8. QED
    BY <1>1, <1>2, <2>5, <2>6, <2>7, RunOnly
<1>4. CASE Put(k, [Thrown(run) EXCEPT !.todo = {}, !.raced = {}])
  <2>1. PICK q : q = [Thrown(run) EXCEPT !.todo = {}, !.raced = {}]
    OBVIOUS
  <2>2. /\ q \in Run /\ q.pc = "awaitWorkers" /\ q.failed = TRUE /\ q.batch = run.batch
        /\ q.workers = run.workers
    BY <2>1 DEF Thrown, Run, Phases
  <2>3. Sound(q)
    BY <1>1, <2>2, ThrownSound
  <2>4. QED
    BY <1>1, <1>2, <1>4, <2>1, <2>2, <2>3, RunOnly
<1>5. QED
  BY <1>1, <1>3, <1>4 DEF DownloadDump

LEMMA ElementOf == ASSUME NEW S, NEW s \in Seq(S), NEW n \in DOMAIN s PROVE s[n] \in S
  OBVIOUS

LEMMA BackfillInv ==
    ASSUME RunsInv, NEW k \in Runs, Backfill(k)
    PROVE  RunsInv'
<1>1. PICK run \in Run : run = runs[k] /\ Sound(run) /\ run.pc = "backfill"
  BY RunTypes DEF Backfill
<1>2. UNCHANGED <<exists, cover, edited, started, syncInProgress, crashed>>
  BY DEF Backfill, Process
<1>3. run.todo \subseteq Games
  BY <1>1 DEF Sound, Backfilling
<1>4. ASSUME NEW g \in run.todo, g \in exists,
             bggId' = [bggId EXCEPT ![g] = Chosen(run.index[g], YearPublished[g]).id],
             Put(k, [run EXCEPT !.todo = @ \ {g}])
      PROVE  RunsInv'
  <2>1. PICK q : q = [run EXCEPT !.todo = @ \ {g}]
    OBVIOUS
  <2>2. /\ q \in Run /\ q.pc = "backfill" /\ q.todo = run.todo \ {g} /\ q.index = run.index
        /\ q.batch = run.batch /\ q.workers = run.workers /\ q.queue = run.queue
    BY <1>1, <2>1 DEF Run
  <2>3. Sound(q)
    BY <1>1, <2>2 DEF Sound, Backfilling, ProducerDone
  <2>4. bggId' \in [Games -> BggIds \cup {None}]
    <3>1. run.index \in Dumps /\ run.index[g] # <<>> /\ g \in Games
      BY <1>1, <1>3 DEF Sound
    <3>2. run.index[g] \in Seq([id : BggIds, year : Nat, rank : Nat])
      <4>1. Dumps \subseteq [Games -> Seq([id : BggIds, year : Nat, rank : Nat])]
        BY GameSyncAssumption
      <4>2. QED
        BY <3>1, <4>1
    <3>3. PICK n \in DOMAIN run.index[g] :
                Chosen(run.index[g], YearPublished[g]) = run.index[g][n]
      BY <3>1, ChoiceAssumption
    <3>4. run.index[g][n] \in [id : BggIds, year : Nat, rank : Nat]
      BY <3>2, <3>3, ElementOf
    <3>5. QED
      BY <1>4, <3>3, <3>4, RunTypes
  <2>5. QED
    BY <1>1, <1>2, <1>4, <2>1, <2>2, <2>3, <2>4, RunStep, RunTypes
<1>5. CASE /\ Put(k, [Thrown(run) EXCEPT !.todo = {}, !.index = NoDump, !.raced = {}])
           /\ UNCHANGED bggId
  <2>1. PICK q : q = [Thrown(run) EXCEPT !.todo = {}, !.index = NoDump, !.raced = {}]
    OBVIOUS
  <2>2. /\ q \in Run /\ q.pc = "awaitWorkers" /\ q.failed = TRUE /\ q.batch = run.batch
        /\ q.workers = run.workers
    BY <2>1 DEF Thrown, Run, Phases
  <2>3. Sound(q)
    BY <1>1, <2>2, ThrownSound
  <2>4. UNCHANGED <<Table, Process>>
    BY <1>2, <1>5 DEF Table, Process
  <2>5. QED
    BY <1>1, <1>5, <2>1, <2>2, <2>3, <2>4, RunOnly
<1>6. QED
  BY <1>1, <1>4, <1>5 DEF Backfill

LEMMA StartWorkersInv ==
    ASSUME RunsInv, NEW k \in Runs, StartWorkers(k)
    PROVE  RunsInv'
<1>1. PICK run \in Run : run = runs[k] /\ Sound(run) /\ run.pc = "backfill"
  BY RunTypes DEF StartWorkers
<1>2. PICK polling : polling = [w \in Workers |-> [pc |-> "poll"]]
  OBVIOUS
<1>3. polling \in [Workers -> Worker] /\ \A w \in Workers : polling[w].pc = "poll"
  BY <1>2 DEF Worker
<1>4. PICK q : q = [run EXCEPT !.pc = "list", !.index = NoDump, !.raced = {},
                               !.workers = polling]
  OBVIOUS
<1>5. /\ q \in Run /\ q.pc = "list" /\ q.workers = polling /\ q.batch = run.batch
  BY <1>3, <1>4 DEF Run, Phases
<1>6. Sound(q)
  BY <1>1, <1>3, <1>5 DEF Sound, Backfilling, ProducerDone
<1>7. Put(k, q) /\ UNCHANGED <<Table, Process>>
  BY <1>1, <1>2, <1>4 DEF StartWorkers
<1>8. QED
  BY <1>1, <1>5, <1>6, <1>7, RunOnly

LEMMA ListGamesInv ==
    ASSUME RunsInv, NEW k \in Runs, ListGames(k)
    PROVE  RunsInv'
<1>1. PICK run \in Run : run = runs[k] /\ Sound(run) /\ run.pc = "list"
  BY RunTypes DEF ListGames
<1>2. PICK todo : todo = {[game |-> g, id |-> bggId[g]] : g \in {h \in exists : bggId[h] # None}}
  OBVIOUS
<1>3. todo \subseteq Listed
  BY <1>2, RunTypes DEF Listed
<1>4. CASE Put(k, [run EXCEPT !.pc = "fetch", !.todo = todo])
           /\ UNCHANGED <<syncInProgress, crashed>>
  <2>1. PICK q : q = [run EXCEPT !.pc = "fetch", !.todo = todo]
    OBVIOUS
  <2>2. /\ q \in Run /\ q.pc = "fetch" /\ q.todo = todo /\ q.workers = run.workers
        /\ q.batch = run.batch
    BY <1>3, <2>1 DEF Run, Phases
  <2>3. Sound(q)
    BY <1>1, <1>3, <2>2 DEF Sound, Backfilling, ProducerDone
  <2>4. UNCHANGED <<Table, Process>>
    BY <1>4 DEF ListGames, Process
  <2>5. QED
    BY <1>1, <1>4, <2>1, <2>2, <2>3, <2>4, RunOnly
<1>5. CASE Crash
  BY <1>5, CrashInv DEF ListGames
<1>6. QED
  BY <1>1, <1>2, <1>4, <1>5 DEF ListGames

LEMMA FetchBatchInv ==
    ASSUME RunsInv, NEW k \in Runs, FetchBatch(k)
    PROVE  RunsInv'
<1>1. PICK run \in Run : run = runs[k] /\ Sound(run) /\ run.pc = "fetch"
  BY RunTypes DEF FetchBatch
<1>2. ASSUME NEW batch \in SUBSET run.todo, NEW found,
             Put(k, [run EXCEPT
                    !.pc = "persist", !.todo = @ \ batch, !.data = Off.data,
                    !.batch = {[pc |-> "find", game |-> l.game, id |-> l.id] :
                                    l \in {m \in batch : m.id \in found}}]),
             UNCHANGED <<syncInProgress, crashed>>
      PROVE  RunsInv'
  <2>1. PICK persisters : persisters = {[pc |-> "find", game |-> l.game, id |-> l.id] :
                                    l \in {m \in batch : m.id \in found}}
    OBVIOUS
  <2>2. run.todo \subseteq Listed
    BY <1>1 DEF Sound
  <2>3. persisters \subseteq Persister
    BY <2>1, <2>2 DEF Persister, Listed
  <2>4. PICK q : q = [run EXCEPT !.pc = "persist", !.todo = @ \ batch, !.data = Off.data,
                                 !.batch = persisters]
    OBVIOUS
  <2>5. Off.data \in [BggIds -> Thumbnails]
    BY OffIsRun DEF Run
  <2>6. /\ q \in Run /\ q.pc = "persist" /\ q.todo = run.todo \ batch
        /\ q.workers = run.workers
    BY <2>3, <2>4, <2>5 DEF Run, Phases
  <2>7. Sound(q)
    BY <1>1, <2>2, <2>6 DEF Sound, Backfilling, ProducerDone
  <2>8. Put(k, q)
    BY <1>2, <2>1, <2>4
  <2>9. UNCHANGED <<Table, Process>>
    BY <1>2 DEF FetchBatch, Process
  <2>10. QED
    BY <1>1, <2>6, <2>7, <2>8, <2>9, RunOnly
<1>3. CASE Crash
  BY <1>3, CrashInv DEF FetchBatch
<1>4. QED
  BY <1>1, <1>2, <1>3 DEF FetchBatch

LEMMA NextBatchInv ==
    ASSUME RunsInv, NEW k \in Runs, NextBatch(k)
    PROVE  RunsInv'
<1>1. PICK run \in Run : run = runs[k] /\ Sound(run) /\ run.pc = "persist" /\ run.batch = {}
  BY RunTypes DEF NextBatch
<1>2. PICK q : q = [run EXCEPT !.pc = "fetch", !.data = Off.data]
  OBVIOUS
<1>3. Off.data \in [BggIds -> Thumbnails]
  BY OffIsRun DEF Run
<1>4. /\ q \in Run /\ q.pc = "fetch" /\ q.todo = run.todo /\ q.workers = run.workers
      /\ q.batch = run.batch
  BY <1>2, <1>3 DEF Run, Phases
<1>5. Sound(q)
  BY <1>1, <1>4 DEF Sound, Backfilling, ProducerDone
<1>6. Put(k, q) /\ UNCHANGED <<Table, Process>>
  BY <1>1, <1>2 DEF NextBatch
<1>7. QED
  BY <1>1, <1>4, <1>5, <1>6, RunOnly

LEMMA CountUnresolvedInv ==
    ASSUME RunsInv, NEW k \in Runs, CountUnresolved(k)
    PROVE  RunsInv'
<1>1. PICK run \in Run : run = runs[k] /\ Sound(run) /\ run.pc = "fetch"
  BY RunTypes DEF CountUnresolved
<1>2. CASE Put(k, [run EXCEPT !.pc = "awaitWorkers"]) /\ UNCHANGED <<syncInProgress, crashed>>
  <2>1. PICK q : q = [run EXCEPT !.pc = "awaitWorkers"]
    OBVIOUS
  <2>2. q \in Run /\ q.pc = "awaitWorkers" /\ q.workers = run.workers /\ q.batch = run.batch
    BY <2>1 DEF Run, Phases
  <2>3. Sound(q)
    BY <1>1, <2>2 DEF Sound, Backfilling, ProducerDone
  <2>4. UNCHANGED <<Table, Process>>
    BY <1>2 DEF CountUnresolved, Process
  <2>5. QED
    BY <1>1, <1>2, <2>1, <2>2, <2>3, <2>4, RunOnly
<1>3. CASE Crash
  BY <1>3, CrashInv DEF CountUnresolved
<1>4. QED
  BY <1>1, <1>2, <1>3 DEF CountUnresolved

\* The run ends: the flag clears, and no other run was in progress.
LEMMA EndRunInv ==
    ASSUME RunsInv, NEW k \in Runs, EndRun(k)
    PROVE  RunsInv'
<1>1. PICK run \in Run : run = runs[k] /\ Sound(run) /\ run.pc = "awaitWorkers"
  BY RunTypes DEF EndRun
<1>2. PICK rejected \in BOOLEAN : rejected <=> \E w \in Workers : run.workers[w].pc = "rejected"
  OBVIOUS
<1>3. PICK q : q = [run EXCEPT !.pc = "ended", !.failed = @ \/ rejected]
  OBVIOUS
<1>4. /\ q.pc = "ended" /\ q.workers = run.workers /\ q.batch = run.batch
      /\ q.queue = run.queue /\ q.failed = (run.failed \/ rejected)
  BY <1>3 DEF Run
<1>5. q \in Run
  <2>1. run.failed \/ rejected \in BOOLEAN
    BY Zenon
  <2>2. QED
    BY <1>3, <2>1 DEF Run, Phases
<1>6. Sound(q)
  <2>1. CASE run.failed \/ rejected
    BY <1>1, <1>4, <2>1 DEF Sound, Backfilling, ProducerDone
  <2>2. CASE ~run.failed /\ ~rejected
    <3>1. \A w \in Workers : ~WorkerActive(run, w) /\ run.workers[w].pc \notin {"off", "rejected"}
      BY <1>1, <1>2, <2>2 DEF EndRun, Sound
    <3>2. \A w \in Workers : run.workers[w] \in Worker
      BY DEF Run
    <3>3. \A w \in Workers : run.workers[w].pc = "ended"
      BY <3>1, <3>2 DEF Worker, WorkerActive
    <3>4. run.queue = <<>>
      BY <1>1, <3>3, GameSyncAssumption DEF Sound
    <3>5. QED
      BY <1>1, <1>4, <3>1, <3>4 DEF Sound, Backfilling, ProducerDone, WorkerActive
  <2>3. QED
    BY <2>1, <2>2, Zenon
<1>7. Put(k, [run EXCEPT !.pc = "ended", !.failed = @ \/ rejected])
  BY <1>1, <1>2, Zenon DEF EndRun
<1>8. Put(k, q) /\ UNCHANGED <<exists, bggId, cover, edited, started, crashed>> /\ ~syncInProgress'
  BY <1>3, <1>7 DEF EndRun, Table
<1>9. /\ DOMAIN runs' = Runs /\ runs'[k] = q
      /\ \A j \in Runs : j # k => runs'[j] = runs[j]
  BY <1>8, PutIs
<1>10. runs' \in [Runs -> Run]
  BY <1>5, <1>8 DEF RunsInv, SyncTypes, Put
<1>11. Latest'
  BY <1>1, <1>4, <1>8, <1>9 DEF RunsInv, Latest
<1>12. \A j \in Runs : Sound(runs[j])'
  BY <1>6, <1>9 DEF RunsInv, Sound, Backfilling, ProducerDone, WorkerActive
<1>13. syncInProgress' \in BOOLEAN
  BY DEF EndRun
<1>14. SyncTypes'
  BY <1>8, <1>10, <1>13 DEF RunsInv, SyncTypes
<1>15. QED
  BY <1>11, <1>12, <1>14 DEF RunsInv

-----------------------------------------------------------------------------
(* The callbacks that persist a batch.                                      *)

LEMMA QueuedSound ==
    ASSUME NEW run \in Run, Sound(run), NEW p \in run.batch
    PROVE  Queued(run, p) \in Run /\ Queued(run, p).pc = "persist" /\ Sound(Queued(run, p))
<1>1. p \in Persister /\ run.pc = "persist"
  BY DEF Run, Sound
<1>2. PICK data : data = IF EditionOf[p.game] = p.id THEN [run.data EXCEPT ![p.id] = p.game]
                         ELSE run.data
  OBVIOUS
<1>3. data \in [BggIds -> Thumbnails] /\ p.id \in BggIds /\ p.game \in Games
  BY <1>1, <1>2, GameSyncAssumption DEF Run, Thumbnails, Versioned, Persister
<1>4. PICK job : job = [game |-> p.game, thumbnail |-> data[p.id]]
  OBVIOUS
<1>5. job \in Job
  BY <1>3, <1>4 DEF Job
<1>6. PICK q : q = [run EXCEPT !.batch = @ \ {p}, !.data = data, !.queue = Append(@, job)]
  OBVIOUS
<1>7. /\ q \in Run /\ q.pc = "persist" /\ q.todo = run.todo /\ q.workers = run.workers
  <2>1. Append(run.queue, job) \in Seq(Job)
    BY <1>5 DEF Run
  <2>2. PICK queue \in Seq(Job) : queue = Append(run.queue, job)
    BY <2>1
  <2>3. q = [run EXCEPT !.batch = @ \ {p}, !.data = data, !.queue = queue]
    BY <1>6, <2>2
  <2>4. QED
    BY <1>1, <1>3, <2>3 DEF Run
<1>8. q = Queued(run, p)
  BY <1>2, <1>4, <1>6 DEF Queued
<1>9. Sound(q)
  BY <1>1, <1>7 DEF Sound, Backfilling, ProducerDone
<1>10. QED
  BY <1>7, <1>8, <1>9

LEMMA FindGameInv ==
    ASSUME RunsInv, NEW k \in Runs, FindGame(k)
    PROVE  RunsInv'
<1>1. PICK run \in Run : run = runs[k] /\ Sound(run)
  BY RunTypes
<1>2. PICK p \in run.batch :
        /\ p.pc = "find"
        /\ Put(k, IF p.game \in exists
                  THEN [run EXCEPT !.batch = (@ \ {p}) \cup {[p EXCEPT !.pc = "update"]}]
                  ELSE Queued(run, p))
  BY <1>1 DEF FindGame
<1>3. run.pc = "persist" /\ p \in Persister /\ run.batch \subseteq Persister
  BY <1>1 DEF Sound, Run
<1>4. UNCHANGED <<Table, Process>>
  BY DEF FindGame
<1>5. CASE p.game \in exists
  <2>1. PICK found : found = [p EXCEPT !.pc = "update"]
    OBVIOUS
  <2>2. found \in Persister
    BY <1>3, <2>1 DEF Persister
  <2>3. PICK q : q = [run EXCEPT !.batch = (@ \ {p}) \cup {found}]
    OBVIOUS
  <2>4. (run.batch \ {p}) \cup {found} \subseteq Persister
    BY <1>3, <2>2
  <2>5. /\ q \in Run /\ q.pc = "persist" /\ q.todo = run.todo /\ q.workers = run.workers
    BY <1>3, <2>3, <2>4 DEF Run
  <2>6. Sound(q)
    BY <1>1, <1>3, <2>5 DEF Sound, Backfilling, ProducerDone
  <2>7. Put(k, q)
    BY <1>2, <1>5, <2>1, <2>3
  <2>8. QED
    BY <1>1, <1>3, <1>4, <2>5, <2>6, <2>7, RunOnly
<1>6. CASE p.game \notin exists
  <2>1. Put(k, Queued(run, p))
    BY <1>2, <1>6
  <2>2. QED
    BY <1>1, <1>3, <1>4, <2>1, QueuedSound, RunOnly
<1>7. QED
  BY <1>5, <1>6

LEMMA UpdateGameInv ==
    ASSUME RunsInv, NEW k \in Runs, UpdateGame(k)
    PROVE  RunsInv'
<1>1. PICK run \in Run : run = runs[k] /\ Sound(run)
  BY RunTypes
<1>2. ASSUME NEW p \in run.batch, bggId' = [bggId EXCEPT ![p.game] = p.id],
             Put(k, Queued(run, p)), UNCHANGED <<syncInProgress, crashed>>
      PROVE  RunsInv'
  <2>1. run.pc = "persist" /\ p \in Persister
    BY <1>1 DEF Sound, Run
  <2>2. bggId' \in [Games -> BggIds \cup {None}]
    BY <1>2, <2>1, RunTypes DEF Persister
  <2>3. UNCHANGED <<exists, cover>> /\ UNCHANGED <<edited, started, syncInProgress, crashed>>
    BY <1>2 DEF UpdateGame
  <2>4. /\ exists' \subseteq Games /\ cover' \in [Games -> Thumbnails \cup {None}]
    BY <2>3, RunTypes
  <2>5. QED
    BY <1>1, <1>2, <2>1, <2>2, <2>3, <2>4, QueuedSound, RunStep
<1>3. CASE Crash /\ UNCHANGED bggId
  BY <1>3, CrashInv DEF UpdateGame, Table
<1>4. QED
  BY <1>1, <1>2, <1>3 DEF UpdateGame

-----------------------------------------------------------------------------
(* The workers.                                                             *)

\* A worker of a run that was started, before it stops or as it rejects.
LEMMA WithSound ==
    ASSUME NEW run \in Run, Sound(run), NEW w \in Workers, WorkerActive(run, w),
           NEW worker \in Worker,
           \/ worker.pc \in {"poll", "download", "write"}
           \/ worker.pc = "rejected" /\ ProducerDone(run)
           \/ worker.pc = "ended" /\ ProducerDone(run) /\ run.queue = <<>>
    PROVE  /\ With(run, w, worker) \in Run
           /\ With(run, w, worker).pc = run.pc
           /\ With(run, w, worker).queue = run.queue
           /\ With(run, w, worker).workers = [run.workers EXCEPT ![w] = worker]
           /\ Sound(With(run, w, worker))
<1>1. PICK workers : workers = [run.workers EXCEPT ![w] = worker]
  OBVIOUS
<1>2. /\ workers \in [Workers -> Worker] /\ workers[w] = worker
      /\ \A v \in Workers : v # w => workers[v] = run.workers[v]
  BY <1>1 DEF Run
<1>3. PICK q : q = [run EXCEPT !.workers = workers]
  OBVIOUS
<1>4. /\ q \in Run /\ q.pc = run.pc /\ q.todo = run.todo /\ q.index = run.index
      /\ q.batch = run.batch /\ q.queue = run.queue /\ q.failed = run.failed
      /\ q.workers = workers
  BY <1>2, <1>3 DEF Run
<1>5. q = With(run, w, worker)
  BY <1>1, <1>3 DEF With
<1>6. Sound(q)
  BY <1>2, <1>4 DEF Sound, Backfilling, ProducerDone, WorkerActive
<1>7. QED
  BY <1>1, <1>4, <1>5, <1>6

\* A worker takes the first job: no worker has ended yet.
LEMMA TakenSound ==
    ASSUME NEW run \in Run, Sound(run), run.queue # <<>>,
           run.pc = "ended" => run.failed
    PROVE  LET q == [run EXCEPT !.queue = Tail(@)] IN
           q \in Run /\ q.pc = run.pc /\ Sound(q)
<1>1. run.queue \in Seq(Job)
  BY DEF Run
<1>2. Tail(run.queue) \in Seq(Job)
  BY <1>1
<1>3. PICK q : q = [run EXCEPT !.queue = Tail(@)]
  OBVIOUS
<1>4. /\ q \in Run /\ q.pc = run.pc /\ q.todo = run.todo /\ q.index = run.index
      /\ q.batch = run.batch /\ q.failed = run.failed /\ q.workers = run.workers
  BY <1>2, <1>3 DEF Run
<1>5. Sound(q)
  BY <1>4 DEF Sound, Backfilling, ProducerDone, WorkerActive
<1>6. QED
  BY <1>3, <1>4, <1>5

LEMMA TakeJobInv ==
    ASSUME RunsInv, NEW k \in Runs, NEW w \in Workers, TakeJob(k, w)
    PROVE  RunsInv'
<1>1. PICK run \in Run : run = runs[k] /\ Sound(run) /\ run.workers[w].pc = "poll"
  BY RunTypes DEF TakeJob
<1>2. /\ WorkerActive(run, w) /\ run.pc # "off" /\ UNCHANGED <<Table, Process>>
      /\ run.pc = "ended" => run.failed
  BY <1>1 DEF WorkerActive, TakeJob, Sound
<1>3. CASE /\ run.queue # <<>>
           /\ Put(k, [With(run, w, [pc |-> "download", job |-> Head(run.queue)])
                        EXCEPT !.queue = Tail(@)])
  <2>1. PICK worker : worker = [pc |-> "download", job |-> Head(run.queue)]
    OBVIOUS
  <2>2. run.queue \in Seq(Job)
    BY DEF Run
  <2>3. Head(run.queue) \in Job
    BY <1>3, <2>2
  <2>4. worker \in Worker /\ worker.pc = "download"
    BY <2>1, <2>3 DEF Worker
  <2>5. PICK taken : taken = With(run, w, worker)
    OBVIOUS
  <2>6. /\ taken \in Run /\ taken.pc = run.pc /\ taken.queue = run.queue /\ Sound(taken)
        /\ taken.failed = run.failed
    BY <1>1, <1>2, <2>4, <2>5, WithSound DEF With, Run
  <2>7. PICK q : q = [taken EXCEPT !.queue = Tail(@)]
    OBVIOUS
  <2>8. q \in Run /\ q.pc = run.pc /\ Sound(q)
    BY <1>2, <1>3, <2>6, <2>7, TakenSound
  <2>9. Put(k, q)
    BY <1>3, <2>1, <2>5, <2>7
  <2>10. QED
    BY <1>1, <1>2, <2>8, <2>9, RunOnly
<1>4. CASE /\ run.queue = <<>> /\ ProducerDone(run)
           /\ Put(k, With(run, w, [pc |-> "ended"]))
  <2>1. PICK worker : worker = [pc |-> "ended"]
    OBVIOUS
  <2>2. worker \in Worker /\ worker.pc = "ended"
    BY <2>1 DEF Worker
  <2>3. PICK q : q = With(run, w, worker)
    OBVIOUS
  <2>4. q \in Run /\ q.pc = run.pc /\ Sound(q)
    BY <1>1, <1>2, <1>4, <2>2, <2>3, WithSound
  <2>5. Put(k, q)
    BY <1>4, <2>1, <2>3
  <2>6. QED
    BY <1>1, <1>2, <2>4, <2>5, RunOnly
<1>5. QED
  BY <1>1, <1>3, <1>4 DEF TakeJob

LEMMA DownloadInv ==
    ASSUME RunsInv, NEW k \in Runs, NEW w \in Workers, Download(k, w)
    PROVE  RunsInv'
<1>1. PICK run \in Run : run = runs[k] /\ Sound(run) /\ run.workers[w].pc = "download"
  BY RunTypes DEF Download
<1>2. /\ WorkerActive(run, w) /\ run.pc # "off" /\ UNCHANGED <<Table, Process>>
  BY <1>1 DEF WorkerActive, Download, Sound
<1>3. ASSUME NEW worker \in Worker, worker.pc \in {"write", "poll"},
             Put(k, With(run, w, worker))
      PROVE  RunsInv'
  <2>1. PICK q : q = With(run, w, worker)
    OBVIOUS
  <2>2. q \in Run /\ q.pc = run.pc /\ Sound(q)
    BY <1>1, <1>2, <1>3, <2>1, WithSound
  <2>3. QED
    BY <1>1, <1>2, <1>3, <2>1, <2>2, RunOnly
<1>4. PICK writing : writing = [run.workers[w] EXCEPT !.pc = "write"]
  OBVIOUS
<1>5. PICK polling : polling = [pc |-> "poll"]
  OBVIOUS
<1>6. run.workers[w] \in [pc : {"download", "write"}, job : Job]
  BY <1>1 DEF Run, Worker
<1>7. writing \in Worker /\ writing.pc = "write" /\ polling \in Worker /\ polling.pc = "poll"
  BY <1>4, <1>5, <1>6 DEF Worker
<1>8. QED
  BY <1>1, <1>3, <1>4, <1>5, <1>7 DEF Download

LEMMA WriteCoverInv ==
    ASSUME RunsInv, NEW k \in Runs, NEW w \in Workers, WriteCover(k, w)
    PROVE  RunsInv'
<1>1. PICK run \in Run : run = runs[k] /\ Sound(run) /\ run.workers[w].pc = "write"
  BY RunTypes DEF WriteCover
<1>2. /\ WorkerActive(run, w) /\ run.pc # "off"
      /\ UNCHANGED <<exists, bggId, edited, started>>
  BY <1>1 DEF WorkerActive, WriteCover, Sound
<1>3. PICK job \in Job : job = run.workers[w].job
  BY <1>1 DEF Run, Worker
<1>4. cover' \in [Games -> Thumbnails \cup {None}]
  BY <1>1, <1>3, RunTypes DEF WriteCover, Job
<1>5. ASSUME NEW worker \in Worker,
             worker.pc \in {"poll", "rejected"},
             worker.pc = "rejected" => ProducerDone(run),
             Put(k, With(run, w, worker)), UNCHANGED <<syncInProgress, crashed>>
      PROVE  RunsInv'
  <2>1. PICK q : q = With(run, w, worker)
    OBVIOUS
  <2>2. q \in Run /\ q.pc = run.pc /\ Sound(q)
    BY <1>1, <1>2, <1>5, <2>1, WithSound
  <2>3. /\ exists' \subseteq Games /\ bggId' \in [Games -> BggIds \cup {None}]
    BY <1>2, RunTypes
  <2>4. QED
    BY <1>1, <1>2, <1>4, <1>5, <2>1, <2>2, <2>3, RunStep
<1>6. CASE Crash /\ UNCHANGED cover
  BY <1>2, <1>6, CrashInv DEF Table
<1>7. PICK polling : polling = [pc |-> "poll"]
  OBVIOUS
<1>8. PICK rejected : rejected = [pc |-> "rejected"]
  OBVIOUS
<1>9. polling \in Worker /\ polling.pc = "poll" /\ rejected \in Worker /\ rejected.pc = "rejected"
  BY <1>7, <1>8 DEF Worker
<1>10. \/ Put(k, With(run, w, polling)) /\ UNCHANGED <<syncInProgress, crashed>>
       \/ ProducerDone(run) /\ Put(k, With(run, w, rejected)) /\ UNCHANGED <<syncInProgress, crashed>>
       \/ Crash /\ UNCHANGED cover
  BY <1>1, <1>7, <1>8 DEF WriteCover
<1>11. CASE Put(k, With(run, w, polling)) /\ UNCHANGED <<syncInProgress, crashed>>
  BY <1>5, <1>9, <1>11
<1>12. CASE ProducerDone(run) /\ Put(k, With(run, w, rejected))
            /\ UNCHANGED <<syncInProgress, crashed>>
  BY <1>5, <1>9, <1>12
<1>13. QED
  BY <1>6, <1>10, <1>11, <1>12

-----------------------------------------------------------------------------
(* The requests.                                                            *)

LEMMA StartInv ==
    ASSUME RunsInv, StartSyncAndConnect
    PROVE  RunsInv'
<1>1. PICK k : k = started + 1
  OBVIOUS
<1>2. /\ k \in Runs /\ started' = k /\ syncInProgress' = TRUE /\ ~syncInProgress
      /\ UNCHANGED <<exists, bggId, cover, edited, crashed>>
  BY <1>1, GameSyncAssumption DEF StartSyncAndConnect, Runs, RunsInv, SyncTypes, Table
<1>3. PICK polling : polling = [w \in Workers |-> [pc |-> "poll"]]
  OBVIOUS
<1>4. polling \in [Workers -> Worker] /\ \A w \in Workers : polling[w].pc = "poll"
  BY <1>3 DEF Worker
<1>5. PICK q : Put(k, q) /\ (q = [Off EXCEPT !.pc = "dump"]
                               \/ q = [Off EXCEPT !.pc = "list", !.workers = polling])
  BY <1>1, <1>3 DEF StartSyncAndConnect
<1>6. q \in Run /\ q.pc \in {"dump", "list"} /\ Sound(q)
  <2>1. CASE q = [Off EXCEPT !.pc = "dump"]
    <3>1. q \in Run /\ q.pc = "dump" /\ q.workers = Off.workers /\ q.batch = Off.batch
      BY <2>1, OffIsRun DEF Run, Phases
    <3>2. QED
      BY <3>1, OffIsRun DEF Sound, Backfilling, ProducerDone
  <2>2. CASE q = [Off EXCEPT !.pc = "list", !.workers = polling]
    <3>1. q \in Run /\ q.pc = "list" /\ q.workers = polling /\ q.batch = Off.batch
      BY <1>4, <2>2, OffIsRun DEF Run, Phases
    <3>2. QED
      BY <1>4, <3>1, OffIsRun DEF Sound, Backfilling, ProducerDone
  <2>3. QED
    BY <1>5, <2>1, <2>2
<1>7. /\ DOMAIN runs' = Runs /\ runs'[k] = q
      /\ \A j \in Runs : j # k => runs'[j] = runs[j]
  BY <1>2, <1>5, PutIs
<1>8. runs' \in [Runs -> Run]
  BY <1>5, <1>6 DEF RunsInv, SyncTypes, Put
<1>9. Latest'
  <2>1. \A j \in Runs : (runs[j].pc # "off" <=> j <= started)
                          /\ (runs[j].pc \notin {"off", "ended"} => syncInProgress)
    BY DEF RunsInv, Latest
  <2>2. started \in Nat /\ Runs \subseteq Nat
    BY GameSyncAssumption DEF RunsInv, SyncTypes, Runs
  <2>3. \A j \in Runs : j # k => (j <= started <=> j <= k)
    BY <1>1, <2>2
  <2>4. QED
    BY <1>2, <1>6, <1>7, <2>1, <2>2, <2>3 DEF Latest
<1>10. \A j \in Runs : Sound(runs[j])'
  BY <1>6, <1>7 DEF RunsInv, Sound, Backfilling, ProducerDone, WorkerActive
<1>11. started' \in 0 .. MaxRuns
  BY <1>2, GameSyncAssumption DEF Runs
<1>12. SyncTypes'
  BY <1>2, <1>8, <1>11 DEF RunsInv, SyncTypes
<1>13. QED
  BY <1>9, <1>10, <1>12 DEF RunsInv

LEMMA EditTyped ==
    ASSUME RunsInv, NEW g, Edit(g)
    PROVE  g \in Games /\ edited' \subseteq Games
  BY DEF RunsInv, SyncTypes, Edit

LEMMA DeleteGameInv ==
    ASSUME RunsInv, DeleteGame
    PROVE  RunsInv'
<1>1. UNCHANGED <<bggId, cover, runs, started, syncInProgress, crashed>>
  BY DEF DeleteGame, Process
<1>2. exists' \subseteq Games /\ edited' \subseteq Games
  BY EditTyped, RunTypes DEF DeleteGame, RunsInv, SyncTypes
<1>3. QED
  BY <1>1, <1>2 DEF RunsInv, SyncTypes, Latest, Sound, Backfilling, ProducerDone,
                    WorkerActive

\* What an edit of a game's bggId leaves of a run.
LEMMA GiveIdRuns ==
    ASSUME RunsInv, NEW g \in Games, NEW id, GiveId(g, id), NEW k \in Runs
    PROVE  /\ runs'[k] \in Run /\ runs'[k].pc = runs[k].pc /\ runs'[k].todo = runs[k].todo
           /\ runs'[k].index = runs[k].index /\ runs'[k].batch = runs[k].batch
           /\ runs'[k].data = runs[k].data
           /\ runs'[k].queue = runs[k].queue /\ runs'[k].workers = runs[k].workers
           /\ runs'[k].failed = runs[k].failed
<1>1. PICK run \in Run : run = runs[k]
  BY RunTypes
<1>2. runs'[k] = run \/ runs'[k] = [run EXCEPT !.raced = @ \cup {g}]
  BY <1>1 DEF GiveId
<1>3. QED
  BY <1>1, <1>2 DEF Run

LEMMA GiveIdInv ==
    ASSUME RunsInv, NEW g, NEW id \in BggIds \cup {None}, GiveId(g, id),
           cover' \in [Games -> Thumbnails \cup {None}], UNCHANGED <<exists, Process>>
    PROVE  RunsInv'
<1>1. UNCHANGED <<exists, started, syncInProgress, crashed>>
  BY DEF Process
<1>2. g \in Games /\ edited' \subseteq Games
  BY EditTyped DEF GiveId
<1>3. bggId' \in [Games -> BggIds \cup {None}]
  BY <1>2 DEF GiveId, RunsInv, SyncTypes
<1>4. \A k \in Runs :
        /\ runs'[k] \in Run /\ runs'[k].pc = runs[k].pc /\ runs'[k].todo = runs[k].todo
        /\ runs'[k].index = runs[k].index /\ runs'[k].batch = runs[k].batch
        /\ runs'[k].queue = runs[k].queue /\ runs'[k].workers = runs[k].workers
        /\ runs'[k].failed = runs[k].failed
  BY <1>2, GiveIdRuns
<1>5. runs' \in [Runs -> Run]
  BY <1>4 DEF GiveId
<1>6. \A k \in Runs : Sound(runs[k])'
  BY <1>4 DEF RunsInv, Sound, Backfilling, ProducerDone, WorkerActive
<1>7. Latest'
  BY <1>1, <1>4 DEF RunsInv, Latest
<1>8. SyncTypes'
  BY <1>1, <1>2, <1>3, <1>5 DEF RunsInv, SyncTypes
<1>9. QED
  BY <1>6, <1>7, <1>8 DEF RunsInv

LEMMA ConnectGameInv ==
    ASSUME RunsInv, ConnectGame
    PROVE  RunsInv'
<1>1. PICK g \in Games :
        /\ GiveId(g, ByName[g])
        /\ \E image \in {None, IF EditionOf[g] = ByName[g] THEN g ELSE Default} :
                cover' = [cover EXCEPT ![g] = image]
  BY DEF ConnectGame
<1>2. PICK image \in {None, IF EditionOf[g] = ByName[g] THEN g ELSE Default} :
        GiveId(g, ByName[g]) /\ cover' = [cover EXCEPT ![g] = image]
  BY <1>1
<1>3. ByName[g] \in BggIds /\ image \in Thumbnails \cup {None}
  BY GameSyncAssumption DEF Thumbnails, Versioned
<1>4. cover' \in [Games -> Thumbnails \cup {None}]
  BY <1>2, <1>3 DEF RunsInv, SyncTypes
<1>5. UNCHANGED <<exists, Process>>
  BY DEF ConnectGame
<1>6. QED
  BY <1>2, <1>3, <1>4, <1>5, GiveIdInv

LEMMA EditGameInv ==
    ASSUME RunsInv, EditGame
    PROVE  RunsInv'
<1>1. PICK g \in Games, id \in HandIds : GiveId(g, id)
  BY DEF EditGame
<1>2. id \in BggIds \cup {None}
  BY GameSyncAssumption
<1>3. UNCHANGED <<exists, Process>> /\ cover' \in [Games -> Thumbnails \cup {None}]
  BY DEF EditGame, RunsInv, SyncTypes
<1>4. QED
  BY <1>1, <1>2, <1>3, GiveIdInv

-----------------------------------------------------------------------------
LEMMA RunsInvInit == Init => RunsInv
<1>1. SUFFICES ASSUME Init PROVE RunsInv
  OBVIOUS
<1>2. runs \in [Runs -> Run] /\ \A k \in Runs : runs[k].pc = "off" /\ Sound(runs[k])
  <2>1. PICK off \in Run : off = Off
    BY OffIsRun
  <2>2. runs = [k \in Runs |-> off]
    BY <1>1, <2>1 DEF Init
  <2>3. QED
    BY <2>1, <2>2, OffIsRun
<1>3. SyncTypes
  <2>1. /\ exists = Games /\ bggId = FirstId /\ cover = [g \in Games |-> None] /\ started = 0
        /\ syncInProgress = FALSE /\ crashed = FALSE /\ edited = {}
    BY <1>1 DEF Init
  <2>2. {MaxRuns, MaxEdits} \subseteq Nat /\ FirstId \in [Games -> BggIds \cup {None}]
    BY GameSyncAssumption
  <2>3. /\ started \in 0 .. MaxRuns /\ edited \subseteq Games
    BY <2>1, <2>2
  <2>4. cover \in [Games -> Thumbnails \cup {None}]
    BY <2>1
  <2>5. QED
    BY <1>2, <2>1, <2>2, <2>3, <2>4 DEF SyncTypes
<1>4. Latest
  <2>1. started = 0 /\ \A k \in Runs : k \in Nat \ {0}
    BY <1>1, GameSyncAssumption DEF Init, Runs
  <2>2. QED
    BY <1>2, <2>1 DEF Latest
<1>5. QED
  BY <1>2, <1>3, <1>4 DEF RunsInv

LEMMA RunsInvStill == RunsInv /\ UNCHANGED vars => RunsInv'
  BY DEF RunsInv, vars, SyncTypes, Latest, Sound, Backfilling, ProducerDone, WorkerActive

LEMMA RunsInvNext == RunsInv /\ [Next]_vars => RunsInv'
<1>1. SUFFICES ASSUME RunsInv, [Next]_vars PROVE RunsInv'
  OBVIOUS
<1>2. ASSUME NEW k \in Runs, Producer(k) PROVE RunsInv'
  BY <1>1, <1>2, ListUnconnectedInv, DownloadDumpInv, BackfillInv, StartWorkersInv,
     ListGamesInv, FetchBatchInv, NextBatchInv, CountUnresolvedInv, EndRunInv DEF Producer, Remote, Local
<1>3. ASSUME NEW k \in Runs, Persist(k) PROVE RunsInv'
  BY <1>1, <1>3, FindGameInv, UpdateGameInv DEF Persist
<1>4. ASSUME NEW k \in Runs, NEW w \in Workers, Drain(k, w) PROVE RunsInv'
  BY <1>1, <1>4, TakeJobInv, DownloadInv, WriteCoverInv DEF Drain
<1>5. CASE Quiet
  BY <1>1, <1>5, RunsInvStill DEF Quiet
<1>6. QED
  BY <1>1, <1>2, <1>3, <1>4, <1>5, StartInv, DeleteGameInv, ConnectGameInv,
     EditGameInv, RunsInvStill
     DEF Next

THEOREM RunsInvariance == Spec => []RunsInv
  BY RunsInvInit, RunsInvNext, PTL DEF Spec

\* Every variable of the synchronisation has its type: the TypeOK of the runs.
THEOREM SyncTypeCorrectness == Spec => []TypeOK
<1>1. RunsInv => TypeOK
  BY DEF RunsInv, SyncTypes, TypeOK, Run
<1>2. QED
  BY <1>1, RunsInvariance, PTL

\* A run that was not started, or that ended without a failure, has nothing pending.
LEMMA NothingPending ==
    ASSUME NEW run \in Run, Sound(run),
           run.pc = "off" \/ (run.pc = "ended" /\ ~run.failed)
    PROVE  ~Active(run)
  BY DEF Sound, Backfilling, Active, WorkerActive

\* Two runs are active together only after the earlier one has failed, whatever
\* is deleted, connected or refused meanwhile and whichever run the flag let in.
THEOREM OverlapOnlyAfterFailure == Spec => []OverlapAfterFailure
<1>1. ASSUME RunsInv PROVE OverlapAfterFailure
  <2>1. SUFFICES ASSUME NEW j \in Runs, NEW k \in Runs, j < k, Active(runs[j]), Active(runs[k]),
                        ~runs[j].failed
                 PROVE  FALSE
    BY DEF OverlapAfterFailure
  <2>2. /\ runs[j] \in Run /\ Sound(runs[j]) /\ runs[k] \in Run /\ Sound(runs[k])
    BY <1>1, RunTypes
  <2>3. runs[k].pc # "off" /\ runs[j].pc \notin {"off", "ended"}
    BY <2>1, <2>2, NothingPending
  <2>4. k <= started /\ j = started
    BY <1>1, <2>3 DEF RunsInv, Latest
  <2>5. QED
    BY <2>1, <2>4 DEF Runs
<1>2. QED
  BY <1>1, RunsInvariance, PTL

\* A run that ends well leaves no cover in its queue and no promise pending: the
\* workers that the finally block awaits have seen the queue empty after the
\* producer's last job.
THEOREM RunsEndClean == Spec => []NothingLeftBehind
<1>1. ASSUME RunsInv PROVE NothingLeftBehind
  <2>1. SUFFICES ASSUME NEW k \in Runs, runs[k].pc = "ended", ~runs[k].failed
                 PROVE  runs[k].queue = <<>> /\ ~Active(runs[k])
    BY DEF NothingLeftBehind
  <2>2. runs[k] \in Run /\ Sound(runs[k])
    BY <1>1, RunTypes
  <2>3. QED
    BY <2>1, <2>2, NothingPending DEF Sound
<1>2. QED
  BY <1>1, RunsInvariance, PTL

-----------------------------------------------------------------------------
(* Covers.  A game is settled once it has a bggId and no run is about to    *)
(* give it one: no step changes its bggId any more, but an edit by hand.    *)
(* What a run knows of the item of a settled game therefore stays true      *)
(* until it is used, or the game is one that was edited.                    *)

Settled(g) ==
    /\ g \in Games
    /\ bggId[g] # None
    /\ \A k \in Runs : Backfilling(runs[k]) => g \notin runs[k].todo

\* The item a game is known to be connected to.
Item(g, id) == g \in edited \/ (Settled(g) /\ bggId[g] = id)

\* A thumbnail that may be the cover of a game.
Fits(thumbnail, g) == thumbnail \in Versioned => Item(g, EditionOf[thumbnail])

Knowing(run) ==
    /\ run.pc \in {"fetch", "persist"} => \A l \in run.todo : Item(l.game, l.id)
    /\ \A p \in run.batch : Item(p.game, p.id)
    /\ \A i \in BggIds : run.data[i] \in Versioned => EditionOf[run.data[i]] = i
    /\ \A n \in DOMAIN run.queue : Fits(run.queue[n].thumbnail, run.queue[n].game)
    /\ \A w \in Workers : run.workers[w].pc \in {"download", "write"} =>
            Fits(run.workers[w].job.thumbnail, run.workers[w].job.game)

CoversInv ==
    /\ \A k \in Runs : Knowing(runs[k])
    /\ \A g \in Games : Fits(cover[g], g)

\* No step takes back what is known of the item of a game.
ItemsStay == \A g, id : Item(g, id) => Item(g, id)'

LEMMA UnpinnedFits == \A g : Fits(Default, g) /\ Fits(None, g)
  BY GameSyncAssumption DEF Fits, Versioned

LEMMA FitsStays ==
    ASSUME ItemsStay,
           NEW thumbnail, NEW g, Fits(thumbnail, g)
    PROVE  Fits(thumbnail, g)'
  BY DEF Fits, ItemsStay

LEMMA KnowingStays ==
    ASSUME ItemsStay,
           NEW run, Knowing(run)
    PROVE  Knowing(run)'
<1>1. \A thumbnail, g : Fits(thumbnail, g) => Fits(thumbnail, g)'
  BY FitsStays
<1>2. QED
  BY <1>1 DEF Knowing, ItemsStay

\* A step of one run that knows what it will write, and writes no bggId of a
\* settled game.
LEMMA CoversStep ==
    ASSUME RunsInv, CoversInv, NEW k \in Runs, NEW q, Put(k, q), Knowing(q),
           \A g : Settled(g) => g \in edited \/ bggId'[g] = bggId[g],
           edited' = edited,
           Backfilling(q) => \A g \in q.todo : ~Settled(g),
           \A g \in Games : Fits(cover'[g], g)
    PROVE  CoversInv'
<1>1. /\ DOMAIN runs' = Runs /\ runs'[k] = q
      /\ \A j \in Runs : j # k => runs'[j] = runs[j]
  BY PutIs
<1>2. ItemsStay
  BY <1>1 DEF Settled, Item, ItemsStay
<1>3. \A run : Knowing(run) => Knowing(run)'
  BY <1>2, KnowingStays
<1>4. \A j \in Runs : Knowing(runs'[j])
  BY <1>1 DEF CoversInv
<1>5. ASSUME NEW j \in Runs PROVE Knowing(runs[j])'
  <2>1. PICK run : run = runs'[j]
    OBVIOUS
  <2>2. Knowing(run)'
    BY <1>3, <1>4, <2>1
  <2>3. QED
    BY <2>1, <2>2
<1>6. ASSUME NEW g \in Games PROVE Fits(cover[g], g)'
  <2>1. PICK thumbnail : thumbnail = cover'[g]
    OBVIOUS
  <2>2. Fits(thumbnail, g)'
    BY <1>2, <2>1, FitsStays
  <2>3. QED
    BY <2>1, <2>2
<1>7. QED
  BY <1>5, <1>6 DEF CoversInv

\* A step that changes the run only.
LEMMA CoversRunOnly ==
    ASSUME RunsInv, CoversInv, NEW k \in Runs, NEW q, Put(k, q), Knowing(q),
           UNCHANGED Table,
           Backfilling(q) => \A g \in q.todo : ~Settled(g)
    PROVE  CoversInv'
<1>1. UNCHANGED <<bggId, cover, edited>>
  BY DEF Table
<1>2. \A g \in Games : Fits(cover'[g], g)
  BY <1>1 DEF CoversInv
<1>3. QED
  BY <1>1, <1>2, CoversStep

LEMMA CoversKept ==
    ASSUME RunsInv, CoversInv, NEW k \in Runs
    PROVE  /\ Knowing(runs[k])
           /\ Backfilling(runs[k]) => \A g \in runs[k].todo : ~Settled(g)
           /\ \A g \in Games : Fits(cover[g], g)
  BY DEF CoversInv, Settled

\* What a run knows is in its batch, its items, its queue and its workers, unless
\* it fetches.
LEMMA SameKnowledge ==
    ASSUME NEW run, Knowing(run), NEW q, q.pc \notin {"fetch", "persist"},
           q.batch = run.batch, q.data = run.data, q.queue = run.queue,
           \/ q.workers = run.workers
           \/ \A w \in Workers : q.workers[w].pc \notin {"download", "write"}
    PROVE  Knowing(q)
  BY DEF Knowing

LEMMA OffKnows == Knowing(Off)
<1>1. PICK off : off = Off
  OBVIOUS
<1>2. /\ off.pc = "off" /\ off.batch = {} /\ off.queue = <<>>
      /\ \A w \in Workers : off.workers[w].pc = "off"
      /\ \A i \in BggIds : off.data[i] = Default
  BY <1>1 DEF Off
<1>3. \A i \in BggIds : off.data[i] \notin Versioned
  BY <1>2, GameSyncAssumption DEF Versioned
<1>4. Knowing(off)
  BY <1>2, <1>3 DEF Knowing
<1>5. QED
  BY <1>1, <1>4

LEMMA CrashCovers ==
    ASSUME RunsInv, CoversInv, Crash, UNCHANGED Table
    PROVE  CoversInv'
<1>1. PICK dead : dead = [Off EXCEPT !.pc = "ended", !.failed = TRUE]
  OBVIOUS
<1>2. /\ dead.pc = "ended" /\ dead.batch = Off.batch /\ dead.data = Off.data
      /\ dead.queue = Off.queue /\ dead.workers = Off.workers
  BY <1>1, OffIsRun DEF Run
<1>3. Knowing(dead)
  BY <1>2, OffKnows, SameKnowledge
<1>4. \A k \in Runs : runs'[k] = Off \/ runs'[k] = dead
  BY <1>1 DEF Crash
<1>5. UNCHANGED <<bggId, cover, edited>>
  BY DEF Table
<1>6. ItemsStay
  BY <1>2, <1>4, <1>5, OffIsRun DEF Settled, Backfilling, Item, ItemsStay
<1>7. ASSUME NEW k \in Runs PROVE Knowing(runs[k])'
  <2>1. PICK run : run = runs'[k]
    OBVIOUS
  <2>2. PICK off : off = Off
    OBVIOUS
  <2>3. Knowing(run)
    BY <1>3, <1>4, <2>1, OffKnows
  <2>4. Knowing(run)'
    BY <1>6, <2>3, KnowingStays
  <2>5. QED
    BY <2>1, <2>4
<1>8. ASSUME NEW g \in Games PROVE Fits(cover[g], g)'
  <2>1. PICK thumbnail : thumbnail = cover[g]
    OBVIOUS
  <2>2. Fits(thumbnail, g)'
    BY <1>6, <2>1, FitsStays DEF CoversInv
  <2>3. QED
    BY <1>5, <2>1, <2>2
<1>9. QED
  BY <1>7, <1>8 DEF CoversInv

LEMMA ListUnconnectedCovers ==
    ASSUME RunsInv, CoversInv, NEW k \in Runs, ListUnconnected(k)
    PROVE  CoversInv'
<1>1. PICK run \in Run : run = runs[k] /\ run.pc = "dump" /\ Knowing(run)
  BY RunTypes, CoversKept DEF ListUnconnected
<1>2. UNCHANGED Table
  BY DEF ListUnconnected
<1>3. PICK q : Put(k, q) /\ (\/ q = [run EXCEPT !.pc = IF {g \in exists : bggId[g] = None} = {}
                                                       THEN "backfill" ELSE "download",
                                                !.todo = {g \in exists : bggId[g] = None}]
                             \/ q = Thrown(run))
  BY <1>1 DEF ListUnconnected
<1>4. /\ q.pc \in {"download", "backfill", "awaitWorkers"}
      /\ q.pc # "awaitWorkers" => \A g \in q.todo : bggId[g] = None
      /\ q.batch = run.batch /\ q.data = run.data /\ q.queue = run.queue
      /\ q.workers = run.workers
  <2>1. PICK unconnected : unconnected = {g \in exists : bggId[g] = None}
    OBVIOUS
  <2>2. CASE q = [run EXCEPT !.pc = IF unconnected = {} THEN "backfill" ELSE "download",
                             !.todo = unconnected]
    BY <2>1, <2>2 DEF Run
  <2>3. CASE q = Thrown(run)
    BY <2>3 DEF Run, Thrown
  <2>4. QED
    BY <1>3, <2>1, <2>2, <2>3
<1>5. Knowing(q)
  BY <1>1, <1>4, SameKnowledge
<1>6. Backfilling(q) => \A g \in q.todo : ~Settled(g)
  BY <1>4 DEF Backfilling, Settled
<1>7. QED
  BY <1>2, <1>3, <1>5, <1>6, CoversRunOnly

LEMMA DownloadDumpCovers ==
    ASSUME RunsInv, CoversInv, NEW k \in Runs, DownloadDump(k)
    PROVE  CoversInv'
<1>1. PICK run \in Run : run = runs[k] /\ run.pc = "download" /\ Knowing(run)
  BY RunTypes, CoversKept DEF DownloadDump
<1>2. UNCHANGED Table
  BY DEF DownloadDump
<1>3. PICK q : Put(k, q) /\ (\/ \E dump \in Dumps :
                                    q = [run EXCEPT !.pc = "backfill", !.index = dump,
                                                    !.todo = {g \in @ : dump[g] # <<>>}]
                             \/ q = [Thrown(run) EXCEPT !.todo = {}, !.raced = {}])
  BY <1>1 DEF DownloadDump
<1>4. /\ q.pc \in {"backfill", "awaitWorkers"} /\ q.todo \subseteq run.todo
      /\ q.batch = run.batch /\ q.data = run.data /\ q.queue = run.queue
      /\ q.workers = run.workers
  <2>1. ASSUME NEW dump \in Dumps, NEW todo \in SUBSET run.todo,
               q = [run EXCEPT !.pc = "backfill", !.index = dump, !.todo = todo]
        PROVE  /\ q.pc \in {"backfill", "awaitWorkers"} /\ q.todo \subseteq run.todo
               /\ q.batch = run.batch /\ q.data = run.data /\ q.queue = run.queue
               /\ q.workers = run.workers
    BY <2>1 DEF Run
  <2>2. CASE q = [Thrown(run) EXCEPT !.todo = {}, !.raced = {}]
    BY <2>2 DEF Run, Thrown
  <2>3. ASSUME NEW dump \in Dumps, q = [run EXCEPT !.pc = "backfill", !.index = dump,
                                                   !.todo = {g \in @ : dump[g] # <<>>}]
        PROVE  /\ q.pc \in {"backfill", "awaitWorkers"} /\ q.todo \subseteq run.todo
               /\ q.batch = run.batch /\ q.data = run.data /\ q.queue = run.queue
               /\ q.workers = run.workers
    <3>1. PICK todo \in SUBSET run.todo : todo = {g \in run.todo : dump[g] # <<>>}
      OBVIOUS
    <3>2. q = [run EXCEPT !.pc = "backfill", !.index = dump, !.todo = todo]
      BY <2>3, <3>1
    <3>3. QED
      BY <2>1, <3>2
  <2>4. QED
    BY <1>3, <2>2, <2>3
<1>5. Knowing(q)
  BY <1>1, <1>4, SameKnowledge
<1>6. Backfilling(q) => \A g \in q.todo : ~Settled(g)
  BY <1>1, <1>4, CoversKept DEF Backfilling
<1>7. QED
  BY <1>2, <1>3, <1>5, <1>6, CoversRunOnly

\* The game written was left to do, so it was not settled.
LEMMA BackfillCovers ==
    ASSUME RunsInv, CoversInv, NEW k \in Runs, Backfill(k)
    PROVE  CoversInv'
<1>1. PICK run \in Run : run = runs[k] /\ run.pc = "backfill" /\ Knowing(run)
  BY RunTypes, CoversKept DEF Backfill
<1>2. \A g \in run.todo : ~Settled(g)
  BY <1>1, CoversKept DEF Backfilling
<1>3. ASSUME NEW g \in run.todo, NEW id, bggId' = [bggId EXCEPT ![g] = id],
             Put(k, [run EXCEPT !.todo = @ \ {g}]), UNCHANGED <<cover, edited>>
      PROVE  CoversInv'
  <2>1. PICK q : q = [run EXCEPT !.todo = @ \ {g}]
    OBVIOUS
  <2>2. /\ q.pc = "backfill" /\ q.todo \subseteq run.todo
        /\ q.batch = run.batch /\ q.data = run.data /\ q.queue = run.queue
        /\ q.workers = run.workers
    BY <1>1, <2>1 DEF Run
  <2>3. Knowing(q)
    BY <1>1, <2>2, SameKnowledge
  <2>4. \A h : Settled(h) => bggId'[h] = bggId[h]
    BY <1>2, <1>3, RunTypes DEF Settled
  <2>5. \A h \in Games : Fits(cover'[h], h)
    BY <1>3 DEF CoversInv
  <2>6. QED
    BY <1>2, <1>3, <2>1, <2>2, <2>3, <2>4, <2>5, CoversStep
<1>4. CASE /\ Put(k, [Thrown(run) EXCEPT !.todo = {}, !.index = NoDump, !.raced = {}])
           /\ UNCHANGED bggId
  <2>1. PICK q : q = [Thrown(run) EXCEPT !.todo = {}, !.index = NoDump, !.raced = {}]
    OBVIOUS
  <2>2. /\ q.pc = "awaitWorkers" /\ q.batch = run.batch /\ q.data = run.data
        /\ q.queue = run.queue /\ q.workers = run.workers
    BY <2>1 DEF Run, Thrown
  <2>3. Knowing(q)
    BY <1>1, <2>2, SameKnowledge
  <2>4. UNCHANGED Table
    BY <1>4 DEF Backfill, Table
  <2>5. QED
    BY <1>4, <2>1, <2>2, <2>3, <2>4, CoversRunOnly DEF Backfilling
<1>5. UNCHANGED <<cover, edited>>
  BY DEF Backfill
<1>6. QED
  BY <1>1, <1>3, <1>4, <1>5 DEF Backfill

LEMMA StartWorkersCovers ==
    ASSUME RunsInv, CoversInv, NEW k \in Runs, StartWorkers(k)
    PROVE  CoversInv'
<1>1. PICK run \in Run : run = runs[k] /\ Knowing(run)
  BY RunTypes, CoversKept
<1>2. PICK q : q = [run EXCEPT !.pc = "list", !.index = NoDump, !.raced = {},
                               !.workers = [w \in Workers |-> [pc |-> "poll"]]]
  OBVIOUS
<1>3. /\ q.pc = "list" /\ q.batch = run.batch /\ q.data = run.data /\ q.queue = run.queue
      /\ \A w \in Workers : q.workers[w].pc = "poll"
  BY <1>2 DEF Run
<1>4. Knowing(q)
  BY <1>1, <1>3, SameKnowledge
<1>5. Put(k, q) /\ UNCHANGED Table
  BY <1>1, <1>2 DEF StartWorkers
<1>6. QED
  BY <1>3, <1>4, <1>5, CoversRunOnly DEF Backfilling

\* No other run backfills while this one lists the games: all that have a bggId
\* are settled.
LEMMA ListGamesCovers ==
    ASSUME RunsInv, CoversInv, NEW k \in Runs, ListGames(k)
    PROVE  CoversInv'
<1>1. PICK run \in Run : run = runs[k] /\ run.pc = "list" /\ Knowing(run)
  BY RunTypes, CoversKept DEF ListGames
<1>2. UNCHANGED Table
  BY DEF ListGames
<1>3. \A j \in Runs : ~Backfilling(runs[j])
  BY <1>1 DEF RunsInv, Latest, Backfilling
<1>4. PICK todo : todo = {[game |-> g, id |-> bggId[g]] : g \in {h \in exists : bggId[h] # None}}
  OBVIOUS
<1>5. \A l \in todo : Item(l.game, l.id)
  BY <1>3, <1>4, RunTypes DEF Settled, Item
<1>6. CASE Put(k, [run EXCEPT !.pc = "fetch", !.todo = todo])
  <2>1. PICK q : q = [run EXCEPT !.pc = "fetch", !.todo = todo]
    OBVIOUS
  <2>2. /\ q.pc = "fetch" /\ q.todo = todo /\ q.batch = run.batch /\ q.data = run.data
        /\ q.queue = run.queue /\ q.workers = run.workers
    BY <2>1 DEF Run
  <2>3. Knowing(q)
    BY <1>1, <1>5, <2>2 DEF Knowing
  <2>4. QED
    BY <1>2, <1>6, <2>1, <2>2, <2>3, CoversRunOnly DEF Backfilling
<1>7. CASE Crash
  BY <1>2, <1>7, CrashCovers
<1>8. QED
  BY <1>1, <1>4, <1>6, <1>7 DEF ListGames

LEMMA FetchBatchCovers ==
    ASSUME RunsInv, CoversInv, NEW k \in Runs, FetchBatch(k)
    PROVE  CoversInv'
<1>1. PICK run \in Run : run = runs[k] /\ run.pc = "fetch" /\ Knowing(run)
  BY RunTypes, CoversKept DEF FetchBatch
<1>2. UNCHANGED Table
  BY DEF FetchBatch
<1>3. ASSUME NEW batch \in SUBSET run.todo, NEW found,
             Put(k, [run EXCEPT
                    !.pc = "persist", !.todo = @ \ batch, !.data = Off.data,
                    !.batch = {[pc |-> "find", game |-> l.game, id |-> l.id] :
                                    l \in {m \in batch : m.id \in found}}])
      PROVE  CoversInv'
  <2>1. PICK persisters : persisters = {[pc |-> "find", game |-> l.game, id |-> l.id] :
                                    l \in {m \in batch : m.id \in found}}
    OBVIOUS
  <2>2. \A l \in run.todo : Item(l.game, l.id)
    BY <1>1 DEF Knowing
  <2>3. \A p \in persisters : Item(p.game, p.id)
    BY <2>1, <2>2
  <2>4. PICK data : data = Off.data
    OBVIOUS
  <2>5. \A i \in BggIds : data[i] \notin Versioned
    BY <2>4, GameSyncAssumption DEF Off, Versioned
  <2>6. PICK q : q = [run EXCEPT !.pc = "persist", !.todo = @ \ batch, !.data = data,
                                 !.batch = persisters]
    OBVIOUS
  <2>7. /\ q.pc = "persist" /\ q.todo = run.todo \ batch /\ q.batch = persisters
        /\ q.data = data /\ q.queue = run.queue /\ q.workers = run.workers
    BY <2>6 DEF Run
  <2>8. Knowing(q)
    BY <1>1, <2>2, <2>3, <2>5, <2>7 DEF Knowing
  <2>9. Put(k, q)
    BY <1>3, <2>1, <2>4, <2>6
  <2>10. QED
    BY <1>2, <2>7, <2>8, <2>9, CoversRunOnly DEF Backfilling
<1>4. CASE Crash
  BY <1>2, <1>4, CrashCovers
<1>5. QED
  BY <1>1, <1>3, <1>4 DEF FetchBatch

LEMMA NextBatchCovers ==
    ASSUME RunsInv, CoversInv, NEW k \in Runs, NextBatch(k)
    PROVE  CoversInv'
<1>1. PICK run \in Run : run = runs[k] /\ run.pc = "persist" /\ Knowing(run)
  BY RunTypes, CoversKept DEF NextBatch
<1>2. PICK data : data = Off.data
  OBVIOUS
<1>3. \A i \in BggIds : data[i] \notin Versioned
  BY <1>2, GameSyncAssumption DEF Off, Versioned
<1>4. PICK q : q = [run EXCEPT !.pc = "fetch", !.data = data]
  OBVIOUS
<1>5. /\ q.pc = "fetch" /\ q.todo = run.todo /\ q.batch = run.batch /\ q.data = data
      /\ q.queue = run.queue /\ q.workers = run.workers
  BY <1>4 DEF Run
<1>6. Knowing(q)
  BY <1>1, <1>3, <1>5 DEF Knowing
<1>7. Put(k, q) /\ UNCHANGED Table
  BY <1>1, <1>2, <1>4 DEF NextBatch
<1>8. QED
  BY <1>5, <1>6, <1>7, CoversRunOnly DEF Backfilling

LEMMA CountUnresolvedCovers ==
    ASSUME RunsInv, CoversInv, NEW k \in Runs, CountUnresolved(k)
    PROVE  CoversInv'
<1>1. PICK run \in Run : run = runs[k] /\ run.pc = "fetch" /\ Knowing(run)
  BY RunTypes, CoversKept DEF CountUnresolved
<1>2. PICK q : q = [run EXCEPT !.pc = "awaitWorkers"]
  OBVIOUS
<1>3. /\ q.pc = "awaitWorkers" /\ q.batch = run.batch /\ q.data = run.data
      /\ q.queue = run.queue /\ q.workers = run.workers
  BY <1>2 DEF Run
<1>4. Knowing(q)
  BY <1>1, <1>3, SameKnowledge
<1>5. UNCHANGED Table /\ (Put(k, q) \/ Crash)
  BY <1>1, <1>2 DEF CountUnresolved
<1>6. QED
  BY <1>3, <1>4, <1>5, CoversRunOnly, CrashCovers DEF Backfilling

LEMMA EndRunCovers ==
    ASSUME RunsInv, CoversInv, NEW k \in Runs, EndRun(k)
    PROVE  CoversInv'
<1>1. PICK run \in Run : run = runs[k] /\ Knowing(run)
  BY RunTypes, CoversKept
<1>2. PICK q, failed : q = [run EXCEPT !.pc = "ended", !.failed = failed] /\ Put(k, q)
  BY <1>1 DEF EndRun
<1>3. /\ q.pc = "ended" /\ q.batch = run.batch /\ q.data = run.data
      /\ q.queue = run.queue /\ q.workers = run.workers
  BY <1>2 DEF Run
<1>4. Knowing(q)
  BY <1>1, <1>3, SameKnowledge
<1>5. UNCHANGED Table
  BY DEF EndRun
<1>6. QED
  BY <1>2, <1>3, <1>4, <1>5, CoversRunOnly DEF Backfilling

\* The thumbnail that is queued: the game's own edition's, or the one that a game
\* with the same item has left in it.
LEMMA QueuedKnows ==
    ASSUME NEW run \in Run, Sound(run), Knowing(run), NEW p \in run.batch
    PROVE  Knowing(Queued(run, p)) /\ Queued(run, p).pc = "persist"
<1>1. /\ p \in Persister /\ run.pc = "persist" /\ Item(p.game, p.id)
      /\ p.game \in Games /\ p.id \in BggIds
  BY DEF Run, Sound, Knowing, Persister
<1>2. PICK data : data = IF EditionOf[p.game] = p.id THEN [run.data EXCEPT ![p.id] = p.game]
                         ELSE run.data
  OBVIOUS
<1>3. \A i \in BggIds : data[i] \in Versioned => EditionOf[data[i]] = i
  <2>1. \A i \in BggIds : \/ data[i] = run.data[i]
                          \/ data[i] = p.game /\ i = p.id /\ EditionOf[p.game] = p.id
    BY <1>1, <1>2 DEF Run
  <2>2. QED
    BY <1>1, <2>1 DEF Knowing
<1>4. PICK job : job = [game |-> p.game, thumbnail |-> data[p.id]]
  OBVIOUS
<1>5. Fits(job.thumbnail, job.game)
  BY <1>1, <1>3, <1>4 DEF Fits
<1>6. PICK queue : queue = Append(run.queue, job)
  OBVIOUS
<1>7. \A n \in DOMAIN queue : Fits(queue[n].thumbnail, queue[n].game)
  <2>1. run.queue \in Seq(Job)
    BY DEF Run
  <2>2. \A n \in DOMAIN queue : queue[n] = job \/ (n \in DOMAIN run.queue /\ queue[n] = run.queue[n])
    BY <1>6, <2>1
  <2>3. QED
    BY <1>5, <2>2 DEF Knowing
<1>8. PICK q : q = [run EXCEPT !.batch = @ \ {p}, !.data = data, !.queue = queue]
  OBVIOUS
<1>9. /\ q.pc = "persist" /\ q.todo = run.todo /\ q.batch = run.batch \ {p} /\ q.data = data
      /\ q.queue = queue /\ q.workers = run.workers
  BY <1>1, <1>8 DEF Run
<1>10. Knowing(q)
  BY <1>1, <1>3, <1>7, <1>9 DEF Knowing
<1>11. q = Queued(run, p)
  BY <1>2, <1>4, <1>6, <1>8 DEF Queued
<1>12. QED
  BY <1>9, <1>10, <1>11

LEMMA FindGameCovers ==
    ASSUME RunsInv, CoversInv, NEW k \in Runs, FindGame(k)
    PROVE  CoversInv'
<1>1. PICK run \in Run : run = runs[k] /\ Sound(run) /\ Knowing(run)
  BY RunTypes, CoversKept
<1>2. PICK p \in run.batch :
        Put(k, IF p.game \in exists
               THEN [run EXCEPT !.batch = (@ \ {p}) \cup {[p EXCEPT !.pc = "update"]}]
               ELSE Queued(run, p))
  BY <1>1 DEF FindGame
<1>3. /\ run.pc = "persist" /\ UNCHANGED Table /\ p \in Persister
      /\ Item(p.game, p.id)
  BY <1>1 DEF Sound, FindGame, Knowing, Run
<1>4. CASE p.game \in exists
  <2>1. PICK found : found = [p EXCEPT !.pc = "update"]
    OBVIOUS
  <2>2. found.game = p.game /\ found.id = p.id
    BY <1>3, <2>1 DEF Persister
  <2>3. PICK q : q = [run EXCEPT !.batch = (@ \ {p}) \cup {found}]
    OBVIOUS
  <2>4. /\ q.pc = "persist" /\ q.todo = run.todo /\ q.batch = (run.batch \ {p}) \cup {found}
        /\ q.data = run.data /\ q.queue = run.queue /\ q.workers = run.workers
    BY <1>3, <2>3 DEF Run
  <2>5. Knowing(q)
    BY <1>1, <1>3, <2>2, <2>4 DEF Knowing
  <2>6. Put(k, q)
    BY <1>2, <1>4, <2>1, <2>3
  <2>7. QED
    BY <1>3, <2>4, <2>5, <2>6, CoversRunOnly DEF Backfilling
<1>5. CASE p.game \notin exists
  <2>1. Put(k, Queued(run, p))
    BY <1>2, <1>5
  <2>2. QED
    BY <1>1, <1>3, <2>1, QueuedKnows, CoversRunOnly DEF Backfilling
<1>6. QED
  BY <1>4, <1>5

\* The update writes the bggId that the game has, unless it was edited.
LEMMA UpdateGameCovers ==
    ASSUME RunsInv, CoversInv, NEW k \in Runs, UpdateGame(k)
    PROVE  CoversInv'
<1>1. PICK run \in Run : run = runs[k] /\ Sound(run) /\ Knowing(run)
  BY RunTypes, CoversKept
<1>2. UNCHANGED <<exists, cover, edited>>
  BY DEF UpdateGame
<1>3. ASSUME NEW p \in run.batch, bggId' = [bggId EXCEPT ![p.game] = p.id],
             Put(k, Queued(run, p))
      PROVE  CoversInv'
  <2>1. Item(p.game, p.id)
    BY <1>1 DEF Knowing
  <2>2. \A g : Settled(g) => g \in edited \/ bggId'[g] = bggId[g]
    BY <1>3, <2>1, RunTypes DEF Settled, Item
  <2>3. \A g \in Games : Fits(cover'[g], g)
    BY <1>2 DEF CoversInv
  <2>4. QED
    BY <1>1, <1>2, <1>3, <2>2, <2>3, QueuedKnows, CoversStep DEF Backfilling
<1>4. CASE Crash /\ UNCHANGED bggId
  BY <1>2, <1>4, CrashCovers DEF Table
<1>5. QED
  BY <1>1, <1>3, <1>4 DEF UpdateGame

LEMMA WithKnows ==
    ASSUME NEW run \in Run, Knowing(run), NEW w \in Workers, NEW worker,
           worker.pc \in {"download", "write"} =>
                Fits(worker.job.thumbnail, worker.job.game)
    PROVE  /\ Knowing(With(run, w, worker)) /\ With(run, w, worker).pc = run.pc
           /\ With(run, w, worker).todo = run.todo
           /\ With(run, w, worker).queue = run.queue
<1>1. PICK workers : workers = [run.workers EXCEPT ![w] = worker]
  OBVIOUS
<1>2. \A v \in Workers : workers[v] = worker \/ workers[v] = run.workers[v]
  BY <1>1 DEF Run
<1>3. PICK q : q = [run EXCEPT !.workers = workers]
  OBVIOUS
<1>4. /\ q.pc = run.pc /\ q.todo = run.todo /\ q.batch = run.batch /\ q.data = run.data
      /\ q.queue = run.queue /\ q.workers = workers
  BY <1>3 DEF Run
<1>5. Knowing(q)
  BY <1>2, <1>4 DEF Knowing
<1>6. q = With(run, w, worker)
  BY <1>1, <1>3 DEF With
<1>7. QED
  BY <1>4, <1>5, <1>6

LEMMA TakeJobCovers ==
    ASSUME RunsInv, CoversInv, NEW k \in Runs, NEW w \in Workers, TakeJob(k, w)
    PROVE  CoversInv'
<1>1. PICK run \in Run : /\ run = runs[k] /\ Knowing(run)
                         /\ Backfilling(run) => \A g \in run.todo : ~Settled(g)
  BY RunTypes, CoversKept
<1>2. UNCHANGED Table
  BY DEF TakeJob
<1>3. CASE /\ run.queue # <<>>
           /\ Put(k, [With(run, w, [pc |-> "download", job |-> Head(run.queue)])
                        EXCEPT !.queue = Tail(@)])
  <2>1. PICK worker : worker = [pc |-> "download", job |-> Head(run.queue)]
    OBVIOUS
  <2>2. run.queue \in Seq(Job)
    BY DEF Run
  <2>3. PICK queue : queue = Tail(run.queue)
    OBVIOUS
  <2>4. /\ Head(run.queue) = run.queue[1] /\ 1 \in DOMAIN run.queue
        /\ \A n \in DOMAIN queue : n + 1 \in DOMAIN run.queue /\ queue[n] = run.queue[n + 1]
    BY <1>3, <2>2, <2>3
  <2>5. Fits(worker.job.thumbnail, worker.job.game)
    BY <1>1, <2>1, <2>4 DEF Knowing
  <2>6. \A n \in DOMAIN queue : Fits(queue[n].thumbnail, queue[n].game)
    BY <1>1, <2>4 DEF Knowing
  <2>7. PICK q : q = [run EXCEPT !.workers[w] = worker, !.queue = queue]
    OBVIOUS
  <2>8. /\ q.pc = run.pc /\ q.todo = run.todo /\ q.batch = run.batch /\ q.data = run.data
        /\ q.queue = queue /\ q.workers = [run.workers EXCEPT ![w] = worker]
    BY <2>7 DEF Run
  <2>9. \A v \in Workers : q.workers[v] = worker \/ q.workers[v] = run.workers[v]
    BY <2>8 DEF Run
  <2>10. Knowing(q)
    BY <1>1, <2>5, <2>6, <2>8, <2>9 DEF Knowing
  <2>11. q = [With(run, w, worker) EXCEPT !.queue = Tail(@)]
    BY <2>3, <2>7 DEF With, Run
  <2>12. QED
    BY <1>1, <1>2, <1>3, <2>1, <2>8, <2>10, <2>11, CoversRunOnly DEF Backfilling
<1>4. CASE Put(k, With(run, w, [pc |-> "ended"]))
  <2>1. PICK worker : worker = [pc |-> "ended"]
    OBVIOUS
  <2>2. PICK q : q = With(run, w, worker)
    OBVIOUS
  <2>3. Knowing(q) /\ q.pc = run.pc /\ q.todo = run.todo
    BY <1>1, <2>1, <2>2, WithKnows
  <2>4. QED
    BY <1>1, <1>2, <1>4, <2>1, <2>2, <2>3, CoversRunOnly DEF Backfilling
<1>5. QED
  BY <1>1, <1>3, <1>4 DEF TakeJob

LEMMA DownloadCovers ==
    ASSUME RunsInv, CoversInv, NEW k \in Runs, NEW w \in Workers, Download(k, w)
    PROVE  CoversInv'
<1>1. PICK run \in Run : /\ run = runs[k] /\ Knowing(run)
                         /\ Backfilling(run) => \A g \in run.todo : ~Settled(g)
  BY RunTypes, CoversKept
<1>2. PICK worker : /\ Put(k, With(run, w, worker))
                    /\ worker = [run.workers[w] EXCEPT !.pc = "write"] \/ worker = [pc |-> "poll"]
  BY <1>1 DEF Download
<1>3. run.workers[w].pc = "download" /\ UNCHANGED Table
  BY <1>1 DEF Download
<1>4. run.workers[w] \in [pc : {"download", "write"}, job : Job]
  BY <1>3 DEF Run, Worker
<1>5. worker.pc \in {"download", "write"} => worker.job = run.workers[w].job
  BY <1>2, <1>4
<1>6. worker.pc \in {"download", "write"} =>
            Fits(worker.job.thumbnail, worker.job.game)
  BY <1>1, <1>3, <1>5 DEF Knowing
<1>7. PICK q : q = With(run, w, worker)
  OBVIOUS
<1>8. Knowing(q) /\ q.pc = run.pc /\ q.todo = run.todo
  BY <1>1, <1>6, <1>7, WithKnows
<1>9. QED
  BY <1>1, <1>2, <1>3, <1>7, <1>8, CoversRunOnly DEF Backfilling

LEMMA WriteCoverCovers ==
    ASSUME RunsInv, CoversInv, NEW k \in Runs, NEW w \in Workers, WriteCover(k, w)
    PROVE  CoversInv'
<1>1. PICK run \in Run : /\ run = runs[k] /\ Knowing(run)
                         /\ Backfilling(run) => \A g \in run.todo : ~Settled(g)
  BY RunTypes, CoversKept
<1>2. run.workers[w].pc = "write" /\ UNCHANGED <<exists, bggId, edited>>
  BY <1>1 DEF WriteCover
<1>3. PICK job : job = run.workers[w].job /\ Fits(job.thumbnail, job.game)
  BY <1>1, <1>2 DEF Knowing
<1>4. \A g \in Games : Fits(cover'[g], g)
  <2>1. cover' = cover \/ cover' = [cover EXCEPT ![job.game] = job.thumbnail]
    BY <1>1, <1>3 DEF WriteCover
  <2>2. \A g \in Games : cover'[g] = cover[g] \/ (g = job.game /\ cover'[g] = job.thumbnail)
    BY <2>1, RunTypes
  <2>3. QED
    BY <1>3, <2>2 DEF CoversInv
<1>5. ASSUME NEW worker, worker.pc \notin {"download", "write"}, Put(k, With(run, w, worker))
      PROVE  CoversInv'
  <2>1. PICK q : q = With(run, w, worker)
    OBVIOUS
  <2>2. Knowing(q) /\ q.pc = run.pc /\ q.todo = run.todo
    BY <1>1, <1>5, <2>1, WithKnows
  <2>3. \A g : Settled(g) => bggId'[g] = bggId[g]
    BY <1>2
  <2>4. QED
    BY <1>1, <1>2, <1>4, <1>5, <2>1, <2>2, <2>3, CoversStep DEF Backfilling
<1>6. CASE Crash /\ UNCHANGED cover
  BY <1>2, <1>6, CrashCovers DEF Table
<1>7. PICK polling : polling = [pc |-> "poll"]
  OBVIOUS
<1>8. PICK rejected : rejected = [pc |-> "rejected"]
  OBVIOUS
<1>9. \/ Put(k, With(run, w, polling)) \/ Put(k, With(run, w, rejected))
      \/ Crash /\ UNCHANGED cover
  BY <1>1, <1>7, <1>8 DEF WriteCover
<1>10. QED
  BY <1>5, <1>6, <1>7, <1>8, <1>9

LEMMA StartCovers ==
    ASSUME RunsInv, CoversInv, StartSyncAndConnect
    PROVE  CoversInv'
<1>1. PICK k : k = started + 1
  OBVIOUS
<1>2. k \in Runs /\ UNCHANGED Table
  BY <1>1, GameSyncAssumption DEF StartSyncAndConnect, Runs, RunsInv, SyncTypes
<1>3. PICK q : /\ Put(k, q)
               /\ \/ q = [Off EXCEPT !.pc = "dump"]
                  \/ q = [Off EXCEPT !.pc = "list",
                                     !.workers = [w \in Workers |-> [pc |-> "poll"]]]
  BY <1>1 DEF StartSyncAndConnect
<1>4. /\ q.pc \in {"dump", "list"} /\ q.batch = Off.batch /\ q.data = Off.data
      /\ q.queue = Off.queue
      /\ q.workers = Off.workers \/ \A w \in Workers : q.workers[w].pc = "poll"
  <2>1. PICK off \in Run : off = Off
    BY OffIsRun
  <2>2. CASE q = [off EXCEPT !.pc = "dump"]
    BY <2>1, <2>2 DEF Run
  <2>3. CASE q = [off EXCEPT !.pc = "list",
                             !.workers = [w \in Workers |-> [pc |-> "poll"]]]
    BY <2>1, <2>3 DEF Run
  <2>4. QED
    BY <1>3, <2>1, <2>2, <2>3
<1>5. Knowing(q)
  BY <1>4, OffKnows, SameKnowledge
<1>6. QED
  BY <1>2, <1>3, <1>4, <1>5, CoversRunOnly DEF Backfilling

\* What a run knows it keeps through a step that leaves its data alone.
LEMMA EditCovers ==
    ASSUME RunsInv, CoversInv, DeleteGame \/ ConnectGame \/ EditGame
    PROVE  CoversInv'
<1>1. PICK g \in Games :
        /\ edited' = edited \cup {g}
        /\ \A h \in Games : h # g => bggId'[h] = bggId[h] /\ cover'[h] = cover[h]
        /\ \A k \in Runs :
            /\ runs'[k].pc = runs[k].pc /\ runs'[k].todo = runs[k].todo
            /\ runs'[k].batch = runs[k].batch /\ runs'[k].data = runs[k].data
            /\ runs'[k].queue = runs[k].queue /\ runs'[k].workers = runs[k].workers
  <2>1. CASE DeleteGame
    BY <2>1 DEF DeleteGame, Edit
  <2>2. ASSUME NEW g \in Games, NEW id, GiveId(g, id)
        PROVE  /\ edited' = edited \cup {g}
               /\ \A h \in Games : h # g => bggId'[h] = bggId[h]
               /\ \A k \in Runs :
                    /\ runs'[k].pc = runs[k].pc /\ runs'[k].todo = runs[k].todo
                    /\ runs'[k].batch = runs[k].batch /\ runs'[k].data = runs[k].data
                    /\ runs'[k].queue = runs[k].queue /\ runs'[k].workers = runs[k].workers
    <3>1. edited' = edited \cup {g} /\ \A h \in Games : h # g => bggId'[h] = bggId[h]
      BY <2>2 DEF GiveId, Edit, RunsInv, SyncTypes
    <3>2. QED
      BY <2>2, <3>1, GiveIdRuns
  <2>3. CASE ConnectGame
    <3>1. PICK g \in Games :
            GiveId(g, ByName[g]) /\ \E image : cover' = [cover EXCEPT ![g] = image]
      BY <2>3 DEF ConnectGame
    <3>2. \A h \in Games : h # g => cover'[h] = cover[h]
      BY <3>1 DEF RunsInv, SyncTypes
    <3>3. QED
      BY <2>2, <3>1, <3>2
  <2>4. CASE EditGame
    <3>1. PICK g \in Games, id \in HandIds : GiveId(g, id)
      BY <2>4 DEF EditGame
    <3>2. cover' = cover
      BY <2>4 DEF EditGame
    <3>3. QED
      BY <2>2, <3>1, <3>2
  <2>5. QED
    BY <2>1, <2>3, <2>4
<1>2. ItemsStay
  BY <1>1 DEF ItemsStay, Item, Settled, Backfilling
<1>3. ASSUME NEW k \in Runs PROVE Knowing(runs[k])'
  <2>1. PICK run : run = runs'[k]
    OBVIOUS
  <2>2. Knowing(run)
    BY <1>1, <2>1, CoversKept DEF Knowing
  <2>3. Knowing(run)'
    BY <1>2, <2>2, KnowingStays
  <2>4. QED
    BY <2>1, <2>3
<1>4. ASSUME NEW h \in Games PROVE Fits(cover[h], h)'
  <2>1. PICK thumbnail : thumbnail = cover'[h]
    OBVIOUS
  <2>2. CASE h = g
    BY <1>1, <2>2 DEF Fits, Item
  <2>3. CASE h # g
    <3>1. Fits(thumbnail, h)
      BY <1>1, <2>1, <2>3 DEF CoversInv
    <3>2. Fits(thumbnail, h)'
      BY <1>2, <3>1, FitsStays
    <3>3. QED
      BY <2>1, <3>2
  <2>4. QED
    BY <2>2, <2>3
<1>5. QED
  BY <1>3, <1>4 DEF CoversInv

LEMMA CoversInit == Init => CoversInv
<1>1. SUFFICES ASSUME Init PROVE CoversInv
  OBVIOUS
<1>2. PICK off : off = Off
  OBVIOUS
<1>3. runs = [k \in Runs |-> off] /\ cover = [g \in Games |-> None]
  BY <1>1, <1>2 DEF Init
<1>4. QED
  BY <1>2, <1>3, OffKnows, UnpinnedFits DEF CoversInv

LEMMA CoversStill == CoversInv /\ UNCHANGED vars => CoversInv'
<1>1. SUFFICES ASSUME CoversInv, UNCHANGED vars PROVE CoversInv'
  OBVIOUS
<1>2. UNCHANGED <<bggId, cover, runs, edited>>
  BY <1>1 DEF vars
<1>3. ItemsStay
  BY <1>2 DEF ItemsStay, Item, Settled, Backfilling
<1>4. ASSUME NEW k \in Runs PROVE Knowing(runs[k])'
  <2>1. PICK run : run = runs[k]
    OBVIOUS
  <2>2. Knowing(run)'
    BY <1>1, <1>3, <2>1, KnowingStays DEF CoversInv
  <2>3. QED
    BY <1>2, <2>1, <2>2
<1>5. ASSUME NEW g \in Games PROVE Fits(cover[g], g)'
  <2>1. PICK thumbnail : thumbnail = cover[g]
    OBVIOUS
  <2>2. Fits(thumbnail, g)'
    BY <1>1, <1>3, <2>1, FitsStays DEF CoversInv
  <2>3. QED
    BY <1>2, <2>1, <2>2
<1>6. QED
  BY <1>4, <1>5 DEF CoversInv

LEMMA CoversNext == RunsInv /\ CoversInv /\ [Next]_vars => CoversInv'
<1>1. SUFFICES ASSUME RunsInv, CoversInv, [Next]_vars PROVE CoversInv'
  OBVIOUS
<1>2. ASSUME NEW k \in Runs, Producer(k) PROVE CoversInv'
  BY <1>1, <1>2, ListUnconnectedCovers, DownloadDumpCovers, BackfillCovers,
     StartWorkersCovers, ListGamesCovers, FetchBatchCovers, NextBatchCovers,
     CountUnresolvedCovers, EndRunCovers DEF Producer, Remote, Local
<1>3. ASSUME NEW k \in Runs, Persist(k) PROVE CoversInv'
  BY <1>1, <1>3, FindGameCovers, UpdateGameCovers DEF Persist
<1>4. ASSUME NEW k \in Runs, NEW w \in Workers, Drain(k, w) PROVE CoversInv'
  BY <1>1, <1>4, TakeJobCovers, DownloadCovers, WriteCoverCovers DEF Drain
<1>5. CASE Quiet
  BY <1>1, <1>5, CoversStill DEF Quiet
<1>6. QED
  BY <1>1, <1>2, <1>3, <1>4, <1>5, StartCovers, EditCovers, CoversStill DEF Next

\* The thumbnail of an edition ends only on games of the item it is an edition of,
\* however the batches, the workers and the requests interleave, and whatever ids
\* the other games are given by hand meanwhile: an edit of a game takes away what
\* the run knows of that game and of no other.
THEOREM NoForeignCover == Spec => []CoverOfOwnItem
<1>1. Spec => []CoversInv
  BY RunsInvInit, RunsInvNext, CoversInit, CoversNext, PTL DEF Spec
<1>2. CoversInv => CoverOfOwnItem
  BY DEF CoversInv, Fits, Item, CoverOfOwnItem
<1>3. QED
  BY <1>1, <1>2, PTL

-----------------------------------------------------------------------------
(* The backfill.                                                            *)

\* The games that a run has left to backfill have no bggId, unless somebody has
\* connected them since the run listed them: nobody else writes one meanwhile.
Filling(run) == Backfilling(run) => \A g \in run.todo : bggId[g] = None \/ g \in run.raced

FillingInv == \A k \in Runs : Filling(runs[k])

\* While a run backfills no other one has a producer.
LEMMA BackfillsAlone ==
    ASSUME RunsInv, NEW k \in Runs, Backfilling(runs[k]), NEW j \in Runs,
           runs[j].pc \notin {"off", "ended"}
    PROVE  j = k
  BY DEF RunsInv, Latest, Backfilling

\* A step of one run during which no other run backfills, or no bggId changes.
LEMMA FillingStep ==
    ASSUME RunsInv, FillingInv, NEW k \in Runs, NEW q, Put(k, q),
           UNCHANGED bggId \/ runs[k].pc \notin {"off", "ended"},
           Backfilling(q) => \A g \in q.todo : bggId'[g] = None \/ g \in q.raced
    PROVE  FillingInv'
<1>1. /\ DOMAIN runs' = Runs /\ runs'[k] = q
      /\ \A j \in Runs : j # k => runs'[j] = runs[j]
  BY PutIs
<1>2. SUFFICES ASSUME NEW j \in Runs, Backfilling(runs'[j]), NEW g \in runs'[j].todo
               PROVE  bggId'[g] = None \/ g \in runs'[j].raced
  BY DEF FillingInv, Filling, Backfilling
<1>3. CASE j = k
  BY <1>1, <1>2, <1>3
<1>4. CASE j # k
  <2>1. Backfilling(runs[j]) /\ runs'[j] = runs[j]
    BY <1>1, <1>2, <1>4
  <2>2. UNCHANGED bggId
    BY <1>4, <2>1, BackfillsAlone
  <2>3. QED
    BY <1>2, <2>1, <2>2 DEF FillingInv, Filling
<1>5. QED
  BY <1>3, <1>4

LEMMA FillingKept ==
    ASSUME RunsInv, FillingInv, UNCHANGED bggId, NEW k \in Runs, NEW q, Put(k, q),
           \/ ~Backfilling(q)
           \/ Backfilling(runs[k]) /\ q.todo \subseteq runs[k].todo /\ q.raced = runs[k].raced
    PROVE  FillingInv'
  BY FillingStep DEF FillingInv, Filling

LEMMA CrashFilling == Crash => FillingInv'
<1>1. SUFFICES ASSUME Crash PROVE \A j \in Runs : ~Backfilling(runs'[j])
  BY DEF FillingInv, Filling, Backfilling
<1>2. PICK off \in Run : off = Off /\ off.pc = "off"
  BY OffIsRun
<1>3. \A j \in Runs : runs'[j] = off \/ runs'[j] = [off EXCEPT !.pc = "ended", !.failed = TRUE]
  BY <1>1, <1>2 DEF Crash
<1>4. QED
  BY <1>2, <1>3 DEF Run, Backfilling

LEMMA ProducerFilling ==
    ASSUME RunsInv, FillingInv, NEW k \in Runs, Producer(k)
    PROVE  FillingInv'
<1>1. PICK run \in Run : run = runs[k] /\ Sound(run)
  BY RunTypes
<1>2. ASSUME NEW q, Put(k, q), q.pc \notin {"download", "backfill"}, UNCHANGED bggId
      PROVE  FillingInv'
  BY <1>2, FillingKept DEF Backfilling
<1>3. Crash => FillingInv'
  BY CrashFilling
<1>4. CASE ListUnconnected(k)
  <2>1. UNCHANGED bggId
    BY <1>4 DEF ListUnconnected, Table
  <2>2. PICK unconnected : unconnected = {g \in exists : bggId[g] = None}
    OBVIOUS
  <2>3. CASE Put(k, [run EXCEPT !.pc = IF unconnected = {} THEN "backfill" ELSE "download",
                                !.todo = unconnected])
    <3>1. PICK q : q = [run EXCEPT !.pc = IF unconnected = {} THEN "backfill" ELSE "download",
                                   !.todo = unconnected]
      OBVIOUS
    <3>2. \A g \in q.todo : bggId'[g] = None
      BY <2>1, <2>2, <3>1 DEF Run
    <3>3. Put(k, q)
      BY <2>3, <3>1
    <3>4. QED
      BY <2>1, <3>2, <3>3, FillingStep
  <2>4. CASE Put(k, Thrown(run))
    <3>1. PICK q : q = Thrown(run)
      OBVIOUS
    <3>2. q.pc = "awaitWorkers"
      BY <3>1 DEF Thrown, Run
    <3>3. QED
      BY <1>2, <2>1, <2>4, <3>1, <3>2
  <2>5. QED
    BY <1>1, <1>4, <2>2, <2>3, <2>4 DEF ListUnconnected
<1>5. CASE DownloadDump(k)
  <2>1. UNCHANGED bggId /\ run.pc = "download"
    BY <1>1, <1>5 DEF DownloadDump, Table
  <2>2. ASSUME NEW dump \in Dumps,
               Put(k, [run EXCEPT !.pc = "backfill", !.index = dump,
                                  !.todo = {g \in @ : dump[g] # <<>>}])
        PROVE  FillingInv'
    <3>1. PICK todo \in SUBSET run.todo : todo = {g \in run.todo : dump[g] # <<>>}
      OBVIOUS
    <3>2. PICK q : q = [run EXCEPT !.pc = "backfill", !.index = dump, !.todo = todo]
      OBVIOUS
    <3>3. q.todo = todo /\ q.raced = run.raced
      BY <3>2 DEF Run
    <3>4. Put(k, q)
      BY <2>2, <3>1, <3>2
    <3>5. QED
      BY <1>1, <2>1, <3>3, <3>4, FillingKept DEF Backfilling
  <2>3. CASE Put(k, [Thrown(run) EXCEPT !.todo = {}, !.raced = {}])
    <3>1. PICK q : q = [Thrown(run) EXCEPT !.todo = {}, !.raced = {}]
      OBVIOUS
    <3>2. q.pc = "awaitWorkers"
      BY <3>1 DEF Thrown, Run
    <3>3. QED
      BY <1>2, <2>1, <2>3, <3>1, <3>2
  <2>4. QED
    BY <1>1, <1>5, <2>2, <2>3 DEF DownloadDump
<1>6. CASE Backfill(k)
  <2>1. run.pc = "backfill"
    BY <1>1, <1>6 DEF Backfill
  <2>2. ASSUME NEW g \in run.todo, NEW id, bggId' = [bggId EXCEPT ![g] = id],
               Put(k, [run EXCEPT !.todo = @ \ {g}])
        PROVE  FillingInv'
    <3>1. PICK q : q = [run EXCEPT !.todo = @ \ {g}]
      OBVIOUS
    <3>2. q.pc = "backfill" /\ q.todo = run.todo \ {g} /\ q.raced = run.raced
      BY <2>1, <3>1 DEF Run
    <3>3. run.todo \subseteq Games
      BY <1>1, <2>1 DEF Sound, Backfilling
    <3>4. \A h \in q.todo : bggId'[h] = bggId[h]
      BY <2>2, <3>2, <3>3, RunTypes
    <3>5. \A h \in q.todo : bggId[h] = None \/ h \in run.raced
      BY <1>1, <2>1, <3>2 DEF FillingInv, Filling, Backfilling
    <3>6. QED
      BY <1>1, <2>1, <2>2, <3>1, <3>2, <3>4, <3>5, FillingStep
  <2>3. CASE /\ Put(k, [Thrown(run) EXCEPT !.todo = {}, !.index = NoDump, !.raced = {}])
             /\ UNCHANGED bggId
    <3>1. PICK q : q = [Thrown(run) EXCEPT !.todo = {}, !.index = NoDump, !.raced = {}]
      OBVIOUS
    <3>2. q.pc = "awaitWorkers"
      BY <3>1 DEF Thrown, Run
    <3>3. QED
      BY <1>2, <2>3, <3>1, <3>2
  <2>4. QED
    BY <1>1, <1>6, <2>2, <2>3 DEF Backfill
<1>7. CASE StartWorkers(k)
  <2>1. PICK q : q = [run EXCEPT !.pc = "list", !.index = NoDump, !.raced = {},
                                 !.workers = [w \in Workers |-> [pc |-> "poll"]]]
    OBVIOUS
  <2>2. q.pc = "list" /\ Put(k, q) /\ UNCHANGED bggId
    BY <1>1, <1>7, <2>1 DEF StartWorkers, Run, Table
  <2>3. QED
    BY <1>2, <2>2
<1>8. CASE ListGames(k)
  <2>1. PICK todo : todo = {[game |-> g, id |-> bggId[g]] : g \in {h \in exists : bggId[h] # None}}
    OBVIOUS
  <2>2. PICK q : q = [run EXCEPT !.pc = "fetch", !.todo = todo]
    OBVIOUS
  <2>3. q.pc = "fetch" /\ UNCHANGED Table /\ UNCHANGED bggId
    BY <1>8, <2>2 DEF ListGames, Run, Table
  <2>4. Put(k, q) \/ Crash
    BY <1>1, <1>8, <2>1, <2>2 DEF ListGames
  <2>5. QED
    BY <1>2, <1>3, <2>3, <2>4
<1>9. CASE FetchBatch(k)
  <2>1. UNCHANGED Table /\ UNCHANGED bggId
    BY <1>9 DEF FetchBatch, Table
  <2>2. ASSUME NEW todo, NEW data, NEW persisters,
               Put(k, [run EXCEPT !.pc = "persist", !.todo = todo, !.data = data,
                                  !.batch = persisters])
        PROVE  FillingInv'
    <3>1. PICK q : q = [run EXCEPT !.pc = "persist", !.todo = todo, !.data = data,
                                   !.batch = persisters]
      OBVIOUS
    <3>2. q.pc = "persist"
      BY <3>1 DEF Run
    <3>3. QED
      BY <1>2, <2>1, <2>2, <3>1, <3>2
  <2>3. (\E todo, data, persisters :
            Put(k, [run EXCEPT !.pc = "persist", !.todo = todo, !.data = data,
                               !.batch = persisters])) \/ Crash
    BY <1>1, <1>9, Zenon DEF FetchBatch
  <2>4. QED
    BY <1>3, <2>1, <2>2, <2>3
<1>10. CASE NextBatch(k)
  <2>1. PICK q : q = [run EXCEPT !.pc = "fetch", !.data = Off.data]
    OBVIOUS
  <2>2. q.pc = "fetch" /\ Put(k, q) /\ UNCHANGED bggId
    BY <1>1, <1>10, <2>1 DEF NextBatch, Run, Table
  <2>3. QED
    BY <1>2, <2>2
<1>11. CASE CountUnresolved(k)
  <2>1. PICK q : q = [run EXCEPT !.pc = "awaitWorkers"]
    OBVIOUS
  <2>2. q.pc = "awaitWorkers" /\ UNCHANGED Table /\ UNCHANGED bggId
    BY <1>11, <2>1 DEF CountUnresolved, Run, Table
  <2>3. Put(k, q) \/ Crash
    BY <1>1, <1>11, <2>1 DEF CountUnresolved
  <2>4. QED
    BY <1>2, <1>3, <2>2, <2>3
<1>12. CASE EndRun(k)
  <2>1. PICK q, failed : q = [run EXCEPT !.pc = "ended", !.failed = failed] /\ Put(k, q)
    BY <1>1, <1>12 DEF EndRun
  <2>2. q.pc = "ended" /\ UNCHANGED bggId
    BY <1>12, <2>1 DEF EndRun, Run, Table
  <2>3. QED
    BY <1>2, <2>1, <2>2
<1>13. QED
  BY <1>4, <1>5, <1>6, <1>7, <1>8, <1>9, <1>10, <1>11, <1>12 DEF Producer, Remote, Local

LEMMA PersistFilling ==
    ASSUME RunsInv, FillingInv, NEW k \in Runs, Persist(k)
    PROVE  FillingInv'
<1>1. PICK run \in Run : run = runs[k] /\ Sound(run)
  BY RunTypes
<1>2. \A p \in run.batch : run.pc = "persist" /\ Queued(run, p).pc = "persist"
  BY <1>1, QueuedSound DEF Sound
<1>3. ASSUME FindGame(k) PROVE FillingInv'
  <2>1. PICK p \in run.batch :
            Put(k, IF p.game \in exists
                   THEN [run EXCEPT !.batch = (@ \ {p}) \cup {[p EXCEPT !.pc = "update"]}]
                   ELSE Queued(run, p))
    BY <1>1, <1>3 DEF FindGame
  <2>2. PICK q, batch : Put(k, q) /\ (q = [run EXCEPT !.batch = batch] \/ q = Queued(run, p))
    BY <2>1
  <2>3. q.pc = "persist"
    BY <1>2, <2>2 DEF Run
  <2>4. UNCHANGED bggId
    BY <1>3 DEF FindGame, Table
  <2>5. QED
    BY <2>2, <2>3, <2>4, FillingKept DEF Backfilling
<1>4. ASSUME UpdateGame(k) PROVE FillingInv'
  <2>1. ASSUME NEW p \in run.batch, Put(k, Queued(run, p)) PROVE FillingInv'
    BY <1>1, <1>2, <2>1, FillingStep DEF Backfilling
  <2>2. QED
    BY <1>1, <1>4, <2>1, CrashFilling DEF UpdateGame
<1>5. QED
  BY <1>3, <1>4 DEF Persist

LEMMA DrainFilling ==
    ASSUME RunsInv, FillingInv, NEW k \in Runs, NEW w \in Workers, Drain(k, w)
    PROVE  FillingInv'
<1>1. PICK run \in Run : run = runs[k]
  BY RunTypes
<1>2. UNCHANGED bggId
  BY DEF Drain, TakeJob, Download, WriteCover, Table
<1>3. ASSUME NEW q, NEW workers, NEW queue, Put(k, q),
             q = [run EXCEPT !.workers = workers, !.queue = queue]
      PROVE  FillingInv'
  <2>1. q.pc = run.pc /\ q.todo = run.todo /\ q.raced = run.raced
    BY <1>3 DEF Run
  <2>2. QED
    BY <1>1, <1>2, <1>3, <2>1, FillingKept DEF Backfilling
<1>4. ASSUME NEW worker, Put(k, With(run, w, worker)) PROVE FillingInv'
  <2>1. PICK q : q = With(run, w, worker)
    OBVIOUS
  <2>2. q = [run EXCEPT !.workers = [run.workers EXCEPT ![w] = worker], !.queue = run.queue]
    BY <2>1 DEF With, Run
  <2>3. QED
    BY <1>3, <1>4, <2>1, <2>2
<1>5. ASSUME NEW worker, NEW queue, Put(k, [With(run, w, worker) EXCEPT !.queue = queue])
      PROVE  FillingInv'
  <2>1. PICK q : q = [With(run, w, worker) EXCEPT !.queue = queue]
    OBVIOUS
  <2>2. q = [run EXCEPT !.workers = [run.workers EXCEPT ![w] = worker], !.queue = queue]
    BY <2>1 DEF With, Run
  <2>3. QED
    BY <1>3, <1>5, <2>1, <2>2
<1>6. CASE TakeJob(k, w)
  <2>1. \/ Put(k, [With(run, w, [pc |-> "download", job |-> Head(run.queue)])
                        EXCEPT !.queue = Tail(@)])
        \/ Put(k, With(run, w, [pc |-> "ended"]))
    BY <1>1, <1>6 DEF TakeJob
  <2>2. PICK worker : worker = [pc |-> "download", job |-> Head(run.queue)]
    OBVIOUS
  <2>3. [With(run, w, worker) EXCEPT !.queue = Tail(@)]
            = [With(run, w, worker) EXCEPT !.queue = Tail(run.queue)]
    BY DEF With, Run
  <2>4. QED
    BY <1>4, <1>5, <2>1, <2>2, <2>3
<1>7. CASE Download(k, w)
  BY <1>1, <1>4, <1>7 DEF Download
<1>8. CASE WriteCover(k, w)
  BY <1>1, <1>4, <1>8, CrashFilling DEF WriteCover
<1>9. QED
  BY <1>6, <1>7, <1>8 DEF Drain

LEMMA RequestFilling ==
    ASSUME RunsInv, FillingInv, StartSyncAndConnect \/ DeleteGame \/ ConnectGame \/ EditGame
    PROVE  FillingInv'
<1>1. CASE StartSyncAndConnect
  <2>1. PICK k \in Runs : k = started + 1
    BY <1>1, GameSyncAssumption DEF StartSyncAndConnect, Runs, RunsInv, SyncTypes
  <2>2. PICK off \in Run : off = Off
    BY OffIsRun
  <2>3. PICK q : /\ Put(k, q)
                 /\ \/ q = [off EXCEPT !.pc = "dump"]
                    \/ q = [off EXCEPT !.pc = "list",
                                       !.workers = [w \in Workers |-> [pc |-> "poll"]]]
    BY <1>1, <2>1, <2>2 DEF StartSyncAndConnect
  <2>4. q.pc \in {"dump", "list"}
    BY <2>3 DEF Run
  <2>5. UNCHANGED bggId
    BY <1>1 DEF StartSyncAndConnect, Table
  <2>6. QED
    BY <2>3, <2>4, <2>5, FillingKept DEF Backfilling
<1>2. CASE DeleteGame
  BY <1>2 DEF DeleteGame, FillingInv, Filling, Backfilling
<1>3. ASSUME NEW g \in Games, NEW id, GiveId(g, id) PROVE FillingInv'
  <2>1. SUFFICES ASSUME NEW k \in Runs, Backfilling(runs'[k]), NEW h \in runs'[k].todo
                 PROVE  bggId'[h] = None \/ h \in runs'[k].raced
    BY DEF FillingInv, Filling, Backfilling
  <2>2. PICK run \in Run : run = runs[k]
    BY RunTypes
  <2>3. /\ Backfilling(run) /\ runs'[k].todo = run.todo /\ runs'[k].raced = run.raced \cup {g}
    BY <1>3, <2>1, <2>2 DEF GiveId, Run, Backfilling
  <2>4. h \in Games
    BY <2>1, <2>2, <2>3 DEF RunsInv, Sound, Backfilling
  <2>5. bggId'[h] = bggId[h] \/ h = g
    BY <1>3, <2>4, RunTypes DEF GiveId
  <2>6. QED
    BY <2>1, <2>2, <2>3, <2>5 DEF FillingInv, Filling
<1>4. QED
  BY <1>1, <1>2, <1>3 DEF ConnectGame, EditGame

LEMMA FillingNext == RunsInv /\ FillingInv /\ [Next]_vars => FillingInv'
<1>1. SUFFICES ASSUME RunsInv, FillingInv, [Next]_vars PROVE FillingInv'
  OBVIOUS
<1>2. UNCHANGED vars => FillingInv'
  BY <1>1 DEF vars, FillingInv, Filling, Backfilling
<1>3. QED
  BY <1>1, <1>2, ProducerFilling, PersistFilling, DrainFilling, RequestFilling DEF Next, Quiet

LEMMA FillingInit == Init => FillingInv
<1>1. SUFFICES ASSUME Init PROVE FillingInv
  OBVIOUS
<1>2. PICK off \in Run : off = Off /\ off.pc = "off"
  BY OffIsRun
<1>3. runs = [k \in Runs |-> off]
  BY <1>1, <1>2 DEF Init
<1>4. QED
  BY <1>2, <1>3 DEF FillingInv, Filling, Backfilling

\* A step by which a backfill writes the bggId of a game writes the entry that was
\* chosen among those of its name, on a game that had no bggId or was connected by
\* hand since the run read the games.
BackfillWritesTheChosen ==
    [][\A k \in Runs, g \in Games :
        LET run == runs[k] IN
        (run.pc = "backfill" /\ run.todo # runs'[k].todo /\ bggId'[g] # bggId[g]) =>
            /\ bggId[g] = None \/ g \in run.raced
            /\ run.index \in Dumps /\ run.index[g] # <<>>
            /\ bggId'[g] = Chosen(run.index[g], YearPublished[g]).id]_vars

LEMMA BackfillStep ==
    ASSUME RunsInv, FillingInv, [Next]_vars, NEW k \in Runs, NEW g \in Games,
           runs[k].pc = "backfill", runs[k].todo # runs'[k].todo, bggId'[g] # bggId[g]
    PROVE  /\ bggId[g] = None \/ g \in runs[k].raced
           /\ runs[k].index \in Dumps /\ runs[k].index[g] # <<>>
           /\ bggId'[g] = Chosen(runs[k].index[g], YearPublished[g]).id
<1>1. PICK j \in Runs : Backfill(j) \/ UpdateGame(j)
  <2>1. ~UNCHANGED bggId
    OBVIOUS
  <2>2. ~DeleteGame /\ ~ConnectGame /\ ~EditGame
    BY GiveIdRuns DEF DeleteGame, ConnectGame, EditGame
  <2>3. ~StartSyncAndConnect /\ ~Quiet /\ ~UNCHANGED vars
    BY <2>1 DEF StartSyncAndConnect, Quiet, vars, Table
  <2>4. \A j \in Runs : Producer(j) => Backfill(j)
    BY <2>1 DEF Producer, Remote, Local, ListUnconnected, DownloadDump, StartWorkers, ListGames, FetchBatch,
                NextBatch, CountUnresolved, EndRun, Table
  <2>5. \A j \in Runs : Persist(j) => UpdateGame(j)
    BY <2>1 DEF Persist, FindGame, Table
  <2>6. \A j \in Runs, w \in Workers : ~Drain(j, w)
    BY <2>1 DEF Drain, TakeJob, Download, WriteCover, Table
  <2>7. QED
    BY <2>2, <2>3, <2>4, <2>5, <2>6 DEF Next
<1>2. CASE UpdateGame(j)
  <2>1. runs[j].batch # {} \/ UNCHANGED bggId
    BY <1>2 DEF UpdateGame
  <2>2. runs[j].pc = "persist"
    BY <2>1 DEF RunsInv, Sound
  <2>3. QED
    BY <2>2, BackfillsAlone DEF Backfilling
<1>3. CASE Backfill(j)
  <2>1. j = k
    BY <1>3, BackfillsAlone DEF Backfill, Backfilling
  <2>2. PICK h \in runs[k].todo :
            bggId' = [bggId EXCEPT ![h] = Chosen(runs[k].index[h], YearPublished[h]).id]
    BY <1>3, <2>1 DEF Backfill
  <2>3. g = h
    BY <2>2, RunTypes
  <2>4. bggId'[g] = Chosen(runs[k].index[g], YearPublished[g]).id
    BY <2>2, <2>3, RunTypes
  <2>5. QED
    BY <2>2, <2>3, <2>4 DEF FillingInv, Filling, Backfilling, RunsInv, Sound
<1>4. QED
  BY <1>1, <1>2, <1>3

\* The backfill writes over no bggId but one that somebody has just given, and
\* writes the entry that was chosen: no other run, batch or request comes between
\* its reading of the games and its updates.
THEOREM BackfillOverwritesNothing == Spec => BackfillWritesTheChosen
<1>1. Spec => []FillingInv
  BY RunsInvInit, RunsInvNext, FillingInit, FillingNext, PTL DEF Spec
<1>2. RunsInv /\ FillingInv /\ [Next]_vars =>
        [\A k \in Runs, g \in Games :
            LET run == runs[k] IN
            (run.pc = "backfill" /\ run.todo # runs'[k].todo /\ bggId'[g] # bggId[g]) =>
                /\ bggId[g] = None \/ g \in run.raced
                /\ run.index \in Dumps /\ run.index[g] # <<>>
                /\ bggId'[g] = Chosen(run.index[g], YearPublished[g]).id]_vars
  BY BackfillStep
<1>3. QED
  BY <1>1, <1>2, RunsInvariance, PTL DEF Spec, BackfillWritesTheChosen

\* The entry that pool.reduce ends with is a best match among the name's entries:
\* what the fold computes is data, which TLC evaluates.
ChoosesBest ==
    \A dump \in Dumps, g \in Games : dump[g] # <<>> =>
        Chosen(dump[g], YearPublished[g]).id \in BestMatches(dump[g], YearPublished[g])

\* Where the fold chooses a best match, what the backfill writes is one, on a game
\* without a bggId: the BackfillFillsGaps of the runs.
THEOREM BackfillWritesBestMatch ==
    ASSUME ChoosesBest
    PROVE  Spec => BackfillFillsGaps
<1>1. Spec => []FillingInv
  BY RunsInvInit, RunsInvNext, FillingInit, FillingNext, PTL DEF Spec
<1>2. RunsInv /\ FillingInv /\ [Next]_vars =>
        [\A k \in Runs, g \in Games :
            LET run == runs[k] IN
            (/\ run.pc = "backfill"
             /\ run.todo # runs'[k].todo
             /\ bggId'[g] # bggId[g]) =>
                /\ bggId[g] = None \/ g \in run.raced
                /\ bggId'[g] \in BestMatches(run.index[g], YearPublished[g])]_vars
  BY BackfillStep DEF ChoosesBest
<1>3. QED
  BY <1>1, <1>2, RunsInvariance, PTL DEF Spec, BackfillFillsGaps
=============================================================================
