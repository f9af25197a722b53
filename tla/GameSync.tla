------------------------------ MODULE GameSync ------------------------------
(***************************************************************************)
(* The background synchronisation of an organization's games with          *)
(* BoardGameGeek: GameService.startSyncAndConnect and the run it launches, *)
(* a producer (rank-dump backfill, then batches of metadata persisted in   *)
(* parallel) and a pool of workers that download the covers it queues.     *)
(*                                                                         *)
(* A run is a tree of promises in one Node process, which ends at the      *)
(* first rejection that nobody handles: that of a worker the producer does *)
(* not await yet, and the one that the catch block returns, when the       *)
(* finally block has workers to await before the caller gets it.           *)
(***************************************************************************)
EXTENDS RankDump, FiniteSets

CONSTANTS
    Games,
    BggIds,
    None,           \* a bggId that is null
    FirstId,        \* each game's bggId when the behaviour starts
    YearPublished,  \* each game's yearPublished
    Dumps,          \* the rank dumps: for each game, the entries under its name
    HandIds,        \* the bggIds that an edit by hand may give
    ByName,         \* the bggId a search for the game's name answers with
    EditionOf,      \* the item whose edition, with a thumbnail, a game is pinned to
    Workers,        \* COVER_ART_CONCURRENCY of them
    BatchSize,      \* games per request
    Faults,         \* whether a database call or the dump may fail
    MaxRuns,        \* bound: the runs started in a behaviour
    MaxEdits        \* bound: the games edited by hand in a behaviour

Default == "default"

ASSUME GameSyncAssumption ==
    /\ FirstId \in [Games -> BggIds \cup {None}]
    /\ YearPublished \in [Games -> Nat]
    /\ Dumps \subseteq [Games -> Seq([id : BggIds, year : Nat, rank : Nat])]
    /\ HandIds \subseteq BggIds \cup {None}
    /\ ByName \in [Games -> BggIds]
    /\ None \notin BggIds \cup Games
    /\ Default \notin Games
    /\ EditionOf \in [Games -> BggIds \cup {None}]
    /\ Workers # {}
    /\ BatchSize \in Nat \ {0}
    /\ Faults \in BOOLEAN
    /\ {MaxRuns, MaxEdits} \subseteq Nat

\* The entry that pool.reduce ends with is one of the name's entries.
ASSUME ChoiceAssumption ==
    \A dump \in Dumps, g \in Games : dump[g] # <<>> =>
        \E n \in DOMAIN dump[g] : Chosen(dump[g], YearPublished[g]) = dump[g][n]

VARIABLES
    exists,         \* the games of the Game table
    bggId,          \* their bggId column
    cover,          \* their coverArt, named by the thumbnail it came from
    runs,           \* the state of every run
    started,        \* the number of runs started
    syncInProgress, \* the flag of GameService
    crashed,        \* whether the process has ended and been started again
    edited          \* history: the games deleted or given a bggId by hand

vars == <<exists, bggId, cover, runs, started, syncInProgress, crashed, edited>>

-----------------------------------------------------------------------------
Versioned == {g \in Games : EditionOf[g] # None}

\* The default thumbnail of an item, or the one of a game's pinned edition.
Thumbnails == {Default} \cup Versioned

Job == [game : Games, thumbnail : Thumbnails]

\* What a worker has in hand: pc "poll" with no job, then its job.
Worker == [pc : {"off", "poll", "ended", "rejected"}]
            \cup [pc : {"download", "write"}, job : Job]

\* One callback of the Promise.all that persists a batch.
Persister == [pc : {"find", "update"}, game : Games, id : BggIds]

Phases == {"off", "dump", "download", "backfill", "list", "fetch", "persist", "count",
           "awaitWorkers", "ended"}

Listed == [game : Games, id : BggIds]

NoDump == [g \in Games |-> <<>>]

\* todo: the games left to backfill or fetch; data: the thumbnail each item
\* object of the batch response bears at the moment; index: the dump in use.
\* raced is history: the games connected since those without a bggId were read.
Run == [pc : Phases, todo : SUBSET (Games \cup Listed), index : Dumps \cup {NoDump},
        raced : SUBSET Games, batch : SUBSET Persister,
        data : [BggIds -> Thumbnails], queue : Seq(Job),
        workers : [Workers -> Worker], failed : BOOLEAN]

Off == [pc |-> "off", todo |-> {}, index |-> NoDump, raced |-> {}, batch |-> {},
        data |-> [i \in BggIds |-> Default],
        queue |-> <<>>, workers |-> [w \in Workers |-> [pc |-> "off"]], failed |-> FALSE]

Runs == 1 .. MaxRuns

TypeOK ==
    /\ exists \subseteq Games
    /\ bggId \in [Games -> BggIds \cup {None}]
    /\ cover \in [Games -> Thumbnails \cup {None}]
    /\ DOMAIN runs = Runs
    /\ \A k \in Runs :
        /\ runs[k].pc \in Phases
        /\ runs[k].todo \subseteq Games \cup Listed
        /\ runs[k].index \in Dumps \cup {NoDump}
        /\ runs[k].raced \subseteq Games
        /\ runs[k].batch \subseteq Persister
        /\ runs[k].data \in [BggIds -> Thumbnails]
        /\ runs[k].queue \in Seq(Job)
        /\ runs[k].workers \in [Workers -> Worker]
        /\ runs[k].failed \in BOOLEAN
    /\ started \in 0 .. MaxRuns
    /\ syncInProgress \in BOOLEAN
    /\ crashed \in BOOLEAN
    /\ edited \subseteq Games

\* producerDone: the finally block has been reached.
ProducerDone(run) == run.pc \in {"awaitWorkers", "ended"}

WorkerActive(run, w) == run.workers[w].pc \in {"poll", "download", "write"}

\* Some promise of the run is still pending.
Active(run) ==
    \/ run.pc \notin {"off", "ended"}
    \/ run.batch # {}
    \/ \E w \in Workers : WorkerActive(run, w)

Put(k, run) == runs' = [runs EXCEPT ![k] = run]

\* The catch and finally blocks of a run that has no workers yet.
Thrown(run) == [run EXCEPT !.pc = "awaitWorkers", !.failed = TRUE]

\* The process ends with every promise in it and is started again.
Crash ==
    /\ runs' = [k \in Runs |-> IF runs[k].pc = "off" THEN Off
                               ELSE [Off EXCEPT !.pc = "ended", !.failed = TRUE]]
    /\ syncInProgress' = FALSE
    /\ crashed' = TRUE

Table == <<exists, bggId, cover, edited>>

Process == <<started, syncInProgress, crashed>>

-----------------------------------------------------------------------------
Init ==
    /\ exists = Games
    /\ bggId = FirstId
    /\ cover = [g \in Games |-> None]
    /\ runs = [k \in Runs |-> Off]
    /\ started = 0
    /\ syncInProgress = FALSE
    /\ crashed = FALSE
    /\ edited = {}

\* Mutation: syncInProgress is not tested.
StartUntested ==
    /\ started < MaxRuns
    /\ started' = started + 1
    /\ syncInProgress' = TRUE
    /\ Put(started + 1, [Off EXCEPT !.pc = "dump"])
    /\ UNCHANGED <<Table, crashed>>

\* A request while a run is in progress is answered 409 and changes nothing.
StartSyncAndConnect ==
    /\ ~syncInProgress
    /\ started < MaxRuns
    /\ started' = started + 1
    /\ syncInProgress' = TRUE
    /\ \E pc \in {"dump", "list"} :
        Put(started + 1, IF pc = "dump" THEN [Off EXCEPT !.pc = pc]
                         ELSE [Off EXCEPT !.pc = pc,
                                          !.workers = [w \in Workers |-> [pc |-> "poll"]]])
    /\ UNCHANGED <<Table, crashed>>

\* Mutation: the games that have a bggId are listed too.
ListUnconnectedAll(k) ==
    /\ runs[k].pc = "dump"
    /\ Put(k, [runs[k] EXCEPT !.pc = "download", !.todo = exists])
    /\ UNCHANGED <<Table, Process>>

\* Without a game that lacks a bggId the dump is not downloaded.
ListUnconnected(k) ==
    LET run == runs[k]
        unconnected == {g \in exists : bggId[g] = None} IN
    /\ run.pc = "dump"
    /\ \/ Put(k, [run EXCEPT !.pc = IF unconnected = {} THEN "backfill" ELSE "download",
                             !.todo = unconnected])
       \/ Faults /\ Put(k, Thrown(run))
    /\ UNCHANGED <<Table, Process>>

\* getRankDumpIndex: a bad address, an expired link or a file that is no dump
\* throws.  Games whose name the dump does not hold are passed over at once.
DownloadDump(k) ==
    LET run == runs[k] IN
    /\ run.pc = "download"
    /\ \/ \E dump \in Dumps :
            Put(k, [run EXCEPT !.pc = "backfill", !.index = dump,
                               !.todo = {g \in @ : dump[g] # <<>>}])
       \/ Put(k, [Thrown(run) EXCEPT !.todo = {}, !.raced = {}])
    /\ UNCHANGED <<Table, Process>>

\* The update names the game by its id only.
Backfill(k) ==
    LET run == runs[k] IN
    /\ run.pc = "backfill"
    /\ \E g \in run.todo :
        \/ /\ g \in exists
           /\ bggId' = [bggId EXCEPT ![g] = Chosen(run.index[g], YearPublished[g]).id]
           /\ Put(k, [run EXCEPT !.todo = @ \ {g}])
        \/ /\ g \notin exists \/ Faults
           /\ Put(k, [Thrown(run) EXCEPT !.todo = {}, !.index = NoDump, !.raced = {}])
           /\ UNCHANGED bggId
    /\ UNCHANGED <<exists, cover, edited, Process>>

StartWorkers(k) ==
    LET run == runs[k] IN
    /\ run.pc = "backfill"
    /\ run.todo = {}
    /\ Put(k, [run EXCEPT !.pc = "list", !.index = NoDump, !.raced = {},
                          !.workers = [w \in Workers |-> [pc |-> "poll"]]])
    /\ UNCHANGED <<Table, Process>>

\* Mutation: the games without a bggId are listed too.
ListAllGames(k) ==
    /\ runs[k].pc = "list"
    /\ Put(k, [runs[k] EXCEPT !.pc = "fetch",
                              !.todo = {[game |-> g, id |-> bggId[g]] : g \in exists}])
    /\ UNCHANGED <<Table, Process>>

ListGames(k) ==
    LET run == runs[k]
        listed == {g \in exists : bggId[g] # None} IN
    /\ run.pc = "list"
    /\ \/ /\ Put(k, [run EXCEPT !.pc = "fetch",
                                !.todo = {[game |-> g, id |-> bggId[g]] : g \in listed}])
          /\ UNCHANGED <<syncInProgress, crashed>>
       \/ Faults /\ Crash
    /\ UNCHANGED <<Table, started>>

\* The response holds some of the ids of the batch; none when the request
\* failed, since getBoardGameBatchByBGGIds then returns no items.  It throws
\* when no API token is configured.
FetchBatch(k) ==
    LET run == runs[k] IN
    /\ run.pc = "fetch"
    /\ run.todo # {}
    /\ \/ /\ \E batch \in SUBSET run.todo :
            /\ Cardinality(batch) = IF Cardinality(run.todo) < BatchSize
                                    THEN Cardinality(run.todo) ELSE BatchSize
            /\ \E found \in SUBSET {l.id : l \in batch} :
                Put(k, [run EXCEPT
                    !.pc = "persist",
                    !.todo = @ \ batch,
                    !.data = Off.data,
                    !.batch = {[pc |-> "find", game |-> l.game, id |-> l.id] :
                                    l \in {m \in batch : m.id \in found}}])
          /\ UNCHANGED <<syncInProgress, crashed>>
       \/ Faults /\ Crash
    /\ UNCHANGED <<Table, started>>

\* Mutation: the edition's thumbnail is kept in a variable of the batch.
QueuedHoisted(run, p) ==
    LET data == IF EditionOf[p.game] = p.id THEN [i \in BggIds |-> p.game] ELSE run.data IN
    [run EXCEPT !.batch = @ \ {p},
                !.data = data,
                !.queue = Append(@, [game |-> p.game, thumbnail |-> data[p.id]])]

\* bggUpdate reads the game first, and does not update one that is gone.  The
\* callback goes on to queue its cover in both cases; it writes the thumbnail of
\* the pinned edition, if the item has that edition, into the item, which games
\* with the same id share.
Queued(run, p) ==
    LET data == IF EditionOf[p.game] = p.id THEN [run.data EXCEPT ![p.id] = p.game]
                ELSE run.data IN
    [run EXCEPT !.batch = @ \ {p},
                !.data = data,
                !.queue = Append(@, [game |-> p.game, thumbnail |-> data[p.id]])]

FindGame(k) ==
    LET run == runs[k] IN
    /\ \E p \in run.batch :
        /\ p.pc = "find"
        /\ Put(k, IF p.game \in exists
                  THEN [run EXCEPT !.batch = (@ \ {p}) \cup {[p EXCEPT !.pc = "update"]}]
                  ELSE Queued(run, p))
    /\ UNCHANGED <<Table, Process>>

UpdateGame(k) ==
    LET run == runs[k] IN
    /\ \E p \in run.batch :
        /\ p.pc = "update"
        /\ \/ /\ p.game \in exists
              /\ bggId' = [bggId EXCEPT ![p.game] = p.id]
              /\ Put(k, Queued(run, p))
              /\ UNCHANGED <<syncInProgress, crashed>>
           \/ /\ p.game \notin exists \/ Faults
              /\ Crash
              /\ UNCHANGED bggId
    /\ UNCHANGED <<exists, cover, edited, started>>

NextBatch(k) ==
    LET run == runs[k] IN
    /\ run.pc = "persist"
    /\ run.batch = {}
    /\ Put(k, [run EXCEPT !.pc = "fetch", !.data = Off.data])
    /\ UNCHANGED <<Table, Process>>

CountUnresolved(k) ==
    LET run == runs[k] IN
    /\ run.pc = "fetch"
    /\ run.todo = {}
    /\ \/ Put(k, [run EXCEPT !.pc = "awaitWorkers"]) /\ UNCHANGED <<syncInProgress, crashed>>
       \/ Faults /\ Crash
    /\ UNCHANGED <<Table, started>>

-----------------------------------------------------------------------------
(* The workers *)

With(run, w, worker) == [run EXCEPT !.workers[w] = worker]

\* Mutation: the workers get the value of producerDone, not a function.
TakeJobForever(k, w) ==
    LET run == runs[k] IN
    /\ run.workers[w].pc = "poll"
    /\ IF run.queue # <<>>
       THEN Put(k, [With(run, w, [pc |-> "download", job |-> Head(run.queue)])
                        EXCEPT !.queue = Tail(@)])
       ELSE UNCHANGED runs
    /\ UNCHANGED <<Table, Process>>

TakeJob(k, w) ==
    LET run == runs[k] IN
    /\ run.workers[w].pc = "poll"
    /\ \/ /\ run.queue # <<>>
          /\ Put(k, [With(run, w, [pc |-> "download", job |-> Head(run.queue)])
                        EXCEPT !.queue = Tail(@)])
       \/ /\ run.queue = <<>>
          /\ ProducerDone(run)
          /\ Put(k, With(run, w, [pc |-> "ended"]))
    /\ UNCHANGED <<Table, Process>>

\* No image: the download failed, or the host of its URL is not allowed.
Download(k, w) ==
    LET run == runs[k] IN
    /\ run.workers[w].pc = "download"
    /\ \/ Put(k, With(run, w, [run.workers[w] EXCEPT !.pc = "write"]))
       \/ Put(k, With(run, w, [pc |-> "poll"]))
    /\ UNCHANGED <<Table, Process>>

\* The update of a game that is gone rejects.
WriteCover(k, w) ==
    LET run == runs[k]
        job == run.workers[w].job IN
    /\ run.workers[w].pc = "write"
    /\ \/ /\ job.game \in exists
          /\ cover' = [cover EXCEPT ![job.game] = job.thumbnail]
          /\ Put(k, With(run, w, [pc |-> "poll"]))
          /\ UNCHANGED <<syncInProgress, crashed>>
       \/ /\ job.game \notin exists \/ Faults
          /\ IF ProducerDone(run)
             THEN /\ Put(k, With(run, w, [pc |-> "rejected"]))
                  /\ UNCHANGED <<syncInProgress, crashed>>
             ELSE Crash
          /\ UNCHANGED cover
    /\ UNCHANGED <<exists, bggId, edited, started>>

\* Mutation: the run does not await its workers.
EndRunUnawaited(k) ==
    /\ runs[k].pc = "awaitWorkers"
    /\ Put(k, [runs[k] EXCEPT !.pc = "ended"])
    /\ syncInProgress' = FALSE
    /\ UNCHANGED <<Table, started, crashed>>

\* Mutation: the run waits until every worker has ended well.
EndRunAllWell(k) ==
    /\ runs[k].pc = "awaitWorkers"
    /\ IF \A w \in Workers : runs[k].workers[w].pc \in {"off", "ended"}
       THEN /\ Put(k, [runs[k] EXCEPT !.pc = "ended"])
            /\ syncInProgress' = FALSE
            /\ UNCHANGED <<Table, started, crashed>>
       ELSE UNCHANGED vars

\* Promise.all settles when every worker has ended, or at the first rejection.
EndRun(k) ==
    LET run == runs[k]
        rejected == \E w \in Workers : run.workers[w].pc = "rejected" IN
    /\ run.pc = "awaitWorkers"
    /\ rejected \/ \A w \in Workers : ~WorkerActive(run, w)
    /\ Put(k, [run EXCEPT !.pc = "ended", !.failed = @ \/ rejected])
    /\ syncInProgress' = FALSE
    /\ UNCHANGED <<Table, started, crashed>>

-----------------------------------------------------------------------------
(* Other requests, by hand: each edits a game once.                         *)

Edit(g) ==
    /\ g \in exists \ edited
    /\ Cardinality(edited) < MaxEdits
    /\ edited' = edited \cup {g}

\* deleteGame.
DeleteGame ==
    /\ \E g \in Games : Edit(g) /\ exists' = exists \ {g}
    /\ UNCHANGED <<bggId, cover, runs, Process>>

\* A game gets a bggId by hand, whatever run is under way.
GiveId(g, id) ==
    /\ Edit(g)
    /\ bggId' = [bggId EXCEPT ![g] = id]
    /\ runs' = [k \in Runs |->
            IF runs[k].pc \in {"download", "backfill"}
            THEN [runs[k] EXCEPT !.raced = @ \cup {g}] ELSE runs[k]]

\* connectBGGGameByName, for a game that has a bggId or has none: the step at
\* which bggUpdate writes what the search has found, with the cover that it has
\* downloaded, if any (module Games has it all).
ConnectGame ==
    /\ \E g \in Games :
        /\ GiveId(g, ByName[g])
        /\ \E image \in {None, IF EditionOf[g] = ByName[g] THEN g ELSE Default} :
                cover' = [cover EXCEPT ![g] = image]
    /\ UNCHANGED <<exists, Process>>

\* updateGame: the body may hold any bggId, or null.
EditGame ==
    /\ \E g \in Games, id \in HandIds : GiveId(g, id)
    /\ UNCHANGED <<exists, cover, Process>>

\* The calls to BoardGameGeek, which have no time limit.
Remote(k) == DownloadDump(k) \/ FetchBatch(k)

Local(k) ==
    \/ ListUnconnected(k) \/ Backfill(k) \/ StartWorkers(k)
    \/ ListGames(k) \/ NextBatch(k) \/ CountUnresolved(k) \/ EndRun(k)

Producer(k) == Remote(k) \/ Local(k)

Persist(k) == FindGame(k) \/ UpdateGame(k)

Drain(k, w) == TakeJob(k, w) \/ Download(k, w) \/ WriteCover(k, w)

Quiet ==
    /\ started = MaxRuns
    /\ \A k \in Runs : ~Active(runs[k])
    /\ UNCHANGED vars

Next ==
    \/ StartSyncAndConnect
    \/ \E k \in Runs : Producer(k) \/ Persist(k) \/ \E w \in Workers : Drain(k, w)
    \/ DeleteGame \/ ConnectGame \/ EditGame
    \/ Quiet

Spec == Init /\ [][Next]_vars

\* Timers fire, and every database call and every download of an image (which
\* has a time limit) settles.  A call to BoardGameGeek may never be answered.
FairSpec ==
    /\ Spec
    /\ \A k \in Runs : WF_vars(Local(k)) /\ WF_vars(Persist(k))
    /\ \A k \in Runs, w \in Workers : WF_vars(Drain(k, w))

-----------------------------------------------------------------------------
(***************************************************************************)
(* Two runs are active together only after the earlier one has failed: the *)
(* flag clears at the first rejection of a worker, and the other workers   *)
(* go on.                                                                  *)
(***************************************************************************)
OverlapAfterFailure ==
    \A j, k \in Runs : (j < k /\ Active(runs[j]) /\ Active(runs[k])) => runs[j].failed

(***************************************************************************)
(* A run that ends without a failure leaves no cover in its queue and no   *)
(* callback or worker behind.                                              *)
(***************************************************************************)
NothingLeftBehind ==
    \A k \in Runs :
        (runs[k].pc = "ended" /\ ~runs[k].failed) => runs[k].queue = <<>> /\ ~Active(runs[k])

(***************************************************************************)
(* The cover of an edition is given only to games of the item it is an     *)
(* edition of, through the item object that the callbacks of a batch share *)
(* and the queue in which the covers wait; except to a game whose bggId    *)
(* was changed by hand, which a cover queued before then still reaches.    *)
(***************************************************************************)
CoverOfOwnItem ==
    \A g \in Games :
        cover[g] \in Versioned => EditionOf[cover[g]] = bggId[g] \/ g \in edited

(***************************************************************************)
(* The backfill gives a bggId to games that have none, and the one of a    *)
(* best match among the entries of the game's name (its year first, then   *)
(* the rank); it writes over a bggId only if somebody connected the game   *)
(* by hand since the run listed the games, seconds before.                 *)
(***************************************************************************)
BackfillFillsGaps ==
    [][\A k \in Runs, g \in Games :
        LET run == runs[k] IN
        (/\ run.pc = "backfill"
         /\ run.todo # runs'[k].todo
         /\ bggId'[g] # bggId[g]) =>
            /\ bggId[g] = None \/ g \in run.raced
            /\ bggId'[g] \in BestMatches(run.index[g], YearPublished[g])]_vars

\* The producer awaits the rank dump or the items of a batch.
AwaitsAnswer(k) ==
    runs[k].pc = "download" \/ (runs[k].pc = "fetch" /\ runs[k].todo # {})

(***************************************************************************)
(* Whatever fails, the flag clears and every worker of every run stops ('an *)
(* error mid-run would leave them polling forever'), unless one call to    *)
(* BoardGameGeek is never answered: then, and only then, the run stays.    *)
(***************************************************************************)
RunsEnd ==
    /\ syncInProgress ~> (~syncInProgress \/ \E k \in Runs : []AwaitsAnswer(k))
    /\ \A k \in Runs, w \in Workers :
        WorkerActive(runs[k], w) ~> (~WorkerActive(runs[k], w) \/ []AwaitsAnswer(k))

-----------------------------------------------------------------------------
\* 'A module-level syncInProgress flag guards against overlapping runs.'
RunsDoNotOverlap ==
    \A j, k \in Runs : (Active(runs[j]) /\ Active(runs[k])) => j = k

\* 'Fire-and-forget: do NOT await. Errors are logged; the flag always clears.'
ErrorsAreLogged == ~crashed
FlagAlwaysClears == syncInProgress ~> ~syncInProgress

\* 'If no bggVersionId is set, [...] the game's default thumbnail is used unchanged.'
DefaultCoverUnpinned ==
    \A g \in Games \ Versioned : cover[g] \in {None, Default}
=============================================================================
