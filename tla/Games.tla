------------------------------- MODULE Games --------------------------------
(***************************************************************************)
(* The BoardGameGeek client and the routes that write one game: connecting *)
(* a game by its name, syncing it again, editing and deleting it, next to  *)
(* the part of a bulk run that concerns the game.  GameSync has the bulk   *)
(* run itself.                                                             *)
(*                                                                         *)
(* All callers share one throttle, the delay that the bulk run keeps       *)
(* between its requests.  The BoardGameGeek API is external: it answers a  *)
(* call with what was asked for, or with "queued" (202), "rate limited"    *)
(* (429) or an error.  Every request reads its game, waits for calls that  *)
(* take seconds, and writes the game then.                                 *)
(***************************************************************************)
EXTENDS Integers, FiniteSets

CONSTANTS
    Requests,       \* the handlers that can be in flight together
    Games,
    BggIds,         \* the items of BoardGameGeek
    FirstId,        \* each game's bggId when the behaviour starts
    Editions,       \* the items that have the edition the games are pinned to
    None,           \* a column that is null, an answer without an item
    MaxRetries,     \* the retries of getWithRetry (4 in the code)
    MaxRequests,    \* bound: the requests that arrive in a behaviour
    MaxEdits        \* bound: the edits and deletions in a behaviour

ASSUME GamesAssumption ==
    /\ Games # {}
    /\ FirstId \in [Games -> BggIds \cup {None}]
    /\ Editions \subseteq BggIds
    /\ None \notin BggIds
    /\ {MaxRetries, MaxRequests, MaxEdits} \subseteq Nat

VARIABLES
    games,          \* the Game table
    throttleMs,     \* the delay that BoardGameGeekService recommends
    requests,       \* the local state of every handler
    received,       \* the requests received so far
    edits,          \* the edits and deletions so far
    calm            \* history: the successes since the last 429 or reset, up to 4

vars == <<games, throttleMs, requests, received, edits, calm>>

-----------------------------------------------------------------------------
BASE_DELAY_MS == 2000
MAX_DELAY_MS == 8000
DECAY_STEP_MS == 250

\* The thumbnail of an item, or that of the pinned edition of the item.
Image == [item : BggIds, edition : BOOLEAN]

NoImage == [item |-> None, edition |-> FALSE]

\* meta is the item that the columns filled from BoardGameGeek came from.
Game == [exists : BOOLEAN, bggId : BggIds \cup {None}, meta : BggIds \cup {None},
         cover : Image \cup {NoImage}, pinned : BOOLEAN]

Ops == {"connect", "sync", "bulk"}

PCs == {"idle", "lookup", "search", "reread", "list", "thing", "batch", "find", "image",
        "update", "writeCover"}

\* item is the bggId that is asked for and then the item that was answered,
\* thumbnail the image to download or downloaded.  raced is history: somebody else has
\* changed the game's bggId since the request arrived.
Request == [pc : PCs, op : Ops, game : Games, item : BggIds \cup {None}, attempt : Nat,
            thumbnail : Image \cup {NoImage}, raced : BOOLEAN]

TypeOK ==
    /\ games \in [Games -> Game]
    /\ throttleMs \in BASE_DELAY_MS .. MAX_DELAY_MS
    /\ requests \in [Requests -> Request]
    /\ \A r \in Requests :
        /\ requests[r].pc \in {"thing", "batch"} => requests[r].item # None
        /\ requests[r].pc = "image" => requests[r].thumbnail # NoImage
    /\ received \in 0 .. MaxRequests
    /\ edits \in 0 .. MaxEdits
    /\ calm \in 0 .. 4

Idle == [pc |-> "idle", op |-> "sync", game |-> CHOOSE g \in Games : TRUE, item |-> None,
         attempt |-> 0, thumbnail |-> NoImage, raced |-> FALSE]

InFlight(r) == requests[r].pc # "idle"

\* Request s, marked if it is for game g and the game's bggId changes to id.
Marked(s, g, id) ==
    [requests[s] EXCEPT !.raced =
        @ \/ (InFlight(s) /\ requests[s].game = g /\ id # games[g].bggId)]

Put(r, req) == requests' = [requests EXCEPT ![r] = req]

Answer(r) == Put(r, Idle)

\* Request r writes the row of its game and goes on as req; the other requests
\* for the game are marked when the bggId changes.
Write(r, row, req) ==
    LET g == requests[r].game IN
    /\ games' = [games EXCEPT ![g] = row]
    /\ requests' = [s \in Requests |->
            IF s = r THEN req ELSE Marked(s, g, row.bggId)]

Counters == UNCHANGED <<received, edits>>

-----------------------------------------------------------------------------
(* The throttle *)

\* Mutation: the delay is not capped.
NoteRateLimitedUncapped ==
    /\ throttleMs' = (3 * throttleMs + 1) \div 2
    /\ calm' = 0

\* Math.round(throttleMs * 1.5), capped.
NoteRateLimited ==
    LET raised == (3 * throttleMs + 1) \div 2 IN
    /\ throttleMs' = IF raised > MAX_DELAY_MS THEN MAX_DELAY_MS ELSE raised
    /\ calm' = 0

\* Mutation: the delay falls by half.
NoteSuccessHalved ==
    /\ throttleMs' = IF throttleMs \div 2 > BASE_DELAY_MS THEN throttleMs \div 2
                     ELSE BASE_DELAY_MS
    /\ calm' = IF calm < 4 THEN calm + 1 ELSE calm

NoteSuccess ==
    /\ throttleMs' = IF throttleMs - DECAY_STEP_MS > BASE_DELAY_MS
                     THEN throttleMs - DECAY_STEP_MS ELSE BASE_DELAY_MS
    /\ calm' = IF calm < 4 THEN calm + 1 ELSE calm

ResetThrottle ==
    /\ throttleMs' = BASE_DELAY_MS
    /\ calm' = 4

SameThrottle == UNCHANGED <<throttleMs, calm>>

-----------------------------------------------------------------------------
Init ==
    /\ games = [g \in Games |->
                [exists |-> TRUE, bggId |-> FirstId[g], meta |-> FirstId[g], pinned |-> FALSE,
                 cover |-> IF FirstId[g] = None THEN NoImage
                           ELSE [item |-> FirstId[g], edition |-> FALSE]]]
    /\ throttleMs = BASE_DELAY_MS
    /\ requests = [r \in Requests |-> Idle]
    /\ received = 0
    /\ edits = 0
    /\ calm = 4

Receive(r, op) ==
    /\ ~InFlight(r)
    /\ received < MaxRequests
    /\ received' = received + 1
    /\ \E g \in Games :
        Put(r, [Idle EXCEPT !.op = op, !.game = g,
                            !.pc = IF op = "bulk" THEN "list" ELSE "lookup"])
    /\ UNCHANGED <<games, edits>>

ReceiveConnect(r) == Receive(r, "connect") /\ SameThrottle

ReceiveSync(r) == Receive(r, "sync") /\ SameThrottle

\* One bulk run at a time, which resets the throttle first.
ReceiveBulk(r) ==
    /\ \A s \in Requests : InFlight(s) => requests[s].op # "bulk"
    /\ Receive(r, "bulk")
    /\ ResetThrottle

\* The controllers: a game that is missing, or has nothing to sync, ends here.
LookUp(r) ==
    LET req == requests[r] IN
    /\ req.pc = "lookup"
    /\ IF ~games[req.game].exists THEN Answer(r)
       ELSE IF req.op = "connect" THEN Put(r, [req EXCEPT !.pc = "search"])
       ELSE IF games[req.game].bggId = None THEN Answer(r)
       ELSE Put(r, [req EXCEPT !.pc = "reread"])
    /\ UNCHANGED games
    /\ SameThrottle
    /\ Counters

\* syncBGGGame reads the game again.
Reread(r) ==
    LET req == requests[r]
        game == games[req.game] IN
    /\ req.pc = "reread"
    /\ IF ~game.exists \/ game.bggId = None THEN Answer(r)
       ELSE Put(r, [req EXCEPT !.pc = "thing", !.item = game.bggId])
    /\ UNCHANGED games
    /\ SameThrottle
    /\ Counters

\* The bulk run lists the games that have a bggId, with their pins.
List(r) ==
    LET req == requests[r]
        game == games[req.game] IN
    /\ req.pc = "list"
    /\ IF ~game.exists \/ game.bggId = None THEN Answer(r)
       ELSE Put(r, [req EXCEPT !.pc = "batch", !.item = game.bggId,
                               !.thumbnail = [item |-> game.bggId,
                                              edition |-> game.pinned /\ game.bggId \in Editions]])
    /\ UNCHANGED games
    /\ SameThrottle
    /\ Counters

-----------------------------------------------------------------------------
(* getWithRetry, and what its callers do with an answer and with an error.  *)

Calling(r) == requests[r].pc \in {"search", "thing", "batch"}

\* The first hit of a search; the item that was asked for, if there is one.
Answers(req) == IF req.pc = "search" THEN BggIds \cup {None} ELSE {req.item, None}

\* Mutation: the callback of the batch does not look whether there is an item.
AnsweredUnfound(req, item) ==
    CASE req.pc = "search" /\ item # None -> [req EXCEPT !.pc = "thing", !.item = item, !.attempt = 0]
      [] req.pc \in {"thing", "batch"} -> [req EXCEPT !.pc = "find", !.item = item, !.attempt = 0]
      [] OTHER -> Idle

\* A search without a hit ends the request; the batch passes over the game.
Answered(req, item) ==
    CASE req.pc = "search" /\ item # None -> [req EXCEPT !.pc = "thing", !.item = item, !.attempt = 0]
      [] req.pc = "thing" -> [req EXCEPT !.pc = "find", !.item = item, !.attempt = 0]
      [] req.pc = "batch" /\ item # None -> [req EXCEPT !.pc = "find", !.item = item, !.attempt = 0]
      [] OTHER -> Idle

GetSuccess(r) ==
    /\ Calling(r)
    /\ \E item \in Answers(requests[r]) : Put(r, Answered(requests[r], item))
    /\ NoteSuccess
    /\ UNCHANGED games
    /\ Counters

\* Mutation: the attempts start over after the last retry.
GetQueuedForever(r) ==
    LET req == requests[r] IN
    /\ Calling(r)
    /\ Put(r, [req EXCEPT !.attempt = (@ + 1) % (MaxRetries + 1)])
    /\ SameThrottle
    /\ UNCHANGED games
    /\ Counters

\* 202: after the last retry the answer, which holds no item, is returned.
GetQueued(r) ==
    LET req == requests[r] IN
    /\ Calling(r)
    /\ Put(r, IF req.attempt < MaxRetries THEN [req EXCEPT !.attempt = @ + 1]
              ELSE Answered(req, None))
    /\ SameThrottle
    /\ UNCHANGED games
    /\ Counters

\* 429: after the last retry the error is thrown.
GetRateLimited(r) ==
    LET req == requests[r] IN
    /\ Calling(r)
    /\ Put(r, IF req.attempt < MaxRetries THEN [req EXCEPT !.attempt = @ + 1] ELSE Idle)
    /\ NoteRateLimited
    /\ UNCHANGED games
    /\ Counters

\* Any other error, or an answer that cannot be parsed; the batch is empty then.
GetError(r) ==
    /\ Calling(r)
    /\ Answer(r)
    /\ NoteSuccess \/ SameThrottle
    /\ UNCHANGED games
    /\ Counters

-----------------------------------------------------------------------------
(* bggUpdate.  The bulk run defers the image: it queues it after the update *)
(* and a worker writes it.                                                  *)

Deferred(req) == req.op = "bulk"

\* Mutation: the image is taken of the item the game had.
FindGameOldImage(r) ==
    LET req == requests[r]
        game == games[req.game] IN
    /\ req.pc = "find"
    /\ IF ~game.exists /\ Deferred(req) THEN Put(r, [req EXCEPT !.pc = "image"])
       ELSE IF ~game.exists \/ (req.item = None /\ game.pinned) THEN Answer(r)
       ELSE IF Deferred(req) \/ req.item = None \/ game.bggId = None
            THEN Put(r, [req EXCEPT !.pc = "update"])
       ELSE Put(r, [req EXCEPT !.pc = "image",
                               !.thumbnail = [item |-> game.bggId, edition |-> FALSE]])
    /\ UNCHANGED games
    /\ SameThrottle
    /\ Counters

\* Without an item the look at its versions throws for a pinned game, and there
\* is no image to download for another one.  A game that is gone is not updated,
\* but the bulk run queues its image.
FindGame(r) ==
    LET req == requests[r]
        game == games[req.game] IN
    /\ req.pc = "find"
    /\ IF ~game.exists /\ Deferred(req) THEN Put(r, [req EXCEPT !.pc = "image"])
       ELSE IF ~game.exists \/ (req.item = None /\ game.pinned) THEN Answer(r)
       ELSE IF Deferred(req) \/ req.item = None THEN Put(r, [req EXCEPT !.pc = "update"])
       ELSE Put(r, [req EXCEPT !.pc = "image",
                               !.thumbnail = [item |-> req.item,
                                              edition |-> game.pinned /\ req.item \in Editions]])
    /\ UNCHANGED games
    /\ SameThrottle
    /\ Counters

\* What follows getImage, which returns null when it gives up.
WithImage(req, image) ==
    IF ~Deferred(req) THEN [req EXCEPT !.pc = "update", !.thumbnail = image]
    ELSE IF image = NoImage THEN Idle ELSE [req EXCEPT !.pc = "writeCover"]

\* getImage tries a few times, which changes nothing here; an address that is not
\* allowed fails the request, and is passed over by the worker.
GetImage(r) ==
    LET req == requests[r] IN
    /\ req.pc = "image"
    /\ \/ Put(r, WithImage(req, req.thumbnail))
       \/ Put(r, WithImage(req, NoImage))
       \/ Answer(r)
    /\ UNCHANGED games
    /\ SameThrottle
    /\ Counters

\* The columns of the item, or null for each, and the image unless deferred.
Update(r) ==
    LET req == requests[r]
        game == games[req.game] IN
    /\ req.pc = "update"
    /\ IF ~game.exists THEN Answer(r) /\ UNCHANGED games
       ELSE Write(r, [game EXCEPT !.bggId = req.item, !.meta = req.item,
                                  !.cover = IF Deferred(req) THEN @ ELSE req.thumbnail],
                  IF Deferred(req) THEN [req EXCEPT !.pc = "image"] ELSE Idle)
    /\ SameThrottle
    /\ Counters

WriteCover(r) ==
    LET req == requests[r] IN
    /\ req.pc = "writeCover"
    /\ games' = IF games[req.game].exists
                THEN [games EXCEPT ![req.game].cover = req.thumbnail] ELSE games
    /\ Answer(r)
    /\ SameThrottle
    /\ Counters

\* A call to the database fails, and the request with it.
Fail(r) ==
    /\ InFlight(r)
    /\ ~Calling(r)
    /\ requests[r].pc # "image"
    /\ Answer(r)
    /\ UNCHANGED games
    /\ SameThrottle
    /\ Counters

-----------------------------------------------------------------------------
\* PUT :id, by hand: the bggId and the pinned edition.
EditGame(g) ==
    /\ edits < MaxEdits
    /\ games[g].exists
    /\ edits' = edits + 1
    /\ \E id \in BggIds \cup {None}, pinned \in BOOLEAN :
        /\ games' = [games EXCEPT ![g].bggId = id, ![g].pinned = pinned]
        /\ requests' = [s \in Requests |-> Marked(s, g, id)]
    /\ SameThrottle
    /\ UNCHANGED received

DeleteGame(g) ==
    /\ edits < MaxEdits
    /\ games[g].exists
    /\ edits' = edits + 1
    /\ games' = [games EXCEPT ![g].exists = FALSE]
    /\ UNCHANGED <<requests, received>>
    /\ SameThrottle

-----------------------------------------------------------------------------
Get(r) == GetSuccess(r) \/ GetQueued(r) \/ GetRateLimited(r) \/ GetError(r)

Local(r) ==
    \/ LookUp(r) \/ Reread(r) \/ List(r)
    \/ FindGame(r) \/ GetImage(r) \/ Update(r) \/ WriteCover(r)

Step(r) == Get(r) \/ Local(r)

Next ==
    \/ \E r \in Requests :
        ReceiveConnect(r) \/ ReceiveSync(r) \/ ReceiveBulk(r) \/ Step(r) \/ Fail(r)
    \/ \E g \in Games : EditGame(g) \/ DeleteGame(g)

Spec == Init /\ [][Next]_vars

\* Every database call settles, and so does the download of an image, which has
\* a time limit.  The calls of getWithRetry have none: they may never be answered.
FairSpec == Spec /\ \A r \in Requests : WF_vars(Local(r))

-----------------------------------------------------------------------------
(* Properties *)

\* AIMD: after a 429 the shared delay stays above the baseline until there have
\* been four successes or a reset, whichever callers they come from.
SlowAfterLimit == calm < 4 => throttleMs > BASE_DELAY_MS

\* Syncing a game again, alone or in a bulk run, leaves it connected to the item
\* that it was connected to, unless the bggId has been changed meanwhile; alone,
\* it loses the bggId when BoardGameGeek answers without an item.
SyncKeepsId ==
    [][\A r \in Requests :
        LET req == requests[r] IN
        req.pc = "update" /\ req.op # "connect" /\ requests'[r].pc # "update" =>
            \/ games'[req.game].bggId = games[req.game].bggId
            \/ req.raced
            \/ req.op = "sync" /\ req.item = None]_vars

\* A cover is written for the item that the game is connected to, although the
\* calls that fetch the item and the image lie between the read and the write,
\* unless the bggId has been changed meanwhile.
NewCoverOfItem ==
    [][\A r \in Requests :
        LET req == requests[r]
            cover == games'[req.game].cover IN
        req.pc \in {"update", "writeCover"} /\ requests'[r].pc # req.pc =>
            \/ cover \in {games[req.game].cover, NoImage}
            \/ cover.item = games'[req.game].bggId
            \/ req.raced]_vars

\* BOARDGAMEGEEK.md: when an image cannot be downloaded the existing coverArt is
\* left untouched.  bggUpdate writes the null that getImage has returned.
CoverKept ==
    [][\A g \in Games : games[g].cover # NoImage => games'[g].cover # NoImage]_vars

\* Request r awaits an answer of BoardGameGeek to the same attempt.
Awaits(r, attempt) == Calling(r) /\ requests[r].attempt = attempt

\* Every request is answered, whatever BoardGameGeek answers: the retries of the
\* client and of the images end, and nothing but one call that is never answered
\* keeps a request for good.
RequestsSettle ==
    \A r \in Requests :
        InFlight(r) ~> (~InFlight(r) \/ \E n \in 0 .. MaxRetries : []Awaits(r, n))
=============================================================================
