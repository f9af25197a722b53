---------------------------- MODULE GamesProofs ----------------------------
(***************************************************************************)
(* Theorems about module Games, for any requests, games, items and edits,  *)
(* any answers of BoardGameGeek and any number of retries.                 *)
(***************************************************************************)
EXTENDS Games, TLAPS

-----------------------------------------------------------------------------
(* The inductive invariant.                                                 *)

GamesTypes ==
    /\ games \in [Games -> Game]
    /\ requests \in [Requests -> Request]
    /\ received \in 0 .. MaxRequests
    /\ edits \in 0 .. MaxEdits

\* A 429 raises the delay by half at least, and each success takes one step off.
ThrottleInv ==
    /\ throttleMs \in BASE_DELAY_MS .. MAX_DELAY_MS
    /\ calm \in 0 .. 4
    /\ calm < 4 => throttleMs >= 3000 - calm * DECAY_STEP_MS

\* An image of the item that the request is about.
Pictures(thumbnail, item) == item # None /\ thumbnail # NoImage /\ thumbnail.item = item

\* What a request has in hand at its stage: a bulk run takes the item and its
\* image from the list, the other requests the image once they have the item.
Stage(req) ==
    /\ req.pc \in {"list", "batch", "writeCover"} => req.op = "bulk"
    /\ req.pc \in {"lookup", "search", "reread", "thing"} => req.op # "bulk"
    /\ req.pc = "search" => req.op = "connect"
    /\ req.pc = "reread" => req.op = "sync"
    /\ req.pc \in {"thing", "batch"} => req.item # None
    /\ req.op = "bulk" /\ req.pc \notin {"idle", "list"} => Pictures(req.thumbnail, req.item)
    /\ req.op # "bulk" /\ req.pc \notin {"image", "update"} => req.thumbnail = NoImage
    /\ req.op # "bulk" /\ req.pc = "image" => Pictures(req.thumbnail, req.item)
    /\ req.op # "bulk" /\ req.pc = "update" =>
            req.thumbnail = NoImage \/ Pictures(req.thumbnail, req.item)

\* The item of a request that syncs a game is the one the game is connected to,
\* while nobody else has changed that.
Kept(req) ==
    req.op # "connect" /\ req.pc \in {"thing", "batch", "find", "image", "update", "writeCover"} =>
        \/ req.raced
        \/ req.item = games[req.game].bggId
        \/ req.op = "sync" /\ req.item = None

GamesInv ==
    /\ GamesTypes
    /\ ThrottleInv
    /\ \A r \in Requests : Stage(requests[r]) /\ Kept(requests[r])

-----------------------------------------------------------------------------
(* The throttle.                                                            *)

LEMMA ThrottleSteps ==
    ASSUME ThrottleInv,
           NoteRateLimited \/ NoteSuccess \/ ResetThrottle \/ SameThrottle
    PROVE  ThrottleInv'
<1>1. CASE NoteRateLimited
  <2>1. throttleMs \in 2000 .. 8000 /\ calm' = 0
    BY <1>1 DEF ThrottleInv, NoteRateLimited, BASE_DELAY_MS, MAX_DELAY_MS
  <2>2. PICK raised \in Int : raised = (3 * throttleMs + 1) \div 2
    BY <2>1
  <2>3. raised >= 3000
    BY <2>1, <2>2
  <2>4. throttleMs' = IF raised > 8000 THEN 8000 ELSE raised
    BY <1>1, <2>2 DEF NoteRateLimited, MAX_DELAY_MS
  <2>5. throttleMs' \in 3000 .. 8000
    BY <2>3, <2>4
  <2>6. /\ throttleMs' \in BASE_DELAY_MS .. MAX_DELAY_MS
        /\ calm' \in 0 .. 4
    BY <2>1, <2>5 DEF BASE_DELAY_MS, MAX_DELAY_MS
  <2>7. throttleMs' >= 3000 - calm' * DECAY_STEP_MS
    BY <2>1, <2>5 DEF DECAY_STEP_MS
  <2>8. QED
    BY <2>6, <2>7 DEF ThrottleInv
<1>2. CASE NoteSuccess
  BY <1>2 DEF ThrottleInv, NoteSuccess, BASE_DELAY_MS, MAX_DELAY_MS, DECAY_STEP_MS
<1>3. CASE ResetThrottle
  BY <1>3 DEF ThrottleInv, ResetThrottle, BASE_DELAY_MS, MAX_DELAY_MS, DECAY_STEP_MS
<1>4. CASE SameThrottle
  BY <1>4 DEF ThrottleInv, SameThrottle
<1>5. QED
  BY <1>1, <1>2, <1>3, <1>4

-----------------------------------------------------------------------------
(* A step of one request.                                                   *)

LEMMA RequestTypes ==
    ASSUME GamesInv, NEW r \in Requests
    PROVE  requests[r] \in Request /\ Stage(requests[r]) /\ Kept(requests[r])
  BY DEF GamesInv, GamesTypes

LEMMA IdleIsRequest ==
    Idle \in Request /\ Idle.pc = "idle" /\ Idle.op = "sync" /\ Idle.thumbnail = NoImage
<1>1. PICK g \in Games : g = CHOOSE x \in Games : TRUE
  BY GamesAssumption
<1>2. PICK idle : idle = [pc |-> "idle", op |-> "sync", game |-> g, item |-> None,
                          attempt |-> 0, thumbnail |-> NoImage, raced |-> FALSE]
  OBVIOUS
<1>3. idle \in Request /\ idle.pc = "idle" /\ idle.op = "sync" /\ idle.thumbnail = NoImage
  BY <1>2 DEF Request, PCs, Ops
<1>4. idle = Idle
  BY <1>1, <1>2 DEF Idle
<1>5. QED
  BY <1>3, <1>4

LEMMA IdleIsKept == Stage(Idle) /\ Kept(Idle)
  BY IdleIsRequest DEF Stage, Kept

\* The request goes on and writes no game.
LEMMA PutStep ==
    ASSUME GamesInv, ThrottleInv', NEW r \in Requests, NEW q \in Request, Put(r, q),
           Stage(q), Kept(q), UNCHANGED <<games, edits>>, received' \in 0 .. MaxRequests
    PROVE  GamesInv'
<1>1. requests' \in [Requests -> Request]
  BY DEF GamesInv, GamesTypes, Put
<1>2. \A s \in Requests : Stage(requests'[s]) /\ Kept(requests'[s])
  BY DEF GamesInv, GamesTypes, Put
<1>3. QED
  BY <1>1, <1>2 DEF GamesInv, GamesTypes, Stage, Kept

LEMMA AnswerStep ==
    ASSUME GamesInv, ThrottleInv', NEW r \in Requests, Answer(r),
           UNCHANGED games, Counters
    PROVE  GamesInv'
<1>1. received' \in 0 .. MaxRequests /\ UNCHANGED <<games, edits>>
  BY DEF Counters, GamesInv, GamesTypes
<1>2. Put(r, Idle)
  BY DEF Answer
<1>3. QED
  BY <1>1, <1>2, IdleIsRequest, IdleIsKept, PutStep

\* A request that goes on with the same counters.
LEMMA GoOn ==
    ASSUME GamesInv, ThrottleInv', NEW r \in Requests, NEW q \in Request, Put(r, q),
           Stage(q), Kept(q), UNCHANGED games, Counters
    PROVE  GamesInv'
<1>1. received' \in 0 .. MaxRequests /\ UNCHANGED <<games, edits>>
  BY DEF Counters, GamesInv, GamesTypes
<1>2. QED
  BY <1>1, PutStep

LEMMA ReceiveInv ==
    ASSUME GamesInv, NEW r \in Requests, ReceiveConnect(r) \/ ReceiveSync(r) \/ ReceiveBulk(r)
    PROVE  GamesInv'
<1>1. PICK op \in Ops : Receive(r, op)
  BY DEF ReceiveConnect, ReceiveSync, ReceiveBulk, Ops
<1>2. ThrottleInv'
  BY ThrottleSteps DEF GamesInv, ReceiveConnect, ReceiveSync, ReceiveBulk
<1>3. received' \in 0 .. MaxRequests /\ UNCHANGED <<games, edits>>
  BY <1>1, GamesAssumption DEF Receive, GamesInv, GamesTypes
<1>4. PICK g, q : /\ g \in Games /\ Put(r, q)
                  /\ q = [Idle EXCEPT !.op = op, !.game = g,
                              !.pc = IF op = "bulk" THEN "list" ELSE "lookup"]
  BY <1>1 DEF Receive
<1>5. /\ q \in Request /\ q.op = op /\ q.pc = IF op = "bulk" THEN "list" ELSE "lookup"
      /\ q.thumbnail = NoImage
  BY <1>4, IdleIsRequest DEF Request, PCs
<1>6. Stage(q) /\ Kept(q)
  BY <1>5 DEF Stage, Kept
<1>7. QED
  BY <1>2, <1>3, <1>4, <1>5, <1>6, PutStep

LEMMA LookUpInv ==
    ASSUME GamesInv, ThrottleInv', NEW r \in Requests, LookUp(r)
    PROVE  GamesInv'
<1>1. PICK req \in Request : req = requests[r] /\ Stage(req) /\ Kept(req) /\ req.pc = "lookup"
  BY RequestTypes DEF LookUp
<1>2. UNCHANGED games /\ Counters
  BY DEF LookUp
<1>3. ASSUME NEW pc \in {"search", "reread"}, Put(r, [req EXCEPT !.pc = pc]),
             pc = "search" <=> req.op = "connect"
      PROVE  GamesInv'
  <2>1. PICK q : q = [req EXCEPT !.pc = pc]
    OBVIOUS
  <2>2. /\ q \in Request /\ q.pc = pc /\ q.op = req.op /\ q.thumbnail = req.thumbnail
        /\ q.op \in Ops
    BY <2>1 DEF Request, PCs
  <2>3. Stage(q) /\ Kept(q)
    BY <1>1, <1>3, <2>2 DEF Stage, Kept, Ops
  <2>4. QED
    BY <1>2, <1>3, <2>1, <2>2, <2>3, GoOn
<1>4. QED
  BY <1>1, <1>2, <1>3, AnswerStep DEF LookUp

LEMMA RereadInv ==
    ASSUME GamesInv, ThrottleInv', NEW r \in Requests, Reread(r)
    PROVE  GamesInv'
<1>1. PICK req \in Request : req = requests[r] /\ Stage(req) /\ Kept(req) /\ req.pc = "reread"
  BY RequestTypes DEF Reread
<1>2. UNCHANGED games /\ Counters
  BY DEF Reread
<1>3. games[req.game].bggId \in BggIds \cup {None}
  BY DEF GamesInv, GamesTypes, Game, Request
<1>4. PICK q : q = [req EXCEPT !.pc = "thing", !.item = games[req.game].bggId]
  OBVIOUS
<1>5. /\ q \in Request /\ q.pc = "thing" /\ q.op = req.op /\ q.thumbnail = req.thumbnail
      /\ q.item = games[q.game].bggId
  BY <1>3, <1>4 DEF Request, PCs
<1>6. Answer(r) \/ (Put(r, q) /\ q.item # None)
  BY <1>1, <1>4, <1>5 DEF Reread, Request
<1>7. q.item # None => Stage(q) /\ Kept(q)
  BY <1>1, <1>5 DEF Stage, Kept
<1>8. QED
  BY <1>2, <1>5, <1>6, <1>7, AnswerStep, GoOn

LEMMA ListInv ==
    ASSUME GamesInv, ThrottleInv', NEW r \in Requests, List(r)
    PROVE  GamesInv'
<1>1. PICK req \in Request : req = requests[r] /\ Stage(req) /\ Kept(req) /\ req.pc = "list"
  BY RequestTypes DEF List
<1>2. UNCHANGED games /\ Counters
  BY DEF List
<1>3. PICK game \in Game : game = games[req.game]
  BY DEF GamesInv, GamesTypes, Request
<1>4. PICK edition \in BOOLEAN : edition <=> (game.pinned /\ game.bggId \in Editions)
  OBVIOUS
<1>5. edition = (game.pinned /\ game.bggId \in Editions)
  BY <1>4, Zenon DEF Game
<1>6. SUFFICES ASSUME ~Answer(r) PROVE GamesInv'
  BY <1>2, AnswerStep
<1>7. PICK thumbnail : thumbnail = [item |-> game.bggId, edition |-> edition]
  OBVIOUS
<1>8. PICK q : q = [req EXCEPT !.pc = "batch", !.item = game.bggId, !.thumbnail = thumbnail]
  OBVIOUS
<1>9. Put(r, q) /\ game.bggId # None
  BY <1>1, <1>3, <1>5, <1>6, <1>7, <1>8 DEF List
<1>10. thumbnail \in Image /\ Pictures(thumbnail, game.bggId)
  BY <1>7, <1>9 DEF Image, Game, NoImage, Pictures
<1>11. /\ q \in Request /\ q.pc = "batch" /\ q.op = req.op /\ q.thumbnail = thumbnail
       /\ q.item = game.bggId /\ q.game = req.game
  BY <1>8, <1>10 DEF Request, PCs, Game
<1>12. Stage(q) /\ Kept(q)
  BY <1>1, <1>3, <1>9, <1>10, <1>11 DEF Stage, Kept
<1>13. QED
  BY <1>2, <1>9, <1>11, <1>12, GoOn

\* What follows an answer of BoardGameGeek.
LEMMA AnsweredIs ==
    ASSUME NEW req \in Request, Stage(req), Kept(req), req.pc \in {"search", "thing", "batch"},
           NEW item \in Answers(req) \cup {None}
    PROVE  LET q == Answered(req, item) IN q \in Request /\ Stage(q) /\ Kept(q)
<1>1. item \in BggIds \cup {None}
  BY DEF Answers, Request
<1>2. CASE req.pc = "search" /\ item # None
  <2>1. PICK q : q = [req EXCEPT !.pc = "thing", !.item = item, !.attempt = 0]
    OBVIOUS
  <2>2. /\ q \in Request /\ q.pc = "thing" /\ q.op = req.op /\ q.thumbnail = req.thumbnail
        /\ q.item = item
    BY <1>1, <2>1 DEF Request, PCs
  <2>3. Stage(q) /\ Kept(q)
    BY <1>2, <2>2 DEF Stage, Kept
  <2>4. q = Answered(req, item)
    BY <1>2, <2>1 DEF Answered
  <2>5. QED
    BY <2>2, <2>3, <2>4
<1>3. CASE req.pc = "thing" \/ (req.pc = "batch" /\ item # None)
  <2>1. PICK q : q = [req EXCEPT !.pc = "find", !.item = item, !.attempt = 0]
    OBVIOUS
  <2>2. /\ q \in Request /\ q.pc = "find" /\ q.op = req.op /\ q.thumbnail = req.thumbnail
        /\ q.item = item /\ q.raced = req.raced /\ q.game = req.game /\ req.op \in Ops
    BY <1>1, <2>1 DEF Request, PCs
  <2>3. item = req.item \/ item = None
    BY <1>3 DEF Answers
  <2>4. Stage(q)
    BY <1>3, <2>2, <2>3 DEF Stage
  <2>5. Kept(q)
    BY <1>3, <2>2, <2>3 DEF Kept, Stage, Ops
  <2>6. q = Answered(req, item)
    BY <1>3, <2>1 DEF Answered
  <2>7. QED
    BY <2>2, <2>4, <2>5, <2>6
<1>4. CASE item = None /\ req.pc \in {"search", "batch"}
  <2>1. Answered(req, item) = Idle
    BY <1>4 DEF Answered
  <2>2. QED
    BY <2>1, IdleIsRequest, IdleIsKept
<1>5. QED
  BY <1>2, <1>3, <1>4

LEMMA GetInv ==
    ASSUME GamesInv, ThrottleInv', NEW r \in Requests, Get(r)
    PROVE  GamesInv'
<1>1. PICK req \in Request : /\ req = requests[r] /\ Stage(req) /\ Kept(req)
                             /\ req.pc \in {"search", "thing", "batch"}
  BY RequestTypes DEF Get, GetSuccess, GetQueued, GetRateLimited, GetError, Calling
<1>2. UNCHANGED games /\ Counters
  BY DEF Get, GetSuccess, GetQueued, GetRateLimited, GetError
<1>3. CASE GetSuccess(r)
  <2>1. PICK item \in Answers(req) : Put(r, Answered(req, item))
    BY <1>1, <1>3 DEF GetSuccess
  <2>2. QED
    BY <1>1, <1>2, <2>1, AnsweredIs, GoOn
<1>4. ASSUME Put(r, [req EXCEPT !.attempt = @ + 1]) PROVE GamesInv'
  <2>1. PICK q : q = [req EXCEPT !.attempt = @ + 1]
    OBVIOUS
  <2>2. /\ q \in Request /\ q.pc = req.pc /\ q.op = req.op /\ q.thumbnail = req.thumbnail
        /\ q.item = req.item /\ q.raced = req.raced /\ q.game = req.game
    BY <2>1 DEF Request
  <2>3. Stage(q) /\ Kept(q)
    BY <1>1, <2>2 DEF Stage, Kept
  <2>4. QED
    BY <1>2, <1>4, <2>1, <2>2, <2>3, GoOn
<1>5. CASE GetQueued(r)
  <2>1. CASE Put(r, Answered(req, None))
    BY <1>1, <1>2, <2>1, AnsweredIs, GoOn
  <2>2. QED
    BY <1>1, <1>4, <1>5, <2>1 DEF GetQueued
<1>6. CASE GetRateLimited(r)
  BY <1>1, <1>2, <1>4, <1>6, AnswerStep DEF GetRateLimited, Answer
<1>7. CASE GetError(r)
  BY <1>2, <1>7, AnswerStep DEF GetError
<1>8. QED
  BY <1>3, <1>5, <1>6, <1>7 DEF Get

LEMMA FindGameInv ==
    ASSUME GamesInv, ThrottleInv', NEW r \in Requests, FindGame(r)
    PROVE  GamesInv'
<1>1. PICK req \in Request : req = requests[r] /\ Stage(req) /\ Kept(req) /\ req.pc = "find"
  BY RequestTypes DEF FindGame
<1>2. UNCHANGED games /\ Counters
  BY DEF FindGame
<1>3. PICK game \in Game : game = games[req.game]
  BY DEF GamesInv, GamesTypes, Request
<1>4. PICK edition \in BOOLEAN : edition <=> (game.pinned /\ req.item \in Editions)
  OBVIOUS
<1>5. edition = (game.pinned /\ req.item \in Editions)
  BY <1>4, Zenon DEF Game
<1>6. PICK thumbnail : thumbnail = [item |-> req.item, edition |-> edition]
  OBVIOUS
<1>7. CASE Deferred(req) /\ Put(r, [req EXCEPT !.pc = "image"])
  <2>1. PICK q : q = [req EXCEPT !.pc = "image"]
    OBVIOUS
  <2>2. /\ q \in Request /\ q.pc = "image" /\ q.op = req.op /\ q.thumbnail = req.thumbnail
        /\ q.item = req.item /\ q.raced = req.raced /\ q.game = req.game
    BY <2>1 DEF Request, PCs
  <2>3. Stage(q) /\ Kept(q)
    BY <1>1, <1>7, <2>2 DEF Stage, Kept, Deferred
  <2>4. QED
    BY <1>2, <1>7, <2>1, <2>2, <2>3, GoOn
<1>8. CASE Put(r, [req EXCEPT !.pc = "update"])
  <2>1. PICK q : q = [req EXCEPT !.pc = "update"]
    OBVIOUS
  <2>2. /\ q \in Request /\ q.pc = "update" /\ q.op = req.op /\ q.thumbnail = req.thumbnail
        /\ q.item = req.item /\ q.raced = req.raced /\ q.game = req.game
    BY <2>1 DEF Request, PCs
  <2>3. Stage(q) /\ Kept(q)
    BY <1>1, <2>2 DEF Stage, Kept
  <2>4. QED
    BY <1>2, <1>8, <2>1, <2>2, <2>3, GoOn
<1>9. CASE /\ ~Deferred(req) /\ req.item # None
           /\ Put(r, [req EXCEPT !.pc = "image", !.thumbnail = thumbnail])
  <2>1. PICK q : q = [req EXCEPT !.pc = "image", !.thumbnail = thumbnail]
    OBVIOUS
  <2>2. thumbnail \in Image /\ Pictures(thumbnail, req.item)
    BY <1>6, <1>9 DEF Image, Request, NoImage, Pictures
  <2>3. /\ q \in Request /\ q.pc = "image" /\ q.op = req.op /\ q.thumbnail = thumbnail
        /\ q.item = req.item /\ q.raced = req.raced /\ q.game = req.game
    BY <2>1, <2>2 DEF Request, PCs
  <2>4. Stage(q) /\ Kept(q)
    BY <1>1, <1>9, <2>2, <2>3 DEF Stage, Kept, Deferred
  <2>5. QED
    BY <1>2, <1>9, <2>1, <2>3, <2>4, GoOn
<1>10. CASE Answer(r)
  BY <1>2, <1>10, AnswerStep
<1>11. QED
  BY <1>1, <1>3, <1>5, <1>6, <1>7, <1>8, <1>9, <1>10 DEF FindGame

LEMMA GetImageInv ==
    ASSUME GamesInv, ThrottleInv', NEW r \in Requests, GetImage(r)
    PROVE  GamesInv'
<1>1. PICK req \in Request : req = requests[r] /\ Stage(req) /\ Kept(req) /\ req.pc = "image"
  BY RequestTypes DEF GetImage
<1>2. UNCHANGED games /\ Counters
  BY DEF GetImage
<1>3. ASSUME NEW image, image = req.thumbnail \/ image = NoImage, Put(r, WithImage(req, image))
      PROVE  GamesInv'
  <2>1. CASE ~Deferred(req)
    <3>1. PICK q : q = [req EXCEPT !.pc = "update", !.thumbnail = image]
      OBVIOUS
    <3>2. /\ q \in Request /\ q.pc = "update" /\ q.op = req.op /\ q.thumbnail = image
          /\ q.item = req.item /\ q.raced = req.raced /\ q.game = req.game
      BY <1>3, <3>1 DEF Request, PCs
    <3>3. Stage(q) /\ Kept(q)
      BY <1>1, <1>3, <2>1, <3>2 DEF Stage, Kept, Deferred
    <3>4. q = WithImage(req, image)
      BY <2>1, <3>1 DEF WithImage
    <3>5. QED
      BY <1>2, <1>3, <3>2, <3>3, <3>4, GoOn
  <2>2. CASE Deferred(req) /\ image # NoImage
    <3>1. PICK q : q = [req EXCEPT !.pc = "writeCover"]
      OBVIOUS
    <3>2. /\ q \in Request /\ q.pc = "writeCover" /\ q.op = req.op
          /\ q.thumbnail = req.thumbnail
          /\ q.item = req.item /\ q.raced = req.raced /\ q.game = req.game
      BY <3>1 DEF Request, PCs
    <3>3. Stage(q) /\ Kept(q)
      BY <1>1, <2>2, <3>2 DEF Stage, Kept, Deferred
    <3>4. q = WithImage(req, image)
      BY <2>2, <3>1 DEF WithImage
    <3>5. QED
      BY <1>2, <1>3, <3>2, <3>3, <3>4, GoOn
  <2>3. CASE Deferred(req) /\ image = NoImage
    BY <1>2, <1>3, <2>3, AnswerStep DEF WithImage, Answer
  <2>4. QED
    BY <2>1, <2>2, <2>3
<1>4. QED
  BY <1>1, <1>2, <1>3, AnswerStep DEF GetImage

\* The other requests, when the bggId of a game is changed.
LEMMA MarkedIs ==
    ASSUME GamesInv, NEW s \in Requests, NEW g \in Games, NEW id
    PROVE  LET q == Marked(s, g, id) IN
           /\ q \in Request /\ Stage(q)
           /\ q.pc = requests[s].pc /\ q.op = requests[s].op /\ q.item = requests[s].item
           /\ q.game = requests[s].game /\ q.thumbnail = requests[s].thumbnail
           /\ requests[s].raced => q.raced
           /\ InFlight(s) /\ requests[s].game = g /\ id # games[g].bggId => q.raced
<1>1. PICK req \in Request : req = requests[s] /\ Stage(req)
  BY RequestTypes
<1>2. PICK mark \in BOOLEAN :
        mark <=> (req.raced \/ (InFlight(s) /\ requests[s].game = g /\ id # games[g].bggId))
  OBVIOUS
<1>3. mark = (req.raced \/ (InFlight(s) /\ requests[s].game = g /\ id # games[g].bggId))
  BY <1>2, Zenon DEF Request
<1>4. PICK q : q = [req EXCEPT !.raced = mark]
  OBVIOUS
<1>5. q = Marked(s, g, id)
  BY <1>1, <1>3, <1>4 DEF Marked
<1>6. /\ q \in Request /\ q.pc = req.pc /\ q.op = req.op /\ q.item = req.item
      /\ q.game = req.game /\ q.thumbnail = req.thumbnail /\ q.raced = mark
  BY <1>4 DEF Request
<1>7. Stage(q)
  BY <1>1, <1>6 DEF Stage
<1>8. QED
  BY <1>1, <1>2, <1>5, <1>6, <1>7

\* A row is written with bggId id, and the others marked.
LEMMA RowStep ==
    ASSUME GamesInv, NEW g \in Games, NEW row \in Game,
           games' = [games EXCEPT ![g] = row], NEW s \in Requests,
           requests'[s] = Marked(s, g, row.bggId)
    PROVE  requests'[s] \in Request /\ Stage(requests'[s]) /\ Kept(requests[s])'
<1>1. Kept(requests[s])
  BY RequestTypes
<1>2. PICK q : q = Marked(s, g, row.bggId)
  OBVIOUS
<1>3. /\ q \in Request /\ Stage(q)
      /\ q.pc = requests[s].pc /\ q.op = requests[s].op /\ q.item = requests[s].item
      /\ q.game = requests[s].game
      /\ requests[s].raced => q.raced
      /\ InFlight(s) /\ requests[s].game = g /\ row.bggId # games[g].bggId => q.raced
  BY <1>2, MarkedIs
<1>4. \A h \in Games : games'[h] = IF h = g THEN row ELSE games[h]
  BY DEF GamesInv, GamesTypes
<1>5. q.game \in Games
  BY <1>3 DEF Request
<1>6. Kept(requests[s])'
  BY <1>1, <1>2, <1>3, <1>4, <1>5 DEF Kept, InFlight
<1>7. QED
  BY <1>2, <1>3, <1>6

LEMMA UpdateInv ==
    ASSUME GamesInv, ThrottleInv', NEW r \in Requests, Update(r)
    PROVE  GamesInv'
<1>1. PICK req \in Request : req = requests[r] /\ Stage(req) /\ Kept(req) /\ req.pc = "update"
  BY RequestTypes DEF Update
<1>2. Counters
  BY DEF Update
<1>3. PICK game \in Game : game = games[req.game]
  BY DEF GamesInv, GamesTypes, Request
<1>4. CASE Answer(r) /\ UNCHANGED games
  BY <1>2, <1>4, AnswerStep
<1>5. ASSUME NEW cover \in Image \cup {NoImage}, NEW row, NEW q,
             row = [game EXCEPT !.bggId = req.item, !.meta = req.item, !.cover = cover],
             (Deferred(req) /\ q = [req EXCEPT !.pc = "image"]) \/ q = Idle,
             Write(r, row, q)
      PROVE  GamesInv'
  <2>1. row \in Game /\ row.bggId = req.item
    BY <1>5 DEF Game, Request
  <2>2. /\ games' = [games EXCEPT ![req.game] = row] /\ req.game \in Games
        /\ \A s \in Requests : s # r => requests'[s] = Marked(s, req.game, row.bggId)
        /\ requests'[r] = q /\ DOMAIN requests' = Requests
        /\ requests' = [s \in Requests |-> requests'[s]]
    BY <1>1, <1>5 DEF Write, Request
  <2>3. games' \in [Games -> Game]
    BY <2>1, <2>2 DEF GamesInv, GamesTypes
  <2>4. q \in Request /\ Stage(q) /\ Kept(q)'
    <3>1. CASE q = Idle
      BY <3>1, IdleIsRequest, IdleIsKept DEF Kept
    <3>2. CASE Deferred(req) /\ q = [req EXCEPT !.pc = "image"]
      <4>1. /\ q \in Request /\ q.pc = "image" /\ q.op = req.op /\ q.item = req.item
            /\ q.thumbnail = req.thumbnail /\ q.game = req.game
        BY <3>2 DEF Request, PCs
      <4>2. games'[q.game].bggId = q.item
        BY <2>1, <2>2, <4>1 DEF GamesInv, GamesTypes
      <4>3. QED
        BY <1>1, <3>2, <4>1, <4>2 DEF Stage, Kept, Deferred
    <3>3. QED
      BY <1>5, <3>1, <3>2
  <2>5. \A s \in Requests : requests'[s] \in Request /\ Stage(requests'[s]) /\ Kept(requests[s])'
    BY <2>1, <2>2, <2>4, RowStep
  <2>6. GamesTypes'
    BY <1>2, <2>2, <2>3, <2>5 DEF GamesInv, GamesTypes, Counters
  <2>7. QED
    BY <2>5, <2>6 DEF GamesInv, Stage
<1>6. PICK cover : cover = IF Deferred(req) THEN game.cover ELSE req.thumbnail
  OBVIOUS
<1>7. cover \in Image \cup {NoImage}
  BY <1>6 DEF Game, Request
<1>8. PICK row : row = [game EXCEPT !.bggId = req.item, !.meta = req.item, !.cover = cover]
  OBVIOUS
<1>9. row = [game EXCEPT !.bggId = req.item, !.meta = req.item,
                         !.cover = IF Deferred(req) THEN @ ELSE req.thumbnail]
  BY <1>6, <1>8 DEF Game
<1>10. PICK q : q = IF Deferred(req) THEN [req EXCEPT !.pc = "image"] ELSE Idle
  OBVIOUS
<1>11. (Answer(r) /\ UNCHANGED games) \/ Write(r, row, q)
  BY <1>1, <1>3, <1>9, <1>10 DEF Update
<1>12. QED
  BY <1>4, <1>5, <1>7, <1>8, <1>10, <1>11

\* A column of a game other than its bggId.
LEMMA SameIds ==
    ASSUME GamesInv, ThrottleInv', games' \in [Games -> Game],
           \A g \in Games : games'[g].bggId = games[g].bggId,
           received' \in 0 .. MaxRequests, edits' \in 0 .. MaxEdits,
           requests' = requests \/ \E r \in Requests : Answer(r)
    PROVE  GamesInv'
<1>1. \A req \in Request : Kept(req) => Kept(req)'
  BY DEF Kept, Request
<1>2. \A s \in Requests : requests'[s] = requests[s] \/ requests'[s] = Idle
  BY DEF Answer, Put, GamesInv, GamesTypes
<1>3. \A s \in Requests : requests'[s] \in Request /\ Stage(requests'[s]) /\ Kept(requests'[s])
  BY <1>2, RequestTypes, IdleIsRequest, IdleIsKept
<1>4. requests' \in [Requests -> Request]
  BY <1>3 DEF Answer, Put, GamesInv, GamesTypes
<1>5. ASSUME NEW s \in Requests PROVE Stage(requests[s])' /\ Kept(requests[s])'
  <2>1. PICK req \in Request : req = requests'[s]
    BY <1>3
  <2>2. Stage(req) /\ Kept(req)'
    BY <1>1, <1>3, <2>1
  <2>3. QED
    BY <2>1, <2>2 DEF Stage
<1>6. QED
  BY <1>4, <1>5 DEF GamesInv, GamesTypes

LEMMA WriteCoverInv ==
    ASSUME GamesInv, ThrottleInv', NEW r \in Requests, WriteCover(r)
    PROVE  GamesInv'
<1>1. PICK req \in Request : req = requests[r]
  BY RequestTypes
<1>2. PICK game \in Game : game = games[req.game] /\ req.game \in Games
  BY DEF GamesInv, GamesTypes, Request
<1>3. PICK row : row = [game EXCEPT !.cover = req.thumbnail]
  OBVIOUS
<1>4. row \in Game /\ row.bggId = game.bggId
  BY <1>3 DEF Game, Request
<1>5. games' = games \/ games' = [games EXCEPT ![req.game] = row]
  BY <1>1, <1>2, <1>3 DEF WriteCover, GamesInv, GamesTypes
<1>6. games' \in [Games -> Game] /\ \A g \in Games : games'[g].bggId = games[g].bggId
  BY <1>2, <1>4, <1>5 DEF GamesInv, GamesTypes
<1>7. received' \in 0 .. MaxRequests /\ edits' \in 0 .. MaxEdits
  BY DEF WriteCover, Counters, GamesInv, GamesTypes
<1>8. QED
  BY <1>6, <1>7, SameIds DEF WriteCover

LEMMA DeleteGameInv ==
    ASSUME GamesInv, ThrottleInv', NEW g \in Games, DeleteGame(g)
    PROVE  GamesInv'
<1>1. PICK game \in Game : game = games[g]
  BY DEF GamesInv, GamesTypes
<1>2. PICK row : row = [game EXCEPT !.exists = FALSE]
  OBVIOUS
<1>3. row \in Game /\ row.bggId = game.bggId
  BY <1>2 DEF Game
<1>4. games' = [games EXCEPT ![g] = row]
  BY <1>1, <1>2 DEF DeleteGame, GamesInv, GamesTypes
<1>5. games' \in [Games -> Game] /\ \A h \in Games : games'[h].bggId = games[h].bggId
  BY <1>1, <1>3, <1>4 DEF GamesInv, GamesTypes
<1>6. received' \in 0 .. MaxRequests /\ edits' \in 0 .. MaxEdits /\ requests' = requests
  BY GamesAssumption DEF DeleteGame, GamesInv, GamesTypes
<1>7. QED
  BY <1>5, <1>6, SameIds

LEMMA EditGameInv ==
    ASSUME GamesInv, ThrottleInv', NEW g \in Games, EditGame(g)
    PROVE  GamesInv'
<1>1. PICK id \in BggIds \cup {None}, pinned \in BOOLEAN :
        /\ games' = [games EXCEPT ![g].bggId = id, ![g].pinned = pinned]
        /\ requests' = [s \in Requests |-> Marked(s, g, id)]
  BY DEF EditGame
<1>2. PICK game \in Game : game = games[g]
  BY DEF GamesInv, GamesTypes
<1>3. PICK row : row = [game EXCEPT !.bggId = id, !.pinned = pinned]
  OBVIOUS
<1>4. row \in Game /\ row.bggId = id
  BY <1>3 DEF Game
<1>5. games' = [games EXCEPT ![g] = row]
  BY <1>1, <1>2, <1>3 DEF GamesInv, GamesTypes
<1>6. \A s \in Requests : requests'[s] \in Request /\ Stage(requests'[s]) /\ Kept(requests[s])'
  BY <1>1, <1>4, <1>5, RowStep
<1>7. requests' \in [Requests -> Request]
  BY <1>1, <1>6
<1>8. received' \in 0 .. MaxRequests /\ edits' \in 0 .. MaxEdits
  BY GamesAssumption DEF EditGame, GamesInv, GamesTypes
<1>9. GamesTypes'
  BY <1>4, <1>5, <1>7, <1>8 DEF GamesInv, GamesTypes
<1>10. QED
  BY <1>6, <1>9 DEF GamesInv, Stage

-----------------------------------------------------------------------------
LEMMA GamesInvInit == Init => GamesInv
<1>1. SUFFICES ASSUME Init PROVE GamesInv
  OBVIOUS
<1>2. games \in [Games -> Game]
  <2>1. SUFFICES ASSUME NEW g \in Games PROVE games[g] \in Game
    BY <1>1 DEF Init
  <2>2. FirstId[g] \in BggIds \cup {None}
    BY GamesAssumption
  <2>3. PICK cover : cover = IF FirstId[g] = None THEN NoImage
                             ELSE [item |-> FirstId[g], edition |-> FALSE]
    OBVIOUS
  <2>4. cover \in Image \cup {NoImage}
    BY <2>2, <2>3 DEF Image
  <2>5. games[g] = [exists |-> TRUE, bggId |-> FirstId[g], meta |-> FirstId[g],
                    pinned |-> FALSE, cover |-> cover]
    BY <1>1, <2>3 DEF Init
  <2>6. QED
    BY <2>2, <2>4, <2>5 DEF Game
<1>3. PICK idle \in Request : idle = Idle
  BY IdleIsRequest
<1>4. requests = [r \in Requests |-> idle]
  BY <1>1, <1>3 DEF Init
<1>5. received \in 0 .. MaxRequests /\ edits \in 0 .. MaxEdits
  BY <1>1, GamesAssumption DEF Init
<1>6. ThrottleInv
  BY <1>1 DEF Init, ThrottleInv, BASE_DELAY_MS, MAX_DELAY_MS
<1>7. GamesTypes
  BY <1>2, <1>4, <1>5 DEF GamesTypes
<1>8. QED
  BY <1>3, <1>4, <1>6, <1>7, IdleIsKept DEF GamesInv

LEMMA GamesInvNext == GamesInv /\ [Next]_vars => GamesInv'
<1>1. SUFFICES ASSUME GamesInv, [Next]_vars PROVE GamesInv'
  OBVIOUS
<1>2. ThrottleInv'
  <2>1. NoteRateLimited \/ NoteSuccess \/ ResetThrottle \/ SameThrottle
    BY <1>1 DEF Next, vars, SameThrottle, ReceiveConnect, ReceiveSync, ReceiveBulk, Step, Local,
                LookUp, Reread, List, Get, GetSuccess, GetQueued, GetRateLimited, GetError,
                FindGame, GetImage, Update, WriteCover, Fail, EditGame, DeleteGame
  <2>2. QED
    BY <1>1, <2>1, ThrottleSteps DEF GamesInv
<1>3. ASSUME NEW r \in Requests, Step(r) \/ Fail(r) PROVE GamesInv'
  BY <1>1, <1>2, <1>3, LookUpInv, RereadInv, ListInv, GetInv, FindGameInv, GetImageInv,
     UpdateInv, WriteCoverInv, AnswerStep DEF Step, Local, Fail
<1>4. CASE UNCHANGED vars
  <2>1. games' = games /\ requests' = requests /\ received' = received /\ edits' = edits
    BY <1>4 DEF vars
  <2>2. QED
    BY <1>1, <1>2, <2>1, SameIds DEF GamesInv, GamesTypes
<1>5. QED
  BY <1>1, <1>2, <1>3, <1>4, ReceiveInv, EditGameInv, DeleteGameInv DEF Next

THEOREM GamesInvariance == Spec => []GamesInv
  BY GamesInvInit, GamesInvNext, PTL DEF Spec

\* Every variable has its type, and a request has the item and the image that its
\* next call needs: the TypeOK of the runs.
THEOREM GamesTypeCorrectness == Spec => []TypeOK
<1>1. GamesInv => TypeOK
  BY DEF GamesInv, GamesTypes, ThrottleInv, TypeOK, Stage, Pictures
<1>2. QED
  BY <1>1, GamesInvariance, PTL

\* After a 429 the delay that all callers share stays above its base until four
\* calls have succeeded since, whoever made them.
THEOREM SlowUntilFourSuccesses == Spec => []SlowAfterLimit
<1>1. GamesInv => SlowAfterLimit
  BY DEF GamesInv, ThrottleInv, SlowAfterLimit, BASE_DELAY_MS, MAX_DELAY_MS, DECAY_STEP_MS
<1>2. QED
  BY <1>1, GamesInvariance, PTL

-----------------------------------------------------------------------------
(* What a write leaves in a game.                                           *)

\* The stage of a request changes by its own steps only.
LEMMA OwnStep ==
    ASSUME GamesInv, [Next]_vars, NEW r \in Requests,
           requests[r].pc \in {"update", "writeCover"}, requests'[r].pc # requests[r].pc
    PROVE  Update(r) \/ WriteCover(r) \/ Fail(r)
<1>1. ASSUME NEW s \in Requests, NEW q, Put(s, q) PROVE s = r
  BY <1>1 DEF Put, GamesInv, GamesTypes
<1>2. \A s \in Requests, g \in Games: \A id : requests'[r] # Marked(r, g, id)
  BY MarkedIs
<1>3. ASSUME NEW s \in Requests, s # r, Step(s) \/ Fail(s) PROVE FALSE
  <2>1. ~Answer(s)
    BY <1>1, <1>3 DEF Answer
  <2>2. requests[s].game \in Games
    BY RequestTypes DEF Request
  <2>3. \A row, q : ~Write(s, row, q)
    BY <1>2, <1>3, <2>2 DEF Write
  <2>4. ~Update(s) /\ ~WriteCover(s) /\ ~Fail(s)
    BY <2>1, <2>3 DEF Update, WriteCover, Fail
  <2>5. ~LookUp(s) /\ ~Reread(s) /\ ~List(s)
    BY <1>1, <1>3, <2>1 DEF LookUp, Reread, List
  <2>6. ~Get(s)
    BY <1>1, <1>3, <2>1 DEF Get, GetSuccess, GetQueued, GetRateLimited, GetError
  <2>7. ~FindGame(s) /\ ~GetImage(s)
    BY <1>1, <1>3, <2>1 DEF FindGame, GetImage
  <2>8. QED
    BY <1>3, <2>4, <2>5, <2>6, <2>7 DEF Step, Local
<1>4. ASSUME NEW s \in Requests, ReceiveConnect(s) \/ ReceiveSync(s) \/ ReceiveBulk(s)
      PROVE  FALSE
  BY <1>1, <1>4 DEF ReceiveConnect, ReceiveSync, ReceiveBulk, Receive, InFlight
<1>5. ASSUME NEW g \in Games, EditGame(g) \/ DeleteGame(g) PROVE FALSE
  BY <1>2, <1>5 DEF EditGame, DeleteGame
<1>6. ~UNCHANGED vars
  BY DEF vars
<1>7. Step(r) \/ Fail(r)
  BY <1>3, <1>4, <1>5, <1>6 DEF Next
<1>8. QED
  BY <1>7 DEF Step, Local, LookUp, Reread, List, Get, GetSuccess, GetQueued, GetRateLimited,
              GetError, Calling, FindGame, GetImage

LEMMA UpdateWrites ==
    ASSUME GamesInv, NEW r \in Requests, Update(r)
    PROVE  LET req == requests[r]
               g == req.game IN
           \/ UNCHANGED games
           \/ /\ games'[g].bggId = req.item
              /\ games'[g].cover = IF Deferred(req) THEN games[g].cover ELSE req.thumbnail
<1>1. PICK req \in Request : req = requests[r]
  BY RequestTypes
<1>2. PICK game \in Game : game = games[req.game] /\ req.game \in Games
  BY DEF GamesInv, GamesTypes, Request
<1>3. PICK cover : cover = IF Deferred(req) THEN game.cover ELSE req.thumbnail
  OBVIOUS
<1>4. PICK row : row = [game EXCEPT !.bggId = req.item, !.meta = req.item, !.cover = cover]
  OBVIOUS
<1>5. row = [game EXCEPT !.bggId = req.item, !.meta = req.item,
                         !.cover = IF Deferred(req) THEN @ ELSE req.thumbnail]
  BY <1>3, <1>4 DEF Game
<1>6. UNCHANGED games \/ games' = [games EXCEPT ![req.game] = row]
  BY <1>1, <1>2, <1>5 DEF Update, Write
<1>7. row.bggId = req.item /\ row.cover = cover
  BY <1>4 DEF Game
<1>8. UNCHANGED games \/ games'[req.game] = row
  BY <1>2, <1>6 DEF GamesInv, GamesTypes
<1>9. QED
  BY <1>1, <1>2, <1>3, <1>7, <1>8

\* Syncing a game again leaves it connected to its item, however the requests, the
\* edits and the answers of BoardGameGeek interleave.
THEOREM SyncNeverReconnects == Spec => SyncKeepsId
<1>1. ASSUME GamesInv, [Next]_vars, NEW r \in Requests,
             requests[r].pc = "update", requests[r].op # "connect",
             requests'[r].pc # "update", ~requests[r].raced,
             ~(requests[r].op = "sync" /\ requests[r].item = None)
      PROVE  games'[requests[r].game].bggId = games[requests[r].game].bggId
  <2>1. Update(r) \/ UNCHANGED games
    BY <1>1, OwnStep DEF WriteCover, Fail
  <2>2. requests[r].item = games[requests[r].game].bggId
    BY <1>1, RequestTypes DEF Kept
  <2>3. QED
    BY <1>1, <2>1, <2>2, UpdateWrites
<1>2. GamesInv /\ [Next]_vars =>
        [\A r \in Requests :
            LET req == requests[r] IN
            req.pc = "update" /\ req.op # "connect" /\ requests'[r].pc # "update" =>
                \/ games'[req.game].bggId = games[req.game].bggId
                \/ req.raced
                \/ req.op = "sync" /\ req.item = None]_vars
  BY <1>1
<1>3. QED
  BY <1>2, GamesInvariance, PTL DEF Spec, SyncKeepsId

\* A cover is the image of the item that the game is connected to, although seconds
\* lie between the read of the game and the write of the image.
THEOREM CoversFollowTheItem == Spec => NewCoverOfItem
<1>1. ASSUME GamesInv, [Next]_vars, NEW r \in Requests,
             requests[r].pc \in {"update", "writeCover"},
             requests'[r].pc # requests[r].pc, ~requests[r].raced
      PROVE  LET g == requests[r].game IN
             \/ games'[g].cover \in {games[g].cover, NoImage}
             \/ games'[g].cover.item = games'[g].bggId
  <2>1. PICK req \in Request : req = requests[r] /\ Stage(req) /\ Kept(req)
    BY <1>1, RequestTypes
  <2>2. PICK g \in Games : g = req.game
    BY DEF Request
  <2>3. CASE UNCHANGED games
    BY <2>1, <2>2, <2>3
  <2>4. CASE Update(r) /\ ~UNCHANGED games
    <3>1. /\ games'[g].bggId = req.item
          /\ games'[g].cover = IF Deferred(req) THEN games[g].cover ELSE req.thumbnail
      BY <1>1, <2>1, <2>2, <2>4, UpdateWrites
    <3>2. req.pc = "update"
      BY <2>1, <2>4 DEF Update
    <3>3. ~Deferred(req) => req.thumbnail = NoImage \/ req.thumbnail.item = req.item
      BY <2>1, <3>2 DEF Stage, Deferred, Pictures
    <3>4. QED
      BY <2>1, <2>2, <3>1, <3>3
  <2>5. CASE WriteCover(r) /\ ~UNCHANGED games
    <3>1. games' = [games EXCEPT ![g].cover = req.thumbnail] /\ req.pc = "writeCover"
      BY <2>1, <2>2, <2>5 DEF WriteCover
    <3>2. PICK game \in Game : game = games[g]
      BY <1>1 DEF GamesInv, GamesTypes
    <3>3. games'[g].cover = req.thumbnail /\ games'[g].bggId = games[g].bggId
      BY <1>1, <3>1, <3>2 DEF GamesInv, GamesTypes, Game
    <3>4. req.op = "bulk" /\ req.thumbnail.item = req.item /\ req.item # None
      BY <2>1, <3>1 DEF Stage, Pictures
    <3>5. req.item = games[g].bggId
      BY <1>1, <2>1, <2>2, <3>1, <3>4 DEF Kept
    <3>6. QED
      BY <2>1, <2>2, <3>3, <3>4, <3>5
  <2>6. QED
    BY <1>1, <2>3, <2>4, <2>5, OwnStep DEF Fail
<1>2. GamesInv /\ [Next]_vars =>
        [\A r \in Requests :
            LET req == requests[r]
                cover == games'[req.game].cover IN
            req.pc \in {"update", "writeCover"} /\ requests'[r].pc # req.pc =>
                \/ cover \in {games[req.game].cover, NoImage}
                \/ cover.item = games'[req.game].bggId
                \/ req.raced]_vars
  BY <1>1
<1>3. QED
  BY <1>2, GamesInvariance, PTL DEF Spec, NewCoverOfItem
=============================================================================
