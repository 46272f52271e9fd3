---------------------------- MODULE PracticePage ----------------------------
(***************************************************************************)
(* The timer page of the web app: its timer, and the part of the page's    *)
(* store (src/desktop/renderer/store.ts) that keeps the attempts the timer *)
(* ends, draws the next scramble and reads the figures again.  The store   *)
(* runs on the page's one thread and calls the data engine: requests are   *)
(* answered one after another, scrambles as they are found                 *)
(* (src/desktop/engine/core.ts).                                           *)
(*                                                                         *)
(* Of the page: the contexts of the timer (a puzzle, a solve mode, a type  *)
(* of scramble), between which the player moves by the address: from one   *)
(* puzzle to another, or between the timer and its cross training.  Not    *)
(* here: the training's cases, the daily scramble, Multi-Blind, the casual *)
(* entry, the simulated rounds, and the session a context resumes at       *)
(* launch.                                                                 *)
(* What is drawn of the store (useTimer's `enabled`) is taken to follow it *)
(* at once: it does within 50 ms, and a hold takes 300.                    *)
(*                                                                         *)
(* An answer is one step: the engine works the request out, and the page   *)
(* hears it.  What the page does between the two it could do before.       *)
(***************************************************************************)
EXTENDS PracticeTimer, FiniteSetsExt

CONSTANTS
  Contexts,      \* the contexts of the timer (contextKey)
  Puzzle,        \* the puzzle of each
  Events,        \* those of an event, with its usual scrambles
  First,         \* the one the page opens on
  Opening,       \* the scrambles kept as it opens, by context, 0 for none
  MaxAttempts,   \* bound: attempts ended
  MaxMoves,      \* bound: moves away from it, scrambles skipped, and changes
                 \* brought from other devices
  MaxFaults      \* bound: calls that fail

ASSUME PageAssumption ==
  /\ First \in Contexts /\ Events \subseteq Contexts /\ IsFiniteSet(Contexts)
  /\ Opening \in [Contexts -> Nat] /\ Opening[First] # 0
  /\ \A j, k \in Contexts : Opening[j] = Opening[k] /\ j # k => Opening[j] = 0
  /\ {MaxAttempts, MaxMoves, MaxFaults} \subseteq Nat

Nothing == [none |-> TRUE]
SaverIds == 1..2      \* bound: calls of savePending at once

VARIABLES
  timer,        \* the page's PracticeTimer
  context,      \* contextKey()
  shown,        \* the scramble shown, 0 for none (store.scramble)
  kept,         \* the scramble of each context (cubix.playground.scrambleByContext)
  ahead,        \* the one drawn ahead of each context (localStorage)
  draws,        \* scrambles asked for and not found yet
  generating, saving, error,
  pendingSolve, \* the attempt to save (pendingSolve)
  savers,       \* the calls of savePending under way
  ids, creating,   \* LaunchSessions: sessions known, sessions being created
  requests,     \* requests the engine has not answered, oldest first
  loading, queued, \* the snapshot asked for; that another is to be
  solves, known,   \* the session's solves shown, those the engine knows held
  rows,         \* the engine's solves, by session
  tried,        \* history: each attempt ended, with where and on what; whether the page
                \* left while its scramble was still the next; whether that was not its
                \* context's own
  solving,      \* history: the scramble shown when the solve running started
  disturbed,    \* history: a failure was told while other calls were under way
  missed,       \* history: the last snapshot failed
  bounds        \* what is spent of the bounds

scrambleVars == <<shown, kept, ahead, draws, generating>>
saveVars == <<saving, pendingSolve, savers, ids, creating>>
loadVars == <<loading, queued, solves, known>>
history == <<tried, solving, disturbed, missed>>
vars == <<timer, context, scrambleVars, saveVars, loadVars, requests,
          error, rows, history, bounds>>

NoSession == 0
NoSolve == -1
Sessions == DOMAIN rows
IdleSaver == [stage |-> "idle", refresh |-> "none"]

\* The page as it opens: what failed meanwhile elsewhere may be told already.
Init ==
  /\ timer = NewTimer
  /\ context = First
  /\ kept = Opening /\ shown = kept[First]
  /\ ahead = [k \in Contexts |-> 0] /\ draws = {}
  /\ generating = FALSE /\ saving = FALSE /\ error \in BOOLEAN
  /\ pendingSolve = Nothing /\ savers = [i \in SaverIds |-> IdleSaver]
  /\ ids = [k \in Contexts |-> NoSession] /\ creating = {}
  /\ requests = <<>>
  /\ loading = Nothing /\ queued = FALSE /\ solves = <<>> /\ known = Nothing
  /\ rows = <<>>
  /\ tried = <<>> /\ solving = NoSolve /\ disturbed = FALSE /\ missed = FALSE
  /\ bounds = [moves |-> 0, faults |-> 0]

Spend(what) == bounds' = [bounds EXCEPT ![what] = @ + 1]

---------------------------------------------------------------------------
(* Scrambles: nextScramble, drawAhead, syncScramble. *)

Used ==
  {shown, solving} \cup {kept[k] : k \in Contexts} \cup {ahead[k] : k \in Contexts}
    \cup {tried[n].scramble : n \in DOMAIN tried}
NewOne == Min(1..(Cardinality(Used) + 1) \ Used)

Search(what, key, by, after) ==
  [what |-> what, key |-> key, live |-> TRUE, by |-> by, after |-> after]

\* Mutant: a scramble asked for in another context is shown all the same.
Outdated_Slip(found) == found
\* The revision moves on: the scrambles asked for to be shown no longer will be.
Outdated(found) ==
  {IF s.what = "next" THEN [s EXCEPT !.live = FALSE] ELSE s : s \in found}

\* The next scramble of each of these contexts, drawn ahead unless one is, or is
\* being drawn already.
DrawAhead(found, keys, held) ==
  found \cup
    {Search("ahead", k, 0, {}) :
       k \in {k \in keys : held[k] = 0
                /\ ~\E s \in found : s.what = "ahead" /\ s.key = k}}

\* What drawAllAhead draws for, on a context: every event, and all of its puzzle.
Drawn(key) == Events \cup {k \in Contexts : Puzzle[k] = Puzzle[key]}

\* The scrambles kept by context, once this one is shown there.
Remembered(key, scramble) == [kept EXCEPT ![key] = scramble]

\* The next scramble of a context, drawn for the call of savePending `by` (0 for
\* none): the one drawn ahead at once, else when it is found, `meanwhile` shown.
\* One is then drawn ahead of the context, and of those `after`.
NextScramble(key, by, meanwhile, after) ==
  \/ /\ ahead[key] # 0
     /\ shown' = ahead[key]
     /\ kept' = Remembered(key, ahead[key])
     /\ ahead' = [ahead EXCEPT ![key] = 0]
     /\ generating' = FALSE
     /\ draws' = DrawAhead(Outdated(draws), {key} \cup after, ahead')
  \/ /\ ahead[key] = 0
     /\ generating' = TRUE
     /\ draws' = Outdated(draws) \cup {Search("next", key, by, after)}
     /\ shown' = meanwhile
     /\ UNCHANGED <<kept, ahead>>

\* What the page shows as it goes to a context: on another puzzle, the scramble
\* kept there at once (loadContext).
Entering(key) == IF Puzzle[key] = Puzzle[context] THEN shown ELSE kept[key]

\* The page shows the scramble of its context: the one kept, else the next.  One
\* that it shows already, `before`, is left there, and with it what is being drawn:
\* a scramble asked for on another puzzle may still come, and be shown on this one.
SyncScramble(key, before) ==
  \/ /\ kept[key] # 0 /\ kept[key] = before
     /\ shown' = before
     /\ UNCHANGED <<kept, ahead, draws, generating>>
  \/ /\ kept[key] # 0 /\ kept[key] # before
     /\ shown' = kept[key]
     /\ generating' = FALSE
     /\ draws' = DrawAhead(Outdated(draws), Drawn(key), ahead)
     /\ UNCHANGED <<kept, ahead>>
  \/ kept[key] = 0 /\ NextScramble(key, 0, 0, Drawn(key))

---------------------------------------------------------------------------
(* Reading the figures again: refresh, one snapshot at a time. *)

Query(key) == [context |-> key, session |-> ids[key]]

\* Asks the snapshot of `query` after the requests `asked`; while another is
\* under way, one more is asked for after it, and that one is dropped if it
\* reads something else.
Refresh(asked, query) ==
  \/ /\ loading = Nothing
     /\ loading' = [query |-> query, stale |-> FALSE]
     /\ requests' = Append(asked, [kind |-> "snapshot", query |-> query, known |-> known])
     /\ UNCHANGED queued
  \/ /\ loading # Nothing
     /\ loading' = [loading EXCEPT !.stale = @ \/ loading.query # query]
     /\ queued' = TRUE
     /\ requests' = asked

\* What a refresh asked now waits for.
Awaited == IF loading = Nothing THEN "loading" ELSE "queued"

---------------------------------------------------------------------------
(* Keeping an attempt: save, savePending, retry. *)

Saver(stage, p, retried) ==
  [stage |-> stage, key |-> p.key, attempt |-> p.attempt, refresh |-> "none",
   retried |-> retried]
AddSolve(i, p, session) ==
  [kind |-> "addSolve", by |-> i, attempt |-> p.attempt, session |-> session]

Idle == {i \in SaverIds : savers[i].stage = "idle"}

\* The session of a context is asked for once (LaunchSessions.ensure).
Creation(key) ==
  IF key \in creating THEN <<>> ELSE <<[kind |-> "createSession", key |-> key]>>

\* savePending: the attempt is sent, once its context has a session.
SavePending(p, retried) ==
  LET i == Min(Idle)
  IN  /\ Idle # {}
      /\ saving' = TRUE
      /\ \/ /\ ids[p.key] # NoSession
            /\ savers' = [savers EXCEPT ![i] = Saver("add", p, retried)]
            /\ requests' = Append(requests, AddSolve(i, p, ids[p.key]))
            /\ UNCHANGED creating
         \/ /\ ids[p.key] = NoSession
            /\ savers' = [savers EXCEPT ![i] = Saver("session", p, retried)]
            /\ creating' = creating \cup {p.key}
            /\ requests' = requests \o Creation(p.key)

\* Whether an attempt ended now is dropped without a word.
Refused == saving \/ generating \/ pendingSolve # Nothing

Tried(penalty) ==
  [key |-> context, scramble |-> shown, solving |-> solving, dnf |-> penalty = "dnf",
   saved |-> 0, failed |-> FALSE, left |-> FALSE, stray |-> shown # kept[context]]

\* An attempt ended by the timer: kept until it is saved, or dropped.
Save(penalty) ==
  \/ /\ Refused
     /\ tried' = Append(tried, Tried(penalty))
     /\ UNCHANGED <<saving, pendingSolve, savers, creating, requests>>
  \/ /\ ~Refused
     /\ pendingSolve' = [key |-> context, attempt |-> Len(tried) + 1]
     /\ tried' = Append(tried, Tried(penalty))
     /\ SavePending(pendingSolve', FALSE)

---------------------------------------------------------------------------
(* The timer: inputs made, dispatched, and timeouts. *)

\* Mutant: the timer starts while the scramble is being drawn.
Enabled_Slip == ~saving /\ ~error
\* Whether the timer can start (the page's `enabled`).
Enabled == ~saving /\ ~generating /\ ~error

InputKind == {"press", "release", "blur", "escape", "begin", "finish"}

\* What an input makes of the timer, dispatched at last; `at` is when it was made.
Dispatched(kind, at) ==
  CASE kind = "press"   -> Press(timer, Enabled)
    [] kind = "release" -> Release(timer, at)
    [] kind = "blur"    -> CancelArming(timer)
    [] kind = "escape"  -> IF timer.inspected THEN Reset(timer) ELSE timer
    [] kind = "begin"   -> Begin(timer, Enabled)
    [] kind = "finish"  -> Finish(timer)

\* The page's timer becomes `t`; an attempt it ends is saved.
Becomes(t) ==
  /\ timer' = [t EXCEPT !.attempt = NoAttempt]
  /\ solving' = IF t.phase = "running" /\ timer.phase # "running" THEN shown
                ELSE IF t.phase = "running" THEN solving ELSE NoSolve
  /\ \/ t.attempt.ended /\ Save(t.attempt.penalty)
     \/ /\ ~t.attempt.ended
        /\ UNCHANGED <<saving, pendingSolve, savers, creating, requests, tried>>
  /\ UNCHANGED <<context, scrambleVars, ids, loadVars, error, rows, disturbed,
                 missed, bounds>>

\* An input is dispatched: made now, or when the inspection was younger, the page
\* having been busy since.
Dispatch(kind, at) ==
  /\ Len(tried) < MaxAttempts
  /\ Becomes(Dispatched(kind, at))

HoldTimeout ==
  \E own \in timer.hold : Becomes(HoldElapses(timer, own))

\* The inspection goes on to its next span of time.
Tick ==
  /\ timer.expiry /\ timer.age < 2
  /\ timer' = [timer EXCEPT !.age = @ + 1]
  /\ UNCHANGED <<context, scrambleVars, saveVars, loadVars, requests,
                 error, rows, history, bounds>>

ExpiryTimeout ==
  /\ timer.expiry /\ timer.age = 2 /\ Len(tried) < MaxAttempts
  /\ Becomes(Expire(timer))

---------------------------------------------------------------------------
(* What is told as a failure, and what the player does then. *)

\* fail: the error shows, and whatever failed the page counts as neither saving
\* nor drawing.  `calls` and `found` are what is still under way after it.
Fail(calls, found) ==
  /\ error' = TRUE /\ saving' = FALSE /\ generating' = FALSE
  /\ disturbed' = (disturbed \/ \E i \in SaverIds : calls[i].stage # "idle"
                             \/ \E s \in found : s.what = "next" /\ s.live)

\* Something else fails: a preference not written, an error of the engine's.
ElsewhereFails ==
  /\ bounds.faults < MaxFaults /\ Spend("faults")
  /\ Fail(savers, draws)
  /\ UNCHANGED <<timer, context, shown, kept, ahead, draws, pendingSolve,
                 savers, ids, creating, loadVars, requests, rows, tried, solving,
                 missed>>

\* Any command of the page clears the error; none acts during a solve or a save.
Command == timer.phase # "running" /\ ~saving /\ error' = FALSE

\* A command that changes nothing here: a dialog opened, a setting.
Dismiss ==
  /\ error /\ Command
  /\ UNCHANGED <<timer, context, scrambleVars, saveVars, loadVars, requests,
                 rows, history, bounds>>

\* The scramble is skipped.
SkipScramble ==
  /\ bounds.moves < MaxMoves /\ Spend("moves")
  /\ Command
  /\ timer' = Reset(timer)
  /\ NextScramble(context, 0, shown, {})
  /\ UNCHANGED <<context, saveVars, loadVars, requests, rows, history>>

\* "Try again": the attempt not saved is sent again, then the page synchronises
\* and reads its figures.  The press that asks it would first end a solve running.
Retry ==
  /\ error /\ error' = FALSE /\ timer.phase # "running"
  /\ \/ pendingSolve # Nothing /\ ~saving /\ SavePending(pendingSolve, TRUE)
     \/ /\ pendingSolve = Nothing \/ saving
        /\ requests' = Append(requests, [kind |-> "sync"])
        /\ UNCHANGED <<saving, savers, creating>>
  /\ UNCHANGED <<timer, context, scrambleVars, pendingSolve, ids, loadVars, rows,
                 history, bounds>>

\* The player goes to another context by its address, at any time: the timer is
\* reset, and the page shows that context's scramble and figures.
Move(key) ==
  /\ key # context
  /\ \/ key = First /\ UNCHANGED bounds
     \/ bounds.moves < MaxMoves /\ Spend("moves")
  /\ context' = key
  /\ timer' = Reset(timer) /\ solving' = NoSolve
  /\ SyncScramble(key, Entering(key))
  /\ Refresh(requests, Query(key))
  /\ tried' = [n \in DOMAIN tried |->
       IF tried[n].key = context /\ tried[n].scramble = kept[context]
       THEN [tried[n] EXCEPT !.left = TRUE] ELSE tried[n]]
  /\ UNCHANGED <<saveVars, solves, known, error, rows, disturbed, missed>>

\* Another device's change reaches the engine, which tells the page ("changed"):
\* the oldest solve of a session goes.
Changed(s) ==
  /\ bounds.moves < MaxMoves /\ Spend("moves")
  /\ rows[s] # <<>>
  /\ rows' = [rows EXCEPT ![s] = Tail(@)]
  /\ Refresh(requests, Query(context))
  /\ UNCHANGED <<timer, context, scrambleVars, saveVars, solves, known, error,
                 history>>

---------------------------------------------------------------------------
(* The engine's answers. *)

Answering(kind) == requests # <<>> /\ Head(requests).kind = kind
Fails == bounds.faults < MaxFaults /\ Spend("faults")

\* A scramble found.
Found(s) ==
  /\ ahead' = IF s.what = "ahead" /\ ahead[s.key] = 0
              THEN [ahead EXCEPT ![s.key] = NewOne] ELSE ahead
  /\ \/ /\ s.what = "next" /\ s.live
        /\ shown' = NewOne /\ kept' = Remembered(s.key, NewOne)
        /\ generating' = FALSE
     \/ /\ ~(s.what = "next" /\ s.live)
        /\ UNCHANGED <<shown, kept, generating>>
  /\ draws' = IF s.what = "next" THEN DrawAhead(draws \ {s}, {s.key} \cup s.after, ahead)
                 ELSE draws \ {s}
  /\ UNCHANGED <<timer, context, saveVars, loadVars, requests, error, rows,
                 history, bounds>>

NotFound(s) ==
  /\ Fails
  /\ draws' = DrawAhead(draws \ {s}, s.after, ahead)
  /\ \/ s.what = "next" /\ s.live /\ Fail(savers, draws')
     \/ /\ ~(s.what = "next" /\ s.live)
        /\ UNCHANGED <<error, saving, generating, disturbed>>
  /\ UNCHANGED <<timer, context, shown, kept, ahead, pendingSolve, savers, ids,
                 creating, loadVars, requests, rows, tried, solving, missed>>

\* The calls of savePending that wait for the session of a context.
Waiting(key) ==
  {i \in SaverIds : savers[i].stage = "session" /\ savers[i].key = key}

\* Mutant: a creation that ended stays the one under way.
Over_Slip(key) == creating
\* The sessions still being created once one was, or failed to be.
Over(key) == creating \ {key}

SessionCreated ==
  /\ Answering("createSession")
  /\ LET key == Head(requests).key
         id  == Len(rows) + 1
     IN  /\ rows' = Append(rows, <<>>)
         /\ ids' = [ids EXCEPT ![key] = id]
         /\ creating' = Over(key)
         /\ savers' = [i \in SaverIds |->
              IF i \in Waiting(key) THEN [savers[i] EXCEPT !.stage = "add"] ELSE savers[i]]
         /\ requests' = Tail(requests) \o
              [n \in 1..Cardinality(Waiting(key)) |->
                 LET i == IF n = 1 THEN Min(Waiting(key)) ELSE Max(Waiting(key))
                 IN  AddSolve(i, savers[i], id)]
  /\ UNCHANGED <<timer, context, scrambleVars, saving, pendingSolve, loadVars, error,
                 history, bounds>>

\* What a call of savePending leaves when it ends: a sync, if "Try again" made it.
Left(over) ==
  IF \E i \in over : savers[i].retried THEN <<[kind |-> "sync"]>> ELSE <<>>

\* The attempts whose saving fails with these calls.
Failed(over) ==
  [n \in DOMAIN tried |->
     [tried[n] EXCEPT !.failed = @ \/ \E i \in over : savers[i].attempt = n]]

SessionFails ==
  /\ Answering("createSession") /\ Fails
  /\ LET over == Waiting(Head(requests).key)
     IN  /\ savers' = [i \in SaverIds |-> IF i \in over THEN IdleSaver ELSE savers[i]]
         /\ requests' = Tail(requests) \o Left(over)
         /\ tried' = Failed(over)
  /\ creating' = Over(Head(requests).key)
  /\ Fail(savers', draws)
  /\ UNCHANGED <<timer, context, shown, kept, ahead, draws, pendingSolve, ids,
                 loadVars, rows, solving, missed>>

\* What is left to save once an attempt was.
Unsaved(p) == Nothing

\* The attempt is saved: the next scramble is drawn, if the page still shows its
\* context, while the figures are read again.
SolveAdded ==
  /\ Answering("addSolve")
  /\ LET a == Head(requests)
         i == a.by
     IN  /\ rows' = [rows EXCEPT ![a.session] = Append(@, a.attempt)]
         /\ pendingSolve' = Unsaved(pendingSolve)
         /\ \/ savers[i].key = context /\ NextScramble(context, i, shown, {})
            \/ savers[i].key # context /\ UNCHANGED scrambleVars
         /\ savers' = [savers EXCEPT ![i].stage = "after", ![i].refresh = Awaited]
         /\ tried' = [tried EXCEPT ![a.attempt].saved = @ + 1]
  /\ Refresh(Tail(requests), Query(context))
  /\ UNCHANGED <<timer, context, saving, ids, creating, solves, known, error,
                 solving, disturbed, missed, bounds>>

AddFails ==
  /\ Answering("addSolve") /\ Fails
  /\ LET i == Head(requests).by
     IN  /\ savers' = [savers EXCEPT ![i] = IdleSaver]
         /\ requests' = Tail(requests) \o Left({i})
         /\ tried' = Failed({i})
  /\ Fail(savers', draws)
  /\ UNCHANGED <<timer, context, shown, kept, ahead, draws, pendingSolve, ids,
                 creating, loadVars, rows, solving, missed>>

\* savePending ends, its figures read and its scramble drawn.
SaveEnds(i) ==
  /\ savers[i].stage = "after" /\ savers[i].refresh = "done"
  /\ ~\E s \in draws : s.by = i
  /\ saving' = FALSE
  /\ savers' = [savers EXCEPT ![i] = IdleSaver]
  /\ requests' = requests \o Left({i})
  /\ UNCHANGED <<timer, context, scrambleVars, pendingSolve, ids, creating, loadVars,
                 error, rows, history, bounds>>

Synced ==
  /\ Answering("sync")
  /\ Refresh(Tail(requests), Query(context))
  /\ UNCHANGED <<timer, context, scrambleVars, saveVars, solves, known, error,
                 rows, history, bounds>>

SyncFails ==
  /\ Answering("sync") /\ Fails
  /\ requests' = Tail(requests)
  /\ Fail(savers, draws)
  /\ UNCHANGED <<timer, context, shown, kept, ahead, draws, pendingSolve, savers,
                 ids, creating, loadVars, rows, tried, solving, missed>>

\* The rows of a session, none before there is one.
Rows(session) == IF session = NoSession THEN <<>> ELSE rows[session]

\* Mutant: what is held need not be what the list begins with.
Sent_Slip(all, held) ==
  IF held # Nothing /\ Len(held.rows) <= Len(all)
  THEN [added |-> SubSeq(all, Len(held.rows) + 1, Len(all))]
  ELSE [value |-> all]
\* What the engine sends of them to a page that holds some: those added since,
\* if that is all that changed (sessionSolves).
Sent(all, held) ==
  IF held # Nothing /\ Len(held.rows) <= Len(all) /\ held.rows = SubSeq(all, 1, Len(held.rows))
  THEN [added |-> SubSeq(all, Len(held.rows) + 1, Len(all))]
  ELSE [value |-> all]

\* The snapshot asked for has been answered: those who waited for it go on, and
\* the one queued is asked for.
NextLoad ==
  /\ IF queued
     THEN /\ loading' = [query |-> Query(context), stale |-> FALSE]
          /\ requests' = Append(Tail(requests),
               [kind |-> "snapshot", query |-> Query(context), known |-> known'])
     ELSE loading' = Nothing /\ requests' = Tail(requests)
  /\ queued' = FALSE

Loaded(calls) ==
  [i \in SaverIds |->
     CASE calls[i].stage = "after" /\ calls[i].refresh = "loading" ->
            [calls[i] EXCEPT !.refresh = "done"]
       [] calls[i].stage = "after" /\ calls[i].refresh = "queued" ->
            [calls[i] EXCEPT !.refresh = "loading"]
       [] OTHER -> calls[i]]

\* A snapshot read: dropped when the page asked for another thing meanwhile.
SnapshotRead ==
  /\ Answering("snapshot")
  /\ LET q    == Head(requests).query
         all  == Rows(q.session)
         sent == Sent(all, Head(requests).known)
         now  == IF "value" \in DOMAIN sent THEN all ELSE solves \o sent.added
         ours == q.session = ids[q.context]
     IN  \/ /\ ~loading.stale
            /\ solves' = IF ours THEN now ELSE <<>>
            /\ known' = IF ours THEN [rows |-> all] ELSE Nothing
            /\ missed' = FALSE
         \/ loading.stale /\ UNCHANGED <<solves, known, missed>>
  /\ NextLoad
  /\ savers' = Loaded(savers)
  /\ UNCHANGED <<timer, context, scrambleVars, saving, pendingSolve, ids, creating,
                 error, rows, tried, solving, disturbed, bounds>>

SnapshotFails ==
  /\ Answering("snapshot") /\ Fails
  /\ UNCHANGED <<solves, known>> /\ missed' = TRUE
  /\ NextLoad
  /\ savers' = Loaded(savers)
  /\ Fail(savers', draws)
  /\ UNCHANGED <<timer, context, shown, kept, ahead, draws, pendingSolve, ids,
                 creating, rows, tried, solving>>

---------------------------------------------------------------------------
EngineAnswers ==
  \/ \E s \in draws : Found(s) \/ NotFound(s)
  \/ SessionCreated \/ SessionFails \/ SolveAdded \/ AddFails
  \/ \E i \in SaverIds : SaveEnds(i)
  \/ Synced \/ SyncFails \/ SnapshotRead \/ SnapshotFails

Player ==
  \/ \E kind \in InputKind, at \in 0..timer.age : Dispatch(kind, at)
  \/ Dismiss \/ SkipScramble \/ Retry
  \/ \E key \in Contexts : Move(key)

Next ==
  \/ Player \/ HoldTimeout \/ Tick \/ ExpiryTimeout
  \/ ElsewhereFails \/ \E s \in Sessions : Changed(s)
  \/ EngineAnswers

Spec == Init /\ [][Next]_vars

---------------------------------------------------------------------------
(* Properties. *)

TypeOK ==
  /\ timer \in Timer /\ ~timer.attempt.ended /\ (timer.expiry <=> timer.inspected)
  /\ context \in Contexts
  /\ shown \in Nat /\ kept \in [Contexts -> Nat] /\ ahead \in [Contexts -> Nat]
  /\ \A s \in draws : s.what \in {"next", "ahead"} /\ s.key \in Contexts
  /\ {generating, saving, error, queued, disturbed, missed} \subseteq BOOLEAN
  /\ pendingSolve # Nothing => pendingSolve.attempt \in DOMAIN tried
  /\ ids \in [Contexts -> {NoSession} \cup Sessions]
  /\ \A i \in SaverIds : savers[i].stage \in {"idle", "session", "add", "after"}
  /\ queued => loading # Nothing

Saved == {n \in DOMAIN tried : tried[n].saved > 0}
\* Nothing failed that an attempt could suffer from: no failure was told while
\* other calls of the page were under way (fail has the page count as idle), and
\* no attempt waited to be sent again (save drops an attempt while one does).
Clear(n) == ~disturbed /\ \A m \in 1..(n - 1) : ~tried[m].failed

\* No attempt is lost: whatever is asked or moved to meanwhile, one the timer
\* ended is saved or still to be saved, also when saving it fails.
NothingLost ==
  \A n \in DOMAIN tried :
    Clear(n) => n \in Saved \/ (pendingSolve # Nothing /\ pendingSolve.attempt = n)

\* An attempt is saved once, sent again or not.
SavedOnce ==
  ~disturbed => \A n \in DOMAIN tried : tried[n].saved <= 1

\* An attempt is kept with the scramble that its solve started on.
RightScramble ==
  \A n \in Saved : Clear(n) => tried[n].solving \in {NoSolve, tried[n].scramble}

\* No scramble is solved twice, unless the page left its context after the first
\* of the two and before the next scramble was drawn: it then shows the same one
\* when it comes back.  Nor is one that was drawn for another context and shown in
\* the one the page had moved to promised to be new when its own shows it again
\* (`stray`; see SyncScramble).  (A solve may start on none, when none could be
\* drawn.)
NewScramble ==
  \A m, n \in Saved :
    m < n /\ Clear(n) /\ ~tried[m].left /\ ~tried[m].stray /\ tried[m].scramble # 0
      => tried[m].scramble # tried[n].scramble

\* The solves of a context, one launch of the app, are in one session.
OneSession == Cardinality(Sessions) <= Cardinality(Contexts)

\* Once nothing is being read, the solves shown are the engine's.
Shown ==
  loading = Nothing /\ ~missed => solves = Rows(ids[context])

\* A timer is ready after a full hold of the press under way.
FullHold == timer.phase = "ready" => timer.full

\* An attempt is a DNF of its inspection when its solve never started, and then
\* alone.
DnfNeverStarted ==
  \A n \in DOMAIN tried : tried[n].dnf <=> tried[n].solving = NoSolve

Requested(kind) == {n \in DOMAIN requests : requests[n].kind = kind}

\* Nothing of the page waits for what will not come: while it saves, draws or
\* reads, the engine has a request whose answer ends that, failed or not.
NothingStuck ==
  /\ saving => \E i \in SaverIds : savers[i].stage # "idle"
  /\ generating => \E s \in draws : s.what = "next" /\ s.live
  /\ Cardinality(Requested("snapshot")) = IF loading = Nothing THEN 0 ELSE 1
  /\ \A i \in SaverIds :
       /\ savers[i].stage = "session" =>
            \E n \in Requested("createSession") : requests[n].key = savers[i].key
       /\ savers[i].stage = "add" => \E n \in Requested("addSolve") : requests[n].by = i
       /\ savers[i].refresh = "loading" => loading # Nothing
       /\ savers[i].refresh = "queued" => queued

\* Whatever is asked, failed or moved to meanwhile, an attempt is kept, once, and in
\* its context's session.
KeptOnce == NothingLost /\ SavedOnce /\ OneSession

\* A scramble is one attempt's, and the attempt that of the scramble it started on.
ScramblesMatch == RightScramble /\ NewScramble

\* The timer, in a state of its type, starts what was asked, and only that.
StartsFair == TypeOK /\ FullHold /\ DnfNeverStarted

=============================================================================
