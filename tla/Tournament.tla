----------------------------- MODULE Tournament -----------------------------
(***************************************************************************)
(* A tournament (src/go-api/tournament.go): registrations, the draw, the   *)
(* rounds of its single-elimination bracket, players who give up, matches  *)
(* given by the organiser, and its end.                                    *)
(*                                                                         *)
(* A handler has the database to itself until it returns (db.go), but the  *)
(* statements it makes are kept one by one: a handler of several is        *)
(* several steps here, and may end after any of them, the server stopping  *)
(* or a statement failing.  The start's are one transaction.               *)
(*                                                                         *)
(* A match is raced on the app's socket (module Match): here it becomes    *)
(* live, and is won.  What is told to the apps, the lists and the cards    *)
(* are left out; so are the seeds, and whether a match was given or raced. *)
(***************************************************************************)
EXTENDS Naturals, FiniteSets

CONSTANTS
  Player,      \* the accounts
  Nobody,      \* an empty seat, or no winner
  MaxPlayers,  \* the tournament's limit
  MaxStops,    \* bound: handlers cut short
  MaxPurges    \* bound: accounts deleted

ASSUME TournamentAssumption ==
  /\ Nobody \notin Player /\ IsFiniteSet(Player)
  /\ {MaxPlayers, MaxStops, MaxPurges} \subseteq Nat

VARIABLES
  status,    \* of the tournament
  round,     \* the round under way, from 1
  rounds,    \* how many there are
  champion,  \* winner_id
  entrants,  \* tournament_players
  gone,      \* those of them withdrawn
  matches,   \* each match of the bracket, by its round and slot
  doing,     \* what is left of the handler under way
  stops,     \* history: handlers cut short
  purges     \* history: accounts deleted

tournament == <<status, round, rounds, champion>>
vars == <<tournament, entrants, gone, matches, doing, stops, purges>>

Seat == 0..1
Other(seat) == 1 - seat
Anyone == Player \cup {Nobody}
Match ==
  [player : [Seat -> Anyone], status : {"waiting", "ready", "live", "done", "cancelled"},
   winner : Anyone]

Nothing == [at |-> "nothing"]
Idle == doing = Nothing
Handler == UNCHANGED <<stops, purges>>

Init ==
  /\ status = "open" /\ round = 0 /\ rounds = 0 /\ champion = Nobody
  /\ entrants = {} /\ gone = {}
  /\ matches = [m \in {} |-> Nobody]
  /\ doing = Nothing /\ stops = 0 /\ purges = 0

---------------------------------------------------------------------------
(* The bracket. *)

\* A size of 1, doubled `k` times.
Doubled(k) == LET size[i \in 0..k] == IF i = 0 THEN 1 ELSE 2 * size[i - 1] IN size[k]

\* The rounds of `n` players: a size of 1 doubles until they fit.
RoundsOf(n) == Cardinality({k \in 0..n : Doubled(k) < n})

\* The slots of a round of a bracket of `all` rounds.
SlotsOf(r, all) == 0..(Doubled(all - r) - 1)

\* The matches of a bracket.
Bracket(all) == UNION {{<<r, s>> : s \in SlotsOf(r, all)} : r \in 1..all}
Round(r) == {m \in DOMAIN matches : m[1] = r}

\* The player drawn in this place, from 0, if any.
Drawn(draw, k) == IF k + 1 \in DOMAIN draw THEN draw[k + 1] ELSE Nobody

\* The players of a slot of the first round: byes go to the first drawn.
Pair(draw, slot) ==
  LET size == Doubled(RoundsOf(Cardinality(DOMAIN draw)))
  IN [seat \in Seat |-> Drawn(draw, IF seat = 0 THEN slot ELSE size - 1 - slot)]

\* What a match of two seats becomes: to be played, won by the one there, or
\* `empty`.
Outcome(player, empty) ==
  IF Nobody \notin {player[0], player[1]} THEN [status |-> "ready", winner |-> Nobody]
  ELSE IF player[0] # Nobody THEN [status |-> "done", winner |-> player[0]]
  ELSE IF player[1] # Nobody THEN [status |-> "done", winner |-> player[1]]
  ELSE [status |-> empty, winner |-> Nobody]

MatchOf(player, outcome) ==
  [player |-> player, status |-> outcome.status, winner |-> outcome.winner]

Playing(m) == matches[m].status \in {"ready", "live"}
Ended(m) == matches[m].status \in {"done", "cancelled"}
SeatOf(m, u) == CHOOSE seat \in Seat : matches[m].player[seat] = u

---------------------------------------------------------------------------
(* Registration, and the start. *)

Register(u) ==
  /\ Idle /\ status = "open"
  /\ Cardinality(entrants) < MaxPlayers
  /\ entrants' = entrants \cup {u}
  /\ UNCHANGED <<tournament, gone, matches, doing>> /\ Handler

\* A player leaves, or withdraws before the start.
Unregister(u) ==
  /\ Idle /\ status = "open"
  /\ entrants' = entrants \ {u}
  /\ UNCHANGED <<tournament, gone, matches, doing>> /\ Handler

\* Its date has come, or its organiser starts it: with fewer than two players, it
\* is cancelled.
StartWithout ==
  /\ Idle /\ status = "open"
  /\ Cardinality(entrants) < 2
  /\ status' = "cancelled"
  /\ UNCHANGED <<round, rounds, champion, entrants, gone, matches, doing>> /\ Handler

\* Otherwise its players are drawn.
Start ==
  LET n == Cardinality(entrants)
      all == RoundsOf(n)
      none == [seat \in Seat |-> Nobody]
  IN /\ Idle /\ status = "open" /\ n >= 2
     /\ \E draw \in [1..n -> entrants] :
          /\ \A i, j \in 1..n : draw[i] = draw[j] => i = j
          /\ matches' = [m \in Bracket(all) |->
               LET player == IF m[1] = 1 THEN Pair(draw, m[2]) ELSE none
               IN MatchOf(player, Outcome(player, "waiting"))]
     /\ status' = "running" /\ round' = 1 /\ rounds' = all
     /\ doing' = [at |-> "advance"]
     /\ UNCHANGED <<champion, entrants, gone>> /\ Handler

---------------------------------------------------------------------------
(* A match is raced, and closed. *)

\* Its first scramble is drawn.
Begin(m) ==
  /\ Idle /\ matches[m].status = "ready"
  /\ matches' = [matches EXCEPT ![m].status = "live"]
  /\ UNCHANGED <<tournament, entrants, gone, doing>> /\ Handler

\* tournamentFinish: the match goes to the player in this seat, then the
\* tournament goes on.
Finish(m, seat) ==
  /\ matches' = IF Playing(m)
                THEN [matches EXCEPT ![m] = MatchOf(@.player, [status |-> "done", winner |-> @.player[seat]])]
                ELSE matches
  /\ doing' = [at |-> "advance"]
  /\ UNCHANGED <<tournament, entrants, gone>>

\* A player's solves win it.
Win(m, seat) ==
  /\ Idle /\ matches[m].status = "live"
  /\ Nobody \notin {matches[m].player[0], matches[m].player[1]}
  /\ Finish(m, seat) /\ Handler

\* A player forfeits it.
Forfeit(m, seat) ==
  /\ Idle /\ Playing(m) /\ matches[m].player[seat] # Nobody
  /\ Finish(m, Other(seat)) /\ Handler

\* An organiser gives it to one of its players.
Award(m, seat) ==
  /\ Idle /\ Playing(m) /\ matches[m].player[seat] # Nobody
  /\ Finish(m, seat) /\ Handler

\* Mutant: a player who withdraws keeps the match under way.
Given_Slip(u) == {}
\* The match under way of a player.
Given(u) == {m \in DOMAIN matches : Playing(m) /\ \E seat \in Seat : matches[m].player[seat] = u}

\* A player gives up, the tournament running; then the match under way is given to
\* the other.
Withdraw(u) ==
  /\ Idle /\ status = "running" /\ u \in entrants
  /\ gone' = gone \cup {u}
  /\ doing' \in IF Given(u) = {} THEN {Nothing}
                ELSE {[at |-> "give", match |-> m, player |-> u] : m \in Given(u)}
  /\ UNCHANGED <<tournament, entrants, matches>> /\ Handler

Give ==
  /\ doing.at = "give"
  /\ Finish(doing.match, Other(SeatOf(doing.match, doing.player))) /\ Handler

---------------------------------------------------------------------------
(* tournamentAdvance, after each match: a read, then statement by statement. *)

\* Mutant: a match still live does not hold the next round.
RoundOver_Slip(r) == \A m \in Round(r) : matches[m].status # "ready"
\* Every match of a round is over.
RoundOver(r) == \A m \in Round(r) : Ended(m)

Rests ==
  /\ doing.at = "advance"
  /\ status # "running" \/ ~RoundOver(round)
  /\ doing' = Nothing
  /\ UNCHANGED <<tournament, entrants, gone, matches>> /\ Handler

Final == round >= rounds

\* The final is over: the tournament is.
Close ==
  /\ doing.at = "advance" /\ status = "running" /\ RoundOver(round) /\ Final
  /\ status' = "finished" /\ champion' = matches[<<round, 0>>].winner
  /\ doing' = Nothing
  /\ UNCHANGED <<round, rounds, entrants, gone, matches>> /\ Handler

\* Mutant: those who withdrew are taken for any other.
Opened_Slip(player) == Outcome(player, "cancelled")
\* What a match of the next round becomes: a player who gave up stays in the
\* bracket, the match given to the other.
Opened(player) ==
  LET out(seat) == player[seat] \in gone
      takes(seat) == out(Other(seat)) /\ ~out(seat) /\ player[seat] # Nobody
  IN IF takes(0) THEN [status |-> "done", winner |-> player[0]]
     ELSE IF takes(1) THEN [status |-> "done", winner |-> player[1]]
     ELSE IF out(0) \/ out(1) THEN [status |-> "cancelled", winner |-> Nobody]
     ELSE Outcome(player, "cancelled")

\* Mutant: the second seat's match is the next slot's.
Feeder_Slip(m, seat) == <<m[1] - 1, (2 * m[2] + 2 * seat) % Doubled(rounds - m[1] + 1)>>
\* The match of the round before whose winner takes a seat.
Feeder(m, seat) == <<m[1] - 1, 2 * m[2] + seat>>

\* The next round's matches are set one after another, the first as the round is
\* seen over.
Opens(slot) ==
  LET m == <<round + 1, slot>>
      player == [seat \in Seat |-> matches[Feeder(m, seat)].winner]
  IN /\ matches' = [matches EXCEPT ![m] = MatchOf(player, Opened(player))]
     /\ doing' = IF <<round + 1, slot + 1>> \in DOMAIN matches
                 THEN [at |-> "open", slot |-> slot + 1] ELSE [at |-> "turn"]
     /\ UNCHANGED <<tournament, entrants, gone>> /\ Handler

OpenFirst ==
  /\ doing.at = "advance" /\ status = "running" /\ RoundOver(round) /\ ~Final
  /\ Opens(0)

OpenAnother == doing.at = "open" /\ Opens(doing.slot)

\* The next round is under way: it may be over already.
Turn ==
  /\ doing.at = "turn"
  /\ round' = round + 1
  /\ doing' = [at |-> "advance"]
  /\ UNCHANGED <<status, rounds, champion, entrants, gone, matches>> /\ Handler

---------------------------------------------------------------------------
(* Its end before its time, accounts deleted, and handlers cut short. *)

Cancel ==
  /\ Idle /\ status \in {"open", "running"}
  /\ status' = "cancelled"
  /\ doing' = [at |-> "halt"]
  /\ UNCHANGED <<round, rounds, champion, entrants, gone, matches>> /\ Handler

\* Mutant: the matches over are cancelled too.
Halted_All(m) == "cancelled"
Halted(m) == IF Ended(m) THEN matches[m].status ELSE "cancelled"

Halt ==
  /\ doing.at = "halt"
  /\ matches' = [m \in DOMAIN matches |->
                  MatchOf(matches[m].player, [status |-> Halted(m), winner |-> matches[m].winner])]
  /\ doing' = Nothing
  /\ UNCHANGED <<tournament, entrants, gone>> /\ Handler

\* The administration deletes an account: the database empties its seats (ON
\* DELETE SET NULL) and its registrations go, in one transaction.
Purge(u) ==
  LET left(p) == IF p = u THEN Nobody ELSE p
  IN /\ Idle /\ u \in entrants
     /\ purges < MaxPurges /\ purges' = purges + 1
     /\ champion' = left(champion)
     /\ entrants' = entrants \ {u} /\ gone' = gone \ {u}
     /\ matches' = [m \in DOMAIN matches |->
          MatchOf([seat \in Seat |-> left(matches[m].player[seat])],
                  [status |-> matches[m].status, winner |-> left(matches[m].winner)])]
     /\ UNCHANGED <<status, round, rounds, doing, stops>>

\* The server stops, or a statement fails: what is left of the handler is not done.
Stop ==
  /\ ~Idle
  /\ stops < MaxStops /\ stops' = stops + 1
  /\ doing' = Nothing
  /\ UNCHANGED <<tournament, entrants, gone, matches, purges>>

---------------------------------------------------------------------------
Next ==
  \/ \E u \in Player : Register(u) \/ Unregister(u) \/ Withdraw(u) \/ Purge(u)
  \/ StartWithout \/ Start
  \/ \E m \in DOMAIN matches :
       Begin(m) \/ \E seat \in Seat : Win(m, seat) \/ Forfeit(m, seat) \/ Award(m, seat)
  \/ Give \/ Rests \/ Close \/ OpenFirst \/ OpenAnother \/ Turn
  \/ Cancel \/ Halt \/ Stop

Spec == Init /\ [][Next]_vars

---------------------------------------------------------------------------
(* Properties. *)

TypeOK ==
  /\ status \in {"open", "running", "finished", "cancelled"}
  /\ rounds \in Nat /\ round \in 0..rounds
  /\ champion \in Anyone
  /\ entrants \subseteq Player /\ gone \subseteq entrants
  /\ matches \in [Bracket(rounds) -> Match]
  /\ doing.at \in {"nothing", "advance", "give", "open", "turn", "halt"}
  /\ stops \in 0..MaxStops /\ purges \in 0..MaxPurges

\* Every step of the handlers so far was made.
Whole == stops = 0

\* A tournament under way has a match of its round to play, between two players
\* still in it; no other match is to be played.  A player's account may be deleted
\* under the match: it then waits for the organiser.
Going ==
  status = "running" /\ Idle /\ Whole =>
    /\ \E m \in Round(round) : Playing(m)
    /\ \A m \in DOMAIN matches : Playing(m) =>
         /\ m[1] = round
         /\ \A seat \in Seat :
              \/ matches[m].player[seat] \in entrants \ gone
              \/ matches[m].player[seat] = Nobody /\ purges > 0

\* The players of a match of a later round are those who won its two matches of
\* the round before, whatever was cut short.
WinnersMeet ==
  \A m \in DOMAIN matches : m[1] > 1 /\ matches[m].status \in {"ready", "live", "done"} =>
    \A seat \in Seat :
      matches[m].player[seat] = matches[<<m[1] - 1, 2 * m[2] + seat>>].winner

\* Each match is a match, and those who won meet.
BracketHolds == TypeOK /\ WinnersMeet

\* A round is played once every match of the one before is over, whatever was cut
\* short: everyone waits for everyone.
RoundsInOrder ==
  \A m \in DOMAIN matches :
    m[1] > 1 /\ matches[m].status \in {"ready", "live", "done"} =>
      \A before \in Round(m[1] - 1) : Ended(before)

\* A player lost a match that is over.
Beaten(u) ==
  \E m \in DOMAIN matches :
    Ended(m) /\ u \in {matches[m].player[0], matches[m].player[1]} /\ matches[m].winner # u

\* At the end, everyone lost a match or withdrew, but for the champion, who did
\* neither.
LastStanding ==
  status = "finished" /\ Whole =>
    \A u \in entrants : u = champion <=> ~Beaten(u) /\ u \notin gone

\* A match won stays won by the same player, and a tournament that is over is over.
ResultsStay ==
  [][Whole =>
       /\ \A m \in DOMAIN matches : matches[m].status = "done" =>
            matches'[m].status = "done" /\ matches'[m].winner \in {matches[m].winner, Nobody}
       /\ status \in {"finished", "cancelled"} =>
            status' = status /\ champion' \in {champion, Nobody}]_vars

\* A tournament that is over has no match to play.
NothingLeft ==
  status \in {"finished", "cancelled"} /\ Idle /\ Whole => \A m \in DOMAIN matches : Ended(m)

\* tournamentCurrent: the tournament that the app keeps a player in.
Current(u) == status = "running" /\ u \in entrants \ gone /\ ~Beaten(u)

\* The app keeps a player in the tournament as long as there is something in it
\* for them, and no longer: a match to play, or one won whose round goes on.
StillIn ==
  status = "running" /\ Idle /\ Whole =>
    \A u \in Player :
      Current(u) <=> \E m \in Round(round) :
        \/ Playing(m) /\ \E seat \in Seat : matches[m].player[seat] = u
        \/ matches[m].winner = u /\ u \notin gone

\* Whole handlers lead from the start to the end: there is a match to play until the
\* tournament is over, and none after, and the app keeps in it those it is for.
NeverStuck == Going /\ NothingLeft /\ StillIn

=============================================================================
