-------------------------------- MODULE Match --------------------------------
(***************************************************************************)
(* A match between two players: the server, which keeps its solves and its *)
(* score and tells whoever has it open (src/go-api/tournament.go), and the *)
(* match client of each player's app (src/src/client/lib/match.ts) over    *)
(* the one socket the app holds (src/src/client/live.ts).                  *)
(*                                                                         *)
(* Both players are known, and each has the match open in one tab.  Not    *)
(* here: those who watch, the timers' phases, the allowance of messages,   *)
(* how many scrambles a match may take, and what a tournament makes of the *)
(* winner (module Tournament).  A new socket is heard ready at once.       *)
(***************************************************************************)
EXTENDS Naturals, FiniteSets, SequencesExt

CONSTANTS
  Points,      \* solves to take a set
  Sets,        \* sets to take the match
  Times,       \* the times a solve may take
  MaxSolves,   \* bound: scrambles drawn
  MaxSockets,  \* bound: sockets an app opens
  MaxActs      \* bound: what players choose to do, what fails, sockets lost

ASSUME MatchAssumption ==
  /\ {Points, Sets, MaxSolves, MaxSockets} \subseteq Nat \ {0}
  /\ Times \subseteq Nat /\ MaxActs \in Nat

VARIABLES
  match,    \* the match's row
  solves,   \* its solves
  room,     \* the sockets that have it open
  last,     \* the match as last sent to them
  joining,  \* the match as a socket that joins read it
  up,       \* each socket's messages to the server
  sock,     \* each app's socket, its last one if it has none
  conn,     \* whether it has one
  down,     \* what comes to each app on it
  clients,  \* each app's client
  spoiled,  \* history: a scramble was not drawn, or not sent through
  passed,   \* history: a join told a match changed since it was read
  acts

server == <<match, solves, room, last, joining>>
network == <<up, sock, conn, down>>
vars == <<server, network, clients, spoiled, passed, acts>>

\* An app is known by its account's seat.
App == 0..1
Seat == App
Socket == App \X (1..MaxSockets)
Current(app) == <<app, sock[app]>>

NoOne == 2
Unsolved == [ms |-> 0]
\* A scramble is known by the app that drew it, and the number it drew it for; a
\* result keeps the one it was made on.
Scramble == [by : App, number : 1..MaxSolves]
Result == {Unsolved} \cup [ms : Times, penalty : {"none", "dnf"}, on : Scramble]
Solve == [text : Scramble, results : [Seat -> Result]]
NoValue == [none |-> TRUE]
NewClient == [open |-> FALSE, shown |-> NoValue, drawn |-> 0, drawing |-> <<>>]

\* Mutant: the scrambles it drew before count.
Opened_Slip(client) == [client EXCEPT !.open = TRUE, !.shown = NoValue]
\* A client that opens the match; searches under way go on.
Opened(client) == [client EXCEPT !.open = TRUE, !.shown = NoValue, !.drawn = 0]

Init ==
  /\ match = [status |-> "ready", winner |-> NoOne, forfeit |-> FALSE]
  /\ solves = <<>>
  /\ room = {} /\ last = NoValue
  /\ joining = [s \in Socket |-> NoValue]
  /\ up = [s \in Socket |-> IF s[2] = 1 THEN <<[type |-> "join"]>> ELSE <<>>]
  /\ sock = [app \in App |-> 1] /\ conn = [app \in App |-> TRUE]
  /\ down = [app \in App |-> <<>>]
  /\ clients = [app \in App |-> Opened(NewClient)]
  /\ spoiled = FALSE /\ passed = FALSE /\ acts = 0

Acts == acts < MaxActs /\ acts' = acts + 1

---------------------------------------------------------------------------
(* The score. *)

\* Whether `a` beats `b`: a DNF loses to any time, and a tie takes nothing.
Beats(a, b) == a.penalty # "dnf" /\ (b.penalty = "dnf" \/ a.ms < b.ms)

OpenSolve(v) == Unsolved \in {v.results[0], v.results[1]}

\* The score once a solve is counted: nothing after one still open, nor once it is won.
Counted(score, v) ==
  IF score.ended THEN score
  ELSE IF OpenSolve(v) THEN [score EXCEPT !.ended = TRUE]
  ELSE LET taken == {i \in Seat : Beats(v.results[i], v.results[1 - i])}
           set == {i \in taken : score.points[i] + 1 >= Points}
           sets == [i \in Seat |-> score.sets[i] + IF i \in set THEN 1 ELSE 0]
           won == {i \in Seat : sets[i] >= Sets}
       IN [points |-> [i \in Seat |-> IF set # {} THEN 0
                         ELSE score.points[i] + IF i \in taken THEN 1 ELSE 0],
           sets |-> sets,
           winner |-> IF won = {} THEN NoOne ELSE CHOOSE i \in won : TRUE,
           ended |-> won # {}]

WinnerOf(rows) ==
  LET zero == [i \in Seat |-> 0]
      score[n \in 0..Len(rows)] ==
        IF n = 0 THEN [points |-> zero, sets |-> zero, winner |-> NoOne, ended |-> FALSE]
        ELSE Counted(score[n - 1], rows[n])
  IN score[Len(rows)].winner

Playing == match.status \in {"ready", "live"}

\* Mutant: the match is not closed by the solve that wins it.
Settled_Slip(rows) == match
\* tournamentSettle: the match's row after a change of its solves.
Settled(rows) ==
  IF WinnerOf(rows) # NoOne
  THEN [match EXCEPT !.status = "done", !.winner = WinnerOf(rows)] ELSE match

---------------------------------------------------------------------------
(* Those who have the match open. *)

Present(viewers) == [seat \in Seat |-> \E s \in viewers : s[1] = seat]
Value(row, rows) == [row |-> row, solves |-> rows]

\* What the viewers hear: the match, and who is here.  Nobody hears on a socket lost.
Send(viewers, value) ==
  /\ last' = IF viewers = {} THEN NoValue ELSE value
  /\ down' = [app \in App |->
       IF conn[app] /\ Current(app) \in viewers
       THEN Append(down[app], [value |-> value, present |-> Present(viewers)]) ELSE down[app]]

Publish == Send(room, Value(match', solves'))

\* A join reads the match in the database, and enters the room after.
ReadToJoin(s) ==
  /\ joining' = [joining EXCEPT ![s] = Value(match, solves)]
  /\ UNCHANGED <<match, solves, room, last, down>>

Enter(s) ==
  /\ joining[s] # NoValue
  /\ joining' = [joining EXCEPT ![s] = NoValue]
  /\ room' = room \cup {s}
  /\ Send(room', joining[s])
  /\ passed' = (passed \/ joining[s] # Value(match, solves))
  /\ UNCHANGED <<match, solves, up, sock, conn, clients, spoiled, acts>>

\* A socket leaves: those who stay hear the match as last sent again.
Leaves(s) ==
  /\ room' = room \ {s}
  /\ Send(room', last)

Leave(s) ==
  /\ \/ s \in room /\ Leaves(s)
     \/ s \notin room /\ UNCHANGED <<room, last, down>>
  /\ UNCHANGED <<match, solves, joining>>

---------------------------------------------------------------------------
(* tournamentPlay: the players' moves. *)

LastOpen == solves # <<>> /\ OpenSolve(solves[Len(solves)])

\* Whether a scramble is the next one.
Takes(number) == number = Len(solves) + 1 /\ ~LastOpen /\ WinnerOf(solves) = NoOne

PlayScramble(m) ==
  /\ Takes(m.number)
  /\ solves' = Append(solves, [text |-> m.text, results |-> [i \in Seat |-> Unsolved]])
  /\ match' = [match EXCEPT !.status = "live"]
  /\ Publish

\* Mutant: a solve is taken on any scramble still open.
Lasts_Slip(number) == solves # <<>>
\* Whether a number is the last solve's.
Lasts(number) == solves # <<>> /\ number = Len(solves)

Recorded(seat, result) == [solves EXCEPT ![Len(solves)].results[seat] = result]
Mine(seat) == solves[Len(solves)].results[seat]

PlaySolve(seat, m) ==
  /\ Lasts(m.number) /\ Mine(seat) = Unsolved
  /\ solves' = Recorded(seat, [ms |-> m.ms, penalty |-> "none", on |-> m.on])
  /\ match' = Settled(solves')
  /\ Publish

PlayPenalty(seat, m) ==
  /\ Lasts(m.number) /\ Mine(seat) # Unsolved
  /\ solves' = Recorded(seat, [Mine(seat) EXCEPT !.penalty = m.penalty])
  /\ match' = Settled(solves')
  /\ Publish

\* Mutant: a solve is taken back after the other's.
MayCancel_Slip == TRUE
MayCancel == LastOpen

PlayCancel(seat, m) ==
  /\ Lasts(m.number) /\ MayCancel
  /\ solves' = Recorded(seat, Unsolved)
  /\ match' = match
  /\ Publish

PlayForfeit(seat) ==
  /\ match' = [status |-> "done", winner |-> 1 - seat, forfeit |-> TRUE]
  /\ solves' = solves
  /\ Publish

Move(seat, m) ==
  \/ m.type = "scramble" /\ PlayScramble(m)
  \/ m.type = "solve" /\ PlaySolve(seat, m)
  \/ m.type = "penalty" /\ PlayPenalty(seat, m)
  \/ m.type = "cancel" /\ PlayCancel(seat, m)
  \/ m.type = "forfeit" /\ PlayForfeit(seat)

\* Wrong or late moves are ignored.
Ignored(seat, m) ==
  \/ ~Playing
  \/ m.type = "scramble" /\ ~Takes(m.number)
  \/ m.type = "solve" /\ ~(Lasts(m.number) /\ Mine(seat) = Unsolved)
  \/ m.type = "penalty" /\ ~(Lasts(m.number) /\ Mine(seat) # Unsolved)
  \/ m.type = "cancel" /\ ~(Lasts(m.number) /\ MayCancel)

Play(s, m) ==
  /\ \/ s \in room /\ Playing /\ Move(s[1], m)
     \/ /\ s \notin room \/ Ignored(s[1], m)
        /\ UNCHANGED <<match, solves, last, down>>
  /\ UNCHANGED <<room, joining>>

\* The server takes a socket's next message; one that is joining takes none.
Serve(s) ==
  /\ joining[s] = NoValue /\ up[s] # <<>>
  /\ LET m == Head(up[s])
     IN \/ m.type = "join" /\ ReadToJoin(s)
        \/ m.type \in {"leave", "closed"} /\ Leave(s)
        \/ m.type \notin {"join", "leave", "closed"} /\ Play(s, m)
  /\ up' = [up EXCEPT ![s] = Tail(@)]
  /\ UNCHANGED <<sock, conn, clients, spoiled, passed, acts>>

---------------------------------------------------------------------------
(* The client of an app: what it shows, and what it asks of it. *)

Shown(app) == clients[app].shown
Shows(app) == Shown(app) # NoValue
Rows(shown) == IF shown = NoValue THEN <<>> ELSE shown.value.solves
ShownOver(shown) == shown.value.row.status = "done"
\* The solve being raced, as shown: the last one, while someone still has to solve it.
Racing(shown) == Rows(shown) # <<>> /\ OpenSolve(Rows(shown)[Len(Rows(shown))])
LastShown(app) == Rows(Shown(app))[Len(Rows(Shown(app)))]

\* An app's message, lost while its app has no socket.
Post(app, m) ==
  /\ up' = IF conn[app] THEN [up EXCEPT ![Current(app)] = Append(@, m)] ELSE up
  /\ spoiled' = (spoiled \/ (~conn[app] /\ m.type = "scramble"))

\* Whether the next scramble is this app's to draw: both players here, and the
\* first one's app, or the second's while the first is away.
Turn(app, state) ==
  /\ ~ShownOver(state) /\ ~Racing(state)
  /\ \A seat \in Seat : state.present[seat]
  /\ ~(app = 1 /\ state.present[0])

Draws(client, app, state) ==
  Turn(app, state) /\ client.drawn < Len(state.value.solves) + 1

\* A client receives the match: what it shows, and the next scramble it sets out to draw.
Received(app, state) ==
  LET client == clients[app]
      number == Len(state.value.solves) + 1
  IN IF ~client.open THEN client
     ELSE IF Draws(client, app, state) /\ number <= MaxSolves
     THEN [client EXCEPT !.shown = state, !.drawn = number, !.drawing = Append(@, number)]
     ELSE [client EXCEPT !.shown = state]

Receive(app) ==
  /\ down[app] # <<>>
  /\ down' = [down EXCEPT ![app] = Tail(@)]
  /\ clients' = [clients EXCEPT ![app] = Received(app, Head(down[app]))]
  /\ UNCHANGED <<server, up, sock, conn, spoiled, passed, acts>>

\* A scramble is drawn, and sent if the app still has the match.
Draw(app) ==
  \E i \in DOMAIN clients[app].drawing :
    LET number == clients[app].drawing[i]
    IN /\ clients' = [clients EXCEPT ![app].drawing = RemoveAt(@, i)]
       /\ IF clients[app].open /\ Shows(app)
          THEN Post(app, [type |-> "scramble", number |-> number,
                        text |-> [by |-> app, number |-> number]])
          ELSE UNCHANGED <<up, spoiled>>
       /\ UNCHANGED <<server, sock, conn, down, passed, acts>>

\* The search of a scramble fails: the next state the app hears draws it again.
DrawFails(app) ==
  /\ Acts
  /\ \E i \in DOMAIN clients[app].drawing :
       clients' = [clients EXCEPT ![app].drawing = RemoveAt(@, i), ![app].drawn = 0]
  /\ spoiled' = TRUE
  /\ UNCHANGED <<server, network, passed>>

\* The match's page opens, or opens again after an error.
Open(app) ==
  /\ ~clients[app].open
  /\ clients' = [clients EXCEPT ![app] = Opened(@)]
  /\ Post(app, [type |-> "join"])
  /\ UNCHANGED <<server, sock, conn, down, passed, acts>>

Close(app) ==
  /\ Acts
  /\ clients[app].open
  /\ clients' = [clients EXCEPT ![app].open = FALSE]
  /\ Post(app, [type |-> "leave"])
  /\ UNCHANGED <<server, sock, conn, down, passed>>

\* The player's solve ends: it shows at once.
EndSolve(app) ==
  LET shown == Shown(app)
  IN /\ clients[app].open /\ Shows(app)
     /\ ~ShownOver(shown) /\ Racing(shown) /\ LastShown(app).results[app] = Unsolved
     /\ shown.present[1 - app]
     /\ \E ms \in Times :
          /\ clients' = [clients EXCEPT ![app].shown.value.solves[Len(Rows(shown))].results[app] =
                        [ms |-> ms, penalty |-> "none", on |-> LastShown(app).text]]
          /\ Post(app, [type |-> "solve", number |-> Len(Rows(shown)), ms |-> ms,
                      on |-> LastShown(app).text])
     /\ UNCHANGED <<server, sock, conn, down, passed, acts>>

Penalise(app) ==
  /\ Acts
  /\ clients[app].open /\ Shows(app) /\ Rows(Shown(app)) # <<>> /\ ~ShownOver(Shown(app))
  /\ LET result == LastShown(app).results[app]
     IN /\ result # Unsolved
        /\ Post(app, [type |-> "penalty", number |-> Len(Rows(Shown(app))),
                    penalty |-> IF result.penalty = "dnf" THEN "none" ELSE "dnf"])
  /\ UNCHANGED <<server, sock, conn, down, clients, passed>>

Cancel(app) ==
  /\ Acts
  /\ clients[app].open /\ Shows(app) /\ ~ShownOver(Shown(app)) /\ Racing(Shown(app))
  /\ LastShown(app).results[app] # Unsolved
  /\ Post(app, [type |-> "cancel", number |-> Len(Rows(Shown(app)))])
  /\ UNCHANGED <<server, sock, conn, down, clients, passed>>

Forfeit(app) ==
  /\ Acts
  /\ clients[app].open /\ Shows(app) /\ ~ShownOver(Shown(app))
  /\ Post(app, [type |-> "forfeit"])
  /\ UNCHANGED <<server, sock, conn, down, clients, passed>>

---------------------------------------------------------------------------
(* The sockets. *)

\* A socket is lost: the server takes some of what it sent, then hears it closed.
Lose(app) ==
  LET s == Current(app)
  IN /\ conn[app] /\ Acts
     /\ \E n \in 0..Len(up[s]) :
          /\ up' = [up EXCEPT ![s] = Append(SubSeq(@, 1, n), [type |-> "closed"])]
          /\ spoiled' = (spoiled \/ \E i \in (n + 1)..Len(up[s]) : up[s][i].type = "scramble")
     /\ conn' = [conn EXCEPT ![app] = FALSE]
     /\ down' = [down EXCEPT ![app] = <<>>]
     /\ UNCHANGED <<server, sock, clients, passed>>

\* Mutant: a match open is not joined again.
Rejoins_Slip(app) == <<>>
\* Back online, a match open is joined again.
Rejoins(app) == IF clients[app].open THEN <<[type |-> "join"]>> ELSE <<>>

Reconnect(app) ==
  /\ ~conn[app] /\ sock[app] < MaxSockets
  /\ sock' = [sock EXCEPT ![app] = @ + 1]
  /\ conn' = [conn EXCEPT ![app] = TRUE]
  /\ up' = [up EXCEPT ![<<app, sock[app] + 1>>] = Rejoins(app)]
  /\ UNCHANGED <<server, down, clients, spoiled, passed, acts>>

Next ==
  \/ \E s \in Socket : Serve(s) \/ Enter(s)
  \/ \E app \in App :
       \/ Receive(app) \/ Draw(app) \/ DrawFails(app) \/ Open(app) \/ Close(app)
       \/ EndSolve(app) \/ Penalise(app) \/ Cancel(app) \/ Forfeit(app)
       \/ Lose(app) \/ Reconnect(app)

Spec == Init /\ [][Next]_vars

---------------------------------------------------------------------------
(* Properties. *)

TypeOK ==
  /\ match \in [status : {"ready", "live", "done"}, winner : {0, 1, NoOne}, forfeit : BOOLEAN]
  /\ solves \in Seq(Solve) /\ Len(solves) <= MaxSolves
  /\ room \subseteq Socket /\ (room = {} => last = NoValue)
  /\ \A app \in App :
       /\ Shows(app) => Rows(Shown(app)) \in Seq(Solve)
       /\ down[app] # <<>> => conn[app]

\* Nothing is on its way between an app and the server.
Quiet(app) == conn[app] /\ down[app] = <<>> /\ up[Current(app)] = <<>> /\ joining[Current(app)] = NoValue

\* Once nothing is on its way, an app that has the match open shows the match and
\* its viewers as they are, unless a join told an older state meanwhile.
Mirrors ==
  ~passed => \A app \in App :
    Quiet(app) /\ clients[app].open => Shown(app) = [value |-> Value(match, solves), present |-> Present(room)]

\* Both players here and nothing on its way, the next scramble is being drawn, as
\* long as none was lost and no search failed.
ScrambleComes ==
  (\A app \in App : Quiet(app)) /\ (\A s \in Socket : up[s] = <<>>)
  /\ Present(room) = [seat \in Seat |-> TRUE]
  /\ Playing /\ ~LastOpen /\ Len(solves) < MaxSolves /\ ~spoiled /\ ~passed
    => \E app \in App : clients[app].drawing # <<>>

\* Both players of a solve made it on its scramble.
SameScramble ==
  \A n \in DOMAIN solves : \A i \in Seat :
    solves[n].results[i] # Unsolved => solves[n].results[i].on = solves[n].text

\* A match not forfeited is over exactly when the score has a winner, who is its own.
FairEnd ==
  ~match.forfeit => match.winner = WinnerOf(solves) /\ (match.status = "done" <=> match.winner # NoOne)

\* The match, in a state of its type, ends as its solves say.
EndsRight == TypeOK /\ FairEnd

\* A solve both players made stays made, and its scramble its own.
SolvedStay ==
  [][\A n \in DOMAIN solves :
       /\ n \in DOMAIN solves' /\ solves'[n].text = solves[n].text
       /\ OpenSolve(solves'[n]) => OpenSolve(solves[n])]_vars

=============================================================================
