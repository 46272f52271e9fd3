-------------------------------- MODULE Duel --------------------------------
(***************************************************************************)
(* One-on-one races: the server's arena (duel.go), where sockets search an *)
(* event, are paired and race, and the client of each device (duel.ts),     *)
(* which mirrors the arena from the messages of its socket.                *)
(*                                                                         *)
(* A handler of the arena runs under its lock, a search but for the moment  *)
(* between leaving and joining.  Times, levels and the wait that widens     *)
(* them choose who is paired, and when: any two who may meet.  The chat,    *)
(* the phases relayed and the lobby's counts change nothing here.           *)
(***************************************************************************)
EXTENDS Naturals, FiniteSets, SequencesExt

CONSTANTS
  Device,
  Guest,       \* the devices without an account
  Event,
  Rounds,      \* rounds of a race: 5
  QueueMax,    \* sockets searching at once: 512
  MaxSockets,  \* bound: sockets a device opens
  MaxRaces,    \* bound: races
  MaxGames,    \* bound: games of a race
  MaxActs      \* bound: what users choose to do, and sockets lost

ASSUME DuelAssumption ==
  /\ Guest \subseteq Device
  /\ {Rounds, QueueMax, MaxSockets, MaxRaces, MaxGames} \subseteq Nat \ {0}
  /\ MaxActs \in Nat

VARIABLES
  queue,   \* those searching
  joining, \* sockets whose search left what they did and has not joined yet
  races,   \* every race started
  seats,   \* the race of each socket seated
  stats,   \* the games recorded
  up,      \* each socket's messages to the arena
  sock,    \* the socket each device has open, its last one if none
  conn,    \* whether it has one
  down,    \* what comes to each device on it
  client,  \* each device's DuelClient
  kept,    \* the battles each device keeps
  acts

arena == <<queue, joining, races, seats, stats>>
network == <<up, sock, conn, down>>
vars == <<queue, joining, races, seats, stats, up, sock, conn, down, client, kept, acts>>

Socket == Device \X (1..MaxSockets)
Seat == 1..2
Round == 1..Rounds
Nowhere == 0
RaceId == 0..MaxRaces
NoEvent == "no event"
NoSolve == "no solve"
Penalties == {"none", "dnf"}

\* A list of scrambles is known by the game and the event it was drawn for.
NoList == [race |-> 0, game |-> 0, event |-> NoEvent]
List == [race : RaceId, game : 0..MaxGames, event : Event \cup {NoEvent}]

Results == [Seat -> [Round -> Penalties \cup {NoSolve}]]
NoResults == [i \in Seat |-> [n \in Round |-> NoSolve]]

\* A race: who sits where and is still there, and the game under way.
Race ==
  [event : Event, player : [Seat -> Socket], here : [Seat -> BOOLEAN], scrambles : List,
   game : 1..MaxGames, results : Results, rematch : [Seat -> BOOLEAN], recorded : BOOLEAN]

Started(e, s, t) ==
  [event |-> e, player |-> <<s, t>>, here |-> <<TRUE, TRUE>>, scrambles |-> NoList,
   game |-> 1, results |-> NoResults, rematch |-> <<FALSE, FALSE>>, recorded |-> FALSE]

\* What a device knows of its search and of its race.
Client ==
  [status : {"off", "searching", "racing"}, wanted : Event \cup {NoEvent}, levels : SUBSET Event,
   levelEvent : Event \cup {NoEvent}, reading : SUBSET ((1..MaxActs) \X Event), failed : List,
   race : RaceId, seat : Seat, event : Event \cup {NoEvent}, game : 0..MaxGames, scrambles : List, results : Results,
   here : [Seat -> BOOLEAN], generated : 0..MaxGames, drawing : SUBSET List]

NewClient ==
  [status |-> "off", wanted |-> NoEvent, levels |-> {}, levelEvent |-> NoEvent, reading |-> {}, failed |-> NoList,
   race |-> Nowhere, seat |-> 1, event |-> NoEvent, game |-> 0, scrambles |-> NoList, results |-> NoResults,
   here |-> <<TRUE, TRUE>>, generated |-> 0, drawing |-> {}]

\* What a device sends.
Up ==
  [type : {"queue"}, event : Event] \cup [type : {"leave", "rematch", "closed"}]
    \cup [type : {"scrambles"}, list : List]
    \cup [type : {"solve", "cancel"}, round : Round]
    \cup [type : {"penalty"}, round : Round, penalty : Penalties]

\* What the arena sends.
Down ==
  [type : {"queued"}]
    \cup [type : {"match"}, race : RaceId, seat : Seat, event : Event]
    \cup [type : {"state"}, game : 1..MaxGames, scrambles : List, results : Results, here : [Seat -> BOOLEAN]]

\* Every piece of state has its type.
TypeOK ==
  /\ queue \subseteq [socket : Socket, event : Event]
  /\ joining \in [Socket -> Event \cup {NoEvent}]
  /\ races \in Seq(Race) /\ Len(races) <= MaxRaces
  /\ seats \in [Socket -> RaceId]
  /\ stats \subseteq [race : RaceId, game : 1..MaxGames, results : Results]
  /\ up \in [Socket -> Seq(Up)]
  /\ sock \in [Device -> 1..MaxSockets]
  /\ conn \in [Device -> BOOLEAN]
  /\ down \in [Device -> Seq(Down)]
  /\ client \in [Device -> Client]
  /\ kept \in [Device -> SUBSET [race : RaceId, game : 1..MaxGames]]
  /\ acts \in 0..MaxActs

Init ==
  /\ queue = {} /\ joining = [s \in Socket |-> NoEvent]
  /\ races = <<>> /\ seats = [s \in Socket |-> Nowhere] /\ stats = {}
  /\ up = [s \in Socket |-> <<>>]
  /\ sock = [d \in Device |-> 1] /\ conn = [d \in Device |-> TRUE]
  /\ down = [d \in Device |-> <<>>]
  /\ client = [d \in Device |-> NewClient]
  /\ kept = [d \in Device |-> {}]
  /\ acts = 0

-----------------------------------------------------------------------------
(* What the arena sends, and to whom.                                      *)

Current(d) == <<d, sock[d]>>

\* Each device's messages, with those the arena sends its open socket.
Sent(out(_)) == [d \in Device |-> IF conn[d] THEN down[d] \o out(Current(d)) ELSE down[d]]

StateOf(race) ==
  [type |-> "state", game |-> race.game, scrambles |-> race.scrambles, results |-> race.results, here |-> race.here]

Present(race) == {race.player[i] : i \in {j \in Seat : race.here[j]}}

\* race.broadcast(race.state())
Broadcast(race) ==
  down' = Sent(LAMBDA s : IF s \in Present(race) THEN <<StateOf(race)>> ELSE <<>>)

SeatOf(race, s) == CHOOSE i \in Seat : race.player[i] = s
Other(i) == 3 - i

Solved(race, n) == \A i \in Seat : race.results[i][n] # NoSolve
Over(race) == \A n \in Round : Solved(race, n)
OpenRound(race, n) == ~Solved(race, n) /\ \A m \in 1..(n - 1) : Solved(race, m)

\* record: the finished game, once.
Counted(r, race) ==
  IF Over(race) /\ ~race.recorded THEN {[race |-> r, game |-> race.game, results |-> race.results]} ELSE {}

-----------------------------------------------------------------------------
(* The arena: searching, pairing, leaving.                                 *)

\* duelGap: the same event, and never two devices of one account.
MayMeet(w, v) ==
  /\ w.socket # v.socket /\ w.event = v.event
  /\ w.socket[1] # v.socket[1] \/ w.socket[1] \in Guest

\* start: the race of two sockets taken out of the queue, told of their match and its state.
StartRace(w, v, waiting, told) ==
  LET r == Len(races) + 1
      race == Started(w.event, w.socket, v.socket)
      Match(s) == [type |-> "match", race |-> r, seat |-> SeatOf(race, s), event |-> race.event]
  IN /\ Len(races) < MaxRaces
     /\ MayMeet(w, v)
     /\ queue' = waiting \ {w, v}
     /\ races' = Append(races, race)
     /\ seats' = [seats EXCEPT ![w.socket] = r, ![v.socket] = r]
     /\ down' = Sent(LAMBDA s : told[s] \o IF s \in Present(race) THEN <<Match(s), StateOf(race)>> ELSE <<>>)

\* The tick pairs those whose range widened.
Tick ==
  /\ \E w, v \in queue : StartRace(w, v, queue, [s \in Socket |-> <<>>])
  /\ UNCHANGED <<joining, stats, up, sock, conn, client, kept, acts>>

\* Mutant: a player who leaves frees no seat.
SeatsLeft_Kept(s) == seats

SeatsLeft(s) == [seats EXCEPT ![s] = Nowhere]

\* Mutant: the game is counted by rematches only.
CountedLeft_Never(r) == {}

\* A game that is over counts when someone leaves.
CountedLeft(r) == Counted(r, races[r])

\* leave: out of the queue, or out of the race, whose finished game is recorded.
LeaveAll(s) ==
  /\ queue' = {w \in queue : w.socket # s}
  /\ IF seats[s] = Nowhere
     THEN UNCHANGED <<races, seats, stats, down>>
     ELSE LET r == seats[s]
              i == SeatOf(races[r], s)
              left == [races[r] EXCEPT !.here[i] = FALSE, !.rematch[i] = FALSE, !.recorded = @ \/ Over(races[r])]
          IN /\ races' = [races EXCEPT ![r] = left]
             /\ seats' = SeatsLeft(s)
             /\ stats' = stats \cup CountedLeft(r)
             /\ Broadcast(left)

\* The next message of a socket, taken once its search has joined.
Takes(s, type) ==
  /\ joining[s] = NoEvent
  /\ up[s] # <<>> /\ Head(up[s]).type = type
  /\ up' = [up EXCEPT ![s] = Tail(@)]
  /\ UNCHANGED <<sock, conn, client, kept, acts>>

\* queue: first out of whatever the socket did,
Queue(s) ==
  /\ Takes(s, "queue")
  /\ joining' = [joining EXCEPT ![s] = Head(up[s]).event]
  /\ LeaveAll(s)

\* then in the queue, unless it is full, and paired at once if someone close enough waits.
Join(s) ==
  /\ joining[s] # NoEvent
  /\ joining' = [joining EXCEPT ![s] = NoEvent]
  /\ LET w == [socket |-> s, event |-> joining[s]]
         queued == [t \in Socket |-> IF t = s THEN <<[type |-> "queued"]>> ELSE <<>>]
     IN IF Cardinality(queue) >= QueueMax
        THEN UNCHANGED <<queue, races, seats, down>>
        ELSE \/ /\ queue' = queue \cup {w}
                /\ down' = Sent(LAMBDA t : queued[t])
                /\ UNCHANGED <<races, seats>>
             \/ \E v \in queue : \/ StartRace(w, v, queue, queued)
                                 \/ StartRace(v, w, queue, queued)
  /\ UNCHANGED <<stats, up, sock, conn, client, kept, acts>>

\* A player leaves, or its socket is gone.
Leave(s) ==
  /\ Takes(s, "leave") \/ Takes(s, "closed")
  /\ LeaveAll(s)
  /\ UNCHANGED joining

-----------------------------------------------------------------------------
(* The arena: a move of a race.  Wrong or late ones are ignored.           *)

\* Any other message of a socket: it changes its race, or is ignored.
Plays(s, type, may, played) ==
  /\ Takes(s, type)
  /\ IF seats[s] # Nowhere /\ may
     THEN races' = [races EXCEPT ![seats[s]] = played] /\ Broadcast(played)
     ELSE UNCHANGED <<races, down>>
  /\ UNCHANGED <<queue, joining, seats>>

\* scrambles: the first player's, once a game.
MayDraw(race, i) == i = 1 /\ race.scrambles = NoList

PlayScrambles(s) ==
  /\ LET race == races[seats[s]]
     IN Plays(s, "scrambles", MayDraw(race, SeatOf(race, s)), [race EXCEPT !.scrambles = Head(up[s]).list])
  /\ UNCHANGED stats

MaySolve(race, i, n) == race.scrambles # NoList /\ OpenRound(race, n) /\ race.results[i][n] = NoSolve

PlaySolve(s) ==
  /\ LET race == races[seats[s]]
         i == SeatOf(race, s)
         n == Head(up[s]).round
     IN Plays(s, "solve", MaySolve(race, i, n), [race EXCEPT !.results[i][n] = "none"])
  /\ UNCHANGED stats

PlayPenalty(s) ==
  /\ LET race == races[seats[s]]
         i == SeatOf(race, s)
         n == Head(up[s]).round
     IN Plays(s, "penalty", race.results[i][n] # NoSolve, [race EXCEPT !.results[i][n] = Head(up[s]).penalty])
  /\ UNCHANGED stats

\* Mutant: a solve is taken back once the round is over.
MayCancel_Closed(race, i, n) == race.results[i][n] # NoSolve

\* cancel: while the other has not solved the round.
MayCancel(race, i, n) == race.results[i][n] # NoSolve /\ race.results[Other(i)][n] = NoSolve

PlayCancel(s) ==
  /\ LET race == races[seats[s]]
         i == SeatOf(race, s)
         n == Head(up[s]).round
     IN Plays(s, "cancel", MayCancel(race, i, n), [race EXCEPT !.results[i][n] = NoSolve])
  /\ UNCHANGED stats

\* The next game starts once both asked for it.
Agreed(race, i) == race.rematch[Other(i)]
NextGame(race) ==
  [race EXCEPT !.game = @ + 1, !.recorded = FALSE, !.scrambles = NoList,
               !.rematch = <<FALSE, FALSE>>, !.results = NoResults]

PlayRematch(s) ==
  LET r == seats[s]
      race == races[r]
      i == SeatOf(race, s)
      asked == IF Agreed(race, i) THEN NextGame(race) ELSE [race EXCEPT !.rematch[i] = TRUE]
  IN /\ r # Nowhere => race.game < MaxGames
     /\ Plays(s, "rematch", Over(race) /\ race.here[Other(i)], asked)
     /\ stats' = IF r # Nowhere /\ races'[r].game # race.game THEN stats \cup Counted(r, race) ELSE stats

Play(s) == PlayScrambles(s) \/ PlaySolve(s) \/ PlayPenalty(s) \/ PlayCancel(s) \/ PlayRematch(s)

-----------------------------------------------------------------------------
(* The client: what its messages change.                                   *)

Me(c) == c.results[c.seat]
Them(c) == c.results[Other(c.seat)]
ClientOver(c) == c.status = "racing" /\ c.scrambles # NoList /\ \A n \in Round : Me(c)[n] # NoSolve /\ Them(c)[n] # NoSolve
OpponentHere(c) == c.here[Other(c.seat)]
ClientRound(c, n) ==
  /\ Me(c)[n] = NoSolve \/ Them(c)[n] = NoSolve
  /\ \A m \in 1..(n - 1) : Me(c)[m] # NoSolve /\ Them(c)[m] # NoSolve
Latest(c, n) == Me(c)[n] # NoSolve /\ \A m \in Round : m > n => Me(c)[m] = NoSolve

\* Messages of the device, lost without a socket.
Posts(d, messages) == up' = IF conn[d] THEN [up EXCEPT ![Current(d)] = @ \o messages] ELSE up
Sends(d, message) == Posts(d, <<message>>)

Takes1(d, type) ==
  /\ down[d] # <<>> /\ Head(down[d]).type = type
  /\ down' = [down EXCEPT ![d] = Tail(@)]
  /\ UNCHANGED <<arena, sock, conn, acts>>

\* Whatever comes after leaving is not this player's any more.
ReceiveLate(d) ==
  /\ client[d].status = "off"
  /\ \E type \in {"queued", "match", "state"} : Takes1(d, type)
  /\ UNCHANGED <<up, client, kept>>

ReceiveQueued(d) ==
  /\ client[d].status # "off"
  /\ Takes1(d, "queued")
  /\ client' = [client EXCEPT ![d].status = "searching"]
  /\ UNCHANGED <<up, kept>>

ReceiveMatch(d) ==
  /\ client[d].status # "off"
  /\ Takes1(d, "match")
  /\ client' = [client EXCEPT ![d].status = "racing", ![d].race = Head(down[d]).race, ![d].seat = Head(down[d]).seat,
                              ![d].event = Head(down[d]).event, ![d].game = 0, ![d].generated = 0,
                              ![d].scrambles = NoList, ![d].results = NoResults]
  /\ UNCHANGED <<up, kept>>

\* The first player draws each game's scrambles, once it knows of the game.
MustDraw(c) == c.race # Nowhere /\ c.seat = 1 /\ c.scrambles = NoList /\ c.generated # c.game
Drawing(c) ==
  [c EXCEPT !.generated = c.game, !.drawing = @ \cup {[race |-> c.race, game |-> c.game, event |-> c.event]}]

ReceiveState(d) ==
  LET m == Head(down[d])
      c == [client[d] EXCEPT !.game = m.game, !.scrambles = m.scrambles, !.results = m.results, !.here = m.here]
  IN /\ client[d].status # "off"
     /\ Takes1(d, "state")
     /\ client' = [client EXCEPT ![d] = IF MustDraw(c) THEN Drawing(c) ELSE c]
     /\ kept' = IF ClientOver(c) THEN [kept EXCEPT ![d] = @ \cup {[race |-> c.race, game |-> c.game]}] ELSE kept
     /\ UNCHANGED up

\* generate: five scrambles later, for the game under way if it has the same number.
Draw(d) ==
  /\ \E list \in client[d].drawing :
       /\ client' = [client EXCEPT ![d].drawing = @ \ {list}]
       /\ IF client[d].game = list.game /\ client[d].status = "racing"
          THEN Sends(d, [type |-> "scrambles", list |-> list])
          ELSE UNCHANGED up
  /\ UNCHANGED <<arena, sock, conn, down, kept, acts>>

\* One of them cannot be drawn: the player is told.
DrawFails(d) ==
  /\ \E list \in client[d].drawing :
       client' = [client EXCEPT ![d].drawing = @ \ {list}, ![d].failed = list]
  /\ acts < MaxActs /\ acts' = acts + 1
  /\ UNCHANGED <<arena, network, kept>>

-----------------------------------------------------------------------------
(* The client: what its user does.                                         *)

Acts == acts < MaxActs /\ acts' = acts + 1

\* The server's queue, if it can be reached.
SendsQueue(d, c, e, messages) ==
  /\ Posts(d, Append(messages, [type |-> "queue", event |-> e]))
  /\ client' = [client EXCEPT ![d] = IF conn[d] THEN c ELSE [c EXCEPT !.status = "off"]]

\* search: the level on the event, read if it is not the one known, then the queue.
Searches(d, e, messages) ==
  LET c == [client[d] EXCEPT !.status = "searching", !.wanted = e, !.levelEvent = e]
  IN IF client[d].levelEvent = e /\ e \in c.levels
     THEN SendsQueue(d, c, e, messages)
     ELSE /\ client' = [client EXCEPT ![d] = [c EXCEPT !.reading = @ \cup {<<acts', e>>}]]
          /\ Posts(d, messages)

Search(d) ==
  /\ client[d].status = "off" /\ Acts
  /\ \E e \in Event : Searches(d, e, <<>>)
  /\ UNCHANGED <<arena, sock, conn, down, kept>>

\* Mutant: a search goes on whatever came meanwhile.
Awaited_Always(c, e) == TRUE

Awaited(c, e) == c.status = "searching" /\ c.wanted = e

\* The level is there: the search goes on if it is still the one awaited.
LevelRead(d) ==
  /\ \E level \in client[d].reading :
       LET c == [client[d] EXCEPT !.reading = @ \ {level}, !.levels = @ \cup {level[2]}]
       IN IF Awaited(c, level[2])
          THEN SendsQueue(d, c, level[2], <<>>)
          ELSE client' = [client EXCEPT ![d] = c] /\ UNCHANGED up
  /\ UNCHANGED <<arena, sock, conn, down, kept, acts>>

\* leave: stops searching, or leaves the race.
Quit(d) ==
  /\ client[d].status # "off" /\ Acts
  /\ client' = [client EXCEPT ![d].status = "off"]
  /\ Sends(d, [type |-> "leave"])
  /\ UNCHANGED <<arena, sock, conn, down, kept>>

\* next: leaves this opponent and looks for another on the same event at once.
Another(d) ==
  /\ client[d].status = "racing" /\ Acts
  /\ ClientOver(client[d]) \/ ~OpponentHere(client[d])
  /\ Searches(d, client[d].event, <<[type |-> "leave"]>>)
  /\ UNCHANGED <<arena, sock, conn, down, kept>>

\* A move sent; the server's state confirms it.
Moves(d, message) ==
  /\ client[d].status = "racing"
  /\ Sends(d, message)
  /\ UNCHANGED <<arena, sock, conn, down, kept>>

\* A solve is shown at once.
Solve(d) ==
  LET c == client[d]
  IN /\ c.scrambles # NoList /\ OpponentHere(c)
     /\ \E n \in Round :
          /\ ClientRound(c, n) /\ Me(c)[n] = NoSolve
          /\ client' = [client EXCEPT ![d].results[c.seat][n] = "none"]
          /\ Moves(d, [type |-> "solve", round |-> n])
     /\ UNCHANGED acts

Penalise(d) ==
  /\ Acts
  /\ \E n \in Round, p \in Penalties :
       /\ Latest(client[d], n) /\ Me(client[d])[n] # p
       /\ Moves(d, [type |-> "penalty", round |-> n, penalty |-> p])
  /\ UNCHANGED client

Cancel(d) ==
  /\ Acts
  /\ \E n \in Round :
       /\ Latest(client[d], n) /\ Them(client[d])[n] = NoSolve
       /\ Moves(d, [type |-> "cancel", round |-> n])
  /\ UNCHANGED client

AskRematch(d) ==
  /\ Acts
  /\ ClientOver(client[d]) /\ OpponentHere(client[d])
  /\ Moves(d, [type |-> "rematch"])
  /\ UNCHANGED client

-----------------------------------------------------------------------------
(* The sockets.                                                            *)

\* A socket is lost: the arena takes some of what it sent, then hears it closed.
Lose(d) ==
  /\ conn[d] /\ Acts
  /\ \E n \in 0..Len(up[Current(d)]) :
       up' = [up EXCEPT ![Current(d)] = Append(SubSeq(@, 1, n), [type |-> "closed"])]
  /\ conn' = [conn EXCEPT ![d] = FALSE]
  /\ down' = [down EXCEPT ![d] = <<>>]
  /\ client' = [client EXCEPT ![d].status = "off"]
  /\ UNCHANGED <<arena, sock, kept>>

Reconnect(d) ==
  /\ ~conn[d] /\ sock[d] < MaxSockets
  /\ sock' = [sock EXCEPT ![d] = @ + 1]
  /\ conn' = [conn EXCEPT ![d] = TRUE]
  /\ UNCHANGED <<arena, up, down, client, kept, acts>>

Serve(s) == Queue(s) \/ Join(s) \/ Leave(s) \/ Play(s)
Receive(d) == ReceiveLate(d) \/ ReceiveQueued(d) \/ ReceiveMatch(d) \/ ReceiveState(d)
Use(d) == Search(d) \/ Quit(d) \/ Another(d) \/ Solve(d) \/ Penalise(d) \/ Cancel(d) \/ AskRematch(d)

Next ==
  \/ Tick
  \/ \E s \in Socket : Serve(s)
  \/ \E d \in Device : Receive(d) \/ Draw(d) \/ DrawFails(d) \/ LevelRead(d) \/ Use(d) \/ Lose(d) \/ Reconnect(d)

Spec == Init /\ [][Next]_vars

-----------------------------------------------------------------------------
\* A socket is in one place: searching once, or in the one race that has it here.
OnePlace ==
  /\ \A s \in Socket :
       /\ Cardinality({w \in queue : w.socket = s}) + Cardinality({r \in DOMAIN races : s \in Present(races[r])}) <= 1
       /\ seats[s] # Nowhere <=> \E r \in DOMAIN races : s \in Present(races[r])
       /\ seats[s] # Nowhere => s \in Present(races[seats[s]])

\* An account never races itself, a socket it lost included.
NeverItself ==
  \A r \in DOMAIN races :
    races[r].player[1][1] = races[r].player[2][1] => races[r].player[1][1] \in Guest

\* A round starts once both solved the ones before it.
RoundsInOrder ==
  \A r \in DOMAIN races : \A i \in Seat, n \in Round :
    races[r].results[i][n] # NoSolve => \A m \in 1..(n - 1) : Solved(races[r], m)

\* Sockets and races agree on who sits where and what was played, in a state of its
\* type.
SeatsAgree == TypeOK /\ OnePlace /\ NeverItself /\ RoundsInOrder

\* A round both solved stays solved as long as its game lasts.
RoundsKept ==
  [][\A r \in DOMAIN races : \A n \in Round :
       Solved(races[r], n) /\ races'[r].game = races[r].game => Solved(races'[r], n)]_vars

\* A battle a device keeps is in the statistics once its game is behind.
BattlesCounted ==
  \A d \in Device : \A b \in kept[d] :
    races[b.race].game # b.game \/ Present(races[b.race]) = {}
      => \E g \in stats : g.race = b.race /\ g.game = b.game

\* Nothing is on its way between a device and the arena.
Quiet(d) ==
  /\ conn[d] /\ down[d] = <<>> /\ up[Current(d)] = <<>> /\ joining[Current(d)] = NoEvent
  /\ client[d].reading = {}

\* Once nothing is on its way, a device shows what the arena has of it.
Mirrors ==
  \A d \in Device :
    LET c == client[d]
        s == Current(d)
    IN Quiet(d) =>
         /\ c.status = "searching" <=> \E w \in queue : w.socket = s /\ w.event = c.wanted
         /\ c.status = "racing" <=> seats[s] # Nowhere
         /\ c.status = "racing" =>
              /\ c.race = seats[s] /\ c.game = races[c.race].game
              /\ c.scrambles = races[c.race].scrambles /\ c.results = races[c.race].results
              /\ c.here = races[c.race].here

=============================================================================
