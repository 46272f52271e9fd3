----------------------------- MODULE Duel_proofs -----------------------------
(***************************************************************************)
(* Proofs about Duel, for any devices, guests, events, rounds and bounds:  *)
(* sockets and races agree on who sits where and what was played, a round  *)
(* both solved stays solved, a battle a device keeps is counted, and a     *)
(* device that has heard everything shows what the arena has of it.        *)
(***************************************************************************)
EXTENDS Duel, SequenceTheorems, FiniteSetTheorems, TLAPS

\* OnePlace needs them: a socket seated is in the race it is seated in and in no other,
\* one that searches, or is about to, does nothing else, and no race is with oneself.
Seated ==
  \A s \in Socket : seats[s] # Nowhere => seats[s] \in DOMAIN races /\ s \in Present(races[seats[s]])
OneRace == \A r \in DOMAIN races : \A s \in Present(races[r]) : seats[s] = r
OneSearch == \A w, v \in queue : w.socket = v.socket => w = v
Searching == \A w \in queue : seats[w.socket] = Nowhere /\ joining[w.socket] = NoEvent
Joining == \A s \in Socket : joining[s] # NoEvent => seats[s] = Nowhere
Apart == \A r \in DOMAIN races : races[r].player[1] # races[r].player[2]

Places == Seated /\ OneRace /\ OneSearch /\ Searching /\ Joining /\ Apart

\* TypeOK needs it: a device that races knows the event.
Events == \A d \in Device : client[d].status = "racing" => client[d].event \in Event

ArenaInv == TypeOK /\ Places /\ NeverItself /\ RoundsInOrder /\ Events

-----------------------------------------------------------------------------
(* Sequences and pairs.                                                    *)

LEMMA Pair ==
  ASSUME NEW S, NEW a \in S, NEW b \in S
  PROVE  <<a, b>> \in [Seat -> S] /\ <<a, b>>[1] = a /\ <<a, b>>[2] = b
<1>1. Seat = 1..2 /\ 1..2 = {1, 2}
  BY DEF Seat
<1> QED
  BY <1>1

LEMMA OnePost ==
  ASSUME NEW S, NEW ms \in Seq(S), NEW m \in S
  PROVE  ms \o <<m>> \in Seq(S) /\ ms \o <<>> = ms
<1>1. <<m>> \in Seq(S)
  OBVIOUS
<1>2. ms \o <<m>> \in Seq(S)
  BY <1>1, ConcatProperties
<1>3. ms \o <<>> = ms
  BY ConcatEmptySeq
<1> QED
  BY <1>2, <1>3

LEMMA TailType ==
  ASSUME NEW S, NEW ms \in Seq(S), ms # <<>>
  PROVE  Tail(ms) \in Seq(S) /\ Head(ms) \in S
  BY HeadTailProperties

-----------------------------------------------------------------------------
(* Races.                                                                  *)

LEMMA Bounds == /\ MaxGames \in Nat /\ MaxGames >= 1 /\ MaxRaces \in Nat /\ MaxRaces >= 1
                /\ MaxSockets \in Nat /\ MaxSockets >= 1 /\ MaxActs \in Nat
                /\ Rounds \in Nat /\ Rounds >= 1 /\ QueueMax \in Nat /\ QueueMax >= 1
  BY DuelAssumption

LEMMA RaceParts ==
  ASSUME NEW race \in Race
  PROVE  /\ race.event \in Event /\ race.player \in [Seat -> Socket] /\ race.here \in [Seat -> BOOLEAN]
         /\ race.scrambles \in List /\ race.game \in 1..MaxGames /\ race.results \in Results
         /\ race.rematch \in [Seat -> BOOLEAN] /\ race.recorded \in BOOLEAN
         /\ race.player[1] \in Socket /\ race.player[2] \in Socket
  BY DEF Race, Seat

LEMMA InRaces ==
  ASSUME TypeOK, NEW r \in DOMAIN races
  PROVE  races[r] \in Race /\ r \in 1..MaxRaces /\ r \in RaceId /\ r # Nowhere /\ DOMAIN races = 1..Len(races)
  BY Bounds DEF TypeOK, RaceId, Nowhere

LEMMA SeatOfIs ==
  ASSUME NEW race \in Race, NEW s \in Present(race)
  PROVE  SeatOf(race, s) \in Seat /\ race.player[SeatOf(race, s)] = s
  BY DEF Present, SeatOf

LEMMA OtherIs == \A i \in Seat : Other(i) \in Seat /\ Other(i) # i /\ \A j \in Seat : j = i \/ j = Other(i)
  BY DEF Seat, Other

LEMMA PresentIs ==
  ASSUME NEW race \in Race, NEW s
  PROVE  /\ s \in Present(race) <=> \E i \in Seat : race.here[i] /\ race.player[i] = s
         /\ s \in Present(race) => s \in Socket
  BY DEF Present, Race

LEMMA EmptyTypes == NoList \in List /\ NoResults \in Results /\ \A n \in Round : ~(NoSolve \in Penalties)
<1>1. 0 \in RaceId /\ 0 \in 0..MaxGames
  BY Bounds DEF RaceId
<1>2. NoList \in List
  BY <1>1 DEF NoList, List
<1>3. NoResults \in Results
  BY DEF NoResults, Results
<1>4. ~(NoSolve \in Penalties)
  BY DEF NoSolve, Penalties
<1> QED
  BY <1>2, <1>3, <1>4

LEMMA StartedType ==
  ASSUME NEW e \in Event, NEW s \in Socket, NEW t \in Socket
  PROVE  /\ Started(e, s, t) \in Race /\ Present(Started(e, s, t)) = {s, t}
         /\ Started(e, s, t).player[1] = s /\ Started(e, s, t).player[2] = t
         /\ Started(e, s, t).results = NoResults
<1>1. <<s, t>> \in [Seat -> Socket] /\ <<TRUE, TRUE>> \in [Seat -> BOOLEAN] /\ <<FALSE, FALSE>> \in [Seat -> BOOLEAN]
  BY Pair
<1>2. 1 \in 1..MaxGames
  BY Bounds
<1>3. Started(e, s, t) \in Race
  BY <1>1, <1>2, EmptyTypes DEF Started, Race
<1>4. Seat = {1, 2}
  BY DEF Seat
<1>5. \A x : x \in Present(Started(e, s, t)) <=> x = s \/ x = t
  <2> DEFINE race == Started(e, s, t)
  <2>1. race.player[1] = s /\ race.player[2] = t /\ race.here[1] /\ race.here[2]
    BY DEF Started
  <2> HIDE DEF race
  <2> QED
    BY <1>4, <2>1 DEF Present, race
<1> QED
  BY <1>3, <1>5 DEF Started

LEMMA StateType == ASSUME NEW race \in Race PROVE StateOf(race) \in Down
  BY RaceParts DEF StateOf, Down

\* What a broadcast brings to each device.
LEMMA BroadcastIs ==
  ASSUME TypeOK, NEW race \in Race, Broadcast(race)
  PROVE  /\ down' \in [Device -> Seq(Down)]
         /\ \A d \in Device :
              down'[d] = IF conn[d] /\ Current(d) \in Present(race) THEN down[d] \o <<StateOf(race)>> ELSE down[d]
<1>1. StateOf(race) \in Down
  BY StateType
<1>2. \A d \in Device : down[d] \in Seq(Down)
  BY DEF TypeOK
<1>3. \A d \in Device : down[d] \o <<StateOf(race)>> \in Seq(Down) /\ down[d] \o <<>> = down[d]
  BY <1>1, <1>2, OnePost
<1>4. down' = [d \in Device |-> IF conn[d]
                 THEN down[d] \o (IF Current(d) \in Present(race) THEN <<StateOf(race)>> ELSE <<>>) ELSE down[d]]
  BY DEF Broadcast, Sent
<1> QED
  BY <1>2, <1>3, <1>4

-----------------------------------------------------------------------------
(* What changes the arena.                                                 *)

InOrder(results) ==
  \A i \in Seat, n \in Round : results[i][n] # NoSolve =>
    \A m \in 1..(n - 1) : \A j \in Seat : results[j][m] # NoSolve

LEMMA OrderIs ==
  ASSUME TypeOK
  PROVE  RoundsInOrder <=> \A r \in DOMAIN races : InOrder(races[r].results)
  BY DEF RoundsInOrder, InOrder, Solved

\* A race is started of two sockets that did nothing else.
LEMMA StartKeeps ==
  ASSUME ArenaInv, NEW w \in [socket : Socket, event : Event], NEW v \in [socket : Socket, event : Event],
         MayMeet(w, v), Len(races) < MaxRaces,
         seats[w.socket] = Nowhere, seats[v.socket] = Nowhere,
         \A x \in queue : (x.socket = w.socket => x = w) /\ (x.socket = v.socket => x = v),
         joining' \in [Socket -> Event \cup {NoEvent}],
         \A s \in Socket : joining'[s] # NoEvent => joining[s] # NoEvent /\ s # w.socket /\ s # v.socket,
         queue' = queue \ {w, v},
         races' = Append(races, Started(w.event, w.socket, v.socket)),
         seats' = [seats EXCEPT ![w.socket] = Len(races) + 1, ![v.socket] = Len(races) + 1]
  PROVE  /\ Places' /\ NeverItself' /\ RoundsInOrder'
         /\ queue' \subseteq [socket : Socket, event : Event]
         /\ races' \in Seq(Race) /\ Len(races') <= MaxRaces /\ seats' \in [Socket -> RaceId]
<1> DEFINE k == Len(races) + 1
           race == Started(w.event, w.socket, v.socket)
<1>0. /\ races \in Seq(Race) /\ Len(races) \in Nat /\ DOMAIN races = 1..Len(races)
      /\ queue \subseteq [socket : Socket, event : Event] /\ seats \in [Socket -> RaceId]
  BY DEF ArenaInv, TypeOK
<1>1. /\ race \in Race /\ Present(race) = {w.socket, v.socket}
      /\ race.player[1] = w.socket /\ race.player[2] = v.socket /\ race.results = NoResults
  BY StartedType
<1> HIDE DEF race
<1>2. /\ races' \in Seq(Race) /\ Len(races') = k /\ DOMAIN races' = 1..k
      /\ races'[k] = race /\ \A r \in DOMAIN races : r \in DOMAIN races' /\ races'[r] = races[r]
  BY <1>0, <1>1 DEF race
<1>3. k \in RaceId /\ k # Nowhere /\ k \notin DOMAIN races /\ k <= MaxRaces
  BY <1>0, Bounds DEF RaceId, Nowhere
<1>4. /\ seats' \in [Socket -> RaceId] /\ seats'[w.socket] = k /\ seats'[v.socket] = k
      /\ \A s \in Socket : s # w.socket /\ s # v.socket => seats'[s] = seats[s]
  BY <1>0, <1>3
<1> HIDE DEF k
<1>5. \A r \in DOMAIN races' : r = k \/ r \in DOMAIN races
  BY <1>0, <1>2 DEF k
<1>6. w.socket # v.socket /\ w.socket \in Socket /\ v.socket \in Socket
  BY DEF MayMeet
<1>7. Seated'
  <2> SUFFICES ASSUME NEW s \in Socket, seats'[s] # Nowhere
               PROVE  seats'[s] \in DOMAIN races' /\ s \in Present(races'[seats'[s]])
    BY DEF Seated, Present
  <2>1. CASE s = w.socket \/ s = v.socket
    BY <1>1, <1>2, <1>3, <1>4, <1>5, <2>1 DEF k
  <2>2. CASE ~(s = w.socket \/ s = v.socket)
    BY <1>2, <1>4, <2>2 DEF ArenaInv, Places, Seated
  <2> QED
    BY <2>1, <2>2
<1>8. OneRace'
  <2> SUFFICES ASSUME NEW r \in DOMAIN races', NEW s \in Present(races'[r]) PROVE seats'[s] = r
    BY DEF OneRace, Present
  <2>1. CASE r = k
    BY <1>1, <1>2, <1>4, <2>1
  <2>2. CASE r \in DOMAIN races
    <3>1. races'[r] = races[r] /\ races[r] \in Race
      BY <1>0, <1>2, <2>2
    <3>2. seats[s] = r /\ s \in Socket /\ r # Nowhere
      BY <3>1, <2>2, PresentIs, InRaces DEF ArenaInv, Places, OneRace
    <3>3. s # w.socket /\ s # v.socket
      BY <3>2
    <3> QED
      BY <1>4, <3>2, <3>3
  <2> QED
    BY <1>5, <2>1, <2>2
<1>9. OneSearch' /\ Searching' /\ Joining'
  <2>1. \A x \in queue' : x \in queue /\ x.socket \in Socket /\ x.socket # w.socket /\ x.socket # v.socket
    BY <1>0
  <2> QED
    BY <1>3, <1>4, <2>1 DEF ArenaInv, Places, OneSearch, Searching, Joining
<1>10. Apart' /\ NeverItself'
  <2>1. \A r \in DOMAIN races' : races'[r] = race \/ (r \in DOMAIN races /\ races'[r] = races[r])
    BY <1>2, <1>5
  <2>2. race.player[1][1] = race.player[2][1] => race.player[1][1] \in Guest
    BY <1>1 DEF MayMeet
  <2> QED
    BY <1>1, <1>6, <2>1, <2>2 DEF ArenaInv, Places, Apart, NeverItself
<1>11. RoundsInOrder'
  <2>1. \A r \in DOMAIN races' : races'[r] = race \/ (r \in DOMAIN races /\ races'[r] = races[r])
    BY <1>2, <1>5
  <2>2. \A i \in Seat, n \in Round : race.results[i][n] = NoSolve
    BY <1>1 DEF NoResults
  <2> QED
    BY <2>1, <2>2 DEF ArenaInv, RoundsInOrder, Solved
<1> QED
  BY <1>0, <1>2, <1>3, <1>4, <1>7, <1>8, <1>9, <1>10, <1>11 DEF Places

\* A race changes, and not who is in it.
LEMMA PlayKeeps ==
  ASSUME ArenaInv, NEW r \in DOMAIN races, NEW played \in Race,
         played.player = races[r].player, played.here = races[r].here, InOrder(played.results),
         races' = [races EXCEPT ![r] = played], UNCHANGED <<queue, joining, seats>>
  PROVE  /\ Places' /\ NeverItself' /\ RoundsInOrder'
         /\ races' \in Seq(Race) /\ Len(races') <= MaxRaces
<1>0. races \in Seq(Race) /\ Len(races) \in Nat /\ DOMAIN races = 1..Len(races) /\ Len(races) <= MaxRaces
  BY DEF ArenaInv, TypeOK
<1>1. /\ races' \in Seq(Race) /\ Len(races') = Len(races) /\ DOMAIN races' = DOMAIN races
      /\ races'[r] = played /\ \A q \in DOMAIN races : q # r => races'[q] = races[q]
  BY <1>0
<1>2. \A q \in DOMAIN races : races'[q].player = races[q].player /\ races'[q].here = races[q].here
  BY <1>1
<1>3. \A q \in DOMAIN races : Present(races'[q]) = Present(races[q])
  BY <1>2 DEF Present
<1>4. Seated' /\ OneRace' /\ OneSearch' /\ Searching' /\ Joining'
  BY <1>1, <1>3 DEF ArenaInv, Places, Seated, OneRace, OneSearch, Searching, Joining
<1>5. Apart' /\ NeverItself'
  BY <1>1, <1>2 DEF ArenaInv, Places, Apart, NeverItself
<1>6. RoundsInOrder'
  <2>1. \A q \in DOMAIN races : InOrder(races'[q].results)
    BY <1>1, OrderIs DEF ArenaInv
  <2> QED
    BY <1>1, <2>1 DEF RoundsInOrder, InOrder, Solved
<1> QED
  BY <1>0, <1>1, <1>4, <1>5, <1>6 DEF Places

\* A socket leaves the race it is in.
Leaves(s, r, left) ==
  /\ left.player = races[r].player /\ left.results = races[r].results
  /\ left.game = races[r].game
  /\ left.recorded <=> races[r].recorded \/ Over(races[r])
  /\ \A t : t \in Present(left) <=> t \in Present(races[r]) /\ t # s
  /\ races' = [races EXCEPT ![r] = left] /\ seats' = [seats EXCEPT ![s] = Nowhere]
  /\ stats' = stats \cup Counted(r, races[r]) /\ Broadcast(left)

LEMMA LeaveIs ==
  ASSUME ArenaInv, NEW s \in Socket, LeaveAll(s), seats[s] # Nowhere
  PROVE  /\ seats[s] \in DOMAIN races /\ races[seats[s]] \in Race
         /\ \E left \in Race : Leaves(s, seats[s], left)
<1> DEFINE r == seats[s]
           i == SeatOf(races[r], s)
           left == [races[r] EXCEPT !.here[i] = FALSE, !.rematch[i] = FALSE, !.recorded = @ \/ Over(races[r])]
<1>1. r \in DOMAIN races /\ s \in Present(races[r]) /\ races[r] \in Race
  BY DEF ArenaInv, TypeOK, Places, Seated
<1>2. i \in Seat /\ races[r].player[i] = s
  BY <1>1, SeatOfIs
<1>3. /\ races' = [races EXCEPT ![r] = left] /\ seats' = [seats EXCEPT ![s] = Nowhere]
      /\ stats' = stats \cup Counted(r, races[r]) /\ Broadcast(left)
  BY DEF LeaveAll, SeatsLeft, CountedLeft
<1> HIDE DEF r, i
<1>4. Over(races[r]) \in BOOLEAN
  BY DEF Over
<1>5. /\ left \in Race /\ left.player = races[r].player /\ left.results = races[r].results
      /\ left.game = races[r].game
      /\ left.here = [races[r].here EXCEPT ![i] = FALSE]
  BY <1>1, <1>2, <1>4 DEF Race
<1>6. left.recorded <=> races[r].recorded \/ Over(races[r])
  BY <1>1, <1>4 DEF Race
<1> HIDE DEF left
<1>7. \A t : t \in Present(left) <=> t \in Present(races[r]) /\ t # s
  <2>1. \A j \in Seat : left.here[j] <=> races[r].here[j] /\ j # i
    BY <1>1, <1>2, <1>5, RaceParts
  <2>2. \A j \in Seat : races[r].player[j] = s => j = i
    <3>1. Seat = {1, 2}
      BY DEF Seat
    <3> QED
      BY <1>1, <1>2, <3>1 DEF ArenaInv, Places, Apart
  <2>3. \A t : t \in Present(left) <=> \E j \in Seat : left.here[j] /\ left.player[j] = t
    BY <1>5, PresentIs
  <2>4. \A t : t \in Present(races[r]) <=> \E j \in Seat : races[r].here[j] /\ races[r].player[j] = t
    BY <1>1, PresentIs
  <2>5. \A j \in Seat : races[r].player[j] = s <=> j = i
    BY <1>2, <2>2
  <2> QED
    BY <1>5, <2>1, <2>3, <2>4, <2>5
<1>8. Leaves(s, r, left)
  BY <1>3, <1>5, <1>6, <1>7 DEF Leaves
<1> QED
  BY <1>1, <1>5, <1>8 DEF r

\* A socket leaves what it did.
LEMMA LeaveKeeps ==
  ASSUME ArenaInv, NEW s \in Socket, LeaveAll(s), UNCHANGED <<conn, sock>>,
         joining' \in [Socket -> Event \cup {NoEvent}], \A t \in Socket : t # s => joining'[t] = joining[t]
  PROVE  /\ Places' /\ NeverItself' /\ RoundsInOrder'
         /\ queue' \subseteq [socket : Socket, event : Event] /\ \A w \in queue' : w.socket # s
         /\ races' \in Seq(Race) /\ Len(races') <= MaxRaces /\ seats' \in [Socket -> RaceId]
         /\ stats' \subseteq [race : RaceId, game : 1..MaxGames, results : Results]
         /\ down' \in [Device -> Seq(Down)] /\ seats'[s] = Nowhere
<1>0. /\ races \in Seq(Race) /\ Len(races) \in Nat /\ DOMAIN races = 1..Len(races) /\ Len(races) <= MaxRaces
      /\ queue \subseteq [socket : Socket, event : Event] /\ seats \in [Socket -> RaceId]
      /\ stats \subseteq [race : RaceId, game : 1..MaxGames, results : Results]
      /\ down \in [Device -> Seq(Down)]
  BY DEF ArenaInv, TypeOK
<1>1. queue' = {w \in queue : w.socket # s}
  BY DEF LeaveAll
<1>2. CASE seats[s] = Nowhere
  <2>1. UNCHANGED <<races, seats, stats, down>>
    BY <1>2 DEF LeaveAll
  <2>2. Seated' /\ OneRace'
    BY <2>1 DEF ArenaInv, Places, Seated, OneRace, Present
  <2>3. OneSearch' /\ Searching' /\ Joining'
    BY <1>0, <1>1, <1>2, <2>1 DEF ArenaInv, Places, OneSearch, Searching, Joining
  <2>4. Apart' /\ NeverItself' /\ RoundsInOrder'
    BY <2>1 DEF ArenaInv, Places, Apart, NeverItself, RoundsInOrder, Solved
  <2> QED
    BY <1>0, <1>1, <1>2, <2>1, <2>2, <2>3, <2>4 DEF Places
<1>3. CASE seats[s] # Nowhere
  <2> DEFINE r == seats[s]
  <2>1. r \in DOMAIN races /\ races[r] \in Race
    BY <1>3, LeaveIs
  <2>2. PICK left \in Race : Leaves(s, r, left)
    BY <1>3, LeaveIs
  <2> HIDE DEF r
  <2>3. /\ races' = [races EXCEPT ![r] = left] /\ seats' = [seats EXCEPT ![s] = Nowhere]
        /\ stats' = stats \cup Counted(r, races[r]) /\ Broadcast(left)
    BY <2>2 DEF Leaves
  <2>4. left.player = races[r].player /\ left.results = races[r].results
    BY <2>2 DEF Leaves
  <2>5. \A t : t \in Present(left) <=> t \in Present(races[r]) /\ t # s
    BY <2>2 DEF Leaves
  <2>6. /\ races' \in Seq(Race) /\ Len(races') = Len(races) /\ DOMAIN races' = DOMAIN races
        /\ races'[r] = left /\ \A q \in DOMAIN races : q # r => races'[q] = races[q]
    BY <1>0, <2>1, <2>3, <2>4
  <2>7. /\ seats' \in [Socket -> RaceId] /\ seats'[s] = Nowhere
        /\ \A t \in Socket : t # s => seats'[t] = seats[t]
    BY <1>0, <2>3, Bounds DEF RaceId, Nowhere
  <2>8. stats' \subseteq [race : RaceId, game : 1..MaxGames, results : Results]
    <3>1. races[r].game \in 1..MaxGames /\ races[r].results \in Results /\ r \in RaceId
      BY <2>1, RaceParts, InRaces DEF ArenaInv
    <3> QED
      BY <1>0, <2>3, <3>1 DEF Counted
  <2>9. down' \in [Device -> Seq(Down)]
    BY <2>3, BroadcastIs DEF ArenaInv
  <2>10. seats[s] = r
    BY DEF r
  <2>11. Seated'
    <3> SUFFICES ASSUME NEW t \in Socket, seats'[t] # Nowhere
                 PROVE  seats'[t] \in DOMAIN races' /\ t \in Present(races'[seats'[t]])
      BY DEF Seated, Present
    <3>1. t # s /\ seats'[t] = seats[t]
      BY <2>7
    <3>2. seats[t] \in DOMAIN races /\ t \in Present(races[seats[t]])
      BY <3>1 DEF ArenaInv, Places, Seated
    <3> QED
      BY <2>5, <2>6, <3>1, <3>2
  <2>12. OneRace'
    <3> SUFFICES ASSUME NEW q \in DOMAIN races', NEW t \in Present(races'[q]) PROVE seats'[t] = q
      BY DEF OneRace, Present
    <3>1. t \in Present(races[q]) /\ q \in DOMAIN races
      BY <2>5, <2>6
    <3>2. seats[t] = q /\ t \in Socket
      BY <1>0, <3>1, PresentIs DEF ArenaInv, Places, OneRace
    <3>3. t # s
      BY <2>5, <2>6, <2>10, <3>2
    <3> QED
      BY <2>7, <3>2, <3>3
  <2>13. OneSearch' /\ Searching' /\ Joining'
    <3>1. \A w \in queue' : w \in queue /\ w.socket # s /\ w.socket \in Socket
      BY <1>0, <1>1
    <3> QED
      BY <2>7, <3>1 DEF ArenaInv, Places, OneSearch, Searching, Joining
  <2>14. \A q \in DOMAIN races : races'[q].player = races[q].player /\ races'[q].results = races[q].results
    BY <2>4, <2>6
  <2>15. Apart' /\ NeverItself' /\ RoundsInOrder'
    BY <2>6, <2>14 DEF ArenaInv, Places, Apart, NeverItself, RoundsInOrder, Solved
  <2> QED
    BY <1>0, <1>1, <2>6, <2>7, <2>8, <2>9, <2>11, <2>12, <2>13, <2>15 DEF Places
<1> QED
  BY <1>2, <1>3
-----------------------------------------------------------------------------
(* The steps of the arena.                                                 *)

\* What the start of a race brings to each device, after what it was told before.
MatchOf(r, race, s) == [type |-> "match", race |-> r, seat |-> SeatOf(race, s), event |-> race.event]

Tells(w, v, told) ==
  LET r == Len(races) + 1
      race == Started(w.event, w.socket, v.socket)
  IN  \A d \in Device :
        /\ ~conn[d] => down'[d] = down[d]
        /\ conn[d] /\ Current(d) \notin {w.socket, v.socket} => down'[d] = down[d] \o told[Current(d)]
        /\ conn[d] /\ Current(d) \in {w.socket, v.socket} =>
             down'[d] = down[d] \o (told[Current(d)] \o <<MatchOf(r, race, Current(d)), StateOf(race)>>)

LEMMA StartTells ==
  ASSUME TypeOK, NEW w, NEW v, NEW waiting, NEW told, StartRace(w, v, waiting, told),
         w \in [socket : Socket, event : Event], v \in [socket : Socket, event : Event],
         \A s \in Socket : told[s] = <<>> \/ told[s] = <<[type |-> "queued"]>>
  PROVE  down' \in [Device -> Seq(Down)] /\ Tells(w, v, told)
<1> DEFINE r == Len(races) + 1
           race == Started(w.event, w.socket, v.socket)
<1>1. /\ race \in Race /\ Present(race) = {w.socket, v.socket} /\ race.event = w.event
      /\ w.event \in Event
  <2>1. w.event \in Event /\ w.socket \in Socket /\ v.socket \in Socket
    OBVIOUS
  <2>2. race \in Race /\ Present(race) = {w.socket, v.socket}
    BY <2>1, StartedType
  <2>3. race.event = w.event
    BY DEF Started
  <2> QED
    BY <2>1, <2>2, <2>3
<1>2. r \in RaceId
  <2>1. Len(races) < MaxRaces
    BY DEF StartRace
  <2>2. Len(races) \in Nat
    BY DEF TypeOK
  <2> QED
    BY <2>1, <2>2, Bounds DEF RaceId
<1>3. \A d \in Device : Current(d) \in Socket /\ down[d] \in Seq(Down)
  BY DEF TypeOK, Current, Socket
<1>4. down' = [d \in Device |-> IF conn[d]
                 THEN down[d] \o (told[Current(d)] \o (IF Current(d) \in Present(race)
                                                       THEN <<MatchOf(r, race, Current(d)), StateOf(race)>> ELSE <<>>))
                 ELSE down[d]]
  BY DEF StartRace, Sent, MatchOf
<1> HIDE DEF race, r
<1>5. [type |-> "queued"] \in Down /\ StateOf(race) \in Down
  BY <1>1, StateType DEF Down
<1>6. \A s \in Present(race) : MatchOf(r, race, s) \in Down
  BY <1>1, <1>2, SeatOfIs DEF MatchOf, Down
<1>7. \A s \in Socket : told[s] \in Seq(Down)
  <2>1. <<>> \in Seq(Down) /\ <<[type |-> "queued"]>> \in Seq(Down)
    BY <1>5
  <2> QED
    BY <2>1
<1>8. \A d \in Device : Current(d) \in Present(race) => <<MatchOf(r, race, Current(d)), StateOf(race)>> \in Seq(Down)
  BY <1>5, <1>6
<1>9. \A d \in Device : told[Current(d)] \o <<>> = told[Current(d)]
  BY <1>3, <1>7, ConcatEmptySeq
<1>10. \A d \in Device :
         /\ ~conn[d] => down'[d] = down[d]
         /\ conn[d] /\ Current(d) \notin Present(race) => down'[d] = down[d] \o told[Current(d)]
         /\ conn[d] /\ Current(d) \in Present(race) =>
              down'[d] = down[d] \o (told[Current(d)] \o <<MatchOf(r, race, Current(d)), StateOf(race)>>)
  BY <1>4, <1>9
<1>11. ASSUME NEW d \in Device PROVE down'[d] \in Seq(Down)
  <2>0. down[d] \in Seq(Down) /\ told[Current(d)] \in Seq(Down)
    BY <1>3, <1>7
  <2>1. down[d] \o told[Current(d)] \in Seq(Down)
    BY <2>0, ConcatProperties
  <2>2. ASSUME Current(d) \in Present(race)
        PROVE  down[d] \o (told[Current(d)] \o <<MatchOf(r, race, Current(d)), StateOf(race)>>) \in Seq(Down)
    <3>1. <<MatchOf(r, race, Current(d)), StateOf(race)>> \in Seq(Down)
      BY <1>8, <2>2
    <3>2. told[Current(d)] \o <<MatchOf(r, race, Current(d)), StateOf(race)>> \in Seq(Down)
      BY <2>0, <3>1, ConcatProperties
    <3> QED
      BY <2>0, <3>2, ConcatProperties
  <2> QED
    BY <1>10, <2>0, <2>1, <2>2
<1>12. down' \in [Device -> Seq(Down)]
  BY <1>4, <1>11
<1> QED
  BY <1>1, <1>10, <1>12 DEF r, race, Tells

\* Two that did nothing else are paired, whether both waited or one just came.
LEMMA PairKeeps ==
  ASSUME ArenaInv, NEW w \in [socket : Socket, event : Event], NEW v \in [socket : Socket, event : Event],
         NEW told, StartRace(w, v, queue, told),
         \A s \in Socket : told[s] = <<>> \/ told[s] = <<[type |-> "queued"]>>,
         seats[w.socket] = Nowhere, seats[v.socket] = Nowhere,
         \A x \in queue : (x.socket = w.socket => x = w) /\ (x.socket = v.socket => x = v),
         joining' \in [Socket -> Event \cup {NoEvent}],
         \A s \in Socket : joining'[s] # NoEvent => joining[s] # NoEvent /\ s # w.socket /\ s # v.socket,
         UNCHANGED <<stats, up, sock, conn, client, kept, acts>>
  PROVE  ArenaInv'
<1>1. down' \in [Device -> Seq(Down)]
  BY StartTells DEF ArenaInv
<1>2. /\ MayMeet(w, v) /\ Len(races) < MaxRaces /\ queue' = queue \ {w, v}
      /\ races' = Append(races, Started(w.event, w.socket, v.socket))
      /\ seats' = [seats EXCEPT ![w.socket] = Len(races) + 1, ![v.socket] = Len(races) + 1]
  BY DEF StartRace
<1>3. /\ Places' /\ NeverItself' /\ RoundsInOrder'
      /\ queue' \subseteq [socket : Socket, event : Event]
      /\ races' \in Seq(Race) /\ Len(races') <= MaxRaces /\ seats' \in [Socket -> RaceId]
  BY <1>2, StartKeeps
<1>4. Events'
  BY DEF ArenaInv, Events
<1> QED
  BY <1>1, <1>3, <1>4 DEF ArenaInv, TypeOK

LEMMA TickSteps == ASSUME ArenaInv, Tick PROVE ArenaInv'
<1>0. UNCHANGED <<joining, stats, up, sock, conn, client, kept, acts>>
  BY DEF Tick
<1> DEFINE told == [s \in Socket |-> <<>>]
<1>1. PICK w \in queue, v \in queue : StartRace(w, v, queue, told)
  BY DEF Tick
<1>2. \A s \in Socket : told[s] = <<>> \/ told[s] = <<[type |-> "queued"]>>
  OBVIOUS
<1> HIDE DEF told
<1>3. w \in [socket : Socket, event : Event] /\ v \in [socket : Socket, event : Event]
  BY DEF ArenaInv, TypeOK
<1>4. /\ seats[w.socket] = Nowhere /\ seats[v.socket] = Nowhere
      /\ joining[w.socket] = NoEvent /\ joining[v.socket] = NoEvent
      /\ \A x \in queue : (x.socket = w.socket => x = w) /\ (x.socket = v.socket => x = v)
  BY DEF ArenaInv, Places, Searching, OneSearch
<1>5. joining' \in [Socket -> Event \cup {NoEvent}]
  BY <1>0 DEF ArenaInv, TypeOK
<1> QED
  BY <1>0, <1>1, <1>2, <1>3, <1>4, <1>5, PairKeeps

\* A message taken leaves the messages typed.
LEMMA TakesType ==
  ASSUME TypeOK, NEW s \in Socket, NEW type, Takes(s, type)
  PROVE  /\ up' \in [Socket -> Seq(Up)] /\ Head(up[s]) \in Up /\ Head(up[s]).type = type
         /\ joining[s] = NoEvent /\ UNCHANGED <<sock, conn, client, kept, acts>>
<1>1. /\ joining[s] = NoEvent /\ UNCHANGED <<sock, conn, client, kept, acts>>
      /\ up[s] # <<>> /\ up' = [up EXCEPT ![s] = Tail(@)] /\ Head(up[s]).type = type
  BY DEF Takes
<1>2. up[s] \in Seq(Up) /\ up \in [Socket -> Seq(Up)]
  BY DEF TypeOK
<1>3. Tail(up[s]) \in Seq(Up) /\ Head(up[s]) \in Up
  BY <1>1, <1>2, TailType
<1> QED
  BY <1>1, <1>2, <1>3

LEMMA QueueSteps == ASSUME ArenaInv, NEW s \in Socket, Queue(s) PROVE ArenaInv'
<1>1. /\ Takes(s, "queue") /\ LeaveAll(s)
      /\ joining' = [joining EXCEPT ![s] = Head(up[s]).event]
  BY DEF Queue
<1>2. /\ up' \in [Socket -> Seq(Up)] /\ Head(up[s]) \in Up /\ Head(up[s]).type = "queue"
      /\ UNCHANGED <<sock, conn, client, kept, acts>>
  BY <1>1, TakesType DEF ArenaInv
<1>3. Head(up[s]).event \in Event
  BY <1>2 DEF Up
<1>4. joining' \in [Socket -> Event \cup {NoEvent}] /\ \A t \in Socket : t # s => joining'[t] = joining[t]
  BY <1>1, <1>3 DEF ArenaInv, TypeOK
<1>5. Events'
  BY <1>2 DEF ArenaInv, Events
<1> QED
  BY <1>1, <1>2, <1>4, <1>5, LeaveKeeps DEF ArenaInv, TypeOK

LEMMA LeaveSteps == ASSUME ArenaInv, NEW s \in Socket, Leave(s) PROVE ArenaInv'
<1>1. PICK type : Takes(s, type)
  BY DEF Leave
<1>2. LeaveAll(s) /\ UNCHANGED joining
  BY DEF Leave
<1>3. /\ up' \in [Socket -> Seq(Up)] /\ UNCHANGED <<sock, conn, client, kept, acts>>
  BY <1>1, TakesType DEF ArenaInv
<1>4. joining' \in [Socket -> Event \cup {NoEvent}] /\ \A t \in Socket : t # s => joining'[t] = joining[t]
  BY <1>2 DEF ArenaInv, TypeOK
<1>5. Events'
  BY <1>3 DEF ArenaInv, Events
<1> QED
  BY <1>2, <1>3, <1>4, <1>5, LeaveKeeps DEF ArenaInv, TypeOK

LEMMA JoinSteps == ASSUME ArenaInv, NEW s \in Socket, Join(s) PROVE ArenaInv'
<1> DEFINE w == [socket |-> s, event |-> joining[s]]
           queued == [t \in Socket |-> IF t = s THEN <<[type |-> "queued"]>> ELSE <<>>]
<1>0. /\ joining[s] # NoEvent /\ joining' = [joining EXCEPT ![s] = NoEvent]
      /\ UNCHANGED <<stats, up, sock, conn, client, kept, acts>>
  BY DEF Join
<1>1. /\ joining' \in [Socket -> Event \cup {NoEvent}] /\ joining'[s] = NoEvent
      /\ \A t \in Socket : t # s => joining'[t] = joining[t]
  BY <1>0 DEF ArenaInv, TypeOK
<1>2. w \in [socket : Socket, event : Event] /\ w.socket = s
  BY <1>0 DEF ArenaInv, TypeOK
<1>3. seats[s] = Nowhere /\ \A x \in queue : x.socket # s /\ x.socket \in Socket
  BY <1>0 DEF ArenaInv, TypeOK, Places, Joining, Searching
<1>4. \A t \in Socket : queued[t] = <<>> \/ queued[t] = <<[type |-> "queued"]>>
  OBVIOUS
<1>5. ASSUME NEW v \in queue
      PROVE  /\ v \in [socket : Socket, event : Event]
             /\ seats[v.socket] = Nowhere /\ joining[v.socket] = NoEvent
             /\ \A x \in queue : x.socket = v.socket => x = v
             /\ \A t \in Socket : joining'[t] # NoEvent => joining[t] # NoEvent /\ t # s /\ t # v.socket
  <2>1. /\ v \in [socket : Socket, event : Event]
        /\ seats[v.socket] = Nowhere /\ joining[v.socket] = NoEvent
        /\ \A x \in queue : x.socket = v.socket => x = v
    BY DEF ArenaInv, TypeOK, Places, Searching, OneSearch
  <2> QED
    BY <1>1, <2>1
<1>6. ASSUME UNCHANGED <<races, seats>>, queue' = queue \/ queue' = queue \cup {w}, down' \in [Device -> Seq(Down)]
      PROVE  ArenaInv'
  <2>1. queue' \subseteq [socket : Socket, event : Event]
    BY <1>2, <1>6 DEF ArenaInv, TypeOK
  <2>2. TypeOK'
    BY <1>0, <1>1, <1>6, <2>1 DEF ArenaInv, TypeOK
  <2>3. Seated' /\ OneRace' /\ Apart' /\ NeverItself' /\ RoundsInOrder'
    BY <1>6 DEF ArenaInv, Places, Seated, OneRace, Apart, NeverItself, RoundsInOrder, Present, Solved
  <2>4. Joining'
    BY <1>1, <1>6 DEF ArenaInv, Places, Joining
  <2> HIDE DEF w
  <2>5. OneSearch' /\ Searching'
    BY <1>1, <1>2, <1>3, <1>6 DEF ArenaInv, Places, OneSearch, Searching
  <2>6. Events'
    BY <1>0 DEF ArenaInv, Events
  <2> QED
    BY <2>2, <2>3, <2>4, <2>5, <2>6 DEF ArenaInv, Places
<1>7. CASE Cardinality(queue) >= QueueMax
  <2>1. UNCHANGED <<queue, races, seats, down>>
    BY <1>7 DEF Join
  <2> QED
    BY <1>6, <2>1 DEF ArenaInv, TypeOK
<1>8. CASE /\ queue' = queue \cup {w} /\ UNCHANGED <<races, seats>>
           /\ down' = [d \in Device |-> IF conn[d] THEN down[d] \o queued[Current(d)] ELSE down[d]]
  <2>1. down' = [d \in Device |-> IF conn[d] THEN down[d] \o queued[Current(d)] ELSE down[d]]
    BY <1>8
  <2> HIDE DEF queued
  <2>2. ASSUME NEW d \in Device PROVE down'[d] \in Seq(Down)
    <3>1. Current(d) \in Socket /\ down[d] \in Seq(Down)
      BY DEF ArenaInv, TypeOK, Current, Socket
    <3>2. queued[Current(d)] \in Seq(Down)
      <4>1. [type |-> "queued"] \in Down
        BY DEF Down
      <4>2. <<>> \in Seq(Down) /\ <<[type |-> "queued"]>> \in Seq(Down)
        BY <4>1
      <4> QED
        BY <1>4, <3>1, <4>2
    <3>3. down[d] \o queued[Current(d)] \in Seq(Down)
      BY <3>1, <3>2, ConcatProperties
    <3> QED
      BY <2>1, <3>1, <3>3
  <2>3. down' \in [Device -> Seq(Down)]
    BY <2>1, <2>2
  <2> QED
    BY <1>6, <1>8, <2>3
<1>9. CASE \E v \in queue : StartRace(w, v, queue, queued) \/ StartRace(v, w, queue, queued)
  <2> HIDE DEF w, queued
  <2>1. PICK v \in queue : StartRace(w, v, queue, queued) \/ StartRace(v, w, queue, queued)
    BY <1>9
  <2>2. CASE StartRace(w, v, queue, queued)
    BY <1>0, <1>1, <1>2, <1>3, <1>4, <1>5, <2>2, PairKeeps
  <2>3. CASE StartRace(v, w, queue, queued)
    BY <1>0, <1>1, <1>2, <1>3, <1>4, <1>5, <2>3, PairKeeps
  <2> QED
    BY <2>1, <2>2, <2>3
<1>10. \/ Cardinality(queue) >= QueueMax
       \/ /\ queue' = queue \cup {w} /\ UNCHANGED <<races, seats>>
          /\ down' = [d \in Device |-> IF conn[d] THEN down[d] \o queued[Current(d)] ELSE down[d]]
       \/ \E v \in queue : StartRace(w, v, queue, queued) \/ StartRace(v, w, queue, queued)
  BY DEF Join, Sent
<1> HIDE DEF w, queued
<1> QED
  BY <1>7, <1>8, <1>9, <1>10
-----------------------------------------------------------------------------
(* The moves of a race.                                                    *)

LEMMA ResultSet ==
  ASSUME NEW race \in Race, NEW i \in Seat, NEW n \in Round, NEW x \in Penalties \cup {NoSolve}
  PROVE  LET played == [race EXCEPT !.results[i][n] = x]
         IN  /\ played \in Race /\ played.player = race.player /\ played.here = race.here
             /\ played.game = race.game /\ played.recorded = race.recorded
             /\ played.results[i][n] = x
             /\ \A j \in Seat, m \in Round : (j # i \/ m # n) => played.results[j][m] = race.results[j][m]
<1> DEFINE results == [race.results EXCEPT ![i][n] = x]
           played == [race EXCEPT !.results[i][n] = x]
<1>1. race.results \in Results
  BY RaceParts
<1>2. /\ results \in Results /\ results[i][n] = x
      /\ \A j \in Seat, m \in Round : (j # i \/ m # n) => results[j][m] = race.results[j][m]
  BY <1>1 DEF Results
<1>3. played = [race EXCEPT !.results = results]
  BY DEF Race
<1> HIDE DEF results
<1>4. played \in Race /\ played.results = results
  BY <1>2, <1>3 DEF Race
<1>5. /\ played.player = race.player /\ played.here = race.here
      /\ played.game = race.game /\ played.recorded = race.recorded
  BY <1>3 DEF Race
<1> QED
  BY <1>2, <1>4, <1>5

\* A move within a game keeps the rounds both solved; the next game starts once this
\* one is over.
Keeps(race, played) ==
  /\ played.player = race.player /\ played.here = race.here /\ InOrder(played.results)
  /\ \/ /\ played.game = race.game /\ played.recorded = race.recorded
        /\ \A n \in Round : Solved(race, n) => Solved(played, n)
     \/ played.game = race.game + 1 /\ played.recorded = FALSE /\ Over(race)

LEMMA SolveKeeps ==
  ASSUME NEW race \in Race, InOrder(race.results), NEW i \in Seat, NEW n \in Round, MaySolve(race, i, n)
  PROVE  LET played == [race EXCEPT !.results[i][n] = "none"] IN played \in Race /\ Keeps(race, played)
<1> DEFINE played == [race EXCEPT !.results[i][n] = "none"]
<1>1. "none" \in Penalties /\ "none" # NoSolve
  BY DEF Penalties, NoSolve
<1>2. /\ played \in Race /\ played.player = race.player /\ played.here = race.here
      /\ played.game = race.game /\ played.recorded = race.recorded
      /\ played.results[i][n] = "none"
      /\ \A j \in Seat, m \in Round : (j # i \/ m # n) => played.results[j][m] = race.results[j][m]
  BY <1>1, ResultSet
<1> HIDE DEF played
<1>3. \A j \in Seat, m \in Round : race.results[j][m] # NoSolve => played.results[j][m] # NoSolve
  BY <1>1, <1>2
<1>4. \A m \in 1..(n - 1) : \A j \in Seat : race.results[j][m] # NoSolve
  BY DEF MaySolve, OpenRound, Solved
<1>5. InOrder(played.results)
  <2> SUFFICES ASSUME NEW j \in Seat, NEW k \in Round, played.results[j][k] # NoSolve, NEW m \in 1..(k - 1), NEW l \in Seat
               PROVE  played.results[l][m] # NoSolve
    BY DEF InOrder
  <2>1. m \in Round
    BY Bounds DEF Round
  <2>2. race.results[l][m] # NoSolve
    <3>1. CASE j = i /\ k = n
      BY <1>4, <3>1
    <3>2. CASE ~(j = i /\ k = n)
      BY <1>2, <3>2 DEF InOrder
    <3> QED
      BY <3>1, <3>2
  <2> QED
    BY <1>3, <2>1, <2>2
<1>6. \A m \in Round : Solved(race, m) => Solved(played, m)
  BY <1>3 DEF Solved
<1>7. Keeps(race, played)
  BY <1>2, <1>5, <1>6 DEF Keeps
<1> QED
  BY <1>2, <1>7 DEF played

LEMMA PenaltyKeeps ==
  ASSUME NEW race \in Race, InOrder(race.results), NEW i \in Seat, NEW n \in Round, NEW p \in Penalties,
         race.results[i][n] # NoSolve
  PROVE  LET played == [race EXCEPT !.results[i][n] = p] IN played \in Race /\ Keeps(race, played)
<1> DEFINE played == [race EXCEPT !.results[i][n] = p]
<1>1. p # NoSolve
  BY DEF Penalties, NoSolve
<1>2. /\ played \in Race /\ played.player = race.player /\ played.here = race.here
      /\ played.game = race.game /\ played.recorded = race.recorded
      /\ played.results[i][n] = p
      /\ \A j \in Seat, m \in Round : (j # i \/ m # n) => played.results[j][m] = race.results[j][m]
  BY <1>1, ResultSet
<1> HIDE DEF played
<1>3. \A j \in Seat, m \in Round : race.results[j][m] # NoSolve <=> played.results[j][m] # NoSolve
  BY <1>1, <1>2
<1>5. InOrder(played.results)
  <2> SUFFICES ASSUME NEW j \in Seat, NEW k \in Round, played.results[j][k] # NoSolve, NEW m \in 1..(k - 1), NEW l \in Seat
               PROVE  played.results[l][m] # NoSolve
    BY DEF InOrder
  <2>1. m \in Round
    BY Bounds DEF Round
  <2>2. race.results[l][m] # NoSolve
    BY <1>3 DEF InOrder
  <2> QED
    BY <1>3, <2>1, <2>2
<1>6. \A m \in Round : Solved(race, m) => Solved(played, m)
  BY <1>3 DEF Solved
<1>7. Keeps(race, played)
  BY <1>2, <1>5, <1>6 DEF Keeps
<1> QED
  BY <1>2, <1>7 DEF played

LEMMA CancelKeeps ==
  ASSUME NEW race \in Race, InOrder(race.results), NEW i \in Seat, NEW n \in Round, MayCancel(race, i, n)
  PROVE  LET played == [race EXCEPT !.results[i][n] = NoSolve] IN played \in Race /\ Keeps(race, played)
<1> DEFINE played == [race EXCEPT !.results[i][n] = NoSolve]
<1>1. race.results[Other(i)][n] = NoSolve /\ Other(i) \in Seat
  BY OtherIs DEF MayCancel
<1>2. /\ played \in Race /\ played.player = race.player /\ played.here = race.here
      /\ played.game = race.game /\ played.recorded = race.recorded
      /\ played.results[i][n] = NoSolve
      /\ \A j \in Seat, m \in Round : (j # i \/ m # n) => played.results[j][m] = race.results[j][m]
  BY ResultSet
<1> HIDE DEF played
<1>3. \A j \in Seat, m \in Round : m # n => played.results[j][m] = race.results[j][m]
  BY <1>2
<1>4. \A j \in Seat, m \in Round : played.results[j][m] # NoSolve => race.results[j][m] # NoSolve
  BY <1>2
<1>5. InOrder(played.results)
  <2> SUFFICES ASSUME NEW j \in Seat, NEW k \in Round, played.results[j][k] # NoSolve, NEW m \in 1..(k - 1), NEW l \in Seat
               PROVE  played.results[l][m] # NoSolve
    BY DEF InOrder
  <2>1. m \in Round
    BY Bounds DEF Round
  <2>2. \A h \in Seat : race.results[h][m] # NoSolve
    BY <1>4 DEF InOrder
  <2>3. m # n
    BY <1>1, <2>2
  <2> QED
    BY <1>3, <2>1, <2>2, <2>3
<1>6. \A m \in Round : Solved(race, m) => Solved(played, m)
  BY <1>1, <1>3 DEF Solved
<1>7. Keeps(race, played)
  BY <1>2, <1>5, <1>6 DEF Keeps
<1> QED
  BY <1>2, <1>7 DEF played

LEMMA OtherMoves ==
  ASSUME NEW race \in Race, InOrder(race.results)
  PROVE  /\ \A list \in List : LET played == [race EXCEPT !.scrambles = list] IN played \in Race /\ Keeps(race, played)
         /\ \A i \in Seat : LET played == [race EXCEPT !.rematch[i] = TRUE] IN played \in Race /\ Keeps(race, played)
         /\ Over(race) /\ race.game < MaxGames => NextGame(race) \in Race /\ Keeps(race, NextGame(race))
<1>1. ASSUME NEW list \in List
      PROVE  LET played == [race EXCEPT !.scrambles = list] IN played \in Race /\ Keeps(race, played)
  <2> DEFINE played == [race EXCEPT !.scrambles = list]
  <2>1. /\ played \in Race /\ played.player = race.player /\ played.here = race.here
        /\ played.game = race.game /\ played.recorded = race.recorded /\ played.results = race.results
    BY DEF Race
  <2> HIDE DEF played
  <2>2. Keeps(race, played)
    BY <2>1 DEF Keeps, Solved
  <2> QED
    BY <2>1, <2>2 DEF played
<1>2. ASSUME NEW i \in Seat
      PROVE  LET played == [race EXCEPT !.rematch[i] = TRUE] IN played \in Race /\ Keeps(race, played)
  <2> DEFINE played == [race EXCEPT !.rematch[i] = TRUE]
  <2>1. /\ played \in Race /\ played.player = race.player /\ played.here = race.here
        /\ played.game = race.game /\ played.recorded = race.recorded /\ played.results = race.results
    BY DEF Race
  <2> HIDE DEF played
  <2>2. Keeps(race, played)
    BY <2>1 DEF Keeps, Solved
  <2> QED
    BY <2>1, <2>2 DEF played
<1>3. ASSUME Over(race), race.game < MaxGames PROVE NextGame(race) \in Race /\ Keeps(race, NextGame(race))
  <2> DEFINE played == NextGame(race)
  <2>1. <<FALSE, FALSE>> \in [Seat -> BOOLEAN]
    BY Pair
  <2>2. race.game + 1 \in 1..MaxGames
    BY <1>3, Bounds, RaceParts
  <2>3. /\ played \in Race /\ played.player = race.player /\ played.here = race.here
        /\ played.game = race.game + 1 /\ played.recorded = FALSE /\ played.results = NoResults
    BY <2>1, <2>2, EmptyTypes DEF NextGame, Race
  <2> HIDE DEF played
  <2>4. InOrder(played.results)
    BY <2>3 DEF InOrder, NoResults
  <2>5. Keeps(race, played)
    BY <1>3, <2>3, <2>4 DEF Keeps
  <2> QED
    BY <2>3, <2>5 DEF played
<1> QED
  BY <1>1, <1>2, <1>3
\* What a move does: nothing, or a change of the race its socket is in.
Changes(r, played) ==
  /\ r \in DOMAIN races /\ Keeps(races[r], played)
  /\ races' = [races EXCEPT ![r] = played] /\ Broadcast(played)
  /\ stats' = IF played.game # races[r].game THEN stats \cup Counted(r, races[r]) ELSE stats

LEMMA SeatIs ==
  ASSUME ArenaInv, NEW s \in Socket, seats[s] # Nowhere
  PROVE  /\ seats[s] \in DOMAIN races /\ races[seats[s]] \in Race /\ InOrder(races[seats[s]].results)
         /\ s \in Present(races[seats[s]]) /\ SeatOf(races[seats[s]], s) \in Seat
<1>1. seats[s] \in DOMAIN races /\ s \in Present(races[seats[s]])
  BY DEF ArenaInv, Places, Seated
<1>2. races[seats[s]] \in Race
  BY <1>1, InRaces DEF ArenaInv
<1>3. InOrder(races[seats[s]].results)
  BY <1>1, OrderIs DEF ArenaInv
<1> QED
  BY <1>1, <1>2, <1>3, SeatOfIs

LEMMA PlayIs ==
  ASSUME ArenaInv, NEW s \in Socket, Play(s)
  PROVE  /\ UNCHANGED <<queue, joining, seats>> /\ \E type : Takes(s, type)
         /\ \/ UNCHANGED <<races, down, stats>>
            \/ seats[s] # Nowhere /\ \E played \in Race : Changes(seats[s], played)
<1> DEFINE r == seats[s]
           race == races[seats[s]]
           i == SeatOf(races[seats[s]], s)
           n == Head(up[s]).round
<1>0. r # Nowhere => r \in DOMAIN races /\ race \in Race /\ InOrder(race.results) /\ i \in Seat
  BY SeatIs
<1>00. \A type : Takes(s, type) => Head(up[s]) \in Up /\ Head(up[s]).type = type
  BY TakesType DEF ArenaInv
<1>1. CASE PlayScrambles(s)
  <2> DEFINE played == [race EXCEPT !.scrambles = Head(up[s]).list]
  <2>1. /\ Takes(s, "scrambles") /\ UNCHANGED <<queue, joining, seats, stats>>
        /\ (UNCHANGED <<races, down>>) \/ (r # Nowhere /\ races' = [races EXCEPT ![r] = played] /\ Broadcast(played))
    BY <1>1 DEF PlayScrambles, Plays
  <2>2. Head(up[s]).list \in List
    BY <1>00, <2>1 DEF Up
  <2>3. r # Nowhere => played \in Race /\ Keeps(race, played) /\ played.game = race.game
    <3>1. r # Nowhere => played \in Race /\ Keeps(race, played)
      BY <1>0, <2>2, OtherMoves
    <3>2. r # Nowhere => played.game = race.game
      BY <1>0 DEF Race
    <3> QED
      BY <3>1, <3>2
  <2> HIDE DEF played
  <2> QED
    BY <1>0, <2>1, <2>3 DEF Changes
<1>2. CASE PlaySolve(s)
  <2> DEFINE played == [race EXCEPT !.results[i][n] = "none"]
  <2>1. /\ Takes(s, "solve") /\ UNCHANGED <<queue, joining, seats, stats>>
        /\ \/ UNCHANGED <<races, down>>
           \/ r # Nowhere /\ MaySolve(race, i, n) /\ races' = [races EXCEPT ![r] = played] /\ Broadcast(played)
    BY <1>2 DEF PlaySolve, Plays
  <2>2. n \in Round
    BY <1>00, <2>1 DEF Up
  <2>3. r # Nowhere /\ MaySolve(race, i, n) => played \in Race /\ Keeps(race, played) /\ played.game = race.game
    <3>1. r # Nowhere /\ MaySolve(race, i, n) => played \in Race /\ Keeps(race, played)
      BY <1>0, <2>2, SolveKeeps
    <3>2. r # Nowhere => played.game = race.game
      BY <1>0 DEF Race
    <3> QED
      BY <3>1, <3>2
  <2> HIDE DEF played
  <2> QED
    BY <1>0, <2>1, <2>3 DEF Changes
<1>3. CASE PlayPenalty(s)
  <2> DEFINE played == [race EXCEPT !.results[i][n] = Head(up[s]).penalty]
  <2>1. /\ Takes(s, "penalty") /\ UNCHANGED <<queue, joining, seats, stats>>
        /\ \/ UNCHANGED <<races, down>>
           \/ r # Nowhere /\ race.results[i][n] # NoSolve /\ races' = [races EXCEPT ![r] = played] /\ Broadcast(played)
    BY <1>3 DEF PlayPenalty, Plays
  <2>2. n \in Round /\ Head(up[s]).penalty \in Penalties
    BY <1>00, <2>1 DEF Up
  <2>3. r # Nowhere /\ race.results[i][n] # NoSolve => played \in Race /\ Keeps(race, played) /\ played.game = race.game
    <3>1. r # Nowhere /\ race.results[i][n] # NoSolve => played \in Race /\ Keeps(race, played)
      BY <1>0, <2>2, PenaltyKeeps
    <3>2. r # Nowhere => played.game = race.game
      BY <1>0 DEF Race
    <3> QED
      BY <3>1, <3>2
  <2> HIDE DEF played
  <2> QED
    BY <1>0, <2>1, <2>3 DEF Changes
<1>4. CASE PlayCancel(s)
  <2> DEFINE played == [race EXCEPT !.results[i][n] = NoSolve]
  <2>1. /\ Takes(s, "cancel") /\ UNCHANGED <<queue, joining, seats, stats>>
        /\ \/ UNCHANGED <<races, down>>
           \/ r # Nowhere /\ MayCancel(race, i, n) /\ races' = [races EXCEPT ![r] = played] /\ Broadcast(played)
    BY <1>4 DEF PlayCancel, Plays
  <2>2. n \in Round
    BY <1>00, <2>1 DEF Up
  <2>3. r # Nowhere /\ MayCancel(race, i, n) => played \in Race /\ Keeps(race, played) /\ played.game = race.game
    <3>1. r # Nowhere /\ MayCancel(race, i, n) => played \in Race /\ Keeps(race, played)
      BY <1>0, <2>2, CancelKeeps
    <3>2. r # Nowhere => played.game = race.game
      BY <1>0 DEF Race
    <3> QED
      BY <3>1, <3>2
  <2> HIDE DEF played
  <2> QED
    BY <1>0, <2>1, <2>3 DEF Changes
<1>5. CASE PlayRematch(s)
  <2> DEFINE asked == IF Agreed(race, i) THEN NextGame(race) ELSE [race EXCEPT !.rematch[i] = TRUE]
  <2>1. /\ Takes(s, "rematch") /\ UNCHANGED <<queue, joining, seats>>
        /\ \/ UNCHANGED <<races, down>>
           \/ r # Nowhere /\ Over(race) /\ races' = [races EXCEPT ![r] = asked] /\ Broadcast(asked)
        /\ stats' = IF r # Nowhere /\ races'[r].game # race.game THEN stats \cup Counted(r, race) ELSE stats
        /\ r # Nowhere => race.game < MaxGames
    BY <1>5 DEF PlayRematch, Plays
  <2>2. r # Nowhere /\ Over(race) => asked \in Race /\ Keeps(race, asked)
    BY <1>0, <2>1, OtherMoves
  <2> HIDE DEF asked
  <2>3. CASE UNCHANGED <<races, down>>
    BY <2>1, <2>3
  <2>4. CASE r # Nowhere /\ Over(race) /\ races' = [races EXCEPT ![r] = asked] /\ Broadcast(asked)
    <3>1. races'[r] = asked
      BY <1>0, <2>4
    <3> QED
      BY <1>0, <2>1, <2>2, <2>4, <3>1 DEF Changes
  <2> QED
    BY <2>1, <2>3, <2>4
<1> QED
  BY <1>1, <1>2, <1>3, <1>4, <1>5 DEF Play

LEMMA CountedType ==
  ASSUME TypeOK, NEW r \in DOMAIN races
  PROVE  Counted(r, races[r]) \subseteq [race : RaceId, game : 1..MaxGames, results : Results]
<1>1. races[r].game \in 1..MaxGames /\ races[r].results \in Results /\ r \in RaceId
  BY RaceParts, InRaces
<1> QED
  BY <1>1 DEF Counted

LEMMA PlaySteps == ASSUME ArenaInv, NEW s \in Socket, Play(s) PROVE ArenaInv'
<1>1. UNCHANGED <<queue, joining, seats>> /\ \E type : Takes(s, type)
  BY PlayIs
<1>2. up' \in [Socket -> Seq(Up)] /\ UNCHANGED <<sock, conn, client, kept, acts>> /\ Events'
  BY <1>1, TakesType DEF ArenaInv, Events
<1>3. CASE UNCHANGED <<races, down, stats>>
  <2>1. TypeOK'
    BY <1>1, <1>2, <1>3 DEF ArenaInv, TypeOK
  <2>2. Places' /\ NeverItself' /\ RoundsInOrder'
    BY <1>1, <1>3 DEF ArenaInv, Places, Seated, OneRace, OneSearch, Searching, Joining, Apart,
                      NeverItself, RoundsInOrder, Present, Solved
  <2> QED
    BY <1>2, <2>1, <2>2 DEF ArenaInv
<1>4. CASE \E played \in Race : Changes(seats[s], played)
  <2>1. PICK played \in Race : Changes(seats[s], played)
    BY <1>4
  <2>2. PICK r \in DOMAIN races : r = seats[s]
    BY <2>1 DEF Changes
  <2>3. /\ Places' /\ NeverItself' /\ RoundsInOrder'
        /\ races' \in Seq(Race) /\ Len(races') <= MaxRaces
    BY <1>1, <2>1, <2>2, PlayKeeps DEF Changes, Keeps
  <2>4. down' \in [Device -> Seq(Down)]
    BY <2>1, BroadcastIs DEF ArenaInv, Changes
  <2>5. stats' \subseteq [race : RaceId, game : 1..MaxGames, results : Results]
    BY <2>1, <2>2, CountedType DEF ArenaInv, TypeOK, Changes
  <2> QED
    BY <1>1, <1>2, <2>3, <2>4, <2>5 DEF ArenaInv, TypeOK
<1> QED
  BY <1>3, <1>4, PlayIs

LEMMA ServeSteps == ASSUME ArenaInv, NEW s \in Socket, Serve(s) PROVE ArenaInv'
  BY QueueSteps, JoinSteps, LeaveSteps, PlaySteps DEF Serve

-----------------------------------------------------------------------------
(* The steps of the devices leave the arena alone.                         *)

LEMMA ArenaStays ==
  ASSUME ArenaInv, UNCHANGED arena, TypeOK', Events'
  PROVE  ArenaInv'
  BY DEF ArenaInv, arena, Places, Seated, OneRace, OneSearch, Searching, Joining, Apart,
         NeverItself, RoundsInOrder, Present, Solved

LEMMA CurrentIs == ASSUME TypeOK, NEW d \in Device PROVE Current(d) \in Socket
  BY DEF TypeOK, Current, Socket

LEMMA ClientParts ==
  ASSUME TypeOK, NEW d \in Device
  PROVE  client[d] \in Client
  BY DEF TypeOK

\* A device posts messages.
LEMMA PostsType ==
  ASSUME TypeOK, NEW d \in Device, NEW ms \in Seq(Up), Posts(d, ms)
  PROVE  up' \in [Socket -> Seq(Up)]
<1>1. up[Current(d)] \o ms \in Seq(Up)
  BY CurrentIs, ConcatProperties DEF TypeOK
<1> QED
  BY <1>1, CurrentIs DEF TypeOK, Posts

LEMMA SendsType ==
  ASSUME TypeOK, NEW d \in Device, NEW m \in Up, Sends(d, m)
  PROVE  up' \in [Socket -> Seq(Up)]
<1>1. <<m>> \in Seq(Up)
  OBVIOUS
<1> QED
  BY <1>1, PostsType DEF Sends

LEMMA ClientSet ==
  ASSUME TypeOK, NEW d \in Device, NEW c \in Client
  PROVE  [client EXCEPT ![d] = c] \in [Device -> Client]
  BY DEF TypeOK

LEMMA ReceiveType == ASSUME TypeOK, NEW d \in Device, Receive(d) PROVE TypeOK' /\ UNCHANGED arena
<1>0. PICK type : Takes1(d, type)
  BY DEF Receive, ReceiveLate, ReceiveQueued, ReceiveMatch, ReceiveState
<1>1. /\ down[d] # <<>> /\ Head(down[d]).type = type /\ down' = [down EXCEPT ![d] = Tail(@)]
      /\ UNCHANGED <<arena, sock, conn, acts>>
  BY <1>0 DEF Takes1
<1>2. Head(down[d]) \in Down /\ down' \in [Device -> Seq(Down)]
  <2>1. down[d] \in Seq(Down)
    BY DEF TypeOK
  <2>2. Tail(down[d]) \in Seq(Down) /\ Head(down[d]) \in Down
    BY <1>1, <2>1, TailType
  <2> QED
    BY <1>1, <2>2 DEF TypeOK
<1>3. up' = up
  BY DEF Receive, ReceiveLate, ReceiveQueued, ReceiveMatch, ReceiveState
<1>4. client[d] \in Client
  BY ClientParts
<1>5. /\ client' \in [Device -> Client]
      /\ kept' \in [Device -> SUBSET [race : RaceId, game : 1..MaxGames]]
  <2>1. CASE ReceiveLate(d)
    BY <2>1 DEF ReceiveLate, TypeOK
  <2>2. CASE ReceiveQueued(d)
    <3>1. client' = [client EXCEPT ![d] = [client[d] EXCEPT !.status = "searching"]] /\ kept' = kept
      BY <2>2 DEF ReceiveQueued, TypeOK
    <3>2. [client[d] EXCEPT !.status = "searching"] \in Client
      BY <1>4 DEF Client
    <3> QED
      BY <3>1, <3>2, ClientSet DEF TypeOK
  <2>3. CASE ReceiveMatch(d)
    <3> DEFINE m == Head(down[d])
               c == [client[d] EXCEPT !.status = "racing", !.race = m.race, !.seat = m.seat,
                                      !.event = m.event, !.game = 0, !.generated = 0,
                                      !.scrambles = NoList, !.results = NoResults]
    <3>1. client' = [client EXCEPT ![d] = c] /\ kept' = kept
      BY <2>3 DEF ReceiveMatch, TypeOK
    <3>2. m.race \in RaceId /\ m.seat \in Seat /\ m.event \in Event
      <4>1. m.type = "match"
        BY <2>3 DEF ReceiveMatch, Takes1
      <4> QED
        BY <1>2, <4>1 DEF Down
    <3>3. 0 \in 0..MaxGames
      BY Bounds
    <3>4. c \in Client
      BY <1>4, <3>2, <3>3, EmptyTypes DEF Client
    <3> QED
      BY <3>1, <3>4, ClientSet DEF TypeOK
  <2>4. CASE ReceiveState(d)
    <3> DEFINE m == Head(down[d])
               c == [client[d] EXCEPT !.game = m.game, !.scrambles = m.scrambles, !.results = m.results, !.here = m.here]
    <3>1. /\ client' = [client EXCEPT ![d] = IF MustDraw(c) THEN Drawing(c) ELSE c]
          /\ kept' = IF ClientOver(c) THEN [kept EXCEPT ![d] = @ \cup {[race |-> c.race, game |-> c.game]}] ELSE kept
      BY <2>4 DEF ReceiveState
    <3>2. /\ m.game \in 1..MaxGames /\ m.scrambles \in List /\ m.results \in Results
          /\ m.here \in [Seat -> BOOLEAN]
      <4>1. m.type = "state"
        BY <2>4 DEF ReceiveState, Takes1
      <4> QED
        BY <1>2, <4>1 DEF Down
    <3>3. \A g \in 1..MaxGames : g \in 0..MaxGames
      BY Bounds
    <3>4. c \in Client /\ c.game \in 1..MaxGames
      BY <1>4, <3>2, <3>3 DEF Client
    <3> HIDE DEF c, m
    <3>5. Drawing(c) \in Client
      <4>1. [race |-> c.race, game |-> c.game, event |-> c.event] \in List
        BY <3>4 DEF Client, List
      <4> QED
        BY <3>4, <4>1 DEF Client, Drawing
    <3>6. [race |-> c.race, game |-> c.game] \in [race : RaceId, game : 1..MaxGames]
      BY <3>4 DEF Client
    <3> QED
      BY <3>1, <3>4, <3>5, <3>6, ClientSet DEF TypeOK
  <2> QED
    BY <2>1, <2>2, <2>3, <2>4 DEF Receive
<1> QED
  BY <1>1, <1>2, <1>3, <1>5 DEF TypeOK, arena

LEMMA UpTypes ==
  /\ [type |-> "leave"] \in Up /\ [type |-> "rematch"] \in Up /\ [type |-> "closed"] \in Up
  /\ \A list \in List : [type |-> "scrambles", list |-> list] \in Up
  /\ \A e \in Event : [type |-> "queue", event |-> e] \in Up
  /\ \A n \in Round : /\ [type |-> "solve", round |-> n] \in Up /\ [type |-> "cancel", round |-> n] \in Up
                      /\ \A p \in Penalties : [type |-> "penalty", round |-> n, penalty |-> p] \in Up
  BY DEF Up

LEMMA ActsType == ASSUME TypeOK, Acts PROVE acts' \in 0..MaxActs /\ acts' \in 1..MaxActs
  BY Bounds DEF TypeOK, Acts

LEMMA QueueSent ==
  ASSUME TypeOK, NEW d \in Device, NEW c \in Client, NEW e \in Event, NEW ms \in Seq(Up), SendsQueue(d, c, e, ms)
  PROVE  up' \in [Socket -> Seq(Up)] /\ client' \in [Device -> Client]
<1>1. Append(ms, [type |-> "queue", event |-> e]) \in Seq(Up)
  BY UpTypes
<1>2. up' \in [Socket -> Seq(Up)]
  BY <1>1, PostsType DEF SendsQueue
<1>3. [c EXCEPT !.status = "off"] \in Client
  BY DEF Client
<1>4. client' \in [Device -> Client]
  BY <1>3, ClientSet DEF SendsQueue
<1> QED
  BY <1>2, <1>4

LEMMA SearchesType ==
  ASSUME TypeOK, NEW d \in Device, NEW e \in Event, NEW ms \in Seq(Up), Acts, Searches(d, e, ms)
  PROVE  up' \in [Socket -> Seq(Up)] /\ client' \in [Device -> Client]
<1> DEFINE c == [client[d] EXCEPT !.status = "searching", !.wanted = e, !.levelEvent = e]
           waits == [c EXCEPT !.reading = @ \cup {<<acts', e>>}]
<1>1. client[d] \in Client /\ acts' \in 1..MaxActs
  BY ClientParts, ActsType
<1>2. c \in Client
  BY <1>1 DEF Client
<1>3. waits \in Client
  <2> HIDE DEF c
  <2> QED
    BY <1>1, <1>2 DEF Client
<1>4. SendsQueue(d, c, e, ms) \/ (client' = [client EXCEPT ![d] = waits] /\ Posts(d, ms))
  BY DEF Searches
<1> HIDE DEF c, waits
<1> QED
  BY <1>2, <1>3, <1>4, QueueSent, PostsType, ClientSet

LEMMA DeviceType ==
  ASSUME TypeOK, NEW d \in Device, Draw(d) \/ DrawFails(d) \/ LevelRead(d)
  PROVE  TypeOK' /\ UNCHANGED arena
<1>0. client[d] \in Client
  BY ClientParts
<1>1. CASE Draw(d)
  <2>1. PICK list \in client[d].drawing :
          /\ client' = [client EXCEPT ![d].drawing = @ \ {list}]
          /\ Sends(d, [type |-> "scrambles", list |-> list]) \/ UNCHANGED up
    BY <1>1 DEF Draw
  <2>2. list \in List
    BY <1>0 DEF Client
  <2>3. client' = [client EXCEPT ![d] = [client[d] EXCEPT !.drawing = @ \ {list}]]
    BY <2>1 DEF TypeOK
  <2>4. [client[d] EXCEPT !.drawing = @ \ {list}] \in Client
    BY <1>0 DEF Client
  <2>5. client' \in [Device -> Client]
    BY <2>3, <2>4, ClientSet
  <2>6. up' \in [Socket -> Seq(Up)]
    BY <2>1, <2>2, UpTypes, SendsType DEF TypeOK
  <2>7. UNCHANGED <<arena, sock, conn, down, kept, acts>>
    BY <1>1 DEF Draw
  <2> QED
    BY <2>5, <2>6, <2>7 DEF TypeOK, arena
<1>2. CASE DrawFails(d)
  <2>1. PICK list \in client[d].drawing :
          client' = [client EXCEPT ![d].drawing = @ \ {list}, ![d].failed = list]
    BY <1>2 DEF DrawFails
  <2>2. list \in List
    BY <1>0 DEF Client
  <2>3. client' = [client EXCEPT ![d] = [client[d] EXCEPT !.drawing = @ \ {list}, !.failed = list]]
    BY <2>1 DEF TypeOK
  <2>4. [client[d] EXCEPT !.drawing = @ \ {list}, !.failed = list] \in Client
    BY <1>0, <2>2 DEF Client
  <2>5. client' \in [Device -> Client]
    BY <2>3, <2>4, ClientSet
  <2>6. acts' \in 0..MaxActs
    <3>1. Acts
      BY <1>2 DEF DrawFails, Acts
    <3> QED
      BY <3>1, ActsType
  <2>7. UNCHANGED <<arena, network, kept>>
    BY <1>2 DEF DrawFails
  <2> QED
    BY <2>5, <2>6, <2>7 DEF TypeOK, arena, network
<1>3. CASE LevelRead(d)
  <2>1. PICK level \in client[d].reading :
          LET c == [client[d] EXCEPT !.reading = @ \ {level}, !.levels = @ \cup {level[2]}]
          IN  SendsQueue(d, c, level[2], <<>>) \/ (client' = [client EXCEPT ![d] = c] /\ UNCHANGED up)
    BY <1>3 DEF LevelRead
  <2> DEFINE c == [client[d] EXCEPT !.reading = @ \ {level}, !.levels = @ \cup {level[2]}]
  <2>2. level[2] \in Event
    BY <1>0 DEF Client
  <2>3. c \in Client
    BY <1>0, <2>2 DEF Client
  <2>4. SendsQueue(d, c, level[2], <<>>) \/ (client' = [client EXCEPT ![d] = c] /\ UNCHANGED up)
    BY <2>1
  <2> HIDE DEF c
  <2>5. <<>> \in Seq(Up)
    OBVIOUS
  <2>6. up' \in [Socket -> Seq(Up)] /\ client' \in [Device -> Client]
    BY <2>2, <2>3, <2>4, <2>5, QueueSent, ClientSet DEF TypeOK
  <2>7. UNCHANGED <<arena, sock, conn, down, kept, acts>>
    BY <1>3 DEF LevelRead
  <2> QED
    BY <2>6, <2>7 DEF TypeOK, arena
<1> QED
  BY <1>1, <1>2, <1>3

LEMMA MovesType ==
  ASSUME TypeOK, NEW d \in Device, NEW m \in Up, Moves(d, m)
  PROVE  up' \in [Socket -> Seq(Up)] /\ UNCHANGED <<arena, sock, conn, down, kept>>
  BY SendsType DEF Moves

LEMMA UseType == ASSUME TypeOK, Events, NEW d \in Device, Use(d) PROVE TypeOK' /\ UNCHANGED arena
<1>0. client[d] \in Client /\ UNCHANGED <<arena, sock, conn, down, kept>>
  <2>1. client[d] \in Client
    BY ClientParts
  <2> QED
    BY <2>1 DEF Use, Search, Quit, Another, Solve, Penalise, Cancel, AskRematch, Moves
<1>1. ASSUME up' \in [Socket -> Seq(Up)], client' \in [Device -> Client], acts' \in 0..MaxActs
      PROVE  TypeOK' /\ UNCHANGED arena
  BY <1>0, <1>1 DEF TypeOK, arena
<1>2. Acts => acts' \in 0..MaxActs
  BY ActsType
<1>3. CASE Search(d)
  <2>1. PICK e \in Event : Searches(d, e, <<>>)
    BY <1>3 DEF Search
  <2>2. <<>> \in Seq(Up) /\ Acts
    BY <1>3 DEF Search
  <2> QED
    BY <1>1, <1>2, <2>1, <2>2, SearchesType
<1>4. CASE Quit(d)
  <2>1. /\ Acts /\ Sends(d, [type |-> "leave"])
        /\ client' = [client EXCEPT ![d] = [client[d] EXCEPT !.status = "off"]]
    BY <1>4 DEF Quit, TypeOK
  <2>2. [client[d] EXCEPT !.status = "off"] \in Client
    BY <1>0 DEF Client
  <2> QED
    BY <1>1, <1>2, <2>1, <2>2, ClientSet, SendsType, UpTypes
<1>5. CASE Another(d)
  <2>1. /\ Acts /\ Searches(d, client[d].event, <<[type |-> "leave"]>>)
        /\ client[d].event \in Event
    BY <1>5 DEF Another, Events
  <2>2. <<[type |-> "leave"]>> \in Seq(Up)
    BY UpTypes
  <2> QED
    BY <1>1, <1>2, <2>1, <2>2, SearchesType
<1>6. CASE Solve(d)
  <2> DEFINE c == client[d]
  <2>1. PICK n \in Round : /\ client' = [client EXCEPT ![d].results[c.seat][n] = "none"]
                           /\ Moves(d, [type |-> "solve", round |-> n])
    BY <1>6 DEF Solve
  <2>2. c.seat \in Seat /\ c.results \in Results /\ "none" \in Penalties
    BY <1>0 DEF Client, Penalties
  <2> DEFINE results == [c.results EXCEPT ![c.seat][n] = "none"]
             more == [c EXCEPT !.results = results]
  <2>3. results \in Results
    BY <2>2 DEF Results
  <2>4. client' = [client EXCEPT ![d] = more]
    BY <2>1 DEF TypeOK, Client
  <2> HIDE DEF results
  <2>5. more \in Client
    BY <1>0, <2>3 DEF Client
  <2>6. acts' = acts
    BY <1>6 DEF Solve
  <2> HIDE DEF more
  <2>7. up' \in [Socket -> Seq(Up)]
    BY <2>1, UpTypes, MovesType
  <2>8. client' \in [Device -> Client]
    BY <2>4, <2>5, ClientSet
  <2> QED
    BY <1>1, <2>6, <2>7, <2>8 DEF TypeOK
<1>7. CASE Penalise(d)
  <2>1. PICK n \in Round, p \in Penalties : Moves(d, [type |-> "penalty", round |-> n, penalty |-> p])
    BY <1>7 DEF Penalise
  <2>2. Acts /\ UNCHANGED client
    BY <1>7 DEF Penalise
  <2>3. up' \in [Socket -> Seq(Up)]
    BY <2>1, UpTypes, MovesType
  <2> QED
    BY <1>1, <1>2, <2>2, <2>3 DEF TypeOK
<1>8. CASE Cancel(d)
  <2>1. PICK n \in Round : Moves(d, [type |-> "cancel", round |-> n])
    BY <1>8 DEF Cancel
  <2>2. Acts /\ UNCHANGED client
    BY <1>8 DEF Cancel
  <2>3. up' \in [Socket -> Seq(Up)]
    BY <2>1, UpTypes, MovesType
  <2> QED
    BY <1>1, <1>2, <2>2, <2>3 DEF TypeOK
<1>9. CASE AskRematch(d)
  <2>1. Moves(d, [type |-> "rematch"]) /\ Acts /\ UNCHANGED client
    BY <1>9 DEF AskRematch
  <2>2. up' \in [Socket -> Seq(Up)]
    BY <2>1, UpTypes, MovesType
  <2> QED
    BY <1>1, <1>2, <2>1, <2>2 DEF TypeOK
<1> QED
  BY <1>3, <1>4, <1>5, <1>6, <1>7, <1>8, <1>9 DEF Use

LEMMA LineType == ASSUME TypeOK, NEW d \in Device, Lose(d) \/ Reconnect(d) PROVE TypeOK' /\ UNCHANGED arena
<1>1. CASE Lose(d)
  <2>1. PICK n \in 0..Len(up[Current(d)]) :
          up' = [up EXCEPT ![Current(d)] = Append(SubSeq(@, 1, n), [type |-> "closed"])]
    BY <1>1 DEF Lose
  <2>2. up[Current(d)] \in Seq(Up) /\ Current(d) \in Socket
    BY CurrentIs DEF TypeOK
  <2>3. SubSeq(up[Current(d)], 1, n) \in Seq(Up)
    <3>1. Len(up[Current(d)]) \in Nat /\ n \in Nat /\ n <= Len(up[Current(d)])
      BY <2>2
    <3>2. \A i \in 1..n : up[Current(d)][i] \in Up
      BY <2>2, <3>1
    <3> QED
      BY <3>1, <3>2
  <2>4. Append(SubSeq(up[Current(d)], 1, n), [type |-> "closed"]) \in Seq(Up)
    BY <2>3, UpTypes
  <2>5. up' \in [Socket -> Seq(Up)]
    BY <2>1, <2>2, <2>4 DEF TypeOK
  <2>6. /\ conn' = [conn EXCEPT ![d] = FALSE] /\ down' = [down EXCEPT ![d] = <<>>]
        /\ client' = [client EXCEPT ![d] = [client[d] EXCEPT !.status = "off"]]
        /\ UNCHANGED <<arena, sock, kept>> /\ Acts
    BY <1>1 DEF Lose, TypeOK
  <2>7. [client[d] EXCEPT !.status = "off"] \in Client
    BY ClientParts DEF Client
  <2>8. client' \in [Device -> Client] /\ acts' \in 0..MaxActs
    BY <2>6, <2>7, ClientSet, ActsType
  <2>9. conn' \in [Device -> BOOLEAN] /\ down' \in [Device -> Seq(Down)]
    BY <2>6 DEF TypeOK
  <2> QED
    BY <2>5, <2>6, <2>8, <2>9 DEF TypeOK, arena
<1>2. CASE Reconnect(d)
  <2>1. sock' \in [Device -> 1..MaxSockets] /\ conn' \in [Device -> BOOLEAN]
    BY <1>2, Bounds DEF TypeOK, Reconnect
  <2>2. UNCHANGED <<arena, up, down, client, kept, acts>>
    BY <1>2 DEF Reconnect
  <2> QED
    BY <2>1, <2>2 DEF TypeOK, arena
<1> QED
  BY <1>1, <1>2

\* A device races because a match said so, in the race it named.
LEMMA RacesStay ==
  ASSUME TypeOK, NEW d \in Device,
         (Receive(d) /\ ~ReceiveMatch(d)) \/ Draw(d) \/ DrawFails(d) \/ LevelRead(d) \/ Use(d) \/ Lose(d) \/ Reconnect(d)
  PROVE  \A e \in Device : client'[e].status = "racing" =>
           /\ client[e].status = "racing"
           /\ client'[e].event = client[e].event /\ client'[e].race = client[e].race
<1> DEFINE Stays(c) == c.status = "racing" =>
             /\ client[d].status = "racing" /\ c.event = client[d].event /\ c.race = client[d].race
<1>0. client[d] \in Client /\ client \in [Device -> Client]
  BY ClientParts DEF TypeOK
<1>1. SUFFICES \E c : client' = [client EXCEPT ![d] = c] /\ Stays(c)
  BY <1>0
<1>2. CASE ReceiveLate(d) \/ ReceiveQueued(d)
  <2>1. CASE ReceiveLate(d)
    <3>1. client' = [client EXCEPT ![d] = client[d]]
      BY <1>0, <2>1 DEF ReceiveLate
    <3> QED
      BY <3>1
  <2>2. CASE ReceiveQueued(d)
    <3> DEFINE c == [client[d] EXCEPT !.status = "searching"]
    <3>1. client' = [client EXCEPT ![d] = c]
      BY <1>0, <2>2 DEF ReceiveQueued
    <3>2. c.status = "searching"
      BY <1>0 DEF Client
    <3> QED
      BY <3>1, <3>2
  <2> QED
    BY <1>2, <2>1, <2>2
<1>3. CASE ReceiveState(d)
  <2> DEFINE m == Head(down[d])
             c == [client[d] EXCEPT !.game = m.game, !.scrambles = m.scrambles, !.results = m.results, !.here = m.here]
             more == IF MustDraw(c) THEN Drawing(c) ELSE c
  <2>1. client' = [client EXCEPT ![d] = more]
    BY <1>3 DEF ReceiveState
  <2>2. c.status = client[d].status /\ c.event = client[d].event /\ c.race = client[d].race
    BY <1>0 DEF Client
  <2>3. more.status = c.status /\ more.event = c.event /\ more.race = c.race
    <3> HIDE DEF m
    <3> QED
      BY <1>0 DEF Client, Drawing
  <2> HIDE DEF c, more
  <2> QED
    BY <2>1, <2>2, <2>3
<1>4. CASE Draw(d)
  <2>1. PICK list : client' = [client EXCEPT ![d].drawing = @ \ {list}]
    BY <1>4 DEF Draw
  <2> DEFINE c == [client[d] EXCEPT !.drawing = @ \ {list}]
  <2>2. client' = [client EXCEPT ![d] = c]
    BY <1>0, <2>1
  <2>3. c.status = client[d].status /\ c.event = client[d].event /\ c.race = client[d].race
    BY <1>0 DEF Client
  <2> HIDE DEF c
  <2> QED
    BY <2>2, <2>3
<1>5. CASE DrawFails(d)
  <2>1. PICK list : client' = [client EXCEPT ![d].drawing = @ \ {list}, ![d].failed = list]
    BY <1>5 DEF DrawFails
  <2> DEFINE c == [client[d] EXCEPT !.drawing = @ \ {list}, !.failed = list]
  <2>2. client' = [client EXCEPT ![d] = c]
    BY <1>0, <2>1
  <2>3. c.status = client[d].status /\ c.event = client[d].event /\ c.race = client[d].race
    BY <1>0 DEF Client
  <2> HIDE DEF c
  <2> QED
    BY <2>2, <2>3
<1>6. ASSUME NEW c, NEW e, NEW ms, SendsQueue(d, c, e, ms), Stays(c), c \in Client
      PROVE  \E x : client' = [client EXCEPT ![d] = x] /\ Stays(x)
  <2>1. client' = [client EXCEPT ![d] = c] \/ client' = [client EXCEPT ![d] = [c EXCEPT !.status = "off"]]
    BY <1>6 DEF SendsQueue
  <2>2. [c EXCEPT !.status = "off"].status = "off"
    BY <1>6 DEF Client
  <2> QED
    BY <1>6, <2>1, <2>2
<1>7. CASE LevelRead(d)
  <2>1. PICK level \in client[d].reading :
          LET c == [client[d] EXCEPT !.reading = @ \ {level}, !.levels = @ \cup {level[2]}]
          IN  SendsQueue(d, c, level[2], <<>>) \/ client' = [client EXCEPT ![d] = c]
    BY <1>7 DEF LevelRead
  <2> DEFINE c == [client[d] EXCEPT !.reading = @ \ {level}, !.levels = @ \cup {level[2]}]
  <2>2. c.status = client[d].status /\ c.event = client[d].event /\ c.race = client[d].race /\ c \in Client
    BY <1>0 DEF Client
  <2>3. SendsQueue(d, c, level[2], <<>>) \/ client' = [client EXCEPT ![d] = c]
    BY <2>1
  <2> HIDE DEF c
  <2>4. Stays(c)
    BY <2>2
  <2> HIDE DEF Stays
  <2> QED
    BY <1>6, <2>2, <2>3, <2>4
<1>8. CASE Use(d)
  <2>1. ASSUME NEW e, NEW ms, Searches(d, e, ms) PROVE \E x : client' = [client EXCEPT ![d] = x] /\ x.status # "racing"
    <3> DEFINE c == [client[d] EXCEPT !.status = "searching", !.wanted = e, !.levelEvent = e]
               waits == [c EXCEPT !.reading = @ \cup {<<acts', e>>}]
               off == [c EXCEPT !.status = "off"]
    <3>1. \/ client' = [client EXCEPT ![d] = c] \/ client' = [client EXCEPT ![d] = off]
          \/ client' = [client EXCEPT ![d] = waits]
      BY <2>1 DEF Searches, SendsQueue
    <3>2. c.status = "searching" /\ waits.status = "searching" /\ off.status = "off"
      BY <1>0 DEF Client
    <3> HIDE DEF c, waits, off
    <3> QED
      BY <3>1, <3>2
  <2>2. CASE Search(d) \/ Another(d)
    <3>1. \E e, ms : Searches(d, e, ms)
      BY <2>2 DEF Search, Another
    <3> QED
      BY <2>1, <3>1
  <2>3. CASE Quit(d)
    <3> DEFINE c == [client[d] EXCEPT !.status = "off"]
    <3>1. client' = [client EXCEPT ![d] = c]
      BY <1>0, <2>3 DEF Quit
    <3>2. c.status = "off"
      BY <1>0 DEF Client
    <3> QED
      BY <3>1, <3>2
  <2>4. CASE Solve(d)
    <3>1. PICK n \in Round : client' = [client EXCEPT ![d].results[client[d].seat][n] = "none"]
      BY <2>4 DEF Solve
    <3> DEFINE c == [client[d] EXCEPT !.results[client[d].seat][n] = "none"]
    <3>2. client' = [client EXCEPT ![d] = c]
      BY <1>0, <3>1
    <3>3. c.status = client[d].status /\ c.event = client[d].event /\ c.race = client[d].race
      BY <1>0 DEF Client
    <3> HIDE DEF c
    <3> QED
      BY <3>2, <3>3
  <2>5. CASE Penalise(d) \/ Cancel(d) \/ AskRematch(d)
    <3>1. client' = [client EXCEPT ![d] = client[d]]
      BY <1>0, <2>5 DEF Penalise, Cancel, AskRematch
    <3> QED
      BY <3>1
  <2> QED
    BY <1>8, <2>2, <2>3, <2>4, <2>5 DEF Use
<1>9. CASE Lose(d)
  <2> DEFINE c == [client[d] EXCEPT !.status = "off"]
  <2>1. client' = [client EXCEPT ![d] = c]
    BY <1>0, <1>9 DEF Lose
  <2>2. c.status = "off"
    BY <1>0 DEF Client
  <2> QED
    BY <2>1, <2>2
<1>10. CASE Reconnect(d)
  <2>1. client' = [client EXCEPT ![d] = client[d]]
    BY <1>0, <1>10 DEF Reconnect
  <2> QED
    BY <2>1
<1> QED
  BY <1>2, <1>3, <1>4, <1>5, <1>7, <1>8, <1>9, <1>10 DEF Receive

LEMMA EventsStay ==
  ASSUME TypeOK, Events, NEW d \in Device,
         Receive(d) \/ Draw(d) \/ DrawFails(d) \/ LevelRead(d) \/ Use(d) \/ Lose(d) \/ Reconnect(d)
  PROVE  Events'
<1>1. CASE ReceiveMatch(d)
  <2>1. Head(down[d]) \in Down /\ Head(down[d]).type = "match"
    <3>1. down[d] \in Seq(Down) /\ down[d] # <<>> /\ Head(down[d]).type = "match"
      BY <1>1 DEF TypeOK, ReceiveMatch, Takes1
    <3> QED
      BY <3>1, TailType
  <2>2. Head(down[d]).event \in Event
    BY <2>1 DEF Down
  <2> DEFINE m == Head(down[d])
             c == [client[d] EXCEPT !.status = "racing", !.race = m.race, !.seat = m.seat, !.event = m.event,
                                    !.game = 0, !.generated = 0, !.scrambles = NoList, !.results = NoResults]
  <2>3. client' = [client EXCEPT ![d] = c]
    BY <1>1 DEF TypeOK, ReceiveMatch
  <2>4. c.event = m.event
    BY ClientParts DEF Client
  <2> HIDE DEF c, m
  <2>5. \A e \in Device : e # d => client'[e] = client[e]
    BY <2>3 DEF TypeOK
  <2> QED
    BY <2>2, <2>3, <2>4, <2>5 DEF Events, TypeOK, m
<1>2. CASE ~ReceiveMatch(d)
  BY <1>2, RacesStay DEF Events
<1> QED
  BY <1>1, <1>2

LEMMA InitArena == ASSUME Init PROVE ArenaInv
<1>1. TypeOK
  <2>1. NewClient \in Client
    <3>1. <<TRUE, TRUE>> \in [Seat -> BOOLEAN]
      BY Pair
    <3>2. 0 \in 0..MaxGames /\ 0 \in RaceId /\ 1 \in Seat
      BY Bounds DEF RaceId, Seat
    <3> QED
      BY <3>1, <3>2, EmptyTypes DEF NewClient, Client, Nowhere
  <2>2. Nowhere \in RaceId /\ 1 \in 1..MaxSockets /\ 0 \in 0..MaxActs /\ 0 <= MaxRaces
    BY Bounds DEF Nowhere, RaceId
  <2>3. <<>> \in Seq(Race) /\ Len(<<>>) = 0
    OBVIOUS
  <2> QED
    BY <2>1, <2>2, <2>3 DEF Init, TypeOK
<1>2. Places /\ NeverItself /\ RoundsInOrder
  BY DEF Init, Places, Seated, OneRace, OneSearch, Searching, Joining, Apart, NeverItself, RoundsInOrder
<1>3. Events
  BY DEF Init, Events, NewClient
<1> QED
  BY <1>1, <1>2, <1>3 DEF ArenaInv

LEMMA ArenaSteps == ASSUME ArenaInv, [Next]_vars PROVE ArenaInv'
<1>1. CASE Tick
  BY <1>1, TickSteps
<1>2. ASSUME NEW s \in Socket, Serve(s) PROVE ArenaInv'
  BY <1>2, ServeSteps
<1>3. ASSUME NEW d \in Device, Receive(d) \/ Draw(d) \/ DrawFails(d) \/ LevelRead(d) \/ Use(d) \/ Lose(d) \/ Reconnect(d)
      PROVE  ArenaInv'
  <2>1. TypeOK' /\ UNCHANGED arena
    BY <1>3, ReceiveType, DeviceType, UseType, LineType DEF ArenaInv
  <2>2. Events'
    BY <1>3, EventsStay DEF ArenaInv
  <2> QED
    BY <2>1, <2>2, ArenaStays
<1>4. CASE UNCHANGED vars
  <2>1. TypeOK' /\ UNCHANGED arena
    BY <1>4 DEF ArenaInv, TypeOK, vars, arena
  <2>2. Events'
    BY <1>4 DEF ArenaInv, Events, vars
  <2> QED
    BY <2>1, <2>2, ArenaStays
<1> QED
  BY <1>1, <1>2, <1>3, <1>4 DEF Next

\* A socket searches, or is in the one race that has it.
LEMMA InOnePlace == ASSUME ArenaInv PROVE OnePlace
<1> SUFFICES ASSUME NEW s \in Socket
             PROVE  /\ Cardinality({w \in queue : w.socket = s}) + Cardinality({r \in DOMAIN races : s \in Present(races[r])}) <= 1
                    /\ seats[s] # Nowhere <=> \E r \in DOMAIN races : s \in Present(races[r])
                    /\ seats[s] # Nowhere => s \in Present(races[seats[s]])
  BY DEF OnePlace
<1> DEFINE Q == {w \in queue : w.socket = s}
           R == {r \in DOMAIN races : s \in Present(races[r])}
<1>1. Q = {} \/ \E w : Q = {w}
  <2>1. \A w, v \in Q : w = v
    BY DEF ArenaInv, Places, OneSearch
  <2> QED
    BY <2>1
<1>2. \A r \in R : r = seats[s] /\ r # Nowhere
  BY InRaces DEF ArenaInv, Places, OneRace
<1>3. seats[s] # Nowhere => seats[s] \in R
  BY DEF ArenaInv, Places, Seated
<1>4. seats[s] # Nowhere => Q = {} /\ R = {seats[s]}
  BY <1>2, <1>3 DEF ArenaInv, Places, Searching
<1>5. seats[s] = Nowhere => R = {}
  BY <1>2
<1>6. Cardinality({}) = 0 /\ \A x : Cardinality({x}) = 1
  BY FS_EmptySet, FS_Singleton
<1> HIDE DEF Q, R
<1>7. Cardinality(Q) + Cardinality(R) <= 1
  <2>1. Cardinality(Q) = 0 \/ Cardinality(Q) = 1
    BY <1>1, <1>6
  <2>2. CASE seats[s] = Nowhere
    <3>1. Cardinality(R) = 0
      BY <1>5, <1>6, <2>2
    <3> QED
      BY <2>1, <3>1
  <2>3. CASE seats[s] # Nowhere
    <3>1. Cardinality(Q) = 0 /\ Cardinality(R) = 1
      BY <1>4, <1>6, <2>3
    <3> QED
      BY <3>1
  <2> QED
    BY <2>2, <2>3
<1> QED
  BY <1>2, <1>3, <1>7 DEF Q, R

LEMMA ArenaAlways == Spec => []ArenaInv
<1>1. Init => ArenaInv
  BY InitArena
<1>2. ArenaInv /\ [Next]_vars => ArenaInv'
  BY ArenaSteps
<1> QED
  BY <1>1, <1>2, PTL DEF Spec

\* The arena's state is of its type; whatever sockets are lost, search again or answer
\* late, a socket searches once or is in the one race that has it, an account never
\* races itself, and rounds are played in order (pair, start, leave, solve and cancel,
\* duel.go).
THEOREM AlwaysAgree == Spec => []SeatsAgree
<1>1. ArenaInv => SeatsAgree
  BY InOnePlace DEF ArenaInv, SeatsAgree
<1> QED
  BY <1>1, ArenaAlways, PTL

-----------------------------------------------------------------------------
(* What a step does to the races.                                          *)

\* A race goes on: a round both solved stays solved, and the next game starts once
\* this one is over.
Onward(old, new) ==
  \/ new.game = old.game /\ \A n \in Round : Solved(old, n) => Solved(new, n)
  \/ new.game = old.game + 1 /\ Over(old)

RacesGoOn == DOMAIN races \subseteq DOMAIN races' /\ \A r \in DOMAIN races : Onward(races[r], races'[r])

LEMMA SetGoesOn ==
  ASSUME TypeOK, NEW r \in DOMAIN races, NEW race, races' = [races EXCEPT ![r] = race], Onward(races[r], race)
  PROVE  RacesGoOn /\ DOMAIN races' = DOMAIN races /\ races'[r] = race /\ \A q \in DOMAIN races : q # r => races'[q] = races[q]
<1>1. \A q \in DOMAIN races : races'[q] = IF q = r THEN race ELSE races[q]
  BY DEF TypeOK
<1>2. \A q \in DOMAIN races : Onward(races[q], races[q])
  BY DEF Onward
<1> QED
  BY <1>1, <1>2 DEF RacesGoOn, TypeOK

LEMMA StartGoesOn ==
  ASSUME TypeOK, NEW race, races' = Append(races, race)
  PROVE  /\ RacesGoOn /\ DOMAIN races' = DOMAIN races \cup {Len(races) + 1} /\ races'[Len(races) + 1] = race
         /\ \A q \in DOMAIN races : races'[q] = races[q]
<1>1. races \in Seq(Race)
  BY DEF TypeOK
<1>2. DOMAIN races' = DOMAIN races \cup {Len(races) + 1} /\ races'[Len(races) + 1] = race
      /\ \A q \in DOMAIN races : races'[q] = races[q]
  BY <1>1
<1>3. \A q \in DOMAIN races : Onward(races[q], races[q])
  BY DEF Onward
<1> QED
  BY <1>2, <1>3 DEF RacesGoOn

LEMMA StayGoesOn == ASSUME UNCHANGED races PROVE RacesGoOn
  BY DEF RacesGoOn, Onward

LEMMA LeavesOnward == ASSUME NEW s, NEW r, NEW left, Leaves(s, r, left) PROVE Onward(races[r], left)
  BY DEF Leaves, Onward, Solved

LEMMA PlayedOnward == ASSUME NEW r, NEW played, Changes(r, played) PROVE Onward(races[r], played)
  BY DEF Changes, Keeps, Onward

LEMMA LeaveGoesOn == ASSUME ArenaInv, NEW s \in Socket, LeaveAll(s) PROVE RacesGoOn
<1>1. CASE seats[s] = Nowhere
  BY <1>1, StayGoesOn DEF LeaveAll
<1>2. CASE seats[s] # Nowhere
  <2>1. seats[s] \in DOMAIN races
    BY <1>2, LeaveIs
  <2>2. PICK left \in Race : Leaves(s, seats[s], left)
    BY <1>2, LeaveIs
  <2>3. races' = [races EXCEPT ![seats[s]] = left] /\ Onward(races[seats[s]], left)
    BY <2>2, LeavesOnward DEF Leaves
  <2> QED
    BY <2>1, <2>3, SetGoesOn DEF ArenaInv
<1> QED
  BY <1>1, <1>2

LEMMA PlayGoesOn == ASSUME ArenaInv, NEW s \in Socket, Play(s) PROVE RacesGoOn
<1>1. CASE UNCHANGED <<races, down, stats>>
  BY <1>1, StayGoesOn
<1>2. CASE \E played \in Race : Changes(seats[s], played)
  <2>1. PICK played \in Race : Changes(seats[s], played)
    BY <1>2
  <2>2. /\ seats[s] \in DOMAIN races /\ races' = [races EXCEPT ![seats[s]] = played]
        /\ Onward(races[seats[s]], played)
    BY <2>1, PlayedOnward DEF Changes
  <2> QED
    BY <2>2, SetGoesOn DEF ArenaInv
<1> QED
  BY <1>1, <1>2, PlayIs

LEMMA GoOn == ASSUME ArenaInv, [Next]_vars PROVE RacesGoOn
<1>1. ASSUME NEW w, NEW v, NEW waiting, NEW told, StartRace(w, v, waiting, told) PROVE RacesGoOn
  BY <1>1, StartGoesOn DEF StartRace, ArenaInv
<1>2. CASE Tick
  BY <1>1, <1>2 DEF Tick
<1>3. ASSUME NEW s \in Socket, Serve(s) PROVE RacesGoOn
  <2>1. CASE Queue(s) \/ Leave(s)
    BY <2>1, LeaveGoesOn DEF Queue, Leave
  <2>2. CASE Join(s)
    BY <1>1, <2>2, StayGoesOn DEF Join
  <2>3. CASE Play(s)
    BY <2>3, PlayGoesOn
  <2> QED
    BY <1>3, <2>1, <2>2, <2>3 DEF Serve
<1>4. ASSUME NEW d \in Device, Receive(d) \/ Draw(d) \/ DrawFails(d) \/ LevelRead(d) \/ Use(d) \/ Lose(d) \/ Reconnect(d)
      PROVE  RacesGoOn
  <2>1. UNCHANGED arena
    BY <1>4, ReceiveType, DeviceType, UseType, LineType DEF ArenaInv
  <2> QED
    BY <2>1, StayGoesOn DEF arena
<1>5. CASE UNCHANGED vars
  BY <1>5, StayGoesOn DEF vars
<1> QED
  BY <1>2, <1>3, <1>4, <1>5 DEF Next

\* Whatever moves come late, twice or from a player who came back, a round both solved
\* stays solved as long as its game lasts (solve, penalty, cancel and rematch, duel.go).
THEOREM AlwaysSolved == Spec => RoundsKept
<1> DEFINE A == \A r \in DOMAIN races : \A n \in Round :
                  Solved(races[r], n) /\ races'[r].game = races[r].game => Solved(races'[r], n)
<1>1. ArenaInv /\ [Next]_vars => [A]_vars
  <2> SUFFICES ASSUME ArenaInv, [Next]_vars PROVE A
    OBVIOUS
  <2>1. RacesGoOn
    BY GoOn
  <2>2. ASSUME NEW r \in DOMAIN races, NEW n \in Round, Solved(races[r], n), races'[r].game = races[r].game
        PROVE  Solved(races'[r], n)
    <3>1. races[r].game \in Nat
      BY InRaces, RaceParts DEF ArenaInv
    <3> QED
      BY <2>1, <2>2, <3>1 DEF RacesGoOn, Onward
  <2> QED
    BY <2>2
<1> QED
  BY <1>1, ArenaAlways, PTL DEF Spec, RoundsKept

-----------------------------------------------------------------------------
(* The battles counted.                                                    *)

\* BattlesCounted needs them.  A game recorded is counted, so is one that was over when
\* the last of its players left, and so is every game behind.
InStats(r, g) == \E x \in stats : x.race = r /\ x.game = g
Recorded == \A r \in DOMAIN races : races[r].recorded => InStats(r, races[r].game)
Left == \A r \in DOMAIN races : Present(races[r]) = {} /\ Over(races[r]) => races[r].recorded
Behind == \A r \in DOMAIN races : \A g \in 1..(races[r].game - 1) : InStats(r, g)

StatsInv == Recorded /\ Left /\ Behind

\* The battle a device keeps is over in the arena.
GameOver(r, g) ==
  r \in DOMAIN races /\ g \in 1..races[r].game /\ (g = races[r].game => Over(races[r]))
KeptOver == \A d \in Device : \A b \in kept[d] : GameOver(b.race, b.game)

\* The race a client c is in once it has taken the first k messages of ms: the one the
\* last match among them names, or else its own.
About(ms, c, k, r) ==
  \/ \E j \in 1..k : ms[j].type = "match" /\ ms[j].race = r /\ \A i \in (j + 1)..k : ms[i].type # "match"
  \/ (\A j \in 1..k : ms[j].type # "match") /\ c.status = "racing" /\ c.race = r

\* A state that shows a game over says so of a race where it is.
Genuine(r, m) ==
  m.type = "state" /\ m.scrambles # NoList /\ (\A n \in Round, i \in Seat : m.results[i][n] # NoSolve)
    => GameOver(r, m.game)
Genuinely(d) ==
  \A k \in 1..Len(down[d]) : \A r \in RaceId : About(down[d], client[d], k, r) => Genuine(r, down[d][k])

\* Once it has taken what is on its way, a device races where its socket is seated, or
\* nowhere.
SeatTold(d) ==
  conn[d] /\ seats[Current(d)] # Nowhere =>
    \A r \in RaceId : About(down[d], client[d], Len(down[d]), r) => r = seats[Current(d)]

\* Nothing is known of a socket that is not open yet.
Fresh(d) ==
  \A n \in 1..MaxSockets : n > sock[d] =>
    /\ up[<<d, n>>] = <<>> /\ joining[<<d, n>>] = NoEvent /\ seats[<<d, n>>] = Nowhere
    /\ \A w \in queue : w.socket # <<d, n>>

BattleInv == StatsInv /\ KeptOver /\ \A d \in Device : Genuinely(d) /\ SeatTold(d) /\ Fresh(d)

\* What is over stays over.
LEMMA OverStays ==
  ASSUME TypeOK, RacesGoOn, TypeOK', NEW r, NEW g, GameOver(r, g)
  PROVE  GameOver(r, g)'
<1>1. r \in DOMAIN races /\ r \in DOMAIN races' /\ Onward(races[r], races'[r])
  BY DEF GameOver, RacesGoOn
<1>2. races[r].game \in Nat /\ races'[r].game \in Nat /\ g \in 1..races[r].game
  <2>1. races[r] \in Race /\ races'[r] \in Race
    BY <1>1 DEF TypeOK
  <2>2. races[r].game \in 1..MaxGames /\ races'[r].game \in 1..MaxGames
    BY <2>1, RaceParts
  <2> QED
    BY <2>2, Bounds DEF GameOver
<1>3. CASE races'[r].game = races[r].game /\ \A n \in Round : Solved(races[r], n) => Solved(races'[r], n)
  BY <1>1, <1>2, <1>3 DEF GameOver, Over
<1>4. CASE races'[r].game = races[r].game + 1
  <2>1. g \in 1..races'[r].game /\ g # races'[r].game
    BY <1>2, <1>4
  <2> QED
    BY <1>1, <2>1 DEF GameOver
<1> QED
  BY <1>1, <1>3, <1>4 DEF Onward

LEMMA GenuineStays ==
  ASSUME TypeOK, RacesGoOn, TypeOK', NEW r, NEW m, Genuine(r, m)
  PROVE  Genuine(r, m)'
<1>1. m.type = "state" /\ m.scrambles # NoList /\ (\A n \in Round, i \in Seat : m.results[i][n] # NoSolve)
        => GameOver(r, m.game)
  BY DEF Genuine
<1>2. GameOver(r, m.game) => GameOver(r, m.game)'
  BY OverStays
<1> QED
  BY <1>1, <1>2 DEF Genuine


-----------------------------------------------------------------------------
(* The race a client is about to be in.                                    *)

\* What a message taken does to it.
Took(m, c, next) ==
  next.status = "racing" =>
    IF m.type = "match" THEN next.race = m.race ELSE c.status = "racing" /\ next.race = c.race

LEMMA AboutTail ==
  ASSUME NEW ms \in Seq(Down), ms # <<>>, NEW c, NEW next, Took(Head(ms), c, next),
         NEW k \in 0..Len(Tail(ms)), NEW r, About(Tail(ms), next, k, r)
  PROVE  About(ms, c, k + 1, r)
<1>1. Len(Tail(ms)) = Len(ms) - 1 /\ Len(ms) \in Nat /\ Len(ms) >= 1 /\ k \in Nat /\ k + 1 <= Len(ms)
  BY HeadTailProperties
<1>2. \A j \in 1..k : Tail(ms)[j] = ms[j + 1]
  BY <1>1, HeadTailProperties
<1>3. Head(ms) = ms[1]
  OBVIOUS
<1>4. ASSUME NEW j \in 1..k, Tail(ms)[j].type = "match", Tail(ms)[j].race = r,
             \A i \in (j + 1)..k : Tail(ms)[i].type # "match"
      PROVE  About(ms, c, k + 1, r)
  <2>1. j + 1 \in 1..(k + 1) /\ ms[j + 1].type = "match" /\ ms[j + 1].race = r
    BY <1>1, <1>2, <1>4
  <2>2. ASSUME NEW i \in (j + 1 + 1)..(k + 1) PROVE ms[i].type # "match"
    <3>1. i - 1 \in (j + 1)..k /\ i - 1 \in 1..k /\ (i - 1) + 1 = i
      BY <1>1
    <3> QED
      BY <1>2, <1>4, <3>1
  <2> QED
    BY <2>1, <2>2 DEF About
<1>5. ASSUME \A j \in 1..k : Tail(ms)[j].type # "match", next.status = "racing", next.race = r
      PROVE  About(ms, c, k + 1, r)
  <2>1. ASSUME NEW i \in 2..(k + 1) PROVE ms[i].type # "match"
    <3>1. i - 1 \in 1..k /\ (i - 1) + 1 = i
      BY <1>1
    <3> QED
      BY <1>2, <1>5, <3>1
  <2>2. CASE Head(ms).type = "match"
    <3>1. 1 \in 1..(k + 1) /\ 1 + 1 = 2 /\ ms[1].type = "match" /\ ms[1].race = r
      BY <1>1, <1>3, <1>5, <2>2 DEF Took
    <3> QED
      BY <2>1, <3>1 DEF About
  <2>3. CASE Head(ms).type # "match"
    <3>1. c.status = "racing" /\ c.race = r
      BY <1>5, <2>3 DEF Took
    <3>2. \A i \in 1..(k + 1) : i = 1 \/ i \in 2..(k + 1)
      BY <1>1
    <3> QED
      BY <1>3, <2>1, <2>3, <3>1, <3>2 DEF About
  <2> QED
    BY <2>2, <2>3
<1> QED
  BY <1>4, <1>5 DEF About

\* Messages that come later tell nothing new of those before them.
LEMMA AboutBefore ==
  ASSUME NEW ms \in Seq(Down), NEW x \in Seq(Down), NEW c, NEW k \in 0..Len(ms), NEW r
  PROVE  About(ms \o x, c, k, r) <=> About(ms, c, k, r)
<1>1. k \in Nat /\ \A j \in 1..k : j \in 1..Len(ms)
  OBVIOUS
<1>2. \A j \in 1..k : (ms \o x)[j] = ms[j]
  BY <1>1, ConcatProperties
<1>3. \A j \in 1..k : \A i \in (j + 1)..k : i \in 1..k
  BY <1>1
<1> QED
  BY <1>2, <1>3 DEF About

\* Messages that are no match change nothing.
LEMMA AboutAfter ==
  ASSUME NEW ms \in Seq(Down), NEW x \in Seq(Down), \A j \in 1..Len(x) : x[j].type # "match",
         NEW c, NEW k \in 1..Len(x), NEW r, About(ms \o x, c, Len(ms) + k, r)
  PROVE  About(ms, c, Len(ms), r)
<1>1. Len(ms) \in Nat /\ Len(x) \in Nat /\ k \in Nat
  OBVIOUS
<1>2. \A j \in 1..Len(ms) : (ms \o x)[j] = ms[j] /\ j \in 1..(Len(ms) + k)
  BY <1>1, ConcatProperties
<1>3. ASSUME NEW j \in 1..(Len(ms) + k), (ms \o x)[j].type = "match" PROVE j \in 1..Len(ms)
  <2>1. CASE j > Len(ms)
    <3>1. j - Len(ms) \in 1..Len(x) /\ j \in 1..(Len(ms) + Len(x))
      BY <1>1, <2>1
    <3>2. (ms \o x)[j] = x[j - Len(ms)]
      BY <2>1, <3>1, ConcatProperties
    <3> QED
      BY <1>3, <3>1, <3>2
  <2> QED
    BY <1>1, <2>1
<1>4. \A j \in 1..Len(ms) : \A i \in (j + 1)..Len(ms) : i \in (j + 1)..(Len(ms) + k) /\ i \in 1..Len(ms)
  BY <1>1
<1> QED
  BY <1>2, <1>3, <1>4 DEF About

\* A match tells what race is meant from then on.
LEMMA AboutMatch ==
  ASSUME NEW ms \in Seq(Down), NEW x \in Seq(Down), NEW p \in 1..Len(x), x[p].type = "match",
         \A j \in (p + 1)..Len(x) : x[j].type # "match",
         NEW c, NEW r, About(ms \o x, c, Len(ms) + Len(x), r)
  PROVE  r = x[p].race
<1>1. Len(ms) \in Nat /\ Len(x) \in Nat /\ p \in Nat /\ 1 <= p /\ p <= Len(x)
  OBVIOUS
<1>2. Len(ms) + p \in 1..(Len(ms) + Len(x)) /\ (Len(ms) + p) - Len(ms) = p
  BY <1>1
<1>3. (ms \o x)[Len(ms) + p] = x[p]
  BY <1>1, <1>2, ConcatProperties
<1>4. PICK j \in 1..(Len(ms) + Len(x)) :
        /\ (ms \o x)[j].type = "match" /\ (ms \o x)[j].race = r
        /\ \A i \in (j + 1)..(Len(ms) + Len(x)) : (ms \o x)[i].type # "match"
  BY <1>2, <1>3 DEF About
<1>5. j >= Len(ms) + p
  <2>1. CASE j < Len(ms) + p
    <3>1. Len(ms) + p \in (j + 1)..(Len(ms) + Len(x))
      BY <1>1, <2>1
    <3> QED
      BY <1>3, <1>4, <3>1
  <2> QED
    BY <1>1, <2>1
<1>6. j = Len(ms) + p
  <2>1. CASE j > Len(ms) + p
    <3>1. j - Len(ms) \in (p + 1)..Len(x) /\ j > Len(ms)
      BY <1>1, <2>1
    <3>2. (ms \o x)[j] = x[j - Len(ms)]
      BY <1>1, <3>1, ConcatProperties
    <3> QED
      BY <1>4, <3>1, <3>2
  <2> QED
    BY <1>1, <1>5, <2>1
<1> QED
  BY <1>3, <1>4, <1>6

-----------------------------------------------------------------------------
(* The battles: the steps of the devices.                                  *)

LEMMA ReceiveTells ==
  ASSUME ArenaInv, NEW d \in Device, Receive(d)
  PROVE  /\ down[d] # <<>> /\ down' = [down EXCEPT ![d] = Tail(@)]
         /\ Took(Head(down[d]), client[d], client'[d])
         /\ \A e \in Device : e # d => client'[e] = client[e]
         /\ UNCHANGED <<arena, up, sock, conn, acts>>
<1>1. PICK type : Takes1(d, type)
  BY DEF Receive, ReceiveLate, ReceiveQueued, ReceiveMatch, ReceiveState
<1>2. down[d] # <<>> /\ down' = [down EXCEPT ![d] = Tail(@)] /\ UNCHANGED <<arena, up, sock, conn, acts>>
  <2>1. up' = up
    BY DEF Receive, ReceiveLate, ReceiveQueued, ReceiveMatch, ReceiveState
  <2> QED
    BY <1>1, <2>1 DEF Takes1
<1>3. CASE ReceiveMatch(d)
  <2> DEFINE m == Head(down[d])
             c == [client[d] EXCEPT !.status = "racing", !.race = m.race, !.seat = m.seat, !.event = m.event,
                                    !.game = 0, !.generated = 0, !.scrambles = NoList, !.results = NoResults]
  <2>1. client' = [client EXCEPT ![d] = c]
    BY <1>3 DEF ArenaInv, TypeOK, ReceiveMatch
  <2>2. m.type = "match"
    BY <1>3 DEF ReceiveMatch, Takes1
  <2>3. c.race = m.race
    BY ClientParts DEF ArenaInv, Client
  <2> HIDE DEF c, m
  <2>4. client'[d] = c /\ \A e \in Device : e # d => client'[e] = client[e]
    BY <2>1 DEF ArenaInv, TypeOK
  <2>5. Took(m, client[d], client'[d])
    BY <2>2, <2>3, <2>4 DEF Took
  <2> QED
    BY <1>2, <2>4, <2>5 DEF m
<1>4. CASE ~ReceiveMatch(d)
  <2>1. client'[d].status = "racing" => client[d].status = "racing" /\ client'[d].race = client[d].race
    BY <1>4, RacesStay DEF ArenaInv
  <2>2. client'[d].status = "racing" => Head(down[d]).type # "match"
    <3>1. CASE ReceiveLate(d)
      BY <2>1, <3>1 DEF ReceiveLate
    <3>2. CASE ReceiveQueued(d) \/ ReceiveState(d)
      BY <3>2 DEF ReceiveQueued, ReceiveState, Takes1
    <3> QED
      BY <1>4, <3>1, <3>2 DEF Receive
  <2>3. \A e \in Device : e # d => client'[e] = client[e]
    BY <1>4 DEF ArenaInv, TypeOK, Receive, ReceiveLate, ReceiveQueued, ReceiveState
  <2> QED
    BY <1>2, <2>1, <2>2, <2>3 DEF Took
<1> QED
  BY <1>3, <1>4

\* The battle a state shows over is kept; it is.
LEMMA KeptStays ==
  ASSUME ArenaInv, BattleInv, RacesGoOn, TypeOK', NEW d \in Device, Receive(d)
  PROVE  KeptOver'
<1>1. \A r, g : GameOver(r, g) => GameOver(r, g)'
  BY OverStays DEF ArenaInv
<1>2. CASE kept' = kept
  BY <1>1, <1>2 DEF BattleInv, KeptOver
<1>3. CASE kept' # kept
  <2> DEFINE m == Head(down[d])
             c == [client[d] EXCEPT !.game = m.game, !.scrambles = m.scrambles, !.results = m.results, !.here = m.here]
  <2>1. ReceiveState(d)
    BY <1>3 DEF Receive, ReceiveLate, ReceiveQueued, ReceiveMatch
  <2>2. /\ ClientOver(c) /\ kept' = [kept EXCEPT ![d] = @ \cup {[race |-> c.race, game |-> c.game]}]
        /\ m.type = "state" /\ down[d] # <<>>
    BY <1>3, <2>1 DEF ReceiveState, Takes1
  <2>3. /\ c.status = client[d].status /\ c.race = client[d].race /\ c.seat = client[d].seat
        /\ c.game = m.game /\ c.scrambles = m.scrambles /\ c.results = m.results
        /\ client[d].race \in RaceId /\ client[d].seat \in Seat
    BY ClientParts DEF ArenaInv, Client
  <2> HIDE DEF c
  <2>4. client[d].status = "racing" /\ m.scrambles # NoList
    BY <2>2, <2>3 DEF ClientOver
  <2>5. \A n \in Round, i \in Seat : m.results[i][n] # NoSolve
    <3>1. \A n \in Round : m.results[client[d].seat][n] # NoSolve /\ m.results[Other(client[d].seat)][n] # NoSolve
      BY <2>2, <2>3 DEF ClientOver, Me, Them
    <3> QED
      BY <2>3, <3>1, OtherIs
  <2>6. GameOver(client[d].race, m.game)
    <3>1. Len(down[d]) \in Nat /\ Len(down[d]) >= 1 /\ down[d][1] = m
      BY <2>2 DEF ArenaInv, TypeOK
    <3>2. 1 \in 1..Len(down[d]) /\ \A j \in 1..1 : j = 1
      BY <3>1
    <3>3. About(down[d], client[d], 1, client[d].race)
      <4>1. m.type # "match"
        BY <2>2
      <4> QED
        BY <2>4, <3>1, <3>2, <4>1 DEF About
    <3>4. Genuine(client[d].race, m)
      BY <2>3, <3>1, <3>2, <3>3 DEF BattleInv, Genuinely
    <3> QED
      BY <2>2, <2>4, <2>5, <3>4 DEF Genuine
  <2> DEFINE b == [race |-> c.race, game |-> c.game]
  <2>7. GameOver(b.race, b.game)
    BY <2>3, <2>6
  <2> HIDE DEF m
  <2>8. \A e \in Device : \A x \in kept'[e] : x \in kept[e] \/ x = b
    BY <2>2 DEF ArenaInv, TypeOK
  <2>9. \A e \in Device : \A x \in kept'[e] : GameOver(x.race, x.game)
    BY <2>7, <2>8 DEF BattleInv, KeptOver
  <2> QED
    BY <1>1, <2>9 DEF KeptOver
<1> QED
  BY <1>2, <1>3

LEMMA StatsStay == ASSUME StatsInv, UNCHANGED <<races, stats>> PROVE StatsInv'
<1>1. \A r, g : InStats(r, g) => InStats(r, g)'
  BY DEF InStats
<1>2. Recorded' /\ Behind'
  BY <1>1 DEF StatsInv, Recorded, Behind, InStats
<1>3. Left'
  BY DEF StatsInv, Left, Present, Over, Solved
<1> QED
  BY <1>2, <1>3 DEF StatsInv

LEMMA ReceiveBattles ==
  ASSUME ArenaInv, BattleInv, ArenaInv', NEW d \in Device, Receive(d)
  PROVE  BattleInv'
<1>1. /\ down[d] # <<>> /\ down' = [down EXCEPT ![d] = Tail(@)]
      /\ Took(Head(down[d]), client[d], client'[d])
      /\ \A e \in Device : e # d => client'[e] = client[e]
      /\ UNCHANGED <<arena, up, sock, conn>>
  BY ReceiveTells
<1>2. RacesGoOn
  BY <1>1, StayGoesOn DEF arena
<1>3. StatsInv'
  BY <1>1, StatsStay DEF BattleInv, arena
<1>4. KeptOver'
  BY <1>2, KeptStays DEF ArenaInv
<1>5. \A r, m : Genuine(r, m) => Genuine(r, m)'
  BY <1>2, GenuineStays DEF ArenaInv
<1>6. ASSUME NEW e \in Device PROVE Genuinely(e)' /\ SeatTold(e)'
  <2>1. Genuinely(e) /\ SeatTold(e) /\ down[e] \in Seq(Down)
    BY DEF BattleInv, ArenaInv, TypeOK
  <2>2. CASE e # d
    <3>1. down'[e] = down[e] /\ client'[e] = client[e]
      BY <1>1, <2>2 DEF ArenaInv, TypeOK
    <3> QED
      BY <1>1, <1>5, <2>1, <3>1 DEF Genuinely, SeatTold, Current, arena
  <2>3. CASE e = d
    <3>1. down'[d] = Tail(down[d])
      BY <1>1 DEF ArenaInv, TypeOK
    <3>2. /\ Len(Tail(down[d])) = Len(down[d]) - 1 /\ Len(down[d]) \in Nat /\ Len(down[d]) >= 1
          /\ \A k \in 1..Len(Tail(down[d])) : Tail(down[d])[k] = down[d][k + 1]
      BY <1>1, <2>1, <2>3, HeadTailProperties
    <3>3. ASSUME NEW k \in 0..Len(Tail(down[d])), NEW r, About(down'[d], client'[d], k, r)
          PROVE  About(down[d], client[d], k + 1, r)
      BY <1>1, <2>1, <2>3, <3>1, <3>3, AboutTail
    <3>4. Genuinely(d)'
      <4> SUFFICES ASSUME NEW k \in 1..Len(down'[d]), NEW r \in RaceId, About(down'[d], client'[d], k, r)
                   PROVE  Genuine(r, down[d][k])'
        BY DEF Genuinely
      <4>1. k + 1 \in 1..Len(down[d]) /\ down'[d][k] = down[d][k + 1] /\ k \in 0..Len(Tail(down[d]))
        BY <3>1, <3>2
      <4>2. PICK m : m = down[d][k + 1]
        OBVIOUS
      <4>3. Genuine(r, m)
        BY <2>1, <2>3, <3>3, <4>1, <4>2 DEF Genuinely
      <4>4. Genuine(r, m)'
        BY <1>5, <4>3
      <4> QED
        BY <4>1, <4>2, <4>4 DEF Genuine, GameOver
    <3>5. SeatTold(d)'
      <4> SUFFICES ASSUME conn'[d], seats'[Current(d)'] # Nowhere, NEW r \in RaceId,
                          About(down'[d], client'[d], Len(down'[d]), r)
                   PROVE  r = seats'[Current(d)']
        BY DEF SeatTold
      <4>1. Current(d)' = Current(d) /\ seats' = seats /\ conn' = conn
        BY <1>1 DEF Current, arena
      <4>2. Len(down'[d]) + 1 = Len(down[d]) /\ Len(down'[d]) \in 0..Len(Tail(down[d]))
        BY <3>1, <3>2
      <4>3. About(down[d], client[d], Len(down[d]), r)
        BY <3>3, <4>2
      <4> QED
        BY <2>1, <2>3, <4>1, <4>3 DEF SeatTold
    <3> QED
      BY <2>3, <3>4, <3>5
  <2> QED
    BY <2>2, <2>3
<1>7. \A e \in Device : Fresh(e)'
  BY <1>1 DEF BattleInv, Fresh, arena
<1> QED
  BY <1>3, <1>4, <1>6, <1>7 DEF BattleInv

\* A device that posts does so on its own socket.
LEMMA PostsOwn ==
  ASSUME TypeOK, NEW d \in Device, Draw(d) \/ DrawFails(d) \/ LevelRead(d) \/ Use(d)
  PROVE  /\ \A s \in Socket : s # Current(d) => up'[s] = up[s]
         /\ UNCHANGED <<arena, sock, conn, down, kept>>
<1>1. \A ms : Posts(d, ms) => \A s \in Socket : s # Current(d) => up'[s] = up[s]
  BY DEF TypeOK, Posts
<1>2. \A m : Sends(d, m) => \A s \in Socket : s # Current(d) => up'[s] = up[s]
  BY <1>1 DEF Sends
<1>3. \A e, ms : Searches(d, e, ms) => \A s \in Socket : s # Current(d) => up'[s] = up[s]
  BY <1>1 DEF Searches, SendsQueue
<1>4. CASE Draw(d) \/ DrawFails(d)
  BY <1>2, <1>4 DEF Draw, DrawFails, network
<1>5. CASE LevelRead(d)
  BY <1>1, <1>5 DEF LevelRead, SendsQueue
<1>6. CASE Use(d)
  <2>1. CASE Search(d) \/ Another(d)
    BY <1>3, <2>1 DEF Search, Another
  <2>2. CASE Quit(d)
    BY <1>2, <2>2 DEF Quit
  <2>3. CASE Solve(d) \/ Penalise(d) \/ Cancel(d) \/ AskRematch(d)
    BY <1>2, <2>3 DEF Solve, Penalise, Cancel, AskRematch, Moves
  <2> QED
    BY <1>6, <2>1, <2>2, <2>3 DEF Use
<1> QED
  BY <1>4, <1>5, <1>6

LEMMA AboutStays ==
  ASSUME NEW ms, NEW c, NEW next, next.status = "racing" => c.status = "racing" /\ next.race = c.race,
         NEW k, NEW r, About(ms, next, k, r)
  PROVE  About(ms, c, k, r)
  BY DEF About

LEMMA DeviceBattles ==
  ASSUME ArenaInv, BattleInv, ArenaInv', NEW d \in Device,
         Draw(d) \/ DrawFails(d) \/ LevelRead(d) \/ Use(d) \/ Lose(d) \/ Reconnect(d)
  PROVE  BattleInv'
<1>1. /\ UNCHANGED <<arena, kept>>
      /\ \A e \in Device : \/ down'[e] = down[e] /\ sock'[e] = sock[e] /\ conn'[e] = conn[e]
                           \/ down'[e] = down[e] /\ sock'[e] = sock[e] + 1
                           \/ down'[e] = <<>> /\ sock'[e] = sock[e] /\ ~conn'[e]
      /\ \A s \in Socket : up'[s] = up[s] \/ \E e \in Device : s = Current(e) /\ sock'[e] = sock[e]
  <2>1. CASE Draw(d) \/ DrawFails(d) \/ LevelRead(d) \/ Use(d)
    BY <2>1, PostsOwn DEF ArenaInv
  <2>2. CASE Lose(d)
    BY <2>2 DEF Lose, ArenaInv, TypeOK
  <2>3. CASE Reconnect(d)
    BY <2>3 DEF Reconnect, ArenaInv, TypeOK
  <2> QED
    BY <2>1, <2>2, <2>3
<1>2. \A e \in Device : client'[e].status = "racing" => client[e].status = "racing" /\ client'[e].race = client[e].race
  BY RacesStay DEF ArenaInv
<1>3. RacesGoOn
  BY <1>1, StayGoesOn DEF arena
<1>4. StatsInv'
  BY <1>1, StatsStay DEF BattleInv, arena
<1>5. KeptOver'
  <2>1. \A r, g : GameOver(r, g) => GameOver(r, g)'
    BY <1>3, OverStays DEF ArenaInv
  <2> QED
    BY <1>1, <2>1 DEF BattleInv, KeptOver
<1>6. \A r, m : Genuine(r, m) => Genuine(r, m)'
  BY <1>3, GenuineStays DEF ArenaInv
<1>7. ASSUME NEW e \in Device PROVE Genuinely(e)' /\ SeatTold(e)' /\ Fresh(e)'
  <2>1. Genuinely(e) /\ SeatTold(e) /\ Fresh(e)
    BY DEF BattleInv
  <2>2. \A k, r : About(down[e], client'[e], k, r) => About(down[e], client[e], k, r)
    BY <1>2, AboutStays
  <2>3. Genuinely(e)'
    <3>1. CASE down'[e] = down[e]
      <4> SUFFICES ASSUME NEW k \in 1..Len(down[e]), NEW r \in RaceId, About(down[e], client'[e], k, r)
                   PROVE  Genuine(r, down[e][k])'
        BY <3>1 DEF Genuinely
      <4>1. PICK m : m = down[e][k]
        OBVIOUS
      <4>2. Genuine(r, m)
        BY <2>1, <2>2, <4>1 DEF Genuinely
      <4>3. Genuine(r, m)'
        BY <1>6, <4>2
      <4> QED
        BY <3>1, <4>1, <4>3 DEF Genuine, GameOver
    <3>2. CASE down'[e] = <<>>
      BY <3>2 DEF Genuinely
    <3> QED
      BY <1>1, <3>1, <3>2
  <2>4. sock[e] \in 1..MaxSockets /\ sock'[e] \in 1..MaxSockets /\ (sock'[e] = sock[e] \/ sock'[e] = sock[e] + 1)
    BY <1>1 DEF ArenaInv, TypeOK
  <2>5. Fresh(e)'
    <3> SUFFICES ASSUME NEW n \in 1..MaxSockets, n > sock'[e]
                 PROVE  /\ up'[<<e, n>>] = <<>> /\ joining'[<<e, n>>] = NoEvent /\ seats'[<<e, n>>] = Nowhere
                        /\ \A w \in queue' : w.socket # <<e, n>>
      BY DEF Fresh
    <3>1. n > sock[e] /\ n # sock[e] /\ <<e, n>> \in Socket
      BY <2>4, Bounds DEF Socket
    <3>2. ~\E f \in Device : <<e, n>> = Current(f)
      BY <3>1 DEF Current
    <3> QED
      BY <1>1, <2>1, <3>1, <3>2 DEF Fresh, arena
  <2>6. SeatTold(e)'
    <3> SUFFICES ASSUME conn'[e], seats'[Current(e)'] # Nowhere, NEW r \in RaceId,
                        About(down'[e], client'[e], Len(down'[e]), r)
                 PROVE  r = seats'[Current(e)']
      BY DEF SeatTold
    <3>1. CASE down'[e] = down[e] /\ sock'[e] = sock[e] /\ conn'[e] = conn[e]
      <4>1. About(down[e], client[e], Len(down[e]), r)
        BY <2>2, <3>1
      <4> QED
        BY <1>1, <2>1, <3>1, <4>1 DEF SeatTold, Current, arena
    <3>2. CASE sock'[e] = sock[e] + 1
      <4>1. seats[<<e, sock'[e]>>] = Nowhere
        BY <2>1, <2>4, <3>2 DEF Fresh
      <4> QED
        BY <1>1, <4>1 DEF Current, arena
    <3> QED
      BY <1>1, <3>1, <3>2
  <2> QED
    BY <2>3, <2>5, <2>6
<1> QED
  BY <1>4, <1>5, <1>7 DEF BattleInv

-----------------------------------------------------------------------------
(* The battles: the statistics.                                            *)

\* A game over is counted, if it was not.
LEMMA CountedIn ==
  ASSUME StatsInv, NEW r \in DOMAIN races, Over(races[r]), stats' = stats \cup Counted(r, races[r])
  PROVE  \E x \in stats' : x.race = r /\ x.game = races[r].game
<1>1. CASE races[r].recorded
  <2>1. InStats(r, races[r].game)
    BY <1>1 DEF StatsInv, Recorded
  <2> QED
    BY <2>1 DEF InStats
<1>2. CASE ~races[r].recorded
  <2> DEFINE x == [race |-> r, game |-> races[r].game, results |-> races[r].results]
  <2>1. x \in stats'
    BY <1>2 DEF Counted
  <2>2. x.race = r /\ x.game = races[r].game
    OBVIOUS
  <2> QED
    BY <2>1, <2>2 DEF InStats
<1> QED
  BY <1>1, <1>2

LEMMA LeaveStats ==
  ASSUME ArenaInv, StatsInv, NEW s, NEW r \in DOMAIN races, NEW left \in Race, Leaves(s, r, left)
  PROVE  StatsInv'
<1>1. /\ left.results = races[r].results /\ left.game = races[r].game
      /\ left.recorded <=> races[r].recorded \/ Over(races[r])
      /\ races' = [races EXCEPT ![r] = left] /\ stats' = stats \cup Counted(r, races[r])
  BY DEF Leaves
<1>2. /\ DOMAIN races' = DOMAIN races /\ races'[r] = left
      /\ \A q \in DOMAIN races : q # r => races'[q] = races[q]
  BY <1>1, LeavesOnward, SetGoesOn DEF ArenaInv
<1>3. stats \subseteq stats'
  BY <1>1
<1>4. Over(left) <=> Over(races[r])
  BY <1>1 DEF Over, Solved
<1>5. \A q \in DOMAIN races : races'[q].game = races[q].game
  BY <1>1, <1>2
<1>6. Recorded'
  <2> SUFFICES ASSUME NEW q \in DOMAIN races, races'[q].recorded
               PROVE  \E x \in stats' : x.race = q /\ x.game = races[q].game
    BY <1>2, <1>5 DEF Recorded, InStats
  <2>1. CASE races[q].recorded
    BY <1>3, <2>1 DEF StatsInv, Recorded, InStats
  <2>2. CASE ~races[q].recorded
    <3>1. q = r /\ Over(races[r])
      BY <1>1, <1>2, <2>2
    <3> QED
      BY <1>1, <3>1, CountedIn
  <2> QED
    BY <2>1, <2>2
<1>7. Left'
  <2> SUFFICES ASSUME NEW q \in DOMAIN races, Present(races'[q]) = {}, Over(races'[q])
               PROVE  races'[q].recorded
    BY <1>2 DEF Left, Present, Over, Solved
  <2> QED
    BY <1>1, <1>2, <1>4 DEF StatsInv, Left
<1>8. Behind'
  <2> SUFFICES ASSUME NEW q \in DOMAIN races, NEW g \in 1..(races[q].game - 1)
               PROVE  \E x \in stats' : x.race = q /\ x.game = g
    BY <1>2, <1>5 DEF Behind, InStats
  <2> QED
    BY <1>3 DEF StatsInv, Behind, InStats
<1> QED
  BY <1>6, <1>7, <1>8 DEF StatsInv

LEMMA PlayStats ==
  ASSUME ArenaInv, StatsInv, NEW r, NEW s, s \in Present(races[r]), NEW played \in Race, Changes(r, played)
  PROVE  StatsInv'
<1>1. /\ r \in DOMAIN races /\ Keeps(races[r], played) /\ races' = [races EXCEPT ![r] = played]
      /\ stats' = IF played.game # races[r].game THEN stats \cup Counted(r, races[r]) ELSE stats
  BY DEF Changes
<1>2. /\ DOMAIN races' = DOMAIN races /\ races'[r] = played
      /\ \A q \in DOMAIN races : q # r => races'[q] = races[q]
  BY <1>1, PlayedOnward, SetGoesOn DEF ArenaInv
<1>3. stats \subseteq stats'
  BY <1>1
<1>4. races[r].game \in Nat /\ played.game \in Nat
  BY <1>1, InRaces, RaceParts DEF ArenaInv
<1>5. \/ played.game = races[r].game /\ played.recorded = races[r].recorded
      \/ played.game = races[r].game + 1 /\ played.recorded = FALSE /\ Over(races[r])
  BY <1>1 DEF Keeps
<1>6. Recorded'
  <2> SUFFICES ASSUME NEW q \in DOMAIN races, races'[q].recorded
               PROVE  \E x \in stats' : x.race = q /\ x.game = races'[q].game
    BY <1>2 DEF Recorded, InStats
  <2>1. races[q].recorded /\ races'[q].game = races[q].game
    BY <1>2, <1>5
  <2> QED
    BY <1>3, <2>1 DEF StatsInv, Recorded, InStats
<1>7. Left'
  <2> SUFFICES ASSUME NEW q \in DOMAIN races, Present(races'[q]) = {}, Over(races'[q])
               PROVE  races'[q].recorded
    BY <1>2 DEF Left, Present, Over, Solved
  <2>1. Present(played) = Present(races[r])
    BY <1>1 DEF Keeps, Present
  <2>2. q # r
    BY <1>2, <2>1
  <2> QED
    BY <1>2, <2>2 DEF StatsInv, Left
<1>8. Behind'
  <2> SUFFICES ASSUME NEW q \in DOMAIN races, NEW g \in 1..(races'[q].game - 1)
               PROVE  \E x \in stats' : x.race = q /\ x.game = g
    BY <1>2 DEF Behind, InStats
  <2>1. CASE g \in 1..(races[q].game - 1)
    BY <1>3, <2>1 DEF StatsInv, Behind, InStats
  <2>2. CASE ~(g \in 1..(races[q].game - 1))
    <3>1. q = r
      BY <1>2, <2>2
    <3>2. played.game = races[r].game + 1 /\ Over(races[r]) /\ g = races[r].game
      BY <1>2, <1>4, <1>5, <2>2, <3>1
    <3>3. stats' = stats \cup Counted(r, races[r])
      BY <1>1, <1>4, <3>2
    <3> QED
      BY <1>1, <3>1, <3>2, <3>3, CountedIn
  <2> QED
    BY <2>1, <2>2
<1> QED
  BY <1>6, <1>7, <1>8 DEF StatsInv

LEMMA StartStats ==
  ASSUME ArenaInv, StatsInv, NEW w \in [socket : Socket, event : Event], NEW v \in [socket : Socket, event : Event],
         races' = Append(races, Started(w.event, w.socket, v.socket)), UNCHANGED stats
  PROVE  StatsInv'
<1> DEFINE race == Started(w.event, w.socket, v.socket)
           k == Len(races) + 1
<1>1. race.recorded = FALSE /\ race.game = 1
  BY DEF Started
<1>2. Present(race) # {}
  <2>1. w.event \in Event /\ w.socket \in Socket /\ v.socket \in Socket
    OBVIOUS
  <2>2. Present(race) = {w.socket, v.socket}
    BY <2>1, StartedType
  <2> QED
    BY <2>2
<1> HIDE DEF race
<1>3. /\ DOMAIN races' = DOMAIN races \cup {k} /\ races'[k] = race
      /\ \A q \in DOMAIN races : races'[q] = races[q]
  BY StartGoesOn DEF ArenaInv, race
<1> HIDE DEF k
<1>4. \A q, g : InStats(q, g) => \E x \in stats' : x.race = q /\ x.game = g
  BY DEF InStats
<1>5. Recorded'
  BY <1>1, <1>3, <1>4 DEF StatsInv, Recorded, InStats
<1>6. Left'
  <2> SUFFICES ASSUME NEW q \in DOMAIN races', Present(races'[q]) = {}, Over(races'[q])
               PROVE  races'[q].recorded
    BY DEF Left, Present, Over, Solved
  <2> QED
    BY <1>2, <1>3 DEF StatsInv, Left
<1>7. Behind'
  <2> SUFFICES ASSUME NEW q \in DOMAIN races', NEW g \in 1..(races'[q].game - 1)
               PROVE  \E x \in stats' : x.race = q /\ x.game = g
    BY DEF Behind, InStats
  <2>1. q \in DOMAIN races
    BY <1>1, <1>3
  <2> QED
    BY <1>3, <1>4, <2>1 DEF StatsInv, Behind
<1> QED
  BY <1>5, <1>6, <1>7 DEF StatsInv

-----------------------------------------------------------------------------
(* The battles: what the arena tells.                                      *)

\* The state of a race that is or becomes one tells of that race.
LEMMA StateTells ==
  ASSUME NEW r, NEW race \in Race, r \in DOMAIN races', races'[r] = race
  PROVE  Genuine(r, StateOf(race))'
<1>1. race.game \in 1..race.game
  <2>1. race.game \in 1..MaxGames
    BY RaceParts
  <2> QED
    BY <2>1, Bounds
<1>2. (\A n \in Round, i \in Seat : race.results[i][n] # NoSolve) => \A n \in Round : Solved(race, n)
  BY DEF Solved
<1> QED
  BY <1>1, <1>2 DEF Genuine, StateOf, GameOver, Over, Solved

\* More messages, genuine too.
LEMMA ArenaTells ==
  ASSUME ArenaInv, BattleInv, ArenaInv', RacesGoOn, NEW d \in Device, NEW x \in Seq(Down),
         down'[d] = down[d] \o x, client' = client,
         \A k \in 1..Len(x) : \A r \in RaceId, m \in {x[k]} :
           About(down[d] \o x, client[d], Len(down[d]) + k, r) => Genuine(r, m)'
  PROVE  Genuinely(d)'
<1> SUFFICES ASSUME NEW k \in 1..Len(down'[d]), NEW r \in RaceId, About(down'[d], client'[d], k, r)
             PROVE  Genuine(r, down[d][k])'
  BY DEF Genuinely
<1>1. down[d] \in Seq(Down) /\ Len(down[d]) \in Nat /\ Len(x) \in Nat /\ k \in Nat
  BY DEF ArenaInv, TypeOK
<1>2. k \in 1..(Len(down[d]) + Len(x))
  BY <1>1, ConcatProperties
<1>3. PICK m : m = down'[d][k]
  OBVIOUS
<1>4. Genuine(r, m)'
  <2>1. CASE k <= Len(down[d])
    <3>1. k \in 1..Len(down[d]) /\ k \in 0..Len(down[d])
      BY <1>1, <1>2, <2>1
    <3>2. m = down[d][k]
      BY <1>1, <1>2, <1>3, <2>1, ConcatProperties
    <3>3. About(down[d], client[d], k, r)
      BY <1>1, <3>1, AboutBefore
    <3>4. Genuine(r, m)
      BY <3>1, <3>2, <3>3 DEF BattleInv, Genuinely
    <3> QED
      BY <3>4, GenuineStays DEF ArenaInv
  <2>2. CASE k > Len(down[d])
    <3>1. PICK j \in 1..Len(x) : k = Len(down[d]) + j
      <4>1. k - Len(down[d]) \in 1..Len(x) /\ k = Len(down[d]) + (k - Len(down[d]))
        BY <1>1, <1>2, <2>2
      <4> QED
        BY <4>1
    <3>2. k - Len(down[d]) = j
      BY <1>1, <3>1
    <3>3. m = x[j]
      BY <1>1, <1>2, <1>3, <2>2, <3>2, ConcatProperties
    <3> QED
      BY <3>1, <3>3
  <2> QED
    BY <1>1, <2>1, <2>2
<1> QED
  BY <1>3, <1>4 DEF Genuine, GameOver

LEMMA NothingNew ==
  ASSUME ArenaInv, BattleInv, ArenaInv', RacesGoOn, NEW d \in Device, down'[d] = down[d], client' = client
  PROVE  Genuinely(d)'
<1>1. <<>> \in Seq(Down) /\ Len(<<>>) = 0 /\ down'[d] = down[d] \o <<>>
  BY ConcatEmptySeq DEF ArenaInv, TypeOK
<1>2. \A k \in 1..Len(<<>>) : \A r \in RaceId, m \in {<<>>[k]} :
        About(down[d] \o <<>>, client[d], Len(down[d]) + k, r) => Genuine(r, m)'
  BY <1>1
<1> QED
  BY <1>1, <1>2, ArenaTells

\* Messages that are no match leave a device going where it went.
LEMMA SeatStays ==
  ASSUME ArenaInv, BattleInv, NEW d \in Device, UNCHANGED <<sock, conn, client>>,
         seats'[Current(d)] = Nowhere \/ seats'[Current(d)] = seats[Current(d)],
         \/ down'[d] = down[d]
         \/ \E m \in Down : m.type # "match" /\ down'[d] = down[d] \o <<m>>
  PROVE  SeatTold(d)'
<1> SUFFICES ASSUME conn[d], seats'[Current(d)] # Nowhere, NEW r \in RaceId,
                    About(down'[d], client[d], Len(down'[d]), r)
             PROVE  r = seats'[Current(d)]
  BY DEF SeatTold, Current
<1>1. down[d] \in Seq(Down) /\ Len(down[d]) \in Nat
  BY DEF ArenaInv, TypeOK
<1>2. About(down[d], client[d], Len(down[d]), r)
  <2>1. CASE down'[d] = down[d]
    BY <2>1
  <2>2. ASSUME NEW m \in Down, m.type # "match", down'[d] = down[d] \o <<m>>
        PROVE  About(down[d], client[d], Len(down[d]), r)
    <3>1. <<m>> \in Seq(Down) /\ Len(<<m>>) = 1 /\ 1 \in 1..Len(<<m>>) /\ \A j \in 1..Len(<<m>>) : <<m>>[j].type # "match"
      BY <2>2
    <3>2. Len(down'[d]) = Len(down[d]) + 1
      BY <1>1, <2>2, <3>1, ConcatProperties
    <3> QED
      BY <1>1, <2>2, <3>1, <3>2, AboutAfter
  <2> QED
    BY <2>1, <2>2
<1>3. SeatTold(d)
  BY DEF BattleInv
<1> QED
  BY <1>2, <1>3 DEF SeatTold

\* A race changes, and those in it are told.
LEMMA BroadcastTells ==
  ASSUME ArenaInv, BattleInv, ArenaInv', RacesGoOn, UNCHANGED <<sock, conn, client>>,
         NEW r \in DOMAIN races, NEW race \in Race, races' = [races EXCEPT ![r] = race], Broadcast(race),
         \A t : t \in Present(race) => t \in Present(races[r]),
         \A t \in Socket : seats'[t] = Nowhere \/ seats'[t] = seats[t],
         NEW d \in Device
  PROVE  Genuinely(d)' /\ SeatTold(d)'
<1> DEFINE m == StateOf(race)
<1>1. m \in Down /\ m.type = "state"
  BY StateType DEF StateOf
<1>2. down'[d] = IF conn[d] /\ Current(d) \in Present(race) THEN down[d] \o <<m>> ELSE down[d]
  BY BroadcastIs DEF ArenaInv
<1>3. Current(d) \in Socket /\ down[d] \in Seq(Down)
  BY CurrentIs DEF ArenaInv, TypeOK
<1>4. r \in DOMAIN races' /\ races'[r] = race
  BY DEF ArenaInv, TypeOK
<1>5. Genuine(r, m)'
  BY <1>4, StateTells
<1> HIDE DEF m
<1>6. SeatTold(d)'
  BY <1>1, <1>2, <1>3, SeatStays
<1>7. Genuinely(d)'
  <2>1. CASE down'[d] = down[d]
    BY <2>1, NothingNew
  <2>2. CASE conn[d] /\ Current(d) \in Present(race) /\ down'[d] = down[d] \o <<m>>
    <3>1. seats[Current(d)] = r /\ r # Nowhere
      <4>1. Current(d) \in Present(races[r])
        BY <2>2
      <4> QED
        BY <4>1, InRaces DEF ArenaInv, Places, OneRace
    <3>2. <<m>> \in Seq(Down) /\ Len(<<m>>) = 1 /\ 1 \in 1..Len(<<m>>) /\ \A j \in 1..Len(<<m>>) : <<m>>[j] = m /\ j = 1
      BY <1>1
    <3>3. ASSUME NEW q \in RaceId, About(down[d] \o <<m>>, client[d], Len(down[d]) + 1, q) PROVE q = r
      <4>1. \A j \in 1..Len(<<m>>) : <<m>>[j].type # "match"
        BY <1>1, <3>2
      <4>2. About(down[d], client[d], Len(down[d]), q)
        BY <1>3, <3>2, <3>3, <4>1, AboutAfter
      <4> QED
        BY <2>2, <3>1, <4>2 DEF BattleInv, SeatTold
    <3>4. \A k \in 1..Len(<<m>>) : \A q \in RaceId, n \in {<<m>>[k]} :
            About(down[d] \o <<m>>, client[d], Len(down[d]) + k, q) => Genuine(q, n)'
      BY <1>5, <3>2, <3>3
    <3> QED
      BY <2>2, <3>2, <3>4, ArenaTells
  <2> QED
    BY <1>2, <2>1, <2>2
<1> QED
  BY <1>6, <1>7

\* Nor does being queued say anything of a race.
LEMMA QueuedTells ==
  ASSUME ArenaInv, BattleInv, ArenaInv', RacesGoOn, UNCHANGED <<sock, conn, client>>, NEW d \in Device,
         seats'[Current(d)] = Nowhere \/ seats'[Current(d)] = seats[Current(d)],
         down'[d] = down[d] \/ down'[d] = down[d] \o <<[type |-> "queued"]>>
  PROVE  Genuinely(d)' /\ SeatTold(d)'
<1> DEFINE m == [type |-> "queued"]
<1>1. m \in Down /\ m.type = "queued"
  BY DEF Down
<1>2. \A q : Genuine(q, m)'
  BY <1>1 DEF Genuine
<1> HIDE DEF m
<1>3. SeatTold(d)'
  BY <1>1, SeatStays DEF m
<1>4. CASE down'[d] = down[d]
  BY <1>3, <1>4, NothingNew
<1>5. CASE down'[d] = down[d] \o <<m>>
  <2>1. <<m>> \in Seq(Down) /\ Len(<<m>>) = 1 /\ \A k \in 1..Len(<<m>>) : <<m>>[k] = m
    BY <1>1
  <2>2. \A k \in 1..Len(<<m>>) : \A q \in RaceId, n \in {<<m>>[k]} :
          About(down[d] \o <<m>>, client[d], Len(down[d]) + k, q) => Genuine(q, n)'
    BY <1>2, <2>1
  <2>3. Genuinely(d)'
    BY <1>5, <2>1, <2>2, ArenaTells
  <2> QED
    BY <1>3, <2>3
<1> QED
  BY <1>4, <1>5 DEF m

LEMMA Followed ==
  ASSUME NEW told, NEW q \in Down, NEW a \in Down, NEW b \in Down, told = <<>> \/ told = <<q>>
  PROVE  \E l \in 2..3 : LET x == told \o <<a, b>>
         IN  /\ x \in Seq(Down) /\ Len(x) = l /\ x[l - 1] = a /\ x[l] = b
             /\ \A k \in 1..l : k = l \/ k = l - 1 \/ x[k] = q
<1>1. /\ <<a, b>> \in Seq(Down) /\ Len(<<a, b>>) = 2 /\ <<a, b>>[1] = a /\ <<a, b>>[2] = b
      /\ <<q>> \in Seq(Down) /\ Len(<<q>>) = 1 /\ <<q>>[1] = q
  OBVIOUS
<1> DEFINE y == <<a, b>>
           z == <<q>>
<1> HIDE DEF y, z
<1>2. CASE told = <<>>
  <2>1. told \o y = y
    BY <1>1, <1>2, ConcatEmptySeq DEF y
  <2>2. 2 \in 2..3 /\ y \in Seq(Down) /\ Len(y) = 2 /\ y[2 - 1] = a /\ y[2] = b /\ \A k \in 1..2 : k = 2 \/ k = 2 - 1
    BY <1>1 DEF y
  <2> QED
    BY <2>1, <2>2 DEF y
<1>3. CASE told = z
  <2>1. /\ z \o y \in Seq(Down) /\ Len(z \o y) = Len(z) + Len(y)
        /\ \A i \in 1..(Len(z) + Len(y)) : (z \o y)[i] = IF i <= Len(z) THEN z[i] ELSE y[i - Len(z)]
    BY <1>1, ConcatProperties DEF y, z
  <2>2. Len(z) = 1 /\ Len(y) = 2 /\ y[1] = a /\ y[2] = b /\ z[1] = q
    BY <1>1 DEF y, z
  <2>3. Len(z \o y) = 3 /\ \A i \in 1..3 : (z \o y)[i] = IF i <= 1 THEN z[i] ELSE y[i - 1]
    BY <2>1, <2>2
  <2>4. (z \o y)[1] = q /\ (z \o y)[2] = a /\ (z \o y)[3] = b
    BY <2>2, <2>3
  <2>5. 3 - 1 = 2 /\ 3 \in 2..3 /\ \A k \in 1..3 : k = 3 \/ k = 2 \/ k = 1
    OBVIOUS
  <2> QED
    BY <1>3, <2>1, <2>3, <2>4, <2>5 DEF y
<1> QED
  BY <1>2, <1>3 DEF z

\* The two of a race that starts are told of it, and go there.
LEMMA StartedTells ==
  ASSUME ArenaInv, BattleInv, ArenaInv', RacesGoOn, UNCHANGED <<sock, conn, client>>,
         NEW w \in [socket : Socket, event : Event], NEW v \in [socket : Socket, event : Event],
         NEW told, StartRace(w, v, queue, told),
         \A s \in Socket : told[s] = <<>> \/ told[s] = <<[type |-> "queued"]>>,
         NEW d \in Device
  PROVE  Genuinely(d)' /\ SeatTold(d)'
<1> DEFINE r == Len(races) + 1
           race == Started(w.event, w.socket, v.socket)
           s == Current(d)
<1>1. /\ ~conn[d] => down'[d] = down[d]
      /\ conn[d] /\ s \notin {w.socket, v.socket} => down'[d] = down[d] \o told[s]
      /\ conn[d] /\ s \in {w.socket, v.socket} => down'[d] = down[d] \o (told[s] \o <<MatchOf(r, race, s), StateOf(race)>>)
  <2>1. Tells(w, v, told)
    BY StartTells DEF ArenaInv
  <2> QED
    BY <2>1 DEF Tells
<1>2. seats' = [seats EXCEPT ![w.socket] = r, ![v.socket] = r]
  BY DEF StartRace
<1>3. s \in Socket /\ down[d] \in Seq(Down) /\ Len(down[d]) \in Nat
  BY CurrentIs DEF ArenaInv, TypeOK
<1>4. CASE ~conn[d]
  <2>1. SeatTold(d)'
    BY <1>4 DEF SeatTold
  <2> QED
    BY <1>1, <1>4, <2>1, NothingNew
<1>5. CASE conn[d] /\ s \notin {w.socket, v.socket}
  <2>1. seats'[s] = seats[s]
    BY <1>2, <1>3, <1>5 DEF ArenaInv, TypeOK
  <2>2. down'[d] = down[d] \/ down'[d] = down[d] \o <<[type |-> "queued"]>>
    <3>1. down[d] \o <<>> = down[d]
      BY <1>3, ConcatEmptySeq
    <3> QED
      BY <1>1, <1>3, <1>5, <3>1
  <2> QED
    BY <2>1, <2>2, QueuedTells
<1>6. CASE conn[d] /\ s \in {w.socket, v.socket}
  <2> DEFINE q == [type |-> "queued"]
             a == MatchOf(r, race, s)
             b == StateOf(race)
             x == told[s] \o <<a, b>>
  <2>1. race \in Race /\ Present(race) = {w.socket, v.socket} /\ race.scrambles = NoList
    <3>1. w.event \in Event /\ w.socket \in Socket /\ v.socket \in Socket
      OBVIOUS
    <3>2. race \in Race /\ Present(race) = {w.socket, v.socket}
      BY <3>1, StartedType
    <3> QED
      BY <3>2 DEF Started
  <2>2. r \in RaceId
    <3>1. Len(races) < MaxRaces /\ Len(races) \in Nat
      <4>1. Len(races) < MaxRaces
        BY DEF StartRace
      <4> QED
        BY <4>1 DEF ArenaInv, TypeOK
    <3> QED
      BY <3>1, Bounds DEF RaceId
  <2> HIDE DEF race
  <2>3. a \in Down /\ a.type = "match" /\ a.race = r
    <3>1. SeatOf(race, s) \in Seat /\ race.event \in Event
      BY <1>6, <2>1, SeatOfIs, RaceParts
    <3> QED
      BY <2>2, <3>1 DEF MatchOf, Down
  <2>4. b \in Down /\ b.type = "state" /\ b.scrambles = NoList
    BY <2>1, StateType DEF StateOf
  <2>5. q \in Down /\ q.type = "queued"
    BY DEF Down
  <2>6. told[s] = <<>> \/ told[s] = <<q>>
    BY <1>3
  <2>7. seats'[s] = r
    BY <1>2, <1>3, <1>6 DEF ArenaInv, TypeOK
  <2>8. down'[d] = down[d] \o x
    BY <1>1, <1>6
  <2> HIDE DEF q, a, b, r
  <2>9. PICK l \in 2..3 :
          /\ x \in Seq(Down) /\ Len(x) = l /\ x[l - 1] = a /\ x[l] = b
          /\ \A k \in 1..l : k = l \/ k = l - 1 \/ x[k] = q
    BY <2>3, <2>4, <2>5, <2>6, Followed
  <2> HIDE DEF x, s
  <2>10. \A k \in 1..Len(x) : x[k] = a \/ x[k] = b \/ x[k] = q
    BY <2>9
  <2>11. \A p, n : n = a \/ n = b \/ n = q => Genuine(p, n)'
    BY <2>3, <2>4, <2>5 DEF Genuine
  <2>12. \A k \in 1..Len(x) : \A p \in RaceId, n \in {x[k]} :
           About(down[d] \o x, client[d], Len(down[d]) + k, p) => Genuine(p, n)'
    BY <2>10, <2>11
  <2>13. Genuinely(d)'
    BY <2>8, <2>9, <2>12, ArenaTells
  <2>14. ASSUME NEW p \in RaceId, About(down[d] \o x, client[d], Len(down[d]) + Len(x), p) PROVE p = r
    <3>1. l - 1 \in 1..l /\ \A j \in ((l - 1) + 1)..l : j = l
      BY <2>9
    <3>2. x[l - 1].type = "match" /\ \A j \in ((l - 1) + 1)..l : x[j].type # "match"
      BY <2>3, <2>4, <2>9, <3>1
    <3>3. p = x[l - 1].race
      BY <1>3, <2>9, <2>14, <3>1, <3>2, AboutMatch
    <3> QED
      BY <2>3, <2>9, <3>3
  <2>15. Len(down'[d]) = Len(down[d]) + Len(x)
    BY <1>3, <2>8, <2>9, ConcatProperties
  <2>16. SeatTold(d)'
    BY <2>7, <2>8, <2>14, <2>15 DEF SeatTold, Current, s
  <2> QED
    BY <2>13, <2>16
<1> QED
  BY <1>4, <1>5, <1>6

-----------------------------------------------------------------------------
(* The battles: the steps of the arena.                                    *)

\* A step of a socket that did something leaves those not open yet alone.
Busy(s) == up[s] # <<>> \/ joining[s] # NoEvent \/ \E w \in queue : w.socket = s

LEMMA FreshStays ==
  ASSUME ArenaInv, BattleInv, UNCHANGED sock, NEW d \in Device,
         \A s \in Socket : Busy(s) \/ (up'[s] = up[s] /\ joining'[s] = joining[s] /\ seats'[s] = seats[s]),
         \A w \in queue' : w \in queue \/ Busy(w.socket)
  PROVE  Fresh(d)'
<1> SUFFICES ASSUME NEW n \in 1..MaxSockets, n > sock'[d]
             PROVE  /\ up'[<<d, n>>] = <<>> /\ joining'[<<d, n>>] = NoEvent /\ seats'[<<d, n>>] = Nowhere
                    /\ \A w \in queue' : w.socket # <<d, n>>
  BY DEF Fresh
<1>1. /\ up[<<d, n>>] = <<>> /\ joining[<<d, n>>] = NoEvent /\ seats[<<d, n>>] = Nowhere
      /\ \A w \in queue : w.socket # <<d, n>>
  BY DEF BattleInv, Fresh
<1>2. <<d, n>> \in Socket /\ ~Busy(<<d, n>>)
  BY <1>1 DEF Busy, Socket
<1> QED
  BY <1>1, <1>2

LEMMA KeptThere ==
  ASSUME ArenaInv, BattleInv, ArenaInv', RacesGoOn, UNCHANGED kept PROVE KeptOver'
<1>1. \A r, g : GameOver(r, g) => GameOver(r, g)'
  BY OverStays DEF ArenaInv
<1> QED
  BY <1>1 DEF BattleInv, KeptOver

LEMMA TakesBusy ==
  ASSUME ArenaInv, NEW s \in Socket, NEW type, Takes(s, type)
  PROVE  Busy(s) /\ UNCHANGED <<sock, conn, client, kept>> /\ \A t \in Socket : t # s => up'[t] = up[t]
<1>1. up[s] # <<>> /\ up' = [up EXCEPT ![s] = Tail(@)] /\ UNCHANGED <<sock, conn, client, kept>>
  BY DEF Takes
<1> QED
  BY <1>1 DEF Busy, ArenaInv, TypeOK

LEMMA LeaveBattles ==
  ASSUME ArenaInv, BattleInv, ArenaInv', NEW s \in Socket, Queue(s) \/ Leave(s)
  PROVE  BattleInv'
<1>1. LeaveAll(s) /\ (\E type : Takes(s, type)) /\ \A t \in Socket : t # s => joining'[t] = joining[t]
  BY DEF Queue, Leave, ArenaInv, TypeOK
<1>2. Busy(s) /\ UNCHANGED <<sock, conn, client, kept>> /\ \A t \in Socket : t # s => up'[t] = up[t]
  BY <1>1, TakesBusy
<1>3. queue' \subseteq queue
  BY <1>1 DEF LeaveAll
<1>4. RacesGoOn
  BY <1>1, LeaveGoesOn
<1>5. \A t \in Socket : seats'[t] = IF t = s THEN Nowhere ELSE seats[t]
  <2>1. CASE seats[s] = Nowhere
    BY <1>1, <2>1 DEF LeaveAll
  <2>2. CASE seats[s] # Nowhere
    <3>1. seats' = [seats EXCEPT ![s] = Nowhere]
      BY <1>1, <2>2 DEF LeaveAll, SeatsLeft
    <3> QED
      BY <3>1 DEF ArenaInv, TypeOK
  <2> QED
    BY <2>1, <2>2
<1>6. \A d \in Device : Fresh(d)'
  BY <1>1, <1>2, <1>3, <1>5, FreshStays
<1>7. StatsInv' /\ \A d \in Device : Genuinely(d)' /\ SeatTold(d)'
  <2>1. CASE seats[s] = Nowhere
    <3>1. UNCHANGED <<races, seats, stats, down>>
      BY <1>1, <2>1 DEF LeaveAll
    <3>2. ASSUME NEW d \in Device PROVE Genuinely(d)' /\ SeatTold(d)'
      <4>1. down'[d] = down[d] /\ seats'[Current(d)] = seats[Current(d)]
        BY <3>1
      <4> QED
        BY <1>2, <1>4, <4>1, NothingNew, SeatStays
    <3> QED
      BY <3>1, <3>2, StatsStay DEF BattleInv
  <2>2. CASE seats[s] # Nowhere
    <3>1. seats[s] \in DOMAIN races
      BY <1>1, <2>2, LeaveIs
    <3>2. PICK left \in Race : Leaves(s, seats[s], left)
      BY <1>1, <2>2, LeaveIs
    <3>3. /\ races' = [races EXCEPT ![seats[s]] = left] /\ Broadcast(left)
          /\ \A t : t \in Present(left) => t \in Present(races[seats[s]])
      BY <3>2 DEF Leaves
    <3>4. StatsInv'
      BY <3>1, <3>2, LeaveStats DEF BattleInv
    <3>5. \A d \in Device : Genuinely(d)' /\ SeatTold(d)'
      BY <1>2, <1>4, <1>5, <3>1, <3>3, BroadcastTells
    <3> QED
      BY <3>4, <3>5
  <2> QED
    BY <2>1, <2>2
<1>8. KeptOver'
  BY <1>2, <1>4, KeptThere
<1> QED
  BY <1>6, <1>7, <1>8 DEF BattleInv

LEMMA PlayBattles ==
  ASSUME ArenaInv, BattleInv, ArenaInv', NEW s \in Socket, Play(s)
  PROVE  BattleInv'
<1>1. UNCHANGED <<queue, joining, seats>> /\ \E type : Takes(s, type)
  BY PlayIs
<1>2. Busy(s) /\ UNCHANGED <<sock, conn, client, kept>> /\ \A t \in Socket : t # s => up'[t] = up[t]
  BY <1>1, TakesBusy
<1>3. RacesGoOn
  BY PlayGoesOn
<1>4. \A d \in Device : Fresh(d)'
  BY <1>1, <1>2, FreshStays
<1>5. CASE UNCHANGED <<races, down, stats>>
  <2>1. ASSUME NEW d \in Device PROVE Genuinely(d)' /\ SeatTold(d)'
    <3>1. down'[d] = down[d] /\ seats'[Current(d)] = seats[Current(d)]
      BY <1>1, <1>5
    <3> QED
      BY <1>2, <1>3, <3>1, NothingNew, SeatStays
  <2>2. StatsInv'
    BY <1>5, StatsStay DEF BattleInv
  <2> QED
    BY <1>2, <1>3, <1>4, <2>1, <2>2, KeptThere DEF BattleInv
<1>6. CASE seats[s] # Nowhere /\ \E played \in Race : Changes(seats[s], played)
  <2>1. PICK played \in Race : Changes(seats[s], played)
    BY <1>6
  <2>2. seats[s] \in DOMAIN races /\ s \in Present(races[seats[s]])
    BY <1>6, SeatIs
  <2>3. /\ races' = [races EXCEPT ![seats[s]] = played] /\ Broadcast(played)
        /\ \A t : t \in Present(played) => t \in Present(races[seats[s]])
    BY <2>1 DEF Changes, Keeps, Present
  <2>4. StatsInv'
    BY <2>1, <2>2, PlayStats DEF BattleInv
  <2>5. \A d \in Device : Genuinely(d)' /\ SeatTold(d)'
    BY <1>1, <1>2, <1>3, <2>2, <2>3, BroadcastTells
  <2> QED
    BY <1>2, <1>3, <1>4, <2>4, <2>5, KeptThere DEF BattleInv
<1> QED
  BY <1>5, <1>6, PlayIs

LEMMA PairBattles ==
  ASSUME ArenaInv, BattleInv, ArenaInv',
         NEW w \in [socket : Socket, event : Event], NEW v \in [socket : Socket, event : Event],
         NEW told, StartRace(w, v, queue, told),
         \A s \in Socket : told[s] = <<>> \/ told[s] = <<[type |-> "queued"]>>,
         Busy(w.socket), Busy(v.socket), \A s \in Socket : Busy(s) \/ joining'[s] = joining[s],
         UNCHANGED <<stats, up, sock, conn, client, kept>>
  PROVE  BattleInv'
<1>1. /\ races' = Append(races, Started(w.event, w.socket, v.socket)) /\ queue' = queue \ {w, v}
      /\ seats' = [seats EXCEPT ![w.socket] = Len(races) + 1, ![v.socket] = Len(races) + 1]
  BY DEF StartRace
<1>2. RacesGoOn
  BY <1>1, StartGoesOn DEF ArenaInv
<1>3. StatsInv'
  BY <1>1, StartStats DEF BattleInv
<1>4. KeptOver'
  BY <1>2, KeptThere
<1>5. \A d \in Device : Genuinely(d)' /\ SeatTold(d)'
  BY <1>2, StartedTells
<1>6. \A s \in Socket : Busy(s) \/ seats'[s] = seats[s]
  BY <1>1 DEF ArenaInv, TypeOK
<1>7. \A d \in Device : Fresh(d)'
  BY <1>1, <1>6, FreshStays
<1> QED
  BY <1>3, <1>4, <1>5, <1>7 DEF BattleInv

LEMMA TickBattles == ASSUME ArenaInv, BattleInv, ArenaInv', Tick PROVE BattleInv'
<1> DEFINE told == [s \in Socket |-> <<>>]
<1>1. PICK w \in queue, v \in queue : StartRace(w, v, queue, told)
  BY DEF Tick
<1>2. \A s \in Socket : told[s] = <<>> \/ told[s] = <<[type |-> "queued"]>>
  OBVIOUS
<1> HIDE DEF told
<1>3. UNCHANGED <<joining, stats, up, sock, conn, client, kept>>
  BY DEF Tick
<1>4. w \in [socket : Socket, event : Event] /\ v \in [socket : Socket, event : Event]
  BY DEF ArenaInv, TypeOK
<1>5. Busy(w.socket) /\ Busy(v.socket)
  BY DEF Busy
<1> QED
  BY <1>1, <1>2, <1>3, <1>4, <1>5, PairBattles

LEMMA JoinBattles == ASSUME ArenaInv, BattleInv, ArenaInv', NEW s \in Socket, Join(s) PROVE BattleInv'
<1> DEFINE w == [socket |-> s, event |-> joining[s]]
           queued == [t \in Socket |-> IF t = s THEN <<[type |-> "queued"]>> ELSE <<>>]
<1>1. /\ joining[s] # NoEvent /\ joining' = [joining EXCEPT ![s] = NoEvent]
      /\ UNCHANGED <<stats, up, sock, conn, client, kept>>
  BY DEF Join
<1>2. Busy(s) /\ \A t \in Socket : Busy(t) \/ joining'[t] = joining[t]
  BY <1>1 DEF Busy, ArenaInv, TypeOK
<1>3. w \in [socket : Socket, event : Event] /\ w.socket = s
  BY <1>1 DEF ArenaInv, TypeOK
<1>4. \A t \in Socket : queued[t] = <<>> \/ queued[t] = <<[type |-> "queued"]>>
  OBVIOUS
<1>5. ASSUME queue' = queue \/ queue' = queue \cup {w}, UNCHANGED <<races, seats>>,
             \A d \in Device : down'[d] = down[d] \/ down'[d] = down[d] \o <<[type |-> "queued"]>>
      PROVE  BattleInv'
  <2>1. RacesGoOn
    BY <1>5, StayGoesOn
  <2>2. StatsInv' /\ KeptOver'
    BY <1>1, <1>5, <2>1, StatsStay, KeptThere DEF BattleInv
  <2>3. ASSUME NEW d \in Device PROVE Genuinely(d)' /\ SeatTold(d)'
    <3>1. down'[d] = down[d] \/ down'[d] = down[d] \o <<[type |-> "queued"]>>
      BY <1>5
    <3>2. seats'[Current(d)] = seats[Current(d)]
      BY <1>5
    <3> QED
      BY <1>1, <2>1, <3>1, <3>2, QueuedTells
  <2>4. \A d \in Device : Fresh(d)'
    <3>1. \A x \in queue' : x \in queue \/ Busy(x.socket)
      BY <1>2, <1>3, <1>5
    <3> QED
      BY <1>1, <1>2, <1>5, <3>1, FreshStays
  <2> QED
    BY <2>2, <2>3, <2>4 DEF BattleInv
<1>6. CASE UNCHANGED <<queue, races, seats, down>>
  BY <1>5, <1>6
<1>7. CASE queue' = queue \cup {w} /\ down' = Sent(LAMBDA t : queued[t]) /\ UNCHANGED <<races, seats>>
  <2>1. down' = [d \in Device |-> IF conn[d] THEN down[d] \o queued[Current(d)] ELSE down[d]]
    BY <1>7 DEF Sent
  <2>2. \A d \in Device : Current(d) \in Socket /\ down[d] \o <<>> = down[d]
    BY CurrentIs, ConcatEmptySeq DEF ArenaInv, TypeOK
  <2>3. \A d \in Device : down'[d] = down[d] \/ down'[d] = down[d] \o <<[type |-> "queued"]>>
    BY <1>4, <2>1, <2>2
  <2> QED
    BY <1>5, <1>7, <2>3
<1>8. CASE \E v \in queue : StartRace(w, v, queue, queued) \/ StartRace(v, w, queue, queued)
  <2>1. PICK v \in queue : StartRace(w, v, queue, queued) \/ StartRace(v, w, queue, queued)
    BY <1>8
  <2>2. v \in [socket : Socket, event : Event] /\ Busy(v.socket) /\ Busy(w.socket)
    BY <1>2, <1>3 DEF Busy, ArenaInv, TypeOK
  <2> HIDE DEF w, queued
  <2> QED
    BY <1>1, <1>2, <1>3, <1>4, <2>1, <2>2, PairBattles
<1> HIDE DEF w, queued
<1>9. \/ UNCHANGED <<queue, races, seats, down>>
      \/ queue' = queue \cup {w} /\ down' = Sent(LAMBDA t : queued[t]) /\ UNCHANGED <<races, seats>>
      \/ \E v \in queue : StartRace(w, v, queue, queued) \/ StartRace(v, w, queue, queued)
  BY DEF Join, w, queued
<1> QED
  BY <1>6, <1>7, <1>8, <1>9

-----------------------------------------------------------------------------

LEMMA InitBattles == ASSUME Init PROVE BattleInv
<1>1. StatsInv /\ KeptOver
  BY DEF Init, StatsInv, Recorded, Left, Behind, KeptOver
<1>2. ASSUME NEW d \in Device PROVE Genuinely(d) /\ SeatTold(d) /\ Fresh(d)
  <2>1. down[d] = <<>> /\ Len(<<>>) = 0
    BY DEF Init
  <2>2. Current(d) \in Socket
    BY Bounds DEF Init, Current, Socket
  <2>3. Genuinely(d)
    BY <2>1 DEF Genuinely
  <2>4. SeatTold(d)
    BY <2>2 DEF Init, SeatTold
  <2>5. Fresh(d)
    BY DEF Init, Fresh, Socket
  <2> QED
    BY <2>3, <2>4, <2>5
<1> QED
  BY <1>1, <1>2 DEF BattleInv

LEMMA BattleSteps == ASSUME ArenaInv, ArenaInv', BattleInv, [Next]_vars PROVE BattleInv'
<1>1. CASE Tick
  BY <1>1, TickBattles
<1>2. ASSUME NEW s \in Socket, Serve(s) PROVE BattleInv'
  BY <1>2, LeaveBattles, JoinBattles, PlayBattles DEF Serve
<1>3. ASSUME NEW d \in Device, Receive(d) \/ Draw(d) \/ DrawFails(d) \/ LevelRead(d) \/ Use(d) \/ Lose(d) \/ Reconnect(d)
      PROVE  BattleInv'
  BY <1>3, ReceiveBattles, DeviceBattles
<1>4. CASE UNCHANGED vars
  <2>1. StatsInv'
    BY <1>4, StatsStay DEF BattleInv, vars
  <2>2. KeptOver'
    BY <1>4 DEF BattleInv, KeptOver, GameOver, Over, Solved, vars
  <2>3. \A d \in Device : Genuinely(d)' /\ SeatTold(d)' /\ Fresh(d)'
    BY <1>4 DEF BattleInv, Genuinely, Genuine, GameOver, Over, Solved, SeatTold, Fresh, Current, vars
  <2> QED
    BY <2>1, <2>2, <2>3 DEF BattleInv
<1> QED
  BY <1>1, <1>2, <1>3, <1>4 DEF Next

LEMMA KeptAreCounted == ASSUME ArenaInv, BattleInv PROVE BattlesCounted
<1> SUFFICES ASSUME NEW d \in Device, NEW b \in kept[d],
                    races[b.race].game # b.game \/ Present(races[b.race]) = {}
             PROVE  InStats(b.race, b.game)
  BY DEF BattlesCounted, InStats
<1>1. GameOver(b.race, b.game)
  BY DEF BattleInv, KeptOver
<1>2. b.race \in DOMAIN races /\ races[b.race].game \in Nat
  BY <1>1, InRaces, RaceParts DEF GameOver, ArenaInv
<1>3. CASE races[b.race].game # b.game
  <2>1. b.game \in 1..(races[b.race].game - 1)
    BY <1>1, <1>2, <1>3 DEF GameOver
  <2> QED
    BY <1>2, <2>1 DEF BattleInv, StatsInv, Behind
<1>4. CASE races[b.race].game = b.game /\ Present(races[b.race]) = {}
  <2>1. Over(races[b.race])
    BY <1>1, <1>4 DEF GameOver
  <2>2. races[b.race].recorded
    BY <1>2, <1>4, <2>1 DEF BattleInv, StatsInv, Left
  <2> QED
    BY <1>2, <1>4, <2>2 DEF BattleInv, StatsInv, Recorded
<1> QED
  BY <1>3, <1>4

\* A battle that a device keeps is in the server's statistics once its game is behind or
\* its players are gone, whichever of them left first, lost its socket or asked for
\* another game (record, leave and rematch, duel.go; receive, duel.ts).
THEOREM AlwaysCounted == Spec => []BattlesCounted
<1>1. Init => BattleInv
  BY InitBattles
<1>2. ArenaInv /\ ArenaInv' /\ BattleInv /\ [Next]_vars => BattleInv'
  BY BattleSteps
<1>3. ArenaInv /\ BattleInv => BattlesCounted
  BY KeptAreCounted
<1> QED
  BY <1>1, <1>2, <1>3, ArenaAlways, PTL DEF Spec

-----------------------------------------------------------------------------
(* The mirror: what is on its way between a device and the arena.          *)

\* What a socket still has to say of being in the arena: nothing, or last that it joins
\* or leaves.
Calls == {"queue", "leave"}
Silent(q) == \A k \in 1..Len(q) : q[k].type \notin Calls
LastCall(q, type) == \E k \in 1..Len(q) : q[k].type = type /\ \A j \in (k + 1)..Len(q) : q[j].type \notin Calls
Never(q, type) == \A k \in 1..Len(q) : q[k].type # type

\* A search that finds the queue full is ignored, and the device is not told.
QueueFull == Cardinality(queue) >= QueueMax

\* Where the arena has a socket.
Waits(s) == \E w \in queue : w.socket = s
Absent(s) == joining[s] = NoEvent /\ seats[s] = Nowhere /\ ~Waits(s)

\* After the first k messages come states only.
Only(ms, k) == \A j \in (k + 1)..Len(ms) : ms[j].type = "state"

\* A client that has taken all that is on its way knows that it waits.
HearsQueue(ms, c) ==
  \/ c.status = "searching" /\ Only(ms, 0)
  \/ \E k \in 1..Len(ms) : ms[k].type = "queued" /\ Only(ms, k)

\* The rounds whose result a client shows before the arena has it.
AheadOf(c, race) == {n \in Round : c.results[c.seat][n] # race.results[c.seat][n]}

\* A client shows a race, but for solves of its own on their way, of which the first is
\* still to come.
Shows(c, race, q) ==
  /\ c.game = race.game /\ c.scrambles = race.scrambles /\ c.here = race.here
  /\ InOrder(c.results)
  /\ c.results[Other(c.seat)] = race.results[Other(c.seat)]
  /\ \A n \in AheadOf(c, race) : race.results[c.seat][n] = NoSolve
  /\ AheadOf(c, race) # {} =>
       /\ c.scrambles # NoList
       /\ \E n \in AheadOf(c, race), j \in 1..Len(q) :
            q[j].type = "solve" /\ q[j].round = n /\ \A m \in AheadOf(c, race) : n <= m

\* A client that has taken all that is on its way knows the race it is in, where it sits
\* and the last state of it.
HearsSeat(ms, c, r, i) ==
  \/ c.status = "racing" /\ c.race = r /\ c.seat = i /\ Only(ms, 0)
  \/ \E k \in 1..Len(ms) : ms[k].type = "match" /\ ms[k].race = r /\ ms[k].seat = i /\ Only(ms, k)
HearsState(ms, c, race, q) == IF ms = <<>> THEN Shows(c, race, q) ELSE ms[Len(ms)] = StateOf(race)

HearsRace(ms, c, r, race, s, q) ==
  HearsSeat(ms, c, r, SeatOf(race, s)) /\ HearsState(ms, c, race, q)

\* The arena has the socket of a device, which hears of it.
There(d) ==
  LET s == Current(d)
  IN  \/ joining[s] # NoEvent
      \/ Waits(s) /\ HearsQueue(down[d], client[d])
      \/ seats[s] # Nowhere /\ HearsRace(down[d], client[d], seats[s], races[seats[s]], s, up[s])

\* The last word of a device that is off is that it leaves, of another that it joins.
Away(d) == LastCall(up[Current(d)], "leave") \/ (Silent(up[Current(d)]) /\ Absent(Current(d)))
Coming(d) == LastCall(up[Current(d)], "queue") \/ (Silent(up[Current(d)]) /\ There(d))

\* Before it knows its level a device has asked for nothing.
Unknown(d) ==
  /\ client[d].status # "racing" /\ (client[d].status = "searching" => client[d].reading # {})
  /\ down[d] = <<>>
  /\ conn[d] => Away(d) /\ Absent(Current(d)) /\ Never(up[Current(d)], "queue")

Wants(c) ==
  /\ c.status # "off" => c.wanted \in Event
  /\ c.levels # {} \/ c.reading # {} => c.levelEvent \in Event
Line(d) ==
  /\ conn[d] => Never(up[Current(d)], "closed")
  /\ ~conn[d] => down[d] = <<>>
Follows(d) ==
  IF client[d].levels = {} THEN Unknown(d)
  ELSE IF ~conn[d] \/ client[d].status = "off" THEN client[d].status = "off" /\ (conn[d] => Away(d))
  ELSE Coming(d)

MirrorOf(d) == Wants(client[d]) /\ Line(d) /\ Follows(d)
MirrorInv == \A d \in Device : MirrorOf(d)

-----------------------------------------------------------------------------
(* What is on its way.                                                     *)

LEMMA TailIs ==
  ASSUME NEW S, NEW q \in Seq(S), q # <<>>
  PROVE  /\ Tail(q) \in Seq(S) /\ Len(q) \in Nat /\ Len(q) >= 1 /\ Len(Tail(q)) = Len(q) - 1
         /\ Head(q) = q[1] /\ \A k \in 1..Len(Tail(q)) : Tail(q)[k] = q[k + 1]
  BY HeadTailProperties

LEMMA AppendedIs ==
  ASSUME NEW S, NEW q \in Seq(S), NEW m \in S
  PROVE  /\ q \o <<m>> \in Seq(S) /\ Len(q) \in Nat /\ Len(q \o <<m>>) = Len(q) + 1
         /\ (q \o <<m>>)[Len(q) + 1] = m /\ \A k \in 1..Len(q) : (q \o <<m>>)[k] = q[k]
<1>1. <<m>> \in Seq(S) /\ Len(<<m>>) = 1 /\ <<m>>[1] = m
  OBVIOUS
<1> DEFINE x == <<m>>
<1> HIDE DEF x
<1>2. /\ q \o x \in Seq(S) /\ Len(q \o x) = Len(q) + Len(x)
      /\ \A i \in 1..(Len(q) + Len(x)) : (q \o x)[i] = IF i <= Len(q) THEN q[i] ELSE x[i - Len(q)]
  BY <1>1, ConcatProperties DEF x
<1>3. Len(q) \in Nat
  OBVIOUS
<1>4. Len(x) = 1 /\ x[1] = m
  BY <1>1 DEF x
<1>5. Len(q \o x) = Len(q) + 1 /\ (q \o x)[Len(q) + 1] = m /\ \A k \in 1..Len(q) : (q \o x)[k] = q[k]
  BY <1>2, <1>3, <1>4
<1> QED
  BY <1>2, <1>3, <1>5 DEF x

LEMMA CallTail ==
  ASSUME NEW q \in Seq(Up), q # <<>>, NEW type \in Calls
  PROVE  /\ \A t : Never(q, t) => Head(q).type # t /\ Never(Tail(q), t)
         /\ Silent(q) => Head(q).type \notin Calls /\ Silent(Tail(q))
         /\ LastCall(q, type) =>
              \/ LastCall(Tail(q), type)
              \/ Head(q).type = type /\ Silent(Tail(q))
<1>1. /\ Len(q) \in Nat /\ Len(q) >= 1 /\ Len(Tail(q)) = Len(q) - 1 /\ Head(q) = q[1]
      /\ \A k \in 1..Len(Tail(q)) : Tail(q)[k] = q[k + 1]
  BY TailIs
<1>2. 1 \in 1..Len(q) /\ \A k \in 1..Len(Tail(q)) : k + 1 \in 1..Len(q)
  BY <1>1
<1>3. ASSUME NEW k \in 1..Len(q), q[k].type = type, \A j \in (k + 1)..Len(q) : q[j].type \notin Calls
      PROVE  LastCall(Tail(q), type) \/ (Head(q).type = type /\ Silent(Tail(q)))
  <2>1. \A j \in 1..Len(Tail(q)) : j >= k => Tail(q)[j].type \notin Calls
    <3>1. \A j \in 1..Len(Tail(q)) : j >= k => j + 1 \in (k + 1)..Len(q)
      BY <1>1
    <3> QED
      BY <1>1, <1>3, <3>1
  <2>2. CASE k = 1
    BY <1>1, <1>3, <2>1, <2>2 DEF Silent
  <2>3. CASE k # 1
    <3>1. k - 1 \in 1..Len(Tail(q)) /\ (k - 1) + 1 = k
      BY <1>1, <2>3
    <3>2. \A j \in k..Len(Tail(q)) : j \in 1..Len(Tail(q)) /\ j >= k
      BY <1>1
    <3>3. Tail(q)[k - 1].type = type
      BY <1>1, <1>3, <3>1
    <3>4. \A j \in ((k - 1) + 1)..Len(Tail(q)) : Tail(q)[j].type \notin Calls
      BY <2>1, <3>1, <3>2
    <3> QED
      BY <3>1, <3>3, <3>4 DEF LastCall
  <2> QED
    BY <2>2, <2>3
<1> QED
  BY <1>1, <1>2, <1>3 DEF Never, Silent, LastCall

LEMMA CallAppended ==
  ASSUME NEW q \in Seq(Up), NEW m \in Up, NEW type
  PROVE  /\ Never(q, type) /\ m.type # type => Never(q \o <<m>>, type)
         /\ m.type \notin Calls =>
              /\ Silent(q) => Silent(q \o <<m>>)
              /\ LastCall(q, type) => LastCall(q \o <<m>>, type)
         /\ LastCall(q \o <<m>>, m.type)
<1> DEFINE x == q \o <<m>>
<1>1. Len(q) \in Nat /\ Len(x) = Len(q) + 1 /\ x[Len(q) + 1] = m /\ \A k \in 1..Len(q) : x[k] = q[k]
  BY AppendedIs
<1> HIDE DEF x
<1>2. \A k \in 1..Len(x) : k \in 1..Len(q) \/ k = Len(q) + 1
  BY <1>1
<1>3. Never(q, type) /\ m.type # type => Never(x, type)
  BY <1>1, <1>2 DEF Never
<1>4. m.type \notin Calls /\ Silent(q) => Silent(x)
  BY <1>1, <1>2 DEF Silent
<1>5. ASSUME m.type \notin Calls, LastCall(q, type) PROVE LastCall(x, type)
  <2>1. PICK k \in 1..Len(q) : q[k].type = type /\ \A j \in (k + 1)..Len(q) : q[j].type \notin Calls
    BY <1>5 DEF LastCall
  <2>2. k \in 1..Len(x) /\ x[k].type = type
    BY <1>1, <2>1
  <2>3. ASSUME NEW j \in (k + 1)..Len(x) PROVE x[j].type \notin Calls
    <3>1. j = Len(q) + 1 \/ (j \in (k + 1)..Len(q) /\ j \in 1..Len(q))
      BY <1>1
    <3> QED
      BY <1>1, <1>5, <2>1, <3>1
  <2> QED
    BY <2>2, <2>3 DEF LastCall
<1>6. LastCall(x, m.type)
  <2>1. Len(q) + 1 \in 1..Len(x) /\ \A j \in ((Len(q) + 1) + 1)..Len(x) : FALSE
    BY <1>1
  <2> QED
    BY <1>1, <2>1 DEF LastCall
<1> QED
  BY <1>3, <1>4, <1>5, <1>6 DEF x

LEMMA OnlyTail ==
  ASSUME NEW ms \in Seq(Down), ms # <<>>, NEW k \in 0..Len(ms), Only(ms, k)
  PROVE  /\ k = 0 => Head(ms).type = "state" /\ Only(Tail(ms), 0)
         /\ k = 1 => Only(Tail(ms), 0)
         /\ k >= 1 /\ k # 1 => k - 1 \in 1..Len(Tail(ms)) /\ Tail(ms)[k - 1] = ms[k] /\ Only(Tail(ms), k - 1)
<1>1. /\ Len(ms) \in Nat /\ Len(ms) >= 1 /\ Len(Tail(ms)) = Len(ms) - 1 /\ Head(ms) = ms[1] /\ k \in Nat
      /\ \A j \in 1..Len(Tail(ms)) : Tail(ms)[j] = ms[j + 1]
  BY TailIs
<1>2. ASSUME NEW j \in 1..Len(Tail(ms)), j >= k PROVE Tail(ms)[j].type = "state"
  <2>1. j + 1 \in (k + 1)..Len(ms)
    BY <1>1, <1>2
  <2> QED
    BY <1>1, <2>1 DEF Only
<1>3. ASSUME NEW n \in 0..Len(ms), n + 1 >= k, NEW j \in (n + 1)..Len(Tail(ms)) PROVE Tail(ms)[j].type = "state"
  <2>1. j \in 1..Len(Tail(ms)) /\ j >= k
    BY <1>1, <1>3
  <2> QED
    BY <1>2, <2>1
<1>4. \A n \in 0..Len(ms) : n + 1 >= k => Only(Tail(ms), n)
  BY <1>3 DEF Only
<1>5. k = 0 => Head(ms).type = "state"
  <2>1. k = 0 => 1 \in (k + 1)..Len(ms)
    BY <1>1
  <2> QED
    BY <1>1, <2>1 DEF Only
<1>6. 0 \in 0..Len(ms) /\ (k = 0 \/ k = 1 => 0 + 1 >= k)
  BY <1>1
<1>7. k >= 1 /\ k # 1 => k - 1 \in 0..Len(ms) /\ (k - 1) + 1 = k /\ (k - 1) + 1 >= k /\ k - 1 \in 1..Len(Tail(ms))
  BY <1>1
<1> QED
  BY <1>1, <1>4, <1>5, <1>6, <1>7

\* A message taken leaves as much to hear.
LEMMA QueueHeard ==
  ASSUME NEW ms \in Seq(Down), ms # <<>>, NEW c, NEW next, HearsQueue(ms, c),
         Head(ms).type = "queued" => next.status = "searching",
         Head(ms).type = "state" => next.status = c.status
  PROVE  HearsQueue(Tail(ms), next)
<1>1. CASE c.status = "searching" /\ Only(ms, 0)
  <2>1. 0 \in 0..Len(ms)
    OBVIOUS
  <2>2. Head(ms).type = "state" /\ Only(Tail(ms), 0)
    BY <1>1, <2>1, OnlyTail
  <2> QED
    BY <1>1, <2>2 DEF HearsQueue
<1>2. ASSUME NEW k \in 1..Len(ms), ms[k].type = "queued", Only(ms, k) PROVE HearsQueue(Tail(ms), next)
  <2>1. k \in 0..Len(ms) /\ k >= 1 /\ Head(ms) = ms[1]
    BY TailIs
  <2>2. CASE k = 1
    BY <1>2, <2>1, <2>2, OnlyTail DEF HearsQueue
  <2>3. CASE k # 1
    <3>1. k - 1 \in 1..Len(Tail(ms)) /\ Tail(ms)[k - 1] = ms[k] /\ Only(Tail(ms), k - 1)
      BY <1>2, <2>1, <2>3, OnlyTail
    <3> QED
      BY <1>2, <3>1 DEF HearsQueue
  <2> QED
    BY <2>2, <2>3
<1> QED
  BY <1>1, <1>2 DEF HearsQueue

LEMMA SeatHeard ==
  ASSUME NEW ms \in Seq(Down), ms # <<>>, NEW c, NEW next, NEW r, NEW i, HearsSeat(ms, c, r, i),
         Head(ms).type = "match" => next.status = "racing" /\ next.race = Head(ms).race /\ next.seat = Head(ms).seat,
         Head(ms).type = "state" => next.status = c.status /\ next.race = c.race /\ next.seat = c.seat
  PROVE  HearsSeat(Tail(ms), next, r, i) /\ (Len(ms) = 1 => Head(ms).type = "state" \/ Head(ms).type = "match")
<1>1. CASE c.status = "racing" /\ c.race = r /\ c.seat = i /\ Only(ms, 0)
  <2>1. 0 \in 0..Len(ms)
    OBVIOUS
  <2>2. Head(ms).type = "state" /\ Only(Tail(ms), 0)
    BY <1>1, <2>1, OnlyTail
  <2> QED
    BY <1>1, <2>2 DEF HearsSeat
<1>2. ASSUME NEW k \in 1..Len(ms), ms[k].type = "match", ms[k].race = r, ms[k].seat = i, Only(ms, k)
      PROVE  HearsSeat(Tail(ms), next, r, i) /\ (Len(ms) = 1 => Head(ms).type = "match")
  <2>1. k \in 0..Len(ms) /\ k >= 1 /\ Head(ms) = ms[1] /\ (Len(ms) = 1 => k = 1)
    <3>1. Len(ms) \in Nat /\ Head(ms) = ms[1]
      BY TailIs
    <3>2. k \in Int /\ 1 <= k /\ k <= Len(ms)
      BY <3>1
    <3>3. Len(ms) = 1 => k = 1
      BY <3>2
    <3> QED
      BY <3>1, <3>2, <3>3
  <2>2. CASE k = 1
    BY <1>2, <2>1, <2>2, OnlyTail DEF HearsSeat
  <2>3. CASE k # 1
    <3>1. k - 1 \in 1..Len(Tail(ms)) /\ Tail(ms)[k - 1] = ms[k] /\ Only(Tail(ms), k - 1)
      BY <1>2, <2>1, <2>3, OnlyTail
    <3> QED
      BY <1>2, <2>1, <2>3, <3>1 DEF HearsSeat
  <2> QED
    BY <2>2, <2>3
<1> QED
  BY <1>1, <1>2 DEF HearsSeat

\* More messages bring more to hear.
LEMMA QueuedHears ==
  ASSUME NEW ms \in Seq(Down), NEW c, NEW m \in Down, m.type = "queued"
  PROVE  HearsQueue(ms \o <<m>>, c)
<1>1. /\ Len(ms) \in Nat /\ Len(ms \o <<m>>) = Len(ms) + 1 /\ (ms \o <<m>>)[Len(ms) + 1] = m
  BY AppendedIs
<1>2. Len(ms) + 1 \in 1..Len(ms \o <<m>>) /\ \A j \in ((Len(ms) + 1) + 1)..Len(ms \o <<m>>) : FALSE
  BY <1>1
<1> QED
  BY <1>1, <1>2 DEF HearsQueue, Only

LEMMA StateHears ==
  ASSUME NEW ms \in Seq(Down), NEW c, NEW r, NEW i, NEW race \in Race, NEW q, HearsSeat(ms, c, r, i)
  PROVE  HearsSeat(ms \o <<StateOf(race)>>, c, r, i) /\ HearsState(ms \o <<StateOf(race)>>, c, race, q)
<1> DEFINE m == StateOf(race)
           x == ms \o <<m>>
<1>1. m \in Down /\ m.type = "state"
  BY StateType DEF StateOf
<1>2. Len(ms) \in Nat /\ Len(x) = Len(ms) + 1 /\ x[Len(ms) + 1] = m /\ \A k \in 1..Len(ms) : x[k] = ms[k]
  BY <1>1, AppendedIs
<1> HIDE DEF m, x
<1>3. ASSUME NEW k \in 0..Len(ms), Only(ms, k) PROVE Only(x, k)
  <2> SUFFICES ASSUME NEW j \in (k + 1)..Len(x) PROVE x[j].type = "state"
    BY DEF Only
  <2>1. j = Len(ms) + 1 \/ (j \in (k + 1)..Len(ms) /\ j \in 1..Len(ms))
    BY <1>2
  <2> QED
    BY <1>1, <1>2, <1>3, <2>1 DEF Only
<1>4. 0 \in 0..Len(ms) /\ \A k \in 1..Len(ms) : k \in 0..Len(ms) /\ k \in 1..Len(x) /\ x[k] = ms[k]
  BY <1>2
<1>5. HearsSeat(x, c, r, i)
  BY <1>3, <1>4 DEF HearsSeat
<1>6. x # <<>> /\ x[Len(x)] = m
  <2>1. Len(x) # 0
    BY <1>2
  <2>2. x # <<>>
    BY <2>1
  <2> QED
    BY <1>2, <2>2
<1> QED
  BY <1>5, <1>6 DEF HearsState, x, m

LEMMA MatchHears ==
  ASSUME NEW ms \in Seq(Down), NEW y \in Seq(Down), NEW l \in 2..3, Len(y) = l,
         NEW a \in Down, a.type = "match", y[l - 1] = a,
         NEW race \in Race, y[l] = StateOf(race), NEW c, NEW q
  PROVE  HearsSeat(ms \o y, c, a.race, a.seat) /\ HearsState(ms \o y, c, race, q)
<1>1. PICK m : m = StateOf(race) /\ m.type = "state"
  BY DEF StateOf
<1>2. Len(y) = l /\ y[l - 1] = a /\ y[l] = m
  BY <1>1
<1>0. PICK z : z = ms \o y
  OBVIOUS
<1>3. /\ z \in Seq(Down) /\ Len(z) = Len(ms) + l /\ Len(ms) \in Nat /\ l \in Nat
      /\ \A i \in 1..(Len(ms) + l) : z[i] = IF i <= Len(ms) THEN ms[i] ELSE y[i - Len(ms)]
  <2>1. /\ ms \o y \in Seq(Down) /\ Len(ms \o y) = Len(ms) + Len(y)
        /\ \A i \in 1..(Len(ms) + Len(y)) : (ms \o y)[i] = IF i <= Len(ms) THEN ms[i] ELSE y[i - Len(ms)]
    BY <1>2, ConcatProperties
  <2>2. Len(ms) \in Nat /\ l \in Nat
    OBVIOUS
  <2> QED
    BY <1>0, <1>2, <2>1, <2>2
<1>4. /\ Len(ms) + (l - 1) \in 1..(Len(ms) + l) /\ ~(Len(ms) + (l - 1) <= Len(ms)) /\ (Len(ms) + (l - 1)) - Len(ms) = l - 1
      /\ Len(ms) + l \in 1..(Len(ms) + l) /\ ~(Len(ms) + l <= Len(ms)) /\ (Len(ms) + l) - Len(ms) = l
  BY <1>2, <1>3
<1>5. z[Len(ms) + (l - 1)] = a /\ z[Len(z)] = m /\ z # <<>>
  <2>1. Len(z) # 0
    BY <1>2, <1>3
  <2>2. z # <<>>
    BY <2>1
  <2> QED
    BY <1>2, <1>3, <1>4, <2>2
<1>6. \A j \in ((Len(ms) + (l - 1)) + 1)..Len(z) : j = Len(z)
  BY <1>2, <1>3
<1>7. Only(z, Len(ms) + (l - 1))
  BY <1>1, <1>5, <1>6 DEF Only
<1>8. HearsSeat(z, c, a.race, a.seat)
  BY <1>3, <1>4, <1>5, <1>7 DEF HearsSeat
<1> QED
  BY <1>0, <1>1, <1>5, <1>8 DEF HearsState

-----------------------------------------------------------------------------
(* The mirror: the steps of the arena.                                     *)

\* What a step of another leaves of a device and of its socket s.
Same(s) == joining'[s] = joining[s] /\ seats'[s] = seats[s] /\ (Waits(s)' <=> Waits(s))
Still(d) == sock'[d] = sock[d] /\ conn'[d] = conn[d] /\ client'[d] = client[d]

LEMMA Untouched ==
  ASSUME NEW d \in Device, MirrorOf(d), Still(d), down'[d] = down[d],
         NEW s, s = Current(d), Same(s), up'[s] = up[s],
         seats[s] # Nowhere => races'[seats[s]] = races[seats[s]]
  PROVE  MirrorOf(d)'
<1>1. Current(d)' = s
  BY DEF Current, Still
<1>2. Absent(s)' <=> Absent(s)
  BY DEF Absent, Same
<1>3. There(d)' <=> There(d)
  BY <1>1 DEF There, Same, Still
<1>4. (Away(d)' <=> Away(d)) /\ (Coming(d)' <=> Coming(d))
  BY <1>1, <1>2, <1>3 DEF Away, Coming
<1>5. Unknown(d)' <=> Unknown(d)
  BY <1>1, <1>2, <1>4 DEF Unknown, Still
<1> QED
  BY <1>1, <1>4, <1>5 DEF MirrorOf, Wants, Line, Follows, Still

LEMMA Lost ==
  ASSUME NEW d \in Device, MirrorOf(d), Still(d), down'[d] = down[d], ~conn[d]
  PROVE  MirrorOf(d)'
<1>1. Unknown(d) => Unknown(d)'
  BY DEF Unknown, Still
<1>2. Follows(d)'
  BY <1>1 DEF MirrorOf, Follows, Still
<1> QED
  BY <1>2 DEF MirrorOf, Wants, Line, Still

LEMMA Served ==
  ASSUME NEW d \in Device, MirrorOf(d), Still(d), conn[d],
         NEW s, s = Current(d),
         \A type : Never(up[s], type) => Never(up'[s], type),
         Away(d) => Away(d)', Coming(d) => Coming(d)',
         Absent(s) /\ Never(up[s], "queue") => Absent(s)' /\ down'[d] = down[d]
  PROVE  MirrorOf(d)'
<1>1. Current(d)' = s
  BY DEF Current, Still
<1>2. Unknown(d) => Unknown(d)'
  BY <1>1 DEF Unknown, Still
<1>3. Line(d)'
  BY <1>1 DEF MirrorOf, Line, Still
<1>4. Follows(d)'
  BY <1>2 DEF MirrorOf, Follows, Still
<1> QED
  BY <1>3, <1>4 DEF MirrorOf, Wants, Still

\* A message that is no call may be taken before.
LEMMA Taken ==
  ASSUME NEW q \in Seq(Up), NEW next, next = q \/ (q # <<>> /\ next = Tail(q) /\ Head(q).type \notin Calls)
  PROVE  /\ \A type : Never(q, type) => Never(next, type)
         /\ Silent(q) => Silent(next)
         /\ \A type \in Calls : LastCall(q, type) => LastCall(next, type)
<1>1. ASSUME q # <<>>, next = Tail(q), Head(q).type \notin Calls
      PROVE  /\ \A type : Never(q, type) => Never(next, type)
             /\ Silent(q) => Silent(next)
             /\ \A type \in Calls : LastCall(q, type) => LastCall(next, type)
  <2>1. "queue" \in Calls
    BY DEF Calls
  <2> QED
    BY <1>1, <2>1, CallTail
<1> QED
  BY <1>1

\* The race of a socket changes, and its device is told.
LEMMA Told ==
  ASSUME ArenaInv, NEW d \in Device, MirrorOf(d), Still(d), conn[d],
         NEW s \in Socket, s = Current(d), Same(s), seats[s] # Nowhere,
         NEW race \in Race, races'[seats[s]] = race, race.player = races[seats[s]].player,
         down'[d] = down[d] \o <<StateOf(race)>>,
         \/ up'[s] = up[s]
         \/ up[s] # <<>> /\ up'[s] = Tail(up[s]) /\ Head(up[s]).type \notin Calls
  PROVE  MirrorOf(d)'
<1>1. Current(d)' = s
  BY DEF Current, Still
<1>2. /\ \A type : Never(up[s], type) => Never(up'[s], type)
      /\ Silent(up[s]) => Silent(up'[s])
      /\ \A type \in Calls : LastCall(up[s], type) => LastCall(up'[s], type)
  <2>1. up[s] \in Seq(Up)
    BY DEF ArenaInv, TypeOK
  <2> QED
    BY <2>1, Taken
<1>3. ~Absent(s)
  BY DEF Absent
<1>4. Away(d) => Away(d)'
  BY <1>1, <1>2, <1>3 DEF Away, Calls
<1>5. ASSUME There(d) PROVE There(d)'
  <2> DEFINE i == SeatOf(races[seats[s]], s)
  <2>1. SeatOf(race, s) = i
    BY DEF SeatOf
  <2>2. down[d] \in Seq(Down) /\ ~Waits(s)
    BY DEF ArenaInv, TypeOK, Places, Searching, Waits
  <2> HIDE DEF i
  <2>3. CASE joining[s] # NoEvent
    BY <1>1, <2>3 DEF There, Same
  <2>5. CASE HearsRace(down[d], client[d], seats[s], races[seats[s]], s, up[s])
    <3>1. HearsSeat(down[d], client[d], seats[s], i)
      BY <2>5 DEF HearsRace, i
    <3>2. /\ HearsSeat(down'[d], client[d], seats[s], i)
          /\ HearsState(down'[d], client[d], race, up'[s])
      BY <2>2, <3>1, StateHears
    <3>3. HearsRace(down'[d], client'[d], seats'[s], races'[seats'[s]], s, up'[s])
      BY <2>1, <3>2 DEF HearsRace, Same, Still, i
    <3> QED
      BY <1>1, <3>3 DEF There, Same
  <2> QED
    BY <1>5, <2>2, <2>3, <2>5 DEF There
<1>6. Coming(d) => Coming(d)'
  BY <1>1, <1>2, <1>5 DEF Coming, Calls
<1> QED
  BY <1>2, <1>3, <1>4, <1>6, Served

LEMMA SeatedIn ==
  ASSUME ArenaInv, NEW r \in DOMAIN races, NEW t \in Socket
  PROVE  seats[t] = r <=> t \in Present(races[r])
<1>1. r # Nowhere
  BY InRaces DEF ArenaInv
<1> QED
  BY <1>1 DEF ArenaInv, Places, Seated, OneRace

\* A race changes, and whoever is still there is told.
LEMMA BroadcastMirrors ==
  ASSUME ArenaInv, NEW d \in Device, MirrorOf(d), UNCHANGED <<sock, conn, client>>,
         NEW r \in DOMAIN races, NEW race \in Race, race.player = races[r].player,
         races' = [races EXCEPT ![r] = race], Broadcast(race),
         NEW t, t = Current(d), Same(t), seats[t] = r <=> t \in Present(race),
         \/ up'[t] = up[t]
         \/ seats[t] = r /\ up[t] # <<>> /\ up'[t] = Tail(up[t]) /\ Head(up[t]).type \notin Calls
  PROVE  MirrorOf(d)'
<1>1. down'[d] = IF conn[d] /\ t \in Present(race) THEN down[d] \o <<StateOf(race)>> ELSE down[d]
  BY BroadcastIs DEF ArenaInv
<1>2. t \in Socket /\ r # Nowhere /\ Still(d)
  BY CurrentIs, InRaces DEF ArenaInv, Still
<1>3. races'[r] = race /\ \A n \in DOMAIN races : n # r => races'[n] = races[n]
  BY DEF ArenaInv, TypeOK
<1>4. CASE ~conn[d]
  BY <1>1, <1>2, <1>4, Lost
<1>5. CASE conn[d] /\ seats[t] = r
  BY <1>1, <1>2, <1>3, <1>5, Told
<1>6. CASE seats[t] # r
  <2>1. down'[d] = down[d] /\ up'[t] = up[t]
    BY <1>1, <1>6
  <2>2. seats[t] # Nowhere => races'[seats[t]] = races[seats[t]]
    BY <1>2, <1>3, <1>6 DEF ArenaInv, Places, Seated
  <2> QED
    BY <1>2, <2>1, <2>2, Untouched
<1> QED
  BY <1>4, <1>5, <1>6

\* A socket leaves what it did: so it said, or it starts anew.
LEMMA LeaveMirrors ==
  ASSUME \A e \in Event : e # NoEvent,
         ArenaInv, NEW s \in Socket, Queue(s) \/ Leave(s), NEW d \in Device, MirrorOf(d)
  PROVE  MirrorOf(d)'
<1>0. PICK t : t = Current(d)
  OBVIOUS
<1>1. PICK type \in {"queue", "leave", "closed"} :
        /\ Takes(s, type) /\ LeaveAll(s)
        /\ joining' = IF type = "queue" THEN [joining EXCEPT ![s] = Head(up[s]).event] ELSE joining
  BY DEF Queue, Leave
<1>2. /\ UNCHANGED <<sock, conn, client>> /\ joining[s] = NoEvent /\ up[s] # <<>>
      /\ Head(up[s]) \in Up /\ Head(up[s]).type = type /\ up' = [up EXCEPT ![s] = Tail(@)]
  BY <1>1, TakesType DEF Takes, ArenaInv
<1>3. t \in Socket /\ Still(d) /\ Current(d)' = t
  BY <1>0, <1>2, CurrentIs DEF ArenaInv, Still, Current
<1>4. /\ \A x \in Socket : x # s => up'[x] = up[x] /\ joining'[x] = joining[x]
      /\ up'[s] = Tail(up[s])
      /\ joining'[s] = IF type = "queue" THEN Head(up[s]).event ELSE NoEvent
  BY <1>1, <1>2 DEF ArenaInv, TypeOK
<1>5. queue' = {w \in queue : w.socket # s}
  BY <1>1 DEF LeaveAll
<1>6. ~Waits(s)' /\ \A x : x # s => (Waits(x)' <=> Waits(x))
  BY <1>5 DEF Waits
<1>7. /\ \A x \in Socket : seats'[x] = IF x = s THEN Nowhere ELSE seats[x]
      /\ down'[d] # down[d] => seats[s] # Nowhere
  <2>1. CASE seats[s] = Nowhere
    BY <1>1, <2>1 DEF LeaveAll
  <2>2. CASE seats[s] # Nowhere
    BY <1>1, <2>2 DEF LeaveAll, SeatsLeft, ArenaInv, TypeOK
  <2> QED
    BY <2>1, <2>2
<1>8. CASE t # s
  <2>1. Same(t) /\ up'[t] = up[t]
    <3>1. joining'[t] = joining[t] /\ up'[t] = up[t] /\ seats'[t] = seats[t]
      BY <1>3, <1>4, <1>7, <1>8
    <3>2. Waits(t)' <=> Waits(t)
      BY <1>6, <1>8
    <3> QED
      BY <3>1, <3>2 DEF Same
  <2>2. CASE seats[s] = Nowhere
    <3>1. UNCHANGED <<races, down>>
      BY <1>1, <2>2 DEF LeaveAll
    <3> QED
      BY <1>0, <1>3, <2>1, <3>1, Untouched
  <2>3. CASE seats[s] # Nowhere
    <3>1. seats[s] \in DOMAIN races
      BY <1>1, <2>3, LeaveIs
    <3>2. PICK left \in Race : Leaves(s, seats[s], left)
      BY <1>1, <2>3, LeaveIs
    <3>3. seats[t] = seats[s] <=> t \in Present(left)
      BY <1>3, <1>8, <3>1, <3>2, SeatedIn DEF Leaves
    <3>4. /\ left.player = races[seats[s]].player /\ races' = [races EXCEPT ![seats[s]] = left] /\ Broadcast(left)
      BY <3>2 DEF Leaves
    <3> QED
      BY <1>0, <1>2, <2>1, <3>1, <3>3, <3>4, BroadcastMirrors
  <2> QED
    BY <2>2, <2>3
<1>9. CASE t = s
  <2>1. down'[d] = down[d]
    <3>1. CASE seats[s] # Nowhere
      <4>1. PICK left \in Race : Leaves(s, seats[s], left)
        BY <1>1, <3>1, LeaveIs
      <4>2. s \notin Present(left) /\ Broadcast(left)
        BY <4>1 DEF Leaves
      <4> QED
        BY <1>0, <1>9, <4>2, BroadcastIs DEF ArenaInv
    <3> QED
      BY <1>7, <3>1
  <2>2. CASE ~conn[d]
    BY <1>3, <2>1, <2>2, Lost
  <2>3. CASE conn[d]
    <3>1. up[s] \in Seq(Up) /\ "queue" \in Calls /\ "leave" \in Calls
      BY DEF ArenaInv, TypeOK, Calls
    <3>2. \A x : Never(up[s], x) => Head(up[s]).type # x /\ Never(up'[s], x)
      BY <1>2, <1>4, <3>1, CallTail
    <3>3. type # "closed"
      BY <1>0, <1>2, <1>9, <2>3, <3>2 DEF MirrorOf, Line
    <3>4. type \in Calls /\ ~Silent(up[s])
      <4>1. type \in Calls
        BY <3>3 DEF Calls
      <4> QED
        BY <1>2, <3>1, <4>1, CallTail
    <3>5. /\ LastCall(up[s], "leave") => LastCall(up'[s], "leave") \/ (type = "leave" /\ Silent(up'[s]))
          /\ LastCall(up[s], "queue") => LastCall(up'[s], "queue") \/ (type = "queue" /\ Silent(up'[s]))
      BY <1>2, <1>4, <3>1, CallTail
    <3>6. type = "leave" => Absent(s)'
      BY <1>4, <1>6, <1>7 DEF Absent
    <3>7. type = "queue" => joining'[s] # NoEvent
      BY <1>2, <1>4 DEF Up
    <3>8. Away(d) => Away(d)'
      BY <1>0, <1>3, <1>9, <3>4, <3>5, <3>6 DEF Away
    <3>9. Coming(d) => Coming(d)'
      BY <1>0, <1>3, <1>9, <3>4, <3>5, <3>7 DEF Coming, There
    <3>10. Absent(s) /\ Never(up[s], "queue") => Absent(s)'
      BY <1>2, <3>2, <3>3, <3>6
    <3> QED
      BY <1>0, <1>3, <1>9, <2>1, <2>3, <3>2, <3>8, <3>9, <3>10, Served
  <2> QED
    BY <2>2, <2>3
<1> QED
  BY <1>8, <1>9

LEMMA PlayTakes ==
  ASSUME ArenaInv, NEW s \in Socket, Play(s)
  PROVE  /\ UNCHANGED <<queue, joining, seats, sock, conn, client>>
         /\ up[s] \in Seq(Up) /\ up[s] # <<>> /\ Head(up[s]) \in Up /\ Head(up[s]).type \notin Calls
         /\ up'[s] = Tail(up[s]) /\ \A t \in Socket : t # s => up'[t] = up[t]
<1>1. PICK type : Takes(s, type) /\ type \notin Calls
  <2>1. \E type \in {"scrambles", "solve", "penalty", "cancel", "rematch"} : Takes(s, type)
    BY DEF Play, PlayScrambles, PlaySolve, PlayPenalty, PlayCancel, PlayRematch, Plays
  <2>2. \A type \in {"scrambles", "solve", "penalty", "cancel", "rematch"} : type \notin Calls
    BY DEF Calls
  <2> QED
    BY <2>1, <2>2
<1>2. /\ UNCHANGED <<sock, conn, client>> /\ up[s] # <<>> /\ Head(up[s]) \in Up /\ Head(up[s]).type = type
      /\ up' = [up EXCEPT ![s] = Tail(@)]
  BY <1>1, TakesType DEF Takes, ArenaInv
<1>3. up[s] \in Seq(Up) /\ up'[s] = Tail(up[s]) /\ \A t \in Socket : t # s => up'[t] = up[t]
  BY <1>2 DEF ArenaInv, TypeOK
<1>4. UNCHANGED <<queue, joining, seats>>
  BY PlayIs
<1> QED
  BY <1>1, <1>2, <1>3, <1>4

\* A solve that may be played is.
LEMMA SolveTaken ==
  ASSUME ArenaInv, NEW s \in Socket, Play(s), Head(up[s]).type = "solve", seats[s] # Nowhere,
         MaySolve(races[seats[s]], SeatOf(races[seats[s]], s), Head(up[s]).round)
  PROVE  \E played \in Race : Changes(seats[s], played)
<1> DEFINE r == seats[s]
           race == races[r]
           i == SeatOf(race, s)
           n == Head(up[s]).round
           played == [race EXCEPT !.results[i][n] = "none"]
<1>1. PlaySolve(s)
  BY DEF Play, PlayScrambles, PlayPenalty, PlayCancel, PlayRematch, Plays, Takes
<1>2. races' = [races EXCEPT ![r] = played] /\ Broadcast(played) /\ UNCHANGED stats
  BY <1>1 DEF PlaySolve, Plays
<1>3. race \in Race /\ InOrder(race.results) /\ i \in Seat /\ r \in DOMAIN races
  BY SeatIs
<1>4. n \in Round
  <2>1. Head(up[s]) \in Up
    BY PlayTakes
  <2> QED
    BY <2>1 DEF Up
<1>5. MaySolve(race, i, n)
  OBVIOUS
<1> HIDE DEF i, n
<1>6. played \in Race /\ Keeps(race, played)
  BY <1>3, <1>4, <1>5, SolveKeeps
<1>7. played.game = race.game
  BY <1>3 DEF Race
<1> HIDE DEF played
<1> QED
  BY <1>2, <1>3, <1>6, <1>7 DEF Changes

\* A client whose socket's message was ignored still shows its race: had that been the
\* first solve it shows ahead, it would have been played.
LEMMA Ignored ==
  ASSUME NEW c, NEW race \in Race, NEW q \in Seq(Up), q # <<>>, c.seat \in Seat, Shows(c, race, q),
         Head(q).type = "solve" => ~MaySolve(race, c.seat, Head(q).round)
  PROVE  Shows(c, race, Tail(q))
<1> DEFINE i == c.seat
           A == AheadOf(c, race)
<1>1. \A n \in A : n \in Round /\ race.results[i][n] = NoSolve /\ c.results[i][n] # NoSolve
  BY DEF Shows, AheadOf
<1>2. c.results[Other(i)] = race.results[Other(i)] /\ InOrder(c.results) /\ c.scrambles = race.scrambles
  BY DEF Shows
<1>3. A # {} => /\ c.scrambles # NoList
                /\ \E n \in A, j \in 1..Len(q) : q[j].type = "solve" /\ q[j].round = n /\ \A m \in A : n <= m
  BY DEF Shows
<1>4. SUFFICES ASSUME A # {}
               PROVE  \E n \in A, j \in 1..Len(Tail(q)) :
                        Tail(q)[j].type = "solve" /\ Tail(q)[j].round = n /\ \A m \in A : n <= m
  BY DEF Shows
<1>5. PICK n \in A, j \in 1..Len(q) : q[j].type = "solve" /\ q[j].round = n /\ \A m \in A : n <= m
  BY <1>3, <1>4
<1>6. /\ Len(q) \in Nat /\ Len(Tail(q)) = Len(q) - 1 /\ Head(q) = q[1]
      /\ \A k \in 1..Len(Tail(q)) : Tail(q)[k] = q[k + 1]
  BY TailIs
<1>7. MaySolve(race, i, n)
  <2>1. n \in Round /\ race.results[i][n] = NoSolve /\ race.scrambles # NoList
    BY <1>1, <1>2, <1>3, <1>4
  <2>2. ASSUME NEW m \in 1..(n - 1) PROVE Solved(race, m)
    <3>1. m \in Round /\ ~(n <= m)
      BY <2>1, Bounds DEF Round
    <3>2. \A k \in Seat : c.results[k][m] # NoSolve
      BY <1>1, <1>2, <2>1 DEF InOrder
    <3>3. race.results[i][m] # NoSolve
      <4>1. m \notin A
        BY <1>5, <3>1
      <4> QED
        BY <3>1, <3>2, <4>1 DEF AheadOf
    <3>4. race.results[Other(i)][m] # NoSolve
      BY <1>2, <3>2, OtherIs
    <3> QED
      BY <3>3, <3>4, OtherIs DEF Solved
  <2>3. ~Solved(race, n)
    BY <2>1 DEF Solved
  <2> QED
    BY <2>1, <2>2, <2>3 DEF MaySolve, OpenRound
<1>8. j # 1
  BY <1>5, <1>6, <1>7
<1>9. j - 1 \in 1..Len(Tail(q)) /\ (j - 1) + 1 = j
  BY <1>6, <1>8
<1>10. Tail(q)[j - 1] = q[j]
  BY <1>6, <1>9
<1> QED
  BY <1>5, <1>9, <1>10

LEMMA PlayMirrors ==
  ASSUME ArenaInv, NEW s \in Socket, Play(s), NEW d \in Device, MirrorOf(d)
  PROVE  MirrorOf(d)'
<1>1. PICK t : t = Current(d)
  OBVIOUS
<1>2. t \in Socket /\ Still(d) /\ Same(t) /\ Current(d)' = t
  <2>1. t \in Socket /\ Still(d) /\ Current(d)' = t
    BY <1>1, PlayTakes, CurrentIs DEF ArenaInv, Still, Current
  <2>2. Same(t)
    BY PlayTakes DEF Same, Waits
  <2> QED
    BY <2>1, <2>2
<1>3. /\ up[s] \in Seq(Up) /\ up[s] # <<>> /\ Head(up[s]) \in Up /\ Head(up[s]).type \notin Calls
      /\ up'[s] = Tail(up[s]) /\ \A x \in Socket : x # s => up'[x] = up[x]
  BY PlayTakes
<1>4. CASE seats[s] # Nowhere /\ \E played \in Race : Changes(seats[s], played)
  <2>1. PICK played \in Race : Changes(seats[s], played)
    BY <1>4
  <2>2. PICK r \in DOMAIN races : r = seats[s]
    BY <1>4, SeatIs
  <2>3. /\ played.player = races[r].player /\ races' = [races EXCEPT ![r] = played] /\ Broadcast(played)
        /\ Present(played) = Present(races[r])
    BY <2>1, <2>2 DEF Changes, Keeps, Present
  <2>4. seats[t] = r <=> t \in Present(played)
    BY <1>2, <2>3, SeatedIn
  <2>5. \/ up'[t] = up[t]
        \/ seats[t] = r /\ up[t] # <<>> /\ up'[t] = Tail(up[t]) /\ Head(up[t]).type \notin Calls
    BY <1>2, <1>3, <2>2
  <2> QED
    BY <1>1, <1>2, <2>3, <2>4, <2>5, PlayTakes, BroadcastMirrors
<1>5. CASE UNCHANGED <<races, down>> /\ ~(seats[s] # Nowhere /\ \E played \in Race : Changes(seats[s], played))
  <2>1. CASE t # s
    BY <1>1, <1>2, <1>3, <1>5, <2>1, Untouched
  <2>2. CASE ~conn[d]
    BY <1>2, <1>5, <2>2, Lost
  <2>3. CASE t = s /\ conn[d]
    <3>1. /\ \A type : Never(up[s], type) => Never(up'[s], type)
          /\ Silent(up[s]) => Silent(up'[s])
          /\ \A type \in Calls : LastCall(up[s], type) => LastCall(up'[s], type)
      BY <1>3, Taken
    <3>2. Absent(s)' <=> Absent(s)
      BY <1>2, <2>3 DEF Absent, Same
    <3>3. Away(d) => Away(d)'
      BY <1>1, <1>2, <2>3, <3>1, <3>2 DEF Away, Calls
    <3>4. ASSUME There(d) PROVE There(d)'
      <4>1. CASE joining[s] # NoEvent
        BY <1>1, <1>2, <2>3, <4>1 DEF There, Same
      <4>2. CASE Waits(s) /\ HearsQueue(down[d], client[d])
        <5>1. HearsQueue(down[d], client[d])' /\ Waits(s)'
          BY <1>2, <1>5, <2>3, <4>2 DEF Same, Still
        <5> QED
          BY <1>2, <2>3, <5>1 DEF There
      <4>3. CASE seats[s] # Nowhere /\ HearsRace(down[d], client[d], seats[s], races[seats[s]], s, up[s])
        <5>1. PICK race \in Race : race = races[seats[s]] /\ SeatOf(race, s) \in Seat
          BY <4>3, SeatIs
        <5>2. HearsSeat(down[d], client[d], seats[s], SeatOf(race, s)) /\ HearsState(down[d], client[d], race, up[s])
          BY <4>3, <5>1 DEF HearsRace
        <5>3. HearsState(down[d], client[d], race, up'[s])
          <6>1. CASE down[d] # <<>>
            BY <5>2, <6>1 DEF HearsState
          <6>2. CASE down[d] = <<>>
            <7>1. Shows(client[d], race, up[s])
              BY <5>2, <6>2 DEF HearsState
            <7>2. client[d].seat = SeatOf(race, s)
              <8>1. \A k \in 1..Len(down[d]) : FALSE
                BY <6>2
              <8> QED
                BY <5>2, <8>1 DEF HearsSeat
            <7>3. Head(up[s]).type = "solve" => ~MaySolve(race, client[d].seat, Head(up[s]).round)
              BY <1>5, <4>3, <5>1, <7>2, SolveTaken
            <7>4. Shows(client[d], race, Tail(up[s]))
              BY <1>3, <5>1, <7>1, <7>2, <7>3, Ignored
            <7> QED
              BY <1>3, <6>2, <7>4 DEF HearsState
          <6> QED
            BY <6>1, <6>2
        <5>4. HearsRace(down'[d], client'[d], seats'[s], races'[seats'[s]], s, up'[s])
          BY <1>2, <1>5, <2>3, <5>1, <5>2, <5>3 DEF HearsRace, Same, Still
        <5> QED
          BY <1>2, <2>3, <4>3, <5>4 DEF There, Same
      <4> QED
        BY <1>1, <2>3, <3>4, <4>1, <4>2, <4>3 DEF There
    <3>5. Coming(d) => Coming(d)'
      BY <1>1, <1>2, <2>3, <3>1, <3>4 DEF Coming, Calls
    <3> QED
      BY <1>1, <1>2, <1>5, <2>3, <3>1, <3>2, <3>3, <3>5, Served
  <2> QED
    BY <2>1, <2>2, <2>3
<1> QED
  BY <1>4, <1>5, PlayIs

\* Two sockets are paired: their devices are told of it, the others see nothing.
LEMMA PairMirrors ==
  ASSUME ArenaInv, UNCHANGED <<sock, conn, client, up>>,
         NEW w \in [socket : Socket, event : Event], NEW v \in [socket : Socket, event : Event],
         NEW told, StartRace(w, v, queue, told),
         \A s \in Socket : told[s] = <<>> \/ told[s] = <<[type |-> "queued"]>>,
         \A s \in Socket : s \notin {w.socket, v.socket} => joining'[s] = joining[s] /\ told[s] = <<>>,
         ~Absent(w.socket), ~Absent(v.socket),
         NEW d \in Device, MirrorOf(d)
  PROVE  MirrorOf(d)'
<1>1. PICK t \in Socket : t = Current(d)
  BY CurrentIs DEF ArenaInv
<1>2. Still(d) /\ Current(d)' = t /\ down[d] \in Seq(Down) /\ up'[t] = up[t]
  BY <1>1 DEF Still, Current, ArenaInv, TypeOK
<1>3. PICK r : r = Len(races) + 1
  OBVIOUS
<1>4. PICK race : race = Started(w.event, w.socket, v.socket)
  OBVIOUS
<1>5. /\ Len(races) < MaxRaces /\ MayMeet(w, v) /\ queue' = queue \ {w, v}
      /\ races' = Append(races, race)
      /\ seats' = [seats EXCEPT ![w.socket] = r, ![v.socket] = r]
  BY <1>3, <1>4 DEF StartRace
<1>6. /\ ~conn[d] => down'[d] = down[d]
      /\ conn[d] /\ t \notin {w.socket, v.socket} => down'[d] = down[d] \o told[t]
      /\ conn[d] /\ t \in {w.socket, v.socket} =>
           down'[d] = down[d] \o (told[t] \o <<MatchOf(r, race, t), StateOf(race)>>)
  <2>1. Tells(w, v, told)
    BY StartTells DEF ArenaInv
  <2> QED
    BY <1>1, <1>3, <1>4, <2>1 DEF Tells
<1>7. CASE ~conn[d]
  BY <1>2, <1>6, <1>7, Lost
<1>8. CASE conn[d] /\ t \notin {w.socket, v.socket}
  <2>1. down'[d] = down[d]
    BY <1>2, <1>6, <1>8, ConcatEmptySeq
  <2>2. joining'[t] = joining[t] /\ seats'[t] = seats[t]
    BY <1>5, <1>8 DEF ArenaInv, TypeOK
  <2>3. Waits(t)' <=> Waits(t)
    BY <1>5, <1>8 DEF Waits
  <2>4. Same(t)
    BY <2>2, <2>3 DEF Same
  <2>5. seats[t] # Nowhere => races'[seats[t]] = races[seats[t]]
    <3>1. races \in Seq(Race)
      BY DEF ArenaInv, TypeOK
    <3>2. \A n \in DOMAIN races : races'[n] = races[n]
      BY <1>5, <3>1
    <3> QED
      BY <3>2 DEF ArenaInv, Places, Seated
  <2> QED
    BY <1>1, <1>2, <2>1, <2>4, <2>5, Untouched
<1>9. CASE conn[d] /\ t \in {w.socket, v.socket}
  <2>1. race \in Race /\ t \in Present(race) /\ race.event = w.event
    <3>1. w.event \in Event /\ w.socket \in Socket /\ v.socket \in Socket
      OBVIOUS
    <3>2. Started(w.event, w.socket, v.socket).event = w.event
      BY DEF Started
    <3>3. /\ Started(w.event, w.socket, v.socket) \in Race
          /\ Present(Started(w.event, w.socket, v.socket)) = {w.socket, v.socket}
      BY <3>1, StartedType
    <3> QED
      BY <1>4, <1>9, <3>2, <3>3
  <2>2. SeatOf(race, t) \in Seat
    BY <2>1, SeatOfIs
  <2>3. r \in RaceId /\ r # Nowhere
    <3>1. Len(races) \in Nat
      BY DEF ArenaInv, TypeOK
    <3> QED
      BY <1>3, <1>5, <3>1, Bounds DEF RaceId, Nowhere
  <2>4. PICK a \in Down : a = MatchOf(r, race, t)
    BY <2>1, <2>2, <2>3 DEF MatchOf, Down
  <2>5. a.type = "match" /\ a.race = r /\ a.seat = SeatOf(race, t)
    BY <2>4 DEF MatchOf
  <2>6. seats'[t] = r /\ races'[r] = race
    <3>1. races \in Seq(Race)
      BY DEF ArenaInv, TypeOK
    <3>2. races'[r] = race
      BY <1>3, <1>5, <2>1, <3>1
    <3>3. seats'[t] = r
      BY <1>5, <1>9 DEF ArenaInv, TypeOK
    <3> QED
      BY <3>2, <3>3
  <2>7. HearsRace(down'[d], client'[d], seats'[t], races'[seats'[t]], t, up'[t])
    <3>1. [type |-> "queued"] \in Down
      BY DEF Down
    <3>2. down'[d] = down[d] \o (told[t] \o <<a, StateOf(race)>>)
      BY <1>6, <1>9, <2>4
    <3>3. HearsSeat(down'[d], client'[d], a.race, a.seat) /\ HearsState(down'[d], client'[d], race, up'[t])
      <4> DEFINE b == StateOf(race)
      <4>1. b \in Down
        BY <2>1, StateType
      <4> HIDE DEF b
      <4>5. told[t] = <<>> \/ told[t] = <<[type |-> "queued"]>>
        OBVIOUS
      <4>6. PICK before : before = told[t]
        OBVIOUS
      <4>7. PICK p \in Down : before = <<>> \/ before = <<p>>
        BY <3>1, <4>5, <4>6
      <4> DEFINE y == before \o <<a, b>>
      <4>2. PICK l \in 2..3 : y \in Seq(Down) /\ Len(y) = l /\ y[l - 1] = a /\ y[l] = b
        BY <4>1, <4>7, Followed
      <4>3. down'[d] = down[d] \o y
        BY <3>2, <4>6 DEF b
      <4> HIDE DEF y
      <4>4. y[l] = StateOf(race)
        BY <4>2 DEF b
      <4>8. PICK c, q : c = client'[d] /\ q = up'[t]
        OBVIOUS
      <4>9. HearsSeat(down[d] \o y, c, a.race, a.seat) /\ HearsState(down[d] \o y, c, race, q)
        BY <1>2, <2>1, <2>5, <4>2, <4>4, MatchHears
      <4> QED
        BY <4>3, <4>8, <4>9
    <3> QED
      BY <2>5, <2>6, <3>3 DEF HearsRace
  <2>8. There(d)'
    BY <1>2, <2>3, <2>6, <2>7 DEF There
  <2>9. ~Absent(t)
    BY <1>9
  <2>10. Away(d) => Away(d)'
    BY <1>1, <1>2, <2>9 DEF Away
  <2>11. Coming(d) => Coming(d)'
    BY <1>1, <1>2, <2>8 DEF Coming
  <2> QED
    BY <1>1, <1>2, <1>9, <2>9, <2>10, <2>11, Served
<1> QED
  BY <1>7, <1>8, <1>9

LEMMA TickMirrors == ASSUME ArenaInv, Tick, NEW d \in Device, MirrorOf(d) PROVE MirrorOf(d)'
<1> DEFINE told == [s \in Socket |-> <<>>]
<1>1. PICK w \in queue, v \in queue : StartRace(w, v, queue, told)
  BY DEF Tick
<1>2. \A s \in Socket : told[s] = <<>>
  OBVIOUS
<1> HIDE DEF told
<1>3. UNCHANGED <<joining, sock, conn, client, up>>
  BY DEF Tick
<1>4. w \in [socket : Socket, event : Event] /\ v \in [socket : Socket, event : Event]
  BY DEF ArenaInv, TypeOK
<1>5. ~Absent(w.socket) /\ ~Absent(v.socket)
  BY DEF Absent, Waits
<1> QED
  BY <1>1, <1>2, <1>3, <1>4, <1>5, PairMirrors

\* A socket joins those searching, or is paired at once: the queue is not full.
LEMMA JoinMirrors ==
  ASSUME ArenaInv, ~(Cardinality(queue) >= QueueMax), NEW s \in Socket, Join(s), NEW d \in Device, MirrorOf(d)
  PROVE  MirrorOf(d)'
<1>1. PICK e : e = joining[s]
  OBVIOUS
<1>2. PICK w : w = [socket |-> s, event |-> e]
  OBVIOUS
<1>3. PICK queued : queued = [t \in Socket |-> IF t = s THEN <<[type |-> "queued"]>> ELSE <<>>]
  OBVIOUS
<1>4. /\ joining[s] # NoEvent /\ joining' = [joining EXCEPT ![s] = NoEvent]
      /\ UNCHANGED <<up, sock, conn, client>>
  BY DEF Join
<1>5. /\ \A t \in Socket : t # s => joining'[t] = joining[t]
      /\ w \in [socket : Socket, event : Event] /\ w.socket = s
  BY <1>1, <1>2, <1>4 DEF ArenaInv, TypeOK
<1>6. /\ \A t \in Socket : queued[t] = <<>> \/ queued[t] = <<[type |-> "queued"]>>
      /\ \A t \in Socket : t # s => queued[t] = <<>>
      /\ queued[s] = <<[type |-> "queued"]>>
  BY <1>3
<1>7. ~Absent(s) /\ \A v \in queue : ~Absent(v.socket)
  BY <1>4 DEF Absent, Waits
<1>8. CASE \E v \in queue : StartRace(w, v, queue, queued) \/ StartRace(v, w, queue, queued)
  <2>1. PICK v \in queue : StartRace(w, v, queue, queued) \/ StartRace(v, w, queue, queued)
    BY <1>8
  <2>2. v \in [socket : Socket, event : Event] /\ ~Absent(v.socket) /\ ~Absent(w.socket)
    BY <1>5, <1>7 DEF ArenaInv, TypeOK
  <2>3. /\ \A t \in Socket : t \notin {w.socket, v.socket} => joining'[t] = joining[t] /\ queued[t] = <<>>
        /\ \A t \in Socket : t \notin {v.socket, w.socket} => joining'[t] = joining[t] /\ queued[t] = <<>>
    BY <1>5, <1>6
  <2> QED
    BY <1>4, <1>5, <1>6, <2>1, <2>2, <2>3, PairMirrors
<1>9. CASE queue' = queue \cup {w} /\ down' = Sent(LAMBDA t : queued[t]) /\ UNCHANGED <<races, seats>>
  <2>1. PICK t \in Socket : t = Current(d)
    BY CurrentIs DEF ArenaInv
  <2>2. Still(d) /\ Current(d)' = t /\ down[d] \in Seq(Down) /\ up'[t] = up[t]
    BY <1>4, <2>1 DEF Still, Current, ArenaInv, TypeOK
  <2>3. down'[d] = IF conn[d] THEN down[d] \o queued[t] ELSE down[d]
    BY <1>9, <2>1 DEF Sent
  <2>4. CASE ~conn[d]
    BY <2>2, <2>3, <2>4, Lost
  <2>5. CASE conn[d] /\ t # s
    <3>1. down'[d] = down[d]
      BY <1>6, <2>2, <2>3, <2>5, ConcatEmptySeq
    <3>2. Waits(t)' <=> Waits(t)
      BY <1>5, <1>9, <2>5 DEF Waits
    <3>3. Same(t)
      BY <1>5, <1>9, <2>5, <3>2 DEF Same
    <3> QED
      BY <1>9, <2>1, <2>2, <3>1, <3>3, Untouched
  <2>6. CASE conn[d] /\ t = s
    <3>1. [type |-> "queued"] \in Down /\ [type |-> "queued"].type = "queued"
      BY DEF Down
    <3>2. HearsQueue(down'[d], client'[d])
      BY <1>6, <2>2, <2>3, <2>6, <3>1, QueuedHears
    <3>3. Waits(t)'
      BY <1>5, <1>9, <2>6 DEF Waits
    <3>4. There(d)'
      BY <2>2, <3>2, <3>3 DEF There
    <3>5. Away(d) => Away(d)'
      BY <1>7, <2>1, <2>2, <2>6 DEF Away
    <3>6. Coming(d) => Coming(d)'
      BY <2>1, <2>2, <3>4 DEF Coming
    <3> QED
      BY <1>7, <2>1, <2>2, <2>6, <3>5, <3>6, Served
  <2> QED
    BY <2>4, <2>5, <2>6
<1> QED
  <2>1. \/ queue' = queue \cup {w} /\ down' = Sent(LAMBDA t : queued[t]) /\ UNCHANGED <<races, seats>>
        \/ \E v \in queue : StartRace(w, v, queue, queued) \/ StartRace(v, w, queue, queued)
    BY <1>1, <1>2, <1>3 DEF Join
  <2> QED
    BY <1>8, <1>9, <2>1

-----------------------------------------------------------------------------
(* The mirror: the steps of the devices.                                   *)

LEMMA Elsewhere ==
  ASSUME ArenaInv, UNCHANGED arena, NEW d \in Device, NEW e \in Device, e # d, MirrorOf(e),
         Still(e), down'[e] = down[e], \A s \in Socket : s # Current(d) => up'[s] = up[s]
  PROVE  MirrorOf(e)'
<1>1. PICK t \in Socket : t = Current(e)
  BY CurrentIs DEF ArenaInv
<1>2. t # Current(d)
  BY <1>1 DEF Current
<1>3. Same(t) /\ UNCHANGED races
  BY DEF Same, Waits, arena
<1> QED
  BY <1>1, <1>2, <1>3, Untouched

\* What a message taken tells a client that listens.
LEMMA Receives ==
  ASSUME TypeOK, NEW d \in Device, Receive(d), client[d].status # "off"
  PROVE  /\ client'[d].status # "off" /\ client'[d].levels = client[d].levels
         /\ client'[d].reading = client[d].reading /\ client'[d].wanted = client[d].wanted
         /\ client'[d].levelEvent = client[d].levelEvent
         /\ Head(down[d]).type = "queued" => client'[d].status = "searching"
         /\ Head(down[d]).type = "match" =>
              /\ client'[d].status = "racing"
              /\ client'[d].race = Head(down[d]).race /\ client'[d].seat = Head(down[d]).seat
         /\ Head(down[d]).type = "state" =>
              /\ client'[d].status = client[d].status
              /\ client'[d].race = client[d].race /\ client'[d].seat = client[d].seat
              /\ client'[d].game = Head(down[d]).game /\ client'[d].scrambles = Head(down[d]).scrambles
              /\ client'[d].results = Head(down[d]).results /\ client'[d].here = Head(down[d]).here
<1>1. client[d] \in Client /\ client \in [Device -> Client]
  BY ClientParts DEF TypeOK
<1>2. CASE ReceiveQueued(d)
  <2>1. PICK c : c = [client[d] EXCEPT !.status = "searching"]
    OBVIOUS
  <2>2. client' = [client EXCEPT ![d] = c] /\ Head(down[d]).type = "queued"
    BY <1>1, <1>2, <2>1 DEF ReceiveQueued, Takes1
  <2>3. /\ c.status = "searching" /\ c.levels = client[d].levels /\ c.reading = client[d].reading
        /\ c.wanted = client[d].wanted /\ c.levelEvent = client[d].levelEvent
    BY <1>1, <2>1 DEF Client
  <2> QED
    BY <1>1, <2>2, <2>3
<1>3. CASE ReceiveMatch(d)
  <2>1. PICK m : m = Head(down[d])
    OBVIOUS
  <2>2. PICK c : c = [client[d] EXCEPT !.status = "racing", !.race = m.race, !.seat = m.seat, !.event = m.event,
                                       !.game = 0, !.generated = 0, !.scrambles = NoList, !.results = NoResults]
    OBVIOUS
  <2>3. client' = [client EXCEPT ![d] = c] /\ m.type = "match"
    BY <1>1, <1>3, <2>1, <2>2 DEF ReceiveMatch, Takes1
  <2>4. /\ c.status = "racing" /\ c.race = m.race /\ c.seat = m.seat
        /\ c.levels = client[d].levels /\ c.reading = client[d].reading
        /\ c.wanted = client[d].wanted /\ c.levelEvent = client[d].levelEvent
    BY <1>1, <2>2 DEF Client
  <2> QED
    BY <1>1, <2>1, <2>3, <2>4
<1>4. CASE ReceiveState(d)
  <2>1. PICK m : m = Head(down[d])
    OBVIOUS
  <2>2. PICK c : c = [client[d] EXCEPT !.game = m.game, !.scrambles = m.scrambles, !.results = m.results, !.here = m.here]
    OBVIOUS
  <2>3. client' = [client EXCEPT ![d] = IF MustDraw(c) THEN Drawing(c) ELSE c] /\ m.type = "state"
    BY <1>4, <2>1, <2>2 DEF ReceiveState, Takes1
  <2>4. /\ c.status = client[d].status /\ c.race = client[d].race /\ c.seat = client[d].seat
        /\ c.game = m.game /\ c.scrambles = m.scrambles /\ c.results = m.results /\ c.here = m.here
        /\ c.levels = client[d].levels /\ c.reading = client[d].reading
        /\ c.wanted = client[d].wanted /\ c.levelEvent = client[d].levelEvent
    BY <1>1, <2>2 DEF Client
  <2>5. /\ Drawing(c).status = c.status /\ Drawing(c).race = c.race /\ Drawing(c).seat = c.seat
        /\ Drawing(c).game = c.game /\ Drawing(c).scrambles = c.scrambles
        /\ Drawing(c).results = c.results /\ Drawing(c).here = c.here
        /\ Drawing(c).levels = c.levels /\ Drawing(c).reading = c.reading
        /\ Drawing(c).wanted = c.wanted /\ Drawing(c).levelEvent = c.levelEvent
    BY <1>1, <2>2 DEF Drawing, Client
  <2>6. client'[d] = c \/ client'[d] = Drawing(c)
    BY <1>1, <2>3
  <2> QED
    BY <2>1, <2>3, <2>4, <2>5, <2>6
<1> QED
  BY <1>2, <1>3, <1>4 DEF Receive, ReceiveLate

\* A client that has taken the last state of its race shows it.
LEMMA StateShown ==
  ASSUME NEW c, NEW race, InOrder(race.results), c.game = race.game, c.scrambles = race.scrambles,
         c.results = race.results, c.here = race.here, NEW q
  PROVE  Shows(c, race, q)
<1>1. AheadOf(c, race) = {}
  BY DEF AheadOf
<1> QED
  BY <1>1 DEF Shows

LEMMA ReceiveMirrors ==
  ASSUME ArenaInv, NEW d \in Device, Receive(d), MirrorOf(d)
  PROVE  MirrorOf(d)'
<1>1. /\ UNCHANGED <<arena, sock, conn, up>> /\ down[d] # <<>> /\ down[d] \in Seq(Down) /\ down'[d] = Tail(down[d])
  BY DEF Receive, ReceiveLate, ReceiveQueued, ReceiveMatch, ReceiveState, Takes1, ArenaInv, TypeOK
<1>2. PICK s \in Socket : s = Current(d)
  BY CurrentIs DEF ArenaInv
<1>3. Current(d)' = s /\ (Absent(s)' <=> Absent(s)) /\ Same(s)
  BY <1>1, <1>2 DEF Current, Absent, Waits, Same, arena
<1>4. conn[d] /\ client[d].levels # {}
  BY <1>1 DEF MirrorOf, Line, Follows, Unknown
<1>5. Line(d)'
  BY <1>1, <1>2, <1>3, <1>4 DEF MirrorOf, Line
<1>6. CASE client[d].status = "off"
  <2>1. client'[d] = client[d]
    BY <1>6 DEF Receive, ReceiveLate, ReceiveQueued, ReceiveMatch, ReceiveState
  <2>2. Away(d)'
    BY <1>1, <1>2, <1>3, <1>4, <1>6 DEF MirrorOf, Follows, Away
  <2> QED
    BY <1>1, <1>4, <1>5, <1>6, <2>1, <2>2 DEF MirrorOf, Wants, Follows
<1>7. CASE client[d].status # "off"
  <2>1. /\ client'[d].status # "off" /\ client'[d].levels = client[d].levels
        /\ client'[d].reading = client[d].reading /\ client'[d].wanted = client[d].wanted
        /\ client'[d].levelEvent = client[d].levelEvent
    BY <1>7, Receives DEF ArenaInv
  <2>2. ASSUME There(d) PROVE There(d)'
    <3>1. CASE joining[s] # NoEvent
      BY <1>3, <3>1 DEF There, Same
    <3>2. CASE Waits(s) /\ HearsQueue(down[d], client[d])
      <4>1. HearsQueue(Tail(down[d]), client'[d])
        BY <1>1, <1>7, <3>2, QueueHeard, Receives DEF ArenaInv
      <4> QED
        BY <1>1, <1>3, <3>2, <4>1 DEF There, Same
    <3>3. CASE seats[s] # Nowhere /\ HearsRace(down[d], client[d], seats[s], races[seats[s]], s, up[s])
      <4>1. PICK race \in Race : race = races[seats[s]] /\ InOrder(race.results)
        BY <3>3, SeatIs
      <4>2. HearsSeat(down[d], client[d], seats[s], SeatOf(race, s)) /\ HearsState(down[d], client[d], race, up[s])
        BY <3>3, <4>1 DEF HearsRace
      <4>3. /\ HearsSeat(Tail(down[d]), client'[d], seats[s], SeatOf(race, s))
            /\ Len(down[d]) = 1 => Head(down[d]).type = "state" \/ Head(down[d]).type = "match"
        BY <1>1, <1>7, <4>2, SeatHeard, Receives DEF ArenaInv
      <4>4. /\ Len(down[d]) \in Nat /\ Len(down[d]) >= 1 /\ Len(Tail(down[d])) = Len(down[d]) - 1
            /\ Head(down[d]) = down[d][1] /\ \A k \in 1..Len(Tail(down[d])) : Tail(down[d])[k] = down[d][k + 1]
            /\ Tail(down[d]) \in Seq(Down)
        BY <1>1, TailIs
      <4>5. down[d][Len(down[d])] = StateOf(race)
        BY <1>1, <4>2 DEF HearsState
      <4>6. HearsState(Tail(down[d]), client'[d], race, up[s])
        <5>1. CASE Tail(down[d]) = <<>>
          <6>1. Len(down[d]) = 1
            <7>1. PICK x : x = Tail(down[d])
              OBVIOUS
            <7>2. x = <<>> /\ Len(x) = Len(down[d]) - 1
              BY <4>4, <5>1, <7>1
            <7>3. Len(x) = 0
              BY <7>2
            <7> QED
              BY <4>4, <7>2, <7>3
          <6>2. Head(down[d]) = StateOf(race) /\ StateOf(race).type = "state"
            BY <4>4, <4>5, <6>1 DEF StateOf
          <6>3. /\ client'[d].game = race.game /\ client'[d].scrambles = race.scrambles
                /\ client'[d].results = race.results /\ client'[d].here = race.here
            BY <1>7, <6>2, Receives DEF ArenaInv, StateOf
          <6>4. PICK c, q : c = client'[d] /\ q = up[s]
            OBVIOUS
          <6>5. Shows(c, race, q)
            BY <4>1, <6>3, <6>4, StateShown
          <6> QED
            BY <5>1, <6>4, <6>5 DEF HearsState
        <5>2. CASE Tail(down[d]) # <<>>
          <6>1. Len(Tail(down[d])) \in 1..Len(Tail(down[d])) /\ Len(Tail(down[d])) + 1 = Len(down[d])
            BY <4>4, <5>2
          <6> QED
            BY <4>4, <4>5, <5>2, <6>1 DEF HearsState
        <5> QED
          BY <5>1, <5>2
      <4>7. HearsRace(down'[d], client'[d], seats'[s], races'[seats'[s]], s, up'[s])
        BY <1>1, <1>3, <4>1, <4>3, <4>6 DEF HearsRace, Same, arena
      <4> QED
        BY <1>3, <3>3, <4>7 DEF There, Same
    <3> QED
      BY <1>2, <2>2, <3>1, <3>2, <3>3 DEF There
  <2>3. Coming(d)'
    BY <1>1, <1>2, <1>3, <1>4, <1>7, <2>2 DEF MirrorOf, Follows, Coming
  <2>4. Wants(client'[d])
    BY <1>7, <2>1 DEF MirrorOf, Wants
  <2>5. Follows(d)'
    BY <1>1, <1>4, <2>1, <2>3 DEF Follows
  <2> QED
    BY <1>5, <2>4, <2>5 DEF MirrorOf
<1> QED
  BY <1>6, <1>7

\* A device says what is no call, and shows what it shows.
LEMMA Chatter ==
  ASSUME ArenaInv, UNCHANGED <<arena, sock, conn, down>>, NEW d \in Device, MirrorOf(d),
         NEW s \in Socket, s = Current(d), NEW c \in Client, c = client[d],
         NEW next, next = client'[d], Wants(next), next.status = c.status,
         next.levels = {} <=> c.levels = {},
         c.levels = {} => next.reading = c.reading,
         next.race = c.race, next.seat = c.seat,
         \/ up'[s] = up[s]
         \/ \E m \in Up : m.type \notin Calls /\ m.type # "closed" /\ up'[s] = up[s] \o <<m>>,
         c.status = "racing" => \A race \in Race : Shows(c, race, up[s]) => Shows(next, race, up'[s])
  PROVE  MirrorOf(d)'
<1>1. Current(d)' = s /\ (Absent(s)' <=> Absent(s)) /\ Same(s)
  BY DEF Current, Absent, Waits, Same, arena
<1>2. /\ Never(up[s], "queue") => Never(up'[s], "queue")
      /\ Never(up[s], "closed") => Never(up'[s], "closed")
      /\ Silent(up[s]) => Silent(up'[s])
      /\ \A type : LastCall(up[s], type) => LastCall(up'[s], type)
  <2>1. up[s] \in Seq(Up)
    BY DEF ArenaInv, TypeOK
  <2>2. ASSUME NEW m \in Up, m.type \notin Calls, m.type # "closed", up'[s] = up[s] \o <<m>>
        PROVE  /\ Never(up[s], "queue") => Never(up'[s], "queue")
               /\ Never(up[s], "closed") => Never(up'[s], "closed")
               /\ Silent(up[s]) => Silent(up'[s])
               /\ \A type : LastCall(up[s], type) => LastCall(up'[s], type)
    <3>1. m.type # "queue"
      BY <2>2 DEF Calls
    <3> QED
      BY <2>1, <2>2, <3>1, CallAppended
  <2> QED
    BY <2>2
<1>3. Away(d) => Away(d)'
  BY <1>1, <1>2 DEF Away
<1>4. ASSUME There(d) PROVE There(d)'
  <2>1. CASE joining[s] # NoEvent
    BY <1>1, <2>1 DEF There, Same
  <2>2. CASE Waits(s) /\ HearsQueue(down[d], client[d])
    <3>1. HearsQueue(down'[d], client'[d])
      BY <2>2 DEF HearsQueue
    <3> QED
      BY <1>1, <2>2, <3>1 DEF There, Same
  <2>3. CASE seats[s] # Nowhere /\ HearsRace(down[d], client[d], seats[s], races[seats[s]], s, up[s])
    <3>1. PICK race \in Race : race = races[seats[s]]
      BY <2>3, SeatIs
    <3>2. HearsSeat(down[d], c, seats[s], SeatOf(race, s)) /\ HearsState(down[d], c, race, up[s])
      BY <2>3, <3>1 DEF HearsRace
    <3>3. HearsSeat(down[d], next, seats[s], SeatOf(race, s))
      BY <3>2 DEF HearsSeat
    <3>4. HearsState(down[d], next, race, up'[s])
      <4>1. CASE down[d] = <<>>
        <5>1. Shows(c, race, up[s]) /\ \A k \in 1..Len(down[d]) : FALSE
          BY <3>2, <4>1 DEF HearsState
        <5>2. c.status = "racing"
          BY <3>2, <5>1 DEF HearsSeat
        <5> QED
          BY <4>1, <5>1, <5>2 DEF HearsState
      <4>2. CASE down[d] # <<>>
        BY <3>2, <4>2 DEF HearsState
      <4> QED
        BY <4>1, <4>2
    <3>5. HearsRace(down'[d], client'[d], seats'[s], races'[seats'[s]], s, up'[s])
      BY <1>1, <3>1, <3>3, <3>4 DEF HearsRace, Same, arena
    <3> QED
      BY <1>1, <2>3, <3>5 DEF There, Same
  <2> QED
    BY <1>4, <2>1, <2>2, <2>3 DEF There
<1>5. Coming(d) => Coming(d)'
  BY <1>1, <1>2, <1>4 DEF Coming
<1>6. c.levels = {} /\ Unknown(d) => Unknown(d)'
  BY <1>1, <1>2, <1>3 DEF Unknown
<1>7. Line(d)'
  BY <1>1, <1>2 DEF MirrorOf, Line
<1>8. Follows(d)'
  BY <1>3, <1>5, <1>6 DEF MirrorOf, Follows
<1> QED
  BY <1>7, <1>8 DEF MirrorOf

\* What more a device says takes nothing from what it shows.
LEMMA ShowsMore ==
  ASSUME NEW c, NEW next, NEW race, NEW q \in Seq(Up), NEW x, NEW m \in Up, x = q \/ x = q \o <<m>>, Shows(c, race, q),
         next.seat = c.seat, next.game = c.game, next.scrambles = c.scrambles, next.here = c.here,
         next.results = c.results
  PROVE  Shows(next, race, x)
<1>1. AheadOf(next, race) = AheadOf(c, race)
  BY DEF AheadOf
<1>2. ASSUME NEW j \in 1..Len(q) PROVE j \in 1..Len(x) /\ x[j] = q[j]
  <2>1. CASE x = q
    BY <2>1
  <2>2. CASE x = q \o <<m>>
    <3>1. Len(q) \in Nat /\ Len(x) = Len(q) + 1 /\ x[j] = q[j]
      BY <2>2, AppendedIs
    <3> QED
      BY <3>1
  <2> QED
    BY <2>1, <2>2
<1> QED
  BY <1>1, <1>2 DEF Shows

\* A solve shown at once: no round after the first one shown ahead is open to a client.
LEMMA ShowsSolve ==
  ASSUME NEW c \in Client, NEW next, NEW race, NEW q \in Seq(Up), Shows(c, race, q), c.scrambles # NoList,
         NEW n \in Round, ClientRound(c, n), Me(c)[n] = NoSolve,
         next = [c EXCEPT !.results[c.seat][n] = "none"]
  PROVE  Shows(next, race, q \o <<[type |-> "solve", round |-> n]>>)
<1>1. PICK i \in Seat : i = c.seat
  BY DEF Client
<1>2. c.results \in Results
  BY DEF Client
<1>3. PICK results : results = [c.results EXCEPT ![i][n] = "none"]
  OBVIOUS
<1>4. next = [c EXCEPT !.results = results]
  BY <1>1, <1>3 DEF Client
<1>5. /\ next.results = results /\ next.seat = i /\ next.game = c.game /\ next.scrambles = c.scrambles
      /\ next.here = c.here
  BY <1>1, <1>4 DEF Client
<1>6. /\ results[i][n] = "none" /\ "none" # NoSolve
      /\ \A j \in Seat, m \in Round : (j # i \/ m # n) => results[j][m] = c.results[j][m]
      /\ results[Other(i)] = c.results[Other(i)]
  <2>1. results \in Results /\ results[i][n] = "none" /\ "none" # NoSolve
    BY <1>2, <1>3 DEF Results, NoSolve, Penalties
  <2>2. \A j \in Seat, m \in Round : (j # i \/ m # n) => results[j][m] = c.results[j][m]
    BY <1>2, <1>3 DEF Results
  <2>3. Other(i) \in Seat /\ Other(i) # i
    BY OtherIs
  <2>4. results[Other(i)] = c.results[Other(i)]
    BY <1>2, <1>3, <2>3 DEF Results
  <2> QED
    BY <2>1, <2>2, <2>4
<1>7. /\ c.results[i][n] = NoSolve
      /\ \A m \in 1..(n - 1) : \A j \in Seat : c.results[j][m] # NoSolve
  BY <1>1, OtherIs DEF ClientRound, Me, Them
<1>8. /\ c.game = race.game /\ c.scrambles = race.scrambles /\ c.here = race.here
      /\ InOrder(c.results) /\ c.results[Other(i)] = race.results[Other(i)]
      /\ \A m \in AheadOf(c, race) : race.results[i][m] = NoSolve
  BY <1>1 DEF Shows
<1>9. race.results[i][n] = NoSolve /\ n \notin AheadOf(c, race)
  BY <1>1, <1>7, <1>8 DEF AheadOf
<1>10. \A m : m \in AheadOf(next, race) <=> m \in AheadOf(c, race) \/ m = n
  <2>1. AheadOf(next, race) = {m \in Round : results[i][m] # race.results[i][m]}
    BY <1>5 DEF AheadOf
  <2>2. AheadOf(c, race) = {m \in Round : c.results[i][m] # race.results[i][m]}
    BY <1>1 DEF AheadOf
  <2>3. n \in AheadOf(next, race)
    BY <1>6, <1>9, <2>1
  <2>4. \A m \in Round : m # n => results[i][m] = c.results[i][m]
    BY <1>6
  <2> QED
    BY <2>1, <2>2, <2>3, <2>4
<1>11. \A m \in Round : \A k \in 1..(m - 1) : k \in Round
  BY Bounds DEF Round
<1>12. InOrder(results)
  <2> SUFFICES ASSUME NEW j \in Seat, NEW m \in Round, results[j][m] # NoSolve, NEW k \in 1..(m - 1), NEW l \in Seat
               PROVE  results[l][k] # NoSolve
    BY DEF InOrder
  <2>1. k \in Round
    BY <1>11
  <2>2. c.results[l][k] # NoSolve
    <3>1. CASE j = i /\ m = n
      BY <1>7, <3>1
    <3>2. CASE j # i \/ m # n
      BY <1>6, <1>8, <3>2 DEF InOrder
    <3> QED
      BY <3>1, <3>2
  <2> QED
    BY <1>6, <2>1, <2>2
<1>13. PICK m \in Up : m = [type |-> "solve", round |-> n]
  BY UpTypes
<1>14. PICK x : x = q \o <<m>>
  OBVIOUS
<1>15. /\ Len(q) \in Nat /\ Len(x) = Len(q) + 1 /\ x[Len(q) + 1] = m /\ \A k \in 1..Len(q) : x[k] = q[k]
  BY <1>14, AppendedIs
<1>16. Len(q) + 1 \in 1..Len(x) /\ \A k \in 1..Len(q) : k \in 1..Len(x)
  BY <1>15
<1>17. \E p \in AheadOf(next, race), j \in 1..Len(x) :
         x[j].type = "solve" /\ x[j].round = p /\ \A k \in AheadOf(next, race) : p <= k
  <2>1. CASE AheadOf(c, race) = {}
    <3>1. n \in AheadOf(next, race) /\ \A k \in AheadOf(next, race) : k = n
      BY <1>10, <2>1
    <3>2. n <= n
      BY Bounds DEF Round
    <3>3. m.type = "solve" /\ m.round = n
      BY <1>13
    <3> QED
      BY <1>15, <1>16, <3>1, <3>2, <3>3
  <2>2. CASE AheadOf(c, race) # {}
    <3>1. PICK p \in AheadOf(c, race), j \in 1..Len(q) :
            q[j].type = "solve" /\ q[j].round = p /\ \A k \in AheadOf(c, race) : p <= k
      BY <2>2 DEF Shows
    <3>2. p \in Round /\ c.results[i][p] # NoSolve
      BY <1>1, <1>8 DEF AheadOf
    <3>3. p <= n
      <4>1. CASE n < p
        <5>1. n \in 1..(p - 1)
          BY <3>2, <4>1, Bounds DEF Round
        <5> QED
          BY <1>7, <1>8, <3>2, <5>1 DEF InOrder
      <4> QED
        BY <3>2, <4>1, Bounds DEF Round
    <3>4. p \in AheadOf(next, race) /\ \A k \in AheadOf(next, race) : p <= k
      BY <1>10, <3>1, <3>3
    <3>5. j \in 1..Len(x) /\ x[j].type = "solve" /\ x[j].round = p
      BY <1>15, <1>16, <3>1
    <3> QED
      BY <3>4, <3>5
  <2> QED
    BY <2>1, <2>2
<1>18. \A k \in AheadOf(next, race) : race.results[i][k] = NoSolve
  BY <1>8, <1>9, <1>10
<1>19. Shows(next, race, x)
  <2>1. next.game = race.game /\ next.scrambles = race.scrambles /\ next.here = race.here /\ next.scrambles # NoList
    BY <1>5, <1>8
  <2>2. InOrder(next.results) /\ next.results[Other(next.seat)] = race.results[Other(next.seat)]
    BY <1>5, <1>6, <1>8, <1>12
  <2>3. \A k \in AheadOf(next, race) : race.results[next.seat][k] = NoSolve
    BY <1>5, <1>18
  <2> QED
    BY <1>17, <2>1, <2>2, <2>3 DEF Shows
<1> QED
  BY <1>13, <1>14, <1>19

\* What its user does of the game under way, and what it draws.
LEMMA ChatterMirrors ==
  ASSUME ArenaInv, NEW d \in Device, Draw(d) \/ DrawFails(d) \/ Solve(d) \/ Penalise(d) \/ Cancel(d) \/ AskRematch(d),
         MirrorOf(d)
  PROVE  MirrorOf(d)'
<1>1. UNCHANGED <<arena, sock, conn, down>>
  BY DEF Draw, DrawFails, Solve, Penalise, Cancel, AskRematch, Moves, network
<1>2. PICK s \in Socket : s = Current(d)
  BY CurrentIs DEF ArenaInv
<1>3. PICK c \in Client : c = client[d]
  BY ClientParts DEF ArenaInv
<1>4. PICK next : next = client'[d]
  OBVIOUS
<1>5. client \in [Device -> Client] /\ up \in [Socket -> Seq(Up)] /\ up[s] \in Seq(Up)
  BY DEF ArenaInv, TypeOK
<1>6. Wants(c)
  BY <1>3 DEF MirrorOf
<1>7. \A m : Sends(d, m) => up'[s] = up[s] \/ up'[s] = up[s] \o <<m>>
  BY <1>2, <1>5 DEF Sends, Posts
<1>8. ASSUME \/ up'[s] = up[s]
             \/ \E m \in Up : m.type \notin Calls /\ m.type # "closed" /\ up'[s] = up[s] \o <<m>>,
             next = c \/ \E drawing, failed : next = [c EXCEPT !.drawing = drawing, !.failed = failed]
      PROVE  MirrorOf(d)'
  <2>1. /\ next.status = c.status /\ next.levels = c.levels /\ next.reading = c.reading /\ next.race = c.race
        /\ next.seat = c.seat /\ next.wanted = c.wanted /\ next.levelEvent = c.levelEvent
        /\ next.game = c.game /\ next.scrambles = c.scrambles /\ next.here = c.here /\ next.results = c.results
    BY <1>8 DEF Client
  <2>2. Wants(next)
    BY <1>6, <2>1 DEF Wants
  <2>3. ASSUME NEW race \in Race, Shows(c, race, up[s]) PROVE Shows(next, race, up'[s])
    <3>1. PICK m \in Up : up'[s] = up[s] \/ up'[s] = up[s] \o <<m>>
      BY <1>8, UpTypes
    <3>2. PICK q \in Seq(Up) : q = up[s]
      BY <1>5
    <3>3. PICK x : x = up'[s]
      OBVIOUS
    <3>4. Shows(next, race, x)
      BY <2>1, <2>3, <3>1, <3>2, <3>3, ShowsMore
    <3> QED
      BY <3>3, <3>4
  <2> QED
    BY <1>1, <1>2, <1>3, <1>4, <1>8, <2>1, <2>2, <2>3, Chatter
<1>9. CASE Draw(d)
  <2>1. PICK list \in client[d].drawing :
          /\ client' = [client EXCEPT ![d].drawing = @ \ {list}]
          /\ Sends(d, [type |-> "scrambles", list |-> list]) \/ UNCHANGED up
    BY <1>9 DEF Draw
  <2>2. list \in List
    BY <1>3 DEF Client
  <2>3. PICK m \in Up : m = [type |-> "scrambles", list |-> list]
    BY <2>2, UpTypes
  <2>4. m.type \notin Calls /\ m.type # "closed"
    BY <2>3 DEF Calls
  <2>5. up'[s] = up[s] \/ up'[s] = up[s] \o <<m>>
    BY <1>7, <2>1, <2>3
  <2>6. next = [c EXCEPT !.drawing = c.drawing \ {list}, !.failed = c.failed]
    BY <1>3, <1>4, <1>5, <2>1 DEF Client
  <2> QED
    BY <1>8, <2>4, <2>5, <2>6
<1>10. CASE DrawFails(d)
  <2>1. PICK list \in client[d].drawing :
          client' = [client EXCEPT ![d].drawing = @ \ {list}, ![d].failed = list]
    BY <1>10 DEF DrawFails
  <2>2. up'[s] = up[s]
    BY <1>10 DEF DrawFails, network
  <2>3. next = [c EXCEPT !.drawing = c.drawing \ {list}, !.failed = list]
    BY <1>3, <1>4, <1>5, <2>1
  <2> QED
    BY <1>8, <2>2, <2>3
<1>11. CASE Penalise(d) \/ Cancel(d) \/ AskRematch(d)
  <2>1. PICK m \in Up : m.type \in {"penalty", "cancel", "rematch"} /\ Moves(d, m)
    <3>1. CASE Penalise(d)
      <4>1. PICK n \in Round, p \in Penalties : Moves(d, [type |-> "penalty", round |-> n, penalty |-> p])
        BY <3>1 DEF Penalise
      <4>2. PICK m \in Up : m = [type |-> "penalty", round |-> n, penalty |-> p]
        BY UpTypes
      <4> QED
        BY <4>1, <4>2
    <3>2. CASE Cancel(d)
      <4>1. PICK n \in Round : Moves(d, [type |-> "cancel", round |-> n])
        BY <3>2 DEF Cancel
      <4>2. PICK m \in Up : m = [type |-> "cancel", round |-> n]
        BY UpTypes
      <4> QED
        BY <4>1, <4>2
    <3>3. CASE AskRematch(d)
      <4>1. Moves(d, [type |-> "rematch"])
        BY <3>3 DEF AskRematch
      <4>2. PICK m \in Up : m = [type |-> "rematch"]
        BY UpTypes
      <4> QED
        BY <4>1, <4>2
    <3> QED
      BY <1>11, <3>1, <3>2, <3>3
  <2>2. m.type \notin Calls /\ m.type # "closed"
    BY <2>1 DEF Calls
  <2>3. up'[s] = up[s] \/ up'[s] = up[s] \o <<m>>
    BY <1>7, <2>1 DEF Moves
  <2>4. next = c
    BY <1>3, <1>4, <1>11 DEF Penalise, Cancel, AskRematch
  <2> QED
    BY <1>8, <2>2, <2>3, <2>4
<1>12. CASE Solve(d)
  <2>1. PICK n \in Round :
          /\ ClientRound(c, n) /\ Me(c)[n] = NoSolve
          /\ client' = [client EXCEPT ![d].results[c.seat][n] = "none"]
          /\ Moves(d, [type |-> "solve", round |-> n])
    BY <1>3, <1>12 DEF Solve
  <2>2. c.scrambles # NoList /\ c.status = "racing"
    BY <1>3, <1>12, <2>1 DEF Solve, Moves
  <2>3. next = [c EXCEPT !.results[c.seat][n] = "none"]
    BY <1>3, <1>4, <1>5, <2>1
  <2>4. /\ next.status = c.status /\ next.levels = c.levels /\ next.reading = c.reading /\ next.race = c.race
        /\ next.seat = c.seat /\ next.wanted = c.wanted /\ next.levelEvent = c.levelEvent
    <3>1. PICK results : next = [c EXCEPT !.results = results]
      BY <2>3 DEF Client
    <3> QED
      BY <3>1 DEF Client
  <2>5. Wants(next)
    BY <1>6, <2>4 DEF Wants
  <2>6. conn[d]
    BY <1>3, <2>2 DEF MirrorOf, Follows, Unknown
  <2>7. PICK m \in Up : m = [type |-> "solve", round |-> n]
    BY UpTypes
  <2>8. m.type \notin Calls /\ m.type # "closed"
    BY <2>7 DEF Calls
  <2>9. up'[s] = up[s] \o <<m>>
    BY <1>2, <1>5, <2>1, <2>6, <2>7 DEF Moves, Sends, Posts
  <2>10. ASSUME NEW race \in Race, Shows(c, race, up[s]) PROVE Shows(next, race, up'[s])
    <3>1. PICK q \in Seq(Up) : q = up[s]
      BY <1>5
    <3>2. Shows(next, race, q \o <<[type |-> "solve", round |-> n]>>)
      BY <2>1, <2>2, <2>3, <2>10, <3>1, ShowsSolve
    <3> QED
      BY <2>7, <2>9, <3>1, <3>2
  <2> QED
    BY <1>1, <1>2, <1>3, <1>4, <2>4, <2>5, <2>8, <2>9, <2>10, Chatter
<1> QED
  BY <1>9, <1>10, <1>11, <1>12

\* A device that asks for a race and can, has that as its last word.
LEMMA QueueMirrors ==
  ASSUME ArenaInv, UNCHANGED <<arena, sock, conn, down>>, NEW d \in Device, MirrorOf(d),
         NEW e \in Event, NEW c \in Client, c.levels # {}, c.status = "searching", c.wanted \in Event, c.levelEvent \in Event,
         NEW ms, ms = <<>> \/ ms = <<[type |-> "leave"]>>, SendsQueue(d, c, e, ms)
  PROVE  MirrorOf(d)'
<1>1. PICK s \in Socket : s = Current(d)
  BY CurrentIs DEF ArenaInv
<1>2. Current(d)' = s
  BY <1>1 DEF Current
<1>3. client'[d] = IF conn[d] THEN c ELSE [c EXCEPT !.status = "off"]
  BY DEF SendsQueue, ArenaInv, TypeOK
<1>4. CASE ~conn[d]
  <2>1. /\ client'[d].status = "off" /\ client'[d].levels = c.levels /\ client'[d].levelEvent = c.levelEvent
    BY <1>3, <1>4 DEF Client
  <2>2. Wants(client'[d])
    BY <2>1 DEF Wants
  <2>3. Line(d)'
    BY <1>4 DEF MirrorOf, Line
  <2>4. Follows(d)'
    BY <1>4, <2>1 DEF Follows
  <2> QED
    BY <2>2, <2>3, <2>4 DEF MirrorOf
<1>5. CASE conn[d]
  <2>1. PICK m \in Up : m = [type |-> "queue", event |-> e]
    BY UpTypes
  <2>2. PICK l \in Up : l = [type |-> "leave"]
    BY UpTypes
  <2>3. PICK q \in Seq(Up) : q = up[s]
    BY DEF ArenaInv, TypeOK
  <2>4. ms \in Seq(Up)
    <3>1. <<>> \in Seq(Up) /\ <<l>> \in Seq(Up)
      OBVIOUS
    <3> QED
      BY <2>2, <3>1
  <2>5. /\ Append(ms, m) = ms \o <<m>> /\ q \o (ms \o <<m>>) = (q \o ms) \o <<m>>
    <3>1. <<m>> \in Seq(Up)
      OBVIOUS
    <3> QED
      BY <2>4, <3>1, AppendIsConcat, ConcatAssociative
  <2>6. up'[s] = q \o Append(ms, m)
    BY <1>1, <1>5, <2>1, <2>3 DEF SendsQueue, Posts, ArenaInv, TypeOK
  <2>7. q \o ms = q \/ q \o ms = q \o <<l>>
    BY <2>2, <2>3, ConcatEmptySeq
  <2>8. PICK x \in Seq(Up) : x = q \o ms
    BY <2>4, ConcatProperties
  <2>9. Never(q, "closed") => Never(x, "closed")
    <3>1. l.type # "closed"
      BY <2>2
    <3> QED
      BY <2>7, <2>8, <3>1, CallAppended
  <2>10. Never(x, "closed") => Never(x \o <<m>>, "closed")
    <3>1. m.type # "closed"
      BY <2>1
    <3> QED
      BY <3>1, CallAppended
  <2>11. LastCall(x \o <<m>>, "queue")
    <3>1. m.type = "queue"
      BY <2>1
    <3> QED
      BY <3>1, CallAppended
  <2>12. up'[s] = x \o <<m>>
    BY <2>5, <2>6, <2>8
  <2>13. Line(d)'
    BY <1>1, <1>2, <1>5, <2>3, <2>9, <2>10, <2>12 DEF MirrorOf, Line
  <2>14. Coming(d)'
    BY <1>2, <2>11, <2>12 DEF Coming
  <2>15. Wants(client'[d])
    BY <1>3, <1>5 DEF Wants
  <2>16. Follows(d)'
    BY <1>3, <1>5, <2>14 DEF Follows
  <2> QED
    BY <2>13, <2>15, <2>16 DEF MirrorOf
<1> QED
  BY <1>4, <1>5

\* A search asks for its race, or waits for the level on its event, the only one.
LEMMA SearchMirrors ==
  ASSUME NEW e, Event = {e}, ArenaInv, NEW d \in Device, Search(d) \/ Another(d), MirrorOf(d)
  PROVE  MirrorOf(d)'
<1>1. UNCHANGED <<arena, sock, conn, down>> /\ Acts
  BY DEF Search, Another
<1>2. PICK c \in Client : c = client[d]
  BY ClientParts DEF ArenaInv
<1>3. PICK ms : (ms = <<>> \/ ms = <<[type |-> "leave"]>>) /\ Searches(d, e, ms) /\ (c.levels = {} => ms = <<>>)
  <2>1. CASE Search(d)
    BY <2>1 DEF Search
  <2>2. CASE Another(d)
    <3>1. c.status = "racing" /\ Searches(d, c.event, <<[type |-> "leave"]>>)
      BY <1>2, <2>2 DEF Another
    <3>2. c.event = e
      BY <1>2, <3>1 DEF ArenaInv, Events
    <3>3. c.levels # {}
      BY <1>2, <3>1 DEF MirrorOf, Follows, Unknown
    <3> QED
      BY <3>1, <3>2, <3>3
  <2> QED
    BY <2>1, <2>2
<1>4. PICK asks : asks = [c EXCEPT !.status = "searching", !.wanted = e, !.levelEvent = e]
  OBVIOUS
<1>5. /\ asks \in Client /\ asks.status = "searching" /\ asks.wanted = e /\ asks.levelEvent = e
      /\ asks.levels = c.levels /\ asks.reading = c.reading
  BY <1>4 DEF Client
<1>6. CASE c.levels # {}
  <2>1. e \in c.levels /\ c.levelEvent = e
    <3>1. c.levels \subseteq {e}
      BY DEF Client
    <3>2. c.levelEvent \in Event
      BY <1>2, <1>6 DEF MirrorOf, Wants
    <3> QED
      BY <1>6, <3>1, <3>2
  <2>2. SendsQueue(d, asks, e, ms)
    BY <1>2, <1>3, <1>4, <1>5, <2>1 DEF Searches
  <2> QED
    BY <1>1, <1>3, <1>5, <1>6, <2>2, QueueMirrors
<1>7. CASE c.levels = {}
  <2>1. ms = <<>>
    BY <1>3, <1>7
  <2>2. PICK n : n = acts'
    OBVIOUS
  <2>3. PICK reads : reads = [asks EXCEPT !.reading = @ \cup {<<n, e>>}]
    OBVIOUS
  <2>4. client' = [client EXCEPT ![d] = reads] /\ Posts(d, <<>>)
    BY <1>2, <1>3, <1>4, <1>5, <1>7, <2>1, <2>2, <2>3 DEF Searches
  <2>5. client'[d] = reads
    BY <2>4 DEF ArenaInv, TypeOK
  <2>6. /\ reads.status = "searching" /\ reads.wanted = e /\ reads.levelEvent = e /\ reads.levels = {}
        /\ reads.reading # {}
    BY <1>5, <1>7, <2>3 DEF Client
  <2>7. PICK s \in Socket : s = Current(d)
    BY CurrentIs DEF ArenaInv
  <2>8. up'[s] = up[s] /\ Current(d)' = s
    <3>1. up[s] \o <<>> = up[s]
      BY ConcatEmptySeq DEF ArenaInv, TypeOK
    <3> QED
      BY <1>1, <2>4, <2>7, <3>1 DEF Posts, ArenaInv, TypeOK, Current
  <2>9. Absent(s)' <=> Absent(s)
    BY <1>1 DEF Absent, Waits, arena
  <2>10. Unknown(d)
    BY <1>2, <1>7 DEF MirrorOf, Follows
  <2>11. Unknown(d)'
    BY <1>1, <2>5, <2>6, <2>7, <2>8, <2>9, <2>10 DEF Unknown, Away
  <2>12. Follows(d)'
    BY <2>5, <2>6, <2>11 DEF Follows
  <2>13. Line(d)'
    BY <1>1, <2>7, <2>8 DEF MirrorOf, Line
  <2>14. Wants(client'[d])
    BY <2>5, <2>6 DEF Wants
  <2> QED
    BY <2>12, <2>13, <2>14 DEF MirrorOf
<1> QED
  BY <1>6, <1>7

\* The level is there: a search still on asks for its race, another search changes
\* nothing.
LEMMA LevelMirrors ==
  ASSUME NEW e, Event = {e}, ArenaInv, NEW d \in Device, LevelRead(d), MirrorOf(d)
  PROVE  MirrorOf(d)'
<1>1. UNCHANGED <<arena, sock, conn, down>>
  BY DEF LevelRead
<1>2. PICK c \in Client : c = client[d]
  BY ClientParts DEF ArenaInv
<1>3. PICK level \in c.reading :
        LET next == [c EXCEPT !.reading = @ \ {level}, !.levels = @ \cup {level[2]}]
        IN  IF Awaited(next, level[2]) THEN SendsQueue(d, next, level[2], <<>>)
            ELSE client' = [client EXCEPT ![d] = next] /\ UNCHANGED up
  BY <1>2 DEF LevelRead
<1>4. level[2] = e
  BY DEF Client
<1>5. PICK next : next = [c EXCEPT !.reading = @ \ {level}, !.levels = @ \cup {level[2]}]
  OBVIOUS
<1>6. /\ next \in Client /\ next.status = c.status /\ next.wanted = c.wanted /\ next.levelEvent = c.levelEvent
      /\ next.race = c.race /\ next.seat = c.seat /\ next.game = c.game /\ next.scrambles = c.scrambles
      /\ next.here = c.here /\ next.results = c.results /\ next.levels = c.levels \cup {e}
  BY <1>4, <1>5 DEF Client
<1>7. c.levelEvent \in Event /\ (c.status # "off" => c.wanted = e) /\ Wants(next)
  BY <1>2, <1>3, <1>6 DEF MirrorOf, Wants
<1>8. CASE Awaited(next, e)
  <2>1. SendsQueue(d, next, e, <<>>)
    BY <1>3, <1>4, <1>5, <1>8
  <2>2. next.levels # {} /\ next.status = "searching" /\ next.wanted \in Event /\ next.levelEvent \in Event
    BY <1>6, <1>7, <1>8 DEF Awaited
  <2>3. PICK ms : ms = <<>>
    OBVIOUS
  <2> QED
    BY <1>1, <1>6, <2>1, <2>2, <2>3, QueueMirrors
<1>9. CASE ~Awaited(next, e)
  <2>1. client' = [client EXCEPT ![d] = next] /\ UNCHANGED up
    BY <1>3, <1>4, <1>5, <1>9
  <2>2. client'[d] = next
    BY <2>1 DEF ArenaInv, TypeOK
  <2>3. PICK s \in Socket : s = Current(d)
    BY CurrentIs DEF ArenaInv
  <2>4. CASE c.levels # {}
    <3>1. ASSUME NEW race \in Race, Shows(c, race, up[s]) PROVE Shows(next, race, up'[s])
      <4>1. PICK q \in Seq(Up) : q = up[s]
        BY DEF ArenaInv, TypeOK
      <4>2. PICK m \in Up : m = [type |-> "leave"]
        BY UpTypes
      <4>3. Shows(next, race, q)
        BY <1>6, <3>1, <4>1, ShowsMore
      <4> QED
        BY <2>1, <4>1, <4>3
    <3>2. (next.levels = {} <=> c.levels = {}) /\ up'[s] = up[s]
      BY <1>6, <2>1, <2>4
    <3>3. PICK after : after = client'[d] /\ after = next
      BY <2>2
    <3> QED
      BY <1>1, <1>2, <1>6, <1>7, <2>3, <2>4, <3>1, <3>2, <3>3, Chatter
  <2>5. CASE c.levels = {}
    <3>1. Unknown(d) /\ Line(d)
      BY <1>2, <2>5 DEF MirrorOf, Follows
    <3>2. c.status = "off"
      <4>1. c.status # "racing" /\ c.status # "searching"
        BY <1>2, <1>6, <1>7, <1>9, <3>1 DEF Unknown, Awaited
      <4> QED
        BY <4>1 DEF Client
    <3>3. Current(d)' = s /\ (Absent(s)' <=> Absent(s))
      BY <1>1, <2>3 DEF Current, Absent, Waits, arena
    <3>4. conn[d] => Away(d)'
      BY <2>1, <2>3, <3>1, <3>3 DEF Unknown, Away
    <3>5. Line(d)'
      BY <1>1, <2>1, <2>3, <3>1, <3>3 DEF Line
    <3>6. next.levels # {} /\ next.status = "off"
      BY <1>6, <3>2
    <3>7. Follows(d)'
      BY <1>1, <2>2, <3>4, <3>6 DEF Follows
    <3> QED
      BY <1>7, <2>2, <3>5, <3>7 DEF MirrorOf
  <2> QED
    BY <2>4, <2>5
<1> QED
  BY <1>8, <1>9

\* A device stops, or loses its socket, or has another: it is off, and the arena hears it.
LEMMA QuitMirrors ==
  ASSUME ArenaInv, NEW d \in Device, Quit(d), MirrorOf(d)
  PROVE  MirrorOf(d)'
<1>1. UNCHANGED <<arena, sock, conn, down>>
  BY DEF Quit
<1>2. PICK s \in Socket : s = Current(d)
  BY CurrentIs DEF ArenaInv
<1>3. PICK c \in Client : c = client[d]
  BY ClientParts DEF ArenaInv
<1>4. client' = [client EXCEPT ![d].status = "off"] /\ Sends(d, [type |-> "leave"])
  BY DEF Quit
<1>5. PICK next : next = client'[d] /\ next = [c EXCEPT !.status = "off"]
  BY <1>3, <1>4 DEF ArenaInv, TypeOK
<1>6. next.status = "off" /\ next.levels = c.levels /\ next.reading = c.reading /\ next.levelEvent = c.levelEvent
  BY <1>5 DEF Client
<1>7. Wants(client'[d])
  BY <1>3, <1>5, <1>6 DEF MirrorOf, Wants
<1>8. Current(d)' = s /\ (Absent(s)' <=> Absent(s))
  BY <1>1, <1>2 DEF Current, Absent, Waits, arena
<1>9. conn[d] => Away(d)' /\ \A type \in {"queue", "closed"} : Never(up[s], type) => Never(up'[s], type)
  <2> SUFFICES ASSUME conn[d]
               PROVE  Away(d)' /\ \A type \in {"queue", "closed"} : Never(up[s], type) => Never(up'[s], type)
    OBVIOUS
  <2>1. PICK m \in Up : m = [type |-> "leave"]
    BY UpTypes
  <2>2. PICK q \in Seq(Up) : q = up[s]
    BY DEF ArenaInv, TypeOK
  <2>3. up'[s] = q \o <<m>>
    BY <1>2, <1>4, <2>1, <2>2 DEF Sends, Posts, ArenaInv, TypeOK
  <2>4. m.type = "leave"
    BY <2>1
  <2>5. LastCall(q \o <<m>>, "leave")
    BY <2>4, CallAppended
  <2>6. \A type \in {"queue", "closed"} : Never(q, type) => Never(q \o <<m>>, type)
    BY <2>4, CallAppended
  <2> QED
    BY <1>8, <2>2, <2>3, <2>5, <2>6 DEF Away
<1>10. Line(d)'
  BY <1>1, <1>2, <1>8, <1>9 DEF MirrorOf, Line
<1>11. c.levels = {} => Unknown(d)'
  BY <1>1, <1>2, <1>3, <1>5, <1>6, <1>8, <1>9 DEF MirrorOf, Follows, Unknown
<1>12. Follows(d)'
  BY <1>1, <1>5, <1>6, <1>9, <1>11 DEF Follows
<1> QED
  BY <1>7, <1>10, <1>12 DEF MirrorOf

LEMMA LineMirrors ==
  ASSUME ArenaInv, NEW d \in Device, Fresh(d), Lose(d) \/ Reconnect(d), MirrorOf(d)
  PROVE  MirrorOf(d)'
<1>1. PICK c \in Client : c = client[d]
  BY ClientParts DEF ArenaInv
<1>2. CASE Lose(d)
  <2>1. ~conn'[d] /\ down'[d] = <<>> /\ client' = [client EXCEPT ![d].status = "off"]
    BY <1>2 DEF Lose, ArenaInv, TypeOK
  <2>2. PICK next : next = client'[d] /\ next = [c EXCEPT !.status = "off"]
    BY <1>1, <2>1 DEF ArenaInv, TypeOK
  <2>3. next.status = "off" /\ next.levels = c.levels /\ next.reading = c.reading /\ next.levelEvent = c.levelEvent
    BY <2>2 DEF Client
  <2>4. Wants(client'[d])
    BY <1>1, <2>2, <2>3 DEF MirrorOf, Wants
  <2>5. Line(d)' /\ Follows(d)'
    BY <2>1, <2>2, <2>3 DEF Line, Follows, Unknown
  <2> QED
    BY <2>4, <2>5 DEF MirrorOf
<1>3. CASE Reconnect(d)
  <2>1. UNCHANGED <<arena, up, down, client>> /\ ~conn[d]
    BY <1>3 DEF Reconnect
  <2>2. PICK n \in 1..MaxSockets : n = sock'[d] /\ n > sock[d]
    <3>1. sock[d] \in 1..MaxSockets /\ sock[d] < MaxSockets /\ sock'[d] = sock[d] + 1
      BY <1>3 DEF Reconnect, ArenaInv, TypeOK
    <3>2. sock'[d] \in 1..MaxSockets /\ sock'[d] > sock[d]
      BY <3>1, Bounds
    <3> QED
      BY <3>2
  <2>3. PICK s : s = <<d, n>>
    OBVIOUS
  <2>4. Current(d)' = s
    BY <2>2, <2>3 DEF Current
  <2>5. up[s] = <<>> /\ joining[s] = NoEvent /\ seats[s] = Nowhere /\ \A w \in queue : w.socket # s
    BY <2>2, <2>3 DEF Fresh
  <2>6. Absent(s)'
    BY <2>1, <2>5 DEF Absent, Waits, arena
  <2>7. up'[s] = <<>> /\ Len(<<>>) = 0
    BY <2>1, <2>5
  <2>8. Silent(up'[s]) /\ \A type : Never(up'[s], type)
    BY <2>7 DEF Silent, Never
  <2>9. Away(d)'
    BY <2>4, <2>6, <2>8 DEF Away
  <2>10. Line(d)'
    BY <2>1, <2>4, <2>8 DEF MirrorOf, Line
  <2>11. Unknown(d) => Unknown(d)'
    BY <2>1, <2>4, <2>6, <2>8, <2>9 DEF Unknown
  <2>12. Follows(d)'
    BY <2>1, <2>9, <2>11 DEF MirrorOf, Follows
  <2> QED
    BY <2>1, <2>10, <2>12 DEF MirrorOf
<1> QED
  BY <1>2, <1>3

LEMMA OthersStill ==
  ASSUME ArenaInv, NEW d \in Device, NEW e \in Device, e # d,
         Receive(d) \/ Draw(d) \/ DrawFails(d) \/ LevelRead(d) \/ Use(d) \/ Lose(d) \/ Reconnect(d)
  PROVE  /\ UNCHANGED arena /\ Still(e) /\ down'[e] = down[e]
         /\ \A s \in Socket : s # Current(d) => up'[s] = up[s]
<1>1. client'[e] = client[e]
  <2>1. \A c : client' = [client EXCEPT ![d] = c] => client'[e] = client[e]
    BY DEF ArenaInv, TypeOK
  <2>2. \A x, c, ms : SendsQueue(d, c, x, ms) => client'[e] = client[e]
    BY <2>1 DEF SendsQueue
  <2>3. \A x, ms : Searches(d, x, ms) => client'[e] = client[e]
    BY <2>1, <2>2 DEF Searches
  <2>4. CASE Receive(d)
    BY <2>4 DEF Receive, ReceiveLate, ReceiveQueued, ReceiveMatch, ReceiveState, ArenaInv, TypeOK
  <2>5. CASE Draw(d) \/ DrawFails(d) \/ Lose(d) \/ Reconnect(d)
    BY <2>5 DEF Draw, DrawFails, Lose, Reconnect, ArenaInv, TypeOK
  <2>6. CASE LevelRead(d)
    BY <2>1, <2>2, <2>6 DEF LevelRead
  <2>7. CASE Search(d) \/ Another(d)
    BY <2>3, <2>7 DEF Search, Another
  <2>8. CASE Quit(d) \/ Solve(d) \/ Penalise(d) \/ Cancel(d) \/ AskRematch(d)
    BY <2>8 DEF Quit, Solve, Penalise, Cancel, AskRematch, ArenaInv, TypeOK
  <2> QED
    BY <2>4, <2>5, <2>6, <2>7, <2>8 DEF Use
<1>2. CASE Draw(d) \/ DrawFails(d) \/ LevelRead(d) \/ Use(d)
  BY <1>1, <1>2, PostsOwn DEF Still, ArenaInv
<1>3. CASE Receive(d)
  <2>1. UNCHANGED <<arena, sock, conn, up>> /\ down' = [down EXCEPT ![d] = Tail(@)]
    BY <1>3 DEF Receive, ReceiveLate, ReceiveQueued, ReceiveMatch, ReceiveState, Takes1
  <2> QED
    BY <1>1, <2>1 DEF Still, ArenaInv, TypeOK
<1>4. CASE Lose(d) \/ Reconnect(d)
  BY <1>1, <1>4 DEF Lose, Reconnect, Still, ArenaInv, TypeOK
<1> QED
  BY <1>2, <1>3, <1>4

-----------------------------------------------------------------------------

LEMMA InitMirrors == ASSUME Init PROVE MirrorInv
<1> SUFFICES ASSUME NEW d \in Device PROVE MirrorOf(d)
  BY DEF MirrorInv
<1>1. PICK s \in Socket : s = Current(d)
  BY CurrentIs, InitArena DEF ArenaInv
<1>2. Absent(s) /\ up[s] = <<>> /\ Len(<<>>) = 0 /\ down[d] = <<>> /\ conn[d]
  BY DEF Init, Absent, Waits
<1>3. Silent(up[s]) /\ \A type : Never(up[s], type)
  BY <1>2 DEF Silent, Never
<1>4. /\ client[d].status = "off" /\ client[d].levels = {} /\ client[d].reading = {}
  BY DEF Init, NewClient
<1>5. Follows(d)
  BY <1>1, <1>2, <1>3, <1>4 DEF Follows, Unknown, Away
<1> QED
  BY <1>1, <1>2, <1>3, <1>4, <1>5 DEF MirrorOf, Wants, Line

LEMMA MirrorSteps ==
  ASSUME NEW e, Event = {e}, e # NoEvent, ArenaInv, BattleInv, MirrorInv,
         ~(Cardinality(queue) >= QueueMax), [Next]_vars
  PROVE  MirrorInv'
<1> SUFFICES ASSUME NEW d \in Device PROVE MirrorOf(d)'
  BY DEF MirrorInv
<1>1. MirrorOf(d) /\ Fresh(d)
  BY DEF MirrorInv, BattleInv
<1>2. CASE Tick
  BY <1>1, <1>2, TickMirrors
<1>3. ASSUME NEW s \in Socket, Serve(s) PROVE MirrorOf(d)'
  <2>1. \A x \in Event : x # NoEvent
    OBVIOUS
  <2>2. CASE Queue(s) \/ Leave(s)
    BY <1>1, <2>1, <2>2, LeaveMirrors
  <2>3. CASE Join(s)
    BY <1>1, <2>3, JoinMirrors
  <2>4. CASE Play(s)
    BY <1>1, <2>4, PlayMirrors
  <2> QED
    BY <1>3, <2>2, <2>3, <2>4 DEF Serve
<1>4. ASSUME NEW f \in Device, Receive(f) \/ Draw(f) \/ DrawFails(f) \/ LevelRead(f) \/ Use(f) \/ Lose(f) \/ Reconnect(f)
      PROVE  MirrorOf(d)'
  <2>1. CASE d # f
    BY <1>1, <1>4, <2>1, OthersStill, Elsewhere
  <2>2. CASE d = f
    <3>1. CASE Receive(d)
      BY <1>1, <3>1, ReceiveMirrors
    <3>2. CASE Draw(d) \/ DrawFails(d) \/ Solve(d) \/ Penalise(d) \/ Cancel(d) \/ AskRematch(d)
      BY <1>1, <3>2, ChatterMirrors
    <3>3. CASE LevelRead(d)
      BY <1>1, <3>3, LevelMirrors
    <3>4. CASE Search(d) \/ Another(d)
      BY <1>1, <3>4, SearchMirrors
    <3>5. CASE Quit(d)
      BY <1>1, <3>5, QuitMirrors
    <3>6. CASE Lose(d) \/ Reconnect(d)
      BY <1>1, <3>6, LineMirrors
    <3> QED
      BY <1>4, <2>2, <3>1, <3>2, <3>3, <3>4, <3>5, <3>6 DEF Use
  <2> QED
    BY <2>1, <2>2
<1>5. CASE UNCHANGED vars
  <2>1. PICK t \in Socket : t = Current(d)
    BY CurrentIs DEF ArenaInv
  <2>2. Still(d) /\ Same(t) /\ down'[d] = down[d] /\ up'[t] = up[t] /\ UNCHANGED races
    BY <1>5 DEF Still, Same, Waits, vars
  <2> QED
    BY <1>1, <2>1, <2>2, Untouched
<1> QED
  BY <1>2, <1>3, <1>4, <1>5 DEF Next

LEMMA Mirrored == ASSUME NEW e, Event = {e}, ArenaInv, MirrorInv PROVE Mirrors
<1> SUFFICES ASSUME NEW d \in Device, Quiet(d)
             PROVE  LET c == client[d]
                        s == Current(d)
                    IN  /\ c.status = "searching" <=> \E w \in queue : w.socket = s /\ w.event = c.wanted
                        /\ c.status = "racing" <=> seats[s] # Nowhere
                        /\ c.status = "racing" =>
                             /\ c.race = seats[s] /\ c.game = races[c.race].game
                             /\ c.scrambles = races[c.race].scrambles /\ c.results = races[c.race].results
                             /\ c.here = races[c.race].here
  BY DEF Mirrors
<1>1. PICK s \in Socket : s = Current(d)
  BY CurrentIs DEF ArenaInv
<1>2. PICK c \in Client : c = client[d]
  BY ClientParts DEF ArenaInv
<1>3. conn[d] /\ down[d] = <<>> /\ up[s] = <<>> /\ joining[s] = NoEvent /\ c.reading = {} /\ Len(<<>>) = 0
  BY <1>1, <1>2 DEF Quiet
<1>4. \A type : ~LastCall(up[s], type)
  BY <1>3 DEF LastCall
<1>5. MirrorOf(d)
  BY DEF MirrorInv
<1>6. CASE c.levels = {} \/ c.status = "off"
  <2>1. c.status # "searching" /\ c.status # "racing" /\ Absent(s)
    BY <1>1, <1>2, <1>3, <1>4, <1>5, <1>6 DEF MirrorOf, Follows, Unknown, Away
  <2> QED
    BY <1>1, <1>2, <2>1 DEF Absent, Waits
<1>7. CASE c.levels # {} /\ c.status # "off"
  <2>1. There(d) /\ c.wanted = e
    BY <1>1, <1>2, <1>3, <1>4, <1>5, <1>7 DEF MirrorOf, Follows, Coming, Wants
  <2>2. CASE Waits(s) /\ HearsQueue(down[d], client[d])
    <3>1. c.status = "searching"
      BY <1>2, <1>3, <2>2 DEF HearsQueue
    <3>2. seats[s] = Nowhere /\ \E w \in queue : w.socket = s /\ w.event = c.wanted
      BY <2>1, <2>2 DEF Waits, ArenaInv, TypeOK, Places, Searching
    <3> QED
      BY <1>1, <1>2, <3>1, <3>2
  <2>3. CASE seats[s] # Nowhere /\ HearsRace(down[d], client[d], seats[s], races[seats[s]], s, up[s])
    <3>1. PICK race \in Race : race = races[seats[s]]
      BY <2>3, SeatIs
    <3>2. HearsSeat(down[d], c, seats[s], SeatOf(race, s)) /\ HearsState(down[d], c, race, up[s])
      BY <1>2, <2>3, <3>1 DEF HearsRace
    <3>3. c.status = "racing" /\ c.race = seats[s] /\ Shows(c, race, up[s])
      BY <1>3, <3>2 DEF HearsSeat, HearsState
    <3>4. /\ c.game = race.game /\ c.scrambles = race.scrambles /\ c.here = race.here
          /\ AheadOf(c, race) = {} /\ c.results[Other(c.seat)] = race.results[Other(c.seat)]
      BY <1>3, <3>3 DEF Shows
    <3>5. c.results = race.results
      <4>1. c.results \in Results /\ race.results \in Results /\ c.seat \in Seat
        BY RaceParts DEF Client
      <4>2. ASSUME NEW j \in Seat PROVE c.results[j] = race.results[j]
        <5>1. CASE j = Other(c.seat)
          BY <3>4, <5>1
        <5>2. CASE j = c.seat
          <6>1. \A n \in Round : c.results[j][n] = race.results[j][n]
            BY <3>4, <5>2 DEF AheadOf
          <6> QED
            BY <4>1, <6>1 DEF Results
        <5> QED
          BY <4>1, <5>1, <5>2, OtherIs
      <4> QED
        BY <4>1, <4>2 DEF Results
    <3>6. ~Waits(s)
      BY <2>3 DEF Waits, ArenaInv, Places, Searching
    <3> QED
      BY <1>1, <1>2, <2>3, <3>1, <3>3, <3>4, <3>5, <3>6 DEF Waits
  <2> QED
    BY <1>1, <1>3, <2>1, <2>2, <2>3 DEF There
<1> QED
  BY <1>6, <1>7

\* Where all race the one event and the queue is never full, a device shows what the
\* arena has of it once nothing is on its way between them, whatever it lost, left,
\* searched again or played meanwhile (join, leave, pair and play, duel.go; receive,
\* search, solve and leave, duel.ts).
THEOREM AlwaysMirrors ==
  ASSUME \E e : Event = {e} /\ e # NoEvent
  PROVE  Spec /\ []~QueueFull => []Mirrors
<1>0. PICK e : Event = {e} /\ e # NoEvent
  OBVIOUS
<1>1. Init => BattleInv /\ MirrorInv
  BY InitBattles, InitMirrors
<1>2. ArenaInv /\ ArenaInv' /\ BattleInv /\ [Next]_vars => BattleInv'
  BY BattleSteps
<1>3. ArenaInv /\ BattleInv /\ MirrorInv /\ ~QueueFull /\ [Next]_vars => MirrorInv'
  BY <1>0, MirrorSteps DEF QueueFull
<1>4. ArenaInv /\ MirrorInv => Mirrors
  BY <1>0, Mirrored
<1> QED
  BY <1>1, <1>2, <1>3, <1>4, ArenaAlways, PTL DEF Spec
=============================================================================
