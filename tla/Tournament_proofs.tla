-------------------------- MODULE Tournament_proofs --------------------------
(***************************************************************************)
(* Proofs about Tournament, for any players, limits and bounds.  Whatever  *)
(* is cut short, rounds are played in order and those who won meet.  As    *)
(* long as no handler is cut short, results stay, a tournament under way   *)
(* has a match to play and one that is over has none, the app keeps in it  *)
(* those it is for, and its champion is the one left.                      *)
(***************************************************************************)
EXTENDS Tournament, FiniteSetTheorems, TLAPS

MatchStatus == {"waiting", "ready", "live", "done", "cancelled"}

\* The bracket's matches are those of its rounds, each a record.
Known ==
  /\ round \in Nat /\ rounds \in Nat /\ stops \in Nat
  /\ entrants \subseteq Player
  /\ DOMAIN matches = Bracket(rounds)
  /\ \A m \in DOMAIN matches :
       /\ matches[m] = MatchOf(matches[m].player, matches[m])
       /\ matches[m].status \in MatchStatus

\* The match is not set yet, or will not be.
Unset(m) == matches[m].status \in {"waiting", "cancelled"}

\* RoundsInOrder needs them: the rounds before the one under way are over; a match
\* of the next is set once this one is over; the later ones are not.
Past == \A m \in DOMAIN matches : m[1] < round => Ended(m)
Ahead == \A m \in DOMAIN matches : m[1] = round + 1 => Unset(m) \/ RoundOver(round)
Later == \A m \in DOMAIN matches : m[1] > round + 1 => Unset(m)
Opening == doing.at \in {"open", "turn"} => RoundOver(round)
Order == Past /\ Ahead /\ Later /\ Opening

OrderInv == Known /\ Order

\* ResultsStay and NothingLeft need them, while no handler was cut short: nothing is
\* left to play, or to do, before the start and at the end.
AtEnds ==
  /\ status = "open" => Idle /\ DOMAIN matches = {}
  /\ status = "finished" => Idle /\ \A m \in DOMAIN matches : Ended(m)
  /\ status = "cancelled" =>
       \/ doing = [at |-> "halt"]
       \/ Idle /\ \A m \in DOMAIN matches : Ended(m)

\* The matches of the next round are set in their order, once.
SetInOrder ==
  /\ doing.at = "open" => doing.slot \in Nat
  /\ doing.at # "turn" =>
       \A m \in DOMAIN matches : m[1] = round + 1 =>
         Unset(m) \/ (doing.at = "open" /\ m[2] < doing.slot)

StatusKnown == status \in {"open", "running", "finished", "cancelled"}

WholeInv == OrderInv /\ StatusKnown /\ (Whole => AtEnds /\ SetInOrder)

-----------------------------------------------------------------------------
\* A match is the round and the slot that name it, in the bracket's rounds.
LEMMA InBracket ==
  ASSUME NEW all \in Nat, NEW m \in Bracket(all)
  PROVE  m = <<m[1], m[2]>> /\ m[1] \in Nat /\ m[1] >= 1 /\ m[1] <= all /\ m[2] \in Nat
BY DEF Bracket, SlotsOf

\* A bracket has a number of rounds.
LEMMA RoundsType == ASSUME NEW n \in Nat PROVE RoundsOf(n) \in Nat
<1>1. IsFiniteSet(0..n) /\ {k \in 0..n : Doubled(k) < n} \subseteq 0..n
  BY FS_Interval
<1>2. IsFiniteSet({k \in 0..n : Doubled(k) < n})
  BY <1>1, FS_Subset
<1> QED
  BY <1>2, FS_CardinalityType DEF RoundsOf

\* A record of a match is known by its parts.
LEMMA Parts ==
  ASSUME NEW p, NEW o
  PROVE  /\ MatchOf(p, o).player = p /\ MatchOf(p, o).status = o.status
         /\ MatchOf(p, o).winner = o.winner
         /\ MatchOf(p, o) = MatchOf(MatchOf(p, o).player, MatchOf(p, o))
BY DEF MatchOf

\* What a match of two seats becomes is a status.
LEMMA OutcomeStatus ==
  ASSUME NEW p, NEW empty \in MatchStatus
  PROVE  /\ Outcome(p, empty).status \in {"ready", "done", empty}
         /\ Opened(p).status \in {"ready", "done", "cancelled"}
BY DEF Outcome, Opened, MatchStatus

-----------------------------------------------------------------------------
\* Initially there is no match.
LEMMA InitWhole == Init => WholeInv
<1> SUFFICES ASSUME Init PROVE WholeInv
  OBVIOUS
<1>1. Bracket(0) = {}
  BY DEF Bracket
<1>2. DOMAIN matches = {}
  BY DEF Init
<1>3. Known
  BY <1>1, <1>2 DEF Init, Known
<1>4. Order
  BY <1>2 DEF Init, Order, Past, Ahead, Later, Opening, Nothing
<1>5. AtEnds /\ SetInOrder
  BY <1>2 DEF Init, AtEnds, SetInOrder, Nothing, Idle
<1> QED
  BY <1>3, <1>4, <1>5 DEF WholeInv, OrderInv, StatusKnown, Init

\* What no match goes through backwards: to play, live, over.
Onward ==
  \A m \in DOMAIN matches :
    \/ matches'[m].status = matches[m].status
    \/ Playing(m) /\ matches'[m].status \in {"live", "done"}
    \/ ~Ended(m) /\ matches'[m].status = "cancelled"

\* Steps within a round that take matches onward keep the order of rounds.
LEMMA OnwardKeepsOrder ==
  ASSUME OrderInv, Known', Onward, UNCHANGED <<round, rounds>>,
         doing' = doing \/ doing'.at \notin {"open", "turn"}
  PROVE  Order'
<1>1. DOMAIN matches' = DOMAIN matches
  BY DEF OrderInv, Known
<1>2. \A m \in DOMAIN matches : Ended(m) => Ended(m)'
  BY DEF Onward, Ended, Playing
<1>3. \A m \in DOMAIN matches : Unset(m) => Unset(m)'
  BY DEF Onward, Unset, Playing
<1>4. RoundOver(round) => RoundOver(round)'
  BY <1>1, <1>2 DEF RoundOver, Round
<1>5. Past'
  BY <1>1, <1>2 DEF OrderInv, Order, Past
<1>6. Ahead'
  BY <1>1, <1>3, <1>4 DEF OrderInv, Order, Ahead
<1>7. Later'
  BY <1>1, <1>3 DEF OrderInv, Order, Later
<1>8. Opening'
  BY <1>4 DEF OrderInv, Order, Opening
<1> QED
  BY <1>5, <1>6, <1>7, <1>8 DEF Order

\* A step that leaves the matches where they are.
LEMMA SameMatches ==
  ASSUME OrderInv, UNCHANGED <<round, rounds, matches>>, stops' \in Nat, entrants' \subseteq Player,
         doing' = doing \/ doing'.at \notin {"open", "turn"}
  PROVE  OrderInv'
<1>1. Known'
  <2>1. DOMAIN matches' = Bracket(rounds')
    BY DEF OrderInv, Known
  <2>2. \A m \in DOMAIN matches' :
          matches'[m] = MatchOf(matches'[m].player, matches'[m]) /\ matches'[m].status \in MatchStatus
    BY DEF OrderInv, Known
  <2> QED
    BY <2>1, <2>2 DEF OrderInv, Known
<1>2. Onward
  BY DEF Onward
<1> QED
  BY <1>1, <1>2, OnwardKeepsOrder DEF OrderInv

\* A match given to one of its players, or to nobody.
LEMMA FinishStep ==
  ASSUME OrderInv, NEW m, NEW seat, Finish(m, seat), stops' = stops
  PROVE  OrderInv' /\ Onward /\ DOMAIN matches' = DOMAIN matches
           /\ \A k \in DOMAIN matches : Ended(k) => matches'[k] = matches[k]
<1> DEFINE won == [status |-> "done", winner |-> matches[m].player[seat]]
<1>1. \A k \in DOMAIN matches :
        matches'[k] = IF k = m /\ Playing(m) THEN MatchOf(matches[m].player, won) ELSE matches[k]
  BY DEF Finish
<1>2. DOMAIN matches' = DOMAIN matches
  BY DEF Finish
<1>3. Onward
  BY <1>1, Parts DEF Onward
<1>4. Known'
  <2>1. \A k \in DOMAIN matches' :
          matches'[k] = MatchOf(matches'[k].player, matches'[k]) /\ matches'[k].status \in MatchStatus
    BY <1>1, <1>2, Parts DEF OrderInv, Known, MatchStatus
  <2>2. UNCHANGED <<round, rounds, entrants>>
    BY DEF Finish, tournament
  <2> QED
    BY <1>2, <2>1, <2>2 DEF OrderInv, Known
<1>5. \A k \in DOMAIN matches : Ended(k) => matches'[k] = matches[k]
  BY <1>1 DEF Ended, Playing
<1>6. Order'
  BY <1>3, <1>4, OnwardKeepsOrder DEF Finish, tournament
<1> QED
  BY <1>2, <1>3, <1>4, <1>5, <1>6 DEF OrderInv

\* A match becomes live.
LEMMA BeginStep ==
  ASSUME OrderInv, NEW m \in DOMAIN matches, Begin(m)
  PROVE  OrderInv' /\ Onward /\ DOMAIN matches' = DOMAIN matches
           /\ \A k \in DOMAIN matches : Ended(k) => matches'[k] = matches[k]
<1>1. matches[m] = [player |-> matches[m].player, status |-> "ready", winner |-> matches[m].winner]
  BY DEF OrderInv, Known, MatchOf, Begin
<1>2. [matches[m] EXCEPT !.status = "live"] = MatchOf(matches[m].player, [status |-> "live", winner |-> matches[m].winner])
  BY <1>1 DEF MatchOf
<1>3. \A k \in DOMAIN matches :
        matches'[k] = IF k = m THEN MatchOf(matches[m].player, [status |-> "live", winner |-> matches[m].winner])
                      ELSE matches[k]
  BY <1>2 DEF Begin
<1>4. DOMAIN matches' = DOMAIN matches
  BY DEF Begin
<1>5. Onward
  BY <1>3, Parts DEF Onward, Playing, Begin
<1>6. Known'
  <2>1. \A k \in DOMAIN matches' :
          matches'[k] = MatchOf(matches'[k].player, matches'[k]) /\ matches'[k].status \in MatchStatus
    BY <1>3, <1>4, Parts DEF OrderInv, Known, MatchStatus
  <2>2. UNCHANGED <<round, rounds, entrants, stops, doing>>
    BY DEF Begin, tournament, Handler
  <2> QED
    BY <1>4, <2>1, <2>2 DEF OrderInv, Known
<1>7. \A k \in DOMAIN matches : Ended(k) => matches'[k] = matches[k]
  BY <1>3 DEF Ended, Begin
<1>8. Order'
  BY <1>5, <1>6, OnwardKeepsOrder DEF Begin, tournament
<1> QED
  BY <1>4, <1>5, <1>6, <1>7, <1>8 DEF OrderInv

\* The matches that are not over are cancelled.
LEMMA HaltStep ==
  ASSUME OrderInv, Halt
  PROVE  /\ OrderInv' /\ Onward /\ DOMAIN matches' = DOMAIN matches
         /\ \A k \in DOMAIN matches : Ended(k)' /\ matches'[k].winner = matches[k].winner
<1>1. \A k \in DOMAIN matches :
        matches'[k] = MatchOf(matches[k].player, [status |-> Halted(k), winner |-> matches[k].winner])
  BY DEF Halt
<1>2. DOMAIN matches' = DOMAIN matches
  BY DEF Halt
<1>3. \A k \in DOMAIN matches :
        /\ matches'[k].status = Halted(k) /\ matches'[k].winner = matches[k].winner
        /\ matches'[k] = MatchOf(matches'[k].player, matches'[k])
  <2> SUFFICES ASSUME NEW k \in DOMAIN matches
               PROVE  /\ matches'[k].status = Halted(k) /\ matches'[k].winner = matches[k].winner
                      /\ matches'[k] = MatchOf(matches'[k].player, matches'[k])
    OBVIOUS
  <2>1. matches'[k] = MatchOf(matches[k].player, [status |-> Halted(k), winner |-> matches[k].winner])
    BY <1>1
  <2> QED
    BY <2>1, Parts
<1>4. \A k \in DOMAIN matches : Halted(k) \in {"done", "cancelled"}
  BY DEF Halted, Ended
<1>5. \A k \in DOMAIN matches : Ended(k)' /\ matches'[k].winner = matches[k].winner
  BY <1>3, <1>4 DEF Ended
<1>8. Onward
  BY <1>3 DEF Onward, Halted
<1>6. Known'
  <2>1. \A k \in DOMAIN matches' :
          matches'[k] = MatchOf(matches'[k].player, matches'[k]) /\ matches'[k].status \in MatchStatus
    BY <1>2, <1>3, <1>4 DEF MatchStatus
  <2>2. UNCHANGED <<round, rounds, entrants, stops>>
    BY DEF Halt, tournament, Handler
  <2> QED
    BY <1>2, <2>1, <2>2 DEF OrderInv, Known
<1>7. Order'
  BY <1>6, <1>8, OnwardKeepsOrder DEF Halt, tournament, Nothing
<1> QED
  BY <1>2, <1>5, <1>6, <1>7, <1>8 DEF OrderInv

\* A deleted account leaves its seats: no match changes its status.
LEMMA PurgeStep ==
  ASSUME OrderInv, NEW u \in Player, Purge(u)
  PROVE  /\ OrderInv' /\ Onward /\ DOMAIN matches' = DOMAIN matches
         /\ \A k \in DOMAIN matches :
              matches'[k].status = matches[k].status /\ matches'[k].winner \in {matches[k].winner, Nobody}
<1> DEFINE left(p) == IF p = u THEN Nobody ELSE p
           seats(k) == [seat \in Seat |-> left(matches[k].player[seat])]
<1>1. \A k \in DOMAIN matches :
        matches'[k] = MatchOf(seats(k), [status |-> matches[k].status, winner |-> left(matches[k].winner)])
  BY DEF Purge
<1>2. DOMAIN matches' = DOMAIN matches
  BY DEF Purge
<1> HIDE DEF seats
<1>7. \A k \in DOMAIN matches :
        /\ matches'[k].status = matches[k].status /\ matches'[k].winner = left(matches[k].winner)
        /\ matches'[k] = MatchOf(matches'[k].player, matches'[k])
  <2> HIDE DEF left
  <2> SUFFICES ASSUME NEW k \in DOMAIN matches
               PROVE  /\ matches'[k].status = matches[k].status /\ matches'[k].winner = left(matches[k].winner)
                      /\ matches'[k] = MatchOf(matches'[k].player, matches'[k])
    OBVIOUS
  <2>1. matches'[k] = MatchOf(seats(k), [status |-> matches[k].status, winner |-> left(matches[k].winner)])
    BY <1>1
  <2> QED
    BY <2>1, Parts
<1>3. \A k \in DOMAIN matches :
        matches'[k].status = matches[k].status /\ matches'[k].winner \in {matches[k].winner, Nobody}
  BY <1>7
<1>4. Onward
  BY <1>3 DEF Onward
<1>5. Known'
  <2>1. \A k \in DOMAIN matches' :
          matches'[k] = MatchOf(matches'[k].player, matches'[k]) /\ matches'[k].status \in MatchStatus
    BY <1>2, <1>7 DEF OrderInv, Known
  <2>2. UNCHANGED <<round, rounds, stops>> /\ entrants' \subseteq entrants
    BY DEF Purge
  <2> QED
    BY <1>2, <2>1, <2>2 DEF OrderInv, Known
<1>6. Order'
  BY <1>4, <1>5, OnwardKeepsOrder DEF Purge
<1> QED
  BY <1>2, <1>3, <1>4, <1>5, <1>6 DEF OrderInv

\* A match of the next round is set, the round under way over.
LEMMA OpensStep ==
  ASSUME OrderInv, RoundOver(round), NEW slot, Opens(slot)
  PROVE  /\ OrderInv' /\ DOMAIN matches' = DOMAIN matches
         /\ \A k \in DOMAIN matches : k # <<round + 1, slot>> => matches'[k] = matches[k]
<1> DEFINE m == <<round + 1, slot>>
           player == [seat \in Seat |-> matches[Feeder(m, seat)].winner]
<1>1. matches' = [matches EXCEPT ![m] = MatchOf(player, Opened(player))]
  BY DEF Opens
<1> HIDE DEF player
<1>2. DOMAIN matches' = DOMAIN matches
  BY <1>1
<1>3. \A k \in DOMAIN matches : matches'[k] = IF k = m THEN MatchOf(player, Opened(player)) ELSE matches[k]
  BY <1>1
<1>4. UNCHANGED <<round, rounds, entrants, stops>> /\ round \in Nat
  BY DEF Opens, tournament, Handler, OrderInv, Known
<1>5. Opened(player).status \in MatchStatus
  BY OutcomeStatus DEF MatchStatus
<1>6. Known'
  <2>1. \A k \in DOMAIN matches' :
          matches'[k] = MatchOf(matches'[k].player, matches'[k]) /\ matches'[k].status \in MatchStatus
    BY <1>2, <1>3, <1>5, Parts DEF OrderInv, Known
  <2> QED
    BY <1>2, <1>4, <2>1 DEF OrderInv, Known
<1>7. m[1] = round + 1
  OBVIOUS
<1> HIDE DEF m
<1>8. \A k \in DOMAIN matches : k[1] # round + 1 => matches'[k] = matches[k]
  BY <1>3, <1>7
<1>9. \A k \in DOMAIN matches : k[1] \in Nat
  BY InBracket DEF OrderInv, Known
<1>10. RoundOver(round)'
  BY <1>2, <1>4, <1>8 DEF RoundOver, Round, Ended
<1>11. Past'
  BY <1>2, <1>4, <1>8, <1>9 DEF OrderInv, Order, Past, Ended
<1>12. Later'
  BY <1>2, <1>4, <1>8, <1>9 DEF OrderInv, Order, Later, Unset
<1>13. Order'
  BY <1>4, <1>10, <1>11, <1>12 DEF Order, Ahead, Opening
<1> QED
  BY <1>2, <1>3, <1>6, <1>13 DEF OrderInv, m

\* The draw sets the first round, and no other.
LEMMA StartStep ==
  ASSUME OrderInv, Start
  PROVE  OrderInv' /\ \A k \in DOMAIN matches' : k[1] = round' + 1 => Unset(k)'
<1> DEFINE n == Cardinality(entrants)
           all == RoundsOf(n)
           none == [seat \in Seat |-> Nobody]
<1>1. n \in Nat
  BY FS_Subset, FS_CardinalityType, TournamentAssumption DEF OrderInv, Known
<1>2. all \in Nat
  BY <1>1, RoundsType
<1>3. PICK draw \in [1..n -> entrants] :
        matches' = [m \in Bracket(all) |->
          LET player == IF m[1] = 1 THEN Pair(draw, m[2]) ELSE none
          IN MatchOf(player, Outcome(player, "waiting"))]
  BY DEF Start
<1>4. round' = 1 /\ rounds' = all /\ doing' = [at |-> "advance"] /\ UNCHANGED <<stops, entrants>>
  BY DEF Start, Handler
<1> HIDE DEF all
<1>5. DOMAIN matches' = Bracket(all)
  BY <1>3
<1>6. \A k \in DOMAIN matches' : k[1] \in Nat /\ k[1] >= 1
  BY <1>2, <1>5, InBracket
<1>7. \A k \in DOMAIN matches' :
        matches'[k] = MatchOf(matches'[k].player, matches'[k]) /\ matches'[k].status \in MatchStatus
  <2> SUFFICES ASSUME NEW k \in DOMAIN matches'
               PROVE  matches'[k] = MatchOf(matches'[k].player, matches'[k]) /\ matches'[k].status \in MatchStatus
    OBVIOUS
  <2>1. PICK player : matches'[k] = MatchOf(player, Outcome(player, "waiting"))
    BY <1>3, <1>5
  <2>2. Outcome(player, "waiting").status \in MatchStatus
    BY OutcomeStatus DEF MatchStatus
  <2> QED
    BY <2>1, <2>2, Parts
<1>8. \A k \in DOMAIN matches' : k[1] > 1 => Unset(k)'
  <2> SUFFICES ASSUME NEW k \in DOMAIN matches', k[1] > 1 PROVE matches'[k].status = "waiting"
    BY DEF Unset
  <2>1. k[1] # 1
    BY <1>6
  <2>2. matches'[k] = MatchOf(none, Outcome(none, "waiting"))
    BY <1>3, <1>5, <2>1
  <2>3. Outcome(none, "waiting").status = "waiting"
    BY DEF Outcome, Seat
  <2> QED
    BY <2>2, <2>3, Parts
<1>9. Known'
  BY <1>2, <1>4, <1>5, <1>7 DEF OrderInv, Known
<1>10. Order'
  <2>1. Past'
    BY <1>4, <1>6 DEF Past
  <2>2. Ahead' /\ Later'
    BY <1>4, <1>6, <1>8 DEF Ahead, Later
  <2>3. Opening'
    BY <1>4 DEF Opening
  <2> QED
    BY <2>1, <2>2, <2>3 DEF Order
<1> QED
  BY <1>4, <1>6, <1>8, <1>9, <1>10 DEF OrderInv

\* The next round is the one under way: the one it leaves is over.
LEMMA TurnStep == ASSUME OrderInv, Turn PROVE OrderInv'
<1>1. /\ round' = round + 1 /\ doing' = [at |-> "advance"]
      /\ UNCHANGED <<rounds, entrants, matches, stops>> /\ round \in Nat /\ RoundOver(round)
  BY DEF Turn, Handler, OrderInv, Known, Order, Opening
<1>2. \A k \in DOMAIN matches : k[1] \in Nat
  BY InBracket DEF OrderInv, Known
<1>3. Known'
  <2>1. DOMAIN matches' = Bracket(rounds')
    BY <1>1 DEF OrderInv, Known
  <2>2. \A m \in DOMAIN matches' :
          matches'[m] = MatchOf(matches'[m].player, matches'[m]) /\ matches'[m].status \in MatchStatus
    BY <1>1 DEF OrderInv, Known
  <2> QED
    BY <1>1, <2>1, <2>2 DEF OrderInv, Known
<1>4. Past'
  <2> SUFFICES ASSUME NEW k \in DOMAIN matches, k[1] < round + 1 PROVE Ended(k)
    BY <1>1 DEF Past, Ended
  <2>1. k[1] < round \/ k[1] = round
    BY <1>1, <1>2
  <2> QED
    BY <1>1, <2>1 DEF OrderInv, Order, Past, RoundOver, Round
<1>5. Ahead' /\ Later'
  <2> SUFFICES ASSUME NEW k \in DOMAIN matches, k[1] > round + 1 PROVE Unset(k)
    BY <1>1, <1>2 DEF Ahead, Later, Unset
  <2> QED
    BY DEF OrderInv, Order, Later
<1>6. Opening'
  BY <1>1 DEF Opening
<1> QED
  BY <1>3, <1>4, <1>5, <1>6 DEF OrderInv, Order

\* Each step keeps the rounds in order.
LEMMA OrderStep == ASSUME OrderInv, [Next]_vars PROVE OrderInv'
<1>1. stops \in Nat /\ entrants \subseteq Player
  BY DEF OrderInv, Known
<1>2. ASSUME NEW u \in Player, Register(u) \/ Unregister(u) \/ Withdraw(u) PROVE OrderInv'
  <2>1. UNCHANGED <<round, rounds, matches, stops>> /\ entrants' \subseteq Player
    BY <1>1, <1>2 DEF Register, Unregister, Withdraw, tournament, Handler
  <2>2. doing' = doing \/ doing'.at \notin {"open", "turn"}
    BY <1>2 DEF Register, Unregister, Withdraw, Nothing
  <2> QED
    BY <1>1, <2>1, <2>2, SameMatches
<1>3. ASSUME NEW u \in Player, Purge(u) PROVE OrderInv'
  BY <1>3, PurgeStep
<1>4. CASE StartWithout
  BY <1>1, <1>4, SameMatches DEF StartWithout, Handler
<1>5. CASE Start
  BY <1>5, StartStep
<1>6. ASSUME NEW m \in DOMAIN matches, Begin(m) PROVE OrderInv'
  BY <1>6, BeginStep
<1>7. ASSUME NEW m \in DOMAIN matches, NEW seat \in Seat, Win(m, seat) \/ Forfeit(m, seat) \/ Award(m, seat)
      PROVE  OrderInv'
  BY <1>7, FinishStep DEF Win, Forfeit, Award, Handler
<1>8. CASE Give
  BY <1>8, FinishStep DEF Give, Handler
<1>9. CASE Rests \/ Close
  BY <1>1, <1>9, SameMatches DEF Rests, Close, tournament, Handler, Nothing
<1>10. CASE OpenFirst
  BY <1>10, OpensStep DEF OpenFirst
<1>11. CASE OpenAnother
  BY <1>11, OpensStep DEF OpenAnother, OrderInv, Order, Opening
<1>12. CASE Turn
  BY <1>12, TurnStep
<1>13. CASE Cancel
  BY <1>1, <1>13, SameMatches DEF Cancel, Handler
<1>14. CASE Halt
  BY <1>14, HaltStep
<1>15. CASE Stop
  BY <1>1, <1>15, SameMatches DEF Stop, tournament, Nothing
<1>16. CASE UNCHANGED vars
  BY <1>1, <1>16, SameMatches DEF vars, tournament
<1> QED
  BY <1>2, <1>3, <1>4, <1>5, <1>6, <1>7, <1>8, <1>9, <1>10, <1>11, <1>12, <1>13, <1>14, <1>15, <1>16 DEF Next

\* A match of a later round is set once the round before it is over.
LEMMA OrderImplies == ASSUME OrderInv PROVE RoundsInOrder
<1> SUFFICES ASSUME NEW m \in DOMAIN matches, m[1] > 1, matches[m].status \in {"ready", "live", "done"},
                    NEW before \in Round(m[1] - 1)
             PROVE  Ended(before)
  BY DEF RoundsInOrder
<1>1. m[1] \in Nat /\ round \in Nat /\ before \in DOMAIN matches /\ before[1] = m[1] - 1
  BY InBracket DEF OrderInv, Known, Round
<1>2. ~Unset(m)
  BY DEF Unset
<1>3. m[1] <= round + 1
  BY <1>1, <1>2 DEF OrderInv, Order, Later
<1>4. CASE m[1] = round + 1
  BY <1>1, <1>2, <1>4 DEF OrderInv, Order, Ahead, RoundOver, Round
<1>5. CASE m[1] < round + 1
  BY <1>1, <1>5 DEF OrderInv, Order, Past
<1> QED
  BY <1>1, <1>3, <1>4, <1>5

\* A match of a round is ready, live or done only once every match of the round before
\* is over, whatever handler was cut short (tournamentAdvance opens the rounds).
THEOREM RoundsAlwaysInOrder == Spec => []RoundsInOrder
<1>1. Init => OrderInv
  BY InitWhole DEF WholeInv
<1>2. OrderInv /\ [Next]_vars => OrderInv'
  BY OrderStep
<1>3. OrderInv => RoundsInOrder
  BY OrderImplies
<1> QED
  BY <1>1, <1>2, <1>3, PTL DEF Spec

-----------------------------------------------------------------------------
\* Only a tournament under way has a handler to go on with, or a match to play.
LEMMA UnderWay ==
  ASSUME AtEnds, StatusKnown,
         doing.at \in {"advance", "give", "open", "turn"} \/ (Idle /\ \E m \in DOMAIN matches : Playing(m))
  PROVE  status = "running"
<1>1. ~(Idle /\ doing.at \in {"advance", "give", "open", "turn"})
  BY DEF Idle, Nothing
<1>2. \A m \in DOMAIN matches : Playing(m) => ~Ended(m)
  BY DEF Playing, Ended
<1>3. doing = [at |-> "halt"] => doing.at = "halt" /\ ~Idle
  BY DEF Idle, Nothing
<1> QED
  BY <1>1, <1>2, <1>3 DEF AtEnds, StatusKnown

\* Outside of a round being opened, a step that takes matches onward opens none.
LEMMA OnwardKeepsSet ==
  ASSUME SetInOrder, Onward, round' = round, DOMAIN matches' = DOMAIN matches,
         doing.at \notin {"open", "turn"}, doing'.at # "open"
  PROVE  SetInOrder'
<1>1. \A m \in DOMAIN matches : Unset(m) => Unset(m)'
  BY DEF Onward, Unset, Playing
<1> QED
  BY <1>1 DEF SetInOrder

\* A match of the next round is set: those before it are, those after are not.
LEMMA OpensKeepsSet ==
  ASSUME OrderInv, RoundOver(round), SetInOrder, NEW slot \in Nat, Opens(slot),
         \/ doing.at = "advance" /\ slot = 0
         \/ doing.at = "open" /\ slot = doing.slot
  PROVE  SetInOrder' /\ \A m \in DOMAIN matches : m = <<round + 1, slot>> => Unset(m)
<1>1. /\ DOMAIN matches' = DOMAIN matches
      /\ \A m \in DOMAIN matches : m # <<round + 1, slot>> => matches'[m] = matches[m]
  BY OpensStep
<1>2. round' = round /\ round \in Nat
  BY DEF Opens, tournament, OrderInv, Known
<1>3. doing' = [at |-> "open", slot |-> slot + 1] \/ doing' = [at |-> "turn"]
  BY DEF Opens
<1>4. \A m \in DOMAIN matches : m[1] = round + 1 => Unset(m) \/ m[2] < slot
  BY InBracket DEF SetInOrder, OrderInv, Known
<1>5. \A m \in DOMAIN matches : m = <<m[1], m[2]>> /\ m[2] \in Nat
  BY InBracket DEF OrderInv, Known
<1>6. \A m \in DOMAIN matches : m = <<round + 1, slot>> => Unset(m)
  BY <1>4
<1>7. \A m \in DOMAIN matches : m[1] = round + 1 => Unset(m)' \/ m[2] < slot + 1
  <2> SUFFICES ASSUME NEW m \in DOMAIN matches, m[1] = round + 1, m[2] >= slot + 1 PROVE Unset(m)'
    BY <1>5
  <2>1. m # <<round + 1, slot>>
    BY <1>5
  <2>2. Unset(m)
    BY <1>4, <1>5
  <2> QED
    BY <1>1, <2>1, <2>2 DEF Unset
<1>8. SetInOrder'
  BY <1>1, <1>2, <1>3, <1>7 DEF SetInOrder
<1> QED
  BY <1>6, <1>8

\* The matches of a tournament whose final is over are over.
LEMMA AllOver ==
  ASSUME OrderInv, RoundOver(round), Final PROVE \A m \in DOMAIN matches : Ended(m)
<1> SUFFICES ASSUME NEW m \in DOMAIN matches PROVE Ended(m)
  OBVIOUS
<1>1. m[1] \in Nat /\ m[1] <= rounds /\ rounds \in Nat /\ round \in Nat /\ round >= rounds
  BY InBracket DEF OrderInv, Known, Final
<1>2. m[1] < round \/ m[1] = round
  BY <1>1
<1> QED
  BY <1>2 DEF OrderInv, Order, Past, RoundOver, Round

\* Each step keeps the invariant; those of a handler cut short, its first part.
LEMMA WholeStep == ASSUME WholeInv, [Next]_vars PROVE WholeInv'
<1>1. OrderInv /\ OrderInv'
  BY OrderStep DEF WholeInv
<1>2. StatusKnown'
  BY DEF WholeInv, StatusKnown, Next, vars, tournament, Register, Unregister, StartWithout, Start, Begin,
         Finish, Win, Forfeit, Award, Withdraw, Give, Rests, Close, OpenFirst, OpenAnother, Opens, Turn,
         Cancel, Halt, Purge, Stop
<1> SUFFICES ASSUME Whole' PROVE AtEnds' /\ SetInOrder'
  BY <1>1, <1>2 DEF WholeInv
<1>3. Whole /\ stops' = stops /\ ~Stop
  <2>1. stops \in Nat /\ (stops' = stops \/ stops' = stops + 1)
    BY <1>1 DEF OrderInv, Known, Next, vars, Register, Unregister, StartWithout, Start, Begin, Win, Forfeit,
         Award, Withdraw, Give, Rests, Close, OpenFirst, OpenAnother, Opens, Turn, Cancel, Halt, Purge, Stop, Handler
  <2>2. stops = 0 /\ stops' = 0
    BY <2>1 DEF Whole
  <2> QED
    BY <2>2 DEF Whole, Stop
<1>4. AtEnds /\ SetInOrder /\ StatusKnown
  BY <1>3 DEF WholeInv
<1>5. Idle => doing.at = "nothing"
  BY DEF Idle, Nothing
<1>6. UNCHANGED matches => Onward /\ DOMAIN matches' = DOMAIN matches
                             /\ \A m \in DOMAIN matches : Ended(m) => Ended(m)'
  BY DEF Onward, Ended
<1>7. ASSUME NEW u \in Player, Register(u) \/ Unregister(u) PROVE AtEnds' /\ SetInOrder'
  <2>1. status = "open" /\ Idle /\ UNCHANGED <<status, round, matches, doing>>
    BY <1>7 DEF Register, Unregister, tournament
  <2>2. AtEnds'
    BY <1>4, <2>1 DEF AtEnds, Idle, Ended
  <2> QED
    BY <1>4, <1>5, <1>6, <2>1, <2>2, OnwardKeepsSet
<1>8. ASSUME NEW u \in Player, Withdraw(u) PROVE AtEnds' /\ SetInOrder'
  <2>1. status = "running" /\ Idle /\ UNCHANGED <<status, round, matches>> /\ doing'.at \in {"nothing", "give"}
    BY <1>8 DEF Withdraw, tournament, Nothing
  <2>2. AtEnds'
    BY <2>1 DEF AtEnds
  <2> QED
    BY <1>4, <1>5, <1>6, <2>1, <2>2, OnwardKeepsSet
<1>9. ASSUME NEW u \in Player, Purge(u) PROVE AtEnds' /\ SetInOrder'
  <2>1. Idle /\ UNCHANGED <<status, round, doing>>
    BY <1>9 DEF Purge
  <2>2. Onward /\ DOMAIN matches' = DOMAIN matches
          /\ \A m \in DOMAIN matches : matches'[m].status = matches[m].status
    BY <1>1, <1>9, PurgeStep
  <2>3. AtEnds'
    BY <1>4, <2>1, <2>2 DEF AtEnds, Idle, Ended
  <2> QED
    BY <1>4, <1>5, <2>1, <2>2, <2>3, OnwardKeepsSet
<1>10. CASE StartWithout
  <2>1. status = "open" /\ Idle /\ UNCHANGED <<round, matches, doing>> /\ status' = "cancelled"
    BY <1>10 DEF StartWithout
  <2>2. AtEnds'
    BY <1>4, <2>1 DEF AtEnds, Idle
  <2> QED
    BY <1>4, <1>5, <1>6, <2>1, <2>2, OnwardKeepsSet
<1>11. CASE Start
  <2>1. status' = "running" /\ doing'.at = "advance"
    BY <1>11 DEF Start
  <2>2. AtEnds'
    BY <2>1 DEF AtEnds
  <2> QED
    BY <1>1, <1>11, <2>1, <2>2, StartStep DEF SetInOrder
<1>12. ASSUME NEW m \in DOMAIN matches, Begin(m) PROVE AtEnds' /\ SetInOrder'
  <2>1. Idle /\ Playing(m) /\ UNCHANGED <<status, round, doing>>
    BY <1>12 DEF Begin, Playing, tournament
  <2>2. status' = "running"
    BY <1>4, <2>1, UnderWay
  <2>3. AtEnds'
    BY <2>2 DEF AtEnds
  <2> QED
    BY <1>1, <1>4, <1>5, <1>12, <2>1, <2>3, BeginStep, OnwardKeepsSet
<1>13. ASSUME NEW m \in DOMAIN matches, NEW seat \in Seat, Win(m, seat) \/ Forfeit(m, seat) \/ Award(m, seat)
       PROVE  AtEnds' /\ SetInOrder'
  <2>1. PICK s : Finish(m, s)
    BY <1>13 DEF Win, Forfeit, Award
  <2>2. Idle /\ Playing(m)
    BY <1>13 DEF Win, Forfeit, Award, Playing
  <2>3. UNCHANGED <<status, round>> /\ doing'.at = "advance"
    BY <2>1 DEF Finish, tournament
  <2>4. AtEnds'
    BY <1>4, <2>2, <2>3, UnderWay DEF AtEnds
  <2> QED
    BY <1>1, <1>3, <1>4, <1>5, <2>1, <2>2, <2>3, <2>4, FinishStep, OnwardKeepsSet
<1>14. CASE Give
  <2>1. PICK s : Finish(doing.match, s)
    BY <1>14 DEF Give
  <2>2. doing.at = "give" /\ UNCHANGED <<status, round>> /\ doing'.at = "advance"
    BY <1>14, <2>1 DEF Give, Finish, tournament
  <2>3. AtEnds'
    BY <1>4, <2>2, UnderWay DEF AtEnds
  <2> QED
    BY <1>1, <1>3, <1>4, <2>1, <2>2, <2>3, FinishStep, OnwardKeepsSet
<1>15. CASE Rests
  <2>1. doing.at = "advance" /\ UNCHANGED <<status, round, matches>> /\ doing'.at = "nothing"
    BY <1>15 DEF Rests, tournament, Nothing
  <2>2. AtEnds'
    BY <1>4, <2>1, UnderWay DEF AtEnds
  <2> QED
    BY <1>4, <1>6, <2>1, <2>2, OnwardKeepsSet
<1>16. CASE Close
  <2>1. /\ doing.at = "advance" /\ UNCHANGED <<round, matches>> /\ doing' = Nothing /\ status' = "finished"
        /\ RoundOver(round) /\ Final
    BY <1>16 DEF Close
  <2>2. \A m \in DOMAIN matches : Ended(m)'
    BY <1>1, <1>6, <2>1, AllOver
  <2>3. AtEnds'
    BY <1>6, <2>1, <2>2 DEF AtEnds, Idle
  <2> QED
    BY <1>4, <1>6, <2>1, <2>3, OnwardKeepsSet DEF Nothing
<1>17. CASE OpenFirst
  <2>1. status' = "running"
    BY <1>17 DEF OpenFirst, Opens, tournament
  <2>2. SetInOrder'
    BY <1>1, <1>4, <1>17, OpensKeepsSet DEF OpenFirst
  <2> QED
    BY <2>1, <2>2 DEF AtEnds
<1>18. CASE OpenAnother
  <2>1. doing.at = "open" /\ Opens(doing.slot) /\ status' = status
    BY <1>18 DEF OpenAnother, Opens, tournament
  <2>2. RoundOver(round) /\ doing.slot \in Nat
    BY <1>1, <1>4, <2>1 DEF OrderInv, Order, Opening, SetInOrder
  <2>3. SetInOrder'
    BY <1>1, <1>4, <2>1, <2>2, OpensKeepsSet
  <2> QED
    BY <1>4, <2>1, <2>3, UnderWay DEF AtEnds
<1>19. CASE Turn
  <2>1. doing.at = "turn" /\ status' = status /\ round' = round + 1 /\ matches' = matches /\ doing'.at = "advance"
    BY <1>19 DEF Turn
  <2>2. \A m \in DOMAIN matches : m[1] = round + 2 => Unset(m)
    BY <1>1 DEF OrderInv, Known, Order, Later
  <2>3. SetInOrder'
    BY <1>1, <2>1, <2>2 DEF SetInOrder, OrderInv, Known, Unset
  <2> QED
    BY <1>4, <2>1, <2>3, UnderWay DEF AtEnds
<1>20. CASE Cancel
  <2>1. Idle /\ UNCHANGED <<round, matches>> /\ status' = "cancelled" /\ doing' = [at |-> "halt"]
    BY <1>20 DEF Cancel
  <2>2. AtEnds'
    BY <2>1 DEF AtEnds
  <2> QED
    BY <1>4, <1>5, <1>6, <2>1, <2>2, OnwardKeepsSet
<1>21. CASE Halt
  <2>1. doing.at = "halt" /\ UNCHANGED <<status, round>> /\ doing' = Nothing
    BY <1>21 DEF Halt, tournament
  <2>2. Onward /\ DOMAIN matches' = DOMAIN matches /\ \A m \in DOMAIN matches : Ended(m)'
    BY <1>1, <1>21, HaltStep
  <2>3. status # "open"
    BY <1>4, <1>5, <2>1 DEF AtEnds
  <2>4. AtEnds'
    BY <2>1, <2>2, <2>3 DEF AtEnds, Idle
  <2> QED
    BY <1>4, <2>1, <2>2, <2>4, OnwardKeepsSet DEF Nothing
<1>22. CASE UNCHANGED vars
  <2>1. UNCHANGED <<status, round, matches, doing>>
    BY <1>22 DEF vars, tournament
  <2>2. AtEnds'
    BY <1>4, <2>1 DEF AtEnds, Idle, Ended
  <2> QED
    BY <1>4, <2>1, <2>2 DEF SetInOrder, Unset
<1> QED
  BY <1>3, <1>7, <1>8, <1>9, <1>10, <1>11, <1>12, <1>13, <1>14, <1>15, <1>16, <1>17, <1>18, <1>19, <1>20,
     <1>21, <1>22 DEF Next

\* A tournament finished or cancelled has no match to play once its handlers are done
\* (tournamentAdvance, tournamentCancel).
THEOREM OverLeavesNothing == Spec => []NothingLeft
<1>1. Init => WholeInv
  BY InitWhole
<1>2. WholeInv /\ [Next]_vars => WholeInv'
  BY WholeStep
<1>3. WholeInv => NothingLeft
  <2>1. doing = [at |-> "halt"] => ~Idle
    BY DEF Idle, Nothing
  <2> QED
    BY <2>1 DEF WholeInv, AtEnds, NothingLeft
<1> QED
  BY <1>1, <1>2, <1>3, PTL DEF Spec

-----------------------------------------------------------------------------
\* A match that is done stays as it is, but for an account deleted.
Stays == \A m \in DOMAIN matches : matches[m].status = "done" =>
           matches'[m].status = "done" /\ matches'[m].winner \in {matches[m].winner, Nobody}

\* Each step keeps the matches that are done.
LEMMA StaysStep == ASSUME WholeInv, Whole, [Next]_vars PROVE Stays
<1>1. OrderInv /\ AtEnds /\ SetInOrder
  BY DEF WholeInv
<1>2. UNCHANGED matches => Stays
  BY DEF Stays
<1>3. (\A m \in DOMAIN matches : Ended(m) => matches'[m] = matches[m]) => Stays
  BY DEF Stays, Ended
<1>4. ASSUME NEW u \in Player, Register(u) \/ Unregister(u) \/ Withdraw(u) PROVE Stays
  BY <1>2, <1>4 DEF Register, Unregister, Withdraw
<1>5. ASSUME NEW u \in Player, Purge(u) PROVE Stays
  BY <1>1, <1>5, PurgeStep DEF Stays
<1>6. CASE StartWithout \/ Rests \/ Close \/ Turn \/ Cancel \/ Stop
  BY <1>2, <1>6 DEF StartWithout, Rests, Close, Turn, Cancel, Stop
<1>7. CASE Start
  BY <1>1, <1>7 DEF Start, AtEnds, Stays
<1>8. ASSUME NEW m \in DOMAIN matches, Begin(m) PROVE Stays
  BY <1>1, <1>3, <1>8, BeginStep
<1>9. CASE (\E m \in DOMAIN matches, seat \in Seat : Win(m, seat) \/ Forfeit(m, seat) \/ Award(m, seat)) \/ Give
  <2>1. PICK m, s : Finish(m, s) /\ stops' = stops
    BY <1>9 DEF Win, Forfeit, Award, Give, Handler
  <2> QED
    BY <1>1, <1>3, <2>1, FinishStep
<1>10. CASE OpenFirst \/ OpenAnother
  <2>1. PICK slot \in Nat : /\ Opens(slot) /\ RoundOver(round)
                            /\ \/ doing.at = "advance" /\ slot = 0
                               \/ doing.at = "open" /\ slot = doing.slot
    <3>1. CASE OpenFirst
      BY <3>1 DEF OpenFirst
    <3>2. CASE OpenAnother
      BY <1>1, <3>2 DEF OpenAnother, SetInOrder, OrderInv, Order, Opening
    <3> QED
      BY <1>10, <3>1, <3>2
  <2>2. \A m \in DOMAIN matches : m = <<round + 1, slot>> => Unset(m)
    BY <1>1, <2>1, OpensKeepsSet
  <2>3. \A m \in DOMAIN matches : m # <<round + 1, slot>> => matches'[m] = matches[m]
    BY <1>1, <2>1, OpensStep
  <2> QED
    BY <2>2, <2>3 DEF Stays, Unset
<1>11. CASE Halt
  <2>1. Onward /\ \A m \in DOMAIN matches : matches'[m].winner = matches[m].winner
    BY <1>1, <1>11, HaltStep
  <2> QED
    BY <2>1 DEF Stays, Onward, Playing, Ended
<1>12. CASE UNCHANGED vars
  BY <1>2, <1>12 DEF vars
<1> QED
  BY <1>4, <1>5, <1>6, <1>7, <1>8, <1>9, <1>10, <1>11, <1>12 DEF Next

\* Each step leaves a tournament that is over as it is, but for an account deleted.
LEMMA OverStep ==
  ASSUME WholeInv, Whole, [Next]_vars, status \in {"finished", "cancelled"}
  PROVE  status' = status /\ champion' \in {champion, Nobody}
<1>1. AtEnds /\ StatusKnown
  BY DEF WholeInv
<1>2. ~(status = "open" \/ status = "running")
  OBVIOUS
<1>3. doing.at # "advance"
  BY <1>1, <1>2, UnderWay
<1>4. CASE UNCHANGED tournament
  BY <1>4 DEF tournament
<1>5. ASSUME NEW u \in Player, Purge(u) PROVE status' = status /\ champion' \in {champion, Nobody}
  BY <1>5 DEF Purge
<1>6. CASE Turn \/ UNCHANGED vars
  BY <1>6 DEF Turn, vars, tournament
<1>7. (\E u \in Player : Purge(u)) \/ Turn \/ UNCHANGED vars \/ UNCHANGED tournament
  BY <1>2, <1>3 DEF Next, vars, Register, Unregister, StartWithout, Start, Begin, Finish, Win, Forfeit, Award,
     Withdraw, Give, Rests, Close, OpenFirst, OpenAnother, Opens, Cancel, Halt, Stop
<1> QED
  BY <1>4, <1>5, <1>6, <1>7

\* A match won stays won by the same player, and a tournament over keeps its end and
\* its champion: no match is finished twice, no round opened again
\* (tournamentFinish, tournamentAdvance).
THEOREM ResultsAlwaysStay == Spec => ResultsStay
<1>1. Init => WholeInv
  BY InitWhole
<1>2. WholeInv /\ [Next]_vars => WholeInv'
  BY WholeStep
<1>3. WholeInv /\ [Next]_vars =>
        [Whole =>
           /\ \A m \in DOMAIN matches : matches[m].status = "done" =>
                matches'[m].status = "done" /\ matches'[m].winner \in {matches[m].winner, Nobody}
           /\ status \in {"finished", "cancelled"} =>
                status' = status /\ champion' \in {champion, Nobody}]_vars
  BY StaysStep, OverStep DEF Stays
<1> QED
  BY <1>1, <1>2, <1>3, PTL DEF Spec, ResultsStay

-----------------------------------------------------------------------------
(* The sizes of a bracket.                                                 *)

\* Induction, from the cardinality of finite sets.
LEMMA Induction ==
  ASSUME NEW P \in SUBSET Nat, 0 \in P, \A n \in P : n + 1 \in P
  PROVE  P = Nat
<1> SUFFICES ASSUME NEW m \in Nat, m \notin P PROVE FALSE
  OBVIOUS
<1> DEFINE N == (0..m) \ P
           before == [n \in N |-> n - 1]
<1>1. \A n \in N : n - 1 \in N \ {m} /\ n \in Nat
  OBVIOUS
<1>2. before \in Injection(N, N \ {m})
  <2>1. before \in [N -> N \ {m}]
    BY <1>1
  <2>2. \A n, k \in DOMAIN before : before[n] = before[k] => n = k
    BY <1>1
  <2> QED
    BY <2>1, <2>2 DEF Injection, IsInjective
<1>3. IsFiniteSet(N)
  <2>1. IsFiniteSet(0..m)
    BY FS_Interval
  <2> QED
    BY <2>1, FS_Subset
<1>4. m \in N
  OBVIOUS
<1>5. Cardinality(N \ {m}) = Cardinality(N) - 1 /\ IsFiniteSet(N \ {m}) /\ Cardinality(N) \in Nat
  BY <1>3, <1>4, FS_RemoveElement, FS_CardinalityType
<1>6. Cardinality(N) <= Cardinality(N \ {m})
  BY <1>2, <1>5, FS_Injection
<1> QED
  BY <1>5, <1>6

\* A set of numbers has a least one.
LEMMA Least ==
  ASSUME NEW S \in SUBSET Nat, NEW m \in S
  PROVE  \E k \in S : \A n \in S : k <= n
<1> SUFFICES ASSUME \A k \in S : \E n \in S : n < k PROVE FALSE
  OBVIOUS
<1> DEFINE P == {k \in Nat : \A n \in S : k <= n}
<1>1. 0 \in P /\ \A k \in P : k + 1 \in P
  OBVIOUS
<1>2. P = Nat
  BY <1>1, Induction
<1> QED
  BY <1>2

\* A size doubled up to k times.
Sizes(f, k) == f = [i \in 0..k |-> IF i = 0 THEN 1 ELSE 2 * f[i - 1]]

\* There is a size doubled up to any number of times.
LEMMA SizesExist == ASSUME NEW k \in Nat PROVE \E f : Sizes(f, k)
<1> DEFINE P == {n \in Nat : \E f : Sizes(f, n)}
<1>1. 0 \in P
  <2> DEFINE f == [i \in 0..0 |-> 1]
  <2>1. Sizes(f, 0)
    BY DEF Sizes
  <2> QED
    BY <2>1
<1>2. ASSUME NEW n \in P PROVE n + 1 \in P
  <2>1. n \in Nat /\ n + 1 \in Nat
    OBVIOUS
  <2>2. PICK f : f = [i \in 0..n |-> IF i = 0 THEN 1 ELSE 2 * f[i - 1]]
    BY DEF Sizes
  <2> DEFINE g == [i \in 0..(n + 1) |-> IF i = n + 1 THEN 2 * f[n] ELSE f[i]]
  <2>3. ASSUME NEW i \in 0..(n + 1) PROVE g[i] = IF i = 0 THEN 1 ELSE 2 * g[i - 1]
    <3>1. CASE i = n + 1
      BY <2>1, <3>1
    <3>2. CASE i # n + 1
      BY <2>1, <2>2, <3>2
    <3> QED
      BY <3>1, <3>2
  <2>4. Sizes(g, n + 1)
    BY <2>3 DEF Sizes
  <2> QED
    BY <2>1, <2>4
<1> QED
  BY <1>1, <1>2, Induction

\* Two of them agree as far as both go.
LEMMA SizesAgree ==
  ASSUME NEW k \in Nat, NEW n \in Nat, k <= n, NEW f, NEW g, Sizes(f, k), Sizes(g, n)
  PROVE  f[k] = g[k] /\ f[k] \in Nat /\ f[k] >= 1
<1> DEFINE P == {i \in Nat : i <= k => f[i] = g[i] /\ f[i] \in Nat /\ f[i] >= 1}
<1>1. \A i \in 0..k : f[i] = IF i = 0 THEN 1 ELSE 2 * f[i - 1]
  BY DEF Sizes
<1>2. \A i \in 0..n : g[i] = IF i = 0 THEN 1 ELSE 2 * g[i - 1]
  BY DEF Sizes
<1>3. 0 \in P
  BY <1>1, <1>2
<1>4. ASSUME NEW i \in P PROVE i + 1 \in P
  <2> SUFFICES ASSUME i + 1 <= k PROVE f[i + 1] = g[i + 1] /\ f[i + 1] \in Nat /\ f[i + 1] >= 1
    OBVIOUS
  <2>1. i \in Nat /\ i + 1 \in 0..k /\ i + 1 \in 0..n /\ i + 1 # 0 /\ (i + 1) - 1 = i
    OBVIOUS
  <2>2. f[i + 1] = 2 * f[i] /\ g[i + 1] = 2 * g[i]
    BY <1>1, <1>2, <2>1
  <2> QED
    BY <2>1, <2>2
<1>5. P \in SUBSET Nat
  OBVIOUS
<1>6. P = Nat
  <2> HIDE DEF P
  <2> QED
    BY <1>3, <1>4, <1>5, Induction
<1> QED
  BY <1>6

\* Doubled does what it says.
LEMMA DoubledIs ==
  /\ Doubled(0) = 1
  /\ \A k \in Nat : Doubled(k) \in Nat /\ Doubled(k) >= 1 /\ Doubled(k + 1) = 2 * Doubled(k)
<1> DEFINE f(k) == CHOOSE g : Sizes(g, k)
<1>1. ASSUME NEW k \in Nat PROVE Sizes(f(k), k) /\ Doubled(k) = f(k)[k]
  <2>1. Sizes(f(k), k)
    BY SizesExist
  <2>2. Doubled(k) = f(k)[k]
    BY DEF Doubled, Sizes
  <2> QED
    BY <2>1, <2>2
<1> HIDE DEF f
<1>2. Doubled(0) = 1
  BY <1>1 DEF Sizes
<1>3. ASSUME NEW k \in Nat PROVE Doubled(k) \in Nat /\ Doubled(k) >= 1 /\ Doubled(k + 1) = 2 * Doubled(k)
  <2>1. k + 1 \in Nat /\ k <= k + 1
    OBVIOUS
  <2>2. f(k)[k] = f(k + 1)[k] /\ f(k)[k] \in Nat /\ f(k)[k] >= 1
    BY <1>1, <2>1, SizesAgree
  <2>3. f(k + 1)[k + 1] = 2 * f(k + 1)[k]
    BY <1>1, <2>1 DEF Sizes
  <2> QED
    BY <1>1, <2>1, <2>2, <2>3
<1> QED
  BY <1>2, <1>3

\* Sizes grow, faster than the number of times they are doubled.
LEMMA DoubledGrows ==
  /\ \A a, b \in Nat : a <= b => Doubled(a) <= Doubled(b)
  /\ \A n \in Nat : n < Doubled(n)
<1>1. ASSUME NEW a \in Nat, NEW b \in Nat, a <= b PROVE Doubled(a) <= Doubled(b)
  <2> DEFINE P == {d \in Nat : Doubled(a) <= Doubled(a + d)}
  <2>1. 0 \in P
    BY DoubledIs
  <2>2. ASSUME NEW d \in P PROVE d + 1 \in P
    <3>1. a + d \in Nat /\ a + (d + 1) = (a + d) + 1
      OBVIOUS
    <3>2. Doubled(a + (d + 1)) = 2 * Doubled(a + d) /\ Doubled(a + d) \in Nat /\ Doubled(a) \in Nat
      BY <3>1, DoubledIs
    <3> QED
      BY <3>2
  <2>3. b - a \in Nat
    BY <1>1
  <2>4. P \in SUBSET Nat
    OBVIOUS
  <2>5. b - a \in P
    <3> HIDE DEF P
    <3> QED
      BY <2>1, <2>2, <2>3, <2>4, Induction
  <2>6. a + (b - a) = b
    OBVIOUS
  <2> QED
    BY <2>5, <2>6
<1>2. ASSUME NEW n \in Nat PROVE n < Doubled(n)
  <2> DEFINE P == {k \in Nat : k < Doubled(k)}
  <2>1. 0 \in P
    BY DoubledIs
  <2>2. ASSUME NEW k \in P PROVE k + 1 \in P
    BY DoubledIs
  <2> QED
    BY <2>1, <2>2, Induction
<1> QED
  BY <1>1, <1>2

\* The rounds of n players: their bracket has room for them, and no smaller one has.
LEMMA RoundsAre ==
  ASSUME NEW n \in Nat
  PROVE  /\ RoundsOf(n) \in Nat /\ n <= Doubled(RoundsOf(n))
         /\ n >= 2 => RoundsOf(n) >= 1 /\ Doubled(RoundsOf(n) - 1) < n
<1> DEFINE T == {k \in Nat : n <= Doubled(k)}
<1>1. n \in T
  BY DoubledIs, DoubledGrows
<1>2. PICK all \in T : \A k \in T : all <= k
  BY <1>1, Least
<1>3. all \in Nat /\ n <= Doubled(all)
  BY <1>2
<1>4. ASSUME NEW k \in Nat PROVE Doubled(k) < n <=> k < all
  <2>1. Doubled(k) \in Nat /\ Doubled(all) \in Nat
    BY <1>3, DoubledIs
  <2>2. all <= k => Doubled(all) <= Doubled(k)
    BY <1>3, DoubledGrows
  <2>3. k < all => k \notin T
    BY <1>2, <1>3
  <2> QED
    BY <1>3, <2>1, <2>2, <2>3
<1>5. {k \in 0..n : Doubled(k) < n} = 0..(all - 1)
  <2>1. ASSUME NEW k \in Nat, Doubled(k) < n PROVE k \in 0..n
    BY <2>1, DoubledIs, DoubledGrows
  <2> QED
    BY <1>3, <1>4, <2>1
<1>6. Cardinality(0..(all - 1)) = all
  BY <1>3, FS_Interval
<1>7. RoundsOf(n) = all
  BY <1>5, <1>6 DEF RoundsOf
<1>8. n >= 2 => all >= 1 /\ Doubled(all - 1) < n
  <2> SUFFICES ASSUME n >= 2 PROVE all >= 1 /\ Doubled(all - 1) < n
    OBVIOUS
  <2>1. 0 < all
    BY <1>4, DoubledIs
  <2> QED
    BY <1>3, <1>4, <2>1
<1> QED
  BY <1>3, <1>7, <1>8

\* A match is in the bracket when its slot is in its round's.
LEMMA Places ==
  ASSUME NEW all \in Nat
  PROVE  /\ \A m \in Bracket(all) :
              m = <<m[1], m[2]>> /\ m[1] \in 1..all /\ m[2] \in Nat /\ m[2] < Doubled(all - m[1])
         /\ \A r \in 1..all : \A s \in Nat : s < Doubled(all - r) => <<r, s>> \in Bracket(all)
<1>1. \A r \in 1..all : Doubled(all - r) \in Nat
  BY DoubledIs
<1>2. ASSUME NEW m \in Bracket(all)
      PROVE  m = <<m[1], m[2]>> /\ m[1] \in 1..all /\ m[2] \in Nat /\ m[2] < Doubled(all - m[1])
  <2>1. PICK r \in 1..all : \E s \in SlotsOf(r, all) : m = <<r, s>>
    BY DEF Bracket
  <2> QED
    BY <1>1, <2>1 DEF SlotsOf
<1>3. ASSUME NEW r \in 1..all, NEW s \in Nat, s < Doubled(all - r) PROVE <<r, s>> \in Bracket(all)
  <2>1. s \in SlotsOf(r, all)
    BY <1>1, <1>3 DEF SlotsOf
  <2> QED
    BY <2>1 DEF Bracket
<1> QED
  BY <1>2, <1>3

\* The matches that a match's players come from are in the bracket, and feed no other.
LEMMA Feeders ==
  ASSUME NEW all \in Nat, NEW m \in Bracket(all), m[1] > 1
  PROVE  /\ \A i \in Seat : Feeder(m, i) \in Bracket(all) /\ Feeder(m, i)[1] = m[1] - 1
         /\ \A k \in Bracket(all) : \A i, j \in Seat :
              k[1] = m[1] /\ Feeder(m, i) = Feeder(k, j) => k = m /\ i = j
<1>1. m[1] \in 1..all /\ m[2] \in Nat /\ m[2] < Doubled(all - m[1]) /\ all - m[1] \in Nat
  BY Places
<1>2. Doubled(all - (m[1] - 1)) = 2 * Doubled(all - m[1]) /\ Doubled(all - m[1]) \in Nat
  <2>1. all - (m[1] - 1) = (all - m[1]) + 1
    BY <1>1
  <2> QED
    BY <1>1, <2>1, DoubledIs
<1>3. ASSUME NEW i \in Seat PROVE Feeder(m, i) \in Bracket(all) /\ Feeder(m, i)[1] = m[1] - 1
  <2>1. i \in Nat /\ i <= 1
    BY DEF Seat
  <2>2. 2 * m[2] + i \in Nat /\ 2 * m[2] + i < Doubled(all - (m[1] - 1)) /\ m[1] - 1 \in 1..all
    BY <1>1, <1>2, <2>1
  <2> QED
    BY <2>2, Places DEF Feeder
<1>4. ASSUME NEW k \in Bracket(all), NEW i \in Seat, NEW j \in Seat, k[1] = m[1], Feeder(m, i) = Feeder(k, j)
      PROVE  k = m /\ i = j
  <2>1. m = <<m[1], m[2]>> /\ k = <<k[1], k[2]>> /\ k[2] \in Nat
    BY Places
  <2>2. 2 * m[2] + i = 2 * k[2] + j
    BY <1>4 DEF Feeder
  <2>3. i \in {0, 1} /\ j \in {0, 1}
    BY DEF Seat
  <2>4. m[2] = k[2] /\ i = j
    BY <1>1, <2>1, <2>2, <2>3
  <2> QED
    BY <1>4, <2>1, <2>4
<1> QED
  BY <1>3, <1>4

\* A match that is not the final feeds one.
LEMMA Feeds ==
  ASSUME NEW all \in Nat, NEW m \in Bracket(all), m[1] < all
  PROVE  \E k \in Bracket(all) : \E i \in Seat : k[1] = m[1] + 1 /\ Feeder(k, i) = m
<1>1. m = <<m[1], m[2]>> /\ m[1] \in 1..all /\ m[2] \in Nat /\ m[2] < Doubled(all - m[1])
  BY Places
<1>2. PICK s \in Nat, i \in Seat : m[2] = 2 * s + i
  <2>1. m[2] = 2 * (m[2] \div 2) + (m[2] % 2) /\ m[2] \div 2 \in Nat /\ m[2] % 2 \in 0..1
    BY <1>1
  <2> QED
    BY <2>1 DEF Seat
<1>3. Doubled(all - m[1]) = 2 * Doubled(all - (m[1] + 1)) /\ Doubled(all - (m[1] + 1)) \in Nat
  <2>1. all - (m[1] + 1) \in Nat /\ all - m[1] = (all - (m[1] + 1)) + 1
    BY <1>1
  <2> QED
    BY <2>1, DoubledIs
<1>4. i \in {0, 1}
  BY DEF Seat
<1>5. s < Doubled(all - (m[1] + 1)) /\ m[1] + 1 \in 1..all
  BY <1>1, <1>2, <1>3, <1>4
<1> DEFINE k == <<m[1] + 1, s>>
<1>6. k \in Bracket(all)
  BY <1>5, Places
<1>7. k[1] = m[1] + 1 /\ Feeder(k, i) = m
  BY <1>1, <1>2 DEF Feeder
<1> QED
  BY <1>6, <1>7

\* Each round has a first match, the last one no other.
LEMMA Finals ==
  ASSUME NEW all \in Nat
  PROVE  /\ \A r \in 1..all : <<r, 0>> \in Bracket(all)
         /\ \A m \in Bracket(all) : m[1] = all => m = <<all, 0>>
         /\ \A m \in Bracket(all) : m[2] # 0 => <<m[1], m[2] - 1>> \in Bracket(all)
<1>1. \A r \in 1..all : all - r \in Nat
  OBVIOUS
<1>2. \A r \in 1..all : 0 < Doubled(all - r)
  BY <1>1, DoubledIs
<1>3. \A r \in 1..all : <<r, 0>> \in Bracket(all)
  BY <1>2, Places
<1>4. ASSUME NEW m \in Bracket(all), m[1] = all PROVE m = <<all, 0>>
  <2>1. all - m[1] = 0 /\ m[2] \in Nat /\ m = <<m[1], m[2]>>
    BY <1>4, Places
  <2>2. m[2] < 1
    BY <2>1, Places, DoubledIs
  <2> QED
    BY <1>4, <2>1, <2>2
<1>5. ASSUME NEW m \in Bracket(all), m[2] # 0 PROVE <<m[1], m[2] - 1>> \in Bracket(all)
  <2>1. m[1] \in 1..all /\ m[2] \in Nat /\ m[2] < Doubled(all - m[1]) /\ Doubled(all - m[1]) \in Nat
    BY <1>1, Places, DoubledIs
  <2>2. m[2] - 1 \in Nat /\ m[2] - 1 < Doubled(all - m[1])
    BY <1>5, <2>1
  <2> QED
    BY <2>1, <2>2, Places
<1> QED
  BY <1>3, <1>4, <1>5
-----------------------------------------------------------------------------
(* Who meets whom, whatever is cut short.                                  *)

\* A match that is set: its players are known, to play or played.
Set(m) == matches[m].status \in {"ready", "live", "done"}
Plays(u, m) == \E i \in Seat : matches[m].player[i] = u

\* TypeOK needs it: what the status, and what is left of a handler, say of the bracket.
Under ==
  /\ status = "open" => rounds = 0 /\ gone = {}
  /\ status = "running" => round >= 1
  /\ doing.at \in {"open", "turn"} => status = "running" /\ round < rounds
  /\ doing.at = "open" => <<round + 1, doing.slot>> \in DOMAIN matches
  /\ doing.at = "give" => doing.match \in DOMAIN matches /\ Plays(doing.player, doing.match)
  /\ doing.at = "halt" => status = "cancelled"

\* A match is won by one of its players, who are entrants; who plays a match won those
\* before; nobody plays twice in a round.
Won ==
  \A m \in DOMAIN matches : matches[m].winner # Nobody =>
    matches[m].status = "done" /\ Plays(matches[m].winner, m)
Entered ==
  \A m \in DOMAIN matches : \A i \in Seat : matches[m].player[i] \in entrants \cup {Nobody}
OnceEach ==
  \A m, k \in DOMAIN matches : \A i, j \in Seat :
    /\ m[1] = k[1] /\ Set(m) /\ Set(k)
    /\ matches[m].player[i] = matches[k].player[j] /\ matches[m].player[i] # Nobody
    => m = k /\ i = j
Unbeaten ==
  \A m, k \in DOMAIN matches : \A u \in Player :
    Set(m) /\ Plays(u, m) /\ k[1] < m[1] /\ Set(k) /\ Plays(u, k) => matches[k].winner = u

Typed == TypeOK /\ Under
Meeting == WinnersMeet /\ Won /\ Entered /\ OnceEach /\ Unbeaten
BracketInv == OrderInv /\ Typed /\ Meeting

\* What a match becomes is of its type.
LEMMA MatchIs ==
  ASSUME NEW p \in [Seat -> Anyone], NEW o, o.status \in MatchStatus, o.winner \in Anyone
  PROVE  /\ MatchOf(p, o) \in Match
         /\ MatchOf(p, o).player = p /\ MatchOf(p, o).status = o.status /\ MatchOf(p, o).winner = o.winner
BY DEF MatchOf, Match, MatchStatus

\* The parts of a match are of their types.
LEMMA MatchParts ==
  ASSUME NEW m \in Match
  PROVE  m.player \in [Seat -> Anyone] /\ m.status \in MatchStatus /\ m.winner \in Anyone
BY DEF Match, MatchStatus

\* A match of two seats is won by one of them, if the other is empty.
LEMMA OutcomeIs ==
  ASSUME NEW p \in [Seat -> Anyone], NEW empty \in {"waiting", "cancelled"}
  PROVE  LET o == Outcome(p, empty)
         IN  /\ o.status \in {"ready", "done", empty} /\ o.winner \in Anyone
             /\ o.winner # Nobody => o.status = "done" /\ \E i \in Seat : p[i] = o.winner
             /\ o.status = "ready" => \A i \in Seat : p[i] # Nobody
             /\ o.status = empty => \A i \in Seat : p[i] = Nobody
<1>1. 0 \in Seat /\ 1 \in Seat /\ \A i \in Seat : i = 0 \/ i = 1
  BY DEF Seat
<1>2. p[0] \in Anyone /\ p[1] \in Anyone
  BY <1>1
<1> QED
  BY <1>1, <1>2 DEF Outcome, Anyone

\* Nor does a player who gave up win a match of the next round.
LEMMA OpenedIs ==
  ASSUME NEW p \in [Seat -> Anyone], Nobody \notin gone
  PROVE  LET o == Opened(p)
         IN  /\ o.status \in {"ready", "done", "cancelled"} /\ o.winner \in Anyone
             /\ o.winner # Nobody => o.status = "done" /\ \E i \in Seat : p[i] = o.winner
             /\ o.status = "ready" => \A i \in Seat : p[i] # Nobody /\ p[i] \notin gone
             /\ o.status = "cancelled" => \A i \in Seat : p[i] \in gone \cup {Nobody}
             /\ o.winner \notin gone
<1>1. 0 \in Seat /\ 1 \in Seat /\ \A i \in Seat : i = 0 \/ i = 1
  BY DEF Seat
<1>2. p[0] \in Anyone /\ p[1] \in Anyone
  BY <1>1
<1>3. Other(0) = 1 /\ Other(1) = 0
  BY DEF Other
<1>4. CASE p[1] \in gone /\ p[0] \notin gone /\ p[0] # Nobody
  <2>1. Opened(p) = [status |-> "done", winner |-> p[0]]
    BY <1>3, <1>4 DEF Opened
  <2> QED
    BY <1>1, <1>2, <1>4, <2>1
<1>5. CASE p[0] \in gone /\ p[1] \notin gone /\ p[1] # Nobody
  <2>1. Opened(p) = [status |-> "done", winner |-> p[1]]
    BY <1>3, <1>5 DEF Opened
  <2> QED
    BY <1>1, <1>2, <1>5, <2>1
<1>6. CASE /\ ~(p[1] \in gone /\ p[0] \notin gone /\ p[0] # Nobody)
           /\ ~(p[0] \in gone /\ p[1] \notin gone /\ p[1] # Nobody)
           /\ p[0] \in gone \/ p[1] \in gone
  <2>1. Opened(p) = [status |-> "cancelled", winner |-> Nobody]
    BY <1>3, <1>6 DEF Opened
  <2> QED
    BY <1>1, <1>2, <1>6, <2>1 DEF Anyone
<1>7. CASE p[0] \notin gone /\ p[1] \notin gone
  <2>1. Opened(p) = Outcome(p, "cancelled")
    BY <1>3, <1>7 DEF Opened
  <2>2. \A i \in Seat : p[i] \notin gone
    BY <1>1, <1>7
  <2> QED
    BY <2>1, <2>2, OutcomeIs
<1> QED
  BY <1>4, <1>5, <1>6, <1>7

-----------------------------------------------------------------------------
(* What the steps do to the bracket.                                       *)

\* Matches are begun or finished, and no other is touched.
Advances ==
  /\ matches' \in [DOMAIN matches -> Match]
  /\ \A k \in DOMAIN matches :
       \/ matches'[k] = matches[k]
       \/ /\ Playing(k) /\ matches'[k].player = matches[k].player
          /\ \/ matches'[k].status = "live" /\ matches'[k].winner = matches[k].winner
             \/ matches'[k].status = "done" /\ \E i \in Seat : matches'[k].winner = matches[k].player[i]

\* A deleted account leaves its seats.
Left(u, p) == IF p = u THEN Nobody ELSE p
Empties(u) ==
  /\ matches' \in [DOMAIN matches -> Match]
  /\ \A k \in DOMAIN matches :
       /\ matches'[k].status = matches[k].status
       /\ \A i \in Seat : matches'[k].player[i] = Left(u, matches[k].player[i])
       /\ matches'[k].winner = Left(u, matches[k].winner)

\* The matches that are not over are cancelled.
Halts ==
  /\ matches' \in [DOMAIN matches -> Match]
  /\ \A k \in DOMAIN matches :
       /\ matches'[k].status = Halted(k)
       /\ matches'[k].player = matches[k].player /\ matches'[k].winner = matches[k].winner

\* A match is set by those who won the round before.
Fills(m) ==
  /\ matches' \in [DOMAIN matches -> Match] /\ m \in DOMAIN matches
  /\ \A k \in DOMAIN matches : k # m => matches'[k] = matches[k]
  /\ \A i \in Seat : matches'[m].player[i] = matches[Feeder(m, i)].winner
  /\ matches'[m].status = Opened(matches'[m].player).status
  /\ matches'[m].winner = Opened(matches'[m].player).winner

\* What the types say, part by part.
LEMMA TypeParts ==
  ASSUME TypeOK
  PROVE  /\ round \in Nat /\ rounds \in Nat /\ round <= rounds /\ stops \in Nat /\ purges \in Nat
         /\ matches \in [Bracket(rounds) -> Match] /\ DOMAIN matches = Bracket(rounds)
         /\ \A m \in DOMAIN matches :
              /\ matches[m] \in Match /\ matches[m].player \in [Seat -> Anyone]
              /\ matches[m].status \in MatchStatus /\ matches[m].winner \in Anyone
         /\ entrants \subseteq Player /\ gone \subseteq Player /\ Nobody \notin gone /\ Nobody \notin Player
<1>1. \A m \in DOMAIN matches : matches[m] \in Match
  BY DEF TypeOK
<1> QED
  BY <1>1, MatchParts, TournamentAssumption DEF TypeOK

\* Steps that leave the matches, or begin or finish one.
LEMMA StaysAdvances == ASSUME TypeOK, UNCHANGED matches PROVE Advances
BY DEF TypeOK, Advances

\* A match that becomes live keeps its players.
LEMMA BeginAdvances == ASSUME TypeOK, NEW m \in DOMAIN matches, Begin(m) PROVE Advances
<1> DEFINE live == [matches[m] EXCEPT !.status = "live"]
<1>1. matches' = [matches EXCEPT ![m] = live]
  BY DEF Begin
<1>2. matches[m] \in Match /\ matches \in [DOMAIN matches -> Match]
  BY TypeParts
<1>3. live \in Match /\ live.player = matches[m].player /\ live.status = "live" /\ live.winner = matches[m].winner
  BY <1>2 DEF Match
<1> HIDE DEF live
<1>4. matches' \in [DOMAIN matches -> Match]
  BY <1>1, <1>2, <1>3
<1>5. \A k \in DOMAIN matches : matches'[k] = IF k = m THEN live ELSE matches[k]
  BY <1>1
<1>6. Playing(m)
  BY DEF Begin, Playing
<1> QED
  BY <1>3, <1>4, <1>5, <1>6 DEF Advances

\* A match finished goes to the player of the seat.
LEMMA FinishAdvances ==
  ASSUME TypeOK, NEW m \in DOMAIN matches, NEW seat \in Seat, Finish(m, seat)
  PROVE  /\ Advances /\ \A k \in DOMAIN matches : k # m => matches'[k] = matches[k]
         /\ ~Playing(m)' /\ (Playing(m) => matches'[m].winner = matches[m].player[seat])
<1> DEFINE o == [status |-> "done", winner |-> matches[m].player[seat]]
           over == MatchOf(matches[m].player, o)
<1>1. matches' = IF Playing(m) THEN [matches EXCEPT ![m] = over] ELSE matches
  BY DEF Finish
<1>2. matches[m].player \in [Seat -> Anyone] /\ matches \in [DOMAIN matches -> Match]
  BY TypeParts
<1>3. o.status \in MatchStatus /\ o.winner \in Anyone
  BY <1>2 DEF MatchStatus
<1>4. over \in Match /\ over.player = matches[m].player /\ over.status = "done"
        /\ over.winner = matches[m].player[seat]
  BY <1>2, <1>3, MatchIs
<1> HIDE DEF over
<1>5. matches' \in [DOMAIN matches -> Match]
  BY <1>1, <1>2, <1>4
<1>6. \A k \in DOMAIN matches : matches'[k] = IF k = m /\ Playing(m) THEN over ELSE matches[k]
  BY <1>1
<1>7. Advances
  BY <1>4, <1>5, <1>6 DEF Advances
<1> QED
  BY <1>4, <1>6, <1>7 DEF Playing

\* An account deleted leaves its seats, and what it won.
LEMMA PurgeEmpties == ASSUME TypeOK, NEW u \in Player, Purge(u) PROVE Empties(u)
<1> DEFINE p(k) == [i \in Seat |-> Left(u, matches[k].player[i])]
           o(k) == [status |-> matches[k].status, winner |-> Left(u, matches[k].winner)]
<1>1. matches' = [k \in DOMAIN matches |-> MatchOf(p(k), o(k))]
  BY DEF Purge, Left
<1>2. ASSUME NEW k \in DOMAIN matches
      PROVE  /\ p(k) \in [Seat -> Anyone] /\ o(k).status \in MatchStatus /\ o(k).winner \in Anyone
             /\ \A i \in Seat : p(k)[i] = Left(u, matches[k].player[i])
             /\ o(k).status = matches[k].status /\ o(k).winner = Left(u, matches[k].winner)
  <2>1. matches[k].player \in [Seat -> Anyone] /\ matches[k].status \in MatchStatus /\ matches[k].winner \in Anyone
    BY TypeParts
  <2>2. \A x \in Anyone : Left(u, x) \in Anyone
    BY DEF Left, Anyone
  <2> QED
    BY <2>1, <2>2
<1> HIDE DEF p, o
<1>3. \A k \in DOMAIN matches :
        /\ MatchOf(p(k), o(k)) \in Match /\ MatchOf(p(k), o(k)).player = p(k)
        /\ MatchOf(p(k), o(k)).status = o(k).status /\ MatchOf(p(k), o(k)).winner = o(k).winner
  BY <1>2, MatchIs
<1>4. matches' \in [DOMAIN matches -> Match] /\ \A k \in DOMAIN matches : matches'[k] = MatchOf(p(k), o(k))
  BY <1>1, <1>3
<1> QED
  BY <1>2, <1>3, <1>4 DEF Empties

\* Matches cancelled keep their players and who won them.
LEMMA HaltHalts == ASSUME TypeOK, Halt PROVE Halts
<1> DEFINE o(k) == [status |-> Halted(k), winner |-> matches[k].winner]
<1>1. matches' = [k \in DOMAIN matches |-> MatchOf(matches[k].player, o(k))]
  BY DEF Halt
<1>2. ASSUME NEW k \in DOMAIN matches
      PROVE  /\ matches[k].player \in [Seat -> Anyone] /\ o(k).status \in MatchStatus /\ o(k).winner \in Anyone
             /\ o(k).status = Halted(k) /\ o(k).winner = matches[k].winner
  BY TypeParts DEF Halted, MatchStatus
<1> HIDE DEF o
<1>3. \A k \in DOMAIN matches :
        /\ MatchOf(matches[k].player, o(k)) \in Match /\ MatchOf(matches[k].player, o(k)).player = matches[k].player
        /\ MatchOf(matches[k].player, o(k)).status = o(k).status
        /\ MatchOf(matches[k].player, o(k)).winner = o(k).winner
  BY <1>2, MatchIs
<1>4. /\ matches' \in [DOMAIN matches -> Match]
      /\ \A k \in DOMAIN matches : matches'[k] = MatchOf(matches[k].player, o(k))
  BY <1>1, <1>3
<1> QED
  BY <1>2, <1>3, <1>4 DEF Halts

\* The match opened is filled by the winners of the two that feed it.
LEMMA OpensOne ==
  ASSUME Typed, round < rounds, NEW slot, <<round + 1, slot>> \in DOMAIN matches, Opens(slot), round >= 1
  PROVE  Fills(<<round + 1, slot>>)
<1> DEFINE m == <<round + 1, slot>>
           p == [i \in Seat |-> matches[Feeder(m, i)].winner]
<1>1. matches' = [matches EXCEPT ![m] = MatchOf(p, Opened(p))]
  BY DEF Opens
<1>2. rounds \in Nat /\ round \in Nat /\ DOMAIN matches = Bracket(rounds) /\ matches \in [DOMAIN matches -> Match]
        /\ Nobody \notin gone
  BY TypeParts DEF Typed
<1>3. m[1] > 1 /\ m \in Bracket(rounds)
  BY <1>2
<1> HIDE DEF m
<1>4. \A i \in Seat : Feeder(m, i) \in DOMAIN matches
  BY <1>2, <1>3, Feeders
<1>5. p \in [Seat -> Anyone] /\ \A i \in Seat : p[i] = matches[Feeder(m, i)].winner
  BY <1>4, TypeParts DEF Typed
<1> HIDE DEF p
<1>6. Opened(p).status \in MatchStatus /\ Opened(p).winner \in Anyone
  BY <1>2, <1>5, OpenedIs DEF MatchStatus
<1>7. MatchOf(p, Opened(p)) \in Match /\ MatchOf(p, Opened(p)).player = p
        /\ MatchOf(p, Opened(p)).status = Opened(p).status /\ MatchOf(p, Opened(p)).winner = Opened(p).winner
  BY <1>5, <1>6, MatchIs
<1>8. matches' \in [DOMAIN matches -> Match]
  BY <1>1, <1>2, <1>7
<1>9. \A k \in DOMAIN matches : matches'[k] = IF k = m THEN MatchOf(p, Opened(p)) ELSE matches[k]
  BY <1>1
<1> QED
  BY <1>2, <1>3, <1>5, <1>7, <1>8, <1>9 DEF Fills, m

\* The draw: each entrant in a place of the first round of its own.
PlaceOf(all, k, i) == IF i = 0 THEN k[2] ELSE Doubled(all) - 1 - k[2]
Draws(draw, n, all) ==
  /\ n = Cardinality(entrants) /\ n \in Nat /\ n >= 2 /\ all = RoundsOf(n) /\ all \in Nat
  /\ draw \in [1..n -> entrants] /\ \A i, j \in 1..n : draw[i] = draw[j] => i = j
  /\ matches' \in [Bracket(all) -> Match]
  /\ \A k \in Bracket(all) :
       /\ \A i \in Seat : matches'[k].player[i] =
            IF k[1] = 1 THEN Drawn(draw, PlaceOf(all, k, i)) ELSE Nobody
       /\ matches'[k].status = Outcome(matches'[k].player, "waiting").status
       /\ matches'[k].winner = Outcome(matches'[k].player, "waiting").winner

\* Each place of a draw is of one of its matches, with one seat.
LEMMA PlacesOf ==
  ASSUME NEW all \in Nat, all >= 1
  PROVE  /\ \A k \in Bracket(all) : \A i \in Seat : k[1] = 1 =>
              /\ PlaceOf(all, k, i) \in Nat /\ PlaceOf(all, k, i) < Doubled(all)
              /\ k[2] < Doubled(all - 1)
              /\ \A m \in Bracket(all) : \A j \in Seat :
                   m[1] = 1 /\ PlaceOf(all, m, j) = PlaceOf(all, k, i) => m = k /\ j = i
         /\ \A x \in Nat : x < Doubled(all) => \E k \in Bracket(all) : \E i \in Seat : k[1] = 1 /\ PlaceOf(all, k, i) = x
<1>1. Doubled(all) = 2 * Doubled(all - 1) /\ Doubled(all - 1) \in Nat /\ 1 \in 1..all
  <2>1. all - 1 \in Nat /\ (all - 1) + 1 = all
    OBVIOUS
  <2>2. Doubled((all - 1) + 1) = 2 * Doubled(all - 1) /\ Doubled(all - 1) \in Nat
    BY <2>1, DoubledIs
  <2> QED
    BY <2>1, <2>2
<1>2. \A k \in Bracket(all) : k[1] = 1 => k = <<1, k[2]>> /\ k[2] \in Nat /\ k[2] < Doubled(all - 1)
  BY Places
<1>3. 0 \in Seat /\ 1 \in Seat /\ \A i \in Seat : i = 0 \/ i = 1
  BY DEF Seat
<1>4. ASSUME NEW k \in Bracket(all), NEW i \in Seat, k[1] = 1
      PROVE  PlaceOf(all, k, i) \in Nat /\ PlaceOf(all, k, i) < Doubled(all)
  BY <1>1, <1>2, <1>4 DEF PlaceOf
<1>5. ASSUME NEW k \in Bracket(all), NEW i \in Seat, k[1] = 1, NEW m \in Bracket(all), NEW j \in Seat, m[1] = 1,
             PlaceOf(all, m, j) = PlaceOf(all, k, i)
      PROVE  m = k /\ j = i
  <2>1. k[2] = m[2] /\ j = i
    BY <1>1, <1>2, <1>3, <1>5 DEF PlaceOf
  <2> QED
    BY <1>2, <1>5, <2>1
<1>6. ASSUME NEW x \in Nat, x < Doubled(all)
      PROVE  \E k \in Bracket(all) : \E i \in Seat : k[1] = 1 /\ PlaceOf(all, k, i) = x
  <2>1. CASE x < Doubled(all - 1)
    <3>1. <<1, x>> \in Bracket(all)
      BY <1>1, <2>1, Places
    <3>2. PlaceOf(all, <<1, x>>, 0) = x
      BY DEF PlaceOf
    <3> QED
      BY <1>3, <3>1, <3>2
  <2>2. CASE ~(x < Doubled(all - 1))
    <3> DEFINE y == Doubled(all) - 1 - x
    <3>1. y \in Nat /\ y < Doubled(all - 1) /\ Doubled(all) - 1 - y = x
      BY <1>1, <1>6, <2>2
    <3>2. <<1, y>> \in Bracket(all)
      BY <1>1, <3>1, Places
    <3>3. PlaceOf(all, <<1, y>>, 1) = x
      BY <3>1 DEF PlaceOf
    <3> QED
      BY <1>3, <3>2, <3>3
  <2> QED
    BY <2>1, <2>2
<1> QED
  BY <1>2, <1>4, <1>5, <1>6

\* The start draws every entrant.
LEMMA StartDraws == ASSUME TypeOK, Start PROVE \E draw, n, all : Draws(draw, n, all) /\ rounds' = all /\ all >= 1
<1> DEFINE n == Cardinality(entrants)
           all == RoundsOf(n)
           none == [i \in Seat |-> Nobody]
           p(draw, k) == IF k[1] = 1 THEN Pair(draw, k[2]) ELSE none
<1>1. n \in Nat /\ n >= 2 /\ IsFiniteSet(entrants)
  <2>1. IsFiniteSet(entrants) /\ n \in Nat
    BY FS_Subset, FS_CardinalityType, TournamentAssumption DEF TypeOK
  <2> QED
    BY <2>1 DEF Start
<1>2. all \in Nat /\ all >= 1
  BY <1>1, RoundsAre
<1>3. PICK draw \in [1..n -> entrants] :
        /\ \A i, j \in 1..n : draw[i] = draw[j] => i = j
        /\ matches' = [k \in Bracket(all) |-> MatchOf(p(draw, k), Outcome(p(draw, k), "waiting"))]
  BY DEF Start
<1>4. rounds' = all
  BY DEF Start
<1>5. Cardinality(DOMAIN draw) = n
  <2>1. DOMAIN draw = 1..n /\ Cardinality(1..n) = n
    BY <1>1, FS_Interval
  <2> QED
    BY <2>1
<1> HIDE DEF n, all
<1>6. \A k : p(draw, k) \in [Seat -> Anyone] /\ \A i \in Seat : p(draw, k)[i] =
            IF k[1] = 1 THEN Drawn(draw, PlaceOf(all, k, i)) ELSE Nobody
  <2>1. \A x : Drawn(draw, x) \in Anyone
    BY DEF Drawn, Anyone, TypeOK
  <2>2. \A s : Pair(draw, s) = [i \in Seat |-> Drawn(draw, IF i = 0 THEN s ELSE Doubled(all) - 1 - s)]
    BY <1>5 DEF Pair, all
  <2>3. ASSUME NEW k PROVE p(draw, k) \in [Seat -> Anyone] /\ \A i \in Seat : p(draw, k)[i] =
            IF k[1] = 1 THEN Drawn(draw, PlaceOf(all, k, i)) ELSE Nobody
    BY <2>1, <2>2 DEF PlaceOf, Anyone
  <2> QED
    BY <2>3
<1> HIDE DEF p
<1>7. ASSUME NEW k \in Bracket(all)
      PROVE  /\ Outcome(p(draw, k), "waiting").status \in MatchStatus
             /\ Outcome(p(draw, k), "waiting").winner \in Anyone
  BY <1>6, OutcomeIs DEF MatchStatus
<1>8. \A k \in Bracket(all) :
        /\ MatchOf(p(draw, k), Outcome(p(draw, k), "waiting")) \in Match
        /\ MatchOf(p(draw, k), Outcome(p(draw, k), "waiting")).player = p(draw, k)
        /\ MatchOf(p(draw, k), Outcome(p(draw, k), "waiting")).status = Outcome(p(draw, k), "waiting").status
        /\ MatchOf(p(draw, k), Outcome(p(draw, k), "waiting")).winner = Outcome(p(draw, k), "waiting").winner
  BY <1>6, <1>7, MatchIs
<1>9. matches' \in [Bracket(all) -> Match]
  BY <1>3, <1>8
<1>10. \A k \in Bracket(all) :
         /\ matches'[k].player = p(draw, k)
         /\ matches'[k].status = Outcome(p(draw, k), "waiting").status
         /\ matches'[k].winner = Outcome(p(draw, k), "waiting").winner
  BY <1>3, <1>8
<1>11. Draws(draw, n, all)
  BY <1>1, <1>2, <1>3, <1>6, <1>9, <1>10 DEF Draws, n, all
<1> QED
  BY <1>2, <1>4, <1>11

\* What the draw makes of the bracket.
LEMMA DrawIs ==
  ASSUME TypeOK, NEW draw, NEW n, NEW all, Draws(draw, n, all), all >= 1
  PROVE  /\ \A k \in Bracket(all) : k[1] # 1 =>
              matches'[k].status = "waiting" /\ \A i \in Seat : matches'[k].player[i] = Nobody
         /\ \A k \in Bracket(all) : k[1] = 1 => matches'[k].status \in {"ready", "done"}
         /\ \A k \in Bracket(all) :
              /\ \A i \in Seat : matches'[k].player[i] \in entrants \cup {Nobody}
              /\ matches'[k].status = "ready" => \A i \in Seat : matches'[k].player[i] # Nobody
              /\ matches'[k].winner # Nobody =>
                   matches'[k].status = "done" /\ \E i \in Seat : matches'[k].player[i] = matches'[k].winner
         /\ \A m, k \in Bracket(all) : \A i, j \in Seat :
              /\ m[1] = 1 /\ k[1] = 1
              /\ matches'[m].player[i] = matches'[k].player[j] /\ matches'[m].player[i] # Nobody
              => m = k /\ i = j
         /\ \A u \in entrants : \E k \in Bracket(all) : k[1] = 1 /\ \E i \in Seat : matches'[k].player[i] = u
<1>1. /\ n \in Nat /\ n >= 2 /\ all = RoundsOf(n) /\ all \in Nat /\ n = Cardinality(entrants)
      /\ draw \in [1..n -> entrants] /\ \A i, j \in 1..n : draw[i] = draw[j] => i = j
      /\ matches' \in [Bracket(all) -> Match]
      /\ \A k \in Bracket(all) :
           /\ \A i \in Seat : matches'[k].player[i] =
                IF k[1] = 1 THEN Drawn(draw, PlaceOf(all, k, i)) ELSE Nobody
           /\ matches'[k].status = Outcome(matches'[k].player, "waiting").status
           /\ matches'[k].winner = Outcome(matches'[k].player, "waiting").winner
  BY DEF Draws
<1>2. n <= Doubled(all) /\ Doubled(all - 1) < n /\ Doubled(all) \in Nat /\ Doubled(all - 1) \in Nat
  <2>1. all - 1 \in Nat
    BY <1>1
  <2> QED
    BY <1>1, <2>1, RoundsAre, DoubledIs
<1>3. \A x \in Nat : Drawn(draw, x) = IF x < n THEN draw[x + 1] ELSE Nobody
  <2>1. DOMAIN draw = 1..n
    BY <1>1
  <2>2. \A x \in Nat : x + 1 \in 1..n <=> x < n
    BY <1>1
  <2> QED
    BY <2>1, <2>2 DEF Drawn
<1>4. \A x \in Nat : x < n => draw[x + 1] \in entrants /\ draw[x + 1] # Nobody
  <2>1. \A x \in Nat : x < n => x + 1 \in 1..n
    BY <1>1
  <2> QED
    BY <1>1, <2>1, TypeParts
<1>5. \A k \in Bracket(all) : matches'[k].player \in [Seat -> Anyone]
  BY <1>1, MatchParts
<1>6. 0 \in Seat /\ 1 \in Seat
  BY DEF Seat
<1>7. ASSUME NEW k \in Bracket(all)
      PROVE  LET p == matches'[k].player
                 o == Outcome(p, "waiting")
             IN  /\ o.status \in {"ready", "done", "waiting"}
                 /\ o.winner # Nobody => o.status = "done" /\ \E i \in Seat : p[i] = o.winner
                 /\ o.status = "ready" => \A i \in Seat : p[i] # Nobody
                 /\ o.status = "waiting" => \A i \in Seat : p[i] = Nobody
  BY <1>5, OutcomeIs
<1>8. ASSUME NEW k \in Bracket(all), k[1] # 1
      PROVE  matches'[k].status = "waiting" /\ \A i \in Seat : matches'[k].player[i] = Nobody
  <2>1. \A i \in Seat : matches'[k].player[i] = Nobody
    BY <1>1, <1>8
  <2>2. Outcome(matches'[k].player, "waiting") = [status |-> "waiting", winner |-> Nobody]
    BY <1>6, <2>1 DEF Outcome
  <2> QED
    BY <1>1, <2>1, <2>2
<1>9. ASSUME NEW k \in Bracket(all), k[1] = 1 PROVE matches'[k].status \in {"ready", "done"}
  <2>1. PlaceOf(all, k, 0) = k[2] /\ k[2] \in Nat /\ k[2] < n
    <3>1. k[2] \in Nat /\ k[2] < Doubled(all - 1)
      BY <1>1, <1>6, <1>9, PlacesOf, Places
    <3> QED
      BY <1>1, <1>2, <3>1 DEF PlaceOf
  <2>2. matches'[k].player[0] # Nobody
    BY <1>1, <1>3, <1>4, <1>6, <1>9, <2>1
  <2> QED
    BY <1>1, <1>6, <1>7, <2>2
<1>10. \A k \in Bracket(all) : \A i \in Seat : k[1] = 1 => PlaceOf(all, k, i) \in Nat
  BY <1>1, PlacesOf
<1>11. \A k \in Bracket(all) :
              /\ \A i \in Seat : matches'[k].player[i] \in entrants \cup {Nobody}
              /\ matches'[k].status = "ready" => \A i \in Seat : matches'[k].player[i] # Nobody
              /\ matches'[k].winner # Nobody =>
                   matches'[k].status = "done" /\ \E i \in Seat : matches'[k].player[i] = matches'[k].winner
  <2> SUFFICES ASSUME NEW k \in Bracket(all)
               PROVE  /\ \A i \in Seat : matches'[k].player[i] \in entrants \cup {Nobody}
                      /\ matches'[k].status = "ready" => \A i \in Seat : matches'[k].player[i] # Nobody
                      /\ matches'[k].winner # Nobody =>
                           matches'[k].status = "done" /\ \E i \in Seat : matches'[k].player[i] = matches'[k].winner
    OBVIOUS
  <2>1. ASSUME NEW i \in Seat PROVE matches'[k].player[i] \in entrants \cup {Nobody}
    BY <1>1, <1>3, <1>4, <1>10
  <2> QED
    BY <1>1, <1>7, <2>1
<1>12. ASSUME NEW m \in Bracket(all), NEW k \in Bracket(all), NEW i \in Seat, NEW j \in Seat, m[1] = 1, k[1] = 1,
              matches'[m].player[i] = matches'[k].player[j], matches'[m].player[i] # Nobody
       PROVE  m = k /\ i = j
  <2> DEFINE x == PlaceOf(all, m, i)
             y == PlaceOf(all, k, j)
  <2>1. x \in Nat /\ y \in Nat
    BY <1>10, <1>12
  <2>2. Drawn(draw, x) = Drawn(draw, y) /\ Drawn(draw, x) # Nobody
    BY <1>1, <1>12
  <2> HIDE DEF x, y
  <2>3. x < n /\ y < n /\ draw[x + 1] = draw[y + 1]
    BY <1>3, <2>1, <2>2
  <2>4. x = y
    <3>1. x + 1 \in 1..n /\ y + 1 \in 1..n
      BY <1>1, <2>1, <2>3
    <3>2. x + 1 = y + 1
      BY <1>1, <2>3, <3>1
    <3> QED
      BY <2>1, <3>2
  <2> QED
    BY <1>1, <1>12, <2>4, PlacesOf DEF x, y
<1>13. ASSUME NEW u \in entrants
       PROVE  \E k \in Bracket(all) : k[1] = 1 /\ \E i \in Seat : matches'[k].player[i] = u
  <2>1. draw \in Injection(1..n, entrants)
    BY <1>1 DEF Injection, IsInjective
  <2>2. IsFiniteSet(entrants) /\ Cardinality(1..n) = n
    <3>1. IsFiniteSet(entrants)
      BY FS_Subset, TournamentAssumption DEF TypeOK
    <3>2. Cardinality(1..n) = n
      BY <1>1, FS_Interval
    <3> QED
      BY <3>1, <3>2
  <2>3. draw \in Surjection(1..n, entrants)
    BY <1>1, <2>1, <2>2, FS_Injection
  <2>4. PICK a \in 1..n : draw[a] = u
    BY <2>3 DEF Surjection
  <2>5. a - 1 \in Nat /\ a - 1 < n /\ a - 1 < Doubled(all) /\ (a - 1) + 1 = a
    BY <1>1, <1>2
  <2>6. PICK k \in Bracket(all) : \E i \in Seat : k[1] = 1 /\ PlaceOf(all, k, i) = a - 1
    BY <1>1, <2>5, PlacesOf
  <2> QED
    BY <1>1, <1>3, <2>4, <2>5, <2>6
<1> QED
  BY <1>8, <1>9, <1>11, <1>12, <1>13

-----------------------------------------------------------------------------
(* The types.                                                              *)

\* Between handlers nothing is left to do.
LEMMA AtNothing == Idle => doing.at = "nothing"
BY DEF Idle, Nothing

\* A step that leaves the rounds and the status: what is left of its handler is new.
LEMMA SameRounds ==
  ASSUME Typed, matches' \in [DOMAIN matches -> Match], UNCHANGED <<status, round, rounds>>,
         champion' \in Anyone, entrants' \subseteq Player, gone' \subseteq entrants',
         status = "open" => gone' = {},
         stops' \in 0..MaxStops, purges' \in 0..MaxPurges,
         \/ doing' = doing /\ Idle
         \/ doing'.at \in {"nothing", "advance"}
         \/ doing'.at = "give" /\ doing'.match \in DOMAIN matches /\ Plays(doing.player, doing.match)'
         \/ doing'.at = "open" /\ status = "running" /\ round < rounds
              /\ <<round + 1, doing'.slot>> \in DOMAIN matches
         \/ doing'.at = "turn" /\ status = "running" /\ round < rounds
  PROVE  Typed'
<1>1. DOMAIN matches = Bracket(rounds) /\ DOMAIN matches' = DOMAIN matches
  BY TypeParts DEF Typed
<1>2. TypeOK'
  BY <1>1, AtNothing DEF Typed, TypeOK
<1>3. Under /\ TypeOK
  BY DEF Typed
<1>4. (status = "open" => rounds = 0 /\ gone = {})' /\ (status = "running" => round >= 1)'
  BY <1>3 DEF Under
<1>5. (doing.at = "halt" => status = "cancelled")'
  BY <1>3, AtNothing DEF Under
<1>6. (doing.at \in {"open", "turn"} => status = "running" /\ round < rounds)'
  BY <1>3, AtNothing DEF Under
<1>7. (doing.at = "open" => <<round + 1, doing.slot>> \in DOMAIN matches)'
  BY <1>1, <1>3, AtNothing DEF Under
<1>8. doing'.at = "give" => doing'.match \in DOMAIN matches' /\ Plays(doing.player, doing.match)'
  BY <1>1, <1>3, AtNothing DEF Under
<1>9. Under'
  BY <1>4, <1>5, <1>6, <1>7, <1>8 DEF Under
<1> QED
  BY <1>2, <1>9 DEF Typed

\* Every step keeps the types.
LEMMA TypedStep == ASSUME Typed, [Next]_vars PROVE Typed'
<1>0. /\ TypeOK /\ Under /\ stops \in 0..MaxStops /\ purges \in 0..MaxPurges /\ MaxStops \in Nat /\ MaxPurges \in Nat
      /\ entrants \subseteq Player /\ gone \subseteq entrants /\ champion \in Anyone
      /\ matches \in [DOMAIN matches -> Match] /\ DOMAIN matches = Bracket(rounds)
      /\ rounds \in Nat /\ round \in Nat /\ round <= rounds
      /\ status = "open" => gone = {}
  BY TypeParts, TournamentAssumption DEF Typed, TypeOK, Under
<1>1. ASSUME NEW u \in Player, Register(u) \/ Unregister(u) PROVE Typed'
  <2>1. status = "open" /\ Idle /\ UNCHANGED <<status, round, rounds, champion, gone, matches, doing, stops, purges>>
    BY <1>1 DEF Register, Unregister, tournament, Handler
  <2>2. entrants' \subseteq Player
    BY <1>0, <1>1 DEF Register, Unregister
  <2>3. gone = {} /\ gone' = {}
    BY <1>0, <2>1
  <2> QED
    BY <1>0, <2>1, <2>2, <2>3, SameRounds
<1>2. ASSUME NEW u \in Player, Withdraw(u) PROVE Typed'
  <2>1. /\ UNCHANGED <<status, round, rounds, champion, entrants, matches, stops, purges>>
        /\ status = "running" /\ gone' \subseteq entrants'
    BY <1>0, <1>2 DEF Withdraw, tournament, Handler
  <2>2. \/ doing'.at = "nothing"
        \/ doing'.at = "give" /\ doing'.match \in DOMAIN matches /\ Plays(doing.player, doing.match)'
    <3>1. CASE Given(u) = {}
      BY <1>2, <3>1 DEF Withdraw, Nothing
    <3>2. CASE Given(u) # {}
      <4>1. PICK m \in Given(u) : doing' = [at |-> "give", match |-> m, player |-> u]
        BY <1>2, <3>2 DEF Withdraw
      <4>2. m \in DOMAIN matches /\ \E seat \in Seat : matches[m].player[seat] = u
        BY DEF Given
      <4>3. \E i \in Seat : matches'[m].player[i] = u
        BY <2>1, <4>2
      <4> QED
        BY <4>1, <4>2, <4>3 DEF Plays
    <3> QED
      BY <3>1, <3>2
  <2> QED
    BY <1>0, <2>1, <2>2, SameRounds
<1>3. ASSUME NEW u \in Player, Purge(u) PROVE Typed'
  <2>1. /\ UNCHANGED <<status, round, rounds, doing, stops>> /\ Idle
        /\ entrants' \subseteq Player /\ gone' \subseteq entrants' /\ purges' \in 0..MaxPurges
        /\ champion' \in Anyone /\ (gone = {} => gone' = {})
    BY <1>0, <1>3 DEF Purge, Anyone
  <2>2. matches' \in [DOMAIN matches -> Match]
    BY <1>0, <1>3, PurgeEmpties DEF Empties
  <2> QED
    BY <1>0, <2>1, <2>2, SameRounds
<1>4. CASE StartWithout
  <2>1. status' = "cancelled" /\ Idle
        /\ UNCHANGED <<round, rounds, champion, entrants, gone, matches, doing, stops, purges>>
    BY <1>4 DEF StartWithout, Handler
  <2>2. TypeOK'
    BY <1>0, <2>1 DEF TypeOK
  <2>3. Under'
    BY <1>0, <2>1, AtNothing DEF Under
  <2> QED
    BY <2>2, <2>3 DEF Typed
<1>5. CASE Start
  <2>1. PICK draw, n, all : Draws(draw, n, all) /\ rounds' = all /\ all >= 1
    BY <1>0, <1>5, StartDraws
  <2>2. /\ status' = "running" /\ round' = 1 /\ doing' = [at |-> "advance"]
        /\ UNCHANGED <<champion, entrants, gone, stops, purges>>
    BY <1>5 DEF Start, Handler
  <2>3. matches' \in [Bracket(all) -> Match] /\ all \in Nat
    BY <2>1 DEF Draws
  <2>4. TypeOK'
    BY <1>0, <2>1, <2>2, <2>3 DEF TypeOK
  <2>5. Under'
    BY <1>0, <2>2 DEF Under
  <2> QED
    BY <2>4, <2>5 DEF Typed
<1>6. ASSUME NEW m \in DOMAIN matches, Begin(m) PROVE Typed'
  <2>1. Idle /\ UNCHANGED <<status, round, rounds, champion, entrants, gone, doing, stops, purges>>
    BY <1>6 DEF Begin, tournament, Handler
  <2>2. matches' \in [DOMAIN matches -> Match]
    BY <1>0, <1>6, BeginAdvances DEF Advances
  <2> QED
    BY <1>0, <2>1, <2>2, SameRounds
<1>7. ASSUME NEW m \in DOMAIN matches, NEW seat \in Seat, Finish(m, seat), UNCHANGED <<stops, purges>> PROVE Typed'
  <2>1. doing'.at = "advance" /\ UNCHANGED <<status, round, rounds, champion, entrants, gone, stops, purges>>
    BY <1>7 DEF Finish, tournament
  <2>2. matches' \in [DOMAIN matches -> Match]
    BY <1>0, <1>7, FinishAdvances DEF Advances
  <2> QED
    BY <1>0, <2>1, <2>2, SameRounds
<1>8. ASSUME NEW m \in DOMAIN matches, NEW seat \in Seat, Win(m, seat) \/ Forfeit(m, seat) \/ Award(m, seat)
      PROVE  Typed'
  <2>1. Other(seat) \in Seat
    BY DEF Seat, Other
  <2> QED
    BY <1>7, <1>8, <2>1 DEF Win, Forfeit, Award, Handler
<1>9. CASE Give
  <2>1. doing.match \in DOMAIN matches /\ Plays(doing.player, doing.match)
    BY <1>0, <1>9 DEF Give, Under
  <2>2. Other(SeatOf(doing.match, doing.player)) \in Seat
    BY <2>1 DEF Seat, Other, SeatOf, Plays
  <2> QED
    BY <1>7, <1>9, <2>1, <2>2 DEF Give, Handler
<1>10. CASE Rests \/ Stop
  <2>1. /\ doing'.at = "nothing" /\ UNCHANGED <<status, round, rounds, champion, entrants, gone, matches, purges>>
        /\ stops' \in 0..MaxStops
    BY <1>0, <1>10 DEF Rests, Stop, tournament, Handler, Nothing
  <2> QED
    BY <1>0, <2>1, SameRounds
<1>11. CASE Close
  <2>1. /\ status' = "finished" /\ champion' = matches[<<round, 0>>].winner /\ doing'.at = "nothing"
        /\ UNCHANGED <<round, rounds, entrants, gone, matches, stops, purges>> /\ status = "running"
    BY <1>11 DEF Close, Handler, Nothing
  <2>2. <<round, 0>> \in DOMAIN matches
    BY <1>0, <2>1, Finals DEF Under
  <2>3. champion' \in Anyone
    BY <1>0, <2>1, <2>2, TypeParts
  <2>4. TypeOK'
    BY <1>0, <2>1, <2>3 DEF TypeOK
  <2>5. Under'
    BY <1>0, <2>1 DEF Under
  <2> QED
    BY <2>4, <2>5 DEF Typed
<1>12. ASSUME NEW slot, <<round + 1, slot>> \in DOMAIN matches, Opens(slot), round < rounds, status = "running"
       PROVE  Typed'
  <2>1. /\ doing' = IF <<round + 1, slot + 1>> \in DOMAIN matches
                    THEN [at |-> "open", slot |-> slot + 1] ELSE [at |-> "turn"]
        /\ UNCHANGED <<status, round, rounds, champion, entrants, gone, stops, purges>>
    BY <1>12 DEF Opens, tournament, Handler
  <2>2. matches' \in [DOMAIN matches -> Match]
    <3>1. round >= 1
      BY <1>0, <1>12 DEF Under
    <3> QED
      BY <1>12, <3>1, OpensOne DEF Fills
  <2>3. doing'.at = "open" => <<round + 1, doing'.slot>> \in DOMAIN matches
    BY <2>1
  <2>4. doing'.at \in {"open", "turn"}
    BY <2>1
  <2> QED
    BY <1>0, <1>12, <2>1, <2>2, <2>3, <2>4, SameRounds
<1>13. CASE OpenFirst
  <2>1. status = "running" /\ round < rounds /\ Opens(0)
    BY <1>0, <1>13 DEF OpenFirst, Final
  <2>2. <<round + 1, 0>> \in DOMAIN matches
    BY <1>0, <2>1, Finals
  <2> QED
    BY <1>12, <2>1, <2>2
<1>14. CASE OpenAnother
  BY <1>0, <1>12, <1>14 DEF OpenAnother, Under
<1>15. CASE Turn
  <2>1. /\ round' = round + 1 /\ round < rounds /\ doing'.at = "advance" /\ status = "running"
        /\ UNCHANGED <<status, rounds, champion, entrants, gone, matches, stops, purges>>
    BY <1>0, <1>15 DEF Turn, Handler, Under
  <2>2. TypeOK'
    BY <1>0, <2>1 DEF TypeOK
  <2>3. Under'
    BY <1>0, <2>1 DEF Under
  <2> QED
    BY <2>2, <2>3 DEF Typed
<1>16. CASE Cancel
  <2>1. /\ status' = "cancelled" /\ doing'.at = "halt"
        /\ UNCHANGED <<round, rounds, champion, entrants, gone, matches, stops, purges>>
    BY <1>16 DEF Cancel, Handler
  <2>2. TypeOK'
    BY <1>0, <2>1 DEF TypeOK
  <2>3. Under'
    BY <2>1 DEF Under
  <2> QED
    BY <2>2, <2>3 DEF Typed
<1>17. CASE Halt
  <2>1. doing'.at = "nothing" /\ UNCHANGED <<status, round, rounds, champion, entrants, gone, stops, purges>>
    BY <1>17 DEF Halt, tournament, Handler, Nothing
  <2>2. matches' \in [DOMAIN matches -> Match]
    BY <1>0, <1>17, HaltHalts DEF Halts
  <2> QED
    BY <1>0, <2>1, <2>2, SameRounds
<1>18. CASE UNCHANGED vars
  <2>1. UNCHANGED <<status, round, rounds, champion, entrants, gone, matches, doing, stops, purges>>
    BY <1>18 DEF vars, tournament
  <2>2. TypeOK'
    BY <1>0, <2>1 DEF TypeOK
  <2>3. Under'
    BY <1>0, <2>1 DEF Under, Plays
  <2> QED
    BY <2>2, <2>3 DEF Typed
<1> QED
  BY <1>1, <1>2, <1>3, <1>4, <1>5, <1>6, <1>8, <1>9, <1>10, <1>11, <1>13, <1>14, <1>15, <1>16, <1>17, <1>18 DEF Next

-----------------------------------------------------------------------------
(* Who meets whom, step by step.                                           *)

\* Once a match is set, those of the rounds before it are over.
LEMMA Before ==
  ASSUME BracketInv, NEW m \in DOMAIN matches, NEW k \in DOMAIN matches, Set(k), m[1] < k[1]
  PROVE  Ended(m)
<1>1. /\ round \in Nat /\ ~Unset(k) /\ m[1] \in Nat /\ k[1] \in Nat
      /\ Past /\ Ahead /\ Later
  BY TypeParts, InBracket DEF BracketInv, OrderInv, Order, Typed, Set, Unset
<1>2. CASE m[1] < round
  BY <1>1, <1>2 DEF Past
<1>3. CASE ~(m[1] < round)
  <2>1. m[1] = round /\ k[1] = round + 1
    BY <1>1, <1>3 DEF Later
  <2> QED
    BY <1>1, <2>1 DEF Ahead, RoundOver, Round
<1> QED
  BY <1>2, <1>3

\* The winners who meet, by the matches that feed theirs.
LEMMA Meet ==
  ASSUME BracketInv, NEW m \in DOMAIN matches, m[1] > 1, NEW i \in Seat
  PROVE  /\ Feeder(m, i) \in DOMAIN matches /\ Feeder(m, i)[1] = m[1] - 1 /\ Feeder(m, i)[1] < m[1]
         /\ Set(m) => matches[m].player[i] = matches[Feeder(m, i)].winner
<1>1. DOMAIN matches = Bracket(rounds) /\ rounds \in Nat /\ WinnersMeet
  BY TypeParts DEF BracketInv, Typed, Meeting
<1>2. m[1] \in Nat
  BY <1>1, InBracket
<1>3. Feeder(m, i) \in DOMAIN matches /\ Feeder(m, i)[1] = m[1] - 1
  BY <1>1, Feeders
<1>4. Set(m) => matches[m].player[i] = matches[Feeder(m, i)].winner
  BY <1>1 DEF WinnersMeet, Set, Feeder
<1> QED
  BY <1>2, <1>3, <1>4

\* Who won a match plays it, and it is set.
LEMMA Winner ==
  ASSUME BracketInv, NEW m \in DOMAIN matches, matches[m].winner # Nobody
  PROVE  /\ Set(m) /\ Plays(matches[m].winner, m) /\ matches[m].winner \in entrants
         /\ matches[m].winner \in Player
<1>1. matches[m].status = "done" /\ Plays(matches[m].winner, m)
  BY DEF BracketInv, Meeting, Won
<1>2. matches[m].winner \in entrants
  BY <1>1 DEF BracketInv, Meeting, Entered, Plays
<1> QED
  BY <1>1, <1>2, TypeParts DEF BracketInv, Typed, Set

\* Matches that keep their players, no more of them set, keep who meets whom.
LEMMA SameSeats ==
  ASSUME BracketInv, DOMAIN matches' = DOMAIN matches, entrants \subseteq entrants', Won',
         \A k \in DOMAIN matches :
           /\ Set(k)' => Set(k)
           /\ matches'[k].player = matches[k].player
           /\ matches'[k].winner = matches[k].winner \/ Playing(k)
  PROVE  Meeting'
<1>1. \A m, k \in DOMAIN matches : Set(k) /\ m[1] < k[1] => matches'[m].winner = matches[m].winner
  <2>1. \A m \in DOMAIN matches : Ended(m) => ~Playing(m)
    BY DEF Ended, Playing
  <2> QED
    BY <2>1, Before
<1>2. WinnersMeet'
  <2> SUFFICES ASSUME NEW m \in DOMAIN matches, m[1] > 1, Set(m)', NEW i \in Seat
               PROVE  matches'[m].player[i] = matches'[<<m[1] - 1, 2 * m[2] + i>>].winner
    BY DEF WinnersMeet, Set
  <2>1. Set(m)
    OBVIOUS
  <2>2. /\ Feeder(m, i) \in DOMAIN matches /\ Feeder(m, i)[1] < m[1]
        /\ matches[m].player[i] = matches[Feeder(m, i)].winner
    BY <2>1, Meet
  <2>3. matches'[Feeder(m, i)].winner = matches[Feeder(m, i)].winner
    BY <1>1, <2>1, <2>2
  <2> QED
    BY <2>2, <2>3 DEF Feeder
<1>3. Entered'
  BY DEF BracketInv, Meeting, Entered
<1>4. OnceEach'
  BY DEF BracketInv, Meeting, OnceEach
<1>5. \A m \in DOMAIN matches : \A u : Plays(u, m)' <=> Plays(u, m)
  BY DEF Plays
<1>6. Unbeaten'
  <2> SUFFICES ASSUME NEW m \in DOMAIN matches, NEW k \in DOMAIN matches, NEW u \in Player,
                      Set(m)', Plays(u, m)', k[1] < m[1], Set(k)', Plays(u, k)'
               PROVE  matches'[k].winner = u
    BY DEF Unbeaten
  <2>1. Set(m) /\ Set(k) /\ Plays(u, m) /\ Plays(u, k)
    BY <1>5
  <2>2. matches[k].winner = u
    BY <2>1 DEF BracketInv, Meeting, Unbeaten
  <2> QED
    BY <1>1, <2>1, <2>2
<1> QED
  BY <1>2, <1>3, <1>4, <1>6 DEF Meeting

\* Matches begun or finished keep who meets whom.
LEMMA AdvancesMeet == ASSUME BracketInv, Advances, entrants' = entrants PROVE Meeting'
<1>1. DOMAIN matches' = DOMAIN matches
  BY DEF Advances
<1>2. ASSUME NEW k \in DOMAIN matches
      PROVE  /\ Set(k)' => Set(k)
             /\ matches'[k].player = matches[k].player
             /\ matches'[k].winner = matches[k].winner \/ Playing(k)
             /\ matches'[k].winner # Nobody => matches'[k].status = "done" /\ Plays(matches'[k].winner, k)
  <2>1. CASE matches'[k] = matches[k]
    BY <2>1 DEF Set, BracketInv, Meeting, Won
  <2>2. CASE /\ Playing(k) /\ matches'[k].player = matches[k].player
             /\ matches'[k].status = "live" /\ matches'[k].winner = matches[k].winner
    <3>1. matches[k].winner = Nobody
      BY <2>2 DEF BracketInv, Meeting, Won, Playing
    <3> QED
      BY <2>2, <3>1 DEF Set, Playing
  <2>3. CASE /\ Playing(k) /\ matches'[k].player = matches[k].player
             /\ matches'[k].status = "done" /\ \E i \in Seat : matches'[k].winner = matches[k].player[i]
    BY <2>3 DEF Set, Playing, Plays
  <2> QED
    BY <2>1, <2>2, <2>3 DEF Advances
<1>3. Won'
  BY <1>1, <1>2 DEF Won, Plays
<1> QED
  BY <1>1, <1>2, <1>3, SameSeats

\* So do matches cancelled.
LEMMA HaltsMeet == ASSUME BracketInv, Halts, entrants' = entrants PROVE Meeting'
<1>1. DOMAIN matches' = DOMAIN matches
  BY DEF Halts
<1>2. ASSUME NEW k \in DOMAIN matches
      PROVE  /\ Set(k)' => Set(k)
             /\ matches'[k].player = matches[k].player /\ matches'[k].winner = matches[k].winner
             /\ matches[k].status = "done" => matches'[k].status = "done"
  BY DEF Halts, Halted, Set, Ended
<1>3. Won'
  BY <1>1, <1>2 DEF Won, Plays, BracketInv, Meeting
<1> QED
  BY <1>1, <1>2, <1>3, SameSeats

\* So does an account deleted.
LEMMA EmptiesMeet ==
  ASSUME BracketInv, NEW u \in Player, Empties(u), entrants' = entrants \ {u}
  PROVE  Meeting'
<1>1. DOMAIN matches' = DOMAIN matches /\ Nobody \notin Player
  BY TournamentAssumption DEF Empties
<1>2. \A k \in DOMAIN matches :
        /\ Set(k)' <=> Set(k)
        /\ matches'[k].status = matches[k].status
        /\ \A i \in Seat : matches'[k].player[i] = Left(u, matches[k].player[i])
        /\ matches'[k].winner = Left(u, matches[k].winner)
  BY DEF Empties, Set
<1>3. \A k \in DOMAIN matches : \A v : v # u /\ v # Nobody /\ Plays(v, k) => Plays(v, k)'
  BY <1>2 DEF Plays, Left
<1>4. \A k \in DOMAIN matches : \A v \in Player : Plays(v, k)' => Plays(v, k) /\ v # u
  BY <1>1, <1>2 DEF Plays, Left
<1>5. WinnersMeet'
  <2> SUFFICES ASSUME NEW m \in DOMAIN matches, m[1] > 1, Set(m)', NEW i \in Seat
               PROVE  matches'[m].player[i] = matches'[<<m[1] - 1, 2 * m[2] + i>>].winner
    BY <1>1 DEF WinnersMeet, Set
  <2>1. /\ Feeder(m, i) \in DOMAIN matches /\ matches[m].player[i] = matches[Feeder(m, i)].winner
    BY <1>2, Meet
  <2> QED
    BY <1>2, <2>1 DEF Feeder
<1>6. Won'
  <2> SUFFICES ASSUME NEW m \in DOMAIN matches, matches'[m].winner # Nobody
               PROVE  matches'[m].status = "done" /\ \E i \in Seat : matches'[m].player[i] = matches'[m].winner
    BY <1>1 DEF Won, Plays
  <2>1. matches'[m].winner = matches[m].winner /\ matches[m].winner # Nobody /\ matches[m].winner # u
    BY <1>2 DEF Left
  <2>2. matches[m].status = "done" /\ Plays(matches[m].winner, m)
    BY <2>1 DEF BracketInv, Meeting, Won
  <2>3. PICK i \in Seat : matches[m].player[i] = matches[m].winner
    BY <2>2 DEF Plays
  <2>4. matches'[m].player[i] = matches[m].winner
    BY <1>2, <2>1, <2>3 DEF Left
  <2> QED
    BY <1>2, <2>1, <2>2, <2>4
<1>7. Entered'
  <2> SUFFICES ASSUME NEW m \in DOMAIN matches, NEW i \in Seat
               PROVE  matches'[m].player[i] \in (entrants \ {u}) \cup {Nobody}
    BY <1>1 DEF Entered
  <2>1. matches[m].player[i] \in entrants \cup {Nobody}
    BY DEF BracketInv, Meeting, Entered
  <2> QED
    BY <1>1, <1>2, <2>1 DEF Left
<1>8. OnceEach'
  <2> SUFFICES ASSUME NEW m \in DOMAIN matches, NEW k \in DOMAIN matches, NEW i \in Seat, NEW j \in Seat,
                      m[1] = k[1], Set(m)', Set(k)',
                      matches'[m].player[i] = matches'[k].player[j], matches'[m].player[i] # Nobody
               PROVE  m = k /\ i = j
    BY <1>1 DEF OnceEach
  <2>1. matches[m].player[i] = matches[k].player[j] /\ matches[m].player[i] # Nobody
    BY <1>2 DEF Left
  <2> QED
    BY <1>2, <2>1 DEF BracketInv, Meeting, OnceEach
<1>9. Unbeaten'
  <2> SUFFICES ASSUME NEW m \in DOMAIN matches, NEW k \in DOMAIN matches, NEW v \in Player,
                      Set(m)', Plays(v, m)', k[1] < m[1], Set(k)', Plays(v, k)'
               PROVE  matches'[k].winner = v
    BY <1>1 DEF Unbeaten
  <2>1. Set(m) /\ Set(k) /\ Plays(v, m) /\ Plays(v, k) /\ v # u
    BY <1>2, <1>4
  <2>2. matches[k].winner = v
    BY <2>1 DEF BracketInv, Meeting, Unbeaten
  <2> QED
    BY <1>2, <2>1, <2>2 DEF Left
<1> QED
  BY <1>5, <1>6, <1>7, <1>8, <1>9 DEF Meeting

\* So does the draw.
LEMMA DrawsMeet ==
  ASSUME TypeOK, NEW draw, NEW n, NEW all, Draws(draw, n, all), all >= 1, entrants' = entrants
  PROVE  Meeting'
<1>1. DOMAIN matches' = Bracket(all)
  BY DEF Draws
<1>2. all \in Nat
  BY DEF Draws
<1>3. \A k \in Bracket(all) : k[1] \in Nat
  BY <1>2, InBracket
<1>4. \A k \in Bracket(all) : Set(k)' => k[1] = 1
  BY DrawIs DEF Set
<1>5. WinnersMeet'
  BY <1>1, <1>3, <1>4 DEF WinnersMeet, Set
<1>6. Won'
  BY <1>1, DrawIs DEF Won, Plays
<1>7. Entered'
  BY <1>1, DrawIs DEF Entered
<1>8. OnceEach'
  <2> SUFFICES ASSUME NEW m \in Bracket(all), NEW k \in Bracket(all), NEW i \in Seat, NEW j \in Seat,
                      Set(m)', Set(k)',
                      matches'[m].player[i] = matches'[k].player[j], matches'[m].player[i] # Nobody
               PROVE  m = k /\ i = j
    BY <1>1 DEF OnceEach
  <2>1. m[1] = 1 /\ k[1] = 1
    BY <1>4
  <2> QED
    BY <2>1, DrawIs
<1>9. Unbeaten'
  BY <1>1, <1>3, <1>4 DEF Unbeaten
<1> QED
  BY <1>5, <1>6, <1>7, <1>8, <1>9 DEF Meeting

\* So does a match filled by those who won the round before.
LEMMA FillsMeet ==
  ASSUME BracketInv, NEW m, Fills(m), m[1] = round + 1, round >= 1, entrants' = entrants
  PROVE  Meeting'
<1>1. /\ DOMAIN matches' = DOMAIN matches /\ m \in DOMAIN matches
      /\ \A k \in DOMAIN matches : k # m => matches'[k] = matches[k]
      /\ \A i \in Seat : matches'[m].player[i] = matches[Feeder(m, i)].winner
      /\ matches'[m].player \in [Seat -> Anyone]
      /\ matches'[m].status = Opened(matches'[m].player).status
      /\ matches'[m].winner = Opened(matches'[m].player).winner
  <2>1. matches'[m] \in Match
    BY DEF Fills
  <2> QED
    BY <2>1, MatchParts DEF Fills
<1>2. /\ round \in Nat /\ m[1] > 1 /\ DOMAIN matches = Bracket(rounds) /\ rounds \in Nat
      /\ Nobody \notin Player /\ Nobody \notin gone /\ \A k \in DOMAIN matches : k[1] \in Nat
  BY TypeParts, InBracket DEF BracketInv, Typed
<1>3. \A k \in DOMAIN matches : k[1] > round + 1 => ~Set(k)
  BY DEF BracketInv, OrderInv, Order, Later, Unset, Set
<1>4. \A k \in DOMAIN matches : k # m => (Set(k)' <=> Set(k)) /\ \A u : Plays(u, k)' <=> Plays(u, k)
  BY <1>1 DEF Set, Plays
\* The players of its round are the winners of the one before.
<1>5. ASSUME NEW k \in DOMAIN matches, k[1] = round + 1, Set(k)', NEW i \in Seat
      PROVE  /\ matches'[k].player[i] = matches[Feeder(k, i)].winner
             /\ Feeder(k, i) \in DOMAIN matches /\ Feeder(k, i)[1] = round
             /\ matches'[k].player[i] # Nobody =>
                  Set(Feeder(k, i)) /\ Plays(matches'[k].player[i], Feeder(k, i))
  <2>1. k[1] > 1
    BY <1>2, <1>5
  <2>2. Feeder(k, i) \in DOMAIN matches /\ Feeder(k, i)[1] = round
    <3>1. Feeder(k, i) \in DOMAIN matches /\ Feeder(k, i)[1] = k[1] - 1
      BY <1>5, <2>1, Meet
    <3> QED
      BY <1>2, <1>5, <3>1
  <2>3. matches'[k].player[i] = matches[Feeder(k, i)].winner
    <3>1. CASE k = m
      BY <1>1, <3>1
    <3>2. CASE k # m
      <4>1. Set(k) /\ matches'[k] = matches[k]
        BY <1>1, <1>4, <1>5, <3>2
      <4> QED
        BY <2>1, <4>1, Meet
    <3> QED
      BY <3>1, <3>2
  <2> QED
    BY <2>2, <2>3, Winner
<1>6. WinnersMeet'
  <2> SUFFICES ASSUME NEW k \in DOMAIN matches, k[1] > 1, Set(k)', NEW i \in Seat
               PROVE  matches'[k].player[i] = matches'[<<k[1] - 1, 2 * k[2] + i>>].winner
    BY <1>1 DEF WinnersMeet, Set
  <2>1. Feeder(k, i) \in DOMAIN matches /\ Feeder(k, i)[1] = k[1] - 1
    BY Meet
  <2>2. matches'[k].player[i] = matches[Feeder(k, i)].winner
    <3>1. CASE k = m
      BY <1>1, <3>1
    <3>2. CASE k # m
      <4>1. Set(k) /\ matches'[k] = matches[k]
        BY <1>1, <1>4, <3>2
      <4> QED
        BY <4>1, Meet
    <3> QED
      BY <3>1, <3>2
  <2>3. Feeder(k, i) # m
    <3>1. CASE k = m
      BY <1>2, <2>1, <3>1
    <3>2. CASE k # m
      <4>1. Set(k)
        BY <1>4, <3>2
      <4>2. ~(k[1] > round + 1)
        BY <1>3, <4>1
      <4> QED
        BY <1>2, <2>1, <4>2
    <3> QED
      BY <3>1, <3>2
  <2>4. matches'[Feeder(k, i)] = matches[Feeder(k, i)]
    BY <1>1, <2>1, <2>3
  <2> QED
    BY <2>2, <2>4 DEF Feeder
<1>7. Won'
  <2> SUFFICES ASSUME NEW k \in DOMAIN matches, matches'[k].winner # Nobody
               PROVE  matches'[k].status = "done" /\ \E i \in Seat : matches'[k].player[i] = matches'[k].winner
    BY <1>1 DEF Won, Plays
  <2>1. CASE k = m
    BY <1>1, <1>2, <2>1, OpenedIs
  <2>2. CASE k # m
    BY <1>1, <2>2 DEF BracketInv, Meeting, Won, Plays
  <2> QED
    BY <2>1, <2>2
<1>8. Entered'
  <2> SUFFICES ASSUME NEW k \in DOMAIN matches, NEW i \in Seat
               PROVE  matches'[k].player[i] \in entrants \cup {Nobody}
    BY <1>1 DEF Entered
  <2>1. CASE k = m
    <3>1. Feeder(m, i) \in DOMAIN matches
      BY <1>1, <1>2, Meet
    <3> QED
      BY <1>1, <2>1, <3>1, Winner
  <2>2. CASE k # m
    BY <1>1, <2>2 DEF BracketInv, Meeting, Entered
  <2> QED
    BY <2>1, <2>2
<1>9. OnceEach'
  <2> SUFFICES ASSUME NEW a \in DOMAIN matches, NEW b \in DOMAIN matches, NEW i \in Seat, NEW j \in Seat,
                      a[1] = b[1], Set(a)', Set(b)',
                      matches'[a].player[i] = matches'[b].player[j], matches'[a].player[i] # Nobody
               PROVE  a = b /\ i = j
    BY <1>1 DEF OnceEach
  <2>1. CASE a[1] = round + 1
    <3>1. /\ Feeder(a, i) \in DOMAIN matches /\ Set(Feeder(a, i)) /\ Feeder(a, i)[1] = round
          /\ Feeder(b, j) \in DOMAIN matches /\ Set(Feeder(b, j)) /\ Feeder(b, j)[1] = round
          /\ Plays(matches'[a].player[i], Feeder(a, i)) /\ Plays(matches'[a].player[i], Feeder(b, j))
      BY <1>5, <2>1
    <3>2. Feeder(a, i) = Feeder(b, j)
      BY <3>1 DEF BracketInv, Meeting, OnceEach, Plays
    <3>3. a[1] > 1
      BY <1>2, <2>1
    <3> QED
      BY <1>2, <3>2, <3>3, Feeders
  <2>2. CASE a[1] # round + 1
    <3>1. a # m /\ b # m
      BY <2>2
    <3>2. matches'[a] = matches[a] /\ matches'[b] = matches[b] /\ Set(a) /\ Set(b)
      BY <1>1, <1>4, <3>1
    <3> QED
      BY <3>2 DEF BracketInv, Meeting, OnceEach
  <2> QED
    BY <2>1, <2>2
<1>10. Unbeaten'
  <2> SUFFICES ASSUME NEW a \in DOMAIN matches, NEW b \in DOMAIN matches, NEW u \in Player,
                      Set(a)', Plays(u, a)', b[1] < a[1], Set(b)', Plays(u, b)'
               PROVE  matches'[b].winner = u
    BY <1>1 DEF Unbeaten
  <2>1. CASE a = m
    <3>1. b # m /\ matches'[b] = matches[b] /\ Set(b) /\ Plays(u, b)
      BY <1>1, <1>2, <1>4, <2>1
    <3>2. PICK i \in Seat : matches'[m].player[i] = u
      BY <2>1 DEF Plays
    <3>3. /\ Feeder(m, i) \in DOMAIN matches /\ Feeder(m, i)[1] = round
          /\ Set(Feeder(m, i)) /\ Plays(u, Feeder(m, i)) /\ matches[Feeder(m, i)].winner = u
      BY <1>2, <1>5, <2>1, <3>2
    <3>4. CASE b[1] = round
      <4>1. b = Feeder(m, i)
        BY <3>1, <3>3, <3>4, <1>2 DEF BracketInv, Meeting, OnceEach, Plays
      <4> QED
        BY <3>1, <3>3, <4>1
    <3>5. CASE b[1] < round
      BY <3>1, <3>3, <3>5 DEF BracketInv, Meeting, Unbeaten
    <3> QED
      BY <1>2, <2>1, <3>4, <3>5
  <2>2. CASE a # m
    <3>1. Set(a) /\ Plays(u, a)
      BY <1>4, <2>2
    <3>2. b # m
      BY <1>2, <1>3, <3>1
    <3>3. matches'[b] = matches[b] /\ Set(b) /\ Plays(u, b)
      BY <1>1, <1>4, <3>2
    <3> QED
      BY <3>1, <3>3 DEF BracketInv, Meeting, Unbeaten
  <2> QED
    BY <2>1, <2>2
<1> QED
  BY <1>6, <1>7, <1>8, <1>9, <1>10 DEF Meeting

\* Every step keeps the bracket.
LEMMA BracketStep == ASSUME BracketInv, [Next]_vars PROVE BracketInv'
<1>1. OrderInv' /\ Typed' /\ TypeOK /\ Under /\ Typed
  BY OrderStep, TypedStep DEF BracketInv, Typed
<1> SUFFICES Meeting'
  BY <1>1 DEF BracketInv
<1>2. CASE UNCHANGED <<matches, entrants>>
  BY <1>1, <1>2, StaysAdvances, AdvancesMeet
<1>3. ASSUME NEW u \in Player, Register(u) \/ Unregister(u) PROVE Meeting'
  <2>1. status = "open" /\ matches' = matches
    BY <1>3 DEF Register, Unregister
  <2>2. DOMAIN matches = Bracket(0)
    BY <1>1, <2>1, TypeParts DEF Under
  <2>3. DOMAIN matches' = {}
    BY <2>1, <2>2 DEF Bracket
  <2> QED
    BY <2>3 DEF Meeting, WinnersMeet, Won, Entered, OnceEach, Unbeaten
<1>4. ASSUME NEW u \in Player, Purge(u) PROVE Meeting'
  <2>1. entrants' = entrants \ {u}
    BY <1>4 DEF Purge
  <2> QED
    BY <1>1, <1>4, <2>1, PurgeEmpties, EmptiesMeet
<1>5. CASE Start
  <2>1. PICK draw, n, all : Draws(draw, n, all) /\ rounds' = all /\ all >= 1
    BY <1>1, <1>5, StartDraws
  <2>2. entrants' = entrants
    BY <1>5 DEF Start
  <2> QED
    BY <1>1, <2>1, <2>2, DrawsMeet
<1>6. ASSUME NEW m \in DOMAIN matches, Begin(m) PROVE Meeting'
  <2>1. entrants' = entrants
    BY <1>6 DEF Begin
  <2> QED
    BY <1>1, <1>6, <2>1, BeginAdvances, AdvancesMeet
<1>7. ASSUME NEW m \in DOMAIN matches, NEW seat \in Seat, Finish(m, seat) PROVE Meeting'
  <2>1. entrants' = entrants
    BY <1>7 DEF Finish
  <2> QED
    BY <1>1, <1>7, <2>1, FinishAdvances, AdvancesMeet
<1>8. ASSUME NEW m \in DOMAIN matches, NEW seat \in Seat, Win(m, seat) \/ Forfeit(m, seat) \/ Award(m, seat)
      PROVE  Meeting'
  <2>1. Other(seat) \in Seat
    BY DEF Seat, Other
  <2> QED
    BY <1>7, <1>8, <2>1 DEF Win, Forfeit, Award
<1>9. CASE Give
  <2>1. doing.match \in DOMAIN matches /\ Plays(doing.player, doing.match)
    BY <1>1, <1>9 DEF Give, Under
  <2>2. Other(SeatOf(doing.match, doing.player)) \in Seat
    BY <2>1 DEF Seat, Other, SeatOf, Plays
  <2> QED
    BY <1>7, <1>9, <2>1, <2>2 DEF Give
<1>10. ASSUME NEW slot, <<round + 1, slot>> \in DOMAIN matches, Opens(slot), round < rounds, status = "running"
       PROVE  Meeting'
  <2>1. round >= 1 /\ entrants' = entrants
    BY <1>1, <1>10 DEF Under, Opens
  <2>2. Fills(<<round + 1, slot>>)
    BY <1>1, <1>10, <2>1, OpensOne
  <2> QED
    BY <2>1, <2>2, FillsMeet
<1>11. CASE OpenFirst
  <2>1. status = "running" /\ round < rounds /\ Opens(0) /\ rounds \in Nat /\ DOMAIN matches = Bracket(rounds)
    BY <1>1, <1>11, TypeParts DEF OpenFirst, Final
  <2>2. <<round + 1, 0>> \in DOMAIN matches
    <3>1. round + 1 \in 1..rounds
      BY <1>1, <2>1, TypeParts
    <3> QED
      BY <2>1, <3>1, Finals
  <2> QED
    BY <1>10, <2>1, <2>2
<1>12. CASE OpenAnother
  BY <1>1, <1>10, <1>12 DEF OpenAnother, Under
<1>13. CASE Halt
  <2>1. entrants' = entrants
    BY <1>13 DEF Halt
  <2> QED
    BY <1>1, <1>13, <2>1, HaltHalts, HaltsMeet
<1>14. ASSUME \/ \E u \in Player : Withdraw(u)
              \/ StartWithout \/ Rests \/ Close \/ Turn \/ Cancel \/ Stop \/ UNCHANGED vars
       PROVE  UNCHANGED <<matches, entrants>>
  BY <1>14 DEF Withdraw, StartWithout, Rests, Close, Turn, Cancel, Stop, vars
<1> QED
  BY <1>1, <1>2, <1>3, <1>4, <1>5, <1>6, <1>8, <1>9, <1>11, <1>12, <1>13, <1>14 DEF Next

\* Initially there is no match.
LEMMA InitBracket == Init => BracketInv
<1> SUFFICES ASSUME Init PROVE BracketInv
  OBVIOUS
<1>1. Bracket(0) = {}
  BY DEF Bracket
<1>2. DOMAIN matches = {}
  BY DEF Init
<1>3. OrderInv
  BY InitWhole DEF WholeInv
<1>4. matches \in [Bracket(rounds) -> Match]
  BY <1>1 DEF Init
<1>5. TypeOK
  BY <1>4, TournamentAssumption DEF Init, TypeOK, Anyone, Nothing
<1>6. Under
  BY DEF Init, Under, Nothing
<1>7. Meeting
  BY <1>2 DEF Meeting, WinnersMeet, Won, Entered, OnceEach, Unbeaten
<1> QED
  BY <1>3, <1>5, <1>6, <1>7 DEF BracketInv, Typed

\* Each match of the bracket is a match, and those who won the two before it meet in
\* it, whatever handler was cut short (tournamentAdvance).
THEOREM BracketAlwaysHolds == Spec => []BracketHolds
<1>1. Init => BracketInv
  BY InitBracket
<1>2. BracketInv /\ [Next]_vars => BracketInv'
  BY BracketStep
<1>3. BracketInv => BracketHolds
  BY DEF BracketInv, Typed, Meeting, BracketHolds
<1> QED
  BY <1>1, <1>2, <1>3, PTL DEF Spec

-----------------------------------------------------------------------------
(* The tournament goes on, while no handler is cut short.                  *)

\* The rounds opened so far, and what is set of the next.
Reached(m) ==
  \/ m[1] <= round
  \/ m[1] = round + 1 /\ (doing.at = "turn" \/ (doing.at = "open" /\ m[2] < doing.slot))

\* The matches reached were set by those who won; the others are still empty.
Filled == \A m \in DOMAIN matches : Reached(m) => matches[m].status # "waiting"
Empty ==
  \A m \in DOMAIN matches : ~Reached(m) =>
    matches[m].status = "waiting" /\ \A i \in Seat : matches[m].player[i] = Nobody
Fed ==
  \A m \in DOMAIN matches : m[1] > 1 /\ Reached(m) =>
    \A i \in Seat : matches[m].player[i] = matches[Feeder(m, i)].winner

\* Nobody is in a match that will not be, but for who gave up.
Void ==
  \A m \in DOMAIN matches : matches[m].status = "cancelled" =>
    \A i \in Seat : matches[m].player[i] \in gone \cup {Nobody}

\* Those who play are in the tournament, but for one who withdraws and one deleted.
InPlay ==
  \A m \in DOMAIN matches : Playing(m) =>
    \A i \in Seat :
      \/ matches[m].player[i] \in entrants \ gone
      \/ matches[m].player[i] = Nobody /\ purges > 0
      \/ doing.at = "give" /\ doing.match = m /\ doing.player = matches[m].player[i]

\* Between handlers the round goes on.
GoesOn == doing.at \in {"nothing", "give"} => ~RoundOver(round)

\* Who neither lost nor gave up is in the round.
Seated == \A u \in entrants \ gone : Beaten(u) \/ \E m \in Round(round) : Plays(u, m)

\* The winner of the final, and those who open a round, did not give up.
Crowned ==
  \A m \in DOMAIN matches :
    (m[1] = round + 1 /\ doing.at \in {"open", "turn"}) \/ (m[1] = round /\ round = rounds)
      => matches[m].winner \notin gone

RunInv == Filled /\ Empty /\ Fed /\ Void /\ InPlay /\ GoesOn /\ Seated /\ Crowned

GoingInv == BracketInv /\ WholeInv /\ (Whole => LastStanding /\ (status = "running" => RunInv))

\* What a tournament under way is known by.
LEMMA RunIs ==
  ASSUME GoingInv, Whole, status = "running"
  PROVE  /\ BracketInv /\ WholeInv /\ TypeOK /\ Under /\ RunInv /\ AtEnds /\ SetInOrder
         /\ round \in Nat /\ rounds \in Nat /\ round <= rounds /\ round >= 1 /\ purges \in Nat
         /\ DOMAIN matches = Bracket(rounds)
         /\ \A m \in DOMAIN matches :
              m = <<m[1], m[2]>> /\ m[1] \in Nat /\ m[1] <= rounds /\ m[1] >= 1 /\ m[2] \in Nat
         /\ Nobody \notin gone /\ Nobody \notin Player /\ entrants \subseteq Player
         /\ \A m \in DOMAIN matches : matches[m].status \in MatchStatus
<1>1. BracketInv /\ WholeInv /\ TypeOK /\ Under /\ RunInv /\ AtEnds /\ SetInOrder
  BY DEF GoingInv, BracketInv, Typed, WholeInv
<1>2. round >= 1
  BY <1>1 DEF Under
<1>3. \A m \in DOMAIN matches :
              m = <<m[1], m[2]>> /\ m[1] \in Nat /\ m[1] <= rounds /\ m[1] >= 1 /\ m[2] \in Nat
  BY <1>1, TypeParts, InBracket
<1> QED
  BY <1>1, <1>2, <1>3, TypeParts

\* A match to play is in the round under way, or in the next as it opens.
LEMMA PlayingIs ==
  ASSUME GoingInv, Whole, status = "running", NEW m \in DOMAIN matches, Playing(m)
  PROVE  Reached(m) /\ m[1] >= round /\ (doing.at \notin {"open", "turn"} => m[1] = round)
<1>1. Reached(m)
  BY RunIs DEF RunInv, Empty, Playing
<1>2. ~(m[1] < round)
  BY RunIs DEF BracketInv, OrderInv, Order, Past, Playing, Ended
<1> QED
  BY <1>1, <1>2, RunIs DEF Reached

\* A player in a set match, which they play or won, lost none if none is set after it.
LEMMA NotBeaten ==
  ASSUME BracketInv, Void, NEW u \in Player, u \notin gone, NEW m \in DOMAIN matches, Set(m), Plays(u, m),
         matches[m].winner = u \/ Playing(m), \A k \in DOMAIN matches : Set(k) => k[1] <= m[1]
  PROVE  ~Beaten(u)
<1> SUFFICES ASSUME NEW k \in DOMAIN matches, Ended(k), Plays(u, k), matches[k].winner # u
             PROVE  FALSE
  BY DEF Beaten, Plays, Seat
<1>1. u # Nobody
  BY TournamentAssumption
<1>2. Set(k)
  BY <1>1 DEF Ended, Set, Void, Plays
<1>3. k[1] \in Nat /\ m[1] \in Nat /\ k[1] <= m[1]
  BY <1>2, TypeParts, InBracket DEF BracketInv, Typed
<1>4. CASE k[1] < m[1]
  BY <1>2, <1>4 DEF BracketInv, Meeting, Unbeaten
<1>5. CASE k[1] = m[1]
  <2>1. k = m
    BY <1>1, <1>2, <1>5 DEF BracketInv, Meeting, OnceEach, Plays
  <2> QED
    BY <2>1 DEF Playing, Ended
<1> QED
  BY <1>3, <1>4, <1>5

\* Who lost keeps having lost, the matches over staying so.
LEMMA BeatenStays ==
  ASSUME NEW u, DOMAIN matches' = DOMAIN matches,
         \A k \in DOMAIN matches : Ended(k) => matches'[k] = matches[k]
  PROVE  Beaten(u) => Beaten(u)'
BY DEF Beaten, Ended

-----------------------------------------------------------------------------
(* The steps of a tournament under way.                                    *)

\* A step that leaves the matches and the round: only what is left to do changes.
LEMMA ThenRun ==
  ASSUME GoingInv, Whole, status = "running", UNCHANGED <<round, rounds, matches, entrants, gone, purges>>,
         doing.at \notin {"give", "open", "turn"}, doing'.at \notin {"open", "turn"},
         doing'.at \in {"nothing", "give"} => ~RoundOver(round)
  PROVE  RunInv'
<1>1. RunInv /\ \A m \in DOMAIN matches : Reached(m)' <=> Reached(m)
  BY RunIs DEF Reached
<1>2. Filled' /\ Empty' /\ Void'
  BY <1>1 DEF RunInv, Filled, Empty, Void
<1>3. Fed'
  BY <1>1 DEF RunInv, Fed, Feeder
<1>4. InPlay'
  BY <1>1 DEF RunInv, InPlay, Playing
<1>5. GoesOn'
  BY DEF GoesOn, RoundOver, Round, Ended
<1>6. Seated'
  BY <1>1 DEF RunInv, Seated, Beaten, Ended, Round, Plays
<1>7. Crowned'
  BY <1>1 DEF RunInv, Crowned
<1> QED
  BY <1>2, <1>3, <1>4, <1>5, <1>6, <1>7 DEF RunInv

\* The draw.
LEMMA StartRuns ==
  ASSUME Typed, Start PROVE RunInv'
<1>1. TypeOK /\ gone = {}
  BY DEF Typed, Under, Start
<1>2. PICK draw, n, all : Draws(draw, n, all) /\ rounds' = all /\ all >= 1
  BY <1>1, StartDraws
<1>3. /\ round' = 1 /\ doing' = [at |-> "advance"] /\ UNCHANGED <<entrants, gone>>
      /\ DOMAIN matches' = Bracket(all) /\ all \in Nat
  BY <1>2 DEF Start, Draws
<1>4. \A k \in Bracket(all) : Reached(k)' <=> k[1] = 1
  BY <1>3, InBracket DEF Reached
<1>5. Filled' /\ Empty'
  BY <1>1, <1>2, <1>3, <1>4, DrawIs DEF Filled, Empty
<1>6. Fed'
  BY <1>3, <1>4 DEF Fed
<1>7. Void'
  BY <1>1, <1>2, <1>3, DrawIs DEF Void
<1>8. InPlay'
  BY <1>1, <1>2, <1>3, DrawIs DEF InPlay, Playing
<1>9. GoesOn'
  BY <1>3 DEF GoesOn
<1>10. Seated'
  <2> SUFFICES ASSUME NEW u \in entrants PROVE \E k \in Bracket(all) : k[1] = 1 /\ Plays(u, k)'
    BY <1>3 DEF Seated, Round
  <2> QED
    BY <1>1, <1>2, DrawIs DEF Plays
<1>11. Crowned'
  BY <1>1, <1>3 DEF Crowned
<1> QED
  BY <1>5, <1>6, <1>7, <1>8, <1>9, <1>10, <1>11 DEF RunInv

\* A match becomes live.
LEMMA BeginRuns ==
  ASSUME GoingInv, Whole, status = "running", NEW m \in DOMAIN matches, Begin(m)
  PROVE  RunInv'
<1>1. /\ UNCHANGED <<status, round, rounds, entrants, gone, doing, purges>> /\ Idle /\ Playing(m)
      /\ doing.at = "nothing"
  BY AtNothing DEF Begin, tournament, Handler, Playing
<1>2. /\ DOMAIN matches' = DOMAIN matches
      /\ \A k \in DOMAIN matches :
           /\ matches'[k].player = matches[k].player /\ matches'[k].winner = matches[k].winner
           /\ Playing(k)' <=> Playing(k)
           /\ matches'[k].status \in {matches[k].status, "live"} /\ (~Playing(k) => matches'[k] = matches[k])
  <2>1. matches' = [matches EXCEPT ![m].status = "live"]
    BY DEF Begin
  <2>2. matches[m] \in Match
    BY RunIs, TypeParts
  <2>3. \A k \in DOMAIN matches : matches'[k] = IF k = m THEN [matches[m] EXCEPT !.status = "live"] ELSE matches[k]
    BY <2>1
  <2>4. LET live == [matches[m] EXCEPT !.status = "live"]
        IN  live.player = matches[m].player /\ live.winner = matches[m].winner /\ live.status = "live"
    BY <2>2 DEF Match
  <2> QED
    BY <1>1, <2>1, <2>3, <2>4 DEF Playing
<1>3. RunInv /\ (\A k \in DOMAIN matches : Reached(k)' <=> Reached(k)) /\ Reached(m)
  BY <1>1, RunIs, PlayingIs DEF Reached
<1>4. \A k \in DOMAIN matches : Ended(k)' <=> Ended(k)
  BY <1>2 DEF Ended, Playing
<1>5. Filled'
  BY <1>2, <1>3 DEF RunInv, Filled
<1>6. Empty'
  <2>1. \A k \in DOMAIN matches : ~Reached(k) => ~Playing(k)
    BY <1>3 DEF RunInv, Empty, Playing
  <2> QED
    BY <1>2, <1>3, <2>1 DEF RunInv, Empty
<1>7. Fed'
  <2> SUFFICES ASSUME NEW k \in DOMAIN matches, k[1] > 1, Reached(k), NEW i \in Seat
               PROVE  matches'[k].player[i] = matches'[Feeder(k, i)].winner
    BY <1>2, <1>3 DEF Fed, Feeder
  <2>1. Feeder(k, i) \in DOMAIN matches /\ matches[k].player[i] = matches[Feeder(k, i)].winner
    BY <1>3, RunIs, Meet DEF RunInv, Fed
  <2> QED
    BY <1>2, <2>1
<1>8. Void'
  BY <1>1, <1>2, <1>3 DEF RunInv, Void
<1>9. InPlay'
  BY <1>1, <1>2, <1>3 DEF RunInv, InPlay
<1>10. GoesOn'
  BY <1>1, <1>2, <1>3, <1>4 DEF RunInv, GoesOn, RoundOver, Round
<1>11. Seated'
  <2>1. \A k \in DOMAIN matches : \A u : Plays(u, k)' <=> Plays(u, k)
    BY <1>2 DEF Plays
  <2>2. \A u : Beaten(u) => Beaten(u)'
    BY <1>2, <1>4 DEF Beaten
  <2> QED
    BY <1>1, <1>2, <1>3, <2>1, <2>2 DEF RunInv, Seated, Round
<1>12. Crowned'
  BY <1>1, <1>2, <1>3 DEF RunInv, Crowned
<1> QED
  BY <1>5, <1>6, <1>7, <1>8, <1>9, <1>10, <1>11, <1>12 DEF RunInv

\* A match goes to one who did not give up.
LEMMA FinishRuns ==
  ASSUME GoingInv, Whole, status = "running", NEW m \in DOMAIN matches, NEW seat \in Seat, Finish(m, seat),
         purges' = purges, doing.at \in {"nothing", "give"}, doing.at = "give" => m = doing.match,
         Playing(m) => matches[m].player[seat] \notin gone
  PROVE  RunInv'
<1>1. UNCHANGED <<status, round, rounds, entrants, gone, purges>> /\ doing' = [at |-> "advance"]
  BY DEF Finish, tournament
<1>2. /\ DOMAIN matches' = DOMAIN matches
      /\ \A k \in DOMAIN matches : matches'[k].player = matches[k].player
      /\ \A k \in DOMAIN matches : k # m \/ ~Playing(m) => matches'[k] = matches[k]
      /\ ~Playing(m)' /\ (Playing(m) => matches'[m].winner = matches[m].player[seat] /\ matches'[m].status = "done")
  <2>1. TypeOK
    BY RunIs
  <2>2. /\ Advances /\ (\A k \in DOMAIN matches : k # m => matches'[k] = matches[k])
        /\ ~Playing(m)' /\ (Playing(m) => matches'[m].winner = matches[m].player[seat])
    BY <2>1, FinishAdvances
  <2>3. ~Playing(m) => matches' = matches
    BY DEF Finish
  <2>4. Playing(m) => matches'[m].status = "done"
    BY <2>2 DEF Advances, Playing
  <2> QED
    BY <2>2, <2>3, <2>4 DEF Advances
<1>3. /\ RunInv /\ (\A k \in DOMAIN matches : Reached(k)' <=> Reached(k))
      /\ Playing(m) => Reached(m) /\ m[1] = round
  BY <1>1, RunIs, PlayingIs DEF Reached
<1>4. \A k \in DOMAIN matches : Ended(k) => matches'[k] = matches[k]
  BY <1>2 DEF Ended, Playing
<1>5. Filled'
  BY <1>2, <1>3 DEF RunInv, Filled
<1>6. Empty'
  BY <1>2, <1>3 DEF RunInv, Empty
<1>7. Fed'
  <2> SUFFICES ASSUME NEW k \in DOMAIN matches, k[1] > 1, Reached(k), NEW i \in Seat
               PROVE  matches'[k].player[i] = matches'[Feeder(k, i)].winner
    BY <1>2, <1>3 DEF Fed, Feeder
  <2>1. /\ Feeder(k, i) \in DOMAIN matches /\ matches[k].player[i] = matches[Feeder(k, i)].winner
        /\ Feeder(k, i)[1] = k[1] - 1
    BY <1>3, RunIs, Meet DEF RunInv, Fed
  <2>2. k[1] <= round
    BY DEF Reached
  <2>3. Feeder(k, i) # m \/ ~Playing(m)
    <3>1. k[1] - 1 # round
      BY <2>2, RunIs
    <3> QED
      BY <1>3, <2>1, <3>1
  <2>4. matches'[Feeder(k, i)] = matches[Feeder(k, i)]
    BY <1>2, <2>1, <2>3
  <2> QED
    BY <1>2, <2>1, <2>4
<1>8. Void'
  BY <1>1, <1>2, <1>3 DEF RunInv, Void
<1>9. InPlay'
  <2>1. \A k \in DOMAIN matches : Playing(k)' => k # m /\ Playing(k) /\ matches'[k] = matches[k]
    BY <1>2 DEF Playing
  <2> QED
    BY <1>1, <1>2, <1>3, <2>1 DEF RunInv, InPlay
<1>10. GoesOn'
  BY <1>1 DEF GoesOn
<1>11. Seated'
  <2>1. \A k \in DOMAIN matches : \A u : Plays(u, k)' <=> Plays(u, k)
    BY <1>2 DEF Plays
  <2>2. \A u : Beaten(u) => Beaten(u)'
    BY <1>2, <1>4, BeatenStays
  <2> QED
    BY <1>1, <1>2, <1>3, <2>1, <2>2 DEF RunInv, Seated, Round
<1>12. Crowned'
  <2>1. \A k \in DOMAIN matches : matches'[k].winner = matches[k].winner \/ matches'[k].winner \notin gone
    BY <1>2
  <2> QED
    BY <1>1, <1>2, <1>3, <2>1 DEF RunInv, Crowned
<1> QED
  BY <1>5, <1>6, <1>7, <1>8, <1>9, <1>10, <1>11, <1>12 DEF RunInv

\* A player gives up: the match they play is to be given.
LEMMA WithdrawRuns ==
  ASSUME GoingInv, Whole, status = "running", NEW u \in Player, Withdraw(u)
  PROVE  RunInv'
<1>1. /\ UNCHANGED <<status, round, rounds, entrants, matches, purges>> /\ Idle /\ doing.at = "nothing"
      /\ gone' = gone \cup {u} /\ Nobody # u
  BY AtNothing, TournamentAssumption DEF Withdraw, tournament, Handler
<1>2. /\ doing'.at \in {"nothing", "give"}
      /\ Given(u) # {} => \E m \in Given(u) : doing' = [at |-> "give", match |-> m, player |-> u]
  <2>1. CASE Given(u) = {}
    BY <2>1 DEF Withdraw, Nothing
  <2>2. CASE Given(u) # {}
    <3>1. PICK m \in Given(u) : doing' = [at |-> "give", match |-> m, player |-> u]
      BY <2>2 DEF Withdraw
    <3> QED
      BY <3>1
  <2> QED
    BY <2>1, <2>2
<1>3. RunInv /\ \A m \in DOMAIN matches : Reached(m)' <=> Reached(m)
  BY <1>1, <1>2, RunIs DEF Reached
<1>4. Filled' /\ Empty' /\ Void'
  BY <1>1, <1>3 DEF RunInv, Filled, Empty, Void
<1>5. Fed'
  BY <1>1, <1>3 DEF RunInv, Fed, Feeder
<1>6. InPlay'
  <2> SUFFICES ASSUME NEW m \in DOMAIN matches, Playing(m), NEW i \in Seat
               PROVE  \/ matches[m].player[i] \in entrants \ (gone \cup {u})
                      \/ matches[m].player[i] = Nobody /\ purges > 0
                      \/ doing'.at = "give" /\ doing'.match = m /\ doing'.player = matches[m].player[i]
    BY <1>1 DEF InPlay, Playing
  <2>1. \/ matches[m].player[i] \in entrants \ gone
        \/ matches[m].player[i] = Nobody /\ purges > 0
    BY <1>1, <1>3 DEF RunInv, InPlay
  <2>2. CASE matches[m].player[i] = u
    <3>1. m \in Given(u)
      BY <2>2 DEF Given
    <3>2. PICK k \in Given(u) : doing' = [at |-> "give", match |-> k, player |-> u]
      BY <1>2, <3>1
    <3>3. k \in DOMAIN matches /\ Playing(k) /\ \E j \in Seat : matches[k].player[j] = u
      BY DEF Given
    <3>4. k[1] = round /\ m[1] = round
      BY <1>1, <3>3, PlayingIs
    <3>5. Set(k) /\ Set(m)
      BY <3>3 DEF Playing, Set
    <3>6. k = m
      BY <1>1, <2>2, <3>3, <3>4, <3>5 DEF GoingInv, BracketInv, Meeting, OnceEach
    <3> QED
      BY <2>2, <3>2, <3>6
  <2>3. CASE matches[m].player[i] # u
    BY <2>1, <2>3
  <2> QED
    BY <2>2, <2>3
<1>7. GoesOn'
  BY <1>1, <1>3 DEF RunInv, GoesOn, RoundOver, Round, Ended
<1>8. Seated'
  BY <1>1, <1>3 DEF RunInv, Seated, Beaten, Ended, Round, Plays
<1>9. Crowned'
  <2> SUFFICES ASSUME NEW m \in DOMAIN matches, m[1] = round, round = rounds
               PROVE  matches[m].winner \notin gone \cup {u}
    BY <1>1, <1>2 DEF Crowned
  <2>1. PICK k \in DOMAIN matches : k[1] = round /\ ~Ended(k)
    BY <1>1, <1>3 DEF RunInv, GoesOn, RoundOver, Round
  <2>2. k = m
    BY <2>1, RunIs, Finals
  <2>3. matches[m].winner = Nobody
    BY <2>1, <2>2 DEF GoingInv, BracketInv, Meeting, Won, Ended
  <2> QED
    BY <1>1, <2>3, RunIs
<1> QED
  BY <1>4, <1>5, <1>6, <1>7, <1>8, <1>9 DEF RunInv

\* The next match is set: it was waiting, and is the next reached.
LEMMA OpensReach ==
  ASSUME GoingInv, Whole, status = "running", NEW slot \in Nat, Opens(slot), <<round + 1, slot>> \in DOMAIN matches,
         \/ doing.at = "advance" /\ slot = 0
         \/ doing.at = "open" /\ slot = doing.slot
  PROVE  /\ \A k \in DOMAIN matches : Reached(k)' <=> Reached(k) \/ k = <<round + 1, slot>>
         /\ ~Reached(<<round + 1, slot>>) /\ doing'.at \in {"open", "turn"} /\ round' = round
<1>1. /\ round' = round /\ rounds \in Nat /\ DOMAIN matches = Bracket(rounds) /\ round \in Nat
      /\ doing' = IF <<round + 1, slot + 1>> \in DOMAIN matches
                  THEN [at |-> "open", slot |-> slot + 1] ELSE [at |-> "turn"]
  BY RunIs DEF Opens, tournament
<1>2. ~Reached(<<round + 1, slot>>)
  BY <1>1 DEF Reached
<1>3. ASSUME NEW k \in DOMAIN matches, k[1] = round + 1
      PROVE  /\ k = <<round + 1, k[2]>> /\ k[2] \in Nat /\ (k[2] = slot <=> k = <<round + 1, slot>>)
             /\ <<round + 1, slot + 1>> \notin DOMAIN matches => k[2] <= slot
  <2>1. k = <<k[1], k[2]>> /\ k[1] \in 1..rounds /\ k[2] \in Nat /\ k[2] < Doubled(rounds - k[1])
    BY <1>1, Places
  <2>2. Doubled(rounds - (round + 1)) \in Nat
    <3>1. rounds - (round + 1) \in Nat
      BY <1>1, <1>3, <2>1
    <3> QED
      BY <3>1, DoubledIs
  <2>3. <<round + 1, slot + 1>> \notin DOMAIN matches => ~(slot + 1 < Doubled(rounds - (round + 1)))
    BY <1>1, <1>3, <2>1, Places
  <2> QED
    BY <1>3, <2>1, <2>2, <2>3
<1>4. ASSUME NEW k \in DOMAIN matches PROVE Reached(k)' <=> Reached(k) \/ k = <<round + 1, slot>>
  <2>1. k[1] \in Nat
    BY RunIs
  <2>2. CASE k[1] # round + 1
    BY <1>1, <2>1, <2>2 DEF Reached
  <2>3. CASE k[1] = round + 1
    <3>1. Reached(k) <=> k[2] < slot
      BY <1>1, <1>3, <2>3 DEF Reached
    <3>2. Reached(k)' <=> k[2] <= slot
      <4>1. CASE <<round + 1, slot + 1>> \in DOMAIN matches
        <5>1. Reached(k)' <=> k[2] < slot + 1
          BY <1>1, <2>3, <4>1 DEF Reached
        <5> QED
          BY <1>3, <2>3, <5>1
      <4>2. CASE <<round + 1, slot + 1>> \notin DOMAIN matches
        <5>1. Reached(k)'
          BY <1>1, <2>3, <4>2 DEF Reached
        <5> QED
          BY <1>3, <2>3, <4>2, <5>1
      <4> QED
        BY <4>1, <4>2
    <3> QED
      BY <1>3, <2>3, <3>1, <3>2
  <2> QED
    BY <2>2, <2>3
<1>5. doing'.at \in {"open", "turn"}
  BY <1>1
<1> QED
  BY <1>1, <1>2, <1>4, <1>5

\* The next round's match is played, won, or given: nobody who gave up goes on.
LEMMA OpensRuns ==
  ASSUME GoingInv, Whole, status = "running", NEW slot \in Nat, Opens(slot), <<round + 1, slot>> \in DOMAIN matches,
         round < rounds,
         \/ doing.at = "advance" /\ slot = 0
         \/ doing.at = "open" /\ slot = doing.slot
  PROVE  RunInv'
<1> DEFINE m == <<round + 1, slot>>
<1>1. /\ UNCHANGED <<round, rounds, entrants, gone, purges>>
      /\ doing'.at \in {"open", "turn"} /\ ~Reached(m) /\ m \in DOMAIN matches
      /\ \A k \in DOMAIN matches : Reached(k)' <=> Reached(k) \/ k = m
      /\ m[1] = round + 1
  BY OpensReach DEF Opens, tournament, Handler
<1>2. Fills(m)
  BY RunIs, OpensOne DEF Typed
<1> HIDE DEF m
<1>3. /\ DOMAIN matches' = DOMAIN matches
      /\ \A k \in DOMAIN matches : k # m => matches'[k] = matches[k]
      /\ \A i \in Seat : matches'[m].player[i] = matches[Feeder(m, i)].winner
      /\ matches'[m].player \in [Seat -> Anyone]
      /\ matches'[m].status = Opened(matches'[m].player).status
      /\ matches'[m].winner = Opened(matches'[m].player).winner
  <2>1. matches'[m] \in Match
    BY <1>2 DEF Fills
  <2> QED
    BY <1>2, <2>1, MatchParts DEF Fills
<1>4. LET o == Opened(matches'[m].player)
      IN  /\ o.status \in {"ready", "done", "cancelled"}
          /\ o.status = "ready" => \A i \in Seat : matches'[m].player[i] # Nobody /\ matches'[m].player[i] \notin gone
          /\ o.status = "cancelled" => \A i \in Seat : matches'[m].player[i] \in gone \cup {Nobody}
          /\ o.winner \notin gone
  BY <1>3, RunIs, OpenedIs
<1>5. RunInv /\ BracketInv /\ round \in Nat /\ m[1] > 1
  BY <1>1, RunIs
<1>6. matches[m].status = "waiting"
  BY <1>1, <1>5 DEF RunInv, Empty
<1>7. Filled'
  BY <1>1, <1>3, <1>4, <1>5 DEF RunInv, Filled
<1>8. Empty'
  BY <1>1, <1>3, <1>5 DEF RunInv, Empty
<1>9. Fed'
  <2> SUFFICES ASSUME NEW k \in DOMAIN matches, k[1] > 1, Reached(k) \/ k = m, NEW i \in Seat
               PROVE  matches'[k].player[i] = matches'[Feeder(k, i)].winner
    BY <1>1, <1>3 DEF Fed, Feeder
  <2>1. Feeder(k, i) \in DOMAIN matches /\ Feeder(k, i)[1] = k[1] - 1
    BY <1>5, Meet
  <2>2. k[1] <= round + 1 /\ k[1] \in Nat
    BY <1>1, <1>5, RunIs DEF Reached
  <2>3. Feeder(k, i) # m
    BY <1>1, <1>5, <2>1, <2>2
  <2>4. matches'[Feeder(k, i)] = matches[Feeder(k, i)]
    BY <1>3, <2>1, <2>3
  <2>5. matches'[k].player[i] = matches[Feeder(k, i)].winner
    <3>1. CASE k = m
      BY <1>3, <3>1
    <3>2. CASE k # m
      BY <1>3, <1>5, <3>2 DEF RunInv, Fed
    <3> QED
      BY <3>1, <3>2
  <2> QED
    BY <2>4, <2>5
<1>10. Void'
  BY <1>1, <1>3, <1>4, <1>5 DEF RunInv, Void
<1>11. InPlay'
  <2> SUFFICES ASSUME NEW k \in DOMAIN matches, Playing(k)', NEW i \in Seat
               PROVE  \/ matches'[k].player[i] \in entrants \ gone
                      \/ matches'[k].player[i] = Nobody /\ purges > 0
    BY <1>1, <1>3 DEF InPlay
  <2>1. CASE k = m
    <3>1. matches'[m].player[i] # Nobody /\ matches'[m].player[i] \notin gone
      BY <1>3, <1>4, <2>1 DEF Playing
    <3>2. Feeder(m, i) \in DOMAIN matches
      BY <1>1, <1>5, Meet
    <3> QED
      BY <1>3, <1>5, <2>1, <3>1, <3>2, Winner
  <2>2. CASE k # m
    <3>1. matches'[k] = matches[k] /\ Playing(k) /\ doing.at # "give"
      BY <1>3, <2>2 DEF Playing
    <3> QED
      BY <1>5, <3>1 DEF RunInv, InPlay
  <2> QED
    BY <2>1, <2>2
<1>12. GoesOn'
  BY <1>1 DEF GoesOn
<1>13. Seated'
  <2>1. \A k \in DOMAIN matches : k # m => \A u : Plays(u, k)' <=> Plays(u, k)
    BY <1>3 DEF Plays
  <2>2. \A u : Beaten(u) => Beaten(u)'
    <3>1. \A k \in DOMAIN matches : Ended(k) => matches'[k] = matches[k]
      BY <1>3, <1>6 DEF Ended
    <3> QED
      BY <1>3, <3>1, BeatenStays
  <2>3. \A k \in Round(round) : k # m /\ k \in DOMAIN matches
    BY <1>1, <1>5 DEF Round
  <2>4. Round(round)' = Round(round)
    BY <1>1, <1>3 DEF Round
  <2> QED
    BY <1>1, <1>5, <2>1, <2>2, <2>3, <2>4 DEF RunInv, Seated
<1>14. Crowned'
  <2> SUFFICES ASSUME NEW k \in DOMAIN matches, k[1] = round + 1 PROVE matches'[k].winner \notin gone
    BY <1>1, <1>3, RunIs DEF Crowned
  <2>1. CASE k = m
    BY <1>3, <1>4, <2>1
  <2>2. CASE k # m /\ Reached(k)
    <3>1. doing.at = "open"
      BY <1>5, <2>2 DEF Reached
    <3> QED
      BY <1>3, <1>5, <2>2, <3>1 DEF RunInv, Crowned
  <2>3. CASE k # m /\ ~Reached(k)
    <3>1. matches[k].status = "waiting"
      BY <1>5, <2>3 DEF RunInv, Empty
    <3>2. matches[k].winner = Nobody
      BY <1>5, <3>1 DEF BracketInv, Meeting, Won
    <3> QED
      BY <1>3, <2>3, <3>2, RunIs
  <2> QED
    BY <2>1, <2>2, <2>3
<1> QED
  BY <1>7, <1>8, <1>9, <1>10, <1>11, <1>12, <1>13, <1>14 DEF RunInv

\* The next round begins: who won is seated in it.
LEMMA TurnRuns == ASSUME GoingInv, Whole, status = "running", Turn PROVE RunInv'
<1>1. /\ round' = round + 1 /\ doing' = [at |-> "advance"] /\ doing.at = "turn"
      /\ UNCHANGED <<rounds, entrants, gone, matches, purges>>
  BY DEF Turn, Handler
<1>2. /\ RunInv /\ BracketInv /\ round \in Nat /\ rounds \in Nat /\ DOMAIN matches = Bracket(rounds) /\ round < rounds
      /\ RoundOver(round) /\ \A k \in DOMAIN matches : k[1] \in Nat
  BY <1>1, RunIs DEF Under, BracketInv, OrderInv, Order, Opening
<1>3. \A k \in DOMAIN matches : Reached(k)' <=> Reached(k)
  BY <1>1, <1>2 DEF Reached
<1>4. Filled' /\ Empty' /\ Void'
  BY <1>1, <1>2, <1>3 DEF RunInv, Filled, Empty, Void
<1>5. Fed'
  BY <1>1, <1>2, <1>3 DEF RunInv, Fed, Feeder
<1>6. InPlay'
  BY <1>1, <1>2 DEF RunInv, InPlay, Playing
<1>7. GoesOn'
  BY <1>1 DEF GoesOn
<1>8. Seated'
  <2> SUFFICES ASSUME NEW u \in entrants \ gone, ~Beaten(u)
               PROVE  \E k \in DOMAIN matches : k[1] = round + 1 /\ Plays(u, k)
    BY <1>1 DEF Seated, Beaten, Ended, Round, Plays
  <2>1. PICK m \in DOMAIN matches : m[1] = round /\ Plays(u, m)
    BY <1>2 DEF RunInv, Seated, Round
  <2>2. matches[m].winner = u
    <3>1. Ended(m) /\ u \in {matches[m].player[0], matches[m].player[1]}
      BY <1>2, <2>1 DEF RoundOver, Round, Plays, Seat
    <3> QED
      BY <3>1 DEF Beaten
  <2>3. PICK k \in Bracket(rounds) : \E i \in Seat : k[1] = m[1] + 1 /\ Feeder(k, i) = m
    BY <1>2, <2>1, Feeds
  <2>4. k \in DOMAIN matches /\ k[1] = round + 1 /\ k[1] > 1 /\ Reached(k)
    BY <1>1, <1>2, <2>1, <2>3, RunIs DEF Reached
  <2>5. Plays(u, k)
    BY <1>2, <2>2, <2>3, <2>4 DEF RunInv, Fed, Plays
  <2> QED
    BY <2>4, <2>5
<1>9. Crowned'
  BY <1>1, <1>2 DEF RunInv, Crowned
<1> QED
  BY <1>4, <1>5, <1>6, <1>7, <1>8, <1>9 DEF RunInv

\* An account is deleted.
LEMMA PurgeRuns == ASSUME GoingInv, Whole, status = "running", NEW u \in Player, Purge(u) PROVE RunInv'
<1>1. /\ UNCHANGED <<round, rounds, doing>> /\ Idle /\ doing.at = "nothing"
      /\ entrants' = entrants \ {u} /\ gone' = gone \ {u} /\ purges' = purges + 1
  BY AtNothing DEF Purge
<1>2. /\ RunInv /\ BracketInv /\ Nobody \notin gone /\ u # Nobody /\ purges \in Nat /\ Empties(u)
      /\ Nobody \notin entrants
  BY RunIs, PurgeEmpties, TournamentAssumption
<1>3. /\ DOMAIN matches' = DOMAIN matches
      /\ \A k \in DOMAIN matches :
           /\ matches'[k].status = matches[k].status
           /\ \A i \in Seat : matches'[k].player[i] = Left(u, matches[k].player[i])
           /\ matches'[k].winner = Left(u, matches[k].winner)
  BY <1>2 DEF Empties
<1>4. \A k \in DOMAIN matches : /\ Reached(k)' <=> Reached(k)
                                /\ Playing(k)' <=> Playing(k)
                                /\ Ended(k)' <=> Ended(k)
  BY <1>1, <1>3 DEF Reached, Playing, Ended
<1>5. Filled'
  BY <1>2, <1>3, <1>4 DEF RunInv, Filled
<1>6. Empty'
  BY <1>2, <1>3, <1>4 DEF RunInv, Empty, Left
<1>7. Fed'
  <2> SUFFICES ASSUME NEW k \in DOMAIN matches, k[1] > 1, Reached(k), NEW i \in Seat
               PROVE  matches'[k].player[i] = matches'[Feeder(k, i)].winner
    BY <1>3, <1>4 DEF Fed, Feeder
  <2>1. Feeder(k, i) \in DOMAIN matches /\ matches[k].player[i] = matches[Feeder(k, i)].winner
    BY <1>2, Meet DEF RunInv, Fed
  <2> QED
    BY <1>3, <2>1
<1>8. Void'
  BY <1>1, <1>2, <1>3 DEF RunInv, Void, Left
<1>9. InPlay'
  <2> SUFFICES ASSUME NEW k \in DOMAIN matches, Playing(k), NEW i \in Seat
               PROVE  \/ matches'[k].player[i] \in (entrants \ {u}) \ (gone \ {u})
                      \/ matches'[k].player[i] = Nobody /\ purges + 1 > 0
    BY <1>1, <1>3, <1>4 DEF InPlay
  <2>1. matches[k].player[i] \in entrants \ gone \/ matches[k].player[i] = Nobody
    BY <1>1, <1>2 DEF RunInv, InPlay
  <2>2. matches'[k].player[i] = IF matches[k].player[i] = u THEN Nobody ELSE matches[k].player[i]
    BY <1>3 DEF Left
  <2>3. purges + 1 > 0
    BY <1>2
  <2> QED
    BY <2>1, <2>2, <2>3
<1>10. GoesOn'
  BY <1>1, <1>2, <1>3, <1>4 DEF RunInv, GoesOn, RoundOver, Round
<1>11. Seated'
  <2>1. ASSUME NEW v, v # u, v # Nobody, NEW k \in DOMAIN matches
        PROVE  (Plays(v, k)' <=> Plays(v, k)) /\ (matches'[k].winner = v <=> matches[k].winner = v)
    BY <1>3, <2>1 DEF Plays, Left
  <2>2. ASSUME NEW v, v # u, v # Nobody, Beaten(v) PROVE Beaten(v)'
    <3>1. PICK k \in DOMAIN matches : Ended(k) /\ Plays(v, k) /\ matches[k].winner # v
      BY <2>2 DEF Beaten, Plays, Seat
    <3>2. k \in DOMAIN matches' /\ Ended(k)' /\ Plays(v, k)' /\ matches'[k].winner # v
      BY <1>3, <1>4, <2>1, <2>2, <3>1
    <3> QED
      BY <3>2 DEF Beaten, Plays, Seat
  <2>3. \A v \in entrants' \ gone' : v \in entrants \ gone /\ v # u /\ v # Nobody
    BY <1>1, <1>2
  <2>4. Round(round)' = Round(round)
    BY <1>1, <1>3 DEF Round
  <2>5. \A k \in Round(round) : k \in DOMAIN matches
    BY DEF Round
  <2> QED
    BY <1>2, <2>1, <2>2, <2>3, <2>4, <2>5 DEF RunInv, Seated
<1>12. Crowned'
  BY <1>1, <1>2, <1>3 DEF RunInv, Crowned, Left
<1> QED
  BY <1>5, <1>6, <1>7, <1>8, <1>9, <1>10, <1>11, <1>12 DEF RunInv

\* Every step keeps a tournament under way going.
LEMMA RunStep == ASSUME GoingInv, Whole', [Next]_vars, status' = "running" PROVE RunInv'
<1>0. stops \in Nat /\ Typed
  BY TypeParts DEF GoingInv, BracketInv, Typed
<1>1. CASE Stop
  BY <1>0, <1>1 DEF Stop, Whole
<1>2. CASE Start
  BY <1>0, <1>2, StartRuns
<1>3. ASSUME ~Stop, ~Start PROVE status = "running" /\ Whole
  BY <1>3 DEF Next, vars, tournament, Register, Unregister, Withdraw, Purge, StartWithout, Begin, Win, Forfeit,
     Award, Finish, Give, Rests, Close, OpenFirst, OpenAnother, Opens, Turn, Cancel, Halt, Handler, Whole
<1> SUFFICES ASSUME status = "running", Whole PROVE RunInv'
  BY <1>1, <1>2, <1>3
<1>4. /\ RunInv /\ TypeOK /\ Under /\ AtEnds /\ SetInOrder /\ BracketInv
      /\ round \in Nat /\ rounds \in Nat /\ DOMAIN matches = Bracket(rounds)
  BY RunIs
<1>5. ASSUME NEW u \in Player, Register(u) \/ Unregister(u) PROVE FALSE
  BY <1>5 DEF Register, Unregister
<1>6. ASSUME NEW u \in Player, Withdraw(u) PROVE RunInv'
  BY <1>6, WithdrawRuns
<1>7. ASSUME NEW u \in Player, Purge(u) PROVE RunInv'
  BY <1>7, PurgeRuns
<1>8. ASSUME NEW m \in DOMAIN matches, Begin(m) PROVE RunInv'
  BY <1>8, BeginRuns
<1>9. ASSUME NEW m \in DOMAIN matches, NEW seat \in Seat, Win(m, seat) \/ Forfeit(m, seat) \/ Award(m, seat)
      PROVE  RunInv'
  <2>1. PICK to \in Seat : Finish(m, to) /\ Idle /\ Handler /\ doing.at = "nothing"
    <3>1. Other(seat) \in Seat
      BY DEF Seat, Other
    <3> QED
      BY <1>9, <3>1, AtNothing DEF Win, Forfeit, Award
  <2>2. Playing(m) => matches[m].player[to] \notin gone
    BY <1>4, <2>1, RunIs DEF RunInv, InPlay
  <2> QED
    BY <2>1, <2>2, FinishRuns DEF Handler
<1>10. CASE Give
  <2> DEFINE m == doing.match
             mine == SeatOf(m, doing.player)
             to == Other(mine)
  <2>1. doing.at = "give" /\ Finish(m, to) /\ purges' = purges /\ m \in DOMAIN matches /\ Plays(doing.player, m)
    BY <1>4, <1>10 DEF Give, Handler, Under
  <2>2. mine \in Seat /\ matches[m].player[mine] = doing.player
    BY <2>1 DEF SeatOf, Plays
  <2>3. to \in Seat /\ to # mine
    BY <2>2 DEF Seat, Other
  <2> HIDE DEF m, mine, to
  <2>4. ASSUME Playing(m) PROVE matches[m].player[to] \notin gone
    <3>1. \/ matches[m].player[to] \in entrants \ gone
          \/ matches[m].player[to] = Nobody
          \/ doing.player = matches[m].player[to]
      BY <1>4, <2>1, <2>3, <2>4 DEF RunInv, InPlay
    <3>2. CASE doing.player = matches[m].player[to] /\ matches[m].player[to] # Nobody
      <4>1. Set(m)
        BY <2>4 DEF Playing, Set
      <4>2. to = mine
        BY <1>4, <2>1, <2>2, <2>3, <3>2, <4>1 DEF BracketInv, Meeting, OnceEach
      <4> QED
        BY <2>3, <4>2
    <3> QED
      BY <3>1, <3>2, RunIs
  <2>5. doing.at = "give" => m = doing.match
    BY DEF m
  <2> QED
    BY <2>1, <2>3, <2>4, <2>5, FinishRuns
<1>11. CASE Rests
  <2>1. /\ UNCHANGED <<round, rounds, matches, entrants, gone, purges>> /\ doing.at = "advance"
        /\ ~RoundOver(round) /\ doing'.at = "nothing"
    BY <1>11 DEF Rests, tournament, Handler, Nothing
  <2> QED
    BY <2>1, ThenRun
<1>12. CASE OpenFirst
  <2>1. doing.at = "advance" /\ round < rounds /\ Opens(0)
    BY <1>4, <1>12 DEF OpenFirst, Final
  <2>2. <<round + 1, 0>> \in DOMAIN matches
    <3>1. round + 1 \in 1..rounds
      BY <1>4, <2>1
    <3> QED
      BY <1>4, <3>1, Finals
  <2> QED
    BY <2>1, <2>2, OpensRuns
<1>13. CASE OpenAnother
  <2>1. /\ doing.at = "open" /\ Opens(doing.slot) /\ doing.slot \in Nat /\ round < rounds
        /\ <<round + 1, doing.slot>> \in DOMAIN matches
    BY <1>4, <1>13 DEF OpenAnother, SetInOrder, Under
  <2> QED
    BY <2>1, OpensRuns
<1>14. CASE Turn
  BY <1>14, TurnRuns
<1>15. CASE StartWithout \/ Close \/ Cancel
  BY <1>15 DEF StartWithout, Close, Cancel
<1>16. CASE Halt
  BY <1>4, <1>16 DEF Halt, Under
<1>17. CASE UNCHANGED vars
  <2>1. UNCHANGED <<status, round, rounds, champion, entrants, gone, matches, doing, stops, purges>>
    BY <1>17 DEF vars, tournament
  <2>2. Filled' /\ Empty' /\ Void' /\ InPlay' /\ GoesOn' /\ Crowned'
    BY <1>4, <2>1 DEF RunInv, Filled, Empty, Void, InPlay, GoesOn, Crowned, Reached, Playing, RoundOver, Round, Ended
  <2>3. Fed' /\ Seated'
    BY <1>4, <2>1 DEF RunInv, Fed, Feeder, Seated, Beaten, Ended, Round, Plays, Reached
  <2> QED
    BY <2>2, <2>3 DEF RunInv
<1> QED
  BY <1>1, <1>2, <1>5, <1>6, <1>7, <1>8, <1>9, <1>10, <1>11, <1>12, <1>13, <1>14, <1>15, <1>16, <1>17 DEF Next

\* The final's winner is the one left.
LEMMA CloseCrowns ==
  ASSUME GoingInv, Whole, Close PROVE LastStanding'
<1>1. /\ status = "running" /\ round = rounds /\ RoundOver(round) /\ doing.at = "advance"
      /\ champion' = matches[<<round, 0>>].winner
      /\ UNCHANGED <<entrants, gone, matches>>
  <2>1. status = "running"
    BY DEF Close
  <2> QED
    BY <2>1, RunIs DEF Close, Final
<1>2. /\ RunInv /\ BracketInv /\ Nobody \notin gone /\ rounds \in Nat /\ rounds >= 1 /\ DOMAIN matches = Bracket(rounds)
      /\ entrants \subseteq Player /\ Nobody \notin Player
      /\ \A k \in DOMAIN matches : k[1] <= rounds
  BY <1>1, RunIs
<1> DEFINE f == <<round, 0>>
<1>3. f \in DOMAIN matches /\ f[1] = round /\ Ended(f) /\ champion' = matches[f].winner
  <2>1. f \in DOMAIN matches
    BY <1>1, <1>2, Finals
  <2> QED
    BY <1>1, <2>1 DEF RoundOver, Round
<1>4. \A k \in Round(round) : k = f
  BY <1>1, <1>2, Finals DEF Round
<1> HIDE DEF f
<1> SUFFICES ASSUME NEW u \in entrants
             PROVE  u = matches[f].winner <=> ~Beaten(u) /\ u \notin gone
  BY <1>1, <1>3 DEF LastStanding, Beaten, Ended
<1>5. ASSUME u = matches[f].winner PROVE ~Beaten(u) /\ u \notin gone
  <2>1. u # Nobody /\ u \in Player
    BY <1>2
  <2>2. Set(f) /\ Plays(u, f)
    BY <1>2, <1>3, <1>5, <2>1, Winner
  <2>3. u \notin gone
    BY <1>1, <1>2, <1>3, <1>5 DEF RunInv, Crowned
  <2>4. Void /\ \A k \in DOMAIN matches : Set(k) => k[1] <= f[1]
    BY <1>1, <1>2, <1>3 DEF RunInv
  <2> QED
    BY <1>2, <1>3, <1>5, <2>1, <2>2, <2>3, <2>4, NotBeaten
<1>6. ASSUME ~Beaten(u), u \notin gone PROVE u = matches[f].winner
  <2>1. PICK k \in Round(round) : Plays(u, k)
    BY <1>2, <1>6 DEF RunInv, Seated
  <2>2. Ended(f) /\ u \in {matches[f].player[0], matches[f].player[1]}
    BY <1>3, <1>4, <2>1 DEF Plays, Seat
  <2> QED
    BY <1>3, <1>6, <2>2 DEF Beaten
<1> QED
  BY <1>5, <1>6

\* Every step keeps the champion the one left, accounts deleted or not.
LEMMA LastStep == ASSUME GoingInv, Whole', [Next]_vars PROVE LastStanding'
<1>0. stops \in Nat
  BY TypeParts DEF GoingInv, BracketInv, Typed
<1>1. Whole
  <2>1. CASE Stop
    BY <1>0, <2>1 DEF Stop, Whole
  <2>2. ASSUME ~Stop PROVE stops' = stops
    <3>1. Start \/ StartWithout => stops' = stops
      BY DEF Start, StartWithout, Handler
    <3> QED
      BY <2>2, <3>1 DEF Next, vars, Register, Unregister, Withdraw, Purge, Begin, Win, Forfeit, Award, Give, Rests,
         Close, OpenFirst, OpenAnother, Opens, Turn, Cancel, Halt, Handler
  <2> QED
    BY <2>1, <2>2 DEF Whole
<1> SUFFICES ASSUME status' = "finished" PROVE LastStanding'
  BY DEF LastStanding
<1>2. CASE Close
  BY <1>1, <1>2, CloseCrowns
<1>3. ASSUME ~Close PROVE status = "finished"
  BY <1>3 DEF Next, vars, tournament, Register, Unregister, Withdraw, Purge, StartWithout, Start, Begin, Win, Forfeit,
     Award, Finish, Give, Rests, OpenFirst, OpenAnother, Opens, Turn, Cancel, Halt, Stop, Handler
<1> SUFFICES ASSUME status = "finished" PROVE LastStanding'
  BY <1>2, <1>3
<1>4. LastStanding /\ AtEnds /\ BracketInv
  BY <1>1 DEF GoingInv, WholeInv
<1>5. Idle /\ doing.at = "nothing" /\ \A m \in DOMAIN matches : Ended(m) /\ ~Playing(m)
  BY <1>4, AtNothing DEF AtEnds, Ended, Playing
<1>6. ASSUME NEW u \in Player, Purge(u) PROVE LastStanding'
  <2>1. Empties(u) /\ Nobody \notin Player /\ entrants \subseteq Player
    BY <1>4, <1>6, PurgeEmpties, TypeParts DEF BracketInv, Typed
  <2>2. /\ entrants' = entrants \ {u} /\ gone' = gone \ {u} /\ champion' = Left(u, champion)
    BY <1>6 DEF Purge, Left
  <2>3. ASSUME NEW v \in entrants, v # u
        PROVE  /\ v # Nobody /\ (v = champion' <=> v = champion) /\ (v \in gone' <=> v \in gone)
               /\ Beaten(v)' <=> Beaten(v)
    <3>1. v # Nobody
      BY <2>1
    <3>2. DOMAIN matches' = DOMAIN matches
      BY <2>1 DEF Empties
    <3>3. ASSUME NEW k \in DOMAIN matches
          PROVE  /\ Ended(k)' <=> Ended(k)
                 /\ v \in {matches'[k].player[0], matches'[k].player[1]}
                      <=> v \in {matches[k].player[0], matches[k].player[1]}
                 /\ matches'[k].winner # v <=> matches[k].winner # v
      <4>1. 0 \in Seat /\ 1 \in Seat
        BY DEF Seat
      <4> QED
        BY <2>1, <2>3, <3>1, <4>1 DEF Empties, Left, Ended
    <3>4. Beaten(v)' <=> Beaten(v)
      BY <3>2, <3>3 DEF Beaten
    <3> QED
      BY <2>2, <2>3, <3>1, <3>4 DEF Left
  <2> QED
    BY <1>1, <1>4, <2>2, <2>3 DEF LastStanding
<1>7. ASSUME ~\E u \in Player : Purge(u) PROVE UNCHANGED <<champion, entrants, gone, matches>>
  <2>1. CASE UNCHANGED vars
    BY <2>1 DEF vars, tournament
  <2>2. ~\E m \in DOMAIN matches : Begin(m) \/ \E seat \in Seat : Win(m, seat) \/ Forfeit(m, seat) \/ Award(m, seat)
    BY <1>5 DEF Begin, Win, Forfeit, Award, Ended
  <2>3. ~(Give \/ Rests \/ Close \/ OpenFirst \/ OpenAnother \/ Turn \/ Halt \/ Stop \/ Cancel \/ StartWithout \/ Start)
    BY <1>5 DEF Give, Rests, Close, OpenFirst, OpenAnother, Turn, Halt, Stop, Cancel, StartWithout, Start
  <2>4. ~\E u \in Player : Register(u) \/ Unregister(u) \/ Withdraw(u)
    BY DEF Register, Unregister, Withdraw
  <2> QED
    BY <1>7, <2>1, <2>2, <2>3, <2>4 DEF Next
<1>8. CASE UNCHANGED <<champion, entrants, gone, matches>>
  BY <1>1, <1>4, <1>8 DEF LastStanding, Beaten, Ended
<1> QED
  BY <1>6, <1>7, <1>8

\* Every step of whole handlers keeps the tournament going, and its end right.
LEMMA GoingStep == ASSUME GoingInv, [Next]_vars PROVE GoingInv'
<1>1. BracketInv' /\ WholeInv'
  BY BracketStep, WholeStep DEF GoingInv
<1>2. Whole' => LastStanding' /\ (status' = "running" => RunInv')
  BY RunStep, LastStep
<1> QED
  BY <1>1, <1>2 DEF GoingInv

\* Initially it is not under way.
LEMMA InitGoing == Init => GoingInv
BY InitBracket, InitWhole DEF Init, GoingInv, LastStanding

\* A tournament under way has a match of its round to play, between players in it.
LEMMA GoingHolds == ASSUME GoingInv PROVE Going
<1> SUFFICES ASSUME status = "running", Idle, Whole
             PROVE  /\ \E m \in Round(round) : Playing(m)
                    /\ \A m \in DOMAIN matches : Playing(m) =>
                         /\ m[1] = round
                         /\ \A seat \in Seat :
                              \/ matches[m].player[seat] \in entrants \ gone
                              \/ matches[m].player[seat] = Nobody /\ purges > 0
  BY DEF Going
<1>1. RunInv /\ doing.at = "nothing" /\ round \in Nat
  BY RunIs, AtNothing
<1>2. PICK m \in DOMAIN matches : m[1] = round /\ ~Ended(m)
  BY <1>1 DEF RunInv, GoesOn, RoundOver, Round
<1>3. Playing(m)
  <2>1. Reached(m) /\ matches[m].status \in MatchStatus
    BY <1>1, <1>2, RunIs DEF Reached
  <2> QED
    BY <1>1, <1>2, <2>1 DEF RunInv, Filled, MatchStatus, Playing, Ended
<1>4. \A k \in DOMAIN matches : Playing(k) => k[1] = round
  BY <1>1, PlayingIs
<1>5. \A k \in DOMAIN matches : Playing(k) => \A seat \in Seat :
                              \/ matches[k].player[seat] \in entrants \ gone
                              \/ matches[k].player[seat] = Nobody /\ purges > 0
  BY <1>1 DEF RunInv, InPlay
<1> QED
  BY <1>2, <1>3, <1>4, <1>5 DEF Round

\* The app keeps in it those it is for.
LEMMA StillInHolds == ASSUME GoingInv PROVE StillIn
<1> SUFFICES ASSUME status = "running", Idle, Whole, NEW u \in Player
             PROVE  Current(u) <=> \E m \in Round(round) :
                      \/ Playing(m) /\ \E seat \in Seat : matches[m].player[seat] = u
                      \/ matches[m].winner = u /\ u \notin gone
  BY DEF StillIn
<1>1. RunInv /\ BracketInv /\ doing.at = "nothing" /\ round \in Nat /\ u # Nobody
  BY RunIs, AtNothing
<1>2. ASSUME Current(u)
      PROVE  \E m \in Round(round) :
               \/ Playing(m) /\ \E seat \in Seat : matches[m].player[seat] = u
               \/ matches[m].winner = u /\ u \notin gone
  <2>1. u \in entrants \ gone /\ ~Beaten(u)
    BY <1>2 DEF Current
  <2>2. PICK m \in Round(round) : Plays(u, m)
    BY <1>1, <2>1 DEF RunInv, Seated
  <2>3. m \in DOMAIN matches /\ Reached(m) /\ matches[m].status \in MatchStatus
    BY <1>1, RunIs DEF Round, Reached
  <2>4. CASE Playing(m)
    BY <2>2, <2>4 DEF Plays
  <2>5. CASE ~Playing(m)
    <3>1. Ended(m)
      BY <1>1, <2>3, <2>5 DEF RunInv, Filled, MatchStatus, Playing, Ended
    <3>2. u \in {matches[m].player[0], matches[m].player[1]}
      BY <2>2 DEF Plays, Seat
    <3> QED
      BY <2>1, <2>3, <3>1, <3>2 DEF Beaten
  <2> QED
    BY <2>4, <2>5
<1>3. ASSUME NEW m \in Round(round),
             \/ Playing(m) /\ \E seat \in Seat : matches[m].player[seat] = u
             \/ matches[m].winner = u /\ u \notin gone
      PROVE  Current(u)
  <2>1. m \in DOMAIN matches /\ m[1] = round
    BY DEF Round
  <2>2. Set(m) /\ Plays(u, m) /\ (matches[m].winner = u \/ Playing(m)) /\ u \in entrants \ gone
    <3>1. CASE Playing(m) /\ \E seat \in Seat : matches[m].player[seat] = u
      BY <1>1, <2>1, <3>1 DEF RunInv, InPlay, Plays, Set, Playing
    <3>2. CASE matches[m].winner = u /\ u \notin gone
      BY <1>1, <2>1, <3>2, Winner
    <3> QED
      BY <1>3, <3>1, <3>2
  <2>3. \A k \in DOMAIN matches : Set(k) => k[1] <= m[1]
    <3>1. \A k \in DOMAIN matches : Set(k) => Reached(k)
      BY <1>1 DEF RunInv, Empty, Set
    <3> QED
      BY <1>1, <2>1, <3>1 DEF Reached
  <2>4. ~Beaten(u)
    BY <1>1, <2>1, <2>2, <2>3, NotBeaten DEF RunInv
  <2> QED
    BY <2>2, <2>4 DEF Current
<1> QED
  BY <1>2, <1>3

\* A tournament that is over has no match to play.
LEMMA LeavesNothing == ASSUME GoingInv PROVE NothingLeft
BY DEF GoingInv, WholeInv, NothingLeft, AtEnds, Nothing, Idle

\* As long as handlers are whole, a tournament under way has a match to play between
\* players still in it, one that is over has none, and the app keeps in it those it is
\* for (tournamentAdvance, tournamentWithdraw, tournamentCurrent).
THEOREM NeverGetsStuck == Spec => []NeverStuck
<1>1. Init => GoingInv
  BY InitGoing
<1>2. GoingInv /\ [Next]_vars => GoingInv'
  BY GoingStep
<1>3. GoingInv => NeverStuck
  BY GoingHolds, StillInHolds, LeavesNothing DEF NeverStuck
<1> QED
  BY <1>1, <1>2, <1>3, PTL DEF Spec

\* At the end of whole handlers, everyone lost a match or withdrew but the champion,
\* who did neither (tournamentAdvance).
THEOREM ChampionStandsAlone == Spec => []LastStanding
<1>1. Init => GoingInv
  BY InitGoing
<1>2. GoingInv /\ [Next]_vars => GoingInv'
  BY GoingStep
<1>3. GoingInv => LastStanding
  BY DEF GoingInv, LastStanding
<1> QED
  BY <1>1, <1>2, <1>3, PTL DEF Spec

=============================================================================
