----------------------------- MODULE Match_proofs -----------------------------
(***************************************************************************)
(* Proofs about Match, for any limits, times and bounds: both players make *)
(* a solve on its own scramble, a solve both made stays made, the match ends*)
(* as its solves say, and its apps come to show it and to draw its next    *)
(* scramble, whatever the order in which moves and states reach them.      *)
(*                                                                         *)
(* The argument: a match only grows (Agrees), so whatever was told of it,  *)
(* however late, still gives its scrambles as they are, and a result names *)
(* the scramble its app was told of.  What an app was last told is the match*)
(* as it is (MirrorInv); an app told that a solve is to be drawn is told so*)
(* once it is (ToldInv), and what it draws then comes (DrawInv).           *)
(***************************************************************************)
EXTENDS Match, SequenceTheorems, FiniteSetTheorems, TLAPS

\* Solves once told are, scramble by scramble, the first of the match's.
Agrees(rows, all) ==
  /\ rows \in Seq(Solve) /\ all \in Seq(Solve)
  /\ Len(rows) <= Len(all)
  /\ \A n \in 1..Len(rows) : rows[n].text = all[n].text

Row == [status : {"ready", "live", "done"}, winner : {0, 1, NoOne}, forfeit : BOOLEAN]

Told(all) == {v \in [row : Row, solves : Seq(Solve)] : Agrees(v.solves, all)}
State(all) == [value : Told(all), present : [Seat -> BOOLEAN]]
Client(all) ==
  [open : BOOLEAN, shown : {NoValue} \cup State(all), drawn : Nat, drawing : Seq(1..MaxSolves)]

\* What an app sends, a solve's result under the scramble of its number.
Moves ==
  [type : {"join", "leave", "closed", "forfeit"}]
    \cup [type : {"scramble"}, number : 1..MaxSolves, text : Scramble]
    \cup [type : {"solve"}, number : Nat, ms : Times, on : Scramble]
    \cup [type : {"penalty"}, number : Nat, penalty : {"none", "dnf"}]
    \cup [type : {"cancel"}, number : Nat]
Message(all) ==
  {m \in Moves : m.type = "solve" => m.number \in 1..Len(all) /\ all[m.number].text = m.on}

\* The server's side, and the network's and the apps', of a match whose solves are `all`.
Rooms(all) ==
  /\ room \subseteq Socket
  /\ last \in {NoValue} \cup Told(all) /\ (room # {} => last \in Told(all))
  /\ joining \in [Socket -> {NoValue} \cup Told(all)]
Ways(all) ==
  /\ up \in [Socket -> Seq(Message(all))]
  /\ sock \in [App -> 1..MaxSockets] /\ conn \in [App -> BOOLEAN]
Hears(all) == down \in [App -> Seq(State(all))]
Apps(all) == clients \in [App -> Client(all)]

MatchInv ==
  /\ solves \in Seq(Solve) /\ match \in Row
  /\ SameScramble
  /\ Rooms(solves) /\ Ways(solves) /\ Hears(solves) /\ Apps(solves)

-----------------------------------------------------------------------------
(* The score.                                                              *)

\* Induction, from the cardinality of finite sets.
LEMMA Induction ==
  ASSUME NEW P \in SUBSET Nat, 0 \in P, \A n \in P : n + 1 \in P
  PROVE  P = Nat
<1> SUFFICES ASSUME NEW m \in Nat, m \notin P PROVE FALSE
  OBVIOUS
<1> DEFINE N == (0..m) \ P
           before == [n \in N |-> n - 1]
<1>1. \A n \in N : n - 1 \in N \ {m} /\ n \in Nat
  OBVIOUS
<1>2. before \in Injection(N, N \ {m})
  <2>1. before \in [N -> N \ {m}]
    BY <1>1
  <2>2. \A n, k \in DOMAIN before : before[n] = before[k] => n = k
    BY <1>1
  <2> QED
    BY <2>1, <2>2 DEF Injection, IsInjective
<1>3. IsFiniteSet(N)
  <2>1. IsFiniteSet(0..m)
    BY FS_Interval
  <2> QED
    BY <2>1, FS_Subset
<1>4. m \in N
  OBVIOUS
<1>5. Cardinality(N \ {m}) = Cardinality(N) - 1 /\ IsFiniteSet(N \ {m}) /\ Cardinality(N) \in Nat
  BY <1>3, <1>4, FS_RemoveElement, FS_CardinalityType
<1>6. Cardinality(N) <= Cardinality(N \ {m})
  BY <1>2, <1>5, FS_Injection
<1> QED
  BY <1>5, <1>6

\* A score, and the score of each number of a match's first solves.
Score == [points : [Seat -> Nat], sets : [Seat -> Nat], winner : {0, 1, NoOne}, ended : BOOLEAN]
Zero ==
  [points |-> [i \in Seat |-> 0], sets |-> [i \in Seat |-> 0], winner |-> NoOne, ended |-> FALSE]
Scores(f, rows) ==
  f = [n \in 0..Len(rows) |-> IF n = 0 THEN Zero ELSE Counted(f[n - 1], rows[n])]

\* A solve counted makes a score of a score; one still open leaves its winner.
LEMMA CountedScore ==
  ASSUME NEW score \in Score, NEW v \in Solve
  PROVE  /\ Counted(score, v) \in Score
         /\ OpenSolve(v) => Counted(score, v).winner = score.winner
<1> DEFINE taken == {i \in Seat : Beats(v.results[i], v.results[1 - i])}
           set == {i \in taken : score.points[i] + 1 >= Points}
           sets == [i \in Seat |-> score.sets[i] + IF i \in set THEN 1 ELSE 0]
           won == {i \in Seat : sets[i] >= Sets}
           points == [i \in Seat |-> IF set # {} THEN 0 ELSE score.points[i] + IF i \in taken THEN 1 ELSE 0]
           winner == IF won = {} THEN NoOne ELSE CHOOSE i \in won : TRUE
<1>1. CASE score.ended
  BY <1>1 DEF Counted
<1>2. CASE ~score.ended /\ OpenSolve(v)
  <2>1. Counted(score, v) = [score EXCEPT !.ended = TRUE]
    BY <1>2 DEF Counted
  <2> QED
    BY <2>1 DEF Score
<1>3. CASE ~score.ended /\ ~OpenSolve(v)
  <2>1. Counted(score, v) = [points |-> points, sets |-> sets, winner |-> winner, ended |-> won # {}]
    BY <1>3 DEF Counted
  <2>2. sets \in [Seat -> Nat]
    <3> HIDE DEF set
    <3> QED
      BY DEF Score
  <2>3. points \in [Seat -> Nat]
    <3> HIDE DEF set, taken
    <3> QED
      BY DEF Score
  <2>4. winner \in {0, 1, NoOne}
    <3>1. won \subseteq {0, 1}
      BY DEF Seat, App
    <3> HIDE DEF won
    <3> QED
      BY <3>1
  <2> HIDE DEF sets, points, winner, won
  <2> QED
    BY <1>3, <2>1, <2>2, <2>3, <2>4 DEF Score
<1> QED
  BY <1>1, <1>2, <1>3

\* Every match's solves have scores.
LEMMA ScoresExist == ASSUME NEW rows \in Seq(Solve) PROVE \E f : Scores(f, rows)
<1> DEFINE Upto(f, k) == f = [n \in 0..k |-> IF n = 0 THEN Zero ELSE Counted(f[n - 1], rows[n])]
           P == {k \in Nat : \E f : Upto(f, k)}
<1>1. 0 \in P
  <2> DEFINE f == [n \in 0..0 |-> Zero]
  <2>1. f = [n \in 0..0 |-> IF n = 0 THEN Zero ELSE Counted(f[n - 1], rows[n])]
    OBVIOUS
  <2> QED
    BY <2>1
<1>2. ASSUME NEW k \in P PROVE k + 1 \in P
  <2>1. k \in Nat /\ k + 1 \in Nat
    OBVIOUS
  <2>2. PICK f : f = [n \in 0..k |-> IF n = 0 THEN Zero ELSE Counted(f[n - 1], rows[n])]
    OBVIOUS
  <2> DEFINE g == [n \in 0..(k + 1) |-> IF n = k + 1 THEN Counted(f[k], rows[k + 1]) ELSE f[n]]
  <2>3. ASSUME NEW n \in 0..(k + 1)
        PROVE  g[n] = IF n = 0 THEN Zero ELSE Counted(g[n - 1], rows[n])
    <3>1. CASE n = k + 1
      BY <2>1, <3>1
    <3>2. CASE n # k + 1
      BY <2>1, <2>2, <3>2
    <3> QED
      BY <3>1, <3>2
  <2>4. g = [n \in 0..(k + 1) |-> IF n = 0 THEN Zero ELSE Counted(g[n - 1], rows[n])]
    BY <2>3
  <2> QED
    BY <2>1, <2>4
<1>3. P \in SUBSET Nat
  OBVIOUS
<1>4. P = Nat
  <2> HIDE DEF P
  <2> QED
    BY <1>1, <1>2, <1>3, Induction
<1>5. Len(rows) \in P
  BY <1>4
<1> QED
  BY <1>5 DEF Scores

\* The scores of solves that start alike are alike as far as they do.
LEMMA ScoresAgree ==
  ASSUME NEW a \in Seq(Solve), NEW b \in Seq(Solve), NEW k \in Nat,
         k <= Len(a), k <= Len(b), \A n \in 1..k : a[n] = b[n],
         NEW f, NEW g, Scores(f, a), Scores(g, b)
  PROVE  f[k] = g[k] /\ f[k] \in Score
<1> DEFINE P == {i \in Nat : i <= k => f[i] = g[i] /\ f[i] \in Score}
<1>1. \A i \in 0..Len(a) : f[i] = IF i = 0 THEN Zero ELSE Counted(f[i - 1], a[i])
  BY DEF Scores
<1>2. \A i \in 0..Len(b) : g[i] = IF i = 0 THEN Zero ELSE Counted(g[i - 1], b[i])
  BY DEF Scores
<1>3. 0 \in P
  <2>1. Zero \in Score
    BY DEF Zero, Score
  <2> QED
    BY <1>1, <1>2, <2>1
<1>4. ASSUME NEW i \in P PROVE i + 1 \in P
  <2> SUFFICES ASSUME i + 1 <= k PROVE f[i + 1] = g[i + 1] /\ f[i + 1] \in Score
    OBVIOUS
  <2>1. /\ i \in Nat /\ i + 1 \in 1..k /\ i + 1 \in 0..Len(a) /\ i + 1 \in 0..Len(b)
        /\ i + 1 # 0 /\ (i + 1) - 1 = i /\ i + 1 \in 1..Len(a)
    OBVIOUS
  <2>2. f[i + 1] = Counted(f[i], a[i + 1]) /\ g[i + 1] = Counted(g[i], b[i + 1])
    BY <1>1, <1>2, <2>1
  <2>3. f[i] = g[i] /\ f[i] \in Score /\ a[i + 1] = b[i + 1] /\ a[i + 1] \in Solve
    BY <2>1
  <2> QED
    BY <2>2, <2>3, CountedScore
<1>5. P \in SUBSET Nat
  OBVIOUS
<1>6. P = Nat
  <2> HIDE DEF P
  <2> QED
    BY <1>3, <1>4, <1>5, Induction
<1> QED
  BY <1>6

\* The winner of a match's solves is that of its last score.
LEMMA WinnerIs ==
  ASSUME NEW rows \in Seq(Solve)
  PROVE  \E f : Scores(f, rows) /\ WinnerOf(rows) = f[Len(rows)].winner
<1> DEFINE f == CHOOSE g : Scores(g, rows)
<1>1. Scores(f, rows)
  BY ScoresExist
<1>2. WinnerOf(rows) = f[Len(rows)].winner
  BY DEF WinnerOf, Scores, Zero
<1> QED
  BY <1>1, <1>2

\* A match's winner is a player, or no one.
LEMMA WinnerKind == ASSUME NEW rows \in Seq(Solve) PROVE WinnerOf(rows) \in {0, 1, NoOne}
<1>1. PICK f : Scores(f, rows) /\ WinnerOf(rows) = f[Len(rows)].winner
  BY WinnerIs
<1>2. f[Len(rows)] \in Score
  BY <1>1, ScoresAgree
<1> QED
  BY <1>1, <1>2 DEF Score

\* No one wins an empty match.
LEMMA WinnerNone == WinnerOf(<<>>) = NoOne
<1>1. <<>> \in Seq(Solve) /\ Len(<<>>) = 0
  BY EmptySeq
<1>2. PICK f : Scores(f, <<>>) /\ WinnerOf(<<>>) = f[0].winner
  BY <1>1, WinnerIs
<1>3. f[0] = Zero
  BY <1>1, <1>2 DEF Scores
<1> QED
  BY <1>2, <1>3 DEF Zero

\* The winner is the same before a last solve that is open.
LEMMA WinnerBefore ==
  ASSUME NEW rows \in Seq(Solve), NEW more \in Seq(Solve), Len(more) = Len(rows) + 1,
         \A n \in 1..Len(rows) : more[n] = rows[n], OpenSolve(more[Len(more)])
  PROVE  WinnerOf(more) = WinnerOf(rows)
<1>1. PICK f : Scores(f, rows) /\ WinnerOf(rows) = f[Len(rows)].winner
  BY WinnerIs
<1>2. PICK g : Scores(g, more) /\ WinnerOf(more) = g[Len(more)].winner
  BY WinnerIs
<1>3. f[Len(rows)] = g[Len(rows)] /\ f[Len(rows)] \in Score
  BY <1>1, <1>2, ScoresAgree
<1>4. g[Len(more)] = Counted(g[Len(rows)], more[Len(more)])
  BY <1>2 DEF Scores
<1>5. more[Len(more)] \in Solve
  OBVIOUS
<1> QED
  BY <1>1, <1>2, <1>3, <1>4, <1>5, CountedScore

\* A last solve that stays open changes no winner.
LEMMA WinnerOpen ==
  ASSUME NEW a \in Seq(Solve), NEW b \in Seq(Solve), a # <<>>, Len(a) = Len(b),
         \A n \in 1..(Len(a) - 1) : a[n] = b[n],
         OpenSolve(a[Len(a)]), OpenSolve(b[Len(b)])
  PROVE  WinnerOf(a) = WinnerOf(b)
<1> DEFINE front == SubSeq(a, 1, Len(a) - 1)
<1>1. Len(a) \in Nat /\ Len(a) >= 1
  BY EmptySeq
<1>2. front \in Seq(Solve) /\ Len(front) = Len(a) - 1 /\ \A n \in 1..(Len(a) - 1) : front[n] = a[n]
  BY <1>1, SubSeqProperties
<1> HIDE DEF front
<1>3. WinnerOf(a) = WinnerOf(front)
  BY <1>1, <1>2, WinnerBefore
<1>4. WinnerOf(b) = WinnerOf(front)
  BY <1>1, <1>2, WinnerBefore
<1> QED
  BY <1>3, <1>4

-----------------------------------------------------------------------------
(* What was told of a match.                                               *)

\* A result is none, or has its three parts.
LEMMA ResultParts ==
  ASSUME NEW r \in Result, r # Unsolved
  PROVE  r \in [ms : Times, penalty : {"none", "dnf"}, on : Scramble]
BY DEF Result

\* A result made is not none.
LEMMA MadeIsSolved ==
  ASSUME NEW r \in [ms : Times, penalty : {"none", "dnf"}, on : Scramble]
  PROVE  r \in Result /\ r # Unsolved
<1>1. DOMAIN r = {"ms", "penalty", "on"} /\ DOMAIN Unsolved = {"ms"}
  BY DEF Unsolved
<1> QED
  BY <1>1 DEF Result

\* Solves agree with themselves, and with what those they agree with agree with.
LEMMA AgreesSelf == ASSUME NEW a \in Seq(Solve) PROVE Agrees(a, a)
BY DEF Agrees

LEMMA AgreesOn ==
  ASSUME NEW a, NEW b, NEW c, Agrees(a, b), Agrees(b, c)
  PROVE  Agrees(a, c)
BY DEF Agrees

\* What was told of a match stays right as it grows.
LEMMA ToldOn ==
  ASSUME NEW a, NEW b, Agrees(a, b)
  PROVE  /\ Told(a) \subseteq Told(b) /\ State(a) \subseteq State(b)
         /\ Client(a) \subseteq Client(b) /\ Message(a) \subseteq Message(b)
<1>1. Told(a) \subseteq Told(b)
  BY AgreesOn DEF Told
<1>2. State(a) \subseteq State(b)
  BY <1>1 DEF State
<1>3. Client(a) \subseteq Client(b)
  BY <1>2 DEF Client
<1>4. Message(a) \subseteq Message(b)
  BY DEF Message, Agrees
<1> QED
  BY <1>1, <1>2, <1>3, <1>4

\* The parts stay right as the match grows, where nothing is said or heard.
LEMMA RoomsOn ==
  ASSUME Agrees(solves, solves'), Rooms(solves), UNCHANGED <<room, last, joining>>
  PROVE  Rooms(solves)'
<1>1. Told(solves) \subseteq Told(solves')
  BY ToldOn
<1> QED
  BY <1>1 DEF Rooms

LEMMA WaysOn ==
  ASSUME Agrees(solves, solves'), Ways(solves), UNCHANGED <<up, sock, conn>>
  PROVE  Ways(solves)'
<1>1. Seq(Message(solves)) \subseteq Seq(Message(solves'))
  BY ToldOn, SeqMonotonic
<1> QED
  BY <1>1 DEF Ways

LEMMA HearsOn ==
  ASSUME Agrees(solves, solves'), Hears(solves), UNCHANGED down
  PROVE  Hears(solves)'
<1>1. Seq(State(solves)) \subseteq Seq(State(solves'))
  BY ToldOn, SeqMonotonic
<1> QED
  BY <1>1 DEF Hears

LEMMA AppsOn ==
  ASSUME Agrees(solves, solves'), Apps(solves), UNCHANGED clients
  PROVE  Apps(solves)'
<1>1. Client(solves) \subseteq Client(solves')
  BY ToldOn
<1> QED
  BY <1>1 DEF Apps

\* The server takes a message off its way.
LEMMA WaysTaken ==
  ASSUME Ways(solves), UNCHANGED <<sock, conn>>,
         NEW s \in Socket, up[s] # <<>>, up' = [up EXCEPT ![s] = Tail(@)]
  PROVE  Head(up[s]) \in Message(solves) /\ (Agrees(solves, solves') => Ways(solves)')
<1>1. up[s] \in Seq(Message(solves))
  BY DEF Ways
<1>2. Tail(up[s]) \in Seq(Message(solves)) /\ Head(up[s]) \in Message(solves)
  BY <1>1, HeadTailProperties
<1>3. ASSUME Agrees(solves, solves') PROVE Ways(solves)'
  <2>1. Seq(Message(solves)) \subseteq Seq(Message(solves'))
    BY <1>3, ToldOn, SeqMonotonic
  <2> QED
    BY <1>2, <2>1 DEF Ways
<1> QED
  BY <1>2, <1>3

\* A state sent is right if its value is.
LEMMA Sent ==
  ASSUME Agrees(solves, solves'), Hears(solves), conn \in [App -> BOOLEAN],
         NEW viewers, NEW v \in Told(solves'), Send(viewers, v)
  PROVE  /\ last' \in {NoValue} \cup Told(solves')
         /\ viewers # {} => last' \in Told(solves')
         /\ Hears(solves)'
<1>1. Present(viewers) \in [Seat -> BOOLEAN]
  BY DEF Present
<1>2. [value |-> v, present |-> Present(viewers)] \in State(solves')
  BY <1>1 DEF State
<1>3. Seq(State(solves)) \subseteq Seq(State(solves'))
  BY ToldOn, SeqMonotonic
<1>4. ASSUME NEW app \in App
      PROVE  Append(down[app], [value |-> v, present |-> Present(viewers)]) \in Seq(State(solves'))
  BY <1>2, <1>3, AppendProperties DEF Hears
<1>5. Hears(solves)'
  BY <1>3, <1>4 DEF Hears, Send
<1> QED
  BY <1>5 DEF Send

\* A move that changes the match and tells of it.
LEMMA Moved ==
  ASSUME MatchInv, solves' \in Seq(Solve), match' \in Row, Agrees(solves, solves'),
         SameScramble', Publish, UNCHANGED <<room, joining, sock, conn, clients>>, Ways(solves)'
  PROVE  MatchInv'
<1>1. Value(match', solves') \in Told(solves')
  BY AgreesSelf DEF Told, Value
<1>2. /\ last' \in {NoValue} \cup Told(solves')
      /\ room # {} => last' \in Told(solves')
      /\ Hears(solves)'
  BY <1>1, Sent DEF MatchInv, Ways, Publish
<1>3. Rooms(solves)'
  BY <1>2, ToldOn DEF MatchInv, Rooms
<1>4. Apps(solves)'
  BY AppsOn DEF MatchInv
<1> QED
  BY <1>2, <1>3, <1>4 DEF MatchInv

\* A result of the last solve, made on its scramble or taken back, leaves the rest.
LEMMA RecordedKeeps ==
  ASSUME solves \in Seq(Solve), solves # <<>>, SameScramble,
         NEW seat \in Seat, NEW r \in Result,
         r # Unsolved => r.on = solves[Len(solves)].text,
         solves' = Recorded(seat, r)
  PROVE  solves' \in Seq(Solve) /\ Agrees(solves, solves') /\ SameScramble'
<1> DEFINE n == Len(solves)
<1>1. n \in 1..Len(solves) /\ solves[n] \in Solve
  OBVIOUS
<1>2. [solves[n].results EXCEPT ![seat] = r] \in [Seat -> Result]
  BY <1>1 DEF Solve
<1>3. [solves[n] EXCEPT !.results = [solves[n].results EXCEPT ![seat] = r]] \in Solve
  BY <1>1, <1>2 DEF Solve
<1>4. solves' = [solves EXCEPT ![n] = [solves[n] EXCEPT !.results = [solves[n].results EXCEPT ![seat] = r]]]
  BY DEF Recorded
<1>5. solves' \in Seq(Solve) /\ Len(solves') = Len(solves)
  BY <1>1, <1>3, <1>4, ExceptSeq
<1>6. ASSUME NEW k \in 1..Len(solves)
      PROVE  /\ solves'[k].text = solves[k].text
             /\ k # n => solves'[k] = solves[k]
  BY <1>1, <1>4 DEF Solve
<1>7. ASSUME NEW i \in Seat
      PROVE  solves'[n].results[i] = IF i = seat THEN r ELSE solves[n].results[i]
  BY <1>1, <1>4 DEF Solve
<1>8. SameScramble'
  <2> SUFFICES ASSUME NEW k \in 1..Len(solves), NEW i \in Seat, solves'[k].results[i] # Unsolved
               PROVE  solves'[k].results[i].on = solves'[k].text
    BY <1>5 DEF SameScramble
  <2>1. CASE k # n
    BY <2>1, <1>6 DEF SameScramble
  <2>2. CASE k = n /\ i = seat
    BY <2>2, <1>1, <1>6, <1>7
  <2>3. CASE k = n /\ i # seat
    BY <2>3, <1>1, <1>6, <1>7 DEF SameScramble
  <2> QED
    BY <2>1, <2>2, <2>3
<1> QED
  BY <1>5, <1>6, <1>8 DEF Agrees

\* A match settled is a row.
LEMMA SettledRow ==
  ASSUME match \in Row, NEW rows \in Seq(Solve)
  PROVE  Settled(rows) \in Row
BY WinnerKind DEF Settled, Row

\* A player's move is taken: the match grows, and those here are told.
LEMMA MoveKeeps ==
  ASSUME MatchInv, NEW seat \in Seat, NEW m \in Message(solves), Move(seat, m)
  PROVE  /\ solves' \in Seq(Solve) /\ match' \in Row
         /\ Agrees(solves, solves') /\ SameScramble' /\ Publish
<1> USE DEF MatchInv
<1>0. m \in Moves
  BY DEF Message
<1>1. CASE m.type = "scramble" /\ PlayScramble(m)
  <2> DEFINE v == [text |-> m.text, results |-> [i \in Seat |-> Unsolved]]
  <2>1. m.text \in Scramble
    BY <1>0, <1>1 DEF Moves
  <2>2. v \in Solve
    BY <2>1 DEF Solve, Result
  <2>3. solves' = Append(solves, v) /\ Publish /\ match' = [match EXCEPT !.status = "live"]
    BY <1>1 DEF PlayScramble
  <2> HIDE DEF v
  <2>4. /\ solves' \in Seq(Solve) /\ Len(solves') = Len(solves) + 1
        /\ \A k \in 1..Len(solves) : solves'[k] = solves[k]
        /\ solves'[Len(solves) + 1] = v
    BY <2>2, <2>3, AppendProperties
  <2>5. SameScramble'
    <3> SUFFICES ASSUME NEW k \in 1..(Len(solves) + 1), NEW i \in Seat, solves'[k].results[i] # Unsolved
                 PROVE  solves'[k].results[i].on = solves'[k].text
      BY <2>4 DEF SameScramble
    <3>1. CASE k = Len(solves) + 1
      BY <3>1, <2>4 DEF v
    <3>2. CASE k \in 1..Len(solves)
      BY <3>2, <2>4 DEF SameScramble
    <3> QED
      BY <3>1, <3>2
  <2>6. match' \in Row
    BY <2>3 DEF Row
  <2> QED
    BY <2>3, <2>4, <2>5, <2>6 DEF Agrees
<1>2. CASE m.type = "solve" /\ PlaySolve(seat, m)
  <2> DEFINE r == [ms |-> m.ms, penalty |-> "none", on |-> m.on]
  <2>1. /\ m.number = Len(solves) /\ solves # <<>>
        /\ solves' = Recorded(seat, r) /\ match' = Settled(solves') /\ Publish
    BY <1>2 DEF PlaySolve, Lasts
  <2>2. r \in Result
    BY <1>0, <1>2 DEF Moves, Result
  <2>3. r.on = solves[Len(solves)].text
    BY <1>2, <2>1 DEF Message
  <2> HIDE DEF r
  <2> QED
    BY <2>1, <2>2, <2>3, RecordedKeeps, SettledRow
<1>3. CASE m.type = "penalty" /\ PlayPenalty(seat, m)
  <2> DEFINE r == [Mine(seat) EXCEPT !.penalty = m.penalty]
  <2>1. /\ solves # <<>> /\ Mine(seat) # Unsolved
        /\ solves' = Recorded(seat, r) /\ match' = Settled(solves') /\ Publish
    BY <1>3 DEF PlayPenalty, Lasts
  <2> HIDE DEF r
  <2>0. solves[Len(solves)] \in Solve
    BY <2>1, ElementOfSeq, EmptySeq
  <2>2. Mine(seat) \in Result
    BY <2>0 DEF Mine, Solve
  <2>3. Mine(seat) \in [ms : Times, penalty : {"none", "dnf"}, on : Scramble]
    BY <2>1, <2>2, ResultParts
  <2>4. m.penalty \in {"none", "dnf"}
    BY <1>0, <1>3 DEF Moves
  <2>5. r \in Result /\ r.on = Mine(seat).on
    BY <2>3, <2>4 DEF Result, r
  <2>6. Mine(seat).on = solves[Len(solves)].text
    BY <2>1 DEF Mine, SameScramble
  <2> QED
    BY <2>1, <2>5, <2>6, RecordedKeeps, SettledRow
<1>4. CASE m.type = "cancel" /\ PlayCancel(seat, m)
  <2>1. /\ solves # <<>> /\ solves' = Recorded(seat, Unsolved) /\ match' = match /\ Publish
    BY <1>4 DEF PlayCancel, Lasts
  <2>2. Unsolved \in Result
    BY DEF Result
  <2> QED
    BY <2>1, <2>2, RecordedKeeps
<1>5. CASE m.type = "forfeit" /\ PlayForfeit(seat)
  <2>1. match' \in Row
    BY <1>5 DEF PlayForfeit, Row, Seat, App
  <2> QED
    BY <1>5, <2>1, AgreesSelf DEF PlayForfeit, SameScramble
<1> QED
  BY <1>1, <1>2, <1>3, <1>4, <1>5 DEF Move

-----------------------------------------------------------------------------
\* The server takes a socket's next message.
LEMMA ServeKeeps == ASSUME MatchInv, NEW s \in Socket, Serve(s) PROVE MatchInv'
<1> DEFINE m == Head(up[s])
<1>1. /\ up[s] # <<>> /\ up' = [up EXCEPT ![s] = Tail(@)]
      /\ UNCHANGED <<sock, conn, clients>>
  BY DEF Serve
<1>2. m \in Message(solves) /\ (Agrees(solves, solves') => Ways(solves)')
  BY <1>1, WaysTaken DEF MatchInv
<1> HIDE DEF m
<1>3. CASE ReadToJoin(s)
  <2>1. /\ joining' = [joining EXCEPT ![s] = Value(match, solves)]
        /\ UNCHANGED <<match, solves, room, last, down>>
    BY <1>3 DEF ReadToJoin
  <2>2. Agrees(solves, solves')
    BY <2>1, AgreesSelf DEF MatchInv
  <2>3. Value(match, solves) \in Told(solves)
    BY <2>1, <2>2 DEF MatchInv, Told, Value
  <2>4. Rooms(solves)'
    BY <2>1, <2>3 DEF MatchInv, Rooms
  <2> QED
    BY <1>1, <1>2, <2>1, <2>2, <2>4, HearsOn, AppsOn DEF MatchInv, SameScramble
<1>4. CASE Leave(s)
  <2>1. Agrees(solves, solves') /\ UNCHANGED <<match, solves, joining>>
    BY <1>4, AgreesSelf DEF Leave, MatchInv
  <2>2. CASE s \in room /\ Leaves(s)
    <3>1. last \in Told(solves') /\ Send(room', last) /\ room' = room \ {s}
      BY <2>1, <2>2 DEF MatchInv, Rooms, Leaves
    <3>2. /\ last' \in {NoValue} \cup Told(solves')
          /\ room' # {} => last' \in Told(solves')
          /\ Hears(solves)'
      BY <2>1, <3>1, Sent DEF MatchInv, Ways
    <3>3. Rooms(solves)'
      BY <2>1, <3>1, <3>2 DEF MatchInv, Rooms
    <3> QED
      BY <1>1, <1>2, <2>1, <3>2, <3>3, AppsOn DEF MatchInv, SameScramble
  <2>3. CASE s \notin room /\ UNCHANGED <<room, last, down>>
    BY <1>1, <1>2, <2>1, <2>3, RoomsOn, HearsOn, AppsOn DEF MatchInv, SameScramble
  <2> QED
    BY <1>4, <2>2, <2>3 DEF Leave
<1>5. CASE Play(s, m)
  <2>1. s[1] \in Seat /\ UNCHANGED <<room, joining>>
    BY <1>5 DEF Play, Socket, Seat
  <2>2. CASE Move(s[1], m)
    <3>1. /\ solves' \in Seq(Solve) /\ match' \in Row
          /\ Agrees(solves, solves') /\ SameScramble' /\ Publish
      BY <1>2, <2>1, <2>2, MoveKeeps
    <3> QED
      BY <1>1, <1>2, <2>1, <3>1, Moved
  <2>3. CASE UNCHANGED <<match, solves, last, down>>
    <3>1. Agrees(solves, solves')
      BY <2>3, AgreesSelf DEF MatchInv
    <3> QED
      BY <1>1, <1>2, <2>1, <2>3, <3>1, RoomsOn, HearsOn, AppsOn DEF MatchInv, SameScramble
  <2> QED
    BY <1>5, <2>2, <2>3 DEF Play
<1> QED
  BY <1>3, <1>4, <1>5 DEF Serve, m

\* A socket enters the room: it, and those there, hear what it read.
LEMMA EnterKeeps == ASSUME MatchInv, NEW s \in Socket, Enter(s) PROVE MatchInv'
<1>1. /\ joining[s] # NoValue /\ joining' = [joining EXCEPT ![s] = NoValue]
      /\ room' = room \cup {s} /\ Send(room', joining[s])
      /\ UNCHANGED <<match, solves, up, sock, conn, clients>>
  BY DEF Enter
<1>2. Agrees(solves, solves')
  BY <1>1, AgreesSelf DEF MatchInv
<1>3. joining[s] \in Told(solves')
  BY <1>1 DEF MatchInv, Rooms
<1>4. /\ last' \in {NoValue} \cup Told(solves')
      /\ room' # {} => last' \in Told(solves')
      /\ Hears(solves)'
  BY <1>1, <1>2, <1>3, Sent DEF MatchInv, Ways
<1>5. Rooms(solves)'
  BY <1>1, <1>4 DEF MatchInv, Rooms
<1> QED
  BY <1>1, <1>2, <1>4, <1>5, WaysOn, AppsOn DEF MatchInv, SameScramble

-----------------------------------------------------------------------------
\* What an app does leaves the match and its room.
LEMMA ServerStays ==
  ASSUME MatchInv, UNCHANGED server, Ways(solves)', Hears(solves)', Apps(solves)'
  PROVE  MatchInv'
<1>1. UNCHANGED <<match, solves, room, last, joining>>
  BY DEF server
<1>2. Agrees(solves, solves')
  BY <1>1, AgreesSelf DEF MatchInv
<1> QED
  BY <1>1, <1>2, RoomsOn DEF MatchInv, SameScramble

\* An app's message is on its way, or lost.
LEMMA Posted ==
  ASSUME Ways(solves), UNCHANGED <<solves, sock, conn>>,
         NEW app \in App, NEW m \in Message(solves), Post(app, m)
  PROVE  Ways(solves)'
<1>1. Current(app) \in Socket
  BY DEF Ways, Current, Socket
<1>2. up[Current(app)] \in Seq(Message(solves))
  BY <1>1 DEF Ways
<1>3. Append(up[Current(app)], m) \in Seq(Message(solves))
  BY <1>2, AppendProperties
<1>4. up' \in [Socket -> Seq(Message(solves))]
  BY <1>1, <1>3 DEF Post, Ways
<1> QED
  BY <1>4 DEF Ways

LEMMA Removed ==
  ASSUME NEW S, NEW q \in Seq(S), NEW i \in 1..Len(q)
  PROVE  RemoveAt(q, i) \in Seq(S)
<1>1. SubSeq(q, 1, i - 1) \in Seq(S) /\ SubSeq(q, i + 1, Len(q)) \in Seq(S)
  BY SubSeqProperties
<1> QED
  BY <1>1, ConcatProperties DEF RemoveAt

\* A state shown with a result of one's own is a state still.
LEMMA ShownSolve ==
  ASSUME NEW all, NEW v \in State(all), NEW n \in 1..Len(v.value.solves),
         NEW seat \in Seat, NEW r \in Result
  PROVE  [v EXCEPT !.value.solves[n].results[seat] = r] \in State(all)
<1> DEFINE rows == v.value.solves
           solve == [rows[n] EXCEPT !.results = [rows[n].results EXCEPT ![seat] = r]]
           after == [rows EXCEPT ![n] = solve]
           told == [v.value EXCEPT !.solves = after]
<1>1. /\ v.value \in [row : Row, solves : Seq(Solve)] /\ Agrees(rows, all)
      /\ v \in [value : Told(all), present : [Seat -> BOOLEAN]]
  BY DEF State, Told
<1>2. rows \in Seq(Solve) /\ rows[n] \in Solve
  BY <1>1
<1>3. solve \in Solve /\ solve.text = rows[n].text
  BY <1>2 DEF Solve
<1>4. after \in Seq(Solve) /\ Len(after) = Len(rows) /\ \A k \in 1..Len(rows) : after[k].text = rows[k].text
  <2> HIDE DEF solve
  <2>1. after \in Seq(Solve) /\ Len(after) = Len(rows)
    BY <1>2, <1>3, ExceptSeq
  <2> QED
    BY <1>2, <1>3, <2>1
<1>5. Agrees(after, all)
  <2> HIDE DEF after
  <2> QED
    BY <1>1, <1>4 DEF Agrees
<1>6. told \in Told(all)
  <2> HIDE DEF after
  <2>1. told \in [row : Row, solves : Seq(Solve)] /\ told.solves = after
    BY <1>1, <1>4
  <2> QED
    BY <1>5, <2>1 DEF Told
<1>7. [v EXCEPT !.value = told] \in State(all)
  <2> HIDE DEF told
  <2> QED
    BY <1>1, <1>6 DEF State
<1> QED
  BY <1>7

\* What one app's client becomes, the others staying.
LEMMA OneClient ==
  ASSUME Apps(solves), UNCHANGED solves, NEW app \in App, NEW c \in Client(solves),
         clients' = [clients EXCEPT ![app] = c]
  PROVE  Apps(solves)'
BY DEF Apps

LEMMA ReceiveKeeps == ASSUME MatchInv, NEW app \in App, Receive(app) PROVE MatchInv'
<1> DEFINE heard == Head(down[app])
           c == clients[app]
<1>1. /\ UNCHANGED <<server, up, sock, conn>> /\ UNCHANGED solves
      /\ down[app] # <<>> /\ down' = [down EXCEPT ![app] = Tail(@)]
      /\ clients' = [clients EXCEPT ![app] = Received(app, heard)]
  BY DEF Receive, server
<1>2. down[app] \in Seq(State(solves)) /\ c \in Client(solves)
  BY DEF MatchInv, Hears, Apps
<1>3. heard \in State(solves) /\ Tail(down[app]) \in Seq(State(solves))
  BY <1>1, <1>2, HeadTailProperties
<1>4. Hears(solves)'
  BY <1>1, <1>3 DEF MatchInv, Hears
<1>5. Received(app, heard) \in Client(solves)
  <2> DEFINE number == Len(heard.value.solves) + 1
  <2>1. number \in Nat /\ number >= 1
    BY <1>3 DEF State, Told
  <2>2. [c EXCEPT !.shown = heard] \in Client(solves)
    BY <1>2, <1>3 DEF Client
  <2>3. ASSUME number <= MaxSolves
        PROVE  [c EXCEPT !.shown = heard, !.drawn = number, !.drawing = Append(@, number)] \in Client(solves)
    <3> HIDE DEF number
    <3>1. MaxSolves \in Nat /\ c.drawing \in Seq(1..MaxSolves)
      BY <1>2, MatchAssumption DEF Client
    <3>2. Append(c.drawing, number) \in Seq(1..MaxSolves)
      BY <2>1, <2>3, <3>1, AppendProperties
    <3> QED
      BY <1>2, <1>3, <2>1, <3>2 DEF Client
  <2> QED
    BY <1>2, <2>2, <2>3 DEF Received
<1>6. Apps(solves)'
  <2> HIDE DEF heard
  <2> QED
    BY <1>1, <1>5, OneClient DEF MatchInv
<1> QED
  BY <1>1, <1>4, <1>6, ServerStays DEF MatchInv, Ways

LEMMA DrawKeeps == ASSUME MatchInv, NEW app \in App, Draw(app) PROVE MatchInv'
<1>1. PICK i \in DOMAIN clients[app].drawing :
        /\ clients' = [clients EXCEPT ![app].drawing = RemoveAt(@, i)]
        /\ \/ Post(app, [type |-> "scramble", number |-> clients[app].drawing[i],
                         text |-> [by |-> app, number |-> clients[app].drawing[i]]])
           \/ UNCHANGED <<up, spoiled>>
        /\ UNCHANGED <<server, sock, conn, down>>
  BY DEF Draw
<1>2. UNCHANGED solves /\ clients[app] \in Client(solves)
  BY <1>1 DEF server, MatchInv, Apps
<1>3. clients[app].drawing \in Seq(1..MaxSolves) /\ i \in 1..Len(clients[app].drawing)
  BY <1>1, <1>2 DEF Client
<1>4. RemoveAt(clients[app].drawing, i) \in Seq(1..MaxSolves) /\ clients[app].drawing[i] \in 1..MaxSolves
  <2>1. RemoveAt(clients[app].drawing, i) \in Seq(1..MaxSolves)
    BY <1>3, Removed
  <2>2. clients[app].drawing[i] \in 1..MaxSolves
    BY <1>3, ElementOfSeq
  <2> QED
    BY <2>1, <2>2
<1>5. [clients[app] EXCEPT !.drawing = RemoveAt(@, i)] \in Client(solves)
  BY <1>2, <1>4 DEF Client
<1>6. Apps(solves)'
  BY <1>1, <1>2, <1>5, OneClient DEF MatchInv
<1>7. [type |-> "scramble", number |-> clients[app].drawing[i],
       text |-> [by |-> app, number |-> clients[app].drawing[i]]] \in Message(solves)
  BY <1>4 DEF Message, Moves, Scramble
<1>8. Ways(solves)'
  BY <1>1, <1>2, <1>7, Posted DEF MatchInv, Ways
<1> QED
  BY <1>1, <1>6, <1>8, ServerStays DEF MatchInv, Hears, server

LEMMA DrawFailsKeeps == ASSUME MatchInv, NEW app \in App, DrawFails(app) PROVE MatchInv'
<1>1. PICK i \in DOMAIN clients[app].drawing :
        clients' = [clients EXCEPT ![app].drawing = RemoveAt(@, i), ![app].drawn = 0]
  BY DEF DrawFails
<1>2. UNCHANGED <<server, network>> /\ UNCHANGED <<solves, up, sock, conn, down>>
  BY DEF DrawFails, server, network
<1>3. clients[app] \in Client(solves)
  BY DEF MatchInv, Apps
<1>4. RemoveAt(clients[app].drawing, i) \in Seq(1..MaxSolves)
  BY <1>1, <1>3, Removed DEF Client
<1>5. [clients[app] EXCEPT !.drawing = RemoveAt(@, i), !.drawn = 0] \in Client(solves)
  BY <1>3, <1>4 DEF Client
<1>6. clients' = [clients EXCEPT ![app] = [clients[app] EXCEPT !.drawing = RemoveAt(@, i), !.drawn = 0]]
  BY <1>1, <1>3 DEF MatchInv, Apps
<1>7. Apps(solves)'
  BY <1>2, <1>5, <1>6, OneClient DEF MatchInv
<1> QED
  BY <1>2, <1>7, ServerStays DEF MatchInv, Hears, Ways

\* What an app asks and its client stays, or opens or closes the match.
LEMMA AskKeeps ==
  ASSUME MatchInv, NEW app \in App, NEW m \in Message(solves), Post(app, m),
         UNCHANGED <<server, sock, conn, down>>, Apps(solves)'
  PROVE  MatchInv'
<1>1. UNCHANGED solves
  BY DEF server
<1>2. Ways(solves)'
  BY <1>1, Posted DEF MatchInv
<1> QED
  BY <1>1, <1>2, ServerStays DEF MatchInv, Hears

LEMMA OpenKeeps == ASSUME MatchInv, NEW app \in App, Open(app) PROVE MatchInv'
<1>1. /\ clients' = [clients EXCEPT ![app] = Opened(@)] /\ Post(app, [type |-> "join"])
      /\ UNCHANGED <<server, sock, conn, down>> /\ UNCHANGED solves
  BY DEF Open, server
<1>2. Opened(clients[app]) \in Client(solves)
  BY DEF MatchInv, Apps, Opened, Client
<1>3. Apps(solves)'
  BY <1>1, <1>2, OneClient DEF MatchInv
<1>4. [type |-> "join"] \in Message(solves)
  BY DEF Message, Moves
<1> QED
  BY <1>1, <1>3, <1>4, AskKeeps

LEMMA CloseKeeps == ASSUME MatchInv, NEW app \in App, Close(app) PROVE MatchInv'
<1>1. /\ clients' = [clients EXCEPT ![app].open = FALSE] /\ Post(app, [type |-> "leave"])
      /\ UNCHANGED <<server, sock, conn, down>> /\ UNCHANGED solves
  BY DEF Close, server
<1>2. [clients[app] EXCEPT !.open = FALSE] \in Client(solves)
  BY DEF MatchInv, Apps, Client
<1>3. Apps(solves)'
  BY <1>1, <1>2, OneClient DEF MatchInv
<1>4. [type |-> "leave"] \in Message(solves)
  BY DEF Message, Moves
<1> QED
  BY <1>1, <1>3, <1>4, AskKeeps

\* A solve is sent under the scramble its app shows: the match's.
LEMMA EndSolveKeeps == ASSUME MatchInv, NEW app \in App, EndSolve(app) PROVE MatchInv'
<1> DEFINE c == clients[app]
           n == Len(Rows(Shown(app)))
<1>1. PICK ms \in Times :
        /\ clients' = [clients EXCEPT ![app].shown.value.solves[n].results[app] =
                         [ms |-> ms, penalty |-> "none", on |-> LastShown(app).text]]
        /\ Post(app, [type |-> "solve", number |-> n, ms |-> ms, on |-> LastShown(app).text])
  BY DEF EndSolve
<1>2. /\ UNCHANGED <<server, sock, conn, down>> /\ UNCHANGED solves
      /\ Shows(app) /\ Rows(Shown(app)) # <<>>
  BY DEF EndSolve, server, Racing
<1>3. c \in Client(solves) /\ c.shown \in State(solves) /\ Rows(Shown(app)) = c.shown.value.solves
  BY <1>2 DEF MatchInv, Apps, Client, Shows, Shown, Rows
<1>4. Agrees(Rows(Shown(app)), solves)
  BY <1>3 DEF State, Told
<1>5. /\ n \in 1..Len(c.shown.value.solves) /\ n \in 1..Len(solves) /\ n \in Nat
      /\ LastShown(app) = Rows(Shown(app))[n]
      /\ LastShown(app).text = solves[n].text
  BY <1>2, <1>3, <1>4 DEF Agrees, LastShown
<1>6. LastShown(app).text \in Scramble
  <2>1. solves[n] \in Solve
    BY <1>5, ElementOfSeq DEF MatchInv
  <2> QED
    BY <1>5, <2>1 DEF Solve
<1> DEFINE r == [ms |-> ms, penalty |-> "none", on |-> LastShown(app).text]
           shown == [c.shown EXCEPT !.value.solves[n].results[app] = r]
<1>7. r \in Result
  BY <1>6 DEF Result
<1>8. shown \in State(solves)
  <2> HIDE DEF r, n, c
  <2> QED
    BY <1>3, <1>5, <1>7, ShownSolve DEF Seat
<1>9. [c EXCEPT !.shown = shown] \in Client(solves)
  <2> HIDE DEF shown
  <2> QED
    BY <1>3, <1>8 DEF Client
<1>10. clients' = [clients EXCEPT ![app] = [c EXCEPT !.shown = shown]]
  BY <1>1
<1>11. Apps(solves)'
  <2> HIDE DEF shown
  <2> QED
    BY <1>2, <1>9, <1>10, OneClient DEF MatchInv
<1>12. [type |-> "solve", number |-> n, ms |-> ms, on |-> LastShown(app).text] \in Message(solves)
  BY <1>5, <1>6 DEF Message, Moves
<1> QED
  BY <1>1, <1>2, <1>11, <1>12, AskKeeps

LEMMA PenaliseKeeps == ASSUME MatchInv, NEW app \in App, Penalise(app) PROVE MatchInv'
<1>1. PICK penalty \in {"none", "dnf"} :
        Post(app, [type |-> "penalty", number |-> Len(Rows(Shown(app))), penalty |-> penalty])
  BY DEF Penalise
<1>2. UNCHANGED <<server, sock, conn, down, clients>> /\ UNCHANGED solves /\ Shows(app)
  BY DEF Penalise, server
<1>3. Rows(Shown(app)) \in Seq(Solve)
  BY <1>2 DEF MatchInv, Apps, Client, State, Told, Shows, Shown, Rows
<1>4. Len(Rows(Shown(app))) \in Nat
  BY <1>3, LenProperties
<1>5. [type |-> "penalty", number |-> Len(Rows(Shown(app))), penalty |-> penalty] \in Message(solves)
  BY <1>4 DEF Message, Moves
<1>6. Apps(solves)'
  BY <1>2 DEF MatchInv, Apps
<1> QED
  BY <1>1, <1>2, <1>5, <1>6, AskKeeps

LEMMA CancelKeeps == ASSUME MatchInv, NEW app \in App, Cancel(app) PROVE MatchInv'
<1>1. /\ Post(app, [type |-> "cancel", number |-> Len(Rows(Shown(app)))])
      /\ UNCHANGED <<server, sock, conn, down, clients>> /\ UNCHANGED solves /\ Shows(app)
  BY DEF Cancel, server
<1>2. Rows(Shown(app)) \in Seq(Solve)
  BY <1>1 DEF MatchInv, Apps, Client, State, Told, Shows, Shown, Rows
<1>3. Len(Rows(Shown(app))) \in Nat
  BY <1>2, LenProperties
<1>4. [type |-> "cancel", number |-> Len(Rows(Shown(app)))] \in Message(solves)
  BY <1>3 DEF Message, Moves
<1>5. Apps(solves)'
  BY <1>1 DEF MatchInv, Apps
<1> QED
  BY <1>1, <1>4, <1>5, AskKeeps

LEMMA ForfeitKeeps == ASSUME MatchInv, NEW app \in App, Forfeit(app) PROVE MatchInv'
<1>1. /\ Post(app, [type |-> "forfeit"])
      /\ UNCHANGED <<server, sock, conn, down, clients>> /\ UNCHANGED solves
  BY DEF Forfeit, server
<1>2. [type |-> "forfeit"] \in Message(solves)
  BY DEF Message, Moves
<1>3. Apps(solves)'
  BY <1>1 DEF MatchInv, Apps
<1> QED
  BY <1>1, <1>2, <1>3, AskKeeps

LEMMA LoseKeeps == ASSUME MatchInv, NEW app \in App, Lose(app) PROVE MatchInv'
<1> DEFINE s == Current(app)
           closed == [type |-> "closed"]
<1>1. PICK n \in 0..Len(up[s]) : up' = [up EXCEPT ![s] = Append(SubSeq(@, 1, n), closed)]
  BY DEF Lose
<1>2. /\ conn' = [conn EXCEPT ![app] = FALSE] /\ down' = [down EXCEPT ![app] = <<>>]
      /\ UNCHANGED <<server, sock, clients>> /\ UNCHANGED solves
  BY DEF Lose, server
<1>3. s \in Socket
  BY DEF MatchInv, Ways, Current, Socket
<1>4. up[s] \in Seq(Message(solves))
  BY <1>3 DEF MatchInv, Ways
<1>5. closed \in Message(solves)
  BY DEF Message, Moves
<1> HIDE DEF s, closed
<1>6. SubSeq(up[s], 1, n) \in Seq(Message(solves))
  BY <1>1, <1>4, SubSeqProperties
<1>7. Append(SubSeq(up[s], 1, n), closed) \in Seq(Message(solves))
  BY <1>5, <1>6, AppendProperties
<1>8. Ways(solves)'
  BY <1>1, <1>2, <1>3, <1>7 DEF MatchInv, Ways
<1>9. Hears(solves)'
  BY <1>2, EmptySeq DEF MatchInv, Hears
<1>10. Apps(solves)'
  BY <1>2 DEF MatchInv, Apps
<1> QED
  BY <1>2, <1>8, <1>9, <1>10, ServerStays

LEMMA ReconnectKeeps == ASSUME MatchInv, NEW app \in App, Reconnect(app) PROVE MatchInv'
<1> DEFINE s == <<app, sock[app] + 1>>
<1>1. /\ sock[app] < MaxSockets /\ sock' = [sock EXCEPT ![app] = @ + 1]
      /\ conn' = [conn EXCEPT ![app] = TRUE] /\ up' = [up EXCEPT ![s] = Rejoins(app)]
      /\ UNCHANGED <<server, down, clients>> /\ UNCHANGED solves
  BY DEF Reconnect, server
<1>2. sock[app] + 1 \in 1..MaxSockets
  BY <1>1, MatchAssumption DEF MatchInv, Ways
<1>3. [type |-> "join"] \in Message(solves)
  BY DEF Message, Moves
<1>4. Rejoins(app) \in Seq(Message(solves))
  BY <1>3, EmptySeq DEF Rejoins
<1> HIDE DEF s
<1>5. Ways(solves)'
  BY <1>1, <1>2, <1>4 DEF MatchInv, Ways
<1>6. Hears(solves)' /\ Apps(solves)'
  BY <1>1 DEF MatchInv, Hears, Apps
<1> QED
  BY <1>1, <1>5, <1>6, ServerStays

-----------------------------------------------------------------------------
LEMMA MatchInitially == Init => MatchInv
<1> SUFFICES ASSUME Init PROVE MatchInv
  OBVIOUS
<1>1. solves \in Seq(Solve) /\ match \in Row /\ SameScramble
  BY EmptySeq DEF Init, SameScramble, Row
<1>2. Rooms(solves)
  BY DEF Init, Rooms
<1>3. [type |-> "join"] \in Message(solves)
  BY DEF Message, Moves
<1>4. <<[type |-> "join"]>> \in Seq(Message(solves)) /\ <<>> \in Seq(Message(solves))
  BY <1>3, EmptySeq
<1>5. 1 \in 1..MaxSockets
  BY MatchAssumption
<1>6. Ways(solves)
  BY <1>4, <1>5 DEF Init, Ways
<1>7. Hears(solves)
  BY EmptySeq DEF Init, Hears
<1>8. Opened(NewClient) \in Client(solves)
  BY EmptySeq DEF Opened, NewClient, Client
<1>9. Apps(solves)
  BY <1>8 DEF Init, Apps
<1> QED
  BY <1>1, <1>2, <1>6, <1>7, <1>9 DEF MatchInv

LEMMA MatchAlways == MatchInv /\ [Next]_vars => MatchInv'
<1> SUFFICES ASSUME MatchInv, [Next]_vars PROVE MatchInv'
  OBVIOUS
<1>1. CASE UNCHANGED vars
  BY <1>1 DEF vars, server, network, MatchInv, SameScramble, Rooms, Ways, Hears, Apps
<1>2. ASSUME NEW s \in Socket, Serve(s) \/ Enter(s) PROVE MatchInv'
  BY <1>2, ServeKeeps, EnterKeeps
<1>3. ASSUME NEW app \in App, Receive(app) \/ Draw(app) \/ DrawFails(app) \/ Open(app) \/ Close(app)
      PROVE  MatchInv'
  BY <1>3, ReceiveKeeps, DrawKeeps, DrawFailsKeeps, OpenKeeps, CloseKeeps
<1>4. ASSUME NEW app \in App,
             EndSolve(app) \/ Penalise(app) \/ Cancel(app) \/ Forfeit(app) \/ Lose(app) \/ Reconnect(app)
      PROVE  MatchInv'
  BY <1>4, EndSolveKeeps, PenaliseKeeps, CancelKeeps, ForfeitKeeps, LoseKeeps, ReconnectKeeps
<1> QED
  BY <1>1, <1>2, <1>3, <1>4 DEF Next

LEMMA MatchInvariant == Spec => []MatchInv
BY MatchInitially, MatchAlways, PTL DEF Spec

\* Both players of a solve made it on its scramble: what PlaySolve stores names the
\* scramble the app showed, and states told late still give each number its own.
THEOREM AlwaysSameScramble == Spec => []SameScramble
<1>1. MatchInv => SameScramble
  BY DEF MatchInv
<1> QED
  BY <1>1, MatchInvariant, PTL

-----------------------------------------------------------------------------
\* What SolvedStay says of one solve.
SolvedStays(n) ==
  /\ n \in DOMAIN solves' /\ solves'[n].text = solves[n].text
  /\ OpenSolve(solves'[n]) => OpenSolve(solves[n])

\* A result made of the last solve leaves it solved if both have one.
LEMMA RecordedStays ==
  ASSUME MatchInv, solves # <<>>, NEW seat \in Seat, NEW r \in Result,
         solves' = Recorded(seat, r), r = Unsolved => LastOpen
  PROVE  \A n \in DOMAIN solves : SolvedStays(n)
<1> DEFINE l == Len(solves)
<1>1. l \in 1..Len(solves) /\ solves[l] \in Solve
  BY ElementOfSeq, EmptySeq DEF MatchInv
<1>2. solves \in Seq(Solve) /\ DOMAIN solves = 1..Len(solves) /\ DOMAIN solves' = DOMAIN solves
  BY DEF MatchInv, Recorded
<1>3. ASSUME NEW n \in 1..Len(solves), n # l PROVE solves'[n] = solves[n]
  BY <1>1, <1>2, <1>3 DEF Recorded
<1>4. /\ solves'[l].text = solves[l].text
      /\ \A i \in Seat : solves'[l].results[i] = IF i = seat THEN r ELSE solves[l].results[i]
  BY <1>1, <1>2 DEF Recorded, Solve
<1>5. ASSUME OpenSolve(solves'[l]) PROVE OpenSolve(solves[l])
  <2>1. PICK i \in Seat : solves'[l].results[i] = Unsolved
    BY <1>5 DEF OpenSolve, Seat, App
  <2>2. CASE i = seat
    BY <1>4, <2>1, <2>2 DEF LastOpen
  <2>3. CASE i # seat
    BY <1>4, <2>1, <2>3 DEF OpenSolve, Seat, App
  <2> QED
    BY <2>2, <2>3
<1> HIDE DEF l
<1> SUFFICES ASSUME NEW n \in 1..Len(solves) PROVE SolvedStays(n)
  BY <1>2
<1>6. CASE n = l
  BY <1>2, <1>4, <1>5, <1>6 DEF SolvedStays
<1>7. CASE n # l
  BY <1>2, <1>3, <1>7 DEF SolvedStays
<1> QED
  BY <1>6, <1>7

LEMMA UnchangedStays ==
  ASSUME UNCHANGED solves
  PROVE  \A n \in DOMAIN solves : SolvedStays(n)
BY DEF SolvedStays

\* No move undoes a solve both made.
LEMMA MoveStays ==
  ASSUME MatchInv, NEW seat \in Seat, NEW m \in Message(solves), Move(seat, m)
  PROVE  \A n \in DOMAIN solves : SolvedStays(n)
<1>0. m \in Moves /\ Unsolved \in Result
  BY DEF Message, Result
<1>1. CASE m.type = "scramble" /\ PlayScramble(m)
  <2>1. PICK v : solves' = Append(solves, v)
    BY <1>1 DEF PlayScramble
  <2>2. solves \in Seq(Solve)
    BY DEF MatchInv
  <2>3. /\ DOMAIN solves = 1..Len(solves) /\ DOMAIN solves' = 1..(Len(solves) + 1)
        /\ \A n \in 1..Len(solves) : solves'[n] = solves[n]
    BY <2>1, <2>2
  <2> QED
    BY <2>2, <2>3 DEF SolvedStays
<1>2. CASE m.type = "solve" /\ PlaySolve(seat, m)
  <2> DEFINE r == [ms |-> m.ms, penalty |-> "none", on |-> m.on]
  <2>1. solves # <<>> /\ solves' = Recorded(seat, r)
    BY <1>2 DEF PlaySolve, Lasts
  <2>2. r \in [ms : Times, penalty : {"none", "dnf"}, on : Scramble]
    BY <1>0, <1>2 DEF Moves
  <2> HIDE DEF r
  <2>3. r \in Result /\ r # Unsolved
    BY <2>2, MadeIsSolved
  <2> QED
    BY <2>1, <2>3, RecordedStays
<1>3. CASE m.type = "penalty" /\ PlayPenalty(seat, m)
  <2> DEFINE r == [Mine(seat) EXCEPT !.penalty = m.penalty]
  <2>1. solves # <<>> /\ Mine(seat) # Unsolved /\ solves' = Recorded(seat, r)
    BY <1>3 DEF PlayPenalty, Lasts
  <2>2. solves[Len(solves)] \in Solve
    BY <2>1, ElementOfSeq, EmptySeq DEF MatchInv
  <2>3. Mine(seat) \in Result
    BY <2>2 DEF Mine, Solve
  <2>4. Mine(seat) \in [ms : Times, penalty : {"none", "dnf"}, on : Scramble]
    BY <2>1, <2>3, ResultParts
  <2>5. m.penalty \in {"none", "dnf"}
    BY <1>0, <1>3 DEF Moves
  <2>6. r \in [ms : Times, penalty : {"none", "dnf"}, on : Scramble]
    BY <2>4, <2>5
  <2> HIDE DEF r
  <2>7. r \in Result /\ r # Unsolved
    BY <2>6, MadeIsSolved
  <2> QED
    BY <2>1, <2>7, RecordedStays
<1>4. CASE m.type = "cancel" /\ PlayCancel(seat, m)
  BY <1>0, <1>4, RecordedStays DEF PlayCancel, Lasts, MayCancel
<1>5. CASE m.type = "forfeit" /\ PlayForfeit(seat)
  BY <1>5, UnchangedStays DEF PlayForfeit
<1> QED
  BY <1>1, <1>2, <1>3, <1>4, <1>5 DEF Move

LEMMA StepStays ==
  ASSUME MatchInv, [Next]_vars
  PROVE  \A n \in DOMAIN solves : SolvedStays(n)
<1>1. ASSUME NEW s \in Socket, Serve(s) PROVE \A n \in DOMAIN solves : SolvedStays(n)
  <2> DEFINE m == Head(up[s])
  <2>1. m \in Message(solves) /\ s[1] \in Seat
    BY <1>1, WaysTaken DEF Serve, MatchInv, Socket, Seat
  <2> HIDE DEF m
  <2>2. CASE Move(s[1], m)
    BY <2>1, <2>2, MoveStays
  <2>3. Move(s[1], m) \/ UNCHANGED solves
    BY <1>1 DEF Serve, ReadToJoin, Leave, Play, m
  <2> QED
    BY <2>2, <2>3, UnchangedStays
<1>2. (\E s \in Socket : Serve(s)) \/ UNCHANGED solves
  BY DEF Next, vars, server, Enter, Receive, Draw, DrawFails, Open, Close, EndSolve, Penalise,
         Cancel, Forfeit, Lose, Reconnect
<1> QED
  BY <1>1, <1>2, UnchangedStays

\* A solve both players made stays made, under its scramble: of the moves that reach
\* the server late, or twice, none takes back what PlaySolve closed.
THEOREM SolvedAlwaysStay == Spec => SolvedStay
<1>1. MatchInv /\ [Next]_vars =>
        [\A n \in DOMAIN solves :
           /\ n \in DOMAIN solves' /\ solves'[n].text = solves[n].text
           /\ OpenSolve(solves'[n]) => OpenSolve(solves[n])]_vars
  BY StepStays DEF SolvedStays
<1> QED
  BY <1>1, MatchInvariant, PTL DEF Spec, SolvedStay

-----------------------------------------------------------------------------
(* The end of a match.                                                     *)

\* The match ends as its solves say, its room and its ways are as its type has them.
EndInv ==
  /\ Len(solves) <= MaxSolves
  /\ match.forfeit => match.status = "done"
  /\ FairEnd
  /\ room = {} => last = NoValue
  /\ \A app \in App : down[app] # <<>> => conn[app]

\* What EndInv says of the match.
Ended(row, rows) ==
  /\ Len(rows) <= MaxSolves
  /\ row.forfeit => row.status = "done"
  /\ ~row.forfeit => row.winner = WinnerOf(rows) /\ (row.status = "done" <=> row.winner # NoOne)

\* A result of the last solve leaves their number, and the others.
LEMMA RecordedRest ==
  ASSUME solves \in Seq(Solve), solves # <<>>, NEW seat \in Seat, NEW r, solves' = Recorded(seat, r)
  PROVE  /\ Len(solves') = Len(solves)
         /\ \A n \in 1..(Len(solves) - 1) : solves'[n] = solves[n]
         /\ solves'[Len(solves)].results[seat] = r
<1> DEFINE l == Len(solves)
<1>1. l \in 1..Len(solves) /\ solves[l] \in Solve
  BY ElementOfSeq, EmptySeq
<1>2. DOMAIN solves = 1..Len(solves) /\ DOMAIN solves' = DOMAIN solves /\ Len(solves') = Len(solves)
  BY DEF Recorded
<1>3. ASSUME NEW n \in 1..(l - 1) PROVE solves'[n] = solves[n]
  BY <1>1, <1>2 DEF Recorded
<1>4. solves'[l].results[seat] = r
  BY <1>1, <1>2 DEF Recorded, Solve
<1> QED
  BY <1>2, <1>3, <1>4

\* A match settled in play ends as its solves say.
LEMMA SettledEnds ==
  ASSUME match \in Row, Playing, Ended(match, solves), NEW rows \in Seq(Solve), Len(rows) <= MaxSolves
  PROVE  Ended(Settled(rows), rows)
<1>1. match.status # "done" /\ ~match.forfeit /\ match.winner = NoOne
  BY DEF Playing, Ended
<1>2. WinnerOf(rows) \in {0, 1, NoOne}
  BY WinnerKind
<1> QED
  BY <1>1, <1>2 DEF Settled, Ended, Row

LEMMA MoveEnds ==
  ASSUME MatchInv, Ended(match, solves), Playing, NEW seat \in Seat, NEW m \in Message(solves), Move(seat, m)
  PROVE  Ended(match', solves')
<1>0. /\ m \in Moves /\ solves \in Seq(Solve) /\ match \in Row
      /\ solves' \in Seq(Solve) /\ match' \in Row
  BY MoveKeeps DEF Message, MatchInv
<1>1. match.status # "done" /\ ~match.forfeit /\ match.winner = NoOne
  BY DEF Playing, Ended
<1>2. CASE m.type = "scramble" /\ PlayScramble(m)
  <2> DEFINE v == [text |-> m.text, results |-> [i \in Seat |-> Unsolved]]
  <2>1. /\ solves' = Append(solves, v) /\ match' = [match EXCEPT !.status = "live"]
        /\ m.number = Len(solves) + 1 /\ WinnerOf(solves) = NoOne /\ m.number \in 1..MaxSolves
    BY <1>0, <1>2 DEF PlayScramble, Takes, Moves
  <2>2. OpenSolve(v)
    BY DEF OpenSolve, Seat, App
  <2> HIDE DEF v
  <2>3. /\ Len(solves') = Len(solves) + 1 /\ solves'[Len(solves')] = v
        /\ \A n \in 1..Len(solves) : solves'[n] = solves[n]
    BY <1>0, <2>1
  <2>4. WinnerOf(solves') = NoOne
    BY <1>0, <2>1, <2>2, <2>3, WinnerBefore
  <2>5. Len(solves') <= MaxSolves
    BY <1>0, <2>1, <2>3, MatchAssumption
  <2> QED
    BY <1>0, <1>1, <2>1, <2>4, <2>5 DEF Ended, Row
<1>3. CASE m.type = "solve" /\ PlaySolve(seat, m)
  <2>1. /\ solves # <<>> /\ match' = Settled(solves')
        /\ solves' = Recorded(seat, [ms |-> m.ms, penalty |-> "none", on |-> m.on])
    BY <1>3 DEF PlaySolve, Lasts
  <2>2. Len(solves') <= MaxSolves
    BY <1>0, <2>1, RecordedRest DEF Ended
  <2> QED
    BY <1>0, <2>1, <2>2, SettledEnds
<1>4. CASE m.type = "penalty" /\ PlayPenalty(seat, m)
  <2>1. /\ solves # <<>> /\ match' = Settled(solves')
        /\ solves' = Recorded(seat, [Mine(seat) EXCEPT !.penalty = m.penalty])
    BY <1>4 DEF PlayPenalty, Lasts
  <2>2. Len(solves') <= MaxSolves
    BY <1>0, <2>1, RecordedRest DEF Ended
  <2> QED
    BY <1>0, <2>1, <2>2, SettledEnds
<1>5. CASE m.type = "cancel" /\ PlayCancel(seat, m)
  <2>1. /\ solves # <<>> /\ match' = match /\ solves' = Recorded(seat, Unsolved) /\ LastOpen
    BY <1>5 DEF PlayCancel, Lasts, MayCancel
  <2>2. /\ Len(solves') = Len(solves) /\ \A n \in 1..(Len(solves) - 1) : solves'[n] = solves[n]
        /\ solves'[Len(solves)].results[seat] = Unsolved
    BY <1>0, <2>1, RecordedRest
  <2>3. OpenSolve(solves[Len(solves)]) /\ OpenSolve(solves'[Len(solves')])
    BY <2>1, <2>2 DEF LastOpen, OpenSolve, Seat, App
  <2>4. WinnerOf(solves') = WinnerOf(solves)
    BY <1>0, <2>1, <2>2, <2>3, WinnerOpen
  <2> QED
    BY <2>1, <2>2, <2>4 DEF Ended
<1>6. CASE m.type = "forfeit" /\ PlayForfeit(seat)
  BY <1>6 DEF PlayForfeit, Ended
<1> QED
  BY <1>2, <1>3, <1>4, <1>5, <1>6 DEF Move

\* Those who hear are connected, and the last value sent is kept while someone is here.
LEMMA SentEnds ==
  ASSUME NEW viewers, NEW v, Send(viewers, v), UNCHANGED conn,
         \A app \in App : down[app] # <<>> => conn[app]
  PROVE  /\ viewers = {} => last' = NoValue
         /\ \A app \in App : down'[app] # <<>> => conn'[app]
BY DEF Send

LEMMA StepEnds == ASSUME MatchInv, EndInv, [Next]_vars PROVE EndInv'
<1>0. Ended(match, solves)
  BY DEF EndInv, FairEnd, Ended
<1>1. ASSUME Ended(match', solves'), room' = {} => last' = NoValue,
             \A app \in App : down'[app] # <<>> => conn'[app]
      PROVE  EndInv'
  BY <1>1 DEF EndInv, FairEnd, Ended
<1>2. ASSUME UNCHANGED server, \A app \in App : down'[app] # <<>> => conn'[app] PROVE EndInv'
  BY <1>0, <1>1, <1>2 DEF server, EndInv
<1>3. ASSUME NEW s \in Socket, Serve(s) PROVE EndInv'
  <2> DEFINE m == Head(up[s])
  <2>1. m \in Message(solves) /\ s[1] \in Seat /\ UNCHANGED <<sock, conn, clients>>
    BY <1>3, WaysTaken DEF Serve, MatchInv, Socket, Seat
  <2> HIDE DEF m
  <2>2. CASE ReadToJoin(s)
    BY <1>0, <1>1, <2>1, <2>2 DEF ReadToJoin, EndInv
  <2>3. CASE Leave(s)
    <3>1. UNCHANGED <<match, solves>>
      BY <2>3 DEF Leave
    <3>2. CASE s \in room /\ Leaves(s)
      BY <1>0, <1>1, <2>1, <3>1, <3>2, SentEnds DEF Leaves, EndInv
    <3>3. CASE UNCHANGED <<room, last, down>>
      BY <1>0, <1>1, <2>1, <3>1, <3>3 DEF EndInv
    <3> QED
      BY <2>3, <3>2, <3>3 DEF Leave
  <2>4. CASE Play(s, m)
    <3>1. CASE Playing /\ Move(s[1], m)
      <4>1. Ended(match', solves')
        BY <1>0, <2>1, <3>1, MoveEnds
      <4>2. Publish /\ room' = room
        BY <2>1, <2>4, <3>1, MoveKeeps DEF Play
      <4> QED
        BY <1>1, <2>1, <4>1, <4>2, SentEnds DEF Publish, EndInv
    <3>2. CASE UNCHANGED <<match, solves, last, down>>
      BY <1>0, <1>1, <2>1, <2>4, <3>2 DEF EndInv, Play
    <3> QED
      BY <2>4, <3>1, <3>2 DEF Play
  <2> QED
    BY <1>3, <2>2, <2>3, <2>4 DEF Serve, m
<1>4. ASSUME NEW s \in Socket, Enter(s) PROVE EndInv'
  <2>1. UNCHANGED <<match, solves, conn>> /\ Send(room', joining[s])
    BY <1>4 DEF Enter
  <2> QED
    BY <1>0, <1>1, <2>1, SentEnds DEF EndInv
<1>5. ASSUME NEW app \in App, Receive(app) PROVE EndInv'
  <2>1. UNCHANGED server /\ UNCHANGED conn /\ down[app] # <<>> /\ down' = [down EXCEPT ![app] = Tail(@)]
    BY <1>5 DEF Receive
  <2>2. \A a \in App : down'[a] # <<>> => conn'[a]
    BY <2>1 DEF EndInv, MatchInv, Hears
  <2> QED
    BY <1>2, <2>1, <2>2
<1>6. ASSUME NEW app \in App, Lose(app) PROVE EndInv'
  <2>1. /\ UNCHANGED server /\ conn' = [conn EXCEPT ![app] = FALSE] /\ down' = [down EXCEPT ![app] = <<>>]
    BY <1>6 DEF Lose
  <2>2. \A a \in App : down'[a] # <<>> => conn'[a]
    BY <2>1 DEF EndInv, MatchInv, Hears, Ways
  <2> QED
    BY <1>2, <2>1, <2>2
<1>7. ASSUME NEW app \in App, Reconnect(app) PROVE EndInv'
  <2>1. UNCHANGED server /\ UNCHANGED down /\ conn' = [conn EXCEPT ![app] = TRUE]
    BY <1>7 DEF Reconnect
  <2>2. \A a \in App : down'[a] # <<>> => conn'[a]
    BY <2>1 DEF EndInv, MatchInv, Ways
  <2> QED
    BY <1>2, <2>1, <2>2
<1>8. CASE UNCHANGED <<server, conn, down>>
  BY <1>2, <1>8 DEF EndInv
<1> QED
  BY <1>3, <1>4, <1>5, <1>6, <1>7, <1>8
  DEF Next, vars, network, Draw, DrawFails, Open, Close, EndSolve, Penalise, Cancel, Forfeit

LEMMA EndInitially == Init => EndInv
BY WinnerNone, EmptySeq, MatchAssumption DEF Init, EndInv, FairEnd

\* A match ends as its solves say: the row tournamentSettle writes after each solve is
\* what the score of the solves kept gives, a forfeit apart, whatever moves come.
THEOREM AlwaysEndsRight == Spec => []EndsRight
<1>1. Init => EndInv
  BY EndInitially
<1>2. EndInv /\ MatchInv /\ [Next]_vars => EndInv'
  BY StepEnds
<1>3. MatchInv /\ EndInv => EndsRight
  <2> SUFFICES ASSUME MatchInv, EndInv PROVE EndsRight
    OBVIOUS
  <2>1. ASSUME NEW app \in App, Shows(app) PROVE Rows(Shown(app)) \in Seq(Solve)
    BY <2>1 DEF MatchInv, Apps, Client, State, Told, Shows, Shown, Rows
  <2>2. TypeOK
    BY <2>1 DEF TypeOK, MatchInv, EndInv, Rooms, Row
  <2> QED
    BY <2>2 DEF EndsRight, EndInv
<1> QED
  BY <1>1, <1>2, <1>3, MatchInvariant, PTL DEF Spec

-----------------------------------------------------------------------------
(* What an app that has the match open shows.                              *)

\* What is said of a socket's messages: one of a type is among them, a result for a
\* number is, and one that leaves is followed by one that joins.
Has(u, type) == \E i \in 1..Len(u) : u[i].type = type
Solving(u, number) == \E i \in 1..Len(u) : u[i].type = "solve" /\ u[i].number = number
Rejoining(u) ==
  \A i \in 1..Len(u) : u[i].type = "leave" => \E k \in 1..Len(u) : k > i /\ u[k].type = "join"

Up(app) == up[Current(app)]
Joins(app) == joining[Current(app)] # NoValue \/ Has(Up(app), "join")
\* An app that has the match open, with nothing to join.
Settles(app) == conn[app] /\ clients[app].open /\ ~Joins(app)

\* The match and its viewers as they are, and a client that shows its own result
\* before the server has it.
Now == [value |-> Value(match, solves), present |-> Present(room)]
Ahead(app) ==
  /\ Playing /\ Shows(app) /\ Shown(app).value.row = match
  /\ solves # <<>> /\ Mine(app) = Unsolved /\ Solving(Up(app), Len(solves))
\* The next scramble of the match as it is has been drawn for, if it is this app's to draw.
DrawnFor(app) ==
  ~spoiled /\ Turn(app, Now) /\ Len(solves) < MaxSolves => clients[app].drawn >= Len(solves) + 1
Hearing(app) ==
  IF down[app] # <<>> THEN down[app][Len(down[app])] = Now
  ELSE (Shown(app) = Now /\ DrawnFor(app)) \/ Ahead(app)

Linked(app) ==
  /\ conn[app] => ~Has(Up(app), "closed")
  /\ conn[app] /\ clients[app].open => Rejoining(Up(app))
  /\ Settles(app) => Current(app) \in room
  /\ Settles(app) /\ ~passed => Hearing(app)

LastIsNow == ~passed /\ room # {} => last = Value(match, solves)

MirrorInv == LastIsNow /\ \A app \in App : Linked(app)

\* A value, and a state, is not none.
LEMMA IsValue ==
  /\ \A row, rows : Value(row, rows) # NoValue
  /\ \A value, present : [value |-> value, present |-> present] # NoValue
<1>1. DOMAIN NoValue = {"none"}
  BY DEF NoValue
<1>2. ASSUME NEW row, NEW rows PROVE Value(row, rows) # NoValue
  <2>1. DOMAIN Value(row, rows) = {"row", "solves"}
    BY DEF Value
  <2> QED
    BY <1>1, <2>1
<1>3. ASSUME NEW value, NEW present PROVE [value |-> value, present |-> present] # NoValue
  <2>1. DOMAIN [value |-> value, present |-> present] = {"value", "present"}
    OBVIOUS
  <2> QED
    BY <1>1, <2>1
<1> QED
  BY <1>2, <1>3

\* What is said of messages, as the first is taken.
LEMMA TailSays ==
  ASSUME NEW S, NEW u \in Seq(S), u # <<>>
  PROVE  /\ \A type : Has(u, type) <=> Head(u).type = type \/ Has(Tail(u), type)
         /\ \A number : Solving(u, number) =>
              (Head(u).type = "solve" /\ Head(u).number = number) \/ Solving(Tail(u), number)
         /\ Rejoining(u) => Rejoining(Tail(u)) /\ (Head(u).type = "leave" => Has(Tail(u), "join"))
<1>1. /\ Len(Tail(u)) = Len(u) - 1 /\ Len(u) \in Nat /\ Len(u) >= 1 /\ Head(u) = u[1]
      /\ \A i \in 1..(Len(u) - 1) : Tail(u)[i] = u[i + 1]
  BY EmptySeq
<1>2. \A i \in 2..Len(u) : i - 1 \in 1..Len(Tail(u)) /\ Tail(u)[i - 1] = u[i]
  BY <1>1
<1>3. \A i \in 1..Len(Tail(u)) : i + 1 \in 2..Len(u) /\ Tail(u)[i] = u[i + 1]
  BY <1>1
<1>4. ASSUME NEW type PROVE Has(u, type) <=> Head(u).type = type \/ Has(Tail(u), type)
  BY <1>1, <1>2, <1>3 DEF Has
<1>5. ASSUME NEW number, Solving(u, number)
      PROVE  (Head(u).type = "solve" /\ Head(u).number = number) \/ Solving(Tail(u), number)
  BY <1>1, <1>2, <1>5 DEF Solving
<1>6. ASSUME Rejoining(u)
      PROVE  Rejoining(Tail(u)) /\ (Head(u).type = "leave" => Has(Tail(u), "join"))
  <2>1. ASSUME NEW i \in 1..Len(Tail(u)), Tail(u)[i].type = "leave"
        PROVE  \E k \in 1..Len(Tail(u)) : k > i /\ Tail(u)[k].type = "join"
    <3>1. u[i + 1].type = "leave" /\ i + 1 \in 1..Len(u)
      BY <1>1, <2>1
    <3>2. PICK k \in 1..Len(u) : k > i + 1 /\ u[k].type = "join"
      BY <1>6, <3>1 DEF Rejoining
    <3> QED
      BY <1>1, <1>2, <3>2
  <2>2. ASSUME Head(u).type = "leave" PROVE Has(Tail(u), "join")
    <3>1. PICK k \in 1..Len(u) : k > 1 /\ u[k].type = "join"
      BY <1>1, <1>6, <2>2 DEF Rejoining
    <3>2. k - 1 \in 1..Len(Tail(u)) /\ Tail(u)[k - 1] = u[k]
      BY <1>1, <1>2, <3>1
    <3> QED
      BY <3>1, <3>2 DEF Has
  <2> QED
    BY <2>1, <2>2 DEF Rejoining
<1> QED
  BY <1>4, <1>5, <1>6

\* And as one is added.
LEMMA AppendSays ==
  ASSUME NEW S, NEW u \in Seq(S), NEW m \in S
  PROVE  /\ \A type : Has(Append(u, m), type) <=> Has(u, type) \/ m.type = type
         /\ \A number : Solving(u, number) \/ (m.type = "solve" /\ m.number = number) =>
              Solving(Append(u, m), number)
         /\ m.type = "join" \/ (Rejoining(u) /\ m.type # "leave") => Rejoining(Append(u, m))
<1> DEFINE v == Append(u, m)
<1>1. /\ Len(v) = Len(u) + 1 /\ Len(u) \in Nat /\ v[Len(v)] = m
      /\ \A i \in 1..Len(u) : v[i] = u[i] /\ i \in 1..Len(v)
      /\ \A i \in 1..Len(v) : i = Len(v) \/ i \in 1..Len(u)
      /\ Len(v) \in 1..Len(v)
  BY AppendProperties
<1> HIDE DEF v
<1>2. \A type : Has(v, type) <=> Has(u, type) \/ m.type = type
  BY <1>1 DEF Has
<1>3. \A number : Solving(u, number) \/ (m.type = "solve" /\ m.number = number) => Solving(v, number)
  BY <1>1 DEF Solving
<1>4. ASSUME m.type = "join" PROVE Rejoining(v)
  BY <1>1, <1>4 DEF Rejoining
<1>5. ASSUME Rejoining(u), m.type # "leave" PROVE Rejoining(v)
  BY <1>1, <1>5 DEF Rejoining
<1> QED
  BY <1>2, <1>3, <1>4, <1>5 DEF v

\* What the proofs need of the types.
LEMMA LinkTypes ==
  ASSUME MatchInv, NEW app \in App
  PROVE  /\ Current(app) \in Socket /\ Up(app) \in Seq(Message(solves))
         /\ conn[app] \in BOOLEAN /\ sock[app] \in 1..MaxSockets
         /\ down[app] \in Seq(State(solves)) /\ clients[app] \in Client(solves)
<1>1. Current(app) \in Socket /\ conn[app] \in BOOLEAN /\ sock[app] \in 1..MaxSockets
  BY DEF MatchInv, Ways, Current, Socket
<1>2. Up(app) \in Seq(Message(solves))
  BY <1>1 DEF MatchInv, Ways, Up
<1> QED
  BY <1>1, <1>2 DEF MatchInv, Hears, Apps

\* An app nothing happens to stays linked.
LEMMA LinkedStays ==
  ASSUME NEW app \in App, Linked(app), UNCHANGED <<match, solves, room, passed>>,
         conn'[app] = conn[app], sock'[app] = sock[app], down'[app] = down[app],
         clients'[app].open = clients[app].open, clients'[app].shown = clients[app].shown,
         ~spoiled' => ~spoiled /\ clients'[app].drawn = clients[app].drawn,
         joining'[Current(app)] = joining[Current(app)], up'[Current(app)] = up[Current(app)]
  PROVE  Linked(app)'
<1>1. Current(app)' = Current(app) /\ Up(app)' = Up(app) /\ Now' = Now
  BY DEF Current, Up, Now
<1>2. Joins(app)' = Joins(app) /\ Settles(app)' = Settles(app)
  BY <1>1 DEF Joins, Settles
<1>3. Shown(app)' = Shown(app) /\ Mine(app)' = Mine(app) /\ Playing' = Playing
  BY DEF Shown, Mine, Playing
<1>4. Ahead(app)' = Ahead(app)
  BY <1>1, <1>3 DEF Ahead, Shows
<1>5. DrawnFor(app) => DrawnFor(app)'
  BY <1>1 DEF DrawnFor, Turn, ShownOver, Racing, Rows
<1>6. Hearing(app) => Hearing(app)'
  BY <1>1, <1>3, <1>4, <1>5 DEF Hearing
<1> QED
  BY <1>1, <1>2, <1>6 DEF Linked

\* A viewer told of the match and its viewers as they are hears them last.
LEMMA TellsNow ==
  ASSUME MatchInv, NEW app \in App, conn[app], Current(app) \in room', UNCHANGED <<sock, conn>>,
         NEW value, Send(room', value), value = Value(match, solves)'
  PROVE  Hearing(app)'
<1> DEFINE told == [value |-> value, present |-> Present(room')]
<1>1. down'[app] = Append(down[app], told)
  BY DEF Send
<1>2. down[app] \in Seq(State(solves))
  BY LinkTypes
<1>3. told = Now'
  BY DEF Now, Present
<1> HIDE DEF told
<1>4. down'[app] # <<>> /\ down'[app][Len(down'[app])] = told
  BY <1>1, <1>2
<1> QED
  BY <1>3, <1>4 DEF Hearing

\* What an app posts leaves it linked, be it to join, to play, or to leave as it closes.
LEMMA PostLinked ==
  ASSUME MatchInv, NEW app \in App, Linked(app), NEW b \in App, NEW m \in Message(solves), Post(b, m),
         UNCHANGED <<server, sock, conn, down, passed>>, m.type # "closed",
         \/ m.type = "join" /\ app = b
         \/ ~clients'[app].open /\ app = b
         \/ /\ m.type \notin {"join", "leave"} \/ app # b
            /\ clients'[app].open = clients[app].open /\ clients'[app].shown = clients[app].shown
            /\ clients'[app].drawn = clients[app].drawn
  PROVE  Linked(app)'
<1>1. /\ UNCHANGED <<match, solves, room, joining>> /\ Current(app)' = Current(app) /\ Now' = Now
      /\ Current(app) \in Socket /\ Up(app) \in Seq(Message(solves))
  BY LinkTypes DEF server, Current, Now
<1>0. ~spoiled' => ~spoiled
  BY DEF Post
<1>2. CASE app # b \/ ~conn[b]
  <2>1. up'[Current(app)] = up[Current(app)]
    BY <1>1, <1>2 DEF Post, MatchInv, Ways, Current
  <2>2. CASE ~conn[app]
    BY <2>2 DEF Linked, Settles
  <2>3. CASE app # b
    BY <1>0, <1>1, <2>1, <2>3, LinkedStays
  <2> QED
    BY <1>2, <2>2, <2>3
<1>3. CASE app = b /\ conn[b]
  <2>1. Up(app)' = Append(Up(app), m)
    BY <1>1, <1>3 DEF Post, MatchInv, Ways, Up
  <2>2. /\ \A type : Has(Up(app)', type) <=> Has(Up(app), type) \/ m.type = type
        /\ \A number : Solving(Up(app), number) => Solving(Up(app)', number)
        /\ m.type = "join" \/ (Rejoining(Up(app)) /\ m.type # "leave") => Rejoining(Up(app)')
    BY <1>1, <2>1, AppendSays
  <2>3. ~Has(Up(app)', "closed")
    BY <1>3, <2>2 DEF Linked
  <2>4. CASE ~clients'[app].open
    BY <2>3, <2>4 DEF Linked, Settles
  <2>5. CASE m.type = "join"
    <3>1. ~Settles(app)'
      BY <2>2, <2>5 DEF Settles, Joins
    <3> QED
      BY <2>2, <2>3, <2>5, <3>1 DEF Linked
  <2>6. CASE /\ m.type \notin {"join", "leave"} /\ clients'[app].open = clients[app].open
             /\ clients'[app].shown = clients[app].shown /\ clients'[app].drawn = clients[app].drawn
    <3>1. Settles(app)' = Settles(app)
      BY <1>1, <2>2, <2>6 DEF Settles, Joins
    <3>2. conn[app] /\ clients[app].open => Rejoining(Up(app)')
      BY <2>2, <2>6 DEF Linked
    <3>3. Shown(app)' = Shown(app) /\ Mine(app)' = Mine(app) /\ Playing' = Playing
      BY <1>1, <2>6 DEF Shown, Mine, Playing
    <3>4. DrawnFor(app) => DrawnFor(app)'
      BY <1>0, <1>1, <2>6 DEF DrawnFor, Turn, ShownOver, Racing, Rows
    <3>5. Hearing(app) => Hearing(app)'
      BY <1>1, <2>2, <3>3, <3>4 DEF Hearing, Ahead, Shows
    <3> QED
      BY <1>1, <2>3, <2>6, <3>1, <3>2, <3>5 DEF Linked
  <2> QED
    BY <1>3, <2>4, <2>5, <2>6
<1> QED
  BY <1>2, <1>3

\* An app the server hears nothing from: it is told, or nothing changes for it.
LEMMA OthersLinked ==
  ASSUME MatchInv, NEW app \in App, Linked(app), UNCHANGED <<sock, conn, clients, spoiled, passed>>,
         joining'[Current(app)] = joining[Current(app)], up'[Current(app)] = up[Current(app)],
         Current(app) \in room => Current(app) \in room',
         \/ UNCHANGED <<match, solves, room, down>>
         \/ ~passed /\ Current(app) \in room' => Hearing(app)'
  PROVE  Linked(app)'
<1>1. Current(app)' = Current(app) /\ Up(app)' = Up(app)
  BY DEF Current, Up
<1>2. Settles(app)' = Settles(app)
  BY <1>1 DEF Joins, Settles
<1>3. CASE UNCHANGED <<match, solves, room, down>>
  BY <1>3, LinkedStays
<1>4. CASE ~passed /\ Current(app) \in room' => Hearing(app)'
  BY <1>1, <1>2, <1>4 DEF Linked
<1> QED
  BY <1>3, <1>4

LEMMA LeaveLinked ==
  ASSUME MatchInv, MirrorInv, NEW s \in Socket, Leave(s), UNCHANGED <<sock, conn, clients, spoiled, passed>>
  PROVE  /\ LastIsNow'
         /\ \A app \in App : Current(app) # s /\ up'[Current(app)] = up[Current(app)] => Linked(app)'
<1>1. UNCHANGED <<match, solves, joining>>
  BY DEF Leave
<1>2. CASE UNCHANGED <<room, last, down>>
  BY <1>1, <1>2, OthersLinked DEF MirrorInv, LastIsNow
<1>3. CASE s \in room /\ Leaves(s)
  <2>1. room' = room \ {s} /\ Send(room', last)
    BY <1>3 DEF Leaves
  <2>2. ~passed => last = Value(match, solves)'
    BY <1>1, <1>3 DEF MirrorInv, LastIsNow
  <2>3. LastIsNow'
    BY <1>1, <2>1, <2>2 DEF LastIsNow, Send
  <2>4. ASSUME NEW app \in App, Current(app) # s, up'[Current(app)] = up[Current(app)]
        PROVE  Linked(app)'
    <3>1. Linked(app) /\ (conn[app] /\ ~passed /\ Current(app) \in room' => Hearing(app)')
      BY <2>1, <2>2, TellsNow DEF MirrorInv
    <3>2. Current(app)' = Current(app) /\ Up(app)' = Up(app)
      BY <2>4 DEF Current, Up
    <3>3. Settles(app)' = Settles(app) /\ (Settles(app) => conn[app])
      BY <1>1, <3>2 DEF Joins, Settles
    <3> QED
      BY <2>1, <2>4, <3>1, <3>2, <3>3 DEF Linked
  <2> QED
    BY <2>3, <2>4
<1> QED
  BY <1>2, <1>3 DEF Leave

LEMMA MoveLinked ==
  ASSUME MatchInv, MirrorInv, NEW s \in Socket, NEW m \in Message(solves), Move(s[1], m),
         UNCHANGED <<room, joining, sock, conn, clients, spoiled, passed>>
  PROVE  LastIsNow' /\ \A app \in App : conn[app] /\ Current(app) \in room => Hearing(app)'
<1>1. s[1] \in Seat
  BY DEF Socket, Seat
<1>2. Publish
  BY <1>1, MoveKeeps
<1>3. LastIsNow'
  BY <1>2 DEF Publish, Send, LastIsNow, Value
<1>4. Send(room', Value(match, solves)')
  BY <1>2 DEF Publish, Value
<1> QED
  BY <1>3, <1>4, TellsNow

LEMMA ServeLinked == ASSUME MatchInv, MirrorInv, NEW s \in Socket, Serve(s) PROVE MirrorInv'
<1> DEFINE m == Head(up[s])
<1>1. /\ up[s] # <<>> /\ joining[s] = NoValue /\ up' = [up EXCEPT ![s] = Tail(@)]
      /\ UNCHANGED <<sock, conn, clients, spoiled, passed>>
      /\ \/ m.type = "join" /\ ReadToJoin(s)
         \/ m.type \in {"leave", "closed"} /\ Leave(s)
         \/ m.type \notin {"join", "leave", "closed"} /\ Play(s, m)
  BY DEF Serve
<1>2. up \in [Socket -> Seq(Message(solves))] /\ m \in Message(solves)
  BY <1>1, WaysTaken DEF MatchInv, Ways
<1>3. ASSUME NEW app \in App
      PROVE  /\ Current(app) \in Socket /\ Current(app)' = Current(app) /\ Linked(app)
             /\ up'[Current(app)] = IF Current(app) = s THEN Tail(up[s]) ELSE up[Current(app)]
  BY <1>1, <1>2, LinkTypes DEF Current, MirrorInv
<1>4. Move(s[1], m) \/ UNCHANGED <<match, solves, last, down>> \/ ~Play(s, m)
  BY DEF Play
<1>5. LastIsNow'
  <2>1. CASE UNCHANGED <<match, solves, room, last>>
    BY <1>1, <2>1 DEF MirrorInv, LastIsNow
  <2>2. CASE Leave(s)
    BY <1>1, <2>2, LeaveLinked
  <2>3. CASE Play(s, m) /\ Move(s[1], m)
    BY <1>1, <1>2, <2>3, MoveLinked DEF Play
  <2> QED
    BY <1>1, <1>4, <2>1, <2>2, <2>3 DEF ReadToJoin, Play
<1>6. ASSUME NEW app \in App, Current(app) # s PROVE Linked(app)'
  <2>1. up'[Current(app)] = up[Current(app)] /\ Linked(app)
    BY <1>3, <1>6
  <2>2. CASE ReadToJoin(s)
    BY <1>1, <1>6, <2>1, <2>2, OthersLinked DEF ReadToJoin, MatchInv, Rooms
  <2>3. CASE Leave(s)
    BY <1>1, <1>6, <2>1, <2>3, LeaveLinked
  <2>4. CASE Play(s, m)
    <3>1. UNCHANGED <<room, joining>>
      BY <2>4 DEF Play
    <3>2. CASE Move(s[1], m)
      <4>1. conn[app] /\ Current(app) \in room => Hearing(app)'
        BY <1>1, <1>2, <3>1, <3>2, MoveLinked
      <4>2. Current(app)' = Current(app) /\ Up(app)' = Up(app)
        BY <1>1, <2>1 DEF Current, Up
      <4>3. Settles(app)' = Settles(app) /\ (Settles(app) => conn[app])
        BY <1>1, <3>1, <4>2 DEF Joins, Settles
      <4> QED
        BY <1>1, <2>1, <3>1, <4>1, <4>2, <4>3 DEF Linked
    <3>3. CASE UNCHANGED <<match, solves, last, down>>
      BY <1>1, <2>1, <3>1, <3>3, OthersLinked
    <3> QED
      BY <1>4, <2>4, <3>2, <3>3
  <2> QED
    BY <1>1, <2>2, <2>3, <2>4
<1>7. ASSUME NEW app \in App, Current(app) = s PROVE Linked(app)'
  <2>1. /\ Up(app) = up[s] /\ Up(app)' = Tail(up[s]) /\ Linked(app)
        /\ Current(app)' = Current(app) /\ Up(app) \in Seq(Message(solves))
    BY <1>2, <1>3, <1>7 DEF Up
  <2>2. /\ \A type : Has(Up(app), type) <=> m.type = type \/ Has(Up(app)', type)
        /\ \A number : Solving(Up(app), number) =>
              (m.type = "solve" /\ m.number = number) \/ Solving(Up(app)', number)
        /\ Rejoining(Up(app)) => Rejoining(Up(app)') /\ (m.type = "leave" => Has(Up(app)', "join"))
    BY <1>1, <2>1, TailSays
  <2> HIDE DEF m
  <2>3. /\ conn'[app] => ~Has(Up(app)', "closed")
        /\ conn'[app] /\ clients'[app].open => Rejoining(Up(app)')
    BY <1>1, <2>1, <2>2 DEF Linked
  <2>4. CASE m.type = "join" /\ ReadToJoin(s)
    <3>1. joining'[s] # NoValue
      BY <1>7, <1>3, <2>4, IsValue DEF ReadToJoin, MatchInv, Rooms
    <3> QED
      BY <1>7, <2>1, <2>3, <3>1 DEF Linked, Settles, Joins
  <2>5. CASE m.type \in {"leave", "closed"}
    <3>1. ~Settles(app)'
      BY <1>1, <2>1, <2>2, <2>5 DEF Linked, Settles, Joins
    <3> QED
      BY <2>3, <3>1 DEF Linked
  <2>6. CASE m.type \notin {"join", "leave", "closed"} /\ Play(s, m)
    <3>1. UNCHANGED <<room, joining>> /\ Settles(app)' = Settles(app)
      BY <1>1, <2>1, <2>2, <2>6 DEF Play, Settles, Joins
    <3>2. CASE Move(s[1], m)
      <4>1. conn[app] /\ Current(app) \in room => Hearing(app)'
        BY <1>1, <1>2, <3>1, <3>2, MoveLinked
      <4> QED
        BY <1>1, <2>1, <2>3, <3>1, <4>1 DEF Linked, Settles
    <3>3. CASE (s \notin room \/ Ignored(s[1], m)) /\ UNCHANGED <<match, solves, last, down>>
      <4>1. Now' = Now /\ Shown(app)' = Shown(app) /\ Mine(app)' = Mine(app) /\ Playing' = Playing
        BY <1>1, <3>1, <3>3 DEF Now, Shown, Mine, Playing
      <4>2. ASSUME Settles(app), Ahead(app) PROVE Solving(Up(app)', Len(solves))
        <5>1. s \in room /\ s[1] = app
          BY <1>7, <2>1, <4>2 DEF Linked, Current
        <5>2. Playing /\ solves # <<>> /\ Mine(app) = Unsolved /\ Solving(Up(app), Len(solves))
          BY <4>2 DEF Ahead
        <5>3. ~(m.type = "solve" /\ m.number = Len(solves))
          BY <3>3, <5>1, <5>2 DEF Ignored, Lasts
        <5> QED
          BY <2>2, <5>2, <5>3
      <4>3. Settles(app) /\ Ahead(app) => Ahead(app)'
        BY <3>3, <4>1, <4>2 DEF Ahead, Shows
      <4>4. DrawnFor(app)' = DrawnFor(app)
        BY <1>1, <3>1, <3>3, <4>1 DEF DrawnFor, Turn, ShownOver, Racing, Rows
      <4>5. Settles(app) /\ Hearing(app) => Hearing(app)'
        BY <3>3, <4>1, <4>3, <4>4 DEF Hearing
      <4> QED
        BY <1>1, <2>1, <2>3, <3>1, <4>5 DEF Linked
    <3> QED
      BY <2>6, <3>2, <3>3 DEF Play
  <2> QED
    BY <1>1, <2>4, <2>5, <2>6 DEF m
<1> QED
  BY <1>5, <1>6, <1>7 DEF MirrorInv

LEMMA EnterLinked == ASSUME MatchInv, MirrorInv, NEW s \in Socket, Enter(s) PROVE MirrorInv'
<1>1. /\ joining' = [joining EXCEPT ![s] = NoValue] /\ room' = room \cup {s}
      /\ Send(room', joining[s]) /\ UNCHANGED <<match, solves, up, sock, conn, clients, spoiled>>
      /\ ~passed' => ~passed /\ joining[s] = Value(match, solves)'
  BY DEF Enter
<1>2. LastIsNow'
  BY <1>1 DEF LastIsNow, Send
<1>3. ASSUME NEW app \in App PROVE Linked(app)'
  <2>1. Current(app)' = Current(app) /\ Up(app)' = Up(app) /\ Linked(app) /\ Current(app) \in Socket
    BY <1>1, LinkTypes DEF Current, Up, MirrorInv
  <2>2. Settles(app)' => Current(app) \in room'
    BY <1>1, <2>1 DEF Settles, Joins, Linked, MatchInv, Rooms
  <2>3. conn[app] /\ Current(app) \in room' /\ ~passed' => Hearing(app)'
    BY <1>1, TellsNow
  <2> QED
    BY <1>1, <2>1, <2>2, <2>3 DEF Linked, Settles
<1> QED
  BY <1>2, <1>3 DEF MirrorInv

\* The server's side unchanged, what was last sent still stands.
LEMMA AppsLinked ==
  ASSUME MatchInv, MirrorInv, UNCHANGED <<server, passed>>, \A app \in App : Linked(app)'
  PROVE  MirrorInv'
BY DEF MirrorInv, LastIsNow, server

\* The last of what is to be heard stays last as the first is heard.
LEMMA TailLast ==
  ASSUME NEW S, NEW d \in Seq(S), d # <<>>, Len(d) # 1
  PROVE  Tail(d) # <<>> /\ Tail(d)[Len(Tail(d))] = d[Len(d)]
<1> DEFINE n == Len(d)
           t == Tail(d)
<1>1. n \in Nat /\ n # 0 /\ n # 1
  BY EmptySeq
<1>2. t \in Seq(S) /\ Len(t) = n - 1 /\ \A i \in 1..(n - 1) : t[i] = d[i + 1]
  BY HeadTailProperties
<1> HIDE DEF n, t
<1>3. n - 1 \in 1..(n - 1) /\ (n - 1) + 1 = n
  BY <1>1
<1>4. t[n - 1] = d[n]
  BY <1>2, <1>3
<1>5. t # <<>>
  BY <1>2, <1>3, EmptySeq
<1> QED
  BY <1>2, <1>4, <1>5 DEF n, t

LEMMA ReceiveLinked == ASSUME MatchInv, MirrorInv, NEW b \in App, Receive(b) PROVE MirrorInv'
<1> DEFINE heard == Head(down[b])
<1>1. /\ down[b] # <<>> /\ down' = [down EXCEPT ![b] = Tail(@)]
      /\ clients' = [clients EXCEPT ![b] = Received(b, heard)]
      /\ UNCHANGED <<server, up, sock, conn, spoiled, passed>> /\ UNCHANGED <<match, solves, room, joining>>
  BY DEF Receive, server
<1>2. clients \in [App -> Client(solves)] /\ down \in [App -> Seq(State(solves))]
  BY DEF MatchInv, Apps, Hears
<1> HIDE DEF heard
<1>3. ASSUME NEW app \in App, app # b PROVE Linked(app)'
  BY <1>1, <1>2, <1>3, LinkedStays DEF MirrorInv
<1>4. Linked(b)'
  <2>1. Current(b)' = Current(b) /\ Up(b)' = Up(b) /\ Now' = Now /\ Linked(b)
    BY <1>1 DEF Current, Up, Now, MirrorInv
  <2>2. /\ clients'[b].open = clients[b].open
        /\ clients[b].open => clients'[b].shown = heard
    <3>1. clients'[b] = Received(b, heard)
      BY <1>1, <1>2
    <3>2. clients[b] \in Client(solves)
      BY <1>2
    <3> QED
      BY <3>1, <3>2 DEF Received, Client
  <2>3. Settles(b)' = Settles(b)
    BY <1>1, <2>1, <2>2 DEF Settles, Joins
  <2>4. ASSUME Settles(b), Hearing(b) PROVE Hearing(b)'
    <3> DEFINE d == down[b]
    <3>1. d \in Seq(State(solves)) /\ d # <<>> /\ d[Len(d)] = Now /\ heard = Head(d) /\ down'[b] = Tail(d)
      BY <1>1, <1>2, <2>4 DEF Hearing, heard
    <3>2. Shown(b)' = heard
      BY <2>2, <2>4 DEF Settles, Shown
    <3> HIDE DEF d
    <3>3. CASE Len(d) = 1
      <4>1. Tail(d) = <<>> /\ heard = Now
        BY <3>1, <3>3
      <4>2. DrawnFor(b)'
        <5> SUFFICES ASSUME Turn(b, Now), Len(solves) < MaxSolves
                     PROVE  clients'[b].drawn >= Len(solves) + 1
          BY <1>1, <2>1 DEF DrawnFor, Turn, ShownOver, Racing, Rows
        <5>1. /\ clients[b] \in Client(solves) /\ clients[b].open /\ clients'[b] = Received(b, Now)
              /\ Now.value.solves = solves /\ Len(solves) \in Nat /\ MaxSolves \in Nat
          BY <1>1, <1>2, <2>4, <4>1, MatchAssumption DEF Settles, Now, Value, MatchInv
        <5>2. Draws(clients[b], b, Now) <=> clients[b].drawn < Len(solves) + 1
          BY <5>1 DEF Draws
        <5> HIDE DEF Now
        <5>3. CASE clients[b].drawn < Len(solves) + 1
          <6>1. clients'[b] = [clients[b] EXCEPT !.shown = Now, !.drawn = Len(solves) + 1,
                                                 !.drawing = Append(@, Len(solves) + 1)]
            BY <5>1, <5>2, <5>3 DEF Received
          <6> QED
            BY <5>1, <6>1 DEF Client
        <5>4. CASE ~(clients[b].drawn < Len(solves) + 1)
          <6>1. clients'[b] = [clients[b] EXCEPT !.shown = Now]
            BY <5>1, <5>2, <5>4 DEF Received
          <6> QED
            BY <5>1, <5>4, <6>1 DEF Client
        <5> QED
          BY <5>3, <5>4
      <4> QED
        BY <2>1, <3>1, <3>2, <4>1, <4>2 DEF Hearing
    <3>4. CASE Len(d) # 1
      <4>1. Tail(d) # <<>> /\ Tail(d)[Len(Tail(d))] = d[Len(d)]
        BY <3>1, <3>4, TailLast
      <4> QED
        BY <2>1, <3>1, <4>1 DEF Hearing
    <3> QED
      BY <3>3, <3>4
  <2> QED
    BY <1>1, <2>1, <2>2, <2>3, <2>4 DEF Linked
<1> QED
  BY <1>1, <1>3, <1>4, AppsLinked

\* What the match of a client is linked by stays.
SameLink(app) ==
  /\ clients'[app].open = clients[app].open /\ clients'[app].shown = clients[app].shown
  /\ clients'[app].drawn = clients[app].drawn

\* A client that keeps what it shows, and asks something of the match.
LEMMA AskLinked ==
  ASSUME MatchInv, MirrorInv, NEW b \in App, NEW m \in Message(solves), Post(b, m),
         UNCHANGED <<server, sock, conn, down, passed>>, m.type \notin {"closed", "join", "leave"},
         \A app \in App : SameLink(app)
  PROVE  MirrorInv'
<1>1. \A app \in App : Linked(app)'
  BY PostLinked DEF MirrorInv, SameLink
<1> QED
  BY <1>1, AppsLinked

LEMMA DrawLinked == ASSUME MatchInv, MirrorInv, NEW b \in App, Draw(b) PROVE MirrorInv'
<1>1. PICK i \in DOMAIN clients[b].drawing :
        /\ clients' = [clients EXCEPT ![b].drawing = RemoveAt(@, i)]
        /\ \/ Post(b, [type |-> "scramble", number |-> clients[b].drawing[i],
                         text |-> [by |-> b, number |-> clients[b].drawing[i]]])
           \/ UNCHANGED <<up, spoiled>>
        /\ UNCHANGED <<server, sock, conn, down, passed>>
  BY DEF Draw
<1>2. \A app \in App : SameLink(app)
  BY <1>1 DEF MatchInv, Apps, Client, SameLink
<1>3. CASE UNCHANGED <<up, spoiled>>
  BY <1>1, <1>2, <1>3, LinkedStays, AppsLinked DEF MirrorInv, server, SameLink
<1>4. CASE Post(b, [type |-> "scramble", number |-> clients[b].drawing[i],
                    text |-> [by |-> b, number |-> clients[b].drawing[i]]])
  <2>1. clients[b].drawing \in Seq(1..MaxSolves) /\ i \in 1..Len(clients[b].drawing)
    BY <1>1 DEF MatchInv, Apps, Client
  <2>2. clients[b].drawing[i] \in 1..MaxSolves
    BY <2>1, ElementOfSeq
  <2>3. [type |-> "scramble", number |-> clients[b].drawing[i],
         text |-> [by |-> b, number |-> clients[b].drawing[i]]] \in Message(solves)
    BY <2>2 DEF Message, Moves, Scramble
  <2> QED
    BY <1>1, <1>2, <1>4, <2>3, AskLinked
<1> QED
  BY <1>1, <1>3, <1>4

LEMMA DrawFailsLinked == ASSUME MatchInv, MirrorInv, NEW b \in App, DrawFails(b) PROVE MirrorInv'
<1>1. PICK i \in DOMAIN clients[b].drawing :
        clients' = [clients EXCEPT ![b].drawing = RemoveAt(@, i), ![b].drawn = 0]
  BY DEF DrawFails
<1>2. \A app \in App : clients'[app].open = clients[app].open /\ clients'[app].shown = clients[app].shown
  BY <1>1 DEF MatchInv, Apps, Client
<1>3. UNCHANGED <<server, network, passed>> /\ spoiled'
  BY DEF DrawFails
<1> QED
  BY <1>2, <1>3, LinkedStays, AppsLinked DEF MirrorInv, server, network

LEMMA OpenLinked == ASSUME MatchInv, MirrorInv, NEW b \in App, Open(b) PROVE MirrorInv'
<1>1. /\ clients' = [clients EXCEPT ![b] = Opened(@)] /\ Post(b, [type |-> "join"])
      /\ UNCHANGED <<server, sock, conn, down, passed>>
  BY DEF Open
<1>2. [type |-> "join"] \in Message(solves)
  BY DEF Message, Moves
<1>3. ASSUME NEW app \in App PROVE Linked(app)'
  BY <1>1, <1>2, PostLinked DEF MirrorInv, MatchInv, Apps
<1> QED
  BY <1>1, <1>3, AppsLinked

LEMMA CloseLinked == ASSUME MatchInv, MirrorInv, NEW b \in App, Close(b) PROVE MirrorInv'
<1>1. /\ clients' = [clients EXCEPT ![b].open = FALSE] /\ Post(b, [type |-> "leave"])
      /\ UNCHANGED <<server, sock, conn, down, passed>>
  BY DEF Close
<1>2. [type |-> "leave"] \in Message(solves)
  BY DEF Message, Moves
<1>3. ASSUME NEW app \in App PROVE Linked(app)'
  BY <1>1, <1>2, PostLinked DEF MirrorInv, MatchInv, Apps, Client
<1> QED
  BY <1>1, <1>3, AppsLinked

\* A client that shows its own result is ahead until the server has it.
LEMMA EndSolveLinked == ASSUME MatchInv, MirrorInv, NEW b \in App, EndSolve(b) PROVE MirrorInv'
<1> DEFINE n == Len(Rows(Shown(b)))
<1>1. PICK ms \in Times :
        /\ clients' = [clients EXCEPT ![b].shown.value.solves[n].results[b] =
                         [ms |-> ms, penalty |-> "none", on |-> LastShown(b).text]]
        /\ Post(b, [type |-> "solve", number |-> n, ms |-> ms, on |-> LastShown(b).text])
  BY DEF EndSolve
<1>2. /\ UNCHANGED <<server, sock, conn, down, passed>> /\ UNCHANGED <<match, solves, room, joining>>
      /\ Shows(b) /\ ~ShownOver(Shown(b)) /\ Rows(Shown(b)) # <<>> /\ LastShown(b).results[b] = Unsolved
  BY DEF EndSolve, server, Racing
<1> DEFINE m == [type |-> "solve", number |-> n, ms |-> ms, on |-> LastShown(b).text]
<1>3. /\ clients \in [App -> Client(solves)] /\ Shown(b) = clients[b].shown
      /\ clients[b].shown \in State(solves) /\ Rows(Shown(b)) = Shown(b).value.solves
  BY <1>2 DEF MatchInv, Apps, Client, Shows, Shown, Rows
<1>4. Agrees(Rows(Shown(b)), solves) /\ LastShown(b) = Rows(Shown(b))[n]
  BY <1>3 DEF State, Told, LastShown
<1>5. m \in Message(solves)
  <2>1. n \in 1..Len(solves) /\ LastShown(b).text = solves[n].text /\ n \in Nat
    BY <1>2, <1>4 DEF Agrees
  <2>2. solves[n] \in Solve
    BY <2>1, ElementOfSeq DEF MatchInv
  <2>3. LastShown(b).text \in Scramble
    BY <2>1, <2>2 DEF Solve
  <2> QED
    BY <2>1, <2>3 DEF Message, Moves
<1>6. /\ \A app \in App : clients'[app].open = clients[app].open
      /\ \A app \in App : app # b => clients'[app].shown = clients[app].shown
      /\ \A app \in App : clients'[app].drawn = clients[app].drawn
      /\ Shown(b)' # NoValue /\ Shown(b)'.value.row = Shown(b).value.row
  <2> DEFINE r == [ms |-> ms, penalty |-> "none", on |-> LastShown(b).text]
             c == [clients[b] EXCEPT !.shown.value.solves[n].results[b] = r]
  <2>1. clients' = [clients EXCEPT ![b] = c] /\ clients[b] \in Client(solves)
    BY <1>1, <1>3
  <2>2. c.open = clients[b].open /\ c.drawn = clients[b].drawn /\ c.shown = [clients[b].shown EXCEPT !.value.solves[n].results[b] = r]
    BY <2>1 DEF Client
  <2>3. /\ DOMAIN c.shown = {"value", "present"} /\ c.shown.value.row = clients[b].shown.value.row
    BY <1>3, <2>2 DEF State, Told
  <2>4. c.shown # NoValue
    BY <2>3 DEF NoValue
  <2> HIDE DEF c
  <2> QED
    BY <1>3, <2>1, <2>2, <2>3, <2>4 DEF Shown
<1>7. ASSUME NEW app \in App, app # b PROVE Linked(app)'
  <2> HIDE DEF m, n
  <2>1. Post(b, m)
    BY <1>1 DEF m, n
  <2>2. m.type = "solve"
    BY DEF m
  <2> QED
    BY <1>2, <1>5, <1>6, <1>7, <2>1, <2>2, PostLinked DEF MirrorInv
<1>8. Linked(b)'
  <2> HIDE DEF n
  <2>0. m.type = "solve" /\ m.number = n /\ Post(b, m)
    BY <1>1 DEF n
  <2> HIDE DEF m
  <2>1. /\ Current(b)' = Current(b) /\ Now' = Now /\ Linked(b) /\ Mine(b)' = Mine(b) /\ Playing' = Playing
        /\ Current(b) \in Socket /\ Up(b) \in Seq(Message(solves))
    BY <1>2, LinkTypes DEF Current, Now, MirrorInv, Mine, Playing
  <2>2. CASE ~conn[b]
    BY <1>2, <2>2 DEF Linked, Settles
  <2>3. CASE conn[b]
    <3>1. Up(b)' = Append(Up(b), m)
      BY <2>0, <2>1, <2>3 DEF Post, MatchInv, Ways, Up
    <3>2. /\ \A type : Has(Up(b)', type) <=> Has(Up(b), type) \/ m.type = type
          /\ \A number : Solving(Up(b), number) \/ number = n => Solving(Up(b)', number)
          /\ Rejoining(Up(b)) => Rejoining(Up(b)')
      BY <1>5, <2>0, <2>1, <3>1, AppendSays
    <3>3. Settles(b)' = Settles(b)
      BY <1>2, <1>6, <2>0, <2>1, <3>2 DEF Settles, Joins
    <3>4. ASSUME Ahead(b) PROVE Ahead(b)'
      BY <1>2, <1>6, <2>1, <3>2, <3>4 DEF Ahead, Shows
    <3>5. ASSUME Shown(b) = Now PROVE Ahead(b)'
      <4>1. Shown(b).value.row = match /\ Rows(Shown(b)) = solves
        BY <1>3, <3>5 DEF Now, Value
      <4>2. Playing /\ solves # <<>> /\ Mine(b) = Unsolved /\ n = Len(solves)
        BY <1>2, <1>4, <4>1 DEF Playing, ShownOver, MatchInv, Row, Mine, n
      <4> QED
        BY <1>2, <1>6, <2>1, <3>2, <4>1, <4>2 DEF Ahead, Shows
    <3>6. Hearing(b) => Hearing(b)'
      BY <1>2, <2>1, <3>4, <3>5 DEF Hearing
    <3> QED
      BY <1>2, <1>6, <2>0, <2>1, <3>2, <3>3, <3>6 DEF Linked
  <2> QED
    BY <2>1, <2>2, <2>3 DEF MatchInv, Ways
<1> QED
  BY <1>2, <1>7, <1>8, AppsLinked

LEMMA PenaliseLinked == ASSUME MatchInv, MirrorInv, NEW b \in App, Penalise(b) PROVE MirrorInv'
<1>1. PICK penalty \in {"none", "dnf"} :
        Post(b, [type |-> "penalty", number |-> Len(Rows(Shown(b))), penalty |-> penalty])
  BY DEF Penalise
<1>2. UNCHANGED <<server, sock, conn, down, clients, passed>> /\ Shows(b)
  BY DEF Penalise
<1>3. Rows(Shown(b)) \in Seq(Solve)
  BY <1>2 DEF MatchInv, Apps, Client, State, Told, Shows, Shown, Rows
<1>4. [type |-> "penalty", number |-> Len(Rows(Shown(b))), penalty |-> penalty] \in Message(solves)
  BY <1>3, LenProperties DEF Message, Moves
<1> QED
  BY <1>1, <1>2, <1>4, AskLinked DEF SameLink

LEMMA CancelLinked == ASSUME MatchInv, MirrorInv, NEW b \in App, Cancel(b) PROVE MirrorInv'
<1>1. /\ Post(b, [type |-> "cancel", number |-> Len(Rows(Shown(b)))])
      /\ UNCHANGED <<server, sock, conn, down, clients, passed>> /\ Shows(b)
  BY DEF Cancel
<1>2. Rows(Shown(b)) \in Seq(Solve)
  BY <1>1 DEF MatchInv, Apps, Client, State, Told, Shows, Shown, Rows
<1>3. [type |-> "cancel", number |-> Len(Rows(Shown(b)))] \in Message(solves)
  BY <1>2, LenProperties DEF Message, Moves
<1> QED
  BY <1>1, <1>3, AskLinked DEF SameLink

LEMMA ForfeitLinked == ASSUME MatchInv, MirrorInv, NEW b \in App, Forfeit(b) PROVE MirrorInv'
<1>1. Post(b, [type |-> "forfeit"]) /\ UNCHANGED <<server, sock, conn, down, clients, passed>>
  BY DEF Forfeit
<1>2. [type |-> "forfeit"] \in Message(solves)
  BY DEF Message, Moves
<1> QED
  BY <1>1, <1>2, AskLinked DEF SameLink

LEMMA LoseLinked == ASSUME MatchInv, MirrorInv, NEW b \in App, Lose(b) PROVE MirrorInv'
<1>1. /\ conn' = [conn EXCEPT ![b] = FALSE] /\ down' = [down EXCEPT ![b] = <<>>]
      /\ UNCHANGED <<server, sock, clients, passed>>
      /\ \E new : up' = [up EXCEPT ![Current(b)] = new]
      /\ ~spoiled' => ~spoiled
  BY DEF Lose
<1>2. conn \in [App -> BOOLEAN] /\ up \in [Socket -> Seq(Message(solves))] /\ down \in [App -> Seq(State(solves))]
  BY DEF MatchInv, Ways, Hears
<1>3. Linked(b)'
  BY <1>1, <1>2 DEF Linked, Settles
<1>4. ASSUME NEW app \in App, app # b PROVE Linked(app)'
  <2>1. up'[Current(app)] = up[Current(app)]
    BY <1>1, <1>2, <1>4, LinkTypes DEF Current
  <2> QED
    BY <1>1, <1>2, <1>4, <2>1, LinkedStays DEF MirrorInv, server
<1> QED
  BY <1>1, <1>3, <1>4, AppsLinked

LEMMA ReconnectLinked == ASSUME MatchInv, MirrorInv, NEW b \in App, Reconnect(b) PROVE MirrorInv'
<1> DEFINE s == <<b, sock[b] + 1>>
<1>1. /\ sock[b] < MaxSockets /\ sock' = [sock EXCEPT ![b] = @ + 1]
      /\ conn' = [conn EXCEPT ![b] = TRUE] /\ up' = [up EXCEPT ![s] = Rejoins(b)]
      /\ UNCHANGED <<server, down, clients, spoiled, passed>>
  BY DEF Reconnect
<1>2. /\ conn \in [App -> BOOLEAN] /\ up \in [Socket -> Seq(Message(solves))]
      /\ sock \in [App -> 1..MaxSockets]
  BY DEF MatchInv, Ways
<1>3. Current(b)' = s /\ s \in Socket
  BY <1>1, <1>2, MatchAssumption DEF Current, Socket
<1>4. Up(b)' = Rejoins(b)
  BY <1>1, <1>2, <1>3 DEF Up
<1>5. Linked(b)'
  <2>1. CASE clients[b].open
    <3>1. Up(b)' = <<[type |-> "join"]>>
      BY <1>4, <2>1 DEF Rejoins
    <3>2. /\ Len(Up(b)') = 1 /\ Up(b)'[1].type = "join"
      BY <3>1
    <3>3. ~Has(Up(b)', "closed") /\ Has(Up(b)', "join") /\ Rejoining(Up(b)')
      BY <3>2 DEF Has, Rejoining
    <3> QED
      BY <3>3 DEF Linked, Settles, Joins
  <2>2. CASE ~clients[b].open
    <3>1. Up(b)' = <<>> /\ ~clients'[b].open
      BY <1>1, <1>4, <2>2 DEF Rejoins
    <3>2. ~Has(Up(b)', "closed")
      BY <3>1 DEF Has
    <3> QED
      BY <3>1, <3>2 DEF Linked, Settles
  <2> QED
    BY <2>1, <2>2
<1>6. ASSUME NEW app \in App, app # b PROVE Linked(app)'
  <2>1. up'[Current(app)] = up[Current(app)] /\ sock'[app] = sock[app] /\ conn'[app] = conn[app]
    BY <1>1, <1>2, <1>6 DEF Current
  <2> QED
    BY <1>1, <2>1, LinkedStays DEF MirrorInv, server
<1> QED
  BY <1>1, <1>5, <1>6, AppsLinked

LEMMA MirrorAlways == MatchInv /\ MirrorInv /\ [Next]_vars => MirrorInv'
<1> SUFFICES ASSUME MatchInv, MirrorInv, [Next]_vars PROVE MirrorInv'
  OBVIOUS
<1>1. CASE UNCHANGED vars
  <2>1. UNCHANGED <<server, spoiled, passed, up, sock, conn, down, clients>>
    BY <1>1 DEF vars, network
  <2> QED
    BY <2>1, LinkedStays, AppsLinked DEF MirrorInv, server
<1>2. ASSUME NEW s \in Socket, Serve(s) \/ Enter(s) PROVE MirrorInv'
  BY <1>2, ServeLinked, EnterLinked
<1>3. ASSUME NEW app \in App, Receive(app) \/ Draw(app) \/ DrawFails(app) \/ Open(app) \/ Close(app)
      PROVE  MirrorInv'
  BY <1>3, ReceiveLinked, DrawLinked, DrawFailsLinked, OpenLinked, CloseLinked
<1>4. ASSUME NEW app \in App,
             EndSolve(app) \/ Penalise(app) \/ Cancel(app) \/ Forfeit(app) \/ Lose(app) \/ Reconnect(app)
      PROVE  MirrorInv'
  BY <1>4, EndSolveLinked, PenaliseLinked, CancelLinked, ForfeitLinked, LoseLinked, ReconnectLinked
<1> QED
  BY <1>1, <1>2, <1>3, <1>4 DEF Next

LEMMA MirrorInitially == Init => MirrorInv
<1> SUFFICES ASSUME Init PROVE MirrorInv
  OBVIOUS
<1>1. LastIsNow
  BY DEF Init, LastIsNow
<1>2. ASSUME NEW app \in App PROVE Linked(app)
  <2>1. Up(app) = <<[type |-> "join"]>>
    BY MatchAssumption DEF Init, Up, Current, Socket
  <2>2. Len(Up(app)) = 1 /\ Up(app)[1].type = "join"
    BY <2>1
  <2>3. ~Has(Up(app), "closed") /\ Has(Up(app), "join") /\ Rejoining(Up(app))
    BY <2>2 DEF Has, Rejoining
  <2> QED
    BY <2>3 DEF Linked, Settles, Joins
<1> QED
  BY <1>1, <1>2 DEF MirrorInv

\* An app shows the match as the server has it once nothing is on its way: what
\* matchClient showed of its own, a socket lost and taken anew, a match left and opened
\* again, all end in what was last sent, unless a join told an older state.
THEOREM AlwaysMirrors == Spec => []Mirrors
<1>1. MirrorInv => Mirrors
  <2> SUFFICES ASSUME MirrorInv, ~passed, NEW app \in App, Quiet(app), clients[app].open
               PROVE  Shown(app) = Now
    BY DEF Mirrors, Now
  <2>1. conn[app] /\ down[app] = <<>> /\ Up(app) = <<>> /\ joining[Current(app)] = NoValue
    BY DEF Quiet, Up
  <2>2. Settles(app) /\ ~Solving(Up(app), Len(solves))
    BY <2>1 DEF Settles, Joins, Has, Solving
  <2> QED
    BY <2>1, <2>2 DEF MirrorInv, Linked, Hearing, Ahead
<1> QED
  BY <1>1, MirrorInitially, MirrorAlways, MatchInvariant, PTL DEF Spec

-----------------------------------------------------------------------------
(* A scramble is drawn once the last solve is over.                        *)

\* A match told with its last solve over, and none since, has it over.
OpenAtEnd(rows) == rows # <<>> /\ OpenSolve(rows[Len(rows)])
Sure(rows, all) == Len(rows) = Len(all) /\ ~OpenAtEnd(rows) => ~OpenAtEnd(all)

\* What is told, and what is drawn for, is sure.
ToldInv ==
  /\ last # NoValue => Sure(last.solves, solves)
  /\ \A s \in Socket : joining[s] # NoValue => Sure(joining[s].solves, solves)
  /\ \A app \in App : \A i \in 1..Len(down[app]) : Sure(down[app][i].value.solves, solves)
DrawnInv ==
  \A app \in App :
    /\ clients[app].drawn <= Len(solves) + 1
    /\ clients[app].drawn = Len(solves) + 1 => ~OpenAtEnd(solves)
    /\ clients[app].open /\ ~Shows(app) => clients[app].drawn = 0

\* A match grows, and no solve of it opens again.
LEMMA StepGrows ==
  ASSUME MatchInv, [Next]_vars
  PROVE  /\ Len(solves) \in Nat /\ Len(solves') \in Nat /\ Len(solves) <= Len(solves')
         /\ Len(solves) = Len(solves') /\ OpenAtEnd(solves') => OpenAtEnd(solves)
<1>1. MatchInv' /\ solves \in Seq(Solve) /\ solves' \in Seq(Solve)
  BY MatchAlways DEF MatchInv
<1>2. \A n \in DOMAIN solves : SolvedStays(n)
  BY StepStays
<1> DEFINE k == Len(solves)
           l == Len(solves')
<1>3. k \in Nat /\ l \in Nat /\ DOMAIN solves = 1..k /\ DOMAIN solves' = 1..l
      /\ (k = 0 <=> solves = <<>>) /\ (l = 0 <=> solves' = <<>>)
  BY <1>1, EmptySeq
<1> HIDE DEF k, l
<1>4. k <= l
  <2>1. CASE k = 0
    BY <1>3, <2>1
  <2>2. CASE k # 0
    <3>1. k \in DOMAIN solves
      BY <1>3, <2>2
    <3> QED
      BY <1>2, <1>3, <3>1 DEF SolvedStays
  <2> QED
    BY <2>1, <2>2
<1>5. ASSUME k = l, OpenAtEnd(solves') PROVE OpenAtEnd(solves)
  <2>1. k \in DOMAIN solves /\ solves # <<>> /\ OpenSolve(solves'[k])
    BY <1>3, <1>5 DEF OpenAtEnd, l
  <2> QED
    BY <1>2, <2>1 DEF SolvedStays, OpenAtEnd, k
<1> QED
  BY <1>3, <1>4, <1>5 DEF k, l

\* What was sure of a match told stays sure.
LEMMA SureOn ==
  ASSUME MatchInv, [Next]_vars, NEW rows \in Seq(Solve), Len(rows) <= Len(solves), Sure(rows, solves)
  PROVE  Sure(rows, solves')
BY StepGrows, LenProperties DEF Sure

\* What is told of a match as it is, or was, is sure.
LEMMA SentSure ==
  ASSUME MatchInv, [Next]_vars, ToldInv, NEW viewers, NEW value, Send(viewers, value), Sure(value.solves, solves')
  PROVE  /\ last' # NoValue => Sure(last'.solves, solves')
         /\ \A app \in App : \A i \in 1..Len(down'[app]) : Sure(down'[app][i].value.solves, solves')
<1>1. ASSUME NEW app \in App, NEW i \in 1..Len(down'[app]) PROVE Sure(down'[app][i].value.solves, solves')
  <2> DEFINE d == down[app]
             told == [value |-> value, present |-> Present(viewers)]
  <2>1. d \in Seq(State(solves)) /\ (down'[app] = d \/ down'[app] = Append(d, told))
    BY DEF Send, MatchInv, Hears
  <2>2. told.value = value
    OBVIOUS
  <2> HIDE DEF d, told
  <2>3. CASE i \in 1..Len(d) /\ down'[app][i] = d[i]
    <3>1. d[i] \in State(solves)
      BY <2>1, <2>3
    <3>2. d[i].value.solves \in Seq(Solve) /\ Len(d[i].value.solves) <= Len(solves)
      BY <3>1 DEF State, Told, Agrees
    <3>3. Sure(d[i].value.solves, solves)
      BY <2>3 DEF ToldInv, d
    <3> QED
      BY <2>3, <3>2, <3>3, SureOn
  <2>4. CASE down'[app][i] = told
    BY <2>2, <2>4
  <2>5. (i \in 1..Len(d) /\ down'[app][i] = d[i]) \/ down'[app][i] = told
    BY <2>1
  <2> QED
    BY <2>3, <2>4, <2>5
<1>2. last' # NoValue => Sure(last'.solves, solves')
  BY DEF Send
<1> QED
  BY <1>1, <1>2

\* The values kept stay sure where nothing is sent.
LEMMA KeptSure ==
  ASSUME MatchInv, [Next]_vars, ToldInv
  PROVE  /\ last # NoValue => Sure(last.solves, solves')
         /\ \A s \in Socket : joining[s] # NoValue => Sure(joining[s].solves, solves')
         /\ \A app \in App : \A i \in 1..Len(down[app]) : Sure(down[app][i].value.solves, solves')
<1>1. last # NoValue => Sure(last.solves, solves')
  BY SureOn DEF ToldInv, MatchInv, Rooms, Told, Agrees
<1>2. ASSUME NEW s \in Socket, joining[s] # NoValue PROVE Sure(joining[s].solves, solves')
  BY <1>2, SureOn DEF ToldInv, MatchInv, Rooms, Told, Agrees
<1>3. ASSUME NEW app \in App, NEW i \in 1..Len(down[app]) PROVE Sure(down[app][i].value.solves, solves')
  <2>1. down[app] \in Seq(State(solves))
    BY DEF MatchInv, Hears
  <2>2. down[app][i] \in State(solves)
    BY <2>1
  <2>3. down[app][i].value.solves \in Seq(Solve) /\ Len(down[app][i].value.solves) <= Len(solves)
    BY <2>2 DEF State, Told, Agrees
  <2> QED
    BY <2>3, SureOn DEF ToldInv
<1> QED
  BY <1>1, <1>2, <1>3

LEMMA ToldIsValue == ASSUME NEW all, NEW v \in Told(all) PROVE v # NoValue
<1>1. v = Value(v.row, v.solves)
  BY DEF Told, Value
<1> QED
  BY <1>1, IsValue

LEMMA ToldAlways == ASSUME MatchInv, ToldInv, [Next]_vars PROVE ToldInv'
<1> DEFINE Joining == \A s \in Socket : joining'[s] # NoValue => Sure(joining'[s].solves, solves')
<1>0. Sure(Value(match', solves').solves, solves')
  BY DEF Sure, Value
<1>1. CASE UNCHANGED <<last, joining, down>>
  <2>1. ToldInv' <=>
          /\ last # NoValue => Sure(last.solves, solves')
          /\ \A s \in Socket : joining[s] # NoValue => Sure(joining[s].solves, solves')
          /\ \A app \in App : \A i \in 1..Len(down[app]) : Sure(down[app][i].value.solves, solves')
    BY <1>1 DEF ToldInv
  <2> QED
    BY <2>1, KeptSure
<1>2. ASSUME NEW s \in Socket, Serve(s) PROVE ToldInv'
  <2>1. CASE ReadToJoin(s)
    <3>1. joining' = [joining EXCEPT ![s] = Value(match', solves')] /\ UNCHANGED <<last, down>>
      BY <2>1 DEF ReadToJoin
    <3>2. Joining
      BY <1>0, <3>1, KeptSure DEF MatchInv, Rooms
    <3> QED
      BY <3>1, <3>2, KeptSure DEF ToldInv
  <2>2. CASE s \in room /\ Leaves(s) /\ UNCHANGED joining
    <3>1. Send(room', last) /\ last # NoValue
      BY <2>2, ToldIsValue DEF Leaves, MatchInv, Rooms
    <3>2. Sure(last.solves, solves')
      BY <3>1, KeptSure
    <3> QED
      BY <2>2, <3>1, <3>2, SentSure, KeptSure DEF ToldInv
  <2>3. CASE Publish /\ UNCHANGED joining
    BY <1>0, <2>3, SentSure, KeptSure DEF ToldInv, Publish
  <2>4. Move(s[1], Head(up[s])) => Publish
    <3>1. s[1] \in Seat /\ Head(up[s]) \in Message(solves)
      BY <1>2, WaysTaken DEF Serve, MatchInv, Socket, Seat
    <3> QED
      BY <3>1, MoveKeeps
  <2> QED
    BY <1>1, <1>2, <2>1, <2>2, <2>3, <2>4 DEF Serve, Leave, Play
<1>3. ASSUME NEW s \in Socket, Enter(s) PROVE ToldInv'
  <2>1. /\ joining[s] # NoValue /\ Send(room', joining[s])
        /\ joining' = [joining EXCEPT ![s] = NoValue]
    BY <1>3 DEF Enter
  <2>2. Joining
    BY <2>1, KeptSure DEF MatchInv, Rooms
  <2> QED
    BY <2>1, <2>2, SentSure, KeptSure DEF ToldInv
<1>4. ASSUME NEW b \in App, Receive(b) PROVE ToldInv'
  <2>1. UNCHANGED <<last, joining>> /\ down[b] # <<>> /\ down' = [down EXCEPT ![b] = Tail(@)]
    BY <1>4 DEF Receive, server
  <2>2. ASSUME NEW app \in App, NEW i \in 1..Len(down'[app]) PROVE Sure(down'[app][i].value.solves, solves')
    <3>1. down[app] \in Seq(State(solves))
      BY DEF MatchInv, Hears
    <3>2. \E k \in 1..Len(down[app]) : down'[app][i] = down[app][k]
      <4>1. CASE app = b
        <5>1. down'[app] = Tail(down[app])
          BY <2>1, <4>1 DEF MatchInv, Hears
        <5> QED
          BY <2>1, <3>1, <4>1, <5>1
      <4>2. CASE app # b
        BY <2>1, <4>2 DEF MatchInv, Hears
      <4> QED
        BY <4>1, <4>2
    <3> QED
      BY <3>2, KeptSure
  <2> QED
    BY <2>1, <2>2, KeptSure DEF ToldInv
<1>5. ASSUME NEW b \in App, Lose(b) PROVE ToldInv'
  <2>1. UNCHANGED <<last, joining>> /\ down' = [down EXCEPT ![b] = <<>>]
    BY <1>5 DEF Lose, server
  <2>2. ASSUME NEW app \in App, NEW i \in 1..Len(down'[app]) PROVE Sure(down'[app][i].value.solves, solves')
    <3>1. down'[app] = down[app]
      BY <2>1, <2>2 DEF MatchInv, Hears
    <3> QED
      BY <3>1, KeptSure
  <2> QED
    BY <2>1, <2>2, KeptSure DEF ToldInv
<1> QED
  BY <1>1, <1>2, <1>3, <1>4, <1>5
  DEF Next, vars, server, network, Draw, DrawFails, Open, Close, EndSolve, Penalise, Cancel, Forfeit, Reconnect

LEMMA ToldInitially == Init => ToldInv
BY DEF Init, ToldInv

\* A client that shows its own result keeps the rest.
SameDrawn(app) ==
  /\ clients'[app].open = clients[app].open
  /\ clients'[app].drawn = clients[app].drawn /\ clients'[app].drawing = clients[app].drawing
  /\ clients'[app].shown = NoValue => clients[app].shown = NoValue

LEMMA EndSolveDrawn ==
  ASSUME MatchInv, NEW b \in App, EndSolve(b)
  PROVE  \A app \in App : SameDrawn(app)
<1> DEFINE n == Len(Rows(Shown(b)))
<1>1. PICK ms \in Times :
        clients' = [clients EXCEPT ![b].shown.value.solves[n].results[b] =
                      [ms |-> ms, penalty |-> "none", on |-> LastShown(b).text]]
  BY DEF EndSolve
<1>2. clients \in [App -> Client(solves)] /\ clients[b].shown # NoValue
  BY DEF MatchInv, Apps, EndSolve, Shows, Shown
<1> DEFINE r == [ms |-> ms, penalty |-> "none", on |-> LastShown(b).text]
           c == [clients[b] EXCEPT !.shown.value.solves[n].results[b] = r]
<1>3. clients' = [clients EXCEPT ![b] = c] /\ clients[b] \in Client(solves)
  BY <1>1, <1>2
<1>4. c.open = clients[b].open /\ c.drawn = clients[b].drawn /\ c.drawing = clients[b].drawing
  BY <1>3 DEF Client
<1>5. c.shown # NoValue
  <2>1. clients[b].shown \in State(solves)
    BY <1>2, <1>3 DEF Client
  <2>2. c.shown = [clients[b].shown EXCEPT !.value.solves[n].results[b] = r]
    BY <1>3 DEF Client
  <2>3. DOMAIN c.shown = {"value", "present"}
    BY <2>1, <2>2 DEF State
  <2> QED
    BY <2>3 DEF NoValue
<1> HIDE DEF c
<1> QED
  BY <1>2, <1>3, <1>4, <1>5 DEF SameDrawn

\* Nothing is drawn for that the match is not at, nor while its last solve is open.
LEMMA DrawnAlways == ASSUME MatchInv, ToldInv, DrawnInv, [Next]_vars PROVE DrawnInv'
<1>0. /\ Len(solves) \in Nat /\ Len(solves') \in Nat /\ Len(solves) <= Len(solves')
      /\ Len(solves) = Len(solves') /\ OpenAtEnd(solves') => OpenAtEnd(solves)
  BY StepGrows
<1> DEFINE Fine(app) ==
             /\ clients'[app].drawn <= Len(solves') + 1
             /\ clients'[app].drawn = Len(solves') + 1 => ~OpenAtEnd(solves')
             /\ clients'[app].open /\ clients'[app].shown = NoValue => clients'[app].drawn = 0
<1>2. ASSUME \A app \in App : Fine(app) PROVE DrawnInv'
  BY <1>2 DEF DrawnInv, Shows, Shown
<1>3. ASSUME NEW app \in App
      PROVE  /\ clients[app] \in Client(solves) /\ clients[app].drawn \in Nat
             /\ clients[app].drawn <= Len(solves) + 1
             /\ clients[app].drawn = Len(solves) + 1 => ~OpenAtEnd(solves)
             /\ clients[app].open /\ clients[app].shown = NoValue => clients[app].drawn = 0
  BY DEF DrawnInv, Shows, Shown, MatchInv, Apps, Client
<1>4. ASSUME NEW app \in App, clients'[app].drawn = clients[app].drawn,
             /\ clients'[app].open /\ clients'[app].shown = NoValue =>
                  clients[app].open /\ clients[app].shown = NoValue
      PROVE  Fine(app)
  BY <1>0, <1>3, <1>4
<1>5. ASSUME NEW app \in App, clients'[app].drawn = 0 PROVE Fine(app)
  BY <1>0, <1>5
<1> HIDE DEF Fine
<1>6. CASE UNCHANGED clients
  BY <1>2, <1>4, <1>6
<1>7. ASSUME NEW b \in App, Receive(b) PROVE DrawnInv'
  <2> DEFINE heard == Head(down[b])
  <2>1. /\ clients' = [clients EXCEPT ![b] = Received(b, heard)] /\ down[b] # <<>> /\ UNCHANGED solves
        /\ clients \in [App -> Client(solves)] /\ down[b] \in Seq(State(solves))
    BY <1>7 DEF Receive, server, MatchInv, Apps, Hears
  <2>2. /\ heard \in State(solves) /\ Sure(heard.value.solves, solves)
    <3>1. heard = down[b][1] /\ 1 \in 1..Len(down[b])
      BY <2>1
    <3> QED
      BY <2>1, <3>1 DEF ToldInv
  <2>3. /\ heard.value.solves \in Seq(Solve) /\ Len(heard.value.solves) \in Nat
        /\ Len(heard.value.solves) <= Len(solves) /\ heard # NoValue
    <3>1. heard.value.solves \in Seq(Solve) /\ Len(heard.value.solves) <= Len(solves)
      BY <2>2 DEF State, Told, Agrees
    <3>2. heard = [value |-> heard.value, present |-> heard.present]
      BY <2>2 DEF State
    <3> QED
      BY <3>1, <3>2, IsValue, LenProperties
  <2>4. clients'[b] = Received(b, heard) /\ clients[b] \in Client(solves)
    BY <2>1
  <2> HIDE DEF heard
  <2>5. CASE ~clients[b].open
    <3>1. clients'[b] = clients[b]
      BY <2>4, <2>5 DEF Received
    <3> QED
      BY <1>2, <1>4, <2>1, <3>1
  <2>6. CASE clients[b].open /\ clients'[b] = [clients[b] EXCEPT !.shown = heard]
    <3>1. clients'[b].drawn = clients[b].drawn /\ clients'[b].shown = heard
      BY <2>4, <2>6 DEF Client
    <3>2. Fine(b)
      BY <1>4, <2>3, <3>1
    <3> QED
      BY <1>2, <1>4, <2>1, <3>2
  <2>7. CASE /\ Draws(clients[b], b, heard)
             /\ clients'[b] = [clients[b] EXCEPT !.shown = heard, !.drawn = Len(heard.value.solves) + 1,
                                                 !.drawing = Append(@, Len(heard.value.solves) + 1)]
    <3>1. clients'[b].drawn = Len(heard.value.solves) + 1 /\ clients'[b].shown = heard
      BY <2>4, <2>7 DEF Client
    <3>2. ~OpenAtEnd(heard.value.solves)
      BY <2>3, <2>7 DEF Draws, Turn, Racing, Rows, OpenAtEnd
    <3>3. Fine(b)
      BY <1>0, <2>1, <2>2, <2>3, <3>1, <3>2 DEF Fine, Sure
    <3> QED
      BY <1>2, <1>4, <2>1, <3>3
  <2> QED
    BY <2>4, <2>5, <2>6, <2>7 DEF Received
<1>8. ASSUME NEW b \in App, Draw(b) \/ DrawFails(b) \/ Open(b) \/ Close(b) PROVE DrawnInv'
  <2>1. clients \in [App -> Client(solves)]
    BY DEF MatchInv, Apps
  <2>2. CASE Draw(b)
    <3>1. PICK i : clients' = [clients EXCEPT ![b].drawing = RemoveAt(@, i)]
      BY <2>2 DEF Draw
    <3>2. \A app \in App : /\ clients'[app].drawn = clients[app].drawn /\ clients'[app].open = clients[app].open
                           /\ clients'[app].shown = clients[app].shown
      BY <2>1, <3>1 DEF Client
    <3> QED
      BY <1>2, <1>4, <3>2
  <2>3. CASE DrawFails(b)
    <3>1. PICK i : clients' = [clients EXCEPT ![b].drawing = RemoveAt(@, i), ![b].drawn = 0]
      BY <2>3 DEF DrawFails
    <3>2. /\ clients'[b].drawn = 0
          /\ \A app \in App : app # b => clients'[app] = clients[app]
      BY <2>1, <3>1 DEF Client
    <3> QED
      BY <1>2, <1>4, <1>5, <3>2
  <2>4. CASE Open(b)
    <3>1. clients' = [clients EXCEPT ![b] = Opened(@)]
      BY <2>4 DEF Open
    <3>2. /\ clients'[b].drawn = 0
          /\ \A app \in App : app # b => clients'[app] = clients[app]
      BY <2>1, <3>1 DEF Client, Opened
    <3> QED
      BY <1>2, <1>4, <1>5, <3>2
  <2>5. CASE Close(b)
    <3>1. clients' = [clients EXCEPT ![b].open = FALSE]
      BY <2>5 DEF Close
    <3>2. \A app \in App : /\ clients'[app].drawn = clients[app].drawn
                           /\ clients'[app].open => clients[app].open
                           /\ clients'[app].shown = clients[app].shown
      BY <2>1, <3>1 DEF Client
    <3> QED
      BY <1>2, <1>4, <3>2
  <2> QED
    BY <1>8, <2>2, <2>3, <2>4, <2>5
<1>9. ASSUME NEW b \in App, EndSolve(b) PROVE DrawnInv'
  <2>1. \A app \in App : SameDrawn(app)
    BY <1>9, EndSolveDrawn
  <2> QED
    BY <1>2, <1>4, <2>1 DEF SameDrawn
<1> QED
  BY <1>6, <1>7, <1>8, <1>9
  DEF Next, vars, Serve, Enter, Penalise, Cancel, Forfeit, Lose, Reconnect

-----------------------------------------------------------------------------
(* No socket stays in the room that its app has left or lost.              *)

\* Each message that joins is followed by one of a type.
Ending(u, type) ==
  \A i \in 1..Len(u) : u[i].type = "join" => \E k \in 1..Len(u) : k > i /\ u[k].type = type

\* A socket in the room, or that joins, has one of a type to come.
Goes(s, type) ==
  /\ s \in room \/ joining[s] # NoValue => Has(up[s], type)
  /\ Ending(up[s], type)

Live(s) == conn[s[1]] /\ s = Current(s[1])
Sound(s) ==
  /\ s[2] > sock[s[1]] => s \notin room /\ joining[s] = NoValue /\ up[s] = <<>>
  /\ ~Live(s) => Goes(s, "closed")
  /\ Live(s) /\ ~clients[s[1]].open => Goes(s, "leave")
SocketInv == \A s \in Socket : Sound(s)

LEMMA TailEnding ==
  ASSUME NEW S, NEW u \in Seq(S), u # <<>>, NEW type, Ending(u, type)
  PROVE  Ending(Tail(u), type) /\ (Head(u).type = "join" => Has(Tail(u), type))
<1> DEFINE n == Len(u)
           t == Tail(u)
<1>1. /\ n \in Nat /\ n # 0 /\ Len(t) = n - 1 /\ Head(u) = u[1]
      /\ \A i \in 1..(n - 1) : t[i] = u[i + 1]
  BY EmptySeq, HeadTailProperties
<1>2. \A i \in 1..n : u[i].type = "join" => \E k \in 1..n : k > i /\ u[k].type = type
  BY DEF Ending
<1>3. ASSUME NEW k \in 1..n, k > 1 PROVE k - 1 \in 1..Len(t) /\ t[k - 1] = u[k]
  <2>1. k - 1 \in 1..(n - 1) /\ (k - 1) + 1 = k
    BY <1>1, <1>3
  <2> QED
    BY <1>1, <2>1
<1> HIDE DEF n, t
<1>4. ASSUME NEW i \in 1..Len(t), t[i].type = "join"
      PROVE  \E k \in 1..Len(t) : k > i /\ t[k].type = type
  <2>1. i + 1 \in 1..n /\ u[i + 1].type = "join" /\ i \in Nat /\ i >= 1
    BY <1>1, <1>4
  <2>2. PICK k \in 1..n : k > i + 1 /\ u[k].type = type
    BY <1>2, <2>1
  <2>3. k - 1 \in 1..Len(t) /\ t[k - 1] = u[k] /\ k - 1 > i
    BY <1>1, <1>3, <2>1, <2>2
  <2> QED
    BY <2>2, <2>3
<1>5. ASSUME Head(u).type = "join" PROVE Has(t, type)
  <2>1. 1 \in 1..n /\ u[1].type = "join"
    BY <1>1, <1>5
  <2>2. PICK k \in 1..n : k > 1 /\ u[k].type = type
    BY <1>2, <2>1
  <2>3. k - 1 \in 1..Len(t) /\ t[k - 1] = u[k]
    BY <1>3, <2>2
  <2> QED
    BY <2>2, <2>3 DEF Has
<1> QED
  BY <1>4, <1>5 DEF Ending, t

LEMMA AppendEnding ==
  ASSUME NEW S, NEW u \in Seq(S), NEW m, m.type # "join"
  PROVE  Has(Append(u, m), m.type) /\ Ending(Append(u, m), m.type)
<1> DEFINE v == Append(u, m)
<1>1. /\ Len(v) \in 1..Len(v) /\ Len(v) \in Nat /\ v[Len(v)] = m
  OBVIOUS
<1> HIDE DEF v
<1>2. Has(v, m.type)
  BY <1>1 DEF Has
<1>3. ASSUME NEW i \in 1..Len(v), v[i].type = "join" PROVE i < Len(v)
  BY <1>1, <1>3
<1> QED
  BY <1>1, <1>2, <1>3 DEF Ending, v

\* A socket nothing happens to stays sound.
LEMMA SoundStays ==
  ASSUME NEW s \in Socket, Sound(s), sock'[s[1]] = sock[s[1]], conn'[s[1]] = conn[s[1]],
         s \in room' <=> s \in room, joining'[s] = joining[s], up'[s] = up[s],
         Live(s) /\ ~clients'[s[1]].open => ~clients[s[1]].open
  PROVE  Sound(s)'
<1>1. Live(s)' = Live(s)
  BY DEF Live, Current
<1>2. \A type : Goes(s, type)' <=> Goes(s, type)
  BY DEF Goes
<1> QED
  BY <1>1, <1>2 DEF Sound

LEMMA ServeSound == ASSUME MatchInv, SocketInv, NEW t \in Socket, Serve(t) PROVE SocketInv'
<1> DEFINE m == Head(up[t])
<1>1. /\ up[t] # <<>> /\ joining[t] = NoValue /\ up' = [up EXCEPT ![t] = Tail(@)]
      /\ UNCHANGED <<sock, conn, clients>>
      /\ \/ m.type = "join" /\ ReadToJoin(t)
         \/ m.type \in {"leave", "closed"} /\ Leave(t)
         \/ m.type \notin {"join", "leave", "closed"} /\ Play(t, m)
  BY DEF Serve
<1>2. up \in [Socket -> Seq(Message(solves))] /\ up[t] \in Seq(Message(solves))
  BY DEF MatchInv, Ways
<1>3. ASSUME NEW s \in Socket, s # t PROVE Sound(s)'
  <2>1. (s \in room' <=> s \in room) /\ joining'[s] = joining[s] /\ up'[s] = up[s]
    BY <1>1, <1>2, <1>3 DEF ReadToJoin, Leave, Leaves, Play, MatchInv, Rooms
  <2> QED
    BY <1>1, <2>1, SoundStays DEF SocketInv
<1>4. Sound(t)'
  <2>1. Live(t)' = Live(t) /\ ~(t[2] > sock[t[1]]) /\ up'[t] = Tail(up[t]) /\ Sound(t)
    BY <1>1, <1>2 DEF Live, Current, Sound, SocketInv
  <2>2. ASSUME NEW type \in {"leave", "closed"}, Goes(t, type) PROVE Goes(t, type)'
    <3>1. /\ Ending(up'[t], type) /\ (m.type = "join" => Has(up'[t], type))
          /\ Has(up[t], type) <=> m.type = type \/ Has(up'[t], type)
      BY <1>1, <1>2, <2>1, <2>2, TailEnding, TailSays DEF Goes
    <3> HIDE DEF m
    <3>2. CASE m.type = "join"
      BY <3>1, <3>2 DEF Goes
    <3>3. CASE m.type \in {"leave", "closed"} /\ Leave(t)
      <4>1. t \notin room' /\ joining'[t] = NoValue
        BY <1>1, <3>3 DEF Leave, Leaves
      <4> QED
        BY <3>1, <4>1 DEF Goes
    <3>4. CASE m.type \notin {"join", "leave", "closed"} /\ Play(t, m)
      BY <2>2, <3>1, <3>4 DEF Goes, Play
    <3> QED
      BY <1>1, <3>2, <3>3, <3>4 DEF m
  <2> QED
    BY <1>1, <2>1, <2>2 DEF Sound
<1> QED
  BY <1>3, <1>4 DEF SocketInv

LEMMA EnterSound == ASSUME MatchInv, SocketInv, NEW t \in Socket, Enter(t) PROVE SocketInv'
<1>1. /\ joining[t] # NoValue /\ joining' = [joining EXCEPT ![t] = NoValue] /\ room' = room \cup {t}
      /\ UNCHANGED <<up, sock, conn, clients>>
  BY DEF Enter
<1>2. ASSUME NEW s \in Socket, s # t PROVE Sound(s)'
  BY <1>1, <1>2, SoundStays DEF SocketInv, MatchInv, Rooms
<1>3. Sound(t)'
  <2>1. Live(t)' = Live(t) /\ Sound(t)
    BY <1>1 DEF Live, Current, SocketInv
  <2>2. \A type : Goes(t, type) => Goes(t, type)'
    BY <1>1 DEF Goes
  <2> QED
    BY <1>1, <2>1, <2>2 DEF Sound
<1> QED
  BY <1>2, <1>3 DEF SocketInv

\* What an app posts leaves its socket sound, if it then has the match open or leaves it.
LEMMA PostSound ==
  ASSUME MatchInv, SocketInv, NEW b \in App, NEW m, Post(b, m), UNCHANGED <<room, joining, sock, conn>>,
         clients'[b].open \/ m.type = "leave",
         \A app \in App : app # b => clients'[app].open = clients[app].open
  PROVE  SocketInv'
<1>1. up \in [Socket -> Seq(Message(solves))] /\ Current(b) \in Socket
  BY LinkTypes DEF MatchInv, Ways
<1>2. ASSUME NEW s \in Socket, ~conn[b] \/ s # Current(b) PROVE Sound(s)'
  <2>1. up'[s] = up[s] /\ s[1] \in App
    BY <1>1, <1>2 DEF Post, Socket
  <2>2. Live(s) => s[1] # b
    BY <1>2 DEF Live
  <2> QED
    BY <2>1, <2>2, SoundStays DEF SocketInv
<1>3. ASSUME NEW s \in Socket, conn[b], s = Current(b) PROVE Sound(s)'
  <2>1. s[1] = b /\ s[2] = sock[b] /\ Live(s)' /\ sock[b] \in Nat
    BY <1>3 DEF Live, Current, MatchInv, Ways
  <2>2. up'[s] = Append(up[s], m) /\ up[s] \in Seq(Message(solves))
    BY <1>1, <1>3 DEF Post
  <2>3. m.type = "leave" => Goes(s, "leave")'
    BY <2>2, AppendEnding DEF Goes
  <2> QED
    BY <2>1, <2>3 DEF Sound
<1> QED
  BY <1>2, <1>3 DEF SocketInv

LEMMA LoseSound == ASSUME MatchInv, SocketInv, NEW b \in App, Lose(b) PROVE SocketInv'
<1> DEFINE closed == [type |-> "closed"]
<1>1. PICK n \in 0..Len(up[Current(b)]) :
        up' = [up EXCEPT ![Current(b)] = Append(SubSeq(@, 1, n), closed)]
  BY DEF Lose
<1>2. conn[b] /\ conn' = [conn EXCEPT ![b] = FALSE] /\ UNCHANGED <<room, joining, sock, clients>>
  BY DEF Lose, server
<1>3. /\ up \in [Socket -> Seq(Message(solves))] /\ conn \in [App -> BOOLEAN]
      /\ Current(b) \in Socket
  BY LinkTypes DEF MatchInv, Ways
<1>4. ASSUME NEW s \in Socket, s # Current(b) PROVE Sound(s)'
  <2>1. up'[s] = up[s] /\ s[1] \in App
    BY <1>1, <1>3, <1>4 DEF Socket
  <2>2. CASE s[1] # b
    BY <1>2, <1>3, <2>1, <2>2, SoundStays DEF SocketInv
  <2>3. CASE s[1] = b
    <3>1. ~Live(s) /\ ~Live(s)'
      BY <1>2, <1>4, <2>3 DEF Live, Current
    <3>2. Goes(s, "closed") => Goes(s, "closed")'
      BY <1>2, <2>1 DEF Goes
    <3> QED
      BY <1>2, <2>1, <3>1, <3>2 DEF SocketInv, Sound
  <2> QED
    BY <2>2, <2>3
<1>5. ASSUME NEW s \in Socket, s = Current(b) PROVE Sound(s)'
  <2>1. s[1] = b /\ s[2] = sock[b] /\ ~conn'[b] /\ sock[b] \in Nat
    BY <1>2, <1>3, <1>5 DEF Current, MatchInv, Ways
  <2>2. up'[s] = Append(SubSeq(up[s], 1, n), closed) /\ SubSeq(up[s], 1, n) \in Seq(Message(solves))
    BY <1>1, <1>3, <1>5, SubSeqProperties
  <2>3. Goes(s, "closed")'
    <3>1. closed.type = "closed"
      OBVIOUS
    <3> HIDE DEF closed
    <3>2. Has(up'[s], "closed") /\ Ending(up'[s], "closed")
      BY <2>2, <3>1, AppendEnding
    <3> QED
      BY <3>2 DEF Goes
  <2> QED
    BY <1>2, <2>1, <2>3 DEF Sound, Live
<1> QED
  BY <1>4, <1>5 DEF SocketInv

LEMMA ReconnectSound == ASSUME MatchInv, SocketInv, NEW b \in App, Reconnect(b) PROVE SocketInv'
<1>1. /\ ~conn[b] /\ sock[b] < MaxSockets /\ sock' = [sock EXCEPT ![b] = @ + 1]
      /\ conn' = [conn EXCEPT ![b] = TRUE] /\ up' = [up EXCEPT ![<<b, sock[b] + 1>>] = Rejoins(b)]
      /\ UNCHANGED <<room, joining, clients>>
  BY DEF Reconnect, server
<1>2. /\ conn \in [App -> BOOLEAN] /\ up \in [Socket -> Seq(Message(solves))]
      /\ sock \in [App -> 1..MaxSockets] /\ sock[b] \in Nat /\ sock'[b] = sock[b] + 1 /\ conn'[b]
  BY <1>1 DEF MatchInv, Ways
<1>3. ASSUME NEW s \in Socket, s # <<b, sock[b] + 1>> PROVE Sound(s)'
  <2>1. up'[s] = up[s] /\ s = <<s[1], s[2]>> /\ s[1] \in App /\ s[2] \in Nat
    BY <1>1, <1>2, <1>3 DEF Socket
  <2>2. CASE s[1] # b
    BY <1>1, <1>2, <2>1, <2>2, SoundStays DEF SocketInv
  <2>3. CASE s[1] = b
    <3>1. ~Live(s) /\ ~Live(s)'
      BY <1>1, <1>2, <1>3, <2>1, <2>3 DEF Live, Current
    <3>2. Goes(s, "closed") => Goes(s, "closed")'
      BY <1>1, <2>1 DEF Goes
    <3>3. s[2] > sock'[s[1]] => s[2] > sock[s[1]]
      BY <1>2, <2>1, <2>3
    <3> QED
      BY <1>1, <2>1, <3>1, <3>2, <3>3 DEF SocketInv, Sound
  <2> QED
    BY <2>2, <2>3
<1>4. ASSUME NEW s \in Socket, s = <<b, sock[b] + 1>> PROVE Sound(s)'
  <2>1. s[1] = b /\ s[2] = sock[b] + 1 /\ Live(s)' /\ up'[s] = Rejoins(b)
    BY <1>1, <1>2, <1>4 DEF Live, Current
  <2>2. s \notin room /\ joining[s] = NoValue
    BY <1>2, <2>1 DEF SocketInv, Sound
  <2>3. ~clients'[b].open => Goes(s, "leave")'
    BY <1>1, <2>1, <2>2 DEF Goes, Rejoins, Ending
  <2> QED
    BY <1>2, <2>1, <2>3 DEF Sound
<1> QED
  BY <1>3, <1>4 DEF SocketInv

LEMMA SocketAlways == ASSUME MatchInv, SocketInv, [Next]_vars PROVE SocketInv'
<1>0. clients \in [App -> Client(solves)]
  BY DEF MatchInv, Apps
<1>1. ASSUME UNCHANGED <<room, joining, up, sock, conn>>,
             \A app \in App : clients'[app].open = clients[app].open
      PROVE  SocketInv'
  <2>1. \A s \in Socket : s[1] \in App
    BY DEF Socket
  <2> QED
    BY <1>1, <2>1, SoundStays DEF SocketInv
<1>2. ASSUME NEW b \in App, Receive(b) \/ DrawFails(b) PROVE SocketInv'
  <2>1. PICK c : clients' = [clients EXCEPT ![b] = c] /\ c.open = clients[b].open
    <3>1. CASE Receive(b)
      <4>1. Received(b, Head(down[b])).open = clients[b].open
        BY <1>0 DEF Received, Client
      <4> QED
        BY <3>1, <4>1 DEF Receive
    <3>2. CASE DrawFails(b)
      <4>1. PICK i : clients' = [clients EXCEPT ![b].drawing = RemoveAt(@, i), ![b].drawn = 0]
        BY <3>2 DEF DrawFails
      <4>2. clients' = [clients EXCEPT ![b] = [clients[b] EXCEPT !.drawing = RemoveAt(@, i), !.drawn = 0]]
        BY <1>0, <4>1
      <4>3. [clients[b] EXCEPT !.drawing = RemoveAt(@, i), !.drawn = 0].open = clients[b].open
        BY <1>0 DEF Client
      <4> QED
        BY <4>2, <4>3
    <3> QED
      BY <1>2, <3>1, <3>2
  <2>2. \A app \in App : clients'[app].open = clients[app].open
    BY <1>0, <2>1
  <2>3. UNCHANGED <<room, joining, up, sock, conn>>
    BY <1>2 DEF Receive, DrawFails, server, network
  <2> QED
    BY <1>1, <2>2, <2>3
<1>3. ASSUME NEW b \in App, Draw(b) PROVE SocketInv'
  <2>1. PICK i \in DOMAIN clients[b].drawing :
          /\ clients' = [clients EXCEPT ![b].drawing = RemoveAt(@, i)]
          /\ IF clients[b].open /\ Shows(b)
             THEN Post(b, [type |-> "scramble", number |-> clients[b].drawing[i],
                           text |-> [by |-> b, number |-> clients[b].drawing[i]]])
             ELSE UNCHANGED <<up, spoiled>>
          /\ UNCHANGED <<server, sock, conn, down>>
    BY <1>3 DEF Draw
  <2>2. \A app \in App : clients'[app].open = clients[app].open
    BY <1>0, <2>1 DEF Client
  <2> QED
    BY <1>1, <2>1, <2>2, PostSound DEF server
<1>4. ASSUME NEW b \in App, EndSolve(b) PROVE SocketInv'
  <2>1. PICK m : Post(b, m)
    BY <1>4 DEF EndSolve
  <2>2. /\ UNCHANGED <<room, joining, sock, conn>> /\ clients[b].open
        /\ \A app \in App : clients'[app].open = clients[app].open
    BY <1>4, EndSolveDrawn DEF EndSolve, server, SameDrawn
  <2> QED
    BY <2>1, <2>2, PostSound
<1>5. ASSUME NEW b \in App, Open(b) \/ Close(b) PROVE SocketInv'
  <2>1. PICK m : Post(b, m) /\ (m.type = "leave" \/ Open(b))
    BY <1>5 DEF Open, Close
  <2>2. /\ UNCHANGED <<room, joining, sock, conn>> /\ (Open(b) => clients'[b].open)
        /\ \A app \in App : app # b => clients'[app].open = clients[app].open
    BY <1>0, <1>5 DEF Open, Close, server, Opened, Client
  <2> QED
    BY <2>1, <2>2, PostSound
<1>6. ASSUME NEW b \in App, Penalise(b) \/ Cancel(b) \/ Forfeit(b) PROVE SocketInv'
  <2>1. (\E m : Post(b, m)) /\ clients[b].open /\ UNCHANGED <<room, joining, sock, conn, clients>>
    BY <1>6 DEF Penalise, Cancel, Forfeit, server
  <2> QED
    BY <2>1, PostSound
<1>7. CASE UNCHANGED vars
  BY <1>1, <1>7 DEF vars, server, network
<1> QED
  BY <1>2, <1>3, <1>4, <1>5, <1>6, <1>7, ServeSound, EnterSound, LoseSound, ReconnectSound DEF Next

-----------------------------------------------------------------------------
(* A scramble drawn comes to the server, in the room.                      *)

\* Each message before one that leaves is followed, before it, by one that joins; and
\* one that joins comes before it.
Lets(u, i) ==
  \A k \in 1..(i - 1) :
    u[k].type \in {"leave", "closed"} => \E j \in (k + 1)..(i - 1) : u[j].type = "join"
Joined(u, i) == \E k \in 1..(i - 1) : u[k].type = "join"

\* A scramble of a number is sent, to be taken from a socket in the room, or from any.
Sends(u, n) == \E i \in 1..Len(u) : u[i].type = "scramble" /\ u[i].number = n /\ Lets(u, i)
SendsIn(u, n) ==
  \E i \in 1..Len(u) : u[i].type = "scramble" /\ u[i].number = n /\ Lets(u, i) /\ Joined(u, i)

Here(s) == s \in room \/ joining[s] # NoValue
Coming(app, n) ==
  \E s \in Socket : s[1] = app /\ ((Here(s) /\ Sends(up[s], n)) \/ SendsIn(up[s], n))
Among(q, n) == \E i \in 1..Len(q) : q[i] = n

\* The next scramble, once drawn for, is being drawn or comes.
Drawing(app) ==
  ~spoiled /\ Playing /\ clients[app].open /\ clients[app].drawn = Len(solves) + 1 =>
    Among(clients[app].drawing, clients[app].drawn) \/ Coming(app, clients[app].drawn)
DrawInv == \A app \in App : Drawing(app)

\* As a message is taken.
LEMMA TailSends ==
  ASSUME NEW S, NEW u \in Seq(S), u # <<>>, NEW n
  PROVE  /\ Sends(u, n) => (Head(u).type = "scramble" /\ Head(u).number = n) \/ Sends(Tail(u), n)
         /\ Sends(u, n) /\ Head(u).type \in {"leave", "closed"} => SendsIn(Tail(u), n)
         /\ SendsIn(u, n) => (Head(u).type = "join" /\ Sends(Tail(u), n)) \/ SendsIn(Tail(u), n)
<1> DEFINE l == Len(u)
           t == Tail(u)
<1>1. /\ l \in Nat /\ l # 0 /\ Len(t) = l - 1 /\ Head(u) = u[1]
      /\ \A i \in 1..(l - 1) : t[i] = u[i + 1]
  BY EmptySeq, HeadTailProperties
<1>2. ASSUME NEW i \in 2..l PROVE i - 1 \in 1..Len(t) /\ t[i - 1] = u[i]
  <2>1. i - 1 \in 1..(l - 1) /\ (i - 1) + 1 = i
    BY <1>1, <1>2
  <2> QED
    BY <1>1, <2>1
<1> HIDE DEF l, t
<1>3. ASSUME NEW i \in 2..l, Lets(u, i) PROVE Lets(t, i - 1)
  <2> SUFFICES ASSUME NEW k \in 1..((i - 1) - 1), t[k].type \in {"leave", "closed"}
               PROVE  \E j \in (k + 1)..((i - 1) - 1) : t[j].type = "join"
    BY DEF Lets
  <2>1. k + 1 \in 1..(i - 1) /\ u[k + 1] = t[k] /\ k + 1 \in 2..l /\ k \in Nat
    BY <1>1
  <2>2. PICK j \in ((k + 1) + 1)..(i - 1) : u[j].type = "join"
    BY <1>3, <2>1 DEF Lets
  <2>3. j \in 2..l /\ j - 1 \in (k + 1)..((i - 1) - 1)
    BY <1>1, <2>1, <2>2
  <2> QED
    BY <1>2, <2>2, <2>3
<1>4. ASSUME NEW i \in 2..l, NEW k \in 2..(i - 1), u[k].type = "join" PROVE Joined(t, i - 1)
  <2>1. k \in 2..l /\ k - 1 \in 1..((i - 1) - 1)
    BY <1>1, <1>4
  <2> QED
    BY <1>2, <1>4, <2>1 DEF Joined
<1>5. ASSUME NEW i \in 1..l PROVE i = 1 \/ i \in 2..l
  BY <1>1, <1>5
<1>6. ASSUME Sends(u, n)
      PROVE  /\ (u[1].type = "scramble" /\ u[1].number = n) \/ Sends(t, n)
             /\ u[1].type \in {"leave", "closed"} => SendsIn(t, n)
  <2>1. PICK i \in 1..l : u[i].type = "scramble" /\ u[i].number = n /\ Lets(u, i)
    BY <1>6 DEF Sends, l
  <2>2. CASE i = 1
    BY <2>1, <2>2
  <2>3. CASE i \in 2..l
    <3>1. Sends(t, n)
      BY <1>2, <1>3, <2>1, <2>3 DEF Sends
    <3>2. ASSUME u[1].type \in {"leave", "closed"} PROVE SendsIn(t, n)
      <4>1. 1 \in 1..(i - 1)
        BY <1>1, <2>3
      <4>2. PICK j \in (1 + 1)..(i - 1) : u[j].type = "join"
        BY <2>1, <3>2, <4>1 DEF Lets
      <4>3. Joined(t, i - 1)
        BY <1>4, <2>3, <4>2
      <4> QED
        BY <1>2, <1>3, <2>1, <2>3, <4>3 DEF SendsIn
    <3> QED
      BY <3>1, <3>2
  <2> QED
    BY <1>5, <2>2, <2>3
<1>7. ASSUME SendsIn(u, n) PROVE (u[1].type = "join" /\ Sends(t, n)) \/ SendsIn(t, n)
  <2>1. PICK i \in 1..l : u[i].type = "scramble" /\ u[i].number = n /\ Lets(u, i) /\ Joined(u, i)
    BY <1>7 DEF SendsIn, l
  <2>2. PICK k \in 1..(i - 1) : u[k].type = "join"
    BY <2>1 DEF Joined
  <2>3. i \in 2..l /\ (k = 1 \/ k \in 2..(i - 1))
    BY <1>1, <2>1, <2>2
  <2>4. i - 1 \in 1..Len(t) /\ t[i - 1] = u[i] /\ Lets(t, i - 1)
    BY <1>2, <1>3, <2>1, <2>3
  <2>5. CASE k = 1
    BY <2>1, <2>2, <2>4, <2>5 DEF Sends
  <2>6. CASE k \in 2..(i - 1)
    BY <1>4, <2>1, <2>2, <2>3, <2>4, <2>6 DEF SendsIn
  <2> QED
    BY <2>3, <2>5, <2>6
<1> QED
  BY <1>1, <1>6, <1>7 DEF t

\* Messages that start alike send alike, as far as they do.
LEMMA PrefixSends ==
  ASSUME NEW u, NEW v, Len(u) \in Nat, Len(v) \in Nat, NEW k \in Nat, k <= Len(u), k <= Len(v),
         \A i \in 1..k : v[i] = u[i], NEW n
  PROVE  (\A i \in (k + 1)..Len(u) : u[i].type # "scramble") =>
           (Sends(u, n) => Sends(v, n)) /\ (SendsIn(u, n) => SendsIn(v, n))
<1> SUFFICES ASSUME \A i \in (k + 1)..Len(u) : u[i].type # "scramble"
             PROVE  (Sends(u, n) => Sends(v, n)) /\ (SendsIn(u, n) => SendsIn(v, n))
  OBVIOUS
<1>1. ASSUME NEW i \in 1..Len(u), u[i].type = "scramble"
      PROVE  /\ i \in 1..Len(v) /\ v[i] = u[i]
             /\ Lets(u, i) => Lets(v, i)
             /\ Joined(u, i) => Joined(v, i)
  <2>1. i \in 1..k
    BY <1>1
  <2>2. \A j \in 1..(i - 1) : v[j] = u[j]
    BY <2>1
  <2>3. \A j \in 1..(i - 1) : (j + 1)..(i - 1) \subseteq 1..(i - 1)
    BY <2>1
  <2>4. Lets(u, i) => Lets(v, i)
    BY <2>2, <2>3 DEF Lets
  <2>5. Joined(u, i) => Joined(v, i)
    BY <2>2 DEF Joined
  <2> QED
    BY <2>1, <2>4, <2>5
<1>2. Sends(u, n) => Sends(v, n)
  BY <1>1 DEF Sends
<1>3. SendsIn(u, n) => SendsIn(v, n)
  BY <1>1 DEF SendsIn
<1> QED
  BY <1>2, <1>3

LEMMA AppendSends ==
  ASSUME NEW S, NEW u \in Seq(S), NEW m, NEW n
  PROVE  (Sends(u, n) => Sends(Append(u, m), n)) /\ (SendsIn(u, n) => SendsIn(Append(u, m), n))
<1> DEFINE v == Append(u, m)
<1>1. /\ Len(u) \in Nat /\ Len(v) = Len(u) + 1 /\ \A i \in 1..Len(u) : v[i] = u[i]
  OBVIOUS
<1> HIDE DEF v
<1>2. PICK k \in Nat : k = Len(u)
  BY <1>1
<1>3. /\ Len(v) \in Nat /\ k <= Len(v) /\ k <= Len(u) /\ \A i \in 1..k : v[i] = u[i]
      /\ \A i \in (k + 1)..Len(u) : u[i].type # "scramble"
  BY <1>1, <1>2
<1>4. (Sends(u, n) => Sends(v, n)) /\ (SendsIn(u, n) => SendsIn(v, n))
  BY <1>1, <1>2, <1>3, PrefixSends
<1> QED
  BY <1>4 DEF v

\* A scramble sent by an app that does not leave after it joins is let through.
LEMMA NewSends ==
  ASSUME NEW S, NEW u \in Seq(S), NEW m, m.type = "scramble", Rejoining(u), ~Has(u, "closed")
  PROVE  Sends(Append(u, m), m.number) /\ (Has(u, "join") => SendsIn(Append(u, m), m.number))
<1> DEFINE v == Append(u, m)
           l == Len(u) + 1
<1>1. /\ Len(u) \in Nat /\ Len(v) = l /\ v[l] = m /\ \A i \in 1..Len(u) : v[i] = u[i]
  OBVIOUS
<1> HIDE DEF v
<1>2. l \in 1..Len(v) /\ l - 1 = Len(u)
  BY <1>1
<1>3. Lets(v, l)
  <2> SUFFICES ASSUME NEW k \in 1..Len(u), v[k].type \in {"leave", "closed"}
               PROVE  \E j \in (k + 1)..Len(u) : v[j].type = "join"
    BY <1>2 DEF Lets
  <2>1. u[k].type = "leave"
    BY <1>1 DEF Has
  <2>2. PICK j \in 1..Len(u) : j > k /\ u[j].type = "join"
    BY <2>1 DEF Rejoining
  <2>3. j \in (k + 1)..Len(u)
    BY <1>1, <2>2
  <2> QED
    BY <1>1, <2>2, <2>3
<1>4. Has(u, "join") => Joined(v, l)
  BY <1>1, <1>2 DEF Has, Joined
<1> HIDE DEF l
<1> QED
  BY <1>1, <1>2, <1>3, <1>4 DEF Sends, SendsIn, v

\* What is removed of a sequence is the one element.
LEMMA StaysAmong ==
  ASSUME NEW S, NEW q \in Seq(S), NEW i \in 1..Len(q), NEW n, Among(q, n), n # q[i]
  PROVE  Among(RemoveAt(q, i), n)
<1>1. PICK j \in 1..Len(q) : q[j] = n
  BY DEF Among
<1> DEFINE a == SubSeq(q, 1, i - 1)
           b == SubSeq(q, i + 1, Len(q))
<1>2. /\ a \in Seq(S) /\ Len(a) = i - 1 /\ \A k \in 1..(i - 1) : a[k] = q[k]
  BY SubSeqProperties
<1>3. /\ b \in Seq(S) /\ Len(b) = Len(q) - i /\ \A k \in 1..(Len(q) - i) : b[k] = q[i + k]
  BY SubSeqProperties
<1> HIDE DEF a, b
<1>4. /\ Len(a \o b) = Len(a) + Len(b)
      /\ \A k \in 1..(Len(a) + Len(b)) : (a \o b)[k] = IF k <= Len(a) THEN a[k] ELSE b[k - Len(a)]
  BY <1>2, <1>3, ConcatProperties
<1>5. Len(q) \in Nat /\ j # i
  BY <1>1
<1>6. CASE j < i
  <2>1. j \in 1..(Len(a) + Len(b)) /\ j <= Len(a) /\ j \in 1..(i - 1)
    BY <1>2, <1>3, <1>5, <1>6
  <2>2. (a \o b)[j] = q[j]
    BY <1>2, <1>4, <2>1
  <2> QED
    BY <1>1, <1>4, <2>1, <2>2 DEF Among, RemoveAt, a, b
<1>7. CASE j > i
  <2>1. j - 1 \in 1..(Len(a) + Len(b)) /\ ~(j - 1 <= Len(a)) /\ (j - 1) - Len(a) = j - i
        /\ j - i \in 1..(Len(q) - i) /\ i + (j - i) = j
    BY <1>2, <1>3, <1>5, <1>7
  <2>2. (a \o b)[j - 1] = q[j]
    BY <1>3, <1>4, <2>1
  <2> QED
    BY <1>1, <1>4, <2>1, <2>2 DEF Among, RemoveAt, a, b
<1> QED
  BY <1>5, <1>6, <1>7

\* What comes still comes where the server's side and the messages of its app stay, or
\* one is added.
LEMMA ComingStays ==
  ASSUME MatchInv, NEW app \in App, NEW n, Coming(app, n),
         \A s \in Socket : Here(s) => Here(s)',
         \A s \in Socket : s[1] = app =>
           /\ Sends(up[s], n) => Sends(up'[s], n)
           /\ SendsIn(up[s], n) => SendsIn(up'[s], n)
  PROVE  Coming(app, n)'
<1>1. PICK s \in Socket : s[1] = app /\ ((Here(s) /\ Sends(up[s], n)) \/ SendsIn(up[s], n))
  BY DEF Coming
<1>2. (Here(s)' /\ Sends(up'[s], n)) \/ SendsIn(up'[s], n)
  BY <1>1
<1> QED
  BY <1>1, <1>2 DEF Coming

LEMMA PostComing ==
  ASSUME MatchInv, NEW app \in App, NEW n, Coming(app, n), NEW b \in App, NEW m, Post(b, m),
         UNCHANGED <<room, joining>>
  PROVE  Coming(app, n)'
<1>1. \A s \in Socket : up'[s] = up[s] \/ up'[s] = Append(up[s], m)
  BY DEF Post, MatchInv, Ways
<1>2. \A s \in Socket : up[s] \in Seq(Message(solves))
  BY DEF MatchInv, Ways
<1>3. \A s \in Socket : /\ Sends(up[s], n) => Sends(up'[s], n)
                        /\ SendsIn(up[s], n) => SendsIn(up'[s], n)
  BY <1>1, <1>2, AppendSends
<1> QED
  BY <1>3, ComingStays DEF Here

\* What the whole argument rests on.
AllInv == MatchInv /\ EndInv /\ MirrorInv /\ ToldInv /\ DrawnInv /\ SocketInv

\* A step that leaves the client, and the match in play, asks only that what comes still comes.
LEMMA DrawingStays ==
  ASSUME AllInv, [Next]_vars, NEW app \in App, Drawing(app), ~spoiled' => ~spoiled,
         Playing' => Playing, NEW n, n = clients[app].drawn,
         clients'[app].drawn = n, clients'[app].drawing = clients[app].drawing,
         clients'[app].open => clients[app].open,
         /\ Len(solves') = Len(solves) /\ Coming(app, n) /\ Playing' /\ ~spoiled'
         /\ clients[app].open /\ n = Len(solves) + 1
         => Coming(app, n)'
  PROVE  Drawing(app)'
<1> SUFFICES ASSUME ~spoiled', Playing', clients'[app].open, n = Len(solves') + 1
             PROVE  Among(clients'[app].drawing, n) \/ Coming(app, n)'
  BY DEF Drawing
<1>1. /\ Len(solves) \in Nat /\ Len(solves') \in Nat /\ Len(solves) <= Len(solves')
      /\ n \in Nat /\ n <= Len(solves) + 1
  BY StepGrows DEF AllInv, DrawnInv, MatchInv, Apps, Client
<1>2. Len(solves') = Len(solves) /\ n = Len(solves) + 1
  BY <1>1
<1> QED
  BY <1>2 DEF Drawing

\* A scramble that comes from the room is taken.
LEMMA ServeDrawing == ASSUME AllInv, DrawInv, NEW t \in Socket, Serve(t) PROVE DrawInv'
<1> DEFINE m == Head(up[t])
<1>1. /\ up[t] # <<>> /\ joining[t] = NoValue /\ up' = [up EXCEPT ![t] = Tail(@)]
      /\ UNCHANGED <<sock, conn, clients, spoiled, passed>>
      /\ \/ m.type = "join" /\ ReadToJoin(t)
         \/ m.type \in {"leave", "closed"} /\ Leave(t)
         \/ m.type \notin {"join", "leave", "closed"} /\ Play(t, m)
      /\ [Next]_vars
  BY DEF Serve, Next
<1>2. up \in [Socket -> Seq(Message(solves))] /\ up[t] \in Seq(Message(solves))
  BY DEF AllInv, MatchInv, Ways
<1>3. Playing' => Playing
  <2>1. match' = match \/ Playing
    BY <1>1 DEF ReadToJoin, Leave, Play
  <2> QED
    BY <2>1 DEF Playing
<1>4. ASSUME NEW s \in Socket, s # t
      PROVE  up'[s] = up[s] /\ (Here(s)' <=> Here(s))
  BY <1>1, <1>2, <1>4 DEF Here, ReadToJoin, Leave, Leaves, Play, AllInv, MatchInv, Rooms
<1>5. ASSUME NEW n, n = Len(solves) + 1, Len(solves') = Len(solves), Playing', t \in room,
             m.type = "scramble" /\ m.number = n,
             ~OpenAtEnd(solves)
      PROVE  FALSE
  <2>1. Playing /\ WinnerOf(solves) = NoOne
    <3>1. match \in Row /\ match.status # "done" /\ ~match.forfeit
      BY <1>3, <1>5 DEF AllInv, EndInv, MatchInv, Playing
    <3> QED
      BY <1>3, <1>5, <3>1 DEF AllInv, EndInv, FairEnd
  <2>2. Takes(m.number)
    BY <1>5, <2>1 DEF Takes, LastOpen, OpenAtEnd
  <2> HIDE DEF m
  <2>3. Move(t[1], m)
    BY <1>1, <1>5, <2>1, <2>2 DEF Play, Ignored, m
  <2>4. \E v : solves' = Append(solves, v)
    BY <1>5, <2>3 DEF Move, PlayScramble
  <2>5. solves \in Seq(Solve)
    BY DEF AllInv, MatchInv
  <2>6. Len(solves') = Len(solves) + 1
    BY <2>4, <2>5
  <2> QED
    BY <1>5, <2>5, <2>6
<1>6. ASSUME NEW app \in App PROVE Drawing(app)'
  <2>1. PICK n : n = clients[app].drawn
    OBVIOUS
  <2>2. ASSUME Len(solves') = Len(solves), Coming(app, n), Playing', n = Len(solves) + 1
        PROVE  Coming(app, n)'
    <3>1. PICK s \in Socket : s[1] = app /\ ((Here(s) /\ Sends(up[s], n)) \/ SendsIn(up[s], n))
      BY <2>2 DEF Coming
    <3>2. CASE s # t
      BY <1>4, <3>1, <3>2 DEF Coming
    <3>3. CASE s = t
      <4>1. /\ Sends(up[t], n) => (m.type = "scramble" /\ m.number = n) \/ Sends(up'[t], n)
            /\ Sends(up[t], n) /\ m.type \in {"leave", "closed"} => SendsIn(up'[t], n)
            /\ SendsIn(up[t], n) => (m.type = "join" /\ Sends(up'[t], n)) \/ SendsIn(up'[t], n)
        BY <1>1, <1>2, TailSends
      <4>2. ~OpenAtEnd(solves)
        BY <2>1, <2>2 DEF AllInv, DrawnInv
      <4>3. Here(t) => t \in room
        BY <1>1 DEF Here
      <4>4. ~(t \in room /\ m.type = "scramble" /\ m.number = n)
        BY <1>5, <2>2, <4>2
      <4>5. Sends(up[t], n) /\ Here(t) => Sends(up'[t], n) \/ m.type \in {"leave", "closed"}
        BY <4>1, <4>3, <4>4
      <4> HIDE DEF m
      <4>6. CASE m.type = "join" /\ ReadToJoin(t)
        <5>1. Here(t)'
          BY <4>6, IsValue DEF ReadToJoin, Here, AllInv, MatchInv, Rooms
        <5>2. Sends(up'[t], n) \/ SendsIn(up'[t], n)
          BY <3>1, <3>3, <4>1, <4>5, <4>6
        <5> QED
          BY <3>1, <3>3, <5>1, <5>2 DEF Coming
      <4>7. CASE m.type \in {"leave", "closed"}
        <5>1. SendsIn(up'[t], n)
          BY <3>1, <3>3, <4>1, <4>7
        <5> QED
          BY <3>1, <3>3, <5>1 DEF Coming
      <4>8. CASE m.type \notin {"join", "leave", "closed"} /\ Play(t, m)
        <5>1. Here(t)' <=> Here(t)
          BY <4>8 DEF Play, Here
        <5>2. (Here(t)' /\ Sends(up'[t], n)) \/ SendsIn(up'[t], n)
          BY <3>1, <3>3, <4>1, <4>5, <4>8, <5>1
        <5> QED
          BY <3>1, <3>3, <5>2 DEF Coming
      <4> QED
        BY <1>1, <4>6, <4>7, <4>8 DEF m
    <3> QED
      BY <3>2, <3>3
  <2> QED
    BY <1>1, <1>3, <2>1, <2>2, DrawingStays DEF DrawInv
<1> QED
  BY <1>6 DEF DrawInv

LEMMA EnterDrawing == ASSUME AllInv, DrawInv, NEW t \in Socket, Enter(t) PROVE DrawInv'
<1>1. /\ joining' = [joining EXCEPT ![t] = NoValue] /\ room' = room \cup {t}
      /\ UNCHANGED <<match, solves, up, clients, spoiled>> /\ [Next]_vars
  BY DEF Enter, Next
<1>2. \A s \in Socket : Here(s) => Here(s)'
  BY <1>1 DEF Here, AllInv, MatchInv, Rooms
<1>3. ASSUME NEW app \in App PROVE Drawing(app)'
  <2>1. PICK n : n = clients[app].drawn
    OBVIOUS
  <2>2. Coming(app, n) => Coming(app, n)'
    BY <1>1, <1>2, ComingStays DEF AllInv
  <2> QED
    BY <1>1, <2>1, <2>2, DrawingStays DEF DrawInv, Playing
<1> QED
  BY <1>3 DEF DrawInv

\* An app posts, or stays silent, and the client asked about stays.
LEMMA AppDrawing ==
  ASSUME AllInv, DrawInv, [Next]_vars, UNCHANGED <<match, solves, room, joining>>,
         NEW b \in App, UNCHANGED <<up, spoiled>> \/ \E m : Post(b, m),
         NEW app \in App, clients'[app].drawn = clients[app].drawn,
         clients'[app].drawing = clients[app].drawing, clients'[app].open => clients[app].open
  PROVE  Drawing(app)'
<1>1. PICK n : n = clients[app].drawn
  OBVIOUS
<1>2. ~spoiled' => ~spoiled
  BY DEF Post
<1>3. Coming(app, n) => Coming(app, n)'
  <2>1. CASE UNCHANGED <<up, spoiled>>
    BY <2>1 DEF Coming, Here
  <2>2. CASE \E m : Post(b, m)
    BY <2>2, PostComing DEF AllInv
  <2> QED
    BY <2>1, <2>2
<1> QED
  BY <1>1, <1>2, <1>3, DrawingStays DEF DrawInv, Playing

\* A client that hears of the match, and is to draw, draws.
LEMMA ReceiveDrawing == ASSUME AllInv, DrawInv, NEW b \in App, Receive(b) PROVE DrawInv'
<1> DEFINE heard == Head(down[b])
           number == Len(heard.value.solves) + 1
<1>1. /\ clients' = [clients EXCEPT ![b] = Received(b, heard)] /\ [Next]_vars
      /\ UNCHANGED <<match, solves, room, joining>> /\ UNCHANGED <<up, spoiled>>
      /\ clients \in [App -> Client(solves)]
  BY DEF Receive, server, Next, AllInv, MatchInv, Apps
<1> HIDE DEF heard
<1>2. ASSUME NEW app \in App, app # b PROVE Drawing(app)'
  BY <1>1, <1>2, AppDrawing
<1>3. Drawing(b)'
  <2>1. clients'[b] = Received(b, heard) /\ clients[b] \in Client(solves)
    BY <1>1
  <2>2. CASE clients'[b] = clients[b] \/ clients'[b] = [clients[b] EXCEPT !.shown = heard]
    <3>1. /\ clients'[b].drawn = clients[b].drawn /\ clients'[b].drawing = clients[b].drawing
          /\ clients'[b].open = clients[b].open
      BY <2>1, <2>2 DEF Client
    <3> QED
      BY <1>1, <3>1, AppDrawing
  <2>3. CASE clients'[b] = [clients[b] EXCEPT !.shown = heard, !.drawn = number,
                                              !.drawing = Append(@, number)]
    <3> HIDE DEF number
    <3>1. /\ clients'[b].drawn = number /\ clients'[b].drawing = Append(clients[b].drawing, number)
          /\ clients[b].drawing \in Seq(1..MaxSolves)
      BY <2>1, <2>3 DEF Client
    <3>2. Among(clients'[b].drawing, number)
      <4> DEFINE q == clients[b].drawing
      <4>1. q \in Seq(1..MaxSolves)
        BY <3>1
      <4> HIDE DEF q
      <4>2. Len(Append(q, number)) \in 1..Len(Append(q, number)) /\ Append(q, number)[Len(Append(q, number))] = number
        BY <4>1
      <4>3. Among(Append(q, number), number)
        BY <4>2 DEF Among
      <4> QED
        BY <3>1, <4>3 DEF q
    <3> QED
      BY <3>1, <3>2 DEF Drawing
  <2> QED
    BY <2>1, <2>2, <2>3 DEF Received
<1> QED
  BY <1>2, <1>3 DEF DrawInv

\* A scramble drawn is sent from the room, or as its app comes to it.
LEMMA DrawDrawing == ASSUME AllInv, DrawInv, NEW b \in App, Draw(b) PROVE DrawInv'
<1>1. PICK i \in DOMAIN clients[b].drawing :
        /\ clients' = [clients EXCEPT ![b].drawing = RemoveAt(@, i)]
        /\ IF clients[b].open /\ Shows(b)
           THEN Post(b, [type |-> "scramble", number |-> clients[b].drawing[i],
                         text |-> [by |-> b, number |-> clients[b].drawing[i]]])
           ELSE UNCHANGED <<up, spoiled>>
        /\ UNCHANGED <<server, sock, conn, down>>
  BY DEF Draw
<1> DEFINE m == [type |-> "scramble", number |-> clients[b].drawing[i],
                 text |-> [by |-> b, number |-> clients[b].drawing[i]]]
<1>2. /\ UNCHANGED <<match, solves, room, joining, sock, conn>> /\ [Next]_vars
      /\ clients \in [App -> Client(solves)] /\ clients[b] \in Client(solves)
      /\ (UNCHANGED <<up, spoiled>> \/ Post(b, m))
  BY <1>1 DEF server, Next, AllInv, MatchInv, Apps
<1>3. m.type = "scramble" /\ m.number = clients[b].drawing[i]
  OBVIOUS
<1>4. clients[b].open /\ Shows(b) => Post(b, m)
  BY <1>1
<1> HIDE DEF m
<1>5. ASSUME NEW app \in App, app # b PROVE Drawing(app)'
  <2>1. clients'[app] = clients[app]
    BY <1>1, <1>2, <1>5
  <2> QED
    BY <1>2, <2>1, AppDrawing
<1>6. Drawing(b)'
  <2>1. PICK n : n = clients[b].drawn
    OBVIOUS
  <2>2. /\ clients'[b].drawn = n /\ clients'[b].open = clients[b].open
        /\ clients'[b].drawing = RemoveAt(clients[b].drawing, i)
        /\ clients[b].drawing \in Seq(1..MaxSolves) /\ i \in 1..Len(clients[b].drawing)
    BY <1>1, <1>2, <2>1 DEF Client
  <2> SUFFICES ASSUME ~spoiled', Playing', clients[b].open, n = Len(solves) + 1
               PROVE  Among(clients'[b].drawing, n) \/ Coming(b, n)'
    BY <1>2, <2>2 DEF Drawing
  <2>3. ~spoiled /\ Playing
    <3>1. ~spoiled
      <4>1. CASE UNCHANGED <<up, spoiled>>
        BY <4>1
      <4>2. CASE Post(b, m)
        BY <4>2 DEF Post
      <4> QED
        BY <1>2, <4>1, <4>2
    <3>2. Playing
      BY <1>2 DEF Playing
    <3> QED
      BY <3>1, <3>2
  <2>4. CASE Coming(b, n)
    <3>1. CASE UNCHANGED <<up, spoiled>>
      BY <1>2, <2>4, <3>1 DEF Coming, Here
    <3>2. CASE Post(b, m)
      BY <1>2, <2>4, <3>2, PostComing DEF AllInv
    <3> QED
      BY <1>2, <3>1, <3>2
  <2>5. CASE Among(clients[b].drawing, n) /\ n # clients[b].drawing[i]
    BY <2>2, <2>5, StaysAmong
  <2>6. CASE n = clients[b].drawing[i]
    <3>1. Shows(b)
      <4>1. Len(solves) \in Nat
        BY StepGrows, <1>2 DEF AllInv
      <4>2. clients[b].drawn # 0
        BY <2>1, <4>1
      <4> QED
        BY <4>2 DEF AllInv, DrawnInv
    <3>2. Post(b, m) /\ conn[b]
      BY <1>3, <1>4, <3>1 DEF Post
    <3>3. /\ Current(b) \in Socket /\ Current(b)[1] = b /\ Up(b) \in Seq(Message(solves))
          /\ up \in [Socket -> Seq(Message(solves))]
      BY LinkTypes DEF Current, AllInv, MatchInv, Ways
    <3>4. up'[Current(b)] = Append(Up(b), m)
      BY <3>2, <3>3 DEF Post, Up
    <3>5. Rejoining(Up(b)) /\ ~Has(Up(b), "closed") /\ (Joins(b) \/ Current(b) \in room)
      BY <3>2 DEF AllInv, MirrorInv, Linked, Settles
    <3>6. Sends(up'[Current(b)], n) /\ (Has(Up(b), "join") => SendsIn(up'[Current(b)], n))
      BY <1>3, <2>6, <3>3, <3>4, <3>5, NewSends
    <3>7. Here(Current(b))' \/ Has(Up(b), "join")
      BY <1>2, <3>5 DEF Here, Joins, Current
    <3>8. PICK s \in Socket : s = Current(b)
      BY <3>3
    <3> QED
      BY <1>2, <3>3, <3>6, <3>7, <3>8 DEF Coming, Current
  <2> QED
    BY <2>1, <2>3, <2>4, <2>5, <2>6 DEF DrawInv, Drawing
<1> QED
  BY <1>5, <1>6 DEF DrawInv

LEMMA OthersDrawing ==
  ASSUME AllInv, DrawInv, NEW b \in App,
         DrawFails(b) \/ Open(b) \/ Close(b) \/ EndSolve(b) \/ Penalise(b) \/ Cancel(b) \/ Forfeit(b)
  PROVE  DrawInv'
<1>0. [Next]_vars /\ clients \in [App -> Client(solves)]
  BY DEF Next, AllInv, MatchInv, Apps
<1>1. CASE DrawFails(b)
  BY <1>1 DEF DrawFails, DrawInv, Drawing
<1>2. CASE Open(b)
  <2>1. /\ clients' = [clients EXCEPT ![b] = Opened(@)] /\ \E m : Post(b, m)
        /\ UNCHANGED <<match, solves, room, joining>>
    BY <1>2 DEF Open, server
  <2>2. \A app \in App : app # b => Drawing(app)'
    BY <1>0, <2>1, AppDrawing
  <2>3. Drawing(b)'
    <3>1. clients'[b].drawn = 0
      BY <1>0, <2>1 DEF Opened, Client
    <3>2. Len(solves') \in Nat
      BY <1>0, StepGrows DEF AllInv
    <3>3. clients'[b].drawn # Len(solves') + 1
      BY <3>1, <3>2
    <3> QED
      BY <3>3 DEF Drawing
  <2> QED
    BY <2>2, <2>3 DEF DrawInv
<1>3. CASE Close(b)
  <2>1. /\ clients' = [clients EXCEPT ![b].open = FALSE] /\ \E m : Post(b, m)
        /\ UNCHANGED <<match, solves, room, joining>>
    BY <1>3 DEF Close, server
  <2>2. \A app \in App :
          /\ clients'[app].drawn = clients[app].drawn /\ clients'[app].drawing = clients[app].drawing
          /\ clients'[app].open => clients[app].open
    BY <1>0, <2>1 DEF Client
  <2> QED
    BY <1>0, <2>1, <2>2, AppDrawing DEF DrawInv
<1>4. CASE EndSolve(b)
  <2>1. (\E m : Post(b, m)) /\ UNCHANGED <<match, solves, room, joining>>
    BY <1>4 DEF EndSolve, server
  <2>2. \A app \in App : SameDrawn(app)
    BY <1>4, EndSolveDrawn DEF AllInv
  <2> QED
    BY <1>0, <2>1, <2>2, AppDrawing DEF DrawInv, SameDrawn
<1>5. CASE Penalise(b) \/ Cancel(b) \/ Forfeit(b)
  <2>1. (\E m : Post(b, m)) /\ UNCHANGED <<match, solves, room, joining, clients>>
    BY <1>5 DEF Penalise, Cancel, Forfeit, server
  <2> QED
    BY <1>0, <2>1, AppDrawing DEF DrawInv
<1> QED
  BY <1>1, <1>2, <1>3, <1>4, <1>5

\* Of what a socket lost had sent, the server takes the scramble, or it is known lost.
LEMMA LoseDrawing == ASSUME AllInv, DrawInv, NEW b \in App, Lose(b) PROVE DrawInv'
<1> DEFINE closed == [type |-> "closed"]
<1>1. PICK k \in 0..Len(up[Current(b)]) :
        /\ up' = [up EXCEPT ![Current(b)] = Append(SubSeq(@, 1, k), closed)]
        /\ spoiled' = (spoiled \/ \E i \in (k + 1)..Len(up[Current(b)]) : up[Current(b)][i].type = "scramble")
  BY DEF Lose
<1>2. UNCHANGED <<match, solves, room, joining, clients>> /\ [Next]_vars
  BY DEF Lose, server, Next
<1>3. up \in [Socket -> Seq(Message(solves))] /\ Current(b) \in Socket
  BY LinkTypes DEF AllInv, MatchInv, Ways
<1> HIDE DEF closed
<1>4. ASSUME ~spoiled', NEW s \in Socket, NEW n
      PROVE  (Sends(up[s], n) => Sends(up'[s], n)) /\ (SendsIn(up[s], n) => SendsIn(up'[s], n))
  <2>1. CASE s # Current(b)
    BY <1>1, <1>3, <2>1
  <2>2. CASE s = Current(b)
    <3> DEFINE u == up[s]
               v == Append(SubSeq(u, 1, k), closed)
    <3>1. u \in Seq(Message(solves)) /\ up'[s] = v /\ k \in 0..Len(u)
      BY <1>1, <1>3, <2>2
    <3>2. \A i \in (k + 1)..Len(u) : u[i].type # "scramble"
      BY <1>1, <1>4, <2>2
    <3> HIDE DEF u
    <3>3. /\ SubSeq(u, 1, k) \in Seq(Message(solves)) /\ Len(SubSeq(u, 1, k)) = k
          /\ \A i \in 1..k : SubSeq(u, 1, k)[i] = u[i]
      BY <3>1, SubSeqProperties
    <3>4. /\ Len(u) \in Nat /\ k \in Nat /\ k <= Len(u) /\ Len(v) = k + 1
          /\ \A i \in 1..k : v[i] = u[i]
      BY <3>1, <3>3
    <3> HIDE DEF v
    <3>5. Len(v) \in Nat /\ k <= Len(v)
      BY <3>4
    <3> QED
      BY <3>1, <3>2, <3>4, <3>5, PrefixSends DEF u
  <2> QED
    BY <2>1, <2>2
<1>5. ASSUME NEW app \in App PROVE Drawing(app)'
  <2>1. PICK n : n = clients[app].drawn
    OBVIOUS
  <2>2. ~spoiled' /\ Coming(app, n) => Coming(app, n)'
    BY <1>2, <1>4, ComingStays DEF AllInv, Here
  <2> QED
    BY <1>1, <1>2, <2>1, <2>2, DrawingStays DEF DrawInv, Playing
<1> QED
  BY <1>5 DEF DrawInv

LEMMA ReconnectDrawing == ASSUME AllInv, DrawInv, NEW b \in App, Reconnect(b) PROVE DrawInv'
<1> DEFINE s0 == <<b, sock[b] + 1>>
<1>1. /\ sock[b] < MaxSockets /\ up' = [up EXCEPT ![s0] = Rejoins(b)]
      /\ UNCHANGED <<match, solves, room, joining, clients, spoiled>> /\ [Next]_vars
  BY DEF Reconnect, server, Next
<1>2. up \in [Socket -> Seq(Message(solves))] /\ sock[b] \in Nat
  BY DEF AllInv, MatchInv, Ways
<1>3. ASSUME NEW s \in Socket, NEW n
      PROVE  (Sends(up[s], n) => Sends(up'[s], n)) /\ (SendsIn(up[s], n) => SendsIn(up'[s], n))
  <2>1. CASE s # s0
    BY <1>1, <1>2, <2>1
  <2>2. CASE s = s0
    <3>1. up[s] = <<>>
      BY <1>2, <2>2 DEF AllInv, SocketInv, Sound
    <3> QED
      BY <3>1 DEF Sends, SendsIn
  <2> QED
    BY <2>1, <2>2
<1>4. ASSUME NEW app \in App PROVE Drawing(app)'
  <2>1. PICK n : n = clients[app].drawn
    OBVIOUS
  <2>2. Coming(app, n) => Coming(app, n)'
    BY <1>1, <1>3, ComingStays DEF AllInv, Here
  <2> QED
    BY <1>1, <2>1, <2>2, DrawingStays DEF DrawInv, Playing
<1> QED
  BY <1>4 DEF DrawInv

-----------------------------------------------------------------------------
LEMMA AllInitially == Init => AllInv /\ DrawInv
<1> SUFFICES ASSUME Init PROVE AllInv /\ DrawInv
  OBVIOUS
<1>1. MatchInv /\ EndInv /\ MirrorInv /\ ToldInv
  BY MatchInitially, EndInitially, MirrorInitially, ToldInitially
<1>2. ASSUME NEW app \in App
      PROVE  /\ clients[app].open /\ clients[app].drawn = 0 /\ sock[app] = 1 /\ conn[app]
             /\ Len(solves) = 0
  BY DEF Init, Opened, NewClient
<1>3. DrawnInv
  BY <1>2 DEF DrawnInv
<1>4. DrawInv
  BY <1>2 DEF DrawInv, Drawing
<1>5. SocketInv
  <2> SUFFICES ASSUME NEW s \in Socket PROVE Sound(s)
    BY DEF SocketInv
  <2>1. s = <<s[1], s[2]>> /\ s[1] \in App /\ s[2] \in Nat
    BY DEF Socket
  <2>2. s \notin room /\ joining[s] = NoValue /\ (s[2] # 1 => up[s] = <<>>)
    BY DEF Init
  <2>3. Live(s) <=> s[2] = 1
    BY <1>2, <2>1 DEF Live, Current
  <2>4. ~Live(s) => Goes(s, "closed")
    BY <2>2, <2>3 DEF Goes, Ending
  <2> QED
    BY <1>2, <2>1, <2>2, <2>4 DEF Sound
<1> QED
  BY <1>1, <1>3, <1>4, <1>5 DEF AllInv

LEMMA AllAlways == AllInv /\ DrawInv /\ [Next]_vars => AllInv' /\ DrawInv'
<1> SUFFICES ASSUME AllInv, DrawInv, [Next]_vars PROVE AllInv' /\ DrawInv'
  OBVIOUS
<1>1. AllInv'
  BY MatchAlways, StepEnds, MirrorAlways, ToldAlways, DrawnAlways, SocketAlways DEF AllInv
<1>2. DrawInv'
  <2>1. CASE UNCHANGED vars
    <3>1. UNCHANGED <<match, solves, room, joining, up, spoiled, clients>>
      BY <2>1 DEF vars, server, network
    <3> QED
      BY <3>1 DEF DrawInv, Drawing, Coming, Here, Playing
  <2> QED
    BY <2>1, ServeDrawing, EnterDrawing, ReceiveDrawing, DrawDrawing, OthersDrawing, LoseDrawing,
       ReconnectDrawing DEF Next
<1> QED
  BY <1>1, <1>2

\* The next scramble comes: once nothing is on its way and both players are here, the
\* first one's app has heard so, has set out to draw, and its search is under way, unless
\* one failed or was lost.
THEOREM ScrambleAlwaysComes == Spec => []ScrambleComes
<1>1. AllInv /\ DrawInv => ScrambleComes
  <2> SUFFICES ASSUME AllInv, DrawInv, \A app \in App : Quiet(app), \A s \in Socket : up[s] = <<>>,
                      Present(room) = [seat \in Seat |-> TRUE],
                      Playing, ~LastOpen, Len(solves) < MaxSolves, ~spoiled, ~passed
               PROVE  \E app \in App : clients[app].drawing # <<>>
    BY DEF ScrambleComes
  <2>1. 0 \in App /\ 0 \in Seat
    BY DEF App, Seat
  <2>2. /\ conn[0] /\ down[0] = <<>> /\ joining[Current(0)] = NoValue
        /\ Current(0) \in Socket /\ Up(0) = <<>>
    BY <2>1, LinkTypes DEF Quiet, AllInv, Up
  <2>3. \A type : ~Has(<<>>, type)
    BY DEF Has
  <2>4. clients[0].open
    <3>1. PICK s \in room : s[1] = 0
      <4>1. Present(room)[0]
        BY <2>1
      <4> QED
        BY <2>1, <4>1 DEF Present
    <3>2. s \in Socket
      BY DEF AllInv, MatchInv, Rooms
    <3>3. up[s] = <<>> /\ Sound(s)
      BY <3>2 DEF AllInv, SocketInv
    <3>4. Live(s)
      BY <2>3, <3>1, <3>3 DEF Sound, Goes
    <3> QED
      BY <2>3, <3>1, <3>3, <3>4 DEF Sound, Goes
  <2>5. Settles(0) /\ Hearing(0)
    BY <2>1, <2>2, <2>3, <2>4 DEF Settles, Joins, AllInv, MirrorInv, Linked
  <2>6. ~Ahead(0)
    BY <2>2 DEF Ahead, Solving
  <2>7. DrawnFor(0)
    BY <2>2, <2>5, <2>6 DEF Hearing
  <2>8. Turn(0, Now)
    <3>1. Now # NoValue /\ Now.value.solves = solves /\ Now.value.row = match /\ Now.present = Present(room)
      BY IsValue DEF Now, Value
    <3>2. ~ShownOver(Now)
      BY <3>1 DEF ShownOver, Playing
    <3>3. ~Racing(Now)
      BY <3>1 DEF Racing, Rows, LastOpen
    <3>4. \A seat \in Seat : Now.present[seat]
      BY <3>1
    <3> QED
      BY <3>2, <3>3, <3>4 DEF Turn
  <2>9. clients[0].drawn = Len(solves) + 1
    <3>1. clients[0].drawn \in Nat /\ Len(solves) \in Nat /\ clients[0].drawn <= Len(solves) + 1
      BY <2>1, LenProperties DEF AllInv, MatchInv, Apps, Client, DrawnInv
    <3> QED
      BY <2>7, <2>8, <3>1 DEF DrawnFor
  <2>10. ~Coming(0, clients[0].drawn)
    BY DEF Coming, Sends, SendsIn
  <2>11. Among(clients[0].drawing, clients[0].drawn)
    BY <2>1, <2>4, <2>9, <2>10 DEF DrawInv, Drawing
  <2> QED
    BY <2>1, <2>11 DEF Among
<1> QED
  BY <1>1, AllInitially, AllAlways, PTL DEF Spec
=============================================================================
