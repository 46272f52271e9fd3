-------------------------- MODULE EngineHost_proofs --------------------------
(***************************************************************************)
(* Proofs about EngineHost, for any number of tabs, versions, requests and *)
(* faults: the workers have one engine between them, and an answer reaches *)
(* the tab that asked, under its number, once; and what a tab was told     *)
(* done is on the device, as long as an engine hears that it lost the lock *)
(* before the next one reads the storage: without it the run               *)
(* engines_overlap has the counterexample.                                 *)
(***************************************************************************)
EXTENDS EngineHost, SequenceTheorems, TLAPS

\* A worker past the lock holds it, or has lost it.
Held ==
  \A w \in Worker : start[w] \in {"open", "read", "ready"} => w = lock \/ w \in broken \cup retired

\* A worker's queue holds each request once, in the order they came, and no search.
QueueInOrder(w) ==
  /\ \A i, j \in 1..Len(queue[w]) : i < j => queue[w][i] < queue[w][j]
  /\ \A i \in 1..Len(queue[w]) : queue[w][i] \notin searches[w]
  /\ \A n \in searches[w] : owners[w][n].kind = "search"
InOrder == \A w \in Worker : QueueInOrder(w)

\* A tab that has not loaded has asked and heard nothing.
Fresh == \A d \in Doc : doc[d].phase = "new" => calls[d] = 0 /\ down[d] = <<>>

-----------------------------------------------------------------------------
\* The type.

LEMMA PostType ==
  ASSUME TabsType, NEW D, NEW m \in Message
  PROVE  Post(D, m) \in [Doc -> Seq(Message)]
<1>1. ASSUME NEW d \in Doc PROVE Append(down[d], m) \in Seq(Message)
  BY AppendProperties DEF TabsType
<1> QED
  BY <1>1 DEF Post, TabsType

LEMMA PlainMessages ==
  /\ \A w \in Worker : [type |-> Outcome(w)] \in Message
  /\ [type |-> "failed"] \in Message /\ [type |-> "replaced"] \in Message
BY DEF Outcome, Message

LEMMA WorkersStay == ASSUME WorkersType, UNCHANGED <<lock, disk, start, waiting, broken, retired, mem>> PROVE WorkersType'
BY DEF WorkersType

LEMMA RequestsStay == ASSUME RequestsType, UNCHANGED <<owners, sequence, queue, ran, searches>> PROVE RequestsType'
BY DEF RequestsType

LEMMA TabsStay == ASSUME TabsType, UNCHANGED <<doc, pending, done, told, calls, up, down, faults>> PROVE TabsType'
BY DEF TabsType

\* A tab's first message is taken.
LEMMA ReceivedType ==
  ASSUME TabsType, NEW d \in Doc, up[d] # <<>>, Received(d)
  PROVE  /\ up' \in [Doc -> Seq(Call \cup [type : {"start"}])]
         /\ Head(up[d]) \in Call \cup [type : {"start"}]
<1>1. up[d] \in Seq(Call \cup [type : {"start"}])
  BY DEF TabsType
<1>2. Tail(up[d]) \in Seq(Call \cup [type : {"start"}]) /\ Head(up[d]) \in Call \cup [type : {"start"}]
  BY <1>1, HeadTailProperties
<1> QED
  BY <1>2 DEF Received, TabsType

LEMMA StartType == ASSUME TypeOK, NEW w \in Worker, NEW d \in Doc, Start(w, d) PROVE TypeOK'
<1> USE DEF TypeOK
<1>1. /\ up[d] # <<>> /\ Received(d)
      /\ UNCHANGED <<lock, disk, broken, retired, mem>> /\ UNCHANGED <<owners, sequence, queue, ran, searches>>
      /\ UNCHANGED <<doc, pending, done, told, calls, faults>>
  BY DEF Start, tab
<1>2. start' \in [Worker -> {"none", "steal", "open", "read", "ready"}] /\ waiting' \in [Worker -> SUBSET Doc]
  BY DEF Start, WorkersType
<1>3. WorkersType'
  BY <1>1, <1>2 DEF WorkersType
<1>4. Post({d}, [type |-> Outcome(w)]) \in [Doc -> Seq(Message)]
  BY PostType, PlainMessages
<1>5. down' \in [Doc -> Seq(Message)]
  BY <1>4 DEF Start, TabsType
<1>6. TabsType'
  BY <1>1, <1>5, ReceivedType DEF TabsType
<1> QED
  BY <1>1, <1>3, <1>6, RequestsStay

LEMMA StealType == ASSUME TypeOK, NEW w \in Worker, Steal(w) PROVE TypeOK'
<1> USE DEF TypeOK
<1>1. WorkersType'
  BY DEF Steal, WorkersType
<1> QED
  BY <1>1, RequestsStay, TabsStay DEF Steal, tab

LEMMA RetireType == ASSUME TypeOK, NEW w \in Worker, Retire(w) PROVE TypeOK'
<1> USE DEF TypeOK
<1>1. WorkersType'
  BY DEF Retire, WorkersType
<1>2. Post(Ports(w), [type |-> "replaced"]) \in [Doc -> Seq(Message)]
  BY PostType, PlainMessages
<1>3. down' \in [Doc -> Seq(Message)]
  BY <1>2 DEF Retire, TabsType
<1>4. TabsType'
  BY <1>3 DEF Retire, tab, TabsType
<1> QED
  BY <1>1, <1>4, RequestsStay DEF Retire

LEMMA OpenType == ASSUME TypeOK, NEW w \in Worker, OpenStorage(w) PROVE TypeOK'
<1> USE DEF TypeOK
<1>1. WorkersType'
  BY DEF OpenStorage, WorkersType
<1> QED
  BY <1>1, RequestsStay, TabsStay DEF OpenStorage, tab

LEMMA FailsType == ASSUME TypeOK, NEW w \in Worker, StartFails(w) PROVE TypeOK'
<1> USE DEF TypeOK
<1>1. WorkersType'
  BY DEF StartFails, WorkersType
<1>2. down' \in [Doc -> Seq(Message)]
  BY PostType, PlainMessages DEF StartFails
<1>3. TabsType'
  BY <1>2 DEF StartFails, Fault, tab, TabsType
<1> QED
  BY <1>1, <1>3, RequestsStay DEF StartFails

LEMMA CreateType == ASSUME TypeOK, NEW w \in Worker, CreateEngine(w) PROVE TypeOK'
<1> USE DEF TypeOK
<1>1. WorkersType'
  BY DEF CreateEngine, WorkersType
<1>2. down' \in [Doc -> Seq(Message)]
  BY PostType, PlainMessages DEF CreateEngine
<1>3. TabsType'
  BY <1>2 DEF CreateEngine, tab, TabsType
<1> QED
  BY <1>1, <1>3, RequestsStay DEF CreateEngine

\* What a worker's requests are is a type of their own.
RequestsOf(w) ==
  /\ owners[w] \in [DOMAIN owners[w] -> Owner]
  /\ DOMAIN owners[w] \subseteq 1..sequence[w]
  /\ Range(queue[w]) \cup searches[w] \subseteq DOMAIN owners[w]
  /\ ran[w] => queue[w] # <<>>

\* A tab's request, and the number it gets.
RequestOf(w, d) == [doc |-> d, id |-> Head(up[d]).id, kind |-> Head(up[d]).kind]
NextNumber(w) == sequence[w] + 1

RequestEffect(w, d) ==
  /\ doc[d].at = w /\ up[d] # <<>> /\ Received(d)
  /\ Head(up[d]) \in Call /\ Head(up[d]).type = "call"
  /\ RequestOf(w, d) \in Owner
  /\ sequence' = [sequence EXCEPT ![w] = NextNumber(w)]
  /\ UNCHANGED <<lock, disk, start, waiting, broken, retired, mem, ran, doc, pending, done, told, calls, faults>>
  /\ w \in retired =>
       /\ down' = Post({d}, [type |-> "answer", id |-> Head(up[d]).id, of |-> <<d, Head(up[d]).id>>,
                             kind |-> Head(up[d]).kind, error |-> TRUE])
       /\ UNCHANGED <<owners, queue, searches>>
  /\ w \notin retired =>
       /\ owners' = [owners EXCEPT ![w] = NowOwned(w, NextNumber(w), RequestOf(w, d))]
       /\ queue' = [queue EXCEPT ![w] =
            IF Engine(w) /\ Head(up[d]).kind = "change" THEN Append(@, NextNumber(w)) ELSE @]
       /\ searches' = [searches EXCEPT ![w] =
            IF Engine(w) /\ Head(up[d]).kind = "search" THEN @ \cup {NextNumber(w)} ELSE @]
       /\ UNCHANGED down

LEMMA RequestParts ==
  ASSUME TypeOK, NEW w \in Worker, NEW d \in Doc, Request(w, d)
  PROVE  RequestEffect(w, d)
<1>1. up[d] # <<>> /\ Received(d) /\ Head(up[d]).type = "call"
  BY DEF Request
<1>2. Head(up[d]) \in Call \cup [type : {"start"}]
  BY <1>1, ReceivedType DEF TypeOK
<1>3. Head(up[d]) \in Call
  BY <1>1, <1>2
<1>4. RequestOf(w, d) \in Owner
  BY <1>3 DEF RequestOf, Owner, Call
<1> QED
  BY <1>1, <1>3, <1>4 DEF RequestEffect, Request, RequestOf, NextNumber, tab

LEMMA RequestType == ASSUME TypeOK, NEW w \in Worker, NEW d \in Doc, Request(w, d) PROVE TypeOK'
<1>0. RequestEffect(w, d) /\ WorkersType /\ RequestsType /\ TabsType
  BY RequestParts DEF TypeOK
<1>1. WorkersType'
  BY <1>0, WorkersStay DEF RequestEffect
<1>2. CASE w \in retired
  <2>1. /\ UNCHANGED <<owners, queue, searches, ran>>
        /\ sequence' = [sequence EXCEPT ![w] = NextNumber(w)]
    BY <1>0, <1>2 DEF RequestEffect
  <2>2. sequence[w] \in Nat /\ NextNumber(w) = sequence[w] + 1
    BY <1>0 DEF RequestsType, NextNumber
  <2>3. RequestsType'
    BY <1>0, <2>1, <2>2 DEF RequestsType
  <2> DEFINE m == [type |-> "answer", id |-> Head(up[d]).id, of |-> <<d, Head(up[d]).id>>,
                   kind |-> Head(up[d]).kind, error |-> TRUE]
  <2>4. m \in Message /\ down' = Post({d}, m)
    <3>1. Head(up[d]) \in Call
      BY <1>0 DEF RequestEffect
    <3>2. m \in Message
      BY <3>1 DEF Message, Call, Change
    <3>3. down' = Post({d}, m)
      BY <1>0, <1>2 DEF RequestEffect
    <3> QED
      BY <3>2, <3>3
  <2>5. down' \in [Doc -> Seq(Message)]
    <3> HIDE DEF m
    <3> QED
      BY <1>0, <2>4, PostType
  <2>6. TabsType'
    BY <1>0, <2>5, ReceivedType DEF RequestEffect, TabsType
  <2> QED
    BY <1>1, <2>3, <2>6 DEF TypeOK
<1>3. CASE w \notin retired
  <2> DEFINE n == NextNumber(w)
             r == RequestOf(w, d)
  <2>1. sequence[w] \in Nat /\ n = sequence[w] + 1 /\ n \in Nat /\ r \in Owner
    BY <1>0 DEF RequestEffect, RequestsType, NextNumber
  <2>2. /\ owners' = [owners EXCEPT ![w] = NowOwned(w, n, r)]
        /\ sequence' = [sequence EXCEPT ![w] = n]
        /\ queue' = [queue EXCEPT ![w] = IF Engine(w) /\ Head(up[d]).kind = "change" THEN Append(@, n) ELSE @]
        /\ searches' = [searches EXCEPT ![w] = IF Engine(w) /\ Head(up[d]).kind = "search" THEN @ \cup {n} ELSE @]
        /\ UNCHANGED <<ran, down>>
    BY <1>0, <1>3 DEF RequestEffect
  <2> HIDE DEF n, r
  <2>3. /\ DOMAIN owners = Worker /\ owners[w] \in [DOMAIN owners[w] -> Owner]
        /\ DOMAIN owners[w] \subseteq 1..sequence[w] /\ queue[w] \in Seq(Nat)
        /\ searches[w] \subseteq DOMAIN owners[w] /\ Range(queue[w]) \subseteq DOMAIN owners[w]
    BY <1>0 DEF RequestsType
  <2>4. /\ owners'[w] = [k \in {n} \cup DOMAIN owners[w] |-> IF k = n THEN r ELSE owners[w][k]]
        /\ DOMAIN owners' = Worker /\ \A v \in Worker : v # w => owners'[v] = owners[v]
    <3>1. NowOwned(w, n, r) = [k \in {n} \cup DOMAIN owners[w] |-> IF k = n THEN r ELSE owners[w][k]]
      BY DEF NowOwned
    <3> QED
      BY <2>2, <2>3, <3>1
  <2>5. DOMAIN owners'[w] = {n} \cup DOMAIN owners[w]
    BY <2>4
  <2>6. owners'[w] \in [DOMAIN owners'[w] -> Owner]
    BY <2>1, <2>3, <2>4, <2>5
  <2>7. DOMAIN owners'[w] \subseteq 1..sequence'[w]
    <3>1. sequence'[w] = n
      BY <1>0, <2>2 DEF RequestsType
    <3> QED
      BY <2>1, <2>3, <2>5, <3>1
  <2>8. Append(queue[w], n) \in Seq(Nat) /\ Range(Append(queue[w], n)) \subseteq {n} \cup Range(queue[w])
        /\ Append(queue[w], n) # <<>>
    <3>1. /\ Append(queue[w], n) \in Seq(Nat) /\ Append(queue[w], n) # <<>>
          /\ DOMAIN Append(queue[w], n) = 1..(Len(queue[w]) + 1)
          /\ \A i \in 1..Len(queue[w]) : Append(queue[w], n)[i] = queue[w][i]
          /\ Append(queue[w], n)[Len(queue[w]) + 1] = n
          /\ DOMAIN queue[w] = 1..Len(queue[w]) /\ Len(queue[w]) \in Nat
      BY <2>1, <2>3
    <3> QED
      BY <3>1 DEF Range
  <2>9. /\ queue'[w] \in Seq(Nat) /\ Range(queue'[w]) \subseteq {n} \cup Range(queue[w])
        /\ queue[w] # <<>> => queue'[w] # <<>>
        /\ searches'[w] \subseteq {n} \cup searches[w]
        /\ \A v \in Worker : v # w => queue'[v] = queue[v] /\ searches'[v] = searches[v]
    BY <1>0, <2>2, <2>3, <2>8 DEF RequestsType
  <2>10. queue' \in [Worker -> Seq(Nat)] /\ searches' \in [Worker -> SUBSET Nat]
         /\ sequence' \in [Worker -> Nat] /\ ran' \in [Worker -> BOOLEAN]
         /\ \A v \in Worker : v # w => sequence'[v] = sequence[v]
    BY <1>0, <2>1, <2>2, <2>8 DEF RequestsType
  <2>11. RequestsOf(w)'
    BY <1>0, <2>2, <2>3, <2>5, <2>6, <2>7, <2>9 DEF RequestsOf, RequestsType
  <2>12. ASSUME NEW v \in Worker, v # w PROVE RequestsOf(v)'
    BY <1>0, <2>2, <2>4, <2>9, <2>10, <2>12 DEF RequestsOf, RequestsType
  <2>13. RequestsType'
    BY <1>0, <2>4, <2>10, <2>11, <2>12 DEF RequestsOf, RequestsType
  <2>14. TabsType'
    BY <1>0, <2>2, ReceivedType DEF RequestEffect, TabsType
  <2> QED
    BY <1>1, <2>13, <2>14 DEF TypeOK
<1> QED
  BY <1>2, <1>3

LEMMA RunType == ASSUME TypeOK, NEW w \in Worker, Run(w) PROVE TypeOK'
<1> USE DEF TypeOK
<1> DEFINE o == owners[w][Head(queue[w])]
<1>1. /\ queue[w] # <<>>
      /\ mem' = [mem EXCEPT ![w] = @ \cup {<<o.doc, o.id>>}]
      /\ disk' = IF Frozen(w) THEN disk ELSE mem'[w]
      /\ ran' = [ran EXCEPT ![w] = TRUE]
      /\ UNCHANGED <<lock, start, waiting, broken, retired, owners, sequence, queue, searches>>
      /\ UNCHANGED <<doc, pending, done, told, calls, up, down, faults>>
  BY DEF Run, tab
<1>2. Head(queue[w]) \in Range(queue[w])
  BY <1>1 DEF RequestsType, Range
<1>3. o \in Owner
  BY <1>2 DEF RequestsType
<1>4. <<o.doc, o.id>> \in Change
  BY <1>3 DEF Owner, Change
<1> HIDE DEF o
<1>5. WorkersType'
  BY <1>1, <1>4 DEF WorkersType
<1>6. RequestsType'
  BY <1>1 DEF RequestsType
<1> QED
  BY <1>1, <1>5, <1>6, TabsStay

\* A request answered, and what is told of it.
LEMMA RouteType ==
  ASSUME TypeOK, NEW w \in Worker, NEW n \in DOMAIN owners[w], Route(w, n)
  PROVE  /\ down' \in [Doc -> Seq(Message)]
         /\ owners[w][n] \in Owner
         /\ owners' = [owners EXCEPT ![w] = StillOwned(w, n)]
         /\ DOMAIN StillOwned(w, n) = DOMAIN owners[w] \ {n}
         /\ StillOwned(w, n) \in [DOMAIN StillOwned(w, n) -> Owner]
<1> USE DEF TypeOK
<1> DEFINE o == owners[w][n]
<1>1. o \in Owner
  BY DEF RequestsType
<1>2. AnswerOf(o, n) \in Message /\ [type |-> "changed", of |-> <<o.doc, o.id>>] \in Message
  BY <1>1 DEF AnswerOf, Message, Owner, Change
<1> DEFINE others == IF o.kind = "change" THEN Others(w, o) ELSE {}
           a == AnswerOf(o, n)
           c == [type |-> "changed", of |-> <<o.doc, o.id>>]
<1>3. down' = [d \in Doc |->
          CASE d = o.doc /\ d \in Ports(w) -> Append(down[d], a)
            [] d \in others -> Append(down[d], c)
            [] OTHER -> down[d]]
  BY DEF Route
<1> HIDE DEF a, c, others
<1>4. ASSUME NEW d \in Doc
      PROVE  Append(down[d], a) \in Seq(Message) /\ Append(down[d], c) \in Seq(Message) /\ down[d] \in Seq(Message)
  BY <1>2, AppendProperties DEF TabsType, a, c
<1>5. down' \in [Doc -> Seq(Message)]
  <2> SUFFICES ASSUME NEW d \in Doc PROVE down'[d] \in Seq(Message)
    BY <1>3
  <2>1. CASE d = o.doc /\ d \in Ports(w)
    BY <1>3, <1>4, <2>1
  <2>2. CASE ~(d = o.doc /\ d \in Ports(w)) /\ d \in others
    BY <1>3, <1>4, <2>2
  <2>3. CASE ~(d = o.doc /\ d \in Ports(w)) /\ d \notin others
    BY <1>3, <1>4, <2>3
  <2> QED
    BY <2>1, <2>2, <2>3
<1>6. owners' = [owners EXCEPT ![w] = StillOwned(w, n)]
  BY DEF Route
<1>7. DOMAIN StillOwned(w, n) = DOMAIN owners[w] \ {n}
  BY DEF StillOwned
<1>8. StillOwned(w, n) \in [DOMAIN StillOwned(w, n) -> Owner]
  BY DEF StillOwned, RequestsType
<1> QED
  BY <1>1, <1>5, <1>6, <1>7, <1>8

\* A queue without its first request.
LEMMA Rest ==
  ASSUME NEW q \in Seq(Nat), q # <<>>
  PROVE  /\ Tail(q) \in Seq(Nat) /\ Len(Tail(q)) = Len(q) - 1 /\ Len(q) \in Nat /\ Len(q) >= 1
         /\ \A i \in 1..(Len(q) - 1) : Tail(q)[i] = q[i + 1]
         /\ Head(q) = q[1] /\ DOMAIN q = 1..Len(q) /\ DOMAIN Tail(q) = 1..(Len(q) - 1)
OBVIOUS

LEMMA AnswerType ==
  ASSUME TypeOK, InOrder, NEW w \in Worker, Answer(w)
  PROVE  TypeOK' /\ InOrder'
<1> DEFINE q == queue[w]
           n == Head(q)
<1>0. WorkersType /\ RequestsType /\ TabsType
  BY DEF TypeOK
<1>1. /\ ran[w] /\ Route(w, n)
      /\ queue' = [queue EXCEPT ![w] = Tail(q)] /\ ran' = [ran EXCEPT ![w] = FALSE]
      /\ UNCHANGED <<lock, disk, start, waiting, broken, retired, mem, sequence, searches>>
      /\ UNCHANGED <<doc, pending, done, told, calls, up, faults>>
  BY DEF Answer, tab
<1>2. q \in Seq(Nat) /\ q # <<>> /\ Range(q) \subseteq DOMAIN owners[w]
  BY <1>0, <1>1 DEF RequestsType
<1>3. /\ Tail(q) \in Seq(Nat) /\ Len(Tail(q)) = Len(q) - 1 /\ Len(q) \in Nat /\ Len(q) >= 1
      /\ \A i \in 1..(Len(q) - 1) : Tail(q)[i] = q[i + 1]
      /\ n = q[1] /\ DOMAIN q = 1..Len(q) /\ DOMAIN Tail(q) = 1..(Len(q) - 1)
  BY <1>2, Rest
<1>4. /\ \A i, j \in 1..Len(q) : i < j => q[i] < q[j]
      /\ \A i \in 1..Len(q) : q[i] \notin searches[w]
      /\ \A k \in searches[w] : owners[w][k].kind = "search"
  BY DEF InOrder, QueueInOrder
<1> HIDE DEF q
<1>5. n \in DOMAIN owners[w] /\ \A i \in 1..Len(q) : q[i] \in Nat /\ q[i] \in Range(q)
  BY <1>2, <1>3 DEF Range
<1> HIDE DEF n
<1>6. /\ down' \in [Doc -> Seq(Message)]
      /\ owners' = [owners EXCEPT ![w] = StillOwned(w, n)]
      /\ DOMAIN StillOwned(w, n) = DOMAIN owners[w] \ {n}
      /\ StillOwned(w, n) \in [DOMAIN StillOwned(w, n) -> Owner]
  BY <1>1, <1>5, RouteType
<1>7. \A i \in 1..(Len(q) - 1) : Tail(q)[i] # n /\ Tail(q)[i] \in Range(q)
  BY <1>3, <1>4, <1>5
<1>8. Range(Tail(q)) \subseteq DOMAIN owners[w] \ {n}
  BY <1>2, <1>3, <1>7 DEF Range
<1>9. searches[w] \subseteq DOMAIN owners[w] \ {n}
  <2>1. n \notin searches[w]
    BY <1>3, <1>4
  <2> QED
    BY <1>0, <2>1 DEF RequestsType
<1>10. /\ owners'[w] = StillOwned(w, n) /\ queue'[w] = Tail(q) /\ ran'[w] = FALSE /\ DOMAIN owners' = Worker
       /\ \A v \in Worker : v # w => owners'[v] = owners[v] /\ queue'[v] = queue[v] /\ ran'[v] = ran[v]
       /\ queue' \in [Worker -> Seq(Nat)] /\ ran' \in [Worker -> BOOLEAN]
       /\ sequence' = sequence /\ searches' = searches
  BY <1>0, <1>1, <1>3, <1>6 DEF RequestsType
<1>11. RequestsOf(w)'
  BY <1>0, <1>6, <1>8, <1>9, <1>10 DEF RequestsOf, RequestsType
<1>12. ASSUME NEW v \in Worker, v # w PROVE RequestsOf(v)'
  BY <1>0, <1>10, <1>12 DEF RequestsOf, RequestsType
<1>13. RequestsType'
  BY <1>0, <1>10, <1>11, <1>12 DEF RequestsOf, RequestsType
<1>14. WorkersType' /\ TabsType'
  BY <1>0, <1>1, <1>6, WorkersStay DEF TabsType
<1>15. QueueInOrder(w)'
  <2>1. \A k \in searches[w] : StillOwned(w, n)[k] = owners[w][k]
    BY <1>9 DEF StillOwned
  <2> QED
    <3>1. \A i, j \in 1..(Len(q) - 1) : i < j => Tail(q)[i] < Tail(q)[j]
      BY <1>3, <1>4
    <3>2. \A i \in 1..(Len(q) - 1) : Tail(q)[i] \notin searches[w]
      BY <1>3, <1>4
    <3> DEFINE t == Tail(q)
    <3>3. queue'[w] = t /\ Len(t) = Len(q) - 1 /\ searches' = searches
      BY <1>3, <1>10
    <3> HIDE DEF t
    <3> QED
      BY <1>4, <1>10, <2>1, <3>1, <3>2, <3>3 DEF QueueInOrder, t
<1>16. ASSUME NEW v \in Worker, v # w PROVE QueueInOrder(v)'
  BY <1>10, <1>16 DEF InOrder, QueueInOrder
<1> QED
  BY <1>13, <1>14, <1>15, <1>16 DEF TypeOK, InOrder

LEMMA SearchType ==
  ASSUME TypeOK, InOrder, NEW w \in Worker, AnswerSearch(w)
  PROVE  TypeOK' /\ InOrder'
<1>0. WorkersType /\ RequestsType /\ TabsType
  BY DEF TypeOK
<1>1. PICK n \in searches[w] : Route(w, n) /\ searches' = [searches EXCEPT ![w] = @ \ {n}]
  BY DEF AnswerSearch
<1>2. /\ UNCHANGED <<lock, disk, start, waiting, broken, retired, mem, sequence, queue, ran>>
      /\ UNCHANGED <<doc, pending, done, told, calls, up, faults>>
  BY DEF AnswerSearch, tab
<1>3. n \in DOMAIN owners[w] /\ queue[w] \in Seq(Nat) /\ DOMAIN queue[w] = 1..Len(queue[w])
  BY <1>0 DEF RequestsType
<1>4. /\ down' \in [Doc -> Seq(Message)]
      /\ owners' = [owners EXCEPT ![w] = StillOwned(w, n)]
      /\ DOMAIN StillOwned(w, n) = DOMAIN owners[w] \ {n}
      /\ StillOwned(w, n) \in [DOMAIN StillOwned(w, n) -> Owner]
  BY <1>1, <1>3, RouteType
<1>5. n \notin Range(queue[w])
  BY <1>1, <1>3 DEF InOrder, QueueInOrder, Range
<1>6. /\ owners'[w] = StillOwned(w, n) /\ searches'[w] = searches[w] \ {n} /\ DOMAIN owners' = Worker
      /\ \A v \in Worker : v # w => owners'[v] = owners[v] /\ searches'[v] = searches[v]
      /\ searches' \in [Worker -> SUBSET Nat]
      /\ sequence' = sequence /\ queue' = queue /\ ran' = ran
  BY <1>0, <1>1, <1>2, <1>4 DEF RequestsType
<1>7. RequestsOf(w)'
  BY <1>0, <1>4, <1>5, <1>6 DEF RequestsOf, RequestsType
<1>8. ASSUME NEW v \in Worker, v # w PROVE RequestsOf(v)'
  BY <1>0, <1>6, <1>8 DEF RequestsOf, RequestsType
<1>9. RequestsType'
  BY <1>0, <1>6, <1>7, <1>8 DEF RequestsOf, RequestsType
<1>10. WorkersType' /\ TabsType'
  BY <1>0, <1>2, <1>4, WorkersStay DEF TabsType
<1>11. QueueInOrder(w)'
  <2>1. \A k \in searches[w] \ {n} : StillOwned(w, n)[k] = owners[w][k]
    BY <1>0 DEF StillOwned, RequestsType
  <2> QED
    BY <1>6, <2>1 DEF InOrder, QueueInOrder
<1>12. ASSUME NEW v \in Worker, v # w PROVE QueueInOrder(v)'
  BY <1>6, <1>12 DEF InOrder, QueueInOrder
<1> QED
  BY <1>9, <1>10, <1>11, <1>12 DEF TypeOK, InOrder

LEMMA RequestOrder ==
  ASSUME TypeOK, InOrder, NEW w \in Worker, NEW d \in Doc, Request(w, d)
  PROVE  InOrder'
<1>0. RequestEffect(w, d) /\ RequestsType
  BY RequestParts DEF TypeOK
<1>1. CASE w \in retired
  BY <1>0, <1>1 DEF RequestEffect, InOrder, QueueInOrder
<1>2. CASE w \notin retired
  <2> DEFINE n == NextNumber(w)
             r == RequestOf(w, d)
             q == queue[w]
  <2>1. /\ owners' = [owners EXCEPT ![w] = NowOwned(w, n, r)]
        /\ queue' = [queue EXCEPT ![w] = IF Engine(w) /\ Head(up[d]).kind = "change" THEN Append(q, n) ELSE q]
        /\ searches' = [searches EXCEPT ![w] =
             IF Engine(w) /\ Head(up[d]).kind = "search" THEN @ \cup {n} ELSE @]
    BY <1>0, <1>2 DEF RequestEffect
  <2>2. /\ sequence[w] \in Nat /\ n = sequence[w] + 1 /\ n \in Nat /\ r.kind = Head(up[d]).kind
        /\ q \in Seq(Nat) /\ DOMAIN q = 1..Len(q) /\ Len(q) \in Nat
        /\ Range(q) \cup searches[w] \subseteq 1..sequence[w]
        /\ searches[w] \subseteq DOMAIN owners[w]
    BY <1>0 DEF RequestsType, NextNumber, RequestOf
  <2>3. /\ \A i, j \in 1..Len(q) : i < j => q[i] < q[j]
        /\ \A i \in 1..Len(q) : q[i] \notin searches[w]
        /\ \A k \in searches[w] : owners[w][k].kind = "search"
    BY DEF InOrder, QueueInOrder
  <2> HIDE DEF n, r, q
  <2>4. \A i \in 1..Len(q) : q[i] \in Nat /\ q[i] < n
    <3>1. ASSUME NEW i \in 1..Len(q) PROVE q[i] \in Nat /\ q[i] < n
      <4>1. q[i] \in Range(q)
        BY <2>2 DEF Range
      <4>2. q[i] \in 1..sequence[w]
        BY <2>2, <4>1
      <4> QED
        BY <2>2, <4>2
    <3> QED
      BY <3>1
  <2>5. /\ NowOwned(w, n, r)[n] = r
        /\ \A k \in searches[w] : NowOwned(w, n, r)[k] = owners[w][k]
    BY <2>2 DEF NowOwned
  <2>6. /\ owners'[w] = NowOwned(w, n, r)
        /\ queue'[w] = IF Engine(w) /\ Head(up[d]).kind = "change" THEN Append(q, n) ELSE q
        /\ searches'[w] = IF Engine(w) /\ Head(up[d]).kind = "search" THEN searches[w] \cup {n} ELSE searches[w]
        /\ \A v \in Worker : v # w => owners'[v] = owners[v] /\ queue'[v] = queue[v] /\ searches'[v] = searches[v]
    BY <1>0, <2>1 DEF RequestsType
  <2>7. QueueInOrder(w)'
    <3>1. CASE Engine(w) /\ Head(up[d]).kind = "change"
      <4>1. queue'[w] = Append(q, n) /\ searches'[w] = searches[w]
        BY <2>6, <3>1
      <4>2. /\ Len(Append(q, n)) = Len(q) + 1 /\ Append(q, n)[Len(q) + 1] = n
            /\ \A i \in 1..Len(q) : Append(q, n)[i] = q[i]
        BY <2>2
      <4>3. n \notin searches[w]
        BY <2>2
      <4> DEFINE t == Append(q, n)
      <4>4. \A i, j \in 1..(Len(q) + 1) : i < j => t[i] < t[j]
        <5> SUFFICES ASSUME NEW i \in 1..(Len(q) + 1), NEW j \in 1..(Len(q) + 1), i < j PROVE t[i] < t[j]
          OBVIOUS
        <5>1. i \in 1..Len(q) /\ t[i] = q[i]
          BY <2>2, <4>2
        <5>2. CASE j = Len(q) + 1
          BY <2>4, <4>2, <5>1, <5>2
        <5>3. CASE j \in 1..Len(q)
          BY <2>3, <4>2, <5>1, <5>3
        <5> QED
          BY <2>2, <5>2, <5>3
      <4>5. \A i \in 1..(Len(q) + 1) : t[i] \notin searches[w]
        BY <2>2, <2>3, <4>2, <4>3
      <4>6. queue'[w] = t /\ Len(t) = Len(q) + 1
        BY <4>1, <4>2
      <4> HIDE DEF t
      <4> QED
        BY <2>3, <2>5, <2>6, <4>1, <4>4, <4>5, <4>6 DEF QueueInOrder
    <3>2. CASE Engine(w) /\ Head(up[d]).kind = "search"
      <4>1. queue'[w] = q /\ searches'[w] = searches[w] \cup {n}
        BY <2>6, <3>2
      <4> QED
        BY <2>2, <2>3, <2>4, <2>5, <2>6, <3>2, <4>1 DEF QueueInOrder
    <3>3. CASE queue'[w] = q /\ searches'[w] = searches[w]
      BY <2>3, <2>5, <2>6, <3>3 DEF QueueInOrder
    <3> QED
      BY <2>6, <3>1, <3>2, <3>3
  <2>8. ASSUME NEW v \in Worker, v # w PROVE QueueInOrder(v)'
    BY <2>6, <2>8 DEF InOrder, QueueInOrder
  <2> QED
    BY <2>7, <2>8 DEF InOrder
<1> QED
  BY <1>1, <1>2

\* The tabs' own steps.
LEMMA LoadType ==
  ASSUME TypeOK, NEW d \in Doc, NEW w \in Worker, Load(d, w)
  PROVE  TypeOK'
<1>0. WorkersType /\ RequestsType /\ TabsType
  BY DEF TypeOK
<1>1. /\ doc' = [doc EXCEPT ![d] = [phase |-> "loading", at |-> w]]
      /\ up' = [up EXCEPT ![d] = <<[type |-> "start"]>>]
      /\ UNCHANGED <<lock, disk, start, waiting, broken, retired, mem>>
      /\ UNCHANGED <<owners, sequence, queue, ran, searches>>
      /\ UNCHANGED <<pending, done, told, calls, down, faults>>
  BY DEF Load, worker
<1>2. <<[type |-> "start"]>> \in Seq(Call \cup [type : {"start"}])
  <2>1. [type |-> "start"] \in Call \cup [type : {"start"}]
    OBVIOUS
  <2> QED
    BY <2>1
<1>3. TabsType'
  BY <1>0, <1>1, <1>2 DEF TabsType, Open
<1> QED
  BY <1>0, <1>1, <1>3, WorkersStay, RequestsStay DEF TypeOK

LEMMA LeaveType ==
  ASSUME TypeOK, NEW d \in Doc, Leave(d), faults' \in Nat, doc[d].phase # "new"
  PROVE  TypeOK'
<1>0. WorkersType /\ RequestsType /\ TabsType
  BY DEF TypeOK
<1>1. /\ doc' = [doc EXCEPT ![d].phase = "closed"]
      /\ down' = [down EXCEPT ![d] = <<>>]
      /\ pending' = [pending EXCEPT ![d] = {}]
      /\ told' = [told EXCEPT ![d] = {}]
      /\ UNCHANGED <<lock, disk, start, waiting, broken, retired, mem>>
      /\ UNCHANGED <<owners, sequence, queue, ran, searches>>
      /\ UNCHANGED <<done, calls, up>>
  BY DEF Leave, worker
<1>2. down' \in [Doc -> Seq(Message)]
  BY <1>0, <1>1, EmptySeq DEF TabsType
<1>3. TabsType'
  <2>1. /\ doc' \in [Doc -> [phase : Open \cup {"new", "stopped", "closed"}, at : Worker \cup {None}]]
        /\ \A e \in Doc : doc'[e].phase = "new" \/ doc'[e].at \in Worker
    <3>1. \A e \in Doc : doc[e].phase = "new" \/ doc[e].at \in Worker
      BY <1>0 DEF TabsType
    <3>2. doc \in [Doc -> [phase : Open \cup {"new", "stopped", "closed"}, at : Worker \cup {None}]]
      BY <1>0 DEF TabsType
    <3>3. doc' = [doc EXCEPT ![d].phase = "closed"]
      BY <1>1
    <3>4. [doc[d] EXCEPT !.phase = "closed"] \in [phase : Open \cup {"new", "stopped", "closed"}, at : Worker \cup {None}]
      BY <3>2
    <3>5. doc'[d].at = doc[d].at /\ doc[d].phase # "new" /\ \A e \in Doc : e # d => doc'[e] = doc[e]
      BY <3>2, <3>3
    <3> QED
      BY <3>1, <3>2, <3>3, <3>4, <3>5
  <2>2. /\ pending' \in [Doc -> SUBSET Id] /\ told' \in [Doc -> SUBSET Change]
        /\ \A e \in Doc : pending'[e] \cup done[e] \subseteq 1..calls[e]
    BY <1>0, <1>1 DEF TabsType
  <2> QED
    BY <1>0, <1>1, <1>2, <2>1, <2>2 DEF TabsType
<1> QED
  BY <1>0, <1>1, <1>3, WorkersStay, RequestsStay DEF TypeOK

LEMMA CloseType == ASSUME TypeOK, NEW d \in Doc, Close(d) PROVE TypeOK'
<1>1. Leave(d) /\ faults' \in Nat /\ doc[d].phase # "new"
  BY DEF Close, Fault, TypeOK, TabsType, Open
<1> QED
  BY <1>1, LeaveType

LEMMA AskType == ASSUME TypeOK, NEW d \in Doc, NEW kind \in Kind, Ask(d, kind) PROVE TypeOK'
<1>0. WorkersType /\ RequestsType /\ TabsType
  BY DEF TypeOK
<1> DEFINE m == [type |-> "call", id |-> calls[d] + 1, kind |-> kind]
<1>1. /\ calls' = [calls EXCEPT ![d] = @ + 1]
      /\ pending' = [pending EXCEPT ![d] = @ \cup {calls[d] + 1}]
      /\ up' = [up EXCEPT ![d] = Append(@, m)]
      /\ UNCHANGED <<lock, disk, start, waiting, broken, retired, mem>>
      /\ UNCHANGED <<owners, sequence, queue, ran, searches>>
      /\ UNCHANGED <<doc, done, told, down, faults>>
  BY DEF Ask, worker
<1>2. m \in Call \cup [type : {"start"}] /\ calls[d] \in Nat
  BY <1>0 DEF Call, Id, TabsType
<1> HIDE DEF m
<1>3. Append(up[d], m) \in Seq(Call \cup [type : {"start"}])
  BY <1>0, <1>2, AppendProperties DEF TabsType
<1>4. up' \in [Doc -> Seq(Call \cup [type : {"start"}])]
  BY <1>0, <1>1, <1>3 DEF TabsType
<1>5. calls' \in [Doc -> Nat] /\ pending' \in [Doc -> SUBSET Id]
  BY <1>0, <1>1, <1>2 DEF TabsType, Id
<1>6. \A e \in Doc : pending'[e] \cup done[e] \subseteq 1..calls'[e]
  <2> SUFFICES ASSUME NEW e \in Doc PROVE pending'[e] \cup done[e] \subseteq 1..calls'[e]
    OBVIOUS
  <2>1. pending[e] \cup done[e] \subseteq 1..calls[e] /\ calls[e] \in Nat
    BY <1>0 DEF TabsType
  <2> QED
    BY <1>0, <1>1, <2>1 DEF TabsType
<1>7. TabsType'
  BY <1>0, <1>1, <1>4, <1>5, <1>6 DEF TabsType
<1> QED
  BY <1>0, <1>1, <1>7, WorkersStay, RequestsStay DEF TypeOK

\* A message read.
LEMMA ReadType ==
  ASSUME TypeOK, NEW d \in Doc, down[d] # <<>>, Read(d)
  PROVE  /\ down' \in [Doc -> Seq(Message)] /\ Head(down[d]) \in Message
         /\ Tail(down[d]) \in Seq(Message)
<1>1. down[d] \in Seq(Message)
  BY DEF TypeOK, TabsType
<1>2. Tail(down[d]) \in Seq(Message) /\ Head(down[d]) \in Message
  BY <1>1, HeadTailProperties
<1> QED
  BY <1>2 DEF Read, TypeOK, TabsType

LEMMA ReceiveAnswerType == ASSUME TypeOK, NEW d \in Doc, ReceiveAnswer(d) PROVE TypeOK'
<1>0. WorkersType /\ RequestsType /\ TabsType
  BY DEF TypeOK
<1> DEFINE m == Head(down[d])
<1>1. /\ pending' = [pending EXCEPT ![d] = @ \ {m.id}]
      /\ done' = [done EXCEPT ![d] =
           IF m.id \in pending[d] /\ m.kind = "change" /\ ~m.error THEN @ \cup {m.id} ELSE @]
      /\ down[d] # <<>> /\ Read(d)
      /\ UNCHANGED <<lock, disk, start, waiting, broken, retired, mem>>
      /\ UNCHANGED <<owners, sequence, queue, ran, searches>>
      /\ UNCHANGED <<doc, told, calls, up, faults>>
  BY DEF ReceiveAnswer, Heard, worker
<1> HIDE DEF m
<1>2. down' \in [Doc -> Seq(Message)]
  BY <1>1, ReadType
<1>3. /\ pending' \in [Doc -> SUBSET Id] /\ done' \in [Doc -> SUBSET Id]
      /\ \A e \in Doc : pending'[e] \cup done'[e] \subseteq pending[e] \cup done[e]
  BY <1>0, <1>1 DEF TabsType
<1>4. TabsType'
  BY <1>0, <1>1, <1>2, <1>3 DEF TabsType
<1> QED
  BY <1>0, <1>1, <1>4, WorkersStay, RequestsStay DEF TypeOK

LEMMA ReceiveStartedType ==
  ASSUME TypeOK, Fresh, NEW d \in Doc, ReceiveStarted(d)
  PROVE  TypeOK'
<1>0. WorkersType /\ RequestsType /\ TabsType
  BY DEF TypeOK
<1>1. /\ down[d] # <<>> /\ Read(d)
      /\ doc' = [doc EXCEPT ![d].phase = "ready"] \/ doc' = [doc EXCEPT ![d].phase = "failed"]
      /\ told' = [told EXCEPT ![d] = @ \cup mem[doc[d].at]] \/ UNCHANGED told
      /\ UNCHANGED <<lock, disk, start, waiting, broken, retired, mem>>
      /\ UNCHANGED <<owners, sequence, queue, ran, searches>>
      /\ UNCHANGED <<pending, done, calls, up, faults>>
  BY DEF ReceiveStarted, Heard, worker
<1>2. down' \in [Doc -> Seq(Message)]
  BY <1>1, ReadType
<1>3. doc[d].at \in Worker
  BY <1>0, <1>1 DEF TabsType, Fresh
<1>4. told' \in [Doc -> SUBSET Change]
  <2>1. mem[doc[d].at] \subseteq Change
    BY <1>0, <1>3 DEF WorkersType
  <2>2. told \in [Doc -> SUBSET Change]
    BY <1>0 DEF TabsType
  <2>3. told' = [told EXCEPT ![d] = @ \cup mem[doc[d].at]] \/ UNCHANGED told
    BY <1>1
  <2> QED
    BY <2>1, <2>2, <2>3
<1>5. /\ doc' \in [Doc -> [phase : Open \cup {"new", "stopped", "closed"}, at : Worker \cup {None}]]
      /\ \A e \in Doc : doc'[e].phase = "new" \/ doc'[e].at \in Worker
  <2>1. /\ doc \in [Doc -> [phase : Open \cup {"new", "stopped", "closed"}, at : Worker \cup {None}]]
        /\ \A e \in Doc : doc[e].phase = "new" \/ doc[e].at \in Worker
    BY <1>0 DEF TabsType
  <2>2. PICK phase \in Open : doc' = [doc EXCEPT ![d].phase = phase]
    BY <1>1 DEF Open
  <2>3. doc' \in [Doc -> [phase : Open \cup {"new", "stopped", "closed"}, at : Worker \cup {None}]]
    BY <2>1, <2>2
  <2>4. \A e \in Doc : doc'[e].at = doc[e].at /\ (e # d => doc'[e] = doc[e])
    BY <2>1, <2>2
  <2> QED
    BY <1>3, <2>1, <2>3, <2>4
<1>6. TabsType'
  <2>1. UNCHANGED <<pending, done, calls, up, faults>>
    BY <1>1
  <2> QED
    BY <1>0, <1>2, <1>4, <1>5, <2>1 DEF TabsType
<1> QED
  BY <1>0, <1>1, <1>6, WorkersStay, RequestsStay DEF TypeOK

LEMMA ReceiveChangedType == ASSUME TypeOK, NEW d \in Doc, ReceiveChanged(d) PROVE TypeOK'
<1>0. WorkersType /\ RequestsType /\ TabsType
  BY DEF TypeOK
<1>1. /\ down[d] # <<>> /\ Head(down[d]).type = "changed" /\ Read(d)
      /\ told' = [told EXCEPT ![d] = @ \cup {Head(down[d]).of}]
      /\ UNCHANGED <<lock, disk, start, waiting, broken, retired, mem>>
      /\ UNCHANGED <<owners, sequence, queue, ran, searches>>
      /\ UNCHANGED <<doc, pending, done, calls, up, faults>>
  BY DEF ReceiveChanged, Heard, worker
<1>2. down' \in [Doc -> Seq(Message)] /\ Head(down[d]) \in Message
  BY <1>1, ReadType
<1>3. Head(down[d]).of \in Change
  BY <1>1, <1>2 DEF Message
<1>4. told' \in [Doc -> SUBSET Change]
  <2>1. told \in [Doc -> SUBSET Change]
    BY <1>0 DEF TabsType
  <2> QED
    BY <1>1, <1>3, <2>1
<1>5. TabsType'
  <2>1. UNCHANGED <<doc, pending, done, calls, up, faults>>
    BY <1>1
  <2> QED
    BY <1>0, <1>2, <1>4, <2>1 DEF TabsType
<1> QED
  BY <1>0, <1>1, <1>5, WorkersStay, RequestsStay DEF TypeOK

LEMMA ReceiveReplacedType == ASSUME TypeOK, Fresh, NEW d \in Doc, ReceiveReplaced(d) PROVE TypeOK'
<1>0. WorkersType /\ RequestsType /\ TabsType /\ doc[d].phase # "new"
  BY DEF TypeOK, Fresh, ReceiveReplaced, Heard
<1>1. CASE Leave(d) /\ UNCHANGED faults
  BY <1>0, <1>1, LeaveType DEF TabsType
<1>2. CASE /\ doc' = [doc EXCEPT ![d].phase = "stopped"]
           /\ Rejected(d)
           /\ down' = [down EXCEPT ![d] = <<>>]
           /\ UNCHANGED <<lock, disk, worker, broken, done, told, calls, up, faults>>
  <2>1. down' \in [Doc -> Seq(Message)]
    BY <1>0, <1>2, EmptySeq DEF TabsType
  <2>2. pending' \in [Doc -> SUBSET Id] /\ \A e \in Doc : pending'[e] \cup done[e] \subseteq 1..calls[e]
    BY <1>0, <1>2 DEF Rejected, TabsType
  <2>3. doc \in [Doc -> [phase : Open \cup {"new", "stopped", "closed"}, at : Worker \cup {None}]]
    BY <1>0 DEF TabsType
  <2>4. doc[d].at \in Worker
    BY <1>0 DEF TabsType
  <2>5. /\ doc' \in [Doc -> [phase : Open \cup {"new", "stopped", "closed"}, at : Worker \cup {None}]]
        /\ doc'[d].at \in Worker /\ \A e \in Doc : e # d => doc'[e] = doc[e]
    BY <1>2, <2>3, <2>4
  <2>6. TabsType'
    BY <1>0, <1>2, <2>1, <2>2, <2>5 DEF TabsType
  <2> QED
    BY <1>0, <1>2, <2>6, WorkersStay, RequestsStay DEF TypeOK, worker
<1> QED
  BY <1>1, <1>2 DEF ReceiveReplaced, Heard

-----------------------------------------------------------------------------
\* One engine, its queue in order, and what tabs not loaded heard.
HostInv == TypeOK /\ InOrder /\ Fresh /\ Held

LEMMA OrderStays == ASSUME InOrder, UNCHANGED <<owners, queue, searches>> PROVE InOrder'
BY DEF InOrder, QueueInOrder

LEMMA FreshStays ==
  ASSUME Fresh, UNCHANGED <<doc, calls>>,
         \A d \in Doc : doc[d].phase \notin Open => down'[d] = down[d]
  PROVE  Fresh'
BY DEF Fresh, Open

LEMMA HeldStays == ASSUME Held, UNCHANGED <<lock, start, broken, retired>> PROVE Held'
BY DEF Held

\* What is posted reaches tabs that are open.
LEMMA PostOpen ==
  ASSUME NEW D, NEW m, down' = Post(D, m) \/ down' = down
  PROVE  \A d \in Doc : doc[d].phase \notin Open => down'[d] = down[d]
BY DEF Post

LEMMA RouteOpen ==
  ASSUME NEW w \in Worker, NEW n, Route(w, n)
  PROVE  \A d \in Doc : doc[d].phase \notin Open => down'[d] = down[d]
<1> DEFINE o == owners[w][n]
           others == IF o.kind = "change" THEN Others(w, o) ELSE {}
           a == AnswerOf(o, n)
           c == [type |-> "changed", of |-> <<o.doc, o.id>>]
<1>1. down' = [d \in Doc |->
          CASE d = o.doc /\ d \in Ports(w) -> Append(down[d], a)
            [] d \in others -> Append(down[d], c)
            [] OTHER -> down[d]]
  BY DEF Route
<1>2. \A d \in Doc : d \in Ports(w) \cup others => doc[d].phase \in Open
  BY DEF Ports, Others
<1> HIDE DEF a, c, others
<1> QED
  BY <1>1, <1>2

\* The steps of a worker.
LEMMA HostKeeps ==
  ASSUME HostInv, NEW w \in Worker, Host(w) \/ StartFails(w)
  PROVE  HostInv'
<1> USE DEF HostInv
<1>0. lock \in Worker \cup {None} /\ start \in [Worker -> {"none", "steal", "open", "read", "ready"}]
  BY DEF TypeOK, WorkersType
<1>1. CASE Steal(w)
  <2>0. /\ start' = [start EXCEPT ![w] = "open"] /\ lock' = w /\ retired' = retired
        /\ broken' = broken \cup ({lock} \ {None})
    BY <1>1 DEF Steal
  <2>1. Held'
    <3> SUFFICES ASSUME NEW v \in Worker, start'[v] \in {"open", "read", "ready"}
                 PROVE  v = w \/ v \in broken' \cup retired'
      BY <2>0 DEF Held
    <3>1. CASE v # w
      <4>1. v = lock \/ v \in broken \cup retired
        BY <1>0, <2>0, <3>1 DEF Held
      <4>2. v # None
        BY DEF Worker, None
      <4> QED
        BY <2>0, <4>1, <4>2
    <3> QED
      BY <3>1
  <2> QED
    BY <1>1, <2>1, StealType, OrderStays, FreshStays DEF Steal, tab
<1>2. CASE Retire(w)
  <2>1. Held'
    BY <1>2 DEF Retire, Held
  <2>2. Fresh'
    BY <1>2, FreshStays, PostOpen DEF Retire, tab
  <2> QED
    BY <1>2, <2>1, <2>2, RetireType, OrderStays DEF Retire
<1>3. CASE OpenStorage(w)
  <2>1. Held'
    BY <1>0, <1>3 DEF OpenStorage, Held
  <2> QED
    BY <1>3, <2>1, OpenType, OrderStays, FreshStays DEF OpenStorage, tab
<1>4. CASE CreateEngine(w)
  <2>1. Held'
    BY <1>0, <1>4 DEF CreateEngine, Held
  <2>2. Fresh'
    BY <1>4, FreshStays, PostOpen DEF CreateEngine, tab
  <2> QED
    BY <1>4, <2>1, <2>2, CreateType, OrderStays DEF CreateEngine
<1>5. CASE StartFails(w)
  <2>1. Held'
    BY <1>0, <1>5 DEF StartFails, Held
  <2>2. Fresh'
    BY <1>5, FreshStays, PostOpen DEF StartFails, tab
  <2> QED
    BY <1>5, <2>1, <2>2, FailsType, OrderStays DEF StartFails
<1>6. CASE Run(w)
  BY <1>6, RunType, OrderStays, FreshStays, HeldStays DEF Run, tab
<1>7. CASE Answer(w)
  <2>1. Fresh'
    BY <1>7, FreshStays, RouteOpen DEF Answer, tab
  <2> QED
    BY <1>7, <2>1, AnswerType, HeldStays DEF Answer
<1>8. CASE AnswerSearch(w)
  <2>1. PICK n : Route(w, n)
    BY <1>8 DEF AnswerSearch
  <2>2. Fresh'
    BY <1>8, <2>1, FreshStays, RouteOpen DEF AnswerSearch, tab
  <2> QED
    BY <1>8, <2>2, SearchType, HeldStays DEF AnswerSearch
<1> QED
  BY <1>1, <1>2, <1>3, <1>4, <1>5, <1>6, <1>7, <1>8 DEF Host

LEMMA ServeKeeps ==
  ASSUME HostInv, NEW w \in Worker, NEW d \in Doc, Start(w, d) \/ Request(w, d)
  PROVE  HostInv'
<1> USE DEF HostInv
<1>1. CASE Start(w, d)
  <2>0. start \in [Worker -> {"none", "steal", "open", "read", "ready"}]
    BY DEF TypeOK, WorkersType
  <2>1. Held'
    BY <1>1, <2>0 DEF Start, Held
  <2>2. Fresh'
    BY <1>1, FreshStays, PostOpen DEF Start, tab
  <2> QED
    BY <1>1, <2>1, <2>2, StartType, OrderStays DEF Start
<1>2. CASE Request(w, d)
  <2>1. Fresh'
    BY <1>2, FreshStays, PostOpen DEF Request, tab
  <2> QED
    BY <1>2, <2>1, RequestType, RequestOrder, HeldStays DEF Request
<1> QED
  BY <1>1, <1>2

\* The steps of a tab.
LEMMA TabKeeps ==
  ASSUME HostInv, NEW d \in Doc,
         \/ Receive(d) \/ Close(d)
         \/ \E w \in Worker : Load(d, w)
         \/ \E kind \in Kind : Ask(d, kind)
  PROVE  HostInv'
<1> USE DEF HostInv
<1>0. /\ doc \in [Doc -> [phase : Open \cup {"new", "stopped", "closed"}, at : Worker \cup {None}]]
      /\ down \in [Doc -> Seq(Message)] /\ calls \in [Doc -> Nat]
  BY DEF TypeOK, TabsType
<1>1. ASSUME NEW e \in Doc, doc'[e].phase # "new", \A f \in Doc : f # e => doc'[f] = doc[f] /\ calls'[f] = calls[f],
             \A f \in Doc : f # e => down'[f] = down[f]
      PROVE  Fresh'
  BY <1>1 DEF Fresh
<1>2. CASE Close(d)
  <2>1. Leave(d)
    BY <1>2 DEF Close
  <2>2. Fresh'
    BY <1>0, <1>1, <2>1 DEF Leave
  <2> QED
    BY <1>2, <2>1, <2>2, CloseType, OrderStays, HeldStays DEF Leave, worker
<1>3. ASSUME NEW w \in Worker, Load(d, w) PROVE HostInv'
  <2>1. Fresh'
    BY <1>0, <1>1, <1>3 DEF Load
  <2> QED
    BY <1>3, <2>1, LoadType, OrderStays, HeldStays DEF Load, worker
<1>4. ASSUME NEW kind \in Kind, Ask(d, kind) PROVE HostInv'
  <2>1. doc[d].phase = "ready" /\ UNCHANGED <<doc, down>> /\ calls' = [calls EXCEPT ![d] = @ + 1]
    BY <1>4 DEF Ask
  <2>2. Fresh'
    BY <1>0, <1>1, <2>1
  <2> QED
    BY <1>4, <2>2, AskType, OrderStays, HeldStays DEF Ask, worker
<1>5. ASSUME down[d] # <<>>, Read(d), UNCHANGED <<calls, worker, lock, broken>>, TypeOK',
             UNCHANGED doc \/ doc' = [doc EXCEPT ![d].phase = "ready"] \/ doc' = [doc EXCEPT ![d].phase = "failed"]
      PROVE  HostInv'
  <2>1. doc[d].phase # "new" /\ down' = [down EXCEPT ![d] = Tail(down[d])]
    BY <1>5 DEF Fresh, Read
  <2>2. Fresh'
    BY <1>0, <1>1, <1>5, <2>1
  <2> QED
    BY <1>5, <2>2, OrderStays, HeldStays DEF worker
<1>6. CASE ReceiveAnswer(d)
  BY <1>5, <1>6, ReceiveAnswerType DEF ReceiveAnswer, Heard
<1>7. CASE ReceiveStarted(d)
  BY <1>5, <1>7, ReceiveStartedType DEF ReceiveStarted, Heard
<1>8. CASE ReceiveChanged(d)
  BY <1>5, <1>8, ReceiveChangedType DEF ReceiveChanged, Heard
<1>9. CASE ReceiveReplaced(d)
  <2>1. /\ doc' = [doc EXCEPT ![d].phase = "closed"] \/ doc' = [doc EXCEPT ![d].phase = "stopped"]
        /\ down' = [down EXCEPT ![d] = <<>>]
        /\ UNCHANGED <<lock, worker, broken, calls>>
    BY <1>9 DEF ReceiveReplaced, Leave
  <2>2. Fresh'
    BY <1>0, <1>1, <2>1
  <2> QED
    BY <1>9, <2>1, <2>2, ReceiveReplacedType, OrderStays, HeldStays DEF worker
<1> QED
  BY <1>2, <1>3, <1>4, <1>6, <1>7, <1>8, <1>9 DEF Receive

LEMMA HostInitially == Init => HostInv
<1> SUFFICES ASSUME Init PROVE HostInv
  OBVIOUS
<1>1. WorkersType /\ Held
  BY DEF Init, WorkersType, Held
<1>2. RequestsType /\ InOrder
  <2>1. DOMAIN <<>> = {} /\ <<>> \in Seq(Nat) /\ Range(<<>>) = {} /\ Len(<<>>) = 0
    BY DEF Range
  <2> QED
    BY <2>1 DEF Init, RequestsType, InOrder, QueueInOrder
<1>3. TabsType /\ Fresh
  BY EmptySeq DEF Init, TabsType, Fresh
<1> QED
  BY <1>1, <1>2, <1>3 DEF HostInv, TypeOK

LEMMA HostAlways == HostInv /\ [Next]_vars => HostInv'
<1> SUFFICES ASSUME HostInv, [Next]_vars PROVE HostInv'
  OBVIOUS
<1>1. CASE UNCHANGED vars
  BY <1>1, WorkersStay, RequestsStay, TabsStay, OrderStays, HeldStays
  DEF vars, worker, tab, HostInv, TypeOK, Fresh
<1>2. CASE \E w \in Worker : Host(w) \/ StartFails(w)
  BY <1>2, HostKeeps
<1>3. CASE \E d \in Doc : Serve(d)
  BY <1>3, ServeKeeps DEF Serve
<1>4. CASE \E d \in Doc : \/ Receive(d) \/ Close(d)
                          \/ \E w \in Worker : Load(d, w)
                          \/ \E kind \in Kind : Ask(d, kind)
  BY <1>4, TabKeeps
<1> QED
  BY <1>1, <1>2, <1>3, <1>4 DEF Next

LEMMA HostInvariant == Spec => []HostInv
BY HostInitially, HostAlways, PTL DEF Spec

-----------------------------------------------------------------------------
(* RightAnswer: a request is in one place at a time, on its way, in flight *)
(* or answered, and leaves each for good.                                  *)

Has(q, type, id) == \E i \in 1..Len(q) : q[i].type = type /\ q[i].id = id
OnceEach(q, type) ==
  \A i, j \in 1..Len(q) : q[i].type = type /\ q[j].type = type /\ q[i].id = q[j].id => i = j
Named(q, d) == \A i \in 1..Len(q) : q[i].type = "answer" => q[i].of = <<d, q[i].id>>

Waits(d, id) == Has(up[d], "call", id)
Owned(d, id) == \E w \in Worker : \E n \in DOMAIN owners[w] : owners[w][n].doc = d /\ owners[w][n].id = id
Answered(d, id) == Has(down[d], "answer", id)

OnePlaceOf(d, id) ==
  /\ ~(Waits(d, id) /\ Owned(d, id)) /\ ~(Waits(d, id) /\ Answered(d, id))
  /\ ~(Owned(d, id) /\ Answered(d, id))
  /\ Waits(d, id) \/ Owned(d, id) \/ Answered(d, id) => id <= calls[d]
Ways(d) == OnceEach(up[d], "call") /\ OnceEach(down[d], "answer") /\ Named(down[d], d)
OwnedOnce ==
  \A v, w \in Worker : \A n \in DOMAIN owners[v], m \in DOMAIN owners[w] :
    owners[v][n].doc = owners[w][m].doc /\ owners[v][n].id = owners[w][m].id => v = w /\ n = m

AnswerInv ==
  /\ \A d \in Doc : Ways(d)
  /\ OwnedOnce
  /\ \A d \in Doc, id \in Id : OnePlaceOf(d, id)

LEMMA HasTail ==
  ASSUME NEW S, NEW q \in Seq(S), q # <<>>, NEW t
  PROVE  /\ \A id : Has(Tail(q), t, id) => Has(q, t, id)
         /\ OnceEach(q, t) => OnceEach(Tail(q), t)
         /\ OnceEach(q, t) /\ Head(q).type = t => ~Has(Tail(q), t, Head(q).id)
         /\ \A d : Named(q, d) => Named(Tail(q), d)
<1>1. /\ Len(Tail(q)) = Len(q) - 1 /\ Len(q) \in Nat /\ Len(q) >= 1
      /\ \A i \in 1..(Len(q) - 1) : Tail(q)[i] = q[i + 1] /\ i + 1 \in 1..Len(q) /\ i + 1 # 1
      /\ Head(q) = q[1] /\ 1 \in 1..Len(q)
  OBVIOUS
<1> DEFINE r == Tail(q)
<1> HIDE DEF r
<1>2. \A id : Has(r, t, id) => Has(q, t, id)
  BY <1>1 DEF Has, r
<1>3. OnceEach(q, t) => OnceEach(r, t)
  <2> SUFFICES ASSUME OnceEach(q, t), NEW i \in 1..(Len(q) - 1), NEW j \in 1..(Len(q) - 1),
                      q[i + 1].type = t, q[j + 1].type = t, q[i + 1].id = q[j + 1].id
               PROVE  i = j
    BY <1>1 DEF OnceEach, r
  <2>1. i + 1 \in 1..Len(q) /\ j + 1 \in 1..Len(q)
    BY <1>1
  <2>2. i + 1 = j + 1
    BY <2>1 DEF OnceEach
  <2> QED
    BY <2>2
<1>4. OnceEach(q, t) /\ Head(q).type = t => ~Has(r, t, Head(q).id)
  BY <1>1 DEF OnceEach, Has, r
<1>5. \A d : Named(q, d) => Named(r, d)
  BY <1>1 DEF Named, r
<1> QED
  BY <1>2, <1>3, <1>4, <1>5 DEF r

LEMMA HasAppend ==
  ASSUME NEW S, NEW q \in Seq(S), NEW m \in S, NEW t
  PROVE  /\ \A id : Has(Append(q, m), t, id) => Has(q, t, id) \/ (m.type = t /\ m.id = id)
         /\ OnceEach(q, t) /\ (m.type = t => ~Has(q, t, m.id)) => OnceEach(Append(q, m), t)
         /\ \A d : Named(q, d) /\ (m.type = "answer" => m.of = <<d, m.id>>) => Named(Append(q, m), d)
<1> DEFINE r == Append(q, m)
           l == Len(q) + 1
<1>1. /\ Len(r) = l /\ r[l] = m /\ Len(q) \in Nat
      /\ \A i \in 1..Len(q) : r[i] = q[i]
      /\ \A i \in 1..l : i = l \/ i \in 1..Len(q)
  OBVIOUS
<1> HIDE DEF r, l
<1>2. \A id : Has(r, t, id) => Has(q, t, id) \/ (m.type = t /\ m.id = id)
  BY <1>1 DEF Has
<1>3. OnceEach(q, t) /\ (m.type = t => ~Has(q, t, m.id)) => OnceEach(r, t)
  BY <1>1 DEF OnceEach, Has
<1>4. \A d : Named(q, d) /\ (m.type = "answer" => m.of = <<d, m.id>>) => Named(r, d)
  BY <1>1 DEF Named
<1> QED
  BY <1>2, <1>3, <1>4 DEF r

\* A tab hears nothing, or something that answers nothing.
NoMore(d) ==
  /\ \A id \in Id : Answered(d, id)' => Answered(d, id)
  /\ OnceEach(down[d], "answer") => OnceEach(down[d], "answer")'
  /\ Named(down[d], d) => Named(down[d], d)'

LEMMA SameHeard == ASSUME NEW d, down'[d] = down[d] PROVE NoMore(d)
BY DEF NoMore, Answered, Has, OnceEach, Named

LEMMA NothingHeard == ASSUME NEW d, down'[d] = <<>> PROVE NoMore(d)
<1>1. Len(<<>>) = 0
  OBVIOUS
<1> QED
  BY <1>1 DEF NoMore, Answered, Has, OnceEach, Named

LEMMA NewsHeard ==
  ASSUME TabsType, NEW d \in Doc, NEW m \in Message, m.type # "answer", down'[d] = Append(down[d], m)
  PROVE  NoMore(d)
<1>1. down[d] \in Seq(Message)
  BY DEF TabsType
<1> QED
  BY <1>1, HasAppend DEF NoMore, Answered

LEMMA OneRead ==
  ASSUME TabsType, NEW d \in Doc, down[d] # <<>>, down'[d] = Tail(down[d])
  PROVE  NoMore(d)
<1>1. down[d] \in Seq(Message)
  BY DEF TabsType
<1> QED
  BY <1>1, HasTail DEF NoMore, Answered

LEMMA PostNoMore ==
  ASSUME TabsType, NEW D, NEW m \in Message, m.type # "answer", down' = Post(D, m) \/ down' = down
  PROVE  \A d \in Doc : NoMore(d)
<1> SUFFICES ASSUME NEW d \in Doc PROVE NoMore(d)
  OBVIOUS
<1>1. down'[d] = down[d] \/ down'[d] = Append(down[d], m)
  BY DEF Post
<1> QED
  BY <1>1, SameHeard, NewsHeard

\* A tab asks nothing more.
NoAsk(d) ==
  /\ \A id \in Id : Waits(d, id)' => Waits(d, id)
  /\ OnceEach(up[d], "call") => OnceEach(up[d], "call")'

LEMMA SameAsked == ASSUME NEW d, up'[d] = up[d] PROVE NoAsk(d)
BY DEF NoAsk, Waits, Has, OnceEach

LEMMA OneTaken ==
  ASSUME TabsType, NEW d \in Doc, up[d] # <<>>, up'[d] = Tail(up[d])
  PROVE  NoAsk(d)
<1>1. up[d] \in Seq(Call \cup [type : {"start"}])
  BY DEF TabsType
<1> QED
  BY <1>1, HasTail DEF NoAsk, Waits

LEMMA OnlyStart ==
  ASSUME NEW d, up'[d] = <<[type |-> "start"]>>
  PROVE  NoAsk(d)
<1> DEFINE q == <<[type |-> "start"]>>
<1>1. Len(q) = 1 /\ q[1].type = "start"
  OBVIOUS
<1> HIDE DEF q
<1>2. \A i \in 1..Len(q) : q[i].type # "call"
  BY <1>1
<1>3. up'[d] = q
  BY DEF q
<1> QED
  BY <1>2, <1>3 DEF NoAsk, Waits, Has, OnceEach

LEMMA OwnedStays == ASSUME NEW d, NEW id, UNCHANGED owners PROVE Owned(d, id)' <=> Owned(d, id)
BY DEF Owned

\* A step with no request, and no answer, of its own.
LEMMA QuietKeeps ==
  ASSUME TabsType, AnswerInv, UNCHANGED <<owners, calls>>,
         \A d \in Doc : NoMore(d) /\ NoAsk(d)
  PROVE  AnswerInv'
<1>1. ASSUME NEW d \in Doc PROVE Ways(d)'
  BY DEF AnswerInv, Ways, NoMore, NoAsk
<1>2. OwnedOnce'
  BY DEF AnswerInv, OwnedOnce
<1>3. ASSUME NEW d \in Doc, NEW id \in Id PROVE OnePlaceOf(d, id)'
  <2>1. /\ Waits(d, id)' => Waits(d, id)
        /\ Answered(d, id)' => Answered(d, id)
        /\ Owned(d, id)' => Owned(d, id)
    BY OwnedStays DEF NoMore, NoAsk
  <2>2. OnePlaceOf(d, id)
    BY DEF AnswerInv
  <2> QED
    BY <2>1, <2>2 DEF OnePlaceOf
<1> QED
  BY <1>1, <1>2, <1>3 DEF AnswerInv

LEMMA HostQuiet ==
  ASSUME TypeOK, AnswerInv, NEW w \in Worker,
         \/ Steal(w) \/ Retire(w) \/ OpenStorage(w) \/ StartFails(w) \/ CreateEngine(w) \/ Run(w)
  PROVE  AnswerInv'
<1>0. TabsType
  BY DEF TypeOK
<1>1. UNCHANGED <<owners, calls>> /\ UNCHANGED up
  BY DEF Steal, Retire, OpenStorage, StartFails, CreateEngine, Run, tab
<1>2. \/ down' = down
      \/ down' = Post(Ports(w), [type |-> "replaced"])
      \/ down' = Post(waiting[w], [type |-> "failed"])
      \/ down' = Post(waiting[w], [type |-> Outcome(w)])
  BY DEF Steal, Retire, OpenStorage, StartFails, CreateEngine, Run
<1>3. [type |-> Outcome(w)].type # "answer" /\ [type |-> "failed"].type # "answer"
      /\ [type |-> "replaced"].type # "answer"
  BY DEF Outcome
<1>4. \A d \in Doc : NoMore(d)
  BY <1>0, <1>2, <1>3, PlainMessages, PostNoMore
<1> QED
  BY <1>0, <1>1, <1>4, SameAsked, QuietKeeps

LEMMA StartQuiet ==
  ASSUME TypeOK, AnswerInv, NEW w \in Worker, NEW d \in Doc, Start(w, d)
  PROVE  AnswerInv'
<1>0. TabsType
  BY DEF TypeOK
<1>1. /\ UNCHANGED <<owners, calls>> /\ up[d] # <<>> /\ up' = [up EXCEPT ![d] = Tail(up[d])]
      /\ down' = down \/ down' = Post({d}, [type |-> Outcome(w)])
  BY DEF Start, Received, tab
<1>2. \A e \in Doc : NoMore(e)
  <2>1. [type |-> Outcome(w)].type # "answer"
    BY DEF Outcome
  <2> QED
    BY <1>0, <1>1, <2>1, PlainMessages, PostNoMore
<1>3. ASSUME NEW e \in Doc PROVE NoAsk(e)
  <2>1. up'[d] = Tail(up[d]) /\ (e # d => up'[e] = up[e])
    BY <1>0, <1>1 DEF TabsType
  <2> QED
    BY <1>0, <1>1, <2>1, SameAsked, OneTaken
<1> QED
  BY <1>0, <1>1, <1>2, <1>3, QuietKeeps

LEMMA TabQuiet ==
  ASSUME TypeOK, AnswerInv, NEW d \in Doc,
         Receive(d) \/ Close(d) \/ \E w \in Worker : Load(d, w)
  PROVE  AnswerInv'
<1>0. TabsType
  BY DEF TypeOK
<1>1. ASSUME UNCHANGED owners, UNCHANGED calls, UNCHANGED up,
             \/ down[d] # <<>> /\ down' = [down EXCEPT ![d] = Tail(down[d])]
             \/ down' = [down EXCEPT ![d] = <<>>]
      PROVE  AnswerInv'
  <2>1. ASSUME NEW e \in Doc PROVE NoMore(e) /\ NoAsk(e)
    <3>1. CASE e # d
      <4>1. down'[e] = down[e]
        BY <1>0, <1>1, <3>1 DEF TabsType
      <4> QED
        BY <1>1, <4>1, SameHeard, SameAsked
    <3>2. CASE e = d
      <4>1. (down[d] # <<>> /\ down'[d] = Tail(down[d])) \/ down'[d] = <<>>
        BY <1>0, <1>1 DEF TabsType
      <4> QED
        BY <1>0, <1>1, <3>2, <4>1, NothingHeard, OneRead, SameAsked
    <3> QED
      BY <3>1, <3>2
  <2> QED
    BY <1>0, <1>1, <2>1, QuietKeeps
<1>2. CASE Receive(d) \/ Close(d)
  <2>1. UNCHANGED owners /\ UNCHANGED calls /\ UNCHANGED up
    BY <1>2 DEF Receive, ReceiveAnswer, ReceiveStarted, ReceiveChanged, ReceiveReplaced, Close, Leave, worker
  <2>2. \/ down[d] # <<>> /\ down' = [down EXCEPT ![d] = Tail(down[d])]
        \/ down' = [down EXCEPT ![d] = <<>>]
    BY <1>2 DEF Receive, ReceiveAnswer, ReceiveStarted, ReceiveChanged, ReceiveReplaced, Close, Leave, Heard, Read
  <2> QED
    BY <1>1, <2>1, <2>2
<1>3. ASSUME NEW w \in Worker, Load(d, w) PROVE AnswerInv'
  <2>1. /\ UNCHANGED <<owners, calls>> /\ UNCHANGED down
        /\ up' = [up EXCEPT ![d] = <<[type |-> "start"]>>]
    BY <1>3 DEF Load, worker
  <2>2. ASSUME NEW e \in Doc PROVE NoMore(e) /\ NoAsk(e)
    <3>1. up'[d] = <<[type |-> "start"]>> /\ (e # d => up'[e] = up[e])
      BY <1>0, <2>1 DEF TabsType
    <3> QED
      BY <2>1, <3>1, SameHeard, SameAsked, OnlyStart
  <2> QED
    BY <1>0, <2>1, <2>2, QuietKeeps
<1> QED
  BY <1>2, <1>3

\* A request made: its number is a new one.
LEMMA AskOnce ==
  ASSUME TypeOK, AnswerInv, NEW d \in Doc, NEW kind \in Kind, Ask(d, kind)
  PROVE  AnswerInv'
<1> SUFFICES ASSUME NEW id, id = calls[d] + 1 PROVE AnswerInv'
  OBVIOUS
<1> DEFINE m == [type |-> "call", id |-> id, kind |-> kind]
<1>0. TabsType
  BY DEF TypeOK
<1>1. /\ calls' = [calls EXCEPT ![d] = id] /\ up' = [up EXCEPT ![d] = Append(up[d], m)]
      /\ UNCHANGED owners /\ UNCHANGED down
  BY DEF Ask, worker
<1>2. /\ calls[d] \in Nat /\ id = calls[d] + 1 /\ m \in Call \cup [type : {"start"}]
      /\ m.type = "call" /\ m.id = id /\ id \in Id
  BY <1>0 DEF TabsType, Call, Id
<1> HIDE DEF m
<1>3. /\ up'[d] = Append(up[d], m) /\ calls'[d] = id
      /\ \A e \in Doc : e # d => up'[e] = up[e] /\ calls'[e] = calls[e]
  BY <1>0, <1>1 DEF TabsType
<1>4. /\ \A i : Has(Append(up[d], m), "call", i) => Has(up[d], "call", i) \/ i = id
      /\ OnceEach(up[d], "call") /\ ~Has(up[d], "call", id) => OnceEach(Append(up[d], m), "call")
  <2> DEFINE S == Call \cup [type : {"start"}]
  <2>1. up[d] \in Seq(S) /\ m \in S
    BY <1>0, <1>2 DEF TabsType
  <2> HIDE DEF S
  <2>2. /\ \A i : Has(Append(up[d], m), "call", i) => Has(up[d], "call", i) \/ (m.type = "call" /\ m.id = i)
        /\ OnceEach(up[d], "call") /\ (m.type = "call" => ~Has(up[d], "call", m.id))
             => OnceEach(Append(up[d], m), "call")
    BY <2>1, HasAppend
  <2> QED
    BY <1>2, <2>2
<1>5. ~Waits(d, id) /\ ~Owned(d, id) /\ ~Answered(d, id)
  BY <1>2 DEF AnswerInv, OnePlaceOf
<1>6. ASSUME NEW e \in Doc PROVE Ways(e)'
  <2>1. Ways(e) /\ Ways(d)
    BY DEF AnswerInv
  <2>2. CASE e # d
    BY <1>1, <1>3, <2>1, <2>2 DEF Ways
  <2>3. CASE e = d
    BY <1>1, <1>3, <1>4, <1>5, <2>1, <2>3 DEF Ways, Waits
  <2> QED
    BY <2>2, <2>3
<1>7. OwnedOnce'
  BY <1>1 DEF AnswerInv, OwnedOnce
<1>8. ASSUME NEW e \in Doc, NEW i \in Id PROVE OnePlaceOf(e, i)'
  <2>0. OnePlaceOf(e, i) /\ calls[e] \in Nat /\ i \in Nat
    BY <1>0 DEF AnswerInv, TabsType, Id
  <2>1. (Owned(e, i)' <=> Owned(e, i)) /\ (Answered(e, i)' <=> Answered(e, i))
    BY <1>1 DEF Owned, Answered
  <2>2. CASE e # d
    BY <1>3, <2>0, <2>1, <2>2 DEF OnePlaceOf, Waits
  <2>3. CASE e = d /\ i # id
    <3>1. Waits(e, i)' => Waits(e, i)
      BY <1>3, <1>4, <2>3 DEF Waits
    <3> QED
      BY <1>2, <1>3, <2>0, <2>1, <2>3, <3>1 DEF OnePlaceOf
  <2>4. CASE e = d /\ i = id
    BY <1>2, <1>3, <1>5, <2>1, <2>4 DEF OnePlaceOf
  <2> QED
    BY <2>2, <2>3, <2>4
<1> QED
  BY <1>6, <1>7, <1>8 DEF AnswerInv

\* A request reaches its worker: in flight there, or refused at once.
LEMMA RequestOnce ==
  ASSUME TypeOK, AnswerInv, NEW w \in Worker, NEW d \in Doc, Request(w, d)
  PROVE  AnswerInv'
<1> SUFFICES ASSUME NEW id, id = Head(up[d]).id PROVE AnswerInv'
  OBVIOUS
<1>0. RequestEffect(w, d) /\ TabsType /\ RequestsType
  BY RequestParts DEF TypeOK
<1>1. /\ up[d] # <<>> /\ up' = [up EXCEPT ![d] = Tail(up[d])] /\ UNCHANGED calls
      /\ Head(up[d]) \in Call /\ Head(up[d]).type = "call"
  BY <1>0 DEF RequestEffect, Received
<1>2. id \in Id
  BY <1>1 DEF Call
<1>3. up[d] \in Seq(Call \cup [type : {"start"}]) /\ up'[d] = Tail(up[d])
      /\ \A e \in Doc : e # d => up'[e] = up[e]
  BY <1>0, <1>1 DEF TabsType
<1>4. Waits(d, id)
  BY <1>1, <1>3 DEF Waits, Has
<1>5. ~Owned(d, id) /\ ~Answered(d, id) /\ id <= calls[d]
  BY <1>2, <1>4 DEF AnswerInv, OnePlaceOf
<1>6. ~Waits(d, id)' /\ \A e \in Doc : NoAsk(e)
  <2>1. NoAsk(d)
    BY <1>0, <1>1, <1>3, OneTaken
  <2>2. OnceEach(up[d], "call")
    BY DEF AnswerInv, Ways
  <2>3. ~Has(Tail(up[d]), "call", id)
    BY <1>1, <1>3, <2>2, HasTail
  <2> QED
    BY <1>3, <2>1, <2>3, SameAsked DEF Waits
<1>7. CASE w \in retired
  <2> DEFINE m == [type |-> "answer", id |-> Head(up[d]).id, of |-> <<d, Head(up[d]).id>>,
                   kind |-> Head(up[d]).kind, error |-> TRUE]
  <2>1. UNCHANGED owners /\ down' = Post({d}, m)
    BY <1>0, <1>7 DEF RequestEffect
  <2>2. m \in Message /\ m.id = id /\ m.of = <<d, m.id>> /\ m.type = "answer"
    BY <1>1 DEF Message, Call, Change
  <2> HIDE DEF m
  <2>3. /\ \A e \in Doc : e # d => down'[e] = down[e]
        /\ down'[d] = down[d] \/ down'[d] = Append(down[d], m)
    BY <2>1 DEF Post
  <2>4. down[d] \in Seq(Message)
    BY <1>0 DEF TabsType
  <2>5. /\ \A i : Has(Append(down[d], m), "answer", i) => Has(down[d], "answer", i) \/ i = id
        /\ OnceEach(down[d], "answer") /\ ~Has(down[d], "answer", id) => OnceEach(Append(down[d], m), "answer")
        /\ Named(down[d], d) => Named(Append(down[d], m), d)
    BY <2>2, <2>4, HasAppend
  <2>6. ASSUME NEW e \in Doc PROVE Ways(e)'
    <3>1. Ways(e) /\ Ways(d)
      BY DEF AnswerInv
    <3>2. OnceEach(up[e], "call")'
      BY <1>6, <3>1 DEF Ways, NoAsk
    <3>3. CASE down'[e] = down[e]
      BY <3>1, <3>2, <3>3 DEF Ways, OnceEach, Named
    <3>4. CASE e = d /\ down'[d] = Append(down[d], m)
      BY <1>5, <2>5, <3>1, <3>2, <3>4 DEF Ways, Answered
    <3> QED
      BY <2>3, <3>3, <3>4
  <2>7. OwnedOnce'
    BY <2>1 DEF AnswerInv, OwnedOnce
  <2>8. ASSUME NEW e \in Doc, NEW i \in Id PROVE OnePlaceOf(e, i)'
    <3>1. OnePlaceOf(e, i) /\ (Owned(e, i)' <=> Owned(e, i)) /\ (Waits(e, i)' => Waits(e, i))
      BY <1>6, <2>1, OwnedStays DEF AnswerInv, NoAsk
    <3>2. CASE e = d /\ i = id
      BY <1>1, <1>5, <1>6, <3>1, <3>2 DEF OnePlaceOf
    <3>3. CASE ~(e = d /\ i = id)
      <4>1. Answered(e, i)' => Answered(e, i)
        BY <2>3, <2>5, <3>3 DEF Answered
      <4> QED
        BY <1>1, <3>1, <4>1 DEF OnePlaceOf
    <3> QED
      BY <3>2, <3>3
  <2> QED
    BY <2>6, <2>7, <2>8 DEF AnswerInv
<1>8. CASE w \notin retired
  <2> DEFINE n == NextNumber(w)
             r == RequestOf(w, d)
  <2>1. owners' = [owners EXCEPT ![w] = NowOwned(w, n, r)] /\ UNCHANGED down
    BY <1>0, <1>8 DEF RequestEffect
  <2>2. n \notin DOMAIN owners[w] /\ r.doc = d /\ r.id = id
    <3>1. sequence[w] \in Nat /\ DOMAIN owners[w] \subseteq 1..sequence[w]
      BY <1>0 DEF RequestsType
    <3> QED
      BY <3>1 DEF NextNumber, RequestOf
  <2> HIDE DEF n, r
  <2>3. /\ DOMAIN owners'[w] = DOMAIN owners[w] \cup {n} /\ owners'[w][n] = r
        /\ \A k \in DOMAIN owners[w] : owners'[w][k] = owners[w][k]
        /\ \A v \in Worker : v # w => owners'[v] = owners[v]
    <3>1. /\ DOMAIN NowOwned(w, n, r) = DOMAIN owners[w] \cup {n} /\ NowOwned(w, n, r)[n] = r
          /\ \A k \in DOMAIN owners[w] : NowOwned(w, n, r)[k] = owners[w][k]
      BY <2>2 DEF NowOwned
    <3> QED
      BY <1>0, <2>1, <3>1 DEF RequestsType
  <2>4. \A e, i : Owned(e, i)' => Owned(e, i) \/ (e = d /\ i = id)
    BY <2>2, <2>3 DEF Owned
  <2>5. OwnedOnce'
    <3> SUFFICES ASSUME NEW u \in Worker, NEW v \in Worker, NEW k \in DOMAIN owners'[u], NEW l \in DOMAIN owners'[v],
                        owners'[u][k].doc = owners'[v][l].doc, owners'[u][k].id = owners'[v][l].id
                 PROVE  u = v /\ k = l
      BY DEF OwnedOnce
    <3>1. \A x \in Worker : \A y \in DOMAIN owners'[x] :
            \/ x = w /\ y = n
            \/ y \in DOMAIN owners[x] /\ owners'[x][y] = owners[x][y]
               /\ ~(owners[x][y].doc = d /\ owners[x][y].id = id)
      BY <1>5, <2>3 DEF Owned
    <3>2. \A x, z \in Worker : \A y \in DOMAIN owners[x], t \in DOMAIN owners[z] :
            owners[x][y].doc = owners[z][t].doc /\ owners[x][y].id = owners[z][t].id => x = z /\ y = t
      BY DEF AnswerInv, OwnedOnce
    <3> QED
      BY <2>2, <2>3, <3>1, <3>2
  <2>6. ASSUME NEW e \in Doc PROVE Ways(e)'
    BY <1>6, <2>1 DEF AnswerInv, Ways, NoAsk, OnceEach, Named
  <2>7. ASSUME NEW e \in Doc, NEW i \in Id PROVE OnePlaceOf(e, i)'
    <3>1. OnePlaceOf(e, i) /\ (Answered(e, i)' <=> Answered(e, i)) /\ (Waits(e, i)' => Waits(e, i))
      BY <1>6, <2>1 DEF AnswerInv, NoAsk, Answered
    <3>2. CASE e = d /\ i = id
      BY <1>1, <1>5, <1>6, <3>1, <3>2 DEF OnePlaceOf
    <3>3. CASE ~(e = d /\ i = id)
      BY <1>1, <2>4, <3>1, <3>3 DEF OnePlaceOf
    <3> QED
      BY <3>2, <3>3
  <2> QED
    BY <2>5, <2>6, <2>7 DEF AnswerInv
<1> QED
  BY <1>7, <1>8

\* What a worker's answer makes of what each tab hears.
LEMMA RouteHeard ==
  ASSUME TypeOK, NEW w \in Worker, NEW n \in DOMAIN owners[w], Route(w, n), NEW d \in Doc
  PROVE  LET o == owners[w][n]
         IN \/ down'[d] = down[d]
            \/ down'[d] = Append(down[d], [type |-> "changed", of |-> <<o.doc, o.id>>])
            \/ d = o.doc /\ d \in Ports(w) /\ down'[d] = Append(down[d], AnswerOf(o, n))
<1> DEFINE o == owners[w][n]
           others == IF o.kind = "change" THEN Others(w, o) ELSE {}
           a == AnswerOf(o, n)
           c == [type |-> "changed", of |-> <<o.doc, o.id>>]
<1>1. down' = [e \in Doc |->
          CASE e = o.doc /\ e \in Ports(w) -> Append(down[e], a)
            [] e \in others -> Append(down[e], c)
            [] OTHER -> down[e]]
  BY DEF Route
<1> HIDE DEF a, c, others
<1> DEFINE mine == d = o.doc /\ d \in Ports(w)
<1>2. down'[d] = CASE mine -> Append(down[d], a)
                   [] d \in others -> Append(down[d], c)
                   [] OTHER -> down[d]
  BY <1>1
<1> HIDE DEF mine
<1>3. \/ down'[d] = down[d]
      \/ down'[d] = Append(down[d], c)
      \/ mine /\ down'[d] = Append(down[d], a)
  BY <1>2
<1> QED
  BY <1>3 DEF a, c, mine

\* A request answered is no longer in flight.
LEMMA RouteOnce ==
  ASSUME TypeOK, AnswerInv, NEW w \in Worker, NEW n \in DOMAIN owners[w], Route(w, n), UNCHANGED <<up, calls>>
  PROVE  AnswerInv'
<1> SUFFICES ASSUME NEW o, o = owners[w][n] PROVE AnswerInv'
  OBVIOUS
<1> DEFINE a == AnswerOf(o, n)
           c == [type |-> "changed", of |-> <<o.doc, o.id>>]
<1>0. TabsType /\ RequestsType /\ o \in Owner
  BY DEF TypeOK, RequestsType
<1>1. /\ o.doc \in Doc /\ o.id \in Id
      /\ a \in Message /\ a.type = "answer" /\ a.id = o.id /\ a.of = <<o.doc, a.id>>
      /\ c \in Message /\ c.type # "answer"
  BY <1>0 DEF AnswerOf, Message, Owner, Change
<1> HIDE DEF a, c
<1>2. ASSUME NEW d \in Doc
      PROVE  down'[d] = down[d] \/ down'[d] = Append(down[d], c) \/ (d = o.doc /\ down'[d] = Append(down[d], a))
  BY RouteHeard DEF a, c
<1>3. Owned(o.doc, o.id)
  BY DEF Owned
<1>4. ~Waits(o.doc, o.id) /\ ~Answered(o.doc, o.id) /\ o.id <= calls[o.doc]
  BY <1>1, <1>3 DEF AnswerInv, OnePlaceOf
<1>5. /\ DOMAIN owners'[w] = DOMAIN owners[w] \ {n}
      /\ \A k \in DOMAIN owners[w] \ {n} : owners'[w][k] = owners[w][k]
      /\ \A v \in Worker : v # w => owners'[v] = owners[v]
  <2>1. owners' = [owners EXCEPT ![w] = StillOwned(w, n)]
    BY DEF Route
  <2>2. /\ DOMAIN StillOwned(w, n) = DOMAIN owners[w] \ {n}
        /\ \A k \in DOMAIN owners[w] \ {n} : StillOwned(w, n)[k] = owners[w][k]
    BY DEF StillOwned
  <2> QED
    BY <1>0, <2>1, <2>2 DEF RequestsType
<1>6. \A v \in Worker : \A k \in DOMAIN owners'[v] :
        /\ k \in DOMAIN owners[v] /\ owners'[v][k] = owners[v][k]
        /\ ~(v = w /\ k = n)
  BY <1>5
<1>7. OwnedOnce'
  <2> SUFFICES ASSUME NEW u \in Worker, NEW v \in Worker, NEW k \in DOMAIN owners'[u], NEW l \in DOMAIN owners'[v],
                      owners'[u][k].doc = owners'[v][l].doc, owners'[u][k].id = owners'[v][l].id
               PROVE  u = v /\ k = l
    BY DEF OwnedOnce
  <2> QED
    BY <1>6 DEF AnswerInv, OwnedOnce
<1>8. \A e, i : Owned(e, i)' => Owned(e, i) /\ ~(e = o.doc /\ i = o.id)
  <2> SUFFICES ASSUME NEW e, NEW i, NEW v \in Worker, NEW k \in DOMAIN owners'[v],
                      owners'[v][k].doc = e, owners'[v][k].id = i
               PROVE  Owned(e, i) /\ ~(e = o.doc /\ i = o.id)
    BY DEF Owned
  <2>1. k \in DOMAIN owners[v] /\ owners'[v][k] = owners[v][k] /\ ~(v = w /\ k = n)
    BY <1>6
  <2>2. ~(owners[v][k].doc = owners[w][n].doc /\ owners[v][k].id = owners[w][n].id)
    BY <2>1 DEF AnswerInv, OwnedOnce
  <2> QED
    BY <2>1, <2>2 DEF Owned
<1>9. ASSUME NEW d \in Doc
      PROVE  /\ \A i : Has(down'[d], "answer", i) => Has(down[d], "answer", i) \/ (d = o.doc /\ i = o.id)
             /\ OnceEach(down'[d], "answer") /\ Named(down'[d], d)
  <2>0. OnceEach(down[d], "answer") /\ Named(down[d], d) /\ down[d] \in Seq(Message)
    BY <1>0 DEF AnswerInv, Ways, TabsType
  <2>1. CASE down'[d] = down[d]
    BY <2>0, <2>1
  <2>2. CASE down'[d] = Append(down[d], c)
    BY <1>1, <2>0, <2>2, HasAppend
  <2>3. CASE d = o.doc /\ down'[d] = Append(down[d], a)
    <3>1. ~Has(down[d], "answer", o.id)
      BY <1>4, <2>3 DEF Answered
    <3> QED
      BY <1>1, <2>0, <2>3, <3>1, HasAppend
  <2> QED
    BY <1>2, <2>1, <2>2, <2>3
<1>10. ASSUME NEW d \in Doc PROVE Ways(d)'
  BY <1>9 DEF AnswerInv, Ways
<1>11. ASSUME NEW d \in Doc, NEW i \in Id PROVE OnePlaceOf(d, i)'
  <2>1. OnePlaceOf(d, i) /\ (Waits(d, i)' <=> Waits(d, i)) /\ UNCHANGED calls
    BY DEF AnswerInv, Waits
  <2>2. CASE d = o.doc /\ i = o.id
    BY <1>4, <1>8, <2>1, <2>2 DEF OnePlaceOf
  <2>3. CASE ~(d = o.doc /\ i = o.id)
    <3>1. Answered(d, i)' => Answered(d, i)
      BY <1>9, <2>3 DEF Answered
    <3> QED
      BY <1>8, <2>1, <2>3, <3>1 DEF OnePlaceOf
  <2> QED
    BY <2>2, <2>3
<1> QED
  BY <1>7, <1>10, <1>11 DEF AnswerInv

LEMMA AnswerOnce ==
  ASSUME TypeOK, AnswerInv, NEW w \in Worker, Answer(w) \/ AnswerSearch(w)
  PROVE  AnswerInv'
<1>1. CASE Answer(w)
  <2>1. queue[w] # <<>> /\ queue[w] \in Seq(Nat) /\ Range(queue[w]) \subseteq DOMAIN owners[w]
    BY <1>1 DEF Answer, TypeOK, RequestsType
  <2>2. Head(queue[w]) \in DOMAIN owners[w]
    BY <2>1 DEF Range
  <2> QED
    BY <1>1, <2>2, RouteOnce DEF Answer, tab
<1>2. CASE AnswerSearch(w)
  <2>1. PICK n \in searches[w] : Route(w, n)
    BY <1>2 DEF AnswerSearch
  <2>2. n \in DOMAIN owners[w]
    BY DEF TypeOK, RequestsType
  <2> QED
    BY <1>2, <2>1, <2>2, RouteOnce DEF AnswerSearch, tab
<1> QED
  BY <1>1, <1>2

LEMMA AnswerInitially == Init => AnswerInv
<1> SUFFICES ASSUME Init PROVE AnswerInv
  OBVIOUS
<1>1. Len(<<>>) = 0 /\ DOMAIN <<>> = {}
  OBVIOUS
<1>2. \A d \in Doc : Ways(d)
  BY <1>1 DEF Init, Ways, OnceEach, Named
<1>3. \A d \in Doc, id \in Id : ~Waits(d, id) /\ ~Owned(d, id) /\ ~Answered(d, id)
  BY <1>1 DEF Init, Waits, Owned, Answered, Has
<1>4. OwnedOnce
  BY <1>1 DEF Init, OwnedOnce
<1> QED
  BY <1>2, <1>3, <1>4 DEF AnswerInv, OnePlaceOf

LEMMA AnswerAlways == TypeOK /\ AnswerInv /\ [Next]_vars => AnswerInv'
<1> SUFFICES ASSUME TypeOK, AnswerInv, [Next]_vars PROVE AnswerInv'
  OBVIOUS
<1>1. CASE UNCHANGED vars
  <2>1. UNCHANGED <<owners, calls>> /\ UNCHANGED up /\ UNCHANGED down
    BY <1>1 DEF vars, worker, tab
  <2> QED
    BY <2>1, SameHeard, SameAsked, QuietKeeps DEF TypeOK
<1>2. CASE \E w \in Worker : Host(w) \/ StartFails(w)
  BY <1>2, HostQuiet, AnswerOnce DEF Host
<1>3. CASE \E d \in Doc : Serve(d)
  BY <1>3, StartQuiet, RequestOnce DEF Serve
<1>4. CASE \E d \in Doc : \/ Receive(d) \/ Close(d)
                          \/ \E w \in Worker : Load(d, w)
                          \/ \E kind \in Kind : Ask(d, kind)
  BY <1>4, TabQuiet, AskOnce
<1> QED
  BY <1>1, <1>2, <1>3, <1>4 DEF Next

LEMMA AnswerInvariant == Spec => []AnswerInv
<1>1. HostInv => TypeOK
  BY DEF HostInv
<1> QED
  BY <1>1, HostInvariant, AnswerInitially, AnswerAlways, PTL DEF Spec

\* The workers have one engine between them, and an answer reaches the tab that asked,
\* under the number it gave, and once: route() finds in `owners` who asked, and tabs
\* that number their requests alike are not taken for each other.
THEOREM AlwaysOneServes == Spec => []OneServes
<1>1. ASSUME HostInv, AnswerInv PROVE OneServes
  <2>1. TypeOK /\ OneEngine
    BY <1>1 DEF HostInv, Held, OneEngine, Engine
  <2>2. RightAnswer
    <3> SUFFICES ASSUME NEW d \in Doc, NEW i \in DOMAIN down[d], down[d][i].type = "answer"
                 PROVE  /\ down[d][i].of = <<d, down[d][i].id>>
                        /\ \A j \in DOMAIN down[d] :
                             down[d][j].type = "answer" /\ down[d][j].id = down[d][i].id => j = i
      BY DEF RightAnswer
    <3>1. OnceEach(down[d], "answer") /\ Named(down[d], d)
      BY <1>1 DEF AnswerInv, Ways
    <3>2. DOMAIN down[d] = 1..Len(down[d])
      BY <2>1 DEF TypeOK, TabsType
    <3> QED
      BY <3>1, <3>2 DEF OnceEach, Named
  <2> QED
    BY <2>1, <2>2 DEF OneServes
<1> QED
  BY <1>1, HostInvariant, AnswerInvariant, PTL

-----------------------------------------------------------------------------
(* The workspace: one engine has read it and may write it, and what it      *)
(* keeps in memory is what the device has.                                  *)

Alive(w) == start[w] \in {"read", "ready"} /\ w \notin retired

OneAlive == \A v, w \in Worker : Alive(v) /\ Alive(w) => v = w
MemoryTrue == \A w \in Worker : Alive(w) => mem[w] = disk
ServeReady == \A w \in Worker : queue[w] # <<>> => start[w] = "ready"
WorkspaceInv == OneAlive /\ MemoryTrue /\ ServeReady

\* The device forgets nothing, and an engine replaced stays so.
Grows == disk \subseteq disk' /\ retired \subseteq retired'

LEMMA WorkspaceStays ==
  ASSUME WorkspaceInv, UNCHANGED <<start, mem, disk, queue>>, retired \subseteq retired'
  PROVE  WorkspaceInv' /\ Grows
BY DEF WorkspaceInv, OneAlive, MemoryTrue, ServeReady, Alive, Grows

LEMMA WorkspaceHost ==
  ASSUME Prompt, HostInv, WorkspaceInv, NEW w \in Worker, Host(w) \/ StartFails(w)
  PROVE  WorkspaceInv' /\ Grows
<1>0. /\ WorkersType /\ RequestsType /\ Held
      /\ start \in [Worker -> {"none", "steal", "open", "read", "ready"}] /\ mem \in [Worker -> SUBSET Change]
      /\ queue \in [Worker -> Seq(Nat)]
  BY DEF HostInv, TypeOK, WorkersType, RequestsType
<1>1. CASE Steal(w) \/ StartFails(w) \/ CreateEngine(w)
  BY <1>0, <1>1 DEF Steal, StartFails, CreateEngine, WorkspaceInv, OneAlive, MemoryTrue, ServeReady, Alive, Grows
<1>2. CASE Retire(w)
  BY <1>2, WorkspaceStays DEF Retire
<1>3. CASE OpenStorage(w)
  <2>0. /\ start[w] = "open" /\ broken = {} /\ start' = [start EXCEPT ![w] = "read"]
        /\ mem' = [mem EXCEPT ![w] = disk] /\ UNCHANGED <<disk, retired, queue>>
    BY <1>3 DEF OpenStorage
  <2>1. \A v \in Worker : v # w => (Alive(v)' <=> Alive(v))
    BY <1>0, <2>0 DEF Alive
  <2>2. \A v \in Worker : Alive(v) => v = lock
    BY <2>0, <1>0 DEF Held, Alive
  <2>3. Alive(w)' => w = lock
    BY <1>0, <2>0 DEF Held, Alive
  <2>4. OneAlive'
    BY <2>1, <2>2, <2>3 DEF OneAlive
  <2>5. MemoryTrue'
    BY <1>0, <2>0, <2>1 DEF WorkspaceInv, MemoryTrue
  <2>6. ServeReady'
    BY <1>0, <2>0 DEF WorkspaceInv, ServeReady
  <2> QED
    BY <2>0, <2>4, <2>5, <2>6 DEF WorkspaceInv, Grows
<1>4. CASE Run(w)
  <2>0. /\ queue[w] # <<>> /\ UNCHANGED <<start, retired, queue>>
        /\ \E c : mem' = [mem EXCEPT ![w] = mem[w] \cup {c}]
        /\ disk' = IF w \in retired THEN disk ELSE mem'[w]
    BY <1>4 DEF Run, Frozen
  <2>1. \A v \in Worker : Alive(v)' <=> Alive(v)
    BY <2>0 DEF Alive
  <2>2. OneAlive' /\ ServeReady'
    BY <2>0, <2>1 DEF WorkspaceInv, OneAlive, ServeReady
  <2>3. \A v \in Worker : v # w => mem'[v] = mem[v]
    BY <1>0, <2>0
  <2>4. CASE w \in retired
    BY <2>0, <2>1, <2>2, <2>3, <2>4 DEF WorkspaceInv, MemoryTrue, Grows, Alive
  <2>5. CASE w \notin retired
    <3>1. Alive(w)
      BY <2>0, <2>5 DEF WorkspaceInv, ServeReady, Alive
    <3>2. disk \subseteq disk'
      BY <1>0, <2>0, <2>5, <3>1 DEF WorkspaceInv, MemoryTrue
    <3>3. MemoryTrue'
      BY <2>0, <2>1, <2>5, <3>1 DEF WorkspaceInv, OneAlive, MemoryTrue
    <3> QED
      BY <2>0, <2>2, <3>2, <3>3 DEF WorkspaceInv, Grows
  <2> QED
    BY <2>4, <2>5
<1>5. CASE Answer(w) \/ AnswerSearch(w)
  <2>1. /\ UNCHANGED <<start, mem, disk, retired>>
        /\ \A v \in Worker : queue'[v] # <<>> => queue[v] # <<>>
    <3>1. CASE Answer(w)
      <4>1. ran[w] => queue[w] # <<>>
        BY <1>0 DEF RequestsType
      <4> QED
        BY <1>0, <3>1, <4>1 DEF Answer
    <3>2. CASE AnswerSearch(w)
      BY <3>2 DEF AnswerSearch
    <3> QED
      BY <1>5, <3>1, <3>2 DEF Answer, AnswerSearch
  <2> QED
    BY <2>1 DEF WorkspaceInv, OneAlive, MemoryTrue, ServeReady, Alive, Grows
<1> QED
  BY <1>1, <1>2, <1>3, <1>4, <1>5 DEF Host

LEMMA WorkspaceServe ==
  ASSUME HostInv, WorkspaceInv, NEW w \in Worker, NEW d \in Doc, Start(w, d) \/ Request(w, d)
  PROVE  WorkspaceInv' /\ Grows
<1>0. /\ start \in [Worker -> {"none", "steal", "open", "read", "ready"}] /\ queue \in [Worker -> Seq(Nat)]
  BY DEF HostInv, TypeOK, WorkersType, RequestsType
<1>1. CASE Start(w, d)
  <2>1. /\ UNCHANGED <<mem, disk, retired, queue>>
        /\ \A v \in Worker : start'[v] = start[v] \/ (start[v] = "none" /\ start'[v] = "steal")
    BY <1>0, <1>1 DEF Start
  <2> QED
    BY <2>1 DEF WorkspaceInv, OneAlive, MemoryTrue, ServeReady, Alive, Grows
<1>2. CASE Request(w, d)
  <2>1. /\ UNCHANGED <<start, mem, disk, retired>>
        /\ \A v \in Worker : queue'[v] = queue[v] \/ (v = w /\ Engine(w))
    BY <1>0, <1>2 DEF Request
  <2> QED
    BY <2>1 DEF WorkspaceInv, OneAlive, MemoryTrue, ServeReady, Alive, Grows, Engine
<1> QED
  BY <1>1, <1>2

LEMMA WorkspaceAlways ==
  ASSUME Prompt, HostInv, WorkspaceInv, [Next]_vars
  PROVE  WorkspaceInv' /\ Grows
<1>1. CASE UNCHANGED vars
  BY <1>1, WorkspaceStays DEF vars, worker
<1>2. CASE \E w \in Worker : Host(w) \/ StartFails(w)
  BY <1>2, WorkspaceHost
<1>3. CASE \E d \in Doc : Serve(d)
  BY <1>3, WorkspaceServe DEF Serve
<1>4. CASE \E d \in Doc : \/ Receive(d) \/ Close(d)
                          \/ \E w \in Worker : Load(d, w)
                          \/ \E kind \in Kind : Ask(d, kind)
  BY <1>4, WorkspaceStays
     DEF Receive, ReceiveAnswer, ReceiveStarted, ReceiveChanged, ReceiveReplaced, Close, Leave, Load, Ask, worker
<1> QED
  BY <1>1, <1>2, <1>3, <1>4 DEF Next

-----------------------------------------------------------------------------
(* The change a worker has handled and not answered yet is on the device,   *)
(* unless the worker was replaced: then nothing of it will be believed.     *)

MadeBy(w, o) == w \in retired \/ <<o.doc, o.id>> \in disk
RanDone == \A w \in Worker : ran[w] => MadeBy(w, owners[w][Head(queue[w])])

LEMMA MadeStays == ASSUME Grows, NEW w, NEW o, MadeBy(w, o) PROVE w \in retired' \/ <<o.doc, o.id>> \in disk'
BY DEF Grows, MadeBy

LEMMA RanStays ==
  ASSUME RanDone, Grows,
         \A w \in Worker : ran'[w] => ran[w] /\ owners'[w][Head(queue'[w])] = owners[w][Head(queue[w])]
  PROVE  RanDone'
<1> SUFFICES ASSUME NEW w \in Worker, ran'[w] PROVE MadeBy(w, owners[w][Head(queue[w])])'
  BY DEF RanDone
<1>1. MadeBy(w, owners[w][Head(queue[w])]) /\ owners'[w][Head(queue'[w])] = owners[w][Head(queue[w])]
  BY DEF RanDone
<1> QED
  BY <1>1, MadeStays DEF MadeBy

LEMMA RunRan ==
  ASSUME HostInv, RanDone, Grows, NEW w \in Worker, Run(w)
  PROVE  RanDone'
<1>0. mem \in [Worker -> SUBSET Change] /\ ran \in [Worker -> BOOLEAN]
  BY DEF HostInv, TypeOK, WorkersType, RequestsType
<1> DEFINE o == owners[w][Head(queue[w])]
<1>1. /\ mem' = [mem EXCEPT ![w] = mem[w] \cup {<<o.doc, o.id>>}]
      /\ disk' = IF w \in retired THEN disk ELSE mem'[w]
      /\ ran' = [ran EXCEPT ![w] = TRUE]
      /\ UNCHANGED <<owners, queue, retired>>
  BY DEF Run, Frozen
<1> HIDE DEF o
<1>2. MadeBy(w, o)'
  <2>1. w \in retired' \/ <<o.doc, o.id>> \in disk'
    BY <1>0, <1>1
  <2> QED
    BY <1>1, <2>1 DEF MadeBy, o
<1>3. ASSUME NEW v \in Worker, v # w, ran'[v] PROVE MadeBy(v, owners[v][Head(queue[v])])'
  <2>1. ran[v]
    BY <1>0, <1>1, <1>3
  <2>2. MadeBy(v, owners[v][Head(queue[v])])
    BY <2>1 DEF RanDone
  <2> QED
    BY <1>1, <2>2, MadeStays DEF MadeBy
<1> QED
  BY <1>1, <1>2, <1>3 DEF RanDone, o

LEMMA RequestRan ==
  ASSUME HostInv, RanDone, Grows, NEW w \in Worker, NEW d \in Doc, Request(w, d)
  PROVE  RanDone'
<1>0. RequestEffect(w, d) /\ RequestsType
  BY RequestParts DEF HostInv, TypeOK
<1>1. CASE w \in retired
  BY <1>0, <1>1, RanStays DEF RequestEffect
<1>2. CASE w \notin retired
  <2> DEFINE n == NextNumber(w)
             r == RequestOf(w, d)
             q == queue[w]
  <2>1. /\ owners' = [owners EXCEPT ![w] = NowOwned(w, n, r)]
        /\ queue' = [queue EXCEPT ![w] = IF Engine(w) /\ Head(up[d]).kind = "change" THEN Append(q, n) ELSE q]
        /\ ran' = ran
    BY <1>0, <1>2 DEF RequestEffect
  <2>2. /\ sequence[w] \in Nat /\ n = sequence[w] + 1 /\ q \in Seq(Nat)
        /\ Range(q) \subseteq DOMAIN owners[w] /\ DOMAIN owners[w] \subseteq 1..sequence[w]
        /\ ran[w] => q # <<>>
    BY <1>0 DEF RequestsType, NextNumber
  <2> HIDE DEF n, r, q
  <2>3. /\ owners'[w] = NowOwned(w, n, r)
        /\ queue'[w] = q \/ queue'[w] = Append(q, n)
        /\ \A v \in Worker : v # w => owners'[v] = owners[v] /\ queue'[v] = queue[v]
    BY <1>0, <2>1 DEF RequestsType, q
  <2>4. ASSUME ran[w] PROVE owners'[w][Head(queue'[w])] = owners[w][Head(q)]
    <3>1. Head(Append(q, n)) = Head(q) /\ Head(q) = q[1] /\ 1 \in DOMAIN q
      BY <2>2, <2>4
    <3>2. Head(q) \in DOMAIN owners[w] /\ Head(q) # n
      BY <2>2, <3>1 DEF Range
    <3>3. NowOwned(w, n, r)[Head(q)] = owners[w][Head(q)]
      BY <3>2 DEF NowOwned
    <3> QED
      BY <2>3, <3>1, <3>3
  <2> QED
    BY <2>1, <2>3, <2>4, RanStays DEF q
<1> QED
  BY <1>1, <1>2

LEMMA AnswerRan ==
  ASSUME HostInv, RanDone, Grows, NEW w \in Worker, Answer(w) \/ AnswerSearch(w)
  PROVE  RanDone'
<1>0. RequestsType /\ InOrder
  BY DEF HostInv, TypeOK
<1>1. CASE Answer(w)
  <2>1. \A v \in Worker : ran'[v] => v # w /\ ran[v] /\ owners'[v] = owners[v] /\ queue'[v] = queue[v]
    BY <1>0, <1>1 DEF Answer, Route, RequestsType
  <2> QED
    BY <2>1, RanStays
<1>2. CASE AnswerSearch(w)
  <2>1. PICK n \in searches[w] : Route(w, n)
    BY <1>2 DEF AnswerSearch
  <2>2. /\ UNCHANGED <<queue, ran>>
        /\ owners'[w] = StillOwned(w, n) /\ \A v \in Worker : v # w => owners'[v] = owners[v]
    BY <1>0, <1>2, <2>1 DEF AnswerSearch, Route, RequestsType
  <2>3. ASSUME ran[w] PROVE StillOwned(w, n)[Head(queue[w])] = owners[w][Head(queue[w])]
    <3> DEFINE q == queue[w]
    <3>1. q \in Seq(Nat) /\ q # <<>> /\ Range(q) \subseteq DOMAIN owners[w]
      BY <1>0, <2>3 DEF RequestsType
    <3>2. \A i \in 1..Len(q) : q[i] # n
      BY <1>0, <2>1 DEF InOrder, QueueInOrder
    <3> HIDE DEF q
    <3>3. 1 \in 1..Len(q) /\ DOMAIN q = 1..Len(q) /\ Head(q) = q[1]
      BY <3>1
    <3>4. Head(q) \in DOMAIN owners[w] \ {n}
      BY <3>1, <3>2, <3>3 DEF Range
    <3> QED
      BY <3>4 DEF StillOwned, q
  <2> QED
    BY <2>2, <2>3, RanStays
<1> QED
  BY <1>1, <1>2

LEMMA RanAlways ==
  ASSUME HostInv, RanDone, Grows, [Next]_vars
  PROVE  RanDone'
<1>1. CASE UNCHANGED <<owners, queue, ran>>
  BY <1>1, RanStays
<1>2. CASE \E w \in Worker : Run(w) \/ Answer(w) \/ AnswerSearch(w)
  BY <1>2, RunRan, AnswerRan
<1>3. CASE \E w \in Worker, d \in Doc : Request(w, d)
  BY <1>3, RequestRan
<1>4. CASE UNCHANGED vars
  BY <1>1, <1>4 DEF vars, worker
<1>5. ASSUME NEW w \in Worker, Host(w) \/ StartFails(w) PROVE RanDone'
  BY <1>1, <1>2, <1>5 DEF Host, Steal, Retire, OpenStorage, StartFails, CreateEngine
<1>6. ASSUME NEW d \in Doc, Serve(d) PROVE RanDone'
  BY <1>1, <1>3, <1>6 DEF Serve, Start
<1>7. ASSUME NEW d \in Doc, \/ Receive(d) \/ Close(d)
                            \/ \E w \in Worker : Load(d, w)
                            \/ \E kind \in Kind : Ask(d, kind)
      PROVE  RanDone'
  BY <1>1, <1>7
     DEF Receive, ReceiveAnswer, ReceiveStarted, ReceiveChanged, ReceiveReplaced, Close, Leave, Load, Ask, worker
<1> QED
  BY <1>4, <1>5, <1>6, <1>7 DEF Next

-----------------------------------------------------------------------------
\* Who waits for a worker is connected to it, and who has not loaded to none.
Placed ==
  /\ \A w \in Worker : \A d \in waiting[w] : doc[d].at = w
  /\ \A d \in Doc : doc[d].phase = "new" => doc[d].at = None

LEMMA PlacedAlways ==
  ASSUME HostInv, Placed, [Next]_vars
  PROVE  Placed'
<1>0. /\ waiting \in [Worker -> SUBSET Doc]
      /\ doc \in [Doc -> [phase : Open \cup {"new", "stopped", "closed"}, at : Worker \cup {None}]]
      /\ None \notin Worker
  BY DEF HostInv, TypeOK, WorkersType, TabsType, Worker, None
<1>1. ASSUME UNCHANGED doc, \A w \in Worker : waiting'[w] \subseteq waiting[w] PROVE Placed'
  BY <1>0, <1>1 DEF Placed
<1>2. CASE UNCHANGED vars
  BY <1>1, <1>2 DEF vars, worker, tab
<1>3. ASSUME NEW w \in Worker, Host(w) \/ StartFails(w) PROVE Placed'
  <2>1. UNCHANGED doc /\ \A v \in Worker : waiting'[v] \subseteq waiting[v]
    BY <1>0, <1>3
       DEF Host, Steal, Retire, OpenStorage, StartFails, CreateEngine, Run, Answer, AnswerSearch, tab
  <2> QED
    BY <1>1, <2>1
<1>4. ASSUME NEW w \in Worker, NEW d \in Doc, Start(w, d) PROVE Placed'
  BY <1>0, <1>4 DEF Start, tab, Placed
<1>5. ASSUME NEW w \in Worker, NEW d \in Doc, Request(w, d) PROVE Placed'
  BY <1>1, <1>5 DEF Request, tab
<1>6. ASSUME NEW d \in Doc, Receive(d) \/ Close(d) \/ \E kind \in Kind : Ask(d, kind) PROVE Placed'
  <2>1. /\ UNCHANGED waiting
        /\ \A e \in Doc : doc'[e].at = doc[e].at /\ (doc'[e].phase = "new" => doc[e].phase = "new")
    <3>1. CASE UNCHANGED <<waiting, doc>>
      BY <3>1
    <3>2. CASE /\ UNCHANGED waiting
               /\ \E p \in {"ready", "failed", "closed", "stopped"} : doc' = [doc EXCEPT ![d].phase = p]
      BY <1>0, <3>2
    <3> QED
      BY <1>6, <3>1, <3>2
         DEF Receive, ReceiveAnswer, ReceiveStarted, ReceiveChanged, ReceiveReplaced, Close, Leave, Ask, worker
  <2> QED
    BY <1>0, <2>1 DEF Placed
<1>7. ASSUME NEW d \in Doc, NEW w \in Worker, Load(d, w) PROVE Placed'
  <2>1. /\ UNCHANGED waiting /\ doc[d].phase = "new" /\ doc'[d] = [phase |-> "loading", at |-> w]
        /\ \A e \in Doc : e # d => doc'[e] = doc[e]
    BY <1>0, <1>7 DEF Load, worker
  <2>2. doc[d].at = None
    BY <2>1 DEF Placed
  <2>3. \A v \in Worker : d \notin waiting[v]
    BY <1>0, <2>2 DEF Placed
  <2> QED
    BY <1>0, <2>1, <2>3 DEF Placed
<1> QED
  BY <1>2, <1>3, <1>4, <1>5, <1>6, <1>7 DEF Next, Serve

-----------------------------------------------------------------------------
\* A tab that is not open hears nothing.
Deaf == \A d \in Doc : doc[d].phase \notin Open => down[d] = <<>>

LEMMA DeafStays ==
  ASSUME Deaf, UNCHANGED doc, \A d \in Doc : doc[d].phase \notin Open => down'[d] = down[d]
  PROVE  Deaf'
BY DEF Deaf, Open

LEMMA DeafAlways ==
  ASSUME HostInv, Deaf, [Next]_vars
  PROVE  Deaf'
<1>0. /\ down \in [Doc -> Seq(Message)]
      /\ doc \in [Doc -> [phase : Open \cup {"new", "stopped", "closed"}, at : Worker \cup {None}]]
  BY DEF HostInv, TypeOK, TabsType
<1>1. CASE UNCHANGED vars
  BY <1>1, DeafStays DEF vars, tab
<1>2. ASSUME NEW w \in Worker, Host(w) \/ StartFails(w) PROVE Deaf'
  <2>1. UNCHANGED doc
    BY <1>2 DEF Host, Steal, Retire, OpenStorage, StartFails, CreateEngine, Run, Answer, AnswerSearch, tab
  <2>2. \/ down' = down
        \/ \E D, m : down' = Post(D, m)
        \/ \E n : Route(w, n)
    BY <1>2 DEF Host, Steal, Retire, OpenStorage, StartFails, CreateEngine, Run, Answer, AnswerSearch
  <2> QED
    BY <2>1, <2>2, PostOpen, RouteOpen, DeafStays
<1>3. ASSUME NEW w \in Worker, NEW d \in Doc, Start(w, d) \/ Request(w, d) PROVE Deaf'
  <2>1. UNCHANGED doc /\ (down' = down \/ \E D, m : down' = Post(D, m))
    BY <1>3 DEF Start, Request, tab
  <2> QED
    BY <2>1, PostOpen, DeafStays
<1>4. ASSUME NEW d \in Doc, \/ Receive(d) \/ Close(d)
                            \/ \E w \in Worker : Load(d, w)
                            \/ \E kind \in Kind : Ask(d, kind)
      PROVE  Deaf'
  <2>1. CASE \E p \in {"closed", "stopped"} : /\ doc' = [doc EXCEPT ![d].phase = p]
                                              /\ down' = [down EXCEPT ![d] = <<>>]
    BY <1>0, <2>1 DEF Deaf, Open
  <2>2. CASE UNCHANGED down /\ \E w \in Worker : doc' = [doc EXCEPT ![d] = [phase |-> "loading", at |-> w]]
    BY <1>0, <2>2 DEF Deaf, Open
  <2>3. CASE UNCHANGED <<doc, down>>
    BY <2>3, DeafStays
  <2>4. CASE down[d] # <<>> /\ Read(d) /\ (doc' = doc \/ \E p \in Open : doc' = [doc EXCEPT ![d].phase = p])
    <3>1. doc[d].phase \in Open /\ \A e \in Doc : e # d => down'[e] = down[e]
      BY <1>0, <2>4 DEF Deaf, Read
    <3>2. \A e \in Doc : doc'[e].phase \notin Open => e # d /\ doc'[e] = doc[e]
      BY <1>0, <2>4, <3>1
    <3> QED
      BY <3>1, <3>2 DEF Deaf
  <2>5. CASE Receive(d)
    BY <2>1, <2>4, <2>5
       DEF Receive, ReceiveAnswer, ReceiveStarted, ReceiveChanged, ReceiveReplaced, Leave, Heard, Open
  <2>6. CASE Close(d) \/ (\E w \in Worker : Load(d, w)) \/ \E kind \in Kind : Ask(d, kind)
    BY <2>1, <2>2, <2>3, <2>6 DEF Close, Leave, Load, Ask
  <2> QED
    BY <1>4, <2>5, <2>6
<1> QED
  BY <1>1, <1>2, <1>3, <1>4 DEF Next, Serve

-----------------------------------------------------------------------------
(* What is on its way to a tab.  An engine that was replaced goes on         *)
(* answering, but each tab that may ask it is told "replaced" first, and     *)
(* hears nothing after that.                                                *)

Bears(q, t) == \E i \in 1..Len(q) : q[i].type = t

\* The answer of a change that was made.
DoneBy(m) == m.type = "answer" /\ m.kind = "change" /\ m.error = FALSE
TrueIn(q, d, D) ==
  \A i \in 1..Len(q) :
    DoneBy(q[i]) => <<d, q[i].id>> \in D \/ \E j \in 1..(i - 1) : q[j].type = "replaced"

\* A tab that has, or will have, what it needs to ask.
MayAsk(d) == doc[d].phase = "ready" \/ calls[d] > 0 \/ Bears(down[d], "started")
Warned(d) == doc[d].phase \in Open /\ MayAsk(d) /\ doc[d].at \in retired => Bears(down[d], "replaced")
HeardOf(d) == Warned(d) /\ TrueIn(down[d], d, disk)

LEMMA AppendTrue ==
  ASSUME NEW S, NEW q \in Seq(S), NEW m \in S, NEW d, NEW D
  PROVE  /\ \A t : Bears(Append(q, m), t) <=> Bears(q, t) \/ m.type = t
         /\ TrueIn(q, d, D) /\ (DoneBy(m) => <<d, m.id>> \in D \/ Bears(q, "replaced"))
              => TrueIn(Append(q, m), d, D)
<1> DEFINE r == Append(q, m)
           l == Len(q) + 1
<1>1. /\ Len(r) = l /\ r[l] = m /\ Len(q) \in Nat /\ l - 1 = Len(q)
      /\ \A i \in 1..Len(q) : r[i] = q[i] /\ i \in 1..l
      /\ \A i \in 1..l : i = l \/ i \in 1..Len(q)
      /\ l \in 1..l
      /\ \A i \in 1..Len(q) : \A j \in 1..(i - 1) : j \in 1..Len(q)
  OBVIOUS
<1> HIDE DEF r, l
<1>2. \A t : Bears(r, t) <=> Bears(q, t) \/ m.type = t
  BY <1>1 DEF Bears
<1>3. ASSUME TrueIn(q, d, D), DoneBy(m) => <<d, m.id>> \in D \/ Bears(q, "replaced")
      PROVE  TrueIn(r, d, D)
  <2> SUFFICES ASSUME NEW i \in 1..l, DoneBy(r[i])
               PROVE  <<d, r[i].id>> \in D \/ \E j \in 1..(i - 1) : r[j].type = "replaced"
    BY <1>1 DEF TrueIn
  <2>1. CASE i = l
    BY <1>1, <1>3, <2>1 DEF Bears
  <2>2. CASE i \in 1..Len(q)
    BY <1>1, <1>3, <2>2 DEF TrueIn
  <2> QED
    BY <1>1, <2>1, <2>2
<1> QED
  BY <1>2, <1>3 DEF r

LEMMA TailTrue ==
  ASSUME NEW S, NEW q \in Seq(S), q # <<>>, NEW d, NEW D
  PROVE  /\ \A t : Bears(Tail(q), t) => Bears(q, t)
         /\ \A t : Bears(q, t) => Bears(Tail(q), t) \/ Head(q).type = t
         /\ Bears(q, Head(q).type)
         /\ TrueIn(q, d, D) /\ Head(q).type # "replaced" => TrueIn(Tail(q), d, D)
         /\ TrueIn(q, d, D) /\ DoneBy(Head(q)) => <<d, Head(q).id>> \in D
<1> DEFINE r == Tail(q)
           l == Len(q)
<1>1. /\ Len(r) = l - 1 /\ l \in Nat /\ l >= 1
      /\ \A i \in 1..(l - 1) : r[i] = q[i + 1] /\ i + 1 \in 1..l /\ (i + 1) - 1 = i
      /\ \A i \in 1..l : i = 1 \/ (i - 1 \in 1..(l - 1) /\ (i - 1) + 1 = i)
      /\ Head(q) = q[1] /\ 1 \in 1..l
      /\ 1..(1 - 1) = {}
  OBVIOUS
<1> HIDE DEF r, l
<1>2. \A t : Bears(r, t) => Bears(q, t)
  BY <1>1 DEF Bears, l
<1>3. ASSUME NEW t, Bears(q, t) PROVE Bears(r, t) \/ Head(q).type = t
  <2>1. PICK i \in 1..l : q[i].type = t
    BY <1>3 DEF Bears, l
  <2>2. CASE i = 1
    BY <1>1, <2>1, <2>2
  <2>3. CASE i - 1 \in 1..(l - 1) /\ (i - 1) + 1 = i
    <3>1. r[i - 1].type = t
      BY <1>1, <2>1, <2>3
    <3> QED
      BY <1>1, <2>3, <3>1 DEF Bears
  <2> QED
    BY <1>1, <2>2, <2>3
<1>4. Bears(q, Head(q).type)
  BY <1>1 DEF Bears, l
<1>5. ASSUME TrueIn(q, d, D), Head(q).type # "replaced" PROVE TrueIn(r, d, D)
  <2> SUFFICES ASSUME NEW i \in 1..(l - 1), DoneBy(q[i + 1]), <<d, q[i + 1].id>> \notin D
               PROVE  \E j \in 1..(i - 1) : r[j].type = "replaced"
    BY <1>1 DEF TrueIn
  <2>1. PICK j \in 1..i : q[j].type = "replaced"
    BY <1>1, <1>5 DEF TrueIn, l
  <2>2. j # 1
    BY <1>1, <1>5, <2>1
  <2>3. j - 1 \in 1..(i - 1) /\ j - 1 \in 1..(l - 1) /\ (j - 1) + 1 = j
    BY <1>1, <2>2
  <2>4. r[j - 1].type = "replaced"
    BY <1>1, <2>1, <2>3
  <2> QED
    BY <2>3, <2>4
<1>6. TrueIn(q, d, D) /\ DoneBy(Head(q)) => <<d, Head(q).id>> \in D
  BY <1>1 DEF TrueIn, l
<1> QED
  BY <1>2, <1>3, <1>4, <1>5, <1>6 DEF r

\* A tab that hears nothing more, or one message more.
LEMMA SameTrue ==
  ASSUME Grows, NEW d, HeardOf(d), down'[d] = down[d], doc'[d] = doc[d], calls'[d] = calls[d],
         doc[d].at \in retired' => doc[d].at \in retired
  PROVE  HeardOf(d)'
BY DEF HeardOf, Warned, MayAsk, TrueIn, Bears, Grows

LEMMA MoreTrue ==
  ASSUME Grows, TabsType, NEW d \in Doc, HeardOf(d), NEW m \in Message, down'[d] = Append(down[d], m),
         doc'[d] = doc[d], calls'[d] = calls[d],
         m.type = "replaced" \/ (doc[d].at \in retired' => doc[d].at \in retired),
         m.type = "started" => doc[d].at \notin retired',
         DoneBy(m) => <<d, m.id>> \in disk \/ Bears(down[d], "replaced")
  PROVE  HeardOf(d)'
<1> DEFINE q == down[d]
           r == Append(q, m)
<1>1. q \in Seq(Message)
  BY DEF TabsType
<1> HIDE DEF q, r
<1>2. /\ \A t : Bears(r, t) <=> Bears(q, t) \/ m.type = t
      /\ TrueIn(q, d, disk) => TrueIn(r, d, disk)
  BY <1>1, AppendTrue DEF q, r
<1>3. TrueIn(r, d, disk) => TrueIn(r, d, disk')
  BY DEF Grows, TrueIn
<1>4. down'[d] = r /\ down[d] = q
  BY DEF q, r
<1>5. TrueIn(down[d], d, disk)'
  BY <1>2, <1>3, <1>4 DEF HeardOf
<1>6. /\ Bears(down[d], "started")' => Bears(q, "started") \/ m.type = "started"
      /\ Bears(q, "replaced") \/ m.type = "replaced" => Bears(down[d], "replaced")'
  BY <1>2, <1>4
<1>7. Warned(d)'
  BY <1>4, <1>6 DEF HeardOf, Warned, MayAsk
<1> QED
  BY <1>5, <1>7 DEF HeardOf

\* One that reads a message, or nothing will hear again.
LEMMA ReadTrue ==
  ASSUME Grows, TabsType, NEW d \in Doc, HeardOf(d), down[d] # <<>>, down'[d] = Tail(down[d]),
         Head(down[d]).type # "replaced",
         doc'[d].at = doc[d].at, retired' = retired, calls'[d] = calls[d],
         doc'[d].phase \in Open => doc[d].phase \in Open,
         doc'[d].phase = "ready" => doc[d].phase = "ready" \/ Head(down[d]).type = "started"
  PROVE  HeardOf(d)'
<1> DEFINE q == down[d]
           r == Tail(q)
<1>1. q \in Seq(Message) /\ q # <<>>
  BY DEF TabsType
<1> HIDE DEF q, r
<1>2. /\ \A t : Bears(r, t) => Bears(q, t)
      /\ Bears(q, "replaced") => Bears(r, "replaced") \/ Head(q).type = "replaced"
      /\ Bears(q, Head(q).type)
      /\ TrueIn(q, d, disk) /\ Head(q).type # "replaced" => TrueIn(r, d, disk)
  BY <1>1, TailTrue DEF r
<1>3. TrueIn(r, d, disk) => TrueIn(r, d, disk')
  BY DEF Grows, TrueIn
<1>4. down'[d] = r /\ down[d] = q
  BY DEF q, r
<1>5. TrueIn(down[d], d, disk)'
  BY <1>2, <1>3, <1>4 DEF HeardOf
<1>6. /\ Bears(down[d], "started")' => Bears(q, "started")
      /\ Bears(q, "replaced") => Bears(down[d], "replaced")'
      /\ Head(q).type = "started" => Bears(q, "started")
  BY <1>2, <1>4
<1>7. Warned(d)'
  BY <1>4, <1>6 DEF HeardOf, Warned, MayAsk
<1> QED
  BY <1>5, <1>7 DEF HeardOf

LEMMA EmptyTrue ==
  ASSUME NEW d, down'[d] = <<>>, doc'[d].phase \notin Open
  PROVE  HeardOf(d)'
<1>1. Len(<<>>) = 0
  OBVIOUS
<1> QED
  BY <1>1 DEF HeardOf, Warned, TrueIn, Open

-----------------------------------------------------------------------------
AllHeard == \A d \in Doc : HeardOf(d)
KeptInv == WorkspaceInv /\ RanDone /\ Placed /\ Deaf /\ AllHeard /\ Kept

\* What is posted.
LEMMA PostTrue ==
  ASSUME Grows, TabsType, AllHeard, NEW D, NEW m \in Message, down' = Post(D, m), UNCHANGED <<doc, calls>>,
         m.type # "answer",
         \A d \in Doc : doc[d].at \in retired' => doc[d].at \in retired \/ (d \in D /\ m.type = "replaced")
                                                   \/ doc[d].phase \notin Open,
         m.type = "started" => \A d \in D \cap Doc : doc[d].at \notin retired'
  PROVE  AllHeard'
<1> SUFFICES ASSUME NEW d \in Doc PROVE HeardOf(d)'
  BY DEF AllHeard
<1>0. HeardOf(d)
  BY DEF AllHeard
<1>1. CASE d \in D /\ doc[d].phase \in Open
  <2>1. down'[d] = Append(down[d], m)
    BY <1>1 DEF Post
  <2> QED
    BY <1>0, <1>1, <2>1, MoreTrue DEF DoneBy
<1>2. CASE ~(d \in D /\ doc[d].phase \in Open)
  <2>1. down'[d] = down[d]
    BY <1>2 DEF Post
  <2>2. CASE doc[d].phase \in Open
    BY <1>0, <1>2, <2>1, <2>2, SameTrue
  <2>3. CASE doc[d].phase \notin Open
    BY <1>0, <2>1, <2>3 DEF HeardOf, Warned, TrueIn, Grows
  <2> QED
    BY <2>2, <2>3
<1> QED
  BY <1>1, <1>2

LEMMA SameAllTrue ==
  ASSUME Grows, AllHeard, UNCHANGED <<doc, calls, retired>>, UNCHANGED down
  PROVE  AllHeard'
BY SameTrue DEF AllHeard

\* A worker that answers: the change is on the device, or the tab was told the worker
\* was replaced.
LEMMA RouteTrue ==
  ASSUME Grows, TypeOK, AnswerInv, AllHeard, NEW w \in Worker, NEW n \in DOMAIN owners[w], Route(w, n),
         UNCHANGED <<doc, calls, retired>>,
         owners[w][n].kind = "change" => MadeBy(w, owners[w][n])
  PROVE  AllHeard'
<1> SUFFICES ASSUME NEW d \in Doc PROVE HeardOf(d)'
  BY DEF AllHeard
<1> DEFINE o == owners[w][n]
           a == AnswerOf(o, n)
           c == [type |-> "changed", of |-> <<o.doc, o.id>>]
<1>0. HeardOf(d) /\ TabsType /\ o \in Owner
  BY DEF AllHeard, TypeOK, RequestsType
<1>1. /\ a \in Message /\ a.type = "answer" /\ a.id = o.id /\ a.kind = o.kind
      /\ c \in Message /\ c.type = "changed"
  BY <1>0 DEF AnswerOf, Message, Owner, Change
<1>2. \/ down'[d] = down[d] \/ down'[d] = Append(down[d], c)
      \/ d = o.doc /\ d \in Ports(w) /\ down'[d] = Append(down[d], a)
  BY RouteHeard
<1>3. ASSUME d = o.doc, d \in Ports(w), o.kind = "change"
      PROVE  <<d, o.id>> \in disk \/ Bears(down[d], "replaced")
  <2>1. Owned(d, o.id) /\ o.id \in Id
    BY <1>0, <1>3 DEF Owned, Owner
  <2>2. o.id <= calls[d] /\ calls[d] \in Nat
    BY <1>0, <2>1 DEF AnswerInv, OnePlaceOf, TabsType
  <2>3. calls[d] > 0
    BY <2>1, <2>2 DEF Id
  <2> QED
    BY <1>0, <1>3, <2>3 DEF MadeBy, HeardOf, Warned, MayAsk, Ports
<1> HIDE DEF o, a, c
<1>4. CASE down'[d] = down[d]
  BY <1>0, <1>4, SameTrue
<1>5. CASE down'[d] = Append(down[d], c)
  BY <1>0, <1>1, <1>5, MoreTrue DEF DoneBy
<1>6. CASE d = o.doc /\ d \in Ports(w) /\ down'[d] = Append(down[d], a)
  BY <1>0, <1>1, <1>3, <1>6, MoreTrue DEF DoneBy
<1> QED
  BY <1>2, <1>4, <1>5, <1>6

LEMMA HostHeard ==
  ASSUME Grows, HostInv, AnswerInv, KeptInv, NEW w \in Worker, Host(w) \/ StartFails(w)
  PROVE  AllHeard'
<1>0. TypeOK /\ TabsType /\ AllHeard /\ InOrder /\ RequestsType
  BY DEF HostInv, TypeOK, KeptInv
<1>1. CASE Steal(w) \/ OpenStorage(w) \/ Run(w)
  BY <1>0, <1>1, SameAllTrue DEF Steal, OpenStorage, Run, tab
<1>2. CASE Retire(w)
  <2>1. CASE w \in retired
    <3>1. retired' = retired /\ UNCHANGED down /\ UNCHANGED <<doc, calls>>
      BY <1>2, <2>1 DEF Retire, tab
    <3> QED
      BY <1>0, <3>1, SameAllTrue
  <2>2. CASE w \notin retired
    <3>1. retired' = retired \cup {w} /\ down' = Post(Ports(w), [type |-> "replaced"]) /\ UNCHANGED <<doc, calls>>
      BY <1>2, <2>2 DEF Retire, tab
    <3>2. [type |-> "replaced"] \in Message
      BY PlainMessages
    <3>3. \A d \in Doc : doc[d].at \in retired' => doc[d].at \in retired \/ d \in Ports(w) \/ doc[d].phase \notin Open
      BY <3>1 DEF Ports
    <3> QED
      BY <1>0, <3>1, <3>2, <3>3, PostTrue
  <2> QED
    BY <2>1, <2>2
<1>3. CASE StartFails(w)
  <2>1. retired' = retired /\ down' = Post(waiting[w], [type |-> "failed"]) /\ UNCHANGED <<doc, calls>>
    BY <1>3 DEF StartFails, tab
  <2> QED
    BY <1>0, <2>1, PlainMessages, PostTrue
<1>4. CASE CreateEngine(w)
  <2>1. retired' = retired /\ down' = Post(waiting[w], [type |-> Outcome(w)]) /\ UNCHANGED <<doc, calls>>
    BY <1>4 DEF CreateEngine, tab
  <2>2. Outcome(w) = "started" => \A d \in waiting[w] : doc[d].at \notin retired
    BY DEF Outcome, KeptInv, Placed
  <2>3. [type |-> Outcome(w)] \in Message /\ Outcome(w) \in {"started", "replaced"}
    BY PlainMessages DEF Outcome
  <2> QED
    BY <1>0, <2>1, <2>2, <2>3, PostTrue
<1>5. CASE Answer(w)
  <2> DEFINE n == Head(queue[w])
  <2>1. n \in DOMAIN owners[w]
    <3>1. ran[w] /\ queue[w] # <<>> /\ queue[w] \in Seq(Nat) /\ Range(queue[w]) \subseteq DOMAIN owners[w]
      BY <1>0, <1>5 DEF Answer, RequestsType
    <3>2. Head(queue[w]) = queue[w][1] /\ 1 \in DOMAIN queue[w]
      BY <3>1
    <3> QED
      BY <3>1, <3>2 DEF Range
  <2>2. MadeBy(w, owners[w][n]) /\ Route(w, n) /\ UNCHANGED <<doc, calls, retired>>
    BY <1>5 DEF Answer, tab, KeptInv, RanDone
  <2> QED
    BY <1>0, <2>1, <2>2, RouteTrue
<1>6. CASE AnswerSearch(w)
  <2>1. PICK n \in searches[w] : Route(w, n)
    BY <1>6 DEF AnswerSearch
  <2>2. n \in DOMAIN owners[w] /\ owners[w][n].kind = "search" /\ UNCHANGED <<doc, calls, retired>>
    BY <1>0, <1>6 DEF AnswerSearch, tab, RequestsType, InOrder, QueueInOrder
  <2> QED
    BY <1>0, <2>1, <2>2, RouteTrue
<1> QED
  BY <1>1, <1>2, <1>3, <1>4, <1>5, <1>6 DEF Host

LEMMA ServeHeard ==
  ASSUME Grows, HostInv, KeptInv, NEW w \in Worker, NEW d \in Doc, Start(w, d) \/ Request(w, d)
  PROVE  AllHeard'
<1>0. TypeOK /\ TabsType /\ AllHeard
  BY DEF HostInv, TypeOK, KeptInv
<1>1. CASE Start(w, d)
  <2>1. UNCHANGED <<doc, calls, retired>> /\ doc[d].at = w
        /\ (UNCHANGED down \/ down' = Post({d}, [type |-> Outcome(w)]))
    BY <1>1 DEF Start, tab
  <2>2. CASE UNCHANGED down
    BY <1>0, <2>1, <2>2, SameAllTrue
  <2>3. CASE down' = Post({d}, [type |-> Outcome(w)])
    <3>1. [type |-> Outcome(w)] \in Message /\ Outcome(w) \in {"started", "replaced"}
          /\ (Outcome(w) = "started" => w \notin retired)
      BY PlainMessages DEF Outcome
    <3> QED
      BY <1>0, <2>1, <2>3, <3>1, PostTrue
  <2> QED
    BY <2>1, <2>2, <2>3
<1>2. CASE Request(w, d)
  <2>0. RequestEffect(w, d)
    BY <1>0, <1>2, RequestParts
  <2>1. CASE w \notin retired
    BY <1>0, <2>0, <2>1, SameAllTrue DEF RequestEffect
  <2>2. CASE w \in retired
    <3> DEFINE m == [type |-> "answer", id |-> Head(up[d]).id, of |-> <<d, Head(up[d]).id>>,
                     kind |-> Head(up[d]).kind, error |-> TRUE]
    <3>1. m \in Message
      BY <2>0 DEF RequestEffect, Message, Call, Change
    <3>2. m.error = TRUE /\ m.type = "answer"
      OBVIOUS
    <3>3. down' = Post({d}, m) /\ UNCHANGED <<doc, calls, retired>>
      BY <2>0, <2>2 DEF RequestEffect
    <3> HIDE DEF m
    <3>4. ~DoneBy(m) /\ m.type # "started"
      BY <3>2 DEF DoneBy
    <3>5. ASSUME NEW e \in Doc PROVE HeardOf(e)'
      <4>1. down'[e] = down[e] \/ down'[e] = Append(down[e], m)
        BY <3>3 DEF Post
      <4>2. HeardOf(e)
        BY <1>0 DEF AllHeard
      <4> QED
        BY <1>0, <3>1, <3>3, <3>4, <4>1, <4>2, SameTrue, MoreTrue
    <3> QED
      BY <3>5 DEF AllHeard
  <2> QED
    BY <2>1, <2>2
<1> QED
  BY <1>1, <1>2

\* A tab's own step leaves the others as they are.
LEMMA OwnHeard ==
  ASSUME Grows, AllHeard, NEW d \in Doc, HeardOf(d)', UNCHANGED retired,
         \A e \in Doc : e # d => down'[e] = down[e] /\ doc'[e] = doc[e] /\ calls'[e] = calls[e]
  PROVE  AllHeard'
BY SameTrue DEF AllHeard

LEMMA LeaveHeard ==
  ASSUME Grows, TypeOK, AllHeard, NEW d \in Doc, Leave(d)
  PROVE  AllHeard'
<1>0. TabsType
  BY DEF TypeOK
<1>1. /\ down' = [down EXCEPT ![d] = <<>>] /\ doc' = [doc EXCEPT ![d].phase = "closed"]
      /\ UNCHANGED <<calls, retired>>
  BY DEF Leave, worker
<1>2. down'[d] = <<>> /\ doc'[d].phase = "closed"
  BY <1>0, <1>1 DEF TabsType
<1>3. HeardOf(d)'
  BY <1>2, EmptyTrue DEF Open
<1>4. \A e \in Doc : e # d => down'[e] = down[e] /\ doc'[e] = doc[e] /\ calls'[e] = calls[e]
  BY <1>0, <1>1 DEF TabsType
<1> QED
  BY <1>1, <1>3, <1>4, OwnHeard

LEMMA TabHeard ==
  ASSUME Grows, HostInv, KeptInv, NEW d \in Doc,
         \/ Receive(d) \/ Close(d)
         \/ \E w \in Worker : Load(d, w)
         \/ \E kind \in Kind : Ask(d, kind)
  PROVE  AllHeard'
<1>0. /\ TypeOK /\ TabsType /\ AllHeard /\ HeardOf(d) /\ Fresh
      /\ down \in [Doc -> Seq(Message)] /\ calls \in [Doc -> Nat]
      /\ doc \in [Doc -> [phase : Open \cup {"new", "stopped", "closed"}, at : Worker \cup {None}]]
  BY DEF HostInv, TypeOK, TabsType, KeptInv, AllHeard
<1>1. ASSUME down[d] # <<>>, Read(d), UNCHANGED <<calls, retired>>, Head(down[d]).type # "replaced",
             \/ doc' = doc
             \/ doc' = [doc EXCEPT ![d].phase = "ready"] /\ Head(down[d]).type = "started"
             \/ doc' = [doc EXCEPT ![d].phase = "failed"],
             doc[d].phase \in Open
      PROVE  AllHeard'
  <2>1. down'[d] = Tail(down[d]) /\ \A e \in Doc : e # d => down'[e] = down[e]
    BY <1>0, <1>1 DEF Read
  <2>2. /\ doc'[d].at = doc[d].at /\ \A e \in Doc : e # d => doc'[e] = doc[e]
        /\ doc'[d].phase = "ready" => doc[d].phase = "ready" \/ Head(down[d]).type = "started"
    BY <1>0, <1>1
  <2>3. HeardOf(d)'
    BY <1>0, <1>1, <2>1, <2>2, ReadTrue
  <2> QED
    BY <1>0, <1>1, <2>1, <2>2, <2>3, OwnHeard
<1>2. CASE ReceiveAnswer(d) \/ ReceiveStarted(d) \/ ReceiveChanged(d)
  <2>1. /\ down[d] # <<>> /\ Read(d) /\ UNCHANGED <<calls, retired>>
        /\ Head(down[d]).type # "replaced"
        /\ \/ doc' = doc
           \/ doc' = [doc EXCEPT ![d].phase = "ready"] /\ Head(down[d]).type = "started"
           \/ doc' = [doc EXCEPT ![d].phase = "failed"]
    BY <1>2 DEF ReceiveAnswer, ReceiveStarted, ReceiveChanged, Heard, worker
  <2>2. CASE doc[d].phase \in Open
    BY <1>1, <2>1, <2>2
  <2>3. CASE doc[d].phase \notin Open
    <3>1. down[d] = <<>>
      BY <2>3 DEF KeptInv, Deaf
    <3> QED
      BY <2>1, <3>1
  <2> QED
    BY <2>2, <2>3
<1>3. CASE ReceiveReplaced(d)
  <2>1. CASE Leave(d)
    BY <1>0, <2>1, LeaveHeard
  <2>2. CASE /\ doc' = [doc EXCEPT ![d].phase = "stopped"]
             /\ down' = [down EXCEPT ![d] = <<>>] /\ UNCHANGED <<calls, retired>>
    <3>1. down'[d] = <<>> /\ doc'[d].phase = "stopped"
      BY <1>0, <2>2
    <3>2. HeardOf(d)'
      BY <3>1, EmptyTrue DEF Open
    <3>3. \A e \in Doc : e # d => down'[e] = down[e] /\ doc'[e] = doc[e] /\ calls'[e] = calls[e]
      BY <1>0, <2>2
    <3> QED
      BY <1>0, <2>2, <3>2, <3>3, OwnHeard
  <2> QED
    BY <1>3, <2>1, <2>2 DEF ReceiveReplaced, worker
<1>4. CASE Close(d)
  BY <1>0, <1>4, LeaveHeard DEF Close
<1>5. ASSUME NEW w \in Worker, Load(d, w) PROVE AllHeard'
  <2>1. /\ doc[d].phase = "new" /\ doc' = [doc EXCEPT ![d] = [phase |-> "loading", at |-> w]]
        /\ UNCHANGED <<down, calls, retired>>
    BY <1>5 DEF Load, worker
  <2>2. calls[d] = 0 /\ down[d] = <<>>
    BY <1>0, <2>1 DEF Fresh
  <2>3. doc'[d].phase = "loading" /\ \A e \in Doc : e # d => doc'[e] = doc[e]
    BY <1>0, <2>1
  <2>4. Len(<<>>) = 0
    OBVIOUS
  <2>5. ~MayAsk(d)'
    BY <2>1, <2>2, <2>3, <2>4 DEF MayAsk, Bears
  <2>6. HeardOf(d)'
    BY <2>1, <2>2, <2>4, <2>5 DEF HeardOf, Warned, TrueIn
  <2> QED
    BY <1>0, <2>1, <2>3, <2>6, OwnHeard
<1>6. ASSUME NEW kind \in Kind, Ask(d, kind) PROVE AllHeard'
  <2>1. doc[d].phase = "ready" /\ UNCHANGED <<doc, down, retired>> /\ calls' = [calls EXCEPT ![d] = @ + 1]
    BY <1>6 DEF Ask, worker
  <2>2. \A e \in Doc : e # d => calls'[e] = calls[e]
    BY <1>0, <2>1
  <2>3. HeardOf(d)'
    BY <1>0, <2>1 DEF HeardOf, Warned, MayAsk, TrueIn, Bears, Grows
  <2> QED
    BY <1>0, <2>1, <2>2, <2>3, OwnHeard
<1> QED
  BY <1>2, <1>3, <1>4, <1>5, <1>6 DEF Receive

LEMMA HeardAlways ==
  ASSUME Grows, HostInv, AnswerInv, KeptInv, [Next]_vars
  PROVE  AllHeard'
<1>1. CASE UNCHANGED vars
  BY <1>1, SameAllTrue DEF vars, worker, tab, KeptInv
<1>2. CASE \E w \in Worker : Host(w) \/ StartFails(w)
  BY <1>2, HostHeard
<1>3. CASE \E d \in Doc : Serve(d)
  BY <1>3, ServeHeard DEF Serve
<1>4. CASE \E d \in Doc : \/ Receive(d) \/ Close(d)
                          \/ \E w \in Worker : Load(d, w)
                          \/ \E kind \in Kind : Ask(d, kind)
  BY <1>4, TabHeard
<1> QED
  BY <1>1, <1>2, <1>3, <1>4 DEF Next

-----------------------------------------------------------------------------
(* What a tab was told done.                                                *)

LEMMA DoneAlways ==
  ASSUME Grows, HostInv, KeptInv, [Next]_vars
  PROVE  Kept'
<1>1. ASSUME UNCHANGED done PROVE Kept'
  BY <1>1 DEF KeptInv, Kept, Grows
<1>2. ASSUME NEW d \in Doc, ReceiveAnswer(d) PROVE Kept'
  <2> DEFINE m == Head(down[d])
  <2>0. /\ down[d] # <<>> /\ m.type = "answer" /\ down[d] \in Seq(Message) /\ done \in [Doc -> SUBSET Id]
        /\ TrueIn(down[d], d, disk)
    BY <1>2 DEF ReceiveAnswer, Heard, HostInv, TypeOK, TabsType, KeptInv, AllHeard, HeardOf
  <2>1. CASE m.kind = "change" /\ m.error = FALSE
    <3>1. <<d, m.id>> \in disk
      BY <2>0, <2>1, TailTrue DEF DoneBy
    <3>2. \A e \in Doc : done'[e] \subseteq done[e] \cup (IF e = d THEN {m.id} ELSE {})
      BY <1>2, <2>0 DEF ReceiveAnswer
    <3> HIDE DEF m
    <3> QED
      BY <3>1, <3>2 DEF KeptInv, Kept, Grows
  <2>2. CASE ~(m.kind = "change" /\ m.error = FALSE)
    <3>1. m.error \in BOOLEAN
      BY <2>0, HeadTailProperties DEF Message
    <3>2. \A e \in Doc : done'[e] = done[e]
      BY <1>2, <2>0, <2>2, <3>1 DEF ReceiveAnswer
    <3> QED
      BY <3>2 DEF KeptInv, Kept, Grows
  <2> QED
    BY <2>1, <2>2
<1>3. CASE UNCHANGED vars
  BY <1>1, <1>3 DEF vars, tab
<1>4. ASSUME NEW w \in Worker, Host(w) \/ StartFails(w) PROVE Kept'
  BY <1>1, <1>4
     DEF Host, Steal, Retire, OpenStorage, StartFails, CreateEngine, Run, Answer, AnswerSearch, tab
<1>5. ASSUME NEW d \in Doc, Serve(d) PROVE Kept'
  BY <1>1, <1>5 DEF Serve, Start, Request, tab
<1>6. ASSUME NEW d \in Doc, \/ ReceiveStarted(d) \/ ReceiveChanged(d) \/ ReceiveReplaced(d) \/ Close(d)
                            \/ \E w \in Worker : Load(d, w)
                            \/ \E kind \in Kind : Ask(d, kind)
      PROVE  Kept'
  BY <1>1, <1>6 DEF ReceiveStarted, ReceiveChanged, ReceiveReplaced, Close, Leave, Load, Ask
<1> QED
  BY <1>2, <1>3, <1>4, <1>5, <1>6 DEF Next, Receive

LEMMA KeptInitially == Init => KeptInv
<1> SUFFICES ASSUME Init PROVE KeptInv
  OBVIOUS
<1>1. Len(<<>>) = 0
  OBVIOUS
<1>2. WorkspaceInv
  BY DEF Init, WorkspaceInv, OneAlive, MemoryTrue, ServeReady, Alive
<1>3. RanDone /\ Placed /\ Deaf /\ Kept
  BY DEF Init, RanDone, Placed, Deaf, Kept
<1>4. AllHeard
  BY <1>1 DEF Init, AllHeard, HeardOf, Warned, TrueIn, Open
<1> QED
  BY <1>2, <1>3, <1>4 DEF KeptInv

LEMMA KeptAlways ==
  ASSUME Prompt PROVE HostInv /\ AnswerInv /\ KeptInv /\ [Next]_vars => KeptInv'
<1> SUFFICES ASSUME HostInv, AnswerInv, KeptInv, [Next]_vars PROVE KeptInv'
  OBVIOUS
<1>1. WorkspaceInv' /\ Grows
  BY WorkspaceAlways DEF KeptInv
<1>2. RanDone' /\ Placed' /\ Deaf'
  BY <1>1, RanAlways, PlacedAlways, DeafAlways DEF KeptInv
<1>3. AllHeard' /\ Kept'
  BY <1>1, HeardAlways, DoneAlways
<1> QED
  BY <1>1, <1>2, <1>3 DEF KeptInv

\* A change a tab was told done is on the device, whichever engine writes it next, as
\* long as an engine that lost the lock hears it before the next one reads the storage
\* (worker.ts:50-64): `freeze` stops what the old one still does, and each tab is told
\* "replaced" before any answer of it that would not be true.
THEOREM AlwaysKept == ASSUME Prompt PROVE Spec => []Kept
<1>1. HostInv /\ AnswerInv /\ KeptInv /\ [Next]_vars => KeptInv'
  BY KeptAlways
<1>2. KeptInv => Kept
  BY DEF KeptInv
<1> QED
  BY <1>1, <1>2, HostInvariant, AnswerInvariant, KeptInitially, PTL DEF Spec

=============================================================================
