--------------------------- MODULE Workspace_proofs ---------------------------
(***************************************************************************)
(* Proofs about the workspace of a device: what it reads of its account    *)
(* (ChangeFeed), for any entities, devices and page sizes, then how it     *)
(* keeps it on its storage (WorkspaceJournal), for any clients, storages,  *)
(* journal's length, changes and faults.                                   *)
(*                                                                         *)
(* The feed: the inductive invariant says of every set of changes on its   *)
(* way to a device (a read between its two statements, a batch being       *)
(* pulled, a page streamed) what StaleIsPending says of the device itself. *)
(*                                                                         *)
(* The journal: the parsed copies are true, what was said saved is kept,   *)
(* and the disk implements KeptWorkspace.                                  *)
(***************************************************************************)
EXTENDS ChangeFeed, WorkspaceJournal, FiniteSetTheorems, SequenceTheorems, TLAPS

-----------------------------------------------------------------------------
(* The feed.                                                               *)

\* The server's tables and its feed agree: no change past the counter, a row
\* present only if the feed has it, a row seen as deleted gone for good.
FeedInv ==
  /\ Numbered
  /\ \A e \in Entity : change[e] = 0 => row[e] = Absent
  /\ \A e \in Entity : deleted[e] => row[e] = Absent

\* A read begun has the changes of (after, cursor], but for those moved since.
ReadingInv(r) ==
  /\ r.after <= r.cursor
  /\ r.cursor <= seq
  /\ \A e \in r.rows : change[e] # 0
  /\ \A e \in r.gone : row[e] = Absent /\ e \in r.rows
  /\ \A e \in Entity : \/ change[e] > r.cursor
                       \/ e \in r.rows
                       \/ change[e] <= r.after

\* Values read for (from, at] are the rows' own, but for those changed since.
ValuesInv(d, values, from, at) ==
  /\ at <= seq
  /\ \A e \in DOMAIN values : change[e] # 0
  /\ \A e \in Visible(d) :
       \/ change[e] > at
       \/ e \in DOMAIN values /\ values[e] = row[e]
       \/ e \notin DOMAIN values /\ change[e] <= from

PullInv(d) ==
  LET p == pull[d]
  IN /\ p.phase # "idle" =>
          /\ p.from <= cursor[d]
          /\ ValuesInv(d, p.batch, p.from, p.at)
     /\ p.phase = "reading" =>
          /\ ReadingInv(p.reading)
          /\ p.reading.after = p.at

SocketInv(d) ==
  /\ socket[d].delivered <= seq
  /\ socket[d].phase = "reading" =>
       ReadingInv(socket[d].reading) /\ socket[d].reading.after = socket[d].delivered

PageInv(d, page) == ValuesInv(d, page.values, page.after, page.cursor)

StreamInv(d) == \A i \in 1..Len(stream[d]) : PageInv(d, stream[d][i])

CopyInv(d) ==
  /\ cursor[d] <= seq
  /\ \A e \in Entity : change[e] = 0 => copy[d][e] = Absent
  /\ \A e \in Visible(d) : copy[d][e] = row[e] \/ change[e] > cursor[d]

DeviceInv(d) == CopyInv(d) /\ PullInv(d) /\ SocketInv(d) /\ StreamInv(d)

IInv == FeedInv /\ \A d \in Device : DeviceInv(d)

-----------------------------------------------------------------------------
(* Types.                                                                  *)

\* A function of Content over some entities is a Values.
LEMMA ValuesIntro ==
  ASSUME NEW D \in SUBSET Entity, NEW v \in [D -> Content]
  PROVE  v \in Values
BY DEF Values

\* Its members are values of rows.
LEMMA ValuesElim ==
  ASSUME NEW v \in Values
  PROVE  /\ DOMAIN v \in SUBSET Entity
         /\ \A e \in DOMAIN v : v[e] \in Content
BY DEF Values

\* The empty batch.
LEMMA NoValuesType == NoValues \in Values
<1>1. {} \in SUBSET Entity
  OBVIOUS
<1>2. NoValues \in [{} -> Content]
  BY DEF NoValues
<1> QED
  BY <1>1, <1>2, ValuesIntro

\* What an idle loop and a closed socket hold.
LEMMA IdleTypes == NoReading \in Reading /\ NoPull \in Pull /\ NoSocket \in Socket
<1>1. NoReading \in Reading
  BY DEF NoReading, Reading
<1> QED
  BY <1>1, NoValuesType DEF NoPull, Pull, NoSocket, Socket

\* The second statement reads values of rows.
LEMMA ValuesOfType ==
  ASSUME TypeOK, NEW r \in Reading, NEW all \in BOOLEAN
  PROVE  /\ ValuesOf(r, all) \in Values
         /\ DOMAIN ValuesOf(r, all) = IF all THEN r.rows ELSE r.rows \ Guarded
<1> DEFINE D == IF all THEN r.rows ELSE r.rows \ Guarded
<1>1. D \in SUBSET Entity
  BY DEF Reading
<1>2. ValuesOf(r, all) \in [D -> Content]
  BY <1>1 DEF TypeOK, ValuesOf, Content
<1> QED
  BY <1>1, <1>2, ValuesIntro

\* A later page's values win over those of the batch.
LEMMA BatchType ==
  ASSUME NEW v \in Values, NEW w \in Values
  PROVE  [e \in DOMAIN v \cup DOMAIN w |-> IF e \in DOMAIN v THEN v[e] ELSE w[e]] \in Values
<1> DEFINE D == DOMAIN v \cup DOMAIN w
           f == [e \in D |-> IF e \in DOMAIN v THEN v[e] ELSE w[e]]
<1>1. D \in SUBSET Entity
  BY ValuesElim
<1>2. f \in [D -> Content]
  BY ValuesElim
<1> QED
  BY <1>1, <1>2, ValuesIntro

\* The size of what a page adds to a batch: entities are finitely many.
LEMMA SizeType ==
  ASSUME NEW v \in Values
  PROVE  Cardinality(DOMAIN v) \in Nat
BY ValuesElim, FeedAssumption, FS_Subset, FS_CardinalityType DEF FeedAssumption

\* A merge leaves typed rows and cursors.
LEMMA MergeType ==
  ASSUME TypeOK, NEW d \in Device, NEW v \in Values, NEW at \in Nat, Merge(d, v, at)
  PROVE  copy' \in [Device -> [Entity -> Content]] /\ cursor' \in [Device -> Nat]
<1>1. CASE at < cursor[d]
  BY <1>1 DEF TypeOK, Merge
<1>2. CASE ~(at < cursor[d])
  <2>1. [e \in Entity |-> IF e \in DOMAIN v THEN v[e] ELSE copy[d][e]] \in [Entity -> Content]
    BY ValuesElim DEF TypeOK
  <2> QED
    BY <1>2, <2>1 DEF TypeOK, Merge
<1> QED
  BY <1>1, <1>2

\* What an answered request makes of a pull.
LEMMA AnsweredType ==
  ASSUME NEW p \in Pull, NEW at \in Nat, NEW n \in Nat, NEW batch \in Values
  PROVE  [p EXCEPT !.phase = "answered", !.at = at, !.size = @ + n, !.batch = batch] \in Pull
<1>1. p.size + n \in Nat
  BY DEF Pull
<1> QED
  BY <1>1 DEF Pull

\* A read of the feed sent down the socket moves what it delivered.
LEMMA DeliveredType ==
  ASSUME NEW s \in Socket, NEW at \in Nat
  PROVE  [s EXCEPT !.delivered = at] \in Socket
BY DEF Socket

\* Every step leaves every variable typed.
LEMMA TypeStep == TypeOK /\ [Next]_vars => TypeOK'
<1> SUFFICES ASSUME TypeOK, [Next]_vars
             PROVE  TypeOK'
  OBVIOUS
<1> USE IdleTypes, FeedAssumption DEF FeedAssumption
<1>1. ASSUME NEW e \in Entity, NEW gone \in BOOLEAN, Trigger(e, gone)
      PROVE  seq' \in Nat /\ change' \in [Entity -> Nat] /\ deleted' \in [Entity -> BOOLEAN]
  BY <1>1 DEF Trigger, TypeOK
<1>2. ASSUME NEW e \in Entity, NEW v \in Value, Insert(e, v) \/ Update(e, v)
      PROVE  TypeOK'
  BY <1>2, <1>1 DEF Insert, Update, TypeOK, Content
<1>3. ASSUME NEW e \in Entity, Delete(e)
      PROVE  TypeOK'
  BY <1>3, <1>1 DEF Delete, TypeOK, Content
<1>4. CASE OtherAccountWrites
  BY <1>4 DEF OtherAccountWrites, TypeOK
<1>5. ASSUME NEW d \in Device, StartPull(d)
      PROVE  TypeOK'
  <2>1. [NoPull EXCEPT !.phase = "ask", !.from = cursor[d], !.at = cursor[d]] \in Pull
    BY DEF TypeOK, Pull
  <2> QED
    BY <1>5, <2>1 DEF StartPull, server, device, TypeOK
<1>6. ASSUME NEW after \in Nat, NEW r \in Readings(after)
      PROVE  r \in Reading
  BY DEF Readings, Reading, TypeOK
<1>7. ASSUME NEW d \in Device, PullRows(d)
      PROVE  TypeOK'
  <2>1. PICK r \in Readings(pull[d].at) : pull' = [pull EXCEPT ![d].phase = "reading", ![d].reading = r]
    BY <1>7 DEF PullRows
  <2>2. r \in Reading
    BY <2>1, <1>6 DEF TypeOK, Pull
  <2>3. pull' \in [Device -> Pull]
    BY <2>1, <2>2 DEF TypeOK, Pull
  <2> QED
    BY <1>7, <2>3 DEF PullRows, server, device, TypeOK
<1>8. ASSUME NEW d \in Device, PullValues(d)
      PROVE  TypeOK'
  <2> DEFINE p == pull[d]
             got == ValuesOf(p.reading, optIn[d])
             batch == [e \in DOMAIN got \cup DOMAIN p.batch |->
                         IF e \in DOMAIN got THEN got[e] ELSE p.batch[e]]
  <2>1. p \in Pull /\ p.reading \in Reading /\ p.batch \in Values /\ optIn[d] \in BOOLEAN
    BY DEF TypeOK, Pull
  <2>2. got \in Values
    BY <2>1, ValuesOfType
  <2>3. Cardinality(DOMAIN got) \in Nat
    BY <2>2, SizeType
  <2>4. batch \in Values
    BY <2>1, <2>2, BatchType
  <2> DEFINE answered == [p EXCEPT !.phase = "answered", !.at = p.reading.cursor,
                                   !.size = @ + Cardinality(DOMAIN got), !.batch = batch]
  <2>5. pull' = [pull EXCEPT ![d] = answered]
    BY <1>8 DEF PullValues
  <2>6. pull' \in [Device -> Pull]
    <3>1. p.reading.cursor \in Nat
      BY <2>1 DEF Reading
    <3> HIDE DEF got, batch
    <3>2. answered \in Pull
      <4> HIDE DEF p
      <4> QED
        BY <2>1, <2>3, <2>4, <3>1, AnsweredType
    <3> HIDE DEF answered
    <3> QED
      BY <2>5, <3>2 DEF TypeOK
  <2>7. socket' \in [Device -> Socket]
    <3>1. p.reading.cursor \in Nat
      BY <2>1 DEF Reading
    <3> DEFINE moved == [socket[d] EXCEPT !.delivered = p.reading.cursor]
    <3>2. socket' = socket \/ socket' = [socket EXCEPT ![d] = moved]
      BY <1>8 DEF PullValues
    <3>3. moved \in Socket
      BY <3>1, DeliveredType DEF TypeOK
    <3> HIDE DEF moved
    <3> QED
      BY <3>2, <3>3 DEF TypeOK
  <2> QED
    BY <1>8, <2>6, <2>7 DEF PullValues, server, device, TypeOK
<1>9. ASSUME NEW d \in Device, TakePage(d)
      PROVE  TypeOK'
  <2> DEFINE p == pull[d]
             on == p.reading.more
  <2>1. p \in Pull /\ p.at \in Nat /\ p.batch \in Values
    BY DEF TypeOK, Pull
  <2>2. CASE on /\ p.size < MergeSize
    <3> DEFINE next == [p EXCEPT !.phase = "ask", !.reading = NoReading]
    <3>1. next \in Pull
      BY <2>1 DEF Pull
    <3>2. pull' = [pull EXCEPT ![d] = next]
      BY <1>9, <2>2 DEF TakePage
    <3> HIDE DEF next
    <3>3. pull' \in [Device -> Pull]
      BY <3>1, <3>2 DEF TypeOK
    <3> QED
      BY <1>9, <2>2, <3>3 DEF TakePage, server, TypeOK
  <2>3. CASE ~(on /\ p.size < MergeSize)
    <3>1. Merge(d, p.batch, p.at)
      BY <1>9, <2>3 DEF TakePage
    <3>2. copy' \in [Device -> [Entity -> Content]] /\ cursor' \in [Device -> Nat]
      BY <2>1, <3>1, MergeType
    <3>3. [NoPull EXCEPT !.phase = "ask", !.from = p.at, !.at = p.at] \in Pull
      BY <2>1 DEF Pull
    <3>4. pull' \in [Device -> Pull]
      BY <1>9, <2>3, <3>3 DEF TakePage, TypeOK
    <3> QED
      BY <1>9, <3>2, <3>4 DEF TakePage, server, TypeOK
  <2> QED
    BY <2>2, <2>3
<1>10. ASSUME NEW d \in Device, AbandonPull(d)
       PROVE  TypeOK'
  BY <1>10 DEF AbandonPull, server, device, TypeOK
<1>11. ASSUME NEW d \in Device, Connect(d)
       PROVE  TypeOK'
  <2>1. [NoSocket EXCEPT !.phase = "open", !.delivered = cursor[d]] \in Socket
    BY DEF TypeOK, Socket
  <2> QED
    BY <1>11, <2>1 DEF Connect, server, device, TypeOK
<1>12. ASSUME NEW d \in Device, StreamRows(d)
       PROVE  TypeOK'
  <2>1. PICK r \in Readings(socket[d].delivered) :
          socket' = [socket EXCEPT ![d].phase = "reading", ![d].reading = r]
    BY <1>12 DEF StreamRows
  <2>2. r \in Reading
    BY <2>1, <1>6 DEF TypeOK, Socket
  <2>3. socket' \in [Device -> Socket]
    BY <2>1, <2>2 DEF TypeOK, Socket
  <2> QED
    BY <1>12, <2>3 DEF StreamRows, server, device, TypeOK
<1>13. ASSUME NEW d \in Device, StreamValues(d)
       PROVE  TypeOK'
  <2> DEFINE r == socket[d].reading
             page == [after |-> r.after, cursor |-> r.cursor, values |-> ValuesOf(r, TRUE)]
  <2>1. r \in Reading
    BY DEF TypeOK, Socket
  <2>2. page \in Page
    BY <2>1, ValuesOfType DEF Page, Reading
  <2>3. socket' \in [Device -> Socket]
    BY <1>13, <2>1 DEF StreamValues, TypeOK, Socket, Reading
  <2>4. stream' = stream \/ stream' = [stream EXCEPT ![d] = Append(stream[d], page)]
    BY <1>13 DEF StreamValues
  <2> HIDE DEF page
  <2>5. Append(stream[d], page) \in Seq(Page)
    BY <2>2, AppendProperties DEF TypeOK
  <2>6. stream' \in [Device -> Seq(Page)]
    BY <2>4, <2>5 DEF TypeOK
  <2> QED
    BY <1>13, <2>3, <2>6 DEF StreamValues, server, device, TypeOK
<1>14. ASSUME NEW d \in Device, ReceiveChanges(d)
       PROVE  TypeOK'
  <2> DEFINE page == Head(stream[d])
  <2>1. stream[d] \in Seq(Page) /\ stream[d] # <<>>
    BY <1>14 DEF ReceiveChanges, TypeOK
  <2>2. page \in Page /\ Tail(stream[d]) \in Seq(Page)
    BY <2>1, HeadTailProperties
  <2>3. page.values \in Values /\ page.cursor \in Nat
    BY <2>2 DEF Page
  <2>4. copy' \in [Device -> [Entity -> Content]] /\ cursor' \in [Device -> Nat]
    <3>1. CASE page.cursor <= cursor[d] \/ page.after > cursor[d]
      BY <1>14, <3>1 DEF ReceiveChanges, TypeOK
    <3>2. CASE ~(page.cursor <= cursor[d] \/ page.after > cursor[d])
      <4>1. Merge(d, page.values, page.cursor)
        BY <1>14, <3>2 DEF ReceiveChanges
      <4> QED
        BY <2>3, <4>1, MergeType
    <3> QED
      BY <3>1, <3>2
  <2>5. stream' \in [Device -> Seq(Page)]
    BY <1>14, <2>2 DEF ReceiveChanges, TypeOK
  <2> QED
    BY <1>14, <2>4, <2>5 DEF ReceiveChanges, server, TypeOK
<1>15. ASSUME NEW d \in Device, Disconnect(d)
       PROVE  TypeOK'
  BY <1>15 DEF Disconnect, server, device, TypeOK
<1>16. ASSUME NEW d \in Device, Upgrade(d)
       PROVE  TypeOK'
  BY <1>16 DEF Upgrade, server, TypeOK
<1>17. CASE UNCHANGED vars
  BY <1>17 DEF vars, TypeOK
<1> QED
  BY <1>2, <1>3, <1>4, <1>5, <1>7, <1>8, <1>9, <1>10, <1>11, <1>12, <1>13, <1>14,
     <1>15, <1>16, <1>17 DEF Next, Write, Catchup, Live

\* Every variable of the change feed keeps its type.
THEOREM TypeCorrect == Spec => []TypeOK
<1>1. Init => TypeOK
  BY IdleTypes, FeedAssumption DEF Init, TypeOK, Content, FeedAssumption
<1> QED
  BY <1>1, TypeStep, PTL DEF Spec

-----------------------------------------------------------------------------
(* What a write of the server does to everything on its way to a device:   *)
(* the entities it touches move past every number given before.            *)

Grows ==
  /\ seq' \in Nat /\ seq <= seq'
  /\ \A e \in Entity : \/ row'[e] = row[e] /\ change'[e] = change[e]
                       \/ change'[e] > seq /\ change'[e] \in Nat
  /\ \A e \in Entity : change[e] # 0 =>
                         change'[e] # 0 /\ (row[e] = Absent => row'[e] = Absent)

\* Values read stay right or become pending.
LEMMA GrowsValues ==
  ASSUME TypeOK, Grows, NEW d \in Device, optIn'[d] = optIn[d],
         NEW values \in Values, NEW from \in Nat, NEW at \in Nat,
         ValuesInv(d, values, from, at)
  PROVE  /\ at <= seq'
         /\ \A e \in DOMAIN values : change'[e] # 0
         /\ \A e \in Visible(d)' : \/ change'[e] > at
                                   \/ e \in DOMAIN values /\ values[e] = row'[e]
                                   \/ e \notin DOMAIN values /\ change'[e] <= from
<1>1. Visible(d)' = Visible(d) /\ Visible(d) \subseteq Entity
  BY DEF Visible
<1>2. seq \in Nat /\ seq' \in Nat /\ seq <= seq' /\ at <= seq
  BY DEF TypeOK, Grows, ValuesInv
<1>3. ASSUME NEW e \in Visible(d)
      PROVE  \/ change'[e] > at
             \/ e \in DOMAIN values /\ values[e] = row'[e]
             \/ e \notin DOMAIN values /\ change'[e] <= from
  <2>1. \/ row'[e] = row[e] /\ change'[e] = change[e]
        \/ change'[e] > seq /\ change'[e] \in Nat
    BY <1>1 DEF Grows
  <2>2. \/ change[e] > at
        \/ e \in DOMAIN values /\ values[e] = row[e]
        \/ e \notin DOMAIN values /\ change[e] <= from
    BY DEF ValuesInv
  <2> QED
    BY <1>2, <2>1, <2>2
<1>4. \A e \in DOMAIN values : change'[e] # 0
  BY ValuesElim DEF ValuesInv, Grows
<1> QED
  BY <1>1, <1>2, <1>3, <1>4

\* So do reads in progress.
LEMMA GrowsReading ==
  ASSUME TypeOK, Grows, NEW r \in Reading, ReadingInv(r)
  PROVE  /\ r.after <= r.cursor
         /\ r.cursor <= seq'
         /\ \A e \in r.rows : change'[e] # 0
         /\ \A e \in r.gone : row'[e] = Absent /\ e \in r.rows
         /\ \A e \in Entity : \/ change'[e] > r.cursor
                              \/ e \in r.rows
                              \/ change'[e] <= r.after
<1>1. r.after \in Nat /\ r.cursor \in Nat /\ seq \in Nat /\ seq' \in Nat /\ seq <= seq'
  BY DEF TypeOK, Grows, Reading
<1>2. r.after <= r.cursor /\ r.cursor <= seq
  BY DEF ReadingInv
<1>3. /\ \A e \in r.rows : change'[e] # 0
      /\ \A e \in r.gone : row'[e] = Absent /\ e \in r.rows
  BY DEF ReadingInv, Grows, Reading
<1>4. ASSUME NEW e \in Entity
      PROVE  change'[e] > r.cursor \/ e \in r.rows \/ change'[e] <= r.after
  <2>1. change[e] > r.cursor \/ e \in r.rows \/ change[e] <= r.after
    BY DEF ReadingInv
  <2>2. change'[e] = change[e] \/ (change'[e] > seq /\ change'[e] \in Nat)
    BY DEF Grows
  <2> QED
    BY <1>1, <1>2, <2>1, <2>2
<1> QED
  BY <1>1, <1>2, <1>3, <1>4

\* And the device's rows.
LEMMA GrowsCopy ==
  ASSUME TypeOK, Grows, NEW d \in Device, CopyInv(d),
         copy'[d] = copy[d], cursor'[d] = cursor[d], optIn'[d] = optIn[d]
  PROVE  CopyInv(d)'
<1>1. Visible(d)' = Visible(d) /\ Visible(d) \subseteq Entity
  BY DEF Visible
<1>2. seq \in Nat /\ seq' \in Nat /\ seq <= seq' /\ cursor[d] \in Nat /\ cursor[d] <= seq
  BY DEF TypeOK, Grows, CopyInv
<1>3. ASSUME NEW e \in Visible(d)
      PROVE  copy[d][e] = row'[e] \/ change'[e] > cursor[d]
  <2>1. copy[d][e] = row[e] \/ change[e] > cursor[d]
    BY DEF CopyInv
  <2>2. \/ row'[e] = row[e] /\ change'[e] = change[e]
        \/ change'[e] > seq /\ change'[e] \in Nat
    BY <1>1 DEF Grows
  <2> QED
    BY <1>2, <2>1, <2>2
<1>4. \A e \in Entity : change'[e] = 0 => copy[d][e] = Absent
  BY DEF CopyInv, Grows
<1> QED
  BY <1>1, <1>2, <1>3, <1>4 DEF CopyInv

\* A pull the step leaves alone, unless it takes the device's cursor back.
LEMMA GrowsPull ==
  ASSUME TypeOK, Grows, NEW d \in Device, PullInv(d), cursor'[d] \in Nat,
         pull'[d] = pull[d], cursor'[d] >= cursor[d], optIn'[d] = optIn[d]
  PROVE  PullInv(d)'
<1> DEFINE p == pull[d]
<1>1. /\ p \in Pull /\ p.from \in Nat /\ p.at \in Nat /\ p.batch \in Values
      /\ p.reading \in Reading /\ cursor[d] \in Nat
  BY DEF TypeOK, Pull
<1>2. p.phase # "idle" => p.from <= cursor'[d] /\ ValuesInv(d, p.batch, p.from, p.at)'
  <2> SUFFICES ASSUME p.phase # "idle"
               PROVE  p.from <= cursor'[d] /\ ValuesInv(d, p.batch, p.from, p.at)'
    OBVIOUS
  <2>1. p.from <= cursor[d] /\ ValuesInv(d, p.batch, p.from, p.at)
    BY DEF PullInv
  <2> HIDE DEF p
  <2>2. p.from <= cursor'[d]
    BY <1>1, <2>1
  <2>3. p' = p
    BY DEF p
  <2> QED
    BY <1>1, <2>1, <2>2, <2>3, GrowsValues DEF ValuesInv
<1>3. p.phase = "reading" => ReadingInv(p.reading)' /\ p.reading.after = p.at
  <2> SUFFICES ASSUME p.phase = "reading"
               PROVE  ReadingInv(p.reading)' /\ p.reading.after = p.at
    OBVIOUS
  <2>1. ReadingInv(p.reading) /\ p.reading.after = p.at
    BY DEF PullInv
  <2> HIDE DEF p
  <2>2. p' = p
    BY DEF p
  <2> QED
    BY <1>1, <2>1, <2>2, GrowsReading DEF ReadingInv
<1> QED
  BY <1>2, <1>3 DEF PullInv

\* A socket the step leaves alone.
LEMMA GrowsSocket ==
  ASSUME TypeOK, Grows, NEW d \in Device, SocketInv(d), socket'[d] = socket[d]
  PROVE  SocketInv(d)'
<1> DEFINE s == socket[d]
<1>1. s \in Socket /\ s.reading \in Reading /\ s.delivered \in Nat /\ s' = s
  BY DEF TypeOK, Socket
<1>2. s.delivered <= seq'
  BY <1>1 DEF SocketInv, Grows, TypeOK
<1>3. s.phase = "reading" => ReadingInv(s.reading)' /\ s.reading.after = s.delivered
  <2> SUFFICES ASSUME s.phase = "reading"
               PROVE  ReadingInv(s.reading)' /\ s.reading.after = s.delivered
    OBVIOUS
  <2>1. ReadingInv(s.reading) /\ s.reading.after = s.delivered
    BY DEF SocketInv
  <2> HIDE DEF s
  <2> QED
    BY <1>1, <2>1, GrowsReading DEF ReadingInv
<1> QED
  BY <1>1, <1>2, <1>3 DEF SocketInv

\* A streamed page.
LEMMA GrowsPage ==
  ASSUME TypeOK, Grows, NEW d \in Device, optIn'[d] = optIn[d],
         NEW page \in Page, PageInv(d, page)
  PROVE  PageInv(d, page)'
BY GrowsValues DEF PageInv, ValuesInv, Page

\* The pages on their way down a socket the step leaves alone.
LEMMA GrowsStream ==
  ASSUME TypeOK, Grows, NEW d \in Device, StreamInv(d),
         stream'[d] = stream[d], optIn'[d] = optIn[d]
  PROVE  StreamInv(d)'
<1> SUFFICES ASSUME NEW i \in 1..Len(stream[d]), NEW page, page = stream[d][i]
             PROVE  PageInv(d, page)'
  BY DEF StreamInv, PageInv, ValuesInv, Visible
<1>1. page \in Page /\ PageInv(d, page)
  BY DEF StreamInv, TypeOK
<1> QED
  BY <1>1, GrowsPage

\* A device the step leaves alone.
LEMMA GrowsDevice ==
  ASSUME TypeOK, Grows, NEW d \in Device, DeviceInv(d),
         copy'[d] = copy[d], cursor'[d] = cursor[d], optIn'[d] = optIn[d],
         pull'[d] = pull[d], socket'[d] = socket[d], stream'[d] = stream[d]
  PROVE  DeviceInv(d)'
<1>1. cursor'[d] \in Nat /\ cursor'[d] >= cursor[d]
  BY DEF TypeOK
<1> QED
  BY <1>1, GrowsCopy, GrowsPull, GrowsSocket, GrowsStream DEF DeviceInv

-----------------------------------------------------------------------------
(* The server's steps.                                                     *)

\* A step that leaves the tables alone.
LEMMA UnchangedGrows ==
  ASSUME TypeOK, UNCHANGED server
  PROVE  Grows
BY DEF TypeOK, Grows, server

\* A step that leaves the server alone keeps the feed in order.
LEMMA UnchangedFeed ==
  ASSUME FeedInv, UNCHANGED server
  PROVE  FeedInv'
BY DEF FeedInv, Numbered, server

\* A write of one entity whose trigger fires.
LEMMA TriggerGrows ==
  ASSUME TypeOK, FeedInv, NEW e \in Entity, NEW v, NEW gone \in BOOLEAN,
         row' = [row EXCEPT ![e] = v], Trigger(e, gone),
         gone => v = Absent,
         change[e] = 0 \/ row[e] # Absent
  PROVE  Grows /\ FeedInv'
<1>1. seq \in Nat /\ seq' = seq + 1 /\ \A x \in Entity : change[x] \in Nat /\ change[x] <= seq
  BY DEF TypeOK, Trigger, FeedInv, Numbered
<1>2. \A x \in Entity : change'[x] = IF x = e THEN seq + 1 ELSE change[x]
  BY DEF TypeOK, Trigger
<1>3. \A x \in Entity : row'[x] = IF x = e THEN v ELSE row[x]
  BY DEF TypeOK
<1>4. \A x \in Entity : deleted'[x] = IF x = e THEN gone ELSE deleted[x]
  BY DEF TypeOK, Trigger
<1>5. Grows
  BY <1>1, <1>2, <1>3 DEF Grows
<1>6. Numbered'
  BY <1>1, <1>2 DEF Numbered, FeedInv
<1>7. \A x \in Entity : /\ change'[x] = 0 => row'[x] = Absent
                        /\ deleted'[x] => row'[x] = Absent
  BY <1>1, <1>2, <1>3, <1>4 DEF FeedInv
<1> QED
  BY <1>5, <1>6, <1>7 DEF FeedInv

\* Every write of the server.
LEMMA WriteGrows ==
  ASSUME TypeOK, FeedInv, Write
  PROVE  Grows /\ FeedInv' /\ UNCHANGED <<copy, cursor, optIn, pull, socket, stream>>
<1>1. ASSUME NEW e \in Entity, NEW v \in Value, Insert(e, v)
      PROVE  Grows /\ FeedInv' /\ UNCHANGED <<copy, cursor, optIn, pull, socket, stream>>
  BY <1>1, TriggerGrows DEF Insert
<1>2. ASSUME NEW e \in Entity, NEW v \in Value, Update(e, v)
      PROVE  Grows /\ FeedInv' /\ UNCHANGED <<copy, cursor, optIn, pull, socket, stream>>
  BY <1>2, TriggerGrows DEF Update
<1>3. ASSUME NEW e \in Entity, Delete(e)
      PROVE  Grows /\ FeedInv' /\ UNCHANGED <<copy, cursor, optIn, pull, socket, stream>>
  BY <1>3, TriggerGrows DEF Delete
<1>4. CASE OtherAccountWrites
  BY <1>4 DEF OtherAccountWrites, TypeOK, Grows, FeedInv, Numbered
<1> QED
  BY <1>1, <1>2, <1>3, <1>4 DEF Write

-----------------------------------------------------------------------------
(* What is read, and what merging it does.                                 *)

\* The first statement's page leaves out only changes past its cursor.
LEMMA PageIsReading ==
  ASSUME TypeOK, FeedInv, NEW after \in Nat, after <= seq,
         NEW r \in Readings(after), IsPage(r)
  PROVE  ReadingInv(r) /\ r.after = after /\ r.cursor \in Nat
<1> DEFINE pending == {e \in Entity : change[e] > r.after}
<1>1. r.after = after /\ r.rows \subseteq pending
  BY DEF Readings, IsPage
<1>2. \A e \in Entity : change[e] \in Nat /\ change[e] <= seq
  BY DEF TypeOK, FeedInv, Numbered
<1>3. r.after <= r.cursor /\ r.cursor <= seq /\ r.cursor \in Nat
  <2>1. CASE r.rows = {}
    BY <1>1, <2>1 DEF IsPage, TypeOK
  <2>2. CASE r.rows # {}
    BY <1>1, <1>2, <2>2 DEF IsPage, TypeOK
  <2> QED
    BY <2>1, <2>2
<1>4. /\ \A e \in r.rows : change[e] # 0
      /\ \A e \in r.gone : row[e] = Absent /\ e \in r.rows
  BY <1>1, <1>2 DEF IsPage, FeedInv
<1>5. ASSUME NEW e \in Entity, e \notin r.rows, ~(change[e] <= r.after)
      PROVE  change[e] > r.cursor
  <2>1. e \in pending \ r.rows
    BY <1>1, <1>2, <1>5
  <2>2. r.rows # {}
    <3>1. Cardinality(r.rows) = PageSize /\ PageSize # 0
      BY <2>1, FeedAssumption DEF IsPage, FeedAssumption
    <3> QED
      BY <3>1, FS_EmptySet
  <2>3. PICK f \in r.rows : r.cursor = change[f]
    BY <2>2 DEF IsPage
  <2>4. change[f] <= change[e] /\ f # e /\ f \in Entity /\ change[f] # 0
    BY <1>1, <1>2, <2>1, <2>3 DEF IsPage
  <2>5. change[f] # change[e]
    BY <2>4 DEF FeedInv, Numbered
  <2> QED
    BY <1>2, <2>3, <2>4, <2>5
<1> QED
  BY <1>1, <1>2, <1>3, <1>4, <1>5 DEF ReadingInv

\* The second statement's values are the rows' own.
LEMMA ReadIsValues ==
  ASSUME TypeOK, NEW d \in Device, NEW r \in Reading, ReadingInv(r),
         NEW all \in BOOLEAN, optIn[d] => all
  PROVE  ValuesInv(d, ValuesOf(r, all), r.after, r.cursor)
<1> DEFINE D == IF all THEN r.rows ELSE r.rows \ Guarded
           values == ValuesOf(r, all)
<1>1. DOMAIN values = D /\ \A e \in D : values[e] = IF e \in r.gone THEN Absent ELSE row[e]
  BY DEF ValuesOf
<1>2. ASSUME NEW e \in Visible(d)
      PROVE  \/ change[e] > r.cursor
             \/ e \in DOMAIN values /\ values[e] = row[e]
             \/ e \notin DOMAIN values /\ change[e] <= r.after
  <2>1. e \in Entity /\ (e \in r.rows => e \in D)
    BY DEF Visible
  <2>2. CASE e \in r.rows
    BY <1>1, <2>1, <2>2 DEF ReadingInv
  <2>3. CASE e \notin r.rows
    BY <1>1, <2>1, <2>3 DEF ReadingInv
  <2> QED
    BY <2>2, <2>3
<1>3. \A e \in DOMAIN values : change[e] # 0
  BY <1>1 DEF ReadingInv
<1> QED
  BY <1>2, <1>3 DEF ValuesInv, ReadingInv

\* A page following a batch extends it.
LEMMA BatchIsValues ==
  ASSUME TypeOK, NEW d \in Device, NEW batch \in Values, NEW got \in Values,
         NEW from \in Nat, NEW mid \in Nat, NEW at \in Nat,
         ValuesInv(d, batch, from, mid), ValuesInv(d, got, mid, at)
  PROVE  ValuesInv(d, [e \in DOMAIN got \cup DOMAIN batch |->
                         IF e \in DOMAIN got THEN got[e] ELSE batch[e]], from, at)
<1> DEFINE f == [e \in DOMAIN got \cup DOMAIN batch |->
                   IF e \in DOMAIN got THEN got[e] ELSE batch[e]]
<1>1. ASSUME NEW e \in Visible(d)
      PROVE  \/ change[e] > at
             \/ e \in DOMAIN f /\ f[e] = row[e]
             \/ e \notin DOMAIN f /\ change[e] <= from
  <2>1. change[e] \in Nat
    BY DEF Visible, TypeOK
  <2>2. CASE e \in DOMAIN got
    BY <2>1, <2>2 DEF ValuesInv
  <2>3. CASE e \notin DOMAIN got
    BY <2>1, <2>3 DEF ValuesInv
  <2> QED
    BY <2>2, <2>3
<1> HIDE DEF f
<1>2. at <= seq /\ \A e \in DOMAIN f : change[e] # 0
  BY DEF ValuesInv, f
<1>3. ValuesInv(d, f, from, at)
  BY <1>1, <1>2 DEF ValuesInv
<1> QED
  BY <1>3 DEF f

\* An empty batch, where a loop begins.
LEMMA EmptyIsValues ==
  ASSUME TypeOK, NEW d \in Device, NEW at \in Nat, at <= seq
  PROVE  ValuesInv(d, NoValues, at, at)
<1>1. \A e \in Visible(d) : e \notin DOMAIN NoValues /\ change[e] \in Nat
  BY DEF Visible, NoValues, TypeOK
<1>2. \A e \in DOMAIN NoValues : FALSE
  BY DEF NoValues
<1> QED
  BY <1>1, <1>2 DEF ValuesInv

\* Merging values read from no further than the device's cursor keeps every
\* difference pending.
LEMMA MergeCopy ==
  ASSUME TypeOK, NEW d \in Device, CopyInv(d), UNCHANGED <<server, optIn>>,
         NEW values \in Values, NEW from \in Nat, NEW at \in Nat, from <= cursor[d],
         ValuesInv(d, values, from, at), Merge(d, values, at)
  PROVE  /\ CopyInv(d)'
         /\ cursor'[d] \in Nat /\ cursor'[d] >= cursor[d] /\ cursor'[d] >= at
         /\ \A x \in Device \ {d} : copy'[x] = copy[x] /\ cursor'[x] = cursor[x]
<1>1. Visible(d)' = Visible(d) /\ Visible(d) \subseteq Entity
  BY DEF Visible
<1>2. cursor[d] \in Nat /\ cursor[d] <= seq /\ at <= seq
  BY DEF TypeOK, CopyInv, ValuesInv
<1>3. CASE at < cursor[d]
  BY <1>1, <1>2, <1>3 DEF Merge, CopyInv, server
<1>4. CASE ~(at < cursor[d])
  <2>1. cursor' = [cursor EXCEPT ![d] = at] /\ cursor'[d] = at
    BY <1>4 DEF Merge, TypeOK
  <2>2. \A e \in Entity : copy'[d][e] = IF e \in DOMAIN values THEN values[e] ELSE copy[d][e]
    BY <1>4 DEF Merge, TypeOK
  <2>3. \A x \in Device \ {d} : copy'[x] = copy[x] /\ cursor'[x] = cursor[x]
    BY <1>4 DEF Merge, TypeOK
  <2>4. ASSUME NEW e \in Visible(d)
        PROVE  copy'[d][e] = row[e] \/ change[e] > at
    <3>1. copy[d][e] = row[e] \/ change[e] > cursor[d]
      BY DEF CopyInv
    <3>2. change[e] \in Nat /\ e \in Entity
      BY <1>1 DEF TypeOK
    <3> QED
      BY <1>2, <2>2, <3>1, <3>2 DEF ValuesInv
  <2>5. \A e \in Entity : change[e] = 0 => copy'[d][e] = Absent
    BY <2>2 DEF CopyInv, ValuesInv
  <2> QED
    BY <1>1, <1>2, <1>4, <2>1, <2>3, <2>4, <2>5 DEF CopyInv, server
<1> QED
  BY <1>3, <1>4

-----------------------------------------------------------------------------
(* The devices' steps.                                                     *)

\* A step of one device keeps the invariant if it keeps that device's part.
LEMMA OneDevice ==
  ASSUME TypeOK, IInv, UNCHANGED server, NEW d \in Device, DeviceInv(d)',
         \A x \in Device \ {d} :
           /\ copy'[x] = copy[x] /\ cursor'[x] = cursor[x] /\ optIn'[x] = optIn[x]
           /\ pull'[x] = pull[x] /\ socket'[x] = socket[x] /\ stream'[x] = stream[x]
  PROVE  IInv'
<1>1. Grows /\ FeedInv'
  BY UnchangedGrows, UnchangedFeed DEF IInv
<1>2. \A x \in Device \ {d} : DeviceInv(x)'
  BY <1>1, GrowsDevice DEF IInv
<1> QED
  BY <1>1, <1>2 DEF IInv

\* A catch-up starts from the device's cursor.
LEMMA StartPullInv ==
  ASSUME TypeOK, IInv, NEW d \in Device, StartPull(d)
  PROVE  IInv'
<1> DEFINE p == [NoPull EXCEPT !.phase = "ask", !.from = cursor[d], !.at = cursor[d]]
<1>1. pull' = [pull EXCEPT ![d] = p] /\ UNCHANGED <<server, device, socket, stream>>
  BY DEF StartPull
<1>2. pull'[d] = p
  BY <1>1 DEF TypeOK
<1>3. CopyInv(d) /\ SocketInv(d) /\ StreamInv(d) /\ Grows
  BY <1>1, UnchangedGrows DEF IInv, DeviceInv
<1>4. p.phase = "ask" /\ p.from = cursor[d] /\ p.at = cursor[d] /\ p.batch = NoValues
  BY DEF NoPull
<1>5. cursor[d] \in Nat /\ cursor[d] <= seq
  BY <1>3 DEF TypeOK, CopyInv
<1>6. ValuesInv(d, NoValues, cursor[d], cursor[d])
  BY <1>5, EmptyIsValues
<1>7. PullInv(d)'
  <2> HIDE DEF p
  <2> QED
    BY <1>1, <1>2, <1>4, <1>5, <1>6 DEF PullInv, ValuesInv, Visible, server, device
<1>8. CopyInv(d)' /\ SocketInv(d)' /\ StreamInv(d)'
  BY <1>1, <1>3, GrowsCopy, GrowsSocket, GrowsStream DEF device
<1>9. DeviceInv(d)'
  BY <1>7, <1>8 DEF DeviceInv
<1> HIDE DEF p
<1> QED
  BY <1>1, <1>9, OneDevice DEF device, TypeOK

\* The rows a page is cut from are all those of its range.
LEMMA PullRowsInv ==
  ASSUME TypeOK, IInv, NEW d \in Device, PullRows(d)
  PROVE  IInv'
<1> DEFINE p == pull[d]
<1>1. PICK r \in Readings(p.at) :
        IsPage(r) /\ pull' = [pull EXCEPT ![d].phase = "reading", ![d].reading = r]
  BY DEF PullRows
<1>2. p.phase = "ask" /\ UNCHANGED <<server, device, socket, stream>>
  BY DEF PullRows
<1>3. CopyInv(d) /\ PullInv(d) /\ SocketInv(d) /\ StreamInv(d) /\ Grows
  BY <1>2, UnchangedGrows DEF IInv, DeviceInv
<1>4. p \in Pull /\ p.at \in Nat /\ p.from \in Nat
  BY DEF TypeOK, Pull
<1>5. p.from <= cursor[d] /\ ValuesInv(d, p.batch, p.from, p.at) /\ p.at <= seq
  BY <1>2, <1>3 DEF PullInv, ValuesInv
<1>6. ReadingInv(r) /\ r.after = p.at
  BY <1>1, <1>4, <1>5, PageIsReading DEF IInv
<1>7. pull'[d] = [p EXCEPT !.phase = "reading", !.reading = r]
  BY <1>1 DEF TypeOK
<1>8. /\ pull'[d].phase = "reading" /\ pull'[d].reading = r /\ pull'[d].from = p.from
      /\ pull'[d].at = p.at /\ pull'[d].batch = p.batch
  BY <1>4, <1>7 DEF Pull
<1>9. PullInv(d)'
  BY <1>2, <1>5, <1>6, <1>8 DEF PullInv, ValuesInv, ReadingInv, Visible, server, device
<1>10. CopyInv(d)' /\ SocketInv(d)' /\ StreamInv(d)'
  BY <1>2, <1>3, GrowsCopy, GrowsSocket, GrowsStream DEF device
<1>11. DeviceInv(d)'
  BY <1>9, <1>10 DEF DeviceInv
<1>12. \A x \in Device \ {d} : pull'[x] = pull[x]
  BY <1>1 DEF TypeOK
<1> QED
  BY <1>2, <1>11, <1>12, OneDevice DEF device

\* The values read later are no older than the rows.
LEMMA PullValuesInv ==
  ASSUME TypeOK, IInv, NEW d \in Device, PullValues(d)
  PROVE  IInv'
<1> DEFINE p == pull[d]
           r == p.reading
           got == ValuesOf(r, optIn[d])
           batch == [e \in DOMAIN got \cup DOMAIN p.batch |->
                       IF e \in DOMAIN got THEN got[e] ELSE p.batch[e]]
           next == [p EXCEPT !.phase = "answered", !.at = r.cursor,
                             !.size = @ + Cardinality(DOMAIN got), !.batch = batch]
<1>1. p.phase = "reading" /\ UNCHANGED <<server, device, stream>>
  BY DEF PullValues
<1>2. pull' = [pull EXCEPT ![d] = next]
  BY DEF PullValues
<1>3. CopyInv(d) /\ PullInv(d) /\ SocketInv(d) /\ StreamInv(d) /\ Grows
  BY <1>1, UnchangedGrows DEF IInv, DeviceInv
<1>4. /\ p \in Pull /\ p.at \in Nat /\ p.from \in Nat /\ p.batch \in Values
      /\ r \in Reading /\ r.cursor \in Nat /\ optIn[d] \in BOOLEAN
  BY DEF TypeOK, Pull, Reading
<1>5. p.from <= cursor[d] /\ ValuesInv(d, p.batch, p.from, p.at)
  BY <1>1, <1>3 DEF PullInv
<1>6. ReadingInv(r) /\ r.after = p.at /\ r.cursor <= seq
  BY <1>1, <1>3 DEF PullInv, ReadingInv
<1>7. ValuesInv(d, got, p.at, r.cursor) /\ got \in Values
  BY <1>4, <1>6, ReadIsValues, ValuesOfType
<1> HIDE DEF got
<1>8. ValuesInv(d, batch, p.from, r.cursor)
  BY <1>4, <1>5, <1>7, BatchIsValues
<1> HIDE DEF batch
<1>9. /\ next.phase = "answered" /\ next.from = p.from /\ next.at = r.cursor
      /\ next.batch = batch
  <2> HIDE DEF p
  <2> QED
    BY <1>4 DEF Pull
<1> HIDE DEF next
<1>10. pull'[d] = next /\ \A x \in Device \ {d} : pull'[x] = pull[x]
  BY <1>2 DEF TypeOK
<1>11. PullInv(d)'
  BY <1>1, <1>5, <1>8, <1>9, <1>10 DEF PullInv, ValuesInv, Visible, server, device
<1>12. SocketInv(d)' /\ \A x \in Device \ {d} : socket'[x] = socket[x]
  <2>1. CASE UNCHANGED socket
    BY <1>3, <2>1, GrowsSocket
  <2>2. CASE socket[d].phase = "open" /\ socket' = [socket EXCEPT ![d].delivered = r.cursor]
    <3>1. socket'[d].phase = "open" /\ socket'[d].delivered = r.cursor
      <4> DEFINE s == socket[d]
      <4>1. s \in Socket /\ s.phase = "open" /\ socket'[d] = [s EXCEPT !.delivered = r.cursor]
        BY <2>2 DEF TypeOK
      <4> HIDE DEF s, r
      <4> QED
        BY <4>1 DEF Socket
    <3>2. \A x \in Device \ {d} : socket'[x] = socket[x]
      BY <2>2 DEF TypeOK
    <3> QED
      BY <1>1, <1>6, <3>1, <3>2 DEF SocketInv, server
  <2> QED
    BY <2>1, <2>2 DEF PullValues
<1>13. CopyInv(d)' /\ StreamInv(d)'
  BY <1>1, <1>3, GrowsCopy, GrowsStream DEF device
<1>14. DeviceInv(d)'
  BY <1>11, <1>12, <1>13 DEF DeviceInv
<1> QED
  BY <1>1, <1>10, <1>12, <1>14, OneDevice DEF device

\* A page taken extends the batch, or the batch is merged whole.
LEMMA TakePageInv ==
  ASSUME TypeOK, IInv, NEW d \in Device, TakePage(d)
  PROVE  IInv'
<1> DEFINE p == pull[d]
           on == p.reading.more
<1>1. p.phase = "answered" /\ UNCHANGED <<server, optIn, socket, stream>>
  BY DEF TakePage
<1>2. CopyInv(d) /\ PullInv(d) /\ SocketInv(d) /\ StreamInv(d) /\ Grows
  BY <1>1, UnchangedGrows DEF IInv, DeviceInv
<1>3. p \in Pull /\ p.at \in Nat /\ p.from \in Nat /\ p.batch \in Values
  BY DEF TypeOK, Pull
<1>4. p.from <= cursor[d] /\ ValuesInv(d, p.batch, p.from, p.at) /\ p.at <= seq
  BY <1>1, <1>2 DEF PullInv, ValuesInv
<1>5. CASE on /\ p.size < MergeSize
  <2> DEFINE next == [p EXCEPT !.phase = "ask", !.reading = NoReading]
  <2>1. pull' = [pull EXCEPT ![d] = next] /\ UNCHANGED <<copy, cursor>>
    BY <1>5 DEF TakePage
  <2>2. next.phase = "ask" /\ next.from = p.from /\ next.at = p.at /\ next.batch = p.batch
    <3> HIDE DEF p
    <3> QED
      BY <1>3 DEF Pull
  <2> HIDE DEF next
  <2>3. pull'[d] = next /\ \A x \in Device \ {d} : pull'[x] = pull[x]
    BY <2>1 DEF TypeOK
  <2>4. PullInv(d)'
    BY <1>1, <1>4, <2>1, <2>2, <2>3 DEF PullInv, ValuesInv, Visible, server
  <2>5. CopyInv(d)' /\ SocketInv(d)' /\ StreamInv(d)'
    BY <1>1, <1>2, <2>1, GrowsCopy, GrowsSocket, GrowsStream
  <2>6. DeviceInv(d)'
    BY <2>4, <2>5 DEF DeviceInv
  <2> QED
    BY <1>1, <2>1, <2>3, <2>6, OneDevice
<1>6. CASE ~(on /\ p.size < MergeSize)
  <2> DEFINE again == [NoPull EXCEPT !.phase = "ask", !.from = p.at, !.at = p.at]
  <2>1. Merge(d, p.batch, p.at) /\ pull' = [pull EXCEPT ![d] = IF on THEN again ELSE NoPull]
    BY <1>6 DEF TakePage
  <2>2. /\ CopyInv(d)' /\ cursor'[d] \in Nat /\ cursor'[d] >= p.at
        /\ \A x \in Device \ {d} : copy'[x] = copy[x] /\ cursor'[x] = cursor[x]
    BY <1>1, <1>2, <1>3, <1>4, <2>1, MergeCopy
  <2>3. /\ again.phase = "ask" /\ again.from = p.at /\ again.at = p.at
        /\ again.batch = NoValues /\ NoPull.phase = "idle"
    BY DEF NoPull
  <2> HIDE DEF again
  <2>4. /\ pull'[d] = again \/ pull'[d] = NoPull
        /\ \A x \in Device \ {d} : pull'[x] = pull[x]
    BY <2>1 DEF TypeOK
  <2>5. ValuesInv(d, NoValues, p.at, p.at)
    BY <1>3, <1>4, EmptyIsValues
  <2>6. PullInv(d)'
    BY <1>1, <1>3, <2>2, <2>3, <2>4, <2>5 DEF PullInv, ValuesInv, Visible, server
  <2>7. SocketInv(d)' /\ StreamInv(d)'
    BY <1>1, <1>2, GrowsSocket, GrowsStream
  <2>8. DeviceInv(d)'
    BY <2>2, <2>6, <2>7 DEF DeviceInv
  <2> QED
    BY <1>1, <2>2, <2>4, <2>8, OneDevice
<1> QED
  BY <1>5, <1>6

\* A catch-up given up leaves the device where it was.
LEMMA AbandonPullInv ==
  ASSUME TypeOK, IInv, NEW d \in Device, AbandonPull(d)
  PROVE  IInv'
<1>1. pull' = [pull EXCEPT ![d] = NoPull] /\ UNCHANGED <<server, device, socket, stream>>
  BY DEF AbandonPull
<1>2. pull'[d].phase = "idle" /\ \A x \in Device \ {d} : pull'[x] = pull[x]
  BY <1>1 DEF TypeOK, NoPull
<1>3. CopyInv(d)' /\ SocketInv(d)' /\ StreamInv(d)'
  BY <1>1, UnchangedGrows, GrowsCopy, GrowsSocket, GrowsStream DEF IInv, DeviceInv, device
<1>4. DeviceInv(d)'
  BY <1>2, <1>3 DEF DeviceInv, PullInv
<1> QED
  BY <1>1, <1>2, <1>4, OneDevice DEF device

\* A socket streams from the cursor its device signed in with.
LEMMA ConnectInv ==
  ASSUME TypeOK, IInv, NEW d \in Device, Connect(d)
  PROVE  IInv'
<1> DEFINE s == [NoSocket EXCEPT !.phase = "open", !.delivered = cursor[d]]
<1>1. socket' = [socket EXCEPT ![d] = s] /\ UNCHANGED <<server, device, pull, stream>>
  BY DEF Connect
<1>2. s.phase = "open" /\ s.delivered = cursor[d]
  BY DEF NoSocket
<1> HIDE DEF s
<1>3. socket'[d] = s /\ \A x \in Device \ {d} : socket'[x] = socket[x]
  BY <1>1 DEF TypeOK
<1>4. CopyInv(d) /\ PullInv(d) /\ StreamInv(d) /\ Grows /\ cursor[d] \in Nat
  BY <1>1, UnchangedGrows DEF IInv, DeviceInv, TypeOK
<1>5. SocketInv(d)'
  BY <1>1, <1>2, <1>3, <1>4 DEF SocketInv, CopyInv, server
<1>6. CopyInv(d)' /\ PullInv(d)' /\ StreamInv(d)'
  BY <1>1, <1>4, GrowsCopy, GrowsPull, GrowsStream DEF device
<1>7. DeviceInv(d)'
  BY <1>5, <1>6 DEF DeviceInv
<1> QED
  BY <1>1, <1>3, <1>7, OneDevice DEF device

\* The same for the rows of a streamed page.
LEMMA StreamRowsInv ==
  ASSUME TypeOK, IInv, NEW d \in Device, StreamRows(d)
  PROVE  IInv'
<1> DEFINE s == socket[d]
<1>1. PICK r \in Readings(s.delivered) :
        IsPage(r) /\ socket' = [socket EXCEPT ![d].phase = "reading", ![d].reading = r]
  BY DEF StreamRows
<1>2. UNCHANGED <<server, device, pull, stream>>
  BY DEF StreamRows
<1>3. CopyInv(d) /\ PullInv(d) /\ SocketInv(d) /\ StreamInv(d) /\ Grows /\ cursor[d] \in Nat
  BY <1>2, UnchangedGrows DEF IInv, DeviceInv, TypeOK
<1>4. s \in Socket /\ s.delivered \in Nat /\ s.delivered <= seq
  BY <1>3 DEF TypeOK, Socket, SocketInv
<1>5. ReadingInv(r) /\ r.after = s.delivered
  BY <1>1, <1>4, PageIsReading DEF IInv
<1>6. socket'[d] = [s EXCEPT !.phase = "reading", !.reading = r]
  BY <1>1 DEF TypeOK
<1>7. socket'[d].reading = r /\ socket'[d].delivered = s.delivered
  BY <1>4, <1>6 DEF Socket
<1>8. SocketInv(d)'
  BY <1>2, <1>4, <1>5, <1>7 DEF SocketInv, ReadingInv, server
<1>9. CopyInv(d)' /\ PullInv(d)' /\ StreamInv(d)'
  BY <1>2, <1>3, GrowsCopy, GrowsPull, GrowsStream DEF device
<1>10. DeviceInv(d)'
  BY <1>8, <1>9 DEF DeviceInv
<1>11. \A x \in Device \ {d} : socket'[x] = socket[x]
  BY <1>1 DEF TypeOK
<1> QED
  BY <1>2, <1>10, <1>11, OneDevice DEF device

\* A page joins the stream where the last one ended.
LEMMA StreamValuesInv ==
  ASSUME TypeOK, IInv, NEW d \in Device, StreamValues(d)
  PROVE  IInv'
<1> DEFINE r == socket[d].reading
           page == [after |-> r.after, cursor |-> r.cursor, values |-> ValuesOf(r, TRUE)]
<1>1. socket[d].phase = "reading" /\ UNCHANGED <<server, device, pull>>
  BY DEF StreamValues
<1>2. CopyInv(d) /\ PullInv(d) /\ SocketInv(d) /\ StreamInv(d) /\ Grows /\ cursor[d] \in Nat
  BY <1>1, UnchangedGrows DEF IInv, DeviceInv, TypeOK
<1>3. r \in Reading /\ r.cursor \in Nat /\ ReadingInv(r) /\ r.cursor <= seq
  BY <1>1, <1>2 DEF TypeOK, Socket, Reading, SocketInv, ReadingInv
<1>4. ValuesInv(d, ValuesOf(r, TRUE), r.after, r.cursor)
  BY <1>3, ReadIsValues DEF TypeOK
<1>5. PageInv(d, page) /\ page \in Page
  BY <1>3, <1>4, ValuesOfType DEF PageInv, Page, Reading
<1>6. /\ socket'[d].phase = "open" /\ socket'[d].delivered = r.cursor
      /\ \A x \in Device \ {d} : socket'[x] = socket[x]
  BY DEF StreamValues, TypeOK
<1>7. stream' = stream \/ stream' = [stream EXCEPT ![d] = Append(stream[d], page)]
  BY DEF StreamValues
<1> HIDE DEF page
<1>8. SocketInv(d)'
  BY <1>1, <1>3, <1>6 DEF SocketInv, server
<1>9. StreamInv(d)' /\ \A x \in Device \ {d} : stream'[x] = stream[x]
  <2>1. CASE stream' = stream
    BY <1>1, <1>2, <2>1, GrowsStream DEF device
  <2>2. CASE stream' = [stream EXCEPT ![d] = Append(stream[d], page)]
    <3>1. stream[d] \in Seq(Page) /\ stream'[d] = Append(stream[d], page)
      BY <2>2 DEF TypeOK
    <3>2. ASSUME NEW i \in 1..Len(stream'[d])
          PROVE  PageInv(d, stream'[d][i])
      <4>1. \/ i \in 1..Len(stream[d]) /\ stream'[d][i] = stream[d][i]
            \/ stream'[d][i] = page
        BY <1>5, <3>1, AppendProperties
      <4> QED
        BY <1>2, <1>5, <4>1 DEF StreamInv
    <3>3. StreamInv(d)'
      BY <1>1, <3>2 DEF StreamInv, PageInv, ValuesInv, Visible, server, device
    <3> QED
      BY <2>2, <3>3 DEF TypeOK
  <2> QED
    BY <1>7, <2>1, <2>2
<1>10. CopyInv(d)' /\ PullInv(d)'
  BY <1>1, <1>2, GrowsCopy, GrowsPull DEF device
<1>11. DeviceInv(d)'
  BY <1>8, <1>9, <1>10 DEF DeviceInv
<1> QED
  BY <1>1, <1>6, <1>9, <1>11, OneDevice DEF device

\* A streamed page is merged only where the device is.
LEMMA ReceiveChangesInv ==
  ASSUME TypeOK, IInv, NEW d \in Device, ReceiveChanges(d)
  PROVE  IInv'
<1> DEFINE page == Head(stream[d])
<1>1. /\ stream[d] # <<>> /\ UNCHANGED <<server, optIn, pull, socket>>
      /\ stream' = [stream EXCEPT ![d] = Tail(stream[d])]
  BY DEF ReceiveChanges
<1>2. CopyInv(d) /\ PullInv(d) /\ SocketInv(d) /\ StreamInv(d) /\ Grows /\ cursor[d] \in Nat
  BY <1>1, UnchangedGrows DEF IInv, DeviceInv, TypeOK
<1>3. stream[d] \in Seq(Page) /\ page = stream[d][1] /\ 1 \in 1..Len(stream[d])
  BY <1>1 DEF TypeOK
<1>4. page \in Page /\ PageInv(d, page)
  BY <1>2, <1>3 DEF StreamInv
<1> HIDE DEF page
<1>5. /\ page.values \in Values /\ page.after \in Nat /\ page.cursor \in Nat
      /\ ValuesInv(d, page.values, page.after, page.cursor)
  BY <1>4 DEF PageInv, Page
<1>6. /\ CopyInv(d)' /\ cursor'[d] \in Nat /\ cursor'[d] >= cursor[d]
      /\ \A x \in Device \ {d} : copy'[x] = copy[x] /\ cursor'[x] = cursor[x]
  <2>1. CASE UNCHANGED <<copy, cursor>>
    BY <1>1, <1>2, <2>1, GrowsCopy
  <2>2. CASE Merge(d, page.values, page.cursor) /\ ~(page.after > cursor[d])
    <3>1. page.after <= cursor[d]
      BY <1>2, <1>5, <2>2
    <3> QED
      BY <1>1, <1>2, <1>5, <2>2, <3>1, MergeCopy
  <2> QED
    BY <2>1, <2>2 DEF ReceiveChanges, page
<1>7. StreamInv(d)' /\ \A x \in Device \ {d} : stream'[x] = stream[x]
  <2>1. stream'[d] = Tail(stream[d])
    BY <1>1 DEF TypeOK
  <2>2. ASSUME NEW i \in 1..Len(stream'[d])
        PROVE  PageInv(d, stream'[d][i])
    <3>1. /\ Len(Tail(stream[d])) = Len(stream[d]) - 1 /\ Len(stream[d]) \in Nat
          /\ \A j \in 1..Len(Tail(stream[d])) : Tail(stream[d])[j] = stream[d][j + 1]
      BY <1>1, <1>3, HeadTailProperties
    <3>2. i + 1 \in 1..Len(stream[d]) /\ stream'[d][i] = stream[d][i + 1]
      BY <2>1, <3>1
    <3> QED
      BY <1>2, <3>2 DEF StreamInv
  <2>3. StreamInv(d)'
    BY <1>1, <2>2 DEF StreamInv, PageInv, ValuesInv, Visible, server
  <2> QED
    BY <1>1, <2>3 DEF TypeOK
<1>8. PullInv(d)' /\ SocketInv(d)'
  BY <1>1, <1>2, <1>6, GrowsPull, GrowsSocket
<1>9. DeviceInv(d)'
  BY <1>6, <1>7, <1>8 DEF DeviceInv
<1> QED
  BY <1>1, <1>6, <1>7, <1>9, OneDevice

\* A lost socket takes its pages with it.
LEMMA DisconnectInv ==
  ASSUME TypeOK, IInv, NEW d \in Device, Disconnect(d)
  PROVE  IInv'
<1>1. /\ socket' = [socket EXCEPT ![d] = NoSocket] /\ stream' = [stream EXCEPT ![d] = <<>>]
      /\ UNCHANGED <<server, device, pull>>
  BY DEF Disconnect
<1>2. /\ socket'[d] = NoSocket /\ stream'[d] = <<>>
      /\ \A x \in Device \ {d} : socket'[x] = socket[x] /\ stream'[x] = stream[x]
  BY <1>1 DEF TypeOK
<1>3. seq' \in Nat /\ CopyInv(d) /\ PullInv(d) /\ Grows /\ cursor[d] \in Nat
  BY <1>1, UnchangedGrows DEF IInv, DeviceInv, TypeOK, Grows
<1>4. SocketInv(d)' /\ StreamInv(d)'
  BY <1>2, <1>3 DEF SocketInv, StreamInv, NoSocket
<1>5. CopyInv(d)' /\ PullInv(d)'
  BY <1>1, <1>3, GrowsCopy, GrowsPull DEF device
<1>6. DeviceInv(d)'
  BY <1>4, <1>5 DEF DeviceInv
<1> QED
  BY <1>1, <1>2, <1>6, OneDevice DEF device

\* An upgraded device holds no guarded row and has every change before it.
LEMMA UpgradeInv ==
  ASSUME TypeOK, IInv, NEW d \in Device, Upgrade(d)
  PROVE  IInv'
<1>1. UNCHANGED <<server, copy>>
  BY DEF Upgrade
<1>2. /\ optIn'[d] = TRUE /\ cursor'[d] = 0 /\ pull'[d] = NoPull
      /\ socket'[d] = NoSocket /\ stream'[d] = <<>>
      /\ \A x \in Device \ {d} :
           /\ cursor'[x] = cursor[x] /\ optIn'[x] = optIn[x] /\ pull'[x] = pull[x]
           /\ socket'[x] = socket[x] /\ stream'[x] = stream[x]
  BY DEF Upgrade, TypeOK
<1>3. seq \in Nat /\ seq' = seq /\ \A e \in Entity : change[e] \in Nat
  BY <1>1 DEF TypeOK, server
<1>4. CopyInv(d) /\ FeedInv
  BY DEF IInv, DeviceInv
<1>5. ASSUME NEW e \in Entity
      PROVE  copy[d][e] = row[e] \/ change[e] > 0
  <2>1. CASE change[e] # 0
    BY <1>3, <2>1
  <2>2. CASE change[e] = 0
    BY <1>4, <2>2 DEF FeedInv, CopyInv
  <2> QED
    BY <2>1, <2>2
<1>6. CopyInv(d)'
  BY <1>1, <1>2, <1>3, <1>4, <1>5 DEF CopyInv, Visible, server
<1>7. PullInv(d)' /\ SocketInv(d)' /\ StreamInv(d)'
  BY <1>2, <1>3 DEF PullInv, SocketInv, StreamInv, NoPull, NoSocket
<1>8. DeviceInv(d)'
  BY <1>6, <1>7 DEF DeviceInv
<1> QED
  BY <1>1, <1>2, <1>8, OneDevice

-----------------------------------------------------------------------------
\* Every step keeps the invariant.
LEMMA InvStep == TypeOK /\ IInv /\ [Next]_vars => IInv'
<1> SUFFICES ASSUME TypeOK, IInv, [Next]_vars
             PROVE  IInv'
  OBVIOUS
<1>1. CASE Write
  <2>1. /\ Grows /\ FeedInv'
        /\ UNCHANGED <<copy, cursor, optIn, pull, socket, stream>>
    BY <1>1, WriteGrows DEF IInv
  <2>2. \A d \in Device : DeviceInv(d)'
    BY <2>1, GrowsDevice DEF IInv
  <2> QED
    BY <2>1, <2>2 DEF IInv
<1>2. ASSUME NEW d \in Device, Catchup(d) \/ AbandonPull(d)
      PROVE  IInv'
  BY <1>2, StartPullInv, PullRowsInv, PullValuesInv, TakePageInv, AbandonPullInv DEF Catchup
<1>3. ASSUME NEW d \in Device, Live(d) \/ Disconnect(d)
      PROVE  IInv'
  BY <1>3, ConnectInv, StreamRowsInv, StreamValuesInv, ReceiveChangesInv, DisconnectInv DEF Live
<1>4. ASSUME NEW d \in Device, Upgrade(d)
      PROVE  IInv'
  BY <1>4, UpgradeInv
<1>5. CASE UNCHANGED vars
  <2>1. Grows /\ FeedInv'
    BY <1>5, UnchangedGrows, UnchangedFeed DEF vars, server, IInv
  <2>2. \A d \in Device : DeviceInv(d)'
    BY <1>5, <2>1, GrowsDevice DEF vars, IInv
  <2> QED
    BY <2>1, <2>2 DEF IInv
<1> QED
  BY <1>1, <1>2, <1>3, <1>4, <1>5 DEF Next

\* Initially there is nothing to know.
LEMMA InitInv == Init => IInv
<1> SUFFICES ASSUME Init
             PROVE  IInv
  OBVIOUS
<1>1. FeedInv
  BY DEF Init, FeedInv, Numbered
<1>2. ASSUME NEW d \in Device
      PROVE  DeviceInv(d)
  BY DEF Init, DeviceInv, CopyInv, Visible, PullInv, SocketInv, StreamInv, NoPull, NoSocket
<1> QED
  BY <1>1, <1>2 DEF IInv

\* The feed, the reads of it and the pages on their way are always in order.
THEOREM FeedInvariant == Spec => []IInv
<1>1. Init => TypeOK /\ IInv
  BY InitInv, IdleTypes, FeedAssumption DEF Init, TypeOK, Content, FeedAssumption
<1>2. TypeOK /\ IInv /\ [Next]_vars => (TypeOK /\ IInv)'
  BY TypeStep, InvStep
<1> QED
  BY <1>1, <1>2, PTL DEF Spec

\* A difference between a device and the server is always ahead of the
\* device's cursor.
THEOREM StaleAlwaysPending == Spec => []StaleIsPending
<1>1. IInv => StaleIsPending
  BY DEF IInv, DeviceInv, CopyInv, StaleIsPending
<1> QED
  BY <1>1, FeedInvariant, PTL

\* Numbers of the feed are never shared.
THEOREM AlwaysNumbered == Spec => []Numbered
<1>1. IInv => Numbered
  BY DEF IInv, FeedInv
<1> QED
  BY <1>1, FeedInvariant, PTL

\* A device whose cursor is the feed's end holds the account's rows.
THEOREM CaughtUpIsEqual == Spec => []CaughtUp
<1>1. TypeOK /\ IInv => CaughtUp
  <2> SUFFICES ASSUME TypeOK, IInv, NEW d \in Device, cursor[d] = seq, NEW e \in Visible(d)
               PROVE  copy[d][e] = row[e]
    BY DEF CaughtUp
  <2>1. e \in Entity /\ change[e] \in Nat /\ seq \in Nat /\ change[e] <= seq
    BY DEF Visible, TypeOK, IInv, FeedInv, Numbered
  <2>2. copy[d][e] = row[e] \/ change[e] > cursor[d]
    BY DEF IInv, DeviceInv, CopyInv
  <2> QED
    BY <2>1, <2>2
<1> QED
  BY <1>1, FeedInvariant, TypeCorrect, PTL

-----------------------------------------------------------------------------
\* A merge never takes the cursor back.
LEMMA MergeForward ==
  ASSUME TypeOK, NEW d \in Device, NEW values, NEW at \in Nat, Merge(d, values, at)
  PROVE  \A x \in Device : cursor'[x] >= cursor[x]
<1>1. cursor \in [Device -> Nat]
  BY DEF TypeOK
<1>2. CASE at < cursor[d]
  BY <1>1, <1>2 DEF Merge
<1>3. CASE ~(at < cursor[d])
  <2>1. cursor' = [cursor EXCEPT ![d] = at]
    BY <1>3 DEF Merge
  <2> QED
    BY <1>1, <1>3, <2>1
<1> QED
  BY <1>2, <1>3

\* However late a page comes, no device goes back in the feed, but once when its app
\* learns the guarded kinds.
THEOREM CursorNeverBack == Spec => CursorForward
<1> DEFINE Forward == \A d \in Device : cursor'[d] >= cursor[d] \/ (~optIn[d] /\ optIn'[d])
<1>1. TypeOK /\ [Next]_vars => [Forward]_vars
  <2> SUFFICES ASSUME TypeOK, [Next]_vars
               PROVE  Forward
    OBVIOUS
  <2>1. /\ cursor \in [Device -> Nat]
        /\ optIn \in [Device -> BOOLEAN]
        /\ pull \in [Device -> Pull]
    BY DEF TypeOK
  <2>2. CASE UNCHANGED cursor
    BY <2>1, <2>2
  <2>3. ASSUME NEW d \in Device, TakePage(d)
        PROVE  Forward
    <3>1. pull[d].at \in Nat
      BY <2>1 DEF Pull
    <3>2. UNCHANGED cursor \/ Merge(d, pull[d].batch, pull[d].at)
      BY <2>3 DEF TakePage
    <3> QED
      BY <2>2, <3>1, <3>2, MergeForward
  <2>4. ASSUME NEW d \in Device, ReceiveChanges(d)
        PROVE  Forward
    <3>1. Head(stream[d]).cursor \in Nat
      <4>1. stream[d] \in Seq(Page) /\ stream[d] # <<>>
        BY <2>4 DEF ReceiveChanges, TypeOK
      <4>2. Head(stream[d]) \in Page
        BY <4>1
      <4> QED
        BY <4>2 DEF Page
    <3>2. UNCHANGED cursor \/ Merge(d, Head(stream[d]).values, Head(stream[d]).cursor)
      BY <2>4 DEF ReceiveChanges
    <3> QED
      BY <2>2, <3>1, <3>2, MergeForward
  <2>5. ASSUME NEW d \in Device, Upgrade(d)
        PROVE  Forward
    <3>1. \A x \in Device : x # d => cursor'[x] = cursor[x]
      BY <2>1, <2>5 DEF Upgrade
    <3>2. ~optIn[d] /\ optIn'[d]
      BY <2>1, <2>5 DEF Upgrade
    <3> QED
      BY <2>1, <3>1, <3>2
  <2>6. CASE Write
    BY <2>2, <2>6 DEF Write, Insert, Update, Delete, OtherAccountWrites
  <2>7. ASSUME NEW d \in Device, StartPull(d) \/ PullRows(d) \/ PullValues(d) \/ AbandonPull(d)
        PROVE  Forward
    BY <2>2, <2>7 DEF StartPull, PullRows, PullValues, AbandonPull, device
  <2>8. ASSUME NEW d \in Device, Connect(d) \/ StreamRows(d) \/ StreamValues(d) \/ Disconnect(d)
        PROVE  Forward
    BY <2>2, <2>8 DEF Connect, StreamRows, StreamValues, Disconnect, device
  <2>9. CASE UNCHANGED vars
    BY <2>2, <2>9 DEF vars
  <2> QED
    BY <2>3, <2>4, <2>5, <2>6, <2>7, <2>8, <2>9 DEF Next, Catchup, Live
<1> QED
  BY <1>1, TypeCorrect, PTL DEF Spec, CursorForward

-----------------------------------------------------------------------------
(* The journal.                                                            *)

-----------------------------------------------------------------------------
(* Induction, from the cardinality of finite sets.                         *)

LEMMA Induction ==
  ASSUME NEW P \in SUBSET Nat, 0 \in P, \A n \in P : n + 1 \in P
  PROVE  P = Nat
<1> SUFFICES ASSUME NEW m \in Nat, m \notin P PROVE FALSE
  OBVIOUS
<1> DEFINE N == (0..m) \ P
           before == [n \in N |-> n - 1]
<1>1. \A n \in N : n - 1 \in N \ {m} /\ n \in Nat
  OBVIOUS
<1>2. before \in Injection(N, N \ {m})
  <2>1. before \in [N -> N \ {m}]
    BY <1>1
  <2>2. \A n, k \in DOMAIN before : before[n] = before[k] => n = k
    BY <1>1
  <2> QED
    BY <2>1, <2>2 DEF Injection, IsInjective
<1>3. IsFiniteSet(N)
  <2>1. IsFiniteSet(0..m)
    BY FS_Interval
  <2> QED
    BY <2>1, FS_Subset
<1>4. m \in N
  OBVIOUS
<1>5. Cardinality(N \ {m}) = Cardinality(N) - 1 /\ IsFiniteSet(N \ {m}) /\ Cardinality(N) \in Nat
  BY <1>3, <1>4, FS_RemoveElement, FS_CardinalityType
<1>6. Cardinality(N) <= Cardinality(N \ {m})
  BY <1>2, <1>5, FS_Injection
<1> QED
  BY <1>5, <1>6

LEMMA Least ==
  ASSUME NEW S \in SUBSET Nat, NEW m \in S
  PROVE  \E k \in S : \A n \in S : k <= n
<1> SUFFICES ASSUME \A k \in S : \E n \in S : n < k PROVE FALSE
  OBVIOUS
<1> DEFINE P == {k \in Nat : \A n \in S : k <= n}
<1>1. 0 \in P /\ \A k \in P : k + 1 \in P
  OBVIOUS
<1>2. P = Nat
  BY <1>1, Induction
<1> QED
  BY <1>2

\* The length of the longest beginning of 0..(limit - 1) inside a set.
LEMMA Beginning ==
  ASSUME NEW limit \in Nat, NEW S, NEW m \in 0..limit,
         \A i \in 0..(m - 1) : i \in S, m < limit => m \notin S
  PROVE  Cardinality({n \in 0..(limit - 1) : \A i \in 0..n : i \in S}) = m
<1>1. {n \in 0..(limit - 1) : \A i \in 0..n : i \in S} = 0..(m - 1)
  OBVIOUS
<1>2. Cardinality(0..(m - 1)) = m
  BY FS_Interval
<1> QED
  BY <1>1, <1>2

LEMMA BeginningEnds ==
  ASSUME NEW limit \in Nat, NEW S
  PROVE  \E m \in 0..limit : (\A i \in 0..(m - 1) : i \in S) /\ (m < limit => m \notin S)
<1> DEFINE T == {m \in 0..limit : m = limit \/ m \notin S}
<1>1. T \in SUBSET Nat /\ limit \in T
  OBVIOUS
<1>2. PICK m \in T : \A n \in T : m <= n
  BY <1>1, Least
<1> QED
  BY <1>2

-----------------------------------------------------------------------------
(* What a storage is read as.                                              *)

LEMMA ReplayedIs ==
  ASSUME NEW s, NEW m \in 0..JournalLimit,
         \A i \in 0..(m - 1) : Followed(s, i), m < JournalLimit => ~Followed(s, m)
  PROVE  Replayed(s) = m
<1> DEFINE S == {n \in Places : Followed(s, n)}
<1>0. JournalLimit \in Nat
  BY JournalAssumption
<1>1. Replayed(s) = Cardinality({n \in Places : \A i \in 0..n : i \in S})
  BY <1>0 DEF Replayed, Places
<1>2. (\A i \in 0..(m - 1) : i \in S) /\ (m < JournalLimit => m \notin S)
  BY <1>0 DEF Places
<1> HIDE DEF S
<1> QED
  BY <1>0, <1>1, <1>2, Beginning DEF Places

LEMMA ReplayedEnds ==
  ASSUME NEW s
  PROVE  /\ Replayed(s) \in 0..JournalLimit
         /\ \A i \in 0..(Replayed(s) - 1) : Followed(s, i)
         /\ Replayed(s) < JournalLimit => ~Followed(s, Replayed(s))
<1> DEFINE S == {n \in Places : Followed(s, n)}
<1>0. JournalLimit \in Nat
  BY JournalAssumption
<1>1. PICK m \in 0..JournalLimit : (\A i \in 0..(m - 1) : i \in S) /\ (m < JournalLimit => m \notin S)
  BY <1>0, BeginningEnds
<1>2. (\A i \in 0..(m - 1) : Followed(s, i)) /\ (m < JournalLimit => ~Followed(s, m))
  BY <1>0, <1>1 DEF Places
<1>3. Replayed(s) = m
  BY <1>2, ReplayedIs
<1> QED
  BY <1>2, <1>3

LEMMA LeadingType == Leading \in 0..JournalLimit
<1> DEFINE S == {n \in Places : memory.journal[n] # NoEntry}
<1>0. JournalLimit \in Nat
  BY JournalAssumption
<1>1. PICK m \in 0..JournalLimit : (\A i \in 0..(m - 1) : i \in S) /\ (m < JournalLimit => m \notin S)
  BY <1>0, BeginningEnds
<1>2. Leading = Cardinality({n \in Places : \A i \in 0..n : i \in S})
  BY <1>0 DEF Leading, Places
<1> HIDE DEF S
<1>3. Leading = m
  BY <1>0, <1>1, <1>2, Beginning DEF Places
<1> QED
  BY <1>3

\* A storage whose journal follows its workspace: no entry is of a later one, those of
\* this one are the first, and each has its change.
Fits(s) ==
  /\ s \in Storage
  /\ \A n \in Places : /\ s.journal[n].base <= s.base
                       /\ Followed(s, n) => n < Replayed(s)
                       /\ s.journal[n].base # 0 => s.journal[n].change \in Change

LEMMA LogParts ==
  ASSUME NEW s, Fits(s)
  PROVE  /\ Log(s) \in Seq(Change) /\ Len(Log(s)) = Len(s.log) + Replayed(s)
         /\ \A i \in 1..Len(s.log) : Log(s)[i] = s.log[i]
         /\ \A i \in 1..Replayed(s) : Log(s)[Len(s.log) + i] = s.journal[i - 1].change
         /\ s.log \in Seq(Change) /\ Len(s.log) \in Nat /\ Replayed(s) \in Nat
<1> DEFINE tail == [i \in 1..Replayed(s) |-> s.journal[i - 1].change]
<1>0. JournalLimit \in Nat /\ Replayed(s) \in 0..JournalLimit
  BY JournalAssumption, ReplayedEnds
<1>1. ASSUME NEW i \in 1..Replayed(s) PROVE s.journal[i - 1].change \in Change
  <2>1. i - 1 \in Places /\ Followed(s, i - 1)
    BY <1>0, ReplayedEnds DEF Places
  <2>2. s.journal[i - 1].base # 0
    BY <2>1, <1>0 DEF Fits, Followed, Storage, Entry
  <2> QED
    BY <2>1, <2>2 DEF Fits
<1>2. tail \in Seq(Change) /\ Len(tail) = Replayed(s)
  BY <1>0, <1>1
<1>3. s.log \in Seq(Change) /\ Log(s) = s.log \o tail
  BY DEF Fits, Storage, Log
<1>4. /\ Len(s.log) \in Nat /\ s.log \o tail \in Seq(Change)
      /\ Len(s.log \o tail) = Len(s.log) + Len(tail)
      /\ \A i \in 1..Len(s.log) : (s.log \o tail)[i] = s.log[i]
      /\ \A i \in 1..Len(tail) : (s.log \o tail)[Len(s.log) + i] = tail[i]
  <2> HIDE DEF tail
  <2>1. /\ s.log \in Seq(Change) /\ tail \in Seq(Change)
        /\ Len(s.log) \in Nat /\ Len(tail) \in Nat
    BY <1>2, <1>3
  <2>2. /\ s.log \o tail \in Seq(Change) /\ Len(s.log \o tail) = Len(s.log) + Len(tail)
        /\ \A i \in 1..(Len(s.log) + Len(tail)) :
             (s.log \o tail)[i] = IF i <= Len(s.log) THEN s.log[i] ELSE tail[i - Len(s.log)]
    BY <2>1, ConcatProperties
  <2> QED
    BY <2>1, <2>2
<1> QED
  BY <1>0, <1>2, <1>3, <1>4

-----------------------------------------------------------------------------
(* Views: what a storage is read as, whatever it keeps of the past.        *)

View == [base : Nat, log : Seq(Change), entries : 0..JournalLimit]
ViewOf(s) == [base |-> s.base, log |-> Log(s), entries |-> Replayed(s)]

Grown(log, more) == \E x \in Change : x \notin Range(log) /\ more = Append(log, x)

\* A write made where u is read makes it read as v: a workspace keeps the changes
\* there are or adds one, an entry adds its own, and only the entries of an earlier
\* workspace are removed.
FollowsWhole(u, w, v) ==
  /\ w.call = "whole" /\ w.base > u.base
  /\ w.log = u.log \/ Grown(u.log, w.log)
  /\ v = [base |-> w.base, log |-> w.log, entries |-> 0]
FollowsEntry(u, w, v) ==
  /\ w.call = "entry" /\ w.place = u.entries /\ w.entry.base = u.base /\ u.base # 0
  /\ w.entry.change \in Change /\ w.entry.change \notin Range(u.log)
  /\ v = [base |-> u.base, log |-> Append(u.log, w.entry.change), entries |-> u.entries + 1]
FollowsOther(u, w, v) ==
  /\ w.call = "revision" \/ (w.call = "drop" /\ u.entries = 0)
  /\ v = u
Follows(u, w, v) == FollowsWhole(u, w, v) \/ FollowsEntry(u, w, v) \/ FollowsOther(u, w, v)

LEMMA ViewType ==
  ASSUME NEW s, Fits(s)
  PROVE  ViewOf(s) \in View /\ (ViewOf(s).base = 0 => ViewOf(s).entries = 0)
<1>1. s.base \in Nat
  BY DEF Fits, Storage
<1>2. s.base = 0 => Replayed(s) = 0
  <2>1. s.base = 0 => \A i : ~Followed(s, i)
    BY DEF Followed
  <2> QED
    BY <2>1, ReplayedEnds, JournalAssumption
<1> QED
  BY <1>1, <1>2, LogParts, ReplayedEnds DEF View, ViewOf

LEMMA ApplyWhole ==
  ASSUME NEW s, Fits(s), NEW w \in Writing, NEW v, FollowsWhole(ViewOf(s), w, v)
  PROVE  Fits(Apply(s, w)) /\ ViewOf(Apply(s, w)) = v
<1> DEFINE t == Apply(s, w)
<1>0. JournalLimit \in Nat
  BY JournalAssumption
<1>1. w.base \in Nat /\ w.log \in Seq(Change) /\ w.base > s.base /\ s.base \in Nat
  BY DEF FollowsWhole, ViewOf, Writing, Fits, Storage
<1>2. t = [s EXCEPT !.base = w.base, !.log = w.log]
  BY DEF Apply, FollowsWhole
<1>3. t \in Storage /\ t.base = w.base /\ t.log = w.log /\ t.journal = s.journal
  BY <1>1, <1>2 DEF Fits, Storage
<1>4. \A n \in Places : s.journal[n].base \in Nat /\ s.journal[n].base <= s.base
  BY DEF Fits, Storage, Entry
<1> HIDE DEF t
<1>5. \A n \in Places : ~Followed(t, n)
  BY <1>1, <1>3, <1>4 DEF Followed
<1>6. Replayed(t) = 0
  BY <1>0, <1>5, ReplayedIs DEF Places
<1>7. Fits(t)
  BY <1>1, <1>3, <1>4, <1>5 DEF Fits
<1>8. Log(t) = w.log
  <2>1. Len(Log(t)) = Len(w.log) /\ \A i \in 1..Len(w.log) : Log(t)[i] = w.log[i]
    BY <1>3, <1>6, <1>7, LogParts
  <2>2. Log(t) \in Seq(Change) /\ w.log \in Seq(Change)
    BY <1>1, <1>7, LogParts
  <2> QED
    BY <2>1, <2>2, SeqEqual
<1> QED
  BY <1>3, <1>6, <1>7, <1>8 DEF t, ViewOf, FollowsWhole

LEMMA ApplyEntry ==
  ASSUME NEW s, Fits(s), NEW w \in Writing, NEW v, FollowsEntry(ViewOf(s), w, v)
  PROVE  Fits(Apply(s, w)) /\ ViewOf(Apply(s, w)) = v
<1> DEFINE t == Apply(s, w)
           r == Replayed(s)
<1>0. JournalLimit \in Nat /\ r \in 0..JournalLimit
  BY JournalAssumption, ReplayedEnds
<1>1. /\ w.place = r /\ w.place \in Places /\ w.entry \in Entry /\ w.entry.base = s.base
      /\ s.base # 0 /\ w.entry.change \in Change
  BY DEF FollowsEntry, ViewOf, Writing
<1>2. t = [s EXCEPT !.journal[w.place] = w.entry]
  BY DEF Apply, FollowsEntry
<1>3. /\ t \in Storage /\ t.base = s.base /\ t.log = s.log
      /\ t.journal = [s.journal EXCEPT ![r] = w.entry]
  BY <1>1, <1>2 DEF Fits, Storage
<1>4. /\ r \in Places /\ t.journal[r] = w.entry
      /\ \A n \in Places : n # r => t.journal[n] = s.journal[n]
  BY <1>1, <1>3 DEF Fits, Storage
<1> HIDE DEF t
<1>5. \A n \in Places : n # r => (Followed(t, n) <=> Followed(s, n))
  BY <1>3, <1>4 DEF Followed
<1>6. Followed(t, r)
  BY <1>1, <1>3, <1>4 DEF Followed
<1>7. \A i \in 0..(r - 1) : i \in Places /\ Followed(s, i)
  BY <1>0, <1>4, ReplayedEnds DEF Places
<1>8. \A n \in Places : Followed(s, n) => n < r
  BY DEF Fits
<1>9. Replayed(t) = r + 1
  <2>1. r + 1 \in 0..JournalLimit /\ \A i \in 0..r : Followed(t, i)
    BY <1>0, <1>4, <1>5, <1>6, <1>7 DEF Places
  <2>2. r + 1 < JournalLimit => ~Followed(t, r + 1)
    BY <1>0, <1>5, <1>8 DEF Places
  <2> QED
    BY <1>0, <2>1, <2>2, ReplayedIs
<1>10. Fits(t)
  <2>1. \A n \in Places : Followed(t, n) => n < r + 1
    BY <1>0, <1>5, <1>8 DEF Places
  <2>2. \A n \in Places : t.journal[n].base <= t.base /\ (t.journal[n].base # 0 => t.journal[n].change \in Change)
    BY <1>1, <1>3, <1>4 DEF Fits, Storage, Entry
  <2> QED
    BY <1>3, <1>9, <2>1, <2>2 DEF Fits
<1>11. Log(t) = Append(Log(s), w.entry.change)
  <2> DEFINE more == Append(Log(s), w.entry.change)
  <2>1. /\ Len(Log(t)) = Len(s.log) + r + 1 /\ Log(t) \in Seq(Change) /\ Len(s.log) \in Nat
        /\ \A i \in 1..Len(s.log) : Log(t)[i] = s.log[i]
        /\ \A i \in 1..(r + 1) : Log(t)[Len(s.log) + i] = t.journal[i - 1].change
    <3>1. /\ Len(Log(t)) = Len(t.log) + Replayed(t) /\ Log(t) \in Seq(Change) /\ Len(t.log) \in Nat
          /\ \A i \in 1..Len(t.log) : Log(t)[i] = t.log[i]
          /\ \A i \in 1..Replayed(t) : Log(t)[Len(t.log) + i] = t.journal[i - 1].change
      BY <1>10, LogParts
    <3>2. t.log = s.log /\ Replayed(t) = r + 1 /\ r \in Nat
      BY <1>0, <1>3, <1>9
    <3>3. /\ Len(Log(t)) = Len(s.log) + (r + 1) /\ Log(t) \in Seq(Change) /\ Len(s.log) \in Nat
          /\ \A i \in 1..Len(s.log) : Log(t)[i] = s.log[i]
          /\ \A i \in 1..(r + 1) : Log(t)[Len(s.log) + i] = t.journal[i - 1].change
      BY <3>1, <3>2
    <3>4. Len(s.log) + (r + 1) = Len(s.log) + r + 1
      BY <3>2, <3>3
    <3> QED
      BY <3>3, <3>4
  <2>2. /\ Len(Log(s)) = Len(s.log) + r /\ Log(s) \in Seq(Change)
        /\ \A i \in 1..Len(s.log) : Log(s)[i] = s.log[i]
        /\ \A i \in 1..r : Log(s)[Len(s.log) + i] = s.journal[i - 1].change
    BY LogParts
  <2>3. /\ more \in Seq(Change) /\ Len(more) = Len(s.log) + r + 1
        /\ more[Len(s.log) + (r + 1)] = w.entry.change
        /\ \A i \in 1..(Len(s.log) + r) : more[i] = Log(s)[i]
    BY <1>0, <1>1, <2>1, <2>2
  <2> HIDE DEF more, r
  <2>4. ASSUME NEW i \in 1..(Len(s.log) + r + 1) PROVE Log(t)[i] = more[i]
    <3>0. r \in Nat /\ Len(s.log) \in Nat
      BY <1>0, <2>1
    <3>1. CASE i <= Len(s.log)
      <4>1. i \in 1..Len(s.log) /\ i \in 1..(Len(s.log) + r)
        BY <3>0, <3>1
      <4> QED
        BY <2>1, <2>2, <2>3, <4>1
    <3>2. CASE i > Len(s.log)
      <4>1. PICK k \in 1..(r + 1) : i = Len(s.log) + k
        <5>1. i - Len(s.log) \in 1..(r + 1) /\ i = Len(s.log) + (i - Len(s.log))
          BY <3>0, <3>2
        <5> QED
          BY <5>1
      <4>2. CASE k = r + 1
        <5>0. i = Len(s.log) + (r + 1)
          BY <4>1, <4>2
        <5>1. k - 1 = r
          BY <3>0, <4>2
        <5>2. Log(t)[i] = t.journal[r].change
          BY <2>1, <4>1, <5>1
        <5> QED
          BY <1>4, <2>3, <5>0, <5>2
      <4>3. CASE k # r + 1
        <5>1. k \in 1..r /\ k - 1 \in Places /\ k - 1 # r
          BY <1>0, <4>1, <4>3 DEF Places
        <5>2. i \in 1..(Len(s.log) + r)
          BY <3>0, <4>1, <5>1
        <5>3. Log(t)[i] = t.journal[k - 1].change /\ more[i] = s.journal[k - 1].change
          BY <2>1, <2>2, <2>3, <4>1, <5>1, <5>2
        <5> QED
          BY <1>4, <5>1, <5>3
      <4> QED
        BY <4>2, <4>3
    <3> QED
      BY <2>1, <3>1, <3>2
  <2> QED
    <3>1. Log(t) = more
      BY <1>0, <2>1, <2>3, <2>4
    <3> QED
      BY <3>1 DEF more
<1> QED
  BY <1>3, <1>9, <1>10, <1>11 DEF t, ViewOf, FollowsEntry

\* With no entry to replay, a storage reads as the workspace written.
LEMMA SameLog ==
  ASSUME NEW s, Fits(s), NEW t, Fits(t), t.log = s.log, Replayed(s) = 0, Replayed(t) = 0
  PROVE  Log(t) = Log(s)
<1>1. /\ Log(s) \in Seq(Change) /\ Len(Log(s)) = Len(s.log) /\ Len(s.log) \in Nat
      /\ \A i \in 1..Len(s.log) : Log(s)[i] = s.log[i]
  BY LogParts
<1>2. /\ Log(t) \in Seq(Change) /\ Len(Log(t)) = Len(t.log) /\ Len(t.log) \in Nat
      /\ \A i \in 1..Len(t.log) : Log(t)[i] = t.log[i]
  BY LogParts
<1>3. PICK a \in Seq(Change), b \in Seq(Change) : a = Log(t) /\ b = Log(s)
  BY <1>1, <1>2
<1>4. Len(a) = Len(b) /\ \A i \in 1..Len(a) : a[i] = b[i]
  BY <1>1, <1>2, <1>3
<1>5. a = b
  BY ONLY <1>4, SeqEqual, a \in Seq(Change), b \in Seq(Change)
<1> QED
  BY <1>3, <1>5

LEMMA ApplyOther ==
  ASSUME NEW s, Fits(s), NEW w \in Writing, NEW v, FollowsOther(ViewOf(s), w, v)
  PROVE  Fits(Apply(s, w)) /\ ViewOf(Apply(s, w)) = v
<1> DEFINE t == Apply(s, w)
<1>0. JournalLimit \in Nat
  BY JournalAssumption
<1>1. v = ViewOf(s)
  BY DEF FollowsOther
<1>2. CASE w.call = "revision"
  <2>1. t = [s EXCEPT !.revision = w.client] /\ w.client \in Client
    BY <1>2 DEF Apply, Writing
  <2>2. t \in Storage /\ t.base = s.base /\ t.log = s.log /\ t.journal = s.journal
    BY <2>1 DEF Fits, Storage
  <2> HIDE DEF t
  <2>3. \A n : Followed(t, n) <=> Followed(s, n)
    BY <2>2 DEF Followed
  <2>4. Replayed(t) = Replayed(s)
    BY <2>3 DEF Replayed
  <2>5. Log(t) = Log(s)
    BY <2>2, <2>4 DEF Log
  <2>6. Fits(t)
    BY <2>2, <2>3, <2>4 DEF Fits
  <2>7. ViewOf(t) = ViewOf(s)
    BY <2>2, <2>4, <2>5 DEF ViewOf
  <2> QED
    BY <1>1, <2>6, <2>7 DEF t
<1>3. CASE w.call = "drop"
  <2>1. t = [s EXCEPT !.journal[w.place] = NoEntry] /\ w.place \in Places /\ Replayed(s) = 0
    BY <1>3 DEF Apply, Writing, FollowsOther, ViewOf
  <2>2. /\ t \in Storage /\ t.base = s.base /\ t.log = s.log
        /\ \A n \in Places : t.journal[n] = NoEntry \/ t.journal[n] = s.journal[n]
    <3>1. NoEntry \in Entry
      BY JournalAssumption DEF NoEntry, Entry
    <3>2. s \in Storage
      BY DEF Fits
    <3> HIDE DEF t
    <3>3. t = [s EXCEPT !.journal = [s.journal EXCEPT ![w.place] = NoEntry]]
      BY <2>1
    <3>4. [s.journal EXCEPT ![w.place] = NoEntry] \in [Places -> Entry]
      BY <3>1, <3>2 DEF Storage
    <3> QED
      BY <2>1, <3>2, <3>3, <3>4 DEF Storage
  <2> HIDE DEF t
  <2>3. \A n \in Places : ~Followed(t, n)
    BY <2>1, <2>2 DEF Fits, Followed, NoEntry, Places
  <2>4. Replayed(t) = 0
    BY <1>0, <2>3, ReplayedIs DEF Places
  <2>5. Fits(t)
    BY <2>2, <2>3 DEF Fits, NoEntry, Storage
  <2>6. Log(t) = Log(s)
    BY <2>1, <2>2, <2>4, <2>5, SameLog
  <2>7. ViewOf(t) = ViewOf(s)
    BY <2>1, <2>2, <2>4, <2>6 DEF ViewOf
  <2> QED
    BY <1>1, <2>5, <2>7 DEF t
<1> QED
  BY <1>2, <1>3 DEF FollowsOther

LEMMA ApplyView ==
  ASSUME NEW s, Fits(s), NEW w \in Writing, NEW v, Follows(ViewOf(s), w, v)
  PROVE  Fits(Apply(s, w)) /\ ViewOf(Apply(s, w)) = v
BY ApplyWhole, ApplyEntry, ApplyOther DEF Follows
-----------------------------------------------------------------------------
(* Several writes, one after the other.                                *)

Chain(v, ws) ==
  /\ v \in [0..Len(ws) -> View]
  /\ \A i \in 1..Len(ws) : Follows(v[i - 1], ws[i], v[i])

\* ApplyAll does what it says: each write, where the ones before it left the storage.
LEMMA ApplyAllSteps ==
  ASSUME NEW s, NEW ws, Len(ws) \in Nat
  PROVE  \E f : /\ f = [n \in 0..Len(ws) |-> IF n = 0 THEN s ELSE Apply(f[n - 1], ws[n])]
                /\ ApplyAll(s, ws) = f[Len(ws)]
<1> DEFINE Steps(f, n) == f = [i \in 0..n |-> IF i = 0 THEN s ELSE Apply(f[i - 1], ws[i])]
           P == {n \in Nat : \E f : Steps(f, n)}
<1>1. 0 \in P
  <2> DEFINE f == [i \in 0..0 |-> s]
  <2>1. Steps(f, 0)
    OBVIOUS
  <2> QED
    BY <2>1
<1>2. ASSUME NEW n \in P PROVE n + 1 \in P
  <2>1. n \in Nat /\ n + 1 \in Nat
    OBVIOUS
  <2>2. PICK f : Steps(f, n)
    OBVIOUS
  <2> DEFINE g == [i \in 0..(n + 1) |-> IF i = n + 1 THEN Apply(f[n], ws[n + 1]) ELSE f[i]]
  <2>3. ASSUME NEW i \in 0..(n + 1) PROVE g[i] = IF i = 0 THEN s ELSE Apply(g[i - 1], ws[i])
    <3>1. CASE i = n + 1
      BY <2>1, <3>1
    <3>2. CASE i # n + 1
      BY <2>1, <2>2, <3>2
    <3> QED
      BY <3>1, <3>2
  <2>4. Steps(g, n + 1)
    BY <2>3
  <2> QED
    BY <2>1, <2>4
<1>3. Len(ws) \in P
  BY <1>1, <1>2, Induction
<1>4. ApplyAll(s, ws) = (CHOOSE f : Steps(f, Len(ws)))[Len(ws)]
  BY DEF ApplyAll
<1> QED
  BY <1>3, <1>4

\* Writes that follow one another make the storage read as the last says.
LEMMA ApplyAllView ==
  ASSUME NEW s, Fits(s), NEW ws \in Seq(Writing), NEW v, Chain(v, ws), v[0] = ViewOf(s)
  PROVE  /\ Fits(ApplyAll(s, ws)) /\ ViewOf(ApplyAll(s, ws)) = v[Len(ws)]
         /\ ws # <<>> /\ ws[Len(ws)].call = "revision" => ApplyAll(s, ws).revision = ws[Len(ws)].client
<1>0. Len(ws) \in Nat /\ \A i \in 1..Len(ws) : ws[i] \in Writing
  OBVIOUS
<1>1. PICK f : /\ f = [n \in 0..Len(ws) |-> IF n = 0 THEN s ELSE Apply(f[n - 1], ws[n])]
               /\ ApplyAll(s, ws) = f[Len(ws)]
  BY <1>0, ApplyAllSteps
<1>2. f[0] = s /\ \A n \in 1..Len(ws) : f[n] = Apply(f[n - 1], ws[n])
  BY <1>0, <1>1
<1> DEFINE P == {n \in Nat : n <= Len(ws) => Fits(f[n]) /\ ViewOf(f[n]) = v[n]}
<1>3. 0 \in P
  BY <1>2
<1>4. ASSUME NEW n \in P PROVE n + 1 \in P
  <2>1. n \in Nat /\ n + 1 \in Nat
    OBVIOUS
  <2>2. SUFFICES ASSUME n + 1 <= Len(ws) PROVE Fits(f[n + 1]) /\ ViewOf(f[n + 1]) = v[n + 1]
    BY <2>1
  <2>3. /\ Fits(f[n]) /\ ViewOf(f[n]) = v[n]
        /\ n + 1 \in 1..Len(ws) /\ (n + 1) - 1 = n
    BY <1>0, <2>1, <2>2
  <2>4. f[n + 1] = Apply(f[n], ws[n + 1]) /\ Follows(ViewOf(f[n]), ws[n + 1], v[n + 1]) /\ ws[n + 1] \in Writing
    BY <1>0, <1>2, <2>3 DEF Chain
  <2> QED
    BY <2>3, <2>4, ApplyView
<1>5. P = Nat
  BY <1>3, <1>4, Induction
<1>6. Fits(f[Len(ws)]) /\ ViewOf(f[Len(ws)]) = v[Len(ws)]
  BY <1>0, <1>5
<1>7. ASSUME ws # <<>>, ws[Len(ws)].call = "revision" PROVE f[Len(ws)].revision = ws[Len(ws)].client
  <2> DEFINE n == Len(ws)
  <2>1. n \in 1..n /\ n - 1 \in Nat /\ n - 1 <= n
    BY <1>0, <1>7
  <2>2. f[n] = Apply(f[n - 1], ws[n])
    BY <1>2, <2>1
  <2>3. f[n - 1] \in Storage
    BY <1>5, <2>1 DEF Fits
  <2> QED
    BY <1>7, <2>2, <2>3 DEF Apply, Storage
<1> QED
  BY <1>1, <1>6, <1>7

\* Two chains, the second from where the first ends.
LEMMA ChainOn ==
  ASSUME NEW ws \in Seq(Writing), NEW v, Chain(v, ws),
         NEW more \in Seq(Writing), NEW u, Chain(u, more), u[0] = v[Len(ws)]
  PROVE  LET both == [i \in 0..(Len(ws) + Len(more)) |-> IF i <= Len(ws) THEN v[i] ELSE u[i - Len(ws)]]
         IN  Chain(both, ws \o more) /\ both[0] = v[0] /\ both[Len(ws \o more)] = u[Len(more)]
<1> DEFINE m == Len(ws)
           k == Len(more)
           both == [i \in 0..(m + k) |-> IF i <= m THEN v[i] ELSE u[i - m]]
<1>0. m \in Nat /\ k \in Nat
  OBVIOUS
<1>1. /\ Len(ws \o more) = m + k /\ \A i \in 1..m : (ws \o more)[i] = ws[i]
      /\ \A i \in (m + 1)..(m + k) : (ws \o more)[i] = more[i - m]
  BY <1>0, ConcatProperties
<1>2. both \in [0..(m + k) -> View]
  BY <1>0 DEF Chain
<1>3. \A i \in 0..m : both[i] = v[i]
  BY <1>0
<1>4. \A i \in m..(m + k) : both[i] = u[i - m]
  BY <1>0
<1> HIDE DEF m, k, both
<1>5. ASSUME NEW i \in 1..(m + k) PROVE Follows(both[i - 1], (ws \o more)[i], both[i])
  <2>1. CASE i <= m
    <3>1. i \in 1..m /\ i - 1 \in 0..m /\ i \in 0..m
      BY <1>0, <2>1
    <3>2. Follows(v[i - 1], ws[i], v[i])
      BY <3>1 DEF Chain, m
    <3> QED
      BY <1>1, <1>3, <3>1, <3>2
  <2>2. CASE ~(i <= m)
    <3>1. /\ i \in (m + 1)..(m + k) /\ i - 1 \in m..(m + k) /\ i \in m..(m + k)
          /\ i - m \in 1..k /\ (i - 1) - m = (i - m) - 1
      BY <1>0, <2>2
    <3>2. Follows(u[(i - m) - 1], more[i - m], u[i - m])
      BY <3>1 DEF Chain, k
    <3>3. both[i] = u[i - m] /\ (ws \o more)[i] = more[i - m]
      BY <1>1, <1>4, <3>1
    <3>4. both[i - 1] = u[(i - m) - 1]
      <4>1. both[i - 1] = u[(i - 1) - m]
        BY <1>4, <3>1
      <4> QED
        BY <3>1, <4>1
    <3> QED
      BY <3>2, <3>3, <3>4
  <2> QED
    BY <2>1, <2>2
<1>6. both[0] = v[0] /\ both[m + k] = u[k]
  <2>1. 0 \in 0..m /\ m + k \in m..(m + k) /\ (m + k) - m = k
    BY <1>0
  <2> QED
    BY <1>3, <1>4, <2>1
<1>7. Chain(both, ws \o more)
  BY <1>1, <1>2, <1>5 DEF Chain
<1> QED
  BY <1>1, <1>6, <1>7 DEF both, m, k

\* One write, several, and one more.
LEMMA Join3 ==
  ASSUME NEW a \in Seq(Writing), NEW b \in Seq(Writing), NEW c \in Seq(Writing), Len(a) = 1, Len(c) = 1
  PROVE  /\ a \o b \o c \in Seq(Writing) /\ Len(a \o b \o c) = Len(b) + 2
         /\ (a \o b \o c)[1] = a[1] /\ (a \o b \o c)[Len(b) + 2] = c[1]
         /\ \A n \in 1..Len(b) : (a \o b \o c)[1 + n] = b[n]
<1>0. PICK k \in Nat : k = Len(b)
  OBVIOUS
<1>1. /\ a \o b \in Seq(Writing) /\ Len(a \o b) = Len(a) + Len(b)
      /\ \A i \in 1..(Len(a) + Len(b)) : (a \o b)[i] = IF i <= Len(a) THEN a[i] ELSE b[i - Len(a)]
  BY ConcatProperties
<1>2. PICK ab \in Seq(Writing) : ab = a \o b
  BY <1>1
<1>3. /\ ab \o c \in Seq(Writing) /\ Len(ab \o c) = Len(ab) + Len(c)
      /\ \A i \in 1..(Len(ab) + Len(c)) : (ab \o c)[i] = IF i <= Len(ab) THEN ab[i] ELSE c[i - Len(ab)]
  BY ConcatProperties
<1>4. Len(ab) = 1 + k /\ Len(ab \o c) = k + 2
  BY <1>0, <1>1, <1>2, <1>3
<1>4a. \A i \in 1..(1 + k) : ab[i] = IF i <= 1 THEN a[i] ELSE b[i - 1]
  BY <1>0, <1>1, <1>2
<1>4b. \A i \in 1..(k + 2) : (ab \o c)[i] = IF i <= 1 + k THEN ab[i] ELSE c[i - (1 + k)]
  BY <1>3, <1>4
<1>5. (ab \o c)[1] = a[1]
  BY <1>4a, <1>4b
<1>6. (ab \o c)[k + 2] = c[1]
  <2>1. k + 2 \in 1..(k + 2) /\ ~(k + 2 <= 1 + k) /\ (k + 2) - (1 + k) = 1
    OBVIOUS
  <2> QED
    BY <1>4b, <2>1
<1>7. ASSUME NEW n \in 1..k PROVE (ab \o c)[1 + n] = b[n]
  <2>1. 1 + n \in 1..(k + 2) /\ 1 + n \in 1..(1 + k) /\ 1 + n <= 1 + k /\ ~(1 + n <= 1) /\ (1 + n) - 1 = n
    OBVIOUS
  <2> QED
    BY <1>4a, <1>4b, <2>1
<1> QED
  BY <1>0, <1>2, <1>3, <1>4, <1>5, <1>6, <1>7

LEMMA ChainFront ==
  ASSUME NEW ws \in Seq(Writing), ws # <<>>, NEW v, Chain(v, ws)
  PROVE  LET u == [i \in 0..(Len(ws) - 1) |-> v[i]]
         IN  /\ Front(ws) \in Seq(Writing) /\ Len(Front(ws)) = Len(ws) - 1 /\ Chain(u, Front(ws))
             /\ u[0] = v[0] /\ u[Len(ws) - 1] = v[Len(ws) - 1]
<1> DEFINE n == Len(ws) - 1
           u == [i \in 0..n |-> v[i]]
<1>1. Len(ws) \in Nat /\ Len(ws) >= 1 /\ n \in Nat /\ n <= Len(ws)
  OBVIOUS
<1>2. Front(ws) \in Seq(Writing) /\ Len(Front(ws)) = n /\ \A i \in 1..n : Front(ws)[i] = ws[i]
  <2>1. Front(ws) = SubSeq(ws, 1, n)
    BY DEF Front
  <2>2. /\ SubSeq(ws, 1, n) \in Seq(Writing) /\ Len(SubSeq(ws, 1, n)) = n
        /\ \A i \in 1..n : SubSeq(ws, 1, n)[i] = ws[i]
    <3> HIDE DEF n
    <3> QED
      BY <1>1
  <2> QED
    BY <2>1, <2>2
<1>3. u \in [0..n -> View]
  BY <1>1 DEF Chain
<1>4. ASSUME NEW i \in 1..n PROVE Follows(u[i - 1], Front(ws)[i], u[i])
  <2>1. i \in 1..Len(ws) /\ i - 1 \in 0..n /\ i \in 0..n
    BY <1>1
  <2>2. Follows(v[i - 1], ws[i], v[i])
    BY <2>1 DEF Chain
  <2>3. u[i] = v[i] /\ u[i - 1] = v[i - 1] /\ Front(ws)[i] = ws[i]
    BY <1>2, <2>1
  <2> QED
    BY <2>2, <2>3
<1>5. Chain(u, Front(ws))
  BY <1>2, <1>3, <1>4 DEF Chain
<1>6. u[0] = v[0] /\ u[n] = v[n]
  BY <1>1
<1> QED
  BY <1>2, <1>5, <1>6

-----------------------------------------------------------------------------
(* The invariant.                                                          *)

\* What is read is of changes made, under a mark drawn.
Known(u) == Range(u.log) \subseteq 1..edits /\ u.base <= bases

\* The writes on their way take the disk, change by change, to what the clients read.
QueueInv ==
  \E v : /\ Chain(v, queue)
         /\ v[0] = ViewOf(disk) /\ v[Len(queue)] = ViewOf(memory)
         /\ \A i \in 0..Len(queue) : Known(v[i])

\* What was said saved, or is about to be, is in what the clients read; on the disk,
\* when handlers wait for it.
SavedInv ==
  /\ saved \subseteq Range(Log(memory))
  /\ replying # 0 => replying \in Range(Log(memory))
  /\ ~platform.later => saved \subseteq Range(Log(disk))

\* Only the clients of the storage have a copy.
CachesInv == \A c \in Client : cached[c] = NotCached \/ c \in platform.clients

JournalInv ==
  /\ JournalTypeOK /\ Fits(memory) /\ Fits(disk)
  /\ QueueInv /\ CacheIsTrue /\ CachesInv /\ SavedInv

LEMMA ReadNow ==
  ASSUME JournalTypeOK, Fits(memory), QueueInv
  PROVE  /\ ViewOf(memory) \in View /\ Known(ViewOf(memory))
         /\ Range(Log(memory)) \subseteq 1..edits /\ memory.base <= bases
<1>1. Len(queue) \in Nat
  BY DEF JournalTypeOK
<1>2. Known(ViewOf(memory))
  BY <1>1 DEF QueueInv
<1> QED
  BY <1>2, ViewType DEF Known, ViewOf

-----------------------------------------------------------------------------
(* What a handler stores.                                                  *)

LEMMA Stored ==
  ASSUME JournalTypeOK, Fits(memory), QueueInv,
         NEW ws \in Seq(Writing), ws # <<>>, NEW u, Chain(u, ws), u[0] = ViewOf(memory),
         Store(ws), UNCHANGED disk,
         edits <= edits', edits' \in Nat, bases <= bases', bases' \in Nat,
         \A i \in 0..Len(ws) : Range(u[i].log) \subseteq 1..edits' /\ u[i].base <= bases'
  PROVE  /\ QueueInv' /\ Fits(memory)' /\ queue' \in Seq(Writing)
         /\ ViewOf(memory)' = u[Len(ws)]
         /\ ws[Len(ws)].call = "revision" => memory'.revision = ws[Len(ws)].client
<1>0. /\ queue \in Seq(Writing) /\ Len(queue) \in Nat /\ Len(ws) \in Nat
      /\ edits \in Nat /\ bases \in Nat /\ queue' = queue \o ws
  BY JournalAssumption DEF JournalTypeOK, Store
<1>1. PICK v : /\ Chain(v, queue)
               /\ v[0] = ViewOf(disk) /\ v[Len(queue)] = ViewOf(memory)
               /\ \A i \in 0..Len(queue) : Known(v[i])
  BY DEF QueueInv
<1> DEFINE both == [i \in 0..(Len(queue) + Len(ws)) |-> IF i <= Len(queue) THEN v[i] ELSE u[i - Len(queue)]]
<1>2. Chain(both, queue \o ws) /\ both[0] = v[0] /\ both[Len(queue \o ws)] = u[Len(ws)]
  BY <1>0, <1>1, ChainOn
<1>3. /\ Fits(memory') /\ ViewOf(memory') = u[Len(ws)]
      /\ ws[Len(ws)].call = "revision" => memory'.revision = ws[Len(ws)].client
  BY ApplyAllView DEF Store
<1>4. ASSUME NEW i \in 0..Len(queue \o ws)
      PROVE  Range(both[i].log) \subseteq 1..edits' /\ both[i].base <= bases'
  <2>1. Len(queue \o ws) = Len(queue) + Len(ws)
    BY <1>0
  <2>2. CASE i <= Len(queue)
    <3>1. i \in 0..Len(queue) /\ both[i] = v[i]
      BY <1>0, <2>1, <2>2
    <3>2. Range(v[i].log) \subseteq 1..edits /\ v[i].base <= bases /\ v[i].base \in Nat
      BY <1>1, <3>1 DEF Known, Chain, View
    <3> QED
      BY <1>0, <3>1, <3>2
  <2>3. CASE ~(i <= Len(queue))
    <3>1. i - Len(queue) \in 0..Len(ws) /\ both[i] = u[i - Len(queue)]
      BY <1>0, <2>1, <2>3
    <3> QED
      BY <3>1
  <2> QED
    BY <2>2, <2>3
<1>5. QueueInv'
  <2> HIDE DEF both
  <2>1. ViewOf(disk') = ViewOf(disk) /\ ViewOf(memory)' = ViewOf(memory') /\ ViewOf(disk)' = ViewOf(disk')
    BY DEF ViewOf, Log, Replayed, Followed
  <2> QED
    BY <1>0, <1>1, <1>2, <1>3, <1>4, <2>1 DEF QueueInv, Known
<1>6. Fits(memory)' /\ ViewOf(memory)' = u[Len(ws)]
  BY <1>3 DEF Fits, ViewOf, Log, Replayed, Followed
<1> QED
  BY <1>0, <1>3, <1>5, <1>6

\* save: the workspace under a mark of its own.
Saved(log) == [base |-> bases + 1, log |-> log, entries |-> 0]
SaveViews(log, k) == [n \in 0..(k + 2) |-> IF n = 0 THEN ViewOf(memory) ELSE Saved(log)]

LEMMA SaveChain ==
  ASSUME JournalTypeOK, Fits(memory), memory.base <= bases,
         NEW c \in Client, NEW log \in Seq(Change), log = Log(memory) \/ Grown(Log(memory), log),
         NEW k \in 0..Leading
  PROVE  LET ws == SaveWrites(c, log, k)
         IN  /\ ws \in Seq(Writing) /\ Len(ws) = k + 2 /\ ws # <<>>
             /\ ws[k + 2].call = "revision" /\ ws[k + 2].client = c
             /\ Chain(SaveViews(log, k), ws)
<1> DEFINE ws == SaveWrites(c, log, k)
           first == <<[call |-> "whole", base |-> bases + 1, log |-> log]>>
           drops == [n \in 1..k |-> [call |-> "drop", place |-> n - 1]]
           last == <<[call |-> "revision", client |-> c]>>
<1>0. /\ k \in Nat /\ k <= JournalLimit /\ JournalLimit \in Nat /\ bases \in Nat
      /\ \A n \in 1..k : n - 1 \in Places
  BY LeadingType, JournalAssumption DEF JournalTypeOK, Places
<1>1. first \in Seq(Writing) /\ last \in Seq(Writing) /\ Len(first) = 1 /\ Len(last) = 1
  BY <1>0 DEF Writing
<1>2. drops \in Seq(Writing) /\ Len(drops) = k
  BY <1>0 DEF Writing
<1>3. ws = first \o drops \o last
  BY DEF SaveWrites
<1>4. /\ first[1].call = "whole" /\ first[1].base = bases + 1 /\ first[1].log = log
      /\ last[1].call = "revision" /\ last[1].client = c
      /\ \A n \in 1..k : drops[n].call = "drop"
  OBVIOUS
<1> HIDE DEF first, drops, last, ws
<1>6. /\ ws \in Seq(Writing) /\ Len(ws) = k + 2
      /\ ws[1] = first[1] /\ \A n \in 1..k : ws[1 + n] = drops[n]
      /\ ws[k + 2] = last[1]
  <2>1. PICK a \in Seq(Writing), b \in Seq(Writing), d \in Seq(Writing) : a = first /\ b = drops /\ d = last
    BY <1>1, <1>2
  <2>2. Len(a) = 1 /\ Len(d) = 1
    BY <1>1, <2>1
  <2>3. /\ a \o b \o d \in Seq(Writing) /\ Len(a \o b \o d) = Len(b) + 2
        /\ (a \o b \o d)[1] = a[1] /\ (a \o b \o d)[Len(b) + 2] = d[1]
        /\ \A n \in 1..Len(b) : (a \o b \o d)[1 + n] = b[n]
    BY ONLY <2>2, Join3, a \in Seq(Writing), b \in Seq(Writing), d \in Seq(Writing)
  <2> QED
    BY <1>2, <1>3, <2>1, <2>3
<1>7. SaveViews(log, k) \in [0..(k + 2) -> View]
  BY <1>0, ViewType DEF SaveViews, Saved, View
<1>8. ASSUME NEW i \in 1..(k + 2) PROVE Follows(SaveViews(log, k)[i - 1], ws[i], SaveViews(log, k)[i])
  <2>0. /\ SaveViews(log, k)[i] = Saved(log)
        /\ i # 1 => SaveViews(log, k)[i - 1] = Saved(log)
        /\ i = 1 => SaveViews(log, k)[i - 1] = ViewOf(memory)
    BY <1>0 DEF SaveViews
  <2>1. CASE i = 1
    <3>1. memory.base \in Nat
      BY DEF JournalTypeOK, Storage
    <3>2. FollowsWhole(ViewOf(memory), ws[1], Saved(log))
      BY <1>0, <1>4, <1>6, <3>1 DEF FollowsWhole, ViewOf, Saved
    <3> QED
      BY <2>0, <2>1, <3>2 DEF Follows
  <2>2. CASE i \in 2..(k + 1)
    <3>1. ws[i].call = "drop"
      <4>1. i - 1 \in 1..k /\ 1 + (i - 1) = i
        BY <1>0, <2>2
      <4> QED
        BY <1>4, <1>6, <2>2, <4>1
    <3>2. FollowsOther(Saved(log), ws[i], Saved(log))
      BY <3>1 DEF FollowsOther, Saved
    <3> QED
      BY <2>0, <2>2, <3>2 DEF Follows
  <2>3. CASE i = k + 2
    <3>1. FollowsOther(Saved(log), ws[i], Saved(log))
      BY <1>4, <1>6, <2>3 DEF FollowsOther
    <3> QED
      BY <1>0, <2>0, <2>3, <3>1 DEF Follows
  <2> QED
    BY <1>0, <2>1, <2>2, <2>3
<1>9. Chain(SaveViews(log, k), ws)
  <2>1. SaveViews(log, k) \in [0..Len(ws) -> View]
    BY <1>6, <1>7
  <2>2. \A i \in 1..Len(ws) : Follows(SaveViews(log, k)[i - 1], ws[i], SaveViews(log, k)[i])
    BY <1>6, <1>8
  <2> QED
    BY <2>1, <2>2 DEF Chain
<1>10. ws # <<>>
  <2> SUFFICES ASSUME ws = <<>> PROVE FALSE
    OBVIOUS
  <2>1. Len(ws) = 0
    BY Len(<<>>) = 0
  <2> QED
    BY <1>0, <1>6, <2>1
<1> QED
  BY <1>4, <1>6, <1>9, <1>10 DEF ws

LEMMA Ranges ==
  ASSUME NEW log \in Seq(Change)
  PROVE  /\ Range(log) \subseteq Change
         /\ \A x : Range(Append(log, x)) = Range(log) \cup {x}
<1>1. Range(log) \subseteq Change
  BY DEF Range
<1>2. ASSUME NEW x PROVE Range(Append(log, x)) = Range(log) \cup {x}
  <2>1. Len(log) \in Nat /\ DOMAIN log = 1..Len(log)
    OBVIOUS
  <2>2. /\ DOMAIN Append(log, x) = 1..(Len(log) + 1)
        /\ \A i \in 1..Len(log) : Append(log, x)[i] = log[i]
        /\ Append(log, x)[Len(log) + 1] = x
    BY <2>1
  <2>3. Range(Append(log, x)) \subseteq Range(log) \cup {x}
    BY <2>1, <2>2 DEF Range
  <2>4. Range(log) \subseteq Range(Append(log, x))
    BY <2>1, <2>2 DEF Range
  <2>5. x \in Range(Append(log, x))
    <3>1. Len(log) + 1 \in 1..(Len(log) + 1)
      BY <2>1
    <3> QED
      BY <2>2, <3>1 DEF Range
  <2> QED
    BY <2>3, <2>4, <2>5
<1> QED
  BY <1>1, <1>2

\* A workspace saved is what the clients read, under a mark of its own; the revision
\* is the last write.
LEMMA SaveKeeps ==
  ASSUME JournalTypeOK, Fits(memory), QueueInv, NEW c \in Client,
         NEW log \in Seq(Change), log = Log(memory) \/ Grown(Log(memory), log),
         NEW k \in 0..Leading, UNCHANGED disk,
         edits <= edits', edits' \in Nat, bases' = bases + 1, Range(log) \subseteq 1..edits'
  PROVE  /\ Store(SaveWrites(c, log, k)) =>
              /\ QueueInv' /\ Fits(memory)' /\ queue' \in Seq(Writing)
              /\ ViewOf(memory)' = Saved(log) /\ memory'.revision = c
         /\ Store(Front(SaveWrites(c, log, k))) =>
              /\ QueueInv' /\ Fits(memory)' /\ queue' \in Seq(Writing)
              /\ ViewOf(memory)' = Saved(log)
<1> DEFINE ws == SaveWrites(c, log, k)
           v == SaveViews(log, k)
           u == [i \in 0..(Len(ws) - 1) |-> v[i]]
<1>0. k \in Nat /\ bases \in Nat /\ edits \in Nat /\ bases <= bases' /\ bases' \in Nat
  BY LeadingType, JournalAssumption DEF JournalTypeOK
<1>1. /\ ViewOf(memory) \in View /\ Known(ViewOf(memory)) /\ memory.base <= bases
  BY ReadNow
<1>2. /\ ws \in Seq(Writing) /\ Len(ws) = k + 2 /\ ws # <<>>
      /\ ws[k + 2].call = "revision" /\ ws[k + 2].client = c
      /\ Chain(v, ws)
  BY <1>1, SaveChain
<1>3. /\ v[0] = ViewOf(memory) /\ \A i \in 1..(k + 2) : v[i] = Saved(log)
  BY <1>0 DEF SaveViews
<1>4. \A i \in 0..(k + 2) : Range(v[i].log) \subseteq 1..edits' /\ v[i].base <= bases'
  <2>1. ViewOf(memory).base \in Nat /\ Range(ViewOf(memory).log) \subseteq 1..edits /\ ViewOf(memory).base <= bases
    BY <1>1 DEF View, Known
  <2>2. Range(ViewOf(memory).log) \subseteq 1..edits' /\ ViewOf(memory).base <= bases'
    BY <1>0, <2>1
  <2>3. Range(Saved(log).log) \subseteq 1..edits' /\ Saved(log).base <= bases'
    BY <1>0 DEF Saved
  <2>4. \A i \in 0..(k + 2) : v[i] = ViewOf(memory) \/ v[i] = Saved(log)
    BY <1>0, <1>3
  <2> QED
    BY <2>2, <2>3, <2>4
<1>5. /\ Front(ws) \in Seq(Writing) /\ Len(Front(ws)) = k + 1 /\ Front(ws) # <<>> /\ Chain(u, Front(ws))
      /\ u[0] = v[0] /\ u[k + 1] = v[k + 1] /\ \A i \in 0..(k + 1) : u[i] = v[i]
  <2> HIDE DEF ws, v
  <2>1. /\ Front(ws) \in Seq(Writing) /\ Len(Front(ws)) = Len(ws) - 1 /\ Chain(u, Front(ws))
        /\ u[0] = v[0] /\ u[Len(ws) - 1] = v[Len(ws) - 1]
    BY <1>2, ChainFront
  <2>2. Len(ws) - 1 = k + 1
    BY <1>0, <1>2
  <2>3. Front(ws) # <<>>
    BY <1>0, <2>1, <2>2
  <2>4. \A i \in 0..(k + 1) : u[i] = v[i]
    BY <2>2
  <2> HIDE DEF u
  <2> QED
    BY <2>1, <2>2, <2>3, <2>4
<1> HIDE DEF ws, v, u
<1>6. ASSUME Store(ws)
      PROVE  /\ QueueInv' /\ Fits(memory)' /\ queue' \in Seq(Writing)
             /\ ViewOf(memory)' = Saved(log) /\ memory'.revision = c
  <2>1. \A i \in 0..Len(ws) : Range(v[i].log) \subseteq 1..edits' /\ v[i].base <= bases'
    BY <1>2, <1>4
  <2>2. k + 2 \in 1..(k + 2)
    BY <1>0
  <2> QED
    BY <1>0, <1>2, <1>3, <1>6, <2>1, <2>2, Stored
<1>7. ASSUME Store(Front(ws))
      PROVE  /\ QueueInv' /\ Fits(memory)' /\ queue' \in Seq(Writing)
             /\ ViewOf(memory)' = Saved(log)
  <2>1. \A i \in 0..Len(Front(ws)) : Range(u[i].log) \subseteq 1..edits' /\ u[i].base <= bases'
    <3>1. \A i \in 0..(k + 1) : i \in 0..(k + 2) /\ u[i] = v[i]
      BY <1>0, <1>5
    <3> QED
      BY <1>4, <1>5, <3>1
  <2>2. k + 1 \in 1..(k + 2)
    BY <1>0
  <2> QED
    BY <1>0, <1>3, <1>5, <1>7, <2>1, <2>2, Stored
<1> QED
  BY <1>6, <1>7 DEF ws

\* An entry adds its change to what the clients read, right after the journal's last.
LEMMA EntryKeeps ==
  ASSUME JournalTypeOK, Fits(memory), QueueInv, NEW c \in Client,
         NEW x \in Change, x \notin Range(Log(memory)),
         cached[c].base = memory.base, cached[c].base # 0,
         cached[c].entries = Replayed(memory), cached[c].entries < JournalLimit,
         UNCHANGED <<disk, bases>>,
         edits <= edits', edits' \in Nat, x <= edits'
  PROVE  LET more == [base |-> memory.base, log |-> Append(Log(memory), x), entries |-> Replayed(memory) + 1]
         IN  /\ Store(EntryWrites(c, x)) =>
                  /\ QueueInv' /\ Fits(memory)' /\ queue' \in Seq(Writing)
                  /\ ViewOf(memory)' = more /\ memory'.revision = c
             /\ Store(Front(EntryWrites(c, x))) =>
                  /\ QueueInv' /\ Fits(memory)' /\ queue' \in Seq(Writing)
                  /\ ViewOf(memory)' = more
<1> DEFINE more == [base |-> memory.base, log |-> Append(Log(memory), x), entries |-> Replayed(memory) + 1]
           w == [call |-> "entry", place |-> cached[c].entries, entry |-> [base |-> cached[c].base, change |-> x]]
           r == [call |-> "revision", client |-> c]
           ws == EntryWrites(c, x)
           v == [i \in 0..2 |-> IF i = 0 THEN ViewOf(memory) ELSE more]
           u == [i \in 0..(Len(ws) - 1) |-> v[i]]
<1>0. bases \in Nat /\ edits \in Nat /\ JournalLimit \in Nat /\ memory.base \in Nat
  BY JournalAssumption DEF JournalTypeOK, Storage
<1>1. ViewOf(memory) \in View /\ Known(ViewOf(memory)) /\ memory.base <= bases
  BY ReadNow
<1>2. Log(memory) \in Seq(Change) /\ Replayed(memory) \in Nat /\ Replayed(memory) < JournalLimit
  BY LogParts
<1>3. w \in Writing /\ r \in Writing /\ ws = <<w, r>>
  BY <1>0, <1>2, JournalAssumption DEF Writing, Entry, Places, EntryWrites, Change
<1>4. more \in View
  BY <1>0, <1>2 DEF View
<1>5. FollowsEntry(ViewOf(memory), w, more)
  BY DEF FollowsEntry, ViewOf
<1>6. FollowsOther(more, r, more)
  BY DEF FollowsOther
<1>7. Range(more.log) \subseteq 1..edits' /\ more.base <= bases'
  <2>1. Range(Log(memory)) \subseteq 1..edits
    BY <1>1 DEF Known, ViewOf
  <2>2. Range(more.log) = Range(Log(memory)) \cup {x}
    BY <1>2, Ranges
  <2>3. x \in 1..edits'
    BY DEF Change
  <2> QED
    BY <1>0, <1>1, <2>1, <2>2, <2>3
<1>8. Range(ViewOf(memory).log) \subseteq 1..edits' /\ ViewOf(memory).base <= bases'
  BY <1>0, <1>1 DEF Known
<1>9. r.call = "revision" /\ r.client = c
  OBVIOUS
<1> HIDE DEF more, w, r
<1>10. ws \in Seq(Writing) /\ Len(ws) = 2 /\ ws # <<>> /\ ws[1] = w /\ ws[2] = r
  BY <1>3
<1>11. v[0] = ViewOf(memory) /\ v[1] = more /\ v[2] = more /\ v \in [0..2 -> View]
  BY <1>1, <1>4
<1> HIDE DEF ws
<1>12. Chain(v, ws)
  <2>1. \A i \in 1..2 : i = 1 \/ i = 2
    OBVIOUS
  <2>2. Follows(v[0], ws[1], v[1]) /\ Follows(v[1], ws[2], v[2])
    BY <1>5, <1>6, <1>10, <1>11 DEF Follows
  <2> HIDE DEF v
  <2>3. ASSUME NEW i \in 1..2 PROVE Follows(v[i - 1], ws[i], v[i])
    <3>1. CASE i = 1
      BY <2>2, <3>1
    <3>2. CASE i = 2
      BY <2>2, <3>2
    <3> QED
      BY <2>1, <3>1, <3>2
  <2> QED
    BY <1>10, <1>11, <2>3 DEF Chain
<1> HIDE DEF v
<1>13. /\ Front(ws) \in Seq(Writing) /\ Len(Front(ws)) = 1 /\ Front(ws) # <<>> /\ Chain(u, Front(ws))
       /\ u[0] = v[0] /\ u[1] = v[1]
  <2>1. /\ Front(ws) \in Seq(Writing) /\ Len(Front(ws)) = Len(ws) - 1 /\ Chain(u, Front(ws))
        /\ u[0] = v[0] /\ u[Len(ws) - 1] = v[Len(ws) - 1]
    BY <1>10, <1>12, ChainFront
  <2>2. Len(ws) - 1 = 1
    BY <1>10
  <2> HIDE DEF u
  <2>3. Len(Front(ws)) = 1
    BY <2>1, <2>2
  <2>4. Front(ws) # <<>>
    <3> SUFFICES ASSUME Front(ws) = <<>> PROVE FALSE
      OBVIOUS
    <3>1. Len(Front(ws)) = 0
      BY Len(<<>>) = 0
    <3> QED
      BY <2>3, <3>1
  <2> QED
    BY <2>1, <2>2, <2>3, <2>4
<1> HIDE DEF u
<1>14. ASSUME Store(ws)
       PROVE  /\ QueueInv' /\ Fits(memory)' /\ queue' \in Seq(Writing)
              /\ ViewOf(memory)' = more /\ memory'.revision = c
  <2>1. \A i \in 0..Len(ws) : Range(v[i].log) \subseteq 1..edits' /\ v[i].base <= bases'
    <3>1. \A i \in 0..Len(ws) : i = 0 \/ i = 1 \/ i = 2
      BY <1>10
    <3> QED
      BY <1>7, <1>8, <1>11, <3>1
  <2>2. ws[Len(ws)].call = "revision" /\ ws[Len(ws)].client = c /\ v[Len(ws)] = more
    BY <1>9, <1>10, <1>11
  <2>3. /\ QueueInv' /\ Fits(memory)' /\ queue' \in Seq(Writing)
        /\ ViewOf(memory)' = v[Len(ws)]
        /\ ws[Len(ws)].call = "revision" => memory'.revision = ws[Len(ws)].client
    <3>1. /\ JournalTypeOK /\ Fits(memory) /\ QueueInv /\ UNCHANGED disk
          /\ edits <= edits' /\ edits' \in Nat /\ bases <= bases' /\ bases' \in Nat
      BY <1>0
    <3>2. ws \in Seq(Writing) /\ ws # <<>> /\ Chain(v, ws) /\ v[0] = ViewOf(memory) /\ Store(ws)
      BY <1>10, <1>11, <1>12, <1>14
    <3> QED
      BY ONLY <2>1, <3>1, <3>2, Stored
  <2>4. memory'.revision = c
    BY <2>2, <2>3, Zenon
  <2>5. ViewOf(memory)' = more
    BY <2>2, <2>3, Zenon
  <2> QED
    BY <2>3, <2>4, <2>5, Zenon
<1>15. ASSUME Store(Front(ws))
       PROVE  /\ QueueInv' /\ Fits(memory)' /\ queue' \in Seq(Writing)
              /\ ViewOf(memory)' = more
  <2>1. \A i \in 0..Len(Front(ws)) : Range(u[i].log) \subseteq 1..edits' /\ u[i].base <= bases'
    <3>1. \A i \in 0..Len(Front(ws)) : i = 0 \/ i = 1
      BY <1>13
    <3> QED
      BY <1>7, <1>8, <1>11, <1>13, <3>1
  <2> QED
    BY <1>0, <1>11, <1>13, <1>15, <2>1, Stored
<1> QED
  BY <1>14, <1>15 DEF ws, more

\* The revision alone changes nothing that is read.
LEMMA RevisionKeeps ==
  ASSUME JournalTypeOK, Fits(memory), QueueInv, NEW c \in Client,
         UNCHANGED <<disk, bases, edits>>, Store(<<[call |-> "revision", client |-> c]>>)
  PROVE  /\ QueueInv' /\ Fits(memory)' /\ queue' \in Seq(Writing)
         /\ ViewOf(memory)' = ViewOf(memory) /\ memory'.revision = c
<1> DEFINE r == [call |-> "revision", client |-> c]
           ws == <<r>>
           v == [i \in 0..1 |-> ViewOf(memory)]
<1>0. bases \in Nat /\ edits \in Nat
  BY JournalAssumption DEF JournalTypeOK
<1>1. ViewOf(memory) \in View /\ Known(ViewOf(memory))
  BY ReadNow
<1>2. r \in Writing /\ r.call = "revision" /\ r.client = c
  BY DEF Writing
<1>3. FollowsOther(ViewOf(memory), r, ViewOf(memory))
  BY DEF FollowsOther
<1>4. Store(ws)
  OBVIOUS
<1> HIDE DEF r
<1>5. ws \in Seq(Writing) /\ Len(ws) = 1 /\ ws # <<>> /\ ws[1] = r
  BY <1>2
<1>6. v[0] = ViewOf(memory) /\ v[1] = ViewOf(memory) /\ v \in [0..1 -> View]
  BY <1>1
<1> HIDE DEF v, ws
<1>7. Chain(v, ws)
  <2>1. \A i \in 1..1 : i = 1 /\ i - 1 = 0
    OBVIOUS
  <2> QED
    BY <1>3, <1>5, <1>6, <2>1 DEF Chain, Follows
<1>8. \A i \in 0..Len(ws) : Range(v[i].log) \subseteq 1..edits' /\ v[i].base <= bases'
  <2>1. \A i \in 0..Len(ws) : i = 0 \/ i = 1
    BY <1>5
  <2> QED
    BY <1>1, <1>6, <2>1 DEF Known
<1> QED
  BY <1>0, <1>2, <1>4, <1>5, <1>6, <1>7, <1>8, Stored

-----------------------------------------------------------------------------
(* The steps of the clients.                                               *)

\* What the proofs take of the storages: the disk gives up removals and revisions
\* alone, and a client that shares the storage can write its revision.
Trusted ==
  \A p \in Platform :
    /\ p.aborts \subseteq {"drop", "revision"}
    /\ "revision" \in p.fails => \A c, d \in p.clients : c = d

LEMMA OnPlatform ==
  ASSUME JournalTypeOK
  PROVE  /\ platform.later \in BOOLEAN /\ platform.clients \subseteq Client
         /\ IF platform.later THEN platform.fails = {} ELSE platform.aborts = {}
         /\ platform \in Platform
  BY JournalAssumption DEF JournalTypeOK, Kind

\* The copy of a client that just wrote the revision is what it wrote; no other is current.
LEMMA Holding ==
  ASSUME JournalTypeOK, CachesInv, UNCHANGED platform, NEW c \in platform.clients,
         NEW base \in Nat, NEW log \in Seq(Change), NEW entries \in 0..JournalLimit,
         Held(c, base, log, entries), memory'.revision = c,
         ViewOf(memory)' = [base |-> base, log |-> log, entries |-> entries]
  PROVE  cached' \in [Client -> Cached] /\ CacheIsTrue' /\ CachesInv'
<1>0. c \in Client
  BY OnPlatform
<1>1. cached' \in [Client -> Cached]
  BY <1>0 DEF JournalTypeOK, Held, Cached
<1>2. /\ cached'[c] = [held |-> TRUE, base |-> base, log |-> log, entries |-> entries]
      /\ \A d \in Client : d # c => cached'[d] = cached[d]
  BY <1>0 DEF JournalTypeOK, Held
<1>3. CachesInv'
  BY <1>2 DEF CachesInv
<1>4. memory'.base = base /\ Log(memory)' = log /\ Replayed(memory)' = entries
  BY DEF ViewOf
<1>5. \A d \in Client : Current(d)' => d = c
  BY DEF Current
<1>6. CacheIsTrue'
  BY <1>2, <1>4, <1>5 DEF CacheIsTrue
<1> QED
  BY <1>1, <1>3, <1>6

\* Where one client has the storage, no copy is left once it forgets its own.
LEMMA Forgetting ==
  ASSUME JournalTypeOK, CachesInv, UNCHANGED platform, NEW c \in platform.clients,
         \A d \in platform.clients : d = c, Forgotten(c)
  PROVE  cached' \in [Client -> Cached] /\ CacheIsTrue' /\ CachesInv'
<1>0. c \in Client /\ JournalLimit \in Nat
  BY OnPlatform, JournalAssumption
<1>1. NotCached \in Cached /\ ~NotCached.held
  BY <1>0 DEF NotCached, Cached
<1>2. \A d \in Client : cached'[d] = NotCached
  BY <1>0 DEF JournalTypeOK, Forgotten, CachesInv
<1>3. cached' \in [Client -> Cached]
  BY <1>0, <1>1 DEF JournalTypeOK, Forgotten
<1> QED
  BY <1>1, <1>2, <1>3 DEF CacheIsTrue, CachesInv, Current

\* A client that could write, and fails to, has the storage for itself; any forgets.
LEMMA Unshared ==
  ASSUME Trusted, JournalTypeOK, "revision" \in platform.fails, NEW c \in platform.clients
  PROVE  \A d \in platform.clients : d = c
  BY OnPlatform DEF Trusted

LEMMA SavedStays ==
  ASSUME SavedInv, UNCHANGED <<platform, disk, saved>>,
         Range(Log(memory)) \subseteq Range(Log(memory)'),
         replying' = replying \/ replying' \in Range(Log(memory)')
  PROVE  SavedInv'
<1>1. Log(disk)' = Log(disk)
  BY DEF Log, Replayed, Followed
<1> QED
  BY <1>1 DEF SavedInv

LEMMA StorageType == ASSUME Fits(memory)' PROVE memory' \in Storage
  BY DEF Fits

LEMMA DiskFits == ASSUME Fits(disk), UNCHANGED disk PROVE Fits(disk)'
  BY DEF Fits, Replayed, Followed

\* A new change is in no workspace yet.
LEMMA Fresh ==
  ASSUME JournalInv, NextChange
  PROVE  /\ edits' \in Change /\ edits' \notin Range(Log(memory))
         /\ edits <= edits' /\ edits' \in Nat /\ edits' \in 0..MaxEdits
         /\ Append(Log(memory), edits') \in Seq(Change)
         /\ Grown(Log(memory), Append(Log(memory), edits'))
         /\ Range(Append(Log(memory), edits')) = Range(Log(memory)) \cup {edits'}
         /\ Range(Append(Log(memory), edits')) \subseteq 1..edits'
         /\ Log(memory) \in Seq(Change)
<1>1. edits \in Nat /\ MaxEdits \in Nat /\ edits' = edits + 1 /\ edits < MaxEdits
  BY JournalAssumption DEF JournalInv, JournalTypeOK, NextChange
<1>2. edits' \in Change /\ edits <= edits' /\ edits' \in Nat /\ edits' \in 0..MaxEdits
  BY <1>1 DEF Change
<1>3. Log(memory) \in Seq(Change) /\ Range(Log(memory)) \subseteq 1..edits
  BY LogParts, ReadNow DEF JournalInv
<1>4. edits' \notin Range(Log(memory))
  BY <1>1, <1>3
<1>5. Append(Log(memory), edits') \in Seq(Change)
  BY <1>2, <1>3
<1>6. Grown(Log(memory), Append(Log(memory), edits'))
  BY <1>2, <1>4 DEF Grown
<1>7. Range(Append(Log(memory), edits')) = Range(Log(memory)) \cup {edits'}
  BY <1>3, Ranges
<1>8. Range(Append(Log(memory), edits')) \subseteq 1..edits'
  BY <1>1, <1>3, <1>7
<1> QED
  BY <1>2, <1>3, <1>4, <1>5, <1>6, <1>7, <1>8

LEMMA FaultType == ASSUME JournalTypeOK PROVE (Fault => faults' \in 0..MaxFaults) /\ faults \in 0..MaxFaults
  BY JournalAssumption DEF JournalTypeOK, Fault

LEMMA DroppedType ==
  ASSUME JournalTypeOK, NEW k, Dropped(k)
  PROVE  faults' \in 0..MaxFaults
  BY FaultType DEF Dropped

\* Both ways to keep a workspace: whole, and the client holds it or forgets it.
LEMMA WholeHeld ==
  ASSUME JournalInv, NEW c \in platform.clients, NEW k \in 0..Leading,
         NEW log \in Seq(Change), log = Log(memory) \/ Grown(Log(memory), log),
         Range(Log(memory)) \subseteq Range(log), Range(log) \subseteq 1..edits',
         edits <= edits', edits' \in 0..MaxEdits, bases' = bases + 1,
         Store(SaveWrites(c, log, k)), Held(c, bases + 1, log, 0),
         UNCHANGED <<platform, disk, saved, unsaved>>, faults' \in 0..MaxFaults,
         replying' = replying \/ (replying' \in Range(log) /\ replying' \in 0..MaxEdits)
  PROVE  JournalInv'
<1>0. c \in Client /\ edits' \in Nat /\ bases + 1 \in Nat /\ 0 \in 0..JournalLimit
  BY OnPlatform, JournalAssumption DEF JournalInv, JournalTypeOK
<1>1. /\ QueueInv' /\ Fits(memory)' /\ queue' \in Seq(Writing)
      /\ ViewOf(memory)' = Saved(log) /\ memory'.revision = c
  BY <1>0, SaveKeeps DEF JournalInv
<1>2. ViewOf(memory)' = [base |-> bases + 1, log |-> log, entries |-> 0]
  BY <1>1 DEF Saved
<1>3. cached' \in [Client -> Cached] /\ CacheIsTrue' /\ CachesInv'
  BY <1>0, <1>1, <1>2, Holding DEF JournalInv
<1>4. Log(memory)' = log
  BY <1>2 DEF ViewOf
<1>5. SavedInv'
  BY <1>4, SavedStays DEF JournalInv
<1>6. JournalTypeOK'
  BY <1>0, <1>1, <1>3, StorageType DEF JournalInv, JournalTypeOK
<1> QED
  BY <1>1, <1>3, <1>5, <1>6, DiskFits DEF JournalInv

LEMMA WholeForgotten ==
  ASSUME JournalInv, NEW c \in platform.clients, \A d \in platform.clients : d = c,
         NEW log \in Seq(Change), log = Log(memory) \/ Grown(Log(memory), log),
         Range(Log(memory)) \subseteq Range(log), Range(log) \subseteq 1..edits',
         edits <= edits', edits' \in 0..MaxEdits, bases' = bases + 1,
         Store(Front(SaveWrites(c, log, Leading))), Forgotten(c),
         UNCHANGED <<platform, disk, saved, replying>>, faults' \in 0..MaxFaults,
         unsaved' \subseteq Change
  PROVE  JournalInv'
<1>0. /\ c \in Client /\ edits' \in Nat /\ bases + 1 \in Nat
      /\ Leading \in 0..Leading
  BY OnPlatform, JournalAssumption, LeadingType DEF JournalInv, JournalTypeOK
<1>1. /\ QueueInv' /\ Fits(memory)' /\ queue' \in Seq(Writing)
      /\ ViewOf(memory)' = Saved(log)
  BY <1>0, SaveKeeps DEF JournalInv
<1>3. cached' \in [Client -> Cached] /\ CacheIsTrue' /\ CachesInv'
  BY <1>0, Forgetting DEF JournalInv
<1>4. Log(memory)' = log
  BY <1>1 DEF ViewOf, Saved
<1>5. SavedInv'
  BY <1>4, SavedStays DEF JournalInv
<1>6. JournalTypeOK'
  BY <1>0, <1>1, <1>3, StorageType DEF JournalInv, JournalTypeOK
<1> QED
  BY <1>1, <1>3, <1>5, <1>6, DiskFits DEF JournalInv

LEMMA LogNow ==
  ASSUME JournalInv
  PROVE  /\ Log(memory) \in Seq(Change) /\ Range(Log(memory)) \subseteq 1..edits
         /\ edits \in 0..MaxEdits /\ edits <= edits
         /\ replying \in 0..MaxEdits /\ unsaved \subseteq Change
  BY LogParts, ReadNow, JournalAssumption DEF JournalInv, JournalTypeOK

LEMMA CopyIs ==
  ASSUME JournalInv, NEW c \in platform.clients, Current(c)
  PROVE  /\ cached[c].log = Log(memory) /\ cached[c].base = memory.base
         /\ cached[c].entries = Replayed(memory)
  BY OnPlatform DEF JournalInv, CacheIsTrue

LEMMA ReadSteps == ASSUME Trusted, JournalInv, NEW c \in platform.clients, Read(c) PROVE JournalInv'
<1>0. c \in Client
  BY OnPlatform DEF JournalInv
<1>1. CASE ReadWhole(c)
  <2>1. /\ Store(<<[call |-> "revision", client |-> c]>>) /\ Held(c, memory.base, memory.log, 0)
        /\ UNCHANGED <<platform, disk, bases, edits, replying, saved, unsaved, faults>> /\ ~Rewrites
    BY <1>1 DEF ReadWhole
  <2>2. /\ QueueInv' /\ Fits(memory)' /\ queue' \in Seq(Writing)
        /\ ViewOf(memory)' = ViewOf(memory) /\ memory'.revision = c
    BY <1>0, <2>1, RevisionKeeps DEF JournalInv
  <2>3. Replayed(memory) = 0 /\ 0 \in 0..JournalLimit
    BY <2>1, ReplayedEnds, JournalAssumption DEF Rewrites
  <2>4. Log(memory) = memory.log /\ memory.log \in Seq(Change) /\ memory.base \in Nat
    <3>1. /\ Log(memory) \in Seq(Change) /\ Len(Log(memory)) = Len(memory.log)
          /\ \A i \in 1..Len(memory.log) : Log(memory)[i] = memory.log[i]
          /\ memory.log \in Seq(Change)
      BY <2>3, LogParts DEF JournalInv
    <3>2. Log(memory) = memory.log
      BY <3>1
    <3> QED
      BY <3>1, <3>2 DEF JournalInv, JournalTypeOK, Storage
  <2>5. ViewOf(memory)' = [base |-> memory.base, log |-> memory.log, entries |-> 0]
    BY <2>2, <2>3, <2>4 DEF ViewOf
  <2>6. cached' \in [Client -> Cached] /\ CacheIsTrue' /\ CachesInv'
    BY <2>1, <2>2, <2>3, <2>4, <2>5, Holding DEF JournalInv
  <2>7. Log(memory)' = Log(memory)
    BY <2>2 DEF ViewOf
  <2>8. SavedInv'
    BY <2>1, <2>7, SavedStays DEF JournalInv
  <2>9. JournalTypeOK'
    BY <2>1, <2>2, <2>6, StorageType DEF JournalInv, JournalTypeOK
  <2> QED
    BY <2>1, <2>2, <2>6, <2>8, <2>9, DiskFits DEF JournalInv
<1>2. CASE ReadJournal(c)
  <2>1. PICK k \in 0..Leading : Dropped(k) /\ Store(SaveWrites(c, Log(memory), k))
    BY <1>2 DEF ReadJournal
  <2>2. /\ Held(c, bases + 1, Log(memory), 0) /\ bases' = bases + 1
        /\ UNCHANGED <<platform, disk, edits, replying, saved, unsaved>>
    BY <1>2 DEF ReadJournal
  <2>3. faults' \in 0..MaxFaults
    BY <2>1, DroppedType DEF JournalInv
  <2> QED
    BY <2>1, <2>2, <2>3, LogNow, WholeHeld
<1>3. CASE ReadUnrevised(c)
  <2>1. /\ Fault /\ "revision" \in platform.fails
        /\ Store(Front(SaveWrites(c, Log(memory), Leading)))
        /\ Forgotten(c) /\ bases' = bases + 1
        /\ UNCHANGED <<platform, disk, edits, replying, saved, unsaved>>
    BY <1>3 DEF ReadUnrevised
  <2>2. /\ \A d \in platform.clients : d = c
        /\ faults' \in 0..MaxFaults
    BY <2>1, Unshared, FaultType DEF JournalInv
  <2> QED
    BY <2>1, <2>2, LogNow, WholeForgotten
<1> QED
  BY <1>1, <1>2, <1>3 DEF Read

LEMMA EditSteps == ASSUME Trusted, JournalInv, NEW c \in platform.clients, Edit(c) PROVE JournalInv'
<1> DEFINE more == Append(Log(memory), edits')
<1>0. c \in Client /\ JournalLimit \in Nat
  BY OnPlatform, JournalAssumption DEF JournalInv
<1>00. NextChange
  BY DEF Edit, EditEntry, EditWhole, EditUnread, EditFails, EditUnrevised
<1>01. /\ edits' \in Change /\ edits' \notin Range(Log(memory))
       /\ edits <= edits' /\ edits' \in Nat /\ edits' \in 0..MaxEdits
       /\ more \in Seq(Change) /\ Grown(Log(memory), more)
       /\ Range(more) = Range(Log(memory)) \cup {edits'} /\ Range(more) \subseteq 1..edits'
       /\ Log(memory) \in Seq(Change)
  BY <1>00, Fresh
<1>02. Range(Log(memory)) \subseteq Range(more) /\ edits' \in Range(more)
  BY <1>01
<1>03. unsaved \cup {edits'} \subseteq Change
  BY <1>01, LogNow
<1>1. CASE EditEntry(c)
  <2>1. /\ Current(c) /\ cached[c].base # 0 /\ cached[c].entries < JournalLimit
        /\ Store(EntryWrites(c, edits'))
        /\ Held(c, cached[c].base, Append(cached[c].log, edits'), cached[c].entries + 1)
        /\ replying' = edits' /\ UNCHANGED <<platform, disk, bases, saved, unsaved, faults>>
    BY <1>1 DEF EditEntry
  <2>2. /\ cached[c].log = Log(memory) /\ cached[c].base = memory.base
        /\ cached[c].entries = Replayed(memory)
    BY <2>1, CopyIs
  <2>3. /\ QueueInv' /\ Fits(memory)' /\ queue' \in Seq(Writing)
        /\ ViewOf(memory)' = [base |-> memory.base, log |-> more, entries |-> Replayed(memory) + 1]
        /\ memory'.revision = c
    BY <1>0, <1>01, <2>1, <2>2, EntryKeeps DEF JournalInv
  <2>4. memory.base \in Nat /\ Replayed(memory) + 1 \in 0..JournalLimit
    BY <1>0, <2>1, <2>2, ReplayedEnds DEF JournalInv, JournalTypeOK, Storage
  <2>5. Held(c, memory.base, more, Replayed(memory) + 1)
    BY <2>1, <2>2
  <2>6. cached' \in [Client -> Cached] /\ CacheIsTrue' /\ CachesInv'
    BY <1>01, <2>1, <2>3, <2>4, <2>5, Holding DEF JournalInv
  <2>7. Log(memory)' = more
    BY <2>3 DEF ViewOf
  <2>8. SavedInv'
    BY <1>02, <2>1, <2>7, SavedStays DEF JournalInv
  <2>9. JournalTypeOK'
    BY <1>01, <2>1, <2>3, <2>6, StorageType DEF JournalInv, JournalTypeOK
  <2> QED
    BY <2>1, <2>3, <2>6, <2>8, <2>9, DiskFits DEF JournalInv
<1>2. CASE EditWhole(c)
  <2>1. /\ Current(c) /\ Held(c, bases + 1, Append(cached[c].log, edits'), 0)
        /\ bases' = bases + 1 /\ replying' = edits' /\ UNCHANGED <<platform, disk, saved, unsaved>>
    BY <1>2 DEF EditWhole
  <2>2. PICK k \in 0..Leading : Dropped(k) /\ Store(SaveWrites(c, Append(cached[c].log, edits'), k))
    BY <1>2 DEF EditWhole
  <2>3. cached[c].log = Log(memory)
    BY <2>1, CopyIs
  <2>4. faults' \in 0..MaxFaults
    BY <2>2, DroppedType DEF JournalInv
  <2> QED
    BY <1>01, <1>02, <2>1, <2>2, <2>3, <2>4, WholeHeld
<1>3. CASE EditUnread(c)
  <2>1. /\ Fault /\ Store(SaveWrites(c, more, Leading)) /\ Held(c, bases + 1, more, 0)
        /\ bases' = bases + 1 /\ replying' = edits' /\ UNCHANGED <<platform, disk, saved, unsaved>>
    BY <1>3 DEF EditUnread
  <2>2. Leading \in 0..Leading /\ faults' \in 0..MaxFaults
    BY <2>1, LeadingType, JournalAssumption, FaultType DEF JournalInv
  <2> QED
    BY <1>01, <1>02, <2>1, <2>2, WholeHeld
<1>4. CASE EditFails(c)
  <2>1. /\ Fault /\ Forgotten(c) /\ unsaved' = unsaved \cup {edits'}
        /\ UNCHANGED <<platform, memory, disk, queue, bases, replying, saved>>
    BY <1>4 DEF EditFails
  <2>2. cached' \in [Client -> Cached] /\ CacheIsTrue' /\ CachesInv'
    <3>1. NotCached \in Cached /\ ~NotCached.held
      BY <1>0 DEF NotCached, Cached
    <3>2. /\ cached' \in [Client -> Cached] /\ cached'[c] = NotCached
          /\ \A d \in Client : d # c => cached'[d] = cached[d]
      BY <1>0, <2>1, <3>1 DEF Forgotten, JournalInv, JournalTypeOK
    <3>3. \A d \in Client : Current(d)' => d # c /\ Current(d)
      BY <2>1, <3>1, <3>2 DEF Current
    <3>4. Log(memory)' = Log(memory) /\ Replayed(memory)' = Replayed(memory)
      BY <2>1 DEF Log, Replayed, Followed
    <3>5. CacheIsTrue'
      BY <2>1, <3>2, <3>3, <3>4 DEF JournalInv, CacheIsTrue
    <3> QED
      BY <2>1, <3>2, <3>5 DEF JournalInv, CachesInv
  <2>3. ViewOf(memory)' = ViewOf(memory) /\ ViewOf(disk)' = ViewOf(disk) /\ Log(memory)' = Log(memory)
    BY <2>1 DEF ViewOf, Log, Replayed, Followed
  <2>4. QueueInv'
    <3>1. \A u : Known(u) => Known(u)'
      BY <1>01, <2>1, LogNow DEF Known
    <3> QED
      BY <2>1, <2>3, <3>1 DEF JournalInv, QueueInv
  <2>5. Fits(memory)' /\ Fits(disk)'
    BY <2>1 DEF JournalInv, Fits, Replayed, Followed
  <2>6. SavedInv'
    BY <2>1, <2>3, SavedStays DEF JournalInv
  <2>7. JournalTypeOK'
    BY <1>01, <1>03, <2>1, <2>2, FaultType DEF JournalInv, JournalTypeOK
  <2> QED
    BY <2>2, <2>4, <2>5, <2>6, <2>7 DEF JournalInv
<1>5. CASE EditUnrevised(c)
  <2>1. /\ Current(c) /\ Fault /\ "revision" \in platform.fails /\ Forgotten(c)
        /\ unsaved' = unsaved \cup {edits'} /\ UNCHANGED <<platform, disk, replying, saved>>
    BY <1>5 DEF EditUnrevised
  <2>2. /\ cached[c].log = Log(memory) /\ cached[c].base = memory.base
        /\ cached[c].entries = Replayed(memory)
    BY <2>1, CopyIs
  <2>3. /\ \A d \in platform.clients : d = c
        /\ faults' \in 0..MaxFaults
    BY <2>1, Unshared, FaultType DEF JournalInv
  <2>4. CASE Store(Front(SaveWrites(c, Append(cached[c].log, edits'), Leading))) /\ bases' = bases + 1
    BY <1>01, <1>02, <1>03, <2>1, <2>2, <2>3, <2>4, WholeForgotten
  <2>5. CASE /\ cached[c].base # 0 /\ cached[c].entries < JournalLimit
             /\ Store(Front(EntryWrites(c, edits'))) /\ UNCHANGED bases
    <3>1. /\ QueueInv' /\ Fits(memory)' /\ queue' \in Seq(Writing)
          /\ ViewOf(memory)' = [base |-> memory.base, log |-> more, entries |-> Replayed(memory) + 1]
      BY <1>0, <1>01, <2>1, <2>2, <2>5, EntryKeeps DEF JournalInv
    <3>2. cached' \in [Client -> Cached] /\ CacheIsTrue' /\ CachesInv'
      BY <2>1, <2>3, Forgetting DEF JournalInv
    <3>3. Log(memory)' = more
      BY <3>1 DEF ViewOf
    <3>4. SavedInv'
      BY <1>02, <2>1, <3>3, SavedStays DEF JournalInv
    <3>5. JournalTypeOK'
      BY <1>01, <1>03, <2>1, <2>3, <2>5, <3>1, <3>2, StorageType DEF JournalInv, JournalTypeOK
    <3> QED
      BY <2>1, <3>1, <3>2, <3>4, <3>5, DiskFits DEF JournalInv
  <2> QED
    BY <1>5, <2>4, <2>5 DEF EditUnrevised
<1> QED
  BY <1>1, <1>2, <1>3, <1>4, <1>5 DEF Edit

-----------------------------------------------------------------------------
(* The disk, and the process that stops.                                   *)

LEMMA ChainTail ==
  ASSUME NEW ws \in Seq(Writing), ws # <<>>, NEW v, Chain(v, ws)
  PROVE  LET u == [i \in 0..(Len(ws) - 1) |-> v[i + 1]]
         IN  /\ Tail(ws) \in Seq(Writing) /\ Len(Tail(ws)) = Len(ws) - 1 /\ Chain(u, Tail(ws))
             /\ u[0] = v[1] /\ u[Len(ws) - 1] = v[Len(ws)]
             /\ Head(ws) = ws[1] /\ Head(ws) \in Writing /\ Follows(v[0], Head(ws), v[1])
<1> DEFINE n == Len(ws) - 1
           u == [i \in 0..n |-> v[i + 1]]
<1>1. Len(ws) \in Nat /\ Len(ws) >= 1 /\ n \in Nat /\ Len(ws) = n + 1
  OBVIOUS
<1>2. /\ Tail(ws) \in Seq(Writing) /\ Len(Tail(ws)) = n /\ \A i \in 1..n : Tail(ws)[i] = ws[i + 1]
      /\ Head(ws) = ws[1] /\ Head(ws) \in Writing
  BY <1>1, HeadTailProperties
<1> HIDE DEF n
<1>3. u \in [0..n -> View]
  <2>1. \A i \in 0..n : i + 1 \in 0..Len(ws)
    BY <1>1
  <2> QED
    BY <2>1 DEF Chain
<1>4. ASSUME NEW i \in 1..n PROVE Follows(u[i - 1], Tail(ws)[i], u[i])
  <2>1. i + 1 \in 1..Len(ws) /\ i - 1 \in 0..n /\ i \in 0..n /\ (i + 1) - 1 = i /\ (i - 1) + 1 = i
    BY <1>1
  <2>2. Follows(v[i], ws[i + 1], v[i + 1])
    BY <2>1 DEF Chain
  <2>3. u[i] = v[i + 1] /\ u[i - 1] = v[i] /\ Tail(ws)[i] = ws[i + 1]
    BY <1>2, <2>1
  <2> QED
    BY <2>2, <2>3
<1>5. Chain(u, Tail(ws))
  BY <1>2, <1>3, <1>4 DEF Chain
<1>6. u[0] = v[1] /\ u[n] = v[Len(ws)]
  <2>1. 0 \in 0..n /\ n \in 0..n /\ 0 + 1 = 1
    BY <1>1
  <2> QED
    BY <1>1, <2>1
<1>7. Follows(v[0], ws[1], v[1])
  <2>1. 1 \in 1..Len(ws) /\ 1 - 1 = 0
    BY <1>1
  <2> QED
    BY <2>1 DEF Chain
<1> QED
  BY <1>2, <1>5, <1>6, <1>7 DEF n

LEMMA FollowsLog ==
  ASSUME NEW u \in View, NEW w, NEW v, Follows(u, w, v)
  PROVE  (v.log = u.log \/ Grown(u.log, v.log)) /\ Range(u.log) \subseteq Range(v.log)
<1>1. v.log = u.log \/ Grown(u.log, v.log)
  BY DEF Follows, FollowsWhole, FollowsEntry, FollowsOther, Grown
<1>2. Range(u.log) \subseteq Range(v.log)
  BY <1>1, Ranges DEF View, Grown
<1> QED
  BY <1>1, <1>2

\* The disk after a write reads as the queue says, and so do the writes left.
LEMMA FlushSteps ==
  ASSUME JournalInv, Flush
  PROVE  JournalInv' /\ (Log(disk)' = Log(disk) \/ Grown(Log(disk), Log(disk)'))
<1>0. /\ queue \in Seq(Writing) /\ queue # <<>> /\ Len(queue) \in Nat /\ Len(queue) >= 1
      /\ queue' = Tail(queue) /\ disk' = Apply(disk, Head(queue))
      /\ UNCHANGED <<platform, memory, cached, bases, edits, replying, saved, unsaved, faults>>
  BY DEF JournalInv, JournalTypeOK, Flush
<1>1. PICK v : /\ Chain(v, queue)
               /\ v[0] = ViewOf(disk) /\ v[Len(queue)] = ViewOf(memory)
               /\ \A i \in 0..Len(queue) : Known(v[i])
  BY DEF JournalInv, QueueInv
<1> DEFINE n == Len(queue) - 1
           t == [i \in 0..n |-> v[i + 1]]
<1>2. /\ Tail(queue) \in Seq(Writing) /\ Len(Tail(queue)) = n /\ Chain(t, Tail(queue))
      /\ t[0] = v[1] /\ t[n] = v[Len(queue)]
      /\ Head(queue) \in Writing /\ Follows(v[0], Head(queue), v[1])
  BY <1>0, <1>1, ChainTail
<1>3. Fits(disk') /\ ViewOf(disk') = v[1]
  BY <1>0, <1>1, <1>2, ApplyView DEF JournalInv
<1>4. /\ ViewOf(disk)' = v[1] /\ Fits(disk)' /\ disk' \in Storage
      /\ ViewOf(memory)' = ViewOf(memory) /\ Log(memory)' = Log(memory)
      /\ Replayed(memory)' = Replayed(memory) /\ Fits(memory)'
  BY <1>0, <1>3 DEF JournalInv, ViewOf, Fits, Log, Replayed, Followed
<1>5. ASSUME NEW i \in 0..n PROVE Range(t[i].log) \subseteq 1..edits' /\ t[i].base <= bases'
  <2>1. i + 1 \in 0..Len(queue)
    BY <1>0
  <2>2. Known(v[i + 1])
    BY <1>1, <2>1
  <2>3. t[i] = v[i + 1]
    OBVIOUS
  <2> HIDE DEF t
  <2> QED
    BY <1>0, <2>2, <2>3 DEF Known
<1> HIDE DEF t, n
<1>6. QueueInv'
  BY <1>0, <1>1, <1>2, <1>4, <1>5 DEF QueueInv, Known
<1>7. ViewOf(disk) \in View
  BY ViewType DEF JournalInv
<1>8. /\ Log(disk)' = Log(disk) \/ Grown(Log(disk), Log(disk)')
      /\ Range(Log(disk)) \subseteq Range(Log(disk)')
  <2>1. /\ v[1].log = ViewOf(disk).log \/ Grown(ViewOf(disk).log, v[1].log)
        /\ Range(ViewOf(disk).log) \subseteq Range(v[1].log)
    BY <1>1, <1>2, <1>7, FollowsLog
  <2>2. ViewOf(disk).log = Log(disk) /\ v[1].log = Log(disk)'
    BY <1>4 DEF ViewOf
  <2> QED
    BY <2>1, <2>2
<1>9. SavedInv'
  BY <1>0, <1>4, <1>8 DEF JournalInv, SavedInv
<1>10. CacheIsTrue' /\ CachesInv'
  BY <1>0, <1>4 DEF JournalInv, CacheIsTrue, CachesInv, Current
<1>11. JournalTypeOK'
  BY <1>0, <1>2, <1>4 DEF JournalInv, JournalTypeOK
<1> QED
  BY <1>4, <1>6, <1>8, <1>9, <1>10, <1>11 DEF JournalInv

\* A removal or a revision given up changes nothing that is read.
LEMMA AbortSteps == ASSUME Trusted, JournalInv, Abort PROVE JournalInv' /\ Log(disk)' = Log(disk)
<1>0. /\ queue \in Seq(Writing) /\ queue # <<>> /\ Len(queue) \in Nat /\ Len(queue) >= 1
      /\ queue' = Tail(queue) /\ Fault
      /\ UNCHANGED <<platform, memory, disk, cached, bases, edits, replying, saved>>
  BY DEF JournalInv, JournalTypeOK, Abort
<1>1. Head(queue).call \in {"drop", "revision"}
  BY OnPlatform DEF JournalInv, Abort, Trusted
<1>2. unsaved' = unsaved
  BY <1>1 DEF Abort
<1>3. PICK v : /\ Chain(v, queue)
               /\ v[0] = ViewOf(disk) /\ v[Len(queue)] = ViewOf(memory)
               /\ \A i \in 0..Len(queue) : Known(v[i])
  BY DEF JournalInv, QueueInv
<1> DEFINE n == Len(queue) - 1
           t == [i \in 0..n |-> v[i + 1]]
<1>4. /\ Tail(queue) \in Seq(Writing) /\ Len(Tail(queue)) = n /\ Chain(t, Tail(queue))
      /\ t[0] = v[1] /\ t[n] = v[Len(queue)]
      /\ Follows(v[0], Head(queue), v[1])
  BY <1>0, <1>3, ChainTail
<1>5. v[1] = ViewOf(disk)
  BY <1>1, <1>3, <1>4 DEF Follows, FollowsWhole, FollowsEntry, FollowsOther
<1>6. /\ ViewOf(disk)' = ViewOf(disk) /\ Fits(disk)' /\ Log(disk)' = Log(disk)
      /\ ViewOf(memory)' = ViewOf(memory) /\ Log(memory)' = Log(memory)
      /\ Replayed(memory)' = Replayed(memory) /\ Fits(memory)'
  BY <1>0 DEF JournalInv, ViewOf, Fits, Log, Replayed, Followed
<1>7. ASSUME NEW i \in 0..n PROVE Range(t[i].log) \subseteq 1..edits' /\ t[i].base <= bases'
  <2>1. i + 1 \in 0..Len(queue)
    BY <1>0
  <2>2. Known(v[i + 1])
    BY <1>3, <2>1
  <2>3. t[i] = v[i + 1]
    OBVIOUS
  <2> HIDE DEF t
  <2> QED
    BY <1>0, <2>2, <2>3 DEF Known
<1> HIDE DEF t, n
<1>8. QueueInv'
  BY <1>0, <1>3, <1>4, <1>5, <1>6, <1>7 DEF QueueInv, Known
<1>9. SavedInv'
  BY <1>0, <1>6 DEF JournalInv, SavedInv
<1>10. CacheIsTrue' /\ CachesInv'
  BY <1>0, <1>6 DEF JournalInv, CacheIsTrue, CachesInv, Current
<1>11. JournalTypeOK'
  BY <1>0, <1>2, <1>4, FaultType DEF JournalInv, JournalTypeOK
<1> QED
  BY <1>6, <1>8, <1>9, <1>10, <1>11 DEF JournalInv

\* With nothing on its way, the disk reads as the clients do.
LEMMA AllWritten ==
  ASSUME JournalInv, queue = <<>>
  PROVE  ViewOf(disk) = ViewOf(memory) /\ Log(disk) = Log(memory)
<1>1. ViewOf(disk) = ViewOf(memory)
  BY DEF JournalInv, QueueInv
<1> QED
  BY <1>1 DEF ViewOf

\* A storage that starts from itself has nothing on its way.
LEMMA Restarted ==
  ASSUME NEW s, Fits(s), Known(ViewOf(s))
  PROVE  LET v == [i \in 0..0 |-> ViewOf(s)]
         IN  Chain(v, <<>>) /\ v[0] = ViewOf(s) /\ v[Len(<<>>)] = ViewOf(s) /\ \A i \in 0..Len(<<>>) : Known(v[i])
<1>1. ViewOf(s) \in View
  BY ViewType
<1>2. Len(<<>>) = 0 /\ 1..0 = {} /\ 0..0 = {0}
  OBVIOUS
<1> QED
  BY <1>1, <1>2 DEF Chain

LEMMA CrashSteps == ASSUME JournalInv, Crash PROVE JournalInv' /\ Log(disk)' = Log(disk)
<1>0. /\ memory' = disk /\ queue' = <<>> /\ cached' = [c \in Client |-> NotCached] /\ replying' = 0
      /\ saved' = (IF platform.later THEN saved \cap Range(Log(disk)) ELSE saved)
      /\ UNCHANGED <<platform, disk, bases, edits, unsaved>> /\ Fault
  BY DEF Crash
<1>1. /\ ViewOf(disk)' = ViewOf(disk) /\ Fits(disk)' /\ Log(disk)' = Log(disk)
      /\ ViewOf(memory)' = ViewOf(disk) /\ Log(memory)' = Log(disk) /\ Fits(memory)'
  BY <1>0 DEF JournalInv, ViewOf, Fits, Log, Replayed, Followed
<1>2. Known(ViewOf(disk))
  <2>1. Len(queue) \in Nat
    BY DEF JournalInv, JournalTypeOK
  <2> QED
    BY <2>1 DEF JournalInv, QueueInv
<1>3. QueueInv'
  <2>1. \E v : /\ Chain(v, <<>>) /\ v[0] = ViewOf(disk) /\ v[Len(<<>>)] = ViewOf(disk)
               /\ \A i \in 0..Len(<<>>) : Known(v[i])
    BY <1>2, Restarted DEF JournalInv
  <2>2. \A x : Known(x) => Known(x)'
    BY <1>0 DEF Known
  <2> QED
    BY <1>0, <1>1, <2>1, <2>2 DEF QueueInv
<1>4. SavedInv'
  BY <1>0, <1>1, OnPlatform DEF JournalInv, SavedInv
<1>5. NotCached \in Cached /\ ~NotCached.held
  BY JournalAssumption DEF NotCached, Cached
<1>6. CacheIsTrue' /\ CachesInv' /\ cached' \in [Client -> Cached]
  BY <1>0, <1>5 DEF CacheIsTrue, CachesInv, Current
<1>7. JournalTypeOK'
  BY <1>0, <1>1, <1>6, FaultType, StorageType, JournalAssumption DEF JournalInv, JournalTypeOK
<1> QED
  BY <1>1, <1>3, <1>4, <1>6, <1>7 DEF JournalInv

LEMMA Unchanged ==
  ASSUME JournalInv, UNCHANGED <<platform, memory, disk, queue, cached, bases, edits, unsaved, faults>>,
         saved' \subseteq saved \cup {replying}, replying' = replying \/ replying' = 0,
         saved' = saved \/ (replying # 0 /\ (platform.later \/ queue = <<>>))
  PROVE  JournalInv' /\ Log(disk)' = Log(disk)
<1>1. /\ ViewOf(disk)' = ViewOf(disk) /\ Fits(disk)' /\ Log(disk)' = Log(disk)
      /\ ViewOf(memory)' = ViewOf(memory) /\ Log(memory)' = Log(memory) /\ Fits(memory)'
      /\ Replayed(memory)' = Replayed(memory)
  BY DEF JournalInv, ViewOf, Fits, Log, Replayed, Followed
<1>2. QueueInv'
  <2>1. \A x : Known(x) => Known(x)'
    BY DEF Known
  <2> QED
    BY <1>1, <2>1 DEF JournalInv, QueueInv
<1>3. SavedInv'
  <2>1. saved' = saved \/ replying \in Range(Log(memory))
    BY DEF JournalInv, SavedInv
  <2>2. ~platform.later => saved' = saved \/ replying \in Range(Log(disk))
    BY <2>1, AllWritten
  <2> QED
    BY <1>1, <2>1, <2>2 DEF JournalInv, SavedInv
<1>4. CacheIsTrue' /\ CachesInv'
  BY <1>1 DEF JournalInv, CacheIsTrue, CachesInv, Current
<1>5. JournalTypeOK'
  <2>1. saved' = saved \/ replying \in Change
    <3>1. Range(Log(memory)) \subseteq Change
      BY LogNow, Ranges
    <3> QED
      BY <3>1 DEF JournalInv, SavedInv
  <2>2. saved' \subseteq Change /\ replying' \in 0..MaxEdits
    BY <2>1, JournalAssumption DEF JournalInv, JournalTypeOK
  <2> QED
    BY <2>2 DEF JournalInv, JournalTypeOK
<1> QED
  BY <1>1, <1>2, <1>3, <1>4, <1>5 DEF JournalInv

-----------------------------------------------------------------------------
(* What holds of every run.                                                *)

LEMMA Begins == ASSUME JournalInit PROVE JournalInv /\ Log(disk) = <<>>
<1>0. /\ memory = EmptyStorage /\ disk = EmptyStorage /\ queue = <<>> /\ platform \in Platform
      /\ cached = [c \in Client |-> NotCached] /\ bases = 0 /\ edits = 0 /\ replying = 0
      /\ saved = {} /\ unsaved = {} /\ faults = 0
  BY DEF JournalInit
<1>1. JournalLimit \in Nat /\ MaxEdits \in Nat /\ MaxFaults \in Nat
  BY JournalAssumption
<1>2. EmptyStorage \in Storage /\ EmptyStorage.base = 0 /\ EmptyStorage.log = <<>>
  <2>1. <<>> \in Seq(Change) /\ NoEntry \in Entry
    BY <1>1 DEF NoEntry, Entry
  <2> QED
    BY <2>1 DEF EmptyStorage, Storage
<1>3. \A n : ~Followed(EmptyStorage, n)
  BY <1>2 DEF Followed
<1>4. Replayed(EmptyStorage) = 0
  BY <1>1, <1>3, ReplayedIs
<1>5. Fits(EmptyStorage)
  BY <1>2, <1>3 DEF Fits, EmptyStorage, NoEntry
<1>6. Log(EmptyStorage) = <<>>
  <2>1. Log(EmptyStorage) \in Seq(Change) /\ Len(Log(EmptyStorage)) = 0
    BY <1>2, <1>4, <1>5, LogParts
  <2> QED
    BY <2>1
<1>7. Known(ViewOf(EmptyStorage))
  BY <1>0, <1>2, <1>6 DEF Known, ViewOf, Range
<1>8. QueueInv
  BY <1>0, <1>5, <1>7, Restarted DEF QueueInv
<1>9. NotCached \in Cached /\ ~NotCached.held
  BY <1>1 DEF NotCached, Cached
<1>10. CacheIsTrue /\ CachesInv /\ cached \in [Client -> Cached]
  BY <1>0, <1>9 DEF CacheIsTrue, CachesInv, Current
<1>11. JournalTypeOK
  BY <1>0, <1>1, <1>2, <1>10 DEF JournalTypeOK
<1>12. SavedInv
  BY <1>0 DEF SavedInv
<1> QED
  BY <1>0, <1>5, <1>6, <1>8, <1>10, <1>11, <1>12 DEF JournalInv

LEMMA Steps ==
  ASSUME Trusted, JournalInv, [JournalNext]_journalVars
  PROVE  JournalInv' /\ (Log(disk)' = Log(disk) \/ Grown(Log(disk), Log(disk)'))
<1>1. ASSUME NEW c \in platform.clients, Read(c) \/ Edit(c) PROVE JournalInv' /\ Log(disk)' = Log(disk)
  <2>1. UNCHANGED disk
    BY <1>1 DEF Read, ReadWhole, ReadJournal, ReadUnrevised,
                Edit, EditEntry, EditWhole, EditUnread, EditFails, EditUnrevised
  <2>2. Log(disk)' = Log(disk)
    BY <2>1 DEF Log, Replayed, Followed
  <2> QED
    BY <1>1, <2>2, ReadSteps, EditSteps
<1>2. CASE Reply
  <2>1. /\ UNCHANGED <<platform, memory, disk, queue, cached, bases, edits, unsaved, faults>>
        /\ saved' = saved \cup {replying} /\ replying # 0 /\ replying' = 0
        /\ platform.later \/ queue = <<>>
    BY <1>2 DEF Reply
  <2> QED
    BY <2>1, Unchanged
<1>3. CASE Flush
  BY <1>3, FlushSteps
<1>4. CASE Abort
  BY <1>4, AbortSteps
<1>5. CASE Crash
  BY <1>5, CrashSteps
<1>6. CASE UNCHANGED journalVars
  <2>1. /\ UNCHANGED <<platform, memory, disk, queue, cached, bases, edits, unsaved, faults>>
        /\ saved' = saved /\ replying' = replying
    BY <1>6 DEF journalVars
  <2> QED
    BY <2>1, Unchanged
<1> QED
  BY <1>1, <1>2, <1>3, <1>4, <1>5, <1>6 DEF JournalNext

LEMMA AlwaysInv == ASSUME Trusted PROVE JournalSpec => []JournalInv
<1>1. JournalInit => JournalInv
  BY Begins
<1>2. JournalInv /\ [JournalNext]_journalVars => JournalInv'
  BY Steps
<1> QED
  BY <1>1, <1>2, PTL DEF JournalSpec

\* A client that trusts its parsed copy reads what the storage says, and its next entry
\* goes right after the journal's last: whoever wrote since, whatever threw, and whatever
\* a restart found (data and append, client.ts).
THEOREM AlwaysTrue == ASSUME Trusted PROVE JournalSpec => []MemoryIsTrue
<1>1. JournalInv => MemoryIsTrue
  BY DEF JournalInv, MemoryIsTrue
<1> QED
  BY <1>1, AlwaysInv, PTL

\* Once nothing is on its way, every change whose caller heard it is saved is on the
\* disk, in the workspace or in its journal (save and append, client.ts).
THEOREM AlwaysSaved == ASSUME Trusted PROVE JournalSpec => []SavedIsKept
<1>1. ASSUME JournalInv PROVE SavedIsKept
  BY <1>1, AllWritten DEF JournalInv, SavedInv, SavedIsKept
<1> QED
  BY <1>1, AlwaysInv, PTL

\* The disk implements the promise: each write that reaches it keeps one new change at
\* the end, or leaves what is kept as it was, so that a process stopped between any two
\* writes of a save, or one that reads a journal left behind, undoes and repeats nothing
\* (save, dropJournal and readJournal, client.ts).
THEOREM AlwaysKeeps == ASSUME Trusted PROVE JournalSpec => KeptSpec
<1>1. JournalInit => Kept!Init
  BY Begins DEF Kept!Init
<1>2. ASSUME JournalInv, [JournalNext]_journalVars PROVE [Kept!Next]_(Log(disk))
  <2>1. Log(disk)' = Log(disk) \/ Grown(Log(disk), Log(disk)')
    BY <1>2, Steps
  <2>2. CASE Log(disk)' = Log(disk)
    BY <2>2
  <2>3. CASE Grown(Log(disk), Log(disk)')
    BY <2>3 DEF Grown, Kept!Next, Kept!Keep, Kept!Range, Range
  <2> QED
    BY <2>1, <2>2, <2>3
<1> QED
  BY <1>1, <1>2, AlwaysInv, PTL DEF JournalSpec, KeptSpec, Kept!Spec

=============================================================================
