----------------------------- MODULE ChangeFeed -----------------------------
(***************************************************************************)
(* The account-scoped change feed: sync.go's triggers and syncPull, the    *)
(* two ways a page of changes reaches a device (the client's own pull and  *)
(* the pages streamed down its live socket) and the merge of a page into   *)
(* the device's workspace.                                                 *)
(*                                                                         *)
(* One account.  An entity is a row of a practice table; writes of other   *)
(* accounts only consume numbers of the shared sequence.  A page is read   *)
(* in two statements, of two snapshots of the database, and any number of  *)
(* writes may commit between them.                                         *)
(***************************************************************************)
EXTENDS Naturals, FiniteSets, Sequences, Functions

CONSTANTS
  Entity,     \* rows of the practice tables; AUTOINCREMENT never reuses an id
  Guarded,    \* those of the kinds only opted-in clients read (orders, journey)
  Value,      \* contents of a row
  Absent,     \* no such row
  Device,
  PageSize,   \* LIMIT of a page: 500
  MergeSize,  \* changes pulled before they are merged: 5000
  MaxSeq,     \* bound: changes the model makes
  MaxStream   \* bound: streamed pages in flight on one socket

ASSUME FeedAssumption ==
  /\ IsFiniteSet(Entity)
  /\ Guarded \subseteq Entity
  /\ Absent \notin Value
  /\ PageSize \in Nat \ {0}
  /\ MergeSize \in Nat \ {0}
  /\ MaxSeq \in Nat
  /\ MaxStream \in Nat

VARIABLES
  row,      \* the practice tables
  seq,      \* the last number sync_changes took
  change,   \* sync_changes: the number of each entity's only change, 0 for none
  deleted,  \* its "deleted" column
  copy,     \* the rows each device's workspace holds
  cursor,   \* workspace.cursor
  optIn,    \* the device's app reads guarded kinds (learningGroups=1&journey=1)
  pull,     \* the device's catch-up (synchronize's pull loop)
  socket,   \* the device's live socket at the server
  stream    \* the "changes" pages on their way down that socket

server == <<row, seq, change, deleted>>
device == <<copy, cursor, optIn>>
vars == <<row, seq, change, deleted, copy, cursor, optIn, pull, socket, stream>>

Content == Value \cup {Absent}
Values == UNION {[D -> Content] : D \in SUBSET Entity}
NoValues == [e \in {} |-> Absent]

\* A page: the changes numbered in (after, cursor] and the values read for them.
Page == [after : Nat, cursor : Nat, values : Values]

\* A read of the feed between its two statements.
Reading == [rows : SUBSET Entity, gone : SUBSET Entity,
            after : Nat, cursor : Nat, more : BOOLEAN]
NoReading == [rows |-> {}, gone |-> {}, after |-> 0, cursor |-> 0, more |-> FALSE]

\* from: workspace.cursor when this batch began; at: the loop's own cursor.
Pull == [phase : {"idle", "ask", "reading", "answered"}, from : Nat, at : Nat,
         size : Nat, batch : Values, reading : Reading]
NoPull == [phase |-> "idle", from |-> 0, at |-> 0, size |-> 0,
           batch |-> NoValues, reading |-> NoReading]

Socket == [phase : {"closed", "open", "reading"}, delivered : Nat, reading : Reading]
NoSocket == [phase |-> "closed", delivered |-> 0, reading |-> NoReading]

TypeOK ==
  /\ row \in [Entity -> Content]
  /\ seq \in Nat
  /\ change \in [Entity -> Nat]
  /\ deleted \in [Entity -> BOOLEAN]
  /\ copy \in [Device -> [Entity -> Content]]
  /\ cursor \in [Device -> Nat]
  /\ optIn \in [Device -> BOOLEAN]
  /\ pull \in [Device -> Pull]
  /\ socket \in [Device -> Socket]
  /\ stream \in [Device -> Seq(Page)]

Init ==
  /\ row = [e \in Entity |-> Absent]
  /\ seq = 0
  /\ change = [e \in Entity |-> 0]
  /\ deleted = [e \in Entity |-> FALSE]
  /\ copy = [d \in Device |-> [e \in Entity |-> Absent]]
  /\ cursor = [d \in Device |-> 0]
  /\ optIn \in [Device -> BOOLEAN]
  /\ pull = [d \in Device |-> NoPull]
  /\ socket = [d \in Device |-> NoSocket]
  /\ stream = [d \in Device |-> <<>>]

-----------------------------------------------------------------------------
(* The server's writes: each runs in a transaction of the only writer, and *)
(* its trigger moves the entity's change to a fresh number.                *)

Trigger(e, gone) ==
  /\ seq < MaxSeq
  /\ seq' = seq + 1
  /\ change' = [change EXCEPT ![e] = seq + 1]
  /\ deleted' = [deleted EXCEPT ![e] = gone]

Insert(e, v) ==
  /\ change[e] = 0
  /\ row' = [row EXCEPT ![e] = v]
  /\ Trigger(e, FALSE)
  /\ UNCHANGED <<copy, cursor, optIn, pull, socket, stream>>

Update(e, v) ==
  /\ row[e] # Absent
  /\ row' = [row EXCEPT ![e] = v]
  /\ Trigger(e, FALSE)
  /\ UNCHANGED <<copy, cursor, optIn, pull, socket, stream>>

\* Orders and profile entries are only ever overwritten.
Delete(e) ==
  /\ e \notin Guarded
  /\ row[e] # Absent
  /\ row' = [row EXCEPT ![e] = Absent]
  /\ Trigger(e, TRUE)
  /\ UNCHANGED <<copy, cursor, optIn, pull, socket, stream>>

OtherAccountWrites ==
  /\ seq < MaxSeq
  /\ seq' = seq + 1
  /\ UNCHANGED <<row, change, deleted, copy, cursor, optIn, pull, socket, stream>>

-----------------------------------------------------------------------------
(* syncPull.                                                               *)

\* Mutant: the page's cursor is the account's newest change, whatever LIMIT cut.
IsPage_CursorOfFeed(r) ==
  LET pending == {e \in Entity : change[e] > r.after}
  IN /\ r.rows \subseteq pending
     /\ \A e \in r.rows, f \in pending \ r.rows : change[e] <= change[f]
     /\ Cardinality(r.rows) <= PageSize
     /\ (r.rows # pending => Cardinality(r.rows) = PageSize)
     /\ r.gone = {e \in r.rows : deleted[e]}
     /\ r.more = (Cardinality(r.rows) = PageSize)
     /\ IF pending = {} THEN r.cursor = r.after
        ELSE /\ \E e \in pending : r.cursor = change[e]
             /\ \A e \in pending : change[e] <= r.cursor

\* Its first statement: the first PageSize changes past `after`.
IsPage(r) ==
  LET pending == {e \in Entity : change[e] > r.after}
  IN /\ r.rows \subseteq pending
     /\ \A e \in r.rows, f \in pending \ r.rows : change[e] <= change[f]
     /\ Cardinality(r.rows) <= PageSize
     /\ (r.rows # pending => Cardinality(r.rows) = PageSize)
     /\ r.gone = {e \in r.rows : deleted[e]}
     /\ r.more = (Cardinality(r.rows) = PageSize)
     /\ IF r.rows = {} THEN r.cursor = r.after
        ELSE /\ \E e \in r.rows : r.cursor = change[e]
             /\ \A e \in r.rows : change[e] <= r.cursor

Readings(after) ==
  [rows : SUBSET Entity, gone : SUBSET Entity,
   after : {after}, cursor : {change[e] : e \in Entity} \cup {after}, more : BOOLEAN]

\* Its second: the rows of the changes not seen as deletions, as they are now; a
\* row gone since then has no value.  Kinds not opted in are left out.
ValuesOf(r, all) ==
  [e \in (IF all THEN r.rows ELSE r.rows \ Guarded) |->
     IF e \in r.gone THEN Absent ELSE row[e]]

-----------------------------------------------------------------------------
(* The client's merge of changes into its workspace (client.ts merge): a   *)
(* batch that ends before the workspace's cursor is ignored.               *)

\* Mutant: a batch that ends before the workspace's cursor is merged too.
Merge_Stale(d, values, at) ==
  /\ copy' = [copy EXCEPT ![d] = [e \in Entity |->
                IF e \in DOMAIN values THEN values[e] ELSE @[e]]]
  /\ cursor' = [cursor EXCEPT ![d] = at]

Merge(d, values, at) ==
  IF at < cursor[d] THEN UNCHANGED <<copy, cursor>>
  ELSE /\ copy' = [copy EXCEPT ![d] = [e \in Entity |->
                     IF e \in DOMAIN values THEN values[e] ELSE @[e]]]
       /\ cursor' = [cursor EXCEPT ![d] = at]

(* The client's pull loop.                                                 *)

StartPull(d) ==
  /\ pull[d].phase = "idle"
  /\ pull' = [pull EXCEPT ![d] =
                [NoPull EXCEPT !.phase = "ask", !.from = cursor[d], !.at = cursor[d]]]
  /\ UNCHANGED <<server, device, socket, stream>>

PullRows(d) ==
  /\ pull[d].phase = "ask"
  /\ \E r \in Readings(pull[d].at) :
       /\ IsPage(r)
       /\ pull' = [pull EXCEPT ![d].phase = "reading", ![d].reading = r]
  /\ UNCHANGED <<server, device, socket, stream>>

\* Answered over the socket, the pull also moves what the socket has delivered.
PullValues(d) ==
  LET p == pull[d]
      got == ValuesOf(p.reading, optIn[d])
  IN /\ p.phase = "reading"
     /\ pull' = [pull EXCEPT ![d] =
          [p EXCEPT !.phase = "answered", !.at = p.reading.cursor,
                    !.size = @ + Cardinality(DOMAIN got),
                    !.batch = [e \in DOMAIN got \cup DOMAIN @ |->
                                 IF e \in DOMAIN got THEN got[e] ELSE @[e]]]]
     /\ \/ UNCHANGED socket
        \/ /\ socket[d].phase = "open"
           /\ p.reading.cursor > socket[d].delivered
           /\ socket' = [socket EXCEPT ![d].delivered = p.reading.cursor]
     /\ UNCHANGED <<server, device, stream>>

\* Mutant: the loop asks for its next page from where the batch began.
TakePage_Rewinds(d) ==
  LET p == pull[d]
      on == p.reading.more
  IN /\ p.phase = "answered"
     /\ IF on /\ p.size < MergeSize
        THEN /\ pull' = [pull EXCEPT ![d].phase = "ask", ![d].at = p.from,
                                     ![d].reading = NoReading]
             /\ UNCHANGED <<copy, cursor>>
        ELSE /\ Merge(d, p.batch, p.at)
             /\ pull' = [pull EXCEPT ![d] = NoPull]
     /\ UNCHANGED <<server, optIn, socket, stream>>

TakePage(d) ==
  LET p == pull[d]
      on == p.reading.more
  IN /\ p.phase = "answered"
     /\ IF on /\ p.size < MergeSize
        THEN /\ pull' = [pull EXCEPT ![d].phase = "ask", ![d].reading = NoReading]
             /\ UNCHANGED <<copy, cursor>>
        ELSE /\ Merge(d, p.batch, p.at)
             /\ pull' = [pull EXCEPT ![d] =
                  IF on THEN [NoPull EXCEPT !.phase = "ask", !.from = p.at, !.at = p.at]
                  ELSE NoPull]
     /\ UNCHANGED <<server, optIn, socket, stream>>

\* A failed request, a timeout or a stopped app: what was pulled is forgotten.
AbandonPull(d) ==
  /\ pull[d].phase # "idle"
  /\ pull' = [pull EXCEPT ![d] = NoPull]
  /\ UNCHANGED <<server, device, socket, stream>>

-----------------------------------------------------------------------------
(* The live socket: pages streamed from what it delivered.                 *)

\* The app's first message names the workspace's cursor.
Connect(d) ==
  /\ socket[d].phase = "closed"
  /\ optIn[d]
  /\ socket' = [socket EXCEPT ![d] =
                  [NoSocket EXCEPT !.phase = "open", !.delivered = cursor[d]]]
  /\ UNCHANGED <<server, device, pull, stream>>

\* When stream() is woken is LiveStream's subject: here it may be at any time.
StreamRows(d) ==
  /\ socket[d].phase = "open"
  /\ \E r \in Readings(socket[d].delivered) :
       /\ IsPage(r)
       /\ socket' = [socket EXCEPT ![d].phase = "reading", ![d].reading = r]
  /\ UNCHANGED <<server, device, pull, stream>>

StreamValues(d) ==
  LET r == socket[d].reading
      page == [after |-> r.after, cursor |-> r.cursor, values |-> ValuesOf(r, TRUE)]
  IN /\ socket[d].phase = "reading"
     /\ Len(stream[d]) < MaxStream
     /\ socket' = [socket EXCEPT ![d] =
                     [phase |-> "open", delivered |-> r.cursor, reading |-> NoReading]]
     /\ stream' = IF r.cursor <= r.after THEN stream
                  ELSE [stream EXCEPT ![d] = Append(@, page)]
     /\ UNCHANGED <<server, device, pull>>

\* Mutant: no look at the page's `after`.
ReceiveChanges_Gap(d) ==
  /\ stream[d] # <<>>
  /\ stream' = [stream EXCEPT ![d] = Tail(@)]
  /\ LET page == Head(stream[d])
     IN IF page.cursor <= cursor[d]
        THEN UNCHANGED <<copy, cursor>>
        ELSE Merge(d, page.values, page.cursor)
  /\ UNCHANGED <<server, optIn, pull, socket>>

\* A page the workspace already covers is dropped; one past a gap is dropped
\* too, and a pull asked for (StartPull may always begin one).
ReceiveChanges(d) ==
  /\ stream[d] # <<>>
  /\ stream' = [stream EXCEPT ![d] = Tail(@)]
  /\ LET page == Head(stream[d])
     IN IF page.cursor <= cursor[d] \/ page.after > cursor[d]
        THEN UNCHANGED <<copy, cursor>>
        ELSE Merge(d, page.values, page.cursor)
  /\ UNCHANGED <<server, optIn, pull, socket>>

Disconnect(d) ==
  /\ socket[d].phase # "closed"
  /\ socket' = [socket EXCEPT ![d] = NoSocket]
  /\ stream' = [stream EXCEPT ![d] = <<>>]
  /\ UNCHANGED <<server, device, pull>>

-----------------------------------------------------------------------------
\* A device's app learns the guarded kinds: its workspace was advanced past
\* changes it could not read, and the feed is replayed once from the start.
Upgrade(d) ==
  /\ ~optIn[d]
  /\ optIn' = [optIn EXCEPT ![d] = TRUE]
  /\ cursor' = [cursor EXCEPT ![d] = 0]
  /\ pull' = [pull EXCEPT ![d] = NoPull]
  /\ socket' = [socket EXCEPT ![d] = NoSocket]
  /\ stream' = [stream EXCEPT ![d] = <<>>]
  /\ UNCHANGED <<server, copy>>

Write ==
  \/ \E e \in Entity, v \in Value : Insert(e, v) \/ Update(e, v)
  \/ \E e \in Entity : Delete(e)
  \/ OtherAccountWrites

Catchup(d) == StartPull(d) \/ PullRows(d) \/ PullValues(d) \/ TakePage(d)

Live(d) == Connect(d) \/ StreamRows(d) \/ StreamValues(d) \/ ReceiveChanges(d)

Next ==
  \/ Write
  \/ \E d \in Device :
       Catchup(d) \/ AbandonPull(d) \/ Live(d) \/ Disconnect(d) \/ Upgrade(d)

Spec == Init /\ [][Next]_vars

\* Only the loop's own steps are fair: a request is answered or abandoned.
FairSpec ==
  /\ Spec
  /\ \A d \in Device : WF_vars(PullRows(d)) /\ WF_vars(PullValues(d)) /\ WF_vars(TakePage(d))

-----------------------------------------------------------------------------
\* The kinds of entity a device reads.
Visible(d) == IF optIn[d] THEN Entity ELSE Entity \ Guarded

\* A device that has read the feed to its end holds exactly the account's rows
\* of the kinds it reads: no write is missed, whatever was being read, streamed
\* or abandoned when it committed.
CaughtUp ==
  \A d \in Device : cursor[d] = seq =>
    \A e \in Visible(d) : copy[d][e] = row[e]

\* Whatever a device holds that is not the server's row is still ahead of its
\* cursor in the feed: a difference can be stale, never lost.
StaleIsPending ==
  \A d \in Device : \A e \in Visible(d) :
    copy[d][e] = row[e] \/ change[e] > cursor[d]

\* Applying a page cut by LIMIT is sound because no two entities share a number
\* and none was given one past the counter.
Numbered ==
  /\ \A e \in Entity : change[e] <= seq
  /\ \A e, f \in Entity : e # f /\ change[e] = change[f] => change[e] = 0

\* A device never goes back over changes it has merged, however late a page
\* comes, except once, when its app learns the guarded kinds.
CursorForward ==
  [][\A d \in Device : cursor'[d] >= cursor[d] \/ (~optIn[d] /\ optIn'[d])]_vars

\* A catch-up ends: a page whose changes are all of kinds the device does not
\* read still moves it along.
PullEnds ==
  \A d \in Device : pull[d].phase # "idle" ~> pull[d].phase = "idle"

=============================================================================
