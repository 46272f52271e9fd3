---------------------------- MODULE PracticeSync ----------------------------
(***************************************************************************)
(* The life of a solve between one device and the server: the outbox of    *)
(* client.ts, its upload by synchronize(), the server's syncPush with its   *)
(* receipts, and what comes back of it by a pull or down the live socket.   *)
(*                                                                         *)
(* One account.  The device is modelled in full; the account's other        *)
(* devices are the changes they make at the server.  A page of changes is   *)
(* read whole here: ChangeFeed is about how it is cut and read.             *)
(***************************************************************************)
EXTENDS Integers, FiniteSets, Sequences, SequencesExt

CONSTANTS
  Value,      \* contents of a solve
  Refusals,   \* what the server may answer with a 4xx: sets of operations, by number
  Coalesce,   \* an edit replaces those queued before it (a note), or not (a penalty)
  Overlap,    \* the live socket may become ready while HTTP carries a synchronization
  Busy,       \* the server may answer 429 or 5xx
  MaxBatch,   \* solves sent in one push: 100
  MaxOps,     \* bound: operations made on this device
  MaxAdd,     \* bound: solves made on other devices
  MaxSeq,     \* bound: other devices write only below this change
  MaxFaults,  \* bound: connections and requests lost, 429 and 5xx, crashes, retries asked for
  MaxStream   \* bound: messages in flight on the socket

ASSUME SyncAssumption ==
  /\ Refusals \subseteq SUBSET Nat
  /\ {Coalesce, Overlap, Busy} \subseteq BOOLEAN
  /\ MaxBatch \in Nat \ {0}
  /\ {MaxOps, MaxAdd, MaxSeq, MaxFaults, MaxStream} \subseteq Nat

VARIABLES
  rows,      \* workspace.solves: a row made here has the local id -n, n its operation
  outbox,    \* workspace.outbox
  cursor,    \* workspace.cursor
  ops,       \* operations made here so far
  server,    \* the solves table by id, with the deletions its feed remembers
  change,    \* sync_changes: the number of each solve's only change
  seq,       \* its last number
  receipts,  \* sync_receipts: the solve each operation answered named, 0 for none
  refused,   \* the operations it answers with a 4xx
  sync,      \* the running synchronize()
  wire,      \* its request
  late,      \* requests given up by the device and still in the server's hands
  socket,    \* the live socket at the server
  stream,    \* the messages on their way down it, "ready" first
  live,      \* the device's side of it: client.ts's `live`
  again,     \* reconnected() waits for the running synchronization
  faults

workspace == <<rows, outbox, cursor>>
account == <<server, change, seq, receipts, refused>>
link == <<socket, stream, live, again>>
vars == <<workspace, ops, account, sync, wire, late, link, faults>>

Ops == 1..MaxOps
Sid == 1..(MaxOps + MaxAdd)       \* server ids, AUTOINCREMENT
Local == {-n : n \in Ops} \cup Sid

Row == [sid : Sid \cup {0}, val : Value, deleted : BOOLEAN]
Operation == [id : Ops, kind : {"solve", "edit", "delete"}, local : Local,
              val : Value, error : BOOLEAN]

\* by: the operation that made it (0: another device's), for the properties only.
Stored == [gone : BOOLEAN, val : Value, by : Ops \cup {0}]

Idle == [phase |-> "idle", via |-> "http", batching |-> TRUE]
NoPage == [after |-> 0, cursor |-> 0, solves |-> <<>>]
NoWire == [state |-> "none", req |-> <<>>, answer |-> <<>>, page |-> NoPage]
NoSocket == [open |-> FALSE, delivered |-> 0, pending |-> FALSE]
NotLive == [on |-> FALSE, needsPull |-> FALSE]

Made == DOMAIN server

With(f, x, v) == [y \in DOMAIN f \cup {x} |-> IF y = x THEN v ELSE f[y]]
Without(f, S) == [y \in DOMAIN f \ S |-> f[y]]

\* SelectSeq with a set for its test, so that its results can be reasoned about.
Keeping(q, S) ==
  LET kept[n \in 0..Len(q)] ==
        IF n = 0 THEN <<>> ELSE IF q[n] \in S THEN Append(kept[n - 1], q[n]) ELSE kept[n - 1]
  IN kept[Len(q)]

\* client.ts solveServerId: 0 while the server has not named the solve.
SolveServerId(x) ==
  IF x \in DOMAIN rows /\ rows[x].sid # 0 THEN rows[x].sid
  ELSE IF x > 0 THEN x ELSE 0

TypeOK ==
  /\ DOMAIN rows \subseteq Local
  /\ \A x \in DOMAIN rows : rows[x] \in Row
  /\ outbox \in Seq(Operation)
  /\ cursor \in Nat
  /\ ops \in 0..MaxOps
  /\ server \in Seq(Stored) /\ Len(server) \in 0..(MaxOps + MaxAdd)
  /\ change \in [Made -> Nat]
  /\ seq \in Nat
  /\ DOMAIN receipts \subseteq Ops
  /\ \A o \in DOMAIN receipts : receipts[o] \in Sid \cup {0}
  /\ sync.phase \in {"idle", "loop", "push", "pull"}
  /\ wire.state \in {"none", "sent", "answered", "error", "busy"}
  /\ (sync.phase \in {"push", "pull"}) = (wire.state # "none")
  /\ socket.delivered \in Nat
  /\ live.on \/ socket.pending => socket.open
  /\ refused \in Refusals
  /\ faults \in 0..MaxFaults

Init ==
  /\ rows = <<>> /\ outbox = <<>> /\ cursor = 0 /\ ops = 0
  /\ server = <<>> /\ change = <<>> /\ seq = 0 /\ receipts = <<>>
  /\ refused \in Refusals
  /\ sync = Idle /\ wire = NoWire /\ late = {}
  /\ socket = NoSocket /\ stream = <<>> /\ live = NotLive /\ again = FALSE
  /\ faults = 0

-----------------------------------------------------------------------------
(* What the user does: written to the workspace at once, and queued.       *)

Queue(kind, x, v, kept) ==
  outbox' = Append(kept, [id |-> ops + 1, kind |-> kind, local |-> x, val |-> v, error |-> FALSE])

AddSolve(v) ==
  /\ ops < MaxOps
  /\ ops' = ops + 1
  /\ rows' = With(rows, -(ops + 1), [sid |-> 0, val |-> v, deleted |-> FALSE])
  /\ Queue("solve", -(ops + 1), v, outbox)
  /\ UNCHANGED <<cursor, account, sync, wire, late, link, faults>>

\* setPenalty; setComment and setSolution first drop the edit they replace.
EditSolve(x, v) ==
  /\ ops < MaxOps
  /\ ~rows[x].deleted
  /\ ops' = ops + 1
  /\ rows' = [rows EXCEPT ![x].val = v]
  /\ Queue("edit", x, v,
       IF ~Coalesce THEN outbox
       ELSE Keeping(outbox, {op \in Range(outbox) : ~(op.kind = "edit" /\ ~op.error /\ op.local = x)}))
  /\ UNCHANGED <<cursor, account, sync, wire, late, link, faults>>

DeleteSolve(x) ==
  /\ ops < MaxOps
  /\ ~rows[x].deleted
  /\ ops' = ops + 1
  /\ rows' = [rows EXCEPT ![x].deleted = TRUE]
  /\ Queue("delete", x, rows[x].val, outbox)
  /\ UNCHANGED <<cursor, account, sync, wire, late, link, faults>>

\* One more of the bounded misfortunes.
Fault == faults < MaxFaults /\ faults' = faults + 1

\* retry(): the operations marked with the server's refusal are tried again.
Retry ==
  /\ Fault
  /\ \E i \in DOMAIN outbox : outbox[i].error
  /\ outbox' = [i \in DOMAIN outbox |-> [outbox[i] EXCEPT !.error = FALSE]]
  /\ UNCHANGED <<rows, cursor, ops, account, sync, wire, late, link>>

-----------------------------------------------------------------------------
(* The server.                                                             *)

\* Mutant: a page tells nothing of deletions.
Page_Living(after) ==
  [after |-> after, cursor |-> IF \E s \in Made : change[s] > after THEN seq ELSE after,
   solves |-> [s \in {s \in Made : change[s] > after /\ ~server[s].gone} |-> server[s]]]

\* Changes past `after`, with what each solve is now.
Page(after) ==
  [after |-> after, cursor |-> IF \E s \in Made : change[s] > after THEN seq ELSE after,
   solves |-> [s \in {s \in Made : change[s] > after} |-> server[s]]]

\* Every committed change wakes the account's sockets (notifySync).
NotifySync == socket' = [socket EXCEPT !.pending = socket.open]

OtherDeviceAdds(v) ==
  /\ seq < MaxSeq
  /\ Cardinality({s \in Made : server[s].by = 0}) < MaxAdd
  /\ server' = Append(server, [gone |-> FALSE, val |-> v, by |-> 0])
  /\ change' = Append(change, seq + 1)
  /\ seq' = seq + 1
  /\ NotifySync
  /\ UNCHANGED <<workspace, ops, receipts, refused, sync, wire, late, stream, live, again, faults>>

OtherDeviceEdits(s, v) ==
  /\ seq < MaxSeq
  /\ ~server[s].gone
  /\ server' = [server EXCEPT ![s].val = v]
  /\ change' = [change EXCEPT ![s] = seq + 1]
  /\ seq' = seq + 1
  /\ NotifySync
  /\ UNCHANGED <<workspace, ops, receipts, refused, sync, wire, late, stream, live, again, faults>>

OtherDeviceDeletes(s) ==
  /\ seq < MaxSeq
  /\ ~server[s].gone
  /\ server' = [server EXCEPT ![s].gone = TRUE]
  /\ change' = [change EXCEPT ![s] = seq + 1]
  /\ seq' = seq + 1
  /\ NotifySync
  /\ UNCHANGED <<workspace, ops, receipts, refused, sync, wire, late, stream, live, again, faults>>

\* Operations without a receipt, in the request's order.
Fresh(req) == Keeping(req, {o \in Range(req) : o.id \notin DOMAIN receipts})

\* The solve an operation of the request is answered with: a receipt's, the one
\* it creates, or the one it names (none once that is gone: the 404 counts as done).
Answer(req, o) ==
  IF o.id \in DOMAIN receipts THEN receipts[o.id]
  ELSE IF o.kind = "solve"
       THEN Len(server) + CHOOSE i \in DOMAIN Fresh(req) : Fresh(req)[i] = o
       ELSE IF server[o.sid].gone THEN 0 ELSE o.sid

\* Mutant: the receipts are not written.
Receipts_None(req) == receipts

\* The receipts with the request's.
Receipts(req) ==
  LET fresh == Range(Fresh(req))
  IN [id \in DOMAIN receipts \cup {o.id : o \in fresh} |->
        IF id \in DOMAIN receipts THEN receipts[id]
        ELSE Answer(req, CHOOSE o \in fresh : o.id = id)]

\* The request's transaction: each new operation applied, with its receipt.
Apply(req) ==
  LET fresh == Range(Fresh(req))
      written == {Answer(req, o) : o \in fresh} \ {0}
      on(s) == CHOOSE o \in fresh : Answer(req, o) = s
  IN /\ server' = [s \in Made \cup written |->
          IF s \notin written THEN server[s]
          ELSE CASE on(s).kind = "solve"  -> [gone |-> FALSE, val |-> on(s).val, by |-> on(s).id]
                 [] on(s).kind = "edit"   -> [server[s] EXCEPT !.val = on(s).val]
                 [] on(s).kind = "delete" -> [server[s] EXCEPT !.gone = TRUE]]
     /\ change' = [s \in Made \cup written |->
          IF s \in written
          THEN seq + Cardinality({t \in written : t <= s}) ELSE change[s]]
     /\ seq' = seq + Cardinality(written)
     /\ receipts' = Receipts(req)
     /\ UNCHANGED refused

\* One operation refused rolls the whole request back.
Refuses(req) == \E o \in Range(Fresh(req)) : o.id \in refused

ServePush ==
  /\ sync.phase = "push" /\ wire.state = "sent"
  /\ \/ /\ ~Refuses(wire.req)
        /\ Apply(wire.req)
        /\ IF sync.via = "socket" \/ seq' # seq THEN NotifySync ELSE UNCHANGED socket
        /\ wire' = [wire EXCEPT !.state = "answered",
              !.answer = [i \in DOMAIN wire.req |-> Answer(wire.req, wire.req[i])]]
        /\ UNCHANGED faults
     \/ /\ Refuses(wire.req)
        /\ wire' = [wire EXCEPT !.state = "error"]
        /\ UNCHANGED <<account, socket, faults>>
     \/ /\ Busy /\ Fault
        /\ wire' = [wire EXCEPT !.state = "busy"]
        /\ UNCHANGED <<account, socket>>
  /\ UNCHANGED <<workspace, ops, sync, late, stream, live, again>>

\* A request the device no longer waits for.
ServeLate(req) ==
  /\ late' = late \ {req}
  /\ IF Refuses(req) THEN UNCHANGED <<account, socket>> ELSE Apply(req) /\ NotifySync
  /\ UNCHANGED <<workspace, ops, sync, wire, stream, live, again, faults>>

\* Answered over the socket, the pull also moves what the socket has delivered.
ServePull ==
  /\ sync.phase = "pull" /\ wire.state = "sent"
  /\ \/ /\ wire' = [wire EXCEPT !.state = "answered", !.page = Page(wire.page.after)]
        /\ socket' = IF sync.via = "socket"
                     THEN [socket EXCEPT !.delivered = IF @ > wire'.page.cursor THEN @ ELSE wire'.page.cursor]
                     ELSE socket
        /\ UNCHANGED faults
     \/ /\ Busy /\ Fault
        /\ wire' = [wire EXCEPT !.state = "busy"]
        /\ UNCHANGED socket
  /\ UNCHANGED <<workspace, ops, account, sync, late, stream, live, again>>

-----------------------------------------------------------------------------
(* synchronize().                                                          *)

Pending == Keeping(outbox, {op \in Range(outbox) : ~op.error})
Uploads == Range(Pending) # {}

\* The live socket carries the whole synchronization when it is ready.
Started(l) ==
  sync' = [phase |-> "loop", via |-> IF l.on THEN "socket" ELSE "http", batching |-> TRUE]

\* schedule(), restore(), a gap: nothing to do when the socket has brought all.
StartSync ==
  /\ sync.phase = "idle"
  /\ ~again
  /\ live.on => live.needsPull \/ Uploads
  /\ Started(live)
  /\ UNCHANGED <<workspace, ops, account, wire, late, link, faults>>

\* reconnected(), once the synchronization it waited for has ended.  A page of
\* changes received meanwhile waited for that one too, and for no other: it is due.
Reconnected ==
  /\ sync.phase = "idle"
  /\ again
  /\ again' = FALSE
  /\ Started(live)
  /\ \/ UNCHANGED stream
     \/ /\ stream # <<>> /\ Head(stream).type = "changes"
        /\ stream' = [stream EXCEPT ![1].type = "due"]
  /\ UNCHANGED <<workspace, ops, account, wire, late, socket, live, faults>>

\* Mutant: the newest operation goes first.
Batch_Newest == <<Last(Pending)>>

\* What goes up next: the solves waiting, when the first operation is one of
\* several; else that operation alone.
Batch ==
  LET solves == Keeping(Pending, {op \in Range(Pending) : op.kind = "solve"})
      most == IF Len(solves) > MaxBatch THEN MaxBatch ELSE Len(solves)
  IN IF sync.batching /\ Head(Pending).kind = "solve" /\ most > 1
     THEN SubSeq(solves, 1, most) ELSE <<Head(Pending)>>

\* As sent: an edit or a deletion names the server's solve.
Named(op) ==
  [id |-> op.id, kind |-> op.kind, local |-> op.local, val |-> op.val,
   sid |-> IF op.kind = "solve" THEN 0 ELSE SolveServerId(op.local)]

Push ==
  /\ sync.phase = "loop"
  /\ Uploads
  /\ LET req == [i \in DOMAIN Batch |-> Named(Batch[i])]
     IN IF req[1].kind # "solve" /\ req[1].sid = 0
        THEN \* "The solve is waiting to synchronize."
             sync' = Idle /\ UNCHANGED wire
        ELSE /\ sync' = [sync EXCEPT !.phase = "push"]
             /\ wire' = [NoWire EXCEPT !.state = "sent", !.req = req]
  /\ UNCHANGED <<workspace, ops, account, late, link, faults>>

\* Mutant: the operations of the rows acknowledged are done, later ones too.
LeftAfter_ByRow(req) ==
  Keeping(outbox, {op \in Range(outbox) : op.local \notin {o.local : o \in Range(req)}})

\* Only the acknowledgement is written: what was done meanwhile is kept.
LeftAfter(req) ==
  Keeping(outbox, {op \in Range(outbox) : op.id \notin {o.id : o \in Range(req)}})

AckPush ==
  /\ sync.phase = "push" /\ wire.state = "answered"
  /\ LET sidOf(x) == {wire.answer[i] : i \in {i \in DOMAIN wire.req :
                        wire.req[i].kind = "solve" /\ wire.req[i].local = x}}
         removed == {o.local : o \in {o \in Range(wire.req) : o.kind = "delete"}}
     IN /\ rows' = Without([x \in DOMAIN rows |->
                       IF sidOf(x) = {} THEN rows[x]
                       ELSE [rows[x] EXCEPT !.sid = CHOOSE s \in sidOf(x) : TRUE]], removed)
        /\ outbox' = LeftAfter(wire.req)
  /\ sync' = [sync EXCEPT !.phase = "loop"]
  /\ wire' = NoWire
  /\ UNCHANGED <<cursor, ops, account, late, link, faults>>

\* A batch refused goes up again one by one; one operation refused is marked,
\* and this synchronization ends.
PushRefused ==
  /\ sync.phase = "push" /\ wire.state = "error"
  /\ wire' = NoWire
  /\ IF Len(wire.req) > 1
     THEN /\ sync' = [sync EXCEPT !.phase = "loop", !.batching = FALSE]
          /\ UNCHANGED outbox
     ELSE /\ sync' = Idle
          /\ outbox' = [i \in DOMAIN outbox |->
                IF outbox[i].id = wire.req[1].id THEN [outbox[i] EXCEPT !.error = TRUE] ELSE outbox[i]]
  /\ UNCHANGED <<rows, cursor, ops, account, late, link, faults>>

\* 429 or 5xx: "offline", with the socket still up.
ServerBusy ==
  /\ wire.state = "busy"
  /\ sync' = Idle
  /\ wire' = NoWire
  /\ UNCHANGED <<workspace, ops, account, late, link, faults>>

\* All is uploaded: over the socket a pull is asked only after a gap.
AskPull ==
  /\ sync.phase = "loop"
  /\ ~Uploads
  /\ IF sync.via = "http" \/ live.needsPull
     THEN /\ sync' = [sync EXCEPT !.phase = "pull"]
          /\ wire' = [NoWire EXCEPT !.state = "sent", !.page = [NoPage EXCEPT !.after = cursor]]
     ELSE sync' = Idle /\ UNCHANGED wire
  /\ UNCHANGED <<workspace, ops, account, late, link, faults>>

-----------------------------------------------------------------------------
(* merge(): what the device makes of a page.                               *)

\* Mutant: a change is always about the row of its own id.
LocalId_Server(s) == s

\* The row of a solve of the server: one made here keeps its local id.
LocalId(s) ==
  IF \E x \in DOMAIN rows : x < 0 /\ rows[x].sid = s
  THEN CHOOSE x \in DOMAIN rows : x < 0 /\ rows[x].sid = s
  ELSE s

Dirty == {op.local : op \in Range(outbox)}

\* Mutant: a row with operations queued is left as it is by deletions too.
Gone_NotDirty(page) ==
  {LocalId(s) : s \in {s \in DOMAIN page.solves : page.solves[s].gone}} \ Dirty

\* A deletion wins over the edits queued here.
Gone(page) == {LocalId(s) : s \in {s \in DOMAIN page.solves : page.solves[s].gone}}

\* Any other change leaves a row with operations queued as it is.
Merge(page) ==
  LET gone == Gone(page)
      merged == {s \in DOMAIN page.solves : ~page.solves[s].gone /\ LocalId(s) \notin Dirty}
      at == [x \in {LocalId(s) : s \in merged} |-> CHOOSE s \in merged : LocalId(s) = x]
  IN IF page.cursor < cursor THEN UNCHANGED workspace
     ELSE /\ rows' = [x \in (DOMAIN rows \cup DOMAIN at) \ gone |->
               IF x \in DOMAIN at
               THEN [sid |-> at[x], val |-> page.solves[at[x]].val, deleted |-> FALSE]
               ELSE rows[x]]
          /\ outbox' = Keeping(outbox, {op \in Range(outbox) : op.local \notin gone \/ op.kind = "solve"})
          /\ cursor' = page.cursor

TakePull ==
  /\ sync.phase = "pull" /\ wire.state = "answered"
  /\ Merge(wire.page)
  /\ sync' = Idle
  /\ wire' = NoWire
  /\ live' = IF sync.via = "socket" THEN [live EXCEPT !.needsPull = FALSE] ELSE live
  /\ UNCHANGED <<ops, account, late, socket, stream, again, faults>>

-----------------------------------------------------------------------------
(* The live socket.                                                        *)

\* Its first message names the workspace's cursor, its answer the account's.
Connect ==
  /\ ~socket.open
  /\ socket' = [open |-> TRUE, delivered |-> cursor, pending |-> FALSE]
  /\ stream' = <<[type |-> "ready", page |-> Page(seq)]>>
  /\ UNCHANGED <<workspace, ops, account, sync, wire, late, live, again, faults>>

\* Woken, the socket sends what it has not delivered yet.
Stream ==
  /\ socket.pending
  /\ Len(stream) < MaxStream
  /\ LET page == Page(socket.delivered)
     IN /\ socket' = [socket EXCEPT !.delivered = page.cursor, !.pending = FALSE]
        /\ stream' = IF page.cursor <= page.after THEN stream
                     ELSE Append(stream, [type |-> "changes", page |-> page])
  /\ UNCHANGED <<workspace, ops, account, sync, wire, late, live, again, faults>>

\* Mutant: the account's cursor is not looked at.
Behind_Never(at) == FALSE

\* Changes were made while the socket was down.
Behind(at) == at > cursor

\* receiveLive(ready): synchronizes at once, or after the running one.
ReceiveReady ==
  /\ stream # <<>> /\ Head(stream).type = "ready"
  /\ stream' = Tail(stream)
  /\ live' = [on |-> TRUE, needsPull |-> Behind(Head(stream).page.cursor)]
  /\ IF sync.phase = "idle" /\ ~again
     THEN Started(live') /\ UNCHANGED again
     ELSE Overlap /\ again' = TRUE /\ UNCHANGED sync
  /\ UNCHANGED <<workspace, ops, account, wire, late, socket, faults>>

\* receiveLive(changes): behind the running synchronization, but for one that began
\* while the page waited for another; past a gap, by a pull (sync() starts none while
\* one runs).
ReceiveChanges ==
  /\ stream # <<>>
  /\ \/ Head(stream).type = "changes" /\ sync.phase = "idle"
     \/ Head(stream).type = "due" /\ Overlap
  /\ stream' = Tail(stream)
  /\ LET page == Head(stream).page
     IN IF page.cursor <= cursor THEN UNCHANGED <<workspace, live, sync>>
        ELSE IF page.after > cursor
             THEN /\ live' = [live EXCEPT !.needsPull = TRUE]
                  /\ IF sync.phase = "idle" THEN Started(live) ELSE UNCHANGED sync
                  /\ UNCHANGED workspace
             ELSE Merge(page) /\ UNCHANGED <<live, sync>>
  /\ UNCHANGED <<ops, account, wire, late, socket, again, faults>>

-----------------------------------------------------------------------------
(* Misfortunes.                                                            *)

\* The device gives up its request: the server may have it still.
GiveUp ==
  /\ sync' = Idle
  /\ wire' = NoWire
  /\ \/ UNCHANGED late
     \/ sync.phase = "push" /\ wire.state = "sent" /\ late' = late \cup {wire.req}

\* The request times out, or its connection is lost.
RequestLost ==
  /\ Fault
  /\ sync.via = "http" /\ wire.state # "none"
  /\ GiveUp
  /\ UNCHANGED <<workspace, ops, account, link>>

Closed == socket' = NoSocket /\ stream' = <<>> /\ live' = NotLive

\* The socket is lost, or closed by the request that times out on it.
Disconnect ==
  /\ Fault
  /\ socket.open
  /\ Closed
  /\ IF sync.via = "socket" /\ sync.phase # "idle" THEN GiveUp
     ELSE UNCHANGED <<sync, wire, late>>
  /\ UNCHANGED <<workspace, ops, account, again>>

\* The app stops: the workspace stays.
Crash ==
  /\ Fault
  /\ Closed /\ again' = FALSE
  /\ GiveUp
  /\ UNCHANGED <<workspace, ops, account>>

-----------------------------------------------------------------------------
User ==
  \/ \E v \in Value : AddSolve(v)
  \/ \E x \in DOMAIN rows : DeleteSolve(x) \/ \E v \in Value : EditSolve(x, v)
  \/ Retry

OtherDevices ==
  \/ \E v \in Value : OtherDeviceAdds(v)
  \/ \E s \in Made : OtherDeviceDeletes(s) \/ \E v \in Value : OtherDeviceEdits(s, v)

Upload == Push \/ ServePush \/ AckPush \/ PushRefused \/ ServerBusy
Download == AskPull \/ ServePull \/ TakePull
Live == Connect \/ Stream \/ ReceiveReady \/ ReceiveChanges

Next ==
  \/ User \/ OtherDevices
  \/ StartSync \/ Reconnected \/ Upload \/ Download \/ Live
  \/ \E req \in late : ServeLate(req)
  \/ RequestLost \/ Disconnect \/ Crash

Spec == Init /\ [][Next]_vars

\* The app retries every 30 seconds and reconnects; the server answers.
FairSpec ==
  /\ Spec
  /\ WF_vars(StartSync) /\ WF_vars(Reconnected) /\ WF_vars(Upload) /\ WF_vars(Download)
  /\ WF_vars(Connect) /\ WF_vars(Stream) /\ WF_vars(ReceiveReady) /\ WF_vars(ReceiveChanges)

-----------------------------------------------------------------------------
\* A solve made here reaches the server once, however often it is sent: retried
\* after a lost answer, alone after its batch was refused, or late.
CreatedOnce ==
  \A s, t \in Made : s # t => server[s].by = 0 \/ server[s].by # server[t].by

\* What is queued leaves the outbox only when the server has it, a later edit of
\* the solve replaces it or the solve is gone: no acknowledgement, refusal or merge
\* takes along an operation made meanwhile.
OperationsKept ==
  [][\A i \in DOMAIN outbox :
       \/ \E j \in DOMAIN outbox' : outbox'[j].id = outbox[i].id
       \/ outbox[i].id \in DOMAIN receipts
       \/ \E j \in DOMAIN outbox' : outbox'[j].local = outbox[i].local /\ outbox'[j].id = ops'
       \/ outbox[i].local \notin DOMAIN rows']_vars

\* The same solve is never listed twice: an echo finds the row it came from.
NoTwins ==
  \A x, y \in DOMAIN rows : x # y /\ rows[x].sid # 0 => rows[x].sid # rows[y].sid

\* The device and the server hold the same solves.
Mirrors ==
  /\ \A s \in Made : ~server[s].gone =>
       \E x \in DOMAIN rows : rows[x].sid = s /\ rows[x].val = server[s].val /\ ~rows[x].deleted
  /\ \A x \in DOMAIN rows :
       rows[x].sid \in Made /\ ~server[rows[x].sid].gone

\* With everything uploaded and every change read, the device mirrors the server.
Converged ==
  outbox = <<>> /\ sync.phase = "idle" /\ late = {} /\ cursor = seq => Mirrors

\* A deletion read from the server wins over whatever is done to the solve here:
\* a device past the change that deleted a solve does not list it.
DeletionWins ==
  \A x \in DOMAIN rows :
    rows[x].sid \in Made /\ server[rows[x].sid].gone => change[rows[x].sid] > cursor

\* The operations on a solve are applied in the order they were made.
AppliedInOrder ==
  [][\A o \in DOMAIN receipts' \ DOMAIN receipts, p \in DOMAIN receipts :
       receipts'[o] = receipts[p] /\ receipts[p] # 0 => p < o]_vars

\* Once changes stop, nothing is left to upload but what the server refused, every
\* change has been read, and every solve of the account is listed on the device, but
\* for those with a change it refused.
Settles ==
  <>[](/\ \A i \in DOMAIN outbox : outbox[i].error /\ outbox[i].id \in refused
       /\ cursor = seq
       /\ \A s \in Made : ~server[s].gone =>
            \E x \in DOMAIN rows : rows[x].sid = s /\ (x \in Dirty \/ ~rows[x].deleted))

\* Each solve is once at the server and once on the device, and the rest of the
\* state is of its type.
SolvesOnce == TypeOK /\ CreatedOnce /\ NoTwins

=============================================================================
