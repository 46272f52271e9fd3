----------------------------- MODULE EngineHost -----------------------------
(***************************************************************************)
(* The web app's engine in its shared worker, one for all the tabs, and     *)
(* its replacement by the engine of another version: worker.ts, the tab's   *)
(* side of it in bridge.ts, the engine's queue of requests in core.ts, and  *)
(* the storage the engines share, idbStorage.ts.                            *)
(*                                                                         *)
(* A document is a tab from a load to the next: a tab that reloads closes   *)
(* its document and opens another.  Each version of the app has a worker of *)
(* its own.  A change is named by the document and the number of its call.  *)
(***************************************************************************)
EXTENDS Integers, FiniteSets, Sequences, SequencesExt, Functions

CONSTANTS
  Docs,      \* bound: how many documents load
  Workers,   \* bound: versions of the engine, each with its shared worker
  Prompt,    \* an engine hears it lost the lock before the next one reads the storage
  MaxCalls,  \* bound: requests made, all documents together
  MaxFaults  \* bound: starts that fail, tabs closed by their user

ASSUME HostAssumption ==
  /\ Prompt \in BOOLEAN
  /\ {Docs, Workers, MaxCalls, MaxFaults} \subseteq Nat

VARIABLES
  lock,     \* who holds "cubix-engine"
  disk,     \* the changes in the workspace IndexedDB holds
  start,    \* each worker's `starting`
  waiting,  \* the documents its start will answer
  broken,   \* the workers that lost the lock and have not been told
  retired,  \* those that have
  mem,      \* the changes in the workspace each engine keeps in memory
  owners,   \* its requests in flight, by its own number
  sequence, \* the last of these numbers
  queue,    \* the changes it is asked for, handled one after the other
  ran,      \* the first of them is done, its answer still to go
  searches, \* the requests that do not wait for the queue
  doc,      \* each document: its worker, its phase
  pending,  \* its requests in flight
  done,     \* its changes answered without an error
  told,     \* the changes it has read or was told of
  calls,    \* its requests so far
  up,       \* the messages on their way from it
  down,     \* and to it
  faults

worker == <<start, waiting, retired, mem, owners, sequence, queue, ran, searches>>
tab == <<doc, pending, done, told, calls>>
vars == <<lock, disk, worker, broken, tab, up, down, faults>>

Doc == 1..Docs             \* in the order they load
Worker == 1..Workers       \* in the order they are first loaded
None == 0
Id == Nat \ {0}
Change == Doc \X Id
Kind == {"change", "search"}
Open == {"loading", "ready", "failed"}

Call == [type : {"call"}, id : Id, kind : Kind]
Message ==
  [type : {"started", "failed", "replaced"}] \cup [type : {"changed"}, of : Change]
    \cup [type : {"answer"}, id : Id, of : Change, kind : Kind, error : BOOLEAN]
Owner == [doc : Doc, id : Id, kind : Kind]

\* The workers' state, their requests, and the tabs'.
WorkersType ==
  /\ lock \in Worker \cup {None}
  /\ disk \subseteq Change
  /\ start \in [Worker -> {"none", "steal", "open", "read", "ready"}]
  /\ waiting \in [Worker -> SUBSET Doc]
  /\ broken \subseteq Worker /\ retired \subseteq Worker
  /\ mem \in [Worker -> SUBSET Change]
RequestsType ==
  /\ sequence \in [Worker -> Nat]
  /\ queue \in [Worker -> Seq(Nat)]
  /\ ran \in [Worker -> BOOLEAN]
  /\ searches \in [Worker -> SUBSET Nat]
  /\ DOMAIN owners = Worker
  /\ \A w \in Worker :
       /\ owners[w] \in [DOMAIN owners[w] -> Owner]
       /\ DOMAIN owners[w] \subseteq 1..sequence[w]
       /\ Range(queue[w]) \cup searches[w] \subseteq DOMAIN owners[w]
       /\ ran[w] => queue[w] # <<>>
TabsType ==
  /\ doc \in [Doc -> [phase : Open \cup {"new", "stopped", "closed"}, at : Worker \cup {None}]]
  /\ \A d \in Doc : doc[d].phase = "new" \/ doc[d].at \in Worker
  /\ calls \in [Doc -> Nat]
  /\ pending \in [Doc -> SUBSET Id] /\ done \in [Doc -> SUBSET Id]
  /\ \A d \in Doc : pending[d] \cup done[d] \subseteq 1..calls[d]
  /\ told \in [Doc -> SUBSET Change]
  /\ up \in [Doc -> Seq(Call \cup [type : {"start"}])]
  /\ down \in [Doc -> Seq(Message)]
  /\ faults \in Nat
TypeOK == WorkersType /\ RequestsType /\ TabsType

Init ==
  /\ lock = None /\ disk = {} /\ faults = 0
  /\ start = [w \in Worker |-> "none"]
  /\ waiting = [w \in Worker |-> {}]
  /\ broken = {} /\ retired = {}
  /\ mem = [w \in Worker |-> {}]
  /\ owners = [w \in Worker |-> <<>>]
  /\ sequence = [w \in Worker |-> 0]
  /\ queue = [w \in Worker |-> <<>>]
  /\ ran = [w \in Worker |-> FALSE]
  /\ searches = [w \in Worker |-> {}]
  /\ doc = [d \in Doc |-> [phase |-> "new", at |-> None]]
  /\ pending = [d \in Doc |-> {}]
  /\ done = [d \in Doc |-> {}]
  /\ told = [d \in Doc |-> {}]
  /\ calls = [d \in Doc |-> 0]
  /\ up = [d \in Doc |-> <<>>]
  /\ down = [d \in Doc |-> <<>>]

-----------------------------------------------------------------------------
(* The worker.                                                             *)

\* The documents connected to a worker.
Ports(w) == {d \in Doc : doc[d].at = w /\ doc[d].phase \in Open}

\* A message to some of them: one that has closed hears nothing.
Post(D, m) == [d \in Doc |-> IF d \in D /\ doc[d].phase \in Open THEN Append(down[d], m) ELSE down[d]]

\* Mutant: the engine is created even if it was replaced meanwhile.
Engine_Always(w) == start[w] = "ready"

\* `engine` is there from the end of the start until the engine is replaced.
Engine(w) == start[w] = "ready" /\ w \notin retired

\* Mutant: a start that ends on an engine replaced meanwhile is said to have succeeded.
Outcome_Started(w) == "started"

\* What a document that asked for the engine is told.
Outcome(w) == IF w \in retired THEN "replaced" ELSE "started"

Received(d) == up' = [up EXCEPT ![d] = Tail(up[d])]

\* start(): begun by the first document that asks, joined by the others.
Start(w, d) ==
  /\ doc[d].at = w
  /\ up[d] # <<>> /\ Head(up[d]).type = "start"
  /\ Received(d)
  /\ IF start[w] = "ready"
     THEN /\ down' = Post({d}, [type |-> Outcome(w)])
          /\ UNCHANGED <<start, waiting>>
     ELSE /\ start' = [start EXCEPT ![w] = IF @ = "none" THEN "steal" ELSE @]
          /\ waiting' = [waiting EXCEPT ![w] = @ \cup {d}]
          /\ UNCHANGED down
  /\ UNCHANGED <<lock, disk, broken, retired, mem, owners, sequence, queue, ran, searches, tab, faults>>

\* exclusive(): the lock is taken from whoever has it, this worker included.
Steal(w) ==
  /\ start[w] = "steal"
  /\ start' = [start EXCEPT ![w] = "open"]
  /\ lock' = w
  /\ broken' = broken \cup ({lock} \ {None})
  /\ UNCHANGED <<disk, waiting, retired, mem, owners, sequence, queue, ran, searches, tab, up, down, faults>>

\* retire(): nothing is written any more, and the tabs are sent to the new version.
Retire(w) ==
  /\ w \in broken
  /\ broken' = broken \ {w}
  /\ retired' = retired \cup {w}
  /\ down' = IF w \in retired THEN down ELSE Post(Ports(w), [type |-> "replaced"])
  /\ UNCHANGED <<lock, disk, start, waiting, mem, owners, sequence, queue, ran, searches, tab, up, faults>>

\* openStorage() reads the workspace.
OpenStorage(w) ==
  /\ start[w] = "open"
  /\ Prompt => broken = {}
  /\ start' = [start EXCEPT ![w] = "read"]
  /\ mem' = [mem EXCEPT ![w] = disk]
  /\ UNCHANGED <<lock, disk, waiting, broken, retired, owners, sequence, queue, ran, searches, tab, up, down, faults>>

Fault == faults < MaxFaults /\ faults' = faults + 1

\* openStorage() throws: the next document that asks starts the engine again.
StartFails(w) ==
  /\ start[w] = "open"
  /\ Fault
  /\ start' = [start EXCEPT ![w] = "none"]
  /\ waiting' = [waiting EXCEPT ![w] = {}]
  /\ down' = Post(waiting[w], [type |-> "failed"])
  /\ UNCHANGED <<lock, disk, broken, retired, mem, owners, sequence, queue, ran, searches, tab, up>>

CreateEngine(w) ==
  /\ start[w] = "read"
  /\ start' = [start EXCEPT ![w] = "ready"]
  /\ waiting' = [waiting EXCEPT ![w] = {}]
  /\ down' = Post(waiting[w], [type |-> Outcome(w)])
  /\ UNCHANGED <<lock, disk, broken, retired, mem, owners, sequence, queue, ran, searches, tab, up, faults>>

\* The requests in flight once n is one.
NowOwned(w, n, owner) ==
  [k \in DOMAIN owners[w] \cup {n} |-> IF k = n THEN owner ELSE owners[w][k]]

\* A document's request, numbered by the worker: a search is handled at once, the
\* rest one after the other.  One that finds no engine is never handled.
Request(w, d) ==
  /\ doc[d].at = w
  /\ up[d] # <<>> /\ Head(up[d]).type = "call"
  /\ Received(d)
  /\ LET call == Head(up[d])
         n == sequence[w] + 1
     IN /\ sequence' = [sequence EXCEPT ![w] = n]
        /\ IF w \in retired
           THEN /\ down' = Post({d}, [type |-> "answer", id |-> call.id, of |-> <<d, call.id>>,
                                      kind |-> call.kind, error |-> TRUE])
                /\ UNCHANGED <<owners, queue, searches>>
           ELSE /\ owners' = [owners EXCEPT ![w] = NowOwned(w, n, [doc |-> d, id |-> call.id, kind |-> call.kind])]
                /\ queue' = [queue EXCEPT ![w] = IF Engine(w) /\ call.kind = "change" THEN Append(@, n) ELSE @]
                /\ searches' = [searches EXCEPT ![w] = IF Engine(w) /\ call.kind = "search" THEN @ \cup {n} ELSE @]
                /\ UNCHANGED down
  /\ UNCHANGED <<lock, disk, start, waiting, broken, retired, mem, ran, tab, faults>>

\* Mutant: an engine that was replaced goes on writing.
Frozen_Never(w) == FALSE

\* freeze(): a replaced engine writes nothing.
Frozen(w) == w \in retired

\* handle(): the change is made in memory and written through.
Run(w) ==
  /\ queue[w] # <<>> /\ ~ran[w]
  /\ LET o == owners[w][Head(queue[w])]
     IN mem' = [mem EXCEPT ![w] = @ \cup {<<o.doc, o.id>>}]
  /\ disk' = IF Frozen(w) THEN disk ELSE mem'[w]
  /\ ran' = [ran EXCEPT ![w] = TRUE]
  /\ UNCHANGED <<lock, start, waiting, broken, retired, owners, sequence, queue, searches, tab, up, down, faults>>

\* The answer goes out under the document's own number.
AnswerOf(o, n) == [type |-> "answer", id |-> o.id, of |-> <<o.doc, o.id>>, kind |-> o.kind, error |-> FALSE]

\* Those a change is told to.
Others(w, o) == Ports(w) \ {o.doc}

\* The requests in flight once n is answered.
StillOwned(w, n) == [k \in DOMAIN owners[w] \ {n} |-> owners[w][k]]

\* route(): the answer of request n, and the news of a change for the other tabs.
Route(w, n) ==
  LET o == owners[w][n]
      others == IF o.kind = "change" THEN Others(w, o) ELSE {}
  IN /\ owners' = [owners EXCEPT ![w] = StillOwned(w, n)]
     /\ down' = [d \in Doc |->
          CASE d = o.doc /\ d \in Ports(w) -> Append(down[d], AnswerOf(o, n))
            [] d \in others -> Append(down[d], [type |-> "changed", of |-> <<o.doc, o.id>>])
            [] OTHER -> down[d]]

Answer(w) ==
  /\ ran[w]
  /\ Route(w, Head(queue[w]))
  /\ queue' = [queue EXCEPT ![w] = Tail(@)]
  /\ ran' = [ran EXCEPT ![w] = FALSE]
  /\ UNCHANGED <<lock, disk, start, waiting, broken, retired, mem, sequence, searches, tab, up, faults>>

AnswerSearch(w) ==
  /\ \E n \in searches[w] :
       /\ Route(w, n)
       /\ searches' = [searches EXCEPT ![w] = @ \ {n}]
  /\ UNCHANGED <<lock, disk, start, waiting, broken, retired, mem, sequence, queue, ran, tab, up, faults>>

-----------------------------------------------------------------------------
(* The document.                                                           *)

Load(d, w) ==
  /\ doc[d].phase = "new"
  /\ \A e \in 1..(d - 1) : doc[e].phase # "new"
  /\ \A v \in 1..(w - 1) : \E e \in Doc : doc[e].at = v
  /\ doc' = [doc EXCEPT ![d] = [phase |-> "loading", at |-> w]]
  /\ up' = [up EXCEPT ![d] = <<[type |-> "start"]>>]
  /\ UNCHANGED <<lock, disk, worker, broken, pending, done, told, calls, down, faults>>

\* Closed or reloaded: what it asked is on its way still, what it would hear is not.
Leave(d) ==
  /\ doc' = [doc EXCEPT ![d].phase = "closed"]
  /\ down' = [down EXCEPT ![d] = <<>>]
  /\ pending' = [pending EXCEPT ![d] = {}]
  /\ told' = [told EXCEPT ![d] = {}]
  /\ UNCHANGED <<lock, disk, worker, broken, done, calls, up>>

Close(d) == doc[d].phase \in Open /\ Fault /\ Leave(d)

\* call(), once the engine has started and unless it stopped since.
Ask(d, kind) ==
  /\ doc[d].phase = "ready"
  /\ FoldFunction(+, 0, calls) < MaxCalls
  /\ calls' = [calls EXCEPT ![d] = @ + 1]
  /\ pending' = [pending EXCEPT ![d] = @ \cup {calls[d] + 1}]
  /\ up' = [up EXCEPT ![d] = Append(@, [type |-> "call", id |-> calls[d] + 1, kind |-> kind])]
  /\ UNCHANGED <<lock, disk, worker, broken, doc, done, told, down, faults>>

Heard(d, type) == down[d] # <<>> /\ Head(down[d]).type = type
Read(d) == down' = [down EXCEPT ![d] = Tail(@)]

\* An answer to what is no longer awaited is nothing.
ReceiveAnswer(d) ==
  /\ Heard(d, "answer")
  /\ Read(d)
  /\ LET m == Head(down[d])
     IN /\ pending' = [pending EXCEPT ![d] = @ \ {m.id}]
        /\ done' = [done EXCEPT ![d] =
              IF m.id \in pending[d] /\ m.kind = "change" /\ ~m.error THEN @ \cup {m.id} ELSE @]
  /\ UNCHANGED <<lock, disk, worker, broken, doc, told, calls, up, faults>>

\* Started, the page reads what the engine has.
ReceiveStarted(d) ==
  /\ \/ /\ Heard(d, "started")
        /\ doc' = [doc EXCEPT ![d].phase = "ready"]
        /\ told' = [told EXCEPT ![d] = @ \cup mem[doc[d].at]]
     \/ /\ Heard(d, "failed")
        /\ doc' = [doc EXCEPT ![d].phase = "failed"]
        /\ UNCHANGED told
  /\ Read(d)
  /\ UNCHANGED <<lock, disk, worker, broken, pending, done, calls, up, faults>>

ReceiveChanged(d) ==
  /\ Heard(d, "changed")
  /\ Read(d)
  /\ told' = [told EXCEPT ![d] = @ \cup {Head(down[d]).of}]
  /\ UNCHANGED <<lock, disk, worker, broken, doc, pending, done, calls, up, faults>>

\* Mutant: what was asked stays pending.
Rejected_None(d) == UNCHANGED pending

\* stop(): every request in flight fails.
Rejected(d) == pending' = [pending EXCEPT ![d] = {}]

\* replaced(): the tab reloads, at once when it has drawn nothing yet; otherwise when
\* its page decides, deaf and mute until then.
ReceiveReplaced(d) ==
  /\ Heard(d, "replaced")
  /\ IF doc[d].phase \in {"loading", "failed"} THEN Leave(d) /\ UNCHANGED faults
     ELSE /\ doc' = [doc EXCEPT ![d].phase = "stopped"]
          /\ Rejected(d)
          /\ down' = [down EXCEPT ![d] = <<>>]
          /\ UNCHANGED <<lock, disk, worker, broken, done, told, calls, up, faults>>

-----------------------------------------------------------------------------
Host(w) == Steal(w) \/ Retire(w) \/ OpenStorage(w) \/ CreateEngine(w) \/ Run(w) \/ Answer(w) \/ AnswerSearch(w)
Serve(d) == \E w \in Worker : Start(w, d) \/ Request(w, d)
Receive(d) == ReceiveAnswer(d) \/ ReceiveStarted(d) \/ ReceiveChanged(d) \/ ReceiveReplaced(d)

Next ==
  \/ \E w \in Worker : Host(w) \/ StartFails(w)
  \/ \E d \in Doc :
       \/ Serve(d) \/ Receive(d) \/ Close(d)
       \/ \E w \in Worker : Load(d, w)
       \/ \E kind \in Kind : Ask(d, kind)

Spec == Init /\ [][Next]_vars

\* Workers and tabs go on handling what reaches them; searches end.
Progress == (\E w \in Worker : Host(w)) \/ \E d \in Doc : Serve(d) \/ Receive(d)

FairSpec == Spec /\ WF_vars(Progress)

-----------------------------------------------------------------------------
\* One engine at a time works on the data, whatever the order in which the workers
\* start, lose the lock and are told so.
OneEngine ==
  \A v, w \in Worker : Engine(v) /\ Engine(w) /\ {v, w} \cap broken = {} => v = w

\* Each tab numbers its own requests: an answer reaches the one that asked, under
\* the number it gave, and once.
RightAnswer ==
  \A d \in Doc : \A i \in DOMAIN down[d] :
    down[d][i].type = "answer" =>
      /\ down[d][i].of = <<d, down[d][i].id>>
      /\ \A j \in DOMAIN down[d] :
           down[d][j].type = "answer" /\ down[d][j].id = down[d][i].id => j = i

\* The workers have one engine between them, which answers who asked, in a state of
\* its type.
OneServes == TypeOK /\ OneEngine /\ RightAnswer

\* A change a tab was told done is in the workspace kept on the device, whichever
\* engine writes it next.
Kept == \A d \in Doc : \A id \in done[d] : <<d, id>> \in disk

\* Once nothing new happens, every request has ended: by its answer, by an error, or
\* with the page.
Settled == <>[](\A d \in Doc : pending[d] = {})

\* No tab is left on an engine that was replaced.
NoneLeftBehind == \A d \in Doc : doc[d].phase = "ready" => doc[d].at = lock

\* Every tab has been told of the changes the others made, those of a tab closed
\* before its answer included.
OthersTold ==
  \A d \in Doc : doc[d].phase = "ready" => \A c \in mem[doc[d].at] : c \in told[d] \/ c[1] = d

\* Once nothing new happens, every tab is on the engine that has the lock, and knows
\* what the others did.
TabsFollow == <>[](NoneLeftBehind /\ OthersTold)

=============================================================================
