-------------------------- MODULE WorkspaceJournal --------------------------
(***************************************************************************)
(* How the local client keeps a workspace on the device (client.ts): the   *)
(* whole workspace under one key, frequent changes alone as entries of its *)
(* journal, a mark (base) that ties the entries to the workspace they      *)
(* follow, and a revision that tells a client its parsed copy is stale.    *)
(*                                                                         *)
(* A workspace is abstracted to the changes made to it, in order.  A       *)
(* handler runs at once; what it stores reaches the disk write by write,   *)
(* and the process may stop between two of them.                           *)
(***************************************************************************)
EXTENDS Naturals, FiniteSets, SequencesExt

CONSTANTS
  Client,       \* the clients that share the storage
  Nobody,       \* no client wrote the revision
  JournalLimit, \* entries of a journal: 200
  Platform,     \* the storages the client runs on
  MaxEdits,     \* bound: changes made
  MaxFaults     \* bound: crashes, calls that throw and writes given up

\* What storages differ by: the calls that may throw at once (mobile's synchronous
\* storage, full) or be given up later, one alone (the web's IndexedDB, whose handlers
\* do not wait for the disk), and the clients that share one.
Calls == {"whole", "entry", "drop", "revision"}
Kind == [later : BOOLEAN, fails : SUBSET Calls, aborts : SUBSET Calls, clients : SUBSET Client]

ASSUME JournalAssumption ==
  /\ Nobody \notin Client
  /\ JournalLimit \in Nat \ {0}
  /\ Platform \subseteq Kind
  /\ \A p \in Platform : IF p.later THEN p.fails = {} ELSE p.aborts = {}
  /\ {MaxEdits, MaxFaults} \subseteq Nat

VARIABLES
  platform, \* the storage it runs on, for good
  memory,   \* the storage as the clients read it
  disk,     \* the storage a restart finds
  queue,    \* the writes on their way to the disk
  cached,   \* each client's parsed workspace
  bases,    \* the last mark drawn
  edits,    \* the last change made
  replying, \* the change whose caller is about to hear it is saved
  saved,    \* the changes whose callers heard so
  unsaved,  \* those the user was told could not be saved
  faults

journalVars == <<platform, memory, disk, queue, cached, bases, edits, replying, saved, unsaved, faults>>

Change == 1..MaxEdits
Places == 0..(JournalLimit - 1)
NoEntry == [base |-> 0, change |-> 0]
Entry == [base : Nat, change : 0..MaxEdits]

\* A storage: the workspace written (base 0: none yet), its journal, its revision.
Storage == [base : Nat, log : Seq(Change), journal : [Places -> Entry], revision : Client \cup {Nobody}]
EmptyStorage == [base |-> 0, log |-> <<>>, journal |-> [n \in Places |-> NoEntry], revision |-> Nobody]

\* A parsed workspace and the length of the journal it followed.
Cached == [held : BOOLEAN, base : Nat, log : Seq(Change), entries : 0..JournalLimit]
NotCached == [held |-> FALSE, base |-> 0, log |-> <<>>, entries |-> 0]

Writing ==
  [call : {"whole"}, base : Nat, log : Seq(Change)]
    \cup [call : {"entry"}, place : Places, entry : Entry]
    \cup [call : {"drop"}, place : Places]
    \cup [call : {"revision"}, client : Client]

\* Every piece of state has its type.
JournalTypeOK ==
  /\ platform \in Platform
  /\ memory \in Storage
  /\ disk \in Storage
  /\ queue \in Seq(Writing)
  /\ cached \in [Client -> Cached]
  /\ bases \in Nat
  /\ edits \in 0..MaxEdits
  /\ replying \in 0..MaxEdits
  /\ saved \subseteq Change
  /\ unsaved \subseteq Change
  /\ faults \in 0..MaxFaults

JournalInit ==
  /\ platform \in Platform
  /\ memory = EmptyStorage
  /\ disk = EmptyStorage
  /\ queue = <<>>
  /\ cached = [c \in Client |-> NotCached]
  /\ bases = 0 /\ edits = 0 /\ replying = 0
  /\ saved = {} /\ unsaved = {}
  /\ faults = 0

-----------------------------------------------------------------------------
(* What is read.                                                           *)

\* Mutant: entries are replayed whatever workspace they followed.
Followed_Any(s, n) == s.base # 0 /\ s.journal[n].base # 0

Followed(s, n) == s.base # 0 /\ s.journal[n].base = s.base

\* The entries replayed: up to the first that is missing or of another workspace.
Replayed(s) == Cardinality({n \in Places : \A i \in 0..n : Followed(s, i)})

Log(s) == s.log \o [i \in 1..Replayed(s) |-> s.journal[i - 1].change]

\* Mutant: a parsed workspace is kept whoever wrote since.
Current_Cached(c) == cached[c].held

Current(c) == cached[c].held /\ memory.revision = c

-----------------------------------------------------------------------------
(* What is written.                                                        *)

Apply(s, w) ==
  CASE w.call = "whole" -> [s EXCEPT !.base = w.base, !.log = w.log]
    [] w.call = "entry" -> [s EXCEPT !.journal[w.place] = w.entry]
    [] w.call = "drop" -> [s EXCEPT !.journal[w.place] = NoEntry]
    [] w.call = "revision" -> [s EXCEPT !.revision = w.client]

ApplyAll(s, ws) ==
  LET after[n \in 0..Len(ws)] == IF n = 0 THEN s ELSE Apply(after[n - 1], ws[n])
  IN after[Len(ws)]

\* The journal's leading entries, which dropJournal removes in order.
Leading == Cardinality({n \in Places : \A i \in 0..n : memory.journal[i] # NoEntry})

\* Mutant: the journal is dropped before the workspace that holds it is written.
SaveWrites_DropFirst(c, log, dropped) ==
  [n \in 1..dropped |-> [call |-> "drop", place |-> n - 1]]
    \o <<[call |-> "whole", base |-> bases + 1, log |-> log], [call |-> "revision", client |-> c]>>

\* save: the workspace under a new mark, then its journal dropped, then the revision.
SaveWrites(c, log, dropped) ==
  <<[call |-> "whole", base |-> bases + 1, log |-> log]>>
    \o [n \in 1..dropped |-> [call |-> "drop", place |-> n - 1]]
    \o <<[call |-> "revision", client |-> c]>>

\* Mutant: every entry takes the first place.
EntryWrites_First(c, x) ==
  <<[call |-> "entry", place |-> 0, entry |-> [base |-> cached[c].base, change |-> x]],
    [call |-> "revision", client |-> c]>>

EntryWrites(c, x) ==
  <<[call |-> "entry", place |-> cached[c].entries, entry |-> [base |-> cached[c].base, change |-> x]],
    [call |-> "revision", client |-> c]>>

\* A handler's storage calls, the last of which may throw.
Store(ws) ==
  /\ memory' = ApplyAll(memory, ws)
  /\ queue' = queue \o ws

\* A handler starts: on mobile, once the calls of the last one are done.
Idle == replying = 0 /\ (platform.later \/ queue = <<>>)

Fault == faults < MaxFaults /\ faults' = faults + 1

\* The removal of an entry may throw: those from it on stay.
Dropped(k) ==
  \/ k = Leading /\ UNCHANGED faults
  \/ k < Leading /\ "drop" \in platform.fails /\ Fault

Held(c, base, log, entries) ==
  cached' = [cached EXCEPT ![c] = [held |-> TRUE, base |-> base, log |-> log, entries |-> entries]]

Forgotten(c) == cached' = [cached EXCEPT ![c] = NotCached]

-----------------------------------------------------------------------------
(* data: a client reads the workspace.                                     *)

\* A read writes a journal into its workspace, and a workspace of the current form
\* when there is none: the first read, or an older app's, which had no mark.
Rewrites == Replayed(memory) > 0 \/ memory.base = 0

\* Nothing to write: the revision is taken over.
ReadWhole(c) ==
  /\ Idle /\ ~Current(c) /\ ~Rewrites
  /\ Store(<<[call |-> "revision", client |-> c]>>)
  /\ Held(c, memory.base, memory.log, 0)
  /\ UNCHANGED <<platform, disk, bases, edits, replying, saved, unsaved, faults>>

\* The journal is replayed, and the workspace written with it.
ReadJournal(c) ==
  /\ Idle /\ ~Current(c) /\ Rewrites
  /\ \E k \in 0..Leading : Dropped(k) /\ Store(SaveWrites(c, Log(memory), k))
  /\ Held(c, bases + 1, Log(memory), 0)
  /\ bases' = bases + 1
  /\ UNCHANGED <<platform, disk, edits, replying, saved, unsaved>>

\* The same, and the revision cannot be written: the client reads again next time.
ReadUnrevised(c) ==
  /\ Idle /\ ~Current(c) /\ Rewrites /\ Fault
  /\ "revision" \in platform.fails
  /\ Store(Front(SaveWrites(c, Log(memory), Leading)))
  /\ Forgotten(c)
  /\ bases' = bases + 1
  /\ UNCHANGED <<platform, disk, edits, replying, saved, unsaved>>

-----------------------------------------------------------------------------
(* edit: a client changes the workspace, and the caller hears it is saved. *)

NextChange == edits < MaxEdits /\ edits' = edits + 1

\* append: the change alone.
EditEntry(c) ==
  /\ Idle /\ Current(c) /\ NextChange
  /\ cached[c].base # 0 /\ cached[c].entries < JournalLimit
  /\ Store(EntryWrites(c, edits'))
  /\ Held(c, cached[c].base, Append(cached[c].log, edits'), cached[c].entries + 1)
  /\ replying' = edits'
  /\ UNCHANGED <<platform, disk, bases, saved, unsaved, faults>>

\* save: a change of another kind, or a journal that is long or heavy.
EditWhole(c) ==
  /\ Idle /\ Current(c) /\ NextChange
  /\ \E k \in 0..Leading : Dropped(k) /\ Store(SaveWrites(c, Append(cached[c].log, edits'), k))
  /\ Held(c, bases + 1, Append(cached[c].log, edits'), 0)
  /\ bases' = bases + 1
  /\ replying' = edits'
  /\ UNCHANGED <<platform, disk, saved, unsaved>>

\* The change after a read that could not be kept: the workspace read is written whole.
EditUnread(c) ==
  /\ Idle /\ ~Current(c) /\ NextChange /\ Fault
  /\ platform.fails \cap (IF Rewrites THEN {"whole"} ELSE {"revision"}) # {}
  /\ Store(SaveWrites(c, Append(Log(memory), edits'), Leading))
  /\ Held(c, bases + 1, Append(Log(memory), edits'), 0)
  /\ bases' = bases + 1
  /\ replying' = edits'
  /\ UNCHANGED <<platform, disk, saved, unsaved>>

\* The change itself cannot be written: nothing is, and the caller hears so.
EditFails(c) ==
  /\ Idle /\ Current(c) /\ NextChange /\ Fault
  /\ \/ "whole" \in platform.fails
     \/ "entry" \in platform.fails /\ cached[c].base # 0 /\ cached[c].entries < JournalLimit
  /\ Forgotten(c)
  /\ unsaved' = unsaved \cup {edits'}
  /\ UNCHANGED <<platform, memory, disk, queue, bases, replying, saved>>

\* The change is written and the revision cannot be: the caller hears it failed.
EditUnrevised(c) ==
  /\ Idle /\ Current(c) /\ NextChange /\ Fault
  /\ "revision" \in platform.fails
  /\ \/ /\ Store(Front(SaveWrites(c, Append(cached[c].log, edits'), Leading)))
        /\ bases' = bases + 1
     \/ /\ cached[c].base # 0 /\ cached[c].entries < JournalLimit
        /\ Store(Front(EntryWrites(c, edits')))
        /\ UNCHANGED bases
  /\ Forgotten(c)
  /\ unsaved' = unsaved \cup {edits'}
  /\ UNCHANGED <<platform, disk, replying, saved>>

Reply ==
  /\ replying # 0
  /\ platform.later \/ queue = <<>>
  /\ saved' = saved \cup {replying}
  /\ replying' = 0
  /\ UNCHANGED <<platform, memory, disk, queue, cached, bases, edits, unsaved, faults>>

-----------------------------------------------------------------------------
(* The disk, and the process that stops.                                   *)

Flush ==
  /\ queue # <<>>
  /\ disk' = Apply(disk, Head(queue))
  /\ queue' = Tail(queue)
  /\ UNCHANGED <<platform, memory, cached, bases, edits, replying, saved, unsaved, faults>>

\* A transaction aborts: the user is told its change could not be saved.
Abort ==
  /\ queue # <<>> /\ Head(queue).call \in platform.aborts /\ Fault
  /\ queue' = Tail(queue)
  /\ unsaved' = unsaved \cup
       CASE Head(queue).call = "entry" -> {Head(queue).entry.change}
         [] Head(queue).call = "whole" /\ Head(queue).log # <<>> -> {Last(Head(queue).log)}
         [] OTHER -> {}
  /\ UNCHANGED <<platform, memory, disk, cached, bases, edits, replying, saved>>

\* Changes still on their way to the web's disk are lost with the process.
Crash ==
  /\ Fault
  /\ memory' = disk
  /\ queue' = <<>>
  /\ cached' = [c \in Client |-> NotCached]
  /\ replying' = 0
  /\ saved' = IF platform.later THEN saved \cap Range(Log(disk)) ELSE saved
  /\ UNCHANGED <<platform, disk, bases, edits, unsaved>>

Read(c) == ReadWhole(c) \/ ReadJournal(c) \/ ReadUnrevised(c)
Edit(c) == EditEntry(c) \/ EditWhole(c) \/ EditUnread(c) \/ EditFails(c) \/ EditUnrevised(c)

JournalNext ==
  \/ \E c \in platform.clients : Read(c) \/ Edit(c)
  \/ Reply \/ Flush \/ Abort \/ Crash

JournalSpec == JournalInit /\ [][JournalNext]_journalVars

-----------------------------------------------------------------------------
\* A client that trusts its parsed workspace shows what the storage holds, and
\* its next entry goes right after the journal's last.
CacheIsTrue ==
  \A c \in Client : Current(c) =>
    /\ cached[c].log = Log(memory)
    /\ cached[c].base = memory.base
    /\ cached[c].entries = Replayed(memory)

\* A change whose caller heard it is saved is on the disk, and one the user was
\* told could not be saved costs no other.
SavedIsKept == queue = <<>> => saved \ unsaved \subseteq Range(Log(disk))

\* The disk keeps every change whole, once and for good: a crash between two
\* writes, a journal left behind or replayed again never undoes or repeats one.
Kept == INSTANCE KeptWorkspace WITH kept <- Log(disk)
KeptSpec == Kept!Spec

\* What the process holds in memory agrees with the storage, and the rest of the
\* state is of its type.
MemoryIsTrue == JournalTypeOK /\ CacheIsTrue

=============================================================================
