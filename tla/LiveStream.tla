----------------------------- MODULE LiveStream -----------------------------
(***************************************************************************)
(* How an account's sockets learn that its practice data changed: the hub  *)
(* of live.go with a slot for each socket, the registration a socket makes  *)
(* when it signs in, the loop that streams pages when its slot wakes it,    *)
(* and the device that pulls when "ready" says it fell behind.              *)
(*                                                                         *)
(* The account's feed is its last number: ChangeFeed is about its content.  *)
(***************************************************************************)
EXTENDS Naturals, Sequences

CONSTANTS
  Device,
  PageSize,   \* changes in a page: 500
  Race,       \* a write may commit between auth's read of the cursor and hub.add
  MaxSeq,     \* bound: writes
  MaxFaults   \* bound: sockets lost

ASSUME StreamAssumption ==
  /\ PageSize \in Nat \ {0}
  /\ Race \in BOOLEAN
  /\ {MaxSeq, MaxFaults} \subseteq Nat

VARIABLES
  seq,        \* the account's cursor: its last committed change
  announcing, \* the writer committed and has not told the hub yet
  hub,        \* the sockets registered
  slot,       \* their LiveSlot
  conn,       \* each socket: closed, auth (it read the cursor) or open
  read,       \* the cursor auth read
  delivered,  \* liveClient.delivered
  loop,       \* what the socket's loop is doing
  page,       \* the cursor of the page it read
  down,       \* "ready" and "changes" on their way to the device
  pull,       \* the device's pull over the socket
  cursor,     \* the device's workspace.cursor
  faults

server == <<seq, announcing, hub, slot, conn, read, delivered, loop, page>>
vars == <<seq, announcing, hub, slot, conn, read, delivered, loop, page, down, pull, cursor, faults>>

NewSlot == [pending |-> FALSE, wake |-> FALSE, cursor |-> 0]
NoPull == [state |-> "none", at |-> 0, more |-> FALSE]

\* Every piece of state has its type, and the hub holds the open sockets.
TypeOK ==
  /\ seq \in 0..MaxSeq
  /\ announcing \in BOOLEAN
  /\ hub \subseteq Device
  /\ slot \in [Device -> [pending : BOOLEAN, wake : BOOLEAN, cursor : 0..MaxSeq]]
  /\ conn \in [Device -> {"closed", "auth", "open"}]
  /\ read \in [Device -> 0..MaxSeq]
  /\ delivered \in [Device -> 0..MaxSeq]
  /\ loop \in [Device -> {"select", "woken", "reading", "sending"}]
  /\ page \in [Device -> 0..MaxSeq]
  /\ down \in [Device -> Seq([ready : BOOLEAN, after : 0..MaxSeq, cursor : 0..MaxSeq])]
  /\ pull \in [Device -> [state : {"none", "sent", "answered"}, at : 0..MaxSeq, more : BOOLEAN]]
  /\ cursor \in [Device -> 0..MaxSeq]
  /\ faults \in 0..MaxFaults
  /\ hub = {d \in Device : conn[d] = "open"}

Init ==
  /\ seq = 0 /\ announcing = FALSE /\ hub = {}
  /\ slot = [d \in Device |-> NewSlot]
  /\ conn = [d \in Device |-> "closed"]
  /\ read = [d \in Device |-> 0]
  /\ delivered = [d \in Device |-> 0]
  /\ loop = [d \in Device |-> "select"]
  /\ page = [d \in Device |-> 0]
  /\ down = [d \in Device |-> <<>>]
  /\ pull = [d \in Device |-> NoPull]
  /\ cursor = [d \in Device |-> 0]
  /\ faults = 0

-----------------------------------------------------------------------------
(* The writer: commits, then tells the hub before anyone else writes.      *)

Commit ==
  /\ ~announcing
  /\ seq < MaxSeq
  /\ Race \/ \A d \in Device : conn[d] # "auth"
  /\ seq' = seq + 1
  /\ announcing' = TRUE
  /\ UNCHANGED <<hub, slot, conn, read, delivered, loop, page, down, pull, cursor, faults>>

\* Mutant: a socket busy streaming is not woken again.
NotifySync_OnlyIdle ==
  /\ announcing
  /\ announcing' = FALSE
  /\ slot' = [d \in Device |->
       IF d \notin hub THEN slot[d]
       ELSE [pending |-> TRUE, wake |-> slot[d].wake \/ loop[d] = "select",
             cursor |-> IF slot[d].cursor < seq THEN seq ELSE slot[d].cursor]]
  /\ UNCHANGED <<seq, hub, conn, read, delivered, loop, page, down, pull, cursor, faults>>

\* Every slot registered is marked and woken; a wake-up is kept until taken.
NotifySync ==
  /\ announcing
  /\ announcing' = FALSE
  /\ slot' = [d \in Device |->
       IF d \notin hub THEN slot[d]
       ELSE [pending |-> TRUE, wake |-> TRUE,
             cursor |-> IF slot[d].cursor < seq THEN seq ELSE slot[d].cursor]]
  /\ UNCHANGED <<seq, hub, conn, read, delivered, loop, page, down, pull, cursor, faults>>

-----------------------------------------------------------------------------
(* A socket signs in: auth reads the account's cursor, then registers.     *)

AuthReads(d) ==
  /\ conn[d] = "closed"
  /\ Race \/ ~announcing
  /\ conn' = [conn EXCEPT ![d] = "auth"]
  /\ read' = [read EXCEPT ![d] = seq]
  /\ delivered' = [delivered EXCEPT ![d] = cursor[d]]
  /\ slot' = [slot EXCEPT ![d] = NewSlot]
  /\ UNCHANGED <<seq, announcing, hub, loop, page, down, pull, cursor, faults>>

HubAdd(d) ==
  /\ conn[d] = "auth"
  /\ conn' = [conn EXCEPT ![d] = "open"]
  /\ hub' = hub \cup {d}
  /\ down' = [down EXCEPT ![d] = <<[ready |-> TRUE, after |-> 0, cursor |-> read[d]]>>]
  /\ UNCHANGED <<seq, announcing, slot, read, delivered, loop, page, pull, cursor, faults>>

-----------------------------------------------------------------------------
(* Its loop: one thing at a time.                                          *)

Free(d) == conn[d] = "open" /\ loop[d] = "select"

Wake(d) ==
  /\ Free(d)
  /\ slot[d].wake
  /\ slot' = [slot EXCEPT ![d].wake = FALSE]
  /\ loop' = [loop EXCEPT ![d] = "woken"]
  /\ UNCHANGED <<seq, announcing, hub, conn, read, delivered, page, down, pull, cursor, faults>>

SwapPending(d) ==
  /\ loop[d] = "woken"
  /\ loop' = [loop EXCEPT ![d] = IF slot[d].pending THEN "reading" ELSE "select"]
  /\ slot' = [slot EXCEPT ![d].pending = FALSE]
  /\ UNCHANGED <<seq, announcing, hub, conn, read, delivered, page, down, pull, cursor, faults>>

\* The page after what was delivered: at most PageSize changes, "more" when full.
PageEnd(after) == IF after + PageSize < seq THEN after + PageSize ELSE IF after > seq THEN after ELSE seq

ReadPage(d) ==
  /\ loop[d] = "reading"
  /\ loop' = [loop EXCEPT ![d] = "sending"]
  /\ page' = [page EXCEPT ![d] = PageEnd(delivered[d])]
  /\ UNCHANGED <<seq, announcing, hub, slot, conn, read, delivered, down, pull, cursor, faults>>

\* Mutant: what was announced counts as delivered.
Reached_Announced(d) == slot[d].cursor

\* What a page delivers.
Reached(d) == page[d]

\* Mutant: the rest of a full page waits for the next write.
Full_Never(d) == FALSE

Full(d) == page[d] - delivered[d] = PageSize

\* A full page wakes the loop again for the next.
SendPage(d) ==
  /\ loop[d] = "sending"
  /\ loop' = [loop EXCEPT ![d] = "select"]
  /\ delivered' = [delivered EXCEPT ![d] = Reached(d)]
  /\ slot' = IF Full(d) THEN [slot EXCEPT ![d].pending = TRUE, ![d].wake = TRUE] ELSE slot
  /\ down' = IF page[d] <= delivered[d] THEN down
             ELSE [down EXCEPT ![d] =
                     Append(@, [ready |-> FALSE, after |-> delivered[d], cursor |-> page[d]])]
  /\ UNCHANGED <<seq, announcing, hub, conn, read, page, pull, cursor, faults>>

\* onSync(pull): what it answers needs no streaming.
ServePull(d) ==
  /\ Free(d)
  /\ pull[d].state = "sent"
  /\ LET end == PageEnd(pull[d].at)
     IN /\ pull' = [pull EXCEPT ![d] =
              [state |-> "answered", at |-> end, more |-> end - pull[d].at = PageSize]]
        /\ delivered' = [delivered EXCEPT ![d] = IF @ < end THEN end ELSE @]
  /\ UNCHANGED <<seq, announcing, hub, slot, conn, read, loop, page, down, cursor, faults>>

-----------------------------------------------------------------------------
(* The device.                                                             *)

\* "ready": it pulls if the account is ahead of it, and only then.
ReceiveReady(d) ==
  /\ down[d] # <<>> /\ Head(down[d]).ready
  /\ down' = [down EXCEPT ![d] = Tail(@)]
  /\ pull' = IF Head(down[d]).cursor > cursor[d]
             THEN [pull EXCEPT ![d] = [NoPull EXCEPT !.state = "sent", !.at = cursor[d]]]
             ELSE pull
  /\ UNCHANGED <<server, cursor, faults>>

\* Pages are merged once the last has come.
TakePull(d) ==
  /\ pull[d].state = "answered"
  /\ IF pull[d].more
     THEN pull' = [pull EXCEPT ![d].state = "sent"] /\ UNCHANGED cursor
     ELSE /\ pull' = [pull EXCEPT ![d] = NoPull]
          /\ cursor' = [cursor EXCEPT ![d] = IF @ < pull[d].at THEN pull[d].at ELSE @]
  /\ UNCHANGED <<server, down, faults>>

\* A page waits for the running synchronization; past a gap the device pulls.
ReceiveChanges(d) ==
  LET changes == Head(down[d])
  IN /\ down[d] # <<>> /\ ~changes.ready
     /\ pull[d].state = "none"
     /\ down' = [down EXCEPT ![d] = Tail(@)]
     /\ IF changes.cursor <= cursor[d] THEN UNCHANGED <<cursor, pull>>
        ELSE IF changes.after > cursor[d]
             THEN /\ pull' = [pull EXCEPT ![d] = [NoPull EXCEPT !.state = "sent", !.at = cursor[d]]]
                  /\ UNCHANGED cursor
             ELSE /\ cursor' = [cursor EXCEPT ![d] = changes.cursor]
                  /\ UNCHANGED pull
     /\ UNCHANGED <<server, faults>>

\* The socket is lost: out of the hub, and what was on its way with it.
Leave(d) ==
  /\ conn[d] # "closed"
  /\ faults < MaxFaults
  /\ faults' = faults + 1
  /\ conn' = [conn EXCEPT ![d] = "closed"]
  /\ hub' = hub \ {d}
  /\ loop' = [loop EXCEPT ![d] = "select"]
  /\ down' = [down EXCEPT ![d] = <<>>]
  /\ pull' = [pull EXCEPT ![d] = NoPull]
  /\ UNCHANGED <<seq, announcing, slot, read, delivered, page, cursor>>

SignIn(d) == AuthReads(d) \/ HubAdd(d)
Loop(d) == Wake(d) \/ SwapPending(d) \/ ReadPage(d) \/ SendPage(d)
Receive(d) == ReceiveReady(d) \/ TakePull(d) \/ ReceiveChanges(d)

Next ==
  \/ Commit \/ NotifySync
  \/ \E d \in Device : SignIn(d) \/ Loop(d) \/ ServePull(d) \/ Receive(d) \/ Leave(d)

Spec == Init /\ [][Next]_vars

\* The writer tells the hub in the call that commits; goroutines and the app run.
\* Go's select is fair to a socket's messages and wake-ups alike.
FairSpec ==
  /\ Spec
  /\ WF_vars(NotifySync)
  /\ \A d \in Device : /\ WF_vars(SignIn(d)) /\ WF_vars(Receive(d))
                       /\ WF_vars(Loop(d)) /\ SF_vars(ServePull(d))

-----------------------------------------------------------------------------
\* A change announced to a socket and not delivered yet is never forgotten:
\* its slot is marked with a wake-up to come, or its loop is about to read or send
\* it, or about to send a full page and come back.
WakeKept ==
  \A d \in hub : slot[d].cursor > delivered[d] =>
    \/ slot[d].pending /\ (slot[d].wake \/ loop[d] = "woken")
    \/ loop[d] = "reading"
    \/ loop[d] = "sending" /\ (page[d] >= slot[d].cursor \/ Full(d))

\* What the socket streams always starts where the device is or before: pages
\* streamed and pulled over one socket leave no gap.
NoGap ==
  \A d \in Device :
    (down[d] # <<>> /\ ~Head(down[d]).ready /\ pull[d].state = "none")
      => Head(down[d]).after <= cursor[d]

\* A connected device ends with every change made to its account.
ToldEverything == \A d \in Device : <>[](conn[d] = "open" /\ cursor[d] = seq)

=============================================================================
