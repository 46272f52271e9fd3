------------------------- MODULE LiveStream_proofs -------------------------
(***************************************************************************)
(* Proofs about LiveStream, for any devices, page size and bounds, whether *)
(* or not a write commits while a socket registers: it is well typed, no   *)
(* wake-up is lost, and what is streamed leaves no gap.                    *)
(***************************************************************************)
EXTENDS LiveStream, TLAPS

\* What a slot was told of is committed.
Announced == \A d \in Device : slot[d].cursor <= seq

\* A socket registers with a fresh slot, and its loop runs once it is open.
Fresh ==
  \A d \in Device :
    /\ conn[d] = "auth" => slot[d].cursor = 0
    /\ conn[d] # "open" => loop[d] = "select"

\* The page about to be sent was read after what was delivered.
Forward == \A d \in Device : loop[d] = "sending" => page[d] >= delivered[d]

\* WakeKept needs them: a page read to the account's end covers what was announced,
\* sending one never takes a delivery back, and a socket that registers missed
\* nothing it was told of.
WakeInv == TypeOK /\ Announced /\ Fresh /\ Forward /\ WakeKept

\* What the server sends.
Message == [ready : BOOLEAN, after : 0..MaxSeq, cursor : 0..MaxSeq]

\* The assumption on the constants, one fact each.
LEMMA Bounds == PageSize \in Nat /\ PageSize > 0 /\ MaxSeq \in Nat /\ MaxFaults \in Nat
BY StreamAssumption

-----------------------------------------------------------------------------
\* Initially no socket is registered.
LEMMA InitWake == Init => WakeInv
<1> SUFFICES ASSUME Init PROVE WakeInv
  OBVIOUS
<1>1. TypeOK
  <2>1. down \in [Device -> Seq(Message)]
    BY DEF Init
  <2>2. slot \in [Device -> [pending : BOOLEAN, wake : BOOLEAN, cursor : 0..MaxSeq]]
    BY Bounds DEF Init, NewSlot
  <2>3. pull \in [Device -> [state : {"none", "sent", "answered"}, at : 0..MaxSeq, more : BOOLEAN]]
    BY Bounds DEF Init, NoPull
  <2>4. hub = {d \in Device : conn[d] = "open"}
    BY DEF Init
  <2>5. /\ conn \in [Device -> {"closed", "auth", "open"}]
        /\ loop \in [Device -> {"select", "woken", "reading", "sending"}]
        /\ read \in [Device -> 0..MaxSeq] /\ delivered \in [Device -> 0..MaxSeq]
        /\ page \in [Device -> 0..MaxSeq] /\ cursor \in [Device -> 0..MaxSeq]
    BY Bounds DEF Init
  <2>6. seq \in 0..MaxSeq /\ announcing \in BOOLEAN /\ hub \subseteq Device /\ faults \in 0..MaxFaults
    <3>1. seq = 0 /\ announcing = FALSE /\ hub = {} /\ faults = 0
      BY DEF Init
    <3>2. announcing \in BOOLEAN
      BY <3>1, Zenon
    <3>3. seq \in 0..MaxSeq /\ hub \subseteq Device /\ faults \in 0..MaxFaults
      BY <3>1, Bounds
    <3> QED
      BY <3>2, <3>3
  <2> QED
    <3>1. announcing \in BOOLEAN /\ down \in [Device -> Seq([ready : BOOLEAN, after : 0..MaxSeq, cursor : 0..MaxSeq])]
      BY <2>1, <2>6 DEF Message
    <3> QED
      BY <3>1, <2>2, <2>3, <2>4, <2>5, <2>6, Zenon DEF TypeOK
<1>2. Announced /\ Fresh /\ Forward
  BY DEF Init, Announced, Fresh, Forward, NewSlot
<1>3. WakeKept
  BY DEF Init, WakeKept
<1> QED
  BY <1>1, <1>2, <1>3 DEF WakeInv

\* A page ends within the bounds, and at or past the account's end unless it is full.
LEMMA PageEndBounds ==
  ASSUME NEW after \in 0..MaxSeq, seq \in 0..MaxSeq
  PROVE  /\ PageEnd(after) \in 0..MaxSeq
         /\ PageEnd(after) >= after
         /\ PageEnd(after) >= seq \/ PageEnd(after) - after = PageSize
BY Bounds DEF PageEnd

-----------------------------------------------------------------------------
(* Each step.                                                              *)

\* A write is announced only afterwards.
LEMMA CommitWake ==
  ASSUME WakeInv, Commit
  PROVE  WakeInv'
<1>1. TypeOK'
  <2>1. seq' \in 0..MaxSeq
    BY Bounds DEF WakeInv, TypeOK, Commit
  <2> QED
    BY <2>1, Bounds DEF WakeInv, TypeOK, Message, Commit
<1>2. Announced' /\ Fresh'
  BY DEF WakeInv, TypeOK, Announced, Fresh, Commit
<1>3. Forward'
  BY DEF WakeInv, TypeOK, Fresh, Forward, Commit
<1>4. WakeKept'
  BY Bounds DEF WakeInv, TypeOK, Announced, Fresh, WakeKept, Full, Commit
<1> QED
  BY <1>1, <1>2, <1>3, <1>4 DEF WakeInv

\* The hub marks and wakes every slot registered.
LEMMA NotifyWake ==
  ASSUME WakeInv, NotifySync
  PROVE  WakeInv'
<1>1. TypeOK'
  BY Bounds DEF WakeInv, TypeOK, NotifySync
<1>2. Announced' /\ Fresh'
  BY DEF WakeInv, TypeOK, Announced, Fresh, NotifySync
<1>3. Forward'
  BY DEF WakeInv, TypeOK, Fresh, Forward, NotifySync
<1>4. WakeKept'
  BY Bounds DEF WakeInv, TypeOK, Announced, Fresh, WakeKept, Full, NotifySync
<1> QED
  BY <1>1, <1>2, <1>3, <1>4 DEF WakeInv

\* A socket that signs in starts from a fresh slot.
LEMMA AuthWake ==
  ASSUME NEW d \in Device, WakeInv, AuthReads(d)
  PROVE  WakeInv'
<1>1. TypeOK'
  <2>1. slot' \in [Device -> [pending : BOOLEAN, wake : BOOLEAN, cursor : 0..MaxSeq]]
    BY Bounds DEF WakeInv, TypeOK, AuthReads, NewSlot
  <2>2. read' \in [Device -> 0..MaxSeq] /\ delivered' \in [Device -> 0..MaxSeq]
    BY DEF WakeInv, TypeOK, AuthReads
  <2>3. hub' = {e \in Device : conn'[e] = "open"}
    BY DEF WakeInv, TypeOK, AuthReads
  <2> QED
    BY <2>1, <2>2, <2>3, Bounds DEF WakeInv, TypeOK, Message, AuthReads
<1>2. Announced' /\ Fresh'
  <2>1. slot'[d].cursor = 0 /\ \A e \in Device \ {d} : slot'[e] = slot[e] /\ conn'[e] = conn[e]
    BY DEF WakeInv, TypeOK, AuthReads, NewSlot
  <2>2. loop[d] = "select" /\ loop' = loop /\ seq' = seq
    BY DEF WakeInv, Fresh, AuthReads
  <2>5. seq \in Nat
    BY DEF WakeInv, TypeOK
  <2>3. Announced'
    BY <2>1, <2>2, <2>5 DEF WakeInv, Announced
  <2>4. Fresh'
    BY <2>1, <2>2 DEF WakeInv, Fresh
  <2> QED
    BY <2>3, <2>4
<1>3. Forward'
  <2>1. loop[d] = "select"
    BY DEF WakeInv, Fresh, AuthReads
  <2> QED
    BY <2>1 DEF WakeInv, TypeOK, Forward, AuthReads
<1>4. WakeKept'
  BY Bounds DEF WakeInv, TypeOK, Announced, Fresh, WakeKept, Full, AuthReads, NewSlot
<1> QED
  BY <1>1, <1>2, <1>3, <1>4 DEF WakeInv

\* A socket registers with nothing announced.
LEMMA HubAddWake ==
  ASSUME NEW d \in Device, WakeInv, HubAdd(d)
  PROVE  WakeInv'
<1>1. TypeOK'
  <2>1. <<[ready |-> TRUE, after |-> 0, cursor |-> read[d]]>> \in Seq(Message)
    BY Bounds DEF WakeInv, TypeOK, Message
  <2>2. down' \in [Device -> Seq(Message)]
    BY <2>1 DEF WakeInv, TypeOK, HubAdd, Message
  <2>3. hub' = {e \in Device : conn'[e] = "open"}
    BY DEF WakeInv, TypeOK, HubAdd
  <2> QED
    BY <2>1, <2>2, <2>3, Bounds DEF WakeInv, TypeOK, Message, HubAdd
<1>2. Announced' /\ Fresh'
  BY DEF WakeInv, TypeOK, Announced, Fresh, HubAdd
<1>3. Forward'
  BY DEF WakeInv, TypeOK, Fresh, Forward, HubAdd
<1>4. WakeKept'
  <2>1. slot[d].cursor = 0
    BY DEF WakeInv, Fresh, HubAdd
  <2>4. delivered[d] \in Nat
    BY DEF WakeInv, TypeOK
  <2>2. hub' = hub \cup {d} /\ UNCHANGED <<slot, delivered, loop, page>>
    BY DEF HubAdd
  <2>3. \A e \in Device : Full(e)' <=> Full(e)
    BY <2>2 DEF Full
  <2>5. \A e \in hub : e \in Device
    BY DEF WakeInv, TypeOK
  <2> SUFFICES ASSUME NEW e \in hub', slot'[e].cursor > delivered'[e]
               PROVE  \/ slot'[e].pending /\ (slot'[e].wake \/ loop'[e] = "woken")
                      \/ loop'[e] = "reading"
                      \/ loop'[e] = "sending" /\ (page'[e] >= slot'[e].cursor \/ Full(e)')
    BY DEF WakeKept
  <2>6. e # d /\ e \in hub
    BY <2>1, <2>2, <2>4
  <2>7. slot[e].cursor > delivered[e] /\ (Full(e)' <=> Full(e))
    BY <2>2, <2>3, <2>5, <2>6
  <2> QED
    BY <2>2, <2>6, <2>7 DEF WakeInv, WakeKept
<1> QED
  BY <1>1, <1>2, <1>3, <1>4 DEF WakeInv

\* A wake-up is taken: the loop is about to swap pending.
LEMMA WakeWake ==
  ASSUME NEW d \in Device, WakeInv, Wake(d)
  PROVE  WakeInv'
<1>1. TypeOK'
  BY Bounds DEF WakeInv, TypeOK, Wake, Free
<1>2. Announced' /\ Fresh'
  BY DEF WakeInv, TypeOK, Announced, Fresh, Wake, Free
<1>3. Forward'
  BY DEF WakeInv, TypeOK, Fresh, Forward, Wake, Free
<1>4. WakeKept'
  BY Bounds DEF WakeInv, TypeOK, Announced, Fresh, WakeKept, Full, Wake, Free
<1> QED
  BY <1>1, <1>2, <1>3, <1>4 DEF WakeInv

\* Pending is taken: the loop is about to read.
LEMMA SwapWake ==
  ASSUME NEW d \in Device, WakeInv, SwapPending(d)
  PROVE  WakeInv'
<1>1. TypeOK'
  BY Bounds DEF WakeInv, TypeOK, SwapPending
<1>2. Announced' /\ Fresh'
  BY DEF WakeInv, TypeOK, Announced, Fresh, SwapPending
<1>3. Forward'
  BY DEF WakeInv, TypeOK, Fresh, Forward, SwapPending
<1>4. WakeKept'
  <2> SUFFICES ASSUME NEW e \in hub', slot'[e].cursor > delivered'[e]
               PROVE  \/ slot'[e].pending /\ (slot'[e].wake \/ loop'[e] = "woken")
                      \/ loop'[e] = "reading"
                      \/ loop'[e] = "sending" /\ (page'[e] >= slot'[e].cursor \/ Full(e)')
    BY DEF WakeKept
  <2>1. e \in Device /\ e \in hub /\ slot'[e].cursor = slot[e].cursor /\ slot[e].cursor > delivered[e]
    BY DEF WakeInv, TypeOK, SwapPending
  <2>2. CASE e = d
    BY <2>1, <2>2 DEF WakeInv, TypeOK, WakeKept, SwapPending
  <2>3. CASE e # d
    <3>1. /\ slot'[e] = slot[e] /\ loop'[e] = loop[e] /\ page'[e] = page[e]
          /\ Full(e)' <=> Full(e)
      BY <2>1, <2>3 DEF WakeInv, TypeOK, SwapPending, Full
    <3> QED
      BY <2>1, <3>1 DEF WakeInv, WakeKept
  <2> QED
    BY <2>2, <2>3
<1> QED
  BY <1>1, <1>2, <1>3, <1>4 DEF WakeInv

\* The page read reaches what was announced, or is full.
LEMMA ReadWake ==
  ASSUME NEW d \in Device, WakeInv, ReadPage(d)
  PROVE  WakeInv'
<1>1. TypeOK'
  BY Bounds, PageEndBounds DEF WakeInv, TypeOK, ReadPage
<1>2. Announced' /\ Fresh'
  BY DEF WakeInv, TypeOK, Announced, Fresh, ReadPage
<1>3. Forward'
  BY PageEndBounds DEF WakeInv, TypeOK, Fresh, Forward, ReadPage
<1>4. WakeKept'
  <2> SUFFICES ASSUME NEW e \in hub', slot'[e].cursor > delivered'[e]
               PROVE  \/ slot'[e].pending /\ (slot'[e].wake \/ loop'[e] = "woken")
                      \/ loop'[e] = "reading"
                      \/ loop'[e] = "sending" /\ (page'[e] >= slot'[e].cursor \/ Full(e)')
    BY DEF WakeKept
  <2>1. e \in Device /\ e \in hub /\ slot[e].cursor > delivered[e]
    BY DEF WakeInv, TypeOK, ReadPage
  <2>2. CASE e = d
    <3>1. PageEnd(delivered[d]) >= seq \/ PageEnd(delivered[d]) - delivered[d] = PageSize
      BY PageEndBounds DEF WakeInv, TypeOK
    <3>2. page'[d] = PageEnd(delivered[d]) /\ loop'[d] = "sending"
      BY DEF WakeInv, TypeOK, ReadPage
    <3>3. PageEnd(delivered[d]) \in 0..MaxSeq /\ slot[d].cursor \in 0..MaxSeq /\ slot[d].cursor <= seq
      BY PageEndBounds DEF WakeInv, TypeOK, Announced
    <3>4. Full(d)' <=> page'[d] - delivered[d] = PageSize
      BY DEF ReadPage, Full
    <3> QED
      BY <2>2, <3>1, <3>2, <3>3, <3>4, Bounds DEF WakeInv, TypeOK, ReadPage
  <2>3. CASE e # d
    <3>1. Full(e)' <=> Full(e)
      BY <2>1, <2>3 DEF WakeInv, TypeOK, ReadPage, Full
    <3> QED
      BY <2>1, <2>3, <3>1 DEF WakeInv, TypeOK, WakeKept, ReadPage
  <2> QED
    BY <2>2, <2>3
<1> QED
  BY <1>1, <1>2, <1>3, <1>4 DEF WakeInv

\* The page is delivered; after a full one the loop wakes again.
LEMMA SendWake ==
  ASSUME NEW d \in Device, WakeInv, SendPage(d)
  PROVE  WakeInv'
<1>1. TypeOK'
  <2>1. delivered' \in [Device -> 0..MaxSeq]
    BY DEF WakeInv, TypeOK, SendPage, Reached
  <2>2. slot' \in [Device -> [pending : BOOLEAN, wake : BOOLEAN, cursor : 0..MaxSeq]]
    <3>1. CASE Full(d)
      <4>1. slot[d] \in [pending : BOOLEAN, wake : BOOLEAN, cursor : 0..MaxSeq]
        BY DEF WakeInv, TypeOK
      <4>2. slot' = [slot EXCEPT ![d].pending = TRUE, ![d].wake = TRUE]
        BY <3>1 DEF SendPage
      <4> QED
        BY <4>1, <4>2 DEF WakeInv, TypeOK
    <3>2. CASE ~Full(d)
      BY <3>2 DEF WakeInv, TypeOK, SendPage
    <3> QED
      BY <3>1, <3>2
  <2>3. [ready |-> FALSE, after |-> delivered[d], cursor |-> page[d]] \in Message
    BY DEF WakeInv, TypeOK, Message
  <2>4. Append(down[d], [ready |-> FALSE, after |-> delivered[d], cursor |-> page[d]]) \in Seq(Message)
    <3>1. down[d] \in Seq(Message)
      BY DEF WakeInv, TypeOK, Message
    <3> QED
      BY <2>3, <3>1
  <2>5. down' \in [Device -> Seq(Message)]
    BY <2>4 DEF WakeInv, TypeOK, Message, SendPage
  <2> QED
    BY <2>1, <2>2, <2>3, <2>4, <2>5, Bounds DEF WakeInv, TypeOK, Message, SendPage
<1>2. Announced' /\ Fresh'
  BY DEF WakeInv, TypeOK, Announced, Fresh, SendPage, Reached
<1>3. Forward'
  BY DEF WakeInv, TypeOK, Fresh, Forward, SendPage, Reached
<1>4. WakeKept'
  <2> SUFFICES ASSUME NEW e \in hub', slot'[e].cursor > delivered'[e]
               PROVE  \/ slot'[e].pending /\ (slot'[e].wake \/ loop'[e] = "woken")
                      \/ loop'[e] = "reading"
                      \/ loop'[e] = "sending" /\ (page'[e] >= slot'[e].cursor \/ Full(e)')
    BY DEF WakeKept
  <2>1. e \in Device /\ e \in hub
    BY DEF WakeInv, TypeOK, SendPage
  <2>2. CASE e = d
    <3>1. delivered'[d] = page[d]
      BY DEF WakeInv, TypeOK, SendPage, Reached
    <3>2. CASE Full(d)
      BY <2>2, <3>2 DEF WakeInv, TypeOK, SendPage
    <3>3. CASE ~Full(d)
      <4>1. slot' = slot /\ slot[d].cursor > page[d]
        BY <2>2, <3>1, <3>3 DEF SendPage
      <4>2. slot[d].cursor \in Nat /\ page[d] \in Nat /\ delivered[d] \in Nat
        BY DEF WakeInv, TypeOK
      <4>3. loop[d] = "sending" /\ ~(page[d] >= slot[d].cursor)
        BY <4>1, <4>2 DEF SendPage
      <4>4. ~(slot[d].cursor > delivered[d]) \/ (slot[d].pending /\ (slot[d].wake \/ loop[d] = "woken"))
        BY <2>1, <2>2, <3>3, <4>3 DEF WakeInv, WakeKept
      <4>5. CASE ~(slot[d].cursor > delivered[d])
        <5>1. page[d] >= delivered[d]
          BY <4>3 DEF WakeInv, Forward
        <5> QED
          BY <4>1, <4>2, <4>5, <5>1
      <4>6. CASE slot[d].pending /\ slot[d].wake
        BY <2>2, <4>1, <4>6
      <4> QED
        BY <4>3, <4>4, <4>5, <4>6
    <3> QED
      BY <3>2, <3>3
  <2>3. CASE e # d
    <3>1. Full(e)' <=> Full(e)
      BY <2>1, <2>3 DEF WakeInv, TypeOK, SendPage, Full
    <3>2. slot'[e] = slot[e] /\ delivered'[e] = delivered[e] /\ loop'[e] = loop[e] /\ page'[e] = page[e]
      BY <2>1, <2>3 DEF WakeInv, TypeOK, SendPage
    <3> QED
      BY <2>1, <3>1, <3>2 DEF WakeInv, WakeKept
  <2> QED
    BY <2>2, <2>3
<1> QED
  BY <1>1, <1>2, <1>3, <1>4 DEF WakeInv

\* A pull delivers while the loop is idle.
LEMMA ServePullWake ==
  ASSUME NEW d \in Device, WakeInv, ServePull(d)
  PROVE  WakeInv'
<1>1. TypeOK'
  BY Bounds, PageEndBounds DEF WakeInv, TypeOK, ServePull, Free
<1>2. Announced' /\ Fresh'
  BY DEF WakeInv, TypeOK, Announced, Fresh, ServePull, Free
<1>3. Forward'
  BY DEF WakeInv, TypeOK, Fresh, Forward, ServePull, Free
<1>4. WakeKept'
  <2> SUFFICES ASSUME NEW e \in hub', slot'[e].cursor > delivered'[e]
               PROVE  \/ slot'[e].pending /\ (slot'[e].wake \/ loop'[e] = "woken")
                      \/ loop'[e] = "reading"
                      \/ loop'[e] = "sending" /\ (page'[e] >= slot'[e].cursor \/ Full(e)')
    BY DEF WakeKept
  <2>1. e \in Device /\ e \in hub /\ slot'[e] = slot[e] /\ loop'[e] = loop[e] /\ page'[e] = page[e]
    BY DEF WakeInv, TypeOK, ServePull
  <2>2. delivered'[e] >= delivered[e] /\ delivered[e] \in Nat /\ delivered'[e] \in Nat /\ slot[e].cursor \in Nat
    <3>1. PageEnd(pull[d].at) \in 0..MaxSeq
      BY PageEndBounds DEF WakeInv, TypeOK
    <3> QED
      BY <2>1, <3>1, Bounds DEF WakeInv, TypeOK, ServePull
  <2>3. slot[e].cursor > delivered[e]
    BY <2>1, <2>2
  <2>4. loop[e] = "sending" => (Full(e)' <=> Full(e))
    BY <2>1 DEF WakeInv, TypeOK, ServePull, Free, Full
  <2> QED
    BY <2>1, <2>3, <2>4 DEF WakeInv, WakeKept
<1> QED
  BY <1>1, <1>2, <1>3, <1>4 DEF WakeInv

\* The device's own steps leave the server alone.
LEMMA ReadyWake ==
  ASSUME NEW d \in Device, WakeInv, ReceiveReady(d)
  PROVE  WakeInv'
<1>1. TypeOK'
  <2>1. Tail(down[d]) \in Seq(Message)
    <3>1. down[d] \in Seq(Message) /\ down[d] # <<>>
      BY DEF WakeInv, TypeOK, Message, ReceiveReady
    <3> QED
      BY <3>1
  <2>2. down' \in [Device -> Seq(Message)]
    BY <2>1 DEF WakeInv, TypeOK, Message, ReceiveReady
  <2>3. pull' \in [Device -> [state : {"none", "sent", "answered"}, at : 0..MaxSeq, more : BOOLEAN]]
    BY DEF WakeInv, TypeOK, ReceiveReady, NoPull
  <2> QED
    BY <2>1, <2>2, <2>3, Bounds DEF WakeInv, TypeOK, Message, ReceiveReady, server
<1>2. Announced' /\ Fresh'
  BY DEF WakeInv, TypeOK, Announced, Fresh, ReceiveReady, server, NoPull
<1>3. Forward'
  BY DEF WakeInv, TypeOK, Fresh, Forward, ReceiveReady, server, NoPull
<1>4. WakeKept'
  BY Bounds DEF WakeInv, TypeOK, Announced, Fresh, WakeKept, Full, ReceiveReady, server, NoPull
<1> QED
  BY <1>1, <1>2, <1>3, <1>4 DEF WakeInv

\* The device's own steps leave the server alone.
LEMMA TakePullWake ==
  ASSUME NEW d \in Device, WakeInv, TakePull(d)
  PROVE  WakeInv'
<1>1. TypeOK'
  <2>1. pull' \in [Device -> [state : {"none", "sent", "answered"}, at : 0..MaxSeq, more : BOOLEAN]]
    <3> DEFINE Pull == [state : {"none", "sent", "answered"}, at : 0..MaxSeq, more : BOOLEAN]
    <3>1. pull \in [Device -> Pull]
      BY DEF WakeInv, TypeOK
    <3>2. CASE pull[d].more
      <4>1. [pull[d] EXCEPT !.state = "sent"] \in Pull
        BY <3>1
      <4>2. pull' = [pull EXCEPT ![d] = [pull[d] EXCEPT !.state = "sent"]]
        BY <3>2 DEF TakePull
      <4> QED
        BY <3>1, <4>1, <4>2
    <3>3. CASE ~pull[d].more
      <4>1. NoPull \in Pull
        BY Bounds DEF NoPull
      <4>2. pull' = [pull EXCEPT ![d] = NoPull]
        BY <3>3 DEF TakePull
      <4> QED
        BY <3>1, <4>1, <4>2
    <3> QED
      BY <3>2, <3>3
  <2>2. cursor' \in [Device -> 0..MaxSeq]
    <3>1. pull[d].at \in 0..MaxSeq
      BY DEF WakeInv, TypeOK
    <3>2. CASE pull[d].more
      BY <3>2 DEF WakeInv, TypeOK, TakePull
    <3>3. CASE ~pull[d].more
      BY <3>1, <3>3 DEF WakeInv, TypeOK, TakePull
    <3> QED
      BY <3>2, <3>3
  <2> QED
    BY <2>1, <2>2, Bounds DEF WakeInv, TypeOK, Message, TakePull, server
<1>2. Announced' /\ Fresh'
  BY DEF WakeInv, TypeOK, Announced, Fresh, TakePull, server, NoPull
<1>3. Forward'
  BY DEF WakeInv, TypeOK, Fresh, Forward, TakePull, server, NoPull
<1>4. WakeKept'
  BY Bounds DEF WakeInv, TypeOK, Announced, Fresh, WakeKept, Full, TakePull, server, NoPull
<1> QED
  BY <1>1, <1>2, <1>3, <1>4 DEF WakeInv

\* The device's own steps leave the server alone.
LEMMA ChangesWake ==
  ASSUME NEW d \in Device, WakeInv, ReceiveChanges(d)
  PROVE  WakeInv'
<1>1. TypeOK'
  <2>1. Head(down[d]) \in Message
    <3>1. down[d] \in Seq(Message) /\ down[d] # <<>>
      BY DEF WakeInv, TypeOK, Message, ReceiveChanges
    <3> QED
      BY <3>1
  <2>2. Tail(down[d]) \in Seq(Message)
    <3>1. down[d] \in Seq(Message) /\ down[d] # <<>>
      BY DEF WakeInv, TypeOK, Message, ReceiveChanges
    <3> QED
      BY <3>1
  <2>3. down' \in [Device -> Seq(Message)]
    BY <2>2 DEF WakeInv, TypeOK, Message, ReceiveChanges
  <2>4. pull' \in [Device -> [state : {"none", "sent", "answered"}, at : 0..MaxSeq, more : BOOLEAN]]
    <3>1. CASE pull' = pull
      BY <3>1 DEF WakeInv, TypeOK
    <3>2. CASE pull' = [pull EXCEPT ![d] = [NoPull EXCEPT !.state = "sent", !.at = cursor[d]]]
      BY <3>2, Bounds DEF WakeInv, TypeOK, NoPull
    <3> QED
      BY <3>1, <3>2 DEF ReceiveChanges
  <2>5. cursor' \in [Device -> 0..MaxSeq]
    BY <2>1 DEF WakeInv, TypeOK, Message, ReceiveChanges
  <2> QED
    BY <2>1, <2>2, <2>3, <2>4, <2>5, Bounds DEF WakeInv, TypeOK, Message, ReceiveChanges, server
<1>2. Announced' /\ Fresh'
  BY DEF WakeInv, TypeOK, Announced, Fresh, ReceiveChanges, server, NoPull
<1>3. Forward'
  BY DEF WakeInv, TypeOK, Fresh, Forward, ReceiveChanges, server, NoPull
<1>4. WakeKept'
  BY Bounds DEF WakeInv, TypeOK, Announced, Fresh, WakeKept, Full, ReceiveChanges, server, NoPull
<1> QED
  BY <1>1, <1>2, <1>3, <1>4 DEF WakeInv

\* A lost socket leaves the hub.
LEMMA LeaveWake ==
  ASSUME NEW d \in Device, WakeInv, Leave(d)
  PROVE  WakeInv'
<1>1. TypeOK'
  <2>1. <<>> \in Seq(Message)
    OBVIOUS
  <2>2. down' \in [Device -> Seq(Message)]
    BY <2>1 DEF WakeInv, TypeOK, Message, Leave
  <2>3. pull' \in [Device -> [state : {"none", "sent", "answered"}, at : 0..MaxSeq, more : BOOLEAN]]
    BY Bounds DEF WakeInv, TypeOK, Leave, NoPull
  <2>4. faults' \in 0..MaxFaults
    BY Bounds DEF WakeInv, TypeOK, Leave
  <2>5. hub' = {e \in Device : conn'[e] = "open"}
    BY DEF WakeInv, TypeOK, Leave
  <2> QED
    BY <2>1, <2>2, <2>3, <2>4, <2>5, Bounds DEF WakeInv, TypeOK, Message, Leave
<1>2. Announced' /\ Fresh'
  BY DEF WakeInv, TypeOK, Announced, Fresh, Leave, NoPull
<1>3. Forward'
  BY DEF WakeInv, TypeOK, Fresh, Forward, Leave, NoPull
<1>4. WakeKept'
  BY Bounds DEF WakeInv, TypeOK, Announced, Fresh, WakeKept, Full, Leave, NoPull
<1> QED
  BY <1>1, <1>2, <1>3, <1>4 DEF WakeInv

-----------------------------------------------------------------------------
(* The invariant, and what follows from it.                                *)

\* Each step of the specification keeps the invariant.
LEMMA NextWake == WakeInv /\ [Next]_vars => WakeInv'
<1> SUFFICES ASSUME WakeInv, [Next]_vars PROVE WakeInv'
  OBVIOUS
<1>1. CASE Commit
  BY <1>1, CommitWake
<1>2. CASE NotifySync
  BY <1>2, NotifyWake
<1>3. ASSUME NEW d \in Device, SignIn(d) PROVE WakeInv'
  BY <1>3, AuthWake, HubAddWake DEF SignIn
<1>4. ASSUME NEW d \in Device, Loop(d) PROVE WakeInv'
  BY <1>4, WakeWake, SwapWake, ReadWake, SendWake DEF Loop
<1>5. ASSUME NEW d \in Device, ServePull(d) PROVE WakeInv'
  BY <1>5, ServePullWake
<1>6. ASSUME NEW d \in Device, Receive(d) PROVE WakeInv'
  BY <1>6, ReadyWake, TakePullWake, ChangesWake DEF Receive
<1>7. ASSUME NEW d \in Device, Leave(d) PROVE WakeInv'
  BY <1>7, LeaveWake
<1>8. CASE UNCHANGED vars
  BY <1>8 DEF vars, WakeInv, TypeOK, Announced, Fresh, Forward, WakeKept, Full
<1> QED
  BY <1>1, <1>2, <1>3, <1>4, <1>5, <1>6, <1>7, <1>8 DEF Next

\* The inductive invariant holds in every state.
THEOREM WakeInvariant == Spec => []WakeInv
<1> QED
  BY InitWake, NextWake, PTL DEF Spec

\* Every state is well typed, and the hub holds the open sockets and no other.
THEOREM StreamTypeCorrect == Spec => []TypeOK
<1>1. WakeInv => TypeOK
  BY DEF WakeInv
<1> QED
  BY <1>1, WakeInvariant, PTL

\* notifySync's wake-ups are never lost: a change announced to a registered socket
\* and not delivered yet has a wake-up to come or a loop at work on it.
THEOREM WakeNeverLost == Spec => []WakeKept
<1>1. WakeInv => WakeKept
  BY DEF WakeInv
<1> QED
  BY <1>1, WakeInvariant, PTL

-----------------------------------------------------------------------------
(* No gap.  A page starts after what was delivered before it, so everything  *)
(* below its start is at the device, coming with its pull, or in the pages   *)
(* queued ahead of it.                                                       *)

\* The changes up to x are at a device whose cursor is c, in its pull p, or in the first
\* n of its messages ms.
Covered(c, p, ms, x, n) ==
  \/ x <= c
  \/ p.state # "none" /\ x <= p.at
  \/ \E j \in 1..n : ~ms[j].ready /\ x <= ms[j].cursor

\* Only an open socket has messages or a pull on their way.
Quiet(d) == conn[d] # "open" => down[d] = <<>> /\ pull[d].state = "none"

\* "ready" comes first, before any pull.
ReadyFirst(d) ==
  \A i \in 1..Len(down[d]) : down[d][i].ready => i = 1 /\ pull[d].state = "none"

\* Every page starts where those before it lead.
PagesFollow(d) ==
  \A i \in 1..Len(down[d]) : ~down[d][i].ready => Covered(cursor[d], pull[d], down[d], down[d][i].after, i - 1)

\* So will the next one.
NextFollows(d) == conn[d] # "closed" => Covered(cursor[d], pull[d], down[d], delivered[d], Len(down[d]))

GapOf(d) == Quiet(d) /\ ReadyFirst(d) /\ PagesFollow(d) /\ NextFollows(d)
GapInv == \A d \in Device : GapOf(d)

\* Types of the parts of a device's state.
LEMMA Typed ==
  ASSUME TypeOK, NEW d \in Device
  PROVE  /\ down[d] \in Seq(Message) /\ Len(down[d]) \in Nat
         /\ \A i \in 1..Len(down[d]) : down[d][i] \in Message
         /\ pull[d] \in [state : {"none", "sent", "answered"}, at : 0..MaxSeq, more : BOOLEAN]
         /\ cursor[d] \in Nat /\ delivered[d] \in 0..MaxSeq /\ page[d] \in Nat
         /\ conn[d] \in {"closed", "auth", "open"}
<1>1. down[d] \in Seq(Message)
  BY DEF TypeOK, Message
<1> QED
  BY <1>1, Bounds DEF TypeOK

\* Initially nothing is on its way.
LEMMA InitGap == Init => GapInv
<1> SUFFICES ASSUME Init, NEW d \in Device PROVE GapOf(d)
  BY DEF GapInv
<1>1. conn[d] = "closed" /\ down[d] = <<>> /\ pull[d].state = "none"
  BY DEF Init, NoPull
<1>2. Len(down[d]) = 0
  BY <1>1
<1> QED
  BY <1>1, <1>2 DEF GapOf, Quiet, ReadyFirst, PagesFollow, NextFollows

\* A device an action leaves alone stays covered.
LEMMA GapKept ==
  ASSUME NEW d \in Device, GapOf(d),
         conn'[d] = conn[d], down'[d] = down[d], pull'[d] = pull[d],
         cursor'[d] = cursor[d], delivered'[d] = delivered[d]
  PROVE  GapOf(d)'
BY DEF GapOf, Quiet, ReadyFirst, PagesFollow, NextFollows, Covered

\* A socket that signs in has delivered what the device has.
LEMMA AuthGap ==
  ASSUME NEW d \in Device, TypeOK, GapOf(d), AuthReads(d)
  PROVE  GapOf(d)'
<1>1. /\ conn[d] = "closed" /\ conn'[d] = "auth" /\ delivered'[d] = cursor[d]
      /\ down'[d] = down[d] /\ pull'[d] = pull[d] /\ cursor'[d] = cursor[d]
  BY DEF TypeOK, AuthReads
<1>2. cursor[d] \in Nat
  BY Typed
<1> QED
  BY <1>1, <1>2 DEF GapOf, Quiet, ReadyFirst, PagesFollow, NextFollows, Covered

\* A socket that registers is sent "ready", alone.
LEMMA HubAddGap ==
  ASSUME NEW d \in Device, TypeOK, GapOf(d), HubAdd(d)
  PROVE  GapOf(d)'
<1> DEFINE ready == [ready |-> TRUE, after |-> 0, cursor |-> read[d]]
<1>1. /\ conn[d] = "auth" /\ conn'[d] = "open" /\ delivered'[d] = delivered[d]
      /\ down'[d] = <<ready>> /\ pull'[d] = pull[d] /\ cursor'[d] = cursor[d]
  BY DEF TypeOK, HubAdd
<1>2. down[d] = <<>> /\ pull[d].state = "none"
  BY <1>1 DEF GapOf, Quiet
<1>3. Covered(cursor[d], pull[d], down[d], delivered[d], 0)
  BY <1>1, <1>2 DEF GapOf, NextFollows
<1>4. delivered[d] <= cursor[d]
  BY <1>2, <1>3 DEF Covered
<1>5. Len(down'[d]) = 1 /\ down'[d][1].ready
  BY <1>1
<1> QED
  BY <1>1, <1>2, <1>4, <1>5 DEF GapOf, Quiet, ReadyFirst, PagesFollow, NextFollows, Covered

\* A page sent starts after what was delivered, and is delivered then.
LEMMA SendGap ==
  ASSUME NEW d \in Device, WakeInv, GapOf(d), SendPage(d)
  PROVE  GapOf(d)'
<1> DEFINE msg == [ready |-> FALSE, after |-> delivered[d], cursor |-> page[d]]
<1>1. /\ conn'[d] = conn[d] /\ delivered'[d] = page[d]
      /\ pull'[d] = pull[d] /\ cursor'[d] = cursor[d]
  BY DEF WakeInv, TypeOK, SendPage, Reached
<1>2. conn[d] = "open"
  <2>1. loop[d] = "sending"
    BY DEF SendPage
  <2> QED
    BY <2>1 DEF WakeInv, Fresh
<1>3. Covered(cursor[d], pull[d], down[d], delivered[d], Len(down[d]))
  BY <1>2 DEF GapOf, NextFollows
<1>4. /\ page[d] \in Nat /\ delivered[d] \in Nat /\ cursor[d] \in Nat
      /\ down[d] \in Seq(Message) /\ Len(down[d]) \in Nat
      /\ pull[d].at \in Nat
  BY Typed, Bounds DEF WakeInv
<1>5. page[d] >= delivered[d]
  BY DEF WakeInv, Forward, SendPage
<1>6. CASE page[d] <= delivered[d]
  <2>1. down'[d] = down[d] /\ delivered'[d] = delivered[d]
    BY <1>1, <1>4, <1>5, <1>6 DEF SendPage
  <2> QED
    BY <1>1, <2>1, GapKept
<1>7. CASE ~(page[d] <= delivered[d])
  <2>1. down'[d] = Append(down[d], msg)
    BY <1>7 DEF WakeInv, TypeOK, SendPage
  <2>2. /\ Len(down'[d]) = Len(down[d]) + 1
        /\ \A i \in 1..Len(down[d]) : down'[d][i] = down[d][i]
        /\ down'[d][Len(down[d]) + 1] = msg
    BY <2>1, <1>4
  <2>3. ASSUME NEW x, NEW n \in 0..Len(down[d]), Covered(cursor[d], pull[d], down[d], x, n)
        PROVE  Covered(cursor'[d], pull'[d], down'[d], x, n)
    <3>1. \A j \in 1..n : down'[d][j] = down[d][j]
      BY <2>2, <1>4
    <3> QED
      BY <1>1, <2>3, <3>1 DEF Covered
  <2>7. \A i \in 1..Len(down'[d]) : i \in 1..Len(down[d]) \/ i = Len(down[d]) + 1
    BY <2>2, <1>4
  <2>4. Quiet(d)' /\ ReadyFirst(d)'
    <3>1. Quiet(d)'
      BY <1>1, <1>2 DEF Quiet
    <3>2. \A i \in 1..Len(down'[d]) : down'[d][i].ready => i \in 1..Len(down[d]) /\ down[d][i].ready
      BY <2>2, <2>7
    <3>3. ReadyFirst(d)'
      BY <1>1, <3>2 DEF GapOf, ReadyFirst
    <3> QED
      BY <3>1, <3>3
  <2>5. PagesFollow(d)'
    <3> SUFFICES ASSUME NEW i \in 1..Len(down'[d]), ~down'[d][i].ready
                 PROVE  Covered(cursor'[d], pull'[d], down'[d], down'[d][i].after, i - 1)
      BY DEF PagesFollow
    <3>1. CASE i \in 1..Len(down[d])
      <4>1. Covered(cursor[d], pull[d], down[d], down[d][i].after, i - 1)
        BY <3>1, <2>2 DEF GapOf, PagesFollow
      <4>2. i - 1 \in 0..Len(down[d])
        BY <3>1, <1>4
      <4>3. Covered(cursor'[d], pull'[d], down'[d], down[d][i].after, i - 1)
        BY <4>1, <4>2, <2>3, <3>1, <2>2
      <4> QED
        BY <4>3, <3>1, <2>2
    <3>2. CASE i = Len(down[d]) + 1
      <4>1. down'[d][i].after = delivered[d] /\ i - 1 = Len(down[d])
        BY <3>2, <2>2, <1>4
      <4>2. Covered(cursor'[d], pull'[d], down'[d], delivered[d], Len(down[d]))
        BY <1>3, <1>4, <2>3
      <4>3. Covered(cursor'[d], pull'[d], down'[d], msg.after, Len(down[d]))
        BY <4>2, <1>1, <1>3, <1>4, <2>2 DEF Covered
      <4> QED
        BY <4>1, <4>3
    <3> QED
      BY <3>1, <3>2, <2>7
  <2>6. NextFollows(d)'
    <3>1. ~down'[d][Len(down'[d])].ready /\ page[d] <= down'[d][Len(down'[d])].cursor
      BY <2>2, <1>4
    <3>2. Len(down'[d]) \in 1..Len(down'[d])
      BY <2>2, <1>4
    <3> QED
      BY <3>1, <3>2, <1>1 DEF NextFollows, Covered
  <2> QED
    BY <2>4, <2>5, <2>6 DEF GapOf
<1> QED
  BY <1>6, <1>7

\* What a pull answers is delivered with it.
LEMMA ServePullGap ==
  ASSUME NEW d \in Device, TypeOK, GapOf(d), ServePull(d)
  PROVE  GapOf(d)'
<1> DEFINE end == PageEnd(pull[d].at)
<1>1. /\ conn'[d] = conn[d] /\ cursor'[d] = cursor[d] /\ down'[d] = down[d]
      /\ delivered'[d] = IF delivered[d] < end THEN end ELSE delivered[d]
      /\ pull'[d].state = "answered" /\ pull'[d].at = end
  BY DEF TypeOK, ServePull
<1>2. conn[d] = "open" /\ pull[d].state = "sent"
  BY DEF ServePull, Free
<1>3. /\ pull[d].at \in 0..MaxSeq /\ pull[d].at \in Nat /\ seq \in 0..MaxSeq
      /\ delivered[d] \in Nat /\ Len(down[d]) \in Nat
      /\ \A i \in 1..Len(down[d]) : down[d][i].after \in Nat
  <2>1. seq \in 0..MaxSeq
    BY DEF TypeOK
  <2>2. /\ pull[d].at \in 0..MaxSeq /\ pull[d].at \in Nat
        /\ delivered[d] \in Nat /\ Len(down[d]) \in Nat
    BY Typed, Bounds
  <2>3. \A i \in 1..Len(down[d]) : down[d][i].after \in Nat
    <3>1. \A i \in 1..Len(down[d]) : down[d][i] \in Message
      BY Typed
    <3> QED
      BY <3>1, Bounds DEF Message
  <2> QED
    BY <2>1, <2>2, <2>3
<1>4. end \in Nat /\ end >= pull[d].at
  <2>1. PageEnd(pull[d].at) \in 0..MaxSeq /\ PageEnd(pull[d].at) >= pull[d].at
    BY <1>3, PageEndBounds
  <2> QED
    BY <2>1, Bounds
<1>5. ASSUME NEW x \in Nat, NEW n, Covered(cursor[d], pull[d], down[d], x, n)
      PROVE  Covered(cursor'[d], pull'[d], down'[d], x, n)
  BY <1>1, <1>2, <1>3, <1>4, <1>5 DEF Covered
<1>6. Quiet(d)' /\ ReadyFirst(d)'
  BY <1>1, <1>2 DEF GapOf, Quiet, ReadyFirst
<1>7. PagesFollow(d)'
  <2> SUFFICES ASSUME NEW i \in 1..Len(down[d]), ~down[d][i].ready
               PROVE  Covered(cursor'[d], pull'[d], down'[d], down[d][i].after, i - 1)
    BY <1>1 DEF PagesFollow, Covered
  <2>1. Covered(cursor[d], pull[d], down[d], down[d][i].after, i - 1)
    BY DEF GapOf, PagesFollow
  <2> QED
    BY <2>1, <1>3, <1>1, <1>2, <1>4 DEF Covered
<1>8. NextFollows(d)'
  <2>1. Covered(cursor[d], pull[d], down[d], delivered[d], Len(down[d]))
    BY <1>2 DEF GapOf, NextFollows
  <2> QED
    BY <2>1, <1>1, <1>2, <1>3, <1>4 DEF NextFollows, Covered
<1> QED
  BY <1>6, <1>7, <1>8 DEF GapOf

\* A device behind "ready" pulls from where it is.
LEMMA ReadyGap ==
  ASSUME NEW d \in Device, TypeOK, GapOf(d), ReceiveReady(d)
  PROVE  GapOf(d)'
<1>1. /\ conn'[d] = conn[d] /\ cursor'[d] = cursor[d] /\ delivered'[d] = delivered[d]
      /\ down[d] # <<>> /\ Head(down[d]).ready /\ down'[d] = Tail(down[d])
  BY DEF TypeOK, ReceiveReady, server
<1>2. /\ down[d] \in Seq(Message) /\ Len(down[d]) \in Nat
      /\ cursor[d] \in Nat /\ delivered[d] \in Nat
  BY Typed, Bounds
<1>3. /\ Len(down'[d]) = Len(down[d]) - 1 /\ Len(down[d]) >= 1
      /\ \A i \in 1..Len(down'[d]) : down'[d][i] = down[d][i + 1]
      /\ down[d][1] = Head(down[d])
  BY <1>1, <1>2
<1>4. pull[d].state = "none" /\ down[d][1].ready
  <2>1. down[d][1].ready /\ 1 \in 1..Len(down[d])
    BY <1>1, <1>2, <1>3
  <2> QED
    BY <2>1 DEF GapOf, ReadyFirst
<1>5. conn[d] = "open"
  BY <1>1 DEF GapOf, Quiet
<1>6. \A i \in 1..Len(down'[d]) : ~down'[d][i].ready
  <2>1. \A i \in 1..Len(down'[d]) : i + 1 \in 1..Len(down[d]) /\ i + 1 # 1
    BY <1>2, <1>3
  <2> QED
    BY <2>1, <1>3 DEF GapOf, ReadyFirst
<1>7. ASSUME NEW x, NEW n \in 1..Len(down[d]), Covered(cursor[d], pull[d], down[d], x, n)
      PROVE  Covered(cursor'[d], pull'[d], down'[d], x, n - 1)
  <2>1. CASE x <= cursor[d]
    BY <2>1, <1>1 DEF Covered
  <2>2. CASE \E j \in 1..n : ~down[d][j].ready /\ x <= down[d][j].cursor
    <3>1. PICK j \in 1..n : ~down[d][j].ready /\ x <= down[d][j].cursor
      BY <2>2
    <3>2. j # 1
      BY <3>1, <1>4
    <3>3. j - 1 \in 1..(n - 1) /\ j - 1 \in 1..Len(down'[d]) /\ (j - 1) + 1 = j
      BY <3>1, <3>2, <1>2, <1>3
    <3>4. down'[d][j - 1] = down[d][j]
      BY <3>3, <1>3
    <3> QED
      BY <3>1, <3>3, <3>4 DEF Covered
  <2> QED
    BY <2>1, <2>2, <1>4, <1>7 DEF Covered
<1>8. PagesFollow(d)'
  <2> SUFFICES ASSUME NEW i \in 1..Len(down'[d])
               PROVE  Covered(cursor'[d], pull'[d], down'[d], down'[d][i].after, i - 1)
    BY DEF PagesFollow
  <2>1. i + 1 \in 1..Len(down[d]) /\ i \in 1..Len(down[d]) /\ (i + 1) - 1 = i
    BY <1>2, <1>3
  <2>2. ~down[d][i + 1].ready
    BY <1>3, <1>6
  <2>3. Covered(cursor[d], pull[d], down[d], down[d][i + 1].after, i)
    BY <2>1, <2>2 DEF GapOf, PagesFollow
  <2>4. Covered(cursor'[d], pull'[d], down'[d], down[d][i + 1].after, i - 1)
    BY <2>3, <2>1, <1>7
  <2> QED
    BY <2>4, <1>3
<1>9. NextFollows(d)'
  <2>1. Covered(cursor[d], pull[d], down[d], delivered[d], Len(down[d]))
    BY <1>5 DEF GapOf, NextFollows
  <2>2. Len(down[d]) \in 1..Len(down[d])
    BY <1>2, <1>3
  <2>3. Covered(cursor'[d], pull'[d], down'[d], delivered[d], Len(down[d]) - 1)
    BY <2>1, <2>2, <1>7
  <2> QED
    BY <2>3, <1>1, <1>3 DEF NextFollows
<1>10. Quiet(d)' /\ ReadyFirst(d)'
  BY <1>1, <1>5, <1>6 DEF Quiet, ReadyFirst
<1> QED
  BY <1>8, <1>9, <1>10 DEF GapOf

\* A pull's last page takes the device as far as the pull went.
LEMMA TakePullGap ==
  ASSUME NEW d \in Device, TypeOK, GapOf(d), TakePull(d)
  PROVE  GapOf(d)'
<1>1. /\ conn'[d] = conn[d] /\ down'[d] = down[d] /\ delivered'[d] = delivered[d]
      /\ pull[d].state = "answered"
  BY DEF TypeOK, TakePull, server
<1>2. /\ pull[d].at \in Nat /\ cursor[d] \in Nat /\ delivered[d] \in Nat
  BY Typed, Bounds
<1>3. \A i \in 1..Len(down[d]) : down[d][i].after \in Nat
  <2>1. \A i \in 1..Len(down[d]) : down[d][i] \in Message
    BY Typed
  <2> QED
    BY <2>1, Bounds DEF Message
<1>4. conn[d] = "open"
  BY <1>1 DEF GapOf, Quiet
<1>5. ~\E i \in 1..Len(down[d]) : down[d][i].ready
  BY <1>1 DEF GapOf, ReadyFirst
<1>6. \/ pull'[d].state # "none" /\ pull'[d].at = pull[d].at /\ cursor'[d] = cursor[d]
      \/ cursor'[d] \in Nat /\ cursor'[d] >= pull[d].at /\ cursor'[d] >= cursor[d]
  <2>1. CASE pull[d].more
    BY <2>1, <1>1 DEF TypeOK, TakePull
  <2>2. CASE ~pull[d].more
    <3>1. cursor'[d] = IF cursor[d] < pull[d].at THEN pull[d].at ELSE cursor[d]
      BY <2>2 DEF TypeOK, TakePull
    <3> QED
      BY <3>1, <1>2
  <2> QED
    BY <2>1, <2>2
<1>7. ASSUME NEW x \in Nat, NEW n, Covered(cursor[d], pull[d], down[d], x, n)
      PROVE  Covered(cursor'[d], pull'[d], down'[d], x, n)
  <2>1. CASE pull'[d].state # "none" /\ pull'[d].at = pull[d].at /\ cursor'[d] = cursor[d]
    BY <2>1, <1>1, <1>7 DEF Covered
  <2>2. CASE cursor'[d] \in Nat /\ cursor'[d] >= pull[d].at /\ cursor'[d] >= cursor[d]
    <3>1. CASE x <= cursor[d] \/ x <= pull[d].at
      <4>1. x <= cursor'[d]
        BY <3>1, <2>2, <1>2
      <4> QED
        BY <4>1 DEF Covered
    <3>2. CASE \E j \in 1..n : ~down[d][j].ready /\ x <= down[d][j].cursor
      BY <3>2, <1>1 DEF Covered
    <3> QED
      BY <3>1, <3>2, <1>7 DEF Covered
  <2> QED
    BY <2>1, <2>2, <1>6
<1>8. PagesFollow(d)'
  <2> SUFFICES ASSUME NEW i \in 1..Len(down[d]), ~down[d][i].ready
               PROVE  Covered(cursor'[d], pull'[d], down'[d], down[d][i].after, i - 1)
    BY <1>1 DEF PagesFollow
  <2>1. Covered(cursor[d], pull[d], down[d], down[d][i].after, i - 1)
    BY DEF GapOf, PagesFollow
  <2> QED
    BY <2>1, <1>3, <1>7
<1>9. NextFollows(d)'
  <2>1. Covered(cursor[d], pull[d], down[d], delivered[d], Len(down[d]))
    BY <1>4 DEF GapOf, NextFollows
  <2>2. Covered(cursor'[d], pull'[d], down'[d], delivered[d], Len(down[d]))
    BY <2>1, <1>2, <1>7
  <2> QED
    BY <2>2, <1>1 DEF NextFollows
<1>10. Quiet(d)' /\ ReadyFirst(d)'
  BY <1>1, <1>4, <1>5 DEF Quiet, ReadyFirst
<1> QED
  BY <1>8, <1>9, <1>10 DEF GapOf

\* A page streamed is merged: it starts where the device is.
LEMMA ChangesGap ==
  ASSUME NEW d \in Device, TypeOK, GapOf(d), ReceiveChanges(d)
  PROVE  GapOf(d)'
<1> DEFINE h == Head(down[d])
<1>1. /\ conn'[d] = conn[d] /\ delivered'[d] = delivered[d]
      /\ down[d] # <<>> /\ ~h.ready /\ down'[d] = Tail(down[d])
      /\ pull[d].state = "none"
  BY DEF TypeOK, ReceiveChanges, server
<1>2. /\ down[d] \in Seq(Message) /\ Len(down[d]) \in Nat
      /\ cursor[d] \in Nat /\ delivered[d] \in Nat
  BY Typed, Bounds
<1>3. /\ Len(down'[d]) = Len(down[d]) - 1 /\ Len(down[d]) >= 1
      /\ \A i \in 1..Len(down'[d]) : down'[d][i] = down[d][i + 1]
      /\ down[d][1] = h
  BY <1>1, <1>2
<1>4. \A i \in 1..Len(down[d]) : down[d][i].after \in Nat /\ down[d][i].cursor \in Nat
  <2>1. \A i \in 1..Len(down[d]) : down[d][i] \in Message
    BY Typed
  <2> QED
    BY <2>1, Bounds DEF Message
<1>5. h.after <= cursor[d] /\ h.after \in Nat /\ h.cursor \in Nat
  <2>1. 1 \in 1..Len(down[d])
    BY <1>2, <1>3
  <2>2. Covered(cursor[d], pull[d], down[d], h.after, 1 - 1)
    BY <2>1, <1>1, <1>3 DEF GapOf, PagesFollow
  <2>3. h.after <= cursor[d]
    BY <2>2, <1>1 DEF Covered
  <2> QED
    BY <2>1, <2>3, <1>3, <1>4
<1>6. pull' = pull /\ cursor'[d] \in Nat /\ cursor'[d] >= cursor[d] /\ cursor'[d] >= h.cursor
  <2>1. ~(h.after > cursor[d])
    BY <1>2, <1>5
  <2>2. CASE h.cursor <= cursor[d]
    BY <2>2, <1>2, <1>5 DEF ReceiveChanges
  <2>3. CASE ~(h.cursor <= cursor[d])
    <3>1. pull' = pull /\ cursor' = [cursor EXCEPT ![d] = h.cursor]
      BY <2>1, <2>3 DEF ReceiveChanges
    <3>2. cursor'[d] = h.cursor
      BY <3>1 DEF TypeOK
    <3> QED
      BY <3>1, <3>2, <2>3, <1>2, <1>5
  <2> QED
    BY <2>2, <2>3
<1>7. conn[d] = "open"
  BY <1>1 DEF GapOf, Quiet
<1>8. \A i \in 1..Len(down'[d]) : ~down'[d][i].ready
  <2>1. \A i \in 1..Len(down'[d]) : i + 1 \in 1..Len(down[d]) /\ i + 1 # 1
    BY <1>2, <1>3
  <2> QED
    BY <2>1, <1>3 DEF GapOf, ReadyFirst
<1>9. ASSUME NEW x \in Nat, NEW n \in 1..Len(down[d]), Covered(cursor[d], pull[d], down[d], x, n)
      PROVE  Covered(cursor'[d], pull'[d], down'[d], x, n - 1)
  <2>1. CASE x <= cursor[d]
    <3>1. x <= cursor'[d]
      BY <2>1, <1>2, <1>6
    <3> QED
      BY <3>1 DEF Covered
  <2>2. CASE \E j \in 1..n : ~down[d][j].ready /\ x <= down[d][j].cursor
    <3>1. PICK j \in 1..n : ~down[d][j].ready /\ x <= down[d][j].cursor
      BY <2>2
    <3>2. CASE j = 1
      <4>1. x <= cursor'[d]
        BY <3>1, <3>2, <1>3, <1>5, <1>6
      <4> QED
        BY <4>1 DEF Covered
    <3>3. CASE j # 1
      <4>1. j - 1 \in 1..(n - 1) /\ j - 1 \in 1..Len(down'[d]) /\ (j - 1) + 1 = j
        BY <3>1, <3>3, <1>2, <1>3
      <4>2. down'[d][j - 1] = down[d][j]
        BY <4>1, <1>3
      <4> QED
        BY <3>1, <4>1, <4>2 DEF Covered
    <3> QED
      BY <3>2, <3>3
  <2> QED
    BY <2>1, <2>2, <1>1, <1>9 DEF Covered
<1>10. PagesFollow(d)'
  <2> SUFFICES ASSUME NEW i \in 1..Len(down'[d])
               PROVE  Covered(cursor'[d], pull'[d], down'[d], down'[d][i].after, i - 1)
    BY DEF PagesFollow
  <2>1. i + 1 \in 1..Len(down[d]) /\ i \in 1..Len(down[d]) /\ (i + 1) - 1 = i
    BY <1>2, <1>3
  <2>2. ~down[d][i + 1].ready
    BY <1>3, <1>8
  <2>3. Covered(cursor[d], pull[d], down[d], down[d][i + 1].after, i)
    BY <2>1, <2>2 DEF GapOf, PagesFollow
  <2>4. Covered(cursor'[d], pull'[d], down'[d], down[d][i + 1].after, i - 1)
    BY <2>3, <2>1, <1>4, <1>9
  <2> QED
    BY <2>4, <1>3
<1>11. NextFollows(d)'
  <2>1. Covered(cursor[d], pull[d], down[d], delivered[d], Len(down[d]))
    BY <1>7 DEF GapOf, NextFollows
  <2>2. Len(down[d]) \in 1..Len(down[d])
    BY <1>2, <1>3
  <2>3. Covered(cursor'[d], pull'[d], down'[d], delivered[d], Len(down[d]) - 1)
    BY <2>1, <2>2, <1>2, <1>9
  <2> QED
    BY <2>3, <1>1, <1>3 DEF NextFollows
<1>12. Quiet(d)' /\ ReadyFirst(d)'
  BY <1>1, <1>7, <1>8 DEF Quiet, ReadyFirst
<1> QED
  BY <1>10, <1>11, <1>12 DEF GapOf

\* A lost socket takes with it what was on its way.
LEMMA LeaveGap ==
  ASSUME NEW d \in Device, TypeOK, GapOf(d), Leave(d)
  PROVE  GapOf(d)'
<1>1. conn'[d] = "closed" /\ down'[d] = <<>> /\ pull'[d].state = "none"
  BY DEF TypeOK, Leave, NoPull
<1>2. Len(down'[d]) = 0
  BY <1>1
<1> QED
  BY <1>1, <1>2 DEF GapOf, Quiet, ReadyFirst, PagesFollow, NextFollows

\* An action of a device leaves the others' state alone.
LEMMA OthersKept ==
  ASSUME TypeOK, NEW e \in Device, NEW d \in Device \ {e}, GapOf(d),
         SignIn(e) \/ Loop(e) \/ ServePull(e) \/ Receive(e) \/ Leave(e)
  PROVE  GapOf(d)'
<1>1. CASE SignIn(e)
  BY <1>1, GapKept DEF SignIn, AuthReads, HubAdd, TypeOK
<1>2. CASE Loop(e)
  <2>1. CASE Wake(e) \/ SwapPending(e) \/ ReadPage(e)
    BY <2>1, GapKept DEF Wake, SwapPending, ReadPage, TypeOK
  <2>2. CASE SendPage(e)
    BY <2>2, GapKept DEF SendPage, TypeOK
  <2> QED
    BY <1>2, <2>1, <2>2 DEF Loop
<1>3. CASE ServePull(e)
  BY <1>3, GapKept DEF ServePull, TypeOK
<1>4. CASE Receive(e)
  <2>1. CASE ReceiveReady(e)
    BY <2>1, GapKept DEF ReceiveReady, server, TypeOK
  <2>2. CASE TakePull(e)
    BY <2>2, GapKept DEF TakePull, server, TypeOK
  <2>3. CASE ReceiveChanges(e)
    BY <2>3, GapKept DEF ReceiveChanges, server, TypeOK
  <2> QED
    BY <1>4, <2>1, <2>2, <2>3 DEF Receive
<1>5. CASE Leave(e)
  BY <1>5, GapKept DEF Leave, TypeOK
<1> QED
  BY <1>1, <1>2, <1>3, <1>4, <1>5

\* The steps of a device's loop that send nothing.
LEMMA QuietLoopGap ==
  ASSUME NEW d \in Device, GapOf(d), Wake(d) \/ SwapPending(d) \/ ReadPage(d)
  PROVE  GapOf(d)'
BY GapKept DEF Wake, SwapPending, ReadPage

\* Each step of the specification keeps every device covered.
LEMMA NextGap == WakeInv /\ GapInv /\ [Next]_vars => GapInv'
<1> SUFFICES ASSUME WakeInv, GapInv, [Next]_vars, NEW d \in Device PROVE GapOf(d)'
  BY DEF GapInv
<1>1. TypeOK /\ GapOf(d)
  BY DEF WakeInv, GapInv
<1>2. CASE Commit \/ NotifySync \/ UNCHANGED vars
  BY <1>1, <1>2, GapKept DEF Commit, NotifySync, vars
<1>3. ASSUME NEW e \in Device, SignIn(e) \/ Loop(e) \/ ServePull(e) \/ Receive(e) \/ Leave(e)
      PROVE  GapOf(d)'
  <2>1. CASE e # d
    BY <1>1, <1>3, <2>1, OthersKept
  <2>2. CASE e = d
    <3>1. CASE SignIn(d)
      BY <1>1, <3>1, AuthGap, HubAddGap DEF SignIn
    <3>2. CASE Loop(d)
      BY <1>1, <3>2, SendGap, QuietLoopGap DEF Loop
    <3>3. CASE ServePull(d)
      BY <1>1, <3>3, ServePullGap
    <3>4. CASE Receive(d)
      BY <1>1, <3>4, ReadyGap, TakePullGap, ChangesGap DEF Receive
    <3>5. CASE Leave(d)
      BY <1>1, <3>5, LeaveGap
    <3> QED
      BY <1>3, <2>2, <3>1, <3>2, <3>3, <3>4, <3>5
  <2> QED
    BY <2>1, <2>2
<1> QED
  BY <1>2, <1>3 DEF Next

\* What a socket streams never starts past what the device has: pages streamed and
\* pages pulled over one socket, in whatever order they come, leave no gap.
THEOREM StreamLeavesNoGap == Spec => []NoGap
<1>1. GapInv /\ TypeOK => NoGap
  <2> SUFFICES ASSUME GapInv, TypeOK, NEW d \in Device,
                      down[d] # <<>>, ~Head(down[d]).ready, pull[d].state = "none"
               PROVE  Head(down[d]).after <= cursor[d]
    BY DEF NoGap
  <2>1. 1 \in 1..Len(down[d]) /\ down[d][1] = Head(down[d])
    BY Typed
  <2>2. Covered(cursor[d], pull[d], down[d], Head(down[d]).after, 1 - 1)
    BY <2>1 DEF GapInv, GapOf, PagesFollow
  <2> QED
    BY <2>2 DEF Covered
<1>2. Spec => []GapInv
  <2>1. Spec => []WakeInv
    BY WakeInvariant
  <2> QED
    BY <2>1, InitGap, NextGap, PTL DEF Spec
<1> QED
  BY <1>1, <1>2, StreamTypeCorrect, PTL

=============================================================================
