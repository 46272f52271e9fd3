------------------------- MODULE PracticeSync_proofs -------------------------
(***************************************************************************)
(* Proofs about PracticeSync, for any number of operations, solves, faults *)
(* and messages: whatever is lost, late or sent again, a solve is made     *)
(* once, and no operation leaves the outbox before the server has it; one  *)
(* edit at a time, operations are applied in their order; and, with one    *)
(* transport at a time and a server that answers and refuses nothing, the  *)
(* device's copy is what it has read of the account.                       *)
(***************************************************************************)
EXTENDS PracticeSync, SequenceTheorems, FiniteSetTheorems, TLAPS

\* Operations in the order they were made.
Rising(q) == \A i, j \in DOMAIN q : i < j => q[i].id < q[j].id

Request == [id : Ops, kind : {"solve", "edit", "delete"}, local : Local, val : Value, sid : Sid \cup {0}]

\* What a push asks of an account of n solves: solves, or one operation on one of them.
Asked(q, n) ==
  /\ q \in Seq(Request) /\ Rising(q)
  /\ Len(q) <= 1 \/ \A i \in DOMAIN q : q[i].kind = "solve"
  /\ \A i \in DOMAIN q :
       IF q[i].kind = "solve" THEN q[i].local = -q[i].id ELSE q[i].sid \in 1..n

\* A page read from an account of n solves.
Paged(p, n) ==
  /\ p = [after |-> p.after, cursor |-> p.cursor, solves |-> p.solves]
  /\ p.after \in Nat /\ p.cursor \in Nat
  /\ DOMAIN p.solves \subseteq 1..n /\ p.solves \in [DOMAIN p.solves -> Stored]

\* The local ids there are after o operations made here, in an account of n solves.
Names(o, n) == {-i : i \in 1..o} \cup (1..n)

AccountT ==
  /\ ops \in 0..MaxOps
  /\ server \in Seq(Stored) /\ change \in [Made -> Nat] /\ seq \in Nat /\ refused \in Refusals
  /\ receipts \in [DOMAIN receipts -> Made \cup {0}] /\ DOMAIN receipts \subseteq 1..ops
  /\ \A s \in Made : server[s].by # 0 => server[s].by \in DOMAIN receipts
  /\ Cardinality({s \in Made : server[s].by = 0}) <= MaxAdd
  /\ CreatedOnce

RowsT(n) ==
  /\ rows \in [DOMAIN rows -> Row] /\ DOMAIN rows \subseteq Names(ops, n)
  /\ \A x \in DOMAIN rows : rows[x].sid \in 0..n /\ (x > 0 => rows[x].sid = x)

OutboxT(n) ==
  /\ outbox \in Seq(Operation) /\ Rising(outbox)
  /\ \A i \in DOMAIN outbox :
       /\ outbox[i].id <= ops /\ outbox[i].local \in Names(outbox[i].id, n)
       /\ outbox[i].kind = "solve" => outbox[i].local = -outbox[i].id

SyncT(n) ==
  /\ sync \in [phase : {"idle", "loop", "push", "pull"}, via : {"http", "socket"}, batching : BOOLEAN]
  /\ wire = [state |-> wire.state, req |-> wire.req, answer |-> wire.answer, page |-> wire.page]
  /\ wire.state \in {"none", "sent", "answered", "error", "busy"}
  /\ (sync.phase \in {"push", "pull"}) <=> (wire.state # "none")
  /\ (sync.phase = "push") <=> (wire.req # <<>>)
  /\ Paged(wire.page, n)
  /\ wire.state = "answered" /\ sync.phase = "push" =>
       /\ wire.answer \in [DOMAIN wire.req -> 0..n]
       /\ \A i \in DOMAIN wire.req : wire.req[i].id \in DOMAIN receipts /\ wire.answer[i] = receipts[wire.req[i].id]

\* What comes down a socket.
Messages(s) == s \in Seq([type : {"ready", "changes", "due"}, page : {m.page : m \in Range(s)}])

LinkT(n) ==
  /\ socket \in [open : BOOLEAN, delivered : Nat, pending : BOOLEAN]
  /\ live \in [on : BOOLEAN, needsPull : BOOLEAN] /\ again \in BOOLEAN
  /\ live.on \/ socket.pending => socket.open
  /\ stream # <<>> => socket.open
  /\ Messages(stream)
  /\ \A i \in DOMAIN stream : Paged(stream[i].page, n)

\* The requests in the server's hands, or on their way to it and back.
Flights == late \cup {wire.req}
FlightsT(n) == \A q \in Flights : Asked(q, n) /\ \A i \in DOMAIN q : q[i].id <= ops

TypeInv ==
  LET n == Len(server)
  IN /\ AccountT /\ cursor \in Nat /\ faults \in 0..MaxFaults
     /\ RowsT(n) /\ OutboxT(n) /\ SyncT(n) /\ LinkT(n) /\ FlightsT(n)

-----------------------------------------------------------------------------
(* Whose solves operations and rows are about, what receipts, refusals and *)
(* pages say, and the order of operations.                                 *)

Flying == UNION {Range(q) : q \in Flights}

\* A solve of the server is that of a row: its own, or the one it was made from.
Owns(x, s) == IF x > 0 THEN s = x ELSE server[s].by = -x

OwnInv ==
  /\ \A x \in DOMAIN rows : rows[x].sid # 0 => Owns(x, rows[x].sid)
  /\ \A o \in Flying : o.kind # "solve" => Owns(o.local, o.sid)
  /\ \A o \in Range(outbox) \cup Flying, p \in Flying : o.id = p.id => o.kind = p.kind /\ o.local = p.local

\* What a receipt says of an operation that is, or may be, asked again.
ReceiptInv ==
  \A o \in Range(outbox) \cup Flying : o.id \in DOMAIN receipts =>
    /\ receipts[o.id] # 0 => Owns(o.local, receipts[o.id])
    /\ IF o.kind = "solve" THEN receipts[o.id] # 0
       ELSE receipts[o.id] = 0 \/ o.kind = "delete" => \E s \in Made : Owns(o.local, s) /\ server[s].gone

\* What was refused is never done, and only that is marked.
RefusedInv ==
  /\ DOMAIN receipts \cap refused = {}
  /\ \A o \in Range(outbox) : o.error => o.id \in refused
  /\ wire.state = "error" /\ Len(wire.req) = 1 => wire.req[1].id \in refused

\* A solve a page says is gone is gone.
Deletions(p) == \A s \in DOMAIN p.solves \cap Made : p.solves[s].gone => server[s].gone
Pages == {wire.page} \cup {stream[i].page : i \in DOMAIN stream}
GoneInv == \A p \in Pages : Deletions(p)

\* The changes of solves that were sent, or done.
Later ==
  {o.id : o \in {o \in Flying : o.kind # "solve"}}
    \cup {p \in DOMAIN receipts : receipts[p] # 0 /\ server[receipts[p]].by # p}

OrderInv ==
  /\ \A o \in Range(outbox) : o.kind # "solve" => o.local # -o.id /\ (o.local > 0 => server[o.local].by < o.id)
  /\ \A o \in Flying : o.kind # "solve" => server[o.sid].by < o.id
  /\ \A p \in Later, o \in Range(outbox) : o.id < p => o.id \in DOMAIN receipts \cup refused
  /\ \A o \in Flying : o.kind # "solve" /\ o.id \notin DOMAIN receipts =>
       server[o.sid].gone \/ \E p \in Range(outbox) : p.id = o.id

\* One transport at a time, and a server that answers and refuses nothing.
Plain == ~Overlap /\ ~Busy /\ Refusals = {{}}

\* What a page tells of the account's changes, up to its end, is so unless changed since.
Tells(p) ==
  /\ p.after <= seq /\ p.cursor <= seq
  /\ \A s \in Made : change[s] <= p.cursor =>
       /\ change[s] > p.after => s \in DOMAIN p.solves
       /\ s \in DOMAIN p.solves => p.solves[s] = server[s]

FeedInv ==
  /\ \A s \in Made : change[s] \in 1..seq
  /\ cursor <= seq /\ socket.delivered <= seq
  /\ \A p \in Pages : Tells(p)
  /\ sync.phase = "pull" => wire.page.after = cursor

\* The socket is ready at once or after a synchronization, which it then carries.
LinkInv ==
  /\ ~again /\ wire.state \notin {"error", "busy"}
  /\ sync.phase # "idle" => (sync.via = "socket" <=> live.on)
  /\ socket.open /\ ~live.on => stream # <<>>
  /\ \A i \in DOMAIN stream : stream[i].type = "ready" <=> i = 1 /\ ~live.on

\* A merge may come: no operation queued was ever sent.
Merging == sync.phase = "pull" \/ (sync.phase = "idle" /\ live.on)

TurnInv ==
  /\ Merging => \A o \in Range(outbox) : o.id \notin DOMAIN receipts /\ \A p \in Flying : p.id # o.id
  /\ sync.phase = "push" => \A w \in Range(wire.req) :
       /\ w.kind # "edit" => \E o \in Range(outbox) : o.id = w.id
       /\ w.kind # "solve" => \A o \in Range(outbox) : o.id >= w.id

\* What a queued operation is of, and what its receipt says.
Queued(o) ==
  /\ o.local \in DOMAIN rows
  /\ o.kind # "solve" => o.local # -o.id
  /\ o.kind = "solve" => rows[o.local].sid = 0
  /\ o.kind = "delete" => rows[o.local].deleted /\ \A p \in Range(outbox) : p.id > o.id => p.local # o.local
  /\ o.id \in DOMAIN receipts /\ receipts[o.id] # 0 => change[receipts[o.id]] > cursor
  /\ o.kind = "solve" /\ o.id \in DOMAIN receipts => \A x \in DOMAIN rows : rows[x].sid # receipts[o.id]
OutboxInv == \A o \in Range(outbox) : Queued(o)

\* A row that shows a solve as the server has it, or has operations on it queued.
Held(s) ==
  \E x \in DOMAIN rows : rows[x].sid = s /\ (x \in Dirty \/ (rows[x].val = server[s].val /\ ~rows[x].deleted))

\* What the device has read is what the account had, but for what is queued.
CopyInv ==
  /\ NoTwins /\ DeletionWins
  /\ \A x \in DOMAIN rows : rows[x].sid = 0 => \E o \in Range(outbox) : o.kind = "solve" /\ o.local = x
  /\ \A s \in Made : change[s] <= cursor /\ ~server[s].gone => Held(s)

-----------------------------------------------------------------------------
(* A part of a sequence, in its order.                                     *)

\* Induction, from the cardinality of finite sets.
LEMMA Induction ==
  ASSUME NEW P \in SUBSET Nat, 0 \in P, \A n \in P : n + 1 \in P
  PROVE  P = Nat
<1> SUFFICES ASSUME NEW m \in Nat, m \notin P PROVE FALSE
  OBVIOUS
<1> DEFINE N == (0..m) \ P
           before == [n \in N |-> n - 1]
<1>1. \A n \in N : n - 1 \in N \ {m} /\ n \in Nat
  OBVIOUS
<1>2. before \in Injection(N, N \ {m})
  <2>1. before \in [N -> N \ {m}]
    BY <1>1
  <2>2. \A n, k \in DOMAIN before : before[n] = before[k] => n = k
    BY <1>1
  <2> QED
    BY <2>1, <2>2 DEF Injection, IsInjective
<1>3. IsFiniteSet(N)
  <2>1. IsFiniteSet(0..m)
    BY FS_Interval
  <2> QED
    BY <2>1, FS_Subset
<1>4. m \in N
  OBVIOUS
<1>5. Cardinality(N \ {m}) = Cardinality(N) - 1 /\ IsFiniteSet(N \ {m}) /\ Cardinality(N) \in Nat
  BY <1>3, <1>4, FS_RemoveElement, FS_CardinalityType
<1>6. Cardinality(N) <= Cardinality(N \ {m})
  BY <1>2, <1>5, FS_Injection
<1> QED
  BY <1>5, <1>6

\* What Keeping makes of the beginnings of q.
Kept(f, q, S, k) ==
  f = [n \in 0..k |-> IF n = 0 THEN <<>> ELSE IF q[n] \in S THEN Append(f[n - 1], q[n]) ELSE f[n - 1]]

LEMMA KeptExists == ASSUME NEW q, NEW S, NEW m \in Nat PROVE \E f : Kept(f, q, S, m)
<1> DEFINE P == {k \in Nat : \E f : Kept(f, q, S, k)}
<1>1. 0 \in P
  <2> DEFINE f == [n \in 0..0 |-> <<>>]
  <2>1. f = [n \in 0..0 |-> IF n = 0 THEN <<>> ELSE IF q[n] \in S THEN Append(f[n - 1], q[n]) ELSE f[n - 1]]
    OBVIOUS
  <2> QED
    BY <2>1 DEF Kept
<1>2. ASSUME NEW k \in P PROVE k + 1 \in P
  <2>1. k \in Nat /\ k + 1 \in Nat
    OBVIOUS
  <2>2. PICK f : Kept(f, q, S, k)
    OBVIOUS
  <2> DEFINE last == IF q[k + 1] \in S THEN Append(f[k], q[k + 1]) ELSE f[k]
             g == [n \in 0..(k + 1) |-> IF n = k + 1 THEN last ELSE f[n]]
  <2>3. ASSUME NEW n \in 0..(k + 1)
        PROVE  g[n] = IF n = 0 THEN <<>> ELSE IF q[n] \in S THEN Append(g[n - 1], q[n]) ELSE g[n - 1]
    <3>1. CASE n = k + 1
      BY <2>1, <3>1
    <3>2. CASE n # k + 1
      <4>1. n \in 0..k /\ n # k + 1 /\ n - 1 # k + 1 /\ (n # 0 => n - 1 \in 0..(k + 1))
        BY <2>1, <3>2
      <4>2. f[n] = IF n = 0 THEN <<>> ELSE IF q[n] \in S THEN Append(f[n - 1], q[n]) ELSE f[n - 1]
        BY <2>2, <4>1 DEF Kept
      <4>3. g[n] = f[n] /\ (n # 0 => g[n - 1] = f[n - 1])
        BY <4>1
      <4> QED
        BY <4>2, <4>3
    <3> QED
      BY <3>1, <3>2
  <2>4. Kept(g, q, S, k + 1)
    BY <2>3 DEF Kept
  <2> QED
    BY <2>1, <2>4
<1>3. P \in SUBSET Nat
  OBVIOUS
<1>4. P = Nat
  <2> HIDE DEF P
  <2> QED
    BY <1>1, <1>2, <1>3, Induction
<1> QED
  BY <1>4

\* at says where each member of s was in q.
Places(at, s, q, S, k) ==
  /\ at \in [1..Len(s) -> 1..k]
  /\ \A i \in 1..Len(s) : s[i] = q[at[i]] /\ s[i] \in S
  /\ \A i, j \in 1..Len(s) : i < j => at[i] < at[j]
  /\ \A j \in 1..k : q[j] \in S => \E i \in 1..Len(s) : at[i] = j

LEMMA KeptPlaces ==
  ASSUME NEW T, NEW q \in Seq(T), NEW S, NEW f, Kept(f, q, S, Len(q)), NEW m \in 0..Len(q)
  PROVE  f[m] \in Seq(T) /\ \E at : Places(at, f[m], q, S, m)
<1> DEFINE P == {k \in Nat : k <= Len(q) => f[k] \in Seq(T) /\ \E at : Places(at, f[k], q, S, k)}
<1>0. \A n \in 0..Len(q) :
        f[n] = IF n = 0 THEN <<>> ELSE IF q[n] \in S THEN Append(f[n - 1], q[n]) ELSE f[n - 1]
  BY DEF Kept
<1>1. 0 \in P
  <2>1. f[0] = <<>>
    <3>1. Len(q) \in Nat /\ 0 \in 0..Len(q)
      OBVIOUS
    <3> QED
      BY <1>0, <3>1
  <2> DEFINE none == [i \in 1..0 |-> i]
  <2>2. Places(none, f[0], q, S, 0)
    BY <2>1 DEF Places
  <2> HIDE DEF none
  <2>3. f[0] \in Seq(T) /\ \E at : Places(at, f[0], q, S, 0)
    BY <2>1, <2>2
  <2> QED
    BY <2>3
<1>2. ASSUME NEW k \in P PROVE k + 1 \in P
  <2> SUFFICES ASSUME k + 1 <= Len(q)
               PROVE  f[k + 1] \in Seq(T) /\ \E at : Places(at, f[k + 1], q, S, k + 1)
    OBVIOUS
  <2>1. k \in Nat /\ k + 1 \in 1..Len(q) /\ q[k + 1] \in T
    OBVIOUS
  <2>2. PICK at : f[k] \in Seq(T) /\ Places(at, f[k], q, S, k)
    BY <2>1
  <2>3. f[k + 1] = IF q[k + 1] \in S THEN Append(f[k], q[k + 1]) ELSE f[k]
    BY <1>0, <2>1
  <2>4. CASE q[k + 1] \in S
    <3>1. PICK s : s = f[k]
      OBVIOUS
    <3> DEFINE on == [i \in 1..(Len(s) + 1) |-> IF i = Len(s) + 1 THEN k + 1 ELSE at[i]]
    <3>2. s \in Seq(T) /\ f[k + 1] = Append(s, q[k + 1]) /\ Places(at, s, q, S, k) /\ Len(s) \in Nat
      BY <2>2, <2>3, <2>4, <3>1
    <3>3. /\ f[k + 1] \in Seq(T) /\ Len(f[k + 1]) = Len(s) + 1
          /\ \A i \in 1..Len(s) : f[k + 1][i] = s[i]
          /\ f[k + 1][Len(s) + 1] = q[k + 1]
      BY <2>1, <3>2
    <3>4. on \in [1..Len(f[k + 1]) -> 1..(k + 1)]
      BY <2>1, <3>2, <3>3 DEF Places
    <3>5. \A i \in 1..Len(f[k + 1]) : f[k + 1][i] = q[on[i]] /\ f[k + 1][i] \in S
      BY <2>1, <2>4, <3>2, <3>3 DEF Places
    <3>6. \A i, j \in 1..Len(f[k + 1]) : i < j => on[i] < on[j]
      <4> SUFFICES ASSUME NEW i \in 1..Len(f[k + 1]), NEW j \in 1..Len(f[k + 1]), i < j PROVE on[i] < on[j]
        OBVIOUS
      <4>1. i \in 1..Len(s) /\ at[i] \in 1..k /\ on[i] = at[i]
        <5>1. i \in 1..Len(s)
          BY <3>2, <3>3
        <5>2. at[i] \in 1..k
          BY <3>2, <5>1 DEF Places
        <5>3. i \in 1..(Len(s) + 1) /\ i # Len(s) + 1
          BY <3>2, <5>1
        <5> QED
          BY <5>1, <5>2, <5>3
      <4>2. CASE j = Len(s) + 1
        BY <2>1, <3>3, <4>1, <4>2
      <4>3. CASE j # Len(s) + 1
        BY <3>2, <3>3, <4>1, <4>3 DEF Places
      <4> QED
        BY <4>2, <4>3
    <3>7. \A j \in 1..(k + 1) : q[j] \in S => \E i \in 1..Len(f[k + 1]) : on[i] = j
      <4> SUFFICES ASSUME NEW j \in 1..(k + 1), q[j] \in S PROVE \E i \in 1..Len(f[k + 1]) : on[i] = j
        OBVIOUS
      <4>1. CASE j = k + 1
        BY <3>2, <3>3, <4>1
      <4>2. CASE j # k + 1
        <5>1. PICK i \in 1..Len(s) : at[i] = j
          BY <2>1, <3>2, <4>2 DEF Places
        <5> QED
          BY <3>2, <3>3, <5>1
      <4> QED
        BY <4>1, <4>2
    <3> HIDE DEF on
    <3>8. PICK t : t = f[k + 1]
      OBVIOUS
    <3>9. Places(on, t, q, S, k + 1)
      BY <3>4, <3>5, <3>6, <3>7, <3>8 DEF Places
    <3> QED
      BY <3>3, <3>8, <3>9
  <2>5. CASE q[k + 1] \notin S
    <3>1. f[k + 1] = f[k]
      BY <2>3, <2>5
    <3>2. Places(at, f[k], q, S, k + 1)
      BY <2>1, <2>2, <2>5 DEF Places
    <3> QED
      BY <2>2, <3>1, <3>2
  <2> QED
    BY <2>4, <2>5
<1>3. P \in SUBSET Nat
  OBVIOUS
<1>4. P = Nat
  <2> HIDE DEF P
  <2> QED
    BY <1>1, <1>2, <1>3, Induction
<1> QED
  BY <1>4

\* Keeping keeps the members that are in the set, each as often, in their order.
LEMMA KeepingIs ==
  ASSUME NEW T, NEW q \in Seq(T), NEW S, NEW s, s = Keeping(q, S)
  PROVE  /\ s \in Seq(T)
         /\ Range(s) = Range(q) \cap S
         /\ \E at \in [DOMAIN s -> DOMAIN q] :
              /\ \A i \in DOMAIN s : s[i] = q[at[i]]
              /\ \A i, j \in DOMAIN s : i < j => at[i] < at[j]
<1> DEFINE f == CHOOSE g : Kept(g, q, S, Len(q))
<1>1. Len(q) \in Nat
  OBVIOUS
<1>2. Kept(f, q, S, Len(q))
  BY <1>1, KeptExists
<1>3. s = f[Len(q)]
  BY DEF Keeping, Kept
<1> HIDE DEF f
<1>4. PICK at : s \in Seq(T) /\ Places(at, s, q, S, Len(q))
  BY <1>1, <1>2, <1>3, KeptPlaces
<1>5. DOMAIN s = 1..Len(s) /\ DOMAIN q = 1..Len(q)
  BY <1>4
<1>6. Range(s) \subseteq Range(q) \cap S
  BY <1>4, <1>5 DEF Places, Range
<1>7. Range(q) \cap S \subseteq Range(s)
  <2> SUFFICES ASSUME NEW j \in 1..Len(q), q[j] \in S PROVE q[j] \in Range(s)
    BY <1>5 DEF Range
  <2>1. PICK i \in 1..Len(s) : at[i] = j
    BY <1>4 DEF Places
  <2>2. s[i] = q[j]
    BY <1>4, <2>1 DEF Places
  <2> QED
    BY <1>5, <2>1, <2>2 DEF Range
<1> QED
  BY <1>4, <1>5, <1>6, <1>7 DEF Places

\* So does its order.
LEMMA KeepingRises ==
  ASSUME NEW T, NEW q \in Seq(T), NEW S, NEW s, s = Keeping(q, S), Rising(q)
  PROVE  Rising(s)
<1>1. PICK at \in [DOMAIN s -> DOMAIN q] :
        /\ \A i \in DOMAIN s : s[i] = q[at[i]]
        /\ \A i, j \in DOMAIN s : i < j => at[i] < at[j]
  BY KeepingIs
<1> QED
  BY <1>1 DEF Rising

-----------------------------------------------------------------------------
(* What a request's transaction does to the account.                       *)

\* The number of a change among those of its transaction.
LEMMA RankIs ==
  ASSUME NEW W, IsFiniteSet(W), NEW s \in W
  PROVE  LET rank == Cardinality({t \in W : t <= s})
         IN s <= s => rank \in Nat /\ 1 <= rank /\ rank <= Cardinality(W) /\ Cardinality(W) \in Nat
<1> SUFFICES ASSUME s <= s
             PROVE  LET rank == Cardinality({t \in W : t <= s})
                    IN rank \in Nat /\ 1 <= rank /\ rank <= Cardinality(W) /\ Cardinality(W) \in Nat
  OBVIOUS
<1> DEFINE U == {t \in W : t <= s}
<1>1. U \subseteq W /\ s \in U
  OBVIOUS
<1> HIDE DEF U
<1>2. IsFiniteSet(U) /\ Cardinality(U) <= Cardinality(W)
  BY <1>1, FS_Subset
<1>3. Cardinality(U) \in Nat /\ Cardinality(W) \in Nat
  BY <1>2, FS_CardinalityType
<1>4. Cardinality(U) # 0
  BY <1>1, <1>2, FS_EmptySet
<1> QED
  BY <1>2, <1>3, <1>4 DEF U

\* The operations of a request without a receipt, each in one place.
LEMMA FreshIs ==
  ASSUME NEW n \in Nat, NEW req, Asked(req, n), NEW F, F = Fresh(req)
  PROVE  /\ F \in Seq(Request) /\ Rising(F)
         /\ Range(F) = {o \in Range(req) : o.id \notin DOMAIN receipts}
         /\ \A i, j \in DOMAIN F : F[i].id = F[j].id => i = j
         /\ \A i \in DOMAIN F : F[i] \in Range(req) /\ F[i].id \notin DOMAIN receipts
<1> DEFINE S == {o \in Range(req) : o.id \notin DOMAIN receipts}
<1>1. req \in Seq(Request) /\ Rising(req) /\ F = Keeping(req, S)
  BY DEF Asked, Fresh
<1>2. F \in Seq(Request) /\ Range(F) = Range(req) \cap S
  BY <1>1, KeepingIs
<1>3. Rising(F)
  BY <1>1, KeepingRises
<1>4. \A i, j \in DOMAIN F : F[i].id = F[j].id => i = j
  <2> SUFFICES ASSUME NEW i \in DOMAIN F, NEW j \in DOMAIN F, F[i].id = F[j].id, i < j PROVE FALSE
    BY <1>2
  <2>1. F[i].id < F[j].id
    BY <1>3 DEF Rising
  <2>2. F[i] \in Request /\ F[j] \in Request
    BY <1>2
  <2> QED
    BY <2>1, <2>2 DEF Request, Ops
<1>5. \A i \in DOMAIN F : F[i] \in Range(F)
  BY DEF Range
<1>6. Range(req) \cap S = S
  OBVIOUS
<1>7. \A i \in DOMAIN F : F[i] \in S
  BY <1>2, <1>5, <1>6
<1> QED
  BY <1>2, <1>3, <1>4, <1>6, <1>7

\* Each operation of a request has its number.
LEMMA RequestIds ==
  ASSUME NEW n \in Nat, NEW req, Asked(req, n), NEW o \in Range(req), NEW p \in Range(req), o.id = p.id
  PROVE  o = p
<1>1. PICK i \in DOMAIN req : o = req[i]
  BY DEF Range
<1>2. PICK j \in DOMAIN req : p = req[j]
  BY DEF Range
<1>3. req \in Seq(Request) /\ req[i] \in Request /\ req[j] \in Request
  BY DEF Asked
<1>4. ~(i < j) /\ ~(j < i)
  BY <1>1, <1>2, <1>3 DEF Asked, Rising, Request, Ops
<1> QED
  BY <1>1, <1>2, <1>3, <1>4

\* What a transaction leaves of the account, and what it gives its operations.
Applied(req) ==
  LET n == Len(server)
  IN /\ server' \in Seq(Stored) /\ n <= Len(server') /\ seq' \in Nat /\ seq <= seq' /\ refused' = refused
     /\ change' \in [DOMAIN server' -> Nat]
     /\ receipts' \in [DOMAIN receipts \cup {o.id : o \in Range(req)} -> DOMAIN server' \cup {0}]
     /\ \A o \in DOMAIN receipts : receipts'[o] = receipts[o]
     /\ \A s \in 1..n :
          /\ server'[s].by = server[s].by /\ (server[s].gone => server'[s].gone)
          /\ \/ server'[s] = server[s] /\ change'[s] = change[s]
             \/ seq < change'[s] /\ change'[s] <= seq'
     /\ \A s \in DOMAIN server' : s > n =>
          /\ seq < change'[s] /\ change'[s] <= seq'
          /\ server'[s].by \in {o.id : o \in Range(req)} \ DOMAIN receipts
          /\ receipts'[server'[s].by] = s
     /\ \A o \in Range(req) : o.id \notin DOMAIN receipts =>
          IF o.kind = "solve" THEN receipts'[o.id] > n /\ server'[receipts'[o.id]].by = o.id
          ELSE \/ receipts'[o.id] = 0 /\ server[o.sid].gone
               \/ /\ receipts'[o.id] = o.sid /\ seq < change'[o.sid]
                  /\ o.kind = "delete" => server'[o.sid].gone
     /\ \A o \in Range(req) : Answer(req, o) = receipts'[o.id]

\* Solves made are added in their order.
LEMMA AppliedSolves ==
  ASSUME AccountT, NEW req, Asked(req, Len(server)), \A o \in Range(req) : o.kind = "solve", Apply(req)
  PROVE  Applied(req)
<1> DEFINE n == Len(server)
           F == Fresh(req)
           k == Len(F)
           fresh == Range(F)
           answers == {Answer(req, o) : o \in fresh}
           written == answers \ {0}
           on(s) == CHOOSE o \in fresh : Answer(req, o) = s
<1>1. n \in Nat /\ server \in Seq(Stored) /\ Made = 1..n /\ change \in [1..n -> Nat] /\ seq \in Nat
  BY DEF AccountT, Made
<1>2. /\ F \in Seq(Request) /\ fresh = {o \in Range(req) : o.id \notin DOMAIN receipts}
      /\ \A i, j \in 1..k : F[i].id = F[j].id => i = j
      /\ \A i \in 1..k : F[i] \in Range(req) /\ F[i].id \notin DOMAIN receipts
      /\ k \in Nat /\ DOMAIN F = 1..k
  <2>1. DOMAIN F = 1..k
    BY <1>1, FreshIs
  <2> QED
    BY <1>1, <2>1, FreshIs
<1>3. \A i \in 1..k : Answer(req, F[i]) = n + i
  <2> SUFFICES ASSUME NEW i \in 1..k PROVE Answer(req, F[i]) = n + i
    OBVIOUS
  <2>1. (CHOOSE j \in DOMAIN F : F[j] = F[i]) = i
    <3>1. \A j \in DOMAIN F : F[j] = F[i] => j = i
      BY <1>2
    <3>2. i \in DOMAIN F /\ F[i] = F[i]
      BY <1>2
    <3> HIDE DEF F
    <3> QED
      BY <3>1, <3>2
  <2>2. F[i].id \notin DOMAIN receipts /\ F[i].kind = "solve"
    BY <1>2
  <2> QED
    BY <2>1, <2>2 DEF Answer
<1>4. \A o \in fresh : \E i \in 1..k : o = F[i]
  BY <1>2 DEF Range
<1>5. \A i \in 1..k : F[i] \in fresh
  BY <1>2
<1>6. \A x : x \in answers <=> \E i \in 1..k : x = n + i
  <2>1. \A x : x \in answers <=> \E o \in fresh : x = Answer(req, o)
    OBVIOUS
  <2> HIDE DEF answers, fresh, F
  <2> QED
    BY <1>3, <1>4, <1>5, <2>1
<1>7. written = (n + 1)..(n + k)
  <2>1. \A x : x \in written <=> x \in (n + 1)..(n + k)
    <3> SUFFICES ASSUME NEW x PROVE x \in written <=> x \in (n + 1)..(n + k)
      OBVIOUS
    <3>1. x \in written => x \in (n + 1)..(n + k)
      <4> HIDE DEF answers, n, k
      <4> QED
        BY <1>1, <1>2, <1>6 DEF n
    <3>2. ASSUME x \in (n + 1)..(n + k) PROVE x \in written
      <4>1. x - n \in 1..k /\ x = n + (x - n) /\ x # 0
        BY <1>1, <1>2, <3>2
      <4> HIDE DEF answers, n, k
      <4> QED
        BY <1>6, <4>1
    <3> QED
      BY <3>1, <3>2
  <2> HIDE DEF written, n, k
  <2> QED
    BY <2>1
<1>8. \A i \in 1..k : on(n + i) = F[i]
  <2> SUFFICES ASSUME NEW i \in 1..k PROVE on(n + i) = F[i]
    OBVIOUS
  <2>1. \A o \in fresh : Answer(req, o) = n + i => o = F[i]
    <3> SUFFICES ASSUME NEW o \in fresh, Answer(req, o) = n + i PROVE o = F[i]
      OBVIOUS
    <3>1. PICK j \in 1..k : o = F[j]
      BY <1>4
    <3>2. n + j = n + i
      BY <1>3, <3>1
    <3> QED
      BY <1>1, <1>2, <3>1, <3>2
  <2> HIDE DEF fresh, F
  <2> QED
    BY <1>3, <1>5, <2>1
<1>9. IsFiniteSet(written) /\ Cardinality(written) \in Nat
  <2>1. n + 1 \in Int /\ n + k \in Int
    BY <1>1, <1>2
  <2> HIDE DEF written, n, k
  <2> QED
    BY <1>7, <2>1, FS_Interval, FS_CardinalityType
<1>10. /\ server' = [s \in (1..n) \cup written |->
              IF s \notin written THEN server[s]
              ELSE CASE on(s).kind = "solve"  -> [gone |-> FALSE, val |-> on(s).val, by |-> on(s).id]
                     [] on(s).kind = "edit"   -> [server[s] EXCEPT !.val = on(s).val]
                     [] on(s).kind = "delete" -> [server[s] EXCEPT !.gone = TRUE]]
       /\ change' = [s \in (1..n) \cup written |->
              IF s \in written THEN seq + Cardinality({t \in written : t <= s}) ELSE change[s]]
       /\ seq' = seq + Cardinality(written)
       /\ receipts' = Receipts(req) /\ refused' = refused
  BY <1>1 DEF Apply
<1>11. (1..n) \cup written = 1..(n + k)
  <2>1. n \in Nat /\ k \in Nat
    BY <1>1, <1>2
  <2> HIDE DEF written, n, k
  <2> QED
    BY <1>7, <2>1
<1>12. \A s \in 1..n : server'[s] = server[s] /\ change'[s] = change[s]
  <2>1. \A s \in 1..n : s \notin written /\ s \in (1..n) \cup written
    <3>1. n \in Nat /\ k \in Nat
      BY <1>1, <1>2
    <3> HIDE DEF written, n, k
    <3> QED
      BY <1>7, <3>1
  <2> HIDE DEF written, on
  <2> QED
    BY <1>10, <2>1
<1>13. \A i \in 1..k : server'[n + i] = [gone |-> FALSE, val |-> F[i].val, by |-> F[i].id]
  <2> SUFFICES ASSUME NEW i \in 1..k
               PROVE  server'[n + i] = [gone |-> FALSE, val |-> F[i].val, by |-> F[i].id]
    OBVIOUS
  <2>1. n + i \in written
    <3>1. n \in Nat /\ k \in Nat
      BY <1>1, <1>2
    <3> HIDE DEF written, n, k
    <3> QED
      BY <1>7, <3>1
  <2>2. on(n + i) = F[i] /\ F[i].kind = "solve"
    <3>1. F[i] \in Range(req)
      BY <1>2
    <3> HIDE DEF on, F
    <3> QED
      BY <1>8, <3>1
  <2> HIDE DEF written, on, F, n
  <2> QED
    BY <1>10, <2>1, <2>2
<1>14. \A s \in (n + 1)..(n + k) : change'[s] \in Nat /\ seq < change'[s] /\ change'[s] <= seq'
  <2> SUFFICES ASSUME NEW s \in (n + 1)..(n + k)
               PROVE  change'[s] \in Nat /\ seq < change'[s] /\ change'[s] <= seq'
    OBVIOUS
  <2>1. s \in written /\ s <= s
    BY <1>1, <1>2, <1>7
  <2> DEFINE rank == Cardinality({t \in written : t <= s})
  <2>2. change'[s] = seq + rank
    <3> HIDE DEF written
    <3> QED
      BY <1>10, <2>1
  <2>3. rank \in Nat /\ 1 <= rank /\ rank <= Cardinality(written)
    <3> HIDE DEF written
    <3> QED
      BY <1>9, <2>1, RankIs
  <2> HIDE DEF rank, written
  <2> QED
    BY <1>1, <1>9, <1>10, <2>2, <2>3
<1>15. /\ server' \in Seq(Stored) /\ Len(server') = n + k /\ DOMAIN server' = 1..(n + k)
       /\ change' \in [1..(n + k) -> Nat]
  <2>1. DOMAIN server' = 1..(n + k) /\ DOMAIN change' = 1..(n + k)
    <3> HIDE DEF written, on
    <3> QED
      BY <1>10, <1>11
  <2>2. ASSUME NEW s \in 1..(n + k) PROVE server'[s] \in Stored /\ change'[s] \in Nat
    <3>1. CASE s \in 1..n
      BY <1>1, <1>12, <3>1
    <3>2. CASE s \notin 1..n
      <4>1. s \in (n + 1)..(n + k) /\ s - n \in 1..k /\ n + (s - n) = s
        BY <1>1, <1>2, <3>2
      <4>2. F[s - n] \in Request
        BY <1>2, <4>1
      <4>3. server'[s] = [gone |-> FALSE, val |-> F[s - n].val, by |-> F[s - n].id]
        BY <1>13, <4>1
      <4> HIDE DEF F
      <4> QED
        BY <1>14, <4>1, <4>2, <4>3 DEF Request, Stored
    <3> QED
      BY <3>1, <3>2
  <2>3. server' = [s \in 1..(n + k) |-> server'[s]] /\ change' = [s \in 1..(n + k) |-> change'[s]]
    <3>1. server' = [s \in DOMAIN server' |-> server'[s]]
      <4> DEFINE made(s) == IF s \notin written THEN server[s]
              ELSE CASE on(s).kind = "solve"  -> [gone |-> FALSE, val |-> on(s).val, by |-> on(s).id]
                     [] on(s).kind = "edit"   -> [server[s] EXCEPT !.val = on(s).val]
                     [] on(s).kind = "delete" -> [server[s] EXCEPT !.gone = TRUE]
      <4>1. server' = [s \in (1..n) \cup written |-> made(s)]
        BY <1>10
      <4> HIDE DEF made, written
      <4> QED
        BY <4>1
    <3>2. change' = [s \in DOMAIN change' |-> change'[s]]
      <4> HIDE DEF written
      <4> QED
        BY <1>10
    <3> QED
      BY <2>1, <3>1, <3>2
  <2>4. server' \in [1..(n + k) -> Stored] /\ change' \in [1..(n + k) -> Nat]
    BY <2>2, <2>3
  <2>5. n + k \in Nat
    BY <1>1, <1>2
  <2> HIDE DEF n, k
  <2> QED
    BY <2>1, <2>4, <2>5, IsASeq, LenProperties
<1>16. /\ DOMAIN receipts' = DOMAIN receipts \cup {o.id : o \in Range(req)}
       /\ \A o \in DOMAIN receipts : receipts'[o] = receipts[o]
       /\ \A i \in 1..k : receipts'[F[i].id] = n + i
  <2>1. receipts' = [id \in DOMAIN receipts \cup {o.id : o \in fresh} |->
          IF id \in DOMAIN receipts THEN receipts[id]
          ELSE Answer(req, CHOOSE o \in fresh : o.id = id)]
    BY <1>10 DEF Receipts
  <2>2. DOMAIN receipts \cup {o.id : o \in fresh} = DOMAIN receipts \cup {o.id : o \in Range(req)}
    BY <1>2
  <2>3. ASSUME NEW i \in 1..k PROVE receipts'[F[i].id] = n + i
    <3>1. F[i] \in fresh /\ F[i].id \notin DOMAIN receipts
      BY <1>2, <1>5
    <3>2. \A o \in fresh : o.id = F[i].id => o = F[i]
      BY <1>2, <1>4
    <3>3. (CHOOSE o \in fresh : o.id = F[i].id) = F[i]
      <4> HIDE DEF fresh, F
      <4> QED
        BY <3>1, <3>2
    <3>4. F[i].id \in DOMAIN receipts \cup {o.id : o \in fresh}
      BY <3>1
    <3>5. receipts'[F[i].id] = Answer(req, F[i])
      <4> HIDE DEF fresh, F
      <4> QED
        BY <2>1, <3>1, <3>3, <3>4
    <3> QED
      BY <1>3, <3>5
  <2> HIDE DEF fresh
  <2> QED
    BY <2>1, <2>2, <2>3
<1>17. ASSUME NEW o \in Range(req), o.id \notin DOMAIN receipts
       PROVE  \E i \in 1..k : o = F[i]
  <2>1. o \in fresh
    BY <1>2, <1>17
  <2> QED
    BY <1>4, <2>1
<1>18. \A s \in (n + 1)..(n + k) : \E i \in 1..k : s = n + i
  <2> SUFFICES ASSUME NEW s \in (n + 1)..(n + k) PROVE \E i \in 1..k : s = n + i
    OBVIOUS
  <2>1. s - n \in 1..k /\ s = n + (s - n)
    BY <1>1, <1>2
  <2> QED
    BY <2>1
<1>19. \A i \in 1..k : n + i > n /\ n + i \in 1..(n + k) /\ n + i \in Nat
  BY <1>1, <1>2
<1> HIDE DEF n, F, k, fresh, answers, written, on
<1>20. receipts' \in [DOMAIN receipts \cup {o.id : o \in Range(req)} -> 1..(n + k) \cup {0}]
  <2>1. ASSUME NEW id \in DOMAIN receipts' PROVE receipts'[id] \in 1..(n + k) \cup {0}
    <3>1. CASE id \in DOMAIN receipts
      BY <1>1, <1>2, <1>16, <3>1 DEF AccountT
    <3>2. CASE id \notin DOMAIN receipts
      <4>1. PICK o \in Range(req) : id = o.id
        BY <1>16, <2>1, <3>2
      <4>2. PICK i \in 1..k : o = F[i]
        BY <1>17, <3>2, <4>1
      <4> QED
        BY <1>16, <1>19, <4>1, <4>2
    <3> QED
      BY <3>1, <3>2
  <2>2. receipts' = [id \in DOMAIN receipts' |-> receipts'[id]]
    BY <1>10 DEF Receipts
  <2> QED
    BY <1>16, <2>1, <2>2
<1>21. ASSUME NEW s \in 1..(n + k), s > n
       PROVE  /\ seq < change'[s] /\ change'[s] <= seq'
              /\ server'[s].by \in {o.id : o \in Range(req)} \ DOMAIN receipts
              /\ receipts'[server'[s].by] = s
  <2>1. s \in (n + 1)..(n + k)
    BY <1>1, <1>2, <1>21
  <2>2. PICK i \in 1..k : s = n + i
    BY <1>18, <2>1
  <2>3. server'[s].by = F[i].id
    <3>1. server'[s] = [gone |-> FALSE, val |-> F[i].val, by |-> F[i].id]
      BY <1>13, <2>2
    <3> QED
      BY <3>1
  <2> QED
    BY <1>2, <1>14, <1>16, <2>1, <2>2, <2>3
<1>22. ASSUME NEW o \in Range(req), o.id \notin DOMAIN receipts
       PROVE  receipts'[o.id] > n /\ server'[receipts'[o.id]].by = o.id
  <2>1. PICK i \in 1..k : o = F[i]
    BY <1>17, <1>22
  <2>2. receipts'[o.id] = n + i /\ n + i > n
    BY <1>16, <1>19, <2>1
  <2>3. server'[n + i] = [gone |-> FALSE, val |-> F[i].val, by |-> F[i].id]
    BY <1>13
  <2> QED
    BY <2>1, <2>2, <2>3
<1>23. ASSUME NEW o \in Range(req) PROVE Answer(req, o) = receipts'[o.id]
  <2>1. CASE o.id \in DOMAIN receipts
    BY <1>16, <2>1 DEF Answer
  <2>2. CASE o.id \notin DOMAIN receipts
    <3>1. PICK i \in 1..k : o = F[i]
      BY <1>17, <2>2
    <3> QED
      BY <1>3, <1>16, <3>1
  <2> QED
    BY <2>1, <2>2
<1>24. seq' \in Nat /\ seq <= seq' /\ n <= n + k
  BY <1>1, <1>2, <1>9, <1>10
<1> QED
  BY <1>10, <1>12, <1>15, <1>16, <1>20, <1>21, <1>22, <1>23, <1>24 DEF Applied, n

\* An operation on a solve changes it, unless it is gone.
LEMMA AppliedOne ==
  ASSUME AccountT, NEW req, Asked(req, Len(server)), NEW o \in Range(req), o.kind # "solve", Apply(req)
  PROVE  Applied(req)
<1> DEFINE n == Len(server)
           fresh == Range(Fresh(req))
           written == {Answer(req, p) : p \in fresh} \ {0}
           on(s) == CHOOSE p \in fresh : Answer(req, p) = s
           made(s) ==
             CASE on(s).kind = "solve"  -> [gone |-> FALSE, val |-> on(s).val, by |-> on(s).id]
               [] on(s).kind = "edit"   -> [server[s] EXCEPT !.val = on(s).val]
               [] on(s).kind = "delete" -> [server[s] EXCEPT !.gone = TRUE]
<1>1. n \in Nat /\ server \in Seq(Stored) /\ Made = 1..n /\ change \in [1..n -> Nat] /\ seq \in Nat
  BY DEF AccountT, Made
<1>0. refused' = refused
  BY DEF Apply
<1>2. Range(req) = {o} /\ o \in Request /\ o.sid \in 1..n
  <2>1. PICK i \in DOMAIN req : o = req[i]
    BY DEF Range
  <2>2. req \in Seq(Request) /\ Len(req) <= 1
    BY <2>1 DEF Asked
  <2>3. DOMAIN req = {i}
    <3>1. DOMAIN req = 1..Len(req) /\ Len(req) \in Nat
      BY <2>2
    <3>2. i \in 1..Len(req)
      BY <2>1, <3>1
    <3> QED
      BY <2>2, <3>1, <3>2
  <2> QED
    BY <2>1, <2>2, <2>3 DEF Asked, Range
<1>3. fresh = IF o.id \in DOMAIN receipts THEN {} ELSE {o}
  <2>1. fresh = {p \in Range(req) : p.id \notin DOMAIN receipts}
    BY <1>1, FreshIs
  <2> QED
    BY <1>2, <2>1
<1>4. /\ server' = [s \in (1..n) \cup written |-> IF s \notin written THEN server[s] ELSE made(s)]
      /\ change' = [s \in (1..n) \cup written |->
              IF s \in written THEN seq + Cardinality({t \in written : t <= s}) ELSE change[s]]
      /\ seq' = seq + Cardinality(written)
      /\ receipts' = [id \in DOMAIN receipts \cup {p.id : p \in fresh} |->
              IF id \in DOMAIN receipts THEN receipts[id]
              ELSE Answer(req, CHOOSE p \in fresh : p.id = id)]
      /\ refused' = refused
  BY <1>1 DEF Apply, Receipts
<1>5. DOMAIN receipts \cup {p.id : p \in fresh} = DOMAIN receipts \cup {p.id : p \in Range(req)}
  BY <1>2, <1>3
<1>6. \A id \in DOMAIN receipts : receipts'[id] = receipts[id]
  <2> HIDE DEF fresh
  <2> QED
    BY <1>4
<1>7. receipts \in [DOMAIN receipts -> 1..n \cup {0}]
  BY <1>1 DEF AccountT
<1>8. server = [s \in 1..n |-> server[s]] /\ change = [s \in 1..n |-> change[s]] /\ DOMAIN server = 1..n
  BY <1>1
<1>9. ASSUME receipts'[o.id] \in 1..n \cup {0}
      PROVE  receipts' \in [DOMAIN receipts \cup {p.id : p \in Range(req)} -> 1..n \cup {0}]
  <2>1. \A id \in DOMAIN receipts \cup {p.id : p \in fresh} : receipts'[id] \in 1..n \cup {0}
    BY <1>1, <1>3, <1>6, <1>7, <1>9
  <2> HIDE DEF fresh
  <2> QED
    BY <1>4, <1>5, <2>1
<1>10. ASSUME written = {} PROVE server' = server /\ change' = change /\ seq' = seq
  <2>1. seq' = seq
    <3>1. Cardinality({}) = 0
      BY FS_EmptySet
    <3> HIDE DEF written
    <3> QED
      BY <1>1, <1>4, <1>10, <3>1
  <2> HIDE DEF written, made
  <2> QED
    BY <1>4, <1>8, <1>10, <2>1
<1>11. CASE o.id \in DOMAIN receipts
  <2>1. written = {} /\ Answer(req, o) = receipts[o.id]
    BY <1>3, <1>11 DEF Answer
  <2>2. server' = server /\ change' = change /\ seq' = seq
    BY <1>10, <2>1
  <2>3. receipts'[o.id] = receipts[o.id] /\ receipts[o.id] \in 0..n
    BY <1>1, <1>6, <1>7, <1>11
  <2>4. receipts' \in [DOMAIN receipts \cup {p.id : p \in Range(req)} -> 1..n \cup {0}]
    <3>1. receipts'[o.id] \in 1..n \cup {0}
      BY <1>1, <2>3
    <3> QED
      BY <1>9, <3>1
  <2> HIDE DEF fresh, written, made
  <2> QED
    BY <1>1, <1>2, <1>4, <1>6, <1>8, <1>11, <2>1, <2>2, <2>3, <2>4 DEF Applied
<1>12. CASE o.id \notin DOMAIN receipts /\ server[o.sid].gone
  <2>1. fresh = {o} /\ Answer(req, o) = 0
    BY <1>3, <1>12 DEF Answer
  <2>2. written = {}
    BY <2>1
  <2>3. server' = server /\ change' = change /\ seq' = seq
    BY <1>10, <2>2
  <2>4. receipts'[o.id] = 0
    <3>1. (CHOOSE p \in fresh : p.id = o.id) = o
      BY <2>1
    <3> HIDE DEF fresh
    <3> QED
      BY <1>4, <1>12, <2>1, <3>1
  <2>5. receipts' \in [DOMAIN receipts \cup {p.id : p \in Range(req)} -> 1..n \cup {0}]
    <3>1. receipts'[o.id] \in 1..n \cup {0}
      BY <2>4
    <3> QED
      BY <1>9, <3>1
  <2>6. \A p \in Range(req) : p.id \notin DOMAIN receipts =>
          /\ p.kind # "solve" /\ receipts'[p.id] = 0 /\ server[p.sid].gone
    BY <1>2, <1>12, <2>4
  <2>7. \A p \in Range(req) : Answer(req, p) = receipts'[p.id]
    BY <1>2, <2>1, <2>4
  <2>8. \A s \in DOMAIN server' : ~(s > n)
    BY <1>1, <2>3
  <2>9. \A p \in Range(req) : p.id \notin DOMAIN receipts =>
          IF p.kind = "solve" THEN receipts'[p.id] > n /\ server'[receipts'[p.id]].by = p.id
          ELSE \/ receipts'[p.id] = 0 /\ server[p.sid].gone
               \/ /\ receipts'[p.id] = p.sid /\ seq < change'[p.sid]
                  /\ p.kind = "delete" => server'[p.sid].gone
    BY <2>6
  <2>10. \A s \in DOMAIN server' : s > n =>
          /\ seq < change'[s] /\ change'[s] <= seq'
          /\ server'[s].by \in {p.id : p \in Range(req)} \ DOMAIN receipts
          /\ receipts'[server'[s].by] = s
    BY <2>8
  <2>11. /\ server' \in Seq(Stored) /\ n <= Len(server') /\ seq' \in Nat /\ seq <= seq' /\ refused' = refused
         /\ change' \in [DOMAIN server' -> Nat]
         /\ receipts' \in [DOMAIN receipts \cup {p.id : p \in Range(req)} -> DOMAIN server' \cup {0}]
    BY <1>0, <1>1, <1>8, <2>3, <2>5
  <2>12. \A s \in 1..n :
           /\ server'[s].by = server[s].by /\ (server[s].gone => server'[s].gone)
           /\ \/ server'[s] = server[s] /\ change'[s] = change[s]
              \/ seq < change'[s] /\ change'[s] <= seq'
    BY <2>3
  <2> HIDE DEF fresh, written, made
  <2> QED
    BY <1>6, <2>7, <2>9, <2>10, <2>11, <2>12 DEF Applied
<1>13. CASE o.id \notin DOMAIN receipts /\ ~server[o.sid].gone
  <2>1. PICK s : s = o.sid
    OBVIOUS
  <2>2. fresh = {o} /\ Answer(req, o) = s /\ s \in 1..n /\ s # 0
    BY <1>1, <1>2, <1>3, <1>13, <2>1 DEF Answer
  <2>3. written = {s}
    BY <2>2
  <2>4. receipts'[o.id] = s
    <3>1. (CHOOSE p \in fresh : p.id = o.id) = o
      BY <2>2
    <3> HIDE DEF fresh
    <3> QED
      BY <1>4, <1>13, <2>2, <3>1
  <2>5. receipts' \in [DOMAIN receipts \cup {p.id : p \in Range(req)} -> 1..n \cup {0}]
    <3>1. receipts'[o.id] \in 1..n \cup {0}
      BY <2>2, <2>4
    <3> QED
      BY <1>9, <3>1
  <2>6. on(s) = o
    BY <2>2
  <2>7. o.kind \in {"edit", "delete"} /\ o.val \in Value
    BY <1>2 DEF Request
  <2>8. made(s) = IF o.kind = "edit" THEN [server[s] EXCEPT !.val = o.val] ELSE [server[s] EXCEPT !.gone = TRUE]
    <3> HIDE DEF on
    <3> QED
      BY <2>6, <2>7
  <2>9. server[s] \in Stored
    BY <1>1, <2>2
  <2>10. /\ made(s) \in Stored /\ made(s).by = server[s].by
         /\ server[s].gone => made(s).gone
         /\ o.kind = "delete" => made(s).gone
    <3> HIDE DEF made
    <3> QED
      BY <2>7, <2>8, <2>9 DEF Stored
  <2>11. seq' = seq + 1 /\ Cardinality({t \in written : t <= s}) = 1
    <3>1. Cardinality({s}) = 1
      BY FS_Singleton
    <3>2. {t \in written : t <= s} = {s}
      BY <1>1, <2>2, <2>3
    <3> HIDE DEF written
    <3> QED
      BY <1>4, <2>3, <3>1, <3>2
  <2>12. server' = [server EXCEPT ![s] = made(s)] /\ change' = [change EXCEPT ![s] = seq + 1]
    <3>1. (1..n) \cup written = 1..n
      BY <2>2, <2>3
    <3> HIDE DEF written, made
    <3> QED
      BY <1>4, <1>8, <2>3, <2>11, <3>1
  <2> HIDE DEF fresh, written, made
  <2>13. server' \in Seq(Stored) /\ Len(server') = n /\ DOMAIN server' = 1..n /\ change' \in [1..n -> Nat]
    BY <1>1, <2>2, <2>10, <2>12
  <2>14. \A t \in 1..n : t # s => server'[t] = server[t] /\ change'[t] = change[t]
    BY <1>1, <2>12
  <2>15. server'[s] = made(s) /\ change'[s] = seq + 1
    BY <1>1, <2>2, <2>12
  <2>16. ASSUME NEW t \in 1..n
         PROVE  /\ server'[t].by = server[t].by /\ (server[t].gone => server'[t].gone)
                /\ \/ server'[t] = server[t] /\ change'[t] = change[t]
                   \/ seq < change'[t] /\ change'[t] <= seq'
    <3>1. CASE t = s
      BY <1>1, <2>10, <2>11, <2>15, <3>1
    <3>2. CASE t # s
      BY <2>14, <3>2
    <3> QED
      BY <3>1, <3>2
  <2>17. /\ seq' \in Nat /\ seq <= seq'
         /\ receipts'[o.id] = o.sid /\ seq < change'[o.sid]
         /\ o.kind = "delete" => server'[o.sid].gone
    BY <1>1, <2>1, <2>4, <2>10, <2>11, <2>15
  <2>18. \A p \in Range(req) : p.id \notin DOMAIN receipts =>
           /\ p.kind # "solve" /\ receipts'[p.id] = p.sid /\ seq < change'[p.sid]
           /\ p.kind = "delete" => server'[p.sid].gone
    BY <1>2, <2>17
  <2>19. \A p \in Range(req) : Answer(req, p) = receipts'[p.id]
    BY <1>2, <2>2, <2>4
  <2>20. \A t \in DOMAIN server' : ~(t > n)
    BY <1>1, <2>13
  <2>21. \A p \in Range(req) : p.id \notin DOMAIN receipts =>
          IF p.kind = "solve" THEN receipts'[p.id] > n /\ server'[receipts'[p.id]].by = p.id
          ELSE \/ receipts'[p.id] = 0 /\ server[p.sid].gone
               \/ /\ receipts'[p.id] = p.sid /\ seq < change'[p.sid]
                  /\ p.kind = "delete" => server'[p.sid].gone
    BY <2>18
  <2>22. \A t \in DOMAIN server' : t > n =>
          /\ seq < change'[t] /\ change'[t] <= seq'
          /\ server'[t].by \in {p.id : p \in Range(req)} \ DOMAIN receipts
          /\ receipts'[server'[t].by] = t
    BY <2>20
  <2>23. /\ server' \in Seq(Stored) /\ n <= Len(server') /\ seq' \in Nat /\ seq <= seq' /\ refused' = refused
         /\ change' \in [DOMAIN server' -> Nat]
         /\ receipts' \in [DOMAIN receipts \cup {p.id : p \in Range(req)} -> DOMAIN server' \cup {0}]
    BY <1>0, <1>1, <2>5, <2>13, <2>17
  <2> QED
    BY <1>6, <2>16, <2>19, <2>21, <2>22, <2>23 DEF Applied
<1> QED
  BY <1>11, <1>12, <1>13

LEMMA ApplyIs ==
  ASSUME AccountT, NEW req, Asked(req, Len(server)), Apply(req)
  PROVE  Applied(req)
<1>1. CASE \A o \in Range(req) : o.kind = "solve"
  BY <1>1, AppliedSolves
<1>2. CASE \E o \in Range(req) : o.kind # "solve"
  BY <1>2, AppliedOne
<1> QED
  BY <1>1, <1>2

-----------------------------------------------------------------------------
(* The account.                                                            *)

\* There are ids for all the solves: one for each operation here, and those made elsewhere.
LEMMA Fits == ASSUME AccountT PROVE Len(server) \in Nat /\ Len(server) <= MaxOps + MaxAdd /\ Made = 1..Len(server)
<1> DEFINE n == Len(server)
           A == {s \in Made : server[s].by = 0}
           B == {s \in Made : server[s].by # 0}
           made == [s \in B |-> server[s].by]
<1>1. n \in Nat /\ Made = 1..n /\ MaxOps \in Nat /\ MaxAdd \in Nat /\ server \in Seq(Stored)
  BY SyncAssumption DEF AccountT, Made
<1>2. IsFiniteSet(Made) /\ Cardinality(Made) = n
  <2>1. IsFiniteSet(1..n) /\ Cardinality(1..n) = n
    BY <1>1, FS_Interval
  <2> QED
    BY <1>1, <2>1
<1>3. IsFiniteSet(A) /\ IsFiniteSet(B) /\ Cardinality(A) \in Nat /\ Cardinality(B) \in Nat
  BY <1>2, FS_Subset, FS_CardinalityType
<1>4. IsFiniteSet(Ops) /\ Cardinality(Ops) = MaxOps
  BY <1>1, FS_Interval DEF Ops
<1>5. made \in Injection(B, Ops)
  <2>1. made \in [B -> Ops]
    <3>1. ASSUME NEW s \in B PROVE server[s].by \in Ops
      <4>1. server[s] \in Stored /\ server[s].by # 0
        BY <1>1
      <4> QED
        BY <4>1 DEF Stored
    <3> HIDE DEF B
    <3> QED
      BY <3>1
  <2>2. \A s, t \in DOMAIN made : made[s] = made[t] => s = t
    BY DEF AccountT, CreatedOnce
  <2> QED
    BY <2>1, <2>2 DEF Injection, IsInjective
<1>6. Cardinality(B) <= MaxOps
  BY <1>3, <1>4, <1>5, FS_Injection
<1>7. Cardinality(A) <= MaxAdd
  BY DEF AccountT
<1>8. A \cup B = Made /\ A \cap B = {}
  OBVIOUS
<1> HIDE DEF A, B
<1>9. Cardinality(Made) = Cardinality(A) + Cardinality(B)
  BY <1>3, <1>8, FS_Union, FS_EmptySet
<1> QED
  BY <1>1, <1>2, <1>3, <1>6, <1>7, <1>9

\* Nothing the account told of is taken back.
Grows ==
  /\ Len(server') \in Nat /\ Len(server) <= Len(server')
  /\ ops' \in Nat /\ ops <= ops'
  /\ DOMAIN receipts \subseteq DOMAIN receipts'
  /\ \A o \in DOMAIN receipts : receipts'[o] = receipts[o]

LEMMA AccountStays ==
  ASSUME AccountT, UNCHANGED account, ops' \in {ops, ops + 1}, ops' <= MaxOps
  PROVE  AccountT' /\ Grows
<1>1. ops \in Nat /\ ops' \in 0..MaxOps /\ ops <= ops' /\ Len(server) \in Nat
  BY SyncAssumption DEF AccountT
<1>2. UNCHANGED <<server, change, seq, receipts, refused>>
  BY DEF account
<1>3. DOMAIN receipts \subseteq 1..ops'
  BY <1>1 DEF AccountT
<1> QED
  BY <1>1, <1>2, <1>3 DEF AccountT, CreatedOnce, Made, Grows

LEMMA AccountApplies ==
  ASSUME AccountT, NEW req, Applied(req), \A o \in Range(req) : o.id \in 1..ops, UNCHANGED ops
  PROVE  AccountT' /\ Grows
<1>1. /\ Made = 1..Len(server) /\ Len(server) \in Nat /\ server' \in Seq(Stored) /\ Len(server') \in Nat
      /\ Made' = 1..Len(server') /\ Len(server) <= Len(server') /\ ops \in Nat
  BY DEF AccountT, Applied, Made
<1>2. DOMAIN receipts' = DOMAIN receipts \cup {o.id : o \in Range(req)} /\ DOMAIN receipts' \subseteq 1..ops'
  BY DEF AccountT, Applied
<1>3. \A s \in Made : server'[s].by = server[s].by
  BY <1>1 DEF Applied
<1>4. \A s \in Made' : s \notin Made => /\ server'[s].by \notin DOMAIN receipts /\ server'[s].by \in DOMAIN receipts'
                                        /\ server'[s].by # 0 /\ receipts'[server'[s].by] = s
  <2> SUFFICES ASSUME NEW s \in Made', s \notin Made
               PROVE  /\ server'[s].by \notin DOMAIN receipts /\ server'[s].by \in DOMAIN receipts'
                      /\ server'[s].by # 0 /\ receipts'[server'[s].by] = s
    OBVIOUS
  <2>1. s \in DOMAIN server' /\ s > Len(server)
    BY <1>1 DEF Made
  <2>2. /\ server'[s].by \in {o.id : o \in Range(req)} \ DOMAIN receipts
        /\ receipts'[server'[s].by] = s
    BY <2>1 DEF Applied
  <2>3. 0 \notin {o.id : o \in Range(req)}
    BY <1>1
  <2> QED
    BY <1>2, <2>2, <2>3
<1>5. \A s \in Made' : server'[s].by # 0 => server'[s].by \in DOMAIN receipts'
  BY <1>2, <1>3, <1>4 DEF AccountT
<1>6. Cardinality({s \in Made' : server'[s].by = 0}) <= MaxAdd
  <2>1. {s \in Made' : server'[s].by = 0} = {s \in Made : server[s].by = 0}
    BY <1>1, <1>3, <1>4
  <2> QED
    BY <2>1 DEF AccountT
<1>7. CreatedOnce'
  <2> SUFFICES ASSUME NEW s \in Made', NEW t \in Made', s # t, server'[s].by # 0, server'[s].by = server'[t].by
               PROVE  FALSE
    BY DEF CreatedOnce
  <2>1. CASE s \in Made /\ t \in Made
    BY <1>3, <2>1 DEF AccountT, CreatedOnce
  <2>2. CASE s \in Made /\ t \notin Made
    BY <1>3, <1>4, <2>2 DEF AccountT
  <2>3. CASE s \notin Made /\ t \in Made
    BY <1>3, <1>4, <2>3 DEF AccountT
  <2>4. CASE s \notin Made /\ t \notin Made
    BY <1>4, <2>4
  <2> QED
    BY <2>1, <2>2, <2>3, <2>4
<1>8. /\ change' \in [Made' -> Nat] /\ seq' \in Nat /\ refused' \in Refusals
      /\ receipts' \in [DOMAIN receipts' -> Made' \cup {0}]
  BY DEF AccountT, Applied, Made
<1>9. \A o \in DOMAIN receipts : receipts'[o] = receipts[o]
  BY DEF Applied
<1>10. ops' \in 0..MaxOps
  BY DEF AccountT
<1> QED
  BY <1>1, <1>2, <1>5, <1>6, <1>7, <1>8, <1>9, <1>10 DEF AccountT, Grows

\* Another device's change of solve s, or a solve it adds.
LEMMA AccountChanges ==
  ASSUME AccountT, NEW s \in Made, NEW v \in Stored, v.by = server[s].by,
         server' = [server EXCEPT ![s] = v], change' = [change EXCEPT ![s] = seq + 1], seq' = seq + 1,
         UNCHANGED <<ops, receipts, refused>>
  PROVE  AccountT' /\ Grows /\ Len(server') = Len(server)
<1>1. /\ server' \in Seq(Stored) /\ Len(server') = Len(server) /\ Made' = Made
      /\ change' \in [Made' -> Nat] /\ seq' \in Nat /\ Len(server) \in Nat /\ ops \in Nat
  BY DEF AccountT, Made
<1>2. \A t \in Made : server'[t].by = server[t].by
  BY DEF Made
<1>3. {t \in Made' : server'[t].by = 0} = {t \in Made : server[t].by = 0}
  BY <1>1, <1>2
<1>4. \A t \in Made' : server'[t].by # 0 => server'[t].by \in DOMAIN receipts'
  BY <1>1, <1>2 DEF AccountT
<1>5. CreatedOnce'
  BY <1>1, <1>2 DEF AccountT, CreatedOnce
<1>6. Cardinality({t \in Made' : server'[t].by = 0}) <= MaxAdd
  BY <1>3 DEF AccountT
<1> QED
  BY <1>1, <1>4, <1>5, <1>6 DEF AccountT, Grows

LEMMA AccountAdds ==
  ASSUME AccountT, NEW v \in Value, OtherDeviceAdds(v)
  PROVE  AccountT' /\ Grows
<1> DEFINE n == Len(server)
           row == [gone |-> FALSE, val |-> v, by |-> 0]
<1>1. /\ server' = Append(server, row) /\ change' = Append(change, seq + 1) /\ seq' = seq + 1
      /\ UNCHANGED <<ops, receipts, refused>> /\ Cardinality({s \in Made : server[s].by = 0}) < MaxAdd
  BY DEF OtherDeviceAdds
<1>2. row \in Stored /\ row.by = 0 /\ n \in Nat /\ Made = 1..n /\ server \in Seq(Stored) /\ seq \in Nat /\ ops \in Nat
  BY DEF AccountT, Made, Stored
<1>3. change \in Seq(Nat) /\ Len(change) = n
  <2>1. change \in [1..n -> Nat]
    BY <1>2 DEF AccountT
  <2> QED
    BY <1>2, <2>1, IsASeq, LenProperties
<1> HIDE DEF row
<1>4. /\ server' \in Seq(Stored) /\ Len(server') = n + 1 /\ Made' = 1..(n + 1)
      /\ \A s \in 1..n : server'[s] = server[s]
      /\ server'[n + 1].by = 0
  BY <1>1, <1>2 DEF Made
<1>5. change' \in [1..(n + 1) -> Nat]
  <2>1. change' \in Seq(Nat) /\ Len(change') = n + 1
    BY <1>1, <1>2, <1>3
  <2> QED
    BY <2>1
<1>6. \A s \in Made' : server'[s].by # 0 => s \in Made /\ server'[s].by = server[s].by
  BY <1>2, <1>4
<1>7. Cardinality({s \in Made' : server'[s].by = 0}) <= MaxAdd
  <2> DEFINE A == {s \in Made : server[s].by = 0}
  <2>1. IsFiniteSet(A) /\ n + 1 \notin A
    <3>1. A \subseteq 1..n /\ IsFiniteSet(1..n)
      BY <1>2, FS_Interval
    <3> QED
      BY <1>2, <3>1, FS_Subset
  <2>2. {s \in Made' : server'[s].by = 0} = A \cup {n + 1}
    BY <1>2, <1>4
  <2>3. Cardinality(A) < MaxAdd /\ MaxAdd \in Nat
    BY <1>1, SyncAssumption
  <2> HIDE DEF A
  <2>4. Cardinality(A \cup {n + 1}) = Cardinality(A) + 1 /\ Cardinality(A) \in Nat
    BY <2>1, FS_AddElement, FS_CardinalityType
  <2>5. Cardinality(A \cup {n + 1}) <= MaxAdd
    BY <2>3, <2>4
  <2> QED
    BY <2>2, <2>5, Zenon
<1>8. CreatedOnce'
  BY <1>6 DEF AccountT, CreatedOnce
<1>9. \A s \in Made' : server'[s].by # 0 => server'[s].by \in DOMAIN receipts'
  BY <1>1, <1>6 DEF AccountT
<1>10. receipts' \in [DOMAIN receipts' -> Made' \cup {0}]
  BY <1>1, <1>2, <1>4 DEF AccountT
<1>11. AccountT'
  <2>1. server' \in Seq(Stored) /\ change' \in [Made' -> Nat] /\ seq' \in Nat
    BY <1>1, <1>2, <1>4, <1>5
  <2>2. refused' \in Refusals /\ ops' \in 0..MaxOps /\ DOMAIN receipts' \subseteq 1..ops'
    BY <1>1 DEF AccountT
  <2> QED
    BY <1>7, <1>8, <1>9, <1>10, <2>1, <2>2 DEF AccountT
<1> QED
  BY <1>1, <1>2, <1>4, <1>11 DEF Grows

-----------------------------------------------------------------------------
(* What stands as the account grows.                                       *)

LEMMA AskedStays ==
  ASSUME NEW n \in Nat, NEW m \in Nat, n <= m, NEW q, Asked(q, n)
  PROVE  Asked(q, m)
<1>1. 1..n \subseteq 1..m
  OBVIOUS
<1> QED
  BY <1>1 DEF Asked

LEMMA PagedStays ==
  ASSUME NEW n \in Nat, NEW m \in Nat, n <= m, NEW p, Paged(p, n)
  PROVE  Paged(p, m)
<1>1. 1..n \subseteq 1..m
  OBVIOUS
<1> QED
  BY <1>1 DEF Paged

LEMMA NamesStay ==
  ASSUME NEW n \in Nat, NEW m \in Nat, n <= m, NEW o \in Nat, NEW p \in Nat, o <= p
  PROVE  Names(o, n) \subseteq Names(p, m)
BY DEF Names

\* The local ids there may be.
LEMMA NamesLocal ==
  ASSUME AccountT, NEW o \in Nat, o <= MaxOps
  PROVE  Names(o, Len(server)) \subseteq Local
<1>1. Len(server) \in Nat /\ Len(server) <= MaxOps + MaxAdd
  BY Fits
<1>2. MaxOps \in Nat /\ MaxAdd \in Nat
  BY SyncAssumption
<1>3. \A i \in 1..o : i \in Ops
  BY <1>2 DEF Ops
<1>4. \A s \in 1..Len(server) : s \in Sid
  BY <1>1, <1>2 DEF Sid
<1> QED
  BY <1>3, <1>4 DEF Names, Local

LEMMA RowsStay ==
  ASSUME RowsT(Len(server)), Len(server) \in Nat, ops \in Nat, Grows, UNCHANGED rows
  PROVE  RowsT(Len(server))'
<1>1. Names(ops, Len(server)) \subseteq Names(ops', Len(server'))
  BY NamesStay DEF Grows
<1>2. 0..Len(server) \subseteq 0..Len(server')
  BY DEF Grows
<1> QED
  BY <1>1, <1>2 DEF RowsT

LEMMA OutboxStays ==
  ASSUME OutboxT(Len(server)), Len(server) \in Nat, ops \in Nat, MaxOps \in Nat, Grows, UNCHANGED outbox
  PROVE  OutboxT(Len(server))'
<1>1. ASSUME NEW i \in DOMAIN outbox
      PROVE  outbox[i].id <= ops' /\ outbox[i].local \in Names(outbox[i].id, Len(server'))
  <2>1. outbox[i] \in Operation /\ outbox[i].id <= ops /\ outbox[i].local \in Names(outbox[i].id, Len(server))
    BY DEF OutboxT
  <2>2. outbox[i].id \in Nat
    BY <2>1 DEF Operation, Ops
  <2>3. Names(outbox[i].id, Len(server)) \subseteq Names(outbox[i].id, Len(server'))
    BY <2>2, NamesStay DEF Grows
  <2> QED
    BY <2>1, <2>2, <2>3 DEF Grows
<1> QED
  BY <1>1 DEF OutboxT

LEMMA SyncStays ==
  ASSUME SyncT(Len(server)), Len(server) \in Nat, Grows, UNCHANGED <<sync, wire>>
  PROVE  SyncT(Len(server))'
<1>1. Paged(wire.page, Len(server'))
  BY PagedStays DEF Grows, SyncT
<1>2. 0..Len(server) \subseteq 0..Len(server')
  BY DEF Grows
<1>3. ASSUME wire.state = "answered", sync.phase = "push"
      PROVE  /\ wire.answer \in [DOMAIN wire.req -> 0..Len(server')]
             /\ \A i \in DOMAIN wire.req :
                  wire.req[i].id \in DOMAIN receipts' /\ wire.answer[i] = receipts'[wire.req[i].id]
  BY <1>2, <1>3 DEF SyncT, Grows
<1> QED
  BY <1>1, <1>3 DEF SyncT

LEMMA LinkStays ==
  ASSUME LinkT(Len(server)), Len(server) \in Nat, Grows, UNCHANGED link
  PROVE  LinkT(Len(server))'
<1>1. UNCHANGED <<socket, stream, live, again>>
  BY DEF link
<1>2. \A i \in DOMAIN stream : Paged(stream[i].page, Len(server'))
  BY PagedStays DEF Grows, LinkT
<1> QED
  BY <1>1, <1>2 DEF LinkT

\* So does it once the socket waits to send something.
LEMMA LinkNotified ==
  ASSUME LinkT(Len(server)), Len(server) \in Nat, Grows, NotifySync, UNCHANGED <<stream, live, again>>
  PROVE  LinkT(Len(server))'
<1>1. /\ socket' \in [open : BOOLEAN, delivered : Nat, pending : BOOLEAN]
      /\ socket'.open = socket.open /\ (socket'.pending => socket'.open)
  BY DEF LinkT, NotifySync
<1>2. \A i \in DOMAIN stream : Paged(stream[i].page, Len(server'))
  BY PagedStays DEF Grows, LinkT
<1> QED
  BY <1>1, <1>2 DEF LinkT

LEMMA FlightsStay ==
  ASSUME FlightsT(Len(server)), Len(server) \in Nat, ops \in Nat, Grows, Flights' \subseteq Flights
  PROVE  FlightsT(Len(server))'
<1> SUFFICES ASSUME NEW q \in Flights
             PROVE  Asked(q, Len(server')) /\ \A i \in DOMAIN q : q[i].id <= ops'
  BY DEF FlightsT
<1>1. Asked(q, Len(server')) /\ q \in Seq(Request)
  BY AskedStays DEF Grows, FlightsT, Asked
<1>2. \A i \in DOMAIN q : q[i].id \in Nat /\ q[i].id <= ops
  <2>1. \A i \in DOMAIN q : q[i] \in Request /\ q[i].id <= ops
    BY <1>1 DEF FlightsT
  <2> QED
    BY <2>1 DEF Request, Ops
<1> QED
  BY <1>1, <1>2 DEF Grows

-----------------------------------------------------------------------------
(* The workspace.                                                          *)

LEMMA OutboxAdds ==
  ASSUME AccountT, OutboxT(Len(server)), ops < MaxOps, ops' = ops + 1, UNCHANGED server,
         NEW kind \in {"solve", "edit", "delete"}, NEW x \in Names(ops + 1, Len(server)),
         kind = "solve" => x = -(ops + 1), NEW v \in Value, NEW kept, Queue(kind, x, v, kept),
         kept = outbox \/ \E S : kept = Keeping(outbox, S)
  PROVE  OutboxT(Len(server))'
<1> DEFINE op == [id |-> ops + 1, kind |-> kind, local |-> x, val |-> v, error |-> FALSE]
<1>1. ops \in Nat /\ MaxOps \in Nat /\ ops + 1 \in Ops /\ outbox' = Append(kept, op)
  BY SyncAssumption DEF AccountT, Queue, Ops
<1>2. op \in Operation
  <2>1. x \in Local
    BY <1>1, NamesLocal
  <2> QED
    BY <1>1, <2>1 DEF Operation
<1>3. kept \in Seq(Operation) /\ Rising(kept) /\ Range(kept) \subseteq Range(outbox)
  <2>1. outbox \in Seq(Operation) /\ Rising(outbox)
    BY DEF OutboxT
  <2> QED
    BY <2>1, KeepingIs, KeepingRises
<1>4. ASSUME NEW i \in DOMAIN kept
      PROVE  /\ kept[i].id \in Nat /\ kept[i].id <= ops /\ kept[i].local \in Names(kept[i].id, Len(server))
             /\ kept[i].kind = "solve" => kept[i].local = -kept[i].id
  <2>1. kept[i] \in Range(outbox) /\ kept[i] \in Operation
    <3>1. kept[i] \in Range(kept)
      BY DEF Range
    <3> QED
      BY <1>3, <3>1
  <2>2. PICK j \in DOMAIN outbox : kept[i] = outbox[j]
    BY <2>1 DEF Range
  <2> QED
    BY <2>1, <2>2 DEF OutboxT, Operation, Ops
<1>5. op.id = ops + 1 /\ op.local = x /\ op.kind = kind
  OBVIOUS
<1> HIDE DEF op
<1>6. /\ outbox' \in Seq(Operation) /\ DOMAIN outbox' = 1..(Len(kept) + 1) /\ Len(kept) \in Nat
      /\ \A i \in 1..Len(kept) : outbox'[i] = kept[i]
      /\ outbox'[Len(kept) + 1] = op /\ DOMAIN kept = 1..Len(kept)
  BY <1>1, <1>2, <1>3
<1>7. Rising(outbox')
  <2> SUFFICES ASSUME NEW i \in DOMAIN outbox', NEW j \in DOMAIN outbox', i < j
               PROVE  outbox'[i].id < outbox'[j].id
    BY DEF Rising
  <2>1. i \in 1..Len(kept)
    BY <1>6
  <2>2. CASE j = Len(kept) + 1
    BY <1>1, <1>4, <1>5, <1>6, <2>1, <2>2
  <2>3. CASE j # Len(kept) + 1
    BY <1>3, <1>6, <2>1, <2>3 DEF Rising
  <2> QED
    BY <2>2, <2>3
<1>8. ASSUME NEW i \in DOMAIN outbox'
      PROVE  /\ outbox'[i].id <= ops' /\ outbox'[i].local \in Names(outbox'[i].id, Len(server'))
             /\ outbox'[i].kind = "solve" => outbox'[i].local = -outbox'[i].id
  <2>1. CASE i = Len(kept) + 1
    BY <1>1, <1>5, <1>6, <2>1
  <2>2. CASE i # Len(kept) + 1
    BY <1>1, <1>4, <1>6, <2>2
  <2> QED
    BY <2>1, <2>2
<1> QED
  BY <1>6, <1>7, <1>8 DEF OutboxT

LEMMA OutboxKeeps ==
  ASSUME OutboxT(Len(server)), NEW S, outbox' = Keeping(outbox, S), UNCHANGED <<server, ops>>
  PROVE  OutboxT(Len(server))'
<1>1. outbox \in Seq(Operation) /\ Rising(outbox)
  BY DEF OutboxT
<1>2. outbox' \in Seq(Operation) /\ Rising(outbox') /\ Range(outbox') \subseteq Range(outbox)
  BY <1>1, KeepingIs, KeepingRises
<1>3. ASSUME NEW i \in DOMAIN outbox'
      PROVE  \E j \in DOMAIN outbox : outbox'[i] = outbox[j]
  BY <1>2 DEF Range
<1> QED
  BY <1>2, <1>3 DEF OutboxT

\* Operations marked, or not any more, with an error.
LEMMA OutboxMarks ==
  ASSUME OutboxT(Len(server)), UNCHANGED <<server, ops>>,
         DOMAIN outbox' = DOMAIN outbox, NEW S,
         outbox' = [i \in DOMAIN outbox |-> [outbox[i] EXCEPT !.error = (i \in S)]]
           \/ outbox' = [i \in DOMAIN outbox |-> IF i \in S THEN [outbox[i] EXCEPT !.error = TRUE] ELSE outbox[i]]
  PROVE  /\ OutboxT(Len(server))'
         /\ \A i \in DOMAIN outbox : /\ outbox'[i].id = outbox[i].id /\ outbox'[i].kind = outbox[i].kind
                                     /\ outbox'[i].local = outbox[i].local
<1>1. outbox \in Seq(Operation) /\ Len(outbox) \in Nat /\ DOMAIN outbox = 1..Len(outbox)
  BY DEF OutboxT
<1>2. ASSUME NEW i \in DOMAIN outbox
      PROVE  /\ outbox'[i] \in Operation /\ outbox'[i].id = outbox[i].id /\ outbox'[i].kind = outbox[i].kind
             /\ outbox'[i].local = outbox[i].local
  <2>1. outbox[i] \in Operation
    BY <1>1
  <2>2. PICK e \in BOOLEAN : outbox'[i] = [outbox[i] EXCEPT !.error = e] \/ outbox'[i] = outbox[i]
    <3>1. CASE outbox' = [j \in DOMAIN outbox |-> [outbox[j] EXCEPT !.error = (j \in S)]]
      <4>1. outbox'[i] = [outbox[i] EXCEPT !.error = (i \in S)]
        BY <3>1
      <4>2. (i \in S) \in BOOLEAN
        OBVIOUS
      <4> QED
        BY <4>1, <4>2
    <3>2. CASE outbox' = [j \in DOMAIN outbox |-> IF j \in S THEN [outbox[j] EXCEPT !.error = TRUE] ELSE outbox[j]]
      <4>1. outbox'[i] = [outbox[i] EXCEPT !.error = TRUE] \/ outbox'[i] = outbox[i]
        BY <3>2
      <4> QED
        BY <4>1
    <3> QED
      BY <3>1, <3>2
  <2> QED
    BY <2>1, <2>2 DEF Operation
<1>3. outbox' \in Seq(Operation)
  <2>1. outbox' \in [1..Len(outbox) -> Operation]
    BY <1>1, <1>2
  <2> QED
    BY <1>1, <2>1, IsASeq
<1>4. Rising(outbox')
  BY <1>1, <1>2 DEF OutboxT, Rising
<1> QED
  BY <1>1, <1>2, <1>3, <1>4 DEF OutboxT

\* An acknowledgement names the solves it carried, and drops the rows deleted.
LEMMA AckIs ==
  ASSUME TypeInv, AckPush
  PROVE  LET R == Range(wire.req)
         IN /\ rows' \in [DOMAIN rows' -> Row]
            /\ DOMAIN rows' = DOMAIN rows \ {o.local : o \in {o \in R : o.kind = "delete"}}
            /\ \A x \in DOMAIN rows' :
                 \/ /\ \E o \in R : o.kind = "solve" /\ o.local = x
                    /\ x < 0 /\ -x \in DOMAIN receipts /\ rows'[x] = [rows[x] EXCEPT !.sid = receipts[-x]]
                 \/ (\A o \in R : o.kind = "solve" => o.local # x) /\ rows'[x] = rows[x]
            /\ outbox' = LeftAfter(wire.req)
            /\ \A o \in R : o.id \in DOMAIN receipts
<1> DEFINE R == Range(wire.req)
           n == Len(server)
           sidOf(x) == {wire.answer[i] : i \in {i \in DOMAIN wire.req :
                          wire.req[i].kind = "solve" /\ wire.req[i].local = x}}
           named(x) == IF sidOf(x) = {} THEN rows[x]
                       ELSE [rows[x] EXCEPT !.sid = CHOOSE s \in sidOf(x) : TRUE]
           removed == {o.local : o \in {o \in R : o.kind = "delete"}}
<1>1. sync.phase = "push" /\ wire.state = "answered" /\ outbox' = LeftAfter(wire.req)
  BY DEF AckPush
<1>2. /\ wire.answer \in [DOMAIN wire.req -> 0..n]
      /\ \A i \in DOMAIN wire.req : wire.req[i].id \in DOMAIN receipts /\ wire.answer[i] = receipts[wire.req[i].id]
  BY <1>1 DEF TypeInv, SyncT
<1>3. /\ wire.req \in Seq(Request)
      /\ \A i \in DOMAIN wire.req : wire.req[i].kind = "solve" => wire.req[i].local = -wire.req[i].id
  BY DEF TypeInv, FlightsT, Flights, Asked
<1>4. rows' = [x \in DOMAIN rows \ removed |-> named(x)]
  <2>1. rows' = Without([x \in DOMAIN rows |-> named(x)], removed)
    BY DEF AckPush
  <2> HIDE DEF named, removed
  <2> QED
    BY <2>1 DEF Without
<1>5. n \in Nat /\ n <= MaxOps + MaxAdd /\ rows \in [DOMAIN rows -> Row]
  BY Fits DEF TypeInv, RowsT
<1>6. ASSUME NEW x \in DOMAIN rows
      PROVE  /\ named(x) \in Row
             /\ \/ /\ \E o \in R : o.kind = "solve" /\ o.local = x
                   /\ x < 0 /\ -x \in DOMAIN receipts /\ named(x) = [rows[x] EXCEPT !.sid = receipts[-x]]
                \/ (\A o \in R : o.kind = "solve" => o.local # x) /\ named(x) = rows[x]
  <2>0. rows[x] \in Row
    BY <1>5
  <2>1. CASE \E i \in DOMAIN wire.req : wire.req[i].kind = "solve" /\ wire.req[i].local = x
    <3>1. PICK i \in DOMAIN wire.req : wire.req[i].kind = "solve" /\ wire.req[i].local = x
      BY <2>1
    <3>2. wire.req[i].id \in Ops /\ wire.req[i].id = -x /\ x < 0
      <4>1. wire.req[i] \in Request /\ x = -wire.req[i].id
        BY <1>3, <3>1
      <4>2. wire.req[i].id \in Ops
        BY <4>1 DEF Request
      <4> QED
        BY <4>1, <4>2 DEF Ops
    <3>3. ASSUME NEW j \in DOMAIN wire.req, wire.req[j].kind = "solve", wire.req[j].local = x
          PROVE  wire.answer[j] = receipts[-x]
      <4>1. wire.req[j] \in Request /\ x = -wire.req[j].id
        BY <1>3, <3>3
      <4>2. wire.req[j].id \in Ops
        BY <4>1 DEF Request
      <4>3. wire.req[j].id = -x
        BY <4>1, <4>2 DEF Ops
      <4> QED
        BY <1>2, <4>3
    <3>4. sidOf(x) = {receipts[-x]}
      BY <3>1, <3>3
    <3>5. -x \in DOMAIN receipts /\ receipts[-x] \in 0..n
      BY <1>2, <3>1, <3>2
    <3>6. named(x) = [rows[x] EXCEPT !.sid = receipts[-x]]
      <4> HIDE DEF sidOf
      <4> QED
        BY <3>4
    <3>7. receipts[-x] \in Sid \cup {0}
      BY <1>5, <3>5, SyncAssumption DEF Sid
    <3>8. named(x) \in Row
      <4> HIDE DEF named
      <4> QED
        BY <2>0, <3>6, <3>7 DEF Row
    <3>9. wire.req[i] \in R /\ wire.req[i].kind = "solve" /\ wire.req[i].local = x
      BY <3>1 DEF Range
    <3> QED
      BY <3>2, <3>5, <3>6, <3>8, <3>9
  <2>2. CASE ~\E i \in DOMAIN wire.req : wire.req[i].kind = "solve" /\ wire.req[i].local = x
    <3>1. sidOf(x) = {}
      BY <2>2
    <3>2. \A o \in R : o.kind = "solve" => o.local # x
      BY <2>2 DEF Range
    <3>3. named(x) = rows[x]
      BY <3>1
    <3> QED
      BY <2>0, <3>2, <3>3
  <2> QED
    BY <2>1, <2>2
<1>7. \A o \in R : o.id \in DOMAIN receipts
  BY <1>2 DEF Range
<1>8. DOMAIN rows' = DOMAIN rows \ removed /\ \A x \in DOMAIN rows' : rows'[x] = named(x) /\ x \in DOMAIN rows
  <2> HIDE DEF named, removed
  <2> QED
    BY <1>4
<1>9. rows' \in [DOMAIN rows' -> Row]
  <2> HIDE DEF named, removed, R
  <2> QED
    BY <1>4, <1>6, <1>8
<1> HIDE DEF named
<1> QED
  BY <1>1, <1>6, <1>7, <1>8, <1>9

\* The row of a solve of the server.
LEMMA LocalIs ==
  ASSUME NEW s \in Nat, s > 0
  PROVE  \/ LocalId(s) \in DOMAIN rows /\ LocalId(s) < 0 /\ rows[LocalId(s)].sid = s
         \/ LocalId(s) = s /\ \A x \in DOMAIN rows : x < 0 => rows[x].sid # s
BY DEF LocalId

\* What a merge that is not of an older page drops, writes and leaves.
Merged(page) ==
  /\ cursor' = page.cursor
  /\ outbox' = Keeping(outbox, {op \in Range(outbox) : op.local \notin Gone(page) \/ op.kind = "solve"})
  /\ rows' \in [DOMAIN rows' -> Row]
  /\ \A x \in DOMAIN rows' :
       /\ x \notin Gone(page)
       /\ \/ /\ x \in DOMAIN rows /\ rows'[x] = rows[x]
             /\ \A s \in DOMAIN page.solves : page.solves[s].gone \/ LocalId(s) # x \/ x \in Dirty
          \/ \E s \in DOMAIN page.solves :
               /\ ~page.solves[s].gone /\ LocalId(s) = x /\ x \notin Dirty
               /\ rows'[x] = [sid |-> s, val |-> page.solves[s].val, deleted |-> FALSE]
  /\ \A x \in DOMAIN rows : x \notin Gone(page) => x \in DOMAIN rows'
  /\ \A s \in DOMAIN page.solves :
       ~page.solves[s].gone /\ LocalId(s) \notin Dirty /\ LocalId(s) \notin Gone(page) =>
         LocalId(s) \in DOMAIN rows'

LEMMA MergeIs ==
  ASSUME NEW n \in Nat, RowsT(n), n <= MaxOps + MaxAdd, NEW page, Paged(page, n), Merge(page), cursor \in Nat,
         page.cursor >= cursor
  PROVE  Merged(page)
<1> DEFINE gone == Gone(page)
           merged == {s \in DOMAIN page.solves : ~page.solves[s].gone /\ LocalId(s) \notin Dirty}
           into == {LocalId(s) : s \in merged}
           at == [x \in into |-> CHOOSE s \in merged : LocalId(s) = x]
           row(x) == IF x \in DOMAIN at
                     THEN [sid |-> at[x], val |-> page.solves[at[x]].val, deleted |-> FALSE]
                     ELSE rows[x]
<1>1. page.cursor \in Nat /\ DOMAIN page.solves \subseteq 1..n /\ page.solves \in [DOMAIN page.solves -> Stored]
  BY DEF Paged
<1>2. ~(page.cursor < cursor)
  BY <1>1
<1>3. /\ cursor' = page.cursor
      /\ outbox' = Keeping(outbox, {op \in Range(outbox) : op.local \notin gone \/ op.kind = "solve"})
      /\ rows' = [x \in (DOMAIN rows \cup DOMAIN at) \ gone |-> row(x)]
  BY <1>2 DEF Merge
<1>4. DOMAIN at = into
  OBVIOUS
<1>5. ASSUME NEW x \in into PROVE at[x] \in merged /\ LocalId(at[x]) = x
  <2>1. \E s \in merged : LocalId(s) = x
    BY <1>5
  <2>2. at[x] = CHOOSE s \in merged : LocalId(s) = x
    BY <1>5
  <2> HIDE DEF merged, at
  <2> QED
    BY <2>1, <2>2
<1>6. \A s \in merged : LocalId(s) \in into
  OBVIOUS
<1>7. \A s : s \in merged <=> s \in DOMAIN page.solves /\ ~page.solves[s].gone /\ LocalId(s) \notin Dirty
  OBVIOUS
<1>8. ASSUME NEW x \in into
      PROVE  /\ x \notin Dirty
             /\ \E s \in DOMAIN page.solves :
                  /\ ~page.solves[s].gone /\ LocalId(s) = x /\ x \notin Dirty
                  /\ row(x) = [sid |-> s, val |-> page.solves[s].val, deleted |-> FALSE]
             /\ row(x) \in Row
  <2>1. at[x] \in DOMAIN page.solves /\ ~page.solves[at[x]].gone /\ LocalId(at[x]) = x /\ x \notin Dirty
    BY <1>5, <1>7, <1>8
  <2> HIDE DEF at, into, merged
  <2>2. row(x) = [sid |-> at[x], val |-> page.solves[at[x]].val, deleted |-> FALSE]
    BY <1>4, <1>8
  <2>3. at[x] \in Sid /\ page.solves[at[x]].val \in Value
    <3>1. at[x] \in 1..n /\ page.solves[at[x]] \in Stored
      BY <1>1, <2>1
    <3> QED
      BY <3>1, SyncAssumption DEF Sid, Stored
  <2> HIDE DEF row
  <2>4. PICK s \in DOMAIN page.solves : s = at[x]
    BY <2>1
  <2>5. row(x) = [sid |-> s, val |-> page.solves[s].val, deleted |-> FALSE]
    BY <2>2, <2>4
  <2>6. row(x) \in Row
    BY <2>3, <2>4, <2>5 DEF Row
  <2>7. ~page.solves[s].gone /\ LocalId(s) = x /\ x \notin Dirty
    BY <2>1, <2>4
  <2> QED
    BY <2>5, <2>6, <2>7
<1>9. ASSUME NEW x \in DOMAIN rows, x \notin into
      PROVE  /\ row(x) = rows[x] /\ row(x) \in Row
             /\ \A s \in DOMAIN page.solves : page.solves[s].gone \/ LocalId(s) # x \/ x \in Dirty
  <2>1. row(x) = rows[x] /\ rows[x] \in Row
    BY <1>9 DEF RowsT
  <2>2. \A s \in DOMAIN page.solves : page.solves[s].gone \/ LocalId(s) # x \/ x \in Dirty
    BY <1>6, <1>7, <1>9
  <2> QED
    BY <2>1, <2>2
<1> HIDE DEF gone, merged, into, at, row
<1>10. DOMAIN rows' = (DOMAIN rows \cup into) \ gone /\ \A x \in DOMAIN rows' : rows'[x] = row(x)
  BY <1>3, <1>4
<1>11. rows' \in [DOMAIN rows' -> Row]
  <2>1. rows' = [x \in DOMAIN rows' |-> rows'[x]]
    BY <1>3
  <2>2. \A x \in DOMAIN rows' : rows'[x] \in Row
    BY <1>8, <1>9, <1>10
  <2> QED
    BY <2>1, <2>2
<1>12. ASSUME NEW x \in DOMAIN rows'
       PROVE  /\ x \notin gone
              /\ \/ /\ x \in DOMAIN rows /\ rows'[x] = rows[x]
                    /\ \A s \in DOMAIN page.solves : page.solves[s].gone \/ LocalId(s) # x \/ x \in Dirty
                 \/ \E s \in DOMAIN page.solves :
                      /\ ~page.solves[s].gone /\ LocalId(s) = x /\ x \notin Dirty
                      /\ rows'[x] = [sid |-> s, val |-> page.solves[s].val, deleted |-> FALSE]
  <2>1. x \notin gone /\ rows'[x] = row(x) /\ (x \in into \/ (x \in DOMAIN rows /\ x \notin into))
    BY <1>10, <1>12
  <2>2. CASE x \in into
    BY <1>8, <2>1, <2>2
  <2>3. CASE x \in DOMAIN rows /\ x \notin into
    BY <1>9, <2>1, <2>3
  <2> QED
    BY <2>1, <2>2, <2>3
<1>13. \A x \in DOMAIN rows : x \notin gone => x \in DOMAIN rows'
  BY <1>10
<1>14. \A s \in DOMAIN page.solves :
         ~page.solves[s].gone /\ LocalId(s) \notin Dirty /\ LocalId(s) \notin gone => LocalId(s) \in DOMAIN rows'
  BY <1>6, <1>7, <1>10
<1> QED
  BY <1>3, <1>11, <1>12, <1>13, <1>14 DEF gone, Merged

\* A merge leaves a workspace.
LEMMA MergeTypes ==
  ASSUME TypeInv, NEW page, Paged(page, Len(server)), Merge(page), UNCHANGED <<server, ops>>
  PROVE  RowsT(Len(server))' /\ OutboxT(Len(server))' /\ cursor' \in Nat
<1>1. /\ Len(server) \in Nat /\ Len(server) <= MaxOps + MaxAdd /\ cursor \in Nat /\ page.cursor \in Nat
      /\ RowsT(Len(server)) /\ OutboxT(Len(server))
      /\ DOMAIN page.solves \subseteq 1..Len(server)
  BY Fits DEF TypeInv, Paged
<1>2. CASE page.cursor < cursor
  <2>1. UNCHANGED <<rows, outbox, cursor>>
    BY <1>2 DEF Merge, workspace
  <2> QED
    BY <1>1, <2>1 DEF RowsT, OutboxT
<1>3. CASE page.cursor >= cursor
  <2>0. Merged(page)
    BY <1>1, <1>3, MergeIs
  <2>1. OutboxT(Len(server))'
    BY <1>1, <2>0, OutboxKeeps DEF Merged
  <2>2. ASSUME NEW x \in DOMAIN rows'
        PROVE  /\ x \in Names(ops, Len(server))
               /\ rows'[x].sid \in 0..Len(server) /\ (x > 0 => rows'[x].sid = x)
    <3>1. CASE x \in DOMAIN rows /\ rows'[x] = rows[x]
      BY <1>1, <3>1 DEF RowsT
    <3>2. CASE \E s \in DOMAIN page.solves :
                 /\ ~page.solves[s].gone /\ LocalId(s) = x /\ x \notin Dirty
                 /\ rows'[x] = [sid |-> s, val |-> page.solves[s].val, deleted |-> FALSE]
      <4>1. PICK s \in DOMAIN page.solves :
              LocalId(s) = x /\ rows'[x] = [sid |-> s, val |-> page.solves[s].val, deleted |-> FALSE]
        BY <3>2
      <4>2. s \in 1..Len(server) /\ s \in Nat /\ s > 0 /\ rows'[x].sid = s
        BY <1>1, <4>1
      <4>3. (x \in DOMAIN rows /\ x < 0) \/ x = s
        BY <4>1, <4>2, LocalIs
      <4>4. x \in Names(ops, Len(server))
        BY <1>1, <4>2, <4>3 DEF Names, RowsT
      <4>5. x \in Int
        BY <1>1, <4>4 DEF Names
      <4>6. x > 0 => x = s
        BY <4>3, <4>5
      <4>7. s \in 0..Len(server)
        BY <1>1, <4>2
      <4> QED
        BY <4>2, <4>4, <4>6, <4>7
    <3>3. \/ x \in DOMAIN rows /\ rows'[x] = rows[x]
          \/ \E s \in DOMAIN page.solves :
               /\ ~page.solves[s].gone /\ LocalId(s) = x /\ x \notin Dirty
               /\ rows'[x] = [sid |-> s, val |-> page.solves[s].val, deleted |-> FALSE]
      BY <2>0 DEF Merged
    <3> QED
      BY <3>1, <3>2, <3>3
  <2>3. rows' \in [DOMAIN rows' -> Row] /\ cursor' \in Nat
    BY <1>1, <2>0 DEF Merged
  <2> QED
    BY <2>1, <2>2, <2>3 DEF RowsT
<1> QED
  BY <1>1, <1>2, <1>3

-----------------------------------------------------------------------------
(* A push.                                                                 *)

LEMMA PendingIs ==
  ASSUME OutboxT(Len(server))
  PROVE  /\ Pending \in Seq(Operation) /\ Rising(Pending)
         /\ Range(Pending) = {op \in Range(outbox) : ~op.error}
<1>1. outbox \in Seq(Operation) /\ Rising(outbox)
  BY DEF OutboxT
<1> DEFINE S == {op \in Range(outbox) : ~op.error}
<1>2. Pending = Keeping(outbox, S)
  BY DEF Pending
<1>3. Pending \in Seq(Operation) /\ Range(Pending) = Range(outbox) \cap S
  BY <1>1, <1>2, KeepingIs
<1>4. Rising(Pending)
  BY <1>1, <1>2, KeepingRises
<1> QED
  BY <1>3, <1>4

\* The operations that wait first in a batch: solves, or one.
LEMMA BatchIs ==
  ASSUME OutboxT(Len(server)), Uploads, NEW B, B = Batch
  PROVE  /\ B \in Seq(Operation) /\ Rising(B) /\ B # <<>>
         /\ Range(B) \subseteq Range(Pending)
         /\ \/ \A i \in DOMAIN B : B[i].kind = "solve"
            \/ /\ Len(B) = 1 /\ DOMAIN B = {1}
               /\ \A o \in Range(Pending) : o.id >= B[1].id
<1> DEFINE P == Pending
           S == {op \in Range(P) : op.kind = "solve"}
           solves == Keeping(P, S)
           most == IF Len(solves) > MaxBatch THEN MaxBatch ELSE Len(solves)
<1>1. P \in Seq(Operation) /\ Rising(P) /\ P # <<>> /\ DOMAIN P = 1..Len(P) /\ Len(P) \in Nat
  <2>1. P \in Seq(Operation) /\ Rising(P) /\ Range(P) # {}
    BY PendingIs DEF Uploads
  <2> HIDE DEF P
  <2>2. P # <<>>
    BY <2>1 DEF Range
  <2> QED
    BY <2>1, <2>2
<1>2. B = IF sync.batching /\ Head(P).kind = "solve" /\ most > 1 THEN SubSeq(solves, 1, most) ELSE <<Head(P)>>
  BY DEF Batch
<1>3. solves \in Seq(Operation) /\ Range(solves) = Range(P) \cap S
  <2> HIDE DEF P, S
  <2> QED
    BY <1>1, KeepingIs
<1>4. Rising(solves)
  <2> HIDE DEF P, S
  <2> QED
    BY <1>1, KeepingRises
<1>5. \A o \in Range(solves) : o \in Range(P) /\ o.kind = "solve"
  <2> HIDE DEF P
  <2> QED
    BY <1>3
<1>6. Head(P) = P[1] /\ P[1] \in Operation /\ 1 \in DOMAIN P /\ P[1] \in Range(P)
  <2> HIDE DEF P
  <2> QED
    BY <1>1 DEF Range
<1> HIDE DEF P, S, solves
<1>7. CASE sync.batching /\ Head(P).kind = "solve" /\ most > 1
  <2>1. PICK m \in 1..Len(solves) : B = SubSeq(solves, 1, m)
    <3>1. most \in 1..Len(solves)
      BY <1>3, <1>7, SyncAssumption
    <3> QED
      BY <1>2, <1>7, <3>1
  <2>2. B \in Seq(Operation) /\ Len(B) = m /\ DOMAIN B = 1..m /\ \A i \in 1..m : B[i] = solves[i]
    BY <1>3, <2>1
  <2>3. Rising(B)
    BY <1>3, <1>4, <2>2 DEF Rising
  <2>4. \A i \in DOMAIN B : B[i] \in Range(solves)
    BY <1>3, <2>2 DEF Range
  <2>5. B # <<>> /\ Range(B) \subseteq Range(P) /\ \A i \in DOMAIN B : B[i].kind = "solve"
    <3>1. B # <<>>
      BY <2>2
    <3>2. Range(B) \subseteq Range(P)
      BY <1>5, <2>4 DEF Range
    <3> QED
      BY <1>5, <2>4, <3>1, <3>2
  <2> QED
    BY <2>2, <2>3, <2>5 DEF P
<1>8. CASE ~(sync.batching /\ Head(P).kind = "solve" /\ most > 1)
  <2>1. B = <<P[1]>>
    BY <1>2, <1>6, <1>8
  <2>2. B \in Seq(Operation) /\ Len(B) = 1 /\ DOMAIN B = {1} /\ B # <<>> /\ B[1] = P[1]
    BY <1>6, <2>1
  <2>3. Rising(B)
    BY <2>2 DEF Rising
  <2>4. Range(B) \subseteq Range(P)
    BY <1>6, <2>2 DEF Range
  <2>5. ASSUME NEW o \in Range(P) PROVE o.id >= B[1].id
    <3>1. PICK i \in DOMAIN P : o = P[i]
      BY DEF Range
    <3>2. P[i] \in Operation /\ i \in 1..Len(P)
      BY <1>1
    <3>3. P[i].id \in Int /\ P[1].id \in Int
      BY <1>6, <3>2 DEF Operation, Ops
    <3>4. CASE i = 1
      BY <2>2, <3>1, <3>3, <3>4
    <3>5. CASE i # 1
      <4>1. 1 < i
        BY <1>1, <3>2, <3>5
      <4>2. P[1].id < P[i].id
        BY <1>1, <1>6, <4>1 DEF Rising
      <4> QED
        BY <2>2, <3>1, <3>3, <4>2
    <3> QED
      BY <3>4, <3>5
  <2> QED
    BY <2>2, <2>3, <2>4, <2>5 DEF P
<1> QED
  BY <1>7, <1>8

\* A request: what is first in the outbox, solves by their local ids and the rest by the server's.
LEMMA PushIs ==
  ASSUME TypeInv, Uploads, NEW req, req = [i \in DOMAIN Batch |-> Named(Batch[i])],
         ~(req[1].kind # "solve" /\ req[1].sid = 0)
  PROVE  /\ Asked(req, Len(server)) /\ req # <<>>
         /\ \A i \in DOMAIN req : \E o \in Range(outbox) :
              req[i] = Named(o) /\ ~o.error /\ o.id <= ops /\ o \in Operation
         /\ \/ \A i \in DOMAIN req : req[i].kind = "solve"
            \/ DOMAIN req = {1} /\ \A o \in Range(outbox) : ~o.error => o.id >= req[1].id
<1> DEFINE B == Batch
           n == Len(server)
<1>1. OutboxT(n) /\ n \in Nat /\ n <= MaxOps + MaxAdd /\ RowsT(n)
  BY Fits DEF TypeInv
<1>2. /\ B \in Seq(Operation) /\ Rising(B) /\ B # <<>>
      /\ Range(B) \subseteq Range(Pending)
      /\ \/ \A i \in DOMAIN B : B[i].kind = "solve"
         \/ /\ Len(B) = 1 /\ DOMAIN B = {1}
            /\ \A o \in Range(Pending) : o.id >= B[1].id
  BY <1>1, BatchIs
<1>3. Range(Pending) = {op \in Range(outbox) : ~op.error}
  BY <1>1, PendingIs
<1> HIDE DEF B
<1>4. req = [i \in DOMAIN B |-> Named(B[i])] /\ DOMAIN B = 1..Len(B) /\ Len(B) \in Nat
  BY <1>2 DEF B
<1>5. ASSUME NEW i \in DOMAIN B
      PROVE  /\ B[i] \in Range(outbox) /\ ~B[i].error /\ B[i] \in Operation /\ B[i].id <= ops
             /\ B[i].local \in Names(B[i].id, n)
             /\ B[i].kind = "solve" => B[i].local = -B[i].id
  <2>1. B[i] \in Range(Pending) /\ B[i] \in Operation
    BY <1>2 DEF Range
  <2>2. B[i] \in Range(outbox) /\ ~B[i].error
    BY <1>3, <2>1
  <2>3. PICK j \in DOMAIN outbox : B[i] = outbox[j]
    BY <2>2 DEF Range
  <2> QED
    BY <1>1, <2>1, <2>2, <2>3 DEF OutboxT
<1>6. ASSUME NEW i \in DOMAIN B
      PROVE  /\ req[i] = Named(B[i]) /\ req[i].id = B[i].id /\ req[i].kind = B[i].kind /\ req[i].local = B[i].local
             /\ req[i].sid \in 0..n /\ req[i] \in Request
  <2>1. req[i] = Named(B[i]) /\ B[i] \in Operation
    BY <1>4, <1>5
  <2>2. SolveServerId(B[i].local) \in 0..n
    <3>1. B[i].local \in Names(B[i].id, n) /\ B[i].id \in Nat
      BY <1>5 DEF Operation, Ops
    <3>2. B[i].local > 0 => B[i].local \in 0..n
      BY <1>1, <3>1 DEF Names
    <3> QED
      BY <1>1, <3>2 DEF SolveServerId, RowsT
  <2>3. 0..n \subseteq Sid \cup {0}
    BY <1>1, SyncAssumption DEF Sid
  <2>4. /\ req[i].id = B[i].id /\ req[i].kind = B[i].kind /\ req[i].local = B[i].local /\ req[i].val = B[i].val
        /\ req[i].sid \in 0..n
    BY <1>1, <2>1, <2>2 DEF Named
  <2>5. req[i] \in Request
    BY <2>1, <2>2, <2>3, <1>1 DEF Named, Request, Operation
  <2> QED
    BY <2>1, <2>4, <2>5
<1>7. DOMAIN req = DOMAIN B /\ req \in Seq(Request) /\ Len(req) = Len(B)
  <2>1. req \in [1..Len(B) -> Request]
    BY <1>4, <1>6
  <2> QED
    BY <1>4, <2>1, IsASeq, LenProperties
<1>8. Rising(req)
  BY <1>2, <1>6, <1>7 DEF Rising
<1>9. req # <<>> /\ 1 \in DOMAIN B
  BY <1>2, <1>4, <1>7
<1>10. ASSUME NEW i \in DOMAIN req
       PROVE  IF req[i].kind = "solve" THEN req[i].local = -req[i].id ELSE req[i].sid \in 1..n
  <2>1. CASE req[i].kind = "solve"
    BY <1>5, <1>6, <1>7, <2>1
  <2>2. CASE req[i].kind # "solve"
    <3>1. i = 1
      BY <1>2, <1>6, <1>7, <2>2
    <3>2. req[i].sid # 0 /\ req[i].sid \in 0..n
      BY <1>6, <1>7, <2>2, <3>1
    <3> QED
      BY <1>1, <2>2, <3>2
  <2> QED
    BY <2>1, <2>2
<1>11. Len(req) <= 1 \/ \A i \in DOMAIN req : req[i].kind = "solve"
  <2>1. CASE \A i \in DOMAIN B : B[i].kind = "solve"
    BY <1>6, <1>7, <2>1
  <2>2. CASE Len(B) = 1
    BY <1>7, <2>2
  <2> QED
    BY <1>2, <2>1, <2>2
<1>12. \A i \in DOMAIN req : \E o \in Range(outbox) :
         req[i] = Named(o) /\ ~o.error /\ o.id <= ops /\ o \in Operation
  BY <1>5, <1>6, <1>7
<1>13. \/ \A i \in DOMAIN req : req[i].kind = "solve"
       \/ DOMAIN req = {1} /\ \A o \in Range(outbox) : ~o.error => o.id >= req[1].id
  <2>1. CASE \A i \in DOMAIN B : B[i].kind = "solve"
    BY <1>6, <1>7, <2>1
  <2>2. CASE DOMAIN B = {1} /\ \A o \in Range(Pending) : o.id >= B[1].id
    BY <1>3, <1>6, <1>7, <2>2
  <2> QED
    BY <1>2, <2>1, <2>2
<1> QED
  BY <1>7, <1>8, <1>9, <1>10, <1>11, <1>12, <1>13 DEF Asked

-----------------------------------------------------------------------------
(* Each step leaves the state of its type.                                 *)

LEMMA InitTypes == Init => TypeInv
<1> SUFFICES ASSUME Init PROVE TypeInv
  OBVIOUS
<1>1. /\ rows = <<>> /\ outbox = <<>> /\ cursor = 0 /\ ops = 0
      /\ server = <<>> /\ change = <<>> /\ seq = 0 /\ receipts = <<>> /\ refused \in Refusals
      /\ sync = Idle /\ wire = NoWire /\ late = {}
      /\ socket = NoSocket /\ stream = <<>> /\ live = NotLive /\ again = FALSE /\ faults = 0
  BY DEF Init
<1>2. /\ Made = {} /\ DOMAIN rows = {} /\ DOMAIN receipts = {} /\ DOMAIN change = {} /\ Len(server) = 0
      /\ server \in Seq(Stored) /\ change \in [{} -> Nat] /\ receipts \in [{} -> {0}] /\ rows \in [{} -> Row]
  BY <1>1 DEF Made
<1>3. AccountT
  <2>1. Cardinality({s \in Made : server[s].by = 0}) <= MaxAdd
    <3>1. {s \in Made : server[s].by = 0} = {}
      BY <1>2
    <3>2. Cardinality({}) = 0 /\ MaxAdd \in Nat
      BY FS_EmptySet, SyncAssumption
    <3>3. Cardinality({}) <= MaxAdd
      BY <3>2
    <3> QED
      BY <3>1, <3>3, Zenon
  <2>2. MaxOps \in Nat /\ DOMAIN receipts \subseteq 1..ops
    BY <1>2, SyncAssumption
  <2> QED
    BY <1>1, <1>2, <2>1, <2>2 DEF AccountT, CreatedOnce
<1>4. RowsT(Len(server)) /\ OutboxT(Len(server))
  <2>1. outbox \in Seq(Operation) /\ DOMAIN outbox = {}
    BY <1>1
  <2> QED
    BY <1>2, <2>1 DEF RowsT, OutboxT, Rising
<1>5. Paged(NoPage, Len(server))
  <2>1. NoPage.solves = <<>> /\ DOMAIN NoPage.solves = {} /\ NoPage.solves \in [{} -> Stored]
    BY DEF NoPage
  <2> QED
    BY <2>1 DEF Paged, NoPage
<1>6. SyncT(Len(server))
  <2>1. wire.req = <<>> /\ wire.page = NoPage /\ wire.state = "none" /\ sync.phase = "idle"
    BY <1>1 DEF NoWire, Idle
  <2>2. Paged(wire.page, Len(server))
    BY <1>5, <2>1
  <2> QED
    BY <1>1, <2>1, <2>2 DEF SyncT, NoWire, Idle
<1>7. LinkT(Len(server))
  <2>1. DOMAIN stream = {} /\ Range(stream) = {}
    BY <1>1 DEF Range
  <2>2. Messages(stream)
    BY <1>1 DEF Messages
  <2> QED
    BY <1>1, <2>1, <2>2 DEF LinkT, NoSocket, NotLive
<1>8. FlightsT(Len(server))
  <2>1. Flights = {<<>>} /\ DOMAIN <<>> = {} /\ Len(<<>>) = 0 /\ <<>> \in Seq(Request)
    BY <1>1 DEF Flights, NoWire
  <2> QED
    BY <2>1 DEF FlightsT, Asked, Rising
<1>9. cursor \in Nat /\ faults \in 0..MaxFaults
  BY <1>1, SyncAssumption
<1> QED
  BY <1>3, <1>4, <1>6, <1>7, <1>8, <1>9 DEF TypeInv

\* The parts of TypeInv of a step that leaves the account as it is.
LEMMA Same ==
  ASSUME TypeInv, UNCHANGED <<server, change, seq, receipts, refused, ops>>
  PROVE  /\ AccountT' /\ Grows /\ Len(server) \in Nat /\ ops \in Nat /\ MaxOps \in Nat
         /\ UNCHANGED rows => RowsT(Len(server))'
         /\ UNCHANGED outbox => OutboxT(Len(server))'
         /\ UNCHANGED <<sync, wire>> => SyncT(Len(server))'
         /\ UNCHANGED link => LinkT(Len(server))'
         /\ Flights' \subseteq Flights => FlightsT(Len(server))'
<1>1. AccountT /\ RowsT(Len(server)) /\ OutboxT(Len(server)) /\ SyncT(Len(server)) /\ LinkT(Len(server))
      /\ FlightsT(Len(server))
  BY DEF TypeInv
<1>2. Len(server) \in Nat /\ ops \in Nat /\ MaxOps \in Nat
  BY <1>1, Fits, SyncAssumption DEF AccountT
<1>3. AccountT' /\ Grows
  <2>1. UNCHANGED account /\ ops' \in {ops, ops + 1} /\ ops' <= MaxOps
    BY <1>1, <1>2 DEF account, AccountT
  <2> QED
    BY <1>1, <2>1, AccountStays
<1> QED
  BY <1>1, <1>2, <1>3, RowsStay, OutboxStays, SyncStays, LinkStays, FlightsStay

LEMMA Uses ==
  ASSUME TypeInv, Fault
  PROVE  faults' \in 0..MaxFaults
BY SyncAssumption DEF TypeInv, Fault

LEMMA QueueTypes ==
  ASSUME TypeInv, ops < MaxOps, ops' = ops + 1, NEW kind \in {"solve", "edit", "delete"},
         NEW x \in Names(ops + 1, Len(server)), kind = "solve" => x = -(ops + 1), NEW v \in Value,
         NEW kept, Queue(kind, x, v, kept), kept = outbox \/ \E S : kept = Keeping(outbox, S),
         rows' \in [DOMAIN rows' -> Row], DOMAIN rows' \subseteq DOMAIN rows \cup {x},
         \A y \in DOMAIN rows' : IF y \in DOMAIN rows THEN rows'[y].sid = rows[y].sid
                                 ELSE y < 0 /\ rows'[y].sid = 0,
         UNCHANGED <<cursor, account, sync, wire, late, link, faults>>
  PROVE  TypeInv'
<1>1. AccountT /\ RowsT(Len(server)) /\ OutboxT(Len(server)) /\ SyncT(Len(server)) /\ LinkT(Len(server))
      /\ FlightsT(Len(server)) /\ cursor \in Nat /\ faults \in 0..MaxFaults
  BY DEF TypeInv
<1>2. Len(server) \in Nat /\ ops \in Nat /\ MaxOps \in Nat
  BY <1>1, Fits, SyncAssumption DEF AccountT
<1>3. AccountT' /\ Grows
  <2>1. ops' \in {ops, ops + 1} /\ ops' <= MaxOps
    BY <1>2
  <2> QED
    BY <1>1, <2>1, AccountStays
<1>4. UNCHANGED server
  BY DEF account
<1>5. OutboxT(Len(server))'
  BY <1>1, <1>4, OutboxAdds
<1>6. RowsT(Len(server))'
  <2>1. Names(ops, Len(server)) \subseteq Names(ops + 1, Len(server))
    BY <1>2, NamesStay
  <2>2. ASSUME NEW y \in DOMAIN rows'
        PROVE  /\ y \in Names(ops + 1, Len(server))
               /\ rows'[y].sid \in 0..Len(server) /\ (y > 0 => rows'[y].sid = y)
    <3>0. y \in Names(ops + 1, Len(server))
      BY <1>1, <2>1 DEF RowsT
    <3>1. CASE y \in DOMAIN rows
      BY <1>1, <3>0, <3>1 DEF RowsT
    <3>2. CASE y \notin DOMAIN rows
      <4>1. y < 0 /\ rows'[y].sid = 0 /\ y \in Int
        BY <1>2, <3>0, <3>2 DEF Names
      <4> QED
        BY <1>2, <3>0, <4>1
    <3> QED
      BY <3>1, <3>2
  <2> QED
    BY <1>4, <2>2 DEF RowsT
<1>7. SyncT(Len(server))' /\ LinkT(Len(server))'
  BY <1>1, <1>2, <1>3, SyncStays, LinkStays
<1>8. FlightsT(Len(server))'
  <2>1. Flights' \subseteq Flights
    BY DEF Flights
  <2> QED
    BY <1>1, <1>2, <1>3, <2>1, FlightsStay
<1> QED
  BY <1>1, <1>3, <1>5, <1>6, <1>7, <1>8 DEF TypeInv

LEMMA AddSolveTypes == ASSUME TypeInv, NEW v \in Value, AddSolve(v) PROVE TypeInv'
<1> DEFINE x == -(ops + 1)
           row == [sid |-> 0, val |-> v, deleted |-> FALSE]
<1>1. ops < MaxOps /\ ops' = ops + 1 /\ Queue("solve", x, v, outbox) /\ rows' = With(rows, x, row)
      /\ UNCHANGED <<cursor, account, sync, wire, late, link, faults>>
  BY DEF AddSolve
<1>2. ops \in Nat /\ Len(server) \in Nat /\ rows \in [DOMAIN rows -> Row] /\ DOMAIN rows \subseteq Names(ops, Len(server))
  BY Fits DEF TypeInv, AccountT, RowsT
<1>3. x \in Names(ops + 1, Len(server)) /\ x < 0
  BY <1>2 DEF Names
<1>4. row \in Row /\ row.sid = 0
  BY DEF Row
<1> HIDE DEF row
<1>5. rows' = [y \in DOMAIN rows \cup {x} |-> IF y = x THEN row ELSE rows[y]]
  BY <1>1 DEF With
<1>6. x \notin DOMAIN rows
  <2>1. x \notin Names(ops, Len(server))
    BY <1>2 DEF Names
  <2> QED
    BY <1>2, <2>1
<1> HIDE DEF x
<1>7. rows' \in [DOMAIN rows' -> Row]
  BY <1>2, <1>4, <1>5
<1>8. DOMAIN rows' \subseteq DOMAIN rows \cup {x}
  BY <1>5
<1>9. \A y \in DOMAIN rows' : IF y \in DOMAIN rows THEN rows'[y].sid = rows[y].sid
                              ELSE y < 0 /\ rows'[y].sid = 0
  BY <1>3, <1>4, <1>5, <1>6
<1>10. x = -(ops + 1)
  BY DEF x
<1> QED
  BY <1>1, <1>3, <1>7, <1>8, <1>9, <1>10, QueueTypes

LEMMA EditSolveTypes == ASSUME TypeInv, NEW x \in DOMAIN rows, NEW v \in Value, EditSolve(x, v) PROVE TypeInv'
<1> DEFINE S == {op \in Range(outbox) : ~(op.kind = "edit" /\ ~op.error /\ op.local = x)}
           kept == IF ~Coalesce THEN outbox ELSE Keeping(outbox, S)
<1>1. ops < MaxOps /\ ops' = ops + 1 /\ Queue("edit", x, v, kept) /\ rows' = [rows EXCEPT ![x].val = v]
      /\ UNCHANGED <<cursor, account, sync, wire, late, link, faults>>
  BY DEF EditSolve
<1>2. ops \in Nat /\ Len(server) \in Nat /\ rows \in [DOMAIN rows -> Row] /\ DOMAIN rows \subseteq Names(ops, Len(server))
  BY Fits DEF TypeInv, AccountT, RowsT
<1>3. x \in Names(ops + 1, Len(server))
  BY <1>2, NamesStay
<1>4. kept = outbox \/ \E U : kept = Keeping(outbox, U)
  OBVIOUS
<1> HIDE DEF kept
<1>5. /\ rows' \in [DOMAIN rows' -> Row] /\ DOMAIN rows' = DOMAIN rows
      /\ \A y \in DOMAIN rows : rows'[y].sid = rows[y].sid
  BY <1>1, <1>2 DEF Row
<1> QED
  BY <1>1, <1>3, <1>4, <1>5, QueueTypes

LEMMA DeleteSolveTypes == ASSUME TypeInv, NEW x \in DOMAIN rows, DeleteSolve(x) PROVE TypeInv'
<1>1. ops < MaxOps /\ ops' = ops + 1 /\ Queue("delete", x, rows[x].val, outbox) /\ rows' = [rows EXCEPT ![x].deleted = TRUE]
      /\ UNCHANGED <<cursor, account, sync, wire, late, link, faults>>
  BY DEF DeleteSolve
<1>2. ops \in Nat /\ Len(server) \in Nat /\ rows \in [DOMAIN rows -> Row] /\ DOMAIN rows \subseteq Names(ops, Len(server))
  BY Fits DEF TypeInv, AccountT, RowsT
<1>3. x \in Names(ops + 1, Len(server)) /\ rows[x].val \in Value
  BY <1>2, NamesStay DEF Row
<1>5. /\ rows' \in [DOMAIN rows' -> Row] /\ DOMAIN rows' = DOMAIN rows
      /\ \A y \in DOMAIN rows : rows'[y].sid = rows[y].sid
  BY <1>1, <1>2 DEF Row
<1> QED
  BY <1>1, <1>3, <1>5, QueueTypes

LEMMA RetryTypes == ASSUME TypeInv, Retry PROVE TypeInv'
<1>1. /\ outbox' = [i \in DOMAIN outbox |-> [outbox[i] EXCEPT !.error = FALSE]] /\ Fault
      /\ UNCHANGED <<rows, cursor, ops, account, sync, wire, late, link>>
  BY DEF Retry
<1>2. faults' \in 0..MaxFaults
  BY <1>1, Uses
<1>3. UNCHANGED <<server, change, seq, receipts, refused, ops>> /\ Flights' \subseteq Flights
  BY <1>1 DEF account, Flights
<1>4. OutboxT(Len(server))'
  <2>1. outbox' = [i \in DOMAIN outbox |-> [outbox[i] EXCEPT !.error = (i \in {})]]
    <3>1. \A i : (i \in {}) = FALSE
      OBVIOUS
    <3> QED
      BY <1>1, <3>1, Zenon
  <2>2. OutboxT(Len(server)) /\ DOMAIN outbox' = DOMAIN outbox
    BY <1>1 DEF TypeInv
  <2> QED
    BY <1>3, <2>1, <2>2, OutboxMarks
<1> QED
  BY <1>1, <1>2, <1>3, <1>4, Same DEF TypeInv

\* A change by another device.
LEMMA OtherTypes ==
  ASSUME TypeInv, AccountT', Grows, NotifySync,
         UNCHANGED <<workspace, ops, refused, sync, wire, late, stream, live, again, faults>>
  PROVE  TypeInv'
<1>1. AccountT /\ RowsT(Len(server)) /\ OutboxT(Len(server)) /\ SyncT(Len(server)) /\ LinkT(Len(server))
      /\ FlightsT(Len(server)) /\ cursor \in Nat /\ faults \in 0..MaxFaults
  BY DEF TypeInv
<1>2. Len(server) \in Nat /\ ops \in Nat /\ MaxOps \in Nat
  BY <1>1, Fits, SyncAssumption DEF AccountT
<1>3. UNCHANGED <<rows, outbox, cursor>> /\ Flights' \subseteq Flights
  BY DEF workspace, Flights
<1>4. RowsT(Len(server))' /\ OutboxT(Len(server))' /\ SyncT(Len(server))' /\ FlightsT(Len(server))'
  BY <1>1, <1>2, <1>3, RowsStay, OutboxStays, SyncStays, FlightsStay
<1>5. LinkT(Len(server))'
  BY <1>1, <1>2, LinkNotified
<1> QED
  BY <1>1, <1>3, <1>4, <1>5 DEF TypeInv

LEMMA OtherAddsTypes == ASSUME TypeInv, NEW v \in Value, OtherDeviceAdds(v) PROVE TypeInv'
<1>1. AccountT' /\ Grows
  BY AccountAdds DEF TypeInv
<1>2. NotifySync /\ UNCHANGED <<workspace, ops, refused, sync, wire, late, stream, live, again, faults>>
  BY DEF OtherDeviceAdds
<1> QED
  BY <1>1, <1>2, OtherTypes

\* What another device makes of a solve.
LEMMA OtherChanges ==
  ASSUME TypeInv, NEW s \in Made,
         OtherDeviceDeletes(s) \/ \E v \in Value : OtherDeviceEdits(s, v)
  PROVE  /\ AccountT' /\ Grows /\ Len(server') = Len(server)
         /\ NotifySync /\ UNCHANGED <<workspace, ops, receipts, refused, sync, wire, late, stream, live, again, faults>>
         /\ ~server[s].gone /\ server'[s] \in Stored /\ server'[s].by = server[s].by
         /\ server' = [server EXCEPT ![s] = server'[s]]
         /\ change' = [change EXCEPT ![s] = seq + 1] /\ seq' = seq + 1
<1>1. server \in Seq(Stored) /\ server[s] \in Stored /\ AccountT
  BY DEF TypeInv, AccountT, Made
<1>2. /\ change' = [change EXCEPT ![s] = seq + 1] /\ seq' = seq + 1 /\ NotifySync /\ ~server[s].gone
      /\ UNCHANGED <<workspace, ops, receipts, refused, sync, wire, late, stream, live, again, faults>>
  BY DEF OtherDeviceDeletes, OtherDeviceEdits
<1>3. PICK w \in Stored : server' = [server EXCEPT ![s] = w] /\ w.by = server[s].by
  <2>1. CASE OtherDeviceDeletes(s)
    <3>1. [server[s] EXCEPT !.gone = TRUE] \in Stored /\ [server[s] EXCEPT !.gone = TRUE].by = server[s].by
      BY <1>1 DEF Stored
    <3>2. server' = [server EXCEPT ![s] = [server[s] EXCEPT !.gone = TRUE]]
      BY <2>1 DEF OtherDeviceDeletes
    <3> QED
      BY <3>1, <3>2
  <2>2. CASE \E v \in Value : OtherDeviceEdits(s, v)
    <3>0. PICK v \in Value : OtherDeviceEdits(s, v)
      BY <2>2
    <3>1. [server[s] EXCEPT !.val = v] \in Stored /\ [server[s] EXCEPT !.val = v].by = server[s].by
      BY <1>1 DEF Stored
    <3>2. server' = [server EXCEPT ![s] = [server[s] EXCEPT !.val = v]]
      BY <3>0 DEF OtherDeviceEdits
    <3> QED
      BY <3>1, <3>2
  <2> QED
    BY <2>1, <2>2
<1>4. server'[s] = w
  BY <1>1, <1>3 DEF Made
<1>5. AccountT' /\ Grows /\ Len(server') = Len(server)
  BY <1>1, <1>2, <1>3, AccountChanges
<1> QED
  BY <1>2, <1>3, <1>4, <1>5

LEMMA OtherChangesTypes ==
  ASSUME TypeInv, NEW s \in Made, OtherDeviceDeletes(s) \/ \E v \in Value : OtherDeviceEdits(s, v)
  PROVE  TypeInv'
BY OtherChanges, OtherTypes

\* A request served: what it leaves of the account, and what it is answered.
LEMMA Served ==
  ASSUME TypeInv, NEW req \in Flights, Apply(req), UNCHANGED ops
  PROVE  /\ Applied(req) /\ AccountT' /\ Grows
         /\ \A i \in DOMAIN req : /\ req[i].id \in DOMAIN receipts'
                                  /\ Answer(req, req[i]) = receipts'[req[i].id]
                                  /\ receipts'[req[i].id] \in 0..Len(server')
<1>1. AccountT /\ Asked(req, Len(server)) /\ ops \in Nat
  BY DEF TypeInv, FlightsT, AccountT
<1>2. Applied(req)
  BY <1>1, ApplyIs
<1>3. \A o \in Range(req) : o.id \in 1..ops
  <2> SUFFICES ASSUME NEW i \in DOMAIN req PROVE req[i].id \in 1..ops
    BY DEF Range
  <2>1. req[i] \in Request /\ req[i].id <= ops
    BY <1>1 DEF Asked, TypeInv, FlightsT
  <2> QED
    BY <1>1, <2>1 DEF Request, Ops
<1>4. AccountT' /\ Grows
  BY <1>1, <1>2, <1>3, AccountApplies
<1>5. ASSUME NEW i \in DOMAIN req
      PROVE  /\ req[i].id \in DOMAIN receipts' /\ Answer(req, req[i]) = receipts'[req[i].id]
             /\ receipts'[req[i].id] \in 0..Len(server')
  <2>1. req[i] \in Range(req)
    BY DEF Range
  <2>2. req[i].id \in DOMAIN receipts' /\ Answer(req, req[i]) = receipts'[req[i].id]
    BY <1>2, <2>1 DEF Applied
  <2>3. Len(server') \in Nat /\ Made' = 1..Len(server') /\ receipts' \in [DOMAIN receipts' -> Made' \cup {0}]
    BY <1>4 DEF AccountT, Made
  <2> QED
    BY <2>2, <2>3
<1> QED
  BY <1>2, <1>4, <1>5

LEMMA ServePushTypes == ASSUME TypeInv, ServePush PROVE TypeInv'
<1>1. /\ AccountT /\ RowsT(Len(server)) /\ OutboxT(Len(server)) /\ SyncT(Len(server)) /\ LinkT(Len(server))
      /\ FlightsT(Len(server)) /\ cursor \in Nat /\ faults \in 0..MaxFaults
      /\ Len(server) \in Nat /\ ops \in Nat /\ MaxOps \in Nat
  BY Fits, SyncAssumption DEF TypeInv, AccountT
<1>2. /\ sync.phase = "push" /\ wire.state = "sent"
      /\ UNCHANGED <<rows, outbox, cursor, ops, sync, late, stream, live, again>>
  BY DEF ServePush, workspace
<1>3. CASE /\ Apply(wire.req)
           /\ IF sync.via = "socket" \/ seq' # seq THEN NotifySync ELSE UNCHANGED socket
           /\ wire' = [wire EXCEPT !.state = "answered",
                 !.answer = [i \in DOMAIN wire.req |-> Answer(wire.req, wire.req[i])]]
           /\ UNCHANGED faults
  <2>1. PICK req \in Flights : req = wire.req
    BY DEF Flights
  <2>2. /\ AccountT' /\ Grows
        /\ \A i \in DOMAIN req : /\ req[i].id \in DOMAIN receipts'
                                 /\ Answer(req, req[i]) = receipts'[req[i].id]
                                 /\ receipts'[req[i].id] \in 0..Len(server')
    BY <1>2, <1>3, <2>1, Served
  <2>3. RowsT(Len(server))' /\ OutboxT(Len(server))'
    BY <1>1, <1>2, <2>2, RowsStay, OutboxStays
  <2>4. LinkT(Len(server))'
    <3>1. CASE NotifySync
      BY <1>1, <1>2, <2>2, <3>1, LinkNotified
    <3>2. CASE UNCHANGED socket
      <4>1. UNCHANGED link
        BY <1>2, <3>2 DEF link
      <4> QED
        BY <1>1, <2>2, <4>1, LinkStays
    <3> QED
      BY <1>3, <3>1, <3>2
  <2>5. /\ wire'.state = "answered" /\ wire'.req = wire.req /\ wire'.page = wire.page
        /\ wire'.answer = [i \in DOMAIN req |-> Answer(req, req[i])]
        /\ wire' = [state |-> wire'.state, req |-> wire'.req, answer |-> wire'.answer, page |-> wire'.page]
    BY <1>1, <1>3, <2>1 DEF SyncT
  <2>6. FlightsT(Len(server))'
    <3>1. Flights' \subseteq Flights
      BY <1>2, <2>5 DEF Flights
    <3> QED
      BY <1>1, <2>2, <3>1, FlightsStay
  <2>7. SyncT(Len(server))'
    <3>1. Paged(wire'.page, Len(server'))
      BY <1>1, <2>2, <2>5, PagedStays DEF SyncT, Grows
    <3>2. /\ wire'.answer \in [DOMAIN wire'.req -> 0..Len(server')]
          /\ \A i \in DOMAIN wire'.req :
               wire'.req[i].id \in DOMAIN receipts' /\ wire'.answer[i] = receipts'[wire'.req[i].id]
      BY <2>1, <2>2, <2>5
    <3> QED
      BY <1>1, <1>2, <2>5, <3>1, <3>2 DEF SyncT
  <2> QED
    BY <1>1, <1>2, <1>3, <2>2, <2>3, <2>4, <2>6, <2>7 DEF TypeInv
<1>4. CASE \E st \in {"error", "busy"} :
             wire' = [wire EXCEPT !.state = st] /\ UNCHANGED <<account, socket>> /\ faults' \in 0..MaxFaults
  <2>1. PICK st \in {"error", "busy"} :
          wire' = [wire EXCEPT !.state = st] /\ UNCHANGED <<account, socket>> /\ faults' \in 0..MaxFaults
    BY <1>4
  <2>2. UNCHANGED <<server, change, seq, receipts, refused, ops>> /\ UNCHANGED link
    BY <1>2, <2>1 DEF account, link
  <2>3. /\ wire'.state = st /\ wire'.req = wire.req /\ wire'.page = wire.page /\ wire'.answer = wire.answer
        /\ wire' = [state |-> wire'.state, req |-> wire'.req, answer |-> wire'.answer, page |-> wire'.page]
    BY <1>1, <2>1 DEF SyncT
  <2>4. Flights' \subseteq Flights
    BY <1>2, <2>3 DEF Flights
  <2>5. SyncT(Len(server))'
    BY <1>1, <1>2, <2>1, <2>2, <2>3 DEF SyncT
  <2> QED
    BY <1>1, <1>2, <2>1, <2>2, <2>4, <2>5, Same DEF TypeInv
<1>5. UNCHANGED faults => faults' \in 0..MaxFaults
  BY <1>1
<1>6. Fault => faults' \in 0..MaxFaults
  BY Uses
<1> QED
  BY <1>3, <1>4, <1>5, <1>6 DEF ServePush

LEMMA ServeLateTypes == ASSUME TypeInv, NEW req \in late, ServeLate(req) PROVE TypeInv'
<1>1. /\ AccountT /\ RowsT(Len(server)) /\ OutboxT(Len(server)) /\ SyncT(Len(server)) /\ LinkT(Len(server))
      /\ FlightsT(Len(server)) /\ cursor \in Nat /\ faults \in 0..MaxFaults
      /\ Len(server) \in Nat /\ ops \in Nat /\ MaxOps \in Nat
  BY Fits, SyncAssumption DEF TypeInv, AccountT
<1>2. /\ late' = late \ {req}
      /\ UNCHANGED <<rows, outbox, cursor, ops, sync, wire, stream, live, again, faults>>
      /\ Flights' \subseteq Flights
  BY DEF ServeLate, workspace, Flights
<1>3. CASE UNCHANGED <<account, socket>>
  <2>1. UNCHANGED <<server, change, seq, receipts, refused, ops>> /\ UNCHANGED link
    BY <1>2, <1>3 DEF account, link
  <2> QED
    BY <1>1, <1>2, <2>1, Same DEF TypeInv
<1>4. CASE Apply(req) /\ NotifySync
  <2>1. AccountT' /\ Grows
    <3>1. req \in Flights
      BY DEF Flights
    <3> QED
      BY <1>2, <1>4, <3>1, Served
  <2>2. RowsT(Len(server))' /\ OutboxT(Len(server))' /\ SyncT(Len(server))' /\ LinkT(Len(server))' /\ FlightsT(Len(server))'
    BY <1>1, <1>2, <1>4, <2>1, RowsStay, OutboxStays, SyncStays, LinkNotified, FlightsStay
  <2> QED
    BY <1>1, <1>2, <2>1, <2>2 DEF TypeInv
<1> QED
  BY <1>3, <1>4 DEF ServeLate

\* A page the server reads.
LEMMA PageIs ==
  ASSUME AccountT, NEW after \in Nat
  PROVE  /\ Paged(Page(after), Len(server)) /\ Page(after).after = after
         /\ Page(after).cursor \in {seq, after}
         /\ DOMAIN Page(after).solves = {s \in Made : change[s] > after}
         /\ \A s \in Made : change[s] > after => Page(after).solves[s] = server[s] /\ Page(after).cursor = seq
<1>1. server \in Seq(Stored) /\ Made = 1..Len(server) /\ seq \in Nat
  BY DEF AccountT, Made
<1>2. /\ Page(after).after = after
      /\ Page(after).cursor = IF \E s \in Made : change[s] > after THEN seq ELSE after
      /\ Page(after).solves = [s \in {s \in Made : change[s] > after} |-> server[s]]
      /\ Page(after) = [after |-> Page(after).after, cursor |-> Page(after).cursor, solves |-> Page(after).solves]
  BY DEF Page
<1> QED
  BY <1>1, <1>2 DEF Paged

LEMMA ServePullTypes == ASSUME TypeInv, ServePull PROVE TypeInv'
<1>1. AccountT /\ SyncT(Len(server)) /\ LinkT(Len(server)) /\ Len(server) \in Nat
      /\ Paged(wire.page, Len(server)) /\ wire.page.after \in Nat /\ seq \in Nat /\ faults \in 0..MaxFaults
  BY Fits DEF TypeInv, SyncT, AccountT, Paged
<1>2. /\ sync.phase = "pull" /\ wire.state = "sent"
      /\ UNCHANGED <<rows, outbox, cursor, ops, sync, late, stream, live, again>>
      /\ UNCHANGED <<server, change, seq, receipts, refused>>
  BY DEF ServePull, workspace, account
<1>3. Paged(Page(wire.page.after), Len(server)) /\ Page(wire.page.after).cursor \in Nat
  BY <1>1, PageIs
<1>4. /\ wire'.state \in {"answered", "busy"} /\ wire'.req = wire.req /\ wire'.answer = wire.answer
      /\ Paged(wire'.page, Len(server))
      /\ wire' = [state |-> wire'.state, req |-> wire'.req, answer |-> wire'.answer, page |-> wire'.page]
  <2>1. CASE wire' = [wire EXCEPT !.state = "answered", !.page = Page(wire.page.after)]
    BY <1>1, <1>3, <2>1 DEF SyncT
  <2>2. CASE wire' = [wire EXCEPT !.state = "busy"]
    BY <1>1, <2>2 DEF SyncT
  <2> QED
    BY <2>1, <2>2 DEF ServePull
<1>5. SyncT(Len(server))'
  BY <1>1, <1>2, <1>4 DEF SyncT
<1>6. Flights' \subseteq Flights
  BY <1>2, <1>4 DEF Flights
<1>7. LinkT(Len(server))'
  <2>1. socket' \in [open : BOOLEAN, delivered : Nat, pending : BOOLEAN]
        /\ socket'.open = socket.open /\ socket'.pending = socket.pending
    <3>1. CASE UNCHANGED socket
      BY <1>1, <3>1 DEF LinkT
    <3>2. CASE socket' = [socket EXCEPT !.delivered = IF @ > wire'.page.cursor THEN @ ELSE wire'.page.cursor]
      <4>1. wire'.page.cursor \in Nat
        BY <1>4 DEF Paged
      <4> QED
        BY <1>1, <3>2, <4>1 DEF LinkT
    <3> QED
      BY <3>1, <3>2 DEF ServePull
  <2> QED
    BY <1>1, <1>2, <2>1 DEF LinkT
<1>8. faults' \in 0..MaxFaults
  <2>1. UNCHANGED faults \/ Fault
    BY DEF ServePull
  <2> QED
    BY <1>1, <2>1, Uses
<1> QED
  BY <1>2, <1>5, <1>6, <1>7, <1>8, Same DEF TypeInv

\* A synchronization begins.
LEMMA StartTypes ==
  ASSUME TypeInv, sync.phase = "idle", NEW l \in [on : BOOLEAN, needsPull : BOOLEAN], Started(l),
         UNCHANGED <<server, wire>>, DOMAIN receipts \subseteq DOMAIN receipts',
         \A o \in DOMAIN receipts : receipts'[o] = receipts[o]
  PROVE  SyncT(Len(server))'
<1>1. SyncT(Len(server))
  BY DEF TypeInv
<1>2. sync' = [phase |-> "loop", via |-> IF l.on THEN "socket" ELSE "http", batching |-> TRUE]
  BY DEF Started
<1>3. /\ sync' \in [phase : {"idle", "loop", "push", "pull"}, via : {"http", "socket"}, batching : BOOLEAN]
      /\ sync'.phase = "loop"
  BY <1>2
<1> QED
  BY <1>1, <1>3 DEF SyncT

LEMMA StartSyncTypes == ASSUME TypeInv, StartSync PROVE TypeInv'
<1>1. /\ sync.phase = "idle" /\ Started(live)
      /\ UNCHANGED <<workspace, ops, account, wire, late, link, faults>>
  BY DEF StartSync
<1>2. UNCHANGED <<server, change, seq, receipts, refused, ops>> /\ UNCHANGED <<rows, outbox, cursor>>
      /\ Flights' \subseteq Flights
  BY <1>1 DEF account, workspace, Flights
<1>3. live \in [on : BOOLEAN, needsPull : BOOLEAN] /\ cursor \in Nat /\ faults \in 0..MaxFaults
  BY DEF TypeInv, LinkT
<1>4. SyncT(Len(server))'
  BY <1>1, <1>2, <1>3, StartTypes
<1> QED
  BY <1>1, <1>2, <1>3, <1>4, Same DEF TypeInv

\* A page not read yet.
LEMMA NoPageIs ==
  ASSUME NEW n
  PROVE  Paged(NoPage, n) /\ \A c \in Nat : Paged([NoPage EXCEPT !.after = c], n)
<1>1. DOMAIN <<>> = {} /\ <<>> \in [{} -> Stored]
  OBVIOUS
<1>2. Paged(NoPage, n)
  BY <1>1 DEF Paged, NoPage
<1>3. ASSUME NEW c \in Nat PROVE Paged([NoPage EXCEPT !.after = c], n)
  <2>1. [NoPage EXCEPT !.after = c] = [after |-> c, cursor |-> 0, solves |-> <<>>]
    BY DEF NoPage
  <2>2. PICK p : p = [after |-> c, cursor |-> 0, solves |-> <<>>]
    OBVIOUS
  <2>3. p.after = c /\ p.cursor = 0 /\ p.solves = <<>> /\ p = [after |-> p.after, cursor |-> p.cursor, solves |-> p.solves]
    BY <2>2
  <2>4. Paged(p, n)
    BY <1>1, <2>3 DEF Paged
  <2> QED
    BY <2>1, <2>2, <2>4
<1> QED
  BY <1>2, <1>3

\* A request, or none, of a synchronization.
LEMMA WireTypes ==
  ASSUME TypeInv, UNCHANGED server,
         sync' \in [phase : {"idle", "loop", "push", "pull"}, via : {"http", "socket"}, batching : BOOLEAN],
         \/ wire' = NoWire /\ sync'.phase \in {"idle", "loop"}
         \/ \E req : req # <<>> /\ wire' = [NoWire EXCEPT !.state = "sent", !.req = req] /\ sync'.phase = "push"
         \/ \E c \in Nat : wire' = [NoWire EXCEPT !.state = "sent", !.page = [NoPage EXCEPT !.after = c]]
                           /\ sync'.phase = "pull"
  PROVE  SyncT(Len(server))'
<1>1. \A c \in Nat : Paged([NoPage EXCEPT !.after = c], Len(server))
  BY NoPageIs
<1>2. Paged(NoPage, Len(server))
  BY NoPageIs
<1>3. CASE wire' = NoWire /\ sync'.phase \in {"idle", "loop"}
  <2>1. wire' = [state |-> "none", req |-> <<>>, answer |-> <<>>, page |-> NoPage]
    BY <1>3 DEF NoWire
  <2> HIDE DEF NoPage
  <2>2. /\ wire'.state = "none" /\ wire'.req = <<>> /\ wire'.page = NoPage
        /\ wire' = [state |-> wire'.state, req |-> wire'.req, answer |-> wire'.answer, page |-> wire'.page]
    BY <2>1
  <2>3. /\ Paged(wire'.page, Len(server')) /\ (sync'.phase = "idle" \/ sync'.phase = "loop")
        /\ wire'.state \in {"none", "sent", "answered", "error", "busy"}
    BY <1>2, <1>3, <2>2
  <2>4. (sync'.phase \in {"push", "pull"}) <=> (wire'.state # "none")
    <3>1. sync'.phase \notin {"push", "pull"}
      BY <2>3
    <3>2. ~(wire'.state # "none")
      BY <2>2
    <3> QED
      BY <3>1, <3>2
  <2>5. (sync'.phase = "push") <=> (wire'.req # <<>>)
    BY <2>2, <2>3
  <2>6. ~(wire'.state = "answered")
    BY <2>2
  <2> QED
    BY <2>2, <2>3, <2>4, <2>5, <2>6 DEF SyncT
<1>4. ASSUME NEW req, req # <<>>, wire' = [NoWire EXCEPT !.state = "sent", !.req = req], sync'.phase = "push"
      PROVE  SyncT(Len(server))'
  <2>1. wire' = [state |-> "sent", req |-> req, answer |-> <<>>, page |-> NoPage]
    BY <1>4 DEF NoWire
  <2>2. /\ wire'.state = "sent" /\ wire'.req = req /\ wire'.page = NoPage
        /\ wire' = [state |-> wire'.state, req |-> wire'.req, answer |-> wire'.answer, page |-> wire'.page]
    BY <2>1
  <2> QED
    BY <1>2, <1>4, <2>2 DEF SyncT
<1>5. ASSUME NEW page, Paged(page, Len(server)), wire' = [NoWire EXCEPT !.state = "sent", !.page = page],
             sync'.phase = "pull"
      PROVE  SyncT(Len(server))'
  <2>1. wire' = [state |-> "sent", req |-> <<>>, answer |-> <<>>, page |-> page]
    BY <1>5 DEF NoWire
  <2>2. /\ wire'.state = "sent" /\ wire'.req = <<>> /\ wire'.page = page
        /\ wire' = [state |-> wire'.state, req |-> wire'.req, answer |-> wire'.answer, page |-> wire'.page]
    BY <2>1
  <2> QED
    BY <1>5, <2>2 DEF SyncT
<1> QED
  BY <1>1, <1>3, <1>4, <1>5

LEMMA PushTypes == ASSUME TypeInv, Push PROVE TypeInv'
<1>1. /\ sync.phase = "loop" /\ Uploads
      /\ UNCHANGED <<workspace, ops, account, late, link, faults>>
      /\ sync \in [phase : {"idle", "loop", "push", "pull"}, via : {"http", "socket"}, batching : BOOLEAN]
      /\ cursor \in Nat /\ faults \in 0..MaxFaults /\ FlightsT(Len(server)) /\ SyncT(Len(server))
  BY DEF Push, TypeInv, SyncT
<1>2. UNCHANGED <<server, change, seq, receipts, refused, ops>> /\ UNCHANGED <<rows, outbox, cursor>>
  BY <1>1 DEF account, workspace
<1>3. PICK req : req = [i \in DOMAIN Batch |-> Named(Batch[i])]
  OBVIOUS
<1>4. \/ req[1].kind # "solve" /\ req[1].sid = 0 /\ sync' = Idle /\ UNCHANGED wire
      \/ /\ ~(req[1].kind # "solve" /\ req[1].sid = 0) /\ sync' = [sync EXCEPT !.phase = "push"]
         /\ wire' = [NoWire EXCEPT !.state = "sent", !.req = req]
  BY <1>3 DEF Push
<1>5. CASE sync' = Idle /\ UNCHANGED wire
  <2>1. Flights' \subseteq Flights
    BY <1>1, <1>5 DEF Flights
  <2>2. SyncT(Len(server))'
    BY <1>1, <1>2, <1>5 DEF SyncT, Idle
  <2> QED
    BY <1>1, <1>2, <2>1, <2>2, Same DEF TypeInv
<1>6. CASE /\ ~(req[1].kind # "solve" /\ req[1].sid = 0) /\ sync' = [sync EXCEPT !.phase = "push"]
           /\ wire' = [NoWire EXCEPT !.state = "sent", !.req = req]
  <2>1. /\ Asked(req, Len(server)) /\ req # <<>>
        /\ \A i \in DOMAIN req : \E o \in Range(outbox) :
             req[i] = Named(o) /\ ~o.error /\ o.id <= ops /\ o \in Operation
    BY <1>1, <1>3, <1>6, PushIs
  <2>2. \A i \in DOMAIN req : req[i].id <= ops
    BY <2>1 DEF Named
  <2>3. SyncT(Len(server))'
    <3>1. sync' \in [phase : {"idle", "loop", "push", "pull"}, via : {"http", "socket"}, batching : BOOLEAN]
          /\ sync'.phase = "push"
      BY <1>1, <1>6
    <3> QED
      BY <1>2, <1>6, <2>1, <3>1, WireTypes
  <2>4. wire'.req = req
    BY <1>6 DEF NoWire
  <2>5. FlightsT(Len(server))'
    BY <1>1, <1>2, <2>1, <2>2, <2>4 DEF FlightsT, Flights
  <2> QED
    BY <1>1, <1>2, <2>3, <2>5, Same DEF TypeInv
<1> QED
  BY <1>4, <1>5, <1>6

\* No request is there any more.
LEMMA NoneFlies ==
  ASSUME TypeInv, wire' = NoWire, late' \subseteq late \cup {wire.req}, UNCHANGED <<server, ops>>
  PROVE  FlightsT(Len(server))'
<1>1. FlightsT(Len(server)) /\ wire'.req = <<>>
  BY DEF TypeInv, NoWire
<1>2. Flights' \subseteq Flights \cup {<<>>}
  BY <1>1 DEF Flights
<1>3. Asked(<<>>, Len(server)) /\ DOMAIN <<>> = {}
  BY DEF Asked, Rising
<1> QED
  BY <1>1, <1>2, <1>3 DEF FlightsT

LEMMA AckPushTypes == ASSUME TypeInv, AckPush PROVE TypeInv'
<1>1. /\ sync.phase = "push" /\ sync' = [sync EXCEPT !.phase = "loop"] /\ wire' = NoWire
      /\ UNCHANGED <<cursor, ops, account, late, link, faults>>
      /\ sync \in [phase : {"idle", "loop", "push", "pull"}, via : {"http", "socket"}, batching : BOOLEAN]
      /\ cursor \in Nat /\ faults \in 0..MaxFaults /\ RowsT(Len(server)) /\ OutboxT(Len(server))
      /\ Len(server) \in Nat /\ ops \in Nat
  BY Fits DEF AckPush, TypeInv, SyncT, AccountT
<1>2. UNCHANGED <<server, change, seq, receipts, refused, ops>>
  BY <1>1 DEF account
<1> DEFINE R == Range(wire.req)
<1>3. /\ rows' \in [DOMAIN rows' -> Row] /\ DOMAIN rows' \subseteq DOMAIN rows
      /\ \A x \in DOMAIN rows' :
           \/ x < 0 /\ -x \in DOMAIN receipts /\ rows'[x] = [rows[x] EXCEPT !.sid = receipts[-x]]
           \/ rows'[x] = rows[x]
      /\ outbox' = LeftAfter(wire.req)
  BY AckIs
<1>4. OutboxT(Len(server))'
  <2>1. outbox' = Keeping(outbox, {op \in Range(outbox) : op.id \notin {o.id : o \in R}})
    BY <1>3 DEF LeftAfter
  <2> QED
    BY <1>1, <1>2, <2>1, OutboxKeeps
<1>5. RowsT(Len(server))'
  <2>1. ASSUME NEW x \in DOMAIN rows'
        PROVE  rows'[x].sid \in 0..Len(server) /\ (x > 0 => rows'[x].sid = x)
    <3>0. x \in DOMAIN rows /\ rows[x] \in Row /\ x \in Int
      <4>1. x \in Names(ops, Len(server))
        BY <1>1, <1>3 DEF RowsT
      <4> QED
        BY <1>1, <1>3, <4>1 DEF RowsT, Names
    <3>1. CASE rows'[x] = rows[x]
      BY <1>1, <3>0, <3>1 DEF RowsT
    <3>2. CASE x < 0 /\ -x \in DOMAIN receipts /\ rows'[x] = [rows[x] EXCEPT !.sid = receipts[-x]]
      <4>1. receipts[-x] \in 0..Len(server)
        <5>1. receipts \in [DOMAIN receipts -> Made \cup {0}] /\ Made = 1..Len(server)
          BY Fits DEF TypeInv, AccountT
        <5> QED
          BY <1>1, <3>2, <5>1
      <4>2. rows'[x].sid = receipts[-x]
        BY <3>0, <3>2 DEF Row
      <4> QED
        BY <3>0, <3>2, <4>1, <4>2
    <3> QED
      BY <1>3, <3>1, <3>2
  <2> QED
    BY <1>1, <1>2, <1>3, <2>1 DEF RowsT
<1>6. SyncT(Len(server))'
  <2>1. sync' \in [phase : {"idle", "loop", "push", "pull"}, via : {"http", "socket"}, batching : BOOLEAN]
        /\ sync'.phase = "loop"
    BY <1>1
  <2> QED
    BY <1>1, <1>2, <2>1, WireTypes
<1>7. FlightsT(Len(server))'
  BY <1>1, <1>2, NoneFlies
<1> QED
  BY <1>1, <1>2, <1>4, <1>5, <1>6, <1>7, Same DEF TypeInv

\* An operation refused alone is marked.
LEMMA PushRefusedTypes == ASSUME TypeInv, PushRefused PROVE TypeInv'
<1>1. /\ wire' = NoWire /\ UNCHANGED <<rows, cursor, ops, account, late, link, faults>>
      /\ sync \in [phase : {"idle", "loop", "push", "pull"}, via : {"http", "socket"}, batching : BOOLEAN]
      /\ cursor \in Nat /\ faults \in 0..MaxFaults /\ OutboxT(Len(server))
  BY DEF PushRefused, TypeInv, SyncT
<1>2. UNCHANGED <<server, change, seq, receipts, refused, ops>>
  BY <1>1 DEF account
<1>3. OutboxT(Len(server))'
  <2>1. CASE UNCHANGED outbox
    BY <1>2, <2>1, Same
  <2>2. CASE outbox' = [i \in DOMAIN outbox |->
               IF outbox[i].id = wire.req[1].id THEN [outbox[i] EXCEPT !.error = TRUE] ELSE outbox[i]]
    <3> DEFINE S == {i \in DOMAIN outbox : outbox[i].id = wire.req[1].id}
    <3>1. outbox' = [i \in DOMAIN outbox |-> IF i \in S THEN [outbox[i] EXCEPT !.error = TRUE] ELSE outbox[i]]
      BY <2>2
    <3>2. DOMAIN outbox' = DOMAIN outbox
      BY <2>2
    <3> HIDE DEF S
    <3> QED
      BY <1>1, <1>2, <3>1, <3>2, OutboxMarks
  <2> QED
    BY <2>1, <2>2 DEF PushRefused
<1>4. SyncT(Len(server))'
  <2>1. sync' \in [phase : {"idle", "loop", "push", "pull"}, via : {"http", "socket"}, batching : BOOLEAN]
        /\ sync'.phase \in {"idle", "loop"}
    <3>1. Idle \in [phase : {"idle", "loop", "push", "pull"}, via : {"http", "socket"}, batching : BOOLEAN]
          /\ Idle.phase = "idle"
      BY DEF Idle
    <3>2. sync' = Idle \/ sync' = [sync EXCEPT !.phase = "loop", !.batching = FALSE]
      BY DEF PushRefused
    <3> QED
      BY <1>1, <3>1, <3>2
  <2> QED
    BY <1>1, <1>2, <2>1, WireTypes
<1>5. FlightsT(Len(server))'
  BY <1>1, <1>2, NoneFlies
<1> QED
  BY <1>1, <1>2, <1>3, <1>4, <1>5, Same DEF TypeInv

\* A synchronization ends without its answer.
LEMMA EndTypes ==
  ASSUME TypeInv, sync' = Idle, wire' = NoWire, late' \subseteq late \cup {wire.req},
         UNCHANGED <<workspace, ops, account>>, LinkT(Len(server))', faults' \in 0..MaxFaults
  PROVE  TypeInv'
<1>1. UNCHANGED <<server, change, seq, receipts, refused, ops>> /\ UNCHANGED <<rows, outbox, cursor>>
  BY DEF account, workspace
<1>2. SyncT(Len(server))'
  <2>1. sync' \in [phase : {"idle", "loop", "push", "pull"}, via : {"http", "socket"}, batching : BOOLEAN]
        /\ sync'.phase = "idle"
    BY DEF Idle
  <2> QED
    BY <1>1, <2>1, WireTypes
<1>3. FlightsT(Len(server))'
  BY <1>1, NoneFlies
<1>4. cursor \in Nat
  BY DEF TypeInv
<1> QED
  BY <1>1, <1>2, <1>3, <1>4, Same DEF TypeInv

LEMMA ServerBusyTypes == ASSUME TypeInv, ServerBusy PROVE TypeInv'
<1>1. sync' = Idle /\ wire' = NoWire /\ UNCHANGED <<workspace, ops, account, late, link, faults>>
  BY DEF ServerBusy
<1>2. LinkT(Len(server))'
  BY <1>1, Same DEF account
<1>3. faults' \in 0..MaxFaults
  BY <1>1 DEF TypeInv
<1> QED
  BY <1>1, <1>2, <1>3, EndTypes

LEMMA GaveUp == ASSUME GiveUp PROVE sync' = Idle /\ wire' = NoWire /\ late' \subseteq late \cup {wire.req}
BY DEF GiveUp

LEMMA ClosedTypes == ASSUME TypeInv, Closed, again' \in BOOLEAN PROVE LinkT(Len(server))'
<1>1. socket' = NoSocket /\ stream' = <<>> /\ live' = NotLive
  BY DEF Closed
<1>2. DOMAIN stream' = {}
  BY <1>1
<1>3. Messages(stream')
  BY <1>1 DEF Messages
<1> QED
  BY <1>1, <1>2, <1>3 DEF LinkT, NoSocket, NotLive

LEMMA RequestLostTypes == ASSUME TypeInv, RequestLost PROVE TypeInv'
<1>1. GiveUp /\ Fault /\ UNCHANGED <<workspace, ops, account, link>>
  BY DEF RequestLost
<1>2. LinkT(Len(server))'
  BY <1>1, Same DEF account
<1> QED
  BY <1>1, <1>2, Uses, GaveUp, EndTypes

LEMMA DisconnectTypes == ASSUME TypeInv, Disconnect PROVE TypeInv'
<1>1. Closed /\ Fault /\ UNCHANGED <<workspace, ops, account, again>>
  BY DEF Disconnect
<1>2. LinkT(Len(server))'
  <2>1. again' \in BOOLEAN
    BY <1>1 DEF TypeInv, LinkT
  <2> QED
    BY <2>1, <1>1, ClosedTypes
<1>3. CASE GiveUp
  BY <1>1, <1>2, <1>3, Uses, GaveUp, EndTypes
<1>4. CASE UNCHANGED <<sync, wire, late>>
  <2>1. UNCHANGED <<server, change, seq, receipts, refused, ops>> /\ UNCHANGED <<rows, outbox, cursor>>
        /\ Flights' \subseteq Flights
    BY <1>1, <1>4 DEF account, workspace, Flights
  <2>2. cursor' \in Nat /\ faults' \in 0..MaxFaults
    BY <1>1, <2>1, Uses DEF TypeInv
  <2> QED
    BY <1>2, <1>4, <2>1, <2>2, Same DEF TypeInv
<1> QED
  BY <1>3, <1>4 DEF Disconnect

LEMMA CrashTypes == ASSUME TypeInv, Crash PROVE TypeInv'
<1>1. Closed /\ Fault /\ again' = FALSE /\ GiveUp /\ UNCHANGED <<workspace, ops, account>>
  BY DEF Crash
<1>2. LinkT(Len(server))'
  BY <1>1, ClosedTypes
<1> QED
  BY <1>1, <1>2, Uses, GaveUp, EndTypes

LEMMA AskPullTypes == ASSUME TypeInv, AskPull PROVE TypeInv'
<1>1. /\ sync.phase = "loop" /\ UNCHANGED <<workspace, ops, account, late, link, faults>>
      /\ sync \in [phase : {"idle", "loop", "push", "pull"}, via : {"http", "socket"}, batching : BOOLEAN]
      /\ cursor \in Nat /\ faults \in 0..MaxFaults /\ SyncT(Len(server)) /\ FlightsT(Len(server))
  BY DEF AskPull, TypeInv, SyncT
<1>2. UNCHANGED <<server, change, seq, receipts, refused, ops>> /\ UNCHANGED <<rows, outbox, cursor>>
  BY <1>1 DEF account, workspace
<1>3. SyncT(Len(server))' /\ FlightsT(Len(server))'
  <2>1. CASE /\ sync' = [sync EXCEPT !.phase = "pull"]
             /\ wire' = [NoWire EXCEPT !.state = "sent", !.page = [NoPage EXCEPT !.after = cursor]]
    <3>1. sync' \in [phase : {"idle", "loop", "push", "pull"}, via : {"http", "socket"}, batching : BOOLEAN]
          /\ sync'.phase = "pull"
      BY <1>1, <2>1
    <3>2. SyncT(Len(server))'
      BY <1>1, <1>2, <2>1, <3>1, WireTypes
    <3>3. wire.req = <<>> /\ wire'.req = <<>>
      BY <1>1, <2>1 DEF SyncT, NoWire
    <3>4. Flights' \subseteq Flights
      BY <1>1, <3>3 DEF Flights
    <3> QED
      BY <1>2, <3>2, <3>4, Same
  <2>2. CASE sync' = Idle /\ UNCHANGED wire
    <3>1. Flights' \subseteq Flights
      BY <1>1, <2>2 DEF Flights
    <3>2. SyncT(Len(server))'
      BY <1>1, <1>2, <2>2 DEF SyncT, Idle
    <3> QED
      BY <1>2, <3>1, <3>2, Same
  <2> QED
    BY <2>1, <2>2 DEF AskPull
<1> QED
  BY <1>1, <1>2, <1>3, Same DEF TypeInv

LEMMA TakePullTypes == ASSUME TypeInv, TakePull PROVE TypeInv'
<1>1. /\ sync' = Idle /\ wire' = NoWire /\ Merge(wire.page)
      /\ UNCHANGED <<ops, account, late, socket, stream, again, faults>>
      /\ live' = IF sync.via = "socket" THEN [live EXCEPT !.needsPull = FALSE] ELSE live
  BY DEF TakePull
<1>2. UNCHANGED <<server, change, seq, receipts, refused, ops>> /\ faults \in 0..MaxFaults /\ LinkT(Len(server))
      /\ Paged(wire.page, Len(server))
  BY <1>1 DEF account, TypeInv, SyncT
<1>3. RowsT(Len(server))' /\ OutboxT(Len(server))' /\ cursor' \in Nat
  BY <1>1, <1>2, MergeTypes
<1>4. SyncT(Len(server))'
  <2>1. sync' \in [phase : {"idle", "loop", "push", "pull"}, via : {"http", "socket"}, batching : BOOLEAN]
        /\ sync'.phase = "idle"
    BY <1>1 DEF Idle
  <2> QED
    BY <1>1, <1>2, <2>1, WireTypes
<1>5. FlightsT(Len(server))'
  BY <1>1, <1>2, NoneFlies
<1>6. LinkT(Len(server))'
  <2>1. live' \in [on : BOOLEAN, needsPull : BOOLEAN] /\ live'.on = live.on
    BY <1>1, <1>2 DEF LinkT
  <2> QED
    BY <1>1, <1>2, <2>1 DEF LinkT
<1> QED
  BY <1>1, <1>2, <1>3, <1>4, <1>5, <1>6, Same DEF TypeInv

LEMMA ConnectTypes == ASSUME TypeInv, Connect PROVE TypeInv'
<1>1. /\ ~socket.open /\ socket' = [open |-> TRUE, delivered |-> cursor, pending |-> FALSE]
      /\ stream' = <<[type |-> "ready", page |-> Page(seq)]>>
      /\ UNCHANGED <<rows, outbox, cursor, ops, sync, wire, late, live, again, faults>>
      /\ UNCHANGED <<server, change, seq, receipts, refused>>
  BY DEF Connect, workspace, account
<1>2. AccountT /\ LinkT(Len(server)) /\ cursor \in Nat /\ faults \in 0..MaxFaults /\ seq \in Nat
  BY DEF TypeInv, AccountT
<1>3. Paged(Page(seq), Len(server))
  BY <1>2, PageIs
<1>4. PICK m : m = [type |-> "ready", page |-> Page(seq)]
  OBVIOUS
<1>5. stream' = <<m>> /\ m.type = "ready" /\ m.page = Page(seq)
  BY <1>1, <1>4
<1>6. DOMAIN stream' = {1} /\ stream'[1] = m /\ Range(stream') = {m}
  BY <1>5 DEF Range
<1>7. Messages(stream')
  <2>1. m \in [type : {"ready", "changes", "due"}, page : {k.page : k \in Range(stream')}]
    BY <1>4, <1>5, <1>6
  <2> QED
    BY <1>5, <2>1 DEF Messages
<1>8. LinkT(Len(server))'
  <2>1. \A i \in DOMAIN stream' : Paged(stream'[i].page, Len(server'))
    BY <1>1, <1>3, <1>5, <1>6
  <2>2. /\ socket' \in [open : BOOLEAN, delivered : Nat, pending : BOOLEAN]
        /\ socket'.open
    BY <1>1, <1>2
  <2> QED
    BY <1>1, <1>2, <1>7, <2>1, <2>2 DEF LinkT
<1>9. Flights' \subseteq Flights
  BY <1>1 DEF Flights
<1> QED
  BY <1>1, <1>2, <1>8, <1>9, Same DEF TypeInv

LEMMA Reseq ==
  ASSUME NEW A, NEW B, NEW t \in Seq(A), \A i \in DOMAIN t : t[i] \in B
  PROVE  t \in Seq(B)
<1>1. Len(t) \in Nat /\ t \in [1..Len(t) -> A] /\ DOMAIN t = 1..Len(t)
  BY LenProperties
<1>2. t \in [1..Len(t) -> B]
  BY <1>1
<1> QED
  BY <1>1, <1>2

\* One more message of a socket, or the first of them read.
LEMMA StreamAdds ==
  ASSUME NEW s, Messages(s),
         NEW page, NEW t, t = Append(s, [type |-> "changes", page |-> page])
  PROVE  /\ Messages(t)
         /\ Len(t) = Len(s) + 1 /\ DOMAIN t = 1..(Len(s) + 1) /\ DOMAIN s = 1..Len(s) /\ Len(s) \in Nat
         /\ \A i \in DOMAIN s : t[i] = s[i]
         /\ t[Len(s) + 1].type = "changes" /\ t[Len(s) + 1].page = page
<1> DEFINE M(q) == [type : {"ready", "changes", "due"}, page : {k.page : k \in Range(q)}]
<1>1. PICK m : m = [type |-> "changes", page |-> page]
  OBVIOUS
<1>2. t = Append(s, m) /\ m.type = "changes" /\ m.page = page
  BY <1>1
<1>3. s \in Seq(M(s))
  BY DEF Messages
<1> HIDE DEF M
<1>4. /\ Len(s) \in Nat /\ DOMAIN s = 1..Len(s) /\ Len(t) = Len(s) + 1 /\ DOMAIN t = 1..(Len(s) + 1)
      /\ \A i \in 1..Len(s) : t[i] = s[i] /\ s[i] \in M(s)
      /\ t[Len(s) + 1] = m
  BY <1>2, <1>3
<1>5. \A i \in DOMAIN s : t[i] \in Range(t) /\ t[i] = s[i]
  BY <1>4 DEF Range
<1>6. m \in Range(t)
  BY <1>4 DEF Range
<1>7. ASSUME NEW x \in M(s) PROVE x \in M(t)
  <2>1. \A k \in Range(s) : k \in Range(t)
    BY <1>5 DEF Range
  <2> QED
    BY <1>7, <2>1 DEF M
<1>8. m \in M(t)
  BY <1>1, <1>2, <1>6 DEF M
<1>9. t \in Seq(M(t))
  <2>1. \A i \in DOMAIN t : t[i] \in M(t)
    <3> SUFFICES ASSUME NEW i \in DOMAIN t PROVE t[i] \in M(t)
      OBVIOUS
    <3>1. CASE i \in 1..Len(s)
      BY <1>4, <1>7, <3>1
    <3>2. CASE i = Len(s) + 1
      BY <1>4, <1>8, <3>2
    <3> QED
      BY <1>4, <3>1, <3>2
  <2>2. t \in Seq(M(s) \cup M(t))
    <3>1. s \in Seq(M(s) \cup M(t))
      BY <1>3, <1>4, Reseq
    <3> QED
      BY <1>2, <1>8, <3>1
  <2> QED
    BY <2>1, <2>2, Reseq
<1> QED
  BY <1>2, <1>4, <1>9 DEF M, Messages

LEMMA StreamReads ==
  ASSUME NEW s, Messages(s), s # <<>>,
         NEW t, t = Tail(s)
  PROVE  /\ Messages(t)
         /\ Len(t) = Len(s) - 1 /\ DOMAIN t = 1..(Len(s) - 1) /\ DOMAIN s = 1..Len(s) /\ Len(s) \in Nat \ {0}
         /\ \A i \in DOMAIN t : t[i] = s[i + 1] /\ i + 1 \in DOMAIN s
         /\ Head(s) = s[1] /\ 1 \in DOMAIN s
<1> DEFINE M(q) == [type : {"ready", "changes", "due"}, page : {k.page : k \in Range(q)}]
<1>1. s \in Seq(M(s))
  BY DEF Messages
<1> HIDE DEF M
<1>2. /\ Len(s) \in Nat \ {0} /\ DOMAIN s = 1..Len(s) /\ Len(t) = Len(s) - 1 /\ DOMAIN t = 1..(Len(s) - 1)
      /\ Head(s) = s[1] /\ t \in Seq(M(s))
  BY <1>1
<1>3. \A i \in DOMAIN t : t[i] = s[i + 1] /\ i + 1 \in DOMAIN s
  BY <1>1, <1>2
<1>4. \A i \in DOMAIN s : s[i] \in M(s)
  BY <1>1
<1>5. \A i \in DOMAIN t : t[i] \in M(t)
  <2> SUFFICES ASSUME NEW i \in DOMAIN t PROVE t[i] \in M(t)
    OBVIOUS
  <2>1. t[i] \in Range(t) /\ t[i] \in M(s)
    BY <1>3, <1>4 DEF Range
  <2> QED
    BY <2>1 DEF M
<1>6. t \in Seq(M(t))
  BY <1>2, <1>5, Reseq
<1> QED
  BY <1>2, <1>3, <1>6 DEF M, Messages

\* A page that becomes due is the page it was.
LEMMA DueReads ==
  ASSUME NEW s, NEW t, Messages(s), t = s \/ (s # <<>> /\ t = [s EXCEPT ![1].type = "due"])
  PROVE  Messages(t) /\ DOMAIN t = DOMAIN s /\ \A i \in DOMAIN s : t[i].page = s[i].page
<1>1. CASE t = s
  BY <1>1
<1>2. CASE s # <<>> /\ t = [s EXCEPT ![1].type = "due"]
  <2> DEFINE M(q) == [type : {"ready", "changes", "due"}, page : {k.page : k \in Range(q)}]
  <2>1. s \in Seq(M(s))
    BY DEF Messages
  <2>2. \A i \in DOMAIN s : s[i] \in M(s)
    <3> HIDE DEF M
    <3> QED
      BY <2>1
  <2>3. /\ DOMAIN s = 1..Len(s) /\ Len(s) \in Nat /\ 1 \in DOMAIN s
    BY <1>2, StreamReads
  <2>4. \A i \in DOMAIN s : s[i] = [type |-> s[i].type, page |-> s[i].page] /\ s[i].type \in {"ready", "changes", "due"}
    BY <2>2
  <2>5. DOMAIN t = DOMAIN s /\ \A i \in DOMAIN s : t[i] = IF i = 1 THEN [s[1] EXCEPT !.type = "due"] ELSE s[i]
    BY <1>2
  <2>6. [s[1] EXCEPT !.type = "due"] = [type |-> "due", page |-> s[1].page]
    BY <2>3, <2>4
  <2>7. \A i \in DOMAIN s : /\ t[i] = [type |-> t[i].type, page |-> t[i].page]
                           /\ t[i].type \in {"ready", "changes", "due"} /\ t[i].page = s[i].page
    BY <2>4, <2>5, <2>6
  <2>8. \A i \in DOMAIN t : t[i] \in M(t)
    <3> SUFFICES ASSUME NEW i \in DOMAIN t PROVE t[i] \in M(t)
      OBVIOUS
    <3>1. t[i] \in Range(t)
      BY DEF Range
    <3> QED
      BY <2>5, <2>7, <3>1
  <2>9. t \in Seq(M(t))
    <3> HIDE DEF M
    <3>1. t = [i \in 1..Len(s) |-> t[i]]
      BY <1>2, <2>3, <2>5
    <3>2. t \in [1..Len(s) -> M(t)]
      BY <2>3, <2>5, <2>8, <3>1
    <3> QED
      BY <2>3, <3>2, SeqDef
  <2> QED
    BY <2>5, <2>7, <2>9 DEF Messages
<1> QED
  BY <1>1, <1>2

LEMMA ReconnectedTypes == ASSUME TypeInv, Reconnected PROVE TypeInv'
<1>1. /\ sync.phase = "idle" /\ Started(live) /\ again' = FALSE
      /\ UNCHANGED <<workspace, ops, account, wire, late, socket, live, faults>>
      /\ stream' = stream \/ (stream # <<>> /\ stream' = [stream EXCEPT ![1].type = "due"])
  BY DEF Reconnected
<1>2. UNCHANGED <<server, change, seq, receipts, refused, ops>> /\ UNCHANGED <<rows, outbox, cursor>>
      /\ Flights' \subseteq Flights
  BY <1>1 DEF account, workspace, Flights
<1>3. live \in [on : BOOLEAN, needsPull : BOOLEAN] /\ cursor \in Nat /\ faults \in 0..MaxFaults /\ LinkT(Len(server))
  BY DEF TypeInv, LinkT
<1>4. SyncT(Len(server))'
  BY <1>1, <1>2, <1>3, StartTypes
<1>5. LinkT(Len(server))'
  <2>0. PICK s, t : s = stream /\ t = stream'
    OBVIOUS
  <2>2. Messages(s)
    BY <1>3, <2>0 DEF LinkT
  <2>3. t = s \/ (s # <<>> /\ t = [s EXCEPT ![1].type = "due"])
    BY <1>1, <2>0
  <2>4. Messages(t) /\ DOMAIN t = DOMAIN s /\ \A i \in DOMAIN s : t[i].page = s[i].page
    BY <2>2, <2>3, DueReads
  <2>1. /\ Messages(stream')
        /\ DOMAIN stream' = DOMAIN stream /\ \A i \in DOMAIN stream : stream'[i].page = stream[i].page
    BY <2>0, <2>4
  <2> QED
    BY <1>1, <1>2, <1>3, <2>1 DEF LinkT
<1> QED
  BY <1>1, <1>2, <1>3, <1>4, <1>5, Same DEF TypeInv

LEMMA StreamTypes == ASSUME TypeInv, Stream PROVE TypeInv'
<1>1. /\ UNCHANGED <<rows, outbox, cursor, ops, sync, wire, late, live, again, faults>>
      /\ UNCHANGED <<server, change, seq, receipts, refused>> /\ socket.pending
  BY DEF Stream, workspace, account
<1>2. AccountT /\ LinkT(Len(server)) /\ cursor \in Nat /\ faults \in 0..MaxFaults /\ socket.delivered \in Nat /\ socket.open
  BY <1>1 DEF TypeInv, LinkT
<1>3. PICK page : page = Page(socket.delivered)
  OBVIOUS
<1>4. /\ socket' = [socket EXCEPT !.delivered = page.cursor, !.pending = FALSE]
      /\ stream' = stream \/ stream' = Append(stream, [type |-> "changes", page |-> page])
  BY <1>3 DEF Stream
<1>5. Paged(page, Len(server)) /\ page.cursor \in Nat
  BY <1>2, <1>3, PageIs DEF Paged
<1>6. /\ socket' \in [open : BOOLEAN, delivered : Nat, pending : BOOLEAN]
      /\ socket'.open
  BY <1>2, <1>4, <1>5 DEF LinkT
<1>7. LinkT(Len(server))'
  <2>1. CASE stream' = stream
    BY <1>1, <1>2, <1>6, <2>1 DEF LinkT
  <2>2. CASE stream' = Append(stream, [type |-> "changes", page |-> page])
    <3>0. Messages(stream)
          /\ \A i \in DOMAIN stream : Paged(stream[i].page, Len(server))
      BY <1>2 DEF LinkT
    <3>1. /\ Messages(stream')
          /\ DOMAIN stream' = 1..(Len(stream) + 1) /\ DOMAIN stream = 1..Len(stream) /\ Len(stream) \in Nat
          /\ \A i \in DOMAIN stream : stream'[i] = stream[i]
          /\ stream'[Len(stream) + 1].page = page
      <4>1. PICK s, t : s = stream /\ t = stream'
        OBVIOUS
      <4>2. Messages(s) /\ t = Append(s, [type |-> "changes", page |-> page])
        BY <2>2, <3>0, <4>1
      <4>3. Messages(t)
        BY <4>2, StreamAdds
      <4>4. DOMAIN t = 1..(Len(s) + 1) /\ DOMAIN s = 1..Len(s) /\ Len(s) \in Nat
        BY <4>2, StreamAdds
      <4>5. \A i \in DOMAIN s : t[i] = s[i]
        BY <4>2, StreamAdds
      <4>6. t[Len(s) + 1].page = page
        BY <4>2, StreamAdds
      <4> QED
        BY <4>1, <4>3, <4>4, <4>5, <4>6
    <3>2. \A i \in DOMAIN stream' : Paged(stream'[i].page, Len(server'))
      <4> SUFFICES ASSUME NEW i \in DOMAIN stream' PROVE Paged(stream'[i].page, Len(server))
        BY <1>1
      <4>1. CASE i \in DOMAIN stream
        BY <3>0, <3>1, <4>1
      <4>2. CASE i = Len(stream) + 1
        BY <1>5, <3>1, <4>2
      <4> QED
        BY <3>1, <4>1, <4>2
    <3> QED
      BY <1>1, <1>2, <1>6, <3>1, <3>2 DEF LinkT
  <2> QED
    BY <1>4, <2>1, <2>2
<1>8. Flights' \subseteq Flights
  BY <1>1 DEF Flights
<1> QED
  BY <1>1, <1>2, <1>7, <1>8, Same DEF TypeInv

LEMMA ReceiveTypes ==
  ASSUME TypeInv, stream # <<>>, stream' = Tail(stream), UNCHANGED <<server, socket>>,
         live' \in [on : BOOLEAN, needsPull : BOOLEAN], live'.on => socket.open, again' \in BOOLEAN
  PROVE  LinkT(Len(server))'
<1>1. LinkT(Len(server))
  BY DEF TypeInv
<1>2. /\ Messages(stream)
      /\ \A i \in DOMAIN stream : Paged(stream[i].page, Len(server))
  BY <1>1 DEF LinkT
<1>3. /\ Messages(stream')
      /\ \A i \in DOMAIN stream' : stream'[i] = stream[i + 1] /\ i + 1 \in DOMAIN stream
  <2>1. PICK s, t : s = stream /\ t = stream'
    OBVIOUS
  <2>2. Messages(s) /\ s # <<>> /\ t = Tail(s)
    BY <1>2, <2>1
  <2>3. Messages(t)
    BY <2>2, StreamReads
  <2>4. \A i \in DOMAIN t : t[i] = s[i + 1] /\ i + 1 \in DOMAIN s
    BY <2>2, StreamReads
  <2> QED
    BY <2>1, <2>3, <2>4
<1>4. \A i \in DOMAIN stream' : Paged(stream'[i].page, Len(server'))
  BY <1>2, <1>3
<1> QED
  BY <1>1, <1>3, <1>4 DEF LinkT

LEMMA ReceiveReadyTypes == ASSUME TypeInv, ReceiveReady PROVE TypeInv'
<1>1. /\ stream # <<>> /\ stream' = Tail(stream)
      /\ live' = [on |-> TRUE, needsPull |-> Behind(Head(stream).page.cursor)]
      /\ UNCHANGED <<rows, outbox, cursor, ops, wire, late, socket, faults>>
      /\ UNCHANGED <<server, change, seq, receipts, refused>>
      /\ \/ sync.phase = "idle" /\ Started(live') /\ UNCHANGED again
         \/ again' = TRUE /\ UNCHANGED sync
  BY DEF ReceiveReady, workspace, account
<1>2. LinkT(Len(server)) /\ cursor \in Nat /\ faults \in 0..MaxFaults /\ again \in BOOLEAN /\ socket.open
  BY <1>1 DEF TypeInv, LinkT
<1>3. live' \in [on : BOOLEAN, needsPull : BOOLEAN]
  <2>1. Behind(Head(stream).page.cursor) \in BOOLEAN
    BY DEF Behind
  <2> QED
    BY <1>1, <2>1
<1>4. LinkT(Len(server))'
  BY <1>1, <1>2, <1>3, ReceiveTypes
<1>5. SyncT(Len(server))'
  BY <1>1, <1>3, StartTypes, Same
<1>6. Flights' \subseteq Flights
  BY <1>1 DEF Flights
<1> QED
  BY <1>1, <1>2, <1>4, <1>5, <1>6, Same DEF TypeInv

LEMMA ReceiveChangesTypes == ASSUME TypeInv, ReceiveChanges PROVE TypeInv'
<1>1. /\ stream # <<>> /\ stream' = Tail(stream)
      /\ UNCHANGED <<ops, wire, late, socket, again, faults>>
      /\ UNCHANGED <<server, change, seq, receipts, refused>>
  BY DEF ReceiveChanges, account
<1>2. LinkT(Len(server)) /\ cursor \in Nat /\ faults \in 0..MaxFaults /\ again \in BOOLEAN
      /\ live \in [on : BOOLEAN, needsPull : BOOLEAN] /\ (live.on => socket.open)
  BY DEF TypeInv, LinkT
<1>3. PICK page : page = Head(stream).page
  OBVIOUS
<1>4. Paged(page, Len(server))
  <2>1. Head(stream) = stream[1] /\ 1 \in DOMAIN stream
    BY <1>1, <1>2, StreamReads DEF LinkT
  <2> QED
    BY <1>2, <1>3, <2>1 DEF LinkT
<1>5. \/ UNCHANGED <<workspace, live, sync>>
      \/ /\ live' = [live EXCEPT !.needsPull = TRUE] /\ UNCHANGED workspace
         /\ (sync.phase = "idle" /\ Started(live)) \/ UNCHANGED sync
      \/ Merge(page) /\ UNCHANGED <<live, sync>>
  BY <1>3 DEF ReceiveChanges
<1>6. live' \in [on : BOOLEAN, needsPull : BOOLEAN] /\ live'.on = live.on
  BY <1>2, <1>5
<1>7. LinkT(Len(server))'
  BY <1>1, <1>2, <1>6, ReceiveTypes
<1>8. Flights' \subseteq Flights
  BY <1>1 DEF Flights
<1>9. SyncT(Len(server))'
  BY <1>1, <1>2, <1>5, StartTypes, Same
<1>10. RowsT(Len(server))' /\ OutboxT(Len(server))' /\ cursor' \in Nat
  <2>1. CASE UNCHANGED workspace
    <3>1. UNCHANGED <<rows, outbox, cursor>>
      BY <2>1 DEF workspace
    <3> QED
      BY <1>1, <1>2, <3>1, Same
  <2>2. CASE Merge(page)
    BY <1>1, <1>4, <2>2, MergeTypes
  <2> QED
    BY <1>5, <2>1, <2>2
<1> QED
  BY <1>1, <1>2, <1>7, <1>8, <1>9, <1>10, Same DEF TypeInv

\* The state is always of its type.
LEMMA NextTypes == ASSUME TypeInv, [Next]_vars PROVE TypeInv'
<1>1. CASE User
  BY <1>1, AddSolveTypes, EditSolveTypes, DeleteSolveTypes, RetryTypes DEF User
<1>2. CASE OtherDevices
  BY <1>2, OtherAddsTypes, OtherChangesTypes DEF OtherDevices
<1>3. CASE StartSync \/ Reconnected
  BY <1>3, StartSyncTypes, ReconnectedTypes
<1>4. CASE Upload
  BY <1>4, PushTypes, ServePushTypes, AckPushTypes, PushRefusedTypes, ServerBusyTypes DEF Upload
<1>5. CASE Download
  BY <1>5, AskPullTypes, ServePullTypes, TakePullTypes DEF Download
<1>6. CASE Live
  BY <1>6, ConnectTypes, StreamTypes, ReceiveReadyTypes, ReceiveChangesTypes DEF Live
<1>7. CASE \E req \in late : ServeLate(req)
  BY <1>7, ServeLateTypes
<1>8. CASE RequestLost \/ Disconnect \/ Crash
  BY <1>8, RequestLostTypes, DisconnectTypes, CrashTypes
<1>9. CASE UNCHANGED vars
  <2>1. UNCHANGED <<server, change, seq, receipts, refused, ops>> /\ UNCHANGED <<rows, outbox, cursor>>
        /\ UNCHANGED <<sync, wire, late, faults>> /\ UNCHANGED link
    BY <1>9 DEF vars, account, workspace
  <2>2. Flights' \subseteq Flights /\ cursor' \in Nat /\ faults' \in 0..MaxFaults
    BY <2>1 DEF Flights, TypeInv
  <2> QED
    BY <2>1, <2>2, Same DEF TypeInv
<1> QED
  BY <1>1, <1>2, <1>3, <1>4, <1>5, <1>6, <1>7, <1>8, <1>9 DEF Next

THEOREM AlwaysTyped == Spec => []TypeInv
<1>1. Init => TypeInv
  BY InitTypes
<1>2. TypeInv /\ [Next]_vars => TypeInv'
  BY NextTypes
<1> QED
  BY <1>1, <1>2, PTL DEF Spec

\* CreatedOnce: however often a solve is sent, the server makes it once.
THEOREM AlwaysCreatedOnce == Spec => []CreatedOnce
<1>1. TypeInv => CreatedOnce
  BY DEF TypeInv, AccountT
<1> QED
  BY <1>1, AlwaysTyped, PTL

-----------------------------------------------------------------------------
(* What the steps do to the rows, the outbox, the account and the requests *)
(* in flight: seven kinds of them.                                         *)

Quiet == UNCHANGED <<rows, outbox, cursor, ops, account>> /\ Flying' \subseteq Flying

\* Another device changes a solve, or adds one.
Told ==
  /\ UNCHANGED <<rows, outbox, cursor, ops, receipts, refused>> /\ Flying' \subseteq Flying
  /\ server' \in Seq(Stored) /\ seq' = seq + 1 /\ change' \in [Made' -> Nat]
  /\ \A s \in Made : /\ s \in Made' /\ server'[s].by = server[s].by /\ (server[s].gone => server'[s].gone)
                     /\ (server'[s] = server[s] /\ change'[s] = change[s]) \/ change'[s] = seq + 1
  /\ \A s \in Made' \ Made : server'[s].by = 0 /\ change'[s] = seq + 1

\* A request is served.
Serves(req) ==
  /\ UNCHANGED <<rows, outbox, cursor, ops>> /\ Flying' \subseteq Flying
  /\ req \in Flights /\ Apply(req) /\ Applied(req) /\ ~Refuses(req)

\* The user makes, changes or deletes a solve.
Queues(op, kept) ==
  /\ UNCHANGED <<cursor, account>> /\ Flying' = Flying
  /\ op \in Operation /\ ~op.error /\ op.id = ops + 1 /\ ops' = ops + 1
  /\ outbox' = Append(kept, op)
  /\ \/ kept = outbox
     \/ /\ Coalesce /\ op.kind = "edit"
        /\ kept = Keeping(outbox, {o \in Range(outbox) : ~(o.kind = "edit" /\ ~o.error /\ o.local = op.local)})
  /\ op.local \in DOMAIN rows'
  /\ \A x \in DOMAIN rows :
       /\ x \in DOMAIN rows' /\ rows'[x].sid = rows[x].sid /\ (rows[x].deleted => rows'[x].deleted)
       /\ x # op.local => rows'[x] = rows[x]
  /\ IF op.kind = "solve"
     THEN /\ op.local = -op.id /\ DOMAIN rows' = DOMAIN rows \cup {op.local} /\ op.local \notin DOMAIN rows
          /\ rows'[op.local].sid = 0
     ELSE /\ DOMAIN rows' = DOMAIN rows /\ ~rows[op.local].deleted
          /\ op.kind = "delete" => rows'[op.local].deleted

\* A request is sent.
Sends(req) ==
  /\ UNCHANGED <<rows, outbox, cursor, ops, account>> /\ Flying' = Flying \cup Range(req)
  /\ wire'.req = req /\ sync.phase = "loop" /\ sync'.phase = "push"
  /\ \A o \in Range(req) : \E p \in Range(outbox) : o = Named(p) /\ ~p.error
  /\ \A o \in Range(req) : o.kind # "solve" => o.sid \in Made /\ \A p \in Range(outbox) : ~p.error => p.id >= o.id

\* Operations are marked, or not any more.
Marks ==
  /\ UNCHANGED <<rows, cursor, ops, account>> /\ Flying' \subseteq Flying
  /\ DOMAIN outbox' = DOMAIN outbox
  /\ \A i \in DOMAIN outbox :
       /\ outbox'[i].id = outbox[i].id /\ outbox'[i].kind = outbox[i].kind /\ outbox'[i].local = outbox[i].local
       /\ outbox'[i].error => outbox[i].error \/ (wire.state = "error" /\ wire.req # <<>> /\ Len(wire.req) <= 1 /\ outbox[i].id = wire.req[1].id)

\* A page is merged, unless it is of an older one.
Merges(page) ==
  /\ Merge(page) /\ page.cursor >= cursor /\ Merged(page)
  /\ UNCHANGED <<ops, account>> /\ Flying' \subseteq Flying /\ Paged(page, Len(server))
  /\ page \in Pages
  /\ \/ sync.phase = "pull" /\ page = wire.page
     \/ /\ page.after <= cursor
        /\ Overlap \/ (sync.phase = "idle" /\ stream # <<>> /\ Head(stream).type = "changes")

Acks ==
  /\ AckPush /\ UNCHANGED <<cursor, ops, account>> /\ Flying' \subseteq Flying

LEMMA FlyingLess == ASSUME Flights' \subseteq Flights \cup {<<>>} PROVE Flying' \subseteq Flying
<1>1. Range(<<>>) = {}
  BY DEF Range
<1>2. ASSUME NEW o \in Flying' PROVE o \in Flying
  <2>1. PICK q \in Flights' : o \in Range(q)
    BY DEF Flying
  <2>2. q \in Flights
    BY <1>1, <2>1
  <2> QED
    BY <2>1, <2>2 DEF Flying
<1> QED
  BY <1>2

\* The requests stay, or the device's ends.
LEMMA FlyingEnds ==
  ASSUME wire'.req = wire.req \/ wire' = NoWire, late' \subseteq late \cup {wire.req}
  PROVE  Flying' \subseteq Flying
<1>1. wire' = NoWire => wire'.req = <<>>
  BY DEF NoWire
<1>2. Flights' \subseteq Flights \cup {<<>>}
  BY <1>1 DEF Flights
<1> QED
  BY <1>2, FlyingLess

LEMMA QueuesAdd == ASSUME TypeInv, NEW v \in Value, AddSolve(v) PROVE \E op, kept : Queues(op, kept)
<1> DEFINE x == -(ops + 1)
           row == [sid |-> 0, val |-> v, deleted |-> FALSE]
           new == [id |-> ops + 1, kind |-> "solve", local |-> x, val |-> v, error |-> FALSE]
<1>1. ops < MaxOps /\ ops' = ops + 1 /\ rows' = With(rows, x, row) /\ outbox' = Append(outbox, new)
      /\ UNCHANGED <<cursor, account, wire, late>>
  BY DEF AddSolve, Queue
<1>2. ops \in Nat /\ MaxOps \in Nat /\ DOMAIN rows \subseteq Names(ops, Len(server)) /\ Len(server) \in Nat /\ AccountT
  BY Fits, SyncAssumption DEF TypeInv, AccountT, RowsT
<1>3. x \notin DOMAIN rows
  <2>1. x \notin Names(ops, Len(server))
    BY <1>2 DEF Names
  <2> QED
    BY <1>2, <2>1
<1>4. new \in Operation
  <2>1. x \in Local /\ ops + 1 \in Ops
    <3>1. ops + 1 \in Ops
      BY <1>1, <1>2 DEF Ops
    <3> QED
      BY <3>1 DEF Local
  <2> QED
    BY <2>1 DEF Operation
<1>5. new.id = ops + 1 /\ new.kind = "solve" /\ new.local = x /\ new.error = FALSE /\ x = -(ops + 1) /\ row.sid = 0
  OBVIOUS
<1> HIDE DEF x, row, new
<1>6. rows' = [y \in DOMAIN rows \cup {x} |-> IF y = x THEN row ELSE rows[y]]
  BY <1>1 DEF With
<1>7. /\ DOMAIN rows' = DOMAIN rows \cup {x} /\ rows'[x] = row
      /\ \A y \in DOMAIN rows : rows'[y] = rows[y]
  BY <1>3, <1>6
<1>8. Flying' = Flying
  BY <1>1 DEF Flying, Flights
<1>9. Queues(new, outbox)
  BY <1>1, <1>3, <1>4, <1>5, <1>7, <1>8 DEF Queues
<1> QED
  BY <1>9

LEMMA QueuesEdit ==
  ASSUME TypeInv, NEW x \in DOMAIN rows, NEW v \in Value, EditSolve(x, v) PROVE \E op, kept : Queues(op, kept)
<1> DEFINE S == {o \in Range(outbox) : ~(o.kind = "edit" /\ ~o.error /\ o.local = x)}
           kept == IF ~Coalesce THEN outbox ELSE Keeping(outbox, S)
           new == [id |-> ops + 1, kind |-> "edit", local |-> x, val |-> v, error |-> FALSE]
<1>1. ops < MaxOps /\ ops' = ops + 1 /\ rows' = [rows EXCEPT ![x].val = v] /\ outbox' = Append(kept, new)
      /\ UNCHANGED <<cursor, account, wire, late>> /\ ~rows[x].deleted
  BY DEF EditSolve, Queue
<1>2. ops \in Nat /\ MaxOps \in Nat /\ DOMAIN rows \subseteq Names(ops, Len(server)) /\ Len(server) \in Nat /\ AccountT
      /\ rows \in [DOMAIN rows -> Row]
  BY Fits, SyncAssumption DEF TypeInv, AccountT, RowsT
<1>4. new \in Operation
  <2>1. ops + 1 \in Ops
    BY <1>1, <1>2 DEF Ops
  <2>2. Names(ops, Len(server)) \subseteq Local
    BY <1>1, <1>2, NamesLocal
  <2>3. x \in Local
    BY <1>2, <2>2
  <2> QED
    BY <2>1, <2>3 DEF Operation
<1>5. new.id = ops + 1 /\ new.kind = "edit" /\ new.local = x /\ new.error = FALSE
  OBVIOUS
<1>6. kept = outbox \/ (Coalesce /\ kept = Keeping(outbox, {o \in Range(outbox) : ~(o.kind = "edit" /\ ~o.error /\ o.local = new.local)}))
  BY <1>5
<1> HIDE DEF new, kept
<1>7. /\ DOMAIN rows' = DOMAIN rows
      /\ \A y \in DOMAIN rows : rows'[y].sid = rows[y].sid /\ (rows[y].deleted => rows'[y].deleted) /\ (y # x => rows'[y] = rows[y])
  BY <1>1, <1>2 DEF Row
<1>8. Flying' = Flying
  BY <1>1 DEF Flying, Flights
<1>9. Queues(new, kept)
  BY <1>1, <1>4, <1>5, <1>6, <1>7, <1>8 DEF Queues
<1> QED
  BY <1>9

LEMMA QueuesDelete ==
  ASSUME TypeInv, NEW x \in DOMAIN rows, DeleteSolve(x) PROVE \E op, kept : Queues(op, kept)
<1> DEFINE new == [id |-> ops + 1, kind |-> "delete", local |-> x, val |-> rows[x].val, error |-> FALSE]
<1>1. ops < MaxOps /\ ops' = ops + 1 /\ rows' = [rows EXCEPT ![x].deleted = TRUE] /\ outbox' = Append(outbox, new)
      /\ UNCHANGED <<cursor, account, wire, late>> /\ ~rows[x].deleted
  BY DEF DeleteSolve, Queue
<1>2. ops \in Nat /\ MaxOps \in Nat /\ DOMAIN rows \subseteq Names(ops, Len(server)) /\ Len(server) \in Nat /\ AccountT
      /\ rows \in [DOMAIN rows -> Row]
  BY Fits, SyncAssumption DEF TypeInv, AccountT, RowsT
<1>4. new \in Operation
  <2>1. x \in Local /\ ops + 1 \in Ops /\ rows[x].val \in Value
    BY <1>1, <1>2, NamesLocal DEF Ops, Row
  <2> QED
    BY <2>1 DEF Operation
<1>5. new.id = ops + 1 /\ new.kind = "delete" /\ new.local = x /\ new.error = FALSE
  OBVIOUS
<1> HIDE DEF new
<1>7. /\ DOMAIN rows' = DOMAIN rows /\ rows'[x].deleted
      /\ \A y \in DOMAIN rows : rows'[y].sid = rows[y].sid /\ (rows[y].deleted => rows'[y].deleted) /\ (y # x => rows'[y] = rows[y])
  BY <1>1, <1>2 DEF Row
<1>8. Flying' = Flying
  BY <1>1 DEF Flying, Flights
<1>9. Queues(new, outbox)
  BY <1>1, <1>4, <1>5, <1>7, <1>8 DEF Queues
<1> QED
  BY <1>9

LEMMA ToldAdds == ASSUME TypeInv, NEW v \in Value, OtherDeviceAdds(v) PROVE Told
<1> DEFINE n == Len(server)
           row == [gone |-> FALSE, val |-> v, by |-> 0]
<1>1. /\ server' = Append(server, row) /\ change' = Append(change, seq + 1) /\ seq' = seq + 1
      /\ UNCHANGED <<rows, outbox, cursor, ops, receipts, refused, wire, late>>
  BY DEF OtherDeviceAdds, workspace
<1>2. row \in Stored /\ row.by = 0 /\ n \in Nat /\ Made = 1..n /\ server \in Seq(Stored) /\ change \in [1..n -> Nat]
  BY Fits DEF TypeInv, AccountT, Made, Stored
<1>3. change \in Seq(Nat) /\ Len(change) = n
  BY <1>2, IsASeq, LenProperties
<1> HIDE DEF row
<1>4. /\ server' \in Seq(Stored) /\ Made' = 1..(n + 1)
      /\ \A s \in 1..n : server'[s] = server[s]
      /\ server'[n + 1].by = 0
  BY <1>1, <1>2 DEF Made
<1>5. /\ \A s \in 1..n : change'[s] = change[s]
      /\ change'[n + 1] = seq + 1
  BY <1>1, <1>3
<1>6. change' \in [Made' -> Nat]
  BY OtherAddsTypes DEF TypeInv, AccountT
<1>7. Flying' \subseteq Flying
  BY <1>1, FlyingEnds
<1>8. \A s \in Made : s \in Made' /\ server'[s] = server[s] /\ change'[s] = change[s]
  BY <1>2, <1>4, <1>5
<1>9. ASSUME NEW s \in Made', s \notin Made PROVE server'[s].by = 0 /\ change'[s] = seq + 1
  <2>1. s = n + 1
    BY <1>2, <1>4, <1>9
  <2> QED
    BY <1>4, <1>5, <2>1
<1> QED
  BY <1>1, <1>4, <1>6, <1>7, <1>8, <1>9 DEF Told

LEMMA ToldChanges ==
  ASSUME TypeInv, NEW s \in Made, OtherDeviceDeletes(s) \/ \E v \in Value : OtherDeviceEdits(s, v)
  PROVE  Told
<1>1. /\ AccountT' /\ UNCHANGED <<workspace, ops, receipts, refused, wire, late>>
      /\ ~server[s].gone /\ server'[s].by = server[s].by
      /\ server' = [server EXCEPT ![s] = server'[s]]
      /\ change' = [change EXCEPT ![s] = seq + 1] /\ seq' = seq + 1
  BY OtherChanges
<1>2. Flying' \subseteq Flying /\ UNCHANGED <<rows, outbox, cursor>>
  BY <1>1, FlyingEnds DEF workspace
<1>3. server \in Seq(Stored) /\ DOMAIN change = Made /\ Made' = Made
  <2>1. DOMAIN server' = DOMAIN server
    BY <1>1
  <2> QED
    BY <2>1 DEF TypeInv, AccountT, Made
<1>4. ASSUME NEW t \in Made
      PROVE  /\ server'[t].by = server[t].by /\ (server[t].gone => server'[t].gone)
             /\ (server'[t] = server[t] /\ change'[t] = change[t]) \/ change'[t] = seq + 1
  <2>1. CASE t = s
    BY <1>1, <1>3, <2>1
  <2>2. CASE t # s
    BY <1>1, <1>3, <2>2 DEF Made
  <2> QED
    BY <2>1, <2>2
<1>5. server' \in Seq(Stored) /\ change' \in [Made' -> Nat]
  BY <1>1 DEF AccountT
<1> QED
  BY <1>1, <1>2, <1>3, <1>4, <1>5 DEF Told

LEMMA ServesPush == ASSUME TypeInv, ServePush PROVE Quiet \/ \E req : Serves(req)
<1>1. UNCHANGED <<rows, outbox, cursor, ops, late>>
  BY DEF ServePush, workspace
<1>2. \E st : wire' = [wire EXCEPT !.state = st] \/ \E a : wire' = [wire EXCEPT !.state = st, !.answer = a]
  BY DEF ServePush
<1>3. wire'.req = wire.req
  <2>1. wire = [state |-> wire.state, req |-> wire.req, answer |-> wire.answer, page |-> wire.page]
    BY DEF TypeInv, SyncT
  <2> QED
    BY <1>2, <2>1
<1>4. Flying' \subseteq Flying
  BY <1>1, <1>3, FlyingEnds
<1>5. CASE UNCHANGED account
  BY <1>1, <1>4, <1>5 DEF Quiet
<1>6. CASE Apply(wire.req) /\ ~Refuses(wire.req)
  <2>1. PICK req \in Flights : req = wire.req
    BY DEF Flights
  <2>2. Applied(req)
    BY <1>1, <1>6, <2>1, Served
  <2> QED
    BY <1>1, <1>4, <1>6, <2>1, <2>2 DEF Serves
<1> QED
  BY <1>5, <1>6 DEF ServePush

LEMMA ServesLate == ASSUME TypeInv, NEW req \in late, ServeLate(req) PROVE Quiet \/ \E q : Serves(q)
<1>1. UNCHANGED <<rows, outbox, cursor, ops, wire>> /\ late' = late \ {req} /\ req \in Flights
  BY DEF ServeLate, workspace, Flights
<1>2. Flying' \subseteq Flying
  BY <1>1, FlyingEnds
<1>3. CASE UNCHANGED account
  BY <1>1, <1>2, <1>3 DEF Quiet
<1>4. CASE Apply(req) /\ ~Refuses(req)
  <2>1. Applied(req)
    BY <1>1, <1>4, Served
  <2> QED
    BY <1>1, <1>2, <1>4, <2>1 DEF Serves
<1> QED
  BY <1>3, <1>4 DEF ServeLate

LEMMA SendsPush == ASSUME TypeInv, Push PROVE (Quiet /\ UNCHANGED wire) \/ \E req : Sends(req)
<1>1. /\ sync.phase = "loop" /\ Uploads /\ UNCHANGED <<rows, outbox, cursor, ops, account, late>>
      /\ FlightsT(Len(server)) /\ Made = 1..Len(server)
  BY Fits DEF Push, workspace, TypeInv
<1>2. PICK req : req = [i \in DOMAIN Batch |-> Named(Batch[i])]
  OBVIOUS
<1>3. \/ UNCHANGED wire
      \/ /\ ~(req[1].kind # "solve" /\ req[1].sid = 0)
         /\ wire' = [NoWire EXCEPT !.state = "sent", !.req = req]
         /\ sync' = [sync EXCEPT !.phase = "push"]
  BY <1>2 DEF Push
<1>4. CASE UNCHANGED wire
  <2>1. Flying' \subseteq Flying
    BY <1>1, <1>4, FlyingEnds
  <2> QED
    BY <1>1, <1>4, <2>1 DEF Quiet
<1>5. CASE /\ ~(req[1].kind # "solve" /\ req[1].sid = 0)
           /\ wire' = [NoWire EXCEPT !.state = "sent", !.req = req]
           /\ sync' = [sync EXCEPT !.phase = "push"]
  <2>1. /\ Asked(req, Len(server)) /\ req # <<>>
        /\ \A i \in DOMAIN req : \E o \in Range(outbox) :
             req[i] = Named(o) /\ ~o.error /\ o.id <= ops /\ o \in Operation
        /\ \/ \A i \in DOMAIN req : req[i].kind = "solve"
           \/ DOMAIN req = {1} /\ \A o \in Range(outbox) : ~o.error => o.id >= req[1].id
    BY <1>1, <1>2, <1>5, PushIs
  <2>2. Flying' = Flying \cup Range(req)
    <3>1. wire'.req = req
      BY <1>5 DEF NoWire
    <3>2. wire.req = <<>> /\ Range(<<>>) = {}
      BY <1>1 DEF TypeInv, SyncT, Range
    <3>3. Flights = late \cup {<<>>} /\ Flights' = late \cup {req}
      BY <1>1, <3>1, <3>2 DEF Flights
    <3>4. Flying = UNION {Range(q) : q \in late}
      BY <3>2, <3>3 DEF Flying
    <3>5. Flying' = UNION {Range(q) : q \in late \cup {req}}
      BY <3>3 DEF Flying
    <3> QED
      BY <3>4, <3>5
  <2>3. \A o \in Range(req) : \E p \in Range(outbox) : o = Named(p) /\ ~p.error
    BY <2>1 DEF Range
  <2>4. \A o \in Range(req) : o.kind # "solve" => o.sid \in Made /\ \A p \in Range(outbox) : ~p.error => p.id >= o.id
    <3> SUFFICES ASSUME NEW i \in DOMAIN req, req[i].kind # "solve"
                 PROVE  req[i].sid \in Made /\ \A p \in Range(outbox) : ~p.error => p.id >= req[i].id
      BY DEF Range
    <3>1. req[i].sid \in Made
      BY <1>1, <2>1 DEF Asked
    <3>2. \A p \in Range(outbox) : ~p.error => p.id >= req[i].id
      BY <2>1
    <3> QED
      BY <3>1, <3>2
  <2>5. wire'.req = req /\ sync'.phase = "push"
    BY <1>5 DEF NoWire, TypeInv, SyncT
  <2> QED
    BY <1>1, <2>2, <2>3, <2>4, <2>5 DEF Sends
<1> QED
  BY <1>3, <1>4, <1>5

LEMMA MarksRetry == ASSUME TypeInv, Retry PROVE Marks
<1>1. /\ outbox' = [i \in DOMAIN outbox |-> [outbox[i] EXCEPT !.error = FALSE]]
      /\ UNCHANGED <<rows, cursor, ops, account, wire, late>> /\ outbox \in Seq(Operation)
  BY DEF Retry, TypeInv, OutboxT
<1>2. Flying' \subseteq Flying
  BY <1>1, FlyingEnds
<1>3. DOMAIN outbox' = DOMAIN outbox
  BY <1>1
<1>4. \A i \in DOMAIN outbox : /\ outbox'[i].id = outbox[i].id /\ outbox'[i].kind = outbox[i].kind
                               /\ outbox'[i].local = outbox[i].local /\ ~outbox'[i].error
  <2> SUFFICES ASSUME NEW i \in DOMAIN outbox
               PROVE  /\ outbox'[i].id = outbox[i].id /\ outbox'[i].kind = outbox[i].kind
                      /\ outbox'[i].local = outbox[i].local /\ ~outbox'[i].error
    OBVIOUS
  <2>1. outbox[i] \in Operation /\ outbox'[i] = [outbox[i] EXCEPT !.error = FALSE]
    BY <1>1
  <2> QED
    BY <2>1 DEF Operation
<1> QED
  BY <1>1, <1>2, <1>3, <1>4 DEF Marks

LEMMA MarksRefused == ASSUME TypeInv, PushRefused PROVE Quiet \/ Marks
<1>1. /\ UNCHANGED <<rows, cursor, ops, account, late>> /\ outbox \in Seq(Operation) /\ wire' = NoWire
      /\ wire.state = "error" /\ sync.phase = "push" /\ wire.req # <<>>
  BY DEF PushRefused, TypeInv, OutboxT, SyncT
<1>2. Flying' \subseteq Flying
  BY <1>1, FlyingEnds
<1>3. CASE UNCHANGED outbox
  BY <1>1, <1>2, <1>3 DEF Quiet
<1>4. CASE /\ ~(Len(wire.req) > 1)
           /\ outbox' = [i \in DOMAIN outbox |->
                IF outbox[i].id = wire.req[1].id THEN [outbox[i] EXCEPT !.error = TRUE] ELSE outbox[i]]
  <2>1. DOMAIN outbox' = DOMAIN outbox
    BY <1>4
  <2>2. \A i \in DOMAIN outbox :
          /\ outbox'[i].id = outbox[i].id /\ outbox'[i].kind = outbox[i].kind /\ outbox'[i].local = outbox[i].local
          /\ outbox'[i].error => outbox[i].error \/ outbox[i].id = wire.req[1].id
    <3> SUFFICES ASSUME NEW i \in DOMAIN outbox
                 PROVE  /\ outbox'[i].id = outbox[i].id /\ outbox'[i].kind = outbox[i].kind
                        /\ outbox'[i].local = outbox[i].local
                        /\ outbox'[i].error => outbox[i].error \/ outbox[i].id = wire.req[1].id
      OBVIOUS
    <3>0. outbox[i] \in Operation
      BY <1>1
    <3>1. CASE outbox[i].id = wire.req[1].id
      <4>1. outbox'[i] = [outbox[i] EXCEPT !.error = TRUE]
        BY <1>4, <3>1
      <4> QED
        BY <3>0, <3>1, <4>1 DEF Operation
    <3>2. CASE outbox[i].id # wire.req[1].id
      BY <1>4, <3>2
    <3> QED
      BY <3>1, <3>2
  <2>3. Len(wire.req) <= 1
    <3>1. wire.req \in Seq(Request)
      BY DEF TypeInv, FlightsT, Flights, Asked
    <3> QED
      BY <1>4, <3>1
  <2> QED
    BY <1>1, <1>2, <2>1, <2>2, <2>3 DEF Marks
<1> QED
  BY <1>3, <1>4 DEF PushRefused

LEMMA AcksPush == ASSUME TypeInv, AckPush PROVE Acks
<1>1. UNCHANGED <<cursor, ops, account, late>> /\ wire' = NoWire
  BY DEF AckPush
<1> QED
  BY <1>1, FlyingEnds DEF Acks

LEMMA MergesPage ==
  ASSUME TypeInv, NEW page, Paged(page, Len(server)), Merge(page), UNCHANGED <<ops, account>>,
         Flying' \subseteq Flying,
         page \in Pages,
         \/ sync.phase = "pull" /\ page = wire.page
         \/ /\ page.after <= cursor
            /\ Overlap \/ (sync.phase = "idle" /\ stream # <<>> /\ Head(stream).type = "changes")
  PROVE  Quiet \/ Merges(page)
<1>1. /\ Len(server) \in Nat /\ Len(server) <= MaxOps + MaxAdd /\ cursor \in Nat /\ page.cursor \in Nat
      /\ RowsT(Len(server))
  BY Fits DEF TypeInv, Paged
<1>2. CASE page.cursor < cursor
  BY <1>2 DEF Merge, workspace, Quiet
<1>3. CASE page.cursor >= cursor
  <2>1. Merged(page)
    BY <1>1, <1>3, MergeIs
  <2> QED
    BY <1>3, <2>1 DEF Merges
<1> QED
  BY <1>1, <1>2, <1>3

LEMMA MergesPull == ASSUME TypeInv, TakePull PROVE Quiet \/ \E page : Merges(page)
<1>1. wire' = NoWire /\ Merge(wire.page) /\ UNCHANGED <<ops, account, late>> /\ sync.phase = "pull"
  BY DEF TakePull
<1>2. Flying' \subseteq Flying
  BY <1>1, FlyingEnds
<1>3. Paged(wire.page, Len(server))
  BY DEF TypeInv, SyncT
<1>4. wire.page \in Pages
  BY DEF Pages
<1> QED
  BY <1>1, <1>2, <1>3, <1>4, MergesPage

LEMMA MergesChanges == ASSUME TypeInv, ReceiveChanges PROVE Quiet \/ \E page : Merges(page)
<1>1. /\ stream # <<>> /\ UNCHANGED <<ops, account, wire, late>>
      /\ Overlap \/ (sync.phase = "idle" /\ Head(stream).type = "changes")
  BY DEF ReceiveChanges
<1>2. Flying' \subseteq Flying
  BY <1>1, FlyingEnds
<1>3. PICK page : page = Head(stream).page
  OBVIOUS
<1>4. page \in Pages /\ Paged(page, Len(server)) /\ page.after \in Nat /\ cursor \in Nat
  <2>1. Head(stream) = stream[1] /\ 1 \in DOMAIN stream
    BY <1>1, StreamReads DEF TypeInv, LinkT
  <2> QED
    BY <1>3, <2>1 DEF TypeInv, LinkT, Pages, Paged
<1>5. CASE UNCHANGED workspace
  BY <1>1, <1>2, <1>5 DEF Quiet, workspace
<1>6. CASE Merge(page) /\ ~(page.after > cursor)
  <2>1. page.after <= cursor
    BY <1>4, <1>6
  <2> QED
    BY <1>1, <1>2, <1>4, <1>6, <2>1, MergesPage
<1> QED
  BY <1>3, <1>5, <1>6 DEF ReceiveChanges

LEMMA QuietOthers ==
  ASSUME TypeInv,
         StartSync \/ Reconnected \/ ServerBusy \/ AskPull \/ ServePull \/ Connect \/ Stream \/ ReceiveReady
           \/ RequestLost \/ Disconnect \/ Crash \/ UNCHANGED vars
  PROVE  Quiet
<1>1. UNCHANGED <<rows, outbox, cursor, ops, account>>
  BY DEF StartSync, Reconnected, ServerBusy, AskPull, ServePull, Connect, Stream, ReceiveReady,
         RequestLost, Disconnect, Crash, vars, workspace
<1>2. CASE ServerBusy \/ RequestLost \/ Disconnect \/ Crash
  <2>1. (wire' = NoWire /\ late' \subseteq late \cup {wire.req}) \/ UNCHANGED <<wire, late>>
    BY <1>2, GaveUp DEF ServerBusy, RequestLost, Disconnect, Crash
  <2> QED
    BY <1>1, <2>1, FlyingEnds DEF Quiet
<1>3. CASE AskPull
  <2>1. UNCHANGED late /\ (UNCHANGED wire \/ wire' = [NoWire EXCEPT !.state = "sent", !.page = [NoPage EXCEPT !.after = cursor]])
    BY <1>3 DEF AskPull
  <2>2. wire'.req = wire.req
    <3>1. wire.req = <<>>
      BY <1>3 DEF AskPull, TypeInv, SyncT
    <3> QED
      BY <2>1, <3>1 DEF NoWire
  <2> QED
    BY <1>1, <2>1, <2>2, FlyingEnds DEF Quiet
<1>4. CASE ServePull
  <2>1. wire = [state |-> wire.state, req |-> wire.req, answer |-> wire.answer, page |-> wire.page]
    BY DEF TypeInv, SyncT
  <2>2. \E st, p : wire' = [wire EXCEPT !.state = st] \/ wire' = [wire EXCEPT !.state = st, !.page = p]
    BY <1>4 DEF ServePull
  <2>3. wire'.req = wire.req
    BY <2>1, <2>2
  <2>4. UNCHANGED late
    BY <1>4 DEF ServePull
  <2> QED
    BY <1>1, <2>3, <2>4, FlyingEnds DEF Quiet
<1>5. CASE StartSync \/ Reconnected \/ Connect \/ Stream \/ ReceiveReady \/ UNCHANGED vars
  <2>1. UNCHANGED <<wire, late>>
    BY <1>5 DEF StartSync, Reconnected, Connect, Stream, ReceiveReady, vars
  <2> QED
    BY <1>1, <2>1, FlyingEnds DEF Quiet
<1> QED
  BY <1>2, <1>3, <1>4, <1>5

\* The kind of a step.
LEMMA NextIs ==
  ASSUME TypeInv, [Next]_vars
  PROVE  \/ Quiet \/ Told \/ Marks \/ Acks
         \/ \E req : Serves(req)
         \/ \E op, kept : Queues(op, kept)
         \/ \E req : Sends(req)
         \/ \E page : Merges(page)
<1>1. CASE User
  BY <1>1, QueuesAdd, QueuesEdit, QueuesDelete, MarksRetry DEF User
<1>2. CASE OtherDevices
  BY <1>2, ToldAdds, ToldChanges DEF OtherDevices
<1>3. CASE Upload
  BY <1>3, SendsPush, ServesPush, AcksPush, MarksRefused, QuietOthers DEF Upload
<1>4. CASE Download
  BY <1>4, MergesPull, QuietOthers DEF Download
<1>5. CASE Live
  BY <1>5, MergesChanges, QuietOthers DEF Live
<1>6. CASE \E req \in late : ServeLate(req)
  BY <1>6, ServesLate
<1>7. CASE StartSync \/ Reconnected \/ RequestLost \/ Disconnect \/ Crash \/ UNCHANGED vars
  BY <1>7, QuietOthers
<1> QED
  BY <1>1, <1>2, <1>3, <1>4, <1>5, <1>6, <1>7 DEF Next

-----------------------------------------------------------------------------
(* Operations, requests and whose solves they are about.                   *)

LEMMA OutboxOf ==
  ASSUME TypeInv, NEW o \in Range(outbox)
  PROVE  /\ o \in Operation /\ o.id \in 1..ops /\ o.id \in Int /\ o.local \in Names(o.id, Len(server))
         /\ o.local \in Int \ {0} /\ (o.kind = "solve" => o.local = -o.id)
<1>1. PICK i \in DOMAIN outbox : o = outbox[i]
  BY DEF Range
<1>2. /\ outbox[i] \in Operation /\ outbox[i].id <= ops /\ outbox[i].local \in Names(outbox[i].id, Len(server))
      /\ outbox[i].kind = "solve" => outbox[i].local = -outbox[i].id
  BY DEF TypeInv, OutboxT
<1>3. o.id \in 1..ops
  BY <1>1, <1>2 DEF Operation, Ops, TypeInv, AccountT
<1>4. Len(server) \in Nat
  BY Fits DEF TypeInv
<1> QED
  BY <1>1, <1>2, <1>3, <1>4 DEF Names

LEMMA OutboxOnly ==
  ASSUME TypeInv, NEW o \in Range(outbox), NEW p \in Range(outbox), o.id = p.id
  PROVE  o = p
<1>1. PICK i \in DOMAIN outbox : o = outbox[i]
  BY DEF Range
<1>2. PICK j \in DOMAIN outbox : p = outbox[j]
  BY DEF Range
<1>3. outbox \in Seq(Operation) /\ Rising(outbox) /\ o.id \in Int
  BY OutboxOf DEF TypeInv, OutboxT
<1>4. ~(i < j) /\ ~(j < i)
  BY <1>1, <1>2, <1>3 DEF Rising
<1> QED
  BY <1>1, <1>2, <1>3, <1>4

LEMMA FlyingOf ==
  ASSUME TypeInv, NEW o \in Flying
  PROVE  /\ o \in Request /\ o.id \in 1..ops /\ o.id \in Int /\ o.local \in Int \ {0}
         /\ IF o.kind = "solve" THEN o.local = -o.id ELSE o.sid \in Made
<1>1. PICK q \in Flights : o \in Range(q)
  BY DEF Flying
<1>2. PICK i \in DOMAIN q : o = q[i]
  BY <1>1 DEF Range
<1>3. /\ q[i] \in Request /\ q[i].id <= ops
      /\ IF q[i].kind = "solve" THEN q[i].local = -q[i].id ELSE q[i].sid \in 1..Len(server)
  BY DEF TypeInv, FlightsT, Asked
<1>4. o.id \in 1..ops
  BY <1>2, <1>3 DEF Request, Ops, TypeInv, AccountT
<1>5. o.local \in Int \ {0}
  <2>1. o.local \in Local
    BY <1>2, <1>3 DEF Request
  <2> QED
    BY <2>1, SyncAssumption DEF Local, Ops, Sid
<1>6. Made = 1..Len(server)
  BY Fits DEF TypeInv
<1> QED
  BY <1>2, <1>3, <1>4, <1>5, <1>6

\* A row is that of one solve.
LEMMA OneOwner ==
  ASSUME TypeInv, NEW s \in Made, NEW t \in Made, NEW x \in Int \ {0}, Owns(x, s), Owns(x, t)
  PROVE  s = t
<1>1. CASE x > 0
  BY <1>1 DEF Owns
<1>2. CASE ~(x > 0)
  <2>1. server[s].by = -x /\ server[t].by = -x /\ -x # 0
    BY <1>2 DEF Owns
  <2> QED
    BY <2>1 DEF TypeInv, AccountT, CreatedOnce
<1> QED
  BY <1>1, <1>2

LEMMA NamedIs ==
  ASSUME NEW p, NEW o, o = Named(p)
  PROVE  /\ o.id = p.id /\ o.kind = p.kind /\ o.local = p.local
         /\ o.kind # "solve" => o.sid = SolveServerId(o.local)
BY DEF Named

LEMMA KeptOf ==
  ASSUME TypeInv, NEW S, NEW kept, kept = Keeping(outbox, S)
  PROVE  Range(kept) = Range(outbox) \cap S /\ kept \in Seq(Operation)
<1>1. outbox \in Seq(Operation)
  BY DEF TypeInv, OutboxT
<1> QED
  BY <1>1, KeepingIs

LEMMA QueuedOf ==
  ASSUME TypeInv, NEW op, NEW kept, Queues(op, kept)
  PROVE  Range(outbox') = Range(kept) \cup {op} /\ Range(kept) \subseteq Range(outbox)
<1>1. kept \in Seq(Operation) /\ Range(kept) \subseteq Range(outbox)
  <2>1. CASE kept = outbox
    BY <2>1 DEF TypeInv, OutboxT
  <2>2. CASE \E S : kept = Keeping(outbox, S)
    BY <2>2, KeptOf
  <2> QED
    BY <2>1, <2>2 DEF Queues
<1>2. outbox' = Append(kept, op) /\ op \in Operation
  BY DEF Queues
<1>3. /\ DOMAIN outbox' = 1..(Len(kept) + 1) /\ DOMAIN kept = 1..Len(kept) /\ Len(kept) \in Nat
      /\ \A i \in 1..Len(kept) : outbox'[i] = kept[i]
      /\ outbox'[Len(kept) + 1] = op
  BY <1>1, <1>2
<1>4. Range(outbox') = Range(kept) \cup {op}
  <2>1. \A i \in DOMAIN outbox' : outbox'[i] \in Range(kept) \cup {op}
    <3> SUFFICES ASSUME NEW i \in DOMAIN outbox' PROVE outbox'[i] \in Range(kept) \cup {op}
      OBVIOUS
    <3>1. CASE i \in 1..Len(kept)
      BY <1>3, <3>1 DEF Range
    <3>2. CASE i = Len(kept) + 1
      BY <1>3, <3>2
    <3> QED
      BY <1>3, <3>1, <3>2
  <2>2. \A i \in DOMAIN kept : kept[i] \in Range(outbox')
    BY <1>3 DEF Range
  <2>3. op \in Range(outbox')
    <3>1. Len(kept) + 1 \in DOMAIN outbox'
      BY <1>3
    <3> QED
      BY <1>3, <3>1 DEF Range
  <2> QED
    BY <2>1, <2>2, <2>3 DEF Range
<1> QED
  BY <1>1, <1>4

LEMMA MarkedOf ==
  ASSUME Marks
  PROVE  /\ \A o \in Range(outbox') : \E p \in Range(outbox) :
              /\ p.id = o.id /\ p.kind = o.kind /\ p.local = o.local
              /\ o.error => p.error \/ (wire.state = "error" /\ wire.req # <<>> /\ Len(wire.req) <= 1 /\ o.id = wire.req[1].id)
         /\ \A p \in Range(outbox) : \E o \in Range(outbox') : p.id = o.id /\ p.kind = o.kind /\ p.local = o.local
BY DEF Marks, Range

-----------------------------------------------------------------------------
(* Whose solves the operations and their receipts are about.               *)

\* What the account told of a solve stays so.
Moves ==
  \A s \in Made : s \in Made' /\ server'[s].by = server[s].by /\ (server[s].gone => server'[s].gone)

LEMMA OwnsStays == ASSUME Moves, NEW x, NEW s \in Made, Owns(x, s) PROVE Owns(x, s)'
BY DEF Moves, Owns

LEMMA MovesIs ==
  ASSUME TypeInv, UNCHANGED account \/ Told \/ \E req : Serves(req)
  PROVE  Moves
<1>1. CASE UNCHANGED account
  BY <1>1 DEF account, Moves, Made
<1>2. CASE Told
  BY <1>2 DEF Told, Moves
<1>3. CASE \E req : Serves(req)
  <2>1. PICK req : Applied(req)
    BY <1>3 DEF Serves
  <2>2. /\ Made = 1..Len(server) /\ server' \in Seq(Stored) /\ Len(server) <= Len(server') /\ Len(server) \in Nat
        /\ \A s \in 1..Len(server) : server'[s].by = server[s].by /\ (server[s].gone => server'[s].gone)
    BY <2>1, Fits DEF TypeInv, Applied
  <2>3. Made' = 1..Len(server') /\ Len(server') \in Nat
    BY <2>2 DEF Made
  <2> QED
    BY <2>2, <2>3 DEF Moves
<1> QED
  BY <1>1, <1>2, <1>3

Alike(o, p) == p.id = o.id /\ p.kind = o.kind /\ p.local = o.local

LEMMA OwnKeeps ==
  ASSUME TypeInv, OwnInv, ReceiptInv, Moves, UNCHANGED receipts, Flying' \subseteq Flying,
         \A o \in Range(outbox') : \E p \in Range(outbox) : Alike(o, p),
         \A x \in DOMAIN rows' : rows'[x].sid # 0 => rows'[x].sid \in Made /\ Owns(x, rows'[x].sid)
  PROVE  OwnInv' /\ ReceiptInv'
<1>1. \A o \in Range(outbox') \cup Flying' : \E p \in Range(outbox) \cup Flying : Alike(o, p)
  BY DEF Alike
<1>2. OwnInv'
  <2>1. \A x \in DOMAIN rows' : \A s : s = rows'[x].sid /\ s # 0 => Owns(x, s)'
    BY OwnsStays
  <2>2. \A o \in Flying' : o.kind # "solve" => Owns(o.local, o.sid)'
    BY FlyingOf, OwnsStays DEF OwnInv
  <2>3. \A o \in Range(outbox') \cup Flying', p \in Flying' : o.id = p.id => o.kind = p.kind /\ o.local = p.local
    BY <1>1 DEF OwnInv, Alike
  <2> QED
    BY <2>1, <2>2, <2>3 DEF OwnInv, Owns
<1>3. ReceiptInv'
  <2> SUFFICES ASSUME NEW o \in Range(outbox') \cup Flying', o.id \in DOMAIN receipts
               PROVE  /\ receipts[o.id] # 0 => Owns(o.local, receipts[o.id])'
                      /\ IF o.kind = "solve" THEN receipts[o.id] # 0
                         ELSE receipts[o.id] = 0 \/ o.kind = "delete" =>
                                \E s \in Made' : Owns(o.local, s)' /\ server'[s].gone
    BY DEF ReceiptInv, Owns
  <2>1. PICK p \in Range(outbox) \cup Flying : Alike(o, p)
    BY <1>1
  <2>2. /\ receipts[o.id] # 0 => Owns(o.local, receipts[o.id])
        /\ IF o.kind = "solve" THEN receipts[o.id] # 0
           ELSE receipts[o.id] = 0 \/ o.kind = "delete" => \E s \in Made : Owns(o.local, s) /\ server[s].gone
    BY <2>1 DEF ReceiptInv, Alike
  <2>3. receipts[o.id] # 0 => receipts[o.id] \in Made
    BY DEF TypeInv, AccountT
  <2>4. receipts[o.id] # 0 => Owns(o.local, receipts[o.id])'
    BY <2>2, <2>3, OwnsStays
  <2>5. ASSUME NEW s \in Made, Owns(o.local, s), server[s].gone
        PROVE  s \in Made' /\ Owns(o.local, s)' /\ server'[s].gone
    BY <2>5, OwnsStays DEF Moves
  <2> QED
    BY <2>2, <2>4, <2>5
<1> QED
  BY <1>2, <1>3

LEMMA OwnQueues ==
  ASSUME TypeInv, OwnInv, ReceiptInv, NEW op, NEW kept, Queues(op, kept)
  PROVE  OwnInv' /\ ReceiptInv'
<1>1. /\ UNCHANGED <<server, receipts>> /\ Flying' = Flying /\ op.id = ops + 1 /\ ops \in Nat
      /\ DOMAIN receipts \subseteq 1..ops /\ Made' = Made
  BY DEF Queues, account, TypeInv, AccountT, Made
<1>2. Range(outbox') \subseteq Range(outbox) \cup {op}
  BY QueuedOf
<1>3. op.id \notin DOMAIN receipts /\ \A o \in Flying : o.id # op.id
  BY <1>1, FlyingOf
<1>4. ASSUME NEW x \in DOMAIN rows', rows'[x].sid # 0 PROVE Owns(x, rows[x].sid) /\ rows'[x].sid = rows[x].sid
  <2>1. x \in DOMAIN rows
    BY <1>4 DEF Queues
  <2>2. rows'[x].sid = rows[x].sid
    BY <2>1 DEF Queues
  <2> QED
    BY <1>4, <2>1, <2>2 DEF OwnInv
<1>5. OwnInv'
  <2>1. \A o \in Range(outbox') \cup Flying', p \in Flying' : o.id = p.id => o.kind = p.kind /\ o.local = p.local
    BY <1>1, <1>2, <1>3 DEF OwnInv
  <2>2. \A o \in Flying' : o.kind # "solve" => (IF o.local > 0 THEN o.sid = o.local ELSE server'[o.sid].by = -o.local)
    BY <1>1 DEF OwnInv, Owns
  <2>3. \A x \in DOMAIN rows' : rows'[x].sid # 0 => (IF x > 0 THEN rows'[x].sid = x ELSE server'[rows'[x].sid].by = -x)
    BY <1>1, <1>4 DEF Owns
  <2> QED
    BY <2>1, <2>2, <2>3 DEF OwnInv, Owns
<1>6. ReceiptInv'
  BY <1>1, <1>2, <1>3 DEF ReceiptInv, Owns
<1> QED
  BY <1>5, <1>6

LEMMA OwnSends ==
  ASSUME TypeInv, OwnInv, ReceiptInv, NEW req, Sends(req)
  PROVE  OwnInv' /\ ReceiptInv'
<1>1. UNCHANGED <<rows, outbox, server, receipts>> /\ Flying' = Flying \cup Range(req) /\ Made' = Made
  BY DEF Sends, account, Made
<1>2. ASSUME NEW o \in Range(req)
      PROVE  \E p \in Range(outbox) :
               /\ p.id = o.id /\ p.kind = o.kind /\ p.local = o.local
               /\ o.kind # "solve" => Owns(o.local, o.sid)
  <2>1. PICK p \in Range(outbox) : o = Named(p)
    BY DEF Sends
  <2>2. p.id = o.id /\ p.kind = o.kind /\ p.local = o.local /\ (o.kind # "solve" => o.sid = SolveServerId(o.local))
    BY <2>1, NamedIs
  <2>3. o.kind # "solve" => o.sid \in Made
    BY DEF Sends
  <2>4. ASSUME o.kind # "solve" PROVE Owns(o.local, o.sid)
    <3>1. o.sid # 0
      BY <2>3, <2>4, Fits DEF TypeInv
    <3>2. CASE o.local \in DOMAIN rows /\ rows[o.local].sid # 0
      BY <2>2, <2>4, <3>2 DEF SolveServerId, OwnInv
    <3>3. CASE ~(o.local \in DOMAIN rows /\ rows[o.local].sid # 0)
      BY <2>2, <2>4, <3>1, <3>3 DEF SolveServerId, Owns
    <3> QED
      BY <3>2, <3>3
  <2> QED
    BY <2>2, <2>4
<1>3. \A o \in Range(outbox') \cup Flying' : \E p \in Range(outbox) \cup Flying : Alike(o, p)
  BY <1>1, <1>2 DEF Alike
<1>4. OwnInv'
  <2>1. \A o \in Flying' : o.kind # "solve" => Owns(o.local, o.sid)
    BY <1>1, <1>2 DEF OwnInv
  <2>2. ASSUME NEW o \in Range(outbox) \cup Flying', NEW p \in Flying', o.id = p.id
        PROVE  o.kind = p.kind /\ o.local = p.local
    <3>1. PICK a \in Range(outbox) \cup Flying : Alike(o, a)
      BY <1>1, <1>3, <2>2
    <3>2. PICK b \in Range(outbox) \cup Flying : Alike(p, b)
      BY <1>3
    <3>3. a.id = b.id
      BY <2>2, <3>1, <3>2 DEF Alike
    <3>4. CASE a \in Flying \/ b \in Flying
      BY <3>1, <3>2, <3>3, <3>4 DEF OwnInv, Alike
    <3>5. CASE a \in Range(outbox) /\ b \in Range(outbox)
      <4>1. a = b
        BY <3>3, <3>5, OutboxOnly
      <4> QED
        BY <3>1, <3>2, <4>1 DEF Alike
    <3> QED
      BY <3>4, <3>5
  <2> QED
    BY <1>1, <2>1, <2>2 DEF OwnInv, Owns
<1>5. ReceiptInv'
  BY <1>1, <1>3 DEF ReceiptInv, Owns, Alike
<1> QED
  BY <1>4, <1>5

\* What a request's transaction answers.
LEMMA ServedOp ==
  ASSUME TypeInv, OwnInv, NEW req, Serves(req), NEW w \in Range(req), w.id \notin DOMAIN receipts
  PROVE  /\ w.id \in DOMAIN receipts' /\ w \in Flying /\ receipts'[w.id] \in Made' \cup {0} /\ w.id \notin refused
         /\ \A r : r = receipts'[w.id] /\ r # 0 => Owns(w.local, r)'
         /\ w.kind = "solve" => receipts'[w.id] \notin Made \cup {0}
         /\ w.kind # "solve" =>
              /\ w.sid \in Made /\ Owns(w.local, w.sid)' /\ receipts'[w.id] \in {0, w.sid}
              /\ receipts'[w.id] = 0 \/ w.kind = "delete" => server'[w.sid].gone
              /\ receipts'[w.id] # 0 => ~server[w.sid].gone /\ seq < change'[w.sid]
<1>0. Moves
  BY MovesIs
<1>1. /\ Applied(req) /\ req \in Flights /\ ~Refuses(req) /\ w \in Flying
      /\ Made = 1..Len(server) /\ Len(server) \in Nat
  BY Fits DEF Serves, Flying, TypeInv
<1>2. /\ server' \in Seq(Stored) /\ Len(server) <= Len(server')
      /\ receipts' \in [DOMAIN receipts \cup {o.id : o \in Range(req)} -> DOMAIN server' \cup {0}]
      /\ IF w.kind = "solve" THEN receipts'[w.id] > Len(server) /\ server'[receipts'[w.id]].by = w.id
         ELSE \/ receipts'[w.id] = 0 /\ server[w.sid].gone
              \/ /\ receipts'[w.id] = w.sid /\ seq < change'[w.sid]
                 /\ w.kind = "delete" => server'[w.sid].gone
      /\ Answer(req, w) = receipts'[w.id]
  BY <1>1 DEF Applied
<1>3. w.id \in DOMAIN receipts' /\ receipts'[w.id] \in Made' \cup {0} /\ Made' = 1..Len(server') /\ Len(server') \in Nat
  BY <1>2 DEF Made
<1>4. w.id \notin refused
  <2>1. Asked(req, Len(server))
    BY <1>1 DEF TypeInv, FlightsT
  <2>2. w \in Range(Fresh(req))
    BY <1>1, <2>1, FreshIs
  <2> QED
    BY <1>1, <2>2 DEF Refuses
<1>5. /\ w.local \in Int \ {0} /\ w.id \in Nat /\ w.id > 0
      /\ IF w.kind = "solve" THEN w.local = -w.id ELSE w.sid \in Made
  BY <1>1, FlyingOf
<1>6. CASE w.kind = "solve"
  <2>1. receipts'[w.id] \notin Made \cup {0}
    BY <1>1, <1>2, <1>3, <1>6
  <2>2. ~(w.local > 0) /\ -w.local = w.id
    BY <1>5, <1>6
  <2>3. \A s : s = receipts'[w.id] => Owns(w.local, s)'
    BY <1>2, <1>6, <2>2 DEF Owns
  <2> QED
    BY <1>1, <1>3, <1>4, <1>6, <2>1, <2>3
<1>7. CASE w.kind # "solve"
  <2>1. w.sid \in Made /\ Owns(w.local, w.sid)'
    BY <1>0, <1>1, <1>5, <1>7, OwnsStays DEF OwnInv
  <2>2. receipts'[w.id] \in {0, w.sid}
    BY <1>2, <1>7
  <2>3. receipts'[w.id] = 0 \/ w.kind = "delete" => server'[w.sid].gone
    <3>1. server[w.sid].gone => server'[w.sid].gone
      BY <1>0, <2>1 DEF Moves
    <3>2. w.sid # 0
      BY <1>1, <2>1
    <3> QED
      BY <1>2, <1>7, <3>1, <3>2
  <2>4. receipts'[w.id] # 0 => ~server[w.sid].gone
    BY <1>2, <1>7 DEF Answer
  <2>5. \A s : s = receipts'[w.id] /\ s # 0 => Owns(w.local, s)'
    BY <2>1, <2>2
  <2> QED
    BY <1>1, <1>2, <1>3, <1>4, <1>7, <2>1, <2>2, <2>3, <2>4, <2>5
<1> QED
  BY <1>6, <1>7

LEMMA OwnServes ==
  ASSUME TypeInv, OwnInv, ReceiptInv, NEW req, Serves(req)
  PROVE  OwnInv' /\ ReceiptInv'
<1>0. Moves
  BY MovesIs
<1>1. /\ UNCHANGED <<rows, outbox, ops>> /\ Flying' \subseteq Flying
      /\ DOMAIN receipts' = DOMAIN receipts \cup {o.id : o \in Range(req)}
      /\ \A o \in DOMAIN receipts : receipts'[o] = receipts[o]
  BY DEF Serves, Applied
<1>2. \A x \in DOMAIN rows : rows[x].sid # 0 => rows[x].sid \in Made
  BY Fits DEF TypeInv, RowsT
<1>3. OwnInv'
  <2>1. \A x \in DOMAIN rows : \A s : s = rows[x].sid /\ s # 0 => Owns(x, s)'
    BY <1>0, <1>2, OwnsStays DEF OwnInv
  <2>2. \A o \in Flying' : o.kind # "solve" => Owns(o.local, o.sid)'
    BY <1>0, <1>1, FlyingOf, OwnsStays DEF OwnInv
  <2>3. \A o \in Range(outbox) \cup Flying', p \in Flying' : o.id = p.id => o.kind = p.kind /\ o.local = p.local
    BY <1>1 DEF OwnInv
  <2> QED
    BY <1>1, <2>1, <2>2, <2>3 DEF OwnInv, Owns
<1>4. ASSUME NEW o \in Range(outbox) \cup Flying, o.id \in DOMAIN receipts', NEW r, r = receipts'[o.id]
      PROVE  /\ r # 0 => Owns(o.local, r)'
             /\ IF o.kind = "solve" THEN r # 0
                ELSE r = 0 \/ o.kind = "delete" => \E s \in Made' : Owns(o.local, s)' /\ server'[s].gone
  <2>1. CASE o.id \in DOMAIN receipts
    <3>1. r = receipts[o.id] /\ (r # 0 => r \in Made)
      BY <1>1, <1>4, <2>1 DEF TypeInv, AccountT
    <3>2. /\ r # 0 => Owns(o.local, r)
          /\ IF o.kind = "solve" THEN r # 0
             ELSE r = 0 \/ o.kind = "delete" => \E s \in Made : Owns(o.local, s) /\ server[s].gone
      BY <2>1, <3>1 DEF ReceiptInv
    <3>3. \A s \in Made : Owns(o.local, s) => s \in Made' /\ Owns(o.local, s)' /\ (server[s].gone => server'[s].gone)
      BY <1>0, OwnsStays DEF Moves
    <3> QED
      BY <3>1, <3>2, <3>3
  <2>2. CASE o.id \notin DOMAIN receipts
    <3>1. PICK w \in Range(req) : w.id = o.id
      BY <1>1, <1>4, <2>2
    <3>2. /\ w \in Flying
          /\ \A u : u = receipts'[w.id] /\ u # 0 => Owns(w.local, u)'
          /\ w.kind = "solve" => receipts'[w.id] \notin Made \cup {0}
          /\ w.kind # "solve" =>
               /\ w.sid \in Made /\ Owns(w.local, w.sid)' /\ receipts'[w.id] \in {0, w.sid}
               /\ receipts'[w.id] = 0 \/ w.kind = "delete" => server'[w.sid].gone
      BY <2>2, <3>1, ServedOp
    <3>3. o.kind = w.kind /\ o.local = w.local
      BY <3>1, <3>2 DEF OwnInv
    <3>4. w.kind # "solve" => w.sid \in Made'
      BY <1>0, <3>2 DEF Moves
    <3> QED
      BY <1>4, <3>1, <3>2, <3>3, <3>4
  <2> QED
    BY <2>1, <2>2
<1>5. ReceiptInv'
  BY <1>1, <1>4 DEF ReceiptInv, Owns
<1> QED
  BY <1>3, <1>5

LEMMA RequestFlies == Range(wire.req) \subseteq Flying
BY DEF Flying, Flights

LEMMA OwnAcks ==
  ASSUME TypeInv, OwnInv, ReceiptInv, Acks
  PROVE  OwnInv' /\ ReceiptInv'
<1>1. AckPush /\ UNCHANGED account /\ Flying' \subseteq Flying
  BY DEF Acks
<1>2. /\ \A x \in DOMAIN rows' :
           \/ /\ \E o \in Range(wire.req) : o.kind = "solve" /\ o.local = x
              /\ x < 0 /\ -x \in DOMAIN receipts /\ rows'[x] = [rows[x] EXCEPT !.sid = receipts[-x]]
           \/ rows'[x] = rows[x]
      /\ DOMAIN rows' \subseteq DOMAIN rows /\ outbox' = LeftAfter(wire.req)
  BY <1>1, AckIs
<1>3. \A o \in Range(outbox') : o \in Range(outbox)
  BY <1>2, KeptOf DEF LeftAfter
<1>4. ASSUME NEW x \in DOMAIN rows', rows'[x].sid # 0
      PROVE  rows'[x].sid \in Made /\ Owns(x, rows'[x].sid)
  <2>1. CASE rows'[x] = rows[x]
    <3>1. rows[x].sid \in Made
      BY <1>2, <1>4, <2>1, Fits DEF TypeInv, RowsT
    <3> QED
      BY <1>2, <1>4, <2>1, <3>1 DEF OwnInv
  <2>2. ASSUME NEW o \in Range(wire.req), o.kind = "solve", o.local = x, -x \in DOMAIN receipts,
               rows'[x] = [rows[x] EXCEPT !.sid = receipts[-x]]
        PROVE  rows'[x].sid \in Made /\ Owns(x, rows'[x].sid)
    <3>1. o \in Flying /\ o.local = -o.id /\ o.id \in Int
      BY <2>2, RequestFlies, FlyingOf
    <3>2. o.id = -x
      BY <2>2, <3>1
    <3>3. receipts[-x] # 0 /\ Owns(x, receipts[-x])
      BY <2>2, <3>1, <3>2 DEF ReceiptInv
    <3>4. rows[x] \in Row
      BY <1>2 DEF TypeInv, RowsT
    <3>5. rows'[x].sid = receipts[-x]
      BY <2>2, <3>4 DEF Row
    <3> QED
      BY <2>2, <3>3, <3>5 DEF TypeInv, AccountT
  <2> QED
    BY <1>2, <2>1, <2>2
<1>5. UNCHANGED receipts
  BY <1>1 DEF account
<1> QED
  BY <1>1, <1>3, <1>4, <1>5, MovesIs, OwnKeeps DEF Alike

LEMMA OwnMerges ==
  ASSUME TypeInv, OwnInv, ReceiptInv, NEW page, Merges(page)
  PROVE  OwnInv' /\ ReceiptInv'
<1>1. Merged(page) /\ UNCHANGED account /\ Flying' \subseteq Flying /\ Paged(page, Len(server))
  BY DEF Merges
<1>2. \A o \in Range(outbox') : o \in Range(outbox)
  BY <1>1, KeptOf DEF Merged
<1>3. ASSUME NEW x \in DOMAIN rows', rows'[x].sid # 0
      PROVE  rows'[x].sid \in Made /\ Owns(x, rows'[x].sid)
  <2>1. CASE x \in DOMAIN rows /\ rows'[x] = rows[x]
    <3>1. rows[x].sid \in Made
      BY <1>3, <2>1, Fits DEF TypeInv, RowsT
    <3> QED
      BY <1>3, <2>1, <3>1 DEF OwnInv
  <2>2. ASSUME NEW s \in DOMAIN page.solves, LocalId(s) = x,
               rows'[x] = [sid |-> s, val |-> page.solves[s].val, deleted |-> FALSE]
        PROVE  rows'[x].sid \in Made /\ Owns(x, rows'[x].sid)
    <3>1. s \in Made /\ s \in Nat /\ s > 0
      BY <1>1, Fits DEF TypeInv, Paged
    <3>2. rows'[x].sid = s
      BY <2>2
    <3>3. CASE x \in DOMAIN rows /\ rows[x].sid = s
      BY <3>1, <3>2, <3>3 DEF OwnInv
    <3>4. CASE x = s
      BY <3>1, <3>2, <3>4 DEF Owns
    <3> QED
      BY <2>2, <3>1, <3>3, <3>4, LocalIs
  <2> QED
    BY <1>1, <2>1, <2>2 DEF Merged
<1>4. UNCHANGED receipts
  BY <1>1 DEF account
<1> QED
  BY <1>1, <1>2, <1>3, <1>4, MovesIs, OwnKeeps DEF Alike

LEMMA OwnOthers ==
  ASSUME TypeInv, OwnInv, ReceiptInv, Quiet \/ Told \/ Marks
  PROVE  OwnInv' /\ ReceiptInv'
<1>1. UNCHANGED <<rows, receipts>> /\ Flying' \subseteq Flying /\ Moves
  BY MovesIs DEF Quiet, Told, Marks, account
<1>2. \A o \in Range(outbox') : \E p \in Range(outbox) : Alike(o, p)
  <2>1. CASE UNCHANGED outbox
    BY <2>1 DEF Alike
  <2>2. CASE Marks
    BY <2>2, MarkedOf DEF Alike
  <2> QED
    BY <2>1, <2>2 DEF Quiet, Told
<1>3. \A x \in DOMAIN rows : rows[x].sid # 0 => rows[x].sid \in Made /\ Owns(x, rows[x].sid)
  BY Fits DEF TypeInv, RowsT, OwnInv
<1> QED
  BY <1>1, <1>2, <1>3, OwnKeeps

\* Whose solves operations, rows and receipts are about is always known.
LEMMA OwnNext ==
  ASSUME TypeInv, OwnInv, ReceiptInv, [Next]_vars
  PROVE  OwnInv' /\ ReceiptInv'
BY NextIs, OwnOthers, OwnAcks, OwnServes, OwnQueues, OwnSends, OwnMerges

LEMMA NothingAtFirst ==
  ASSUME Init
  PROVE  Range(outbox) = {} /\ Flying = {} /\ receipts = <<>> /\ rows = <<>>
<1>1. outbox = <<>> /\ late = {} /\ wire = NoWire /\ receipts = <<>> /\ rows = <<>>
  BY DEF Init
<1>2. wire.req = <<>>
  BY <1>1 DEF NoWire
<1>3. Flights = {<<>>}
  BY <1>1, <1>2 DEF Flights
<1>4. Range(<<>>) = {}
  BY DEF Range
<1> QED
  BY <1>1, <1>3, <1>4 DEF Flying

LEMMA OwnInit == Init => OwnInv /\ ReceiptInv
BY NothingAtFirst DEF OwnInv, ReceiptInv

LEMMA AlwaysOwns == Spec => [](TypeInv /\ OwnInv /\ ReceiptInv)
<1>1. Init => TypeInv /\ OwnInv /\ ReceiptInv
  BY InitTypes, OwnInit
<1>2. TypeInv /\ OwnInv /\ ReceiptInv /\ [Next]_vars => (TypeInv /\ OwnInv /\ ReceiptInv)'
  BY NextTypes, OwnNext
<1> QED
  BY <1>1, <1>2, PTL DEF Spec

-----------------------------------------------------------------------------
(* What is queued is kept.                                                 *)

\* An operation is still queued, done, replaced or about a solve that is gone.
KeptOrDone(o) ==
  \/ \E p \in Range(outbox') : p.id = o.id
  \/ o.id \in DOMAIN receipts
  \/ \E p \in Range(outbox') : p.local = o.local /\ p.id = ops'
  \/ o.local \notin DOMAIN rows'

LEMMA KeptNext ==
  ASSUME TypeInv, [Next]_vars, NEW o \in Range(outbox)
  PROVE  KeptOrDone(o)
<1>1. CASE Quiet \/ Told \/ \E req : Serves(req) \/ Sends(req)
  <2>1. outbox' = outbox
    BY <1>1 DEF Quiet, Told, Serves, Sends
  <2> QED
    BY <2>1 DEF KeptOrDone
<1>2. CASE Marks
  BY <1>2, MarkedOf DEF KeptOrDone
<1>3. CASE Acks
  <2>1. outbox' = LeftAfter(wire.req) /\ \A p \in Range(wire.req) : p.id \in DOMAIN receipts
    BY <1>3, AckIs DEF Acks
  <2>2. Range(outbox') = Range(outbox) \cap {p \in Range(outbox) : p.id \notin {q.id : q \in Range(wire.req)}}
    BY <2>1, KeptOf DEF LeftAfter
  <2> QED
    BY <2>1, <2>2 DEF KeptOrDone
<1>4. ASSUME NEW op, NEW kept, Queues(op, kept) PROVE KeptOrDone(o)
  <2>1. Range(outbox') = Range(kept) \cup {op} /\ op.id = ops'
    BY <1>4, QueuedOf DEF Queues
  <2>2. CASE kept = outbox
    BY <2>1, <2>2 DEF KeptOrDone
  <2>3. CASE kept = Keeping(outbox, {p \in Range(outbox) : ~(p.kind = "edit" /\ ~p.error /\ p.local = op.local)})
    <3>1. Range(kept) = Range(outbox) \cap {p \in Range(outbox) : ~(p.kind = "edit" /\ ~p.error /\ p.local = op.local)}
      BY <2>3, KeptOf
    <3>2. CASE o.local = op.local
      BY <2>1, <3>2 DEF KeptOrDone
    <3>3. CASE o.local # op.local
      BY <2>1, <3>1, <3>3 DEF KeptOrDone
    <3> QED
      BY <3>2, <3>3
  <2> QED
    BY <1>4, <2>2, <2>3 DEF Queues
<1>5. ASSUME NEW page, Merges(page) PROVE KeptOrDone(o)
  <2>1. Merged(page)
    BY <1>5 DEF Merges
  <2>2. Range(outbox') = Range(outbox) \cap {p \in Range(outbox) : p.local \notin Gone(page) \/ p.kind = "solve"}
    BY <2>1, KeptOf DEF Merged
  <2>3. o.local \in Gone(page) => o.local \notin DOMAIN rows'
    BY <2>1 DEF Merged
  <2> QED
    BY <2>2, <2>3 DEF KeptOrDone
<1> QED
  BY <1>1, <1>2, <1>3, <1>4, <1>5, NextIs

\* No acknowledgement, refusal or merge takes along an operation made meanwhile:
\* one leaves the outbox of client.ts only when the server has it, when a later
\* edit of the solve replaces it or when the solve is gone.
THEOREM AlwaysKeepsOperations == Spec => OperationsKept
<1>1. ASSUME TypeInv, [Next]_vars
      PROVE  [\A i \in DOMAIN outbox :
                \/ \E j \in DOMAIN outbox' : outbox'[j].id = outbox[i].id
                \/ outbox[i].id \in DOMAIN receipts
                \/ \E j \in DOMAIN outbox' : outbox'[j].local = outbox[i].local /\ outbox'[j].id = ops'
                \/ outbox[i].local \notin DOMAIN rows']_vars
  <2> SUFFICES ASSUME NEW i \in DOMAIN outbox
               PROVE  \/ \E j \in DOMAIN outbox' : outbox'[j].id = outbox[i].id
                      \/ outbox[i].id \in DOMAIN receipts
                      \/ \E j \in DOMAIN outbox' : outbox'[j].local = outbox[i].local /\ outbox'[j].id = ops'
                      \/ outbox[i].local \notin DOMAIN rows'
    OBVIOUS
  <2>1. outbox[i] \in Range(outbox)
    BY DEF Range
  <2>2. KeptOrDone(outbox[i])
    BY <1>1, <2>1, KeptNext
  <2>3. \A p \in Range(outbox') : \E j \in DOMAIN outbox' : p = outbox'[j]
    BY DEF Range
  <2> QED
    BY <2>2, <2>3 DEF KeptOrDone
<1> QED
  BY <1>1, AlwaysTyped, PTL DEF Spec, OperationsKept

-----------------------------------------------------------------------------
(* What was refused, and what pages say is gone.                           *)

LEMMA OneOrNone == ASSUME NEW n \in Nat, n # 0, n <= 1 PROVE n = 1
OBVIOUS

LEMMA OneLong == ASSUME NEW T, NEW q \in Seq(T), q # <<>>, Len(q) <= 1 PROVE Len(q) = 1
<1>1. Len(q) \in Nat /\ Len(q) # 0
  BY EmptySeq
<1> QED
  BY <1>1, OneOrNone

LEMMA ErrorIs ==
  ASSUME [Next]_vars, wire'.state = "error", SyncT(Len(server))
  PROVE  wire'.req = wire.req /\ (wire.state = "error" \/ Refuses(wire.req))
<1>1. NoWire.state = "none"
  BY DEF NoWire
<1>2. CASE wire' = wire
  BY <1>2
<1>3. CASE wire' = NoWire
  BY <1>1, <1>3
<1>4. CASE ServePush
  <2>1. wire = [state |-> wire.state, req |-> wire.req, answer |-> wire.answer, page |-> wire.page]
    BY DEF SyncT
  <2>2. \/ Refuses(wire.req) /\ wire' = [wire EXCEPT !.state = "error"]
        \/ \E a : wire' = [wire EXCEPT !.state = "answered", !.answer = a]
        \/ wire' = [wire EXCEPT !.state = "busy"]
    BY <1>4 DEF ServePush
  <2>3. \A a : [wire EXCEPT !.state = "answered", !.answer = a].state = "answered"
    BY <2>1
  <2>4. [wire EXCEPT !.state = "busy"].state = "busy" /\ [wire EXCEPT !.state = "error"].req = wire.req
    BY <2>1
  <2> QED
    BY <2>2, <2>3, <2>4
<1>5. CASE ServePull
  <2>1. wire = [state |-> wire.state, req |-> wire.req, answer |-> wire.answer, page |-> wire.page]
    BY DEF SyncT
  <2>2. \/ wire' = [wire EXCEPT !.state = "answered", !.page = Page(wire.page.after)]
        \/ wire' = [wire EXCEPT !.state = "busy"]
    BY <1>5 DEF ServePull
  <2> QED
    BY <2>1, <2>2
<1>6. CASE Push \/ AskPull
  <2>1. \/ UNCHANGED wire
        \/ \E q : wire' = [NoWire EXCEPT !.state = "sent", !.req = q]
        \/ wire' = [NoWire EXCEPT !.state = "sent", !.page = [NoPage EXCEPT !.after = cursor]]
    BY <1>6 DEF Push, AskPull
  <2>2. \A q : [NoWire EXCEPT !.state = "sent", !.req = q].state = "sent"
    BY DEF NoWire
  <2>3. [NoWire EXCEPT !.state = "sent", !.page = [NoPage EXCEPT !.after = cursor]].state = "sent"
    BY DEF NoWire
  <2> QED
    BY <1>2, <2>1, <2>2, <2>3
<1>7. ServePush \/ ServePull \/ Push \/ AskPull \/ wire' = wire \/ wire' = NoWire
  <2>1. CASE User
    BY <2>1 DEF User, AddSolve, EditSolve, DeleteSolve, Retry
  <2>2. CASE OtherDevices
    BY <2>2 DEF OtherDevices, OtherDeviceAdds, OtherDeviceEdits, OtherDeviceDeletes
  <2>3. CASE Upload
    BY <2>3 DEF Upload, AckPush, PushRefused, ServerBusy
  <2>4. CASE Download
    BY <2>4 DEF Download, TakePull
  <2>5. CASE Live
    BY <2>5 DEF Live, Connect, Stream, ReceiveReady, ReceiveChanges
  <2>6. CASE RequestLost \/ Disconnect \/ Crash
    BY <2>6 DEF RequestLost, Disconnect, Crash, GiveUp
  <2>7. CASE StartSync \/ Reconnected \/ \E req \in late : ServeLate(req)
    BY <2>7 DEF StartSync, Reconnected, ServeLate
  <2>8. CASE UNCHANGED vars
    BY <2>8 DEF vars
  <2> QED
    BY <2>1, <2>2, <2>3, <2>4, <2>5, <2>6, <2>7, <2>8 DEF Next
<1> QED
  BY <1>2, <1>3, <1>4, <1>5, <1>6, <1>7

LEMMA ReceiptsNext ==
  ASSUME TypeInv, OwnInv, [Next]_vars
  PROVE  /\ refused' = refused /\ ops \in Nat /\ ops <= ops'
         /\ DOMAIN receipts \subseteq DOMAIN receipts' /\ \A o \in DOMAIN receipts : receipts'[o] = receipts[o]
         /\ Moves
         /\ \/ UNCHANGED receipts
            \/ \E req : Serves(req) /\ DOMAIN receipts' = DOMAIN receipts \cup {o.id : o \in Range(req)}
<1>1. UNCHANGED account \/ Told \/ \E req : Serves(req)
  BY NextIs DEF Quiet, Marks, Acks, Queues, Sends, Merges
<1>2. ops \in Nat /\ (ops' = ops \/ ops' = ops + 1)
  <2>1. ops' = ops \/ \E op, kept : Queues(op, kept)
    BY NextIs DEF Quiet, Told, Marks, Acks, Sends, Merges, Serves
  <2>2. ops' = ops \/ ops' = ops + 1
    BY <2>1 DEF Queues
  <2> QED
    BY <2>2 DEF TypeInv, AccountT
<1>3. Moves
  BY <1>1, MovesIs
<1>4. UNCHANGED account \/ Told => UNCHANGED <<receipts, refused>>
  BY DEF account, Told
<1>5. ASSUME NEW req, Serves(req)
      PROVE  /\ refused' = refused
             /\ DOMAIN receipts' = DOMAIN receipts \cup {o.id : o \in Range(req)}
             /\ \A o \in DOMAIN receipts : receipts'[o] = receipts[o]
  BY <1>5 DEF Serves, Applied
<1>6. ops <= ops'
  BY <1>2
<1>7. CASE \E req : Serves(req)
  BY <1>2, <1>3, <1>5, <1>6, <1>7
<1>8. CASE UNCHANGED account \/ Told
  BY <1>2, <1>3, <1>4, <1>6, <1>8
<1> QED
  BY <1>1, <1>7, <1>8

LEMMA RefusedNext ==
  ASSUME TypeInv, OwnInv, RefusedInv, [Next]_vars
  PROVE  RefusedInv'
<1>1. refused' = refused
  BY ReceiptsNext
<1>2. DOMAIN receipts' \cap refused = {}
  <2>1. CASE UNCHANGED receipts
    BY <2>1 DEF RefusedInv
  <2>2. ASSUME NEW req, Serves(req), DOMAIN receipts' = DOMAIN receipts \cup {o.id : o \in Range(req)}
        PROVE  DOMAIN receipts' \cap refused = {}
    <3>1. \A w \in Range(req) : w.id \notin DOMAIN receipts => w.id \notin refused
      BY <2>2, ServedOp
    <3> QED
      BY <2>2, <3>1 DEF RefusedInv
  <2> QED
    BY <2>1, <2>2, ReceiptsNext
<1>3. ASSUME NEW o \in Range(outbox'), o.error PROVE o.id \in refused
  <2>1. CASE Range(outbox') \subseteq Range(outbox)
    BY <1>3, <2>1 DEF RefusedInv
  <2>2. CASE Marks
    <3>1. PICK p \in Range(outbox) :
            /\ p.id = o.id
            /\ o.error => p.error \/ (wire.state = "error" /\ wire.req # <<>> /\ Len(wire.req) <= 1 /\ o.id = wire.req[1].id)
      BY <2>2, MarkedOf
    <3>2. ASSUME wire.req # <<>>, Len(wire.req) <= 1 PROVE Len(wire.req) = 1
      <4>1. wire.req \in Seq(Request)
        BY DEF TypeInv, FlightsT, Flights, Asked
      <4> QED
        BY <3>2, <4>1, OneLong
    <3> QED
      BY <1>3, <3>1, <3>2 DEF RefusedInv
  <2>3. ASSUME NEW op, NEW kept, Queues(op, kept) PROVE o.id \in refused
    <3>1. Range(outbox') \subseteq Range(outbox) \cup {op} /\ ~op.error
      BY <2>3, QueuedOf DEF Queues
    <3> QED
      BY <1>3, <3>1 DEF RefusedInv
  <2>4. CASE Acks
    BY <2>1, <2>4, AckIs, KeptOf DEF Acks, LeftAfter
  <2>5. ASSUME NEW page, Merges(page) PROVE o.id \in refused
    BY <2>1, <2>5, KeptOf DEF Merges, Merged
  <2>6. CASE Quiet \/ Told \/ \E req : Serves(req) \/ Sends(req)
    BY <2>1, <2>6 DEF Quiet, Told, Serves, Sends
  <2> QED
    BY <2>2, <2>3, <2>4, <2>5, <2>6, NextIs
<1>4. ASSUME wire'.state = "error", Len(wire'.req) = 1 PROVE wire'.req[1].id \in refused
  <2>1. wire'.req = wire.req /\ (wire.state = "error" \/ Refuses(wire.req))
    BY <1>4, ErrorIs DEF TypeInv
  <2>2. CASE wire.state = "error"
    BY <1>4, <2>1, <2>2 DEF RefusedInv
  <2>3. CASE Refuses(wire.req)
    <3>1. Asked(wire.req, Len(server)) /\ Len(server) \in Nat
      BY Fits DEF TypeInv, FlightsT, Flights
    <3>2. PICK o \in Range(Fresh(wire.req)) : o.id \in refused
      BY <2>3 DEF Refuses
    <3>3. o \in Range(wire.req)
      BY <3>1, <3>2, FreshIs
    <3>4. wire.req \in Seq(Request) /\ Len(wire.req) = 1
      BY <1>4, <2>1, <3>1 DEF Asked
    <3>5. o = wire.req[1]
      BY <3>3, <3>4 DEF Range
    <3> QED
      BY <2>1, <3>2, <3>5
  <2> QED
    BY <2>1, <2>2, <2>3
<1> QED
  BY <1>1, <1>2, <1>3, <1>4 DEF RefusedInv

\* A page not read yet.
Blank(p) == DOMAIN p.solves = {} /\ p.cursor = 0 /\ p.after \in {0, cursor}

\* The pages on their way are those there were, and pages read of the account as it is.
LEMMA PagesAre ==
  ASSUME TypeInv, [Next]_vars, NEW p \in Pages'
  PROVE  \/ p \in Pages
         \/ UNCHANGED account /\ (Blank(p) \/ \E a \in {wire.page.after, socket.delivered, seq} : p = Page(a))
<1>1. wire = [state |-> wire.state, req |-> wire.req, answer |-> wire.answer, page |-> wire.page]
      /\ socket.delivered \in Nat /\ seq \in Nat /\ wire.page.after \in Nat
  BY DEF TypeInv, AccountT, SyncT, LinkT, Paged
<1>2. NoWire.page = NoPage /\ Blank(NoPage)
      /\ (\A q : [NoWire EXCEPT !.state = "sent", !.req = q].page = NoPage)
      /\ Blank([NoWire EXCEPT !.state = "sent", !.page = [NoPage EXCEPT !.after = cursor]].page)
  <2>1. [NoPage EXCEPT !.after = cursor] = [after |-> cursor, cursor |-> 0, solves |-> <<>>]
    BY DEF NoPage
  <2>2. [NoWire EXCEPT !.state = "sent", !.page = [NoPage EXCEPT !.after = cursor]].page = [NoPage EXCEPT !.after = cursor]
    BY DEF NoWire
  <2>3. \A q : [NoWire EXCEPT !.state = "sent", !.req = q].page = NoPage
    BY DEF NoWire
  <2>4. NoWire.page = NoPage
    BY DEF NoWire
  <2>5. Blank(NoPage)
    BY DEF NoPage, Blank
  <2>6. Blank([NoPage EXCEPT !.after = cursor])
    BY <2>1 DEF Blank
  <2> QED
    BY <2>2, <2>3, <2>4, <2>5, <2>6
<1> DEFINE New(q) == UNCHANGED account /\ (Blank(q) \/ \E a \in {wire.page.after, socket.delivered, seq} : q = Page(a))
<1>3. wire'.page = wire.page \/ New(wire'.page)
  <2>1. CASE wire' = wire
    BY <2>1
  <2>2. CASE ServePush
    <3>1. \/ wire' = [wire EXCEPT !.state = "error"]
          \/ \E a : wire' = [wire EXCEPT !.state = "answered", !.answer = a]
          \/ wire' = [wire EXCEPT !.state = "busy"]
      BY <2>2 DEF ServePush
    <3>2. \A a : [wire EXCEPT !.state = "answered", !.answer = a].page = wire.page
      BY <1>1
    <3>3. [wire EXCEPT !.state = "busy"].page = wire.page /\ [wire EXCEPT !.state = "error"].page = wire.page
      BY <1>1
    <3> QED
      BY <3>1, <3>2, <3>3
  <2>3. CASE ServePull
    <3>1. /\ \/ wire' = [wire EXCEPT !.state = "answered", !.page = Page(wire.page.after)]
             \/ wire' = [wire EXCEPT !.state = "busy"]
          /\ UNCHANGED account
      BY <2>3 DEF ServePull
    <3>2. \A q : [wire EXCEPT !.state = "answered", !.page = q].page = q
      BY <1>1
    <3>3. [wire EXCEPT !.state = "busy"].page = wire.page
      BY <1>1
    <3> QED
      BY <1>1, <3>1, <3>2, <3>3
  <2>4. CASE Push \/ AskPull
    <3>1. \/ UNCHANGED wire
          \/ \E q : wire' = [NoWire EXCEPT !.state = "sent", !.req = q]
          \/ wire' = [NoWire EXCEPT !.state = "sent", !.page = [NoPage EXCEPT !.after = cursor]]
      BY <2>4 DEF Push, AskPull
    <3>2. UNCHANGED account
      BY <2>4 DEF Push, AskPull
    <3> QED
      BY <1>2, <2>1, <3>1, <3>2
  <2>5. CASE wire' = NoWire /\ UNCHANGED account
    BY <1>2, <2>5
  <2>6. CASE User
    BY <2>1, <2>6 DEF User, AddSolve, EditSolve, DeleteSolve, Retry
  <2>7. CASE OtherDevices
    BY <2>1, <2>7 DEF OtherDevices, OtherDeviceAdds, OtherDeviceEdits, OtherDeviceDeletes
  <2>8. CASE AckPush \/ PushRefused \/ ServerBusy \/ TakePull
    BY <2>5, <2>8 DEF AckPush, PushRefused, ServerBusy, TakePull
  <2>9. CASE Live
    BY <2>1, <2>9 DEF Live, Connect, Stream, ReceiveReady, ReceiveChanges
  <2>10. CASE RequestLost \/ Disconnect \/ Crash
    BY <2>1, <2>5, <2>10 DEF RequestLost, Disconnect, Crash, GiveUp
  <2>11. CASE StartSync \/ Reconnected \/ \E req \in late : ServeLate(req)
    BY <2>1, <2>11 DEF StartSync, Reconnected, ServeLate
  <2>12. CASE UNCHANGED vars
    BY <2>1, <2>12 DEF vars
  <2> QED
    BY <2>2, <2>3, <2>4, <2>6, <2>7, <2>8, <2>9, <2>10, <2>11, <2>12 DEF Next, Upload, Download
<1>4. \A i \in DOMAIN stream' : (\E j \in DOMAIN stream : stream'[i].page = stream[j].page) \/ New(stream'[i].page)
  <2>1. CASE stream' = stream
    BY <2>1
  <2>2. CASE stream' = <<>>
    BY <2>2
  <2>3. CASE stream # <<>> /\ stream' = Tail(stream)
    <3>1. PICK s, t : s = stream /\ t = stream'
      OBVIOUS
    <3>2. \A i \in DOMAIN t : t[i] = s[i + 1] /\ i + 1 \in DOMAIN s
      BY <2>3, <3>1, StreamReads DEF TypeInv, LinkT
    <3> QED
      BY <3>1, <3>2
  <2>4. CASE Connect
    <3>1. stream' = <<[type |-> "ready", page |-> Page(seq)]>> /\ UNCHANGED account
      BY <2>4 DEF Connect
    <3>2. DOMAIN stream' = {1} /\ stream'[1].page = Page(seq)
      BY <3>1
    <3> QED
      BY <1>1, <3>1, <3>2
  <2>5. CASE Stream
    <3>1. \/ stream' = stream
          \/ stream' = Append(stream, [type |-> "changes", page |-> Page(socket.delivered)])
      BY <2>5 DEF Stream
    <3>2. UNCHANGED account
      BY <2>5 DEF Stream
    <3>3. CASE stream' = Append(stream, [type |-> "changes", page |-> Page(socket.delivered)])
      <4>1. PICK s, t : s = stream /\ t = stream'
        OBVIOUS
      <4>2. /\ DOMAIN t = 1..(Len(s) + 1) /\ DOMAIN s = 1..Len(s) /\ Len(s) \in Nat
            /\ \A i \in DOMAIN s : t[i] = s[i]
            /\ t[Len(s) + 1].page = Page(socket.delivered)
        BY <3>3, <4>1, StreamAdds DEF TypeInv, LinkT
      <4>3. \A i \in DOMAIN t : i \in DOMAIN s \/ i = Len(s) + 1
        BY <4>2
      <4> QED
        BY <1>1, <3>2, <4>1, <4>2, <4>3
    <3> QED
      BY <2>1, <3>1, <3>3
  <2>6. CASE User
    BY <2>1, <2>6 DEF User, AddSolve, EditSolve, DeleteSolve, Retry, link
  <2>7. CASE OtherDevices
    BY <2>1, <2>7 DEF OtherDevices, OtherDeviceAdds, OtherDeviceEdits, OtherDeviceDeletes
  <2>8. CASE Upload \/ Download
    BY <2>1, <2>8 DEF Upload, Download, Push, ServePush, AckPush, PushRefused, ServerBusy, AskPull, ServePull, TakePull, link
  <2>9. CASE ReceiveReady \/ ReceiveChanges
    BY <2>3, <2>9 DEF ReceiveReady, ReceiveChanges
  <2>10. CASE RequestLost \/ Disconnect \/ Crash
    BY <2>1, <2>2, <2>10 DEF RequestLost, Disconnect, Crash, Closed, link
  <2>11. CASE StartSync \/ \E req \in late : ServeLate(req)
    BY <2>1, <2>11 DEF StartSync, ServeLate, link
  <2>13. CASE Reconnected
    <3>1. PICK s, t : s = stream /\ t = stream'
      OBVIOUS
    <3>2. DOMAIN t = DOMAIN s /\ \A i \in DOMAIN s : t[i].page = s[i].page
      BY <2>13, <3>1, DueReads DEF Reconnected, TypeInv, LinkT
    <3> QED
      BY <3>1, <3>2
  <2>12. CASE UNCHANGED vars
    BY <2>1, <2>12 DEF vars, link
  <2> QED
    BY <2>4, <2>5, <2>6, <2>7, <2>8, <2>9, <2>10, <2>11, <2>12, <2>13 DEF Next, Live
<1>5. p = wire'.page \/ \E i \in DOMAIN stream' : p = stream'[i].page
  BY DEF Pages
<1> QED
  BY <1>3, <1>4, <1>5 DEF Pages

LEMMA GoneNext ==
  ASSUME TypeInv, OwnInv, GoneInv, [Next]_vars
  PROVE  GoneInv'
<1>1. Moves
  BY ReceiptsNext
<1>2. \A p \in Pages : DOMAIN p.solves \subseteq Made
  BY Fits DEF TypeInv, SyncT, LinkT, Pages, Paged
<1> SUFFICES ASSUME NEW p \in Pages', NEW s \in DOMAIN p.solves \cap Made', p.solves[s].gone
             PROVE  server'[s].gone
  BY DEF GoneInv, Deletions
<1>3. CASE p \in Pages
  BY <1>1, <1>2, <1>3 DEF GoneInv, Deletions, Moves
<1>4. ASSUME NEW a \in {wire.page.after, socket.delivered, seq}, p = Page(a), UNCHANGED account PROVE server'[s].gone
  <2>0. a \in Nat
    BY DEF TypeInv, AccountT, SyncT, LinkT, Paged
  <2>1. /\ DOMAIN p.solves = {t \in Made : change[t] > a}
        /\ \A t \in Made : change[t] > a => p.solves[t] = server[t]
    BY <1>4, <2>0, PageIs DEF TypeInv
  <2>2. server' = server
    BY <1>4 DEF account
  <2> QED
    BY <2>1, <2>2
<1> QED
  BY <1>3, <1>4, PagesAre DEF Blank

LEMMA RefusedInit == Init => RefusedInv /\ GoneInv
<1> SUFFICES ASSUME Init PROVE RefusedInv /\ GoneInv
  OBVIOUS
<1>0. server = <<>> /\ wire = NoWire /\ stream = <<>> /\ receipts = <<>>
  BY DEF Init
<1>1. wire = NoWire /\ stream = <<>> /\ receipts = <<>> /\ Range(outbox) = {} /\ Made = {}
  BY <1>0, NothingAtFirst DEF Made
<1>2. wire.state = "none"
  BY <1>1 DEF NoWire
<1> QED
  BY <1>1, <1>2 DEF RefusedInv, GoneInv, Deletions

\* A page never says that a solve is gone which is not, and nothing refused is ever done.
LEMMA AlwaysKnown == Spec => [](TypeInv /\ OwnInv /\ ReceiptInv /\ RefusedInv /\ GoneInv)
<1>1. Init => RefusedInv /\ GoneInv
  BY RefusedInit
<1>2. TypeInv /\ OwnInv /\ RefusedInv /\ GoneInv /\ [Next]_vars => (RefusedInv /\ GoneInv)'
  BY RefusedNext, GoneNext
<1> QED
  BY <1>1, <1>2, AlwaysOwns, PTL DEF Spec

-----------------------------------------------------------------------------
(* The operations on a solve are applied in the order they were made.      *)

LEMMA LaterNext ==
  ASSUME TypeInv, OwnInv, ReceiptInv, RefusedInv, OrderInv, [Next]_vars, NEW p \in Later', NEW o \in Range(outbox), o.id < p
  PROVE  o.id \in DOMAIN receipts \cup refused
<1>1. o.id \in Int
  BY OutboxOf
<1>2. CASE p \in Later
  BY <1>2 DEF OrderInv
<1>3. CASE \E f \in Flying' : f.kind # "solve" /\ p = f.id
  <2>1. PICK f \in Flying' : f.kind # "solve" /\ p = f.id
    BY <1>3
  <2>2. CASE f \in Flying
    BY <1>2, <2>1, <2>2 DEF Later
  <2>3. ASSUME NEW req, Sends(req), f \in Range(req) PROVE o.id \in DOMAIN receipts \cup refused
    <3>1. ~o.error => o.id >= f.id
      BY <2>1, <2>3 DEF Sends
    <3>2. \E q \in Range(outbox) : f = Named(q)
      BY <2>3 DEF Sends
    <3>3. f.id \in Int
      BY <3>2, NamedIs, OutboxOf
    <3>4. o.error
      BY <1>1, <2>1, <3>1, <3>3
    <3> QED
      BY <3>4 DEF RefusedInv
  <2>4. Flying' \subseteq Flying \/ \E req : Sends(req)
    BY NextIs DEF Quiet, Told, Marks, Acks, Queues, Merges, Serves
  <2> QED
    BY <2>2, <2>3, <2>4 DEF Sends
<1>4. CASE p \in DOMAIN receipts' /\ receipts'[p] # 0 /\ server'[receipts'[p]].by # p
  <2>1. CASE p \in DOMAIN receipts
    <3>1. receipts[p] = receipts'[p] /\ receipts[p] \in Made
      BY <1>4, <2>1, ReceiptsNext DEF TypeInv, AccountT
    <3>2. server'[receipts[p]].by = server[receipts[p]].by
      BY <3>1, ReceiptsNext DEF Moves
    <3>3. p \in Later
      BY <1>4, <2>1, <3>1, <3>2 DEF Later
    <3> QED
      BY <1>2, <3>3
  <2>2. CASE p \notin DOMAIN receipts
    <3>1. PICK req : Serves(req) /\ DOMAIN receipts' = DOMAIN receipts \cup {w.id : w \in Range(req)}
      BY <1>4, <2>2, ReceiptsNext
    <3>2. PICK w \in Range(req) : w.id = p
      BY <1>4, <2>2, <3>1
    <3>3. w \in Flying /\ \A r : r = receipts'[p] /\ r # 0 => Owns(w.local, r)'
      BY <2>2, <3>1, <3>2, ServedOp
    <3>4. w.kind = "solve" => w.local = -p /\ p \in 1..ops
      BY <3>2, <3>3, FlyingOf
    <3>5. w.kind # "solve"
      <4>1. PICK r : r = receipts'[p]
        OBVIOUS
      <4>2. Owns(w.local, r)'
        BY <1>4, <3>3, <4>1
      <4>3. w.kind = "solve" => server'[r].by = p
        BY <3>4, <4>2 DEF Owns
      <4> QED
        BY <1>4, <4>1, <4>3
    <3>6. p \in Later
      BY <3>2, <3>3, <3>5 DEF Later
    <3> QED
      BY <1>2, <3>6
  <2> QED
    BY <2>1, <2>2
<1> QED
  BY <1>3, <1>4 DEF Later

\* Queued or not, an operation leaves the outbox once done, or with its solve.
LEMMA LeavesDone ==
  ASSUME ~Coalesce, TypeInv, OwnInv, GoneInv, [Next]_vars, NEW p \in Range(outbox)
  PROVE  \/ \E q \in Range(outbox') : q.id = p.id
         \/ p.id \in DOMAIN receipts
         \/ \E s \in Made : Owns(p.local, s) /\ server[s].gone
<1>1. CASE Quiet \/ Told \/ \E req : Serves(req) \/ Sends(req)
  <2>1. outbox' = outbox
    BY <1>1 DEF Quiet, Told, Serves, Sends
  <2> QED
    BY <2>1
<1>2. CASE Marks
  BY <1>2, MarkedOf
<1>3. CASE Acks
  <2>1. outbox' = LeftAfter(wire.req) /\ \A q \in Range(wire.req) : q.id \in DOMAIN receipts
    BY <1>3, AckIs DEF Acks
  <2>2. Range(outbox') = Range(outbox) \cap {q \in Range(outbox) : q.id \notin {r.id : r \in Range(wire.req)}}
    BY <2>1, KeptOf DEF LeftAfter
  <2> QED
    BY <2>1, <2>2
<1>4. ASSUME NEW op, NEW kept, Queues(op, kept) PROVE \E q \in Range(outbox') : q.id = p.id
  <2>1. Range(outbox') = Range(kept) \cup {op} /\ kept = outbox
    BY <1>4, QueuedOf DEF Queues
  <2> QED
    BY <2>1
<1>5. ASSUME NEW page, Merges(page), ~\E q \in Range(outbox') : q.id = p.id
      PROVE  \E s \in Made : Owns(p.local, s) /\ server[s].gone
  <2>1. Merged(page) /\ Paged(page, Len(server)) /\ page \in Pages
    BY <1>5 DEF Merges
  <2>2. Range(outbox') = Range(outbox) \cap {q \in Range(outbox) : q.local \notin Gone(page) \/ q.kind = "solve"}
    BY <2>1, KeptOf DEF Merged
  <2>3. PICK s \in DOMAIN page.solves : page.solves[s].gone /\ p.local = LocalId(s)
    BY <1>5, <2>2 DEF Gone
  <2>4. s \in Made /\ s \in Nat /\ s > 0
    BY <2>1, Fits DEF TypeInv, Paged
  <2>5. server[s].gone
    BY <2>1, <2>3, <2>4 DEF GoneInv, Deletions
  <2>6. Owns(p.local, s)
    <3>1. CASE p.local \in DOMAIN rows /\ rows[p.local].sid = s
      BY <2>4, <3>1 DEF OwnInv
    <3>2. CASE p.local = s
      BY <2>4, <3>2 DEF Owns
    <3> QED
      BY <2>3, <2>4, <3>1, <3>2, LocalIs
  <2> QED
    BY <2>4, <2>5, <2>6
<1> QED
  BY <1>1, <1>2, <1>3, <1>4, <1>5, NextIs

LEMMA OrderQueued ==
  ASSUME TypeInv, OwnInv, OrderInv, [Next]_vars, NEW o \in Range(outbox'), o.kind # "solve"
  PROVE  o.local # -o.id /\ \A s : s = o.local /\ s > 0 => server'[s].by < o.id
<1>1. ASSUME NEW p \in Range(outbox), p.id = o.id, p.kind = o.kind, p.local = o.local
      PROVE  o.local # -o.id /\ \A s : s = o.local /\ s > 0 => server'[s].by < o.id
  <2>1. p.local # -p.id /\ (p.local > 0 => server[p.local].by < p.id)
    BY <1>1 DEF OrderInv
  <2>2. p.local \in Names(p.id, Len(server)) /\ p.id \in 1..ops
    BY OutboxOf
  <2>3. p.local > 0 => p.local \in Made
    BY <2>2, Fits DEF TypeInv, AccountT, Names
  <2> QED
    BY <1>1, <2>1, <2>3, ReceiptsNext DEF Moves
<1>2. ASSUME NEW op, NEW kept, Queues(op, kept), o = op
      PROVE  o.local # -o.id /\ \A s : s = o.local /\ s > 0 => server'[s].by < o.id
  <2>1. /\ o.local \in DOMAIN rows /\ o.id = ops + 1 /\ UNCHANGED server
    BY <1>2 DEF Queues, account
  <2>2. /\ o.local \in Names(ops, Len(server)) /\ ops \in Nat /\ Made = 1..Len(server) /\ Len(server) \in Nat
        /\ server \in Seq(Stored) /\ DOMAIN receipts \subseteq 1..ops
        /\ \A s \in Made : server[s].by # 0 => server[s].by \in DOMAIN receipts
    BY <2>1, Fits DEF TypeInv, AccountT, RowsT
  <2>3. o.local > 0 => o.local \in Made
    BY <2>2 DEF Names
  <2>4. \A s \in Made : server[s].by < ops + 1
    BY <2>2
  <2>5. o.local # -o.id
    BY <2>1, <2>2 DEF Names
  <2> QED
    BY <2>1, <2>3, <2>4, <2>5
<1>3. CASE o \in Range(outbox)
  BY <1>1, <1>3
<1>4. CASE Marks
  BY <1>1, <1>4, MarkedOf
<1>5. o \in Range(outbox) \/ Marks \/ \E op, kept : Queues(op, kept) /\ o = op
  <2>1. CASE Quiet \/ Told \/ \E req : Serves(req) \/ Sends(req)
    BY <2>1 DEF Quiet, Told, Serves, Sends
  <2>2. CASE Acks
    BY <2>2, AckIs, KeptOf DEF Acks, LeftAfter
  <2>3. CASE \E page : Merges(page)
    BY <2>3, KeptOf DEF Merges, Merged
  <2>4. CASE \E op, kept : Queues(op, kept)
    BY <2>4, QueuedOf
  <2> QED
    BY <2>1, <2>2, <2>3, <2>4, NextIs
<1> QED
  BY <1>2, <1>3, <1>4, <1>5

LEMMA OrderFlying ==
  ASSUME TypeInv, OwnInv, OrderInv, [Next]_vars, NEW o \in Flying', o.kind # "solve"
  PROVE  server'[o.sid].by < o.id
<1>1. CASE o \in Flying
  <2>1. server[o.sid].by < o.id /\ o.sid \in Made
    BY <1>1, FlyingOf DEF OrderInv
  <2> QED
    BY <2>1, ReceiptsNext DEF Moves
<1>2. ASSUME NEW req, Sends(req), o \in Range(req) PROVE server'[o.sid].by < o.id
  <2>1. PICK p \in Range(outbox) : o = Named(p)
    BY <1>2 DEF Sends
  <2>2. p.id = o.id /\ p.kind = o.kind /\ p.local = o.local /\ o.sid = SolveServerId(o.local)
    BY <2>1, NamedIs
  <2>3. o.sid \in Made /\ UNCHANGED server
    BY <1>2 DEF Sends, account
  <2>4. /\ o.local \in Names(o.id, Len(server)) /\ o.id \in 1..ops /\ ops \in Nat /\ Len(server) \in Nat
        /\ o.local # -o.id /\ (o.local > 0 => server[o.local].by < o.id)
    BY <2>2, OutboxOf, Fits DEF OrderInv, TypeInv, AccountT
  <2>5. o.sid # 0
    BY <2>3, Fits DEF TypeInv
  <2>6. CASE o.local > 0
    <3>1. o.local \in DOMAIN rows => rows[o.local].sid = o.local
      BY <2>6 DEF TypeInv, RowsT
    <3>2. o.sid = o.local
      BY <2>2, <2>5, <2>6, <3>1 DEF SolveServerId
    <3> QED
      BY <2>3, <2>4, <2>6, <3>2
  <2>7. CASE ~(o.local > 0)
    <3>1. o.local \in DOMAIN rows /\ o.sid = rows[o.local].sid
      BY <2>2, <2>5, <2>7 DEF SolveServerId
    <3>2. server[o.sid].by = -o.local
      BY <2>5, <2>7, <3>1 DEF OwnInv, Owns
    <3>3. -o.local \in 1..o.id /\ -o.local # o.id
      BY <2>4, <2>7 DEF Names
    <3> QED
      BY <2>3, <2>4, <3>2, <3>3
  <2> QED
    BY <2>6, <2>7
<1>3. Flying' \subseteq Flying \/ \E req : Sends(req)
  BY NextIs DEF Quiet, Told, Marks, Acks, Queues, Merges, Serves
<1> QED
  BY <1>1, <1>2, <1>3 DEF Sends

LEMMA OrderAsked ==
  ASSUME ~Coalesce, TypeInv, OwnInv, GoneInv, OrderInv, [Next]_vars,
         NEW o \in Flying', o.kind # "solve", o.id \notin DOMAIN receipts'
  PROVE  server'[o.sid].gone \/ \E p \in Range(outbox') : p.id = o.id
<1>0. o.id \notin DOMAIN receipts
  BY ReceiptsNext
<1>1. CASE o \in Flying
  <2>1. o.sid \in Made /\ Owns(o.local, o.sid) /\ o.local \in Int \ {0}
    BY <1>1, FlyingOf DEF OwnInv
  <2>2. CASE server[o.sid].gone
    BY <2>1, <2>2, ReceiptsNext DEF Moves
  <2>3. ASSUME NEW p \in Range(outbox), p.id = o.id
        PROVE  server'[o.sid].gone \/ \E q \in Range(outbox') : q.id = o.id
    <3>1. p.local = o.local
      BY <1>1, <2>3 DEF OwnInv
    <3>2. ASSUME NEW s \in Made, Owns(p.local, s), server[s].gone PROVE server'[o.sid].gone
      <4>1. s = o.sid
        BY <2>1, <3>1, <3>2, OneOwner
      <4> QED
        BY <3>2, <4>1, ReceiptsNext DEF Moves
    <3> QED
      BY <1>0, <2>3, <3>2, LeavesDone
  <2> QED
    BY <1>0, <1>1, <2>2, <2>3 DEF OrderInv
<1>2. ASSUME NEW req, Sends(req), o \in Range(req) PROVE \E p \in Range(outbox') : p.id = o.id
  <2>1. PICK p \in Range(outbox) : o = Named(p)
    BY <1>2 DEF Sends
  <2>2. p.id = o.id /\ outbox' = outbox
    BY <1>2, <2>1, NamedIs DEF Sends
  <2> QED
    BY <2>2
<1>3. Flying' \subseteq Flying \/ \E req : Sends(req)
  BY NextIs DEF Quiet, Told, Marks, Acks, Queues, Merges, Serves
<1> QED
  BY <1>1, <1>2, <1>3 DEF Sends

LEMMA OrderNext ==
  ASSUME ~Coalesce, TypeInv, OwnInv, ReceiptInv, RefusedInv, GoneInv, OrderInv, [Next]_vars
  PROVE  OrderInv'
<1>1. \A o \in Range(outbox') : o.kind # "solve" => o.local # -o.id /\ (o.local > 0 => server'[o.local].by < o.id)
  BY OrderQueued
<1>2. \A o \in Flying' : o.kind # "solve" => server'[o.sid].by < o.id
  BY OrderFlying
<1>3. ASSUME NEW p \in Later', NEW o \in Range(outbox'), o.id < p
      PROVE  o.id \in DOMAIN receipts' \cup refused'
  <2>1. CASE \E q \in Range(outbox) : q.id = o.id
    <3>1. o.id \in DOMAIN receipts \cup refused
      BY <1>3, <2>1, LaterNext
    <3> QED
      BY <3>1, ReceiptsNext
  <2>2. ASSUME NEW op, NEW kept, Queues(op, kept), o = op PROVE FALSE
    <3>1. o.id = ops + 1 /\ UNCHANGED <<receipts, server>> /\ Flying' = Flying /\ DOMAIN receipts \subseteq 1..ops /\ ops \in Nat
      BY <2>2 DEF Queues, account, TypeInv, AccountT
    <3>2. p \in 1..ops
      BY <3>1, FlyingOf DEF Later
    <3> QED
      BY <1>3, <3>1, <3>2
  <2>3. (\E q \in Range(outbox) : q.id = o.id) \/ \E op, kept : Queues(op, kept) /\ o = op
    <3>1. CASE Quiet \/ Told \/ \E req : Serves(req) \/ Sends(req)
      BY <3>1 DEF Quiet, Told, Serves, Sends
    <3>2. CASE Acks
      BY <3>2, AckIs, KeptOf DEF Acks, LeftAfter
    <3>3. CASE \E page : Merges(page)
      BY <3>3, KeptOf DEF Merges, Merged
    <3>4. CASE \E op, kept : Queues(op, kept)
      BY <3>4, QueuedOf
    <3>5. CASE Marks
      BY <3>5, MarkedOf
    <3> QED
      BY <3>1, <3>2, <3>3, <3>4, <3>5, NextIs
  <2> QED
    BY <2>1, <2>2, <2>3
<1>4. \A o \in Flying' : o.kind # "solve" /\ o.id \notin DOMAIN receipts' =>
        server'[o.sid].gone \/ \E p \in Range(outbox') : p.id = o.id
  BY OrderAsked
<1> QED
  BY <1>1, <1>2, <1>3, <1>4 DEF OrderInv

\* A retry, a lost answer or a request given up and served late never applies an
\* edit before the one made earlier: syncPush does the operations on a solve in the
\* order they were made. An edit that replaces those queued before it (Coalesce) is
\* out of it: the one replaced may be on its way.
THEOREM AlwaysInOrder == ASSUME ~Coalesce PROVE Spec => AppliedInOrder
<1> DEFINE Inv == TypeInv /\ OwnInv /\ ReceiptInv /\ RefusedInv /\ GoneInv
<1>1. Init => OrderInv
  <2> SUFFICES ASSUME Init PROVE OrderInv
    OBVIOUS
  <2>1. Range(outbox) = {} /\ Flying = {} /\ DOMAIN receipts = {}
    BY NothingAtFirst
  <2> QED
    BY <2>1 DEF OrderInv, Later
<1>2. Inv /\ OrderInv /\ [Next]_vars => OrderInv'
  BY OrderNext
<1>3. ASSUME Inv, OrderInv, [Next]_vars,
             NEW o \in DOMAIN receipts' \ DOMAIN receipts, NEW p \in DOMAIN receipts,
             receipts'[o] = receipts[p], receipts[p] # 0
      PROVE  p < o
  <2>1. PICK req : Serves(req) /\ DOMAIN receipts' = DOMAIN receipts \cup {w.id : w \in Range(req)}
    BY <1>3, ReceiptsNext
  <2>2. PICK w \in Range(req) : w.id = o
    BY <2>1
  <2>3. receipts[p] \in Made /\ p \in Int /\ o \in Int
    BY <1>3, <2>1, NextTypes DEF TypeInv, AccountT
  <2>4. /\ w \in Flying /\ w.id \notin refused
        /\ w.kind = "solve" => receipts'[w.id] \notin Made \cup {0}
        /\ w.kind # "solve" => /\ w.sid \in Made /\ receipts'[w.id] \in {0, w.sid}
                               /\ receipts'[w.id] # 0 => ~server[w.sid].gone
    BY <1>3, <2>1, <2>2, ServedOp
  <2>5. w.kind # "solve" /\ w.sid = receipts[p] /\ ~server[w.sid].gone
    BY <1>3, <2>2, <2>3, <2>4
  <2>6. CASE server[w.sid].by = p
    BY <1>3, <2>2, <2>4, <2>5, <2>6 DEF OrderInv
  <2>7. CASE server[w.sid].by # p
    <3>1. p \in Later
      BY <1>3, <2>5, <2>7 DEF Later
    <3>2. PICK q \in Range(outbox) : q.id = o
      BY <1>3, <2>2, <2>4, <2>5 DEF OrderInv
    <3>3. o \notin DOMAIN receipts \cup refused
      BY <1>3, <2>2, <2>4
    <3>4. ~(o < p)
      BY <1>3, <3>1, <3>2, <3>3 DEF OrderInv
    <3>5. o # p
      BY <1>3
    <3> QED
      BY <2>3, <3>4, <3>5
  <2> QED
    BY <2>6, <2>7
<1>4. Inv /\ OrderInv /\ [Next]_vars =>
        [\A o \in DOMAIN receipts' \ DOMAIN receipts, p \in DOMAIN receipts :
           receipts'[o] = receipts[p] /\ receipts[p] # 0 => p < o]_vars
  BY <1>3
<1> QED
  BY <1>1, <1>2, <1>4, AlwaysKnown, PTL DEF Spec, AppliedInOrder

-----------------------------------------------------------------------------
(* What pages tell of the account.                                         *)

LEMMA Numbers ==
  ASSUME TypeInv, OwnInv, [Next]_vars
  PROVE  /\ seq \in Nat /\ seq' \in Nat /\ seq <= seq'
         /\ \A s \in Made : /\ s \in Made' /\ change[s] \in Nat /\ change'[s] \in Nat
                            /\ \/ server'[s] = server[s] /\ change'[s] = change[s]
                               \/ seq < change'[s] /\ change'[s] <= seq'
         /\ \A s \in Made' \ Made : change'[s] \in Nat /\ seq < change'[s] /\ change'[s] <= seq'
<1>1. seq \in Nat /\ seq' \in Nat /\ change \in [Made -> Nat] /\ change' \in [Made' -> Nat] /\ TypeInv'
  BY NextTypes DEF TypeInv, AccountT
<1>2. \A s \in Made : s \in Made'
  BY ReceiptsNext DEF Moves
<1>3. CASE UNCHANGED account
  BY <1>1, <1>2, <1>3 DEF account, Made
<1>4. CASE Told
  BY <1>1, <1>2, <1>4 DEF Told
<1>5. CASE \E req : Serves(req)
  <2>1. PICK req : Applied(req)
    BY <1>5 DEF Serves
  <2>2. /\ Made = 1..Len(server) /\ Made' = DOMAIN server' /\ Len(server) \in Nat /\ server' \in Seq(Stored) /\ seq <= seq'
        /\ \A s \in 1..Len(server) : \/ server'[s] = server[s] /\ change'[s] = change[s]
                                     \/ seq < change'[s] /\ change'[s] <= seq'
        /\ \A s \in DOMAIN server' : s > Len(server) => seq < change'[s] /\ change'[s] <= seq'
    BY <2>1, Fits DEF TypeInv, Applied, Made
  <2>3. \A s \in Made' \ Made : s \in DOMAIN server' /\ s > Len(server)
    BY <2>2
  <2> QED
    BY <1>1, <1>2, <2>2, <2>3
<1>6. UNCHANGED account \/ Told \/ \E req : Serves(req)
  BY NextIs DEF Quiet, Marks, Acks, Queues, Sends, Merges
<1> QED
  BY <1>3, <1>4, <1>5, <1>6

LEMMA PageTells ==
  ASSUME AccountT, \A s \in Made : change[s] <= seq, NEW a \in Nat, a <= seq
  PROVE  Tells(Page(a))
<1>1. PICK p : p = Page(a)
  OBVIOUS
<1>2. /\ p.after = a /\ p.cursor \in {seq, a} /\ DOMAIN p.solves = {s \in Made : change[s] > a}
      /\ \A s \in Made : change[s] > a => p.solves[s] = server[s] /\ p.cursor = seq
      /\ seq \in Nat /\ change \in [Made -> Nat]
  BY <1>1, PageIs DEF AccountT
<1>3. Tells(p)
  BY <1>2 DEF Tells
<1> QED
  BY <1>1, <1>3

LEMMA TellsNext ==
  ASSUME TypeInv, OwnInv, FeedInv, [Next]_vars, NEW p \in Pages'
  PROVE  Tells(p)'
<1>1. CASE p \in Pages
  <2>1. Tells(p) /\ p.cursor \in Nat /\ p.after \in Nat /\ DOMAIN p.solves \subseteq Made
    BY <1>1, Fits DEF FeedInv, TypeInv, Pages, SyncT, LinkT, Paged
  <2>2. p.after <= seq' /\ p.cursor <= seq'
    BY <2>1, Numbers DEF Tells
  <2>3. ASSUME NEW s \in Made', change'[s] <= p.cursor
        PROVE  s \in Made /\ server'[s] = server[s] /\ change'[s] = change[s]
    BY <2>1, <2>3, Numbers DEF Tells
  <2> QED
    BY <2>1, <2>2, <2>3 DEF Tells
<1>2. CASE Blank(p) /\ UNCHANGED account
  <2>1. p.cursor = 0 /\ p.after \in {0, cursor} /\ DOMAIN p.solves = {} /\ UNCHANGED <<server, change, seq>>
    BY <1>2 DEF Blank, account
  <2>2. cursor \in Nat /\ seq \in Nat /\ cursor <= seq /\ \A s \in Made : change[s] \in 1..seq
    BY DEF TypeInv, AccountT, FeedInv
  <2>3. p.after <= seq /\ p.cursor <= seq /\ \A s \in Made : ~(change[s] <= p.cursor)
    BY <2>1, <2>2
  <2> QED
    BY <2>1, <2>3 DEF Tells, Made
<1>3. ASSUME NEW a \in {wire.page.after, socket.delivered, seq}, p = Page(a), UNCHANGED account PROVE Tells(p)'
  <2>1. a \in Nat /\ a <= seq /\ \A s \in Made : change[s] <= seq
    <3>1. wire.page.after <= seq /\ wire.page.after \in Nat
      BY DEF FeedInv, Tells, Pages, TypeInv, SyncT, Paged
    <3>2. socket.delivered <= seq /\ socket.delivered \in Nat /\ seq \in Nat
      BY DEF FeedInv, TypeInv, LinkT, AccountT
    <3>3. \A s \in Made : change[s] <= seq
      BY <3>2 DEF FeedInv
    <3> QED
      BY <3>1, <3>2, <3>3
  <2>2. Tells(p)
    BY <1>3, <2>1, PageTells DEF TypeInv
  <2> QED
    BY <1>3, <2>2 DEF Tells, account, Made
<1> QED
  BY <1>1, <1>2, <1>3, PagesAre

LEMMA DeliveredNext ==
  ASSUME TypeInv, FeedInv, [Next]_vars
  PROVE  socket'.delivered <= seq
<1>1. /\ socket = [open |-> socket.open, delivered |-> socket.delivered, pending |-> socket.pending]
      /\ socket.delivered \in Nat /\ socket.delivered <= seq /\ seq \in Nat /\ cursor \in Nat /\ cursor <= seq
      /\ wire.page.after \in Nat /\ wire.page.after <= seq /\ AccountT
  BY DEF TypeInv, AccountT, LinkT, SyncT, Paged, FeedInv, Pages, Tells
<1>2. CASE socket' = socket
  BY <1>1, <1>2
<1>3. CASE NotifySync
  BY <1>1, <1>3 DEF NotifySync
<1>4. CASE Connect
  BY <1>1, <1>4 DEF Connect
<1>5. CASE Stream
  <2>1. PICK c : c = Page(socket.delivered).cursor
    OBVIOUS
  <2>2. c \in {seq, socket.delivered}
    BY <1>1, <2>1, PageIs
  <2>3. socket' = [socket EXCEPT !.delivered = c, !.pending = FALSE]
    BY <1>5, <2>1 DEF Stream
  <2> QED
    BY <1>1, <2>2, <2>3
<1>6. CASE ServePull
  <2>1. PICK c : c = Page(wire.page.after).cursor
    OBVIOUS
  <2>2. c \in {seq, wire.page.after}
    BY <1>1, <2>1, PageIs
  <2>3. \/ socket' = socket
        \/ /\ wire' = [wire EXCEPT !.state = "answered", !.page = Page(wire.page.after)]
           /\ socket' = [socket EXCEPT !.delivered = IF @ > wire'.page.cursor THEN @ ELSE wire'.page.cursor]
    BY <1>6 DEF ServePull
  <2>4. CASE /\ wire' = [wire EXCEPT !.state = "answered", !.page = Page(wire.page.after)]
             /\ socket' = [socket EXCEPT !.delivered = IF @ > wire'.page.cursor THEN @ ELSE wire'.page.cursor]
    <3>1. wire = [state |-> wire.state, req |-> wire.req, answer |-> wire.answer, page |-> wire.page]
      BY DEF TypeInv, SyncT
    <3>2. wire'.page.cursor = c
      BY <2>1, <2>4, <3>1
    <3>3. socket'.delivered \in {socket.delivered, c}
      BY <1>1, <2>4, <3>2
    <3> QED
      BY <1>1, <2>2, <3>3
  <2> QED
    BY <1>2, <2>3, <2>4
<1>7. CASE socket' = NoSocket
  BY <1>1, <1>7 DEF NoSocket
<1>8. CASE User
  BY <1>2, <1>8 DEF User, AddSolve, EditSolve, DeleteSolve, Retry, link
<1>9. CASE OtherDevices
  BY <1>3, <1>9 DEF OtherDevices, OtherDeviceAdds, OtherDeviceEdits, OtherDeviceDeletes
<1>10. CASE Push \/ AckPush \/ PushRefused \/ ServerBusy \/ AskPull \/ TakePull
  BY <1>2, <1>10 DEF Push, AckPush, PushRefused, ServerBusy, AskPull, TakePull, link
<1>11. CASE ServePush \/ \E req \in late : ServeLate(req)
  BY <1>2, <1>3, <1>11 DEF ServePush, ServeLate
<1>12. CASE ReceiveReady \/ ReceiveChanges \/ StartSync \/ Reconnected \/ RequestLost
  BY <1>2, <1>12 DEF ReceiveReady, ReceiveChanges, StartSync, Reconnected, RequestLost, link
<1>13. CASE Disconnect \/ Crash
  BY <1>7, <1>13 DEF Disconnect, Crash, Closed
<1>14. CASE UNCHANGED vars
  BY <1>2, <1>14 DEF vars, link
<1> QED
  BY <1>4, <1>5, <1>6, <1>8, <1>9, <1>10, <1>11, <1>12, <1>13, <1>14 DEF Next, Upload, Download, Live

LEMMA PullNext ==
  ASSUME Plain, TypeInv, FeedInv, [Next]_vars, sync'.phase = "pull"
  PROVE  wire'.page.after = cursor'
<1>1. /\ wire = [state |-> wire.state, req |-> wire.req, answer |-> wire.answer, page |-> wire.page]
      /\ sync = [phase |-> sync.phase, via |-> sync.via, batching |-> sync.batching]
      /\ AccountT /\ wire.page.after \in Nat
      /\ sync.phase = "pull" => wire.page.after = cursor
  BY DEF TypeInv, SyncT, Paged, FeedInv
<1>2. Idle.phase = "idle" /\ \A l : Started(l) => sync'.phase = "loop"
  BY DEF Idle, Started
<1>3. CASE UNCHANGED <<sync, wire, cursor>>
  BY <1>1, <1>3
<1>4. CASE sync'.phase # "pull"
  BY <1>4
<1>5. CASE AskPull
  <2>1. wire' = [NoWire EXCEPT !.state = "sent", !.page = [NoPage EXCEPT !.after = cursor]] /\ UNCHANGED cursor
    BY <1>2, <1>5 DEF AskPull, workspace
  <2> QED
    BY <2>1 DEF NoWire, NoPage
<1>6. CASE ServePull
  <2>1. sync.phase = "pull" /\ UNCHANGED cursor
    BY <1>6 DEF ServePull, workspace
  <2>2. Page(wire.page.after).after = wire.page.after
    BY <1>1, PageIs
  <2>3. \/ wire' = [wire EXCEPT !.state = "answered", !.page = Page(wire.page.after)]
        \/ wire' = [wire EXCEPT !.state = "busy"]
    BY <1>6 DEF ServePull
  <2>4. wire'.page.after = wire.page.after
    BY <1>1, <2>2, <2>3
  <2> QED
    BY <1>1, <2>1, <2>4
<1>7. CASE ServePush
  BY <1>7 DEF ServePush
<1>8. CASE User
  BY <1>3, <1>8 DEF User, AddSolve, EditSolve, DeleteSolve, Retry
<1>9. CASE OtherDevices
  BY <1>3, <1>9 DEF OtherDevices, OtherDeviceAdds, OtherDeviceEdits, OtherDeviceDeletes, workspace
<1>10. CASE Push \/ AckPush \/ PushRefused \/ ServerBusy \/ TakePull
  <2>1. sync' \in {Idle, [sync EXCEPT !.phase = "push"], [sync EXCEPT !.phase = "loop"],
                   [sync EXCEPT !.phase = "loop", !.batching = FALSE]}
    BY <1>10 DEF Push, AckPush, PushRefused, ServerBusy, TakePull
  <2>2. sync'.phase # "pull"
    BY <1>1, <1>2, <2>1
  <2> QED
    BY <2>2
<1>11. CASE \E req \in late : ServeLate(req)
  BY <1>3, <1>11 DEF ServeLate, workspace
<1>12. CASE Connect \/ Stream
  BY <1>3, <1>12 DEF Connect, Stream, workspace
<1>13. CASE StartSync \/ Reconnected
  BY <1>2, <1>13 DEF StartSync, Reconnected
<1>14. CASE ReceiveReady
  BY <1>2, <1>3, <1>14 DEF ReceiveReady, workspace
<1>15. CASE ReceiveChanges
  <2>1. sync.phase = "idle" /\ (UNCHANGED sync \/ \E l : Started(l))
    BY <1>15 DEF ReceiveChanges, Plain
  <2> QED
    BY <1>2, <2>1
<1>16. CASE RequestLost \/ Crash
  BY <1>2, <1>16 DEF RequestLost, Crash, GiveUp
<1>17. CASE Disconnect
  BY <1>2, <1>3, <1>17 DEF Disconnect, GiveUp, workspace
<1>18. CASE UNCHANGED vars
  BY <1>3, <1>18 DEF vars, workspace
<1> QED
  BY <1>5, <1>6, <1>7, <1>8, <1>9, <1>10, <1>11, <1>12, <1>13, <1>14, <1>15, <1>16, <1>17, <1>18
  DEF Next, Upload, Download, Live

LEMMA CursorNext ==
  ASSUME TypeInv, [Next]_vars
  PROVE  cursor' = cursor \/ \E page : Merges(page) /\ cursor' = page.cursor
BY NextIs DEF Quiet, Told, Marks, Acks, Serves, Queues, Sends, Merges, Merged

LEMMA FeedNext ==
  ASSUME Plain, TypeInv, OwnInv, FeedInv, [Next]_vars
  PROVE  FeedInv'
<1>1. ASSUME NEW s \in Made' PROVE change'[s] \in 1..seq'
  <2>1. s \in Made => change[s] \in 1..seq
    BY DEF FeedInv
  <2> QED
    BY <2>1, Numbers
<1>2. cursor' <= seq'
  <2>1. cursor \in Nat /\ cursor <= seq
    BY DEF FeedInv, TypeInv
  <2>2. ASSUME NEW page, Merges(page) PROVE page.cursor \in Nat /\ page.cursor <= seq
    BY <2>2 DEF Merges, FeedInv, Tells, Paged
  <2>3. cursor' \in Nat /\ cursor' <= seq
    BY <2>1, <2>2, CursorNext
  <2> QED
    BY <2>3, Numbers
<1>3. socket'.delivered <= seq'
  <2>1. socket'.delivered \in Nat /\ socket'.delivered <= seq
    BY DeliveredNext, NextTypes DEF TypeInv, LinkT
  <2> QED
    BY <2>1, Numbers
<1>4. \A p \in Pages' : Tells(p)'
  BY TellsNext
<1>5. sync'.phase = "pull" => wire'.page.after = cursor'
  BY PullNext
<1> QED
  BY <1>1, <1>2, <1>3, <1>4, <1>5 DEF FeedInv, Tells

-----------------------------------------------------------------------------
(* One transport at a time, nothing refused.                               *)

LEMMA PlainIs ==
  ASSUME Plain, TypeInv, RefusedInv
  PROVE  refused = {} /\ \A o \in Range(outbox) : ~o.error
BY DEF Plain, TypeInv, AccountT, RefusedInv

LEMMA AnswersAll ==
  ASSUME Plain, TypeInv, RefusedInv, LinkInv, [Next]_vars
  PROVE  wire'.state \notin {"error", "busy"}
<1>1. wire'.state # "error"
  <2>1. refused = {} /\ SyncT(Len(server))
    BY PlainIs DEF TypeInv
  <2>2. ~Refuses(wire.req)
    BY <2>1 DEF Refuses
  <2> QED
    BY <2>1, <2>2, ErrorIs DEF LinkInv
<1>2. ~Busy /\ wire.state # "busy"
  BY DEF Plain, LinkInv
<1>3. wire = [state |-> wire.state, req |-> wire.req, answer |-> wire.answer, page |-> wire.page]
  BY DEF TypeInv, SyncT
<1>4. NoWire.state = "none" /\ (\A q : [NoWire EXCEPT !.state = "sent", !.req = q].state = "sent")
      /\ (\A q : [NoWire EXCEPT !.state = "sent", !.page = q].state = "sent")
  BY DEF NoWire
<1>5. CASE wire' = wire
  BY <1>1, <1>2, <1>5
<1>6. CASE wire' = NoWire
  BY <1>4, <1>6
<1>7. CASE ServePush
  <2>1. wire' = [wire EXCEPT !.state = "error"] \/ \E a : wire' = [wire EXCEPT !.state = "answered", !.answer = a]
    BY <1>2, <1>7 DEF ServePush
  <2>2. \A a : [wire EXCEPT !.state = "answered", !.answer = a].state = "answered"
    BY <1>3
  <2>3. [wire EXCEPT !.state = "error"].state = "error"
    BY <1>3
  <2> QED
    BY <1>1, <2>1, <2>2, <2>3
<1>8. CASE ServePull
  <2>1. wire' = [wire EXCEPT !.state = "answered", !.page = Page(wire.page.after)]
    BY <1>2, <1>8 DEF ServePull
  <2> QED
    BY <1>3, <2>1
<1>9. CASE Push
  <2>1. wire' = wire \/ \E q : wire' = [NoWire EXCEPT !.state = "sent", !.req = q]
    BY <1>9 DEF Push
  <2> QED
    BY <1>4, <1>5, <2>1
<1>10. CASE AskPull
  BY <1>4, <1>5, <1>10 DEF AskPull
<1>11. ServePush \/ ServePull \/ Push \/ AskPull \/ wire' = wire \/ wire' = NoWire
  <2>1. CASE User
    BY <2>1 DEF User, AddSolve, EditSolve, DeleteSolve, Retry
  <2>2. CASE OtherDevices
    BY <2>2 DEF OtherDevices, OtherDeviceAdds, OtherDeviceEdits, OtherDeviceDeletes
  <2>3. CASE Upload
    BY <2>3 DEF Upload, AckPush, PushRefused, ServerBusy
  <2>4. CASE Download
    BY <2>4 DEF Download, TakePull
  <2>5. CASE Live
    BY <2>5 DEF Live, Connect, Stream, ReceiveReady, ReceiveChanges
  <2>6. CASE RequestLost \/ Disconnect \/ Crash
    BY <2>6 DEF RequestLost, Disconnect, Crash, GiveUp
  <2>7. CASE StartSync \/ Reconnected \/ \E req \in late : ServeLate(req)
    BY <2>7 DEF StartSync, Reconnected, ServeLate
  <2>8. CASE UNCHANGED vars
    BY <2>8 DEF vars
  <2> QED
    BY <2>1, <2>2, <2>3, <2>4, <2>5, <2>6, <2>7, <2>8 DEF Next
<1> QED
  BY <1>5, <1>6, <1>7, <1>8, <1>9, <1>10, <1>11

\* What a step does to the socket and to who carries the synchronization.
LinkMoves ==
  \/ UNCHANGED <<stream, live>> /\ socket'.open = socket.open
     /\ \/ sync'.phase = "idle"
        \/ sync.phase # "idle" /\ sync'.via = sync.via
        \/ sync'.via = (IF live.on THEN "socket" ELSE "http")
  \/ Connect /\ UNCHANGED sync
  \/ Stream /\ UNCHANGED sync
  \/ ReceiveReady /\ Started(live')
  \/ ReceiveChanges
  \/ live'.on = live.on /\ UNCHANGED <<stream, socket>> /\ sync'.phase = "idle"
  \/ Closed /\ (sync'.phase = "idle" \/ (UNCHANGED sync /\ ~(sync.via = "socket" /\ sync.phase # "idle")))

LEMMA LinkMovesIs ==
  ASSUME Plain, TypeInv, LinkInv, [Next]_vars
  PROVE  LinkMoves /\ ~again'
<1>1. ~again /\ ~Overlap
  BY DEF Plain, LinkInv
<1>2. /\ Idle.phase = "idle"
      /\ \A l : Started(l) => sync'.via = (IF l.on THEN "socket" ELSE "http")
      /\ sync = [phase |-> sync.phase, via |-> sync.via, batching |-> sync.batching]
      /\ socket = [open |-> socket.open, delivered |-> socket.delivered, pending |-> socket.pending]
      /\ live = [on |-> live.on, needsPull |-> live.needsPull]
  BY DEF Idle, Started, TypeInv, SyncT, LinkT
<1>3. ASSUME UNCHANGED <<sync, stream, live, again>>, socket'.open = socket.open PROVE LinkMoves /\ ~again'
  <2>1. sync'.phase = "idle" \/ (sync.phase # "idle" /\ sync'.via = sync.via)
    BY <1>3
  <2> QED
    BY <1>1, <1>3, <2>1 DEF LinkMoves
<1>4. NotifySync => socket'.open = socket.open
  BY <1>2 DEF NotifySync
<1>5. CASE User
  BY <1>3, <1>5 DEF User, AddSolve, EditSolve, DeleteSolve, Retry, link
<1>6. CASE OtherDevices
  BY <1>3, <1>4, <1>6 DEF OtherDevices, OtherDeviceAdds, OtherDeviceEdits, OtherDeviceDeletes
<1>7. CASE ServePush \/ \E req \in late : ServeLate(req)
  BY <1>3, <1>4, <1>7 DEF ServePush, ServeLate
<1>8. CASE ServePull
  <2>1. UNCHANGED <<sync, stream, live, again>>
    BY <1>8 DEF ServePull
  <2>2. socket' = socket \/ \E d : socket' = [socket EXCEPT !.delivered = d]
    BY <1>8 DEF ServePull
  <2>3. socket'.open = socket.open
    BY <1>2, <2>2
  <2> QED
    BY <1>3, <2>1, <2>3
<1>9. CASE Push \/ AckPush \/ PushRefused \/ ServerBusy \/ AskPull
  <2>1. UNCHANGED <<socket, stream, live, again>>
    BY <1>9 DEF Push, AckPush, PushRefused, ServerBusy, AskPull, link
  <2>2. \/ sync' = Idle
        \/ /\ sync.phase # "idle"
           /\ sync' \in {[sync EXCEPT !.phase = "push"], [sync EXCEPT !.phase = "loop"], [sync EXCEPT !.phase = "pull"],
                         [sync EXCEPT !.phase = "loop", !.batching = FALSE]}
    BY <1>9 DEF Push, AckPush, PushRefused, ServerBusy, AskPull
  <2>3. sync'.phase = "idle" \/ (sync.phase # "idle" /\ sync'.via = sync.via)
    BY <1>2, <2>2
  <2> QED
    BY <1>1, <2>1, <2>3 DEF LinkMoves
<1>10. CASE StartSync \/ Reconnected
  <2>1. UNCHANGED <<socket, stream, live>> /\ Started(live) /\ ~again'
    BY <1>1, <1>10 DEF StartSync, Reconnected, link
  <2> QED
    BY <1>2, <2>1 DEF LinkMoves
<1>11. CASE TakePull
  <2>1. /\ sync' = Idle /\ UNCHANGED <<stream, socket, again>>
        /\ live' = live \/ live' = [live EXCEPT !.needsPull = FALSE]
    BY <1>11 DEF TakePull
  <2>2. live'.on = live.on
    BY <1>2, <2>1
  <2> QED
    BY <1>1, <1>2, <2>1, <2>2 DEF LinkMoves
<1>12. CASE Connect \/ Stream
  BY <1>1, <1>12 DEF Connect, Stream, LinkMoves
<1>13. CASE ReceiveReady
  BY <1>1, <1>13 DEF ReceiveReady, LinkMoves
<1>14. CASE ReceiveChanges
  BY <1>1, <1>14 DEF ReceiveChanges, LinkMoves
<1>15. CASE RequestLost
  BY <1>1, <1>2, <1>15 DEF RequestLost, GiveUp, LinkMoves, link
<1>16. CASE Disconnect
  BY <1>1, <1>2, <1>16 DEF Disconnect, GiveUp, LinkMoves
<1>17. CASE Crash
  BY <1>1, <1>2, <1>17 DEF Crash, GiveUp, LinkMoves
<1>18. CASE UNCHANGED vars
  BY <1>3, <1>18 DEF vars, link
<1> QED
  BY <1>5, <1>6, <1>7, <1>8, <1>9, <1>10, <1>11, <1>12, <1>13, <1>14, <1>15, <1>16, <1>17, <1>18
  DEF Next, Upload, Download, Live

\* The stream's first message is "ready" until it is heard.
Opens == (socket.open /\ ~live.on => stream # <<>>) /\ \A i \in DOMAIN stream : stream[i].type = "ready" <=> i = 1 /\ ~live.on

LEMMA HeardNext ==
  ASSUME TypeInv, LinkInv, stream # <<>>, stream' = Tail(stream), live'.on, Head(stream).type = "ready" \/ live.on
  PROVE  Opens'
<1>1. PICK s, t : s = stream /\ t = stream'
  OBVIOUS
<1>2. /\ \A i \in DOMAIN t : t[i] = s[i + 1] /\ i + 1 \in DOMAIN s
      /\ DOMAIN t = 1..(Len(s) - 1) /\ Len(s) \in Nat
  BY <1>1, StreamReads DEF TypeInv, LinkT
<1>3. \A i \in DOMAIN t : t[i].type # "ready"
  <2> SUFFICES ASSUME NEW i \in DOMAIN t PROVE t[i].type # "ready"
    OBVIOUS
  <2>1. t[i] = s[i + 1] /\ i + 1 \in DOMAIN s /\ i + 1 # 1
    BY <1>2
  <2> QED
    BY <1>1, <2>1 DEF LinkInv
<1> QED
  BY <1>1, <1>3 DEF Opens

LEMMA OpensNext ==
  ASSUME Plain, TypeInv, LinkInv, [Next]_vars
  PROVE  Opens'
<1>0. Opens
  BY DEF LinkInv, Opens
<1>1. CASE UNCHANGED stream /\ live'.on = live.on /\ socket'.open = socket.open
  BY <1>0, <1>1 DEF Opens
<1>2. CASE Closed
  <2>1. stream' = <<>> /\ ~socket'.open
    BY <1>2 DEF Closed, NoSocket
  <2> QED
    BY <2>1 DEF Opens
<1>3. CASE Connect
  <2>1. ~live.on /\ live' = live
    BY <1>3 DEF Connect, TypeInv, LinkT
  <2>2. \E p : stream' = <<[type |-> "ready", page |-> p]>>
    BY <1>3 DEF Connect
  <2>3. stream' # <<>> /\ \A i \in DOMAIN stream' : i = 1 /\ stream'[i].type = "ready"
    BY <2>2
  <2> QED
    BY <2>1, <2>3 DEF Opens
<1>4. CASE Stream
  <2>1. /\ live' = live /\ socket.pending
        /\ stream' = stream \/ \E p : stream' = Append(stream, [type |-> "changes", page |-> p])
        /\ \E c : socket' = [socket EXCEPT !.delivered = c, !.pending = FALSE]
    BY <1>4 DEF Stream
  <2>2. socket'.open = socket.open /\ socket.open
    BY <2>1 DEF TypeInv, LinkT
  <2>3. ASSUME NEW p, stream' = Append(stream, [type |-> "changes", page |-> p]) PROVE Opens'
    <3>1. PICK s, t : s = stream /\ t = stream'
      OBVIOUS
    <3>2. /\ DOMAIN t = 1..(Len(s) + 1) /\ DOMAIN s = 1..Len(s) /\ Len(s) \in Nat
          /\ \A i \in DOMAIN s : t[i] = s[i]
          /\ t[Len(s) + 1].type = "changes"
      BY <2>3, <3>1, StreamAdds DEF TypeInv, LinkT
    <3>3. t # <<>> /\ \A i \in DOMAIN t : i \in DOMAIN s \/ i = Len(s) + 1
      BY <3>2
    <3>4. Len(s) + 1 = 1 => live.on
      <4>1. Messages(s)
        BY <3>1 DEF TypeInv, LinkT
      <4>2. Len(s) = 0 => s = <<>>
        BY <4>1, EmptySeq DEF Messages
      <4> QED
        BY <2>2, <3>1, <3>2, <4>2 DEF LinkInv
    <3>5. \A i \in DOMAIN s : t[i].type = "ready" <=> i = 1 /\ ~live.on
      BY <3>1, <3>2 DEF LinkInv
    <3> QED
      BY <2>1, <3>1, <3>2, <3>3, <3>4, <3>5 DEF Opens
  <2> QED
    BY <1>1, <2>1, <2>2, <2>3
<1>5. CASE ReceiveReady
  <2>1. stream # <<>> /\ stream' = Tail(stream) /\ Head(stream).type = "ready" /\ live'.on
    BY <1>5 DEF ReceiveReady
  <2> QED
    BY <2>1, HeardNext
<1>6. CASE ReceiveChanges
  <2>1. stream # <<>> /\ stream' = Tail(stream) /\ Head(stream).type = "changes"
        /\ (live' = live \/ live' = [live EXCEPT !.needsPull = TRUE])
    BY <1>6 DEF ReceiveChanges, Plain
  <2>2. Head(stream) = stream[1] /\ 1 \in DOMAIN stream
    BY <2>1, StreamReads DEF TypeInv, LinkT
  <2>3. live.on
    BY <2>1, <2>2 DEF LinkInv
  <2>4. live'.on
    BY <2>1, <2>3 DEF TypeInv, LinkT
  <2> QED
    BY <2>1, <2>3, <2>4, HeardNext
<1> QED
  BY <1>1, <1>2, <1>3, <1>4, <1>5, <1>6, LinkMovesIs DEF LinkMoves

LEMMA LinkNext ==
  ASSUME Plain, TypeInv, RefusedInv, LinkInv, [Next]_vars
  PROVE  LinkInv'
<1>1. sync'.phase # "idle" => (sync'.via = "socket" <=> live'.on)
  <2>1. sync.phase # "idle" => (sync.via = "socket" <=> live.on)
    BY DEF LinkInv
  <2>2. \A l : Started(l) => sync'.via = (IF l.on THEN "socket" ELSE "http")
    BY DEF Started
  <2>3. CASE Connect \/ Stream
    <3>1. UNCHANGED <<sync, live>>
      BY <2>3 DEF Connect, Stream
    <3> QED
      BY <2>1, <3>1
  <2>4. CASE ReceiveChanges
    <3>1. \/ UNCHANGED <<sync, live>>
          \/ Started(live) /\ live' = [live EXCEPT !.needsPull = TRUE]
      BY <2>4 DEF ReceiveChanges, Plain
    <3>2. live'.on = live.on
      BY <3>1 DEF TypeInv, LinkT
    <3> QED
      BY <2>1, <2>2, <3>1, <3>2
  <2>5. CASE Closed /\ (sync'.phase = "idle" \/ (UNCHANGED sync /\ ~(sync.via = "socket" /\ sync.phase # "idle")))
    BY <2>1, <2>5 DEF Closed, NotLive
  <2> QED
    BY <2>1, <2>2, <2>3, <2>4, <2>5, LinkMovesIs DEF LinkMoves
<1> QED
  BY <1>1, AnswersAll, LinkMovesIs, OpensNext DEF LinkInv, Opens

\* The operation sent first names its solve: it was queued behind the solve's.
LEMMA PushSends ==
  ASSUME Plain, TypeInv, RefusedInv, OutboxInv, CopyInv, Push
  PROVE  sync'.phase = "push"
<1>1. PICK B, req : B = Batch /\ req = [i \in DOMAIN B |-> Named(B[i])]
  OBVIOUS
<1>2. CASE req[1].kind # "solve" /\ req[1].sid = 0
  <2>1. /\ B \in Seq(Operation) /\ B # <<>> /\ Range(B) \subseteq Range(Pending)
        /\ \/ \A i \in DOMAIN B : B[i].kind = "solve"
           \/ /\ Len(B) = 1 /\ DOMAIN B = {1}
              /\ \A o \in Range(Pending) : o.id >= B[1].id
    BY <1>1, BatchIs DEF Push, TypeInv
  <2>2. 1 \in DOMAIN B
    BY <2>1
  <2>3. req[1] = Named(B[1]) /\ B[1] \in Range(B)
    BY <1>1, <2>2 DEF Range
  <2>4. PICK b : b = B[1]
    OBVIOUS
  <2>5. Range(Pending) = Range(outbox)
    BY PendingIs, PlainIs DEF TypeInv
  <2>6. b \in Range(outbox) /\ b.kind # "solve" /\ SolveServerId(b.local) = 0
    BY <1>2, <2>1, <2>3, <2>4, <2>5, NamedIs
  <2>7. \A o \in Range(outbox) : o.id >= b.id
    BY <2>1, <2>2, <2>4, <2>5, <2>6
  <2>8. /\ b.local \in DOMAIN rows /\ b.local # -b.id /\ b.local \in Int \ {0} /\ b.id \in 1..ops /\ b.id \in Int
        /\ b.local \in Names(b.id, Len(server)) /\ Len(server) \in Nat
    BY <2>6, OutboxOf, Fits DEF OutboxInv, Queued, TypeInv
  <2>9. rows[b.local].sid = 0 /\ ~(b.local > 0)
    BY <2>6, <2>8 DEF SolveServerId
  <2>10. PICK o \in Range(outbox) : o.kind = "solve" /\ o.local = b.local
    BY <2>8, <2>9 DEF CopyInv
  <2>11. o.local = -o.id /\ o.id \in Int
    BY <2>10, OutboxOf
  <2>12. -b.local \in 1..b.id
    BY <2>8, <2>9 DEF Names
  <2>13. o.id < b.id
    BY <2>8, <2>10, <2>11, <2>12
  <2> QED
    BY <2>7, <2>8, <2>11, <2>13
<1>3. CASE ~(req[1].kind # "solve" /\ req[1].sid = 0)
  <2>1. sync' = [sync EXCEPT !.phase = "push"]
    BY <1>1, <1>3 DEF Push
  <2> QED
    BY <2>1 DEF TypeInv, SyncT
<1> QED
  BY <1>2, <1>3

LEMMA ReadyHeard ==
  ASSUME TypeInv, LinkInv, stream # <<>>, Head(stream).type = "changes"
  PROVE  live.on
<1>1. Head(stream) = stream[1] /\ 1 \in DOMAIN stream
  BY StreamReads DEF TypeInv, LinkT
<1> QED
  BY <1>1 DEF LinkInv

LEMMA MergingNext ==
  ASSUME Plain, TypeInv, RefusedInv, LinkInv, OutboxInv, CopyInv, [Next]_vars, Merging'
  PROVE  Merging \/ Range(outbox') = {}
<1>1. /\ Idle.phase = "idle" /\ (\A l : Started(l) => sync'.phase = "loop")
      /\ sync = [phase |-> sync.phase, via |-> sync.via, batching |-> sync.batching]
      /\ wire.state \notin {"error", "busy"}
  BY DEF Idle, Started, TypeInv, SyncT, LinkInv
<1>2. CASE UNCHANGED <<sync, live>>
  BY <1>2 DEF Merging
<1>3. CASE sync'.phase = "loop" \/ sync'.phase = "push"
  BY <1>3 DEF Merging
<1>4. CASE User
  BY <1>2, <1>4 DEF User, AddSolve, EditSolve, DeleteSolve, Retry, link
<1>5. CASE OtherDevices
  BY <1>2, <1>5 DEF OtherDevices, OtherDeviceAdds, OtherDeviceEdits, OtherDeviceDeletes
<1>6. CASE ServePush \/ ServePull \/ (\E req \in late : ServeLate(req)) \/ Connect \/ Stream
  BY <1>2, <1>6 DEF ServePush, ServePull, ServeLate, Connect, Stream
<1>7. CASE Push
  BY <1>3, <1>7, PushSends
<1>8. CASE AckPush
  <2>1. sync' = [sync EXCEPT !.phase = "loop"]
    BY <1>8 DEF AckPush
  <2>2. sync'.phase = "loop"
    BY <1>1, <2>1
  <2> QED
    BY <1>3, <2>2
<1>9. ~PushRefused /\ ~ServerBusy
  BY <1>1 DEF PushRefused, ServerBusy
<1>10. CASE AskPull
  <2>1. Range(Pending) = {} /\ outbox' = outbox
    BY <1>10 DEF AskPull, Uploads, workspace
  <2>2. Range(Pending) = Range(outbox)
    BY PendingIs, PlainIs DEF TypeInv
  <2> QED
    BY <2>1, <2>2
<1>11. CASE TakePull
  BY <1>11 DEF TakePull, Merging
<1>12. CASE StartSync \/ Reconnected \/ ReceiveReady
  <2>1. \E l : Started(l)
    <3>1. ~Overlap
      BY DEF Plain
    <3> QED
      BY <1>12, <3>1 DEF StartSync, Reconnected, ReceiveReady
  <2> QED
    BY <1>1, <1>3, <2>1
<1>13. CASE ReceiveChanges
  BY <1>13, ReadyHeard DEF ReceiveChanges, Plain, Merging
<1>14. CASE RequestLost
  <2>1. sync' = Idle /\ live' = live /\ sync.via = "http" /\ wire.state # "none"
    BY <1>14 DEF RequestLost, GiveUp, link
  <2>2. sync.phase # "idle"
    BY <2>1 DEF TypeInv, SyncT
  <2>3. ~live.on
    BY <2>1, <2>2 DEF LinkInv
  <2> QED
    BY <1>1, <2>1, <2>3 DEF Merging
<1>15. CASE Disconnect \/ Crash
  <2>1. live' = NotLive /\ (sync' = Idle \/ UNCHANGED sync)
    BY <1>15 DEF Disconnect, Crash, Closed, GiveUp
  <2>2. ~live'.on
    BY <2>1 DEF NotLive
  <2> QED
    BY <1>1, <2>1, <2>2 DEF Merging
<1>16. CASE UNCHANGED vars
  BY <1>2, <1>16 DEF vars, link
<1> QED
  BY <1>4, <1>5, <1>6, <1>7, <1>8, <1>9, <1>10, <1>11, <1>12, <1>13, <1>14, <1>15, <1>16
  DEF Next, Upload, Download, Live

LEMMA AskingNext ==
  ASSUME TypeInv, [Next]_vars, sync'.phase = "push"
  PROVE  \/ sync.phase = "push" /\ wire'.req = wire.req
         \/ \E req : Sends(req)
<1>1. /\ Idle.phase = "idle" /\ (\A l : Started(l) => sync'.phase = "loop")
      /\ sync = [phase |-> sync.phase, via |-> sync.via, batching |-> sync.batching]
      /\ wire = [state |-> wire.state, req |-> wire.req, answer |-> wire.answer, page |-> wire.page]
  BY DEF Idle, Started, TypeInv, SyncT
<1>2. CASE UNCHANGED <<sync, wire>>
  BY <1>2
<1>3. CASE User
  BY <1>2, <1>3 DEF User, AddSolve, EditSolve, DeleteSolve, Retry
<1>4. CASE OtherDevices
  BY <1>2, <1>4 DEF OtherDevices, OtherDeviceAdds, OtherDeviceEdits, OtherDeviceDeletes
<1>5. CASE ServePush \/ ServePull
  <2>1. UNCHANGED sync
    BY <1>5 DEF ServePush, ServePull
  <2>2. ~ServePull
    BY <2>1 DEF ServePull
  <2>3. \E st : wire' = [wire EXCEPT !.state = st] \/ \E a : wire' = [wire EXCEPT !.state = st, !.answer = a]
    BY <1>5, <2>2 DEF ServePush
  <2>4. wire'.req = wire.req
    BY <1>1, <2>3
  <2> QED
    BY <2>1, <2>4
<1>6. CASE (\E req \in late : ServeLate(req)) \/ Connect \/ Stream
  BY <1>2, <1>6 DEF ServeLate, Connect, Stream
<1>7. CASE Push
  <2>1. sync.phase = "loop"
    BY <1>7 DEF Push
  <2>2. CASE UNCHANGED wire
    <3>1. wire'.state = "none"
      BY <2>1, <2>2 DEF TypeInv, SyncT
    <3> QED
      BY <3>1, <1>7, NextTypes DEF TypeInv, SyncT
  <2>3. CASE \E req : Sends(req)
    BY <2>3
  <2> QED
    BY <1>7, <2>2, <2>3, SendsPush
<1>8. CASE AckPush \/ PushRefused \/ ServerBusy \/ AskPull \/ TakePull
  <2>1. sync' \in {Idle, [sync EXCEPT !.phase = "pull"], [sync EXCEPT !.phase = "loop"],
                   [sync EXCEPT !.phase = "loop", !.batching = FALSE]}
    BY <1>8 DEF AckPush, PushRefused, ServerBusy, AskPull, TakePull
  <2>2. sync'.phase # "push"
    BY <1>1, <2>1
  <2> QED
    BY <2>2
<1>9. CASE StartSync \/ Reconnected
  BY <1>1, <1>9 DEF StartSync, Reconnected
<1>10. CASE ReceiveReady
  BY <1>1, <1>2, <1>10 DEF ReceiveReady
<1>11. CASE ReceiveChanges
  BY <1>1, <1>2, <1>11 DEF ReceiveChanges
<1>12. CASE RequestLost \/ Crash
  BY <1>1, <1>12 DEF RequestLost, Crash, GiveUp
<1>13. CASE Disconnect
  BY <1>1, <1>2, <1>13 DEF Disconnect, GiveUp
<1>14. CASE UNCHANGED vars
  BY <1>2, <1>14 DEF vars
<1> QED
  BY <1>3, <1>4, <1>5, <1>6, <1>7, <1>8, <1>9, <1>10, <1>11, <1>12, <1>13, <1>14
  DEF Next, Upload, Download, Live

LEMMA QueuesKeeps ==
  ASSUME TypeInv, NEW op, NEW kept, Queues(op, kept), NEW o \in Range(outbox), o.kind # "edit" \/ o.local # op.local
  PROVE  o \in Range(outbox')
<1>1. Range(outbox') = Range(kept) \cup {op}
  BY QueuedOf
<1>2. CASE kept = outbox
  BY <1>1, <1>2
<1>3. CASE kept = Keeping(outbox, {p \in Range(outbox) : ~(p.kind = "edit" /\ ~p.error /\ p.local = op.local)})
  <2>1. Range(kept) = Range(outbox) \cap {p \in Range(outbox) : ~(p.kind = "edit" /\ ~p.error /\ p.local = op.local)}
    BY <1>3, KeptOf
  <2> QED
    BY <1>1, <2>1
<1> QED
  BY <1>2, <1>3 DEF Queues

LEMMA TurnMerging ==
  ASSUME Plain, TypeInv, OwnInv, RefusedInv, LinkInv, TurnInv, OutboxInv, CopyInv, [Next]_vars, Merging',
         NEW o \in Range(outbox')
  PROVE  o.id \notin DOMAIN receipts' /\ \A p \in Flying' : p.id # o.id
<1>1. Merging
  BY MergingNext
<1>2. \A p \in Range(outbox) : p.id \notin DOMAIN receipts /\ \A f \in Flying : f.id # p.id
  BY <1>1 DEF TurnInv
<1>3. CASE /\ UNCHANGED receipts /\ Flying' \subseteq Flying
           /\ \E p \in Range(outbox) : p.id = o.id
  BY <1>2, <1>3
<1>4. CASE Quiet \/ Told
  BY <1>3, <1>4 DEF Quiet, Told, account
<1>5. CASE Marks
  BY <1>3, <1>5, MarkedOf DEF Marks, account
<1>6. CASE Acks
  <2>1. o \in Range(outbox)
    BY <1>6, AckIs, KeptOf DEF Acks, LeftAfter
  <2> QED
    BY <1>3, <1>6, <2>1 DEF Acks, account
<1>7. ASSUME NEW page, Merges(page) PROVE o.id \notin DOMAIN receipts' /\ \A p \in Flying' : p.id # o.id
  <2>1. o \in Range(outbox)
    BY <1>7, KeptOf DEF Merges, Merged
  <2> QED
    BY <1>3, <1>7, <2>1 DEF Merges, account
<1>8. ASSUME NEW op, NEW kept, Queues(op, kept) PROVE o.id \notin DOMAIN receipts' /\ \A p \in Flying' : p.id # o.id
  <2>1. UNCHANGED receipts /\ Flying' = Flying /\ op.id = ops + 1
    BY <1>8 DEF Queues, account
  <2>2. CASE o \in Range(outbox)
    BY <1>3, <2>1, <2>2
  <2>3. CASE o = op
    <3>1. ops \in Nat /\ DOMAIN receipts \subseteq 1..ops
      BY DEF TypeInv, AccountT
    <3> QED
      BY <2>1, <2>3, <3>1, FlyingOf
  <2> QED
    BY <1>8, <2>2, <2>3, QueuedOf
<1>9. ASSUME NEW req, Serves(req) PROVE o.id \notin DOMAIN receipts' /\ \A p \in Flying' : p.id # o.id
  <2>1. /\ outbox' = outbox /\ Flying' \subseteq Flying /\ req \in Flights
        /\ DOMAIN receipts' = DOMAIN receipts \cup {w.id : w \in Range(req)}
    BY <1>9 DEF Serves, Applied
  <2>2. \A w \in Range(req) : w \in Flying
    BY <2>1 DEF Flying
  <2> QED
    BY <1>2, <2>1, <2>2
<1>10. ASSUME NEW req, Sends(req) PROVE FALSE
  BY <1>1, <1>10 DEF Sends, Merging
<1> QED
  BY <1>4, <1>5, <1>6, <1>7, <1>8, <1>9, <1>10, NextIs

LEMMA TurnAsked ==
  ASSUME Plain, TypeInv, OwnInv, RefusedInv, TurnInv, [Next]_vars, sync'.phase = "push", NEW w \in Range(wire'.req)
  PROVE  /\ w.kind # "edit" => \E o \in Range(outbox') : o.id = w.id
         /\ w.kind # "solve" => \A o \in Range(outbox') : o.id >= w.id
<1>1. ASSUME NEW req, Sends(req)
      PROVE  /\ w.kind # "edit" => \E o \in Range(outbox') : o.id = w.id
             /\ w.kind # "solve" => \A o \in Range(outbox') : o.id >= w.id
  <2>1. wire'.req = req /\ outbox' = outbox
    BY <1>1 DEF Sends
  <2>2. PICK p \in Range(outbox) : w = Named(p)
    BY <1>1, <2>1 DEF Sends
  <2>3. \A o \in Range(outbox) : ~o.error
    BY PlainIs
  <2>4. w.kind # "solve" => \A o \in Range(outbox) : o.id >= w.id
    BY <1>1, <2>1, <2>3 DEF Sends
  <2> QED
    BY <2>1, <2>2, <2>4, NamedIs
<1>2. CASE sync.phase = "push" /\ wire'.req = wire.req
  <2>1. /\ w.kind # "edit" => \E o \in Range(outbox) : o.id = w.id
        /\ w.kind # "solve" => \A o \in Range(outbox) : o.id >= w.id
        /\ w \in Flying
    BY <1>2, RequestFlies DEF TurnInv
  <2>2. CASE outbox' = outbox
    BY <2>1, <2>2
  <2>3. CASE Marks
    BY <2>1, <2>3, MarkedOf
  <2>4. ASSUME NEW op, NEW kept, Queues(op, kept)
        PROVE  /\ w.kind # "edit" => \E o \in Range(outbox') : o.id = w.id
               /\ w.kind # "solve" => \A o \in Range(outbox') : o.id >= w.id
    <3>1. ASSUME w.kind # "edit" PROVE \E o \in Range(outbox') : o.id = w.id
      <4>1. PICK o \in Range(outbox) : o.id = w.id
        BY <2>1, <3>1
      <4>2. o.kind = w.kind
        BY <2>1, <4>1 DEF OwnInv
      <4>3. o \in Range(outbox')
        BY <2>4, <3>1, <4>2, QueuesKeeps
      <4> QED
        BY <4>1, <4>3
    <3>2. ASSUME w.kind # "solve", NEW o \in Range(outbox') PROVE o.id >= w.id
      <4>1. CASE o \in Range(outbox)
        BY <2>1, <3>2, <4>1
      <4>2. CASE o = op
        <5>1. op.id = ops + 1 /\ ops \in Nat /\ w.id \in 1..ops
          BY <2>1, <2>4, FlyingOf DEF Queues, TypeInv, AccountT
        <5> QED
          BY <4>2, <5>1
      <4> QED
        BY <2>4, <4>1, <4>2, QueuedOf
    <3> QED
      BY <3>1, <3>2
  <2>5. ~Acks
    <3>1. ASSUME AckPush PROVE FALSE
      <4>1. sync' = [sync EXCEPT !.phase = "loop"]
        BY <3>1 DEF AckPush
      <4> QED
        BY <4>1 DEF TypeInv, SyncT
    <3> QED
      BY <3>1 DEF Acks
  <2>6. ~\E page : Merges(page)
    BY <1>2 DEF Merges, Plain
  <2> QED
    BY <1>1, <2>2, <2>3, <2>4, <2>5, <2>6, NextIs DEF Quiet, Told, Serves
<1> QED
  BY <1>1, <1>2, AskingNext

LEMMA TurnNext ==
  ASSUME Plain, TypeInv, OwnInv, RefusedInv, LinkInv, TurnInv, OutboxInv, CopyInv, [Next]_vars
  PROVE  TurnInv'
<1>1. Merging' => \A o \in Range(outbox') : o.id \notin DOMAIN receipts' /\ \A p \in Flying' : p.id # o.id
  BY TurnMerging
<1>2. sync'.phase = "push" => \A w \in Range(wire'.req) :
        /\ w.kind # "edit" => \E o \in Range(outbox') : o.id = w.id
        /\ w.kind # "solve" => \A o \in Range(outbox') : o.id >= w.id
  BY TurnAsked
<1> QED
  BY <1>1, <1>2 DEF TurnInv

-----------------------------------------------------------------------------
(* The operations queued.                                                  *)

LEMMA ReceiptNext ==
  ASSUME TypeInv, OwnInv, [Next]_vars, NEW o \in Range(outbox), o.id \in DOMAIN receipts', NEW r, r = receipts'[o.id]
  PROVE  \/ o.id \in DOMAIN receipts /\ r = receipts[o.id] /\ r \in Made \cup {0}
         \/ (r # 0 => seq < change'[r] /\ r \in Made') /\ (o.kind = "solve" => r \notin Made \cup {0})
<1>1. CASE o.id \in DOMAIN receipts
  BY <1>1, ReceiptsNext DEF TypeInv, AccountT
<1>2. CASE o.id \notin DOMAIN receipts
  <2>1. PICK req : Serves(req) /\ DOMAIN receipts' = DOMAIN receipts \cup {w.id : w \in Range(req)}
    BY <1>2, ReceiptsNext
  <2>2. PICK w \in Range(req) : w.id = o.id
    BY <1>2, <2>1
  <2>3. /\ w \in Flying /\ r \in Made' \cup {0}
        /\ w.kind = "solve" => r \notin Made \cup {0}
        /\ w.kind # "solve" => r \in {0, w.sid} /\ (r # 0 => seq < change'[w.sid])
    BY <1>2, <2>1, <2>2, ServedOp
  <2>4. w.kind = o.kind
    BY <2>2, <2>3 DEF OwnInv
  <2>5. CASE o.kind = "solve"
    <3>1. r \in Made' \ Made /\ r \notin Made \cup {0}
      BY <2>3, <2>4, <2>5
    <3> QED
      BY <3>1, Numbers
  <2>6. CASE o.kind # "solve"
    BY <2>3, <2>4, <2>6
  <2> QED
    BY <2>5, <2>6
<1> QED
  BY <1>1, <1>2

LEMMA QueuedStays ==
  ASSUME TypeInv, OwnInv, ReceiptInv, FeedInv, OutboxInv, [Next]_vars, UNCHANGED <<rows, cursor>>,
         \A q \in Range(outbox') : \E p \in Range(outbox) : Alike(q, p),
         NEW o \in Range(outbox')
  PROVE  Queued(o)'
<1>1. PICK p \in Range(outbox) : Alike(o, p)
  OBVIOUS
<1>2. Queued(p) /\ cursor \in Nat /\ cursor <= seq /\ seq \in Nat
  BY DEF OutboxInv, FeedInv, TypeInv, AccountT
<1>3. ASSUME o.kind = "delete", NEW q \in Range(outbox'), q.id > o.id PROVE q.local # o.local
  <2>1. PICK b \in Range(outbox) : Alike(q, b)
    OBVIOUS
  <2> QED
    BY <1>1, <1>2, <1>3, <2>1 DEF Alike, Queued
<1>4. ASSUME o.id \in DOMAIN receipts', NEW r, r = receipts'[o.id], r # 0 PROVE change'[r] > cursor
  <2>1. CASE o.id \in DOMAIN receipts /\ r = receipts[o.id] /\ r \in Made \cup {0}
    <3>1. r \in Made /\ change[r] > cursor
      BY <1>1, <1>2, <1>4, <2>1 DEF Alike, Queued
    <3> QED
      BY <1>2, <3>1, Numbers
  <2>2. CASE seq < change'[r] /\ r \in Made'
    <3>1. change'[r] \in Nat
      BY <2>2, Numbers
    <3> QED
      BY <1>2, <2>2, <3>1
  <2> QED
    BY <1>1, <1>4, <2>1, <2>2, ReceiptNext DEF Alike
<1>5. ASSUME o.kind = "solve", o.id \in DOMAIN receipts', NEW x \in DOMAIN rows PROVE rows[x].sid # receipts'[o.id]
  <2>1. PICK r : r = receipts'[o.id]
    OBVIOUS
  <2>2. CASE o.id \in DOMAIN receipts /\ r = receipts[o.id]
    BY <1>1, <1>2, <1>5, <2>1, <2>2 DEF Alike, Queued
  <2>3. CASE r \notin Made \cup {0}
    <3>1. rows[x].sid \in Made \cup {0}
      BY Fits DEF TypeInv, RowsT
    <3> QED
      BY <2>1, <2>3, <3>1
  <2> QED
    BY <1>1, <1>5, <2>1, <2>2, <2>3, ReceiptNext DEF Alike
<1> QED
  BY <1>1, <1>2, <1>3, <1>4, <1>5 DEF Queued, Alike

LEMMA QueuedAcks ==
  ASSUME TypeInv, OwnInv, ReceiptInv, TurnInv, OutboxInv, Acks, NEW o \in Range(outbox')
  PROVE  Queued(o)'
<1>1. /\ sync.phase = "push" /\ UNCHANGED <<cursor, ops, account>> /\ AckPush
  BY DEF Acks, AckPush
<1> DEFINE R == Range(wire.req)
<1>2. /\ DOMAIN rows' = DOMAIN rows \ {w.local : w \in {w \in R : w.kind = "delete"}}
      /\ \A x \in DOMAIN rows' :
           \/ /\ \E w \in R : w.kind = "solve" /\ w.local = x
              /\ x < 0 /\ -x \in DOMAIN receipts /\ rows'[x] = [rows[x] EXCEPT !.sid = receipts[-x]]
           \/ rows'[x] = rows[x]
      /\ outbox' = LeftAfter(wire.req)
  BY <1>1, AckIs
<1>3. R \subseteq Flying
  BY RequestFlies
<1>4. Range(outbox') = Range(outbox) \cap {p \in Range(outbox) : p.id \notin {w.id : w \in R}}
  BY <1>2, KeptOf DEF LeftAfter
<1>5. /\ o \in Range(outbox) /\ (\A w \in R : w.id # o.id) /\ Queued(o)
      /\ o.id \in Int /\ (o.kind = "solve" => o.local = -o.id)
  BY <1>4, OutboxOf DEF OutboxInv
<1>6. ASSUME NEW w \in R, w.kind = "delete" PROVE w.local # o.local
  <2>1. PICK d \in Range(outbox) : d.id = w.id
    BY <1>1, <1>6 DEF TurnInv
  <2>2. d.kind = "delete" /\ d.local = w.local
    BY <1>3, <1>6, <2>1 DEF OwnInv
  <2>3. o.id >= w.id /\ o.id # w.id /\ d.id \in Int
    BY <1>1, <1>5, <1>6, <2>1, OutboxOf DEF TurnInv
  <2>4. o.id > d.id
    BY <1>5, <2>1, <2>3
  <2> QED
    BY <1>5, <2>2, <2>4 DEF OutboxInv, Queued
<1>7. o.local \in DOMAIN rows'
  BY <1>2, <1>5, <1>6 DEF Queued
<1>8. \A w \in R : w.kind = "solve" => w.local = -w.id /\ w.id \in Int
  BY <1>3, FlyingOf
<1>9. o.kind = "solve" => rows'[o.local].sid = 0
  BY <1>2, <1>5, <1>7, <1>8 DEF Queued
<1>10. rows'[o.local].deleted = rows[o.local].deleted
  <2>1. rows[o.local] \in Row
    BY <1>2, <1>7 DEF TypeInv, RowsT
  <2> QED
    BY <1>2, <1>7, <2>1 DEF Row
<1>11. ASSUME o.kind = "solve", o.id \in DOMAIN receipts, NEW x \in DOMAIN rows' PROVE rows'[x].sid # receipts[o.id]
  <2>1. CASE rows'[x] = rows[x]
    BY <1>2, <1>5, <1>11, <2>1 DEF Queued
  <2>2. ASSUME NEW w \in R, w.kind = "solve", w.local = x, -x \in DOMAIN receipts, rows'[x] = [rows[x] EXCEPT !.sid = receipts[-x]]
        PROVE  rows'[x].sid # receipts[o.id]
    <3>1. w.id = -x /\ w.id # o.id /\ w.local = -w.id /\ w.id \in 1..ops /\ o.id \in 1..ops
      BY <1>3, <1>5, <1>8, <2>2, FlyingOf, OutboxOf
    <3>2. rows[x] \in Row
      BY <1>2 DEF TypeInv, RowsT
    <3>3. rows'[x].sid = receipts[w.id]
      BY <2>2, <3>1, <3>2 DEF Row
    <3>4. Owns(w.local, receipts[w.id]) /\ Owns(o.local, receipts[o.id])
      BY <1>3, <1>5, <1>11, <2>2, <3>1 DEF ReceiptInv
    <3>5. server[receipts[w.id]].by = w.id /\ server[receipts[o.id]].by = o.id
      <4>1. ~(w.local > 0) /\ -w.local = w.id /\ ~(o.local > 0) /\ -o.local = o.id
        BY <1>5, <1>11, <3>1
      <4> QED
        BY <3>4, <4>1 DEF Owns
    <3> QED
      BY <3>1, <3>3, <3>5
  <2> QED
    BY <1>2, <2>1, <2>2
<1>12. UNCHANGED <<receipts, change>>
  BY <1>1 DEF account
<1> QED
  BY <1>1, <1>4, <1>5, <1>7, <1>9, <1>10, <1>11, <1>12 DEF Queued

LEMMA MergesIn ==
  ASSUME Plain, TypeInv, LinkInv, NEW page, Merges(page)
  PROVE  Merging
BY ReadyHeard DEF Plain, Merges, Merging

\* A row with operations queued is left as it is, or goes with its operations.
LEMMA DirtyStays ==
  ASSUME TypeInv, OutboxInv, NEW page, Merges(page), NEW o \in Range(outbox')
  PROVE  /\ o \in Range(outbox) /\ o.local \notin Gone(page)
         /\ o.local \in DOMAIN rows /\ o.local \in DOMAIN rows' /\ rows'[o.local] = rows[o.local]
<1>1. Merged(page) /\ Paged(page, Len(server))
  BY DEF Merges
<1>2. Range(outbox') = Range(outbox) \cap {p \in Range(outbox) : p.local \notin Gone(page) \/ p.kind = "solve"}
  BY <1>1, KeptOf DEF Merged
<1>3. o \in Range(outbox) /\ Queued(o) /\ o.local \in Dirty
  BY <1>2 DEF OutboxInv, Dirty
<1>4. o.local \notin Gone(page)
  <2>1. CASE o.kind = "solve"
    <3>1. rows[o.local].sid = 0 /\ o.local = -o.id /\ o.id \in 1..ops
      BY <1>3, <2>1, OutboxOf DEF Queued
    <3>2. ~(o.local > 0)
      BY <3>1
    <3>3. ASSUME NEW s \in DOMAIN page.solves PROVE LocalId(s) # o.local
      <4>1. s \in Nat /\ s > 0
        BY <1>1, Fits DEF TypeInv, Paged
      <4> QED
        BY <3>1, <3>2, <4>1, LocalIs
    <3> QED
      BY <3>3 DEF Gone
  <2>2. CASE o.kind # "solve"
    BY <1>2, <2>2
  <2> QED
    BY <2>1, <2>2
<1>5. o.local \in DOMAIN rows'
  BY <1>1, <1>3, <1>4 DEF Merged, Queued
<1>6. rows'[o.local] = rows[o.local]
  BY <1>1, <1>3, <1>5 DEF Merged
<1> QED
  BY <1>3, <1>4, <1>5, <1>6 DEF Queued

LEMMA QueuedMerges ==
  ASSUME Plain, TypeInv, LinkInv, TurnInv, OutboxInv, NEW page, Merges(page), NEW o \in Range(outbox')
  PROVE  Queued(o)'
<1>1. /\ o \in Range(outbox) /\ o.local \in DOMAIN rows' /\ rows'[o.local] = rows[o.local]
  BY DirtyStays
<1>2. Queued(o) /\ Range(outbox') \subseteq Range(outbox)
  BY <1>1, DirtyStays DEF OutboxInv
<1>3. o.id \notin DOMAIN receipts /\ UNCHANGED receipts
  BY <1>1, MergesIn DEF TurnInv, Merges, account
<1> QED
  BY <1>1, <1>2, <1>3 DEF Queued

LEMMA QueuedQueues ==
  ASSUME TypeInv, ReceiptInv, OutboxInv, NEW op, NEW kept, Queues(op, kept), NEW o \in Range(outbox')
  PROVE  Queued(o)'
<1>0. Range(outbox') = Range(kept) \cup {op} /\ Range(kept) \subseteq Range(outbox)
  BY QueuedOf
<1>a. op.id = ops + 1 /\ UNCHANGED <<cursor, receipts, change>>
  BY DEF Queues, account
<1>b. /\ ops \in Nat /\ DOMAIN receipts \subseteq 1..ops
      /\ Len(server) \in Nat /\ DOMAIN rows \subseteq Names(ops, Len(server))
  BY Fits DEF TypeInv, AccountT, RowsT
<1>1. /\ Range(outbox') = Range(kept) \cup {op} /\ Range(kept) \subseteq Range(outbox)
      /\ op.id = ops + 1 /\ ops \in Nat /\ DOMAIN receipts \subseteq 1..ops
      /\ UNCHANGED <<cursor, receipts, change>> /\ Len(server) \in Nat /\ DOMAIN rows \subseteq Names(ops, Len(server))
  BY <1>0, <1>a, <1>b
<1>2. /\ op.local \in DOMAIN rows'
      /\ \A x \in DOMAIN rows :
           /\ x \in DOMAIN rows' /\ rows'[x].sid = rows[x].sid /\ (rows[x].deleted => rows'[x].deleted)
      /\ IF op.kind = "solve"
         THEN /\ op.local = -op.id /\ DOMAIN rows' = DOMAIN rows \cup {op.local} /\ op.local \notin DOMAIN rows
              /\ rows'[op.local].sid = 0
         ELSE /\ DOMAIN rows' = DOMAIN rows /\ ~rows[op.local].deleted
              /\ op.kind = "delete" => rows'[op.local].deleted
  BY DEF Queues
<1>3. CASE o = op
  <2>1. o.id \notin DOMAIN receipts
    BY <1>1, <1>3
  <2>2. o.kind # "solve" => o.local # -o.id
    <3>1. o.kind # "solve" => o.local \in Names(ops, Len(server))
      BY <1>1, <1>2, <1>3
    <3> QED
      BY <1>1, <1>3, <3>1 DEF Names
  <2>3. \A p \in Range(outbox') : ~(p.id > o.id)
    <3>1. \A p \in Range(outbox) : p.id \in 1..ops
      BY OutboxOf
    <3> QED
      BY <1>1, <1>3, <3>1
  <2> QED
    BY <1>1, <1>2, <1>3, <2>1, <2>2, <2>3 DEF Queued
<1>4. CASE o \in Range(outbox)
  <2>1. Queued(o)
    BY <1>4 DEF OutboxInv
  <2>2. o.local \in DOMAIN rows /\ o.local \in DOMAIN rows' /\ rows'[o.local].sid = rows[o.local].sid
    BY <1>2, <2>1 DEF Queued
  <2>3. ASSUME o.kind = "delete", NEW p \in Range(outbox'), p.id > o.id PROVE p.local # o.local
    <3>1. CASE p \in Range(outbox)
      BY <2>1, <2>3, <3>1 DEF Queued
    <3>2. CASE p = op
      <4>1. rows[o.local].deleted
        BY <2>1, <2>3 DEF Queued
      <4> QED
        BY <1>2, <2>2, <3>2, <4>1
    <3> QED
      BY <1>1, <3>1, <3>2
  <2>4. ASSUME o.kind = "solve", o.id \in DOMAIN receipts, NEW x \in DOMAIN rows' PROVE rows'[x].sid # receipts[o.id]
    <3>1. receipts[o.id] # 0
      BY <1>4, <2>4 DEF ReceiptInv
    <3>2. CASE x \in DOMAIN rows
      BY <1>2, <2>1, <2>4, <3>2 DEF Queued
    <3>3. CASE x \notin DOMAIN rows
      <4>1. rows'[x].sid = 0
        BY <1>2, <3>3
      <4> QED
        BY <3>1, <4>1
    <3> QED
      BY <3>2, <3>3
  <2>5. o.kind = "delete" => rows'[o.local].deleted
    BY <1>2, <2>1, <2>2 DEF Queued
  <2> QED
    BY <1>1, <2>1, <2>2, <2>3, <2>4, <2>5 DEF Queued
<1> QED
  BY <1>1, <1>3, <1>4

LEMMA OutboxNext ==
  ASSUME Plain, TypeInv, OwnInv, ReceiptInv, FeedInv, LinkInv, TurnInv, OutboxInv, [Next]_vars
  PROVE  OutboxInv'
<1> SUFFICES ASSUME NEW o \in Range(outbox') PROVE Queued(o)'
  BY DEF OutboxInv
<1>1. CASE Quiet \/ Told \/ \E req : Serves(req) \/ Sends(req)
  <2>1. UNCHANGED <<rows, outbox, cursor>>
    BY <1>1 DEF Quiet, Told, Serves, Sends
  <2>2. \A q \in Range(outbox') : \E p \in Range(outbox) : Alike(q, p)
    BY <2>1 DEF Alike
  <2> QED
    BY <2>1, <2>2, QueuedStays
<1>2. CASE Marks
  <2>1. UNCHANGED <<rows, cursor>>
    BY <1>2 DEF Marks
  <2>2. \A q \in Range(outbox') : \E p \in Range(outbox) : Alike(q, p)
    BY <1>2, MarkedOf DEF Alike
  <2> QED
    BY <2>1, <2>2, QueuedStays
<1> QED
  BY <1>1, <1>2, QueuedAcks, QueuedMerges, QueuedQueues, NextIs

-----------------------------------------------------------------------------
(* The device's copy of the account.                                       *)

LEMMA CopyStays ==
  ASSUME TypeInv, OwnInv, FeedInv, CopyInv, [Next]_vars, UNCHANGED <<rows, cursor>>,
         \A p \in Range(outbox) : \E o \in Range(outbox') : Alike(o, p)
  PROVE  CopyInv'
<1>1. /\ cursor \in Nat /\ cursor <= seq /\ seq \in Nat /\ Made = 1..Len(server) /\ Len(server) \in Nat
      /\ \A x \in DOMAIN rows : rows[x].sid \in 0..Len(server)
  BY Fits DEF FeedInv, TypeInv, AccountT, RowsT
<1>2. NoTwins'
  BY DEF CopyInv, NoTwins
<1>3. ASSUME NEW x \in DOMAIN rows, NEW s \in Made', s = rows[x].sid, server'[s].gone PROVE change'[s] > cursor
  <2>1. s \in Made
    <3>1. s # 0
      BY <1>3, NextTypes, Fits DEF TypeInv, Made, AccountT
    <3> QED
      BY <1>1, <1>3, <3>1
  <2>2. CASE server'[s] = server[s] /\ change'[s] = change[s]
    BY <1>3, <2>1, <2>2 DEF CopyInv, DeletionWins
  <2>3. CASE seq < change'[s]
    <3>1. change'[s] \in Nat
      BY <2>1, Numbers
    <3> QED
      BY <1>1, <2>3, <3>1
  <2> QED
    BY <2>1, <2>2, <2>3, Numbers
<1>4. DeletionWins'
  BY <1>3 DEF DeletionWins
<1>5. ASSUME NEW x \in DOMAIN rows, rows[x].sid = 0 PROVE \E o \in Range(outbox') : o.kind = "solve" /\ o.local = x
  <2>1. PICK p \in Range(outbox) : p.kind = "solve" /\ p.local = x
    BY <1>5 DEF CopyInv
  <2> QED
    BY <2>1 DEF Alike
<1>6. Dirty \subseteq Dirty'
  BY DEF Dirty, Alike
<1>7. ASSUME NEW s \in Made', change'[s] <= cursor, ~server'[s].gone PROVE Held(s)'
  <2>1. change'[s] \in Nat /\ ~(seq < change'[s])
    <3>1. change'[s] \in Nat
      BY Numbers
    <3> QED
      BY <1>1, <1>7, <3>1
  <2>2. s \in Made /\ server'[s] = server[s] /\ change'[s] = change[s]
    BY <2>1, Numbers
  <2>3. Held(s)
    BY <1>7, <2>2 DEF CopyInv
  <2> QED
    BY <1>6, <2>2, <2>3 DEF Held
<1> QED
  BY <1>2, <1>4, <1>5, <1>7 DEF CopyInv

LEMMA CopyQueues ==
  ASSUME TypeInv, CopyInv, NEW op, NEW kept, Queues(op, kept)
  PROVE  CopyInv'
<1>1. /\ UNCHANGED <<cursor, server, change>> /\ Made' = Made
      /\ op.local \in DOMAIN rows'
      /\ \A x \in DOMAIN rows : x \in DOMAIN rows' /\ rows'[x].sid = rows[x].sid /\ (x # op.local => rows'[x] = rows[x])
      /\ \A x \in DOMAIN rows' : x \in DOMAIN rows \/ (op.kind = "solve" /\ x = op.local /\ rows'[x].sid = 0)
  BY DEF Queues, account, Made
<1>2. op \in Range(outbox')
  BY QueuedOf
<1>3. Made = 1..Len(server) /\ Len(server) \in Nat
  BY Fits DEF TypeInv
<1>4. NoTwins'
  BY <1>1 DEF CopyInv, NoTwins
<1>5. DeletionWins'
  <2> SUFFICES ASSUME NEW x \in DOMAIN rows', rows'[x].sid \in Made, server[rows'[x].sid].gone
               PROVE  change[rows'[x].sid] > cursor
    BY <1>1 DEF DeletionWins
  <2>1. rows'[x].sid # 0
    BY <1>3
  <2>2. x \in DOMAIN rows /\ rows'[x].sid = rows[x].sid
    BY <1>1, <2>1
  <2> QED
    BY <2>2 DEF CopyInv, DeletionWins
<1>6. ASSUME NEW x \in DOMAIN rows', rows'[x].sid = 0 PROVE \E o \in Range(outbox') : o.kind = "solve" /\ o.local = x
  <2>1. CASE x \in DOMAIN rows
    <3>1. PICK p \in Range(outbox) : p.kind = "solve" /\ p.local = x
      BY <1>1, <1>6, <2>1 DEF CopyInv
    <3> QED
      BY <3>1, QueuesKeeps
  <2>2. CASE x \notin DOMAIN rows
    BY <1>1, <1>2, <2>2
  <2> QED
    BY <2>1, <2>2
<1>7. ASSUME NEW s \in Made, change[s] <= cursor, ~server[s].gone PROVE Held(s)'
  <2>1. PICK x \in DOMAIN rows : rows[x].sid = s /\ (x \in Dirty \/ (rows[x].val = server[s].val /\ ~rows[x].deleted))
    BY <1>7 DEF CopyInv, Held
  <2>2. x \in DOMAIN rows' /\ rows'[x].sid = s
    BY <1>1, <2>1
  <2>3. CASE x = op.local
    <3>1. x \in Dirty'
      BY <1>2, <2>3 DEF Dirty
    <3> QED
      BY <2>2, <3>1 DEF Held
  <2>4. CASE x # op.local
    <3>1. rows'[x] = rows[x]
      BY <1>1, <2>4
    <3>2. x \in Dirty => x \in Dirty'
      BY <2>4, QueuesKeeps DEF Dirty
    <3> QED
      BY <1>1, <2>1, <2>2, <3>1, <3>2 DEF Held
  <2> QED
    BY <2>3, <2>4
<1> QED
  BY <1>1, <1>4, <1>5, <1>6, <1>7 DEF CopyInv

\* A row acknowledged stays as it is, or gets the solve the server made of it.
LEMMA AckNames ==
  ASSUME TypeInv, OwnInv, ReceiptInv, TurnInv, OutboxInv, Acks, NEW x \in DOMAIN rows'
  PROVE  /\ x \in DOMAIN rows
         /\ \/ rows'[x] = rows[x] /\ \A w \in Range(wire.req) : w.kind = "solve" => w.local # x
            \/ /\ rows[x].sid = 0
               /\ \E r \in Made : /\ rows'[x].sid = r /\ server[r].by = -x /\ x \in Int /\ change[r] > cursor
                                  /\ \A y \in DOMAIN rows : rows[y].sid # r
<1>1. AckPush /\ sync.phase = "push"
  BY DEF Acks, AckPush
<1>2. /\ x \in DOMAIN rows
      /\ \/ /\ \E w \in Range(wire.req) : w.kind = "solve" /\ w.local = x
            /\ x < 0 /\ -x \in DOMAIN receipts /\ rows'[x] = [rows[x] EXCEPT !.sid = receipts[-x]]
         \/ (\A w \in Range(wire.req) : w.kind = "solve" => w.local # x) /\ rows'[x] = rows[x]
  BY <1>1, AckIs
<1>3. ASSUME NEW w \in Range(wire.req), w.kind = "solve", w.local = x, -x \in DOMAIN receipts,
             rows'[x] = [rows[x] EXCEPT !.sid = receipts[-x]]
      PROVE  /\ rows[x].sid = 0
             /\ \E r \in Made : /\ rows'[x].sid = r /\ server[r].by = -x /\ x \in Int /\ change[r] > cursor
                                /\ \A y \in DOMAIN rows : rows[y].sid # r
  <2>1. w \in Flying /\ w.local = -w.id /\ w.id \in 1..ops /\ ops \in Nat
    <3>1. w \in Flying
      BY RequestFlies
    <3>2. ops \in Nat
      BY SyncAssumption DEF TypeInv, AccountT
    <3> QED
      BY <1>3, <3>1, <3>2, FlyingOf
  <2>2. PICK o \in Range(outbox) : o.id = w.id
    BY <1>1, <1>3 DEF TurnInv
  <2>3. o.kind = "solve" /\ o.local = x
    BY <1>3, <2>1, <2>2 DEF OwnInv
  <2>4. w.id = -x /\ x \in Int /\ ~(x > 0)
    BY <1>3, <2>1
  <2>5. PICK r : r = receipts[w.id]
    OBVIOUS
  <2>6. Queued(o) /\ o.id \in DOMAIN receipts /\ r = receipts[o.id]
    BY <1>3, <2>2, <2>4, <2>5 DEF OutboxInv
  <2>7. r # 0 /\ Owns(o.local, r)
    BY <2>3, <2>6 DEF ReceiptInv
  <2>8. r \in Made
    BY <2>6, <2>7 DEF TypeInv, AccountT
  <2>9. server[r].by = -x
    BY <2>3, <2>4, <2>7 DEF Owns
  <2>10. rows'[x].sid = r
    <3>1. rows[x] \in Row
      BY <1>2 DEF TypeInv, RowsT
    <3> QED
      BY <1>3, <2>4, <2>5, <3>1 DEF Row
  <2>11. change[r] > cursor /\ rows[x].sid = 0 /\ \A y \in DOMAIN rows : rows[y].sid # r
    BY <2>3, <2>6, <2>7 DEF Queued
  <2> QED
    BY <2>4, <2>8, <2>9, <2>10, <2>11
<1> QED
  BY <1>2, <1>3

\* The solve of a row whose acknowledged operation says it is gone is.
LEMMA AckOf ==
  ASSUME TypeInv, OwnInv, ReceiptInv, TurnInv, OutboxInv, Acks, NEW x \in DOMAIN rows, NEW s \in Made, rows[x].sid = s,
         NEW w \in Range(wire.req), w.local = x
  PROVE  /\ w.kind # "solve"
         /\ server[s].gone \/ (w.kind = "edit" /\ \A o \in Range(outbox) : o.id = w.id => change[s] > cursor)
<1>1. AckPush /\ sync.phase = "push" /\ wire.state = "answered"
  BY DEF Acks, AckPush
<1>2. w \in Flying /\ w.local \in Int \ {0} /\ w.kind \in {"solve", "edit", "delete"} /\ Made = 1..Len(server) /\ Len(server) \in Nat
  BY RequestFlies, FlyingOf, Fits DEF Request, TypeInv
<1>3. w.kind # "solve"
  <2>1. ASSUME w.kind = "solve" PROVE FALSE
    <3>1. PICK o \in Range(outbox) : o.id = w.id
      BY <1>1, <2>1 DEF TurnInv
    <3>2. o.kind = "solve" /\ o.local = x
      BY <1>2, <2>1, <3>1 DEF OwnInv
    <3>3. rows[x].sid = 0
      BY <3>1, <3>2 DEF OutboxInv, Queued
    <3> QED
      BY <1>2, <3>3
  <2> QED
    BY <2>1
<1>4. w.id \in DOMAIN receipts
  <2>1. PICK i \in DOMAIN wire.req : w = wire.req[i]
    BY DEF Range
  <2> QED
    BY <1>1, <2>1 DEF TypeInv, SyncT
<1>5. Owns(x, s)
  BY <1>2 DEF OwnInv
<1>6. CASE receipts[w.id] = 0 \/ w.kind = "delete"
  <2>1. PICK t \in Made : Owns(w.local, t) /\ server[t].gone
    BY <1>2, <1>3, <1>4, <1>6 DEF ReceiptInv
  <2> QED
    BY <1>2, <1>3, <1>5, <2>1, OneOwner
<1>7. CASE receipts[w.id] # 0 /\ w.kind = "edit"
  <2>1. PICK r : r = receipts[w.id]
    OBVIOUS
  <2>2. Owns(w.local, r) /\ r \in Made
    BY <1>2, <1>4, <1>7, <2>1 DEF ReceiptInv, TypeInv, AccountT
  <2>3. r = s
    BY <1>2, <1>5, <2>2, OneOwner
  <2>4. ASSUME NEW o \in Range(outbox), o.id = w.id PROVE change[s] > cursor
    BY <1>4, <1>7, <2>1, <2>3, <2>4 DEF OutboxInv, Queued
  <2> QED
    BY <1>3, <1>7, <2>4
<1> QED
  BY <1>2, <1>3, <1>6, <1>7

LEMMA CopyAcks ==
  ASSUME TypeInv, OwnInv, ReceiptInv, FeedInv, TurnInv, OutboxInv, CopyInv, Acks
  PROVE  CopyInv'
<1> DEFINE R == Range(wire.req)
<1>1. /\ UNCHANGED <<cursor, server, change>> /\ Made' = Made /\ AckPush /\ Made = 1..Len(server) /\ Len(server) \in Nat
      /\ change \in [Made -> Nat] /\ cursor \in Nat
  BY Fits DEF Acks, account, Made, TypeInv, AccountT
<1>2. /\ DOMAIN rows' = DOMAIN rows \ {w.local : w \in {w \in R : w.kind = "delete"}}
      /\ outbox' = LeftAfter(wire.req)
  BY <1>1, AckIs
<1>3. Range(outbox') = Range(outbox) \cap {p \in Range(outbox) : p.id \notin {w.id : w \in R}}
  BY <1>2, KeptOf DEF LeftAfter
<1>4. NoTwins'
  <2> SUFFICES ASSUME NEW x \in DOMAIN rows', NEW y \in DOMAIN rows', x # y, rows'[x].sid # 0
               PROVE  rows'[x].sid # rows'[y].sid
    BY DEF NoTwins
  <2>1. x \in DOMAIN rows /\ y \in DOMAIN rows
    BY AckNames
  <2>2. CASE rows'[x] = rows[x] /\ rows'[y] = rows[y]
    BY <2>1, <2>2 DEF CopyInv, NoTwins
  <2>3. ASSUME NEW r \in Made, rows'[x].sid = r, server[r].by = -x, x \in Int, \A z \in DOMAIN rows : rows[z].sid # r
        PROVE  rows'[x].sid # rows'[y].sid
    <3>1. CASE rows'[y] = rows[y]
      BY <2>1, <2>3, <3>1
    <3>2. ASSUME NEW t \in Made, rows'[y].sid = t, server[t].by = -y, y \in Int PROVE rows'[x].sid # rows'[y].sid
      BY <2>3, <3>2
    <3> QED
      BY <3>1, <3>2, AckNames
  <2>4. ASSUME NEW r \in Made, rows'[y].sid = r, \A z \in DOMAIN rows : rows[z].sid # r, rows'[x] = rows[x]
        PROVE  rows'[x].sid # rows'[y].sid
    BY <2>1, <2>4
  <2> QED
    BY <2>2, <2>3, <2>4, AckNames
<1>5. DeletionWins'
  <2> SUFFICES ASSUME NEW x \in DOMAIN rows', rows'[x].sid \in Made, server[rows'[x].sid].gone
               PROVE  change[rows'[x].sid] > cursor
    BY <1>1 DEF DeletionWins
  <2>1. CASE x \in DOMAIN rows /\ rows'[x] = rows[x]
    BY <2>1 DEF CopyInv, DeletionWins
  <2> QED
    BY <2>1, AckNames
<1>6. ASSUME NEW x \in DOMAIN rows', rows'[x].sid = 0 PROVE \E o \in Range(outbox') : o.kind = "solve" /\ o.local = x
  <2>1. x \in DOMAIN rows /\ rows'[x] = rows[x] /\ \A w \in R : w.kind = "solve" => w.local # x
    BY <1>1, <1>6, AckNames
  <2>2. PICK p \in Range(outbox) : p.kind = "solve" /\ p.local = x
    BY <1>6, <2>1 DEF CopyInv
  <2>3. \A w \in R : w.id # p.id
    BY <2>1, <2>2, RequestFlies DEF OwnInv
  <2> QED
    BY <1>3, <2>2, <2>3
<1>7. ASSUME NEW s \in Made, change[s] <= cursor, ~server[s].gone PROVE Held(s)'
  <2>1. PICK x \in DOMAIN rows : rows[x].sid = s /\ (x \in Dirty \/ (rows[x].val = server[s].val /\ ~rows[x].deleted))
    BY <1>7 DEF CopyInv, Held
  <2>2. \A w \in R : w.local = x => w.kind = "edit" /\ \A o \in Range(outbox) : o.id # w.id
    <3>1. ~(change[s] > cursor)
      BY <1>1, <1>7
    <3> QED
      BY <1>7, <2>1, <3>1, AckOf
  <2>3. x \in DOMAIN rows'
    BY <1>2, <2>2
  <2>4. rows'[x] = rows[x]
    BY <1>1, <2>1, <2>3, AckNames
  <2>5. ASSUME NEW o \in Range(outbox), o.local = x PROVE o \in Range(outbox')
    <3>1. \A w \in R : w.id # o.id
      BY <2>2, <2>5, RequestFlies DEF OwnInv
    <3> QED
      BY <1>3, <3>1
  <2>6. x \in Dirty => x \in Dirty'
    BY <2>5 DEF Dirty
  <2> QED
    BY <1>1, <2>1, <2>3, <2>4, <2>6 DEF Held
<1> QED
  BY <1>1, <1>4, <1>5, <1>6, <1>7 DEF CopyInv

\* The row of a solve of the server, and the solve of a row.
LEMMA RowOf ==
  ASSUME TypeInv, NoTwins, NEW s \in Made
  PROVE  /\ \A x \in DOMAIN rows : rows[x].sid = s <=> LocalId(s) = x
         /\ \A t \in Made : LocalId(t) = LocalId(s) => t = s
<1>1. /\ Made = 1..Len(server) /\ Len(server) \in Nat
      /\ \A x \in DOMAIN rows : x \in Int \ {0} /\ (x > 0 => rows[x].sid = x)
  <2>1. Made = 1..Len(server) /\ Len(server) \in Nat /\ ops \in Nat
    BY Fits, SyncAssumption DEF TypeInv, AccountT
  <2>2. Names(ops, Len(server)) \subseteq Int \ {0}
    BY <2>1 DEF Names
  <2> QED
    BY <2>1, <2>2 DEF TypeInv, RowsT
<1>2. ASSUME NEW x \in DOMAIN rows, rows[x].sid = s PROVE LocalId(s) = x
  <2>1. s \in Nat /\ s > 0
    BY <1>1
  <2>2. CASE LocalId(s) \in DOMAIN rows /\ LocalId(s) < 0 /\ rows[LocalId(s)].sid = s
    BY <1>2, <2>1, <2>2 DEF NoTwins
  <2>3. CASE LocalId(s) = s /\ \A y \in DOMAIN rows : y < 0 => rows[y].sid # s
    <3>1. ~(x < 0)
      BY <1>2, <2>3
    <3>2. x > 0
      BY <1>1, <3>1
    <3> QED
      BY <1>1, <1>2, <2>3, <3>2
  <2> QED
    BY <2>1, <2>2, <2>3, LocalIs
<1>3. ASSUME NEW x \in DOMAIN rows, LocalId(s) = x PROVE rows[x].sid = s
  <2>1. s \in Nat /\ s > 0
    BY <1>1
  <2>2. CASE LocalId(s) = s
    BY <1>1, <1>3, <2>1, <2>2
  <2> QED
    BY <1>3, <2>1, <2>2, LocalIs
<1>4. ASSUME NEW t \in Made, LocalId(t) = LocalId(s) PROVE t = s
  <2>1. s \in Nat /\ s > 0 /\ t \in Nat /\ t > 0
    BY <1>1
  <2>2. CASE LocalId(s) \in DOMAIN rows /\ LocalId(s) < 0 /\ rows[LocalId(s)].sid = s
    <3>1. LocalId(t) # t
      <4>1. ~(LocalId(t) > 0)
        BY <1>1, <1>4, <2>2
      <4> QED
        BY <2>1, <4>1
    <3> QED
      BY <1>4, <2>1, <2>2, <3>1, LocalIs
  <2>3. CASE LocalId(s) = s
    <3>1. ~(LocalId(t) < 0)
      BY <1>4, <2>1, <2>3
    <3>2. LocalId(t) = t
      BY <2>1, <3>1, LocalIs
    <3> QED
      BY <1>4, <2>3, <3>2
  <2> QED
    BY <2>1, <2>2, <2>3, LocalIs
<1> QED
  BY <1>2, <1>3, <1>4

\* A row after a merge is as it was, or as the page has it.
LEMMA MergedRow ==
  ASSUME TypeInv, CopyInv, NEW page, Merges(page), NEW x \in DOMAIN rows'
  PROVE  /\ \A s \in DOMAIN page.solves : page.solves[s].gone => LocalId(s) # x
         /\ \/ /\ x \in DOMAIN rows /\ rows'[x] = rows[x]
               /\ \A s \in DOMAIN page.solves : page.solves[s].gone \/ LocalId(s) # x \/ x \in Dirty
            \/ \E s \in DOMAIN page.solves :
                 /\ s \in Made /\ ~page.solves[s].gone /\ LocalId(s) = x /\ x \notin Dirty
                 /\ rows'[x] = [sid |-> s, val |-> page.solves[s].val, deleted |-> FALSE]
         /\ \A s \in Made : rows'[x].sid = s => LocalId(s) = x
<1>1. Merged(page) /\ DOMAIN page.solves \subseteq Made /\ NoTwins
  BY Fits DEF Merges, Paged, TypeInv, CopyInv
<1>2. x \notin Gone(page)
  BY <1>1 DEF Merged
<1>3. \A s \in DOMAIN page.solves : page.solves[s].gone => LocalId(s) # x
  BY <1>2 DEF Gone
<1>4. \/ /\ x \in DOMAIN rows /\ rows'[x] = rows[x]
         /\ \A s \in DOMAIN page.solves : page.solves[s].gone \/ LocalId(s) # x \/ x \in Dirty
      \/ \E s \in DOMAIN page.solves :
           /\ s \in Made /\ ~page.solves[s].gone /\ LocalId(s) = x /\ x \notin Dirty
           /\ rows'[x] = [sid |-> s, val |-> page.solves[s].val, deleted |-> FALSE]
  BY <1>1 DEF Merged
<1>5. ASSUME NEW s \in Made, rows'[x].sid = s PROVE LocalId(s) = x
  <2>1. CASE x \in DOMAIN rows /\ rows'[x] = rows[x]
    BY <1>1, <1>5, <2>1, RowOf
  <2>2. ASSUME NEW t \in DOMAIN page.solves, LocalId(t) = x, 
               rows'[x] = [sid |-> t, val |-> page.solves[t].val, deleted |-> FALSE]
        PROVE  LocalId(s) = x
    BY <1>5, <2>2
  <2> QED
    BY <1>4, <2>1, <2>2
<1> QED
  BY <1>3, <1>4, <1>5

\* What a page merged says of the account.
LEMMA MergedPage ==
  ASSUME TypeInv, FeedInv, NEW page, Merges(page)
  PROVE  /\ cursor' = page.cursor /\ DOMAIN page.solves \subseteq Made
         /\ \A s \in Made : change[s] <= page.cursor =>
              /\ s \in DOMAIN page.solves => page.solves[s] = server[s]
              /\ s \notin DOMAIN page.solves => change[s] <= cursor
<1>1. /\ Merged(page) /\ DOMAIN page.solves \subseteq Made /\ page.after \in Nat /\ cursor \in Nat
      /\ change \in [Made -> Nat]
  BY Fits DEF Merges, Paged, TypeInv, AccountT
<1>2. Tells(page) /\ page.after <= cursor
  <2>1. page.after <= cursor
    BY <1>1 DEF Merges, FeedInv
  <2> QED
    BY <2>1 DEF Merges, FeedInv
<1>3. ASSUME NEW s \in Made, change[s] <= page.cursor, s \notin DOMAIN page.solves PROVE change[s] <= cursor
  <2>1. ~(change[s] > page.after) /\ change[s] \in Nat
    BY <1>1, <1>2, <1>3 DEF Tells
  <2> QED
    BY <1>1, <1>2, <2>1
<1> QED
  BY <1>1, <1>2, <1>3 DEF Merged, Tells

\* A solve told of is held by its row: as told, or as it was with operations queued.
LEMMA HeldTold ==
  ASSUME TypeInv, OutboxInv, CopyInv, NEW page, Merges(page), NEW s \in DOMAIN page.solves, s \in Made,
         page.solves[s] = server[s], ~server[s].gone, DOMAIN page.solves \subseteq Made
  PROVE  Held(s)'
<1>1. Merged(page) /\ NoTwins /\ server' = server
  BY DEF Merges, account, CopyInv
<1>2. PICK x : x = LocalId(s)
  OBVIOUS
<1>3. x \notin Gone(page)
  <2>1. ASSUME NEW t \in DOMAIN page.solves, page.solves[t].gone, LocalId(t) = x PROVE FALSE
    <3>1. t = s
      BY <1>1, <1>2, <2>1, RowOf
    <3> QED
      BY <2>1, <3>1
  <2> QED
    BY <2>1 DEF Gone
<1>4. CASE x \notin Dirty
  <2>1. x \in DOMAIN rows'
    BY <1>1, <1>2, <1>3, <1>4 DEF Merged
  <2>2. PICK t \in DOMAIN page.solves :
          /\ LocalId(t) = x /\ rows'[x] = [sid |-> t, val |-> page.solves[t].val, deleted |-> FALSE]
    BY <1>2, <1>4, <2>1, MergedRow
  <2>3. t = s
    BY <1>1, <1>2, <2>2, RowOf
  <2>4. rows'[x].sid = s /\ rows'[x].val = server[s].val /\ ~rows'[x].deleted
    BY <2>2, <2>3
  <2> QED
    BY <1>1, <2>1, <2>4 DEF Held
<1>5. CASE x \in Dirty
  <2>1. PICK o \in Range(outbox) : o.local = x
    BY <1>5 DEF Dirty
  <2>2. o \in Range(outbox')
    <3>1. Range(outbox') = Range(outbox) \cap {p \in Range(outbox) : p.local \notin Gone(page) \/ p.kind = "solve"}
      BY <1>1, KeptOf DEF Merged
    <3> QED
      BY <1>3, <2>1, <3>1
  <2>3. x \in DOMAIN rows /\ x \in DOMAIN rows' /\ rows'[x] = rows[x]
    BY <2>1, <2>2, DirtyStays
  <2>4. rows[x].sid = s
    BY <1>1, <1>2, <2>3, RowOf
  <2>5. x \in Dirty'
    BY <2>1, <2>2 DEF Dirty
  <2> QED
    BY <2>3, <2>4, <2>5 DEF Held
<1> QED
  BY <1>4, <1>5

\* A solve the page does not tell of is held as it was.
LEMMA HeldUntold ==
  ASSUME TypeInv, CopyInv, NEW page, Merges(page), NEW s \in Made, s \notin DOMAIN page.solves, Held(s),
         DOMAIN page.solves \subseteq Made
  PROVE  Held(s)'
<1>1. Merged(page) /\ NoTwins /\ server' = server
  BY DEF Merges, account, CopyInv
<1>2. PICK x \in DOMAIN rows : rows[x].sid = s /\ (x \in Dirty \/ (rows[x].val = server[s].val /\ ~rows[x].deleted))
  BY DEF Held
<1>3. \A t \in DOMAIN page.solves : LocalId(t) # x
  BY <1>1, <1>2, RowOf
<1>4. x \notin Gone(page)
  BY <1>3 DEF Gone
<1>5. x \in DOMAIN rows'
  BY <1>1, <1>4 DEF Merged
<1>6. rows'[x] = rows[x]
  BY <1>3, <1>5, MergedRow
<1>7. x \in Dirty => x \in Dirty'
  <2>1. Range(outbox') = Range(outbox) \cap {p \in Range(outbox) : p.local \notin Gone(page) \/ p.kind = "solve"}
    BY <1>1, KeptOf DEF Merged
  <2> QED
    BY <1>4, <2>1 DEF Dirty
<1> QED
  BY <1>1, <1>2, <1>5, <1>6, <1>7 DEF Held

LEMMA CopyMerges ==
  ASSUME TypeInv, FeedInv, OutboxInv, CopyInv, NEW page, Merges(page)
  PROVE  CopyInv'
<1>1. /\ Merged(page) /\ NoTwins /\ UNCHANGED <<server, change>> /\ Made' = Made
      /\ Made = 1..Len(server) /\ Len(server) \in Nat /\ change \in [Made -> Nat] /\ cursor \in Nat
  BY Fits DEF Merges, account, CopyInv, Made, TypeInv, AccountT
<1>2. /\ cursor' = page.cursor /\ DOMAIN page.solves \subseteq Made /\ page.cursor \in Nat
      /\ \A s \in Made : change[s] <= page.cursor =>
           /\ s \in DOMAIN page.solves => page.solves[s] = server[s]
           /\ s \notin DOMAIN page.solves => change[s] <= cursor
  BY MergedPage DEF Merges, Paged
<1>3. \A x \in DOMAIN rows' : rows'[x].sid \in Made \cup {0}
  <2>1. \A x \in DOMAIN rows : rows[x].sid \in Made \cup {0}
    BY <1>1 DEF TypeInv, RowsT
  <2> QED
    BY <2>1, MergedRow
<1>4. NoTwins'
  BY <1>3, MergedRow DEF NoTwins
<1>5. DeletionWins'
  <2> SUFFICES ASSUME NEW x \in DOMAIN rows', NEW s \in Made, rows'[x].sid = s, server[s].gone
               PROVE  change[s] > page.cursor
    BY <1>1, <1>2 DEF DeletionWins
  <2>1. LocalId(s) = x /\ change[s] \in Nat
    BY <1>1, MergedRow
  <2>2. ASSUME change[s] <= page.cursor PROVE FALSE
    <3>1. s \notin DOMAIN page.solves
      BY <1>2, <2>1, <2>2, MergedRow
    <3>2. x \in DOMAIN rows /\ rows'[x] = rows[x]
      BY <3>1, MergedRow
    <3>3. change[s] > cursor
      BY <3>2 DEF CopyInv, DeletionWins
    <3>4. change[s] <= cursor
      BY <1>2, <2>2, <3>1
    <3> QED
      BY <1>1, <2>1, <3>3, <3>4
  <2> QED
    BY <1>2, <2>1, <2>2
<1>6. ASSUME NEW x \in DOMAIN rows', rows'[x].sid = 0 PROVE \E o \in Range(outbox') : o.kind = "solve" /\ o.local = x
  <2>1. x \in DOMAIN rows /\ rows'[x] = rows[x]
    BY <1>1, <1>6, MergedRow
  <2>2. PICK p \in Range(outbox) : p.kind = "solve" /\ p.local = x
    BY <1>6, <2>1 DEF CopyInv
  <2>3. Range(outbox') = Range(outbox) \cap {o \in Range(outbox) : o.local \notin Gone(page) \/ o.kind = "solve"}
    BY <1>1, KeptOf DEF Merged
  <2> QED
    BY <2>2, <2>3
<1>7. ASSUME NEW s \in Made, change[s] <= page.cursor, ~server[s].gone PROVE Held(s)'
  <2>1. CASE s \in DOMAIN page.solves
    BY <1>2, <1>7, <2>1, HeldTold
  <2>2. CASE s \notin DOMAIN page.solves
    <3>1. Held(s)
      BY <1>2, <1>7, <2>2 DEF CopyInv
    <3> QED
      BY <1>2, <2>2, <3>1, HeldUntold
  <2> QED
    BY <2>1, <2>2
<1> QED
  BY <1>1, <1>2, <1>4, <1>5, <1>6, <1>7 DEF CopyInv

LEMMA CopyNext ==
  ASSUME TypeInv, OwnInv, ReceiptInv, FeedInv, TurnInv, OutboxInv, CopyInv, [Next]_vars
  PROVE  CopyInv'
<1>1. CASE Quiet \/ Told \/ \E req : Serves(req) \/ Sends(req)
  <2>1. UNCHANGED <<rows, outbox, cursor>>
    BY <1>1 DEF Quiet, Told, Serves, Sends
  <2>2. \A p \in Range(outbox) : \E o \in Range(outbox') : Alike(o, p)
    BY <2>1 DEF Alike
  <2> QED
    BY <2>1, <2>2, CopyStays
<1>2. CASE Marks
  <2>1. UNCHANGED <<rows, cursor>>
    BY <1>2 DEF Marks
  <2>2. \A p \in Range(outbox) : \E o \in Range(outbox') : Alike(o, p)
    BY <1>2, MarkedOf DEF Alike
  <2> QED
    BY <2>1, <2>2, CopyStays
<1> QED
  BY <1>1, <1>2, CopyAcks, CopyMerges, CopyQueues, NextIs

PlainInv == RefusedInv /\ FeedInv /\ LinkInv /\ TurnInv /\ OutboxInv /\ CopyInv

LEMMA PlainInit == Init => PlainInv
<1> SUFFICES ASSUME Init PROVE PlainInv
  OBVIOUS
<1>1. /\ rows = <<>> /\ Range(outbox) = {} /\ Flying = {} /\ receipts = <<>> /\ server = <<>> /\ change = <<>>
      /\ seq = 0 /\ cursor = 0 /\ sync = Idle /\ wire = NoWire /\ stream = <<>> /\ again = FALSE
      /\ socket = NoSocket
  BY NothingAtFirst DEF Init
<1>2. /\ Made = {} /\ DOMAIN rows = {} /\ DOMAIN stream = {} /\ DOMAIN receipts = {}
      /\ sync.phase = "idle" /\ wire.state = "none" /\ wire.page = NoPage /\ wire.req = <<>>
      /\ socket.delivered = 0 /\ ~socket.open
  BY <1>1 DEF Made, Idle, NoWire, NoSocket
<1>3. RefusedInv
  BY RefusedInit
<1>4. FeedInv
  <2>1. Pages = {NoPage} /\ NoPage.after = 0 /\ NoPage.cursor = 0
    BY <1>2 DEF Pages, NoPage
  <2>2. Tells(NoPage)
    BY <1>1, <1>2, <2>1 DEF Tells
  <2> QED
    BY <1>1, <1>2, <2>1, <2>2 DEF FeedInv
<1>5. LinkInv
  BY <1>1, <1>2 DEF LinkInv
<1>6. TurnInv
  BY <1>1, <1>2 DEF TurnInv, Merging
<1>7. OutboxInv /\ CopyInv
  BY <1>1, <1>2 DEF OutboxInv, CopyInv, NoTwins, DeletionWins
<1> QED
  BY <1>3, <1>4, <1>5, <1>6, <1>7 DEF PlainInv

LEMMA PlainNext ==
  ASSUME Plain, TypeInv, OwnInv, ReceiptInv, PlainInv, [Next]_vars
  PROVE  PlainInv'
<1>1. RefusedInv /\ FeedInv /\ LinkInv /\ TurnInv /\ OutboxInv /\ CopyInv
  BY DEF PlainInv
<1>2. RefusedInv' /\ FeedInv' /\ LinkInv'
  BY <1>1, RefusedNext, FeedNext, LinkNext
<1>3. TurnInv' /\ OutboxInv' /\ CopyInv'
  BY <1>1, TurnNext, OutboxNext, CopyNext
<1> QED
  BY <1>2, <1>3 DEF PlainInv

\* What the device has is known, with one transport at a time and a server that answers.
LEMMA AlwaysCopies == ASSUME Plain PROVE Spec => [](TypeInv /\ PlainInv)
<1>1. Init => PlainInv
  BY PlainInit
<1>2. (TypeInv /\ OwnInv /\ ReceiptInv) /\ PlainInv /\ [Next]_vars => PlainInv'
  BY PlainNext
<1> QED
  BY <1>1, <1>2, AlwaysOwns, PTL DEF Spec

LEMMA TypeInvOK == ASSUME TypeInv PROVE TypeOK
<1>1. /\ Len(server) \in Nat /\ Len(server) <= MaxOps + MaxAdd /\ Made = 1..Len(server) /\ ops \in 0..MaxOps
      /\ MaxOps \in Nat /\ MaxAdd \in Nat
  BY Fits, SyncAssumption DEF TypeInv, AccountT
<1>2. DOMAIN rows \subseteq Local /\ \A x \in DOMAIN rows : rows[x] \in Row
  <2>1. Names(ops, Len(server)) \subseteq Local
    BY <1>1, NamesLocal DEF TypeInv
  <2> QED
    BY <2>1 DEF TypeInv, RowsT
<1>3. outbox \in Seq(Operation) /\ cursor \in Nat /\ faults \in 0..MaxFaults
  BY DEF TypeInv, OutboxT
<1>4. server \in Seq(Stored) /\ change \in [Made -> Nat] /\ seq \in Nat /\ refused \in Refusals
  BY DEF TypeInv, AccountT
<1>5. DOMAIN receipts \subseteq Ops
  BY <1>1 DEF TypeInv, AccountT, Ops
<1>6. ASSUME NEW o \in DOMAIN receipts PROVE receipts[o] \in Sid \cup {0}
  <2>1. receipts[o] \in Made \cup {0}
    BY DEF TypeInv, AccountT
  <2> QED
    BY <1>1, <2>1 DEF Sid
<1>7. /\ sync.phase \in {"idle", "loop", "push", "pull"}
      /\ wire.state \in {"none", "sent", "answered", "error", "busy"}
      /\ (sync.phase \in {"push", "pull"}) <=> (wire.state # "none")
  BY DEF TypeInv, SyncT
<1>8. (sync.phase \in {"push", "pull"}) = (wire.state # "none")
  BY <1>7
<1>9. socket.delivered \in Nat /\ (live.on \/ socket.pending => socket.open)
  BY DEF TypeInv, LinkT
<1>10. Len(server) \in 0..(MaxOps + MaxAdd)
  BY <1>1
<1> QED
  BY <1>1, <1>2, <1>3, <1>4, <1>5, <1>6, <1>7, <1>8, <1>9, <1>10 DEF TypeOK

\* SolvesOnce: an echo of a solve made here finds the row it came from, so that each
\* solve is once on the device and once at the server.
THEOREM AlwaysOnce == ASSUME Plain PROVE Spec => []SolvesOnce
<1>1. TypeInv /\ PlainInv => SolvesOnce
  BY TypeInvOK DEF TypeInv, AccountT, PlainInv, CopyInv, SolvesOnce
<1> QED
  BY <1>1, AlwaysCopies, PTL

\* DeletionWins: a device past the change that deleted a solve does not list it.
THEOREM DeletionAlwaysWins == ASSUME Plain PROVE Spec => []DeletionWins
<1>1. TypeInv /\ PlainInv => DeletionWins
  BY DEF PlainInv, CopyInv
<1> QED
  BY <1>1, AlwaysCopies, PTL

\* Converged: with everything uploaded and every change read, the device mirrors the server.
THEOREM AlwaysConverges == ASSUME Plain PROVE Spec => []Converged
<1>1. ASSUME TypeInv, PlainInv, outbox = <<>>, cursor = seq PROVE Mirrors
  <2>1. /\ CopyInv /\ FeedInv /\ seq \in Nat /\ Made = 1..Len(server) /\ Len(server) \in Nat
        /\ \A x \in DOMAIN rows : rows[x].sid \in 0..Len(server)
    BY <1>1, Fits DEF PlainInv, TypeInv, AccountT, RowsT
  <2>2. Range(outbox) = {} /\ Dirty = {}
    BY <1>1 DEF Range, Dirty
  <2>3. \A s \in Made : change[s] \in Nat /\ change[s] <= cursor
    BY <1>1, <2>1 DEF FeedInv
  <2>4. \A s \in Made : ~server[s].gone =>
          \E x \in DOMAIN rows : rows[x].sid = s /\ rows[x].val = server[s].val /\ ~rows[x].deleted
    BY <2>1, <2>2, <2>3 DEF CopyInv, Held
  <2>5. ASSUME NEW x \in DOMAIN rows PROVE rows[x].sid \in Made /\ ~server[rows[x].sid].gone
    <3>1. rows[x].sid # 0
      BY <2>1, <2>2 DEF CopyInv
    <3>2. rows[x].sid \in Made
      BY <2>1, <3>1
    <3>3. ~(change[rows[x].sid] > cursor)
      BY <1>1, <2>1, <2>3, <3>2
    <3> QED
      BY <2>1, <3>2, <3>3 DEF CopyInv, DeletionWins
  <2> QED
    BY <2>4, <2>5 DEF Mirrors
<1>2. TypeInv /\ PlainInv => Converged
  BY <1>1 DEF Converged
<1> QED
  BY <1>2, AlwaysCopies, PTL

==============================================================================
