------------------------- MODULE PracticePage_proofs -------------------------
(***************************************************************************)
(* Proofs about PracticePage, for any contexts, attempts, moves and        *)
(* failures: what the page waits for is under way, what it shows is what   *)
(* the engine has, its timer starts what was asked, and each attempt is    *)
(* kept, once, with the scramble that its solve started on.                *)
(*                                                                         *)
(* StoreInv holds whatever fails.  SaveInv is of what is saved, as long as *)
(* no failure was told while other calls were under way.                   *)
(***************************************************************************)
EXTENDS PracticePage, SequenceTheorems, FiniteSetTheorems, TLAPS

\* The types of what the page and the engine hold.
Helds == {Nothing} \cup [rows : Seq(Nat)]
Queries == [context : Contexts, session : Nat]
Loadings == {Nothing} \cup [query : Queries, stale : BOOLEAN]
Pendings == {Nothing} \cup [key : Contexts, attempt : Nat]
Savers ==
  {IdleSaver} \cup
    [stage : {"session", "add", "after"}, key : Contexts, attempt : Nat,
     refresh : {"none", "loading", "queued", "done"}, retried : BOOLEAN]
Draws ==
  [what : {"next", "ahead"}, key : Contexts, live : BOOLEAN, by : {0} \cup SaverIds,
   after : SUBSET Contexts]
Attempts ==
  [key : Contexts, scramble : Nat, solving : Nat \cup {NoSolve}, dnf : BOOLEAN,
   saved : Nat, failed : BOOLEAN, left : BOOLEAN, stray : BOOLEAN]
Requests ==
  [kind : {"snapshot"}, query : Queries, known : Helds]
    \cup [kind : {"addSolve"}, by : SaverIds, attempt : Nat, session : Nat]
    \cup [kind : {"createSession"}, key : Contexts] \cup [kind : {"sync"}]

ScrambleTypes ==
  /\ shown \in Nat /\ kept \in [Contexts -> Nat] /\ ahead \in [Contexts -> Nat]
  /\ draws \subseteq Draws /\ generating \in BOOLEAN
SaveTypes ==
  /\ saving \in BOOLEAN /\ pendingSolve \in Pendings /\ savers \in [SaverIds -> Savers]
  /\ rows \in Seq(Seq(Nat)) /\ ids \in [Contexts -> {NoSession} \cup Sessions]
  /\ creating \subseteq Contexts
LoadTypes ==
  /\ loading \in Loadings /\ queued \in BOOLEAN /\ solves \in Seq(Nat) /\ known \in Helds
  /\ queued => loading # Nothing
  /\ loading # Nothing => loading.query.session \in {NoSession} \cup Sessions
PastTypes ==
  /\ tried \in Seq(Attempts) /\ solving \in Nat \cup {NoSolve}
  /\ disturbed \in BOOLEAN /\ missed \in BOOLEAN
  /\ pendingSolve # Nothing => pendingSolve.attempt \in DOMAIN tried
PageTypes ==
  /\ context \in Contexts
  /\ ScrambleTypes /\ SaveTypes /\ LoadTypes /\ PastTypes
  /\ requests \in Seq(Requests) /\ error \in BOOLEAN /\ bounds \in [moves : Nat, faults : Nat]

\* StartsFair needs them: an inspection is of a solve not started, a solve that runs is
\* none of its DNFs, and no timeout of another press is left.
Sound(t) ==
  /\ t \in Timer /\ FALSE \notin t.hold
  /\ t.inspected => t.phase \in {"inspecting", "holding", "ready"}
  /\ t.expiry <=> t.inspected
  /\ t.phase = "running" => t.penalty # "dnf"
  /\ t.phase = "ready" => t.full
TimerInv ==
  /\ Sound(timer) /\ timer.attempt = NoAttempt
  /\ timer.phase = "running" <=> solving # NoSolve
  /\ DnfNeverStarted

\* What a request is for: none is made twice but a synchronization.
Tag(r) ==
  IF r.kind = "addSolve" THEN <<r.kind, r.by>>
  ELSE IF r.kind = "createSession" THEN <<r.kind, r.key>>
  ELSE <<r.kind, 0>>
Asked(q) == {q[n] : n \in DOMAIN q}
Awaits(q, tag) == \E r \in Asked(q) : Tag(r) = tag
Single(q) ==
  \A m, n \in DOMAIN q : Tag(q[m]) = Tag(q[n]) => m = n \/ Tag(q[n]) = <<"sync", 0>>

\* The engine has a request for each of what the page waits for, and no other.
Backed(q, calls, made, load) ==
  /\ Single(q)
  /\ Awaits(q, <<"snapshot", 0>>) <=> load # Nothing
  /\ \A i \in SaverIds : Awaits(q, <<"addSolve", i>>) <=> calls[i].stage = "add"
  /\ \A k \in Contexts : Awaits(q, <<"createSession", k>>) <=> k \in made
  /\ \A r \in Asked(q) : r.kind = "addSolve" => r.attempt = calls[r.by].attempt
RequestInv == Backed(requests, savers, creating, loading)

\* What is waited for without a request of one's own is what another one waits for.
CallsWait ==
  \A i \in SaverIds :
    /\ savers[i].stage = "session" => savers[i].key \in creating
    /\ savers[i].refresh = "loading" => loading # Nothing
    /\ savers[i].refresh = "queued" => queued
    /\ savers[i].refresh # "none" => savers[i].stage = "after"
SavingWaits == saving => \E i \in SaverIds : savers[i].stage # "idle"
DrawWaits == generating => \E s \in draws : s.what = "next" /\ s.live
WaitInv == CallsWait /\ SavingWaits /\ DrawWaits

\* A session is created once for a context, while it has none.
SessionInv ==
  /\ \A k \in creating : ids[k] = NoSession
  /\ \A s \in Sessions : \E k \in Contexts : ids[k] = s

\* The snapshot under way is of what the page holds, and reads all that it will show
\* unless another is queued.
Reads(q) == {r \in Asked(q) : r.kind = "snapshot"}
Current ==
  loading # Nothing /\ ~queued =>
    /\ loading.query.context = context
    /\ \/ loading.query.session = ids[context]
       \/ loading.query.session = NoSession /\ Rows(ids[context]) = <<>>
ReadInv ==
  /\ loading # Nothing => (loading.stale => queued)
  /\ known # Nothing => solves = known.rows
  /\ \A r \in Reads(requests) : r.known = known /\ r.query = loading.query
  /\ Current /\ Shown

\* The scrambles asked for to be shown, still to be: one at most, of the context shown
\* or of the one on another puzzle that the page left before it came.
Nexts(found) == {s \in found : s.what = "next" /\ s.live}
Coming == Nexts(draws)
ComingInv == \A s, u \in Coming : s = u

\* A scramble is kept or ahead in one place, and the one shown is kept somewhere.
PlacesInv ==
  /\ shown # 0 => \E k \in Contexts : kept[k] = shown
  /\ \A j, k \in Contexts :
       /\ kept[j] # 0 /\ kept[j] = kept[k] => j = k
       /\ ahead[j] # 0 /\ ahead[j] = ahead[k] => j = k
       /\ ahead[j] # 0 => ahead[j] # kept[k]
\* None drawn ahead was tried, and one tried is kept where it was, the page there or
\* gone, unless it was not its context's own.
TriedInv ==
  \A n \in DOMAIN tried : \A k \in Contexts :
    /\ ahead[k] # 0 => ahead[k] # tried[n].scramble
    /\ kept[k] # 0 /\ kept[k] = tried[n].scramble =>
         tried[n].stray \/ (k = tried[n].key /\ (tried[n].left \/ k = context))
ScrambleInv == PlacesInv /\ TriedInv /\ ComingInv

\* The calls of savePending, of which no failure went by.
Working(i) == savers[i].stage # "idle"
Sending(i) == savers[i].stage \in {"session", "add"}
Mine == Saved \cup {n \in DOMAIN tried : pendingSolve # Nothing /\ pendingSolve.attempt = n}
CallInv ==
  /\ \A i, j \in SaverIds : Working(i) /\ Working(j) => i = j
  /\ (\E i \in SaverIds : Working(i)) => saving
  /\ Coming # {} => generating
  /\ \A i \in SaverIds : Sending(i) =>
       /\ pendingSolve # Nothing
       /\ pendingSolve.attempt = savers[i].attempt /\ pendingSolve.key = savers[i].key
  /\ \A i \in SaverIds : savers[i].stage = "after" => pendingSolve = Nothing
  /\ pendingSolve # Nothing =>
       /\ tried[pendingSolve.attempt].saved = 0
       /\ tried[pendingSolve.attempt].key = pendingSolve.key

\* Nothing failed yet that an attempt could suffer from.
Untroubled == \A n \in DOMAIN tried : ~tried[n].failed
CalmInv ==
  Untroubled =>
    /\ pendingSolve # Nothing => saving
    /\ saving \/ generating => timer.phase \in {"idle", "stopped"}
    /\ timer.phase = "running" => solving = shown

\* What is known of the attempts made: each is kept, on a scramble of its own, and the
\* one saved last waits for the scramble after its own while that one is the next.
AllMine ==
  \A n \in DOMAIN tried : Clear(n) => n \in Mine /\ tried[n].solving \in {NoSolve, tried[n].scramble}
AllNew ==
  \A m, n \in Mine :
    m < n /\ ~tried[m].left /\ ~tried[m].stray /\ tried[m].scramble # 0 =>
      tried[m].scramble # tried[n].scramble
NextComes ==
  \A m \in Saved :
    ~tried[m].left /\ ~tried[m].stray /\ tried[m].scramble # 0
        /\ kept[tried[m].key] = tried[m].scramble =>
      \E i \in SaverIds, s \in Coming :
        savers[i].stage = "after" /\ s.by = i /\ s.key = tried[m].key
MadeInv == (\A n \in DOMAIN tried : tried[n].saved <= 1) /\ AllMine /\ AllNew /\ NextComes

Undisturbed == CallInv /\ CalmInv /\ MadeInv
SaveInv == ~disturbed => Undisturbed

\* All but what is saved, then all.
StoreInv == PageTypes /\ TimerInv /\ RequestInv /\ WaitInv /\ SessionInv /\ ReadInv /\ ScrambleInv
PageInv == StoreInv /\ SaveInv

-----------------------------------------------------------------------------
(* The timer.                                                              *)

\* What the timer's operations make is a timer.
LEMMA StopTimer ==
  ASSUME NEW t \in Timer
  PROVE  Stop(t) \in Timer
BY Zenon DEF Stop, Timer, Attempt, TimerPhase

LEMMA DisposeTimer ==
  ASSUME NEW t \in Timer
  PROVE  Dispose(t) \in Timer
BY Zenon DEF Dispose, LetGo, Timer

LEMMA ExpireTimer ==
  ASSUME NEW t \in Timer
  PROVE  Expire(t) \in Timer
<1>1. Dispose(t) \in Timer
  BY DisposeTimer
<1>2. 0 \in Ages
  BY DEF Ages
<1> QED
  BY <1>1, <1>2, Zenon DEF Expire, Timer, Attempt, TimerPhase, Penalty

LEMMA StartTimer ==
  ASSUME NEW t \in Timer, NEW at \in Ages
  PROVE  StartAt(t, at) \in Timer
<1>1. InspectionPenalty(at) \in Penalty
  BY DEF InspectionPenalty, Penalty
<1>2. 0 \in Ages
  BY DEF Ages
<1> QED
  BY <1>1, <1>2, ExpireTimer, Zenon DEF StartAt, Timer, TimerPhase, Penalty

LEMMA RestTimer ==
  ASSUME NEW t \in Timer
  PROVE  AtRest(t) \in Timer
BY Zenon DEF AtRest, Timer, TimerPhase

LEMMA InspectTimer ==
  ASSUME NEW t \in Timer
  PROVE  BeginInspection(t) \in Timer
<1>1. Dispose(t) \in Timer
  BY DisposeTimer
<1>2. 0 \in Ages
  BY DEF Ages
<1> QED
  BY <1>1, <1>2, Zenon DEF BeginInspection, Timer, TimerPhase, Penalty

LEMMA ArmTimer ==
  ASSUME NEW t \in Timer
  PROVE  [t EXCEPT !.phase = "holding", !.hold = {TRUE}] \in Timer
BY Zenon DEF Timer, TimerPhase

LEMMA HoldTimer ==
  ASSUME NEW t \in Timer, NEW own \in BOOLEAN
  PROVE  HoldElapses(t, own) \in Timer
<1>1. t.hold \ {own} \in SUBSET BOOLEAN
  BY DEF Timer
<1> QED
  BY <1>1, Zenon DEF HoldElapses, Timer, TimerPhase

LEMMA ResetTimer ==
  ASSUME NEW t \in Timer
  PROVE  Reset(t) \in Timer
<1>1. Dispose(t) \in Timer
  BY DisposeTimer
<1>2. 0 \in Ages
  BY DEF Ages
<1> QED
  BY <1>1, <1>2, Zenon DEF Reset, Timer, TimerPhase, Penalty

LEMMA EndedTimer ==
  ASSUME NEW t \in Timer
  PROVE  [t EXCEPT !.attempt = NoAttempt] \in Timer
BY Zenon DEF Timer

\* What an input or a timeout makes of a timer: an attempt ends a solve that was begun,
\* and nothing is begun where nothing can.
Goes(t, u, can) ==
  /\ Sound(u)
  /\ u.attempt.ended =>
       /\ t.phase \notin {"idle", "stopped"} /\ u.phase = "stopped"
       /\ u.attempt.penalty = "dnf" <=> t.phase # "running"
  /\ ~u.attempt.ended => u.attempt = NoAttempt
  /\ t.phase \in {"idle", "stopped"} /\ ~can => u.phase = t.phase

LEMMA NotEnded == ~NoAttempt.ended
BY DEF NoAttempt

LEMMA TimerStays ==
  ASSUME NEW t, NEW can \in BOOLEAN, Sound(t), t.attempt = NoAttempt
  PROVE  Goes(t, t, can)
BY NotEnded DEF Goes, Sound

LEMMA ExpireGoes ==
  ASSUME NEW t, NEW can \in BOOLEAN, Sound(t), t.attempt = NoAttempt, t.inspected
  PROVE  Goes(t, Expire(t), can)
<1> DEFINE u == Expire(t)
<1>1. t \in Timer
  BY DEF Sound
<1>2. u \in Timer
  BY <1>1, ExpireTimer
<1>3. /\ u.phase = "stopped" /\ ~u.inspected /\ ~u.expiry /\ u.hold = {}
      /\ u.attempt = [ended |-> TRUE, penalty |-> "dnf"]
  BY <1>1 DEF Expire, Dispose, LetGo, Timer
<1>4. u.attempt.ended /\ u.attempt.penalty = "dnf"
  BY <1>3
<1> HIDE DEF u
<1>5. t.phase \notin {"idle", "stopped", "running"}
  BY DEF Sound
<1>6. Goes(t, u, can)
  BY <1>2, <1>3, <1>4, <1>5 DEF Goes, Sound
<1> QED
  BY <1>6 DEF u

LEMMA StartGoes ==
  ASSUME NEW t, NEW can \in BOOLEAN, Sound(t), t.attempt = NoAttempt, NEW at \in Ages,
         t.phase \in {"holding", "ready"} \/ can, t.phase # "running"
  PROVE  Goes(t, StartAt(LetGo(t), at), can)
<1>1. LetGo(t) \in Timer /\ LetGo(t).hold = {} /\ LetGo(t).phase = t.phase /\ LetGo(t).inspected = t.inspected
      /\ LetGo(t).attempt = NoAttempt /\ LetGo(t).age = t.age /\ LetGo(t).expiry = t.expiry
      /\ LetGo(t).penalty = t.penalty /\ LetGo(t).full = t.full
  BY DEF LetGo, Sound, Timer
<1>2. PICK u : u = LetGo(t)
  OBVIOUS
<1>3. Sound(u) /\ u.attempt = NoAttempt
  BY <1>1, <1>2 DEF Sound
<1>4. CASE u.inspected /\ InspectionPenalty(at) = "dnf"
  <2>1. Goes(u, Expire(u), can)
    BY <1>3, <1>4, ExpireGoes
  <2>2. StartAt(u, at) = Expire(u)
    BY <1>4 DEF StartAt
  <2> QED
    BY <1>1, <1>2, <2>1, <2>2 DEF Goes
<1>5. CASE ~(u.inspected /\ InspectionPenalty(at) = "dnf")
  <2> DEFINE v == StartAt(u, at)
  <2>1. v = [u EXCEPT !.phase = "running", !.inspected = FALSE, !.age = 0, !.expiry = FALSE, !.full = FALSE,
                      !.penalty = IF u.inspected THEN InspectionPenalty(at) ELSE "none"]
    BY <1>5 DEF StartAt
  <2>2. (IF u.inspected THEN InspectionPenalty(at) ELSE "none") \in {"none", "+2"}
    BY <1>5 DEF InspectionPenalty
  <2>3. /\ v \in Timer /\ v.phase = "running" /\ ~v.inspected /\ ~v.expiry /\ v.penalty # "dnf"
        /\ v.hold = {} /\ v.attempt = NoAttempt
    <3>1. u \in Timer
      BY <1>3 DEF Sound
    <3>2. v \in Timer
      BY <3>1, StartTimer
    <3> QED
      BY <1>1, <1>2, <1>3, <2>1, <2>2, <3>1, <3>2 DEF Timer
  <2> HIDE DEF v
  <2>4. Sound(v)
    BY <2>3 DEF Sound
  <2>5. Goes(t, v, can)
    BY <1>1, <1>2, <2>3, <2>4, NotEnded DEF Goes
  <2> QED
    BY <1>2, <2>5 DEF v
<1> QED
  BY <1>4, <1>5

LEMMA StopGoes ==
  ASSUME NEW t, NEW can \in BOOLEAN, Sound(t), t.attempt = NoAttempt, t.phase = "running"
  PROVE  Goes(t, Stop(t), can)
<1> DEFINE u == Stop(t)
<1>1. t \in Timer
  BY DEF Sound
<1>2. u \in Timer
  BY <1>1, StopTimer
<1>3. /\ u.phase = "stopped" /\ u.hold = t.hold /\ u.inspected = t.inspected /\ u.expiry = t.expiry
      /\ u.attempt = [ended |-> TRUE, penalty |-> t.penalty]
  BY <1>1 DEF Stop, Timer
<1>4. u.attempt.ended /\ u.attempt.penalty = t.penalty
  BY <1>3
<1> HIDE DEF u
<1>5. Goes(t, u, can)
  BY <1>2, <1>3, <1>4 DEF Goes, Sound
<1> QED
  BY <1>5 DEF u

LEMMA RestGoes ==
  ASSUME NEW t, NEW can \in BOOLEAN, Sound(t), t.attempt = NoAttempt, t.phase \in {"holding", "ready"}
  PROVE  Goes(t, AtRest(LetGo(t)), can)
<1> DEFINE u == AtRest(LetGo(t))
<1>1. t \in Timer
  BY DEF Sound
<1>2. LetGo(t) \in Timer /\ LetGo(t) = [t EXCEPT !.hold = {}]
  BY <1>1 DEF LetGo, Timer
<1>3. u \in Timer
  BY <1>2, RestTimer
<1>4. /\ u.phase = (IF t.inspected THEN "inspecting" ELSE "idle") /\ u.hold = {}
      /\ u.inspected = t.inspected /\ u.expiry = t.expiry /\ u.attempt = NoAttempt
  BY <1>1, <1>2 DEF AtRest, Timer, Sound
<1> HIDE DEF u
<1>5. Goes(t, u, can)
  BY <1>3, <1>4, NotEnded DEF Goes, Sound
<1> QED
  BY <1>5 DEF u

LEMMA ResetSound ==
  ASSUME NEW t, Sound(t), t.attempt = NoAttempt
  PROVE  Sound(Reset(t)) /\ Reset(t).attempt = NoAttempt /\ Reset(t).phase = "idle"
<1> DEFINE u == Reset(t)
<1>1. t \in Timer
  BY DEF Sound
<1>2. u \in Timer
  BY <1>1, ResetTimer
<1>3. u.phase = "idle" /\ ~u.inspected /\ ~u.expiry /\ u.hold = {} /\ u.attempt = NoAttempt
  BY <1>1 DEF Reset, Dispose, LetGo, Timer, Sound
<1> HIDE DEF u
<1>4. Sound(u)
  BY <1>2, <1>3 DEF Sound
<1> QED
  BY <1>3, <1>4 DEF u

LEMMA PressGoes ==
  ASSUME NEW t, NEW can \in BOOLEAN, Sound(t), t.attempt = NoAttempt
  PROVE  Goes(t, Press(t, can), can)
<1>1. CASE t.phase = "running"
  BY <1>1, StopGoes DEF Press
<1>2. CASE t.phase \in {"idle", "stopped"} /\ Inspection /\ can
  <2> DEFINE u == BeginInspection(t)
  <2>1. t \in Timer
    BY DEF Sound
  <2>2. u \in Timer
    BY <2>1, InspectTimer
  <2>3. /\ u.phase = "inspecting" /\ u.inspected /\ u.expiry /\ u.hold = {} /\ u.attempt = NoAttempt
    BY <2>1 DEF BeginInspection, Dispose, LetGo, Timer, Sound
  <2> HIDE DEF u
  <2>4. Goes(t, u, can)
    BY <1>2, <2>2, <2>3, NotEnded DEF Goes, Sound
  <2> QED
    BY <1>2, <2>4 DEF Press, u
<1>3. CASE t.phase \notin {"running"} /\ ~(t.phase \in {"idle", "stopped"} /\ Inspection /\ can)
  <2>1. Press(t, can) = Arm(t, can)
    BY <1>3 DEF Press
  <2>2. CASE t.phase \notin {"idle", "stopped", "inspecting"} \/ ~can
    BY <2>1, <2>2, TimerStays DEF Arm
  <2>3. CASE ~(t.phase \notin {"idle", "stopped", "inspecting"} \/ ~can)
    <3>1. LetGo(t).hold = {}
      BY DEF LetGo, Sound, Timer
    <3>2. {FALSE : set \in LetGo(t).hold} \cup {TRUE} = {TRUE}
      BY <3>1
    <3>3. Arm(t, can) = [t EXCEPT !.phase = "holding", !.hold = {TRUE}]
      BY <2>3, <3>2 DEF Arm
    <3> DEFINE u == [t EXCEPT !.phase = "holding", !.hold = {TRUE}]
    <3>4. t \in Timer
      BY DEF Sound
    <3>5. u \in Timer
      BY <3>4, ArmTimer
    <3>6. /\ u.phase = "holding" /\ u.hold = {TRUE} /\ u.inspected = t.inspected /\ u.expiry = t.expiry
          /\ u.attempt = NoAttempt
      BY <3>4 DEF Timer, Sound
    <3> HIDE DEF u
    <3>7. Goes(t, u, can)
      BY <2>3, <3>5, <3>6, NotEnded DEF Goes, Sound
    <3> QED
      BY <2>1, <3>3, <3>7 DEF u
  <2> QED
    BY <2>2, <2>3
<1> QED
  BY <1>1, <1>2, <1>3

LEMMA ReleaseGoes ==
  ASSUME NEW t, NEW can \in BOOLEAN, Sound(t), t.attempt = NoAttempt, NEW at \in Ages
  PROVE  Goes(t, Release(t, at), can)
<1>1. CASE t.phase = "holding"
  BY <1>1, RestGoes DEF Release
<1>2. CASE t.phase = "ready"
  BY <1>2, StartGoes DEF Release
<1>3. CASE t.phase \notin {"holding", "ready"}
  <2> DEFINE u == LetGo(t)
  <2>1. t \in Timer
    BY DEF Sound
  <2>2. /\ u \in Timer /\ u.phase = t.phase /\ u.hold = {} /\ u.inspected = t.inspected /\ u.expiry = t.expiry
        /\ u.attempt = NoAttempt /\ u.penalty = t.penalty
    BY <2>1 DEF LetGo, Timer, Sound
  <2> HIDE DEF u
  <2>3. Goes(t, u, can)
    BY <1>3, <2>2, NotEnded DEF Goes, Sound
  <2> QED
    BY <1>3, <2>3 DEF Release, u
<1> QED
  BY <1>1, <1>2, <1>3

LEMMA InputGoes ==
  ASSUME Sound(timer), timer.attempt = NoAttempt, NEW kind \in InputKind, NEW at \in 0..timer.age, Enabled \in BOOLEAN
  PROVE  Goes(timer, Dispatched(kind, at), Enabled)
<1>1. at \in Ages /\ timer.age \in Ages
  BY DEF Sound, Timer, Ages
<1>2. CASE kind = "press"
  BY <1>2, PressGoes DEF Dispatched
<1>3. CASE kind = "release"
  BY <1>1, <1>3, ReleaseGoes DEF Dispatched
<1>4. CASE kind = "blur"
  <2>1. CASE timer.phase \in {"holding", "ready"}
    <3>1. Goes(timer, AtRest(LetGo(timer)), Enabled)
      BY <2>1, RestGoes
    <3> QED
      BY <1>4, <2>1, <3>1 DEF Dispatched, CancelArming
  <2>2. CASE timer.phase \notin {"holding", "ready"}
    BY <1>4, <2>2, TimerStays DEF Dispatched, CancelArming
  <2> QED
    BY <2>1, <2>2
<1>5. CASE kind = "escape"
  <2>1. CASE timer.inspected
    <3>1. Goes(timer, Reset(timer), Enabled)
      BY <2>1, ResetSound, NotEnded DEF Goes, Sound
    <3> QED
      BY <1>5, <2>1, <3>1 DEF Dispatched
  <2>2. CASE ~timer.inspected
    BY <1>5, <2>2, TimerStays DEF Dispatched
  <2> QED
    BY <2>1, <2>2
<1>6. CASE kind = "begin"
  <2>1. CASE timer.phase = "running" \/ ~Enabled
    BY <1>6, <2>1, TimerStays DEF Dispatched, Begin
  <2>2. CASE ~(timer.phase = "running" \/ ~Enabled)
    <3>1. Goes(timer, StartAt(LetGo(timer), timer.age), Enabled)
      BY <1>1, <2>2, StartGoes
    <3> QED
      BY <1>6, <2>2, <3>1 DEF Dispatched, Begin
  <2> QED
    BY <2>1, <2>2
<1>7. CASE kind = "finish"
  <2>1. CASE timer.phase = "running"
    <3>1. Goes(timer, Stop(timer), Enabled)
      BY <2>1, StopGoes
    <3> QED
      BY <1>7, <2>1, <3>1 DEF Dispatched, Finish
  <2>2. CASE timer.phase # "running"
    BY <1>7, <2>2, TimerStays DEF Dispatched, Finish
  <2> QED
    BY <2>1, <2>2
<1> QED
  BY <1>2, <1>3, <1>4, <1>5, <1>6, <1>7 DEF InputKind

LEMMA HoldGoes ==
  ASSUME NEW t, NEW can \in BOOLEAN, Sound(t), t.attempt = NoAttempt, NEW own \in t.hold
  PROVE  Goes(t, HoldElapses(t, own), can)
<1> DEFINE u == HoldElapses(t, own)
<1>1. t \in Timer /\ own \in BOOLEAN /\ FALSE \notin t.hold
  BY DEF Sound, Timer
<1>2. u \in Timer
  BY <1>1, HoldTimer
<1>3. own
  <2>1. own # FALSE
    BY <1>1
  <2> QED
    BY <1>1, <2>1, Zenon
<1>4. /\ u.hold = t.hold \ {own} /\ u.inspected = t.inspected /\ u.expiry = t.expiry
      /\ u.attempt = NoAttempt /\ u.penalty = t.penalty
      /\ u.phase = IF t.phase = "holding" THEN "ready" ELSE t.phase
      /\ t.phase = "holding" => u.full = own
      /\ t.phase # "holding" => u.full = t.full
  BY <1>1 DEF HoldElapses, Timer, Sound
<1> HIDE DEF u
<1>5. u.phase = "ready" => u.full
  BY <1>3, <1>4 DEF Sound
<1>6. FALSE \notin u.hold
  BY <1>1, <1>4
<1>7. Goes(t, u, can)
  BY <1>2, <1>4, <1>5, <1>6, NotEnded DEF Goes, Sound
<1> QED
  BY <1>7 DEF u

\* The steps by which the page's timer becomes another.
Timed ==
  \E t : /\ Becomes(t) /\ Goes(timer, t, Enabled)

LEMMA TimedSteps ==
  ASSUME Sound(timer), timer.attempt = NoAttempt, Enabled \in BOOLEAN,
         \/ \E kind \in InputKind, at \in 0..timer.age : Dispatch(kind, at)
         \/ HoldTimeout \/ ExpiryTimeout
  PROVE  Timed
<1>1. ASSUME NEW kind \in InputKind, NEW at \in 0..timer.age, Dispatch(kind, at) PROVE Timed
  BY <1>1, InputGoes DEF Dispatch, Timed
<1>2. ASSUME NEW own \in timer.hold, Becomes(HoldElapses(timer, own)) PROVE Timed
  BY <1>2, HoldGoes DEF Timed
<1>3. CASE ExpiryTimeout
  <2>1. timer.inspected
    BY <1>3 DEF ExpiryTimeout, Sound
  <2> QED
    BY <1>3, <2>1, ExpireGoes DEF ExpiryTimeout, Timed
<1> QED
  BY <1>1, <1>2, <1>3 DEF HoldTimeout

\* The timer, its inspection gone on.
LEMMA OlderSound ==
  ASSUME NEW t, Sound(t), t.attempt = NoAttempt, t.age < 2
  PROVE  LET u == [t EXCEPT !.age = @ + 1]
         IN  Sound(u) /\ u.attempt = NoAttempt /\ u.phase = t.phase
<1> DEFINE u == [t EXCEPT !.age = @ + 1]
<1>1. t \in Timer /\ t.age + 1 \in Ages
  BY DEF Sound, Timer, Ages
<1>2. u \in Timer
  BY <1>1, Zenon DEF Timer
<1> QED
  BY <1>1, <1>2 DEF Sound, Timer

LEMMA RestedSound ==
  ASSUME NEW t, Sound(t)
  PROVE  LET u == [t EXCEPT !.attempt = NoAttempt]
         IN  Sound(u) /\ u.attempt = NoAttempt /\ u.phase = t.phase
<1>1. t \in Timer
  BY DEF Sound
<1>2. [t EXCEPT !.attempt = NoAttempt] \in Timer
  BY <1>1, EndedTimer
<1> QED
  BY <1>1, <1>2 DEF Sound, Timer

-----------------------------------------------------------------------------
(* Least numbers: of a call of savePending, of a scramble not used yet.     *)

LEMMA Induction ==
  ASSUME NEW P \in SUBSET Nat, 0 \in P, \A n \in P : n + 1 \in P
  PROVE  P = Nat
<1> SUFFICES ASSUME NEW m \in Nat, m \notin P PROVE FALSE
  OBVIOUS
<1> DEFINE N == (0..m) \ P
           before == [n \in N |-> n - 1]
<1>1. \A n \in N : n - 1 \in N \ {m} /\ n \in Nat
  OBVIOUS
<1>2. before \in Injection(N, N \ {m})
  <2>1. before \in [N -> N \ {m}]
    BY <1>1
  <2>2. \A n, k \in DOMAIN before : before[n] = before[k] => n = k
    BY <1>1
  <2> QED
    BY <2>1, <2>2 DEF Injection, IsInjective
<1>3. IsFiniteSet(N)
  <2>1. IsFiniteSet(0..m)
    BY FS_Interval
  <2> QED
    BY <2>1, FS_Subset
<1>4. m \in N
  OBVIOUS
<1>5. Cardinality(N \ {m}) = Cardinality(N) - 1 /\ IsFiniteSet(N \ {m}) /\ Cardinality(N) \in Nat
  BY <1>3, <1>4, FS_RemoveElement, FS_CardinalityType
<1>6. Cardinality(N) <= Cardinality(N \ {m})
  BY <1>2, <1>5, FS_Injection
<1> QED
  BY <1>5, <1>6

LEMMA Least ==
  ASSUME NEW S \in SUBSET Nat, NEW m \in S
  PROVE  \E k \in S : \A n \in S : k <= n
<1> SUFFICES ASSUME \A k \in S : \E n \in S : n < k PROVE FALSE
  OBVIOUS
<1> DEFINE P == {k \in Nat : \A n \in S : k <= n}
<1>1. 0 \in P /\ \A k \in P : k + 1 \in P
  OBVIOUS
<1>2. P = Nat
  BY <1>1, Induction
<1> QED
  BY <1>2

LEMMA MinIn ==
  ASSUME NEW S \in SUBSET Nat, S # {}
  PROVE  Min(S) \in S /\ \A k \in S : Min(S) <= k
<1>1. PICK m : m \in S
  OBVIOUS
<1>2. \E k \in S : \A n \in S : k <= n
  BY <1>1, Least
<1> QED
  BY <1>2 DEF Min

LEMMA MaxOfTwo ==
  ASSUME NEW S \in SUBSET SaverIds, S # {}
  PROVE  Max(S) \in S /\ \A k \in S : k <= Max(S)
<1>1. \E k \in S : \A n \in S : k >= n
  <2>1. \A n \in S : n = 1 \/ n = 2
    BY DEF SaverIds
  <2>2. CASE 2 \in S
    BY <2>1, <2>2
  <2>3. CASE 2 \notin S
    <3>1. 1 \in S /\ \A n \in S : n = 1
      BY <2>1, <2>3
    <3> QED
      BY <3>1
  <2> QED
    BY <2>2, <2>3
<1> QED
  BY <1>1 DEF Max

\* The values of a function of a finite set are finitely many.
LEMMA FiniteValues ==
  ASSUME NEW S, IsFiniteSet(S), NEW f, DOMAIN f = S
  PROVE  IsFiniteSet({f[x] : x \in S})
<1> DEFINE T == {f[x] : x \in S}
<1>1. [x \in S |-> f[x]] \in Surjection(S, T)
  BY DEF Surjection
<1> QED
  BY <1>1, FS_Surjection

LEMMA IdleOne ==
  ASSUME Idle # {}
  PROVE  Min(Idle) \in SaverIds /\ savers[Min(Idle)].stage = "idle"
<1>1. Idle \in SUBSET Nat
  BY DEF Idle, SaverIds
<1>2. Min(Idle) \in Idle
  BY <1>1, MinIn
<1> QED
  BY <1>2 DEF Idle

\* A scramble found is a scramble, and none of those drawn before it.
LEMMA FoundNew ==
  ASSUME ScrambleTypes, tried \in Seq(Attempts), solving \in Nat \cup {NoSolve}
  PROVE  NewOne \in Nat \ {0} /\ NewOne \notin Used
<1>1. IsFiniteSet(Contexts)
  BY PageAssumption
<1>2. IsFiniteSet({kept[k] : k \in Contexts}) /\ IsFiniteSet({ahead[k] : k \in Contexts})
  BY <1>1, FiniteValues DEF ScrambleTypes
<1>3. IsFiniteSet({tried[n].scramble : n \in DOMAIN tried})
  <2> DEFINE f == [n \in DOMAIN tried |-> tried[n].scramble]
  <2>1. IsFiniteSet(DOMAIN tried)
    <3>1. DOMAIN tried = 1..Len(tried) /\ Len(tried) \in Nat
      BY LenProperties
    <3> QED
      BY <3>1, FS_Interval
  <2>2. IsFiniteSet({f[n] : n \in DOMAIN tried})
    BY <2>1, FiniteValues
  <2>3. {f[n] : n \in DOMAIN tried} = {tried[n].scramble : n \in DOMAIN tried}
    OBVIOUS
  <2> QED
    BY <2>2, <2>3
<1>4. IsFiniteSet({shown, solving})
  <2>1. IsFiniteSet({shown}) /\ {shown, solving} = {shown} \cup {solving}
    BY FS_Singleton
  <2>2. IsFiniteSet({shown} \cup {solving})
    BY <2>1, FS_AddElement
  <2> QED
    BY <2>1, <2>2
<1>5. IsFiniteSet(Used)
  BY <1>2, <1>3, <1>4, FS_Union DEF Used
<1>6. PICK c \in Nat : c = Cardinality(Used)
  BY <1>5, FS_CardinalityType
<1>7. (1..(c + 1)) \ Used # {}
  <2> SUFFICES ASSUME 1..(c + 1) \subseteq Used PROVE FALSE
    OBVIOUS
  <2>1. Cardinality(1..(c + 1)) = c + 1
    BY FS_Interval
  <2>2. Cardinality(1..(c + 1)) <= c
    BY <1>5, <1>6, FS_Subset
  <2> QED
    BY <2>1, <2>2
<1>8. PICK S \in SUBSET Nat : S = (1..(c + 1)) \ Used
  <2>1. (1..(c + 1)) \ Used \in SUBSET Nat
    OBVIOUS
  <2> QED
    BY <2>1
<1>9. Min(S) \in S
  BY <1>7, <1>8, MinIn
<1> QED
  BY <1>6, <1>8, <1>9 DEF NewOne

-----------------------------------------------------------------------------
(* Types: of the scrambles, the requests and the calls of savePending.     *)

LEMMA SearchType ==
  ASSUME NEW what \in {"next", "ahead"}, NEW key \in Contexts, NEW by \in {0} \cup SaverIds,
         NEW after \in SUBSET Contexts
  PROVE  Search(what, key, by, after) \in Draws
BY Zenon DEF Search, Draws

LEMMA OutdatedType ==
  ASSUME NEW found \in SUBSET Draws
  PROVE  Outdated(found) \in SUBSET Draws
<1>1. \A s \in Draws : [s EXCEPT !.live = FALSE] \in Draws
  BY Zenon DEF Draws
<1> QED
  BY <1>1 DEF Outdated

LEMMA DrawAheadType ==
  ASSUME NEW found \in SUBSET Draws, NEW keys \in SUBSET Contexts, NEW held
  PROVE  DrawAhead(found, keys, held) \in SUBSET Draws
<1>1. \A k \in Contexts : Search("ahead", k, 0, {}) \in Draws
  BY SearchType
<1> QED
  BY <1>1 DEF DrawAhead

LEMMA NextScrambleType ==
  ASSUME ScrambleTypes, NEW key \in Contexts, NEW by \in {0} \cup SaverIds, NEW meanwhile \in Nat,
         NEW after \in SUBSET Contexts, NextScramble(key, by, meanwhile, after)
  PROVE  ScrambleTypes'
<1>1. Outdated(draws) \in SUBSET Draws
  BY OutdatedType DEF ScrambleTypes
<1>2. Search("next", key, by, after) \in Draws
  BY SearchType
<1>3. {key} \cup after \in SUBSET Contexts
  OBVIOUS
<1>4. CASE ahead[key] # 0
  <2>1. draws' = DrawAhead(Outdated(draws), {key} \cup after, ahead') /\ generating' = FALSE
    BY <1>4 DEF NextScramble
  <2>2. draws' \in SUBSET Draws
    BY <1>1, <1>3, <2>1, DrawAheadType
  <2>3. generating' \in BOOLEAN
    BY <2>1
  <2>4. ahead[key] \in Nat /\ shown' = ahead[key] /\ kept' = [kept EXCEPT ![key] = ahead[key]]
        /\ ahead' = [ahead EXCEPT ![key] = 0]
    BY <1>4 DEF NextScramble, Remembered, ScrambleTypes
  <2>5. shown' \in Nat /\ kept' \in [Contexts -> Nat] /\ ahead' \in [Contexts -> Nat]
    BY <2>4 DEF ScrambleTypes
  <2> QED
    BY <2>2, <2>3, <2>5 DEF ScrambleTypes
<1>5. CASE ahead[key] = 0
  <2>1. draws' = Outdated(draws) \cup {Search("next", key, by, after)} /\ generating' = TRUE
        /\ shown' = meanwhile /\ kept' = kept /\ ahead' = ahead
    BY <1>5 DEF NextScramble
  <2>2. generating' \in BOOLEAN
    BY <2>1
  <2> QED
    BY <1>1, <1>2, <2>1, <2>2 DEF ScrambleTypes
<1> QED
  BY <1>4, <1>5

LEMMA DrawnType == \A key \in Contexts : Drawn(key) \in SUBSET Contexts
BY PageAssumption DEF Drawn

LEMMA SyncScrambleType ==
  ASSUME ScrambleTypes, NEW key \in Contexts, NEW before, SyncScramble(key, before)
  PROVE  ScrambleTypes'
<1>0. PICK drawn \in SUBSET Contexts : drawn = Drawn(key)
  BY DrawnType
<1>1. CASE kept[key] # 0 /\ shown' = kept[key] /\ UNCHANGED <<kept, ahead, draws, generating>>
  BY <1>1 DEF ScrambleTypes
<1>2. CASE /\ kept[key] # 0 /\ shown' = kept[key]
           /\ generating' = FALSE
           /\ draws' = DrawAhead(Outdated(draws), drawn, ahead)
           /\ UNCHANGED <<kept, ahead>>
  <2>1. draws' \in SUBSET Draws
    BY <1>2, OutdatedType, DrawAheadType DEF ScrambleTypes
  <2>2. generating' \in BOOLEAN
    BY <1>2
  <2> QED
    BY <1>2, <2>1, <2>2 DEF ScrambleTypes
<1>3. CASE kept[key] = 0 /\ NextScramble(key, 0, 0, drawn)
  BY <1>3, NextScrambleType
<1> QED
  BY <1>0, <1>1, <1>2, <1>3 DEF SyncScramble

LEMMA SessionNumber ==
  ASSUME SaveTypes, NEW key \in Contexts
  PROVE  ids[key] \in Nat
BY LenProperties DEF SaveTypes, Sessions, NoSession

LEMMA QueryType ==
  ASSUME SaveTypes, NEW key \in Contexts
  PROVE  Query(key) \in Queries /\ Query(key).session \in {NoSession} \cup Sessions
BY SessionNumber DEF Query, Queries, SaveTypes

\* The records of requests, and what is none of them.
LEMMA RequestTypes ==
  /\ \A q \in Queries, h \in Helds : [kind |-> "snapshot", query |-> q, known |-> h] \in Requests
  /\ \A i \in SaverIds, p \in Pendings \ {Nothing}, s \in Nat : AddSolve(i, p, s) \in Requests
  /\ \A k \in Contexts : [kind |-> "createSession", key |-> k] \in Requests
  /\ [kind |-> "sync"] \in Requests
BY DEF Requests, AddSolve, Pendings

LEMMA LoadingType ==
  ASSUME NEW query \in Queries
  PROVE  /\ [query |-> query, stale |-> FALSE] \in Loadings \ {Nothing}
         /\ \A l \in Loadings \ {Nothing} : \A b \in BOOLEAN :
              [l EXCEPT !.stale = l.stale \/ b] \in Loadings \ {Nothing}
<1>1. [query |-> query, stale |-> FALSE] \in Loadings
  BY Zenon DEF Loadings
<1>2. [query |-> query, stale |-> FALSE] # Nothing
  BY DEF Nothing
<1>3. ASSUME NEW l \in Loadings \ {Nothing}, NEW b \in BOOLEAN
      PROVE  [l EXCEPT !.stale = l.stale \/ b] \in Loadings \ {Nothing}
  <2>1. (l.stale \/ b) \in BOOLEAN
    BY Zenon DEF Loadings
  <2>2. l \in [query : Queries, stale : BOOLEAN]
    BY <1>3 DEF Loadings
  <2>3. [l EXCEPT !.stale = l.stale \/ b] \in [query : Queries, stale : BOOLEAN]
    BY <2>1, <2>2, Zenon
  <2>4. [l EXCEPT !.stale = l.stale \/ b] # Nothing
    BY <2>3 DEF Nothing
  <2> QED
    BY <2>3, <2>4 DEF Loadings
<1> QED
  BY <1>1, <1>2, <1>3

LEMMA RefreshType ==
  ASSUME LoadTypes, NEW asked \in Seq(Requests), NEW query \in Queries, Refresh(asked, query)
  PROVE  /\ loading' \in Loadings /\ loading' # Nothing /\ queued' \in BOOLEAN
         /\ requests' \in Seq(Requests)
         /\ query.session \in {NoSession} \cup Sessions => loading'.query.session \in {NoSession} \cup Sessions
<1>1. CASE loading = Nothing
  <2>1. loading' = [query |-> query, stale |-> FALSE] /\ queued' = queued
        /\ requests' = Append(asked, [kind |-> "snapshot", query |-> query, known |-> known])
    BY <1>1 DEF Refresh
  <2>2. [kind |-> "snapshot", query |-> query, known |-> known] \in Requests
    BY RequestTypes DEF LoadTypes
  <2>3. requests' \in Seq(Requests)
    BY <2>1, <2>2, AppendProperties
  <2>4. loading'.query = query
    BY <2>1
  <2> QED
    BY <2>1, <2>3, <2>4, LoadingType DEF LoadTypes
<1>2. CASE loading # Nothing
  <2>1. loading' = [loading EXCEPT !.stale = loading.stale \/ (loading.query # query)] /\ queued' = TRUE
        /\ requests' = asked
    BY <1>2 DEF Refresh
  <2>2. loading' \in Loadings \ {Nothing}
    BY <1>2, <2>1, LoadingType DEF LoadTypes
  <2>3. queued' \in BOOLEAN
    BY <2>1
  <2>4. loading'.query = loading.query
    BY <1>2, <2>1 DEF LoadTypes, Loadings
  <2> QED
    BY <1>2, <2>1, <2>2, <2>3, <2>4 DEF LoadTypes
<1> QED
  BY <1>1, <1>2

LEMMA SaverType ==
  ASSUME NEW p \in Pendings \ {Nothing}, NEW stage \in {"session", "add", "after"}, NEW retried \in BOOLEAN
  PROVE  Saver(stage, p, retried) \in Savers
BY DEF Saver, Pendings, Savers

LEMMA CreationType ==
  ASSUME NEW key \in Contexts
  PROVE  Creation(key) \in Seq(Requests)
<1>1. [kind |-> "createSession", key |-> key] \in Requests
  BY RequestTypes
<1> QED
  BY <1>1 DEF Creation

LEMMA SavePendingType ==
  ASSUME SaveTypes, requests \in Seq(Requests), NEW p \in Pendings \ {Nothing}, NEW retried \in BOOLEAN,
         SavePending(p, retried)
  PROVE  /\ saving' \in BOOLEAN /\ savers' \in [SaverIds -> Savers] /\ creating' \in SUBSET Contexts
         /\ requests' \in Seq(Requests)
<1>1. p.key \in Contexts /\ p.attempt \in Nat
  BY DEF Pendings
<1>2. PICK i \in SaverIds : i = Min(Idle)
  BY IdleOne DEF SavePending
<1>3. saving' \in BOOLEAN
  <2>1. saving' = TRUE
    BY DEF SavePending
  <2> QED
    BY <2>1
<1>4. CASE ids[p.key] # NoSession
  <2>1. /\ savers' = [savers EXCEPT ![i] = Saver("add", p, retried)]
        /\ requests' = Append(requests, AddSolve(i, p, ids[p.key])) /\ creating' = creating
    BY <1>2, <1>4 DEF SavePending
  <2>2. Saver("add", p, retried) \in Savers
    BY SaverType
  <2>3. AddSolve(i, p, ids[p.key]) \in Requests
    <3>1. ids[p.key] \in Nat
      BY <1>1, SessionNumber
    <3>2. PICK s \in Nat : s = ids[p.key]
      BY <3>1
    <3>3. AddSolve(i, p, s) \in Requests
      BY RequestTypes
    <3> QED
      BY <3>2, <3>3
  <2>4. requests' \in Seq(Requests)
    BY <2>1, <2>3, AppendProperties
  <2> QED
    BY <1>3, <2>1, <2>2, <2>4 DEF SaveTypes
<1>5. CASE ids[p.key] = NoSession
  <2>1. /\ savers' = [savers EXCEPT ![i] = Saver("session", p, retried)]
        /\ creating' = creating \cup {p.key} /\ requests' = requests \o Creation(p.key)
    BY <1>2, <1>5 DEF SavePending
  <2>2. Saver("session", p, retried) \in Savers
    BY SaverType
  <2>3. requests' \in Seq(Requests)
    BY <1>1, <2>1, CreationType, ConcatProperties
  <2> QED
    BY <1>1, <1>3, <2>1, <2>2, <2>3 DEF SaveTypes
<1> QED
  BY <1>4, <1>5

-----------------------------------------------------------------------------
(* Types: of each step.                                                    *)

LEMMA SeqOf ==
  ASSUME NEW S, NEW c \in Nat, NEW f \in [1..c -> S]
  PROVE  f \in Seq(S) /\ Len(f) = c
OBVIOUS

LEMMA TriedType ==
  ASSUME PastTypes, ScrambleTypes, context \in Contexts, NEW penalty
  PROVE  Tried(penalty) \in Attempts
<1>1. (penalty = "dnf") \in BOOLEAN
  OBVIOUS
<1>2. shown \in Nat /\ solving \in Nat \cup {NoSolve} /\ 0 \in Nat
  BY DEF PastTypes, ScrambleTypes
<1>3. (shown # kept[context]) \in BOOLEAN
  OBVIOUS
<1> QED
  BY <1>1, <1>2, <1>3, Zenon DEF Tried, Attempts

\* A change of the attempts one by one.
LEMMA TriedOver ==
  ASSUME PastTypes, DOMAIN tried' = DOMAIN tried, NEW f, tried' = f, f = [n \in DOMAIN tried |-> f[n]],
         \A n \in DOMAIN tried : f[n] \in Attempts
  PROVE  tried' \in Seq(Attempts) /\ Len(tried') = Len(tried)
<1>1. DOMAIN tried = 1..Len(tried) /\ Len(tried) \in Nat
  BY LenProperties DEF PastTypes
<1>2. f \in [1..Len(tried) -> Attempts]
  BY <1>1
<1> QED
  BY <1>1, <1>2, SeqOf

LEMMA FailedType ==
  ASSUME PastTypes, NEW over, tried' = Failed(over)
  PROVE  tried' \in Seq(Attempts) /\ Len(tried') = Len(tried) /\ DOMAIN tried' = DOMAIN tried
<1> DEFINE is(n) == \E i \in over : savers[i].attempt = n
<1>1. \A n \in DOMAIN tried : tried[n] \in Attempts
  BY LenProperties, ElementOfSeq DEF PastTypes
<1>2. ASSUME NEW r \in Attempts, NEW b \in BOOLEAN PROVE [r EXCEPT !.failed = @ \/ b] \in Attempts
  <2>1. (r.failed \/ b) \in BOOLEAN
    OBVIOUS
  <2> QED
    BY <2>1, Zenon DEF Attempts
<1>3. \A n \in DOMAIN tried : is(n) \in BOOLEAN
  OBVIOUS
<1>4. PICK f : f = Failed(over)
  OBVIOUS
<1>5. /\ f = [n \in DOMAIN tried |-> [tried[n] EXCEPT !.failed = @ \/ is(n)]]
  BY <1>4 DEF Failed
<1> HIDE DEF is
<1>6. \A n \in DOMAIN tried : f[n] \in Attempts
  BY <1>1, <1>2, <1>3, <1>5
<1>7. DOMAIN tried' = DOMAIN tried /\ f = [n \in DOMAIN tried |-> f[n]]
  BY <1>4, <1>5
<1> QED
  BY <1>4, <1>6, <1>7, TriedOver

LEMMA FailType ==
  ASSUME NEW calls, NEW found, disturbed \in BOOLEAN, Fail(calls, found)
  PROVE  error' \in BOOLEAN /\ saving' \in BOOLEAN /\ generating' \in BOOLEAN /\ disturbed' \in BOOLEAN
<1>1. error' = TRUE /\ saving' = FALSE /\ generating' = FALSE
  BY DEF Fail
<1>2. disturbed' \in BOOLEAN
  BY Zenon DEF Fail
<1> QED
  BY <1>1, <1>2

LEMMA BoundsType ==
  ASSUME bounds \in [moves : Nat, faults : Nat], NEW what \in {"moves", "faults"}, Spend(what)
  PROVE  bounds' \in [moves : Nat, faults : Nat]
BY DEF Spend

LEMMA SaveType ==
  ASSUME PageTypes, NEW penalty, Save(penalty)
  PROVE  /\ saving' \in BOOLEAN /\ pendingSolve' \in Pendings /\ savers' \in [SaverIds -> Savers]
         /\ creating' \in SUBSET Contexts /\ requests' \in Seq(Requests)
         /\ tried' = Append(tried, Tried(penalty)) /\ tried' \in Seq(Attempts) /\ Len(tried') = Len(tried) + 1
         /\ pendingSolve' # Nothing => pendingSolve'.attempt \in DOMAIN tried'
<1>1. Tried(penalty) \in Attempts
  BY TriedType DEF PageTypes
<1>2. tried' = Append(tried, Tried(penalty))
  BY DEF Save
<1>3. tried' \in Seq(Attempts) /\ Len(tried') = Len(tried) + 1 /\ Len(tried) \in Nat
      /\ DOMAIN tried' = 1..(Len(tried) + 1) /\ DOMAIN tried = 1..Len(tried)
  BY <1>1, <1>2, AppendProperties, LenProperties DEF PageTypes, PastTypes
<1>4. CASE UNCHANGED <<saving, pendingSolve, savers, creating, requests>>
  BY <1>2, <1>3, <1>4 DEF PageTypes, SaveTypes, PastTypes
<1>5. CASE pendingSolve' = [key |-> context, attempt |-> Len(tried) + 1] /\ SavePending(pendingSolve', FALSE)
  <2>1. PICK p : p = [key |-> context, attempt |-> Len(tried) + 1]
    OBVIOUS
  <2>2. p \in Pendings \ {Nothing} /\ p.attempt = Len(tried) + 1
    <3>1. p \in [key : Contexts, attempt : Nat] /\ p.attempt = Len(tried) + 1
      BY <1>3, <2>1 DEF PageTypes
    <3>2. p # Nothing
      BY <2>1 DEF Nothing
    <3> QED
      BY <3>1, <3>2 DEF Pendings
  <2>3. SavePending(p, FALSE)
    BY <1>5, <2>1
  <2>4. /\ saving' \in BOOLEAN /\ savers' \in [SaverIds -> Savers] /\ creating' \in SUBSET Contexts
        /\ requests' \in Seq(Requests)
    BY <2>2, <2>3, SavePendingType DEF PageTypes
  <2> QED
    BY <1>2, <1>3, <1>5, <2>1, <2>2, <2>4
<1> QED
  BY <1>4, <1>5 DEF Save

LEMMA BecomesType ==
  ASSUME PageTypes, NEW t, Becomes(t)
  PROVE  PageTypes'
<1>1. solving' \in Nat \cup {NoSolve}
  BY DEF Becomes, PageTypes, ScrambleTypes, PastTypes
<1>2. /\ saving' \in BOOLEAN /\ pendingSolve' \in Pendings /\ savers' \in [SaverIds -> Savers]
      /\ creating' \in SUBSET Contexts /\ requests' \in Seq(Requests)
      /\ tried' \in Seq(Attempts)
      /\ pendingSolve' # Nothing => pendingSolve'.attempt \in DOMAIN tried'
  <2>1. CASE t.attempt.ended /\ Save(t.attempt.penalty)
    BY <2>1, SaveType
  <2>2. CASE UNCHANGED <<saving, pendingSolve, savers, creating, requests, tried>>
    BY <2>2 DEF PageTypes, SaveTypes, PastTypes
  <2> QED
    BY <2>1, <2>2 DEF Becomes
<1>3. UNCHANGED <<context, scrambleVars, ids, loadVars, error, rows, disturbed, missed, bounds>>
  BY DEF Becomes
<1>4. ScrambleTypes' /\ LoadTypes' /\ context' \in Contexts
  BY <1>3 DEF PageTypes, ScrambleTypes, LoadTypes, Sessions, scrambleVars, loadVars
<1>5. SaveTypes'
  BY <1>2, <1>3 DEF PageTypes, SaveTypes, Sessions
<1>6. PastTypes'
  BY <1>1, <1>2, <1>3 DEF PageTypes, PastTypes
<1> QED
  BY <1>2, <1>3, <1>4, <1>5, <1>6 DEF PageTypes

LEMMA AnswerTypes ==
  ASSUME PageTypes, requests # <<>>
  PROVE  Head(requests) \in Requests /\ Tail(requests) \in Seq(Requests)
BY HeadTailProperties DEF PageTypes

LEMMA KindTypes ==
  /\ \A r \in Requests : r.kind = "createSession" => r.key \in Contexts
  /\ \A r \in Requests : r.kind = "addSolve" => r.by \in SaverIds /\ r.attempt \in Nat /\ r.session \in Nat
  /\ \A r \in Requests : r.kind = "snapshot" => r.query \in Queries /\ r.known \in Helds
BY DEF Requests

LEMMA SpentType ==
  ASSUME PageTypes, Fails \/ UNCHANGED bounds \/ Spend("moves")
  PROVE  bounds' \in [moves : Nat, faults : Nat]
BY BoundsType DEF PageTypes, Fails

LEMMA CommandType ==
  ASSUME Command
  PROVE  error' \in BOOLEAN
<1>1. error' = FALSE
  BY DEF Command
<1> QED
  BY <1>1

LEMMA PlayerTypes ==
  ASSUME PageTypes, Tick \/ Dismiss \/ SkipScramble \/ ElsewhereFails
  PROVE  PageTypes'
<1>1. CASE Tick
  BY <1>1 DEF Tick, PageTypes, ScrambleTypes, SaveTypes, LoadTypes, PastTypes, Sessions,
              scrambleVars, saveVars, loadVars, history
<1>2. CASE Dismiss
  BY <1>2, CommandType DEF Dismiss, PageTypes, ScrambleTypes, SaveTypes, LoadTypes, PastTypes, Sessions,
              scrambleVars, saveVars, loadVars, history
<1>3. CASE SkipScramble
  <2>1. ScrambleTypes'
    <3>1. NextScramble(context, 0, shown, {}) /\ shown \in Nat /\ context \in Contexts /\ ScrambleTypes
      BY <1>3 DEF SkipScramble, PageTypes, ScrambleTypes
    <3>2. {} \in SUBSET Contexts /\ 0 \in {0} \cup SaverIds
      OBVIOUS
    <3> QED
      BY <3>1, <3>2, NextScrambleType
  <2>2. error' \in BOOLEAN /\ bounds' \in [moves : Nat, faults : Nat]
    BY <1>3, CommandType, SpentType DEF SkipScramble
  <2> QED
    BY <1>3, <2>1, <2>2 DEF SkipScramble, PageTypes, SaveTypes, LoadTypes, PastTypes, Sessions,
              saveVars, loadVars, history
<1>4. CASE ElsewhereFails
  <2>1. error' \in BOOLEAN /\ saving' \in BOOLEAN /\ generating' \in BOOLEAN /\ disturbed' \in BOOLEAN
    BY <1>4, FailType DEF ElsewhereFails, PageTypes, PastTypes
  <2>2. bounds' \in [moves : Nat, faults : Nat]
    BY <1>4, SpentType DEF ElsewhereFails, Fails
  <2> QED
    BY <1>4, <2>1, <2>2 DEF ElsewhereFails, PageTypes, ScrambleTypes, SaveTypes, LoadTypes, PastTypes, Sessions,
              loadVars
<1> QED
  BY <1>1, <1>2, <1>3, <1>4

LEMMA RetryTypes ==
  ASSUME PageTypes, Retry
  PROVE  PageTypes'
<1>1. error' \in BOOLEAN
  <2>1. error' = FALSE
    BY DEF Retry
  <2> QED
    BY <2>1
<1>2. /\ saving' \in BOOLEAN /\ savers' \in [SaverIds -> Savers] /\ creating' \in SUBSET Contexts
      /\ requests' \in Seq(Requests)
  <2>1. CASE pendingSolve # Nothing /\ ~saving /\ SavePending(pendingSolve, TRUE)
    <3>1. pendingSolve \in Pendings \ {Nothing}
      BY <2>1 DEF PageTypes, SaveTypes
    <3> QED
      BY <2>1, <3>1, SavePendingType DEF PageTypes
  <2>2. CASE requests' = Append(requests, [kind |-> "sync"]) /\ UNCHANGED <<saving, savers, creating>>
    BY <2>2, RequestTypes, AppendProperties DEF PageTypes, SaveTypes
  <2> QED
    BY <2>1, <2>2 DEF Retry
<1> QED
  BY <1>1, <1>2 DEF Retry, PageTypes, ScrambleTypes, SaveTypes, LoadTypes, PastTypes, Sessions,
              scrambleVars, loadVars, history

LEMMA MoveTypes ==
  ASSUME PageTypes, NEW key \in Contexts, Move(key)
  PROVE  PageTypes'
<1>1. ScrambleTypes'
  <2>1. PICK before : before = Entering(key)
    OBVIOUS
  <2>2. SyncScramble(key, before) /\ ScrambleTypes
    BY <2>1 DEF Move, PageTypes
  <2> QED
    BY <2>2, SyncScrambleType
<1>2. /\ loading' \in Loadings /\ loading' # Nothing /\ queued' \in BOOLEAN /\ requests' \in Seq(Requests)
      /\ loading'.query.session \in {NoSession} \cup Sessions
  <2>1. PICK q \in Queries : q = Query(key) /\ q.session \in {NoSession} \cup Sessions
    BY QueryType DEF PageTypes
  <2>2. Refresh(requests, q)
    BY <2>1 DEF Move
  <2> QED
    BY <2>1, <2>2, RefreshType DEF PageTypes
<1>3. tried' \in Seq(Attempts) /\ Len(tried') = Len(tried) /\ DOMAIN tried' = DOMAIN tried
  <2>1. PICK f : f = [n \in DOMAIN tried |->
       IF tried[n].key = context /\ tried[n].scramble = kept[context]
       THEN [tried[n] EXCEPT !.left = TRUE] ELSE tried[n]]
    OBVIOUS
  <2>2. \A r \in Attempts : [r EXCEPT !.left = TRUE] \in Attempts
    BY Zenon DEF Attempts
  <2>3. \A n \in DOMAIN tried : tried[n] \in Attempts
    BY LenProperties, ElementOfSeq DEF PageTypes, PastTypes
  <2>4. tried' = f
    BY <2>1 DEF Move
  <2>5. \A n \in DOMAIN tried : f[n] \in Attempts
    BY <2>1, <2>2, <2>3
  <2>6. DOMAIN tried' = DOMAIN tried /\ f = [n \in DOMAIN tried |-> f[n]]
    BY <2>1, <2>4
  <2> QED
    BY <2>4, <2>5, <2>6, TriedOver DEF PageTypes
<1>4. solving' \in Nat \cup {NoSolve} /\ bounds' \in [moves : Nat, faults : Nat] /\ context' \in Contexts
  BY SpentType DEF Move
<1> QED
  BY <1>1, <1>2, <1>3, <1>4 DEF Move, PageTypes, SaveTypes, LoadTypes, PastTypes, Sessions, saveVars

LEMMA ChangedTypes ==
  ASSUME PageTypes, NEW s \in Sessions, Changed(s)
  PROVE  PageTypes'
<1>1. /\ loading' \in Loadings /\ loading' # Nothing /\ queued' \in BOOLEAN /\ requests' \in Seq(Requests)
      /\ loading'.query.session \in {NoSession} \cup Sessions
  <2>1. PICK q \in Queries : q = Query(context) /\ q.session \in {NoSession} \cup Sessions
    BY QueryType DEF PageTypes
  <2>2. Refresh(requests, q)
    BY <2>1 DEF Changed
  <2> QED
    BY <2>1, <2>2, RefreshType DEF PageTypes
<1>2. rows' \in Seq(Seq(Nat)) /\ Sessions' = Sessions
  <2>1. rows[s] \in Seq(Nat) /\ s \in 1..Len(rows)
    BY LenProperties, ElementOfSeq DEF PageTypes, SaveTypes, Sessions
  <2>2. Tail(rows[s]) \in Seq(Nat)
    BY <2>1, HeadTailProperties DEF Changed
  <2>3. rows' = [rows EXCEPT ![s] = Tail(rows[s])]
    BY DEF Changed
  <2>4. rows' \in Seq(Seq(Nat)) /\ DOMAIN rows' = DOMAIN rows
    BY <2>1, <2>2, <2>3, ExceptSeq DEF PageTypes, SaveTypes
  <2> QED
    BY <2>4 DEF Sessions
<1>3. bounds' \in [moves : Nat, faults : Nat]
  BY SpentType DEF Changed
<1> QED
  BY <1>1, <1>2, <1>3 DEF Changed, PageTypes, ScrambleTypes, SaveTypes, LoadTypes, PastTypes,
              scrambleVars, saveVars, history

LEMMA FoundTypes ==
  ASSUME PageTypes, NEW s \in draws, Found(s)
  PROVE  PageTypes'
<1>1. NewOne \in Nat /\ s \in Draws /\ s.key \in Contexts
  BY FoundNew DEF PageTypes, ScrambleTypes, PastTypes, Draws
<1>2. PICK new \in Nat : new = NewOne
  BY <1>1
<1>3. ahead' \in [Contexts -> Nat]
  BY <1>1, <1>2 DEF Found, PageTypes, ScrambleTypes
<1>4. shown' \in Nat /\ kept' \in [Contexts -> Nat] /\ generating' \in BOOLEAN
  <2>1. CASE shown' = NewOne /\ kept' = Remembered(s.key, NewOne) /\ generating' = FALSE
    <3>1. generating' \in BOOLEAN
      BY <2>1
    <3>2. shown' \in Nat /\ kept' \in [Contexts -> Nat]
      BY <1>2, <2>1 DEF Remembered, PageTypes, ScrambleTypes
    <3> QED
      BY <3>1, <3>2
  <2>2. CASE UNCHANGED <<shown, kept, generating>>
    BY <2>2 DEF PageTypes, ScrambleTypes
  <2> QED
    BY <2>1, <2>2 DEF Found
<1>5. draws' \in SUBSET Draws
  <2>1. draws \ {s} \in SUBSET Draws /\ {s.key} \cup s.after \in SUBSET Contexts
    BY <1>1 DEF PageTypes, ScrambleTypes, Draws
  <2>2. DrawAhead(draws \ {s}, {s.key} \cup s.after, ahead) \in SUBSET Draws
    BY <2>1, DrawAheadType
  <2> QED
    BY <2>1, <2>2 DEF Found
<1>6. ScrambleTypes'
  BY <1>3, <1>4, <1>5 DEF ScrambleTypes
<1> QED
  BY <1>6 DEF Found, PageTypes, SaveTypes, LoadTypes, PastTypes, Sessions, saveVars, loadVars, history

LEMMA NotFoundTypes ==
  ASSUME PageTypes, NEW s \in draws, NotFound(s)
  PROVE  PageTypes'
<1>1. draws' \in SUBSET Draws
  <2>1. draws \ {s} \in SUBSET Draws /\ s.after \in SUBSET Contexts
    BY DEF PageTypes, ScrambleTypes, Draws
  <2>2. DrawAhead(draws \ {s}, s.after, ahead) \in SUBSET Draws
    BY <2>1, DrawAheadType
  <2> QED
    BY <2>2 DEF NotFound
<1>2. error' \in BOOLEAN /\ saving' \in BOOLEAN /\ generating' \in BOOLEAN /\ disturbed' \in BOOLEAN
  <2>1. CASE Fail(savers, draws')
    <3>1. PICK found : found = draws'
      OBVIOUS
    <3> QED
      BY <2>1, <3>1, FailType DEF PageTypes, PastTypes
  <2>2. CASE UNCHANGED <<error, saving, generating, disturbed>>
    BY <2>2 DEF PageTypes, ScrambleTypes, SaveTypes, PastTypes
  <2> QED
    BY <2>1, <2>2 DEF NotFound
<1>3. bounds' \in [moves : Nat, faults : Nat]
  BY SpentType DEF NotFound
<1> QED
  BY <1>1, <1>2, <1>3 DEF NotFound, PageTypes, ScrambleTypes, SaveTypes, LoadTypes, PastTypes, Sessions, loadVars

\* The requests that a session created makes: one for each call that waited for it.
Adds(key, id) ==
  [n \in 1..Cardinality(Waiting(key)) |->
     LET i == IF n = 1 THEN Min(Waiting(key)) ELSE Max(Waiting(key))
     IN  AddSolve(i, savers[i], id)]

LEMMA WaitingSeq ==
  ASSUME SaveTypes, NEW key, NEW id \in Nat,
         NEW q, q = Adds(key, id)
  PROVE  /\ q \in Seq(Requests)
         /\ \A n \in DOMAIN q : \E i \in Waiting(key) : q[n] = AddSolve(i, savers[i], id)
         /\ \A i \in Waiting(key) : \E n \in DOMAIN q : q[n].by = i
         /\ \A m, n \in DOMAIN q : q[m].by = q[n].by => m = n
<1> DEFINE W == Waiting(key)
<1>1. W \in SUBSET SaverIds /\ \A i \in W : savers[i].stage = "session"
  BY DEF Waiting
<1>2. \A i \in W : AddSolve(i, savers[i], id) \in Requests
  <2> SUFFICES ASSUME NEW i \in W PROVE AddSolve(i, savers[i], id) \in Requests
    OBVIOUS
  <2>1. savers[i].attempt \in Nat /\ i \in SaverIds
    BY <1>1 DEF SaveTypes, Savers, IdleSaver
  <2> QED
    BY <2>1 DEF AddSolve, Requests
<1>3. \A i, s, p : AddSolve(i, p, s).by = i
  BY DEF AddSolve
<1>0. q = [n \in 1..Cardinality(W) |->
             LET i == IF n = 1 THEN Min(W) ELSE Max(W)
             IN  AddSolve(i, savers[i], id)]
  BY DEF Adds
<1> HIDE DEF W
<1>4. CASE W = {}
  <2>1. Cardinality(W) = 0
    BY <1>4, FS_EmptySet
  <2>2. q = <<>>
    BY <1>0, <2>1
  <2>3. DOMAIN q = {}
    BY <1>0, <2>1
  <2>4. q \in Seq(Requests)
    BY <2>2, EmptySeq
  <2> QED
    BY <1>4, <2>3, <2>4 DEF W
<1>5. ASSUME NEW i \in SaverIds, W = {i} PROVE
         /\ q \in Seq(Requests)
         /\ \A n \in DOMAIN q : \E j \in W : q[n] = AddSolve(j, savers[j], id)
         /\ \A j \in W : \E n \in DOMAIN q : q[n].by = j
         /\ \A m, n \in DOMAIN q : q[m].by = q[n].by => m = n
  <2>1. Cardinality(W) = 1
    BY <1>5, FS_Singleton
  <2>2. Min(W) = i
    BY <1>5 DEF Min, SaverIds
  <2>3. DOMAIN q = 1..1 /\ q[1] = AddSolve(i, savers[i], id)
    BY <1>0, <2>1, <2>2
  <2>4. q \in [1..1 -> Requests]
    BY <1>0, <1>2, <1>5, <2>1, <2>3 DEF W
  <2>5. q \in Seq(Requests)
    BY <2>4, SeqOf
  <2> QED
    BY <1>3, <1>5, <2>3, <2>5
<1>6. CASE W = {1, 2}
  <2>1. Cardinality(W) = 2
    <3>1. Cardinality({1}) = 1 /\ IsFiniteSet({1})
      BY FS_Singleton
    <3>2. Cardinality({1} \cup {2}) = 2
      <4>1. PICK S : S = {1}
        OBVIOUS
      <4>2. IsFiniteSet(S) /\ Cardinality(S) = 1 /\ 2 \notin S
        BY <3>1, <4>1
      <4>3. Cardinality(S \cup {2}) = Cardinality(S) + 1
        BY <4>2, FS_AddElement
      <4> QED
        BY <4>1, <4>2, <4>3
    <3>3. {1} \cup {2} = {1, 2}
      OBVIOUS
    <3> QED
      BY <1>6, <3>2, <3>3
  <2>2. Min(W) = 1
    <3>1. Min(W) \in W /\ \A k \in W : Min(W) <= k
      BY <1>6, MinIn
    <3> QED
      BY <1>6, <3>1
  <2>3. Max(W) = 2
    <3>1. Max(W) \in W /\ \A k \in W : k <= Max(W)
      BY <1>1, <1>6, MaxOfTwo
    <3> QED
      BY <1>6, <3>1
  <2>4. DOMAIN q = 1..2 /\ q[1] = AddSolve(1, savers[1], id) /\ q[2] = AddSolve(2, savers[2], id)
    BY <1>0, <2>1, <2>2, <2>3
  <2>5. q \in [1..2 -> Requests]
    BY <1>0, <1>2, <1>6, <2>1, <2>4 DEF W
  <2>6. q \in Seq(Requests)
    BY <2>5, SeqOf
  <2> QED
    BY <1>3, <1>6, <2>4, <2>6 DEF W
<1>7. W = {} \/ W = {1} \/ W = {2} \/ W = {1, 2}
  <2>1. SaverIds = {1, 2}
    BY DEF SaverIds
  <2> QED
    BY <1>1, <2>1 DEF W
<1> QED
  BY <1>4, <1>5, <1>6, <1>7 DEF W, SaverIds

LEMMA SessionCreatedTypes ==
  ASSUME PageTypes, SessionCreated
  PROVE  PageTypes'
<1>1. PICK key \in Contexts : key = Head(requests).key
  BY AnswerTypes, KindTypes DEF SessionCreated, Answering
<1>2. PICK id \in Nat : id = Len(rows) + 1
  BY LenProperties DEF PageTypes, SaveTypes
<1>3. rows' \in Seq(Seq(Nat)) /\ Sessions \subseteq Sessions' /\ id \in Sessions'
  <2>1. rows' = Append(rows, <<>>)
    BY DEF SessionCreated
  <2>2. <<>> \in Seq(Nat) /\ rows \in Seq(Seq(Nat))
    BY EmptySeq DEF PageTypes, SaveTypes
  <2>3. rows' \in Seq(Seq(Nat)) /\ Len(rows') = Len(rows) + 1 /\ Len(rows) \in Nat
    BY <2>1, <2>2, AppendProperties, LenProperties
  <2>4. DOMAIN rows = 1..Len(rows) /\ DOMAIN rows' = 1..(Len(rows) + 1)
    BY <2>2, <2>3, LenProperties
  <2> QED
    BY <1>2, <2>3, <2>4 DEF Sessions
<1>4. ids' \in [Contexts -> {NoSession} \cup Sessions'] /\ creating' \subseteq Contexts
  <2>1. ids' = [ids EXCEPT ![key] = id] /\ creating' = Over(key)
    BY <1>1, <1>2 DEF SessionCreated
  <2> QED
    BY <1>3, <2>1 DEF PageTypes, SaveTypes, Over
<1>5. savers' \in [SaverIds -> Savers]
  <2>1. savers' = [i \in SaverIds |->
              IF i \in Waiting(key) THEN [savers[i] EXCEPT !.stage = "add"] ELSE savers[i]]
    BY <1>1 DEF SessionCreated
  <2>2. ASSUME NEW i \in Waiting(key) PROVE [savers[i] EXCEPT !.stage = "add"] \in Savers
    <3>1. savers[i] \in [stage : {"session", "add", "after"}, key : Contexts, attempt : Nat,
                         refresh : {"none", "loading", "queued", "done"}, retried : BOOLEAN]
      BY DEF Waiting, PageTypes, SaveTypes, Savers, IdleSaver
    <3> QED
      BY <3>1 DEF Savers
  <2> QED
    BY <2>1, <2>2 DEF PageTypes, SaveTypes
<1>6. requests' \in Seq(Requests)
  <2>1. PICK q : q = Adds(key, id)
    OBVIOUS
  <2>2. q \in Seq(Requests)
    BY <2>1, WaitingSeq DEF PageTypes
  <2>3. requests' = Tail(requests) \o q /\ requests # <<>>
    BY <1>1, <1>2, <2>1 DEF SessionCreated, Answering, Adds
  <2> QED
    BY <2>2, <2>3, AnswerTypes, ConcatProperties
<1>7. UNCHANGED <<timer, context, scrambleVars, saving, pendingSolve, loadVars, error, history, bounds>>
  BY DEF SessionCreated
<1>8. ScrambleTypes' /\ LoadTypes' /\ PastTypes'
  BY <1>3, <1>7 DEF PageTypes, ScrambleTypes, LoadTypes, PastTypes, scrambleVars, loadVars, history
<1> QED
  BY <1>3, <1>4, <1>5, <1>6, <1>7, <1>8 DEF PageTypes, SaveTypes

LEMMA LeftType ==
  ASSUME NEW over
  PROVE  Left(over) \in Seq(Requests)
BY RequestTypes DEF Left

LEMMA IdledType ==
  ASSUME SaveTypes, NEW over
  PROVE  [i \in SaverIds |-> IF i \in over THEN IdleSaver ELSE savers[i]] \in [SaverIds -> Savers]
BY DEF SaveTypes, Savers

LEMMA SavingFailsTypes ==
  ASSUME PageTypes, SessionFails \/ AddFails
  PROVE  PageTypes'
<1>1. PICK over : /\ requests' = Tail(requests) \o Left(over)
                  /\ tried' = Failed(over)
                  /\ savers' \in [SaverIds -> Savers]
  <2>1. CASE SessionFails
    BY <2>1, IdledType DEF SessionFails, PageTypes
  <2>2. CASE AddFails
    BY <2>2 DEF AddFails, PageTypes, SaveTypes, Savers
  <2> QED
    BY <2>1, <2>2
<1>2. requests # <<>> /\ Fails
  BY DEF SessionFails, AddFails, Answering
<1>3. requests' \in Seq(Requests)
  BY <1>1, <1>2, AnswerTypes, LeftType, ConcatProperties
<1>4. tried' \in Seq(Attempts) /\ DOMAIN tried' = DOMAIN tried
  BY <1>1, FailedType DEF PageTypes
<1>5. PICK calls : Fail(calls, draws)
  <2>1. PICK c : c = savers'
    OBVIOUS
  <2> QED
    BY <2>1 DEF SessionFails, AddFails
<1>6. error' \in BOOLEAN /\ saving' \in BOOLEAN /\ generating' \in BOOLEAN /\ disturbed' \in BOOLEAN
  BY <1>5, FailType DEF PageTypes, PastTypes
<1>7. bounds' \in [moves : Nat, faults : Nat]
  BY <1>2, SpentType
<1>8. creating' \subseteq Contexts
  BY DEF SessionFails, AddFails, Over, PageTypes, SaveTypes
<1>9. UNCHANGED <<timer, context, shown, kept, ahead, draws, pendingSolve, ids, loadVars, rows, solving, missed>>
  BY DEF SessionFails, AddFails
<1> QED
  BY <1>1, <1>3, <1>4, <1>6, <1>7, <1>8, <1>9
  DEF PageTypes, ScrambleTypes, SaveTypes, LoadTypes, PastTypes, Sessions, loadVars

LEMMA SolveAddedTypes ==
  ASSUME PageTypes, SolveAdded, savers[Head(requests).by].stage = "add"
  PROVE  PageTypes'
<1>1. PICK a \in Requests : a = Head(requests) /\ a.kind = "addSolve"
  BY AnswerTypes DEF SolveAdded, Answering
<1>2. a.by \in SaverIds /\ a.attempt \in Nat /\ a.session \in Nat
  BY <1>1, KindTypes
<1>3. rows' \in Seq(Seq(Nat)) /\ Sessions' = Sessions
  <2>1. DOMAIN rows = 1..Len(rows) /\ Len(rows) \in Nat /\ \A n \in DOMAIN rows : rows[n] \in Seq(Nat)
    BY LenProperties, ElementOfSeq DEF PageTypes, SaveTypes
  <2>2. rows' = [rows EXCEPT ![a.session] = Append(rows[a.session], a.attempt)]
    BY <1>1 DEF SolveAdded
  <2>3. CASE a.session \in DOMAIN rows
    <3>1. PICK e : e = Append(rows[a.session], a.attempt)
      OBVIOUS
    <3>2. e \in Seq(Nat)
      BY <1>2, <2>1, <2>3, <3>1, AppendProperties
    <3>3. rows' = [rows EXCEPT ![a.session] = e]
      BY <2>2, <3>1
    <3>4. rows' \in Seq(Seq(Nat)) /\ DOMAIN rows' = DOMAIN rows
      BY <2>1, <2>3, <3>2, <3>3, ExceptSeq DEF PageTypes, SaveTypes
    <3> QED
      BY <3>4 DEF Sessions
  <2>4. CASE a.session \notin DOMAIN rows
    <3>1. rows' = rows
      <4>1. PICK e : e = Append(rows[a.session], a.attempt)
        OBVIOUS
      <4>2. rows \in [1..Len(rows) -> Seq(Nat)]
        BY LenProperties DEF PageTypes, SaveTypes
      <4> QED
        BY <2>1, <2>2, <2>4, <4>1, <4>2
    <3> QED
      BY <3>1 DEF PageTypes, SaveTypes, Sessions
  <2> QED
    BY <2>3, <2>4
<1>4. pendingSolve' = Nothing
  BY DEF SolveAdded, Unsaved
<1>5. ScrambleTypes'
  <2>1. PICK i \in SaverIds : i = a.by
    BY <1>2
  <2>2. CASE NextScramble(context, i, shown, {})
    <3>1. {} \in SUBSET Contexts /\ i \in {0} \cup SaverIds /\ context \in Contexts /\ shown \in Nat /\ ScrambleTypes
      BY DEF PageTypes, ScrambleTypes
    <3> QED
      BY <2>2, <3>1, NextScrambleType
  <2>3. CASE UNCHANGED scrambleVars
    BY <2>3 DEF PageTypes, ScrambleTypes, scrambleVars
  <2> QED
    BY <1>1, <2>1, <2>2, <2>3 DEF SolveAdded
<1>6. savers' \in [SaverIds -> Savers]
  <2>1. savers' = [savers EXCEPT ![a.by] = [[savers[a.by] EXCEPT !.stage = "after"] EXCEPT !.refresh = Awaited]]
    BY <1>1, <1>2 DEF SolveAdded, PageTypes, SaveTypes
  <2>2. PICK v \in Savers : v = savers[a.by]
    BY <1>2 DEF PageTypes, SaveTypes
  <2>3. Awaited \in {"loading", "queued"}
    BY DEF Awaited
  <2>4. PICK w : w \in {"loading", "queued"} /\ w = Awaited
    BY <2>3
  <2>5. v \in [stage : {"session", "add", "after"}, key : Contexts, attempt : Nat,
               refresh : {"none", "loading", "queued", "done"}, retried : BOOLEAN]
    BY <1>1, <2>2 DEF Savers, IdleSaver
  <2>6. [[v EXCEPT !.stage = "after"] EXCEPT !.refresh = w] \in Savers
    BY <2>4, <2>5 DEF Savers
  <2> QED
    BY <1>2, <2>1, <2>2, <2>4, <2>6 DEF PageTypes, SaveTypes
<1>7. tried' \in Seq(Attempts) /\ DOMAIN tried' = DOMAIN tried
  <2>1. PICK f : f = [tried EXCEPT ![a.attempt] = [tried[a.attempt] EXCEPT !.saved = @ + 1]]
    OBVIOUS
  <2>2. tried' = f
    BY <1>1, <2>1 DEF SolveAdded
  <2>3. \A n \in DOMAIN tried : tried[n] \in Attempts
    BY LenProperties, ElementOfSeq DEF PageTypes, PastTypes
  <2>4. \A r \in Attempts : [r EXCEPT !.saved = @ + 1] \in Attempts
    <3> SUFFICES ASSUME NEW r \in Attempts PROVE [r EXCEPT !.saved = @ + 1] \in Attempts
      OBVIOUS
    <3>1. r.saved + 1 \in Nat
      BY DEF Attempts
    <3> QED
      BY <3>1, Zenon DEF Attempts
  <2>5. DOMAIN f = DOMAIN tried /\ f = [n \in DOMAIN tried |-> f[n]]
    BY <2>1
  <2>6. \A n \in DOMAIN tried : f[n] \in Attempts
    BY <2>1, <2>3, <2>4
  <2> QED
    BY <2>2, <2>5, <2>6, TriedOver DEF PageTypes
<1>8. /\ loading' \in Loadings /\ loading' # Nothing /\ queued' \in BOOLEAN /\ requests' \in Seq(Requests)
      /\ loading'.query.session \in {NoSession} \cup Sessions
  <2>1. PICK q \in Queries : q = Query(context) /\ q.session \in {NoSession} \cup Sessions
    BY QueryType DEF PageTypes
  <2>2. PICK r \in Seq(Requests) : r = Tail(requests)
    BY AnswerTypes DEF SolveAdded, Answering
  <2>3. Refresh(r, q)
    BY <2>1, <2>2 DEF SolveAdded
  <2> QED
    BY <2>1, <2>3, RefreshType DEF PageTypes
<1>9. UNCHANGED <<timer, context, saving, ids, creating, solves, known, error, solving, disturbed, missed, bounds>>
  BY DEF SolveAdded
<1>10. pendingSolve' \in Pendings
  BY <1>4 DEF Pendings
<1> QED
  BY <1>3, <1>4, <1>5, <1>6, <1>7, <1>8, <1>9, <1>10 DEF PageTypes, SaveTypes, LoadTypes, PastTypes

LEMMA SaveEndsTypes ==
  ASSUME PageTypes, NEW i \in SaverIds, SaveEnds(i)
  PROVE  PageTypes'
<1>1. saving' \in BOOLEAN
  <2>1. saving' = FALSE
    BY DEF SaveEnds
  <2> QED
    BY <2>1
<1>2. savers' \in [SaverIds -> Savers]
  BY DEF SaveEnds, PageTypes, SaveTypes, Savers
<1>3. requests' \in Seq(Requests)
  BY LeftType, ConcatProperties DEF SaveEnds, PageTypes
<1>4. UNCHANGED <<timer, context, scrambleVars, pendingSolve, ids, creating, loadVars,
                  error, rows, history, bounds>>
  BY DEF SaveEnds
<1> QED
  BY <1>1, <1>2, <1>3, <1>4 DEF PageTypes, ScrambleTypes, SaveTypes, LoadTypes, PastTypes, Sessions,
     scrambleVars, loadVars, history

LEMMA SyncTypes ==
  ASSUME PageTypes, Synced \/ SyncFails
  PROVE  PageTypes'
<1>1. PICK r \in Seq(Requests) : r = Tail(requests)
  BY AnswerTypes DEF Synced, SyncFails, Answering
<1>2. CASE Synced
  <2>1. PICK q \in Queries : q = Query(context) /\ q.session \in {NoSession} \cup Sessions
    BY QueryType DEF PageTypes
  <2>2. Refresh(r, q)
    BY <1>1, <1>2, <2>1 DEF Synced
  <2>3. /\ loading' \in Loadings /\ loading' # Nothing /\ queued' \in BOOLEAN /\ requests' \in Seq(Requests)
        /\ loading'.query.session \in {NoSession} \cup Sessions
    BY <2>1, <2>2, RefreshType DEF PageTypes
  <2> QED
    BY <1>2, <2>3 DEF Synced, PageTypes, ScrambleTypes, SaveTypes, LoadTypes, PastTypes, Sessions,
       scrambleVars, saveVars, history
<1>3. CASE SyncFails
  <2>1. error' \in BOOLEAN /\ saving' \in BOOLEAN /\ generating' \in BOOLEAN /\ disturbed' \in BOOLEAN
    BY <1>3, FailType DEF SyncFails, PageTypes, PastTypes
  <2>2. bounds' \in [moves : Nat, faults : Nat]
    BY <1>3, SpentType DEF SyncFails
  <2>3. requests' \in Seq(Requests)
    BY <1>1, <1>3 DEF SyncFails
  <2> QED
    BY <1>3, <2>1, <2>2, <2>3 DEF SyncFails, PageTypes, ScrambleTypes, SaveTypes, LoadTypes, PastTypes, Sessions,
       loadVars
<1> QED
  BY <1>2, <1>3

LEMMA NextLoadType ==
  ASSUME PageTypes, requests # <<>>, known' \in Helds, ids' = ids, rows' = rows, NextLoad
  PROVE  /\ loading' \in Loadings /\ queued' \in BOOLEAN /\ requests' \in Seq(Requests)
         /\ queued' => loading' # Nothing
         /\ loading' # Nothing => loading'.query.session \in {NoSession} \cup Sessions
<1>1. ~queued' /\ queued' \in BOOLEAN
  <2>1. queued' = FALSE
    BY DEF NextLoad
  <2> QED
    BY <2>1
<1>2. PICK r \in Seq(Requests) : r = Tail(requests)
  BY AnswerTypes
<1>3. CASE queued
  <2>1. PICK q \in Queries : q = Query(context) /\ q.session \in {NoSession} \cup Sessions
    BY QueryType DEF PageTypes
  <2>2. PICK h \in Helds : h = known'
    OBVIOUS
  <2>3. /\ loading' = [query |-> q, stale |-> FALSE]
        /\ requests' = Append(r, [kind |-> "snapshot", query |-> q, known |-> h])
    BY <1>2, <1>3, <2>1, <2>2 DEF NextLoad
  <2>4. [kind |-> "snapshot", query |-> q, known |-> h] \in Requests
    BY RequestTypes
  <2>5. requests' \in Seq(Requests)
    BY <2>3, <2>4, AppendProperties
  <2>6. loading'.query = q
    BY <2>3
  <2> QED
    BY <1>1, <2>1, <2>3, <2>5, <2>6, LoadingType
<1>4. CASE ~queued
  BY <1>1, <1>2, <1>4 DEF NextLoad, Loadings
<1> QED
  BY <1>3, <1>4 DEF PageTypes, LoadTypes

LEMMA LoadedType ==
  ASSUME SaveTypes
  PROVE  Loaded(savers) \in [SaverIds -> Savers]
<1>1. ASSUME NEW v \in Savers, v.stage = "after", NEW w \in {"loading", "done"}
      PROVE  [v EXCEPT !.refresh = w] \in Savers
  <2>1. v \in [stage : {"session", "add", "after"}, key : Contexts, attempt : Nat,
               refresh : {"none", "loading", "queued", "done"}, retried : BOOLEAN]
    BY <1>1 DEF Savers, IdleSaver
  <2> QED
    BY <2>1 DEF Savers
<1> QED
  BY <1>1 DEF Loaded, SaveTypes

\* What a snapshot gives the page is what the engine holds of its session.
LEMMA RowsType ==
  ASSUME SaveTypes, NEW s \in {NoSession} \cup Sessions
  PROVE  Rows(s) \in Seq(Nat)
BY LenProperties, ElementOfSeq, EmptySeq DEF Rows, SaveTypes, Sessions

LEMMA SentAll ==
  ASSUME NEW all \in Seq(Nat), NEW h \in Helds, NEW now,
         now = IF "value" \in DOMAIN Sent(all, h) THEN all ELSE h.rows \o Sent(all, h).added
  PROVE  now = all
<1>1. CASE h # Nothing /\ Len(h.rows) <= Len(all) /\ h.rows = SubSeq(all, 1, Len(h.rows))
  <2>1. h.rows \in Seq(Nat)
    BY <1>1 DEF Helds
  <2>2. PICK c \in Nat : c = Len(h.rows) /\ c <= Len(all)
    BY <1>1, <2>1, LenProperties
  <2>3. PICK rest : rest = SubSeq(all, c + 1, Len(all))
    OBVIOUS
  <2>4. Sent(all, h) = [added |-> rest]
    BY <1>1, <2>2, <2>3 DEF Sent
  <2>5. "value" \notin DOMAIN Sent(all, h) /\ Sent(all, h).added = rest
    BY <2>4
  <2>6. now = SubSeq(all, 1, c) \o SubSeq(all, c + 1, Len(all))
    BY <1>1, <2>2, <2>3, <2>5
  <2>7. SubSeq(all, 1, c) \o SubSeq(all, c + 1, Len(all)) = SubSeq(all, 1, Len(all))
    <3>1. Len(all) \in Nat
      BY LenProperties
    <3>2. 1 \in 1..Len(all) + 1 /\ c \in 1 - 1..Len(all) /\ Len(all) \in c..Len(all)
      BY <2>2, <3>1
    <3> QED
      BY <3>2, ConcatAdjacentSubSeq
  <2> QED
    BY <2>6, <2>7, SubSeqFull
<1>2. CASE ~(h # Nothing /\ Len(h.rows) <= Len(all) /\ h.rows = SubSeq(all, 1, Len(h.rows)))
  <2>1. Sent(all, h) = [value |-> all]
    BY <1>2 DEF Sent
  <2>2. "value" \in DOMAIN Sent(all, h)
    BY <2>1
  <2> QED
    BY <2>2
<1> QED
  BY <1>1, <1>2

LEMMA SnapshotReadTypes ==
  ASSUME PageTypes, SnapshotRead, loading # Nothing, Head(requests).query = loading.query,
         Head(requests).known = known, known # Nothing => solves = known.rows
  PROVE  /\ PageTypes'
         /\ LET all == Rows(loading.query.session)
                ours == loading.query.session = ids[loading.query.context]
            IN  IF loading.stale
                THEN UNCHANGED <<solves, known, missed>>
                ELSE /\ solves' = IF ours THEN all ELSE <<>>
                     /\ known' = IF ours THEN [rows |-> all] ELSE Nothing
                     /\ ~missed'
<1>1. PICK q \in Queries : q = Head(requests).query /\ q = loading.query /\ q.session \in {NoSession} \cup Sessions
  <2>1. Head(requests) \in Requests /\ Head(requests).kind = "snapshot"
    BY AnswerTypes DEF SnapshotRead, Answering
  <2> QED
    BY <2>1, KindTypes DEF PageTypes, LoadTypes
<1>2. PICK all \in Seq(Nat) : all = Rows(q.session)
  BY <1>1, RowsType DEF PageTypes
<1>3. PICK now : now = IF "value" \in DOMAIN Sent(all, known) THEN all ELSE solves \o Sent(all, known).added
  OBVIOUS
<1>4. now = all
  <2>1. CASE known = Nothing
    <3>1. Sent(all, known) = [value |-> all]
      BY <2>1 DEF Sent
    <3>2. "value" \in DOMAIN Sent(all, known)
      BY <3>1
    <3> QED
      BY <1>3, <3>2
  <2>2. CASE known # Nothing
    <3>1. now = IF "value" \in DOMAIN Sent(all, known) THEN all ELSE known.rows \o Sent(all, known).added
      BY <1>3, <2>2
    <3> QED
      BY <3>1, SentAll DEF PageTypes, LoadTypes
  <2> QED
    BY <2>1, <2>2
<1>5. \/ /\ ~loading.stale
         /\ solves' = IF q.session = ids[q.context] THEN all ELSE <<>>
         /\ known' = IF q.session = ids[q.context] THEN [rows |-> all] ELSE Nothing
         /\ missed' = FALSE
      \/ loading.stale /\ UNCHANGED <<solves, known, missed>>
  BY <1>1, <1>2, <1>3, <1>4 DEF SnapshotRead
<1>6. solves' \in Seq(Nat) /\ known' \in Helds /\ missed' \in BOOLEAN
  <2>1. CASE UNCHANGED <<solves, known, missed>>
    BY <2>1 DEF PageTypes, LoadTypes, PastTypes
  <2>2. CASE /\ solves' = IF q.session = ids[q.context] THEN all ELSE <<>>
             /\ known' = IF q.session = ids[q.context] THEN [rows |-> all] ELSE Nothing
             /\ missed' = FALSE
    <3>1. missed' \in BOOLEAN
      BY <2>2
    <3>2. <<>> \in Seq(Nat) /\ [rows |-> all] \in Helds /\ Nothing \in Helds
      BY EmptySeq DEF Helds
    <3> QED
      BY <2>2, <3>1, <3>2
  <2> QED
    BY <1>5, <2>1, <2>2
<1>7. UNCHANGED <<timer, context, scrambleVars, saving, pendingSolve, ids, creating,
                 error, rows, tried, solving, disturbed, bounds>> /\ NextLoad /\ savers' = Loaded(savers)
      /\ requests # <<>>
  BY DEF SnapshotRead, Answering
<1>8. /\ loading' \in Loadings /\ queued' \in BOOLEAN /\ requests' \in Seq(Requests)
      /\ queued' => loading' # Nothing
      /\ loading' # Nothing => loading'.query.session \in {NoSession} \cup Sessions
  BY <1>6, <1>7, NextLoadType
<1>9. savers' \in [SaverIds -> Savers]
  BY <1>7, LoadedType DEF PageTypes
<1>10. PageTypes'
  BY <1>6, <1>7, <1>8, <1>9 DEF PageTypes, ScrambleTypes, SaveTypes, LoadTypes, PastTypes, Sessions, scrambleVars
<1> QED
  BY <1>1, <1>2, <1>5, <1>10

LEMMA SnapshotFailsTypes ==
  ASSUME PageTypes, SnapshotFails
  PROVE  PageTypes'
<1>1. UNCHANGED <<timer, context, shown, kept, ahead, draws, pendingSolve, ids, creating, rows, tried, solving>>
      /\ UNCHANGED <<solves, known>> /\ NextLoad /\ savers' = Loaded(savers) /\ requests # <<>>
  BY DEF SnapshotFails, Answering
<1>2. known' \in Helds
  BY <1>1 DEF PageTypes, LoadTypes
<1>3. /\ loading' \in Loadings /\ queued' \in BOOLEAN /\ requests' \in Seq(Requests)
      /\ queued' => loading' # Nothing
      /\ loading' # Nothing => loading'.query.session \in {NoSession} \cup Sessions
  BY <1>1, <1>2, NextLoadType
<1>4. savers' \in [SaverIds -> Savers]
  BY <1>1, LoadedType DEF PageTypes
<1>5. error' \in BOOLEAN /\ saving' \in BOOLEAN /\ generating' \in BOOLEAN /\ disturbed' \in BOOLEAN
  <2>1. PICK c : c = savers'
    OBVIOUS
  <2>2. Fail(c, draws)
    BY <2>1 DEF SnapshotFails
  <2> QED
    BY <2>2, FailType DEF PageTypes, PastTypes
<1>6. bounds' \in [moves : Nat, faults : Nat]
  BY SpentType DEF SnapshotFails
<1>7. missed' \in BOOLEAN
  <2>1. missed' = TRUE
    BY DEF SnapshotFails
  <2> QED
    BY <2>1
<1> QED
  BY <1>1, <1>3, <1>4, <1>5, <1>6, <1>7
  DEF PageTypes, ScrambleTypes, SaveTypes, LoadTypes, PastTypes, Sessions

LEMMA InitTypes ==
  ASSUME Init
  PROVE  PageTypes
<1>1. ScrambleTypes /\ context \in Contexts
  <2>1. generating \in BOOLEAN
    <3>1. generating = FALSE
      BY DEF Init
    <3> QED
      BY <3>1
  <2> QED
    BY <2>1, PageAssumption DEF Init, ScrambleTypes
<1>2. SaveTypes
  <2>1. saving \in BOOLEAN
    <3>1. saving = FALSE
      BY DEF Init
    <3> QED
      BY <3>1
  <2> QED
    BY <2>1, EmptySeq DEF Init, SaveTypes, Pendings, Savers, Sessions
<1>3. LoadTypes
  <2>1. ~queued /\ queued \in BOOLEAN
    <3>1. queued = FALSE
      BY DEF Init
    <3> QED
      BY <3>1
  <2> QED
    BY <2>1, EmptySeq DEF Init, LoadTypes, Loadings, Helds
<1>4. PastTypes
  <2>1. disturbed \in BOOLEAN /\ missed \in BOOLEAN
    <3>1. disturbed = FALSE /\ missed = FALSE
      BY DEF Init
    <3> QED
      BY <3>1
  <2> QED
    BY <2>1, EmptySeq DEF Init, PastTypes
<1> QED
  BY <1>1, <1>2, <1>3, <1>4, EmptySeq DEF Init, PageTypes

-----------------------------------------------------------------------------
(* The timer and the attempts it made, step by step.                       *)

\* What of an attempt made does not change.
SameAttempts ==
  /\ DOMAIN tried' = DOMAIN tried
  /\ \A n \in DOMAIN tried :
       /\ tried'[n].key = tried[n].key /\ tried'[n].scramble = tried[n].scramble
       /\ tried'[n].solving = tried[n].solving
       /\ tried'[n].dnf <=> tried[n].dnf
       /\ tried'[n].stray <=> tried[n].stray

LEMMA AttemptType ==
  ASSUME PageTypes
  PROVE  /\ DOMAIN tried = 1..Len(tried) /\ Len(tried) \in Nat
         /\ \A n \in DOMAIN tried : tried[n] \in Attempts
BY LenProperties, ElementOfSeq DEF PageTypes, PastTypes

LEMMA MoveTried ==
  ASSUME PageTypes, NEW key \in Contexts, Move(key)
  PROVE  /\ SameAttempts
         /\ \A n \in DOMAIN tried :
              /\ tried'[n].saved = tried[n].saved
              /\ tried'[n].failed <=> tried[n].failed
              /\ tried'[n].left <=> tried[n].left \/ (tried[n].key = context /\ tried[n].scramble = kept[context])
<1>1. tried' = [n \in DOMAIN tried |->
       IF tried[n].key = context /\ tried[n].scramble = kept[context]
       THEN [tried[n] EXCEPT !.left = TRUE] ELSE tried[n]]
  BY DEF Move
<1>2. \A r \in Attempts : LET u == [r EXCEPT !.left = TRUE] IN
        /\ u.key = r.key /\ u.scramble = r.scramble /\ u.solving = r.solving
        /\ u.saved = r.saved /\ u.left /\ u.dnf = r.dnf /\ u.stray = r.stray /\ u.failed = r.failed
  BY DEF Attempts
<1>3. ASSUME NEW n \in DOMAIN tried PROVE
        /\ tried'[n].key = tried[n].key /\ tried'[n].scramble = tried[n].scramble
        /\ tried'[n].solving = tried[n].solving
        /\ tried'[n].dnf <=> tried[n].dnf
        /\ tried'[n].stray <=> tried[n].stray
        /\ tried'[n].saved = tried[n].saved
        /\ tried'[n].failed <=> tried[n].failed
        /\ tried'[n].left <=> tried[n].left \/ (tried[n].key = context /\ tried[n].scramble = kept[context])
  <2>1. PICK r \in Attempts : r = tried[n]
    BY AttemptType
  <2>2. CASE r.key = context /\ r.scramble = kept[context]
    <3>1. PICK u : u = [r EXCEPT !.left = TRUE]
      OBVIOUS
    <3>2. tried'[n] = u
      BY <1>1, <2>1, <2>2, <3>1
    <3>3. /\ u.key = r.key /\ u.scramble = r.scramble /\ u.solving = r.solving
          /\ u.saved = r.saved /\ u.left /\ u.dnf = r.dnf /\ u.stray = r.stray /\ u.failed = r.failed
      BY <1>2, <3>1
    <3>4. tried'[n].dnf <=> tried[n].dnf
      BY <2>1, <3>2, <3>3
    <3>5. (tried'[n].failed <=> tried[n].failed) /\ (tried'[n].stray <=> tried[n].stray)
      BY <2>1, <3>2, <3>3
    <3>6. tried'[n].left <=> tried[n].left \/ (tried[n].key = context /\ tried[n].scramble = kept[context])
      BY <2>1, <2>2, <3>2, <3>3
    <3> QED
      BY <2>1, <3>2, <3>3, <3>4, <3>5, <3>6
  <2>3. CASE ~(r.key = context /\ r.scramble = kept[context])
    <3>1. tried'[n] = r
      BY <1>1, <2>1, <2>3
    <3> QED
      BY <2>1, <2>3, <3>1
  <2> QED
    BY <2>2, <2>3
<1>4. DOMAIN tried' = DOMAIN tried
  BY <1>1
<1> QED
  BY <1>3, <1>4 DEF SameAttempts

LEMMA FailedTried ==
  ASSUME PageTypes, NEW over, tried' = Failed(over)
  PROVE  /\ SameAttempts
         /\ \A n \in DOMAIN tried :
              /\ tried'[n].saved = tried[n].saved
              /\ tried'[n].left <=> tried[n].left
              /\ tried'[n].failed <=> tried[n].failed \/ \E i \in over : savers[i].attempt = n
<1> DEFINE is(n) == \E i \in over : savers[i].attempt = n
<1>1. tried' = [n \in DOMAIN tried |-> [tried[n] EXCEPT !.failed = @ \/ is(n)]]
  BY DEF Failed
<1>2. \A r \in Attempts : \A b \in BOOLEAN : LET u == [r EXCEPT !.failed = @ \/ b] IN
        /\ u.key = r.key /\ u.scramble = r.scramble /\ u.solving = r.solving
        /\ u.saved = r.saved /\ u.left = r.left /\ u.dnf = r.dnf /\ u.stray = r.stray /\ u.failed = (r.failed \/ b)
  BY DEF Attempts
<1>3. \A n \in DOMAIN tried : is(n) \in BOOLEAN
  OBVIOUS
<1> HIDE DEF is
<1>4. ASSUME NEW n \in DOMAIN tried PROVE
        /\ tried'[n].key = tried[n].key /\ tried'[n].scramble = tried[n].scramble
        /\ tried'[n].solving = tried[n].solving
        /\ tried'[n].dnf <=> tried[n].dnf
        /\ tried'[n].stray <=> tried[n].stray
        /\ tried'[n].saved = tried[n].saved
        /\ tried'[n].left <=> tried[n].left
        /\ tried'[n].failed <=> tried[n].failed \/ is(n)
  <2>1. PICK r \in Attempts : r = tried[n]
    BY AttemptType
  <2>2. PICK b \in BOOLEAN : b = is(n)
    BY <1>3
  <2>3. tried'[n] = [r EXCEPT !.failed = @ \/ b]
    BY <1>1, <2>1, <2>2
  <2>4. /\ tried'[n].key = r.key /\ tried'[n].scramble = r.scramble /\ tried'[n].solving = r.solving
        /\ tried'[n].saved = r.saved /\ tried'[n].left = r.left /\ tried'[n].dnf = r.dnf
        /\ tried'[n].stray = r.stray
        /\ tried'[n].failed = (r.failed \/ b)
    BY <1>2, <2>3
  <2> QED
    BY <2>1, <2>2, <2>4
<1>5. DOMAIN tried' = DOMAIN tried
  BY <1>1
<1> QED
  BY <1>4, <1>5 DEF SameAttempts, is

LEMMA AddedTried ==
  ASSUME PageTypes, SolveAdded
  PROVE  /\ SameAttempts
         /\ \A n \in DOMAIN tried :
              /\ tried'[n].left <=> tried[n].left
              /\ tried'[n].failed <=> tried[n].failed
              /\ tried'[n].saved = IF n = Head(requests).attempt THEN tried[n].saved + 1 ELSE tried[n].saved
<1>1. PICK a : a = Head(requests).attempt
  OBVIOUS
<1>2. tried' = [tried EXCEPT ![a] = [tried[a] EXCEPT !.saved = @ + 1]]
  BY <1>1 DEF SolveAdded
<1>3. \A r \in Attempts : LET u == [r EXCEPT !.saved = @ + 1] IN
        /\ u.key = r.key /\ u.scramble = r.scramble /\ u.solving = r.solving
        /\ u.saved = r.saved + 1 /\ u.left = r.left /\ u.dnf = r.dnf /\ u.stray = r.stray /\ u.failed = r.failed
  BY DEF Attempts
<1>4. ASSUME NEW n \in DOMAIN tried PROVE
        /\ tried'[n].key = tried[n].key /\ tried'[n].scramble = tried[n].scramble
        /\ tried'[n].solving = tried[n].solving
        /\ tried'[n].dnf <=> tried[n].dnf
        /\ tried'[n].stray <=> tried[n].stray
        /\ tried'[n].left <=> tried[n].left
        /\ tried'[n].failed <=> tried[n].failed
        /\ tried'[n].saved = IF n = a THEN tried[n].saved + 1 ELSE tried[n].saved
  <2>1. PICK r \in Attempts : r = tried[n]
    BY AttemptType
  <2>2. CASE n = a
    <3>1. tried'[n] = [r EXCEPT !.saved = @ + 1]
      BY <1>2, <2>1, <2>2
    <3> QED
      BY <1>3, <2>1, <2>2, <3>1
  <2>3. CASE n # a
    <3>1. tried'[n] = r
      BY <1>2, <2>1, <2>3
    <3> QED
      BY <2>1, <2>3, <3>1
  <2> QED
    BY <2>2, <2>3
<1>5. DOMAIN tried' = DOMAIN tried
  BY <1>2
<1> QED
  BY <1>1, <1>4, <1>5 DEF SameAttempts

\* An attempt made is of the context and the scramble shown.
LEMMA MadeTried ==
  ASSUME PageTypes, NEW penalty, tried' = Append(tried, Tried(penalty))
  PROVE  /\ DOMAIN tried' = 1..(Len(tried) + 1)
         /\ \A n \in DOMAIN tried : tried'[n] = tried[n]
         /\ LET new == tried'[Len(tried) + 1] IN
              /\ new.key = context /\ new.scramble = shown /\ new.solving = solving
              /\ new.dnf <=> penalty = "dnf"
              /\ new.saved = 0 /\ ~new.failed /\ ~new.left
              /\ new.stray <=> shown # kept[context]
<1>1. PICK e \in Attempts : e = Tried(penalty)
  BY TriedType DEF PageTypes
<1>2. /\ e.key = context /\ e.scramble = shown /\ e.solving = solving
      /\ e.dnf <=> penalty = "dnf"
      /\ e.saved = 0 /\ ~e.failed /\ ~e.left
      /\ e.stray <=> shown # kept[context]
  BY <1>1 DEF Tried
<1>3. tried' = Append(tried, e) /\ tried \in Seq(Attempts)
  BY <1>1 DEF PageTypes, PastTypes
<1>4. Len(tried') = Len(tried) + 1 /\ tried' \in Seq(Attempts) /\ tried'[Len(tried) + 1] = e
      /\ \A n \in 1..Len(tried) : tried'[n] = tried[n]
  BY <1>3, AppendProperties
<1>5. DOMAIN tried' = 1..(Len(tried) + 1)
  BY <1>4, LenProperties
<1> QED
  BY <1>2, <1>4, <1>5, AttemptType

LEMMA TimedTimer ==
  ASSUME PageTypes, TimerInv, Timed
  PROVE  TimerInv'
<1>1. PICK t : Becomes(t) /\ Goes(timer, t, Enabled)
  BY DEF Timed
<1>2. timer' = [t EXCEPT !.attempt = NoAttempt] /\ Sound(t)
  BY <1>1 DEF Becomes, Goes
<1>3. Sound(timer)' /\ timer'.attempt = NoAttempt /\ timer'.phase = t.phase
  <2>1. PICK u : u = [t EXCEPT !.attempt = NoAttempt]
    OBVIOUS
  <2>2. Sound(u) /\ u.attempt = NoAttempt /\ u.phase = t.phase
    BY <1>2, <2>1, RestedSound
  <2> QED
    BY <1>2, <2>1, <2>2 DEF Sound
<1>4. timer'.phase = "running" <=> solving' # NoSolve
  BY <1>1, <1>3 DEF Becomes, TimerInv, PageTypes, ScrambleTypes, NoSolve
<1>5. DnfNeverStarted'
  <2>1. CASE t.attempt.ended /\ Save(t.attempt.penalty)
    <3>1. PICK penalty : penalty = t.attempt.penalty
      OBVIOUS
    <3>2. tried' = Append(tried, Tried(penalty)) /\ (penalty = "dnf" <=> timer.phase # "running")
      BY <1>1, <2>1, <3>1 DEF Save, Goes
    <3>3. penalty = "dnf" <=> solving = NoSolve
      BY <3>2 DEF TimerInv
    <3> QED
      BY <3>2, <3>3, MadeTried, AttemptType DEF TimerInv, DnfNeverStarted
  <2>2. CASE UNCHANGED tried
    BY <2>2 DEF TimerInv, DnfNeverStarted
  <2> QED
    BY <1>1, <2>1, <2>2 DEF Becomes
<1> QED
  BY <1>3, <1>4, <1>5 DEF TimerInv

LEMMA SameDnf ==
  ASSUME SameAttempts, DnfNeverStarted
  PROVE  DnfNeverStarted'
BY DEF SameAttempts, DnfNeverStarted

LEMMA StillTimer ==
  ASSUME TimerInv, UNCHANGED <<timer, solving>>, SameAttempts
  PROVE  TimerInv'
<1>1. Sound(timer)'
  BY DEF TimerInv, Sound
<1> QED
  BY <1>1, SameDnf DEF TimerInv

LEMMA TriedStays ==
  ASSUME UNCHANGED tried
  PROVE  SameAttempts
BY DEF SameAttempts

LEMMA TimerStep ==
  ASSUME PageTypes, TimerInv, Next
  PROVE  TimerInv'
<1>1. ASSUME (\E kind \in InputKind, at \in 0..timer.age : Dispatch(kind, at)) \/ HoldTimeout \/ ExpiryTimeout
      PROVE  TimerInv'
  <2>1. Enabled \in BOOLEAN
    BY DEF Enabled
  <2> QED
    BY <1>1, <2>1, TimedSteps, TimedTimer DEF TimerInv
<1>2. CASE Tick
  <2>1. PICK u : u = [timer EXCEPT !.age = @ + 1]
    OBVIOUS
  <2>2. Sound(u) /\ u.attempt = NoAttempt /\ u.phase = timer.phase
    BY <1>2, <2>1, OlderSound DEF Tick, TimerInv
  <2>3. timer' = u /\ solving' = solving /\ tried' = tried
    BY <1>2, <2>1 DEF Tick, history
  <2>4. Sound(timer)'
    BY <2>2, <2>3 DEF Sound
  <2> QED
    BY <2>2, <2>3, <2>4 DEF TimerInv, DnfNeverStarted
<1>3. ASSUME timer' = Reset(timer), solving' = NoSolve, SameAttempts PROVE TimerInv'
  <2>1. PICK u : u = Reset(timer)
    OBVIOUS
  <2>2. Sound(u) /\ u.attempt = NoAttempt /\ u.phase = "idle"
    BY <2>1, ResetSound DEF TimerInv
  <2>3. Sound(timer)'
    BY <1>3, <2>1, <2>2 DEF Sound
  <2> QED
    BY <1>3, <2>1, <2>2, <2>3, SameDnf DEF TimerInv
<1>4. CASE SkipScramble
  BY <1>3, <1>4, TriedStays DEF SkipScramble, Command, TimerInv, history
<1>5. ASSUME NEW key \in Contexts, Move(key) PROVE TimerInv'
  <2>1. SameAttempts
    BY <1>5, MoveTried
  <2> QED
    BY <1>3, <1>5, <2>1 DEF Move
<1>6. CASE Dismiss \/ Retry \/ ElsewhereFails \/ \E s \in Sessions : Changed(s)
  BY <1>6, StillTimer, TriedStays DEF Dismiss, Retry, ElsewhereFails, Changed, history
<1>7. CASE \E s \in draws : Found(s) \/ NotFound(s)
  BY <1>7, StillTimer, TriedStays DEF Found, NotFound, history
<1>8. CASE SessionFails \/ AddFails
  <2>1. PICK over : tried' = Failed(over)
    BY <1>8 DEF SessionFails, AddFails
  <2>2. SameAttempts
    BY <2>1, FailedTried
  <2> QED
    BY <1>8, <2>2, StillTimer DEF SessionFails, AddFails
<1>9. CASE SolveAdded
  BY <1>9, AddedTried, StillTimer DEF SolveAdded
<1>10. CASE SessionCreated \/ (\E i \in SaverIds : SaveEnds(i)) \/ Synced \/ SyncFails \/ SnapshotRead \/ SnapshotFails
  BY <1>10, StillTimer, TriedStays DEF SessionCreated, SaveEnds, Synced, SyncFails, SnapshotRead, SnapshotFails, history
<1> QED
  BY <1>1, <1>2, <1>4, <1>5, <1>6, <1>7, <1>8, <1>9, <1>10 DEF Next, Player, EngineAnswers

LEMMA InitTimer ==
  ASSUME Init
  PROVE  TimerInv
<1>1. timer = NewTimer /\ solving = NoSolve /\ DOMAIN tried = {}
  BY DEF Init
<1>2. NewTimer \in Timer
  <2>1. 0 \in Ages
    BY DEF Ages
  <2> QED
    BY <2>1, Zenon DEF NewTimer, Timer, TimerPhase, Penalty
<1>3. /\ NewTimer.phase = "idle" /\ ~NewTimer.inspected /\ ~NewTimer.expiry /\ NewTimer.hold = {}
      /\ NewTimer.attempt = NoAttempt
  BY DEF NewTimer
<1>4. Sound(NewTimer)
  BY <1>2, <1>3 DEF Sound
<1> QED
  BY <1>1, <1>3, <1>4 DEF TimerInv, DnfNeverStarted

-----------------------------------------------------------------------------
(* What is asked of the engine, and what waits for it.                     *)

LEMMA AskedAppend ==
  ASSUME NEW q \in Seq(Requests), NEW r \in Requests
  PROVE  Asked(Append(q, r)) = Asked(q) \cup {r}
<1>1. PICK u \in Seq(Requests) : u = Append(q, r)
  BY AppendProperties
<1>2. /\ Len(u) = Len(q) + 1 /\ Len(q) \in Nat /\ DOMAIN q = 1..Len(q) /\ DOMAIN u = 1..(Len(q) + 1)
      /\ u[Len(q) + 1] = r /\ \A n \in 1..Len(q) : u[n] = q[n]
  BY <1>1, AppendProperties, LenProperties
<1>3. Asked(u) = Asked(q) \cup {r}
  <2>1. ASSUME NEW n \in DOMAIN u PROVE u[n] \in Asked(q) \cup {r}
    BY <1>2 DEF Asked
  <2>2. r \in Asked(u) /\ \A n \in DOMAIN q : q[n] \in Asked(u)
    BY <1>2 DEF Asked
  <2> QED
    BY <2>1, <2>2 DEF Asked
<1> QED
  BY <1>1, <1>3

LEMMA AskedConcat ==
  ASSUME NEW p \in Seq(Requests), NEW q \in Seq(Requests)
  PROVE  Asked(p \o q) = Asked(p) \cup Asked(q)
<1>1. PICK u \in Seq(Requests) : u = p \o q
  BY ConcatProperties
<1>2. /\ Len(p) \in Nat /\ Len(q) \in Nat /\ DOMAIN p = 1..Len(p) /\ DOMAIN q = 1..Len(q)
      /\ DOMAIN u = 1..(Len(p) + Len(q))
      /\ \A n \in 1..(Len(p) + Len(q)) : u[n] = IF n <= Len(p) THEN p[n] ELSE q[n - Len(p)]
  BY <1>1, ConcatProperties, LenProperties
<1>3. ASSUME NEW n \in DOMAIN u PROVE u[n] \in Asked(p) \cup Asked(q)
  <2>1. CASE n <= Len(p)
    <3>1. n \in DOMAIN p /\ u[n] = p[n]
      BY <1>2, <2>1
    <3> QED
      BY <3>1 DEF Asked
  <2>2. CASE n > Len(p)
    <3>1. n - Len(p) \in DOMAIN q /\ u[n] = q[n - Len(p)]
      BY <1>2, <2>2
    <3> QED
      BY <3>1 DEF Asked
  <2> QED
    BY <1>2, <2>1, <2>2
<1>4. ASSUME NEW n \in DOMAIN p PROVE p[n] \in Asked(u)
  BY <1>2 DEF Asked
<1>5. ASSUME NEW n \in DOMAIN q PROVE q[n] \in Asked(u)
  <2>1. n + Len(p) \in DOMAIN u /\ u[n + Len(p)] = q[n]
    BY <1>2
  <2> QED
    BY <2>1 DEF Asked
<1>6. Asked(u) = Asked(p) \cup Asked(q)
  BY <1>3, <1>4, <1>5 DEF Asked
<1> QED
  BY <1>1, <1>6

LEMMA AskedTail ==
  ASSUME NEW q \in Seq(Requests), q # <<>>
  PROVE  /\ Head(q) \in Asked(q) /\ Head(q) = q[1]
         /\ Asked(q) = Asked(Tail(q)) \cup {Head(q)}
         /\ Single(q) =>
              /\ Single(Tail(q))
              /\ Tag(Head(q)) # <<"sync", 0>> => ~Awaits(Tail(q), Tag(Head(q)))
<1>1. PICK u \in Seq(Requests) : u = Tail(q)
  BY HeadTailProperties
<1>2. /\ Len(q) \in Nat /\ Len(q) >= 1 /\ Len(u) = Len(q) - 1 /\ DOMAIN q = 1..Len(q) /\ DOMAIN u = 1..Len(u)
      /\ \A n \in 1..Len(u) : u[n] = q[n + 1]
      /\ Head(q) = q[1]
  BY <1>1, HeadTailProperties, LenProperties, EmptySeq
<1>3. Head(q) \in Asked(q)
  BY <1>2 DEF Asked
<1>4. Asked(q) = Asked(u) \cup {Head(q)}
  <2>1. ASSUME NEW n \in DOMAIN q PROVE q[n] \in Asked(u) \cup {Head(q)}
    <3>1. CASE n = 1
      BY <1>2, <3>1
    <3>2. CASE n # 1
      <4>1. n - 1 \in DOMAIN u /\ u[n - 1] = q[n]
        BY <1>2, <3>2
      <4> QED
        BY <4>1 DEF Asked
    <3> QED
      BY <3>1, <3>2
  <2>2. ASSUME NEW n \in DOMAIN u PROVE u[n] \in Asked(q)
    BY <1>2 DEF Asked
  <2> QED
    BY <1>3, <2>1, <2>2 DEF Asked
<1>5. ASSUME Single(q) PROVE Single(u)
  <2> SUFFICES ASSUME NEW m \in DOMAIN u, NEW n \in DOMAIN u, Tag(u[m]) = Tag(u[n])
               PROVE  m = n \/ Tag(u[n]) = <<"sync", 0>>
    BY DEF Single
  <2>1. m + 1 \in DOMAIN q /\ n + 1 \in DOMAIN q /\ u[m] = q[m + 1] /\ u[n] = q[n + 1]
    BY <1>2
  <2>2. m + 1 = n + 1 \/ Tag(q[n + 1]) = <<"sync", 0>>
    BY <1>5, <2>1 DEF Single
  <2> QED
    BY <1>2, <2>1, <2>2
<1>6. ASSUME Single(q), Tag(Head(q)) # <<"sync", 0>>, NEW n \in DOMAIN u PROVE Tag(u[n]) # Tag(Head(q))
  <2>1. n + 1 \in DOMAIN q /\ 1 \in DOMAIN q /\ u[n] = q[n + 1] /\ n + 1 # 1
    BY <1>2
  <2> QED
    BY <1>2, <1>6, <2>1 DEF Single
<1>7. ASSUME Single(q), Tag(Head(q)) # <<"sync", 0>> PROVE ~Awaits(u, Tag(Head(q)))
  BY <1>6, <1>7 DEF Awaits, Asked
<1> QED
  BY <1>1, <1>2, <1>3, <1>4, <1>5, <1>7

LEMMA SingleAppend ==
  ASSUME NEW q \in Seq(Requests), NEW r \in Requests, Single(q),
         Tag(r) = <<"sync", 0>> \/ ~Awaits(q, Tag(r))
  PROVE  Single(Append(q, r))
<1>1. PICK u \in Seq(Requests) : u = Append(q, r)
  BY AppendProperties
<1>2. /\ Len(u) = Len(q) + 1 /\ Len(q) \in Nat /\ DOMAIN q = 1..Len(q) /\ DOMAIN u = 1..(Len(q) + 1)
      /\ u[Len(q) + 1] = r /\ \A n \in 1..Len(q) : u[n] = q[n]
  BY <1>1, AppendProperties, LenProperties
<1>3. \A n \in DOMAIN q : Tag(q[n]) = Tag(r) => Tag(r) = <<"sync", 0>>
  BY DEF Awaits, Asked
<1>4. ASSUME NEW m \in DOMAIN u, NEW n \in DOMAIN u, Tag(u[m]) = Tag(u[n])
      PROVE  m = n \/ Tag(u[n]) = <<"sync", 0>>
  <2>1. CASE m \in DOMAIN q /\ n \in DOMAIN q
    BY <1>2, <1>4, <2>1 DEF Single
  <2>2. CASE m = Len(q) + 1 \/ n = Len(q) + 1
    BY <1>2, <1>3, <1>4, <2>2
  <2> QED
    BY <1>2, <2>1, <2>2
<1> QED
  BY <1>1, <1>4 DEF Single

LEMMA SingleConcat ==
  ASSUME NEW p \in Seq(Requests), NEW q \in Seq(Requests), Single(p), Single(q),
         \A r \in Asked(q) : Tag(r) = <<"sync", 0>> \/ ~Awaits(p, Tag(r))
  PROVE  Single(p \o q)
<1>1. PICK u \in Seq(Requests) : u = p \o q
  BY ConcatProperties
<1>2. /\ Len(p) \in Nat /\ Len(q) \in Nat /\ DOMAIN p = 1..Len(p) /\ DOMAIN q = 1..Len(q)
      /\ DOMAIN u = 1..(Len(p) + Len(q))
      /\ \A n \in 1..(Len(p) + Len(q)) : u[n] = IF n <= Len(p) THEN p[n] ELSE q[n - Len(p)]
  BY <1>1, ConcatProperties, LenProperties
<1>3. \A m \in DOMAIN p : \A n \in DOMAIN q : Tag(p[m]) = Tag(q[n]) => Tag(q[n]) = <<"sync", 0>>
  BY DEF Awaits, Asked
<1>4. ASSUME NEW m \in DOMAIN u, NEW n \in DOMAIN u, Tag(u[m]) = Tag(u[n])
      PROVE  m = n \/ Tag(u[n]) = <<"sync", 0>>
  <2>1. CASE m <= Len(p) /\ n <= Len(p)
    <3>1. m \in DOMAIN p /\ n \in DOMAIN p /\ u[m] = p[m] /\ u[n] = p[n]
      BY <1>2, <2>1
    <3> QED
      BY <1>4, <3>1 DEF Single
  <2>2. CASE m > Len(p) /\ n > Len(p)
    <3>1. /\ m - Len(p) \in DOMAIN q /\ n - Len(p) \in DOMAIN q /\ u[m] = q[m - Len(p)] /\ u[n] = q[n - Len(p)]
          /\ (m - Len(p) = n - Len(p)) => m = n
      BY <1>2, <2>2
    <3> QED
      BY <1>4, <3>1 DEF Single
  <2>3. CASE m <= Len(p) /\ n > Len(p)
    <3>1. m \in DOMAIN p /\ n - Len(p) \in DOMAIN q /\ u[m] = p[m] /\ u[n] = q[n - Len(p)]
      BY <1>2, <2>3
    <3> QED
      BY <1>3, <1>4, <3>1
  <2>4. CASE m > Len(p) /\ n <= Len(p)
    <3>1. n \in DOMAIN p /\ m - Len(p) \in DOMAIN q /\ u[n] = p[n] /\ u[m] = q[m - Len(p)]
      BY <1>2, <2>4
    <3> QED
      BY <1>3, <1>4, <3>1
  <2> QED
    BY <1>2, <2>1, <2>2, <2>3, <2>4
<1> QED
  BY <1>1, <1>4 DEF Single

LEMMA Tags ==
  /\ \A r \in Requests :
       /\ r.kind = "snapshot" <=> Tag(r) = <<"snapshot", 0>>
       /\ r.kind = "sync" <=> Tag(r) = <<"sync", 0>>
       /\ r.kind = "addSolve" => Tag(r) = <<"addSolve", r.by>>
       /\ r.kind = "createSession" => Tag(r) = <<"createSession", r.key>>
       /\ \A i : Tag(r) = <<"addSolve", i>> => r.kind = "addSolve" /\ r.by = i
       /\ \A k : Tag(r) = <<"createSession", k>> => r.kind = "createSession" /\ r.key = k
       /\ r.kind \in {"snapshot", "sync", "addSolve", "createSession"}
  /\ \A i, k : /\ <<"addSolve", i>> # <<"createSession", k>>
               /\ <<"addSolve", i>> # <<"snapshot", 0>>
               /\ <<"addSolve", i>> # <<"sync", 0>>
               /\ <<"createSession", k>> # <<"snapshot", 0>>
               /\ <<"createSession", k>> # <<"sync", 0>>
  /\ <<"snapshot", 0>> # <<"sync", 0>>
<1>1. \A r \in Requests : r.kind \in {"snapshot", "sync", "addSolve", "createSession"}
  BY DEF Requests
<1> QED
  BY <1>1 DEF Tag

LEMMA AskedType ==
  ASSUME NEW q \in Seq(Requests)
  PROVE  Asked(q) \subseteq Requests
BY LenProperties, ElementOfSeq DEF Asked

\* What an engine's answer takes off its requests.
LEMMA BackedTail ==
  ASSUME NEW q \in Seq(Requests), q # <<>>, NEW calls, NEW made, NEW load, Backed(q, calls, made, load)
  PROVE  /\ \A tag : tag # Tag(Head(q)) => (Awaits(Tail(q), tag) <=> Awaits(q, tag))
         /\ Awaits(q, Tag(Head(q))) /\ Head(q) \in Requests
         /\ Tag(Head(q)) # <<"sync", 0>> => ~Awaits(Tail(q), Tag(Head(q)))
         /\ Single(Tail(q)) /\ Asked(Tail(q)) \subseteq Asked(q) /\ Tail(q) \in Seq(Requests)
<1>1. Single(q)
  BY DEF Backed
<1>2. /\ Head(q) \in Asked(q) /\ Asked(q) = Asked(Tail(q)) \cup {Head(q)}
      /\ Single(Tail(q))
      /\ Tag(Head(q)) # <<"sync", 0>> => ~Awaits(Tail(q), Tag(Head(q)))
  BY <1>1, AskedTail
<1>3. Head(q) \in Requests /\ Tail(q) \in Seq(Requests)
  BY HeadTailProperties
<1> QED
  BY <1>2, <1>3 DEF Awaits

LEMMA ReadOff ==
  ASSUME NEW q \in Seq(Requests), q # <<>>, NEW calls, NEW made, NEW load, Backed(q, calls, made, load),
         Head(q).kind = "snapshot"
  PROVE  Backed(Tail(q), calls, made, Nothing) /\ load # Nothing
<1>0. /\ \A tag : tag # Tag(Head(q)) => (Awaits(Tail(q), tag) <=> Awaits(q, tag))
      /\ Awaits(q, Tag(Head(q))) /\ Head(q) \in Requests
      /\ Tag(Head(q)) # <<"sync", 0>> => ~Awaits(Tail(q), Tag(Head(q)))
      /\ Single(Tail(q)) /\ Asked(Tail(q)) \subseteq Asked(q)
  BY BackedTail
<1>1. Tag(Head(q)) = <<"snapshot", 0>>
  BY <1>0, Tags
<1>2. load # Nothing /\ ~Awaits(Tail(q), <<"snapshot", 0>>)
  BY <1>0, <1>1, Tags DEF Backed
<1>3. \A i \in SaverIds : Awaits(Tail(q), <<"addSolve", i>>) <=> calls[i].stage = "add"
  BY <1>0, <1>1, Tags DEF Backed
<1>4. \A k \in Contexts : Awaits(Tail(q), <<"createSession", k>>) <=> k \in made
  BY <1>0, <1>1, Tags DEF Backed
<1> QED
  BY <1>0, <1>2, <1>3, <1>4 DEF Backed

LEMMA SyncOff ==
  ASSUME NEW q \in Seq(Requests), q # <<>>, NEW calls, NEW made, NEW load, Backed(q, calls, made, load),
         Head(q).kind = "sync"
  PROVE  Backed(Tail(q), calls, made, load)
<1>0. /\ \A tag : tag # Tag(Head(q)) => (Awaits(Tail(q), tag) <=> Awaits(q, tag))
      /\ Awaits(q, Tag(Head(q))) /\ Head(q) \in Requests
      /\ Tag(Head(q)) # <<"sync", 0>> => ~Awaits(Tail(q), Tag(Head(q)))
      /\ Single(Tail(q)) /\ Asked(Tail(q)) \subseteq Asked(q)
  BY BackedTail
<1>1. Tag(Head(q)) = <<"sync", 0>>
  BY <1>0, Tags
<1>2. Awaits(Tail(q), <<"snapshot", 0>>) <=> load # Nothing
  BY <1>0, <1>1, Tags DEF Backed
<1>3. \A i \in SaverIds : Awaits(Tail(q), <<"addSolve", i>>) <=> calls[i].stage = "add"
  BY <1>0, <1>1, Tags DEF Backed
<1>4. \A k \in Contexts : Awaits(Tail(q), <<"createSession", k>>) <=> k \in made
  BY <1>0, <1>1, Tags DEF Backed
<1> QED
  BY <1>0, <1>2, <1>3, <1>4 DEF Backed

LEMMA CreationOff ==
  ASSUME NEW q \in Seq(Requests), q # <<>>, NEW calls, NEW made, NEW load, Backed(q, calls, made, load),
         NEW k \in Contexts, Head(q).kind = "createSession", Head(q).key = k
  PROVE  Backed(Tail(q), calls, made \ {k}, load) /\ k \in made
<1>0. /\ \A tag : tag # Tag(Head(q)) => (Awaits(Tail(q), tag) <=> Awaits(q, tag))
      /\ Awaits(q, Tag(Head(q))) /\ Head(q) \in Requests
      /\ Tag(Head(q)) # <<"sync", 0>> => ~Awaits(Tail(q), Tag(Head(q)))
      /\ Single(Tail(q)) /\ Asked(Tail(q)) \subseteq Asked(q)
  BY BackedTail
<1>1. Tag(Head(q)) = <<"createSession", k>>
  BY <1>0, Tags
<1>2. ~Awaits(Tail(q), <<"createSession", k>>) /\ Awaits(q, <<"createSession", k>>)
  BY <1>0, <1>1, Tags
<1>3. ASSUME NEW j \in Contexts
      PROVE  Awaits(Tail(q), <<"createSession", j>>) <=> j \in made \ {k}
  <2>1. CASE j = k
    BY <1>2, <2>1
  <2>2. CASE j # k
    <3>0. <<"createSession", j>> # <<"createSession", k>>
      BY <2>2
    <3>1. PICK tag : tag = <<"createSession", j>> /\ tag # Tag(Head(q))
      BY <1>1, <3>0
    <3>2. Awaits(Tail(q), tag) <=> Awaits(q, tag)
      BY <1>0, <3>1
    <3> QED
      BY <2>2, <3>1, <3>2 DEF Backed
  <2> QED
    BY <2>1, <2>2
<1>4. \A i \in SaverIds : Awaits(Tail(q), <<"addSolve", i>>) <=> calls[i].stage = "add"
  BY <1>0, <1>1, Tags DEF Backed
<1>5. Awaits(Tail(q), <<"snapshot", 0>>) <=> load # Nothing
  BY <1>0, <1>1, Tags DEF Backed
<1>6. k \in made
  BY <1>2 DEF Backed
<1> QED
  BY <1>0, <1>3, <1>4, <1>5, <1>6 DEF Backed

LEMMA AddOff ==
  ASSUME NEW q \in Seq(Requests), q # <<>>, NEW calls, NEW made, NEW load, Backed(q, calls, made, load),
         NEW i \in SaverIds, Head(q).kind = "addSolve", Head(q).by = i,
         NEW after, after[i].stage # "add",
         \A j \in SaverIds : j # i => after[j].stage = calls[j].stage /\ after[j].attempt = calls[j].attempt
  PROVE  Backed(Tail(q), after, made, load) /\ calls[i].stage = "add" /\ Head(q).attempt = calls[i].attempt
<1>0. /\ \A tag : tag # Tag(Head(q)) => (Awaits(Tail(q), tag) <=> Awaits(q, tag))
      /\ Awaits(q, Tag(Head(q))) /\ Head(q) \in Requests
      /\ Tag(Head(q)) # <<"sync", 0>> => ~Awaits(Tail(q), Tag(Head(q)))
      /\ Single(Tail(q)) /\ Asked(Tail(q)) \subseteq Asked(q)
  BY BackedTail
<1>1. Tag(Head(q)) = <<"addSolve", i>>
  BY <1>0, Tags
<1>2. ~Awaits(Tail(q), <<"addSolve", i>>) /\ Awaits(q, <<"addSolve", i>>)
  BY <1>0, <1>1, Tags
<1>3. ASSUME NEW j \in SaverIds
      PROVE  Awaits(Tail(q), <<"addSolve", j>>) <=> after[j].stage = "add"
  <2>1. CASE j = i
    BY <1>2, <2>1
  <2>2. CASE j # i
    <3>0. <<"addSolve", j>> # <<"addSolve", i>>
      BY <2>2
    <3>1. PICK tag : tag = <<"addSolve", j>> /\ tag # Tag(Head(q))
      BY <1>1, <3>0
    <3>2. Awaits(Tail(q), tag) <=> Awaits(q, tag)
      BY <1>0, <3>1
    <3> QED
      BY <2>2, <3>1, <3>2 DEF Backed
  <2> QED
    BY <2>1, <2>2
<1>4. \A r \in Asked(Tail(q)) : r.kind = "addSolve" => r.attempt = after[r.by].attempt
  <2> SUFFICES ASSUME NEW r \in Asked(Tail(q)), r.kind = "addSolve" PROVE r.attempt = after[r.by].attempt
    OBVIOUS
  <2>1. r \in Asked(q) /\ r \in Requests
    BY <1>0, AskedType
  <2>2. r.by \in SaverIds /\ Tag(r) = <<"addSolve", r.by>>
    BY <2>1, KindTypes, Tags
  <2>3. r.by # i
    BY <1>2, <2>2 DEF Awaits
  <2> QED
    BY <2>1, <2>2, <2>3 DEF Backed
<1>5. calls[i].stage = "add" /\ Head(q).attempt = calls[i].attempt
  <2>1. Head(q) \in Asked(q)
    BY AskedTail
  <2> QED
    BY <1>2, <2>1 DEF Backed
<1>6. \A k \in Contexts : Awaits(Tail(q), <<"createSession", k>>) <=> k \in made
  BY <1>0, <1>1, Tags DEF Backed
<1>7. Awaits(Tail(q), <<"snapshot", 0>>) <=> load # Nothing
  BY <1>0, <1>1, Tags DEF Backed
<1> QED
  BY <1>0, <1>3, <1>4, <1>5, <1>6, <1>7 DEF Backed

\* What the page's requests add.
LEMMA AwaitsAppend ==
  ASSUME NEW q \in Seq(Requests), NEW r \in Requests
  PROVE  \A tag : Awaits(Append(q, r), tag) <=> Awaits(q, tag) \/ Tag(r) = tag
BY AskedAppend DEF Awaits

LEMMA SyncOn ==
  ASSUME NEW q \in Seq(Requests), NEW calls, NEW made, NEW load, Backed(q, calls, made, load)
  PROVE  Backed(Append(q, [kind |-> "sync"]), calls, made, load)
<1>1. PICK r \in Requests : r = [kind |-> "sync"]
  BY RequestTypes
<1>2. Tag(r) = <<"sync", 0>> /\ r.kind = "sync"
  BY <1>1, Tags
<1>3. Single(Append(q, r))
  BY <1>2, SingleAppend DEF Backed
<1>4. Backed(Append(q, r), calls, made, load)
  BY <1>2, <1>3, AwaitsAppend, AskedAppend, Tags DEF Backed
<1> QED
  BY <1>1, <1>4

LEMMA ReadOn ==
  ASSUME NEW q \in Seq(Requests), NEW calls, NEW made, NEW load, Backed(q, calls, made, Nothing),
         load # Nothing, NEW query \in Queries, NEW h \in Helds
  PROVE  Backed(Append(q, [kind |-> "snapshot", query |-> query, known |-> h]), calls, made, load)
<1>1. PICK r \in Requests : r = [kind |-> "snapshot", query |-> query, known |-> h]
  BY RequestTypes
<1>2. Tag(r) = <<"snapshot", 0>> /\ r.kind = "snapshot"
  BY <1>1, Tags
<1>3. Single(Append(q, r))
  BY <1>2, SingleAppend DEF Backed
<1>4. Backed(Append(q, r), calls, made, load)
  BY <1>2, <1>3, AwaitsAppend, AskedAppend, Tags DEF Backed
<1> QED
  BY <1>1, <1>4

LEMMA CreationOn ==
  ASSUME NEW q \in Seq(Requests), NEW calls, NEW made, NEW load, Backed(q, calls, made, load),
         NEW k \in Contexts, k \notin made
  PROVE  Backed(Append(q, [kind |-> "createSession", key |-> k]), calls, made \cup {k}, load)
<1>1. PICK r \in Requests : r = [kind |-> "createSession", key |-> k]
  BY RequestTypes
<1>2. Tag(r) = <<"createSession", k>> /\ r.kind = "createSession"
  BY <1>1, Tags
<1>3. Single(Append(q, r))
  BY <1>2, SingleAppend DEF Backed
<1>4. \A j \in Contexts : Awaits(Append(q, r), <<"createSession", j>>) <=> j \in made \cup {k}
  <2>1. \A j \in Contexts : <<"createSession", k>> = <<"createSession", j>> <=> j = k
    OBVIOUS
  <2> QED
    BY <1>2, <2>1, AwaitsAppend DEF Backed
<1>5. Backed(Append(q, r), calls, made \cup {k}, load)
  BY <1>2, <1>3, <1>4, AwaitsAppend, AskedAppend, Tags DEF Backed
<1> QED
  BY <1>1, <1>5

\* Of the calls of savePending, it tells those that send and their attempts.
LEMMA OtherCalls ==
  ASSUME NEW q \in Seq(Requests), NEW calls, NEW made, NEW load, Backed(q, calls, made, load),
         NEW others,
         \A i \in SaverIds : others[i].stage = "add" <=> calls[i].stage = "add",
         \A i \in SaverIds : calls[i].stage = "add" => others[i].attempt = calls[i].attempt
  PROVE  Backed(q, others, made, load)
<1>1. \A r \in Asked(q) : r.kind = "addSolve" => r.attempt = others[r.by].attempt
  <2> SUFFICES ASSUME NEW r \in Asked(q), r.kind = "addSolve" PROVE r.attempt = others[r.by].attempt
    OBVIOUS
  <2>1. r \in Requests
    BY AskedType
  <2>2. r.by \in SaverIds /\ Tag(r) = <<"addSolve", r.by>>
    BY <2>1, KindTypes, Tags
  <2>3. calls[r.by].stage = "add"
    BY <2>2 DEF Awaits, Backed
  <2> QED
    BY <2>2, <2>3 DEF Backed
<1> QED
  BY <1>1 DEF Backed

\* Solves are sent, once each, by calls that sent none.
Sends(sent, by, calls, others) ==
  /\ \A n \in DOMAIN sent : /\ sent[n].kind = "addSolve" /\ sent[n].by \in by
                            /\ sent[n].attempt = others[sent[n].by].attempt
  /\ \A i \in by : \E n \in DOMAIN sent : sent[n].by = i
  /\ \A m, n \in DOMAIN sent : sent[m].by = sent[n].by => m = n
  /\ \A i \in by : calls[i].stage # "add" /\ others[i].stage = "add"
  /\ \A i \in SaverIds \ by : others[i].stage = calls[i].stage /\ others[i].attempt = calls[i].attempt

LEMMA AddsOn ==
  ASSUME NEW q \in Seq(Requests), NEW calls, NEW made, NEW load, Backed(q, calls, made, load),
         NEW sent \in Seq(Requests), NEW by \in SUBSET SaverIds, NEW others, Sends(sent, by, calls, others)
  PROVE  Backed(q \o sent, others, made, load)
<1>0. /\ \A n \in DOMAIN sent : /\ sent[n].kind = "addSolve" /\ sent[n].by \in by
                                /\ sent[n].attempt = others[sent[n].by].attempt
      /\ \A i \in by : \E n \in DOMAIN sent : sent[n].by = i
      /\ \A m, n \in DOMAIN sent : sent[m].by = sent[n].by => m = n
      /\ \A i \in by : calls[i].stage # "add" /\ others[i].stage = "add"
      /\ \A i \in SaverIds \ by : others[i].stage = calls[i].stage /\ others[i].attempt = calls[i].attempt
  BY DEF Sends
<1>1. \A n \in DOMAIN sent : sent[n] \in Requests /\ Tag(sent[n]) = <<"addSolve", sent[n].by>>
  BY <1>0, LenProperties, ElementOfSeq, Tags
<1>2. Single(sent)
  BY <1>0, <1>1 DEF Single
<1>3. \A r \in Asked(sent) : ~Awaits(q, Tag(r))
  <2> SUFFICES ASSUME NEW n \in DOMAIN sent PROVE ~Awaits(q, Tag(sent[n]))
    BY DEF Asked
  <2>1. PICK i \in by : i = sent[n].by
    BY <1>0
  <2>2. Tag(sent[n]) = <<"addSolve", i>> /\ i \in SaverIds /\ calls[i].stage # "add"
    BY <1>0, <1>1, <2>1
  <2> QED
    BY <2>2 DEF Backed
<1>4. Single(q \o sent)
  BY <1>2, <1>3, SingleConcat DEF Backed
<1>5. Asked(q \o sent) = Asked(q) \cup Asked(sent)
  BY AskedConcat
<1>6. \A tag : Awaits(q \o sent, tag) <=> Awaits(q, tag) \/ Awaits(sent, tag)
  BY <1>5 DEF Awaits
<1>7. \A i \in SaverIds : Awaits(sent, <<"addSolve", i>>) <=> i \in by
  <2>1. \A n \in DOMAIN sent : \A i : Tag(sent[n]) = <<"addSolve", i>> <=> sent[n].by = i
    BY <1>1
  <2>2. ASSUME NEW i \in SaverIds, NEW n \in DOMAIN sent, Tag(sent[n]) = <<"addSolve", i>> PROVE i \in by
    BY <1>0, <2>1, <2>2
  <2>3. ASSUME NEW i \in by PROVE \E n \in DOMAIN sent : Tag(sent[n]) = <<"addSolve", i>>
    <3>1. PICK n \in DOMAIN sent : sent[n].by = i
      BY <1>0
    <3>2. Tag(sent[n]) = <<"addSolve", i>>
      BY <1>1, <3>1
    <3> QED
      BY <3>2
  <2> QED
    BY <2>2, <2>3 DEF Awaits, Asked
<1>8. ~Awaits(sent, <<"snapshot", 0>>) /\ \A k : ~Awaits(sent, <<"createSession", k>>)
  BY <1>1, Tags DEF Awaits, Asked
<1>9. \A i \in SaverIds : Awaits(q \o sent, <<"addSolve", i>>) <=> others[i].stage = "add"
  BY <1>0, <1>6, <1>7 DEF Backed
<1>10. \A r \in Asked(q \o sent) : r.kind = "addSolve" => r.attempt = others[r.by].attempt
  <2>1. ASSUME NEW r \in Asked(q), r.kind = "addSolve" PROVE r.attempt = others[r.by].attempt
    <3>1. r \in Requests
      BY AskedType
    <3>2. r.by \in SaverIds /\ Tag(r) = <<"addSolve", r.by>>
      BY <2>1, <3>1, KindTypes, Tags
    <3>3. calls[r.by].stage = "add"
      BY <3>2 DEF Awaits, Backed
    <3>4. r.by \in SaverIds \ by
      BY <1>0, <3>2, <3>3
    <3> QED
      BY <1>0, <2>1, <3>4 DEF Backed
  <2>2. ASSUME NEW r \in Asked(sent) PROVE r.attempt = others[r.by].attempt
    BY <1>0 DEF Asked
  <2> QED
    BY <1>5, <2>1, <2>2
<1>11. Awaits(q \o sent, <<"snapshot", 0>>) <=> load # Nothing
  BY <1>6, <1>8 DEF Backed
<1>12. \A k \in Contexts : Awaits(q \o sent, <<"createSession", k>>) <=> k \in made
  BY <1>6, <1>8 DEF Backed
<1> QED
  BY <1>4, <1>9, <1>10, <1>11, <1>12 DEF Backed

LEMMA LeftOn ==
  ASSUME NEW q \in Seq(Requests), NEW calls, NEW made, NEW load, Backed(q, calls, made, load), NEW over
  PROVE  Backed(q \o Left(over), calls, made, load)
<1>1. CASE Left(over) = <<>>
  BY <1>1, ConcatEmptySeq
<1>2. CASE Left(over) = <<[kind |-> "sync"]>>
  <2>1. Append(q, [kind |-> "sync"]) = q \o <<[kind |-> "sync"]>>
    BY RequestTypes, AppendIsConcat
  <2> QED
    BY <1>2, <2>1, SyncOn
<1> QED
  BY <1>1, <1>2 DEF Left

LEMMA RefreshOn ==
  ASSUME LoadTypes, NEW asked \in Seq(Requests), NEW calls, NEW made, Backed(asked, calls, made, loading),
         NEW query \in Queries, Refresh(asked, query)
  PROVE  Backed(requests', calls, made, loading')
<1>1. loading' # Nothing
  BY RefreshType
<1>2. CASE loading = Nothing
  <2>1. requests' = Append(asked, [kind |-> "snapshot", query |-> query, known |-> known]) /\ known \in Helds
    BY <1>2 DEF Refresh, LoadTypes
  <2>2. PICK l : l = loading' /\ l # Nothing
    BY <1>1
  <2>3. Backed(requests', calls, made, l)
    BY <1>2, <2>1, <2>2, ReadOn
  <2> QED
    BY <2>2, <2>3
<1>3. CASE loading # Nothing
  <2>1. requests' = asked
    BY <1>3 DEF Refresh
  <2> QED
    BY <1>1, <1>3, <2>1 DEF Backed
<1> QED
  BY <1>2, <1>3

LEMMA Renewed ==
  ASSUME Backed(requests', savers', creating', loading')
  PROVE  RequestInv'
BY DEF RequestInv

\* An attempt is sent, or waits for its session, by a call that was idle.
LEMMA SavingOn ==
  ASSUME PageTypes, RequestInv, NEW p \in Pendings \ {Nothing}, NEW retried \in BOOLEAN, SavePending(p, retried)
  PROVE  Backed(requests', savers', creating', loading)
<1>1. p.key \in Contexts /\ p.attempt \in Nat
  BY DEF Pendings
<1>2. PICK i \in SaverIds : i = Min(Idle) /\ savers[i].stage = "idle"
  BY IdleOne DEF SavePending
<1>3. CASE ids[p.key] # NoSession
  <2>1. PICK s \in Nat : s = ids[p.key]
    BY <1>1, SessionNumber DEF PageTypes
  <2>2. PICK a \in Requests : a = AddSolve(i, p, s)
    BY RequestTypes
  <2>3. /\ savers' = [savers EXCEPT ![i] = Saver("add", p, retried)]
        /\ requests' = Append(requests, a) /\ creating' = creating
    BY <1>2, <1>3, <2>1, <2>2 DEF SavePending
  <2>4. requests' = requests \o <<a>> /\ requests \in Seq(Requests)
    BY <2>3, AppendIsConcat DEF PageTypes
  <2>5. /\ savers'[i].stage = "add" /\ savers'[i].attempt = p.attempt
        /\ \A j \in SaverIds \ {i} : savers'[j] = savers[j]
    BY <2>3 DEF PageTypes, SaveTypes, Saver
  <2>6. a.kind = "addSolve" /\ a.by = i /\ a.attempt = p.attempt
    BY <2>2 DEF AddSolve
  <2>7. PICK sent \in Seq(Requests) : sent = <<a>>
    <3>1. <<a>> \in Seq(Requests)
      OBVIOUS
    <3> QED
      BY <3>1
  <2>8. DOMAIN sent = {1} /\ sent[1] = a
    BY <2>7
  <2>9. PICK by \in SUBSET SaverIds : by = {i}
    OBVIOUS
  <2>10. PICK others : others = savers'
    OBVIOUS
  <2>11. Backed(requests \o sent, others, creating, loading)
    <3>1. \A n \in DOMAIN sent : /\ sent[n].kind = "addSolve" /\ sent[n].by \in by
                                 /\ sent[n].attempt = others[sent[n].by].attempt
      BY <2>5, <2>6, <2>8, <2>9, <2>10
    <3>2. /\ \A j \in by : \E n \in DOMAIN sent : sent[n].by = j
          /\ \A m, n \in DOMAIN sent : sent[m].by = sent[n].by => m = n
      BY <2>6, <2>8, <2>9
    <3>3. /\ \A j \in by : savers[j].stage # "add" /\ others[j].stage = "add"
          /\ \A j \in SaverIds \ by : others[j].stage = savers[j].stage /\ others[j].attempt = savers[j].attempt
      BY <1>2, <2>5, <2>9, <2>10
    <3>4. PICK q \in Seq(Requests) : q = requests
      BY <2>4
    <3>5. PICK calls : calls = savers
      OBVIOUS
    <3>6. PICK made : made = creating
      OBVIOUS
    <3>7. PICK load : load = loading
      OBVIOUS
    <3>8. Backed(q, calls, made, load)
      BY <3>4, <3>5, <3>6, <3>7 DEF RequestInv
    <3>9. /\ \A j \in by : calls[j].stage # "add" /\ others[j].stage = "add"
          /\ \A j \in SaverIds \ by : others[j].stage = calls[j].stage /\ others[j].attempt = calls[j].attempt
      BY <3>3, <3>5
    <3>10. Backed(q \o sent, others, made, load)
      <4>1. Sends(sent, by, calls, others)
        BY <3>1, <3>2, <3>9 DEF Sends
      <4> QED
        BY <3>8, <4>1, AddsOn
    <3> QED
      BY <3>4, <3>6, <3>7, <3>10
  <2> QED
    BY <2>3, <2>4, <2>7, <2>10, <2>11
<1>4. CASE ids[p.key] = NoSession
  <2>1. /\ savers' = [savers EXCEPT ![i] = Saver("session", p, retried)]
        /\ creating' = creating \cup {p.key} /\ requests' = requests \o Creation(p.key)
    BY <1>2, <1>4 DEF SavePending
  <2>2. PICK others : others = savers'
    OBVIOUS
  <2>3. /\ others[i].stage = "session" /\ \A j \in SaverIds \ {i} : others[j] = savers[j]
    BY <2>1, <2>2 DEF PageTypes, SaveTypes, Saver
  <2>4. requests \in Seq(Requests) /\ Backed(requests, others, creating, loading)
    BY <1>2, <2>3, OtherCalls DEF RequestInv, PageTypes
  <2>5. CASE p.key \in creating
    <3>1. Creation(p.key) = <<>> /\ creating' = creating
      BY <2>1, <2>5 DEF Creation
    <3>2. requests' = requests
      BY <2>1, <2>4, <3>1, ConcatEmptySeq
    <3> QED
      BY <2>2, <2>4, <3>1, <3>2
  <2>6. CASE p.key \notin creating
    <3>1. PICK r \in Requests : r = [kind |-> "createSession", key |-> p.key]
      BY <1>1, RequestTypes
    <3>2. Creation(p.key) = <<r>>
      BY <2>6, <3>1 DEF Creation
    <3>3. requests' = Append(requests, r)
      BY <2>1, <2>4, <3>2, AppendIsConcat
    <3>4. Backed(Append(requests, r), others, creating \cup {p.key}, loading)
      BY <1>1, <2>4, <2>6, <3>1, CreationOn
    <3> QED
      BY <2>1, <2>2, <3>3, <3>4
  <2> QED
    BY <2>5, <2>6
<1> QED
  BY <1>3, <1>4

LEMMA SameRequests ==
  ASSUME RequestInv, UNCHANGED <<requests, savers, creating, loading>>
  PROVE  RequestInv'
BY Renewed DEF RequestInv

LEMMA BecomesRequests ==
  ASSUME PageTypes, RequestInv, NEW t, Becomes(t)
  PROVE  RequestInv'
<1>1. loading' = loading
  BY DEF Becomes, loadVars
<1>2. CASE UNCHANGED <<saving, pendingSolve, savers, creating, requests>>
  BY <1>1, <1>2, SameRequests
<1>3. CASE pendingSolve' = [key |-> context, attempt |-> Len(tried) + 1] /\ SavePending(pendingSolve', FALSE)
  <2>1. PICK p \in Pendings \ {Nothing} : p = pendingSolve'
    <3>1. Len(tried) + 1 \in Nat
      BY AttemptType
    <3>2. PICK p : p = [key |-> context, attempt |-> Len(tried) + 1]
      OBVIOUS
    <3>3. p \in [key : Contexts, attempt : Nat]
      BY <3>1, <3>2 DEF PageTypes
    <3>4. p # Nothing
      BY <3>2 DEF Nothing
    <3> QED
      BY <1>3, <3>2, <3>3, <3>4 DEF Pendings
  <2>2. SavePending(p, FALSE)
    BY <1>3, <2>1
  <2>3. Backed(requests', savers', creating', loading)
    BY <2>2, SavingOn
  <2> QED
    BY <1>1, <2>3, Renewed
<1>4. CASE t.attempt.ended /\ Save(t.attempt.penalty)
  BY <1>2, <1>3, <1>4 DEF Save
<1>5. CASE UNCHANGED <<saving, pendingSolve, savers, creating, requests, tried>>
  BY <1>2, <1>5
<1> QED
  BY <1>4, <1>5 DEF Becomes

LEMMA RetryRequests ==
  ASSUME PageTypes, RequestInv, Retry
  PROVE  RequestInv'
<1>1. loading' = loading
  BY DEF Retry, loadVars
<1>2. CASE pendingSolve # Nothing /\ ~saving /\ SavePending(pendingSolve, TRUE)
  <2>1. PICK p \in Pendings \ {Nothing} : p = pendingSolve
    BY <1>2 DEF PageTypes, SaveTypes
  <2>2. Backed(requests', savers', creating', loading)
    BY <1>2, <2>1, SavingOn
  <2> QED
    BY <1>1, <2>2, Renewed
<1>3. CASE requests' = Append(requests, [kind |-> "sync"]) /\ UNCHANGED <<saving, savers, creating>>
  BY <1>1, <1>3, SyncOn, Renewed DEF RequestInv, PageTypes
<1> QED
  BY <1>2, <1>3 DEF Retry

LEMMA MoveRequests ==
  ASSUME PageTypes, RequestInv, (\E key \in Contexts : Move(key)) \/ \E s \in Sessions : Changed(s)
  PROVE  RequestInv'
<1>1. PICK q \in Queries : Refresh(requests, q)
  BY QueryType DEF Move, Changed, PageTypes
<1>2. savers' = savers /\ creating' = creating
  BY DEF Move, Changed, saveVars
<1>3. Backed(requests', savers, creating, loading')
  BY <1>1, RefreshOn DEF PageTypes, RequestInv
<1> QED
  BY <1>2, <1>3, Renewed

LEMMA CreatedRequests ==
  ASSUME PageTypes, RequestInv, SessionCreated
  PROVE  RequestInv'
<1>1. requests \in Seq(Requests) /\ requests # <<>> /\ Head(requests).kind = "createSession"
  BY DEF PageTypes, SessionCreated, Answering
<1>2. PICK key \in Contexts : key = Head(requests).key
  BY <1>1, AnswerTypes, KindTypes
<1>3. PICK id \in Nat : id = Len(rows) + 1
  BY LenProperties DEF PageTypes, SaveTypes
<1>4. PICK sent : sent = Adds(key, id)
  OBVIOUS
<1>5. /\ sent \in Seq(Requests)
      /\ \A n \in DOMAIN sent : \E i \in Waiting(key) : sent[n] = AddSolve(i, savers[i], id)
      /\ \A i \in Waiting(key) : \E n \in DOMAIN sent : sent[n].by = i
      /\ \A m, n \in DOMAIN sent : sent[m].by = sent[n].by => m = n
  BY <1>4, WaitingSeq DEF PageTypes
<1>6. /\ requests' = Tail(requests) \o sent /\ creating' = creating \ {key} /\ loading' = loading
      /\ savers' = [i \in SaverIds |->
              IF i \in Waiting(key) THEN [savers[i] EXCEPT !.stage = "add"] ELSE savers[i]]
  BY <1>2, <1>3, <1>4 DEF SessionCreated, Over, loadVars, Adds
<1>7. PICK others : others = savers'
  OBVIOUS
<1>8. PICK by \in SUBSET SaverIds : by = Waiting(key) /\ \A i \in by : savers[i].stage = "session"
  <2>1. Waiting(key) \in SUBSET SaverIds /\ \A i \in Waiting(key) : savers[i].stage = "session"
    BY DEF Waiting
  <2> QED
    BY <2>1
<1>9. \A i \in by : others[i].stage = "add" /\ others[i].attempt = savers[i].attempt
  <2> SUFFICES ASSUME NEW i \in by PROVE others[i].stage = "add" /\ others[i].attempt = savers[i].attempt
    OBVIOUS
  <2>1. savers[i] \in [stage : {"session", "add", "after"}, key : Contexts, attempt : Nat,
                       refresh : {"none", "loading", "queued", "done"}, retried : BOOLEAN]
    BY <1>8 DEF PageTypes, SaveTypes, Savers, IdleSaver
  <2>2. others[i] = [savers[i] EXCEPT !.stage = "add"]
    BY <1>6, <1>7, <1>8
  <2> QED
    BY <2>1, <2>2
<1>10. \A i \in SaverIds \ by : others[i] = savers[i]
  BY <1>6, <1>7, <1>8
<1>11. \A n \in DOMAIN sent : /\ sent[n].kind = "addSolve" /\ sent[n].by \in by
                              /\ sent[n].attempt = others[sent[n].by].attempt
  <2> SUFFICES ASSUME NEW n \in DOMAIN sent
               PROVE  /\ sent[n].kind = "addSolve" /\ sent[n].by \in by
                      /\ sent[n].attempt = others[sent[n].by].attempt
    OBVIOUS
  <2>1. PICK i \in by : sent[n] = AddSolve(i, savers[i], id)
    BY <1>5, <1>8
  <2>2. sent[n].kind = "addSolve" /\ sent[n].by = i /\ sent[n].attempt = savers[i].attempt
    BY <2>1 DEF AddSolve
  <2> QED
    BY <1>9, <2>2
<1>12. PICK calls : calls = savers
  OBVIOUS
<1>13. Sends(sent, by, calls, others)
  BY <1>5, <1>8, <1>9, <1>10, <1>11, <1>12 DEF Sends
<1>14. PICK q \in Seq(Requests) : q = Tail(requests)
  BY <1>1, AnswerTypes
<1>15. PICK made : made = creating \ {key}
  OBVIOUS
<1>16. Backed(q, calls, made, loading)
  BY <1>1, <1>2, <1>12, <1>14, <1>15, CreationOff DEF RequestInv
<1>17. Backed(q \o sent, others, made, loading)
  BY <1>5, <1>13, <1>16, AddsOn
<1> QED
  BY <1>6, <1>7, <1>14, <1>15, <1>17, Renewed

LEMMA SessionFailsRequests ==
  ASSUME PageTypes, RequestInv, SessionFails
  PROVE  RequestInv'
<1>1. requests \in Seq(Requests) /\ requests # <<>> /\ Head(requests).kind = "createSession"
  BY DEF PageTypes, SessionFails, Answering
<1>2. PICK key \in Contexts : key = Head(requests).key
  BY <1>1, AnswerTypes, KindTypes
<1>3. PICK over : over = Waiting(key)
  OBVIOUS
<1>4. /\ requests' = Tail(requests) \o Left(over) /\ creating' = creating \ {key} /\ loading' = loading
      /\ savers' = [i \in SaverIds |-> IF i \in over THEN IdleSaver ELSE savers[i]]
  BY <1>2, <1>3 DEF SessionFails, Over, loadVars
<1>5. PICK q \in Seq(Requests) : q = Tail(requests)
  BY <1>1, AnswerTypes
<1>6. PICK others : others = savers'
  OBVIOUS
<1>7. PICK made : made = creating \ {key}
  OBVIOUS
<1>8. Backed(q, savers, made, loading)
  BY <1>1, <1>2, <1>5, <1>7, CreationOff DEF RequestInv
<1>9. /\ \A i \in SaverIds : others[i].stage = "add" <=> savers[i].stage = "add"
      /\ \A i \in SaverIds : savers[i].stage = "add" => others[i].attempt = savers[i].attempt
  BY <1>3, <1>4, <1>6 DEF Waiting, IdleSaver
<1>10. Backed(q, others, made, loading)
  BY <1>8, <1>9, OtherCalls
<1>11. Backed(q \o Left(over), others, made, loading)
  BY <1>10, LeftOn
<1> QED
  BY <1>4, <1>5, <1>6, <1>7, <1>11, Renewed

\* The call that sent a solve, once it is answered.
LEMMA AddAnswered ==
  ASSUME PageTypes, RequestInv, requests # <<>>, Head(requests).kind = "addSolve"
  PROVE  /\ Head(requests).by \in SaverIds /\ savers[Head(requests).by].stage = "add"
         /\ Head(requests).attempt = savers[Head(requests).by].attempt
         /\ Tail(requests) \in Seq(Requests)
         /\ \A after : after[Head(requests).by].stage # "add"
              /\ (\A j \in SaverIds : j # Head(requests).by => after[j] = savers[j])
              => Backed(Tail(requests), after, creating, loading)
<1>1. requests \in Seq(Requests)
  BY DEF PageTypes
<1>2. PICK i \in SaverIds : i = Head(requests).by
  BY AnswerTypes, KindTypes
<1>3. ASSUME NEW after, after[i].stage # "add", \A j \in SaverIds : j # i => after[j] = savers[j]
      PROVE  Backed(Tail(requests), after, creating, loading) /\ savers[i].stage = "add"
             /\ Head(requests).attempt = savers[i].attempt
  BY <1>1, <1>2, <1>3, AddOff DEF RequestInv
<1>4. savers[i].stage = "add" /\ Head(requests).attempt = savers[i].attempt
  <2>1. PICK after : after = [savers EXCEPT ![i] = IdleSaver]
    OBVIOUS
  <2>2. after[i].stage # "add" /\ \A j \in SaverIds : j # i => after[j] = savers[j]
    BY <2>1 DEF PageTypes, SaveTypes, IdleSaver
  <2> QED
    BY <1>3, <2>2
<1> QED
  BY <1>2, <1>3, <1>4, AnswerTypes

LEMMA SolveAddedCalls ==
  ASSUME PageTypes, RequestInv, SolveAdded
  PROVE  LET i == Head(requests).by IN
         /\ i \in SaverIds /\ savers[i].stage = "add" /\ savers[i].attempt = Head(requests).attempt
         /\ \A j \in SaverIds : j # i => savers'[j] = savers[j]
         /\ savers'[i].stage = "after" /\ savers'[i].refresh = Awaited
         /\ savers'[i].key = savers[i].key /\ savers'[i].attempt = savers[i].attempt
<1>1. PICK i \in SaverIds : i = Head(requests).by /\ savers[i].stage = "add" /\ savers[i].attempt = Head(requests).attempt
  BY AddAnswered DEF SolveAdded, Answering
<1>2. savers' = [savers EXCEPT ![i] = [[savers[i] EXCEPT !.stage = "after"] EXCEPT !.refresh = Awaited]]
  BY <1>1 DEF SolveAdded, PageTypes, SaveTypes
<1>3. savers[i] \in [stage : {"session", "add", "after"}, key : Contexts, attempt : Nat,
                     refresh : {"none", "loading", "queued", "done"}, retried : BOOLEAN]
  BY <1>1 DEF PageTypes, SaveTypes, Savers, IdleSaver
<1>4. /\ savers'[i].stage = "after" /\ savers'[i].refresh = Awaited
      /\ savers'[i].key = savers[i].key /\ savers'[i].attempt = savers[i].attempt
  BY <1>2, <1>3 DEF PageTypes, SaveTypes
<1>5. \A j \in SaverIds : j # i => savers'[j] = savers[j]
  BY <1>2 DEF PageTypes, SaveTypes
<1> QED
  BY <1>1, <1>4, <1>5

LEMMA AddedRequests ==
  ASSUME PageTypes, RequestInv, SolveAdded
  PROVE  RequestInv'
<1>1. requests # <<>> /\ Head(requests).kind = "addSolve"
  BY DEF SolveAdded, Answering
<1>2. PICK others : others = savers'
  OBVIOUS
<1>3. PICK asked \in Seq(Requests) : asked = Tail(requests)
  BY <1>1, AddAnswered
<1>4. Backed(asked, others, creating, loading)
  BY <1>1, <1>2, <1>3, AddAnswered, SolveAddedCalls
<1>5. PICK q \in Queries : Refresh(asked, q)
  BY <1>3, QueryType DEF SolveAdded, PageTypes
<1>6. Backed(requests', others, creating, loading')
  BY <1>4, <1>5, RefreshOn DEF PageTypes
<1>7. creating' = creating
  BY DEF SolveAdded
<1> QED
  BY <1>2, <1>6, <1>7, Renewed

LEMMA AddFailsRequests ==
  ASSUME PageTypes, RequestInv, AddFails
  PROVE  RequestInv'
<1>1. requests # <<>> /\ Head(requests).kind = "addSolve"
  BY DEF AddFails, Answering
<1>2. PICK i \in SaverIds : i = Head(requests).by
  BY <1>1, AddAnswered
<1>3. PICK others : others = savers'
  OBVIOUS
<1>4. others = [savers EXCEPT ![i] = IdleSaver] /\ requests' = Tail(requests) \o Left({i})
      /\ creating' = creating /\ loading' = loading
  BY <1>2, <1>3 DEF AddFails, loadVars
<1>5. others[i].stage # "add" /\ \A j \in SaverIds : j # i => others[j] = savers[j]
  BY <1>4 DEF PageTypes, SaveTypes, IdleSaver
<1>6. PICK q \in Seq(Requests) : q = Tail(requests)
  BY <1>1, AddAnswered
<1>7. Backed(q, others, creating, loading)
  BY <1>1, <1>2, <1>5, <1>6, AddAnswered
<1>8. Backed(q \o Left({i}), others, creating, loading)
  BY <1>7, LeftOn
<1> QED
  BY <1>3, <1>4, <1>6, <1>8, Renewed

LEMMA SaveEndsRequests ==
  ASSUME PageTypes, RequestInv, NEW i \in SaverIds, SaveEnds(i)
  PROVE  RequestInv'
<1>1. PICK others : others = savers'
  OBVIOUS
<1>2. others = [savers EXCEPT ![i] = IdleSaver] /\ requests' = requests \o Left({i}) /\ savers[i].stage = "after"
      /\ creating' = creating /\ loading' = loading
  BY <1>1 DEF SaveEnds, loadVars
<1>3. /\ \A j \in SaverIds : others[j].stage = "add" <=> savers[j].stage = "add"
      /\ \A j \in SaverIds : savers[j].stage = "add" => others[j].attempt = savers[j].attempt
  BY <1>2 DEF PageTypes, SaveTypes, IdleSaver
<1>4. Backed(requests, others, creating, loading) /\ requests \in Seq(Requests)
  BY <1>3, OtherCalls DEF RequestInv, PageTypes
<1>5. Backed(requests \o Left({i}), others, creating, loading)
  BY <1>4, LeftOn
<1> QED
  BY <1>1, <1>2, <1>5, Renewed

LEMMA SyncRequests ==
  ASSUME PageTypes, RequestInv, Synced \/ SyncFails
  PROVE  RequestInv'
<1>1. requests # <<>> /\ Head(requests).kind = "sync" /\ requests \in Seq(Requests)
  BY DEF Synced, SyncFails, Answering, PageTypes
<1>2. PICK q \in Seq(Requests) : q = Tail(requests)
  BY <1>1, AnswerTypes
<1>3. Backed(q, savers, creating, loading)
  BY <1>1, <1>2, SyncOff DEF RequestInv
<1>4. savers' = savers /\ creating' = creating
  BY DEF Synced, SyncFails, saveVars
<1>5. CASE Synced
  <2>1. PICK query \in Queries : Refresh(q, query)
    BY <1>2, <1>5, QueryType DEF Synced, PageTypes
  <2>2. Backed(requests', savers, creating, loading')
    BY <1>3, <2>1, RefreshOn DEF PageTypes
  <2> QED
    BY <1>4, <2>2, Renewed
<1>6. CASE SyncFails
  <2>1. requests' = q /\ loading' = loading
    BY <1>2, <1>6 DEF SyncFails, loadVars
  <2> QED
    BY <1>3, <1>4, <2>1, Renewed
<1> QED
  BY <1>5, <1>6

LEMMA LoadedCalls ==
  ASSUME SaveTypes, savers' = Loaded(savers)
  PROVE  \A i \in SaverIds :
           /\ savers'[i].stage = savers[i].stage
           /\ savers[i].stage \in {"session", "add", "after"} =>
                savers'[i].key = savers[i].key /\ savers'[i].attempt = savers[i].attempt
           /\ savers'[i].refresh =
                IF savers[i].stage = "after" /\ savers[i].refresh = "loading" THEN "done"
                ELSE IF savers[i].stage = "after" /\ savers[i].refresh = "queued" THEN "loading"
                ELSE savers[i].refresh
<1> SUFFICES ASSUME NEW i \in SaverIds
             PROVE  /\ savers'[i].stage = savers[i].stage
                    /\ savers[i].stage \in {"session", "add", "after"} =>
                         savers'[i].key = savers[i].key /\ savers'[i].attempt = savers[i].attempt
                    /\ savers'[i].refresh =
                         IF savers[i].stage = "after" /\ savers[i].refresh = "loading" THEN "done"
                         ELSE IF savers[i].stage = "after" /\ savers[i].refresh = "queued" THEN "loading"
                         ELSE savers[i].refresh
  OBVIOUS
<1>1. CASE savers[i].stage = "after"
  <2>1. savers[i] \in [stage : {"session", "add", "after"}, key : Contexts, attempt : Nat,
                       refresh : {"none", "loading", "queued", "done"}, retried : BOOLEAN]
    BY <1>1 DEF SaveTypes, Savers, IdleSaver
  <2> QED
    BY <1>1, <2>1 DEF Loaded
<1>2. CASE savers[i].stage # "after"
  <2>1. savers'[i] = savers[i]
    BY <1>2 DEF Loaded
  <2> QED
    BY <1>2, <2>1
<1> QED
  BY <1>1, <1>2

LEMMA SnapshotRequests ==
  ASSUME PageTypes, PageTypes', RequestInv, SnapshotRead \/ SnapshotFails
  PROVE  RequestInv'
<1>1. requests # <<>> /\ Head(requests).kind = "snapshot" /\ requests \in Seq(Requests)
      /\ NextLoad /\ savers' = Loaded(savers) /\ creating' = creating
  BY DEF SnapshotRead, SnapshotFails, Answering, PageTypes
<1>2. PICK q \in Seq(Requests) : q = Tail(requests)
  BY <1>1, AnswerTypes
<1>3. Backed(q, savers, creating, Nothing)
  BY <1>1, <1>2, ReadOff DEF RequestInv
<1>4. PICK others : others = savers'
  OBVIOUS
<1>5. /\ \A j \in SaverIds : others[j].stage = "add" <=> savers[j].stage = "add"
      /\ \A j \in SaverIds : savers[j].stage = "add" => others[j].attempt = savers[j].attempt
  BY <1>1, <1>4, LoadedCalls DEF PageTypes
<1>6. Backed(q, others, creating, Nothing)
  BY <1>3, <1>5, OtherCalls
<1>7. CASE queued
  <2>1. PICK query \in Queries : query = Query(context)
    BY QueryType DEF PageTypes
  <2>2. PICK h \in Helds : h = known'
    BY DEF PageTypes, LoadTypes
  <2>3. PICK load : load = [query |-> query, stale |-> FALSE] /\ load # Nothing
    BY LoadingType
  <2>4. loading' = load /\ requests' = Append(q, [kind |-> "snapshot", query |-> query, known |-> h])
    BY <1>1, <1>2, <1>7, <2>1, <2>2, <2>3 DEF NextLoad
  <2>5. Backed(Append(q, [kind |-> "snapshot", query |-> query, known |-> h]), others, creating, load)
    BY <1>6, <2>3, ReadOn
  <2> QED
    BY <1>1, <1>4, <2>4, <2>5, Renewed
<1>8. CASE ~queued
  <2>1. loading' = Nothing /\ requests' = q
    BY <1>1, <1>2, <1>8 DEF NextLoad
  <2> QED
    BY <1>1, <1>4, <1>6, <2>1, Renewed
<1> QED
  BY <1>7, <1>8 DEF PageTypes, LoadTypes

LEMMA RequestStep ==
  ASSUME PageTypes, PageTypes', TimerInv, RequestInv, Next
  PROVE  RequestInv'
<1>1. ASSUME (\E kind \in InputKind, at \in 0..timer.age : Dispatch(kind, at)) \/ HoldTimeout \/ ExpiryTimeout
      PROVE  RequestInv'
  BY <1>1, BecomesRequests DEF Dispatch, HoldTimeout, ExpiryTimeout
<1>2. CASE Tick \/ Dismiss \/ SkipScramble \/ ElsewhereFails
  BY <1>2, SameRequests DEF Tick, Dismiss, SkipScramble, ElsewhereFails, saveVars, loadVars
<1>3. CASE \E s \in draws : Found(s) \/ NotFound(s)
  BY <1>3, SameRequests DEF Found, NotFound, saveVars, loadVars
<1>4. CASE \E i \in SaverIds : SaveEnds(i)
  BY <1>4, SaveEndsRequests
<1> QED
  BY <1>1, <1>2, <1>3, <1>4, RetryRequests, MoveRequests, CreatedRequests, SessionFailsRequests, AddedRequests,
     AddFailsRequests, SyncRequests, SnapshotRequests
  DEF Next, Player, EngineAnswers

\* The call of savePending a saving begins.
Begins(i, p) ==
  /\ savers[i].stage = "idle"
  /\ \A j \in SaverIds : j # i => savers'[j] = savers[j]
  /\ savers'[i].stage \in {"session", "add"} /\ savers'[i].key = p.key /\ savers'[i].attempt = p.attempt
  /\ savers'[i].refresh = "none"
  /\ savers'[i].stage = "session" => p.key \in creating'
  /\ saving' /\ creating \subseteq creating'
  /\ \A k \in creating' : k \in creating \/ ids[k] = NoSession

LEMMA NewSaver ==
  ASSUME PageTypes, NEW p \in Pendings \ {Nothing}, NEW retried \in BOOLEAN, SavePending(p, retried)
  PROVE  \E i \in SaverIds : Begins(i, p)
<1> DEFINE i == Min(Idle)
<1>1. i \in SaverIds /\ savers[i].stage = "idle"
  BY IdleOne DEF SavePending
<1>2. savers \in [SaverIds -> Savers]
  BY DEF PageTypes, SaveTypes
<1>3. saving'
  BY Zenon DEF SavePending
<1>4. ASSUME NEW stage \in {"session", "add"}, savers' = [savers EXCEPT ![i] = Saver(stage, p, retried)]
      PROVE  /\ \A j \in SaverIds : j # i => savers'[j] = savers[j]
             /\ savers'[i].stage = stage /\ savers'[i].key = p.key /\ savers'[i].attempt = p.attempt
             /\ savers'[i].refresh = "none"
  <2>1. savers'[i] = Saver(stage, p, retried)
    BY <1>1, <1>2, <1>4
  <2>2. \A j \in SaverIds : j # i => savers'[j] = savers[j]
    BY <1>1, <1>2, <1>4
  <2> QED
    BY <2>1, <2>2 DEF Saver
<1>5. CASE ids[p.key] # NoSession /\ savers' = [savers EXCEPT ![i] = Saver("add", p, retried)] /\ UNCHANGED creating
  <2>1. /\ \A j \in SaverIds : j # i => savers'[j] = savers[j]
        /\ savers'[i].stage = "add" /\ savers'[i].key = p.key /\ savers'[i].attempt = p.attempt
        /\ savers'[i].refresh = "none"
    BY <1>4, <1>5
  <2> HIDE DEF i
  <2> QED
    BY <1>1, <1>3, <1>5, <2>1 DEF Begins
<1>6. CASE /\ ids[p.key] = NoSession /\ savers' = [savers EXCEPT ![i] = Saver("session", p, retried)]
           /\ creating' = creating \cup {p.key}
  <2>1. /\ \A j \in SaverIds : j # i => savers'[j] = savers[j]
        /\ savers'[i].stage = "session" /\ savers'[i].key = p.key /\ savers'[i].attempt = p.attempt
        /\ savers'[i].refresh = "none"
    BY <1>4, <1>6
  <2> HIDE DEF i
  <2> QED
    BY <1>1, <1>3, <1>6, <2>1 DEF Begins
<1> QED
  BY <1>5, <1>6 DEF SavePending

\* An attempt ended: nothing is saved for it, or a saving begins.
LEMMA BecomesSaves ==
  ASSUME PageTypes, NEW t, Becomes(t)
  PROVE  \/ UNCHANGED <<saving, pendingSolve, savers, creating, requests>>
         \/ /\ t.attempt.ended /\ ~Refused
            /\ pendingSolve' = [key |-> context, attempt |-> Len(tried) + 1] /\ pendingSolve' # Nothing
            /\ \E i \in SaverIds : Begins(i, pendingSolve')
<1>1. ASSUME t.attempt.ended, ~Refused, pendingSolve' = [key |-> context, attempt |-> Len(tried) + 1],
             SavePending(pendingSolve', FALSE)
      PROVE  pendingSolve' # Nothing /\ \E i \in SaverIds : Begins(i, pendingSolve')
  <2>1. PICK p : p = [key |-> context, attempt |-> Len(tried) + 1]
    OBVIOUS
  <2>2. p \in [key : Contexts, attempt : Nat]
    <3>1. Len(tried) + 1 \in Nat
      BY AttemptType
    <3> QED
      BY <2>1, <3>1 DEF PageTypes
  <2>3. p # Nothing
    BY <2>1 DEF Nothing
  <2>4. p \in Pendings \ {Nothing}
    BY <2>2, <2>3 DEF Pendings
  <2>5. pendingSolve' = p
    BY <1>1, <2>1
  <2>6. SavePending(p, FALSE)
    BY <1>1, <2>5
  <2>7. \E i \in SaverIds : Begins(i, p)
    BY <2>4, <2>6, NewSaver
  <2> QED
    BY <2>3, <2>5, <2>7
<1> QED
  BY <1>1 DEF Becomes, Save

\* "Try again": a saving begins again, or a synchronization is asked for.
LEMMA RetrySaves ==
  ASSUME PageTypes, Retry
  PROVE  \/ UNCHANGED <<saving, savers, creating>>
         \/ ~saving /\ pendingSolve # Nothing /\ \E i \in SaverIds : Begins(i, pendingSolve)
<1>1. CASE pendingSolve # Nothing /\ ~saving /\ SavePending(pendingSolve, TRUE)
  <2>1. pendingSolve \in Pendings \ {Nothing}
    BY <1>1 DEF PageTypes, SaveTypes
  <2>2. \E i \in SaverIds : Begins(i, pendingSolve)
    BY <1>1, <2>1, NewSaver
  <2> QED
    BY <1>1, <2>2
<1> QED
  BY <1>1 DEF Retry
---------------------------------------------------------------------------
(* Nothing is waited for in vain. *)

LEMMA SameCalls ==
  ASSUME CallsWait, UNCHANGED savers, creating \subseteq creating', loading # Nothing => loading' # Nothing,
         queued => queued'
  PROVE  CallsWait'
BY DEF CallsWait

LEMMA IdleCall == IdleSaver.stage = "idle" /\ IdleSaver.refresh = "none"
BY DEF IdleSaver

LEMMA BegunWait ==
  ASSUME CallsWait, NEW p, NEW i \in SaverIds, Begins(i, p), UNCHANGED <<loading, queued>>
  PROVE  CallsWait'
<1>1. ASSUME NEW j \in SaverIds, j # i
      PROVE  /\ savers'[j].stage = "session" => savers'[j].key \in creating'
             /\ savers'[j].refresh = "loading" => loading' # Nothing
             /\ savers'[j].refresh = "queued" => queued'
             /\ savers'[j].refresh # "none" => savers'[j].stage = "after"
  BY <1>1 DEF CallsWait, Begins
<1>2. /\ savers'[i].stage = "session" => savers'[i].key \in creating'
      /\ savers'[i].refresh = "loading" => loading' # Nothing
      /\ savers'[i].refresh = "queued" => queued'
      /\ savers'[i].refresh # "none" => savers'[i].stage = "after"
  BY DEF Begins
<1> QED
  BY <1>1, <1>2 DEF CallsWait

\* Some calls end, others go on.
LEMMA EndedWait ==
  ASSUME CallsWait, NEW over, \A i \in SaverIds : savers'[i] = IF i \in over THEN IdleSaver ELSE savers[i],
         \A i \in SaverIds \ over : savers[i].stage = "session" => savers[i].key \in creating',
         UNCHANGED <<loading, queued>>
  PROVE  CallsWait'
BY IdleCall DEF CallsWait

LEMMA CallsStep ==
  ASSUME PageTypes, TimerInv, RequestInv, CallsWait, Next
  PROVE  CallsWait'
<1>1. ASSUME (\E kind \in InputKind, at \in 0..timer.age : Dispatch(kind, at)) \/ HoldTimeout \/ ExpiryTimeout
      PROVE  CallsWait'
  <2>1. PICK t : Becomes(t)
    BY <1>1 DEF Dispatch, HoldTimeout, ExpiryTimeout
  <2>2. UNCHANGED <<loading, queued>>
    BY <2>1 DEF Becomes, loadVars
  <2> QED
    BY <2>1, <2>2, BecomesSaves, BegunWait, SameCalls
<1>2. CASE Tick \/ Dismiss \/ SkipScramble \/ ElsewhereFails
  BY <1>2, SameCalls DEF Tick, Dismiss, SkipScramble, ElsewhereFails, saveVars, loadVars
<1>3. CASE \E s \in draws : Found(s) \/ NotFound(s)
  BY <1>3, SameCalls DEF Found, NotFound, saveVars, loadVars
<1>4. CASE Retry
  BY <1>4, RetrySaves, BegunWait, SameCalls DEF Retry, loadVars
<1>5. ASSUME NEW query \in Queries, NEW asked \in Seq(Requests), Refresh(asked, query)
      PROVE  /\ loading' # Nothing /\ (queued => queued')
             /\ Awaited = "loading" \/ queued'
  <2>1. loading' # Nothing
    BY <1>5, RefreshType DEF PageTypes
  <2>2. queued => queued'
    BY <1>5 DEF Refresh
  <2>3. Awaited = "loading" \/ queued'
    BY <1>5 DEF Refresh, Awaited
  <2> QED
    BY <2>1, <2>2, <2>3
<1>6. ASSUME NEW key \in Contexts, NEW asked \in Seq(Requests), Refresh(asked, Query(key))
      PROVE  /\ loading' # Nothing /\ (queued => queued')
             /\ Awaited = "loading" \/ queued'
  <2>1. PICK query \in Queries : query = Query(key)
    BY QueryType DEF PageTypes
  <2>2. Refresh(asked, query)
    BY <1>6, <2>1
  <2> QED
    BY <1>5, <2>2
<1>7. CASE (\E key \in Contexts : Move(key)) \/ \E s \in Sessions : Changed(s)
  <2>1. PICK key \in Contexts : Refresh(requests, Query(key))
    BY <1>7 DEF Move, Changed, PageTypes
  <2>2. loading' # Nothing /\ (queued => queued')
    BY <1>6, <2>1 DEF PageTypes
  <2> QED
    BY <1>7, <2>2, SameCalls DEF Move, Changed, saveVars
<1>8. CASE Synced \/ SyncFails
  <2>1. CASE Synced
    <3>1. Refresh(Tail(requests), Query(context)) /\ Tail(requests) \in Seq(Requests)
      BY <2>1, AnswerTypes DEF Synced, Answering
    <3>2. loading' # Nothing /\ (queued => queued')
      BY <1>6, <3>1 DEF PageTypes
    <3> QED
      BY <2>1, <3>2, SameCalls DEF Synced, saveVars
  <2>2. CASE SyncFails
    BY <2>2, SameCalls DEF SyncFails, loadVars
  <2> QED
    BY <1>8, <2>1, <2>2
<1>9. CASE SolveAdded
  <2>1. PICK i \in SaverIds : /\ \A j \in SaverIds : j # i => savers'[j] = savers[j]
                              /\ savers'[i].stage = "after" /\ savers'[i].refresh = Awaited
    BY <1>9, SolveAddedCalls
  <2>2. Refresh(Tail(requests), Query(context)) /\ Tail(requests) \in Seq(Requests)
    BY <1>9, AnswerTypes DEF SolveAdded, Answering
  <2>3. loading' # Nothing /\ (queued => queued') /\ (Awaited = "loading" \/ queued')
    BY <1>6, <2>2 DEF PageTypes
  <2>4. creating' = creating
    BY <1>9 DEF SolveAdded
  <2>5. Awaited \in {"loading", "queued"}
    BY DEF Awaited
  <2>6. ASSUME NEW j \in SaverIds, j # i
        PROVE  /\ savers'[j].stage = "session" => savers'[j].key \in creating'
               /\ savers'[j].refresh = "loading" => loading' # Nothing
               /\ savers'[j].refresh = "queued" => queued'
               /\ savers'[j].refresh # "none" => savers'[j].stage = "after"
    BY <2>1, <2>3, <2>4, <2>6 DEF CallsWait
  <2>7. /\ savers'[i].stage = "session" => savers'[i].key \in creating'
        /\ savers'[i].refresh = "loading" => loading' # Nothing
        /\ savers'[i].refresh = "queued" => queued'
        /\ savers'[i].refresh # "none" => savers'[i].stage = "after"
    BY <2>1, <2>3, <2>5
  <2> QED
    BY <2>6, <2>7 DEF CallsWait
<1>10. CASE SessionCreated
  <2> DEFINE key == Head(requests).key
  <2>1. savers' = [i \in SaverIds |->
           IF i \in Waiting(key) THEN [savers[i] EXCEPT !.stage = "add"] ELSE savers[i]]
    BY <1>10 DEF SessionCreated
  <2>2. creating' = creating \ {key} /\ UNCHANGED <<loading, queued>>
    BY <1>10 DEF SessionCreated, Over, loadVars
  <2>3. ASSUME NEW i \in SaverIds
        PROVE  /\ savers'[i].stage = "session" => savers'[i].key \in creating'
               /\ savers'[i].refresh = "loading" => loading' # Nothing
               /\ savers'[i].refresh = "queued" => queued'
               /\ savers'[i].refresh # "none" => savers'[i].stage = "after"
    <3>1. CASE i \in Waiting(key)
      <4>1. savers'[i] = [savers[i] EXCEPT !.stage = "add"]
        BY <2>1, <3>1
      <4>2. savers[i] \in Savers /\ savers[i].stage = "session"
        BY <3>1 DEF Waiting, PageTypes, SaveTypes
      <4>3. savers[i] \in [stage : {"session", "add", "after"}, key : Contexts, attempt : Nat,
                            refresh : {"none", "loading", "queued", "done"}, retried : BOOLEAN]
        BY <4>2, IdleCall DEF Savers
      <4>4. savers'[i].stage = "add" /\ savers'[i].refresh = savers[i].refresh
        BY <4>1, <4>3
      <4> QED
        BY <4>2, <4>4 DEF CallsWait
    <3>2. CASE i \notin Waiting(key)
      <4>1. savers'[i] = savers[i]
        BY <2>1, <3>2
      <4>2. savers[i].stage = "session" => savers[i].key # key
        BY <3>2 DEF Waiting
      <4> QED
        BY <2>2, <4>1, <4>2 DEF CallsWait
    <3> QED
      BY <3>1, <3>2
  <2> QED
    BY <2>3 DEF CallsWait
<1>11. CASE SessionFails
  <2> DEFINE key == Head(requests).key
  <2>1. /\ savers' = [i \in SaverIds |-> IF i \in Waiting(key) THEN IdleSaver ELSE savers[i]]
        /\ creating' = creating \ {key} /\ UNCHANGED <<loading, queued>>
    BY <1>11 DEF SessionFails, Over, loadVars
  <2>2. \A i \in SaverIds \ Waiting(key) : savers[i].stage = "session" => savers[i].key \in creating'
    BY <2>1 DEF Waiting, CallsWait
  <2>3. \A i \in SaverIds : savers'[i] = IF i \in Waiting(key) THEN IdleSaver ELSE savers[i]
    BY <2>1
  <2> QED
    BY <2>1, <2>2, <2>3, EndedWait
<1>12. ASSUME NEW i \in SaverIds, savers' = [savers EXCEPT ![i] = IdleSaver], UNCHANGED <<loading, queued, creating>>
       PROVE  CallsWait'
  <2>1. \A j \in SaverIds : savers'[j] = IF j \in {i} THEN IdleSaver ELSE savers[j]
    BY <1>12 DEF PageTypes, SaveTypes
  <2>2. \A j \in SaverIds : savers[j].stage = "session" => savers[j].key \in creating'
    BY <1>12 DEF CallsWait
  <2>3. UNCHANGED <<loading, queued>>
    BY <1>12
  <2> QED
    BY <2>1, <2>2, <2>3, EndedWait
<1>13. CASE AddFails
  <2>1. Head(requests).by \in SaverIds
    BY <1>13, AddAnswered DEF AddFails, Answering
  <2> QED
    BY <1>12, <1>13, <2>1 DEF AddFails, loadVars
<1>14. ASSUME NEW i \in SaverIds, SaveEnds(i) PROVE CallsWait'
  BY <1>12, <1>14 DEF SaveEnds, loadVars
<1>15. CASE SnapshotRead \/ SnapshotFails
  <2>1. savers' = Loaded(savers) /\ creating' = creating /\ NextLoad
    BY <1>15 DEF SnapshotRead, SnapshotFails
  <2>2. queued => loading' # Nothing
    <3>1. PICK l : l = [query |-> Query(context), stale |-> FALSE]
      OBVIOUS
    <3>2. l # Nothing
      BY <3>1 DEF Nothing
    <3> QED
      BY <2>1, <3>1, <3>2 DEF NextLoad
  <2>3. ASSUME NEW i \in SaverIds
        PROVE  /\ savers'[i].stage = "session" => savers'[i].key \in creating'
               /\ savers'[i].refresh = "loading" => loading' # Nothing
               /\ savers'[i].refresh = "queued" => queued'
               /\ savers'[i].refresh # "none" => savers'[i].stage = "after"
    <3>1. /\ savers'[i].stage = savers[i].stage
          /\ savers[i].stage = "session" => savers'[i].key = savers[i].key
          /\ savers'[i].refresh =
                IF savers[i].stage = "after" /\ savers[i].refresh = "loading" THEN "done"
                ELSE IF savers[i].stage = "after" /\ savers[i].refresh = "queued" THEN "loading"
                ELSE savers[i].refresh
      BY <2>1, LoadedCalls DEF PageTypes
    <3> QED
      BY <2>1, <2>2, <3>1 DEF CallsWait
  <2> QED
    BY <2>3 DEF CallsWait
<1> QED
  BY <1>1, <1>2, <1>3, <1>4, <1>7, <1>8, <1>9, <1>10, <1>11, <1>13, <1>14, <1>15 DEF Next, Player, EngineAnswers

LEMMA SavingStep ==
  ASSUME PageTypes, RequestInv, SavingWaits, Next
  PROVE  SavingWaits'
<1>1. ASSUME UNCHANGED saving, \A i \in SaverIds : savers[i].stage # "idle" => savers'[i].stage # "idle"
      PROVE  SavingWaits'
  BY <1>1 DEF SavingWaits
<1>2. ASSUME ~saving' PROVE SavingWaits'
  BY <1>2 DEF SavingWaits
<1>3. ASSUME NEW p, NEW i \in SaverIds, Begins(i, p) PROVE SavingWaits'
  BY <1>3 DEF SavingWaits, Begins
<1>4. ASSUME NEW t, Becomes(t) PROVE SavingWaits'
  BY <1>1, <1>3, <1>4, BecomesSaves
<1>5. CASE Tick \/ Dismiss \/ SkipScramble \/ (\E key \in Contexts : Move(key)) \/ (\E s \in Sessions : Changed(s))
  BY <1>1, <1>5 DEF Tick, Dismiss, SkipScramble, Move, Changed, saveVars
<1>6. CASE ElsewhereFails \/ SessionFails \/ AddFails \/ SyncFails \/ SnapshotFails \/ \E i \in SaverIds : SaveEnds(i)
  <2>1. saving' = FALSE
    BY <1>6, Zenon DEF ElsewhereFails, SessionFails, AddFails, SyncFails, SnapshotFails, SaveEnds, Fail
  <2> QED
    BY <1>2, <2>1
<1>7. CASE Retry
  BY <1>1, <1>3, <1>7, RetrySaves
<1>8. ASSUME NEW s \in draws, Found(s) \/ NotFound(s) PROVE SavingWaits'
  <2>1. UNCHANGED savers
    BY <1>8 DEF Found, NotFound, saveVars
  <2>2. UNCHANGED saving \/ saving' = FALSE
    BY <1>8, Zenon DEF Found, NotFound, saveVars, Fail
  <2> QED
    BY <1>1, <1>2, <2>1, <2>2
<1>9. CASE SessionCreated
  <2> DEFINE key == Head(requests).key
  <2>1. savers' = [i \in SaverIds |->
           IF i \in Waiting(key) THEN [savers[i] EXCEPT !.stage = "add"] ELSE savers[i]]
    BY <1>9 DEF SessionCreated
  <2>2. UNCHANGED saving
    BY <1>9 DEF SessionCreated
  <2>3. ASSUME NEW i \in SaverIds, savers[i].stage # "idle" PROVE savers'[i].stage # "idle"
    <3>1. CASE i \in Waiting(key)
      <4>1. savers'[i] = [savers[i] EXCEPT !.stage = "add"]
        BY <2>1, <3>1
      <4>2. savers[i] \in [stage : {"session", "add", "after"}, key : Contexts, attempt : Nat,
                            refresh : {"none", "loading", "queued", "done"}, retried : BOOLEAN]
        BY <2>3, IdleCall DEF Savers, PageTypes, SaveTypes
      <4> QED
        BY <4>1, <4>2
    <3> QED
      BY <2>1, <2>3, <3>1
  <2> QED
    BY <1>1, <2>2, <2>3
<1>10. CASE SolveAdded
  <2>1. PICK i \in SaverIds : /\ \A j \in SaverIds : j # i => savers'[j] = savers[j]
                              /\ savers'[i].stage = "after"
    BY <1>10, SolveAddedCalls
  <2> QED
    BY <1>1, <1>10, <2>1 DEF SolveAdded
<1>11. CASE Synced
  BY <1>1, <1>11 DEF Synced, saveVars
<1>12. CASE SnapshotRead
  <2>1. \A i \in SaverIds : savers'[i].stage = savers[i].stage
    BY <1>12, LoadedCalls DEF SnapshotRead, PageTypes
  <2> QED
    BY <1>1, <1>12, <2>1 DEF SnapshotRead
<1> QED
  BY <1>4, <1>5, <1>6, <1>7, <1>8, <1>9, <1>10, <1>11, <1>12
  DEF Next, Player, EngineAnswers, Dispatch, HoldTimeout, ExpiryTimeout
---------------------------------------------------------------------------
(* The scrambles asked for. *)

LEMMA NextsAhead ==
  ASSUME NEW found, NEW keys, NEW held
  PROVE  /\ Nexts(DrawAhead(found, keys, held)) = Nexts(found)
         /\ found \subseteq DrawAhead(found, keys, held)
         /\ \A s \in DrawAhead(found, keys, held) : s \in found \/ (s.by = 0 /\ s.what = "ahead")
<1>1. \A k : Search("ahead", k, 0, {}).what = "ahead" /\ Search("ahead", k, 0, {}).by = 0
  BY DEF Search
<1>2. found \subseteq DrawAhead(found, keys, held)
  BY DEF DrawAhead
<1>3. \A s \in DrawAhead(found, keys, held) : s \in found \/ (s.by = 0 /\ s.what = "ahead")
  BY <1>1 DEF DrawAhead
<1> QED
  BY <1>2, <1>3 DEF Nexts

LEMMA NextsOutdated ==
  ASSUME NEW found \in SUBSET Draws
  PROVE  Nexts(Outdated(found)) = {}
<1>1. ASSUME NEW s \in Outdated(found) PROVE ~(s.what = "next" /\ s.live)
  <2>1. PICK u \in found : s = IF u.what = "next" THEN [u EXCEPT !.live = FALSE] ELSE u
    BY DEF Outdated
  <2>2. CASE u.what = "next"
    <3>1. s = [u EXCEPT !.live = FALSE]
      BY <2>1, <2>2
    <3>2. u \in Draws
      OBVIOUS
    <3>3. s.live = FALSE
      BY <3>1, <3>2, Zenon DEF Draws
    <3> QED
      BY <3>3
  <2> QED
    BY <2>1, <2>2
<1> QED
  BY <1>1 DEF Nexts

LEMMA SameDraws ==
  ASSUME UNCHANGED draws
  PROVE  UNCHANGED Coming
BY DEF Coming, Nexts

\* What asking for the next scramble does.
LEMMA NextDrawn ==
  ASSUME ScrambleTypes, NEW key \in Contexts, NEW by \in {0} \cup SaverIds, NEW meanwhile \in Nat,
         NEW after \in SUBSET Contexts, NextScramble(key, by, meanwhile, after)
  PROVE  \/ /\ ahead[key] # 0 /\ shown' = ahead[key]
            /\ kept' = [kept EXCEPT ![key] = ahead[key]] /\ ahead' = [ahead EXCEPT ![key] = 0]
            /\ ~generating' /\ Coming' = {}
         \/ /\ ahead[key] = 0 /\ shown' = meanwhile /\ UNCHANGED <<kept, ahead>>
            /\ generating' /\ \E s : Coming' = {s} /\ s.key = key /\ s.by = by
<1>0. draws \in SUBSET Draws
  BY DEF ScrambleTypes
<1>1. CASE /\ ahead[key] # 0 /\ shown' = ahead[key] /\ kept' = Remembered(key, ahead[key])
           /\ ahead' = [ahead EXCEPT ![key] = 0] /\ generating' = FALSE
           /\ draws' = DrawAhead(Outdated(draws), {key} \cup after, ahead')
  <2>1. Nexts(draws') = {}
    BY <1>0, <1>1, NextsAhead, NextsOutdated
  <2>2. ~generating'
    BY <1>1
  <2> QED
    BY <1>1, <2>1, <2>2 DEF Remembered, Coming, Nexts
<1>2. CASE /\ ahead[key] = 0 /\ generating' = TRUE
           /\ draws' = Outdated(draws) \cup {Search("next", key, by, after)}
           /\ shown' = meanwhile /\ UNCHANGED <<kept, ahead>>
  <2>1. PICK s : s = Search("next", key, by, after)
    OBVIOUS
  <2>2. s.what = "next" /\ s.live /\ s.key = key /\ s.by = by
    <3>1. s.live = TRUE
      BY <2>1, Zenon DEF Search
    <3>2. s.what = "next" /\ s.key = key /\ s.by = by
      BY <2>1 DEF Search
    <3> QED
      BY <3>1, <3>2
  <2>3. Nexts(draws') = Nexts(Outdated(draws)) \cup {s}
    BY <1>2, <2>1, <2>2 DEF Nexts
  <2>4. Nexts(draws') = {s}
    BY <1>0, <2>3, NextsOutdated
  <2>5. Coming' = {s}
    BY <2>4 DEF Coming, Nexts
  <2>6. generating'
    BY <1>2
  <2> QED
    BY <1>2, <2>2, <2>5, <2>6
<1> QED
  BY <1>1, <1>2 DEF NextScramble

\* What going to a context does.
LEMMA ContextDrawn ==
  ASSUME ScrambleTypes, NEW key \in Contexts, NEW before, SyncScramble(key, before)
  PROVE  \/ kept[key] # 0 /\ shown' = kept[key] /\ UNCHANGED <<kept, ahead, generating, Coming>>
         \/ kept[key] # 0 /\ shown' = kept[key] /\ UNCHANGED <<kept, ahead>> /\ ~generating' /\ Coming' = {}
         \/ /\ kept[key] = 0 /\ ahead[key] # 0 /\ shown' = ahead[key]
            /\ kept' = [kept EXCEPT ![key] = ahead[key]] /\ ahead' = [ahead EXCEPT ![key] = 0]
            /\ ~generating' /\ Coming' = {}
         \/ /\ kept[key] = 0 /\ ahead[key] = 0 /\ shown' = 0 /\ UNCHANGED <<kept, ahead>>
            /\ generating' /\ \E s : Coming' = {s} /\ s.key = key /\ s.by = 0
<1>0. PICK drawn \in SUBSET Contexts : drawn = Drawn(key)
  BY DrawnType
<1>1. CASE kept[key] = 0 /\ NextScramble(key, 0, 0, drawn)
  BY <1>1, NextDrawn
<1>2. CASE /\ kept[key] # 0 /\ shown' = kept[key] /\ generating' = FALSE
           /\ draws' = DrawAhead(Outdated(draws), drawn, ahead) /\ UNCHANGED <<kept, ahead>>
  <2>1. Nexts(draws') = {}
    BY <1>2, NextsAhead, NextsOutdated DEF ScrambleTypes
  <2>2. ~generating'
    BY <1>2
  <2> QED
    BY <1>2, <2>1, <2>2 DEF Coming, Nexts
<1>3. CASE kept[key] # 0 /\ shown' = kept[key] /\ UNCHANGED <<kept, ahead, draws, generating>>
  BY <1>3, SameDraws
<1> QED
  BY <1>0, <1>1, <1>2, <1>3 DEF SyncScramble

\* What a scramble found does.
LEMMA FoundDrawn ==
  ASSUME PageTypes, ComingInv, NEW s \in draws, Found(s)
  PROVE  /\ NewOne \in Nat \ {0} /\ NewOne \notin Used
         /\ \/ ahead' = ahead
            \/ s.what = "ahead" /\ ahead[s.key] = 0 /\ ahead' = [ahead EXCEPT ![s.key] = NewOne]
         /\ \/ /\ s \in Coming /\ s.what = "next" /\ shown' = NewOne
               /\ kept' = [kept EXCEPT ![s.key] = NewOne]
               /\ ~generating' /\ Coming' = {}
            \/ s \notin Coming /\ UNCHANGED <<shown, kept, generating, Coming>>
<1>1. NewOne \in Nat \ {0} /\ NewOne \notin Used
  BY FoundNew DEF PageTypes, PastTypes
<1>2. \/ ahead' = ahead
      \/ s.what = "ahead" /\ ahead[s.key] = 0 /\ ahead' = [ahead EXCEPT ![s.key] = NewOne]
  BY DEF Found
<1>3. Nexts(draws') = Nexts(draws) \ {s}
  <2>1. Nexts(draws') = Nexts(draws \ {s})
    BY NextsAhead DEF Found
  <2> QED
    BY <2>1 DEF Nexts
<1>4. Coming' = Coming \ {s}
  BY <1>3 DEF Coming, Nexts
<1>5. CASE s.what = "next" /\ s.live
  <2>1. s \in Coming
    BY <1>5 DEF Coming, Nexts
  <2>2. Coming' = {}
    BY <1>4, <2>1 DEF ComingInv
  <2>3. generating' = FALSE
    BY <1>5, Zenon DEF Found
  <2>4. shown' = NewOne /\ kept' = [kept EXCEPT ![s.key] = NewOne]
    BY <1>5 DEF Found, Remembered
  <2> QED
    BY <1>1, <1>2, <1>5, <2>1, <2>2, <2>3, <2>4
<1>6. CASE ~(s.what = "next" /\ s.live)
  <2>1. s \notin Coming
    BY <1>6 DEF Coming, Nexts
  <2>2. UNCHANGED <<shown, kept, generating>>
    BY <1>6 DEF Found
  <2> QED
    BY <1>1, <1>2, <1>4, <2>1, <2>2
<1> QED
  BY <1>5, <1>6

\* What one not found does.
LEMMA NotFoundDrawn ==
  ASSUME PageTypes, NEW s \in draws, NotFound(s)
  PROVE  /\ UNCHANGED <<shown, kept, ahead>>
         /\ \/ ~generating' /\ ~saving' /\ s \in Coming /\ Coming' \subseteq Coming
               /\ disturbed' = (disturbed \/ \E i \in SaverIds : savers[i].stage # "idle"
                                          \/ \E u \in draws' : u.what = "next" /\ u.live)
            \/ UNCHANGED <<generating, saving, disturbed, Coming>> /\ s \notin Coming
<1>1. Nexts(draws') = Nexts(draws) \ {s}
  <2>1. Nexts(draws') = Nexts(draws \ {s})
    BY NextsAhead DEF NotFound
  <2> QED
    BY <2>1 DEF Nexts
<1>2. Coming' = Coming \ {s}
  BY <1>1 DEF Coming, Nexts
<1>3. CASE s.what = "next" /\ s.live
  <2>1. s \in Coming
    BY <1>3 DEF Coming, Nexts
  <2>2. generating' = FALSE /\ saving' = FALSE
    BY <1>3, Zenon DEF NotFound, Fail
  <2>3. disturbed' = (disturbed \/ \E i \in SaverIds : savers[i].stage # "idle"
                                          \/ \E u \in draws' : u.what = "next" /\ u.live)
    BY <1>3 DEF NotFound, Fail
  <2> QED
    BY <1>2, <2>1, <2>2, <2>3 DEF NotFound
<1>4. CASE ~(s.what = "next" /\ s.live)
  <2>1. s \notin Coming
    BY <1>4 DEF Coming, Nexts
  <2> QED
    BY <1>2, <1>4, <2>1 DEF NotFound
<1> QED
  BY <1>3, <1>4
---------------------------------------------------------------------------
(* What is shown, kept and ahead. *)

\* The ways the scrambles change.
Stays ==
  /\ UNCHANGED <<context, shown, kept, ahead>> /\ Coming' \subseteq Coming
  /\ generating' => generating /\ Coming' = Coming
Advances == context' = context /\ \E by \in {0} \cup SaverIds : NextScramble(context, by, shown, {})

LEMMA StaysPut ==
  ASSUME UNCHANGED <<context, scrambleVars>>
  PROVE  Stays
BY DEF Stays, scrambleVars, Coming, Nexts

LEMMA StaysFailing ==
  ASSUME UNCHANGED <<context, shown, kept, ahead, draws>>, ~generating'
  PROVE  Stays
BY DEF Stays, Coming, Nexts

LEMMA ScrambleSteps ==
  ASSUME PageTypes, RequestInv, Next
  PROVE  \/ Stays \/ Advances
         \/ \E key \in Contexts : Move(key)
         \/ \E s \in draws : Found(s)
<1>1. ASSUME NEW t, Becomes(t) PROVE Stays
  BY <1>1, StaysPut DEF Becomes
<1>2. CASE Tick \/ Dismiss \/ Retry \/ \E s \in Sessions : Changed(s)
  BY <1>2, StaysPut DEF Tick, Dismiss, Retry, Changed
<1>3. CASE ElsewhereFails \/ SessionFails \/ AddFails \/ SyncFails \/ SnapshotFails
  <2>1. generating' = FALSE
    BY <1>3, Zenon DEF ElsewhereFails, SessionFails, AddFails, SyncFails, SnapshotFails, Fail
  <2> QED
    BY <1>3, <2>1, StaysFailing DEF ElsewhereFails, SessionFails, AddFails, SyncFails, SnapshotFails
<1>4. CASE SessionCreated \/ Synced \/ SnapshotRead \/ \E i \in SaverIds : SaveEnds(i)
  BY <1>4, StaysPut DEF SessionCreated, Synced, SnapshotRead, SaveEnds
<1>5. CASE SkipScramble
  BY <1>5 DEF SkipScramble, Advances
<1>6. CASE SolveAdded
  <2>1. Head(requests).by \in SaverIds
    BY <1>6, SolveAddedCalls
  <2>2. CASE NextScramble(context, Head(requests).by, shown, {})
    BY <1>6, <2>1, <2>2 DEF SolveAdded, Advances
  <2>3. CASE UNCHANGED scrambleVars
    BY <1>6, <2>3, StaysPut DEF SolveAdded
  <2> QED
    BY <1>6, <2>2, <2>3 DEF SolveAdded
<1>7. ASSUME NEW s \in draws, NotFound(s) PROVE Stays
  <2>1. /\ UNCHANGED <<shown, kept, ahead>>
        /\ \/ ~generating' /\ Coming' \subseteq Coming
           \/ UNCHANGED <<generating, Coming>>
    BY <1>7, NotFoundDrawn
  <2>2. context' = context
    BY <1>7 DEF NotFound
  <2> QED
    BY <2>1, <2>2 DEF Stays
<1> QED
  BY <1>1, <1>2, <1>3, <1>4, <1>5, <1>6, <1>7
  DEF Next, Player, EngineAnswers, Dispatch, HoldTimeout, ExpiryTimeout

\* The places a scramble has, when the next of a context is shown, or none is changed.
LEMMA NextPlaces ==
  ASSUME PageTypes, PlacesInv, NEW key \in Contexts,
         \/ /\ ahead[key] # 0 /\ shown' = ahead[key]
            /\ kept' = [kept EXCEPT ![key] = ahead[key]] /\ ahead' = [ahead EXCEPT ![key] = 0]
         \/ shown' \in {0, shown, kept[key]} /\ UNCHANGED <<kept, ahead>>
  PROVE  PlacesInv'
<1>0. kept \in [Contexts -> Nat] /\ ahead \in [Contexts -> Nat]
  BY DEF PageTypes, ScrambleTypes
<1>1. CASE /\ ahead[key] # 0 /\ shown' = ahead[key]
           /\ kept' = [kept EXCEPT ![key] = ahead[key]] /\ ahead' = [ahead EXCEPT ![key] = 0]
  <2>1. \A k \in Contexts : /\ kept'[k] = IF k = key THEN ahead[key] ELSE kept[k]
                            /\ ahead'[k] = IF k = key THEN 0 ELSE ahead[k]
    BY <1>0, <1>1
  <2>2. kept'[key] = shown'
    BY <1>1, <2>1
  <2>3. ASSUME NEW j \in Contexts, NEW k \in Contexts
        PROVE  /\ kept'[j] # 0 /\ kept'[j] = kept'[k] => j = k
               /\ ahead'[j] # 0 /\ ahead'[j] = ahead'[k] => j = k
               /\ ahead'[j] # 0 => ahead'[j] # kept'[k]
    BY <1>1, <2>1 DEF PlacesInv
  <2> QED
    BY <2>2, <2>3 DEF PlacesInv
<1>2. CASE shown' \in {0, shown, kept[key]} /\ UNCHANGED <<kept, ahead>>
  BY <1>2 DEF PlacesInv
<1> QED
  BY <1>1, <1>2

LEMMA FoundPlaces ==
  ASSUME PageTypes, PlacesInv, ComingInv, NEW s \in draws, Found(s)
  PROVE  PlacesInv'
<1>0. kept \in [Contexts -> Nat] /\ ahead \in [Contexts -> Nat] /\ context \in Contexts /\ context' = context
      /\ s.key \in Contexts
  BY DEF PageTypes, ScrambleTypes, Found, Draws
<1>1. /\ NewOne \in Nat \ {0} /\ NewOne \notin Used
      /\ \/ ahead' = ahead
         \/ s.what = "ahead" /\ ahead[s.key] = 0 /\ ahead' = [ahead EXCEPT ![s.key] = NewOne]
      /\ \/ s.what = "next" /\ shown' = NewOne /\ kept' = [kept EXCEPT ![s.key] = NewOne]
         \/ UNCHANGED <<shown, kept>>
  BY FoundDrawn
<1>2. PICK new : new = NewOne
  OBVIOUS
<1>3. new # 0 /\ \A k \in Contexts : kept[k] # new /\ ahead[k] # new
  BY <1>1, <1>2 DEF Used
<1>4. CASE ahead' = ahead /\ UNCHANGED <<shown, kept>>
  BY <1>0, <1>4 DEF PlacesInv
<1>5. CASE ahead' = ahead /\ shown' = new /\ kept' = [kept EXCEPT ![s.key] = new]
  <2>1. \A k \in Contexts : kept'[k] = IF k = s.key THEN new ELSE kept[k]
    BY <1>0, <1>5
  <2>2. shown' = kept'[s.key]
    BY <1>0, <1>5, <2>1
  <2>3. ASSUME NEW j \in Contexts, NEW k \in Contexts
        PROVE  /\ kept'[j] # 0 /\ kept'[j] = kept'[k] => j = k
               /\ ahead'[j] # 0 /\ ahead'[j] = ahead'[k] => j = k
               /\ ahead'[j] # 0 => ahead'[j] # kept'[k]
    BY <1>3, <1>5, <2>1 DEF PlacesInv
  <2> QED
    BY <1>0, <2>2, <2>3 DEF PlacesInv
<1>6. CASE ahead' = [ahead EXCEPT ![s.key] = new] /\ UNCHANGED <<shown, kept>>
  <2>1. \A k \in Contexts : ahead'[k] = IF k = s.key THEN new ELSE ahead[k]
    BY <1>0, <1>6
  <2>3. ASSUME NEW j \in Contexts, NEW k \in Contexts
        PROVE  /\ kept'[j] # 0 /\ kept'[j] = kept'[k] => j = k
               /\ ahead'[j] # 0 /\ ahead'[j] = ahead'[k] => j = k
               /\ ahead'[j] # 0 => ahead'[j] # kept'[k]
    BY <1>3, <1>6, <2>1 DEF PlacesInv
  <2> QED
    BY <1>0, <1>6, <2>3 DEF PlacesInv
<1> QED
  BY <1>1, <1>2, <1>4, <1>5, <1>6

LEMMA PlacesStep ==
  ASSUME PageTypes, RequestInv, PlacesInv, ComingInv, DrawWaits, Next
  PROVE  PlacesInv' /\ ComingInv' /\ DrawWaits'
<1>0. context \in Contexts /\ shown \in Nat /\ ScrambleTypes
  BY DEF PageTypes, ScrambleTypes
<1>00. DrawWaits' <=> (generating' => Coming' # {})
  BY DEF DrawWaits, Coming, Nexts
<1>1. CASE Stays
  <2>1. PlacesInv' /\ ComingInv'
    BY <1>1 DEF Stays, PlacesInv, ComingInv
  <2>2. DrawWaits'
    BY <1>00, <1>1 DEF Stays, DrawWaits, Coming, Nexts
  <2> QED
    BY <2>1, <2>2
<1>2. CASE Advances
  <2>1. PICK by \in {0} \cup SaverIds : NextScramble(context, by, shown, {})
    BY <1>2 DEF Advances
  <2>2. \/ /\ ahead[context] # 0 /\ shown' = ahead[context]
           /\ kept' = [kept EXCEPT ![context] = ahead[context]] /\ ahead' = [ahead EXCEPT ![context] = 0]
           /\ ~generating' /\ Coming' = {}
        \/ /\ shown' = shown /\ UNCHANGED <<kept, ahead>>
           /\ generating' /\ \E s : Coming' = {s} /\ s.key = context /\ s.by = by
    BY <1>0, <2>1, NextDrawn
  <2>3. PlacesInv'
    BY <1>0, <2>2, NextPlaces
  <2>4. ComingInv' /\ DrawWaits'
    BY <1>00, <2>2 DEF ComingInv
  <2> QED
    BY <2>3, <2>4
<1>3. ASSUME NEW key \in Contexts, Move(key) PROVE PlacesInv' /\ ComingInv' /\ DrawWaits'
  <2>1. PICK before : SyncScramble(key, before)
    BY <1>3 DEF Move
  <2>2. \/ shown' = kept[key] /\ UNCHANGED <<kept, ahead, generating, Coming>>
        \/ shown' = kept[key] /\ UNCHANGED <<kept, ahead>> /\ ~generating' /\ Coming' = {}
        \/ /\ ahead[key] # 0 /\ shown' = ahead[key]
           /\ kept' = [kept EXCEPT ![key] = ahead[key]] /\ ahead' = [ahead EXCEPT ![key] = 0]
           /\ ~generating' /\ Coming' = {}
        \/ /\ shown' = 0 /\ UNCHANGED <<kept, ahead>>
           /\ generating' /\ \E s : Coming' = {s} /\ s.key = key /\ s.by = 0
    BY <1>0, <2>1, ContextDrawn
  <2>3. PlacesInv'
    BY <1>3, <2>2, NextPlaces
  <2>4. ComingInv'
    BY <2>2 DEF ComingInv
  <2>5. DrawWaits'
    BY <1>00, <2>2 DEF DrawWaits, Coming, Nexts
  <2> QED
    BY <2>3, <2>4, <2>5
<1>4. ASSUME NEW s \in draws, Found(s) PROVE PlacesInv' /\ ComingInv' /\ DrawWaits'
  <2>2. \/ ~generating' /\ Coming' = {}
        \/ UNCHANGED <<generating, Coming>>
    BY <1>4, FoundDrawn
  <2>3. ComingInv'
    BY <2>2 DEF ComingInv
  <2>4. DrawWaits'
    BY <1>00, <2>2 DEF DrawWaits, Coming, Nexts
  <2> QED
    BY <1>4, <2>3, <2>4, FoundPlaces
<1> QED
  BY <1>1, <1>2, <1>3, <1>4, ScrambleSteps
---------------------------------------------------------------------------
(* The scrambles tried. *)

\* The attempts a step makes, or leaves.
LEMMA TriedSteps ==
  ASSUME PageTypes, Next
  PROVE  \/ \E t : Becomes(t) /\ tried' = Append(tried, Tried(t.attempt.penalty))
         \/ SameAttempts /\ \A n \in DOMAIN tried : tried[n].left => tried'[n].left
<1>1. ASSUME UNCHANGED tried PROVE SameAttempts /\ \A n \in DOMAIN tried : tried[n].left => tried'[n].left
  BY <1>1, TriedStays
<1>2. ASSUME NEW t, Becomes(t) PROVE UNCHANGED tried \/ tried' = Append(tried, Tried(t.attempt.penalty))
  BY <1>2 DEF Becomes, Save
<1>3. CASE Tick \/ Dismiss \/ SkipScramble \/ Retry \/ ElsewhereFails \/ \E s \in Sessions : Changed(s)
  BY <1>1, <1>3 DEF Tick, Dismiss, SkipScramble, Retry, ElsewhereFails, Changed, history
<1>4. CASE \E s \in draws : Found(s) \/ NotFound(s)
  BY <1>1, <1>4 DEF Found, NotFound, history
<1>5. CASE SessionCreated \/ Synced \/ SyncFails \/ SnapshotRead \/ SnapshotFails \/ \E i \in SaverIds : SaveEnds(i)
  BY <1>1, <1>5 DEF SessionCreated, Synced, SyncFails, SnapshotRead, SnapshotFails, SaveEnds, history
<1>6. CASE SessionFails \/ AddFails
  BY <1>6, FailedTried DEF SessionFails, AddFails
<1>7. CASE SolveAdded
  BY <1>7, AddedTried
<1>8. CASE \E key \in Contexts : Move(key)
  BY <1>8, MoveTried
<1> QED
  BY <1>1, <1>2, <1>3, <1>4, <1>5, <1>6, <1>7, <1>8
  DEF Next, Player, EngineAnswers, Dispatch, HoldTimeout, ExpiryTimeout

\* The scrambles changing, and not the attempts but for being left.
LEMMA SameTriedInv ==
  ASSUME TriedInv, SameAttempts,
         NEW key, key = context',
         \A n \in DOMAIN tried : \A k \in Contexts :
            /\ ahead'[k] \in {0, ahead[k]} \/ ahead'[k] # tried[n].scramble
            /\ kept'[k] # 0 /\ kept'[k] = tried[n].scramble =>
                 tried[n].stray \/ (k = tried[n].key /\ (tried'[n].left \/ k = key))
  PROVE  TriedInv'
BY DEF TriedInv, SameAttempts

LEMMA MadeTriedInv ==
  ASSUME PageTypes, PlacesInv, TriedInv, NEW t, Becomes(t), tried' = Append(tried, Tried(t.attempt.penalty))
  PROVE  TriedInv'
<1>1. /\ DOMAIN tried' = 1..(Len(tried) + 1) /\ DOMAIN tried = 1..Len(tried)
      /\ \A n \in DOMAIN tried : tried'[n] = tried[n]
      /\ tried'[Len(tried) + 1].key = context /\ tried'[Len(tried) + 1].scramble = shown
      /\ tried'[Len(tried) + 1].stray <=> shown # kept[context]
  BY MadeTried, AttemptType
<1>2. UNCHANGED <<context, shown, kept, ahead>>
  BY DEF Becomes, scrambleVars
<1>3. ASSUME NEW n \in DOMAIN tried', NEW k \in Contexts
      PROVE  /\ ahead'[k] # 0 => ahead'[k] # tried'[n].scramble
             /\ kept'[k] # 0 /\ kept'[k] = tried'[n].scramble =>
                  tried'[n].stray \/ (k = tried'[n].key /\ (tried'[n].left \/ k = context'))
  <2>1. CASE n \in DOMAIN tried
    BY <1>1, <1>2, <2>1 DEF TriedInv
  <2>2. CASE n = Len(tried) + 1
    <3>1. context \in Contexts
      BY DEF PageTypes
    <3>2. ahead[k] # 0 => ahead[k] # shown
      BY DEF PlacesInv
    <3>3. kept[k] # 0 /\ kept[k] = shown => shown # kept[context] \/ k = context
      BY <3>1 DEF PlacesInv
    <3> QED
      BY <1>1, <1>2, <2>2, <3>2, <3>3
  <2>3. n \in DOMAIN tried \/ n = Len(tried) + 1
    BY <1>1, AttemptType
  <2> QED
    BY <2>1, <2>2, <2>3
<1> QED
  BY <1>3 DEF TriedInv

LEMMA TriedStep ==
  ASSUME PageTypes, RequestInv, ScrambleInv, Next
  PROVE  TriedInv'
<1>0. /\ context \in Contexts /\ shown \in Nat /\ ScrambleTypes
      /\ kept \in [Contexts -> Nat] /\ ahead \in [Contexts -> Nat]
      /\ PlacesInv /\ TriedInv /\ ComingInv
  BY DEF PageTypes, ScrambleTypes, ScrambleInv
<1>1. CASE \E t : Becomes(t) /\ tried' = Append(tried, Tried(t.attempt.penalty))
  BY <1>0, <1>1, MadeTriedInv
<1>2. ASSUME SameAttempts, \A n \in DOMAIN tried : tried[n].left => tried'[n].left
      PROVE  TriedInv'
  <2>1. CASE Stays
    <3>1. UNCHANGED <<context, kept, ahead>>
      BY <2>1 DEF Stays
    <3> QED
      BY <1>0, <1>2, <3>1, SameTriedInv DEF TriedInv
  <2>2. CASE Advances
    <3>1. PICK by \in {0} \cup SaverIds : NextScramble(context, by, shown, {})
      BY <2>2 DEF Advances
    <3>2. \/ /\ ahead[context] # 0
             /\ kept' = [kept EXCEPT ![context] = ahead[context]] /\ ahead' = [ahead EXCEPT ![context] = 0]
          \/ UNCHANGED <<kept, ahead>>
      BY <1>0, <3>1, NextDrawn
    <3>3. context' = context
      BY <2>2 DEF Advances
    <3>4. \A n \in DOMAIN tried : \A k \in Contexts :
            /\ ahead'[k] \in {0, ahead[k]}
            /\ kept'[k] # 0 /\ kept'[k] = tried[n].scramble =>
                 tried[n].stray \/ (k = tried[n].key /\ (tried'[n].left \/ k = context))
      BY <1>0, <1>2, <3>2 DEF TriedInv
    <3> QED
      BY <1>0, <1>2, <3>3, <3>4, SameTriedInv
  <2>3. ASSUME NEW key \in Contexts, Move(key) PROVE TriedInv'
    <3>1. PICK before : context' = key /\ SyncScramble(key, before)
      BY <2>3 DEF Move
    <3>2. \/ /\ ahead[key] # 0
             /\ kept' = [kept EXCEPT ![key] = ahead[key]] /\ ahead' = [ahead EXCEPT ![key] = 0]
          \/ UNCHANGED <<kept, ahead>>
      BY <1>0, <3>1, ContextDrawn
    <3>3. \A n \in DOMAIN tried : tried[n].key = context /\ tried[n].scramble = kept[context] => tried'[n].left
      BY <2>3, MoveTried
    <3>4. \A n \in DOMAIN tried : \A k \in Contexts :
            /\ ahead'[k] \in {0, ahead[k]}
            /\ kept'[k] # 0 /\ kept'[k] = tried[n].scramble =>
                 tried[n].stray \/ (k = tried[n].key /\ (tried'[n].left \/ k = key))
      BY <1>0, <1>2, <3>2, <3>3 DEF TriedInv
    <3> QED
      BY <1>0, <1>2, <3>1, <3>4, SameTriedInv
  <2>4. ASSUME NEW s \in draws, Found(s) PROVE TriedInv'
    <3>1. PICK new : new = NewOne
      OBVIOUS
    <3>2. /\ new \notin Used
          /\ ahead' = ahead \/ ahead' = [ahead EXCEPT ![s.key] = new]
          /\ UNCHANGED kept \/ kept' = [kept EXCEPT ![s.key] = new]
      BY <1>0, <2>4, <3>1, FoundDrawn
    <3>3. \A n \in DOMAIN tried : tried[n].scramble # new
      BY <3>2 DEF Used
    <3>4. context' = context
      BY <2>4 DEF Found
    <3>5. \A k \in Contexts : ahead'[k] \in {ahead[k], new} /\ kept'[k] \in {kept[k], new}
      BY <1>0, <3>2
    <3>6. \A n \in DOMAIN tried : \A k \in Contexts :
            /\ ahead'[k] \in {0, ahead[k]} \/ ahead'[k] # tried[n].scramble
            /\ kept'[k] # 0 /\ kept'[k] = tried[n].scramble =>
                 tried[n].stray \/ (k = tried[n].key /\ (tried'[n].left \/ k = context))
      BY <1>0, <1>2, <3>3, <3>5 DEF TriedInv
    <3> QED
      BY <1>0, <1>2, <3>4, <3>6, SameTriedInv
  <2> QED
    BY <2>1, <2>2, <2>3, <2>4, ScrambleSteps
<1> QED
  BY <1>1, <1>2, TriedSteps

LEMMA InitScrambles ==
  ASSUME Init
  PROVE  ScrambleInv /\ WaitInv
<1>1. /\ context = First /\ shown = kept[First] /\ kept = Opening
      /\ ahead = [k \in Contexts |-> 0] /\ draws = {} /\ tried = <<>>
      /\ savers = [i \in SaverIds |-> IdleSaver]
  BY DEF Init
<1>2. ~generating /\ ~saving
  BY DEF Init
<1>3. PlacesInv
  BY <1>1, PageAssumption DEF PlacesInv
<1>4. TriedInv /\ ComingInv
  BY <1>1 DEF TriedInv, ComingInv, Coming, Nexts
<1>5. CallsWait
  BY <1>1, IdleCall DEF CallsWait
<1> QED
  BY <1>2, <1>3, <1>4, <1>5 DEF ScrambleInv, WaitInv, SavingWaits, DrawWaits
---------------------------------------------------------------------------
(* What is read of the engine. *)

LEMMA ReadsOn ==
  ASSUME NEW q \in Seq(Requests), NEW r \in Requests
  PROVE  /\ r.kind # "snapshot" => Reads(Append(q, r)) = Reads(q)
         /\ r.kind = "snapshot" => Reads(Append(q, r)) = Reads(q) \cup {r}
BY AskedAppend DEF Reads

LEMMA ReadsOff ==
  ASSUME NEW q \in Seq(Requests), q # <<>>
  PROVE  Tail(q) \in Seq(Requests) /\ Reads(Tail(q)) \subseteq Reads(q)
BY AskedTail DEF Reads

LEMMA ReadsAfter ==
  ASSUME NEW p \in Seq(Requests), NEW q \in Seq(Requests), \A n \in DOMAIN q : q[n].kind # "snapshot"
  PROVE  Reads(p \o q) = Reads(p)
BY AskedConcat DEF Reads, Asked

LEMMA ReadsLeft ==
  ASSUME NEW p \in Seq(Requests), NEW over
  PROVE  Reads(p \o Left(over)) = Reads(p)
<1>1. PICK q : q = Left(over)
  OBVIOUS
<1>2. q \in Seq(Requests)
  BY <1>1, LeftType
<1>3. q = <<>> \/ q = <<[kind |-> "sync"]>>
  BY <1>1 DEF Left
<1>4. \A n \in DOMAIN q : q[n].kind # "snapshot"
  BY <1>3
<1> QED
  BY <1>1, <1>2, <1>4, ReadsAfter

\* Saving an attempt reads nothing.
LEMMA ReadsSaving ==
  ASSUME PageTypes, NEW p \in Pendings \ {Nothing}, NEW retried \in BOOLEAN, SavePending(p, retried)
  PROVE  Reads(requests') = Reads(requests)
<1>0. requests \in Seq(Requests)
  BY DEF PageTypes
<1>1. p.key \in Contexts
  BY DEF Pendings
<1>2. CASE requests' = Append(requests, AddSolve(Min(Idle), p, ids[p.key]))
  <2>1. PICK i \in SaverIds : i = Min(Idle)
    BY IdleOne DEF SavePending
  <2>2. PICK s \in Nat : s = ids[p.key]
    BY <1>1, SessionNumber DEF PageTypes
  <2>3. PICK a \in Requests : a = AddSolve(i, p, s)
    BY RequestTypes
  <2>4. a.kind = "addSolve"
    BY <2>3 DEF AddSolve
  <2>5. requests' = Append(requests, a)
    BY <1>2, <2>1, <2>2, <2>3
  <2> QED
    BY <1>0, <2>4, <2>5, ReadsOn
<1>3. CASE requests' = requests \o Creation(p.key)
  <2>1. PICK q : q = Creation(p.key)
    OBVIOUS
  <2>2. q \in Seq(Requests)
    BY <1>1, <2>1, CreationType
  <2>3. q = <<>> \/ q = <<[kind |-> "createSession", key |-> p.key]>>
    BY <2>1 DEF Creation
  <2>4. \A n \in DOMAIN q : q[n].kind # "snapshot"
    BY <2>3
  <2> QED
    BY <1>0, <1>3, <2>1, <2>2, <2>4, ReadsAfter
<1> QED
  BY <1>2, <1>3 DEF SavePending

LEMMA ReadsBecoming ==
  ASSUME PageTypes, NEW t, Becomes(t)
  PROVE  Reads(requests') = Reads(requests)
<1>1. ASSUME ~Refused, pendingSolve' = [key |-> context, attempt |-> Len(tried) + 1],
             SavePending(pendingSolve', FALSE)
      PROVE  Reads(requests') = Reads(requests)
  <2>1. PICK p : p = [key |-> context, attempt |-> Len(tried) + 1]
    OBVIOUS
  <2>2. p \in [key : Contexts, attempt : Nat]
    <3>1. Len(tried) + 1 \in Nat
      BY AttemptType
    <3> QED
      BY <2>1, <3>1 DEF PageTypes
  <2>3. p # Nothing
    BY <2>1 DEF Nothing
  <2>4. p \in Pendings \ {Nothing}
    BY <2>2, <2>3 DEF Pendings
  <2>5. SavePending(p, FALSE)
    BY <1>1, <2>1
  <2> QED
    BY <2>4, <2>5, ReadsSaving
<1> QED
  BY <1>1 DEF Becomes, Save

LEMMA ReadsCreated ==
  ASSUME PageTypes, SessionCreated
  PROVE  Reads(requests') \subseteq Reads(requests)
<1>1. requests \in Seq(Requests) /\ requests # <<>>
  BY DEF PageTypes, SessionCreated, Answering
<1>2. PICK key : key = Head(requests).key
  OBVIOUS
<1>3. PICK id \in Nat : id = Len(rows) + 1
  BY LenProperties DEF PageTypes, SaveTypes
<1>4. PICK sent : sent = Adds(key, id)
  OBVIOUS
<1>5. /\ sent \in Seq(Requests)
      /\ \A n \in DOMAIN sent : \E i \in Waiting(key) : sent[n] = AddSolve(i, savers[i], id)
  BY <1>4, WaitingSeq DEF PageTypes
<1>6. requests' = Tail(requests) \o sent
  BY <1>2, <1>3, <1>4 DEF SessionCreated, Adds
<1>7. \A n \in DOMAIN sent : sent[n].kind # "snapshot"
  BY <1>5 DEF AddSolve
<1>8. Tail(requests) \in Seq(Requests) /\ Reads(Tail(requests)) \subseteq Reads(requests)
  BY <1>1, ReadsOff
<1> QED
  BY <1>5, <1>6, <1>7, <1>8, ReadsAfter

\* The ways what is read changes.
Unread ==
  /\ UNCHANGED <<context, solves, known, loading, queued, ids, rows, missed>>
  /\ Reads(requests') \subseteq Reads(requests)
Refreshes ==
  \E asked \in Seq(Requests) :
    /\ Reads(asked) \subseteq Reads(requests)
    /\ Refresh(asked, Query(context'))
    /\ context' \in Contexts /\ UNCHANGED <<solves, known, ids, missed>>

LEMMA ReadSteps ==
  ASSUME PageTypes, Next
  PROVE  Unread \/ Refreshes \/ SessionCreated \/ SnapshotRead \/ SnapshotFails
<1>0. requests \in Seq(Requests) /\ context \in Contexts
  BY DEF PageTypes
<1>1. ASSUME NEW t, Becomes(t) PROVE Unread
  <2>1. Reads(requests') = Reads(requests)
    BY <1>1, ReadsBecoming
  <2> QED
    BY <1>1, <2>1 DEF Becomes, Unread, loadVars
<1>2. CASE Tick \/ Dismiss \/ SkipScramble \/ ElsewhereFails
  <2>1. requests' = requests
    BY <1>2 DEF Tick, Dismiss, SkipScramble, ElsewhereFails
  <2>2. Reads(requests') \subseteq Reads(requests)
    BY <2>1
  <2> QED
    BY <1>2, <2>2 DEF Tick, Dismiss, SkipScramble, ElsewhereFails, Unread, loadVars, saveVars, history
<1>3. CASE \E s \in draws : Found(s) \/ NotFound(s)
  <2>1. requests' = requests
    BY <1>3 DEF Found, NotFound
  <2>2. Reads(requests') \subseteq Reads(requests)
    BY <2>1
  <2> QED
    BY <1>3, <2>2 DEF Found, NotFound, Unread, loadVars, saveVars, history
<1>4. CASE Retry
  <2>1. Reads(requests') = Reads(requests)
    <3>1. CASE pendingSolve # Nothing /\ SavePending(pendingSolve, TRUE)
      <4>1. PICK p \in Pendings \ {Nothing} : p = pendingSolve
        BY <3>1 DEF PageTypes, SaveTypes
      <4> QED
        BY <3>1, <4>1, ReadsSaving
    <3>2. CASE requests' = Append(requests, [kind |-> "sync"])
      <4>1. PICK r \in Requests : r = [kind |-> "sync"]
        BY RequestTypes
      <4>2. r.kind = "sync"
        BY <4>1
      <4> QED
        BY <1>0, <3>2, <4>1, <4>2, ReadsOn
    <3> QED
      BY <1>4, <3>1, <3>2 DEF Retry
  <2> QED
    BY <1>4, <2>1 DEF Retry, Unread, loadVars, history
<1>5. CASE SessionFails \/ AddFails
  <2>1. PICK over : requests' = Tail(requests) \o Left(over) /\ requests # <<>>
    BY <1>5 DEF SessionFails, AddFails, Answering
  <2>2. Reads(requests') \subseteq Reads(requests)
    BY <1>0, <2>1, ReadsOff, ReadsLeft
  <2> QED
    BY <1>5, <2>2 DEF SessionFails, AddFails, Unread, loadVars
<1>6. CASE \E i \in SaverIds : SaveEnds(i)
  <2>1. PICK over : requests' = requests \o Left(over)
    BY <1>6 DEF SaveEnds
  <2>2. Reads(requests') \subseteq Reads(requests)
    BY <1>0, <2>1, ReadsLeft
  <2> QED
    BY <1>6, <2>2 DEF SaveEnds, Unread, loadVars, history
<1>7. CASE SyncFails
  <2>1. Reads(requests') \subseteq Reads(requests)
    BY <1>0, <1>7, ReadsOff DEF SyncFails, Answering
  <2> QED
    BY <1>7, <2>1 DEF SyncFails, Unread, loadVars
<1>8. CASE (\E key \in Contexts : Move(key)) \/ \E s \in Sessions : Changed(s)
  <2>1. Refresh(requests, Query(context')) /\ context' \in Contexts
    BY <1>0, <1>8 DEF Move, Changed
  <2> QED
    BY <1>0, <1>8, <2>1 DEF Move, Changed, Refreshes, saveVars, history
<1>9. CASE SolveAdded \/ Synced
  <2>1. Refresh(Tail(requests), Query(context)) /\ context' = context /\ requests # <<>>
    BY <1>9 DEF SolveAdded, Synced, Answering
  <2>2. Tail(requests) \in Seq(Requests) /\ Reads(Tail(requests)) \subseteq Reads(requests)
    BY <1>0, <2>1, ReadsOff
  <2>3. UNCHANGED <<solves, known, ids, missed>>
    BY <1>9 DEF SolveAdded, Synced, saveVars, history
  <2> QED
    BY <1>0, <2>1, <2>2, <2>3 DEF Refreshes
<1> QED
  BY <1>1, <1>2, <1>3, <1>4, <1>5, <1>6, <1>7, <1>8, <1>9
  DEF Next, Player, EngineAnswers, Dispatch, HoldTimeout, ExpiryTimeout
---------------------------------------------------------------------------
(* What is shown is what the engine has. *)

LEMMA ReadNothing ==
  ASSUME PageTypes, RequestInv
  PROVE  loading = Nothing => Reads(requests) = {}
<1>1. \A r \in Asked(requests) : r \in Requests
  BY AskedType DEF PageTypes
<1>2. loading = Nothing => ~Awaits(requests, <<"snapshot", 0>>)
  BY DEF RequestInv, Backed
<1> QED
  BY <1>1, <1>2, Tags DEF Reads, Awaits

LEMMA SameIds ==
  ASSUME PageTypes, PageTypes', UNCHANGED <<ids, rows>>
  PROVE  \A k \in Contexts : Rows(ids[k])' = Rows(ids[k])
BY DEF Rows

LEMMA UnreadInv ==
  ASSUME PageTypes, ReadInv, Unread
  PROVE  ReadInv'
<1>1. Rows(ids[context])' = Rows(ids[context])
  BY DEF Unread, Rows
<1>2. Current'
  BY <1>1 DEF Current, Unread, ReadInv
<1>3. Shown'
  BY <1>1 DEF Shown, Unread, ReadInv
<1>4. \A r \in Reads(requests') : r.known = known' /\ r.query = loading'.query
  BY DEF Unread, ReadInv
<1>5. Reads(requests)' = Reads(requests')
  BY DEF Reads, Asked
<1>6. /\ loading' # Nothing => (loading'.stale => queued')
      /\ known' # Nothing => solves' = known'.rows
  BY DEF Unread, ReadInv
<1> QED
  BY <1>2, <1>3, <1>4, <1>5, <1>6 DEF ReadInv

LEMMA RefreshedInv ==
  ASSUME PageTypes, RequestInv, ReadInv, Refreshes
  PROVE  ReadInv'
<1>1. PICK asked \in Seq(Requests) : Reads(asked) \subseteq Reads(requests) /\ Refresh(asked, Query(context'))
  BY DEF Refreshes
<1>2. context' \in Contexts /\ UNCHANGED <<solves, known, ids, missed>>
  BY DEF Refreshes
<1>3. PICK q \in Queries : q = Query(context')
  BY <1>2, QueryType DEF PageTypes
<1>4. q.context = context' /\ q.session = ids[context']
  BY <1>3 DEF Query
<1>5. Reads(requests)' = Reads(requests')
  BY DEF Reads, Asked
<1>6. CASE loading = Nothing
  <2>1. PICK l : l = [query |-> q, stale |-> FALSE]
    OBVIOUS
  <2>2. l # Nothing /\ l.query = q
    BY <2>1 DEF Nothing
  <2>3. ~l.stale
    BY <2>1
  <2>4. PICK h \in Helds : h = known
    BY DEF PageTypes, LoadTypes
  <2>5. PICK r \in Requests : r = [kind |-> "snapshot", query |-> q, known |-> h]
    BY RequestTypes
  <2>6. r.kind = "snapshot" /\ r.query = q /\ r.known = known
    BY <2>4, <2>5
  <2>7. loading' = l /\ requests' = Append(asked, r) /\ queued' = queued
    BY <1>1, <1>3, <1>6, <2>1, <2>4, <2>5 DEF Refresh
  <2>8. Reads(requests') = {r}
    BY <1>1, <1>6, <2>6, <2>7, ReadNothing, ReadsOn
  <2>9. Current'
    BY <1>2, <1>4, <2>2, <2>7 DEF Current
  <2>10. Shown'
    BY <2>2, <2>7 DEF Shown
  <2>11. \A u \in Reads(requests)' : u.known = known' /\ u.query = loading'.query
    BY <1>2, <1>5, <2>2, <2>6, <2>7, <2>8
  <2>12. /\ loading' # Nothing => (loading'.stale => queued')
         /\ known' # Nothing => solves' = known'.rows
    BY <1>2, <2>3, <2>7 DEF ReadInv
  <2> QED
    BY <2>9, <2>10, <2>11, <2>12 DEF ReadInv
<1>7. CASE loading # Nothing
  <2>1. loading' = [loading EXCEPT !.stale = loading.stale \/ loading.query # q] /\ requests' = asked
    BY <1>1, <1>3, <1>7 DEF Refresh
  <2>2. queued'
    <3>1. queued' = TRUE
      BY <1>1, <1>7, Zenon DEF Refresh
    <3> QED
      BY <3>1
  <2>3. loading \in [query : Queries, stale : BOOLEAN]
    BY <1>7 DEF PageTypes, LoadTypes, Loadings
  <2>4. loading'.query = loading.query
    BY <2>1, <2>3
  <2>5. loading' # Nothing
    BY <2>3, <2>1 DEF Nothing
  <2>6. Current' /\ Shown'
    BY <2>2, <2>5 DEF Current, Shown
  <2>7. \A u \in Reads(requests)' : u.known = known' /\ u.query = loading'.query
    BY <1>1, <1>2, <1>5, <2>1, <2>4 DEF ReadInv
  <2>8. /\ loading' # Nothing => (loading'.stale => queued')
        /\ known' # Nothing => solves' = known'.rows
    BY <1>2, <2>2 DEF ReadInv
  <2> QED
    BY <2>6, <2>7, <2>8 DEF ReadInv
<1> QED
  BY <1>6, <1>7

\* What the creation of a session does.
LEMMA Created ==
  ASSUME PageTypes, RequestInv, SessionInv, SessionCreated
  PROVE  \E key \in Contexts :
           /\ ids[key] = NoSession /\ key \in creating /\ creating' = creating \ {key}
           /\ \A k \in Contexts : ids'[k] = IF k = key THEN Len(rows) + 1 ELSE ids[k]
           /\ rows' = Append(rows, <<>>)
<1>1. requests \in Seq(Requests) /\ requests # <<>> /\ Head(requests).kind = "createSession"
  BY DEF PageTypes, SessionCreated, Answering
<1>2. PICK key \in Contexts : key = Head(requests).key
  BY <1>1, AnswerTypes, KindTypes
<1>3. key \in creating
  BY <1>1, <1>2, CreationOff DEF RequestInv
<1>4. /\ rows' = Append(rows, <<>>) /\ ids' = [ids EXCEPT ![key] = Len(rows) + 1]
      /\ creating' = creating \ {key}
  BY <1>2 DEF SessionCreated, Over
<1>5. \A k \in Contexts : ids'[k] = IF k = key THEN Len(rows) + 1 ELSE ids[k]
  BY <1>4 DEF PageTypes, SaveTypes
<1> QED
  BY <1>3, <1>4, <1>5 DEF SessionInv

LEMMA CreatedInv ==
  ASSUME PageTypes, RequestInv, SessionInv, ReadInv, SessionCreated
  PROVE  ReadInv'
<1>1. PICK key \in Contexts :
           /\ ids[key] = NoSession
           /\ \A k \in Contexts : ids'[k] = IF k = key THEN Len(rows) + 1 ELSE ids[k]
           /\ rows' = Append(rows, <<>>)
  BY Created
<1>2. UNCHANGED <<context, solves, known, loading, queued, missed>>
  BY DEF SessionCreated, loadVars, history
<1>3. Reads(requests') \subseteq Reads(requests)
  BY ReadsCreated
<1>4. context \in Contexts /\ rows \in Seq(Seq(Nat)) /\ ids[context] \in {NoSession} \cup DOMAIN rows
  BY DEF PageTypes, SaveTypes, Sessions
<1>5. /\ DOMAIN rows = 1..Len(rows) /\ Len(rows) \in Nat
      /\ \A n \in DOMAIN rows : rows'[n] = rows[n]
      /\ rows'[Len(rows) + 1] = <<>>
  BY <1>1, <1>4, AppendProperties, LenProperties
<1>6. Rows(ids[context])' = Rows(ids[context])
  <2>1. CASE context = key
    <3>1. ids'[context] = Len(rows) + 1
      BY <1>1, <1>4, <2>1
    <3>2. Len(rows) + 1 # NoSession
      BY <1>5 DEF NoSession
    <3> QED
      BY <1>1, <1>2, <1>5, <2>1, <3>1, <3>2 DEF Rows
  <2>2. CASE context # key
    <3>1. ids'[context] = ids[context]
      BY <1>1, <1>4, <2>2
    <3> QED
      BY <1>2, <1>4, <1>5, <3>1 DEF Rows
  <2> QED
    BY <2>1, <2>2
<1>7. Current'
  <2>1. CASE context = key
    <3>1. Rows(ids[context]) = <<>>
      BY <1>1, <2>1 DEF Rows
    <3>2. loading # Nothing /\ ~queued => loading.query.context = context /\ loading.query.session = NoSession
      BY <1>1, <2>1 DEF ReadInv, Current
    <3> QED
      BY <1>2, <1>6, <3>1, <3>2 DEF Current
  <2>2. CASE context # key
    <3>1. ids'[context] = ids[context]
      BY <1>1, <1>4, <2>2
    <3> QED
      BY <1>2, <1>6, <3>1 DEF Current, ReadInv
  <2> QED
    BY <2>1, <2>2
<1>8. Shown'
  BY <1>2, <1>6 DEF Shown, ReadInv
<1>9. \A r \in Reads(requests') : r.known = known' /\ r.query = loading'.query
  BY <1>2, <1>3 DEF ReadInv
<1>10. Reads(requests)' = Reads(requests')
  BY DEF Reads, Asked
<1>11. /\ loading' # Nothing => (loading'.stale => queued')
       /\ known' # Nothing => solves' = known'.rows
  BY <1>2 DEF ReadInv
<1> QED
  BY <1>7, <1>8, <1>9, <1>10, <1>11 DEF ReadInv

\* The snapshot is answered: the next one is asked for, or what is shown is right.
LEMMA NextRead ==
  ASSUME PageTypes, RequestInv, ReadInv, requests # <<>>, Head(requests).kind = "snapshot", NextLoad,
         UNCHANGED <<context, ids, rows>>, known' \in Helds, known' # Nothing => solves' = known'.rows,
         ~queued /\ ~missed' => solves' = Rows(ids[context])
  PROVE  ReadInv'
<1>0. requests \in Seq(Requests) /\ Tail(requests) \in Seq(Requests) /\ context \in Contexts
  BY AnswerTypes DEF PageTypes
<1>1. Reads(Tail(requests)) = {}
  <2>1. PICK q \in Seq(Requests) : q = Tail(requests)
    BY <1>0
  <2>2. Backed(q, savers, creating, Nothing)
    BY <1>0, <2>1, ReadOff DEF RequestInv
  <2>3. ~Awaits(q, <<"snapshot", 0>>)
    BY <2>2 DEF Backed
  <2>4. \A r \in Asked(q) : r \in Requests
    BY AskedType
  <2> QED
    BY <2>1, <2>3, <2>4, Tags DEF Reads, Awaits
<1>2. Reads(requests)' = Reads(requests')
  BY DEF Reads, Asked
<1>3. ~queued'
  <2>1. queued' = FALSE
    BY Zenon DEF NextLoad
  <2> QED
    BY <2>1
<1>4. CASE queued
  <2>1. PICK q \in Queries : q = Query(context)
    BY <1>0, QueryType DEF PageTypes
  <2>2. q.context = context /\ q.session = ids[context]
    BY <2>1 DEF Query
  <2>3. PICK l : l = [query |-> q, stale |-> FALSE]
    OBVIOUS
  <2>4. l # Nothing /\ l.query = q
    BY <2>3 DEF Nothing
  <2>5. ~l.stale
    BY <2>3
  <2>6. PICK h \in Helds : h = known'
    OBVIOUS
  <2>7. PICK r \in Requests : r = [kind |-> "snapshot", query |-> q, known |-> h]
    BY RequestTypes
  <2>8. r.kind = "snapshot" /\ r.query = q /\ r.known = h
    BY <2>7
  <2>9. loading' = l /\ requests' = Append(Tail(requests), r)
    BY <1>4, <2>1, <2>3, <2>6, <2>7 DEF NextLoad
  <2>10. Reads(requests') = {r}
    BY <1>0, <1>1, <2>8, <2>9, ReadsOn
  <2>11. Current' /\ Shown'
    BY <2>2, <2>4, <2>9 DEF Current, Shown
  <2>12. \A u \in Reads(requests)' : u.known = known' /\ u.query = loading'.query
    BY <1>2, <2>4, <2>6, <2>8, <2>9, <2>10
  <2> QED
    BY <2>5, <2>9, <2>11, <2>12 DEF ReadInv
<1>5. CASE ~queued
  <2>1. loading' = Nothing /\ requests' = Tail(requests)
    BY <1>5 DEF NextLoad
  <2>2. Rows(ids[context])' = Rows(ids[context])
    BY DEF Rows
  <2>3. Current' /\ Shown'
    BY <1>5, <2>1, <2>2 DEF Current, Shown
  <2>4. Reads(requests)' = {}
    BY <1>1, <1>2, <2>1
  <2> QED
    BY <2>1, <2>3, <2>4 DEF ReadInv
<1> QED
  BY <1>4, <1>5 DEF PageTypes, LoadTypes

\* What a snapshot's request is of.
LEMMA ReadAnswered ==
  ASSUME PageTypes, RequestInv, ReadInv, Answering("snapshot")
  PROVE  /\ requests # <<>> /\ Head(requests).kind = "snapshot" /\ loading # Nothing
         /\ Head(requests).query = loading.query /\ Head(requests).known = known
<1>1. requests \in Seq(Requests) /\ requests # <<>> /\ Head(requests).kind = "snapshot"
  BY DEF PageTypes, Answering
<1>2. loading # Nothing
  BY <1>1, ReadOff DEF RequestInv
<1>3. Head(requests) \in Reads(requests)
  BY <1>1, AskedTail DEF Reads
<1> QED
  BY <1>1, <1>2, <1>3 DEF ReadInv

LEMMA SnapshotReadInv ==
  ASSUME PageTypes, RequestInv, ReadInv, SnapshotRead
  PROVE  ReadInv' /\ PageTypes'
<1>1. /\ requests # <<>> /\ Head(requests).kind = "snapshot" /\ loading # Nothing
      /\ Head(requests).query = loading.query /\ Head(requests).known = known
  BY ReadAnswered DEF SnapshotRead
<1>2. known # Nothing => solves = known.rows
  BY DEF ReadInv
<1> DEFINE all == Rows(loading.query.session)
           ours == loading.query.session = ids[loading.query.context]
<1>3. PageTypes' /\ IF loading.stale
                    THEN UNCHANGED <<solves, known, missed>>
                    ELSE /\ solves' = IF ours THEN all ELSE <<>>
                         /\ known' = IF ours THEN [rows |-> all] ELSE Nothing
                         /\ ~missed'
  BY <1>1, <1>2, SnapshotReadTypes
<1>4. NextLoad /\ UNCHANGED <<context, ids, rows>>
  BY DEF SnapshotRead
<1>5. known' \in Helds
  BY <1>3 DEF PageTypes, LoadTypes
<1>6. known' # Nothing => solves' = known'.rows
  <2> HIDE DEF all, ours
  <2>1. CASE loading.stale
    BY <1>2, <1>3, <2>1
  <2>2. CASE ~loading.stale
    <3>1. [rows |-> all].rows = all
      OBVIOUS
    <3> QED
      BY <1>3, <2>2, <3>1
  <2> QED
    BY <2>1, <2>2
<1>7. ~queued /\ ~missed' => solves' = Rows(ids[context])
  <2> SUFFICES ASSUME ~queued PROVE solves' = Rows(ids[context])
    OBVIOUS
  <2>1. ~loading.stale
    BY <1>1 DEF ReadInv
  <2>2. solves' = IF ours THEN all ELSE <<>>
    BY <1>3, <2>1
  <2>3. /\ loading.query.context = context
        /\ \/ loading.query.session = ids[context]
           \/ loading.query.session = NoSession /\ Rows(ids[context]) = <<>>
    BY <1>1 DEF ReadInv, Current
  <2>4. Rows(NoSession) = <<>>
    BY DEF Rows
  <2> QED
    BY <2>2, <2>3, <2>4
<1> HIDE DEF all, ours
<1> QED
  BY <1>1, <1>3, <1>4, <1>5, <1>6, <1>7, NextRead

LEMMA ReadStep ==
  ASSUME PageTypes, RequestInv, SessionInv, ReadInv, Next
  PROVE  ReadInv'
<1>1. CASE SnapshotFails
  <2>1. /\ requests # <<>> /\ Head(requests).kind = "snapshot"
    BY <1>1, ReadAnswered DEF SnapshotFails
  <2>2. NextLoad /\ UNCHANGED <<context, ids, rows, solves, known>>
    BY <1>1 DEF SnapshotFails
  <2>3. missed'
    <3>1. missed' = TRUE
      BY <1>1, Zenon DEF SnapshotFails
    <3> QED
      BY <3>1
  <2>4. known' \in Helds /\ (known' # Nothing => solves' = known'.rows)
    BY <2>2 DEF ReadInv, PageTypes, LoadTypes
  <2> QED
    BY <2>1, <2>2, <2>3, <2>4, NextRead
<1> QED
  BY <1>1, ReadSteps, UnreadInv, RefreshedInv, CreatedInv, SnapshotReadInv

LEMMA InitRead ==
  ASSUME Init
  PROVE  ReadInv
<1>1. /\ loading = Nothing /\ solves = <<>> /\ known = Nothing /\ requests = <<>> /\ context = First
      /\ ids = [k \in Contexts |-> NoSession]
  BY DEF Init
<1>2. Rows(ids[context]) = <<>>
  BY <1>1, PageAssumption DEF Rows
<1> QED
  BY <1>1, <1>2 DEF ReadInv, Current, Shown, Reads, Asked
---------------------------------------------------------------------------
(* The sessions, and the steps of all but what is saved. *)

LEMMA SessionStep ==
  ASSUME PageTypes, RequestInv, SessionInv, Next
  PROVE  SessionInv'
<1>1. ASSUME UNCHANGED ids, DOMAIN rows' = DOMAIN rows, \A k \in creating' : k \in creating \/ ids[k] = NoSession
      PROVE  SessionInv'
  BY <1>1 DEF SessionInv, Sessions
<1>2. ASSUME UNCHANGED <<ids, rows, creating>> PROVE SessionInv'
  BY <1>2 DEF SessionInv, Sessions
<1>3. ASSUME NEW t, Becomes(t) PROVE SessionInv'
  <2>1. UNCHANGED <<ids, rows>>
    BY <1>3 DEF Becomes
  <2>2. \A k \in creating' : k \in creating \/ ids[k] = NoSession
    BY <1>3, BecomesSaves DEF Begins
  <2> QED
    BY <1>1, <2>1, <2>2
<1>4. CASE Retry
  <2>1. UNCHANGED <<ids, rows>>
    BY <1>4 DEF Retry
  <2>2. \A k \in creating' : k \in creating \/ ids[k] = NoSession
    BY <1>4, RetrySaves DEF Begins
  <2> QED
    BY <1>1, <2>1, <2>2
<1>5. CASE Tick \/ Dismiss \/ SkipScramble \/ ElsewhereFails \/ \E key \in Contexts : Move(key)
  BY <1>2, <1>5 DEF Tick, Dismiss, SkipScramble, ElsewhereFails, Move, saveVars
<1>6. CASE \E s \in draws : Found(s) \/ NotFound(s)
  BY <1>2, <1>6 DEF Found, NotFound, saveVars
<1>7. CASE AddFails \/ Synced \/ SyncFails \/ SnapshotRead \/ SnapshotFails \/ \E i \in SaverIds : SaveEnds(i)
  BY <1>2, <1>7 DEF AddFails, Synced, SyncFails, SnapshotRead, SnapshotFails, SaveEnds, saveVars
<1>8. CASE SessionFails
  BY <1>1, <1>8 DEF SessionFails, Over
<1>9. CASE SolveAdded \/ \E s \in Sessions : Changed(s)
  <2>1. DOMAIN rows' = DOMAIN rows /\ UNCHANGED <<ids, creating>>
    BY <1>9 DEF SolveAdded, Changed, saveVars
  <2> QED
    BY <1>1, <2>1
<1>10. CASE SessionCreated
  <2>1. PICK key \in Contexts :
           /\ ids[key] = NoSession /\ key \in creating /\ creating' = creating \ {key}
           /\ \A k \in Contexts : ids'[k] = IF k = key THEN Len(rows) + 1 ELSE ids[k]
           /\ rows' = Append(rows, <<>>)
    BY <1>10, Created
  <2>2. rows \in Seq(Seq(Nat)) /\ creating \subseteq Contexts
    BY DEF PageTypes, SaveTypes
  <2>3. DOMAIN rows = 1..Len(rows) /\ DOMAIN rows' = 1..(Len(rows) + 1) /\ Len(rows) \in Nat
    BY <2>1, <2>2, AppendProperties, LenProperties
  <2>4. \A k \in creating' : ids'[k] = NoSession
    BY <2>1, <2>2 DEF SessionInv
  <2>5. ASSUME NEW s \in DOMAIN rows' PROVE \E k \in Contexts : ids'[k] = s
    <3>1. CASE s = Len(rows) + 1
      BY <2>1, <3>1
    <3>2. CASE s # Len(rows) + 1
      <4>1. s \in DOMAIN rows
        BY <2>3, <3>2
      <4>2. PICK k \in Contexts : ids[k] = s
        BY <4>1 DEF SessionInv, Sessions
      <4>3. s # NoSession
        BY <2>3, <4>1 DEF NoSession
      <4>4. ids'[k] = s
        BY <2>1, <4>2, <4>3
      <4> QED
        BY <4>4
    <3> QED
      BY <3>1, <3>2
  <2> QED
    BY <2>4, <2>5 DEF SessionInv, Sessions
<1> QED
  BY <1>3, <1>4, <1>5, <1>6, <1>7, <1>8, <1>9, <1>10
  DEF Next, Player, EngineAnswers, Dispatch, HoldTimeout, ExpiryTimeout

LEMMA InitSessions ==
  ASSUME Init
  PROVE  SessionInv
BY DEF Init, SessionInv, Sessions

LEMMA TypeStep ==
  ASSUME PageTypes, RequestInv, ReadInv, Next
  PROVE  PageTypes'
<1>1. CASE SolveAdded
  BY <1>1, SolveAddedCalls, SolveAddedTypes
<1>2. CASE SnapshotRead
  BY <1>2, SnapshotReadInv
<1> QED
  BY <1>1, <1>2, BecomesType, PlayerTypes, RetryTypes, MoveTypes, ChangedTypes, FoundTypes, NotFoundTypes,
     SessionCreatedTypes, SavingFailsTypes, SaveEndsTypes, SyncTypes, SnapshotFailsTypes
  DEF Next, Player, EngineAnswers, Dispatch, HoldTimeout, ExpiryTimeout

LEMMA InitRequests ==
  ASSUME Init
  PROVE  RequestInv
<1>1. requests = <<>> /\ loading = Nothing /\ creating = {} /\ savers = [i \in SaverIds |-> IdleSaver]
  BY DEF Init
<1>2. \A i \in SaverIds : savers[i].stage # "add"
  BY <1>1, IdleCall
<1> QED
  BY <1>1, <1>2 DEF RequestInv, Backed, Single, Awaits, Asked

LEMMA InitStore ==
  ASSUME Init
  PROVE  StoreInv
BY InitTypes, InitTimer, InitRequests, InitScrambles, InitSessions, InitRead DEF StoreInv

LEMMA StoreStep ==
  ASSUME StoreInv, Next
  PROVE  StoreInv'
<1>1. /\ PageTypes /\ TimerInv /\ RequestInv /\ SessionInv /\ ReadInv /\ ScrambleInv
      /\ CallsWait /\ SavingWaits /\ DrawWaits /\ PlacesInv /\ ComingInv
  BY DEF StoreInv, WaitInv, ScrambleInv
<1>2. PageTypes'
  BY <1>1, TypeStep
<1>3. TimerInv' /\ RequestInv' /\ SessionInv' /\ ReadInv'
  BY <1>1, <1>2, TimerStep, RequestStep, SessionStep, ReadStep
<1>4. CallsWait' /\ SavingWaits' /\ PlacesInv' /\ ComingInv' /\ DrawWaits' /\ TriedInv'
  BY <1>1, CallsStep, SavingStep, PlacesStep, TriedStep
<1> QED
  BY <1>2, <1>3, <1>4 DEF StoreInv, WaitInv, ScrambleInv

LEMMA StoreStutter ==
  ASSUME StoreInv, UNCHANGED vars
  PROVE  StoreInv'
<1>1. UNCHANGED <<timer, context, shown, kept, ahead, draws, generating, saving, pendingSolve, savers, ids,
                  creating, loading, queued, solves, known, requests, error, rows, tried, solving, disturbed,
                  missed, bounds>>
  BY DEF vars, scrambleVars, saveVars, loadVars, history
<1>2. PageTypes'
  BY <1>1 DEF StoreInv, PageTypes, ScrambleTypes, SaveTypes, LoadTypes, PastTypes, Sessions
<1>3. TimerInv'
  BY <1>1, StillTimer, TriedStays DEF StoreInv
<1>4. RequestInv'
  BY <1>1, SameRequests DEF StoreInv
<1>5. WaitInv'
  BY <1>1 DEF StoreInv, WaitInv, CallsWait, SavingWaits, DrawWaits
<1>6. SessionInv'
  BY <1>1 DEF StoreInv, SessionInv, Sessions
<1>7. ReadInv'
  BY <1>1, UnreadInv DEF StoreInv, Unread
<1>8. ScrambleInv'
  BY <1>1 DEF StoreInv, ScrambleInv, PlacesInv, TriedInv, ComingInv, Coming, Nexts
<1> QED
  BY <1>2, <1>3, <1>4, <1>5, <1>6, <1>7, <1>8 DEF StoreInv

---------------------------------------------------------------------------
(* What follows from it. *)

LEMMA FairStarts ==
  ASSUME StoreInv
  PROVE  StartsFair
<1>1. timer \in Timer /\ (timer.expiry <=> timer.inspected) /\ FullHold /\ DnfNeverStarted
  BY DEF StoreInv, TimerInv, Sound, FullHold
<1>2. ~timer.attempt.ended
  BY NotEnded DEF StoreInv, TimerInv
<1>3. /\ context \in Contexts /\ shown \in Nat /\ kept \in [Contexts -> Nat] /\ ahead \in [Contexts -> Nat]
      /\ ids \in [Contexts -> {NoSession} \cup Sessions]
      /\ pendingSolve # Nothing => pendingSolve.attempt \in DOMAIN tried
      /\ queued => loading # Nothing
  BY DEF StoreInv, PageTypes, ScrambleTypes, SaveTypes, LoadTypes, PastTypes
<1>4. \A s \in draws : s.what \in {"next", "ahead"} /\ s.key \in Contexts
  BY DEF StoreInv, PageTypes, ScrambleTypes, Draws
<1>5. \A i \in SaverIds : savers[i].stage \in {"idle", "session", "add", "after"}
  BY IdleCall DEF StoreInv, PageTypes, SaveTypes, Savers
<1>6. {generating, saving, error, queued, disturbed, missed} \subseteq BOOLEAN
  BY Zenon DEF StoreInv, PageTypes, ScrambleTypes, SaveTypes, LoadTypes, PastTypes
<1> QED
  BY <1>1, <1>2, <1>3, <1>4, <1>5, <1>6 DEF StartsFair, TypeOK

LEMMA NoneStuck ==
  ASSUME StoreInv
  PROVE  NothingStuck
<1>1. PageTypes /\ RequestInv /\ CallsWait /\ SavingWaits /\ DrawWaits
  BY DEF StoreInv, WaitInv
<1>2. requests \in Seq(Requests) /\ creating \subseteq Contexts
  BY <1>1 DEF PageTypes, SaveTypes
<1>3. \A n \in DOMAIN requests : requests[n] \in Requests
  BY <1>2, LenProperties, ElementOfSeq
<1>4. Cardinality(Requested("snapshot")) = IF loading = Nothing THEN 0 ELSE 1
  <2>1. \A n \in DOMAIN requests : n \in Requested("snapshot") <=> Tag(requests[n]) = <<"snapshot", 0>>
    BY <1>3, Tags DEF Requested
  <2>2. CASE loading = Nothing
    <3>1. Requested("snapshot") = {}
      BY <1>1, <2>1, <2>2 DEF RequestInv, Backed, Awaits, Asked, Requested
    <3> QED
      BY <2>2, <3>1, FS_EmptySet
  <2>3. CASE loading # Nothing
    <3>1. PICK n \in DOMAIN requests : Tag(requests[n]) = <<"snapshot", 0>>
      BY <1>1, <2>3 DEF RequestInv, Backed, Awaits, Asked
    <3>2. \A m \in Requested("snapshot") : m = n
      <4>1. <<"snapshot", 0>> # <<"sync", 0>>
        BY Tags
      <4>2. Single(requests)
        BY <1>1 DEF RequestInv, Backed
      <4> QED
        BY <2>1, <3>1, <4>1, <4>2 DEF Single, Requested
    <3>3. Requested("snapshot") = {n}
      BY <2>1, <3>1, <3>2
    <3> QED
      BY <2>3, <3>3, FS_Singleton
  <2> QED
    BY <2>2, <2>3
<1>5. ASSUME NEW i \in SaverIds
      PROVE  /\ savers[i].stage = "session" =>
                  \E n \in Requested("createSession") : requests[n].key = savers[i].key
             /\ savers[i].stage = "add" => \E n \in Requested("addSolve") : requests[n].by = i
             /\ savers[i].refresh = "loading" => loading # Nothing
             /\ savers[i].refresh = "queued" => queued
  <2>1. CASE savers[i].stage = "session"
    <3>1. PICK k \in Contexts : k = savers[i].key /\ k \in creating
      BY <1>1, <1>2, <2>1 DEF CallsWait
    <3>2. PICK n \in DOMAIN requests : Tag(requests[n]) = <<"createSession", k>>
      BY <1>1, <3>1 DEF RequestInv, Backed, Awaits, Asked
    <3>3. requests[n].kind = "createSession" /\ requests[n].key = k
      BY <1>3, <3>2, Tags
    <3> QED
      BY <1>1, <2>1, <3>1, <3>3 DEF Requested, CallsWait
  <2>2. CASE savers[i].stage = "add"
    <3>1. PICK n \in DOMAIN requests : Tag(requests[n]) = <<"addSolve", i>>
      BY <1>1, <2>2 DEF RequestInv, Backed, Awaits, Asked
    <3>2. requests[n].kind = "addSolve" /\ requests[n].by = i
      BY <1>3, <3>1, Tags
    <3> QED
      BY <1>1, <2>2, <3>2 DEF Requested, CallsWait
  <2> QED
    BY <1>1, <2>1, <2>2 DEF CallsWait
<1> QED
  BY <1>1, <1>4, <1>5 DEF NothingStuck, SavingWaits, DrawWaits

LEMMA SessionPerContext ==
  ASSUME StoreInv
  PROVE  OneSession
<1>1. ids \in [Contexts -> {NoSession} \cup Sessions]
  BY DEF StoreInv, PageTypes, SaveTypes
<1> DEFINE T == {ids[k] : k \in Contexts}
<1>2. Sessions \in SUBSET T
  BY DEF StoreInv, SessionInv
<1>3. ids \in Surjection(Contexts, T)
  BY <1>1 DEF Surjection
<1> HIDE DEF T
<1>4. IsFiniteSet(Contexts)
  BY PageAssumption
<1>5. IsFiniteSet(T) /\ Cardinality(T) <= Cardinality(Contexts)
  BY <1>3, <1>4, FS_Surjection
<1>6. IsFiniteSet(Sessions) /\ Cardinality(Sessions) <= Cardinality(T)
  BY <1>2, <1>5, FS_Subset
<1>7. /\ Cardinality(Sessions) \in Nat /\ Cardinality(T) \in Nat /\ Cardinality(Contexts) \in Nat
  BY <1>4, <1>5, <1>6, FS_CardinalityType
<1> QED
  BY <1>5, <1>6, <1>7 DEF OneSession
---------------------------------------------------------------------------
(* The steps, as what is saved sees them while no failure disturbs it. *)

\* The attempts stay, saved as often.
Keeps ==
  /\ SameAttempts
  /\ \A n \in DOMAIN tried :
       /\ tried'[n].saved = tried[n].saved
       /\ tried[n].failed => tried'[n].failed
       /\ tried[n].left => tried'[n].left
\* The calls of savePending go on.
GoesOn ==
  /\ UNCHANGED <<saving, pendingSolve>>
  /\ \A i \in SaverIds :
       /\ savers'[i].stage = "after" <=> savers[i].stage = "after"
       /\ savers'[i].stage \in {"session", "add"} <=> savers[i].stage \in {"session", "add"}
       /\ savers[i].stage \in {"session", "add"} =>
            savers'[i].key = savers[i].key /\ savers'[i].attempt = savers[i].attempt
\* The page shows what it did, and its timer is where it was.
Rests ==
  /\ UNCHANGED <<context, shown, kept, ahead, solving>> /\ timer'.phase = timer.phase
Waits ==
  Rests /\ GoesOn /\ Keeps /\ UNCHANGED <<generating, Coming>>
\* No call is left, nor a scramble asked for; those that were fail, and their attempts.
Halts ==
  /\ Rests /\ Keeps /\ UNCHANGED pendingSolve /\ ~saving' /\ ~generating' /\ Coming' = {}
  /\ \A i \in SaverIds :
       /\ savers'[i].stage = "idle"
       /\ savers[i].stage # "idle" =>
            /\ savers[i].stage \in {"session", "add"}
            /\ \A n \in DOMAIN tried : n = savers[i].attempt => tried'[n].failed
SavesAgain ==
  /\ Rests /\ Keeps /\ UNCHANGED <<pendingSolve, generating, Coming>>
  /\ ~saving /\ pendingSolve # Nothing /\ \E i \in SaverIds : Begins(i, pendingSolve)

LEMMA SavingKeeps ==
  ASSUME UNCHANGED tried
  PROVE  Keeps
BY TriedStays DEF Keeps

LEMMA SameCallsGoOn ==
  ASSUME UNCHANGED <<saving, pendingSolve, savers>>
  PROVE  GoesOn
BY DEF GoesOn

LEMMA FailQuiet ==
  ASSUME NEW calls, NEW found, Fail(calls, found), ~disturbed'
  PROVE  /\ ~disturbed /\ ~saving' /\ ~generating'
         /\ \A i \in SaverIds : calls[i].stage = "idle"
         /\ Nexts(found) = {}
<1>1. saving' = FALSE /\ generating' = FALSE
  BY Zenon DEF Fail
<1>2. disturbed' = (disturbed \/ \E i \in SaverIds : calls[i].stage # "idle"
                              \/ \E s \in found : s.what = "next" /\ s.live)
  BY Zenon DEF Fail
<1>3. ~(disturbed \/ \E i \in SaverIds : calls[i].stage # "idle"
                              \/ \E s \in found : s.what = "next" /\ s.live)
  BY <1>2, Zenon
<1>4. 1 \in SaverIds
  BY DEF SaverIds
<1> QED
  BY <1>1, <1>3, <1>4 DEF Nexts

LEMMA FailHalts ==
  ASSUME Fail(savers, draws'), ~disturbed', Rests, Keeps, UNCHANGED <<savers, pendingSolve>>
  PROVE  ~disturbed /\ Halts
<1>1. /\ ~disturbed /\ ~saving' /\ ~generating'
      /\ \A i \in SaverIds : savers[i].stage = "idle"
  BY FailQuiet
<1>2. Nexts(draws') = {}
  BY FailQuiet
<1>3. Coming' = {}
  BY <1>2 DEF Coming, Nexts
<1> QED
  BY <1>1, <1>3 DEF Halts

LEMMA SavingFailsHalts ==
  ASSUME PageTypes, RequestInv, SessionFails \/ AddFails, ~disturbed'
  PROVE  ~disturbed /\ Halts
<1>1. PICK over : /\ \A i \in over : savers[i].stage \in {"session", "add"}
                  /\ tried' = Failed(over)
                  /\ \A i \in SaverIds : i \notin over => savers'[i] = savers[i]
  <2>1. CASE SessionFails
    BY <2>1 DEF SessionFails, Waiting
  <2>2. CASE AddFails
    <3>1. Head(requests).by \in SaverIds /\ savers[Head(requests).by].stage = "add"
      BY <2>2, AddAnswered DEF AddFails, Answering
    <3>2. tried' = Failed({Head(requests).by}) /\ savers' = [savers EXCEPT ![Head(requests).by] = IdleSaver]
      BY <2>2 DEF AddFails
    <3>3. \A i \in SaverIds : i \notin {Head(requests).by} => savers'[i] = savers[i]
      BY <3>1, <3>2 DEF PageTypes, SaveTypes
    <3> QED
      BY <3>1, <3>2, <3>3
  <2> QED
    BY <2>1, <2>2
<1>2. /\ SameAttempts
      /\ \A n \in DOMAIN tried :
              /\ tried'[n].saved = tried[n].saved
              /\ tried'[n].left <=> tried[n].left
              /\ tried'[n].failed <=> tried[n].failed \/ \E i \in over : savers[i].attempt = n
  BY <1>1, FailedTried
<1>3. Keeps
  BY <1>2 DEF Keeps
<1>4. Rests /\ UNCHANGED <<pendingSolve, draws>>
  BY DEF SessionFails, AddFails, Rests
<1>5. PICK calls : calls = savers' /\ Fail(calls, draws)
  <2>1. PICK c : c = savers'
    OBVIOUS
  <2> QED
    BY <2>1 DEF SessionFails, AddFails
<1>6. /\ ~disturbed /\ ~saving' /\ ~generating' /\ Nexts(draws) = {}
      /\ \A i \in SaverIds : calls[i].stage = "idle"
  BY <1>5, FailQuiet
<1>7. Coming' = {}
  BY <1>4, <1>6 DEF Coming, Nexts
<1>8. ASSUME NEW i \in SaverIds
      PROVE  /\ savers'[i].stage = "idle"
             /\ savers[i].stage # "idle" =>
                  /\ savers[i].stage \in {"session", "add"}
                  /\ \A n \in DOMAIN tried : n = savers[i].attempt => tried'[n].failed
  <2>1. savers'[i].stage = "idle"
    BY <1>5, <1>6
  <2>2. savers[i].stage # "idle" => i \in over
    BY <1>1, <2>1
  <2> QED
    BY <1>1, <1>2, <2>1, <2>2
<1> QED
  BY <1>3, <1>4, <1>6, <1>7, <1>8 DEF Halts

LEMMA CreatedWaits ==
  ASSUME PageTypes, SessionCreated
  PROVE  Waits
<1>1. Rests /\ Keeps /\ UNCHANGED <<generating, Coming, saving, pendingSolve>>
  BY SavingKeeps, SameDraws DEF SessionCreated, Rests, scrambleVars, history
<1> DEFINE key == Head(requests).key
<1>2. savers' = [i \in SaverIds |->
           IF i \in Waiting(key) THEN [savers[i] EXCEPT !.stage = "add"] ELSE savers[i]]
  BY DEF SessionCreated
<1>3. ASSUME NEW i \in SaverIds
      PROVE  /\ savers'[i].stage = "after" <=> savers[i].stage = "after"
             /\ savers'[i].stage \in {"session", "add"} <=> savers[i].stage \in {"session", "add"}
             /\ savers[i].stage \in {"session", "add"} =>
                  savers'[i].key = savers[i].key /\ savers'[i].attempt = savers[i].attempt
  <2>1. CASE i \in Waiting(key)
    <3>1. savers'[i] = [savers[i] EXCEPT !.stage = "add"]
      BY <1>2, <2>1
    <3>2. savers[i] \in Savers /\ savers[i].stage = "session"
      BY <2>1 DEF Waiting, PageTypes, SaveTypes
    <3>3. savers[i] \in [stage : {"session", "add", "after"}, key : Contexts, attempt : Nat,
                          refresh : {"none", "loading", "queued", "done"}, retried : BOOLEAN]
      BY <3>2, IdleCall DEF Savers
    <3>4. savers'[i].stage = "add" /\ savers'[i].key = savers[i].key /\ savers'[i].attempt = savers[i].attempt
      BY <3>1, <3>3
    <3> QED
      BY <3>2, <3>4
  <2>2. CASE i \notin Waiting(key)
    BY <1>2, <2>2
  <2> QED
    BY <2>1, <2>2
<1>4. GoesOn
  BY <1>1, <1>3 DEF GoesOn
<1> QED
  BY <1>1, <1>4 DEF Waits

LEMMA ReadWaits ==
  ASSUME PageTypes, SnapshotRead
  PROVE  Waits
<1>1. Rests /\ Keeps /\ UNCHANGED <<generating, Coming, saving, pendingSolve>>
  BY SavingKeeps, SameDraws DEF SnapshotRead, Rests, scrambleVars
<1>2. \A i \in SaverIds :
           /\ savers'[i].stage = savers[i].stage
           /\ savers[i].stage \in {"session", "add", "after"} =>
                savers'[i].key = savers[i].key /\ savers'[i].attempt = savers[i].attempt
  BY LoadedCalls DEF SnapshotRead, PageTypes
<1>3. GoesOn
  BY <1>1, <1>2 DEF GoesOn
<1> QED
  BY <1>1, <1>3 DEF Waits

LEMMA ReadHalts ==
  ASSUME PageTypes, SnapshotFails, ~disturbed'
  PROVE  ~disturbed /\ Halts
<1>1. Rests /\ Keeps /\ UNCHANGED <<draws, pendingSolve>>
  BY SavingKeeps DEF SnapshotFails, Rests
<1>2. PICK calls : calls = savers' /\ Fail(calls, draws)
  <2>1. PICK c : c = savers'
    OBVIOUS
  <2> QED
    BY <2>1 DEF SnapshotFails
<1>3. /\ ~disturbed /\ ~saving' /\ ~generating' /\ Nexts(draws) = {}
      /\ \A i \in SaverIds : calls[i].stage = "idle"
  BY <1>2, FailQuiet
<1>4. \A i \in SaverIds : savers'[i].stage = savers[i].stage
  BY LoadedCalls DEF SnapshotFails, PageTypes
<1>5. \A i \in SaverIds : savers'[i].stage = "idle" /\ savers[i].stage = "idle"
  BY <1>2, <1>3, <1>4
<1>6. Coming' = {}
  BY <1>1, <1>3 DEF Coming, Nexts
<1> QED
  BY <1>1, <1>3, <1>5, <1>6 DEF Halts

LEMMA SaveSteps ==
  ASSUME StoreInv, Next, ~disturbed'
  PROVE  /\ ~disturbed
         /\ \/ Waits \/ Halts \/ SavesAgain \/ Timed \/ SkipScramble \/ SolveAdded
            \/ \E key \in Contexts : Move(key)
            \/ \E s \in draws : Found(s)
            \/ \E i \in SaverIds : SaveEnds(i)
<1>0. PageTypes /\ RequestInv /\ Sound(timer) /\ timer.attempt = NoAttempt
  BY DEF StoreInv, TimerInv
<1>1. CASE (\E kind \in InputKind, at \in 0..timer.age : Dispatch(kind, at)) \/ HoldTimeout \/ ExpiryTimeout
  <2>1. Enabled \in BOOLEAN
    BY DEF Enabled
  <2>2. Timed
    BY <1>0, <1>1, <2>1, TimedSteps
  <2>3. disturbed' = disturbed
    BY <2>2 DEF Timed, Becomes
  <2> QED
    BY <2>2, <2>3
<1>2. CASE Tick
  <2>1. PICK u : u = [timer EXCEPT !.age = @ + 1]
    OBVIOUS
  <2>2. timer' = u /\ u.phase = timer.phase
    BY <1>0, <1>2, <2>1, OlderSound DEF Tick
  <2>3. Rests /\ Keeps /\ GoesOn /\ UNCHANGED <<generating, Coming, disturbed>>
    BY <1>2, <2>2, SavingKeeps, SameDraws, SameCallsGoOn DEF Tick, Rests, scrambleVars, saveVars, history
  <2> QED
    BY <2>3 DEF Waits
<1>3. CASE Dismiss \/ Synced \/ \E s \in Sessions : Changed(s)
  <2>1. Rests /\ Keeps /\ GoesOn /\ UNCHANGED <<generating, Coming, disturbed>>
    BY <1>3, SavingKeeps, SameDraws, SameCallsGoOn
    DEF Dismiss, Synced, Changed, Rests, scrambleVars, saveVars, history
  <2> QED
    BY <2>1 DEF Waits
<1>4. CASE Retry
  <2>1. Rests /\ Keeps /\ UNCHANGED <<generating, Coming, disturbed, pendingSolve>>
    BY <1>4, SavingKeeps, SameDraws DEF Retry, Rests, scrambleVars, history
  <2> QED
    BY <1>0, <1>4, <2>1, RetrySaves, SameCallsGoOn DEF Waits, SavesAgain
<1>5. CASE ElsewhereFails \/ SyncFails
  <2>1. Rests /\ Keeps /\ UNCHANGED <<savers, pendingSolve, draws>>
    BY <1>5, SavingKeeps DEF ElsewhereFails, SyncFails, Rests
  <2>2. Fail(savers, draws)
    BY <1>5 DEF ElsewhereFails, SyncFails
  <2> QED
    BY <2>1, <2>2, FailHalts
<1>6. CASE SkipScramble
  BY <1>6 DEF SkipScramble, history
<1>7. CASE (\E key \in Contexts : Move(key)) \/ \E s \in draws : Found(s)
  <2>1. UNCHANGED disturbed
    BY <1>7 DEF Move, Found, history
  <2> QED
    BY <1>7, <2>1, Zenon
<1>8. ASSUME NEW s \in draws, NotFound(s) PROVE ~disturbed /\ (Waits \/ Halts)
  <2>1. Rests /\ Keeps /\ UNCHANGED <<savers, pendingSolve>>
    BY <1>8, SavingKeeps DEF NotFound, Rests
  <2>2. CASE s.what = "next" /\ s.live
    <3>1. Fail(savers, draws')
      BY <1>8, <2>2 DEF NotFound
    <3> QED
      BY <2>1, <3>1, FailHalts
  <2>3. CASE ~(s.what = "next" /\ s.live)
    <3>1. s \notin Coming
      BY <2>3 DEF Coming, Nexts
    <3>2. UNCHANGED <<generating, saving, disturbed, Coming>>
      BY <1>0, <1>8, <3>1, NotFoundDrawn
    <3> QED
      BY <2>1, <3>2, SameCallsGoOn DEF Waits
  <2> QED
    BY <2>2, <2>3
<1>9. CASE SessionCreated \/ SnapshotRead
  <2>1. UNCHANGED disturbed
    BY <1>9 DEF SessionCreated, SnapshotRead, history
  <2>2. Waits
    BY <1>0, <1>9, CreatedWaits, ReadWaits
  <2> QED
    BY <2>1, <2>2, Zenon
<1>10. CASE SessionFails \/ AddFails \/ SnapshotFails
  BY <1>0, <1>10, SavingFailsHalts, ReadHalts
<1>11. CASE SolveAdded \/ \E i \in SaverIds : SaveEnds(i)
  <2>1. UNCHANGED disturbed
    BY <1>11 DEF SolveAdded, SaveEnds, history
  <2> QED
    BY <1>11, <2>1, Zenon
<1> QED
  BY <1>1, <1>2, <1>3, <1>4, <1>5, <1>6, <1>7, <1>8, <1>9, <1>10, <1>11 DEF Next, Player, EngineAnswers
---------------------------------------------------------------------------
(* What is saved, while no failure disturbs it. *)

LEMMA Stages ==
  ASSUME StoreInv
  PROVE  /\ \A i \in SaverIds : savers[i].stage \in {"idle", "session", "add", "after"}
         /\ pendingSolve # Nothing => pendingSolve.attempt \in DOMAIN tried
         /\ DOMAIN tried = 1..Len(tried) /\ Len(tried) \in Nat
BY IdleCall, AttemptType DEF StoreInv, PageTypes, SaveTypes, PastTypes, Savers

LEMMA KeepsTrouble ==
  ASSUME Keeps, Untroubled'
  PROVE  Untroubled
BY DEF Keeps, SameAttempts, Untroubled

LEMMA KeepsMine ==
  ASSUME Keeps, UNCHANGED pendingSolve
  PROVE  Mine' = Mine /\ Saved' = Saved
<1>1. DOMAIN tried' = DOMAIN tried /\ \A n \in DOMAIN tried : tried'[n].saved = tried[n].saved
  BY DEF Keeps, SameAttempts
<1>2. Saved' = Saved
  BY <1>1 DEF Saved
<1> QED
  BY <1>1, <1>2 DEF Mine

\* A failure, a departure or a solve saved more: no more is said of the attempts.
LEMMA SameMade ==
  ASSUME StoreInv, ~disturbed, MadeInv, SameAttempts, Mine' = Mine, NextComes',
         \A n \in DOMAIN tried : /\ tried[n].failed => tried'[n].failed
                                 /\ tried[n].left => tried'[n].left
                                 /\ tried'[n].saved <= 1
  PROVE  MadeInv'
<1>1. DOMAIN tried' = DOMAIN tried /\ DOMAIN tried = 1..Len(tried) /\ Len(tried) \in Nat
  BY Stages DEF SameAttempts
<1>2. \A n \in DOMAIN tried :
        /\ tried'[n].scramble = tried[n].scramble /\ tried'[n].solving = tried[n].solving
        /\ tried'[n].stray <=> tried[n].stray
        /\ tried[n].failed => tried'[n].failed
        /\ tried[n].left => tried'[n].left
  BY DEF SameAttempts
<1>3. AllMine'
  <2> SUFFICES ASSUME NEW n \in DOMAIN tried', Clear(n)'
               PROVE  n \in Mine' /\ tried'[n].solving \in {NoSolve, tried'[n].scramble}
    BY DEF AllMine
  <2>1. Clear(n)
    BY <1>1, <1>2 DEF Clear
  <2> QED
    BY <1>1, <1>2, <2>1 DEF MadeInv, AllMine
<1>4. AllNew'
  <2>1. Mine \subseteq DOMAIN tried
    BY DEF Mine, Saved
  <2> QED
    BY <1>2, <2>1 DEF MadeInv, AllNew
<1> QED
  BY <1>1, <1>3, <1>4 DEF MadeInv

LEMMA KeepsMade ==
  ASSUME StoreInv, ~disturbed, MadeInv, Keeps, UNCHANGED pendingSolve, NextComes'
  PROVE  MadeInv'
BY KeepsMine, SameMade DEF Keeps, MadeInv

LEMMA NextStays ==
  ASSUME NextComes, Keeps, UNCHANGED <<pendingSolve, kept, Coming>>,
         \A i \in SaverIds : savers[i].stage = "after" => savers'[i].stage = "after"
  PROVE  NextComes'
<1>1. /\ Saved' = Saved /\ Saved \subseteq DOMAIN tried
      /\ \A n \in DOMAIN tried :
        /\ tried'[n].scramble = tried[n].scramble /\ tried'[n].key = tried[n].key
        /\ tried'[n].stray <=> tried[n].stray
        /\ tried[n].left => tried'[n].left
  BY KeepsMine DEF Keeps, SameAttempts, Saved
<1> SUFFICES ASSUME NEW m \in Saved', ~tried'[m].left, ~tried'[m].stray, tried'[m].scramble # 0,
                    kept'[tried'[m].key] = tried'[m].scramble
             PROVE  \E i \in SaverIds, s \in Coming' :
                      savers'[i].stage = "after" /\ s.by = i /\ s.key = tried'[m].key
  BY DEF NextComes
<1>2. /\ m \in Saved /\ ~tried[m].left /\ ~tried[m].stray /\ tried[m].scramble # 0
      /\ kept[tried[m].key] = tried[m].scramble /\ tried'[m].key = tried[m].key
  BY <1>1
<1>3. PICK i \in SaverIds, s \in Coming : savers[i].stage = "after" /\ s.by = i /\ s.key = tried[m].key
  BY <1>2 DEF NextComes
<1> QED
  BY <1>2, <1>3

\* The calls still under way are those that were.
LEMMA KeptCalls ==
  ASSUME StoreInv, StoreInv', CallInv, GoesOn, Coming' # {} => generating',
         \A n \in DOMAIN tried : tried'[n].saved = tried[n].saved /\ tried'[n].key = tried[n].key
  PROVE  CallInv'
<1>1. \A i \in SaverIds : savers[i].stage \in {"idle", "session", "add", "after"}
  BY Stages
<1>2. \A i \in SaverIds : savers'[i].stage \in {"idle", "session", "add", "after"}
  BY IdleCall DEF StoreInv, PageTypes, SaveTypes, Savers
<1>3. \A i \in SaverIds : /\ Working(i)' <=> Working(i)
                          /\ Sending(i)' <=> Sending(i)
                          /\ Sending(i) => savers'[i].key = savers[i].key /\ savers'[i].attempt = savers[i].attempt
                          /\ savers'[i].stage = "after" <=> savers[i].stage = "after"
  BY <1>1, <1>2 DEF GoesOn, Working, Sending
<1>4. (saving <=> saving') /\ pendingSolve' = pendingSolve
  BY DEF GoesOn
<1>5. pendingSolve # Nothing =>
         /\ tried'[pendingSolve.attempt].saved = tried[pendingSolve.attempt].saved
         /\ tried'[pendingSolve.attempt].key = tried[pendingSolve.attempt].key
  BY Stages
<1> QED
  BY <1>3, <1>4, <1>5 DEF CallInv

LEMMA CallsGoOn ==
  ASSUME StoreInv, StoreInv', CallInv, GoesOn, Keeps, Coming' # {} => generating'
  PROVE  CallInv'
BY KeptCalls DEF Keeps, SameAttempts

LEMMA WaitsSaves ==
  ASSUME StoreInv, StoreInv', ~disturbed, Undisturbed, Waits
  PROVE  Undisturbed'
<1>0. CallInv /\ CalmInv /\ MadeInv
  BY DEF Undisturbed
<1>1. Rests /\ GoesOn /\ Keeps /\ Coming' = Coming /\ (generating' <=> generating) /\ (saving' <=> saving)
      /\ pendingSolve' = pendingSolve
  BY DEF Waits, GoesOn
<1>2. CallInv'
  BY <1>0, <1>1, CallsGoOn DEF CallInv
<1>3. CalmInv'
  <2>1. timer'.phase = timer.phase /\ solving' = solving /\ shown' = shown
    BY <1>1 DEF Rests
  <2> QED
    BY <1>0, <1>1, <2>1, KeepsTrouble DEF CalmInv
<1>4. NextComes'
  <2>1. kept' = kept /\ \A i \in SaverIds : savers[i].stage = "after" => savers'[i].stage = "after"
    BY <1>1 DEF Rests, GoesOn
  <2> QED
    BY <1>0, <1>1, <2>1, NextStays DEF MadeInv
<1>5. MadeInv'
  BY <1>0, <1>1, <1>4, KeepsMade
<1> QED
  BY <1>2, <1>3, <1>5 DEF Undisturbed

LEMMA HaltsSaves ==
  ASSUME StoreInv, StoreInv', ~disturbed, Undisturbed, Halts
  PROVE  Undisturbed'
<1>0. CallInv /\ CalmInv /\ MadeInv
  BY DEF Undisturbed
<1>1. /\ Rests /\ Keeps /\ pendingSolve' = pendingSolve /\ ~saving' /\ ~generating' /\ Coming' = {}
      /\ \A i \in SaverIds : savers'[i].stage = "idle"
  BY DEF Halts
<1>2. /\ \A i \in SaverIds : savers[i].stage # "idle" =>
            /\ savers[i].stage \in {"session", "add"}
            /\ \A n \in DOMAIN tried : n = savers[i].attempt => tried'[n].failed
  BY DEF Halts
<1>3. CallInv'
  <2>1. pendingSolve # Nothing =>
         /\ tried'[pendingSolve.attempt].saved = tried[pendingSolve.attempt].saved
         /\ tried'[pendingSolve.attempt].key = tried[pendingSolve.attempt].key
    BY <1>1, Stages DEF Keeps, SameAttempts
  <2> QED
    BY <1>0, <1>1, <2>1 DEF CallInv, Working, Sending
<1>4. CalmInv'
  <2> SUFFICES ASSUME Untroubled'
               PROVE  /\ pendingSolve' = Nothing
                      /\ timer'.phase = "running" => solving' = shown'
    BY <1>1 DEF CalmInv
  <2>1. Untroubled
    BY <1>1, KeepsTrouble
  <2>2. ASSUME pendingSolve # Nothing PROVE FALSE
    <3>1. PICK i \in SaverIds : savers[i].stage # "idle"
      BY <1>0, <2>1, <2>2 DEF CalmInv, StoreInv, WaitInv, SavingWaits
    <3>2. Sending(i)
      BY <1>2, <3>1 DEF Sending
    <3>3. pendingSolve.attempt = savers[i].attempt /\ pendingSolve.attempt \in DOMAIN tried
      BY <1>0, <2>2, <3>2, Stages DEF CallInv
    <3>4. tried'[pendingSolve.attempt].failed
      BY <1>2, <3>1, <3>3
    <3>5. pendingSolve.attempt \in DOMAIN tried'
      BY <1>1, <3>3 DEF Keeps, SameAttempts
    <3> QED
      BY <3>4, <3>5 DEF Untroubled
  <2>3. timer'.phase = timer.phase /\ solving' = solving /\ shown' = shown
    BY <1>1 DEF Rests
  <2> QED
    BY <1>0, <1>1, <2>1, <2>2, <2>3 DEF CalmInv
<1>5. NextComes'
  <2> SUFFICES ASSUME NEW m \in Saved', ~tried'[m].left, ~tried'[m].stray, tried'[m].scramble # 0,
                      kept'[tried'[m].key] = tried'[m].scramble
               PROVE  FALSE
    BY DEF NextComes
  <2>1. m \in Saved /\ tried'[m].scramble = tried[m].scramble /\ tried'[m].key = tried[m].key
        /\ (tried[m].left => tried'[m].left) /\ (tried'[m].stray <=> tried[m].stray)
    BY <1>1, KeepsMine DEF Keeps, SameAttempts, Saved
  <2>2. kept' = kept
    BY <1>1 DEF Rests
  <2>3. PICK i \in SaverIds : savers[i].stage = "after"
    BY <1>0, <2>1, <2>2 DEF MadeInv, NextComes
  <2> QED
    BY <1>2, <2>3
<1>6. MadeInv'
  BY <1>0, <1>1, <1>5, KeepsMade
<1> QED
  BY <1>3, <1>4, <1>6 DEF Undisturbed

\* A saving begins: it is the only one.
LEMMA BeginsCalls ==
  ASSUME StoreInv, CallInv, NEW i \in SaverIds, ~saving, pendingSolve' # Nothing, Begins(i, pendingSolve'),
         tried'[pendingSolve'.attempt].saved = 0, tried'[pendingSolve'.attempt].key = pendingSolve'.key,
         Coming' # {} => generating'
  PROVE  CallInv'
<1>1. \A j \in SaverIds : savers[j].stage = "idle"
  BY DEF CallInv, Working
<1>2. /\ \A j \in SaverIds : j # i => savers'[j].stage = "idle"
      /\ savers'[i].stage \in {"session", "add"} /\ savers'[i].key = pendingSolve'.key
      /\ savers'[i].attempt = pendingSolve'.attempt /\ saving'
  BY <1>1 DEF Begins
<1> QED
  BY <1>2 DEF CallInv, Working, Sending

LEMMA AgainSaves ==
  ASSUME StoreInv, StoreInv', ~disturbed, Undisturbed, SavesAgain
  PROVE  Undisturbed'
<1>0. CallInv /\ CalmInv /\ MadeInv
  BY DEF Undisturbed
<1>1. /\ Rests /\ Keeps /\ pendingSolve' = pendingSolve /\ (generating' <=> generating) /\ Coming' = Coming
      /\ ~saving /\ pendingSolve # Nothing
  BY DEF SavesAgain
<1>2. PICK i \in SaverIds : Begins(i, pendingSolve)
  BY DEF SavesAgain
<1>3. CallInv'
  <2>1. /\ tried'[pendingSolve.attempt].saved = 0
        /\ tried'[pendingSolve.attempt].key = pendingSolve.key
    BY <1>0, <1>1, Stages DEF Keeps, SameAttempts, CallInv
  <2>2. Begins(i, pendingSolve')
    BY <1>1, <1>2
  <2>3. Coming' # {} => generating'
    BY <1>0, <1>1 DEF CallInv
  <2> QED
    BY <1>0, <1>1, <2>1, <2>2, <2>3, BeginsCalls
<1>4. CalmInv'
  BY <1>0, <1>1, KeepsTrouble DEF CalmInv
<1>5. NextComes'
  <2>1. kept' = kept
    BY <1>1 DEF Rests
  <2>2. \A j \in SaverIds : savers[j].stage = "after" => savers'[j].stage = "after"
    BY <1>2 DEF Begins
  <2> QED
    BY <1>0, <1>1, <2>1, <2>2, NextStays DEF MadeInv
<1>6. MadeInv'
  BY <1>0, <1>1, <1>5, KeepsMade
<1> QED
  BY <1>3, <1>4, <1>6 DEF Undisturbed
\* The attempts whose scramble is not shown any more.
LEMMA TriedElsewhere ==
  ASSUME StoreInv, NEW m \in DOMAIN tried, ~tried[m].left, ~tried[m].stray, tried[m].scramble # 0,
         NEW k \in Contexts, kept[k] = tried[m].scramble
  PROVE  k = context /\ k = tried[m].key
BY DEF StoreInv, ScrambleInv, TriedInv

LEMMA TriedKeys ==
  ASSUME StoreInv, NEW m \in DOMAIN tried
  PROVE  tried[m].key \in Contexts /\ tried[m].scramble \in Nat /\ tried[m].saved \in Nat
BY AttemptType DEF StoreInv, Attempts

LEMMA SkipSaves ==
  ASSUME StoreInv, StoreInv', ~disturbed, Undisturbed, SkipScramble
  PROVE  Undisturbed'
<1>0. CallInv /\ CalmInv /\ MadeInv
  BY DEF Undisturbed
<1>1. /\ ~saving /\ timer' = Reset(timer) /\ NextScramble(context, 0, shown, {})
      /\ UNCHANGED <<context, saving, pendingSolve, savers, tried>>
  BY DEF SkipScramble, Command, saveVars, history
<1>2. Keeps /\ GoesOn
  BY <1>1, SavingKeeps, SameCallsGoOn
<1>3. \/ /\ ahead[context] # 0 /\ kept' = [kept EXCEPT ![context] = ahead[context]]
         /\ ~generating' /\ Coming' = {}
      \/ kept' = kept /\ generating'
  <2>1. context \in Contexts /\ shown \in Nat /\ ScrambleTypes
    BY DEF StoreInv, PageTypes, ScrambleTypes
  <2> QED
    BY <1>1, <2>1, NextDrawn
<1>4. CallInv'
  BY <1>0, <1>2, <1>3, CallsGoOn
<1>5. CalmInv'
  <2>1. Reset(timer).phase = "idle"
    BY ResetSound DEF StoreInv, TimerInv
  <2>2. timer'.phase = "idle"
    BY <1>1, <2>1
  <2> QED
    BY <1>0, <1>1, <1>2, <2>2, KeepsTrouble DEF CalmInv
<1>6. NextComes'
  <2> SUFFICES ASSUME NEW m \in Saved', ~tried'[m].left, ~tried'[m].stray, tried'[m].scramble # 0,
                      kept'[tried'[m].key] = tried'[m].scramble
               PROVE  FALSE
    BY DEF NextComes
  <2>1. m \in Saved /\ m \in DOMAIN tried /\ tried' = tried
    BY <1>1 DEF Saved
  <2>2. kept[tried[m].key] # tried[m].scramble
    <3>1. \A i \in SaverIds : savers[i].stage # "after"
      BY <1>0, <1>1 DEF CallInv, Working
    <3> QED
      BY <1>0, <2>1, <3>1 DEF MadeInv, NextComes
  <2>3. ahead[context] # 0 /\ kept' = [kept EXCEPT ![context] = ahead[context]]
    BY <1>3, <2>1, <2>2
  <2>4. tried[m].scramble = ahead[context]
    BY <2>1, <2>2, <2>3, TriedKeys DEF StoreInv, PageTypes, ScrambleTypes
  <2> QED
    BY <2>1, <2>3, <2>4 DEF StoreInv, PageTypes, ScrambleInv, TriedInv
<1>7. MadeInv'
  BY <1>0, <1>1, <1>2, <1>6, KeepsMade
<1> QED
  BY <1>4, <1>5, <1>7 DEF Undisturbed

LEMMA MoveSaves ==
  ASSUME StoreInv, StoreInv', ~disturbed, Undisturbed, NEW key \in Contexts, Move(key)
  PROVE  Undisturbed'
<1>0. CallInv /\ CalmInv /\ MadeInv
  BY DEF Undisturbed
<1>1. /\ context' = key /\ timer' = Reset(timer)
      /\ UNCHANGED <<saving, pendingSolve, savers>>
  BY DEF Move, saveVars
<1>2. /\ SameAttempts
      /\ \A n \in DOMAIN tried :
              /\ tried'[n].saved = tried[n].saved
              /\ tried'[n].failed <=> tried[n].failed
              /\ tried'[n].left <=> tried[n].left \/ (tried[n].key = context /\ tried[n].scramble = kept[context])
  BY MoveTried DEF StoreInv
<1>3. Keeps /\ GoesOn
  BY <1>1, <1>2, SameCallsGoOn DEF Keeps
<1>4. /\ \/ kept' = kept
         \/ ahead[key] # 0 /\ kept' = [kept EXCEPT ![key] = ahead[key]]
      /\ \/ Coming' = Coming /\ generating' = generating
         \/ Coming' = {}
         \/ generating'
  <2>1. ScrambleTypes
    BY DEF StoreInv, PageTypes
  <2>2. PICK before : SyncScramble(key, before)
    BY DEF Move
  <2> QED
    BY <2>1, <2>2, ContextDrawn
<1>5. CallInv'
  BY <1>0, <1>3, <1>4, CallsGoOn DEF CallInv
<1>6. CalmInv'
  <2>1. Reset(timer).phase = "idle"
    BY ResetSound DEF StoreInv, TimerInv
  <2>2. timer'.phase = "idle"
    BY <1>1, <2>1
  <2> QED
    BY <1>0, <1>1, <1>3, <2>2, KeepsTrouble DEF CalmInv
<1>7. NextComes'
  <2> SUFFICES ASSUME NEW m \in Saved', ~tried'[m].left, ~tried'[m].stray, tried'[m].scramble # 0,
                      kept'[tried'[m].key] = tried'[m].scramble
               PROVE  FALSE
    BY DEF NextComes
  <2>1. /\ m \in DOMAIN tried /\ tried'[m].scramble = tried[m].scramble /\ tried'[m].key = tried[m].key
        /\ ~tried[m].left /\ ~tried[m].stray
        /\ ~(tried[m].key = context /\ tried[m].scramble = kept[context])
    BY <1>1, <1>2, <1>3, KeepsMine DEF SameAttempts, Saved
  <2>2. tried[m].key \in Contexts
    BY <2>1, TriedKeys
  <2>3. kept[tried[m].key] # tried[m].scramble
    BY <2>1, <2>2, TriedElsewhere
  <2>4. ahead[key] # 0 /\ kept' = [kept EXCEPT ![key] = ahead[key]]
    BY <1>4, <2>1, <2>3
  <2>5. tried[m].scramble = ahead[key]
    BY <2>1, <2>2, <2>3, <2>4 DEF StoreInv, PageTypes, ScrambleTypes
  <2> QED
    BY <2>1, <2>4, <2>5 DEF StoreInv, ScrambleInv, TriedInv
<1>8. MadeInv'
  BY <1>0, <1>1, <1>3, <1>7, KeepsMade
<1> QED
  BY <1>5, <1>6, <1>8 DEF Undisturbed

LEMMA FoundSaves ==
  ASSUME StoreInv, StoreInv', ~disturbed, Undisturbed, NEW s \in draws, Found(s)
  PROVE  Undisturbed'
<1>0. CallInv /\ CalmInv /\ MadeInv
  BY DEF Undisturbed
<1>1. UNCHANGED <<timer, context, saving, pendingSolve, savers, tried, solving>>
  BY DEF Found, saveVars, history
<1>2. Keeps /\ GoesOn
  BY <1>1, SavingKeeps, SameCallsGoOn
<1>3. PICK new : new = NewOne
  OBVIOUS
<1>4. /\ new \notin Used
      /\ \/ /\ s \in Coming /\ shown' = new /\ kept' = [kept EXCEPT ![s.key] = new]
            /\ ~generating' /\ Coming' = {}
         \/ UNCHANGED <<shown, kept, generating, Coming>>
  BY <1>3, FoundDrawn DEF StoreInv, ScrambleInv
<1>5. CallInv'
  <2>1. Coming' # {} => generating'
    BY <1>0, <1>4 DEF CallInv
  <2> QED
    BY <1>0, <1>2, <2>1, CallsGoOn
<1>6. CalmInv'
  <2>1. CASE UNCHANGED <<shown, generating>>
    BY <1>0, <1>1, <1>2, <2>1, KeepsTrouble DEF CalmInv
  <2>2. CASE s \in Coming /\ ~generating'
    <3>1. generating
      BY <1>0, <2>2 DEF CallInv
    <3> QED
      BY <1>0, <1>1, <1>2, <2>2, <3>1, KeepsTrouble DEF CalmInv
  <2> QED
    BY <1>4, <2>1, <2>2
<1>7. NextComes'
  <2>1. CASE UNCHANGED <<kept, Coming>>
    BY <1>0, <1>1, <1>2, <2>1, NextStays DEF MadeInv
  <2>2. CASE s \in Coming /\ kept' = [kept EXCEPT ![s.key] = new]
    <3> SUFFICES ASSUME NEW m \in Saved', ~tried'[m].left, ~tried'[m].stray, tried'[m].scramble # 0,
                        kept'[tried'[m].key] = tried'[m].scramble
                 PROVE  FALSE
      BY DEF NextComes
    <3>1. m \in Saved /\ m \in DOMAIN tried /\ tried' = tried
      BY <1>1 DEF Saved
    <3>2. tried[m].key \in Contexts /\ tried[m].scramble # new
      BY <1>4, <3>1, TriedKeys DEF Used
    <3>3. kept \in [Contexts -> Nat]
      BY DEF StoreInv, PageTypes, ScrambleTypes
    <3>4. kept'[tried[m].key] = IF tried[m].key = s.key THEN new ELSE kept[tried[m].key]
      BY <2>2, <3>2, <3>3
    <3>5. tried[m].key # s.key /\ kept[tried[m].key] = tried[m].scramble
      BY <3>1, <3>2, <3>4
    <3>6. PICK u \in Coming : u.key = tried[m].key
      BY <1>0, <3>1, <3>5 DEF MadeInv, NextComes
    <3>7. u = s
      BY <2>2, <3>6 DEF StoreInv, ScrambleInv, ComingInv
    <3> QED
      BY <3>5, <3>6, <3>7
  <2> QED
    BY <1>4, <2>1, <2>2
<1>8. MadeInv'
  BY <1>0, <1>1, <1>2, <1>7, KeepsMade
<1> QED
  BY <1>5, <1>6, <1>8 DEF Undisturbed

LEMMA EndsSaves ==
  ASSUME StoreInv, StoreInv', ~disturbed, Undisturbed, NEW i \in SaverIds, SaveEnds(i)
  PROVE  Undisturbed'
<1>0. CallInv /\ CalmInv /\ MadeInv
  BY DEF Undisturbed
<1>1. /\ savers[i].stage = "after" /\ ~\E s \in draws : s.by = i
      /\ savers' = [savers EXCEPT ![i] = IdleSaver]
      /\ UNCHANGED <<timer, context, shown, kept, generating, pendingSolve, tried, solving, draws>>
  BY DEF SaveEnds, scrambleVars, history
<1>2. ~saving'
  <2>1. saving' = FALSE
    BY Zenon DEF SaveEnds
  <2> QED
    BY <2>1
<1>3. Keeps /\ Coming' = Coming
  BY <1>1, SavingKeeps, SameDraws
<1>4. pendingSolve = Nothing
  BY <1>0, <1>1 DEF CallInv
<1>5. \A j \in SaverIds : savers[j].stage # "idle" => j = i
  BY <1>0, <1>1 DEF CallInv, Working
<1>6. \A j \in SaverIds : savers'[j].stage = "idle"
  <2>1. savers \in [SaverIds -> Savers]
    BY DEF StoreInv, PageTypes, SaveTypes
  <2>2. \A j \in SaverIds : savers'[j] = IF j = i THEN IdleSaver ELSE savers[j]
    BY <1>1, <2>1
  <2> QED
    BY <1>5, <2>2, IdleCall
<1>7. CallInv'
  BY <1>0, <1>1, <1>3, <1>4, <1>6 DEF CallInv, Working, Sending
<1>8. CalmInv'
  BY <1>0, <1>1, <1>2, <1>3, <1>4, KeepsTrouble DEF CalmInv
<1>9. NextComes'
  <2> SUFFICES ASSUME NEW m \in Saved', ~tried'[m].left, ~tried'[m].stray, tried'[m].scramble # 0,
                      kept'[tried'[m].key] = tried'[m].scramble
               PROVE  FALSE
    BY DEF NextComes
  <2>1. m \in Saved /\ tried' = tried /\ kept' = kept
    BY <1>1 DEF Saved
  <2>2. PICK j \in SaverIds, s \in Coming : savers[j].stage = "after" /\ s.by = j
    BY <1>0, <2>1 DEF MadeInv, NextComes
  <2>3. j = i /\ s \in draws
    BY <1>5, <2>2 DEF Coming, Nexts
  <2> QED
    BY <1>1, <2>2, <2>3
<1>10. MadeInv'
  BY <1>0, <1>1, <1>3, <1>9, KeepsMade
<1> QED
  BY <1>7, <1>8, <1>10 DEF Undisturbed
LEMMA AddedSaves ==
  ASSUME StoreInv, StoreInv', ~disturbed, Undisturbed, SolveAdded
  PROVE  Undisturbed'
<1>0. CallInv /\ CalmInv /\ MadeInv /\ PageTypes /\ RequestInv
  BY DEF Undisturbed, StoreInv
<1>1. PICK i \in SaverIds, a \in Nat :
        /\ i = Head(requests).by /\ a = Head(requests).attempt
        /\ savers[i].stage = "add" /\ savers[i].attempt = a
        /\ \A j \in SaverIds : j # i => savers'[j] = savers[j]
        /\ savers'[i].stage = "after"
  <2>1. Head(requests).attempt \in Nat
    BY <1>0, AnswerTypes, KindTypes DEF SolveAdded, Answering
  <2> QED
    BY <1>0, <2>1, SolveAddedCalls
<1>2. /\ UNCHANGED <<timer, context, saving>> /\ pendingSolve' = Nothing
      /\ \/ savers[i].key = context /\ NextScramble(context, i, shown, {})
         \/ savers[i].key # context /\ UNCHANGED scrambleVars
  BY <1>1 DEF SolveAdded, Unsaved
<1>3. /\ SameAttempts
      /\ \A n \in DOMAIN tried :
              /\ tried'[n].left <=> tried[n].left
              /\ tried'[n].failed <=> tried[n].failed
              /\ tried'[n].saved = IF n = a THEN tried[n].saved + 1 ELSE tried[n].saved
  BY <1>0, <1>1, AddedTried
<1>4. /\ saving /\ pendingSolve # Nothing /\ pendingSolve.attempt = a /\ pendingSolve.key = savers[i].key
      /\ a \in DOMAIN tried /\ tried[a].saved = 0 /\ tried[a].key = savers[i].key
  <2>1. Working(i) /\ Sending(i)
    BY <1>1 DEF Working, Sending
  <2> QED
    BY <1>0, <1>1, <2>1, Stages DEF CallInv
<1>5. \A j \in SaverIds : j # i => savers[j].stage = "idle"
  BY <1>0, <1>1 DEF CallInv, Working
<1>6. \/ /\ ahead[context] # 0 /\ kept' = [kept EXCEPT ![context] = ahead[context]]
         /\ ~generating' /\ Coming' = {} /\ savers[i].key = context
      \/ kept' = kept /\ generating' /\ savers[i].key = context
         /\ \E s : Coming' = {s} /\ s.by = i /\ s.key = context
      \/ UNCHANGED <<kept, generating, Coming>> /\ savers[i].key # context
  <2>1. context \in Contexts /\ shown \in Nat /\ ScrambleTypes
    BY <1>0 DEF PageTypes, ScrambleTypes
  <2> QED
    BY <1>2, <2>1, NextDrawn, SameDraws DEF scrambleVars
<1>7. CallInv'
  <2>1. Coming' # {} => generating'
    BY <1>0, <1>6 DEF CallInv
  <2>2. /\ \A j \in SaverIds : j # i => savers'[j].stage = "idle"
        /\ savers'[i].stage = "after" /\ saving' /\ pendingSolve' = Nothing
    BY <1>1, <1>2, <1>4, <1>5
  <2> QED
    BY <2>1, <2>2 DEF CallInv, Working, Sending
<1>8. CalmInv'
  <2> SUFFICES ASSUME Untroubled' PROVE timer'.phase \in {"idle", "stopped"}
    BY <1>2 DEF CalmInv
  <2>1. Untroubled
    BY <1>3 DEF Untroubled, SameAttempts
  <2> QED
    BY <1>0, <1>2, <1>4, <2>1 DEF CalmInv
<1>9. Saved' = Saved \cup {a} /\ Saved \subseteq DOMAIN tried
  <2>1. \A n \in DOMAIN tried : tried'[n].saved > 0 <=> tried[n].saved > 0 \/ n = a
    BY <1>3, <1>4
  <2> QED
    BY <1>3, <1>4, <2>1 DEF Saved, SameAttempts
<1>10. Mine' = Mine
  <2>1. Mine = Saved \cup {a}
    BY <1>4 DEF Mine
  <2>2. Mine' = Saved'
    BY <1>2 DEF Mine
  <2> QED
    BY <1>9, <2>1, <2>2
<1>11. NextComes'
  <2> SUFFICES ASSUME NEW m \in Saved', ~tried'[m].left, ~tried'[m].stray, tried'[m].scramble # 0,
                      kept'[tried'[m].key] = tried'[m].scramble
               PROVE  \E j \in SaverIds, s \in Coming' :
                        savers'[j].stage = "after" /\ s.by = j /\ s.key = tried'[m].key
    BY DEF NextComes
  <2>1. /\ m \in DOMAIN tried /\ tried'[m].scramble = tried[m].scramble /\ tried'[m].key = tried[m].key
        /\ ~tried[m].left /\ ~tried[m].stray /\ tried[m].scramble # 0 /\ tried[m].key \in Contexts
    BY <1>3, <1>4, <1>9, TriedKeys DEF SameAttempts
  <2>2. kept[tried[m].key] = tried[m].scramble
    <3> SUFFICES ASSUME kept[tried[m].key] # tried[m].scramble PROVE FALSE
      OBVIOUS
    <3>1. ahead[context] # 0 /\ kept' = [kept EXCEPT ![context] = ahead[context]]
      BY <1>6, <2>1
    <3>2. tried[m].scramble = ahead[context]
      BY <1>0, <2>1, <3>1 DEF PageTypes, ScrambleTypes
    <3> QED
      BY <1>0, <2>1, <3>1, <3>2 DEF StoreInv, PageTypes, ScrambleInv, TriedInv
  <2>3. tried[m].key = context
    BY <2>1, <2>2, TriedElsewhere
  <2>4. m = a
    <3>1. CASE m \in Saved
      <4>1. PICK j \in SaverIds : savers[j].stage = "after"
        BY <1>0, <2>1, <2>2, <3>1 DEF MadeInv, NextComes
      <4> QED
        BY <1>1, <1>5, <4>1
    <3> QED
      BY <1>9, <3>1
  <2>5. savers[i].key = context
    BY <1>4, <2>3, <2>4
  <2>6. CASE \E s : Coming' = {s} /\ s.by = i /\ s.key = context
    BY <1>1, <2>1, <2>3, <2>6
  <2>7. CASE ahead[context] # 0 /\ kept' = [kept EXCEPT ![context] = ahead[context]]
    <3>1. tried[m].scramble = ahead[context]
      BY <1>0, <2>1, <2>3, <2>7 DEF PageTypes, ScrambleTypes
    <3> QED
      BY <1>0, <2>1, <2>7, <3>1 DEF StoreInv, PageTypes, ScrambleInv, TriedInv
  <2> QED
    BY <1>6, <2>5, <2>6, <2>7
<1>12. MadeInv'
  <2>1. \A n \in DOMAIN tried : /\ tried[n].failed => tried'[n].failed
                                /\ tried[n].left => tried'[n].left
                                /\ tried'[n].saved <= 1
    BY <1>0, <1>3, <1>4 DEF MadeInv
  <2> QED
    BY <1>0, <1>3, <1>10, <1>11, <2>1, SameMade
<1> QED
  BY <1>7, <1>8, <1>12 DEF Undisturbed

\* A timer that goes on, or starts.
LEMMA TimedCalm ==
  ASSUME StoreInv, CalmInv, NEW t, Becomes(t), Goes(timer, t, Enabled),
         Untroubled' => Untroubled, pendingSolve' # Nothing => saving' \/ (pendingSolve # Nothing /\ (saving => saving')),
         saving' => saving \/ t.attempt.ended
  PROVE  CalmInv'
<1>1. /\ shown' = shown /\ generating' = generating
      /\ solving' = IF t.phase = "running" /\ timer.phase # "running" THEN shown
                ELSE IF t.phase = "running" THEN solving ELSE NoSolve
  BY DEF Becomes, scrambleVars
<1>2. timer'.phase = t.phase
  <2>1. timer' = [t EXCEPT !.attempt = NoAttempt] /\ t \in Timer
    BY DEF Becomes, Goes, Sound
  <2> QED
    BY <2>1 DEF Timer
<1> SUFFICES ASSUME Untroubled'
             PROVE  /\ pendingSolve' # Nothing => saving'
                    /\ saving' \/ generating' => timer'.phase \in {"idle", "stopped"}
                    /\ timer'.phase = "running" => solving' = shown'
  BY DEF CalmInv
<1>3. /\ pendingSolve # Nothing => saving
      /\ saving \/ generating => timer.phase \in {"idle", "stopped"}
      /\ timer.phase = "running" => solving = shown
  BY DEF CalmInv
<1>4. pendingSolve' # Nothing => saving'
  BY <1>3
<1>5. ASSUME saving' \/ generating' PROVE t.phase \in {"idle", "stopped"}
  <2>1. CASE saving \/ generating
    <3>1. ~Enabled
      BY <2>1 DEF Enabled
    <3> QED
      BY <1>3, <2>1, <3>1 DEF Goes
  <2>2. CASE ~(saving \/ generating)
    <3>1. t.attempt.ended
      BY <1>1, <1>5, <2>2
    <3> QED
      BY <3>1 DEF Goes
  <2> QED
    BY <2>1, <2>2
<1>6. timer'.phase = "running" => solving' = shown'
  BY <1>1, <1>2, <1>3
<1> QED
  BY <1>2, <1>4, <1>5, <1>6

\* An attempt more, dropped or to be saved.
LEMMA TimedMade ==
  ASSUME StoreInv, ~disturbed, CallInv, CalmInv, MadeInv, NEW t, Becomes(t), Goes(timer, t, Enabled),
         t.attempt.ended, tried' = Append(tried, Tried(t.attempt.penalty)),
         \/ Refused /\ UNCHANGED <<savers, pendingSolve>>
         \/ /\ ~Refused /\ pendingSolve' # Nothing /\ pendingSolve'.attempt = Len(tried) + 1
            /\ \E i \in SaverIds : Begins(i, pendingSolve')
  PROVE  MadeInv'
<1> DEFINE new == Len(tried) + 1
<1>0. PageTypes /\ TimerInv /\ DOMAIN tried = 1..Len(tried) /\ Len(tried) \in Nat
  BY Stages DEF StoreInv
<1>1. /\ DOMAIN tried' = 1..new
      /\ \A n \in DOMAIN tried : tried'[n] = tried[n]
      /\ tried'[new].key = context /\ tried'[new].scramble = shown /\ tried'[new].solving = solving
      /\ tried'[new].saved = 0 /\ ~tried'[new].failed
  BY <1>0, MadeTried
<1>2. new \notin DOMAIN tried /\ new \in DOMAIN tried' /\ DOMAIN tried' = DOMAIN tried \cup {new}
      /\ \A n \in DOMAIN tried : n < new
  BY <1>0, <1>1
<1> HIDE DEF new
<1>3. UNCHANGED <<kept, Coming>>
  BY SameDraws DEF Becomes, scrambleVars
<1>4. Saved' = Saved /\ Saved \subseteq DOMAIN tried /\ Mine \subseteq DOMAIN tried
  BY <1>1, <1>2 DEF Saved, Mine
<1>5. CASE Refused /\ UNCHANGED <<savers, pendingSolve>>
  <2>1. Mine' = Mine
    <3>1. pendingSolve # Nothing => pendingSolve.attempt \in DOMAIN tried
      BY Stages
    <3> QED
      BY <1>2, <1>4, <1>5, <3>1 DEF Mine
  <2>2. AllNew'
    BY <1>1, <1>4, <2>1 DEF MadeInv, AllNew
  <2>3. AllMine'
    <3> SUFFICES ASSUME NEW n \in DOMAIN tried', Clear(n)'
                 PROVE  n \in Mine' /\ tried'[n].solving \in {NoSolve, tried'[n].scramble}
      BY DEF AllMine
    <3>1. CASE n \in DOMAIN tried
      <4>1. Clear(n)
        BY <1>0, <1>1, <3>1 DEF Clear
      <4> QED
        BY <1>1, <2>1, <3>1, <4>1 DEF MadeInv, AllMine
    <3>2. CASE n = new
      <4>1. Untroubled
        BY <1>0, <1>1, <3>2 DEF Clear, Untroubled, new
      <4>2. saving \/ generating
        BY <1>5, <4>1 DEF Refused, CalmInv
      <4>3. timer.phase \in {"idle", "stopped"}
        BY <4>1, <4>2 DEF CalmInv
      <4> QED
        BY <4>3 DEF Goes
    <3> QED
      BY <1>2, <3>1, <3>2
  <2>4. NextComes'
    BY <1>1, <1>3, <1>4, <1>5 DEF MadeInv, NextComes
  <2>5. \A n \in DOMAIN tried' : tried'[n].saved <= 1
    BY <1>1, <1>2 DEF MadeInv
  <2> QED
    BY <2>2, <2>3, <2>4, <2>5 DEF MadeInv
<1>6. CASE /\ ~Refused /\ pendingSolve' # Nothing /\ pendingSolve'.attempt = new
           /\ \E i \in SaverIds : Begins(i, pendingSolve')
  <2>1. ~saving /\ ~generating /\ pendingSolve = Nothing
    BY <1>6 DEF Refused
  <2>2. Mine = Saved /\ Mine' = Saved \cup {new}
    BY <1>2, <1>4, <1>6, <2>1 DEF Mine
  <2>3. \A i \in SaverIds : savers[i].stage # "after"
    BY <2>1 DEF CallInv, Working
  <2>4. AllNew'
    <3> SUFFICES ASSUME NEW m \in Mine', NEW n \in Mine', m < n, ~tried'[m].left, ~tried'[m].stray,
                        tried'[m].scramble # 0
                 PROVE  tried'[m].scramble # tried'[n].scramble
      BY DEF AllNew
    <3>1. m \in Saved /\ m \in DOMAIN tried
      <4>1. n \in 1..new /\ m \in 1..new
        BY <1>1, <1>2, <1>4, <2>2
      <4>2. m # new
        BY <1>0, <4>1 DEF new
      <4> QED
        BY <1>4, <2>2, <4>2
    <3>2. CASE n \in Saved
      BY <1>1, <1>4, <2>2, <3>1, <3>2 DEF MadeInv, AllNew
    <3>3. CASE n = new
      <4> SUFFICES ASSUME tried[m].scramble = shown PROVE FALSE
        BY <1>1, <3>1, <3>3
      <4>1. ~tried[m].left /\ ~tried[m].stray /\ tried[m].scramble # 0
        BY <1>1, <3>1
      <4>2. PICK k \in Contexts : kept[k] = tried[m].scramble
        BY <4>1 DEF StoreInv, ScrambleInv, PlacesInv
      <4>3. tried[m].key = k
        BY <3>1, <4>1, <4>2, TriedElsewhere
      <4> QED
        BY <2>3, <3>1, <4>1, <4>2, <4>3 DEF MadeInv, NextComes
    <3> QED
      BY <2>2, <3>2, <3>3
  <2>5. AllMine'
    <3> SUFFICES ASSUME NEW n \in DOMAIN tried', Clear(n)'
                 PROVE  n \in Mine' /\ tried'[n].solving \in {NoSolve, tried'[n].scramble}
      BY DEF AllMine
    <3>1. CASE n \in DOMAIN tried
      <4>1. Clear(n)
        BY <1>0, <1>1, <3>1 DEF Clear
      <4> QED
        BY <1>1, <2>2, <3>1, <4>1 DEF MadeInv, AllMine
    <3>2. CASE n = new
      <4>1. Untroubled
        BY <1>0, <1>1, <3>2 DEF Clear, Untroubled, new
      <4>2. solving \in {NoSolve, shown}
        BY <1>0, <4>1 DEF TimerInv, CalmInv
      <4> QED
        BY <1>1, <2>2, <3>2, <4>2
    <3> QED
      BY <1>2, <3>1, <3>2
  <2>6. NextComes'
    <3> SUFFICES ASSUME NEW m \in Saved', ~tried'[m].left, ~tried'[m].stray, tried'[m].scramble # 0,
                        kept'[tried'[m].key] = tried'[m].scramble
                 PROVE  FALSE
      BY DEF NextComes
    <3>1. m \in Saved /\ tried'[m] = tried[m]
      BY <1>1, <1>4
    <3> QED
      BY <1>3, <2>3, <3>1 DEF MadeInv, NextComes
  <2>7. \A n \in DOMAIN tried' : tried'[n].saved <= 1
    BY <1>1, <1>2 DEF MadeInv
  <2> QED
    BY <2>4, <2>5, <2>6, <2>7 DEF MadeInv
<1> QED
  BY <1>5, <1>6 DEF new

LEMMA TimedSaves ==
  ASSUME StoreInv, StoreInv', ~disturbed, Undisturbed, Timed
  PROVE  Undisturbed'
<1>0. CallInv /\ CalmInv /\ MadeInv /\ PageTypes
  BY DEF Undisturbed, StoreInv
<1>1. PICK t : Becomes(t) /\ Goes(timer, t, Enabled)
  BY DEF Timed
<1>2. UNCHANGED <<kept, generating, Coming>>
  BY <1>1, SameDraws DEF Becomes, scrambleVars
<1>3. Coming' # {} => generating'
  BY <1>0, <1>2 DEF CallInv
<1>4. CASE ~t.attempt.ended /\ UNCHANGED <<saving, pendingSolve, savers, creating, requests, tried>>
  <2>1. Keeps /\ GoesOn
    BY <1>4, SavingKeeps, SameCallsGoOn
  <2>2. CallInv'
    BY <1>0, <1>3, <2>1, CallsGoOn
  <2>3. CalmInv'
    BY <1>0, <1>1, <1>4, <2>1, KeepsTrouble, TimedCalm DEF CalmInv
  <2>4. NextComes'
    BY <1>0, <1>2, <1>4, <2>1, NextStays DEF MadeInv
  <2>5. MadeInv'
    BY <1>0, <1>4, <2>1, <2>4, KeepsMade
  <2> QED
    BY <2>2, <2>3, <2>5 DEF Undisturbed
<1>5. CASE t.attempt.ended /\ Save(t.attempt.penalty)
  <2>1. tried' = Append(tried, Tried(t.attempt.penalty))
    BY <1>5 DEF Save
  <2>2. /\ DOMAIN tried' = 1..(Len(tried) + 1) /\ DOMAIN tried = 1..Len(tried) /\ Len(tried) \in Nat
        /\ \A n \in DOMAIN tried : tried'[n] = tried[n]
        /\ tried'[Len(tried) + 1].key = context /\ tried'[Len(tried) + 1].saved = 0
    BY <1>0, <2>1, MadeTried, AttemptType
  <2>3. Untroubled' => Untroubled
    BY <2>2 DEF Untroubled
  <2>4. CASE Refused /\ UNCHANGED <<saving, pendingSolve, savers, creating, requests>>
    <3>1. GoesOn
      BY <2>4, SameCallsGoOn
    <3>2. CallInv'
      BY <1>0, <1>3, <2>2, <3>1, KeptCalls
    <3>3. CalmInv'
      BY <1>0, <1>1, <1>5, <2>3, <2>4, TimedCalm
    <3>4. MadeInv'
      BY <1>0, <1>1, <1>5, <2>1, <2>4, TimedMade
    <3> QED
      BY <3>2, <3>3, <3>4 DEF Undisturbed
  <2>5. CASE /\ ~Refused /\ pendingSolve' = [key |-> context, attempt |-> Len(tried) + 1] /\ pendingSolve' # Nothing
             /\ \E i \in SaverIds : Begins(i, pendingSolve')
    <3>1. pendingSolve'.key = context /\ pendingSolve'.attempt = Len(tried) + 1
      BY <2>5
    <3>2. saving'
      BY <2>5 DEF Begins
    <3>3. ~saving
      BY <2>5 DEF Refused
    <3>4. PICK i \in SaverIds : Begins(i, pendingSolve')
      BY <2>5
    <3>5. CallInv'
      BY <1>0, <1>3, <2>2, <2>5, <3>1, <3>3, <3>4, BeginsCalls
    <3>6. CalmInv'
      BY <1>0, <1>1, <1>5, <2>3, <3>2, TimedCalm
    <3>7. MadeInv'
      BY <1>0, <1>1, <1>5, <2>1, <2>5, <3>1, TimedMade
    <3> QED
      BY <3>5, <3>6, <3>7 DEF Undisturbed
  <2>6. Refused => UNCHANGED <<saving, pendingSolve, savers, creating, requests>>
    BY <1>5 DEF Save
  <2>7. ~Refused => pendingSolve' = [key |-> context, attempt |-> Len(tried) + 1] /\ pendingSolve' # Nothing
                    /\ \E i \in SaverIds : Begins(i, pendingSolve')
    <3> SUFFICES ASSUME ~Refused
                 PROVE  pendingSolve' = [key |-> context, attempt |-> Len(tried) + 1] /\ pendingSolve' # Nothing
                        /\ \E i \in SaverIds : Begins(i, pendingSolve')
      OBVIOUS
    <3>1. pendingSolve' = [key |-> context, attempt |-> Len(tried) + 1]
      BY <1>5 DEF Save
    <3>2. pendingSolve = Nothing /\ pendingSolve' # Nothing
      BY <3>1 DEF Refused, Nothing
    <3> QED
      BY <1>0, <1>1, <3>1, <3>2, BecomesSaves
  <2> QED
    BY <2>4, <2>5, <2>6, <2>7
<1> QED
  BY <1>1, <1>4, <1>5 DEF Becomes

LEMMA SaveStep ==
  ASSUME StoreInv, StoreInv', SaveInv, Next
  PROVE  SaveInv'
<1> SUFFICES ASSUME ~disturbed' PROVE Undisturbed'
  BY DEF SaveInv, Undisturbed, CallInv, CalmInv, MadeInv
<1>1. /\ ~disturbed
      /\ \/ Waits \/ Halts \/ SavesAgain \/ Timed \/ SkipScramble \/ SolveAdded
         \/ \E key \in Contexts : Move(key)
         \/ \E s \in draws : Found(s)
         \/ \E i \in SaverIds : SaveEnds(i)
  BY SaveSteps
<1>2. Undisturbed
  BY <1>1 DEF SaveInv
<1> QED
  BY <1>1, <1>2, WaitsSaves, HaltsSaves, AgainSaves, TimedSaves, SkipSaves, AddedSaves, MoveSaves, FoundSaves, EndsSaves

LEMMA InitSaves ==
  ASSUME Init
  PROVE  SaveInv
<1>1. /\ tried = <<>> /\ savers = [i \in SaverIds |-> IdleSaver] /\ pendingSolve = Nothing /\ draws = {}
      /\ timer.phase = "idle"
  BY DEF Init, NewTimer
<1>2. ~saving /\ ~generating
  BY DEF Init
<1>3. Coming = {} /\ Saved = {} /\ Mine = {}
  BY <1>1 DEF Coming, Nexts, Saved, Mine
<1>4. CallInv
  BY <1>1, <1>3, IdleCall DEF CallInv, Working, Sending
<1>5. CalmInv
  BY <1>1, <1>2 DEF CalmInv
<1>6. MadeInv
  BY <1>1, <1>3 DEF MadeInv, AllMine, AllNew, NextComes
<1> QED
  BY <1>4, <1>5, <1>6 DEF SaveInv, Undisturbed

LEMMA SaveStutter ==
  ASSUME SaveInv, UNCHANGED vars
  PROVE  SaveInv'
<1>1. UNCHANGED <<timer, context, shown, kept, draws, generating, saving, pendingSolve, savers, tried, solving,
                  disturbed>>
  BY DEF vars, scrambleVars, saveVars, history
<1>2. UNCHANGED <<Saved, Mine, Coming>>
  BY <1>1 DEF Saved, Mine, Coming, Nexts
<1>3. CallInv => CallInv'
  BY <1>1, <1>2 DEF CallInv, Working, Sending
<1>4. CalmInv => CalmInv'
  BY <1>1 DEF CalmInv, Untroubled
<1>5. MadeInv => MadeInv'
  BY <1>1, <1>2 DEF MadeInv, AllMine, AllNew, NextComes, Clear
<1> QED
  BY <1>1, <1>3, <1>4, <1>5 DEF SaveInv, Undisturbed

LEMMA AllKept ==
  ASSUME PageInv
  PROVE  KeptOnce
<1>1. OneSession
  BY SessionPerContext DEF PageInv
<1>2. SavedOnce
  BY DEF PageInv, SaveInv, Undisturbed, MadeInv, SavedOnce
<1>3. NothingLost
  BY DEF PageInv, SaveInv, Undisturbed, MadeInv, AllMine, NothingLost, Clear, Mine
<1> QED
  BY <1>1, <1>2, <1>3 DEF KeptOnce

LEMMA AllMatch ==
  ASSUME PageInv
  PROVE  ScramblesMatch
<1>1. Saved \subseteq Mine /\ Saved \subseteq DOMAIN tried
  BY DEF Mine, Saved
<1>2. RightScramble
  BY <1>1 DEF PageInv, SaveInv, Undisturbed, MadeInv, AllMine, RightScramble, Clear
<1>3. NewScramble
  BY <1>1 DEF PageInv, SaveInv, Undisturbed, MadeInv, AllNew, NewScramble, Clear
<1> QED
  BY <1>2, <1>3 DEF ScramblesMatch

---------------------------------------------------------------------------
(* The theorems. *)

\* The page keeps its invariant (the whole of src/desktop/renderer/store.ts and of its
\* timer, as modelled, whatever the contexts and the bounds).
THEOREM PageInvariant == Spec => []PageInv
<1>1. Init => PageInv
  BY InitStore, InitSaves DEF PageInv
<1>2. PageInv /\ [Next]_vars => PageInv'
  BY StoreStep, StoreStutter, SaveStep, SaveStutter DEF PageInv
<1> QED
  BY <1>1, <1>2, PTL DEF Spec

\* StartsFair, of every state: the timer starts after a full hold, and what ends as a
\* DNF of its inspection never started.
THEOREM AlwaysStartsFair == Spec => []StartsFair
<1>1. PageInv => StartsFair
  BY FairStarts DEF PageInv
<1> QED
  BY <1>1, PageInvariant, PTL

\* NothingStuck, of every state: what the page waits for is under way.
THEOREM AlwaysNothingStuck == Spec => []NothingStuck
<1>1. PageInv => NothingStuck
  BY NoneStuck DEF PageInv
<1> QED
  BY <1>1, PageInvariant, PTL

\* Shown, of every state: once nothing is being read, the solves shown are the engine's.
THEOREM AlwaysShown == Spec => []Shown
<1>1. PageInv => Shown
  BY DEF PageInv, StoreInv, ReadInv
<1> QED
  BY <1>1, PageInvariant, PTL

\* KeptOnce, of every state: an attempt is kept, once, in its context's session.
THEOREM AlwaysKeptOnce == Spec => []KeptOnce
<1>1. PageInv => KeptOnce
  BY AllKept
<1> QED
  BY <1>1, PageInvariant, PTL

\* ScramblesMatch, of every state: a scramble is one attempt's, and an attempt's the one
\* its solve started on.
THEOREM AlwaysScramblesMatch == Spec => []ScramblesMatch
<1>1. PageInv => ScramblesMatch
  BY AllMatch
<1> QED
  BY <1>1, PageInvariant, PTL

=============================================================================
