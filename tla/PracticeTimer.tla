--------------------------- MODULE PracticeTimer ---------------------------
(***************************************************************************)
(* The timer of the practice page (class PracticeTimer of                  *)
(* src/src/client/lib/practiceTimer.ts): what each input and each timeout  *)
(* makes of its snapshot, as operators on a record.  The page that owns a  *)
(* timer (PracticePage) gives it its inputs and takes the attempts it      *)
(* ends.                                                                   *)
(*                                                                         *)
(* Time is the age of the inspection alone, in the three spans that its    *)
(* penalty tells apart: 0 up to 15 seconds, 1 up to 17, 2 after.  The time *)
(* of a solve is not modelled: an attempt is known by its number.  Nor are *)
(* the presses that mark a running solve without ending it (the end of a   *)
(* memorisation, a phase), nor the input heard twice that must not count   *)
(* as two of them (lastPress).                                             *)
(***************************************************************************)
EXTENDS Integers, Sequences

CONSTANT Inspection   \* whether a solve starts with an inspection (options.inspection)

ASSUME TimerAssumption == Inspection \in BOOLEAN

NoAttempt == [ended |-> FALSE]

TimerPhase == {"idle", "inspecting", "holding", "ready", "running", "stopped"}
Penalty == {"none", "+2", "dnf"}
Ages == 0..2

\* An attempt the timer ended (what options.onStop is given).
Attempt == [ended : {TRUE}, penalty : Penalty]

\* `hold` holds the timeouts set and not cleared nor fired, TRUE for one set by
\* the press under way; `full`, that the timer is ready after a full hold.
Timer ==
  [phase : TimerPhase, inspected : BOOLEAN, age : Ages, expiry : BOOLEAN,
   hold : SUBSET BOOLEAN, full : BOOLEAN, penalty : Penalty,
   attempt : Attempt \cup {NoAttempt}]

NewTimer ==
  [phase |-> "idle", inspected |-> FALSE, age |-> 0, expiry |-> FALSE,
   hold |-> {}, full |-> FALSE, penalty |-> "none",
   attempt |-> NoAttempt]

InspectionPenalty(age) ==
  IF age = 0 THEN "none" ELSE IF age = 1 THEN "+2" ELSE "dnf"

\* Mutant: a hold let go leaves its timeout running.
LetGo_Slip(t) == t
LetGo(t) == [t EXCEPT !.hold = {}]

Dispose(t) == [LetGo(t) EXCEPT !.expiry = FALSE]

\* Where a solve not started rests: in its inspection if one runs.
AtRest(t) == [t EXCEPT !.phase = IF t.inspected THEN "inspecting" ELSE "idle",
                     !.full = FALSE]

Stop(t) ==
  [t EXCEPT !.phase = "stopped",
            !.attempt = [ended |-> TRUE, penalty |-> t.penalty]]

\* The inspection ran past 17 seconds: a DNF, never started.
Expire(t) ==
  [Dispose(t) EXCEPT
     !.phase = "stopped", !.inspected = FALSE, !.age = 0, !.full = FALSE,
     !.penalty = "dnf",
     !.attempt = [ended |-> TRUE, penalty |-> "dnf"]]

\* Starts the solve at `at`, with the penalty of its inspection.
StartAt(t, at) ==
  IF t.inspected /\ InspectionPenalty(at) = "dnf"
  THEN Expire(t)
  ELSE [t EXCEPT !.phase = "running", !.inspected = FALSE, !.age = 0,
                 !.expiry = FALSE, !.full = FALSE,
                 !.penalty = IF t.inspected THEN InspectionPenalty(at) ELSE "none"]

\* Holds, when the timer can start: ready once the timeout fires.
Arm(t, can) ==
  IF t.phase \notin {"idle", "stopped", "inspecting"} \/ ~can
  THEN t
  ELSE [t EXCEPT !.phase = "holding",
                 !.hold = {FALSE : set \in LetGo(t).hold} \cup {TRUE}]

BeginInspection(t) ==
  [Dispose(t) EXCEPT !.phase = "inspecting", !.inspected = TRUE, !.age = 0,
                     !.expiry = TRUE, !.penalty = "none"]

\* A press ends a running solve; any other begins the inspection, or holds.
Press(t, can) ==
  IF t.phase = "running" THEN Stop(t)
  ELSE IF t.phase \in {"idle", "stopped"} /\ Inspection /\ can THEN BeginInspection(t)
  ELSE Arm(t, can)

\* The hold's timeout fires; `own`, that the press under way set it.
HoldElapses(t, own) ==
  LET u == [t EXCEPT !.hold = @ \ {own}]
  IN  IF t.phase = "holding" THEN [u EXCEPT !.phase = "ready", !.full = own] ELSE u

Release(t, at) ==
  LET u == LetGo(t)
  IN  IF t.phase = "holding" THEN AtRest(u)
      ELSE IF t.phase = "ready" THEN StartAt(u, at)
      ELSE u

Reset(t) ==
  [Dispose(t) EXCEPT !.phase = "idle", !.inspected = FALSE, !.age = 0,
                     !.full = FALSE, !.penalty = "none"]

\* A solve started by something else than a key: a smart cube's first turn.
Begin(t, can) ==
  IF t.phase = "running" \/ ~can THEN t ELSE StartAt(LetGo(t), t.age)

\* A running solve ended with the time measured elsewhere.
Finish(t) == IF t.phase = "running" THEN Stop(t) ELSE t

CancelArming(t) ==
  IF t.phase \in {"holding", "ready"} THEN AtRest(LetGo(t)) ELSE t

=============================================================================
