---------------------------- MODULE VoidedSweep ----------------------------
(***************************************************************************)
(* The sweep of Google Play's voided purchases                             *)
(* (src/apps/game-services-worker/src/storeServerCron.ts).  Each run of    *)
(* the cron takes up the cursors the last one left in D1, reads the voids  *)
(* of a window slice after slice, and moves a cursor past each slice.      *)
(*                                                                         *)
(* Google records a void at a time of its own and lists it later, within   *)
(* Overlap.  Time counts minutes, the length of the smallest slice.  Every *)
(* query and every write of a cursor is a step; a write may fail, take     *)
(* effect and fail, and a run may be lost between two steps.               *)
(***************************************************************************)
EXTENDS Integers

CONSTANTS
    Voids,      \* voided purchases
    Overlap,    \* voidedSweepOverlapMs
    Interval,   \* MPGD_GOOGLE_PLAY_VOIDED_SWEEP_MINUTES
    Window,     \* how long Google lists a void, less the slack and the margin
    SliceMax,   \* voidedSweepSliceMs
    SliceMin,   \* voidedSweepMinSliceMs
    MaxStalls,  \* voidedSweepMaxStalls
    Epoch,      \* the time at which a behaviour starts
    Horizon,    \* bound: the clock stops here
    MaxFaults   \* bound: runs that fail or are lost

ASSUME SweepAssumption ==
    /\ {Overlap, Interval, SliceMin, MaxStalls} \subseteq Nat \ {0}
    /\ SliceMax \in Nat /\ SliceMin <= SliceMax
    /\ Window \in Nat /\ Overlap < Window
    /\ Epoch \in Nat /\ Overlap + Window < Epoch
    /\ Horizon \in Nat /\ Epoch <= Horizon
    /\ MaxFaults \in Nat

VARIABLES
    now,      \* the clock
    void,     \* void[v]: when Google recorded it and what became of it
    cursors,  \* the rows of store_server_cursors
    run,      \* the run of the cron
    fired,    \* whether the cron fired in this minute
    slipped,  \* history: voids that a run put behind it before Google listed them
    faults    \* count of failed and lost runs

vars == <<now, void, cursors, run, fired, slipped, faults>>

(* A cursor never written, and a re-read position that was cleared.        *)
Unset == 0

Lesser(a, b) == IF a < b THEN a ELSE b
Greater(a, b) == IF a < b THEN b ELSE a

-----------------------------------------------------------------------------
Idle == [at |-> "idle", now |-> 0, from |-> 0, pos |-> 0, inUse |-> FALSE,
         any |-> FALSE, moved |-> FALSE, reached |-> 0]

Init ==
    /\ now = Epoch
    /\ void = [v \in Voids |-> [state |-> "none", time |-> 0]]
    /\ cursors = [end |-> Unset, behind |-> 0, reread |-> Unset, stalls |-> 0,
                  slice |-> SliceMax]
    /\ run = Idle
    /\ fired = FALSE
    /\ slipped = {}
    /\ faults = 0

Hidden == {v \in Voids : void[v].state = "hidden"}
Listed == {v \in Voids : void[v].state = "listed"}

Record(v) ==
    /\ void[v].state = "none"
    /\ void' = [void EXCEPT ![v] = [state |-> "hidden", time |-> now]]
    /\ UNCHANGED <<now, cursors, run, fired, slipped, faults>>

List(v) ==
    /\ v \in Hidden
    /\ void' = [void EXCEPT ![v].state = "listed"]
    /\ UNCHANGED <<now, cursors, run, fired, slipped, faults>>

(* A void is listed before it is Overlap old; a run is over within the     *)
(* period of the cron.                                                     *)
Tick ==
    /\ now < Horizon
    /\ \A v \in Hidden : now + 1 < void[v].time + Overlap
    /\ run.at = "idle" \/ run.now = now
    /\ now' = now + 1
    /\ fired' = FALSE
    /\ UNCHANGED <<void, cursors, run, slipped, faults>>

-----------------------------------------------------------------------------
(* The start of a run.                                                     *)

RereadInUse ==
    /\ cursors.behind = 1
    /\ cursors.end - Overlap < cursors.reread /\ cursors.reread < cursors.end

(* Mutant: the overlap is read from its start again in every run.          *)
ResumeAtOverlap ==
    IF cursors.behind = 2 THEN cursors.end ELSE cursors.end - Overlap

(* Where the cursors tell the next run to start.                           *)
Resume ==
    IF cursors.behind = 2 THEN cursors.end
    ELSE IF RereadInUse THEN cursors.reread ELSE cursors.end - Overlap

Due ==
    \/ cursors.behind # 0 \/ cursors.end = Unset
    \/ now - cursors.end >= Interval

Oldest == now - Window

(* The voids Google has dropped from its list, when the run says so.       *)
Dropped ==
    IF cursors.end = Unset \/ cursors.end - Overlap < Oldest
    THEN {v \in Listed : void[v].time < Oldest} ELSE {}

Marked(S, state) ==
    [v \in Voids |-> IF v \in S THEN [void[v] EXCEPT !.state = state] ELSE void[v]]

Begin ==
    /\ run.at = "idle" /\ ~fired /\ Due
    /\ fired' = TRUE
    /\ LET first == cursors.end = Unset
           from == IF first THEN Oldest ELSE cursors.end
           opening == IF first THEN Oldest ELSE Resume
       IN  run' = [at |-> "read", now |-> now, from |-> from,
                   pos |-> Lesser(Greater(opening, Oldest), now),
                   inUse |-> ~first /\ RereadInUse,
                   any |-> FALSE, moved |-> FALSE, reached |-> from]
    /\ void' = Marked(Dropped, "dropped")
    /\ UNCHANGED <<now, cursors, slipped, faults>>

-----------------------------------------------------------------------------
(* One slice, and how the run goes on.                                     *)

SliceEnd == Lesser(run.pos + cursors.slice, run.now)

InSlice == {v \in Listed : run.pos <= void[v].time /\ void[v].time <= SliceEnd}

(* What Google may have listed only after the run began.                   *)
Young == {v \in Hidden \cup Listed : void[v].time > run.now - Overlap}

Goes(step) == run' = [run EXCEPT !.at = step]

(* Mutant: a run that moved the cursor leaves it for exact, however young. *)
StoppedAtOnce == IF run.moved \/ cursors.behind = 2 THEN 2 ELSE 1

(* What the next run does: 2, start at the cursor, or 1, read the overlap  *)
(* before it again.                                                        *)
StoppedState ==
    IF (run.moved \/ cursors.behind = 2) /\ run.reached <= run.now - Overlap THEN 2 ELSE 1

(* finishSlice: inside the overlap before the cursor it keeps the position, *)
(* past the overlap it clears that and moves the cursor.                   *)
FinishSlice ==
    IF SliceEnd < run.from /\ SliceEnd < run.now THEN "remember"
    ELSE IF run.inUse THEN "clear" ELSE "move"

Passes == Goes(IF cursors.stalls # 0 THEN "reset" ELSE FinishSlice)

Stops == IF cursors.behind = StoppedState THEN run' = Idle ELSE Goes("stop")

OnlyRun == UNCHANGED <<now, cursors, fired, slipped, faults>>

ReadSlice ==
    /\ run.at = "read"
    /\ void' = Marked(InSlice, "revoked")
    /\ Passes
    /\ OnlyRun

(* Mutant: the last stall is counted and not skipped.                      *)
LastStallCounted == ~run.any /\ cursors.stalls + 1 > MaxStalls

(* Every page was read and the store refused the revocations of F, or of    *)
(* voids beyond the model's when F is empty.  The run stops; the one that   *)
(* would be the MaxStalls-th in a row held at its first slice passes it.    *)
LastStall == ~run.any /\ cursors.stalls + 1 >= MaxStalls

SliceErrs(F) ==
    /\ run.at = "read" /\ ~LastStall
    /\ void' = Marked(InSlice \ F, "revoked")
    /\ IF run.any THEN Stops ELSE Goes("stall")
    /\ OnlyRun

SliceSkipped(F) ==
    /\ run.at = "read" /\ LastStall
    /\ void' = [v \in Voids |->
                  IF v \in F THEN [void[v] EXCEPT !.state = "skipped"]
                  ELSE Marked(InSlice, "revoked")[v]]
    /\ Passes
    /\ OnlyRun

(* The page cap of the slice, or the budget while its voids were applied.  *)
SliceTooLarge(S) ==
    /\ run.at = "read"
    /\ void' = Marked(S, "revoked")
    /\ IF ~run.any /\ cursors.slice > SliceMin THEN Goes("halve") ELSE Stops
    /\ OnlyRun

(* The deadline, the page cap of the run or a budget spent before a page.  *)
Interrupted(S) ==
    /\ run.at = "read"
    /\ void' = Marked(S, "revoked")
    /\ Stops
    /\ OnlyRun

-----------------------------------------------------------------------------
(* The writes of a run: what the row holds after, and where the run goes.  *)

Written ==
    CASE run.at = "reset"    -> [cursors EXCEPT !.stalls = 0]
      [] run.at = "remember" -> [cursors EXCEPT !.reread = SliceEnd]
      [] run.at = "clear"    -> [cursors EXCEPT !.reread = Unset]
      [] run.at = "move"     -> [cursors EXCEPT !.end = Greater(SliceEnd, run.from)]
      [] run.at = "caughtUp" -> [cursors EXCEPT !.behind = 0]
      [] run.at = "grow"     -> [cursors EXCEPT !.slice = SliceMax]
      [] run.at = "stall"    -> [cursors EXCEPT !.stalls = @ + 1]
      [] run.at = "halve"    -> [cursors EXCEPT !.slice = Greater(@ \div 2, SliceMin)]
      [] run.at = "stop"     -> [cursors EXCEPT !.behind = StoppedState]
      [] OTHER               -> cursors

ResetStalls ==
    /\ run.at = "reset"
    /\ Goes(FinishSlice)

Remember ==
    /\ run.at = "remember"
    /\ run' = [run EXCEPT !.at = "read", !.pos = SliceEnd, !.inUse = TRUE, !.any = TRUE]

ClearReread ==
    /\ run.at = "clear"
    /\ run' = [run EXCEPT !.at = "move", !.inUse = FALSE]

Finished == IF cursors.slice < SliceMax THEN Goes("grow") ELSE run' = Idle

MoveCursor ==
    /\ run.at = "move"
    /\ IF SliceEnd < run.now
       THEN run' = [run EXCEPT !.at = "read", !.pos = SliceEnd, !.any = TRUE,
                               !.moved = TRUE, !.reached = Greater(SliceEnd, run.from)]
       ELSE IF cursors.behind # 0 THEN Goes("caughtUp") ELSE Finished

CaughtUp == run.at = "caughtUp" /\ Finished

CountStall == run.at = "stall" /\ Stops

Halve == run.at = "halve" /\ Stops

EndRun == run.at \in {"grow", "stop"} /\ run' = Idle

Writes ==
    /\ cursors' = Written
    /\ slipped' = slipped \cup {v \in Young : void[v].time <= cursors'.reread}
    /\ UNCHANGED <<now, void, fired, faults>>

(* A step throws: the write at hand took effect or not, and unless the run *)
(* is complete the catch leaves the state a stopped run leaves.            *)
Fails(rest) ==
    /\ run.at # "idle" /\ faults < MaxFaults
    /\ cursors' \in {rest, [rest EXCEPT !.behind = StoppedState]}
    /\ run.at \in {"caughtUp", "grow"} => cursors' = rest
    /\ run' = Idle
    /\ \E S \in SUBSET InSlice : void' = Marked(IF run.at = "read" THEN S ELSE {}, "revoked")
    /\ slipped' = slipped \cup {v \in Young : \/ void[v].time < Resume'
                                              \/ void[v].time <= cursors'.reread}
    /\ faults' = faults + 1
    /\ UNCHANGED <<now, fired>>

Step ==
    \/ Begin \/ ReadSlice
    \/ \E S \in SUBSET InSlice :
          SliceErrs(S) \/ SliceSkipped(S) \/ SliceTooLarge(S) \/ Interrupted(S)
    \/ /\ ResetStalls \/ Remember \/ ClearReread \/ MoveCursor \/ CaughtUp
          \/ CountStall \/ Halve \/ EndRun
       /\ Writes

Next ==
    \/ \E v \in Voids : Record(v) \/ List(v)
    \/ Tick
    \/ Step
    \/ Fails(cursors) \/ Fails(Written)

Spec == Init /\ [][Next]_vars

-----------------------------------------------------------------------------
Times == 0..Horizon

TypeOK ==
    /\ now \in Epoch..Horizon
    /\ void \in [Voids -> [state : {"none", "hidden", "listed", "revoked", "skipped", "dropped"},
                           time : Times]]
    /\ cursors \in [end : Times, behind : 0..2, reread : Times,
                    stalls : 0..(MaxStalls - 1), slice : SliceMin..SliceMax]
    /\ run \in [at : {"idle", "read", "reset", "remember", "clear", "move", "caughtUp",
                      "grow", "stall", "halve", "stop"},
                now : Times, from : Times, pos : Times, inUse : BOOLEAN,
                any : BOOLEAN, moved : BOOLEAN, reached : Times]
    /\ slipped \subseteq Voids
    /\ faults \in 0..MaxFaults

(* No void is put behind the sweep for good: between two runs, one that is  *)
(* listed and that no run dealt with lies where the next run starts or      *)
(* after it, however the runs were cut ("a failure in between costs only a  *)
(* full re-read of the overlap", storeServerCron.ts 399, and the states of  *)
(* 82-86).  A run deals with a void by revoking it, or by logging that it   *)
(* skips it or that Google no longer lists it.  Left out are the voids so    *)
(* young when a run remembered a position past them, or failed past them,    *)
(* that Google need not have listed them yet.                               *)
NoVoidPassed ==
    run.at = "idle" /\ cursors.end # Unset =>
        \A v \in Listed \ slipped : void[v].time >= Resume

(* A run that finished a slice and stops is not repeated: the next run      *)
(* starts where it got ("not remembering it would make a run that cannot    *)
(* finish the overlap repeat it forever", storeServerCron.ts 387).  The     *)
(* exception ends by itself: a run that got to the cursor and no further is *)
(* repeated for as long as the cursor is in the overlap.                    *)
ProgressKept ==
    [][ (run.any /\ run'.at = "idle" /\ faults' = faults) =>
          \/ cursors'.behind = 0
          \/ cursors'.end > run.from
          \/ Resume' >= run.pos
          \/ run.from > run.now - Overlap
      ]_vars

=============================================================================
