-------------------------- MODULE VoidedSweepProofs --------------------------
(***************************************************************************)
(* Theorems about VoidedSweep, for every set of voids, all lengths of the   *)
(* overlap, the interval, the window and the slices, every clock bound and  *)
(* every number of failures.                                                *)
(*                                                                         *)
(* What carries them is where an unread void lies (Ahead): at or after the  *)
(* position of the run, or still in the overlap of the run's clock, and     *)
(* never before the overlap of the stored cursor.                           *)
(***************************************************************************)
EXTENDS VoidedSweep, TLAPS

Unread == (Hidden \cup Listed) \ slipped

Slicing == {"read", "reset", "remember", "clear", "move", "stall", "halve", "stop"}

(* The clock, the cursors and the voids.                                   *)
Clocked ==
    /\ Epoch <= now
    /\ cursors.end <= now /\ cursors.reread < now
    /\ \A v \in Hidden \cup Listed : void[v].time <= now
    /\ \A v \in Hidden : now < void[v].time + Overlap

RunClocked ==
    run.at # "idle" =>
        /\ Epoch <= run.now /\ run.now <= now
        /\ run.from <= run.now /\ run.pos <= run.now
        /\ run.from - Overlap <= run.pos

(* Where the run stands, and where the cursors say it stands.              *)
Places ==
    run.at \in Slicing =>
        /\ IF run.moved
           THEN /\ cursors.end = run.reached /\ run.pos = run.reached
                /\ run.from <= run.reached
           ELSE run.reached = run.from /\ cursors.end \in {run.from, Unset}
        /\ cursors.behind = 2 => cursors.end <= run.pos
        /\ cursors.end = Unset => run.from <= run.pos

(* What is known at each step of a run.                                    *)
AtStep ==
    /\ run.at = "idle" => ~run.any
    /\ run.at = "stall" => cursors.stalls + 1 < MaxStalls
    /\ run.at \in {"stall", "halve"} => ~run.any
    /\ run.at = "remember" => SliceEnd < run.from /\ SliceEnd < run.now
    /\ run.at \in {"clear", "move"} => run.from <= SliceEnd
    /\ run.at \in {"caughtUp", "grow"} => cursors.end = run.now
    /\ run.at = "grow" => cursors.behind = 0
    /\ (run.at \in {"read", "stop"} /\ run.any /\ ~run.moved) =>
          /\ cursors.reread = run.pos
          /\ run.from - Overlap < run.pos /\ run.pos < run.from

Ahead(v) ==
    /\ cursors.reread < void[v].time
    /\ cursors.end - Overlap <= void[v].time
    /\ (run.at = "idle" /\ cursors.behind = 2) => cursors.end <= void[v].time
    /\ run.at \in {"read", "stall", "halve", "stop"} =>
          run.pos <= void[v].time \/ run.now - Overlap < void[v].time
    /\ run.at \in {"reset", "remember", "clear", "move"} =>
          SliceEnd < void[v].time \/ run.now - Overlap < void[v].time
    /\ run.at \in {"caughtUp", "grow"} => run.now - Overlap < void[v].time

IInv ==
    /\ TypeOK /\ Clocked /\ RunClocked /\ Places /\ AtStep
    /\ \A v \in Unread : Ahead(v)

-----------------------------------------------------------------------------
(* The constants, as the leaves below need them.                           *)
LEMMA Lengths ==
    /\ Overlap \in Nat /\ Overlap > 0 /\ Interval \in Nat
    /\ SliceMin \in Nat /\ SliceMin > 0 /\ SliceMax \in Nat /\ SliceMin <= SliceMax
    /\ MaxStalls \in Nat /\ MaxStalls > 0
    /\ Window \in Nat /\ Overlap < Window
    /\ Epoch \in Nat /\ Overlap + Window < Epoch
    /\ Horizon \in Nat /\ Epoch <= Horizon
    /\ MaxFaults \in Nat
  BY SweepAssumption

VoidRow == [state : {"none", "hidden", "listed", "revoked", "skipped", "dropped"},
            time : Times]

CursorRow == [end : Times, behind : 0..2, reread : Times,
              stalls : 0..(MaxStalls - 1), slice : SliceMin..SliceMax]

RunRow == [at : {"idle", "read", "reset", "remember", "clear", "move", "caughtUp",
                 "grow", "stall", "halve", "stop"},
           now : Times, from : Times, pos : Times, inUse : BOOLEAN,
           any : BOOLEAN, moved : BOOLEAN, reached : Times]

(* The parts of the types, as integers.                                    *)
LEMMA Ranges ==
    ASSUME TypeOK
    PROVE  /\ now \in Int /\ Epoch <= now /\ now <= Horizon
           /\ void \in [Voids -> VoidRow]
           /\ \A v \in Voids : void[v].time \in Int /\ 0 <= void[v].time
           /\ cursors \in CursorRow
           /\ cursors.end \in Nat /\ cursors.reread \in Nat
           /\ cursors.stalls \in Nat /\ cursors.slice \in Nat
           /\ SliceMin <= cursors.slice /\ cursors.slice <= SliceMax
           /\ cursors.behind \in {0, 1, 2}
           /\ run \in RunRow
           /\ run.now \in Nat /\ run.from \in Nat /\ run.pos \in Nat /\ run.reached \in Nat
           /\ run.now <= Horizon
           /\ faults \in Int
  BY Lengths DEF TypeOK, Times, VoidRow, CursorRow, RunRow

LEMMA IdleRow == Idle \in RunRow
  BY Lengths DEF Idle, RunRow, Times

(* A slice that is not the last one is not empty.                          *)
LEMMA SliceRange ==
    ASSUME TypeOK, run.pos <= run.now
    PROVE  /\ SliceEnd \in Nat /\ run.pos <= SliceEnd /\ SliceEnd <= run.now
           /\ SliceEnd < run.now => run.pos < SliceEnd
  BY Lengths, Ranges DEF SliceEnd, Lesser

(* Reading a slice, skipping it or dropping it takes voids off the list and *)
(* touches no other.                                                        *)
LEMMA MarkedKeeps ==
    ASSUME TypeOK,
           NEW S \in SUBSET Listed,
           NEW state \in {"revoked", "skipped", "dropped"},
           void' = Marked(S, state)
    PROVE  /\ void' \in [Voids -> VoidRow]
           /\ \A v \in Voids : void'[v].time = void[v].time
           /\ Hidden' = Hidden /\ Listed' = Listed \ S
  <1>1. /\ S \subseteq Voids
        /\ \A v \in S : void[v].state = "listed"
    BY DEF Listed
  <1>2. \A v \in Voids : /\ void'[v] \in VoidRow
                         /\ void'[v].time = void[v].time
                         /\ v \notin S => void'[v] = void[v]
                         /\ v \in S => void'[v].state = state
    BY <1>1, Ranges DEF Marked, VoidRow
  <1>3. void' \in [Voids -> VoidRow]
    BY <1>2 DEF Marked
  <1>4. Hidden' = Hidden
    BY <1>1, <1>2 DEF Hidden
  <1>5. Listed' = Listed \ S
    BY <1>1, <1>2 DEF Listed
  <1> QED BY <1>2, <1>3, <1>4, <1>5

(* Voids leave the list at most: what a step of a run may do to them.      *)
VoidsLeave ==
    /\ void' \in [Voids -> VoidRow]
    /\ \A v \in Voids : void'[v].time = void[v].time
    /\ Hidden' = Hidden /\ Listed' \subseteq Listed

LEMMA LeavingIsKept ==
    ASSUME TypeOK, Clocked, VoidsLeave, now' = now, slipped \subseteq slipped'
    PROVE  /\ Unread' \subseteq Unread
           /\ \A v \in Unread' : v \in Voids /\ void'[v].time = void[v].time
           /\ cursors'.end <= now /\ cursors'.reread < now => Clocked'
  <1>1. /\ Hidden \subseteq Voids /\ Listed \subseteq Voids
    BY DEF Hidden, Listed
  <1>2. Unread' \subseteq Unread
    BY DEF VoidsLeave, Unread
  <1>3. Unread \subseteq Voids
    BY <1>1 DEF Unread
  <1>4. \A v \in Unread' : v \in Voids /\ void'[v].time = void[v].time
    BY <1>2, <1>3 DEF VoidsLeave
  <1>5. cursors'.end <= now /\ cursors'.reread < now => Clocked'
    BY <1>1 DEF VoidsLeave, Clocked
  <1> QED BY <1>2, <1>4, <1>5

-----------------------------------------------------------------------------
LEMMA InitSound == Init => IInv
  <1> SUFFICES ASSUME Init PROVE IInv
    OBVIOUS
  <1>1. Hidden = {} /\ Listed = {}
    BY DEF Init, Hidden, Listed
  <1>2. TypeOK
    BY Lengths DEF Init, TypeOK, Idle, Times, Unset
  <1>3. Clocked
    BY <1>1, Lengths DEF Init, Clocked, Unset
  <1>4. RunClocked /\ Places /\ AtStep
    BY DEF Init, Idle, RunClocked, Places, AtStep, Slicing
  <1>5. \A v \in Unread : Ahead(v)
    BY <1>1 DEF Unread
  <1> QED BY <1>2, <1>3, <1>4, <1>5 DEF IInv

(* Google's side, and the clock.                                           *)
LEMMA RecordSound ==
    ASSUME IInv, NEW u \in Voids, Record(u)
    PROVE  IInv'
  <1> USE DEF IInv, Record
  <1>1. /\ void'[u] = [state |-> "hidden", time |-> now]
        /\ \A v \in Voids \ {u} : void'[v] = void[v]
        /\ void' \in [Voids -> VoidRow]
    BY Ranges, Lengths DEF VoidRow, Times
  <1>2. Hidden' = Hidden \cup {u} /\ Listed' = Listed
    BY <1>1 DEF Hidden, Listed
  <1>3. SliceEnd' = SliceEnd
    BY DEF SliceEnd
  <1>4. TypeOK'
    BY <1>1 DEF TypeOK, VoidRow, Times
  <1>5. Clocked'
    BY <1>1, <1>2, Ranges, Lengths DEF Clocked, Hidden, Listed
  <1>6. RunClocked' /\ Places' /\ AtStep'
    BY <1>3 DEF RunClocked, Places, AtStep
  <1>7. ASSUME NEW v \in Unread'
        PROVE  Ahead(v)'
    <2>1. CASE v = u
      <3>1. void'[v].time = now
        BY <1>1, <2>1
      <3>2. run.at # "idle" => run.now - Overlap < now
        BY Ranges, Lengths DEF RunClocked
      <3> QED BY <3>1, <3>2, Ranges, Lengths DEF Ahead, Clocked
    <2>2. CASE v # u
      <3>1. v \in Unread /\ void'[v] = void[v]
        BY <1>1, <1>2, <2>2 DEF Unread, Hidden, Listed
      <3> QED BY <3>1, <1>3 DEF Ahead
    <2> QED BY <2>1, <2>2
  <1> QED BY <1>4, <1>5, <1>6, <1>7

LEMMA ListSound ==
    ASSUME IInv, NEW u \in Voids, List(u)
    PROVE  IInv'
  <1> USE DEF IInv, List
  <1>1. /\ void' \in [Voids -> VoidRow]
        /\ \A v \in Voids : void'[v].time = void[v].time
        /\ \A v \in Voids \ {u} : void'[v] = void[v]
        /\ void'[u].state = "listed"
    BY Ranges DEF VoidRow
  <1>2. Hidden' \cup Listed' = Hidden \cup Listed /\ Hidden' \subseteq Hidden
    BY <1>1 DEF Hidden, Listed
  <1>3. SliceEnd' = SliceEnd
    BY DEF SliceEnd
  <1>4. TypeOK'
    BY <1>1 DEF TypeOK, VoidRow
  <1>5. Hidden \cup Listed \subseteq Voids
    BY DEF Hidden, Listed
  <1>6. Clocked'
    BY <1>1, <1>2, <1>5 DEF Clocked
  <1>7. RunClocked' /\ Places' /\ AtStep'
    BY <1>3 DEF RunClocked, Places, AtStep
  <1>8. ASSUME NEW v \in Unread'
        PROVE  Ahead(v)'
    <2>1. v \in Unread /\ void'[v].time = void[v].time
      BY <1>1, <1>2, <1>5 DEF Unread
    <2> QED BY <2>1, <1>3 DEF Ahead
  <1> QED BY <1>4, <1>6, <1>7, <1>8

LEMMA TickSound ==
    ASSUME IInv, Tick
    PROVE  IInv'
  <1> USE DEF IInv, Tick
  <1>1. now' = now + 1 /\ now' <= Horizon
    BY Ranges, Lengths
  <1>2. SliceEnd' = SliceEnd /\ Hidden' = Hidden /\ Listed' = Listed
    BY DEF SliceEnd, Hidden, Listed
  <1>3. TypeOK'
    BY <1>1, Lengths DEF TypeOK
  <1>4. \A v \in Hidden \cup Listed : void[v].time \in Int
    BY Ranges DEF Hidden, Listed
  <1>5. Clocked'
    BY <1>1, <1>2, <1>4, Ranges, Lengths DEF Clocked
  <1>6. RunClocked'
    BY <1>1, Ranges, Lengths DEF RunClocked
  <1>7. Places' /\ AtStep'
    BY <1>2 DEF Places, AtStep
  <1>8. \A v \in Unread' : Ahead(v)'
    BY <1>2 DEF Unread, Ahead
  <1> QED BY <1>3, <1>5, <1>6, <1>7, <1>8

-----------------------------------------------------------------------------
(* A run starts no later than the first void it has to read.               *)
LEMMA BeginSound ==
    ASSUME IInv, Begin
    PROVE  IInv'
  <1> USE DEF IInv
  <1> DEFINE first == cursors.end = Unset
             from == IF first THEN Oldest ELSE cursors.end
             opening == IF first THEN Oldest ELSE Resume
             pos == Lesser(Greater(opening, Oldest), now)
  <1>1. /\ run' \in RunRow
        /\ run'.at = "read" /\ run'.now = now /\ run'.from = from /\ run'.pos = pos
        /\ ~run'.any /\ ~run'.moved /\ run'.reached = from
        /\ UNCHANGED <<now, cursors, slipped, faults>>
    <2>1. Oldest \in Times /\ Oldest <= now
      BY Ranges, Lengths DEF Oldest, Times
    <2>2. from \in Times /\ opening \in Int
      BY <2>1, Ranges, Lengths DEF Resume, CursorRow, Times
    <2>3. pos \in Times
      BY <2>1, <2>2, Ranges, Lengths DEF Times, Lesser, Greater
    <2>4. (~first /\ RereadInUse) \in BOOLEAN
      BY DEF RereadInUse
    <2> QED BY <2>1, <2>2, <2>3, <2>4, Ranges, Lengths DEF Begin, RunRow, Times
  <1>2. /\ Oldest \in Nat /\ Oldest = now - Window /\ Oldest < now - Overlap
        /\ from \in Nat /\ from <= now
        /\ pos \in Nat /\ pos <= now /\ from - Overlap <= pos
        /\ first => pos = from
        /\ cursors.behind = 2 => cursors.end <= pos
        /\ pos <= opening \/ pos <= Oldest
    BY Ranges, Lengths
    DEF Clocked, Oldest, Resume, RereadInUse, Lesser, Greater, Unset
  <1>3. /\ void' \in [Voids -> VoidRow]
        /\ \A v \in Voids : void'[v].time = void[v].time
        /\ Hidden' = Hidden /\ Listed' = Listed \ Dropped
    <2>1. Dropped \in SUBSET Listed /\ void' = Marked(Dropped, "dropped")
      BY DEF Begin, Dropped
    <2> HIDE DEF IInv
    <2> QED BY <2>1, MarkedKeeps DEF IInv
  <1>4. VoidsLeave
    BY <1>3 DEF VoidsLeave
  <1>5. Clocked' /\ Unread' \subseteq Unread
    BY <1>1, <1>4, LeavingIsKept DEF Clocked
  <1>6. TypeOK'
    BY <1>1, <1>3 DEF TypeOK, RunRow, VoidRow
  <1>7. RunClocked'
    BY <1>1, <1>2, Ranges DEF RunClocked
  <1>8. Places' /\ AtStep'
    BY <1>1, <1>2, Ranges DEF Places, AtStep, Slicing, Unset
  <1>9. ASSUME NEW v \in Unread'
        PROVE  Ahead(v)'
    <2>1. /\ v \in Unread /\ v \in Voids /\ void'[v].time = void[v].time
          /\ void[v].time \in Int
      BY <1>1, <1>4, <1>5, LeavingIsKept, Ranges
    <2>2. Ahead(v) /\ run.at = "idle"
      BY <2>1 DEF Begin
    <2>3. CASE v \in Hidden
      <3>1. now - Overlap < void[v].time
        BY <2>1, <2>3, Ranges, Lengths DEF Clocked
      <3> QED BY <3>1, <1>1, <2>1, <2>2 DEF Ahead
    <2>4. CASE v \notin Hidden
      <3>1. v \in Listed /\ v \notin Dropped
        BY <1>3, <2>4 DEF Unread
      <3>2. \/ Oldest <= void[v].time
            \/ ~first /\ Oldest <= cursors.end - Overlap
        BY <3>1, <1>2, <2>1, Ranges, Lengths DEF Dropped
      <3>3. ~first => opening <= void[v].time
        BY <2>1, <2>2, Ranges, Lengths DEF Ahead, Resume
      <3>4. pos <= void[v].time
        BY <3>2, <3>3, <1>2, <2>1, <2>2, Ranges, Lengths DEF Ahead, Lesser, Greater, Resume
      <3> QED BY <3>4, <1>1, <2>1, <2>2 DEF Ahead
    <2> QED BY <2>3, <2>4
  <1> QED BY <1>5, <1>6, <1>7, <1>8, <1>9

(* A stopped run leaves the state in which the next one starts no later    *)
(* than the first void it has to read.                                     *)
LEMMA StopIsClean ==
    ASSUME IInv, run.at \in Slicing, StoppedState = 2,
           NEW v \in Unread, Ahead(v)
    PROVE  cursors.end <= void[v].time
  <1>1. /\ v \in Voids /\ void[v].time \in Nat
        /\ run.reached <= run.now - Overlap /\ (run.moved \/ cursors.behind = 2)
    BY Ranges DEF IInv, StoppedState, Unread, Hidden, Listed
  <1>2. run.pos <= void[v].time \/ run.now - Overlap < void[v].time
    <2>1. run.pos <= SliceEnd /\ SliceEnd \in Nat
      BY SliceRange DEF IInv, RunClocked, Slicing
    <2> QED BY <1>1, <2>1, Ranges DEF IInv, Ahead, Slicing
  <1>3. cursors.end <= run.pos
    BY <1>1, Ranges DEF IInv, Places
  <1>4. cursors.end <= run.reached
    BY <1>1, Ranges DEF IInv, Places, Unset
  <1> QED BY <1>1, <1>2, <1>3, <1>4, Ranges, Lengths DEF IInv

LEMMA StopSound ==
    ASSUME IInv, VoidsLeave, Stops,
           run.at \in {"read", "stall", "halve"},
           now' = now, slipped' \subseteq Voids, slipped \subseteq slipped', faults' = faults,
           cursors' \in CursorRow,
           cursors'.end = cursors.end, cursors'.behind = cursors.behind,
           cursors'.reread = cursors.reread
    PROVE  IInv'
  <1> USE DEF IInv
  <1>1. /\ \/ run' = Idle /\ cursors.behind = StoppedState
           \/ run' = [run EXCEPT !.at = "stop"]
        /\ StoppedState' = StoppedState \/ run' = Idle
    BY Ranges DEF Stops, Goes, StoppedState, RunRow
  <1>2. run' \in RunRow
    <2>1. CASE run' = Idle
      BY <2>1, IdleRow
    <2>2. CASE run' = [run EXCEPT !.at = "stop"]
      BY <2>2, Ranges DEF RunRow
    <2> QED BY <1>1, <2>1, <2>2
  <1>3. TypeOK'
    BY <1>2 DEF TypeOK, VoidsLeave, RunRow, VoidRow, CursorRow
  <1>4. Clocked' /\ Unread' \subseteq Unread
    BY LeavingIsKept DEF Clocked
  <1>5. RunClocked' /\ Places' /\ AtStep'
    <2>1. CASE run' = Idle
      BY <2>1 DEF Idle, RunClocked, Places, AtStep, Slicing
    <2>2. CASE run' = [run EXCEPT !.at = "stop"]
      BY <2>2, Ranges DEF RunClocked, Places, AtStep, Slicing, RunRow
    <2> QED BY <1>1, <2>1, <2>2
  <1>6. ASSUME NEW v \in Unread'
        PROVE  Ahead(v)'
    <2>1. v \in Unread /\ Ahead(v) /\ void'[v].time = void[v].time
      BY <1>4, LeavingIsKept
    <2>2. CASE run' = Idle /\ cursors.behind = StoppedState
      <3>1. cursors.behind = 2 => cursors.end <= void[v].time
        BY <2>1, <2>2, StopIsClean DEF Slicing
      <3> QED BY <3>1, <2>1, <2>2 DEF Ahead, Idle
    <2>3. CASE run' = [run EXCEPT !.at = "stop"]
      BY <2>1, <2>3, Ranges DEF Ahead, RunRow
    <2> QED BY <1>1, <2>2, <2>3
  <1> QED BY <1>3, <1>4, <1>5, <1>6

(* A slice is passed once nothing unread is left in it but what may still  *)
(* be unlisted.                                                            *)
LEMMA PassSound ==
    ASSUME IInv, VoidsLeave, Passes, run.at = "read",
           UNCHANGED <<now, cursors, slipped, faults>>,
           \A v \in Unread' :
              SliceEnd < void[v].time \/ run.now - Overlap < void[v].time
    PROVE  IInv'
  <1> USE DEF IInv
  <1>1. PICK step \in {"reset", "remember", "clear", "move"} :
          /\ run' = [run EXCEPT !.at = step]
          /\ step = "reset" \/ step = FinishSlice
    BY DEF Passes, Goes, FinishSlice
  <1>2. /\ run' \in RunRow
        /\ run' = [at |-> step, now |-> run.now, from |-> run.from, pos |-> run.pos,
                   inUse |-> run.inUse, any |-> run.any, moved |-> run.moved,
                   reached |-> run.reached]
    BY <1>1, Ranges DEF RunRow
  <1>3. SliceEnd' = SliceEnd /\ SliceEnd \in Nat /\ SliceEnd <= run.now
    BY <1>2, SliceRange DEF SliceEnd, RunClocked
  <1>4. TypeOK'
    BY <1>2 DEF TypeOK, VoidsLeave, RunRow, VoidRow
  <1>5. Clocked' /\ Unread' \subseteq Unread
    BY LeavingIsKept DEF Clocked
  <1>6. RunClocked' /\ Places'
    BY <1>2 DEF RunClocked, Places, Slicing
  <1>7. AtStep'
    BY <1>1, <1>2, <1>3, Ranges DEF AtStep, FinishSlice, RunClocked
  <1>8. ASSUME NEW v \in Unread'
        PROVE  Ahead(v)'
    <2>1. v \in Unread /\ Ahead(v) /\ void'[v].time = void[v].time
      BY <1>5, LeavingIsKept
    <2> QED BY <2>1, <1>2, <1>3 DEF Ahead
  <1> QED BY <1>4, <1>5, <1>6, <1>7, <1>8

(* The ends of a slice.                                                    *)
LEMMA UnreadOfRun ==
    ASSUME IInv, run.at = "read", NEW v \in Unread, v \notin InSlice
    PROVE  SliceEnd < void[v].time \/ run.now - Overlap < void[v].time
  <1>1. v \in Voids /\ void[v].time \in Nat /\ (v \in Hidden \/ v \in Listed)
    BY Ranges DEF IInv, Unread, Hidden, Listed
  <1>2. SliceEnd \in Nat
    BY SliceRange DEF IInv, RunClocked
  <1>3. CASE v \in Hidden
    BY <1>1, <1>3, Ranges, Lengths DEF IInv, Clocked, RunClocked
  <1>4. CASE v \in Listed
    <2>1. run.pos <= void[v].time \/ run.now - Overlap < void[v].time
      BY DEF IInv, Ahead
    <2> QED BY <2>1, <1>1, <1>2, <1>4, Ranges DEF IInv, InSlice
  <1> QED BY <1>1, <1>3, <1>4

LEMMA MarkedLeaves ==
    ASSUME TypeOK, NEW S \in SUBSET InSlice, void' = Marked(S, "revoked")
    PROVE  VoidsLeave /\ Listed' = Listed \ S /\ Hidden' = Hidden
  <1>1. S \in SUBSET Listed
    BY DEF InSlice
  <1> QED BY <1>1, MarkedKeeps DEF VoidsLeave

LEMMA ReadSliceSound ==
    ASSUME IInv, ReadSlice
    PROVE  IInv'
  <1>1. /\ run.at = "read" /\ Passes
        /\ UNCHANGED <<now, cursors, slipped, faults>>
        /\ void' = Marked(InSlice, "revoked")
    BY DEF ReadSlice, OnlyRun
  <1>2. VoidsLeave /\ Listed' = Listed \ InSlice /\ Hidden' = Hidden
    BY <1>1, MarkedLeaves DEF IInv
  <1>3. \A v \in Unread' : v \in Unread /\ v \notin InSlice
    <2>1. \A v \in InSlice : v \notin Hidden
      BY DEF InSlice, Listed, Hidden
    <2> QED BY <1>1, <1>2, <2>1 DEF Unread
  <1>4. \A v \in Unread' :
          SliceEnd < void[v].time \/ run.now - Overlap < void[v].time
    BY <1>1, <1>3, UnreadOfRun
  <1> QED BY <1>1, <1>2, <1>4, PassSound

LEMMA SliceSkippedSound ==
    ASSUME IInv, NEW F \in SUBSET InSlice, SliceSkipped(F)
    PROVE  IInv'
  <1>1. /\ run.at = "read" /\ Passes
        /\ UNCHANGED <<now, cursors, slipped, faults>>
    BY DEF SliceSkipped, OnlyRun
  <1>2. \A v \in InSlice : v \in Voids /\ void[v].state = "listed"
    BY DEF InSlice, Listed
  <1>3. /\ void' \in [Voids -> VoidRow]
        /\ \A v \in Voids : /\ void'[v].time = void[v].time
                            /\ v \in InSlice => void'[v].state \in {"skipped", "revoked"}
                            /\ v \notin InSlice => void'[v] = void[v]
    <2>1. \A v \in Voids : void[v] \in VoidRow
      BY Ranges DEF IInv
    <2>2. \A v \in Voids : Marked(InSlice, "revoked")[v] =
            IF v \in InSlice THEN [void[v] EXCEPT !.state = "revoked"] ELSE void[v]
      BY DEF Marked
    <2>3. \A v \in Voids : void'[v] =
            IF v \in F THEN [void[v] EXCEPT !.state = "skipped"]
            ELSE IF v \in InSlice THEN [void[v] EXCEPT !.state = "revoked"] ELSE void[v]
      BY <2>2 DEF SliceSkipped
    <2>4. \A v \in Voids : void'[v] \in VoidRow
      BY <2>1, <2>3 DEF VoidRow
    <2>5. void' \in [Voids -> VoidRow]
      BY <2>4 DEF SliceSkipped
    <2> QED BY <2>1, <2>3, <2>5 DEF VoidRow
  <1>4. Hidden' = Hidden /\ Listed' = Listed \ InSlice
    BY <1>2, <1>3 DEF Hidden, Listed
  <1>5. VoidsLeave
    BY <1>3, <1>4 DEF VoidsLeave
  <1>6. \A v \in Unread' : v \in Unread /\ v \notin InSlice
    <2>1. \A v \in InSlice : v \notin Hidden
      BY DEF InSlice, Listed, Hidden
    <2> QED BY <1>1, <1>4, <2>1 DEF Unread
  <1>7. \A v \in Unread' :
          SliceEnd < void[v].time \/ run.now - Overlap < void[v].time
    BY <1>1, <1>6, UnreadOfRun
  <1> QED BY <1>1, <1>5, <1>7, PassSound

(* The step that counts a stall, or that halves the slice, comes next.     *)
LEMMA WaitSound ==
    ASSUME IInv, VoidsLeave, run.at = "read", ~run.any,
           UNCHANGED <<now, cursors, slipped, faults>>,
           NEW step \in {"stall", "halve"}, Goes(step),
           step = "stall" => cursors.stalls + 1 < MaxStalls
    PROVE  IInv'
  <1> USE DEF IInv
  <1>1. /\ run' \in RunRow
        /\ run' = [at |-> step, now |-> run.now, from |-> run.from, pos |-> run.pos,
                   inUse |-> run.inUse, any |-> run.any, moved |-> run.moved,
                   reached |-> run.reached]
    BY Ranges DEF RunRow, Goes
  <1>2. TypeOK'
    BY <1>1 DEF TypeOK, VoidsLeave, RunRow, VoidRow
  <1>3. Clocked' /\ Unread' \subseteq Unread
    BY LeavingIsKept DEF Clocked
  <1>4. RunClocked' /\ Places' /\ AtStep'
    BY <1>1 DEF RunClocked, Places, AtStep, Slicing
  <1>5. ASSUME NEW v \in Unread'
        PROVE  Ahead(v)'
    <2>1. v \in Unread /\ Ahead(v) /\ void'[v].time = void[v].time
      BY <1>3, LeavingIsKept
    <2> QED BY <2>1, <1>1 DEF Ahead
  <1> QED BY <1>2, <1>3, <1>4, <1>5

LEMMA HeldSliceSound ==
    ASSUME IInv, NEW S \in SUBSET InSlice,
           SliceErrs(S) \/ SliceTooLarge(S) \/ Interrupted(S)
    PROVE  IInv'
  <1>1. /\ run.at = "read"
        /\ UNCHANGED <<now, cursors, slipped, faults>>
        /\ slipped \subseteq Voids /\ cursors' \in CursorRow
    BY Ranges DEF IInv, TypeOK, SliceErrs, SliceTooLarge, Interrupted, OnlyRun
  <1>2. VoidsLeave
    <2>1. (InSlice \ S) \in SUBSET InSlice
      OBVIOUS
    <2> QED BY <2>1, MarkedLeaves DEF IInv, SliceErrs, SliceTooLarge, Interrupted
  <1>3. CASE Stops
    BY <1>1, <1>2, <1>3, StopSound
  <1>4. CASE SliceErrs(S) /\ ~run.any /\ Goes("stall")
    <2>1. cursors.stalls + 1 < MaxStalls
      BY <1>4, Ranges, Lengths DEF IInv, SliceErrs, LastStall
    <2> QED BY <1>1, <1>2, <1>4, <2>1, WaitSound
  <1>5. CASE ~run.any /\ Goes("halve")
    BY <1>1, <1>2, <1>5, WaitSound
  <1> QED BY <1>3, <1>4, <1>5 DEF SliceErrs, SliceTooLarge, Interrupted

-----------------------------------------------------------------------------
(* The writes of a run.  None of them touches a void.                      *)
Quietly ==
    /\ UNCHANGED <<now, void, faults>>
    /\ slipped' = slipped \cup {v \in Young : void[v].time <= cursors'.reread}

LEMMA WritesQuietly ==
    ASSUME TypeOK, Writes
    PROVE  /\ Quietly /\ VoidsLeave /\ cursors' = Written
           /\ slipped \subseteq slipped' /\ slipped' \subseteq Voids
           /\ Hidden' = Hidden /\ Listed' = Listed
           /\ \A v \in Unread' : v \in Unread
  <1>1. Hidden' = Hidden /\ Listed' = Listed
    BY DEF Writes, Hidden, Listed
  <1>2. VoidsLeave
    BY <1>1, Ranges DEF Writes, VoidsLeave
  <1>3. Quietly /\ cursors' = Written /\ slipped \subseteq slipped'
    BY DEF Writes, Quietly
  <1>4. slipped' \subseteq Voids
    BY <1>3 DEF Quietly, TypeOK, Young, Hidden, Listed
  <1> QED BY <1>1, <1>2, <1>3, <1>4 DEF Unread

LEMMA ResetStallsSound ==
    ASSUME IInv, ResetStalls, Writes
    PROVE  IInv'
  <1> USE DEF IInv
  <1>1. PICK step \in {"remember", "clear", "move"} :
          run' = [run EXCEPT !.at = step] /\ step = FinishSlice
    BY DEF ResetStalls, Goes, FinishSlice
  <1>2. /\ run' \in RunRow /\ run.at = "reset"
        /\ run' = [at |-> step, now |-> run.now, from |-> run.from, pos |-> run.pos,
                   inUse |-> run.inUse, any |-> run.any, moved |-> run.moved,
                   reached |-> run.reached]
    BY <1>1, Ranges DEF RunRow, ResetStalls
  <1>3. cursors' = [cursors EXCEPT !.stalls = 0] /\ cursors' \in CursorRow
    BY <1>2, WritesQuietly, Ranges, Lengths DEF Written, CursorRow
  <1>4. /\ Quietly /\ VoidsLeave /\ slipped' \subseteq Voids
        /\ \A v \in Unread' : v \in Unread
    BY WritesQuietly
  <1>5. SliceEnd' = SliceEnd /\ SliceEnd \in Nat /\ SliceEnd <= run.now
    BY <1>2, <1>3, Ranges, SliceRange DEF SliceEnd, RunClocked, CursorRow
  <1>6. TypeOK'
    BY <1>2, <1>3, <1>4 DEF TypeOK, Quietly, RunRow, CursorRow
  <1>7. Clocked'
    BY <1>3, <1>4, LeavingIsKept, Ranges DEF Clocked, Quietly, CursorRow
  <1>8. RunClocked' /\ Places'
    BY <1>2, <1>3, <1>4, Ranges DEF RunClocked, Places, Slicing, Quietly, CursorRow
  <1>9. AtStep'
    BY <1>1, <1>2, <1>5, Ranges DEF AtStep, FinishSlice, RunClocked
  <1>10. ASSUME NEW v \in Unread'
         PROVE  Ahead(v)'
    <2>1. v \in Unread /\ Ahead(v) /\ void' = void
      BY <1>4 DEF Quietly
    <2> QED BY <2>1, <1>2, <1>3, <1>5, Ranges DEF Ahead, CursorRow
  <1> QED BY <1>6, <1>7, <1>8, <1>9, <1>10

LEMMA RememberSound ==
    ASSUME IInv, Remember, Writes
    PROVE  IInv'
  <1> USE DEF IInv
  <1>1. /\ run' \in RunRow /\ run.at = "remember"
        /\ run' = [at |-> "read", now |-> run.now, from |-> run.from, pos |-> SliceEnd,
                   inUse |-> TRUE, any |-> TRUE, moved |-> run.moved,
                   reached |-> run.reached]
        /\ SliceEnd \in Nat /\ run.pos < SliceEnd /\ SliceEnd < run.now
        /\ SliceEnd < run.from
    <2>1. /\ run.at = "remember"
          /\ run' = [run EXCEPT !.at = "read", !.pos = SliceEnd, !.inUse = TRUE, !.any = TRUE]
      BY DEF Remember
    <2>2. /\ SliceEnd \in Nat /\ run.pos < SliceEnd /\ SliceEnd < run.now
          /\ SliceEnd < run.from
      BY <2>1, SliceRange DEF RunClocked, AtStep
    <2>3. SliceEnd \in Times
      BY <2>2, Ranges, Lengths DEF Times
    <2> HIDE DEF IInv
    <2> QED BY <2>1, <2>2, <2>3, Ranges DEF IInv, RunRow
  <1>2. /\ cursors' = [cursors EXCEPT !.reread = SliceEnd] /\ cursors' \in CursorRow
        /\ cursors'.reread = SliceEnd /\ cursors'.end = cursors.end
        /\ cursors'.behind = cursors.behind
    BY <1>1, WritesQuietly, Ranges, Lengths DEF Written, CursorRow, Times
  <1>3. /\ Quietly /\ VoidsLeave /\ slipped' \subseteq Voids
        /\ \A v \in Unread' : v \in Unread
    BY WritesQuietly
  <1>4. TypeOK'
    BY <1>1, <1>2, <1>3 DEF TypeOK, Quietly, RunRow, CursorRow
  <1>5. Clocked'
    BY <1>1, <1>2, <1>3, LeavingIsKept, Ranges DEF Clocked, Quietly, RunClocked
  <1>6. RunClocked'
    BY <1>1, <1>3, Ranges, Lengths DEF RunClocked, Quietly
  <1>7. ~run.moved /\ run.from - Overlap <= run.pos
    BY <1>1, Ranges DEF Places, Slicing, RunClocked
  <1>8. Places'
    BY <1>1, <1>2, <1>7, Ranges DEF Places, Slicing, Unset
  <1>9. AtStep'
    BY <1>1, <1>2, <1>7, Ranges, Lengths DEF AtStep
  <1>10. ASSUME NEW v \in Unread'
         PROVE  Ahead(v)'
    <2>1. /\ v \in Unread /\ Ahead(v) /\ void' = void
          /\ v \in Voids /\ void[v].time \in Nat /\ v \in Hidden \cup Listed
      BY <1>3, Ranges DEF Quietly, Unread, Hidden, Listed
    <2>2. SliceEnd < void[v].time \/ run.now - Overlap < void[v].time
      BY <2>1, <1>1 DEF Ahead
    <2>3. SliceEnd < void[v].time
      BY <2>1, <2>2, <1>1, <1>2, <1>3, Ranges, Lengths DEF Quietly, Young, Unread
    <2> QED BY <2>1, <2>3, <1>1, <1>2, Ranges DEF Ahead
  <1> QED BY <1>4, <1>5, <1>6, <1>8, <1>9, <1>10

LEMMA ClearSound ==
    ASSUME IInv, ClearReread, Writes
    PROVE  IInv'
  <1> USE DEF IInv
  <1>1. /\ run' \in RunRow /\ run.at = "clear"
        /\ run' = [at |-> "move", now |-> run.now, from |-> run.from, pos |-> run.pos,
                   inUse |-> FALSE, any |-> run.any, moved |-> run.moved,
                   reached |-> run.reached]
    BY Ranges DEF RunRow, ClearReread
  <1>2. /\ cursors' = [cursors EXCEPT !.reread = Unset] /\ cursors' \in CursorRow
        /\ cursors'.reread = 0 /\ cursors'.end = cursors.end
        /\ cursors'.behind = cursors.behind /\ cursors'.slice = cursors.slice
    BY <1>1, WritesQuietly, Ranges, Lengths DEF Written, CursorRow, Times, Unset
  <1>3. /\ Quietly /\ VoidsLeave /\ slipped' \subseteq Voids
        /\ \A v \in Unread' : v \in Unread
    BY WritesQuietly
  <1>4. SliceEnd' = SliceEnd
    BY <1>1, <1>2 DEF SliceEnd
  <1>5. TypeOK'
    BY <1>1, <1>2, <1>3 DEF TypeOK, Quietly, RunRow, CursorRow
  <1>6. Clocked'
    BY <1>2, <1>3, LeavingIsKept, Ranges, Lengths DEF Clocked, Quietly
  <1>7. RunClocked' /\ Places'
    BY <1>1, <1>2, <1>3 DEF RunClocked, Places, Slicing, Quietly
  <1>8. AtStep'
    BY <1>1, <1>4 DEF AtStep
  <1>9. ASSUME NEW v \in Unread'
        PROVE  Ahead(v)'
    <2>1. /\ v \in Unread /\ Ahead(v) /\ void' = void
          /\ v \in Voids /\ void[v].time \in Nat
      BY <1>3, Ranges DEF Quietly, Unread, Hidden, Listed
    <2>2. 0 < void[v].time
      BY <2>1, Ranges DEF Ahead
    <2> QED BY <2>1, <2>2, <1>1, <1>2, <1>4 DEF Ahead
  <1> QED BY <1>5, <1>6, <1>7, <1>8, <1>9

LEMMA MoveSound ==
    ASSUME IInv, MoveCursor, Writes
    PROVE  IInv'
  <1> USE DEF IInv
  <1>1. /\ run.at = "move"
        /\ SliceEnd \in Nat /\ run.pos <= SliceEnd /\ SliceEnd <= run.now
        /\ run.from <= SliceEnd /\ SliceEnd \in Times
    BY SliceRange, Ranges, Lengths DEF MoveCursor, RunClocked, AtStep, Times
  <1>2. /\ cursors' = [cursors EXCEPT !.end = SliceEnd] /\ cursors' \in CursorRow
        /\ cursors'.end = SliceEnd /\ cursors'.reread = cursors.reread
        /\ cursors'.behind = cursors.behind
    BY <1>1, WritesQuietly, Ranges, Lengths DEF Written, CursorRow, Greater
  <1>3. /\ Quietly /\ VoidsLeave /\ slipped' \subseteq Voids
        /\ \A v \in Unread' : v \in Unread
    BY WritesQuietly
  <1>4. Clocked'
    BY <1>1, <1>2, <1>3, LeavingIsKept, Ranges DEF Clocked, Quietly, RunClocked
  <1>5. ASSUME NEW v \in Unread'
        PROVE  /\ void' = void /\ v \in Unread /\ Ahead(v)
               /\ void[v].time \in Nat
               /\ cursors'.reread < void[v].time
               /\ SliceEnd < void[v].time \/ run.now - Overlap < void[v].time
               /\ cursors'.end - Overlap <= void[v].time
    <2>1. /\ void' = void /\ v \in Unread /\ Ahead(v)
          /\ v \in Voids /\ void[v].time \in Nat
      BY <1>3, Ranges DEF Quietly, Unread, Hidden, Listed
    <2>2. SliceEnd < void[v].time \/ run.now - Overlap < void[v].time
      BY <2>1, <1>1 DEF Ahead
    <2>3. cursors'.reread < void[v].time
      BY <2>1, <1>2 DEF Ahead
    <2> QED BY <2>1, <2>2, <2>3, <1>1, <1>2, Ranges, Lengths
  <1>6. CASE SliceEnd < run.now
    <2>1. run' = [run EXCEPT !.at = "read", !.pos = SliceEnd, !.any = TRUE,
                             !.moved = TRUE, !.reached = Greater(SliceEnd, run.from)]
      BY <1>6 DEF MoveCursor
    <2>2. Greater(SliceEnd, run.from) = SliceEnd
      BY <1>1, Ranges DEF Greater
    <2>3. /\ run' \in RunRow
          /\ run' = [at |-> "read", now |-> run.now, from |-> run.from, pos |-> SliceEnd,
                     inUse |-> run.inUse, any |-> TRUE, moved |-> TRUE,
                     reached |-> SliceEnd]
      <3> HIDE DEF IInv
      <3> QED BY <2>1, <2>2, <1>1, Ranges DEF IInv, RunRow
    <2>4. TypeOK'
      BY <2>3, <1>2, <1>3 DEF TypeOK, Quietly, RunRow, CursorRow
    <2>5. RunClocked'
      BY <2>3, <1>1, <1>3, Ranges, Lengths DEF RunClocked, Quietly
    <2>6. Places' /\ AtStep'
      BY <2>3, <1>1, <1>2, Ranges DEF Places, AtStep, Slicing
    <2>7. \A v \in Unread' : Ahead(v)'
      <3>1. run'.at = "read" /\ run'.pos = SliceEnd /\ run'.now = run.now
        BY <2>3
      <3>2. \A v \in Unread' : \/ SliceEnd <= void'[v].time
                              \/ run.now - Overlap < void'[v].time
        BY <1>1, <1>5, Ranges
      <3> QED BY <3>1, <3>2, <1>5 DEF Ahead
    <2> QED BY <2>4, <2>5, <2>6, <2>7, <1>4
  <1>7. CASE ~(SliceEnd < run.now)
    <2>1. SliceEnd = run.now
      BY <1>1, <1>7, Ranges
    <2>2. \/ run' = Idle /\ cursors.behind = 0
          \/ /\ run' = [run EXCEPT !.at = "grow"] /\ cursors.behind = 0
          \/ run' = [run EXCEPT !.at = "caughtUp"]
      BY <1>7 DEF MoveCursor, Finished, Goes
    <2>3. \A v \in Unread' : run.now - Overlap < void[v].time
      BY <2>1, <1>5, Ranges, Lengths
    <2>4. CASE run' = Idle /\ cursors.behind = 0
      <3>1. TypeOK'
        BY <2>4, IdleRow, <1>2, <1>3 DEF TypeOK, Quietly, RunRow, CursorRow
      <3>2. RunClocked' /\ Places' /\ AtStep'
        BY <2>4 DEF Idle, RunClocked, Places, AtStep, Slicing
      <3>3. \A v \in Unread' : Ahead(v)'
        BY <2>4, <1>2, <1>5 DEF Ahead, Idle
      <3> QED BY <3>1, <3>2, <3>3, <1>4
    <2>5. ASSUME NEW step \in {"grow", "caughtUp"}, run' = [run EXCEPT !.at = step],
                 step = "grow" => cursors.behind = 0
          PROVE  IInv'
      <3>1. /\ run' \in RunRow /\ run'.at = step /\ run'.now = run.now
            /\ run'.from = run.from /\ run'.pos = run.pos
        BY <2>5, Ranges DEF RunRow
      <3>2. TypeOK'
        BY <3>1, <1>2, <1>3 DEF TypeOK, Quietly, RunRow, CursorRow
      <3>3. RunClocked' /\ Places' /\ AtStep'
        BY <3>1, <2>1, <2>5, <1>1, <1>2, <1>3
        DEF RunClocked, Places, AtStep, Slicing, Quietly
      <3>4. \A v \in Unread' : Ahead(v)'
        BY <3>1, <2>3, <1>2, <1>5 DEF Ahead
      <3> QED BY <3>2, <3>3, <3>4, <1>4
    <2> QED BY <2>2, <2>4, <2>5
  <1> QED BY <1>6, <1>7

(* The last writes of a run that caught up.                                *)
LEMMA LastWriteSound ==
    ASSUME IInv, CaughtUp \/ (run.at = "grow" /\ EndRun), Writes
    PROVE  IInv'
  <1> USE DEF IInv
  <1>1. run.at \in {"caughtUp", "grow"}
    BY DEF CaughtUp
  <1>2. /\ cursors' \in CursorRow
        /\ cursors'.end = cursors.end /\ cursors'.reread = cursors.reread
        /\ cursors'.behind = 0
    BY <1>1, WritesQuietly, Ranges, Lengths DEF Written, CursorRow, AtStep
  <1>3. /\ Quietly /\ VoidsLeave /\ slipped' \subseteq Voids
        /\ \A v \in Unread' : v \in Unread
    BY WritesQuietly
  <1>4. Clocked'
    BY <1>2, <1>3, LeavingIsKept DEF Clocked, Quietly
  <1>5. \/ run' = Idle
        \/ run.at = "caughtUp" /\ run' = [run EXCEPT !.at = "grow"]
    BY DEF CaughtUp, Finished, Goes, EndRun
  <1>6. CASE run' = Idle
    <2>1. TypeOK'
      BY <1>6, IdleRow, <1>2, <1>3 DEF TypeOK, Quietly, RunRow, CursorRow
    <2>2. RunClocked' /\ Places' /\ AtStep'
      BY <1>6 DEF Idle, RunClocked, Places, AtStep, Slicing
    <2>3. \A v \in Unread' : Ahead(v)'
      BY <1>6, <1>2, <1>3 DEF Ahead, Idle, Quietly
    <2> QED BY <2>1, <2>2, <2>3, <1>4
  <1>7. CASE run.at = "caughtUp" /\ run' = [run EXCEPT !.at = "grow"]
    <2>1. /\ run' \in RunRow /\ run'.at = "grow" /\ run'.now = run.now
          /\ run'.from = run.from /\ run'.pos = run.pos
      BY <1>7, Ranges DEF RunRow
    <2>2. TypeOK'
      BY <2>1, <1>2, <1>3 DEF TypeOK, Quietly, RunRow, CursorRow
    <2>3. RunClocked' /\ Places' /\ AtStep'
      BY <2>1, <1>2, <1>3, <1>7 DEF RunClocked, Places, AtStep, Slicing, Quietly
    <2>4. \A v \in Unread' : Ahead(v)'
      BY <2>1, <1>2, <1>3, <1>7 DEF Ahead, Quietly
    <2> QED BY <2>2, <2>3, <2>4, <1>4
  <1> QED BY <1>5, <1>6, <1>7

LEMMA HoldWriteSound ==
    ASSUME IInv, CountStall \/ Halve, Writes
    PROVE  IInv'
  <1>1. run.at \in {"stall", "halve"} /\ Stops
    BY DEF CountStall, Halve
  <1>2. cursors.slice \div 2 \in Nat /\ cursors.slice \div 2 <= cursors.slice
    BY Ranges DEF IInv
  <1>3. cursors.stalls + 1 < MaxStalls \/ run.at = "halve"
    BY <1>1 DEF IInv, AtStep
  <1>4. /\ cursors' \in CursorRow
        /\ cursors'.end = cursors.end /\ cursors'.reread = cursors.reread
        /\ cursors'.behind = cursors.behind
    <2>1. CASE run.at = "stall"
      BY <2>1, <1>3, WritesQuietly, Ranges, Lengths DEF IInv, Written, CursorRow
    <2>2. CASE run.at = "halve"
      <3>1. Greater(cursors.slice \div 2, SliceMin) \in SliceMin..SliceMax
        BY <1>2, Ranges, Lengths DEF IInv, Greater
      <3>2. cursors' = [cursors EXCEPT !.slice = Greater(cursors.slice \div 2, SliceMin)]
        BY <2>2, WritesQuietly DEF IInv, Written
      <3> QED BY <3>1, <3>2, Ranges DEF IInv, CursorRow
    <2> QED BY <1>1, <2>1, <2>2
  <1> QED BY <1>1, <1>4, WritesQuietly, StopSound DEF IInv, Quietly

LEMMA StopWriteSound ==
    ASSUME IInv, run.at = "stop", EndRun, Writes
    PROVE  IInv'
  <1> USE DEF IInv
  <1>1. run' = Idle /\ StoppedState \in {1, 2}
    BY DEF EndRun, StoppedState
  <1>2. /\ cursors' \in CursorRow
        /\ cursors'.end = cursors.end /\ cursors'.reread = cursors.reread
        /\ cursors'.behind = StoppedState
    BY <1>1, WritesQuietly, Ranges DEF Written, CursorRow
  <1>3. /\ Quietly /\ VoidsLeave /\ slipped' \subseteq Voids
        /\ \A v \in Unread' : v \in Unread
    BY WritesQuietly
  <1>4. Clocked'
    BY <1>2, <1>3, LeavingIsKept DEF Clocked, Quietly
  <1>5. TypeOK'
    BY <1>1, IdleRow, <1>2, <1>3 DEF TypeOK, Quietly, RunRow, CursorRow
  <1>6. RunClocked' /\ Places' /\ AtStep'
    BY <1>1 DEF Idle, RunClocked, Places, AtStep, Slicing
  <1>7. ASSUME NEW v \in Unread'
        PROVE  Ahead(v)'
    <2>1. v \in Unread /\ Ahead(v) /\ void' = void
      BY <1>3 DEF Quietly
    <2>2. StoppedState = 2 => cursors.end <= void[v].time
      BY <2>1, StopIsClean DEF Slicing
    <2> QED BY <2>1, <2>2, <1>1, <1>2 DEF Ahead, Idle
  <1> QED BY <1>4, <1>5, <1>6, <1>7

-----------------------------------------------------------------------------
(* A write that takes effect in a step that fails.                         *)
LEMMA WrittenRow ==
    ASSUME IInv, run.at # "idle", NEW rest \in {cursors, Written}
    PROVE  /\ rest \in CursorRow
           /\ rest.end \in {cursors.end, SliceEnd}
           /\ rest.end <= run.now \/ rest.end = cursors.end
           /\ rest.reread \in {cursors.reread, SliceEnd, 0}
           /\ rest.behind \in {cursors.behind, StoppedState, 0}
           /\ run.at # "move" => rest.end = cursors.end
           /\ run.at # "remember" => rest.reread \in {cursors.reread, 0}
           /\ run.at = "move" => rest.behind = cursors.behind /\ rest.reread = cursors.reread
  <1> USE DEF IInv
  <1>1. /\ SliceEnd \in Times /\ SliceEnd <= run.now
        /\ run.at = "move" => Greater(SliceEnd, run.from) = SliceEnd
    BY SliceRange, Ranges, Lengths DEF RunClocked, AtStep, Greater, Times
  <1>2. StoppedState \in {1, 2}
    BY DEF StoppedState
  <1>3. CASE rest = cursors
    BY <1>3, Ranges
  <1>4. CASE rest = Written
    <2>1. CASE run.at = "move"
      <3>1. rest = [cursors EXCEPT !.end = SliceEnd]
        BY <1>1, <1>4, <2>1 DEF Written
      <3> QED BY <3>1, <2>1, <1>1, Ranges DEF CursorRow
    <2>2. CASE run.at = "remember"
      <3>1. rest = [cursors EXCEPT !.reread = SliceEnd]
        BY <1>4, <2>2 DEF Written
      <3> QED BY <3>1, <2>2, <1>1, Ranges DEF CursorRow
    <2>3. CASE run.at = "stall"
      <3>1. rest = [cursors EXCEPT !.stalls = cursors.stalls + 1]
        BY <1>4, <2>3 DEF Written
      <3>2. cursors.stalls + 1 \in 0..(MaxStalls - 1)
        BY <2>3, Ranges, Lengths DEF AtStep
      <3> QED BY <3>1, <3>2, <2>3, Ranges DEF CursorRow
    <2>4. CASE run.at = "halve"
      <3>1. rest = [cursors EXCEPT !.slice = Greater(cursors.slice \div 2, SliceMin)]
        BY <1>4, <2>4 DEF Written
      <3>2. cursors.slice \div 2 \in Nat /\ cursors.slice \div 2 <= cursors.slice
        BY Ranges
      <3>3. Greater(cursors.slice \div 2, SliceMin) \in SliceMin..SliceMax
        BY <3>2, Ranges, Lengths DEF Greater
      <3> QED BY <3>1, <3>3, <2>4, Ranges DEF CursorRow
    <2>5. CASE run.at = "reset"
      <3>1. rest = [cursors EXCEPT !.stalls = 0]
        BY <1>4, <2>5 DEF Written
      <3> QED BY <3>1, <2>5, Ranges, Lengths DEF CursorRow
    <2>6. CASE run.at = "clear"
      <3>1. rest = [cursors EXCEPT !.reread = 0]
        BY <1>4, <2>6 DEF Written, Unset
      <3> QED BY <3>1, <2>6, Ranges, Lengths DEF CursorRow, Times
    <2>7. CASE run.at = "caughtUp"
      <3>1. rest = [cursors EXCEPT !.behind = 0]
        BY <1>4, <2>7 DEF Written
      <3> QED BY <3>1, <2>7, Ranges DEF CursorRow
    <2>8. CASE run.at = "grow"
      <3>1. rest = [cursors EXCEPT !.slice = SliceMax]
        BY <1>4, <2>8 DEF Written
      <3> QED BY <3>1, <2>8, Ranges, Lengths DEF CursorRow
    <2>9. CASE run.at = "stop"
      <3>1. rest = [cursors EXCEPT !.behind = StoppedState]
        BY <1>4, <2>9 DEF Written
      <3> QED BY <3>1, <2>9, <1>2, Ranges DEF CursorRow
    <2>10. CASE run.at = "read"
      <3>1. rest = cursors
        BY <1>4, <2>10 DEF Written
      <3> QED BY <3>1, Ranges
    <2> QED BY <2>1, <2>2, <2>3, <2>4, <2>5, <2>6, <2>7, <2>8, <2>9, <2>10, Ranges DEF RunRow
  <1> QED BY <1>3, <1>4

LEMMA FailsSound ==
    ASSUME IInv, NEW rest \in {cursors, Written}, Fails(rest)
    PROVE  IInv'
  <1> USE DEF IInv
  <1>1. /\ run.at # "idle" /\ run' = Idle /\ now' = now /\ faults' = faults + 1
        /\ faults < MaxFaults
        /\ slipped' = slipped \cup {v \in Young : \/ void[v].time < Resume'
                                                  \/ void[v].time <= cursors'.reread}
        /\ cursors' \in {rest, [rest EXCEPT !.behind = StoppedState]}
        /\ run.at \in {"caughtUp", "grow"} => cursors' = rest
    BY DEF Fails
  <1>2. /\ StoppedState \in {1, 2}
        /\ SliceEnd \in Nat /\ run.pos <= SliceEnd /\ SliceEnd <= run.now
    BY <1>1, SliceRange DEF RunClocked, StoppedState
  <1>3. /\ cursors' \in CursorRow
        /\ cursors'.end = rest.end /\ cursors'.reread = rest.reread
        /\ cursors'.behind \in {rest.behind, StoppedState}
        /\ run.at \in {"caughtUp", "grow"} => cursors'.behind = rest.behind
    BY <1>1, <1>2, WrittenRow DEF CursorRow
  <1>4. /\ cursors'.end <= now /\ cursors'.reread < now
    BY <1>1, <1>2, <1>3, WrittenRow, Ranges, Lengths DEF Clocked, RunClocked, AtStep
  <1>5. VoidsLeave
    <2>1. PICK S \in SUBSET InSlice : void' = Marked(IF run.at = "read" THEN S ELSE {}, "revoked")
      BY DEF Fails
    <2>2. (IF run.at = "read" THEN S ELSE {}) \in SUBSET InSlice
      OBVIOUS
    <2> HIDE DEF IInv
    <2> QED BY <2>1, <2>2, MarkedLeaves DEF IInv
  <1>6. slipped \subseteq slipped' /\ slipped' \subseteq Voids
    BY <1>1 DEF TypeOK, Young, Hidden, Listed
  <1>7. Clocked' /\ Unread' \subseteq Unread
    BY <1>1, <1>4, <1>5, <1>6, LeavingIsKept
  <1>8. TypeOK'
    BY <1>1, <1>3, <1>5, <1>6, IdleRow, Ranges, Lengths
    DEF TypeOK, VoidsLeave, RunRow, VoidRow, CursorRow
  <1>9. RunClocked' /\ Places' /\ AtStep'
    BY <1>1 DEF Idle, RunClocked, Places, AtStep, Slicing
  <1>10. ASSUME NEW v \in Unread'
         PROVE  Ahead(v)'
    <2>1. /\ v \in Unread /\ Ahead(v) /\ void'[v].time = void[v].time
          /\ v \in Voids /\ void[v].time \in Nat /\ v \in Hidden \cup Listed
      BY <1>1, <1>5, <1>6, <1>7, LeavingIsKept, Ranges DEF Unread, Hidden, Listed
    <2>2. v \notin slipped'
      BY DEF Unread
    <2>3. CASE run.now - Overlap < void[v].time
      <3>1. v \in Young
        BY <2>1, <2>3 DEF Young
      <3>2. cursors'.reread < void[v].time /\ ~(void[v].time < Resume')
        BY <3>1, <2>1, <2>2, <1>1, <1>3, Ranges DEF CursorRow, Times
      <3>3. cursors'.behind = 2 => cursors'.end <= void[v].time
        BY <3>2, <2>1, <1>3 DEF Resume, CursorRow, Times
      <3>4. cursors'.end - Overlap <= void[v].time
        BY <2>1, <2>3, <1>1, <1>3, WrittenRow, Ranges, Lengths DEF Ahead, CursorRow, Times
      <3> QED BY <3>2, <3>3, <3>4, <2>1, <1>1 DEF Ahead, Idle
    <2>4. CASE ~(run.now - Overlap < void[v].time)
      <3>1. run.at \in Slicing
        BY <2>1, <2>4, <1>1, Ranges DEF Ahead, RunRow, Slicing
      <3>2. /\ run.pos <= void[v].time
            /\ run.at \in {"reset", "remember", "clear", "move"} => SliceEnd < void[v].time
        BY <3>1, <2>1, <2>4, <1>2, Ranges DEF Ahead, Slicing
      <3>3. cursors'.reread < void[v].time
        BY <3>2, <2>1, <1>1, <1>3, WrittenRow, Ranges DEF Ahead
      <3>4. cursors'.end <= void[v].time \/ cursors'.end = cursors.end
        BY <3>2, <2>1, <1>1, <1>2, <1>3, WrittenRow, Ranges
      <3>5. cursors'.end - Overlap <= void[v].time
        BY <3>4, <2>1, <1>3, Ranges, Lengths DEF Ahead, CursorRow, Times
      <3>6. cursors'.behind = 2 => cursors'.end <= void[v].time
        <4>1. StoppedState = 2 => cursors.end <= void[v].time
          BY <2>1, <3>1, StopIsClean
        <4>2. cursors.behind = 2 => cursors.end <= void[v].time
          BY <3>1, <3>2, <2>1, Ranges DEF Places
        <4>3. cursors'.behind \in {cursors.behind, StoppedState, 0}
          BY <1>1, <1>3, WrittenRow
        <4> QED BY <4>1, <4>2, <4>3, <3>4
      <3> QED BY <3>3, <3>5, <3>6, <2>1, <1>1 DEF Ahead, Idle
    <2> QED BY <2>3, <2>4
  <1> QED BY <1>7, <1>8, <1>9, <1>10

-----------------------------------------------------------------------------
LEMMA NextSound == IInv /\ [Next]_vars => IInv'
  <1> SUFFICES ASSUME IInv, [Next]_vars PROVE IInv'
    OBVIOUS
  <1>1. CASE \E v \in Voids : Record(v) \/ List(v)
    BY <1>1, RecordSound, ListSound
  <1>2. CASE Tick
    BY <1>2, TickSound
  <1>3. CASE Step
    <2>1. CASE Begin \/ ReadSlice
      BY <2>1, BeginSound, ReadSliceSound
    <2>2. CASE \E S \in SUBSET InSlice :
                 SliceErrs(S) \/ SliceSkipped(S) \/ SliceTooLarge(S) \/ Interrupted(S)
      BY <2>2, SliceSkippedSound, HeldSliceSound
    <2>3. CASE Writes /\ (ResetStalls \/ Remember \/ ClearReread \/ MoveCursor \/ CaughtUp)
      BY <2>3, ResetStallsSound, RememberSound, ClearSound, MoveSound, LastWriteSound
    <2>4. CASE Writes /\ (CountStall \/ Halve)
      BY <2>4, HoldWriteSound
    <2>5. CASE Writes /\ EndRun
      <3>1. run.at = "grow" \/ run.at = "stop"
        BY <2>5 DEF EndRun
      <3> QED BY <3>1, <2>5, LastWriteSound, StopWriteSound
    <2> QED BY <1>3, <2>1, <2>2, <2>3, <2>4, <2>5 DEF Step
  <1>4. CASE Fails(cursors) \/ Fails(Written)
    BY <1>4, FailsSound
  <1>5. CASE UNCHANGED vars
    <2>1. /\ UNCHANGED <<now, void, cursors, run, slipped, faults>>
          /\ SliceEnd' = SliceEnd /\ Hidden' = Hidden /\ Listed' = Listed
      BY <1>5 DEF vars, SliceEnd, Hidden, Listed
    <2>2. TypeOK' /\ Clocked' /\ RunClocked' /\ Places' /\ AtStep'
      BY <2>1 DEF IInv, TypeOK, Clocked, RunClocked, Places, AtStep
    <2>3. \A v \in Unread' : Ahead(v)'
      BY <2>1 DEF IInv, Unread, Ahead
    <2> QED BY <2>2, <2>3 DEF IInv
  <1> QED BY <1>1, <1>2, <1>3, <1>4, <1>5 DEF Next

(* The invariant that carries the theorems below.                          *)
THEOREM InvariantHolds == Spec => []IInv
  <1>1. Init => IInv
    BY InitSound
  <1>2. IInv /\ [Next]_vars => IInv'
    BY NextSound
  <1> QED BY <1>1, <1>2, PTL DEF Spec

(* Every row and every local of a run keeps its type: in particular a      *)
(* stall is counted only below the limit, and a halved slice is one.       *)
THEOREM TypesHold == Spec => []TypeOK
  <1>1. IInv => TypeOK
    BY DEF IInv
  <1> QED BY <1>1, InvariantHolds, PTL

(* However the runs of sweepVoidedPurchases are cut, the next one starts no *)
(* later than the first listed void nobody dealt with.                     *)
THEOREM NoVoidPassedHolds == Spec => []NoVoidPassed
  <1>1. IInv => NoVoidPassed
    <2> SUFFICES ASSUME IInv, run.at = "idle", NEW v \in Listed \ slipped
                 PROVE  void[v].time >= Resume
      BY DEF NoVoidPassed
    <2>1. Ahead(v) /\ v \in Voids
      BY DEF IInv, Unread, Listed
    <2> QED BY <2>1, Ranges, Lengths DEF IInv, Ahead, Resume
  <1> QED BY <1>1, InvariantHolds, PTL

(* A run that finished a slice and stops hands on where it got.            *)
THEOREM ProgressKeptHolds == Spec => ProgressKept
  <1> DEFINE Hands == (run.any /\ run'.at = "idle" /\ faults' = faults) =>
          \/ cursors'.behind = 0
          \/ cursors'.end > run.from
          \/ Resume' >= run.pos
          \/ run.from > run.now - Overlap
  <1>1. IInv /\ [Next]_vars => [Hands]_vars
    <2> SUFFICES ASSUME IInv, Next, run.any, run'.at = "idle", faults' = faults
                 PROVE  \/ cursors'.behind = 0
                        \/ cursors'.end > run.from
                        \/ Resume' >= run.pos
                        \/ run.from > run.now - Overlap
      BY DEF Hands
    <2>1. ASSUME run.at \in {"read", "stop"},
                 cursors' \in CursorRow,
                 cursors'.end = cursors.end, cursors'.reread = cursors.reread,
                 cursors'.behind = StoppedState
          PROVE  \/ cursors'.end > run.from
                 \/ Resume' >= run.pos
                 \/ run.from > run.now - Overlap
      <3>1. CASE run.moved
        BY <2>1, <3>1, Ranges, Lengths
        DEF IInv, Places, Slicing, StoppedState, Resume
      <3>2. CASE ~run.moved
        <4>1. /\ cursors.reread = run.pos
              /\ run.from - Overlap < run.pos /\ run.pos < run.from
          BY <2>1, <3>2 DEF IInv, AtStep
        <4>2. cursors.end = run.from /\ cursors.behind # 2
          BY <4>1, <2>1, <3>2, Ranges DEF IInv, Places, Slicing
        <4>3. StoppedState = 1
          BY <4>2, <3>2 DEF StoppedState
        <4> QED BY <4>1, <4>2, <4>3, <2>1, Ranges DEF IInv, Resume, RereadInUse
      <3> QED BY <3>1, <3>2
    <2>2. CASE \E S \in SUBSET InSlice :
                 SliceErrs(S) \/ SliceTooLarge(S) \/ Interrupted(S)
      <3>1. run.at = "read" /\ cursors' = cursors /\ cursors.behind = StoppedState
        BY <2>2, Ranges
        DEF SliceErrs, SliceTooLarge, Interrupted, OnlyRun, Stops, Goes, IInv, RunRow
      <3> QED BY <3>1, <2>1, Ranges DEF IInv
    <2>3. CASE run.at = "stop" /\ EndRun /\ Writes
      <3>1. StoppedState \in {1, 2}
        BY DEF StoppedState
      <3>2. /\ cursors' \in CursorRow
            /\ cursors'.end = cursors.end /\ cursors'.reread = cursors.reread
            /\ cursors'.behind = StoppedState
        BY <2>3, <3>1, Ranges DEF IInv, Writes, Written, CursorRow
      <3> QED BY <3>2, <2>1, <2>3
    <2>4. CASE CaughtUp /\ Writes
      BY <2>4, Ranges DEF IInv, Writes, Written, CaughtUp, CursorRow
    <2>5. CASE run.at = "grow" /\ EndRun /\ Writes
      BY <2>5, Ranges DEF IInv, AtStep, Writes, Written, CursorRow
    <2>6. CASE MoveCursor /\ Writes
      <3>1. run.at = "move" /\ cursors' = [cursors EXCEPT !.end = Greater(SliceEnd, run.from)]
        BY <2>6 DEF MoveCursor, Writes, Written
      <3>2. CASE SliceEnd < run.now
        <4>1. run \in RunRow
          BY Ranges DEF IInv
        <4>2. run'.at = "read"
          BY <2>6, <3>2, <4>1 DEF MoveCursor, RunRow
        <4> QED BY <4>2
      <3>3. CASE ~(SliceEnd < run.now)
        <4>1. cursors.behind = 0
          BY <2>6, <3>3, Ranges DEF IInv, MoveCursor, Goes, RunRow
        <4> QED BY <4>1, <3>1, Ranges DEF IInv, CursorRow
      <3> QED BY <3>2, <3>3
    <2>7. CASE Begin \/ Tick \/ \E v \in Voids : Record(v) \/ List(v)
      <3>1. CASE Begin
        BY <3>1 DEF Begin
      <3>2. CASE ~Begin
        <4>1. run' = run
          BY <2>7, <3>2 DEF Tick, Record, List
        <4>2. run.at = "idle" => ~run.any
          BY DEF IInv, AtStep
        <4> QED BY <4>1, <4>2
      <3> QED BY <3>1, <3>2
    <2>8. CASE ReadSlice \/ \E S \in SUBSET InSlice : SliceSkipped(S)
      <3>1. Passes
        BY <2>8 DEF ReadSlice, SliceSkipped
      <3> QED BY <3>1, Ranges DEF IInv, Passes, Goes, FinishSlice, RunRow
    <2>9. CASE ResetStalls \/ Remember \/ ClearReread
      <3>1. run'.at \in {"read", "remember", "clear", "move"}
        <4>1. FinishSlice \in {"remember", "clear", "move"}
          BY DEF FinishSlice
        <4>2. run \in RunRow
          BY Ranges DEF IInv
        <4> QED BY <2>9, <4>1, <4>2 DEF ResetStalls, Remember, ClearReread, Goes, RunRow
      <3> QED BY <3>1
    <2>10. CASE CountStall \/ Halve
      BY <2>10 DEF IInv, AtStep, CountStall, Halve
    <2>11. CASE Fails(cursors) \/ Fails(Written)
      BY <2>11, Ranges DEF IInv, Fails
    <2>12. EndRun => run.at = "grow" \/ run.at = "stop"
      BY DEF EndRun
    <2> QED BY <2>2, <2>3, <2>4, <2>5, <2>6, <2>7, <2>8, <2>9, <2>10, <2>11, <2>12 DEF Next, Step
  <1> QED BY <1>1, InvariantHolds, PTL DEF Spec, ProgressKept

=============================================================================
