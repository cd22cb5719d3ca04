----------------------- MODULE PurchaseJournalProofs -----------------------
(***************************************************************************)
(* Theorems about PurchaseJournal, for every set of contexts, keys and      *)
(* transactions and every bound on faults, whether contexts overlap or not. *)
(*                                                                         *)
(* A record only moves on (Follows), and what a context remembers is what   *)
(* the journal held once (Memory), so a compare-and-set that succeeds       *)
(* writes on what it was decided from.  The right to show a key's sheet is  *)
(* held by one call at most (Tokens).  While contexts do not overlap, one   *)
(* record holds a transaction besides those of detached calls, and the      *)
(* context remembers it whenever one of its other calls may journal that    *)
(* transaction under another key (Alone).                                   *)
(***************************************************************************)
EXTENDS PurchaseJournal, FiniteSetTheorems, TLAPS

Unbought == {"missing", "requested", "refused", "launched", "cancelled", "failed"}
Formed(r) == r.txn = NoTxn <=> r.state \in Unbought

(* What a record may become: it keeps its transaction, its grant and its   *)
(* end.                                                                    *)
Follows(r, s) ==
    /\ r.txn # NoTxn => s.txn = r.txn
    /\ r.state \in Granted => s.state \in Granted
    /\ r.state \in Terminal => s = r
    /\ r.state # "missing" => s.state # "missing"

(* What a context remembers is what the journal held once.                 *)
Memory ==
    /\ \A c \in Contexts : \A k \in fresh[c] : journal[k].state # "missing"
    /\ \A c \in Contexts, k \in AllKeys : Formed(mem[c][k]) /\ Follows(mem[c][k], journal[k])

Bought == {"pending", "purchased"}
Showing == {"shown"}

(* What a context knows while its lock is held; `current`: its write would *)
(* succeed.                                                                *)
JobSound(c) ==
    LET j == job[c]
        current == j.key \in fresh[c]
    IN  /\ j.at = "reserve" => j.txn \in Txns /\ j.as \in Bought
        /\ j.at = "again" => j.txn \in Txns /\ ledger[j.txn] = "granted"
        /\ j.at = "settle" =>
             /\ j.key \in AllKeys /\ j.txn \in Txns /\ j.as \in {"granted", "rejected", "review"}
             /\ j.as = "granted" => ledger[j.txn] = "granted"
             /\ current => journal[j.key] = Rec("verifying", j.txn)
        /\ j.at = "finished" =>
             /\ j.key \in AllKeys /\ j.txn \in Txns /\ ledger[j.txn] = "granted"
             /\ current => journal[j.key] = Rec("finishing", j.txn)
        /\ j.at \in {"prepare", "open"} =>
             /\ j.key \in Keys /\ j.as \in {"missing", "refused"}
             /\ current /\ j.as = "refused" => journal[j.key].state = "refused"
        /\ j.at \in {"answer", "bought"} =>
             /\ j.key \in Keys
             /\ j.txn # NoTxn => /\ j.as \in Bought /\ sheet[j.key] = j.txn
                                 /\ calls[c][j.key] \in Showing
             /\ j.txn = NoTxn => j.as \in {"launched", "failed", "cancelled", "refused"}
             /\ j.as = "refused" => calls[c][j.key] = "unstarted"
        /\ j.at = "answer" /\ current => journal[j.key].state \in {"requested", "refused"}
        /\ j.at = "bought" => j.txn \in Txns /\ (current => journal[j.key] = Rec("launched", NoTxn))

Jobs == \A c \in Contexts : JobSound(c)

(* A pass runs in a context that is started. *)
Free == {"idle", "prepare", "open", "answer", "bought"}
Running == \A c \in Contexts : job[c].at \notin Free => started[c]

Unshown == {"calling", "unstarted"}

(* At most one call of a key has yet to show its sheet, and none when the  *)
(* sheet was shown or another call may begin.                              *)
Tokens ==
    \A k \in Keys :
        /\ opened[k] \in {0, 1}
        /\ journal[k].state \in {"missing", "refused"} => opened[k] = 0
        /\ opened[k] = 0 => sheet[k] = "closed"
        /\ \A c \in Contexts :
            /\ calls[c][k] # "none" => journal[k].state # "missing"
            /\ calls[c][k] \in Unshown =>
                 /\ opened[k] = 0 /\ journal[k].state # "refused"
                 /\ \A d \in Contexts \ {c} : calls[d][k] \notin Unshown

(* What is known of a transaction the store sold, to one sheet.            *)
Sold ==
    /\ \A k \in AllKeys : journal[k].txn # NoTxn => shop[journal[k].txn] # "none"
    /\ \A c \in Contexts :
        /\ \A e \in inbox[c] \cup job[c].queue : e # Cancelled => shop[e.txn] # "none"
        /\ job[c].txn # NoTxn => shop[job[c].txn] # "none"
    /\ \A k \in Keys : sheet[k] \in Txns =>
        /\ shop[sheet[k]] # "none"
        /\ \A l \in Keys \ {k} : sheet[l] # sheet[k]

Passing == {"ingest", "reserve", "again"}

(* The calls that may still be answered with a transaction, in the memory  *)
(* they began with.                                                        *)
Answering(c, t) == {k \in Keys \ detached : sheet[k] = t /\ calls[c][k] \in Showing}

(* While no two contexts were in use at once, one record holds a           *)
(* transaction, detached keys left out, and the context remembers it,      *)
(* unless only the record's own call could still journal it, or the pass   *)
(* has yet to list the open records.                                       *)
Remembered(c) ==
    \A t \in Txns, k \in AllKeys :
        journal[k].txn = t /\ mem[c][k].txn # t =>
            \/ Answering(c, t) \subseteq {k}
            \/ job[c].at \in Passing /\ IsOpen(journal[k])

Alone ==
    /\ \A c, d \in Contexts : InUse(c) /\ InUse(d) => c = d
    /\ \A k, l \in AllKeys \ detached :
         journal[k].txn # NoTxn /\ journal[k].txn = journal[l].txn => k = l
    /\ \A t \in Txns, k \in AllKeys : <<t, k>> \in sent => journal[k].txn = t
    /\ \A c \in Contexts :
        /\ job[c].at = "reserve" => Holding(journal, job[c].txn) \subseteq detached
        /\ Remembered(c)

JInv ==
    /\ TypeOK /\ Memory /\ Jobs /\ Running /\ Tokens /\ Sold
    /\ FinishedIsGranted
    /\ ~overlapped => Alone

(* What every step does.                                                   *)
Moves == JInv' /\ \A k \in AllKeys : Follows(journal[k], journal'[k])

-----------------------------------------------------------------------------
(* Records and jobs. *)

LEMMA RecIs ==
    ASSUME NEW s \in States, NEW t \in Txns \cup {NoTxn}
    PROVE  Rec(s, t) \in Record /\ Rec(s, t).state = s /\ Rec(s, t).txn = t
  BY DEF Rec, Record

LEMMA FollowsItself ==
    ASSUME NEW r
    PROVE  Follows(r, r)
  BY DEF Follows

LEMMA FollowsOn ==
    ASSUME NEW r, NEW s, NEW t, Follows(r, s), Follows(s, t)
    PROVE  Follows(r, t)
  BY DEF Follows

LEMMA MissingIs ==
    /\ Missing \in Record /\ Missing.state = "missing" /\ Missing.txn = NoTxn
    /\ Formed(Missing)
    /\ \A r \in Record : Formed(r) => Follows(Missing, r)
    /\ \A r \in Record : Formed(r) /\ r.state = "missing" => r = Missing
  BY DEF Missing, Rec, Record, States, Formed, Unbought, Follows, Granted, Terminal

LEMMA BlankIs ==
    /\ Blank \in Job /\ Blank.at = "idle" /\ Blank.at \in Free
    /\ Blank.txn = NoTxn /\ Blank.queue = {}
  BY DEF Blank, Job, States, Free

LEMMA GoesTo ==
    ASSUME TypeOK, NEW c \in Contexts, NEW to \in Job, Goes(c, to)
    PROVE  /\ job' \in [Contexts -> Job]
           /\ job'[c] = to
           /\ \A d \in Contexts \ {c} : job'[d] = job[d]
  BY DEF TypeOK, Goes

LEMMA RestIs ==
    ASSUME TypeOK, NEW c \in Contexts, NEW e
    PROVE  /\ Rest(c, e) \in Job
           /\ Rest(c, e).at = job[c].at /\ Rest(c, e).key = job[c].key
           /\ Rest(c, e).txn = job[c].txn /\ Rest(c, e).as = job[c].as
           /\ Rest(c, e).queue = job[c].queue \ {e}
<1>1. job[c] \in Job
  BY DEF TypeOK
<1>2. QED BY <1>1 DEF Rest, Job

LEMMA BackIs ==
    ASSUME TypeOK, NEW c \in Contexts
    PROVE  /\ BackToIngest(c) \in Job
           /\ BackToIngest(c).at = "ingest" /\ BackToIngest(c).txn = NoTxn
           /\ BackToIngest(c).queue = job[c].queue
<1>1. job[c] \in Job
  BY DEF TypeOK
<1>2. QED BY <1>1 DEF BackToIngest, Job, States

LEMMA StaysIs ==
    ASSUME TypeOK, NEW c \in Contexts, NEW k \in AllKeys
    PROVE  /\ Stays(c, k) \in Job
           /\ Stays(c, k).at = "drive" /\ Stays(c, k).txn = NoTxn
           /\ Stays(c, k).queue = job[c].queue
<1>1. job[c] \in Job
  BY DEF TypeOK
<1>2. QED BY <1>1 DEF Stays, Job, States

LEMMA DoneIs ==
    ASSUME TypeOK, NEW c \in Contexts, NEW k \in AllKeys
    PROVE  /\ Done(c, k) \in Job
           /\ Done(c, k).at \in {"idle", "drive"} /\ Done(c, k).txn = NoTxn
           /\ Done(c, k).queue \subseteq job[c].queue
<1>1. job[c] \in Job
  BY DEF TypeOK
<1> DEFINE left == job[c].todo \ {k}
           next == [job[c] EXCEPT !.at = "drive", !.key = NoKey, !.txn = NoTxn, !.as = "missing",
                                  !.todo = left, !.retry = @ \ {k}]
<1>2. Done(c, k) = IF left = {} THEN Blank ELSE next
  BY DEF Done
<1>3. left \in SUBSET AllKeys /\ job[c].retry \ {k} \in SUBSET AllKeys
  BY <1>1 DEF Job
<1>4. next \in Job /\ next.at = "drive" /\ next.txn = NoTxn /\ next.queue = job[c].queue
  BY <1>1, <1>3 DEF Job, States
<1>5. QED BY <1>2, <1>4, BlankIs

-----------------------------------------------------------------------------
(* How a step of a context may change what is journaled and remembered. *)

Held(c) ==
    /\ journal \in [AllKeys -> Record]
    /\ mem \in [Contexts -> [AllKeys -> Record]]
    /\ fresh \in [Contexts -> SUBSET AllKeys]
    /\ \A d \in Contexts : \A k \in fresh[d] : mem[d][k] = journal[k]
    /\ \A k \in AllKeys : Formed(journal[k])
    /\ Memory

MemStep(c) ==
    /\ Held(c)'
    /\ \A k \in AllKeys : Follows(journal[k], journal'[k])
    /\ \A d \in Contexts \ {c} :
        /\ mem'[d] = mem[d]
        /\ \A k \in fresh'[d] : k \in fresh[d] /\ journal'[k] = journal[k]
    /\ \A k \in AllKeys : mem'[c][k] \in {mem[c][k], journal'[k]}

(* The one record it may have written.                                     *)
Writes(c, k, r) ==
    \A j \in AllKeys :
        journal'[j] = journal[j] \/ (j = k /\ journal'[k] = r /\ (k \in fresh[c] \/ journal[k] = Missing))

LEMMA HeldHolds ==
    ASSUME JInv, NEW c \in Contexts
    PROVE  Held(c)
  BY DEF JInv, TypeOK, Held, Formed, Unbought

LEMMA StillKeeps ==
    ASSUME JInv, NEW c \in Contexts, UNCHANGED <<journal, mem, fresh>>
    PROVE  MemStep(c)
  BY HeldHolds, FollowsItself DEF MemStep, Held, Memory

LEMMA RememberKeeps ==
    ASSUME JInv, NEW c \in Contexts, NEW keys \in SUBSET AllKeys,
           Remember(c, keys), UNCHANGED journal,
           \A k \in keys : journal[k].state # "missing"
    PROVE  /\ MemStep(c)
           /\ \A k \in keys : mem'[c][k] = journal[k]
           /\ fresh'[c] = fresh[c] \cup keys
<1>1. Held(c)
  BY HeldHolds
<1>2. mem' = [mem EXCEPT ![c] = [k \in AllKeys |-> IF k \in keys THEN journal[k] ELSE @[k]]]
  BY DEF Remember
<1>3. fresh' = [fresh EXCEPT ![c] = @ \cup keys]
  BY DEF Remember
<1>4. /\ mem' \in [Contexts -> [AllKeys -> Record]]
      /\ \A d \in Contexts \ {c} : mem'[d] = mem[d]
      /\ \A k \in AllKeys : mem'[c][k] = IF k \in keys THEN journal[k] ELSE mem[c][k]
  BY <1>1, <1>2 DEF Held
<1>5. /\ fresh' \in [Contexts -> SUBSET AllKeys]
      /\ fresh'[c] = fresh[c] \cup keys
      /\ \A d \in Contexts \ {c} : fresh'[d] = fresh[d]
  BY <1>1, <1>3 DEF Held
<1>6. Memory'
  <2>1. \A d \in Contexts : \A k \in fresh'[d] : journal[k].state # "missing"
    BY <1>1, <1>5 DEF Held, Memory
  <2>2. ASSUME NEW d \in Contexts, NEW k \in AllKeys
        PROVE  Formed(mem'[d][k]) /\ Follows(mem'[d][k], journal[k])
    <3>1. mem'[d][k] \in {mem[d][k], journal[k]}
      BY <1>4
    <3>2. QED BY <1>1, <3>1, FollowsItself DEF Held, Memory
  <2>3. QED BY <2>1, <2>2 DEF Memory
<1>7. Held(c)'
  <2>1. \A d \in Contexts : \A k \in fresh'[d] : mem'[d][k] = journal[k]
    <3>1. SUFFICES ASSUME NEW d \in Contexts, NEW k \in fresh'[d]
                   PROVE  mem'[d][k] = journal[k]
      OBVIOUS
    <3>2. k \in AllKeys
      BY <1>5
    <3>3. QED BY <1>1, <1>4, <1>5, <3>2 DEF Held
  <2>2. QED BY <1>1, <1>4, <1>5, <1>6, <2>1 DEF Held
<1>8. QED BY <1>4, <1>5, <1>7, FollowsItself DEF MemStep

LEMMA ReplaceKeeps ==
    ASSUME JInv, NEW c \in Contexts, NEW k \in AllKeys, NEW r \in Record,
           NEW won \in Job, NEW lost \in Job,
           Replace(c, k, r, won, lost),
           Formed(r), r.state # "missing",
           k \in fresh[c] => Follows(journal[k], r)
    PROVE  /\ MemStep(c)
           /\ Writes(c, k, r)
           /\ \/ /\ Goes(c, won) /\ k \in fresh[c] /\ k \in fresh'[c]
                 /\ journal'[k] = r /\ mem'[c][k] = r
              \/ Goes(c, lost) /\ mem' = mem /\ fresh'[c] \subseteq fresh[c]
           /\ journal' # journal => journal'[k] = r /\ k \in fresh[c]
           /\ faults' \in {faults, faults + 1} /\ (faults' # faults => Fault)
<1>1. Held(c)
  BY HeldHolds
<1> DEFINE set == [journal EXCEPT ![k] = r]
           known == [mem EXCEPT ![c][k] = r]
<1>2. /\ set \in [AllKeys -> Record] /\ set[k] = r
      /\ \A j \in AllKeys \ {k} : set[j] = journal[j]
  BY <1>1 DEF Held
<1>3. /\ known \in [Contexts -> [AllKeys -> Record]] /\ known[c][k] = r
      /\ \A d \in Contexts \ {c} : known[d] = mem[d]
      /\ \A j \in AllKeys \ {k} : known[c][j] = mem[c][j]
  BY <1>1 DEF Held
<1>4. \/ /\ k \in fresh[c] /\ journal' = set /\ mem' = known
         /\ fresh' = [d \in Contexts |-> IF d = c THEN fresh[d] ELSE fresh[d] \ {k}]
         /\ Goes(c, won) /\ UNCHANGED faults
      \/ k \notin fresh[c] /\ Goes(c, lost) /\ UNCHANGED <<journal, mem, fresh, faults>>
      \/ /\ k \in fresh[c] /\ Fault /\ mem' = mem /\ Goes(c, lost)
         /\ \/ journal' = set /\ fresh' = [d \in Contexts |-> fresh[d] \ {k}]
            \/ UNCHANGED <<journal, fresh>>
  BY DEF Replace, memory
<1> HIDE DEF set, known
<1>5. CASE UNCHANGED <<journal, mem, fresh>>
  <2>1. MemStep(c)
    BY <1>5, StillKeeps
  <2>2. Goes(c, lost) \/ (Goes(c, won) /\ k \in fresh[c] /\ journal'[k] = r /\ mem'[c][k] = r)
    BY <1>2, <1>3, <1>4
  <2>3. QED BY <1>4, <1>5, <2>1, <2>2 DEF Writes, Fault
<1>6. CASE /\ k \in fresh[c] /\ journal' = set
           /\ mem' = known \/ (mem' = mem /\ k \notin fresh'[c])
           /\ fresh' \in [Contexts -> SUBSET AllKeys]
           /\ \A d \in Contexts \ {c} : fresh'[d] = fresh[d] \ {k}
           /\ fresh'[c] \subseteq fresh[c]
  <2>1. /\ mem' \in [Contexts -> [AllKeys -> Record]]
        /\ \A d \in Contexts \ {c} : mem'[d] = mem[d]
        /\ \A j \in AllKeys \ {k} : mem'[c][j] = mem[c][j]
        /\ mem'[c][k] \in {mem[c][k], r}
    BY <1>1, <1>3, <1>6 DEF Held
  <2>2. \A j \in AllKeys : Follows(journal[j], journal'[j])
    BY <1>2, <1>6, FollowsItself
  <2>3. \A j \in AllKeys : mem'[c][j] \in {mem[c][j], journal'[j]}
    BY <1>2, <1>6, <2>1
  <2>4. \A d \in Contexts : fresh'[d] \subseteq AllKeys
    BY <1>6
  <2>5. \A d \in Contexts : \A j \in fresh'[d] : mem'[d][j] = journal'[j]
    <3>1. SUFFICES ASSUME NEW d \in Contexts, NEW j \in fresh'[d]
                   PROVE  mem'[d][j] = journal'[j]
      OBVIOUS
    <3>2. j \in AllKeys /\ j \in fresh[d]
      BY <1>6, <2>4
    <3>3. CASE j # k
      BY <1>1, <1>2, <1>6, <2>1, <3>2, <3>3 DEF Held
    <3>4. CASE j = k
      BY <1>2, <1>3, <1>6, <3>1, <3>4
    <3>5. QED BY <3>3, <3>4
  <2>6. Memory'
    <3>1. ASSUME NEW d \in Contexts, NEW j \in fresh'[d]
          PROVE  journal'[j].state # "missing"
      BY <1>1, <1>2, <1>6, <2>4 DEF Held, Memory
    <3>2. ASSUME NEW d \in Contexts, NEW j \in AllKeys
          PROVE  Formed(mem'[d][j]) /\ Follows(mem'[d][j], journal'[j])
      <4>1. mem'[d][j] = mem[d][j] \/ (mem'[d][j] = r /\ journal'[j] = r)
        BY <1>2, <1>6, <2>1
      <4>2. Formed(mem[d][j]) /\ Follows(mem[d][j], journal[j])
        BY <1>1 DEF Held, Memory
      <4>3. Follows(mem[d][j], journal'[j])
        BY <2>2, <4>2, FollowsOn
      <4>4. QED BY <4>1, <4>2, <4>3, FollowsItself
    <3>3. QED BY <3>1, <3>2 DEF Memory
  <2>7. Held(c)'
    BY <1>1, <1>2, <1>6, <2>1, <2>5, <2>6 DEF Held
  <2>8. \A d \in Contexts \ {c} : \A j \in fresh'[d] : j \in fresh[d] /\ journal'[j] = journal[j]
    BY <1>2, <1>6, <2>4
  <2>9. MemStep(c)
    BY <2>1, <2>2, <2>3, <2>7, <2>8 DEF MemStep
  <2>10. \/ /\ Goes(c, won) /\ k \in fresh[c] /\ k \in fresh'[c]
            /\ journal'[k] = r /\ mem'[c][k] = r
         \/ Goes(c, lost) /\ mem' = mem /\ fresh'[c] \subseteq fresh[c]
    BY <1>2, <1>3, <1>4, <1>6
  <2>11. QED BY <1>2, <1>4, <1>6, <2>9, <2>10 DEF Writes, Fault
<1>7. QED BY <1>1, <1>4, <1>5, <1>6 DEF Held

LEMMA InsertKeeps ==
    ASSUME JInv, NEW c \in Contexts, NEW k \in AllKeys, NEW r \in Record,
           NEW held \in Job, NEW lost \in Job,
           Insert(c, k, r, held, lost),
           Formed(r), r.state # "missing"
    PROVE  /\ MemStep(c)
           /\ Writes(c, k, r)
           /\ journal' # journal => journal[k] = Missing /\ journal'[k] = r
           /\ \/ /\ Goes(c, held) /\ k \in fresh'[c] /\ journal'[k].state # "missing"
                 /\ mem'[c][k] = journal'[k]
              \/ Goes(c, lost) /\ UNCHANGED <<mem, fresh>>
           /\ faults' \in {faults, faults + 1} /\ (faults' # faults => Fault)
<1>1. Held(c)
  BY HeldHolds
<1> DEFINE after == IF journal[k] = Missing THEN [journal EXCEPT ![k] = r] ELSE journal
           known == [mem EXCEPT ![c][k] = after[k]]
           more == [fresh EXCEPT ![c] = @ \cup {k}]
<1>2. /\ after \in [AllKeys -> Record]
      /\ \A j \in AllKeys \ {k} : after[j] = journal[j]
      /\ after[k] = IF journal[k] = Missing THEN r ELSE journal[k]
      /\ journal[k] # Missing => after = journal
  BY <1>1 DEF Held
<1>3. Formed(after[k]) /\ after[k].state # "missing" /\ Follows(journal[k], after[k])
  BY <1>1, <1>2, MissingIs, FollowsItself DEF Held
<1>4. \/ /\ journal' = after /\ mem' = known /\ fresh' = more
         /\ Goes(c, held) /\ UNCHANGED faults
      \/ Fault /\ journal' \in {journal, after} /\ Goes(c, lost) /\ UNCHANGED <<mem, fresh>>
  BY DEF Insert, memory
<1> HIDE DEF after
<1>5. /\ known \in [Contexts -> [AllKeys -> Record]] /\ known[c][k] = after[k]
      /\ \A d \in Contexts \ {c} : known[d] = mem[d]
      /\ \A j \in AllKeys \ {k} : known[c][j] = mem[c][j]
  BY <1>1, <1>2 DEF Held
<1>6. /\ more \in [Contexts -> SUBSET AllKeys] /\ more[c] = fresh[c] \cup {k}
      /\ \A d \in Contexts \ {c} : more[d] = fresh[d]
  BY <1>1 DEF Held
<1> HIDE DEF known, more
<1>7. CASE UNCHANGED <<journal, mem, fresh>>
  <2>1. MemStep(c)
    BY <1>7, StillKeeps
  <2>2. \/ /\ Goes(c, held) /\ k \in fresh'[c] /\ journal'[k].state # "missing"
           /\ mem'[c][k] = journal'[k]
        \/ Goes(c, lost) /\ UNCHANGED <<mem, fresh>>
    BY <1>3, <1>4, <1>5, <1>6
  <2>3. QED BY <1>4, <1>7, <2>1, <2>2 DEF Writes, Fault
<1>8. CASE journal' = after /\ ((mem' = known /\ fresh' = more) \/ UNCHANGED <<mem, fresh>>)
  <2>1. /\ mem' \in [Contexts -> [AllKeys -> Record]]
        /\ \A d \in Contexts \ {c} : mem'[d] = mem[d]
        /\ \A j \in AllKeys \ {k} : mem'[c][j] = mem[c][j]
        /\ mem'[c][k] \in {mem[c][k], journal'[k]}
    BY <1>1, <1>5, <1>8 DEF Held
  <2>2. /\ fresh' \in [Contexts -> SUBSET AllKeys]
        /\ \A d \in Contexts \ {c} : fresh'[d] = fresh[d]
        /\ fresh'[c] = fresh[c] \/ (fresh'[c] = fresh[c] \cup {k} /\ mem'[c][k] = journal'[k])
    BY <1>1, <1>5, <1>6, <1>8 DEF Held
  <2>3. \A j \in AllKeys : Follows(journal[j], journal'[j])
    BY <1>2, <1>3, <1>8, FollowsItself
  <2>4. \A d \in Contexts : \A j \in fresh[d] : j \in AllKeys /\ journal'[j] = journal[j] /\ mem[d][j] = journal[j]
    <3>1. \A d \in Contexts : \A j \in fresh[d] : j \in AllKeys /\ journal[j] # Missing
      BY <1>1, MissingIs DEF Held, Memory
    <3>2. QED BY <1>1, <1>2, <1>8, <3>1 DEF Held
  <2>5. \A d \in Contexts : \A j \in fresh'[d] : mem'[d][j] = journal'[j]
    <3>1. SUFFICES ASSUME NEW d \in Contexts, NEW j \in fresh'[d]
                   PROVE  mem'[d][j] = journal'[j]
      OBVIOUS
    <3>2. CASE d # c
      BY <2>1, <2>2, <2>4, <3>2
    <3>3. CASE d = c /\ j # k
      <4>1. j \in fresh[c]
        BY <2>2, <3>3
      <4>2. QED BY <2>1, <2>4, <3>3, <4>1
    <3>4. CASE d = c /\ j = k
      BY <2>1, <2>2, <2>4, <3>4
    <3>5. QED BY <3>2, <3>3, <3>4
  <2>6. Memory'
    <3>1. ASSUME NEW d \in Contexts, NEW j \in fresh'[d]
          PROVE  journal'[j].state # "missing"
      <4>1. j \in fresh[d] \/ j = k
        BY <2>2
      <4>2. QED BY <1>1, <1>3, <1>8, <2>4, <4>1 DEF Held, Memory
    <3>2. ASSUME NEW d \in Contexts, NEW j \in AllKeys
          PROVE  Formed(mem'[d][j]) /\ Follows(mem'[d][j], journal'[j])
      <4>1. mem'[d][j] = mem[d][j] \/ (mem'[d][j] = journal'[j] /\ j = k)
        BY <2>1
      <4>2. Formed(mem[d][j]) /\ Follows(mem[d][j], journal[j])
        BY <1>1 DEF Held, Memory
      <4>3. Follows(mem[d][j], journal'[j])
        BY <2>3, <4>2, FollowsOn
      <4>4. QED BY <1>3, <1>8, <4>1, <4>2, <4>3, FollowsItself
    <3>3. QED BY <3>1, <3>2 DEF Memory
  <2>7. Held(c)'
    <3>1. \A j \in AllKeys : Formed(journal'[j])
      BY <1>1, <1>2, <1>3, <1>8 DEF Held
    <3>2. QED BY <1>2, <1>8, <2>1, <2>2, <2>5, <2>6, <3>1 DEF Held
  <2>8. MemStep(c)
    BY <2>1, <2>2, <2>3, <2>4, <2>7 DEF MemStep
  <2>9. \/ /\ Goes(c, held) /\ k \in fresh'[c] /\ journal'[k].state # "missing"
           /\ mem'[c][k] = journal'[k]
        \/ Goes(c, lost) /\ UNCHANGED <<mem, fresh>>
    BY <1>3, <1>4, <1>5, <1>6, <1>8
  <2>10. QED BY <1>2, <1>4, <1>8, <2>8, <2>9 DEF Writes, Fault
<1>9. QED BY <1>4, <1>7, <1>8

LEMMA FaultBounded ==
    ASSUME TypeOK, faults' = faults \/ Fault
    PROVE  faults' \in 0 .. MaxFaults
<1>1. faults \in 0 .. MaxFaults /\ MaxFaults \in Nat
  BY JournalAssumption DEF TypeOK
<1>2. QED BY <1>1 DEF Fault

-----------------------------------------------------------------------------
(* What a step of one context must show, conjunct by conjunct. *)

Others(c) ==
    \A d \in Contexts \ {c} :
        /\ job'[d] = job[d] /\ calls'[d] = calls[d]
        /\ inbox'[d] = inbox[d] /\ started'[d] = started[d]

(* The world only grows: verdicts, sold transactions and sheets that sold. *)
Grows ==
    /\ \A t \in Txns : ledger[t] = "granted" => ledger'[t] = "granted"
    /\ \A t \in Txns : shop[t] # "none" => shop'[t] # "none"
    /\ \A k \in Keys : sheet[k] \in Txns => sheet'[k] = sheet[k]

LEMMA JobStays ==
    ASSUME JInv, NEW d \in Contexts, Grows,
           job'[d] = job[d], calls'[d] = calls[d],
           \A k \in fresh'[d] : k \in fresh[d] /\ journal'[k] = journal[k]
    PROVE  JobSound(d)'
<1>1. JobSound(d)
  BY DEF JInv, Jobs
<1>2. \A t \in Txns : ledger[t] = "granted" => ledger'[t] = "granted"
  BY DEF Grows
<1>3. job[d].at \in {"answer", "bought"} /\ job[d].txn # NoTxn => sheet'[job[d].key] = job[d].txn
  <2>1. job[d].txn \in Txns \cup {NoTxn}
    BY DEF JInv, TypeOK, Job
  <2>2. QED BY <1>1, <2>1 DEF JobSound, Grows
<1>4. QED BY <1>1, <1>2, <1>3 DEF JobSound

LEMMA JobsKept ==
    ASSUME JInv, NEW c \in Contexts, Others(c), Grows,
           \A d \in Contexts \ {c} : \A k \in fresh'[d] : k \in fresh[d] /\ journal'[k] = journal[k],
           JobSound(c)'
    PROVE  Jobs'
  BY JobStays DEF Jobs, Others

LEMMA TokensKept ==
    ASSUME JInv,
           \A k \in AllKeys : Follows(journal[k], journal'[k]),
           \A k \in Keys : journal'[k].state = "refused" => journal[k].state = "refused",
           \A c \in Contexts, k \in Keys :
               \/ calls'[c][k] \in {calls[c][k], "none"}
               \/ calls[c][k] # "none" /\ calls'[c][k] \notin Unshown
               \/ calls[c][k] \in Unshown,
           UNCHANGED opened,
           \A k \in Keys : sheet[k] = "closed" => sheet'[k] = "closed"
    PROVE  Tokens'
<1>1. SUFFICES ASSUME NEW k \in Keys
               PROVE  /\ opened[k] \in {0, 1}
                      /\ journal'[k].state \in {"missing", "refused"} => opened[k] = 0
                      /\ opened[k] = 0 => sheet'[k] = "closed"
                      /\ \A c \in Contexts :
                          /\ calls'[c][k] # "none" => journal'[k].state # "missing"
                          /\ calls'[c][k] \in Unshown =>
                               /\ opened[k] = 0 /\ journal'[k].state # "refused"
                               /\ \A d \in Contexts \ {c} : calls'[d][k] \notin Unshown
  BY DEF Tokens
<1>2. k \in AllKeys
  BY DEF AllKeys
<1>3. journal'[k].state = "missing" => journal[k].state = "missing"
  BY <1>2 DEF Follows
<1>4. \A c \in Contexts : /\ calls'[c][k] # "none" => calls[c][k] # "none"
                          /\ calls'[c][k] \in Unshown => calls[c][k] \in Unshown
  BY DEF Unshown
<1>5. QED BY <1>3, <1>4 DEF JInv, Tokens

LEMMA GrantsKept ==
    ASSUME JInv, TypeOK', Grows,
           \A k \in AllKeys : Follows(journal[k], journal'[k]),
           \A k \in AllKeys : journal'[k].state \in Granted =>
               journal[k].state \in Granted \/ ledger'[journal'[k].txn] = "granted",
           \A t \in Txns : shop'[t] = "finished" => shop[t] = "finished" \/ ledger'[t] = "granted"
    PROVE  FinishedIsGranted'
<1>1. ASSUME NEW k \in AllKeys, journal[k].state \in Granted
      PROVE  ledger'[journal'[k].txn] = "granted"
  <2>1. journal[k] \in Record /\ journal[k].txn # NoTxn
    BY <1>1 DEF JInv, TypeOK, Granted
  <2>2. journal[k].txn \in Txns
    BY <2>1 DEF Record
  <2>3. journal'[k].txn = journal[k].txn
    BY <2>1 DEF Follows
  <2>4. QED BY <1>1, <2>2, <2>3 DEF JInv, FinishedIsGranted, Grows
<1>2. QED BY <1>1 DEF JInv, FinishedIsGranted, Grows

LEMMA SoldKept ==
    ASSUME JInv, TypeOK', NEW c \in Contexts, Others(c), Grows,
           \A k \in AllKeys :
               \/ journal'[k].txn \in {journal[k].txn, NoTxn}
               \/ shop'[journal'[k].txn] # "none",
           \A e \in inbox'[c] \cup job'[c].queue :
               e \in inbox[c] \cup job[c].queue \/ e = Cancelled \/ shop'[e.txn] # "none",
           job'[c].txn \in {job[c].txn, NoTxn} \/ shop'[job'[c].txn] # "none",
           \A k \in Keys : sheet'[k] \in Txns => sheet[k] = sheet'[k]
    PROVE  Sold'
<1>1. TypeOK /\ Sold
  BY DEF JInv
<1>2. \A t \in Txns : shop[t] # "none" => shop'[t] # "none"
  BY DEF Grows
<1>3. \A e \in Event : e # Cancelled => e.txn \in Txns
  BY DEF Event
<1>4. ASSUME NEW k \in AllKeys, journal'[k].txn # NoTxn
      PROVE  shop'[journal'[k].txn] # "none"
  <2>1. journal[k].txn \in Txns \cup {NoTxn}
    BY <1>1 DEF TypeOK, Record
  <2>2. QED BY <1>1, <1>2, <1>4, <2>1 DEF Sold
<1>5. ASSUME NEW d \in Contexts, NEW e \in inbox'[d] \cup job'[d].queue, e # Cancelled
      PROVE  shop'[e.txn] # "none"
  <2>1. \A x \in inbox[d] \cup job[d].queue : x \in Event
    BY <1>1 DEF TypeOK, Job
  <2>2. e \in inbox[d] \cup job[d].queue \/ shop'[e.txn] # "none"
    BY <1>5 DEF Others
  <2>3. CASE e \in inbox[d] \cup job[d].queue
    BY <1>1, <1>2, <1>3, <1>5, <2>1, <2>3 DEF Sold
  <2>4. QED BY <2>2, <2>3
<1>6. ASSUME NEW d \in Contexts, job'[d].txn # NoTxn
      PROVE  shop'[job'[d].txn] # "none"
  <2>1. job[d].txn \in Txns \cup {NoTxn}
    BY <1>1 DEF TypeOK, Job
  <2>2. job'[d].txn = job[d].txn \/ shop'[job'[d].txn] # "none"
    BY <1>6 DEF Others
  <2>3. QED BY <1>1, <1>2, <1>6, <2>1, <2>2 DEF Sold
<1>7. \A k \in Keys : sheet'[k] \in Txns =>
        /\ shop'[sheet'[k]] # "none"
        /\ \A l \in Keys \ {k} : sheet'[l] # sheet'[k]
  BY <1>1, <1>2 DEF Sold
<1>8. QED BY <1>4, <1>5, <1>6, <1>7 DEF Sold

LEMMA RememberedKept ==
    ASSUME JInv, ~overlapped, NEW c \in Contexts, MemStep(c),
           NEW k, NEW r, Writes(c, k, r),
           \A t \in Txns : Answering(c, t)' \subseteq Answering(c, t),
           \/ job[c].at \notin Passing \/ job'[c].at \in Passing
           \/ \A j \in AllKeys : IsOpen(journal[j]) => mem'[c][j] = journal[j],
           \/ journal'[k].txn \in {journal[k].txn, NoTxn, mem'[c][k].txn}
           \/ Answering(c, journal[k].txn)' \subseteq {k}
           \/ job'[c].at \in Passing /\ IsOpen(journal'[k])
    PROVE  Remembered(c)'
<1>1. SUFFICES ASSUME NEW t \in Txns, NEW j \in AllKeys, journal'[j].txn = t, mem'[c][j].txn # t
               PROVE  \/ Answering(c, t)' \subseteq {j}
                      \/ job'[c].at \in Passing /\ IsOpen(journal'[j])
  BY DEF Remembered
<1>2. t # NoTxn
  BY JournalAssumption
<1>3. CASE journal[j].txn = t
  <2>1. mem'[c][j] = mem[c][j]
    BY <1>1 DEF MemStep
  <2>2. j \notin fresh[c] /\ journal[j] # Missing
    <3>1. \A i \in fresh[c] : mem[c][i] = journal[i]
      BY DEF JInv, TypeOK
    <3>2. QED BY <1>1, <1>2, <1>3, <2>1, <3>1, MissingIs
  <2>3. journal'[j] = journal[j]
    BY <2>2 DEF Writes
  <2>4. Remembered(c)
    BY DEF JInv, Alone
  <2>5. \/ Answering(c, t) \subseteq {j}
        \/ job[c].at \in Passing /\ IsOpen(journal[j])
    BY <1>1, <1>3, <2>1, <2>4 DEF Remembered
  <2>6. CASE Answering(c, t) \subseteq {j}
    BY <2>6
  <2>7. CASE job[c].at \in Passing /\ IsOpen(journal[j])
    BY <1>1, <1>3, <2>3, <2>7
  <2>8. QED BY <2>5, <2>6, <2>7
<1>4. CASE journal[j].txn # t
  <2>1. j = k
    BY <1>1, <1>4 DEF Writes
  <2>2. QED BY <1>1, <1>2, <1>4, <2>1
<1>5. QED BY <1>3, <1>4

(* A context that works on a pass or an attempt is in use. *)
LEMMA Working ==
    ASSUME JInv, NEW c \in Contexts, job[c].at \notin {"idle", "answer", "bought"}
    PROVE  InUse(c)
  BY DEF JInv, Running, Free, InUse

(* What a call writes that outlived the stop of its context.               *)
Aside(k) ==
    /\ journal[k].txn = NoTxn
    /\ journal'[k].txn # NoTxn => k \in detached /\ sheet[k] = journal'[k].txn

LEMMA AloneKept ==
    ASSUME JInv, ~overlapped, NEW c \in Contexts, Others(c),
           \A j \in AllKeys : Follows(journal[j], journal'[j]),
           \A d \in Contexts \ {c} : mem'[d] = mem[d],
           detached \subseteq detached',
           \A l \in Keys : sheet'[l] \in Txns => sheet[l] = sheet'[l],
           InUse(c)' => InUse(c) \/ UsedAlone(c),
           NEW k, NEW r, Writes(c, k, r),
           journal' # journal => InUse(c) \/ Aside(k),
           k \notin detached /\ journal'[k].txn \notin {NoTxn, journal[k].txn} =>
               Holding(journal, journal'[k].txn) \subseteq detached,
           \A t \in Txns, j \in AllKeys : <<t, j>> \in sent' => <<t, j>> \in sent \/ journal'[j].txn = t,
           job'[c].at = "reserve" => Holding(journal', job'[c].txn) \subseteq detached,
           Remembered(c)'
    PROVE  Alone'
<1>1. Alone
  BY DEF JInv
<1>2. ASSUME NEW d \in Contexts \ {c}, InUse(d)'
      PROVE  InUse(d)
  BY <1>2 DEF InUse, Others
<1>3. \A d, e \in Contexts : InUse(d)' /\ InUse(e)' => d = e
  BY <1>1, <1>2 DEF Alone, UsedAlone
<1>4. ASSUME NEW i \in AllKeys \ detached, NEW j \in AllKeys \ detached,
             journal'[i].txn # NoTxn, journal'[i].txn = journal'[j].txn, i # j
      PROVE  FALSE
  <2>1. CASE journal'[i].txn = journal[i].txn /\ journal'[j].txn = journal[j].txn
    BY <1>1, <1>4, <2>1 DEF Alone
  <2>2. CASE journal'[i].txn # journal[i].txn
    <3>1. i = k /\ journal'[j] = journal[j]
      BY <1>4, <2>2 DEF Writes
    <3>2. j \in Holding(journal, journal'[k].txn)
      BY <1>4, <3>1 DEF Holding
    <3>3. QED BY <1>4, <2>2, <3>1, <3>2
  <2>3. CASE journal'[j].txn # journal[j].txn
    <3>1. j = k /\ journal'[i] = journal[i]
      BY <1>4, <2>3 DEF Writes
    <3>2. i \in Holding(journal, journal'[k].txn)
      BY <1>4, <3>1 DEF Holding
    <3>3. QED BY <1>4, <2>3, <3>1, <3>2
  <2>4. QED BY <2>1, <2>2, <2>3
<1>5. \A t \in Txns, j \in AllKeys : <<t, j>> \in sent' => journal'[j].txn = t
  <2>1. SUFFICES ASSUME NEW t \in Txns, NEW j \in AllKeys, <<t, j>> \in sent, journal[j].txn = t
                 PROVE  journal'[j].txn = t
    BY <1>1 DEF Alone
  <2>2. QED BY <2>1, JournalAssumption DEF Follows
<1>6. ASSUME NEW d \in Contexts \ {c}, job'[d].at = "reserve"
      PROVE  Holding(journal', job'[d].txn) \subseteq detached
  <2>1. job'[d] = job[d] /\ job[d].at = "reserve"
    BY <1>6 DEF Others
  <2>2. ~InUse(c)
    BY <1>1, <2>1, Working DEF Alone
  <2>3. Holding(journal, job[d].txn) \subseteq detached /\ job[d].txn # NoTxn
    BY <1>1, <2>1, JournalAssumption DEF Alone, JInv, Jobs, JobSound
  <2>4. ASSUME NEW j \in AllKeys \ detached, journal'[j].txn = job[d].txn
        PROVE  FALSE
    <3>1. CASE journal'[j] = journal[j]
      BY <2>3, <2>4, <3>1 DEF Holding
    <3>2. CASE journal'[j] # journal[j]
      BY <2>2, <2>3, <2>4, <3>2 DEF Writes, Aside
    <3>3. QED BY <3>1, <3>2
  <2>5. QED BY <2>1, <2>4 DEF Holding
<1>7. ASSUME NEW d \in Contexts \ {c}
      PROVE  Remembered(d)'
  <2>1. \A t \in Txns : Answering(d, t)' \subseteq Answering(d, t)
    BY DEF Answering, Others
  <2>2. CASE ~InUse(d)'
    <3>1. \A t \in Txns : Answering(d, t)' = {}
      BY <2>2 DEF Answering, InUse, Showing
    <3>2. QED BY <3>1 DEF Remembered
  <2>3. CASE InUse(d)'
    <3>1. ~InUse(c)
      BY <1>1, <1>2, <2>3 DEF Alone
    <3>2. SUFFICES ASSUME NEW t \in Txns, NEW j \in AllKeys, journal'[j].txn = t, mem[d][j].txn # t
                   PROVE  \/ Answering(d, t)' \subseteq {j}
                          \/ job[d].at \in Passing /\ IsOpen(journal'[j])
      BY DEF Remembered, Others
    <3>3. CASE journal'[j] = journal[j]
      BY <1>1, <2>1, <3>2, <3>3 DEF Alone, Remembered
    <3>4. CASE journal'[j] # journal[j]
      <4>1. j = k /\ Aside(k)
        BY <3>1, <3>4 DEF Writes
      <4>2. k \in Keys /\ sheet[k] = t
        BY <3>2, <4>1, JournalAssumption DEF Aside, JInv, TypeOK
      <4>3. \A l \in Keys \ {k} : sheet[l] # t
        BY <4>2 DEF JInv, Sold
      <4>4. Answering(d, t) \subseteq {k}
        BY <4>3 DEF Answering
      <4>5. QED BY <2>1, <4>1, <4>4
    <3>5. QED BY <3>3, <3>4
  <2>4. QED BY <2>2, <2>3
<1>8. QED BY <1>3, <1>4, <1>5, <1>6, <1>7 DEF Alone

(* A step that writes no record. *)
LEMMA StillWrites ==
    ASSUME NEW c, UNCHANGED journal
    PROVE  Writes(c, NoKey, Missing)
  BY DEF Writes

LEMMA EventsAre ==
    /\ \A e \in Event : e = Cancelled \/ (e.txn \in Txns /\ e.as \in Bought)
    /\ Cancelled \in Event
    /\ TypeOK => Available \subseteq Event /\ \A e \in Available : shop[e.txn] # "none"
  BY DEF Event, Bought, Available, TypeOK

-----------------------------------------------------------------------------
(* The store and the player. *)

LEMMA BuysKeeps ==
    ASSUME JInv, NEW k \in Keys, NEW t \in Txns, Buys(k, t)
    PROVE  Moves
<1>1. UNCHANGED <<journal, mem, fresh, started, inbox, scan, again, job, calls, late, ledger,
                  opened, detached, sent, overlapped, faults>>
  BY DEF Buys, client, memory
<1>2. TypeOK /\ sheet[k] = "open" /\ shop[t] = "none" /\ sheet' = [sheet EXCEPT ![k] = t]
  BY DEF Buys, JInv
<1>3. PICK as \in Bought : shop' = [shop EXCEPT ![t] = as]
  BY DEF Buys, Bought
<1>4. /\ sheet' \in [Keys -> {"closed", "open"} \cup Txns]
      /\ \A l \in Keys : sheet'[l] = IF l = k THEN t ELSE sheet[l]
  BY <1>2 DEF TypeOK
<1>5. /\ shop' \in [Txns -> {"none", "pending", "purchased", "finished"}]
      /\ \A u \in Txns : shop'[u] = IF u = t THEN as ELSE shop[u]
  BY <1>2, <1>3 DEF TypeOK, Bought
<1>6. TypeOK'
  BY <1>1, <1>2, <1>4, <1>5 DEF TypeOK
<1>7. Memory'
  BY <1>1 DEF JInv, Memory
<1>8. Grows
  BY <1>1, <1>2, <1>3, <1>4, <1>5, JournalAssumption DEF Grows, Bought
<1>9. Jobs' /\ Running'
  BY <1>1, <1>8, JobStays DEF JInv, Jobs, Running
<1>10. Tokens'
  BY <1>1, <1>2, <1>4 DEF JInv, Tokens
<1>11. Sold'
  <2>1. /\ \A l \in AllKeys : journal[l].txn \in Txns \cup {NoTxn}
        /\ \A c \in Contexts : job[c].txn \in Txns \cup {NoTxn}
        /\ \A c \in Contexts : \A e \in inbox[c] \cup job[c].queue : e \in Event
    BY <1>2 DEF TypeOK, Record, Job
  <2>2. \A u \in Txns : shop[u] # "none" => shop'[u] # "none" /\ u # t
    BY <1>2, <1>5 DEF Bought
  <2>3. shop'[t] # "none"
    BY <1>5 DEF Bought
  <2>4. /\ \A l \in AllKeys : journal[l].txn # NoTxn => shop'[journal[l].txn] # "none"
        /\ \A c \in Contexts :
            /\ \A e \in inbox[c] \cup job[c].queue : e # Cancelled => shop'[e.txn] # "none"
            /\ job[c].txn # NoTxn => shop'[job[c].txn] # "none"
    BY <2>1, <2>2, EventsAre DEF JInv, Sold
  <2>5. \A l \in Keys : sheet'[l] \in Txns =>
            shop'[sheet'[l]] # "none" /\ \A m \in Keys \ {l} : sheet'[m] # sheet'[l]
    BY <1>4, <2>2, <2>3 DEF JInv, Sold
  <2>6. QED BY <1>1, <2>4, <2>5 DEF Sold
<1>12. FinishedIsGranted'
  BY <1>1, <1>5 DEF JInv, FinishedIsGranted, Bought
<1>13. ~overlapped => Alone'
  <2>1. SUFFICES ASSUME Alone PROVE Alone'
    BY DEF JInv
  <2>2. \A l \in AllKeys : journal[l].txn # t
    BY <1>2, JournalAssumption DEF JInv, Sold
  <2>3. \A c \in Contexts : Remembered(c)'
    <3>1. SUFFICES ASSUME NEW c \in Contexts, NEW u \in Txns \ {t}
                   PROVE  Answering(c, u)' \subseteq Answering(c, u)
      BY <1>1, <2>1, <2>2 DEF Remembered, Alone
    <3>2. QED BY <1>1, <1>4 DEF Answering
  <2>4. QED BY <1>1, <2>1, <2>3 DEF Alone, InUse, Holding
<1>14. QED
  BY <1>1, <1>6, <1>7, <1>9, <1>10, <1>11, <1>12, <1>13, FollowsItself DEF JInv, Moves

LEMMA ApprovesKeeps ==
    ASSUME JInv, NEW t \in Txns, Approves(t)
    PROVE  Moves
<1>1. UNCHANGED <<journal, mem, fresh, started, inbox, scan, again, job, calls, late, sheet, ledger,
                  opened, detached, sent, overlapped, faults>>
  BY DEF Approves, client, memory
<1>2. TypeOK /\ shop[t] = "pending" /\ shop' = [shop EXCEPT ![t] = "purchased"]
  BY DEF Approves, JInv
<1>3. /\ shop' \in [Txns -> {"none", "pending", "purchased", "finished"}]
      /\ \A u \in Txns : shop'[u] = IF u = t THEN "purchased" ELSE shop[u]
  BY <1>2 DEF TypeOK
<1>4. TypeOK'
  BY <1>1, <1>2, <1>3 DEF TypeOK
<1>5. Grows
  BY <1>1, <1>3 DEF Grows
<1>6. Memory' /\ Tokens'
  BY <1>1 DEF JInv, Memory, Tokens
<1>7. Jobs' /\ Running'
  BY <1>1, <1>5, JobStays DEF JInv, Jobs, Running
<1>8. Sold'
  <2>1. /\ \A l \in AllKeys : journal[l].txn \in Txns \cup {NoTxn}
        /\ \A c \in Contexts : job[c].txn \in Txns \cup {NoTxn}
        /\ \A c \in Contexts : \A e \in inbox[c] \cup job[c].queue : e \in Event
    BY <1>2 DEF TypeOK, Record, Job
  <2>2. \A u \in Txns : shop[u] # "none" => shop'[u] # "none"
    BY <1>3
  <2>3. QED BY <1>1, <2>1, <2>2, EventsAre DEF JInv, Sold
<1>9. FinishedIsGranted'
  BY <1>1, <1>3 DEF JInv, FinishedIsGranted
<1>10. ~overlapped => Alone'
  BY <1>1 DEF JInv, Alone, InUse, Holding, Remembered, Answering
<1>11. QED
  BY <1>1, <1>4, <1>6, <1>7, <1>8, <1>9, <1>10, FollowsItself DEF JInv, Moves

-----------------------------------------------------------------------------
(* A context is started and stopped, and its process ends. *)

LEMMA StepKeeps ==
    ASSUME JInv, NEW c \in Contexts, TypeOK', MemStep(c), Others(c), Grows, JobSound(c)',
           job'[c].at \notin Free => started'[c],
           Tokens', Sold', FinishedIsGranted', ~overlapped' => Alone'
    PROVE  Moves
<1>1. Jobs'
  BY JobsKept DEF MemStep
<1>2. Running'
  BY DEF JInv, Running, Others
<1>3. QED BY <1>1, <1>2 DEF JInv, MemStep, Held, Moves

(* The memory a context reads before its first pass or attempt: it may now *)
(* be in use, and none of its calls is answered.                           *)
LEMMA ReadsKeeps ==
    ASSUME JInv, NEW c \in Contexts, MemStep(c), Uses(c),
           UNCHANGED <<journal, inbox, again, calls, late, sheet, shop, ledger, opened, detached,
                       faults>>,
           started' \in [Contexts -> BOOLEAN], scan' \in [Contexts -> BOOLEAN],
           \A d \in Contexts \ {c} : started'[d] = started[d],
           job[c].at = "idle",
           NEW next \in Job, Goes(c, next), next.at \in Free,
           next.txn \in {job[c].txn, NoTxn}, next.queue \subseteq job[c].queue,
           JobSound(c)'
    PROVE  Moves
<1>1. TypeOK /\ Held(c)'
  BY DEF JInv, MemStep
<1>2. overlapped' = (overlapped \/ ~UsedAlone(c)) /\ sent' = IF overlapped' THEN {} ELSE sent
  BY DEF Uses
<1>3. job' \in [Contexts -> Job] /\ job'[c] = next /\ \A d \in Contexts \ {c} : job'[d] = job[d]
  BY <1>1, GoesTo
<1>4. TypeOK'
  BY <1>1, <1>2, <1>3 DEF TypeOK, Held, Formed, Unbought
<1>5. Others(c) /\ Grows
  BY <1>3 DEF Others, Grows
<1>6. Tokens' /\ FinishedIsGranted'
  BY DEF JInv, Tokens, FinishedIsGranted
<1>7. Sold'
  BY <1>3, <1>4, <1>5, SoldKept
<1>8. ~overlapped' => Alone'
  <2>1. SUFFICES ASSUME ~overlapped, UsedAlone(c), sent' = sent
                 PROVE  Alone'
    BY <1>2
  <2>2. Writes(c, NoKey, Missing)
    BY StillWrites
  <2>3. Remembered(c)'
    BY <2>1, <2>2, RememberedKept DEF Answering, Passing
  <2>4. job'[c].at # "reserve"
    BY <1>3 DEF Free
  <2>5. QED BY <1>5, <2>1, <2>2, <2>3, <2>4, AloneKept DEF MemStep
<1>9. QED
  BY <1>3, <1>4, <1>5, <1>6, <1>7, <1>8, StepKeeps

LEMMA LoadedIs ==
    \A k \in Loaded : k \in AllKeys /\ journal[k].state # "missing"
  BY DEF Loaded, Opened, IsOpen, Granted

LEMMA OpensKeeps ==
    ASSUME JInv, NEW c \in Contexts, Opens(c)
    PROVE  Moves
<1>1. /\ TypeOK /\ job[c].at = "idle" /\ Uses(c) /\ Remember(c, Loaded)
      /\ started' = [started EXCEPT ![c] = TRUE] /\ scan' = [scan EXCEPT ![c] = TRUE]
      /\ UNCHANGED <<journal, inbox, again, job, calls, late, sheet, shop, ledger, opened, detached,
                     faults>>
  BY DEF JInv, Opens
<1>2. MemStep(c)
  <2>1. Loaded \in SUBSET AllKeys
    BY LoadedIs
  <2>2. QED BY <1>1, <2>1, LoadedIs, RememberKeeps
<1>3. /\ started' \in [Contexts -> BOOLEAN] /\ scan' \in [Contexts -> BOOLEAN]
      /\ \A d \in Contexts \ {c} : started'[d] = started[d]
  BY <1>1 DEF TypeOK
<1>4. job[c] \in Job /\ Goes(c, job[c])
  BY <1>1 DEF TypeOK, Goes
<1>5. JobSound(c)'
  BY <1>1 DEF JobSound
<1>6. QED
  BY <1>1, <1>2, <1>3, <1>4, <1>5, ReadsKeeps DEF Free

(* A context whose memory is gone, and whose calls that still run are      *)
(* detached.                                                               *)
LEMMA ForgetsKeeps ==
    ASSUME JInv, NEW c \in Contexts, Forgets(c), faults' = faults \/ Fault,
           UNCHANGED <<journal, sheet, shop, ledger, opened, sent, overlapped>>,
           scan' \in [Contexts -> BOOLEAN], again' \in [Contexts -> SUBSET Txns],
           calls' \in [Contexts -> [Keys -> Call]], late' \in [Contexts -> SUBSET Keys],
           \A d \in Contexts \ {c} : calls'[d] = calls[d],
           \A k \in Keys : calls'[c][k] \in {calls[c][k], "none"},
           detached \subseteq detached', detached' \subseteq Keys,
           \A k \in Keys \ detached' : calls'[c][k] = "none"
    PROVE  Moves
<1>1. /\ TypeOK
      /\ mem' = [mem EXCEPT ![c] = [k \in AllKeys |-> Missing]]
      /\ fresh' = [fresh EXCEPT ![c] = {}]
      /\ started' = [started EXCEPT ![c] = FALSE]
      /\ inbox' = [inbox EXCEPT ![c] = {}]
      /\ Goes(c, Blank)
  BY DEF JInv, Forgets
<1>2. /\ mem' \in [Contexts -> [AllKeys -> Record]]
      /\ \A k \in AllKeys : mem'[c][k] = Missing
      /\ \A d \in Contexts \ {c} : mem'[d] = mem[d]
  BY <1>1, MissingIs DEF TypeOK
<1>3. /\ fresh' \in [Contexts -> SUBSET AllKeys] /\ fresh'[c] = {}
      /\ \A d \in Contexts \ {c} : fresh'[d] = fresh[d]
  BY <1>1 DEF TypeOK
<1>4. /\ started' \in [Contexts -> BOOLEAN] /\ ~started'[c]
      /\ \A d \in Contexts \ {c} : started'[d] = started[d]
  BY <1>1 DEF TypeOK
<1>5. /\ inbox' \in [Contexts -> SUBSET Event] /\ inbox'[c] = {}
      /\ \A d \in Contexts \ {c} : inbox'[d] = inbox[d]
  BY <1>1 DEF TypeOK
<1>6. job' \in [Contexts -> Job] /\ job'[c] = Blank /\ \A d \in Contexts \ {c} : job'[d] = job[d]
  BY <1>1, BlankIs, GoesTo
<1>7. TypeOK'
  <2>1. faults' \in 0 .. MaxFaults
    BY <1>1, FaultBounded
  <2>2. \A d \in Contexts : \A k \in fresh'[d] : mem'[d][k] = journal[k]
    BY <1>1, <1>2, <1>3 DEF TypeOK
  <2>3. QED BY <1>1, <1>2, <1>3, <1>4, <1>5, <1>6, <2>1, <2>2 DEF TypeOK
<1>8. Memory'
  <2>1. \A k \in AllKeys : Formed(journal[k]) /\ journal[k] \in Record
    BY HeldHolds DEF Held
  <2>2. \A d \in Contexts : \A k \in fresh'[d] : journal[k].state # "missing"
    BY <1>3 DEF JInv, Memory
  <2>3. \A d \in Contexts, k \in AllKeys : Formed(mem'[d][k]) /\ Follows(mem'[d][k], journal[k])
    <3>1. SUFFICES ASSUME NEW d \in Contexts, NEW k \in AllKeys
                   PROVE  Formed(mem'[d][k]) /\ Follows(mem'[d][k], journal[k])
      OBVIOUS
    <3>2. CASE d = c
      BY <1>2, <2>1, <3>2, MissingIs
    <3>3. CASE d # c
      BY <1>2, <3>3 DEF JInv, Memory
    <3>4. QED BY <3>2, <3>3
  <2>4. QED BY <2>2, <2>3 DEF Memory
<1>9. Others(c) /\ Grows
  BY <1>4, <1>5, <1>6 DEF Others, Grows
<1>10. Jobs' /\ Running'
  <2>1. JobSound(c)'
    BY <1>6, BlankIs DEF JobSound
  <2>2. Jobs'
    BY <1>3, <1>9, <2>1, JobsKept
  <2>3. Running'
    BY <1>6, <1>9, BlankIs DEF JInv, Running, Others
  <2>4. QED BY <2>2, <2>3
<1>11. Tokens'
  <2>1. \A d \in Contexts, k \in Keys : calls'[d][k] \in {calls[d][k], "none"}
    OBVIOUS
  <2>2. QED BY <2>1, TokensKept, FollowsItself
<1>12. Sold'
  BY <1>5, <1>6, <1>7, <1>9, BlankIs, SoldKept
<1>13. FinishedIsGranted'
  BY DEF JInv, FinishedIsGranted
<1>14. ~overlapped' => Alone'
  <2>1. SUFFICES ASSUME ~overlapped PROVE Alone'
    OBVIOUS
  <2>2. Writes(c, NoKey, Missing)
    BY StillWrites
  <2>3. ~InUse(c)'
    BY <1>4, <1>6, BlankIs DEF InUse
  <2>4. \A t \in Txns : Answering(c, t)' = {}
    BY DEF Answering, Showing
  <2>5. Remembered(c)'
    BY <2>4 DEF Remembered
  <2>6. job'[c].at # "reserve"
    BY <1>6, BlankIs
  <2>7. QED BY <1>2, <1>9, <2>1, <2>2, <2>3, <2>5, <2>6, FollowsItself, AloneKept
<1>15. QED
  BY <1>7, <1>8, <1>10, <1>11, <1>12, <1>13, <1>14, FollowsItself DEF JInv, Moves

LEMMA StopsKeeps ==
    ASSUME JInv, NEW c \in Contexts, Stops(c)
    PROVE  Moves
<1>1. TypeOK /\ Fault /\ Forgets(c) /\ detached' = detached \cup {k \in Keys : calls[c][k] # "none"}
      /\ UNCHANGED <<journal, scan, again, calls, late, sheet, shop, ledger, opened, sent,
                     overlapped>>
  BY DEF JInv, Stops
<1>2. QED BY <1>1, ForgetsKeeps DEF TypeOK

LEMMA DiesKeeps ==
    ASSUME JInv, NEW c \in Contexts, Dies(c)
    PROVE  Moves
<1>1. /\ TypeOK /\ Forgets(c)
      /\ faults' = faults \/ Fault
      /\ scan' = [scan EXCEPT ![c] = FALSE] /\ again' = [again EXCEPT ![c] = {}]
      /\ calls' = [calls EXCEPT ![c] = [k \in Keys |-> "none"]]
      /\ late' = [late EXCEPT ![c] = {}]
      /\ UNCHANGED <<journal, sheet, shop, ledger, opened, detached, sent, overlapped>>
  BY DEF JInv, Dies, world
<1>2. /\ calls' \in [Contexts -> [Keys -> Call]]
      /\ \A d \in Contexts \ {c} : calls'[d] = calls[d]
      /\ \A k \in Keys : calls'[c][k] = "none"
  BY <1>1 DEF TypeOK, Call
<1>3. /\ scan' \in [Contexts -> BOOLEAN] /\ again' \in [Contexts -> SUBSET Txns]
      /\ late' \in [Contexts -> SUBSET Keys] /\ detached' \subseteq Keys
  BY <1>1 DEF TypeOK
<1>4. QED BY <1>1, <1>2, <1>3, ForgetsKeeps

-----------------------------------------------------------------------------
(* A pass. *)

(* Most steps end no call and show no sheet. *)
LEMMA QuietTokens ==
    ASSUME JInv, NEW c \in Contexts, MemStep(c), UNCHANGED <<calls, late, opened, sheet>>,
           \A k \in Keys : journal'[k].state = "refused" => journal[k].state = "refused"
    PROVE  Tokens'
  BY TokensKept DEF MemStep

LEMMA PassStartsKeeps ==
    ASSUME JInv, NEW c \in Contexts, PassStarts(c)
    PROVE  Moves
<1>1. UNCHANGED <<journal, mem, fresh, started, again, calls, late, sheet, shop, ledger, opened,
                  detached, sent, overlapped>>
  BY DEF PassStarts, memory, world
<1>2. TypeOK /\ job[c].at = "idle" /\ started[c]
  BY DEF JInv, PassStarts
<1>3. PICK read \in BOOLEAN :
        /\ faults' = faults \/ Fault
        /\ scan' = [scan EXCEPT ![c] = @ /\ ~read]
        /\ LET queued == inbox[c] \cup IF read THEN Available ELSE {}
               busy == \E k \in Keys : InFlight(c, k)
           IN  /\ inbox' = [inbox EXCEPT ![c] = IF busy THEN queued ELSE {}]
               /\ Goes(c, [Blank EXCEPT !.at = "ingest", !.queue = IF busy THEN {} ELSE queued])
  BY DEF PassStarts
<1> DEFINE queued == inbox[c] \cup IF read THEN Available ELSE {}
           busy == \E k \in Keys : InFlight(c, k)
           next == [Blank EXCEPT !.at = "ingest", !.queue = IF busy THEN {} ELSE queued]
<1>4. queued \in SUBSET Event /\ \A e \in queued : e \in inbox[c] \/ shop[e.txn] # "none"
  BY <1>2, EventsAre DEF TypeOK
<1>5. /\ next \in Job /\ next.at = "ingest" /\ next.txn = NoTxn /\ next.queue \subseteq queued
  BY <1>4, BlankIs DEF Job
<1>6. inbox' = [inbox EXCEPT ![c] = IF busy THEN queued ELSE {}] /\ Goes(c, next)
  BY <1>3
<1> HIDE DEF queued, busy, next
<1>7. job' \in [Contexts -> Job] /\ job'[c] = next /\ \A d \in Contexts \ {c} : job'[d] = job[d]
  BY <1>2, <1>5, <1>6, GoesTo
<1>8. /\ inbox' \in [Contexts -> SUBSET Event] /\ inbox'[c] \subseteq queued
      /\ \A d \in Contexts \ {c} : inbox'[d] = inbox[d]
  BY <1>2, <1>4, <1>6 DEF TypeOK
<1>9. TypeOK'
  <2>1. faults' \in 0 .. MaxFaults
    BY <1>2, <1>3, FaultBounded
  <2>2. scan' \in [Contexts -> BOOLEAN]
    BY <1>2, <1>3 DEF TypeOK
  <2>3. QED BY <1>1, <1>2, <1>7, <1>8, <2>1, <2>2 DEF TypeOK
<1>10. Others(c) /\ Grows /\ MemStep(c)
  BY <1>1, <1>7, <1>8, StillKeeps DEF Others, Grows
<1>11. JobSound(c)'
  BY <1>5, <1>7 DEF JobSound
<1>12. Tokens' /\ FinishedIsGranted'
  BY <1>1, <1>10, QuietTokens DEF JInv, FinishedIsGranted
<1>13. Sold'
  <2>1. \A e \in inbox'[c] \cup job'[c].queue : e \in inbox[c] \/ shop'[e.txn] # "none"
    BY <1>1, <1>4, <1>5, <1>7, <1>8
  <2>2. QED BY <1>1, <1>5, <1>7, <1>9, <1>10, <2>1, SoldKept
<1>14. ~overlapped' => Alone'
  <2>1. SUFFICES ASSUME ~overlapped PROVE Alone'
    BY <1>1
  <2>2. Writes(c, NoKey, Missing) /\ Jobs'
    BY <1>1, <1>10, <1>11, StillWrites, JobsKept DEF MemStep
  <2>3. Remembered(c)'
    BY <1>1, <1>2, <1>10, <2>1, <2>2, RememberedKept DEF Answering, Passing
  <2>4. InUse(c)
    BY <1>2 DEF InUse
  <2>5. QED BY <1>1, <1>2, <1>5, <1>7, <1>10, <2>1, <2>2, <2>3, <2>4, AloneKept DEF MemStep
<1>15. QED
  BY <1>1, <1>2, <1>9, <1>10, <1>11, <1>12, <1>13, <1>14, StepKeeps

(* The end of an event's turn: the pass goes on. *)
LEMMA PassGoesOn ==
    ASSUME JInv, NEW c \in Contexts, MemStep(c),
           job[c].at \in Passing,
           UNCHANGED <<started, inbox, scan, calls, late, sheet, ledger, opened, detached, sent,
                       overlapped>>,
           faults' = faults \/ Fault,
           again' \in [Contexts -> SUBSET Txns],
           shop' \in [Txns -> {"none", "pending", "purchased", "finished"}],
           \A t \in Txns : shop'[t] = shop[t] \/ (shop'[t] = "finished" /\ ledger[t] = "granted"),
           NEW next \in Job, Goes(c, next),
           next.queue \subseteq job[c].queue,
           next.at \in Passing,
           next.txn \notin {job[c].txn, NoTxn} => shop'[next.txn] # "none",
           JobSound(c)',
           NEW k, NEW r, Writes(c, k, r),
           journal' # journal =>
               /\ k \in AllKeys /\ r.state \in Bought \cup {"cancelled"}
               /\ r.txn # NoTxn => shop[r.txn] # "none"
               /\ ~overlapped /\ r.txn \notin {NoTxn, journal[k].txn} =>
                    Holding(journal, r.txn) \subseteq detached,
           next.at = "reserve" => Holding(journal', next.txn) \subseteq detached \/ overlapped
    PROVE  Moves
<1>1. TypeOK /\ Held(c)'
  BY DEF JInv, MemStep
<1>2. job' \in [Contexts -> Job] /\ job'[c] = next /\ \A d \in Contexts \ {c} : job'[d] = job[d]
  BY <1>1, GoesTo
<1>3. TypeOK'
  BY <1>1, <1>2, FaultBounded DEF TypeOK, Held, Formed, Unbought
<1>4. Others(c) /\ Grows
  BY <1>2 DEF Others, Grows
<1>5. journal' = journal \/ \A j \in AllKeys : journal'[j] = journal[j] \/ (j = k /\ journal'[k] = r)
  BY DEF Writes
<1>6. Tokens'
  <2>1. \A j \in Keys : journal'[j].state = "refused" => journal[j].state = "refused"
    BY <1>5 DEF AllKeys, Bought
  <2>2. QED BY <2>1, QuietTokens
<1>7. FinishedIsGranted'
  <2>1. \A j \in AllKeys : journal'[j].state \in Granted => journal[j].state \in Granted
    BY <1>5 DEF Bought, Granted
  <2>2. \A j \in AllKeys : Follows(journal[j], journal'[j])
    BY DEF MemStep
  <2>3. QED BY <1>3, <1>4, <2>1, <2>2, GrantsKept
<1>8. Sold'
  <2>1. \A j \in AllKeys : journal'[j].txn \in {journal[j].txn, NoTxn} \/ shop'[journal'[j].txn] # "none"
    <3>1. SUFFICES ASSUME NEW j \in AllKeys, journal'[j].txn \notin {journal[j].txn, NoTxn}
                   PROVE  shop'[journal'[j].txn] # "none"
      OBVIOUS
    <3>2. journal'[j].txn \in Txns
      BY <1>3, <3>1 DEF TypeOK, Record
    <3>3. QED BY <1>4, <1>5, <3>1, <3>2 DEF Grows
  <2>2. \A j \in Keys : sheet'[j] \in Txns => sheet[j] = sheet'[j]
    OBVIOUS
  <2>3. QED BY <1>2, <1>3, <1>4, <2>1, <2>2, SoldKept
<1>9. ~overlapped' => Alone'
  <2>1. SUFFICES ASSUME ~overlapped PROVE Alone'
    OBVIOUS
  <2>2. Jobs'
    BY <1>4, JobsKept DEF MemStep
  <2>3. journal'[k].txn \notin {NoTxn, journal[k].txn} =>
          /\ Holding(journal, journal'[k].txn) \subseteq detached
          /\ IsOpen(journal'[k])
    <3>1. SUFFICES ASSUME journal'[k].txn \notin {NoTxn, journal[k].txn}
                   PROVE  /\ Holding(journal, journal'[k].txn) \subseteq detached
                          /\ IsOpen(journal'[k])
      OBVIOUS
    <3>2. k \in AllKeys /\ journal'[k] = r
      BY <1>5, <3>1
    <3>3. journal'[k] \in Record /\ Formed(journal'[k])
      BY <1>1, <3>2 DEF Held
    <3>4. r.state \in Bought
      BY <3>1, <3>2, <3>3 DEF Formed, Unbought
    <3>5. QED BY <2>1, <3>1, <3>2, <3>4 DEF IsOpen, Bought, Terminal
  <2>4. Remembered(c)'
    BY <1>2, <2>1, <2>3, RememberedKept DEF Answering
  <2>5. InUse(c)
    BY Working DEF Passing
  <2>6. QED BY <1>2, <1>4, <2>1, <2>2, <2>3, <2>4, <2>5, AloneKept DEF MemStep
<1>10. job'[c].at \notin Free => started'[c]
  BY <1>2 DEF JInv, Running, Passing, Free
<1>11. QED
  BY <1>3, <1>4, <1>6, <1>7, <1>8, <1>9, <1>10, StepKeeps

(* An event is done with, and no record written. *)
LEMMA SkipsKeeps ==
    ASSUME JInv, NEW c \in Contexts, NEW e \in job[c].queue, job[c].at = "ingest",
           Goes(c, Rest(c, e)), UNCHANGED <<journal, mem, fresh, again, faults>>,
           UNCHANGED <<started, inbox, scan, calls, late, sheet, shop, ledger, opened, detached,
                       sent, overlapped>>
    PROVE  Moves
<1>1. TypeOK
  BY DEF JInv
<1>2. MemStep(c) /\ Writes(c, NoKey, Missing)
  BY StillKeeps, StillWrites
<1>3. job'[c] = Rest(c, e)
  BY <1>1, RestIs, GoesTo
<1>4. JobSound(c)'
  BY <1>1, <1>3, RestIs DEF JobSound
<1>5. again' \in [Contexts -> SUBSET Txns] /\ shop' \in [Txns -> {"none", "pending", "purchased", "finished"}]
  BY <1>1 DEF TypeOK
<1>6. QED BY <1>1, <1>2, <1>4, <1>5, PassGoesOn, RestIs DEF Passing

(* An event's record is written. *)
LEMMA AnswersKeeps ==
    ASSUME JInv, NEW c \in Contexts, NEW e \in job[c].queue, job[c].at = "ingest",
           NEW k \in AllKeys, NEW r \in Record,
           Replace(c, k, r, Rest(c, e), Rest(c, e)),
           UNCHANGED <<again, started, inbox, scan, calls, late, sheet, shop, ledger, opened,
                       detached, sent, overlapped>>,
           Formed(r), r.state \in Bought \cup {"cancelled"},
           r.txn # NoTxn => shop[r.txn] # "none",
           k \in fresh[c] => /\ Follows(journal[k], r)
                             /\ r.txn \notin {NoTxn, journal[k].txn} => Holding(journal, r.txn) = {}
    PROVE  Moves
<1>1. TypeOK
  BY DEF JInv
<1>2. Rest(c, e) \in Job
  BY <1>1, RestIs
<1>3. r.state # "missing"
  BY DEF Bought
<1>4. /\ MemStep(c) /\ Writes(c, k, r)
      /\ Goes(c, Rest(c, e))
      /\ journal' # journal => k \in fresh[c]
      /\ faults' = faults \/ Fault
  BY <1>2, <1>3, ReplaceKeeps
<1>5. job'[c] = Rest(c, e)
  BY <1>1, <1>4, RestIs, GoesTo
<1>6. JobSound(c)'
  BY <1>1, <1>5, RestIs DEF JobSound
<1>7. again' \in [Contexts -> SUBSET Txns] /\ shop' \in [Txns -> {"none", "pending", "purchased", "finished"}]
  BY <1>1 DEF TypeOK
<1>8. QED BY <1>1, <1>4, <1>6, <1>7, PassGoesOn, RestIs DEF Passing

LEMMA IngestErrorKeeps ==
    ASSUME JInv, NEW c \in Contexts, NEW e \in job[c].queue, job[c].at = "ingest", IngestError(c, e),
           UNCHANGED <<started, inbox, scan, calls, late, sheet, shop, ledger, opened, detached,
                       sent, overlapped>>
    PROVE  Moves
<1>1. CASE Goes(c, Rest(c, e)) /\ UNCHANGED <<journal, memory, faults>>
  BY <1>1, SkipsKeeps DEF IngestError, memory
<1>2. ASSUME NEW k \in Attempts(c), mem[c][k].txn = NoTxn,
             Replace(c, k, Rec("cancelled", NoTxn), Rest(c, e), Rest(c, e))
      PROVE  Moves
  <2>1. k \in AllKeys /\ mem[c][k].state \in Waiting
    BY DEF Attempts
  <2>2. /\ Rec("cancelled", NoTxn) \in Record
        /\ Rec("cancelled", NoTxn).state = "cancelled" /\ Rec("cancelled", NoTxn).txn = NoTxn
    BY RecIs DEF States, Terminal
  <2>3. Formed(Rec("cancelled", NoTxn))
    BY <2>2 DEF Formed, Unbought
  <2>4. k \in fresh[c] => Follows(journal[k], Rec("cancelled", NoTxn))
    <3>1. k \in fresh[c] => journal[k].state \in Waiting /\ journal[k].txn = NoTxn
      BY <1>2, <2>1 DEF JInv, TypeOK
    <3>2. QED BY <2>2, <3>1 DEF Follows, Waiting, Granted, Terminal
  <2>5. QED BY <1>2, <2>1, <2>2, <2>3, <2>4, AnswersKeeps DEF IngestError
<1>3. QED BY <1>1, <1>2 DEF IngestError

(* The record an event is matched to: one that holds its transaction, or   *)
(* an open attempt, when no record does.                                   *)
LEMMA IngestMatchedKeeps ==
    ASSUME JInv, NEW c \in Contexts, NEW e \in job[c].queue, job[c].at = "ingest", e # Cancelled,
           NEW k \in AllKeys, IngestMatched(c, k, e),
           \/ mem[c][k].txn = e.txn
           \/ /\ k \in Attempts(c) /\ mem[c][k].txn = NoTxn
              /\ Holding(journal, e.txn) = {},
           UNCHANGED <<started, inbox, scan, calls, late, sheet, shop, ledger, opened, detached,
                       sent, overlapped>>
    PROVE  Moves
<1>1. TypeOK
  BY DEF JInv
<1>2. e.txn \in Txns /\ e.as \in Bought /\ shop[e.txn] # "none"
  <2>1. e \in Event
    BY <1>1 DEF TypeOK, Job
  <2>2. QED BY <2>1, EventsAre DEF JInv, Sold
<1>3. mem[c][k] \in Record /\ Formed(mem[c][k]) /\ Follows(mem[c][k], journal[k])
  BY <1>1 DEF JInv, TypeOK, Memory
<1>4. CASE /\ mem[c][k].state = "finished" /\ e.as = "purchased"
           /\ again' = [again EXCEPT ![c] = @ \cup {e.txn}]
           /\ Goes(c, [Rest(c, e) EXCEPT !.at = "again", !.txn = e.txn])
           /\ UNCHANGED <<journal, memory, faults>>
  <2> DEFINE next == [Rest(c, e) EXCEPT !.at = "again", !.txn = e.txn]
  <2>1. /\ next \in Job /\ next.at = "again" /\ next.txn = e.txn
        /\ next.queue \subseteq job[c].queue
    <3>1. Rest(c, e) \in Job /\ Rest(c, e).queue \subseteq job[c].queue
      BY <1>1, RestIs
    <3>2. QED BY <1>2, <3>1 DEF Job
  <2>2. Goes(c, next)
    BY <1>4
  <2> HIDE DEF next
  <2>3. job'[c] = next
    BY <1>1, <2>1, <2>2, GoesTo
  <2>4. ledger[e.txn] = "granted"
    <3>1. mem[c][k].txn = e.txn
      BY <1>4 DEF Attempts, Waiting
    <3>2. journal[k] = mem[c][k]
      BY <1>3, <1>4 DEF Follows, Terminal
    <3>3. QED BY <1>4, <3>1, <3>2 DEF JInv, FinishedIsGranted, Granted
  <2>5. JobSound(c)'
    BY <1>2, <2>1, <2>3, <2>4 DEF JobSound
  <2>6. MemStep(c) /\ Writes(c, NoKey, Missing)
    BY <1>4, StillKeeps, StillWrites DEF memory
  <2>7. again' \in [Contexts -> SUBSET Txns] /\ shop' \in [Txns -> {"none", "pending", "purchased", "finished"}]
    BY <1>1, <1>2, <1>4 DEF TypeOK
  <2>8. QED BY <1>2, <1>4, <2>1, <2>2, <2>5, <2>6, <2>7, PassGoesOn DEF Passing
<1>5. CASE /\ mem[c][k].state = "launched" \/ (mem[c][k].state = "pending" /\ e.as = "purchased")
           /\ Replace(c, k, Rec(e.as, e.txn), Rest(c, e), Rest(c, e))
           /\ UNCHANGED again
  <2>1. Rec(e.as, e.txn) \in Record /\ Rec(e.as, e.txn).state = e.as /\ Rec(e.as, e.txn).txn = e.txn
    <3>1. e.as \in States
      BY <1>2 DEF Bought, States, Waiting
    <3>2. QED BY <1>2, <3>1, RecIs
  <2>2. Formed(Rec(e.as, e.txn))
    BY <1>2, <2>1, JournalAssumption DEF Formed, Unbought, Bought
  <2>3. k \in fresh[c] => /\ Follows(journal[k], Rec(e.as, e.txn))
                          /\ e.txn # journal[k].txn => Holding(journal, e.txn) = {}
    <3>1. SUFFICES ASSUME journal[k] = mem[c][k]
                   PROVE  /\ Follows(mem[c][k], Rec(e.as, e.txn))
                          /\ e.txn # mem[c][k].txn => Holding(journal, e.txn) = {}
      BY <1>1 DEF TypeOK
    <3>2. mem[c][k].txn \in {NoTxn, e.txn}
      OBVIOUS
    <3>3. QED BY <1>2, <1>5, <2>1, <3>2 DEF Follows, Granted, Terminal, Bought
  <2>4. QED BY <1>2, <1>5, <2>1, <2>2, <2>3, AnswersKeeps
<1>6. CASE Goes(c, Rest(c, e)) /\ UNCHANGED <<journal, memory, again, faults>>
  BY <1>6, SkipsKeeps DEF memory
<1>7. QED BY <1>4, <1>5, <1>6 DEF IngestMatched

LEMMA IngestPurchaseKeeps ==
    ASSUME JInv, NEW c \in Contexts, NEW e \in job[c].queue, job[c].at = "ingest", IngestPurchase(c, e),
           UNCHANGED <<started, inbox, scan, calls, late, sheet, shop, ledger, opened, detached,
                       sent, overlapped>>
    PROVE  Moves
<1>1. TypeOK /\ e # Cancelled
  BY DEF JInv, IngestPurchase
<1>2. e.txn \in Txns /\ e.as \in Bought /\ shop[e.txn] # "none"
  <2>1. e \in Event
    BY <1>1 DEF TypeOK, Job
  <2>2. QED BY <1>1, <2>1, EventsAre DEF JInv, Sold
<1> DEFINE next == [Rest(c, e) EXCEPT !.at = "reserve", !.txn = e.txn, !.as = e.as]
<1>3. ASSUME NEW k \in Holding(mem[c], e.txn), IngestMatched(c, k, e)
      PROVE  Moves
  BY <1>1, <1>3, IngestMatchedKeeps DEF Holding
<1>4. ASSUME NEW k \in Holding(journal, e.txn), Remember(c, {k}),
             UNCHANGED <<journal, again, job, faults>>
      PROVE  Moves
  <2>1. k \in AllKeys /\ journal[k].state # "missing"
    <3>1. k \in AllKeys /\ journal[k].txn # NoTxn /\ Formed(journal[k])
      BY <1>2, HeldHolds, JournalAssumption DEF Holding, Held
    <3>2. QED BY <3>1 DEF Formed, Unbought
  <2>2. MemStep(c) /\ Writes(c, NoKey, Missing)
    BY <1>4, <2>1, RememberKeeps, StillWrites
  <2>3. job[c] \in Job /\ Goes(c, job[c])
    BY <1>1, <1>4 DEF TypeOK, Goes
  <2>4. JobSound(c)'
    BY <1>4 DEF JobSound
  <2>5. again' \in [Contexts -> SUBSET Txns] /\ shop' \in [Txns -> {"none", "pending", "purchased", "finished"}]
    BY <1>1, <1>4 DEF TypeOK
  <2>6. QED BY <1>4, <2>2, <2>3, <2>4, <2>5, PassGoesOn DEF Passing
<1>5. ASSUME Holding(journal, e.txn) = {}, NEW k \in Attempts(c), mem[c][k].txn = NoTxn,
             IngestMatched(c, k, e)
      PROVE  Moves
  BY <1>1, <1>5, IngestMatchedKeeps DEF Attempts
<1>6. CASE Goes(c, Rest(c, e)) /\ UNCHANGED <<journal, memory, again, faults>>
  BY <1>6, SkipsKeeps DEF memory
<1>7. CASE /\ Holding(journal, e.txn) = {} /\ Goes(c, next)
           /\ UNCHANGED <<journal, memory, again, faults>>
  <2>1. /\ next \in Job /\ next.at = "reserve" /\ next.txn = e.txn /\ next.as = e.as
        /\ next.queue \subseteq job[c].queue
    <3>1. e.as \in States
      BY <1>2 DEF Bought, States, Waiting
    <3>2. Rest(c, e) \in Job /\ Rest(c, e).queue \subseteq job[c].queue
      BY <1>1, RestIs
    <3>3. QED BY <1>2, <3>1, <3>2 DEF Job
  <2> HIDE DEF next
  <2>2. job'[c] = next
    BY <1>1, <1>7, <2>1, GoesTo
  <2>3. JobSound(c)'
    BY <1>2, <2>1, <2>2 DEF JobSound
  <2>4. MemStep(c) /\ Writes(c, NoKey, Missing)
    BY <1>7, StillKeeps, StillWrites DEF memory
  <2>5. again' \in [Contexts -> SUBSET Txns] /\ shop' \in [Txns -> {"none", "pending", "purchased", "finished"}]
    BY <1>1, <1>7 DEF TypeOK
  <2>6. QED BY <1>2, <1>7, <2>1, <2>3, <2>4, <2>5, PassGoesOn DEF Passing
<1>8. QED BY <1>3, <1>4, <1>5, <1>6, <1>7 DEF IngestPurchase

LEMMA IngestKeeps ==
    ASSUME JInv, NEW c \in Contexts, Ingest(c)
    PROVE  Moves
  BY IngestErrorKeeps, IngestPurchaseKeeps DEF Ingest, world

LEMMA ReserveKeeps ==
    ASSUME JInv, NEW c \in Contexts, Reserve(c)
    PROVE  Moves
<1> DEFINE t == job[c].txn
           r == Rec(job[c].as, t)
<1>1. TypeOK /\ job[c].at = "reserve" /\ t \in Txns /\ job[c].as \in Bought
  BY DEF JInv, Jobs, JobSound, Reserve
<1>2. UNCHANGED <<again, started, inbox, scan, calls, late, sheet, shop, ledger, opened, detached,
                  sent, overlapped>>
  BY DEF Reserve, world
<1>3. /\ r \in Record /\ r.state = job[c].as /\ r.txn = t
      /\ Formed(r) /\ r.state # "missing"
  <2>1. job[c].as \in States
    BY <1>1 DEF TypeOK, Job
  <2>2. QED BY <1>1, <2>1, RecIs, JournalAssumption DEF Formed, Unbought, Bought
<1>4. Insert(c, t, r, BackToIngest(c), BackToIngest(c))
  BY DEF Reserve
<1>5. t \in AllKeys /\ t # NoTxn
  BY <1>1, JournalAssumption DEF AllKeys
<1> HIDE DEF r
<1>6. /\ MemStep(c) /\ Writes(c, t, r) /\ Goes(c, BackToIngest(c))
      /\ faults' = faults \/ Fault
  BY <1>1, <1>3, <1>4, <1>5, BackIs, InsertKeeps
<1>7. job'[c] = BackToIngest(c)
  BY <1>1, <1>6, BackIs, GoesTo
<1>8. JobSound(c)'
  BY <1>1, <1>7, BackIs DEF JobSound
<1>9. again' \in [Contexts -> SUBSET Txns] /\ shop' \in [Txns -> {"none", "pending", "purchased", "finished"}]
  BY <1>1, <1>2 DEF TypeOK
<1>10. shop[t] # "none" /\ (~overlapped => Holding(journal, t) \subseteq detached)
  BY <1>1, <1>5 DEF JInv, Sold, Alone
<1>11. QED
  BY <1>1, <1>2, <1>3, <1>5, <1>6, <1>8, <1>9, <1>10, BackIs, PassGoesOn DEF Passing

LEMMA FinishReportedAgainKeeps ==
    ASSUME JInv, NEW c \in Contexts, FinishReportedAgain(c)
    PROVE  Moves
<1> DEFINE t == job[c].txn
<1>1. TypeOK /\ job[c].at = "again" /\ t \in Txns /\ ledger[t] = "granted"
  BY DEF JInv, Jobs, JobSound, FinishReportedAgain
<1>2. UNCHANGED <<journal, mem, fresh, started, inbox, scan, calls, late, sheet, ledger, opened,
                  detached, sent, overlapped>>
  BY DEF FinishReportedAgain, memory
<1>3. /\ shop' \in {shop, [shop EXCEPT ![t] = "finished"]}
      /\ again' \in {again, [again EXCEPT ![c] = @ \ {t}]}
      /\ faults' = faults \/ Fault
      /\ Goes(c, BackToIngest(c))
  BY DEF FinishReportedAgain, StoreFinishes, AnswerLost
<1>4. job'[c] = BackToIngest(c)
  BY <1>1, <1>3, BackIs, GoesTo
<1>5. JobSound(c)'
  BY <1>1, <1>4, BackIs DEF JobSound
<1>6. /\ again' \in [Contexts -> SUBSET Txns]
      /\ shop' \in [Txns -> {"none", "pending", "purchased", "finished"}]
      /\ \A u \in Txns : shop'[u] = shop[u] \/ (shop'[u] = "finished" /\ ledger[u] = "granted")
  <2>1. shop \in [Txns -> {"none", "pending", "purchased", "finished"}] /\ again \in [Contexts -> SUBSET Txns]
    BY <1>1 DEF TypeOK
  <2>2. again' \in [Contexts -> SUBSET Txns]
    BY <1>3, <2>1
  <2>3. CASE shop' = shop
    BY <2>1, <2>2, <2>3
  <2>4. CASE shop' = [shop EXCEPT ![t] = "finished"]
    BY <1>1, <2>1, <2>2, <2>4
  <2>5. QED BY <1>3, <2>3, <2>4
<1>7. MemStep(c) /\ Writes(c, NoKey, Missing)
  BY <1>2, StillKeeps, StillWrites
<1>8. QED
  BY <1>1, <1>2, <1>3, <1>5, <1>6, <1>7, BackIs, PassGoesOn DEF Passing

-----------------------------------------------------------------------------
(* The records a pass drives. *)

(* A step that gives no record a transaction. *)
LEMMA DrivesOn ==
    ASSUME JInv, NEW c \in Contexts, MemStep(c),
           InUse(c), NEW next \in Job, Goes(c, next), next.at \in Free \/ job[c].at \notin Free,
           job[c].at \notin Passing
             \/ \A j \in AllKeys : IsOpen(journal[j]) => mem'[c][j] = journal[j],
           UNCHANGED <<started, inbox, scan, again, calls, late, sheet, opened, detached, overlapped>>,
           faults' = faults \/ Fault,
           ledger' \in [Txns -> {"none", "granted", "rejected"}],
           \A t \in Txns : ledger[t] = "granted" => ledger'[t] = "granted",
           shop' \in [Txns -> {"none", "pending", "purchased", "finished"}],
           \A t \in Txns : shop'[t] = shop[t] \/ (shop'[t] = "finished" /\ ledger[t] = "granted"),
           sent' \subseteq Txns \X AllKeys,
           \A t \in Txns, j \in AllKeys :
               ~overlapped /\ <<t, j>> \in sent' => <<t, j>> \in sent \/ journal'[j].txn = t,
           next.queue \subseteq job[c].queue,
           next.at \notin Passing,
           next.txn \notin {job[c].txn, NoTxn} => shop[next.txn] # "none" /\ next.txn \in Txns,
           JobSound(c)',
           NEW k, NEW r, Writes(c, k, r),
           journal' # journal =>
               /\ k \in AllKeys /\ r.txn \in {NoTxn, journal[k].txn} /\ r.state # "refused"
               /\ r.state \in Granted => ledger'[r.txn] = "granted"
    PROVE  Moves
<1>1. TypeOK /\ Held(c)'
  BY DEF JInv, MemStep
<1>2. job' \in [Contexts -> Job] /\ job'[c] = next /\ \A d \in Contexts \ {c} : job'[d] = job[d]
  BY <1>1, GoesTo
<1>3. TypeOK'
  BY <1>1, <1>2, FaultBounded DEF TypeOK, Held, Formed, Unbought
<1>4. Others(c) /\ Grows
  BY <1>2 DEF Others, Grows
<1>5. journal' = journal \/ \A j \in AllKeys : journal'[j] = journal[j] \/ (j = k /\ journal'[k] = r)
  BY DEF Writes
<1>6. Tokens'
  <2>1. \A j \in Keys : journal'[j].state = "refused" => journal[j].state = "refused"
    BY <1>5 DEF AllKeys
  <2>2. QED BY <2>1, QuietTokens
<1>7. FinishedIsGranted'
  <2>1. \A j \in AllKeys : journal'[j].state \in Granted =>
            journal[j].state \in Granted \/ ledger'[journal'[j].txn] = "granted"
    BY <1>5
  <2>2. \A j \in AllKeys : Follows(journal[j], journal'[j])
    BY DEF MemStep
  <2>3. QED BY <1>3, <1>4, <2>1, <2>2, GrantsKept
<1>8. Sold'
  <2>1. \A j \in AllKeys : journal'[j].txn \in {journal[j].txn, NoTxn}
    BY <1>5
  <2>2. next.txn \in {job[c].txn, NoTxn} \/ shop'[next.txn] # "none"
    BY <1>4 DEF Grows
  <2>3. QED BY <1>2, <1>3, <1>4, <2>1, <2>2, SoldKept
<1>9. ~overlapped' => Alone'
  <2>1. SUFFICES ASSUME ~overlapped PROVE Alone'
    OBVIOUS
  <2>2. Jobs'
    BY <1>4, JobsKept DEF MemStep
  <2>3. journal'[k].txn \in {NoTxn, journal[k].txn}
    BY <1>5
  <2>4. Remembered(c)'
    BY <1>2, <2>1, <2>3, RememberedKept DEF Answering
  <2>5. job'[c].at # "reserve"
    BY <1>2 DEF Passing
  <2>6. QED BY <1>4, <2>1, <2>2, <2>3, <2>4, <2>5, AloneKept DEF MemStep
<1>10. job'[c].at \notin Free => started'[c]
  BY <1>2 DEF JInv, Running, Passing, Free
<1>11. QED
  BY <1>3, <1>4, <1>6, <1>7, <1>8, <1>9, <1>10, StepKeeps

LEMMA ListRecoverableKeeps ==
    ASSUME JInv, NEW c \in Contexts, ListRecoverable(c)
    PROVE  Moves
<1> DEFINE driven == {k \in Opened : Driven(c, k)}
           next == IF driven = {} THEN Blank
                   ELSE [Blank EXCEPT !.at = "drive", !.todo = driven,
                                      !.retry = {k \in driven : journal[k].state = "finishing"}]
<1>1. /\ TypeOK /\ job[c].at = "ingest" /\ Remember(c, Opened) /\ Goes(c, next)
      /\ UNCHANGED <<journal, started, inbox, scan, again, calls, late, sheet, shop, ledger, opened,
                     detached, sent, overlapped, faults>>
  BY DEF JInv, ListRecoverable, world
<1>2. /\ next \in Job /\ next.at \in {"idle", "drive"} /\ next.txn = NoTxn
      /\ next.queue = {}
  <2>1. driven \in SUBSET AllKeys /\ {k \in driven : journal[k].state = "finishing"} \in SUBSET AllKeys
    BY DEF Opened
  <2> HIDE DEF driven
  <2>2. QED BY <2>1, BlankIs DEF Job
<1> HIDE DEF next
<1>3. \A k \in Opened : k \in AllKeys /\ journal[k].state # "missing"
  BY DEF Opened, IsOpen
<1>4. MemStep(c) /\ \A k \in AllKeys : IsOpen(journal[k]) => mem'[c][k] = journal[k]
  BY <1>1, <1>3, RememberKeeps DEF Opened
<1>5. Writes(c, NoKey, Missing)
  BY <1>1, StillWrites
<1>6. job'[c] = next
  BY <1>1, <1>2, GoesTo
<1>7. JobSound(c)'
  BY <1>2, <1>6 DEF JobSound
<1>8. InUse(c)
  BY <1>1, Working
<1>9. QED
  BY <1>1, <1>2, <1>4, <1>5, <1>7, <1>8, DrivesOn DEF TypeOK, Free, Passing

(* A driven record is written, with the transaction it had. *)
LEMMA DrivenKeeps ==
    ASSUME JInv, NEW c \in Contexts, job[c].at \in {"drive", "settle", "finished"},
           UNCHANGED <<started, inbox, scan, again, calls, late, sheet, shop, ledger, opened,
                       detached, sent, overlapped>>,
           NEW k \in AllKeys, NEW r \in Record, NEW won \in Job, NEW lost \in Job,
           Replace(c, k, r, won, lost),
           Formed(r), r.state \notin {"missing", "refused"},
           k \in fresh[c] => /\ Follows(journal[k], r) /\ r.txn \in {NoTxn, journal[k].txn}
                             /\ r.state \in Granted => ledger[r.txn] = "granted",
           won.at \in {"idle", "drive"}, won.txn = NoTxn, won.queue \subseteq job[c].queue,
           lost.at \in {"idle", "drive"}, lost.txn = NoTxn, lost.queue \subseteq job[c].queue
    PROVE  Moves
<1>1. TypeOK
  BY DEF JInv
<1>2. /\ MemStep(c) /\ Writes(c, k, r)
      /\ journal' # journal => k \in fresh[c]
      /\ faults' = faults \/ Fault
  BY ReplaceKeeps
<1>3. PICK next \in {won, lost} : Goes(c, next)
  BY ReplaceKeeps
<1>4. job'[c] = next
  BY <1>1, <1>3, GoesTo
<1>5. JobSound(c)'
  BY <1>3, <1>4 DEF JobSound
<1>6. job[c].at \notin Passing \cup Free /\ InUse(c)
  BY Working DEF Passing, Free
<1>7. QED
  BY <1>1, <1>2, <1>3, <1>5, <1>6, DrivesOn DEF TypeOK, Passing

LEMMA DriveKeeps ==
    ASSUME JInv, NEW c \in Contexts, Drive(c)
    PROVE  Moves
<1>1. TypeOK /\ UNCHANGED <<started, inbox, scan, again, calls, late, sheet, shop, ledger, opened,
                            detached, sent, overlapped>>
  BY DEF JInv, Drive, world
<1>2. PICK k \in job[c].todo :
        Driving(c, k) /\ (DriveStale(c, k) \/ DriveWaits(c, k) \/ DriveWrites(c, k))
  BY DEF Drive
<1>3. job[c].at = "drive" /\ k \in AllKeys
  BY <1>1, <1>2 DEF Driving, TypeOK, Job
<1>4. /\ mem[c][k] \in Record /\ Formed(mem[c][k])
      /\ k \in fresh[c] => journal[k] = mem[c][k]
  BY <1>1, <1>3 DEF TypeOK, JInv, Memory
<1>5. CASE DriveStale(c, k)
  <2>1. /\ Rec("failed", NoTxn) \in Record
        /\ Rec("failed", NoTxn).state = "failed" /\ Rec("failed", NoTxn).txn = NoTxn
    BY RecIs DEF States, Terminal
  <2>2. mem[c][k].state \in {"requested", "launched"} /\ mem[c][k].txn = NoTxn
    BY <1>4, <1>5 DEF DriveStale, Formed, Unbought
  <2>3. Formed(Rec("failed", NoTxn)) /\ Follows(mem[c][k], Rec("failed", NoTxn))
    BY <2>1, <2>2 DEF Formed, Unbought, Follows, Granted, Terminal
  <2>4. QED BY <1>1, <1>3, <1>4, <1>5, <2>1, <2>3, DoneIs, DrivenKeeps DEF DriveStale, Granted
<1>6. CASE DriveWaits(c, k)
  <2>1. UNCHANGED <<journal, mem, fresh, faults>> /\ Goes(c, Done(c, k))
    BY <1>6 DEF DriveWaits, memory
  <2>2. MemStep(c) /\ Writes(c, NoKey, Missing)
    BY <2>1, StillKeeps, StillWrites
  <2>3. job'[c] = Done(c, k)
    BY <1>1, <1>3, <2>1, DoneIs, GoesTo
  <2>4. JobSound(c)'
    BY <1>1, <1>3, <2>3, DoneIs DEF JobSound
  <2>5. InUse(c)
    BY <1>3, Working
  <2>6. QED BY <1>1, <1>3, <2>1, <2>2, <2>4, <2>5, DoneIs, DrivesOn DEF TypeOK, Passing, Free
<1>7. CASE DriveWrites(c, k)
  <2>1. PICK step \in {<<"purchased", "verifying">>, <<"review", "verifying">>,
                       <<"granted", "finishing">>} :
          /\ mem[c][k].state = step[1]
          /\ Replace(c, k, Rec(step[2], mem[c][k].txn), Stays(c, k), Done(c, k))
    BY <1>7 DEF DriveWrites
  <2> DEFINE r == Rec(step[2], mem[c][k].txn)
  <2>2. /\ step[2] \in {"verifying", "finishing"} /\ mem[c][k].state \in {"purchased", "review", "granted"}
        /\ step[2] = "finishing" <=> mem[c][k].state = "granted"
    BY <2>1
  <2>3. r \in Record /\ r.state = step[2] /\ r.txn = mem[c][k].txn
    BY <1>4, <2>2, RecIs DEF States, Record
  <2>4. r.txn # NoTxn
    BY <1>4, <2>2, <2>3 DEF Formed, Unbought
  <2>5. Formed(r) /\ Follows(mem[c][k], r) /\ r.state \notin {"missing", "refused"}
    BY <2>2, <2>3, <2>4 DEF Formed, Unbought, Follows, Granted, Terminal
  <2>6. k \in fresh[c] /\ r.state \in Granted => ledger[r.txn] = "granted"
    <3>1. SUFFICES ASSUME k \in fresh[c], r.state \in Granted PROVE ledger[r.txn] = "granted"
      OBVIOUS
    <3>2. journal[k].state = "granted" /\ journal[k].txn = r.txn
      BY <1>4, <2>2, <2>3, <3>1 DEF Granted
    <3>3. QED BY <1>3, <3>2 DEF JInv, FinishedIsGranted, Granted
  <2>7. Replace(c, k, r, Stays(c, k), Done(c, k))
    BY <2>1
  <2> HIDE DEF r
  <2>8. QED
    BY <1>1, <1>3, <1>4, <2>3, <2>5, <2>6, <2>7, StaysIs, DoneIs, DrivenKeeps
<1>8. QED BY <1>2, <1>5, <1>6, <1>7

LEMMA SettleVerifyKeeps ==
    ASSUME JInv, NEW c \in Contexts, SettleVerify(c)
    PROVE  Moves
<1> DEFINE k == job[c].key
           r == Rec(job[c].as, job[c].txn)
           won == IF r.state = "granted" THEN Stays(c, k) ELSE Done(c, k)
<1>1. TypeOK /\ UNCHANGED <<started, inbox, scan, again, calls, late, sheet, shop, ledger, opened,
                            detached, sent, overlapped>>
  BY DEF JInv, SettleVerify, world
<1>2. /\ job[c].at = "settle" /\ k \in AllKeys /\ job[c].txn \in Txns
      /\ job[c].as \in {"granted", "rejected", "review"}
      /\ job[c].as = "granted" => ledger[job[c].txn] = "granted"
      /\ k \in fresh[c] => journal[k] = Rec("verifying", job[c].txn)
  BY DEF JInv, Jobs, JobSound, SettleVerify
<1>3. Replace(c, k, r, won, Done(c, k))
  BY DEF SettleVerify
<1>4. r \in Record /\ r.state = job[c].as /\ r.txn = job[c].txn
  <2>1. job[c].as \in States
    BY <1>1 DEF TypeOK, Job
  <2>2. QED BY <1>2, <2>1, RecIs
<1>5. Formed(r)
  BY <1>2, <1>4, JournalAssumption DEF Formed, Unbought
<1>6. k \in fresh[c] => Follows(journal[k], r) /\ r.txn = journal[k].txn
  <2>1. Rec("verifying", job[c].txn).state = "verifying" /\ Rec("verifying", job[c].txn).txn = job[c].txn
    BY <1>2, RecIs DEF States
  <2>2. QED BY <1>2, <1>4, <2>1 DEF Follows, Granted, Terminal
<1>7. r.state \in Granted => ledger[r.txn] = "granted"
  BY <1>2, <1>4 DEF Granted
<1>8. won \in Job /\ won.at \in {"idle", "drive"} /\ won.txn = NoTxn /\ won.queue \subseteq job[c].queue
  BY <1>1, <1>2, StaysIs, DoneIs
<1> HIDE DEF r, won
<1>9. QED
  BY <1>1, <1>2, <1>3, <1>4, <1>5, <1>6, <1>7, <1>8, DoneIs, DrivenKeeps

LEMMA FinishedKeeps ==
    ASSUME JInv, NEW c \in Contexts, Finished(c)
    PROVE  Moves
<1> DEFINE k == job[c].key
           r == Rec("finished", job[c].txn)
<1>1. TypeOK /\ UNCHANGED <<started, inbox, scan, again, calls, late, sheet, shop, ledger, opened,
                            detached, sent, overlapped>>
  BY DEF JInv, Finished, world
<1>2. /\ job[c].at = "finished" /\ k \in AllKeys /\ job[c].txn \in Txns
      /\ ledger[job[c].txn] = "granted"
      /\ k \in fresh[c] => journal[k] = Rec("finishing", job[c].txn)
  BY DEF JInv, Jobs, JobSound, Finished
<1>3. Replace(c, k, r, Done(c, k), Done(c, k))
  BY DEF Finished
<1>4. r \in Record /\ r.state = "finished" /\ r.txn = job[c].txn
  BY <1>2, RecIs DEF States, Terminal
<1>5. Formed(r)
  BY <1>2, <1>4, JournalAssumption DEF Formed, Unbought
<1>6. k \in fresh[c] => Follows(journal[k], r) /\ r.txn = journal[k].txn
  <2>1. Rec("finishing", job[c].txn).state = "finishing" /\ Rec("finishing", job[c].txn).txn = job[c].txn
    BY <1>2, RecIs DEF States
  <2>2. QED BY <1>2, <1>4, <2>1 DEF Follows, Granted, Terminal
<1> HIDE DEF r
<1>7. QED
  BY <1>1, <1>2, <1>3, <1>4, <1>5, <1>6, DoneIs, DrivenKeeps

LEMMA FinishKeeps ==
    ASSUME JInv, NEW c \in Contexts, Finish(c)
    PROVE  Moves
<1>1. PICK k \in job[c].todo :
        LET t == mem[c][k].txn
            done == [job[c] EXCEPT !.at = "finished", !.key = k, !.txn = t]
        IN  /\ Driving(c, k) /\ mem[c][k].state = "finishing"
            /\ \/ StoreFinishes(t) /\ Goes(c, done)
               \/ k \in job[c].retry /\ Fault /\ UNCHANGED shop /\ Goes(c, done)
               \/ AnswerLost(t) /\ Goes(c, Done(c, k))
            /\ UNCHANGED <<journal, memory, started, inbox, scan, again, calls, late, sheet, ledger,
                           opened, detached, sent, overlapped>>
  BY DEF Finish
<1> DEFINE t == mem[c][k].txn
           done == [job[c] EXCEPT !.at = "finished", !.key = k, !.txn = t]
<1>2. /\ TypeOK /\ job[c].at = "drive" /\ mem[c][k].state = "finishing"
      /\ UNCHANGED <<journal, mem, fresh, started, inbox, scan, again, calls, late, sheet, ledger,
                     opened, detached, sent, overlapped>>
      /\ shop' \in {shop, [shop EXCEPT ![t] = "finished"]}
      /\ faults' = faults \/ Fault
      /\ Goes(c, done) \/ Goes(c, Done(c, k))
  BY <1>1 DEF JInv, Driving, memory, StoreFinishes, AnswerLost
<1>3. job[c] \in Job /\ k \in AllKeys
  BY <1>2 DEF TypeOK, Job
<1>4. mem[c][k] \in Record /\ Formed(mem[c][k]) /\ Follows(mem[c][k], journal[k])
  BY <1>2, <1>3 DEF TypeOK, JInv, Memory
<1>5. t \in Txns /\ journal[k].txn = t /\ journal[k].state \in Granted
  BY <1>2, <1>4 DEF Record, Formed, Unbought, Follows, Granted
<1>6. ledger[t] = "granted" /\ shop[t] # "none"
  BY <1>3, <1>5, JournalAssumption DEF JInv, FinishedIsGranted, Sold
<1>7. k \in fresh[c] => journal[k] = Rec("finishing", t)
  <2>1. Rec("finishing", t) \in Record /\ Rec("finishing", t).state = "finishing" /\ Rec("finishing", t).txn = t
    BY <1>5, RecIs DEF States
  <2>2. mem[c][k] = Rec("finishing", t)
    BY <1>2, <1>4, <2>1 DEF Record
  <2>3. QED BY <1>2, <2>2 DEF TypeOK
<1>8. done \in Job /\ done.at = "finished" /\ done.key = k /\ done.txn = t /\ done.queue = job[c].queue
  BY <1>3, <1>5 DEF Job
<1> HIDE DEF done
<1>9. /\ shop' \in [Txns -> {"none", "pending", "purchased", "finished"}]
      /\ \A u \in Txns : shop'[u] = shop[u] \/ (shop'[u] = "finished" /\ ledger[u] = "granted")
  <2>1. shop \in [Txns -> {"none", "pending", "purchased", "finished"}]
    BY <1>2 DEF TypeOK
  <2>2. CASE shop' = shop
    BY <2>1, <2>2
  <2>3. CASE shop' = [shop EXCEPT ![t] = "finished"]
    BY <1>5, <1>6, <2>1, <2>3
  <2>4. QED BY <1>2, <2>2, <2>3
<1>10. MemStep(c) /\ Writes(c, NoKey, Missing)
  BY <1>2, StillKeeps, StillWrites
<1>11. PICK next \in {done, Done(c, k)} : Goes(c, next)
  BY <1>2
<1>12. /\ next \in Job /\ next.at \in {"idle", "drive", "finished"} /\ next.queue \subseteq job[c].queue
       /\ next.txn \in {NoTxn, t}
  BY <1>2, <1>3, <1>8, <1>11, DoneIs
<1>13. job'[c] = next
  BY <1>2, <1>11, <1>12, GoesTo
<1>14. JobSound(c)'
  <2>1. CASE next = done
    BY <1>2, <1>3, <1>5, <1>6, <1>7, <1>8, <1>13, <2>1 DEF JobSound
  <2>2. CASE next = Done(c, k)
    BY <1>2, <1>3, <1>13, <2>2, DoneIs DEF JobSound
  <2>3. QED BY <1>11, <2>1, <2>2
<1>15. InUse(c)
  BY <1>2, Working
<1>16. QED
  BY <1>2, <1>5, <1>6, <1>9, <1>10, <1>11, <1>12, <1>14, <1>15, DrivesOn DEF TypeOK, Passing, Free

LEMMA SendVerifyKeeps ==
    ASSUME JInv, NEW c \in Contexts, SendVerify(c)
    PROVE  Moves
<1>1. PICK k \in job[c].todo :
        LET t == mem[c][k].txn
            answers(as) == Goes(c, [job[c] EXCEPT !.at = "settle", !.key = k, !.txn = t, !.as = as])
        IN  /\ Driving(c, k) /\ mem[c][k].state = "verifying"
            /\ sent' = IF overlapped THEN {} ELSE sent \cup {<<t, k>>}
            /\ \/ ledger' \in Verdicts(t) /\ answers(ledger'[t]) /\ UNCHANGED faults
               \/ Fault /\ ledger[t] = "none" /\ UNCHANGED ledger /\ answers("review")
               \/ Fault /\ ledger' \in Verdicts(t) \cup {ledger} /\ Goes(c, Done(c, k))
            /\ UNCHANGED <<journal, memory, started, inbox, scan, again, calls, late, sheet, shop,
                           opened, detached, overlapped>>
  BY DEF SendVerify
<1> DEFINE t == mem[c][k].txn
           to(as) == [job[c] EXCEPT !.at = "settle", !.key = k, !.txn = t, !.as = as]
<1>2. /\ TypeOK /\ job[c].at = "drive" /\ mem[c][k].state = "verifying"
      /\ sent' = IF overlapped THEN {} ELSE sent \cup {<<t, k>>}
      /\ \/ ledger' \in Verdicts(t) /\ Goes(c, to(ledger'[t])) /\ UNCHANGED faults
         \/ Fault /\ UNCHANGED ledger /\ Goes(c, to("review"))
         \/ Fault /\ ledger' \in Verdicts(t) \cup {ledger} /\ Goes(c, Done(c, k))
      /\ UNCHANGED <<journal, mem, fresh, started, inbox, scan, again, calls, late, sheet, shop,
                     opened, detached, overlapped>>
  BY <1>1 DEF JInv, Driving, memory
<1>3. job[c] \in Job /\ k \in AllKeys
  BY <1>2 DEF TypeOK, Job
<1>4. mem[c][k] \in Record /\ Formed(mem[c][k]) /\ Follows(mem[c][k], journal[k])
  BY <1>2, <1>3 DEF TypeOK, JInv, Memory
<1>5. t \in Txns /\ journal[k].txn = t
  BY <1>2, <1>4 DEF Record, Formed, Unbought, Follows
<1>6. k \in fresh[c] => journal[k] = Rec("verifying", t)
  <2>1. Rec("verifying", t) \in Record /\ Rec("verifying", t).state = "verifying" /\ Rec("verifying", t).txn = t
    BY <1>5, RecIs DEF States
  <2>2. mem[c][k] = Rec("verifying", t)
    BY <1>2, <1>4, <2>1 DEF Record
  <2>3. QED BY <1>2, <2>2 DEF TypeOK
<1>7. shop[t] # "none"
  BY <1>3, <1>5, JournalAssumption DEF JInv, Sold
<1>8. \A as \in {"granted", "rejected", "review"} :
        /\ to(as) \in Job /\ to(as).at = "settle" /\ to(as).key = k /\ to(as).txn = t
        /\ to(as).as = as /\ to(as).queue = job[c].queue
  BY <1>3, <1>5 DEF Job, States, Waiting, Terminal
<1> HIDE DEF to
<1>9. ASSUME ledger' \in Verdicts(t)
      PROVE  /\ ledger' \in [Txns -> {"none", "granted", "rejected"}]
             /\ ledger'[t] \in {"granted", "rejected"}
             /\ \A u \in Txns : ledger[u] = "granted" => ledger'[u] = "granted"
  <2>1. ledger \in [Txns -> {"none", "granted", "rejected"}]
    BY <1>2 DEF TypeOK
  <2>2. PICK v \in IF ledger[t] = "none" THEN {"granted", "rejected"} ELSE {ledger[t]} :
          ledger' = [ledger EXCEPT ![t] = v]
    BY <1>9 DEF Verdicts
  <2>3. QED BY <1>5, <2>1, <2>2
<1>10. /\ ledger' \in [Txns -> {"none", "granted", "rejected"}]
       /\ \A u \in Txns : ledger[u] = "granted" => ledger'[u] = "granted"
  <2>1. CASE ledger' = ledger
    BY <1>2, <2>1 DEF TypeOK
  <2>2. QED BY <1>2, <1>9, <2>1
<1>11. PICK next \in Job :
         /\ Goes(c, next) /\ next.queue \subseteq job[c].queue /\ next.txn \in {NoTxn, t}
         /\ \/ next.at \in {"idle", "drive"}
            \/ /\ next.at = "settle" /\ next.key = k /\ next.txn = t
               /\ next.as \in {"granted", "rejected", "review"}
               /\ next.as = "granted" => ledger'[t] = "granted"
  <2>1. CASE ledger' \in Verdicts(t) /\ Goes(c, to(ledger'[t]))
    <3>1. ledger'[t] \in {"granted", "rejected", "review"}
      BY <1>9, <2>1
    <3>2. /\ to(ledger'[t]) \in Job /\ to(ledger'[t]).at = "settle"
          /\ to(ledger'[t]).key = k /\ to(ledger'[t]).txn = t
          /\ to(ledger'[t]).as = ledger'[t] /\ to(ledger'[t]).queue = job[c].queue
      BY <1>8, <3>1
    <3>3. QED BY <2>1, <3>1, <3>2
  <2>2. CASE Goes(c, to("review"))
    BY <1>8, <2>2
  <2>3. CASE Goes(c, Done(c, k))
    BY <1>2, <1>3, <2>3, DoneIs
  <2>4. QED BY <1>2, <2>1, <2>2, <2>3
<1>12. job'[c] = next
  BY <1>2, <1>11, GoesTo
<1>13. JobSound(c)'
  BY <1>2, <1>3, <1>5, <1>6, <1>11, <1>12 DEF JobSound
<1>14. /\ sent' \subseteq Txns \X AllKeys
       /\ \A u \in Txns, j \in AllKeys :
            ~overlapped /\ <<u, j>> \in sent' => <<u, j>> \in sent \/ journal'[j].txn = u
  BY <1>2, <1>3, <1>5 DEF TypeOK
<1>15. MemStep(c) /\ Writes(c, NoKey, Missing)
  BY <1>2, StillKeeps, StillWrites
<1>16. faults' = faults \/ Fault
  BY <1>2
<1>17. InUse(c)
  BY <1>2, Working
<1>18. QED
  BY <1>2, <1>5, <1>7, <1>10, <1>11, <1>13, <1>14, <1>15, <1>16, <1>17, DrivesOn
     DEF TypeOK, Passing, Free

-----------------------------------------------------------------------------
(* requestPurchase. *)

LEMMA PrepareKeeps ==
    ASSUME JInv, NEW c \in Contexts, NEW k \in Keys, Prepare(c, k)
    PROVE  Moves
<1> DEFINE read == {l \in AllKeys : (~started[c] /\ l \in Loaded) \/ (l = k /\ journal[k] # Missing)}
           next == IF journal[k] = Missing \/ Retryable(c, k)
                   THEN [Blank EXCEPT !.at = "prepare", !.key = k, !.as = journal[k].state]
                   ELSE Blank
<1>1. /\ TypeOK /\ job[c].at = "idle"
      /\ Uses(c) /\ Remember(c, read)
      /\ Goes(c, next)
      /\ UNCHANGED <<journal, started, inbox, scan, again, calls, late, sheet, shop, ledger, opened,
                     detached, faults>>
  BY DEF JInv, Prepare
<1>2. k \in AllKeys /\ journal[k] \in Record /\ Formed(journal[k])
  BY HeldHolds DEF AllKeys, Held
<1>3. journal[k] = Missing \/ Retryable(c, k) => journal[k].state \in {"missing", "refused"}
  BY MissingIs DEF Retryable
<1>4. /\ next \in Job /\ next.txn = NoTxn /\ next.queue = {}
      /\ \/ next.at = "idle"
         \/ /\ next.at = "prepare" /\ next.key = k /\ next.as = journal[k].state
            /\ next.as \in {"missing", "refused"}
  <2>1. CASE journal[k] = Missing \/ Retryable(c, k)
    <3>1. next = [Blank EXCEPT !.at = "prepare", !.key = k, !.as = journal[k].state]
      BY <2>1
    <3>2. QED BY <1>2, <1>3, <2>1, <3>1, BlankIs DEF Job, Record
  <2>2. CASE ~(journal[k] = Missing \/ Retryable(c, k))
    BY <2>2, BlankIs
  <2>3. QED BY <2>1, <2>2
<1> HIDE DEF next
<1>5. MemStep(c)
  <2>1. \A l \in read : l \in AllKeys /\ journal[l].state # "missing"
    BY <1>2, LoadedIs, MissingIs
  <2> HIDE DEF read
  <2>2. QED BY <1>1, <2>1, RememberKeeps
<1>6. job'[c] = next
  BY <1>1, <1>4, GoesTo
<1>7. JobSound(c)'
  BY <1>1, <1>4, <1>6 DEF JobSound
<1>8. next.at \in Free
  BY <1>4 DEF Free
<1>9. QED
  BY <1>1, <1>4, <1>5, <1>7, <1>8, ReadsKeeps DEF TypeOK

LEMMA SerializeKeeps ==
    ASSUME JInv, NEW c \in Contexts, Serialize(c)
    PROVE  Moves
<1> DEFINE next == [job[c] EXCEPT !.at = "open"]
<1>1. /\ TypeOK /\ job[c].at = "prepare" /\ Remember(c, Opened)
      /\ \/ Goes(c, next) /\ (job[c].as = "missing" \/ job[c].key \in fresh[c])
         \/ Goes(c, Blank)
      /\ UNCHANGED <<journal, started, inbox, scan, again, calls, late, sheet, shop, ledger, opened,
                     detached, sent, overlapped, faults>>
  BY DEF JInv, Serialize, world
<1>2. /\ job[c].key \in Keys /\ job[c].as \in {"missing", "refused"}
      /\ job[c].key \in fresh[c] /\ job[c].as = "refused" => journal[job[c].key].state = "refused"
  BY <1>1 DEF JInv, Jobs, JobSound
<1>3. /\ next \in Job /\ next.at = "open" /\ next.key = job[c].key /\ next.as = job[c].as
      /\ next.txn = job[c].txn /\ next.queue = job[c].queue
  <2>1. job[c] \in Job
    BY <1>1 DEF TypeOK
  <2>2. QED BY <2>1 DEF Job
<1> HIDE DEF next
<1>4. \A k \in Opened : k \in AllKeys /\ journal[k].state # "missing"
  BY DEF Opened, IsOpen
<1>5. MemStep(c) /\ Writes(c, NoKey, Missing)
  BY <1>1, <1>4, RememberKeeps, StillWrites
<1>6. PICK to \in {next, Blank} :
        Goes(c, to) /\ (to = next => job[c].as = "missing" \/ job[c].key \in fresh[c])
  BY <1>1, <1>3, BlankIs
<1>7. to \in Job /\ to.txn \in {job[c].txn, NoTxn} /\ to.queue \subseteq job[c].queue /\ to.at \in {"open", "idle"}
  BY <1>3, <1>6, BlankIs
<1>8. job'[c] = to
  BY <1>1, <1>6, <1>7, GoesTo
<1>9. JobSound(c)'
  <2>1. CASE to = next
    BY <1>1, <1>2, <1>3, <1>6, <1>8, <2>1 DEF JobSound
  <2>2. CASE to = Blank
    BY <1>8, <2>2, BlankIs DEF JobSound
  <2>3. QED BY <1>6, <2>1, <2>2
<1>10. InUse(c)
  BY <1>1, Working
<1>11. QED
  BY <1>1, <1>5, <1>6, <1>7, <1>9, <1>10, DrivesOn DEF TypeOK, Passing, Free

(* A step of a purchase call: no event is taken, and at most one record is *)
(* written.                                                                *)
LEMMA CallKeeps ==
    ASSUME JInv, NEW c \in Contexts, job[c].at \notin Passing, MemStep(c), TypeOK', Others(c), Grows,
           JobSound(c)', Tokens',
           UNCHANGED <<shop, ledger, detached, sent, overlapped>>,
           InUse(c)' => InUse(c), job'[c].at \in Free,
           NEW k, NEW r, Writes(c, k, r),
           journal' # journal => InUse(c) \/ Aside(k),
           journal' # journal => r.state \notin Granted,
           journal'[k].txn \notin {NoTxn, journal[k].txn} =>
               /\ shop[journal'[k].txn] # "none"
               /\ ~overlapped => /\ k \notin detached => Holding(journal, journal'[k].txn) \subseteq detached
                                 /\ Answering(c, journal[k].txn)' \subseteq {k},
           \A e \in inbox'[c] \cup job'[c].queue :
               e \in inbox[c] \cup job[c].queue \/ e = Cancelled \/ shop[e.txn] # "none",
           job'[c].txn \in {job[c].txn, NoTxn} \/ shop[job'[c].txn] # "none",
           \A l \in Keys : sheet'[l] \in Txns => sheet[l] = sheet'[l],
           \A t \in Txns : Answering(c, t)' \subseteq Answering(c, t)
    PROVE  Moves
<1>1. FinishedIsGranted'
  <2>1. \A j \in AllKeys : Follows(journal[j], journal'[j])
    BY DEF MemStep
  <2>2. \A j \in AllKeys : journal'[j].state \in Granted => journal[j].state \in Granted
    BY DEF Writes
  <2>3. QED BY <2>1, <2>2, GrantsKept
<1>2. Sold'
  <2>1. \A j \in AllKeys : journal'[j].txn \in {journal[j].txn, NoTxn} \/ shop'[journal'[j].txn] # "none"
    BY DEF Writes
  <2>2. QED BY <2>1, SoldKept
<1>3. ~overlapped' => Alone'
  <2>1. SUFFICES ASSUME ~overlapped PROVE Alone'
    OBVIOUS
  <2>2. Jobs'
    BY JobsKept DEF MemStep
  <2>3. Remembered(c)'
    BY <2>1, RememberedKept
  <2>4. job'[c].at # "reserve"
    BY DEF Free
  <2>5. QED BY <2>1, <2>2, <2>3, <2>4, AloneKept DEF MemStep
<1>4. QED BY <1>1, <1>2, <1>3, StepKeeps

LEMMA OpenAttemptKeeps ==
    ASSUME JInv, NEW c \in Contexts, OpenAttempt(c)
    PROVE  Moves
<1> DEFINE k == job[c].key
           r == Rec("requested", NoTxn)
           called == /\ journal'[k] = r /\ journal[k] # r
                     /\ mem'[c][k] = r /\ k \in fresh'[c]
<1>1. /\ TypeOK /\ job[c].at = "open"
      /\ \/ job[c].as = "missing" /\ Insert(c, k, r, Blank, Blank)
         \/ job[c].as # "missing" /\ Replace(c, k, r, Blank, Blank)
      /\ calls' = IF called THEN [calls EXCEPT ![c][k] = "calling"] ELSE calls
      /\ UNCHANGED <<started, inbox, scan, again, late, sheet, shop, ledger, opened, detached, sent,
                     overlapped>>
  BY DEF JInv, OpenAttempt, world
<1>2. /\ k \in Keys /\ k \in AllKeys /\ job[c].as \in {"missing", "refused"}
      /\ k \in fresh[c] /\ job[c].as = "refused" => journal[k].state = "refused"
  BY <1>1 DEF JInv, Jobs, JobSound, AllKeys
<1>3. r \in Record /\ r.state = "requested" /\ r.txn = NoTxn /\ Formed(r)
  BY RecIs DEF States, Formed, Unbought
<1> HIDE DEF r
<1>4. k \in fresh[c] /\ job[c].as = "refused" => Follows(journal[k], r)
  <2>1. SUFFICES ASSUME journal[k].state = "refused" PROVE Follows(journal[k], r)
    BY <1>2
  <2>2. Formed(journal[k])
    BY <1>2, HeldHolds DEF Held
  <2>3. QED BY <1>3, <2>1, <2>2 DEF Formed, Unbought, Follows, Granted, Terminal
<1>5. /\ MemStep(c) /\ Writes(c, k, r) /\ Goes(c, Blank)
      /\ journal' # journal => journal[k].state \in {"missing", "refused"} /\ journal'[k] = r
      /\ faults' = faults \/ Fault
  <2>1. CASE job[c].as = "missing" /\ Insert(c, k, r, Blank, Blank)
    BY <1>2, <1>3, <2>1, InsertKeeps, BlankIs, MissingIs
  <2>2. CASE job[c].as # "missing" /\ Replace(c, k, r, Blank, Blank)
    BY <1>2, <1>3, <1>4, <2>2, ReplaceKeeps, BlankIs
  <2>3. QED BY <1>1, <2>1, <2>2
<1>6. /\ calls' \in [Contexts -> [Keys -> Call]]
      /\ \A d \in Contexts, l \in Keys : calls'[d][l] = calls[d][l] \/ (d = c /\ l = k /\ calls'[c][k] = "calling" /\ called)
      /\ \A d \in Contexts \ {c} : calls'[d] = calls[d]
  <2>1. calls \in [Contexts -> [Keys -> Call]]
    BY <1>1 DEF TypeOK
  <2>2. CASE called
    <3>1. calls' = [calls EXCEPT ![c][k] = "calling"]
      BY <1>1, <2>2
    <3>2. QED BY <1>2, <2>1, <2>2, <3>1 DEF Call
  <2>3. CASE ~called
    BY <1>1, <2>1, <2>3
  <2>4. QED BY <2>2, <2>3
<1>7. called => journal[k].state \in {"missing", "refused"} /\ journal'[k].state = "requested"
  BY <1>3, <1>5
<1> HIDE DEF called
<1>8. job' \in [Contexts -> Job] /\ job'[c] = Blank /\ \A d \in Contexts \ {c} : job'[d] = job[d]
  BY <1>1, <1>5, GoesTo, BlankIs
<1>9. TypeOK'
  BY <1>1, <1>5, <1>6, <1>8, FaultBounded DEF TypeOK, MemStep, Held, Formed, Unbought
<1>10. Others(c) /\ Grows
  BY <1>1, <1>6, <1>8 DEF Others, Grows
<1>11. JobSound(c)'
  BY <1>8, BlankIs DEF JobSound
<1>12. Tokens'
  <2>1. \A j \in AllKeys : Follows(journal[j], journal'[j])
    BY <1>5 DEF MemStep
  <2>2. \A j \in Keys : journal'[j].state = "refused" => journal[j].state = "refused"
    BY <1>3, <1>5 DEF Writes, AllKeys
  <2>3. CASE ~called
    <3>1. \A d \in Contexts, l \in Keys : calls'[d][l] \in {calls[d][l], "none"}
      BY <1>6, <2>3
    <3>2. QED BY <1>1, <2>1, <2>2, <3>1, TokensKept
  <2>4. CASE called
    <3>1. /\ opened[k] = 0 /\ sheet[k] = "closed"
          /\ \A d \in Contexts : calls[d][k] \notin Unshown
          /\ \A d \in Contexts : calls[d][k] # "none" => journal[k].state # "missing"
      <4>1. k \in Keys /\ journal[k].state \in {"missing", "refused"}
        BY <1>2, <1>7, <2>4
      <4>2. opened[k] = 0 /\ sheet[k] = "closed"
        BY <4>1 DEF JInv, Tokens
      <4>3. \A d \in Contexts : calls[d][k] # "none" => journal[k].state # "missing"
        BY <4>1 DEF JInv, Tokens
      <4>4. \A d \in Contexts : calls[d][k] \in Unshown => journal[k].state # "refused"
        BY <4>1 DEF JInv, Tokens
      <4>5. "none" \notin Unshown
        BY DEF Unshown
      <4>6. QED BY <4>1, <4>2, <4>3, <4>4, <4>5
    <3>2. ASSUME NEW l \in Keys, l # k
          PROVE  \A d \in Contexts : calls'[d][l] = calls[d][l]
      BY <1>6, <3>2
    <3>3. ASSUME NEW l \in Keys, l # k
          PROVE  journal'[l] = journal[l]
      BY <1>5, <3>3 DEF Writes, AllKeys
    <3>4. \A d \in Contexts : calls'[d][k] \in Unshown => d = c
      BY <1>2, <1>6, <3>1
    <3>5. QED BY <1>1, <1>2, <1>7, <2>4, <3>1, <3>2, <3>3, <3>4 DEF JInv, Tokens
  <2>5. QED BY <2>3, <2>4
<1>13. \A t \in Txns : Answering(c, t)' \subseteq Answering(c, t)
  BY <1>1, <1>6 DEF Answering, Showing
<1>14. /\ journal' # journal => r.state \notin Granted
       /\ journal'[k].txn \in {NoTxn, journal[k].txn}
  BY <1>2, <1>3, <1>5 DEF Granted, Writes
<1>15. job[c].at \notin Passing /\ InUse(c)
  BY <1>1, Working DEF Passing
<1>16. QED
  BY <1>1, <1>5, <1>8, <1>9, <1>10, <1>11, <1>12, <1>13, <1>14, <1>15, BlankIs, CallKeeps

LEMMA ShowsKeeps ==
    ASSUME JInv, NEW c \in Contexts, NEW k \in Keys, Shows(c, k)
    PROVE  Moves
<1>1. /\ TypeOK /\ calls[c][k] = "calling"
      /\ UNCHANGED <<journal, mem, fresh, started, inbox, scan, again, job, late, shop, ledger,
                     detached, sent, overlapped>>
      /\ \/ /\ calls' = [calls EXCEPT ![c][k] = "shown"]
            /\ opened' = [opened EXCEPT ![k] = @ + 1]
            /\ sheet' = [sheet EXCEPT ![k] = "open"]
            /\ UNCHANGED faults
         \/ /\ calls' = [calls EXCEPT ![c][k] = "unstarted"]
            /\ Fault /\ UNCHANGED <<opened, sheet>>
  BY DEF JInv, Shows, memory
<1>2. /\ opened[k] = 0 /\ sheet[k] = "closed" /\ journal[k].state \notin {"missing", "refused"}
      /\ \A d \in Contexts \ {c} : calls[d][k] \notin Unshown
  BY <1>1 DEF JInv, Tokens, Unshown
<1> DEFINE asked(as) == [calls EXCEPT ![c][k] = as]
           one == [opened EXCEPT ![k] = @ + 1]
           open == [sheet EXCEPT ![k] = "open"]
<1>t. /\ calls \in [Contexts -> [Keys -> Call]]
      /\ opened \in [Keys -> Nat] /\ sheet \in [Keys -> {"closed", "open"} \cup Txns]
  BY <1>1 DEF TypeOK
<1>a. \A as \in {"shown", "unstarted"} :
        /\ asked(as) \in [Contexts -> [Keys -> Call]]
        /\ asked(as)[c][k] = as
        /\ \A l \in Keys \ {k} : asked(as)[c][l] = calls[c][l]
        /\ \A d \in Contexts \ {c} : asked(as)[d] = calls[d]
  BY <1>t DEF Call
<1>b. /\ one \in [Keys -> Nat] /\ one[k] = 1
      /\ \A l \in Keys \ {k} : one[l] = opened[l]
  BY <1>t, <1>2
<1>c. /\ open \in [Keys -> {"closed", "open"} \cup Txns] /\ open[k] = "open"
      /\ \A l \in Keys \ {k} : open[l] = sheet[l]
  BY <1>t
<1>d. \/ calls' = asked("shown") /\ opened' = one /\ sheet' = open
      \/ calls' = asked("unstarted") /\ UNCHANGED <<opened, sheet>>
  BY <1>1
<1> HIDE DEF asked, one, open
<1>3. /\ calls' \in [Contexts -> [Keys -> Call]]
      /\ calls'[c][k] \in {"shown", "unstarted"}
      /\ \A l \in Keys \ {k} : calls'[c][l] = calls[c][l]
      /\ \A d \in Contexts \ {c} : calls'[d] = calls[d]
  BY <1>a, <1>d
<1>4. /\ sheet' \in [Keys -> {"closed", "open"} \cup Txns]
      /\ \A l \in Keys \ {k} : sheet'[l] = sheet[l]
      /\ sheet'[k] \in {"closed", "open"}
      /\ opened' \in [Keys -> Nat]
      /\ \A l \in Keys \ {k} : opened'[l] = opened[l]
      /\ \/ calls'[c][k] = "shown" /\ opened'[k] = 1
         \/ opened'[k] = 0 /\ sheet'[k] = "closed"
  BY <1>2, <1>t, <1>a, <1>b, <1>c, <1>d
<1>5. TypeOK'
  BY <1>1, <1>3, <1>4, FaultBounded DEF TypeOK
<1>6. MemStep(c) /\ Writes(c, NoKey, Missing)
  BY <1>1, StillKeeps, StillWrites
<1>7. sheet[k] \notin Txns /\ sheet'[k] \notin Txns
  BY <1>2, <1>4, JournalAssumption
<1>8. Others(c) /\ Grows
  BY <1>1, <1>3, <1>4, <1>7 DEF Others, Grows
<1>9. JobSound(c)'
  <2>1. JobSound(c) /\ job[c] \in Job
    BY <1>1 DEF JInv, Jobs, TypeOK
  <2>2. job[c].at \in {"answer", "bought"} /\ (job[c].txn # NoTxn \/ job[c].as = "refused") => job[c].key # k
    BY <1>1, <2>1 DEF JobSound, Showing
  <2>3. QED BY <1>1, <1>3, <1>4, <2>1, <2>2 DEF JobSound
<1>10. Tokens'
  <2>1. ASSUME NEW l \in Keys, l # k
        PROVE  \A d \in Contexts : calls'[d][l] = calls[d][l]
    BY <1>3, <2>1
  <2>2. \A d \in Contexts : calls'[d][k] \in Unshown => d = c
    BY <1>2, <1>3
  <2>3. \A d \in Contexts : calls'[d][k] # "none" => journal[k].state # "missing"
    BY <1>2
  <2>4. \A d \in Contexts : calls'[d][k] \in Unshown => opened'[k] = 0
    BY <1>4, <2>2 DEF Unshown
  <2>5. SUFFICES ASSUME NEW l \in Keys
                 PROVE  /\ opened'[l] \in {0, 1}
                        /\ journal[l].state \in {"missing", "refused"} => opened'[l] = 0
                        /\ opened'[l] = 0 => sheet'[l] = "closed"
                        /\ \A d \in Contexts :
                            /\ calls'[d][l] # "none" => journal[l].state # "missing"
                            /\ calls'[d][l] \in Unshown =>
                                 /\ opened'[l] = 0 /\ journal[l].state # "refused"
                                 /\ \A e \in Contexts \ {d} : calls'[e][l] \notin Unshown
    BY <1>1 DEF Tokens
  <2>6. CASE l = k
    BY <1>2, <1>4, <2>2, <2>4, <2>6
  <2>7. CASE l # k
    BY <1>4, <2>1, <2>7 DEF JInv, Tokens
  <2>8. QED BY <2>6, <2>7
<1>11. \A t \in Txns : Answering(c, t)' \subseteq Answering(c, t)
  BY <1>1, <1>3, <1>4, <1>7 DEF Answering
<1>12. InUse(c)' => InUse(c)
  BY <1>1, <1>3 DEF InUse
<1>13. FinishedIsGranted'
  BY <1>1 DEF JInv, FinishedIsGranted
<1>14. Sold'
  <2>1. \A l \in Keys : sheet'[l] \in Txns => sheet[l] = sheet'[l]
    BY <1>4, <1>7
  <2>2. QED BY <1>1, <1>5, <1>8, <2>1, SoldKept
<1>15. ~overlapped' => Alone'
  <2>1. SUFFICES ASSUME ~overlapped PROVE Alone'
    BY <1>1
  <2>2. Jobs'
    BY <1>6, <1>8, <1>9, JobsKept DEF MemStep
  <2>3. Remembered(c)'
    BY <1>1, <1>6, <1>11, <2>1, RememberedKept
  <2>4. job[c].at = "reserve" => Holding(journal, job[c].txn) \subseteq detached
    BY <2>1 DEF JInv, Alone
  <2>5. \A l \in Keys : sheet'[l] \in Txns => sheet[l] = sheet'[l]
    BY <1>4, <1>7
  <2>6. QED BY <1>1, <1>6, <1>8, <1>12, <2>1, <2>2, <2>3, <2>4, <2>5, AloneKept DEF MemStep
<1>16. job'[c].at \notin Free => started'[c]
  BY <1>1 DEF JInv, Running
<1>17. QED
  BY <1>5, <1>6, <1>8, <1>9, <1>10, <1>13, <1>14, <1>15, <1>16, StepKeeps

LEMMA GoesLateKeeps ==
    ASSUME JInv, NEW c \in Contexts, NEW k \in Keys, GoesLate(c, k)
    PROVE  Moves
<1>1. /\ TypeOK /\ late' = [late EXCEPT ![c] = @ \cup {k}]
      /\ UNCHANGED <<journal, mem, fresh, started, inbox, scan, again, job, calls, sheet, shop,
                     ledger, opened, detached, sent, overlapped, faults>>
  BY DEF JInv, GoesLate, memory, world
<1>2. TypeOK'
  BY <1>1 DEF TypeOK
<1>3. Memory' /\ Jobs' /\ Running' /\ Tokens' /\ Sold' /\ FinishedIsGranted'
  BY <1>1 DEF JInv, Memory, Jobs, JobSound, Running, Tokens, Sold, FinishedIsGranted
<1>4. ~overlapped' => Alone'
  BY <1>1 DEF JInv, Alone, InUse, Holding, Remembered, Answering
<1>5. QED BY <1>1, <1>2, <1>3, <1>4, FollowsItself DEF JInv, Moves

LEMMA ReturnsIs ==
    ASSUME TypeOK, NEW c \in Contexts, NEW k \in Keys,
           Returns(c, k) \/ UNCHANGED <<calls, late>>
    PROVE  /\ calls' \in [Contexts -> [Keys -> Call]] /\ late' \in [Contexts -> SUBSET Keys]
           /\ \A l \in Keys : calls'[c][l] \in {calls[c][l], "none"}
           /\ \A d \in Contexts \ {c} : calls'[d] = calls[d]
           /\ Returns(c, k) => calls'[c][k] = "none"
<1>1. calls \in [Contexts -> [Keys -> Call]] /\ late \in [Contexts -> SUBSET Keys] /\ "none" \in Call
  BY DEF TypeOK, Call
<1>2. CASE Returns(c, k)
  <2>1. /\ calls' = [calls EXCEPT ![c][k] = "none"]
        /\ late' = [late EXCEPT ![c] = @ \ {k}]
    BY <1>2 DEF Returns
  <2>2. late' \in [Contexts -> SUBSET Keys]
    BY <1>1, <2>1
  <2>3. QED BY <1>1, <2>1, <2>2
<1>3. CASE UNCHANGED <<calls, late>> /\ ~Returns(c, k)
  BY <1>1, <1>3
<1>4. QED BY <1>2, <1>3

LEMMA RecordAnswerKeeps ==
    ASSUME JInv, NEW c \in Contexts, NEW k \in Keys, RecordAnswer(c, k)
    PROVE  Moves
<1> DEFINE asked == journal[k].state \in {"requested", "refused"}
           hear(as, t) == [Blank EXCEPT !.at = "answer", !.key = k, !.txn = t, !.as = as]
<1>1. /\ TypeOK /\ job[c].at = "idle" /\ calls[c][k] # "none"
      /\ Remember(c, {k})
      /\ IF asked THEN UNCHANGED <<calls, late>> ELSE Returns(c, k)
      /\ UNCHANGED <<journal, started, inbox, scan, again, shop, ledger, opened, detached, sent,
                     overlapped, faults>>
  BY DEF JInv, RecordAnswer
<1> DEFINE Heard(as, t) ==
             /\ Goes(c, IF asked THEN hear(as, t) ELSE Blank)
             /\ sheet' = IF as = "cancelled" THEN [sheet EXCEPT ![k] = "closed"] ELSE sheet
             /\ as = "refused" => calls[c][k] = "unstarted"
             /\ as = "cancelled" => sheet[k] = "open"
             /\ t = NoTxn => as \notin Bought
             /\ t # NoTxn => as \in Bought /\ sheet[k] = t /\ calls[c][k] \in Showing /\ shop[t] # "none"
           Said == {"launched", "failed", "cancelled", "refused"} \cup Bought
<1>2. PICK as \in Said, t \in Txns \cup {NoTxn} : Heard(as, t)
  <2>1. CASE calls[c][k] = "unstarted" /\ Goes(c, IF asked THEN hear("refused", NoTxn) ELSE Blank) /\ UNCHANGED sheet
    <3>1. Heard("refused", NoTxn)
      BY <2>1 DEF Bought
    <3>2. QED BY <3>1
  <2>2. ASSUME NEW answer \in Answers(k), calls[c][k] = "shown",
               Goes(c, IF asked THEN hear(answer[1], answer[2]) ELSE Blank),
               sheet' = IF answer[1] = "cancelled" THEN [sheet EXCEPT ![k] = "closed"] ELSE sheet
        PROVE  \E as \in Said, t \in Txns \cup {NoTxn} : Heard(as, t)
    <3>1. \/ answer = <<"launched", NoTxn>> \/ answer = <<"failed", NoTxn>>
          \/ answer = <<"cancelled", NoTxn>> /\ sheet[k] = "open"
          \/ \E said \in Bought : sheet[k] \in Txns /\ answer = <<said, sheet[k]>>
      BY <2>2 DEF Answers, Sales, Bought
    <3>2. ASSUME NEW said \in Bought, sheet[k] \in Txns, answer = <<said, sheet[k]>>
          PROVE  \E heard \in Said, t \in Txns \cup {NoTxn} : Heard(heard, t)
      <4>1. sheet[k] # NoTxn /\ shop[sheet[k]] # "none" /\ calls[c][k] \in Showing
        BY <2>2, <3>2, JournalAssumption DEF JInv, Sold, Showing
      <4>2. answer[1] = said /\ answer[2] = sheet[k] /\ answer[1] \notin {"cancelled", "refused"}
        BY <3>2 DEF Bought
      <4>3. Heard(said, sheet[k])
        BY <2>2, <3>2, <4>1, <4>2
      <4>4. QED BY <3>2, <4>3
    <3>3. CASE answer \in {<<"launched", NoTxn>>, <<"failed", NoTxn>>}
      <4>1. answer[1] \in {"launched", "failed"} /\ answer[2] = NoTxn
        BY <3>3
      <4>2. Heard(answer[1], NoTxn)
        BY <2>2, <4>1 DEF Bought
      <4>3. QED BY <4>1, <4>2
    <3>4. CASE answer = <<"cancelled", NoTxn>> /\ sheet[k] = "open"
      <4>1. answer[1] = "cancelled" /\ answer[2] = NoTxn
        BY <3>4
      <4>2. Heard("cancelled", NoTxn)
        BY <2>2, <3>4, <4>1 DEF Bought
      <4>3. QED BY <4>2
    <3>5. QED BY <3>1, <3>2, <3>3, <3>4
  <2>3. QED BY <2>1, <2>2 DEF RecordAnswer
<1> DEFINE to == IF asked THEN hear(as, t) ELSE Blank
<1>3. /\ to \in Job
      /\ asked => to.at = "answer" /\ to.key = k /\ to.txn = t /\ to.as = as /\ to.queue = {}
      /\ ~asked => to = Blank
  <2>1. as \in States
    BY DEF States, Waiting, Granted, Terminal, Bought
  <2>2. k \in AllKeys
    BY DEF AllKeys
  <2>3. hear(as, t) \in Job /\ hear(as, t).at = "answer" /\ hear(as, t).key = k /\ hear(as, t).txn = t
        /\ hear(as, t).as = as /\ hear(as, t).queue = {}
    BY <2>1, <2>2 DEF Blank, Job
  <2>4. QED BY <2>3, BlankIs
<1>4. Goes(c, to)
  BY <1>2
<1> HIDE DEF to
<1>5. /\ job' \in [Contexts -> Job] /\ job'[c] = to
      /\ \A d \in Contexts \ {c} : job'[d] = job[d]
  BY <1>1, <1>3, <1>4, GoesTo
<1>6. /\ calls' \in [Contexts -> [Keys -> Call]] /\ late' \in [Contexts -> SUBSET Keys]
      /\ \A l \in Keys : calls'[c][l] \in {calls[c][l], "none"}
      /\ asked => calls' = calls
      /\ \A d \in Contexts \ {c} : calls'[d] = calls[d]
  BY <1>1, ReturnsIs
<1>7. /\ sheet' \in [Keys -> {"closed", "open"} \cup Txns]
      /\ \A l \in Keys : sheet'[l] = sheet[l] \/ (sheet[l] = "open" /\ sheet'[l] = "closed")
      /\ as # "cancelled" => sheet' = sheet
  <2>1. sheet \in [Keys -> {"closed", "open"} \cup Txns]
    BY <1>1 DEF TypeOK
  <2>2. CASE as = "cancelled"
    BY <1>2, <2>1, <2>2
  <2>3. CASE as # "cancelled"
    BY <1>2, <2>1, <2>3
  <2>4. QED BY <2>2, <2>3
<1>8. MemStep(c)
  <2>1. {k} \in SUBSET AllKeys /\ journal[k].state # "missing"
    BY <1>1 DEF JInv, Tokens, AllKeys
  <2>2. QED BY <1>1, <2>1, RememberKeeps
<1>9. TypeOK'
  BY <1>1, <1>5, <1>6, <1>7, <1>8 DEF TypeOK, MemStep, Held, Formed, Unbought
<1>10. Others(c) /\ Grows
  BY <1>1, <1>5, <1>6, <1>7, JournalAssumption DEF Others, Grows
<1>11. JobSound(c)'
  <2>1. CASE asked
    <3>1. /\ job'[c].at = "answer" /\ job'[c].key = k /\ job'[c].txn = t /\ job'[c].as = as
          /\ calls' = calls /\ journal' = journal
      BY <1>1, <1>3, <1>5, <1>6, <2>1
    <3>2. t # NoTxn => as \in Bought /\ sheet'[k] = t /\ calls[c][k] \in Showing
      BY <1>2, <1>7 DEF Bought
    <3>3. t = NoTxn => as \in {"launched", "failed", "cancelled", "refused"}
      BY <1>2
    <3>4. as = "refused" => calls[c][k] = "unstarted"
      BY <1>2
    <3>5. QED BY <2>1, <3>1, <3>2, <3>3, <3>4 DEF JobSound
  <2>2. CASE ~asked
    BY <1>3, <1>5, <2>2, BlankIs DEF JobSound
  <2>3. QED BY <2>1, <2>2
<1>12. Tokens'
  <2>1. \A d \in Contexts, l \in Keys : calls'[d][l] \in {calls[d][l], "none"}
    BY <1>6
  <2>2. \A l \in Keys : sheet[l] = "closed" => sheet'[l] = "closed"
    BY <1>7
  <2>3. QED BY <1>1, <2>1, <2>2, TokensKept, FollowsItself
<1>13. \A u \in Txns : Answering(c, u)' \subseteq Answering(c, u)
  BY <1>1, <1>6, <1>7, JournalAssumption DEF Answering, Showing
<1>14. Writes(c, NoKey, Missing) /\ journal'[NoKey].txn \in {journal[NoKey].txn}
  BY <1>1, StillWrites
<1>15. job'[c].queue = {} /\ job'[c].txn \in {NoTxn, t} /\ job'[c].at # "reserve"
  BY <1>3, <1>5, BlankIs
<1>16. \A l \in Keys : sheet'[l] \in Txns => sheet[l] = sheet'[l]
  BY <1>7, JournalAssumption
<1>17. job[c].at \notin Passing /\ job'[c].at \in Free /\ (InUse(c)' => InUse(c))
  <2>1. job'[c].at \in {"answer", "idle"}
    BY <1>3, <1>5, BlankIs
  <2>2. QED BY <1>1, <1>6, <2>1 DEF Passing, Free, InUse
<1>18. QED
  BY <1>1, <1>2, <1>8, <1>9, <1>10, <1>11, <1>12, <1>13, <1>14, <1>15, <1>16, <1>17, CallKeeps

LEMMA JournalAnswerKeeps ==
    ASSUME JInv, NEW c \in Contexts, JournalAnswer(c)
    PROVE  Moves
<1> DEFINE k == job[c].key
           t == job[c].txn
           bought == t # NoTxn
           r == IF bought THEN Rec("launched", NoTxn) ELSE Rec(job[c].as, NoTxn)
           go == [job[c] EXCEPT !.at = "bought"]
           won == IF bought THEN go ELSE Blank
<1>1. /\ TypeOK /\ job[c].at = "answer"
      /\ Replace(c, k, r, won, Blank)
      /\ IF job'[c].at = "bought" THEN UNCHANGED <<calls, late>> ELSE Returns(c, k)
      /\ UNCHANGED <<started, inbox, scan, again, sheet, shop, ledger, opened, detached, sent,
                     overlapped>>
  BY DEF JInv, JournalAnswer, world
<1>2. job[c] \in Job
  BY <1>1 DEF TypeOK
<1>3. /\ k \in Keys /\ k \in AllKeys /\ t \in Txns \cup {NoTxn}
      /\ bought => /\ job[c].as \in Bought /\ sheet[k] = t
                   /\ calls[c][k] \in Showing
      /\ ~bought => job[c].as \in {"launched", "failed", "cancelled", "refused"}
      /\ job[c].as = "refused" => calls[c][k] = "unstarted"
      /\ k \in fresh[c] => journal[k].state \in {"requested", "refused"}
  BY <1>1, <1>2 DEF JInv, Jobs, JobSound, AllKeys, Job
<1>4. /\ go \in Job /\ go.at = "bought" /\ go.key = k /\ go.txn = t
      /\ go.as = job[c].as /\ go.queue = job[c].queue
  BY <1>2 DEF Job
<1>5. /\ won \in Job /\ won.at # "reserve" /\ won.txn \in {t, NoTxn}
      /\ won.queue \subseteq job[c].queue
      /\ bought => won = go
      /\ ~bought => won = Blank
  BY <1>4, BlankIs
<1>6. /\ r \in Record /\ r.txn = NoTxn /\ r.state \in {"launched", "failed", "cancelled", "refused"}
      /\ bought => r = Rec("launched", NoTxn)
      /\ r.state = "refused" => ~bought /\ job[c].as = "refused"
  <2>1. Rec("launched", NoTxn) \in Record /\ Rec("launched", NoTxn).txn = NoTxn
        /\ Rec("launched", NoTxn).state = "launched"
    BY RecIs DEF States, Waiting
  <2>2. \A s \in {"launched", "failed", "cancelled", "refused"} :
            Rec(s, NoTxn) \in Record /\ Rec(s, NoTxn).txn = NoTxn /\ Rec(s, NoTxn).state = s
    BY RecIs DEF States, Waiting, Terminal
  <2>3. QED BY <1>3, <2>1, <2>2
<1> HIDE DEF go, won, r
<1>7. Formed(r) /\ r.state # "missing" /\ r.state \notin Granted
  BY <1>6 DEF Formed, Unbought, Granted
<1>8. k \in fresh[c] => Follows(journal[k], r)
  <2>1. SUFFICES ASSUME journal[k].state \in {"requested", "refused"} PROVE Follows(journal[k], r)
    BY <1>3
  <2>2. Formed(journal[k])
    BY <1>3, HeldHolds DEF Held
  <2>3. QED BY <1>7, <2>1, <2>2 DEF Formed, Unbought, Follows, Granted, Terminal
<1>9. /\ MemStep(c) /\ Writes(c, k, r)
      /\ \/ /\ Goes(c, won) /\ journal'[k] = r
         \/ Goes(c, Blank)
      /\ journal' # journal => journal'[k] = r
      /\ faults' \in {faults, faults + 1} /\ (faults' # faults => Fault)
  BY <1>1, <1>3, <1>5, <1>6, <1>7, <1>8, BlankIs, ReplaceKeeps
<1>10. /\ job' \in [Contexts -> Job] /\ \A d \in Contexts \ {c} : job'[d] = job[d]
       /\ \/ job'[c] = won /\ journal'[k] = r
          \/ job'[c] = Blank
  BY <1>1, <1>5, <1>9, BlankIs, GoesTo
<1>11. /\ calls' \in [Contexts -> [Keys -> Call]] /\ late' \in [Contexts -> SUBSET Keys]
       /\ \A l \in Keys : calls'[c][l] \in {calls[c][l], "none"}
       /\ job'[c].at = "bought" => calls' = calls
       /\ job'[c].at # "bought" => calls'[c][k] = "none"
       /\ \A d \in Contexts \ {c} : calls'[d] = calls[d]
  BY <1>1, <1>3, ReturnsIs
<1>12. TypeOK'
  <2>1. faults' \in 0 .. MaxFaults
    BY <1>1, <1>9, FaultBounded DEF Fault
  <2>2. QED BY <1>1, <1>9, <1>10, <1>11, <2>1 DEF TypeOK, MemStep, Held, Formed, Unbought
<1>13. Others(c) /\ Grows
  BY <1>1, <1>10, <1>11 DEF Others, Grows
<1>14. JobSound(c)'
  <2>1. CASE job'[c] = Blank \/ ~bought
    <3>1. job'[c] = Blank
      BY <1>5, <1>10, <2>1
    <3>2. QED BY <3>1, BlankIs DEF JobSound
  <2>2. CASE job'[c] = go /\ journal'[k] = r /\ bought
    <3>1. /\ job'[c].at = "bought" /\ job'[c].key = k /\ job'[c].txn = t /\ job'[c].as = job[c].as
          /\ calls' = calls /\ journal'[k] = Rec("launched", NoTxn)
      BY <1>4, <1>6, <1>11, <2>2
    <3>2. QED BY <1>1, <1>3, <2>2, <3>1 DEF JobSound, Bought
  <2>3. QED BY <1>5, <1>10, <2>1, <2>2
<1>15. Tokens'
  <2>1. \A j \in AllKeys : Follows(journal[j], journal'[j])
    BY <1>9 DEF MemStep
  <2>2. CASE \A l \in Keys : journal'[l].state = "refused" => journal[l].state = "refused"
    BY <1>1, <1>11, <2>1, <2>2, TokensKept
  <2>3. CASE journal'[k].state = "refused" /\ journal'[k] = r
    <3>1. ~bought /\ calls[c][k] = "unstarted" /\ calls'[c][k] = "none"
      <4>1. ~bought /\ calls[c][k] = "unstarted"
        BY <1>3, <1>6, <2>3
      <4>2. job'[c] = Blank
        BY <1>5, <1>10, <4>1
      <4>3. QED BY <1>11, <4>1, <4>2, BlankIs
    <3>2. /\ opened[k] = 0
          /\ \A d \in Contexts \ {c} : calls[d][k] \notin Unshown
      BY <1>3, <3>1 DEF JInv, Tokens, Unshown
    <3>3. \A d \in Contexts : calls'[d][k] \notin Unshown
      BY <1>11, <3>1, <3>2 DEF Unshown
    <3>4. \A d \in Contexts, l \in Keys : calls'[d][l] \in {calls[d][l], "none"}
      BY <1>11
    <3>5. \A l \in Keys \ {k} : journal'[l] = journal[l]
      BY <1>9 DEF Writes, AllKeys
    <3>6. "none" \notin Unshown
      BY DEF Unshown
    <3>7. ASSUME NEW l \in Keys, l # k
          PROVE  /\ opened'[l] \in {0, 1}
                 /\ journal'[l].state \in {"missing", "refused"} => opened'[l] = 0
                 /\ opened'[l] = 0 => sheet'[l] = "closed"
                 /\ \A d \in Contexts :
                     /\ calls'[d][l] # "none" => journal'[l].state # "missing"
                     /\ calls'[d][l] \in Unshown =>
                          /\ opened'[l] = 0 /\ journal'[l].state # "refused"
                          /\ \A e \in Contexts \ {d} : calls'[e][l] \notin Unshown
      <4>1. journal'[l] = journal[l]
        BY <3>5, <3>7
      <4>2. QED BY <1>1, <3>4, <3>6, <4>1 DEF JInv, Tokens
    <3>8. /\ opened'[k] = 0 /\ sheet'[k] = "closed" /\ journal'[k].state # "missing"
      BY <1>1, <1>3, <2>3, <3>2 DEF JInv, Tokens
    <3>9. QED BY <3>3, <3>7, <3>8 DEF Tokens
  <2>4. QED BY <1>9, <2>2, <2>3 DEF Writes, AllKeys
<1>16. \A u \in Txns : Answering(c, u)' \subseteq Answering(c, u)
  BY <1>1, <1>11 DEF Answering, Showing
<1>17. /\ journal' # journal => r.state \notin Granted
       /\ journal'[k].txn \in {NoTxn, journal[k].txn}
  BY <1>6, <1>7, <1>9
<1>18. /\ job'[c].queue \subseteq job[c].queue /\ job'[c].txn \in {job[c].txn, NoTxn}
       /\ job'[c].at # "reserve"
  BY <1>5, <1>10, BlankIs
<1>19. job[c].at \notin Passing /\ job'[c].at \in Free /\ (InUse(c)' => InUse(c))
  <2>1. job'[c].at \in {"bought", "idle"}
    BY <1>4, <1>5, <1>10, BlankIs
  <2>2. QED BY <1>1, <1>11, <2>1 DEF Passing, Free, InUse
<1>20. journal' # journal => Aside(k)
  <2>1. journal' # journal => journal'[k].txn = NoTxn /\ Follows(journal[k], journal'[k])
    BY <1>3, <1>6, <1>9 DEF MemStep
  <2>2. QED BY <2>1 DEF Aside, Follows
<1>21. QED
  BY <1>1, <1>9, <1>12, <1>13, <1>14, <1>15, <1>16, <1>17, <1>18, <1>19, <1>20, CallKeeps

LEMMA JournalBoughtKeeps ==
    ASSUME JInv, NEW c \in Contexts, JournalBought(c)
    PROVE  Moves
<1>0. PICK k \in Keys, t \in Txns : k = job[c].key /\ t = job[c].txn
  <2>1. JobSound(c) /\ job[c].at = "bought"
    BY DEF JInv, Jobs, JournalBought
  <2>2. QED BY <2>1 DEF JobSound
<1> DEFINE held == Holding(mem[c], t) \ {k} # {}
           r == IF held THEN Rec("failed", NoTxn) ELSE Rec(job[c].as, t)
<1>1. /\ TypeOK /\ job[c].at = "bought"
      /\ Replace(c, k, r, Blank, Blank)
      /\ Returns(c, k)
      /\ UNCHANGED <<started, inbox, scan, again, sheet, shop, ledger, opened, detached, sent,
                     overlapped>>
  BY <1>0 DEF JInv, JournalBought, world
<1>2. /\ k \in Keys /\ k \in AllKeys /\ t \in Txns /\ t # NoTxn
      /\ job[c].as \in Bought /\ sheet[k] = t /\ calls[c][k] \in Showing
      /\ k \in fresh[c] => journal[k] = Rec("launched", NoTxn)
  BY <1>0, <1>1, JournalAssumption DEF JInv, Jobs, JobSound, AllKeys
<1>3. /\ r \in Record /\ Formed(r) /\ r.state \in {"failed", "pending", "purchased"}
      /\ r.txn = IF held THEN NoTxn ELSE t
  <2>1. Rec("failed", NoTxn) \in Record /\ Rec("failed", NoTxn).txn = NoTxn
        /\ Rec("failed", NoTxn).state = "failed"
    BY RecIs DEF States, Terminal
  <2>2. Rec(job[c].as, t) \in Record /\ Rec(job[c].as, t).txn = t /\ Rec(job[c].as, t).state = job[c].as
    BY <1>2, RecIs DEF States, Waiting, Bought
  <2>3. QED BY <1>2, <2>1, <2>2 DEF Formed, Unbought, Bought
<1> HIDE DEF held, r
<1>4. k \in fresh[c] => Follows(journal[k], r)
  <2>1. Rec("launched", NoTxn).state = "launched" /\ Rec("launched", NoTxn).txn = NoTxn
    BY DEF Rec
  <2>2. QED BY <1>2, <1>3, <2>1 DEF Follows, Granted, Terminal
<1>5. /\ MemStep(c) /\ Writes(c, k, r) /\ Goes(c, Blank)
      /\ journal' # journal => journal'[k] = r /\ k \in fresh[c]
      /\ faults' \in {faults, faults + 1} /\ (faults' # faults => Fault)
  BY <1>1, <1>2, <1>3, <1>4, BlankIs, ReplaceKeeps
<1>6. /\ job' \in [Contexts -> Job] /\ job'[c] = Blank
      /\ \A d \in Contexts \ {c} : job'[d] = job[d]
  BY <1>1, <1>5, BlankIs, GoesTo
<1>7. /\ calls' \in [Contexts -> [Keys -> Call]] /\ late' \in [Contexts -> SUBSET Keys]
      /\ \A l \in Keys : calls'[c][l] \in {calls[c][l], "none"}
      /\ \A d \in Contexts \ {c} : calls'[d] = calls[d]
  BY <1>1, ReturnsIs
<1>8. TypeOK'
  <2>1. faults' \in 0 .. MaxFaults
    BY <1>1, <1>5, FaultBounded DEF Fault
  <2>2. QED BY <1>1, <1>5, <1>6, <1>7, <2>1 DEF TypeOK, MemStep, Held, Formed, Unbought
<1>9. Others(c) /\ Grows
  BY <1>1, <1>6, <1>7 DEF Others, Grows
<1>10. JobSound(c)'
  BY <1>6, BlankIs DEF JobSound
<1>11. Tokens'
  <2>1. \A j \in AllKeys : Follows(journal[j], journal'[j])
    BY <1>5 DEF MemStep
  <2>2. \A l \in Keys : journal'[l].state = "refused" => journal[l].state = "refused"
    BY <1>3, <1>5 DEF Writes, AllKeys
  <2>3. \A d \in Contexts, l \in Keys : calls'[d][l] \in {calls[d][l], "none"}
    BY <1>7
  <2>4. QED BY <1>1, <2>1, <2>2, <2>3, TokensKept
<1>12. \A u \in Txns : Answering(c, u)' \subseteq Answering(c, u)
  BY <1>1, <1>7 DEF Answering, Showing
<1>13. ASSUME journal'[k].txn \notin {NoTxn, journal[k].txn}
       PROVE  /\ shop[journal'[k].txn] # "none"
              /\ ~overlapped => /\ k \notin detached => Holding(journal, journal'[k].txn) \subseteq detached
                                /\ Answering(c, journal[k].txn)' \subseteq {k}
  <2>1. journal'[k] = r /\ r.txn = t /\ ~held /\ k \in fresh[c] /\ journal'[k].txn = t
    BY <1>3, <1>5, <1>13
  <2>2. shop[t] # "none"
    BY <1>0, <1>1, <1>2, JournalAssumption DEF JInv, Sold
  <2>3. ASSUME ~overlapped, k \notin detached, NEW j \in AllKeys, journal[j].txn = t
        PROVE  FALSE
    <3>1. j # k
      BY <1>13, <2>1, <2>3
    <3>2. mem[c][j].txn # t
      BY <2>1, <3>1 DEF held, Holding
    <3>3. Answering(c, t) \subseteq {j}
      <4>1. Remembered(c)
        BY <2>3 DEF JInv, Alone
      <4>2. QED BY <1>1, <1>2, <2>3, <3>2, <4>1 DEF Remembered, Passing
    <3>4. k \in Answering(c, t)
      BY <1>2, <2>3 DEF Answering
    <3>5. QED BY <3>1, <3>3, <3>4
  <2>4. ~overlapped /\ k \notin detached => Holding(journal, t) \subseteq detached
    BY <2>3 DEF Holding
  <2>5. \A l \in Keys \ {k} : sheet[l] # t
    BY <1>2 DEF JInv, Sold
  <2>6. Answering(c, journal[k].txn)' \subseteq {k}
    BY <1>1, <2>1, <2>5 DEF Answering
  <2>7. QED BY <2>1, <2>2, <2>4, <2>6
<1>14. journal' # journal => r.state \notin Granted
  BY <1>3 DEF Granted
<1>15. job[c].at \notin Passing /\ job'[c].at \in Free /\ (InUse(c)' => InUse(c))
  BY <1>1, <1>6, <1>7, BlankIs DEF Passing, InUse
<1>16. journal' # journal => InUse(c) \/ Aside(k)
  <2>1. k \in detached \/ InUse(c)
    BY <1>2 DEF InUse, Showing
  <2>2. journal' # journal => journal[k] = Rec("launched", NoTxn) /\ journal'[k].txn \in {NoTxn, t}
    BY <1>2, <1>3, <1>5
  <2>3. Rec("launched", NoTxn).txn = NoTxn
    BY DEF Rec
  <2>4. QED BY <1>2, <2>1, <2>2, <2>3 DEF Aside
<1>17. QED
  BY <1>1, <1>5, <1>6, <1>8, <1>9, <1>10, <1>11, <1>12, <1>13, <1>14, <1>15, <1>16,
     BlankIs, CallKeeps

LEMMA ReportsKeeps ==
    ASSUME JInv, NEW c \in Contexts, Reports(c)
    PROVE  Moves
<1>1. /\ TypeOK /\ started[c]
      /\ UNCHANGED <<journal, mem, fresh, started, scan, again, job, calls, late, shop, ledger,
                     opened, detached, sent, overlapped, faults>>
  BY DEF JInv, Reports, memory
<1>2. PICK e \in Available \cup {Cancelled} :
        /\ inbox' = [inbox EXCEPT ![c] = @ \cup {e}]
        /\ \/ UNCHANGED sheet
           \/ \E k \in Keys : sheet[k] = "open" /\ sheet' = [sheet EXCEPT ![k] = "closed"]
  BY DEF Reports
<1>3. e \in Event /\ (e # Cancelled => shop[e.txn] # "none")
  BY <1>1, EventsAre
<1>4. /\ inbox' \in [Contexts -> SUBSET Event] /\ inbox'[c] = inbox[c] \cup {e}
      /\ \A d \in Contexts \ {c} : inbox'[d] = inbox[d]
  BY <1>1, <1>2, <1>3 DEF TypeOK
<1>5. /\ sheet' \in [Keys -> {"closed", "open"} \cup Txns]
      /\ \A l \in Keys : sheet'[l] = sheet[l] \/ (sheet[l] = "open" /\ sheet'[l] = "closed")
  <2>1. sheet \in [Keys -> {"closed", "open"} \cup Txns]
    BY <1>1 DEF TypeOK
  <2>2. QED BY <1>2, <2>1
<1>6. TypeOK'
  BY <1>1, <1>4, <1>5 DEF TypeOK
<1>7. MemStep(c) /\ Writes(c, NoKey, Missing)
  BY <1>1, StillKeeps, StillWrites
<1>8. Others(c) /\ Grows
  BY <1>1, <1>4, <1>5, JournalAssumption DEF Others, Grows
<1>9. JobSound(c)'
  BY <1>1, <1>8, JobStays
<1>10. Tokens'
  <2>1. \A l \in Keys : sheet[l] = "closed" => sheet'[l] = "closed"
    BY <1>5
  <2>2. QED BY <1>1, <2>1, TokensKept, FollowsItself
<1>11. \A t \in Txns : Answering(c, t)' \subseteq Answering(c, t)
  BY <1>1, <1>5, JournalAssumption DEF Answering, Showing
<1>12. FinishedIsGranted'
  BY <1>1 DEF JInv, FinishedIsGranted
<1>13. Sold'
  <2>1. \A l \in Keys : sheet'[l] \in Txns => sheet[l] = sheet'[l]
    BY <1>5, JournalAssumption
  <2>2. QED BY <1>1, <1>3, <1>4, <1>6, <1>8, <2>1, SoldKept
<1>14. ~overlapped' => Alone'
  <2>1. SUFFICES ASSUME ~overlapped PROVE Alone'
    BY <1>1
  <2>2. Jobs'
    BY <1>7, <1>8, <1>9, JobsKept DEF MemStep
  <2>3. Remembered(c)'
    BY <1>1, <1>7, <1>11, <2>1, RememberedKept
  <2>4. job[c].at = "reserve" => Holding(journal, job[c].txn) \subseteq detached
    BY <2>1 DEF JInv, Alone
  <2>5. \A l \in Keys : sheet'[l] \in Txns => sheet[l] = sheet'[l]
    BY <1>5, JournalAssumption
  <2>6. InUse(c)
    BY <1>1 DEF InUse
  <2>7. QED BY <1>1, <1>7, <1>8, <2>1, <2>2, <2>3, <2>4, <2>5, <2>6, AloneKept DEF MemStep
<1>15. QED
  BY <1>1, <1>6, <1>7, <1>8, <1>9, <1>10, <1>12, <1>13, <1>14, StepKeeps

LEMMA InitHolds ==
    ASSUME Init
    PROVE  JInv
<1>1. /\ journal = [k \in AllKeys |-> Missing] /\ mem = [c \in Contexts |-> journal]
      /\ fresh = [c \in Contexts |-> {}] /\ inbox = [c \in Contexts |-> {}]
      /\ scan = [c \in Contexts |-> FALSE] /\ again = [c \in Contexts |-> {}]
      /\ job = [c \in Contexts |-> Blank]
      /\ started = [c \in Contexts |-> FALSE] /\ late = [c \in Contexts |-> {}]
      /\ calls = [c \in Contexts |-> [k \in Keys |-> "none"]]
      /\ sheet = [k \in Keys |-> "closed"] /\ shop \in [Txns -> {"none", "purchased"}]
      /\ ledger = [t \in Txns |-> "none"] /\ opened = [k \in Keys |-> 0]
      /\ detached = {} /\ sent = {} /\ overlapped = FALSE /\ faults = 0
  BY DEF Init
<1>2. \A k \in AllKeys : journal[k] = Missing
  BY <1>1
<1>3. journal \in [AllKeys -> Record] /\ mem \in [Contexts -> [AllKeys -> Record]]
  BY <1>1, MissingIs
<1>4. TypeOK
  <2>1. /\ fresh \in [Contexts -> SUBSET AllKeys] /\ inbox \in [Contexts -> SUBSET Event]
        /\ started \in [Contexts -> BOOLEAN] /\ late \in [Contexts -> SUBSET Keys]
        /\ detached \subseteq Keys
        /\ scan \in [Contexts -> BOOLEAN] /\ again \in [Contexts -> SUBSET Txns]
    BY <1>1
  <2>2. job \in [Contexts -> Job]
    BY <1>1, BlankIs
  <2>3. calls \in [Contexts -> [Keys -> Call]] /\ sheet \in [Keys -> {"closed", "open"} \cup Txns]
    BY <1>1 DEF Call
  <2>4. /\ shop \in [Txns -> {"none", "pending", "purchased", "finished"}]
        /\ ledger \in [Txns -> {"none", "granted", "rejected"}]
        /\ opened \in [Keys -> Nat] /\ sent \subseteq Txns \X AllKeys
        /\ overlapped \in BOOLEAN /\ faults \in 0 .. MaxFaults
    <3>1. shop \in [Txns -> {"none", "pending", "purchased", "finished"}]
      BY <1>1
    <3>2. ledger \in [Txns -> {"none", "granted", "rejected"}]
      BY <1>1
    <3>3. opened \in [Keys -> Nat]
      BY <1>1
    <3>4. sent \subseteq Txns \X AllKeys
      BY <1>1
    <3>5. overlapped \in BOOLEAN
      BY <1>1
    <3>6. faults \in 0 .. MaxFaults
      BY <1>1, JournalAssumption
    <3>7. QED BY <3>1, <3>2, <3>3, <3>4, <3>5, <3>6
  <2>5. \A c \in Contexts : \A k \in fresh[c] : mem[c][k] = journal[k]
    BY <1>1
  <2>6. \A k \in AllKeys : Formed(journal[k])
    BY <1>2, MissingIs
  <2>7. QED BY <1>3, <2>1, <2>2, <2>3, <2>4, <2>5, <2>6 DEF TypeOK, Formed, Unbought
<1>5. Memory
  <2>1. \A c \in Contexts, k \in AllKeys : mem[c][k] = Missing
    BY <1>1
  <2>2. QED BY <1>1, <1>2, <2>1, MissingIs, FollowsItself DEF Memory
<1>6. \A c \in Contexts : job[c].at = "idle" /\ job[c].txn = NoTxn /\ job[c].queue = {}
  BY <1>1, BlankIs
<1>7. \A c \in Contexts, k \in Keys : calls[c][k] = "none"
  BY <1>1
<1>8. Jobs /\ Running
  BY <1>6, <1>7 DEF Jobs, JobSound, Running, Free
<1>9. Tokens
  BY <1>1, <1>7 DEF Tokens, Unshown
<1>10. Sold
  <2>1. \A k \in Keys : sheet[k] \notin Txns
    BY <1>1, JournalAssumption
  <2>2. QED BY <1>1, <1>2, <1>6, <2>1, MissingIs DEF Sold
<1>11. FinishedIsGranted
  BY <1>1, <1>2, MissingIs DEF FinishedIsGranted, Granted
<1>12. Alone
  <2>1. \A k \in AllKeys : journal[k].txn = NoTxn
    BY <1>2, MissingIs
  <2>2. \A c \in Contexts : Remembered(c)
    BY <2>1, JournalAssumption DEF Remembered
  <2>3. \A c \in Contexts : ~InUse(c)
    BY <1>1, <1>6, <1>7 DEF InUse
  <2>4. QED BY <1>1, <1>6, <2>1, <2>2, <2>3 DEF Alone
<1>13. QED BY <1>4, <1>5, <1>8, <1>9, <1>10, <1>11, <1>12 DEF JInv

LEMMA NextKeeps ==
    ASSUME JInv, [Next]_vars
    PROVE  Moves
<1>1. CASE UNCHANGED vars
  <2>1. UNCHANGED <<journal, mem, fresh, started, inbox, scan, again, job, calls, late, sheet, shop,
                    ledger, opened, detached, sent, overlapped, faults>>
    BY <1>1 DEF vars, client, world, memory
  <2>2. TypeOK' /\ Memory' /\ Jobs' /\ Running' /\ Tokens' /\ Sold' /\ FinishedIsGranted'
    BY <2>1 DEF JInv, TypeOK, Memory, Jobs, JobSound, Running, Tokens, Sold, FinishedIsGranted
  <2>3. ~overlapped' => Alone'
    BY <2>1 DEF JInv, Alone, InUse, Holding, Remembered, Answering
  <2>4. QED BY <2>1, <2>2, <2>3, FollowsItself DEF JInv, Moves
<1>2. ASSUME NEW c \in Contexts, Opens(c) \/ Stops(c) \/ Dies(c) \/ PassStarts(c) \/ Step(c) \/ Reports(c)
      PROVE  Moves
  <2>1. CASE Opens(c)
    BY <2>1, OpensKeeps
  <2>2. CASE Stops(c) \/ Dies(c)
    BY <2>2, StopsKeeps, DiesKeeps
  <2>3. CASE PassStarts(c)
    BY <2>3, PassStartsKeeps
  <2>4. CASE Ingest(c)
    BY <2>4, IngestKeeps
  <2>5. CASE Reserve(c)
    BY <2>5, ReserveKeeps
  <2>6. CASE FinishReportedAgain(c)
    BY <2>6, FinishReportedAgainKeeps
  <2>7. CASE ListRecoverable(c)
    BY <2>7, ListRecoverableKeeps
  <2>8. CASE Drive(c)
    BY <2>8, DriveKeeps
  <2>9. CASE SendVerify(c)
    BY <2>9, SendVerifyKeeps
  <2>10. CASE SettleVerify(c)
    BY <2>10, SettleVerifyKeeps
  <2>11. CASE Finish(c)
    BY <2>11, FinishKeeps
  <2>12. CASE Finished(c)
    BY <2>12, FinishedKeeps
  <2>13. CASE Serialize(c)
    BY <2>13, SerializeKeeps
  <2>14. CASE OpenAttempt(c)
    BY <2>14, OpenAttemptKeeps
  <2>15. CASE JournalAnswer(c)
    BY <2>15, JournalAnswerKeeps
  <2>16. CASE JournalBought(c)
    BY <2>16, JournalBoughtKeeps
  <2>17. CASE Reports(c)
    BY <2>17, ReportsKeeps
  <2>18. QED
    BY <1>2, <2>1, <2>2, <2>3, <2>4, <2>5, <2>6, <2>7, <2>8, <2>9, <2>10, <2>11, <2>12, <2>13, <2>14,
       <2>15, <2>16, <2>17 DEF Step
<1>3. ASSUME NEW c \in Contexts, NEW k \in Keys,
             Prepare(c, k) \/ Shows(c, k) \/ GoesLate(c, k) \/ RecordAnswer(c, k)
      PROVE  Moves
  BY <1>3, PrepareKeeps, ShowsKeeps, GoesLateKeeps, RecordAnswerKeeps
<1>4. ASSUME NEW k \in Keys, NEW t \in Txns, Buys(k, t)
      PROVE  Moves
  BY <1>4, BuysKeeps
<1>5. ASSUME NEW t \in Txns, Approves(t)
      PROVE  Moves
  BY <1>5, ApprovesKeeps
<1>6. QED BY <1>1, <1>2, <1>3, <1>4, <1>5 DEF Next

-----------------------------------------------------------------------------
(* What the journal guarantees. *)

(* However contexts, purchase calls and the store interleave, whatever     *)
(* crashes, is answered late or never: records only move on, a call and a  *)
(* job know what they need to, and the store's finishes have their grants. *)
THEOREM JournalInvariantHolds == Spec => []JInv
<1>1. Init => JInv
  BY InitHolds
<1>2. JInv /\ [Next]_vars => JInv'
  BY NextKeeps DEF Moves
<1>3. QED BY <1>1, <1>2, PTL DEF Spec

(* Every variable keeps its type: a revision a context holds for current   *)
(* is the journal's, and a record holds a transaction exactly when its     *)
(* state says so (commercePurchaseTransitions).                            *)
THEOREM JournalTypeHolds == Spec => []TypeOK
<1>1. JInv => TypeOK
  BY DEF JInv
<1>2. QED BY <1>1, JournalInvariantHolds, PTL

(* The store's sheet is shown at most once for a key, though contexts race *)
(* for it and refused attempts are asked again (prepareRequest).           *)
THEOREM StoreOpensOnceHolds == Spec => []StoreOpensOnce
<1>1. JInv => StoreOpensOnce
  BY DEF JInv, Tokens, StoreOpensOnce
<1>2. QED BY <1>1, JournalInvariantHolds, PTL

(* The store forgets no purchase the backend has not granted, and a record *)
(* that says granted has a grant (assertCommerceFinishAllowed,             *)
(* settleVerify).                                                          *)
THEOREM FinishedIsGrantedHolds == Spec => []FinishedIsGranted
<1>1. JInv => FinishedIsGranted
  BY DEF JInv
<1>2. QED BY <1>1, JournalInvariantHolds, PTL

(* While one context is in use at a time, a transaction is verified under  *)
(* one key, the keys left out whose call outlived the stop of its context: *)
(* an answer, an event and the list of available purchases never journal   *)
(* it under two (journalAnswer, ingestPurchase).                           *)
THEOREM VerifiedOnceHolds == Spec => []VerifiedOnce
<1>1. ASSUME JInv, ~overlapped, NEW t \in Txns
      PROVE  Cardinality({k \in AllKeys \ detached : <<t, k>> \in sent}) <= 1
  <2> DEFINE keys == {k \in AllKeys \ detached : <<t, k>> \in sent}
  <2>1. \A k, l \in keys : k = l
    BY <1>1, JournalAssumption DEF JInv, Alone
  <2>2. CASE keys = {}
    <3>1. Cardinality(keys) = 0
      BY <2>2, FS_EmptySet
    <3>2. QED BY <3>1
  <2>3. CASE keys # {}
    <3>1. PICK k \in keys : TRUE
      BY <2>3
    <3>2. keys = {k}
      BY <2>1, <3>1
    <3>3. Cardinality(keys) = 1
      BY <3>2, FS_Singleton
    <3>4. QED BY <3>3
  <2>4. QED BY <2>2, <2>3
<1>2. JInv => VerifiedOnce
  BY <1>1 DEF VerifiedOnce
<1>3. QED BY <1>2, JournalInvariantHolds, PTL

(* No step of any context takes a journaled grant back or changes a record *)
(* that ended (write, reserve: the compare-and-set).                       *)
THEOREM NothingUndoneHolds == Spec => NothingUndone
<1>1. JInv /\ [Next]_vars =>
        [\A k \in AllKeys :
           /\ journal[k].state \in Granted => journal'[k].state \in Granted
           /\ journal[k].state \in Terminal => journal'[k] = journal[k]]_vars
  BY NextKeeps DEF Moves, Follows
<1>2. QED BY <1>1, JournalInvariantHolds, PTL DEF Spec, NothingUndone
=============================================================================
