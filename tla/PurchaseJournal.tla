--------------------------- MODULE PurchaseJournal ---------------------------
(***************************************************************************)
(* The commerce reconciler of the game client                              *)
(* (src/packages/game-services/src/commerce-reconciler.ts): one player's   *)
(* purchases of one consumable, in a store whose transactions the client   *)
(* finishes, journaled as records that move by compare-and-set.            *)
(*                                                                         *)
(* Contexts of the game (a reopened app, a second tab) share the journal.  *)
(* Each caches records in memory, runs its passes and the journal work of  *)
(* its purchases under one lock, and leaves the store's sheet open outside *)
(* of it.  A context that is stopped drops the memory and keeps its calls, *)
(* which are answered all the same; they end with its process.  Every      *)
(* access of the journal, the backend or the store is a step.              *)
(***************************************************************************)
EXTENDS Naturals, FiniteSets

CONSTANTS
    Contexts,
    Buyers,     \* the contexts the player buys in and the store reports to
    Keys,       \* idempotency keys of purchases the game starts
    Txns,       \* store transactions; also the keys derived from them
    NoKey,
    NoTxn,
    MaxInbox,   \* bound: store events that wait in a context
    MaxFaults,  \* bound: crashes, stops, lost answers, journal failures, delays
    Overlapping \* bound: faults at and since an overlap of contexts, which
                \*   late sheets and events of the store wait for as well

ASSUME JournalAssumption ==
    /\ Buyers \subseteq Contexts
    /\ Keys \cap Txns = {}
    /\ NoKey \notin Keys \cup Txns
    /\ NoTxn \notin Txns
    /\ {"closed", "open"} \cap Txns = {}   \* a sheet is either, or sold one
    /\ MaxInbox \in Nat
    /\ MaxFaults \in Nat /\ Overlapping \in 0 .. MaxFaults

VARIABLES
    journal,     \* the durable records by key
    mem,         \* mem[c]: the records the context remembers
    fresh,       \* the remembered records whose revision is the journal's
    started,     \* whether it listens to the store and runs passes
    inbox,       \* store events not handled yet
    scan,        \* initialScanPending: the available purchases are to be read
    again,       \* finishedAgain: finished a second time this session
    job,         \* what the context does under its lock
    calls,       \* its purchase calls outside of the lock
    late,        \* those that have run for inFlightTimeoutMs
    sheet,       \* the store: the sheet of a key and what it sold
    shop,        \* the store: its transactions
    ledger,      \* the backend: its verdict on a transaction
    opened,      \* history: how often a key's sheet was shown
    detached,    \* history: keys whose call outlived the stop of its context
    overlapped,  \* history: two contexts were in use at once
    sent,        \* history: until then, what was sent under which key
    faults

memory == <<mem, fresh>>
client == <<journal, mem, fresh, started, inbox, scan, again, job, calls, late>>
world == <<sheet, shop, ledger, opened, detached, sent, overlapped>>
vars == <<client, world, faults>>

AllKeys == Keys \cup Txns

(* "refused" is a requested record with a retryable error, "review" a      *)
(* pending one whose request was sent.                                     *)
Waiting == {"launched", "pending", "review"}
Granted == {"granted", "finishing", "finished"}
Terminal == {"finished", "cancelled", "failed", "rejected"}
States == {"missing", "requested", "refused", "purchased", "verifying", "granted", "finishing"}
          \cup Waiting \cup Terminal

Record == [state : States, txn : Txns \cup {NoTxn}]
Rec(state, txn) == [state |-> state, txn |-> txn]
Missing == Rec("missing", NoTxn)

IsOpen(r) == r.state \notin Terminal \cup {"missing"}

Cancelled == [txn |-> NoTxn, as |-> "cancelled"]
Event == [txn : Txns, as : {"pending", "purchased"}] \cup {Cancelled}

Job == [at : {"idle", "ingest", "reserve", "again", "drive", "settle", "finished",
              "prepare", "open", "answer", "bought"},
        key : AllKeys \cup {NoKey},
        txn : Txns \cup {NoTxn},
        as : States,
        queue : SUBSET Event,        \* the events of the pass
        todo : SUBSET AllKeys,       \* the records the pass drives
        retry : SUBSET AllKeys]      \* those it found finishing

Blank == [at |-> "idle", key |-> NoKey, txn |-> NoTxn, as |-> "missing", queue |-> {},
          todo |-> {}, retry |-> {}]

Call == {"none", "calling", "unstarted", "shown"}

Init ==
    /\ journal = [k \in AllKeys |-> Missing]
    /\ mem = [c \in Contexts |-> journal]
    /\ fresh = [c \in Contexts |-> {}]
    /\ started = [c \in Contexts |-> FALSE]
    /\ inbox = [c \in Contexts |-> {}]
    /\ scan = [c \in Contexts |-> FALSE]
    /\ again = [c \in Contexts |-> {}]
    /\ job = [c \in Contexts |-> Blank]
    /\ calls = [c \in Contexts |-> [k \in Keys |-> "none"]]
    /\ late = [c \in Contexts |-> {}]
    /\ sheet = [k \in Keys |-> "closed"]
    /\ shop \in [Txns -> {"none", "purchased"}]
    /\ ledger = [t \in Txns |-> "none"]
    /\ opened = [k \in Keys |-> 0]
    /\ detached = {}
    /\ sent = {}
    /\ overlapped = FALSE
    /\ faults = 0

-----------------------------------------------------------------------------
(* The journal. *)

Goes(c, to) == job' = [job EXCEPT ![c] = to]

Remember(c, keys) ==
    /\ mem' = [mem EXCEPT ![c] = [k \in AllKeys |-> IF k \in keys THEN journal[k] ELSE @[k]]]
    /\ fresh' = [fresh EXCEPT ![c] = @ \cup keys]

(* The bound of a history in which contexts overlap.                       *)
Unlikely == overlapped => faults < Overlapping

Fault == faults < MaxFaults /\ Unlikely /\ faults' = faults + 1

(* Mutant: the revision is not compared. *)
ReplaceBlind(c, k, r, won, lost) ==
    /\ journal' = [journal EXCEPT ![k] = r]
    /\ mem' = [mem EXCEPT ![c][k] = r]
    /\ Goes(c, won)
    /\ UNCHANGED <<fresh, faults>>

(* A compare-and-set on the revision: it fails unless what the context     *)
(* remembers is current, and it may take effect and fail.                  *)
Replace(c, k, r, won, lost) ==
    LET outdated(d) == fresh[d] \ {k}
    IN  \/ /\ k \in fresh[c]
           /\ journal' = [journal EXCEPT ![k] = r]
           /\ mem' = [mem EXCEPT ![c][k] = r]
           /\ fresh' = [d \in Contexts |-> IF d = c THEN fresh[d] ELSE outdated(d)]
           /\ Goes(c, won)
           /\ UNCHANGED faults
        \/ k \notin fresh[c] /\ Goes(c, lost) /\ UNCHANGED <<journal, memory, faults>>
        \/ /\ k \in fresh[c]
           /\ Fault
           /\ \/ journal' = [journal EXCEPT ![k] = r] /\ fresh' = [d \in Contexts |-> outdated(d)]
              \/ UNCHANGED <<journal, fresh>>
           /\ Goes(c, lost)
           /\ UNCHANGED mem

(* Whether the purchase call of a key still runs, as far as passes know.   *)
InFlight(c, k) == k \in Keys /\ calls[c][k] # "none" /\ k \notin late[c]

Opened == {k \in AllKeys : IsOpen(journal[k])}

(* loadRecords: the records that are open or granted.                      *)
Loaded == Opened \cup {k \in AllKeys : journal[k].state \in Granted}

-----------------------------------------------------------------------------
(* A context is started and stopped, and its process ends. *)

(* A context is in use while it is started or buys.                        *)
InUse(c) ==
    \/ started[c] \/ job[c].at \in {"prepare", "open"}
    \/ \E k \in Keys \ detached : calls[c][k] # "none"

UsedAlone(c) == \A d \in Contexts \ {c} : ~InUse(d)

(* The history of contexts in use at once, and its bound.                  *)
Uses(c) ==
    /\ InUse(c) \/ UsedAlone(c) \/ faults <= Overlapping
    /\ overlapped' = (overlapped \/ ~UsedAlone(c))
    /\ sent' = IF overlapped' THEN {} ELSE sent

(* start, under the lock: load the records and subscribe.                  *)
Opens(c) ==
    /\ ~started[c] /\ job[c].at = "idle"
    /\ Uses(c)
    /\ Remember(c, Loaded)
    /\ started' = [started EXCEPT ![c] = TRUE]
    /\ scan' = [scan EXCEPT ![c] = TRUE]
    /\ UNCHANGED <<journal, inbox, again, job, calls, late, sheet, shop, ledger, opened, detached,
                   faults>>

Forgets(c) ==
    /\ mem' = [mem EXCEPT ![c] = [k \in AllKeys |-> Missing]]
    /\ fresh' = [fresh EXCEPT ![c] = {}]
    /\ started' = [started EXCEPT ![c] = FALSE]
    /\ inbox' = [inbox EXCEPT ![c] = {}]
    /\ Goes(c, Blank)

(* stop, which waits for the lock: the purchase calls run on, and what was *)
(* finished again stays noted.                                             *)
Stops(c) ==
    /\ started[c] /\ job[c].at = "idle" /\ Fault
    /\ Forgets(c)
    /\ detached' = detached \cup {k \in Keys : calls[c][k] # "none"}
    /\ UNCHANGED <<journal, scan, again, calls, late, sheet, shop, ledger, opened, sent, overlapped>>

(* The process ends: at rest once the store's purchases were read, else it *)
(* is a crash.                                                             *)
Dies(c) ==
    /\ IF job[c].at = "idle" /\ ~scan[c] THEN UNCHANGED faults ELSE Fault
    /\ Forgets(c)
    /\ scan' = [scan EXCEPT ![c] = FALSE]
    /\ again' = [again EXCEPT ![c] = {}]
    /\ calls' = [calls EXCEPT ![c] = [k \in Keys |-> "none"]]
    /\ late' = [late EXCEPT ![c] = {}]
    /\ UNCHANGED <<journal, world>>

-----------------------------------------------------------------------------
(* A pass: the store's events, then the open records. *)

(* The records a pass does more with than to wait.                         *)
Driven(c, k) ==
    \/ journal[k].state \in {"launched", "review", "purchased", "verifying", "granted", "finishing"}
    \/ journal[k].state = "requested" /\ ~InFlight(c, k)

Available == {[txn |-> t, as |-> shop[t]] : t \in {u \in Txns : shop[u] \in {"pending", "purchased"}}}

(* Events wait while a purchase call of the product is in flight.          *)
PassStarts(c) ==
    /\ started[c] /\ job[c].at = "idle"
    /\ scan[c] \/ inbox[c] # {} \/ Opened # {}
    /\ \E read \in IF scan[c] THEN BOOLEAN ELSE {FALSE} :
         /\ IF scan[c] /\ ~read THEN Fault ELSE UNCHANGED faults
         /\ scan' = [scan EXCEPT ![c] = @ /\ ~read]
         /\ LET queued == inbox[c] \cup IF read THEN Available ELSE {}
                busy == \E k \in Keys : InFlight(c, k)
            IN  /\ inbox' = [inbox EXCEPT ![c] = IF busy THEN queued ELSE {}]
                /\ Goes(c, [Blank EXCEPT !.at = "ingest", !.queue = IF busy THEN {} ELSE queued])
    /\ UNCHANGED <<journal, memory, started, again, calls, late, world>>

Rest(c, e) == [job[c] EXCEPT !.queue = @ \ {e}]
Holding(records, t) == {k \in AllKeys : records[k].txn = t}
Attempts(c) == {k \in AllKeys : mem[c][k].state \in Waiting}

(* ingestError: ends the one attempt the store never answered.             *)
IngestError(c, e) ==
    LET open == {k \in Attempts(c) : mem[c][k].txn = NoTxn}
    IN  /\ e = Cancelled
        /\ IF Cardinality(open) = 1
           THEN \E k \in open : Replace(c, k, Rec("cancelled", NoTxn), Rest(c, e), Rest(c, e))
           ELSE Goes(c, Rest(c, e)) /\ UNCHANGED <<journal, memory, faults>>
        /\ UNCHANGED again

(* Mutant: a finished record is left alone. *)
IngestMatchedOnce(c, k, e) ==
    LET r == mem[c][k]
    IN  /\ IF r.state = "launched" \/ (r.state = "pending" /\ e.as = "purchased")
           THEN Replace(c, k, Rec(e.as, e.txn), Rest(c, e), Rest(c, e))
           ELSE Goes(c, Rest(c, e)) /\ UNCHANGED <<journal, memory, faults>>
        /\ UNCHANGED again

IngestMatched(c, k, e) ==
    LET r == mem[c][k]
        unfinished == r.state = "finished" /\ e.as = "purchased" /\ e.txn \notin again[c]
        answered == r.state = "launched" \/ (r.state = "pending" /\ e.as = "purchased")
    IN  \/ /\ unfinished
           /\ again' = [again EXCEPT ![c] = @ \cup {e.txn}]
           /\ Goes(c, [Rest(c, e) EXCEPT !.at = "again", !.txn = e.txn])
           /\ UNCHANGED <<journal, memory, faults>>
        \/ /\ answered
           /\ Replace(c, k, Rec(e.as, e.txn), Rest(c, e), Rest(c, e))
           /\ UNCHANGED again
        \/ /\ ~unfinished /\ ~answered
           /\ Goes(c, Rest(c, e))
           /\ UNCHANGED <<journal, memory, again, faults>>

(* Matched by transaction, else to the one open attempt without one, else  *)
(* journaled under the key derived from the transaction.                   *)
IngestPurchase(c, e) ==
    LET known == Holding(mem[c], e.txn)
        stored == Holding(journal, e.txn)
        open == Attempts(c)
    IN  /\ e # Cancelled
        /\ \/ \E k \in known : IngestMatched(c, k, e)
           \/ /\ known = {}
              /\ \E k \in stored : Remember(c, {k})
              /\ UNCHANGED <<journal, again, job, faults>>
           \/ /\ known = {} /\ stored = {} /\ Cardinality(open) = 1
              /\ \E k \in open : mem[c][k].txn = NoTxn /\ IngestMatched(c, k, e)
           \/ /\ known = {} /\ stored = {} /\ Cardinality(open) > 1
              /\ Goes(c, Rest(c, e))
              /\ UNCHANGED <<journal, memory, again, faults>>
           \/ /\ known = {} /\ stored = {} /\ Cardinality(open) <= 1
              /\ \A k \in open : mem[c][k].txn # NoTxn
              /\ Goes(c, [Rest(c, e) EXCEPT !.at = "reserve", !.txn = e.txn, !.as = e.as])
              /\ UNCHANGED <<journal, memory, again, faults>>

Ingest(c) ==
    /\ job[c].at = "ingest"
    /\ \E e \in job[c].queue : IngestError(c, e) \/ IngestPurchase(c, e)
    /\ UNCHANGED <<started, inbox, scan, calls, late, world>>

(* Mutant: a key that is taken is answered like one that was free. *)
InsertAssumed(c, k, r, held, lost) ==
    /\ journal' = IF journal[k] = Missing THEN [journal EXCEPT ![k] = r] ELSE journal
    /\ mem' = [mem EXCEPT ![c][k] = r]
    /\ fresh' = [fresh EXCEPT ![c] = @ \cup {k}]
    /\ Goes(c, held)
    /\ UNCHANGED faults

(* An insert, or the record that holds the key; it may take effect and     *)
(* fail.                                                                   *)
Insert(c, k, r, held, lost) ==
    LET after == IF journal[k] = Missing THEN [journal EXCEPT ![k] = r] ELSE journal
    IN  \/ /\ journal' = after
           /\ mem' = [mem EXCEPT ![c][k] = after[k]]
           /\ fresh' = [fresh EXCEPT ![c] = @ \cup {k}]
           /\ Goes(c, held)
           /\ UNCHANGED faults
        \/ /\ Fault
           /\ journal' \in {journal, after}
           /\ Goes(c, lost)
           /\ UNCHANGED memory

BackToIngest(c) == [job[c] EXCEPT !.at = "ingest", !.txn = NoTxn, !.as = "missing"]

Reserve(c) ==
    /\ job[c].at = "reserve"
    /\ Insert(c, job[c].txn, Rec(job[c].as, job[c].txn), BackToIngest(c), BackToIngest(c))
    /\ UNCHANGED <<started, inbox, scan, again, calls, late, world>>

(* finishTransaction of the store: done, refused, or the answer is lost.   *)
StoreFinishes(t) == shop' = [shop EXCEPT ![t] = "finished"] /\ UNCHANGED faults
AnswerLost(t) == Fault /\ shop' \in {shop, [shop EXCEPT ![t] = "finished"]}

FinishReportedAgain(c) ==
    LET t == job[c].txn
    IN  /\ job[c].at = "again"
        /\ \/ StoreFinishes(t) /\ UNCHANGED again
           \/ AnswerLost(t) /\ again' = [again EXCEPT ![c] = @ \ {t}]
           \/ Fault /\ UNCHANGED <<shop, again>>
        /\ Goes(c, BackToIngest(c))
        /\ UNCHANGED <<journal, memory, started, inbox, scan, calls, late, sheet, ledger, opened,
                       detached, sent, overlapped>>

Done(c, k) ==
    LET left == job[c].todo \ {k}
    IN  IF left = {} THEN Blank
        ELSE [job[c] EXCEPT !.at = "drive", !.key = NoKey, !.txn = NoTxn, !.as = "missing",
                            !.todo = left, !.retry = @ \ {k}]

(* One record at a time, as far as it goes. *)
Driving(c, k) == job[c].at = "drive" /\ k \in job[c].todo /\ job[c].key \in {NoKey, k}
Stays(c, k) == [job[c] EXCEPT !.at = "drive", !.key = k, !.txn = NoTxn, !.as = "missing"]

ListRecoverable(c) ==
    LET driven == {k \in Opened : Driven(c, k)}
    IN  /\ job[c].at = "ingest" /\ job[c].queue = {}
        /\ Remember(c, Opened)
        /\ Goes(c, IF driven = {} THEN Blank
                   ELSE [Blank EXCEPT !.at = "drive", !.todo = driven,
                                      !.retry = {k \in driven : journal[k].state = "finishing"}])
        /\ UNCHANGED <<journal, started, inbox, scan, again, calls, late, world, faults>>

(* Ends an attempt nobody will answer: its call is not in flight here, and *)
(* a launched one is a day old.                                            *)
DriveStale(c, k) ==
    /\ mem[c][k].state \in {"requested", "launched"}
    /\ Replace(c, k, Rec("failed", NoTxn), Done(c, k), Done(c, k))

DriveWaits(c, k) ==
    /\ mem[c][k].state = "launched"
    /\ Goes(c, Done(c, k))
    /\ UNCHANGED <<journal, memory, faults>>

DriveWrites(c, k) ==
    \E step \in {<<"purchased", "verifying">>, <<"review", "verifying">>, <<"granted", "finishing">>} :
        /\ mem[c][k].state = step[1]
        /\ Replace(c, k, Rec(step[2], mem[c][k].txn), Stays(c, k), Done(c, k))

Drive(c) ==
    /\ \E k \in job[c].todo :
         Driving(c, k) /\ (DriveStale(c, k) \/ DriveWaits(c, k) \/ DriveWrites(c, k))
    /\ UNCHANGED <<started, inbox, scan, again, calls, late, world>>

(* The backend decides a transaction once and repeats its verdict under    *)
(* any key.                                                                *)
Verdicts(t) ==
    {[ledger EXCEPT ![t] = v] :
        v \in IF ledger[t] = "none" THEN {"granted", "rejected"} ELSE {ledger[t]}}

SendVerify(c) ==
    \E k \in job[c].todo :
        LET t == mem[c][k].txn
            answers(as) == Goes(c, [job[c] EXCEPT !.at = "settle", !.key = k, !.txn = t, !.as = as])
        IN  /\ Driving(c, k) /\ mem[c][k].state = "verifying"
            /\ sent' = IF overlapped THEN {} ELSE sent \cup {<<t, k>>}
            /\ \/ ledger' \in Verdicts(t) /\ answers(ledger'[t]) /\ UNCHANGED faults
               \/ Fault /\ ledger[t] = "none" /\ UNCHANGED ledger /\ answers("review")
               \/ Fault /\ ledger' \in Verdicts(t) \cup {ledger} /\ Goes(c, Done(c, k))
            /\ UNCHANGED <<journal, memory, started, inbox, scan, again, calls, late, sheet, shop,
                           opened, detached, overlapped>>

(* Mutant: a pending answer is taken for a grant. *)
SettlePending(c) ==
    LET k == job[c].key
        as == IF job[c].as = "review" THEN "granted" ELSE job[c].as
    IN  /\ job[c].at = "settle"
        /\ Replace(c, k, Rec(as, job[c].txn),
                   IF as = "granted" THEN Stays(c, k) ELSE Done(c, k),
                   Done(c, k))
        /\ UNCHANGED <<started, inbox, scan, again, calls, late, world>>

SettleVerify(c) ==
    LET k == job[c].key
        settled == Rec(job[c].as, job[c].txn)
    IN  /\ job[c].at = "settle"
        /\ Replace(c, k, settled,
                   IF settled.state = "granted" THEN Stays(c, k) ELSE Done(c, k),
                   Done(c, k))
        /\ UNCHANGED <<started, inbox, scan, again, calls, late, world>>

(* A retried finish of a transaction the store's list misses for a while   *)
(* is answered as done.                                                    *)
Finish(c) ==
    \E k \in job[c].todo :
        LET t == mem[c][k].txn
            done == [job[c] EXCEPT !.at = "finished", !.key = k, !.txn = t]
        IN  /\ Driving(c, k) /\ mem[c][k].state = "finishing"
            /\ \/ StoreFinishes(t) /\ Goes(c, done)
               \/ k \in job[c].retry /\ Fault /\ UNCHANGED shop /\ Goes(c, done)
               \/ AnswerLost(t) /\ Goes(c, Done(c, k))
            /\ UNCHANGED <<journal, memory, started, inbox, scan, again, calls, late, sheet, ledger,
                           opened, detached, sent, overlapped>>

Finished(c) ==
    LET k == job[c].key
    IN  /\ job[c].at = "finished"
        /\ Replace(c, k, Rec("finished", job[c].txn), Done(c, k), Done(c, k))
        /\ UNCHANGED <<started, inbox, scan, again, calls, late, world>>

-----------------------------------------------------------------------------
(* requestPurchase. *)

(* A journaled key is answered unless its checkout provably never started; *)
(* a context not started loads the records first.                          *)
Retryable(c, k) == journal[k].state = "refused" /\ ~InFlight(c, k)

Prepare(c, k) ==
    /\ job[c].at = "idle" /\ c \in Buyers
    /\ Uses(c)
    /\ Remember(c, {l \in AllKeys : \/ (~started[c] /\ l \in Loaded)
                              \/ (l = k /\ journal[k] # Missing)})
    /\ Goes(c, IF journal[k] = Missing \/ Retryable(c, k)
               THEN [Blank EXCEPT !.at = "prepare", !.key = k, !.as = journal[k].state]
               ELSE Blank)
    /\ UNCHANGED <<journal, started, inbox, scan, again, calls, late, sheet, shop, ledger, opened,
                   detached, faults>>

(* An open attempt of the product refuses this one.                        *)
Serialize(c) ==
    LET attempts == {k \in Opened : \/ journal[k].state \in Waiting
                                    \/ /\ journal[k].state \in {"requested", "refused"}
                                       /\ InFlight(c, k)}
    IN  /\ job[c].at = "prepare"
        /\ Remember(c, Opened)
        /\ Goes(c, IF attempts = {} /\ (job[c].as = "missing" \/ job[c].key \in fresh[c])
                   THEN [job[c] EXCEPT !.at = "open"] ELSE Blank)
        /\ UNCHANGED <<journal, started, inbox, scan, again, calls, late, world, faults>>

(* Reserves the key, or clears the error of a refused attempt, and leaves  *)
(* the lock for the store.                                                 *)
OpenAttempt(c) ==
    LET k == job[c].key
        r == Rec("requested", NoTxn)
    IN  /\ job[c].at = "open"
        /\ \/ job[c].as = "missing" /\ Insert(c, k, r, Blank, Blank)
           \/ job[c].as # "missing" /\ Replace(c, k, r, Blank, Blank)
        /\ calls' = IF /\ journal'[k] = r /\ journal[k] # r
                       /\ mem'[c][k] = r /\ k \in fresh'[c]
                    THEN [calls EXCEPT ![c][k] = "calling"] ELSE calls
        /\ UNCHANGED <<started, inbox, scan, again, late, world>>

(* The provider shows the sheet, or proves that it did not.                *)
Shows(c, k) ==
    /\ calls[c][k] = "calling"
    /\ \/ /\ calls' = [calls EXCEPT ![c][k] = "shown"]
          /\ opened' = [opened EXCEPT ![k] = @ + 1]
          /\ sheet' = [sheet EXCEPT ![k] = "open"]
          /\ UNCHANGED faults
       \/ /\ calls' = [calls EXCEPT ![c][k] = "unstarted"]
          /\ Fault
          /\ UNCHANGED <<opened, sheet>>
    /\ UNCHANGED <<journal, memory, started, inbox, scan, again, job, late, shop, ledger, detached,
                   sent, overlapped>>

(* inFlightTimeoutMs, which may pass before the sheet is shown.            *)
GoesLate(c, k) ==
    /\ InFlight(c, k) /\ Unlikely
    /\ late' = [late EXCEPT ![c] = @ \cup {k}]
    /\ UNCHANGED <<journal, memory, started, inbox, scan, again, job, calls, world, faults>>

(* A purchase that a pass finished meanwhile is answered as one.           *)
Sales(k) ==
    {<<IF shop[t] = "pending" THEN "pending" ELSE "purchased", t>> : t \in Txns \cap {sheet[k]}}

(* Mutant: a failure is retryable although the sheet was shown. *)
AnswersRetryable(k) ==
    {<<"launched", NoTxn>>, <<"refused", NoTxn>>}
    \cup (IF sheet[k] = "open" THEN {<<"cancelled", NoTxn>>} ELSE {})
    \cup Sales(k)

(* What the provider may answer of the sheet.                              *)
Answers(k) ==
    {<<"launched", NoTxn>>, <<"failed", NoTxn>>}
    \cup (IF sheet[k] = "open" THEN {<<"cancelled", NoTxn>>} ELSE {})
    \cup Sales(k)

(* The call returns. *)
Returns(c, k) ==
    /\ calls' = [calls EXCEPT ![c][k] = "none"]
    /\ late' = [late EXCEPT ![c] = @ \ {k}]

(* recordAnswer: the journal's record is read again; ended meanwhile, its  *)
(* answer stands.                                                          *)
RecordAnswer(c, k) ==
    LET asked == journal[k].state \in {"requested", "refused"}
        hears(as, t) == Goes(c, IF asked THEN [Blank EXCEPT !.at = "answer", !.key = k, !.txn = t, !.as = as]
                                ELSE Blank)
    IN  /\ job[c].at = "idle"
        /\ \/ calls[c][k] = "unstarted" /\ hears("refused", NoTxn) /\ UNCHANGED sheet
           \/ /\ calls[c][k] = "shown"
              /\ \E answer \in Answers(k) :
                   /\ hears(answer[1], answer[2])
                   /\ sheet' = IF answer[1] = "cancelled" THEN [sheet EXCEPT ![k] = "closed"] ELSE sheet
        /\ Remember(c, {k})
        /\ IF asked THEN UNCHANGED <<calls, late>> ELSE Returns(c, k)
        /\ UNCHANGED <<journal, started, inbox, scan, again, shop, ledger, opened, detached, sent,
                       overlapped, faults>>

JournalAnswer(c) ==
    LET k == job[c].key
        bought == job[c].txn # NoTxn
        r == IF bought THEN Rec("launched", NoTxn) ELSE Rec(job[c].as, NoTxn)
    IN  /\ job[c].at = "answer"
        /\ Replace(c, k, r, IF bought THEN [job[c] EXCEPT !.at = "bought"] ELSE Blank, Blank)
        /\ IF job'[c].at = "bought" THEN UNCHANGED <<calls, late>> ELSE Returns(c, k)
        /\ UNCHANGED <<started, inbox, scan, again, world>>

(* Mutant: a record that holds the transaction already is not looked for. *)
JournalBoughtTwice(c) ==
    LET k == job[c].key
    IN  /\ job[c].at = "bought"
        /\ Replace(c, k, Rec(job[c].as, job[c].txn), Blank, Blank)
        /\ Returns(c, k)
        /\ UNCHANGED <<started, inbox, scan, again, world>>

(* A purchase another record holds already supersedes the attempt.         *)
JournalBought(c) ==
    LET k == job[c].key
        held == Holding(mem[c], job[c].txn) \ {k} # {}
    IN  /\ job[c].at = "bought"
        /\ Replace(c, k, IF held THEN Rec("failed", NoTxn) ELSE Rec(job[c].as, job[c].txn), Blank, Blank)
        /\ Returns(c, k)
        /\ UNCHANGED <<started, inbox, scan, again, world>>

-----------------------------------------------------------------------------
(* The store and the player. *)

Buys(k, t) ==
    /\ sheet[k] = "open" /\ shop[t] = "none"
    /\ sheet' = [sheet EXCEPT ![k] = t]
    /\ \E as \in {"pending", "purchased"} : shop' = [shop EXCEPT ![t] = as]
    /\ UNCHANGED <<client, ledger, opened, detached, sent, overlapped, faults>>

Approves(t) ==
    /\ shop[t] = "pending"
    /\ shop' = [shop EXCEPT ![t] = "purchased"]
    /\ UNCHANGED <<client, sheet, ledger, opened, detached, sent, overlapped, faults>>

(* The listener: a purchase as it is now, or a sheet closed without one.   *)
Reports(c) ==
    /\ started[c] /\ c \in Buyers /\ Cardinality(inbox[c]) < MaxInbox /\ Unlikely
    /\ \/ \E e \in Available : inbox' = [inbox EXCEPT ![c] = @ \cup {e}] /\ UNCHANGED sheet
       \/ \E k \in Keys :
            /\ sheet[k] = "open" /\ calls[c][k] = "none"
            /\ sheet' = [sheet EXCEPT ![k] = "closed"]
            /\ inbox' = [inbox EXCEPT ![c] = @ \cup {Cancelled}]
    /\ UNCHANGED <<journal, memory, started, scan, again, job, calls, late, shop, ledger, opened,
                   detached, sent, overlapped, faults>>

-----------------------------------------------------------------------------

Step(c) ==
    \/ Ingest(c) \/ Reserve(c) \/ FinishReportedAgain(c) \/ ListRecoverable(c)
    \/ Drive(c) \/ SendVerify(c) \/ SettleVerify(c) \/ Finish(c) \/ Finished(c)
    \/ Serialize(c) \/ OpenAttempt(c) \/ JournalAnswer(c) \/ JournalBought(c)

Next ==
    \/ \E c \in Contexts : Opens(c) \/ Stops(c) \/ Dies(c) \/ PassStarts(c) \/ Step(c) \/ Reports(c)
    \/ \E c \in Contexts, k \in Keys :
         Prepare(c, k) \/ Shows(c, k) \/ GoesLate(c, k) \/ RecordAnswer(c, k)
    \/ \E k \in Keys, t \in Txns : Buys(k, t)
    \/ \E t \in Txns : Approves(t)

Spec == Init /\ [][Next]_vars

(* A job under the lock goes on, and the lock is handed out in turn.  A    *)
(* context is started, reads the store's purchases (while `scan`) and ends *)
(* with its process (after it), again and again.                           *)
Fairness ==
    \A c \in Contexts :
        /\ WF_vars(Step(c))
        /\ SF_vars(Opens(c) \/ (scan[c] /\ PassStarts(c)) \/ (~scan[c] /\ Dies(c)))

FairSpec == Spec /\ Fairness

-----------------------------------------------------------------------------

(* The type invariant of the journal, the contexts and the store: a        *)
(* remembered revision is the journal's, and a record holds a transaction  *)
(* exactly when its state says so (commercePurchaseTransitions).           *)
TypeOK ==
    /\ journal \in [AllKeys -> Record]
    /\ mem \in [Contexts -> [AllKeys -> Record]]
    /\ fresh \in [Contexts -> SUBSET AllKeys]
    /\ started \in [Contexts -> BOOLEAN]
    /\ inbox \in [Contexts -> SUBSET Event]
    /\ scan \in [Contexts -> BOOLEAN]
    /\ again \in [Contexts -> SUBSET Txns]
    /\ job \in [Contexts -> Job]
    /\ calls \in [Contexts -> [Keys -> Call]]
    /\ late \in [Contexts -> SUBSET Keys]
    /\ sheet \in [Keys -> {"closed", "open"} \cup Txns]
    /\ shop \in [Txns -> {"none", "pending", "purchased", "finished"}]
    /\ ledger \in [Txns -> {"none", "granted", "rejected"}]
    /\ opened \in [Keys -> Nat]
    /\ detached \subseteq Keys
    /\ sent \subseteq Txns \X AllKeys
    /\ overlapped \in BOOLEAN
    /\ faults \in 0 .. MaxFaults
    /\ \A c \in Contexts : \A k \in fresh[c] : mem[c][k] = journal[k]
    /\ \A k \in AllKeys :
         journal[k].txn = NoTxn
         <=> journal[k].state \in {"missing", "requested", "refused", "launched", "cancelled", "failed"}

(* The store's sheet is shown once for a key, whatever contexts ask for it *)
(* and however often it was refused before it opened (prepareRequest).     *)
StoreOpensOnce == \A k \in Keys : opened[k] <= 1

(* The store never forgets a purchase the backend has not granted, and a   *)
(* record that says granted has a grant (assertCommerceFinishAllowed,      *)
(* settleVerify).                                                          *)
FinishedIsGranted ==
    /\ \A t \in Txns : shop[t] = "finished" => ledger[t] = "granted"
    /\ \A k \in AllKeys : journal[k].state \in Granted => ledger[journal[k].txn] = "granted"

(* While one context is in use at a time a transaction is verified under   *)
(* one key, over crashes, lost journal writes and sheets that outlive their*)
(* attempt (journalAnswer: "the transaction is verified once").  A call    *)
(* that outlived the stop of its context is left out: it looks for the     *)
(* holder in a memory that is gone.                                        *)
VerifiedOnce ==
    ~overlapped =>
        \A t \in Txns : Cardinality({k \in AllKeys \ detached : <<t, k>> \in sent}) <= 1

(* No context undoes what another journaled: a granted record stays        *)
(* granted and one that ended stays as it ended (write, reserve).          *)
NothingUndone ==
    [][\A k \in AllKeys :
         /\ journal[k].state \in Granted => journal'[k].state \in Granted
         /\ journal[k].state \in Terminal => journal'[k] = journal[k]]_vars

(* Every purchase the player paid for is finished in the store at last, so *)
(* granted, unless the backend rejects it, whatever died, was answered     *)
(* late or never (drive, finishReportedAgain).                             *)
PaidIsFinished ==
    \A t \in Txns : shop[t] = "purchased" ~> shop[t] = "finished" \/ ledger[t] = "rejected"

=============================================================================
