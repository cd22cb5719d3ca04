--------------------------- MODULE GrantRevocation ---------------------------
(***************************************************************************)
(* revokeEntitlementGrant (packages/game-services/src/commerce-ledger.ts): *)
(* the named grant is read and its revocation appended; a store event then *)
(* fans out to the purchase's other holders, reading them again after each *)
(* pass until none is left active.  Each caller (a store event's handler,  *)
(* or a restore that closes its own share) runs one call at a time, and    *)
(* every statement of a call is a step of its own.                         *)
(***************************************************************************)
EXTENDS PurchaseLedger

CONSTANTS
    Callers,        \* who runs revokeEntitlementGrant
    FanOutPasses    \* passes before the fan-out gives up (10 in the code)

ASSUME FanOutPassesPositive == FanOutPasses \in Nat \ {0}

VARIABLE call       \* call[c]: the call c runs

CallSteps == {"idle", "get", "insert", "back", "shares", "first", "reversed",
              "record", "holderBack", "end"}

(* What a finished call answers; "throw" is an error its caller propagates. *)
Results == {"none", "revoked", "grant_not_found", "grant_mismatch",
            "key_conflict", "evidence_already_processed", "throw"}

Call == [at : CallSteps,
         entry : SUBSET Revocation,  \* the revocation asked for, while it runs
         seen : SUBSET Grant,        \* holders read by the current pass
         todo : SUBSET Grant,        \* active other holders left in the pass
         pass : 0..FanOutPasses,
         result : Results]

(* A call that has read nothing yet, or has ended.                         *)
BlankCall(step, entry, result) == [at |-> step, entry |-> entry, seen |-> {},
                                   todo |-> {}, pass |-> 0, result |-> result]

IdleCall == BlankCall("idle", {}, "none")

CallTypeOK == call \in [Callers -> Call]

CallInit == call = [c \in Callers |-> IdleCall]

(* The callers start a call with the entry they build and take its result. *)
CalledWith(v) == BlankCall("get", {v}, "none")

CallEnds(c, result) == call' = [call EXCEPT ![c] = BlankCall("end", {}, result)]

CallGoes(c, step) == call' = [call EXCEPT ![c].at = step]

(* The entry of the call, and the one it derives for another holder: same  *)
(* key, payload and reason, the event's identity followed by the slot.     *)
HolderEntry(v, holder) ==
    [v EXCEPT !.of = IdOf(holder), !.player = holder.player,
              !.ev = {Append(e, holder.slot) : e \in v.ev}]

-----------------------------------------------------------------------------
CallGet(c) ==
    /\ call[c].at = "get"
    /\ \E v \in call[c].entry :
         LET named == ById(v.of)
         IN  CASE named = {} -> CallEnds(c, "grant_not_found")
               [] \E g \in named : g.player # v.player ->
                    CallEnds(c, "grant_mismatch")
               [] OTHER -> CallGoes(c, "insert")
    /\ UNCHANGED ledgerVars

(* The foreign key refuses an entry for a grant that is gone by now; a row  *)
(* that INSERT OR IGNORE skips is never held against it.                   *)
Refused(v) == ById(v.of) = {} /\ RevocationInserts(v)

(* Mutant: an entry that is already there settles the call. *)
CallInsertsOnce(c) ==
    /\ call[c].at = "insert"
    /\ \E v \in call[c].entry :
         IF Refused(v)
         THEN CallEnds(c, "throw") /\ UNCHANGED revocations
         ELSE IF v.reason = "refund" /\ ~RevocationInserts(v)
         THEN CallEnds(c, "revoked") /\ UNCHANGED revocations
         ELSE InsertRevocation(v) /\ CallGoes(c, "back")
    /\ UNCHANGED <<grants, tombstones>>

CallInsert(c) ==
    /\ call[c].at = "insert"
    /\ \E v \in call[c].entry :
         IF Refused(v)
         THEN CallEnds(c, "throw") /\ UNCHANGED revocations
         ELSE InsertRevocation(v) /\ CallGoes(c, "back")
    /\ UNCHANGED <<grants, tombstones>>

(* Only a store event fans out; an admin entry stays on the named grant.   *)
CallReadBack(c) ==
    /\ call[c].at = "back"
    /\ \E v \in call[c].entry :
         LET found == ReadBack(v.player, v.key, v.of)
         IN  CASE found = "key_conflict" -> CallEnds(c, "key_conflict")
               [] found = "evidence" -> CallEnds(c, "evidence_already_processed")
               [] OTHER -> IF v.reason = "refund"
                           THEN CallGoes(c, "shares")
                           ELSE CallEnds(c, "revoked")
    /\ UNCHANGED ledgerVars

(* listPurchaseHolders: the shares first, the first grant after.           *)
CallReadShares(c) ==
    /\ call[c].at = "shares"
    /\ IF call[c].pass = FanOutPasses
       THEN CallEnds(c, "throw")
       ELSE call' = [call EXCEPT ![c].at = "first", ![c].seen = SharesRead]
    /\ UNCHANGED ledgerVars

CallReadFirst(c) ==
    /\ call[c].at = "first"
    /\ call' = [call EXCEPT ![c].at = "reversed",
                            ![c].seen = call[c].seen \cup FirstRead]
    /\ UNCHANGED ledgerVars

(* A pass that leaves no other holder active ends the call.                *)
CallReadReversed(c) ==
    /\ call[c].at = "reversed"
    /\ \E v \in call[c].entry :
         LET others == {g \in call[c].seen : IdOf(g) # v.of}
             active == {g \in others : IdOf(g) \notin ReversedIds(IdsOf(others))}
         IN  IF active = {}
             THEN CallEnds(c, "revoked")
             ELSE call' = [call EXCEPT ![c].at = "record", ![c].todo = active]
    /\ UNCHANGED ledgerVars

CallRecordHolder(c) ==
    /\ call[c].at = "record"
    /\ \E v \in call[c].entry, holder \in Foremost(call[c].todo) :
         IF Refused(HolderEntry(v, holder))
         THEN CallEnds(c, "throw") /\ UNCHANGED revocations
         ELSE InsertRevocation(HolderEntry(v, holder)) /\ CallGoes(c, "holderBack")
    /\ UNCHANGED <<grants, tombstones>>

(* A conflict on another holder's entry is an error, never a settled event. *)
CallHolderReadBack(c) ==
    /\ call[c].at = "holderBack"
    /\ \E v \in call[c].entry, holder \in Foremost(call[c].todo) :
         LET left == call[c].todo \ {holder}
         IN  IF ReadBack(holder.player, v.key, IdOf(holder)) # "recorded"
             THEN CallEnds(c, "throw")
             ELSE call' = [call EXCEPT
                    ![c].todo = left,
                    ![c].at = IF left = {} THEN "shares" ELSE "record",
                    ![c].pass = IF left = {} THEN @ + 1 ELSE @]
    /\ UNCHANGED ledgerVars

CallStep(c) ==
    \/ CallGet(c)        \/ CallInsert(c)    \/ CallReadBack(c)
    \/ CallReadShares(c) \/ CallReadFirst(c) \/ CallReadReversed(c)
    \/ CallRecordHolder(c) \/ CallHolderReadBack(c)

=============================================================================
