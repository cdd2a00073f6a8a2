-------------------------- MODULE SettlementRules ---------------------------
(***************************************************************************)
(* reconcile_settlements of ledgerguard/reconciliation/settlement.py:      *)
(* merging admitted records into the settlement state, allocating bank     *)
(* entries to settlements, and the candidate of each settlement key.       *)
(***************************************************************************)
EXTENDS TransactionRules

\* Constants of the policy contract; the ledger signs differ from those of
\* the transaction grain.
SettlementSide(side) == IF side = "CREDIT" THEN 1 ELSE -1
BankSide(side) == IF side = "CREDIT" THEN 1 ELSE -1

\* The first of a bundle's lines with this identity, in canonical order.
FirstLine(b, serial) ==
  CHOOSE r \in Observed(b) :
    /\ r.serial = serial
    /\ \A s \in Observed(b) : s.serial = serial => r.transport <= s.transport

\* _settlement_records: what was known first stays.
MergeSettlements(prior, b) ==
  LET known == {r.serial : r \in prior} IN
  prior \cup {FirstLine(b, i) : i \in
                {r.serial : r \in {r \in Observed(b) : AtSettlementGrain(r)}} \ known}

\* _duplicate_bank_identities: in this bundle, an identity on two lines.
CurrentDuplicates(b) ==
  {r.serial : r \in {r \in Observed(b) :
     /\ IsBank(r)
     /\ \E i, j \in DOMAIN b.lines :
          i # j /\ b.lines[i].serial = r.serial /\ b.lines[j].serial = r.serial}}

\* Diagnostics of the current bundle only.
ForgetDuplicates(prior, b) == CurrentDuplicates(b)

MergeDuplicates(prior, b) == prior \cup CurrentDuplicates(b)

Settlements(records) == {r \in records : IsSettlement(r)}
BankEntries(records) == {r \in records : IsBank(r)}
Keyed(records) == {r \in records : ~IsBank(r)}
SettlementKeys(records) == {SettlementKey(r) : r \in Keyed(records)}
SettlementRows(records, key) == {r \in Keyed(records) : SettlementKey(r) = key}

\* _target_index: the settlements a bank entry may name.
Targets(records, e) ==
  IF e.reference = NoReference THEN {}
  ELSE {key \in SettlementKeys(records) :
          /\ <<key.merchant, key.currency>> = <<e.merchant, e.currency>>
          /\ Normalized[key.settlement] = Normalized[e.reference]}

\* Nothing rejects a lookup with two targets.
TargetsAssumed(records) == TRUE

\* A lookup with two targets rejects the whole bundle.
TargetsUnique(records) ==
  \A k, l \in SettlementKeys(records) :
    /\ <<k.merchant, k.currency>> = <<l.merchant, l.currency>>
    /\ Normalized[k.settlement] = Normalized[l.settlement]
    => k = l

Permitted(policy, e) ==
  /\ <<e.merchant, e.currency>> \in DOMAIN policy.accounts
  /\ e.account \in policy.accounts[<<e.merchant, e.currency>>]

BankMovement(e) == BankSide(e.direction) * e.amount
AllocatedTo(records, key) == {e \in BankEntries(records) : Targets(records, e) = {key}}

Allocation(policy, records, duplicates, e) ==
  LET targets == Targets(records, e) IN
  [disposition |-> CASE targets # {} -> "ALLOCATED"
                     [] e.reference = NoReference -> "UNALLOCATED_MISSING_REFERENCE"
                     [] OTHER -> "UNALLOCATED_UNKNOWN_REFERENCE",
   targets |-> targets,
   signed  |-> BankMovement(e),
   reasons |->
     {x \in {"DUPLICATE_BANK_MOVEMENT"} : e.serial \in duplicates}
       \cup {x \in {"UNALLOCATED_BANK_MOVEMENT"} : targets = {}}
       \cup {x \in {"INVALID_BANK_ACCOUNT"} : targets # {} /\ ~Permitted(policy, e)}]

Allocations(policy, records, duplicates) ==
  [i \in {e.serial : e \in BankEntries(records)} |->
     Allocation(policy, records, duplicates, CHOOSE e \in records : e.serial = i)]

\* _processor_facts: the net is recomputed for each record.
Net(r) == r.gross - r.fee - r.refund - r.chargeback - r.reserve
NetAmounts(records, key) ==
  LET rows == Settlements(SettlementRows(records, key)) IN
  [i \in {r.serial : r \in rows} |-> Net(CHOOSE r \in rows : r.serial = i)]

\* Only the sums of a key are compared.
AggregateMismatch(records, key) ==
  LET rows == Settlements(SettlementRows(records, key)) IN
  MapThenSumSet(LAMBDA r : r.reported, rows) # MapThenSumSet(LAMBDA r : Net(r), rows)

FormulaMismatch(records, key) ==
  \E r \in Settlements(SettlementRows(records, key)) : r.reported # Net(r)

\* _journal_facts at the settlement grain.
SettlementMovement(j) ==
  MapThenSumSet(LAMBDA p : SettlementSide(p.side) * p.amount, ClearingPostings(j))
SettlementMovements(records, key) ==
  LET rows == Journals(SettlementRows(records, key)) IN
  [i \in {r.serial : r \in rows} |-> SettlementMovement(CHOOSE r \in rows : r.serial = i)]

BankMovements(records, key) ==
  LET rows == AllocatedTo(records, key) IN
  [i \in {e.serial : e \in rows} |-> BankMovement(CHOOSE e \in rows : e.serial = i)]

SettlementReasons(policy, records, duplicates, key) ==
  LET net == Total(NetAmounts(records, key))
      bank == AllocatedTo(records, key)
      journals == Journals(SettlementRows(records, key))
  IN {x \in {"SETTLEMENT_FORMULA_MISMATCH"} : FormulaMismatch(records, key)}
       \cup {x \in {"INVALID_ACCOUNT_ROLE"} :
               \E j \in journals : Cardinality(ClearingPostings(j)) # 1}
       \cup {x \in {"INVALID_BANK_ACCOUNT"} : \E e \in bank : ~Permitted(policy, e)}
       \cup {x \in {"DUPLICATE_BANK_MOVEMENT"} : \E e \in bank : e.serial \in duplicates}
       \cup {x \in {"MISSING_PROCESSOR_ACTIVITY"} :
               Settlements(SettlementRows(records, key)) = {}}
       \cup {x \in {"MISSING_LEDGER_MOVEMENT"} : journals = {} /\ net # 0}
       \cup {x \in {"MISSING_BANK_SETTLEMENT"} : bank = {} /\ net # 0}

\* The three deltas of a key and their largest difference.
Deltas(records, key) ==
  LET net == Total(NetAmounts(records, key))
      ledger == Total(SettlementMovements(records, key))
      bank == Total(BankMovements(records, key))
  IN [PROCESSOR_LEDGER_MISMATCH |-> net - ledger, PROCESSOR_BANK_MISMATCH |-> net - bank,
      LEDGER_BANK_MISMATCH |-> ledger - bank]

Largest(deltas) == Max({Abs(deltas[d]) : d \in DOMAIN deltas})

\* Of the subtractions behind Net only the last result is compared: amounts are
\* not negative, so an earlier result that is too small makes the last one so.
SettlementsFit(records) ==
  /\ \A r \in Settlements(records) : Net(r) \in Minor
  /\ \A key \in SettlementKeys(records) :
       /\ SumFits(NetAmounts(records, key))
       /\ SumFits(SettlementMovements(records, key))
       /\ SumFits(BankMovements(records, key))
       /\ \A d \in DOMAIN Deltas(records, key) : AbsFits(Deltas(records, key)[d])

SettlementCandidate(policy, records, duplicates, key) ==
  LET deltas == Deltas(records, key)
      verdict == Verdict(Largest(deltas), policy.settlementTolerance[key.currency],
                         SettlementReasons(policy, records, duplicates, key),
                         {d \in DOMAIN deltas : deltas[d] # 0})
  IN [net |-> Total(NetAmounts(records, key)), deltas |-> deltas,
      bank |-> Total(BankMovements(records, key)),
      sources |-> {r.serial : r \in SettlementRows(records, key) \cup AllocatedTo(records, key)},
      status |-> verdict.status, reasons |-> verdict.reasons]

SettlementCandidates(policy, records, duplicates) ==
  [key \in SettlementKeys(records) |-> SettlementCandidate(policy, records, duplicates, key)]

\* The status of the batch covers allocations that belong to no settlement.
BatchStatus(candidates, allocations) ==
  IF \/ \E k \in DOMAIN candidates : candidates[k].status = "EXCEPTION"
     \/ \E i \in DOMAIN allocations : "UNALLOCATED_BANK_MOVEMENT" \in allocations[i].reasons
  THEN "EXCEPTION"
  ELSE IF \A k \in DOMAIN candidates : candidates[k].status = "MATCHED" THEN "MATCHED"
  ELSE "WITHIN_TOLERANCE"
=============================================================================
