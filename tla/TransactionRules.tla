-------------------------- MODULE TransactionRules --------------------------
(***************************************************************************)
(* reconcile_transactions of ledgerguard/reconciliation/transaction.py:    *)
(* merging admitted records into the transaction state and the candidate   *)
(* of each transaction key.  `records' is a set with one record for each   *)
(* source identity.                                                        *)
(***************************************************************************)
EXTENDS Admission

\* Constants of the policy contract.
EventSign(class) == IF class = "CAPTURE" THEN 1 ELSE -1
TransactionSide(side) == IF side = "DEBIT" THEN 1 ELSE -1

\* The last line of a bundle with this identity, observed_by_identity.
LastLine(b, serial) ==
  LET at == {i \in DOMAIN b.lines : b.lines[i].serial = serial}
  IN b.lines[CHOOSE i \in at : \A j \in at : j <= i]

\* The records of this bundle alone.
ReplaceTransactions(prior, b) ==
  {LastLine(b, i) : i \in {r.serial : r \in {r \in Observed(b) : AtTransactionGrain(r)}}}

\* _transaction_records: what is observed again replaces what was known.
MergeTransactions(prior, b) ==
  LET new == {r.serial : r \in {r \in Observed(b) : AtTransactionGrain(r)}}
  IN {LastLine(b, i) : i \in new} \cup {r \in prior : r.serial \notin new}

Events(records) == {r \in records : IsEvent(r)}
Journals(records) == {r \in records : IsJournal(r)}
TransactionKeys(records) == {TransactionKey(r) : r \in records}
Rows(records, key) == {r \in records : TransactionKey(r) = key}

\* Source references: a capture has none, anything else names a capture of
\* its processor, and merchant, payment and currency must be the same.
Captures(records) == {c \in Events(records) : c.class = "CAPTURE"}

AppliesTo(e, c) ==
  /\ e.class # "CAPTURE"
  /\ <<c.processor, c.serial>> = <<e.processor, e.reference>>
  /\ <<c.merchant, c.payment, c.currency>> = <<e.merchant, e.payment, e.currency>>

Unresolved(records, e) ==
  IF e.class = "CAPTURE"
  THEN e.reference # NoReference
  ELSE \A c \in Captures(records) : ~AppliesTo(e, c)

Applications(records, c) == {e \in Events(records) : AppliesTo(e, c)}
Amounts(rows) == [i \in {r.serial : r \in rows} |-> (CHOOSE r \in rows : r.serial = i).amount]

\* Each application is compared with the capture on its own.
OverAppliedAlone(records, c) == \E e \in Applications(records, c) : e.amount > c.amount

OverApplied(records, c) == Total(Amounts(Applications(records, c))) > c.amount

\* _reference_reasons: every key that applies to an exhausted capture.
ReferenceReasons(records, key) ==
  {reason \in {"UNRESOLVED_REFERENCE", "OVER_APPLIED_REFERENCE"} :
     \E e \in Events(Rows(records, key)) :
       \/ reason = "UNRESOLVED_REFERENCE" /\ Unresolved(records, e)
       \/ /\ reason = "OVER_APPLIED_REFERENCE"
          /\ \E c \in Captures(records) : AppliesTo(e, c) /\ OverApplied(records, c)}

\* _journal_facts.
Movement(j) == MapThenSumSet(LAMBDA p : TransactionSide(p.side) * p.amount, ClearingPostings(j))

RoleValid(policy, j) ==
  /\ Cardinality(ClearingPostings(j)) = 1
  /\ \A p \in ClearingPostings(j) : p.side = IF j.class = "CAPTURE" THEN "DEBIT" ELSE "CREDIT"
  /\ \A p \in j.postings \ ClearingPostings(j) : p.role \in policy.counterparts

\* _status, after the reasons were collected.
Verdict(difference, tolerance, reasons, mismatches) ==
  CASE reasons # {} -> [status |-> "EXCEPTION", reasons |-> reasons]
    [] reasons = {} /\ difference = 0 -> [status |-> "MATCHED", reasons |-> {}]
    [] reasons = {} /\ difference \in 1..tolerance ->
         [status |-> "WITHIN_TOLERANCE", reasons |-> {"TOLERATED_DIFFERENCE"}]
    [] OTHER -> [status |-> "EXCEPTION", reasons |-> mismatches]

ProcessorAmounts(records, key) ==
  LET rows == Events(Rows(records, key)) IN
  [i \in {r.serial : r \in rows} |-> EventSign(key.class) * Amounts(rows)[i]]

LedgerMovements(records, key) ==
  LET rows == Journals(Rows(records, key)) IN
  [i \in {r.serial : r \in rows} |-> Movement(CHOOSE r \in rows : r.serial = i)]

\* The checked arithmetic of reconcile_transactions raises nothing.
TransactionsFit(records) ==
  /\ \A c \in Captures(records) : Total(Amounts(Applications(records, c))) \in Minor
  /\ \A key \in TransactionKeys(records) :
       LET processor == ProcessorAmounts(records, key)
           ledger == LedgerMovements(records, key)
       IN SumFits(processor) /\ SumFits(ledger) /\ AbsFits(Total(processor) - Total(ledger))

TransactionReasons(policy, records, key) ==
  ReferenceReasons(records, key)
    \cup {x \in {"INVALID_ACCOUNT_ROLE"} :
            \E j \in Journals(Rows(records, key)) : ~RoleValid(policy, j)}
    \cup {x \in {"MISSING_PROCESSOR_ACTIVITY"} : Events(Rows(records, key)) = {}}
    \cup {x \in {"MISSING_LEDGER_MOVEMENT"} : Journals(Rows(records, key)) = {}}

\* The candidate of one key.
TransactionCandidate(policy, records, key) ==
  LET processor == Total(ProcessorAmounts(records, key))
      ledger == Total(LedgerMovements(records, key))
      verdict == Verdict(Abs(processor - ledger), policy.transactionTolerance[key.currency],
                         TransactionReasons(policy, records, key),
                         {"PROCESSOR_LEDGER_MISMATCH"})
  IN [processor |-> processor, ledger |-> ledger, delta |-> processor - ledger,
      sources |-> {r.serial : r \in Rows(records, key)},
      status |-> verdict.status, reasons |-> verdict.reasons]

TransactionCandidates(policy, records) ==
  [key \in TransactionKeys(records) |-> TransactionCandidate(policy, records, key)]
=============================================================================
