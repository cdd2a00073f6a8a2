----------------------------- MODULE SparkRules -----------------------------
(***************************************************************************)
(* The same reconciliation as the Glue job computes it with Spark          *)
(* (ledgerguard/stage3/spark_pipeline.py): one bundle at a time, with no   *)
(* prior state, as joins and groupings over its lines.                     *)
(*                                                                         *)
(* b.lines gives a line to each line number; numbers need not be dense.    *)
(***************************************************************************)
EXTENDS SettlementRules

CONSTANT Trimmed   \* F.trim: a function on reference texts

-----------------------------------------------------------------------------
(* _admit_source_frames                                                    *)

\* One payload for each source identity.
SparkAdmits(b) ==
  \A r, s \in Observed(b) : r.serial = s.serial => BusinessDigest(r) = BusinessDigest(s)

\* dropDuplicates on identity and payload, for every family but the banks.
Frame(b) == {BusinessDigest(r) : r \in {r \in Observed(b) : ~IsBank(r)}}

\* Every line of a bank file stays a row.
BankRows(b) == {n \in DOMAIN b.lines : IsBank(b.lines[n])}

\* identity_count: how many rows have the identity of row n.
IdentityRows(b, n) == {k \in BankRows(b) : b.lines[k].serial = b.lines[n].serial}

-----------------------------------------------------------------------------
(* _transaction_candidates                                                 *)

SparkTransactionRows(b) == {r \in Frame(b) : AtTransactionGrain(r)}

\* The left join of negative events with captures looks at the identity only.
Joined(records, e) ==
  {c \in Captures(records) :
     e.class # "CAPTURE" /\ <<c.processor, c.serial>> = <<e.processor, e.reference>>}

SameBusiness(e, c) == <<e.merchant, e.payment, e.currency>> = <<c.merchant, c.payment, c.currency>>

SparkUnresolved(records, e) ==
  e.class # "CAPTURE" /\ \A c \in Joined(records, e) : ~SameBusiness(e, c)

\* Everything joined with the capture, whatever its business keys:
\* applied_total.
AppliedTotal(records, c) == Total(Amounts({e \in Events(records) : c \in Joined(records, e)}))

SparkReferenceReasons(records, key) ==
  {x \in {"UNRESOLVED_REFERENCE"} :
     \E e \in Events(Rows(records, key)) : SparkUnresolved(records, e)}
    \cup {x \in {"OVER_APPLIED_REFERENCE"} :
            \E e \in Events(Rows(records, key)) : \E c \in Joined(records, e) :
              AppliedTotal(records, c) > c.amount}

\* invalid_role: debit and credit are compared here, not at admission.
SparkRoleInvalid(policy, j) ==
  PostedTo(j, "DEBIT") # PostedTo(j, "CREDIT") \/ ~RoleValid(policy, j)

SparkTransaction(policy, records, key) ==
  LET events == Events(Rows(records, key))
      journals == Journals(Rows(records, key))
      processor == Total(ProcessorAmounts(records, key))
      ledger == Total(LedgerMovements(records, key))
      owned == SparkReferenceReasons(records, key)
        \cup {x \in {"INVALID_ACCOUNT_ROLE"} : \E j \in journals : SparkRoleInvalid(policy, j)}
        \cup {x \in {"MISSING_PROCESSOR_ACTIVITY"} : events = {}}
        \cup {x \in {"MISSING_LEDGER_MOVEMENT"} : journals = {}}
      verdict == Verdict(Abs(processor - ledger), policy.transactionTolerance[key.currency],
                         owned, {"PROCESSOR_LEDGER_MISMATCH"})
  IN [processor |-> processor, ledger |-> ledger, delta |-> processor - ledger,
      sources |-> {r.serial : r \in events \cup journals},
      status |-> verdict.status, reasons |-> verdict.reasons]

SparkTransactions(b) ==
  LET records == SparkTransactionRows(b) IN
  [key \in TransactionKeys(records) |-> SparkTransaction(b.policy, records, key)]

-----------------------------------------------------------------------------
(* _settlement_candidates                                                  *)

SparkSettlementRows(b) == {r \in Frame(b) : AtSettlementGrain(r)}

\* A reference that is compared as it was written.
SparkTargetsAsWritten(b, e) ==
  {key \in SettlementKeys(SparkSettlementRows(b)) :
     /\ <<key.merchant, key.currency>> = <<e.merchant, e.currency>>
     /\ key.settlement = e.reference}

\* The join of bank rows with the distinct keys of the two other frames: the
\* reference is trimmed, the settlement identifier is taken as it is.
SparkTargets(b, e) ==
  IF e.reference = NoReference THEN {}
  ELSE {key \in SettlementKeys(SparkSettlementRows(b)) :
          /\ <<key.merchant, key.currency>> = <<e.merchant, e.currency>>
          /\ key.settlement = Trimmed[e.reference]}

\* One joined row at most for each bank identity.  A second row of an
\* identity counts like a second target.
SparkUnambiguous(b) ==
  \A n \in BankRows(b) :
    Cardinality({x \in IdentityRows(b, n) \X SettlementKeys(SparkSettlementRows(b)) :
                   x[2] \in SparkTargets(b, b.lines[x[1]])}) <= 1

SparkAllocation(b, n) ==
  LET e == b.lines[n]
      targets == SparkTargets(b, e)
  IN [disposition |-> IF targets # {} THEN "ALLOCATED" ELSE "UNALLOCATED_UNKNOWN_REFERENCE",
      targets |-> targets,
      signed  |-> BankMovement(e),
      reasons |->
        {x \in {"DUPLICATE_BANK_MOVEMENT"} : IdentityRows(b, n) # {n}}
          \cup {x \in {"UNALLOCATED_BANK_MOVEMENT"} : targets = {}}
          \cup {x \in {"INVALID_BANK_ACCOUNT"} : targets # {} /\ ~Permitted(b.policy, e)}]

\* The rows of bank entries joined with a key.
AllocatedRows(b, key) == {n \in BankRows(b) : key \in SparkTargets(b, b.lines[n])}

SparkSettlement(b, key) ==
  LET policy == b.policy
      records == SparkSettlementRows(b)
      rows == Settlements(SettlementRows(records, key))
      journals == Journals(SettlementRows(records, key))
      allocated == AllocatedRows(b, key)
      net == Total(NetAmounts(records, key))
      ledger == Total(SettlementMovements(records, key))
      bank == Total([n \in allocated |-> BankMovement(b.lines[n])])
      deltas == [PROCESSOR_LEDGER_MISMATCH |-> net - ledger,
                 PROCESSOR_BANK_MISMATCH |-> net - bank,
                 LEDGER_BANK_MISMATCH |-> ledger - bank]
      owned ==
        {x \in {"INVALID_ACCOUNT_ROLE"} :
           \E j \in journals : \/ PostedTo(j, "DEBIT") # PostedTo(j, "CREDIT")
                               \/ Cardinality(ClearingPostings(j)) # 1}
          \cup {x \in {"SETTLEMENT_FORMULA_MISMATCH"} : \E r \in rows : r.reported # Net(r)}
          \cup {x \in {"INVALID_BANK_ACCOUNT"} :
                  \E n \in allocated : ~Permitted(policy, b.lines[n])}
          \cup {x \in {"DUPLICATE_BANK_MOVEMENT"} :
                  \E n \in allocated : IdentityRows(b, n) # {n}}
          \cup {x \in {"MISSING_PROCESSOR_ACTIVITY"} : rows = {}}
          \cup {x \in {"MISSING_LEDGER_MOVEMENT"} : journals = {} /\ net # 0}
          \cup {x \in {"MISSING_BANK_SETTLEMENT"} : allocated = {} /\ net # 0}
      verdict == Verdict(Largest(deltas), policy.settlementTolerance[key.currency], owned,
                         {d \in DOMAIN deltas : deltas[d] # 0})
  IN [net |-> net, deltas |-> deltas, bank |-> bank,
      sources |-> {r.serial : r \in rows \cup journals}
                    \cup {b.lines[n].serial : n \in allocated},
      status |-> verdict.status, reasons |-> verdict.reasons]

SparkSettlements(b) ==
  [key \in SettlementKeys(SparkSettlementRows(b)) |-> SparkSettlement(b, key)]

-----------------------------------------------------------------------------
(* Debits and credits of a journal add up as longs, everything else as     *)
(* decimals that are cast to long at the end, in ANSI mode; then           *)
(* reconcile_sources.                                                      *)

SparkFits(b) ==
  /\ \A r \in Frame(b) : IsJournal(r) => {PostedTo(r, "DEBIT"), PostedTo(r, "CREDIT")} \subseteq Minor
  /\ LET found == SparkTransactions(b) IN
     \A key \in DOMAIN found :
       /\ {found[key].processor, found[key].ledger, found[key].delta} \subseteq Minor
       /\ Abs(found[key].delta) \in Minor
  /\ LET found == SparkSettlements(b) IN
     \A key \in DOMAIN found :
       /\ {found[key].net, found[key].bank, found[key].net - found[key].deltas.PROCESSOR_LEDGER_MISMATCH}
            \subseteq Minor
       /\ Largest(found[key].deltas) \in Minor

\* The job writes its candidate rows.
SparkAccepts(b) == SparkAdmits(b) /\ SparkUnambiguous(b) /\ SparkFits(b)
=============================================================================
