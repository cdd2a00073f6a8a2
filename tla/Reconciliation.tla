--------------------------- MODULE Reconciliation ---------------------------
(***************************************************************************)
(* The financial half of PreparePublication                                *)
(* (ledgerguard_control/preparation.py, prepare_financial_snapshot): a     *)
(* bundle is admitted on top of the committed states, both grains are      *)
(* reconciled over everything ever accepted, and the three new states and  *)
(* the report replace the old ones together, or nothing changes.           *)
(*                                                                         *)
(* Preparation and publication of a bundle are one step: a preparation     *)
(* that is not published leaves no trace, and one whose predecessor has    *)
(* been replaced is refused (Authority, Workflow).                         *)
(***************************************************************************)
EXTENDS SettlementRules, Oracle

CONSTANTS Bundles, NoPolicy

\* The fields that the key of a transaction is made of.
TransactionFields == {"processor", "merchant", "payment", "class", "currency"}

\* A bundle has a list of lines, and a record the fields the code reads to
\* find its identity and its grain, and at the transaction grain its facts.
ASSUME BundleAssumption ==
  \A b \in Bundles :
    /\ b.lines \in Seq(Observed(b))
    /\ \A r \in Observed(b) :
         /\ {"family", "serial", "transport"} \subseteq DOMAIN r
         /\ r.transport \in Nat
         /\ IsJournal(r) => {"class", "postings"} \subseteq DOMAIN r
         /\ IsEvent(r) => {"amount", "reference"} \subseteq DOMAIN r
         /\ AtTransactionGrain(r) => TransactionFields \subseteq DOMAIN r

SettlementFields == {"processor", "merchant", "settlement", "cycle", "currency"}
BankFields == {"account", "merchant", "currency", "reference", "direction", "amount"}
MoneyFields == {"gross", "fee", "refund", "chargeback", "reserve", "reported"}

\* What the schemas of the contracts ask of a record.
Conforms(r) ==
  /\ r.serial \in Nat
  /\ IsEvent(r) \/ IsSettlement(r) \/ IsBank(r) \/ IsJournal(r)
  /\ IsEvent(r) => r.class \in TransactionEvents /\ r.amount \in 1..MaxMinor
  /\ IsJournal(r) =>
       /\ IsFiniteSet(r.postings)
       /\ \A p \in r.postings : p.side \in {"DEBIT", "CREDIT"} /\ p.amount \in 1..MaxMinor
  /\ IsBank(r) =>
       /\ BankFields \subseteq DOMAIN r
       /\ r.direction \in {"CREDIT", "DEBIT"} /\ r.amount \in 1..MaxMinor
  /\ IsSettlement(r) =>
       MoneyFields \subseteq DOMAIN r /\ \A f \in MoneyFields : r[f] \in Minor
  /\ AtSettlementGrain(r) /\ ~IsBank(r) => SettlementFields \subseteq DOMAIN r

ASSUME ContractAssumption ==
  \A b \in Bundles : \A r \in Observed(b) : Conforms(r)

\* Every policy has the tolerances of every currency.
ASSUME PolicyAssumption ==
  \A a, b \in Bundles : \A r \in Observed(b) : ~IsBank(r) =>
    /\ a.policy.transactionTolerance[r.currency] \in Nat
    /\ a.policy.settlementTolerance[r.currency] \in Nat

VARIABLES
  admission,     \* AdmissionState: policies, runs, digests by source identity
  transactions,  \* TransactionState: records
  settlements,   \* SettlementState: records
  duplicates,    \* SettlementState: duplicate_bank_identities
  report,        \* the policy, candidates and allocations of the last run
  accepted       \* history: the bundles that were accepted

states == <<admission, transactions, settlements, duplicates>>
vars == <<states, report, accepted>>

NoReport == [policy |-> NoPolicy, transactions |-> <<>>, settlements |-> <<>>,
             allocations |-> <<>>]

\* Whether a bundle passes every check from admission to the report.
Reconciles(b) ==
  /\ Admits(admission, b)
  /\ TransactionsFit(MergeTransactions(transactions, b))
  /\ TargetsUnique(MergeSettlements(settlements, b))
  /\ SettlementsFit(MergeSettlements(settlements, b))

\* The report on these states under the policy p.
ReportOn(p, txns, stls, dups) ==
  [policy       |-> p,
   transactions |-> TransactionCandidates(p, txns),
   settlements  |-> SettlementCandidates(p, stls, dups),
   allocations  |-> Allocations(p, stls, dups)]

Init ==
  /\ admission = NothingAdmitted
  /\ transactions = {}
  /\ settlements = {}
  /\ duplicates = {}
  /\ report = NoReport
  /\ accepted = {}

Deliver(b) ==
  /\ Reconciles(b)
  /\ admission' = Admitted(admission, b)
  /\ transactions' = MergeTransactions(transactions, b)
  /\ settlements' = MergeSettlements(settlements, b)
  /\ duplicates' = MergeDuplicates(duplicates, b)
  /\ report' = ReportOn(b.policy, transactions', settlements', duplicates')
  /\ accepted' = accepted \cup {b}

\* The transactions are saved before the settlements are looked at.
RefuseLate(b) ==
  /\ ~Reconciles(b)
  /\ IF Admits(admission, b) /\ TransactionsFit(MergeTransactions(transactions, b))
     THEN transactions' = MergeTransactions(transactions, b)
     ELSE UNCHANGED transactions
  /\ UNCHANGED <<admission, settlements, duplicates, report, accepted>>

\* A bundle that is refused by any check changes nothing.
Refuse(b) ==
  /\ ~Reconciles(b)
  /\ UNCHANGED vars

Next == \E b \in Bundles : Deliver(b) \/ Refuse(b)

Spec == Init /\ [][Next]_vars
-----------------------------------------------------------------------------
(* Properties.  Evidence is what was accepted, whatever the order and the  *)
(* bundles it came in, and however often.                                  *)

Evidence == {BusinessDigest(r) : r \in UNION {Observed(b) : b \in accepted}}
EventEvidence == {r \in Evidence : IsEvent(r)}
BankEvidence == {r \in Evidence : IsBank(r)}
JournalEvidence(grain) == {r \in Evidence : IsJournal(r) /\ CurrencyDomain(r)[1] = grain}

SumOf(rows) == MapThenSumSet(LAMBDA r : r.amount, rows)
ClearedOn(journals, side) ==
  MapThenSumSet(LAMBDA j : SumOf({p \in ClearingPostings(j) : p.side = side}), journals)

\* The source events that reference the capture c rightly.
UsesOf(c) ==
  {e \in EventEvidence :
     /\ e.class \in Negatives
     /\ e.reference = c.serial
     /\ \A f \in {"processor", "merchant", "payment", "currency"} : e[f] = c[f]}

CaptureEvidence == {c \in EventEvidence : c.class = "CAPTURE"}

\* What a reader gathers by hand about one transaction key.
TransactionSheet(key) ==
  LET events == {r \in EventEvidence : TransactionKey(r) = key}
      journals == {r \in JournalEvidence("TRANSACTION") : TransactionKey(r) = key}
      side == IF key.class = "CAPTURE" THEN "DEBIT" ELSE "CREDIT"
  IN [class |-> key.class,
      processorAmount |-> SumOf(events),
      ledger |-> ClearedOn(journals, "DEBIT") - ClearedOn(journals, "CREDIT"),
      events |-> Cardinality(events), journals |-> Cardinality(journals),
      tolerance |-> report.policy.transactionTolerance[key.currency],
      rolesValid |-> \A j \in journals :
        /\ OneClearingLine(j.postings)
        /\ \A p \in j.postings : IF p.role = "PROCESSOR_CLEARING" THEN p.side = side
                                 ELSE p.role \in report.policy.counterparts,
      referenced |-> \E e \in events : e.reference # NoReference,
      resolved |-> \A e \in events : \E c \in CaptureEvidence : e \in UsesOf(c),
      overApplied |-> \E c \in CaptureEvidence :
        UsesOf(c) \cap events # {} /\ CapacityExceeded(c.amount, SumOf(UsesOf(c)))]

\* Every transaction candidate is what the independent oracle expects from
\* all the evidence accepted so far: nothing depends on the order of the
\* bundles, on how records were grouped into them, or on replays.
TransactionsMatchOracle ==
  accepted # {} =>
    /\ DOMAIN report.transactions =
         {TransactionKey(r) : r \in EventEvidence \cup JournalEvidence("TRANSACTION")}
    /\ \A key \in DOMAIN report.transactions :
         LET expected == TransactionExpectation(TransactionSheet(key)) IN
         \A f \in DOMAIN expected : report.transactions[key][f] = expected[f]

\* A bank entry that a bundle held twice.
Repeated(e) ==
  \E b \in accepted : \E i, j \in DOMAIN b.lines :
    i # j /\ b.lines[i].serial = e.serial /\ b.lines[j].serial = e.serial

SettlementSheet(key) ==
  LET journals == {r \in JournalEvidence("SETTLEMENT") : SettlementKey(r) = key}
      bank == {e \in BankEvidence :
                 /\ e.reference # NoReference
                 /\ Normalized[e.reference] = Normalized[key.settlement]
                 /\ e.merchant = key.merchant /\ e.currency = key.currency}
      domain == <<key.merchant, key.currency>>
      accounts == report.policy.accounts
  IN [settlements |-> {r \in Evidence : IsSettlement(r) /\ SettlementKey(r) = key},
      ledger |-> ClearedOn(journals, "CREDIT") - ClearedOn(journals, "DEBIT"),
      journals |-> Cardinality(journals), bank |-> bank,
      rolesValid |-> \A j \in journals : OneClearingLine(j.postings),
      tolerance |-> report.policy.settlementTolerance[key.currency],
      repeated |-> \E e \in bank : Repeated(e),
      permitted |-> IF domain \in DOMAIN accounts THEN accounts[domain] ELSE {}]

\* The same for settlements.  A bank entry that was ever seen twice in one
\* bundle stays an exception, whatever is delivered later.
SettlementsMatchOracle ==
  accepted # {} =>
    /\ DOMAIN report.settlements =
         {SettlementKey(r) : r \in {r \in Evidence : AtSettlementGrain(r) /\ ~IsBank(r)}}
    /\ \A key \in DOMAIN report.settlements :
         LET expected == SettlementExpectation(SettlementSheet(key)) IN
         \A f \in DOMAIN expected : report.settlements[key][f] = expected[f]

\* No capture is given back twice: what refunds, chargebacks and reversals
\* take from a capture, counting those that pass without an exception, is
\* never more than what was captured.
CaptureNotExceeded ==
  \A c \in CaptureEvidence :
    SumOf({e \in UsesOf(c) : report.transactions[TransactionKey(e)].status # "EXCEPTION"})
      <= c.amount

\* Every bank entry counts once, in one settlement or among the unallocated,
\* and in a matched batch the bank paid what the processors reported.
BankConserved ==
  LET keys == DOMAIN report.settlements
      bank == MapThenSumSet(LAMBDA e : BankMovement(e), BankEvidence)
      loose == {i \in DOMAIN report.allocations : report.allocations[i].targets = {}}
      paid == [k \in keys |-> report.settlements[k].bank]
      looseSum == [i \in loose |-> report.allocations[i].signed]
      net == [k \in keys |-> report.settlements[k].net]
  IN /\ Total(paid) + Total(looseSum) = bank
     /\ \A i \in DOMAIN report.allocations : Cardinality(report.allocations[i].targets) <= 1
     /\ BatchStatus(report.settlements, report.allocations) = "MATCHED" => Total(net) = bank

\* An accepted bundle can be delivered again at any later time: it is
\* accepted, and under the same policy no candidate changes.
ReplayChangesNothing ==
  \A b \in accepted :
    LET again == ReportOn(b.policy, MergeTransactions(transactions, b),
                          MergeSettlements(settlements, b), MergeDuplicates(duplicates, b))
    IN /\ Reconciles(b)
       /\ b.policy = report.policy =>
            /\ again.transactions = report.transactions
            /\ again.settlements = report.settlements

\* The three states never come apart: a source identity is known to
\* admission exactly when one of the two grains has its record, with the
\* same business content, and it has one record.
StatesInStep ==
  LET records == transactions \cup settlements IN
  /\ DOMAIN admission.sources = {r.serial : r \in records}
  /\ \A r \in records : admission.sources[r.serial] = BusinessDigest(r)
  /\ \A r, s \in records : r.serial = s.serial => r = s

\* Accepted evidence is never lost, changed or, for a bank entry seen twice,
\* forgiven.
EvidenceKept ==
  [][/\ \A i \in DOMAIN admission.sources :
          i \in DOMAIN admission'.sources /\ admission'.sources[i] = admission.sources[i]
     /\ \A v \in DOMAIN admission.policies :
          v \in DOMAIN admission'.policies /\ admission'.policies[v] = admission.policies[v]
     /\ settlements \subseteq settlements'
     /\ duplicates \subseteq duplicates']_vars
=============================================================================
