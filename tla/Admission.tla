----------------------------- MODULE Admission ------------------------------
(***************************************************************************)
(* admit_bundle of ledgerguard/reconciliation/admission.py: what it takes  *)
(* for one bundle of source records to be admitted on top of what was      *)
(* admitted before, and the state it hands on.                             *)
(*                                                                         *)
(* A record is a TLA+ record with the fields of its family.  `serial' is   *)
(* its source identity, numbered in the order in which the code sorts      *)
(* identities; `transport' stands for the fields a business digest leaves  *)
(* out (received_at, source_batch_id), numbered in the order of canonical  *)
(* bytes.  A digest is modelled as what it digests.                        *)
(***************************************************************************)
EXTENDS Integers, Sequences, FiniteSets, Functions, FiniteSetsExt

CONSTANTS
  MaxMinor,        \* largest amount that fits, MAX_I64 of the code
  NoReference,     \* an absent reference
  Normalized       \* normalize_bank_reference: a function on reference texts

ASSUME MaxMinorAssumption == MaxMinor \in Nat

\* checked_i64 accepts these and rejects the rest.
Minor == (-MaxMinor - 1)..MaxMinor

\* checked_abs has no answer for the least number.
AbsFits(n) == n \in Minor /\ n # -MaxMinor - 1
Abs(n) == IF n < 0 THEN -n ELSE n

\* f gives each serial its amount; checked_add rejects a sum whose partial
\* sums, in the order of identities, do not all fit.
Total(f) == FoldFunction(+, 0, f)
SumFits(f) == \A n \in DOMAIN f : Total([i \in {j \in DOMAIN f : j <= n} |-> f[i]]) \in Minor

Negatives == {"REFUND", "CHARGEBACK", "REVERSAL"}
TransactionEvents == Negatives \cup {"CAPTURE"}

\* The families and, for journals, the grain _record_key gives them.
IsEvent(r) == r.family = "PROCESSOR_EVENT"
IsSettlement(r) == r.family = "PROCESSOR_SETTLEMENT"
IsBank(r) == r.family = "BANK_ENTRY"
IsJournal(r) == r.family = "LEDGER_JOURNAL"
AtTransactionGrain(r) == IsEvent(r) \/ (IsJournal(r) /\ r.class \in TransactionEvents)
AtSettlementGrain(r) == ~AtTransactionGrain(r)

TransactionKey(r) ==
  [processor |-> r.processor, merchant |-> r.merchant, payment |-> r.payment,
   class |-> r.class, currency |-> r.currency]
SettlementKey(r) ==
  [processor |-> r.processor, merchant |-> r.merchant, settlement |-> r.settlement,
   cycle |-> r.cycle, currency |-> r.currency]

\* The business digest does not see how a record was delivered.
BusinessDigest(r) == [r EXCEPT !.transport = 0]

-----------------------------------------------------------------------------
(* A bundle: its run, its policy and the lines of its objects in the order *)
(* they are read.  The manifest digest covers all of it.                   *)

Observed(b) == Range(b.lines)

\* The grain of a record without its currency, _currency_domain.
CurrencyDomain(r) ==
  IF AtTransactionGrain(r)
  THEN <<"TRANSACTION", r.processor, r.merchant, r.payment, r.class>>
  ELSE <<"SETTLEMENT", r.processor, r.merchant, r.settlement, r.cycle>>

PolicyReused(state, b) ==
  /\ b.policy.version \in DOMAIN state.policies
  /\ state.policies[b.policy.version] # b.policy

\* A run that was seen is refused, the same bundle too.
RunSeen(state, b) == b.run \in DOMAIN state.runs

RunReused(state, b) ==
  /\ b.run \in DOMAIN state.runs
  /\ state.runs[b.run] # b

IdentityConflict(state, b) ==
  \E r \in Observed(b) :
    \/ /\ r.serial \in DOMAIN state.sources
       /\ state.sources[r.serial] # BusinessDigest(r)
    \/ \E s \in Observed(b) : s.serial = r.serial /\ BusinessDigest(s) # BusinessDigest(r)

PostedTo(j, side) == MapThenSumSet(LAMBDA p : p.amount, {p \in j.postings : p.side = side})
ClearingPostings(j) == {p \in j.postings : p.role = "PROCESSOR_CLEARING"}

\* _journal_admission; a line identifier occurs once.
Balanced(j) ==
  /\ Cardinality(j.postings) >= 2
  /\ \A p, q \in j.postings : p.line = q.line => p = q
  /\ \A p \in j.postings : p.amount > 0
  /\ PostedTo(j, "DEBIT") \in 1..MaxMinor
  /\ PostedTo(j, "DEBIT") = PostedTo(j, "CREDIT")

\* _verify_cross_record_invariants, over the records of this bundle.
CurrencyConflict(b) ==
  \E r, s \in {r \in Observed(b) : ~IsBank(r)} :
    CurrencyDomain(r) = CurrencyDomain(s) /\ r.currency # s.currency

SettlementNotUnique(b) ==
  \E r, s \in {r \in Observed(b) : IsSettlement(r)} :
    /\ <<r.merchant, r.currency, r.settlement>> = <<s.merchant, s.currency, s.settlement>>
    /\ <<r.processor, r.cycle>> # <<s.processor, s.cycle>>

BankReferenceAmbiguous(b) ==
  \E e \in {r \in Observed(b) : IsBank(r) /\ r.reference # NoReference} :
    Cardinality({SettlementKey(s) : s \in {s \in Observed(b) :
        /\ IsSettlement(s)
        /\ <<s.merchant, s.currency>> = <<e.merchant, e.currency>>
        /\ Normalized[s.settlement] = Normalized[e.reference]}}) > 1

\* Whether admit_bundle returns, and the state it returns.
Admits(state, b) ==
  /\ ~PolicyReused(state, b)
  /\ ~RunReused(state, b)
  /\ ~IdentityConflict(state, b)
  /\ \A r \in Observed(b) : IsJournal(r) => Balanced(r)
  /\ ~CurrencyConflict(b)
  /\ ~SettlementNotUnique(b)
  /\ ~BankReferenceAmbiguous(b)

\* f with the value v for k.
Put(f, k, v) == [i \in DOMAIN f \cup {k} |-> IF i = k THEN v ELSE f[i]]

LineOf(b, serial) == CHOOSE r \in Observed(b) : r.serial = serial

Admitted(state, b) ==
  [policies |-> Put(state.policies, b.policy.version, b.policy),
   runs     |-> Put(state.runs, b.run, b),
   sources  |-> LET new == {r.serial : r \in Observed(b)} IN
     [i \in DOMAIN state.sources \cup new |->
        IF i \in new THEN BusinessDigest(LineOf(b, i)) ELSE state.sources[i]]]

NothingAdmitted == [policies |-> <<>>, runs |-> <<>>, sources |-> <<>>]
=============================================================================
