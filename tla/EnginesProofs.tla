--------------------------- MODULE EnginesProofs ----------------------------
(***************************************************************************)
(* Proofs about Engines for every set of bundles and every policy: a run   *)
(* that both engines agree on restates everything accepted before it, and  *)
(* on everything accepted both engines agree.                              *)
(***************************************************************************)
EXTENDS Engines, ReconciliationProofs

\* One business content means one family.
LEMMA DigestKeepsFamily ==
  ASSUME NEW r, NEW s, Fielded(r), Fielded(s), BusinessDigest(r) = BusinessDigest(s)
  PROVE  r.family = s.family
<1>1. BusinessDigest(r).family = r.family /\ BusinessDigest(s).family = s.family
  BY DEF BusinessDigest, Fielded
<1>2. QED  BY <1>1

-----------------------------------------------------------------------------
(* The inductive invariant: an identity that was seen twice is the identity *)
(* of a bank entry among the settlements, so that every later report has   *)
(* its allocation.                                                         *)

Flagged == \A i \in duplicates : \E e \in BankEntries(settlements) : e.serial = i

\* No duplicate is remembered at the start.
LEMMA FlaggedInit == Init => Flagged
BY DEF Init, Flagged

\* A duplicate that a delivery remembers is a bank entry the state holds.
LEMMA FlaggedDeliver ==
  ASSUME InStep, Flagged, NEW b \in Bundles, Deliver(b)
  PROVE  Flagged'
<1>1. Admits(admission, b) /\ settlements' = MergeSettlements(settlements, b)
  BY DEF Deliver, Reconciles
<1>2. \A o \in Observed(b) : Fielded(o)
  BY BundleAssumption DEF Fielded
<1>3. ASSUME NEW i \in duplicates
      PROVE  \E e \in BankEntries(settlements') : e.serial = i
  BY <1>1 DEF Flagged, BankEntries, MergeSettlements
<1>4. ASSUME NEW o \in Observed(b), IsBank(o)
      PROVE  \E e \in BankEntries(settlements') : e.serial = o.serial
  <2>1. AtSettlementGrain(o)
    BY <1>4 DEF AtSettlementGrain, AtTransactionGrain, IsBank, IsEvent, IsJournal
  <2>2. CASE \E r \in settlements : r.serial = o.serial
    <3>1. PICK r \in settlements : r.serial = o.serial
      BY <2>2
    <3>2. admission.sources[r.serial] = BusinessDigest(r) /\ r.serial \in DOMAIN admission.sources
      BY DEF InStep, StatesInStep
    <3>3. BusinessDigest(r) = BusinessDigest(o)
      BY <1>1, <3>1, <3>2, OneDigestPerIdentity
    <3>4. Fielded(r)
      BY DEF InStep, GrainsApart
    <3>5. r.family = o.family
      BY <1>2, <3>3, <3>4, DigestKeepsFamily
    <3>6. QED  BY <1>1, <1>4, <3>1, <3>5 DEF BankEntries, MergeSettlements, IsBank
  <2>3. CASE ~ \E r \in settlements : r.serial = o.serial
    <3>1. FirstLine(b, o.serial) \in Observed(b) /\ FirstLine(b, o.serial).serial = o.serial
      BY FirstLineIsObserved
    <3>2. FirstLine(b, o.serial) \in settlements'
      BY <1>1, <2>1, <2>3 DEF MergeSettlements
    <3>3. BusinessDigest(FirstLine(b, o.serial)) = BusinessDigest(o)
      BY <1>1, <3>1, OneDigestPerIdentity
    <3>4. FirstLine(b, o.serial).family = o.family
      BY <1>2, <3>1, <3>3, DigestKeepsFamily
    <3>5. QED  BY <1>4, <3>1, <3>2, <3>4 DEF BankEntries, IsBank
  <2>4. QED  BY <2>2, <2>3
<1>5. duplicates' = duplicates \cup CurrentDuplicates(b)
  BY DEF Deliver, MergeDuplicates
<1>6. \A i \in CurrentDuplicates(b) : \E o \in Observed(b) : IsBank(o) /\ o.serial = i
  BY DEF CurrentDuplicates
<1>7. QED  BY <1>3, <1>4, <1>5, <1>6 DEF Flagged

\* A refusal changes neither.
LEMMA FlaggedStutter ==
  ASSUME Flagged, UNCHANGED vars
  PROVE  Flagged'
BY DEF Flagged, vars, states, BankEntries

-----------------------------------------------------------------------------
(* What the job knows of comes from its bundle.                            *)

\* A row of the dataframe is the content of a line of the bundle.
LEMMA DigestIsObserved ==
  ASSUME NEW b \in Bundles, NEW r \in Frame(b)
  PROVE  \E o \in Observed(b) : o.serial = r.serial
<1>1. PICK o \in Observed(b) : r = BusinessDigest(o)
  BY DEF Frame
<1>2. Fielded(o)
  BY BundleAssumption DEF Fielded
<1>3. r.serial = o.serial
  BY <1>1, <1>2 DEF BusinessDigest, Fielded
<1>4. QED  BY <1>3

\* A bank row is a line of the bundle.
LEMMA BankRowIsObserved ==
  ASSUME NEW b, NEW n \in BankRows(b)
  PROVE  b.lines[n] \in Observed(b)
BY DEF BankRows, Observed, Range

\* The sources of a row of the job's transactions are lines of its bundle.
LEMMA SparkTransactionSources ==
  ASSUME NEW b \in Bundles, NEW key \in DOMAIN SparkTransactions(b),
         NEW i \in SparkTransactions(b)[key].sources
  PROVE  \E o \in Observed(b) : o.serial = i
<1> DEFINE records == SparkTransactionRows(b)
           rows == Events(Rows(records, key)) \cup Journals(Rows(records, key))
<1>1. SparkTransactions(b)[key] = SparkTransaction(b.policy, records, key)
  BY DEF SparkTransactions
<1>2. SparkTransaction(b.policy, records, key).sources = {r.serial : r \in rows}
  BY DEF SparkTransaction
<1>3. PICK r \in rows : i = r.serial
  BY <1>1, <1>2
<1>4. r \in Frame(b)
  BY DEF Events, Journals, Rows, SparkTransactionRows
<1>5. QED  BY <1>3, <1>4, DigestIsObserved

\* So are those of a row of its settlements.
LEMMA SparkSettlementSources ==
  ASSUME NEW b \in Bundles, NEW key \in DOMAIN SparkSettlements(b),
         NEW i \in SparkSettlements(b)[key].sources
  PROVE  \E o \in Observed(b) : o.serial = i
<1> DEFINE records == SparkSettlementRows(b)
           rows == Settlements(SettlementRows(records, key))
                     \cup Journals(SettlementRows(records, key))
           banks == {b.lines[n].serial : n \in AllocatedRows(b, key)}
<1>1. SparkSettlements(b)[key] = SparkSettlement(b, key)
  BY DEF SparkSettlements
<1>2. SparkSettlement(b, key).sources = {r.serial : r \in rows} \cup banks
  BY DEF SparkSettlement
<1>3. CASE i \in banks
  BY <1>3, BankRowIsObserved DEF AllocatedRows
<1>4. ASSUME NEW r \in rows, i = r.serial
      PROVE  \E o \in Observed(b) : o.serial = i
  <2>1. r \in Frame(b)
    BY DEF Settlements, Journals, SettlementRows, Keyed, SparkSettlementRows
  <2>2. QED  BY <1>4, <2>1, DigestIsObserved
<1>5. QED  BY <1>1, <1>2, <1>3, <1>4

-----------------------------------------------------------------------------
(* What the Python engine reports covers all its records.                  *)

\* Every transaction record is a source of the candidate of its key.
LEMMA TransactionReported ==
  ASSUME NEW policy, NEW records, NEW r \in records
  PROVE  /\ TransactionKey(r) \in DOMAIN TransactionCandidates(policy, records)
         /\ r.serial \in TransactionCandidates(policy, records)[TransactionKey(r)].sources
<1> DEFINE key == TransactionKey(r)
<1>1. key \in TransactionKeys(records) /\ r \in Rows(records, key)
  BY DEF TransactionKeys, Rows
<1>2. TransactionCandidates(policy, records)[key] = TransactionCandidate(policy, records, key)
  BY <1>1 DEF TransactionCandidates
<1>3. TransactionCandidate(policy, records, key).sources = {x.serial : x \in Rows(records, key)}
  BY DEF TransactionCandidate
<1>4. QED  BY <1>1, <1>2, <1>3 DEF TransactionCandidates

\* Every settlement record but a bank entry is a source of the candidate of its
\* key.
LEMMA SettlementReported ==
  ASSUME NEW policy, NEW records, NEW flagged, NEW r \in records, ~IsBank(r)
  PROVE  /\ SettlementKey(r) \in DOMAIN SettlementCandidates(policy, records, flagged)
         /\ r.serial \in SettlementCandidates(policy, records, flagged)[SettlementKey(r)].sources
<1> DEFINE key == SettlementKey(r)
           rows == SettlementRows(records, key) \cup AllocatedTo(records, key)
<1>1. key \in SettlementKeys(records) /\ r \in SettlementRows(records, key)
  BY DEF SettlementKeys, SettlementRows, Keyed
<1>2. SettlementCandidates(policy, records, flagged)[key]
        = SettlementCandidate(policy, records, flagged, key)
  BY <1>1 DEF SettlementCandidates
<1>3. SettlementCandidate(policy, records, flagged, key).sources = {x.serial : x \in rows}
  BY DEF SettlementCandidate
<1>4. QED  BY <1>1, <1>2, <1>3 DEF SettlementCandidates

\* The allocation of a flagged bank entry says so.
LEMMA FlaggedReported ==
  ASSUME NEW policy, NEW records, NEW flagged, NEW e \in BankEntries(records),
         e.serial \in flagged
  PROVE  /\ e.serial \in DOMAIN Allocations(policy, records, flagged)
         /\ "DUPLICATE_BANK_MOVEMENT" \in Allocations(policy, records, flagged)[e.serial].reasons
<1> DEFINE x == CHOOSE x \in records : x.serial = e.serial
<1>1. x.serial = e.serial
  BY DEF BankEntries
<1>2. Allocations(policy, records, flagged)[e.serial] = Allocation(policy, records, flagged, x)
  BY DEF Allocations
<1> HIDE DEF x
<1>3. "DUPLICATE_BANK_MOVEMENT" \in Allocation(policy, records, flagged, x).reasons
  BY <1>1 DEF Allocation
<1>4. QED  BY <1>2, <1>3 DEF Allocations

\* The allocation of a bank entry on one line does not.
LEMMA SingleNotReported ==
  ASSUME NEW b, \A n \in BankRows(b) : IdentityRows(b, n) = {n},
         NEW i \in DOMAIN SparkAllocations(b)
  PROVE  "DUPLICATE_BANK_MOVEMENT" \notin SparkAllocations(b)[i].reasons
<1> DEFINE n == CHOOSE n \in BankRows(b) : b.lines[n].serial = i
<1>1. n \in BankRows(b)
  BY DEF SparkAllocations
<1>2. SparkAllocations(b)[i] = SparkAllocation(b, n)
  BY DEF SparkAllocations
<1> HIDE DEF n
<1>3. "DUPLICATE_BANK_MOVEMENT" \notin SparkAllocation(b, n).reasons
  BY <1>1 DEF SparkAllocation
<1>4. QED  BY <1>2, <1>3

-----------------------------------------------------------------------------

\* When both engines give one report, the bundle has a line for every identity
\* ever admitted (compare_parquet, prepare_financial_snapshot).
LEMMA AgreementRestates ==
  ASSUME InStep, NEW b \in Bundles, Publishable(b)
  PROVE  DOMAIN admission.sources \subseteq {o.serial : o \in Observed(b)}
<1> DEFINE txns == MergeTransactions(transactions, b)
           stls == MergeSettlements(settlements, b)
           dups == MergeDuplicates(duplicates, b)
<1>1. /\ TransactionCandidates(b.policy, txns) = SparkTransactions(b)
      /\ SettlementCandidates(b.policy, stls, dups) = SparkSettlements(b)
      /\ Allocations(b.policy, stls, dups) = SparkAllocations(b)
  BY DEF Publishable, Prepared, DerivedReport, ReportOn, SparkReport
<1>2. DOMAIN admission.sources = {r.serial : r \in transactions \cup settlements}
  BY DEF InStep, StatesInStep
<1>3. ASSUME NEW r \in transactions
      PROVE  \E o \in Observed(b) : o.serial = r.serial
  <2>1. CASE r \in txns
    BY <1>1, <2>1, TransactionReported, SparkTransactionSources
  <2>2. CASE r \notin txns
    BY <2>2 DEF MergeTransactions
  <2>3. QED  BY <2>1, <2>2
<1>4. ASSUME NEW r \in settlements
      PROVE  \E o \in Observed(b) : o.serial = r.serial
  <2>1. r \in stls
    BY DEF MergeSettlements
  <2>2. CASE ~IsBank(r)
    BY <1>1, <2>1, <2>2, SettlementReported, SparkSettlementSources
  <2>3. CASE IsBank(r)
    <3>1. r.serial \in DOMAIN Allocations(b.policy, stls, dups)
      BY <2>1, <2>3 DEF Allocations, BankEntries
    <3>2. \E n \in BankRows(b) : b.lines[n].serial = r.serial
      BY <1>1, <3>1 DEF SparkAllocations
    <3>3. QED  BY <3>2, BankRowIsObserved
  <2>4. QED  BY <2>2, <2>3
<1>5. QED  BY <1>2, <1>3, <1>4

\* When they do, no bank entry was ever seen twice: the later report would carry
\* its duplicate, and the job, which sees one line, would not.
LEMMA AgreementForgivesNothing ==
  ASSUME InStep, Flagged, NEW b \in Bundles, Publishable(b)
  PROVE  duplicates = {}
<1> DEFINE stls == MergeSettlements(settlements, b)
           dups == MergeDuplicates(duplicates, b)
<1>1. SUFFICES ASSUME NEW i \in duplicates  PROVE FALSE
  OBVIOUS
<1>2. Allocations(b.policy, stls, dups) = SparkAllocations(b)
  BY DEF Publishable, Prepared, DerivedReport, ReportOn, SparkReport
<1>3. PICK e \in BankEntries(settlements) : e.serial = i
  BY DEF Flagged
<1>4. e \in BankEntries(stls) /\ e.serial \in dups
  BY <1>3 DEF BankEntries, MergeSettlements, MergeDuplicates
<1>5. /\ i \in DOMAIN SparkAllocations(b)
      /\ "DUPLICATE_BANK_MOVEMENT" \in SparkAllocations(b)[i].reasons
  BY <1>2, <1>3, <1>4, FlaggedReported
<1>6. \A n \in BankRows(b) : IdentityRows(b, n) = {n}
  BY DEF Publishable, Validated
<1>7. QED  BY <1>5, <1>6, SingleNotReported

\* A run is published only if its bundle restates every source identity ever
\* accepted and no bank entry was ever seen twice: validate_candidate and
\* prepare_financial_snapshot compare two engines, of which one knows nothing
\* but the bundle, with the same expected rows.
THEOREM PublishedRestatesEverythingHolds == Spec => []PublishedRestatesEverything
<1> DEFINE IInv == InStep /\ Flagged
<1>1. Init => IInv
  BY InStepInit, FlaggedInit
<1>2. IInv /\ [Next]_vars => IInv'
  BY InStepDeliver, InStepStutter, FlaggedDeliver, FlaggedStutter DEF Next, Refuse
<1>3. IInv => PublishedRestatesEverything
  BY AgreementRestates, AgreementForgivesNothing DEF PublishedRestatesEverything
<1>4. QED  BY <1>1, <1>2, <1>3, PTL DEF Spec
-----------------------------------------------------------------------------
(* Everything as one bundle.                                               *)

\* The content of a content is itself.
LEMMA ContentOnce ==
  ASSUME NEW r
  PROVE  BusinessDigest(BusinessDigest(r)) = BusinessDigest(r)
BY DEF BusinessDigest

\* The records of all evidence: one for each identity, each its own content,
\* journals with as much debit as credit, and no more than fits.
LEMMA EvidenceRecords ==
  ASSUME HeldInv
  PROVE  /\ \A r, s \in Evidence : r.serial = s.serial => r = s
         /\ \A r \in Evidence : BusinessDigest(r) = r
         /\ \A r \in Evidence : IsJournal(r) => PostedTo(r, "DEBIT") = PostedTo(r, "CREDIT")
         /\ \A r \in Evidence : IsJournal(r) => PostedTo(r, "DEBIT") \in 1..MaxMinor
         /\ \A r \in Evidence : IsEvent(r) \/ IsSettlement(r) \/ IsBank(r) \/ IsJournal(r)
<1>1. /\ \A b \in accepted : b \in Bundles /\ Sound(b)
      /\ \A b \in accepted : \A o \in Observed(b) : admission.sources[o.serial] = BusinessDigest(o)
  BY DEF HeldInv, ReplayInv, Remembered
<1>2. \A b \in Bundles : \A o \in Observed(b) :
        Fielded(o) /\ Conforms(o) /\ (IsJournal(o) => "postings" \in DOMAIN o)
  BY BundleAssumption, ContractAssumption DEF Fielded
<1>3. ASSUME NEW o, Fielded(o), IsJournal(o) => "postings" \in DOMAIN o
      PROVE  LET d == BusinessDigest(o) IN
             /\ d.serial = o.serial /\ d.family = o.family
             /\ IsJournal(o) => d.postings = o.postings
  BY <1>3 DEF BusinessDigest, Fielded
<1>4. ASSUME NEW r \in Evidence
      PROVE  \E b \in accepted : \E o \in Observed(b) : r = BusinessDigest(o)
  BY DEF Evidence
<1>5. ASSUME NEW r \in Evidence
      PROVE  admission.sources[r.serial] = r
  BY <1>1, <1>2, <1>3, <1>4
<1>6. ASSUME NEW r \in Evidence
      PROVE  BusinessDigest(r) = r
  BY <1>4, ContentOnce
<1>7. ASSUME NEW r \in Evidence, IsJournal(r)
      PROVE  PostedTo(r, "DEBIT") = PostedTo(r, "CREDIT") /\ PostedTo(r, "DEBIT") \in 1..MaxMinor
  <2>1. PICK b \in accepted : \E o \in Observed(b) : r = BusinessDigest(o)
    BY <1>4
  <2>2. PICK o \in Observed(b) : r = BusinessDigest(o)
    BY <2>1
  <2>3. r.family = o.family /\ (IsJournal(o) => r.postings = o.postings)
    BY <1>1, <1>2, <1>3, <2>2
  <2>4. IsJournal(o)
    BY <1>7, <2>3 DEF IsJournal
  <2>5. PostedTo(o, "DEBIT") = PostedTo(o, "CREDIT") /\ PostedTo(o, "DEBIT") \in 1..MaxMinor
    BY <1>1, <2>4 DEF Sound, Balanced
  <2>6. r.postings = o.postings
    BY <2>3, <2>4
  <2>7. PostedTo(r, "DEBIT") = PostedTo(o, "DEBIT") /\ PostedTo(r, "CREDIT") = PostedTo(o, "CREDIT")
    BY <2>6 DEF PostedTo
  <2> QED
    BY <2>5, <2>7
<1>8. ASSUME NEW r \in Evidence
      PROVE  IsEvent(r) \/ IsSettlement(r) \/ IsBank(r) \/ IsJournal(r)
  BY <1>1, <1>2, <1>3, <1>4 DEF Conforms, IsEvent, IsSettlement, IsBank, IsJournal
<1>9. \A r, s \in Evidence : r.serial = s.serial => r = s
  BY <1>5
<1> QED
  BY <1>6, <1>7, <1>8, <1>9

\* The bundle of everything has one line for each identity, with its evidence.
LEMMA EverythingLines ==
  ASSUME HeldInv
  PROVE  /\ Everything.policy = report.policy
         /\ DOMAIN Everything.lines = {r.serial : r \in Evidence}
         /\ \A r \in Evidence : Everything.lines[r.serial] = r
         /\ Observed(Everything) = Evidence
<1>1. \A r, s \in Evidence : r.serial = s.serial => r = s
  BY EvidenceRecords
<1>2. /\ Everything.policy = report.policy
      /\ Everything.lines
           = [i \in {r.serial : r \in Evidence} |-> CHOOSE r \in Evidence : r.serial = i]
  BY DEF Everything
<1>3. \A r \in Evidence : (CHOOSE s \in Evidence : s.serial = r.serial) = r
  BY <1>1
<1>4. DOMAIN Everything.lines = {r.serial : r \in Evidence}
  BY <1>2
<1>5. \A r \in Evidence : Everything.lines[r.serial] = r
  BY <1>2, <1>3
<1>6. Observed(Everything) = Evidence
  <2>1. \A x : x \in Observed(Everything)
              <=> \E i \in DOMAIN Everything.lines : x = Everything.lines[i]
    BY DEF Observed, Range
  <2> QED
    BY <1>4, <1>5, <2>1
<1> QED
  BY <1>2, <1>4, <1>5, <1>6

\* Its dataframes hold the evidence, each bank entry in one row.
LEMMA EverythingFrames ==
  ASSUME HeldInv
  PROVE  LET b == Everything IN
         /\ SparkAdmits(b)
         /\ SparkTransactionRows(b) = Contents(transactions)
         /\ SparkSettlementRows(b) = Keyed(Contents(settlements))
         /\ BankRows(b) = {e.serial : e \in BankEvidence}
         /\ \A e \in BankEvidence : b.lines[e.serial] = e
         /\ \A n \in BankRows(b) : IdentityRows(b, n) = {n}
<1> DEFINE b == Everything
<1>1. /\ \A r, s \in Evidence : r.serial = s.serial => r = s
      /\ \A r \in Evidence : BusinessDigest(r) = r
  BY EvidenceRecords
<1>2. /\ DOMAIN b.lines = {r.serial : r \in Evidence}
      /\ \A r \in Evidence : b.lines[r.serial] = r
      /\ Observed(b) = Evidence
  BY EverythingLines
<1>3. /\ Evidence = Contents(transactions) \cup Contents(settlements)
      /\ \A d \in Contents(transactions) : AtTransactionGrain(d)
      /\ \A d \in Contents(settlements) : AtSettlementGrain(d)
  BY EvidenceIsHeld
<1> HIDE DEF b
<1>4. SparkAdmits(b)
  BY <1>1, <1>2 DEF SparkAdmits
<1>5. Frame(b) = {r \in Evidence : ~IsBank(r)}
  BY <1>1, <1>2 DEF Frame
<1>6. \A r : AtTransactionGrain(r) => ~IsBank(r)
  BY DEF AtTransactionGrain, IsEvent, IsJournal, IsBank
<1>7. SparkTransactionRows(b) = Contents(transactions)
  BY <1>3, <1>5, <1>6 DEF SparkTransactionRows, AtSettlementGrain
<1>8. SparkSettlementRows(b) = Keyed(Contents(settlements))
  BY <1>3, <1>5 DEF SparkSettlementRows, AtSettlementGrain, Keyed
<1>9. BankRows(b) = {e.serial : e \in BankEvidence}
  BY <1>2 DEF BankRows, BankEvidence
<1>10. \A e \in BankEvidence : b.lines[e.serial] = e
  BY <1>2 DEF BankEvidence
<1>11. ASSUME NEW n \in BankRows(b)
       PROVE  IdentityRows(b, n) = {n}
  BY <1>9, <1>10 DEF IdentityRows
<1> QED
  BY <1>4, <1>7, <1>8, <1>9, <1>10, <1>11 DEF b

-----------------------------------------------------------------------------
(* Transactions of the two engines.                                        *)

\* Both engines find the same references broken.
LEMMA SparkReferencesAgree ==
  ASSUME HeldInv, ReadAlike, NEW key
  PROVE  SparkReferenceReasons(Contents(transactions), key)
           = ReferenceReasons(Contents(transactions), key)
<1> DEFINE R == Contents(transactions)
<1>1. \A e \in Events(R) :
        IF e.class = "CAPTURE" THEN e.reference = NoReference
        ELSE \A c \in Joined(Events(R), e) : SameBusiness(e, c)
  BY EvidenceParts DEF ReadAlike
<1>2. Events(Events(R)) = Events(R) /\ Captures(Events(R)) = Captures(R)
  BY DEF Events, Captures
<1>3. \A e : Joined(Events(R), e) = Joined(R, e)
  BY <1>2 DEF Joined
<1> HIDE DEF R
<1>4. \A e \in Events(R), c \in Captures(R) : AppliesTo(e, c) <=> c \in Joined(R, e)
  BY <1>1, <1>3 DEF AppliesTo, Joined, SameBusiness
<1>5. \A e \in Events(R) : SparkUnresolved(R, e) <=> Unresolved(R, e)
  <2> SUFFICES ASSUME NEW e \in Events(R)
               PROVE  SparkUnresolved(R, e) <=> Unresolved(R, e)
    OBVIOUS
  <2>1. CASE e.class = "CAPTURE"
    BY <1>1, <2>1 DEF SparkUnresolved, Unresolved
  <2>2. CASE e.class # "CAPTURE"
    <3>1. Joined(R, e) \subseteq Captures(R)
      BY DEF Joined
    <3>2. \A c \in Joined(R, e) : SameBusiness(e, c)
      BY <1>1, <1>3, <2>2
    <3> QED
      BY <1>4, <2>2, <3>1, <3>2 DEF SparkUnresolved, Unresolved
  <2> QED
    BY <2>1, <2>2
<1>6. \A c \in Captures(R) : AppliedTotal(R, c) > c.amount <=> OverApplied(R, c)
  <2> SUFFICES ASSUME NEW c \in Captures(R)
               PROVE  AppliedTotal(R, c) > c.amount <=> OverApplied(R, c)
    OBVIOUS
  <2>1. {e \in Events(R) : c \in Joined(R, e)} = Applications(R, c)
    BY <1>4 DEF Applications
  <2>2. AppliedTotal(R, c) = Total(Amounts(Applications(R, c)))
    BY <2>1 DEF AppliedTotal
  <2> QED
    BY <2>2 DEF OverApplied
<1>7. \A e \in Events(R) : Joined(R, e) \subseteq Captures(R)
  BY DEF Joined
<1>8. \A e \in Events(Rows(R, key)) : e \in Events(R)
  BY DEF Events, Rows
<1>9. \A e \in Events(Rows(R, key)) :
        (\E c \in Joined(R, e) : AppliedTotal(R, c) > c.amount)
          <=> \E c \in Captures(R) : AppliesTo(e, c) /\ OverApplied(R, c)
  BY <1>4, <1>6, <1>7, <1>8
<1> QED
  BY <1>5, <1>8, <1>9 DEF SparkReferenceReasons, ReferenceReasons, R

\* Both engines give one candidate to a key.
LEMMA SparkTransactionAgrees ==
  ASSUME HeldInv, ReadAlike, NEW policy, NEW key
  PROVE  SparkTransaction(policy, Contents(transactions), key)
           = TransactionCandidate(policy, Contents(transactions), key)
<1> DEFINE R == Contents(transactions)
           E == Events(Rows(R, key))
           J == Journals(Rows(R, key))
           processor == Total(ProcessorAmounts(R, key))
           ledger == Total(LedgerMovements(R, key))
           spark == SparkReferenceReasons(R, key)
                      \cup {x \in {"INVALID_ACCOUNT_ROLE"} : \E j \in J : SparkRoleInvalid(policy, j)}
                      \cup {x \in {"MISSING_PROCESSOR_ACTIVITY"} : E = {}}
                      \cup {x \in {"MISSING_LEDGER_MOVEMENT"} : J = {}}
           reasons == TransactionReasons(policy, R, key)
           verdict(owned) ==
             Verdict(Abs(processor - ledger), policy.transactionTolerance[key.currency],
                     owned, {"PROCESSOR_LEDGER_MISMATCH"})
<1>1. R \subseteq Evidence /\ \A d \in R : AtTransactionGrain(d)
  BY EvidenceIsHeld
<1>2. \A j \in J : SparkRoleInvalid(policy, j) <=> ~RoleValid(policy, j)
  <2>1. \A j \in J : j \in Evidence /\ IsJournal(j)
    BY <1>1 DEF Journals, Rows
  <2>2. \A j \in J : PostedTo(j, "DEBIT") = PostedTo(j, "CREDIT")
    BY <2>1, EvidenceRecords
  <2> QED
    BY <2>2 DEF SparkRoleInvalid
<1>3. SparkReferenceReasons(R, key) = ReferenceReasons(R, key)
  BY SparkReferencesAgree
<1>4. {r.serial : r \in E \cup J} = {r.serial : r \in Rows(R, key)}
  <2>1. E \cup J = Rows(R, key)
    BY <1>1 DEF Events, Journals, Rows, AtTransactionGrain
  <2> QED
    BY <2>1
<1>5. reasons = ReferenceReasons(R, key)
                  \cup {x \in {"INVALID_ACCOUNT_ROLE"} : \E j \in J : ~RoleValid(policy, j)}
                  \cup {x \in {"MISSING_PROCESSOR_ACTIVITY"} : E = {}}
                  \cup {x \in {"MISSING_LEDGER_MOVEMENT"} : J = {}}
  BY DEF TransactionReasons
<1>6. spark = reasons
  <2> HIDE DEF R, E, J, reasons
  <2> QED
    BY <1>2, <1>3, <1>5
<1>7. SparkTransaction(policy, R, key)
        = [processor |-> processor, ledger |-> ledger, delta |-> processor - ledger,
           sources |-> {r.serial : r \in E \cup J},
           status |-> verdict(spark).status, reasons |-> verdict(spark).reasons]
  BY Zenon DEF SparkTransaction
<1>8. TransactionCandidate(policy, R, key)
        = [processor |-> processor, ledger |-> ledger, delta |-> processor - ledger,
           sources |-> {r.serial : r \in Rows(R, key)},
           status |-> verdict(reasons).status, reasons |-> verdict(reasons).reasons]
  BY Zenon DEF TransactionCandidate
<1>9. verdict(spark) = verdict(reasons)
  <2> HIDE DEF spark, reasons, processor, ledger
  <2> QED
    BY <1>6
<1> HIDE DEF spark, reasons, processor, ledger, verdict, E, J, R
<1> QED
  BY <1>4, <1>7, <1>8, <1>9 DEF R

\* Both engines report the same transactions.
LEMMA SparkTransactionsAgree ==
  ASSUME HeldInv, accepted # {}, ReadAlike
  PROVE  SparkTransactions(Everything) = report.transactions
<1> DEFINE R == Contents(transactions)
<1>1. SparkTransactionRows(Everything) = R /\ Everything.policy = report.policy
  BY EverythingFrames, EverythingLines
<1>2. SparkTransactions(Everything)
        = [key \in TransactionKeys(R) |-> SparkTransaction(report.policy, R, key)]
  BY <1>1 DEF SparkTransactions
<1>3. report.transactions
        = [key \in TransactionKeys(R) |-> TransactionCandidate(report.policy, R, key)]
  BY ReportOfEvidence DEF TransactionCandidates
<1>4. \A key : SparkTransaction(report.policy, R, key) = TransactionCandidate(report.policy, R, key)
  BY SparkTransactionAgrees
<1> HIDE DEF R
<1> QED
  BY <1>2, <1>3, <1>4
-----------------------------------------------------------------------------
(* Settlements of the two engines.                                         *)

\* The settlement records and the job's rows of them: the same keys, the same
\* rows of a key, and one row for each bank entry.
LEMMA SettlementRowsAgree ==
  ASSUME HeldInv, NEW key
  PROVE  LET b == Everything
             S == settlements
             K == SparkSettlementRows(b)
         IN /\ SettlementKeys(K) = SettlementKeys(S)
            /\ Settlements(SettlementRows(K, key))
                 = {BusinessDigest(r) : r \in Settlements(SettlementRows(S, key))}
            /\ Journals(SettlementRows(K, key))
                 = {BusinessDigest(r) : r \in Journals(SettlementRows(S, key))}
            /\ BankRows(b) = {e.serial : e \in BankEntries(S)}
            /\ \A e \in BankEntries(S) : b.lines[e.serial] = BusinessDigest(e)
<1> DEFINE b == Everything
           S == settlements
           K == SparkSettlementRows(b)
<1>1. \A r \in S : LET d == BusinessDigest(r) IN
        /\ d.serial = r.serial /\ d.family = r.family
        /\ ~IsBank(r) => \A f \in SettlementFields : d[f] = r[f]
  BY SettlementRecords
<1>2. \A r \in S : LET d == BusinessDigest(r) IN
        /\ IsBank(d) <=> IsBank(r)
        /\ IsSettlement(d) <=> IsSettlement(r)
        /\ IsJournal(d) <=> IsJournal(r)
        /\ ~IsBank(r) => SettlementKey(d) = SettlementKey(r)
  BY <1>1 DEF IsBank, IsSettlement, IsJournal, SettlementKey, SettlementFields
<1>3. K = Keyed(Contents(S))
  BY EverythingFrames
<1>4. \A d : d \in K <=> \E r \in S : ~IsBank(r) /\ d = BusinessDigest(r)
  BY <1>2, <1>3 DEF Keyed, Contents
<1>5. BankEvidence = BankEntries(Contents(S))
  BY EvidenceParts
<1>6. /\ BankRows(b) = {e.serial : e \in BankEvidence}
      /\ \A e \in BankEvidence : b.lines[e.serial] = e
  BY EverythingFrames
<1>7. \A d : d \in BankEvidence <=> \E e \in BankEntries(S) : d = BusinessDigest(e)
  BY <1>2, <1>5 DEF BankEntries, Contents
<1> HIDE DEF b, S, K
<1>8. Keyed(K) = K /\ \A r : r \in Keyed(S) <=> r \in S /\ ~IsBank(r)
  BY <1>2, <1>4 DEF Keyed
<1>9. SettlementKeys(K) = SettlementKeys(S)
  BY <1>2, <1>4, <1>8 DEF SettlementKeys
<1>10. \A d : d \in SettlementRows(K, key)
              <=> \E r \in SettlementRows(S, key) : d = BusinessDigest(r)
  BY <1>2, <1>4, <1>8 DEF SettlementRows
<1>11. SettlementRows(S, key) \subseteq S
  BY <1>8 DEF SettlementRows
<1>12. Settlements(SettlementRows(K, key))
         = {BusinessDigest(r) : r \in Settlements(SettlementRows(S, key))}
  BY <1>2, <1>10, <1>11 DEF Settlements
<1>13. Journals(SettlementRows(K, key))
         = {BusinessDigest(r) : r \in Journals(SettlementRows(S, key))}
  BY <1>2, <1>10, <1>11 DEF Journals
<1>14. BankEntries(S) \subseteq S
  BY DEF BankEntries
<1>15. BankRows(b) = {e.serial : e \in BankEntries(S)}
  <2>1. \A i : i \in BankRows(b) <=> \E d \in BankEvidence : i = d.serial
    BY <1>6
  <2>2. \A i : i \in BankRows(b) <=> \E e \in BankEntries(S) : i = e.serial
    BY <1>1, <1>7, <1>14, <2>1
  <2> QED
    BY <2>2
<1>16. \A e \in BankEntries(S) : b.lines[e.serial] = BusinessDigest(e)
  BY <1>1, <1>6, <1>7, <1>14
<1> QED
  BY <1>9, <1>12, <1>13, <1>15, <1>16 DEF b, S, K

\* A bank entry reads alike to both engines: the same targets, the same
\* movement, and neither knows it twice.
LEMMA BankRowsAgree ==
  ASSUME HeldInv, ReadAlike, NEW e \in BankEntries(settlements)
  PROVE  LET d == BusinessDigest(e) IN
         /\ Everything.lines[e.serial] = d
         /\ SparkTargets(Everything, d) = Targets(settlements, e)
         /\ BankMovement(d) = BankMovement(e)
         /\ \A policy : Permitted(policy, d) <=> Permitted(policy, e)
         /\ e.reference # NoReference
         /\ e.serial \notin duplicates
<1> DEFINE d == BusinessDigest(e)
           b == Everything
           K == SparkSettlementRows(b)
           S == settlements
<1>1. e \in S /\ IsBank(e)
  BY DEF BankEntries
<1>2. d.serial = e.serial /\ d.family = e.family /\ \A f \in BankFields : d[f] = e[f]
  BY <1>1, SettlementRecords
<1>3. d \in BankEvidence
  <2>1. BankEvidence = BankEntries(Contents(S))
    BY EvidenceParts
  <2> QED
    BY <1>1, <1>2, <2>1 DEF BankEntries, Contents, IsBank
<1>4. /\ d.reference # NoReference /\ ~Repeated(d)
      /\ Trimmed[d.reference] = Normalized[d.reference]
  BY <1>3 DEF ReadAlike
<1>5. SettlementKeys(K) = SettlementKeys(S) /\ b.lines[e.serial] = d
  BY SettlementRowsAgree
<1>6. \A k \in SettlementKeys(S) : Normalized[k.settlement] = k.settlement
  <2> SUFFICES ASSUME NEW k \in SettlementKeys(S)
               PROVE  Normalized[k.settlement] = k.settlement
    OBVIOUS
  <2>1. PICK r \in S : ~IsBank(r) /\ k = SettlementKey(r)
    BY DEF SettlementKeys, Keyed
  <2>2. LET x == BusinessDigest(r) IN
        /\ x.family = r.family /\ x.settlement = r.settlement
    BY <2>1, SettlementRecords DEF SettlementFields
  <2>3. BusinessDigest(r) \in Evidence /\ AtSettlementGrain(BusinessDigest(r))
    BY <2>1, EvidenceIsHeld DEF Contents
  <2>4. Normalized[r.settlement] = r.settlement
    BY <2>1, <2>2, <2>3 DEF ReadAlike, IsBank
  <2> QED
    BY <2>1, <2>4 DEF SettlementKey
<1>7. /\ d.reference = e.reference /\ d.merchant = e.merchant /\ d.currency = e.currency
      /\ d.account = e.account /\ d.direction = e.direction /\ d.amount = e.amount
  BY <1>2 DEF BankFields
<1> HIDE DEF d, b, K, S
<1>8. SparkTargets(b, d) = Targets(S, e)
  BY <1>4, <1>5, <1>6, <1>7 DEF SparkTargets, Targets, K
<1>9. BankMovement(d) = BankMovement(e)
  BY <1>7 DEF BankMovement
<1>10. \A policy : Permitted(policy, d) <=> Permitted(policy, e)
  BY <1>7 DEF Permitted
<1>11. e.serial \notin duplicates
  <2>1. \A i \in duplicates : \E a \in accepted : i \in CurrentDuplicates(a)
    BY DEF HeldInv, Traced
  <2>2. \A a \in accepted : d.serial \notin CurrentDuplicates(a)
    BY <1>4 DEF Repeated, CurrentDuplicates
  <2> QED
    BY <1>2, <2>1, <2>2
<1> QED
  BY <1>4, <1>5, <1>7, <1>8, <1>9, <1>10, <1>11 DEF d, b, S

\* Both engines allocate alike.
LEMMA SparkAllocationsAgree ==
  ASSUME HeldInv, accepted # {}, ReadAlike
  PROVE  /\ SparkAllocations(Everything) = report.allocations
         /\ SparkUnambiguous(Everything)
<1> DEFINE b == Everything
           S == settlements
           B == BankEntries(S)
<1>1. /\ BankRows(b) = {e.serial : e \in B}
      /\ \A e \in B : b.lines[e.serial] = BusinessDigest(e)
      /\ SettlementKeys(SparkSettlementRows(b)) = SettlementKeys(S)
  BY SettlementRowsAgree
<1>2. \A e \in B : BusinessDigest(e).serial = e.serial
  BY SettlementRecords DEF BankEntries
<1>3. b.policy = report.policy /\ \A n \in BankRows(b) : IdentityRows(b, n) = {n}
  BY EverythingLines, EverythingFrames
<1>4. report.allocations = Allocations(report.policy, S, duplicates)
  BY DEF HeldInv, ReplayInv, ReportOn
<1>5. \A r, s \in S : r.serial = s.serial => r = s
  BY SettlementRecords
<1>6. ASSUME NEW e \in B
      PROVE  SparkAllocation(b, e.serial) = Allocation(report.policy, S, duplicates, e)
  <2> DEFINE d == BusinessDigest(e)
  <2>1. /\ b.lines[e.serial] = d
        /\ SparkTargets(b, d) = Targets(S, e)
        /\ BankMovement(d) = BankMovement(e)
        /\ \A policy : Permitted(policy, d) <=> Permitted(policy, e)
        /\ e.reference # NoReference
        /\ e.serial \notin duplicates
    BY BankRowsAgree
  <2>2. IdentityRows(b, e.serial) = {e.serial}
    BY <1>1, <1>3
  <2> HIDE DEF d, b, S, B
  <2> QED
    BY <1>3, <2>1, <2>2 DEF SparkAllocation, Allocation
<1>7. {b.lines[n].serial : n \in BankRows(b)} = {e.serial : e \in B}
  <2> HIDE DEF b, B
  <2>1. \A e \in B : b.lines[e.serial].serial = e.serial
    BY <1>1, <1>2
  <2> QED
    BY <1>1, <2>1
<1>8. ASSUME NEW e \in B
      PROVE  /\ (CHOOSE n \in BankRows(b) : b.lines[n].serial = e.serial) = e.serial
             /\ (CHOOSE x \in S : x.serial = e.serial) = e
  <2>1. \A n \in BankRows(b) : b.lines[n].serial = n
    BY <1>1, <1>2
  <2>2. e.serial \in BankRows(b)
    BY <1>1
  <2>3. e \in S
    BY DEF BankEntries
  <2> HIDE DEF b, S, B
  <2>4. (CHOOSE n \in BankRows(b) : b.lines[n].serial = e.serial) = e.serial
    BY <2>1, <2>2
  <2>5. (CHOOSE x \in S : x.serial = e.serial) = e
    BY <1>5, <2>3
  <2> QED
    BY <2>4, <2>5
<1>9. SparkAllocations(b) = report.allocations
  <2> DEFINE D == {e.serial : e \in B}
             row(i) == CHOOSE n \in BankRows(b) : b.lines[n].serial = i
             entry(i) == CHOOSE x \in S : x.serial = i
             spark(i) == SparkAllocation(b, row(i))
             python(i) == Allocation(report.policy, S, duplicates, entry(i))
  <2>1. SparkAllocations(b) = [i \in D |-> spark(i)]
    BY <1>7 DEF SparkAllocations
  <2>2. report.allocations = [i \in D |-> python(i)]
    BY <1>4 DEF Allocations
  <2>3. ASSUME NEW e \in B
        PROVE  spark(e.serial) = python(e.serial)
    <3>1. row(e.serial) = e.serial /\ entry(e.serial) = e
      BY <1>8
    <3> HIDE DEF row, entry, b, S, B
    <3> QED
      BY <1>6, <3>1
  <2> HIDE DEF spark, python
  <2>4. \A i \in D : spark(i) = python(i)
    BY <2>3
  <2> HIDE DEF D
  <2> QED
    BY <2>1, <2>2, <2>4
<1>10. SparkUnambiguous(b)
  <2> SUFFICES ASSUME NEW n \in BankRows(b)
               PROVE  Cardinality({x \in IdentityRows(b, n) \X SettlementKeys(SparkSettlementRows(b)) :
                                     x[2] \in SparkTargets(b, b.lines[x[1]])}) <= 1
    BY DEF SparkUnambiguous
  <2> DEFINE X == {x \in IdentityRows(b, n) \X SettlementKeys(SparkSettlementRows(b)) :
                     x[2] \in SparkTargets(b, b.lines[x[1]])}
  <2>1. PICK e \in B : n = e.serial
    BY <1>1
  <2>2. SparkTargets(b, b.lines[n]) = Targets(S, e)
    BY <2>1, BankRowsAgree
  <2>3. \A k, l \in Targets(S, e) : k = l
    <3>1. TargetsUnique(S)
      BY DEF HeldInv, ReplayInv
    <3> QED
      BY <3>1, OneTarget
  <2>4. \A x \in X : x = <<n, x[2]>> /\ x[2] \in Targets(S, e)
    BY <1>3, <2>2
  <2> HIDE DEF X, b, S, B
  <2>5. \A x, y \in X : x = y
    BY <2>3, <2>4
  <2>6. \A x \in X : X = {x}
    BY <2>5
  <2>7. Cardinality(X) <= 1
    <3>1. CASE X = {}
      BY <3>1, FS_EmptySet
    <3>2. ASSUME NEW x \in X
          PROVE  Cardinality(X) <= 1
      <4>1. X = {x}
        BY <2>6, <3>2
      <4>2. Cardinality({x}) = 1
        BY FS_Singleton
      <4> QED
        BY <4>1, <4>2
    <3> QED
      BY <3>1, <3>2
  <2> QED
    BY <2>7 DEF X
<1> QED
  BY <1>9, <1>10
\* The record of an identity among settlement records, and its content.
LEMMA SettlementContentOf ==
  ASSUME HeldInv, NEW N, N \subseteq settlements, NEW r \in N
  PROVE  /\ (CHOOSE x \in N : x.serial = r.serial) = r
         /\ (CHOOSE x \in {BusinessDigest(s) : s \in N} : x.serial = r.serial) = BusinessDigest(r)
<1> DEFINE D == {BusinessDigest(s) : s \in N}
<1>1. /\ \A x, y \in N : x.serial = y.serial => x = y
      /\ \A x \in N : BusinessDigest(x).serial = x.serial
  BY SettlementRecords
<1>2. \A x, y \in D : x.serial = y.serial => x = y
  BY <1>1
<1>3. BusinessDigest(r) \in D /\ BusinessDigest(r).serial = r.serial
  BY <1>1
<1> HIDE DEF D
<1>4. (CHOOSE x \in D : x.serial = r.serial) = BusinessDigest(r)
  BY <1>2, <1>3
<1>5. (CHOOSE x \in N : x.serial = r.serial) = r
  BY <1>1
<1> QED
  BY <1>4, <1>5 DEF D

\* Both engines sum the same amounts for a key.
LEMMA SettlementAmountsAgree ==
  ASSUME HeldInv, accepted # {}, ReadAlike, NEW key
  PROVE  LET b == Everything
             K == SparkSettlementRows(b)
             S == settlements
         IN /\ NetAmounts(K, key) = NetAmounts(S, key)
            /\ SettlementMovements(K, key) = SettlementMovements(S, key)
            /\ AllocatedRows(b, key) = {e.serial : e \in AllocatedTo(S, key)}
            /\ [n \in AllocatedRows(b, key) |-> BankMovement(b.lines[n])] = BankMovements(S, key)
<1> DEFINE b == Everything
           K == SparkSettlementRows(b)
           S == settlements
           N == Settlements(SettlementRows(S, key))
           J == Journals(SettlementRows(S, key))
           A == AllocatedTo(S, key)
           ND == {BusinessDigest(r) : r \in N}
           JD == {BusinessDigest(r) : r \in J}
<1>1. /\ Settlements(SettlementRows(K, key)) = ND
      /\ Journals(SettlementRows(K, key)) = JD
      /\ BankRows(b) = {e.serial : e \in BankEntries(S)}
  BY SettlementRowsAgree
<1>2. /\ N \subseteq S /\ \A r \in N : IsSettlement(r)
      /\ J \subseteq S /\ \A r \in J : IsJournal(r)
      /\ A \subseteq BankEntries(S) /\ BankEntries(S) \subseteq S
  BY DEF Settlements, Journals, SettlementRows, Keyed, AllocatedTo, BankEntries
<1>3. {d.serial : d \in ND} = {r.serial : r \in N} /\ {d.serial : d \in JD} = {r.serial : r \in J}
  BY <1>2, ContentsByIdentity
<1>4. NetAmounts(K, key) = NetAmounts(S, key)
  <2> DEFINE spark(i) == Net(CHOOSE r \in ND : r.serial = i)
             python(i) == Net(CHOOSE r \in N : r.serial = i)
             I == {r.serial : r \in N}
  <2>1. NetAmounts(K, key) = [i \in I |-> spark(i)]
    <3>1. NetAmounts(K, key)
            = [i \in {r.serial : r \in ND} |-> spark(i)]
      BY <1>1 DEF NetAmounts
    <3> HIDE DEF spark, N, ND
    <3> QED
      BY <1>3, <3>1
  <2>2. NetAmounts(S, key) = [i \in I |-> python(i)]
    BY DEF NetAmounts
  <2>3. ASSUME NEW r \in N
        PROVE  spark(r.serial) = python(r.serial)
    <3>1. spark(r.serial) = Net(BusinessDigest(r)) /\ python(r.serial) = Net(r)
      BY <1>2, SettlementContentOf
    <3>2. \A f \in MoneyFields : BusinessDigest(r)[f] = r[f]
      BY <1>2, SettlementRecords
    <3>3. Net(BusinessDigest(r)) = Net(r)
      BY <3>2 DEF MoneyFields, Net
    <3> QED
      BY <3>1, <3>3
  <2> HIDE DEF spark, python, N
  <2>4. \A i \in I : spark(i) = python(i)
    BY <2>3
  <2> HIDE DEF I
  <2> QED
    BY <2>1, <2>2, <2>4
<1>5. SettlementMovements(K, key) = SettlementMovements(S, key)
  <2> DEFINE spark(i) == SettlementMovement(CHOOSE r \in JD : r.serial = i)
             python(i) == SettlementMovement(CHOOSE r \in J : r.serial = i)
             I == {r.serial : r \in J}
  <2>1. SettlementMovements(K, key) = [i \in I |-> spark(i)]
    <3>1. SettlementMovements(K, key)
            = [i \in {r.serial : r \in JD} |-> spark(i)]
      BY <1>1 DEF SettlementMovements
    <3> HIDE DEF spark, J, JD
    <3> QED
      BY <1>3, <3>1
  <2>2. SettlementMovements(S, key) = [i \in I |-> python(i)]
    BY DEF SettlementMovements
  <2>3. ASSUME NEW j \in J
        PROVE  spark(j.serial) = python(j.serial)
    <3>1. /\ spark(j.serial) = SettlementMovement(BusinessDigest(j))
          /\ python(j.serial) = SettlementMovement(j)
      BY <1>2, SettlementContentOf
    <3>2. BusinessDigest(j).postings = j.postings
      BY <1>2, SettlementRecords
    <3>3. ClearingPostings(BusinessDigest(j)) = ClearingPostings(j)
      BY <3>2 DEF ClearingPostings
    <3>4. SettlementMovement(BusinessDigest(j)) = SettlementMovement(j)
      BY <3>3 DEF SettlementMovement
    <3> QED
      BY <3>1, <3>4
  <2> HIDE DEF spark, python, J
  <2>4. \A i \in I : spark(i) = python(i)
    BY <2>3
  <2> HIDE DEF I
  <2> QED
    BY <2>1, <2>2, <2>4
<1>6. ASSUME NEW e \in BankEntries(S)
      PROVE  /\ key \in SparkTargets(b, b.lines[e.serial]) <=> e \in A
             /\ BankMovement(b.lines[e.serial]) = BankMovement(e)
  <2>1. /\ SparkTargets(b, b.lines[e.serial]) = Targets(S, e)
        /\ BankMovement(b.lines[e.serial]) = BankMovement(e)
    BY BankRowsAgree
  <2>2. TargetsUnique(S)
    BY DEF HeldInv, ReplayInv
  <2>3. key \in Targets(S, e) <=> Targets(S, e) = {key}
    BY <2>2, OneTarget
  <2> QED
    BY <2>1, <2>3 DEF AllocatedTo
<1>7. AllocatedRows(b, key) = {e.serial : e \in A}
  <2> HIDE DEF b, S, A
  <2> QED
    BY <1>1, <1>2, <1>6 DEF AllocatedRows
<1>8. [n \in AllocatedRows(b, key) |-> BankMovement(b.lines[n])] = BankMovements(S, key)
  <2> DEFINE spark(i) == BankMovement(b.lines[i])
             python(i) == BankMovement(CHOOSE e \in A : e.serial = i)
             I == {e.serial : e \in A}
  <2>1. [n \in AllocatedRows(b, key) |-> BankMovement(b.lines[n])] = [i \in I |-> spark(i)]
    BY <1>7
  <2>2. BankMovements(S, key) = [i \in I |-> python(i)]
    BY DEF BankMovements
  <2>3. ASSUME NEW e \in A
        PROVE  spark(e.serial) = python(e.serial)
    BY <1>2, <1>6, SettlementContentOf
  <2> HIDE DEF spark, python, A
  <2>4. \A i \in I : spark(i) = python(i)
    BY <2>3
  <2> HIDE DEF I
  <2> QED
    BY <2>1, <2>2, <2>4
<1> QED
  BY <1>4, <1>5, <1>7, <1>8

\* The reasons that the job collects for a key.
SparkOwned(b, key, net) ==
  LET records == SparkSettlementRows(b)
      rows == Settlements(SettlementRows(records, key))
      journals == Journals(SettlementRows(records, key))
      allocated == AllocatedRows(b, key)
  IN {x \in {"INVALID_ACCOUNT_ROLE"} :
           \E j \in journals : \/ PostedTo(j, "DEBIT") # PostedTo(j, "CREDIT")
                               \/ Cardinality(ClearingPostings(j)) # 1}
          \cup {x \in {"SETTLEMENT_FORMULA_MISMATCH"} : \E r \in rows : r.reported # Net(r)}
          \cup {x \in {"INVALID_BANK_ACCOUNT"} :
                  \E n \in allocated : ~Permitted(b.policy, b.lines[n])}
          \cup {x \in {"DUPLICATE_BANK_MOVEMENT"} :
                  \E n \in allocated : IdentityRows(b, n) # {n}}
          \cup {x \in {"MISSING_PROCESSOR_ACTIVITY"} : rows = {}}
          \cup {x \in {"MISSING_LEDGER_MOVEMENT"} : journals = {} /\ net # 0}
          \cup {x \in {"MISSING_BANK_SETTLEMENT"} : allocated = {} /\ net # 0}

\* They are those of the Python engine.
LEMMA SparkSettlementReasonsAgree ==
  ASSUME HeldInv, accepted # {}, ReadAlike, NEW key
  PROVE  SparkOwned(Everything, key, Total(NetAmounts(settlements, key)))
           = SettlementReasons(report.policy, settlements, duplicates, key)
<1> DEFINE b == Everything
           K == SparkSettlementRows(b)
           S == settlements
           N == Settlements(SettlementRows(S, key))
           J == Journals(SettlementRows(S, key))
           A == AllocatedTo(S, key)
           ND == Settlements(SettlementRows(K, key))
           JD == Journals(SettlementRows(K, key))
           net == Total(NetAmounts(S, key))
<1>1. /\ ND = {BusinessDigest(r) : r \in N}
      /\ JD = {BusinessDigest(r) : r \in J}
      /\ BankRows(b) = {e.serial : e \in BankEntries(S)}
  BY SettlementRowsAgree
<1>2. /\ N \subseteq S /\ \A r \in N : IsSettlement(r)
      /\ J \subseteq S /\ \A r \in J : IsJournal(r)
      /\ A \subseteq BankEntries(S) /\ BankEntries(S) \subseteq S
  BY DEF Settlements, Journals, SettlementRows, Keyed, AllocatedTo, BankEntries
<1>3. AllocatedRows(b, key) = {e.serial : e \in A}
  BY SettlementAmountsAgree
<1>4. b.policy = report.policy /\ \A n \in BankRows(b) : IdentityRows(b, n) = {n}
  BY EverythingLines, EverythingFrames
<1>5. \A r \in N : BusinessDigest(r).reported # Net(BusinessDigest(r)) <=> r.reported # Net(r)
  <2>1. \A r \in N : \A f \in MoneyFields : BusinessDigest(r)[f] = r[f]
    BY <1>2, SettlementRecords
  <2> QED
    BY <2>1 DEF MoneyFields, Net
<1>6. ASSUME NEW j \in J
      PROVE  LET d == BusinessDigest(j) IN
             /\ PostedTo(d, "DEBIT") = PostedTo(d, "CREDIT")
             /\ ClearingPostings(d) = ClearingPostings(j)
  <2>1. BusinessDigest(j).postings = j.postings /\ BusinessDigest(j).family = j.family
    BY <1>2, SettlementRecords
  <2>2. BusinessDigest(j) \in Evidence /\ IsJournal(BusinessDigest(j))
    BY <1>2, <2>1, EvidenceIsHeld DEF Contents, IsJournal
  <2> QED
    BY <2>1, <2>2, EvidenceRecords DEF ClearingPostings
<1>7. \A e \in A : /\ Permitted(b.policy, b.lines[e.serial]) <=> Permitted(report.policy, e)
                   /\ e.serial \notin duplicates
                   /\ IdentityRows(b, e.serial) = {e.serial}
  BY <1>1, <1>2, <1>4, BankRowsAgree
<1> HIDE DEF b, K, S, N, J, A, ND, JD, net
<1>8. /\ (\E j \in JD : \/ PostedTo(j, "DEBIT") # PostedTo(j, "CREDIT")
                        \/ Cardinality(ClearingPostings(j)) # 1)
           <=> \E j \in J : Cardinality(ClearingPostings(j)) # 1
      /\ JD = {} <=> J = {}
  BY <1>1, <1>6
<1>9. /\ (\E r \in ND : r.reported # Net(r)) <=> \E r \in N : r.reported # Net(r)
      /\ ND = {} <=> N = {}
  BY <1>1, <1>5
<1>10. /\ (\E n \in AllocatedRows(b, key) : ~Permitted(b.policy, b.lines[n]))
            <=> \E e \in A : ~Permitted(report.policy, e)
       /\ (\E n \in AllocatedRows(b, key) : IdentityRows(b, n) # {n})
            <=> \E e \in A : e.serial \in duplicates
       /\ AllocatedRows(b, key) = {} <=> A = {}
  BY <1>3, <1>7
<1> QED
  BY <1>8, <1>9, <1>10 DEF SparkOwned, SettlementReasons, FormulaMismatch, b, K, S, N, J, A, ND, JD, net

\* Both engines give one candidate to a settlement key.
LEMMA SparkSettlementAgrees ==
  ASSUME HeldInv, accepted # {}, ReadAlike, NEW key
  PROVE  SparkSettlement(Everything, key)
           = SettlementCandidate(report.policy, settlements, duplicates, key)
<1> DEFINE b == Everything
           K == SparkSettlementRows(b)
           S == settlements
           P == Settlements(SettlementRows(K, key)) \cup Journals(SettlementRows(K, key))
           Q == SettlementRows(S, key)
           A == AllocatedTo(S, key)
           net == Total(NetAmounts(S, key))
           ledger == Total(SettlementMovements(S, key))
           bank == Total(BankMovements(S, key))
           deltas == [PROCESSOR_LEDGER_MISMATCH |-> net - ledger,
                      PROCESSOR_BANK_MISMATCH |-> net - bank,
                      LEDGER_BANK_MISMATCH |-> ledger - bank]
           owned == SparkOwned(b, key, net)
           reasons == SettlementReasons(report.policy, S, duplicates, key)
           verdict(found) ==
             Verdict(Largest(deltas), report.policy.settlementTolerance[key.currency], found,
                     {d \in DOMAIN deltas : deltas[d] # 0})
<1>1. /\ NetAmounts(K, key) = NetAmounts(S, key)
      /\ SettlementMovements(K, key) = SettlementMovements(S, key)
      /\ AllocatedRows(b, key) = {e.serial : e \in A}
      /\ [n \in AllocatedRows(b, key) |-> BankMovement(b.lines[n])] = BankMovements(S, key)
  BY SettlementAmountsAgree
<1>2. b.policy = report.policy
  BY EverythingLines
<1>3. owned = reasons
  BY SparkSettlementReasonsAgree
<1>4. {r.serial : r \in P} \cup {b.lines[n].serial : n \in AllocatedRows(b, key)}
        = {r.serial : r \in Q \cup A}
  <2>1. /\ Settlements(SettlementRows(K, key)) = {BusinessDigest(r) : r \in Settlements(Q)}
        /\ Journals(SettlementRows(K, key)) = {BusinessDigest(r) : r \in Journals(Q)}
        /\ \A e \in BankEntries(S) : b.lines[e.serial] = BusinessDigest(e)
    BY SettlementRowsAgree
  <2>2. \A r \in S : BusinessDigest(r).serial = r.serial /\ Conforms(r)
    BY SettlementRecords
  <2>3. Q \subseteq S /\ A \subseteq BankEntries(S) /\ BankEntries(S) \subseteq S
    BY DEF SettlementRows, Keyed, AllocatedTo, BankEntries
  <2>4. Settlements(Q) \cup Journals(Q) = Q
    <3>1. \A r \in Q : ~IsBank(r) /\ AtSettlementGrain(r)
      BY <2>3 DEF SettlementRows, Keyed, HeldInv, ReplayInv, InStep, GrainsApart
    <3>2. \A r \in Q : IsSettlement(r) \/ IsJournal(r)
      BY <2>2, <2>3, <3>1 DEF Conforms, AtSettlementGrain, AtTransactionGrain
    <3> QED
      BY <3>2 DEF Settlements, Journals
  <2> HIDE DEF b, K, S, Q, A
  <2>5. \A d : d \in P <=> \E r \in Q : d = BusinessDigest(r)
    BY <2>1, <2>4
  <2>6. \A e \in A : b.lines[e.serial].serial = e.serial
    BY <2>1, <2>2, <2>3
  <2> HIDE DEF P
  <2>7. \A i : i \in {r.serial : r \in P} <=> \E r \in Q : i = r.serial
    BY <2>2, <2>3, <2>5
  <2>8. \A i : i \in {b.lines[n].serial : n \in AllocatedRows(b, key)} <=> \E e \in A : i = e.serial
    BY <1>1, <2>6
  <2>9. \A i : i \in {r.serial : r \in Q \cup A} <=> \E r \in Q \cup A : i = r.serial
    OBVIOUS
  <2> QED
    BY <2>7, <2>8, <2>9
<1>5. Total([n \in AllocatedRows(b, key) |-> BankMovement(b.lines[n])]) = bank
  BY <1>1
<1>6. SparkSettlement(b, key)
        = [net |-> net, deltas |-> deltas, bank |-> bank,
           sources |-> {r.serial : r \in P} \cup {b.lines[n].serial : n \in AllocatedRows(b, key)},
           status |-> verdict(owned).status, reasons |-> verdict(owned).reasons]
  <2>1. Total(NetAmounts(K, key)) = net /\ Total(SettlementMovements(K, key)) = ledger
    BY <1>1
  <2> QED
    BY Zenon, <1>2, <1>5, <2>1 DEF SparkSettlement, SparkOwned
<1>7. SettlementCandidate(report.policy, S, duplicates, key)
        = [net |-> net, deltas |-> deltas, bank |-> bank,
           sources |-> {r.serial : r \in Q \cup A},
           status |-> verdict(reasons).status, reasons |-> verdict(reasons).reasons]
  BY Zenon DEF SettlementCandidate, Deltas
<1>8. verdict(owned) = verdict(reasons)
  <2> HIDE DEF owned, reasons, deltas
  <2> QED
    BY <1>3
<1> HIDE DEF verdict, owned, reasons, deltas, net, ledger, bank, P, Q, A, K
<1> QED
  BY <1>4, <1>6, <1>7, <1>8
-----------------------------------------------------------------------------
(* The sums of the job fit where those of the Python engine do.            *)

\* A nonempty finite set of numbers has a largest.
LEMMA GreatestExists ==
  ASSUME NEW D, IsFiniteSet(D), D \subseteq Nat, D # {}
  PROVE  \E n \in D : \A j \in D : j <= n
<1> DEFINE P == {S \in SUBSET D : S = {} \/ \E n \in S : \A j \in S : j <= n}
<1>1. {} \in P
  OBVIOUS
<1>2. ASSUME NEW S \in SUBSET D, NEW x \in D \ S, S \in P
      PROVE  S \cup {x} \in P
  <2>1. CASE S = {}
    BY <2>1
  <2>2. CASE S # {}
    <3>1. PICK n \in S : \A j \in S : j <= n
      BY <1>2, <2>2
    <3>2. CASE x <= n
      BY <3>1, <3>2
    <3>3. CASE n <= x
      BY <3>1, <3>3
    <3> QED
      BY <3>2, <3>3
  <2> QED
    BY <2>1, <2>2
<1> HIDE DEF P
<1>3. D \in P
  BY <1>1, <1>2, FiniteInduction
<1> QED
  BY <1>3 DEF P

\* Partial sums that all fit include the whole sum.
LEMMA WholeSumFits ==
  ASSUME NEW f, Summable(f), DOMAIN f \subseteq Nat, SumFits(f)
  PROVE  Total(f) \in Minor
<1>1. CASE DOMAIN f = {}
  <2>1. Total(f) = 0
    BY <1>1, TotalEmpty
  <2> QED
    BY <2>1, MaxMinorAssumption DEF Minor
<1>2. CASE DOMAIN f # {}
  <2>1. PICK n \in DOMAIN f : \A j \in DOMAIN f : j <= n
    BY <1>2, GreatestExists DEF Summable
  <2>2. {j \in DOMAIN f : j <= n} = DOMAIN f
    BY <2>1
  <2>3. [i \in {j \in DOMAIN f : j <= n} |-> f[i]] = f
    BY <2>2 DEF Summable
  <2>4. Total([i \in {j \in DOMAIN f : j <= n} |-> f[i]]) \in Minor
    BY DEF SumFits
  <2> QED
    BY <2>3, <2>4
<1> QED
  BY <1>1, <1>2

\* A difference whose size fits fits itself.
LEMMA SizeFits ==
  ASSUME NEW n \in Int, AbsFits(n)
  PROVE  n \in Minor /\ Abs(n) \in Minor
BY MaxMinorAssumption DEF AbsFits, Abs, Minor

\* Every identity is a number.
LEMMA SerialsAreNumbers ==
  ASSUME HeldInv
  PROVE  /\ \A d \in Contents(transactions) : d.serial \in Nat
         /\ \A r \in settlements : r.serial \in Nat
<1>1. \A r \in transactions \cup settlements : r.serial \in Nat
  BY ContractAssumption DEF HeldInv, ReplayInv, Traced, Conforms
<1>2. \A r \in transactions : BusinessDigest(r).serial = r.serial
  BY ContentFields DEF HeldInv, ReplayInv
<1> QED
  BY <1>1, <1>2 DEF Contents

\* Every figure of the job's transactions fits.
LEMMA SparkTransactionsFit ==
  ASSUME HeldInv, accepted # {}, ReadAlike, NEW key \in DOMAIN SparkTransactions(Everything)
  PROVE  LET c == SparkTransactions(Everything)[key] IN
         {c.processor, c.ledger, c.delta} \subseteq Minor /\ Abs(c.delta) \in Minor
<1> DEFINE R == Contents(transactions)
           c == TransactionCandidate(report.policy, R, key)
           p == ProcessorAmounts(R, key)
           m == LedgerMovements(R, key)
<1>1. SparkTransactions(Everything) = TransactionCandidates(report.policy, R)
  BY SparkTransactionsAgree, ReportOfEvidence
<1>2. key \in TransactionKeys(R) /\ SparkTransactions(Everything)[key] = c
  BY <1>1 DEF TransactionCandidates
<1>3. c.processor = Total(p) /\ c.ledger = Total(m) /\ c.delta = Total(p) - Total(m)
  BY DEF TransactionCandidate
<1>4. TransactionsFit(R)
  <2>1. OneEach(transactions) /\ TransactionsFit(transactions)
    BY DEF HeldInv, ReplayInv, InStep, StatesInStep, OneEach
  <2> QED
    BY <2>1, ContentDecides
<1>5. SumFits(p) /\ SumFits(m) /\ AbsFits(Total(p) - Total(m))
  BY <1>2, <1>4 DEF TransactionsFit
<1>6. /\ Summable(p) /\ DOMAIN p = {r.serial : r \in Events(Rows(R, key))}
      /\ Summable(m) /\ DOMAIN m = {r.serial : r \in Journals(Rows(R, key))}
  BY ProcessorAmountsTotal, LedgerMovementsTotal
<1>7. \A r \in Events(Rows(R, key)) \cup Journals(Rows(R, key)) : r.serial \in Nat
  BY SerialsAreNumbers DEF Events, Journals, Rows
<1> HIDE DEF R, c, p, m
<1>8. DOMAIN p \subseteq Nat /\ DOMAIN m \subseteq Nat
  BY <1>6, <1>7
<1>9. Total(p) \in Minor /\ Total(m) \in Minor
  BY <1>5, <1>6, <1>8, WholeSumFits
<1>10. Total(p) \in Int /\ Total(m) \in Int
  BY <1>6, TotalSteps
<1>11. Total(p) - Total(m) \in Minor /\ Abs(Total(p) - Total(m)) \in Minor
  BY <1>5, <1>10, SizeFits
<1> QED
  BY <1>2, <1>3, <1>9, <1>11

\* Both engines report the same settlements.
LEMMA SparkSettlementsAgree ==
  ASSUME HeldInv, accepted # {}, ReadAlike
  PROVE  SparkSettlements(Everything) = report.settlements
<1> DEFINE spark(key) == SparkSettlement(Everything, key)
           python(key) == SettlementCandidate(report.policy, settlements, duplicates, key)
           K == SettlementKeys(settlements)
<1>1. SettlementKeys(SparkSettlementRows(Everything)) = K
  BY SettlementRowsAgree
<1>2. SparkSettlements(Everything) = [key \in K |-> spark(key)]
  BY <1>1 DEF SparkSettlements
<1>3. report.settlements = [key \in K |-> python(key)]
  BY DEF HeldInv, ReplayInv, ReportOn, SettlementCandidates
<1>4. \A key \in K : spark(key) = python(key)
  BY SparkSettlementAgrees
<1> HIDE DEF spark, python, K
<1> QED
  BY <1>2, <1>3, <1>4

\* Every figure of the job's settlements fits.
LEMMA SparkSettlementsFit ==
  ASSUME HeldInv, accepted # {}, ReadAlike, NEW key \in DOMAIN SparkSettlements(Everything)
  PROVE  LET c == SparkSettlements(Everything)[key] IN
         /\ {c.net, c.bank, c.net - c.deltas.PROCESSOR_LEDGER_MISMATCH} \subseteq Minor
         /\ Largest(c.deltas) \in Minor
<1> DEFINE S == settlements
           c == SettlementCandidate(report.policy, S, duplicates, key)
           nets == NetAmounts(S, key)
           moved == SettlementMovements(S, key)
           paid == BankMovements(S, key)
           n == Total(nets)
           l == Total(moved)
           p == Total(paid)
           ds == [PROCESSOR_LEDGER_MISMATCH |-> n - l, PROCESSOR_BANK_MISMATCH |-> n - p,
                  LEDGER_BANK_MISMATCH |-> l - p]
<1>1. /\ key \in SettlementKeys(S)
      /\ SparkSettlements(Everything)[key] = c
  BY SettlementRowsAgree, SparkSettlementAgrees DEF SparkSettlements
<1>2. c.net = n /\ c.bank = p /\ c.deltas = ds
  BY DEF SettlementCandidate, Deltas
<1>3. SettlementsFit(S)
  BY DEF HeldInv, ReplayInv
<1>4. Deltas(S, key) = ds
  BY DEF Deltas
<1>5. /\ SumFits(nets) /\ SumFits(moved) /\ SumFits(paid)
      /\ \A d \in DOMAIN Deltas(S, key) : AbsFits(Deltas(S, key)[d])
  BY <1>1, <1>3 DEF SettlementsFit
<1>6. /\ Summable(nets) /\ DOMAIN nets = {r.serial : r \in Settlements(SettlementRows(S, key))}
      /\ Summable(moved) /\ DOMAIN moved = {r.serial : r \in Journals(SettlementRows(S, key))}
      /\ Summable(paid) /\ DOMAIN paid = {e.serial : e \in AllocatedTo(S, key)}
  BY SettlementSums
<1>7. \A r \in Settlements(SettlementRows(S, key)) \cup Journals(SettlementRows(S, key))
                 \cup AllocatedTo(S, key) : r.serial \in Nat
  BY SerialsAreNumbers
    DEF Settlements, Journals, SettlementRows, Keyed, AllocatedTo, BankEntries
<1> HIDE DEF S, c, nets, moved, paid
<1>8. DOMAIN nets \subseteq Nat /\ DOMAIN moved \subseteq Nat /\ DOMAIN paid \subseteq Nat
  BY <1>6, <1>7
<1>9. n \in Minor /\ l \in Minor /\ p \in Minor
  BY <1>5, <1>6, <1>8, WholeSumFits
<1>10. n \in Int /\ l \in Int /\ p \in Int
  BY <1>6, TotalSteps
<1>11. \A d \in DOMAIN ds : AbsFits(ds[d])
  BY <1>4, <1>5
<1> HIDE DEF n, l, p
<1>12. Largest(ds) \in Minor
  <2>1. PICK d \in DOMAIN ds : Abs(ds[d]) = Largest(ds)
    BY <1>10, LargestIsLargest
  <2>2. ds[d] \in Int /\ AbsFits(ds[d])
    BY <1>10, <1>11
  <2> HIDE DEF ds
  <2>3. Abs(ds[d]) \in Minor
    BY <2>2, SizeFits
  <2> QED
    BY <2>1, <2>3
<1>13. n - ds.PROCESSOR_LEDGER_MISMATCH = l
  BY <1>10
<1> QED
  BY <1>1, <1>2, <1>9, <1>12, <1>13

\* Debits and credits of all journals are within 64 bits, because admission
\* added them up as checked integers.
LEMMA SparkPostingsFit ==
  ASSUME HeldInv, NEW r \in Frame(Everything), IsJournal(r)
  PROVE  {PostedTo(r, "DEBIT"), PostedTo(r, "CREDIT")} \subseteq Minor
<1>1. /\ \A x \in Evidence : BusinessDigest(x) = x
      /\ Observed(Everything) = Evidence
  BY EvidenceRecords, EverythingLines
<1>2. r \in Evidence
  BY <1>1 DEF Frame
<1>3. /\ PostedTo(r, "DEBIT") = PostedTo(r, "CREDIT")
      /\ PostedTo(r, "DEBIT") \in 1..MaxMinor
  BY <1>2, EvidenceRecords
<1>4. MaxMinor \in Nat
  BY MaxMinorAssumption
<1>5. 1..MaxMinor \subseteq Minor
  BY <1>4 DEF Minor
<1> QED
  BY <1>3, <1>5

\* The Spark job and the Python engine, on all accepted evidence: the job, given
\* everything as one bundle, accepts it and gives the candidates and allocations
\* that the Python engine came to bundle by bundle, in whatever order
\* (_transaction_candidates, _settlement_candidates).
THEOREM SparkMatchesHistoryHolds == Spec => []SparkMatchesHistory
<1>1. ASSUME HeldInv, accepted # {}, ReadAlike
      PROVE  SparkAccepts(Everything) /\ SparkReport(Everything) = report
  <2>1. /\ SparkTransactions(Everything) = report.transactions
        /\ SparkSettlements(Everything) = report.settlements
        /\ SparkAllocations(Everything) = report.allocations
        /\ SparkUnambiguous(Everything)
        /\ Everything.policy = report.policy
        /\ SparkAdmits(Everything)
    BY <1>1, SparkTransactionsAgree, SparkSettlementsAgree, SparkAllocationsAgree,
       EverythingLines, EverythingFrames
  <2>2. SparkFits(Everything)
    <3>1. \A r \in Frame(Everything) :
            IsJournal(r) => {PostedTo(r, "DEBIT"), PostedTo(r, "CREDIT")} \subseteq Minor
      BY <1>1, SparkPostingsFit
    <3> QED
      BY <1>1, <3>1, SparkTransactionsFit, SparkSettlementsFit DEF SparkFits
  <2>3. report = [policy |-> report.policy, transactions |-> report.transactions,
                  settlements |-> report.settlements, allocations |-> report.allocations]
    BY <1>1 DEF HeldInv, ReplayInv, ReportOn
  <2> QED
    BY <2>1, <2>2, <2>3 DEF SparkAccepts, SparkReport
<1>2. HeldInv => SparkMatchesHistory
  BY <1>1 DEF SparkMatchesHistory
<1> QED
  BY <1>2, HeldAlways, PTL
=============================================================================
