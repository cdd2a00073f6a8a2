------------------------------ MODULE Engines -------------------------------
(***************************************************************************)
(* The Spark job and the Python engine over one bundle.  In operation the  *)
(* job's rows are compared with expected rows that came with the run       *)
(* (ValidateCandidate: candidate_validation.py, financial_rows.py), and so *)
(* are the rows the Python engine derives on top of the committed states   *)
(* (PreparePublication: preparation.py).  The job knows no earlier bundle. *)
(***************************************************************************)
EXTENDS Reconciliation, SparkRules

\* The row of each bank identity, when each has one.
SparkAllocations(b) ==
  [i \in {b.lines[n].serial : n \in BankRows(b)} |->
     SparkAllocation(b, CHOOSE n \in BankRows(b) : b.lines[n].serial = i)]

SparkReport(b) ==
  [policy       |-> b.policy,
   transactions |-> SparkTransactions(b),
   settlements  |-> SparkSettlements(b),
   allocations  |-> SparkAllocations(b)]

\* A reconciliation that does not load the committed states.
DerivedAfresh(b) ==
  ReportOn(b.policy, MergeTransactions({}, b), MergeSettlements({}, b), MergeDuplicates({}, b))

\* _derived_rows: what the Python engine reports with the bundle on top of
\* the committed states.
DerivedReport(b) ==
  ReportOn(b.policy, MergeTransactions(transactions, b), MergeSettlements(settlements, b),
           MergeDuplicates(duplicates, b))

\* Every family has rows, in the evidence and in the candidate.
FamiliesComplete(r) == \A f \in {"transactions", "settlements", "allocations"} : DOMAIN r[f] # {}

\* compare_parquet: the candidate has one row for each identity, and its rows
\* are the expected ones.
Validated(b, expected) ==
  /\ SparkAccepts(b)
  /\ \A n \in BankRows(b) : IdentityRows(b, n) = {n}
  /\ FamiliesComplete(expected)
  /\ SparkReport(b) = expected

\* prepare_financial_snapshot.
Prepared(b, expected) ==
  /\ Reconciles(b)
  /\ FamiliesComplete(expected)
  /\ DerivedReport(b) = expected

-----------------------------------------------------------------------------
(* What the two engines say of the same evidence.                          *)

\* Some expected rows take the bundle through validation and preparation.
Publishable(b) == Validated(b, SparkReport(b)) /\ Prepared(b, SparkReport(b))

\* The job knows one bundle, the Python engine all of them, and both must
\* give the expected rows.  So a run that is published restates all evidence
\* that was ever accepted, and a bank entry that was once seen twice ends all
\* publications: it stays a duplicate for one engine and, alone on its line,
\* is none for the other.
PublishedRestatesEverything ==
  \A b \in Bundles :
    Publishable(b) =>
      /\ DOMAIN admission.sources \subseteq {r.serial : r \in Observed(b)}
      /\ duplicates = {}

\* All accepted evidence as one bundle, a record on the line of its number.
Everything ==
  [run |-> 0, policy |-> report.policy,
   lines |-> [i \in {r.serial : r \in Evidence} |-> CHOOSE r \in Evidence : r.serial = i]]

\* Evidence the engines are known to treat differently: a bank entry without
\* a reference or on two lines, texts that normalization changes otherwise
\* than trimming, a capture with a reference, and a negative event that names
\* a capture of another merchant, payment or currency.
ReadAlike ==
  /\ \A e \in BankEvidence :
       /\ e.reference # NoReference /\ ~Repeated(e)
       /\ Trimmed[e.reference] = Normalized[e.reference]
  /\ \A r \in Evidence : AtSettlementGrain(r) /\ ~IsBank(r) =>
       Normalized[r.settlement] = r.settlement
  /\ \A e \in EventEvidence :
       IF e.class = "CAPTURE" THEN e.reference = NoReference
       ELSE \A c \in Joined(EventEvidence, e) : SameBusiness(e, c)

\* Whatever the order and the bundles in which the Python engine met the
\* evidence, the Spark job accepts all of it as one bundle and gives the same
\* candidates and allocations, record for record.
SparkMatchesHistory ==
  accepted # {} /\ ReadAlike =>
    SparkAccepts(Everything) /\ SparkReport(Everything) = report
=============================================================================
