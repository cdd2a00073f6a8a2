------------------------------- MODULE Oracle -------------------------------
(***************************************************************************)
(* ledgerguard_reference_oracle/oracle.py: expected results of both grains *)
(* from figures somebody else gathered.  A figure sheet has counts, sums   *)
(* and yes-or-no facts; nothing here knows of keys, policies or state.     *)
(* The oracle takes one settlement; a sheet has a set of them, so that a   *)
(* key with several is covered too.                                        *)
(***************************************************************************)
EXTENDS Integers, FiniteSets, FiniteSetsExt

Size(n) == IF n < 0 THEN -n ELSE n

\* _status: reasons, then zero, then tolerance.
OracleStatus(difference, tolerance, reasons) ==
  [status |-> CASE reasons # {} -> "EXCEPTION"
                [] reasons = {} /\ difference = 0 -> "MATCHED"
                [] OTHER -> "WITHIN_TOLERANCE",
   reasons |-> IF reasons = {} /\ difference # 0 THEN {"TOLERATED_DIFFERENCE"} ELSE reasons]

\* evaluate_capture_capacity.
CapacityExceeded(captured, applied) == captured - applied < 0

\* validate_journal, the part that decides account_role_valid.
OneClearingLine(postings) ==
  Cardinality({p \in postings : p.role = "PROCESSOR_CLEARING"}) = 1

\* _transaction.
TransactionExpectation(s) ==
  LET processor == (IF s.class = "CAPTURE" THEN 1 ELSE -1) * s.processorAmount
      delta == processor - s.ledger
      semantic ==
        (IF s.events = 0 THEN {"MISSING_PROCESSOR_ACTIVITY"} ELSE {})
          \cup (IF s.journals = 0 THEN {"MISSING_LEDGER_MOVEMENT"} ELSE {})
          \cup (IF s.rolesValid THEN {} ELSE {"INVALID_ACCOUNT_ROLE"})
          \cup (IF s.class # "CAPTURE" /\ ~s.resolved THEN {"UNRESOLVED_REFERENCE"} ELSE {})
          \cup (IF s.class = "CAPTURE" /\ s.referenced THEN {"UNRESOLVED_REFERENCE"} ELSE {})
          \cup (IF s.class # "CAPTURE" /\ s.overApplied THEN {"OVER_APPLIED_REFERENCE"} ELSE {})
      mismatch == IF semantic = {} /\ Size(delta) > s.tolerance
                  THEN {"PROCESSOR_LEDGER_MISMATCH"} ELSE {}
      verdict == OracleStatus(Size(delta), s.tolerance, semantic \cup mismatch)
  IN [processor |-> processor, ledger |-> s.ledger, delta |-> delta,
      status |-> verdict.status, reasons |-> verdict.reasons]

\* _settlement.
OwnNet(r) == r.gross - (r.fee + r.refund + r.chargeback + r.reserve)

SettlementExpectation(s) ==
  LET net == MapThenSumSet(LAMBDA r : OwnNet(r), s.settlements)
      bank == MapThenSumSet(LAMBDA e : (IF e.direction = "CREDIT" THEN 1 ELSE -1) * e.amount,
                            s.bank)
      deltas == [PROCESSOR_LEDGER_MISMATCH |-> net - s.ledger,
                 PROCESSOR_BANK_MISMATCH |-> net - bank,
                 LEDGER_BANK_MISMATCH |-> s.ledger - bank]
      difference == Max({Size(deltas[d]) : d \in DOMAIN deltas})
      semantic ==
        (IF s.settlements = {} THEN {"MISSING_PROCESSOR_ACTIVITY"} ELSE {})
          \cup (IF s.journals = 0 /\ net # 0 THEN {"MISSING_LEDGER_MOVEMENT"} ELSE {})
          \cup (IF s.bank = {} /\ net # 0 THEN {"MISSING_BANK_SETTLEMENT"} ELSE {})
          \cup (IF s.rolesValid THEN {} ELSE {"INVALID_ACCOUNT_ROLE"})
          \cup (IF \E r \in s.settlements : r.reported # OwnNet(r)
                THEN {"SETTLEMENT_FORMULA_MISMATCH"} ELSE {})
          \cup (IF s.repeated THEN {"DUPLICATE_BANK_MOVEMENT"} ELSE {})
          \cup (IF \E e \in s.bank : e.account \notin s.permitted
                THEN {"INVALID_BANK_ACCOUNT"} ELSE {})
      mismatch == IF semantic = {} /\ difference > s.tolerance
                  THEN {d \in DOMAIN deltas : deltas[d] # 0} ELSE {}
      verdict == OracleStatus(difference, s.tolerance, semantic \cup mismatch)
  IN [net |-> net, bank |-> bank, deltas |-> deltas,
      status |-> verdict.status, reasons |-> verdict.reasons]
=============================================================================
