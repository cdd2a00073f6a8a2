-------------------------- MODULE MCReconciliation --------------------------
(* Instances of Reconciliation for TLC: one merchant with one payment and    *)
(* one settlement, whose records arrive in small bundles, some of them       *)
(* late, twice, altered, in another currency or for another processor.       *)
EXTENDS Engines, TLC

CONSTANTS p, q, m, y, usd, eur, s1, s1spaced, s9, k1, acc1, acc2

\* Trimming and normalizing differ in no text of these bundles.
MCNormalized == [t \in {s1, s1spaced, s9} |-> IF t = s9 THEN s9 ELSE s1]

Policy(version, tolerance) ==
  [version |-> version, counterparts |-> {"MERCHANT_PAYABLE"},
   transactionTolerance |-> [c \in {usd, eur} |-> tolerance],
   settlementTolerance |-> [c \in {usd, eur} |-> tolerance],
   accounts |-> <<m, usd>> :> {acc1}]

Event(serial, class, currency, amount, reference, transport) ==
  [family |-> "PROCESSOR_EVENT", serial |-> serial, processor |-> p, merchant |-> m,
   payment |-> y, class |-> class, currency |-> currency, amount |-> amount,
   reference |-> reference, transport |-> transport]

Posting(line, role, side, amount) ==
  [line |-> line, role |-> role, side |-> side, amount |-> amount]
Other(side) == IF side = "DEBIT" THEN "CREDIT" ELSE "DEBIT"
Pair(side, amount) == {Posting(1, "PROCESSOR_CLEARING", side, amount),
                       Posting(2, "MERCHANT_PAYABLE", Other(side), amount)}

Journal(serial, class, postings) ==
  [family |-> "LEDGER_JOURNAL", serial |-> serial, processor |-> p, merchant |-> m,
   payment |-> y, class |-> class, currency |-> usd, postings |-> postings, transport |-> 0]

SettlementJournal(serial, postings) ==
  [family |-> "LEDGER_JOURNAL", serial |-> serial, processor |-> p, merchant |-> m,
   settlement |-> s1, cycle |-> k1, class |-> "SETTLEMENT", currency |-> usd,
   postings |-> postings, transport |-> 0]

Settled(serial, processor, gross, fee, reported) ==
  [family |-> "PROCESSOR_SETTLEMENT", serial |-> serial, processor |-> processor,
   merchant |-> m, settlement |-> s1, cycle |-> k1, currency |-> usd, gross |-> gross,
   fee |-> fee, refund |-> 0, chargeback |-> 0, reserve |-> 0, reported |-> reported,
   transport |-> 0]

Bank(serial, account, reference, direction, amount) ==
  [family |-> "BANK_ENTRY", serial |-> serial, account |-> account, merchant |-> m,
   currency |-> usd, reference |-> reference, direction |-> direction, amount |-> amount,
   transport |-> 0]

Capture == Event(1, "CAPTURE", usd, 3, NoReference, 0)
Refund(transport) == Event(2, "REFUND", usd, 2, 1, transport)
Paid == Bank(41, acc1, s1spaced, "CREDIT", 2)

Bundle(run, policy, lines) == [run |-> run, policy |-> policy, lines |-> lines]
V1 == Policy(1, 1)
V2 == Policy(2, 0)

MCBundles ==
  {Bundle(1, V1, <<Capture, Journal(11, "CAPTURE", Pair("DEBIT", 2))>>),
   Bundle(2, V1, <<Refund(1), Journal(12, "REFUND", Pair("CREDIT", 2))>>),
   \* A bundle that restates 1, 2 and 6 and adds a chargeback.
   Bundle(3, V1, <<Capture, Journal(11, "CAPTURE", Pair("DEBIT", 2)), Refund(1),
                   Journal(12, "REFUND", Pair("CREDIT", 2)),
                   Event(3, "CHARGEBACK", usd, 2, 1, 0),
                   Journal(15, "CHARGEBACK", Pair("CREDIT", 2)),
                   Settled(21, p, 3, 1, 2), Paid>>),
   \* The refund is delivered again, twice, under another policy.
   Bundle(4, V2, <<Refund(2), Refund(3)>>),
   \* Its identity comes with another amount.
   Bundle(5, V1, <<Event(2, "REFUND", usd, 3, 1, 1)>>),
   Bundle(6, V1, <<Capture, Settled(21, p, 3, 1, 2), Paid>>),
   \* A bank entry on two lines of one bundle.
   Bundle(7, V1, <<Paid, Paid, SettlementJournal(31, Pair("CREDIT", 2))>>),
   \* The settlement identifier under another processor, beside a good record.
   Bundle(8, V1, <<Settled(22, q, 1, 0, 1), Refund(1)>>),
   Bundle(9, V2, <<Bank(42, acc1, s9, "CREDIT", 1), Bank(44, acc2, s1, "CREDIT", 1)>>),
   \* Two reporting errors that cancel out.
   Bundle(10, V1, <<Settled(23, p, 1, 0, 2), Settled(24, p, 2, 0, 1)>>),
   \* A second capture of the payment, which with the first exceeds MaxMinor.
   Bundle(11, V1, <<Event(5, "CAPTURE", usd, 3, NoReference, 0)>>),
   \* The capture's grain in another currency, alone and beside the first.
   Bundle(12, V1, <<Event(6, "CAPTURE", eur, 1, NoReference, 0)>>),
   Bundle(13, V1, <<Capture, Event(6, "CAPTURE", eur, 1, NoReference, 0)>>),
   \* A journal whose clearing line is on the wrong side, and a bank entry
   \* without a reference.
   Bundle(14, V1, <<Journal(13, "REFUND", Pair("DEBIT", 2)),
                    Bank(43, acc1, NoReference, "DEBIT", 1)>>),
   \* A reused run, a reused policy version, an unbalanced journal.
   Bundle(1, V1, <<Capture>>),
   Bundle(16, Policy(1, 0), <<Capture>>),
   Bundle(17, V1, <<Journal(14, "CAPTURE", {Posting(1, "PROCESSOR_CLEARING", "DEBIT", 2),
                                           Posting(2, "MERCHANT_PAYABLE", "CREDIT", 1)})>>)}
=============================================================================
