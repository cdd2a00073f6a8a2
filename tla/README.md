# LedgerGuard: TLA+ specifications, model checking and proofs

LedgerGuard reconciles payment transactions, settlements and bank allocations.
What must not go wrong is authority: of all the executions, attempts and
retries that work on a run, exactly one may become the financial truth, it must
extend what was true before, and everything told to a caller about it must stay
true. This directory specifies the parts of the repository that carry that
promise, checks them with TLC on small instances and proves facts about them
with TLAPS. Paths below are relative to the repository.

## 1. The system

| Component | Source | State it keeps | Operations |
|---|---|---|---|
| Local metadata authority | `src/ledgerguard_control/authority.py` | SQLite tables runs, attempts, roots, commits | register, admit, fail, publish, read_root |
| DynamoDB metadata authority | `src/ledgerguard_control/aws_authority.py` | items REGISTRATION, ATTEMPT, FENCE, ROOT, COMMIT of one table | the same, as sequences of conditional requests |
| Workflow | `workflow.py`, `execution.py`, `failure.py`, `preparation.py`, `candidate_validation.py`, `query_validation.py` (all `src/ledgerguard_control`) | the Step Functions state of an execution; failure records and receipts in S3 | one Lambda handler per task, Retry, Catch, timeout |
| Finalization store | `src/ledgerguard/reconciliation/finalization.py` | requests, outcomes, objects, commits, `control/HEAD` | finalize, recover_attempt, verify_history |
| Correction provenance | `src/ledgerguard/reconciliation/correction.py` | none; its documents are part of a request | normalize, validate inputs, validate relationship |
| Financial snapshots | `publication.py` | a paged tree of blobs in S3 | seal, open_snapshot, open_committed |
| Immutable objects | `objects.py`, `aws_objects.py`, `candidates.py` | versioned S3 keys | put_immutable, snapshot, read |
| Glue and Athena observation | `glue_run.py`, `athena*.py`, `financial_rows.py` | none | poll, page, compare rows |
| Reconciliation rules | `src/ledgerguard/reconciliation/{transaction,settlement,arithmetic,identity}.py` | transaction and settlement state, passed as values | reconcile_transactions, reconcile_settlements |
| Bundle admission | `admission.py`, `contracts.py`, `canonical.py` of the same package | admission state, passed as a value | admit_bundle |
| Reference oracle | `src/ledgerguard_reference_oracle` | none | the rules a second time, for tests |
| Spark pipeline, generator | `src/ledgerguard/stage3`, `glue`, `successor_*.py` | files | batch jobs |
| Deployment control | `src/ledgerguard/stage2`, `tools/part3_stage2_runtime.py`, `tools/part3_stage6` | a lease item, probe resources, account observations | probe, recover, compare |
| Governance | `foundation.py`, `part1.py`, `stage0.py`, `stage1.py`, `tools` | none | one-shot validators |

How they interact. A deployment pins one execution input: a run, an attempt
name, a namespace and the predecessor the run builds on. Executions of it run
the state machine of `workflow.py`. Its controller handlers register the run
and admit an attempt with the authority; Glue and Athena do the work; the
validators compare it; `PreparePublication` restores the committed snapshot,
reconciles the admitted bundle on top of it, compares the result with the rows
of the Spark job, runs the finalization store and seals what it left; `PublishAuthority`
moves the namespace root with one conditional transaction. A caught error goes
to `RecordFailure`, which writes evidence to S3 and then releases the attempt.
The components share state only through the authority's tables and through
content-addressed objects.

What is hard. Handlers die or lose their answer after a write took effect; AWS
SDKs and the state machine repeat calls; a write can land after its caller gave
up; two executions of one input can run; a release and a publication of the
same attempt can both be in flight; a local process can die between any two
files it writes. Evidence arrives late, twice, in another order or in conflict,
and two engines must read it alike. None of this is easy to reach from a unit test. PROJECT.json
lists each such place under `hazards`, with the properties that cover it.

What makes each component correct.

- Authorities: one line of commits per namespace, ending in its root; a run
  enters it once, through the attempt that owns the run; a released attempt is
  out; what a caller was told stays true; both stores keep the same abstract
  promise.
- Workflow: success means this attempt is committed after the planned
  predecessor; a recorded failure means it never will be; one worker per run;
  evidence before release; every execution ends.
- Finalization: whatever died where, the history behind HEAD verifies, retries
  add nothing, receipts stand, and cases follow proofs.
- Reconciliation: the report is that of the independent oracle on all evidence
  ever accepted, however it was cut into bundles; no capture is given back
  twice; every bank entry counts once; the states never part; replay changes
  nothing; the two engines agree.
- Snapshots: what opens is what was sealed, and racing seals do not spoil each
  other.
- Capability probe: PASSED means that nothing is left, and nobody takes what
  another run put under a good lease.

## 2. Modules

`Authority` is the abstract specification. It has a registration, a holder and
a set of released attempts per run, one history per namespace, and what callers
were told. Each action takes effect at once. Three modules use it: the two
stores implement it, and the workflow runs on top of it.

`LocalAuthority` models `authority.py`. Every method is one `BEGIN IMMEDIATE`
transaction, hence one action; an exception or a rollback is a stuttering step.
`runs`, `attempts`, `roots` and `commits` are the four tables, the index of
`attempts` is the AUTOINCREMENT fence. `RegisterNew`/`RegisterReplay`,
`AdmitNew`/`AdmitReplay` and `PublishNew`/`PublishReplay` are the branches of
the methods, `Owns` is `_require_owner`, `Reachable` is `_require_reachable`.
`delivered` says whether the caller saw the answer. `Promise` maps the tables
to `Authority`: the holder is the ACTIVE attempt of an open run, released are
the FAILED rows, the history is the root.

`DynamoAuthority` models `aws_authority.py` request by request. A caller is a
Lambda invocation; `call[c].at` is the request it is about to make. `Apply*`
are the conditional transactions as DynamoDB decides them. `Transact` has the
four outcomes of such a call: applied and answered, applied and unanswered,
refused, or left undecided. An undecided write waits in `delayed` and
`LateWrite` decides it at any later time. The remaining actions are the reads
of the recovery paths, one action per strongly consistent read; the walk of
`_require_reachable` reads immutable items after the root, so it is one step
at its first read. `Raise` ends a call with an exception or the death of the
invocation at any point.

`Workflow` models the definition `render_definition` produces together with the
effect of each handler. `exec[e].at` is the state of the execution; `Chain` is
the success path that `validate_definition` demands. Choice and Pass states
have no step of their own: `RegistrationOutcome` and `Catch` fold them into the
transition. `Reopen` and `ReleaseAttempt` are the second halves of
`publish_authority` and `record_failure`, because a handler can die between its
two effects; a retry starts from the first half again. The authority is an
instance of `Authority`, so what holds here holds over either store. `Call`
gives the outcomes of a handler that writes, `Abandon` leaves its write in
flight, `LateWrite` lands it. Receipts of validation and preparation are
content addressed, so writing one again changes nothing: those tasks only
advance or fail.

`Finalization` models `FinalizationStore`. Calls are serialized by a file lock,
so there is one `call`; each durable write is one action: `WriteRequest`,
`WriteObjects` (file by file), `WriteCommit`, `ReplaceHead`, `WriteOutcome`.
`Check` is everything `finalize` decides before its first write, `CheckParent`
what it decides after. `RecoverAttempt` is not held up by a call in progress when
it reads a correction, because `recover_attempt` returns that receipt before it
takes the lock. `Stop` kills the process between any two steps. A batch
is a `Work`: the status reconciliation gave each key, and the keys a correction
claims; `NewProof` and `NewCase` build the chains. The caller's expected head
is any head there ever was.

Digests. A commit document contains its predecessor's digest, so a digest
determines everything behind it. All modules model a digest as the sequence of
commits up to its own and thereby assume that SHA-256 does not collide.
Stores of bytes are never corrupted by a modelled step, so the re-hashing on
read is left out, while the checks that compare digests with each other are
kept.

The reconciliation family is a chain of modules. `Admission` is `admit_bundle`:
a bundle has a policy, a run and a list of lines; a record carries a number for
its source identity and one for what its business digest leaves out.
`TransactionRules` and `SettlementRules` are the pure rules of the two grains,
with the merges of observed records into the state. The numbers matter in one
place only: which of two copies of a record the state keeps.
`Oracle` is the independent second implementation, as a function of a sheet of
facts. `Reconciliation` puts them together as `prepare_financial_snapshot`
does: `Deliver` accepts a bundle and replaces the three states and the report,
`Refuse` leaves all of them. Its properties recompute the sheets from the
evidence itself, not from the states.

`SparkRules` is the rest of the story: the same financial rules as
`spark_pipeline.py` states them over dataframes, for one bundle and without
any state. `Engines` relates the two. `Validated` is the comparison of the
candidate rows with the expected ones, `Prepared` the comparison of the rows
derived on top of the committed states, and `Publishable` asks for both.

`Snapshots` models `FinancialSnapshots` over `S3ImmutableObjects`. `seal[w]` is
a writer's place in `seal`: the entries still to be put, the page being filled
and the levels of the index. `Put` and `Verify` are the two requests of
`put_immutable`; `Raise` fails either of them and may leave the put `late`;
`Tamper` is what another holder of the bucket can do: write another version,
delete an object, or remove one of its versions for good. `open` is the reader,
one `_get` a step.

`Qualification` models the capability probe. A run goes through its cases; each
step of `Body` is one request that writes, with the checks after it. `Failed`
is a request that raises with or without its effect, `Differs` a check that
fails after it, `Dies` a killed process. The `Delete...` actions and
`CheckClean` are the `finally` block, the `Recover...` actions `run_recovery`.
The inventory is one step. GitHub's concurrency group, which serializes the
workflow, is not assumed: the lease has to do it.

`MCLocalAuthority`, `MCDynamoAuthority`, `MCWorkflow`, `MCFinalization`,
`MCReconciliation`, `MCSnapshots` and `MCQualification` give the constants
values. `LocalAuthorityProofs`, `DynamoAuthorityProofs`, `WorkflowProofs`,
`FinalizationProofs`, `ReconciliationProofs`, `EnginesProofs`,
`SnapshotsProofs` and `QualificationProofs` hold the theorems about the module
they are named after.

Some definitions next to an operation differ from it by one plausible mistake
(`PublishOverRoot`, `FailHalfway`, `RetryUncounted`, ...). No specification
uses them. PROJECT.json pairs each with a property that TLC finds violated when
the mistake takes the operation's place.

## 3. Runs

| Run | Question | Bounds |
|---|---|---|
| `local_authority` | one line, ownership, fencing, durable answers, isolation, refinement | 2 namespaces, 2 runs, 2 identities, 2 owners, 4 fences |
| `dynamo_fencing` | admissions and failures with lost and late writes | 1 run, 2 attempts, 2 callers, 3 fences, 1 late write |
| `dynamo_commits` | publications racing for a root, runs claimed under two inputs, and the refinement | 2 runs, 2 identities, 2 callers, 2 fences, 1 late write, ancestry bound 1 |
| `workflow_run` | three executions of two inputs of one run | 1 retry of a Lambda task, none in flight |
| `workflow_race` | two runs of one namespace | 1 retry, 1 write in flight |
| `workflow_liveness` | two executions of one input | 1 retry |
| `finalization` | stale heads, reused names, late data, corrections, stops | 3 attempts, 2 keys, 2 correction names, 3 commits |
| `reconciliation` | order, replay and conflict of evidence; oracle; both engines | 17 bundles over one payment and one settlement, `MaxMinor` 5 |
| `snapshots` | two seals of shared content, failures, tampering, restore | 2 stores, pages of 3, 1 foreign change, 1 failed request |
| `qualification` | two probes and their recoveries with expiring leases | 2 runs of 2 cases, 2 failures, leases of 1 tick, 2 ticks |

All of these pass. Why the bounds suffice for the questions: a race needs two
callers and something to race for; a write that lands late needs two callers
beside it; four fences let both runs fail and be admitted again, and three let
one attempt be allocated twice while another holds the run; an ancestry bound of 1 with two commits makes the
limit of the walk bite, where the code has 1024. With three commits an
exception can open, be resolved and open again. A second retry repeats the
choices of the first, so one is enough for safety, and the liveness argument
does not depend on the number. `MaxFence`, `MaxDelayed`, `MaxPending` and
`MaxCommits` bound counters that the code leaves to 64-bit integers, to the
network or to the disk. The bundles of `MCReconciliation` are one of each kind
that the rules tell apart, and TLC delivers them in every order: among them a
refund before its capture, two refunds that exceed it only together, an
identity with another amount, a settlement identifier under a second processor,
a bank entry twice in a bundle and later once, two reporting errors that
cancel, a sum that leaves the integers, and a bundle that restates what came
before. Pages of 3 make the large store of `MCSnapshots` fill a level, carry a
page over and end with a partial level, as pages of 32 do for thousands of
chunks. In `qualification` one case injects its fault and one does not, two
failures let the cleanup of a failed request fail as well, and two ticks let a
lease expire and its successor still be good. Symmetry is used only over names that no operation
compares except for equality, and never in the liveness run. The workflow,
snapshot and qualification runs switch deadlock checking off, since executions,
seals and probes end; all other runs check it.

Fairness. `Workflow!Spec` assumes weak fairness of each execution's own task
steps: Step Functions ends every task with an answer, an error or a timeout,
and schedules the next. Nothing is assumed of starting executions, of late
writes, or of success: a task may fail every time. The other modules state
safety only and assume no fairness.

### Disagreements with the documentation

Two runs check a sentence of the documentation and find it violated.

- `workflow_record`: `docs/part3-stage5-execution-checkpoint.md` says that
  `RecordFailure` is "for the seven states that execute after attempt admission:
  `StartGlue`, `ValidateCandidate`, the three ordered query states, ..." (lines
  659-662) and that it requires the "fixed-family Athena identities already
  present at the failure point" (668). A failure of `Validate<family>Query` is
  reported as `<Family>Query`, but at that point the family's own query identity
  is already in the state, one more than `RecordFailure` accepts
  (`failure.py:67`). The failure is not recorded and the attempt stays ACTIVE.
- `snapshot_reopen`: `seal` orders the files of a store as `Path` objects, name
  by name; `open_snapshot` demands that the names rise as strings. The orders
  differ when one attempt is called like another with `-` and more behind it,
  because `-` sorts before `/`. Such a snapshot is sealed and can never be
  opened, although the same document says (line 19) that "financial snapshots now
  seal and restore the actual accepted `FinalizationStore`". It is not
  published: `publish_authority` restores the prepared snapshot
  (`preparation.py:504-508`) before it asks the authority to publish (524), so
  the task is rejected, the root stays at its readable predecessor, and a run
  whose attempt has another name can go on. `OnlyTamperingRefuses` shows that
  this is the only refusal without a foreign change.

Three more configurations are kept beside the runs, each with one invariant
that TLC finds violated:

- `MCDynamoAuthority_monotonic.cfg`, `MonotonicFencing`: the execution
  checkpoint document (line 369) speaks of "monotonically increasing fences".
  The counter is updated in a request of its own, so two overlapping admissions
  can be bound in the opposite order of their fences. Fences stay unique, and
  exclusive ownership does not depend on their order (`OneFencePerAttempt`,
  `ConfirmedFailureIsFinal`): every write compares the fence for equality. The
  SQLite store does keep the order (`NewestFenceOwns`).
- `MCWorkflow_evidence.cfg`, `NoEvidenceAgainstCommit`: a failure record can
  exist for a committed attempt, because it is written before the release is
  decided, although `failure.py` says "Only transitions that already own an
  admitted attempt can record authoritative failure evidence". The release is
  then rejected, so the verdict of the workflow is still right
  (`FailureIsFinal`).
- `MCFinalization_power.cfg`, `HistoryVerifies` under `PowerSpec`: the entry of
  `attempts/<id>` in `attempts` is never flushed, contrary to ADR 0022 ("Flush
  file contents and containing directories across each durable boundary").
  After a power loss the history can be unreadable. Under `Spec` only processes
  die and the machine goes on.

`MCDynamoAuthority_identity.cfg` passes; it claims one run name under two
namespaces, and checks `ActiveOwnership` and `KeepsPromise` there.

### Where the two engines differ

`docs/part3-stage3-gap-audit.md` (line 15) asks for "native Spark parity at
transaction, settlement, and bank-allocation surfaces". `SparkMatchesHistory`
holds for evidence that satisfies `ReadAlike`, whose conjuncts are read off the
two sources. What it excludes, by line of `spark_pipeline.py`:

- A bank line repeated in a bundle is rejected as AMBIGUOUS_BANK_ALLOCATION
  when its reference has a target (600-604): the join counts targets per
  identity, not per line. Without a target it gives two rows, which
  `compare_parquet` rejects. The Python engine reports a duplicate, as ADR 0021
  describes.
- A missing reference is UNALLOCATED_UNKNOWN_REFERENCE (610), not
  UNALLOCATED_MISSING_REFERENCE.
- A reference is trimmed (581) but not normalized, and the settlement
  identifier it is compared with is neither (597).
- A negative event that names a capture of another merchant, payment or
  currency still counts against that capture (335-341).
- A capture with a reference is not flagged (318-333).
- An unbalanced journal is an invalid role (398); the Python engine refuses the
  bundle. No accepted evidence contains one.

The job sees one bundle, the Python engine all of them, and both must give the
expected rows. `PublishedRestatesEverything` is the consequence: a run can be
published only when its bundle restates all evidence accepted before it. A
bundle that leaves earlier evidence out, and any bundle after one bank entry
was seen twice, fails in preparation.

## 4. Proofs

Everything below is proved by TLAPS for every value of the constants: any sets
of names, any number of runs, attempts, callers and bundles, any bound. The
assumptions say only what the code gives:

- `MaxFence` and `MaxMinor` are numbers.
- `None` is none of the names, attempts, registrations or requests it stands
  beside (`NoneAssumption`, `MaxFenceAssumption`).
- A bundle is a list of records with the fields that tell their identity and
  grain (`BundleAssumption`).
- Its records and policies conform to the contracts under `contracts/v2`, against
  which `registry.validate` holds each of them before admission
  (`ContractAssumption`, `PolicyAssumption`): a family, sides, directions,
  64-bit amounts, a tolerance for every currency.
- The capability probe has at least one case, its lease lasts at least one
  tick, and its bounds are numbers (`QualificationConstants`).
- A store that is sealed has passed what `seal` makes sure of first
  (`StoresAreCommitted`): finitely many files with distinct paths, none empty,
  HEAD among them, and names that `FILE_PATH` admits. The expression
  allows digests of one length, fixed names, and attempt names of letters, digits
  and dashes, so where one name extends another in the same directory, it goes on
  with one of these. Nothing is assumed about dashes themselves: they are the
  case in which a snapshot does not reopen (section 3).
- A store has no more entries than an index of `MaxDepth` levels holds
  (`StoresFitTheIndex`): in the code 32^33 chunks of 64 KiB. `seal` does not
  check it; beyond it, `open_snapshot` would refuse what `seal` wrote.
- A page holds at least two items, and "-" comes before "/"
  (`SnapshotConstants`).

`LocalAuthorityProofs` proves every property the run `local_authority` checks.
`TypeCorrect` is inductive as it stands; the others need
more:

- Ownership. `NewestFenceOwns` alone is not inductive: that a new fence may take
  over needs that an open run without a pointer has FAILED rows only, which is
  a statement about `runs` and `attempts` together. `Linked` says what the two
  tables say of each other; `OwnershipInv` joins it with `NewestFenceOwns`, which
  in turn makes the ACTIVE row of a run unique. The lemma `SoleOwner` is the
  heart: who passes `_require_owner` holds the only row of the run that has not
  failed. `ActiveOwnership` follows.
- History. `Stands` says of one commit that it lies in its own namespace and is
  the terminal commit of its run. `HistoryInv` says it of every commit, with
  `SingleHistory` and that only stored digests are acknowledged. A publication
  adds one commit of an open run, so that run was not in the history; all other
  runs in it are COMMITTED, and `TerminalStep` says those never change.
  `OneCommitPerRun`, `SingleHistory` and `DurableReplay` follow.
- `TerminalForever` and `HistoryOnlyGrows` are action properties that need only
  the types.

Its second half proves `KeepsPromise`: the SQLite tables implement `Authority`.
To the two invariants it adds the UNIQUE constraint on names
(`UniqueNames`), which makes the CHOOSE in the mapping pick the ACTIVE row, and
that each committed attempt keeps its row (`Recorded`), which gives the
freshness that `Authority!Admit` demands. `HolderFacts` reads the abstract
holder off the tables; then there is one lemma for each call, `...Refines`.

`DynamoAuthorityProofs` proves the same of the DynamoDB table, request by
request, with lost, late and repeated writes. `FencingInv` is the invariant.
Its parts: what the items of the table say of each other (`Linked`), that no
two attempt items have one fence (`DistinctFences`), that every admission on its
way, a late one too, carries a fence of its own that nobody holds
(`FreshFences`), that each commit behind a root is the verdict of its run
(`History`), that what a caller has read is still so when it acts on it
(`Current`), and that what callers were told still stands (`Told`). `Current` is
what makes the recovery paths right: they act on a terminal item, and those
never change (`Stable`). `TableStep` sums up what any request can do to the
table, so each property is carried over a few kinds of step, not over all
actions. `KeepsPromiseHolds` maps each request to a step of `Authority` or to a
stutter: the item of the table, not the answer, is what takes effect.

`WorkflowProofs` proves the five safety properties of the state machine over any
store that keeps the promise. `WorkInv` says what is true of an execution at
each state (`Stage`), of the caller of a write still in flight (`InFlight`), and
of the authority (`OneHolder`). The heart is `SoleWorkerHolds`: an execution past
admission and not yet failing owns its run, and a release can only land for an
attempt whose execution is failing, so a second execution is admitted only after
the first one can no longer reach a task. `EvidenceBeforeRelease` needs that a
release in flight has its record already.

`FinalizationProofs` proves every property of `Finalization`. `LockedHead` says
what the file lock protects: from the parent check to the replacement of HEAD
the call's commit is the successor of the current head. It does not use the
expected head, which is why a stale caller is harmless. It gives
`HeadOnlyExtends`, with and without power loss. The rest follows from `StoreInv`:
what is on disk refers only to what is on disk (`Files`), receipts and outcomes
name commits of the history (`Answers`), and a call knows what it wrote
(`InCall`). A request is written before its commit and an attempt has one
request, so the expected head in the request determines the receipt
(`ReceiptsStandHolds`); `AtMostOnceHolds` follows from `HistoryVerifies`, because
two commits of one attempt would have one request and thus one parent.
`CaseFollowsProofHolds` goes along the history: a commit that updates a key adds
one to the proofs counted so far and one to the revisions of a case that exists,
and any other commit leaves both (`Follows`).

The first part of `ReconciliationProofs` is about `Total`, the fold with which both
engines add up amounts. The provers cannot use the library's induction over finite sets, whose lemma takes an
operator. Here a property of subsets is itself a set, so that its induction is a
statement about least members of a set of naturals (`FiniteInduction`). Unfolding
the definition of the fold, `SumsFold` and `FoldSums` show that it is the one
function that takes a term away at each step, in whatever order. Then `Total` of
a split set is a sum of totals (`TotalSplit`), grouping and renaming terms do
not change it (`TotalGrouped`, `TotalRenamed`), and it is monotone and linear.

The rest proves every property of `Reconciliation`, in four steps.

- `StatesInStep` needs `GrainsApart`, that the two states hold records of their
  own grain: a record that changes its grain under one identity would otherwise
  enter the other state beside its old one. That a delivery keeps one record per
  identity rests on `OneDigestPerIdentity`, which is what admission decides, and
  on the lemmas of what the merges pick out of a bundle (`LastLineIsObserved`,
  `FirstLineIsObserved`). `EvidenceKept` then says that the merge, which replaces
  transaction records by later copies, never changes what they say.
- `ReplayInv` adds that every accepted bundle is remembered. The transaction
  rules see only the contents of records (`ContentDecides`): a replay, which
  replaces records by copies with the same content, changes nothing
  (`ReplayChangesNothingHolds`).
- `HeldInv` adds that the states hold finitely many records, each from an
  accepted bundle (`Traced`). So what the states hold is the evidence, without
  how it was delivered (`EvidenceIsHeld`), and a sum over records by identity is
  a sum over evidence. `CaptureNotExceeded` and `BankConserved` follow; the
  latter splits a sum over all bank entries by the key each entry has as its
  only target (`PaidByKey`), which is where `TargetsUnique` is needed.
- `TransactionsMatchOracleHolds` and `SettlementsMatchOracleHolds`: figure by
  figure (`SheetFacts`, `SettlementSheetFacts`), then reason by reason, then the
  verdict (`VerdictIsOracle`). Movements are signed sums of clearing lines for
  the rules and differences of two sides for the oracle (`SidesApart`).

The proof of `BankConserved` showed a fault of the model: `BatchStatus` was a CASE
whose guards overlap when an entry is unallocated and all settlements match. A
CASE does not order its arms, and now the definition does, as the code does.

`EnginesProofs` proves `PublishedRestatesEverything`. `Flagged` says that every
remembered duplicate is an identity of the stored bank entries, so each later
report carries it. Every identity in the states appears in some row the Python
engine derives (`TransactionReported`, `SettlementReported`, `FlaggedReported`),
and every identity in a row of the Spark report comes from the bundle
(`SparkTransactionSources`, `SparkSettlementSources`). Equal reports therefore
restate everything.

Its second half proves `SparkMatchesHistory`, from `HeldInv`. All evidence as one
bundle has one line for each identity (`EverythingLines`), so its dataframes are
the contents of the two states (`EverythingFrames`). By `ContentDecides` the
Python candidates are those of the contents too, and on the same records the two
rule sets differ in a few places only, each of which `ReadAlike` or admission
closes: what a negative event is joined with (`SparkReferencesAgree`), the debit
and credit that the job compares again (`EvidenceRecords`: admission accepts
balanced journals only), the trimmed reference and the second row of a bank
identity (`BankRowsAgree`). The job accepts: a bank row has one target because
lookups are unique, the debits and credits of a journal fit because admission
added the same lines as checked integers (`SparkPostingsFit`), and the other sums
fit because partial sums that all fit include the whole sum (`WholeSumFits`).

`QualificationProofs` proves that no process touches what is another's
(`ForeignUntouchedHolds`) and that a probe or a recovery that reports success has
left nothing (`NothingLeftBehindHolds`). `ProbeInv` says whose label every item
carries (`Labelled`), that no process has read a time still to come (`Dated`), and
that a recovery that has swept a case finds it empty until the end, because the
run it sweeps is dead.

`SnapshotsProofs` proves what the run `snapshots` checks: what opens is what was
sealed (`OpenedIsSealed`), nothing is refused without a reason
(`RefusalsHaveReasons`), and no put adds a version to an object that nobody else
touched (`WrittenOnce`). The seal builds its index bottom up and the reader walks
it top down. What a recursive walk of that tree returns would be an induction over
data. Both sides are related to a *cover* instead: a set of <<page, height, i, j>>
which says that a page stands for the entries after i up to j (`IsCover`). It does
not mention the state, so it outlives the seal that built it.

- Order. `Sorted` lists every file once (`SortedList`), so the entries are the
  chunks of the files in their order, and every entry names its file and its
  offset (`EntryPlaces`). Comparing paths name by name and comparing them as text
  disagree on two files only if a name extends another by a dash
  (`TextFollowsPath`).
- The seal. `Underway` gives a cover of what has been put so far, and says where
  the page being filled and each level of the index begin and end (`Stage`), and
  which body is next (`Wants`). A verified page extends the cover by one
  quadruple. At the end one page covers all entries, and its height is within
  `MaxDepth`, because a page at a height above zero stands for more entries than
  fit below it.
- The objects. `Histories` says that a key nobody else touched has no version or
  the named one; `Good` bodies stay good (`Kept`). A writer refuses only a body
  that it has just seen put, so somebody else must have touched it.
- The reader. For every writer whose cover the root leads to, what is still to be
  read lines up with the entries not yet restored (`ReaderAt`). Reading a page
  replaces its interval by those of its children, reading a chunk moves on by
  one entry. When nothing is left, every entry has been restored (`Whole`).

The proof showed that `DashExtends` was too weak as a reason for a refusal: it
accepted two names in different directories, although only names in one
directory can be put in the wrong order. It now asks for the same directory.

Only model-checked:

- Liveness (`Terminates`, and the fairness in it): out of the prover's reach.
- The runs that expect a violation refute a claim and need no proof.

## 5. Not modelled, and why

- JSON shapes, canonical bytes, regular expressions, tags, cost and evidence
  documents: conversions and comparisons of single values.
- What Glue and Athena compute. In `Workflow` they succeed or fail.
- The content of receipts. `PreparePublication` compares the root with the
  plan in one step where the code reads it twice; the publication compares it
  again, so the model loses no behaviour of the root.
- `finalize` runs the reconciliation again to check a correction. `Finalization`
  takes the result as part of the work; `Reconciliation` models it by itself.
- In `Reconciliation` preparation and publication are one step. What lies
  between them belongs to `Workflow` and `Authority`.
- The digests and identifiers of candidates, the order of rows, and row shapes.
- In `Qualification` a failing request of a recovery has no effect, except that
  it may delete some of the versions. A process that is killed leaves no
  evidence of a failed run, and without it no recovery starts: the run stays
  `dead`, and only its lease expires.
- Currencies of one grain that differ between bundles:
  `_verify_cross_record_invariants` compares the records of one bundle only, as
  the model does. ADR 0019 (line 49) wants the currency "consistent for the same
  pre-currency business domain" and does not say over which records, so no
  property is stated.
- A failure of `verify_history` caused by damaged files. `HistoryVerifies`
  shows that the store never causes it by itself.
- `candidates.py`, the Glue and Athena pollers, the successor job, the Stage 6
  controller and its leases: see `components` in PROJECT.json.
- The data generator, infrastructure and governance. Most of the repository's
  lines are validators that read a document once and compare it with constants,
  builders of evidence files, and a copy of an earlier snapshot of the code
  under `history`. They keep no state and take no second step, so there is
  nothing in them that an interleaving, a failure or an order could change.

## 6. Plan

Done: the authorities, the workflow, finalization, the reconciliation rules with
both engines, snapshots, and the capability probe. What would follow, in the
order of what matters most:

1. `Publication`: `Workflow` composed with `Snapshots` and `Finalization`, so that
   a root always names a snapshot that opens to a store that verifies.
2. `Correction`: `validate_relationship` over the candidates of
   `Reconciliation`, which replaces the given outcomes of `Finalization!Work`.
3. `Lease`: the Stage 6 leases of `tools/part3_stage6/live.py` with their clock,
   take-over and release.
4. Candidate inspection between two listings (`candidates.py`).
