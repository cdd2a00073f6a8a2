------------------------------ MODULE Workflow ------------------------------
(***************************************************************************)
(* The Step Functions machine of ledgerguard_control/workflow.py and the   *)
(* Lambda handlers behind its tasks, over any metadata authority that      *)
(* keeps the promises of Authority.                                        *)
(*                                                                         *)
(* Every task calls a handler that may reject, crash or lose its answer    *)
(* after it took effect; the machine repeats the call a few times and then *)
(* catches the error.  A write a dead handler left in flight may land any  *)
(* time later.  A handler that writes twice is two steps, since it can die *)
(* in between.  Handlers that only read and write content-addressed        *)
(* receipts change no state that another execution sees.                   *)
(***************************************************************************)
EXTENDS Integers, Sequences, FiniteSets

CONSTANTS
  Executions,     \* execution ARNs: the owners of attempts
  Deployments,    \* admitted execution inputs; each pins one attempt name
  Namespaces, RunIds,
  Fences,         \* fencing numbers
  DeploymentOf,   \* execution -> the input it runs
  RunOf,          \* deployment -> the run its input names
  NamespaceOf,    \* deployment -> the namespace its input names
  LambdaRetries,  \* MaxAttempts of a Lambda task: 3 in the code
  AthenaRetries,  \* MaxAttempts of a query task: 2 in the code
  MaxPending,     \* bound on writes left in flight
  None

ASSUME WorkflowConstants ==
  /\ DeploymentOf \in [Executions -> Deployments]
  /\ RunOf \in [Deployments -> RunIds]
  /\ NamespaceOf \in [Deployments -> Namespaces]
  /\ {LambdaRetries, AthenaRetries, MaxPending} \subseteq Nat

VARIABLES
  registration, holder, released, history,  \* the authority's state
  exec,     \* execution -> where it is and the state it carries
  plan,     \* deployment -> the predecessor its input names, None before it exists
  jobs,     \* execution -> Glue runs it started
  records,  \* failure records: attempts whose failure is written down
  pending   \* writes in flight after their handler died

authority == <<registration, holder, released, history>>
vars == <<authority, exec, plan, jobs, records, pending>>

\* What a caller has been told is in exec, so the authority's own history
\* variables are left out.
Store == INSTANCE Authority WITH
  Identities <- Deployments, AttemptIds <- Deployments, Owners <- Executions,
  Preparations <- Deployments, issued <- {}, acknowledged <- {}

-----------------------------------------------------------------------------
(* The machine's states.                                                   *)

\* Run and Validate states of a family report the same failed_state.
FamilyOf ==
  [RunTransactionsQuery |-> "transactions",
   ValidateTransactionsQuery |-> "transactions",
   RunSettlementsQuery |-> "settlements",
   ValidateSettlementsQuery |-> "settlements",
   RunBankAllocationsQuery |-> "bank_allocations",
   ValidateBankAllocationsQuery |-> "bank_allocations"]

QueryFailure ==
  [transactions |-> "TransactionsQuery", settlements |-> "SettlementsQuery",
   bank_allocations |-> "BankAllocationsQuery"]

\* _QUERY_PREFIXES: the families a failure record of each state names; its
\* domain is FAILURE_STATES.
QueryPrefixes ==
  [StartGlue |-> {}, ValidateCandidate |-> {}, TransactionsQuery |-> {},
   SettlementsQuery |-> {"transactions"},
   BankAllocationsQuery |-> {"transactions", "settlements"},
   PreparePublication |-> {"transactions", "settlements", "bank_allocations"},
   PublishAuthority |-> {"transactions", "settlements", "bank_allocations"}]

\* required_success_chain; Reopen is the second half of PublishAuthority.
Chain ==
  <<"ValidateExecution", "RegisterRun", "AdmitAttempt", "StartGlue",
    "ValidateCandidate", "RunTransactionsQuery", "ValidateTransactionsQuery",
    "RunSettlementsQuery", "ValidateSettlementsQuery", "RunBankAllocationsQuery",
    "ValidateBankAllocationsQuery", "PreparePublication", "PublishAuthority",
    "Reopen", "WorkflowSucceeded">>

Successor == [n \in 1..Len(Chain) - 1 |-> <<Chain[n], Chain[n + 1]>>]
After(s) == LET n == CHOOSE m \in DOMAIN Successor : Successor[m][1] = s
            IN Successor[n][2]

Working == {Chain[n] : n \in 4..14}
RunQueries ==
  {"RunTransactionsQuery", "RunSettlementsQuery", "RunBankAllocationsQuery"}
Validations ==
  {"ValidateExecution", "ValidateCandidate"} \cup (DOMAIN FamilyOf \ RunQueries)
Tasks == {Chain[n] : n \in 1..14} \cup {"RecordFailure", "ReleaseAttempt"}
Terminals ==
  {"ReplaySucceeded", "WorkflowSucceeded", "WorkflowFailed",
   "FailureEvidenceUnavailable", "TimedOut"}

FailedState(s) ==
  IF s \in DOMAIN FamilyOf THEN QueryFailure[FamilyOf[s]]
  ELSE IF s = "Reopen" THEN "PublishAuthority" ELSE s

\* A repeated handler starts from its beginning.
Handler(s) ==
  IF s = "Reopen" THEN "PublishAuthority"
  ELSE IF s = "ReleaseAttempt" THEN "RecordFailure" ELSE s

\* Retries that treat StartGlue like every other task.
RetriesEverywhere(s) == IF s \in RunQueries THEN AthenaRetries ELSE LambdaRetries

\* StartJobRun has no idempotency token and is never retried.
Retries(s) ==
  IF s = "StartGlue" THEN 0
  ELSE IF s \in RunQueries THEN AthenaRetries ELSE LambdaRetries

Token ==
  [namespace : Namespaces, run_id : RunIds, identity : Deployments,
   attempt_id : Deployments, owner : Executions, fence : Fences]

Execution ==
  [at : Tasks \cup Terminals \cup {"NotStarted"},
   tries : 0..(LambdaRetries + AthenaRetries),
   token : Token \cup {None},         \* control.attempt
   managed : SUBSET ({"glue"} \cup DOMAIN QueryFailure),
   failed : {FailedState(s) : s \in Tasks} \cup {None},
   legible : BOOLEAN]                 \* error and cause have 1..1024 characters

\* None stands for nothing else.
ASSUME NoneAssumption ==
  /\ None \notin Token /\ None \notin Store!Registration
  /\ None \notin Seq(Store!Entry)

TypeOK ==
  /\ exec \in [Executions -> Execution]
  /\ holder \in [RunIds -> Token \cup {None}]
  /\ released \subseteq Token
  /\ records \subseteq Token
  /\ \A d \in Deployments : plan[d] # None => plan[d] \in Seq(Store!Entry)
  /\ jobs \in [Executions -> Nat]
  /\ pending \subseteq [kind : {"register", "admit", "publish", "release"},
                        by : Executions]
  /\ Cardinality(pending) <= MaxPending

Init ==
  /\ Store!Init
  /\ exec = [e \in Executions |->
       [at |-> "NotStarted", tries |-> 0, token |-> None, managed |-> {},
        failed |-> None, legible |-> TRUE]]
  /\ plan = [d \in Deployments |-> None]
  /\ jobs = [e \in Executions |-> 0]
  /\ records = {}
  /\ pending = {}

-----------------------------------------------------------------------------
(* What an execution's handlers ask of the authority.                      *)

Run(e) == RunOf[DeploymentOf[e]]
Namespace(e) == NamespaceOf[DeploymentOf[e]]
Plan(e) == plan[DeploymentOf[e]]
Registration(e) == [namespace |-> Namespace(e), identity |-> DeploymentOf[e]]

TokenWith(e, fence) ==
  [namespace |-> Namespace(e), run_id |-> Run(e), identity |-> DeploymentOf[e],
   attempt_id |-> DeploymentOf[e], owner |-> e, fence |-> fence]

Published(e) ==
  Append(Plan(e), [attempt |-> exec[e].token, preparation |-> DeploymentOf[e]])

Committed(r) == \E t \in Store!CommittedAttempts : t.run_id = r

Apply(kind, e) ==
  \/ kind = "register" /\ Store!Register(Run(e), Registration(e))
  \/ kind = "admit" /\ \E f \in Fences : Store!Admit(TokenWith(e, f), FALSE)
  \/ /\ kind = "publish"
     /\ history[Namespace(e)] = Plan(e)
     /\ Store!Publish(exec[e].token, DeploymentOf[e], FALSE)
  \/ kind = "release" /\ Store!Release(exec[e].token)

\* A replayed admission that does not compare the owner.
ReplaysForAnyOwner(kind, e) ==
  \/ kind = "register" /\ registration[Run(e)] = Registration(e)
  \/ kind = "admit" /\ holder[Run(e)] # None /\ registration[Run(e)] = Registration(e)
  \/ kind = "publish" /\ Published(e) \in Store!Digests(Namespace(e))
  \/ kind = "release" /\ exec[e].token \in released /\ holder[Run(e)] = None

\* The state already is what the call would make it: the call returns.
Replays(kind, e) ==
  \/ kind = "register" /\ registration[Run(e)] = Registration(e)
  \/ /\ kind = "admit"
     /\ \E f \in Fences : holder[Run(e)] = TokenWith(e, f)
  \/ kind = "publish" /\ Published(e) \in Store!Digests(Namespace(e))
  \/ /\ kind = "release"
     /\ exec[e].token \in released
     /\ holder[Run(e)] = None /\ ~Committed(Run(e))

Quiet == UNCHANGED <<plan, jobs, records>>
-----------------------------------------------------------------------------
(* Tasks: answers, retries and catches.                                    *)

At(e, s) == exec[e].at = s
Enter(e, s) == exec' = [exec EXCEPT ![e] = [@ EXCEPT !.at = s, !.tries = 0]]
Advance(e) == Enter(e, After(exec[e].at))

\* Retries that are not counted.
RetryUncounted(e) ==
  /\ exec[e].tries < Retries(exec[e].at)
  /\ exec' = [exec EXCEPT ![e] = [@ EXCEPT !.at = Handler(exec[e].at)]]

\* Retry on a transient error.
Retry(e) ==
  /\ exec[e].tries < Retries(exec[e].at)
  /\ exec' = [exec EXCEPT ![e] =
       [@ EXCEPT !.at = Handler(exec[e].at), !.tries = exec[e].tries + 1]]

\* Catch States.ALL: the Capture state builds the envelope of RecordFailure,
\* whose own Catch ends the execution.
Catch(e) ==
  IF exec[e].at \in {"RecordFailure", "ReleaseAttempt"}
  THEN Enter(e, "FailureEvidenceUnavailable")
  ELSE \E legible \in BOOLEAN :
         exec' = [exec EXCEPT ![e] =
           [@ EXCEPT !.at = "RecordFailure", !.tries = 0,
                     !.failed = FailedState(exec[e].at), !.legible = legible]]

Unanswered(e) == Retry(e) \/ Catch(e)

\* A handler that died may leave its write undecided.
Abandon(kind, e) ==
  \/ UNCHANGED pending
  \/ /\ Cardinality(pending) < MaxPending
     /\ pending' = pending \cup {[kind |-> kind, by |-> e]}

\* A call that writes: applied or found applied, then answered or not; or
\* rejected or dropped.
Call(kind, e, Answer(_)) ==
  \/ /\ Apply(kind, e) \/ (Replays(kind, e) /\ UNCHANGED authority)
     /\ Answer(e) \/ Unanswered(e)
     /\ UNCHANGED pending
  \/ Unanswered(e) /\ Abandon(kind, e) /\ UNCHANGED authority

Start(e) ==
  /\ At(e, "NotStarted")
  /\ Enter(e, "ValidateExecution")
  /\ plan' = IF Plan(e) # None THEN plan
             ELSE [plan EXCEPT ![DeploymentOf[e]] = history[Namespace(e)]]
  /\ UNCHANGED <<authority, jobs, records, pending>>

Validate(e) ==
  /\ exec[e].at \in Validations
  /\ Advance(e) \/ Unanswered(e)
  /\ UNCHANGED <<authority, pending>> /\ Quiet

\* A choice that takes any registered run for a committed one.
OutcomeByRegistration(e) ==
  Enter(e, IF registration[Run(e)] # None THEN "ReplaySucceeded" ELSE "AdmitAttempt")

\* RegistrationOutcome follows the answer.
RegistrationOutcome(e) ==
  Enter(e, IF Committed(Run(e)) THEN "ReplaySucceeded" ELSE "AdmitAttempt")

RegisterRun(e) ==
  /\ At(e, "RegisterRun")
  /\ Call("register", e, RegistrationOutcome)
  /\ Quiet

Admitted(e) ==
  exec' = [exec EXCEPT ![e] =
    [@ EXCEPT !.at = "StartGlue", !.tries = 0, !.token = holder'[Run(e)]]]

AdmitAttempt(e) ==
  /\ At(e, "AdmitAttempt")
  /\ Call("admit", e, Admitted)
  /\ Quiet

Manage(e, name) ==
  exec' = [exec EXCEPT ![e] =
    [@ EXCEPT !.at = After(exec[e].at), !.tries = 0,
              !.managed = exec[e].managed \cup {name}]]

\* The job may have been started by a call that reports an error.
StartGlue(e) ==
  /\ At(e, "StartGlue")
  /\ \/ /\ jobs' = [jobs EXCEPT ![e] = @ + 1]
        /\ Manage(e, "glue") \/ Unanswered(e)
     \/ Unanswered(e) /\ UNCHANGED jobs
  /\ UNCHANGED <<authority, pending, plan, records>>

RunQuery(e) ==
  /\ exec[e].at \in RunQueries
  /\ Manage(e, FamilyOf[exec[e].at]) \/ Unanswered(e)
  /\ UNCHANGED <<authority, pending>> /\ Quiet

\* prepare_financial_snapshot builds on the root only while it is the planned
\* predecessor.
PreparePublication(e) ==
  /\ At(e, "PreparePublication")
  /\ (history[Namespace(e)] = Plan(e) /\ Advance(e)) \/ Unanswered(e)
  /\ UNCHANGED <<authority, pending>> /\ Quiet

Publishing(e) == exec' = [exec EXCEPT ![e] = [@ EXCEPT !.at = "Reopen"]]

PublishAuthority(e) ==
  /\ At(e, "PublishAuthority")
  /\ Call("publish", e, Publishing)
  /\ Quiet

\* publish_authority reads the root back, restores the snapshot from it and
\* writes the publication document.
Reopen(e) ==
  /\ At(e, "Reopen")
  /\ (history[Namespace(e)] = Published(e) /\ Advance(e)) \/ Unanswered(e)
  /\ UNCHANGED <<authority, pending>> /\ Quiet

-----------------------------------------------------------------------------
(* record_failure                                                          *)

\* _failure_state and _managed_identity.
Recordable(e) ==
  /\ exec[e].failed \in DOMAIN QueryPrefixes
  /\ exec[e].legible
  /\ exec[e].token # None
  /\ "glue" \in exec[e].managed <=> exec[e].failed # "StartGlue"
  /\ exec[e].managed \ {"glue"} = QueryPrefixes[exec[e].failed]

\* Evidence whose write is not awaited.
RecordUnawaited(e) ==
  /\ At(e, "RecordFailure")
  /\ \/ /\ Recordable(e)
        /\ records' \in {records, records \cup {exec[e].token}}
        /\ exec' = [exec EXCEPT ![e] = [@ EXCEPT !.at = "ReleaseAttempt"]]
     \/ Unanswered(e) /\ UNCHANGED records
  /\ UNCHANGED <<authority, pending, plan, jobs>>

RecordFailure(e) ==
  /\ At(e, "RecordFailure")
  /\ \/ /\ Recordable(e)
        /\ records' = records \cup {exec[e].token}
        /\ exec' = [exec EXCEPT ![e] = [@ EXCEPT !.at = "ReleaseAttempt"]]
             \/ Unanswered(e)
     \/ Unanswered(e) /\ UNCHANGED records
  /\ UNCHANGED <<authority, pending, plan, jobs>>

Failed(e) == Enter(e, "WorkflowFailed")

\* A release whose rejection is taken for a replay.
ReleaseTolerant(e) ==
  /\ At(e, "ReleaseAttempt")
  /\ Call("release", e, Failed) \/ (Failed(e) /\ UNCHANGED <<authority, pending>>)
  /\ Quiet

ReleaseAttempt(e) ==
  /\ At(e, "ReleaseAttempt")
  /\ Call("release", e, Failed)
  /\ Quiet

-----------------------------------------------------------------------------
\* TimeoutSeconds ends the execution, not the handler that is running.
TimeOut(e) ==
  /\ exec[e].at \in Tasks
  /\ Enter(e, "TimedOut")
  /\ \/ UNCHANGED pending
     \/ At(e, "RegisterRun") /\ Abandon("register", e)
     \/ At(e, "AdmitAttempt") /\ Abandon("admit", e)
     \/ At(e, "PublishAuthority") /\ Abandon("publish", e)
     \/ At(e, "ReleaseAttempt") /\ Abandon("release", e)
  /\ UNCHANGED authority /\ Quiet

LateWrite ==
  \E w \in pending :
    /\ pending' = pending \ {w}
    /\ Apply(w.kind, w.by) \/ UNCHANGED authority
    /\ UNCHANGED exec /\ Quiet

Work(e) ==
  \/ Validate(e) \/ RegisterRun(e) \/ AdmitAttempt(e) \/ StartGlue(e)
  \/ RunQuery(e) \/ PreparePublication(e) \/ PublishAuthority(e) \/ Reopen(e)
  \/ RecordFailure(e) \/ ReleaseAttempt(e)

Next == LateWrite \/ \E e \in Executions : Start(e) \/ Work(e) \/ TimeOut(e)

\* A task returns, fails or is stopped by its service; nothing makes anyone
\* start an execution.
Spec == Init /\ [][Next]_vars /\ \A e \in Executions : WF_vars(Work(e))

-----------------------------------------------------------------------------
(* What the machine promises about runs.                                   *)

\* A success means this execution's attempt is in the history, right after the
\* predecessor its input named, and the attempt did not fail as well; a
\* replayed success means an execution of the same input committed
\* (publish_authority 524-536, register_run 203-209).
SuccessIsCommitted ==
  \A e \in Executions :
    /\ At(e, "WorkflowSucceeded") =>
         /\ Published(e) \in Store!Digests(Namespace(e))
         /\ exec[e].token \notin released
    /\ At(e, "ReplaySucceeded") =>
         \E t \in Store!CommittedAttempts :
           t.run_id = Run(e) /\ t.identity = DeploymentOf[e]

\* WorkflowFailed is final: the attempt's failure is recorded, it has released
\* its run and no publication of it, however late, enters the history
\* (record_failure 178-179; the cause text of WorkflowFailed).
FailureIsFinal ==
  \A e \in Executions :
    At(e, "WorkflowFailed") =>
      /\ exec[e].token \in released \cap records
      /\ exec[e].token \notin Store!CommittedAttempts

\* Evidence comes before release: whatever handler dies where, and whenever a
\* late release lands, no attempt is released without its record
\* (record_failure 178-179).
EvidenceBeforeRelease == released \subseteq records

\* While an execution starts Glue, validates, queries, prepares or publishes,
\* no other execution does so for the same run (admit_attempt 225-232).
SoleWorker ==
  \A e, f \in Executions :
    /\ exec[e].at \in Working /\ exec[f].at \in Working
    /\ Run(e) = Run(f)
    => e = f

\* An execution starts one Glue run at most, and only for an attempt that was
\* granted (StartGlue 154-166).
OneGlueRun ==
  \A e \in Executions :
    jobs[e] > 0 => jobs[e] = 1 /\ exec[e].token \in Store!Granted

\* Every execution that starts ends: retries are bounded in every state.
Terminates ==
  \A e \in Executions : exec[e].at \in Tasks ~> exec[e].at \in Terminals

-----------------------------------------------------------------------------
(* What documents say of it and the code does not do.                      *)

\* The checkpoint document has RecordFailure cover "the seven states that
\* execute after attempt admission", among them "the three ordered query
\* states", with the "identities already present at the failure point": a
\* failure of one of them with a legible error can be recorded.
OwnedFailuresRecordable ==
  \A e \in Executions :
    /\ At(e, "RecordFailure") /\ exec[e].legible
    /\ exec[e].failed \in DOMAIN QueryPrefixes
    => Recordable(e)

\* failure.py says that "only transitions that already own an admitted attempt
\* can record authoritative failure evidence": none is recorded of an attempt
\* whose run is committed.
NoEvidenceAgainstCommit == records \cap Store!CommittedAttempts = {}
=============================================================================
