--------------------------- MODULE WorkflowProofs ---------------------------
(***************************************************************************)
(* Proofs about Workflow for every value of its constants.                 *)
(***************************************************************************)
EXTENDS Workflow, FiniteSetTheorems, SequenceTheorems, TLAPS

-----------------------------------------------------------------------------
(* The machine's states.                                                   *)

\* Before an execution is granted an attempt, and after it lost its way.
Early == {"NotStarted", "ValidateExecution", "RegisterRun", "AdmitAttempt"}
Failing ==
  {"RecordFailure", "ReleaseAttempt", "WorkflowFailed", "FailureEvidenceUnavailable",
   "TimedOut"}
Places == Tasks \cup Terminals \cup {"NotStarted"}

\* The chain, state by state.
LEMMA ChainIs ==
  /\ Len(Chain) = 15
  /\ Chain[1] = "ValidateExecution" /\ Chain[2] = "RegisterRun"
  /\ Chain[3] = "AdmitAttempt" /\ Chain[4] = "StartGlue"
  /\ Chain[5] = "ValidateCandidate" /\ Chain[6] = "RunTransactionsQuery"
  /\ Chain[7] = "ValidateTransactionsQuery" /\ Chain[8] = "RunSettlementsQuery"
  /\ Chain[9] = "ValidateSettlementsQuery" /\ Chain[10] = "RunBankAllocationsQuery"
  /\ Chain[11] = "ValidateBankAllocationsQuery" /\ Chain[12] = "PreparePublication"
  /\ Chain[13] = "PublishAuthority" /\ Chain[14] = "Reopen"
  /\ Chain[15] = "WorkflowSucceeded"
BY DEF Chain

\* The states of work and of failure handling.
LEMMA Names ==
  /\ Working =
       {"StartGlue", "ValidateCandidate", "RunTransactionsQuery",
        "ValidateTransactionsQuery", "RunSettlementsQuery", "ValidateSettlementsQuery",
        "RunBankAllocationsQuery", "ValidateBankAllocationsQuery", "PreparePublication",
        "PublishAuthority", "Reopen"}
  /\ Tasks = {"ValidateExecution", "RegisterRun", "AdmitAttempt"} \cup Working
               \cup {"RecordFailure", "ReleaseAttempt"}
<1>1. \A n : n \in 4..14 <=> n \in {4, 5, 6, 7, 8, 9, 10, 11, 12, 13, 14}
  OBVIOUS
<1>2. \A n : n \in 1..14 <=> n \in {1, 2, 3} \cup 4..14
  OBVIOUS
<1>3. Working = {Chain[n] : n \in {4, 5, 6, 7, 8, 9, 10, 11, 12, 13, 14}}
  BY <1>1 DEF Working
<1>4. Tasks = {Chain[n] : n \in {1, 2, 3}} \cup Working \cup {"RecordFailure", "ReleaseAttempt"}
  BY <1>2 DEF Tasks, Working
<1> QED
  BY <1>3, <1>4, ChainIs

\* The successor of each state.
LEMMA AfterIs == \A n \in 1..14 : After(Chain[n]) = Chain[n + 1]
<1>1. \A n : n \in 1..14 <=> n \in {1, 2, 3, 4, 5, 6, 7, 8, 9, 10, 11, 12, 13, 14}
  OBVIOUS
<1>2. \A m, n \in 1..14 : Chain[m] = Chain[n] => m = n
  BY <1>1, ChainIs
<1>3. /\ DOMAIN Successor = 1..14
      /\ \A n \in 1..14 : Successor[n] = <<Chain[n], Chain[n + 1]>>
  BY ChainIs DEF Successor
<1> TAKE n \in 1..14
<1>4. (CHOOSE m \in DOMAIN Successor : Successor[m][1] = Chain[n]) = n
  BY <1>2, <1>3
<1>5. PICK m : m = CHOOSE j \in DOMAIN Successor : Successor[j][1] = Chain[n]
  OBVIOUS
<1>6. After(Chain[n]) = Successor[m][2]
  BY <1>5 DEF After
<1>7. Successor[n][2] = Chain[n + 1]
  BY <1>3
<1> QED
  BY <1>4, <1>5, <1>6, <1>7

\* The states that advance by themselves or through Manage.
LEMMA AfterNames ==
  /\ After("ValidateExecution") = "RegisterRun"
  /\ After("Reopen") = "WorkflowSucceeded"
  /\ \A s \in Working \ {"Reopen"} : After(s) \in Working \ {"StartGlue"}
<1>1. /\ After(Chain[1]) = Chain[2] /\ After(Chain[4]) = Chain[5]
      /\ After(Chain[5]) = Chain[6] /\ After(Chain[6]) = Chain[7]
      /\ After(Chain[7]) = Chain[8] /\ After(Chain[8]) = Chain[9]
      /\ After(Chain[9]) = Chain[10] /\ After(Chain[10]) = Chain[11]
      /\ After(Chain[11]) = Chain[12] /\ After(Chain[12]) = Chain[13]
      /\ After(Chain[13]) = Chain[14] /\ After(Chain[14]) = Chain[15]
  BY AfterIs
<1> QED
  BY <1>1, ChainIs, Names

\* Where queries, validations and failures belong.
LEMMA Kinds ==
  /\ RunQueries \subseteq Working \ {"StartGlue", "PublishAuthority", "Reopen"}
  /\ Validations \subseteq {"ValidateExecution"}
       \cup (Working \ {"StartGlue", "PublishAuthority", "Reopen"})
  /\ \A s \in RunQueries : FamilyOf[s] \in DOMAIN QueryFailure
BY Names DEF RunQueries, Validations, FamilyOf, QueryFailure

-----------------------------------------------------------------------------
(* Moves of an execution.                                                  *)

\* e moves to s and keeps its attempt; no other execution moves.
MovesTo(e, s) ==
  /\ exec' \in [Executions -> Execution]
  /\ exec'[e].at = s /\ exec'[e].token = exec[e].token
  /\ \A f \in Executions : f # e => exec'[f] = exec[f]

\* The record of one execution replaced by another with its attempt.
LEMMA RecordMoves ==
  ASSUME TypeOK, NEW e \in Executions, NEW new \in Execution,
         exec' = [exec EXCEPT ![e] = new], new.token = exec[e].token
  PROVE  MovesTo(e, new.at)
BY DEF TypeOK, MovesTo

\* Entering a state.
LEMMA EnterMoves ==
  ASSUME TypeOK, NEW e \in Executions, NEW s \in Places, Enter(e, s)
  PROVE  MovesTo(e, s)
<1> DEFINE new == [exec[e] EXCEPT !.at = s, !.tries = 0]
<1>1. exec[e] \in Execution /\ 0 \in 0..(LambdaRetries + AthenaRetries)
  BY WorkflowConstants DEF TypeOK
<1>2. new \in Execution /\ new.token = exec[e].token /\ new.at = s
  BY <1>1 DEF Execution, Places
<1>3. exec' = [exec EXCEPT ![e] = new]
  BY DEF Enter
<1> HIDE DEF new
<1> QED
  BY <1>2, <1>3, RecordMoves

\* A retry repeats the handler; StartGlue is not repeated.
LEMMA RetryMoves ==
  ASSUME TypeOK, NEW e \in Executions, exec[e].at \in Tasks, Retry(e)
  PROVE  MovesTo(e, Handler(exec[e].at)) /\ exec[e].at # "StartGlue"
<1>1. exec[e] \in Execution
  BY DEF TypeOK
<1>2. exec[e].tries \in Nat /\ LambdaRetries \in Nat /\ AthenaRetries \in Nat
  BY <1>1, WorkflowConstants DEF Execution
<1>3. exec[e].at # "StartGlue"
  BY <1>2 DEF Retry, Retries
<1>4. Handler(exec[e].at) \in Places
  BY Names DEF Handler, Places
<1>5. exec[e].tries + 1 \in 0..(LambdaRetries + AthenaRetries)
  BY <1>2 DEF Retry, Retries
<1> DEFINE new == [exec[e] EXCEPT !.at = Handler(exec[e].at), !.tries = exec[e].tries + 1]
<1>6. new \in Execution /\ new.token = exec[e].token /\ new.at = Handler(exec[e].at)
  BY <1>1, <1>4, <1>5 DEF Execution, Places
<1>7. exec' = [exec EXCEPT ![e] = new]
  BY DEF Retry
<1> HIDE DEF new
<1> QED
  BY <1>3, <1>6, <1>7, RecordMoves

\* A caught error leads to RecordFailure, or out of it.
LEMMA CatchMoves ==
  ASSUME TypeOK, NEW e \in Executions, exec[e].at \in Tasks, Catch(e)
  PROVE  \/ MovesTo(e, "RecordFailure")
         \/ MovesTo(e, "FailureEvidenceUnavailable")
<1>1. CASE exec[e].at \in {"RecordFailure", "ReleaseAttempt"}
  <2>1. "FailureEvidenceUnavailable" \in Places
    BY DEF Places, Terminals
  <2> QED
    BY <1>1, <2>1, EnterMoves DEF Catch
<1>2. CASE exec[e].at \notin {"RecordFailure", "ReleaseAttempt"}
  <2>1. PICK legible \in BOOLEAN :
          exec' = [exec EXCEPT ![e] =
            [@ EXCEPT !.at = "RecordFailure", !.tries = 0,
                      !.failed = FailedState(exec[e].at), !.legible = legible]]
    BY <1>2 DEF Catch
  <2>2. /\ exec[e] \in Execution /\ 0 \in 0..(LambdaRetries + AthenaRetries)
        /\ "RecordFailure" \in Tasks
    BY WorkflowConstants DEF TypeOK, Tasks
  <2>3. [exec[e] EXCEPT !.at = "RecordFailure", !.tries = 0,
                        !.failed = FailedState(exec[e].at), !.legible = legible] \in Execution
    BY <2>2 DEF Execution
  <2> QED
    BY <2>1, <2>2, <2>3 DEF MovesTo, TypeOK, Execution
<1> QED
  BY <1>1, <1>2

\* Where a task goes that was not answered.
LEMMA UnansweredMoves ==
  ASSUME TypeOK, NEW e \in Executions, exec[e].at \in Tasks, Unanswered(e)
  PROVE  \/ MovesTo(e, Handler(exec[e].at)) /\ exec[e].at # "StartGlue"
         \/ MovesTo(e, "RecordFailure")
         \/ MovesTo(e, "FailureEvidenceUnavailable")
BY RetryMoves, CatchMoves DEF Unanswered

\* Advancing, and noting what a service manages.
LEMMA AdvanceMoves ==
  ASSUME TypeOK, NEW e \in Executions, After(exec[e].at) \in Places, Advance(e)
  PROVE  MovesTo(e, After(exec[e].at))
BY EnterMoves DEF Advance

\* A managed task that is done moves its execution to the next state.
LEMMA ManageMoves ==
  ASSUME TypeOK, NEW e \in Executions, After(exec[e].at) \in Places,
         NEW name \in {"glue"} \cup DOMAIN QueryFailure, Manage(e, name)
  PROVE  MovesTo(e, After(exec[e].at))
<1>1. exec[e] \in Execution /\ 0 \in 0..(LambdaRetries + AthenaRetries)
  BY WorkflowConstants DEF TypeOK
<1> DEFINE new == [exec[e] EXCEPT !.at = After(exec[e].at), !.tries = 0,
                                  !.managed = exec[e].managed \cup {name}]
<1>2. new \in Execution /\ new.token = exec[e].token /\ new.at = After(exec[e].at)
  BY <1>1 DEF Execution, Places
<1>3. exec' = [exec EXCEPT ![e] = new]
  BY DEF Manage
<1> HIDE DEF new
<1> QED
  BY <1>2, <1>3, RecordMoves

-----------------------------------------------------------------------------
(* The authority.                                                          *)

\* Types of what the machine keeps and of what it sees of the authority.
TypeInv ==
  /\ TypeOK /\ IsFiniteSet(pending)
  /\ registration \in [RunIds -> Store!Registration \cup {None}]
  /\ history \in [Namespaces -> Seq(Store!Entry)]
  /\ plan \in [Deployments -> Seq(Store!Entry) \cup {None}]

\* Every attempt the authority knows is an attempt.
LEMMA GrantedTypes ==
  ASSUME TypeInv
  PROVE  Store!Granted \subseteq Token /\ Store!CommittedAttempts \subseteq Token
<1>1. ASSUME NEW ns \in Namespaces, NEW n \in 1..Len(history[ns])
      PROVE  history[ns][n].attempt \in Token
  <2>1. history[ns] \in Seq(Store!Entry)
    BY DEF TypeInv
  <2>2. history[ns][n] \in Store!Entry
    BY <2>1
  <2> QED
    BY <2>2 DEF Store!Entry, Store!Attempt, Token
<1>2. Store!CommittedAttempts \subseteq Token
  <2> SUFFICES ASSUME NEW t \in Store!CommittedAttempts PROVE t \in Token
    OBVIOUS
  <2>1. PICK ns \in Namespaces : t \in {history[ns][n].attempt : n \in 1..Len(history[ns])}
    BY DEF Store!CommittedAttempts
  <2> QED
    BY <1>1, <2>1
<1>3. Store!Granted \subseteq Token
  BY <1>2 DEF Store!Granted, TypeInv, TypeOK
<1> QED
  BY <1>2, <1>3

\* One attempt at most holds a run or committed it; what is released is neither.
OneHolder ==
  /\ \A u \in Store!Granted :
       registration[u.run_id] = [namespace |-> u.namespace, identity |-> u.identity]
  /\ \A r \in RunIds : holder[r] # None =>
       /\ holder[r].run_id = r
       /\ holder[r] \notin released
       /\ \A u \in Store!CommittedAttempts : u.run_id # r
  /\ released \cap Store!CommittedAttempts = {}
  /\ \A t, u \in Store!CommittedAttempts : t.run_id = u.run_id => t = u

\* What the authority never takes back.
Grows ==
  /\ released \subseteq released'
  /\ Store!CommittedAttempts \subseteq Store!CommittedAttempts'
  /\ Store!Granted \subseteq Store!Granted'
  /\ \A ns \in Namespaces : Store!Digests(ns) \subseteq Store!Digests(ns)'
  /\ \A r \in RunIds : holder[r] # None =>
       holder'[r] = holder[r] \/ holder[r] \in Store!CommittedAttempts' \cup released'

\* An extended history begins as it did.
LEMMA AppendKeepsPrefix ==
  ASSUME NEW S, NEW s \in Seq(S), NEW x \in S, NEW n \in 1..Len(s)
  PROVE  SubSeq(Append(s, x), 1, n) = SubSeq(s, 1, n)
OBVIOUS

\* A registration.
LEMMA RegisterHolder ==
  ASSUME TypeInv, OneHolder, NEW r \in RunIds, NEW reg, Store!Register(r, reg)
  PROVE  OneHolder' /\ Grows /\ released' = released /\ UNCHANGED <<holder, history>>
<1>1. /\ registration[r] = None /\ registration' = [registration EXCEPT ![r] = reg]
      /\ UNCHANGED <<holder, released, history>>
  BY DEF Store!Register
<1>2. /\ Store!CommittedAttempts' = Store!CommittedAttempts
      /\ Store!Granted' = Store!Granted
      /\ \A ns \in Namespaces : Store!Digests(ns)' = Store!Digests(ns)
  BY <1>1 DEF Store!CommittedAttempts, Store!Granted, Store!Digests
<1>3. ASSUME NEW u \in Store!Granted
      PROVE  registration'[u.run_id] = registration[u.run_id]
  <2>1. u \in Token
    BY GrantedTypes
  <2>2. registration[u.run_id] = [namespace |-> u.namespace, identity |-> u.identity]
    BY DEF OneHolder
  <2>3. /\ u.run_id \in RunIds
        /\ [namespace |-> u.namespace, identity |-> u.identity] \in Store!Registration
    BY <2>1 DEF Token, Store!Registration
  <2>4. u.run_id # r
    BY <1>1, <2>2, <2>3, NoneAssumption
  <2> QED
    BY <1>1, <2>3, <2>4 DEF TypeInv
<1> QED
  BY <1>1, <1>2, <1>3 DEF OneHolder, Grows

\* An admission gives the run to a new attempt.
LEMMA AdmitHolder ==
  ASSUME TypeInv, OneHolder, NEW t \in Token, Store!Admit(t, FALSE)
  PROVE  /\ OneHolder' /\ Grows /\ released' = released /\ history' = history
         /\ holder' = [holder EXCEPT ![t.run_id] = t] /\ t \in Store!Granted'
<1>1. /\ registration[t.run_id] = [namespace |-> t.namespace, identity |-> t.identity]
      /\ holder[t.run_id] = None
      /\ \A u \in Store!CommittedAttempts : u.run_id # t.run_id
      /\ \A u \in Store!Granted :
           <<u.run_id, u.attempt_id>> # <<t.run_id, t.attempt_id>>
      /\ holder' = [holder EXCEPT ![t.run_id] = t]
      /\ UNCHANGED <<registration, released, history>>
  BY DEF Store!Admit
<1>2. t.run_id \in RunIds /\ t # None /\ DOMAIN holder = RunIds
  BY NoneAssumption DEF Token, TypeInv, TypeOK
<1>3. /\ Store!CommittedAttempts' = Store!CommittedAttempts
      /\ \A ns \in Namespaces : Store!Digests(ns)' = Store!Digests(ns)
  BY <1>1 DEF Store!CommittedAttempts, Store!Digests
<1>4. /\ holder'[t.run_id] = t
      /\ \A r \in RunIds : r # t.run_id => holder'[r] = holder[r]
  BY <1>1, <1>2
<1>5. Store!Granted' = Store!Granted \cup {t}
  BY <1>1, <1>2, <1>3, <1>4 DEF Store!Granted
<1>6. t \notin released
  BY <1>1, <1>2 DEF Store!Granted, TypeInv, TypeOK
<1>7. OneHolder'
  <2>1. \A u \in Store!Granted' :
          registration'[u.run_id] = [namespace |-> u.namespace, identity |-> u.identity]
    BY <1>1, <1>5 DEF OneHolder
  <2>2. \A r \in RunIds : holder'[r] # None =>
          /\ holder'[r].run_id = r
          /\ holder'[r] \notin released'
          /\ \A u \in Store!CommittedAttempts' : u.run_id # r
    BY <1>1, <1>3, <1>4, <1>6 DEF OneHolder
  <2> QED
    BY <1>1, <1>3, <2>1, <2>2 DEF OneHolder
<1> QED
  BY <1>1, <1>2, <1>3, <1>4, <1>5, <1>7 DEF Grows

\* A release takes the run from its holder.
LEMMA ReleaseHolder ==
  ASSUME TypeInv, OneHolder, NEW t \in Token, Store!Release(t)
  PROVE  /\ OneHolder' /\ Grows /\ released' = released \cup {t}
         /\ holder' = [holder EXCEPT ![t.run_id] = None] /\ history' = history
<1>1. /\ holder[t.run_id] = t
      /\ holder' = [holder EXCEPT ![t.run_id] = None]
      /\ released' = released \cup {t}
      /\ UNCHANGED <<registration, history>>
  BY DEF Store!Release
<1>2. t.run_id \in RunIds /\ t # None /\ DOMAIN holder = RunIds
  BY NoneAssumption DEF Token, TypeInv, TypeOK
<1>3. /\ Store!CommittedAttempts' = Store!CommittedAttempts
      /\ \A ns \in Namespaces : Store!Digests(ns)' = Store!Digests(ns)
  BY <1>1 DEF Store!CommittedAttempts, Store!Digests
<1>4. /\ holder'[t.run_id] = None
      /\ \A r \in RunIds : r # t.run_id => holder'[r] = holder[r]
  BY <1>1, <1>2
<1>5. Store!Granted' = Store!Granted
  BY <1>1, <1>2, <1>3, <1>4 DEF Store!Granted
<1>6. \A r \in RunIds : r # t.run_id => holder[r] # t
  BY <1>2 DEF OneHolder
<1>7. t \notin Store!CommittedAttempts
  BY <1>1, <1>2 DEF OneHolder
<1>8. OneHolder'
  <2>1. \A r \in RunIds : holder'[r] # None =>
          /\ holder'[r].run_id = r
          /\ holder'[r] \notin released'
          /\ \A u \in Store!CommittedAttempts' : u.run_id # r
    BY <1>1, <1>3, <1>4, <1>6 DEF OneHolder
  <2> QED
    BY <1>1, <1>3, <1>5, <1>7, <2>1 DEF OneHolder
<1> QED
  BY <1>1, <1>3, <1>4, <1>5, <1>8 DEF Grows

\* A publication commits the holder and extends its namespace's history.
LEMMA PublishHolder ==
  ASSUME TypeInv, OneHolder, NEW t \in Token, NEW preparation \in Deployments,
         Store!Publish(t, preparation, FALSE)
  PROVE  OneHolder' /\ Grows /\ released' = released
<1> DEFINE ns == t.namespace
           entry == [attempt |-> t, preparation |-> preparation]
<1>1. /\ holder[t.run_id] = t
      /\ holder' = [holder EXCEPT ![t.run_id] = None]
      /\ history' = [history EXCEPT ![ns] = Append(history[ns], entry)]
      /\ UNCHANGED <<registration, released>>
  BY DEF Store!Publish
<1>2. /\ t.run_id \in RunIds /\ t # None /\ DOMAIN holder = RunIds
      /\ ns \in Namespaces /\ DOMAIN history = Namespaces
  BY NoneAssumption DEF Token, TypeInv, TypeOK
<1>3. \A m \in Namespaces : history[m] \in Seq(Store!Entry) /\ Len(history[m]) \in Nat
  BY DEF TypeInv
<1>4. entry \in Store!Entry /\ entry.attempt = t
  BY DEF Store!Entry, Store!Attempt, Token
<1> HIDE DEF entry
<1>5. /\ Len(history'[ns]) = Len(history[ns]) + 1
      /\ history'[ns][Len(history[ns]) + 1] = entry
      /\ \A n \in 1..Len(history[ns]) : history'[ns][n] = history[ns][n]
  BY <1>1, <1>2, <1>3, <1>4
<1>6. \A m \in Namespaces : m # ns => history'[m] = history[m]
  BY <1>1, <1>2
<1> HIDE DEF ns
<1>7. Store!CommittedAttempts' = Store!CommittedAttempts \cup {t}
  <2>1. \A m \in Namespaces : m # ns =>
          {history'[m][n].attempt : n \in 1..Len(history'[m])}
            = {history[m][n].attempt : n \in 1..Len(history[m])}
    BY <1>6
  <2>2. {history'[ns][n].attempt : n \in 1..Len(history'[ns])}
          = {history[ns][n].attempt : n \in 1..Len(history[ns])} \cup {t}
    <3>1. 1..Len(history'[ns]) = 1..Len(history[ns]) \cup {Len(history[ns]) + 1}
      BY <1>2, <1>3, <1>5
    <3> QED
      BY <1>4, <1>5, <3>1
  <2>3. /\ Store!CommittedAttempts' =
             UNION {{history'[m][n].attempt : n \in 1..Len(history'[m])} : m \in Namespaces}
        /\ Store!CommittedAttempts =
             UNION {{history[m][n].attempt : n \in 1..Len(history[m])} : m \in Namespaces}
    BY DEF Store!CommittedAttempts
  <2>4. PICK After1 : After1 =
          [m \in Namespaces |-> {history'[m][n].attempt : n \in 1..Len(history'[m])}]
    OBVIOUS
  <2>5. PICK Before1 : Before1 =
          [m \in Namespaces |-> {history[m][n].attempt : n \in 1..Len(history[m])}]
    OBVIOUS
  <2>6. /\ \A m \in Namespaces : m # ns => After1[m] = Before1[m]
        /\ After1[ns] = Before1[ns] \cup {t}
    BY <1>2, <2>1, <2>2, <2>4, <2>5
  <2>7. /\ Store!CommittedAttempts' = UNION {After1[m] : m \in Namespaces}
        /\ Store!CommittedAttempts = UNION {Before1[m] : m \in Namespaces}
    BY <2>3, <2>4, <2>5
  <2> QED
    BY <1>2, <2>6, <2>7
<1>8. \A m \in Namespaces : Store!Digests(m) \subseteq Store!Digests(m)'
  <2> SUFFICES ASSUME NEW m \in Namespaces, NEW n \in 1..Len(history[m])
               PROVE  SubSeq(history[m], 1, n) \in Store!Digests(m)'
    BY DEF Store!Digests
  <2>1. CASE m # ns
    BY <1>6, <2>1 DEF Store!Digests
  <2>2. CASE m = ns
    <3>1. n \in 1..Len(history'[ns])
      BY <1>2, <1>3, <1>5, <2>2
    <3>2. history' [ns] = Append(history[ns], entry)
      BY <1>1, <1>2 DEF ns
    <3>3. SubSeq(history'[ns], 1, n) = SubSeq(history[ns], 1, n)
      BY <1>2, <1>3, <1>4, <2>2, <3>2, AppendKeepsPrefix
    <3> QED
      BY <2>2, <3>1, <3>3 DEF Store!Digests
  <2> QED
    BY <2>1, <2>2
<1>9. /\ holder'[t.run_id] = None
      /\ \A r \in RunIds : r # t.run_id => holder'[r] = holder[r]
  BY <1>1, <1>2
<1>10. Store!Granted' = Store!Granted
  BY <1>1, <1>2, <1>7, <1>9 DEF Store!Granted
<1>11. OneHolder'
  <2>1. \A r \in RunIds : holder'[r] # None =>
          /\ holder'[r].run_id = r
          /\ holder'[r] \notin released'
          /\ \A u \in Store!CommittedAttempts' : u.run_id # r
    BY <1>1, <1>7, <1>9 DEF OneHolder
  <2>2. released' \cap Store!CommittedAttempts' = {}
    BY <1>1, <1>2, <1>7 DEF OneHolder
  <2>3. \A v, u \in Store!CommittedAttempts' : v.run_id = u.run_id => v = u
    BY <1>1, <1>2, <1>7 DEF OneHolder
  <2> QED
    BY <1>1, <1>10, <2>1, <2>2, <2>3 DEF OneHolder
<1> QED
  BY <1>1, <1>7, <1>8, <1>9, <1>10, <1>11 DEF Grows

-----------------------------------------------------------------------------
(* The inductive invariant.                                                *)

Owns(e) == holder[Run(e)] = exec[e].token \/ exec[e].token \in Store!CommittedAttempts

\* What is true of an execution at each place.
Stage(e) ==
  /\ exec[e].at \in Early => exec[e].token = None /\ jobs[e] = 0
  /\ exec[e].at # "NotStarted" => Plan(e) # None
  /\ exec[e].token # None =>
       /\ exec[e].token \in Store!Granted
       /\ \E f \in Fences : exec[e].token = TokenWith(e, f)
  /\ exec[e].at \in Working => exec[e].token # None /\ Owns(e)
  /\ exec[e].at = "StartGlue" => jobs[e] = 0
  /\ jobs[e] > 0 => jobs[e] = 1 /\ exec[e].token # None
  /\ exec[e].at = "ReleaseAttempt" => exec[e].token # None /\ exec[e].token \in records
  /\ exec[e].at = "WorkflowFailed" =>
       exec[e].token # None /\ exec[e].token \in released \cap records
  /\ exec[e].at = "WorkflowSucceeded" =>
       exec[e].token # None /\ Published(e) \in Store!Digests(Namespace(e))
  /\ exec[e].at = "ReplaySucceeded" =>
       \E t \in Store!CommittedAttempts : t.run_id = Run(e) /\ t.identity = DeploymentOf[e]

\* What is true of the caller of a write that is still in flight.
InFlight(w) ==
  /\ w.kind = "publish" => exec[w.by].token # None
  /\ w.kind = "release" =>
       /\ exec[w.by].token # None /\ exec[w.by].token \in records
       /\ exec[w.by].at \in Failing

WorkInv ==
  /\ TypeInv /\ OneHolder /\ released \subseteq records
  /\ \A e \in Executions : Stage(e)
  /\ \A w \in pending : InFlight(w)

\* The run and the namespace of an execution.
LEMMA InputTypes ==
  ASSUME NEW e \in Executions
  PROVE  /\ DeploymentOf[e] \in Deployments /\ Run(e) \in RunIds
         /\ Namespace(e) \in Namespaces
         /\ Registration(e) \in Store!Registration
         /\ \A f \in Fences : /\ TokenWith(e, f) \in Token
                              /\ TokenWith(e, f).run_id = Run(e)
                              /\ TokenWith(e, f).owner = e
                              /\ TokenWith(e, f).namespace = Namespace(e)
                              /\ TokenWith(e, f).identity = DeploymentOf[e]
BY WorkflowConstants
DEF Run, Namespace, Registration, Store!Registration, TokenWith, Token

\* The attempt of an execution names its run and its owner.
LEMMA TokenFields ==
  ASSUME NEW e \in Executions, Stage(e), exec[e].token # None
  PROVE  /\ exec[e].token \in Token /\ exec[e].token.run_id = Run(e)
         /\ exec[e].token.owner = e /\ exec[e].token.namespace = Namespace(e)
         /\ exec[e].token.identity = DeploymentOf[e]
BY InputTypes DEF Stage

\* The authority after a step, as far as the machine depends on it.
Kept ==
  /\ registration' \in [RunIds -> Store!Registration \cup {None}]
  /\ holder' \in [RunIds -> Token \cup {None}]
  /\ released' \subseteq Token
  /\ history' \in [Namespaces -> Seq(Store!Entry)]
  /\ OneHolder' /\ Grows

\* An authority that does not move keeps what it promised.
LEMMA IdleKept ==
  ASSUME WorkInv, UNCHANGED authority
  PROVE  Kept /\ released' = released
<1>1. /\ Store!CommittedAttempts' = Store!CommittedAttempts
      /\ Store!Granted' = Store!Granted
      /\ \A ns \in Namespaces : Store!Digests(ns)' = Store!Digests(ns)
      /\ UNCHANGED <<registration, holder, released, history>>
  BY DEF authority, Store!CommittedAttempts, Store!Granted, Store!Digests
<1> QED
  BY <1>1 DEF WorkInv, TypeInv, TypeOK, Kept, OneHolder, Grows

\* Whatever write is applied, the authority keeps its word; only a release
\* releases, and only its caller's attempt.
LEMMA ApplyKept ==
  ASSUME WorkInv, NEW e \in Executions, NEW kind, Apply(kind, e),
         kind \in {"publish", "release"} => exec[e].token # None
  PROVE  /\ Kept
         /\ kind # "release" => released' = released
         /\ kind = "release" => released' = released \cup {exec[e].token}
<1>1. TypeInv /\ OneHolder /\ Stage(e)
  BY DEF WorkInv
<1>2. CASE kind = "register" /\ Store!Register(Run(e), Registration(e))
  <2>1. OneHolder' /\ Grows /\ released' = released /\ UNCHANGED <<holder, history>>
    BY <1>1, <1>2, InputTypes, RegisterHolder
  <2>2. registration' \in [RunIds -> Store!Registration \cup {None}]
    BY <1>1, <1>2, InputTypes DEF Store!Register, TypeInv
  <2> QED
    BY <1>1, <1>2, <2>1, <2>2 DEF Kept, TypeInv, TypeOK
<1>3. CASE kind = "admit" /\ \E f \in Fences : Store!Admit(TokenWith(e, f), FALSE)
  <2>1. PICK f \in Fences : Store!Admit(TokenWith(e, f), FALSE)
    BY <1>3
  <2>2. PICK t \in Token : t = TokenWith(e, f)
    BY InputTypes
  <2>3. /\ OneHolder' /\ Grows /\ released' = released /\ history' = history
        /\ holder' = [holder EXCEPT ![t.run_id] = t]
    BY <1>1, <2>1, <2>2, AdmitHolder
  <2>4. registration' = registration
    BY <2>1 DEF Store!Admit
  <2> QED
    BY <1>1, <1>3, <2>3, <2>4 DEF Kept, TypeInv, TypeOK
<1>4. CASE kind = "publish" /\ Store!Publish(exec[e].token, DeploymentOf[e], FALSE)
  <2>1. PICK t \in Token : t = exec[e].token
    BY <1>1, <1>4, TokenFields
  <2>2. DeploymentOf[e] \in Deployments
    BY InputTypes
  <2>3. OneHolder' /\ Grows /\ released' = released
    BY <1>1, <1>4, <2>1, <2>2, PublishHolder
  <2>4. /\ registration' = registration
        /\ holder' = [holder EXCEPT ![t.run_id] = None]
        /\ history' = [history EXCEPT ![t.namespace] =
             Append(history[t.namespace], [attempt |-> t, preparation |-> DeploymentOf[e]])]
    BY <1>4, <2>1 DEF Store!Publish
  <2>5. [attempt |-> t, preparation |-> DeploymentOf[e]] \in Store!Entry
    BY <2>2 DEF Store!Entry, Store!Attempt, Token
  <2>6. t.namespace \in Namespaces
    BY DEF Token
  <2>7. history' \in [Namespaces -> Seq(Store!Entry)]
    BY <1>1, <2>4, <2>5, <2>6 DEF TypeInv
  <2>8. holder' \in [RunIds -> Token \cup {None}] /\ released \subseteq Token
    BY <1>1, <2>4 DEF TypeInv, TypeOK
  <2> QED
    BY <1>1, <1>4, <2>3, <2>4, <2>7, <2>8 DEF Kept, TypeInv
<1>5. CASE kind = "release" /\ Store!Release(exec[e].token)
  <2>1. PICK t \in Token : t = exec[e].token
    BY <1>1, <1>5, TokenFields
  <2>2. /\ OneHolder' /\ Grows /\ released' = released \cup {t}
        /\ holder' = [holder EXCEPT ![t.run_id] = None] /\ history' = history
    BY <1>1, <1>5, <2>1, ReleaseHolder
  <2>3. registration' = registration
    BY <1>5 DEF Store!Release
  <2> QED
    BY <1>1, <1>5, <2>1, <2>2, <2>3 DEF Kept, TypeInv, TypeOK
<1> QED
  BY <1>2, <1>3, <1>4, <1>5 DEF Apply

\* A step releases nothing but attempts of executions that failed.
Releases ==
  \A u \in released' \ released :
    \E g \in Executions : exec[g].token = u /\ u # None /\ exec[g].at \in Failing

\* An execution at work keeps its run.
LEMMA OwnsStays ==
  ASSUME WorkInv, Kept, Releases, NEW f \in Executions, exec[f].at \in Working,
         exec'[f].token = exec[f].token
  PROVE  Owns(f)'
<1>1. Stage(f) /\ TypeInv /\ OneHolder
  BY DEF WorkInv
<1>2. exec[f].token # None /\ Owns(f)
  BY <1>1 DEF Stage
<1>3. exec[f].token \notin released' \ released
  <2> SUFFICES ASSUME exec[f].token \in released' \ released PROVE FALSE
    OBVIOUS
  <2>1. PICK g \in Executions : exec[g].token = exec[f].token /\ exec[g].at \in Failing
    BY DEF Releases
  <2>2. exec[f].token.owner = f /\ exec[g].token.owner = g
    BY <1>2, <2>1, TokenFields DEF WorkInv
  <2> QED
    BY <2>1, <2>2, Names DEF Failing
<1>4. CASE exec[f].token \in Store!CommittedAttempts
  BY <1>4 DEF Kept, Grows, Owns
<1>5. CASE holder[Run(f)] = exec[f].token
  <2>1. exec[f].token \notin released
    BY <1>1, <1>2, <1>5, InputTypes DEF OneHolder
  <2> QED
    BY <1>2, <1>3, <1>5, <2>1, InputTypes DEF Kept, Grows, Owns, Run
<1> QED
  BY <1>2, <1>4, <1>5 DEF Owns

\* An execution that stays where it is.
LEMMA StageStays ==
  ASSUME WorkInv, Kept, Releases, NEW f \in Executions,
         exec'[f] = exec[f], jobs'[f] = jobs[f], records \subseteq records',
         Plan(f) # None => Plan(f)' = Plan(f)
  PROVE  Stage(f)'
<1>1. Stage(f) /\ TypeInv /\ OneHolder
  BY DEF WorkInv
<1>2. exec[f].at \in Working => Owns(f)'
  BY OwnsStays
<1>3. exec[f].at = "WorkflowSucceeded" => Published(f)' \in Store!Digests(Namespace(f))'
  <2> SUFFICES ASSUME exec[f].at = "WorkflowSucceeded"
               PROVE  Published(f)' \in Store!Digests(Namespace(f))'
    OBVIOUS
  <2>1. Published(f)' = Published(f)
    BY <1>1 DEF Stage, Published
  <2>2. Namespace(f) \in Namespaces
    BY InputTypes
  <2>3. Published(f) \in Store!Digests(Namespace(f))
    BY <1>1 DEF Stage
  <2>4. PICK ns \in Namespaces : ns = Namespace(f) /\ ns = Namespace(f)'
    BY <2>2 DEF Namespace
  <2>5. Store!Digests(ns) \subseteq Store!Digests(ns)'
    BY DEF Kept, Grows
  <2> QED
    BY <2>1, <2>3, <2>4, <2>5 DEF Store!Digests
<1>4. /\ Store!CommittedAttempts \subseteq Store!CommittedAttempts'
      /\ Store!Granted \subseteq Store!Granted' /\ released \subseteq released'
  BY DEF Kept, Grows
<1>5. exec[f].token # None =>
        /\ exec[f].token \in Store!Granted'
        /\ \E n \in Fences : exec[f].token = TokenWith(f, n)'
  BY <1>1, <1>4 DEF Stage, TokenWith, Namespace, Run
<1>6. exec[f].at = "ReplaySucceeded" =>
        \E t \in Store!CommittedAttempts' :
          t.run_id = Run(f)' /\ t.identity = DeploymentOf[f]
  BY <1>1, <1>4 DEF Stage, Run
<1> QED
  BY <1>1, <1>2, <1>3, <1>4, <1>5, <1>6 DEF Stage

-----------------------------------------------------------------------------
(* One step of one execution.                                              *)

\* What a step of e may do to everything but the authority and the writes in
\* flight.
Frame(e) ==
  /\ exec' \in [Executions -> Execution] /\ jobs' \in [Executions -> Nat]
  /\ \A f \in Executions : f # e => exec'[f] = exec[f] /\ jobs'[f] = jobs[f]
  /\ exec[e].token # None => exec'[e].token = exec[e].token
  /\ exec[e].at \in Failing => exec'[e].at \in Failing
  /\ records \subseteq records' /\ records' \subseteq Token /\ released' \subseteq records'
  /\ plan' \in [Deployments -> Seq(Store!Entry) \cup {None}]
  /\ \A d \in Deployments : plan[d] # None => plan'[d] = plan[d]

\* The writes in flight after a step of e.
Flights == [kind : {"register", "admit", "publish", "release"}, by : Executions]
PendingKept(e) ==
  /\ pending' \subseteq Flights /\ IsFiniteSet(pending')
  /\ Cardinality(pending') <= MaxPending
  /\ \A w \in pending' \ pending :
       /\ w.by = e
       /\ w.kind = "publish" => exec[e].at = "PublishAuthority"
       /\ w.kind = "release" => exec[e].at = "ReleaseAttempt"

\* No write, or one more, is in flight.
LEMMA SamePending ==
  ASSUME WorkInv, NEW e \in Executions, pending' = pending
  PROVE  PendingKept(e)
BY DEF WorkInv, TypeInv, TypeOK, PendingKept, Flights

\* An unanswered call adds at most a write that its state allows.
LEMMA AbandonKept ==
  ASSUME WorkInv, NEW e \in Executions,
         NEW kind \in {"register", "admit", "publish", "release"}, Abandon(kind, e),
         kind = "publish" => exec[e].at = "PublishAuthority",
         kind = "release" => exec[e].at = "ReleaseAttempt"
  PROVE  PendingKept(e)
<1>1. CASE pending' = pending
  BY <1>1, SamePending
<1>2. CASE Cardinality(pending) < MaxPending
           /\ pending' = pending \cup {[kind |-> kind, by |-> e]}
  <2>1. IsFiniteSet(pending) /\ Cardinality(pending) \in Nat /\ MaxPending \in Nat
    BY FS_CardinalityType, WorkflowConstants DEF WorkInv, TypeInv
  <2>2. /\ IsFiniteSet(pending')
        /\ Cardinality(pending') = Cardinality(pending)
             \/ Cardinality(pending') = Cardinality(pending) + 1
    BY <1>2, <2>1, FS_AddElement
  <2>3. [kind |-> kind, by |-> e] \in Flights
    BY DEF Flights
  <2>4. Cardinality(pending') <= MaxPending
    BY <1>2, <2>1, <2>2
  <2>5. pending \subseteq Flights
    BY DEF WorkInv, TypeInv, TypeOK, Flights
  <2> QED
    BY <1>2, <2>2, <2>3, <2>4, <2>5 DEF PendingKept
<1> QED
  BY <1>1, <1>2 DEF Abandon

\* What is left to show of a step is the place of the execution that made it.
LEMMA StepKeeps ==
  ASSUME WorkInv, Kept, Releases, NEW e \in Executions, Frame(e), PendingKept(e),
         Stage(e)'
  PROVE  WorkInv'
<1>1. TypeInv'
  BY DEF TypeInv, TypeOK, Kept, Frame, PendingKept, Flights
<1>2. \A f \in Executions : Stage(f)'
  <2>1. ASSUME NEW f \in Executions, f # e
        PROVE  Stage(f)'
    <3>1. Plan(f) # None => Plan(f)' = Plan(f)
      BY InputTypes DEF Frame, Plan
    <3>2. exec'[f] = exec[f] /\ jobs'[f] = jobs[f] /\ records \subseteq records'
      BY <2>1 DEF Frame
    <3> QED
      BY <3>1, <3>2, StageStays
  <2> QED
    BY <2>1
<1>3. ASSUME NEW w \in pending'
      PROVE  InFlight(w)'
  <2>1. w.by \in Executions
    BY DEF PendingKept, Flights
  <2>2. InFlight(w)
    <3>1. CASE w \in pending
      BY <3>1 DEF WorkInv
    <3>2. CASE w \notin pending
      <4>1. /\ w.by = e
            /\ w.kind = "publish" => exec[e].at = "PublishAuthority"
            /\ w.kind = "release" => exec[e].at = "ReleaseAttempt"
        BY <3>2 DEF PendingKept
      <4>2. Stage(e)
        BY DEF WorkInv
      <4> QED
        BY <4>1, <4>2, Names DEF InFlight, Stage, Failing
    <3> QED
      BY <3>1, <3>2
  <2>3. CASE w.by = e
    BY <2>2, <2>3 DEF InFlight, Frame
  <2>4. CASE w.by # e
    BY <2>1, <2>2, <2>4 DEF InFlight, Frame
  <2> QED
    BY <2>3, <2>4
<1>4. OneHolder' /\ released' \subseteq records'
  BY DEF Kept, Frame
<1> QED
  BY <1>1, <1>2, <1>3, <1>4 DEF WorkInv

\* A move that brings an execution no further than it was.
LEMMA StageMoved ==
  ASSUME WorkInv, Kept, Releases, NEW e \in Executions, NEW s, MovesTo(e, s),
         exec[e].at # "NotStarted", plan' = plan,
         jobs'[e] = jobs[e] \/ (exec[e].at = "StartGlue" /\ jobs'[e] = jobs[e] + 1),
         s \in Early => exec[e].at \in Early,
         s \in Working => exec[e].at \in Working,
         s \notin {"StartGlue", "ReleaseAttempt", "WorkflowFailed",
                   "WorkflowSucceeded", "ReplaySucceeded"}
  PROVE  Stage(e)'
<1>1. Stage(e) /\ jobs[e] \in Nat
  BY DEF WorkInv, TypeInv, TypeOK
<1>2. exec'[e].at = s /\ exec'[e].token = exec[e].token
  BY DEF MovesTo
<1>3. s \in Working => exec[e].token # None /\ Owns(e)'
  BY <1>1, <1>2, OwnsStays DEF Stage
<1>4. exec[e].token # None =>
        /\ exec[e].token \in Store!Granted'
        /\ \E f \in Fences : exec[e].token = TokenWith(e, f)'
  BY <1>1 DEF Stage, TokenWith, Namespace, Run, Kept, Grows
<1>5. s \in Early => exec[e].token = None /\ jobs'[e] = 0
  BY <1>1, Names DEF Stage, Early
<1>6. jobs'[e] > 0 => jobs'[e] = 1 /\ exec[e].token # None
  BY <1>1, Names DEF Stage
<1>7. Plan(e)' # None
  BY <1>1 DEF Stage, Plan
<1> QED
  BY <1>2, <1>3, <1>4, <1>5, <1>6, <1>7 DEF Stage

\* Such a move is a step that keeps the invariant.
LEMMA MoveStep ==
  ASSUME WorkInv, Kept, Releases, NEW e \in Executions, NEW s, MovesTo(e, s),
         exec[e].at # "NotStarted", plan' = plan,
         jobs' = jobs \/ (exec[e].at = "StartGlue" /\ jobs' = [jobs EXCEPT ![e] = @ + 1]),
         s \in Early => exec[e].at \in Early,
         s \in Working => exec[e].at \in Working,
         exec[e].at \in Failing => s \in Failing,
         s \notin {"StartGlue", "ReleaseAttempt", "WorkflowFailed",
                   "WorkflowSucceeded", "ReplaySucceeded"},
         records \subseteq records', records' \subseteq Token, released' \subseteq records',
         PendingKept(e)
  PROVE  WorkInv'
<1>1. /\ jobs \in [Executions -> Nat]
      /\ plan \in [Deployments -> Seq(Store!Entry) \cup {None}]
  BY DEF WorkInv, TypeInv, TypeOK
<1>2. /\ jobs' \in [Executions -> Nat]
      /\ \A f \in Executions : f # e => jobs'[f] = jobs[f]
      /\ jobs'[e] = jobs[e] \/ (exec[e].at = "StartGlue" /\ jobs'[e] = jobs[e] + 1)
  BY <1>1
<1>3. Frame(e)
  BY <1>1, <1>2 DEF Frame, MovesTo
<1>4. Stage(e)'
  BY <1>2, StageMoved
<1> QED
  BY <1>3, <1>4, StepKeeps

\* A task that was not answered, whatever became of its write.
LEMMA UnansweredStep ==
  ASSUME WorkInv, Kept, Releases, NEW e \in Executions, exec[e].at \in Tasks,
         Unanswered(e), plan' = plan,
         jobs' = jobs \/ (exec[e].at = "StartGlue" /\ jobs' = [jobs EXCEPT ![e] = @ + 1]),
         records \subseteq records', records' \subseteq Token, released' \subseteq records',
         PendingKept(e)
  PROVE  WorkInv'
<1>1. TypeOK /\ exec[e].at # "NotStarted"
  BY Names DEF WorkInv, TypeInv
<1>2. CASE MovesTo(e, Handler(exec[e].at)) /\ exec[e].at # "StartGlue"
  <2>1. PICK s : s = Handler(exec[e].at)
    OBVIOUS
  <2>2. /\ s \in Early => exec[e].at \in Early
        /\ s \in Working => exec[e].at \in Working
        /\ exec[e].at \in Failing => s \in Failing
        /\ s \notin {"StartGlue", "ReleaseAttempt", "WorkflowFailed",
                     "WorkflowSucceeded", "ReplaySucceeded"}
    BY <1>2, <2>1, Names DEF Handler, Early, Failing
  <2> QED
    BY <1>1, <1>2, <2>1, <2>2, MoveStep
<1>3. ASSUME NEW s \in {"RecordFailure", "FailureEvidenceUnavailable"}, MovesTo(e, s)
      PROVE  WorkInv'
  <2>1. /\ s \notin Early /\ s \notin Working /\ s \in Failing
        /\ s \notin {"StartGlue", "ReleaseAttempt", "WorkflowFailed",
                     "WorkflowSucceeded", "ReplaySucceeded"}
    BY Names DEF Early, Failing
  <2> QED
    BY <1>1, <1>3, <2>1, MoveStep
<1> QED
  BY <1>1, <1>2, <1>3, UnansweredMoves

-----------------------------------------------------------------------------
(* The actions.                                                            *)

\* A step that leaves the authority alone.
LEMMA IdleStep ==
  ASSUME WorkInv, UNCHANGED authority
  PROVE  Kept /\ Releases /\ released' = released
BY IdleKept DEF Releases

\* What a call does to the authority, answered or not.
Asked(kind, e) == Apply(kind, e) \/ (Replays(kind, e) /\ UNCHANGED authority)

\* A call that is answered, applied or not, keeps what the authority promised.
LEMMA AskedKept ==
  ASSUME WorkInv, NEW e \in Executions,
         NEW kind \in {"register", "admit", "publish"}, Asked(kind, e),
         kind = "publish" => exec[e].token # None
  PROVE  Kept /\ Releases /\ released' = released
<1>1. CASE Apply(kind, e)
  BY <1>1, ApplyKept DEF Releases
<1>2. CASE UNCHANGED authority
  BY <1>2, IdleStep
<1> QED
  BY <1>1, <1>2 DEF Asked

\* A release that is answered leaves the attempt released.
LEMMA ReleaseKept ==
  ASSUME WorkInv, NEW e \in Executions, Asked("release", e), exec[e].at \in Failing,
         exec[e].token # None
  PROVE  /\ Kept /\ Releases /\ exec[e].token \in released'
         /\ released' = released \cup {exec[e].token}
<1>1. CASE Apply("release", e)
  BY <1>1, ApplyKept DEF Releases
<1>2. CASE Replays("release", e) /\ UNCHANGED authority
  BY <1>2, IdleStep DEF Replays
<1> QED
  BY <1>1, <1>2 DEF Asked

\* The records of a step that writes none.
LEMMA SameRecords ==
  ASSUME WorkInv, records' = records
  PROVE  records \subseteq records' /\ records' \subseteq Token /\ released \subseteq records'
BY DEF WorkInv, TypeInv, TypeOK

\* A rejected call, or one whose handler died before it was decided.
LEMMA DroppedStep ==
  ASSUME WorkInv, NEW e \in Executions, exec[e].at \in Tasks, Unanswered(e),
         UNCHANGED authority, Quiet,
         NEW kind \in {"register", "admit", "publish", "release"}, Abandon(kind, e),
         kind = "publish" => exec[e].at = "PublishAuthority",
         kind = "release" => exec[e].at = "ReleaseAttempt"
  PROVE  WorkInv'
<1>1. PendingKept(e)
  BY AbandonKept
<1>2. Kept /\ Releases /\ released' = released
  BY IdleStep
<1>3. records \subseteq records' /\ records' \subseteq Token /\ released' \subseteq records'
  BY <1>2, SameRecords DEF Quiet
<1> QED
  BY <1>1, <1>2, <1>3, UnansweredStep DEF Quiet

\* A call that took effect and was not answered.
LEMMA LostAnswerStep ==
  ASSUME WorkInv, NEW e \in Executions, exec[e].at \in Tasks, Unanswered(e),
         Kept, Releases, released' = released, Quiet, pending' = pending
  PROVE  WorkInv'
<1>1. PendingKept(e)
  BY SamePending
<1>2. records \subseteq records' /\ records' \subseteq Token /\ released' \subseteq records'
  BY SameRecords DEF Quiet
<1> QED
  BY <1>1, <1>2, UnansweredStep DEF Quiet

\* The start of an execution.
LEMMA StartStep ==
  ASSUME WorkInv, NEW e \in Executions, Start(e)
  PROVE  WorkInv'
<1>1. TypeOK /\ TypeInv /\ Stage(e) /\ exec[e].at = "NotStarted"
  BY DEF WorkInv, TypeInv, Start, At
<1>2. MovesTo(e, "ValidateExecution")
  BY <1>1, EnterMoves, Names DEF Start, Places
<1>3. /\ Kept /\ Releases /\ released' = released /\ PendingKept(e)
      /\ records \subseteq records' /\ records' \subseteq Token /\ released' \subseteq records'
  BY IdleStep, SamePending, SameRecords DEF Start
<1>4. history[Namespace(e)] \in Seq(Store!Entry)
  BY <1>1, InputTypes DEF TypeInv
<1>5. /\ plan' \in [Deployments -> Seq(Store!Entry) \cup {None}]
      /\ \A d \in Deployments : plan[d] # None => plan'[d] = plan[d]
      /\ plan'[DeploymentOf[e]] # None
  <2>1. CASE Plan(e) # None
    BY <1>1, <2>1, InputTypes DEF Start, Plan, TypeInv
  <2>2. CASE Plan(e) = None
    <3>1. plan' = [plan EXCEPT ![DeploymentOf[e]] = history[Namespace(e)]]
      BY <2>2 DEF Start
    <3> QED
      BY <1>1, <1>4, <2>2, <3>1, InputTypes, NoneAssumption DEF Plan, TypeInv
  <2> QED
    BY <2>1, <2>2
<1>6. jobs' = jobs /\ jobs \in [Executions -> Nat]
  BY <1>1 DEF Start, TypeOK
<1>7. Frame(e)
  BY <1>1, <1>2, <1>3, <1>5, <1>6 DEF Frame, MovesTo, Failing
<1>8. Stage(e)'
  BY <1>1, <1>2, <1>5, <1>6, Names DEF Stage, MovesTo, Early, Plan
<1> QED
  BY <1>3, <1>7, <1>8, StepKeeps

\* A move to a place that is no answer of the authority.
LEMMA QuietMove ==
  ASSUME WorkInv, NEW e \in Executions, NEW s, MovesTo(e, s),
         exec[e].at \in Tasks \ ({"StartGlue"} \cup Failing),
         s \in (Working \ {"StartGlue"}) \cup {"RegisterRun", "AdmitAttempt"},
         s \in Early => exec[e].at \in Early,
         s \in Working => exec[e].at \in Working,
         Kept, Releases, released' = released, Quiet, pending' = pending
  PROVE  WorkInv'
<1>1. PendingKept(e)
  BY SamePending
<1>2. records \subseteq records' /\ records' \subseteq Token /\ released' \subseteq records'
  BY SameRecords DEF Quiet
<1>3. /\ exec[e].at # "NotStarted"
      /\ s \notin {"StartGlue", "ReleaseAttempt", "WorkflowFailed",
                   "WorkflowSucceeded", "ReplaySucceeded"}
  BY Names
<1>4. plan' = plan /\ jobs' = jobs /\ (exec[e].at \in Failing => s \in Failing)
  BY DEF Quiet
<1> QED
  BY <1>1, <1>2, <1>3, <1>4, MoveStep

\* The tasks that validate a receipt.
LEMMA ValidateStep ==
  ASSUME WorkInv, NEW e \in Executions, Validate(e)
  PROVE  WorkInv'
<1>1. /\ TypeOK /\ exec[e].at \in Validations /\ UNCHANGED authority
      /\ pending' = pending /\ Quiet
  BY DEF WorkInv, TypeInv, Validate
<1>2. Kept /\ Releases /\ released' = released
  BY <1>1, IdleStep
<1>3. exec[e].at \in Tasks
  BY <1>1, Kinds, Names
<1>4. CASE Unanswered(e)
  BY <1>1, <1>2, <1>3, <1>4, LostAnswerStep
<1>5. CASE Advance(e)
  <2>1. PICK s : s = After(exec[e].at)
    OBVIOUS
  <2>2. /\ s \in (Working \ {"StartGlue"}) \cup {"RegisterRun", "AdmitAttempt"}
        /\ s \in Early => exec[e].at \in Early
        /\ s \in Working => exec[e].at \in Working
        /\ exec[e].at \in Tasks \ ({"StartGlue"} \cup Failing)
    <3>1. CASE exec[e].at = "ValidateExecution"
      BY <2>1, <3>1, Names, AfterNames DEF Early, Failing
    <3>2. CASE exec[e].at \in Working \ {"StartGlue", "PublishAuthority", "Reopen"}
      <4>1. s \in Working \ {"StartGlue"}
        BY <2>1, <3>2, AfterNames
      <4> QED
        BY <3>2, <4>1, Names DEF Early, Failing
    <3> QED
      BY <1>1, <3>1, <3>2, Kinds
  <2>3. s \in Places
    BY <2>2, Names DEF Places
  <2>4. MovesTo(e, s)
    BY <1>1, <1>5, <2>1, <2>3, AdvanceMoves
  <2> QED
    BY <1>1, <1>2, <2>2, <2>4, QuietMove
<1> QED
  BY <1>4, <1>5 DEF Validate

\* The Athena queries.
LEMMA RunQueryStep ==
  ASSUME WorkInv, NEW e \in Executions, RunQuery(e)
  PROVE  WorkInv'
<1>1. /\ TypeOK /\ exec[e].at \in RunQueries /\ UNCHANGED authority
      /\ pending' = pending /\ Quiet
  BY DEF WorkInv, TypeInv, RunQuery
<1>2. Kept /\ Releases /\ released' = released
  BY <1>1, IdleStep
<1>3. exec[e].at \in Working \ {"StartGlue", "PublishAuthority", "Reopen"}
  BY <1>1, Kinds
<1>4. CASE Unanswered(e)
  BY <1>1, <1>2, <1>3, <1>4, LostAnswerStep, Names
<1>5. CASE Manage(e, FamilyOf[exec[e].at])
  <2>1. PICK s : s = After(exec[e].at)
    OBVIOUS
  <2>2. PICK name \in {"glue"} \cup DOMAIN QueryFailure : name = FamilyOf[exec[e].at]
    BY <1>1, Kinds
  <2>3. s \in Working \ {"StartGlue"}
    BY <1>3, <2>1, AfterNames
  <2>4. MovesTo(e, s)
    BY <1>1, <1>5, <2>1, <2>2, <2>3, ManageMoves, Names DEF Places
  <2>5. s \notin Early /\ exec[e].at \in Tasks \ ({"StartGlue"} \cup Failing)
    BY <1>3, <2>3, Names DEF Early, Failing
  <2> QED
    BY <1>1, <1>2, <1>3, <2>3, <2>4, <2>5, QuietMove
<1> QED
  BY <1>4, <1>5 DEF RunQuery

\* The preparation of the publication, which may find the root replaced.
LEMMA PreparePublicationStep ==
  ASSUME WorkInv, NEW e \in Executions, PreparePublication(e)
  PROVE  WorkInv'
<1>1. /\ TypeOK /\ exec[e].at = "PreparePublication" /\ UNCHANGED authority
      /\ pending' = pending /\ Quiet
  BY DEF WorkInv, TypeInv, PreparePublication, At
<1>2. Kept /\ Releases /\ released' = released
  BY <1>1, IdleStep
<1>3. exec[e].at \in Tasks \ ({"StartGlue"} \cup Failing) /\ exec[e].at \in Working \ {"Reopen"}
  BY <1>1, Names DEF Failing
<1>4. CASE Unanswered(e)
  BY <1>1, <1>2, <1>3, <1>4, LostAnswerStep
<1>5. CASE Advance(e)
  <2>1. PICK s : s = After(exec[e].at)
    OBVIOUS
  <2>2. s \in Working \ {"StartGlue"}
    BY <1>3, <2>1, AfterNames
  <2>3. s \in Places /\ s \notin Early
    BY <2>2, Names DEF Places, Early
  <2>4. MovesTo(e, s)
    BY <1>1, <1>5, <2>1, <2>3, AdvanceMoves
  <2> QED
    BY <1>1, <1>2, <1>3, <2>2, <2>3, <2>4, QuietMove
<1> QED
  BY <1>4, <1>5 DEF PreparePublication

\* The publication, applied or replayed, answered or left in flight.
LEMMA PublishAuthorityStep ==
  ASSUME WorkInv, NEW e \in Executions, PublishAuthority(e)
  PROVE  WorkInv'
<1>1. TypeOK /\ Stage(e) /\ exec[e].at = "PublishAuthority" /\ Quiet
  BY DEF WorkInv, TypeInv, PublishAuthority, At
<1>2. exec[e].at \in Working /\ exec[e].at \in Tasks \ ({"StartGlue"} \cup Failing)
  BY <1>1, Names DEF Failing
<1>3. exec[e].token # None
  BY <1>1, <1>2 DEF Stage
<1>4. \/ Asked("publish", e) /\ (Publishing(e) \/ Unanswered(e)) /\ UNCHANGED pending
      \/ Unanswered(e) /\ Abandon("publish", e) /\ UNCHANGED authority
  BY DEF PublishAuthority, Call, Asked
<1>5. CASE Unanswered(e) /\ Abandon("publish", e) /\ UNCHANGED authority
  BY <1>1, <1>2, <1>5, DroppedStep
<1>6. CASE Asked("publish", e) /\ Unanswered(e) /\ UNCHANGED pending
  BY <1>1, <1>2, <1>3, <1>6, AskedKept, LostAnswerStep
<1>7. CASE Asked("publish", e) /\ Publishing(e) /\ UNCHANGED pending
  <2>1. Kept /\ Releases /\ released' = released
    BY <1>3, <1>7, AskedKept
  <2> DEFINE new == [exec[e] EXCEPT !.at = "Reopen"]
  <2>2. exec[e] \in Execution
    BY <1>1 DEF TypeOK
  <2>3. new \in Execution /\ new.token = exec[e].token /\ new.at = "Reopen"
    BY <2>2, Names DEF Execution
  <2>4. exec' = [exec EXCEPT ![e] = new]
    BY <1>7 DEF Publishing
  <2> HIDE DEF new
  <2>5. MovesTo(e, "Reopen")
    BY <1>1, <2>3, <2>4, RecordMoves
  <2>6. "Reopen" \in Working \ {"StartGlue"} /\ "Reopen" \notin Early
    BY Names DEF Early
  <2> QED
    BY <1>1, <1>2, <1>7, <2>1, <2>5, <2>6, QuietMove
<1> QED
  BY <1>4, <1>5, <1>6, <1>7

\* A move to a place where something is promised: what is left to show is the
\* promise.
LEMMA PromiseStep ==
  ASSUME WorkInv, Kept, Releases, NEW e \in Executions, NEW s, MovesTo(e, s),
         plan' = plan, jobs' = jobs, PendingKept(e),
         records \subseteq records', records' \subseteq Token, released' \subseteq records',
         exec[e].at # "NotStarted", exec[e].at \in Failing => s \in Failing,
         s \notin Early, s \notin Working,
         s = "ReleaseAttempt" => exec[e].token # None /\ exec[e].token \in records',
         s = "WorkflowFailed" =>
           exec[e].token # None /\ exec[e].token \in released' \cap records',
         s = "WorkflowSucceeded" =>
           exec[e].token # None /\ Published(e)' \in Store!Digests(Namespace(e))',
         s = "ReplaySucceeded" =>
           \E t \in Store!CommittedAttempts' : t.run_id = Run(e) /\ t.identity = DeploymentOf[e]
  PROVE  WorkInv'
<1>1. /\ jobs \in [Executions -> Nat] /\ Stage(e)
      /\ plan \in [Deployments -> Seq(Store!Entry) \cup {None}]
  BY DEF WorkInv, TypeInv, TypeOK
<1>2. Frame(e)
  BY <1>1 DEF Frame, MovesTo
<1>3. exec'[e].at = s /\ exec'[e].token = exec[e].token
  BY DEF MovesTo
<1>4. exec[e].token # None =>
        /\ exec[e].token \in Store!Granted'
        /\ \E f \in Fences : exec[e].token = TokenWith(e, f)'
  BY <1>1 DEF Stage, TokenWith, Namespace, Run, Kept, Grows
<1>5. Plan(e)' # None /\ Run(e)' = Run(e)
  BY <1>1 DEF Stage, Plan, Run
<1>6. s # "StartGlue"
  BY Names
<1>7. Stage(e)'
  BY <1>1, <1>3, <1>4, <1>5, <1>6 DEF Stage
<1> QED
  BY <1>2, <1>7, StepKeeps

\* The second half of the publication.
LEMMA ReopenStep ==
  ASSUME WorkInv, NEW e \in Executions, Reopen(e)
  PROVE  WorkInv'
<1>1. /\ TypeOK /\ TypeInv /\ Stage(e) /\ exec[e].at = "Reopen" /\ UNCHANGED authority
      /\ pending' = pending /\ Quiet
  BY DEF WorkInv, TypeInv, Reopen, At
<1>2. Kept /\ Releases /\ released' = released
  BY <1>1, IdleStep
<1>3. exec[e].at \in Tasks /\ exec[e].at \in Working /\ exec[e].at \notin Failing
  BY <1>1, Names DEF Failing
<1>4. CASE Unanswered(e)
  BY <1>1, <1>2, <1>3, <1>4, LostAnswerStep
<1>5. CASE history[Namespace(e)] = Published(e) /\ Advance(e)
  <2>1. /\ After(exec[e].at) = "WorkflowSucceeded" /\ "WorkflowSucceeded" \in Places
        /\ "WorkflowSucceeded" \notin Early /\ "WorkflowSucceeded" \notin Working
    BY <1>1, AfterNames, Names DEF Places, Terminals, Early
  <2>2. MovesTo(e, "WorkflowSucceeded")
    BY <1>1, <1>5, <2>1, AdvanceMoves
  <2>3. exec[e].token # None
    BY <1>1, <1>3 DEF Stage
  <2>4. PICK t \in Token : t = exec[e].token
    BY <1>1, <2>3, TokenFields
  <2>5. PICK ns \in Namespaces : ns = Namespace(e) /\ ns = Namespace(e)'
    BY InputTypes DEF Namespace
  <2>6. PICK d : d = Published(e) /\ d = Published(e)'
    BY <1>1, <2>2 DEF Published, Plan, MovesTo, Quiet
  <2>7. d \in Store!Digests(ns)'
    <3>1. history[ns] \in Seq(Store!Entry) /\ history'[ns] = d /\ history[ns] = d
      BY <1>1, <1>5, <2>5, <2>6 DEF TypeInv, authority
    <3>2. Plan(e) \in Seq(Store!Entry)
      BY <1>1, InputTypes DEF TypeInv, Plan, Stage
    <3>3. [attempt |-> t, preparation |-> DeploymentOf[e]] \in Store!Entry
      BY InputTypes DEF Store!Entry, Store!Attempt, Token
    <3>4. Len(d) \in Nat \ {0}
      BY <2>4, <2>6, <3>2, <3>3 DEF Published
    <3>5. SubSeq(d, 1, Len(d)) = d /\ Len(d) \in 1..Len(d)
      BY <3>1, <3>4
    <3> QED
      BY <3>1, <3>5 DEF Store!Digests
  <2>8. PendingKept(e)
    BY <1>1, SamePending
  <2>9. records \subseteq records' /\ records' \subseteq Token /\ released' \subseteq records'
    BY <1>1, <1>2, SameRecords DEF Quiet
  <2>10. Published(e)' \in Store!Digests(Namespace(e))'
    BY <2>5, <2>6, <2>7 DEF Store!Digests
  <2>11. plan' = plan /\ jobs' = jobs /\ exec[e].at # "NotStarted"
    BY <1>1 DEF Quiet
  <2> QED
    BY <1>2, <1>3, <2>1, <2>2, <2>3, <2>8, <2>9, <2>10, <2>11, PromiseStep
<1> QED
  BY <1>4, <1>5 DEF Reopen

\* The registration, whose outcome decides where the execution goes.
LEMMA RegisterRunStep ==
  ASSUME WorkInv, NEW e \in Executions, RegisterRun(e)
  PROVE  WorkInv'
<1>1. TypeOK /\ TypeInv /\ Stage(e) /\ exec[e].at = "RegisterRun" /\ Quiet
  BY DEF WorkInv, TypeInv, RegisterRun, At
<1>2. exec[e].at \in Tasks \ ({"StartGlue"} \cup Failing) /\ exec[e].at \in Early
  BY <1>1, Names DEF Failing, Early
<1>4. \/ /\ Asked("register", e) /\ (RegistrationOutcome(e) \/ Unanswered(e))
         /\ UNCHANGED pending
      \/ Unanswered(e) /\ Abandon("register", e) /\ UNCHANGED authority
  BY DEF RegisterRun, Call, Asked
<1>5. CASE Unanswered(e) /\ Abandon("register", e) /\ UNCHANGED authority
  BY <1>1, <1>2, <1>5, DroppedStep
<1>6. CASE Asked("register", e) /\ Unanswered(e) /\ UNCHANGED pending
  BY <1>1, <1>2, <1>6, AskedKept, LostAnswerStep
<1>7. CASE Asked("register", e) /\ RegistrationOutcome(e) /\ UNCHANGED pending
  <2>1. Kept /\ Releases /\ released' = released
    BY <1>7, AskedKept
  <2>2. CASE Committed(Run(e))
    <3>1. /\ "ReplaySucceeded" \in Places /\ "ReplaySucceeded" \notin Early
          /\ "ReplaySucceeded" \notin Working
      BY Names DEF Places, Terminals, Early
    <3>2. MovesTo(e, "ReplaySucceeded")
      BY <1>1, <1>7, <2>2, <3>1, EnterMoves DEF RegistrationOutcome
    <3>3. PICK t \in Store!CommittedAttempts : t.run_id = Run(e)
      BY <2>2 DEF Committed
    <3>4. t \in Store!CommittedAttempts' /\ t \in Store!Granted'
      <4>1. t \in Token /\ t # None
        BY <1>1, <3>3, GrantedTypes, NoneAssumption
      <4>2. t \in Store!Granted
        BY <3>3, <4>1 DEF Store!Granted
      <4> QED
        BY <2>1, <3>3, <4>2 DEF Kept, Grows
    <3>5. registration'[Run(e)] = Registration(e)
      <4>1. CASE Apply("register", e)
        <5>1. registration' = [registration EXCEPT ![Run(e)] = Registration(e)]
          BY <4>1 DEF Apply, Store!Register
        <5> QED
          BY <1>1, <5>1, InputTypes DEF TypeInv
      <4>2. CASE Replays("register", e) /\ UNCHANGED authority
        BY <4>2 DEF Replays, authority
      <4> QED
        BY <1>7, <4>1, <4>2 DEF Asked
    <3>6. registration'[t.run_id] = [namespace |-> t.namespace, identity |-> t.identity]
      BY <2>1, <3>4 DEF Kept, OneHolder
    <3>7. t.identity = DeploymentOf[e]
      BY <3>3, <3>5, <3>6 DEF Registration
    <3>8. PendingKept(e)
      BY <1>7, SamePending
    <3>9. records \subseteq records' /\ records' \subseteq Token /\ released' \subseteq records'
      BY <1>1, <2>1, SameRecords DEF Quiet
    <3>10. plan' = plan /\ jobs' = jobs /\ exec[e].at # "NotStarted"
      BY <1>1 DEF Quiet
    <3> QED
      BY <1>2, <2>1, <3>1, <3>2, <3>3, <3>4, <3>7, <3>8, <3>9, <3>10, PromiseStep
  <2>3. CASE ~ Committed(Run(e))
    <3>1. "AdmitAttempt" \in Places /\ "AdmitAttempt" \notin Working
      BY Names DEF Places
    <3>2. MovesTo(e, "AdmitAttempt")
      BY <1>1, <1>7, <2>3, <3>1, EnterMoves DEF RegistrationOutcome
    <3> QED
      BY <1>1, <1>2, <1>7, <2>1, <3>1, <3>2, QuietMove
  <2> QED
    BY <2>2, <2>3
<1> QED
  BY <1>4, <1>5, <1>6, <1>7

\* The admission: the only task that gives an execution an attempt.
LEMMA AdmitAttemptStep ==
  ASSUME WorkInv, NEW e \in Executions, AdmitAttempt(e)
  PROVE  WorkInv'
<1>1. TypeOK /\ TypeInv /\ Stage(e) /\ OneHolder /\ exec[e].at = "AdmitAttempt" /\ Quiet
  BY DEF WorkInv, TypeInv, AdmitAttempt, At
<1>2. exec[e].at \in Tasks \ ({"StartGlue"} \cup Failing) /\ exec[e].at \in Early
  BY <1>1, Names DEF Failing, Early
<1>4. \/ Asked("admit", e) /\ (Admitted(e) \/ Unanswered(e)) /\ UNCHANGED pending
      \/ Unanswered(e) /\ Abandon("admit", e) /\ UNCHANGED authority
  BY DEF AdmitAttempt, Call, Asked
<1>5. CASE Unanswered(e) /\ Abandon("admit", e) /\ UNCHANGED authority
  BY <1>1, <1>2, <1>5, DroppedStep
<1>6. CASE Asked("admit", e) /\ Unanswered(e) /\ UNCHANGED pending
  BY <1>1, <1>2, <1>6, AskedKept, LostAnswerStep
<1>7. CASE Asked("admit", e) /\ Admitted(e) /\ UNCHANGED pending
  <2>1. Kept /\ Releases /\ released' = released
    BY <1>7, AskedKept
  <2>2. PICK f \in Fences : holder'[Run(e)] = TokenWith(e, f)
    <3>1. CASE Apply("admit", e)
      <4>1. PICK f \in Fences : Store!Admit(TokenWith(e, f), FALSE)
        BY <3>1 DEF Apply
      <4>2. PICK t \in Token : t = TokenWith(e, f) /\ t.run_id = Run(e)
        BY InputTypes
      <4>3. holder' = [holder EXCEPT ![Run(e)] = t]
        BY <4>1, <4>2 DEF Store!Admit
      <4> QED
        BY <1>1, <4>2, <4>3, InputTypes DEF TypeOK
    <3>2. CASE Replays("admit", e) /\ UNCHANGED authority
      BY <3>2 DEF Replays, authority
    <3> QED
      BY <1>7, <3>1, <3>2 DEF Asked
  <2>3. PICK t \in Token : t = TokenWith(e, f) /\ t.run_id = Run(e)
    BY InputTypes
  <2>4. t # None
    BY NoneAssumption
  <2> DEFINE new == [exec[e] EXCEPT !.at = "StartGlue", !.tries = 0, !.token = t]
  <2>5. exec[e] \in Execution /\ 0 \in 0..(LambdaRetries + AthenaRetries)
    BY <1>1, WorkflowConstants DEF TypeOK
  <2>6. new \in Execution /\ new.token = t /\ new.at = "StartGlue"
    BY <2>5, Names DEF Execution
  <2>7. exec' = [exec EXCEPT ![e] = new]
    BY <1>7, <2>2, <2>3 DEF Admitted
  <2> HIDE DEF new
  <2>8. /\ exec' \in [Executions -> Execution]
        /\ exec'[e].token = t /\ exec'[e].at = "StartGlue"
        /\ \A g \in Executions : g # e => exec'[g] = exec[g]
    BY <1>1, <2>6, <2>7 DEF TypeOK
  <2>9. records \subseteq records' /\ records' \subseteq Token /\ released' \subseteq records'
    BY <1>1, <2>1, SameRecords DEF Quiet
  <2>10. /\ jobs' = jobs /\ plan' = plan /\ jobs \in [Executions -> Nat]
         /\ plan \in [Deployments -> Seq(Store!Entry) \cup {None}]
    BY <1>1 DEF TypeInv, TypeOK, Quiet
  <2>11. exec[e].token = None /\ jobs[e] = 0 /\ Plan(e) # None
    BY <1>1, <1>2 DEF Stage
  <2>12. Frame(e)
    BY <1>2, <2>8, <2>9, <2>10, <2>11 DEF Frame
  <2>13. PendingKept(e)
    BY <1>7, SamePending
  <2>14. t \in Store!Granted' /\ Owns(e)'
    BY <2>2, <2>3, <2>4, <2>8, InputTypes DEF Store!Granted, Owns, Run
  <2>15. Plan(e)' # None /\ t = TokenWith(e, f)'
    BY <2>3, <2>10, <2>11 DEF Plan, TokenWith, Namespace, Run
  <2>16. Stage(e)'
    BY <2>4, <2>8, <2>10, <2>11, <2>14, <2>15, Names DEF Stage, Early
  <2> QED
    BY <2>1, <2>12, <2>13, <2>16, StepKeeps
<1> QED
  BY <1>4, <1>5, <1>6, <1>7

\* The Glue job, started under the attempt.
LEMMA StartGlueStep ==
  ASSUME WorkInv, NEW e \in Executions, StartGlue(e)
  PROVE  WorkInv'
<1>1. /\ TypeOK /\ exec[e].at = "StartGlue" /\ UNCHANGED authority
      /\ pending' = pending /\ plan' = plan /\ records' = records
  BY DEF WorkInv, TypeInv, StartGlue, At
<1>2. Kept /\ Releases /\ released' = released
  BY <1>1, IdleStep
<1>3. /\ exec[e].at \in Tasks /\ exec[e].at \in Working /\ exec[e].at \notin Failing
      /\ exec[e].at # "NotStarted"
  BY <1>1, Names DEF Failing
<1>4. PendingKept(e)
  BY <1>1, SamePending
<1>5. records \subseteq records' /\ records' \subseteq Token /\ released' \subseteq records'
  BY <1>1, <1>2, SameRecords
<1>6. jobs' = jobs \/ jobs' = [jobs EXCEPT ![e] = @ + 1]
  BY DEF StartGlue
<1>7. CASE Unanswered(e)
  BY <1>1, <1>2, <1>3, <1>4, <1>5, <1>6, <1>7, UnansweredStep
<1>8. CASE Manage(e, "glue")
  <2>1. PICK s : s = After(exec[e].at)
    OBVIOUS
  <2>2. s \in Working \ {"StartGlue"} /\ s \in Places
    BY <1>1, <1>3, <2>1, AfterNames, Names DEF Places
  <2>3. MovesTo(e, s)
    BY <1>1, <1>8, <2>1, <2>2, ManageMoves
  <2>4. /\ s \notin Early
        /\ s \notin {"StartGlue", "ReleaseAttempt", "WorkflowFailed",
                     "WorkflowSucceeded", "ReplaySucceeded"}
    BY <2>2, Names DEF Early
  <2> QED
    BY <1>1, <1>2, <1>3, <1>4, <1>5, <1>6, <2>3, <2>4, MoveStep
<1> QED
  BY <1>7, <1>8 DEF StartGlue

\* The evidence of a failure, written before the attempt is released.
LEMMA RecordFailureStep ==
  ASSUME WorkInv, NEW e \in Executions, RecordFailure(e)
  PROVE  WorkInv'
<1>1. /\ TypeOK /\ Stage(e) /\ exec[e].at = "RecordFailure" /\ UNCHANGED authority
      /\ pending' = pending /\ plan' = plan /\ jobs' = jobs /\ released \subseteq records
  BY DEF WorkInv, TypeInv, RecordFailure, At
<1>2. Kept /\ Releases /\ released' = released
  BY <1>1, IdleStep
<1>3. exec[e].at \in Tasks /\ exec[e].at \in Failing /\ exec[e].at # "NotStarted"
  BY <1>1, Names DEF Failing
<1>4. PendingKept(e)
  BY <1>1, SamePending
<1>5. \/ Recordable(e) /\ records' = records \cup {exec[e].token}
      \/ records' = records /\ Unanswered(e)
  BY DEF RecordFailure
<1>6. Recordable(e) => exec[e].token # None /\ exec[e].token \in Token
  BY <1>1, TokenFields DEF Recordable
<1>7. records \subseteq records' /\ records' \subseteq Token /\ released' \subseteq records'
  BY <1>1, <1>2, <1>5, <1>6 DEF TypeOK
<1>8. CASE Unanswered(e)
  BY <1>1, <1>2, <1>3, <1>4, <1>7, <1>8, UnansweredStep
<1>9. CASE Recordable(e) /\ records' = records \cup {exec[e].token}
           /\ exec' = [exec EXCEPT ![e] = [@ EXCEPT !.at = "ReleaseAttempt"]]
  <2> DEFINE new == [exec[e] EXCEPT !.at = "ReleaseAttempt"]
  <2>1. exec[e] \in Execution
    BY <1>1 DEF TypeOK
  <2>2. new \in Execution /\ new.token = exec[e].token /\ new.at = "ReleaseAttempt"
    BY <2>1, Names DEF Execution
  <2>3. exec' = [exec EXCEPT ![e] = new]
    BY <1>9
  <2> HIDE DEF new
  <2>4. MovesTo(e, "ReleaseAttempt")
    BY <1>1, <2>2, <2>3, RecordMoves
  <2>5. /\ "ReleaseAttempt" \notin Early /\ "ReleaseAttempt" \notin Working
        /\ "ReleaseAttempt" \in Failing
    BY Names DEF Early, Failing
  <2>6. exec[e].token # None /\ exec[e].token \in records'
    BY <1>6, <1>9
  <2> QED
    BY <1>1, <1>2, <1>3, <1>4, <1>7, <2>4, <2>5, <2>6, PromiseStep
<1> QED
  BY <1>8, <1>9 DEF RecordFailure

\* The release, which needs the evidence.
LEMMA ReleaseAttemptStep ==
  ASSUME WorkInv, NEW e \in Executions, ReleaseAttempt(e)
  PROVE  WorkInv'
<1>1. TypeOK /\ Stage(e) /\ exec[e].at = "ReleaseAttempt" /\ Quiet /\ released \subseteq records
  BY DEF WorkInv, TypeInv, ReleaseAttempt, At
<1>2. exec[e].at \in Tasks /\ exec[e].at \in Failing /\ exec[e].at # "NotStarted"
  BY <1>1, Names DEF Failing
<1>3. exec[e].token # None /\ exec[e].token \in records
  BY <1>1 DEF Stage
<1>4. \/ Asked("release", e) /\ (Failed(e) \/ Unanswered(e)) /\ UNCHANGED pending
      \/ Unanswered(e) /\ Abandon("release", e) /\ UNCHANGED authority
  BY DEF ReleaseAttempt, Call, Asked
<1>5. CASE Unanswered(e) /\ Abandon("release", e) /\ UNCHANGED authority
  BY <1>1, <1>2, <1>5, DroppedStep
<1>6. CASE Asked("release", e) /\ (Failed(e) \/ Unanswered(e)) /\ UNCHANGED pending
  <2>1. /\ Kept /\ Releases /\ exec[e].token \in released'
        /\ released' = released \cup {exec[e].token}
    BY <1>2, <1>3, <1>6, ReleaseKept
  <2>2. PendingKept(e)
    BY <1>6, SamePending
  <2>3. /\ records \subseteq records' /\ records' \subseteq Token /\ released' \subseteq records'
        /\ exec[e].token \in records' /\ plan' = plan /\ jobs' = jobs
    BY <1>1, <1>3, <2>1, SameRecords DEF Quiet
  <2>4. CASE Unanswered(e)
    BY <1>2, <2>1, <2>2, <2>3, <2>4, UnansweredStep
  <2>5. CASE Failed(e)
    <3>1. /\ "WorkflowFailed" \in Places /\ "WorkflowFailed" \in Failing
          /\ "WorkflowFailed" \notin Early /\ "WorkflowFailed" \notin Working
      BY Names DEF Places, Terminals, Failing, Early
    <3>2. MovesTo(e, "WorkflowFailed")
      BY <1>1, <2>5, <3>1, EnterMoves DEF Failed
    <3> QED
      BY <1>2, <1>3, <2>1, <2>2, <2>3, <3>1, <3>2, PromiseStep
  <2> QED
    BY <1>6, <2>4, <2>5
<1> QED
  BY <1>4, <1>5, <1>6

\* The time limit of an execution.
LEMMA TimeOutStep ==
  ASSUME WorkInv, NEW e \in Executions, TimeOut(e)
  PROVE  WorkInv'
<1>1. TypeOK /\ exec[e].at \in Tasks /\ UNCHANGED authority /\ Quiet
  BY DEF WorkInv, TypeInv, TimeOut
<1>2. Kept /\ Releases /\ released' = released
  BY <1>1, IdleStep
<1>3. /\ "TimedOut" \in Places /\ "TimedOut" \in Failing
      /\ "TimedOut" \notin Early /\ "TimedOut" \notin Working
  BY Names DEF Places, Terminals, Failing, Early
<1>4. MovesTo(e, "TimedOut")
  BY <1>1, <1>3, EnterMoves DEF TimeOut
<1>5. PendingKept(e)
  BY SamePending, AbandonKept DEF TimeOut, At
<1>6. /\ records \subseteq records' /\ records' \subseteq Token /\ released' \subseteq records'
      /\ plan' = plan /\ jobs' = jobs /\ exec[e].at # "NotStarted"
  BY <1>1, <1>2, SameRecords, Names DEF Quiet
<1> QED
  BY <1>2, <1>3, <1>4, <1>5, <1>6, PromiseStep

\* A write whose caller is gone lands.
LEMMA LateWriteStep == WorkInv /\ LateWrite => WorkInv'
<1> SUFFICES ASSUME WorkInv, LateWrite PROVE WorkInv'
  OBVIOUS
<1>1. PICK w \in pending :
        /\ pending' = pending \ {w} /\ exec' = exec /\ Quiet
        /\ Apply(w.kind, w.by) \/ UNCHANGED authority
  BY DEF LateWrite
<1>2. PICK e \in Executions : e = w.by
  BY DEF WorkInv, TypeInv, TypeOK
<1>3. InFlight(w) /\ TypeOK /\ TypeInv /\ released \subseteq records
  BY DEF WorkInv, TypeInv
<1>4. w.kind \in {"publish", "release"} => exec[e].token # None
  BY <1>2, <1>3 DEF InFlight
<1>5. Kept /\ Releases /\ released' \subseteq records
  <2>1. CASE UNCHANGED authority
    BY <1>3, <2>1, IdleStep
  <2>2. CASE Apply(w.kind, e)
    <3>1. /\ Kept
          /\ w.kind # "release" => released' = released
          /\ w.kind = "release" => released' = released \cup {exec[e].token}
      BY <1>4, <2>2, ApplyKept
    <3>2. w.kind = "release" =>
            exec[e].token # None /\ exec[e].token \in records /\ exec[e].at \in Failing
      BY <1>2, <1>3 DEF InFlight
    <3> QED
      BY <1>3, <3>1, <3>2 DEF Releases
  <2> QED
    BY <1>1, <1>2, <2>1, <2>2
<1>6. Frame(e)
  BY <1>1, <1>3, <1>5 DEF Frame, TypeInv, TypeOK, Quiet
<1>7. PendingKept(e)
  <2>1. IsFiniteSet(pending) /\ Cardinality(pending) \in Nat /\ MaxPending \in Nat
    BY <1>3, FS_CardinalityType, WorkflowConstants DEF TypeInv
  <2>2. IsFiniteSet(pending') /\ Cardinality(pending') = Cardinality(pending) - 1
    BY <1>1, <2>1, FS_RemoveElement
  <2>3. Cardinality(pending) <= MaxPending /\ pending \subseteq Flights
    BY <1>3 DEF TypeOK, Flights
  <2> QED
    BY <1>1, <2>1, <2>2, <2>3 DEF PendingKept
<1>8. Stage(e)'
  <2>1. exec'[e] = exec[e] /\ jobs'[e] = jobs[e] /\ records \subseteq records'
    BY <1>1 DEF Quiet
  <2>2. Plan(e)' = Plan(e)
    BY <1>1 DEF Plan, Quiet
  <2> QED
    BY <1>5, <2>1, <2>2, StageStays
<1> QED
  BY <1>5, <1>6, <1>7, <1>8, StepKeeps

-----------------------------------------------------------------------------
(* The invariant and what follows from it.                                 *)

\* WorkInv holds before any execution starts.
LEMMA WorkInit == Init => WorkInv
<1> SUFFICES ASSUME Init PROVE WorkInv
  OBVIOUS
<1>1. /\ IsFiniteSet({}) /\ Cardinality({}) = 0 /\ MaxPending \in Nat
      /\ 0 \in 0..(LambdaRetries + AthenaRetries)
  BY FS_EmptySet, WorkflowConstants
<1>2. /\ \A r \in RunIds : registration[r] = None /\ holder[r] = None
      /\ registration = [r \in RunIds |-> None] /\ holder = [r \in RunIds |-> None]
      /\ released = {} /\ history = [ns \in Namespaces |-> <<>>]
      /\ \A ns \in Namespaces : history[ns] = <<>>
  BY DEF Init, Store!Init
<1>3. \A ns \in Namespaces : 1..Len(history[ns]) = {}
  BY <1>2
<1>4. Store!CommittedAttempts = {}
  BY <1>3 DEF Store!CommittedAttempts
<1>5. Store!Granted = {}
  BY <1>2, <1>4 DEF Store!Granted
<1>6. OneHolder
  BY <1>2, <1>4, <1>5 DEF OneHolder
<1>7. \A e \in Executions :
        exec[e] = [at |-> "NotStarted", tries |-> 0, token |-> None, managed |-> {},
                   failed |-> None, legible |-> TRUE]
  BY DEF Init
<1>8. [at |-> "NotStarted", tries |-> 0, token |-> None, managed |-> {},
       failed |-> None, legible |-> TRUE] \in Execution
  BY <1>1 DEF Execution
<1>9. exec \in [Executions -> Execution]
  BY <1>8 DEF Init
<1>10. <<>> \in Seq(Store!Entry)
  BY EmptySeq
<1>11. TypeInv
  <2>1. /\ pending = {} /\ records = {} /\ plan = [d \in Deployments |-> None]
        /\ jobs = [e \in Executions |-> 0]
    BY DEF Init
  <2>2. holder \in [RunIds -> Token \cup {None}] /\ jobs \in [Executions -> Nat]
    BY <1>2, <2>1
  <2>3. TypeOK
    BY <1>1, <1>2, <1>9, <2>1, <2>2 DEF TypeOK
  <2>4. /\ registration \in [RunIds -> Store!Registration \cup {None}]
        /\ history \in [Namespaces -> Seq(Store!Entry)]
        /\ plan \in [Deployments -> Seq(Store!Entry) \cup {None}]
    BY <1>2, <1>10, <2>1
  <2> QED
    BY <1>1, <2>1, <2>3, <2>4 DEF TypeInv
<1>12. \A e \in Executions : Stage(e)
  BY <1>7, Names DEF Init, Stage, Early
<1> QED
  BY <1>2, <1>6, <1>11, <1>12 DEF Init, WorkInv

\* Nothing happens.
LEMMA WorkStutters == WorkInv /\ UNCHANGED vars => WorkInv'
<1> SUFFICES ASSUME WorkInv, UNCHANGED vars PROVE WorkInv'
  OBVIOUS
<1>1. /\ UNCHANGED authority /\ exec' = exec /\ plan' = plan /\ jobs' = jobs
      /\ records' = records /\ pending' = pending
  BY DEF vars
<1>2. Kept /\ Releases /\ released' = released
  BY <1>1, IdleStep
<1>3. TypeInv' /\ released' \subseteq records'
  BY <1>1, <1>2 DEF WorkInv, TypeInv, TypeOK, Kept
<1>4. ASSUME NEW f \in Executions
      PROVE  Stage(f)'
  BY <1>1, <1>2, StageStays DEF Plan
<1>5. \A w \in pending' : InFlight(w)'
  BY <1>1 DEF WorkInv, InFlight
<1> QED
  BY <1>2, <1>3, <1>4, <1>5 DEF WorkInv, Kept

\* Every step of the machine keeps WorkInv.
LEMMA WorkStep == WorkInv /\ [Next]_vars => WorkInv'
BY WorkStutters, LateWriteStep, StartStep, ValidateStep, RegisterRunStep, AdmitAttemptStep,
   StartGlueStep, RunQueryStep, PreparePublicationStep, PublishAuthorityStep, ReopenStep,
   RecordFailureStep, ReleaseAttemptStep, TimeOutStep
DEF Next, Work

\* WorkInv holds in every reachable state.
LEMMA WorkInvariant == Spec => []WorkInv
BY WorkInit, WorkStep, PTL DEF Spec

\* Every state and every message of the machine has its type, and no more
\* writes are in flight than it allows.
THEOREM TypeCorrect == Spec => []TypeOK
<1>1. WorkInv => TypeOK
  BY DEF WorkInv, TypeInv
<1> QED
  BY <1>1, WorkInvariant, PTL

\* Whatever handler dies where, and whenever a release left in flight lands, no
\* attempt is released without its record (record_failure 178-179).
THEOREM EvidenceBeforeReleaseHolds == Spec => []EvidenceBeforeRelease
<1>1. WorkInv => EvidenceBeforeRelease
  BY DEF WorkInv, EvidenceBeforeRelease
<1> QED
  BY <1>1, WorkInvariant, PTL

\* However many executions name one run, one of them at most is past admission
\* and not yet failing (admit_attempt 225-232).
THEOREM SoleWorkerHolds == Spec => []SoleWorker
<1>1. ASSUME WorkInv PROVE SoleWorker
  <2> SUFFICES ASSUME NEW e \in Executions, NEW f \in Executions,
                      exec[e].at \in Working, exec[f].at \in Working, Run(e) = Run(f)
               PROVE  e = f
    BY DEF SoleWorker
  <2>1. /\ Stage(e) /\ Stage(f) /\ OneHolder
        /\ exec[e].token # None /\ Owns(e) /\ exec[f].token # None /\ Owns(f)
    BY <1>1 DEF WorkInv, Stage
  <2>2. /\ exec[e].token.run_id = Run(e) /\ exec[e].token.owner = e
        /\ exec[f].token.run_id = Run(f) /\ exec[f].token.owner = f
    BY <2>1, TokenFields
  <2>3. exec[e].token = exec[f].token
    BY <2>1, <2>2, InputTypes DEF OneHolder, Owns
  <2> QED
    BY <2>2, <2>3
<1> QED
  BY <1>1, WorkInvariant, PTL

\* What is behind a digest of a namespace was committed.
LEMMA PublishedIsCommitted ==
  ASSUME WorkInv, NEW e \in Executions, exec[e].token # None, Plan(e) # None,
         Published(e) \in Store!Digests(Namespace(e))
  PROVE  exec[e].token \in Store!CommittedAttempts
<1>1. PICK ns \in Namespaces : ns = Namespace(e)
  BY InputTypes
<1>2. PICK n \in 1..Len(history[ns]) : Published(e) = SubSeq(history[ns], 1, n)
  BY <1>1 DEF Store!Digests
<1>3. TypeInv /\ Stage(e)
  BY DEF WorkInv
<1>4. PICK t \in Token : t = exec[e].token
  BY <1>3, TokenFields
<1>5. PICK p \in Seq(Store!Entry) : p = Plan(e)
  BY <1>3, InputTypes DEF TypeInv, Plan
<1>6. PICK entry \in Store!Entry : entry = [attempt |-> t, preparation |-> DeploymentOf[e]]
  BY InputTypes DEF Store!Entry, Store!Attempt, Token
<1>7. entry.attempt = t
  BY <1>6
<1>8. PICK h \in Seq(Store!Entry) : h = history[ns]
  BY <1>3 DEF TypeInv
<1>9. Append(p, entry) = SubSeq(h, 1, n) /\ n \in 1..Len(h)
  BY <1>2, <1>4, <1>5, <1>6, <1>8 DEF Published
<1>10. Len(Append(p, entry)) = n /\ Append(p, entry)[n] = entry /\ SubSeq(h, 1, n)[n] = h[n]
  <2>1. Len(SubSeq(h, 1, n)) = n /\ SubSeq(h, 1, n)[n] = h[n]
    BY <1>9
  <2>2. Len(Append(p, entry)) = Len(p) + 1 /\ Append(p, entry)[Len(p) + 1] = entry
    OBVIOUS
  <2> QED
    BY <1>9, <2>1, <2>2
<1>11. history[ns][n].attempt = t
  BY <1>7, <1>8, <1>9, <1>10
<1> QED
  BY <1>2, <1>4, <1>11 DEF Store!CommittedAttempts

\* A success stands: the execution's attempt, or for a replay one of the same
\* input, is in the history for good and was never released
\* (publish_authority 524-536, register_run 203-209).
THEOREM SuccessIsCommittedHolds == Spec => []SuccessIsCommitted
<1>1. ASSUME WorkInv PROVE SuccessIsCommitted
  <2> SUFFICES ASSUME NEW e \in Executions, At(e, "WorkflowSucceeded")
               PROVE  exec[e].token \notin released
    BY <1>1 DEF SuccessIsCommitted, WorkInv, Stage, At
  <2>1. Stage(e) /\ OneHolder
    BY <1>1 DEF WorkInv
  <2>2. /\ exec[e].token # None /\ Plan(e) # None
        /\ Published(e) \in Store!Digests(Namespace(e))
    BY <2>1 DEF Stage, At
  <2>3. exec[e].token \in Store!CommittedAttempts
    BY <1>1, <2>2, PublishedIsCommitted
  <2> QED
    BY <2>1, <2>3 DEF OneHolder
<1> QED
  BY <1>1, WorkInvariant, PTL

\* WorkflowFailed is final: the failure is recorded, the run released, and the
\* attempt never enters the history, not even by a publication left in flight
\* (record_failure 178-179).
THEOREM FailureIsFinalHolds == Spec => []FailureIsFinal
<1>1. WorkInv => FailureIsFinal
  BY DEF WorkInv, Stage, OneHolder, FailureIsFinal, At
<1> QED
  BY <1>1, WorkInvariant, PTL

\* An execution starts one Glue run at most, for an attempt that was granted
\* (StartGlue 154-166).
THEOREM OneGlueRunHolds == Spec => []OneGlueRun
<1>1. WorkInv => OneGlueRun
  BY DEF WorkInv, Stage, OneGlueRun
<1> QED
  BY <1>1, WorkInvariant, PTL
=============================================================================
