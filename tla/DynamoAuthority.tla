-------------------------- MODULE DynamoAuthority ---------------------------
(***************************************************************************)
(* The metadata authority of ledgerguard_control/aws_authority.py: one     *)
(* DynamoDB table, conditional writes and strongly consistent reads.       *)
(*                                                                         *)
(* A call is a sequence of requests.  Calls of several Lambda invocations  *)
(* interleave between requests; one request is one atomic step of the      *)
(* service.  A write whose response is lost, times out or is refused sends *)
(* the call down its recovery reads, and may still be applied afterwards.  *)
(* An exception, a rejection and the death of the Lambda all end a call    *)
(* without a result and are one action, Raise.                             *)
(***************************************************************************)
EXTENDS Integers, Sequences, FiniteSets

CONSTANTS
  Namespaces, RunIds, Identities, AttemptIds, Owners, Preparations,
  Callers,      \* concurrent Lambda invocations
  MaxFence,     \* largest fence: 2^63 - 1 in _n, small for TLC
  MaxDelayed,   \* bound on writes in flight after their caller gave up
  MaxAncestry,  \* commits _require_reachable reads: 1024 in the code
  None          \* an absent item or attribute

ASSUME DynamoBounds == MaxFence \in Nat /\ MaxDelayed \in Nat /\ MaxAncestry \in Nat

VARIABLES
  registrations, \* RUN#r/REGISTRATION items
  tokens,        \* RUN#r/ATTEMPT#a items
  counters,      \* NAMESPACE#ns/FENCE
  roots,         \* NAMESPACE#ns/ROOT, Genesis when absent
  commits,       \* NAMESPACE#ns/COMMIT#d items
  call,          \* caller -> the call it is in, or None
  delayed,       \* writes abandoned by their caller, not yet decided
  issued,        \* history: Attempt values admit returned
  acknowledged,  \* history: digests register or publish returned
  confirmed      \* history: attempts whose fail returned

table == <<registrations, tokens, counters, roots, commits>>
results == <<issued, acknowledged, confirmed>>
vars == <<table, call, delayed, results>>

Attempt ==
  [namespace : Namespaces, run_id : RunIds, identity : Identities,
   attempt_id : AttemptIds, owner : Owners, fence : 0..MaxFence]

Entry == [attempt : Attempt, preparation : Preparations]
Genesis == <<>>
Digest(t, predecessor, preparation) ==
  Append(predecessor, [attempt |-> t, preparation |-> preparation])

\* The active_attempt, owner and fence attributes, set and removed together.
Ownership == [attempt_id : AttemptIds, owner : Owners, fence : 0..MaxFence]
OwnershipOf(t) == [attempt_id |-> t.attempt_id, owner |-> t.owner, fence |-> t.fence]

RegistrationItem ==
  [namespace : Namespaces, identity : Identities,
   status : {"REGISTERED", "COMMITTED"}, active : Ownership \cup {None},
   commit : Seq(Entry)]

TokenItem == [attempt : Attempt, status : {"ACTIVE", "FAILED", "COMMITTED"}]

Write ==
  [kind : {"admit", "fail"}, attempt : Attempt]
    \cup [kind : {"publish"}, attempt : Attempt, predecessor : Seq(Entry),
          preparation : Preparations]

Call ==
  [at : {"put", "registration", "walk"}, namespace : Namespaces,
   run_id : RunIds, identity : Identities, commit : Seq(Entry)]
    \cup [at : {"probe", "count", "replayToken", "replayRun"}, attempt : Attempt]
    \cup [at : {"transact", "recover", "recoverRun"}, write : Write]

ASSUME NoneAssumption ==
  /\ None \notin RegistrationItem /\ None \notin TokenItem
  /\ None \notin Ownership /\ None \notin Attempt
  /\ None \notin [namespace : Namespaces, identity : Identities]

TypeOK ==
  /\ registrations \in [RunIds -> RegistrationItem \cup {None}]
  /\ tokens \in [RunIds \X AttemptIds -> TokenItem \cup {None}]
  /\ counters \in [Namespaces -> 0..MaxFence]
  /\ roots \in [Namespaces -> Seq(Entry)]
  /\ commits \in SUBSET Seq(Entry)
  /\ call \in [Callers -> Call \cup {None}]
  /\ delayed \in SUBSET Write /\ Cardinality(delayed) <= MaxDelayed
  /\ issued \in SUBSET Attempt
  /\ acknowledged \in SUBSET Seq(Entry)
  /\ confirmed \in SUBSET Attempt

Init ==
  /\ registrations = [r \in RunIds |-> None]
  /\ tokens = [k \in RunIds \X AttemptIds |-> None]
  /\ counters = [ns \in Namespaces |-> 0]
  /\ roots = [ns \in Namespaces |-> Genesis]
  /\ commits = {}
  /\ call = [c \in Callers |-> None]
  /\ delayed = {}
  /\ issued = {} /\ acknowledged = {} /\ confirmed = {}

-----------------------------------------------------------------------------
(* The table's conditional writes, as the service decides them.            *)

\* _registration without its comparison of identities.
RegisteredUnderAny(ns, r, i) == registrations[r] # None /\ registrations[r].namespace = ns

\* _registration: the item exists and is this run's.
Registered(ns, r, i) ==
  /\ registrations[r] # None
  /\ registrations[r].namespace = ns
  /\ registrations[r].identity = i

Token(t) == tokens[<<t.run_id, t.attempt_id>>]

\* The condition on an open run: "active" is the ownership it must carry, None
\* for attribute_not_exists.
OpenRun(t, active) ==
  /\ Registered(t.namespace, t.run_id, t.identity)
  /\ registrations[t.run_id].status = "REGISTERED"
  /\ registrations[t.run_id].active = active

ActiveToken(t) ==
  /\ Token(t) # None
  /\ Token(t).status = "ACTIVE"
  /\ OwnershipOf(Token(t).attempt) = OwnershipOf(t)

SetToken(t, status) ==
  tokens' = [tokens EXCEPT ![<<t.run_id, t.attempt_id>>] = [@ EXCEPT !.status = status]]

SetRun(t, status, active, commit) ==
  registrations' = [registrations EXCEPT ![t.run_id] =
    [@ EXCEPT !.status = status, !.active = active, !.commit = commit]]

\* Admissions that forget the condition on the attempt item, or the one on the
\* run's active_attempt.
AdmitOverToken(t) ==
  /\ OpenRun(t, None)
  /\ tokens' = [tokens EXCEPT ![<<t.run_id, t.attempt_id>>] =
                  [attempt |-> t, status |-> "ACTIVE"]]
  /\ SetRun(t, "REGISTERED", OwnershipOf(t), Genesis)
  /\ UNCHANGED <<counters, roots, commits>>

AdmitOverHolder(t) ==
  /\ Token(t) = None
  /\ Registered(t.namespace, t.run_id, t.identity)
  /\ registrations[t.run_id].status = "REGISTERED"
  /\ tokens' = [tokens EXCEPT ![<<t.run_id, t.attempt_id>>] =
                  [attempt |-> t, status |-> "ACTIVE"]]
  /\ SetRun(t, "REGISTERED", OwnershipOf(t), Genesis)
  /\ UNCHANGED <<counters, roots, commits>>

ApplyAdmit(t) ==
  /\ Token(t) = None
  /\ OpenRun(t, None)
  /\ tokens' = [tokens EXCEPT ![<<t.run_id, t.attempt_id>>] =
                  [attempt |-> t, status |-> "ACTIVE"]]
  /\ SetRun(t, "REGISTERED", OwnershipOf(t), Genesis)
  /\ UNCHANGED <<counters, roots, commits>>

\* A release of the run alone.
FailRunOnly(t) ==
  /\ OpenRun(t, OwnershipOf(t))
  /\ SetRun(t, "REGISTERED", None, Genesis)
  /\ UNCHANGED <<tokens, counters, roots, commits>>

ApplyFail(t) ==
  /\ ActiveToken(t)
  /\ OpenRun(t, OwnershipOf(t))
  /\ SetToken(t, "FAILED")
  /\ SetRun(t, "REGISTERED", None, Genesis)
  /\ UNCHANGED <<counters, roots, commits>>

\* Publications that forget the condition on the root, or those on ownership.
PublishOverRoot(t, predecessor, preparation) ==
  LET d == Digest(t, predecessor, preparation) IN
  /\ d \notin commits
  /\ OpenRun(t, OwnershipOf(t))
  /\ ActiveToken(t)
  /\ roots' = [roots EXCEPT ![t.namespace] = d]
  /\ commits' = commits \cup {d}
  /\ SetRun(t, "COMMITTED", OwnershipOf(t), d)
  /\ SetToken(t, "COMMITTED")
  /\ UNCHANGED counters

PublishUnowned(t, predecessor, preparation) ==
  LET d == Digest(t, predecessor, preparation) IN
  /\ roots[t.namespace] = predecessor
  /\ d \notin commits
  /\ registrations[t.run_id].status = "REGISTERED"
  /\ roots' = [roots EXCEPT ![t.namespace] = d]
  /\ commits' = commits \cup {d}
  /\ SetRun(t, "COMMITTED", OwnershipOf(t), d)
  /\ SetToken(t, "COMMITTED")
  /\ UNCHANGED counters

ApplyPublish(t, predecessor, preparation) ==
  LET d == Digest(t, predecessor, preparation) IN
  /\ roots[t.namespace] = predecessor
  /\ d \notin commits
  /\ OpenRun(t, OwnershipOf(t))
  /\ ActiveToken(t)
  /\ roots' = [roots EXCEPT ![t.namespace] = d]
  /\ commits' = commits \cup {d}
  /\ SetRun(t, "COMMITTED", OwnershipOf(t), d)
  /\ SetToken(t, "COMMITTED")
  /\ UNCHANGED counters

Apply(w) ==
  \/ w.kind = "admit" /\ ApplyAdmit(w.attempt)
  \/ w.kind = "fail" /\ ApplyFail(w.attempt)
  \/ w.kind = "publish" /\ ApplyPublish(w.attempt, w.predecessor, w.preparation)

\* _require_reachable: at most MaxAncestry commits are read from the root.
Reachable(ns, d) ==
  \E n \in 1..Len(roots[ns]) :
    /\ d = SubSeq(roots[ns], 1, n)
    /\ Len(roots[ns]) - n < MaxAncestry
    /\ \A m \in n..Len(roots[ns]) :
         /\ SubSeq(roots[ns], 1, m) \in commits
         /\ roots[ns][m].attempt.namespace = ns

-----------------------------------------------------------------------------
(* Callers.                                                                *)

Idle(c) == call[c] = None
At(c, step) == call[c] # None /\ call[c].at = step
Goto(c, state) == call' = [call EXCEPT ![c] = state]
Step(c, at) == Goto(c, [call[c] EXCEPT !.at = at])
Done(c) == Goto(c, None)

\* Any exception, rejection or termination of the invocation.
Raise(c) ==
  /\ ~Idle(c)
  /\ Done(c)
  /\ UNCHANGED <<table, delayed, results>>

\* A service decision on a write nobody waits for any more.
LateWrite ==
  \E w \in delayed :
    /\ delayed' = delayed \ {w}
    /\ Apply(w) \/ UNCHANGED table
    /\ UNCHANGED <<call, results>>

-----------------------------------------------------------------------------
(* register                                                                *)

Register(c, ns, r, i) ==
  /\ Idle(c)
  /\ Goto(c, [at |-> "put", namespace |-> ns, run_id |-> r, identity |-> i,
              commit |-> Genesis])
  /\ UNCHANGED <<table, delayed, results>>

\* The put creates the item and returns None; when the SDK repeats a put whose
\* response it lost, the item is created and the condition fails all the same.
RegisterPut(c) ==
  /\ At(c, "put")
  /\ IF registrations[call[c].run_id] = None
     THEN /\ registrations' = [registrations EXCEPT ![call[c].run_id] =
               [namespace |-> call[c].namespace, identity |-> call[c].identity,
                status |-> "REGISTERED", active |-> None, commit |-> Genesis]]
          /\ Done(c) \/ Step(c, "registration")
     ELSE Step(c, "registration") /\ UNCHANGED registrations
  /\ UNCHANGED <<tokens, counters, roots, commits, delayed, results>>

RegisterRead(c) ==
  LET item == registrations[call[c].run_id] IN
  /\ At(c, "registration")
  /\ Registered(call[c].namespace, call[c].run_id, call[c].identity)
  /\ IF item.status = "REGISTERED" THEN Done(c)
     ELSE Goto(c, [call[c] EXCEPT !.at = "walk", !.commit = item.commit])
  /\ UNCHANGED <<table, delayed, results>>

RegisterWalk(c) ==
  LET d == call[c].commit IN
  /\ At(c, "walk")
  /\ Reachable(call[c].namespace, d)
  /\ d[Len(d)].attempt.run_id = call[c].run_id
  /\ d[Len(d)].attempt.identity = call[c].identity
  /\ acknowledged' = acknowledged \cup {d}
  /\ Done(c)
  /\ UNCHANGED <<table, delayed, issued, confirmed>>

-----------------------------------------------------------------------------
(* admit                                                                   *)

\* The fence of an attempt that has none yet is 0.
Admit(c, t) ==
  /\ Idle(c)
  /\ t.fence = 0
  /\ Goto(c, [at |-> "probe", attempt |-> t])
  /\ UNCHANGED <<table, delayed, results>>

AdmitProbe(c) ==
  /\ At(c, "probe")
  /\ Step(c, IF Token(call[c].attempt) # None THEN "replayToken" ELSE "count")
  /\ UNCHANGED <<table, delayed, results>>

\* An allocation without the bound of the fence.
CountUnbounded(c) ==
  LET t == call[c].attempt
      next == counters[t.namespace] + 1
  IN /\ At(c, "count")
     /\ counters' = [counters EXCEPT ![t.namespace] = next]
     /\ Goto(c, [at |-> "transact",
                 write |-> [kind |-> "admit", attempt |-> [t EXCEPT !.fence = next]]])
     /\ UNCHANGED <<registrations, tokens, roots, commits, delayed, results>>

\* ADD next_fence: a repeat by the SDK after a lost response adds again.
AdmitCount(c) ==
  LET t == call[c].attempt
      next == counters[t.namespace] + 1
  IN /\ At(c, "count")
     /\ next <= MaxFence
     /\ counters' = [counters EXCEPT ![t.namespace] = next]
     /\ \/ Goto(c, [at |-> "transact",
                    write |-> [kind |-> "admit",
                               attempt |-> [t EXCEPT !.fence = next]]])
        \/ UNCHANGED call
     /\ UNCHANGED <<registrations, tokens, roots, commits, delayed, results>>

\* _replay_attempt reads the attempt, then the run, and returns the fence the
\* stored attempt carries.
ReplayToken(c) ==
  LET t == call[c].attempt IN
  /\ At(c, "replayToken")
  /\ Token(t) # None
  /\ Token(t).attempt = [t EXCEPT !.fence = Token(t).attempt.fence]
  /\ Token(t).status = "ACTIVE"
  /\ Goto(c, [at |-> "replayRun", attempt |-> Token(t).attempt])
  /\ UNCHANGED <<table, delayed, results>>

ReplayRun(c) ==
  LET t == call[c].attempt IN
  /\ At(c, "replayRun")
  /\ OpenRun(t, OwnershipOf(t))
  /\ issued' = issued \cup {t}
  /\ Done(c)
  /\ UNCHANGED <<table, delayed, acknowledged, confirmed>>

-----------------------------------------------------------------------------
(* fail and publish                                                        *)

Fail(c, t) ==
  /\ Idle(c)
  /\ Goto(c, [at |-> "transact", write |-> [kind |-> "fail", attempt |-> t]])
  /\ UNCHANGED <<table, delayed, results>>

Publish(c, t, predecessor, preparation) ==
  /\ Idle(c)
  /\ Goto(c, [at |-> "transact",
              write |-> [kind |-> "publish", attempt |-> t,
                         predecessor |-> predecessor, preparation |-> preparation]])
  /\ UNCHANGED <<table, delayed, results>>

\* What a call returns once its write is known to be applied.
Succeed(w) ==
  /\ issued' = IF w.kind = "admit" THEN issued \cup {w.attempt} ELSE issued
  /\ confirmed' = IF w.kind = "fail" THEN confirmed \cup {w.attempt} ELSE confirmed
  /\ acknowledged' =
       IF w.kind = "publish"
       THEN acknowledged \cup {Digest(w.attempt, w.predecessor, w.preparation)}
       ELSE acknowledged

\* The except branch of each call begins its recovery reads.
Recover(c, w) ==
  IF w.kind = "admit" THEN Goto(c, [at |-> "replayToken", attempt |-> w.attempt])
  ELSE Step(c, "recover")

\* transact_write_items is applied and answered, applied and its answer lost,
\* refused, or left undecided while the caller moves on.
Transact(c) ==
  LET w == call[c].write IN
  /\ At(c, "transact")
  /\ \/ Apply(w) /\ Succeed(w) /\ Done(c) /\ UNCHANGED delayed
     \/ Apply(w) /\ Recover(c, w) /\ UNCHANGED <<delayed, results>>
     \/ Recover(c, w) /\ UNCHANGED <<table, delayed, results>>
     \/ /\ w \notin delayed /\ Cardinality(delayed) < MaxDelayed
        /\ delayed' = delayed \cup {w}
        /\ Recover(c, w) /\ UNCHANGED <<table, results>>

\* fail reads the attempt first, publish walks from the root first; both then
\* read the run.
RecoverFirst(c) ==
  LET w == call[c].write IN
  /\ At(c, "recover")
  /\ IF w.kind = "fail"
     THEN Token(w.attempt) = [attempt |-> w.attempt, status |-> "FAILED"]
     ELSE Reachable(w.attempt.namespace,
                    Digest(w.attempt, w.predecessor, w.preparation))
  /\ Step(c, "recoverRun")
  /\ UNCHANGED <<table, delayed, results>>

RecoverRun(c) ==
  LET w == call[c].write
      run == registrations[w.attempt.run_id]
  IN /\ At(c, "recoverRun")
     /\ Registered(w.attempt.namespace, w.attempt.run_id, w.attempt.identity)
     /\ IF w.kind = "fail"
        THEN run.status = "REGISTERED" /\ run.active = None
        ELSE /\ run.status = "COMMITTED"
             /\ run.commit = Digest(w.attempt, w.predecessor, w.preparation)
     /\ Succeed(w)
     /\ Done(c)
     /\ UNCHANGED <<table, delayed>>

-----------------------------------------------------------------------------
Next ==
  \/ LateWrite
  \/ \E c \in Callers :
       \/ Raise(c)
       \/ \E ns \in Namespaces, r \in RunIds, i \in Identities : Register(c, ns, r, i)
       \/ RegisterPut(c) \/ RegisterRead(c) \/ RegisterWalk(c)
       \/ \E t \in Attempt : Admit(c, t)
       \/ AdmitProbe(c) \/ AdmitCount(c) \/ ReplayToken(c) \/ ReplayRun(c)
       \/ \E t \in issued : Fail(c, t)
       \/ \E t \in issued, predecessor \in {Genesis} \cup commits,
             preparation \in Preparations : Publish(c, t, predecessor, preparation)
       \/ Transact(c) \/ RecoverFirst(c) \/ RecoverRun(c)

Spec == Init /\ [][Next]_vars

-----------------------------------------------------------------------------
(* What the calls promise, however their requests interleave.              *)

TokensOf(r) == {k \in RunIds \X AttemptIds : k[1] = r /\ tokens[k] # None}

\* Admitting again after any mix of lost responses, late writes and racing
\* retries gives a caller the fence that was stored, never the one the retry
\* allocated: no two callers hold one attempt under different fences
\* (admit 151-164, 211-213).
OneFencePerAttempt ==
  \A t, u \in issued :
    /\ <<t.run_id, t.attempt_id>> = <<u.run_id, u.attempt_id>> => t = u
    /\ t.namespace = u.namespace /\ t.fence = u.fence => t = u

\* What fail reported holds for good: a confirmed attempt is FAILED, its run is
\* not its own any more and no commit of the run carries its fence, not even
\* through a publication still in flight (fail 276-300, publish 351-368).
ConfirmedFailureIsFinal ==
  \A t \in confirmed :
    /\ Token(t) = [attempt |-> t, status |-> "FAILED"]
    /\ registrations[t.run_id].active # OwnershipOf(t)
    /\ \A n \in 1..Len(roots[t.namespace]) :
         roots[t.namespace][n].attempt.fence # t.fence

\* What publish or register reported holds for good: the commit lies in the
\* history behind the root and is its run's verdict (354-364, 107-115).
AcknowledgedIsFinal ==
  \A d \in acknowledged :
    LET t == d[Len(d)].attempt IN
    /\ SubSeq(roots[t.namespace], 1, Len(d)) = d
    /\ registrations[t.run_id].status = "COMMITTED"
    /\ registrations[t.run_id].commit = d

\* The run item and the attempt items agree: an attempt is ACTIVE just when its
\* open run carries it, so no interleaving of admissions and releases leaves an
\* ACTIVE attempt nobody can fail or a run nobody owns (165-209, 219-274).
ActiveOwnership ==
  \A r \in RunIds :
    {tokens[k].attempt : k \in {j \in TokensOf(r) : tokens[j].status = "ACTIVE"}}
      = IF \/ registrations[r] = None
           \/ registrations[r].status = "COMMITTED"
           \/ registrations[r].active = None
        THEN {}
        ELSE {tokens[<<r, registrations[r].active.attempt_id>>].attempt}

\* Monotonic fencing, as the execution checkpoint has it ("monotonically
\* increasing fences", docs/part3-stage5-execution-checkpoint.md:369): the
\* attempt that holds an open run has a larger fence than every earlier one.
MonotonicFencing ==
  \A k, j \in RunIds \X AttemptIds :
    /\ k[1] = j[1] /\ tokens[k] # None /\ tokens[j] # None
    /\ tokens[k].status = "ACTIVE"
    => tokens[j].attempt.fence <= tokens[k].attempt.fence

-----------------------------------------------------------------------------
(* The table implements the promises of Authority.                         *)

AbstractRegistration ==
  [r \in RunIds |->
     IF registrations[r] = None THEN None
     ELSE [namespace |-> registrations[r].namespace,
           identity |-> registrations[r].identity]]

AbstractHolder ==
  [r \in RunIds |->
     IF /\ registrations[r] # None
        /\ registrations[r].status = "REGISTERED"
        /\ registrations[r].active # None
     THEN tokens[<<r, registrations[r].active.attempt_id>>].attempt
     ELSE None]

AbstractReleased ==
  {tokens[k].attempt :
     k \in {j \in RunIds \X AttemptIds :
              tokens[j] # None /\ tokens[j].status = "FAILED"}}

Promise == INSTANCE Authority WITH
  Fences <- 1..MaxFence,
  registration <- AbstractRegistration,
  holder <- AbstractHolder,
  released <- AbstractReleased,
  history <- roots

\* Seen from outside, the adapter's many requests are the single steps of
\* Authority: every interleaving of calls, lost answers and late writes looks
\* like calls that took effect one at a time (aws_authority.py 86-368).
KeepsPromise == Promise!Spec
=============================================================================
