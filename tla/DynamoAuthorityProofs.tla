----------------------- MODULE DynamoAuthorityProofs ------------------------
(***************************************************************************)
(* Proofs about DynamoAuthority for every value of its constants.          *)
(***************************************************************************)
EXTENDS DynamoAuthority, SequenceTheorems, FiniteSetTheorems, TLAPS

-----------------------------------------------------------------------------
(* Types.                                                                  *)

\* The three shapes of a call.
RegisterCall ==
  [at : {"put", "registration", "walk"}, namespace : Namespaces,
   run_id : RunIds, identity : Identities, commit : Seq(Entry)]
AdmitCall == [at : {"probe", "count", "replayToken", "replayRun"}, attempt : Attempt]
WriteCall == [at : {"transact", "recover", "recoverRun"}, write : Write]

\* The step a call is at tells its shape.
LEMMA CallShape ==
  ASSUME TypeOK, NEW c \in Callers, call[c] # None
  PROVE  /\ call[c].at \in {"put", "registration", "walk"} => call[c] \in RegisterCall
         /\ call[c].at \in {"probe", "count", "replayToken", "replayRun"} =>
              call[c] \in AdmitCall
         /\ call[c].at \in {"transact", "recover", "recoverRun"} => call[c] \in WriteCall
<1>1. call[c] \in RegisterCall \cup AdmitCall \cup WriteCall
  BY DEF TypeOK, Call, RegisterCall, AdmitCall, WriteCall
<1>2. CASE call[c] \in RegisterCall
  BY <1>2 DEF RegisterCall
<1>3. CASE call[c] \in AdmitCall
  BY <1>3 DEF AdmitCall
<1>4. CASE call[c] \in WriteCall
  BY <1>4 DEF WriteCall
<1> QED
  BY <1>1, <1>2, <1>3, <1>4

\* A call that moves on stays a call.
LEMMA GotoType ==
  ASSUME TypeOK, NEW c \in Callers,
         NEW s \in RegisterCall \cup AdmitCall \cup WriteCall \cup {None}, Goto(c, s)
  PROVE  call' \in [Callers -> Call \cup {None}]
BY DEF TypeOK, Goto, Call, RegisterCall, AdmitCall, WriteCall

\* A call whose step alone changes keeps its shape.
LEMMA StepType ==
  ASSUME TypeOK, NEW c \in Callers, NEW s, Step(c, s), call[c] # None,
         \/ call[c] \in RegisterCall /\ s \in {"put", "registration", "walk"}
         \/ call[c] \in AdmitCall /\ s \in {"probe", "count", "replayToken", "replayRun"}
         \/ call[c] \in WriteCall /\ s \in {"transact", "recover", "recoverRun"}
  PROVE  call' \in [Callers -> Call \cup {None}]
<1> DEFINE next == [call[c] EXCEPT !.at = s]
<1>1. next \in RegisterCall \cup AdmitCall \cup WriteCall
  BY DEF RegisterCall, AdmitCall, WriteCall
<1> HIDE DEF next
<1> QED
  BY <1>1, GotoType DEF Step, next

\* The fields of a write.
LEMMA WriteShape ==
  ASSUME NEW w \in Write
  PROVE  /\ w.kind \in {"admit", "fail", "publish"}
         /\ w.attempt \in Attempt
         /\ w.kind = "publish" =>
              w.predecessor \in Seq(Entry) /\ w.preparation \in Preparations
BY DEF Write

\* A new digest is a history of entries.
LEMMA DigestType ==
  ASSUME NEW t \in Attempt, NEW predecessor \in Seq(Entry),
         NEW preparation \in Preparations
  PROVE  Digest(t, predecessor, preparation) \in Seq(Entry)
<1>1. [attempt |-> t, preparation |-> preparation] \in Entry
  BY DEF Entry
<1> QED
  BY <1>1 DEF Digest

\* The items a conditional write may leave in the table are well typed.
LEMMA SetRunType ==
  ASSUME TypeOK, NEW t \in Attempt, registrations[t.run_id] # None,
         NEW status \in {"REGISTERED", "COMMITTED"},
         NEW active \in Ownership \cup {None}, NEW d \in Seq(Entry),
         SetRun(t, status, active, d)
  PROVE  registrations' \in [RunIds -> RegistrationItem \cup {None}]
<1>1. t.run_id \in RunIds
  BY DEF Attempt
<1>2. registrations[t.run_id] \in RegistrationItem
  BY <1>1 DEF TypeOK
<1>3. [registrations[t.run_id] EXCEPT !.status = status, !.active = active, !.commit = d]
        \in RegistrationItem
  BY <1>2 DEF RegistrationItem
<1> QED
  BY <1>1, <1>3 DEF TypeOK, SetRun

\* An attempt item whose status is set is an attempt item.
LEMMA SetTokenType ==
  ASSUME TypeOK, NEW t \in Attempt, Token(t) # None,
         NEW status \in {"ACTIVE", "FAILED", "COMMITTED"}, SetToken(t, status)
  PROVE  tokens' \in [RunIds \X AttemptIds -> TokenItem \cup {None}]
<1>1. <<t.run_id, t.attempt_id>> \in RunIds \X AttemptIds
  BY DEF Attempt
<1>2. Token(t) \in TokenItem
  BY <1>1 DEF TypeOK, Token
<1>3. [Token(t) EXCEPT !.status = status] \in TokenItem
  BY <1>2 DEF TokenItem
<1> QED
  BY <1>1, <1>3 DEF TypeOK, SetToken, Token

\* The ownership of an attempt is never the absent one.
LEMMA OwnershipType ==
  ASSUME NEW t \in Attempt
  PROVE  OwnershipOf(t) \in Ownership /\ OwnershipOf(t) # None
BY NoneAssumption DEF Attempt, OwnershipOf, Ownership

\* Whatever write the service applies, the table stays well typed.
LEMMA ApplyType ==
  ASSUME TypeOK, NEW w \in Write, Apply(w)
  PROVE  /\ registrations' \in [RunIds -> RegistrationItem \cup {None}]
         /\ tokens' \in [RunIds \X AttemptIds -> TokenItem \cup {None}]
         /\ counters' \in [Namespaces -> 0..MaxFence]
         /\ roots' \in [Namespaces -> Seq(Entry)]
         /\ commits' \in SUBSET Seq(Entry)
<1> DEFINE t == w.attempt
<1>1. t \in Attempt
  BY WriteShape
<1>2. Genesis \in Seq(Entry)
  BY EmptySeq DEF Genesis
<1>3. OwnershipOf(t) \in Ownership
  BY <1>1, OwnershipType
<1> HIDE DEF t
<1>4. CASE ApplyAdmit(t)
  <2>1. registrations' \in [RunIds -> RegistrationItem \cup {None}]
    BY <1>1, <1>2, <1>3, <1>4, SetRunType DEF ApplyAdmit, OpenRun, Registered
  <2>2. <<t.run_id, t.attempt_id>> \in RunIds \X AttemptIds
    BY <1>1 DEF Attempt
  <2>3. [attempt |-> t, status |-> "ACTIVE"] \in TokenItem
    BY <1>1 DEF TokenItem
  <2> QED
    BY <1>4, <2>1, <2>2, <2>3 DEF ApplyAdmit, TypeOK
<1>5. CASE ApplyFail(t)
  <2>1. registrations' \in [RunIds -> RegistrationItem \cup {None}]
    BY <1>1, <1>2, <1>5, SetRunType DEF ApplyFail, OpenRun, Registered
  <2>2. tokens' \in [RunIds \X AttemptIds -> TokenItem \cup {None}]
    BY <1>1, <1>5, SetTokenType DEF ApplyFail, ActiveToken
  <2> QED
    BY <1>5, <2>1, <2>2 DEF ApplyFail, TypeOK
<1>6. CASE w.kind = "publish" /\ ApplyPublish(t, w.predecessor, w.preparation)
  <2> DEFINE d == Digest(t, w.predecessor, w.preparation)
  <2>1. d \in Seq(Entry)
    BY <1>1, <1>6, WriteShape, DigestType
  <2> HIDE DEF d
  <2>2. registrations' \in [RunIds -> RegistrationItem \cup {None}]
    BY <1>1, <1>3, <1>6, <2>1, SetRunType DEF ApplyPublish, OpenRun, Registered, d
  <2>3. tokens' \in [RunIds \X AttemptIds -> TokenItem \cup {None}]
    BY <1>1, <1>6, SetTokenType DEF ApplyPublish, ActiveToken
  <2>4. roots' \in [Namespaces -> Seq(Entry)] /\ commits' \in SUBSET Seq(Entry)
    BY <1>6, <2>1 DEF ApplyPublish, TypeOK, d
  <2> QED
    BY <1>6, <2>2, <2>3, <2>4 DEF ApplyPublish, TypeOK
<1> QED
  BY <1>4, <1>5, <1>6 DEF Apply, t

\* What a successful call reports is well typed.
LEMMA SucceedType ==
  ASSUME TypeOK, NEW w \in Write, Succeed(w)
  PROVE  /\ issued' \in SUBSET Attempt /\ confirmed' \in SUBSET Attempt
         /\ acknowledged' \in SUBSET Seq(Entry)
<1>1. w.attempt \in Attempt
  BY WriteShape
<1>2. w.kind = "publish" => Digest(w.attempt, w.predecessor, w.preparation) \in Seq(Entry)
  BY WriteShape, DigestType
<1> QED
  BY <1>1, <1>2 DEF Succeed, TypeOK

\* The recovery reads of a call keep its shape.
LEMMA RecoverType ==
  ASSUME TypeOK, NEW c \in Callers, At(c, "transact"), Recover(c, call[c].write)
  PROVE  call' \in [Callers -> Call \cup {None}]
<1>1. call[c] \in WriteCall /\ call[c].write \in Write
  BY CallShape DEF At, WriteCall
<1>2. CASE call[c].write.kind = "admit"
  <2>1. [at |-> "replayToken", attempt |-> call[c].write.attempt] \in AdmitCall
    BY <1>1, WriteShape DEF AdmitCall
  <2> QED
    BY <1>2, <2>1, GotoType DEF Recover
<1>3. CASE call[c].write.kind # "admit"
  BY <1>1, <1>3, StepType DEF Recover, At
<1> QED
  BY <1>2, <1>3

\* The type invariant, with the finiteness of what is in flight.
TypeInv == TypeOK /\ IsFiniteSet(delayed)

\* A request that changes nothing but the caller's own state.
LEMMA CallOnly ==
  ASSUME TypeInv, UNCHANGED <<table, delayed, results>>,
         call' \in [Callers -> Call \cup {None}]
  PROVE  TypeInv'
BY DEF TypeInv, TypeOK, table, results

\* The types hold in the empty table.
LEMMA TypeInit == Init => TypeInv
<1> SUFFICES ASSUME Init PROVE TypeInv
  OBVIOUS
<1>1. IsFiniteSet({}) /\ Cardinality({}) = 0
  BY FS_EmptySet
<1>2. Genesis \in Seq(Entry)
  BY EmptySeq DEF Genesis
<1> QED
  BY <1>1, <1>2, DynamoBounds DEF Init, TypeInv, TypeOK

\* Every request keeps the types.
LEMMA LateWriteType == TypeInv /\ LateWrite => TypeInv'
<1> SUFFICES ASSUME TypeInv, LateWrite PROVE TypeInv'
  OBVIOUS
<1>1. PICK w \in delayed :
        /\ delayed' = delayed \ {w}
        /\ Apply(w) \/ UNCHANGED table
        /\ UNCHANGED <<call, results>>
  BY DEF LateWrite
<1>2. w \in Write /\ TypeOK /\ IsFiniteSet(delayed)
  BY DEF TypeInv, TypeOK
<1>3. /\ IsFiniteSet(delayed') /\ Cardinality(delayed') <= MaxDelayed
      /\ delayed' \in SUBSET Write
  <2>1. /\ IsFiniteSet(delayed \ {w})
        /\ Cardinality(delayed \ {w}) = Cardinality(delayed) - 1
    BY <1>2, FS_RemoveElement
  <2>2. Cardinality(delayed) \in Nat /\ Cardinality(delayed) <= MaxDelayed
    BY <1>2, FS_CardinalityType DEF TypeOK
  <2> QED
    BY <1>1, <1>2, <2>1, <2>2, DynamoBounds DEF TypeOK
<1>4. /\ registrations' \in [RunIds -> RegistrationItem \cup {None}]
      /\ tokens' \in [RunIds \X AttemptIds -> TokenItem \cup {None}]
      /\ counters' \in [Namespaces -> 0..MaxFence]
      /\ roots' \in [Namespaces -> Seq(Entry)]
      /\ commits' \in SUBSET Seq(Entry)
  <2>1. CASE Apply(w)
    BY <1>2, <2>1, ApplyType
  <2>2. CASE UNCHANGED table
    BY <1>2, <2>2 DEF table, TypeOK
  <2> QED
    BY <1>1, <2>1, <2>2
<1> QED
  BY <1>1, <1>2, <1>3, <1>4 DEF TypeInv, TypeOK, results

\* The first request of register starts from a well-typed call.
LEMMA RegisterType ==
  ASSUME TypeInv, NEW c \in Callers,
         NEW ns \in Namespaces, NEW r \in RunIds, NEW i \in Identities,
         Register(c, ns, r, i)
  PROVE  TypeInv'
<1> DEFINE s == [at |-> "put", namespace |-> ns, run_id |-> r, identity |-> i,
                 commit |-> Genesis]
<1>1. Genesis \in Seq(Entry)
  BY EmptySeq DEF Genesis
<1>2. s \in RegisterCall
  BY <1>1 DEF RegisterCall
<1> HIDE DEF s
<1>3. call' \in [Callers -> Call \cup {None}]
  BY <1>2, GotoType DEF Register, TypeInv, s
<1> QED
  BY <1>3, CallOnly DEF Register

\* The put of register.
LEMMA RegisterPutType ==
  ASSUME TypeInv, NEW c \in Callers, RegisterPut(c)
  PROVE  TypeInv'
<1>1. call[c] \in RegisterCall /\ call[c] # None /\ TypeOK
  BY CallShape DEF RegisterPut, At, TypeInv
<1>2. call' \in [Callers -> Call \cup {None}]
  <2>1. CASE Done(c)
    BY <1>1, <2>1, GotoType DEF Done
  <2>2. CASE Step(c, "registration")
    BY <1>1, <2>2, StepType
  <2> QED
    BY <2>1, <2>2 DEF RegisterPut
<1>3. registrations' \in [RunIds -> RegistrationItem \cup {None}]
  <2>1. Genesis \in Seq(Entry)
    BY EmptySeq DEF Genesis
  <2>2. [namespace |-> call[c].namespace, identity |-> call[c].identity,
         status |-> "REGISTERED", active |-> None, commit |-> Genesis] \in RegistrationItem
    BY <1>1, <2>1 DEF RegisterCall, RegistrationItem
  <2> QED
    BY <1>1, <2>2 DEF RegisterPut, TypeOK
<1> QED
  BY <1>1, <1>2, <1>3 DEF RegisterPut, TypeInv, TypeOK, results

\* The read of register.
LEMMA RegisterReadType ==
  ASSUME TypeInv, NEW c \in Callers, RegisterRead(c)
  PROVE  TypeInv'
<1> DEFINE item == registrations[call[c].run_id]
           s == [call[c] EXCEPT !.at = "walk", !.commit = item.commit]
<1>1. call[c] \in RegisterCall /\ call[c] # None /\ TypeOK
  BY CallShape DEF RegisterRead, At, TypeInv
<1>2. item \in RegistrationItem
  BY <1>1 DEF RegisterRead, Registered, RegisterCall, TypeOK
<1>3. s \in RegisterCall
  BY <1>1, <1>2 DEF RegisterCall, RegistrationItem
<1>4. Done(c) \/ Goto(c, s)
  BY DEF RegisterRead
<1> HIDE DEF item, s
<1>5. call' \in [Callers -> Call \cup {None}]
  BY <1>1, <1>3, <1>4, GotoType DEF Done
<1> QED
  BY <1>5, CallOnly DEF RegisterRead

\* The walk of register from the root.
LEMMA RegisterWalkType ==
  ASSUME TypeInv, NEW c \in Callers, RegisterWalk(c)
  PROVE  TypeInv'
<1>1. call[c] \in RegisterCall /\ TypeOK
  BY CallShape DEF RegisterWalk, At, TypeInv
<1>2. call' \in [Callers -> Call \cup {None}]
  BY <1>1, GotoType DEF RegisterWalk, Done
<1>3. acknowledged' \in SUBSET Seq(Entry)
  BY <1>1 DEF RegisterWalk, RegisterCall, TypeOK
<1> QED
  BY <1>1, <1>2, <1>3 DEF RegisterWalk, TypeInv, TypeOK, table

\* The start of admit.
LEMMA AdmitType ==
  ASSUME TypeInv, NEW c \in Callers, NEW t \in Attempt, Admit(c, t)
  PROVE  TypeInv'
<1>1. [at |-> "probe", attempt |-> t] \in AdmitCall
  BY DEF AdmitCall
<1>2. call' \in [Callers -> Call \cup {None}]
  BY <1>1, GotoType DEF Admit, TypeInv
<1> QED
  BY <1>2, CallOnly DEF Admit

\* The probe of admit.
LEMMA AdmitProbeType ==
  ASSUME TypeInv, NEW c \in Callers, AdmitProbe(c)
  PROVE  TypeInv'
<1>1. call[c] \in AdmitCall /\ call[c] # None /\ TypeOK
  BY CallShape DEF AdmitProbe, At, TypeInv
<1>2. Step(c, "replayToken") \/ Step(c, "count")
  BY DEF AdmitProbe
<1>3. call' \in [Callers -> Call \cup {None}]
  BY <1>1, <1>2, StepType
<1> QED
  BY <1>3, CallOnly DEF AdmitProbe

\* The allocation of a fence: it stays within its bound.
LEMMA AdmitCountType ==
  ASSUME TypeInv, NEW c \in Callers, AdmitCount(c)
  PROVE  TypeInv'
<1> DEFINE t == call[c].attempt
           next == counters[t.namespace] + 1
           s == [at |-> "transact",
                 write |-> [kind |-> "admit", attempt |-> [t EXCEPT !.fence = next]]]
<1>1. call[c] \in AdmitCall /\ TypeOK
  BY CallShape DEF AdmitCount, At, TypeInv
<1>2. t \in Attempt /\ t.namespace \in Namespaces
  BY <1>1 DEF AdmitCall, Attempt
<1>3. next \in 0..MaxFence
  BY <1>1, <1>2, DynamoBounds DEF AdmitCount, TypeOK
<1>4. [t EXCEPT !.fence = next] \in Attempt
  BY <1>2, <1>3 DEF Attempt
<1>5. s \in WriteCall
  BY <1>4 DEF WriteCall, Write
<1>6. Goto(c, s) \/ UNCHANGED call
  BY DEF AdmitCount
<1>7. counters' = [counters EXCEPT ![t.namespace] = next]
  BY DEF AdmitCount
<1> HIDE DEF s, next, t
<1>8. call' \in [Callers -> Call \cup {None}]
  BY <1>1, <1>5, <1>6, GotoType DEF TypeOK
<1>9. counters' \in [Namespaces -> 0..MaxFence]
  BY <1>1, <1>3, <1>7 DEF TypeOK
<1> QED
  BY <1>1, <1>8, <1>9 DEF AdmitCount, TypeInv, TypeOK, results

\* The read of the attempt item by a repeated admission.
LEMMA ReplayTokenType ==
  ASSUME TypeInv, NEW c \in Callers, ReplayToken(c)
  PROVE  TypeInv'
<1> DEFINE t == call[c].attempt
<1>1. call[c] \in AdmitCall /\ TypeOK
  BY CallShape DEF ReplayToken, At, TypeInv
<1>2. <<t.run_id, t.attempt_id>> \in RunIds \X AttemptIds
  BY <1>1 DEF AdmitCall, Attempt
<1>3. Token(t).attempt \in Attempt
  BY <1>1, <1>2 DEF ReplayToken, TypeOK, Token, TokenItem
<1>4. [at |-> "replayRun", attempt |-> Token(t).attempt] \in AdmitCall
  BY <1>3 DEF AdmitCall
<1>5. call' \in [Callers -> Call \cup {None}]
  BY <1>1, <1>4, GotoType DEF ReplayToken
<1> QED
  BY <1>5, CallOnly DEF ReplayToken

\* The read of the run item by a repeated admission.
LEMMA ReplayRunType ==
  ASSUME TypeInv, NEW c \in Callers, ReplayRun(c)
  PROVE  TypeInv'
<1>1. call[c] \in AdmitCall /\ TypeOK
  BY CallShape DEF ReplayRun, At, TypeInv
<1>2. call' \in [Callers -> Call \cup {None}]
  BY <1>1, GotoType DEF ReplayRun, Done
<1>3. issued' \in SUBSET Attempt
  BY <1>1 DEF ReplayRun, AdmitCall, TypeOK
<1> QED
  BY <1>1, <1>2, <1>3 DEF ReplayRun, TypeInv, TypeOK, table

\* The start of fail.
LEMMA FailType ==
  ASSUME TypeInv, NEW c \in Callers, NEW t \in issued, Fail(c, t)
  PROVE  TypeInv'
<1>1. [at |-> "transact", write |-> [kind |-> "fail", attempt |-> t]] \in WriteCall
  BY DEF TypeInv, TypeOK, WriteCall, Write
<1>2. call' \in [Callers -> Call \cup {None}]
  BY <1>1, GotoType DEF Fail, TypeInv
<1> QED
  BY <1>2, CallOnly DEF Fail

\* The start of publish.
LEMMA PublishType ==
  ASSUME TypeInv, NEW c \in Callers, NEW t \in issued,
         NEW predecessor \in {Genesis} \cup commits, NEW preparation \in Preparations,
         Publish(c, t, predecessor, preparation)
  PROVE  TypeInv'
<1> DEFINE w == [kind |-> "publish", attempt |-> t, predecessor |-> predecessor,
                 preparation |-> preparation]
<1>1. t \in Attempt /\ predecessor \in Seq(Entry) /\ TypeOK
  BY EmptySeq DEF Genesis, TypeInv, TypeOK
<1>2. w \in Write
  BY <1>1 DEF Write
<1>3. Goto(c, [at |-> "transact", write |-> w])
  BY DEF Publish
<1> HIDE DEF w
<1>4. [at |-> "transact", write |-> w] \in WriteCall
  BY <1>2 DEF WriteCall
<1>5. call' \in [Callers -> Call \cup {None}]
  BY <1>1, <1>3, <1>4, GotoType
<1> QED
  BY <1>5, CallOnly DEF Publish

\* A transaction, whatever its outcome.
LEMMA TransactType ==
  ASSUME TypeInv, NEW c \in Callers, Transact(c)
  PROVE  TypeInv'
<1> DEFINE w == call[c].write
<1>1. call[c] \in WriteCall /\ w \in Write /\ TypeOK /\ At(c, "transact")
  BY CallShape DEF Transact, At, TypeInv, WriteCall
<1>2. call' \in [Callers -> Call \cup {None}]
  <2>1. CASE Done(c)
    BY <1>1, <2>1, GotoType DEF Done
  <2>2. CASE Recover(c, w)
    BY <1>1, <2>2, RecoverType
  <2> QED
    BY <2>1, <2>2 DEF Transact
<1>3. /\ registrations' \in [RunIds -> RegistrationItem \cup {None}]
      /\ tokens' \in [RunIds \X AttemptIds -> TokenItem \cup {None}]
      /\ counters' \in [Namespaces -> 0..MaxFence]
      /\ roots' \in [Namespaces -> Seq(Entry)]
      /\ commits' \in SUBSET Seq(Entry)
  <2>1. CASE Apply(w)
    BY <1>1, <2>1, ApplyType
  <2>2. CASE UNCHANGED table
    BY <1>1, <2>2 DEF table, TypeOK
  <2> QED
    BY <2>1, <2>2 DEF Transact
<1>4. /\ issued' \in SUBSET Attempt /\ confirmed' \in SUBSET Attempt
      /\ acknowledged' \in SUBSET Seq(Entry)
  <2>1. CASE Succeed(w)
    BY <1>1, <2>1, SucceedType
  <2>2. CASE UNCHANGED results
    BY <1>1, <2>2 DEF results, TypeOK
  <2> QED
    BY <2>1, <2>2 DEF Transact
<1>5. /\ IsFiniteSet(delayed') /\ Cardinality(delayed') <= MaxDelayed
      /\ delayed' \in SUBSET Write
  <2>1. CASE delayed' = delayed
    BY <2>1 DEF TypeInv, TypeOK
  <2>2. CASE w \notin delayed /\ Cardinality(delayed) < MaxDelayed /\ delayed' = delayed \cup {w}
    <3>1. IsFiniteSet(delayed) /\ Cardinality(delayed) \in Nat
      BY FS_CardinalityType DEF TypeInv
    <3>2. IsFiniteSet(delayed \cup {w}) /\ Cardinality(delayed \cup {w}) = Cardinality(delayed) + 1
      BY <2>2, <3>1, FS_AddElement
    <3> HIDE DEF w
    <3> QED
      BY <1>1, <2>2, <3>1, <3>2, DynamoBounds DEF TypeOK
  <2> QED
    BY <2>1, <2>2 DEF Transact
<1> QED
  BY <1>2, <1>3, <1>4, <1>5 DEF TypeInv, TypeOK

\* The first recovery read.
LEMMA RecoverFirstType ==
  ASSUME TypeInv, NEW c \in Callers, RecoverFirst(c)
  PROVE  TypeInv'
<1>1. call[c] \in WriteCall /\ call[c] # None /\ TypeOK
  BY CallShape DEF RecoverFirst, At, TypeInv
<1>2. call' \in [Callers -> Call \cup {None}]
  BY <1>1, StepType DEF RecoverFirst
<1> QED
  BY <1>2, CallOnly DEF RecoverFirst

\* The second recovery read.
LEMMA RecoverRunType ==
  ASSUME TypeInv, NEW c \in Callers, RecoverRun(c)
  PROVE  TypeInv'
<1>1. call[c] \in WriteCall /\ call[c].write \in Write /\ TypeOK
  BY CallShape DEF RecoverRun, At, TypeInv, WriteCall
<1>2. call' \in [Callers -> Call \cup {None}]
  BY <1>1, GotoType DEF RecoverRun, Done
<1>3. /\ issued' \in SUBSET Attempt /\ confirmed' \in SUBSET Attempt
      /\ acknowledged' \in SUBSET Seq(Entry)
  BY <1>1, SucceedType DEF RecoverRun
<1> QED
  BY <1>2, <1>3 DEF RecoverRun, TypeInv, TypeOK, table

\* Every request keeps the types.
LEMMA TypeStep == TypeInv /\ [Next]_vars => TypeInv'
<1> SUFFICES ASSUME TypeInv, [Next]_vars PROVE TypeInv'
  OBVIOUS
<1>1. CASE UNCHANGED vars
  BY <1>1 DEF vars, table, results, TypeInv, TypeOK
<1>2. ASSUME NEW c \in Callers, Raise(c)
      PROVE  TypeInv'
  <2>1. call' \in [Callers -> Call \cup {None}]
    BY <1>2, GotoType DEF Raise, Done, TypeInv
  <2> QED
    BY <1>2, <2>1, CallOnly DEF Raise
<1> QED
  BY <1>1, <1>2, LateWriteType, RegisterType, RegisterPutType, RegisterReadType,
     RegisterWalkType, AdmitType, AdmitProbeType, AdmitCountType, ReplayTokenType,
     ReplayRunType, FailType, PublishType, TransactType, RecoverFirstType,
     RecoverRunType
  DEF Next

\* The types hold in every reachable state.
LEMMA TypeInvariant == Spec => []TypeInv
BY TypeInit, TypeStep, PTL DEF Spec

\* Every reachable state is well typed: the requests of a call only ever act on
\* what the service or the caller can hold, and no fence exceeds its bound
\* (aws_authority.py 86-368).
THEOREM TypeCorrect == Spec => []TypeOK
<1>1. TypeInv => TypeOK
  BY DEF TypeInv
<1> QED
  BY <1>1, TypeInvariant, PTL

-----------------------------------------------------------------------------
(* What one request does to the table.                                     *)

Keys == RunIds \X AttemptIds
KeyOf(t) == <<t.run_id, t.attempt_id>>

SameFence(t, u) == t.namespace = u.namespace /\ t.fence = u.fence

\* A fence that was allocated and is stored nowhere yet.
Fresh(t) ==
  /\ t.fence \in 1..counters[t.namespace]
  /\ \A k \in Keys : tokens[k] # None => ~ SameFence(tokens[k].attempt, t)

\* The first request of register creates the item of r.
NewRun(r) ==
  /\ registrations[r] = None
  /\ registrations'[r] # None
  /\ registrations'[r].status = "REGISTERED" /\ registrations'[r].active = None
  /\ \A q \in RunIds : q # r => registrations'[q] = registrations[q]
  /\ UNCHANGED <<tokens, counters, roots, commits>>

\* An allocation takes the next fence of ns.
Counted(ns) ==
  /\ counters' = [counters EXCEPT ![ns] = @ + 1]
  /\ UNCHANGED <<registrations, tokens, roots, commits>>

\* The item of the attempt t and the item of its run, and no other, are new:
\* the attempt has the given status and the run carries the given owner.
Moved(t, status, run, active) ==
  /\ tokens' = [tokens EXCEPT ![KeyOf(t)] = [attempt |-> t, status |-> status]]
  /\ \A q \in RunIds : q # t.run_id => registrations'[q] = registrations[q]
  /\ registrations'[t.run_id] # None
  /\ registrations'[t.run_id].namespace = t.namespace
  /\ registrations'[t.run_id].identity = t.identity
  /\ registrations'[t.run_id].status = run
  /\ registrations'[t.run_id].active = active

\* Every attempt names an attempt item and a namespace.
LEMMA AttemptFields ==
  ASSUME NEW t \in Attempt
  PROVE  /\ t.run_id \in RunIds /\ t.attempt_id \in AttemptIds
         /\ t.namespace \in Namespaces /\ t.fence \in Nat
         /\ KeyOf(t) \in Keys
BY DynamoBounds DEF Attempt, Keys, KeyOf

\* What the types say of the items of the table.
LEMMA Items ==
  ASSUME TypeOK
  PROVE  /\ DOMAIN registrations = RunIds /\ DOMAIN tokens = Keys
         /\ \A r \in RunIds : registrations[r] # None => registrations[r] \in RegistrationItem
         /\ \A k \in Keys : tokens[k] # None =>
              /\ tokens[k] \in TokenItem
              /\ tokens[k].attempt \in Attempt
              /\ tokens[k].status \in {"ACTIVE", "FAILED", "COMMITTED"}
              /\ tokens[k] = [attempt |-> tokens[k].attempt, status |-> tokens[k].status]
         /\ \A ns \in Namespaces : roots[ns] \in Seq(Entry) /\ counters[ns] \in Nat
<1>1. \A item \in TokenItem :
        /\ item.attempt \in Attempt
        /\ item.status \in {"ACTIVE", "FAILED", "COMMITTED"}
        /\ item = [attempt |-> item.attempt, status |-> item.status]
  BY DEF TokenItem
<1> QED
  BY <1>1, DynamoBounds DEF TypeOK, Keys

\* What SetRun leaves of a run.
LEMMA SetRunEffect ==
  ASSUME TypeOK, NEW t \in Attempt, NEW active, OpenRun(t, active),
         NEW status, NEW holder, NEW d, SetRun(t, status, holder, d),
         status \in {"REGISTERED", "COMMITTED"}, holder \in Ownership \cup {None},
         d \in Seq(Entry)
  PROVE  /\ \A q \in RunIds : q # t.run_id => registrations'[q] = registrations[q]
         /\ registrations'[t.run_id] # None
         /\ registrations'[t.run_id].namespace = t.namespace
         /\ registrations'[t.run_id].identity = t.identity
         /\ registrations'[t.run_id].status = status
         /\ registrations'[t.run_id].active = holder
         /\ registrations'[t.run_id].commit = d
<1> DEFINE item == registrations[t.run_id]
           new == [item EXCEPT !.status = status, !.active = holder, !.commit = d]
<1>1. t.run_id \in RunIds
  BY AttemptFields
<1>2. /\ item \in RegistrationItem
      /\ item.namespace = t.namespace /\ item.identity = t.identity
  BY <1>1, Items DEF OpenRun, Registered
<1>3. /\ new \in RegistrationItem
      /\ new.namespace = item.namespace /\ new.identity = item.identity
      /\ new.status = status /\ new.active = holder /\ new.commit = d
  BY <1>2 DEF RegistrationItem
<1>4. new # None
  BY <1>3, NoneAssumption
<1>5. registrations' = [registrations EXCEPT ![t.run_id] = new]
  BY DEF SetRun
<1> HIDE DEF item, new
<1>6. /\ registrations'[t.run_id] = new
      /\ \A q \in RunIds : q # t.run_id => registrations'[q] = registrations[q]
  BY <1>1, <1>5, Items
<1> QED
  BY <1>2, <1>3, <1>4, <1>6

\* An admission stores the attempt and gives it the run.
LEMMA AdmitEffect ==
  ASSUME TypeOK, NEW t \in Attempt, ApplyAdmit(t)
  PROVE  /\ OpenRun(t, None) /\ tokens[KeyOf(t)] = None
         /\ Moved(t, "ACTIVE", "REGISTERED", OwnershipOf(t))
         /\ UNCHANGED <<counters, roots, commits>>
<1>1. OpenRun(t, None) /\ SetRun(t, "REGISTERED", OwnershipOf(t), Genesis)
  BY DEF ApplyAdmit
<1>2. Genesis \in Seq(Entry) /\ OwnershipOf(t) \in Ownership
  BY EmptySeq, OwnershipType DEF Genesis
<1>3. /\ \A q \in RunIds : q # t.run_id => registrations'[q] = registrations[q]
      /\ registrations'[t.run_id] # None
      /\ registrations'[t.run_id].namespace = t.namespace
      /\ registrations'[t.run_id].identity = t.identity
      /\ registrations'[t.run_id].status = "REGISTERED"
      /\ registrations'[t.run_id].active = OwnershipOf(t)
  BY <1>1, <1>2, SetRunEffect
<1> QED
  BY <1>1, <1>3 DEF ApplyAdmit, Moved, KeyOf, Token

\* What the run items and the attempt items say of each other at every moment:
\* an attempt item is stored under its own name and for its registered run,
\* with an allocated fence; an ACTIVE one is the one its open run carries, a
\* COMMITTED one the one its committed run carries, and what a run carries is
\* such an item.
Kept(r, a) ==
  LET u == tokens[<<r, a>>].attempt
      status == tokens[<<r, a>>].status
  IN
  /\ u.run_id = r /\ u.attempt_id = a
  /\ u.fence \in 1..counters[u.namespace]
  /\ Registered(u.namespace, r, u.identity)
  /\ status = "ACTIVE" =>
       /\ registrations[r].status = "REGISTERED"
       /\ registrations[r].active = OwnershipOf(u)
  /\ status = "COMMITTED" =>
       /\ registrations[r].status = "COMMITTED"
       /\ registrations[r].active = OwnershipOf(u)

Carries(r) ==
  LET run == registrations[r]
      held == tokens[<<r, run.active.attempt_id>>]
  IN
  /\ run.status = "COMMITTED" => run.active # None
  /\ run.active # None =>
       /\ held # None
       /\ held.status # "FAILED"
       /\ OwnershipOf(held.attempt) = run.active

Linked ==
  /\ \A r \in RunIds, a \in AttemptIds : tokens[<<r, a>>] # None => Kept(r, a)
  /\ \A r \in RunIds : registrations[r] # None => Carries(r)

\* The attempt that fail and publish name is the stored one, field by field.
LEMMA HolderIsStored ==
  ASSUME TypeOK, Linked, NEW t \in Attempt, OpenRun(t, OwnershipOf(t)), ActiveToken(t)
  PROVE  tokens[KeyOf(t)] = [attempt |-> t, status |-> "ACTIVE"]
<1> DEFINE u == tokens[KeyOf(t)].attempt
<1>1. t.run_id \in RunIds /\ t.attempt_id \in AttemptIds
  BY AttemptFields
<1>2. /\ tokens[KeyOf(t)] # None /\ tokens[KeyOf(t)].status = "ACTIVE"
      /\ OwnershipOf(u) = OwnershipOf(t)
  BY DEF ActiveToken, Token, KeyOf
<1>3. /\ u.run_id = t.run_id /\ u.attempt_id = t.attempt_id
      /\ Registered(u.namespace, t.run_id, u.identity)
  BY <1>1, <1>2 DEF Linked, Kept, KeyOf
<1>4. u.namespace = t.namespace /\ u.identity = t.identity
  BY <1>3 DEF OpenRun, Registered
<1>5. u \in Attempt /\ tokens[KeyOf(t)] = [attempt |-> u, status |-> "ACTIVE"]
  BY <1>1, <1>2, Items DEF Keys, KeyOf
<1>6. u.owner = t.owner /\ u.fence = t.fence
  BY <1>2 DEF OwnershipOf
<1> HIDE DEF u
<1>7. u = t
  BY <1>3, <1>4, <1>5, <1>6 DEF Attempt
<1> QED
  BY <1>5, <1>7

\* Setting the status of an attempt that holds its run.
LEMMA SetTokenEffect ==
  ASSUME TypeOK, NEW t \in Attempt, NEW status, SetToken(t, status),
         tokens[KeyOf(t)] = [attempt |-> t, status |-> "ACTIVE"]
  PROVE  tokens' = [tokens EXCEPT ![KeyOf(t)] = [attempt |-> t, status |-> status]]
<1>1. tokens' = [tokens EXCEPT ![KeyOf(t)] = [tokens[KeyOf(t)] EXCEPT !.status = status]]
  BY DEF SetToken, KeyOf
<1>2. [tokens[KeyOf(t)] EXCEPT !.status = status] = [attempt |-> t, status |-> status]
  OBVIOUS
<1> QED
  BY <1>1, <1>2

\* A release fails the attempt and frees its run.
LEMMA FailEffect ==
  ASSUME TypeOK, Linked, NEW t \in Attempt, ApplyFail(t)
  PROVE  /\ OpenRun(t, OwnershipOf(t))
         /\ tokens[KeyOf(t)] = [attempt |-> t, status |-> "ACTIVE"]
         /\ Moved(t, "FAILED", "REGISTERED", None)
         /\ UNCHANGED <<counters, roots, commits>>
<1>1. /\ OpenRun(t, OwnershipOf(t)) /\ ActiveToken(t)
      /\ SetRun(t, "REGISTERED", None, Genesis) /\ SetToken(t, "FAILED")
  BY DEF ApplyFail
<1>2. Genesis \in Seq(Entry)
  BY EmptySeq DEF Genesis
<1>3. tokens[KeyOf(t)] = [attempt |-> t, status |-> "ACTIVE"]
  BY <1>1, HolderIsStored
<1>4. tokens' = [tokens EXCEPT ![KeyOf(t)] = [attempt |-> t, status |-> "FAILED"]]
  BY <1>1, <1>3, SetTokenEffect
<1>5. /\ \A q \in RunIds : q # t.run_id => registrations'[q] = registrations[q]
      /\ registrations'[t.run_id] # None
      /\ registrations'[t.run_id].namespace = t.namespace
      /\ registrations'[t.run_id].identity = t.identity
      /\ registrations'[t.run_id].status = "REGISTERED"
      /\ registrations'[t.run_id].active = None
  BY <1>1, <1>2, SetRunEffect
<1> QED
  BY <1>1, <1>3, <1>4, <1>5 DEF ApplyFail, Moved

\* A publication commits the attempt and its run, and appends to the history.
LEMMA PublishEffect ==
  ASSUME TypeOK, Linked, NEW t \in Attempt, NEW p \in Seq(Entry),
         NEW preparation \in Preparations, ApplyPublish(t, p, preparation)
  PROVE  /\ OpenRun(t, OwnershipOf(t))
         /\ tokens[KeyOf(t)] = [attempt |-> t, status |-> "ACTIVE"]
         /\ Moved(t, "COMMITTED", "COMMITTED", OwnershipOf(t))
         /\ registrations'[t.run_id].commit = Digest(t, p, preparation)
         /\ roots[t.namespace] = p
         /\ roots' = [roots EXCEPT ![t.namespace] = Digest(t, p, preparation)]
         /\ UNCHANGED counters
<1> DEFINE d == Digest(t, p, preparation)
<1>1. /\ OpenRun(t, OwnershipOf(t)) /\ ActiveToken(t)
      /\ SetRun(t, "COMMITTED", OwnershipOf(t), d) /\ SetToken(t, "COMMITTED")
  BY DEF ApplyPublish
<1>2. d \in Seq(Entry) /\ OwnershipOf(t) \in Ownership
  BY DigestType, OwnershipType
<1> HIDE DEF d
<1>3. tokens[KeyOf(t)] = [attempt |-> t, status |-> "ACTIVE"]
  BY <1>1, HolderIsStored
<1>4. tokens' = [tokens EXCEPT ![KeyOf(t)] = [attempt |-> t, status |-> "COMMITTED"]]
  BY <1>1, <1>3, SetTokenEffect
<1>5. /\ \A q \in RunIds : q # t.run_id => registrations'[q] = registrations[q]
      /\ registrations'[t.run_id] # None
      /\ registrations'[t.run_id].namespace = t.namespace
      /\ registrations'[t.run_id].identity = t.identity
      /\ registrations'[t.run_id].status = "COMMITTED"
      /\ registrations'[t.run_id].active = OwnershipOf(t)
      /\ registrations'[t.run_id].commit = d
  BY <1>1, <1>2, SetRunEffect
<1>6. /\ roots[t.namespace] = p
      /\ roots' = [roots EXCEPT ![t.namespace] = d]
      /\ UNCHANGED counters
  BY DEF ApplyPublish, d
<1> QED
  BY <1>1, <1>3, <1>4, <1>5, <1>6 DEF Moved, d

-----------------------------------------------------------------------------
(* Every request on the table.                                             *)

TableStep ==
  \/ UNCHANGED table
  \/ \E r \in RunIds : NewRun(r)
  \/ \E ns \in Namespaces : Counted(ns)
  \/ \E t \in Attempt : ApplyAdmit(t) /\ Fresh(t)
  \/ \E t \in Attempt : ApplyFail(t)
  \/ \E t \in Attempt, p \in Seq(Entry), preparation \in Preparations :
       ApplyPublish(t, p, preparation)

\* Of the attempts of an open run all but the one it carries have failed.
LEMMA OthersFailed ==
  ASSUME TypeOK, Linked, NEW t \in Attempt,
         OpenRun(t, None) \/ OpenRun(t, OwnershipOf(t)),
         NEW a \in AttemptIds, a # t.attempt_id, tokens[<<t.run_id, a>>] # None
  PROVE  tokens[<<t.run_id, a>>].status = "FAILED"
<1> DEFINE u == tokens[<<t.run_id, a>>].attempt
<1>1. t.run_id \in RunIds
  BY AttemptFields
<1>2. <<t.run_id, a>> \in Keys
  BY <1>1 DEF Keys
<1>3. Kept(t.run_id, a) /\ u \in Attempt
      /\ tokens[<<t.run_id, a>>].status \in {"ACTIVE", "FAILED", "COMMITTED"}
  BY <1>1, <1>2, Items DEF Linked
<1>4. u.attempt_id = a /\ OwnershipOf(u) # None
  BY <1>3, OwnershipType DEF Kept
<1>5. tokens[<<t.run_id, a>>].status # "COMMITTED"
  BY <1>3 DEF Kept, OpenRun
<1>6. ASSUME tokens[<<t.run_id, a>>].status = "ACTIVE" PROVE FALSE
  <2>1. OwnershipOf(u) = registrations[t.run_id].active
    BY <1>3, <1>6 DEF Kept
  <2>2. OwnershipOf(u) = OwnershipOf(t)
    BY <1>4, <2>1 DEF OpenRun
  <2> QED
    BY <1>4, <2>2 DEF OwnershipOf
<1> QED
  BY <1>3, <1>5, <1>6

\* A request that moves an attempt together with its run keeps the items linked.
LEMMA MovedLinked ==
  ASSUME TypeOK, Linked, NEW t \in Attempt,
         OpenRun(t, None) \/ OpenRun(t, OwnershipOf(t)),
         t.fence \in 1..counters[t.namespace], UNCHANGED counters,
         \/ Moved(t, "ACTIVE", "REGISTERED", OwnershipOf(t))
         \/ Moved(t, "FAILED", "REGISTERED", None)
         \/ Moved(t, "COMMITTED", "COMMITTED", OwnershipOf(t))
  PROVE  Linked'
<1>1. /\ t.run_id \in RunIds /\ t.attempt_id \in AttemptIds
      /\ KeyOf(t) \in Keys /\ DOMAIN tokens = Keys
      /\ OwnershipOf(t) # None /\ OwnershipOf(t).attempt_id = t.attempt_id
  BY AttemptFields, Items, OwnershipType DEF OwnershipOf
<1>2. /\ tokens'[KeyOf(t)].attempt = t
      /\ \/ tokens'[KeyOf(t)] = [attempt |-> t, status |-> "ACTIVE"]
         \/ tokens'[KeyOf(t)] = [attempt |-> t, status |-> "FAILED"]
         \/ tokens'[KeyOf(t)] = [attempt |-> t, status |-> "COMMITTED"]
      /\ \A k \in Keys : k # KeyOf(t) => tokens'[k] = tokens[k]
  BY <1>1 DEF Moved
<1>3. tokens'[KeyOf(t)] # None
  BY <1>2, NoneAssumption DEF TokenItem
<1>4. \A q \in RunIds : q # t.run_id => registrations'[q] = registrations[q]
  BY DEF Moved
<1>5. ASSUME NEW r \in RunIds, NEW a \in AttemptIds, tokens'[<<r, a>>] # None
      PROVE  Kept(r, a)'
  <2>k. <<r, a>> \in Keys
    BY DEF Keys
  <2>1. CASE r # t.run_id
    <3>1. tokens'[<<r, a>>] = tokens[<<r, a>>] /\ registrations'[r] = registrations[r]
      BY <1>2, <1>4, <2>k, <2>1 DEF KeyOf
    <3> QED
      BY <1>5, <3>1 DEF Linked, Kept, Registered
  <2>2. CASE r = t.run_id /\ a # t.attempt_id
    <3>1. tokens'[<<r, a>>] = tokens[<<r, a>>]
      BY <1>2, <2>k, <2>2 DEF KeyOf
    <3>2. tokens[<<r, a>>].status = "FAILED"
      BY <1>5, <2>2, <3>1, OthersFailed
    <3>3. Kept(r, a)
      BY <1>5, <3>1 DEF Linked
    <3>4. /\ registrations[r].namespace = t.namespace
          /\ registrations[r].identity = t.identity
          /\ registrations'[r].namespace = t.namespace
          /\ registrations'[r].identity = t.identity
          /\ registrations'[r] # None
      BY <2>2 DEF OpenRun, Registered, Moved
    <3> QED
      BY <3>1, <3>2, <3>3, <3>4 DEF Kept, Registered
  <2>3. CASE r = t.run_id /\ a = t.attempt_id
    <3>1. <<r, a>> = KeyOf(t)
      BY <2>3 DEF KeyOf
    <3>2. tokens'[<<r, a>>].attempt = t
      BY <1>2, <3>1
    <3>3. Registered(t.namespace, t.run_id, t.identity)'
      BY DEF Moved, Registered
    <3>4. CASE Moved(t, "ACTIVE", "REGISTERED", OwnershipOf(t))
      <4>1. tokens'[KeyOf(t)].status = "ACTIVE"
        BY <1>1, <3>4 DEF Moved
      <4> QED
        BY <2>3, <3>1, <3>2, <3>3, <3>4, <4>1 DEF Kept, Moved
    <3>5. CASE Moved(t, "FAILED", "REGISTERED", None)
      <4>1. tokens'[KeyOf(t)].status = "FAILED"
        BY <1>1, <3>5 DEF Moved
      <4> QED
        BY <2>3, <3>1, <3>2, <3>3, <4>1 DEF Kept
    <3>6. CASE Moved(t, "COMMITTED", "COMMITTED", OwnershipOf(t))
      <4>1. tokens'[KeyOf(t)].status = "COMMITTED"
        BY <1>1, <3>6 DEF Moved
      <4> QED
        BY <2>3, <3>1, <3>2, <3>3, <3>6, <4>1 DEF Kept, Moved
    <3> QED
      BY <3>4, <3>5, <3>6
  <2> QED
    BY <2>1, <2>2, <2>3
<1>6. ASSUME NEW r \in RunIds, registrations'[r] # None
      PROVE  Carries(r)'
  <2>1. CASE r # t.run_id
    <3>1. registrations'[r] = registrations[r] /\ Carries(r)
      BY <1>4, <1>6, <2>1 DEF Linked
    <3>2. CASE registrations[r].active = None
      BY <3>1, <3>2 DEF Carries
    <3>3. CASE registrations[r].active # None
      <4>1. registrations[r].active.attempt_id \in AttemptIds
        BY <1>6, <3>1, <3>3, Items DEF RegistrationItem, Ownership
      <4>2. tokens'[<<r, registrations[r].active.attempt_id>>]
              = tokens[<<r, registrations[r].active.attempt_id>>]
        BY <1>2, <2>1, <4>1 DEF Keys, KeyOf
      <4> QED
        BY <3>1, <4>2 DEF Carries
    <3> QED
      BY <3>2, <3>3
  <2>2. CASE r = t.run_id
    <3>1. CASE Moved(t, "FAILED", "REGISTERED", None)
      BY <2>2, <3>1 DEF Moved, Carries
    <3>2. ASSUME NEW s \in {"ACTIVE", "COMMITTED"}, NEW run,
                 Moved(t, s, run, OwnershipOf(t))
          PROVE  Carries(r)'
      <4>1. tokens'[KeyOf(t)] = [attempt |-> t, status |-> s]
        BY <1>1, <3>2 DEF Moved
      <4>2. registrations'[r].active = OwnershipOf(t)
        BY <2>2, <3>2 DEF Moved
      <4>3. <<r, registrations'[r].active.attempt_id>> = KeyOf(t)
        BY <1>1, <2>2, <4>2 DEF KeyOf
      <4> QED
        BY <1>1, <1>3, <4>1, <4>2, <4>3 DEF Carries
    <3> QED
      BY <3>1, <3>2
  <2> QED
    BY <2>1, <2>2
<1> QED
  BY <1>5, <1>6 DEF Linked

\* Every request keeps the run items and the attempt items linked.
LEMMA LinkedStep == TypeOK /\ Linked /\ TableStep => Linked'
<1> SUFFICES ASSUME TypeOK, Linked, TableStep PROVE Linked'
  OBVIOUS
<1>1. CASE UNCHANGED table
  BY <1>1 DEF table, Linked, Kept, Carries, Registered
<1>2. ASSUME NEW r \in RunIds, NewRun(r)
      PROVE  Linked'
  <2>1. ASSUME NEW q \in RunIds, NEW a \in AttemptIds, tokens'[<<q, a>>] # None
        PROVE  Kept(q, a)'
    <3>1. tokens' = tokens /\ counters' = counters
      BY <1>2 DEF NewRun
    <3>2. Kept(q, a)
      BY <2>1, <3>1 DEF Linked
    <3>3. registrations'[q] = registrations[q]
      BY <1>2, <3>2 DEF NewRun, Kept, Registered
    <3> QED
      BY <3>1, <3>2, <3>3 DEF Kept, Registered
  <2>2. ASSUME NEW q \in RunIds, registrations'[q] # None
        PROVE  Carries(q)'
    <3>1. CASE q = r
      BY <1>2, <3>1 DEF NewRun, Carries
    <3>2. CASE q # r
      BY <1>2, <2>2, <3>2 DEF NewRun, Linked, Carries
    <3> QED
      BY <3>1, <3>2
  <2> QED
    BY <2>1, <2>2 DEF Linked
<1>3. ASSUME NEW ns \in Namespaces, Counted(ns)
      PROVE  Linked'
  <2>1. ASSUME NEW q \in RunIds, NEW a \in AttemptIds, tokens'[<<q, a>>] # None
        PROVE  Kept(q, a)'
    <3> DEFINE u == tokens[<<q, a>>].attempt
    <3>1. tokens' = tokens /\ registrations' = registrations
      BY <1>3 DEF Counted
    <3>2. Kept(q, a) /\ u \in Attempt
      BY <2>1, <3>1, Items DEF Linked, Keys
    <3>3. u.fence \in 1..counters'[u.namespace]
      <4>1. u.namespace \in Namespaces /\ u.fence \in 1..counters[u.namespace]
        BY <3>2, AttemptFields DEF Kept
      <4>2. counters'[u.namespace] \in {counters[u.namespace], counters[u.namespace] + 1}
        BY <1>3, <4>1 DEF Counted, TypeOK
      <4>3. counters[u.namespace] \in Nat
        BY <4>1, Items
      <4> HIDE DEF u
      <4> QED
        BY <4>1, <4>2, <4>3
    <3> QED
      BY <3>1, <3>2, <3>3 DEF Kept, Registered
  <2>2. ASSUME NEW q \in RunIds, registrations'[q] # None
        PROVE  Carries(q)'
    BY <1>3, <2>2 DEF Counted, Linked, Carries
  <2> QED
    BY <2>1, <2>2 DEF Linked
<1>4. ASSUME NEW t \in Attempt, ApplyAdmit(t), Fresh(t)
      PROVE  Linked'
  BY <1>4, AdmitEffect, MovedLinked DEF Fresh
<1>5. ASSUME NEW t \in Attempt, tokens[KeyOf(t)] = [attempt |-> t, status |-> "ACTIVE"]
      PROVE  t.fence \in 1..counters[t.namespace]
  <2>1. tokens[KeyOf(t)] # None /\ tokens[KeyOf(t)].attempt = t
    BY <1>5, NoneAssumption DEF TokenItem
  <2> QED
    BY <2>1, AttemptFields DEF Linked, Kept, KeyOf
<1>6. ASSUME NEW t \in Attempt, ApplyFail(t)
      PROVE  Linked'
  BY <1>5, <1>6, FailEffect, MovedLinked
<1>7. ASSUME NEW t \in Attempt, NEW p \in Seq(Entry), NEW preparation \in Preparations,
             ApplyPublish(t, p, preparation)
      PROVE  Linked'
  BY <1>5, <1>7, PublishEffect, MovedLinked
<1> QED
  BY <1>1, <1>2, <1>3, <1>4, <1>6, <1>7 DEF TableStep

\* What no request takes back: an attempt item keeps its attempt and, once it
\* is FAILED or COMMITTED, everything; a run keeps its name and, once it is
\* COMMITTED, everything; fences and histories only grow.
Stable ==
  /\ \A k \in Keys : tokens[k] # None =>
       /\ tokens'[k] # None
       /\ tokens'[k].attempt = tokens[k].attempt
       /\ tokens[k].status # "ACTIVE" => tokens'[k] = tokens[k]
  /\ \A r \in RunIds : registrations[r] # None =>
       /\ registrations'[r] # None
       /\ registrations'[r].namespace = registrations[r].namespace
       /\ registrations'[r].identity = registrations[r].identity
       /\ registrations[r].status = "COMMITTED" => registrations'[r] = registrations[r]
  /\ \A ns \in Namespaces :
       /\ counters[ns] <= counters'[ns]
       /\ Len(roots[ns]) <= Len(roots'[ns])
       /\ \A n \in 1..Len(roots[ns]) :
            /\ roots'[ns][n] = roots[ns][n]
            /\ SubSeq(roots'[ns], 1, n) = SubSeq(roots[ns], 1, n)

\* A history with one more commit keeps those before it.
LEMMA AppendKeepsPrefix ==
  ASSUME NEW S, NEW s \in Seq(S), NEW e \in S
  PROVE  /\ Append(s, e) \in Seq(S)
         /\ Len(Append(s, e)) = Len(s) + 1
         /\ Append(s, e)[Len(s) + 1] = e
         /\ \A n \in 1..Len(s) :
              /\ Append(s, e)[n] = s[n]
              /\ SubSeq(Append(s, e), 1, n) = SubSeq(s, 1, n)
         /\ SubSeq(Append(s, e), 1, Len(s) + 1) = Append(s, e)
OBVIOUS

\* A digest as the commit of its entry on top of its predecessor.
LEMMA DigestEntry ==
  ASSUME NEW t \in Attempt, NEW p \in Seq(Entry), NEW preparation \in Preparations
  PROVE  LET d == Digest(t, p, preparation) IN
         /\ d \in Seq(Entry) /\ Len(d) = Len(p) + 1 /\ Len(d) \in Nat \ {0}
         /\ d[Len(d)].attempt = t
         /\ SubSeq(d, 1, Len(d)) = d
         /\ \A n \in 1..Len(p) : d[n] = p[n] /\ SubSeq(d, 1, n) = SubSeq(p, 1, n)
<1> DEFINE e == [attempt |-> t, preparation |-> preparation]
<1>1. e \in Entry /\ e.attempt = t
  BY DEF Entry
<1>2. Digest(t, p, preparation) = Append(p, e)
  BY DEF Digest
<1>3. Len(p) \in Nat
  OBVIOUS
<1> HIDE DEF e
<1> QED
  BY <1>1, <1>2, <1>3, AppendKeepsPrefix

\* What moves is an attempt that is new or ACTIVE, and a run that is open.
LEMMA MovedStable ==
  ASSUME TypeOK, NEW t \in Attempt, NEW active, OpenRun(t, active),
         NEW status, NEW run, NEW holder, Moved(t, status, run, holder),
         \/ tokens[KeyOf(t)] = None
         \/ tokens[KeyOf(t)] = [attempt |-> t, status |-> "ACTIVE"],
         status \in {"ACTIVE", "FAILED", "COMMITTED"}
  PROVE  /\ \A k \in Keys : tokens[k] # None =>
              /\ tokens'[k] # None
              /\ tokens'[k].attempt = tokens[k].attempt
              /\ tokens[k].status # "ACTIVE" => tokens'[k] = tokens[k]
         /\ \A r \in RunIds : registrations[r] # None =>
              /\ registrations'[r] # None
              /\ registrations'[r].namespace = registrations[r].namespace
              /\ registrations'[r].identity = registrations[r].identity
              /\ registrations[r].status = "COMMITTED" =>
                   registrations'[r] = registrations[r]
<1>1. KeyOf(t) \in Keys /\ DOMAIN tokens = Keys
  BY AttemptFields, Items
<1>2. /\ tokens'[KeyOf(t)] = [attempt |-> t, status |-> status]
      /\ \A k \in Keys : k # KeyOf(t) => tokens'[k] = tokens[k]
  BY <1>1 DEF Moved
<1>3. [attempt |-> t, status |-> status] # None
  BY NoneAssumption DEF TokenItem
<1>4. \A k \in Keys : tokens[k] # None =>
        /\ tokens'[k] # None
        /\ tokens'[k].attempt = tokens[k].attempt
        /\ tokens[k].status # "ACTIVE" => tokens'[k] = tokens[k]
  <2> SUFFICES ASSUME NEW k \in Keys, tokens[k] # None
               PROVE  /\ tokens'[k] # None
                      /\ tokens'[k].attempt = tokens[k].attempt
                      /\ tokens[k].status # "ACTIVE" => tokens'[k] = tokens[k]
    OBVIOUS
  <2>1. CASE k = KeyOf(t)
    <3>1. tokens[k] = [attempt |-> t, status |-> "ACTIVE"]
      BY <2>1
    <3> QED
      BY <1>2, <1>3, <2>1, <3>1
  <2>2. CASE k # KeyOf(t)
    BY <1>2, <2>2
  <2> QED
    BY <2>1, <2>2
<1>5. ASSUME NEW r \in RunIds, registrations[r] # None
      PROVE  /\ registrations'[r] # None
             /\ registrations'[r].namespace = registrations[r].namespace
             /\ registrations'[r].identity = registrations[r].identity
             /\ registrations[r].status = "COMMITTED" =>
                  registrations'[r] = registrations[r]
  BY <1>5 DEF Moved, OpenRun, Registered
<1> QED
  BY <1>4, <1>5

\* Every request leaves what is settled as it is.
LEMMA StableStep == TypeOK /\ Linked /\ TableStep => Stable
<1> SUFFICES ASSUME TypeOK, Linked, TableStep PROVE Stable
  OBVIOUS
<1>r. \A ns \in Namespaces :
        /\ counters[ns] \in Nat /\ roots[ns] \in Seq(Entry) /\ Len(roots[ns]) \in Nat
  BY Items
<1> DEFINE Grown ==
      \A ns \in Namespaces :
        /\ counters[ns] <= counters'[ns]
        /\ Len(roots[ns]) <= Len(roots'[ns])
        /\ \A n \in 1..Len(roots[ns]) :
             /\ roots'[ns][n] = roots[ns][n]
             /\ SubSeq(roots'[ns], 1, n) = SubSeq(roots[ns], 1, n)
<1>s. UNCHANGED <<counters, roots>> => Grown
  BY <1>r
<1>1. CASE UNCHANGED table
  BY <1>1, <1>s DEF table, Stable
<1>2. ASSUME NEW r \in RunIds, NewRun(r)
      PROVE  Stable
  BY <1>2, <1>s DEF NewRun, Stable
<1>3. ASSUME NEW ns \in Namespaces, Counted(ns)
      PROVE  Stable
  <2>1. \A m \in Namespaces : counters[m] <= counters'[m]
    BY <1>3, <1>r DEF Counted, TypeOK
  <2> QED
    BY <1>3, <1>r, <2>1 DEF Counted, Stable
<1>4. ASSUME NEW t \in Attempt, ApplyAdmit(t)
      PROVE  Stable
  <2>1. /\ OpenRun(t, None) /\ tokens[KeyOf(t)] = None
        /\ Moved(t, "ACTIVE", "REGISTERED", OwnershipOf(t))
        /\ UNCHANGED <<counters, roots>>
    BY <1>4, AdmitEffect
  <2> QED
    BY <1>s, <2>1, MovedStable DEF Stable
<1>5. ASSUME NEW t \in Attempt, ApplyFail(t)
      PROVE  Stable
  <2>1. /\ OpenRun(t, OwnershipOf(t))
        /\ tokens[KeyOf(t)] = [attempt |-> t, status |-> "ACTIVE"]
        /\ Moved(t, "FAILED", "REGISTERED", None)
        /\ UNCHANGED <<counters, roots>>
    BY <1>5, FailEffect
  <2> QED
    BY <1>s, <2>1, MovedStable DEF Stable
<1>6. ASSUME NEW t \in Attempt, NEW p \in Seq(Entry), NEW preparation \in Preparations,
             ApplyPublish(t, p, preparation)
      PROVE  Stable
  <2> DEFINE d == Digest(t, p, preparation)
  <2>1. /\ OpenRun(t, OwnershipOf(t))
        /\ tokens[KeyOf(t)] = [attempt |-> t, status |-> "ACTIVE"]
        /\ Moved(t, "COMMITTED", "COMMITTED", OwnershipOf(t))
        /\ roots[t.namespace] = p /\ roots' = [roots EXCEPT ![t.namespace] = d]
        /\ UNCHANGED counters
    BY <1>6, PublishEffect
  <2>2. /\ Len(d) = Len(p) + 1
        /\ \A n \in 1..Len(p) : d[n] = p[n] /\ SubSeq(d, 1, n) = SubSeq(p, 1, n)
    BY DigestEntry
  <2>3. DOMAIN roots = Namespaces
    BY DEF TypeOK
  <2> HIDE DEF d
  <2>4. Grown
    <3>1. ASSUME NEW ns \in Namespaces
          PROVE  /\ counters[ns] <= counters'[ns]
                 /\ Len(roots[ns]) <= Len(roots'[ns])
                 /\ \A n \in 1..Len(roots[ns]) :
                      /\ roots'[ns][n] = roots[ns][n]
                      /\ SubSeq(roots'[ns], 1, n) = SubSeq(roots[ns], 1, n)
      <4>1. CASE ns = t.namespace
        <5>1. roots[ns] = p /\ roots'[ns] = d
          BY <2>1, <2>3, <4>1
        <5> QED
          BY <1>r, <2>1, <2>2, <5>1
      <4>2. CASE ns # t.namespace
        BY <1>r, <2>1, <4>2
      <4> QED
        BY <4>1, <4>2
    <3> QED
      BY <3>1
  <2> QED
    BY <2>1, <2>4, MovedStable DEF Stable
<1> QED
  BY <1>1, <1>2, <1>3, <1>4, <1>5, <1>6 DEF TableStep

\* No two attempt items of a namespace carry one fence.
DistinctFences ==
  \A k, j \in Keys :
    /\ tokens[k] # None /\ tokens[j] # None
    /\ SameFence(tokens[k].attempt, tokens[j].attempt)
    => k = j

\* A request stores no attempt, or stores t.
NoNew ==
  \A k \in Keys :
    tokens'[k] # None => tokens[k] # None /\ tokens'[k].attempt = tokens[k].attempt
Stored(t) ==
  /\ \A k \in Keys \ {KeyOf(t)} : tokens'[k] = tokens[k]
  /\ tokens'[KeyOf(t)].attempt = t

\* An admission stores one attempt.
LEMMA AdmitTokens ==
  ASSUME TypeOK, NEW t \in Attempt, ApplyAdmit(t)
  PROVE  Stored(t)
<1>1. tokens' = [tokens EXCEPT ![KeyOf(t)] = [attempt |-> t, status |-> "ACTIVE"]]
  BY AdmitEffect DEF Moved
<1> QED
  BY <1>1, AttemptFields, Items DEF Stored

\* A change of status stores none.
LEMMA CloseTokens ==
  ASSUME TypeOK, NEW t \in Attempt, NEW s,
         tokens[KeyOf(t)] = [attempt |-> t, status |-> "ACTIVE"],
         tokens' = [tokens EXCEPT ![KeyOf(t)] = [attempt |-> t, status |-> s]]
  PROVE  NoNew
<1>1. tokens[KeyOf(t)] # None /\ tokens[KeyOf(t)].attempt = t
  BY NoneAssumption DEF TokenItem
<1> QED
  BY <1>1, AttemptFields, Items DEF NoNew

\* Neither does a failure.
LEMMA FailTokens ==
  ASSUME TypeOK, Linked, NEW t \in Attempt, ApplyFail(t)
  PROVE  NoNew
BY FailEffect, CloseTokens DEF Moved

\* Nor a publication.
LEMMA PublishTokens ==
  ASSUME TypeOK, Linked, NEW t \in Attempt, NEW p \in Seq(Entry),
         NEW preparation \in Preparations, ApplyPublish(t, p, preparation)
  PROVE  NoNew
<1>1. /\ tokens[KeyOf(t)] = [attempt |-> t, status |-> "ACTIVE"]
      /\ Moved(t, "COMMITTED", "COMMITTED", OwnershipOf(t))
  BY PublishEffect
<1> QED
  BY <1>1, CloseTokens DEF Moved

\* What a write stores.
LEMMA ApplyTokens ==
  ASSUME TypeOK, Linked, NEW w \in Write, Apply(w)
  PROVE  NoNew \/ (w.kind = "admit" /\ Stored(w.attempt))
BY WriteShape, AdmitTokens, FailTokens, PublishTokens DEF Apply

\* What a request stores.
LEMMA TableTokens ==
  ASSUME TypeOK, Linked, TableStep
  PROVE  NoNew \/ \E t \in Attempt : Fresh(t) /\ Stored(t)
<1>1. CASE UNCHANGED tokens
  BY <1>1 DEF NoNew
<1> QED
  BY <1>1, AdmitTokens, FailTokens, PublishTokens
  DEF TableStep, table, NewRun, Counted

\* No two attempts get one fence.
LEMMA DistinctStep ==
  ASSUME TypeOK, DistinctFences,
         NoNew \/ \E t \in Attempt : Fresh(t) /\ Stored(t)
  PROVE  DistinctFences'
<1> SUFFICES ASSUME NEW k \in Keys, NEW j \in Keys,
                    tokens'[k] # None, tokens'[j] # None,
                    SameFence(tokens'[k].attempt, tokens'[j].attempt)
             PROVE  k = j
  BY DEF DistinctFences, SameFence
<1>1. CASE NoNew
  BY <1>1 DEF NoNew, DistinctFences
<1>2. ASSUME NEW t \in Attempt, Fresh(t), Stored(t)
      PROVE  k = j
  BY <1>2 DEF DistinctFences, Fresh, SameFence, Stored
<1> QED
  BY <1>1, <1>2

-----------------------------------------------------------------------------
(* Fences in flight.                                                       *)

Admitting(c) == At(c, "transact") /\ call[c].write.kind = "admit"
LateAdmissions == {w \in delayed : w.kind = "admit"}

\* Every admission still in flight, whether its caller waits for it or not,
\* carries a fresh fence of its own.
FreshFences ==
  /\ \A c \in Callers : Admitting(c) => Fresh(call[c].write.attempt)
  /\ \A w \in LateAdmissions : Fresh(w.attempt)
  /\ \A c, d \in Callers :
       /\ Admitting(c) /\ Admitting(d)
       /\ SameFence(call[c].write.attempt, call[d].write.attempt)
       => c = d
  /\ \A c \in Callers, w \in LateAdmissions :
       Admitting(c) => ~ SameFence(call[c].write.attempt, w.attempt)
  /\ \A w, v \in LateAdmissions : SameFence(w.attempt, v.attempt) => w = v

\* The attempts of admissions in flight are attempts.
LEMMA AdmissionType ==
  ASSUME TypeOK
  PROVE  /\ \A c \in Callers : Admitting(c) =>
              call[c].write \in Write /\ call[c].write.attempt \in Attempt
         /\ \A w \in LateAdmissions : w \in Write /\ w.attempt \in Attempt
<1>1. ASSUME NEW c \in Callers, Admitting(c)
      PROVE  call[c].write \in Write
  BY <1>1, CallShape DEF Admitting, At, WriteCall
<1>2. ASSUME NEW w \in LateAdmissions
      PROVE  w \in Write
  BY DEF LateAdmissions, TypeOK
<1> QED
  BY <1>1, <1>2, WriteShape

\* A fence stays fresh while no attempt is stored with it.
LEMMA FreshKept ==
  ASSUME TypeOK, NEW u \in Attempt, Fresh(u),
         counters'[u.namespace] \in Nat, counters[u.namespace] <= counters'[u.namespace],
         NoNew \/ \E t \in Attempt : Stored(t) /\ ~ SameFence(t, u)
  PROVE  Fresh(u)'
<1>1. u.fence \in 1..counters'[u.namespace]
  <2>1. u.fence \in 1..counters[u.namespace] /\ counters[u.namespace] \in Nat
    BY AttemptFields, Items DEF Fresh
  <2> QED
    BY <2>1
<1>2. ASSUME NEW k \in Keys, tokens'[k] # None
      PROVE  ~ SameFence(tokens'[k].attempt, u)
  <2>1. CASE NoNew
    BY <1>2, <2>1 DEF NoNew, Fresh
  <2>2. ASSUME NEW t \in Attempt, Stored(t), ~ SameFence(t, u)
        PROVE  ~ SameFence(tokens'[k].attempt, u)
    BY <1>2, <2>2 DEF Stored, Fresh, SameFence
  <2> QED
    BY <2>1, <2>2
<1> QED
  BY <1>1, <1>2 DEF Fresh, SameFence

\* A request that starts no admission, and stores no attempt or one whose
\* fence no admission left in flight carries.
LEMMA FreshFencesKept ==
  ASSUME TypeOK, TypeOK', Stable, FreshFences,
         \A c \in Callers : Admitting(c)' => Admitting(c) /\ call'[c] = call[c],
         LateAdmissions' \subseteq LateAdmissions,
         \/ NoNew
         \/ \E t \in Attempt :
              /\ Stored(t)
              /\ \A c \in Callers : Admitting(c)' => ~ SameFence(t, call[c].write.attempt)
              /\ \A w \in LateAdmissions' : ~ SameFence(t, w.attempt)
  PROVE  FreshFences'
<1>1. \A u \in Attempt : u.namespace \in Namespaces
                      /\ counters'[u.namespace] \in Nat
                      /\ counters[u.namespace] <= counters'[u.namespace]
  BY AttemptFields, DynamoBounds DEF Stable, TypeOK
<1>2. ASSUME NEW c \in Callers, Admitting(c)'
      PROVE  Fresh(call[c].write.attempt)'
  <2>1. Admitting(c) /\ call'[c] = call[c] /\ call[c].write.attempt \in Attempt
    BY <1>2, AdmissionType
  <2>2. Fresh(call[c].write.attempt)
    BY <2>1 DEF FreshFences
  <2> DEFINE u == call[c].write.attempt
  <2>3. NoNew \/ \E t \in Attempt : Stored(t) /\ ~ SameFence(t, u)
    BY <1>2
  <2>4. u' = u
    BY <2>1
  <2> HIDE DEF u
  <2>5. Fresh(u) /\ u \in Attempt
    BY <2>1, <2>2 DEF u
  <2>6. /\ u.fence \in 1..counters'[u.namespace]
        /\ \A k \in Keys : tokens'[k] # None => ~ SameFence(tokens'[k].attempt, u)
    <3>1. ASSUME NEW v \in Attempt, v = u PROVE Fresh(v)'
      BY <1>1, <2>3, <2>5, <3>1, FreshKept
    <3> QED
      BY <2>5, <3>1 DEF Fresh, SameFence
  <2> QED
    BY <2>4, <2>6 DEF Fresh, SameFence, u
<1>3. ASSUME NEW w \in LateAdmissions'
      PROVE  Fresh(w.attempt)'
  <2>1. w \in LateAdmissions /\ w.attempt \in Attempt /\ Fresh(w.attempt)
    BY AdmissionType DEF FreshFences
  <2>2. NoNew \/ \E t \in Attempt : Stored(t) /\ ~ SameFence(t, w.attempt)
    OBVIOUS
  <2> QED
    BY <1>1, <2>1, <2>2, FreshKept
<1>4. \A c, d \in Callers :
        /\ Admitting(c)' /\ Admitting(d)'
        /\ SameFence(call'[c].write.attempt, call'[d].write.attempt)
        => c = d
  BY DEF FreshFences
<1>5. \A c \in Callers, w \in LateAdmissions' :
        Admitting(c)' => ~ SameFence(call'[c].write.attempt, w.attempt)
  BY DEF FreshFences
<1>6. \A w, v \in LateAdmissions' : SameFence(w.attempt, v.attempt) => w = v
  BY DEF FreshFences
<1> QED
  BY <1>2, <1>3, <1>4, <1>5, <1>6 DEF FreshFences, SameFence

\* A caller that moves on changes no other caller.
LEMMA GotoEffect ==
  ASSUME TypeOK, NEW c \in Callers, NEW s, Goto(c, s)
  PROVE  call'[c] = s /\ \A d \in Callers : d # c => call'[d] = call[d]
BY DEF TypeOK, Goto

\* What a move to another step leaves of the calls.
LEMMA StepEffect ==
  ASSUME TypeOK, NEW c \in Callers, call[c] # None, NEW s, Step(c, s)
  PROVE  /\ call'[c].at = s
         /\ call[c] \in AdmitCall => call'[c].attempt = call[c].attempt
         /\ call[c] \in WriteCall => call'[c].write = call[c].write
         /\ \A d \in Callers : d # c => call'[d] = call[d]
<1>1. /\ call'[c] = [call[c] EXCEPT !.at = s]
      /\ \A d \in Callers : d # c => call'[d] = call[d]
  BY GotoEffect DEF Step
<1>2. call[c] \in RegisterCall \cup AdmitCall \cup WriteCall
  BY DEF TypeOK, Call, RegisterCall, AdmitCall, WriteCall
<1> QED
  BY <1>1, <1>2 DEF RegisterCall, AdmitCall, WriteCall

\* The state an unanswered write leaves its caller in: no admission any more.
LEMMA RecoverEffect ==
  ASSUME TypeOK, NEW c \in Callers, At(c, "transact"), Recover(c, call[c].write)
  PROVE  /\ ~ Admitting(c)'
         /\ \A d \in Callers : d # c => call'[d] = call[d]
         /\ call'[c].at \in {"replayToken", "recover"}
         /\ call'[c].at = "recover" =>
              call'[c].write = call[c].write /\ call[c].write.kind # "admit"
<1>1. call[c] # None /\ call[c] \in WriteCall
  BY CallShape DEF At
<1>2. CASE call[c].write.kind = "admit"
  <2>1. /\ call'[c] = [at |-> "replayToken", attempt |-> call[c].write.attempt]
        /\ \A d \in Callers : d # c => call'[d] = call[d]
    BY <1>2, GotoEffect DEF Recover
  <2> QED
    BY <2>1 DEF Admitting, At
<1>3. CASE call[c].write.kind # "admit"
  <2>1. /\ call'[c].at = "recover" /\ call'[c].write = call[c].write
        /\ \A d \in Callers : d # c => call'[d] = call[d]
    BY <1>1, <1>3, StepEffect DEF Recover
  <2> QED
    BY <1>3, <2>1 DEF Admitting, At
<1> QED
  BY <1>2, <1>3

\* The next fence is fresh.
LEMMA CountFresh ==
  ASSUME TypeOK, Linked, NEW u \in Attempt, u.fence = counters[u.namespace] + 1,
         counters' = [counters EXCEPT ![u.namespace] = @ + 1], UNCHANGED tokens
  PROVE  /\ Fresh(u)'
         /\ \A v \in Attempt : Fresh(v) => ~ SameFence(u, v) /\ ~ SameFence(v, u)
<1> DEFINE ns == u.namespace
<1>1. ns \in Namespaces /\ counters[ns] \in Nat
  BY AttemptFields, Items
<1>2. counters'[ns] = counters[ns] + 1
  BY <1>1 DEF TypeOK
<1>3. ASSUME NEW k \in Keys, tokens[k] # None
      PROVE  ~ SameFence(tokens[k].attempt, u)
  <2>1. PICK r \in RunIds, a \in AttemptIds : k = <<r, a>>
    BY DEF Keys
  <2>2. tokens[k].attempt.fence \in 1..counters[tokens[k].attempt.namespace]
    BY <1>3, <2>1 DEF Linked, Kept
  <2> QED
    BY <1>1, <2>2 DEF SameFence
<1>4. Fresh(u)'
  BY <1>1, <1>2, <1>3 DEF Fresh, SameFence
<1>5. ASSUME NEW v \in Attempt, Fresh(v)
      PROVE  ~ SameFence(u, v) /\ ~ SameFence(v, u)
  BY <1>1, <1>5 DEF Fresh, SameFence
<1> QED
  BY <1>4, <1>5

\* A request of one caller that starts no admission and stores no attempt.
LEMMA CalmStep ==
  ASSUME TypeOK, TypeOK', Stable, FreshFences, NoNew, UNCHANGED delayed,
         NEW c \in Callers, ~ Admitting(c)',
         \A d \in Callers : d # c => call'[d] = call[d]
  PROVE  FreshFences'
<1>1. \A d \in Callers : Admitting(d)' => Admitting(d) /\ call'[d] = call[d]
  BY DEF Admitting, At
<1>2. LateAdmissions' \subseteq LateAdmissions
  BY DEF LateAdmissions
<1> QED
  BY <1>1, <1>2, FreshFencesKept

\* A late write keeps the fences in flight fresh and distinct.
LEMMA LateWriteFresh ==
  ASSUME TypeOK, TypeOK', Linked, Stable, FreshFences, LateWrite
  PROVE  FreshFences'
<1>1. PICK w \in delayed :
        /\ delayed' = delayed \ {w}
        /\ Apply(w) \/ UNCHANGED table
        /\ UNCHANGED call
  BY DEF LateWrite
<1>2. w \in Write /\ w.attempt \in Attempt
  BY WriteShape DEF TypeOK
<1>3. \A d \in Callers : Admitting(d)' => Admitting(d) /\ call'[d] = call[d]
  BY <1>1 DEF Admitting, At
<1>4. LateAdmissions' \subseteq LateAdmissions
  BY <1>1 DEF LateAdmissions
<1>5. CASE UNCHANGED table
  <2>1. NoNew
    BY <1>5 DEF table, NoNew
  <2> QED
    BY <1>3, <1>4, <2>1, FreshFencesKept
<1>6. CASE Apply(w)
  <2>1. CASE NoNew
    BY <1>3, <1>4, <2>1, FreshFencesKept
  <2>2. CASE w.kind = "admit" /\ Stored(w.attempt)
    <3>1. w \in LateAdmissions /\ w \notin LateAdmissions'
      BY <1>1, <2>2 DEF LateAdmissions
    <3>2. \A c \in Callers : Admitting(c)' => ~ SameFence(w.attempt, call[c].write.attempt)
      BY <1>3, <3>1 DEF FreshFences, SameFence
    <3>3. \A v \in LateAdmissions' : ~ SameFence(w.attempt, v.attempt)
      BY <1>4, <3>1 DEF FreshFences
    <3> QED
      BY <1>2, <1>3, <1>4, <2>2, <3>2, <3>3, FreshFencesKept
  <2> QED
    BY <1>2, <1>6, <2>1, <2>2, ApplyTokens
<1> QED
  BY <1>1, <1>5, <1>6

\* So does an allocation.
LEMMA AdmitCountFresh ==
  ASSUME TypeOK, TypeOK', Linked, Stable, FreshFences, NEW c \in Callers, AdmitCount(c)
  PROVE  FreshFences'
<1> DEFINE t == call[c].attempt
<1>1. PICK u \in Attempt :
        u = [t EXCEPT !.fence = counters[t.namespace] + 1]
        /\ u.namespace = t.namespace /\ u.fence = counters[t.namespace] + 1
  <2>1. call[c] \in AdmitCall
    BY CallShape DEF AdmitCount, At
  <2>2. t \in Attempt /\ t.namespace \in Namespaces
    BY <2>1, AttemptFields DEF AdmitCall
  <2>3. counters[t.namespace] + 1 \in 0..MaxFence
    BY <2>2, DynamoBounds DEF AdmitCount, TypeOK
  <2> DEFINE v == [t EXCEPT !.fence = counters[t.namespace] + 1]
  <2>4. /\ v \in Attempt
        /\ v.namespace = t.namespace /\ v.fence = counters[t.namespace] + 1
    BY <2>2, <2>3 DEF Attempt
  <2> HIDE DEF t
  <2> QED
    BY <2>4
<1>2. /\ counters' = [counters EXCEPT ![u.namespace] = @ + 1]
      /\ UNCHANGED tokens /\ UNCHANGED delayed
      /\ \/ Goto(c, [at |-> "transact", write |-> [kind |-> "admit", attempt |-> u]])
         \/ UNCHANGED call
  BY <1>1 DEF AdmitCount
<1>3. /\ Fresh(u)'
      /\ \A v \in Attempt : Fresh(v) => ~ SameFence(u, v) /\ ~ SameFence(v, u)
  BY <1>1, <1>2, CountFresh
<1>4. NoNew /\ ~ Admitting(c)
  BY <1>2 DEF NoNew, Admitting, At, AdmitCount
<1>5. CASE UNCHANGED call
  BY <1>2, <1>4, <1>5, CalmStep DEF Admitting, At
<1>6. CASE Goto(c, [at |-> "transact", write |-> [kind |-> "admit", attempt |-> u]])
  <2>1. /\ call'[c].write.attempt = u
        /\ \A d \in Callers : d # c => call'[d] = call[d]
    BY <1>6, GotoEffect
  <2>2. LateAdmissions' = LateAdmissions
    BY <1>2 DEF LateAdmissions
  <2>3. \A d \in Callers : d # c /\ Admitting(d)' => Admitting(d) /\ call'[d] = call[d]
    BY <2>1 DEF Admitting, At
  <2>4. \A v \in Attempt : Fresh(v) => Fresh(v)'
    <3>1. \A v \in Attempt : /\ counters'[v.namespace] \in Nat
                             /\ counters[v.namespace] <= counters'[v.namespace]
      BY AttemptFields, DynamoBounds DEF Stable, TypeOK
    <3> QED
      BY <1>4, <3>1, FreshKept
  <2>5. /\ \A d \in Callers : d # c /\ Admitting(d)' =>
             Fresh(call[d].write.attempt) /\ call[d].write.attempt \in Attempt
        /\ \A w \in LateAdmissions : Fresh(w.attempt) /\ w.attempt \in Attempt
    BY <2>3, AdmissionType DEF FreshFences
  <2>6. ASSUME NEW d \in Callers, Admitting(d)'
        PROVE  Fresh(call[d].write.attempt)'
    <3>1. \E v \in Attempt : v = call'[d].write.attempt /\ Fresh(v)'
      <4>1. CASE d = c
        BY <1>3, <2>1, <4>1
      <4>2. CASE d # c
        BY <2>1, <2>4, <2>5, <2>6, <4>2
      <4> QED
        BY <4>1, <4>2
    <3> QED
      BY <3>1 DEF Fresh, SameFence
  <2>7. \A d, e \in Callers :
          /\ Admitting(d)' /\ Admitting(e)'
          /\ SameFence(call'[d].write.attempt, call'[e].write.attempt)
          => d = e
    BY <1>3, <2>1, <2>3, <2>5 DEF FreshFences
  <2>8. \A d \in Callers, w \in LateAdmissions' :
          Admitting(d)' => ~ SameFence(call'[d].write.attempt, w.attempt)
    BY <1>3, <2>1, <2>2, <2>3, <2>5 DEF FreshFences
  <2>9. \A w \in LateAdmissions' : Fresh(w.attempt)'
    BY <2>2, <2>4, <2>5
  <2> QED
    BY <2>2, <2>6, <2>7, <2>8, <2>9 DEF FreshFences, SameFence
<1> QED
  BY <1>2, <1>5, <1>6

\* So does a transaction.
LEMMA TransactFresh ==
  ASSUME TypeOK, TypeOK', Linked, Stable, FreshFences, NEW c \in Callers, Transact(c)
  PROVE  FreshFences'
<1> DEFINE w == call[c].write
<1>1. w \in Write /\ w.attempt \in Attempt /\ At(c, "transact")
  BY CallShape, WriteShape DEF Transact, At, WriteCall
<1>2. /\ Done(c) \/ Recover(c, w)
      /\ Apply(w) \/ UNCHANGED table
      /\ \/ UNCHANGED delayed
         \/ /\ UNCHANGED table
            /\ delayed' = delayed \cup {w}
  BY DEF Transact
<1>3. ~ Admitting(c)' /\ \A d \in Callers : d # c => call'[d] = call[d]
  <2>1. CASE Done(c)
    BY <2>1, GotoEffect DEF Done, Admitting, At
  <2>2. CASE Recover(c, w)
    BY <1>1, <2>2, RecoverEffect
  <2> QED
    BY <1>2, <2>1, <2>2
<1>4. \A d \in Callers : Admitting(d)' => d # c /\ Admitting(d) /\ call'[d] = call[d]
  BY <1>3 DEF Admitting, At
<1>5. CASE UNCHANGED <<table, delayed>>
  <2>1. NoNew
    BY <1>5 DEF table, NoNew
  <2> QED
    BY <1>3, <1>5, <2>1, CalmStep
<1>6. CASE Apply(w) /\ UNCHANGED delayed
  <2>1. CASE NoNew
    BY <1>3, <1>6, <2>1, CalmStep
  <2>2. CASE w.kind = "admit" /\ Stored(w.attempt)
    <3>1. Admitting(c) /\ LateAdmissions' = LateAdmissions
      BY <1>1, <1>6, <2>2 DEF Admitting, LateAdmissions
    <3>2. \A d \in Callers : Admitting(d)' => ~ SameFence(w.attempt, call[d].write.attempt)
      BY <1>4, <3>1 DEF FreshFences
    <3>3. \A v \in LateAdmissions' : ~ SameFence(w.attempt, v.attempt)
      BY <3>1 DEF FreshFences
    <3> QED
      BY <1>1, <1>4, <2>2, <3>1, <3>2, <3>3, FreshFencesKept
  <2> QED
    BY <1>1, <1>6, <2>1, <2>2, ApplyTokens
<1>7. CASE UNCHANGED table /\ delayed' = delayed \cup {w}
  <2>1. counters' = counters /\ tokens' = tokens
    BY <1>7 DEF table
  <2>2. \A u : Fresh(u) => u.fence \in 1..counters'[u.namespace]
                          /\ \A k \in Keys : tokens'[k] # None =>
                                               ~ SameFence(tokens'[k].attempt, u)
    BY <2>1 DEF Fresh
  <2>3. CASE w.kind # "admit"
    <3>1. LateAdmissions' = LateAdmissions /\ NoNew
      BY <1>7, <2>1, <2>3 DEF LateAdmissions, NoNew
    <3> QED
      BY <1>4, <3>1, FreshFencesKept
  <2>4. CASE w.kind = "admit"
    <3>1. LateAdmissions' = LateAdmissions \cup {w} /\ Admitting(c)
      BY <1>1, <1>7, <2>4 DEF LateAdmissions, Admitting
    <3>2. Fresh(w.attempt) /\ \A v \in LateAdmissions : Fresh(v.attempt)
      BY <3>1 DEF FreshFences
    <3>3. \A v \in LateAdmissions : ~ SameFence(w.attempt, v.attempt)
                                  /\ ~ SameFence(v.attempt, w.attempt)
      BY <3>1 DEF FreshFences, SameFence
    <3>4. \A d \in Callers : Admitting(d)' =>
            /\ Fresh(call'[d].write.attempt)
            /\ ~ SameFence(call'[d].write.attempt, w.attempt)
      BY <1>4, <3>1 DEF FreshFences
    <3> HIDE DEF w
    <3>5. ASSUME NEW d \in Callers, Admitting(d)'
          PROVE  Fresh(call[d].write.attempt)'
      BY <2>2, <3>4, <3>5 DEF Fresh, SameFence
    <3>6. ASSUME NEW v \in LateAdmissions'
          PROVE  Fresh(v.attempt)'
      BY <2>2, <3>1, <3>2 DEF Fresh, SameFence
    <3>7. \A d, e \in Callers :
            /\ Admitting(d)' /\ Admitting(e)'
            /\ SameFence(call'[d].write.attempt, call'[e].write.attempt)
            => d = e
      BY <1>4 DEF FreshFences
    <3>8. \A d \in Callers, v \in LateAdmissions' :
            Admitting(d)' => ~ SameFence(call'[d].write.attempt, v.attempt)
      BY <1>4, <3>1, <3>4 DEF FreshFences
    <3>9. \A u, v \in LateAdmissions' : SameFence(u.attempt, v.attempt) => u = v
      BY <3>1, <3>3 DEF FreshFences
    <3> QED
      BY <3>5, <3>6, <3>7, <3>8, <3>9 DEF FreshFences, SameFence
  <2> QED
    BY <2>3, <2>4
<1> QED
  BY <1>2, <1>5, <1>6, <1>7

-----------------------------------------------------------------------------
(* The history behind the roots.                                           *)

\* The n-th commit behind the root of ns is one of its namespace, by an attempt
\* that is COMMITTED.
Entered(ns, n) ==
  LET u == roots[ns][n].attempt IN
  /\ u.namespace = ns
  /\ tokens[KeyOf(u)] = [attempt |-> u, status |-> "COMMITTED"]

\* The commit a run carries lies behind the root and is that run's.
Verdict(r) ==
  LET d == registrations[r].commit
      ns == registrations[r].namespace
  IN
  /\ Len(d) \in 1..Len(roots[ns])
  /\ d = SubSeq(roots[ns], 1, Len(d))
  /\ d[Len(d)].attempt.run_id = r

Committed(r) == registrations[r] # None /\ registrations[r].status = "COMMITTED"

History ==
  /\ \A ns \in Namespaces : \A n \in 1..Len(roots[ns]) : Entered(ns, n)
  /\ \A r \in RunIds : Committed(r) => Verdict(r)

\* The commits behind a root are made by attempts.
LEMMA EntryTypes ==
  ASSUME TypeOK, NEW ns \in Namespaces
  PROVE  /\ roots[ns] \in Seq(Entry) /\ Len(roots[ns]) \in Nat
         /\ \A n \in 1..Len(roots[ns]) : roots[ns][n].attempt \in Attempt
<1>1. roots[ns] \in Seq(Entry)
  BY DEF TypeOK
<1>2. \A n \in 1..Len(roots[ns]) : roots[ns][n] \in Entry
  BY <1>1
<1> QED
  BY <1>1, <1>2 DEF Entry

\* A commit that lies behind a root lies there after every request.
LEMMA EnteredKept ==
  ASSUME TypeOK, Stable, NEW ns \in Namespaces, NEW n \in 1..Len(roots[ns]),
         Entered(ns, n)
  PROVE  Entered(ns, n)'
<1> DEFINE u == roots[ns][n].attempt
<1>1. u \in Attempt /\ KeyOf(u) \in Keys
  BY EntryTypes, AttemptFields
<1>2. tokens[KeyOf(u)] = [attempt |-> u, status |-> "COMMITTED"]
  BY DEF Entered
<1>3. tokens[KeyOf(u)] # None /\ tokens[KeyOf(u)].status # "ACTIVE"
  BY <1>1, <1>2, NoneAssumption DEF TokenItem
<1>4. tokens'[KeyOf(u)] = tokens[KeyOf(u)] /\ roots'[ns][n] = roots[ns][n]
  BY <1>1, <1>3 DEF Stable
<1> QED
  BY <1>4 DEF Entered, KeyOf

\* The verdict of a run stands after every request.
LEMMA VerdictKept ==
  ASSUME TypeOK, Stable, NEW r \in RunIds, Committed(r), Verdict(r)
  PROVE  Verdict(r)'
<1> DEFINE d == registrations[r].commit
           ns == registrations[r].namespace
<1>1. registrations'[r] = registrations[r]
  BY DEF Stable, Committed
<1>2. ns \in Namespaces
  BY Items DEF Committed, RegistrationItem
<1>3. Len(d) \in 1..Len(roots[ns]) /\ d = SubSeq(roots[ns], 1, Len(d))
  BY DEF Verdict
<1>4. SubSeq(roots'[ns], 1, Len(d)) = SubSeq(roots[ns], 1, Len(d))
      /\ Len(roots[ns]) <= Len(roots'[ns])
  BY <1>2, <1>3 DEF Stable
<1>5. Len(d) \in 1..Len(roots'[ns])
  BY <1>2, <1>3, <1>4, EntryTypes
<1>6. d[Len(d)].attempt.run_id = r
  BY DEF Verdict
<1> HIDE DEF d, ns
<1>7. Len(d) \in 1..Len(roots'[ns])
  BY <1>3, <1>4, <1>5
<1>8. d = SubSeq(roots'[ns], 1, Len(d))
  BY <1>3, <1>4
<1> QED
  BY <1>1, <1>6, <1>7, <1>8 DEF Verdict, d, ns

\* Every request keeps the history.
LEMMA HistoryStep ==
  ASSUME TypeOK, TypeOK', Linked, TableStep, Stable, History
  PROVE  History'
<1>1. \A ns \in Namespaces : \A n \in 1..Len(roots[ns]) : Entered(ns, n)'
  BY EnteredKept DEF History
<1>2. \A r \in RunIds : Committed(r) => Verdict(r)'
  BY VerdictKept DEF History
<1>3. CASE UNCHANGED roots /\ \A r \in RunIds : Committed(r)' => Committed(r)
  BY <1>1, <1>2, <1>3 DEF History
<1>4. CASE UNCHANGED table
  BY <1>3, <1>4 DEF table, Committed
<1>5. ASSUME NEW r \in RunIds, NewRun(r)
      PROVE  History'
  BY <1>3, <1>5 DEF NewRun, Committed
<1>6. ASSUME NEW ns \in Namespaces, Counted(ns)
      PROVE  History'
  BY <1>3, <1>6 DEF Counted, Committed
<1>7. ASSUME NEW t \in Attempt, ApplyAdmit(t)
      PROVE  History'
  BY <1>3, <1>7, AdmitEffect DEF Moved, Committed
<1>8. ASSUME NEW t \in Attempt, ApplyFail(t)
      PROVE  History'
  BY <1>3, <1>8, FailEffect DEF Moved, Committed
<1>9. ASSUME NEW t \in Attempt, NEW p \in Seq(Entry), NEW preparation \in Preparations,
             ApplyPublish(t, p, preparation)
      PROVE  History'
  <2> DEFINE d == Digest(t, p, preparation)
  <2>1. /\ Moved(t, "COMMITTED", "COMMITTED", OwnershipOf(t))
        /\ registrations'[t.run_id].commit = d
        /\ roots[t.namespace] = p /\ roots' = [roots EXCEPT ![t.namespace] = d]
    BY <1>9, PublishEffect
  <2>2. /\ Len(d) = Len(p) + 1 /\ Len(p) \in Nat /\ d[Len(d)].attempt = t
        /\ SubSeq(d, 1, Len(d)) = d
    BY DigestEntry, LenProperties
  <2>3. t.namespace \in Namespaces /\ KeyOf(t) \in Keys /\ t.run_id \in RunIds
    BY AttemptFields
  <2>4. DOMAIN roots = Namespaces /\ DOMAIN tokens = Keys
    BY Items DEF TypeOK
  <2> HIDE DEF d
  <2>5. roots'[t.namespace] = d
    BY <2>1, <2>3, <2>4
  <2>6. tokens'[KeyOf(t)] = [attempt |-> t, status |-> "COMMITTED"]
    BY <2>1, <2>3, <2>4 DEF Moved
  <2>7. ASSUME NEW ns \in Namespaces, NEW n \in 1..Len(roots'[ns])
        PROVE  Entered(ns, n)'
    <3>1. CASE ns # t.namespace
      <4>1. roots'[ns] = roots[ns]
        BY <2>1, <3>1
      <4> QED
        BY <1>1, <4>1
    <3>2. CASE ns = t.namespace /\ n # Len(d)
      <4>1. n \in 1..Len(roots[ns])
        BY <2>1, <2>2, <2>5, <3>2
      <4> QED
        BY <1>1, <4>1
    <3>3. CASE ns = t.namespace /\ n = Len(d)
      <4>1. roots'[ns][n].attempt = t
        BY <2>2, <2>5, <3>3
      <4> QED
        BY <2>6, <3>3, <4>1 DEF Entered, KeyOf
    <3> QED
      BY <3>1, <3>2, <3>3
  <2>8. ASSUME NEW r \in RunIds, Committed(r)'
        PROVE  Verdict(r)'
    <3>1. CASE r # t.run_id
      BY <1>2, <2>1, <2>8, <3>1 DEF Moved, Committed
    <3>2. CASE r = t.run_id
      <4>1. registrations'[r].commit = d /\ registrations'[r].namespace = t.namespace
        BY <2>1, <3>2 DEF Moved
      <4> QED
        BY <2>2, <2>5, <3>2, <4>1 DEF Verdict
    <3> QED
      BY <3>1, <3>2
  <2> QED
    BY <2>7, <2>8 DEF History
<1> QED
  BY <1>4, <1>5, <1>6, <1>7, <1>8, <1>9 DEF TableStep

-----------------------------------------------------------------------------
(* What calls act on and what callers are told.                            *)

\* What the call of c has read and acts on with a later request is still so.
Current(c) ==
  /\ At(c, "walk") =>
       /\ Committed(call[c].run_id)
       /\ registrations[call[c].run_id].commit = call[c].commit
  /\ At(c, "replayRun") =>
       LET t == call[c].attempt IN tokens[KeyOf(t)] # None /\ tokens[KeyOf(t)].attempt = t
  /\ At(c, "recover") \/ At(c, "recoverRun") => call[c].write.kind # "admit"
  /\ At(c, "recoverRun") /\ call[c].write.kind = "fail" =>
       LET t == call[c].write.attempt IN
       tokens[KeyOf(t)] = [attempt |-> t, status |-> "FAILED"]

\* What the call of a caller that does not move has read stays so.
LEMMA CurrentKept ==
  ASSUME TypeOK, Stable, NEW c \in Callers, Current(c), call'[c] = call[c]
  PROVE  Current(c)'
<1>1. CASE At(c, "walk")
  <2>1. call[c] \in RegisterCall /\ call[c].run_id \in RunIds
    BY <1>1, CallShape DEF At, RegisterCall
  <2>2. registrations'[call[c].run_id] = registrations[call[c].run_id]
    BY <1>1, <2>1 DEF Current, Committed, Stable
  <2> QED
    BY <1>1, <2>2 DEF Current, At, Committed
<1>2. CASE At(c, "replayRun")
  <2> DEFINE t == call[c].attempt
  <2>1. t \in Attempt /\ KeyOf(t) \in Keys
    BY <1>2, CallShape, AttemptFields DEF At, AdmitCall
  <2>2. tokens'[KeyOf(t)] # None /\ tokens'[KeyOf(t)].attempt = t
    BY <1>2, <2>1 DEF Current, Stable
  <2> QED
    BY <1>2, <2>2 DEF Current, At, KeyOf
<1>3. CASE At(c, "recoverRun")
  <2> DEFINE t == call[c].write.attempt
  <2>1. t \in Attempt /\ KeyOf(t) \in Keys
    BY <1>3, CallShape, WriteShape, AttemptFields DEF At, WriteCall
  <2>2. call[c].write.kind = "fail" =>
          tokens'[KeyOf(t)] = [attempt |-> t, status |-> "FAILED"]
    <3>1. SUFFICES ASSUME tokens[KeyOf(t)] = [attempt |-> t, status |-> "FAILED"]
                   PROVE  tokens'[KeyOf(t)] = tokens[KeyOf(t)]
      BY <1>3 DEF Current
    <3>2. tokens[KeyOf(t)] # None /\ tokens[KeyOf(t)].status # "ACTIVE"
      BY <2>1, <3>1, NoneAssumption DEF TokenItem
    <3> QED
      BY <2>1, <3>2 DEF Stable
  <2> QED
    BY <1>3, <2>2 DEF Current, At, KeyOf
<1>4. CASE ~ At(c, "walk") /\ ~ At(c, "replayRun") /\ ~ At(c, "recoverRun")
  BY <1>4 DEF Current, At
<1> QED
  BY <1>1, <1>2, <1>3, <1>4

\* What a caller was told is so.
Holds(t) == tokens[KeyOf(t)] # None /\ tokens[KeyOf(t)].attempt = t
Failed(t) == tokens[KeyOf(t)] = [attempt |-> t, status |-> "FAILED"]
Stands(d) ==
  LET r == d[Len(d)].attempt.run_id IN
  Len(d) > 0 /\ Committed(r) /\ registrations[r].commit = d

Told ==
  /\ \A t \in issued : Holds(t)
  /\ \A t \in confirmed : Failed(t)
  /\ \A d \in acknowledged : Stands(d)

\* What a caller was told stays so.
LEMMA HoldsKept ==
  ASSUME Stable, NEW t \in Attempt, Holds(t) PROVE Holds(t)'
BY AttemptFields DEF Stable, Holds

\* A failure stays recorded.
LEMMA FailedKept ==
  ASSUME Stable, NEW t \in Attempt, Failed(t) PROVE Failed(t)'
<1>1. tokens[KeyOf(t)] # None /\ tokens[KeyOf(t)].status # "ACTIVE"
  BY NoneAssumption DEF Failed, TokenItem
<1> QED
  BY <1>1, AttemptFields DEF Stable, Failed

\* A verdict stands.
LEMMA StandsKept ==
  ASSUME Stable, NEW d \in Seq(Entry), Stands(d) PROVE Stands(d)'
<1>1. d[Len(d)] \in Entry
  BY DEF Stands
<1>2. d[Len(d)].attempt.run_id \in RunIds
  BY <1>1, AttemptFields DEF Entry
<1> QED
  BY <1>2 DEF Stands, Committed, Stable

\* It is enough to look at what a request tells a caller for the first time.
LEMMA ToldKept ==
  ASSUME TypeOK, TypeOK', Stable, Told,
         \A t \in issued' \ issued : Holds(t)',
         \A t \in confirmed' \ confirmed : Failed(t)',
         \A d \in acknowledged' \ acknowledged : Stands(d)'
  PROVE  Told'
<1>1. \A t \in issued : Holds(t)'
  BY HoldsKept DEF Told, TypeOK
<1>2. \A t \in confirmed : Failed(t)'
  BY FailedKept DEF Told, TypeOK
<1>3. \A d \in acknowledged : Stands(d)'
  BY StandsKept DEF Told, TypeOK
<1> QED
  BY <1>1, <1>2, <1>3 DEF Told

-----------------------------------------------------------------------------
(* The inductive invariant.                                                *)

\* The invariant of the table, of the requests in flight and of what callers
\* were told.
FencingInv ==
  /\ TypeInv /\ Linked /\ DistinctFences /\ FreshFences /\ History
  /\ \A c \in Callers : Current(c)
  /\ Told

\* The types as the lemmas below use them.
LEMMA InvTypes == FencingInv => TypeOK
BY DEF FencingInv, TypeInv

\* The invariant at the start.
LEMMA FencingInit == Init => FencingInv
<1> SUFFICES ASSUME Init PROVE FencingInv
  OBVIOUS
<1>1. TypeInv
  BY TypeInit
<1>2. \A k \in Keys : tokens[k] = None
  BY DEF Init, Keys
<1>3. Linked
  BY <1>2 DEF Init, Linked, Keys
<1>4. DistinctFences
  BY <1>2 DEF DistinctFences
<1>5. \A c \in Callers : call[c] = None
  BY DEF Init
<1>6. FreshFences
  BY <1>5 DEF Init, FreshFences, Admitting, LateAdmissions, At
<1>7. History
  <2>1. \A ns \in Namespaces : roots[ns] = <<>> /\ Len(roots[ns]) = 0
    BY EmptySeq DEF Init, Genesis
  <2>2. \A ns \in Namespaces : 1..Len(roots[ns]) = {}
    BY <2>1
  <2>3. \A r \in RunIds : ~ Committed(r)
    BY DEF Init, Committed
  <2> QED
    BY <2>2, <2>3 DEF History
<1>8. \A c \in Callers : Current(c)
  BY <1>5 DEF Current, At
<1>9. Told
  BY DEF Init, Told
<1> QED
  BY <1>1, <1>3, <1>4, <1>6, <1>7, <1>8, <1>9 DEF FencingInv

\* Every step is one of the requests on the table.
LEMMA ApplyTable ==
  ASSUME TypeOK, NEW w \in Write, Apply(w), w.kind = "admit" => Fresh(w.attempt)
  PROVE  TableStep
BY WriteShape DEF Apply, TableStep

\* Every request does one of the things TableStep lists.
LEMMA NextTable == FencingInv /\ [Next]_vars => TableStep
<1> SUFFICES ASSUME FencingInv, [Next]_vars PROVE TableStep
  OBVIOUS
<1>t. TypeOK /\ FreshFences
  BY InvTypes DEF FencingInv
<1>1. CASE UNCHANGED table
  BY <1>1 DEF TableStep
<1>2. CASE LateWrite
  <2>1. PICK w \in delayed : Apply(w) \/ UNCHANGED table
    BY <1>2 DEF LateWrite
  <2>2. w \in Write /\ (w.kind = "admit" => Fresh(w.attempt))
    BY <1>t DEF FreshFences, LateAdmissions, TypeOK
  <2> QED
    BY <1>1, <1>t, <2>1, <2>2, ApplyTable
<1>3. ASSUME NEW c \in Callers, RegisterPut(c)
      PROVE  TableStep
  <2> DEFINE r == call[c].run_id
             item == [namespace |-> call[c].namespace, identity |-> call[c].identity,
                      status |-> "REGISTERED", active |-> None, commit |-> Genesis]
  <2>1. call[c] \in RegisterCall
    BY <1>t, <1>3, CallShape DEF RegisterPut, At
  <2>2. CASE registrations[r] = None
    <3>1. item \in RegistrationItem
      BY <2>1, EmptySeq DEF RegisterCall, RegistrationItem, Genesis
    <3>2. item # None /\ item.status = "REGISTERED" /\ item.active = None
      BY <3>1, NoneAssumption
    <3>3. r \in RunIds /\ DOMAIN registrations = RunIds
      BY <1>t, <2>1, Items DEF RegisterCall
    <3>4. /\ registrations' = [registrations EXCEPT ![r] = item]
          /\ UNCHANGED <<tokens, counters, roots, commits>>
      BY <1>3, <2>2 DEF RegisterPut
    <3> HIDE DEF r, item
    <3>5. NewRun(r)
      BY <2>2, <3>2, <3>3, <3>4 DEF NewRun
    <3> QED
      BY <3>3, <3>5 DEF TableStep
  <2>3. CASE registrations[r] # None
    BY <1>1, <1>3, <2>3 DEF RegisterPut, table
  <2> QED
    BY <2>2, <2>3
<1>4. ASSUME NEW c \in Callers, AdmitCount(c)
      PROVE  TableStep
  <2>1. call[c].attempt.namespace \in Namespaces
    BY <1>t, <1>4, CallShape, AttemptFields DEF AdmitCount, At, AdmitCall
  <2>2. Counted(call[c].attempt.namespace)
    BY <1>4 DEF AdmitCount, Counted
  <2> QED
    BY <2>1, <2>2 DEF TableStep
<1>5. ASSUME NEW c \in Callers, Transact(c)
      PROVE  TableStep
  <2>1. Apply(call[c].write) \/ UNCHANGED table
    BY <1>5 DEF Transact
  <2>2. call[c].write \in Write
    BY <1>t, <1>5, CallShape DEF Transact, At, WriteCall
  <2>3. call[c].write.kind = "admit" => Fresh(call[c].write.attempt)
    BY <1>t, <1>5 DEF Transact, FreshFences, Admitting
  <2> QED
    BY <1>1, <1>t, <2>1, <2>2, <2>3, ApplyTable
<1> QED
  BY <1>1, <1>2, <1>3, <1>4, <1>5
  DEF Next, vars, Raise, Register, RegisterRead, RegisterWalk, Admit, AdmitProbe,
      ReplayToken, ReplayRun, Fail, Publish, RecoverFirst, RecoverRun

\* The part of the invariant about calls, after a step.
CallsKept ==
  FreshFences' /\ (\A d \in Callers : Current(d)') /\ Told'

\* A request by c alone, after which what c acts on is so.
LEMMA CallersCurrent ==
  ASSUME FencingInv, Stable, NEW c \in Callers,
         \A d \in Callers : d # c => call'[d] = call[d],
         Current(c)'
  PROVE  \A d \in Callers : Current(d)'
BY CurrentKept, InvTypes DEF FencingInv

\* A call that ended, or whose next request depends on nothing it has read.
LEMMA NothingRead ==
  ASSUME NEW c \in Callers,
         call'[c] = None
           \/ call'[c].at \notin {"walk", "replayRun", "recover", "recoverRun"}
  PROVE  Current(c)'
BY DEF Current, At

\* A request that changes no attempt item and tells its caller nothing.
LEMMA QuietStep ==
  ASSUME FencingInv, TypeOK', Stable, NEW c \in Callers,
         \A d \in Callers : d # c => call'[d] = call[d],
         ~ Admitting(c)', Current(c)', UNCHANGED <<tokens, delayed, results>>
  PROVE  CallsKept
<1>1. TypeOK /\ FreshFences /\ Told
  BY InvTypes DEF FencingInv
<1>2. NoNew
  BY DEF NoNew
<1>3. FreshFences'
  BY <1>1, <1>2, CalmStep
<1>4. Told'
  BY <1>1, ToldKept DEF results
<1> QED
  BY <1>3, <1>4, CallersCurrent DEF CallsKept

\* A call that starts or ends, and tells its caller nothing.
LEMMA StartOrEnd ==
  ASSUME FencingInv, TypeOK', Stable, NEW c \in Callers, NEW s, Goto(c, s),
         \/ s = None
         \/ s.at \in {"put", "probe"}
         \/ s.at = "transact" /\ s.write.kind \in {"fail", "publish"},
         UNCHANGED <<tokens, delayed, results>>
  PROVE  CallsKept
<1>1. call'[c] = s /\ \A d \in Callers : d # c => call'[d] = call[d]
  BY InvTypes, GotoEffect
<1>2. ~ Admitting(c)'
  BY <1>1 DEF Admitting, At
<1>3. Current(c)'
  BY <1>1, NothingRead
<1> QED
  BY <1>1, <1>2, <1>3, QuietStep

\* What each request leaves of calls and answers: the put of register.
LEMMA RegisterPutCalls ==
  ASSUME FencingInv, TypeOK', Stable, NEW c \in Callers, RegisterPut(c)
  PROVE  CallsKept
<1>1. CASE Done(c)
  BY <1>1, StartOrEnd DEF RegisterPut, Done
<1>2. CASE Step(c, "registration")
  <2>1. /\ call'[c].at = "registration"
        /\ \A d \in Callers : d # c => call'[d] = call[d]
    BY <1>2, InvTypes, StepEffect DEF RegisterPut, At
  <2>2. ~ Admitting(c)' /\ Current(c)'
    BY <2>1, NothingRead DEF Admitting, At
  <2> QED
    BY <2>1, <2>2, QuietStep DEF RegisterPut
<1> QED
  BY <1>1, <1>2 DEF RegisterPut

\* The read of register: the commit it will walk to is the verdict of the run.
LEMMA RegisterReadCalls ==
  ASSUME FencingInv, TypeOK', Stable, NEW c \in Callers, RegisterRead(c)
  PROVE  CallsKept
<1> DEFINE item == registrations[call[c].run_id]
<1>1. /\ UNCHANGED <<registrations, tokens, delayed, results>>
      /\ Registered(call[c].namespace, call[c].run_id, call[c].identity)
      /\ call[c] \in RegisterCall
  BY InvTypes, CallShape DEF RegisterRead, At, table
<1>2. CASE item.status = "REGISTERED"
  BY <1>1, <1>2, StartOrEnd DEF RegisterRead, Done
<1>3. CASE item.status # "REGISTERED"
  <2>1. Goto(c, [call[c] EXCEPT !.at = "walk", !.commit = item.commit])
    BY <1>3 DEF RegisterRead
  <2>2. /\ call'[c] = [call[c] EXCEPT !.at = "walk", !.commit = item.commit]
        /\ \A d \in Callers : d # c => call'[d] = call[d]
    BY <2>1, InvTypes, GotoEffect
  <2>3. /\ call'[c].at = "walk" /\ call'[c].run_id = call[c].run_id
        /\ call'[c].commit = item.commit
    BY <1>1, <2>2 DEF RegisterCall
  <2>4. Committed(call[c].run_id)
    <3>1. call[c].run_id \in RunIds
      BY <1>1 DEF RegisterCall
    <3>2. item \in RegistrationItem
      BY <1>1, <3>1, InvTypes, Items DEF Registered
    <3> QED
      BY <1>1, <1>3, <3>2 DEF Committed, Registered, RegistrationItem
  <2>5. ~ Admitting(c)' /\ Current(c)'
    BY <1>1, <2>3, <2>4 DEF Admitting, At, Current, Committed
  <2> QED
    BY <1>1, <2>2, <2>5, QuietStep
<1> QED
  BY <1>2, <1>3

\* The probe of admit.
LEMMA AdmitProbeCalls ==
  ASSUME FencingInv, TypeOK', Stable, NEW c \in Callers, AdmitProbe(c)
  PROVE  CallsKept
<1>1. Step(c, "replayToken") \/ Step(c, "count")
  BY DEF AdmitProbe
<1>2. /\ call'[c].at \in {"replayToken", "count"}
      /\ \A d \in Callers : d # c => call'[d] = call[d]
  BY <1>1, InvTypes, StepEffect DEF AdmitProbe, At
<1>3. ~ Admitting(c)' /\ Current(c)'
  BY <1>2, NothingRead DEF Admitting, At
<1> QED
  BY <1>2, <1>3, QuietStep DEF AdmitProbe, table

\* The read of the attempt item: the call goes on with the stored attempt.
LEMMA ReplayTokenCalls ==
  ASSUME FencingInv, TypeOK', Stable, NEW c \in Callers, ReplayToken(c)
  PROVE  CallsKept
<1> DEFINE t == call[c].attempt
           u == Token(t).attempt
<1>1. t \in Attempt /\ UNCHANGED <<tokens, delayed, results>>
  BY InvTypes, CallShape DEF ReplayToken, At, AdmitCall, table
<1>2. Token(t) = tokens[KeyOf(t)] /\ tokens[KeyOf(t)] # None
  BY DEF ReplayToken, Token, KeyOf
<1>3. KeyOf(u) = KeyOf(t)
  <2>1. u.run_id = t.run_id /\ u.attempt_id = t.attempt_id
    BY <1>1, <1>2, AttemptFields DEF FencingInv, Linked, Kept, KeyOf
  <2> QED
    BY <2>1 DEF KeyOf
<1>4. /\ call'[c] = [at |-> "replayRun", attempt |-> u]
      /\ \A d \in Callers : d # c => call'[d] = call[d]
  BY InvTypes, GotoEffect DEF ReplayToken
<1>5. tokens[KeyOf(u)] # None /\ tokens[KeyOf(u)].attempt = u
  BY <1>2, <1>3
<1> HIDE DEF u
<1>6. ~ Admitting(c)' /\ Current(c)'
  BY <1>1, <1>4, <1>5 DEF Admitting, At, Current, KeyOf
<1> QED
  BY <1>1, <1>4, <1>6, QuietStep

\* The first recovery read: a failure that was found is final.
LEMMA RecoverFirstCalls ==
  ASSUME FencingInv, TypeOK', Stable, NEW c \in Callers, RecoverFirst(c)
  PROVE  CallsKept
<1>1. /\ call[c] # None /\ call[c] \in WriteCall
      /\ UNCHANGED <<tokens, delayed, results>>
  BY InvTypes, CallShape DEF RecoverFirst, At, table
<1>2. /\ call'[c].at = "recoverRun" /\ call'[c].write = call[c].write
      /\ \A d \in Callers : d # c => call'[d] = call[d]
  BY <1>1, InvTypes, StepEffect DEF RecoverFirst
<1>3. call[c].write.kind # "admit"
  BY DEF FencingInv, Current, RecoverFirst
<1>4. call[c].write.kind = "fail" =>
        tokens[KeyOf(call[c].write.attempt)]
          = [attempt |-> call[c].write.attempt, status |-> "FAILED"]
  BY DEF RecoverFirst, Token, KeyOf
<1>5. ~ Admitting(c)' /\ Current(c)'
  BY <1>1, <1>2, <1>3, <1>4 DEF Admitting, At, Current, KeyOf
<1> QED
  BY <1>1, <1>2, <1>5, QuietStep

\* The end of a call that changed no item and tells its caller something.
LEMMA AnswerStep ==
  ASSUME FencingInv, TypeOK', Stable, NEW c \in Callers, Done(c),
         UNCHANGED <<table, delayed>>, Told'
  PROVE  CallsKept
<1>1. call'[c] = None /\ \A d \in Callers : d # c => call'[d] = call[d]
  BY InvTypes, GotoEffect DEF Done
<1>2. ~ Admitting(c)' /\ Current(c)'
  BY <1>1, NothingRead DEF Admitting, At
<1>3. NoNew
  BY DEF NoNew, table
<1>4. FreshFences'
  BY <1>1, <1>2, <1>3, CalmStep, InvTypes DEF FencingInv
<1> QED
  BY <1>1, <1>2, <1>4, CallersCurrent DEF CallsKept

\* The answer of a repeated registration.
LEMMA RegisterWalkCalls ==
  ASSUME FencingInv, TypeOK', Stable, NEW c \in Callers, RegisterWalk(c)
  PROVE  CallsKept
<1> DEFINE d == call[c].commit
<1>1. /\ UNCHANGED table /\ issued' = issued /\ confirmed' = confirmed
      /\ acknowledged' = acknowledged \cup {d} /\ call[c] \in RegisterCall
  BY InvTypes, CallShape DEF RegisterWalk, At
<1>2. d[Len(d)].attempt.run_id = call[c].run_id
  BY DEF RegisterWalk
<1>3. Committed(call[c].run_id) /\ registrations[call[c].run_id].commit = d
  BY DEF FencingInv, Current, RegisterWalk
<1>4. Len(d) > 0
  <2>1. call[c].run_id \in RunIds
    BY <1>1 DEF RegisterCall
  <2> QED
    BY <1>3, <2>1 DEF FencingInv, History, Verdict
<1> HIDE DEF d
<1>5. Stands(d)
  BY <1>2, <1>3, <1>4 DEF Stands
<1>6. \A e \in acknowledged' \ acknowledged : Stands(e)'
  <2>1. registrations' = registrations
    BY <1>1 DEF table
  <2> QED
    BY <1>1, <1>5, <2>1 DEF Stands, Committed
<1>7. Told'
  BY <1>1, <1>6, ToldKept, InvTypes DEF FencingInv
<1> QED
  BY <1>1, <1>7, AnswerStep DEF RegisterWalk

\* The answer of a repeated admission.
LEMMA ReplayRunCalls ==
  ASSUME FencingInv, TypeOK', Stable, NEW c \in Callers, ReplayRun(c)
  PROVE  CallsKept
<1> DEFINE t == call[c].attempt
<1>1. /\ UNCHANGED table /\ issued' = issued \cup {t}
      /\ confirmed' = confirmed /\ acknowledged' = acknowledged
  BY DEF ReplayRun
<1>2. Holds(t)
  BY DEF FencingInv, Current, ReplayRun, Holds
<1> HIDE DEF t
<1>3. \A u \in issued' \ issued : Holds(u)'
  <2>1. tokens' = tokens
    BY <1>1 DEF table
  <2> QED
    BY <1>1, <1>2, <2>1 DEF Holds
<1>4. Told'
  BY <1>1, <1>3, ToldKept, InvTypes DEF FencingInv
<1> QED
  BY <1>1, <1>4, AnswerStep DEF ReplayRun

\* The answer of a call that had to recover.
LEMMA RecoverRunCalls ==
  ASSUME FencingInv, TypeOK', Stable, NEW c \in Callers, RecoverRun(c)
  PROVE  CallsKept
<1> DEFINE w == call[c].write
           t == w.attempt
<1>1. /\ UNCHANGED <<table, delayed>> /\ Succeed(w) /\ Done(c)
      /\ w \in Write /\ w.kind # "admit" /\ t \in Attempt
  BY InvTypes, CallShape, WriteShape
  DEF RecoverRun, At, WriteCall, FencingInv, Current
<1>r. registrations' = registrations /\ tokens' = tokens
  BY <1>1 DEF table
<1>2. CASE w.kind = "fail"
  <2>1. Failed(t)
    BY <1>2 DEF FencingInv, Current, RecoverRun, Failed
  <2>2. issued' = issued /\ confirmed' = confirmed \cup {t} /\ acknowledged' = acknowledged
    BY <1>1, <1>2 DEF Succeed
  <2> HIDE DEF t, w
  <2>3. \A u \in confirmed' \ confirmed : Failed(u)'
    BY <1>r, <2>1, <2>2 DEF Failed
  <2>4. Told'
    BY <2>2, <2>3, ToldKept, InvTypes DEF FencingInv
  <2> QED
    BY <1>1, <2>4, AnswerStep
<1>3. CASE w.kind = "publish"
  <2> DEFINE d == Digest(t, w.predecessor, w.preparation)
  <2>1. Committed(t.run_id) /\ registrations[t.run_id].commit = d
    BY <1>3 DEF RecoverRun, Committed, Registered
  <2>2. d[Len(d)].attempt = t /\ Len(d) > 0
    BY <1>1, <1>3, WriteShape, DigestEntry
  <2>3. issued' = issued /\ confirmed' = confirmed /\ acknowledged' = acknowledged \cup {d}
    BY <1>1, <1>3 DEF Succeed
  <2> HIDE DEF d, t, w
  <2>4. \A e \in acknowledged' \ acknowledged : Stands(e)'
    BY <1>r, <2>1, <2>2, <2>3 DEF Stands, Committed
  <2>5. Told'
    BY <2>3, <2>4, ToldKept, InvTypes DEF FencingInv
  <2> QED
    BY <1>1, <2>5, AnswerStep
<1> QED
  BY <1>1, <1>2, <1>3, WriteShape

\* A write that was applied has done what its call reports.
LEMMA SucceedTold ==
  ASSUME FencingInv, TypeOK', Stable, NEW w \in Write, Apply(w), Succeed(w)
  PROVE  Told'
<1> DEFINE t == w.attempt
<1>1. t \in Attempt /\ KeyOf(t) \in Keys /\ TypeOK /\ Linked /\ Told /\ DOMAIN tokens = Keys
  BY WriteShape, AttemptFields, InvTypes, Items DEF FencingInv
<1>2. CASE w.kind = "admit"
  <2>1. ApplyAdmit(t)
    BY <1>2 DEF Apply
  <2> HIDE DEF t
  <2>2. tokens'[KeyOf(t)] = [attempt |-> t, status |-> "ACTIVE"]
    BY <1>1, <2>1, AdmitEffect DEF Moved
  <2>3. Holds(t)'
    BY <1>1, <2>2, NoneAssumption DEF Holds, TokenItem, KeyOf
  <2>4. issued' = issued \cup {t} /\ confirmed' = confirmed /\ acknowledged' = acknowledged
    BY <1>2 DEF Succeed, t
  <2>5. \A u \in issued' \ issued : Holds(u)'
    BY <2>3, <2>4 DEF Holds, KeyOf
  <2> QED
    BY <1>1, <2>4, <2>5, ToldKept
<1>3. CASE w.kind = "fail"
  <2>1. ApplyFail(t)
    BY <1>3 DEF Apply
  <2> HIDE DEF t
  <2>2. tokens'[KeyOf(t)] = [attempt |-> t, status |-> "FAILED"]
    BY <1>1, <2>1, FailEffect DEF Moved
  <2>4. issued' = issued /\ confirmed' = confirmed \cup {t} /\ acknowledged' = acknowledged
    BY <1>3 DEF Succeed, t
  <2>5. \A u \in confirmed' \ confirmed : Failed(u)'
    BY <2>2, <2>4 DEF Failed, KeyOf
  <2> QED
    BY <1>1, <2>4, <2>5, ToldKept
<1>4. CASE w.kind = "publish"
  <2> DEFINE d == Digest(t, w.predecessor, w.preparation)
  <2>1. ApplyPublish(t, w.predecessor, w.preparation)
    BY <1>4 DEF Apply
  <2>2. /\ registrations'[t.run_id] # None
        /\ registrations'[t.run_id].status = "COMMITTED"
        /\ registrations'[t.run_id].commit = d
    <3>1. w.predecessor \in Seq(Entry) /\ w.preparation \in Preparations
      BY <1>4, WriteShape
    <3> HIDE DEF t
    <3>2. /\ Moved(t, "COMMITTED", "COMMITTED", OwnershipOf(t))
          /\ registrations'[t.run_id].commit = Digest(t, w.predecessor, w.preparation)
      BY <1>1, <2>1, <3>1, PublishEffect
    <3> QED
      BY <3>2 DEF Moved
  <2>3. d[Len(d)].attempt = t /\ Len(d) > 0
    BY <1>1, <1>4, WriteShape, DigestEntry
  <2>4. issued' = issued /\ confirmed' = confirmed /\ acknowledged' = acknowledged \cup {d}
    BY <1>4 DEF Succeed
  <2> HIDE DEF d, t
  <2>5. \A e \in acknowledged' \ acknowledged : Stands(e)'
    BY <2>2, <2>3, <2>4 DEF Stands, Committed
  <2> QED
    BY <1>1, <2>4, <2>5, ToldKept
<1> QED
  BY <1>2, <1>3, <1>4, WriteShape

\* A transaction.
LEMMA TransactCalls ==
  ASSUME FencingInv, TypeOK', Stable, NEW c \in Callers, Transact(c)
  PROVE  CallsKept
<1> DEFINE w == call[c].write
<1>1. w \in Write /\ At(c, "transact") /\ TypeOK /\ FreshFences /\ Linked /\ Told
  BY CallShape, InvTypes DEF Transact, At, WriteCall, FencingInv
<1>2. FreshFences'
  BY <1>1, TransactFresh
<1>3. Current(c)' /\ \A d \in Callers : d # c => call'[d] = call[d]
  <2>1. CASE Done(c)
    BY <1>1, <2>1, GotoEffect, NothingRead DEF Done
  <2>2. CASE Recover(c, w)
    BY <1>1, <2>2, RecoverEffect DEF Current, At
  <2> QED
    BY <2>1, <2>2 DEF Transact
<1>4. Told'
  <2>1. CASE Apply(w) /\ Succeed(w)
    BY <1>1, <2>1, SucceedTold
  <2>2. CASE UNCHANGED results
    BY <1>1, <2>2, ToldKept DEF results
  <2> QED
    BY <2>1, <2>2 DEF Transact
<1> QED
  BY <1>2, <1>3, <1>4, CallersCurrent DEF CallsKept

\* The allocation of a fence.
LEMMA AdmitCountCalls ==
  ASSUME FencingInv, TypeOK', Stable, NEW c \in Callers, AdmitCount(c)
  PROVE  CallsKept
<1>1. TypeOK /\ FreshFences /\ Linked /\ Told /\ At(c, "count")
  BY InvTypes DEF AdmitCount, FencingInv
<1>2. FreshFences'
  BY <1>1, AdmitCountFresh
<1>3. Told'
  BY <1>1, ToldKept DEF AdmitCount, results
<1>4. Current(c)' /\ \A d \in Callers : d # c => call'[d] = call[d]
  <2>1. CASE UNCHANGED call
    BY <1>1, <2>1, NothingRead DEF At
  <2>2. CASE call' # call
    <3>1. PICK s : Goto(c, s) /\ s.at = "transact"
      BY <2>2 DEF AdmitCount
    <3>2. call'[c].at = "transact" /\ \A d \in Callers : d # c => call'[d] = call[d]
      BY <1>1, <3>1, GotoEffect
    <3> QED
      BY <3>2, NothingRead
  <2> QED
    BY <2>1, <2>2
<1> QED
  BY <1>2, <1>3, <1>4, CallersCurrent DEF CallsKept

\* A late write.
LEMMA LateWriteCalls ==
  ASSUME FencingInv, TypeOK', Stable, LateWrite
  PROVE  CallsKept
<1>1. /\ TypeOK /\ FreshFences /\ Linked /\ Told
      /\ \A c \in Callers : Current(c)
  BY InvTypes DEF FencingInv
<1>2. FreshFences'
  BY <1>1, LateWriteFresh
<1>3. Told'
  BY <1>1, ToldKept DEF LateWrite, results
<1>4. \A c \in Callers : Current(c)'
  BY <1>1, CurrentKept DEF LateWrite
<1> QED
  BY <1>2, <1>3, <1>4 DEF CallsKept

\* Every request keeps calls and answers.
LEMMA CallsStep ==
  ASSUME FencingInv, TypeOK', Stable, [Next]_vars
  PROVE  CallsKept
<1>1. CASE UNCHANGED vars
  BY <1>1 DEF vars, table, results, FencingInv, CallsKept, FreshFences, Fresh,
     LateAdmissions, Admitting, At, SameFence, Current, Committed, KeyOf, Told,
     Holds, Failed, Stands
<1>2. ASSUME NEW c \in Callers, Raise(c)
      PROVE  CallsKept
  BY <1>2, StartOrEnd DEF Raise, Done, table
<1>3. ASSUME NEW c \in Callers, NEW ns \in Namespaces, NEW r \in RunIds,
             NEW i \in Identities, Register(c, ns, r, i)
      PROVE  CallsKept
  BY <1>3, StartOrEnd DEF Register, table
<1>4. ASSUME NEW c \in Callers, NEW t \in Attempt, Admit(c, t)
      PROVE  CallsKept
  BY <1>4, StartOrEnd DEF Admit, table
<1>5. ASSUME NEW c \in Callers, NEW t \in issued, Fail(c, t)
      PROVE  CallsKept
  BY <1>5, StartOrEnd DEF Fail, table
<1>6. ASSUME NEW c \in Callers, NEW t \in issued, NEW predecessor \in {Genesis} \cup commits,
             NEW preparation \in Preparations, Publish(c, t, predecessor, preparation)
      PROVE  CallsKept
  BY <1>6, StartOrEnd DEF Publish, table
<1> QED
  BY <1>1, <1>2, <1>3, <1>4, <1>5, <1>6, RegisterPutCalls, RegisterReadCalls,
     RegisterWalkCalls, AdmitProbeCalls, AdmitCountCalls, ReplayTokenCalls,
     ReplayRunCalls, TransactCalls, RecoverFirstCalls, RecoverRunCalls, LateWriteCalls
  DEF Next

\* Every request keeps the invariant.
LEMMA FencingStep == FencingInv /\ [Next]_vars => FencingInv'
<1> SUFFICES ASSUME FencingInv, [Next]_vars PROVE FencingInv'
  OBVIOUS
<1>1. TypeInv' /\ TypeOK'
  BY TypeStep DEF FencingInv, TypeInv
<1>2. TableStep /\ TypeOK /\ Linked /\ History /\ DistinctFences
  BY NextTable, InvTypes DEF FencingInv
<1>3. Linked'
  BY <1>2, LinkedStep
<1>4. Stable
  BY <1>2, StableStep
<1>5. History'
  BY <1>1, <1>2, <1>4, HistoryStep
<1>6. DistinctFences'
  <2>1. NoNew \/ \E t \in Attempt : Fresh(t) /\ Stored(t)
    BY <1>2, TableTokens
  <2> QED
    BY <1>2, <2>1, DistinctStep
<1>7. CallsKept
  BY <1>1, <1>4, CallsStep
<1> QED
  BY <1>1, <1>3, <1>5, <1>6, <1>7 DEF FencingInv, CallsKept

\* The invariant holds in every reachable state.
LEMMA FencingInvariant == Spec => []FencingInv
BY FencingInit, FencingStep, PTL DEF Spec

-----------------------------------------------------------------------------
(* What holds at every moment.                                             *)

\* However admissions, their repeats and their late writes interleave, callers
\* that hold an attempt hold it under one fence, and a fence of a namespace
\* stands for one attempt (aws_authority.py 151-164, 211-213).
THEOREM OneFencePerAttemptHolds == Spec => []OneFencePerAttempt
<1>1. FencingInv => OneFencePerAttempt
  <2> SUFFICES ASSUME FencingInv, NEW t \in issued, NEW u \in issued
               PROVE  /\ <<t.run_id, t.attempt_id>> = <<u.run_id, u.attempt_id>> => t = u
                      /\ t.namespace = u.namespace /\ t.fence = u.fence => t = u
    BY DEF OneFencePerAttempt
  <2>1. t \in Attempt /\ u \in Attempt
    BY InvTypes DEF TypeOK
  <2>2. Holds(t) /\ Holds(u) /\ KeyOf(t) \in Keys /\ KeyOf(u) \in Keys
    BY <2>1, AttemptFields DEF FencingInv, Told
  <2>3. KeyOf(t) = KeyOf(u) => t = u
    BY <2>2 DEF Holds
  <2>4. SameFence(t, u) => KeyOf(t) = KeyOf(u)
    BY <2>2 DEF Holds, FencingInv, DistinctFences
  <2> QED
    BY <2>3, <2>4 DEF KeyOf, SameFence
<1> QED
  BY <1>1, FencingInvariant, PTL

\* An attempt item is ACTIVE just when the open run carries it: no order of
\* admissions, releases and publications leaves an ACTIVE attempt nobody can
\* fail, or a run that waits for an attempt that has ended (165-209, 219-274).
THEOREM ActiveOwnershipHolds == Spec => []ActiveOwnership
<1>1. FencingInv => ActiveOwnership
  <2> SUFFICES ASSUME FencingInv, NEW r \in RunIds
               PROVE  {tokens[k].attempt :
                         k \in {j \in TokensOf(r) : tokens[j].status = "ACTIVE"}}
                        = IF \/ registrations[r] = None
                             \/ registrations[r].status = "COMMITTED"
                             \/ registrations[r].active = None
                          THEN {}
                          ELSE {tokens[<<r, registrations[r].active.attempt_id>>].attempt}
    BY DEF ActiveOwnership
  <2>1. TypeOK /\ Linked
    BY InvTypes DEF FencingInv
  <2>2. ASSUME NEW k \in TokensOf(r), tokens[k].status = "ACTIVE"
        PROVE  /\ registrations[r] # None
               /\ registrations[r].status = "REGISTERED"
               /\ registrations[r].active # None
               /\ k = <<r, registrations[r].active.attempt_id>>
    <3>1. PICK a \in AttemptIds : k = <<r, a>> /\ tokens[k] # None
      BY DEF TokensOf
    <3>2. Kept(r, a) /\ tokens[k].attempt \in Attempt
      BY <2>1, <3>1, Items DEF Linked, Keys
    <3>3. OwnershipOf(tokens[k].attempt) # None
          /\ OwnershipOf(tokens[k].attempt).attempt_id = a
      BY <3>1, <3>2, OwnershipType DEF OwnershipOf, Kept
    <3> QED
      BY <2>2, <3>1, <3>2, <3>3 DEF Kept, Registered
  <2>3. ASSUME registrations[r] # None, registrations[r].status # "COMMITTED",
               registrations[r].active # None
        PROVE  LET k == <<r, registrations[r].active.attempt_id>> IN
               k \in TokensOf(r) /\ tokens[k].status = "ACTIVE"
    <3> DEFINE a == registrations[r].active.attempt_id
    <3>1. a \in AttemptIds
      BY <2>1, <2>3, Items DEF RegistrationItem, Ownership
    <3>2. tokens[<<r, a>>] # None /\ tokens[<<r, a>>].status # "FAILED"
      BY <2>1, <2>3 DEF Linked, Carries
    <3>3. Kept(r, a) /\ tokens[<<r, a>>].status \in {"ACTIVE", "FAILED", "COMMITTED"}
      BY <2>1, <3>1, <3>2, Items DEF Linked, Keys
    <3>4. tokens[<<r, a>>].status = "ACTIVE"
      BY <2>3, <3>2, <3>3 DEF Kept
    <3> QED
      BY <3>1, <3>2, <3>4 DEF TokensOf
  <2> QED
    BY <2>2, <2>3
<1> QED
  BY <1>1, FencingInvariant, PTL

\* A failure that was confirmed is final: no publication in flight or applied
\* late commits under its fence, and no run comes back to it (276-300, 351-368).
THEOREM ConfirmedFailureIsFinalHolds == Spec => []ConfirmedFailureIsFinal
<1>1. FencingInv => ConfirmedFailureIsFinal
  <2> SUFFICES ASSUME FencingInv, NEW t \in confirmed
               PROVE  /\ Token(t) = [attempt |-> t, status |-> "FAILED"]
                      /\ registrations[t.run_id].active # OwnershipOf(t)
                      /\ \A n \in 1..Len(roots[t.namespace]) :
                           roots[t.namespace][n].attempt.fence # t.fence
    BY DEF ConfirmedFailureIsFinal
  <2>0. TypeOK /\ Linked /\ History /\ DistinctFences
    BY InvTypes DEF FencingInv
  <2>1. t \in Attempt /\ t.namespace \in Namespaces /\ t.run_id \in RunIds
        /\ t.attempt_id \in AttemptIds /\ KeyOf(t) \in Keys
    BY <2>0, AttemptFields DEF TypeOK
  <2>2. Token(t) = [attempt |-> t, status |-> "FAILED"] /\ Failed(t)
    BY DEF FencingInv, Told, Failed, Token, KeyOf
  <2>3. tokens[KeyOf(t)] # None /\ tokens[KeyOf(t)].status = "FAILED"
        /\ tokens[KeyOf(t)].attempt = t
    BY <2>1, <2>2, NoneAssumption DEF Failed, TokenItem
  <2>4. ASSUME registrations[t.run_id].active = OwnershipOf(t)
        PROVE  FALSE
    <3>1. Kept(t.run_id, t.attempt_id)
      BY <2>0, <2>1, <2>3 DEF Linked, KeyOf
    <3>2. Carries(t.run_id)
      BY <2>0, <2>1, <3>1 DEF Linked, Kept, Registered
    <3>3. OwnershipOf(t) # None /\ OwnershipOf(t).attempt_id = t.attempt_id
      BY <2>1, OwnershipType DEF OwnershipOf
    <3> QED
      BY <2>3, <2>4, <3>2, <3>3 DEF Carries, KeyOf
  <2>5. ASSUME NEW n \in 1..Len(roots[t.namespace]),
               roots[t.namespace][n].attempt.fence = t.fence
        PROVE  FALSE
    <3> DEFINE u == roots[t.namespace][n].attempt
    <3>1. u \in Attempt /\ KeyOf(u) \in Keys
      BY <2>0, <2>1, EntryTypes, AttemptFields
    <3>2. /\ u.namespace = t.namespace
          /\ tokens[KeyOf(u)] = [attempt |-> u, status |-> "COMMITTED"]
      BY <2>0, <2>1 DEF History, Entered
    <3>3. tokens[KeyOf(u)] # None /\ tokens[KeyOf(u)].attempt = u
          /\ tokens[KeyOf(u)].status = "COMMITTED"
      BY <3>1, <3>2, NoneAssumption DEF TokenItem
    <3>4. SameFence(u, t)
      BY <2>5, <3>2 DEF SameFence
    <3>5. KeyOf(u) = KeyOf(t)
      BY <2>0, <2>1, <2>3, <3>1, <3>3, <3>4 DEF DistinctFences
    <3> QED
      BY <2>3, <3>3, <3>5
  <2> QED
    BY <2>2, <2>4, <2>5
<1> QED
  BY <1>1, FencingInvariant, PTL

\* A commit that was reported lies behind its root and is the verdict of its
\* run from then on, whatever is published after it (354-364, 107-115).
THEOREM AcknowledgedIsFinalHolds == Spec => []AcknowledgedIsFinal
<1>1. FencingInv => AcknowledgedIsFinal
  <2> SUFFICES ASSUME FencingInv, NEW d \in acknowledged
               PROVE  LET t == d[Len(d)].attempt IN
                      /\ SubSeq(roots[t.namespace], 1, Len(d)) = d
                      /\ registrations[t.run_id].status = "COMMITTED"
                      /\ registrations[t.run_id].commit = d
    BY DEF AcknowledgedIsFinal
  <2> DEFINE t == d[Len(d)].attempt
             r == t.run_id
             ns == registrations[r].namespace
  <2>1. TypeOK /\ History /\ Stands(d) /\ d \in Seq(Entry)
    BY InvTypes DEF FencingInv, Told, TypeOK
  <2>2. Len(d) > 0 /\ Committed(r) /\ registrations[r].commit = d
    BY <2>1 DEF Stands
  <2>3. t \in Attempt /\ r \in RunIds
    <3>1. d[Len(d)] \in Entry
      BY <2>1, <2>2
    <3> QED
      BY <3>1, AttemptFields DEF Entry
  <2>4. Len(d) \in 1..Len(roots[ns]) /\ d = SubSeq(roots[ns], 1, Len(d))
    BY <2>1, <2>2, <2>3 DEF History, Verdict
  <2>5. ns \in Namespaces
    BY <2>1, <2>2, <2>3, Items DEF Committed, RegistrationItem
  <2>6. d[Len(d)] = roots[ns][Len(d)]
    <3> HIDE DEF ns
    <3>1. roots[ns] \in Seq(Entry) /\ Len(d) \in Nat
      BY <2>1, <2>5, EntryTypes
    <3> QED
      BY <2>4, <3>1
  <2>7. t.namespace = ns
    <3>1. Entered(ns, Len(d))
      BY <2>1, <2>4, <2>5 DEF History
    <3> QED
      BY <2>6, <3>1 DEF Entered
  <2> QED
    BY <2>2, <2>4, <2>7 DEF Committed
<1> QED
  BY <1>1, FencingInvariant, PTL

-----------------------------------------------------------------------------
(* The table implements Authority.                                         *)

\* What Authority sees of the table.
AbstractState == <<AbstractRegistration, AbstractHolder, AbstractReleased, roots>>

\* Authority sees nothing but runs, attempts and roots.
LEMMA SameAbstraction ==
  ASSUME UNCHANGED <<registrations, tokens, roots>>
  PROVE  UNCHANGED AbstractState
BY DEF AbstractState, AbstractRegistration, AbstractHolder, AbstractReleased

\* Every request leaves a registered run registered under its name.
LEMMA HolderOf ==
  ASSUME FencingInv, NEW t \in Attempt,
         tokens[KeyOf(t)] = [attempt |-> t, status |-> "ACTIVE"]
  PROVE  AbstractHolder[t.run_id] = t
<1>1. tokens[KeyOf(t)] # None /\ tokens[KeyOf(t)].attempt = t
      /\ tokens[KeyOf(t)].status = "ACTIVE"
  BY NoneAssumption DEF TokenItem
<1>2. /\ t.run_id \in RunIds /\ t.attempt_id \in AttemptIds
      /\ OwnershipOf(t) # None /\ OwnershipOf(t).attempt_id = t.attempt_id
  BY AttemptFields, OwnershipType DEF OwnershipOf
<1>3. /\ registrations[t.run_id] # None
      /\ registrations[t.run_id].status = "REGISTERED"
      /\ registrations[t.run_id].active = OwnershipOf(t)
  BY <1>1, <1>2 DEF FencingInv, Linked, Kept, KeyOf, Registered
<1> QED
  BY <1>1, <1>2, <1>3 DEF AbstractHolder, KeyOf

\* The holder Authority sees is an ACTIVE attempt of that run.
LEMMA HolderIs ==
  ASSUME FencingInv, NEW r \in RunIds, AbstractHolder[r] # None
  PROVE  LET u == AbstractHolder[r] IN
         /\ u \in Attempt /\ u.run_id = r
         /\ tokens[KeyOf(u)] # None /\ tokens[KeyOf(u)].attempt = u
<1> DEFINE a == registrations[r].active.attempt_id
           u == tokens[<<r, a>>].attempt
<1>0. TypeOK /\ Linked
  BY InvTypes DEF FencingInv
<1>1. /\ registrations[r] # None /\ registrations[r].active # None
      /\ AbstractHolder[r] = u
  BY DEF AbstractHolder
<1>2. a \in AttemptIds
  BY <1>0, <1>1, Items DEF RegistrationItem, Ownership
<1>3. tokens[<<r, a>>] # None
  BY <1>0, <1>1 DEF Linked, Carries
<1>4. u \in Attempt /\ u.run_id = r /\ u.attempt_id = a
  BY <1>0, <1>2, <1>3, Items DEF Linked, Kept, Keys
<1> HIDE DEF a
<1>5. KeyOf(u) = <<r, a>>
  BY <1>4 DEF KeyOf
<1> QED
  BY <1>1, <1>3, <1>4, <1>5

\* The attempts behind the roots are COMMITTED ones.
LEMMA CommittedIs ==
  ASSUME FencingInv, NEW u \in Promise!CommittedAttempts
  PROVE  /\ u \in Attempt
         /\ tokens[KeyOf(u)] = [attempt |-> u, status |-> "COMMITTED"]
<1>1. PICK ns \in Namespaces :
        u \in {roots[ns][n].attempt : n \in 1..Len(roots[ns])}
  BY DEF Promise!CommittedAttempts
<1>2. PICK n \in 1..Len(roots[ns]) : u = roots[ns][n].attempt
  BY <1>1
<1> QED
  BY <1>1, <1>2, EntryTypes, InvTypes DEF FencingInv, History, Entered

\* Whatever was granted is stored.
LEMMA GrantedIs ==
  ASSUME FencingInv, NEW u \in Promise!Granted
  PROVE  u \in Attempt /\ tokens[KeyOf(u)] # None /\ tokens[KeyOf(u)].attempt = u
<1>1. CASE u \in Promise!CommittedAttempts
  <2>1. u \in Attempt /\ tokens[KeyOf(u)] = [attempt |-> u, status |-> "COMMITTED"]
    BY <1>1, CommittedIs
  <2> QED
    BY <2>1, NoneAssumption DEF TokenItem
<1>2. CASE u \in AbstractReleased
  <2>1. PICK r \in RunIds, a \in AttemptIds :
          tokens[<<r, a>>] # None /\ u = tokens[<<r, a>>].attempt
    BY <1>2 DEF AbstractReleased
  <2>2. u.run_id = r /\ u.attempt_id = a
    BY <2>1 DEF FencingInv, Linked, Kept
  <2>4. u \in Attempt
    BY <2>1, InvTypes, Items DEF Keys
  <2>3. KeyOf(u) = <<r, a>>
    BY <2>2 DEF KeyOf
  <2> QED
    BY <2>1, <2>3, <2>4
<1>3. ASSUME NEW r \in RunIds, u = AbstractHolder[r], u # None
      PROVE  u \in Attempt /\ tokens[KeyOf(u)] # None /\ tokens[KeyOf(u)].attempt = u
  BY <1>3, HolderIs
<1> QED
  BY <1>1, <1>2, <1>3 DEF Promise!Granted

\* What Authority sees of a moved attempt and its run.
LEMMA MovedAbstraction ==
  ASSUME TypeOK, NEW t \in Attempt, NEW active, OpenRun(t, active),
         NEW status, NEW run, NEW holder, Moved(t, status, run, holder)
  PROVE  /\ UNCHANGED AbstractRegistration
         /\ AbstractRegistration[t.run_id]
              = [namespace |-> t.namespace, identity |-> t.identity]
         /\ run = "REGISTERED" /\ holder = OwnershipOf(t) =>
              AbstractHolder' = [AbstractHolder EXCEPT ![t.run_id] = t]
         /\ run # "REGISTERED" \/ holder = None =>
              AbstractHolder' = [AbstractHolder EXCEPT ![t.run_id] = None]
<1>1. /\ t.run_id \in RunIds /\ t.attempt_id \in AttemptIds
      /\ KeyOf(t) \in Keys /\ DOMAIN tokens = Keys
      /\ OwnershipOf(t) # None /\ OwnershipOf(t).attempt_id = t.attempt_id
  BY AttemptFields, Items, OwnershipType DEF OwnershipOf
<1>2. /\ registrations[t.run_id] # None
      /\ registrations[t.run_id].namespace = t.namespace
      /\ registrations[t.run_id].identity = t.identity
  BY DEF OpenRun, Registered
<1>3. UNCHANGED AbstractRegistration
      /\ AbstractRegistration[t.run_id]
           = [namespace |-> t.namespace, identity |-> t.identity]
  BY <1>1, <1>2 DEF Moved, AbstractRegistration
<1>4. ASSUME NEW q \in RunIds, q # t.run_id
      PROVE  AbstractHolder'[q] = AbstractHolder[q]
  <2>1. registrations'[q] = registrations[q]
    BY <1>4 DEF Moved
  <2>2. CASE registrations[q] # None /\ registrations[q].active # None
    <3>1. registrations[q].active.attempt_id \in AttemptIds
      BY <2>2, Items DEF RegistrationItem, Ownership
    <3>2. tokens'[<<q, registrations[q].active.attempt_id>>]
            = tokens[<<q, registrations[q].active.attempt_id>>]
      BY <1>1, <1>4, <3>1 DEF Moved, Keys, KeyOf
    <3> QED
      BY <2>1, <3>2 DEF AbstractHolder
  <2>3. CASE ~ (registrations[q] # None /\ registrations[q].active # None)
    BY <2>1, <2>3 DEF AbstractHolder
  <2> QED
    BY <2>2, <2>3
<1>5. ASSUME run = "REGISTERED", holder = OwnershipOf(t)
      PROVE  AbstractHolder'[t.run_id] = t
  <2>1. tokens'[KeyOf(t)].attempt = t
    BY <1>1 DEF Moved
  <2>2. /\ registrations'[t.run_id] # None
        /\ registrations'[t.run_id].status = "REGISTERED"
        /\ registrations'[t.run_id].active = OwnershipOf(t)
    BY <1>5 DEF Moved
  <2>3. <<t.run_id, registrations'[t.run_id].active.attempt_id>> = KeyOf(t)
    BY <1>1, <2>2 DEF KeyOf
  <2> QED
    BY <1>1, <2>1, <2>2, <2>3 DEF AbstractHolder
<1>6. ASSUME run # "REGISTERED" \/ holder = None
      PROVE  AbstractHolder'[t.run_id] = None
  BY <1>1, <1>6 DEF Moved, AbstractHolder
<1>7. /\ DOMAIN AbstractHolder = RunIds /\ DOMAIN AbstractHolder' = RunIds
      /\ AbstractHolder = [r \in RunIds |-> AbstractHolder[r]]
      /\ AbstractHolder' = [r \in RunIds |-> AbstractHolder'[r]]
  BY DEF AbstractHolder
<1> QED
  BY <1>1, <1>3, <1>4, <1>5, <1>6, <1>7

\* What Authority sees of the attempts that gave up their run.
LEMMA MovedReleased ==
  ASSUME FencingInv, NEW t \in Attempt, NEW status,
         tokens' = [tokens EXCEPT ![KeyOf(t)] = [attempt |-> t, status |-> status]],
         \/ tokens[KeyOf(t)] = None
         \/ tokens[KeyOf(t)] = [attempt |-> t, status |-> "ACTIVE"]
  PROVE  AbstractReleased' =
           IF status = "FAILED" THEN AbstractReleased \cup {t} ELSE AbstractReleased
<1>1. KeyOf(t) \in Keys /\ DOMAIN tokens = Keys
  BY AttemptFields, InvTypes, Items
<1>2. /\ tokens'[KeyOf(t)] = [attempt |-> t, status |-> status]
      /\ \A k \in Keys : k # KeyOf(t) => tokens'[k] = tokens[k]
  BY <1>1
<1>3. tokens'[KeyOf(t)].attempt = t /\ tokens'[KeyOf(t)].status = status
  BY <1>2
<1>4. status = "FAILED" => tokens'[KeyOf(t)] # None
  BY <1>2, NoneAssumption DEF TokenItem
<1>5. tokens[KeyOf(t)] = None \/ tokens[KeyOf(t)].status # "FAILED"
  OBVIOUS
<1>6. AbstractReleased =
        {tokens[k].attempt : k \in {j \in Keys : tokens[j] # None /\ tokens[j].status = "FAILED"}}
  BY DEF AbstractReleased, Keys
<1>7. AbstractReleased' =
        {tokens'[k].attempt :
           k \in {j \in Keys : tokens'[j] # None /\ tokens'[j].status = "FAILED"}}
  BY DEF AbstractReleased, Keys
<1>8. {j \in Keys : tokens'[j] # None /\ tokens'[j].status = "FAILED"}
        = IF status = "FAILED"
          THEN {j \in Keys : tokens[j] # None /\ tokens[j].status = "FAILED"} \cup {KeyOf(t)}
          ELSE {j \in Keys : tokens[j] # None /\ tokens[j].status = "FAILED"}
  BY <1>1, <1>2, <1>3, <1>4, <1>5
<1> DEFINE F == {j \in Keys : tokens[j] # None /\ tokens[j].status = "FAILED"}
<1>9. \A k \in F : k # KeyOf(t) /\ tokens'[k].attempt = tokens[k].attempt
  BY <1>2, <1>5
<1>10. CASE status = "FAILED"
  <2>1. AbstractReleased' = {tokens'[k].attempt : k \in F \cup {KeyOf(t)}}
    BY <1>7, <1>8, <1>10
  <2> HIDE DEF F
  <2>2. AbstractReleased' = {tokens'[k].attempt : k \in F} \cup {t}
    BY <1>3, <2>1
  <2>3. {tokens'[k].attempt : k \in F} = {tokens[k].attempt : k \in F}
    BY <1>9
  <2> QED
    BY <1>6, <1>10, <2>2, <2>3 DEF F
<1>11. CASE status # "FAILED"
  <2>1. AbstractReleased' = {tokens'[k].attempt : k \in F}
    BY <1>7, <1>8, <1>11
  <2> HIDE DEF F
  <2>2. {tokens'[k].attempt : k \in F} = {tokens[k].attempt : k \in F}
    BY <1>9
  <2> QED
    BY <1>6, <1>11, <2>1, <2>2 DEF F
<1> QED
  BY <1>10, <1>11

\* A request that answers nobody and leaves runs, attempts and roots alone is no
\* step of Authority.
LEMMA QuietRefines ==
  ASSUME UNCHANGED <<registrations, tokens, roots, issued, acknowledged>>
  PROVE  UNCHANGED Promise!vars
BY SameAbstraction DEF AbstractState, Promise!vars

\* The put that creates a run's item is Register.
LEMMA RegisterPutRefines ==
  ASSUME FencingInv, NEW c \in Callers, RegisterPut(c)
  PROVE  [Promise!Next]_(Promise!vars)
<1> DEFINE r == call[c].run_id
           reg == [namespace |-> call[c].namespace, identity |-> call[c].identity]
           item == [namespace |-> call[c].namespace, identity |-> call[c].identity,
                    status |-> "REGISTERED", active |-> None, commit |-> Genesis]
<1>1. CASE registrations[r] = None
  <2>1. call[c] \in RegisterCall
    BY InvTypes, CallShape DEF RegisterPut, At
  <2>2. r \in RunIds /\ reg \in Promise!Registration
    BY <2>1 DEF RegisterCall, Promise!Registration
  <2>3. item # None
    <3>1. item \in RegistrationItem
      BY <2>1, EmptySeq DEF RegisterCall, RegistrationItem, Genesis
    <3> QED
      BY <3>1, NoneAssumption
  <2>4. item.namespace = reg.namespace /\ item.identity = reg.identity
        /\ item.active = None
        /\ reg = [namespace |-> item.namespace, identity |-> item.identity]
    OBVIOUS
  <2>5. /\ registrations' = [registrations EXCEPT ![r] = item]
        /\ UNCHANGED <<tokens, roots, issued, acknowledged>>
    BY <1>1 DEF RegisterPut, results
  <2>6. DOMAIN registrations = RunIds
    BY InvTypes, Items
  <2> HIDE DEF r, reg, item
  <2>7. /\ registrations'[r] = item
        /\ \A q \in RunIds : q # r => registrations'[q] = registrations[q]
    BY <2>2, <2>5, <2>6
  <2>8. AbstractRegistration[r] = None
    BY <1>1, <2>2 DEF AbstractRegistration, r
  <2>9. AbstractRegistration' = [AbstractRegistration EXCEPT ![r] = reg]
    BY <2>2, <2>3, <2>4, <2>7 DEF AbstractRegistration
  <2>10. AbstractHolder' = AbstractHolder
    <3>1. registrations[r] = None
      BY <1>1 DEF r
    <3> QED
      BY <2>2, <2>4, <2>5, <2>7, <3>1 DEF AbstractHolder
  <2>11. AbstractReleased' = AbstractReleased
    BY <2>5 DEF AbstractReleased
  <2>12. Promise!Register(r, reg)
    BY <2>5, <2>8, <2>9, <2>10, <2>11 DEF Promise!Register
  <2> QED
    BY <2>2, <2>12 DEF Promise!Next
<1>2. CASE registrations[r] # None
  BY <1>2, QuietRefines DEF RegisterPut, results
<1> QED
  BY <1>1, <1>2

\* An admission the service applies is Admit, whether its answer arrives or not.
LEMMA AdmitRefines ==
  ASSUME FencingInv, NEW t \in Attempt, ApplyAdmit(t), Fresh(t),
         NEW delivered \in BOOLEAN,
         issued' = Promise!Told(issued, t, delivered), acknowledged' = acknowledged
  PROVE  Promise!Next
<1> DEFINE r == t.run_id
<1>1. TypeOK /\ Linked
  BY InvTypes DEF FencingInv
<1>2. /\ OpenRun(t, None) /\ tokens[KeyOf(t)] = None
      /\ Moved(t, "ACTIVE", "REGISTERED", OwnershipOf(t)) /\ roots' = roots
  BY <1>1, AdmitEffect
<1>3. /\ AbstractRegistration' = AbstractRegistration
      /\ AbstractRegistration[r] = [namespace |-> t.namespace, identity |-> t.identity]
      /\ AbstractHolder' = [AbstractHolder EXCEPT ![r] = t]
  BY <1>1, <1>2, MovedAbstraction
<1>4. AbstractReleased' = AbstractReleased
  <2>1. tokens' = [tokens EXCEPT ![KeyOf(t)] = [attempt |-> t, status |-> "ACTIVE"]]
    BY <1>2 DEF Moved
  <2>2. AbstractReleased' =
          IF "ACTIVE" = "FAILED" THEN AbstractReleased \cup {t} ELSE AbstractReleased
    BY <1>2, <2>1, MovedReleased
  <2> QED
    BY <2>2
<1>5. /\ r \in RunIds /\ t.attempt_id \in AttemptIds /\ t.owner \in Owners
      /\ t.namespace \in Namespaces /\ t.identity \in Identities
      /\ t = [namespace |-> t.namespace, run_id |-> r, identity |-> t.identity,
              attempt_id |-> t.attempt_id, owner |-> t.owner, fence |-> t.fence]
  BY DEF Attempt
<1>6. t.fence \in 1..MaxFence
  BY <1>1, <1>5, DynamoBounds DEF Fresh, TypeOK
<1>7. /\ registrations[r] # None /\ registrations[r].status = "REGISTERED"
      /\ AbstractHolder[r] = None
  BY <1>2, <1>5 DEF OpenRun, Registered, AbstractHolder
<1> HIDE DEF r
<1>8. AbstractRegistration[r] # None
  BY <1>3, <1>5, NoneAssumption
<1>9. ASSUME NEW u \in Promise!CommittedAttempts
      PROVE  u.run_id # t.run_id
  <2>1. u \in Attempt /\ tokens[KeyOf(u)] = [attempt |-> u, status |-> "COMMITTED"]
    BY CommittedIs
  <2>2. /\ tokens[KeyOf(u)] # None /\ tokens[KeyOf(u)].status = "COMMITTED"
        /\ u.run_id \in RunIds /\ u.attempt_id \in AttemptIds
    BY <2>1, AttemptFields, NoneAssumption DEF TokenItem, Attempt
  <2>3. registrations[u.run_id].status = "COMMITTED"
    BY <1>1, <2>2 DEF Linked, Kept, KeyOf
  <2> QED
    BY <1>7, <2>3 DEF r
<1>10. ASSUME NEW u \in Promise!Granted
       PROVE  /\ <<u.run_id, u.attempt_id>> # <<t.run_id, t.attempt_id>>
              /\ <<u.namespace, u.fence>> # <<t.namespace, t.fence>>
  <2>1. u \in Attempt /\ tokens[KeyOf(u)] # None /\ tokens[KeyOf(u)].attempt = u
    BY GrantedIs
  <2>2. KeyOf(u) # KeyOf(t) /\ KeyOf(u) \in Keys
    BY <1>2, <2>1, AttemptFields
  <2>3. ~ SameFence(u, t)
    BY <2>1, <2>2 DEF Fresh
  <2> QED
    BY <2>2, <2>3 DEF KeyOf, SameFence
<1>11. Promise!NewAttempt(r, t.attempt_id, t.owner, t.fence) = t
  BY <1>3, <1>5 DEF Promise!NewAttempt
<1>12. Promise!Admit(t, delivered)
  BY <1>2, <1>3, <1>4, <1>7, <1>9, <1>10 DEF Promise!Admit, r
<1> QED
  BY <1>5, <1>6, <1>7, <1>8, <1>11, <1>12 DEF Promise!Next

\* A failure the service applies is Release.
LEMMA FailRefines ==
  ASSUME FencingInv, NEW t \in Attempt, ApplyFail(t), UNCHANGED <<issued, acknowledged>>
  PROVE  Promise!Next
<1>1. TypeOK /\ Linked
  BY InvTypes DEF FencingInv
<1>2. /\ OpenRun(t, OwnershipOf(t))
      /\ tokens[KeyOf(t)] = [attempt |-> t, status |-> "ACTIVE"]
      /\ Moved(t, "FAILED", "REGISTERED", None) /\ roots' = roots
  BY <1>1, FailEffect
<1>3. /\ AbstractRegistration' = AbstractRegistration
      /\ AbstractHolder' = [AbstractHolder EXCEPT ![t.run_id] = None]
  BY <1>1, <1>2, MovedAbstraction
<1>4. AbstractReleased' = AbstractReleased \cup {t}
  BY <1>2, MovedReleased DEF Moved
<1>5. t.run_id \in RunIds /\ AbstractHolder[t.run_id] = t /\ t # None
  BY <1>2, HolderOf, AttemptFields, NoneAssumption
<1>6. Promise!Release(t)
  BY <1>2, <1>3, <1>4, <1>5 DEF Promise!Release
<1> QED
  BY <1>5, <1>6 DEF Promise!Next

\* A publication the service applies is Publish, whether its answer arrives or
\* not.
LEMMA PublishRefines ==
  ASSUME FencingInv, NEW t \in Attempt, NEW p \in Seq(Entry),
         NEW preparation \in Preparations, ApplyPublish(t, p, preparation),
         NEW delivered \in BOOLEAN, issued' = issued,
         acknowledged' = Promise!Told(acknowledged, Digest(t, p, preparation), delivered)
  PROVE  Promise!Next
<1>1. TypeOK /\ Linked
  BY InvTypes DEF FencingInv
<1>2. /\ OpenRun(t, OwnershipOf(t))
      /\ tokens[KeyOf(t)] = [attempt |-> t, status |-> "ACTIVE"]
      /\ Moved(t, "COMMITTED", "COMMITTED", OwnershipOf(t))
      /\ roots[t.namespace] = p
      /\ roots' = [roots EXCEPT ![t.namespace] = Digest(t, p, preparation)]
  BY <1>1, PublishEffect
<1>3. /\ AbstractRegistration' = AbstractRegistration
      /\ AbstractHolder' = [AbstractHolder EXCEPT ![t.run_id] = None]
  <2>1. UNCHANGED AbstractRegistration
        /\ ("COMMITTED" # "REGISTERED" \/ OwnershipOf(t) = None =>
              AbstractHolder' = [AbstractHolder EXCEPT ![t.run_id] = None])
    BY <1>1, <1>2, MovedAbstraction
  <2> QED
    BY <2>1
<1>4. AbstractReleased' = AbstractReleased
  BY <1>2, MovedReleased DEF Moved
<1>5. t.run_id \in RunIds /\ AbstractHolder[t.run_id] = t /\ t # None
  BY <1>2, HolderOf, AttemptFields, NoneAssumption
<1>6. Append(roots[t.namespace], [attempt |-> t, preparation |-> preparation])
        = Digest(t, p, preparation)
  BY <1>2 DEF Digest
<1>7. Promise!Publish(t, preparation, delivered)
  BY <1>2, <1>3, <1>4, <1>5, <1>6 DEF Promise!Publish
<1> QED
  BY <1>5, <1>7 DEF Promise!Next

\* Every write the service applies is a step of Authority; "delivered" tells
\* whether its caller hears of it.
LEMMA ApplyRefines ==
  ASSUME FencingInv, NEW w \in Write, Apply(w), w.kind = "admit" => Fresh(w.attempt),
         Succeed(w) \/ UNCHANGED results
  PROVE  Promise!Next
<1>1. /\ w.attempt \in Attempt
      /\ w.kind = "publish" => w.predecessor \in Seq(Entry) /\ w.preparation \in Preparations
  BY WriteShape
<1>2. CASE w.kind = "admit"
  <2>1. ApplyAdmit(w.attempt) /\ Fresh(w.attempt)
    BY <1>2 DEF Apply
  <2>2. PICK delivered \in BOOLEAN : issued' = Promise!Told(issued, w.attempt, delivered)
    BY <1>2 DEF Succeed, results, Promise!Told
  <2>3. acknowledged' = acknowledged
    BY <1>2 DEF Succeed, results
  <2> QED
    BY <1>1, <2>1, <2>2, <2>3, AdmitRefines
<1>3. CASE w.kind = "fail"
  <2>1. ApplyFail(w.attempt)
    BY <1>3 DEF Apply
  <2>2. UNCHANGED <<issued, acknowledged>>
    BY <1>3 DEF Succeed, results
  <2> QED
    BY <1>1, <2>1, <2>2, FailRefines
<1>4. CASE w.kind = "publish"
  <2>1. ApplyPublish(w.attempt, w.predecessor, w.preparation)
    BY <1>4 DEF Apply
  <2>2. PICK delivered \in BOOLEAN :
          acknowledged' = Promise!Told(acknowledged,
                            Digest(w.attempt, w.predecessor, w.preparation), delivered)
    BY <1>4 DEF Succeed, results, Promise!Told
  <2>3. issued' = issued
    BY <1>4 DEF Succeed, results
  <2> QED
    BY <1>1, <1>4, <2>1, <2>2, <2>3, PublishRefines
<1> QED
  BY <1>2, <1>3, <1>4, WriteShape

\* The answer that a run is committed is Confirm.
LEMMA ConfirmRefines ==
  ASSUME FencingInv, NEW r \in RunIds, Committed(r), UNCHANGED <<table, issued>>,
         acknowledged' = acknowledged \cup {registrations[r].commit}
  PROVE  Promise!Next
<1>1. PICK ns : ns = registrations[r].namespace
  OBVIOUS
<1>2. PICK d : d = registrations[r].commit
  OBVIOUS
<1>3. ns \in Namespaces
  BY <1>1, InvTypes, Items DEF Committed, RegistrationItem
<1>4. Len(d) \in 1..Len(roots[ns]) /\ d = SubSeq(roots[ns], 1, Len(d))
  BY <1>1, <1>2 DEF FencingInv, History, Verdict
<1>5. d \in Promise!Digests(ns)
  BY <1>4 DEF Promise!Digests
<1>6. /\ UNCHANGED <<AbstractRegistration, AbstractHolder, AbstractReleased>>
      /\ UNCHANGED roots
  BY SameAbstraction DEF table, AbstractState
<1>7. Promise!Confirm(ns, d)
  BY <1>2, <1>5, <1>6 DEF Promise!Confirm
<1> QED
  BY <1>3, <1>5, <1>7 DEF Promise!Next

\* A repeated registration of a committed run is Confirm.
LEMMA RegisterWalkRefines ==
  ASSUME FencingInv, NEW c \in Callers, RegisterWalk(c)
  PROVE  Promise!Next
<1>1. call[c] \in RegisterCall
  BY InvTypes, CallShape DEF RegisterWalk, At
<1>2. call[c].run_id \in RunIds
  BY <1>1 DEF RegisterCall
<1>3. /\ Committed(call[c].run_id)
      /\ registrations[call[c].run_id].commit = call[c].commit
  BY DEF FencingInv, Current, RegisterWalk
<1>4. /\ UNCHANGED <<table, issued>>
      /\ acknowledged' = acknowledged \cup {call[c].commit}
  BY DEF RegisterWalk
<1> QED
  BY <1>2, <1>3, <1>4, ConfirmRefines

\* A repeated admission is Reissue.
LEMMA ReplayRunRefines ==
  ASSUME FencingInv, NEW c \in Callers, ReplayRun(c)
  PROVE  Promise!Next
<1>1. PICK t : t = call[c].attempt
  OBVIOUS
<1>2. t \in Attempt
  BY <1>1, InvTypes, CallShape DEF ReplayRun, At, AdmitCall
<1>3. tokens[KeyOf(t)] # None /\ tokens[KeyOf(t)].attempt = t
  BY <1>1 DEF FencingInv, Current, ReplayRun
<1>4. /\ OpenRun(t, OwnershipOf(t)) /\ UNCHANGED table /\ acknowledged' = acknowledged
      /\ issued' = issued \cup {t}
  BY <1>1 DEF ReplayRun
<1>5. /\ t.run_id \in RunIds /\ t # None
      /\ OwnershipOf(t) # None /\ OwnershipOf(t).attempt_id = t.attempt_id
  BY <1>2, AttemptFields, OwnershipType, NoneAssumption DEF OwnershipOf
<1>6. AbstractHolder[t.run_id] = t
  BY <1>3, <1>4, <1>5 DEF OpenRun, Registered, AbstractHolder, KeyOf
<1>7. /\ UNCHANGED <<AbstractRegistration, AbstractHolder, AbstractReleased>>
      /\ UNCHANGED roots
  BY <1>4, SameAbstraction DEF table, AbstractState
<1>8. Promise!Reissue(t)
  BY <1>4, <1>6, <1>7 DEF Promise!Reissue
<1> QED
  BY <1>5, <1>6, <1>8 DEF Promise!Next

\* A publication found to be committed after all is Confirm; a failure found to
\* be recorded is no step.
LEMMA RecoverRunRefines ==
  ASSUME FencingInv, NEW c \in Callers, RecoverRun(c)
  PROVE  [Promise!Next]_(Promise!vars)
<1>1. PICK w : w = call[c].write
  OBVIOUS
<1>2. w \in Write /\ w.kind # "admit"
  BY <1>1, InvTypes, CallShape DEF RecoverRun, At, WriteCall, FencingInv, Current
<1>3. Succeed(w) /\ UNCHANGED table
  BY <1>1 DEF RecoverRun
<1>4. CASE w.kind = "fail"
  BY <1>3, <1>4, QuietRefines DEF Succeed, table
<1>5. CASE w.kind = "publish"
  <2>1. w.attempt.run_id \in RunIds
    BY <1>2, WriteShape, AttemptFields
  <2>2. /\ Committed(w.attempt.run_id)
        /\ registrations[w.attempt.run_id].commit
             = Digest(w.attempt, w.predecessor, w.preparation)
    BY <1>1, <1>5 DEF RecoverRun, Registered, Committed
  <2>3. /\ issued' = issued
        /\ acknowledged' = acknowledged \cup {Digest(w.attempt, w.predecessor, w.preparation)}
    BY <1>3, <1>5 DEF Succeed
  <2> QED
    BY <1>3, <2>1, <2>2, <2>3, ConfirmRefines
<1> QED
  BY <1>2, <1>4, <1>5, WriteShape

\* A transaction, applied or not, answered or not.
LEMMA TransactRefines ==
  ASSUME FencingInv, NEW c \in Callers, Transact(c)
  PROVE  [Promise!Next]_(Promise!vars)
<1>1. PICK w : w = call[c].write
  OBVIOUS
<1>2. w \in Write /\ (w.kind = "admit" => Fresh(w.attempt))
  <2>1. w \in Write
    BY <1>1, InvTypes, CallShape DEF Transact, At, WriteCall
  <2>2. w.kind = "admit" => Fresh(w.attempt)
    BY <1>1 DEF Transact, FencingInv, FreshFences, Admitting
  <2> QED
    BY <2>1, <2>2
<1>3. \/ Apply(w) /\ (Succeed(w) \/ UNCHANGED results)
      \/ UNCHANGED <<table, results>>
  BY <1>1 DEF Transact
<1>4. CASE UNCHANGED <<table, results>>
  BY <1>4, QuietRefines DEF table, results
<1> QED
  BY <1>2, <1>3, <1>4, ApplyRefines

\* A write decided after its caller gave up is a step nobody hears of, or none.
LEMMA LateWriteRefines ==
  ASSUME FencingInv, LateWrite
  PROVE  [Promise!Next]_(Promise!vars)
<1>1. PICK w \in delayed : (Apply(w) \/ UNCHANGED table) /\ UNCHANGED results
  BY DEF LateWrite
<1>2. w \in Write /\ (w.kind = "admit" => Fresh(w.attempt))
  BY InvTypes DEF TypeOK, FencingInv, FreshFences, LateAdmissions
<1>3. CASE UNCHANGED table
  BY <1>1, <1>3, QuietRefines DEF table, results
<1> QED
  BY <1>1, <1>2, <1>3, ApplyRefines

\* Every request is a step of Authority or none.
LEMMA RefinementStep == FencingInv /\ [Next]_vars => [Promise!Next]_(Promise!vars)
<1> SUFFICES ASSUME FencingInv, [Next]_vars
             PROVE  [Promise!Next]_(Promise!vars)
  OBVIOUS
<1>1. CASE UNCHANGED <<table, results>>
  BY <1>1, QuietRefines DEF table, results
<1>2. ASSUME NEW c \in Callers, AdmitCount(c)
      PROVE  [Promise!Next]_(Promise!vars)
  BY <1>2, QuietRefines DEF AdmitCount, results
<1> QED
  BY <1>1, <1>2, RegisterPutRefines, RegisterWalkRefines, ReplayRunRefines,
     RecoverRunRefines, TransactRefines, LateWriteRefines
  DEF Next, vars, Raise, Register, RegisterRead, Admit, AdmitProbe,
      ReplayToken, Fail, Publish, RecoverFirst

\* Whatever calls are made and however their requests interleave, whichever
\* answers are lost and whichever writes arrive late, the table keeps every
\* promise of Authority: each request is one of its steps or none
\* (aws_authority.py 86-368).
THEOREM KeepsPromiseHolds == Spec => KeepsPromise
<1>1. Init => Promise!Init
  <2> SUFFICES ASSUME Init PROVE Promise!Init
    OBVIOUS
  <2>1. \A r \in RunIds : registrations[r] = None
    BY DEF Init
  <2>2. \A k \in RunIds \X AttemptIds : tokens[k] = None
    BY DEF Init
  <2>3. AbstractRegistration = [r \in RunIds |-> None]
    BY <2>1 DEF AbstractRegistration
  <2>4. AbstractHolder = [r \in RunIds |-> None]
    BY <2>1 DEF AbstractHolder
  <2>5. AbstractReleased = {}
    BY <2>2 DEF AbstractReleased
  <2> QED
    BY <2>3, <2>4, <2>5 DEF Init, Genesis, Promise!Init
<1> QED
  BY <1>1, FencingInvariant, RefinementStep, PTL DEF Spec, KeepsPromise, Promise!Spec
=============================================================================
