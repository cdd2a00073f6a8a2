------------------------ MODULE LocalAuthorityProofs ------------------------
(***************************************************************************)
(* Proofs about LocalAuthority for every value of its constants, and that  *)
(* its tables implement Authority.                                         *)
(***************************************************************************)
EXTENDS LocalAuthority, SequenceTheorems, TLAPS

\* What callers are told stays in its type.
LEMMA ReturnedType ==
  ASSUME NEW S, NEW known \in SUBSET S, NEW value \in S, NEW delivered
  PROVE  Returned(known, value, delivered) \in SUBSET S
BY DEF Returned

\* A new digest is a history of entries.
LEMMA DigestType ==
  ASSUME NEW t \in Attempt, NEW predecessor \in Seq(Entry),
         NEW preparation \in Preparations
  PROVE  Digest(t, predecessor, preparation) \in Seq(Entry)
<1>1. [attempt |-> t, preparation |-> preparation] \in Entry
  BY DEF Entry
<1> QED
  BY <1>1 DEF Digest

\* The updates that admit, fail and publish make to a row keep its type.
LEMMA RunRowUpdates ==
  ASSUME NEW row \in RunRow
  PROVE  /\ \A a \in AttemptIds \cup {None} :
              [row EXCEPT !.active_attempt = a] \in RunRow
         /\ \A d \in Seq(Entry) :
              [row EXCEPT !.status = "COMMITTED", !.committed = d] \in RunRow
BY DEF RunRow

\* A new status keeps the type of a row of attempts.
LEMMA AttemptRowUpdates ==
  ASSUME NEW row \in AttemptRow, NEW s \in {"ACTIVE", "FAILED", "COMMITTED"}
  PROVE  [row EXCEPT !.status = s] \in AttemptRow
BY DEF AttemptRow

\* Setting the status of an existing attempt.
LEMMA AttemptsUpdate ==
  ASSUME TypeOK, NEW f \in DOMAIN attempts,
         NEW s \in {"ACTIVE", "FAILED", "COMMITTED"}
  PROVE  LET new == [attempts EXCEPT ![f] = [@ EXCEPT !.status = s]] IN
         /\ new \in Seq(AttemptRow)
         /\ Len(new) = Len(attempts)
<1>1. attempts \in Seq(AttemptRow) /\ f \in 1..Len(attempts)
  BY DEF TypeOK
<1>2. attempts[f] \in AttemptRow
  BY <1>1
<1>3. [attempts[f] EXCEPT !.status = s] \in AttemptRow
  BY <1>2, AttemptRowUpdates
<1> QED
  BY <1>1, <1>3, ExceptSeq

\* Every predecessor a caller may plan on is a history of entries.
LEMMA PredecessorsType == TypeOK => Predecessors \subseteq Seq(Entry)
<1>1. Genesis \in Seq(Entry)
  BY EmptySeq DEF Genesis
<1> QED
  BY <1>1 DEF TypeOK, Predecessors

\* The empty tables are well typed.
LEMMA TypeInit == Init => TypeOK
<1> SUFFICES ASSUME Init PROVE TypeOK
  OBVIOUS
<1>1. AbsentRun \in RunRow
  BY DEF AbsentRun, RunRow, Genesis
<1> QED
  BY <1>1, MaxFenceAssumption DEF Init, TypeOK, Genesis

\* Every call keeps the tables well typed.
LEMMA TypeStep == TypeOK /\ [Next]_vars => TypeOK'
<1> SUFFICES ASSUME TypeOK, [Next]_vars PROVE TypeOK'
  OBVIOUS
<1> USE DEF TypeOK
<1>1. ASSUME NEW ns \in Namespaces, NEW r \in RunIds, NEW i \in Identities,
             RegisterNew(ns, r, i)
      PROVE  TypeOK'
  BY <1>1 DEF RegisterNew, RunRow, Genesis
<1>2. ASSUME NEW ns \in Namespaces, NEW r \in RunIds, NEW i \in Identities,
             RegisterReplay(ns, r, i)
      PROVE  TypeOK'
  <2>1. runs[r].committed \in Seq(Entry)
    BY DEF RunRow
  <2>2. acknowledged' \in SUBSET Seq(Entry)
    BY <1>2, <2>1, ReturnedType DEF RegisterReplay
  <2> QED
    BY <1>2, <2>2 DEF RegisterReplay, tables
<1>3. ASSUME NEW t \in Attempt, NEW delivered \in BOOLEAN,
             AdmitNew(t, delivered)
      PROVE  TypeOK'
  <2>1. issued' \in SUBSET Attempt
    BY <1>3, ReturnedType DEF AdmitNew
  <2>2. [namespace |-> t.namespace, run_id |-> t.run_id,
         attempt_id |-> t.attempt_id, owner |-> t.owner,
         status |-> "ACTIVE"] \in AttemptRow
    BY DEF Attempt, AttemptRow
  <2>3. attempts' \in Seq(AttemptRow) /\ Len(attempts') <= MaxFence
    BY <1>3, <2>2, MaxFenceAssumption DEF AdmitNew
  <2>4. runs' \in [RunIds -> RunRow]
    <3>1. t.run_id \in RunIds /\ t.attempt_id \in AttemptIds
      BY DEF Attempt
    <3>2. [runs[t.run_id] EXCEPT !.active_attempt = t.attempt_id] \in RunRow
      BY <3>1, RunRowUpdates
    <3> QED
      BY <1>3, <3>1, <3>2 DEF AdmitNew
  <2> QED
    BY <1>3, <2>1, <2>3, <2>4 DEF AdmitNew
<1>4. ASSUME NEW t \in Attempt, NEW delivered \in BOOLEAN,
             AdmitReplay(t, delivered)
      PROVE  TypeOK'
  <2>1. issued' \in SUBSET Attempt
    BY <1>4, ReturnedType DEF AdmitReplay
  <2> QED
    BY <1>4, <2>1 DEF AdmitReplay, tables
<1>5. ASSUME NEW t \in issued, Fail(t)
      PROVE  TypeOK'
  <2>1. attempts' \in Seq(AttemptRow) /\ Len(attempts') <= MaxFence
    BY <1>5, AttemptsUpdate DEF Fail, SetStatus, Owns
  <2>2. runs' \in [RunIds -> RunRow]
    <3>1. t.run_id \in RunIds
      BY DEF Attempt
    <3>2. [runs[t.run_id] EXCEPT !.active_attempt = None] \in RunRow
      BY <3>1, RunRowUpdates
    <3> QED
      BY <1>5, <3>1, <3>2 DEF Fail
  <2> QED
    BY <1>5, <2>1, <2>2 DEF Fail
<1>6. ASSUME NEW t \in issued, NEW predecessor \in Predecessors,
             NEW preparation \in Preparations, NEW delivered \in BOOLEAN,
             PublishNew(t, predecessor, preparation, delivered)
      PROVE  TypeOK'
  <2> DEFINE d == Digest(t, predecessor, preparation)
  <2>1. predecessor \in Seq(Entry)
    BY PredecessorsType
  <2>2. d \in Seq(Entry)
    BY <2>1, DigestType
  <2> HIDE DEF d
  <2>3. acknowledged' \in SUBSET Seq(Entry)
    BY <1>6, <2>2, ReturnedType DEF PublishNew, Commit, d
  <2>4. attempts' \in Seq(AttemptRow) /\ Len(attempts') <= MaxFence
    BY <1>6, AttemptsUpdate DEF PublishNew, Commit, SetStatus, Owns
  <2>5. runs' \in [RunIds -> RunRow]
    <3>1. t.run_id \in RunIds
      BY DEF Attempt
    <3>2. [runs[t.run_id] EXCEPT !.status = "COMMITTED", !.committed = d]
            \in RunRow
      BY <2>2, <3>1, RunRowUpdates
    <3> QED
      BY <1>6, <3>1, <3>2 DEF PublishNew, Commit, d
  <2>6. roots' \in [Namespaces -> Seq(Entry)] /\ commits' \in SUBSET Seq(Entry)
    BY <1>6, <2>2 DEF PublishNew, Commit, d
  <2> QED
    BY <1>6, <2>3, <2>4, <2>5, <2>6 DEF PublishNew, Commit
<1>7. ASSUME NEW t \in issued, NEW predecessor \in Predecessors,
             NEW preparation \in Preparations, NEW delivered \in BOOLEAN,
             PublishReplay(t, predecessor, preparation, delivered)
      PROVE  TypeOK'
  <2>1. Digest(t, predecessor, preparation) \in Seq(Entry)
    BY DigestType, PredecessorsType
  <2>2. acknowledged' \in SUBSET Seq(Entry)
    BY <1>7, <2>1, ReturnedType DEF PublishReplay
  <2> QED
    BY <1>7, <2>2 DEF PublishReplay, tables
<1>8. CASE UNCHANGED vars
  BY <1>8 DEF vars
<1> QED
  BY <1>1, <1>2, <1>3, <1>4, <1>5, <1>6, <1>7, <1>8 DEF Next

\* Every reachable state is well typed.
THEOREM TypeCorrect == Spec => []TypeOK
BY TypeInit, TypeStep, PTL DEF Spec

-----------------------------------------------------------------------------
(* Ownership.                                                              *)

\* What the tables say of each other at every moment: a row of attempts names
\* a registered run of its namespace, an ACTIVE row is the one its run points
\* at, a COMMITTED row's run is committed, and a run's pointer has its row.
Linked ==
  /\ \A f \in DOMAIN attempts :
       LET row == attempts[f] IN
       /\ runs[row.run_id].namespace = row.namespace
       /\ runs[row.run_id].status # "ABSENT"
       /\ row.status = "ACTIVE" =>
            /\ runs[row.run_id].status = "REGISTERED"
            /\ runs[row.run_id].active_attempt = row.attempt_id
       /\ row.status = "COMMITTED" => runs[row.run_id].status = "COMMITTED"
  /\ \A r \in RunIds :
       runs[r].status = "REGISTERED" /\ runs[r].active_attempt # None =>
         \E f \in DOMAIN attempts :
           /\ attempts[f].run_id = r
           /\ attempts[f].attempt_id = runs[r].active_attempt
           /\ attempts[f].status = "ACTIVE"

OwnershipInv == TypeOK /\ Linked /\ NewestFenceOwns

\* What TypeOK says of one row and one run, in the form the steps below use.
LEMMA Rows ==
  ASSUME TypeOK
  PROVE  /\ \A f \in DOMAIN attempts :
              /\ f \in Nat
              /\ attempts[f] \in AttemptRow
              /\ attempts[f].run_id \in RunIds
              /\ attempts[f].attempt_id # None
              /\ attempts[f].status \in {"ACTIVE", "FAILED", "COMMITTED"}
         /\ DOMAIN attempts = 1..Len(attempts)
         /\ DOMAIN runs = RunIds
         /\ \A r \in RunIds : runs[r] \in RunRow
<1>1. attempts \in Seq(AttemptRow) /\ runs \in [RunIds -> RunRow]
  BY DEF TypeOK
<1>2. DOMAIN attempts = 1..Len(attempts)
  BY <1>1
<1>3. \A f \in DOMAIN attempts : f \in Nat /\ attempts[f] \in AttemptRow
  BY <1>1, <1>2
<1>4. \A row \in AttemptRow :
        /\ row.run_id \in RunIds /\ row.attempt_id # None
        /\ row.status \in {"ACTIVE", "FAILED", "COMMITTED"}
  BY NoneAssumption DEF AttemptRow
<1> QED
  BY <1>1, <1>2, <1>3, <1>4

\* Setting the status of row f leaves every other row, and the rest of f.
LEMMA StatusOnly ==
  ASSUME TypeOK, NEW f \in DOMAIN attempts, NEW s,
         attempts' = [attempts EXCEPT ![f] = [@ EXCEPT !.status = s]]
  PROVE  /\ DOMAIN attempts' = DOMAIN attempts
         /\ \A g \in DOMAIN attempts :
              /\ attempts'[g].run_id = attempts[g].run_id
              /\ attempts'[g].namespace = attempts[g].namespace
              /\ attempts'[g].attempt_id = attempts[g].attempt_id
              /\ g # f => attempts'[g] = attempts[g]
         /\ attempts'[f].status = s
<1>1. attempts[f] \in AttemptRow
  BY Rows
<1>2. attempts'[f] = [attempts[f] EXCEPT !.status = s]
  OBVIOUS
<1> QED
  BY <1>1, <1>2 DEF AttemptRow

\* The row an owner holds is the only one of its run that has not failed.
LEMMA SoleOwner ==
  ASSUME OwnershipInv, NEW t \in Attempt, Owns(t)
  PROVE  /\ t.fence \in DOMAIN attempts /\ t.run_id \in RunIds
         /\ attempts[t.fence].run_id = t.run_id
         /\ attempts[t.fence].namespace = t.namespace
         /\ attempts[t.fence].status = "ACTIVE"
         /\ \A g \in DOMAIN attempts :
              attempts[g].run_id = t.run_id /\ g # t.fence =>
                attempts[g].status = "FAILED"
<1>1. /\ t.fence \in DOMAIN attempts /\ t.run_id \in RunIds
      /\ attempts[t.fence].run_id = t.run_id
      /\ attempts[t.fence].namespace = t.namespace
      /\ attempts[t.fence].status = "ACTIVE"
  BY DEF Owns, Attempt
<1>2. ASSUME NEW g \in DOMAIN attempts, attempts[g].run_id = t.run_id,
             g # t.fence, attempts[g].status # "FAILED"
      PROVE  FALSE
  <2>1. g \in Nat /\ t.fence \in Nat
    BY <1>1, Rows DEF OwnershipInv
  <2>2. g <= t.fence /\ t.fence <= g
    BY <1>1, <1>2 DEF OwnershipInv, NewestFenceOwns
  <2> QED
    BY <1>2, <2>1, <2>2
<1> QED
  BY <1>1, <1>2

\* An owner's row that leaves ACTIVE together with its run's pointer leaves
\* the tables linked: the effect fail and publish have in common.
LEMMA CloseAttempt ==
  ASSUME OwnershipInv, NEW t \in Attempt, Owns(t),
         NEW s \in {"FAILED", "COMMITTED"}, SetStatus(t, s),
         runs'[t.run_id].namespace = runs[t.run_id].namespace,
         runs'[t.run_id].status # "ABSENT",
         s = "COMMITTED" => runs'[t.run_id].status = "COMMITTED",
         runs'[t.run_id].status = "REGISTERED" =>
           runs'[t.run_id].active_attempt = None,
         \A r \in RunIds : r # t.run_id => runs'[r] = runs[r]
  PROVE  Linked' /\ NewestFenceOwns'
<1> DEFINE f == t.fence
<1>1. /\ f \in DOMAIN attempts /\ t.run_id \in RunIds
      /\ attempts[f].run_id = t.run_id /\ attempts[f].namespace = t.namespace
      /\ attempts[f].status = "ACTIVE"
      /\ \A g \in DOMAIN attempts :
           attempts[g].run_id = t.run_id /\ g # f => attempts[g].status = "FAILED"
  BY SoleOwner
<1>2. /\ DOMAIN attempts' = DOMAIN attempts
      /\ \A g \in DOMAIN attempts :
           /\ attempts'[g].run_id = attempts[g].run_id
           /\ attempts'[g].namespace = attempts[g].namespace
           /\ attempts'[g].attempt_id = attempts[g].attempt_id
           /\ g # f => attempts'[g] = attempts[g]
      /\ attempts'[f].status = s
  <2>1. attempts' = [attempts EXCEPT ![f] = [@ EXCEPT !.status = s]]
    BY DEF SetStatus
  <2>2. TypeOK /\ f \in DOMAIN attempts
    BY <1>1 DEF OwnershipInv
  <2> HIDE DEF f
  <2> QED
    BY <2>1, <2>2, StatusOnly
<1>3. \A g \in DOMAIN attempts : g \in Nat /\ attempts[g].run_id \in RunIds
  BY Rows DEF OwnershipInv
<1> HIDE DEF f
<1>4. Linked'
  <2>1. ASSUME NEW g \in DOMAIN attempts
        PROVE  LET row == attempts'[g] IN
               /\ runs'[row.run_id].namespace = row.namespace
               /\ runs'[row.run_id].status # "ABSENT"
               /\ row.status = "ACTIVE" =>
                    /\ runs'[row.run_id].status = "REGISTERED"
                    /\ runs'[row.run_id].active_attempt = row.attempt_id
               /\ row.status = "COMMITTED" =>
                    runs'[row.run_id].status = "COMMITTED"
    <3>1. CASE g = f
      BY <1>1, <1>2, <3>1 DEF OwnershipInv, Linked
    <3>2. CASE g # f /\ attempts[g].run_id = t.run_id
      BY <1>1, <1>2, <3>2 DEF OwnershipInv, Linked
    <3>3. CASE attempts[g].run_id # t.run_id
      <4>1. attempts'[g] = attempts[g]
        BY <1>1, <1>2, <3>3
      <4>2. runs'[attempts[g].run_id] = runs[attempts[g].run_id]
        BY <1>3, <3>3
      <4> QED
        BY <4>1, <4>2 DEF OwnershipInv, Linked
    <3> QED
      BY <3>1, <3>2, <3>3
  <2>2. ASSUME NEW r \in RunIds, runs'[r].status = "REGISTERED",
               runs'[r].active_attempt # None
        PROVE  \E g \in DOMAIN attempts :
                 /\ attempts'[g].run_id = r
                 /\ attempts'[g].attempt_id = runs'[r].active_attempt
                 /\ attempts'[g].status = "ACTIVE"
    <3>1. r # t.run_id /\ runs'[r] = runs[r]
      BY <2>2
    <3>2. PICK g \in DOMAIN attempts :
                 /\ attempts[g].run_id = r
                 /\ attempts[g].attempt_id = runs[r].active_attempt
                 /\ attempts[g].status = "ACTIVE"
      BY <2>2, <3>1 DEF OwnershipInv, Linked
    <3>3. attempts'[g] = attempts[g]
      BY <1>1, <1>2, <3>1, <3>2
    <3> QED
      BY <3>1, <3>2, <3>3
  <2> QED
    BY <1>2, <2>1, <2>2 DEF Linked
<1>5. NewestFenceOwns'
  <2> SUFFICES ASSUME NEW g \in DOMAIN attempts, NEW h \in DOMAIN attempts,
                      attempts'[g].run_id = attempts'[h].run_id,
                      attempts'[g].status # "FAILED"
               PROVE  h <= g
    BY <1>2 DEF NewestFenceOwns
  <2>1. attempts[g].run_id = attempts[h].run_id
    BY <1>2
  <2>2. attempts[g].status # "FAILED"
    BY <1>1, <1>2
  <2> QED
    BY <2>1, <2>2 DEF OwnershipInv, NewestFenceOwns
<1> QED
  BY <1>4, <1>5

\* OwnershipInv is inductive.
LEMMA OwnershipStep == OwnershipInv /\ TypeOK' /\ [Next]_vars => OwnershipInv'
<1> SUFFICES ASSUME OwnershipInv, TypeOK', [Next]_vars
             PROVE  Linked' /\ NewestFenceOwns'
  BY DEF OwnershipInv
<1>0. CASE UNCHANGED <<runs, attempts>>
  BY <1>0 DEF OwnershipInv, Linked, NewestFenceOwns
<1>r. /\ DOMAIN attempts = 1..Len(attempts) /\ DOMAIN runs = RunIds
      /\ \A f \in DOMAIN attempts :
           /\ f \in Nat /\ attempts[f].run_id \in RunIds
           /\ attempts[f].attempt_id # None
           /\ attempts[f].status \in {"ACTIVE", "FAILED", "COMMITTED"}
      /\ \A r \in RunIds : runs[r] \in RunRow
  BY Rows DEF OwnershipInv
<1>t. issued \subseteq Attempt
  BY DEF OwnershipInv, TypeOK
<1>1. ASSUME NEW ns \in Namespaces, NEW r \in RunIds, NEW i \in Identities,
             RegisterNew(ns, r, i)
      PROVE  Linked' /\ NewestFenceOwns'
  <2>1. attempts' = attempts
    BY <1>1 DEF RegisterNew
  <2>2. /\ runs'[r].status = "REGISTERED" /\ runs'[r].active_attempt = None
        /\ \A q \in RunIds : q # r => runs'[q] = runs[q]
    BY <1>1, <1>r DEF RegisterNew
  <2>3. \A f \in DOMAIN attempts : attempts[f].run_id # r
    BY <1>1 DEF RegisterNew, OwnershipInv, Linked
  <2>4. Linked'
    BY <1>r, <2>1, <2>2, <2>3 DEF OwnershipInv, Linked
  <2>5. NewestFenceOwns'
    BY <2>1 DEF OwnershipInv, NewestFenceOwns
  <2> QED
    BY <2>4, <2>5
<1>2. ASSUME NEW t \in Attempt, NEW delivered \in BOOLEAN,
             AdmitNew(t, delivered)
      PROVE  Linked' /\ NewestFenceOwns'
  <2> DEFINE n == Len(attempts) + 1
             row == [namespace |-> t.namespace, run_id |-> t.run_id,
                     attempt_id |-> t.attempt_id, owner |-> t.owner,
                     status |-> "ACTIVE"]
  <2>1. t.run_id \in RunIds /\ t.attempt_id # None
    BY NoneAssumption DEF Attempt
  <2>2. /\ Len(attempts) \in Nat
        /\ DOMAIN attempts' = 1..n
        /\ attempts'[n] = row
        /\ \A f \in DOMAIN attempts : f # n /\ attempts'[f] = attempts[f]
    <3>1. attempts \in Seq(AttemptRow) /\ attempts' = Append(attempts, row)
      BY <1>2 DEF AdmitNew, OwnershipInv, TypeOK
    <3> HIDE DEF row
    <3> QED
      BY <3>1
  <2>3. /\ runs[t.run_id].namespace = t.namespace
        /\ runs[t.run_id].status = "REGISTERED"
        /\ runs[t.run_id].active_attempt = None
    BY <1>2 DEF AdmitNew, Admissible
  <2>4. /\ runs'[t.run_id].namespace = t.namespace
        /\ runs'[t.run_id].status = "REGISTERED"
        /\ runs'[t.run_id].active_attempt = t.attempt_id
        /\ \A q \in RunIds : q # t.run_id => runs'[q] = runs[q]
    <3>1. runs' = [runs EXCEPT ![t.run_id] =
                     [runs[t.run_id] EXCEPT !.active_attempt = t.attempt_id]]
      BY <1>2 DEF AdmitNew
    <3>2. runs[t.run_id] \in RunRow
      BY <1>r, <2>1
    <3> QED
      BY <1>r, <2>1, <2>3, <3>1, <3>2 DEF RunRow
  <2>5. \A f \in DOMAIN attempts :
          attempts[f].run_id = t.run_id => attempts[f].status = "FAILED"
    BY <1>r, <2>3 DEF OwnershipInv, Linked
  <2>6. row.run_id = t.run_id /\ row.namespace = t.namespace
        /\ row.attempt_id = t.attempt_id /\ row.status = "ACTIVE"
    OBVIOUS
  <2>d. \A f \in DOMAIN attempts' : f = n \/ f \in DOMAIN attempts
    BY <1>r, <2>2
  <2>e. n \in DOMAIN attempts' /\ DOMAIN attempts \subseteq DOMAIN attempts'
    BY <1>r, <2>2
  <2> HIDE DEF row, n
  <2>7. Linked'
    <3>1. ASSUME NEW f \in DOMAIN attempts'
          PROVE  LET new == attempts'[f] IN
                 /\ runs'[new.run_id].namespace = new.namespace
                 /\ runs'[new.run_id].status # "ABSENT"
                 /\ new.status = "ACTIVE" =>
                      /\ runs'[new.run_id].status = "REGISTERED"
                      /\ runs'[new.run_id].active_attempt = new.attempt_id
                 /\ new.status = "COMMITTED" =>
                      runs'[new.run_id].status = "COMMITTED"
      <4>1. CASE f = n
        BY <2>2, <2>4, <2>6, <4>1
      <4>2. CASE f \in DOMAIN attempts /\ attempts[f].run_id = t.run_id
        BY <2>2, <2>3, <2>4, <2>5, <4>2 DEF OwnershipInv, Linked
      <4>3. CASE f \in DOMAIN attempts /\ attempts[f].run_id # t.run_id
        <5>1. attempts'[f] = attempts[f]
          BY <2>2, <4>3
        <5>2. runs'[attempts[f].run_id] = runs[attempts[f].run_id]
          BY <1>r, <2>4, <4>3
        <5> QED
          BY <4>3, <5>1, <5>2 DEF OwnershipInv, Linked
      <4> QED
        BY <2>d, <4>1, <4>2, <4>3
    <3>2. ASSUME NEW r \in RunIds, runs'[r].status = "REGISTERED",
                 runs'[r].active_attempt # None
          PROVE  \E f \in DOMAIN attempts' :
                   /\ attempts'[f].run_id = r
                   /\ attempts'[f].attempt_id = runs'[r].active_attempt
                   /\ attempts'[f].status = "ACTIVE"
      <4>1. CASE r = t.run_id
        BY <2>2, <2>4, <2>6, <2>e, <4>1
      <4>2. CASE r # t.run_id
        <5>1. PICK f \in DOMAIN attempts :
                     /\ attempts[f].run_id = r
                     /\ attempts[f].attempt_id = runs[r].active_attempt
                     /\ attempts[f].status = "ACTIVE"
          BY <2>4, <3>2, <4>2 DEF OwnershipInv, Linked
        <5> QED
          BY <2>2, <2>4, <2>e, <4>2, <5>1
      <4> QED
        BY <4>1, <4>2
    <3> QED
      BY <3>1, <3>2 DEF Linked
  <2>8. NewestFenceOwns'
    <3> SUFFICES ASSUME NEW f \in DOMAIN attempts', NEW g \in DOMAIN attempts',
                        attempts'[f].run_id = attempts'[g].run_id,
                        attempts'[f].status # "FAILED"
                 PROVE  g <= f
      BY DEF NewestFenceOwns
    <3>1. CASE f = n
      BY <2>2, <3>1 DEF n
    <3>2. CASE f \in DOMAIN attempts /\ g \in DOMAIN attempts
      BY <2>2, <3>2 DEF OwnershipInv, NewestFenceOwns
    <3>3. CASE f \in DOMAIN attempts /\ g = n
      BY <2>2, <2>5, <2>6, <3>3
    <3> QED
      BY <2>d, <3>1, <3>2, <3>3
  <2> QED
    BY <2>7, <2>8
<1>3. ASSUME NEW t \in issued, Fail(t)
      PROVE  Linked' /\ NewestFenceOwns'
  <2>1. t \in Attempt /\ t.run_id \in RunIds /\ runs[t.run_id] \in RunRow
    BY <1>t, <1>r DEF Attempt
  <2>2. runs' = [runs EXCEPT ![t.run_id] =
                   [runs[t.run_id] EXCEPT !.active_attempt = None]]
    BY <1>3 DEF Fail
  <2>3. /\ runs'[t.run_id].namespace = runs[t.run_id].namespace
        /\ runs'[t.run_id].status = runs[t.run_id].status
        /\ runs'[t.run_id].active_attempt = None
        /\ \A r \in RunIds : r # t.run_id => runs'[r] = runs[r]
    BY <1>r, <2>1, <2>2 DEF RunRow
  <2>4. Owns(t) /\ SetStatus(t, "FAILED")
    BY <1>3 DEF Fail
  <2>5. runs[t.run_id].status = "REGISTERED"
    BY <2>4 DEF Owns
  <2> QED
    BY <2>1, <2>3, <2>4, <2>5, CloseAttempt
<1>4. ASSUME NEW t \in issued, NEW predecessor \in Predecessors,
             NEW preparation \in Preparations, NEW delivered \in BOOLEAN,
             PublishNew(t, predecessor, preparation, delivered)
      PROVE  Linked' /\ NewestFenceOwns'
  <2> DEFINE d == Digest(t, predecessor, preparation)
  <2>1. t \in Attempt /\ t.run_id \in RunIds /\ runs[t.run_id] \in RunRow
    BY <1>t, <1>r DEF Attempt
  <2>2. runs' = [runs EXCEPT ![t.run_id] =
                   [runs[t.run_id] EXCEPT !.status = "COMMITTED", !.committed = d]]
    BY <1>4 DEF PublishNew, Commit
  <2> HIDE DEF d
  <2>3. /\ runs'[t.run_id].namespace = runs[t.run_id].namespace
        /\ runs'[t.run_id].status = "COMMITTED"
        /\ \A r \in RunIds : r # t.run_id => runs'[r] = runs[r]
    BY <1>r, <2>1, <2>2 DEF RunRow
  <2>4. Owns(t) /\ SetStatus(t, "COMMITTED")
    BY <1>4 DEF PublishNew, Commit
  <2> QED
    BY <2>1, <2>3, <2>4, CloseAttempt
<1> QED
  BY <1>0, <1>1, <1>2, <1>3, <1>4
  DEF Next, RegisterReplay, AdmitReplay, PublishReplay, tables, vars

\* The tables are linked in every reachable state.
LEMMA OwnershipInvariant == Spec => []OwnershipInv
<1>1. Init => OwnershipInv
  <2> SUFFICES ASSUME Init PROVE OwnershipInv
    OBVIOUS
  <2>1. DOMAIN attempts = {}
    BY DEF Init
  <2>2. \A r \in RunIds : runs[r].status = "ABSENT"
    BY DEF Init, AbsentRun
  <2>3. Linked /\ NewestFenceOwns
    BY <2>1, <2>2 DEF Linked, NewestFenceOwns
  <2> QED
    BY <2>3, TypeInit DEF OwnershipInv
<1>2. OwnershipInv /\ [Next]_vars => OwnershipInv'
  BY TypeStep, OwnershipStep DEF OwnershipInv
<1> QED
  BY <1>1, <1>2, PTL DEF Spec

\* The largest fence of a run is the one that works on it or committed it,
\* for any number of runs, attempts and owners (_require_owner, admit 153-166).
THEOREM NewestFenceOwnsHolds == Spec => []NewestFenceOwns
<1>1. OwnershipInv => NewestFenceOwns
  BY DEF OwnershipInv
<1> QED
  BY <1>1, OwnershipInvariant, PTL

\* The active_attempt column and the ACTIVE rows always agree (admit 149-163,
\* fail 206-212, publish 258-264).
THEOREM ActiveOwnershipHolds == Spec => []ActiveOwnership
<1>1. ASSUME OwnershipInv, NEW r \in RunIds
      PROVE  {attempts[f].attempt_id :
                f \in {g \in AttemptsOf(r) : attempts[g].status = "ACTIVE"}}
               = IF runs[r].status = "REGISTERED"
                 THEN {runs[r].active_attempt} \ {None} ELSE {}
  <2> DEFINE Active == {g \in AttemptsOf(r) : attempts[g].status = "ACTIVE"}
  <2>1. \A f \in Active :
          /\ runs[r].status = "REGISTERED"
          /\ attempts[f].attempt_id = runs[r].active_attempt
          /\ attempts[f].attempt_id # None
    BY <1>1, Rows DEF OwnershipInv, Linked, AttemptsOf
  <2>2. runs[r].status = "REGISTERED" /\ runs[r].active_attempt # None =>
          \E f \in Active : attempts[f].attempt_id = runs[r].active_attempt
    BY <1>1 DEF OwnershipInv, Linked, AttemptsOf
  <2> HIDE DEF Active
  <2>3. CASE runs[r].status = "REGISTERED" /\ runs[r].active_attempt # None
    <3>1. {attempts[f].attempt_id : f \in Active} = {runs[r].active_attempt}
      BY <2>1, <2>2, <2>3
    <3> QED
      BY <2>3, <3>1 DEF Active
  <2>4. CASE ~(runs[r].status = "REGISTERED" /\ runs[r].active_attempt # None)
    <3>1. Active = {}
      BY <2>1, <2>4
    <3>2. {attempts[f].attempt_id : f \in Active} = {}
      BY <3>1
    <3> QED
      BY <2>4, <3>2 DEF Active
  <2> QED
    BY <2>3, <2>4
<1>2. OwnershipInv => ActiveOwnership
  BY <1>1 DEF ActiveOwnership
<1> QED
  BY <1>2, OwnershipInvariant, PTL

-----------------------------------------------------------------------------
(* What a step may never do.                                               *)

TerminalKept ==
  /\ \A f \in DOMAIN attempts :
       attempts[f].status # "ACTIVE" => attempts'[f] = attempts[f]
  /\ \A r \in RunIds : runs[r].status = "COMMITTED" => runs'[r] = runs[r]

\* No call changes a terminal row.
LEMMA TerminalStep == TypeOK /\ [Next]_vars => TerminalKept
<1> USE DEF TerminalKept
<1> SUFFICES ASSUME TypeOK, [Next]_vars PROVE TerminalKept
  OBVIOUS
<1>0. CASE UNCHANGED <<runs, attempts>>
  BY <1>0
<1>1. ASSUME NEW ns \in Namespaces, NEW r \in RunIds, NEW i \in Identities,
             RegisterNew(ns, r, i)
      PROVE  TerminalKept
  <2>1. \A q \in RunIds : q # r => runs'[q] = runs[q]
    BY <1>1, Rows DEF RegisterNew
  <2> QED
    BY <1>1, <2>1 DEF RegisterNew
<1>2. ASSUME NEW t \in Attempt, NEW delivered \in BOOLEAN,
             AdmitNew(t, delivered)
      PROVE  TerminalKept
  <2>1. \A q \in RunIds : q # t.run_id => runs'[q] = runs[q]
    BY <1>2, Rows DEF AdmitNew
  <2>2. \A f \in DOMAIN attempts : attempts'[f] = attempts[f]
    <3> DEFINE row == [namespace |-> t.namespace, run_id |-> t.run_id,
                       attempt_id |-> t.attempt_id, owner |-> t.owner,
                       status |-> "ACTIVE"]
    <3>1. attempts \in Seq(AttemptRow) /\ attempts' = Append(attempts, row)
      BY <1>2 DEF AdmitNew, TypeOK
    <3> HIDE DEF row
    <3> QED
      BY <3>1
  <2>3. runs[t.run_id].status = "REGISTERED"
    BY <1>2 DEF AdmitNew, Admissible
  <2> QED
    BY <2>1, <2>2, <2>3
<1>3. ASSUME NEW t, NEW s, Owns(t), SetStatus(t, s),
             \A q \in RunIds : q # t.run_id => runs'[q] = runs[q]
      PROVE  TerminalKept
  BY <1>3 DEF Owns, SetStatus
<1>4. ASSUME NEW t \in issued, Fail(t)
      PROVE  TerminalKept
  <2>1. \A q \in RunIds : q # t.run_id => runs'[q] = runs[q]
    BY <1>4, Rows DEF Fail
  <2> QED
    BY <1>3, <1>4, <2>1 DEF Fail
<1>5. ASSUME NEW t \in issued, NEW predecessor \in Predecessors,
             NEW preparation \in Preparations, NEW delivered \in BOOLEAN,
             PublishNew(t, predecessor, preparation, delivered)
      PROVE  TerminalKept
  <2>1. \A q \in RunIds : q # t.run_id => runs'[q] = runs[q]
    BY <1>5, Rows DEF PublishNew, Commit
  <2> QED
    BY <1>3, <1>5, <2>1 DEF PublishNew, Commit
<1> QED
  BY <1>0, <1>1, <1>2, <1>4, <1>5
  DEF Next, RegisterReplay, AdmitReplay, PublishReplay, tables, vars

\* No step changes a terminal attempt or a committed run (fail 196-208,
\* publish 258-264).
THEOREM TerminalForeverHolds == Spec => TerminalForever
<1>1. TypeOK /\ [Next]_vars => [TerminalKept]_vars
  BY TerminalStep
<1> QED
  BY <1>1, TypeCorrect, PTL DEF Spec, TerminalForever, TerminalKept

\* Appending one element leaves every prefix as it was.
LEMMA AppendKeepsPrefix ==
  ASSUME NEW S, NEW s \in Seq(S), NEW e \in S
  PROVE  /\ Append(s, e) \in Seq(S)
         /\ Len(Append(s, e)) = Len(s) + 1
         /\ Append(s, e)[Len(s) + 1] = e
         /\ \A n \in 1..Len(s) :
              /\ Append(s, e)[n] = s[n]
              /\ SubSeq(Append(s, e), 1, n) = SubSeq(s, 1, n)
         /\ SubSeq(Append(s, e), 1, Len(s)) = s
         /\ SubSeq(Append(s, e), 1, Len(s) + 1) = Append(s, e)
OBVIOUS

\* What a publication does to the root: it appends its own entry.
LEMMA PublicationAppends ==
  ASSUME TypeOK, NEW t \in issued, NEW predecessor \in Predecessors,
         NEW preparation \in Preparations, NEW delivered \in BOOLEAN,
         PublishNew(t, predecessor, preparation, delivered)
  PROVE  /\ t.namespace \in Namespaces
         /\ predecessor \in Seq(Entry)
         /\ roots[t.namespace] = predecessor
         /\ [attempt |-> t, preparation |-> preparation] \in Entry
         /\ roots' = [roots EXCEPT ![t.namespace] =
              Append(predecessor, [attempt |-> t, preparation |-> preparation])]
<1>1. t \in Attempt
  BY DEF TypeOK
<1> QED
  BY <1>1, PredecessorsType DEF Attempt, Entry, PublishNew, Commit, Digest

\* Every step leaves a root alone or appends one commit to it (publish
\* 239-255), so a history, once read, never changes.
THEOREM HistoryOnlyGrowsHolds == Spec => HistoryOnlyGrows
<1> DEFINE Grows ==
      \A ns \in Namespaces :
        /\ Len(roots'[ns]) <= Len(roots[ns]) + 1
        /\ SubSeq(roots'[ns], 1, Len(roots[ns])) = roots[ns]
<1>1. TypeOK /\ [Next]_vars => [Grows]_vars
  <2> SUFFICES ASSUME TypeOK, [Next]_vars PROVE Grows
    OBVIOUS
  <2>r. \A ns \in Namespaces : roots[ns] \in Seq(Entry)
    BY DEF TypeOK
  <2>s. \A s \in Seq(Entry) : Len(s) \in Nat /\ SubSeq(s, 1, Len(s)) = s
    OBVIOUS
  <2>0. CASE UNCHANGED roots
    BY <2>0, <2>r, <2>s
  <2>1. ASSUME NEW t \in issued, NEW predecessor \in Predecessors,
               NEW preparation \in Preparations, NEW delivered \in BOOLEAN,
               PublishNew(t, predecessor, preparation, delivered)
        PROVE  Grows
    <3> DEFINE e == [attempt |-> t, preparation |-> preparation]
    <3>1. /\ t.namespace \in Namespaces /\ predecessor \in Seq(Entry)
          /\ roots[t.namespace] = predecessor /\ e \in Entry
          /\ roots' = [roots EXCEPT ![t.namespace] = Append(predecessor, e)]
      BY <2>1, PublicationAppends
    <3> HIDE DEF e
    <3>2. /\ Len(Append(predecessor, e)) = Len(predecessor) + 1
          /\ SubSeq(Append(predecessor, e), 1, Len(predecessor)) = predecessor
      BY <3>1, AppendKeepsPrefix
    <3>3. DOMAIN roots = Namespaces
      BY DEF TypeOK
    <3>4. roots'[t.namespace] = Append(predecessor, e)
      BY <3>1, <3>3
    <3>5. \A ns \in Namespaces : ns # t.namespace => roots'[ns] = roots[ns]
      BY <3>1
    <3>6. ASSUME NEW ns \in Namespaces, ns # t.namespace
          PROVE  /\ Len(roots'[ns]) <= Len(roots[ns]) + 1
                 /\ SubSeq(roots'[ns], 1, Len(roots[ns])) = roots[ns]
      <4>1. roots'[ns] = roots[ns]
        BY <3>5, <3>6
      <4> QED
        BY <2>r, <2>s, <4>1
    <3>7. /\ Len(roots'[t.namespace]) <= Len(roots[t.namespace]) + 1
          /\ SubSeq(roots'[t.namespace], 1, Len(roots[t.namespace]))
               = roots[t.namespace]
      BY <2>s, <3>1, <3>2, <3>4
    <3> QED
      BY <3>6, <3>7
  <2> HIDE DEF Grows
  <2> QED
    BY <2>0, <2>1
    DEF Next, RegisterNew, RegisterReplay, AdmitNew, AdmitReplay, Fail,
        PublishReplay, tables, vars
<1> QED
  BY <1>1, TypeCorrect, PTL DEF Spec, HistoryOnlyGrows
-----------------------------------------------------------------------------
(* History.                                                                *)

\* The n-th commit of a namespace is filed under its own namespace and is the
\* terminal commit of its run.
Stands(ns, n) ==
  LET u == roots[ns][n].attempt IN
  /\ u.namespace = ns
  /\ runs[u.run_id].namespace = ns
  /\ runs[u.run_id].identity = u.identity
  /\ runs[u.run_id].status = "COMMITTED"
  /\ runs[u.run_id].committed = SubSeq(roots[ns], 1, n)

HistoryInv ==
  /\ TypeOK
  /\ \A ns \in Namespaces : \A n \in 1..Len(roots[ns]) : Stands(ns, n)
  /\ SingleHistory
  /\ acknowledged \subseteq commits

\* What TypeOK says of the commits of one namespace.
LEMMA EntryTypes ==
  ASSUME TypeOK, NEW ns \in Namespaces
  PROVE  /\ roots[ns] \in Seq(Entry)
         /\ Len(roots[ns]) \in Nat
         /\ \A n \in 1..Len(roots[ns]) : roots[ns][n].attempt.run_id \in RunIds
<1>1. roots[ns] \in Seq(Entry)
  BY DEF TypeOK
<1>2. \A n \in 1..Len(roots[ns]) : roots[ns][n] \in Entry
  BY <1>1
<1>3. \A e \in Entry : e.attempt.run_id \in RunIds
  BY DEF Entry, Attempt
<1> QED
  BY <1>1, <1>2, <1>3

\* A commit that a step leaves in its place stands afterwards: its run is
\* committed, and committed runs do not change.
LEMMA EntryKept ==
  ASSUME HistoryInv, [Next]_vars, NEW ns \in Namespaces, NEW n \in 1..Len(roots[ns]),
         roots'[ns][n] = roots[ns][n], SubSeq(roots'[ns], 1, n) = SubSeq(roots[ns], 1, n)
  PROVE  Stands(ns, n)'
<1> DEFINE u == roots[ns][n].attempt
<1>1. u.run_id \in RunIds
  BY EntryTypes DEF HistoryInv
<1>2. Stands(ns, n)
  BY DEF HistoryInv
<1>3. runs[u.run_id].status = "COMMITTED"
  BY <1>2, Zenon DEF Stands
<1>4. runs'[u.run_id] = runs[u.run_id]
  BY <1>1, <1>3, TerminalStep DEF HistoryInv, TerminalKept
<1> QED
  BY <1>2, <1>4 DEF Stands

\* A step that moves no root keeps the history.
LEMMA QuietStep ==
  ASSUME HistoryInv, TypeOK', [Next]_vars,
         UNCHANGED <<roots, commits>>, acknowledged' \subseteq commits
  PROVE  HistoryInv'
<1>1. \A ns \in Namespaces : \A n \in 1..Len(roots'[ns]) : Stands(ns, n)'
  BY EntryKept
<1>2. SingleHistory'
  BY DEF HistoryInv, SingleHistory
<1> QED
  BY <1>1, <1>2 DEF HistoryInv

\* A publication appends one commit of a run that was not in the history.
LEMMA PublishStep ==
  ASSUME HistoryInv, TypeOK', [Next]_vars, NEW t \in issued,
         NEW predecessor \in Predecessors, NEW preparation \in Preparations,
         NEW delivered \in BOOLEAN,
         PublishNew(t, predecessor, preparation, delivered)
  PROVE  HistoryInv'
<1> DEFINE e == [attempt |-> t, preparation |-> preparation]
           d == Append(predecessor, e)
           home == t.namespace
<1>t. t \in Attempt /\ t.run_id \in RunIds /\ home \in Namespaces
  BY DEF HistoryInv, TypeOK, Attempt
<1>e. e.attempt = t
  OBVIOUS
<1>1. /\ predecessor \in Seq(Entry) /\ e \in Entry
      /\ roots[home] = predecessor
      /\ roots' = [roots EXCEPT ![home] = d]
  BY PublicationAppends DEF HistoryInv
<1>2. /\ commits' = commits \cup {d}
      /\ acknowledged' = Returned(acknowledged, d, delivered)
      /\ runs' = [runs EXCEPT ![t.run_id] =
                    [runs[t.run_id] EXCEPT !.status = "COMMITTED", !.committed = d]]
  BY DEF PublishNew, Commit, Digest
<1> HIDE DEF e
<1>3. /\ d \in Seq(Entry)
      /\ Len(predecessor) \in Nat
      /\ Len(d) = Len(predecessor) + 1
      /\ d[Len(d)] = e
      /\ SubSeq(d, 1, Len(d)) = d
      /\ \A n \in 1..Len(predecessor) :
           d[n] = predecessor[n] /\ SubSeq(d, 1, n) = SubSeq(predecessor, 1, n)
  BY <1>1, AppendKeepsPrefix
<1> HIDE DEF d
<1>4. /\ roots'[home] = d
      /\ \A ns \in Namespaces : ns # home => roots'[ns] = roots[ns]
  BY <1>1, <1>t DEF HistoryInv, TypeOK
<1>5. /\ runs[t.run_id].namespace = home /\ runs[t.run_id].identity = t.identity
      /\ runs[t.run_id].status = "REGISTERED"
  BY DEF PublishNew, Owns
<1>6. /\ runs'[t.run_id].namespace = home /\ runs'[t.run_id].identity = t.identity
      /\ runs'[t.run_id].status = "COMMITTED" /\ runs'[t.run_id].committed = d
      /\ \A r \in RunIds : r # t.run_id => runs'[r] = runs[r]
  <2>1. runs[t.run_id] \in RunRow /\ DOMAIN runs = RunIds
    BY <1>t DEF HistoryInv, TypeOK
  <2> QED
    BY <1>t, <1>2, <1>5, <2>1 DEF RunRow
<1>7. ASSUME NEW ns \in Namespaces, NEW n \in 1..Len(roots'[ns])
      PROVE  Stands(ns, n)'
  <2>1. CASE n \in 1..Len(roots[ns]) /\ roots'[ns][n] = roots[ns][n]
             /\ SubSeq(roots'[ns], 1, n) = SubSeq(roots[ns], 1, n)
    BY <2>1, EntryKept
  <2>2. CASE ns = home /\ n = Len(d)
    <3>1. roots'[ns][n].attempt = t /\ SubSeq(roots'[ns], 1, n) = d
      BY <1>e, <1>3, <1>4, <2>2, Zenon
    <3> QED
      BY <1>6, <2>2, <3>1, Zenon DEF Stands
  <2>3. CASE ns # home
    <3>1. roots'[ns] = roots[ns]
      BY <1>4, <2>3
    <3> QED
      BY <1>7, <2>1, <3>1
  <2>4. CASE ns = home /\ n \in 1..Len(predecessor)
    <3>1. roots'[ns] = d /\ roots[ns] = predecessor
      BY <1>1, <1>4, <2>4
    <3>2. d[n] = predecessor[n] /\ SubSeq(d, 1, n) = SubSeq(predecessor, 1, n)
      BY <1>3, <2>4
    <3> QED
      BY <2>1, <2>4, <3>1, <3>2
  <2>5. ns = home => n \in 1..Len(predecessor) \/ n = Len(d)
    BY <1>3, <1>4, <1>7
  <2> QED
    BY <2>2, <2>3, <2>4, <2>5
<1>8. SingleHistory'
  <2> DEFINE Line(h) == {SubSeq(h, 1, n) : n \in 1..Len(h)}
             Before == UNION {Line(roots[ns]) : ns \in Namespaces}
             After == UNION {Line(roots'[ns]) : ns \in Namespaces}
  <2>1. Line(d) = Line(predecessor) \cup {d}
    <3>1. 1..Len(d) = 1..Len(predecessor) \cup {Len(d)}
      BY <1>3
    <3>2. \A n \in 1..Len(predecessor) : SubSeq(d, 1, n) = SubSeq(predecessor, 1, n)
      BY <1>3
    <3>3. SubSeq(d, 1, Len(d)) = d
      BY <1>3
    <3>4. ASSUME NEW c \in Line(d) PROVE c \in Line(predecessor) \cup {d}
      BY <3>1, <3>2, <3>3
    <3>5. ASSUME NEW c \in Line(predecessor) \cup {d} PROVE c \in Line(d)
      BY <3>1, <3>2, <3>3
    <3> QED
      BY <3>4, <3>5
  <2>2. commits = Before
    BY DEF HistoryInv, SingleHistory
  <2>3. /\ Line(roots'[home]) = Line(roots[home]) \cup {d}
        /\ \A ns \in Namespaces : ns # home => Line(roots'[ns]) = Line(roots[ns])
    <3>1. roots'[home] = d /\ roots[home] = predecessor
      BY <1>1, <1>4
    <3> HIDE DEF Line
    <3>2. Line(roots'[home]) = Line(roots[home]) \cup {d}
      BY <2>1, <3>1
    <3>3. \A ns \in Namespaces : ns # home => Line(roots'[ns]) = Line(roots[ns])
      BY <1>4
    <3> QED
      BY <3>2, <3>3
  <2> SUFFICES commits' = After
    BY DEF SingleHistory
  <2> HIDE DEF Line
  <2>4. After = Before \cup {d}
    BY <1>t, <2>3
  <2> QED
    BY <1>2, <2>2, <2>4
<1>9. acknowledged' \subseteq commits'
  BY <1>2 DEF HistoryInv, Returned
<1> QED
  BY <1>7, <1>8, <1>9 DEF HistoryInv

\* The history is one line in every reachable state.
LEMMA HistoryInvariant == Spec => []HistoryInv
<1>1. Init => HistoryInv
  <2> SUFFICES ASSUME Init PROVE HistoryInv
    OBVIOUS
  <2>1. \A ns \in Namespaces : 1..Len(roots[ns]) = {}
    <3>1. \A ns \in Namespaces : roots[ns] = <<>>
      BY DEF Init, Genesis
    <3>2. Len(<<>>) = 0 /\ 1..0 = {}
      BY EmptySeq
    <3> QED
      BY <3>1, <3>2, Zenon
  <2>2. SingleHistory
    BY <2>1 DEF Init, SingleHistory
  <2> QED
    BY <2>1, <2>2, TypeInit DEF Init, HistoryInv
<1>2. HistoryInv /\ TypeOK' /\ [Next]_vars => HistoryInv'
  <2> SUFFICES ASSUME HistoryInv, TypeOK', [Next]_vars PROVE HistoryInv'
    OBVIOUS
  <2>a. acknowledged \subseteq commits
    BY DEF HistoryInv
  <2>1. ASSUME NEW ns \in Namespaces, NEW r \in RunIds, NEW i \in Identities,
               RegisterReplay(ns, r, i)
        PROVE  HistoryInv'
    <3>1. acknowledged' \subseteq commits
      BY <2>1, <2>a DEF RegisterReplay, Readable, Returned
    <3> QED
      BY <2>1, <3>1, QuietStep DEF RegisterReplay, tables
  <2>2. ASSUME NEW t \in issued, NEW predecessor \in Predecessors,
               NEW preparation \in Preparations, NEW delivered \in BOOLEAN,
               PublishReplay(t, predecessor, preparation, delivered)
        PROVE  HistoryInv'
    <3>1. acknowledged' \subseteq commits
      BY <2>2, <2>a DEF PublishReplay, Returned
    <3> QED
      BY <2>2, <3>1, QuietStep DEF PublishReplay, tables
  <2>3. ASSUME UNCHANGED <<roots, commits, acknowledged>>
        PROVE  HistoryInv'
    BY <2>3, <2>a, QuietStep
  <2> QED
    BY <2>1, <2>2, <2>3, PublishStep
    DEF Next, RegisterNew, AdmitNew, AdmitReplay, Fail, tables, vars
<1> QED
  BY <1>1, <1>2, TypeStep, PTL DEF Spec, HistoryInv

\* A run enters the history of its namespace at most once (publish 227-254).
THEOREM OneCommitPerRunHolds == Spec => []OneCommitPerRun
<1>1. HistoryInv => OneCommitPerRun
  BY DEF HistoryInv, Stands, OneCommitPerRun
<1> QED
  BY <1>1, HistoryInvariant, PTL

\* No commit body lies outside the line that ends at its root, and none is
\* missing from it (publish 238-254).
THEOREM SingleHistoryHolds == Spec => []SingleHistory
<1>1. HistoryInv => SingleHistory
  BY DEF HistoryInv
<1> QED
  BY <1>1, HistoryInvariant, PTL

\* What a caller was once told stays true and reachable (register 119-127,
\* publish 227-237).
THEOREM DurableReplayHolds == Spec => []DurableReplay
<1>1. ASSUME HistoryInv, NEW d \in acknowledged
      PROVE  LET t == d[Len(d)].attempt IN
             runs[t.run_id].committed = d /\ Reachable(t.namespace, d)
  <2>1. PICK ns \in Namespaces : \E n \in 1..Len(roots[ns]) : d = SubSeq(roots[ns], 1, n)
    BY <1>1 DEF HistoryInv, SingleHistory
  <2>p. PICK n \in 1..Len(roots[ns]) : d = SubSeq(roots[ns], 1, n)
    BY <2>1
  <2> DEFINE h == roots[ns]
  <2>2. h \in Seq(Entry) /\ Len(h) \in Nat
    BY <1>1, EntryTypes DEF HistoryInv
  <2>3. \A m \in 1..Len(h) :
          Len(SubSeq(h, 1, m)) = m /\ SubSeq(h, 1, m)[m] = h[m]
    BY <2>2
  <2>4. d[Len(d)] = h[n]
    BY <2>p, <2>3
  <2>5. h[n].attempt.namespace = ns /\ runs[h[n].attempt.run_id].committed = d
    <3>1. Stands(ns, n)
      BY <1>1 DEF HistoryInv
    <3> QED
      BY <2>p, <3>1 DEF Stands
  <2>6. ASSUME NEW m \in n..Len(h)
        PROVE  Readable(ns, SubSeq(h, 1, m))
    <3>1. m \in 1..Len(h)
      BY <2>2
    <3>2. SubSeq(h, 1, m) \in commits
      BY <1>1, <3>1 DEF HistoryInv, SingleHistory
    <3>3. h[m].attempt.namespace = ns
      BY <1>1, <3>1 DEF HistoryInv, Stands
    <3> QED
      BY <2>3, <3>1, <3>2, <3>3 DEF Readable
  <2>7. Reachable(ns, d)
    BY <2>p, <2>6 DEF Reachable
  <2> QED
    BY <2>4, <2>5, <2>7
<1>2. HistoryInv => DurableReplay
  BY <1>1 DEF DurableReplay
<1> QED
  BY <1>2, HistoryInvariant, PTL
-----------------------------------------------------------------------------
(* The tables implement Authority.                                         *)

\* A registered run has a namespace and an identity.
Named ==
  \A r \in RunIds :
    runs[r].status # "ABSENT" =>
      runs[r].namespace \in Namespaces /\ runs[r].identity \in Identities

\* The UNIQUE constraint on a namespace's attempt names.
UniqueNames ==
  \A f, g \in DOMAIN attempts :
    /\ attempts[f].namespace = attempts[g].namespace
    /\ attempts[f].attempt_id = attempts[g].attempt_id
    => f = g

\* Each commit was made by an attempt that has a COMMITTED row.
Recorded ==
  \A ns \in Namespaces : \A n \in 1..Len(roots[ns]) :
    LET u == roots[ns][n].attempt IN
    /\ u.fence \in DOMAIN attempts
    /\ attempts[u.fence].namespace = u.namespace
    /\ attempts[u.fence].run_id = u.run_id
    /\ attempts[u.fence].attempt_id = u.attempt_id
    /\ attempts[u.fence].status = "COMMITTED"

RefinementInv ==
  OwnershipInv /\ HistoryInv /\ Named /\ UniqueNames /\ Recorded

\* What a step does to one run r and its rows, and to nothing else.
OnlyRun(r) ==
  /\ \A q \in RunIds : q # r => runs'[q] = runs[q]
  /\ DOMAIN attempts \subseteq DOMAIN attempts'
  /\ \A f \in DOMAIN attempts : attempts[f].run_id # r => attempts'[f] = attempts[f]
  /\ \A f \in DOMAIN attempts' : attempts'[f].run_id # r => f \in DOMAIN attempts

\* Fail and publish keep everything of a row but its status.
RowsKept ==
  /\ DOMAIN attempts' = DOMAIN attempts
  /\ \A f \in DOMAIN attempts :
       /\ attempts'[f].namespace = attempts[f].namespace
       /\ attempts'[f].run_id = attempts[f].run_id
       /\ attempts'[f].attempt_id = attempts[f].attempt_id

-----------------------------------------------------------------------------
(* The effect of each call on runs and attempts.                           *)

\* A first registration writes the row of r and nothing else.
LEMMA RegisterNewEffect ==
  ASSUME TypeOK, NEW ns \in Namespaces, NEW r \in RunIds, NEW i \in Identities,
         RegisterNew(ns, r, i)
  PROVE  /\ attempts' = attempts /\ roots' = roots
         /\ runs[r].status = "ABSENT"
         /\ runs'[r].status = "REGISTERED" /\ runs'[r].active_attempt = None
         /\ runs'[r].namespace = ns /\ runs'[r].identity = i
         /\ \A q \in RunIds : q # r => runs'[q] = runs[q]
BY Rows DEF RegisterNew

\* A first admission adds the row of t and points its run at it.
LEMMA AdmitNewEffect ==
  ASSUME TypeOK, NEW t \in Attempt, NEW delivered \in BOOLEAN,
         AdmitNew(t, delivered)
  PROVE  /\ t.run_id \in RunIds
         /\ roots' = roots
         /\ runs[t.run_id].status = "REGISTERED"
         /\ runs[t.run_id].active_attempt = None
         /\ runs[t.run_id].namespace = t.namespace
         /\ runs[t.run_id].identity = t.identity
         /\ runs'[t.run_id].status = "REGISTERED"
         /\ runs'[t.run_id].active_attempt = t.attempt_id
         /\ runs'[t.run_id].namespace = t.namespace
         /\ runs'[t.run_id].identity = t.identity
         /\ \A q \in RunIds : q # t.run_id => runs'[q] = runs[q]
         /\ t.fence \notin DOMAIN attempts
         /\ DOMAIN attempts' = DOMAIN attempts \cup {t.fence}
         /\ \A f \in DOMAIN attempts : attempts'[f] = attempts[f]
         /\ attempts'[t.fence].namespace = t.namespace
         /\ attempts'[t.fence].run_id = t.run_id
         /\ attempts'[t.fence].attempt_id = t.attempt_id
         /\ attempts'[t.fence].owner = t.owner
         /\ attempts'[t.fence].status = "ACTIVE"
<1> DEFINE row == [namespace |-> t.namespace, run_id |-> t.run_id,
                   attempt_id |-> t.attempt_id, owner |-> t.owner,
                   status |-> "ACTIVE"]
<1>1. /\ attempts \in Seq(AttemptRow) /\ attempts' = Append(attempts, row)
      /\ t.fence = Len(attempts) + 1
  BY DEF AdmitNew, TypeOK
<1>2. /\ row.namespace = t.namespace /\ row.run_id = t.run_id
      /\ row.attempt_id = t.attempt_id /\ row.owner = t.owner
      /\ row.status = "ACTIVE"
  OBVIOUS
<1> HIDE DEF row
<1>3. /\ t.fence \notin DOMAIN attempts
      /\ DOMAIN attempts' = DOMAIN attempts \cup {t.fence}
      /\ \A f \in DOMAIN attempts : attempts'[f] = attempts[f]
      /\ attempts'[t.fence] = row
  BY <1>1
<1>4. t.run_id \in RunIds /\ runs[t.run_id] \in RunRow /\ DOMAIN runs = RunIds
  BY Rows DEF Attempt
<1>5. runs' = [runs EXCEPT ![t.run_id] =
                 [runs[t.run_id] EXCEPT !.active_attempt = t.attempt_id]]
  BY DEF AdmitNew
<1>6. /\ runs[t.run_id].status = "REGISTERED"
      /\ runs[t.run_id].active_attempt = None
      /\ runs[t.run_id].namespace = t.namespace
      /\ runs[t.run_id].identity = t.identity
      /\ roots' = roots
  BY DEF AdmitNew, Admissible
<1>7. /\ runs'[t.run_id].status = "REGISTERED"
      /\ runs'[t.run_id].active_attempt = t.attempt_id
      /\ runs'[t.run_id].namespace = t.namespace
      /\ runs'[t.run_id].identity = t.identity
      /\ \A q \in RunIds : q # t.run_id => runs'[q] = runs[q]
  BY <1>4, <1>5, <1>6 DEF RunRow
<1> QED
  BY <1>2, <1>3, <1>4, <1>6, <1>7

\* Fail and publish, which give an attempt its last status s.
LEMMA CloseEffect ==
  ASSUME TypeOK, NEW t \in issued, NEW s,
         Owns(t), SetStatus(t, s)
  PROVE  /\ t \in Attempt /\ t.run_id \in RunIds
         /\ t.fence \in DOMAIN attempts
         /\ attempts[t.fence].run_id = t.run_id
         /\ attempts[t.fence].status = "ACTIVE"
         /\ attempts'[t.fence].status = s
         /\ \A f \in DOMAIN attempts : f # t.fence => attempts'[f] = attempts[f]
         /\ RowsKept
         /\ attempts'[t.fence].owner = attempts[t.fence].owner
         /\ t = AttemptValue(t.fence)
<1>1. t \in Attempt /\ t.run_id \in RunIds
  BY DEF TypeOK, Attempt
<1>2. /\ t.fence \in DOMAIN attempts
      /\ attempts[t.fence].namespace = t.namespace
      /\ attempts[t.fence].run_id = t.run_id
      /\ attempts[t.fence].attempt_id = t.attempt_id
      /\ attempts[t.fence].owner = t.owner
      /\ attempts[t.fence].status = "ACTIVE"
      /\ runs[t.run_id].identity = t.identity
  BY DEF Owns
<1>3. /\ attempts'[t.fence].status = s
      /\ \A f \in DOMAIN attempts : f # t.fence => attempts'[f] = attempts[f]
      /\ RowsKept
  BY <1>2, StatusOnly DEF SetStatus, RowsKept
<1>4. attempts'[t.fence].owner = attempts[t.fence].owner
  <2>1. attempts[t.fence] \in AttemptRow
    BY <1>2, Rows
  <2>2. attempts'[t.fence] = [attempts[t.fence] EXCEPT !.status = s]
    BY <1>2 DEF SetStatus
  <2> QED
    BY <2>1, <2>2 DEF AttemptRow
<1>5. t = AttemptValue(t.fence)
  BY <1>1, <1>2 DEF AttemptValue, Attempt
<1> QED
  BY <1>1, <1>2, <1>3, <1>4, <1>5

\* A release clears the pointer of the run and nothing else of it.
LEMMA FailEffect ==
  ASSUME TypeOK, NEW t \in issued, Fail(t)
  PROVE  /\ roots' = roots
         /\ runs[t.run_id].status = "REGISTERED"
         /\ runs'[t.run_id].status = "REGISTERED"
         /\ runs'[t.run_id].active_attempt = None
         /\ runs'[t.run_id].namespace = runs[t.run_id].namespace
         /\ runs'[t.run_id].identity = runs[t.run_id].identity
         /\ \A q \in RunIds : q # t.run_id => runs'[q] = runs[q]
<1>1. t.run_id \in RunIds /\ runs[t.run_id] \in RunRow /\ DOMAIN runs = RunIds
  BY Rows DEF TypeOK, Attempt
<1>2. /\ runs' = [runs EXCEPT ![t.run_id] =
                   [runs[t.run_id] EXCEPT !.active_attempt = None]]
      /\ roots' = roots /\ runs[t.run_id].status = "REGISTERED"
  BY DEF Fail, Owns
<1> QED
  BY <1>1, <1>2 DEF RunRow

\* A publication commits the run of t and no other.
LEMMA PublishNewEffect ==
  ASSUME TypeOK, NEW t \in issued, NEW predecessor \in Predecessors,
         NEW preparation \in Preparations, NEW delivered \in BOOLEAN,
         PublishNew(t, predecessor, preparation, delivered)
  PROVE  /\ runs[t.run_id].status = "REGISTERED"
         /\ runs'[t.run_id].status = "COMMITTED"
         /\ runs'[t.run_id].namespace = runs[t.run_id].namespace
         /\ runs'[t.run_id].identity = runs[t.run_id].identity
         /\ \A q \in RunIds : q # t.run_id => runs'[q] = runs[q]
<1> DEFINE d == Digest(t, predecessor, preparation)
<1>1. t.run_id \in RunIds /\ runs[t.run_id] \in RunRow /\ DOMAIN runs = RunIds
  BY Rows DEF TypeOK, Attempt
<1>2. /\ runs' = [runs EXCEPT ![t.run_id] =
                   [runs[t.run_id] EXCEPT !.status = "COMMITTED", !.committed = d]]
      /\ runs[t.run_id].status = "REGISTERED"
  BY DEF PublishNew, Commit, Owns
<1> HIDE DEF d
<1> QED
  BY <1>1, <1>2 DEF RunRow

-----------------------------------------------------------------------------
(* RefinementInv is inductive.                                             *)

\* No call makes the name or the input of a registered run NULL.
LEMMA NamedStep == TypeOK /\ Named /\ [Next]_vars => Named'
<1> SUFFICES ASSUME TypeOK, Named, [Next]_vars PROVE Named'
  OBVIOUS
<1>0. CASE UNCHANGED runs
  BY <1>0 DEF Named
<1>1. ASSUME NEW ns \in Namespaces, NEW r \in RunIds, NEW i \in Identities,
             RegisterNew(ns, r, i)
      PROVE  Named'
  <2>1. /\ runs'[r].namespace = ns /\ runs'[r].identity = i
        /\ \A q \in RunIds : q # r => runs'[q] = runs[q]
    BY <1>1, RegisterNewEffect
  <2> QED
    BY <2>1 DEF Named
<1>2. ASSUME NEW t \in Attempt, NEW delivered \in BOOLEAN, AdmitNew(t, delivered)
      PROVE  Named'
  <2>1. t.namespace \in Namespaces /\ t.identity \in Identities
    BY DEF Attempt
  <2>2. /\ runs'[t.run_id].namespace = t.namespace
        /\ runs'[t.run_id].identity = t.identity
        /\ \A q \in RunIds : q # t.run_id => runs'[q] = runs[q]
    BY <1>2, AdmitNewEffect
  <2> QED
    BY <2>1, <2>2 DEF Named
<1>3. ASSUME NEW t \in issued, Fail(t)
      PROVE  Named'
  <2>1. t.run_id \in RunIds
    BY DEF TypeOK, Attempt
  <2> QED
    BY <1>3, <2>1, FailEffect DEF Named
<1>4. ASSUME NEW t \in issued, NEW predecessor \in Predecessors,
             NEW preparation \in Preparations, NEW delivered \in BOOLEAN,
             PublishNew(t, predecessor, preparation, delivered)
      PROVE  Named'
  <2>1. t.run_id \in RunIds
    BY DEF TypeOK, Attempt
  <2> QED
    BY <1>4, <2>1, PublishNewEffect DEF Named
<1> QED
  BY <1>0, <1>1, <1>2, <1>3, <1>4
  DEF Next, RegisterReplay, AdmitReplay, PublishReplay, tables, vars

\* No call gives two rows of a namespace the same attempt name.
LEMMA UniqueNamesStep == TypeOK /\ UniqueNames /\ [Next]_vars => UniqueNames'
<1> SUFFICES ASSUME TypeOK, UniqueNames, [Next]_vars PROVE UniqueNames'
  OBVIOUS
<1>0. CASE UNCHANGED attempts
  BY <1>0 DEF UniqueNames
<1>1. ASSUME NEW t \in Attempt, NEW delivered \in BOOLEAN, AdmitNew(t, delivered)
      PROVE  UniqueNames'
  <2>1. \A f \in DOMAIN attempts :
          ~ (attempts[f].namespace = t.namespace /\ attempts[f].attempt_id = t.attempt_id)
    BY <1>1 DEF AdmitNew, Previous
  <2>2. /\ DOMAIN attempts' = DOMAIN attempts \cup {t.fence}
        /\ \A f \in DOMAIN attempts : attempts'[f] = attempts[f]
        /\ attempts'[t.fence].namespace = t.namespace
        /\ attempts'[t.fence].attempt_id = t.attempt_id
    BY <1>1, AdmitNewEffect
  <2>3. ASSUME NEW f \in DOMAIN attempts', NEW g \in DOMAIN attempts',
               attempts'[f].namespace = attempts'[g].namespace,
               attempts'[f].attempt_id = attempts'[g].attempt_id
        PROVE  f = g
    <3>1. CASE f \in DOMAIN attempts /\ g \in DOMAIN attempts
      BY <2>2, <2>3, <3>1 DEF UniqueNames
    <3>2. CASE f \in DOMAIN attempts /\ g = t.fence
      BY <2>1, <2>2, <2>3, <3>2
    <3>3. CASE f = t.fence /\ g \in DOMAIN attempts
      BY <2>1, <2>2, <2>3, <3>3
    <3> QED
      BY <2>2, <3>1, <3>2, <3>3
  <2> QED
    BY <2>3 DEF UniqueNames
<1>2. ASSUME RowsKept
      PROVE  UniqueNames'
  BY <1>2 DEF RowsKept, UniqueNames
<1>3. ASSUME NEW t \in issued, Fail(t)
      PROVE  RowsKept
  BY <1>3, CloseEffect DEF Fail
<1>4. ASSUME NEW t \in issued, NEW predecessor \in Predecessors,
             NEW preparation \in Preparations, NEW delivered \in BOOLEAN,
             PublishNew(t, predecessor, preparation, delivered)
      PROVE  RowsKept
  BY <1>4, CloseEffect DEF PublishNew, Commit
<1> QED
  BY <1>0, <1>1, <1>2, <1>3, <1>4
  DEF Next, RegisterNew, RegisterReplay, AdmitReplay, PublishReplay, tables, vars

\* No call takes away the row of an attempt that committed.
LEMMA RecordedStep == TypeOK /\ Recorded /\ [Next]_vars => Recorded'
<1> SUFFICES ASSUME TypeOK, Recorded, [Next]_vars PROVE Recorded'
  OBVIOUS
<1>1. \A f \in DOMAIN attempts : attempts[f].status = "COMMITTED" => attempts'[f] = attempts[f]
  BY TerminalStep DEF TerminalKept
<1>2. DOMAIN attempts \subseteq DOMAIN attempts'
  <2>1. ASSUME NEW t \in Attempt, NEW delivered \in BOOLEAN, AdmitNew(t, delivered)
        PROVE  DOMAIN attempts \subseteq DOMAIN attempts'
    BY <2>1, AdmitNewEffect
  <2>2. ASSUME NEW t \in issued, Fail(t)
        PROVE  DOMAIN attempts \subseteq DOMAIN attempts'
    BY <2>2 DEF Fail, SetStatus
  <2>3. ASSUME NEW t \in issued, NEW predecessor \in Predecessors,
               NEW preparation \in Preparations, NEW delivered \in BOOLEAN,
               PublishNew(t, predecessor, preparation, delivered)
        PROVE  DOMAIN attempts \subseteq DOMAIN attempts'
    BY <2>3 DEF PublishNew, Commit, SetStatus
  <2> QED
    BY <2>1, <2>2, <2>3
    DEF Next, RegisterNew, RegisterReplay, AdmitReplay, PublishReplay, tables, vars
<1>3. CASE UNCHANGED roots
  BY <1>1, <1>2, <1>3 DEF Recorded
<1>4. ASSUME NEW t \in issued, NEW predecessor \in Predecessors,
             NEW preparation \in Preparations, NEW delivered \in BOOLEAN,
             PublishNew(t, predecessor, preparation, delivered)
      PROVE  Recorded'
  <2> DEFINE e == [attempt |-> t, preparation |-> preparation]
  <2>1. /\ t.namespace \in Namespaces /\ predecessor \in Seq(Entry)
        /\ roots[t.namespace] = predecessor /\ e \in Entry
        /\ roots' = [roots EXCEPT ![t.namespace] = Append(predecessor, e)]
    BY <1>4, PublicationAppends
  <2>2. e.attempt = t
    OBVIOUS
  <2> HIDE DEF e
  <2>3. /\ Len(predecessor) \in Nat
        /\ Len(Append(predecessor, e)) = Len(predecessor) + 1
        /\ Append(predecessor, e)[Len(predecessor) + 1] = e
        /\ \A n \in 1..Len(predecessor) : Append(predecessor, e)[n] = predecessor[n]
    BY <2>1, AppendKeepsPrefix
  <2>4. /\ t.fence \in DOMAIN attempts'
        /\ attempts'[t.fence].namespace = t.namespace
        /\ attempts'[t.fence].run_id = t.run_id
        /\ attempts'[t.fence].attempt_id = t.attempt_id
        /\ attempts'[t.fence].status = "COMMITTED"
    <3>1. Owns(t) /\ SetStatus(t, "COMMITTED")
      BY <1>4 DEF PublishNew, Commit
    <3> QED
      BY <3>1, <1>2, CloseEffect DEF RowsKept, Owns
  <2>5. DOMAIN roots = Namespaces
    BY DEF TypeOK
  <2> SUFFICES ASSUME NEW ns \in Namespaces, NEW n \in 1..Len(roots'[ns])
               PROVE  LET u == roots'[ns][n].attempt IN
                      /\ u.fence \in DOMAIN attempts'
                      /\ attempts'[u.fence].namespace = u.namespace
                      /\ attempts'[u.fence].run_id = u.run_id
                      /\ attempts'[u.fence].attempt_id = u.attempt_id
                      /\ attempts'[u.fence].status = "COMMITTED"
    BY DEF Recorded
  <2>6. CASE n \in 1..Len(roots[ns]) /\ roots'[ns][n] = roots[ns][n]
    <3> DEFINE u == roots[ns][n].attempt
    <3>1. /\ u.fence \in DOMAIN attempts
          /\ attempts[u.fence].namespace = u.namespace
          /\ attempts[u.fence].run_id = u.run_id
          /\ attempts[u.fence].attempt_id = u.attempt_id
          /\ attempts[u.fence].status = "COMMITTED"
      BY <2>6 DEF Recorded
    <3>2. attempts'[u.fence] = attempts[u.fence] /\ u.fence \in DOMAIN attempts'
      BY <1>1, <1>2, <3>1
    <3> QED
      BY <2>6, <3>1, <3>2
  <2>7. CASE roots'[ns][n] = e
    BY <2>2, <2>4, <2>7
  <2>8. (n \in 1..Len(roots[ns]) /\ roots'[ns][n] = roots[ns][n]) \/ roots'[ns][n] = e
    <3>1. CASE ns # t.namespace
      BY <2>1, <2>5, <3>1
    <3>2. CASE ns = t.namespace
      BY <2>1, <2>3, <2>5, <3>2
    <3> QED
      BY <3>1, <3>2
  <2> QED
    BY <2>6, <2>7, <2>8
<1> QED
  BY <1>3, <1>4
  DEF Next, RegisterNew, RegisterReplay, AdmitNew, AdmitReplay, Fail,
      PublishReplay, tables, vars

\* RefinementInv holds in every reachable state.
LEMMA RefinementInvariant == Spec => []RefinementInv
<1>1. Init => Named /\ UniqueNames /\ Recorded
  <2> SUFFICES ASSUME Init PROVE Named /\ UniqueNames /\ Recorded
    OBVIOUS
  <2>1. DOMAIN attempts = {} /\ \A r \in RunIds : runs[r].status = "ABSENT"
    BY DEF Init, AbsentRun
  <2>2. \A ns \in Namespaces : 1..Len(roots[ns]) = {}
    <3>1. \A ns \in Namespaces : roots[ns] = <<>>
      BY DEF Init, Genesis
    <3>2. Len(<<>>) = 0 /\ 1..0 = {}
      BY EmptySeq
    <3> QED
      BY <3>1, <3>2, Zenon
  <2> QED
    BY <2>1, <2>2 DEF Named, UniqueNames, Recorded
<1> QED
  BY <1>1, NamedStep, UniqueNamesStep, RecordedStep, OwnershipInvariant,
     HistoryInvariant, TypeCorrect, PTL DEF Spec, RefinementInv

-----------------------------------------------------------------------------
(* The refinement mapping.                                                 *)

\* The abstract holder of a run, read off its ACTIVE row.
HolderFacts ==
  /\ \A r \in RunIds :
       ~ (runs[r].status = "REGISTERED" /\ runs[r].active_attempt # None)
         => AbstractHolder[r] = None
  /\ \A f \in DOMAIN attempts :
       attempts[f].status = "ACTIVE" =>
         AbstractHolder[attempts[f].run_id] = AttemptValue(f)
  /\ \A f \in DOMAIN attempts :
       AttemptValue(f) \in Attempt /\ AttemptValue(f) # None

\* The abstract holder of a run is the value of its ACTIVE row.
LEMMA HolderLemma == RefinementInv => HolderFacts
<1> SUFFICES ASSUME RefinementInv PROVE HolderFacts
  OBVIOUS
<1>1. ASSUME NEW f \in DOMAIN attempts
      PROVE  AttemptValue(f) \in Attempt
  <2>1. /\ attempts[f] \in AttemptRow /\ attempts[f].run_id \in RunIds
        /\ f \in 1..Len(attempts)
    BY Rows DEF RefinementInv, OwnershipInv
  <2>2. f \in 1..MaxFence
    BY <2>1, MaxFenceAssumption DEF RefinementInv, OwnershipInv, TypeOK
  <2>3. runs[attempts[f].run_id].identity \in Identities
    BY <2>1 DEF RefinementInv, OwnershipInv, Linked, Named
  <2> QED
    BY <2>1, <2>2, <2>3 DEF AttemptValue, Attempt, AttemptRow
<1>2. ASSUME NEW f \in DOMAIN attempts, attempts[f].status = "ACTIVE"
      PROVE  AbstractHolder[attempts[f].run_id] = AttemptValue(f)
  <2> DEFINE r == attempts[f].run_id
  <2>1. /\ r \in RunIds /\ runs[r].status = "REGISTERED"
        /\ runs[r].active_attempt = attempts[f].attempt_id
        /\ runs[r].active_attempt # None
        /\ runs[r].namespace = attempts[f].namespace
    BY <1>2, Rows DEF RefinementInv, OwnershipInv, Linked
  <2>2. ActiveFences(r) = {f}
    <3>1. f \in ActiveFences(r)
      BY <2>1 DEF ActiveFences
    <3>2. ASSUME NEW g \in ActiveFences(r) PROVE g = f
      BY <2>1 DEF ActiveFences, RefinementInv, UniqueNames
    <3> QED
      BY <3>1, <3>2
  <2>3. (CHOOSE g \in ActiveFences(r) : TRUE) = f
    BY <2>2
  <2> QED
    BY <2>1, <2>3 DEF AbstractHolder
<1>3. ASSUME NEW r \in RunIds,
             ~ (runs[r].status = "REGISTERED" /\ runs[r].active_attempt # None)
      PROVE  AbstractHolder[r] = None
  BY <1>3 DEF AbstractHolder
<1>4. \A a \in Attempt : a # None
  BY NoneAssumption
<1> QED
  BY <1>1, <1>2, <1>3, <1>4 DEF HolderFacts

\* Steps that change one run and its rows leave the other runs' holders.
LEMMA OtherHolders ==
  ASSUME RefinementInv, HolderFacts, HolderFacts', NEW r \in RunIds, OnlyRun(r)
  PROVE  \A q \in RunIds : q # r => AbstractHolder'[q] = AbstractHolder[q]
<1> SUFFICES ASSUME NEW q \in RunIds, q # r
             PROVE  AbstractHolder'[q] = AbstractHolder[q]
  OBVIOUS
<1>1. runs'[q] = runs[q]
  BY DEF OnlyRun
<1>2. CASE runs[q].status = "REGISTERED" /\ runs[q].active_attempt # None
  <2>1. PICK f \in DOMAIN attempts : /\ attempts[f].run_id = q
                                     /\ attempts[f].status = "ACTIVE"
    BY <1>2 DEF RefinementInv, OwnershipInv, Linked
  <2>2. f \in DOMAIN attempts' /\ attempts'[f] = attempts[f]
    BY <2>1 DEF OnlyRun
  <2>3. AttemptValue(f)' = AttemptValue(f)
    BY <1>1, <2>1, <2>2 DEF AttemptValue
  <2>4. AbstractHolder[q] = AttemptValue(f)
    BY <2>1 DEF HolderFacts
  <2>5. AbstractHolder'[q] = AttemptValue(f)'
    BY <2>1, <2>2 DEF HolderFacts
  <2> QED
    BY <2>3, <2>4, <2>5
<1>3. CASE ~ (runs[q].status = "REGISTERED" /\ runs[q].active_attempt # None)
  BY <1>1, <1>3 DEF HolderFacts
<1> QED
  BY <1>2, <1>3

\* A holder function that differs at r only.
LEMMA HolderUpdate ==
  ASSUME NEW r \in RunIds, NEW v, AbstractHolder'[r] = v,
         \A q \in RunIds : q # r => AbstractHolder'[q] = AbstractHolder[q]
  PROVE  AbstractHolder' = [AbstractHolder EXCEPT ![r] = v]
<1>1. \E F : AbstractHolder = [q \in RunIds |-> F[q]]
  <2>1. AbstractHolder = [q \in RunIds |-> AbstractHolder[q]]
    BY DEF AbstractHolder
  <2> QED
    BY <2>1
<1>2. AbstractHolder' = [q \in RunIds |-> AbstractHolder'[q]]
  BY DEF AbstractHolder
<1>3. DOMAIN AbstractHolder = RunIds
  BY <1>1
<1> QED
  BY <1>2, <1>3

\* What the abstract state knows of an attempt, its row says too.
LEMMA GrantedRows ==
  ASSUME RefinementInv, HolderFacts, NEW u \in Promise!Granted
  PROVE  /\ u.fence \in DOMAIN attempts
         /\ attempts[u.fence].namespace = u.namespace
         /\ attempts[u.fence].run_id = u.run_id
         /\ attempts[u.fence].attempt_id = u.attempt_id
<1>1. ASSUME NEW f \in DOMAIN attempts, u = AttemptValue(f)
      PROVE  /\ u.fence \in DOMAIN attempts
             /\ attempts[u.fence].namespace = u.namespace
             /\ attempts[u.fence].run_id = u.run_id
             /\ attempts[u.fence].attempt_id = u.attempt_id
  BY <1>1 DEF AttemptValue
<1>2. CASE u \in AbstractReleased
  BY <1>1, <1>2 DEF AbstractReleased
<1>3. CASE u \in Promise!CommittedAttempts
  BY <1>3 DEF Promise!CommittedAttempts, RefinementInv, Recorded
<1>4. CASE \E r \in RunIds : u = AbstractHolder[r]
  <2>1. PICK r \in RunIds : u = AbstractHolder[r]
    BY <1>4
  <2>2. u # None
    BY DEF Promise!Granted
  <2>3. runs[r].status = "REGISTERED" /\ runs[r].active_attempt # None
    BY <2>1, <2>2 DEF HolderFacts
  <2>4. PICK f \in DOMAIN attempts : /\ attempts[f].run_id = r
                                     /\ attempts[f].status = "ACTIVE"
    BY <2>3 DEF RefinementInv, OwnershipInv, Linked
  <2>5. u = AttemptValue(f)
    BY <2>1, <2>4 DEF HolderFacts
  <2> QED
    BY <1>1, <2>5
<1> QED
  BY <1>2, <1>3, <1>4 DEF Promise!Granted

-----------------------------------------------------------------------------
(* Every call is a step of Authority or none.                              *)

\* A first registration is Register.
LEMMA RegisterNewRefines ==
  ASSUME RefinementInv, HolderFacts, HolderFacts', NEW ns \in Namespaces,
         NEW r \in RunIds, NEW i \in Identities, RegisterNew(ns, r, i)
  PROVE  Promise!Next
<1> DEFINE reg == [namespace |-> ns, identity |-> i]
<1>1. /\ attempts' = attempts /\ roots' = roots
      /\ runs[r].status = "ABSENT"
      /\ runs'[r].status = "REGISTERED" /\ runs'[r].active_attempt = None
      /\ runs'[r].namespace = ns /\ runs'[r].identity = i
      /\ \A q \in RunIds : q # r => runs'[q] = runs[q]
  BY RegisterNewEffect DEF RefinementInv, OwnershipInv
<1>2. /\ AbstractRegistration[r] = None
      /\ AbstractRegistration' = [AbstractRegistration EXCEPT ![r] = reg]
  BY <1>1 DEF AbstractRegistration
<1>3. AbstractHolder' = AbstractHolder
  <2>1. OnlyRun(r)
    BY <1>1 DEF OnlyRun
  <2>2. \A q \in RunIds : q # r => AbstractHolder'[q] = AbstractHolder[q]
    BY <2>1, OtherHolders
  <2>3. AbstractHolder'[r] = None /\ AbstractHolder[r] = None
    BY <1>1 DEF HolderFacts
  <2> QED
    BY <2>2, <2>3 DEF AbstractHolder
<1>4. AbstractReleased' = AbstractReleased
  <2>1. \A f \in DOMAIN attempts : attempts[f].run_id \in RunIds /\ attempts[f].run_id # r
    BY <1>1, Rows DEF RefinementInv, OwnershipInv, Linked
  <2>2. \A f \in DOMAIN attempts : AttemptValue(f)' = AttemptValue(f)
    BY <1>1, <2>1 DEF AttemptValue
  <2> QED
    BY <1>1, <2>2 DEF AbstractReleased
<1>5. UNCHANGED <<roots, issued, acknowledged>>
  BY DEF RegisterNew
<1>6. reg \in Promise!Registration
  BY DEF Promise!Registration
<1> HIDE DEF reg
<1>7. Promise!Register(r, reg)
  BY <1>2, <1>3, <1>4, <1>5 DEF Promise!Register
<1> QED
  BY <1>6, <1>7 DEF Promise!Next

\* A first admission is Admit.
LEMMA AdmitNewRefines ==
  ASSUME RefinementInv, HolderFacts, HolderFacts', NEW t \in Attempt,
         NEW delivered \in BOOLEAN, AdmitNew(t, delivered)
  PROVE  Promise!Next
<1> DEFINE r == t.run_id
<1>1. /\ r \in RunIds /\ roots' = roots
      /\ runs[r].status = "REGISTERED" /\ runs[r].active_attempt = None
      /\ runs[r].namespace = t.namespace /\ runs[r].identity = t.identity
      /\ runs'[r].status = "REGISTERED"
      /\ runs'[r].namespace = t.namespace /\ runs'[r].identity = t.identity
      /\ \A q \in RunIds : q # r => runs'[q] = runs[q]
      /\ t.fence \notin DOMAIN attempts
      /\ DOMAIN attempts' = DOMAIN attempts \cup {t.fence}
      /\ \A f \in DOMAIN attempts : attempts'[f] = attempts[f]
      /\ attempts'[t.fence].namespace = t.namespace
      /\ attempts'[t.fence].run_id = r
      /\ attempts'[t.fence].attempt_id = t.attempt_id
      /\ attempts'[t.fence].owner = t.owner
      /\ attempts'[t.fence].status = "ACTIVE"
  BY AdmitNewEffect DEF RefinementInv, OwnershipInv
<1>2. \A f \in DOMAIN attempts :
        ~ (attempts[f].namespace = t.namespace /\ attempts[f].attempt_id = t.attempt_id)
  BY DEF AdmitNew, Previous
<1>3. issued' = Promise!Told(issued, t, delivered) /\ acknowledged' = acknowledged
  BY DEF AdmitNew, Returned, Promise!Told
<1>4. AbstractRegistration' = AbstractRegistration
  BY <1>1 DEF AbstractRegistration
<1>5. /\ AbstractRegistration[r] = [namespace |-> t.namespace, identity |-> t.identity]
      /\ AbstractRegistration[r] # None
  <2>1. [namespace |-> t.namespace, identity |-> t.identity]
          \in [namespace : Namespaces, identity : Identities]
    BY DEF Attempt
  <2> QED
    BY <1>1, <2>1, NoneAssumption DEF AbstractRegistration
<1>6. AbstractHolder[r] = None
  BY <1>1 DEF HolderFacts
<1>7. AbstractHolder' = [AbstractHolder EXCEPT ![r] = t]
  <2>1. AttemptValue(t.fence)' = t
    BY <1>1 DEF AttemptValue, Attempt
  <2>2. AbstractHolder'[r] = t
    BY <1>1, <2>1 DEF HolderFacts
  <2>3. OnlyRun(r)
    BY <1>1 DEF OnlyRun
  <2>4. \A q \in RunIds : q # r => AbstractHolder'[q] = AbstractHolder[q]
    BY <1>1, <2>3, OtherHolders
  <2> QED
    BY <1>1, <2>2, <2>4, HolderUpdate
<1>8. AbstractReleased' = AbstractReleased
  <2>1. \A f \in DOMAIN attempts : AttemptValue(f)' = AttemptValue(f)
    <3>1. \A f \in DOMAIN attempts : attempts[f].run_id \in RunIds
      BY Rows DEF RefinementInv, OwnershipInv
    <3> QED
      BY <1>1, <3>1 DEF AttemptValue
  <2>2. {g \in DOMAIN attempts' : attempts'[g].status = "FAILED"}
          = {g \in DOMAIN attempts : attempts[g].status = "FAILED"}
    BY <1>1
  <2> QED
    BY <2>1, <2>2 DEF AbstractReleased
<1>9. \A u \in Promise!CommittedAttempts : u.run_id # r
  <2>1. \A ns \in Namespaces : \A n \in 1..Len(roots[ns]) :
          runs[roots[ns][n].attempt.run_id].status = "COMMITTED"
    BY DEF RefinementInv, HistoryInv, Stands
  <2> QED
    BY <1>1, <2>1 DEF Promise!CommittedAttempts
<1>10. \A u \in Promise!Granted :
         /\ <<u.run_id, u.attempt_id>> # <<t.run_id, t.attempt_id>>
         /\ <<u.namespace, u.fence>> # <<t.namespace, t.fence>>
  <2> SUFFICES ASSUME NEW u \in Promise!Granted
               PROVE  /\ ~ (u.run_id = r /\ u.attempt_id = t.attempt_id)
                      /\ u.fence # t.fence
    OBVIOUS
  <2>1. /\ u.fence \in DOMAIN attempts
        /\ attempts[u.fence].namespace = u.namespace
        /\ attempts[u.fence].run_id = u.run_id
        /\ attempts[u.fence].attempt_id = u.attempt_id
    BY GrantedRows
  <2>2. runs[u.run_id].namespace = u.namespace
    BY <2>1 DEF RefinementInv, OwnershipInv, Linked
  <2> QED
    BY <1>1, <1>2, <2>1, <2>2
<1>11. Promise!Admit(t, delivered)
  BY <1>1, <1>3, <1>4, <1>5, <1>6, <1>7, <1>8, <1>9, <1>10 DEF Promise!Admit
<1>12. t = Promise!NewAttempt(r, t.attempt_id, t.owner, t.fence)
  BY <1>5 DEF Promise!NewAttempt, Attempt
<1>13. t.attempt_id \in AttemptIds /\ t.owner \in Owners /\ t.fence \in 1..MaxFence
  BY DEF Attempt
<1> QED
  BY <1>1, <1>5, <1>6, <1>11, <1>12, <1>13 DEF Promise!Next

\* A release is Release.
LEMMA FailRefines ==
  ASSUME RefinementInv, HolderFacts, HolderFacts', NEW t \in issued, Fail(t)
  PROVE  Promise!Next
<1> DEFINE r == t.run_id
<1>1. /\ t \in Attempt /\ r \in RunIds
      /\ t.fence \in DOMAIN attempts /\ attempts[t.fence].run_id = r
      /\ attempts[t.fence].status = "ACTIVE" /\ attempts'[t.fence].status = "FAILED"
      /\ \A f \in DOMAIN attempts : f # t.fence => attempts'[f] = attempts[f]
      /\ RowsKept /\ attempts'[t.fence].owner = attempts[t.fence].owner
      /\ t = AttemptValue(t.fence)
  BY CloseEffect DEF Fail, RefinementInv, OwnershipInv
<1>2. /\ roots' = roots
      /\ runs'[r].active_attempt = None
      /\ runs[r].status = "REGISTERED" /\ runs'[r].status = "REGISTERED"
      /\ runs'[r].namespace = runs[r].namespace /\ runs'[r].identity = runs[r].identity
      /\ \A q \in RunIds : q # r => runs'[q] = runs[q]
  BY FailEffect DEF RefinementInv, OwnershipInv
<1>3. UNCHANGED <<issued, acknowledged>>
  BY DEF Fail
<1>4. AbstractRegistration' = AbstractRegistration
  BY <1>2 DEF AbstractRegistration
<1>5. AbstractHolder[r] = t /\ t # None
  BY <1>1 DEF HolderFacts
<1>6. AbstractHolder' = [AbstractHolder EXCEPT ![r] = None]
  <2>1. OnlyRun(r)
    BY <1>1, <1>2 DEF OnlyRun, RowsKept
  <2>2. \A q \in RunIds : q # r => AbstractHolder'[q] = AbstractHolder[q]
    BY <1>1, <2>1, OtherHolders
  <2>3. AbstractHolder'[r] = None
    BY <1>1, <1>2 DEF HolderFacts
  <2> QED
    BY <1>1, <2>2, <2>3, HolderUpdate
<1>7. AbstractReleased' = AbstractReleased \cup {t}
  <2>1. \A f \in DOMAIN attempts : AttemptValue(f)' = AttemptValue(f)
    <3>1. \A f \in DOMAIN attempts : attempts[f].run_id \in RunIds
      BY Rows DEF RefinementInv, OwnershipInv
    <3> QED
      BY <1>1, <1>2, <3>1 DEF AttemptValue, RowsKept
  <2>2. {g \in DOMAIN attempts' : attempts'[g].status = "FAILED"}
          = {g \in DOMAIN attempts : attempts[g].status = "FAILED"} \cup {t.fence}
    BY <1>1 DEF RowsKept
  <2> QED
    BY <1>1, <2>1, <2>2 DEF AbstractReleased
<1>8. Promise!Release(t)
  BY <1>2, <1>3, <1>4, <1>5, <1>6, <1>7 DEF Promise!Release
<1> QED
  BY <1>1, <1>5, <1>8 DEF Promise!Next

\* A publication is Publish.
LEMMA PublishNewRefines ==
  ASSUME RefinementInv, HolderFacts, HolderFacts', NEW t \in issued,
         NEW predecessor \in Predecessors, NEW preparation \in Preparations,
         NEW delivered \in BOOLEAN,
         PublishNew(t, predecessor, preparation, delivered)
  PROVE  Promise!Next
<1> DEFINE r == t.run_id
           line == Append(roots[t.namespace],
                          [attempt |-> t, preparation |-> preparation])
<1>1. /\ t \in Attempt /\ r \in RunIds
      /\ t.fence \in DOMAIN attempts /\ attempts[t.fence].run_id = r
      /\ attempts[t.fence].status = "ACTIVE" /\ attempts'[t.fence].status = "COMMITTED"
      /\ \A f \in DOMAIN attempts : f # t.fence => attempts'[f] = attempts[f]
      /\ RowsKept /\ attempts'[t.fence].owner = attempts[t.fence].owner
      /\ t = AttemptValue(t.fence)
  BY CloseEffect DEF PublishNew, Commit, RefinementInv, OwnershipInv
<1>2. /\ runs[r].status = "REGISTERED" /\ runs'[r].status = "COMMITTED"
      /\ runs'[r].namespace = runs[r].namespace /\ runs'[r].identity = runs[r].identity
      /\ \A q \in RunIds : q # r => runs'[q] = runs[q]
  BY PublishNewEffect DEF RefinementInv, OwnershipInv
<1>3. /\ roots' = [roots EXCEPT ![t.namespace] = line]
      /\ acknowledged' = Promise!Told(acknowledged, line, delivered)
      /\ issued' = issued
  BY DEF PublishNew, Commit, Digest, Returned, Promise!Told
<1> HIDE DEF line
<1>4. AbstractRegistration' = AbstractRegistration
  BY <1>2 DEF AbstractRegistration
<1>5. AbstractHolder[r] = t /\ t # None
  BY <1>1 DEF HolderFacts
<1>6. AbstractHolder' = [AbstractHolder EXCEPT ![r] = None]
  <2>1. OnlyRun(r)
    BY <1>1, <1>2 DEF OnlyRun, RowsKept
  <2>2. \A q \in RunIds : q # r => AbstractHolder'[q] = AbstractHolder[q]
    BY <1>1, <2>1, OtherHolders
  <2>3. AbstractHolder'[r] = None
    BY <1>1, <1>2 DEF HolderFacts
  <2> QED
    BY <1>1, <2>2, <2>3, HolderUpdate
<1>7. AbstractReleased' = AbstractReleased
  <2>1. \A f \in DOMAIN attempts : AttemptValue(f)' = AttemptValue(f)
    <3>1. \A f \in DOMAIN attempts : attempts[f].run_id \in RunIds
      BY Rows DEF RefinementInv, OwnershipInv
    <3> QED
      BY <1>1, <1>2, <3>1 DEF AttemptValue, RowsKept
  <2>2. {g \in DOMAIN attempts' : attempts'[g].status = "FAILED"}
          = {g \in DOMAIN attempts : attempts[g].status = "FAILED"}
    BY <1>1 DEF RowsKept
  <2> QED
    BY <2>1, <2>2 DEF AbstractReleased
<1>8. Promise!Publish(t, preparation, delivered)
  BY <1>3, <1>4, <1>5, <1>6, <1>7 DEF Promise!Publish, line
<1> QED
  BY <1>1, <1>5, <1>8 DEF Promise!Next

\* The three replays tell a caller what the tables say, or nothing.
LEMMA SameAbstraction ==
  ASSUME UNCHANGED tables
  PROVE  UNCHANGED <<AbstractRegistration, AbstractHolder, AbstractReleased, roots>>
BY DEF tables, AbstractRegistration, AbstractHolder, AbstractReleased,
       AttemptValue, ActiveFences

\* Telling a caller a reachable digest is Confirm, or no step if the answer is
\* lost.
LEMMA ConfirmRefines ==
  ASSUME UNCHANGED <<tables, issued>>, NEW ns \in Namespaces, NEW d,
         Reachable(ns, d), NEW delivered \in BOOLEAN,
         acknowledged' = Returned(acknowledged, d, delivered)
  PROVE  [Promise!Next]_(Promise!vars)
<1>1. UNCHANGED <<AbstractRegistration, AbstractHolder, AbstractReleased, roots, issued>>
  BY SameAbstraction
<1>2. CASE delivered
  <2>1. d \in Promise!Digests(ns)
    BY DEF Reachable, Promise!Digests
  <2>2. acknowledged' = acknowledged \cup {d}
    BY <1>2 DEF Returned
  <2>3. Promise!Confirm(ns, d)
    BY <1>1, <2>1, <2>2 DEF Promise!Confirm
  <2> QED
    BY <2>1, <2>3 DEF Promise!Next
<1>3. CASE ~ delivered
  BY <1>1, <1>3 DEF Returned, Promise!vars
<1> QED
  BY <1>2, <1>3

\* A repeated admission is Reissue, or no step if the answer is lost.
LEMMA AdmitReplayRefines ==
  ASSUME RefinementInv, HolderFacts, NEW t \in Attempt, NEW delivered \in BOOLEAN,
         AdmitReplay(t, delivered)
  PROVE  [Promise!Next]_(Promise!vars)
<1>1. UNCHANGED <<AbstractRegistration, AbstractHolder, AbstractReleased, roots, acknowledged>>
  BY SameAbstraction DEF AdmitReplay
<1>2. CASE delivered
  <2>1. /\ t.fence \in DOMAIN attempts /\ t.run_id \in RunIds
        /\ attempts[t.fence].run_id = t.run_id /\ attempts[t.fence].status = "ACTIVE"
        /\ t = AttemptValue(t.fence)
    BY DEF AdmitReplay, Previous, Admissible, AttemptValue, Attempt
  <2>2. AbstractHolder[t.run_id] = t /\ t # None
    BY <2>1 DEF HolderFacts
  <2>3. issued' = issued \cup {t}
    BY <1>2 DEF AdmitReplay, Returned
  <2>4. Promise!Reissue(t)
    BY <1>1, <2>2, <2>3 DEF Promise!Reissue
  <2> QED
    BY <2>1, <2>2, <2>4 DEF Promise!Next
<1>3. CASE ~ delivered
  BY <1>1, <1>3 DEF AdmitReplay, Returned, Promise!vars
<1> QED
  BY <1>2, <1>3

\* A repeated registration is Confirm or no step.
LEMMA RegisterReplayRefines ==
  ASSUME NEW ns \in Namespaces, NEW r \in RunIds, NEW i \in Identities,
         RegisterReplay(ns, r, i)
  PROVE  [Promise!Next]_(Promise!vars)
<1>1. CASE acknowledged' = acknowledged
  BY <1>1, SameAbstraction DEF RegisterReplay, Promise!vars
<1>2. CASE acknowledged' # acknowledged
  <2>1. PICK delivered \in BOOLEAN :
          acknowledged' = Returned(acknowledged, runs[r].committed, delivered)
    BY <1>2 DEF RegisterReplay
  <2>2. Reachable(ns, runs[r].committed) /\ UNCHANGED <<tables, issued>>
    BY <1>2 DEF RegisterReplay
  <2> QED
    BY <2>1, <2>2, ConfirmRefines
<1> QED
  BY <1>1, <1>2

\* A repeated publication is Confirm or no step.
LEMMA PublishReplayRefines ==
  ASSUME TypeOK, NEW t \in issued, NEW predecessor \in Predecessors,
         NEW preparation \in Preparations, NEW delivered \in BOOLEAN,
         PublishReplay(t, predecessor, preparation, delivered)
  PROVE  [Promise!Next]_(Promise!vars)
<1>1. t.namespace \in Namespaces
  BY DEF TypeOK, Attempt
<1> QED
  BY <1>1, ConfirmRefines DEF PublishReplay

\* Every step of the tables is a step of Authority or none.
LEMMA RefinementStep ==
  /\ RefinementInv /\ HolderFacts /\ HolderFacts'
  /\ [Next]_vars
  => [Promise!Next]_(Promise!vars)
<1> SUFFICES ASSUME RefinementInv, HolderFacts, HolderFacts', [Next]_vars
             PROVE  [Promise!Next]_(Promise!vars)
  OBVIOUS
<1>1. TypeOK
  BY DEF RefinementInv, OwnershipInv
<1>2. CASE UNCHANGED vars
  BY <1>2, SameAbstraction DEF vars, tables, Promise!vars
<1> QED
  BY <1>1, <1>2, RegisterNewRefines, RegisterReplayRefines, AdmitNewRefines,
     AdmitReplayRefines, FailRefines, PublishNewRefines, PublishReplayRefines
  DEF Next

\* Each committed transaction of the tables is one step of Authority or none:
\* the tables keep every promise, whatever the names, the number of runs, and
\* the bound on fences (authority.py 78-314).
THEOREM KeepsPromiseHolds == Spec => KeepsPromise
<1>1. Init => Promise!Init
  <2> SUFFICES ASSUME Init PROVE Promise!Init
    OBVIOUS
  <2>1. DOMAIN attempts = {} /\ \A r \in RunIds : runs[r].status = "ABSENT"
    BY DEF Init, AbsentRun
  <2>2. AbstractRegistration = [r \in RunIds |-> None]
    BY <2>1 DEF AbstractRegistration
  <2>3. AbstractHolder = [r \in RunIds |-> None]
    BY <2>1 DEF AbstractHolder
  <2>4. AbstractReleased = {}
    BY <2>1 DEF AbstractReleased
  <2> QED
    BY <2>2, <2>3, <2>4 DEF Init, Genesis, Promise!Init
<1> QED
  BY <1>1, RefinementInvariant, HolderLemma, RefinementStep, PTL
  DEF Spec, KeepsPromise, Promise!Spec
=============================================================================
