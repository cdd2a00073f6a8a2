------------------------- MODULE FinalizationProofs -------------------------
(***************************************************************************)
(* Proofs about Finalization for every value of its constants.             *)
(***************************************************************************)
EXTENDS Finalization, SequenceTheorems, FiniteSetTheorems, TLAPS

\* A finite sequence, whatever its elements are.
IsHistory(h) == \E S : h \in Seq(S)

\* What the lock protects: from the parent check until HEAD is replaced the
\* call's commit is the successor of the commit that HEAD names.
LockedHead ==
  /\ IsHistory(head)
  /\ call # None =>
       /\ DOMAIN call = {"at", "request", "commit"}
       /\ call.at \in {"objects", "commit", "head"} =>
            call.commit = Successor(head, call.request)

\* A successor is one commit longer, and its parent is what it succeeds.
LEMMA SuccessorExtends ==
  ASSUME NEW h, IsHistory(h), NEW q
  PROVE  /\ IsHistory(Successor(h, q))
         /\ Len(Successor(h, q)) = Len(h) + 1
         /\ Parent(Successor(h, q)) = h
<1> DEFINE b == Body(h, q.attempt, q.work)
<1>1. PICK S : h \in Seq(S)
  BY DEF IsHistory
<1>2. Successor(h, q) = Append(h, b)
  BY DEF Successor
<1> HIDE DEF b
<1>3. h \in Seq(S \cup {b})
  BY <1>1
<1>4. /\ Append(h, b) \in Seq(S \cup {b})
      /\ Len(Append(h, b)) = Len(h) + 1
      /\ SubSeq(Append(h, b), 1, Len(h)) = h
      /\ Len(h) \in Nat
  BY <1>3
<1>5. Len(Append(h, b)) - 1 = Len(h)
  BY <1>4
<1> QED
  BY <1>2, <1>4, <1>5 DEF IsHistory, Parent

\* A step of the call that changes nothing but where the call stands.
LEMMA GotoKeeps ==
  ASSUME NEW step, NEW next, At(step), Goto(next), LockedHead, head' = head,
         next \in {"objects", "commit", "head"} =>
           step \in {"objects", "commit", "head"}
  PROVE  LockedHead'
<1>1. call # None /\ DOMAIN call = {"at", "request", "commit"} /\ call.at = step
  BY DEF At, LockedHead
<1>2. /\ DOMAIN call' = {"at", "request", "commit"} /\ call'.at = next
      /\ call'.request = call.request /\ call'.commit = call.commit
  BY <1>1 DEF Goto
<1>3. IsHistory(head)'
  BY DEF LockedHead
<1> QED
  BY <1>1, <1>2, <1>3 DEF LockedHead

\* Each step keeps LockedHead, and moves HEAD to a successor or not at all.
LEMMA HeadStep ==
  LockedHead /\ [Next \/ LosePower]_vars =>
    /\ LockedHead'
    /\ head' # head => Len(head') = Len(head) + 1 /\ Parent(head') = head
<1> DEFINE Extends ==
      head' # head => Len(head') = Len(head) + 1 /\ Parent(head') = head
<1> SUFFICES ASSUME LockedHead, [Next \/ LosePower]_vars
             PROVE  LockedHead' /\ Extends
  OBVIOUS
<1>0. ASSUME call' = None, head' = head
      PROVE  LockedHead' /\ Extends
  BY <1>0 DEF LockedHead
<1>1. CASE UNCHANGED vars
  BY <1>1 DEF vars, files, LockedHead
<1>2. CASE LosePower \/ Stop
  BY <1>0, <1>2 DEF LosePower, Stop, files
<1>3. ASSUME NEW q, Finalize(q)
      PROVE  LockedHead' /\ Extends
  BY <1>3 DEF Finalize, files, LockedHead
<1>4. ASSUME NEW q, RecoverAttempt(q)
      PROVE  LockedHead' /\ Extends
  BY <1>4 DEF RecoverAttempt, files, LockedHead
<1>5. CASE Check
  <2>1. head' = head
    BY <1>5 DEF Check, Reject, files
  <2>2. \/ call' = None
        \/ Goto("request")
        \/ \E d : call' = [call EXCEPT !.at = "outcome", !.commit = d]
    BY <1>5, Zenon DEF Check, Reject, Return
  <2>3. CASE call' = None
    BY <1>0, <2>1, <2>3
  <2>4. CASE Goto("request")
    BY <1>5, <2>1, <2>4, GotoKeeps DEF Check
  <2>5. ASSUME NEW d, call' = [call EXCEPT !.at = "outcome", !.commit = d]
        PROVE  LockedHead' /\ Extends
    BY <1>5, <2>1, <2>5 DEF Check, At, LockedHead
  <2> QED
    BY <2>2, <2>3, <2>4, <2>5
<1>6. CASE WriteRequest
  BY <1>6, GotoKeeps DEF WriteRequest
<1>7. CASE CheckParent
  <2> DEFINE q == call.request
  <2>1. CASE Reject
    BY <1>0, <2>1 DEF Reject, files
  <2>2. CASE ~ Reject
    <3>1. /\ call' = [call EXCEPT !.at = "objects", !.commit = Successor(head, q)]
          /\ head' = head
      BY <1>7, <2>2 DEF CheckParent, files
    <3>2. DOMAIN call = {"at", "request", "commit"} /\ IsHistory(head)
      BY <1>7 DEF CheckParent, At, LockedHead
    <3>3. /\ DOMAIN call' = {"at", "request", "commit"}
          /\ call'.request = call.request /\ call'.commit = Successor(head, call.request)
      BY <3>1, <3>2
    <3> QED
      BY <3>1, <3>2, <3>3 DEF LockedHead
  <2> QED
    BY <2>1, <2>2
<1>8. CASE WriteObjects
  <2>1. CASE Goto("commit")
    BY <1>8, <2>1, GotoKeeps DEF WriteObjects
  <2>2. CASE call' = call
    BY <1>8, <2>2 DEF WriteObjects, LockedHead
  <2> QED
    BY <1>8, <2>1, <2>2 DEF WriteObjects
<1>9. CASE WriteCommit
  BY <1>9, GotoKeeps DEF WriteCommit
<1>10. CASE ReplaceHead
  <2>1. /\ head' = call.commit /\ call # None /\ call.at = "head"
        /\ call' = [call EXCEPT !.at = "outcome"]
    BY <1>10 DEF ReplaceHead, At, Goto
  <2>2. IsHistory(head) /\ head' = Successor(head, call.request)
    BY <2>1 DEF LockedHead
  <2>3. IsHistory(head') /\ Extends
    BY <2>2, SuccessorExtends
  <2>4. DOMAIN call' = {"at", "request", "commit"} /\ call'.at = "outcome"
    BY <2>1 DEF LockedHead
  <2> QED
    BY <2>3, <2>4 DEF LockedHead
<1>11. CASE WriteOutcome
  BY <1>0, <1>11 DEF WriteOutcome, Return
<1> QED
  BY <1>1, <1>2, <1>3, <1>4, <1>5, <1>6, <1>7, <1>8, <1>9, <1>10, <1>11
  DEF Next, Steps

\* LockedHead holds at the start.
LEMMA HeadInit == Init => LockedHead
<1>1. <<>> \in Seq({})
  OBVIOUS
<1> QED
  BY <1>1 DEF Init, LockedHead, IsHistory, Genesis

\* HEAD only moves to a commit that extends what it named, wherever processes
\* die and however old the callers' expected heads are (1337-1339, 1410).
THEOREM HeadOnlyExtendsHolds == Spec => HeadOnlyExtends
<1>1. LockedHead /\ [Next]_vars =>
        LockedHead' /\ [head' # head => Len(head') = Len(head) + 1
                                        /\ Parent(head') = head]_vars
  BY HeadStep
<1> QED
  BY <1>1, HeadInit, PTL DEF Spec, HeadOnlyExtends

\* The same when the machine loses power: the directory entries that nobody
\* synchronizes hold no part of HEAD's line.
THEOREM HeadOnlyExtendsUnderPowerLoss == PowerSpec => HeadOnlyExtends
<1>1. LockedHead /\ [Next \/ LosePower]_vars =>
        LockedHead' /\ [head' # head => Len(head') = Len(head) + 1
                                        /\ Parent(head') = head]_vars
  BY HeadStep
<1> QED
  BY <1>1, HeadInit, PTL DEF PowerSpec, HeadOnlyExtends

-----------------------------------------------------------------------------
(* What is on disk, and what a call knows of it, while the machine stands.  *)

Digests == commits \cup {Genesis}

\* What the files hold.
FileTypes ==
  /\ requests \in [AttemptIds -> FinalizationRequest \cup {None}]
  /\ outcomes \in [AttemptIds -> Seq(CommitBody) \cup {None}]
  /\ objects \subseteq Proof \cup Case
  /\ commits \subseteq Seq(CommitBody)
  /\ head \in Seq(CommitBody)

\* A file names only commits that are on disk, and a request its own attempt.
Named ==
  /\ \A a \in AttemptIds :
       requests[a] # None => requests[a].attempt = a /\ requests[a].expected \in Digests
  /\ \A d \in commits : Parent(d) \in Digests
  /\ head \in Digests

\* No revision is larger than the number of commits behind it.
Numbered(h) ==
  /\ \A k \in DOMAIN ProofHeads(h) : ProofHeads(h)[k].revision <= Len(h)
  /\ \A k \in DOMAIN CaseHeads(h) : CaseHeads(h)[k].revision <= Len(h)

\* No two commits have one correction.
CorrectedOnce(h) ==
  \A m, n \in 1..Len(h) :
    \/ m = n
    \/ h[m].work.correction = None
    \/ h[m].work.correction # h[n].work.correction

\* The commits of a history that update a key, and those that except it.
UpdatesOf(h, k) == {n \in 1..Len(h) : k \in DOMAIN h[n].work.updates}
ExceptionsOf(h, k) == {n \in UpdatesOf(h, k) : h[n].work.updates[k] = "EXCEPTION"}
SinceException(h, k) == {n \in UpdatesOf(h, k) : \E m \in ExceptionsOf(h, k) : m <= n}

\* CaseFollowsProof of one key and any history.
Follows(h, k) ==
  LET newest == CHOOSE n \in UpdatesOf(h, k) : \A m \in UpdatesOf(h, k) : m <= n
  IN /\ k \in DOMAIN ProofHeads(h) <=> UpdatesOf(h, k) # {}
     /\ k \in DOMAIN CaseHeads(h) <=> ExceptionsOf(h, k) # {}
     /\ UpdatesOf(h, k) # {} => ProofHeads(h)[k].revision = Cardinality(UpdatesOf(h, k))
     /\ ExceptionsOf(h, k) # {} =>
          /\ CaseHeads(h)[k].revision = Cardinality(SinceException(h, k))
          /\ CaseHeads(h)[k].proof = ProofHeads(h)[k]
          /\ CaseHeads(h)[k].status = "OPEN" <=> newest \in ExceptionsOf(h, k)
          /\ CaseHeads(h)[k].status = "RESOLVED_BY_CORRECTION" =>
               k \in h[newest].work.items

\* A key that was updated has a newest update.
HasNewest(h, k) ==
  UpdatesOf(h, k) # {} =>
    \E n \in UpdatesOf(h, k) : \A m \in UpdatesOf(h, k) : m <= n

\* An outcome file names the commit of the request beside it.
OutcomesStand ==
  \A a \in AttemptIds :
    outcomes[a] # None =>
      outcomes[a] \in Prefixes(head) /\ RequestOf(outcomes[a]) = requests[a]

\* A receipt's commit succeeds the head that its request expected.
Answers ==
  \A r \in receipts : r.commit \in Prefixes(head) /\ Parent(r.commit) = r.request.expected

CallSteps == {"check", "request", "parent", "objects", "commit", "head", "outcome"}

\* What a call has made durable by the step it is at.
InCall ==
  LET q == call.request IN
  call # None =>
    /\ call \in [at : CallSteps, request : FinalizationRequest, commit : Seq(CommitBody)]
    /\ q.expected \in Digests
    /\ call.at = "request" => requests[q.attempt] \in {None, q}
    /\ call.at \in {"parent", "objects", "commit", "head"} => requests[q.attempt] = q
    /\ call.at \in {"objects", "commit", "head"} =>
         /\ call.commit = Successor(head, q)
         /\ q.expected = head
         /\ Len(head) < MaxCommits
         /\ Corrected(head, q.work.correction) = {}
    /\ call.at \in {"commit", "head"} => Written(head, q.work) \subseteq objects
    /\ call.at = "head" => call.commit \in commits
    /\ call.at = "outcome" => call.commit \in Prefixes(head) /\ RequestOf(call.commit) = q

Files ==
  /\ FileTypes /\ Named /\ OutcomesStand /\ HistoryVerifies
  /\ Numbered(head) /\ CorrectedOnce(head) /\ \A k \in Keys : Follows(head, k) /\ HasNewest(head, k)

StoreInv == Files /\ Answers /\ InCall

\* What a prefix of a history is, with its parent and its last commit.
LEMMA PrefixFacts ==
  ASSUME NEW h \in Seq(CommitBody), NEW d \in Prefixes(h)
  PROVE  /\ d \in Seq(CommitBody)
         /\ Len(d) \in 1..Len(h)
         /\ d = SubSeq(h, 1, Len(d))
         /\ Parent(d) = SubSeq(h, 1, Len(d) - 1)
         /\ Parent(d) \in Seq(CommitBody) /\ Len(Parent(d)) = Len(d) - 1
         /\ Last(d) = h[Len(d)]
         /\ Last(d) \in CommitBody
<1>1. PICK n \in 1..Len(h) : d = SubSeq(h, 1, n)
  BY DEF Prefixes
<1>2. d \in Seq(CommitBody) /\ Len(d) = n /\ \A i \in 1..n : d[i] = h[i]
  BY <1>1
<1>3. /\ SubSeq(d, 1, n - 1) \in Seq(CommitBody) /\ Len(SubSeq(d, 1, n - 1)) = n - 1
      /\ \A i \in 1..(n - 1) : SubSeq(d, 1, n - 1)[i] = d[i]
  BY <1>2
<1>4. /\ SubSeq(h, 1, n - 1) \in Seq(CommitBody) /\ Len(SubSeq(h, 1, n - 1)) = n - 1
      /\ \A i \in 1..(n - 1) : SubSeq(h, 1, n - 1)[i] = h[i]
  BY <1>2
<1>5. SubSeq(d, 1, n - 1) = SubSeq(h, 1, n - 1)
  <2> DEFINE s == SubSeq(d, 1, n - 1)
             t == SubSeq(h, 1, n - 1)
  <2>1. s \in Seq(CommitBody) /\ t \in Seq(CommitBody) /\ Len(s) = Len(t)
    BY <1>3, <1>4
  <2>2. \A i \in 1..Len(s) : s[i] = t[i]
    BY <1>2, <1>3, <1>4
  <2> HIDE DEF s, t
  <2>3. s = t
    BY <2>1, <2>2, SeqEqual
  <2> QED
    BY <2>3 DEF s, t
<1>6. Last(d) = h[n] /\ h[n] \in CommitBody
  BY <1>2 DEF Last
<1> QED
  BY <1>1, <1>2, <1>3, <1>5, <1>6 DEF Parent

\* The commit of a head is the only one that succeeds its parent.
LEMMA PrefixByParent ==
  ASSUME NEW h \in Seq(CommitBody), NEW d \in Prefixes(h), NEW e \in Prefixes(h),
         Parent(d) = Parent(e)
  PROVE  d = e
<1>1. /\ Len(d) \in Nat /\ Len(e) \in Nat
      /\ Len(Parent(d)) = Len(d) - 1 /\ Len(Parent(e)) = Len(e) - 1
      /\ d = SubSeq(h, 1, Len(d)) /\ e = SubSeq(h, 1, Len(e))
  BY PrefixFacts
<1>2. Len(d) = Len(e)
  BY <1>1
<1> QED
  BY <1>1, <1>2

\* The request that a commit answers is a request, and so not absent.
LEMMA RequestOfPrefix ==
  ASSUME NEW h \in Seq(CommitBody), NEW d \in Prefixes(h)
  PROVE  RequestOf(d) \in FinalizationRequest /\ RequestOf(d) # None
<1>1. Parent(d) \in Seq(CommitBody) /\ Last(d) \in CommitBody
  BY PrefixFacts
<1>2. Last(d).attempt \in AttemptIds /\ Last(d).work \in Works
  BY <1>1 DEF CommitBody
<1>3. RequestOf(d) \in FinalizationRequest
  BY <1>1, <1>2 DEF RequestOf, Request, FinalizationRequest
<1> QED
  BY <1>3, NoneAssumption

\* A history and its successor.
LEMMA SuccessorFacts ==
  ASSUME NEW h \in Seq(CommitBody), NEW q \in FinalizationRequest,
         Body(h, q.attempt, q.work) \in CommitBody
  PROVE  LET d == Successor(h, q) IN
         /\ d \in Seq(CommitBody) /\ Len(d) = Len(h) + 1
         /\ Parent(d) = h
         /\ d[Len(d)] = Body(h, q.attempt, q.work)
         /\ \A n \in 1..Len(h) : d[n] = h[n]
         /\ Prefixes(d) = Prefixes(h) \cup {d}
         /\ q.expected = h => RequestOf(d) = q
<1> DEFINE b == Body(h, q.attempt, q.work)
           d == Successor(h, q)
<1>1. d = Append(h, b)
  BY DEF Successor
<1>2. b.attempt = q.attempt /\ b.work = q.work
  BY DEF Body
<1>3. q.attempt \in AttemptIds /\ q.work \in Works /\ q.expected \in Seq(CommitBody)
      /\ q = [attempt |-> q.attempt, expected |-> q.expected, work |-> q.work]
  BY DEF FinalizationRequest
<1> HIDE DEF b, d
<1>4. b \in CommitBody
  BY DEF b
<1>5. d \in Seq(CommitBody) /\ Len(d) = Len(h) + 1 /\ Len(h) \in Nat
      /\ d[Len(d)] = b /\ \A n \in 1..Len(h) : d[n] = h[n]
  BY <1>1, <1>4
<1>6. \A n \in 1..Len(h) : SubSeq(d, 1, n) = SubSeq(h, 1, n)
  BY <1>1, <1>4
<1>7. SubSeq(d, 1, Len(d)) = d /\ SubSeq(d, 1, Len(h)) = h
  BY <1>1, <1>4, <1>5
<1>8. Parent(d) = h
  BY <1>5, <1>7 DEF Parent
<1>9. Prefixes(d) = Prefixes(h) \cup {d}
  <2>1. 1..Len(d) = (1..Len(h)) \cup {Len(d)}
    BY <1>5
  <2> QED
    BY <1>6, <1>7, <2>1 DEF Prefixes
<1>10. q.expected = h => RequestOf(d) = q
  BY <1>2, <1>3, <1>5, <1>8 DEF RequestOf, Request, Last, b
<1> QED
  BY <1>5, <1>8, <1>9, <1>10 DEF b, d

\* What reconciliation may report.
LEMMA WorkFacts ==
  ASSUME NEW w \in Works
  PROVE  /\ w.manifest \in Manifests
         /\ DOMAIN w.updates \subseteq Keys
         /\ \A k \in DOMAIN w.updates : w.updates[k] \in Statuses
<1>1. w \in Work
  BY FinalizationConstants
<1>2. w.manifest \in Manifests /\ w.updates \in Updates
  BY <1>1 DEF Work
<1>3. PICK D \in SUBSET Keys : w.updates \in [D -> Statuses]
  BY <1>2 DEF Updates
<1> QED
  BY <1>2, <1>3

\* The newest proofs and cases of a history.
LEMMA HeadsFacts ==
  ASSUME NEW h \in Seq(CommitBody)
  PROVE  /\ DOMAIN ProofHeads(h) \subseteq Keys
         /\ ProofHeads(h) = [k \in DOMAIN ProofHeads(h) |-> ProofHeads(h)[k]]
         /\ \A k \in DOMAIN ProofHeads(h) : ProofHeads(h)[k] \in Proof
         /\ DOMAIN CaseHeads(h) \subseteq Keys
         /\ CaseHeads(h) = [k \in DOMAIN CaseHeads(h) |-> CaseHeads(h)[k]]
         /\ \A k \in DOMAIN CaseHeads(h) : CaseHeads(h)[k] \in Case
<1>1. CASE h = Genesis
  BY <1>1 DEF ProofHeads, CaseHeads, NoHeads
<1>2. CASE h # Genesis
  <2>1. h[Len(h)] \in CommitBody
    BY <1>2 DEF Genesis
  <2>2. PICK D \in SUBSET Keys : h[Len(h)].proofs \in [D -> Proof]
    BY <2>1 DEF CommitBody
  <2>3. PICK E \in SUBSET Keys : h[Len(h)].cases \in [E -> Case]
    BY <2>1 DEF CommitBody
  <2>4. ProofHeads(h) = h[Len(h)].proofs /\ CaseHeads(h) = h[Len(h)].cases
    BY <1>2 DEF ProofHeads, CaseHeads
  <2> QED
    BY <2>2, <2>3, <2>4
<1> QED
  BY <1>1, <1>2

\* A new proof and a new case are numbered within the bound.
LEMMA NewFacts ==
  ASSUME NEW h \in Seq(CommitBody), Numbered(h), Len(h) < MaxCommits,
         NEW w \in Works, NEW k \in DOMAIN w.updates
  PROVE  /\ NewProof(h, w, k) \in Proof /\ NewProof(h, w, k).revision <= Len(h) + 1
         /\ NewCase(h, w, k) \in Case /\ NewCase(h, w, k).revision <= Len(h) + 1
<1> DEFINE p == NewProof(h, w, k)
           c == NewCase(h, w, k)
           P == ProofHeads(h)
           C == CaseHeads(h)
<1>1. /\ k \in Keys /\ w.updates[k] \in Statuses /\ w.manifest \in Manifests
      /\ MaxCommits \in Nat /\ Len(h) \in Nat
  BY WorkFacts, FinalizationConstants
<1>2. ASSUME k \in DOMAIN P
      PROVE  P[k].revision \in 1..MaxCommits /\ P[k].revision <= Len(h)
  BY <1>2, HeadsFacts DEF Proof, Numbered
<1>3. ASSUME k \in DOMAIN C
      PROVE  /\ C[k].revision \in 1..MaxCommits /\ C[k].revision <= Len(h)
             /\ C[k].initial \in Proof
  BY <1>3, HeadsFacts DEF Case, Numbered
<1>4. p.revision = IF k \in DOMAIN P THEN P[k].revision + 1 ELSE 1
  BY DEF NewProof
<1>5. c.revision = IF k \in DOMAIN C THEN C[k].revision + 1 ELSE 1
  BY DEF NewCase
<1> HIDE DEF P, C
<1>6. p.revision \in 1..MaxCommits /\ p.revision <= Len(h) + 1
  <2>1. CASE k \in DOMAIN P
    BY <1>1, <1>2, <1>4, <2>1
  <2>2. CASE k \notin DOMAIN P
    BY <1>1, <1>4, <2>2
  <2> QED
    BY <2>1, <2>2
<1>7. c.revision \in 1..MaxCommits /\ c.revision <= Len(h) + 1
  <2>1. CASE k \in DOMAIN C
    BY <1>1, <1>3, <1>5, <2>1
  <2>2. CASE k \notin DOMAIN C
    BY <1>1, <1>5, <2>2
  <2> QED
    BY <2>1, <2>2
<1>8. p \in Proof
  <2>1. p = [key |-> k, status |-> w.updates[k], manifest |-> w.manifest,
             revision |-> p.revision]
    BY DEF NewProof
  <2> HIDE DEF p
  <2> QED
    BY <1>1, <1>6, <2>1 DEF Proof
<1>9. c \in Case
  <2>1. c = [key |-> k, proof |-> p, revision |-> c.revision, initial |-> c.initial,
             status |-> c.status]
    BY DEF NewCase
  <2>2. c.initial = IF k \in DOMAIN C THEN C[k].initial ELSE p
    BY DEF NewCase, C
  <2>3. c.initial \in Proof
    BY <1>3, <1>8, <2>2
  <2>4. c.status \in CaseStatuses
    BY DEF NewCase, CaseStatuses
  <2> HIDE DEF c, p
  <2> QED
    BY <1>1, <1>7, <1>8, <2>1, <2>3, <2>4 DEF Case
<1> QED
  BY <1>6, <1>7, <1>8, <1>9

\* A successor is a well-formed commit of well-formed objects.
LEMMA BodyFacts ==
  ASSUME NEW h \in Seq(CommitBody), Numbered(h), Len(h) < MaxCommits,
         NEW q \in FinalizationRequest
  PROVE  /\ Body(h, q.attempt, q.work) \in CommitBody
         /\ Written(h, q.work) \subseteq Proof \cup Case
         /\ Numbered(Successor(h, q))
<1> DEFINE w == q.work
           b == Body(h, q.attempt, w)
           P == ProofHeads(h)
           C == CaseHeads(h)
           d == Successor(h, q)
<1>1. q.attempt \in AttemptIds /\ w \in Works
  BY DEF FinalizationRequest
<1>2. DOMAIN w.updates \subseteq Keys /\ UpdatedCases(h, w) \subseteq DOMAIN w.updates
  BY <1>1, WorkFacts DEF UpdatedCases
<1>3. \A k \in DOMAIN w.updates :
        /\ NewProof(h, w, k) \in Proof /\ NewProof(h, w, k).revision <= Len(h) + 1
        /\ NewCase(h, w, k) \in Case /\ NewCase(h, w, k).revision <= Len(h) + 1
  BY <1>1, NewFacts
<1>4. /\ DOMAIN P \subseteq Keys /\ \A k \in DOMAIN P : P[k] \in Proof
      /\ DOMAIN C \subseteq Keys /\ \A k \in DOMAIN C : C[k] \in Case
  BY HeadsFacts
<1>5. /\ b = [attempt |-> q.attempt, work |-> w, proofs |-> b.proofs, cases |-> b.cases]
      /\ b.proofs = [k \in DOMAIN P \cup DOMAIN w.updates |->
                       IF k \in DOMAIN w.updates THEN NewProof(h, w, k) ELSE P[k]]
      /\ b.cases = [k \in DOMAIN C \cup UpdatedCases(h, w) |->
                      IF k \in UpdatedCases(h, w) THEN NewCase(h, w, k) ELSE C[k]]
  BY DEF Body
<1>6. Written(h, w) \subseteq Proof \cup Case
  BY <1>2, <1>3 DEF Written
<1>7. \A k \in DOMAIN P : P[k].revision \in Int /\ P[k].revision <= Len(h)
  BY <1>4 DEF Numbered, Proof
<1>8. \A k \in DOMAIN C : C[k].revision \in Int /\ C[k].revision <= Len(h)
  BY <1>4 DEF Numbered, Case
<1> HIDE DEF b, P, C, w
<1>9. /\ b.proofs \in [DOMAIN P \cup DOMAIN w.updates -> Proof]
      /\ b.cases \in [DOMAIN C \cup UpdatedCases(h, w) -> Case]
  BY <1>2, <1>3, <1>4, <1>5
<1>10. b \in CommitBody
  <2>1. /\ DOMAIN P \cup DOMAIN w.updates \in SUBSET Keys
        /\ DOMAIN C \cup UpdatedCases(h, w) \in SUBSET Keys
    BY <1>2, <1>4
  <2>2. /\ b.proofs \in UNION {[D -> Proof] : D \in SUBSET Keys}
        /\ b.cases \in UNION {[D -> Case] : D \in SUBSET Keys}
    BY <1>9, <2>1
  <2> HIDE DEF d
  <2> QED
    BY <1>1, <1>5, <2>2 DEF CommitBody
<1>11. /\ \A k \in DOMAIN b.proofs : b.proofs[k].revision <= Len(h) + 1
       /\ \A k \in DOMAIN b.cases : b.cases[k].revision <= Len(h) + 1
  <2>1. \A k \in DOMAIN P : P[k].revision <= Len(h) + 1
    BY <1>7
  <2>2. \A k \in DOMAIN C : C[k].revision <= Len(h) + 1
    BY <1>8
  <2> QED
    BY <1>2, <1>3, <1>5, <2>1, <2>2
<1>12. Len(d) = Len(h) + 1 /\ d # Genesis /\ d[Len(d)] = b
  BY <1>10, SuccessorFacts DEF b, w, Genesis
<1>13. Numbered(d)
  <2>1. ProofHeads(d) = b.proofs /\ CaseHeads(d) = b.cases
    BY <1>12 DEF ProofHeads, CaseHeads
  <2> QED
    BY <1>11, <1>12, <2>1 DEF Numbered
<1> QED
  BY <1>6, <1>10, <1>13 DEF b, w, d

\* A commit carries a key's newest proof and case forward.
LEMMA FollowsSuccessor ==
  ASSUME NEW h \in Seq(CommitBody), NEW q \in FinalizationRequest,
         Body(h, q.attempt, q.work) \in CommitBody,
         NEW k \in Keys, Follows(h, k), HasNewest(h, k)
  PROVE  Follows(Successor(h, q), k) /\ HasNewest(Successor(h, q), k)
<1> DEFINE d == Successor(h, q)
           L == Len(h) + 1
           w == q.work
           b == Body(h, q.attempt, w)
           U == UpdatesOf(h, k)
           V == UpdatesOf(d, k)
           X == ExceptionsOf(h, k)
           Y == ExceptionsOf(d, k)
           S == SinceException(h, k)
           T == SinceException(d, k)
           P == ProofHeads(h)
           C == CaseHeads(h)
           old == CHOOSE n \in U : \A m \in U : m <= n
           new == CHOOSE n \in V : \A m \in V : m <= n
<1>1. /\ Len(d) = L /\ d[L] = b /\ \A n \in 1..Len(h) : d[n] = h[n]
      /\ L \in Nat /\ Len(h) \in Nat /\ 1..Len(d) = (1..Len(h)) \cup {L}
      /\ L \notin 1..Len(h) /\ d # Genesis
  BY SuccessorFacts DEF Genesis
<1>2. /\ b.work = w
      /\ b.proofs = [j \in DOMAIN P \cup DOMAIN w.updates |->
                       IF j \in DOMAIN w.updates THEN NewProof(h, w, j) ELSE P[j]]
      /\ b.cases = [j \in DOMAIN C \cup UpdatedCases(h, w) |->
                      IF j \in UpdatedCases(h, w) THEN NewCase(h, w, j) ELSE C[j]]
  BY DEF Body
<1>3. ProofHeads(d) = b.proofs /\ CaseHeads(d) = b.cases
  BY <1>1 DEF ProofHeads, CaseHeads
<1>4. k \in UpdatedCases(h, w) <=>
        k \in DOMAIN w.updates /\ (w.updates[k] = "EXCEPTION" \/ k \in DOMAIN C)
  BY DEF UpdatedCases
<1>5. /\ k \in DOMAIN P <=> U # {}
      /\ k \in DOMAIN C <=> X # {}
      /\ U # {} => P[k].revision = Cardinality(U)
      /\ X # {} => /\ C[k].revision = Cardinality(S)
                   /\ C[k].proof = P[k]
                   /\ C[k].status = "OPEN" <=> old \in X
                   /\ C[k].status = "RESOLVED_BY_CORRECTION" => k \in h[old].work.items
  BY DEF Follows
<1>6. U \subseteq 1..Len(h) /\ X \subseteq U /\ S \subseteq U
  BY DEF UpdatesOf, ExceptionsOf, SinceException
<1>10. /\ IsFiniteSet(U) /\ L \notin U /\ Cardinality(U \cup {L}) = Cardinality(U) + 1
       /\ IsFiniteSet(S) /\ L \notin S /\ Cardinality(S \cup {L}) = Cardinality(S) + 1
  <2>1. IsFiniteSet(1..Len(h))
    BY <1>1, FS_Interval
  <2>2. IsFiniteSet(U) /\ IsFiniteSet(S)
    BY <1>6, <2>1, FS_Subset
  <2>3. L \notin U /\ L \notin S
    BY <1>1, <1>6
  <2> HIDE DEF U, S, L
  <2> QED
    BY <2>2, <2>3, FS_AddElement
<1>7. U # {} => old \in U
  BY DEF HasNewest
<1>8. CASE k \notin DOMAIN w.updates
  <2>1. V = U
    BY <1>1, <1>2, <1>8 DEF UpdatesOf
  <2>2. Y = X
    BY <1>1, <1>6, <2>1 DEF ExceptionsOf
  <2>3. new = old
    BY <2>1
  <2>8. T = S
    BY <2>1, <2>2 DEF SinceException
  <2>4. HasNewest(d, k)
    BY <2>1 DEF HasNewest
  <2>5. /\ k \in DOMAIN b.proofs <=> k \in DOMAIN P
        /\ k \in DOMAIN P => b.proofs[k] = P[k]
        /\ k \in DOMAIN b.cases <=> k \in DOMAIN C
        /\ k \in DOMAIN C => b.cases[k] = C[k]
    BY <1>2, <1>4, <1>8
  <2>6. X # {} => d[old] = h[old]
    BY <1>1, <1>6, <1>7
  <2> HIDE DEF U, V, X, Y, S, T, old, new, P, C, b, d
  <2>7. /\ k \in DOMAIN ProofHeads(d) <=> V # {}
        /\ k \in DOMAIN CaseHeads(d) <=> Y # {}
        /\ V # {} => ProofHeads(d)[k].revision = Cardinality(V)
        /\ Y # {} =>
             /\ CaseHeads(d)[k].revision = Cardinality(T)
             /\ CaseHeads(d)[k].proof = ProofHeads(d)[k]
             /\ CaseHeads(d)[k].status = "OPEN" <=> new \in Y
             /\ CaseHeads(d)[k].status = "RESOLVED_BY_CORRECTION" =>
                  k \in d[new].work.items
    BY <1>3, <1>5, <1>6, <2>1, <2>2, <2>3, <2>5, <2>6, <2>8
  <2> QED
    BY <2>4, <2>7 DEF Follows, V, Y, T, new, d
<1>9. CASE k \in DOMAIN w.updates
  <2>1. V = U \cup {L}
    BY <1>1, <1>2, <1>9 DEF UpdatesOf
  <2>2. Y = X \cup {n \in {L} : w.updates[k] = "EXCEPTION"}
    <3>1. \A n \in U : d[n] = h[n]
      BY <1>1, <1>6
    <3>2. d[L].work.updates = w.updates
      BY <1>1, <1>2
    <3> HIDE DEF d, w, L
    <3> QED
      BY <2>1, <3>1, <3>2 DEF ExceptionsOf
  <2>3. L \in V /\ \A m \in V : m <= L
    BY <1>1, <1>6, <2>1
  <2>4. new = L
    <3>1. new \in V /\ L <= new
      BY <2>3
    <3>2. new <= L /\ new \in Nat
      BY <1>1, <1>6, <2>1, <2>3, <3>1
    <3> QED
      BY <1>1, <3>1, <3>2
  <2>5. HasNewest(d, k)
    BY <2>3 DEF HasNewest
  <2>6. /\ k \in DOMAIN b.proofs /\ b.proofs[k] = NewProof(h, w, k)
        /\ k \in DOMAIN b.cases <=> k \in DOMAIN C \/ w.updates[k] = "EXCEPTION"
        /\ k \in DOMAIN b.cases => b.cases[k] = NewCase(h, w, k)
    BY <1>2, <1>4, <1>9
  <2>7. /\ NewCase(h, w, k).proof = NewProof(h, w, k)
        /\ NewCase(h, w, k).status = "OPEN" <=> w.updates[k] = "EXCEPTION"
        /\ NewCase(h, w, k).status = "RESOLVED_BY_CORRECTION" => k \in w.items
    BY DEF NewCase
  <2>8. Y # {} <=> X # {} \/ w.updates[k] = "EXCEPTION"
    BY <2>2
  <2>9. L \in Y <=> w.updates[k] = "EXCEPTION"
    BY <1>1, <1>6, <2>2
  <2>11. NewProof(h, w, k).revision = Cardinality(V)
    <3>1. NewProof(h, w, k).revision = IF k \in DOMAIN P THEN P[k].revision + 1 ELSE 1
      BY DEF NewProof
    <3>2. U = {} => Cardinality(U) = 0
      BY FS_EmptySet
    <3> HIDE DEF U, V, P, L
    <3> QED
      BY <1>5, <1>10, <2>1, <3>1, <3>2
  <2>12. Y # {} => NewCase(h, w, k).revision = Cardinality(T)
    <3>1. NewCase(h, w, k).revision = IF k \in DOMAIN C THEN C[k].revision + 1 ELSE 1
      BY DEF NewCase
    <3>2. ASSUME Y # {}
          PROVE  T = S \cup {L}
      <4>1. \A n \in U : n \in Nat /\ n < L
        BY <1>1, <1>6
      <4>2. \E m \in Y : m <= L
        BY <1>1, <1>6, <2>2, <3>2
      <4>3. \A n \in U : (\E m \in Y : m <= n) <=> (\E m \in X : m <= n)
        BY <1>1, <4>1, <2>2
      <4>4. /\ S = {n \in U : \E m \in X : m <= n}
            /\ T = {n \in V : \E m \in Y : m <= n}
        BY DEF SinceException
      <4> HIDE DEF U, V, X, Y, S, T, L
      <4> QED
        BY <2>1, <4>2, <4>3, <4>4
    <3>3. X = {} => S = {} /\ Cardinality(S) = 0
      BY FS_EmptySet DEF SinceException
    <3>4. /\ k \in DOMAIN C <=> X # {}
          /\ X # {} => C[k].revision = Cardinality(S)
      BY <1>5
    <3>5. Cardinality(S \cup {L}) = Cardinality(S) + 1
      BY <1>10
    <3> HIDE DEF X, Y, S, T, C, L
    <3>6. NewCase(h, w, k).revision = Cardinality(S) + 1
      BY <3>1, <3>3, <3>4
    <3> QED
      BY <3>2, <3>5, <3>6
  <2> HIDE DEF U, V, X, Y, S, T, old, new, P, C, b, d, L
  <2>10. /\ k \in DOMAIN ProofHeads(d) <=> V # {}
         /\ k \in DOMAIN CaseHeads(d) <=> Y # {}
         /\ V # {} => ProofHeads(d)[k].revision = Cardinality(V)
         /\ Y # {} =>
              /\ CaseHeads(d)[k].revision = Cardinality(T)
              /\ CaseHeads(d)[k].proof = ProofHeads(d)[k]
              /\ CaseHeads(d)[k].status = "OPEN" <=> new \in Y
              /\ CaseHeads(d)[k].status = "RESOLVED_BY_CORRECTION" =>
                   k \in d[new].work.items
    BY <1>1, <1>2, <1>3, <1>5, <2>3, <2>4, <2>6, <2>7, <2>8, <2>9, <2>11, <2>12
  <2> QED
    BY <2>5, <2>10 DEF Follows, V, Y, T, new, d
<1> QED
  BY <1>8, <1>9

\* What the files hold depends on the files alone.
LEMMA FilesKept == Files /\ UNCHANGED files => Files'
  BY DEF Files, files, FileTypes, Named, Digests, OutcomesStand, HistoryVerifies

\* Receipts stand while HEAD and they stay.
LEMMA AnswersKept == Answers /\ UNCHANGED <<head, receipts>> => Answers'
  BY DEF Answers

\* A call that returns the commit that succeeds the head it expected.
LEMMA Returned ==
  ASSUME Answers, head' = head,
         NEW d \in Prefixes(head), Parent(d) = call.request.expected, Return(d)
  PROVE  Answers' /\ InCall'
<1> DEFINE r == [request |-> call.request, commit |-> d]
<1>1. call' = None /\ receipts' \subseteq receipts \cup {r}
  BY DEF Return
<1>2. r.commit \in Prefixes(head) /\ Parent(r.commit) = r.request.expected
  OBVIOUS
<1> HIDE DEF r
<1>3. Answers'
  BY <1>1, <1>2 DEF Answers
<1> QED
  BY <1>1, <1>3 DEF InCall

\* A call that ends without a receipt, and no call at all.
LEMMA RejectKeeps ==
  ASSUME StoreInv, UNCHANGED <<files, receipts>>, call' = None
  PROVE  StoreInv'
<1>1. Files'
  BY FilesKept DEF StoreInv
<1>2. Answers'
  BY AnswersKept DEF StoreInv, files
<1> QED
  BY <1>1, <1>2 DEF StoreInv, InCall

\* A caller brings a request for some earlier head.
LEMMA FinalizeKeeps ==
  ASSUME StoreInv, NEW a \in AttemptIds, NEW w \in Works,
         NEW e \in Prefixes(head) \cup {Genesis}, Finalize(Request(a, e, w))
  PROVE  StoreInv'
<1> DEFINE q == Request(a, e, w)
<1>1. UNCHANGED <<files, receipts>>
      /\ call' = [at |-> "check", request |-> q, commit |-> Genesis]
  BY DEF Finalize
<1>2. Files' /\ Answers'
  BY <1>1, FilesKept, AnswersKept DEF StoreInv, files
<1>3. e \in Seq(CommitBody) /\ e \in Digests /\ Genesis \in Seq(CommitBody)
  <2>1. Genesis \in Seq(CommitBody) /\ Genesis \in Digests
    BY DEF Genesis, Digests
  <2>2. ASSUME e \in Prefixes(head)
        PROVE  e \in commits /\ e \in Seq(CommitBody)
    BY <2>2, PrefixFacts DEF StoreInv, Files, HistoryVerifies, FileTypes
  <2> QED
    BY <2>1, <2>2 DEF Digests
<1>4. q \in FinalizationRequest /\ q.expected = e
  BY <1>3 DEF Request, FinalizationRequest
<1>5. Digests' = Digests
  BY <1>1 DEF Digests, files
<1> HIDE DEF q
<1>6. call' \in [at : CallSteps, request : FinalizationRequest, commit : Seq(CommitBody)]
      /\ call'.at = "check" /\ call'.request = q
  BY <1>1, <1>3, <1>4 DEF CallSteps
<1>7. InCall'
  BY <1>3, <1>4, <1>5, <1>6 DEF InCall
<1> QED
  BY <1>2, <1>7 DEF StoreInv

\* What a running call is, in all its steps.
LEMMA Running ==
  ASSUME StoreInv, NEW step, At(step)
  PROVE  /\ call # None /\ call.at = step
         /\ call \in [at : CallSteps, request : FinalizationRequest, commit : Seq(CommitBody)]
         /\ call.request \in FinalizationRequest /\ call.request.expected \in Digests
         /\ call.request.attempt \in AttemptIds
  BY DEF StoreInv, InCall, At, FinalizationRequest

\* The commit that a request found is the one its call may return.
LEMMA OutcomeKeeps ==
  ASSUME StoreInv, UNCHANGED <<files, receipts>>, NEW q \in FinalizationRequest,
         q.expected \in Digests, NEW d \in Recovered(q),
         call' = [at |-> "outcome", request |-> q, commit |-> d]
  PROVE  StoreInv'
<1>1. Files' /\ Answers'
  BY FilesKept, AnswersKept DEF StoreInv, files
<1>2. d \in Prefixes(head) /\ RequestOf(d) = q
  BY DEF Recovered
<1>3. d \in Seq(CommitBody)
  BY <1>2, PrefixFacts DEF StoreInv, Files, FileTypes
<1>4. Digests' = Digests /\ head' = head
  BY DEF Digests, files
<1>5. call' \in [at : CallSteps, request : FinalizationRequest, commit : Seq(CommitBody)]
      /\ call'.at = "outcome" /\ call'.request = q /\ call'.commit = d
  BY <1>3 DEF CallSteps
<1>6. InCall'
  BY <1>2, <1>4, <1>5 DEF InCall
<1> QED
  BY <1>1, <1>6 DEF StoreInv

\* The checks before the first write.
LEMMA CheckKeeps ==
  ASSUME StoreInv, Check
  PROVE  StoreInv'
<1> DEFINE q == call.request
           a == q.attempt
           earlier == Corrected(head, q.work.correction)
<1>1. /\ call # None /\ call.at = "check"
      /\ call \in [at : CallSteps, request : FinalizationRequest, commit : Seq(CommitBody)]
      /\ q \in FinalizationRequest /\ q.expected \in Digests /\ a \in AttemptIds
  BY Running DEF Check
<1>2. CASE Reject
  BY <1>2, RejectKeeps DEF Reject
<1>3. CASE Goto("request") /\ UNCHANGED <<files, receipts>> /\ requests[a] \in {None, q}
  <2>1. Files' /\ Answers'
    BY <1>3, FilesKept, AnswersKept DEF StoreInv, files
  <2>2. call' \in [at : CallSteps, request : FinalizationRequest, commit : Seq(CommitBody)]
        /\ call'.at = "request" /\ call'.request = q
    BY <1>1, <1>3 DEF Goto, CallSteps
  <2>3. Digests' = Digests /\ requests' = requests
    BY <1>3 DEF Digests, files
  <2>4. InCall'
    BY <1>1, <1>3, <2>2, <2>3 DEF InCall
  <2> QED
    BY <2>1, <2>4 DEF StoreInv
<1>4. ASSUME NEW d \in Prefixes(head), Parent(d) = q.expected, Return(d), UNCHANGED files
      PROVE  StoreInv'
  <2>1. Files'
    BY <1>4, FilesKept DEF StoreInv
  <2>2. Answers' /\ InCall'
    BY <1>4, Returned DEF StoreInv, files
  <2> QED
    BY <2>1, <2>2 DEF StoreInv
<1>5. ASSUME NEW d \in Recovered(q), call' = [call EXCEPT !.at = "outcome", !.commit = d],
             UNCHANGED <<files, receipts>>
      PROVE  StoreInv'
  <2>1. call' = [at |-> "outcome", request |-> q, commit |-> d]
    BY <1>1, <1>5
  <2> QED
    BY <1>1, <1>5, <2>1, OutcomeKeeps
<1>6. CASE requests[a] \notin {None, q}
  BY <1>2, <1>6 DEF Check
<1>7. CASE requests[a] \in {None, q} /\ outcomes[a] # None
  <2> DEFINE o == outcomes[a]
  <2>1. Return(o) /\ UNCHANGED files
    BY <1>7 DEF Check
  <2>2. o \in Prefixes(head) /\ RequestOf(o) = requests[a]
    BY <1>1, <1>7 DEF StoreInv, Files, OutcomesStand
  <2>3. RequestOf(o) # None
    BY <2>2, RequestOfPrefix DEF StoreInv, Files, FileTypes
  <2>4. Parent(o) = q.expected
    BY <1>7, <2>2, <2>3 DEF RequestOf, Request
  <2> QED
    BY <1>4, <2>1, <2>2, <2>4
<1>8. CASE requests[a] \in {None, q} /\ outcomes[a] = None /\ earlier # {}
  <2>1. PICK d \in earlier :
          IF Parent(d) = q.expected /\ Last(d).work = q.work
          THEN Return(d) /\ UNCHANGED files ELSE Reject
    BY <1>8 DEF Check
  <2>2. d \in Prefixes(head)
    BY DEF Corrected
  <2> QED
    BY <1>2, <1>4, <2>1, <2>2
<1>9. CASE requests[a] \in {None, q} /\ outcomes[a] = None /\ earlier = {}
           /\ Recovered(q) # {}
  BY <1>5, <1>9 DEF Check
<1>10. CASE requests[a] \in {None, q} /\ outcomes[a] = None /\ earlier = {}
            /\ Recovered(q) = {}
  BY <1>2, <1>3, <1>10 DEF Check
<1> QED
  BY <1>6, <1>7, <1>8, <1>9, <1>10

\* The request is written once, and before the commit that answers it.
LEMMA WriteRequestKeeps ==
  ASSUME StoreInv, WriteRequest
  PROVE  StoreInv'
<1> DEFINE q == call.request
           a == q.attempt
<1>1. /\ call # None /\ call.at = "request"
      /\ call \in [at : CallSteps, request : FinalizationRequest, commit : Seq(CommitBody)]
      /\ q \in FinalizationRequest /\ q.expected \in Digests /\ a \in AttemptIds
  BY Running DEF WriteRequest
<1>2. /\ requests' = [requests EXCEPT ![a] = q]
      /\ call' = [call EXCEPT !.at = "parent"]
      /\ UNCHANGED <<outcomes, objects, commits, head, receipts>>
  BY DEF WriteRequest, Goto
<1>3. requests[a] \in {None, q}
  BY <1>1 DEF StoreInv, InCall
<1>4. requests \in [AttemptIds -> FinalizationRequest \cup {None}]
  BY DEF StoreInv, Files, FileTypes
<1>5. \A b \in AttemptIds : requests[b] # None => requests'[b] = requests[b]
  BY <1>2, <1>3, <1>4
<1>6. requests'[a] = q
  BY <1>1, <1>2, <1>4
<1>7. \A d \in Prefixes(head) : RequestOf(d) # None /\ Last(d).attempt \in AttemptIds
  BY RequestOfPrefix, PrefixFacts DEF StoreInv, Files, FileTypes, CommitBody
<1>8. FileTypes'
  BY <1>1, <1>2, <1>4 DEF StoreInv, Files, FileTypes
<1>9. Digests' = Digests
  BY <1>2 DEF Digests
<1>10. Named'
  <2>1. \A b \in AttemptIds : b # a => requests'[b] = requests[b]
    BY <1>2, <1>4
  <2> QED
    BY <1>1, <1>2, <1>6, <1>9, <2>1 DEF StoreInv, Files, Named
<1>11. HistoryVerifies'
  BY <1>2, <1>5, <1>7 DEF StoreInv, Files, HistoryVerifies
<1>12. OutcomesStand'
  BY <1>2, <1>5, <1>7 DEF StoreInv, Files, OutcomesStand
<1>13. Files'
  BY <1>2, <1>8, <1>10, <1>11, <1>12 DEF StoreInv, Files
<1>14. Answers'
  BY <1>2, AnswersKept DEF StoreInv
<1>15. call' \in [at : CallSteps, request : FinalizationRequest, commit : Seq(CommitBody)]
       /\ call'.at = "parent" /\ call'.request = q
  BY <1>1, <1>2 DEF CallSteps
<1>16. InCall'
  BY <1>1, <1>6, <1>9, <1>15 DEF InCall
<1> QED
  BY <1>13, <1>14, <1>16 DEF StoreInv

\* Only a request for the head that is there goes on to a commit.
LEMMA CheckParentKeeps ==
  ASSUME StoreInv, CheckParent
  PROVE  StoreInv'
<1> DEFINE q == call.request
<1>1. /\ call # None /\ call.at = "parent"
      /\ call \in [at : CallSteps, request : FinalizationRequest, commit : Seq(CommitBody)]
      /\ q \in FinalizationRequest /\ q.expected \in Digests
  BY Running DEF CheckParent
<1>2. CASE Reject
  BY <1>2, RejectKeeps DEF Reject
<1>3. CASE ~ Reject
  <2>1. /\ head = q.expected /\ Correctable(q) /\ Len(head) < MaxCommits
        /\ call' = [call EXCEPT !.at = "objects", !.commit = Successor(head, q)]
        /\ UNCHANGED <<files, receipts>>
    BY <1>3 DEF CheckParent
  <2>2. Files' /\ Answers'
    BY <2>1, FilesKept, AnswersKept DEF StoreInv, files
  <2>3. Successor(head, q) \in Seq(CommitBody)
    BY <1>1, <2>1, BodyFacts, SuccessorFacts DEF StoreInv, Files, FileTypes
  <2>4. /\ call' \in [at : CallSteps, request : FinalizationRequest, commit : Seq(CommitBody)]
        /\ call'.at = "objects" /\ call'.request = q /\ call'.commit = Successor(head, q)
    BY <1>1, <2>1, <2>3 DEF CallSteps
  <2>5. Digests' = Digests /\ requests' = requests /\ head' = head
    BY <2>1 DEF Digests, files
  <2>6. requests[q.attempt] = q
    BY <1>1 DEF StoreInv, InCall
  <2>7. Corrected(head, q.work.correction) = {}
    BY <2>1 DEF Correctable
  <2>8. InCall'
    BY <1>1, <2>1, <2>4, <2>5, <2>6, <2>7 DEF InCall
  <2> QED
    BY <2>2, <2>8 DEF StoreInv
<1> QED
  BY <1>2, <1>3

\* What a call between the parent check and the new head relies on.
LEMMA Locked ==
  ASSUME StoreInv, call # None, call.at \in {"objects", "commit", "head"}
  PROVE  LET q == call.request IN
         /\ call \in [at : CallSteps, request : FinalizationRequest, commit : Seq(CommitBody)]
         /\ q \in FinalizationRequest /\ q.expected \in Digests
         /\ requests[q.attempt] = q /\ q.expected = head
         /\ call.commit = Successor(head, q)
         /\ Body(head, q.attempt, q.work) \in CommitBody
         /\ Written(head, q.work) \subseteq Proof \cup Case
         /\ Numbered(call.commit)
         /\ call.commit \in Seq(CommitBody) /\ Parent(call.commit) = head
         /\ Len(head) < MaxCommits /\ Corrected(head, q.work.correction) = {}
<1> DEFINE q == call.request
<1>1. /\ call \in [at : CallSteps, request : FinalizationRequest, commit : Seq(CommitBody)]
      /\ q.expected \in Digests /\ requests[q.attempt] = q /\ q.expected = head
      /\ call.commit = Successor(head, q)
      /\ Len(head) < MaxCommits /\ Corrected(head, q.work.correction) = {}
  BY DEF StoreInv, InCall
<1>2. head \in Seq(CommitBody) /\ Numbered(head) /\ q \in FinalizationRequest
  BY <1>1 DEF StoreInv, Files, FileTypes
<1>3. /\ Body(head, q.attempt, q.work) \in CommitBody
      /\ Written(head, q.work) \subseteq Proof \cup Case
      /\ Numbered(call.commit)
  BY <1>1, <1>2, BodyFacts
<1>4. call.commit \in Seq(CommitBody) /\ Parent(call.commit) = head
  BY <1>1, <1>2, <1>3, SuccessorFacts
<1> QED
  BY <1>1, <1>2, <1>3, <1>4

\* An object more does no harm, and none is missing when the commit comes.
LEMMA WriteObjectsKeeps ==
  ASSUME StoreInv, WriteObjects
  PROVE  StoreInv'
<1> DEFINE q == call.request
<1>1. call # None /\ call.at = "objects"
  BY DEF WriteObjects, At
<1>2. /\ call \in [at : CallSteps, request : FinalizationRequest, commit : Seq(CommitBody)]
      /\ q.expected \in Digests
      /\ requests[q.attempt] = q /\ q.expected = head
      /\ call.commit = Successor(head, q)
      /\ Written(head, q.work) \subseteq Proof \cup Case
      /\ Parent(call.commit) = head
      /\ Len(head) < MaxCommits /\ Corrected(head, q.work.correction) = {}
  BY <1>1, Locked
<1>3. Missing = Written(head, q.work) \ objects
  BY <1>2 DEF Missing
<1>4. UNCHANGED <<requests, outcomes, commits, head, receipts>>
  BY DEF WriteObjects
<1>5. Digests' = Digests
  BY <1>4 DEF Digests
<1>6. CASE Missing = {}
  <2>1. call' = [call EXCEPT !.at = "commit"] /\ objects' = objects
    BY <1>6 DEF WriteObjects, Goto
  <2>2. Files' /\ Answers'
    BY <1>4, <2>1, FilesKept, AnswersKept DEF StoreInv, files
  <2>3. /\ call' \in [at : CallSteps, request : FinalizationRequest, commit : Seq(CommitBody)]
        /\ call'.at = "commit" /\ call'.request = q /\ call'.commit = call.commit
    BY <1>2, <2>1 DEF CallSteps
  <2>4. InCall'
    BY <1>2, <1>3, <1>4, <1>5, <1>6, <2>1, <2>3 DEF InCall
  <2> QED
    BY <2>2, <2>4 DEF StoreInv
<1>7. ASSUME NEW o \in Missing, objects' = objects \cup {o}, UNCHANGED call
      PROVE  StoreInv'
  <2>1. FileTypes'
    BY <1>2, <1>3, <1>4, <1>7 DEF StoreInv, Files, FileTypes
  <2>2. Named' /\ OutcomesStand'
    BY <1>4, <1>5 DEF StoreInv, Files, Named, OutcomesStand
  <2>3. HistoryVerifies'
    BY <1>4, <1>7 DEF StoreInv, Files, HistoryVerifies
  <2>4. Files'
    BY <1>4, <2>1, <2>2, <2>3 DEF StoreInv, Files
  <2>5. Answers'
    BY <1>4, AnswersKept DEF StoreInv
  <2>6. InCall'
    BY <1>1, <1>2, <1>4, <1>5, <1>7 DEF InCall
  <2> QED
    BY <2>4, <2>5, <2>6 DEF StoreInv
<1> QED
  BY <1>6, <1>7 DEF WriteObjects

\* A commit on disk that nothing names yet.
LEMMA WriteCommitKeeps ==
  ASSUME StoreInv, WriteCommit
  PROVE  StoreInv'
<1> DEFINE q == call.request
<1>1. call # None /\ call.at = "commit"
  BY DEF WriteCommit, At
<1>2. /\ call \in [at : CallSteps, request : FinalizationRequest, commit : Seq(CommitBody)]
      /\ q.expected \in Digests
      /\ requests[q.attempt] = q /\ q.expected = head
      /\ call.commit = Successor(head, q)
      /\ call.commit \in Seq(CommitBody) /\ Parent(call.commit) = head
      /\ Len(head) < MaxCommits /\ Corrected(head, q.work.correction) = {}
  BY <1>1, Locked
<1>3. /\ UNCHANGED <<requests, outcomes, objects, head, receipts>>
      /\ commits' = commits \cup {call.commit}
      /\ call' = [call EXCEPT !.at = "head"]
  BY DEF WriteCommit, Goto
<1>4. Digests \subseteq Digests' /\ head \in Digests
  BY <1>3 DEF Digests, StoreInv, Files, Named
<1>5. FileTypes'
  BY <1>2, <1>3 DEF StoreInv, Files, FileTypes
<1>6. Named'
  BY <1>2, <1>3, <1>4 DEF StoreInv, Files, Named
<1>7. HistoryVerifies' /\ OutcomesStand'
  BY <1>3 DEF StoreInv, Files, HistoryVerifies, OutcomesStand
<1>8. Files'
  BY <1>3, <1>5, <1>6, <1>7 DEF StoreInv, Files
<1>9. Answers'
  BY <1>3, AnswersKept DEF StoreInv
<1>10. /\ call' \in [at : CallSteps, request : FinalizationRequest, commit : Seq(CommitBody)]
       /\ call'.at = "head" /\ call'.request = q /\ call'.commit = call.commit
  BY <1>2, <1>3 DEF CallSteps
<1>11. Written(head, q.work) \subseteq objects
  BY <1>1 DEF StoreInv, InCall
<1>12. InCall'
  BY <1>2, <1>3, <1>4, <1>10, <1>11 DEF InCall
<1> QED
  BY <1>8, <1>9, <1>12 DEF StoreInv

\* The head moves to a commit whose request and objects are on disk.
LEMMA ReplaceHeadKeeps ==
  ASSUME StoreInv, ReplaceHead
  PROVE  StoreInv'
<1> DEFINE q == call.request
           d == call.commit
<1>1. call # None /\ call.at = "head"
  BY DEF ReplaceHead, At
<1>2. /\ call \in [at : CallSteps, request : FinalizationRequest, commit : Seq(CommitBody)]
      /\ q \in FinalizationRequest /\ q.expected \in Digests
      /\ requests[q.attempt] = q /\ q.expected = head
      /\ d = Successor(head, q)
      /\ Body(head, q.attempt, q.work) \in CommitBody
      /\ Numbered(d)
      /\ d \in Seq(CommitBody) /\ Parent(d) = head
      /\ Corrected(head, q.work.correction) = {}
  BY <1>1, Locked
<1>3. /\ UNCHANGED <<requests, outcomes, objects, commits, receipts>>
      /\ head' = d /\ call' = [call EXCEPT !.at = "outcome"]
  BY DEF ReplaceHead, Goto
<1>4. d \in commits /\ Written(head, q.work) \subseteq objects
  BY <1>1 DEF StoreInv, InCall
<1>5. head \in Seq(CommitBody)
  BY DEF StoreInv, Files, FileTypes
<1>6. /\ Len(d) = Len(head) + 1 /\ d[Len(d)] = Body(head, q.attempt, q.work)
      /\ \A n \in 1..Len(head) : d[n] = head[n]
      /\ Prefixes(d) = Prefixes(head) \cup {d} /\ RequestOf(d) = q
  BY <1>2, <1>5, SuccessorFacts
<1>7. d[Len(d)].attempt = q.attempt /\ d[Len(d)].work = q.work
  BY <1>6 DEF Body
<1>8. Digests' = Digests
  BY <1>3 DEF Digests
<1> HIDE DEF d
<1>9. FileTypes'
  BY <1>2, <1>3 DEF StoreInv, Files, FileTypes
<1>10. Named'
  BY <1>3, <1>4, <1>8 DEF StoreInv, Files, Named, Digests
<1>11. OutcomesStand'
  BY <1>3, <1>6 DEF StoreInv, Files, OutcomesStand
<1>12. HistoryVerifies'
  <2>1. /\ d \in commits /\ requests[Last(d).attempt] = RequestOf(d)
        /\ d = Successor(Parent(d), RequestOf(d))
        /\ Written(Parent(d), Last(d).work) \subseteq objects
    BY <1>2, <1>4, <1>6, <1>7 DEF Last
  <2> QED
    BY <1>3, <1>6, <2>1 DEF StoreInv, Files, HistoryVerifies
<1>13. CorrectedOnce(d)
  <2>1. ASSUME NEW n \in 1..Len(head), q.work.correction # None
        PROVE  head[n].work.correction # q.work.correction
    <3> DEFINE e == SubSeq(head, 1, n)
    <3>1. e \in Prefixes(head)
      BY DEF Prefixes
    <3>2. Len(e) = n
      BY <1>5
    <3>3. Last(e) = head[n]
      BY <1>5, <3>1, <3>2, PrefixFacts
    <3>4. e \notin Corrected(head, q.work.correction)
      BY <1>2
    <3> QED
      BY <2>1, <3>1, <3>3, <3>4 DEF Corrected
  <2>2. CorrectedOnce(head)
    BY DEF StoreInv, Files
  <2>3. \A m, n \in 1..Len(head) :
          m = n \/ d[m].work.correction = None \/ d[m].work.correction # d[n].work.correction
    BY <1>6, <2>2 DEF CorrectedOnce
  <2>4. \A n \in 1..Len(head) :
          \/ q.work.correction = None
          \/ d[n].work.correction # d[Len(d)].work.correction
    BY <1>6, <1>7, <2>1
  <2>5. 1..Len(d) = (1..Len(head)) \cup {Len(d)}
    BY <1>5, <1>6
  <2>6. \A n \in 1..Len(head) :
          \/ d[n].work.correction = None
          \/ d[n].work.correction # d[Len(d)].work.correction
    BY <1>7, <2>4
  <2>7. d[Len(d)].work.correction = q.work.correction
    BY <1>7
  <2> SUFFICES ASSUME NEW m \in 1..Len(d), NEW n \in 1..Len(d)
               PROVE  \/ m = n
                      \/ d[m].work.correction = None
                      \/ d[m].work.correction # d[n].work.correction
    BY DEF CorrectedOnce
  <2>8. CASE m \in 1..Len(head) /\ n \in 1..Len(head)
    BY <2>3, <2>8
  <2>9. CASE m \in 1..Len(head) /\ n = Len(d)
    BY <2>6, <2>9
  <2>10. CASE m = Len(d) /\ n \in 1..Len(head)
    BY <2>4, <2>7, <2>10
  <2>11. CASE m = Len(d) /\ n = Len(d)
    BY <2>11
  <2> QED
    BY <2>5, <2>8, <2>9, <2>10, <2>11
<1>14. \A k \in Keys : Follows(d, k) /\ HasNewest(d, k)
  BY <1>2, <1>5, FollowsSuccessor DEF StoreInv, Files
<1>15. Files'
  BY <1>2, <1>3, <1>9, <1>10, <1>11, <1>12, <1>13, <1>14 DEF Files
<1>16. Answers'
  BY <1>3, <1>6 DEF StoreInv, Answers
<1>17. /\ call' \in [at : CallSteps, request : FinalizationRequest, commit : Seq(CommitBody)]
       /\ call'.at = "outcome" /\ call'.request = q /\ call'.commit = d
  BY <1>2, <1>3 DEF CallSteps, d
<1>18. InCall'
  BY <1>2, <1>3, <1>6, <1>8, <1>17 DEF InCall
<1> QED
  BY <1>15, <1>16, <1>18 DEF StoreInv

\* The outcome of a request that is in the history.
LEMMA WriteOutcomeKeeps ==
  ASSUME StoreInv, WriteOutcome
  PROVE  StoreInv'
<1> DEFINE q == call.request
           a == q.attempt
           d == call.commit
<1>1. /\ call # None /\ call.at = "outcome"
      /\ call \in [at : CallSteps, request : FinalizationRequest, commit : Seq(CommitBody)]
      /\ q \in FinalizationRequest /\ a \in AttemptIds
  BY Running DEF WriteOutcome
<1>2. d \in Prefixes(head) /\ RequestOf(d) = q /\ d \in Seq(CommitBody)
  BY <1>1 DEF StoreInv, InCall
<1>3. /\ outcomes' = [outcomes EXCEPT ![a] = d] /\ Return(d)
      /\ UNCHANGED <<requests, objects, commits, head>>
  BY DEF WriteOutcome
<1>4. Last(d).attempt = a /\ Parent(d) = q.expected
  BY <1>2 DEF RequestOf, Request
<1>5. requests[a] = q
  BY <1>2, <1>4 DEF StoreInv, Files, HistoryVerifies
<1>6. outcomes \in [AttemptIds -> Seq(CommitBody) \cup {None}]
  BY DEF StoreInv, Files, FileTypes
<1>7. /\ outcomes'[a] = d
      /\ \A b \in AttemptIds : b # a => outcomes'[b] = outcomes[b]
      /\ outcomes' \in [AttemptIds -> Seq(CommitBody) \cup {None}]
  BY <1>1, <1>2, <1>3, <1>6
<1>8. FileTypes'
  BY <1>3, <1>7 DEF StoreInv, Files, FileTypes
<1>9. Named' /\ HistoryVerifies'
  BY <1>3 DEF StoreInv, Files, Named, Digests, HistoryVerifies
<1>10. OutcomesStand'
  BY <1>2, <1>3, <1>5, <1>7 DEF StoreInv, Files, OutcomesStand
<1>11. Files'
  BY <1>3, <1>8, <1>9, <1>10 DEF StoreInv, Files
<1>12. Answers' /\ InCall'
  BY <1>2, <1>3, <1>4, Returned DEF StoreInv
<1> QED
  BY <1>11, <1>12 DEF StoreInv

\* A recovery returns what the history holds, and writes no commit.
LEMMA RecoverAttemptKeeps ==
  ASSUME StoreInv, NEW a \in AttemptIds, NEW w \in Works,
         NEW e \in Prefixes(head) \cup {Genesis}, RecoverAttempt(Request(a, e, w))
  PROVE  StoreInv'
<1> DEFINE q == Request(a, e, w)
<1>2. CASE /\ call = None /\ requests[a] = q /\ UNCHANGED <<files, receipts>>
           /\ \E d \in Recovered(q) : call' = [at |-> "outcome", request |-> q, commit |-> d]
  <2>1. PICK d \in Recovered(q) : call' = [at |-> "outcome", request |-> q, commit |-> d]
    BY <1>2
  <2>2. d \in Prefixes(head) /\ RequestOf(d) = q
    BY DEF Recovered
  <2>3. q \in FinalizationRequest /\ requests[a] # None
    BY <1>2, <2>2, RequestOfPrefix DEF StoreInv, Files, FileTypes
  <2>4. q.expected \in Digests
    BY <1>2, <2>3 DEF StoreInv, Files, Named
  <2> QED
    BY <1>2, <2>1, <2>3, <2>4, OutcomeKeeps
<1>3. ASSUME NEW d \in Corrected(head, w.correction), Parent(d) = e,
             receipts' = receipts \cup {[request |-> q, commit |-> d]},
             UNCHANGED <<files, call>>
      PROVE  StoreInv'
  <2>1. d \in Prefixes(head)
    BY DEF Corrected
  <2>2. q.expected = e
    BY DEF Request
  <2> HIDE DEF q
  <2>3. Answers'
    BY <1>3, <2>1, <2>2 DEF StoreInv, Answers, files
  <2>4. Files'
    BY <1>3, FilesKept DEF StoreInv
  <2>5. InCall'
    BY <1>3 DEF StoreInv, InCall, Digests, files
  <2> QED
    BY <2>3, <2>4, <2>5 DEF StoreInv
<1>4. q.attempt = a /\ q.expected = e /\ q.work = w
  BY DEF Request
<1> QED
  BY <1>2, <1>3, <1>4 DEF RecoverAttempt

\* The store is empty at the start.
LEMMA StoreInit == Init => StoreInv
<1> SUFFICES ASSUME Init
             PROVE  StoreInv
  OBVIOUS
<1>1. head = <<>> /\ Len(head) = 0 /\ head \in Seq(CommitBody) /\ 1..Len(head) = {}
  BY DEF Init, Genesis
<1>2. Prefixes(head) = {}
  BY <1>1 DEF Prefixes
<1>3. DOMAIN ProofHeads(head) = {} /\ DOMAIN CaseHeads(head) = {}
  BY <1>1 DEF ProofHeads, CaseHeads, NoHeads, Genesis
<1>4. FileTypes /\ Named
  BY <1>1 DEF Init, FileTypes, Named, Digests, Genesis
<1>5. OutcomesStand /\ HistoryVerifies /\ Answers /\ InCall
  BY <1>2 DEF Init, OutcomesStand, HistoryVerifies, Answers, InCall
<1>6. Numbered(head) /\ CorrectedOnce(head)
  BY <1>1, <1>3 DEF Numbered, CorrectedOnce
<1>7. \A k \in Keys : UpdatesOf(head, k) = {} /\ ExceptionsOf(head, k) = {}
  BY <1>1 DEF UpdatesOf, ExceptionsOf
<1>8. \A k \in Keys : Follows(head, k) /\ HasNewest(head, k)
  BY <1>3, <1>7 DEF Follows, HasNewest
<1> QED
  BY <1>4, <1>5, <1>6, <1>8 DEF StoreInv, Files

\* Every step of the store keeps StoreInv.
LEMMA StoreStep == StoreInv /\ [Next]_vars => StoreInv'
<1> SUFFICES ASSUME StoreInv, [Next]_vars
             PROVE  StoreInv'
  OBVIOUS
<1>1. CASE UNCHANGED vars
  <2>1. Files' /\ Answers'
    BY <1>1, FilesKept, AnswersKept DEF StoreInv, vars, files
  <2>2. InCall'
    BY <1>1 DEF StoreInv, InCall, Digests, vars, files
  <2> QED
    BY <2>1, <2>2 DEF StoreInv
<1>2. ASSUME NEW a \in AttemptIds, NEW w \in Works, NEW e \in Prefixes(head) \cup {Genesis},
             Finalize(Request(a, e, w)) \/ RecoverAttempt(Request(a, e, w))
      PROVE  StoreInv'
  BY <1>2, FinalizeKeeps, RecoverAttemptKeeps
<1>3. CASE Steps
  BY <1>3, CheckKeeps, WriteRequestKeeps, CheckParentKeeps, WriteObjectsKeeps,
     WriteCommitKeeps, ReplaceHeadKeeps, WriteOutcomeKeeps DEF Steps
<1>4. CASE Stop
  BY <1>4, RejectKeeps DEF Stop
<1> QED
  BY <1>1, <1>2, <1>3, <1>4 DEF Next

\* StoreInv is an invariant of the store.
LEMMA StoreInvariant == Spec => []StoreInv
  BY StoreInit, StoreStep, PTL DEF Spec

\* The files, the call and the receipts name each other as they should.
THEOREM TypeCorrect == Spec => []TypeOK
<1>1. ASSUME StoreInv
      PROVE  TypeOK
  <2>1. /\ FileTypes /\ Named /\ OutcomesStand /\ HistoryVerifies /\ Answers /\ InCall
    BY <1>1 DEF StoreInv, Files
  <2>2. \A a \in AttemptIds :
          /\ requests[a] # None =>
               /\ requests[a].attempt = a
               /\ requests[a].expected \in Digests /\ requests[a].work \in Works
          /\ outcomes[a] \in commits \cup {None}
    BY <2>1 DEF FileTypes, Named, OutcomesStand, HistoryVerifies, FinalizationRequest
  <2>3. call # None => call.at \in CallSteps /\ call.request.expected \in Digests
    BY <2>1 DEF InCall
  <2>4. \A r \in receipts : r.commit \in commits
    BY <2>1 DEF Answers, HistoryVerifies
  <2> QED
    BY <2>1, <2>2, <2>3, <2>4 DEF TypeOK, FileTypes, Named, Digests, CallSteps
<1> QED
  BY <1>1, StoreInvariant, PTL

\* verify_history never rejects what the store itself wrote, wherever a call
\* stopped or a write failed (796-921).
THEOREM HistoryVerifiesHolds == Spec => []HistoryVerifies
<1>1. StoreInv => HistoryVerifies
  BY DEF StoreInv, Files
<1> QED
  BY <1>1, StoreInvariant, PTL

\* An attempt and a correction identity are in the history at most once,
\* however often a call is repeated (1304-1332, 1071-1074).
THEOREM AtMostOnceHolds == Spec => []AtMostOnce
<1>1. ASSUME StoreInv
      PROVE  AtMostOnce
  <2> SUFFICES ASSUME NEW m \in 1..Len(head), NEW n \in 1..Len(head), m # n
               PROVE  /\ head[m].attempt # head[n].attempt
                      /\ \/ head[m].work.correction = None
                         \/ head[m].work.correction # head[n].work.correction
    BY DEF AtMostOnce
  <2> DEFINE d == SubSeq(head, 1, m)
             e == SubSeq(head, 1, n)
  <2>1. head \in Seq(CommitBody) /\ HistoryVerifies /\ CorrectedOnce(head)
    BY <1>1 DEF StoreInv, Files, FileTypes
  <2>2. d \in Prefixes(head) /\ e \in Prefixes(head)
    BY DEF Prefixes
  <2>3. Len(d) = m /\ Len(e) = n
    BY <2>1
  <2> HIDE DEF d, e
  <2>4. Last(d) = head[m] /\ Last(e) = head[n]
    BY <2>1, <2>2, <2>3, PrefixFacts
  <2>5. ASSUME head[m].attempt = head[n].attempt
        PROVE  FALSE
    <3>1. RequestOf(d) = RequestOf(e)
      BY <2>1, <2>2, <2>4, <2>5 DEF HistoryVerifies
    <3>2. Parent(d) = Parent(e)
      BY <3>1 DEF RequestOf, Request
    <3> QED
      BY <2>1, <2>2, <2>3, <3>2, PrefixByParent
  <2> QED
    BY <2>1, <2>5 DEF CorrectedOnce
<1> QED
  BY <1>1, StoreInvariant, PTL

\* A receipt names a commit that stays in the history, equal requests have
\* equal receipts, and an outcome file says what the history says (1297-1332,
\* 1174-1190).
THEOREM ReceiptsStandHolds == Spec => []ReceiptsStand
<1>1. ASSUME StoreInv
      PROVE  ReceiptsStand
  <2>1. head \in Seq(CommitBody) /\ Answers /\ OutcomesStand
    BY <1>1 DEF StoreInv, Files, FileTypes
  <2>2. ASSUME NEW r \in receipts, NEW s \in receipts, s.request = r.request
        PROVE  s.commit = r.commit
    <3>1. /\ r.commit \in Prefixes(head) /\ s.commit \in Prefixes(head)
          /\ Parent(s.commit) = Parent(r.commit)
      BY <2>1, <2>2 DEF Answers
    <3> QED
      BY <2>1, <3>1, PrefixByParent
  <2> QED
    BY <2>1, <2>2 DEF ReceiptsStand, Answers, OutcomesStand
<1> QED
  BY <1>1, StoreInvariant, PTL

\* Proofs and case revisions of a key are numbered without a gap (_proof); its
\* case is open exactly while its newest proof is an exception, and a resolution
\* by correction is the doing of a commit that corrects the key (_case_revision).
THEOREM CaseFollowsProofHolds == Spec => []CaseFollowsProof
<1>1. ASSUME StoreInv
      PROVE  CaseFollowsProof
  <2>1. \A k \in Keys : Follows(head, k)
    BY <1>1 DEF StoreInv, Files
  <2> QED
    BY <2>1 DEF CaseFollowsProof, Follows, UpdatesOf, ExceptionsOf, SinceException
<1> QED
  BY <1>1, StoreInvariant, PTL
=============================================================================
