---------------------------- MODULE Finalization ----------------------------
(***************************************************************************)
(* FinalizationStore of ledgerguard/reconciliation/finalization.py: a      *)
(* directory of immutable requests, objects, commits and outcomes and one  *)
(* replaceable pointer, control/HEAD.                                      *)
(*                                                                         *)
(* Calls are serialized by flock, so one call at a time runs; each durable *)
(* write of it is one step, and the process may die, or a write fail,      *)
(* between any two.  What a caller brings (its expected head, its batches) *)
(* may be as old as it likes.                                              *)
(*                                                                         *)
(* A commit holds its parent's digest, so a digest is modelled as the      *)
(* sequence of the commit bodies from the first to its own.                *)
(***************************************************************************)
EXTENDS Integers, Sequences, FiniteSets

CONSTANTS
  AttemptIds, Keys, Manifests, Runs, Corrections,
  Works,       \* what a call asks to finalize, see Work
  MaxCommits,  \* bound on the length of the history
  None

Statuses == {"MATCHED", "EXCEPTION"}
CaseStatuses == {"OPEN", "RESOLVED_BY_LATE_DATA", "RESOLVED_BY_CORRECTION"}
Updates == UNION {[D -> Statuses] : D \in SUBSET Keys \ {{}}}

\* The batches of one run: the status reconciliation gave each key, and the
\* keys whose resolution a correction claims.
Work ==
  [run : Runs, manifest : Manifests, updates : Updates,
   correction : Corrections \cup {None}, items : SUBSET Keys]

ASSUME FinalizationConstants ==
  /\ MaxCommits \in Nat
  /\ Works \subseteq Work
  /\ \A w \in Works : /\ w.items \subseteq DOMAIN w.updates
                      /\ w.correction = None <=> w.items = {}

VARIABLES
  requests,  \* attempts/a/request.json
  outcomes,  \* attempts/a/outcome.json: the commit it names
  objects,   \* objects/*.json
  commits,   \* commits/*.json
  head,      \* control/HEAD, Genesis when absent
  call,      \* the call that holds the lock, or None
  receipts   \* history: what finalize and recover_attempt returned

files == <<requests, outcomes, objects, commits, head>>
vars == <<files, call, receipts>>

Genesis == <<>>
Request(a, expected, w) == [attempt |-> a, expected |-> expected, work |-> w]

Proof == [key : Keys, revision : 1..MaxCommits, status : Statuses, manifest : Manifests]
Case ==
  [key : Keys, revision : 1..MaxCommits, status : CaseStatuses,
   initial : Proof, proof : Proof]

\* What a commit and a request hold, whatever their contents say.
CommitBody ==
  [attempt : AttemptIds, work : Works,
   proofs : UNION {[D -> Proof] : D \in SUBSET Keys},
   cases : UNION {[D -> Case] : D \in SUBSET Keys}]
FinalizationRequest ==
  [attempt : AttemptIds, expected : Seq(CommitBody), work : Works]

\* A file that is absent is not a file that holds a request.
ASSUME NoneAssumption == None \notin FinalizationRequest

-----------------------------------------------------------------------------
(* Commits.                                                                *)

NoHeads == [k \in {} |-> None]
ProofHeads(h) == IF h = Genesis THEN NoHeads ELSE h[Len(h)].proofs
CaseHeads(h) == IF h = Genesis THEN NoHeads ELSE h[Len(h)].cases

\* A proof numbered by its commit.
NewProofByCommit(h, w, k) ==
  [key |-> k, status |-> w.updates[k], manifest |-> w.manifest, revision |-> Len(h) + 1]

\* _proof, on the parent h.
NewProof(h, w, k) ==
  [key |-> k, status |-> w.updates[k], manifest |-> w.manifest,
   revision |-> IF k \in DOMAIN ProofHeads(h) THEN ProofHeads(h)[k].revision + 1 ELSE 1]

\* A store that reports only open cases.
UpdatedCasesIfOpen(h, w) == {k \in DOMAIN w.updates : w.updates[k] = "EXCEPTION"}

\* A key gets a case revision once it had an exception.
UpdatedCases(h, w) ==
  {k \in DOMAIN w.updates : w.updates[k] = "EXCEPTION" \/ k \in DOMAIN CaseHeads(h)}

\* _case_revision, on the parent h.
NewCase(h, w, k) ==
  LET prior == CaseHeads(h) IN
  [key |-> k, proof |-> NewProof(h, w, k),
   revision |-> IF k \in DOMAIN prior THEN prior[k].revision + 1 ELSE 1,
   initial |-> IF k \in DOMAIN prior THEN prior[k].initial ELSE NewProof(h, w, k),
   status |-> IF w.updates[k] = "EXCEPTION" THEN "OPEN"
              ELSE IF k \in w.items THEN "RESOLVED_BY_CORRECTION"
              ELSE "RESOLVED_BY_LATE_DATA"]

Body(h, a, w) ==
  [attempt |-> a, work |-> w,
   proofs |-> [k \in DOMAIN ProofHeads(h) \cup DOMAIN w.updates |->
                 IF k \in DOMAIN w.updates THEN NewProof(h, w, k) ELSE ProofHeads(h)[k]],
   cases |-> [k \in DOMAIN CaseHeads(h) \cup UpdatedCases(h, w) |->
                IF k \in UpdatedCases(h, w) THEN NewCase(h, w, k) ELSE CaseHeads(h)[k]]]

Successor(h, q) == Append(h, Body(h, q.attempt, q.work))

Written(h, w) ==
  {NewProof(h, w, k) : k \in DOMAIN w.updates}
    \cup {NewCase(h, w, k) : k \in UpdatedCases(h, w)}

Prefixes(h) == {SubSeq(h, 1, n) : n \in 1..Len(h)}
Parent(d) == SubSeq(d, 1, Len(d) - 1)
Last(d) == d[Len(d)]
RequestOf(d) == Request(Last(d).attempt, Parent(d), Last(d).work)

\* _find_attempt: the commits of this very request.
Recovered(q) == {d \in Prefixes(head) : RequestOf(d) = q}

\* A search that begins at the newest commit's parent.
CorrectedBeforeHead(h, c) ==
  {d \in Prefixes(h) : d # h /\ c # None /\ Last(d).work.correction = c}

\* _find_correction: the commits of this correction identity.
Corrected(h, c) == {d \in Prefixes(h) : c # None /\ Last(d).work.correction = c}

\* _validate_request_state: a run keeps its manifest.
Admissible(q) ==
  \A n \in 1..Len(head) :
    head[n].work.run = q.work.run => head[n].work.manifest = q.work.manifest

\* _correction_keys: the correction is new to the parent and each of its keys
\* has an open case there.
Correctable(q) ==
  /\ Corrected(head, q.work.correction) = {}
  /\ \A k \in q.work.items :
       k \in DOMAIN CaseHeads(head) /\ CaseHeads(head)[k].status = "OPEN"

-----------------------------------------------------------------------------
TypeOK ==
  LET Digests == commits \cup {Genesis} IN
  /\ \A a \in AttemptIds :
       /\ requests[a] # None =>
            /\ requests[a].attempt = a
            /\ requests[a].expected \in Digests /\ requests[a].work \in Works
       /\ outcomes[a] \in commits \cup {None}
  /\ objects \subseteq Proof \cup Case
  /\ \A d \in commits : Parent(d) \in Digests
  /\ head \in Digests
  /\ call # None =>
       /\ call.at \in {"check", "request", "parent", "objects", "commit", "head", "outcome"}
       /\ call.request.expected \in Digests
  /\ \A r \in receipts : r.commit \in commits

Init ==
  /\ requests = [a \in AttemptIds |-> None]
  /\ outcomes = [a \in AttemptIds |-> None]
  /\ objects = {} /\ commits = {} /\ head = Genesis
  /\ call = None
  /\ receipts = {}

At(step) == call # None /\ call.at = step
Goto(step) == call' = [call EXCEPT !.at = step]
Reject == call' = None /\ UNCHANGED <<files, receipts>>

\* The caller may die before it sees the receipt.
Return(d) ==
  /\ call' = None
  /\ receipts' \in {receipts, receipts \cup {[request |-> call.request, commit |-> d]}}

-----------------------------------------------------------------------------
(* finalize                                                                *)

\* The caller read some head, not always the last one.
Finalize(q) ==
  /\ call = None
  /\ call' = [at |-> "check", request |-> q, commit |-> Genesis]
  /\ UNCHANGED <<files, receipts>>

\* A retry that trusts the request it finds and skips the rest.
CheckTrusting ==
  LET q == call.request IN
  /\ At("check")
  /\ IF requests[q.attempt] = q
     THEN Return(outcomes[q.attempt]) /\ UNCHANGED files
     ELSE Goto("request") /\ UNCHANGED <<files, receipts>>

\* Everything finalize decides before its first write.
Check ==
  LET q == call.request
      earlier == Corrected(head, q.work.correction)
  IN /\ At("check")
     /\ IF requests[q.attempt] \notin {None, q} THEN Reject
        ELSE IF outcomes[q.attempt] # None
        THEN Return(outcomes[q.attempt]) /\ UNCHANGED files
        ELSE IF earlier # {}
        THEN \E d \in earlier :
               IF Parent(d) = q.expected /\ Last(d).work = q.work
               THEN Return(d) /\ UNCHANGED files ELSE Reject
        ELSE IF Recovered(q) # {}
        THEN /\ \E d \in Recovered(q) : call' = [call EXCEPT !.at = "outcome", !.commit = d]
             /\ UNCHANGED <<files, receipts>>
        ELSE IF Admissible(q)
        THEN Goto("request") /\ UNCHANGED <<files, receipts>>
        ELSE Reject

\* A request that is not made durable.
SkipRequest ==
  /\ At("request")
  /\ Goto("parent")
  /\ UNCHANGED <<files, receipts>>

WriteRequest ==
  /\ At("request")
  /\ requests' = [requests EXCEPT ![call.request.attempt] = call.request]
  /\ Goto("parent")
  /\ UNCHANGED <<outcomes, objects, commits, head, receipts>>

\* A parent taken from the request instead of from HEAD.
CheckParentOfRequest ==
  LET q == call.request IN
  /\ At("parent")
  /\ IF Correctable(q) /\ Len(q.expected) < MaxCommits
     THEN /\ call' = [call EXCEPT !.at = "objects", !.commit = Successor(q.expected, q)]
          /\ UNCHANGED <<files, receipts>>
     ELSE Reject

CheckParent ==
  LET q == call.request IN
  /\ At("parent")
  /\ IF head = q.expected /\ Correctable(q) /\ Len(head) < MaxCommits
     THEN /\ call' = [call EXCEPT !.at = "objects", !.commit = Successor(head, q)]
          /\ UNCHANGED <<files, receipts>>
     ELSE Reject

Missing == Written(Parent(call.commit), call.request.work) \ objects

\* One proof or case at a time; a file that is there is not written again.
WriteObjects ==
  /\ At("objects")
  /\ IF Missing = {} THEN Goto("commit") /\ UNCHANGED objects
     ELSE \E o \in Missing : objects' = objects \cup {o} /\ UNCHANGED call
  /\ UNCHANGED <<requests, outcomes, commits, head, receipts>>

\* A commit that is acknowledged without replacing HEAD.
WriteCommitOnly ==
  /\ At("commit")
  /\ commits' = commits \cup {call.commit}
  /\ Goto("outcome")
  /\ UNCHANGED <<requests, outcomes, objects, head, receipts>>

WriteCommit ==
  /\ At("commit")
  /\ commits' = commits \cup {call.commit}
  /\ Goto("head")
  /\ UNCHANGED <<requests, outcomes, objects, head, receipts>>

ReplaceHead ==
  /\ At("head")
  /\ head' = call.commit
  /\ Goto("outcome")
  /\ UNCHANGED <<requests, outcomes, objects, commits, receipts>>

WriteOutcome ==
  /\ At("outcome")
  /\ outcomes' = [outcomes EXCEPT ![call.request.attempt] = call.commit]
  /\ Return(call.commit)
  /\ UNCHANGED <<requests, objects, commits, head>>

\* recover_attempt: the receipt of a request that is in the history, and never
\* a new commit.  A correction under another attempt name is looked up without
\* the lock, in the middle of somebody else's call.
RecoverAttempt(q) ==
  \/ /\ call = None
     /\ requests[q.attempt] = q
     /\ \E d \in Recovered(q) :
          call' = [at |-> "outcome", request |-> q, commit |-> d]
     /\ UNCHANGED <<files, receipts>>
  \/ /\ requests[q.attempt] = None
     /\ \E d \in Corrected(head, q.work.correction) :
          /\ Parent(d) = q.expected /\ Last(d).work = q.work
          /\ receipts' = receipts \cup {[request |-> q, commit |-> d]}
     /\ UNCHANGED <<files, call>>

-----------------------------------------------------------------------------
\* The process dies, or a write fails and the call is rejected.
Stop ==
  /\ call # None
  /\ call' = None
  /\ UNCHANGED <<files, receipts>>

\* The machine stops.  Files are flushed and their directories synchronized,
\* except the entry of attempts/a in attempts: nothing synchronizes it.
LosePower ==
  /\ \E lost \in SUBSET AttemptIds :
       /\ requests' = [a \in AttemptIds |-> IF a \in lost THEN None ELSE requests[a]]
       /\ outcomes' = [a \in AttemptIds |-> IF a \in lost THEN None ELSE outcomes[a]]
  /\ call' = None
  /\ UNCHANGED <<objects, commits, head, receipts>>

Steps ==
  \/ Check \/ WriteRequest \/ CheckParent \/ WriteObjects \/ WriteCommit
  \/ ReplaceHead \/ WriteOutcome

Next ==
  \/ \E a \in AttemptIds, w \in Works, expected \in Prefixes(head) \cup {Genesis} :
       Finalize(Request(a, expected, w)) \/ RecoverAttempt(Request(a, expected, w))
  \/ Steps \/ Stop

\* A process may stop, the machine goes on.
Spec == Init /\ [][Next]_vars

\* The machine may stop too.
PowerSpec == Init /\ [][Next \/ LosePower]_vars

-----------------------------------------------------------------------------
(* What the store promises.                                                *)

\* verify_history never rejects what the store itself wrote: behind HEAD every
\* commit is on disk with its objects and with the request it answers, whose
\* expected head is its parent, whatever died where (796-921).
HistoryVerifies ==
  \A d \in Prefixes(head) :
    /\ d \in commits
    /\ requests[Last(d).attempt] = RequestOf(d)
    /\ d = Successor(Parent(d), RequestOf(d))
    /\ Written(Parent(d), Last(d).work) \subseteq objects

\* Retries and repeated corrections add nothing: an attempt, and a correction
\* identity, is in the history at most once (1304-1332, 1071-1074).
AtMostOnce ==
  \A m, n \in 1..Len(head) :
    \/ m = n
    \/ /\ head[m].attempt # head[n].attempt
       /\ head[m].work.correction = None \/ head[m].work.correction # head[n].work.correction

\* Every receipt names a commit that is still in the history, and a repeated
\* call gets the receipt the first one got, even after later commits; an
\* outcome file says what the history says (1297-1332, 1174-1190).
ReceiptsStand ==
  /\ \A r \in receipts :
       /\ r.commit \in Prefixes(head)
       /\ \A s \in receipts : s.request = r.request => s.commit = r.commit
  /\ \A a \in AttemptIds :
       outcomes[a] # None =>
         outcomes[a] \in Prefixes(head) /\ RequestOf(outcomes[a]) = requests[a]

\* Along the history a key's proofs are numbered without a gap, and so are the
\* revisions of its case from the first exception on, whatever commits of other
\* keys lie in between (_proof, _case_revision).  The case is open exactly while
\* the newest proof is an exception; a resolution by correction is the doing of
\* a commit that corrects the key.
CaseFollowsProof ==
  \A k \in Keys :
    LET updates == {n \in 1..Len(head) : k \in DOMAIN head[n].work.updates}
        exceptions == {n \in updates : head[n].work.updates[k] = "EXCEPTION"}
        sinceException == {n \in updates : \E m \in exceptions : m <= n}
        newest == CHOOSE n \in updates : \A m \in updates : m <= n
    IN /\ k \in DOMAIN ProofHeads(head) <=> updates # {}
       /\ k \in DOMAIN CaseHeads(head) <=> exceptions # {}
       /\ updates # {} => ProofHeads(head)[k].revision = Cardinality(updates)
       /\ exceptions # {} =>
            /\ CaseHeads(head)[k].revision = Cardinality(sinceException)
            /\ CaseHeads(head)[k].proof = ProofHeads(head)[k]
            /\ CaseHeads(head)[k].status = "OPEN" <=> newest \in exceptions
            /\ CaseHeads(head)[k].status = "RESOLVED_BY_CORRECTION" =>
                 k \in head[newest].work.items

\* HEAD only moves to a commit that extends what it named (1337-1339, 1410).
HeadOnlyExtends ==
  [][head' # head => Len(head') = Len(head) + 1 /\ Parent(head') = head]_vars
=============================================================================
