--------------------------- MODULE LocalAuthority ---------------------------
(***************************************************************************)
(* The metadata authority of ledgerguard_control/authority.py: SQLite      *)
(* tables of runs, attempts, namespace roots and immutable commits.        *)
(*                                                                         *)
(* Every method body runs inside one BEGIN IMMEDIATE transaction, so one   *)
(* action is one call.  A call that raises ControlRejected, or whose       *)
(* process dies before the transaction commits, changes nothing and is the *)
(* stuttering step.  A process that dies after the commit loses the        *)
(* response: "delivered" is FALSE and the caller learns nothing.           *)
(*                                                                         *)
(* A commit digest hashes a document that holds its predecessor's digest,  *)
(* so a digest stands for the whole history behind it: it is modelled as   *)
(* the sequence of the commits from the first to its own.                  *)
(***************************************************************************)
EXTENDS Integers, Sequences

CONSTANTS
  Namespaces,    \* namespaces, one root each
  RunIds,        \* run identities, unique across namespaces
  Identities,    \* digests of a run's immutable inputs
  AttemptIds,    \* caller-chosen attempt names
  Owners,        \* ARNs of the executions that own attempts
  Preparations,  \* digests of the preparation a commit names
  MaxFence,      \* largest fence: 2^63 - 1 in _attempt, small for TLC
  None           \* the SQL NULL

ASSUME MaxFenceAssumption == MaxFence \in Nat

VARIABLES
  runs,          \* run_id -> its row
  attempts,      \* the rows of attempts; the index is the AUTOINCREMENT fence
  roots,         \* namespace -> digest of its head, Genesis without a row
  commits,       \* digests that have a body in the table commits
  issued,        \* history: the Attempt values returned to callers
  acknowledged   \* history: the digests returned to callers

tables == <<runs, attempts, roots, commits>>
vars == <<runs, attempts, roots, commits, issued, acknowledged>>

Attempt ==
  [namespace : Namespaces, run_id : RunIds, identity : Identities,
   attempt_id : AttemptIds, owner : Owners, fence : 1..MaxFence]

ASSUME NoneAssumption ==
  /\ None \notin AttemptIds \cup Attempt
  /\ None \notin [namespace : Namespaces, identity : Identities]

Entry == [attempt : Attempt, preparation : Preparations]
Genesis == <<>>
Digest(attempt, predecessor, preparation) ==
  Append(predecessor, [attempt |-> attempt, preparation |-> preparation])

RunRow ==
  [namespace : Namespaces \cup {None}, identity : Identities \cup {None},
   status : {"ABSENT", "REGISTERED", "COMMITTED"},
   committed : Seq(Entry), active_attempt : AttemptIds \cup {None}]

AbsentRun ==
  [namespace |-> None, identity |-> None, status |-> "ABSENT",
   committed |-> Genesis, active_attempt |-> None]

AttemptRow ==
  [namespace : Namespaces, run_id : RunIds, attempt_id : AttemptIds,
   owner : Owners, status : {"ACTIVE", "FAILED", "COMMITTED"}]

TypeOK ==
  /\ runs \in [RunIds -> RunRow]
  /\ attempts \in Seq(AttemptRow)
  /\ Len(attempts) <= MaxFence
  /\ roots \in [Namespaces -> Seq(Entry)]
  /\ commits \in SUBSET Seq(Entry)
  /\ issued \in SUBSET Attempt
  /\ acknowledged \in SUBSET Seq(Entry)

Init ==
  /\ runs = [r \in RunIds |-> AbsentRun]
  /\ attempts = <<>>
  /\ roots = [ns \in Namespaces |-> Genesis]
  /\ commits = {}
  /\ issued = {}
  /\ acknowledged = {}

-----------------------------------------------------------------------------
(* Queries shared by the calls.                                            *)

\* _read_commit: the body is present and names the namespace.
Readable(ns, d) == d \in commits /\ d[Len(d)].attempt.namespace = ns

\* _require_reachable: the walk from the root meets d, and every document it
\* reads on the way is readable.
Reachable(ns, d) ==
  \E n \in 1..Len(roots[ns]) :
    /\ d = SubSeq(roots[ns], 1, n)
    /\ \A m \in n..Len(roots[ns]) : Readable(ns, SubSeq(roots[ns], 1, m))

\* The token's own row and an open run: what is left of _require_owner when it
\* forgets the run's active_attempt and the token's status.
OwnsByToken(t) ==
  /\ runs[t.run_id].namespace = t.namespace
  /\ runs[t.run_id].identity = t.identity
  /\ runs[t.run_id].status = "REGISTERED"
  /\ t.fence \in DOMAIN attempts
  /\ attempts[t.fence].run_id = t.run_id
  /\ attempts[t.fence].attempt_id = t.attempt_id
  /\ attempts[t.fence].owner = t.owner

\* _require_owner: the joined row equals the caller's attempt in every column.
Owns(t) ==
  /\ runs[t.run_id].namespace = t.namespace
  /\ runs[t.run_id].identity = t.identity
  /\ runs[t.run_id].status = "REGISTERED"
  /\ runs[t.run_id].active_attempt = t.attempt_id
  /\ t.fence \in DOMAIN attempts
  /\ attempts[t.fence] =
       [namespace |-> t.namespace, run_id |-> t.run_id,
        attempt_id |-> t.attempt_id, owner |-> t.owner, status |-> "ACTIVE"]

\* What a call returned, if the caller lived to see it.
Returned(known, value, delivered) ==
  IF delivered THEN known \cup {value} ELSE known

-----------------------------------------------------------------------------
(* register                                                                *)

RegisterNew(ns, r, i) ==
  /\ runs[r].status = "ABSENT"
  /\ runs' = [runs EXCEPT ![r] =
       [namespace |-> ns, identity |-> i, status |-> "REGISTERED",
        committed |-> Genesis, active_attempt |-> None]]
  /\ UNCHANGED <<attempts, roots, commits, issued, acknowledged>>

\* An existing row is never changed.  A committed one is returned only after
\* its commit proves to be this run's and reachable.
RegisterReplay(ns, r, i) ==
  LET d == runs[r].committed IN
  /\ runs[r].status # "ABSENT"
  /\ runs[r].identity = i
  /\ runs[r].namespace = ns
  /\ IF d = Genesis
     THEN UNCHANGED acknowledged
     ELSE /\ Readable(ns, d)
          /\ d[Len(d)].attempt.run_id = r
          /\ d[Len(d)].attempt.identity = i
          /\ Reachable(ns, d)
          /\ \E delivered \in BOOLEAN :
               acknowledged' = Returned(acknowledged, d, delivered)
  /\ UNCHANGED <<tables, issued>>

-----------------------------------------------------------------------------
(* admit                                                                   *)

Admissible(t) ==
  /\ runs[t.run_id].namespace = t.namespace
  /\ runs[t.run_id].identity = t.identity
  /\ runs[t.run_id].status = "REGISTERED"

\* SELECT ... WHERE namespace=? AND attempt_id=?: the UNIQUE constraint spans
\* the runs of a namespace.
Previous(t) ==
  {f \in DOMAIN attempts : /\ attempts[f].namespace = t.namespace
                           /\ attempts[f].attempt_id = t.attempt_id}

AdmitNew(t, delivered) ==
  /\ Admissible(t)
  /\ Previous(t) = {}
  /\ runs[t.run_id].active_attempt = None
  /\ Len(attempts) < MaxFence
  /\ t.fence = Len(attempts) + 1
  /\ attempts' = Append(attempts,
       [namespace |-> t.namespace, run_id |-> t.run_id,
        attempt_id |-> t.attempt_id, owner |-> t.owner, status |-> "ACTIVE"])
  /\ runs' = [runs EXCEPT ![t.run_id] =
                  [@ EXCEPT !.active_attempt = t.attempt_id]]
  /\ issued' = Returned(issued, t, delivered)
  /\ UNCHANGED <<roots, commits, acknowledged>>

AdmitReplay(t, delivered) ==
  /\ Admissible(t)
  /\ t.fence \in Previous(t)
  /\ attempts[t.fence].run_id = t.run_id
  /\ attempts[t.fence].owner = t.owner
  /\ attempts[t.fence].status = "ACTIVE"
  /\ runs[t.run_id].active_attempt = t.attempt_id
  /\ issued' = Returned(issued, t, delivered)
  /\ UNCHANGED <<tables, acknowledged>>

-----------------------------------------------------------------------------
(* fail and publish: the caller presents an Attempt that admit returned.   *)

SetStatus(t, status) ==
  attempts' = [attempts EXCEPT ![t.fence] = [@ EXCEPT !.status = status]]

\* A release that clears the run but leaves the row ACTIVE.
FailHalfway(t) ==
  /\ Owns(t)
  /\ runs' = [runs EXCEPT ![t.run_id] = [@ EXCEPT !.active_attempt = None]]
  /\ UNCHANGED <<attempts, roots, commits, issued, acknowledged>>

\* A release that writes a status the schema does not know.
FailAsNull(t) ==
  /\ Owns(t)
  /\ SetStatus(t, None)
  /\ runs' = [runs EXCEPT ![t.run_id] = [@ EXCEPT !.active_attempt = None]]
  /\ UNCHANGED <<roots, commits, issued, acknowledged>>

\* A second call with the run still free of any owner returns without a
\* change, which is the stuttering step.
Fail(t) ==
  /\ Owns(t)
  /\ SetStatus(t, "FAILED")
  /\ runs' = [runs EXCEPT ![t.run_id] = [@ EXCEPT !.active_attempt = None]]
  /\ UNCHANGED <<roots, commits, issued, acknowledged>>

\* The four writes of one publication.
Commit(t, d, delivered) ==
  /\ commits' = commits \cup {d}
  /\ roots' = [roots EXCEPT ![t.namespace] = d]
  /\ runs' = [runs EXCEPT ![t.run_id] =
                  [@ EXCEPT !.status = "COMMITTED", !.committed = d]]
  /\ SetStatus(t, "COMMITTED")
  /\ acknowledged' = Returned(acknowledged, d, delivered)
  /\ UNCHANGED issued

\* Publications that skip the predecessor check, or the ownership check.
PublishOverRoot(t, predecessor, preparation, delivered) ==
  /\ Owns(t)
  /\ Commit(t, Digest(t, predecessor, preparation), delivered)

PublishUnowned(t, predecessor, preparation, delivered) ==
  /\ Digest(t, predecessor, preparation) \notin commits
  /\ roots[t.namespace] = predecessor
  /\ Commit(t, Digest(t, predecessor, preparation), delivered)

PublishNew(t, predecessor, preparation, delivered) ==
  LET d == Digest(t, predecessor, preparation) IN
  /\ d \notin commits
  /\ Owns(t)
  /\ roots[t.namespace] = predecessor
  /\ Commit(t, d, delivered)

PublishReplay(t, predecessor, preparation, delivered) ==
  LET d == Digest(t, predecessor, preparation) IN
  /\ d \in commits
  /\ runs[t.run_id].namespace = t.namespace
  /\ runs[t.run_id].status = "COMMITTED"
  /\ runs[t.run_id].committed = d
  /\ Reachable(t.namespace, d)
  /\ acknowledged' = Returned(acknowledged, d, delivered)
  /\ UNCHANGED <<tables, issued>>

-----------------------------------------------------------------------------
\* A caller plans its publication on a root some read_root returned: Genesis
\* or a commit that is or once was a head.
Predecessors == {Genesis} \cup commits

Next ==
  \/ \E ns \in Namespaces, r \in RunIds, i \in Identities :
       RegisterNew(ns, r, i) \/ RegisterReplay(ns, r, i)
  \/ \E t \in Attempt, delivered \in BOOLEAN :
       AdmitNew(t, delivered) \/ AdmitReplay(t, delivered)
  \/ \E t \in issued : Fail(t)
  \/ \E t \in issued, predecessor \in Predecessors,
        preparation \in Preparations, delivered \in BOOLEAN :
       \/ PublishNew(t, predecessor, preparation, delivered)
       \/ PublishReplay(t, predecessor, preparation, delivered)

Spec == Init /\ [][Next]_vars

-----------------------------------------------------------------------------
(* What the calls promise together.                                        *)

AttemptsOf(r) == {f \in DOMAIN attempts : attempts[f].run_id = r}

\* The commits of a namespace form one line that ends at its root: no commit
\* body is left outside it by a lost race, a retry or a released attempt, and
\* none is missing from it (publish, lines 238-254).
SingleHistory ==
  commits = UNION {{SubSeq(roots[ns], 1, n) : n \in 1..Len(roots[ns])} :
                     ns \in Namespaces}

\* A digest once returned to a caller stays the terminal commit of its run and
\* stays reachable, however far other runs move the root: a caller that asks
\* again is answered again (register 119-127, publish 227-237).
DurableReplay ==
  \A d \in acknowledged :
    LET t == d[Len(d)].attempt IN
    /\ runs[t.run_id].committed = d
    /\ Reachable(t.namespace, d)

\* Whatever retries and competing attempts do, a run enters the history of its
\* namespace at most once, under the identity it was registered with.
OneCommitPerRun ==
  \A ns \in Namespaces : \A n \in 1..Len(roots[ns]) :
    LET t == roots[ns][n].attempt IN
    /\ runs[t.run_id].namespace = ns
    /\ runs[t.run_id].identity = t.identity
    /\ runs[t.run_id].status = "COMMITTED"
    /\ runs[t.run_id].committed = SubSeq(roots[ns], 1, n)

\* The active_attempt column and the ACTIVE rows say the same thing: an open
\* run without an owner has no ACTIVE attempt, one with an owner has just that
\* one, and a run that committed has none (admit 149-163, fail 206-212).
ActiveOwnership ==
  \A r \in RunIds :
    {attempts[f].attempt_id :
       f \in {g \in AttemptsOf(r) : attempts[g].status = "ACTIVE"}}
      = IF runs[r].status = "REGISTERED" THEN {runs[r].active_attempt} \ {None}
        ELSE {}

\* Fencing: the attempt that works on a run or committed it has the run's
\* largest fence, so a caller that holds an older one can neither own nor
\* commit the run (_require_owner, admit 153-166).
NewestFenceOwns ==
  \A f, g \in DOMAIN attempts :
    /\ attempts[f].run_id = attempts[g].run_id
    /\ attempts[f].status # "FAILED"
    => g <= f

\* History is only extended: a step never rewrites or drops a commit that a
\* root reaches, and adds one commit at most (publish 239-255).
HistoryOnlyGrows ==
  [][\A ns \in Namespaces :
       /\ Len(roots'[ns]) <= Len(roots[ns]) + 1
       /\ SubSeq(roots'[ns], 1, Len(roots[ns])) = roots[ns]]_vars

\* A terminal attempt or run keeps its verdict: no later call revives a
\* released attempt or reopens a committed run (fail 196-208, publish 258-264).
TerminalForever ==
  [][/\ \A f \in DOMAIN attempts :
          attempts[f].status # "ACTIVE" => attempts'[f] = attempts[f]
     /\ \A r \in RunIds : runs[r].status = "COMMITTED" => runs'[r] = runs[r]]_vars

-----------------------------------------------------------------------------
(* The tables implement the promises of Authority.                         *)

AttemptValue(f) ==
  [namespace |-> attempts[f].namespace, run_id |-> attempts[f].run_id,
   identity |-> runs[attempts[f].run_id].identity,
   attempt_id |-> attempts[f].attempt_id, owner |-> attempts[f].owner, fence |-> f]

ActiveFences(r) ==
  {f \in DOMAIN attempts : /\ attempts[f].namespace = runs[r].namespace
                           /\ attempts[f].run_id = r
                           /\ attempts[f].attempt_id = runs[r].active_attempt}

AbstractRegistration ==
  [r \in RunIds |->
     IF runs[r].status = "ABSENT" THEN None
     ELSE [namespace |-> runs[r].namespace, identity |-> runs[r].identity]]

AbstractHolder ==
  [r \in RunIds |->
     IF runs[r].status = "REGISTERED" /\ runs[r].active_attempt # None
     THEN AttemptValue(CHOOSE f \in ActiveFences(r) : TRUE)
     ELSE None]

AbstractReleased ==
  {AttemptValue(f) : f \in {g \in DOMAIN attempts : attempts[g].status = "FAILED"}}

Promise == INSTANCE Authority WITH
  Fences <- 1..MaxFence,
  registration <- AbstractRegistration,
  holder <- AbstractHolder,
  released <- AbstractReleased,
  history <- roots

\* The SQLite tables keep every promise of Authority: each committed
\* transaction is one of its steps or none (authority.py 78-314).
KeepsPromise == Promise!Spec
=============================================================================
