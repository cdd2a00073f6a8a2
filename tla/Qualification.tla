--------------------------- MODULE Qualification ----------------------------
(***************************************************************************)
(* The bounded capability probe and its recovery                           *)
(* (tools/part3_stage2_runtime.py): runs that take the qualification lease *)
(* (the guard), write one object, one test lease, one script and one inert *)
(* Glue job for each of their cases, inject a fault into some of them, and *)
(* clean up in a `finally'; and the recovery of a run that failed.         *)
(*                                                                         *)
(* A request that fails may have taken effect, unknown to the program; one *)
(* that took effect may be followed by a failing check.  A process may     *)
(* stop anywhere.  DynamoDB removes expired items when it likes.           *)
(***************************************************************************)
EXTENDS Integers, SequencesExt

CONSTANTS
  Runs,          \* run_id and run_attempt
  Cases,         \* the cases of a run, in order
  InjectedAfter, \* case -> the step after which it injects its fault, or None
  Duration,      \* life of a lease: 900 s in the code
  MaxClock, MaxFaults, \* bounds on time and on failed requests
  None

ASSUME QualificationConstants ==
  /\ Duration \in Nat \ {0}
  /\ {MaxClock, MaxFaults} \subseteq Nat
  /\ Cases \in Seq(ToSet(Cases)) /\ Cases # <<>>

VARIABLES
  clock,
  items,    \* lease table: key -> item or None
  objects,  \* versions in the bucket: <<run, case, name>>
  jobs,     \* Glue jobs: <<run, case>>
  faults,   \* history: failed requests and stopped processes
  probe,    \* run -> its process
  recovery  \* run -> the process that recovers it

vars == <<clock, items, objects, jobs, faults, probe, recovery>>

Guard == <<"qualification">>
TestKeys == Runs \X ToSet(Cases)

\* owner: a token of one case, or a competitor that the case plays.
Item(owner, run, expires) == [owner |-> owner, run |-> run, expires |-> expires]
Self(r) == <<r, Cases[probe[r].case]>>
Competitor(r) == <<r, Cases[probe[r].case], "competitor">>

\* attribute_not_exists OR expires_epoch < :now OR owner = :owner, where the
\* comparison is with the end of the new lease instead of with now.
FreeBefore(key, item, now) ==
  \/ items[key] = None
  \/ items[key].expires < item.expires
  \/ items[key].owner = item.owner

\* acquire_allowed; `now' was read when the case began.
Free(key, item, now) ==
  \/ items[key] = None
  \/ items[key].expires < now
  \/ items[key].owner = item.owner

OwnedBy(key, owner) == items[key] # None /\ items[key].owner = owner

\* release_allowed, with the run's attempt.
Released(key, owner, r) == OwnedBy(key, owner) /\ items[key].run = r

-----------------------------------------------------------------------------
(* The body of a case.  A step is one request that writes, with the checks *)
(* that follow it.                                                         *)

Body == <<"guard", "payload", "test", "renew", "compete", "expire", "takeover",
          "wrong", "release", "script", "job">>

TestKey(r) == <<r, Cases[probe[r].case]>>
LeaseKey(r, step) == IF step = "guard" THEN Guard ELSE TestKey(r)

\* The item that a step puts.
Lease(r, step) ==
  LET now == probe[r].now IN
  CASE step \in {"guard", "test", "renew"} -> Item(Self(r), r, now + Duration)
    [] step = "expire" -> Item(Self(r), r, now - 1)
    [] step \in {"compete", "takeover"} -> Item(Competitor(r), r, now + Duration)
    [] step \in {"wrong", "release"} -> None

\* The condition of a step's request.
Admitted(r, step) ==
  LET key == LeaseKey(r, step) IN
  CASE step \in {"guard", "test", "renew", "compete", "takeover"} ->
         Free(key, Lease(r, step), probe[r].now)
    [] step \in {"expire", "wrong"} -> OwnedBy(key, Self(r))
    [] step = "release" -> Released(key, Competitor(r), r)
    [] OTHER -> TRUE

\* What a request does when it is carried out.
Effect(r, step) ==
  CASE step \in {"payload", "script"} ->
         /\ objects' = objects \cup {<<r, Cases[probe[r].case], step>>}
         /\ UNCHANGED <<items, jobs>>
    [] step = "job" ->
         /\ jobs' = jobs \cup {TestKey(r)}
         /\ UNCHANGED <<items, objects>>
    [] OTHER ->
         /\ items' = IF Admitted(r, step)
                     THEN [items EXCEPT ![LeaseKey(r, step)] = Lease(r, step)] ELSE items
         /\ UNCHANGED <<objects, jobs>>

\* What the process knows to have created once a request was answered.
Recorded(p, step) ==
  CASE step \in {"guard", "test"} -> [p EXCEPT !.created = Append(@, step)]
    [] step = "release" -> [p EXCEPT !.created = RemoveFirst(@, "test")]
    [] step \in {"payload", "script"} -> [p EXCEPT !.versions = Append(@, step)]
    [] step = "job" -> [p EXCEPT !.job = TRUE]
    [] OTHER -> p

\* The next step, or the cleanup: after the last one or an injected fault.
Onward(p) ==
  LET last == Len(Body)
      k == CHOOSE k \in 1..last : Body[k] = p.at
  IN [p EXCEPT !.at = IF k = last \/ InjectedAfter[Cases[p.case]] = p.at THEN "clean"
                      ELSE Body[k + 1]]

\* An error that is not the injected one is raised again after the cleanup.
Erred(p) == [p EXCEPT !.at = "clean", !.error = TRUE]

Fault == faults < MaxFaults /\ faults' = faults + 1

\* The request is answered.  The lease must refuse the competitor and the
\* release by the wrong owner, and must admit everything else.
Answered(r) ==
  LET step == probe[r].at IN
  /\ step \in ToSet(Body)
  /\ Effect(r, step)
  /\ probe' = [probe EXCEPT ![r] =
       IF Admitted(r, step) = (step \notin {"compete", "wrong"})
       THEN Onward(Recorded(@, step)) ELSE Erred(@)]
  /\ UNCHANGED <<clock, faults, recovery>>

\* The request fails, with or without its effect.
Failed(r) ==
  LET step == probe[r].at IN
  /\ step \in ToSet(Body)
  /\ Fault
  /\ Effect(r, step) \/ UNCHANGED <<items, objects, jobs>>
  /\ probe' = [probe EXCEPT ![r] = Erred(@)]
  /\ UNCHANGED <<clock, recovery>>

\* What was put is there, but a check of it fails.
Differs(r) ==
  LET step == probe[r].at IN
  /\ step \in {"payload", "script", "job"}
  /\ Fault
  /\ Effect(r, step)
  /\ probe' = [probe EXCEPT ![r] = Erred(Recorded(@, step))]
  /\ UNCHANGED <<clock, recovery>>

-----------------------------------------------------------------------------
(* The `finally' of a case: the job, then the items and the versions, last *)
(* first.  A failure ends it, and the run.                                 *)

Stop(r, state) == probe' = [probe EXCEPT ![r].at = state]

DeleteJob(r) ==
  /\ probe[r].at = "clean" /\ probe[r].job
  /\ jobs' = jobs \ {TestKey(r)}
  /\ probe' = [probe EXCEPT ![r].job = FALSE]
  /\ UNCHANGED <<clock, items, objects, faults, recovery>>

DeleteItem(r) ==
  /\ probe[r].at = "clean" /\ ~probe[r].job /\ probe[r].created # <<>>
  /\ LET key == LeaseKey(r, Last(probe[r].created)) IN
     IF Released(key, Self(r), r)
     THEN /\ items' = [items EXCEPT ![key] = None]
          /\ probe' = [probe EXCEPT ![r].created = Front(@)]
     ELSE Stop(r, "failed") /\ UNCHANGED items
  /\ UNCHANGED <<clock, objects, jobs, faults, recovery>>

DeleteVersion(r) ==
  /\ probe[r].at = "clean" /\ ~probe[r].job /\ probe[r].created = <<>>
  /\ probe[r].versions # <<>>
  /\ objects' = objects \ {<<r, Cases[probe[r].case], Last(probe[r].versions)>>}
  /\ probe' = [probe EXCEPT ![r].versions = Front(@)]
  /\ UNCHANGED <<clock, items, jobs, faults, recovery>>

Cleaning(r) == probe[r].at = "clean" /\ (probe[r].job \/ probe[r].created \o probe[r].versions # <<>>)

\* A request of the cleanup fails, with or without its effect.
CleanFails(r) ==
  /\ Cleaning(r)
  /\ Fault
  /\ \/ UNCHANGED <<items, objects, jobs>>
     \/ /\ probe[r].job
        /\ jobs' = jobs \ {TestKey(r)}
        /\ UNCHANGED <<items, objects>>
     \/ /\ ~probe[r].job /\ probe[r].created # <<>>
        /\ LET key == LeaseKey(r, Last(probe[r].created)) IN
             /\ Released(key, Self(r), r)
             /\ items' = [items EXCEPT ![key] = None]
        /\ UNCHANGED <<objects, jobs>>
     \/ /\ ~probe[r].job /\ probe[r].created = <<>>
        /\ objects' = objects \ {<<r, Cases[probe[r].case], Last(probe[r].versions)>>}
        /\ UNCHANGED <<items, jobs>>
  /\ Stop(r, "failed")
  /\ UNCHANGED <<clock, recovery>>

ObjectsOf(r, c) == {o \in objects : o[1] = r /\ o[2] = c}

\* No version under the prefix, no test item, and nobody holds the guard.
CheckClean(r) ==
  /\ probe[r].at = "clean" /\ ~Cleaning(r)
  /\ IF /\ ObjectsOf(r, Cases[probe[r].case]) = {}
        /\ items[TestKey(r)] = None /\ items[Guard] = None
        /\ ~probe[r].error
     THEN probe' = [probe EXCEPT ![r] =
            IF @.case = Len(Cases) THEN [@ EXCEPT !.at = "inventory"]
            ELSE [@ EXCEPT !.at = "begin", !.case = probe[r].case + 1]]
     ELSE Stop(r, "failed")
  /\ UNCHANGED <<clock, items, objects, jobs, faults, recovery>>

-----------------------------------------------------------------------------
(* run_capability.                                                         *)

\* The inventory finds no version, no lease and no probe job of any run.
InventoryClean ==
  objects = {} /\ jobs = {} /\ \A key \in DOMAIN items : items[key] = None

\* _read_only_checks before the first case, _inventory_checks after the last.
Inventory(r) ==
  /\ probe[r].at \in {"idle", "inventory"}
  /\ Stop(r, IF ~InventoryClean THEN "failed"
             ELSE IF probe[r].at = "idle" THEN "begin" ELSE "passed")
  /\ UNCHANGED <<clock, items, objects, jobs, faults, recovery>>

BeginCase(r) ==
  /\ probe[r].at = "begin"
  /\ probe' = [probe EXCEPT ![r].at = "guard", ![r].now = clock]
  /\ UNCHANGED <<clock, items, objects, jobs, faults, recovery>>

Ended == {"passed", "failed", "dead"}

\* The process is killed, and nothing cleans up.
Dies(r) ==
  /\ probe[r].at \notin Ended
  /\ Fault
  /\ Stop(r, "dead")
  /\ UNCHANGED <<clock, items, objects, jobs, recovery>>

-----------------------------------------------------------------------------
(* run_recovery of a run whose evidence says that it failed; a recovery    *)
(* that failed can be started again.                                       *)

\* The last case is left out.
NextCaseEarly(p) ==
  IF p.case + 1 >= Len(Cases) THEN [p EXCEPT !.at = "guard"]
  ELSE [p EXCEPT !.at = "versions", !.case = @ + 1]

NextCase(p) ==
  IF p.case = Len(Cases) THEN [p EXCEPT !.at = "guard"]
  ELSE [p EXCEPT !.at = "versions", !.case = @ + 1]

RecoverBegin(r) ==
  /\ probe[r].at = "failed" /\ recovery[r].at \in {"idle", "failed"}
  /\ recovery' = [recovery EXCEPT ![r] = [at |-> "versions", case |-> 1, owner |-> None]]
  /\ UNCHANGED <<clock, items, objects, jobs, faults, probe>>

RecoverVersions(r) ==
  /\ recovery[r].at = "versions"
  /\ LET found == ObjectsOf(r, Cases[recovery[r].case]) IN
     \E gone \in SUBSET found :
       /\ objects' = objects \ gone
       /\ \/ /\ gone = found
             /\ recovery' = [recovery EXCEPT ![r].at = "test"]
             /\ UNCHANGED faults
          \/ /\ gone # found
             /\ Fault
             /\ recovery' = [recovery EXCEPT ![r].at = "failed"]
  /\ UNCHANGED <<clock, items, jobs, probe>>

RecoveredKey(r) ==
  IF recovery[r].at \in {"test", "untest"} THEN <<r, Cases[recovery[r].case]>> ELSE Guard

\* The item is read; an item of another run ends the recovery.
RecoverItem(r) ==
  /\ recovery[r].at \in {"test", "guard"}
  /\ LET item == items[RecoveredKey(r)]
         test == recovery[r].at = "test"
     IN recovery' = [recovery EXCEPT ![r] =
          IF item = None THEN [@ EXCEPT !.at = IF test THEN "job" ELSE "passed"]
          ELSE IF item.run # r THEN [@ EXCEPT !.at = "failed"]
          ELSE [@ EXCEPT !.at = IF test THEN "untest" ELSE "unguard", !.owner = item.owner]]
  /\ UNCHANGED <<clock, items, objects, jobs, faults, probe>>

\* It is deleted if its owner and run are still the ones that were read.
ReleaseItem(r) ==
  /\ recovery[r].at \in {"untest", "unguard"}
  /\ IF Released(RecoveredKey(r), recovery[r].owner, r)
     THEN /\ items' = [items EXCEPT ![RecoveredKey(r)] = None]
          /\ recovery' = [recovery EXCEPT
               ![r].at = IF @ = "untest" THEN "job" ELSE "passed"]
     ELSE recovery' = [recovery EXCEPT ![r].at = "failed"] /\ UNCHANGED items
  /\ UNCHANGED <<clock, objects, jobs, faults, probe>>

RecoverJob(r) ==
  /\ recovery[r].at = "job"
  /\ jobs' = jobs \ {<<r, Cases[recovery[r].case]>>}
  /\ recovery' = [recovery EXCEPT ![r] = NextCase(@)]
  /\ UNCHANGED <<clock, items, objects, faults, probe>>

\* A request fails, or the process is killed.
RecoveryFails(r) ==
  /\ recovery[r].at \notin {"idle", "passed", "failed"}
  /\ Fault
  /\ recovery' = [recovery EXCEPT ![r].at = "failed"]
  /\ UNCHANGED <<clock, items, objects, jobs, probe>>

-----------------------------------------------------------------------------
\* The time to live of the lease table.
Removed(key) ==
  /\ items[key] # None /\ items[key].expires < clock
  /\ items' = [items EXCEPT ![key] = None]
  /\ UNCHANGED <<clock, objects, jobs, faults, probe, recovery>>

Tick ==
  /\ clock < MaxClock
  /\ clock' = clock + 1
  /\ UNCHANGED <<items, objects, jobs, faults, probe, recovery>>

Init ==
  /\ clock = 0
  /\ items = [key \in {Guard} \cup TestKeys |-> None]
  /\ objects = {} /\ jobs = {}
  /\ faults = 0
  /\ probe = [r \in Runs |-> [at |-> "idle", case |-> 1, now |-> 0, created |-> <<>>,
                              versions |-> <<>>, job |-> FALSE, error |-> FALSE]]
  /\ recovery = [r \in Runs |-> [at |-> "idle", case |-> 1, owner |-> None]]

Next ==
  \/ \E r \in Runs :
       \/ Inventory(r) \/ BeginCase(r) \/ Answered(r) \/ Failed(r) \/ Differs(r)
       \/ DeleteJob(r) \/ DeleteItem(r) \/ DeleteVersion(r) \/ CleanFails(r)
       \/ CheckClean(r) \/ Dies(r)
       \/ RecoverBegin(r) \/ RecoverVersions(r) \/ RecoverItem(r) \/ ReleaseItem(r)
       \/ RecoverJob(r) \/ RecoveryFails(r)
  \/ \E key \in {Guard} \cup TestKeys : Removed(key)
  \/ Tick

Spec == Init /\ [][Next]_vars
-----------------------------------------------------------------------------
\* A run that reports PASSED, or whose recovery does, has left nothing in the
\* account: no version, no lease, no job, whatever failed on the way.
NothingLeftBehind ==
  \A r \in Runs : "passed" \in {probe[r].at, recovery[r].at} =>
    /\ \A o \in objects \cup jobs : o[1] # r
    /\ \A key \in DOMAIN items : items[key] # None => items[key].run # r

\* Nobody but a run and its recovery takes away what the run put: no foreign
\* cleanup deletes it, and no lease of it is taken over before it expires, so
\* two runs are never both inside a guard that is still good.
ForeignUntouched ==
  [][\A r \in Runs :
       probe'[r] = probe[r] /\ recovery'[r] = recovery[r] =>
         /\ {o \in objects \cup jobs : o[1] = r} \subseteq objects' \cup jobs'
         /\ \A key \in DOMAIN items :
              items[key] # None /\ items[key].run = r /\ items[key].expires >= clock =>
                items'[key] = items[key]]_vars
=============================================================================
