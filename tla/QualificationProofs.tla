------------------------- MODULE QualificationProofs -------------------------
(***************************************************************************)
(* Proofs about Qualification, for any runs, cases, faults and leases:     *)
(* what passes has left nothing behind, and no process touches what        *)
(* belongs to another run.                                                 *)
(***************************************************************************)
EXTENDS Qualification, SequenceTheorems, WellFoundedInduction, TLAPS

Keys == {Guard} \cup TestKeys
Owners == TestKeys \cup {<<k[1], k[2], "competitor">> : k \in TestKeys}
Leases == [owner : Owners, run : Runs, expires : Int]

Process ==
  [at : {"idle", "begin", "clean", "inventory"} \cup Ended \cup ToSet(Body),
   case : 1..Len(Cases), now : Nat, created : Seq({"guard", "test"}),
   versions : Seq({"payload", "script"}), job : BOOLEAN, error : BOOLEAN]

Recoverer ==
  [at : {"idle", "versions", "test", "untest", "job", "guard", "unguard", "passed", "failed"},
   case : 1..Len(Cases), owner : Owners \cup {None}]

TypeInv ==
  /\ clock \in Nat
  /\ items \in [Keys -> Leases \cup {None}]
  /\ objects \subseteq Runs \X ToSet(Cases) \X {"payload", "script"}
  /\ jobs \subseteq TestKeys
  /\ faults \in Nat
  /\ probe \in [Runs -> Process]
  /\ recovery \in [Runs -> Recoverer]

\* An item names its owner's run, and the item of a test key the run of the key.
Labelled ==
  /\ \A key \in Keys : items[key] # None => items[key].owner[1] = items[key].run
  /\ \A k \in TestKeys : items[k] # None => items[k].run = k[1]

\* No process has read a time that is still to come.
Dated == \A r \in Runs : probe[r].now <= clock

\* Nothing of a run is left.
Nothing(r) ==
  /\ \A o \in objects \cup jobs : o[1] # r
  /\ \A key \in Keys : items[key] # None => items[key].run # r

\* Nothing of one case of a run is left.
Swept(r, c) ==
  /\ ObjectsOf(r, c) = {}
  /\ items[<<r, c>>] = None
  /\ <<r, c>> \notin jobs

\* A recovery sweeps the cases of a failed run one by one, and then the guard.
Sweeping(r) ==
  LET at == recovery[r].at
      case == recovery[r].case
  IN /\ at # "idle" => probe[r].at = "failed"
     /\ at \in {"versions", "test", "untest", "job"} =>
          \A j \in 1..(case - 1) : Swept(r, Cases[j])
     /\ at \in {"test", "untest", "job"} => ObjectsOf(r, Cases[case]) = {}
     /\ at = "job" => items[<<r, Cases[case]>>] = None
     /\ at \in {"guard", "unguard"} => \A j \in 1..Len(Cases) : Swept(r, Cases[j])
     /\ at = "passed" => Nothing(r)

ProbeInv ==
  /\ TypeInv
  /\ Labelled
  /\ Dated
  /\ \A r \in Runs : Sweeping(r) /\ (probe[r].at = "passed" => Nothing(r))

-----------------------------------------------------------------------------
(* Requests.                                                               *)

\* Keys of test items are not the guard.
LEMMA KeysApart ==
  ASSUME NEW r \in Runs, NEW c \in ToSet(Cases)
  PROVE  <<r, c>> \in TestKeys /\ <<r, c>> # Guard
<1>1. Len(<<r, c>>) = 2 /\ Len(Guard) = 1
  BY DEF Guard
<1> QED
  BY <1>1 DEF TestKeys

\* The case that a number stands for.
LEMMA CaseName ==
  ASSUME NEW j \in 1..Len(Cases)
  PROVE  Cases[j] \in ToSet(Cases)
BY QualificationConstants DEF ToSet

\* The steps of a case.
LEMMA Steps ==
  /\ ToSet(Body) = {"guard", "payload", "test", "renew", "compete", "expire", "takeover",
                    "wrong", "release", "script", "job"}
  /\ Len(Body) = 11
  /\ \A k \in 1..10 : Body[k + 1] \in ToSet(Body) /\ Body[k + 1] # Body[k]
  /\ \A s \in ToSet(Body) : \E k \in 1..11 : Body[k] = s
<1>1. Len(Body) = 11 /\ DOMAIN Body = 1..11
  BY DEF Body
<1>2. /\ Body[1] = "guard" /\ Body[2] = "payload" /\ Body[3] = "test" /\ Body[4] = "renew"
      /\ Body[5] = "compete" /\ Body[6] = "expire" /\ Body[7] = "takeover"
      /\ Body[8] = "wrong" /\ Body[9] = "release" /\ Body[10] = "script" /\ Body[11] = "job"
  BY DEF Body
<1>3. 1..11 = {1, 2, 3, 4, 5, 6, 7, 8, 9, 10, 11} /\ 1..10 = {1, 2, 3, 4, 5, 6, 7, 8, 9, 10}
  OBVIOUS
<1>4. ToSet(Body) = {"guard", "payload", "test", "renew", "compete", "expire", "takeover",
                    "wrong", "release", "script", "job"}
  BY <1>1, <1>2, <1>3 DEF ToSet
<1>5. \A k \in 1..10 : Body[k + 1] \in ToSet(Body) /\ Body[k + 1] # Body[k]
  BY <1>2, <1>3, <1>4
<1>6. \A s \in ToSet(Body) : \E k \in 1..11 : Body[k] = s
  BY <1>1 DEF ToSet
<1> QED
  BY <1>1, <1>4, <1>5, <1>6

\* A nonempty set of indices has a least one.
LEMMA LeastIndex ==
  ASSUME NEW n \in Nat, NEW I \in SUBSET (1..n), I # {}
  PROVE  Min(I) \in I
<1>1. I \subseteq Nat
  OBVIOUS
<1>2. PICK x \in I : \A y \in I : ~ (<<y, x>> \in OpToRel(<, Nat))
  BY <1>1, NatLessThanWellFounded, WFMin
<1>3. ASSUME NEW y \in I  PROVE x <= y
  <2>1. x \in Nat /\ y \in Nat
    BY <1>1
  <2>2. ASSUME y < x  PROVE <<y, x>> \in OpToRel(<, Nat)
    <3>1. <<y, x>> \in Nat \X Nat /\ <<y, x>>[1] = y /\ <<y, x>>[2] = x
      BY <2>1
    <3> QED
      BY <2>2, <3>1, Zenon DEF OpToRel
  <2>3. ~ (y < x)
    BY <1>2, <2>2, Zenon
  <2> QED
    BY <2>1, <2>3
<1> QED
  BY <1>3 DEF Min

\* Removing an entry leaves a list of the same kind.
LEMMA RemovedFirst ==
  ASSUME NEW S, NEW s \in Seq(S), NEW e
  PROVE  RemoveFirst(s, e) \in Seq(S)
<1> DEFINE I == {i \in 1..Len(s) : s[i] = e}
<1>1. CASE I = {}
  BY <1>1 DEF RemoveFirst
<1>2. CASE I # {}
  <2>1. Min(I) \in I
    <3>1. Len(s) \in Nat /\ I \in SUBSET (1..Len(s))
      OBVIOUS
    <3> HIDE DEF I
    <3> QED
      BY <1>2, <3>1, LeastIndex
  <2>2. SelectInSeq(s, LAMBDA v : v = e) = Min(I)
    BY <1>2 DEF SelectInSeq
  <2>3. RemoveFirst(s, e) = RemoveAt(s, Min(I))
    BY <1>2, <2>2 DEF RemoveFirst
  <2>4. SubSeq(s, 1, Min(I) - 1) \in Seq(S) /\ SubSeq(s, Min(I) + 1, Len(s)) \in Seq(S)
    <3>1. Len(s) \in Nat /\ \A i \in 1..Len(s) : s[i] \in S
      OBVIOUS
    <3>2. Min(I) \in 1..Len(s)
      BY <2>1
    <3> HIDE DEF I
    <3>3. SubSeq(s, 1, Min(I) - 1) \in Seq(S)
      BY <3>1, <3>2, SubSeqProperties
    <3>4. SubSeq(s, Min(I) + 1, Len(s)) \in Seq(S)
      BY <3>1, <3>2, SubSeqProperties
    <3> QED
      BY <3>3, <3>4
  <2> QED
    BY <2>3, <2>4 DEF RemoveAt
<1> QED
  BY <1>1, <1>2

\* A nonempty list without its last entry is another list.
LEMMA FrontType ==
  ASSUME NEW S, NEW s \in Seq(S), s # <<>>
  PROVE  Front(s) \in Seq(S) /\ Front(s) # s /\ Last(s) \in S
<1>1. Len(s) \in Nat \ {0}
  OBVIOUS
<1>2. \A i \in 1..(Len(s) - 1) : s[i] \in S
  OBVIOUS
<1>3. Front(s) \in Seq(S) /\ Len(Front(s)) = Len(s) - 1
  <2> DEFINE m == Len(s) - 1
  <2>1. m \in Nat /\ \A i \in 1..m : s[i] \in S
    BY <1>1, <1>2
  <2> HIDE DEF m
  <2>2. SubSeq(s, 1, m) \in Seq(S) /\ Len(SubSeq(s, 1, m)) = IF 1 <= m THEN m - 1 + 1 ELSE 0
    BY <2>1, SubSeqProperties
  <2>3. Len(SubSeq(s, 1, m)) = m
    BY <2>1, <2>2
  <2> QED
    BY <2>2, <2>3 DEF Front, m
<1> QED
  BY <1>1, <1>3 DEF Last

\* A step takes away and adds only what belongs to r, but for leases that have
\* expired.
Own(r) ==
  /\ \A o \in (objects \ objects') \cup (objects' \ objects) : o[1] = r
  /\ \A j \in (jobs \ jobs') \cup (jobs' \ jobs) : j[1] = r
  /\ \A key \in Keys : items'[key] # items[key] =>
       /\ items[key] = None \/ items[key].run = r \/ items[key].expires < clock
       /\ items'[key] = None \/ items'[key].run = r

\* A step adds nothing.
OnlyTakes ==
  /\ objects' \subseteq objects
  /\ jobs' \subseteq jobs
  /\ \A key \in Keys : items'[key] \in {items[key], None}

\* The account is of its types.
AccountType ==
  /\ items \in [Keys -> Leases \cup {None}]
  /\ objects \subseteq Runs \X ToSet(Cases) \X {"payload", "script"}
  /\ jobs \subseteq TestKeys

LeaseSteps == {"guard", "test", "renew", "compete", "expire", "takeover", "wrong", "release"}

\* The owners of one process, and its key.
LEMMA OwnNames ==
  ASSUME TypeInv, NEW r \in Runs
  PROVE  /\ Cases[probe[r].case] \in ToSet(Cases)
         /\ TestKey(r) \in TestKeys /\ TestKey(r)[1] = r
         /\ Self(r) \in Owners /\ Self(r)[1] = r
         /\ Competitor(r) \in Owners /\ Competitor(r)[1] = r
         /\ probe[r].now \in Nat
<1>1. probe[r].case \in 1..Len(Cases) /\ probe[r].now \in Nat
  BY DEF TypeInv, Process
<1>2. Cases[probe[r].case] \in ToSet(Cases)
  BY <1>1, CaseName
<1>3. TestKey(r) \in TestKeys /\ TestKey(r)[1] = r /\ TestKey(r)[2] = Cases[probe[r].case]
  BY <1>2 DEF TestKey, TestKeys
<1>4. Competitor(r) = <<TestKey(r)[1], TestKey(r)[2], "competitor">>
  BY <1>3 DEF Competitor
<1>5. Competitor(r) \in Owners
  BY <1>3, <1>4 DEF Owners
<1>6. Competitor(r)[1] = r
  BY DEF Competitor
<1>7. Self(r) = TestKey(r)
  BY DEF Self, TestKey
<1> QED
  BY <1>1, <1>2, <1>3, <1>5, <1>6, <1>7 DEF Owners

\* What a step puts is nothing or a lease of its run.
LEMMA LeaseOfRun ==
  ASSUME TypeInv, NEW r \in Runs, NEW s \in LeaseSteps
  PROVE  /\ Lease(r, s) = None \/ Lease(r, s) \in Leases
         /\ Lease(r, s) # None => Lease(r, s).owner[1] = r /\ Lease(r, s).run = r
         /\ LeaseKey(r, s) \in {Guard, TestKey(r)} \cap Keys
<1>1. Duration \in Nat
  BY QualificationConstants
<1>2. /\ \A e \in Int : Item(Self(r), r, e) \in Leases /\ Item(Competitor(r), r, e) \in Leases
      /\ \A e \in Int : Item(Self(r), r, e).owner[1] = r /\ Item(Self(r), r, e).run = r
      /\ \A e \in Int : Item(Competitor(r), r, e).owner[1] = r /\ Item(Competitor(r), r, e).run = r
  BY OwnNames DEF Item, Leases
<1>3. probe[r].now + Duration \in Int /\ probe[r].now - 1 \in Int
  BY <1>1, OwnNames
<1>4. LeaseKey(r, s) \in {Guard, TestKey(r)} \cap Keys
  BY OwnNames DEF LeaseKey, Keys
<1>5. CASE s \in {"guard", "test", "renew"}
  BY <1>2, <1>3, <1>4, <1>5 DEF Lease
<1>6. CASE s = "expire"
  BY <1>2, <1>3, <1>4, <1>6 DEF Lease
<1>7. CASE s \in {"compete", "takeover"}
  BY <1>2, <1>3, <1>4, <1>7 DEF Lease
<1>8. CASE s \in {"wrong", "release"}
  BY <1>4, <1>8 DEF Lease
<1> QED
  BY <1>5, <1>6, <1>7, <1>8 DEF LeaseSteps

\* A lease request is admitted only where nothing is, where the item is the
\* run's own, or where it has expired (acquire_allowed, release_allowed).
LEMMA AdmittedWhere ==
  ASSUME TypeInv, Labelled, Dated, NEW r \in Runs, NEW s \in LeaseSteps, Admitted(r, s)
  PROVE  LET item == items[LeaseKey(r, s)] IN
         item = None \/ item.run = r \/ item.expires < clock
<1> DEFINE key == LeaseKey(r, s)
<1>1. key \in Keys
  BY LeaseOfRun
<1>2. SUFFICES ASSUME items[key] # None
               PROVE  items[key].run = r \/ items[key].expires < clock
  OBVIOUS
<1>3. items[key] \in Leases
  BY <1>1, <1>2 DEF TypeInv
<1>4. items[key].expires \in Int /\ items[key].owner[1] = items[key].run
  BY <1>1, <1>2, <1>3 DEF Leases, Labelled
<1>5. probe[r].now \in Nat /\ clock \in Nat /\ probe[r].now <= clock
  BY OwnNames DEF TypeInv, Dated
<1>6. CASE s \in {"guard", "test", "renew", "compete", "takeover"}
  <2>1. Free(key, Lease(r, s), probe[r].now)
    BY <1>6 DEF Admitted
  <2>2. Lease(r, s).owner[1] = r
    BY <1>6, OwnNames DEF Lease, Item
  <2> HIDE DEF key
  <2>3. CASE items[key].expires < probe[r].now
    BY <1>4, <1>5, <2>3
  <2>4. CASE items[key].owner = Lease(r, s).owner
    BY <1>4, <2>2, <2>4
  <2> QED
    BY <1>2, <2>1, <2>3, <2>4 DEF Free
<1>7. CASE s \in {"expire", "wrong"}
  BY <1>4, <1>7, OwnNames DEF Admitted, OwnedBy
<1>8. CASE s = "release"
  BY <1>8 DEF Admitted, Released
<1> QED
  BY <1>6, <1>7, <1>8 DEF LeaseSteps

\* A request of a case that takes effect keeps the types and the labels of the
\* account, and touches only what belongs to its run.
LEMMA EffectOwn ==
  ASSUME TypeInv, Labelled, Dated, NEW r \in Runs, NEW s \in ToSet(Body), Effect(r, s)
  PROVE  AccountType' /\ Labelled' /\ Own(r)
<1>1. CASE s \in {"payload", "script"}
  <2>1. objects' = objects \cup {<<r, Cases[probe[r].case], s>>} /\ UNCHANGED <<items, jobs>>
    BY <1>1 DEF Effect
  <2>2. /\ <<r, Cases[probe[r].case], s>> \in Runs \X ToSet(Cases) \X {"payload", "script"}
        /\ <<r, Cases[probe[r].case], s>>[1] = r
    BY <1>1, OwnNames
  <2>3. AccountType'
    BY <2>1, <2>2 DEF TypeInv, AccountType
  <2>4. Labelled'
    BY <2>1 DEF Labelled
  <2>5. Own(r)
    BY <2>1, <2>2 DEF Own
  <2> QED
    BY <2>3, <2>4, <2>5
<1>2. CASE s = "job"
  <2>1. jobs' = jobs \cup {TestKey(r)} /\ UNCHANGED <<items, objects>>
    BY <1>2 DEF Effect
  <2>2. AccountType'
    BY <2>1, OwnNames DEF TypeInv, AccountType
  <2>3. Labelled'
    BY <2>1 DEF Labelled
  <2>4. Own(r)
    BY <2>1, OwnNames DEF Own
  <2> QED
    BY <2>2, <2>3, <2>4
<1>3. CASE s \in LeaseSteps
  <2> DEFINE key == LeaseKey(r, s)
             lease == Lease(r, s)
  <2>1. /\ items' = IF Admitted(r, s) THEN [items EXCEPT ![key] = lease] ELSE items
        /\ UNCHANGED <<objects, jobs>>
    BY <1>3 DEF Effect, LeaseSteps
  <2>2. /\ lease = None \/ lease \in Leases
        /\ lease # None => lease.owner[1] = r /\ lease.run = r
        /\ key \in {Guard, TestKey(r)} \cap Keys
    BY <1>3, LeaseOfRun
  <2>3. Admitted(r, s) => items[key] = None \/ items[key].run = r \/ items[key].expires < clock
    BY <1>3, AdmittedWhere
  <2>4. Guard \notin TestKeys /\ TestKeys \subseteq Keys /\ TestKey(r)[1] = r
    BY KeysApart, OwnNames DEF TestKeys, Keys
  <2> HIDE DEF key, lease
  <2>5. items \in [Keys -> Leases \cup {None}]
    BY DEF TypeInv
  <2>6. \A k \in Keys : items'[k] = IF Admitted(r, s) /\ k = key THEN lease ELSE items[k]
    BY <2>1, <2>2, <2>5
  <2>7. AccountType'
    BY <2>1, <2>2, <2>5 DEF TypeInv, AccountType
  <2>8. Labelled'
    BY <2>2, <2>4, <2>6 DEF Labelled
  <2>9. Own(r)
    BY <2>1, <2>2, <2>3, <2>6 DEF Own
  <2> QED
    BY <2>7, <2>8, <2>9
<1> QED
  BY <1>1, <1>2, <1>3, Steps DEF LeaseSteps

-----------------------------------------------------------------------------
(* The steps of a probe.                                                   *)

Probe(r) ==
  \/ Inventory(r) \/ BeginCase(r) \/ Answered(r) \/ Failed(r) \/ Differs(r)
  \/ DeleteJob(r) \/ DeleteItem(r) \/ DeleteVersion(r) \/ CleanFails(r)
  \/ CheckClean(r) \/ Dies(r)

\* The process of r has moved, and no other.
Moves(r) ==
  /\ probe'[r] # probe[r] \/ recovery'[r] # recovery[r]
  /\ \A s \in Runs \ {r} : probe'[s] = probe[s] /\ recovery'[s] = recovery[s]

\* A process that goes on to another state.
LEMMA ProbeMoves ==
  ASSUME TypeInv, Dated, NEW r \in Runs, NEW q \in Process, q # probe[r],
         q.now <= clock, probe' = [probe EXCEPT ![r] = q], UNCHANGED <<clock, recovery>>
  PROVE  /\ clock' \in Nat /\ probe' \in [Runs -> Process] /\ recovery' \in [Runs -> Recoverer]
         /\ Moves(r) /\ Dated' /\ probe'[r] = q
<1>1. probe \in [Runs -> Process] /\ recovery \in [Runs -> Recoverer] /\ clock \in Nat
  BY DEF TypeInv
<1>2. probe' \in [Runs -> Process] /\ \A s \in Runs : probe'[s] = IF s = r THEN q ELSE probe[s]
  BY <1>1
<1>3. Moves(r) /\ Dated' /\ probe'[r] = q
  BY <1>2 DEF Moves, Dated
<1> QED
  BY <1>1, <1>2, <1>3

\* The step after a step, and the list of what is there after one.
LEMMA Going ==
  ASSUME NEW p \in Process, NEW s \in ToSet(Body), p.at = s
  PROVE  /\ Onward(p) \in Process /\ Onward(p).at # s
         /\ Onward(p).at \notin {"passed", "failed"}
         /\ Onward(p).now = p.now
         /\ Recorded(p, s) \in Process /\ Recorded(p, s).at = s /\ Recorded(p, s).now = p.now
         /\ Erred(p) \in Process /\ Erred(p).at = "clean" /\ Erred(p).now = p.now
<1> DEFINE k == CHOOSE k \in 1..Len(Body) : Body[k] = p.at
<1>1. k \in 1..11 /\ Body[k] = s
  BY Steps
<1> HIDE DEF k
<1>2. PICK at : /\ Onward(p) = [p EXCEPT !.at = at]
                /\ at = "clean" \/ (k < 11 /\ at = Body[k + 1])
  <2>1. Onward(p) = [p EXCEPT !.at =
          IF k = Len(Body) \/ InjectedAfter[Cases[p.case]] = p.at THEN "clean" ELSE Body[k + 1]]
    BY Zenon DEF Onward, k
  <2> QED
    BY <1>1, <2>1, Steps
<1>3. at \in {"clean"} \cup ToSet(Body) /\ at # s
  BY <1>1, <1>2, Steps
<1>4. /\ Onward(p) \in Process /\ Onward(p).at # s
      /\ Onward(p).at \notin {"passed", "failed"}
      /\ Onward(p).now = p.now
  BY <1>2, <1>3, Steps DEF Process
<1>5. Erred(p) \in Process /\ Erred(p).at = "clean" /\ Erred(p).now = p.now
  BY DEF Erred, Process
<1>6. Recorded(p, s) \in Process /\ Recorded(p, s).at = s /\ Recorded(p, s).now = p.now
  <2>1. p.created \in Seq({"guard", "test"}) /\ p.versions \in Seq({"payload", "script"})
    BY DEF Process
  <2>2. RemoveFirst(p.created, "test") \in Seq({"guard", "test"})
    BY <2>1, RemovedFirst
  <2>3. CASE s \in {"guard", "test"}
    <3>1. Append(p.created, s) \in Seq({"guard", "test"})
      BY <2>1, <2>3
    <3>2. Recorded(p, s) = [p EXCEPT !.created = Append(p.created, s)]
      BY <2>3 DEF Recorded
    <3> QED
      BY <3>1, <3>2 DEF Process
  <2>4. CASE s = "release"
    <3>1. Recorded(p, s) = [p EXCEPT !.created = RemoveFirst(p.created, "test")]
      BY <2>4 DEF Recorded
    <3> QED
      BY <2>2, <3>1 DEF Process
  <2>5. CASE s \in {"payload", "script"}
    <3>1. Append(p.versions, s) \in Seq({"payload", "script"})
      BY <2>1, <2>5
    <3>2. Recorded(p, s) = [p EXCEPT !.versions = Append(p.versions, s)]
      BY <2>5 DEF Recorded
    <3> QED
      BY <3>1, <3>2 DEF Process
  <2>6. CASE s = "job"
    BY <2>6 DEF Recorded, Process
  <2>7. CASE s \notin {"guard", "test", "release", "payload", "script", "job"}
    BY <2>7 DEF Recorded
  <2> QED
    BY <2>3, <2>4, <2>5, <2>6, <2>7
<1> QED
  BY <1>4, <1>5, <1>6

\* A lease that is released or a thing that is deleted is the run's own.
LEMMA TakesOwn ==
  ASSUME TypeInv, Labelled, NEW r \in Runs,
         \/ UNCHANGED <<items, objects, jobs>>
         \/ /\ jobs' = jobs \ {TestKey(r)}
            /\ UNCHANGED <<items, objects>>
         \/ /\ \E key \in Keys : \E owner :
                 Released(key, owner, r) /\ items' = [items EXCEPT ![key] = None]
            /\ UNCHANGED <<objects, jobs>>
         \/ /\ \E c, n : objects' = objects \ {<<r, c, n>>}
            /\ UNCHANGED <<items, jobs>>
  PROVE  AccountType' /\ Labelled' /\ Own(r) /\ OnlyTakes
<1>0. AccountType
  BY DEF TypeInv, AccountType
<1>1. CASE UNCHANGED <<items, objects, jobs>>
  BY <1>0, <1>1 DEF AccountType, Labelled, Own, OnlyTakes
<1>2. CASE jobs' = jobs \ {TestKey(r)} /\ UNCHANGED <<items, objects>>
  BY <1>0, <1>2, OwnNames DEF AccountType, Labelled, Own, OnlyTakes
<1>3. CASE /\ \E key \in Keys : \E owner :
                Released(key, owner, r) /\ items' = [items EXCEPT ![key] = None]
           /\ UNCHANGED <<objects, jobs>>
  <2>1. PICK key \in Keys :
          \E owner : Released(key, owner, r) /\ items' = [items EXCEPT ![key] = None]
    BY <1>3
  <2>2. items[key].run = r
    BY <2>1 DEF Released
  <2>3. items \in [Keys -> Leases \cup {None}]
    BY DEF TypeInv
  <2>4. \A k \in Keys : items'[k] = IF k = key THEN None ELSE items[k]
    BY <2>1, <2>3
  <2>5. AccountType'
    BY <1>0, <1>3, <2>1 DEF AccountType
  <2>6. Labelled'
    BY <2>4 DEF Labelled, Keys
  <2> QED
    BY <1>3, <2>2, <2>4, <2>5, <2>6 DEF Own, OnlyTakes
<1>4. CASE /\ \E c, n : objects' = objects \ {<<r, c, n>>}
           /\ UNCHANGED <<items, jobs>>
  BY <1>0, <1>4 DEF AccountType, Labelled, Own, OnlyTakes
<1> QED
  BY <1>1, <1>2, <1>3, <1>4

\* What every step of a probe keeps, and what only an inventory can say.
LEMMA ProbeStep ==
  ASSUME TypeInv, Labelled, Dated, NEW r \in Runs, Probe(r)
  PROVE  /\ AccountType' /\ Labelled' /\ Dated' /\ Own(r) /\ Moves(r)
         /\ clock' \in Nat /\ faults' \in Nat
         /\ probe' \in [Runs -> Process] /\ recovery' \in [Runs -> Recoverer]
         /\ probe[r].at \notin {"passed", "failed"} /\ UNCHANGED recovery
         /\ probe'[r].at = "passed" => InventoryClean /\ UNCHANGED <<items, objects, jobs>>
<1> DEFINE p == probe[r]
           To(q) == /\ q \in Process /\ q # p /\ q.now <= clock
                    /\ probe' = [probe EXCEPT ![r] = q]
                    /\ q.at = "passed" => InventoryClean /\ UNCHANGED <<items, objects, jobs>>
           Kept == AccountType' /\ Labelled' /\ Own(r)
           Rest == /\ UNCHANGED <<clock, recovery>> /\ faults' \in Nat
                   /\ p.at \notin {"passed", "failed"}
<1>1. /\ p \in Process /\ probe \in [Runs -> Process] /\ faults \in Nat /\ p.now <= clock
      /\ clock \in Nat /\ AccountType
  BY DEF TypeInv, Dated, AccountType
<1>0. SUFFICES Kept /\ Rest /\ \E q : To(q)
  <2>1. ASSUME NEW q, To(q), Kept, Rest
        PROVE  /\ clock' \in Nat /\ probe' \in [Runs -> Process] /\ recovery' \in [Runs -> Recoverer]
               /\ Moves(r) /\ Dated' /\ probe'[r] = q
    BY <2>1, ProbeMoves
  <2> QED
    BY <2>1
<1>2. ASSUME NEW at \in {"begin", "failed", "passed", "dead", "inventory"}, at # p.at, Stop(r, at),
             at = "passed" => InventoryClean /\ UNCHANGED <<items, objects, jobs>>
      PROVE  \E q : To(q)
  <2>1. [p EXCEPT !.at = at] \in Process
    BY <1>1, <1>2 DEF Process, Ended
  <2>2. [p EXCEPT !.at = at].at = at /\ [p EXCEPT !.at = at].now = p.now
    BY <1>1 DEF Process
  <2>3. probe' = [probe EXCEPT ![r] = [p EXCEPT !.at = at]]
    BY <1>2 DEF Stop
  <2> QED
    BY <1>1, <1>2, <2>1, <2>2, <2>3
<1>3. Fault => faults' \in Nat
  BY <1>1 DEF Fault
<1>4. CASE Inventory(r)
  <2>1. PICK at \in {"begin", "failed", "passed"} :
          at # p.at /\ Stop(r, at) /\ (at = "passed" => InventoryClean)
    BY <1>4 DEF Inventory
  <2>2. UNCHANGED <<items, objects, jobs, faults, clock, recovery>> /\ p.at \in {"idle", "inventory"}
    BY <1>4 DEF Inventory
  <2>3. \E q : To(q)
    BY <1>2, <2>1, <2>2
  <2> HIDE DEF To, p
  <2>4. Kept
    BY <2>2, TakesOwn
  <2> QED
    BY <1>1, <2>2, <2>3, <2>4
<1>5. CASE BeginCase(r)
  <2>1. [p EXCEPT !.at = "guard", !.now = clock] \in Process
    BY <1>1, Steps DEF Process
  <2>2. UNCHANGED <<items, objects, jobs, faults, clock, recovery>> /\ p.at = "begin"
    BY <1>5 DEF BeginCase
  <2>5. /\ [p EXCEPT !.at = "guard", !.now = clock].at = "guard"
        /\ [p EXCEPT !.at = "guard", !.now = clock].now = clock
    BY <1>1 DEF Process
  <2>6. probe' = [probe EXCEPT ![r] = [p EXCEPT !.at = "guard", !.now = clock]]
    BY <1>5, <1>1 DEF BeginCase, Process
  <2>3. To([p EXCEPT !.at = "guard", !.now = clock])
    <3> DEFINE q == [p EXCEPT !.at = "guard", !.now = clock]
    <3>1. q \in Process /\ q.at = "guard" /\ q.now = clock /\ probe' = [probe EXCEPT ![r] = q]
      BY <2>1, <2>5, <2>6
    <3> HIDE DEF q, p
    <3>2. q # p
      BY <2>2, <3>1
    <3>3. q.now <= clock
      BY <1>1, <3>1
    <3>4. To(q)
      BY <3>1, <3>2, <3>3
    <3> QED
      BY <3>4 DEF q
  <2> HIDE DEF To, p
  <2>4. Kept
    BY <2>2, TakesOwn
  <2> QED
    BY <1>1, <2>2, <2>3, <2>4
<1>6. ASSUME p.at \in ToSet(Body)
      PROVE  /\ /\ Onward(Recorded(p, p.at)) \in Process /\ Onward(Recorded(p, p.at)).at # p.at
                /\ Onward(Recorded(p, p.at)).at # "passed" /\ Onward(Recorded(p, p.at)).now = p.now
             /\ /\ Erred(p) \in Process /\ Erred(p).at = "clean" /\ Erred(p).now = p.now
             /\ /\ Erred(Recorded(p, p.at)) \in Process /\ Erred(Recorded(p, p.at)).at = "clean"
                /\ Erred(Recorded(p, p.at)).now = p.now
             /\ p.at \notin {"clean", "passed", "failed"}
  <2>1. Recorded(p, p.at) \in Process /\ Recorded(p, p.at).at = p.at /\ Recorded(p, p.at).now = p.now
    BY <1>1, <1>6, Going
  <2>2. p.at \notin {"clean", "passed", "failed"}
    BY <1>6, Steps
  <2> HIDE DEF p
  <2> QED
    BY <1>1, <1>6, <2>1, <2>2, Going
<1>7. CASE Answered(r)
  <2>1. /\ p.at \in ToSet(Body) /\ Effect(r, p.at) /\ UNCHANGED <<clock, faults, recovery>>
        /\ \/ probe' = [probe EXCEPT ![r] = Onward(Recorded(p, p.at))]
           \/ probe' = [probe EXCEPT ![r] = Erred(p)]
    BY <1>7, <1>1 DEF Answered
  <2>2. Kept
    BY <2>1, EffectOwn
  <2>3. To(Onward(Recorded(p, p.at))) \/ To(Erred(p))
    BY <1>1, <1>6, <2>1
  <2> HIDE DEF To, p
  <2> QED
    BY <1>1, <1>6, <2>1, <2>2, <2>3
<1>8. CASE Failed(r)
  <2>1. /\ p.at \in ToSet(Body) /\ Fault /\ UNCHANGED <<clock, recovery>>
        /\ Effect(r, p.at) \/ UNCHANGED <<items, objects, jobs>>
        /\ probe' = [probe EXCEPT ![r] = Erred(p)]
    BY <1>8, <1>1 DEF Failed
  <2>2. Kept
    BY <2>1, EffectOwn, TakesOwn
  <2>3. To(Erred(p))
    BY <1>1, <1>6, <2>1
  <2> HIDE DEF To, p
  <2> QED
    BY <1>3, <1>6, <2>1, <2>2, <2>3
<1>9. CASE Differs(r)
  <2>1. /\ p.at \in ToSet(Body) /\ Fault /\ UNCHANGED <<clock, recovery>> /\ Effect(r, p.at)
        /\ probe' = [probe EXCEPT ![r] = Erred(Recorded(p, p.at))]
    BY <1>9, <1>1, Steps DEF Differs
  <2>2. Kept
    BY <2>1, EffectOwn
  <2>3. To(Erred(Recorded(p, p.at)))
    BY <1>1, <1>6, <2>1
  <2> HIDE DEF To, p
  <2> QED
    BY <1>3, <1>6, <2>1, <2>2, <2>3
<1>10. CASE DeleteJob(r)
  <2>1. /\ p.at = "clean" /\ p.job /\ jobs' = jobs \ {TestKey(r)}
        /\ UNCHANGED <<clock, items, objects, faults, recovery>>
    BY <1>10 DEF DeleteJob
  <2>2. To([p EXCEPT !.job = FALSE])
    BY <1>1, <1>10 DEF DeleteJob, Process
  <2> HIDE DEF To, p
  <2>3. Kept
    BY <2>1, TakesOwn
  <2> QED
    BY <1>1, <2>1, <2>2, <2>3
<1>11. CASE DeleteItem(r)
  <2> DEFINE key == LeaseKey(r, Last(p.created))
  <2>1. /\ p.at = "clean" /\ p.created # <<>> /\ UNCHANGED <<clock, objects, jobs, faults, recovery>>
        /\ \/ /\ Released(key, Self(r), r) /\ items' = [items EXCEPT ![key] = None]
              /\ probe' = [probe EXCEPT ![r] = [p EXCEPT !.created = Front(p.created)]]
           \/ Stop(r, "failed") /\ UNCHANGED items
    BY <1>11, <1>1 DEF DeleteItem
  <2>2. p.created \in Seq({"guard", "test"})
    BY <1>1 DEF Process
  <2>3. Front(p.created) \in Seq({"guard", "test"}) /\ Front(p.created) # p.created
    BY <2>1, <2>2, FrontType
  <2>4. key \in Keys
    BY OwnNames DEF LeaseKey, Keys
  <2>5. [p EXCEPT !.created = Front(p.created)] \in Process
    BY <1>1, <2>3 DEF Process
  <2>6. /\ [p EXCEPT !.created = Front(p.created)] # p
        /\ [p EXCEPT !.created = Front(p.created)].now = p.now
        /\ [p EXCEPT !.created = Front(p.created)].at = p.at
    BY <1>1, <2>3 DEF Process
  <2>7. \E q : To(q)
    BY <1>1, <1>2, <2>1, <2>5, <2>6
  <2> HIDE DEF To, p, key
  <2>8. Kept
    BY <2>1, <2>4, TakesOwn
  <2> QED
    BY <1>1, <2>1, <2>7, <2>8
<1>12. CASE DeleteVersion(r)
  <2>1. /\ p.at = "clean" /\ p.versions # <<>> /\ UNCHANGED <<clock, items, jobs, faults, recovery>>
        /\ objects' = objects \ {<<r, Cases[p.case], Last(p.versions)>>}
        /\ probe' = [probe EXCEPT ![r] = [p EXCEPT !.versions = Front(p.versions)]]
    BY <1>12, <1>1 DEF DeleteVersion
  <2>2. p.versions \in Seq({"payload", "script"})
    BY <1>1 DEF Process
  <2>3. Front(p.versions) \in Seq({"payload", "script"}) /\ Front(p.versions) # p.versions
    BY <2>1, <2>2, FrontType
  <2>4. [p EXCEPT !.versions = Front(p.versions)] \in Process
    BY <1>1, <2>3 DEF Process
  <2>5. /\ [p EXCEPT !.versions = Front(p.versions)] # p
        /\ [p EXCEPT !.versions = Front(p.versions)].now = p.now
        /\ [p EXCEPT !.versions = Front(p.versions)].at = p.at
    BY <1>1, <2>3 DEF Process
  <2>6. To([p EXCEPT !.versions = Front(p.versions)])
    BY <1>1, <2>1, <2>4, <2>5
  <2> HIDE DEF To, p
  <2>7. Kept
    BY <2>1, TakesOwn
  <2> QED
    BY <1>1, <2>1, <2>6, <2>7
<1>13. CASE CleanFails(r)
  <2> DEFINE key == LeaseKey(r, Last(p.created))
  <2>1. /\ p.at = "clean" /\ Fault /\ Stop(r, "failed") /\ UNCHANGED <<clock, recovery>>
        /\ \/ UNCHANGED <<items, objects, jobs>>
           \/ /\ jobs' = jobs \ {TestKey(r)}
              /\ UNCHANGED <<items, objects>>
           \/ /\ Released(key, Self(r), r) /\ items' = [items EXCEPT ![key] = None]
              /\ UNCHANGED <<objects, jobs>>
           \/ /\ objects' = objects \ {<<r, Cases[p.case], Last(p.versions)>>}
              /\ UNCHANGED <<items, jobs>>
    BY <1>13 DEF CleanFails, Cleaning
  <2>2. key \in Keys
    BY OwnNames DEF LeaseKey, Keys
  <2>3. \E q : To(q)
    BY <1>2, <2>1
  <2> HIDE DEF To, p, key
  <2>4. Kept
    BY <2>1, <2>2, TakesOwn
  <2> QED
    BY <1>3, <2>1, <2>3, <2>4
<1>14. CASE CheckClean(r)
  <2>1. /\ p.at = "clean" /\ UNCHANGED <<clock, items, objects, jobs, faults, recovery>>
        /\ \/ Stop(r, "inventory") \/ Stop(r, "failed")
           \/ /\ p.case # Len(Cases)
              /\ probe' = [probe EXCEPT ![r] = [p EXCEPT !.at = "begin", !.case = p.case + 1]]
    BY <1>14, <1>1 DEF CheckClean, Stop
  <2>2. p.case # Len(Cases) => [p EXCEPT !.at = "begin", !.case = p.case + 1] \in Process
    <3>1. Len(Cases) \in Nat
      BY QualificationConstants
    <3>2. p.case \in 1..Len(Cases)
      BY <1>1 DEF Process
    <3>3. p.case # Len(Cases) => p.case + 1 \in 1..Len(Cases)
      BY <3>1, <3>2
    <3> HIDE DEF p
    <3> QED
      BY <1>1, <3>3 DEF Process
  <2>3. /\ [p EXCEPT !.at = "begin", !.case = p.case + 1].at = "begin"
        /\ [p EXCEPT !.at = "begin", !.case = p.case + 1].now = p.now
    BY <1>1 DEF Process
  <2>4. \E q : To(q)
    BY <1>1, <1>2, <2>1, <2>2, <2>3
  <2> HIDE DEF To, p
  <2>5. Kept
    BY <2>1, TakesOwn
  <2> QED
    BY <1>1, <2>1, <2>4, <2>5
<1>15. CASE Dies(r)
  <2>1. /\ p.at \notin Ended /\ Fault /\ Stop(r, "dead")
        /\ UNCHANGED <<clock, items, objects, jobs, recovery>>
    BY <1>15 DEF Dies
  <2>2. \E q : To(q)
    BY <1>2, <2>1 DEF Ended
  <2> HIDE DEF To, p
  <2>3. Kept
    BY <2>1, TakesOwn
  <2> QED
    BY <1>3, <2>1, <2>2, <2>3 DEF Ended, Rest
<1> HIDE DEF To, p, Kept, Rest
<1> QED
  BY <1>4, <1>5, <1>7, <1>8, <1>9, <1>10, <1>11, <1>12, <1>13, <1>14, <1>15 DEF Probe

-----------------------------------------------------------------------------
(* The steps of a recovery.                                                *)

Recover(r) ==
  \/ RecoverBegin(r) \/ RecoverVersions(r) \/ RecoverItem(r) \/ ReleaseItem(r)
  \/ RecoverJob(r) \/ RecoveryFails(r)

\* A recovery that goes on to another state.
LEMMA RecoveryMoves ==
  ASSUME TypeInv, Dated, NEW r \in Runs, NEW q \in Recoverer, q # recovery[r],
         recovery' = [recovery EXCEPT ![r] = q], UNCHANGED <<clock, probe>>
  PROVE  /\ clock' \in Nat /\ probe' \in [Runs -> Process] /\ recovery' \in [Runs -> Recoverer]
         /\ Moves(r) /\ Dated' /\ recovery'[r] = q
<1>1. probe \in [Runs -> Process] /\ recovery \in [Runs -> Recoverer] /\ clock \in Nat
  BY DEF TypeInv
<1>2. recovery' \in [Runs -> Recoverer]
      /\ \A s \in Runs : recovery'[s] = IF s = r THEN q ELSE recovery[s]
  BY <1>1
<1> QED
  BY <1>1, <1>2 DEF Moves, Dated

\* The key that a recovery looks at.
LEMMA RecoveredKeys ==
  ASSUME TypeInv, NEW r \in Runs
  PROVE  /\ RecoveredKey(r) \in Keys
         /\ recovery[r].case \in 1..Len(Cases)
         /\ Cases[recovery[r].case] \in ToSet(Cases)
<1>1. recovery[r].case \in 1..Len(Cases)
  BY DEF TypeInv, Recoverer
<1>2. Cases[recovery[r].case] \in ToSet(Cases)
  BY <1>1, CaseName
<1> QED
  BY <1>1, <1>2 DEF RecoveredKey, Keys, TestKeys

\* What every step of a recovery keeps.
LEMMA RecoverStep ==
  ASSUME TypeInv, Labelled, Dated, NEW r \in Runs, Recover(r)
  PROVE  /\ AccountType' /\ Labelled' /\ Dated' /\ Own(r) /\ Moves(r) /\ OnlyTakes
         /\ clock' \in Nat /\ faults' \in Nat
         /\ probe' \in [Runs -> Process] /\ recovery' \in [Runs -> Recoverer]
         /\ UNCHANGED probe
<1> DEFINE p == recovery[r]
           To(q) == /\ q \in Recoverer /\ q # p
                    /\ recovery' = [recovery EXCEPT ![r] = q]
           Kept == AccountType' /\ Labelled' /\ Own(r) /\ OnlyTakes
           Rest == UNCHANGED <<clock, probe>> /\ faults' \in Nat
<1>0. SUFFICES Kept /\ Rest /\ \E q : To(q)
  <2>1. ASSUME NEW q, To(q), Kept, Rest
        PROVE  /\ clock' \in Nat /\ probe' \in [Runs -> Process] /\ recovery' \in [Runs -> Recoverer]
               /\ Moves(r) /\ Dated'
    BY <2>1, RecoveryMoves
  <2> QED
    BY <2>1
<1>1. /\ p \in Recoverer /\ recovery \in [Runs -> Recoverer] /\ faults \in Nat
      /\ clock \in Nat /\ AccountType
      /\ items \in [Keys -> Leases \cup {None}]
  BY DEF TypeInv, AccountType
<1>2. Fault => faults' \in Nat
  BY <1>1 DEF Fault
<1>3. ASSUME NEW at \in {"test", "job", "guard", "untest", "unguard", "passed", "failed"}, at # p.at,
             recovery' = [recovery EXCEPT ![r] = [p EXCEPT !.at = at]]
      PROVE  \E q : To(q)
  <2>1. [p EXCEPT !.at = at] \in Recoverer /\ [p EXCEPT !.at = at].at = at
    BY <1>1 DEF Recoverer
  <2> HIDE DEF p
  <2> QED
    BY <1>3, <2>1
<1>4. CASE RecoverBegin(r)
  <2> DEFINE q == [at |-> "versions", case |-> 1, owner |-> None]
  <2>1. /\ p.at \in {"idle", "failed"} /\ recovery' = [recovery EXCEPT ![r] = q]
        /\ UNCHANGED <<clock, items, objects, jobs, faults, probe>>
    BY <1>4 DEF RecoverBegin
  <2>2. 1 \in 1..Len(Cases)
    BY QualificationConstants
  <2>3. q \in Recoverer /\ q.at = "versions"
    BY <2>2 DEF Recoverer
  <2>4. To(q)
    BY <2>1, <2>3
  <2> HIDE DEF To, p, q
  <2>5. Kept
    BY <2>1, TakesOwn
  <2> QED
    BY <1>1, <2>1, <2>4, <2>5
<1>5. CASE RecoverVersions(r)
  <2>1. PICK gone \in SUBSET ObjectsOf(r, Cases[p.case]) :
          /\ objects' = objects \ gone
          /\ \/ /\ recovery' = [recovery EXCEPT ![r] = [p EXCEPT !.at = "test"]]
                /\ UNCHANGED faults
             \/ /\ Fault
                /\ recovery' = [recovery EXCEPT ![r] = [p EXCEPT !.at = "failed"]]
    BY <1>5 DEF RecoverVersions
  <2>2. p.at = "versions" /\ UNCHANGED <<clock, items, jobs, probe>>
    BY <1>5 DEF RecoverVersions
  <2>3. \E q : To(q)
    BY <1>3, <2>1, <2>2
  <2>4. \A o \in gone : o[1] = r
    BY <2>1 DEF ObjectsOf
  <2> HIDE DEF To, p
  <2>5. AccountType' /\ Labelled' /\ Own(r) /\ OnlyTakes
    BY <1>1, <2>1, <2>2, <2>4 DEF AccountType, Labelled, Own, OnlyTakes
  <2> QED
    BY <1>1, <1>2, <2>1, <2>2, <2>3, <2>5
<1>6. CASE RecoverItem(r)
  <2> DEFINE key == RecoveredKey(r)
  <2>1. p.at \in {"test", "guard"} /\ UNCHANGED <<clock, items, objects, jobs, faults, probe>>
    BY <1>6 DEF RecoverItem
  <2>2. \/ \E at \in {"job", "passed", "failed"} :
             recovery' = [recovery EXCEPT ![r] = [p EXCEPT !.at = at]]
        \/ /\ items[key] # None
           /\ \E at \in {"untest", "unguard"} :
                recovery' = [recovery EXCEPT ![r] = [p EXCEPT !.at = at, !.owner = items[key].owner]]
    BY <1>6 DEF RecoverItem
  <2>3. key \in Keys
    BY RecoveredKeys
  <2>4. items[key] # None => items[key].owner \in Owners
    BY <1>1, <2>3 DEF Leases
  <2>5. ASSUME NEW at \in {"untest", "unguard"}, items[key] # None
        PROVE  /\ [p EXCEPT !.at = at, !.owner = items[key].owner] \in Recoverer
               /\ [p EXCEPT !.at = at, !.owner = items[key].owner].at = at
    BY <1>1, <2>4, <2>5 DEF Recoverer
  <2>6. \E q : To(q)
    BY <1>3, <2>1, <2>2, <2>5
  <2> HIDE DEF To, p, key
  <2>7. Kept
    BY <2>1, TakesOwn
  <2> QED
    BY <1>1, <2>1, <2>6, <2>7
<1>7. CASE ReleaseItem(r)
  <2> DEFINE key == RecoveredKey(r)
  <2>1. p.at \in {"untest", "unguard"} /\ UNCHANGED <<clock, objects, jobs, faults, probe>>
    BY <1>7 DEF ReleaseItem
  <2>2. \/ /\ Released(key, p.owner, r) /\ items' = [items EXCEPT ![key] = None]
           /\ \E at \in {"job", "passed"} : recovery' = [recovery EXCEPT ![r] = [p EXCEPT !.at = at]]
        \/ UNCHANGED items /\ recovery' = [recovery EXCEPT ![r] = [p EXCEPT !.at = "failed"]]
    BY <1>7, <1>1 DEF ReleaseItem
  <2>3. key \in Keys
    BY RecoveredKeys
  <2>4. \E q : To(q)
    BY <1>3, <2>1, <2>2
  <2> HIDE DEF To, p, key
  <2>5. Kept
    BY <2>1, <2>2, <2>3, TakesOwn
  <2> QED
    BY <1>1, <2>1, <2>4, <2>5
<1>8. CASE RecoverJob(r)
  <2>1. /\ p.at = "job" /\ jobs' = jobs \ {<<r, Cases[p.case]>>}
        /\ recovery' = [recovery EXCEPT ![r] = NextCase(p)]
        /\ UNCHANGED <<clock, items, objects, faults, probe>>
    BY <1>8 DEF RecoverJob
  <2>2. Len(Cases) \in Nat /\ p.case \in 1..Len(Cases)
    BY <1>1, QualificationConstants DEF Recoverer
  <2>3. p.case # Len(Cases) => p.case + 1 \in 1..Len(Cases)
    BY <2>2
  <2> HIDE DEF p
  <2>4. NextCase(p) \in Recoverer /\ NextCase(p).at \in {"guard", "versions"}
    BY <1>1, <2>3 DEF NextCase, Recoverer
  <2>5. To(NextCase(p))
    BY <2>1, <2>4
  <2> HIDE DEF To
  <2>6. Kept
    BY <1>1, <2>1 DEF AccountType, Labelled, Own, OnlyTakes
  <2> QED
    BY <1>1, <2>1, <2>5, <2>6
<1>9. CASE RecoveryFails(r)
  <2>1. /\ p.at \notin {"idle", "passed", "failed"} /\ Fault
        /\ recovery' = [recovery EXCEPT ![r] = [p EXCEPT !.at = "failed"]]
        /\ UNCHANGED <<clock, items, objects, jobs, probe>>
    BY <1>9 DEF RecoveryFails
  <2>2. \E q : To(q)
    BY <1>3, <2>1
  <2> HIDE DEF To, p
  <2>3. Kept
    BY <2>1, TakesOwn
  <2> QED
    BY <1>2, <2>1, <2>2, <2>3
<1> HIDE DEF To, p, Kept, Rest
<1> QED
  BY <1>4, <1>5, <1>6, <1>7, <1>8, <1>9 DEF Recover

\* The time to live takes away what has expired, and time passes.
LEMMA OutsideStep ==
  ASSUME TypeInv, Labelled, Dated,
         (\E key \in Keys : Removed(key)) \/ Tick \/ UNCHANGED vars
  PROVE  /\ AccountType' /\ Labelled' /\ Dated' /\ OnlyTakes
         /\ clock' \in Nat /\ UNCHANGED <<objects, jobs, faults, probe, recovery>>
         /\ \A key \in Keys : items'[key] # items[key] => items[key].expires < clock
<1>1. /\ clock \in Nat /\ AccountType /\ items \in [Keys -> Leases \cup {None}]
      /\ \A r \in Runs : probe[r].now \in Nat
  BY OwnNames DEF TypeInv, AccountType
<1>2. CASE \E key \in Keys : Removed(key)
  <2>1. PICK key \in Keys : Removed(key)
    BY <1>2
  <2>2. /\ \A k \in Keys : items'[k] = IF k = key THEN None ELSE items[k]
        /\ items[key].expires < clock /\ UNCHANGED <<clock, objects, jobs, faults, probe, recovery>>
        /\ items' \in [Keys -> Leases \cup {None}]
    BY <1>1, <2>1 DEF Removed
  <2> QED
    BY <1>1, <2>2 DEF AccountType, Labelled, Dated, OnlyTakes, Keys
<1>3. CASE Tick
  <2>1. clock' = clock + 1 /\ UNCHANGED <<items, objects, jobs, faults, probe, recovery>>
    BY <1>3 DEF Tick
  <2> QED
    BY <1>1, <2>1 DEF AccountType, Labelled, Dated, OnlyTakes
<1>4. CASE UNCHANGED vars
  BY <1>1, <1>4 DEF vars, AccountType, Labelled, Dated, OnlyTakes
<1> QED
  BY <1>2, <1>3, <1>4

-----------------------------------------------------------------------------
(* Every step is one of these.                                             *)

\* The actions by whose they are.
LEMMA StepKinds ==
  ASSUME [Next]_vars
  PROVE  \/ \E r \in Runs : Probe(r) \/ Recover(r)
         \/ (\E key \in Keys : Removed(key)) \/ Tick \/ UNCHANGED vars
BY DEF Next, Probe, Recover, Keys

\* The types, the labels and the dates are inductive.
Sound == TypeInv /\ Labelled /\ Dated

\* An account without any item, object or job is sound, and so are idle processes.
LEMMA SoundInit == Init => Sound
<1> SUFFICES ASSUME Init  PROVE Sound
  OBVIOUS
<1>1. 1 \in 1..Len(Cases)
  BY QualificationConstants
<1>2. items = [key \in Keys |-> None]
  BY DEF Init, Keys
<1>3. [at |-> "idle", case |-> 1, now |-> 0, created |-> <<>>,
       versions |-> <<>>, job |-> FALSE, error |-> FALSE] \in Process
  BY <1>1 DEF Process
<1>4. [at |-> "idle", case |-> 1, owner |-> None] \in Recoverer
  BY <1>1 DEF Recoverer
<1>5. TypeInv
  BY <1>2, <1>3, <1>4 DEF Init, TypeInv
<1>6. Labelled
  BY <1>2 DEF Labelled, Keys
<1>7. Dated
  BY DEF Init, Dated
<1> QED
  BY <1>5, <1>6, <1>7 DEF Sound

\* Every step keeps types, labels and dates.
LEMMA SoundStep == Sound /\ [Next]_vars => Sound'
<1> SUFFICES ASSUME Sound, [Next]_vars  PROVE Sound'
  OBVIOUS
<1>1. TypeInv /\ Labelled /\ Dated
  BY DEF Sound
<1>2. ASSUME NEW r \in Runs, Probe(r) \/ Recover(r)
      PROVE  Sound'
  <2>1. /\ AccountType' /\ Labelled' /\ Dated' /\ clock' \in Nat /\ faults' \in Nat
        /\ probe' \in [Runs -> Process] /\ recovery' \in [Runs -> Recoverer]
    BY <1>1, <1>2, ProbeStep, RecoverStep
  <2> QED
    BY <2>1 DEF Sound, TypeInv, AccountType
<1>3. CASE (\E key \in Keys : Removed(key)) \/ Tick \/ UNCHANGED vars
  <2>1. /\ AccountType' /\ Labelled' /\ Dated' /\ clock' \in Nat
        /\ UNCHANGED <<faults, probe, recovery>>
    BY <1>1, <1>3, OutsideStep
  <2> QED
    BY <1>1, <2>1 DEF Sound, TypeInv, AccountType
<1> QED
  BY <1>2, <1>3, StepKinds

\* The probe's state, the account and every recovery are of their types.
THEOREM TypeCorrect == Spec => []TypeInv
<1>1. Sound => TypeInv
  BY DEF Sound
<1> QED
  BY <1>1, SoundInit, SoundStep, PTL DEF Spec

\* Nobody but a run and its recovery takes away what the run put: whatever
\* another run writes, cleans up or recovers, its conditions on owner and run
\* keep it off, and a lease that is still good is never taken over
\* (acquire_allowed, release_allowed, run_recovery).
THEOREM ForeignUntouchedHolds == Spec => ForeignUntouched
<1> DEFINE A ==
      \A r \in Runs :
         probe'[r] = probe[r] /\ recovery'[r] = recovery[r] =>
           /\ {o \in objects \cup jobs : o[1] = r} \subseteq objects' \cup jobs'
           /\ \A key \in DOMAIN items :
                items[key] # None /\ items[key].run = r /\ items[key].expires >= clock =>
                  items'[key] = items[key]
<1>1. Sound /\ [Next]_vars => A
  <2> SUFFICES ASSUME Sound, [Next]_vars, NEW r \in Runs,
                      probe'[r] = probe[r], recovery'[r] = recovery[r]
               PROVE  /\ {o \in objects \cup jobs : o[1] = r} \subseteq objects' \cup jobs'
                      /\ \A key \in DOMAIN items :
                           items[key] # None /\ items[key].run = r /\ items[key].expires >= clock =>
                             items'[key] = items[key]
    OBVIOUS
  <2>1. /\ TypeInv /\ Labelled /\ Dated /\ DOMAIN items = Keys /\ clock \in Nat
        /\ \A key \in Keys : items[key] # None => items[key].expires \in Int
    BY DEF Sound, TypeInv, Leases
  <2>2. ASSUME NEW s \in Runs, Probe(s) \/ Recover(s)
        PROVE  Own(s) /\ s # r
    BY <2>1, <2>2, ProbeStep, RecoverStep DEF Moves
  <2>3. ASSUME NEW s \in Runs, Own(s), s # r
        PROVE  /\ {o \in objects \cup jobs : o[1] = r} \subseteq objects' \cup jobs'
               /\ \A key \in Keys :
                    items[key] # None /\ items[key].run = r /\ items[key].expires >= clock =>
                      items'[key] = items[key]
    BY <2>1, <2>3 DEF Own
  <2>4. CASE (\E key \in Keys : Removed(key)) \/ Tick \/ UNCHANGED vars
    <3>1. /\ UNCHANGED <<objects, jobs>>
          /\ \A key \in Keys : items'[key] # items[key] => items[key].expires < clock
      BY <2>1, <2>4, OutsideStep
    <3> QED
      BY <2>1, <3>1
  <2> QED
    BY <2>1, <2>2, <2>3, <2>4, StepKinds
<1> QED
  BY <1>1, SoundInit, SoundStep, PTL DEF Spec, ForeignUntouched

-----------------------------------------------------------------------------
(* What is swept stays swept.                                              *)

\* A step adds nothing that belongs to r.
Spares(r) ==
  /\ \A o \in objects' : o[1] = r => o \in objects
  /\ \A j \in jobs' : j[1] = r => j \in jobs
  /\ \A key \in Keys : items'[key] # None /\ items'[key].run = r => items'[key] = items[key]

\* A step that adds nothing of r leaves nothing where nothing was.
LEMMA StaysSwept ==
  ASSUME Sound, Sound', NEW r \in Runs, Spares(r)
  PROVE  /\ Nothing(r) => Nothing(r)'
         /\ \A c \in ToSet(Cases) :
              /\ ObjectsOf(r, c) = {} => ObjectsOf(r, c)' = {}
              /\ items[<<r, c>>] = None => items'[<<r, c>>] = None
              /\ Swept(r, c) => Swept(r, c)'
<1>1. Nothing(r) => Nothing(r)'
  BY DEF Nothing, Spares
<1>2. ASSUME NEW c \in ToSet(Cases)
      PROVE  /\ ObjectsOf(r, c) = {} => ObjectsOf(r, c)' = {}
             /\ items[<<r, c>>] = None => items'[<<r, c>>] = None
             /\ Swept(r, c) => Swept(r, c)'
  <2>1. <<r, c>> \in TestKeys /\ <<r, c>> \in Keys /\ <<r, c>>[1] = r
    BY KeysApart DEF Keys
  <2>2. items'[<<r, c>>] # None => items'[<<r, c>>].run = r
    BY <2>1 DEF Sound, Labelled
  <2>3. items[<<r, c>>] = None => items'[<<r, c>>] = None
    BY <2>1, <2>2 DEF Spares
  <2>4. ObjectsOf(r, c) = {} => ObjectsOf(r, c)' = {}
    BY DEF ObjectsOf, Spares
  <2>5. <<r, c>> \notin jobs => <<r, c>> \notin jobs'
    BY <2>1 DEF Spares
  <2> QED
    BY <2>3, <2>4, <2>5 DEF Swept
<1> QED
  BY <1>1, <1>2

\* Once a run has failed or passed, no step but its recovery's changes what is
\* said of it, and none adds anything of it.
LEMMA EndedRun ==
  ASSUME Sound, [Next]_vars, NEW r \in Runs, probe[r].at \in {"passed", "failed"}
  PROVE  /\ Spares(r) /\ probe'[r] = probe[r]
         /\ recovery'[r] = recovery[r] \/ Recover(r)
<1>1. TypeInv /\ Labelled /\ Dated
  BY DEF Sound
<1>2. OnlyTakes => Spares(r)
  BY DEF OnlyTakes, Spares
<1>3. ASSUME NEW s \in Runs, Probe(s)
      PROVE  Spares(r) /\ probe'[r] = probe[r] /\ recovery'[r] = recovery[r]
  <2>1. /\ Own(s) /\ Moves(s) /\ s # r
    BY <1>1, <1>3, ProbeStep
  <2> QED
    BY <2>1 DEF Own, Moves, Spares
<1>4. ASSUME NEW s \in Runs, Recover(s)
      PROVE  /\ Spares(r) /\ probe'[r] = probe[r]
             /\ recovery'[r] = recovery[r] \/ Recover(r)
  <2>1. OnlyTakes /\ Moves(s) /\ UNCHANGED probe
    BY <1>1, <1>4, RecoverStep
  <2> QED
    BY <1>2, <1>4, <2>1 DEF Moves
<1>5. CASE (\E key \in Keys : Removed(key)) \/ Tick \/ UNCHANGED vars
  <2>1. OnlyTakes /\ UNCHANGED <<probe, recovery>>
    BY <1>1, <1>5, OutsideStep
  <2> QED
    BY <1>2, <2>1
<1> QED
  BY <1>3, <1>4, <1>5, StepKinds

\* A recovery's place among the cases.
LEMMA CaseNumbers ==
  ASSUME TypeInv, NEW r \in Runs
  PROVE  /\ Len(Cases) \in Nat /\ recovery[r].case \in 1..Len(Cases)
         /\ \A j \in 1..(recovery[r].case - 1) : j \in 1..Len(Cases)
<1>1. Len(Cases) \in Nat
  BY QualificationConstants
<1>2. recovery[r].case \in 1..Len(Cases)
  BY DEF TypeInv, Recoverer
<1> QED
  BY <1>1, <1>2

\* All cases and the guard are all there is of a run.
LEMMA AllSwept ==
  ASSUME Sound, NEW r \in Runs, \A j \in 1..Len(Cases) : Swept(r, Cases[j]),
         items[Guard] # None => items[Guard].run # r
  PROVE  Nothing(r)
<1>1. \A c \in ToSet(Cases) : Swept(r, c)
  BY QualificationConstants DEF ToSet
<1>2. ASSUME NEW o \in objects, o[1] = r
      PROVE  FALSE
  <2>1. o[2] \in ToSet(Cases) /\ o \in ObjectsOf(r, o[2])
    BY <1>2 DEF Sound, TypeInv, ObjectsOf
  <2> QED
    BY <1>1, <2>1 DEF Swept
<1>3. ASSUME NEW j \in jobs, j[1] = r
      PROVE  FALSE
  <2>1. j = <<r, j[2]>> /\ j[2] \in ToSet(Cases)
    BY <1>3 DEF Sound, TypeInv, TestKeys
  <2> QED
    BY <1>1, <2>1 DEF Swept
<1>4. ASSUME NEW key \in Keys, items[key] # None, items[key].run = r
      PROVE  FALSE
  <2>1. key \in TestKeys
    BY <1>4 DEF Keys
  <2>2. key = <<r, key[2]>> /\ key[2] \in ToSet(Cases)
    BY <1>4, <2>1 DEF Sound, Labelled, TestKeys
  <2> QED
    BY <1>1, <1>4, <2>2 DEF Swept
<1> QED
  BY <1>2, <1>3, <1>4 DEF Nothing

\* The same after a step.
LEMMA AllSweptNext ==
  ASSUME Sound', NEW r \in Runs, \A j \in 1..Len(Cases) : Swept(r, Cases[j])',
         items'[Guard] # None => items'[Guard].run # r
  PROVE  Nothing(r)'
<1>1. \A c \in ToSet(Cases) : Swept(r, c)'
  BY QualificationConstants DEF ToSet
<1>2. ASSUME NEW o \in objects', o[1] = r
      PROVE  FALSE
  <2>1. o[2] \in ToSet(Cases) /\ o \in ObjectsOf(r, o[2])'
    BY <1>2 DEF Sound, TypeInv, ObjectsOf
  <2> QED
    BY <1>1, <2>1 DEF Swept
<1>3. ASSUME NEW j \in jobs', j[1] = r
      PROVE  FALSE
  <2>1. j = <<r, j[2]>> /\ j[2] \in ToSet(Cases)
    BY <1>3 DEF Sound, TypeInv, TestKeys
  <2> QED
    BY <1>1, <2>1 DEF Swept
<1>4. ASSUME NEW key \in Keys, items'[key] # None, items'[key].run = r
      PROVE  FALSE
  <2>1. key \in TestKeys
    BY <1>4 DEF Keys
  <2>2. key = <<r, key[2]>> /\ key[2] \in ToSet(Cases)
    BY <1>4, <2>1 DEF Sound, Labelled, TestKeys
  <2> QED
    BY <1>1, <1>4, <2>2 DEF Swept
<1> QED
  BY <1>2, <1>3, <1>4 DEF Nothing

\* A sweep that does not move stays where it is.
LEMMA SweptStays ==
  ASSUME Sound, Sound', NEW r \in Runs, Sweeping(r), Spares(r),
         recovery'[r] = recovery[r], probe'[r] = probe[r]
  PROVE  Sweeping(r)'
<1>1. /\ Len(Cases) \in Nat /\ recovery[r].case \in 1..Len(Cases)
      /\ \A j \in 1..Len(Cases) : Cases[j] \in ToSet(Cases)
      /\ \A j \in 1..(recovery[r].case - 1) : j \in 1..Len(Cases)
  BY CaseNumbers, CaseName DEF Sound
<1>2. \A j \in 1..Len(Cases) :
        /\ ObjectsOf(r, Cases[j]) = {} => ObjectsOf(r, Cases[j])' = {}
        /\ items[<<r, Cases[j]>>] = None => items'[<<r, Cases[j]>>] = None
        /\ Swept(r, Cases[j]) => Swept(r, Cases[j])'
  BY <1>1, StaysSwept
<1>3. Nothing(r) => Nothing(r)'
  BY StaysSwept
<1> QED
  BY <1>1, <1>2, <1>3 DEF Sweeping

\* A recovery sweeps on.
LEMMA SweepsOn ==
  ASSUME Sound, Sound', NEW r \in Runs, Sweeping(r), Spares(r), Recover(r)
  PROVE  Sweeping(r)'
<1> DEFINE p == recovery[r]
<1>0. PICK c \in ToSet(Cases) : c = Cases[p.case]
  BY CaseNumbers, CaseName DEF Sound
<1>1. TypeInv /\ Labelled /\ recovery \in [Runs -> Recoverer] /\ p \in Recoverer
  BY DEF Sound, TypeInv
<1>2. /\ Len(Cases) \in Nat /\ p.case \in 1..Len(Cases)
      /\ \A j \in 1..Len(Cases) : Cases[j] \in ToSet(Cases)
      /\ \A j \in 1..(p.case - 1) : Cases[j] \in ToSet(Cases)
  BY <1>1, CaseNumbers, CaseName
<1>3. UNCHANGED probe /\ (p.at # "idle" => probe[r].at = "failed")
  BY RecoverStep DEF Sound, Sweeping
<1>4. ASSUME NEW n \in Nat, n <= Len(Cases), \A j \in 1..n : Swept(r, Cases[j])
      PROVE  \A j \in 1..n : Swept(r, Cases[j])'
  <2>1. \A j \in 1..n : Cases[j] \in ToSet(Cases)
    BY <1>2, <1>4
  <2> QED
    BY <1>4, <2>1, StaysSwept
<1>5. ASSUME recovery'[r].at = "failed", p.at # "idle"
      PROVE  Sweeping(r)'
  BY <1>3, <1>5 DEF Sweeping
<1>6. CASE RecoverBegin(r)
  <2>1. recovery'[r].at = "versions" /\ recovery'[r].case = 1 /\ probe[r].at = "failed"
    BY <1>1, <1>6 DEF RecoverBegin
  <2> QED
    BY <1>3, <2>1 DEF Sweeping
<1>7. CASE RecoverVersions(r)
  <2>1. /\ p.at = "versions"
        /\ \/ /\ recovery' = [recovery EXCEPT ![r].at = "test"]
              /\ objects' = objects \ ObjectsOf(r, c)
           \/ recovery' = [recovery EXCEPT ![r].at = "failed"]
    BY <1>0, <1>7 DEF RecoverVersions
  <2>2. CASE recovery' = [recovery EXCEPT ![r].at = "failed"]
    BY <1>1, <1>5, <2>1, <2>2 DEF Recoverer
  <2>3. CASE /\ recovery' = [recovery EXCEPT ![r].at = "test"]
             /\ objects' = objects \ ObjectsOf(r, c)
    <3>1. recovery'[r].at = "test" /\ recovery'[r].case = p.case
      BY <1>1, <2>3 DEF Recoverer
    <3>2. ObjectsOf(r, c)' = {}
      BY <2>3 DEF ObjectsOf
    <3>3. \A j \in 1..(p.case - 1) : Swept(r, Cases[j])'
      BY <1>2, <1>4, <2>1 DEF Sweeping
    <3> QED
      BY <1>0, <1>3, <2>1, <3>1, <3>2, <3>3 DEF Sweeping
  <2> QED
    BY <2>1, <2>2, <2>3
<1>8. CASE RecoverItem(r)
  <2> DEFINE item == items[RecoveredKey(r)]
             next == recovery'[r].at
  <2>1. /\ p.at \in {"test", "guard"} /\ UNCHANGED <<items, objects, jobs>>
        /\ recovery'[r].case = p.case
        /\ next # "failed" =>
             \/ p.at = "test" /\ item = None /\ next = "job"
             \/ p.at = "test" /\ next = "untest"
             \/ p.at = "guard" /\ item = None /\ next = "passed"
             \/ p.at = "guard" /\ next = "unguard"
    BY <1>1, <1>8 DEF RecoverItem, Recoverer
  <2>2. CASE p.at = "test" /\ next \in {"job", "untest"}
    <3>1. /\ \A j \in 1..(p.case - 1) : Swept(r, Cases[j])'
          /\ ObjectsOf(r, c)' = {}
      BY <1>0, <1>2, <1>4, <2>2, StaysSwept DEF Sweeping
    <3>2. next = "job" => items'[<<r, c>>] = None
      BY <1>0, <2>1, <2>2 DEF RecoveredKey
    <3> QED
      BY <1>0, <1>3, <2>1, <2>2, <3>1, <3>2 DEF Sweeping
  <2>3. CASE p.at = "guard" /\ next \in {"passed", "unguard"}
    <3>1. \A j \in 1..Len(Cases) : Swept(r, Cases[j])'
      BY <1>2, <1>4, <2>3 DEF Sweeping
    <3>2. next = "passed" => items'[Guard] = None
      BY <2>1, <2>3 DEF RecoveredKey
    <3>3. next = "passed" => Nothing(r)'
      <4>1. ASSUME \A j \in 1..Len(Cases) : Swept(r, Cases[j]), items[Guard] = None
            PROVE  Nothing(r)
        BY <4>1, AllSwept
      <4>2. next = "passed" => Nothing(r)
        BY <2>1, <2>3, <3>2, <4>1 DEF Sweeping
      <4> QED
        BY <4>2, StaysSwept
    <3> QED
      BY <1>3, <2>1, <2>3, <3>1, <3>3 DEF Sweeping
  <2> QED
    BY <1>5, <2>1, <2>2, <2>3
<1>9. CASE ReleaseItem(r)
  <2> DEFINE next == recovery'[r].at
             key == RecoveredKey(r)
  <2>1. /\ p.at \in {"untest", "unguard"} /\ UNCHANGED <<objects, jobs>>
        /\ recovery'[r].case = p.case
        /\ next # "failed" =>
             /\ items' = [items EXCEPT ![key] = None]
             /\ next = IF p.at = "untest" THEN "job" ELSE "passed"
    BY <1>1, <1>9 DEF ReleaseItem, Recoverer
  <2>2. key \in Keys /\ items \in [Keys -> Leases \cup {None}]
    BY <1>1, RecoveredKeys DEF TypeInv
  <2>3. next # "failed" => items'[key] = None
    BY <2>1, <2>2
  <2>4. CASE p.at = "untest" /\ next = "job"
    <3>1. /\ \A j \in 1..(p.case - 1) : Swept(r, Cases[j])'
          /\ ObjectsOf(r, c)' = {}
      BY <1>0, <1>2, <1>4, <2>4, StaysSwept DEF Sweeping
    <3>2. items'[<<r, c>>] = None
      BY <1>0, <2>3, <2>4 DEF RecoveredKey
    <3> QED
      BY <1>0, <1>3, <2>1, <2>4, <3>1, <3>2 DEF Sweeping
  <2>5. CASE p.at = "unguard" /\ next = "passed"
    <3>1. \A j \in 1..Len(Cases) : Swept(r, Cases[j])
      BY <2>5 DEF Sweeping
    <3>2. \A j \in 1..Len(Cases) : Swept(r, Cases[j])'
      BY <1>2, <1>4, <3>1
    <3>3. items'[Guard] = None
      BY <2>3, <2>5 DEF RecoveredKey
    <3>4. Nothing(r)'
      BY <3>2, <3>3, AllSweptNext
    <3> QED
      BY <1>3, <2>5, <3>4 DEF Sweeping
  <2> QED
    BY <1>5, <2>1, <2>4, <2>5
<1>10. CASE RecoverJob(r)
  <2>1. p.at = "job" /\ jobs' = jobs \ {<<r, c>>} /\ UNCHANGED <<items, objects>>
    BY <1>0, <1>10 DEF RecoverJob
  <2>2. /\ \A j \in 1..(p.case - 1) : Swept(r, Cases[j])'
        /\ ObjectsOf(r, c)' = {} /\ items'[<<r, c>>] = None
    BY <1>0, <1>2, <1>4, <2>1, StaysSwept DEF Sweeping
  <2>3. Swept(r, c)'
    BY <2>1, <2>2 DEF Swept
  <2>4. \A j \in 1..p.case : Swept(r, Cases[j])'
    BY <1>0, <1>2, <2>2, <2>3
  <2>5. recovery' = [recovery EXCEPT ![r] = NextCase(p)]
    BY <1>10 DEF RecoverJob
  <2>6. CASE p.case = Len(Cases)
    <3>1. recovery'[r].at = "guard"
      BY <1>1, <2>5, <2>6 DEF NextCase, Recoverer
    <3> QED
      BY <1>3, <2>1, <2>4, <2>6, <3>1 DEF Sweeping
  <2>7. CASE p.case # Len(Cases)
    <3>1. recovery'[r].at = "versions" /\ recovery'[r].case = p.case + 1
      BY <1>1, <2>5, <2>7 DEF NextCase, Recoverer
    <3>2. recovery'[r].case - 1 = p.case
      BY <1>2, <3>1
    <3> QED
      BY <1>3, <2>1, <2>4, <3>1, <3>2 DEF Sweeping
  <2> QED
    BY <2>6, <2>7
<1>11. CASE RecoveryFails(r)
  <2>1. recovery'[r].at = "failed" /\ p.at # "idle"
    BY <1>1, <1>11 DEF RecoveryFails, Recoverer
  <2> QED
    BY <1>5, <2>1
<1> QED
  BY <1>6, <1>7, <1>8, <1>9, <1>10, <1>11 DEF Recover

\* The types, the labels, the sweeps and what has passed.
LEMMA ProbeInvStep ==
  ASSUME ProbeInv, [Next]_vars
  PROVE  ProbeInv'
<1>1. Sound /\ Sound'
  BY SoundStep DEF ProbeInv, Sound
<1>2. TypeInv /\ Labelled /\ Dated
  BY <1>1 DEF Sound
<1>3. ASSUME NEW r \in Runs
      PROVE  Sweeping(r)' /\ (probe'[r].at = "passed" => Nothing(r)')
  <2>1. Sweeping(r) /\ (probe[r].at = "passed" => Nothing(r))
    BY DEF ProbeInv
  <2>2. CASE probe[r].at \in {"passed", "failed"}
    <3>1. /\ Spares(r) /\ probe'[r] = probe[r]
          /\ recovery'[r] = recovery[r] \/ Recover(r)
      BY <1>1, <2>2, EndedRun
    <3>2. probe'[r].at = "passed" => Nothing(r)'
      BY <1>1, <2>1, <3>1, StaysSwept
    <3>3. CASE Recover(r)
      BY <1>1, <2>1, <3>1, <3>2, <3>3, SweepsOn
    <3>4. CASE recovery'[r] = recovery[r]
      BY <1>1, <2>1, <3>1, <3>4, SweptStays, <3>2
    <3> QED
      BY <3>1, <3>3, <3>4
  <2>3. CASE probe[r].at \notin {"passed", "failed"}
    <3>1. recovery[r].at = "idle"
      BY <2>1, <2>3 DEF Sweeping
    <3>2. ASSUME Recover(r)
          PROVE  FALSE
      BY <2>3, <3>1, <3>2 DEF Recover, RecoverBegin, RecoverVersions, RecoverItem, ReleaseItem,
                              RecoverJob, RecoveryFails
    <3>3. recovery'[r] = recovery[r]
      BY <1>2, <3>2, StepKinds, ProbeStep, RecoverStep, OutsideStep DEF Moves
    <3>4. Sweeping(r)'
      BY <3>1, <3>3 DEF Sweeping
    <3>5. ASSUME probe'[r].at = "passed"
          PROVE  Nothing(r)'
      <4>1. Probe(r)
        BY <1>2, <2>3, <3>2, <3>5, StepKinds, ProbeStep, RecoverStep, OutsideStep DEF Moves
      <4>2. InventoryClean /\ UNCHANGED <<items, objects, jobs>>
        BY <1>2, <3>5, <4>1, ProbeStep
      <4>3. DOMAIN items = Keys
        BY <1>2 DEF TypeInv
      <4> QED
        BY <4>2, <4>3 DEF InventoryClean, Nothing
    <3> QED
      BY <3>4, <3>5
  <2> QED
    BY <2>2, <2>3
<1> QED
  BY <1>1, <1>3 DEF ProbeInv, Sound

\* A run that reports PASSED, or whose recovery does, has left nothing in the
\* account, whatever failed on the way (run_capability, run_recovery).
THEOREM NothingLeftBehindHolds == Spec => []NothingLeftBehind
<1>1. Init => ProbeInv
  <2>1. Init => \A r \in Runs : probe[r].at = "idle" /\ recovery[r].at = "idle"
    BY DEF Init
  <2> QED
    BY <2>1, SoundInit DEF Sound, ProbeInv, Sweeping
<1>2. ProbeInv => NothingLeftBehind
  <2> SUFFICES ASSUME ProbeInv, NEW r \in Runs, "passed" \in {probe[r].at, recovery[r].at}
               PROVE  /\ \A o \in objects \cup jobs : o[1] # r
                      /\ \A key \in DOMAIN items : items[key] # None => items[key].run # r
    BY DEF NothingLeftBehind
  <2>1. Nothing(r)
    BY DEF ProbeInv, Sweeping
  <2>2. DOMAIN items = Keys
    BY DEF ProbeInv, TypeInv
  <2> QED
    BY <2>1, <2>2 DEF Nothing
<1> QED
  BY <1>1, <1>2, ProbeInvStep, PTL DEF Spec
=============================================================================
