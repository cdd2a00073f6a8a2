----------------------------- MODULE Authority ------------------------------
(***************************************************************************)
(* What a metadata authority promises, whichever store keeps it: runs are  *)
(* registered once, one attempt at a time holds a run, a released attempt  *)
(* is out for good, and each namespace has one history of commits that is  *)
(* only extended, at its end, by the holder of an uncommitted run.         *)
(*                                                                         *)
(* LocalAuthority (SQLite) and DynamoAuthority (conditional writes) both   *)
(* implement this specification.  Each of its actions takes effect at      *)
(* once; a caller may or may not learn of it.                              *)
(***************************************************************************)
EXTENDS Integers, Sequences

CONSTANTS
  Namespaces, RunIds, Identities, AttemptIds, Owners, Preparations,
  Fences,   \* fencing numbers
  None      \* no registration, no holder

VARIABLES
  registration,  \* run_id -> its namespace and identity, or None
  holder,        \* run_id -> the attempt that owns the open run, or None
  released,      \* attempts that gave up their run
  history,       \* namespace -> its commits, first to last
  issued,        \* attempts a caller has been told it holds
  acknowledged   \* digests a caller has been told are committed

vars == <<registration, holder, released, history, issued, acknowledged>>

Attempt ==
  [namespace : Namespaces, run_id : RunIds, identity : Identities,
   attempt_id : AttemptIds, owner : Owners, fence : Fences]

Registration == [namespace : Namespaces, identity : Identities]
Entry == [attempt : Attempt, preparation : Preparations]

\* A digest names a commit together with everything before it.
Digests(ns) == {SubSeq(history[ns], 1, n) : n \in 1..Len(history[ns])}

CommittedAttempts ==
  UNION {{history[ns][n].attempt : n \in 1..Len(history[ns])} : ns \in Namespaces}

Granted ==
  (released \cup CommittedAttempts \cup {holder[r] : r \in RunIds}) \ {None}

Told(known, value, delivered) == IF delivered THEN known \cup {value} ELSE known

Init ==
  /\ registration = [r \in RunIds |-> None]
  /\ holder = [r \in RunIds |-> None]
  /\ released = {}
  /\ history = [ns \in Namespaces |-> <<>>]
  /\ issued = {}
  /\ acknowledged = {}

Register(r, reg) ==
  /\ registration[r] = None
  /\ registration' = [registration EXCEPT ![r] = reg]
  /\ UNCHANGED <<holder, released, history, issued, acknowledged>>

\* A new attempt of an open run that nobody holds, with a name new to the run
\* and a fence new to the namespace.
Admit(t, delivered) ==
  /\ registration[t.run_id] = [namespace |-> t.namespace, identity |-> t.identity]
  /\ holder[t.run_id] = None
  /\ \A u \in CommittedAttempts : u.run_id # t.run_id
  /\ \A u \in Granted :
       /\ <<u.run_id, u.attempt_id>> # <<t.run_id, t.attempt_id>>
       /\ <<u.namespace, u.fence>> # <<t.namespace, t.fence>>
  /\ holder' = [holder EXCEPT ![t.run_id] = t]
  /\ issued' = Told(issued, t, delivered)
  /\ UNCHANGED <<registration, released, history, acknowledged>>

\* An attempt of a registered run.
NewAttempt(r, a, o, f) ==
  [namespace |-> registration[r].namespace, run_id |-> r,
   identity |-> registration[r].identity, attempt_id |-> a, owner |-> o, fence |-> f]

\* The answer to a repeated admission.
Reissue(t) ==
  /\ holder[t.run_id] = t
  /\ issued' = issued \cup {t}
  /\ UNCHANGED <<registration, holder, released, history, acknowledged>>

Release(t) ==
  /\ holder[t.run_id] = t
  /\ holder' = [holder EXCEPT ![t.run_id] = None]
  /\ released' = released \cup {t}
  /\ UNCHANGED <<registration, history, issued, acknowledged>>

Publish(t, preparation, delivered) ==
  LET line == Append(history[t.namespace],
                     [attempt |-> t, preparation |-> preparation])
  IN /\ holder[t.run_id] = t
     /\ holder' = [holder EXCEPT ![t.run_id] = None]
     /\ history' = [history EXCEPT ![t.namespace] = line]
     /\ acknowledged' = Told(acknowledged, line, delivered)
     /\ UNCHANGED <<registration, released, issued>>

\* The answer to a repeated publication or registration of a committed run.
Confirm(ns, d) ==
  /\ d \in Digests(ns)
  /\ acknowledged' = acknowledged \cup {d}
  /\ UNCHANGED <<registration, holder, released, history, issued>>

Next ==
  \/ \E r \in RunIds, reg \in Registration : Register(r, reg)
  \/ \E r \in RunIds :
       /\ registration[r] # None /\ holder[r] = None
       /\ \E a \in AttemptIds, o \in Owners, f \in Fences, delivered \in BOOLEAN :
            Admit(NewAttempt(r, a, o, f), delivered)
  \/ \E r \in RunIds : holder[r] # None /\ (Reissue(holder[r]) \/ Release(holder[r]))
  \/ \E r \in RunIds, preparation \in Preparations, delivered \in BOOLEAN :
       holder[r] # None /\ Publish(holder[r], preparation, delivered)
  \/ \E ns \in Namespaces : \E d \in Digests(ns) : Confirm(ns, d)

Spec == Init /\ [][Next]_vars
=============================================================================
