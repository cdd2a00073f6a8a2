----------------------------- MODULE Snapshots ------------------------------
(***************************************************************************)
(* FinancialSnapshots of ledgerguard_control/publication.py over           *)
(* S3ImmutableObjects (aws_objects.py): writers seal the files of a        *)
(* finalization store into content-addressed objects, request by request,  *)
(* and a reader restores them.  Two writers may seal stores that share     *)
(* files; a request may fail before or after it took effect, or land after *)
(* its writer gave up; somebody else may overwrite or delete objects.      *)
(*                                                                         *)
(* A body stands for its digest: an object's key is the body it ought to   *)
(* hold, and a read that the digest confirms returns that body.  Chunk     *)
(* sizes are left out: an offset counts chunks.  A version                 *)
(* never changes, so the listing of an object's versions decides what the  *)
(* read after it returns, and both are one step.                           *)
(***************************************************************************)
EXTENDS Integers, SequencesExt

CONSTANTS
  Writers,
  StoreOf,       \* writer -> the store it seals: its files and its head
  HeadPath,      \* control/HEAD
  PageItems,     \* PAGE_ITEMS: 32 in the code
  MaxDepth,      \* deepest index page that _entries reads: 32 in the code
  Dash, Slash,   \* places of "-" and "/" in the order of characters
  MaxTampering, MaxRaises,  \* bounds on foreign writes and failed requests
  None

ASSUME SnapshotConstants ==
  /\ PageItems \in Nat \ {0, 1}
  /\ {MaxDepth, Dash, Slash, MaxTampering, MaxRaises} \subseteq Nat
  /\ Dash < Slash

VARIABLES
  versions,  \* key -> its versions, oldest first
  late,      \* keys whose conditional put is still in flight
  tampered,  \* history: keys somebody else wrote or deleted
  raises,    \* history: requests that failed
  seal,      \* writer -> where its seal is
  open       \* where the reader is

vars == <<versions, late, tampered, raises, seal, open>>

-----------------------------------------------------------------------------
(* Names.  A path is a sequence of names and a name one of characters,     *)
(* given by their places in the character order.                           *)

Precedes(s, t, less(_, _)) ==
  \/ IsStrictPrefix(s, t)
  \/ \E k \in DOMAIN s \cap DOMAIN t :
       SubSeq(s, 1, k - 1) = SubSeq(t, 1, k - 1) /\ less(s[k], t[k])

\* A string comparison of two posix paths.
Text(path) == FlattenSeq([k \in DOMAIN path |-> <<Slash>> \o path[k]])
TextBefore(p, q) == Precedes(Text(p), Text(q), <)

\* sorted() on Path objects compares them name by name.
NameBefore(m, n) == Precedes(m, n, <)
PathBefore(p, q) == Precedes(p, q, NameBefore)

-----------------------------------------------------------------------------
(* Objects.                                                                *)

HistoryOf(key) == IF key \in DOMAIN versions THEN versions[key] ELSE <<>>

\* A version is the bytes that the key names, other bytes or a delete marker.
Version == {"named", "other", "deleted"}

\* S3 holds a current object unless the newest version is a delete marker.
Current(key) == HistoryOf(key) # <<>> /\ Last(HistoryOf(key)) # "deleted"

WithHistory(key, history) ==
  [k \in DOMAIN versions \cup {key} |-> IF k = key THEN history ELSE versions[k]]

Appended(key, version) == WithHistory(key, Append(HistoryOf(key), version))

\* A put without a condition.
PutAnyway(key) == Appended(key, "named")

\* A put with IfNoneMatch: nothing is written over a current object.
PutIfAbsent(key) ==
  IF Current(key) THEN versions ELSE Appended(key, "named")

\* The history that put_immutable and _get accept: one version, not deleted,
\* with the bytes that the address names.
Intact(key) == HistoryOf(key) = <<"named">>

-----------------------------------------------------------------------------
(* seal.                                                                   *)

Chunk(data) == [kind |-> "chunk", data |-> data]
Page(rows) == [kind |-> "entries", rows |-> rows]
Node(rows) == [kind |-> "children", rows |-> rows]
Root(head, index) == [kind |-> "root", head |-> head, index |-> index]

\* One entry for each chunk of each file.
FileEntries(file) ==
  [k \in DOMAIN file.chunks |->
     [path |-> file.path, offset |-> k - 1, digest |-> Chunk(file.chunks[k])]]

\* sorted(): every file comes after the files that are before it.
Sorted(files) ==
  [k \in 1..Cardinality(files) |->
     CHOOSE f \in files : Cardinality({g \in files : PathBefore(g.path, f.path)}) = k - 1]

EntriesOf == [w \in Writers |->
  LET files == Sorted(StoreOf[w].files)
  IN FlattenSeq([k \in DOMAIN files |-> FileEntries(files[k])])]

\* The entries that an index holds whose pages are no deeper than d.
Capacity[d \in Nat] == IF d = 0 THEN PageItems ELSE PageItems * Capacity[d - 1]

\* What seal makes sure of: verify_history and read_head pass, no file is empty,
\* FILE_PATH admits every name.  Of two names in one directory of which one
\* extends the other, it goes on with a dash, a letter or a digit.
ASSUME StoresAreCommitted ==
  \A w \in Writers : LET files == StoreOf[w].files IN
    /\ IsFiniteSet(files)
    /\ \A f \in files : f \in [path : Seq(Seq(Nat)), chunks : Seq(ToSet(f.chunks)) \ {<<>>}]
    /\ \A f, g \in files : f.path = g.path => f = g
    /\ [path |-> HeadPath, chunks |-> <<StoreOf[w].head>>] \in files
    /\ \A f, g \in files : \A k \in DOMAIN f.path \cap DOMAIN g.path :
         /\ SubSeq(f.path, 1, k - 1) = SubSeq(g.path, 1, k - 1)
         /\ IsStrictPrefix(f.path[k], g.path[k])
         => g.path[k][Len(f.path[k]) + 1] \in {Dash} \cup {c \in Nat : c > Slash}

\* In the code 32^33 entries of 64 KiB each.
ASSUME StoresFitTheIndex ==
  \A w \in Writers : \E d \in 0..MaxDepth : Len(EntriesOf[w]) <= Capacity[d]

Idle == [at |-> "idle"]

\* A seal goes on to put a body; `into' is the level that takes its digest.
Putting(s, body, into) == [s EXCEPT !.at = "put", !.wanted = body, !.into = into]

\* The index is cut off at its last level.
ClimbTop(w, s) ==
  LET rows == Last(s.levels)
  IN IF Len(rows) = 1 THEN Putting(s, Root(StoreOf[w].head, rows[1]), 0)
     ELSE Putting(s, Node(rows), 0)

\* After the last page: push what is left of each level into the next one.
Climb(w, s) ==
  LET top == Len(s.levels)
      level == CHOOSE l \in s.level..top :
                 /\ s.levels[l] # <<>>
                 /\ \A m \in s.level..(l - 1) : s.levels[m] = <<>>
      rows == s.levels[level]
  IN IF level = top /\ Len(rows) = 1
     THEN Putting(s, Root(StoreOf[w].head, rows[1]), 0)
     ELSE Putting([s EXCEPT !.level = level + 1], Node(rows), IF level = top THEN 0 ELSE level + 1)

\* The next body: a full or last page, the next chunk, or the index.
Proceed(w, s) ==
  IF Len(s.page) = PageItems \/ (s.todo = <<>> /\ s.page # <<>>)
  THEN Putting(s, Page(s.page), 1)
  ELSE IF s.todo # <<>> THEN Putting(s, Head(s.todo).digest, 0) ELSE Climb(w, s)

\* add of _tree.
Add(w, s, digest, level) ==
  LET levels == IF level > Len(s.levels) THEN Append(s.levels, <<digest>>)
                ELSE [s.levels EXCEPT ![level] = Append(@, digest)]
  IN IF Len(levels[level]) = PageItems
     THEN Putting([s EXCEPT !.levels = [levels EXCEPT ![level] = <<>>]],
                  Node(levels[level]), level + 1)
     ELSE Proceed(w, [s EXCEPT !.levels = levels])

\* After put_immutable returned the digest of what was wanted.
Advance(w, s) ==
  CASE s.wanted.kind = "chunk" ->
         Proceed(w, [s EXCEPT !.page = Append(@, Head(s.todo)), !.todo = Tail(@)])
    [] s.wanted.kind = "entries" -> Add(w, [s EXCEPT !.page = <<>>], s.wanted, 1)
    [] s.wanted.kind = "children" /\ s.into # 0 -> Add(w, s, s.wanted, s.into)
    [] s.wanted.kind = "children" /\ s.into = 0 ->
         Putting(s, Root(StoreOf[w].head, s.wanted), 0)
    [] s.wanted.kind = "root" -> [s EXCEPT !.at = "sealed"]

\* A verified store with a commit is sealed from its first file on.
BeginSeal(w) ==
  /\ seal[w].at = "idle"
  /\ seal' = [seal EXCEPT ![w] =
       Proceed(w, [at |-> "begin", wanted |-> None, into |-> 0, todo |-> EntriesOf[w],
                   page |-> <<>>, levels |-> << <<>> >>, level |-> 1])]
  /\ UNCHANGED <<versions, late, tampered, raises, open>>

\* put_object lands; its answer, or that the condition failed, comes back.
Put(w) ==
  /\ seal[w].at = "put"
  /\ versions' = PutIfAbsent(seal[w].wanted)
  /\ seal' = [seal EXCEPT ![w].at = "verify"]
  /\ UNCHANGED <<late, tampered, raises, open>>

\* _exact_history and the read of the one version.
Verify(w) ==
  /\ seal[w].at = "verify"
  /\ seal' = [seal EXCEPT ![w] =
       IF Intact(@.wanted) THEN Advance(w, @) ELSE [@ EXCEPT !.at = "refused"]]
  /\ UNCHANGED <<versions, late, tampered, raises, open>>

\* Any other error ends the seal; its put may still land.  PreparePublication
\* is called again and seals the same store from the beginning.
Raise(w) ==
  /\ seal[w].at \in {"put", "verify"}
  /\ raises < MaxRaises
  /\ raises' = raises + 1
  /\ late' \in {late} \cup {late \cup {k \in {seal[w].wanted} : seal[w].at = "put"}}
  /\ seal' = [seal EXCEPT ![w] = Idle]
  /\ UNCHANGED <<versions, tampered, open>>

Land(key) ==
  /\ versions' = PutIfAbsent(key)
  /\ late' = late \ {key}
  /\ UNCHANGED <<tampered, raises, seal, open>>

\* Somebody else writes other bytes, the same bytes or a delete marker, or
\* deletes one version for good.
TamperedHistories(key) ==
  {Append(HistoryOf(key), version) : version \in Version}
    \cup {RemoveAt(HistoryOf(key), n) : n \in DOMAIN HistoryOf(key)}

Tamper(key) ==
  /\ Cardinality(tampered) < MaxTampering
  /\ \E history \in TamperedHistories(key) : versions' = WithHistory(key, history)
  /\ tampered' = tampered \cup {key}
  /\ UNCHANGED <<late, raises, seal, open>>

-----------------------------------------------------------------------------
(* open_snapshot, one _get a step.                                         *)

\* What is still to be read: index pages with their depth, and entries.
IndexItem(digest, depth) == [digest |-> digest, depth |-> depth]
EntryItem(entry) == [entry |-> entry]

BeginOpen(w) ==
  /\ open = Idle
  /\ seal[w].at = "sealed"
  /\ open' = [at |-> "root", looked |-> seal[w].wanted, todo |-> <<>>, files |-> <<>>,
              root |-> seal[w].wanted]
  /\ UNCHANGED <<versions, late, tampered, raises, seal>>

Refuse(key) == open' = [open EXCEPT !.at = "refused", !.looked = key]

ReadRoot ==
  /\ open.at = "root"
  /\ IF Intact(open.root)
     THEN open' = [open EXCEPT !.at = "walk",
                               !.todo = <<IndexItem(open.root.index, 0)>>]
     ELSE Refuse(open.root)
  /\ UNCHANGED <<versions, late, tampered, raises, seal>>

\* A page is replaced by what it lists.
ReadIndex ==
  /\ open.at = "walk" /\ open.todo # <<>> /\ "digest" \in DOMAIN Head(open.todo)
  /\ LET item == Head(open.todo)
         body == item.digest
     IN IF item.depth <= MaxDepth /\ Intact(item.digest)
        THEN open' = [open EXCEPT !.todo =
               [k \in DOMAIN body.rows |->
                  IF body.kind = "entries" THEN EntryItem(body.rows[k])
                  ELSE IndexItem(body.rows[k], item.depth + 1)] \o Tail(@)]
        ELSE Refuse(item.digest)
  /\ UNCHANGED <<versions, late, tampered, raises, seal>>

\* The files restored so far with one more chunk.
Restored(files, entry, data) ==
  IF entry.offset = 0 THEN Append(files, [path |-> entry.path, chunks |-> <<data>>])
  ELSE [files EXCEPT ![Len(files)].chunks = Append(@, data)]

\* Paths may not go back, and the chunks of a file come in order.
InOrder(files, entry) ==
  IF files # <<>> /\ Last(files).path = entry.path
  THEN entry.offset = Len(Last(files).chunks)
  ELSE entry.offset = 0 /\ (files = <<>> \/ ~TextBefore(entry.path, Last(files).path))

ReadEntry ==
  /\ open.at = "walk" /\ open.todo # <<>> /\ "entry" \in DOMAIN Head(open.todo)
  /\ LET entry == Head(open.todo).entry IN
     IF InOrder(open.files, entry) /\ Intact(entry.digest)
     THEN open' = [open EXCEPT !.files = Restored(@, entry, entry.digest.data),
                               !.todo = Tail(@)]
     ELSE Refuse(entry.digest)
  /\ UNCHANGED <<versions, late, tampered, raises, seal>>

\* read_head of the restored store.  verify_history, which seal ran on the
\* same files, could only refuse more.
Opened ==
  /\ open.at = "walk" /\ open.todo = <<>>
  /\ IF [path |-> HeadPath, chunks |-> <<open.root.head>>] \in ToSet(open.files)
     THEN open' = [open EXCEPT !.at = "opened"]
     ELSE Refuse(open.root)
  /\ UNCHANGED <<versions, late, tampered, raises, seal>>

-----------------------------------------------------------------------------
Init ==
  /\ versions = <<>>
  /\ late = {}
  /\ tampered = {}
  /\ raises = 0
  /\ seal = [w \in Writers |-> Idle]
  /\ open = Idle

Wanted == {seal[w].wanted : w \in {w \in Writers : seal[w].at \in {"put", "verify"}}}

Next ==
  \/ \E w \in Writers : BeginSeal(w) \/ Put(w) \/ Verify(w) \/ Raise(w) \/ BeginOpen(w)
  \/ \E key \in late : Land(key)
  \/ \E key \in Wanted \cup DOMAIN versions : Tamper(key)
  \/ ReadRoot \/ ReadIndex \/ ReadEntry \/ Opened

Spec == Init /\ [][Next]_vars
-----------------------------------------------------------------------------
\* A snapshot that opens is the store that was sealed: every file, with every
\* chunk in its place, whatever was raised, repeated or tampered with and
\* however the index pages were cut (open_snapshot never returns a part).
OpensWhatWasSealed ==
  open.at = "opened" =>
    \A w \in Writers :
      seal[w].at = "sealed" /\ seal[w].wanted = open.root =>
        /\ ToSet(open.files) = StoreOf[w].files
        /\ Len(open.files) = Cardinality(StoreOf[w].files)

\* Two names in one directory, one of which is the other, a dash and more.
DashExtends(store) ==
  \E f, g \in store.files : \E k \in DOMAIN f.path \cap DOMAIN g.path :
    /\ SubSeq(f.path, 1, k - 1) = SubSeq(g.path, 1, k - 1)
    /\ IsPrefix(Append(f.path[k], Dash), g.path[k])

\* Nothing is refused without a reason: racing or repeated seals of shared
\* content never spoil each other's objects, and a reader gives up only on an
\* object that somebody else touched or, as SealedReopens shows, on a name
\* that extends another by a dash.
OnlyTamperingRefuses ==
  /\ \A w \in Writers : seal[w].at = "refused" => seal[w].wanted \in tampered
  /\ open.at = "refused" =>
       \/ open.looked \in tampered
       \/ \E w \in Writers : seal[w].at = "sealed" /\ seal[w].wanted = open.root
            /\ DashExtends(StoreOf[w])

\* What was sealed can be restored as long as nobody touches its objects
\* (docs/part3-stage5-execution-checkpoint.md: snapshots "seal and restore
\* the actual accepted FinalizationStore").
SealedReopens == open.at = "refused" => open.looked \in tampered
=============================================================================
