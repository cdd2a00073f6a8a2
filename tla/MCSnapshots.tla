---------------------------- MODULE MCSnapshots -----------------------------
(* Instances of Snapshots for TLC.  The large store fills a level of the     *)
(* index, carries a page over and ends with a level of two; the small one    *)
(* shares chunks with it and has an attempt whose name extends another's.    *)
EXTENDS Snapshots

CONSTANTS large, small, c1, c2, c3, h1, h2

MCDash == 1
MCSlash == 2

attempts == <<10>>
commits == <<11>>
control == <<12>>
objects == <<13>>
outcome == <<5>>
request == <<6>>
attempt == <<7>>
object == <<8>>
attemptDash == <<7, MCDash, 7>>

MCHeadPath == <<control, attempt>>

File(path, chunks) == [path |-> path, chunks |-> chunks]

Small ==
  {File(<<attempts, attempt, outcome>>, <<c1>>),
   File(<<attempts, attemptDash, outcome>>, <<c2>>),
   File(MCHeadPath, <<h1>>)}

\* Two of its files have the same bytes, and so the same object.
Large ==
  {File(<<attempts, attempt, outcome>>, <<c1>>),
   File(<<attempts, attempt, request>>, <<c2>>),
   File(<<commits, attempt>>, <<c3>>),
   File(MCHeadPath, <<h2>>),
   File(<<objects, attempt>>, <<c1, c2, c2>>),
   File(<<objects, object>>, <<c3>>),
   File(<<objects, request>>, <<c1, c3>>)}

MCStoreOf == [w \in Writers |-> IF w = small THEN [files |-> Small, head |-> h1]
                                ELSE [files |-> Large, head |-> h2]]
=============================================================================
