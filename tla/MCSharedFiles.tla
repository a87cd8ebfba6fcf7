--------------------------- MODULE MCSharedFiles ---------------------------
(***************************************************************************)
(* Three files that commands replace and read without a common lock: the   *)
(* lessons store, which a compaction overwrites in place, the table of     *)
(* cached contents, and the codebase intelligence.  A behaviour is about   *)
(* one of them.                                                            *)
(***************************************************************************)
EXTENDS LessonsStore, FileCache, CodebaseIntel, TLC

CONSTANTS a, b, c, d, v1

\* a and b share a root cause; the others have one of their own.
MCCause == [e \in Entries |-> IF e = b THEN a ELSE e]

VARIABLE subject        \* what this behaviour is about

\* The source files all have the same content to begin with.
MCInit ==
  /\ LessonInit /\ CacheInit /\ IntelInit /\ tree = [s \in Sources |-> v1]
  /\ \/ subject \in {"lessons", "cache"} /\ intel = Blank
     \/ subject = "intel"

MCNext ==
  /\ \/ subject = "lessons" /\ LessonNext /\ UNCHANGED <<cacheVars, intelVars>>
     \/ subject = "cache" /\ CacheNext /\ UNCHANGED <<lessonVars, intelVars>>
     \/ subject = "intel" /\ IntelNext /\ UNCHANGED <<lessonVars, cacheVars>>
  /\ UNCHANGED subject

MCSpec == MCInit /\ [][MCNext]_<<lessonVars, cacheVars, intelVars, subject>>

\* The clients of the cache and the analysts are the same processes; no file is special.
Symmetry == Permutations(Procs) \cup Permutations(Paths)
=============================================================================
