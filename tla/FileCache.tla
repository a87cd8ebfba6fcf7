------------------------------ MODULE FileCache ------------------------------
(***************************************************************************)
(* cachedReadFile (src/lib/helpers.js) over the SQLite backend of          *)
(* CacheEngine (src/lib/cache.js): one table for every process of a user.  *)
(* A row is believed when its mtime is not older than the file's, and      *)
(* whoever writes a file through the tool deletes its row afterwards.      *)
(*                                                                         *)
(* Every file system call and every SQL statement is a step of its own.    *)
(* The content of a file is a version; an mtime is a number that a later   *)
(* write of the file does not decrease: two writes in one tick of the file *)
(* system's clock have the same.  Which row is the oldest depends on clock *)
(* readings that may tie, and is left open.                                *)
(*                                                                         *)
(* Any statement may throw (the database is busy), and every method of     *)
(* CacheEngine swallows that; a process may die between two steps.         *)
(***************************************************************************)
EXTENDS Naturals, FiniteSets

CONSTANTS Clients,      \* processes
          Paths,        \* files they read and write
          MaxSize,      \* rows the cache may hold (1000 in the code)
          MaxWrites,    \* writes of each file (bound)
          TagStores,    \* processes whose node:sqlite has createTagStore (Node 24.9)
          None

ASSUME FileCacheConstants ==
  /\ MaxSize \in Nat \ {0} /\ MaxWrites \in Nat
  /\ TagStores \subseteq Clients /\ IsFiniteSet(Paths)

Versions == [ver : 0..MaxWrites, mtime : 0..MaxWrites]

\* A row; `left` is history: a write of the file left it behind.
Rows == [ver : 0..MaxWrites, mtime : 0..MaxWrites, left : BOOLEAN]
ASSUME NoneNoFile == None \notin Paths /\ None \notin Rows
ASSUME NoneNoClient == None \notin Clients

VARIABLES disk,         \* each file: its version and mtime
          table,        \* the table file_cache
          stage,        \* where each process stands
          target,       \* the file each process reads or writes
          inHand,       \* the row or the content each process has in hand
          victim,       \* the row each process is about to evict
          overtaken,    \* history: files written while a process looked them up
          crowded       \* history: two processes were about to insert at once

racedVars == <<overtaken, crowded>>
cacheVars == <<disk, table, stage, target, inHand, victim, racedVars>>

Stages == {"none", "stat", "drop", "read", "date", "count", "evict", "insert",
          "invalidate"}

CacheTypeOK ==
  /\ disk \in [Paths -> Versions]
  /\ table \in [Paths -> Rows \cup {None}]
  /\ stage \in [Clients -> Stages]
  /\ target \in [Clients -> Paths \cup {None}]
  /\ inHand \in [Clients -> Rows \cup {None}]
  /\ victim \in [Clients -> Paths \cup {None}]
  /\ overtaken \in SUBSET Paths /\ crowded \in BOOLEAN

CacheInit ==
  /\ disk = [f \in Paths |-> [ver |-> 0, mtime |-> 0]]
  /\ table = [f \in Paths |-> None]
  /\ stage = [p \in Clients |-> "none"]
  /\ target = [p \in Clients |-> None]
  /\ inHand = [p \in Clients |-> None]
  /\ victim = [p \in Clients |-> None]
  /\ overtaken = {} /\ crowded = FALSE

Turns(p, s) == stage' = [stage EXCEPT ![p] = s]
Returns(p) ==
  /\ Turns(p, "none")
  /\ target' = [target EXCEPT ![p] = None] /\ inHand' = [inHand EXCEPT ![p] = None]
Cached == {f \in Paths : table[f] # None}

\* History: f is overtaken if another process stands at one of these steps with f.
Overtake(p, f, steps) ==
  /\ overtaken' = IF \E q \in Clients \ {p} : target[q] = f /\ stage[q] \in steps
                    THEN overtaken \cup {f} ELSE overtaken
  /\ UNCHANGED crowded
-----------------------------------------------------------------------------
\* get: look the row up.  No row is a miss, and so is a statement that throws; with
\* a tag store it always does: it is an arrow function, which has no method `get`.
Get(p, f) ==
  /\ stage[p] = "none"
  /\ target' = [target EXCEPT ![p] = f]
  /\ \/ Turns(p, "read") /\ UNCHANGED inHand
     \/ /\ p \notin TagStores /\ table[f] # None
        /\ Turns(p, "stat") /\ inHand' = [inHand EXCEPT ![p] = table[f]]
  /\ Overtake(p, f, {"invalidate"})
  /\ UNCHANGED <<disk, table, victim>>

\* warm: read a file and put it into the cache, whatever is there.
Warm(p, f) ==
  /\ stage[p] = "none"
  /\ target' = [target EXCEPT ![p] = f]
  /\ Turns(p, "read")
  /\ Overtake(p, f, {"invalidate"})
  /\ UNCHANGED <<disk, table, inHand, victim>>

Miss(p) == Turns(p, "read") /\ inHand' = [inHand EXCEPT ![p] = None] /\ UNCHANGED target

\* get, second half: a file newer than its row makes the row stale; otherwise
\* the row's value is what cachedReadFile returns, once its access is recorded.
Stat(p) ==
  /\ stage[p] = "stat"
  /\ IF disk[target[p]].mtime > inHand[p].mtime
       THEN Turns(p, "drop") /\ UNCHANGED <<target, inHand>>
       ELSE Returns(p) \/ Miss(p)
  /\ UNCHANGED <<disk, table, victim, racedVars>>

\* The stale row is deleted, if it can be, then the file is read.
DropStale(p) ==
  /\ stage[p] = "drop"
  /\ table' = [table EXCEPT ![target[p]] = None] \/ UNCHANGED table
  /\ Miss(p)
  /\ UNCHANGED <<disk, victim, racedVars>>

\* safeReadFile.
ReadFile(p) ==
  /\ stage[p] = "read"
  /\ inHand' = [inHand EXCEPT ![p] = [ver |-> disk[target[p]].ver, left |-> FALSE,
                                      mtime |-> disk[target[p]].mtime]]
  /\ Turns(p, "date")
  /\ UNCHANGED <<disk, table, target, victim, racedVars>>

\* set: ask for the file's mtime now, after its content was read.
DateRow(p) ==
  /\ stage[p] = "date"
  /\ inHand' = [inHand EXCEPT ![p].mtime = disk[target[p]].mtime]
  /\ Turns(p, "count")
  /\ UNCHANGED <<disk, table, target, victim, racedVars>>

\* History: is another process between its count and its insert?
Crowd(p) ==
  /\ crowded' = (crowded \/ \E q \in Clients \ {p} : stage[q] \in {"evict", "insert"})
  /\ UNCHANGED overtaken

\* Mutant: > for >=.
CountLate(p) ==
  /\ stage[p] = "count"
  /\ IF Cardinality(Cached) > MaxSize
       THEN \E k \in Cached : victim' = [victim EXCEPT ![p] = k] /\ Turns(p, "evict")
       ELSE Turns(p, "insert") /\ UNCHANGED victim
  /\ Crowd(p)
  /\ UNCHANGED <<disk, table, target, inHand>>

\* set: is the table full?  Then its oldest row must go.
Count(p) ==
  /\ stage[p] = "count"
  /\ IF Cardinality(Cached) >= MaxSize
       THEN \E k \in Cached : victim' = [victim EXCEPT ![p] = k] /\ Turns(p, "evict")
       ELSE Turns(p, "insert") /\ UNCHANGED victim
  /\ Crowd(p)
  /\ UNCHANGED <<disk, table, target, inHand>>

Evict(p) ==
  /\ stage[p] = "evict"
  /\ table' = [table EXCEPT ![victim[p]] = None]
  /\ victim' = [victim EXCEPT ![p] = None]
  /\ Turns(p, "insert")
  /\ UNCHANGED <<disk, target, inHand, racedVars>>

\* INSERT OR REPLACE; the content read is what cachedReadFile returns.
Insert(p) ==
  /\ stage[p] = "insert"
  /\ table' = [table EXCEPT ![target[p]] = inHand[p]]
  /\ Returns(p)
  /\ UNCHANGED <<disk, victim, racedVars>>
-----------------------------------------------------------------------------
Lookup == {"stat", "drop", "read", "date", "count", "evict", "insert"}

\* A new version of f, with an mtime that is `later` than the old one or equal.
Rewritten(f, later) ==
  /\ disk[f].ver < MaxWrites
  /\ disk' = [disk EXCEPT ![f] = [ver |-> @.ver + 1, mtime |-> @.mtime + later]]

\* A command writes a file ...
WriteFile(p, f, later) ==
  /\ stage[p] = "none" /\ Rewritten(f, later)
  /\ target' = [target EXCEPT ![p] = f]
  /\ Turns(p, "invalidate")
  /\ Overtake(p, f, Lookup)
  /\ UNCHANGED <<table, inHand, victim>>

\* Mutant: the row stays.
InvalidateForgets(p) ==
  /\ stage[p] = "invalidate"
  /\ Returns(p)
  /\ UNCHANGED <<disk, table, victim, racedVars>>

\* ... and calls invalidateFileCache.
Invalidate(p) ==
  /\ stage[p] = "invalidate"
  /\ table' = [table EXCEPT ![target[p]] = None]
  /\ Returns(p)
  /\ UNCHANGED <<disk, victim, racedVars>>

\* Where a statement of set or of invalidate throws, or the process dies, no more is
\* done; a row whose file was written stays.
BreakOff(p) ==
  /\ stage[p] # "none"
  /\ IF stage[p] = "invalidate" /\ table[target[p]] # None
       THEN table' = [table EXCEPT ![target[p]].left = TRUE] ELSE UNCHANGED table
  /\ Returns(p)
  /\ victim' = [victim EXCEPT ![p] = None]
  /\ UNCHANGED <<disk, racedVars>>

\* cache:clear, or invalidateFileCache without a path.
ClearCache(p) ==
  /\ stage[p] = "none" /\ Cached # {}
  /\ table' = [f \in Paths |-> None]
  /\ UNCHANGED <<disk, stage, target, inHand, victim, racedVars>>

\* Someone else writes a file: an editor, git, an agent.  Clock ticks are too
\* short for them.
Edit(f) ==
  /\ Rewritten(f, 1)
  /\ Overtake(None, f, Lookup)
  /\ UNCHANGED <<table, stage, target, inHand, victim>>

CacheStep(p) ==
  \/ \E f \in Paths : Get(p, f) \/ Warm(p, f) \/ \E later \in {0, 1} : WriteFile(p, f, later)
  \/ Stat(p) \/ DropStale(p) \/ ReadFile(p) \/ DateRow(p) \/ Count(p) \/ Evict(p)
  \/ Insert(p) \/ Invalidate(p) \/ BreakOff(p) \/ ClearCache(p)

CacheNext == (\E p \in Clients : CacheStep(p)) \/ \E f \in Paths : Edit(f)

CacheSpec == CacheInit /\ [][CacheNext]_cacheVars
-----------------------------------------------------------------------------
\* What cachedReadFile takes from the cache is what the file holds at that moment,
\* whatever was read, evicted, cleared, written or edited by whom, as long as no
\* lookup of the file overlapped a write of it: "CacheEngine handles staleness
\* detection via mtime comparison" (src/lib/helpers.js:61).  The mtimes alone do not
\* tell two writes in one tick apart; it takes the row's deletion, so the one row that
\* may be believed wrongly is one whose deletion failed or never came.
HitIsCurrent ==
  [][\A p \in Clients :
        Stat(p) /\ stage'[p] = "none" /\ target[p] \notin overtaken /\ ~inHand[p].left
          => inHand[p].ver = disk[target[p]].ver]_cacheVars

\* The table never holds more than maxSize rows ("LRU eviction: remove oldest if
\* at capacity", src/lib/cache.js:192), as long as no two processes insert at once.
WithinCapacity == ~crowded => Cardinality(Cached) <= MaxSize
=============================================================================
