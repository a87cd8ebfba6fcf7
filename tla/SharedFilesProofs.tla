------------------------- MODULE SharedFilesProofs -------------------------
(***************************************************************************)
(* Four things that processes share without a lock: the table of cached    *)
(* contents (FileCache), the phase directories (PhaseLifecycle),           *)
(* codebase-intel.json (CodebaseIntel) and MEMORY.md (StructuredMemory).   *)
(*                                                                         *)
(* FileCache.  A row is never younger than its file (Dated).  A row, or    *)
(* what a lookup has in hand, that is as young as its file has the file's  *)
(* content, unless the file was overtaken or the row left behind; between  *)
(* a write and its invalidation the row may be wrong, but then every       *)
(* lookup that begins overtakes the file (Current).  Who is about to       *)
(* insert has room for it (Roomy), since no one else is, unless the table  *)
(* was crowded.                                                            *)
(*                                                                         *)
(* PhaseLifecycle.  No step takes work away but a deletion, and what lies  *)
(* under the name that a removal has looked up is what it was asked for,   *)
(* until another planner puts something there (Resolved).                  *)
(*                                                                         *)
(* CodebaseIntel.  Intel that is not in doubt has what the commit it is    *)
(* labelled with has (Sound).  So has what a process has read or is going  *)
(* to write; and an analysis of some files, that nothing overtook, takes   *)
(* over entries in which its commit and that of the intel it started from  *)
(* agree (Grounded).  Commits are never changed, so all of this outlives   *)
(* what people do to the project.                                          *)
(*                                                                         *)
(* StructuredMemory.  A fresh id is above every id in the copy it is added *)
(* to, which is all that is needed for ids to be unique whatever overlaps; *)
(* entries are kept because a copy that was not overtaken holds all that   *)
(* is settled and not about to be dropped (CopiesHold).                    *)
(***************************************************************************)
EXTENDS FileCache, PhaseLifecycle, CodebaseIntel, StructuredMemory, FiniteSetTheorems,
        WellFoundedInduction, TLAPS

USE FileCacheConstants, NoneNoFile DEF Stages, Lookup

\* What a process at a stage has in hand.
Hands ==
  \A p \in Clients :
    /\ stage[p] # "none" => target[p] \in Paths
    /\ stage[p] \in {"stat", "date", "count", "evict", "insert"} => inHand[p] \in Rows
    /\ stage[p] = "evict" => victim[p] \in Paths

Dated ==
  /\ \A f \in Paths : disk[f].mtime <= disk[f].ver
  /\ \A f \in Paths : table[f] # None => table[f].mtime <= disk[f].mtime
  /\ \A p \in Clients : stage[p] \in Lookup \ {"read"} /\ inHand[p] # None
       => inHand[p].mtime <= disk[target[p]].mtime

\* A row is as good as the file, or older by its mtime, or was left behind.
Good(v, f) == ~v.left /\ v.mtime >= disk[f].mtime => v.ver = disk[f].ver
Invalidating(f) == \E q \in Clients : stage[q] = "invalidate" /\ target[q] = f

Current ==
  \A f \in Paths \ overtaken :
    /\ table[f] # None /\ ~Invalidating(f) => Good(table[f], f)
    /\ \A p \in Clients : target[p] = f /\ stage[p] \in Lookup =>
         /\ ~Invalidating(f)
         /\ stage[p] = "stat" => Good(inHand[p], f)
         /\ stage[p] \in {"date", "count", "evict", "insert"} => inHand[p].ver = disk[f].ver

Roomy ==
  ~crowded =>
    /\ Cardinality(Cached) <= MaxSize
    /\ \A p, q \in Clients :
         stage[p] \in {"evict", "insert"} /\ stage[q] \in {"evict", "insert"} => p = q
    /\ \A p \in Clients :
         /\ stage[p] = "evict" => Cardinality(Cached \ {victim[p]}) < MaxSize
         /\ stage[p] = "insert" => Cardinality(Cached) < MaxSize

CacheInv == CacheTypeOK /\ Hands /\ Dated /\ Current

LEMMA CacheInitInv == CacheInit => CacheInv
<1> SUFFICES ASSUME CacheInit PROVE CacheInv  OBVIOUS
<1>1. CacheTypeOK
  <2>1. [ver |-> 0, mtime |-> 0] \in Versions
    BY DEF Versions
  <2> QED  BY <2>1 DEF CacheInit, CacheTypeOK
<1>2. Hands
  BY DEF CacheInit, Hands
<1>3. Dated
  BY DEF CacheInit, Dated
<1>4. Current
  BY DEF CacheInit, Current
<1> QED  BY <1>1, <1>2, <1>3, <1>4 DEF CacheInv

LEMMA CacheTypePreserved ==
  ASSUME CacheTypeOK, Hands, Dated, [CacheNext]_cacheVars
  PROVE  CacheTypeOK' /\ Hands' /\ Dated'
<1> USE DEF CacheTypeOK, Hands, Dated
<1>1. ASSUME NEW p \in Clients, NEW f \in Paths, Get(p, f) \/ Warm(p, f)
      PROVE  CacheTypeOK' /\ Hands' /\ Dated'
  BY <1>1 DEF Get, Warm, Turns, Overtake
<1>2. ASSUME NEW p \in Clients, NEW f \in Paths, NEW later \in {0, 1}, WriteFile(p, f, later)
      PROVE  CacheTypeOK' /\ Hands' /\ Dated'
  BY <1>2 DEF Versions, Rows, WriteFile, Rewritten, Turns, Overtake
<1>3. ASSUME NEW p \in Clients, Stat(p) \/ DropStale(p)
      PROVE  CacheTypeOK' /\ Hands' /\ Dated'
  <2>1. CacheTypeOK'
    BY <1>3 DEF Stat, DropStale, Turns, Returns, Miss, racedVars
  <2>2. Hands'
    BY <1>3 DEF Stat, DropStale, Turns, Returns, Miss, racedVars
  <2>3. Dated'
    BY <1>3 DEF Versions, Rows, Stat, DropStale, Turns, Returns, Miss, racedVars
  <2> QED  BY <2>1, <2>2, <2>3
<1>4. ASSUME NEW p \in Clients, ReadFile(p) \/ DateRow(p)
      PROVE  CacheTypeOK' /\ Hands' /\ Dated'
  <2>1. target[p] \in Paths /\ disk[target[p]] \in Versions
    BY <1>4 DEF ReadFile, DateRow
  <2>2. PICK row \in Rows : inHand' = [inHand EXCEPT ![p] = row] /\ row.mtime = disk[target[p]].mtime
    <3>1. CASE ReadFile(p)
      <4>1. [ver |-> disk[target[p]].ver, mtime |-> disk[target[p]].mtime, left |-> FALSE] \in Rows
        BY <2>1 DEF Versions, Rows
      <4> QED  BY <3>1, <4>1 DEF ReadFile
    <3>2. CASE DateRow(p)
      <4>1. inHand[p] \in Rows /\ disk[target[p]].mtime \in 0..MaxWrites
        BY <2>1, <3>2 DEF DateRow, Versions
      <4>2. [inHand[p] EXCEPT !.mtime = disk[target[p]].mtime] \in Rows
        BY <4>1 DEF Rows
      <4>3. [inHand[p] EXCEPT !.mtime = disk[target[p]].mtime].mtime = disk[target[p]].mtime
        BY <4>1 DEF Rows
      <4>4. inHand' = [inHand EXCEPT ![p] = [inHand[p] EXCEPT !.mtime = disk[target[p]].mtime]]
        BY <3>2 DEF DateRow
      <4> QED  BY <4>2, <4>3, <4>4
    <3> QED  BY <1>4, <3>1, <3>2
  <2>3. /\ stage' = [stage EXCEPT ![p] = "date"] \/ stage' = [stage EXCEPT ![p] = "count"]
        /\ stage[p] # "evict"
        /\ UNCHANGED <<disk, table, target, victim, racedVars>>
    BY <1>4 DEF ReadFile, DateRow, Turns
  <2>4. CacheTypeOK'
    BY <2>2, <2>3 DEF racedVars
  <2>5. Hands'
    BY <2>1, <2>2, <2>3
  <2>6. disk[target[p]].mtime \in Nat
    BY <2>1 DEF Versions
  <2>7. Dated'
    BY <2>1, <2>2, <2>3, <2>6
  <2> QED  BY <2>4, <2>5, <2>7
<1>5. ASSUME NEW p \in Clients, Count(p)
      PROVE  CacheTypeOK' /\ Hands' /\ Dated'
  <2>1. CacheTypeOK'
    BY <1>5 DEF Count, Turns, Crowd, Cached
  <2>2. Hands'
    BY <1>5 DEF Count, Turns, Crowd, Cached
  <2>3. Dated'
    BY <1>5 DEF Versions, Rows, Count, Turns, Crowd, Cached
  <2> QED  BY <2>1, <2>2, <2>3
<1>6. ASSUME NEW p \in Clients, Evict(p) \/ Insert(p) \/ Invalidate(p) \/ ClearCache(p)
      PROVE  CacheTypeOK' /\ Hands' /\ Dated'
  <2>1. CacheTypeOK'
    BY <1>6 DEF Evict, Insert, Invalidate, ClearCache, Turns, Returns, Miss, racedVars
  <2>2. Hands'
    BY <1>6 DEF Evict, Insert, Invalidate, ClearCache, Turns, Returns, Miss, racedVars
  <2>3. Dated'
    BY <1>6 DEF Versions, Rows, Evict, Insert, Invalidate, ClearCache, Turns, Returns, Miss, racedVars
  <2> QED  BY <2>1, <2>2, <2>3
<1>9. ASSUME NEW p \in Clients, BreakOff(p)
      PROVE  CacheTypeOK' /\ Hands' /\ Dated'
  <2>1. /\ target[p] \in Paths
        /\ \A row \in Rows : [row EXCEPT !.left = TRUE] \in Rows
    BY <1>9 DEF BreakOff, Rows
  <2>2. CacheTypeOK'
    <3>1. table' = table \/ \E row \in Rows : table' = [table EXCEPT ![target[p]] = row]
      BY <1>9, <2>1 DEF BreakOff
    <3>2. table' \in [Paths -> Rows \cup {None}]
      BY <3>1
    <3> QED  BY <1>9, <3>2 DEF BreakOff, Turns, Returns, racedVars
  <2>3. Hands'
    BY <1>9 DEF BreakOff, Turns, Returns, racedVars
  <2>4. Dated'
    BY <1>9 DEF Rows, BreakOff, Turns, Returns, racedVars
  <2> QED  BY <2>2, <2>3, <2>4
<1>7. ASSUME NEW f \in Paths, Edit(f)
      PROVE  CacheTypeOK' /\ Hands' /\ Dated'
  BY <1>7 DEF Versions, Rows, Edit, Rewritten, Overtake
<1>8. CASE UNCHANGED cacheVars
  BY <1>8 DEF cacheVars, racedVars
<1> QED  BY <1>1, <1>2, <1>3, <1>4, <1>5, <1>6, <1>7, <1>8, <1>9 DEF CacheNext, CacheStep

\* Only these steps write a file, or put a row or a lookup's content in place; each
\* of the others leaves the files with their rows, or takes a row away.
LEMMA CurrentPreserved ==
  ASSUME CacheInv, [CacheNext]_cacheVars
  PROVE  Current'
<1> USE DEF CacheInv, CacheTypeOK, Hands, Dated, Current, Good, Invalidating
<1>1. ASSUME NEW p \in Clients, NEW f \in Paths, Get(p, f) \/ Warm(p, f)
      PROVE  Current'
  BY <1>1 DEF Get, Warm, Turns, Overtake
<1>2. ASSUME NEW p \in Clients, NEW f \in Paths, NEW later \in {0, 1}, WriteFile(p, f, later)
      PROVE  Current'
  BY <1>2 DEF WriteFile, Rewritten, Turns, Overtake
<1>3. ASSUME NEW p \in Clients, Stat(p) \/ DropStale(p)
      PROVE  Current'
  BY <1>3 DEF Stat, DropStale, Turns, Returns, Miss, racedVars
<1>4. ASSUME NEW p \in Clients, ReadFile(p) \/ DateRow(p)
      PROVE  Current'
  BY <1>4 DEF Versions, Rows, ReadFile, DateRow, Turns, racedVars
<1>5. ASSUME NEW p \in Clients, Count(p)
      PROVE  Current'
  BY <1>5 DEF Count, Turns, Crowd, Cached
<1>6. ASSUME NEW p \in Clients, Evict(p) \/ Insert(p) \/ Invalidate(p) \/ ClearCache(p)
      PROVE  Current'
  BY <1>6 DEF Evict, Insert, Invalidate, ClearCache, Turns, Returns, Miss, racedVars
<1>9. ASSUME NEW p \in Clients, BreakOff(p)
      PROVE  Current'
  BY <1>9 DEF Rows, BreakOff, Turns, Returns, racedVars
<1>7. ASSUME NEW f \in Paths, Edit(f)
      PROVE  Current'
  <2> DEFINE fresh == [ver |-> disk[f].ver + 1, mtime |-> disk[f].mtime + 1]
  <2>1. /\ disk' = [disk EXCEPT ![f] = fresh]
        /\ \A q \in Clients : target[q] = f /\ stage[q] \in Lookup => f \in overtaken'
        /\ overtaken \subseteq overtaken'
        /\ UNCHANGED <<table, stage, target, inHand>>
    BY <1>7, NoneNoClient DEF Edit, Rewritten, Overtake
  <2>2. disk[f] \in Versions /\ \A g \in Paths : table[g] # None => table[g] \in Rows
    OBVIOUS
  <2>3. table[f] # None => ~(table[f].mtime >= fresh.mtime)
    BY <2>2 DEF Versions, Rows
  <2>4. disk'[f] = fresh /\ table'[f] = table[f]
    BY <2>1
  <2> HIDE DEF fresh
  <2>5. table[f] # None => Good(table[f], f)'
    BY <2>3, <2>4
  <2>6. \A g \in Paths \ {f} : disk'[g] = disk[g]
    BY <2>1
  <2> QED  BY <2>1, <2>5, <2>6
<1>8. CASE UNCHANGED cacheVars
  BY <1>8 DEF cacheVars, racedVars
<1> QED  BY <1>1, <1>2, <1>3, <1>4, <1>5, <1>6, <1>7, <1>8, <1>9 DEF CacheNext, CacheStep

THEOREM CacheInvariance == CacheSpec => []CacheInv
<1>1. CacheInv /\ [CacheNext]_cacheVars => CacheInv'
  BY CacheTypePreserved, CurrentPreserved DEF CacheInv
<1> QED  BY CacheInitInv, <1>1, PTL DEF CacheSpec

\* Type correctness of FileCache.
THEOREM CacheTyping == CacheSpec => []CacheTypeOK
BY CacheInvariance, PTL DEF CacheInv

\* What a lookup takes from the cache is what the file holds, as long as no lookup of
\* the file overlapped a write of it and the row was not left behind by a write whose
\* deletion failed or never came (cachedReadFile, CacheEngine.get and invalidate).
THEOREM CacheHitIsCurrent == CacheSpec => HitIsCurrent
<1>1. ASSUME CacheInv, NEW p \in Clients, Stat(p), stage'[p] = "none", target[p] \notin overtaken,
             ~inHand[p].left
      PROVE  inHand[p].ver = disk[target[p]].ver
  <2>1. stage[p] = "stat" /\ ~(disk[target[p]].mtime > inHand[p].mtime)
    BY <1>1 DEF Stat, Turns, CacheInv, CacheTypeOK
  <2>2. Good(inHand[p], target[p])
    BY <1>1, <2>1 DEF CacheInv, Current, Hands
  <2>3. inHand[p].mtime \in Nat /\ disk[target[p]].mtime \in Nat
    BY <1>1, <2>1 DEF CacheInv, CacheTypeOK, Hands, Versions, Rows
  <2> QED  BY <1>1, <2>1, <2>2, <2>3 DEF Good
<1>2. CacheInv => [\A p \in Clients : Stat(p) /\ stage'[p] = "none" /\ target[p] \notin overtaken
                       /\ ~inHand[p].left => inHand[p].ver = disk[target[p]].ver]_cacheVars
  BY <1>1
<1> QED  BY <1>2, CacheInvariance, PTL DEF CacheSpec, HitIsCurrent
-----------------------------------------------------------------------------
\* Taking rows out, and putting one in.
LEMMA CardinalityOfRows ==
  ASSUME NEW S \in SUBSET Paths
  PROVE  /\ Cardinality(S) \in Nat
         /\ \A T \in SUBSET S : Cardinality(T) <= Cardinality(S)
         /\ \A f \in S : Cardinality(S \ {f}) = Cardinality(S) - 1
         /\ \A f \in Paths : Cardinality(S \cup {f}) <= Cardinality(S) + 1
<1>1. IsFiniteSet(S)
  BY FS_Subset
<1>2. \A T \in SUBSET S : Cardinality(T) <= Cardinality(S)
  BY <1>1, FS_Subset
<1>3. Cardinality(S) \in Nat
  BY <1>1, FS_CardinalityType
<1>4. \A f \in S : Cardinality(S \ {f}) = Cardinality(S) - 1
  BY <1>1, FS_RemoveElement
<1>5. \A f \in Paths : Cardinality(S \cup {f}) <= Cardinality(S) + 1
  <2> TAKE f \in Paths
  <2>1. CASE f \in S
    <3>1. S \cup {f} = S
      BY <2>1
    <3>2. Cardinality(S \cup {f}) = Cardinality(S)
      BY <3>1, Zenon
    <3> QED  BY <1>3, <3>2
  <2>2. CASE f \notin S
    <3>1. Cardinality(S \cup {f}) = Cardinality(S) + 1
      BY <1>1, <2>2, FS_AddElement
    <3> QED  BY <1>3, <3>1
  <2> QED  BY <2>1, <2>2
<1> QED  BY <1>2, <1>3, <1>4, <1>5

\* Steps that put no row in leave everybody the room they had.
LEMMA FewerRows ==
  ASSUME Roomy, Cached' \in SUBSET Cached, UNCHANGED crowded,
         \A p \in Clients : stage'[p] \in {"evict", "insert"}
           => stage'[p] = stage[p] /\ victim'[p] = victim[p]
  PROVE  Roomy'
<1>1. Cached \in SUBSET Paths
  BY DEF Cached
<1>2. /\ Cardinality(Cached') <= Cardinality(Cached)
      /\ Cardinality(Cached') \in Nat /\ Cardinality(Cached) \in Nat
  BY <1>1, CardinalityOfRows
<1>3. ASSUME NEW f
      PROVE  /\ Cardinality(Cached' \ {f}) <= Cardinality(Cached \ {f})
             /\ Cardinality(Cached' \ {f}) \in Nat /\ Cardinality(Cached \ {f}) \in Nat
  BY <1>1, CardinalityOfRows
<1>4. SUFFICES ASSUME ~crowded PROVE Roomy'
  BY DEF Roomy
<1>5. ASSUME NEW p \in Clients
      PROVE  /\ stage'[p] = "evict" => Cardinality(Cached' \ {victim'[p]}) < MaxSize
             /\ stage'[p] = "insert" => Cardinality(Cached') < MaxSize
  <2>1. /\ stage'[p] = "evict" => Cardinality(Cached \ {victim[p]}) < MaxSize
        /\ stage'[p] = "insert" => Cardinality(Cached) < MaxSize
    BY <1>4 DEF Roomy
  <2>2. /\ Cardinality(Cached' \ {victim[p]}) <= Cardinality(Cached \ {victim[p]})
        /\ Cardinality(Cached' \ {victim[p]}) \in Nat
        /\ Cardinality(Cached \ {victim[p]}) \in Nat
    BY <1>3
  <2>3. stage'[p] = "evict" => victim'[p] = victim[p]
    OBVIOUS
  <2>4. stage'[p] = "evict" => Cardinality(Cached' \ {victim[p]}) < MaxSize
    BY <2>1, <2>2
  <2>5. stage'[p] = "insert" => Cardinality(Cached') < MaxSize
    BY <1>2, <2>1
  <2> QED  BY <2>3, <2>4, <2>5
<1>6. Cardinality(Cached') <= MaxSize
  BY <1>2, <1>4 DEF Roomy
<1>7. \A p, q \in Clients :
        stage'[p] \in {"evict", "insert"} /\ stage'[q] \in {"evict", "insert"} => p = q
  BY <1>4 DEF Roomy
<1> QED  BY <1>5, <1>6, <1>7 DEF Roomy

\* Only a Count makes somebody ready to evict or to insert, and it says when another
\* is; an Evict makes the room that the Insert after it takes.
LEMMA RoomyPreserved ==
  ASSUME CacheTypeOK, Hands, Roomy, [CacheNext]_cacheVars
  PROVE  Roomy'
<1> USE DEF CacheTypeOK, Hands
<1>1. ASSUME NEW p \in Clients, NEW f \in Paths,
             Get(p, f) \/ Warm(p, f) \/ \E later \in {0, 1} : WriteFile(p, f, later)
      PROVE  Roomy'
  BY <1>1, FewerRows DEF Get, Warm, WriteFile, Turns, Overtake, Cached
<1>2. ASSUME NEW p \in Clients,
             Stat(p) \/ DropStale(p) \/ ReadFile(p) \/ DateRow(p) \/ Invalidate(p)
      PROVE  Roomy'
  BY <1>2, FewerRows
     DEF Stat, DropStale, ReadFile, DateRow, Invalidate, Turns, Returns, Miss, racedVars, Cached
<1>3. ASSUME NEW p \in Clients, ClearCache(p)
      PROVE  Roomy'
  BY <1>3, FewerRows DEF ClearCache, racedVars, Cached
<1>10. ASSUME NEW p \in Clients, BreakOff(p) PROVE Roomy'
  <2>1. \A q \in Clients : stage'[q] \in {"evict", "insert"}
          => stage'[q] = stage[q] /\ victim'[q] = victim[q]
    BY <1>10 DEF BreakOff, Returns, Turns
  <2>2. Cached' \in SUBSET Cached
    BY <1>10 DEF BreakOff, Cached
  <2> QED  BY <1>10, <2>1, <2>2, FewerRows DEF BreakOff, racedVars
<1>4. ASSUME NEW f \in Paths, Edit(f) PROVE Roomy'
  BY <1>4, FewerRows DEF Edit, Overtake, Cached
<1>5. CASE UNCHANGED cacheVars
  BY <1>5, FewerRows DEF cacheVars, racedVars, Cached
<1>6. Cached \in SUBSET Paths /\ Cached' \in SUBSET Paths
  BY DEF Cached
<1>7. ASSUME NEW p \in Clients, Count(p) PROVE Roomy'
  <2>1. SUFFICES ASSUME ~crowded' PROVE Roomy'
    BY DEF Roomy
  <2>2. ~crowded /\ \A q \in Clients \ {p} : stage[q] \notin {"evict", "insert"}
    BY <1>7, <2>1 DEF Count, Crowd
  <2>3. Cached' = Cached /\ Cardinality(Cached) \in Nat /\ Cardinality(Cached) <= MaxSize
    BY <1>6, <1>7, <2>2, CardinalityOfRows DEF Count, Cached, Roomy
  <2>4. \A q \in Clients \ {p} : stage'[q] \notin {"evict", "insert"}
    BY <1>7, <2>2 DEF Count, Turns
  <2>5. stage'[p] = "evict" => Cardinality(Cached \ {victim'[p]}) < MaxSize
    BY <1>6, <1>7, <2>3, CardinalityOfRows DEF Count, Turns
  <2>6. stage'[p] = "insert" => Cardinality(Cached) < MaxSize
    BY <1>7, <2>3 DEF Count, Turns
  <2> QED  BY <2>3, <2>4, <2>5, <2>6 DEF Roomy
<1>8. ASSUME NEW p \in Clients, Evict(p) PROVE Roomy'
  <2>1. SUFFICES ASSUME ~crowded PROVE Roomy'
    BY <1>8 DEF Roomy, Evict, racedVars
  <2>2. Cached' = Cached \ {victim[p]} /\ Cardinality(Cached') < MaxSize
    BY <1>8, <2>1 DEF Evict, Cached, Roomy
  <2>3. stage'[p] = "insert" /\ \A q \in Clients \ {p} : stage'[q] \notin {"evict", "insert"}
    BY <1>8, <2>1 DEF Evict, Turns, Roomy
  <2>4. Cardinality(Cached') <= MaxSize
    BY <1>6, <2>2, CardinalityOfRows
  <2>5. \A q \in Clients :
          stage'[q] # "evict" /\ (stage'[q] = "insert" => q = p)
    BY <2>3
  <2> QED  BY <2>2, <2>4, <2>5 DEF Roomy
<1>9. ASSUME NEW p \in Clients, Insert(p) PROVE Roomy'
  <2>1. SUFFICES ASSUME ~crowded PROVE Roomy'
    BY <1>9 DEF Roomy, Insert, racedVars
  <2>2. Cardinality(Cached) < MaxSize /\ target[p] \in Paths
    BY <1>9, <2>1 DEF Insert, Roomy
  <2>3. Cached' \in SUBSET (Cached \cup {target[p]})
    BY <1>9 DEF Insert, Cached
  <2>4. Cardinality(Cached') <= MaxSize
    <3>1. Cardinality(Cached \cup {target[p]}) <= Cardinality(Cached) + 1
      BY <1>6, <2>2, CardinalityOfRows
    <3>2. Cardinality(Cached') <= Cardinality(Cached \cup {target[p]})
      BY <1>6, <2>2, <2>3, CardinalityOfRows
    <3>3. /\ Cardinality(Cached) \in Nat /\ Cardinality(Cached') \in Nat
          /\ Cardinality(Cached \cup {target[p]}) \in Nat
      BY <1>6, <2>2, CardinalityOfRows
    <3> QED  BY <2>2, <3>1, <3>2, <3>3
  <2>5. \A q \in Clients : stage'[q] \notin {"evict", "insert"}
    BY <1>9, <2>1 DEF Insert, Turns, Returns, Roomy
  <2> QED  BY <2>4, <2>5 DEF Roomy
<1> QED
  BY <1>1, <1>2, <1>3, <1>4, <1>5, <1>7, <1>8, <1>9, <1>10 DEF CacheNext, CacheStep

\* The table never holds more rows than it may, as long as no two processes were about
\* to insert at once (CacheEngine.set).
THEOREM CacheWithinCapacity == CacheSpec => []WithinCapacity
<1>1. CacheInit => Roomy
  <2>1. CacheInit => Cached = {}
    BY DEF CacheInit, Cached
  <2> QED  BY <2>1, FS_EmptySet DEF CacheInit, Roomy
<1>2. CacheInv /\ Roomy /\ [CacheNext]_cacheVars => Roomy'
  BY RoomyPreserved DEF CacheInv
<1>3. Roomy => WithinCapacity
  BY DEF Roomy, WithinCapacity
<1> QED  BY <1>1, <1>2, <1>3, CacheInvariance, PTL DEF CacheSpec
-----------------------------------------------------------------------------
\* A removal works on no directory or on one with the number it was asked for.
LEMMA RemovalBegins ==
  ASSUME NEW p \in Planners, NEW number, NEW spelling, NEW force,
         RemovePhase(p, number, spelling, force)
  PROVE  /\ Begins(p) /\ Proceeds(p, "delete") /\ UNCHANGED <<dirs, usurped>>
         /\ \E n : /\ dir' = [dir EXCEPT ![p] = n]
                   /\ n # NoDir => n \in DOMAIN dirs /\ Number(n) = number
         /\ \E W : /\ asked' = [asked EXCEPT ![p] = W]
                   /\ \A n \in DOMAIN dirs : Number(n) = number => dirs[n].work \in W
<1> DEFINE numbered == {n \in DOMAIN dirs : Number(n) = number}
           answers == {dirs[n].work : n \in numbered}
<1>1. /\ Begins(p) /\ Proceeds(p, "delete") /\ AsksFor(p, number) /\ UNCHANGED dirs
      /\ \E n \in IF numbered = {} THEN {NoDir} ELSE numbered : dir' = [dir EXCEPT ![p] = n]
  BY Zenon DEF RemovePhase
<1>2. \E n : dir' = [dir EXCEPT ![p] = n] /\ (n # NoDir => n \in DOMAIN dirs /\ Number(n) = number)
  <2>1. PICK n \in IF numbered = {} THEN {NoDir} ELSE numbered : dir' = [dir EXCEPT ![p] = n]
    BY <1>1
  <2>2. n # NoDir => n \in numbered
    BY <2>1
  <2> QED  BY <2>1, <2>2
<1>3. UNCHANGED usurped /\ asked' = [asked EXCEPT ![p] = answers]
  BY <1>1, Zenon DEF AsksFor
<1>4. \A n \in DOMAIN dirs : Number(n) = number => dirs[n].work \in answers
  OBVIOUS
<1> HIDE DEF answers
<1> QED  BY <1>1, <1>2, <1>3, <1>4

LEMMA PhaseTypingStep == PhaseTypeOK /\ [PhaseNext]_phaseVars => PhaseTypeOK'
<1> SUFFICES ASSUME PhaseTypeOK, [PhaseNext]_phaseVars PROVE PhaseTypeOK'
  OBVIOUS
<1> USE PhaseConstants DEF PhaseTypeOK, askedVars
<1>1. ASSUME NEW p \in Planners, NEW slug \in Slugs,
             AddPhase(p, slug) \/ \E i \in 1..InitPhases : InsertPhase(p, i, slug)
      PROVE  PhaseTypeOK'
  <2>1. /\ dirs' = dirs /\ at' = [at EXCEPT ![p] = "mkdir"]
        /\ commands < MaxCommands /\ commands' = commands + 1
        /\ DOMAIN dir' = DOMAIN dir /\ UNCHANGED askedVars
    BY <1>1 DEF AddPhase, InsertPhase, Begins, Proceeds
  <2> QED  BY <2>1
<1>2. ASSUME NEW p \in Planners, MakeDir(p) PROVE PhaseTypeOK'
  BY <1>2 DEF MakeDir, Proceeds, Empty
<1>3. ASSUME NEW p \in Planners, Keep(p) PROVE PhaseTypeOK'
  BY <1>3 DEF Keep, Proceeds, Ends, Fills
<1>4. ASSUME NEW p \in Planners, ListPhase(p) \/ Rewrite(p) \/ PlannerDies(p)
      PROVE  PhaseTypeOK'
  BY <1>4 DEF ListPhase, Rewrite, PlannerDies, Proceeds, Ends
<1>5. ASSUME NEW p \in Planners, NEW number \in Known, NEW spelling \in Spellings,
             NEW force \in BOOLEAN, RemovePhase(p, number, spelling, force)
      PROVE  PhaseTypeOK'
  <2>1. PICK n, W : dir' = [dir EXCEPT ![p] = n] /\ asked' = [asked EXCEPT ![p] = W]
    BY <1>5, RemovalBegins
  <2>2. Begins(p) /\ Proceeds(p, "delete") /\ UNCHANGED <<dirs, usurped>>
    BY <1>5, RemovalBegins
  <2> QED  BY <2>1, <2>2 DEF Begins, Proceeds
<1>6. ASSUME NEW p \in Planners, Delete(p) \/ Gather(p) \/ Reread(p) PROVE PhaseTypeOK'
  BY <1>6 DEF Delete, Gather, Reread, Proceeds
<1>7. ASSUME NEW p \in Planners, Rename(p) PROVE PhaseTypeOK'
  <2>1. /\ at' = at \/ at' = [at EXCEPT ![p] = "reread"]
        /\ UNCHANGED <<commands, dir, asked>> /\ usurped' \subseteq Planners
    BY <1>7 DEF Rename, Proceeds, Fills
  <2>2. CASE dirs' = dirs
    BY <2>1, <2>2
  <2>3. ASSUME NEW n, NEW new, n \in DOMAIN dirs,
               dirs' = [m \in (DOMAIN dirs \ {n}) \cup {new} |->
                          IF m = new THEN dirs[n] ELSE dirs[m]]
        PROVE  PhaseTypeOK'
    <3>1. \A m \in DOMAIN dirs' :
            dirs'[m] = [work |-> dirs'[m].work, executed |-> dirs'[m].executed]
      BY <2>3
    <3>2. dirs' = [m \in DOMAIN dirs' |-> dirs'[m]]
      BY <2>3
    <3>3. dirs' = [m \in DOMAIN dirs' |->
                     [work |-> dirs'[m].work, executed |-> dirs'[m].executed]]
      BY <3>1, <3>2
    <3> QED  BY <2>1, <3>3
  <2>4. \/ dirs' = dirs
        \/ \E n \in DOMAIN dirs : \E new :
             dirs' = [m \in (DOMAIN dirs \ {n}) \cup {new} |->
                        IF m = new THEN dirs[n] ELSE dirs[m]]
    <3>1. CASE UNCHANGED dirs
      BY <3>1
    <3>2. ASSUME NEW n \in FirstOf(todo[p]),
                 n \in DOMAIN dirs /\ (NewName(p, n) \in DOMAIN dirs => dirs[NewName(p, n)] = Empty),
                 dirs' = [m \in (DOMAIN dirs \ {n}) \cup {NewName(p, n)} |->
                            IF m = NewName(p, n) THEN dirs[n] ELSE dirs[m]]
          PROVE  \E k \in DOMAIN dirs : \E new :
                   dirs' = [m \in (DOMAIN dirs \ {k}) \cup {new} |->
                              IF m = new THEN dirs[k] ELSE dirs[m]]
      BY <3>2
    <3> QED  BY <1>7, <3>1, <3>2 DEF Rename
  <2>5. CASE dirs' # dirs
    <3>1. PICK n \in DOMAIN dirs :
            \E new : dirs' = [m \in (DOMAIN dirs \ {n}) \cup {new} |->
                                IF m = new THEN dirs[n] ELSE dirs[m]]
      BY <2>4, <2>5
    <3>2. PICK new : dirs' = [m \in (DOMAIN dirs \ {n}) \cup {new} |->
                                IF m = new THEN dirs[n] ELSE dirs[m]]
      BY <3>1
    <3> QED  BY <2>3, <3>2
  <2> QED  BY <2>2, <2>5
<1>8. ASSUME NEW n \in DOMAIN dirs, ExecutePlan(n) PROVE PhaseTypeOK'
  <2>1. \A m \in DOMAIN dirs' :
          dirs'[m] = [work |-> dirs'[m].work, executed |-> dirs'[m].executed]
    BY <1>8 DEF ExecutePlan
  <2>2. dirs' = [m \in DOMAIN dirs' |-> dirs'[m]]
    BY <1>8 DEF ExecutePlan
  <2>3. UNCHANGED <<at, commands, dir, asked, usurped>>
    BY <1>8 DEF ExecutePlan
  <2> QED  BY <2>1, <2>2, <2>3
<1>9. CASE UNCHANGED phaseVars
  BY <1>9 DEF phaseVars
<1> QED
  BY <1>1, <1>2, <1>3, <1>4, <1>5, <1>6, <1>7, <1>8, <1>9 DEF PhaseNext, PhaseStep

\* Type correctness of PhaseLifecycle: its directories and its control.
THEOREM PhaseTyping == PhaseSpec => []PhaseTypeOK
<1>1. PhaseInit => PhaseTypeOK
  <2> SUFFICES ASSUME PhaseInit PROVE PhaseTypeOK
    OBVIOUS
  <2>1. /\ at = [p \in Planners |-> "none"] /\ commands = 0
        /\ DOMAIN dir = Planners /\ DOMAIN asked = Planners /\ usurped = {}
    BY DEF PhaseInit
  <2>2. PICK S : dirs = [n \in S |-> [work |-> n.int, executed |-> FALSE]]
    BY DEF PhaseInit
  <2>3. dirs = [n \in DOMAIN dirs |-> [work |-> dirs[n].work, executed |-> dirs[n].executed]]
    BY <2>2
  <2> QED  BY <2>1, <2>3, PhaseConstants DEF PhaseTypeOK
<1> QED  BY <1>1, PhaseTypingStep, PTL DEF PhaseSpec

\* A directory that a removal is about to delete is empty, or has the work that the
\* command was asked for, unless somebody filled it since.
Resolved ==
  \A p \in Planners \ usurped : at[p] = "delete" /\ dir[p] # NoDir /\ dir[p] \in DOMAIN dirs
    => dirs[dir[p]].work \in asked[p] \cup {0}

\* Directories come and go under a name, but only a Keep and a Rename put work there.
LEMMA ResolvedPreserved ==
  ASSUME PhaseTypeOK, Resolved, [PhaseNext]_phaseVars
  PROVE  Resolved'
<1> USE DEF PhaseTypeOK, Resolved, askedVars, Proceeds
<1>1. ASSUME NEW p \in Planners, NEW slug \in Slugs,
             AddPhase(p, slug) \/ \E i \in 1..InitPhases : InsertPhase(p, i, slug)
      PROVE  Resolved'
  <2>1. /\ UNCHANGED <<dirs, askedVars>> /\ at'[p] = "mkdir"
        /\ \A q \in Planners \ {p} : dir'[q] = dir[q] /\ at'[q] = at[q]
    BY <1>1 DEF AddPhase, InsertPhase, Begins
  <2> QED  BY <2>1
<1>2. ASSUME NEW p \in Planners, MakeDir(p) PROVE Resolved'
  <2>1. /\ UNCHANGED <<dir, askedVars>> /\ \A q \in Planners : at'[q] = "delete" => at[q] = "delete"
        /\ \A n \in DOMAIN dirs' : IF n \in DOMAIN dirs THEN dirs'[n] = dirs[n] ELSE dirs'[n].work = 0
    BY <1>2 DEF MakeDir, Empty
  <2> QED  BY <2>1
<1>3. ASSUME NEW p \in Planners, Keep(p) PROVE Resolved'
  <2>1. CASE dir[p] \in DOMAIN dirs
    <3>1. /\ UNCHANGED <<dir, asked>> /\ at[p] = "keep" /\ at' = [at EXCEPT ![p] = "list"]
          /\ \A n \in DOMAIN dirs' : n \in DOMAIN dirs /\ (n # dir[p] => dirs'[n] = dirs[n])
          /\ Fills(p, dir[p])
      BY <1>3, <2>1 DEF Keep
    <3> QED  BY <3>1 DEF Fills
  <2>2. CASE dir[p] \notin DOMAIN dirs
    <3>1. UNCHANGED dirs /\ Ends(p)
      BY <1>3, <2>2 DEF Keep
    <3> QED  BY <3>1 DEF Ends
  <2> QED  BY <2>1, <2>2
<1>4. ASSUME NEW p \in Planners, ListPhase(p) \/ Rewrite(p) \/ PlannerDies(p)
      PROVE  Resolved'
  <2>1. UNCHANGED dirs /\ Ends(p)
    BY <1>4 DEF ListPhase, Rewrite, PlannerDies
  <2> QED  BY <2>1 DEF Ends
<1>5. ASSUME NEW p \in Planners, NEW number \in Known, NEW spelling \in Spellings,
             NEW force \in BOOLEAN, RemovePhase(p, number, spelling, force)
      PROVE  Resolved'
  <2>1. PICK n : /\ dir' = [dir EXCEPT ![p] = n]
                 /\ n # NoDir => n \in DOMAIN dirs /\ Number(n) = number
    BY <1>5, RemovalBegins
  <2>2. PICK W : /\ asked' = [asked EXCEPT ![p] = W]
                 /\ \A m \in DOMAIN dirs : Number(m) = number => dirs[m].work \in W
    BY <1>5, RemovalBegins
  <2>3. Proceeds(p, "delete") /\ UNCHANGED <<dirs, usurped>>
    BY <1>5, RemovalBegins
  <2>4. \A q \in Planners \ {p} : UNCHANGED <<dir[q], at[q], asked[q]>>
    BY <2>1, <2>2, <2>3
  <2> QED  BY <2>1, <2>2, <2>3, <2>4
<1>6. ASSUME NEW p \in Planners, Delete(p) \/ Gather(p) \/ Reread(p) PROVE Resolved'
  <2>1. /\ UNCHANGED <<dir, askedVars>> /\ \A q \in Planners : at'[q] = "delete" => at[q] = "delete"
        /\ \A n \in DOMAIN dirs' : n \in DOMAIN dirs /\ dirs'[n] = dirs[n]
    BY <1>6 DEF Delete, Gather, Reread
  <2> QED  BY <2>1
<1>7. ASSUME NEW p \in Planners, Rename(p) PROVE Resolved'
  <2>1. UNCHANGED <<dir, asked>> /\ \A q \in Planners : at'[q] = "delete" => at[q] = "delete" /\ q # p
    BY <1>7 DEF Rename
  <2>2. CASE UNCHANGED <<dirs, usurped>>
    BY <2>1, <2>2
  <2>3. ASSUME NEW n, NEW new, Fills(p, new),
               dirs' = [m \in (DOMAIN dirs \ {n}) \cup {new} |->
                          IF m = new THEN dirs[n] ELSE dirs[m]]
        PROVE  Resolved'
    <3>1. \A m \in DOMAIN dirs' : m # new => m \in DOMAIN dirs /\ dirs'[m] = dirs[m]
      BY <2>3
    <3>2. \A q \in Planners \ usurped' : q \notin usurped
                                          /\ (at'[q] = "delete" => dir[q] # new)
      BY <2>1, <2>3 DEF Fills
    <3> QED  BY <2>1, <3>1, <3>2
  <2>4. CASE ~UNCHANGED <<dirs, usurped>>
    <3>1. PICK n \in FirstOf(todo[p]) :
            IF n \in DOMAIN dirs /\ (NewName(p, n) \in DOMAIN dirs => dirs[NewName(p, n)] = Empty)
              THEN /\ dirs' = [m \in (DOMAIN dirs \ {n}) \cup {NewName(p, n)} |->
                                 IF m = NewName(p, n) THEN dirs[n] ELSE dirs[m]]
                   /\ Fills(p, NewName(p, n))
              ELSE UNCHANGED <<dirs, usurped>>
      BY <1>7, <2>4, Zenon DEF Rename
    <3> QED  BY <2>3, <2>4, <3>1
  <2> QED  BY <2>2, <2>4
<1>8. ASSUME NEW n \in DOMAIN dirs, ExecutePlan(n) PROVE Resolved'
  <2>1. DOMAIN dirs' = DOMAIN dirs /\ \A m \in DOMAIN dirs : dirs'[m].work = dirs[m].work
    BY <1>8 DEF ExecutePlan
  <2> QED  BY <1>8, <2>1 DEF ExecutePlan
<1>9. CASE UNCHANGED phaseVars
  BY <1>9 DEF phaseVars
<1> QED
  BY <1>1, <1>2, <1>3, <1>4, <1>5, <1>6, <1>7, <1>8, <1>9 DEF PhaseNext, PhaseStep

\* No phase command loses other work than that of the phase it was asked to remove,
\* however commands overlap, collide and die, unless a second planner puts it under the
\* name that the first is about to delete (cmdPhaseAdd, cmdPhaseInsert, cmdPhaseRemove).
THEOREM PhaseWorkIsKept == PhaseSpec => WorkKept
<1> DEFINE Justly(w) == \E p \in Planners :
             /\ Delete(p)
             /\ w \in asked[p] \/ (p \in usurped /\ dirs[dir[p]].work = w)
           Lost == \A w \in Work \ Work' : Justly(w)
<1>1. ASSUME PhaseTypeOK, Resolved, PhaseNext PROVE Lost
  <2>1. ASSUME UNCHANGED dirs PROVE Lost
    BY <2>1 DEF Work
  <2>2. ASSUME NEW p \in Planners, MakeDir(p) PROVE Lost
    BY <2>2 DEF MakeDir, Work
  <2>3. ASSUME NEW p \in Planners, Keep(p) PROVE Lost
    BY <1>1, <2>3 DEF Keep, Work, Empty, PhaseTypeOK
  <2>4. ASSUME NEW p \in Planners, Delete(p) PROVE Lost
    <3> SUFFICES ASSUME NEW w \in Work \ Work' PROVE Justly(w)
      OBVIOUS
    <3>1. PICK n \in DOMAIN dirs : dirs[n].work = w /\ w # 0
      BY DEF Work
    <3>2. n = dir[p] /\ dir[p] # NoDir
      BY <2>4, <3>1 DEF Delete, Work
    <3>3. p \in usurped \/ w \in asked[p]
      BY <1>1, <2>4, <3>1, <3>2 DEF Delete, Resolved
    <3> QED  BY <2>4, <3>1, <3>2, <3>3
  <2>5. ASSUME NEW p \in Planners, Rename(p) PROVE Lost
    <3>1. CASE UNCHANGED dirs
      BY <2>1, <3>1
    <3>2. ASSUME NEW n \in DOMAIN dirs, NEW new, new \in DOMAIN dirs => dirs[new] = Empty,
                 dirs' = [m \in (DOMAIN dirs \ {n}) \cup {new} |->
                            IF m = new THEN dirs[n] ELSE dirs[m]]
          PROVE  Work \subseteq Work'
      <4>1. ASSUME NEW m \in DOMAIN dirs, dirs[m].work # 0
            PROVE  \E k \in DOMAIN dirs' : dirs'[k].work = dirs[m].work
        <5>1. m # new
          BY <3>2, <4>1 DEF Empty
        <5>2. CASE m = n
          BY <3>2, <5>2
        <5>3. CASE m # n
          BY <3>2, <5>1, <5>3
        <5> QED  BY <5>2, <5>3
      <4> QED  BY <4>1 DEF Work
    <3> QED  BY <2>5, <3>1, <3>2 DEF Rename
  <2>6. ASSUME NEW n \in DOMAIN dirs, ExecutePlan(n) PROVE Lost
    BY <1>1, <2>6 DEF ExecutePlan, Work, PhaseTypeOK
  <2> QED  BY <1>1, <2>1, <2>2, <2>3, <2>4, <2>5, <2>6
           DEF PhaseNext, PhaseStep, AddPhase, InsertPhase, ListPhase, RemovePhase, Gather,
               Reread, Rewrite, PlannerDies
<1>2. PhaseTypeOK /\ Resolved /\ [PhaseNext]_phaseVars => [Lost]_phaseVars
  BY <1>1
<1>3. PhaseInit => Resolved
  BY DEF PhaseInit, Resolved
<1>4. PhaseTypeOK /\ Resolved /\ [PhaseNext]_phaseVars => Resolved'
  BY ResolvedPreserved
<1>5. PhaseSpec => []Resolved
  BY <1>3, <1>4, PhaseTyping, PTL DEF PhaseSpec
<1> QED  BY <1>2, <1>5, PhaseTyping, PTL DEF PhaseSpec, WorkKept
-----------------------------------------------------------------------------
\* Intel, on disk or in hand, has what its commit has.
Sound(i) ==
  /\ i.hash \in DOMAIN commits
  /\ \A f \in Sources \ i.doubtful : i.entries[f] = commits[i.hash][f]

\* What an analyst has in mind: an incremental analysis that nothing overtook starts
\* from entries that the commit it is labelled with has as well.
Grounded(a) ==
  /\ previous[a] # NoIntel => Sound(previous[a])
  /\ found[a] # NoIntel => Sound(found[a])
  /\ checked[a] # NoIntel => checked[a].hash \in DOMAIN commits /\ previous[a] # NoIntel
  /\ place[a] = "check" => previous[a] # NoIntel
  /\ place[a] = "diff" => checked[a] # NoIntel
  /\ place[a] \in {"diff", "analyse"} => label[a] \in DOMAIN commits
  /\ place[a] \in {"truncate", "fill"} => found[a] # NoIntel
  /\ place[a] = "analyse" /\ changed[a] # Sources =>
       /\ previous[a] # NoIntel
       /\ ~moved[a] => \A f \in Sources \ changed[a] :
                          commits[previous[a].hash][f] = commits[label[a]][f]

IntelInv ==
  /\ IntelTypeOK
  /\ Parses(intel) => Sound(intel)
  /\ \A a \in Analysts : Grounded(a)

LEMMA IntelInitInv == IntelInit => IntelInv
<1> SUFFICES ASSUME IntelInit PROVE IntelInv  OBVIOUS
<1>1. PICK t \in Trees : commits = <<t>> /\ tree = t /\ intel \in {Blank, Analysed(t)}
  BY DEF IntelInit
<1>2. DOMAIN commits = {1} /\ commits[1] = t /\ commits \in Seq(Trees)
  BY <1>1
<1>3. Analysed(t) \in Intels
  BY DEF Analysed, Intels
<1>4. IntelTypeOK
  BY <1>1, <1>2, <1>3, IntelConstants DEF IntelInit, IntelTypeOK, Unread
<1>5. Parses(intel) => Sound(intel)
  BY <1>1, <1>2 DEF Parses, Unread, Sound, Analysed
<1>6. \A a \in Analysts : Grounded(a)
  BY DEF IntelInit, Grounded
<1> QED  BY <1>4, <1>5, <1>6 DEF IntelInv

\* What one analyst has in mind outlives what others do.
LEMMA IntelOthers ==
  ASSUME IntelInv, UNCHANGED commits, NEW a \in Analysts, Grounded(a)',
         \A b \in Analysts \ {a} :
           /\ place'[b] = place[b] /\ previous'[b] = previous[b] /\ checked'[b] = checked[b]
           /\ label'[b] = label[b] /\ changed'[b] = changed[b] /\ moved'[b] = moved[b]
           /\ found'[b] = found[b]
  PROVE  \A b \in Analysts : Grounded(b)'
BY DEF IntelInv, Grounded, Sound

LEMMA IntelForgets ==
  ASSUME IntelTypeOK, NEW a \in Analysts, Forgets(a)
  PROVE  /\ previous'[a] = NoIntel /\ checked'[a] = NoIntel /\ found'[a] = NoIntel
         /\ \A b \in Analysts \ {a} :
              /\ previous'[b] = previous[b] /\ checked'[b] = checked[b]
              /\ label'[b] = label[b] /\ changed'[b] = changed[b] /\ moved'[b] = moved[b]
              /\ found'[b] = found[b]
         /\ previous' \in [Analysts -> Intels \cup {NoIntel}]
         /\ checked' \in [Analysts -> Intels \cup {NoIntel}]
         /\ label' \in [Analysts -> Nat] /\ changed' \in [Analysts -> SUBSET Sources]
         /\ moved' \in [Analysts -> BOOLEAN] /\ found' \in [Analysts -> Intels \cup {NoIntel}]
BY DEF IntelTypeOK, Forgets

\* A process that leaves is of no concern to the invariant.
LEMMA IntelLeaves ==
  ASSUME IntelInv, NEW a \in Analysts, Leaves(a), UNCHANGED worldVars,
         intel' \in Intels \cup Unread, Parses(intel)' => Sound(intel)',
         marker' \in {"none", "young", "old"}, moves' \in 0..MaxMoves, deaths' \in 0..MaxDeaths
  PROVE  IntelInv'
<1>1. IntelTypeOK'
  BY IntelForgets DEF IntelInv, IntelTypeOK, Leaves, Reaches, worldVars
<1>2. Grounded(a)'
  BY IntelForgets DEF IntelInv, IntelTypeOK, Leaves, Reaches, Grounded
<1>3. \A b \in Analysts : Grounded(b)'
  BY <1>2, IntelOthers, IntelForgets DEF IntelInv, Leaves, Reaches, worldVars
<1> QED  BY <1>1, <1>3 DEF IntelInv, Sound, worldVars

\* The commands begin.
LEMMA IntelBegin ==
  ASSUME IntelInv, NEW a \in Analysts,
         (\E full \in BOOLEAN : Analyze(a, full)) \/ Trigger(a) \/ Refresh(a) \/ Annotate(a)
  PROVE  IntelInv'
<1> USE DEF IntelInv
<1>1. IntelTypeOK'
  <2>1. mode' \in [Analysts -> {"none", "analyze", "trigger", "refresh", "annotate"}]
    BY DEF IntelTypeOK, Analyze, Trigger, Refresh, Annotate, Runs
  <2>2. moves' \in 0..MaxMoves /\ UNCHANGED deaths
    BY IntelConstants DEF IntelTypeOK, Analyze, Trigger, Refresh, Annotate, Moves, countVars
  <2>3. marker' \in {"none", "young", "old"}
    BY DEF IntelTypeOK, Analyze, Trigger, Refresh, Annotate
  <2>4. place' \in [Analysts -> {"none", "read", "check", "head", "diff", "look", "unlink",
                                 "mark", "spawn", "analyse", "truncate", "fill", "unmark"}]
    BY DEF IntelTypeOK, Analyze, Trigger, Refresh, Annotate, Reaches
  <2>5. found' \in [Analysts -> Intels \cup {NoIntel}]
    BY DEF IntelTypeOK, Analyze, Trigger, Refresh, Annotate, Parses
  <2> QED  BY <2>1, <2>2, <2>3, <2>4, <2>5
           DEF IntelTypeOK, Analyze, Trigger, Refresh, Annotate, worldVars
<1>2. UNCHANGED <<commits, intel>>
  BY DEF Analyze, Trigger, Refresh, Annotate, worldVars
<1>3. Grounded(a)'
  <2>1. CASE Annotate(a)
    <3>1. intel \in Intels /\ intel # NoIntel
      BY <2>1, UnreadNoIntels DEF Annotate, IntelTypeOK, Parses
    <3> QED  BY <1>2, <2>1, <3>1 DEF IntelTypeOK, Annotate, Reaches, Grounded, Sound
  <2>2. CASE ~Annotate(a)
    BY <1>2, <2>2 DEF IntelTypeOK, Analyze, Trigger, Refresh, Reaches, Grounded, Sound
  <2> QED  BY <2>1, <2>2
<1>4. \A b \in Analysts : Grounded(b)'
  BY <1>2, <1>3, IntelOthers DEF IntelTypeOK, Analyze, Trigger, Refresh, Annotate, Runs, Reaches
<1> QED  BY <1>1, <1>2, <1>4 DEF Sound

\* Reading the intel, HEAD and the difference.
LEMMA IntelReads ==
  ASSUME IntelInv, NEW a \in Analysts,
         ReadPrevious(a) \/ ReadAgain(a) \/ ReadHead(a) \/ AskDiff(a)
  PROVE  IntelInv'
<1> USE DEF IntelInv
<1>0. UNCHANGED <<worldVars, intel, marker, countVars>>
  BY DEF ReadPrevious, ReadAgain, ReadHead, AskDiff
<1>5. Parses(intel)' => Sound(intel)'
  BY <1>0 DEF Sound, Parses, worldVars
<1>1. CASE Leaves(a)
  BY <1>0, <1>1, <1>5, IntelLeaves DEF IntelTypeOK, countVars
<1>2. ASSUME ~Leaves(a) PROVE IntelTypeOK'
  <2>1. place' \in [Analysts -> {"none", "read", "check", "head", "diff", "look", "unlink",
                                 "mark", "spawn", "analyse", "truncate", "fill", "unmark"}]
    BY <1>2 DEF IntelTypeOK, ReadPrevious, ReadAgain, ReadHead, AskDiff, Due, Reaches
  <2>2. UNCHANGED <<mode, found>>
    BY <1>2 DEF ReadPrevious, ReadAgain, ReadHead, AskDiff, Asked, mindVars
  <2>3. changed' \in [Analysts -> SUBSET Sources]
    <3>1. \/ UNCHANGED changed
          \/ \E files \in SUBSET Sources : changed' = [changed EXCEPT ![a] = files]
      <4>1. CASE ReadPrevious(a)  BY <1>2, <4>1 DEF ReadPrevious, mindVars
      <4>2. CASE ReadAgain(a)  BY <4>2 DEF ReadAgain, Due
      <4>3. CASE ReadHead(a)  BY <1>2, <4>3 DEF ReadHead, Due
      <4>4. CASE AskDiff(a)  BY <1>2, <4>4 DEF AskDiff, Due, Diff
      <4> QED  BY <4>1, <4>2, <4>3, <4>4
    <3> QED  BY <3>1 DEF IntelTypeOK
  <2>4. moved' \in [Analysts -> BOOLEAN]
    BY <1>2 DEF IntelTypeOK, ReadPrevious, ReadAgain, ReadHead, AskDiff, Asked, mindVars
  <2>5. previous' \in [Analysts -> Intels \cup {NoIntel}]
    <3>1. UNCHANGED previous \/ (Parses(intel) /\ previous' = [previous EXCEPT ![a] = intel])
      <4>1. CASE ReadPrevious(a)  BY <1>2, <4>1 DEF ReadPrevious, mindVars
      <4>2. CASE ReadAgain(a)  BY <4>2 DEF ReadAgain
      <4>3. CASE ReadHead(a)  BY <1>2, <4>3 DEF ReadHead, Asked
      <4>4. CASE AskDiff(a)  BY <1>2, <4>4 DEF AskDiff
      <4> QED  BY <4>1, <4>2, <4>3, <4>4
    <3> QED  BY <3>1 DEF IntelTypeOK, Parses
  <2>6. checked' \in [Analysts -> Intels \cup {NoIntel}]
    <3>1. UNCHANGED checked \/ (Parses(intel) /\ checked' = [checked EXCEPT ![a] = intel])
      <4>1. CASE ReadPrevious(a)  BY <1>2, <4>1 DEF ReadPrevious, mindVars
      <4>2. CASE ReadAgain(a)  BY <4>2 DEF ReadAgain
      <4>3. CASE ReadHead(a)  BY <1>2, <4>3 DEF ReadHead, Asked
      <4>4. CASE AskDiff(a)  BY <1>2, <4>4 DEF AskDiff
      <4> QED  BY <4>1, <4>2, <4>3, <4>4
    <3> QED  BY <3>1 DEF IntelTypeOK, Parses
  <2>7. label' \in [Analysts -> Nat]
    <3>1. UNCHANGED label \/ label' = [label EXCEPT ![a] = head]
      BY <1>2 DEF ReadPrevious, ReadAgain, ReadHead, AskDiff, Asked, mindVars
    <3> QED  BY <3>1 DEF IntelTypeOK
  <2> QED  BY <1>0, <2>1, <2>2, <2>3, <2>4, <2>5, <2>6, <2>7 DEF IntelTypeOK, worldVars, countVars
<1>3. ASSUME ~Leaves(a) PROVE Grounded(a)'
  <2>1. CASE ReadPrevious(a)
    <3>1. Parses(intel) => intel # NoIntel
      BY UnreadNoIntels DEF IntelTypeOK, Parses
    <3> QED  BY <1>0, <1>3, <2>1, <3>1
             DEF ReadPrevious, Grounded, Sound, IntelTypeOK, Reaches, mindVars, worldVars
  <2>2. CASE ReadAgain(a)
    BY <1>0, <2>2 DEF ReadAgain, Due, Grounded, Sound, IntelTypeOK, Reaches, worldVars
  <2>3. CASE ReadHead(a)
    BY <1>0, <1>3, <2>3 DEF ReadHead, Asked, Due, Grounded, Sound, IntelTypeOK, Reaches, worldVars
  <2>4. CASE AskDiff(a)
    <3>1. PICK files \in {Diff(checked[a].hash), Sources} :
             /\ Due(a, files)
             /\ moved' = [moved EXCEPT ![a] = previous[a].hash # checked[a].hash \/ label[a] # head]
             /\ UNCHANGED <<mode, previous, checked, label, found>>
      BY <1>3, <2>4 DEF AskDiff
    <3>2. previous[a] # NoIntel /\ checked[a] # NoIntel /\ label[a] \in DOMAIN commits
      BY <2>4 DEF AskDiff, Grounded
    <3>3. changed'[a] = files /\ (moved'[a] <=> previous[a].hash # checked[a].hash \/ label[a] # head)
      BY <3>1 DEF Due, IntelTypeOK
    <3>4. ~moved'[a] /\ files # Sources => \A f \in Sources \ files :
             commits[previous[a].hash][f] = commits[label[a]][f]
      BY <3>1, <3>3 DEF Diff
    <3>5. place'[a] \in {"look", "analyse"}
      BY <3>1 DEF Due, Reaches, IntelTypeOK
    <3> QED  BY <1>0, <3>1, <3>2, <3>3, <3>4, <3>5 DEF Grounded, Sound, worldVars
  <2> QED  BY <2>1, <2>2, <2>3, <2>4
<1>4. ASSUME ~Leaves(a) PROVE \A b \in Analysts : Grounded(b)'
  BY <1>0, <1>3, <1>4, IntelOthers
     DEF IntelTypeOK, ReadPrevious, ReadAgain, ReadHead, AskDiff, Asked, Due, Reaches, mindVars, worldVars
<1> QED  BY <1>1, <1>2, <1>4, <1>5

\* The marker and the child.
LEMMA IntelSpawns ==
  ASSUME IntelInv, NEW a \in Analysts,
         \/ LookForMarker(a) \/ Unlink(a) \/ Mark(a) \/ Spawn(a) \/ SpawnFails(a)
         \/ Unmark(a) \/ AnalystDies(a)
  PROVE  IntelInv'
<1> USE DEF IntelInv
<1>0. UNCHANGED <<worldVars, intel>>
  BY DEF LookForMarker, Unlink, Mark, Spawn, SpawnFails, Unmark, AnalystDies
<1>1. marker' \in {"none", "young", "old"} /\ moves' \in 0..MaxMoves /\ deaths' \in 0..MaxDeaths
  BY IntelConstants DEF IntelTypeOK, LookForMarker, Unlink, Mark, Spawn, SpawnFails, Unmark, AnalystDies, countVars
<1>2. CASE Leaves(a)
  BY <1>0, <1>1, <1>2, IntelLeaves DEF IntelTypeOK, Sound, Parses, worldVars
<1>3. ASSUME Spawn(a) PROVE IntelInv'
  <2>1. IntelTypeOK'
    BY <1>0, <1>1, <1>3, IntelForgets DEF Spawn, IntelTypeOK, Reaches, worldVars
  <2>2. Grounded(a)'
    BY <1>3, IntelForgets DEF Spawn, Grounded, IntelTypeOK, Reaches
  <2>3. \A b \in Analysts : Grounded(b)'
    BY <1>0, <1>3, <2>2, IntelForgets, IntelOthers DEF Spawn, Reaches, worldVars, IntelTypeOK
  <2> QED  BY <1>0, <2>1, <2>3 DEF Sound, worldVars
<1>4. ASSUME UNCHANGED mindVars, place'[a] \in {"mark", "unlink", "spawn"},
             place' = [place EXCEPT ![a] = place'[a]]
      PROVE  IntelInv'
  <2>1. IntelTypeOK'
    BY <1>0, <1>1, <1>4 DEF IntelTypeOK, worldVars, mindVars
  <2>2. Grounded(a)'
    BY <1>0, <1>4 DEF Grounded, Sound, mindVars, worldVars
  <2>3. \A b \in Analysts : Grounded(b)'
    BY <1>0, <1>4, <2>2, IntelOthers DEF mindVars, worldVars, IntelTypeOK
  <2> QED  BY <1>0, <2>1, <2>3 DEF Sound, worldVars
<1> QED  BY <1>2, <1>3, <1>4
         DEF LookForMarker, Unlink, Mark, SpawnFails, Unmark, AnalystDies, Reaches, IntelTypeOK

\* What an analysis makes of the files is sound by the commit it is labelled with.
LEMMA IntelAnalyse ==
  ASSUME IntelInv, NEW a \in Analysts, Analyse(a)
  PROVE  IntelInv'
<1> USE DEF IntelInv
<1> DEFINE new == [hash |-> label[a], entries |-> EntriesOf(a), aged |-> FALSE,
                   doubtful |-> Doubtful(a)]
<1>1. /\ place' = [place EXCEPT ![a] = "truncate"] /\ found' = [found EXCEPT ![a] = new]
      /\ UNCHANGED <<worldVars, intel, marker, mode, previous, checked, label, changed, moved,
                     countVars>>
  BY DEF Analyse, Reaches
<1>2. label[a] \in DOMAIN commits /\ (changed[a] # Sources => previous[a] \in Intels)
  BY DEF Analyse, Grounded, IntelTypeOK
<1>3. changed[a] \in SUBSET Sources /\ tree \in Trees
  BY DEF IntelTypeOK
<1>4. EntriesOf(a) \in Trees
  <2>1. ASSUME NEW f \in Sources PROVE EntriesOf(a)[f] \in Contents \cup {Missing}
    <3>1. CASE f \in changed[a] \/ tree[f] = Missing
      BY <1>3, <3>1 DEF EntriesOf, Trees
    <3>2. CASE ~(f \in changed[a] \/ tree[f] = Missing)
      <4>1. previous[a].entries \in Trees
        BY <1>2, <3>2 DEF Intels
      <4> QED  BY <3>2, <4>1 DEF EntriesOf, Trees
    <3> QED  BY <3>1, <3>2
  <2> QED  BY <2>1 DEF EntriesOf, Trees
<1>5. new \in Intels
  <2>1. label[a] \in Nat /\ Doubtful(a) \in SUBSET Sources
    BY DEF IntelTypeOK, Doubtful
  <2> QED  BY <1>4, <2>1 DEF Intels
<1>6. ASSUME NEW f \in Sources \ Doubtful(a) PROVE EntriesOf(a)[f] = commits[label[a]][f]
  <2>1. CASE f \in changed[a] \/ tree[f] = Missing
    BY <2>1 DEF Doubtful, EntriesOf
  <2>2. CASE ~(f \in changed[a] \/ tree[f] = Missing)
    <3>1. previous[a] # NoIntel /\ Sound(previous[a]) /\ ~moved[a] /\ f \notin previous[a].doubtful
      BY <2>2 DEF Doubtful, Analyse, Grounded
    <3>2. commits[previous[a].hash][f] = commits[label[a]][f]
      BY <2>2, <3>1 DEF Analyse, Grounded
    <3> QED  BY <2>2, <3>1, <3>2 DEF EntriesOf, Sound
  <2> QED  BY <2>1, <2>2
<1>7. new.hash = label[a] /\ new.entries = EntriesOf(a) /\ new.doubtful = Doubtful(a)
  OBVIOUS
<1> HIDE DEF new
<1>8. IntelTypeOK'
  BY <1>1, <1>5 DEF IntelTypeOK, worldVars, countVars
<1>9. place'[a] = "truncate" /\ found'[a] = new /\ new # NoIntel
  BY <1>1, <1>5, UnreadNoIntels DEF IntelTypeOK
<1>10. Grounded(a)'
  <2>1. Sound(found[a])'
    BY <1>1, <1>2, <1>6, <1>7, <1>9 DEF Sound, worldVars
  <2> QED  BY <1>1, <1>9, <2>1 DEF Grounded, Sound, worldVars
<1>11. \A b \in Analysts : Grounded(b)'
  BY <1>1, <1>10, IntelOthers DEF IntelTypeOK, worldVars
<1> QED  BY <1>1, <1>8, <1>11 DEF Sound, Parses, worldVars

\* Writing the intel.
LEMMA IntelWrites ==
  ASSUME IntelInv, NEW a \in Analysts, EmptyIntel(a) \/ FillIntel(a)
  PROVE  IntelInv'
<1> USE DEF IntelInv
<1>0. UNCHANGED <<worldVars, marker, countVars>>
  BY DEF EmptyIntel, FillIntel
<1>1. intel' \in Unread \/ (intel' = found[a] /\ found[a] # NoIntel)
  BY DEF EmptyIntel, FillIntel, Grounded, Unread
<1>2. intel' \in Intels \cup Unread /\ (Parses(intel)' => Sound(intel)')
  BY <1>0, <1>1 DEF IntelTypeOK, Grounded, Sound, Parses, worldVars
<1>3. CASE Leaves(a)
  BY <1>0, <1>2, <1>3, IntelLeaves DEF IntelTypeOK, countVars
<1>4. CASE UNCHANGED mindVars /\ place' = [place EXCEPT ![a] = place'[a]]
           /\ \/ place'[a] = "fill" /\ place[a] = "truncate"
              \/ place'[a] = "unmark"
  <2>1. IntelTypeOK'
    BY <1>0, <1>2, <1>4 DEF IntelTypeOK, worldVars, mindVars, countVars
  <2>2. Grounded(a)'
    BY <1>0, <1>4 DEF Grounded, Sound, mindVars, worldVars
  <2>3. \A b \in Analysts : Grounded(b)'
    BY <1>0, <1>4, <2>2, IntelOthers DEF mindVars, worldVars, IntelTypeOK
  <2> QED  BY <1>2, <2>1, <2>3
<1> QED  BY <1>3, <1>4 DEF EmptyIntel, FillIntel, Reaches, IntelTypeOK

\* The world and the clock.
LEMMA IntelWorld ==
  ASSUME IntelInv, \/ MarkerAges \/ IntelAges \/ \E f \in Sources : EditSource(f)
                   \/ \E h \in DOMAIN commits : Checkout(h)
  PROVE  IntelInv'
<1> USE DEF IntelInv
<1>0. UNCHANGED <<commits, place, mindVars>>
  BY DEF MarkerAges, IntelAges, EditSource, Checkout, worldVars
<1>1. \A b \in Analysts : Grounded(b)'
  BY <1>0 DEF Grounded, Sound, mindVars
<1>2. intel' \in Intels \cup Unread /\ (Parses(intel)' => Sound(intel)')
  <2>1. CASE UNCHANGED intel
    BY <1>0, <2>1 DEF IntelTypeOK, Sound, Parses
  <2>2. CASE IntelAges
    <3>1. intel \in Intels /\ intel' = [intel EXCEPT !.aged = TRUE]
      BY <2>2 DEF IntelAges, Parses, IntelTypeOK
    <3>2. intel' \in Intels
      BY <3>1 DEF Intels
    <3>3. intel'.hash = intel.hash /\ intel'.entries = intel.entries /\ intel'.doubtful = intel.doubtful
      BY <3>1 DEF Intels
    <3>4. Sound(intel)
      BY <2>2 DEF IntelAges
    <3> QED  BY <1>0, <3>2, <3>3, <3>4 DEF Sound
  <2> QED  BY <2>1, <2>2 DEF MarkerAges, EditSource, Checkout
<1>3. tree' \in Trees /\ head' \in DOMAIN commits
  <2>1. CASE \E f \in Sources : EditSource(f)
    BY <2>1 DEF EditSource, IntelTypeOK, Trees
  <2>2. CASE \E h \in DOMAIN commits : Checkout(h)
    BY <2>2 DEF Checkout, IntelTypeOK
  <2>3. CASE UNCHANGED worldVars
    BY <2>3 DEF IntelTypeOK, worldVars
  <2> QED  BY <2>1, <2>2, <2>3 DEF MarkerAges, IntelAges
<1>4. marker' \in {"none", "young", "old"} /\ moves' \in 0..MaxMoves /\ UNCHANGED deaths
  BY IntelConstants DEF IntelTypeOK, MarkerAges, IntelAges, EditSource, Checkout, Moves, countVars
<1> QED  BY <1>0, <1>1, <1>2, <1>3, <1>4 DEF IntelTypeOK, mindVars

\* A commit takes none away.
LEMMA IntelCommit ==
  ASSUME IntelInv, NEW f \in Sources, CommitSource(f)
  PROVE  IntelInv'
<1> USE DEF IntelInv
<1>0. UNCHANGED <<intel, marker, place, mindVars, deaths>>
  BY DEF CommitSource, Moves
<1>1. tree' \in Trees
  BY DEF CommitSource, IntelTypeOK, Trees
<1>2. commits' \in Seq(Trees) /\ head' \in DOMAIN commits'
  BY <1>1 DEF CommitSource, IntelTypeOK
<1>3. \A h \in DOMAIN commits : h \in DOMAIN commits' /\ commits'[h] = commits[h]
  BY <1>1 DEF CommitSource, IntelTypeOK
<1>4. IntelTypeOK'
  BY <1>0, <1>1, <1>2, IntelConstants DEF IntelTypeOK, CommitSource, Moves, mindVars
<1>5. Parses(intel)' => Sound(intel)'
  BY <1>0, <1>3 DEF Sound, Parses
<1>6. ASSUME NEW a \in Analysts PROVE Grounded(a)'
  <2>1. previous[a] # NoIntel => Sound(previous[a]) /\ Sound(previous[a])'
    BY <1>0, <1>3 DEF Grounded, Sound, mindVars
  <2>2. found[a] # NoIntel => Sound(found[a])'
    BY <1>0, <1>3 DEF Grounded, Sound, mindVars
  <2> QED  BY <1>0, <1>3, <2>1, <2>2 DEF Grounded, Sound, mindVars
<1> QED  BY <1>4, <1>5, <1>6

LEMMA IntelInvariant == IntelSpec => []IntelInv
<1>1. IntelInv /\ [IntelNext]_intelVars => IntelInv'
  <2> SUFFICES ASSUME IntelInv, [IntelNext]_intelVars PROVE IntelInv'  OBVIOUS
  <2>1. CASE IntelNext
    BY <2>1, IntelBegin, IntelReads, IntelSpawns, IntelAnalyse, IntelWrites, IntelWorld, IntelCommit
       DEF IntelNext, AnalystStep, AnalystWorks
  <2>2. CASE UNCHANGED intelVars
    BY <2>2 DEF intelVars, worldVars, mindVars, countVars, IntelInv, IntelTypeOK, Grounded, Sound, Parses
  <2> QED  BY <2>1, <2>2
<1> QED  BY <1>1, IntelInitInv, PTL DEF IntelSpec

\* The codebase intelligence keeps its type.
THEOREM IntelTyping == IntelSpec => []IntelTypeOK
BY IntelInvariant, PTL DEF IntelInv

\* Intel that checkStaleness calls fresh has for every file what the checked out
\* commit has, but for the files that were analysed in an uncommitted state and for the
\* entries an overtaken analysis took over: for any number of files, commits and
\* commands (src/lib/codebase-intel.js, checkStaleness and analyzeCodebase).
THEOREM IntelFreshIsCurrent == IntelSpec => []FreshIsCurrent
<1>1. IntelInv => FreshIsCurrent
  BY DEF IntelInv, IntelTypeOK, FreshIsCurrent, Fresh, Diff, Sound, Parses
<1> QED  BY <1>1, IntelInvariant, PTL
-----------------------------------------------------------------------------
USE MemoryConstants DEF MemoryIds, Memories

\* A bounded set of naturals has a greatest member, and Max returns it.
LEMMA MaxIsGreatest ==
  ASSUME NEW S \in SUBSET (0..MaxId), S # {}
  PROVE  Max(S) \in S /\ \A n \in S : n <= Max(S)
<1> DEFINE Gaps == {MaxId - n : n \in S}
           Less == OpToRel(<, Nat)
<1> HIDE DEF Less
<1>1. Gaps \subseteq Nat /\ Gaps # {}
  <2>1. \A n \in S : MaxId - n \in Nat
    OBVIOUS
  <2> QED  BY <2>1
<1>2. \E g \in Gaps : \A h \in Gaps : <<h, g>> \notin Less
  <2> HIDE DEF Gaps, Less
  <2>1. IsWellFoundedOn(Less, Nat)
    BY NatLessThanWellFounded DEF Less
  <2> QED  BY <1>1, <2>1, WFMin
<1>3. \A h, g \in Nat : h < g => <<h, g>> \in Less
  BY DEF Less, OpToRel
<1>4. \E x \in S : \A n \in S : x >= n
  <2>1. PICK g \in Gaps : \A h \in Gaps : ~(h < g)
    <3> HIDE DEF Gaps, Less
    <3> QED  BY <1>1, <1>2, <1>3
  <2>2. PICK x \in S : g = MaxId - x
    BY <2>1
  <2>3. ASSUME NEW n \in S PROVE x >= n
    <3>1. ~(MaxId - n < MaxId - x)
      BY <2>1, <2>2
    <3> QED  BY <3>1
  <2> QED  BY <2>3
<1> QED  BY <1>4 DEF Max

\* The id of a new entry is not in use.
LEMMA NextIdIsFresh ==
  ASSUME NEW S \in Memories
  PROVE  NextId(S) \in Nat /\ \A e \in S : e.id < NextId(S)
<1> DEFINE Ids == {0} \cup {e.id : e \in S}
<1>1. Ids \in SUBSET (0..MaxId) /\ Ids # {}
  OBVIOUS
<1>2. Max(Ids) \in Ids /\ \A n \in Ids : n <= Max(Ids)
  <2> HIDE DEF Ids
  <2> QED  BY <1>1, MaxIsGreatest
<1> QED  BY <1>1, <1>2 DEF NextId
-----------------------------------------------------------------------------
Unique(S) == \A e, f \in S : e.id = f.id => e = f

\* A command that has the file works on one that exists.
Loaded == \A w \in Writers :
  /\ mstep[w] = "load" => memory \in Memories
  /\ mstep[w] = "write" => copy[w] \in Memories /\ Unique(copy[w])

\* Unless another command overtakes it, a copy holds all that is settled.
CopiesHold == ~crossed =>
  \A w \in Writers : mstep[w] = "write" =>
    change[w].adds \cup {e \in settled : e.id \notin change[w].drops} \subseteq copy[w]

\* What became outdated was in a prompt.
OutdatedWasRead == outdated => snapshot # "none"

MemoryInv ==
  /\ MemoryTypeOK
  /\ Loaded /\ Unique(Content)
  /\ CopiesHold /\ MemoriesKept
  /\ OutdatedWasRead /\ StaleIsKnown

LEMMA MemoryInitially == MemoryInit => MemoryInv
<1> SUFFICES ASSUME MemoryInit PROVE MemoryInv  OBVIOUS
<1>1. MemoryTypeOK
  BY DEF MemoryInit, MemoryTypeOK, NoChange
<1>2. Loaded /\ CopiesHold
  BY DEF MemoryInit, Loaded, CopiesHold
<1>3. Unique(Content) /\ MemoriesKept
  BY DEF MemoryInit, Unique, Content, MemoriesKept
<1>4. OutdatedWasRead /\ StaleIsKnown
  BY DEF MemoryInit, OutdatedWasRead, StaleIsKnown
<1> QED  BY <1>1, <1>2, <1>3, <1>4 DEF MemoryInv

\* Calls, existsSync and the session's steps leave the file alone.
LEMMA LookingPreserves ==
  ASSUME MemoryInv, BuildSnapshot \/ Hear \/ \E w \in Writers : MemoryCall(w) \/ Ensure(w)
  PROVE  MemoryInv'
<1>1. MemoryTypeOK'
  BY DEF MemoryInv, MemoryTypeOK, BuildSnapshot, Hear, MemoryCall, Ensure, Goes, pastVars, sessionVars
<1>2. Loaded' /\ CopiesHold'
  BY DEF MemoryInv, MemoryTypeOK, Loaded, Unique, CopiesHold, BuildSnapshot, Hear, MemoryCall,
         Ensure, Goes, pastVars, sessionVars
<1>3. UNCHANGED <<memory, settled, crossed>>
  BY DEF BuildSnapshot, Hear, MemoryCall, Ensure, pastVars
<1>4. Unique(Content)' /\ MemoriesKept'
  BY <1>3 DEF MemoryInv, Unique, Content, MemoriesKept
<1>5. OutdatedWasRead' /\ StaleIsKnown'
  BY DEF MemoryInv, MemoryTypeOK, OutdatedWasRead, StaleIsKnown, BuildSnapshot, Hear,
         MemoryCall, Ensure, pastVars, sessionVars
<1> QED  BY <1>1, <1>2, <1>4, <1>5 DEF MemoryInv

\* The change is made on the copy: a new entry has a fresh id, and nothing that
\* is settled goes but what is dropped.
LEMMA LoadPreserves ==
  ASSUME MemoryInv, NEW w \in Writers, LoadMemory(w)
  PROVE  MemoryInv'
<1>1. mstep[w] = "load" /\ memory \in Memories /\ Content = memory /\ Unique(memory)
  BY NoMemoryIsNone DEF MemoryInv, Loaded, LoadMemory, Content
<1>2. UNCHANGED <<memory, settled, crossed, snapshot, outdated, stale, news>>
  BY DEF LoadMemory, pastVars, sessionVars
<1>3. ASSUME NEW S \in Memories, NEW A \in Memories, NEW D \in SUBSET MemoryIds, Unique(S),
             A \cup {e \in memory : e.id \notin D} \subseteq S,
             Prepare(w, S, [adds |-> A, drops |-> D])
      PROVE  MemoryInv'
  <2>1. MemoryTypeOK'
    BY <1>2, <1>3 DEF MemoryInv, MemoryTypeOK, Prepare, Goes
  <2>2. Loaded'
    BY <1>2, <1>3 DEF MemoryInv, MemoryTypeOK, Loaded, Unique, Prepare, Goes
  <2>3. CopiesHold'
    BY <1>1, <1>2, <1>3 DEF MemoryInv, MemoryTypeOK, CopiesHold, MemoriesKept, Prepare, Goes
  <2>4. (Unique(Content) /\ MemoriesKept /\ OutdatedWasRead /\ StaleIsKnown)'
    BY <1>2 DEF MemoryInv, Unique, Content, MemoriesKept, OutdatedWasRead, StaleIsKnown
  <2> QED  BY <2>1, <2>2, <2>3, <2>4 DEF MemoryInv
<1>4. CASE Quits(w)
  <2>1. MemoryTypeOK'
    BY <1>2, <1>4 DEF MemoryInv, MemoryTypeOK, Quits, Goes, NoChange
  <2>2. Loaded' /\ CopiesHold'
    BY <1>2, <1>4 DEF MemoryInv, MemoryTypeOK, Loaded, CopiesHold, Unique, Quits, Goes
  <2>3. (Unique(Content) /\ MemoriesKept /\ OutdatedWasRead /\ StaleIsKnown)'
    BY <1>2 DEF MemoryInv, Unique, Content, MemoriesKept, OutdatedWasRead, StaleIsKnown
  <2> QED  BY <2>1, <2>2, <2>3 DEF MemoryInv
<1>5. CASE Add(w)
  <2> DEFINE New(t) == [id |-> NextId(memory), text |-> t]
  <2>1. PICK t \in Texts :
          /\ NextId(memory) \in MemoryIds
          /\ Prepare(w, memory \cup {New(t)}, [adds |-> {New(t)}, drops |-> {}])
    BY <1>5 DEF Add
  <2>2. {New(t)} \in Memories /\ memory \cup {New(t)} \in Memories
    BY <1>1, <2>1
  <2>3. Unique(memory \cup {New(t)})
    <3>1. \A e \in memory : e.id # New(t).id
      BY <1>1, NextIdIsFresh
    <3> HIDE DEF New
    <3> QED  BY <1>1, <3>1 DEF Unique
  <2>4. {New(t)} \cup {e \in memory : e.id \notin {}} \subseteq memory \cup {New(t)}
    OBVIOUS
  <2> HIDE DEF New
  <2> QED  BY <1>3, <2>1, <2>2, <2>3, <2>4
<1>6. CASE Drop(w)
  <2>1. PICK ids \in SUBSET MemoryIds :
          Prepare(w, Without(memory, ids), [adds |-> {}, drops |-> ids])
    BY <1>6 DEF Drop
  <2>2. Without(memory, ids) \in Memories /\ Unique(Without(memory, ids))
    BY <1>1 DEF Without, Unique
  <2>3. {} \cup {e \in memory : e.id \notin ids} \subseteq Without(memory, ids)
    BY DEF Without
  <2> QED  BY <1>3, <2>1, <2>2, <2>3
<1> QED  BY <1>4, <1>5, <1>6 DEF LoadMemory
-----------------------------------------------------------------------------
\* What a published file means to the session: if it differs, an event follows.
LEMMA PublishTells ==
  ASSUME MemoryInv, NEW S, PublishMemory(S)
  PROVE  (OutdatedWasRead /\ StaleIsKnown)' /\ outdated' \in BOOLEAN
BY DEF MemoryInv, MemoryTypeOK, OutdatedWasRead, StaleIsKnown, PublishMemory

\* The empty file: nobody's copy counts on what was there, or crossed is set.
LEMMA CreatePreserves ==
  ASSUME MemoryInv, NEW w \in Writers, CreateMemory(w)
  PROVE  MemoryInv'
<1>1. MemoryTypeOK'
  BY DEF MemoryInv, MemoryTypeOK, CreateMemory, PublishMemory, Goes
<1>2. Loaded'
  BY DEF MemoryInv, MemoryTypeOK, Loaded, CreateMemory, PublishMemory, Unique, Goes
<1>3. memory' = {} /\ Content' = {}
  BY NoMemoryIsNone DEF CreateMemory, PublishMemory, Content
<1>4. ~crossed' => settled' = {} /\ \A v \in Writers : mstep'[v] # "write"
  <2> SUFFICES ASSUME ~crossed' PROVE settled' = {} /\ \A v \in Writers : mstep'[v] # "write"
    OBVIOUS
  <2>1. ~crossed /\ memory = NoMemory /\ settled' = settled
    BY DEF CreateMemory
  <2>2. settled = {}
    BY <2>1 DEF MemoryInv, MemoriesKept, Content
  <2> QED  BY <2>1, <2>2 DEF MemoryInv, MemoryTypeOK, CreateMemory, Goes
<1>5. (Unique(Content) /\ MemoriesKept)'
  BY <1>3, <1>4 DEF Unique, MemoriesKept
<1>6. CopiesHold'
  BY <1>4 DEF CopiesHold
<1>7. (OutdatedWasRead /\ StaleIsKnown)'
  BY PublishTells DEF CreateMemory
<1> QED  BY <1>1, <1>2, <1>5, <1>6, <1>7 DEF MemoryInv

\* A copy that nothing overtook holds what is settled; another one sets crossed.
LEMMA WritePreserves ==
  ASSUME MemoryInv, NEW w \in Writers, WriteMemory(w)
  PROVE  MemoryInv'
<1>1. mstep[w] = "write" /\ copy[w] \in Memories /\ Unique(copy[w])
  BY DEF MemoryInv, Loaded, WriteMemory
<1>2. memory' = copy[w] /\ Content' = copy[w]
  BY <1>1, NoMemoryIsNone DEF WriteMemory, PublishMemory, Content
<1>3. MemoryTypeOK'
  BY <1>1, <1>2 DEF MemoryInv, MemoryTypeOK, WriteMemory, PublishMemory, Quits, Goes, NoChange
<1>4. Loaded'
  BY <1>1, <1>2 DEF MemoryInv, MemoryTypeOK, Loaded, Unique, WriteMemory, Quits, Goes
<1>5. ~crossed' => ~crossed /\ \A v \in Writers : mstep'[v] # "write"
  BY DEF MemoryInv, MemoryTypeOK, WriteMemory, Quits, Goes
<1>6. CopiesHold'
  BY <1>5 DEF CopiesHold
<1>7. MemoriesKept'
  BY <1>1, <1>2, <1>5 DEF MemoryInv, CopiesHold, MemoriesKept, WriteMemory
<1>8. Unique(Content)'
  BY <1>1, <1>2 DEF Unique
<1>9. (OutdatedWasRead /\ StaleIsKnown)'
  BY PublishTells DEF WriteMemory
<1> QED  BY <1>3, <1>4, <1>6, <1>7, <1>8, <1>9 DEF MemoryInv

LEMMA MemoryInvStep == MemoryInv /\ [MemoryNext]_memoryVars => MemoryInv'
<1> SUFFICES ASSUME MemoryInv, [MemoryNext]_memoryVars PROVE MemoryInv'  OBVIOUS
<1>1. CASE BuildSnapshot \/ Hear \/ \E w \in Writers : MemoryCall(w) \/ Ensure(w)
  BY <1>1, LookingPreserves
<1>2. ASSUME NEW w \in Writers, LoadMemory(w) PROVE MemoryInv'
  BY <1>2, LoadPreserves
<1>3. ASSUME NEW w \in Writers, CreateMemory(w) PROVE MemoryInv'
  BY <1>3, CreatePreserves
<1>4. ASSUME NEW w \in Writers, WriteMemory(w) PROVE MemoryInv'
  BY <1>4, WritePreserves
<1>5. CASE UNCHANGED memoryVars
  <2>1. MemoryTypeOK'
    BY <1>5 DEF MemoryInv, MemoryTypeOK, memoryVars
  <2>2. (Loaded /\ CopiesHold /\ MemoriesKept /\ OutdatedWasRead /\ StaleIsKnown)'
    BY <1>5 DEF MemoryInv, Loaded, CopiesHold, MemoriesKept, Content, OutdatedWasRead,
                StaleIsKnown, Unique, memoryVars
  <2>3. Unique(Content)'
    BY <1>5 DEF MemoryInv, Unique, Content, memoryVars
  <2> QED  BY <2>1, <2>2, <2>3 DEF MemoryInv
<1> QED  BY <1>1, <1>2, <1>3, <1>4, <1>5 DEF MemoryNext, MemoryStep

LEMMA MemoryInvariance == MemorySpec => []MemoryInv
BY MemoryInitially, MemoryInvStep, PTL DEF MemorySpec

\* Every reachable state of MEMORY.md and the session is well typed.
THEOREM MemoryTyping == MemorySpec => []MemoryTypeOK
BY MemoryInvariance, PTL DEF MemoryInv

\* An id names one entry, however commands of any number of processes overlap.
THEOREM MemoryIdsAreUnique == MemorySpec => []IdsUnique
<1>1. MemoryInv => IdsUnique
  BY DEF MemoryInv, IdsUnique, Unique, Content
<1> QED  BY <1>1, MemoryInvariance, PTL

\* What was reported added stays, as long as no copy is overtaken.
THEOREM MemoriesAreKept == MemorySpec => []MemoriesKept
<1>1. MemoryInv => MemoriesKept
  BY DEF MemoryInv
<1> QED  BY <1>1, MemoryInvariance, PTL

\* A session with an outdated snapshot has been told, or an event is on its way.
THEOREM OutdatedIsNoticed == MemorySpec => []StaleIsKnown
<1>1. MemoryInv => StaleIsKnown
  BY DEF MemoryInv
<1> QED  BY <1>1, MemoryInvariance, PTL
=============================================================================
