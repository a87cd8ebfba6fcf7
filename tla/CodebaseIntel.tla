---------------------------- MODULE CodebaseIntel ----------------------------
(***************************************************************************)
(* The codebase intelligence: codebase-intel.json, which holds an analysis *)
(* of every source file and the commit it was made at, and the marker      *)
(* .planning/.cache/.analyzing, which keeps background analyses apart      *)
(* (src/lib/codebase-intel.js, src/commands/codebase.js).                  *)
(*                                                                         *)
(* An entry is what its file held when it was analysed.  The commands that *)
(* add conventions, dependencies or rules read the whole file and write it *)
(* back; what they add is left out, and so are projects without git.       *)
(* cachedReadFile is taken to return the file (FileCache says when).       *)
(***************************************************************************)
EXTENDS Naturals, Sequences

CONSTANTS Sources,      \* the source files
          Contents,     \* what a source file may hold
          Missing,      \* there is no such file
          Analysts,     \* processes that run commands
          Blank,        \* codebase-intel.json is absent or empty
          Garbled,      \* it holds text that does not parse
          NoIntel,      \* nothing has been read
          MaxMoves,     \* changes of the project, commands but for triggers (bound)
          MaxDeaths     \* deaths and failures to spawn (bound)

ASSUME IntelConstants == MaxMoves \in Nat /\ MaxDeaths \in Nat

VARIABLES commits,      \* every commit made so far
          head,         \* the one that is checked out
          tree,         \* the files on disk
          intel,        \* codebase-intel.json
          marker,       \* .analyzing: none, young, or older than five minutes
          place,        \* where each process stands
          mode,         \* what it runs
          previous,     \* the intel it starts from
          checked,      \* the intel checkStaleness has read
          label,        \* HEAD as getGitInfo has cached it
          changed,      \* the files to analyse
          moved,        \* history: what it read did not hold still
          found,        \* the intel it is going to write
          moves, deaths \* history: for the bounds

mindVars == <<mode, previous, checked, label, changed, moved, found>>
worldVars == <<commits, head, tree>>
countVars == <<moves, deaths>>
intelVars == <<worldVars, intel, marker, place, mindVars, countVars>>

Trees == [Sources -> Contents \cup {Missing}]
Intels == [hash : Nat, entries : Trees, aged : BOOLEAN, doubtful : SUBSET Sources]
Unread == {Blank, Garbled}

ASSUME UnreadNoIntels == \A x \in Unread \cup {NoIntel} : x \notin Intels

IntelTypeOK ==
  /\ commits \in Seq(Trees) /\ head \in DOMAIN commits /\ tree \in Trees
  /\ intel \in Intels \cup Unread /\ marker \in {"none", "young", "old"}
  /\ place \in [Analysts -> {"none", "read", "check", "head", "diff", "look", "unlink",
                             "mark", "spawn", "analyse", "truncate", "fill", "unmark"}]
  /\ mode \in [Analysts -> {"none", "analyze", "trigger", "refresh", "annotate"}]
  /\ previous \in [Analysts -> Intels \cup {NoIntel}]
  /\ checked \in [Analysts -> Intels \cup {NoIntel}]
  /\ label \in [Analysts -> Nat] /\ changed \in [Analysts -> SUBSET Sources]
  /\ moved \in [Analysts -> BOOLEAN] /\ found \in [Analysts -> Intels \cup {NoIntel}]
  /\ moves \in 0..MaxMoves /\ deaths \in 0..MaxDeaths

\* A project with one commit and nothing analysed, or all of it analysed.
Analysed(t) == [hash |-> 1, entries |-> t, aged |-> FALSE, doubtful |-> {}]
IntelInit ==
  /\ \E t \in Trees : commits = <<t>> /\ tree = t /\ intel \in {Blank, Analysed(t)}
  /\ head = 1 /\ marker = "none" /\ moves = 0 /\ deaths = 0
  /\ place = [a \in Analysts |-> "none"] /\ mode = [a \in Analysts |-> "none"]
  /\ previous = [a \in Analysts |-> NoIntel] /\ checked = [a \in Analysts |-> NoIntel]
  /\ label = [a \in Analysts |-> 0] /\ changed = [a \in Analysts |-> {}]
  /\ moved = [a \in Analysts |-> FALSE] /\ found = [a \in Analysts |-> NoIntel]

Parses(i) == i \notin Unread
Reaches(a, s) == place' = [place EXCEPT ![a] = s]

\* A process that ends, or becomes another, has forgotten everything.
Forgets(a) ==
  /\ previous' = [previous EXCEPT ![a] = NoIntel] /\ checked' = [checked EXCEPT ![a] = NoIntel]
  /\ label' = [label EXCEPT ![a] = 0] /\ changed' = [changed EXCEPT ![a] = {}]
  /\ moved' = [moved EXCEPT ![a] = FALSE] /\ found' = [found EXCEPT ![a] = NoIntel]
Leaves(a) == Reaches(a, "none") /\ mode' = [mode EXCEPT ![a] = "none"] /\ Forgets(a)

Runs(a, m) == place[a] = "none" /\ mode' = [mode EXCEPT ![a] = m]
Moves == moves < MaxMoves /\ moves' = moves + 1 /\ UNCHANGED deaths
-----------------------------------------------------------------------------
\* codebase analyze, and with --full.
Analyze(a, full) ==
  /\ Runs(a, "analyze") /\ Moves /\ Reaches(a, IF full THEN "head" ELSE "read")
  /\ UNCHANGED <<worldVars, intel, marker, previous, checked, label, changed, moved, found>>

\* An init command that triggers an analysis in the background when it is due.
Trigger(a) ==
  /\ Runs(a, "trigger") /\ Reaches(a, "read")
  /\ UNCHANGED <<worldVars, intel, marker, previous, checked, label, changed, moved, found,
                 countVars>>

\* An init command with --refresh: the marker goes, the analysis is its own.
Refresh(a) ==
  /\ Runs(a, "refresh") /\ Moves /\ Reaches(a, "read") /\ marker' = "none"
  /\ UNCHANGED <<worldVars, intel, previous, checked, label, changed, moved, found>>

\* codebase conventions, deps, rules, impact, context: what they read they write back.
Annotate(a) ==
  /\ Parses(intel) /\ Runs(a, "annotate") /\ Moves /\ Reaches(a, "truncate")
  /\ found' = [found EXCEPT ![a] = intel]
  /\ UNCHANGED <<worldVars, intel, marker, previous, checked, label, changed, moved>>

\* Without intel an analysis is a full one; init commands leave it to the user.
ReadPrevious(a) ==
  /\ place[a] = "read" /\ UNCHANGED <<worldVars, intel, marker, countVars>>
  /\ \/ /\ Parses(intel) /\ Reaches(a, "check")
        /\ previous' = [previous EXCEPT ![a] = intel]
        /\ UNCHANGED <<mode, checked, label, changed, moved, found>>
     \/ /\ ~Parses(intel) /\ mode[a] = "analyze" /\ Reaches(a, "head")
        /\ UNCHANGED mindVars
     \/ ~Parses(intel) /\ mode[a] # "analyze" /\ Leaves(a)

\* The analysis is due: of these files, or of all.
Due(a, files) ==
  /\ changed' = [changed EXCEPT ![a] = files]
  /\ Reaches(a, IF mode[a] = "trigger" THEN "look" ELSE "analyse")

\* checkStaleness reads the file once more; without intel everything is due, and
\* performAnalysis will ask for HEAD.
ReadAgain(a) ==
  /\ place[a] = "check"
  /\ \/ /\ Parses(intel) /\ Reaches(a, "head")
        /\ checked' = [checked EXCEPT ![a] = intel] /\ UNCHANGED changed
     \/ /\ ~Parses(intel) /\ UNCHANGED <<checked>>
        /\ IF mode[a] = "trigger" THEN Due(a, Sources) ELSE Reaches(a, "head") /\ UNCHANGED changed
  /\ UNCHANGED <<worldVars, intel, marker, mode, previous, label, moved, found, countVars>>

\* getGitInfo, which remembers HEAD for the rest of the process.
Asked(a) == label' = [label EXCEPT ![a] = head] /\ UNCHANGED <<mode, previous, checked, moved, found>>
ReadHead(a) ==
  /\ place[a] = "head" /\ UNCHANGED <<worldVars, intel, marker, countVars>>
  /\ IF checked[a] = NoIntel THEN Asked(a) /\ Due(a, Sources)
     ELSE \/ checked[a].hash # head /\ Asked(a) /\ Reaches(a, "diff") /\ UNCHANGED changed
          \/ checked[a].hash = head /\ checked[a].aged /\ Asked(a) /\ Due(a, Sources)
          \/ checked[a].hash = head /\ ~checked[a].aged /\ Leaves(a)

\* git diff between the commit of the intel and what HEAD is by now; it fails when
\* the commit is gone.  What is analysed is added to what was read first.
Diff(h) == {f \in Sources : commits[h][f] # commits[head][f]}
AskDiff(a) ==
  /\ place[a] = "diff" /\ UNCHANGED <<worldVars, intel, marker, countVars>>
  /\ \/ Diff(checked[a].hash) = {} /\ Leaves(a)
     \/ /\ \E files \in {Diff(checked[a].hash), Sources} : files # {} /\ Due(a, files)
        /\ moved' = [moved EXCEPT ![a] = previous[a].hash # checked[a].hash \/ label[a] # head]
        /\ UNCHANGED <<mode, previous, checked, label, found>>
-----------------------------------------------------------------------------
\* Mutant: a marker never expires.
LookForMarkerOnly(a) ==
  /\ place[a] = "look" /\ UNCHANGED <<worldVars, intel, marker, countVars>>
  /\ \/ marker # "none" /\ Leaves(a)
     \/ marker = "none" /\ Reaches(a, "mark") /\ UNCHANGED mindVars

\* spawnBackgroundAnalysis: a marker younger than five minutes means that somebody
\* is at it.
LookForMarker(a) ==
  /\ place[a] = "look" /\ UNCHANGED <<worldVars, intel, marker, countVars>>
  /\ \/ marker = "young" /\ Leaves(a)
     \/ /\ marker # "young" /\ Reaches(a, IF marker = "old" THEN "unlink" ELSE "mark")
        /\ UNCHANGED mindVars

Unlink(a) ==
  /\ place[a] = "unlink" /\ Reaches(a, "mark") /\ marker' = "none"
  /\ UNCHANGED <<worldVars, intel, mindVars, countVars>>

Mark(a) ==
  /\ place[a] = "mark" /\ Reaches(a, "spawn") /\ marker' = "young"
  /\ UNCHANGED <<worldVars, intel, mindVars, countVars>>

\* The command ends; its child is a codebase analyze.
Spawn(a) ==
  /\ place[a] = "spawn" /\ Reaches(a, "read") /\ mode' = [mode EXCEPT ![a] = "analyze"]
  /\ Forgets(a) /\ UNCHANGED <<worldVars, intel, marker, countVars>>

SpawnFails(a) ==
  /\ place[a] = "spawn" /\ deaths < MaxDeaths /\ deaths' = deaths + 1
  /\ marker' = "none" /\ Leaves(a) /\ UNCHANGED <<worldVars, intel, moves>>
-----------------------------------------------------------------------------
\* What an analysis makes of the files on disk; the walk over them is one step, since
\* no two files are compared.  An entry is in doubt if the file was not as committed,
\* or if it is taken over and the readings behind it did not hold still.
EntriesOf(a) ==
  [f \in Sources |-> IF f \in changed[a] \/ tree[f] = Missing THEN tree[f]
                     ELSE previous[a].entries[f]]
Doubtful(a) ==
  {f \in Sources : IF f \in changed[a] \/ tree[f] = Missing THEN tree[f] # commits[label[a]][f]
                   ELSE moved[a] \/ f \in previous[a].doubtful}

\* Mutant: HEAD is asked for after the files were read.
AnalyseBeforeHead(a) ==
  /\ place[a] = "analyse" /\ Reaches(a, "truncate")
  /\ found' = [found EXCEPT ![a] = [hash |-> head, entries |-> EntriesOf(a), aged |-> FALSE,
                                    doubtful |-> Doubtful(a)]]
  /\ UNCHANGED <<worldVars, intel, marker, mode, previous, checked, label, changed, moved,
                 countVars>>

Analyse(a) ==
  /\ place[a] = "analyse" /\ Reaches(a, "truncate")
  /\ found' = [found EXCEPT ![a] = [hash |-> label[a], entries |-> EntriesOf(a), aged |-> FALSE,
                                    doubtful |-> Doubtful(a)]]
  /\ UNCHANGED <<worldVars, intel, marker, mode, previous, checked, label, changed, moved,
                 countVars>>

\* writeFileSync empties the file and fills it.
EmptyIntel(a) ==
  /\ place[a] = "truncate" /\ Reaches(a, "fill") /\ intel' = Blank
  /\ UNCHANGED <<worldVars, marker, mindVars, countVars>>

\* If somebody else has filled it meanwhile, the end of a longer text may stay.
FillIntel(a) ==
  /\ place[a] = "fill"
  /\ \/ intel' = found[a]
     \/ intel # Blank /\ intel' = Garbled
  /\ IF mode[a] = "analyze" THEN Reaches(a, "unmark") /\ UNCHANGED mindVars ELSE Leaves(a)
  /\ UNCHANGED <<worldVars, marker, countVars>>

\* The marker goes, whoever made it.
Unmark(a) ==
  /\ place[a] = "unmark" /\ Leaves(a) /\ marker' = "none"
  /\ UNCHANGED <<worldVars, intel, countVars>>
-----------------------------------------------------------------------------
\* A process dies.
AnalystDies(a) ==
  /\ place[a] # "none" /\ deaths < MaxDeaths /\ deaths' = deaths + 1
  /\ Leaves(a) /\ UNCHANGED <<worldVars, intel, marker, moves>>

MarkerAges ==
  /\ marker = "young" /\ marker' = "old"
  /\ UNCHANGED <<worldVars, intel, place, mindVars, countVars>>

\* An hour passes: what is fresh by its commit is due all the same.
IntelAges ==
  /\ Parses(intel) /\ ~intel.aged /\ Moves
  /\ intel' = [intel EXCEPT !.aged = TRUE]
  /\ UNCHANGED <<worldVars, marker, place, mindVars>>

\* People and agents edit files, commit what they have, and check out other commits.
EditSource(f) ==
  /\ Moves /\ \E v \in Contents \cup {Missing} : tree' = [tree EXCEPT ![f] = v]
  /\ UNCHANGED <<commits, head, intel, marker, place, mindVars>>

CommitSource(f) ==
  /\ Moves /\ \E v \in Contents \cup {Missing} : tree' = [tree EXCEPT ![f] = v]
  /\ tree' # commits[head]
  /\ commits' = Append(commits, tree') /\ head' = Len(commits) + 1
  /\ UNCHANGED <<intel, marker, place, mindVars>>

Checkout(h) ==
  /\ h # head /\ tree = commits[head] /\ Moves /\ head' = h /\ tree' = commits[h]
  /\ UNCHANGED <<commits, intel, marker, place, mindVars>>

AnalystWorks(a) ==
  \/ ReadPrevious(a) \/ ReadAgain(a) \/ ReadHead(a) \/ AskDiff(a)
  \/ LookForMarker(a) \/ Unlink(a) \/ Mark(a) \/ Spawn(a)
  \/ Analyse(a) \/ EmptyIntel(a) \/ FillIntel(a) \/ Unmark(a)

AnalystStep(a) ==
  \/ AnalystWorks(a) \/ Trigger(a) \/ Refresh(a) \/ Annotate(a)
  \/ (\E full \in BOOLEAN : Analyze(a, full)) \/ SpawnFails(a) \/ AnalystDies(a)

IntelNext ==
  \/ \E a \in Analysts : AnalystStep(a)
  \/ MarkerAges \/ IntelAges
  \/ (\E f \in Sources : EditSource(f) \/ CommitSource(f)) \/ \E h \in DOMAIN commits : Checkout(h)

IntelSpec == IntelInit /\ [][IntelNext]_intelVars
-----------------------------------------------------------------------------
\* What checkStaleness makes of an intel.
Fresh(i) == IF i.hash = head THEN ~i.aged ELSE Diff(i.hash) = {}

\* "Good - no stale data" (docs/decisions.md:282): an intel that is fresh by its commit
\* has for every file what the checked out commit has, unless the file was analysed
\* while it differed from the commit, or its entry was taken over by an analysis
\* overtaken by another or by a commit.
FreshIsCurrent ==
  Parses(intel) /\ Fresh(intel) =>
    \A f \in Sources \ intel.doubtful : intel.entries[f] = commits[head][f]

\* Whatever dies and leaves its marker behind: as long as init commands are run, the
\* intel is fresh again and again, unless it was lost, which they leave to the user.
IntelRefreshed == <>[](~Parses(intel)) \/ []<>(Parses(intel) /\ Fresh(intel))
=============================================================================
