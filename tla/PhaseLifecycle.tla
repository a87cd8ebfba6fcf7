--------------------------- MODULE PhaseLifecycle ---------------------------
(***************************************************************************)
(* plan:phase add, insert and remove (src/commands/phase.js): what they    *)
(* do to the directories under .planning/phases and to the headings of     *)
(* ROADMAP.md, which have to carry the same numbers.  No command takes the *)
(* project lock, and a command that dies leaves what it has done.          *)
(*                                                                         *)
(* A phase is numbered int.dec, with dec = 0 for a phase that is no        *)
(* insertion.  Headings are as the commands write them: 2, 02.1.  The      *)
(* checklist, the progress table and the plan ids of ROADMAP.md, the names *)
(* of the files inside a directory and the count in STATE.md are left out. *)
(***************************************************************************)
EXTENDS Naturals, Sequences, FiniteSets, SequencesExt, FiniteSetsExt

CONSTANTS Planners,     \* processes that run phase commands
          Slugs,        \* what descriptions are turned into
          InitPhases,   \* phases of the roadmap to begin with
          Spellings,    \* how a phase to remove is named: "plain" 2, "padded" 02
          MaxCommands,  \* commands that are run (bound)
          NoDir         \* no directory

ASSUME PhaseConstants == InitPhases \in Nat /\ MaxCommands \in Nat

VARIABLES dirs,         \* the directories: what is in each
          headings,     \* the phase headings of ROADMAP.md, in order
          at,           \* where each planner stands
          aim,          \* the phase it works on, and how it is spelled
          dir,          \* the directory it makes or deletes
          todo,         \* the directories it has to rename
          text,         \* the headings it has read
          commands,     \* history: commands so far (bound)
          asked,        \* history: the work a removal was asked for, when it looked
          usurped       \* history: removals whose directory another planner has filled

askedVars == <<asked, usurped>>
phaseVars == <<dirs, headings, at, aim, dir, todo, text, commands, askedVars>>

Number(n) == [int |-> n.int, dec |-> n.dec]
NoAim == [int |-> 0, dec |-> 0, spelling |-> "plain"]

\* An empty directory, and one in which there is the work of a phase.
Empty == [work |-> 0, executed |-> FALSE]
Work == {dirs[n].work : n \in DOMAIN dirs} \ {0}
NewWork == LET taken == Work \cup UNION {asked[p] : p \in Planners}
           IN  Min((1..Cardinality(taken) + 1) \ taken)

\* Directories and control; the numbers are whatever the headings say.
PhaseTypeOK ==
  /\ dirs = [n \in DOMAIN dirs |-> [work |-> dirs[n].work, executed |-> dirs[n].executed]]
  /\ at \in [Planners -> {"none", "mkdir", "keep", "list", "delete", "gather", "rename",
                          "reread", "rewrite"}]
  /\ commands \in 0..MaxCommands
  /\ DOMAIN dir = Planners /\ DOMAIN asked = Planners /\ usurped \subseteq Planners

\* A project: the roadmapper has written the headings, some phases have their
\* directory.  The phases are known by their first numbers.
PhaseInit ==
  /\ headings = [i \in 1..InitPhases |-> [int |-> i, dec |-> 0]]
  /\ \E begun \in SUBSET (1..InitPhases) : \E slug \in [begun -> Slugs] :
       dirs = [n \in {[int |-> i, dec |-> 0, slug |-> slug[i]] : i \in begun} |->
                 [work |-> n.int, executed |-> FALSE]]
  /\ at = [p \in Planners |-> "none"] /\ aim = [p \in Planners |-> NoAim]
  /\ dir = [p \in Planners |-> NoDir] /\ todo = [p \in Planners |-> {}]
  /\ text = [p \in Planners |-> <<>>] /\ commands = 0
  /\ asked = [p \in Planners |-> {}] /\ usurped = {}

Proceeds(p, s) == at' = [at EXCEPT ![p] = s]

\* What the command has read and computed is gone when it is over.
Ends(p) ==
  /\ Proceeds(p, "none")
  /\ aim' = [aim EXCEPT ![p] = NoAim] /\ dir' = [dir EXCEPT ![p] = NoDir]
  /\ todo' = [todo EXCEPT ![p] = {}] /\ text' = [text EXCEPT ![p] = <<>>]
  /\ asked' = [asked EXCEPT ![p] = {}] /\ usurped' = usurped \ {p}

\* History: p puts work into directory n.
Fills(p, n) ==
  usurped' = usurped \cup {q \in Planners \ {p} : at[q] = "delete" /\ dir[q] = n}

Begins(p) == at[p] = "none" /\ commands < MaxCommands /\ commands' = commands + 1
-----------------------------------------------------------------------------
\* phase add: the next integer is one more than the highest in a heading.
AddPhase(p, slug) ==
  /\ Begins(p) /\ Proceeds(p, "mkdir")
  /\ text' = [text EXCEPT ![p] = headings]
  /\ LET next == Max({0} \cup {headings[i].int : i \in DOMAIN headings}) + 1
     IN  dir' = [dir EXCEPT ![p] = [int |-> next, dec |-> 0, slug |-> slug]]
  /\ UNCHANGED <<dirs, headings, aim, todo, askedVars>>

\* phase insert: the phase to follow has a heading, the next decimal is one more
\* than the highest of a directory.
InsertPhase(p, after, slug) ==
  /\ Begins(p) /\ Proceeds(p, "mkdir")
  /\ Contains(headings, [int |-> after, dec |-> 0])
  /\ text' = [text EXCEPT ![p] = headings]
  /\ LET next == Max({0} \cup {n.dec : n \in {m \in DOMAIN dirs : m.int = after}}) + 1
     IN  dir' = [dir EXCEPT ![p] = [int |-> after, dec |-> next, slug |-> slug]]
  /\ UNCHANGED <<dirs, headings, aim, todo, askedVars>>

\* mkdirSync with recursive: a directory that is there already is not touched.
MakeDir(p) ==
  /\ at[p] = "mkdir" /\ Proceeds(p, "keep")
  /\ dirs' = [n \in DOMAIN dirs \cup {dir[p]} |-> IF n \in DOMAIN dirs THEN dirs[n] ELSE Empty]
  /\ UNCHANGED <<headings, aim, dir, todo, text, commands, askedVars>>

\* .gitkeep: the directory is no longer empty.  If it has been renamed or removed
\* meanwhile, the write throws and the command is over.
Keep(p) ==
  /\ at[p] = "keep"
  /\ IF dir[p] \in DOMAIN dirs
       THEN /\ dirs' = IF dirs[dir[p]] = Empty
                       THEN [dirs EXCEPT ![dir[p]].work = NewWork] ELSE dirs
            /\ Proceeds(p, "list") /\ Fills(p, dir[p])
            /\ UNCHANGED <<aim, dir, todo, text, asked>>
       ELSE Ends(p) /\ UNCHANGED dirs
  /\ UNCHANGED <<headings, commands>>

\* The heading is put at the end, or behind the phase it follows, into the text
\* the command has read.
ListPhase(p) ==
  /\ at[p] = "list" /\ Ends(p)
  /\ LET new == Number(dir[p])
         Followed(h) == h = [int |-> new.int, dec |-> 0]
     IN  headings' = IF new.dec = 0 THEN Append(text[p], new)
                     ELSE InsertAt(text[p], SelectInSeq(text[p], Followed) + 1, new)
  /\ UNCHANGED <<dirs, commands>>
-----------------------------------------------------------------------------
\* History: what the command is asked for is the work of the phase with this number.
AsksFor(p, number) ==
  /\ asked' = [asked EXCEPT ![p] = {dirs[n].work : n \in {m \in DOMAIN dirs : Number(m) = number}}]
  /\ UNCHANGED usurped

\* Mutant: 02 for 02-, which 02.1-... begins with as well.
RemoveByPrefix(p, number, spelling, force) ==
  /\ Begins(p) /\ Proceeds(p, "delete") /\ AsksFor(p, number)
  /\ aim' = [aim EXCEPT ![p] = [int |-> number.int, dec |-> number.dec,
                                spelling |-> spelling]]
  /\ LET found == {n \in DOMAIN dirs : n.int = number.int /\ number.dec \in {0, n.dec}}
     IN  \E n \in IF found = {} THEN {NoDir} ELSE found :
            /\ n # NoDir /\ ~force => ~dirs[n].executed
            /\ dir' = [dir EXCEPT ![p] = n]
  /\ UNCHANGED <<dirs, headings, todo, text>>

\* phase remove: the directory is looked up under the padded number, whatever the
\* spelling.  Executed plans in it are an error, unless the removal is forced.
\* Which of several directories with the number sorts first is left open.
RemovePhase(p, number, spelling, force) ==
  /\ Begins(p) /\ Proceeds(p, "delete") /\ AsksFor(p, number)
  /\ aim' = [aim EXCEPT ![p] = [int |-> number.int, dec |-> number.dec,
                                spelling |-> spelling]]
  /\ LET found == {n \in DOMAIN dirs : Number(n) = number}
     IN  \E n \in IF found = {} THEN {NoDir} ELSE found :
            /\ n # NoDir /\ ~force => ~dirs[n].executed
            /\ dir' = [dir EXCEPT ![p] = n]
  /\ UNCHANGED <<dirs, headings, todo, text>>

\* rmSync with recursive and force, if there was a directory: whatever has its name now.
Delete(p) ==
  /\ at[p] = "delete" /\ Proceeds(p, "gather")
  /\ dirs' = IF dir[p] = NoDir THEN dirs ELSE [n \in DOMAIN dirs \ {dir[p]} |-> dirs[n]]
  /\ UNCHANGED <<headings, aim, dir, todo, text, commands, askedVars>>

\* The directories to renumber: the later insertions of the same phase, or every
\* directory with a higher integer, insertions included.
Gather(p) ==
  /\ at[p] = "gather" /\ Proceeds(p, "rename")
  /\ todo' = [todo EXCEPT ![p] =
       {n \in DOMAIN dirs : IF aim[p].dec = 0 THEN n.int > aim[p].int
                            ELSE n.int = aim[p].int /\ n.dec > aim[p].dec}]
  /\ UNCHANGED <<dirs, headings, aim, dir, text, commands, askedVars>>

\* The highest number comes first; which of two with the same number is left open.
FirstOf(S) ==
  {n \in S : \A m \in S : m.int < n.int \/ (m.int = n.int /\ m.dec <= n.dec)}

NewName(p, n) == IF aim[p].dec = 0 THEN [n EXCEPT !.int = @ - 1] ELSE [n EXCEPT !.dec = @ - 1]

\* renameSync throws when the directory is gone, and when one that is not empty has
\* the new name; the catch around the loop gives the rest up, and the command goes on.
Rename(p) ==
  /\ at[p] = "rename" /\ UNCHANGED <<headings, aim, dir, commands, asked>>
  /\ \/ /\ todo[p] = {} /\ Proceeds(p, "reread") /\ UNCHANGED <<dirs, todo, text, usurped>>
     \/ \E n \in FirstOf(todo[p]) :
          LET new == NewName(p, n)
              works == n \in DOMAIN dirs /\ (new \in DOMAIN dirs => dirs[new] = Empty)
          IN  /\ IF works
                   THEN /\ dirs' = [m \in (DOMAIN dirs \ {n}) \cup {new} |->
                                      IF m = new THEN dirs[n] ELSE dirs[m]]
                        /\ Fills(p, new)
                   ELSE UNCHANGED <<dirs, usurped>>
              /\ todo' = [todo EXCEPT ![p] = IF works THEN @ \ {n} ELSE {}]
              /\ UNCHANGED <<at, text>>

Reread(p) ==
  /\ at[p] = "reread" /\ Proceeds(p, "rewrite")
  /\ text' = [text EXCEPT ![p] = headings]
  /\ UNCHANGED <<dirs, headings, aim, dir, todo, commands, askedVars>>

\* The section goes whose heading spells the number as the command was given it: the
\* heading of a phase is plain, that of an insertion padded.
Listed(a) == a.spelling = IF a.dec = 0 THEN "plain" ELSE "padded"
SectionRemoved(hs, a) == IF Listed(a) THEN RemoveFirst(hs, Number(a)) ELSE hs

\* One pass of the renumbering: every heading `old` becomes old - 1.
Pass(hs, old) ==
  [i \in DOMAIN hs |-> IF hs[i] = [int |-> old, dec |-> 0] THEN [hs[i] EXCEPT !.int = old - 1]
                       ELSE hs[i]]

\* The passes run from the highest number (99 in the code) down to the one behind
\* the removed phase, each over the text the one before has left.
Renumbered(hs, removed) ==
  LET highest == Max({removed} \cup {hs[i].int : i \in DOMAIN hs})
      after[old \in removed + 1..highest + 1] ==
        IF old > highest THEN hs ELSE Pass(after[old + 1], old)
  IN  after[removed + 1]

\* ROADMAP.md loses the section; the insertions that follow are not renumbered.
Rewrite(p) ==
  /\ at[p] = "rewrite" /\ Ends(p)
  /\ headings' = LET left == SectionRemoved(text[p], aim[p])
                 IN  IF aim[p].dec = 0 THEN Renumbered(left, aim[p].int) ELSE left
  /\ UNCHANGED <<dirs, commands>>
-----------------------------------------------------------------------------
\* A planner dies, or is stopped.
PlannerDies(p) == at[p] # "none" /\ Ends(p) /\ UNCHANGED <<dirs, headings, commands>>

\* Someone executes a plan of a phase and leaves its SUMMARY.md.
ExecutePlan(n) ==
  /\ dirs[n] # Empty /\ ~dirs[n].executed
  /\ dirs' = [dirs EXCEPT ![n].executed = TRUE]
  /\ UNCHANGED <<headings, at, aim, dir, todo, text, commands, askedVars>>

Known == {headings[i] : i \in DOMAIN headings} \cup {Number(n) : n \in DOMAIN dirs}

PhaseStep(p) ==
  \/ \E slug \in Slugs : AddPhase(p, slug) \/ \E i \in 1..InitPhases : InsertPhase(p, i, slug)
  \/ MakeDir(p) \/ Keep(p) \/ ListPhase(p)
  \/ \E number \in Known, spelling \in Spellings, force \in BOOLEAN :
        RemovePhase(p, number, spelling, force)
  \/ Delete(p) \/ Gather(p) \/ Rename(p) \/ Reread(p) \/ Rewrite(p)
  \/ PlannerDies(p)

PhaseNext == (\E p \in Planners : PhaseStep(p)) \/ \E n \in DOMAIN dirs : ExecutePlan(n)

PhaseSpec == PhaseInit /\ [][PhaseNext]_phaseVars
-----------------------------------------------------------------------------
\* The work of a phase leaves the disk only when a command deletes the directory of the
\* phase it was asked to remove: adding, inserting and renumbering lose none, whatever
\* dies, collides or runs at the same time.  "Delete its directory, renumber all
\* subsequent phases" (workflows/remove-phase.md:2).  The one way to lose another
\* phase's: a second planner puts it under the name that the first has looked up and
\* is about to delete.
WorkKept ==
  [][\A w \in Work \ Work' : \E p \in Planners :
        /\ Delete(p)
        /\ w \in asked[p] \/ (p \in usurped /\ dirs[dir[p]].work = w)]_phaseVars

\* No two headings of ROADMAP.md have the same number: removing a phase renumbers
\* "all subsequent phases to maintain a clean linear sequence"
\* (workflows/remove-phase.md:2).
HeadingsDistinct == \A i, j \in DOMAIN headings : headings[i] = headings[j] => i = j
=============================================================================
