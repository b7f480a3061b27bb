--------------------------------- MODULE Dag ---------------------------------
(***************************************************************************)
(* validateDag of workflow/dag.js: the structural checks, Kahn's algorithm *)
(* (kahn, one action per wave), and the depth-first search that names a    *)
(* cycle (findCycle, one action per edge it looks at). A definition is a   *)
(* sequence of tasks, each with a key and the sequence of the keys it      *)
(* depends on, as the API receives it.                                     *)
(*                                                                         *)
(* The order inside a wave, and the order in which the search takes up     *)
(* tasks and dependencies, follow the input in the code and are left open  *)
(* here: nothing that validateDag promises depends on them.                *)
(***************************************************************************)
EXTENDS Integers, FiniteSets, SequencesExt

CONSTANTS
  TaskKey,      \* task keys
  Definition    \* the definitions that are submitted

ASSUME DefinitionAssumption ==
  Definition \subseteq Seq([key : TaskKey, dependsOn : Seq(TaskKey)])

VARIABLES
  tasks,     \* the definition at hand
  phase,     \* "check", "kahn", "search", "valid", "invalid"
  errors,    \* the errors found, as <<code, key, dependency>>
  inDegree,  \* kahn: key -> dependencies not yet emitted
  wave,      \* kahn: the tasks that can start now
  levels,    \* kahn: the waves so far
  path,      \* findCycle: the GREY keys, in the order they were entered
  black,     \* findCycle: the BLACK keys
  left,      \* findCycle: key -> dependencies not yet looked at
  cycle      \* the cycle reported

dagVars == <<tasks, phase, errors, inDegree, wave, levels, path, black, left, cycle>>

DagInit ==
  /\ tasks \in Definition
  /\ phase = "check" /\ errors = {}
  /\ inDegree = <<>> /\ wave = {} /\ levels = <<>>
  /\ path = <<>> /\ black = {} /\ left = <<>> /\ cycle = <<>>

Keys == {tasks[i].key : i \in DOMAIN tasks}

\* What occurs in a sequence for the second time: counted.has(dep).
Repeated(s) == {s[j] : j \in {k \in DOMAIN s : \E i \in 1 .. k - 1 : s[i] = s[k]}}

-----------------------------------------------------------------------------
(* 1. Structural checks: all errors are collected.                         *)

KeyErrors ==
  {<<"DUPLICATE_KEY", k, k>> : k \in Repeated([i \in DOMAIN tasks |-> tasks[i].key])}

\* Mutant: a dependency listed twice is accepted.
EdgeErrorsButRepeated(t) ==
  {<<IF d = t.key THEN "SELF_DEPENDENCY" ELSE "UNKNOWN_DEPENDENCY", t.key, d>> :
     d \in {e \in ToSet(t.dependsOn) : e = t.key \/ e \notin Keys}}

EdgeErrors(t) ==
  {<<IF d = t.key THEN "SELF_DEPENDENCY" ELSE "UNKNOWN_DEPENDENCY", t.key, d>> :
     d \in {e \in ToSet(t.dependsOn) : e = t.key \/ e \notin Keys}}
  \cup {<<"DUPLICATE_DEPENDENCY", t.key, d>> : d \in Repeated(t.dependsOn)}

StructuralErrors == KeyErrors \cup UNION {EdgeErrors(tasks[i]) : i \in DOMAIN tasks}

\* dependsOn of the task with key k; keys are unique from here on.
DependsOnOf(k) == tasks[CHOOSE i \in DOMAIN tasks : tasks[i].key = k].dependsOn
Deps(k) == ToSet(DependsOnOf(k))

CheckStructure ==
  /\ phase = "check"
  /\ errors' = StructuralErrors
  /\ IF StructuralErrors # {}
     THEN phase' = "invalid" /\ UNCHANGED <<inDegree, wave>>
     ELSE /\ phase' = "kahn"
          /\ inDegree' = [k \in Keys |-> Len(DependsOnOf(k))]
          /\ wave' = {k \in Keys : Len(DependsOnOf(k)) = 0}
  /\ UNCHANGED <<tasks, levels, path, black, left, cycle>>

-----------------------------------------------------------------------------
(* 2. Kahn's algorithm.                                                    *)

\* The edges to c from the tasks of the wave: how often it is decremented.
Decrements(c) == Cardinality({j \in DOMAIN DependsOnOf(c) : DependsOnOf(c)[j] \in wave})

\* The children that the wave brings down to 0 are the next one.
NextWave ==
  /\ phase = "kahn" /\ wave # {}
  /\ levels' = Append(levels, wave)
  /\ inDegree' = [c \in Keys |-> inDegree[c] - Decrements(c)]
  /\ wave' = {c \in Keys : Decrements(c) > 0 /\ inDegree[c] = Decrements(c)}
  /\ UNCHANGED <<tasks, phase, errors, path, black, left, cycle>>

Emitted == UNION {levels[n] : n \in DOMAIN levels}

Unprocessed == Keys \ Emitted

\* Everything is emitted, or the search for a cycle begins.
KahnEnds ==
  /\ phase = "kahn" /\ wave = {}
  /\ IF Unprocessed = {}
     THEN phase' = "valid" /\ UNCHANGED left
     ELSE phase' = "search" /\ left' = [k \in Keys |-> Deps(k)]
  /\ UNCHANGED <<tasks, errors, inDegree, wave, levels, path, black, cycle>>

-----------------------------------------------------------------------------
(* 3. findCycle: depth-first, from a task to its dependencies.             *)

Top == path[Len(path)]

\* The outer loop: a candidate that is still WHITE. (The code has a fallback
\* for when there is none; see SearchGoesOn.)
Visit(k) ==
  /\ phase = "search" /\ path = <<>>
  /\ k \in Unprocessed \ black
  /\ path' = <<k>>
  /\ UNCHANGED <<tasks, phase, errors, inDegree, wave, levels, black, left, cycle>>

\* path.slice(path.indexOf(dep)), dep, in reverse
CycleFrom(d) ==
  Reverse(Append(SubSeq(path, CHOOSE i \in DOMAIN path : path[i] = d, Len(path)), d))

\* The loop over the dependencies of the task on top: a GREY one closes a
\* cycle, a WHITE one is visited.
LookAt(d) ==
  /\ phase = "search" /\ path # <<>>
  /\ d \in left[Top]
  /\ left' = [left EXCEPT ![Top] = @ \ {d}]
  /\ IF d \in ToSet(path)
     THEN /\ phase' = "invalid" /\ cycle' = CycleFrom(d)
          /\ errors' = {<<"CYCLE", d, d>>}
          /\ UNCHANGED path
     ELSE /\ path' = IF d \in black THEN path ELSE Append(path, d)
          /\ UNCHANGED <<phase, errors, cycle>>
  /\ UNCHANGED <<tasks, inDegree, wave, levels, black>>

\* path.pop(), and BLACK.
Leave ==
  /\ phase = "search" /\ path # <<>>
  /\ left[Top] = {}
  /\ path' = Front(path)
  /\ black' = black \cup {Top}
  /\ UNCHANGED <<tasks, phase, errors, inDegree, wave, levels, left, cycle>>

DagNext ==
  \/ CheckStructure \/ NextWave \/ KahnEnds
  \/ \E k \in Keys : Visit(k) \/ LookAt(k)
  \/ Leave

DagSpec == DagInit /\ [][DagNext]_dagVars

-----------------------------------------------------------------------------
(* Properties.                                                             *)

\* The reference: unique keys, known and unrepeated dependencies, and in every
\* set of tasks one that waits for no other of the set. That is what Engine
\* assumes of a workflow (DagAssumption).
IsDag ==
  /\ \A i, j \in DOMAIN tasks : tasks[i].key = tasks[j].key => i = j
  /\ \A i \in DOMAIN tasks : /\ Repeated(tasks[i].dependsOn) = {}
                             /\ ToSet(tasks[i].dependsOn) \subseteq Keys
  /\ \A S \in SUBSET DOMAIN tasks : S # {} =>
       \E i \in S : \A j \in S : tasks[j].key \notin ToSet(tasks[i].dependsOn)

\* validateDag accepts a definition exactly if it is a DAG.
VerdictRight ==
  /\ phase = "valid" => IsDag
  /\ phase = "invalid" => ~IsDag

\* Of a valid definition, every task is emitted once, and in the first wave
\* after all its dependencies: order is topological, and the number of levels
\* is the length of the longest chain.
LevelsAreEarliest ==
  phase = "valid" =>
    /\ Emitted = Keys
    /\ \A n \in DOMAIN levels : \A k \in levels[n] :
         /\ \A m \in DOMAIN levels : k \in levels[m] => m = n
         /\ \A d \in Deps(k) : \E m \in 1 .. n - 1 : d \in levels[m]
         /\ n > 1 => \E d \in Deps(k) : d \in levels[n - 1]

\* The search does not run out of candidates before it has found a cycle:
\* "Unreachable when called with Kahn's leftovers" (dag.js:214).
SearchGoesOn == phase = "search" /\ path = <<>> => Unprocessed \ black # {}

\* The cycle reported is one: it closes, repeats nothing else, and each of its
\* tasks is a dependency of the next.
CycleIsReal ==
  cycle # <<>> =>
    /\ Len(cycle) > 2 /\ cycle[1] = cycle[Len(cycle)]
    /\ \A i, j \in 1 .. Len(cycle) - 1 : cycle[i] = cycle[j] => i = j
    /\ \A i \in 1 .. Len(cycle) - 1 : cycle[i] \in Deps(cycle[i + 1])

\* What validateDag says of a definition is true: the verdict, the levels of a
\* DAG, and the cycle of what is none (dag.js:35-106,128-216).
ValidationRight == VerdictRight /\ LevelsAreEarliest /\ SearchGoesOn /\ CycleIsReal
=============================================================================
