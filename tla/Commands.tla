------------------------------ MODULE Commands ------------------------------
(***************************************************************************)
(* What is kept of the runs of a custom command                            *)
(* (src/pkg/triggers/commands).  The trigger loop runs it, one run at a    *)
(* time (TriggerLoop), while pages of the web UI show what came of it.  A  *)
(* run has the lock for reading, and writes the command line with that; it *)
(* takes the lock for writing to note its end.  A command line is two      *)
(* words, which are neither written nor read at once.                      *)
(***************************************************************************)
EXTENDS Integers

CONSTANTS
  Pages,     \* requests that show the command
  MaxRuns    \* bound on the runs

CommandsAssumption == MaxRuns \in Nat

VARIABLES
  broken,     \* Setup could not make sense of the command: it is not run
  at,         \* where the run is
  id,         \* the number of the run
  failing,    \* it failed
  stats,      \* runs and fails; of which run the output and the arguments are
  line,       \* lastCmd, of which run each of its words is
  lineless,   \* history: runs that ended before they had a command line
  page        \* each: where it is, what it read, and whether the line may have been written as it read

commandVars == <<broken, at, id, failing, stats, line, lineless, page>>

None == [runs |-> 0, fails |-> 0, output |-> 0, args |-> 0]
Closed == [at |-> "closed", stats |-> None, line |-> <<0, 0>>, crossed |-> FALSE]

Init ==
  /\ broken \in BOOLEAN /\ at = "idle" /\ id = 0 /\ failing = FALSE
  /\ stats = None /\ line = <<0, 0>> /\ lineless = {}
  /\ page = [p \in Pages |-> Closed]

-----------------------------------------------------------------------------
(* Both kinds of readers have the lock at once; it is not given to read when someone waits to write. *)
Reading(p) == page[p].at \in {"first", "second"}
Readable == at \notin {"ended", "log"}
Writable == \A p \in Pages : ~Reading(p)
To(from, next) == at = from /\ at' = next

(* RunNow and exec. *)
RunNow ==
  /\ ~broken /\ id < MaxRuns /\ id' = id + 1 /\ To("idle", "args")
  /\ page' = [p \in Pages |-> [page[p] EXCEPT !.crossed = @ \/ Reading(p)]]
  /\ UNCHANGED <<broken, failing, stats, line, lineless>>

NotRun ==
  /\ broken /\ at = "idle" /\ Writable
  /\ stats' = [stats EXCEPT !.output = 0]
  /\ UNCHANGED <<broken, at, id, failing, line, lineless, page>>

(* getCmd: the arguments are not those that the command takes, or there is no such command. *)
GetCmd ==
  /\ To("args", "ended") /\ failing' = TRUE
  /\ lineless' = lineless \cup {id}
  /\ UNCHANGED <<broken, id, stats, line, page>>

NoteLine ==
  /\ \/ To("args", "line") /\ line' = [line EXCEPT ![1] = id]
     \/ To("line", "exec") /\ line' = [line EXCEPT ![2] = id]
  /\ UNCHANGED <<broken, id, failing, stats, lineless, page>>

(* The command ends, or its time does. *)
Exec ==
  /\ To("exec", "ended") /\ failing' \in BOOLEAN
  /\ UNCHANGED <<broken, id, stats, line, lineless, page>>

(* logOutput. *)
LogOutput ==
  /\ Writable /\ To("ended", "log")
  /\ stats' = [stats EXCEPT !.runs = @ + 1, !.output = id]
  /\ UNCHANGED <<broken, id, failing, line, lineless, page>>

LogFailed ==
  /\ To("log", "idle")
  /\ stats' = [stats EXCEPT !.args = id, !.fails = IF failing THEN @ + 1 ELSE @]
  /\ UNCHANGED <<broken, id, failing, line, lineless, page>>

-----------------------------------------------------------------------------
Underway == at \notin {"idle", "ended", "log"}
Begins(p) ==
  /\ page[p].at = "closed"
  /\ page' = [page EXCEPT ![p] = [Closed EXCEPT !.at = "first", !.stats = stats, !.crossed = Underway]]
  /\ UNCHANGED <<broken, at, id, failing, stats, line, lineless>>

(* Mutant: the lock is not taken. *)
BeginsUnlocked(p) == Begins(p)

(* Stats, as handleCommandStats and the templates of the web UI ask for them. *)
Stats(p) == Readable /\ Begins(p)

ReadLine(p) ==
  /\ \/ page[p].at = "first" /\ page' = [page EXCEPT ![p].at = "second", ![p].line[1] = line[1]]
     \/ page[p].at = "second" /\ page' = [page EXCEPT ![p].at = "shown", ![p].line[2] = line[2]]
  /\ UNCHANGED <<broken, at, id, failing, stats, line, lineless>>

Close(p) ==
  /\ page[p].at = "shown" /\ page' = [page EXCEPT ![p] = Closed]
  /\ UNCHANGED <<broken, at, id, failing, stats, line, lineless>>

Next ==
  \/ RunNow \/ NotRun \/ GetCmd \/ NoteLine \/ Exec \/ LogOutput \/ LogFailed
  \/ \E p \in Pages : Stats(p) \/ ReadLine(p) \/ Close(p)

CommandsSpec == Init /\ [][Next]_commandVars

-----------------------------------------------------------------------------
TypeOK ==
  /\ at \in {"idle", "args", "line", "exec", "ended", "log"} /\ id \in 0..MaxRuns
  /\ {line[1], line[2], stats.output, stats.args, stats.runs, stats.fails} \subseteq 0..MaxRuns
  /\ {broken, failing} \subseteq BOOLEAN /\ lineless \subseteq 1..MaxRuns
  /\ \A p \in Pages : page[p].at \in {"closed", "first", "second", "shown"}

(* What a page shows is of one run: the output and the arguments always, with no more failures than runs; the command
   line, too, which the lock does not protect, unless a run was under way or the run that ended last had none. *)
StatsAreOfOneRun ==
  \A p \in Pages : page[p].at = "shown" =>
    LET s == page[p].stats IN
    /\ s.output = s.args /\ s.fails <= s.runs
    /\ page[p].line = <<s.output, s.output>> \/ page[p].crossed \/ s.output \in lineless
=============================================================================
