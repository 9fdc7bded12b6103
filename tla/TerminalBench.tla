---------------------------- MODULE TerminalBench ----------------------------
(***************************************************************************)
(* The Terminal-Bench receipt of hydralisk/evals/terminal_bench.py, built  *)
(* from the directory of a Harbor job, a list of tasks, or mere counts.    *)
(*                                                                         *)
(* The job is external: it runs each task a number of times, and a trial's *)
(* result.json appears before the trial has finished.  A reduction may be  *)
(* made at any time, with tasks that the operator lists as broken by their *)
(* environment or as not started.  Directory names end in random letters:  *)
(* a task's trials are read in the order of their names, not of time.      *)
(***************************************************************************)
EXTENDS Naturals, Sequences, FiniteSets, FiniteSetsExt, SequencesExt

CONSTANTS
    Tasks,     \* the run set of the job
    Runs,      \* how often the job runs each task: n_attempts
    MaxGiven,  \* bound: the counts of an input that is no job
    MaxListed  \* bound: tasks that the operator lists

ASSUME BenchAssumption ==
    /\ IsFiniteSet(Tasks)
    /\ Tasks \cap Nat = {}  \* nothing is called like what is missing of a job
    /\ {Runs, MaxGiven} \subseteq Nat \ {0}
    /\ MaxListed \in Nat

Statuses == {"solved", "failing", "envBroken", "notStarted"}

VARIABLES
    input,   \* what the receipts are made of: job, tasks, counts
    trial,   \* each trial: queued, begun, passed, failed, cancelled
    names,   \* the trials of each task in the order of their names
    receipt  \* the receipt that was written last

benchVars == <<input, trial, names, receipt>>

Reports == {"none", "job", "tasks", "counts", "refused"}

BenchTypeOK ==
    /\ input \in {"job", "tasks", "counts"}
    /\ trial \in [Tasks -> [1..Runs -> {"queued", "begun", "passed", "failed",
                                        "cancelled"}]]
    /\ names \in [Tasks -> SetToSeqs(1..Runs)]
    /\ receipt.from \in Reports
    /\ receipt.counts \in [Statuses -> Nat]
    /\ receipt.solved \subseteq Tasks

Nothing == [from |-> "none", counts |-> [s \in Statuses |-> 0], attempts |-> 0,
            known1 |-> 0, solved1 |-> 0, solvedN |-> 0, solved |-> {},
            listed |-> {}]

BenchInit ==
    /\ input \in {"job", "tasks", "counts"}
    /\ trial = [t \in Tasks |-> [k \in 1..Runs |-> "queued"]]
    /\ names \in [Tasks -> SetToSeqs(1..Runs)]
    /\ receipt = Nothing

-----------------------------------------------------------------------------
(* The job.                                                                *)

TrialBegins(t, k) ==
    /\ input = "job"
    /\ trial[t][k] = "queued"
    /\ trial' = [trial EXCEPT ![t][k] = "begun"]
    /\ UNCHANGED <<input, names, receipt>>

\* A verifier's reward, positive or not; an exception is as good as none,
\* unless it is the cancellation of the trial.
TrialEnds(t, k) ==
    /\ trial[t][k] = "begun"
    /\ \E end \in {"passed", "failed", "cancelled"} :
         trial' = [trial EXCEPT ![t][k] = end]
    /\ UNCHANGED <<input, names, receipt>>

-----------------------------------------------------------------------------
(* From a task to its line in the receipt.                                 *)

\* _harbor_trial_status
TrialStatus(state) ==
    CASE state = "passed" -> "solved"
      [] state \in {"begun", "cancelled"} -> "notStarted"
      [] OTHER -> "failing"

\* The statuses of the trials with a result.json, each at the trial's place
\* among those of the task by name.
AttemptsOf(t) ==
    [i \in {j \in DOMAIN names[t] : trial[t][names[t][j]] # "queued"} |->
        TrialStatus(trial[t][names[t][i]])]

\* first is 1 or 0 when it is known whether the first attempt passed.
Line(status, attempts, passed, first) ==
    [status |-> status, attempts |-> attempts, passed |-> passed,
     first |-> first]
Unknown == 2

\* Mutant of JudgeAttempts: the last attempt decides.
JudgeByLast(attempts) ==
    LET good == {i \in DOMAIN attempts : attempts[i] = "solved"}
    IN  Line(IF Max(DOMAIN attempts) \in good THEN "solved" ELSE "failing",
             Cardinality(DOMAIN attempts), Cardinality(good),
             IF Min(DOMAIN attempts) \in good THEN 1 ELSE 0)

\* _task_status, with attempts: one that passed solves the task, and any
\* other was made and failed.
JudgeAttempts(attempts) ==
    LET good == {i \in DOMAIN attempts : attempts[i] = "solved"}
    IN  Line(IF good # {} THEN "solved" ELSE "failing",
             Cardinality(DOMAIN attempts), Cardinality(good),
             IF Min(DOMAIN attempts) \in good THEN 1 ELSE 0)

\* _task_status, without: the status is taken as it is given, and one
\* attempt is supposed where it says nothing of them.
JudgeStatus(task) ==
    LET made(least) == IF task.made = 0 THEN least ELSE task.made
    IN  CASE task.status = "solved" -> Line("solved", made(1), 1, Unknown)
          [] task.status = "notStarted" -> Line("notStarted", 0, 0, Unknown)
          [] task.status = "envBroken" -> Line("envBroken", made(0), 0, Unknown)
          [] OTHER -> Line("failing", made(1), 0, Unknown)

\* What the operator lists goes before what the trials say.
Judge(t, broken, idle, task) ==
    IF t \in broken THEN Line("envBroken", 0, 0, Unknown)
    ELSE IF t \in idle THEN Line("notStarted", 0, 0, Unknown)
    ELSE IF DOMAIN task.attempts # {} THEN JudgeAttempts(task.attempts)
    ELSE JudgeStatus(task)

\* _counts_from_tasks, for the lines of all tasks by name.
AttemptsMade(line) == MapThenSumSet(LAMBDA n : line[n].attempts, DOMAIN line)

CountLines(line, from, listed) ==
    LET having(status) == {n \in DOMAIN line : line[n].status = status}
        first(what) == {n \in DOMAIN line : line[n].first \in what}
        passed == {n \in DOMAIN line : line[n].passed > 0}
    IN  [from |-> from,
         counts |-> [s \in Statuses |-> Cardinality(having(s))],
         attempts |-> AttemptsMade(line),
         known1 |-> Cardinality(first({0, 1})),
         solved1 |-> Cardinality(first({1})),
         solvedN |-> Cardinality(passed \cup having("solved")),
         solved |-> having("solved") \cap Tasks,
         listed |-> listed]

\* Over _COUNT_KEYS
SumOf(counts) ==
    counts["solved"] + counts["failing"] + counts["envBroken"] + counts["notStarted"]

-----------------------------------------------------------------------------
(* The reductions: main, with each kind of input.                          *)

\* harbor_job_to_summary_payload: a task is seen by its trials; trials of
\* the job beyond the number of tasks stand for tasks that were not seen.
Seen == {t \in Tasks : DOMAIN AttemptsOf(t) # {}}
Trials == Cardinality(Tasks) * Runs
Missing == IF Trials > Cardinality(Seen) THEN Trials - Cardinality(Seen) ELSE 0

ReduceJob(broken, idle) ==
    LET unseen == 1..Missing
        line == [n \in Seen \cup unseen |->
                   IF n \in unseen THEN Line("notStarted", 0, 0, Unknown)
                   ELSE Judge(n, broken, idle, [attempts |-> AttemptsOf(n)])]
    IN  /\ input = "job"
        /\ receipt' = CountLines(line, "job", broken \cup idle)
        /\ UNCHANGED <<input, trial, names>>

\* --input with a list of tasks that have a status and no attempts.
ReduceTasks(broken, idle) ==
    /\ input = "tasks" /\ receipt = Nothing
    /\ \E given \in [Tasks -> [status : Statuses, made : {0, 2}]] :
         receipt' = CountLines(
             [t \in Tasks |-> Judge(t, broken, idle,
                                    [attempts |-> <<>>,
                                     status |-> given[t].status,
                                     made |-> given[t].made])],
             "tasks", broken \cup idle)
    /\ UNCHANGED <<input, trial, names>>

\* _counts_from_summary: the sum has to be the total, where that is given,
\* and only the total is checked; how many were solved in the end is taken
\* from solved unless it is given too.
ReduceCounts ==
    /\ input = "counts" /\ receipt = Nothing
    /\ \E given \in [Statuses -> 0..MaxGiven], total, n \in 0..MaxGiven :
         receipt' =
             IF total \notin {0, SumOf(given)}
             THEN [Nothing EXCEPT !.from = "refused"]
             ELSE [Nothing EXCEPT
                     !.from = "counts", !.counts = given,
                     !.solvedN = IF n = 0 THEN given["solved"] ELSE n]
    /\ UNCHANGED <<input, trial, names>>

-----------------------------------------------------------------------------
BenchNext ==
    \/ \E t \in Tasks, k \in 1..Runs : TrialBegins(t, k) \/ TrialEnds(t, k)
    \/ \E listed \in kSubset(MaxListed, Tasks) :
         \E broken, idle \in SUBSET listed :
            ReduceJob(broken, idle) \/ ReduceTasks(broken, idle)
    \/ ReduceCounts

BenchSpec == BenchInit /\ [][BenchNext]_benchVars

-----------------------------------------------------------------------------
(* Properties                                                              *)

Total(r) == SumOf(r.counts)
Attempted(r) == Total(r) - r.counts["notStarted"]
ProperlyAttempted(r) == Attempted(r) - r.counts["envBroken"]

\* What the numerators of a receipt stand for (terminal_bench.py,
\* _counts_from_tasks and summarize_payload): every rate is at most one and
\* pass@1 never beats pass@N; a task of a job is reported solved exactly
\* when one of its trials passed and the operator did not list it, however
\* often and in whatever order it was tried; and from one receipt of a job
\* to the next nothing that was solved is taken back, unless it is listed.
SolvedIsSolved ==
    [][receipt' # receipt =>
         /\ receipt'.from \in {"job", "tasks"} =>
              /\ receipt'.counts["solved"] <= ProperlyAttempted(receipt')
              /\ receipt'.solved1 <= receipt'.known1
              /\ receipt'.solved1 <= receipt'.solvedN
              /\ receipt'.solvedN = Cardinality(receipt'.solved)
              /\ receipt'.known1 <= ProperlyAttempted(receipt')
         /\ receipt'.from = "job" =>
              receipt'.solved = {t \in Tasks \ receipt'.listed :
                                   \E k \in 1..Runs : trial[t][k] = "passed"}
         /\ receipt.from = "job" /\ receipt'.from = "job" =>
              receipt.solved \subseteq receipt'.solved \cup receipt'.listed]_benchVars

\* denominatorDefinitions in summarize_payload: the total of a receipt is
\* the number of tasks in the run set, all the more when the job is over.
TotalIsRunSet ==
    receipt.from = "job" /\ (\A t \in Tasks, k \in 1..Runs :
                                trial[t][k] \in {"passed", "failed"})
        => Total(receipt) = Cardinality(Tasks)
=============================================================================
