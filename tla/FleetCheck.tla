----------------------------- MODULE FleetCheck -----------------------------
(***************************************************************************)
(* `ft infra aws-test-fleet check`: ft/src/ft/fleet_check.py and the       *)
(* command around it in ft/src/ft/cli.py.  One thread per selected host    *)
(* runs that host's steps, each a child process with a time limit, judges  *)
(* each step by its exit code and Ansible recap, and stops at the first    *)
(* failure.  The main thread starts them all, joins them all and turns the *)
(* statuses into the exit code.                                            *)
(*                                                                         *)
(* jobs[h] is the one piece of state outside the process: how many         *)
(* installs are running on host h.  Killing the local child at the time    *)
(* limit, or losing the SSH connection, can leave the install behind.      *)
(***************************************************************************)
EXTENDS Integers, Sequences

CONSTANTS
    Hosts,     \* the fleet host names that can be deployed
    Os,        \* Os[h]: the OS of host h
    Logs       \* the recap lists a step's log can hold

ASSUME FleetAssumption ==
    /\ Os \in [Hosts -> {"ubuntu", "arch", "alpine"}]
    /\ Logs \subseteq Seq([changed : Nat, failed : Nat, unreachable : Nat])

VARIABLES
    main,      \* the command: planning, starting, joining, or how it ended
    checks,    \* the hosts of the planned checks
    thread,    \* thread[h]: where host h's worker is
    status,    \* HostCheck.status
    phase,     \* the number of the step running now, or of the last one run
    results,   \* HostCheck.results: whether each finished step passed
    ended,     \* ended[h][i]: how step i of host h ended, and its log
    jobs       \* installs running on host h

vars == <<main, checks, thread, status, phase, results, ended, jobs>>

QUEUED  == "queued"
RUNNING == "running"
PASSED  == "passed"
FAILED  == "failed"

Exits == {"exit_0", "exit_1", "plan_error", "interrupted"}
Ends  == [how : {"none", "exit", "timeout"}, returncode : {0, 1}, recaps : Logs \cup {<<>>}]
NoEnd == [how |-> "none", returncode |-> 0, recaps |-> <<>>]

(***************************************************************************)
(* The plan and the judge.                                                 *)
(***************************************************************************)
check_kind(os) == IF os = "ubuntu" THEN "one_liner" ELSE "validate"

Steps(h) ==
    IF check_kind(Os[h]) = "one_liner"
    THEN <<[label |-> "pass1", expect_converged |-> FALSE],
           [label |-> "pass2", expect_converged |-> TRUE]>>
    ELSE <<[label |-> "validate", expect_converged |-> FALSE]>>

judge_step(step, end) ==
    /\ end.returncode = 0
    /\ end.recaps # <<>>
    /\ LET last == end.recaps[Len(end.recaps)]
       IN  /\ last.failed = 0
           /\ last.unreachable = 0
           /\ step.expect_converged => last.changed = 0

\* A step that ran out of time fails whatever its log says.
StepPassed(h, i) == ended[h][i].how = "exit" /\ judge_step(Steps(h)[i], ended[h][i])

-----------------------------------------------------------------------------
Init ==
    /\ main = "planning"
    /\ checks = {}
    /\ thread = [h \in Hosts |-> "new"]
    /\ status = [h \in Hosts |-> QUEUED]
    /\ phase = [h \in Hosts |-> 0]
    /\ results = [h \in Hosts |-> <<>>]
    /\ ended = [h \in Hosts |-> [i \in 1..2 |-> NoEnd]]
    /\ jobs = [h \in Hosts |-> 0]

\* The plan covers the deployed hosts the selector matches.  It fails when
\* there is none, when one is missing from hosts.toml, or when --ref does not
\* resolve.
Plan ==
    /\ main = "planning"
    /\ \E deployed, selected, inventory \in SUBSET Hosts, refFound \in BOOLEAN :
          LET planned == deployed \cap selected
              good    == planned # {} /\ planned \subseteq inventory /\ refFound
          IN  /\ main' = IF good THEN "starting" ELSE "plan_error"
              /\ checks' = IF good THEN planned ELSE {}
    /\ UNCHANGED <<thread, status, phase, results, ended, jobs>>

StartThread(h) ==
    /\ main = "starting"
    /\ h \in checks
    /\ thread[h] = "new"
    /\ thread' = [thread EXCEPT ![h] = "begin"]
    /\ UNCHANGED <<main, checks, status, phase, results, ended, jobs>>

AllStarted ==
    /\ main = "starting"
    /\ \A h \in checks : thread[h] # "new"
    /\ main' = "joining"
    /\ UNCHANGED <<checks, thread, status, phase, results, ended, jobs>>

\* The workers are daemon threads: they run while the process does.
Alive == main \in {"starting", "joining"}

Begin(h) ==
    /\ Alive
    /\ thread[h] = "begin"
    /\ thread' = [thread EXCEPT ![h] = "loop"]
    /\ status' = [status EXCEPT ![h] = RUNNING]
    /\ UNCHANGED <<main, checks, phase, results, ended, jobs>>

\* The next step: its log is opened for writing and its command launched.
RunStep(h) ==
    /\ Alive
    /\ thread[h] = "loop"
    /\ phase' = [phase EXCEPT ![h] = @ + 1]
    /\ thread' = [thread EXCEPT ![h] = "child"]
    /\ ended' = [ended EXCEPT ![h][phase[h] + 1] = NoEnd]
    /\ jobs' = [jobs EXCEPT ![h] = @ + 1]
    /\ UNCHANGED <<main, checks, status, results>>

\* The child exits.  A one-liner whose SSH connection drops exits non-zero
\* and may leave the install running on the host.
ChildExits(h) ==
    /\ Alive
    /\ thread[h] = "child"
    /\ thread' = [thread EXCEPT ![h] = "judge"]
    /\ \E returncode \in {0, 1}, recaps \in Logs, left \in {0, 1} :
          /\ left = 1 => returncode # 0 /\ check_kind(Os[h]) = "one_liner"
          /\ ended' = [ended EXCEPT ![h][phase[h]] =
                         [how |-> "exit", returncode |-> returncode, recaps |-> recaps]]
          /\ jobs' = [jobs EXCEPT ![h] = @ - 1 + left]
    /\ UNCHANGED <<main, checks, status, phase, results>>

\* subprocess.run kills the local child only; what it started elsewhere may
\* go on running.
TimeoutExpired(h) ==
    /\ Alive
    /\ thread[h] = "child"
    /\ thread' = [thread EXCEPT ![h] = "judge"]
    /\ ended' = [ended EXCEPT ![h][phase[h]] =
                   [how |-> "timeout", returncode |-> 0, recaps |-> <<>>]]
    /\ \E left \in {0, 1} : jobs' = [jobs EXCEPT ![h] = @ - 1 + left]
    /\ UNCHANGED <<main, checks, status, phase, results>>

\* Faulty: the loop goes on after a failed step.
JudgeWithoutBreak(h) ==
    LET last == phase[h] = Len(Steps(h))
    IN  /\ Alive
        /\ thread[h] = "judge"
        /\ results' = [results EXCEPT ![h] = Append(@, StepPassed(h, phase[h]))]
        /\ status' = [status EXCEPT ![h] = IF StepPassed(h, phase[h]) THEN PASSED ELSE FAILED]
        /\ thread' = [thread EXCEPT ![h] = IF last THEN "done" ELSE "loop"]
        /\ UNCHANGED <<main, checks, phase, ended, jobs>>

Judge(h) ==
    LET passed == StepPassed(h, phase[h])
        last   == phase[h] = Len(Steps(h))
    IN  /\ Alive
        /\ thread[h] = "judge"
        /\ results' = [results EXCEPT ![h] = Append(@, passed)]
        /\ status' = [status EXCEPT ![h] = IF ~passed THEN FAILED
                                           ELSE IF last THEN PASSED ELSE @]
        /\ thread' = [thread EXCEPT ![h] = IF passed /\ ~last THEN "loop" ELSE "done"]
        /\ UNCHANGED <<main, checks, phase, ended, jobs>>

\* Faulty: the step a thread dies in is counted twice.
ThreadDiesCountingTwice(h) ==
    /\ Alive
    /\ thread[h] \in {"loop", "judge"}
    /\ thread' = [thread EXCEPT ![h] = "done"]
    /\ phase' = [phase EXCEPT ![h] = @ + 1]
    /\ UNCHANGED <<main, checks, status, results, ended, jobs>>

\* An exception nothing catches (the command or the log cannot be opened, the
\* log cannot be read back, the progress line cannot be printed) ends the
\* thread with its status as it was.
ThreadDies(h) ==
    /\ Alive
    /\ thread[h] \in {"loop", "judge"}
    /\ thread' = [thread EXCEPT ![h] = "done"]
    /\ phase' = [phase EXCEPT ![h] = IF thread[h] = "loop" THEN @ + 1 ELSE @]
    /\ UNCHANGED <<main, checks, status, results, ended, jobs>>

\* Faulty: only FAILED counts against the run, so a thread that died does not.
ReportFailedOnly ==
    /\ main = "joining"
    /\ \A h \in checks : thread[h] = "done"
    /\ main' = IF \E h \in checks : status[h] = FAILED THEN "exit_1" ELSE "exit_0"
    /\ UNCHANGED <<checks, thread, status, phase, results, ended, jobs>>

\* Faulty: the end of a worker is read off its status, which a dead one never sets.
ReportByStatus ==
    /\ \A h \in checks : status[h] \in {PASSED, FAILED}
    /\ main = "joining"
    /\ main' = IF \A h \in checks : status[h] = PASSED THEN "exit_0" ELSE "exit_1"
    /\ UNCHANGED <<checks, thread, status, phase, results, ended, jobs>>

\* Faulty: the threads are started and not joined.
ReportWithoutJoin ==
    /\ main = "joining"
    /\ main' = IF \A h \in checks : status[h] = PASSED THEN "exit_0" ELSE "exit_1"
    /\ UNCHANGED <<checks, thread, status, phase, results, ended, jobs>>

\* Every thread is joined; anything that is not PASSED counts as failed.
Report ==
    /\ main = "joining"
    /\ \A h \in checks : thread[h] = "done"
    /\ main' = IF \A h \in checks : status[h] = PASSED THEN "exit_0" ELSE "exit_1"
    /\ UNCHANGED <<checks, thread, status, phase, results, ended, jobs>>

\* Ctrl-C: the process goes, its daemon threads with it.
Interrupt ==
    /\ Alive
    /\ main' = "interrupted"
    /\ UNCHANGED <<checks, thread, status, phase, results, ended, jobs>>

Exited == main \in Exits /\ UNCHANGED vars

Worker(h) ==
    Begin(h) \/ RunStep(h) \/ ChildExits(h) \/ TimeoutExpired(h) \/ Judge(h) \/ ThreadDies(h)

Main == Plan \/ (\E h \in Hosts : StartThread(h)) \/ AllStarted \/ Report

Next == Main \/ (\E h \in Hosts : Worker(h)) \/ Interrupt \/ Exited

\* Threads are scheduled; a child ends or meets its time limit.  Nobody has
\* to press Ctrl-C.
Fairness == WF_vars(Main) /\ \A h \in Hosts : WF_vars(Worker(h))

Spec == Init /\ [][Next]_vars /\ Fairness

-----------------------------------------------------------------------------
TypeOK ==
    /\ main \in {"planning", "starting", "joining"} \cup Exits
    /\ checks \in SUBSET Hosts
    /\ thread \in [Hosts -> {"new", "begin", "loop", "child", "judge", "done"}]
    /\ status \in [Hosts -> {QUEUED, RUNNING, PASSED, FAILED}]
    /\ phase \in [Hosts -> 0..2]
    /\ results \in [Hosts -> Seq(BOOLEAN)]
    /\ ended \in [Hosts -> [1..2 -> Ends]]
    /\ jobs \in [Hosts -> 0..2]

\* The logs show what a pass of host h needs (infra/aws-test-fleet/README.md):
\* every command exited 0 with a clean recap, and an Ubuntu re-run changed
\* nothing.
CleanLog(end) ==
    /\ end.how = "exit" /\ end.returncode = 0 /\ end.recaps # <<>>
    /\ end.recaps[Len(end.recaps)].failed + end.recaps[Len(end.recaps)].unreachable = 0

Converged(h) ==
    /\ CleanLog(ended[h][1])
    /\ Os[h] = "ubuntu" =>
          /\ CleanLog(ended[h][2])
          /\ ended[h][2].recaps[Len(ended[h][2].recaps)].changed = 0

\* The command exits 0 only after every planned host's own logs prove that it
\* passed: no thread left behind, dead, timed out or judged on another's
\* result counts as a pass (run_host_check, infra_aws_test_fleet_check).
ExitZeroIsProved ==
    main = "exit_0" => checks # {} /\ \A h \in checks : Converged(h)

\* No step is started on a host while an install that an earlier step left
\* behind may still be running there (the break in run_host_check).
NoOverlappingInstalls == \A h \in Hosts : jobs[h] <= 1

\* The command always comes to an end, although steps hang, fail and threads
\* die (run_fleet_checks joins threads that must therefore all end).
CommandEnds == <>(main \in Exits)

(***************************************************************************)
(* The abstract view: a host is pending until its thread ends, and a       *)
(* thread that died counts as failed.                                      *)
(***************************************************************************)
AbstractVerdict ==
    [h \in Hosts |->
        IF h \notin checks THEN "none"
        ELSE IF thread[h] # "done" THEN "pending"
        ELSE IF status[h] = PASSED THEN "passed" ELSE "failed"]

AbstractOutcome ==
    CASE main = "exit_0" -> "success"
      [] main = "exit_1" -> "failure"
      [] main \in {"plan_error", "interrupted"} -> "aborted"
      [] OTHER -> "open"

Verdict == INSTANCE FleetVerdict WITH verdict <- AbstractVerdict, outcome <- AbstractOutcome

\* Threads, steps, time limits and dying threads together are a run that gives
\* each host one verdict and succeeds only if all of them passed.
ImplementsVerdict == Verdict!Spec
=============================================================================
