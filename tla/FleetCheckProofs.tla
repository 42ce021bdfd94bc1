-------------------------- MODULE FleetCheckProofs --------------------------
(***************************************************************************)
(* The safety of FleetCheck for any hosts, any OS each, and any logs.      *)
(*                                                                         *)
(* The invariant says, host by host, what a worker knows at each point of  *)
(* run_host_check: the step behind it passed, and nothing is running on    *)
(* the host unless its child is.                                           *)
(***************************************************************************)
EXTENDS FleetCheck, TLAPS

\* A host that is checked again after its first pass.
TwoSteps(h) == Os[h] = "ubuntu"

\* What a worker's place says of the steps behind it.
ThreadInv(h) ==
    /\ thread[h] # "new" => h \in checks
    /\ thread[h] \in {"new", "begin"} => status[h] = QUEUED /\ phase[h] = 0
    /\ thread[h] \in {"loop", "child", "judge"} => status[h] = RUNNING
    /\ thread[h] = "loop" =>
          \/ phase[h] = 0
          \/ phase[h] = 1 /\ TwoSteps(h) /\ StepPassed(h, 1)
    /\ thread[h] \in {"child", "judge"} =>
          \/ phase[h] = 1
          \/ phase[h] = 2 /\ TwoSteps(h) /\ StepPassed(h, 1)
    /\ status[h] = PASSED =>
          /\ thread[h] = "done"
          /\ StepPassed(h, 1)
          /\ TwoSteps(h) => StepPassed(h, 2)

\* An install runs on the host while its child does, or after a step that did not pass.
JobInv(h) ==
    /\ thread[h] \in {"new", "begin", "loop"} => jobs[h] = 0
    /\ thread[h] = "child" => jobs[h] = 1
    /\ thread[h] = "judge" /\ StepPassed(h, phase[h]) => jobs[h] = 0
    /\ jobs[h] <= 1

\* What the invariant says of one host.
HostInv(h) == ThreadInv(h) /\ JobInv(h)

\* The main thread starts what it planned, and exits 0 when all of it passed.
MainInv ==
    /\ main = "planning" => checks = {} /\ \A h \in Hosts : thread[h] = "new"
    /\ main \in {"starting", "joining", "exit_0"} => checks # {}
    /\ main = "exit_0" => \A h \in checks : status[h] = PASSED

\* The inductive invariant.
IInv == TypeOK /\ (\A h \in Hosts : HostInv(h)) /\ MainInv

-----------------------------------------------------------------------------
\* A check has one step, or two for a host that is checked again (_fleet_host_checks).
LEMMA StepCount ==
    ASSUME NEW h \in Hosts
    PROVE  Len(Steps(h)) = IF TwoSteps(h) THEN 2 ELSE 1
  BY DEF Steps, check_kind, TwoSteps

\* The second step of a check is the one that must change nothing.
LEMMA SecondStep ==
    ASSUME NEW h \in Hosts, TwoSteps(h)
    PROVE  Steps(h)[2].expect_converged
  BY DEF Steps, check_kind, TwoSteps

\* A host none of whose variables change keeps its part of the invariant.
LEMMA Frame ==
    ASSUME NEW h \in Hosts, HostInv(h), h \in checks => h \in checks',
           thread'[h] = thread[h], status'[h] = status[h], phase'[h] = phase[h],
           ended'[h] = ended[h], jobs'[h] = jobs[h]
    PROVE  HostInv(h)'
  BY DEF HostInv, ThreadInv, JobInv, StepPassed, judge_step, Steps, check_kind, TwoSteps

\* What a step's end says depends on that end alone.
LEMMA SameEnd ==
    ASSUME NEW h \in Hosts, NEW i \in 1..2, ended'[h][i] = ended[h][i]
    PROVE  StepPassed(h, i)' = StepPassed(h, i)
  BY DEF StepPassed, judge_step, Steps, check_kind

\* The invariant holds before the plan is made.
THEOREM InitIInv == Init => IInv
<1> SUFFICES ASSUME Init PROVE IInv
  OBVIOUS
<1>1. TypeOK
  BY DEF Init, TypeOK, Ends, NoEnd, QUEUED
<1>2. MainInv
  BY DEF Init, MainInv
<1>3. ASSUME NEW h \in Hosts PROVE HostInv(h)
  BY <1>3 DEF Init, HostInv, ThreadInv, JobInv, QUEUED, PASSED
<1> QED BY <1>1, <1>2, <1>3 DEF IInv

-----------------------------------------------------------------------------
(***************************************************************************)
(* Steps of one worker: the type and the parts of that host's invariant.   *)
(* Frame gives every other host.                                           *)
(***************************************************************************)
LEMMA BeginStep ==
    ASSUME TypeOK, NEW h \in Hosts, HostInv(h), Begin(h)
    PROVE  TypeOK' /\ HostInv(h)'
<1>1. TypeOK'
  BY DEF TypeOK, Begin, RUNNING
<1>2. ThreadInv(h)'
  BY DEF TypeOK, Begin, HostInv, ThreadInv, RUNNING, QUEUED, PASSED
<1>3. JobInv(h)'
  BY DEF TypeOK, Begin, HostInv, JobInv
<1> QED BY <1>1, <1>2, <1>3 DEF HostInv

\* A worker that starts its next step (run_host_check) keeps its host's invariant.
LEMMA RunStepStep ==
    ASSUME TypeOK, NEW h \in Hosts, HostInv(h), RunStep(h)
    PROVE  TypeOK' /\ HostInv(h)'
<1> DEFINE n == phase[h] + 1
<1>1. /\ n \in 1..2 /\ jobs[h] = 0 /\ status[h] = RUNNING /\ h \in checks
      /\ n = 2 => TwoSteps(h) /\ StepPassed(h, 1)
  BY DEF TypeOK, HostInv, ThreadInv, JobInv, RunStep
<1>2. TypeOK'
  <2>1. [ended[h] EXCEPT ![n] = NoEnd] \in [1..2 -> Ends]
    BY <1>1 DEF TypeOK, Ends, NoEnd
  <2> QED BY <2>1, <1>1 DEF TypeOK, RunStep
<1>3. n = 2 => ended'[h][1] = ended[h][1]
  BY <1>1 DEF TypeOK, RunStep
<1>4. /\ thread'[h] = "child" /\ status'[h] = RUNNING /\ phase'[h] = n
      /\ jobs'[h] = 1 /\ checks' = checks
  BY <1>1 DEF TypeOK, RunStep
<1>5. n = 2 => TwoSteps(h)' /\ StepPassed(h, 1)'
  BY <1>1, <1>3, SameEnd DEF TwoSteps
<1>6. ThreadInv(h)'
  BY <1>1, <1>4, <1>5 DEF ThreadInv, RUNNING, PASSED
<1> QED BY <1>2, <1>4, <1>6 DEF HostInv, JobInv

\* A child that exits: jobs go back to none when it left nothing behind, and
\* it can leave something only when its step cannot pass.
LEMMA ChildExitsStep ==
    ASSUME TypeOK, NEW h \in Hosts, HostInv(h), ChildExits(h)
    PROVE  TypeOK' /\ HostInv(h)'
<1> DEFINE n == phase[h]
<1>1. /\ n \in 1..2 /\ jobs[h] = 1 /\ status[h] = RUNNING /\ h \in checks
      /\ n = 2 => TwoSteps(h) /\ StepPassed(h, 1)
  BY DEF TypeOK, HostInv, ThreadInv, JobInv, ChildExits
<1>2. PICK returncode \in {0, 1}, recaps \in Logs, left \in {0, 1} :
        /\ left = 1 => returncode # 0
        /\ ended' = [ended EXCEPT ![h][n] =
                       [how |-> "exit", returncode |-> returncode, recaps |-> recaps]]
        /\ jobs' = [jobs EXCEPT ![h] = @ - 1 + left]
  BY DEF ChildExits
<1> DEFINE e == [how |-> "exit", returncode |-> returncode, recaps |-> recaps]
<1>3. TypeOK'
  <2>1. e \in Ends
    BY <1>2 DEF Ends
  <2> HIDE DEF e
  <2>2. [ended[h] EXCEPT ![n] = e] \in [1..2 -> Ends]
    BY <2>1, <1>1 DEF TypeOK
  <2>3. ended' = [ended EXCEPT ![h] = [ended[h] EXCEPT ![n] = e]]
    BY <1>2 DEF e
  <2>4. ended' \in [Hosts -> [1..2 -> Ends]]
    BY <2>2, <2>3 DEF TypeOK
  <2>5. jobs' \in [Hosts -> 0..2]
    BY <1>1, <1>2 DEF TypeOK
  <2> QED BY <2>4, <2>5 DEF TypeOK, ChildExits
<1>4. /\ ended'[h][n] = e
      /\ n = 2 => ended'[h][1] = ended[h][1]
      /\ jobs'[h] = left
  BY <1>1, <1>2 DEF TypeOK
<1>5. thread'[h] = "judge" /\ status'[h] = RUNNING /\ phase'[h] = n /\ checks' = checks
  BY <1>1 DEF TypeOK, ChildExits
<1>6. n = 2 => TwoSteps(h)' /\ StepPassed(h, 1)'
  BY <1>1, <1>4, SameEnd DEF TwoSteps
<1>7. ThreadInv(h)'
  BY <1>1, <1>5, <1>6 DEF ThreadInv, RUNNING, PASSED
<1>8. StepPassed(h, n)' => left = 0
  BY <1>2, <1>4, <1>5 DEF StepPassed, judge_step
<1>9. JobInv(h)'
  BY <1>2, <1>4, <1>5, <1>8 DEF JobInv
<1> QED BY <1>3, <1>7, <1>9 DEF HostInv

\* So does one whose step times out, with the remote job still at work.
LEMMA TimeoutStep ==
    ASSUME TypeOK, NEW h \in Hosts, HostInv(h), TimeoutExpired(h)
    PROVE  TypeOK' /\ HostInv(h)'
<1> DEFINE n == phase[h]
           e == [how |-> "timeout", returncode |-> 0, recaps |-> <<>>]
<1>1. /\ n \in 1..2 /\ jobs[h] = 1 /\ status[h] = RUNNING /\ h \in checks
      /\ n = 2 => TwoSteps(h) /\ StepPassed(h, 1)
  BY DEF TypeOK, HostInv, ThreadInv, JobInv, TimeoutExpired
<1>2. PICK left \in {0, 1} : jobs' = [jobs EXCEPT ![h] = @ - 1 + left]
  BY DEF TimeoutExpired
<1>3. ended' = [ended EXCEPT ![h] = [ended[h] EXCEPT ![n] = e]]
  BY DEF TimeoutExpired
<1>4. TypeOK'
  <2>1. e \in Ends
    BY DEF Ends
  <2> HIDE DEF e
  <2>2. [ended[h] EXCEPT ![n] = e] \in [1..2 -> Ends]
    BY <2>1, <1>1 DEF TypeOK
  <2>3. ended' \in [Hosts -> [1..2 -> Ends]]
    BY <2>2, <1>3 DEF TypeOK
  <2>4. jobs' \in [Hosts -> 0..2]
    BY <1>1, <1>2 DEF TypeOK
  <2> QED BY <2>3, <2>4 DEF TypeOK, TimeoutExpired
<1>5. /\ ended'[h][n].how = "timeout"
      /\ n = 2 => ended'[h][1] = ended[h][1]
      /\ jobs'[h] = left
  BY <1>1, <1>2, <1>3 DEF TypeOK
<1>6. thread'[h] = "judge" /\ status'[h] = RUNNING /\ phase'[h] = n /\ checks' = checks
  BY <1>1 DEF TypeOK, TimeoutExpired
<1>7. n = 2 => TwoSteps(h)' /\ StepPassed(h, 1)'
  BY <1>1, <1>5, SameEnd DEF TwoSteps
<1>8. ThreadInv(h)'
  BY <1>1, <1>6, <1>7 DEF ThreadInv, RUNNING, PASSED
<1>9. JobInv(h)'
  BY <1>5, <1>6 DEF JobInv, StepPassed
<1> QED BY <1>4, <1>8, <1>9 DEF HostInv

\* Judging is the only step that ends a thread with a verdict: PASSED takes
\* every step of the host.
LEMMA JudgeStep ==
    ASSUME TypeOK, NEW h \in Hosts, HostInv(h), Judge(h)
    PROVE  TypeOK' /\ HostInv(h)'
<1> DEFINE n == phase[h]
           passed == StepPassed(h, n)
           last == n = Len(Steps(h))
<1>1. /\ n \in 1..2 /\ status[h] = RUNNING /\ h \in checks /\ jobs[h] <= 1
      /\ jobs[h] \in 0..2
      /\ n = 2 => TwoSteps(h) /\ StepPassed(h, 1)
      /\ passed => jobs[h] = 0
  BY DEF TypeOK, HostInv, ThreadInv, JobInv, Judge
<1>2. last <=> (TwoSteps(h) => n = 2)
  <2>1. Len(Steps(h)) = IF TwoSteps(h) THEN 2 ELSE 1
    BY StepCount
  <2> QED BY <1>1, <2>1 DEF TwoSteps
<1>3. passed \in BOOLEAN /\ last \in BOOLEAN
  BY DEF StepPassed, judge_step
<1>4. /\ status' = [status EXCEPT ![h] = IF ~passed THEN FAILED
                                         ELSE IF last THEN PASSED ELSE @]
      /\ thread' = [thread EXCEPT ![h] = IF passed /\ ~last THEN "loop" ELSE "done"]
      /\ results' = [results EXCEPT ![h] = Append(@, passed)]
      /\ UNCHANGED <<main, checks, phase, ended, jobs>>
  BY DEF Judge
<1>5. \A i \in 1..2 : StepPassed(h, i)' = StepPassed(h, i)
  BY <1>4, SameEnd
<1> HIDE DEF passed, last
<1>6. TypeOK'
  <2>1. results' \in [Hosts -> Seq(BOOLEAN)]
    BY <1>3, <1>4 DEF TypeOK
  <2> QED BY <2>1, <1>4 DEF TypeOK, PASSED, FAILED
<1>7. /\ status'[h] = IF ~passed THEN FAILED ELSE IF last THEN PASSED ELSE RUNNING
      /\ thread'[h] = IF passed /\ ~last THEN "loop" ELSE "done"
      /\ phase'[h] = n /\ jobs'[h] = jobs[h] /\ checks' = checks
  BY <1>1, <1>4 DEF TypeOK
<1>8. passed <=> (n = 1 /\ StepPassed(h, 1)) \/ (n = 2 /\ StepPassed(h, 2))
  BY <1>1 DEF passed
<1>9. ThreadInv(h)'
  BY <1>1, <1>2, <1>5, <1>7, <1>8 DEF ThreadInv, TwoSteps, PASSED, FAILED, RUNNING
<1>10. JobInv(h)'
  BY <1>1, <1>7 DEF JobInv
<1> QED BY <1>6, <1>9, <1>10 DEF HostInv

\* And one that dies of an exception, with its check left running.
LEMMA ThreadDiesStep ==
    ASSUME TypeOK, NEW h \in Hosts, HostInv(h), ThreadDies(h)
    PROVE  TypeOK' /\ HostInv(h)'
<1>1. /\ status[h] = RUNNING /\ h \in checks /\ jobs[h] \in 0..1
      /\ thread[h] = "loop" => phase[h] \in 0..1
  BY DEF TypeOK, HostInv, ThreadInv, JobInv, ThreadDies
<1>2. TypeOK'
  BY <1>1 DEF TypeOK, ThreadDies
<1>3. /\ thread'[h] = "done" /\ status'[h] = RUNNING /\ h \in checks'
      /\ jobs'[h] = jobs[h]
  BY <1>1 DEF TypeOK, ThreadDies
<1> QED BY <1>1, <1>2, <1>3 DEF HostInv, ThreadInv, JobInv, RUNNING, PASSED

\* Every step of a worker keeps the whole invariant.
LEMMA WorkerStep ==
    ASSUME IInv, NEW h \in Hosts, Worker(h)
    PROVE  IInv'
<1>1. TypeOK /\ HostInv(h)
  BY DEF IInv
<1>2. TypeOK' /\ HostInv(h)'
  BY <1>1, BeginStep, RunStepStep, ChildExitsStep, TimeoutStep, JudgeStep, ThreadDiesStep
     DEF Worker
<1>3. ASSUME NEW k \in Hosts, k # h PROVE HostInv(k)'
  <2>1. /\ thread'[k] = thread[k] /\ status'[k] = status[k] /\ phase'[k] = phase[k]
        /\ ended'[k] = ended[k] /\ jobs'[k] = jobs[k] /\ checks' = checks
    BY <1>1, <1>3 DEF TypeOK, Worker, Begin, RunStep, ChildExits, TimeoutExpired, Judge,
                      ThreadDies
  <2> QED BY <2>1, Frame DEF IInv
<1>4. MainInv'
  BY DEF IInv, MainInv, Worker, Begin, RunStep, ChildExits, TimeoutExpired, Judge,
         ThreadDies, Alive
<1> QED BY <1>2, <1>3, <1>4 DEF IInv

\* So does every step of the command itself: the plan, the starts, the join, the report.
LEMMA MainStep ==
    ASSUME IInv, Main \/ Interrupt
    PROVE  IInv'
<1>1. TypeOK /\ (\A h \in Hosts : HostInv(h)) /\ MainInv
  BY DEF IInv
<1>2. CASE Plan
  <2>1. PICK deployed, selected, inventory \in SUBSET Hosts, refFound \in BOOLEAN :
          LET planned == deployed \cap selected
              good    == planned # {} /\ planned \subseteq inventory /\ refFound
          IN  /\ main' = IF good THEN "starting" ELSE "plan_error"
              /\ checks' = IF good THEN planned ELSE {}
    BY <1>2 DEF Plan
  <2>2. checks' \subseteq Hosts /\ main' \in {"starting", "plan_error"}
        /\ (main' = "starting" => checks' # {})
    BY <2>1
  <2>3. TypeOK' /\ MainInv'
    BY <1>1, <1>2, <2>2 DEF TypeOK, MainInv, Plan, Exits
  <2>4. ASSUME NEW h \in Hosts PROVE HostInv(h)'
    <3>1. thread[h] = "new" /\ thread'[h] = "new" /\ status'[h] = status[h]
          /\ phase'[h] = phase[h] /\ ended'[h] = ended[h] /\ jobs'[h] = jobs[h]
      BY <1>1, <1>2 DEF Plan, MainInv
    <3> QED BY <1>1, <3>1 DEF HostInv, ThreadInv, JobInv, QUEUED, PASSED
  <2> QED BY <2>3, <2>4 DEF IInv
<1>3. ASSUME NEW h \in Hosts, StartThread(h) PROVE IInv'
  <2>1. TypeOK' /\ MainInv'
    BY <1>1, <1>3 DEF TypeOK, MainInv, StartThread
  <2>2. HostInv(h)'
    BY <1>1, <1>3 DEF TypeOK, StartThread, HostInv, ThreadInv, JobInv, QUEUED, PASSED
  <2>3. ASSUME NEW k \in Hosts, k # h PROVE HostInv(k)'
    BY <1>1, <1>3, <2>3, Frame DEF TypeOK, StartThread
  <2> QED BY <2>1, <2>2, <2>3 DEF IInv
<1>4. CASE AllStarted \/ Report \/ Interrupt
  <2>1. TypeOK' /\ MainInv'
    BY <1>1, <1>4 DEF TypeOK, MainInv, AllStarted, Report, Interrupt, Alive, Exits
  <2>2. ASSUME NEW h \in Hosts PROVE HostInv(h)'
    BY <1>1, <1>4, Frame DEF AllStarted, Report, Interrupt
  <2> QED BY <2>1, <2>2 DEF IInv
<1> QED BY <1>2, <1>3, <1>4 DEF Main

\* The invariant is inductive.
THEOREM NextIInv == IInv /\ [Next]_vars => IInv'
<1> SUFFICES ASSUME IInv, [Next]_vars PROVE IInv'
  OBVIOUS
<1>1. CASE Main \/ Interrupt
  BY <1>1, MainStep
<1>2. ASSUME NEW h \in Hosts, Worker(h) PROVE IInv'
  BY <1>2, WorkerStep
<1>3. CASE UNCHANGED vars
  <2>1. ASSUME NEW h \in Hosts PROVE HostInv(h)'
    BY <1>3, Frame DEF vars, IInv
  <2> QED BY <1>3, <2>1 DEF vars, IInv, TypeOK, MainInv
<1> QED BY <1>1, <1>2, <1>3 DEF Next, Exited

\* IInv holds in every reachable state, whatever the fleet and the logs.
THEOREM Invariance == Spec => []IInv
  BY InitIInv, NextIInv, PTL DEF Spec

-----------------------------------------------------------------------------
(* The properties the run checks, for every fleet.                         *)

\* The variables keep their types.
THEOREM TypeCorrect == Spec => []TypeOK
<1>1. IInv => TypeOK
  BY DEF IInv
<1> QED BY <1>1, Invariance, PTL

\* Exit code 0 is only ever given when every planned host's logs prove its pass.
THEOREM ExitZeroSound == Spec => []ExitZeroIsProved
<1>1. IInv => ExitZeroIsProved
  <2> SUFFICES ASSUME IInv, main = "exit_0", NEW h \in Hosts, h \in checks PROVE Converged(h)
    BY DEF ExitZeroIsProved, IInv, TypeOK, MainInv
  <2>1. h \in Hosts /\ StepPassed(h, 1) /\ (TwoSteps(h) => StepPassed(h, 2))
    BY DEF IInv, TypeOK, MainInv, HostInv, ThreadInv
  <2>2. ASSUME NEW i \in 1..2, StepPassed(h, i) PROVE CleanLog(ended[h][i])
    BY <2>2 DEF StepPassed, judge_step, CleanLog
  <2>3. TwoSteps(h) => ended[h][2].recaps[Len(ended[h][2].recaps)].changed = 0
    BY <2>1, SecondStep DEF StepPassed, judge_step
  <2> QED BY <2>1, <2>2, <2>3 DEF Converged, TwoSteps
<1> QED BY <1>1, Invariance, PTL

\* A step never meets an install that an earlier step of its host left behind.
THEOREM NoOverlap == Spec => []NoOverlappingInstalls
<1>1. IInv => NoOverlappingInstalls
  BY DEF IInv, HostInv, JobInv, NoOverlappingInstalls
<1> QED BY <1>1, Invariance, PTL

\* A finished host is left alone: once its thread has ended, no step is run
\* on it again and its status and results stay what was reported.
FinishedIsFinal ==
    [][\A h \in Hosts : thread[h] = "done" =>
          /\ thread'[h] = "done"
          /\ <<status'[h], results'[h], phase'[h]>> = <<status[h], results[h], phase[h]>>
          /\ jobs'[h] <= jobs[h]]_vars

\* Once a host's thread has ended, the run never touches that host again.
THEOREM FinishedStays == Spec => FinishedIsFinal
<1> DEFINE Final(h) == thread[h] = "done" =>
              /\ thread'[h] = "done"
              /\ <<status'[h], results'[h], phase'[h]>> = <<status[h], results[h], phase[h]>>
              /\ jobs'[h] <= jobs[h]
<1>1. ASSUME TypeOK, [Next]_vars, NEW h \in Hosts PROVE Final(h)
  <2>0. jobs[h] <= jobs[h]
    <3>1. jobs[h] \in 0..2
      BY <1>1 DEF TypeOK
    <3> QED BY <3>1
  <2>1. CASE Main \/ Interrupt \/ Exited \/ UNCHANGED vars
    BY <1>1, <2>0, <2>1 DEF TypeOK, Main, Plan, StartThread, AllStarted, Report, Interrupt, Exited, vars
  <2>2. ASSUME NEW k \in Hosts, Worker(k) PROVE Final(h)
    <3>1. CASE k = h
      BY <2>2, <3>1 DEF Worker, Begin, RunStep, ChildExits, TimeoutExpired, Judge, ThreadDies
    <3>2. CASE k # h
      BY <1>1, <2>0, <2>2, <3>2 DEF TypeOK, Worker, Begin, RunStep, ChildExits, TimeoutExpired,
                                    Judge, ThreadDies
    <3> QED BY <3>1, <3>2
  <2> QED BY <1>1, <2>1, <2>2 DEF Next
<1>2. TypeOK /\ [Next]_vars => [\A h \in Hosts : Final(h)]_vars
  BY <1>1
<1> QED BY <1>2, TypeCorrect, PTL DEF Spec, FinishedIsFinal

-----------------------------------------------------------------------------
(***************************************************************************)
(* The implementation of FleetVerdict, step by step.                       *)
(***************************************************************************)
LEMMA RefinesInit == Init => Verdict!Init
  BY DEF Init, Verdict!Init, AbstractVerdict, AbstractOutcome

\* A worker's step leaves the abstract view alone, or is the verdict on its
\* host.
LEMMA RefinesWorker ==
    ASSUME IInv, NEW h \in Hosts, Worker(h)
    PROVE  Verdict!Decide(h) \/ UNCHANGED Verdict!vars
<1>1. /\ Alive /\ UNCHANGED <<main, checks>>
      /\ h \in checks /\ thread[h] # "done"
      /\ \A k \in Hosts : k # h => thread'[k] = thread[k] /\ status'[k] = status[k]
  BY DEF IInv, TypeOK, HostInv, ThreadInv, Worker, Begin, RunStep, ChildExits, TimeoutExpired, Judge,
         ThreadDies
<1>2. AbstractOutcome = "open" /\ UNCHANGED AbstractOutcome
  BY <1>1 DEF Alive, AbstractOutcome
<1>3. \A k \in Hosts : k # h => AbstractVerdict'[k] = AbstractVerdict[k]
  BY <1>1 DEF AbstractVerdict
<1>4. CASE thread'[h] # "done"
  <2>1. AbstractVerdict'[h] = AbstractVerdict[h]
    BY <1>1, <1>4 DEF AbstractVerdict
  <2>2. AbstractVerdict' = AbstractVerdict
    BY <1>3, <2>1 DEF AbstractVerdict
  <2> QED BY <1>2, <2>2 DEF Verdict!vars
<1>5. CASE thread'[h] = "done"
  <2>1. AbstractVerdict[h] = "pending" /\ AbstractVerdict'[h] \in {"passed", "failed"}
    BY <1>1, <1>5 DEF AbstractVerdict
  <2>2. AbstractVerdict' = [AbstractVerdict EXCEPT ![h] = AbstractVerdict'[h]]
    BY <1>3, ZenonT(40) DEF AbstractVerdict
  <2> QED BY <1>2, <2>1, <2>2 DEF Verdict!Decide
<1> QED BY <1>4, <1>5

\* A step of the command is a step of the abstract verdict, or none.
LEMMA RefinesMain ==
    ASSUME IInv, Main \/ Interrupt
    PROVE  Verdict!Next \/ UNCHANGED Verdict!vars
<1>0. TypeOK /\ MainInv /\ \A h \in Hosts : ThreadInv(h)
  BY DEF IInv, HostInv
<1>1. CASE Plan
  <2>1. /\ main = "planning" /\ checks' \subseteq Hosts /\ UNCHANGED <<thread, status>>
        /\ \/ main' = "starting" /\ checks' # {}
           \/ main' = "plan_error" /\ checks' = {}
    BY <1>1 DEF Plan
  <2>2. \A h \in Hosts : thread[h] = "new"
    BY <1>0, <2>1 DEF MainInv
  <2>3. checks = {}
    BY <1>0, <2>1, <2>2 DEF MainInv
  <2>4. AbstractVerdict = [h \in Hosts |-> "none"] /\ Verdict!UnderCheck = {}
    BY <2>3 DEF AbstractVerdict, Verdict!UnderCheck
  <2>5. CASE main' = "starting"
    <3>1. AbstractVerdict' = [h \in Hosts |-> IF h \in checks' THEN "pending" ELSE "none"]
      BY <2>1, <2>2 DEF AbstractVerdict
    <3>2. checks' \in (SUBSET Hosts) \ {{}}
      BY <2>1, <2>5
    <3>3. AbstractOutcome = "open" /\ UNCHANGED AbstractOutcome
      BY <2>1, <2>5 DEF AbstractOutcome
    <3> QED BY <2>4, <3>1, <3>2, <3>3 DEF Verdict!Next, Verdict!Choose
  <2>6. CASE main' = "plan_error"
    <3>1. AbstractVerdict' = AbstractVerdict
      BY <2>1, <2>3, <2>6 DEF AbstractVerdict
    <3>2. AbstractOutcome = "open" /\ AbstractOutcome' = "aborted"
      BY <2>1, <2>6 DEF AbstractOutcome
    <3> QED BY <3>1, <3>2 DEF Verdict!Next, Verdict!Abort
  <2> QED BY <2>1, <2>5, <2>6
<1>2. CASE AllStarted \/ \E h \in Hosts : StartThread(h)
  <2>1. UNCHANGED AbstractOutcome
    BY <1>2 DEF AllStarted, StartThread, AbstractOutcome
  <2>2. \A k \in Hosts : thread'[k] = "done" <=> thread[k] = "done"
    BY <1>0, <1>2 DEF AllStarted, StartThread, TypeOK
  <2>3. UNCHANGED AbstractVerdict
    BY <1>2, <2>2 DEF AllStarted, StartThread, AbstractVerdict
  <2> QED BY <2>1, <2>3 DEF Verdict!vars
<1>3. CASE Report
  <2>1. UNCHANGED AbstractVerdict
    BY <1>3 DEF Report, AbstractVerdict
  <2>2. Verdict!UnderCheck = checks
    BY <1>0, <1>3 DEF Report, TypeOK, Verdict!UnderCheck, AbstractVerdict
  <2>3. checks # {} /\ \A h \in Hosts : AbstractVerdict[h] # "pending"
    BY <1>0, <1>3 DEF Report, MainInv, AbstractVerdict
  <2>4. \A h \in checks : AbstractVerdict[h] = "passed" <=> status[h] = PASSED
    BY <1>0, <1>3 DEF Report, TypeOK, AbstractVerdict
  <2>5. /\ AbstractOutcome = "open"
        /\ AbstractOutcome' = IF \A h \in checks : status[h] = PASSED
                              THEN "success" ELSE "failure"
    BY <1>3 DEF Report, AbstractOutcome
  <2> QED BY <2>1, <2>2, <2>3, <2>4, <2>5 DEF Verdict!Next, Verdict!Conclude
<1>4. CASE Interrupt
  <2>1. UNCHANGED AbstractVerdict
    BY <1>4 DEF Interrupt, AbstractVerdict
  <2>2. AbstractOutcome = "open" /\ AbstractOutcome' = "aborted"
    BY <1>4 DEF Interrupt, Alive, AbstractOutcome
  <2> QED BY <2>1, <2>2 DEF Verdict!Next, Verdict!Abort
<1> QED BY <1>1, <1>2, <1>3, <1>4 DEF Main

\* Every behaviour of the threaded check is one of the abstract command.
THEOREM Refinement == Spec => ImplementsVerdict
<1>1. IInv /\ [Next]_vars => [Verdict!Next]_(Verdict!vars)
  <2> SUFFICES ASSUME IInv, [Next]_vars
               PROVE  Verdict!Next \/ UNCHANGED Verdict!vars
    OBVIOUS
  <2>1. CASE Main \/ Interrupt
    BY <2>1, RefinesMain
  <2>2. ASSUME NEW h \in Hosts, Worker(h) PROVE Verdict!Next \/ UNCHANGED Verdict!vars
    BY <2>2, RefinesWorker DEF Verdict!Next
  <2>3. CASE UNCHANGED vars
    BY <2>3 DEF vars, Verdict!vars, AbstractVerdict, AbstractOutcome
  <2> QED BY <2>1, <2>2, <2>3 DEF Next, Exited
<1> QED BY <1>1, RefinesInit, Invariance, PTL DEF Spec, Verdict!Spec, ImplementsVerdict
=============================================================================
