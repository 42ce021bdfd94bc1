------------------------ MODULE ContainerTargetProofs ------------------------
(***************************************************************************)
(* Proofs about ContainerTarget, for any set of commands and any bounds.   *)
(*                                                                         *)
(* The inductive invariant says of each command where it may be (Route),   *)
(* what a refresh knows of the image (Fresh), that a calm command is alone *)
(* (Alone), and what a calm command has learnt of the container and the    *)
(* image (Learnt).  Others' steps break none of it: a command that is not  *)
(* calm has learnt nothing, and a tag moves only to a later build.         *)
(***************************************************************************)
EXTENDS ContainerTarget, TLAPS

\* Where a command makes a container.
Replacing == {"image", "inspect", "rm", "run"}

\* The places of a command are those of its operation.
Route(c) ==
    /\ command[c].at = "build" => command[c].op \in {"build", "refresh"}
    /\ command[c].at \in {"state", "start"} => command[c].op \in Ensures
    /\ command[c].at \in Replacing => command[c].op \in {"up", "refresh"} \cup Ensures
    /\ command[c].at \in {"exists", "attach", "session"} => command[c].op \in {"exec", "enter"}
    /\ command[c].at \in {"down_inspect", "down_rm"} => command[c].op \in {"down", "reset"}
    /\ command[c].at \in {"reset_image", "image_rm"} => command[c].op = "reset"

\* After its build, a refresh finds that image tagged, a later one, or none.
Fresh(c) ==
    (command[c].op = "refresh" /\ command[c].at \in Replacing) =>
        /\ command[c].built <= builds
        /\ image # 0 => command[c].built <= image

\* A calm command that works is alone.
Alone(c) == (calm[c] /\ Working(c)) => \A d \in Cmds : Working(d) => d = c

\* What the answers of docker have told a command that is alone.
Learnt(c) ==
    calm[c] =>
        /\ (command[c].op \in Ensures /\ command[c].at \in Replacing) => container = None
        /\ command[c].at \in {"inspect", "rm", "run"} => image # 0
        /\ (command[c].at \in {"reset_image", "image_rm"} /\ command[c].removed) => container = None

\* What the invariant says of one command.
CommandInv(c) == Route(c) /\ Fresh(c) /\ Alone(c) /\ Learnt(c)

\* The inductive invariant.
IInv == TypeOK /\ \A c \in Cmds : CommandInv(c)

-----------------------------------------------------------------------------
\* The invariant holds when nothing exists and no command is at work.
LEMMA InitInv == Init => IInv
  BY TargetAssumption, SMT
  DEF Init, IInv, TypeOK, CommandInv, Route, Fresh, Alone, Learnt, Working, Ended, Places, Ops,
      Ensures, Replacing

\* A container of the type is told apart from None.
LEMMA NoneIsNone == \A x \in Containers : x # None
  BY TargetAssumption DEF Containers

\* The three parts of the type invariant.
CommandType == command \in [Cmds -> [at : Places, op : Ops, built : 0..MaxBuilds, removed : BOOLEAN]]
HistoryType == faults \in 0..MaxFaults /\ calm \in [Cmds -> BOOLEAN]
DockerType ==
    /\ image \in 0..builds /\ builds \in 0..MaxBuilds /\ runs \in 0..MaxRuns
    /\ container \in Containers \cup {None}
    /\ container # None => container.id = runs /\ container.image <= builds

\* Together they are the type invariant.
LEMMA TypeParts == TypeOK <=> (CommandType /\ HistoryType /\ DockerType)
  BY DEF TypeOK, CommandType, HistoryType, DockerType

\* A command that goes to a place keeps its type.
LEMMA GoesType ==
  ASSUME CommandType, NEW c \in Cmds, NEW place \in Places, Goes(c, place)
  PROVE  CommandType'
  BY DEF CommandType, Goes

\* So does the history, whether docker answers or fails.
LEMMA HistoryStep ==
  ASSUME HistoryType, NEW c \in Cmds, Breaks(c) \/ Answers(c)
  PROVE  HistoryType'
<1>1. CASE Answers(c) BY <1>1 DEF HistoryType, Answers, history
<1>2. CASE Breaks(c)
  <2>1. faults' \in 0..MaxFaults BY <1>2, TargetAssumption DEF HistoryType, Breaks
  <2>2. calm' \in [Cmds -> BOOLEAN] BY <1>2, Zenon DEF HistoryType, Breaks
  <2> QED BY <2>1, <2>2 DEF HistoryType
<1> QED BY <1>1, <1>2

\* Every step of a command keeps the commands' type.
LEMMA CommandStep ==
  ASSUME TypeOK, NEW c \in Cmds, Step(c)
  PROVE  CommandType'
<1> USE GoesType, TypeParts DEF Places, Ended
<1>1. ASSUME NEW op \in Ops, Start(c, op) PROVE CommandType'
  BY <1>1, TargetAssumption DEF Start, CommandType, Ops, Ensures
<1>2. CASE BuildFails(c) BY <1>2 DEF BuildFails
<1>3. CASE Built(c)
  <2>1. builds \in 0..MaxBuilds /\ builds < MaxBuilds BY <1>3 DEF Built, DockerType
  <2>2. builds + 1 \in 0..MaxBuilds BY <2>1, TargetAssumption
  <2>3. PICK place \in Places : command' = [command EXCEPT ![c].at = place, ![c].built = builds + 1]
    BY <1>3 DEF Built
  <2>4. [command[c] EXCEPT !.at = place, !.built = builds + 1]
           \in [at : Places, op : Ops, built : 0..MaxBuilds, removed : BOOLEAN]
    BY <2>2 DEF CommandType
  <2> QED BY <2>3, <2>4 DEF CommandType
<1>4. CASE State(c) BY <1>4 DEF State
<1>5. CASE StartStopped(c) BY <1>5 DEF StartStopped
<1>6. CASE Image(c) BY <1>6 DEF Image
<1>7. CASE Inspect(c) BY <1>7 DEF Inspect
<1>8. CASE Rm(c) BY <1>8 DEF Rm, Remove
<1>9. CASE Run(c) BY <1>9 DEF Run
<1>10. CASE Exists(c) BY <1>10 DEF Exists
<1>11. CASE Attach(c) BY <1>11 DEF Attach
<1>12. CASE Leave(c) BY <1>12 DEF Leave
<1>13. CASE DownInspect(c)
  BY <1>13 DEF DownInspect, AfterDown, CommandType, Goes
<1>14. CASE DownRm(c)
  BY <1>14 DEF DownRm, AfterDown, CommandType, Goes, Remove
<1>15. CASE ResetImage(c) BY <1>15 DEF ResetImage
<1>16. CASE ImageRm(c) BY <1>16 DEF ImageRm
<1>17. CASE Interrupt(c) BY <1>17 DEF Interrupt
<1> QED BY <1>1, <1>2, <1>3, <1>4, <1>5, <1>6, <1>7, <1>8, <1>9, <1>10, <1>11, <1>12, <1>13,
             <1>14, <1>15, <1>16, <1>17 DEF Step

\* And the history's.
LEMMA HistoryTypeStep ==
  ASSUME TypeOK, NEW c \in Cmds, Step(c)
  PROVE  HistoryType'
<1> USE HistoryStep, TypeParts
<1>1. ASSUME NEW op \in Ops, Start(c, op) PROVE HistoryType'
  BY <1>1, Zenon DEF Start, HistoryType
<1>2. CASE BuildFails(c) BY <1>2 DEF BuildFails, HistoryType, history
<1>3. CASE Built(c) BY <1>3 DEF Built, HistoryType, history
<1>4. CASE State(c) BY <1>4 DEF State
<1>5. CASE StartStopped(c) BY <1>5 DEF StartStopped
<1>6. CASE Image(c) BY <1>6 DEF Image
<1>7. CASE Inspect(c) BY <1>7 DEF Inspect
<1>8. CASE Rm(c) BY <1>8 DEF Rm, Remove
<1>9. CASE Run(c) BY <1>9 DEF Run
<1>10. CASE Exists(c) BY <1>10 DEF Exists
<1>11. CASE Attach(c) BY <1>11 DEF Attach
<1>12. CASE Leave(c) BY <1>12 DEF Leave, HistoryType, history
<1>13. CASE DownInspect(c) BY <1>13 DEF DownInspect
<1>14. CASE DownRm(c) BY <1>14 DEF DownRm, Remove
<1>15. CASE ResetImage(c) BY <1>15 DEF ResetImage
<1>16. CASE ImageRm(c) BY <1>16 DEF ImageRm
<1>17. CASE Interrupt(c) BY <1>17 DEF Interrupt, HistoryType, history
<1> QED BY <1>1, <1>2, <1>3, <1>4, <1>5, <1>6, <1>7, <1>8, <1>9, <1>10, <1>11, <1>12, <1>13,
             <1>14, <1>15, <1>16, <1>17 DEF Step

\* And what docker holds.
LEMMA DockerStep ==
  ASSUME TypeOK, NEW c \in Cmds, Step(c)
  PROVE  DockerType'
<1> USE TargetAssumption, NoneIsNone, TypeParts DEF docker
<1>1. ASSUME NEW op \in Ops, Start(c, op) PROVE DockerType'
  BY <1>1 DEF Start, DockerType
<1>2. CASE BuildFails(c) BY <1>2 DEF BuildFails, DockerType
<1>3. CASE Built(c)
  <2>1. builds \in 0..MaxBuilds /\ builds < MaxBuilds /\ builds' = builds + 1 /\ image' = builds + 1
    BY <1>3 DEF Built, DockerType
  <2>2. image' \in 0..builds' /\ builds' \in 0..MaxBuilds BY <2>1
  <2>3. container # None => container.image \in Int /\ container.image <= builds
    BY DEF DockerType, Containers
  <2> QED BY <1>3, <2>1, <2>2, <2>3 DEF Built, DockerType
<1>4. CASE State(c) BY <1>4 DEF State, DockerType
<1>5. CASE StartStopped(c) BY <1>5 DEF StartStopped, DockerType, Containers
<1>6. CASE Image(c) BY <1>6 DEF Image, DockerType
<1>7. CASE Inspect(c) BY <1>7 DEF Inspect, DockerType
<1>8. CASE Rm(c) BY <1>8 DEF Rm, DockerType, Remove
<1>9. CASE Run(c) BY <1>9 DEF Run, DockerType, Containers
<1>10. CASE Exists(c) BY <1>10 DEF Exists, DockerType
<1>11. CASE Attach(c) BY <1>11 DEF Attach, DockerType
<1>12. CASE Leave(c) BY <1>12 DEF Leave, DockerType
<1>13. CASE DownInspect(c) BY <1>13 DEF DownInspect, DockerType
<1>14. CASE DownRm(c) BY <1>14 DEF DownRm, DockerType, Remove
<1>15. CASE ResetImage(c) BY <1>15 DEF ResetImage, DockerType
<1>16. CASE ImageRm(c) BY <1>16 DEF ImageRm, DockerType
<1>17. CASE Interrupt(c) BY <1>17 DEF Interrupt, DockerType
<1> QED BY <1>1, <1>2, <1>3, <1>4, <1>5, <1>6, <1>7, <1>8, <1>9, <1>10, <1>11, <1>12, <1>13,
             <1>14, <1>15, <1>16, <1>17 DEF Step

\* Every step keeps the types: the commands' steps, and a container that stops.
LEMMA TypeStep ==
  ASSUME TypeOK, [Next]_vars
  PROVE  TypeOK'
<1>1. CommandType /\ HistoryType /\ DockerType BY TypeParts
<1>2. (CommandType /\ HistoryType /\ DockerType)'
  <2>1. ASSUME NEW c \in Cmds, Step(c) PROVE (CommandType /\ HistoryType /\ DockerType)'
    BY <2>1, CommandStep, HistoryTypeStep, DockerStep
  <2>2. CASE Stops
    <3>1. DockerType' BY <1>1, <2>2, NoneIsNone DEF Stops, DockerType, Containers
    <3>2. CommandType' BY <1>1, <2>2 DEF Stops, CommandType
    <3>3. HistoryType' BY <1>1, <2>2 DEF Stops, HistoryType, history
    <3> QED BY <3>1, <3>2, <3>3
  <2>3. CASE UNCHANGED vars BY <1>1, <2>3 DEF vars, CommandType, HistoryType, DockerType
  <2> QED BY <2>1, <2>2, <2>3 DEF Next
<1> QED BY <1>2 DEF TypeOK, CommandType, HistoryType, DockerType

-----------------------------------------------------------------------------
\* Past its start, a command acts only while at work; a failing call ends its calm.
LEMMA OwnFrame ==
  ASSUME TypeOK, NEW c \in Cmds, Step(c), ~(\E op \in Ops : Start(c, op))
  PROVE  /\ Working(c)
         /\ \A d \in Cmds : d # c => command'[d] = command[d]
         /\ \A d \in Cmds : calm'[d] => calm[d]
         /\ calm'[c] => ~Breaks(c)
<1> USE TypeParts DEF CommandType, HistoryType
<1>1. Working(c) /\ \A d \in Cmds : d # c => command'[d] = command[d]
  <2>1. CASE BuildFails(c) BY <2>1 DEF BuildFails, Goes, Working, Ended
  <2>2. CASE Built(c) BY <2>2 DEF Built, Goes, Working, Ended
  <2>3. CASE State(c) BY <2>3 DEF State, Goes, Working, Ended
  <2>4. CASE StartStopped(c) BY <2>4 DEF StartStopped, Goes, Working, Ended
  <2>5. CASE Image(c) BY <2>5 DEF Image, Goes, Working, Ended
  <2>6. CASE Inspect(c) BY <2>6 DEF Inspect, Goes, Working, Ended
  <2>7. CASE Rm(c) BY <2>7 DEF Rm, Remove, Goes, Working, Ended
  <2>8. CASE Run(c) BY <2>8 DEF Run, Goes, Working, Ended
  <2>9. CASE Exists(c) BY <2>9 DEF Exists, Goes, Working, Ended
  <2>10. CASE Attach(c) BY <2>10 DEF Attach, Goes, Working, Ended
  <2>11. CASE Leave(c) BY <2>11 DEF Leave, Goes, Working, Ended
  <2>12. CASE DownInspect(c) BY <2>12 DEF DownInspect, AfterDown, Goes, Working, Ended
  <2>13. CASE DownRm(c) BY <2>13 DEF DownRm, Remove, AfterDown, Goes, Working, Ended
  <2>14. CASE ResetImage(c) BY <2>14 DEF ResetImage, Goes, Working, Ended
  <2>15. CASE ImageRm(c) BY <2>15 DEF ImageRm, Goes, Working, Ended
  <2>16. CASE Interrupt(c) BY <2>16 DEF Interrupt, Goes, Working, Ended
  <2> QED BY <2>1, <2>2, <2>3, <2>4, <2>5, <2>6, <2>7, <2>8, <2>9, <2>10, <2>11, <2>12, <2>13,
               <2>14, <2>15, <2>16 DEF Step
<1>2. ASSUME NEW d \in Cmds PROVE calm'[d] => calm[d]
  <2>1. ASSUME Answers(c) \/ Breaks(c) PROVE calm'[d] => calm[d]
    BY <2>1, Zenon DEF Answers, Breaks, history
  <2>2. CASE BuildFails(c) BY <2>1, <2>2 DEF BuildFails, history
  <2>3. CASE Built(c) BY <2>1, <2>3 DEF Built, history
  <2>4. CASE State(c) BY <2>1, <2>4 DEF State, history
  <2>5. CASE StartStopped(c) BY <2>1, <2>5 DEF StartStopped, history
  <2>6. CASE Image(c) BY <2>1, <2>6 DEF Image, history
  <2>7. CASE Inspect(c) BY <2>1, <2>7 DEF Inspect, history
  <2>8. CASE Rm(c) BY <2>1, <2>8 DEF Rm, Remove, history
  <2>9. CASE Run(c) BY <2>1, <2>9 DEF Run, history
  <2>10. CASE Exists(c) BY <2>1, <2>10 DEF Exists, history
  <2>11. CASE Attach(c) BY <2>1, <2>11 DEF Attach, history
  <2>12. CASE Leave(c) BY <2>1, <2>12 DEF Leave, history
  <2>13. CASE DownInspect(c) BY <2>1, <2>13 DEF DownInspect, history
  <2>14. CASE DownRm(c) BY <2>1, <2>14 DEF DownRm, Remove, history
  <2>15. CASE ResetImage(c) BY <2>1, <2>15 DEF ResetImage, history
  <2>16. CASE ImageRm(c) BY <2>1, <2>16 DEF ImageRm, history
  <2>17. CASE Interrupt(c) BY <2>1, <2>17 DEF Interrupt, history
  <2> QED BY <2>2, <2>3, <2>4, <2>5, <2>6, <2>7, <2>8, <2>9, <2>10, <2>11, <2>12, <2>13, <2>14,
               <2>15, <2>16, <2>17 DEF Step
<1>3. calm'[c] => ~Breaks(c) BY Zenon DEF Breaks
<1> QED BY <1>1, <1>2, <1>3

\* Whatever a command does, it moves itself alone and makes no other calm.
LEMMA StepFrame ==
  ASSUME TypeOK, NEW c \in Cmds, Step(c), NEW d \in Cmds, d # c
  PROVE  /\ command'[d] = command[d]
         /\ calm'[d] => calm[d]
         /\ Working(c) \/ (calm'[d] => ~Working(d))
<1>1. CASE \E op \in Ops : Start(c, op)
  <2>1. command'[d] = command[d] BY <1>1, TypeParts DEF Start, CommandType
  <2>2. calm'[d] = (calm[d] /\ ~Working(d)) BY <1>1, Zenon DEF Start
  <2> QED BY <2>1, <2>2, Zenon
<1>2. CASE ~(\E op \in Ops : Start(c, op)) BY <1>2, OwnFrame
<1> QED BY <1>1, <1>2

\* The other commands' part of the invariant outlasts a command's step.
LEMMA OtherStep ==
  ASSUME IInv, NEW c \in Cmds, Step(c), NEW d \in Cmds, d # c
  PROVE  CommandInv(d)'
<1>1. TypeOK /\ CommandInv(d) /\ Alone(d) BY DEF IInv, CommandInv
<1>2. /\ command'[d] = command[d]
      /\ calm'[d] => calm[d]
      /\ Working(c) \/ (calm'[d] => ~Working(d))
  BY <1>1, StepFrame
<1>3. calm'[d] => ~Working(d)
  BY <1>1, <1>2 DEF Alone
<1>4. Route(d)' BY <1>1, <1>2 DEF CommandInv, Route
<1>5. Fresh(d)'
  <2>1. /\ builds' \in {builds, builds + 1}
        /\ image' \in {image, 0, builds + 1}
    BY DEF Step, Start, BuildFails, Built, State, StartStopped, Image, Inspect, Rm, Remove, Run, Exists,
           Attach, Leave, DownInspect, DownRm, ResetImage, ImageRm, Interrupt, docker
  <2> QED BY <1>1, <1>2, <2>1, TypeParts DEF CommandInv, Fresh, CommandType, DockerType
<1>6. Alone(d)' /\ Learnt(d)'
  BY <1>2, <1>3 DEF Alone, Learnt, Working, Ended, Replacing
<1> QED BY <1>4, <1>5, <1>6 DEF CommandInv

\* Its own part: it goes where its operation takes it,
LEMMA RouteStep ==
  ASSUME IInv, NEW c \in Cmds, Step(c)
  PROVE  Route(c)'
<1>1. CommandType /\ Route(c) BY TypeParts DEF IInv, CommandInv
<1> USE <1>1 DEF CommandType, Route, Goes, Replacing, Ensures
<1>2. ASSUME NEW op \in Ops, Start(c, op) PROVE Route(c)'
  BY <1>2 DEF Start, Ops
<1>3. CASE BuildFails(c) BY <1>3 DEF BuildFails
<1>4. CASE Built(c) BY <1>4 DEF Built
<1>5. CASE State(c) BY <1>5 DEF State
<1>6. CASE StartStopped(c) BY <1>6 DEF StartStopped
<1>7. CASE Image(c) BY <1>7 DEF Image
<1>8. CASE Inspect(c) BY <1>8 DEF Inspect
<1>9. CASE Rm(c) BY <1>9 DEF Rm, Remove
<1>10. CASE Run(c) BY <1>10 DEF Run
<1>11. CASE Exists(c) BY <1>11 DEF Exists
<1>12. CASE Attach(c) BY <1>12 DEF Attach
<1>13. CASE Leave(c) BY <1>13 DEF Leave
<1>14. CASE DownInspect(c) BY <1>14 DEF DownInspect, AfterDown
<1>15. CASE DownRm(c) BY <1>15 DEF DownRm, Remove, AfterDown
<1>16. CASE ResetImage(c) BY <1>16 DEF ResetImage
<1>17. CASE ImageRm(c) BY <1>17 DEF ImageRm
<1>18. CASE Interrupt(c) BY <1>18 DEF Interrupt
<1> QED BY <1>2, <1>3, <1>4, <1>5, <1>6, <1>7, <1>8, <1>9, <1>10, <1>11, <1>12, <1>13, <1>14,
             <1>15, <1>16, <1>17, <1>18 DEF Step

\* knows a tag no older than what it built,
LEMMA FreshStep ==
  ASSUME IInv, NEW c \in Cmds, Step(c)
  PROVE  Fresh(c)'
<1>1. CommandType /\ DockerType /\ Route(c) /\ Fresh(c) BY TypeParts DEF IInv, CommandInv
<1> USE <1>1 DEF CommandType, Fresh, Goes, Replacing, Ensures, docker
<1>2. ASSUME NEW op \in Ops, Start(c, op) PROVE Fresh(c)'
  BY <1>2 DEF Start, Ops
<1>3. CASE BuildFails(c) BY <1>3 DEF BuildFails
<1>4. CASE Built(c) BY <1>4 DEF Built, DockerType
<1>5. CASE State(c) BY <1>5 DEF State, Route
<1>6. CASE StartStopped(c) BY <1>6 DEF StartStopped, Route
<1>7. CASE Image(c) BY <1>7 DEF Image
<1>8. CASE Inspect(c) BY <1>8 DEF Inspect
<1>9. CASE Rm(c) BY <1>9 DEF Rm, Remove
<1>10. CASE Run(c) BY <1>10 DEF Run
<1>11. CASE Exists(c) BY <1>11 DEF Exists
<1>12. CASE Attach(c) BY <1>12 DEF Attach
<1>13. CASE Leave(c) BY <1>13 DEF Leave
<1>14. CASE DownInspect(c) BY <1>14 DEF DownInspect, AfterDown
<1>15. CASE DownRm(c) BY <1>15 DEF DownRm, Remove, AfterDown
<1>16. CASE ResetImage(c) BY <1>16 DEF ResetImage
<1>17. CASE ImageRm(c) BY <1>17 DEF ImageRm
<1>18. CASE Interrupt(c) BY <1>18 DEF Interrupt
<1> QED BY <1>2, <1>3, <1>4, <1>5, <1>6, <1>7, <1>8, <1>9, <1>10, <1>11, <1>12, <1>13, <1>14,
             <1>15, <1>16, <1>17, <1>18 DEF Step

\* is calm only when alone,
LEMMA AloneStep ==
  ASSUME IInv, NEW c \in Cmds, Step(c)
  PROVE  Alone(c)'
<1> SUFFICES ASSUME (calm[c] /\ Working(c))', NEW d \in Cmds, Working(d)', d # c PROVE FALSE
  BY DEF Alone
<1>1. TypeOK /\ Alone(c) BY DEF IInv, CommandInv
<1>2. Working(d) BY <1>1, StepFrame DEF Working
<1>3. CASE \E op \in Ops : Start(c, op)
  <2>1. calm' = [e \in Cmds |->
           IF e = c THEN \A f \in Cmds : ~Working(f) ELSE calm[e] /\ ~Working(e)]
    BY <1>3, Zenon DEF Start
  <2>2. calm'[c] = \A f \in Cmds : ~Working(f) BY <2>1, Zenon
  <2> QED BY <1>2, <2>2
<1>4. CASE ~(\E op \in Ops : Start(c, op))
  <2>1. Working(c) /\ (calm'[c] => calm[c]) BY <1>1, <1>4, OwnFrame
  <2> QED BY <1>1, <1>2, <2>1 DEF Alone
<1> QED BY <1>3, <1>4

\* and knows of the container and the image what docker told it.
LEMMA LearntStep ==
  ASSUME IInv, NEW c \in Cmds, Step(c)
  PROVE  Learnt(c)'
<1>1. CommandType /\ Route(c) /\ Learnt(c) BY TypeParts DEF IInv, CommandInv
<1>2. ASSUME NEW op \in Ops, Start(c, op) PROVE Learnt(c)'
  BY <1>1, <1>2 DEF Start, Ops, Ensures, Learnt, Replacing, CommandType
<1>3. ASSUME ~(\E op \in Ops : Start(c, op)), calm'[c] PROVE Learnt(c)'
  <2>1. calm[c] /\ ~Breaks(c) BY <1>3, OwnFrame DEF IInv
  <2> USE <1>1, <2>1 DEF CommandType, Learnt, Route, Goes, Replacing, Ensures, docker
  <2>2. CASE BuildFails(c) BY <2>2 DEF BuildFails
  <2>3. CASE Built(c) BY <2>3 DEF Built
  <2>4. CASE State(c) BY <2>4 DEF State
  <2>5. CASE StartStopped(c) BY <2>5 DEF StartStopped
  <2>6. CASE Image(c) BY <2>6 DEF Image
  <2>7. CASE Inspect(c) BY <2>7 DEF Inspect
  <2>8. CASE Rm(c) BY <2>8 DEF Rm, Remove
  <2>9. CASE Run(c) BY <2>9 DEF Run
  <2>10. CASE Exists(c) BY <2>10 DEF Exists
  <2>11. CASE Attach(c) BY <2>11 DEF Attach
  <2>12. CASE Leave(c) BY <2>12 DEF Leave
  <2>13. CASE DownInspect(c) BY <2>13 DEF DownInspect, AfterDown
  <2>14. CASE DownRm(c) BY <2>14 DEF DownRm, Remove, AfterDown
  <2>15. CASE ResetImage(c) BY <2>15 DEF ResetImage
  <2>16. CASE ImageRm(c) BY <2>16 DEF ImageRm
  <2>17. CASE Interrupt(c) BY <2>17 DEF Interrupt
  <2> QED BY <1>3, <2>2, <2>3, <2>4, <2>5, <2>6, <2>7, <2>8, <2>9, <2>10, <2>11, <2>12, <2>13,
               <2>14, <2>15, <2>16, <2>17 DEF Step
<1> QED BY <1>2, <1>3 DEF Learnt

\* The invariant is inductive.
LEMMA NextInv == IInv /\ [Next]_vars => IInv'
<1> SUFFICES ASSUME IInv, [Next]_vars PROVE IInv'
  OBVIOUS
<1>1. TypeOK' BY TypeStep DEF IInv
<1>2. ASSUME NEW d \in Cmds PROVE CommandInv(d)'
  <2>1. TypeOK /\ CommandInv(d) BY DEF IInv
  <2>2. ASSUME NEW c \in Cmds, Step(c) PROVE CommandInv(d)'
    BY <2>2, OtherStep, RouteStep, FreshStep, AloneStep, LearntStep DEF CommandInv
  <2>3. CASE Stops
    <3>1. (container # None) /\ (container' # None)
      BY <2>1, <2>3, TypeStep, TypeParts, NoneIsNone DEF Stops, DockerType, Containers
    <3> QED BY <2>1, <2>3, <3>1
        DEF Stops, history, CommandInv, Route, Fresh, Alone, Learnt, Working
  <2>4. CASE UNCHANGED vars
    BY <2>1, <2>4 DEF vars, CommandInv, Route, Fresh, Alone, Learnt, Working
  <2> QED BY <2>2, <2>3, <2>4 DEF Next
<1> QED BY <1>1, <1>2 DEF IInv

-----------------------------------------------------------------------------
\* While a calm command is at work, a step of a command is its own, past its
\* start, and no failure.
LEMMA CalmStep ==
  ASSUME IInv, NEW c \in Cmds, Working(c), calm'[c], NEW d \in Cmds, Step(d)
  PROVE  d = c /\ calm[c] /\ ~Breaks(c) /\ ~(\E op \in Ops : Start(c, op))
<1>1. TypeOK /\ Alone(c) BY DEF IInv, CommandInv
<1>2. d = c
  <2> SUFFICES ASSUME d # c PROVE FALSE
    OBVIOUS
  <2>1. calm[c] /\ Working(d) BY <1>1, StepFrame
  <2> QED BY <1>1, <2>1 DEF Alone
<1>3. ~(\E op \in Ops : Start(c, op)) BY DEF Start
<1>4. calm[c] /\ ~Breaks(c) BY <1>1, <1>2, <1>3, OwnFrame
<1> QED BY <1>2, <1>3, <1>4

\* A command ends by a step of its own, which is not its start.
LEMMA EndStep ==
  ASSUME IInv, [Next]_vars, NEW c \in Cmds, Ends(c, "true")
  PROVE  Step(c) /\ ~(\E op \in Ops : Start(c, op))
<1>1. command'[c] # command[c] BY DEF Ends, Working, Ended
<1>2. PICK d \in Cmds : Step(d) BY <1>1 DEF Next, Stops, vars
<1>3. d = c BY <1>1, <1>2, StepFrame DEF IInv
<1>4. ~(\E op \in Ops : Start(c, op)) BY DEF Ends, Start
<1> QED BY <1>2, <1>3, <1>4

\* `enter` and the `ft host` commands keep a container that exists, whatever its
\* state, one at a time and with docker answering.
LEMMA KeepsStep ==
  ASSUME IInv, [Next]_vars, NEW c \in Cmds, Working(c), calm'[c],
         command[c].op \in Ensures, container # None
  PROVE  container' # None /\ container'.id = container.id
<1>1. TypeOK /\ CommandType /\ DockerType /\ Route(c) /\ Learnt(c)
  BY TypeParts DEF IInv, CommandInv
<1>2. TypeOK' BY <1>1, TypeStep
<1>3. ASSUME Step(c) PROVE container' # None /\ container'.id = container.id
  <2>1. calm[c] /\ ~(\E op \in Ops : Start(c, op)) BY <1>3, CalmStep
  <2>2. command[c].at \notin Replacing \cup {"down_rm"}
    BY <1>1, <2>1 DEF Learnt, Route, Replacing, Ensures
  <2>3. container' = container \/ container' = [container EXCEPT !.running = TRUE]
    BY <1>3, <2>1, <2>2
    DEF Step, BuildFails, Built, State, StartStopped, Image, Inspect, Rm, Run, Exists, Attach, Leave,
        DownInspect, DownRm, ResetImage, ImageRm, Interrupt, docker, Replacing
  <2> QED BY <1>1, <2>3, NoneIsNone DEF DockerType, Containers
<1>4. ASSUME NEW d \in Cmds, Step(d) PROVE Step(c) BY <1>4, CalmStep
<1>5. CASE Stops BY <1>1, <1>5, NoneIsNone DEF Stops, DockerType, Containers
<1>6. CASE UNCHANGED vars BY <1>6 DEF vars
<1> QED BY <1>3, <1>4, <1>5, <1>6 DEF Next

\* A refresh that ends well has just run the image it built, or a later one.
LEMMA RefreshStep ==
  ASSUME IInv, [Next]_vars, NEW c \in Cmds, Ends(c, "true"), command[c].op = "refresh"
  PROVE  container' # None /\ container'.image >= command[c].built
<1>1. CommandType /\ DockerType /\ Route(c) /\ Fresh(c) BY TypeParts DEF IInv, CommandInv
<1>2. Step(c) /\ ~(\E op \in Ops : Start(c, op)) BY EndStep
<1>3. Run(c)
  <2> USE <1>1 DEF Ends, Goes, CommandType, Route, Ensures
  <2>1. CASE BuildFails(c) BY <2>1 DEF BuildFails
  <2>2. CASE Built(c) BY <2>2 DEF Built
  <2>3. CASE State(c) BY <2>3 DEF State
  <2>4. CASE StartStopped(c) BY <2>4 DEF StartStopped
  <2>5. CASE Image(c) BY <2>5 DEF Image
  <2>6. CASE Inspect(c) BY <2>6 DEF Inspect
  <2>7. CASE Rm(c) BY <2>7 DEF Rm, Remove
  <2>8. CASE Run(c) BY <2>8 DEF Run
  <2>9. CASE Exists(c) BY <2>9 DEF Exists
  <2>10. CASE Attach(c) BY <2>10 DEF Attach
  <2>11. CASE Leave(c) BY <2>11 DEF Leave
  <2>12. CASE DownInspect(c) BY <2>12 DEF DownInspect, AfterDown
  <2>13. CASE DownRm(c) BY <2>13 DEF DownRm, Remove, AfterDown
  <2>14. CASE ResetImage(c) BY <2>14 DEF ResetImage
  <2>15. CASE ImageRm(c) BY <2>15 DEF ImageRm
  <2>16. CASE Interrupt(c) BY <2>16 DEF Interrupt
  <2> QED BY <1>2, <2>1, <2>2, <2>3, <2>4, <2>5, <2>6, <2>7, <2>8, <2>9, <2>10, <2>11, <2>12,
               <2>13, <2>14, <2>15, <2>16 DEF Step
<1>4. image # 0 /\ runs < MaxRuns /\ container' \in [id : {runs + 1}, image : {image}, running : BOOLEAN]
  BY <1>1, <1>3 DEF Run, Ends, Goes, CommandType
<1>5. image \in 1..MaxBuilds /\ runs + 1 \in 1..MaxRuns
  BY <1>1, <1>4, TargetAssumption DEF DockerType
<1>6. container' \in Containers BY <1>4, <1>5 DEF Containers
<1>7. command[c].built <= image BY <1>1, <1>3, <1>4 DEF Fresh, Run, Replacing
<1> QED BY <1>1, <1>4, <1>5, <1>6, <1>7, NoneIsNone DEF CommandType

\* A calm command other than down and reset removes a container only over an image.
LEMMA ReplacesStep ==
  ASSUME IInv, [Next]_vars, NEW c \in Cmds, Working(c), calm'[c],
         command[c].op \notin {"down", "reset"}, container # None, container' = None
  PROVE  image # 0
<1>1. CommandType /\ DockerType /\ Route(c) /\ Learnt(c) BY TypeParts DEF IInv, CommandInv
<1>2. ASSUME Step(c) PROVE image # 0
  <2>1. calm[c] /\ ~(\E op \in Ops : Start(c, op)) BY <1>2, CalmStep
  <2>2. command[c].at \notin {"down_rm"} BY <1>1 DEF Route
  <2>3. CASE command[c].at \in {"start", "rm", "run"}
    <3>1. ~StartStopped(c)
      BY <1>1, NoneIsNone DEF StartStopped, DockerType, Containers
    <3>2. command[c].at # "start"
      BY <1>2, <2>1, <3>1
      DEF Step, BuildFails, Built, State, Image, Inspect, Rm, Run, Exists, Attach, Leave,
          DownInspect, DownRm, ResetImage, ImageRm, Interrupt, docker
    <3> QED BY <1>1, <2>1, <2>3, <3>2 DEF Learnt
  <2>4. CASE command[c].at \notin {"start", "rm", "run"}
    BY <1>2, <2>1, <2>2, <2>4
    DEF Step, BuildFails, Built, State, StartStopped, Image, Inspect, Rm, Run, Exists, Attach, Leave,
        DownInspect, DownRm, ResetImage, ImageRm, Interrupt, docker
  <2> QED BY <2>3, <2>4
<1>3. ASSUME NEW d \in Cmds, Step(d) PROVE Step(c) BY <1>3, CalmStep
<1>4. ~Stops BY <1>1, NoneIsNone DEF Stops, DockerType, Containers
<1>5. ~UNCHANGED vars BY DEF vars
<1> QED BY <1>2, <1>3, <1>4, <1>5 DEF Next

\* A calm down or reset that ends well leaves no container, and a reset no image.
LEMMA DownStep ==
  ASSUME IInv, [Next]_vars, NEW c \in Cmds, Ends(c, "true"), calm'[c],
         command[c].op \in {"down", "reset"}
  PROVE  container' = None /\ (command[c].op = "reset" => image' = 0)
<1>1. CommandType /\ Route(c) /\ Learnt(c) BY TypeParts DEF IInv, CommandInv
<1>2. Step(c) BY EndStep
<1>3. calm[c] /\ ~Breaks(c) /\ ~(\E op \in Ops : Start(c, op)) BY <1>2, CalmStep DEF Ends
<1> USE <1>1, <1>3 DEF Ends, Goes, CommandType, Route, Learnt, Ensures, docker
<1>4. CASE BuildFails(c) BY <1>4 DEF BuildFails
<1>5. CASE Built(c) BY <1>5 DEF Built
<1>6. CASE State(c) BY <1>6 DEF State
<1>7. CASE StartStopped(c) BY <1>7 DEF StartStopped
<1>8. CASE Image(c) BY <1>8 DEF Image
<1>9. CASE Inspect(c) BY <1>9 DEF Inspect
<1>10. CASE Rm(c) BY <1>10 DEF Rm, Remove
<1>11. CASE Run(c) BY <1>11 DEF Run, Replacing
<1>12. CASE Exists(c) BY <1>12 DEF Exists
<1>13. CASE Attach(c) BY <1>13 DEF Attach
<1>14. CASE Leave(c) BY <1>14 DEF Leave
<1>15. CASE DownInspect(c) BY <1>15 DEF DownInspect, AfterDown
<1>16. CASE DownRm(c) BY <1>16 DEF DownRm, Remove, AfterDown
<1>17. CASE ResetImage(c) BY <1>17 DEF ResetImage
<1>18. CASE ImageRm(c) BY <1>18 DEF ImageRm
<1>19. CASE Interrupt(c) BY <1>19 DEF Interrupt
<1> QED BY <1>2, <1>3, <1>4, <1>5, <1>6, <1>7, <1>8, <1>9, <1>10, <1>11, <1>12, <1>13, <1>14,
             <1>15, <1>16, <1>17, <1>18, <1>19 DEF Step

-----------------------------------------------------------------------------
\* The inductive invariant holds in every reachable state.
THEOREM Invariance == Spec => []IInv
<1>1. Init => IInv BY InitInv
<1>2. IInv /\ [Next]_vars => IInv' BY NextInv
<1> QED BY <1>1, <1>2, PTL DEF Spec

\* The types, for any set of commands and any bounds.
THEOREM TypeCorrect == Spec => []TypeOK
<1>1. IInv => TypeOK BY DEF IInv
<1> QED BY <1>1, Invariance, PTL

\* A container outlives the commands that only need it.
THEOREM EnsureKeeps == Spec => EnsureKeepsContainer
<1>1. IInv /\ [Next]_vars =>
        [\A c \in Cmds :
            (Working(c) /\ calm'[c] /\ command[c].op \in Ensures /\ container # None)
                => (container' # None /\ container'.id = container.id)]_vars
  BY KeepsStep
<1> QED BY <1>1, Invariance, PTL DEF Spec, EnsureKeepsContainer

\* A refresh that reports success runs its own build or a later one.
THEOREM RefreshRuns == Spec => RefreshRunsItsBuild
<1>1. IInv /\ [Next]_vars =>
        [\A c \in Cmds : (Ends(c, "true") /\ command[c].op = "refresh")
            => (container' # None /\ container'.image >= command[c].built)]_vars
  BY RefreshStep
<1> QED BY <1>1, Invariance, PTL DEF Spec, RefreshRunsItsBuild

\* A container is removed only when its successor's image is there.
THEOREM Replaced == Spec => ReplacedByAnother
<1>1. IInv /\ [Next]_vars =>
        [\A c \in Cmds :
            (Working(c) /\ calm'[c] /\ command[c].op \notin {"down", "reset"}
                /\ container # None /\ container' = None) => image # 0]_vars
  BY ReplacesStep
<1> QED BY <1>1, Invariance, PTL DEF Spec, ReplacedByAnother

\* A down or reset that reports success did what it says.
THEOREM DownRemoves == Spec => DownLeavesNothing
<1>1. IInv /\ [Next]_vars =>
        [\A c \in Cmds : (Ends(c, "true") /\ calm'[c] /\ command[c].op \in {"down", "reset"})
            => (container' = None /\ (command[c].op = "reset" => image' = 0))]_vars
  BY DownStep
<1> QED BY <1>1, Invariance, PTL DEF Spec, DownLeavesNothing
=============================================================================
