---------------------------- MODULE WorkspaceProofs ----------------------------
(***************************************************************************)
(* Proofs about Workspace, for any set of commands and of checkouts and    *)
(* any bounds.                                                             *)
(*                                                                         *)
(* The inductive invariant says of each command where its operation may    *)
(* lead it (Route), that a calm command is alone (Alone), and what a calm  *)
(* command has learnt (Learnt): which checkout it staged, which container  *)
(* it created, what its probes saw, whether the store it found was empty.  *)
(* A command that is calm and at work is alone, so that the others' steps  *)
(* take nothing of it away; a container that stops only ends what needs    *)
(* one that runs.                                                          *)
(***************************************************************************)
EXTENDS Workspace, TLAPS

\* What is left to ask of the container.
Todos(op, mount) ==
    IF op = "auth" THEN {AuthProbes, <<"socket", "layers">>, <<"layers">>}
    ELSE {Probes(mount), <<"tools">>} \cup (IF mount THEN {<<"mount", "tools">>} ELSE {})

\* Where a command opens a shell, and where init-test is at work.
Shelling == {"exists", "attach", "session"}
Initialising == {"see", "see_key", "see_store", "judge", "clean_keys", "clean_store",
                 "generate", "pass_init", "after"}

\* The places of a command are those of its operation.
Route(c) ==
    /\ command[c].at \in {"stage_rm", "stage_copy"} =>
          command[c].op = "build" /\ command[c].from \in Sources
    /\ command[c].at = "build" => command[c].op \in {"build"} \cup Ups
    /\ command[c].at \in {"pull", "tag"} => command[c].op = "pull"
    /\ command[c].at \in {"image", "inspect", "rm", "run"} => command[c].op \in Ups
    /\ command[c].at \in Shelling => command[c].op \in {"enter", "exec"}
    /\ command[c].at \in {"down_inspect", "down_rm"} => command[c].op \in {"down", "reset"}
    /\ command[c].at \in {"reset_image", "image_rm"} => command[c].op = "reset"
    /\ command[c].at \in {"v_inspect", "probe"} => command[c].op \in Reports
    /\ command[c].at = "probe" => command[c].todo \in Todos(command[c].op, command[c].mount)
    /\ command[c].at \in Initialising => command[c].op = "init"
    /\ command[c].at \in {"clean_keys", "clean_store"} => command[c].force

\* A calm command that works is alone.
Alone(c) == (calm[c] /\ Working(c)) => \A d \in Cmds : Working(d) => d = c

\* The image is built from the checkout that was asked for.
Staged(c) ==
    (command[c].at = "build" /\ command[c].op = "build" /\ command[c].from \in Sources) =>
        stage = command[c].from

\* The shell of an enter is in the container that the command created.
Entered(c) ==
    (command[c].at \in Shelling /\ command[c].op = "enter") =>
        /\ container # None
        /\ container.by = c /\ command[c].ran /\ container.image = image

\* The probes that a validate is past, all passed, saw one container.
Probed(c) ==
    (command[c].at = "probe" /\ command[c].op = "validate" /\ command[c].ok) =>
        /\ command[c].todo \in {<<"mount", "tools">>, <<"tools">>} =>
              container # None /\ container.image # "half"
        /\ (command[c].todo = <<"tools">> /\ command[c].mount) => container.mount

\* An init-test that goes on unforced saw no store, unless the container it
\* looked into had stopped: then it can do nothing more.
Searched(c) ==
    (~command[c].force /\ Ready(c)) =>
        /\ (command[c].at = "judge" /\ ~command[c].saw) => store = None
        /\ command[c].at \in {"generate", "pass_init"} => store = None

\* What a calm command has learnt is still so.
Learnt(c) == calm[c] => Staged(c) /\ Entered(c) /\ Probed(c) /\ Searched(c)

\* What the invariant says of one command.
CommandInv(c) == Route(c) /\ Alone(c) /\ Learnt(c)

\* The inductive invariant.
IInv == TypeOK /\ \A c \in Cmds : CommandInv(c)

-----------------------------------------------------------------------------
\* The invariant holds when no command is at work.
LEMMA InitInv == Init => IInv
  BY WorkspaceAssumption, SMT
  DEF Init, IInv, TypeOK, CommandInv, Route, Alone, Learnt, Staged, Entered, Probed, Searched, Ready,
      Working, Ended, Places, Ops, Ups, Reports, Fresh, Shelling, Initialising, Contents

\* The parts of the type invariant.
Containers == [by : Cmds, image : Contents, up : BOOLEAN, mount : BOOLEAN]
ProbeNames == {"shell", "mount", "tools", "helper", "socket", "layers"}
ProbeSeqs == Seq(ProbeNames)
Commands == [at : Places, op : Ops, from : Sources \cup {"github", "staged"},
             force : BOOLEAN, mount : BOOLEAN, todo : ProbeSeqs,
             saw : BOOLEAN, ok : BOOLEAN, ran : BOOLEAN]
CommandType == command \in [Cmds -> Commands]
HistoryType == starts \in 0..MaxStarts /\ faults \in 0..MaxFaults /\ calm \in [Cmds -> BOOLEAN]
HostType ==
    /\ stage \in Sources \cup {"half", None} /\ image \in Contents \cup {None}
    /\ container \in Containers \cup {None}
    /\ keys \subseteq {"own", "test"} /\ store \in {None, "own", "test"}

\* Together they are the type invariant.
LEMMA TypeParts == TypeOK <=> (CommandType /\ HistoryType /\ HostType)
  BY DEF TypeOK, CommandType, HistoryType, HostType, Commands, Containers, ProbeNames, ProbeSeqs

\* A container of the type is told apart from None.
LEMMA NoneIsNone == \A x \in Containers : x # None
  BY WorkspaceAssumption DEF Containers

\* The lists of probes, and what is left of them after the first.
LEMMA ProbeLists ==
  /\ <<>> \in ProbeSeqs
  /\ AuthProbes \in ProbeSeqs /\ Probes(TRUE) \in ProbeSeqs /\ Probes(FALSE) \in ProbeSeqs
  /\ <<"mount", "tools">> \in ProbeSeqs /\ <<"tools">> \in ProbeSeqs
  /\ <<"socket", "layers">> \in ProbeSeqs /\ <<"layers">> \in ProbeSeqs
<1>1. <<>> \in ProbeSeqs BY DEF ProbeSeqs
<1>2. AuthProbes \in ProbeSeqs BY DEF ProbeSeqs, ProbeNames, AuthProbes
<1>3. Probes(TRUE) \in ProbeSeqs /\ Probes(FALSE) \in ProbeSeqs
  BY DEF ProbeSeqs, ProbeNames, Probes
<1>4. <<"mount", "tools">> \in ProbeSeqs /\ <<"tools">> \in ProbeSeqs
  BY DEF ProbeSeqs, ProbeNames
<1>5. <<"socket", "layers">> \in ProbeSeqs /\ <<"layers">> \in ProbeSeqs
  BY DEF ProbeSeqs, ProbeNames
<1> QED BY <1>1, <1>2, <1>3, <1>4, <1>5

\* A probe changes what is left, the result so far and the place.
LEMMA ProbedType ==
  ASSUME NEW r \in Commands, NEW todo \in ProbeSeqs, NEW ok \in BOOLEAN, NEW place \in Places
  PROVE  [r EXCEPT !.todo = todo, !.ok = ok, !.at = place] \in Commands
  BY DEF Commands

\* What is left of a list of probes is a list of the same validate.
LEMMA ProbeTail ==
  ASSUME NEW op, NEW mount \in BOOLEAN, NEW todo \in Todos(op, mount)
  PROVE  /\ Tail(todo) \in ProbeSeqs
         /\ Tail(todo) # <<>> => Tail(todo) \in Todos(op, mount)
<1>1. Tail(<<"layers">>) = <<>> /\ Tail(<<"tools">>) = <<>>
  OBVIOUS
<1>2. /\ Tail(AuthProbes) = <<"socket", "layers">>
      /\ Tail(<<"socket", "layers">>) = <<"layers">>
  BY DEF AuthProbes
<1>3. Tail(Probes(TRUE)) = <<"mount", "tools">> BY DEF Probes
<1>4. Tail(Probes(FALSE)) = <<"tools">> BY DEF Probes
<1>5. Tail(<<"mount", "tools">>) = <<"tools">> OBVIOUS
<1>6. CASE op = "auth"
  BY <1>1, <1>2, <1>6, ProbeLists, Zenon DEF Todos
<1>7. CASE op # "auth" /\ mount
  <2>1. Todos(op, mount) = {Probes(TRUE), <<"tools">>, <<"mount", "tools">>}
    BY <1>7 DEF Todos
  <2> QED BY <1>1, <1>3, <1>5, <2>1, ProbeLists, Zenon
<1>8. CASE op # "auth" /\ ~mount
  <2>1. Todos(op, mount) = {Probes(FALSE), <<"tools">>}
    BY <1>8 DEF Todos
  <2> QED BY <1>1, <1>4, <2>1, ProbeLists, Zenon
<1> QED BY <1>6, <1>7, <1>8

\* A command that goes to a place keeps its type.
LEMMA GoesType ==
  ASSUME CommandType, NEW c \in Cmds, NEW place \in Places, Goes(c, place)
  PROVE  CommandType'
  BY DEF CommandType, Commands, Goes

\* Every step of a command keeps the commands' type.
LEMMA CommandStep ==
  ASSUME IInv, NEW c \in Cmds, Step(c)
  PROVE  CommandType'
<1>1. CommandType /\ Route(c) BY TypeParts DEF IInv, CommandInv
<1> USE GoesType, <1>1 DEF Places, Ended
<1>2. ASSUME NEW op \in Ops, Start(c, op) PROVE CommandType'
  <2>1. PICK from \in Sources \cup {"github", "staged"}, force \in BOOLEAN :
           command' = [command EXCEPT ![c] = [Fresh(op, from, force) EXCEPT !.at = First(op, from)]]
    BY <1>2 DEF Start
  <2>2. First(op, from) \in Places BY DEF First, Ops, Ups, Reports
  <2>3. Fresh(op, from, force) \in Commands BY ProbeLists DEF Fresh, Commands
  <2>4. [Fresh(op, from, force) EXCEPT !.at = First(op, from)] \in Commands
    BY <2>2, <2>3 DEF Commands
  <2> QED BY <2>1, <2>4 DEF CommandType
<1>3. CASE StageRm(c) BY <1>3 DEF StageRm
<1>4. CASE StageCopy(c) BY <1>4 DEF StageCopy
<1>5. CASE BuildFails(c) BY <1>5 DEF BuildFails
<1>6. CASE Built(c) BY <1>6 DEF Built
<1>7. CASE Pull(c) BY <1>7 DEF Pull
<1>8. CASE Tag(c) BY <1>8 DEF Tag
<1>9. CASE Image(c) BY <1>9 DEF Image
<1>10. CASE Inspect(c) BY <1>10 DEF Inspect
<1>11. CASE Rm(c) BY <1>11 DEF Rm, Remove
<1>12. CASE Run(c) BY <1>12 DEF Run, Goes, CommandType, Commands
<1>13. CASE Exists(c) BY <1>13 DEF Exists
<1>14. CASE Attach(c) BY <1>14 DEF Attach
<1>15. CASE Leave(c) BY <1>15 DEF Leave
<1>16. CASE DownInspect(c) BY <1>16 DEF DownInspect, AfterDown, CommandType, Commands, Goes
<1>17. CASE DownRm(c) BY <1>17 DEF DownRm, Remove, AfterDown, CommandType, Commands, Goes
<1>18. CASE ResetImage(c) BY <1>18 DEF ResetImage, Result
<1>19. CASE ImageRm(c) BY <1>19 DEF ImageRm, Result
<1>20. CASE ValidateInspect(c)
  <2>1. CASE Goes(c, "false") BY <2>1
  <2>2. CASE ~Goes(c, "false")
    <3>1. PICK mount \in BOOLEAN, todo \in ProbeSeqs : command' = [command EXCEPT
             ![c].at = "probe", ![c].mount = mount, ![c].todo = todo]
      BY <1>20, <2>2, ProbeLists, Zenon DEF ValidateInspect, Resolves
    <3>2. command[c] \in Commands BY DEF CommandType
    <3>3. [command[c] EXCEPT !.at = "probe", !.mount = mount, !.todo = todo] \in Commands
      BY <3>2 DEF Commands
    <3> QED BY <3>1, <3>3 DEF CommandType
  <2> QED BY <2>1, <2>2
<1>21. CASE Probe(c)
  <2>1. Tail(command[c].todo) \in ProbeSeqs
    BY <1>21, ProbeTail DEF Probe, Route, CommandType, Commands
  <2>2. PICK place \in Places, ok \in BOOLEAN :
           command' = [command EXCEPT ![c].todo = Tail(command[c].todo), ![c].ok = ok, ![c].at = place]
    BY <1>21 DEF Probe, SoFar, CommandType, Commands
  <2>3. command[c] \in Commands BY DEF CommandType
  <2>4. [command[c] EXCEPT !.todo = Tail(command[c].todo), !.ok = ok, !.at = place] \in Commands
    BY <2>1, <2>3, ProbedType
  <2> QED BY <2>2, <2>4 DEF CommandType
<1>22. CASE See(c) BY <1>22 DEF See
<1>23. CASE SeeKey(c) BY <1>23 DEF SeeKey, Sees, CommandType, Commands, Goes
<1>24. CASE SeeStore(c) BY <1>24 DEF SeeStore, Sees, CommandType, Commands, Goes
<1>25. CASE Judge(c) BY <1>25 DEF Judge
<1>26. CASE CleanKeys(c) BY <1>26 DEF CleanKeys, Executes
<1>27. CASE CleanStore(c) BY <1>27 DEF CleanStore, Executes
<1>28. CASE Generate(c) BY <1>28 DEF Generate, Executes
<1>29. CASE PassInit(c) BY <1>29 DEF PassInit, Executes
<1>30. CASE After(c) BY <1>30 DEF After
<1>31. CASE Interrupt(c) BY <1>31 DEF Interrupt
<1> QED BY <1>2, <1>3, <1>4, <1>5, <1>6, <1>7, <1>8, <1>9, <1>10, <1>11, <1>12, <1>13, <1>14,
             <1>15, <1>16, <1>17, <1>18, <1>19, <1>20, <1>21, <1>22, <1>23, <1>24, <1>25, <1>26,
             <1>27, <1>28, <1>29, <1>30, <1>31 DEF Step

\* So does the history, whether docker answers or fails.
LEMMA HistoryKept ==
  ASSUME HistoryType, NEW c \in Cmds, Breaks(c) \/ Answers(c), starts' = starts
  PROVE  HistoryType'
<1>1. CASE Answers(c) BY <1>1 DEF HistoryType, Answers, history
<1>2. CASE Breaks(c)
  <2>1. faults' \in 0..MaxFaults BY <1>2, WorkspaceAssumption DEF HistoryType, Breaks
  <2>2. calm' \in [Cmds -> BOOLEAN] BY <1>2, Zenon DEF HistoryType, Breaks
  <2> QED BY <2>1, <2>2 DEF HistoryType
<1> QED BY <1>1, <1>2

\* Every step keeps the history's type,
LEMMA HistoryStep ==
  ASSUME IInv, NEW c \in Cmds, Step(c)
  PROVE  HistoryType'
<1>1. HistoryType BY TypeParts DEF IInv
<1> USE <1>1, HistoryKept DEF host
<1>2. ASSUME NEW op \in Ops, Start(c, op) PROVE HistoryType'
  <2>1. calm' \in [Cmds -> BOOLEAN] BY <1>2, Zenon DEF Start, HistoryType
  <2>2. starts' \in 0..MaxStarts /\ faults' \in 0..MaxFaults
    BY <1>2, WorkspaceAssumption DEF Start, HistoryType
  <2> QED BY <2>1, <2>2 DEF HistoryType
<1>3. CASE StageRm(c) BY <1>3 DEF StageRm, HistoryType, history
<1>4. CASE StageCopy(c) BY <1>4 DEF StageCopy, HistoryType, history
<1>5. CASE BuildFails(c) BY <1>5 DEF BuildFails, HistoryType, history
<1>6. CASE Built(c) BY <1>6 DEF Built, HistoryType, history
<1>7. CASE Pull(c) BY <1>7 DEF Pull
<1>8. CASE Tag(c) BY <1>8 DEF Tag
<1>9. CASE Image(c) BY <1>9 DEF Image
<1>10. CASE Inspect(c) BY <1>10 DEF Inspect
<1>11. CASE Rm(c) BY <1>11 DEF Rm, Remove
<1>12. CASE Run(c) BY <1>12 DEF Run
<1>13. CASE Exists(c) BY <1>13 DEF Exists
<1>14. CASE Attach(c) BY <1>14 DEF Attach
<1>15. CASE Leave(c) BY <1>15 DEF Leave, HistoryType, history
<1>16. CASE DownInspect(c) BY <1>16 DEF DownInspect, AfterDown
<1>17. CASE DownRm(c) BY <1>17 DEF DownRm, Remove, AfterDown
<1>18. CASE ResetImage(c) BY <1>18 DEF ResetImage, Result
<1>19. CASE ImageRm(c) BY <1>19 DEF ImageRm, Result
<1>20. CASE ValidateInspect(c) BY <1>20 DEF ValidateInspect
<1>21. CASE Probe(c) BY <1>21 DEF Probe, SoFar
<1>22. CASE See(c) BY <1>22 DEF See
<1>23. CASE SeeKey(c) BY <1>23 DEF SeeKey, Sees
<1>24. CASE SeeStore(c) BY <1>24 DEF SeeStore, Sees
<1>25. CASE Judge(c) BY <1>25 DEF Judge, HistoryType, history
<1>26. CASE CleanKeys(c) BY <1>26 DEF CleanKeys, Executes
<1>27. CASE CleanStore(c) BY <1>27 DEF CleanStore, Executes
<1>28. CASE Generate(c) BY <1>28 DEF Generate, Executes
<1>29. CASE PassInit(c) BY <1>29 DEF PassInit, Executes
<1>30. CASE After(c) BY <1>30 DEF After
<1>31. CASE Interrupt(c) BY <1>31 DEF Interrupt, HistoryType, history
<1> QED BY <1>2, <1>3, <1>4, <1>5, <1>6, <1>7, <1>8, <1>9, <1>10, <1>11, <1>12, <1>13, <1>14,
             <1>15, <1>16, <1>17, <1>18, <1>19, <1>20, <1>21, <1>22, <1>23, <1>24, <1>25, <1>26,
             <1>27, <1>28, <1>29, <1>30, <1>31 DEF Step

\* and what the host and docker hold.
LEMMA HostStep ==
  ASSUME IInv, NEW c \in Cmds, Step(c)
  PROVE  HostType'
<1>1. HostType /\ CommandType /\ Route(c) BY TypeParts DEF IInv, CommandInv
<1> USE <1>1, WorkspaceAssumption, NoneIsNone DEF docker, secrets, host
<1>2. ASSUME NEW op \in Ops, Start(c, op) PROVE HostType'
  BY <1>2 DEF Start, HostType
<1>3. CASE StageRm(c) BY <1>3 DEF StageRm, HostType
<1>4. CASE StageCopy(c) BY <1>4 DEF StageCopy, HostType, Route
<1>5. CASE BuildFails(c) BY <1>5 DEF BuildFails, HostType
<1>6. CASE Built(c)
  <2>1. Context(c) \in Contents BY <1>6 DEF Built, Context, HostType, Contents
  <2> QED BY <1>6, <2>1 DEF Built, HostType
<1>7. CASE Pull(c) BY <1>7 DEF Pull, HostType
<1>8. CASE Tag(c) BY <1>8 DEF Tag, HostType, Contents
<1>9. CASE Image(c) BY <1>9 DEF Image, HostType
<1>10. CASE Inspect(c) BY <1>10 DEF Inspect, HostType
<1>11. CASE Rm(c) BY <1>11 DEF Rm, Remove, HostType
<1>12. CASE Run(c)
  <2>1. container' = container \/ \E mount, up \in BOOLEAN :
           image \in Contents /\ container' = [by |-> c, image |-> image, up |-> up, mount |-> mount]
    BY <1>12 DEF Run, CanRun, HostType, Resolves
  <2>2. \A mount, up \in BOOLEAN : image \in Contents =>
           [by |-> c, image |-> image, up |-> up, mount |-> mount] \in Containers
    BY DEF Containers
  <2>3. container' \in Containers \cup {None} BY <2>1, <2>2 DEF HostType
  <2> QED BY <1>12, <2>3 DEF Run, HostType
<1>13. CASE Exists(c) BY <1>13 DEF Exists, HostType
<1>14. CASE Attach(c) BY <1>14 DEF Attach, HostType
<1>15. CASE Leave(c) BY <1>15 DEF Leave, HostType
<1>16. CASE DownInspect(c) BY <1>16 DEF DownInspect, AfterDown, HostType
<1>17. CASE DownRm(c) BY <1>17 DEF DownRm, Remove, AfterDown, HostType
<1>18. CASE ResetImage(c) BY <1>18 DEF ResetImage, Result, HostType
<1>19. CASE ImageRm(c) BY <1>19 DEF ImageRm, Result, HostType
<1>20. CASE ValidateInspect(c) BY <1>20 DEF ValidateInspect, HostType
<1>21. CASE Probe(c) BY <1>21 DEF Probe, SoFar, HostType
<1>22. CASE See(c) BY <1>22 DEF See, HostType
<1>23. CASE SeeKey(c) BY <1>23 DEF SeeKey, Sees, HostType
<1>24. CASE SeeStore(c) BY <1>24 DEF SeeStore, Sees, HostType
<1>25. CASE Judge(c) BY <1>25 DEF Judge, HostType
<1>26. CASE CleanKeys(c) BY <1>26 DEF CleanKeys, Executes, HostType
<1>27. CASE CleanStore(c) BY <1>27 DEF CleanStore, Executes, HostType
<1>28. CASE Generate(c) BY <1>28 DEF Generate, Executes, HostType
<1>29. CASE PassInit(c) BY <1>29 DEF PassInit, Executes, HostType
<1>30. CASE After(c) BY <1>30 DEF After, HostType
<1>31. CASE Interrupt(c) BY <1>31 DEF Interrupt, HostType
<1> QED BY <1>2, <1>3, <1>4, <1>5, <1>6, <1>7, <1>8, <1>9, <1>10, <1>11, <1>12, <1>13, <1>14,
             <1>15, <1>16, <1>17, <1>18, <1>19, <1>20, <1>21, <1>22, <1>23, <1>24, <1>25, <1>26,
             <1>27, <1>28, <1>29, <1>30, <1>31 DEF Step

\* Every step keeps the types: the commands' steps, and a container that stops.
LEMMA TypeStep ==
  ASSUME IInv, [Next]_vars
  PROVE  TypeOK'
<1>1. CommandType /\ HistoryType /\ HostType BY TypeParts DEF IInv
<1>2. (CommandType /\ HistoryType /\ HostType)'
  <2>1. ASSUME NEW c \in Cmds, Step(c) PROVE (CommandType /\ HistoryType /\ HostType)'
    BY <2>1, CommandStep, HistoryStep, HostStep
  <2>2. CASE Stops
    <3>1. container' \in Containers BY <1>1, <2>2 DEF Stops, HostType, Containers
    <3>2. HostType' BY <1>1, <2>2, <3>1 DEF Stops, HostType, secrets, host
    <3>3. CommandType' BY <1>1, <2>2 DEF Stops, CommandType
    <3>4. HistoryType' BY <1>1, <2>2 DEF Stops, HistoryType, history, host
    <3> QED BY <3>2, <3>3, <3>4
  <2>3. CASE UNCHANGED vars BY <1>1, <2>3 DEF vars, CommandType, HistoryType, HostType
  <2> QED BY <2>1, <2>2, <2>3 DEF Next
<1> QED BY <1>2
    DEF TypeOK, CommandType, HistoryType, HostType, Commands, Containers, ProbeNames, ProbeSeqs

-----------------------------------------------------------------------------
\* Past its start, a command acts only while at work; a failing call ends its calm.
LEMMA OwnFrame ==
  ASSUME TypeOK, NEW c \in Cmds, Step(c), ~(\E op \in Ops : Start(c, op))
  PROVE  /\ Working(c)
         /\ \A d \in Cmds : d # c => command'[d] = command[d]
         /\ \A d \in Cmds : calm'[d] => calm[d]
         /\ calm'[c] => ~Breaks(c)
<1>1. CommandType /\ HistoryType BY TypeParts
<1>2. Working(c) /\ \A d \in Cmds : d # c => command'[d] = command[d]
  <2> USE <1>1 DEF CommandType, Goes, Working, Ended
  <2>1. CASE StageRm(c) BY <2>1 DEF StageRm
  <2>2. CASE StageCopy(c) BY <2>2 DEF StageCopy
  <2>3. CASE BuildFails(c) BY <2>3 DEF BuildFails
  <2>4. CASE Built(c) BY <2>4 DEF Built
  <2>5. CASE Pull(c) BY <2>5 DEF Pull
  <2>6. CASE Tag(c) BY <2>6 DEF Tag
  <2>7. CASE Image(c) BY <2>7 DEF Image
  <2>8. CASE Inspect(c) BY <2>8 DEF Inspect
  <2>9. CASE Rm(c) BY <2>9 DEF Rm, Remove
  <2>10. CASE Run(c) BY <2>10 DEF Run
  <2>11. CASE Exists(c) BY <2>11 DEF Exists
  <2>12. CASE Attach(c) BY <2>12 DEF Attach
  <2>13. CASE Leave(c) BY <2>13 DEF Leave
  <2>14. CASE DownInspect(c) BY <2>14 DEF DownInspect, AfterDown
  <2>15. CASE DownRm(c) BY <2>15 DEF DownRm, Remove, AfterDown
  <2>16. CASE ResetImage(c) BY <2>16 DEF ResetImage, Result
  <2>17. CASE ImageRm(c) BY <2>17 DEF ImageRm, Result
  <2>18. CASE ValidateInspect(c) BY <2>18 DEF ValidateInspect
  <2>19. CASE Probe(c) BY <2>19 DEF Probe, SoFar
  <2>20. CASE See(c) BY <2>20 DEF See
  <2>21. CASE SeeKey(c) BY <2>21 DEF SeeKey, Sees
  <2>22. CASE SeeStore(c) BY <2>22 DEF SeeStore, Sees
  <2>23. CASE Judge(c) BY <2>23 DEF Judge
  <2>24. CASE CleanKeys(c) BY <2>24 DEF CleanKeys, Executes
  <2>25. CASE CleanStore(c) BY <2>25 DEF CleanStore, Executes
  <2>26. CASE Generate(c) BY <2>26 DEF Generate, Executes
  <2>27. CASE PassInit(c) BY <2>27 DEF PassInit, Executes
  <2>28. CASE After(c) BY <2>28 DEF After
  <2>29. CASE Interrupt(c) BY <2>29 DEF Interrupt
  <2> QED BY <2>1, <2>2, <2>3, <2>4, <2>5, <2>6, <2>7, <2>8, <2>9, <2>10, <2>11, <2>12, <2>13,
               <2>14, <2>15, <2>16, <2>17, <2>18, <2>19, <2>20, <2>21, <2>22, <2>23, <2>24,
               <2>25, <2>26, <2>27, <2>28, <2>29 DEF Step
<1>3. ASSUME NEW d \in Cmds PROVE calm'[d] => calm[d]
  <2>1. Answers(c) \/ Breaks(c) => (calm'[d] => calm[d])
    BY <1>1, Zenon DEF Answers, Breaks, history, HistoryType
  <2> USE <2>1 DEF history
  <2>2. CASE StageRm(c) BY <2>2 DEF StageRm
  <2>3. CASE StageCopy(c) BY <2>3 DEF StageCopy
  <2>4. CASE BuildFails(c) BY <2>4 DEF BuildFails
  <2>5. CASE Built(c) BY <2>5 DEF Built
  <2>6. CASE Pull(c) BY <2>6 DEF Pull
  <2>7. CASE Tag(c) BY <2>7 DEF Tag
  <2>8. CASE Image(c) BY <2>8 DEF Image
  <2>9. CASE Inspect(c) BY <2>9 DEF Inspect
  <2>10. CASE Rm(c) BY <2>10 DEF Rm, Remove
  <2>11. CASE Run(c) BY <2>11 DEF Run
  <2>12. CASE Exists(c) BY <2>12 DEF Exists
  <2>13. CASE Attach(c) BY <2>13 DEF Attach
  <2>14. CASE Leave(c) BY <2>14 DEF Leave
  <2>15. CASE DownInspect(c) BY <2>15 DEF DownInspect, AfterDown
  <2>16. CASE DownRm(c) BY <2>16 DEF DownRm, Remove, AfterDown
  <2>17. CASE ResetImage(c) BY <2>17 DEF ResetImage, Result
  <2>18. CASE ImageRm(c) BY <2>18 DEF ImageRm, Result
  <2>19. CASE ValidateInspect(c) BY <2>19 DEF ValidateInspect
  <2>20. CASE Probe(c) BY <2>20 DEF Probe, SoFar
  <2>21. CASE See(c) BY <2>21 DEF See
  <2>22. CASE SeeKey(c) BY <2>22 DEF SeeKey, Sees
  <2>23. CASE SeeStore(c) BY <2>23 DEF SeeStore, Sees
  <2>24. CASE Judge(c) BY <2>24 DEF Judge
  <2>25. CASE CleanKeys(c) BY <2>25 DEF CleanKeys, Executes
  <2>26. CASE CleanStore(c) BY <2>26 DEF CleanStore, Executes
  <2>27. CASE Generate(c) BY <2>27 DEF Generate, Executes
  <2>28. CASE PassInit(c) BY <2>28 DEF PassInit, Executes
  <2>29. CASE After(c) BY <2>29 DEF After
  <2>30. CASE Interrupt(c) BY <2>30 DEF Interrupt
  <2> QED BY <2>2, <2>3, <2>4, <2>5, <2>6, <2>7, <2>8, <2>9, <2>10, <2>11, <2>12, <2>13, <2>14,
               <2>15, <2>16, <2>17, <2>18, <2>19, <2>20, <2>21, <2>22, <2>23, <2>24, <2>25,
               <2>26, <2>27, <2>28, <2>29, <2>30 DEF Step
<1>4. calm'[c] => ~Breaks(c) BY <1>1, Zenon DEF Breaks, HistoryType
<1> QED BY <1>2, <1>3, <1>4

\* Whatever a command does, it moves itself alone and makes no other calm.
LEMMA StepFrame ==
  ASSUME TypeOK, NEW c \in Cmds, Step(c), NEW d \in Cmds, d # c
  PROVE  /\ command'[d] = command[d]
         /\ calm'[d] => calm[d]
         /\ Working(c) \/ (calm'[d] => ~Working(d))
<1>1. CASE \E op \in Ops : Start(c, op)
  <2>1. command'[d] = command[d] BY <1>1, TypeParts DEF Start, CommandType
  <2>2. calm'[d] = (calm[d] /\ ~Working(d)) BY <1>1, Zenon DEF Start
  <2> QED BY <2>1, <2>2, Zenon
<1>2. CASE ~(\E op \in Ops : Start(c, op)) BY <1>2, OwnFrame
<1> QED BY <1>1, <1>2

\* The other commands' part of the invariant outlasts a command's step.
LEMMA OtherStep ==
  ASSUME IInv, NEW c \in Cmds, Step(c), NEW d \in Cmds, d # c
  PROVE  CommandInv(d)'
<1>1. TypeOK /\ CommandInv(d) /\ Alone(d) BY DEF IInv, CommandInv
<1>2. /\ command'[d] = command[d]
      /\ calm'[d] => calm[d]
      /\ Working(c) \/ (calm'[d] => ~Working(d))
  BY <1>1, StepFrame
<1>3. calm'[d] => ~Working(d)
  BY <1>1, <1>2 DEF Alone
<1>4. Route(d)' BY <1>1, <1>2 DEF CommandInv, Route
<1>5. Alone(d)' BY <1>2, <1>3 DEF Alone, Working
<1>6. Learnt(d)'
  BY <1>2, <1>3 DEF Learnt, Staged, Entered, Probed, Searched, Working, Ended, Shelling
<1> QED BY <1>4, <1>5, <1>6 DEF CommandInv

\* Its own part: it goes where its operation takes it,
LEMMA RouteStep ==
  ASSUME IInv, NEW c \in Cmds, Step(c)
  PROVE  Route(c)'
<1>1. CommandType /\ Route(c) BY TypeParts DEF IInv, CommandInv
<1> USE <1>1 DEF CommandType, Commands, Route, Goes, Ups, Reports, Shelling, Initialising
<1>2. ASSUME NEW op \in Ops, Start(c, op) PROVE Route(c)'
  <2>1. PICK from \in Sources \cup {"github", "staged"}, force \in BOOLEAN :
           command' = [command EXCEPT ![c] = [Fresh(op, from, force) EXCEPT !.at = First(op, from)]]
    BY <1>2 DEF Start
  <2>2. /\ command'[c].at = First(op, from) /\ command'[c].op = op
        /\ command'[c].from = from
    BY <2>1 DEF Fresh
  <2> QED BY <2>2 DEF Ops, First
<1>3. CASE StageRm(c) BY <1>3 DEF StageRm
<1>4. CASE StageCopy(c) BY <1>4 DEF StageCopy
<1>5. CASE BuildFails(c) BY <1>5 DEF BuildFails
<1>6. CASE Built(c) BY <1>6 DEF Built
<1>7. CASE Pull(c) BY <1>7 DEF Pull
<1>8. CASE Tag(c) BY <1>8 DEF Tag
<1>9. CASE Image(c) BY <1>9 DEF Image
<1>10. CASE Inspect(c) BY <1>10 DEF Inspect
<1>11. CASE Rm(c) BY <1>11 DEF Rm, Remove
<1>12. CASE Run(c) BY <1>12 DEF Run
<1>13. CASE Exists(c) BY <1>13 DEF Exists
<1>14. CASE Attach(c) BY <1>14 DEF Attach
<1>15. CASE Leave(c) BY <1>15 DEF Leave
<1>16. CASE DownInspect(c) BY <1>16 DEF DownInspect, AfterDown
<1>17. CASE DownRm(c) BY <1>17 DEF DownRm, Remove, AfterDown
<1>18. CASE ResetImage(c) BY <1>18 DEF ResetImage, Result
<1>19. CASE ImageRm(c) BY <1>19 DEF ImageRm, Result
<1>20. CASE ValidateInspect(c)
  <2>1. CASE Goes(c, "false") BY <2>1
  <2>2. CASE ~Goes(c, "false")
    <3>1. PICK mount \in BOOLEAN : command' = [command EXCEPT
             ![c].at = "probe", ![c].mount = mount,
             ![c].todo = IF command[c].op = "auth" THEN AuthProbes ELSE Probes(mount)]
      BY <1>20, <2>2, Zenon DEF ValidateInspect, Resolves
    <3>2. PICK todo \in Todos(command[c].op, mount) :
             command' = [command EXCEPT ![c].at = "probe", ![c].mount = mount, ![c].todo = todo]
      <4>1. CASE command[c].op = "auth"
        BY <3>1, <4>1 DEF Todos
      <4>2. CASE command[c].op # "auth"
        BY <3>1, <4>2 DEF Todos
      <4> QED BY <4>1, <4>2
    <3>3. /\ command'[c].at = "probe" /\ command'[c].mount = mount /\ command'[c].todo = todo
          /\ command'[c].op = command[c].op
      BY <3>2
    <3> QED BY <1>20, <3>3, Zenon DEF ValidateInspect
  <2> QED BY <2>1, <2>2
<1>21. CASE Probe(c)
  <2>1. PICK place \in {"probe", "true", "false"}, ok \in BOOLEAN :
           /\ command' = [command EXCEPT ![c].todo = Tail(command[c].todo), ![c].ok = ok, ![c].at = place]
           /\ place = "probe" => Tail(command[c].todo) # <<>>
    BY <1>21 DEF Probe, SoFar
  <2> QED BY <1>21, <2>1, ProbeTail DEF Probe
<1>22. CASE See(c) BY <1>22 DEF See
<1>23. CASE SeeKey(c) BY <1>23 DEF SeeKey, Sees
<1>24. CASE SeeStore(c) BY <1>24 DEF SeeStore, Sees
<1>25. CASE Judge(c) BY <1>25 DEF Judge
<1>26. CASE CleanKeys(c) BY <1>26 DEF CleanKeys, Executes
<1>27. CASE CleanStore(c) BY <1>27 DEF CleanStore, Executes
<1>28. CASE Generate(c) BY <1>28 DEF Generate, Executes
<1>29. CASE PassInit(c) BY <1>29 DEF PassInit, Executes
<1>30. CASE After(c) BY <1>30 DEF After
<1>31. CASE Interrupt(c) BY <1>31 DEF Interrupt
<1> QED BY <1>2, <1>3, <1>4, <1>5, <1>6, <1>7, <1>8, <1>9, <1>10, <1>11, <1>12, <1>13, <1>14,
             <1>15, <1>16, <1>17, <1>18, <1>19, <1>20, <1>21, <1>22, <1>23, <1>24, <1>25, <1>26,
             <1>27, <1>28, <1>29, <1>30, <1>31 DEF Step

\* is calm only when alone,
LEMMA AloneStep ==
  ASSUME IInv, NEW c \in Cmds, Step(c)
  PROVE  Alone(c)'
<1> SUFFICES ASSUME (calm[c] /\ Working(c))', NEW d \in Cmds, Working(d)', d # c PROVE FALSE
  BY DEF Alone
<1>1. TypeOK /\ Alone(c) BY DEF IInv, CommandInv
<1>2. Working(d) BY <1>1, StepFrame DEF Working
<1>3. CASE \E op \in Ops : Start(c, op)
  <2>1. calm' = [e \in Cmds |->
           IF e = c THEN \A f \in Cmds : ~Working(f) ELSE calm[e] /\ ~Working(e)]
    BY <1>3, Zenon DEF Start
  <2>2. calm'[c] = \A f \in Cmds : ~Working(f) BY <2>1, Zenon
  <2> QED BY <1>2, <2>2
<1>4. CASE ~(\E op \in Ops : Start(c, op))
  <2>1. Working(c) /\ (calm'[c] => calm[c]) BY <1>1, <1>4, OwnFrame
  <2> QED BY <1>1, <1>2, <2>1 DEF Alone
<1> QED BY <1>3, <1>4

\* A validate that found a container has all its probes before it, and another
\* probe is one less.
LEMMA ProbesAhead ==
  ASSUME CommandType, NEW c \in Cmds, ValidateInspect(c)
  PROVE  /\ command'[c].op = command[c].op
         /\ \/ command'[c].at = "false"
            \/ /\ command'[c].at = "probe"
               /\ command[c].op = "auth" \/ command'[c].todo = Probes(command'[c].mount)
<1>1. CASE Goes(c, "false") BY <1>1 DEF Goes, CommandType, Commands
<1>2. CASE ~Goes(c, "false")
  <2>1. PICK mount \in BOOLEAN : command' = [command EXCEPT ![c].at = "probe", ![c].mount = mount,
           ![c].todo = IF command[c].op = "auth" THEN AuthProbes ELSE Probes(mount)]
    BY <1>2, Zenon DEF ValidateInspect, Resolves
  <2> QED BY <2>1 DEF CommandType, Commands
<1> QED BY <1>1, <1>2

\* A probe leaves the rest of the list, and remembers whether all held so far.
LEMMA ProbeMoves ==
  ASSUME CommandType, NEW c \in Cmds, Probe(c)
  PROVE  \E ok \in {command[c].ok /\ Holds(Head(command[c].todo)), FALSE} :
           /\ command'[c].op = command[c].op /\ command'[c].mount = command[c].mount
           /\ command'[c].todo = Tail(command[c].todo)
           /\ command'[c].ok = ok
           /\ command'[c].at = IF Tail(command[c].todo) # <<>> THEN "probe"
                               ELSE IF ok THEN "true" ELSE "false"
<1>1. PICK ok \in {command[c].ok /\ Holds(Head(command[c].todo)), FALSE} :
         command' = [command EXCEPT ![c].todo = Tail(command[c].todo), ![c].ok = ok,
             ![c].at = IF Tail(command[c].todo) # <<>> THEN "probe" ELSE IF ok THEN "true" ELSE "false"]
  BY DEF Probe, SoFar, CommandType, Commands
<1> QED BY <1>1 DEF CommandType, Commands

\* and knows, when calm, what it staged,
LEMMA StagedStep ==
  ASSUME IInv, NEW c \in Cmds, Step(c), ~(\E op \in Ops : Start(c, op)), calm'[c]
  PROVE  Staged(c)'
<1>1. CommandType /\ HostType /\ Route(c) /\ Learnt(c) BY TypeParts DEF IInv, CommandInv
<1>2. calm[c] /\ ~Breaks(c) /\ Staged(c) BY <1>1, OwnFrame DEF IInv, Learnt
<1> USE <1>1, <1>2 DEF CommandType, Commands, Staged, Route, Goes, docker, secrets, host, Ups
<1>3. CASE StageRm(c) BY <1>3 DEF StageRm
<1>4. CASE StageCopy(c) BY <1>4 DEF StageCopy
<1>5. CASE BuildFails(c) BY <1>5 DEF BuildFails
<1>6. CASE Built(c) BY <1>6 DEF Built
<1>7. CASE Pull(c) BY <1>7 DEF Pull
<1>8. CASE Tag(c) BY <1>8 DEF Tag
<1>9. CASE Image(c) BY <1>9 DEF Image
<1>10. CASE Inspect(c) BY <1>10 DEF Inspect
<1>11. CASE Rm(c) BY <1>11 DEF Rm, Remove
<1>12. CASE Run(c) BY <1>12 DEF Run
<1>13. CASE Exists(c) BY <1>13 DEF Exists
<1>14. CASE Attach(c) BY <1>14 DEF Attach
<1>15. CASE Leave(c) BY <1>15 DEF Leave
<1>16. CASE DownInspect(c) BY <1>16 DEF DownInspect, AfterDown
<1>17. CASE DownRm(c) BY <1>17 DEF DownRm, Remove, AfterDown
<1>18. CASE ResetImage(c) BY <1>18 DEF ResetImage, Result
<1>19. CASE ImageRm(c) BY <1>19 DEF ImageRm, Result
<1>20. CASE ValidateInspect(c)
  <2>1. command'[c].at \in {"false", "probe"} BY <1>20, ProbesAhead
  <2> QED BY <2>1, <1>20 DEF ValidateInspect, Staged
<1>21. CASE Probe(c) BY <1>21 DEF Probe, SoFar
<1>22. CASE See(c) BY <1>22 DEF See
<1>23. CASE SeeKey(c) BY <1>23 DEF SeeKey, Sees
<1>24. CASE SeeStore(c) BY <1>24 DEF SeeStore, Sees
<1>25. CASE Judge(c) BY <1>25 DEF Judge
<1>26. CASE CleanKeys(c) BY <1>26 DEF CleanKeys, Executes
<1>27. CASE CleanStore(c) BY <1>27 DEF CleanStore, Executes
<1>28. CASE Generate(c) BY <1>28 DEF Generate, Executes
<1>29. CASE PassInit(c) BY <1>29 DEF PassInit, Executes
<1>30. CASE After(c) BY <1>30 DEF After
<1>31. CASE Interrupt(c) BY <1>31 DEF Interrupt
<1> QED BY <1>3, <1>4, <1>5, <1>6, <1>7, <1>8, <1>9, <1>10, <1>11, <1>12, <1>13, <1>14, <1>15,
             <1>16, <1>17, <1>18, <1>19, <1>20, <1>21, <1>22, <1>23, <1>24, <1>25, <1>26, <1>27,
             <1>28, <1>29, <1>30, <1>31 DEF Step

\* in which container it is,
LEMMA EnteredStep ==
  ASSUME IInv, NEW c \in Cmds, Step(c), ~(\E op \in Ops : Start(c, op)), calm'[c]
  PROVE  Entered(c)'
<1>1. CommandType /\ HostType /\ Route(c) /\ Learnt(c) BY TypeParts DEF IInv, CommandInv
<1>2. calm[c] /\ ~Breaks(c) /\ Entered(c) BY <1>1, OwnFrame DEF IInv, Learnt
<1> USE <1>1, <1>2 DEF CommandType, Commands, Entered, Route, Goes, docker, secrets, host, Shelling
<1>3. CASE StageRm(c) BY <1>3 DEF StageRm
<1>4. CASE StageCopy(c) BY <1>4 DEF StageCopy
<1>5. CASE BuildFails(c) BY <1>5 DEF BuildFails
<1>6. CASE Built(c) BY <1>6 DEF Built
<1>7. CASE Pull(c) BY <1>7 DEF Pull
<1>8. CASE Tag(c) BY <1>8 DEF Tag
<1>9. CASE Image(c)
  <2>1. command'[c].at \in {"build", "inspect"} BY <1>9 DEF Image
  <2> QED BY <2>1
<1>10. CASE Inspect(c) BY <1>10 DEF Inspect
<1>11. CASE Rm(c) BY <1>11 DEF Rm, Remove
<1>12. CASE Run(c) BY <1>12 DEF Run
<1>13. CASE Exists(c) BY <1>13 DEF Exists
<1>14. CASE Attach(c) BY <1>14 DEF Attach
<1>15. CASE Leave(c) BY <1>15 DEF Leave
<1>16. CASE DownInspect(c) BY <1>16 DEF DownInspect, AfterDown
<1>17. CASE DownRm(c) BY <1>17 DEF DownRm, Remove, AfterDown
<1>18. CASE ResetImage(c) BY <1>18 DEF ResetImage, Result
<1>19. CASE ImageRm(c) BY <1>19 DEF ImageRm, Result
<1>20. CASE ValidateInspect(c)
  <2>1. command'[c].at \in {"false", "probe"} BY <1>20, ProbesAhead
  <2> QED BY <2>1, <1>20 DEF ValidateInspect, Entered
<1>21. CASE Probe(c) BY <1>21 DEF Probe, SoFar
<1>22. CASE See(c) BY <1>22 DEF See
<1>23. CASE SeeKey(c) BY <1>23 DEF SeeKey, Sees
<1>24. CASE SeeStore(c) BY <1>24 DEF SeeStore, Sees
<1>25. CASE Judge(c) BY <1>25 DEF Judge
<1>26. CASE CleanKeys(c) BY <1>26 DEF CleanKeys, Executes
<1>27. CASE CleanStore(c) BY <1>27 DEF CleanStore, Executes
<1>28. CASE Generate(c) BY <1>28 DEF Generate, Executes
<1>29. CASE PassInit(c) BY <1>29 DEF PassInit, Executes
<1>30. CASE After(c) BY <1>30 DEF After
<1>31. CASE Interrupt(c) BY <1>31 DEF Interrupt
<1> QED BY <1>3, <1>4, <1>5, <1>6, <1>7, <1>8, <1>9, <1>10, <1>11, <1>12, <1>13, <1>14, <1>15,
             <1>16, <1>17, <1>18, <1>19, <1>20, <1>21, <1>22, <1>23, <1>24, <1>25, <1>26, <1>27,
             <1>28, <1>29, <1>30, <1>31 DEF Step

\* what its probes saw
LEMMA ProbedStep ==
  ASSUME IInv, NEW c \in Cmds, Step(c), ~(\E op \in Ops : Start(c, op)), calm'[c]
  PROVE  Probed(c)'
<1>1. CommandType /\ HostType /\ Route(c) /\ Learnt(c) BY TypeParts DEF IInv, CommandInv
<1>2. calm[c] /\ ~Breaks(c) /\ Probed(c) BY <1>1, OwnFrame DEF IInv, Learnt
<1> USE <1>1, <1>2 DEF CommandType, Commands, Probed, Route, Goes, docker, secrets, host
<1>3. CASE StageRm(c) BY <1>3 DEF StageRm
<1>4. CASE StageCopy(c) BY <1>4 DEF StageCopy
<1>5. CASE BuildFails(c) BY <1>5 DEF BuildFails
<1>6. CASE Built(c) BY <1>6 DEF Built
<1>7. CASE Pull(c) BY <1>7 DEF Pull
<1>8. CASE Tag(c) BY <1>8 DEF Tag
<1>9. CASE Image(c) BY <1>9 DEF Image
<1>10. CASE Inspect(c) BY <1>10 DEF Inspect
<1>11. CASE Rm(c) BY <1>11 DEF Rm, Remove
<1>12. CASE Run(c) BY <1>12 DEF Run
<1>13. CASE Exists(c) BY <1>13 DEF Exists
<1>14. CASE Attach(c) BY <1>14 DEF Attach
<1>15. CASE Leave(c) BY <1>15 DEF Leave
<1>16. CASE DownInspect(c) BY <1>16 DEF DownInspect, AfterDown
<1>17. CASE DownRm(c) BY <1>17 DEF DownRm, Remove, AfterDown
<1>18. CASE ResetImage(c) BY <1>18 DEF ResetImage, Result
<1>19. CASE ImageRm(c) BY <1>19 DEF ImageRm, Result
<1>20. CASE ValidateInspect(c)
  <2>1. Probes(TRUE) \notin {<<"mount", "tools">>, <<"tools">>} BY DEF Probes
  <2>2. Probes(FALSE) \notin {<<"mount", "tools">>, <<"tools">>} BY DEF Probes
  <2>3. command'[c].mount \in BOOLEAN BY CommandStep
  <2>4. CASE command'[c].at = "false" BY <2>4
  <2>5. CASE command'[c].at # "false"
    <3>1. command[c].op = "validate" => command'[c].todo = Probes(command'[c].mount)
      BY <1>20, <2>5, ProbesAhead
    <3>2. command[c].op = "validate" => command'[c].todo \notin {<<"mount", "tools">>, <<"tools">>}
      BY <2>1, <2>2, <2>3, <3>1, Zenon
    <3> QED BY <1>20, <3>2, ProbesAhead
  <2> QED BY <2>4, <2>5
<1>21. CASE Probe(c)
  <2> DEFINE todo == command[c].todo
  <2>1. PICK ok \in {command[c].ok /\ Holds(Head(todo)), FALSE} :
           /\ command'[c].op = command[c].op /\ command'[c].mount = command[c].mount
           /\ command'[c].todo = Tail(todo) /\ command'[c].ok = ok
           /\ command'[c].at = IF Tail(todo) # <<>> THEN "probe"
                               ELSE IF ok THEN "true" ELSE "false"
    BY <1>21, ProbeMoves
  <2>2. SUFFICES ASSUME command[c].op = "validate", ok, Tail(todo) # <<>> PROVE Probed(c)'
    BY <2>1
  <2>3. container' = container BY <1>21 DEF Probe
  <2>4. command[c].ok /\ Holds(Head(todo)) BY <2>1, <2>2
  <2>5. todo \in Todos("validate", command[c].mount) BY <1>21, <2>2 DEF Probe
  <2>6. CASE todo = Probes(command[c].mount)
    <3>1. Head(todo) = "shell" BY <2>6 DEF Probes
    <3>2. container # None /\ container.image # "half" BY <2>4, <3>1 DEF Holds
    <3>3. ~command[c].mount \/ Tail(todo) # <<"tools">> BY <2>6 DEF Probes
    <3> QED BY <2>1, <2>3, <3>2, <3>3
  <2>7. CASE todo = <<"mount", "tools">>
    <3>1. Head(todo) = "mount" BY <2>7
    <3>2. container.mount BY <2>4, <3>1 DEF Holds
    <3>3. container # None /\ container.image # "half" BY <1>21, <2>2, <2>4, <2>7 DEF Probe
    <3> QED BY <2>1, <2>3, <3>2, <3>3
  <2>8. CASE todo = <<"tools">> BY <2>2, <2>8
  <2> QED BY <2>5, <2>6, <2>7, <2>8 DEF Todos
<1>22. CASE See(c) BY <1>22 DEF See
<1>23. CASE SeeKey(c) BY <1>23 DEF SeeKey, Sees
<1>24. CASE SeeStore(c) BY <1>24 DEF SeeStore, Sees
<1>25. CASE Judge(c) BY <1>25 DEF Judge
<1>26. CASE CleanKeys(c) BY <1>26 DEF CleanKeys, Executes
<1>27. CASE CleanStore(c) BY <1>27 DEF CleanStore, Executes
<1>28. CASE Generate(c) BY <1>28 DEF Generate, Executes
<1>29. CASE PassInit(c) BY <1>29 DEF PassInit, Executes
<1>30. CASE After(c) BY <1>30 DEF After
<1>31. CASE Interrupt(c) BY <1>31 DEF Interrupt
<1> QED BY <1>3, <1>4, <1>5, <1>6, <1>7, <1>8, <1>9, <1>10, <1>11, <1>12, <1>13, <1>14, <1>15,
             <1>16, <1>17, <1>18, <1>19, <1>20, <1>21, <1>22, <1>23, <1>24, <1>25, <1>26, <1>27,
             <1>28, <1>29, <1>30, <1>31 DEF Step

\* and that there is no store to lose.
LEMMA SearchedStep ==
  ASSUME IInv, NEW c \in Cmds, Step(c), ~(\E op \in Ops : Start(c, op)), calm'[c]
  PROVE  Searched(c)'
<1>1. CommandType /\ HostType /\ Route(c) /\ Learnt(c) BY TypeParts DEF IInv, CommandInv
<1>2. calm[c] /\ ~Breaks(c) /\ Searched(c) BY <1>1, OwnFrame DEF IInv, Learnt
<1> USE <1>1, <1>2 DEF CommandType, Commands, Searched, Route, Goes, docker, secrets, host, Ready
<1>3. CASE StageRm(c) BY <1>3 DEF StageRm
<1>4. CASE StageCopy(c) BY <1>4 DEF StageCopy
<1>5. CASE BuildFails(c) BY <1>5 DEF BuildFails
<1>6. CASE Built(c) BY <1>6 DEF Built
<1>7. CASE Pull(c) BY <1>7 DEF Pull
<1>8. CASE Tag(c) BY <1>8 DEF Tag
<1>9. CASE Image(c) BY <1>9 DEF Image
<1>10. CASE Inspect(c) BY <1>10 DEF Inspect
<1>11. CASE Rm(c) BY <1>11 DEF Rm, Remove
<1>12. CASE Run(c) BY <1>12 DEF Run
<1>13. CASE Exists(c) BY <1>13 DEF Exists
<1>14. CASE Attach(c) BY <1>14 DEF Attach
<1>15. CASE Leave(c) BY <1>15 DEF Leave
<1>16. CASE DownInspect(c) BY <1>16 DEF DownInspect, AfterDown
<1>17. CASE DownRm(c) BY <1>17 DEF DownRm, Remove, AfterDown
<1>18. CASE ResetImage(c) BY <1>18 DEF ResetImage, Result
<1>19. CASE ImageRm(c) BY <1>19 DEF ImageRm, Result
<1>20. CASE ValidateInspect(c)
  <2>1. command'[c].at \in {"false", "probe"} BY <1>20, ProbesAhead
  <2> QED BY <2>1, <1>20 DEF ValidateInspect, Searched
<1>21. CASE Probe(c) BY <1>21 DEF Probe, SoFar
<1>22. CASE See(c) BY <1>22 DEF See
<1>23. CASE SeeKey(c) BY <1>23 DEF SeeKey, Sees
<1>24. CASE SeeStore(c) BY <1>24 DEF SeeStore, Sees
<1>25. CASE Judge(c) BY <1>25 DEF Judge
<1>26. CASE CleanKeys(c) BY <1>26 DEF CleanKeys, Executes
<1>27. CASE CleanStore(c) BY <1>27 DEF CleanStore, Executes
<1>28. CASE Generate(c) BY <1>28 DEF Generate, Executes
<1>29. CASE PassInit(c) BY <1>29 DEF PassInit, Executes
<1>30. CASE After(c) BY <1>30 DEF After
<1>31. CASE Interrupt(c) BY <1>31 DEF Interrupt
<1> QED BY <1>3, <1>4, <1>5, <1>6, <1>7, <1>8, <1>9, <1>10, <1>11, <1>12, <1>13, <1>14, <1>15,
             <1>16, <1>17, <1>18, <1>19, <1>20, <1>21, <1>22, <1>23, <1>24, <1>25, <1>26, <1>27,
             <1>28, <1>29, <1>30, <1>31 DEF Step

\* A command that starts has nothing to know yet.
LEMMA StartStep ==
  ASSUME IInv, NEW c \in Cmds, NEW op \in Ops, Start(c, op)
  PROVE  Learnt(c)'
<1>1. PICK from \in Sources \cup {"github", "staged"}, force \in BOOLEAN :
         /\ command' = [command EXCEPT ![c] = [Fresh(op, from, force) EXCEPT !.at = First(op, from)]]
         /\ op # "build" => from = "github"
  BY DEF Start
<1>2. /\ command'[c].at = First(op, from) /\ command'[c].op = op
      /\ command'[c].from = from
  BY <1>1, TypeParts DEF IInv, CommandType, Fresh
<1>3. /\ First(op, from) \notin {"probe", "judge", "generate", "pass_init"}
      /\ First(op, from) \in Shelling => op = "exec"
  BY DEF First, Shelling, Ops, Ups, Reports
<1>4. (First(op, from) = "build" /\ op = "build") => from \notin Sources
  BY DEF First
<1> QED BY <1>2, <1>3, <1>4 DEF Learnt, Staged, Entered, Probed, Searched, Shelling

\* What a calm command has learnt is still so after a step of it.
LEMMA LearntStep ==
  ASSUME IInv, NEW c \in Cmds, Step(c)
  PROVE  Learnt(c)'
<1>1. CASE \E op \in Ops : Start(c, op) BY <1>1, StartStep
<1>2. CASE ~(\E op \in Ops : Start(c, op))
  BY <1>2, StagedStep, EnteredStep, ProbedStep, SearchedStep DEF Learnt
<1> QED BY <1>1, <1>2

\* A container that stops takes nothing of what was learnt.
LEMMA StopsStep ==
  ASSUME IInv, Stops, NEW c \in Cmds
  PROVE  CommandInv(c)'
<1>1. CommandInv(c) /\ HostType BY TypeParts DEF IInv
<1>2. /\ container \in Containers /\ container' \in Containers
      /\ container'.by = container.by /\ container'.image = container.image
      /\ container'.mount = container.mount /\ ~container'.up
  BY <1>1 DEF Stops, HostType, Containers
<1>3. container # None /\ container' # None BY <1>2, NoneIsNone
<1>4. UNCHANGED <<command, calm, stage, image>> BY DEF Stops, history, host
<1>5. Route(c)' /\ Alone(c)' BY <1>1, <1>4 DEF CommandInv, Route, Alone, Working
<1>6. Learnt(c)'
  BY <1>1, <1>2, <1>3, <1>4 DEF CommandInv, Learnt, Staged, Entered, Probed, Searched, Ready
<1> QED BY <1>5, <1>6 DEF CommandInv

\* The invariant is inductive.
LEMMA NextInv == IInv /\ [Next]_vars => IInv'
<1> SUFFICES ASSUME IInv, [Next]_vars PROVE IInv'
  OBVIOUS
<1>1. TypeOK' BY TypeStep
<1>2. ASSUME NEW d \in Cmds PROVE CommandInv(d)'
  <2>1. CommandInv(d) BY DEF IInv
  <2>2. ASSUME NEW c \in Cmds, Step(c) PROVE CommandInv(d)'
    BY <2>2, OtherStep, RouteStep, AloneStep, LearntStep DEF CommandInv
  <2>3. CASE Stops BY <2>3, StopsStep
  <2>4. CASE UNCHANGED vars
    BY <2>1, <2>4 DEF vars, CommandInv, Route, Alone, Learnt, Staged, Entered, Probed, Searched,
                      Ready, Working
  <2> QED BY <2>2, <2>3, <2>4 DEF Next
<1> QED BY <1>1, <1>2 DEF IInv

-----------------------------------------------------------------------------
\* While a calm command is at work, a step of a command is its own, past its
\* start, and no failure.
LEMMA CalmStep ==
  ASSUME IInv, NEW c \in Cmds, Working(c), calm'[c], NEW d \in Cmds, Step(d)
  PROVE  d = c /\ calm[c] /\ ~Breaks(c) /\ ~(\E op \in Ops : Start(c, op))
<1>1. TypeOK /\ Alone(c) BY DEF IInv, CommandInv
<1>2. d = c
  <2> SUFFICES ASSUME d # c PROVE FALSE
    OBVIOUS
  <2>1. calm[c] /\ Working(d) BY <1>1, StepFrame
  <2> QED BY <1>1, <2>1 DEF Alone
<1>3. ~(\E op \in Ops : Start(c, op)) BY DEF Start
<1>4. calm[c] /\ ~Breaks(c) BY <1>1, <1>2, <1>3, OwnFrame
<1> QED BY <1>2, <1>3, <1>4

\* A calm command moves by a step of its own, which is neither its start nor a
\* failure, and it knows what it has learnt.
LEMMA CalmMove ==
  ASSUME IInv, [Next]_vars, NEW c \in Cmds, Working(c), calm'[c], command'[c] # command[c]
  PROVE  /\ Step(c) /\ calm[c] /\ ~Breaks(c) /\ ~(\E op \in Ops : Start(c, op))
         /\ CommandType /\ Route(c) /\ Staged(c) /\ Entered(c) /\ Probed(c) /\ Searched(c)
<1>1. PICK d \in Cmds : Step(d) BY DEF Next, Stops, vars
<1>2. d = c /\ calm[c] /\ ~Breaks(c) /\ ~(\E op \in Ops : Start(c, op)) BY <1>1, CalmStep
<1> QED BY <1>1, <1>2, TypeParts DEF IInv, CommandInv, Learnt

\* Where a command that is not just starting goes, by its operation.
LEMMA EndsFrom ==
  ASSUME CommandType, NEW c \in Cmds, Route(c), Step(c), ~(\E op \in Ops : Start(c, op))
  PROVE  /\ (command[c].op = "build" /\ command'[c].at = "true") => Built(c)
         /\ (command[c].op = "validate" /\ command'[c].at = "true") => Probe(c)
         /\ command'[c].at = "session" => Attach(c)
<1> USE DEF CommandType, Commands, Goes, Route, Ups, Reports, Shelling, Initialising
<1>1. CASE StageRm(c) BY <1>1 DEF StageRm
<1>2. CASE StageCopy(c) BY <1>2 DEF StageCopy
<1>3. CASE BuildFails(c) BY <1>3 DEF BuildFails
<1>4. CASE Built(c) BY <1>4 DEF Built
<1>5. CASE Pull(c) BY <1>5 DEF Pull
<1>6. CASE Tag(c) BY <1>6 DEF Tag
<1>7. CASE Image(c) BY <1>7 DEF Image
<1>8. CASE Inspect(c) BY <1>8 DEF Inspect
<1>9. CASE Rm(c) BY <1>9 DEF Rm, Remove
<1>10. CASE Run(c) BY <1>10 DEF Run
<1>11. CASE Exists(c) BY <1>11 DEF Exists
<1>12. CASE Attach(c) BY <1>12 DEF Attach
<1>13. CASE Leave(c) BY <1>13 DEF Leave
<1>14. CASE DownInspect(c) BY <1>14 DEF DownInspect, AfterDown
<1>15. CASE DownRm(c) BY <1>15 DEF DownRm, Remove, AfterDown
<1>16. CASE ResetImage(c) BY <1>16 DEF ResetImage, Result
<1>17. CASE ImageRm(c) BY <1>17 DEF ImageRm, Result
<1>18. CASE ValidateInspect(c) BY <1>18, ProbesAhead DEF ValidateInspect
<1>19. CASE Probe(c) BY <1>19, ProbeMoves DEF Probe
<1>20. CASE See(c) BY <1>20 DEF See
<1>21. CASE SeeKey(c) BY <1>21 DEF SeeKey, Sees
<1>22. CASE SeeStore(c) BY <1>22 DEF SeeStore, Sees
<1>23. CASE Judge(c) BY <1>23 DEF Judge
<1>24. CASE CleanKeys(c) BY <1>24 DEF CleanKeys, Executes
<1>25. CASE CleanStore(c) BY <1>25 DEF CleanStore, Executes
<1>26. CASE Generate(c) BY <1>26 DEF Generate, Executes
<1>27. CASE PassInit(c) BY <1>27 DEF PassInit, Executes
<1>28. CASE After(c) BY <1>28 DEF After
<1>29. CASE Interrupt(c) BY <1>29 DEF Interrupt
<1> QED BY <1>1, <1>2, <1>3, <1>4, <1>5, <1>6, <1>7, <1>8, <1>9, <1>10, <1>11, <1>12, <1>13,
             <1>14, <1>15, <1>16, <1>17, <1>18, <1>19, <1>20, <1>21, <1>22, <1>23, <1>24, <1>25,
             <1>26, <1>27, <1>28, <1>29 DEF Step

\* Only an init-test works on the secrets; it cleans them only when forced.
LEMMA SecretsFrom ==
  ASSUME CommandType, NEW c \in Cmds, Step(c), ~(\E op \in Ops : Start(c, op))
  PROVE  UNCHANGED secrets \/ CleanKeys(c) \/ CleanStore(c) \/ Generate(c) \/ PassInit(c)
<1> USE DEF secrets
<1>1. CASE StageRm(c) BY <1>1 DEF StageRm
<1>2. CASE StageCopy(c) BY <1>2 DEF StageCopy
<1>3. CASE BuildFails(c) BY <1>3 DEF BuildFails
<1>4. CASE Built(c) BY <1>4 DEF Built
<1>5. CASE Pull(c) BY <1>5 DEF Pull
<1>6. CASE Tag(c) BY <1>6 DEF Tag
<1>7. CASE Image(c) BY <1>7 DEF Image
<1>8. CASE Inspect(c) BY <1>8 DEF Inspect
<1>9. CASE Rm(c) BY <1>9 DEF Rm, Remove
<1>10. CASE Run(c) BY <1>10 DEF Run
<1>11. CASE Exists(c) BY <1>11 DEF Exists
<1>12. CASE Attach(c) BY <1>12 DEF Attach
<1>13. CASE Leave(c) BY <1>13 DEF Leave
<1>14. CASE DownInspect(c) BY <1>14 DEF DownInspect, AfterDown
<1>15. CASE DownRm(c) BY <1>15 DEF DownRm, Remove, AfterDown
<1>16. CASE ResetImage(c) BY <1>16 DEF ResetImage, Result
<1>17. CASE ImageRm(c) BY <1>17 DEF ImageRm, Result
<1>18. CASE ValidateInspect(c) BY <1>18 DEF ValidateInspect
<1>19. CASE Probe(c) BY <1>19 DEF Probe, SoFar
<1>20. CASE See(c) BY <1>20 DEF See
<1>21. CASE SeeKey(c) BY <1>21 DEF SeeKey, Sees
<1>22. CASE SeeStore(c) BY <1>22 DEF SeeStore, Sees
<1>23. CASE Judge(c) BY <1>23 DEF Judge
<1>24. CASE After(c) BY <1>24 DEF After
<1>25. CASE Interrupt(c) BY <1>25 DEF Interrupt
<1> QED BY <1>1, <1>2, <1>3, <1>4, <1>5, <1>6, <1>7, <1>8, <1>9, <1>10, <1>11, <1>12, <1>13,
             <1>14, <1>15, <1>16, <1>17, <1>18, <1>19, <1>20, <1>21, <1>22, <1>23, <1>24, <1>25
             DEF Step

-----------------------------------------------------------------------------
\* The type invariant holds.
THEOREM TypeCorrect == Spec => []TypeOK
<1>1. IInv => TypeOK BY DEF IInv
<1> QED BY <1>1, InitInv, NextInv, PTL DEF Spec

\* The operator's key and store go only by an init-test that was forced, or that
\* was not alone or could not look (_init_test_workspace_secrets).
THEOREM OwnSecretsAreKept == Spec => OwnSecretsKept
<1>1. ASSUME IInv, [Next]_vars,
             "own" \in keys \ keys' \/ (store = "own" /\ store' # "own")
      PROVE  \E c \in Cmds : /\ Working(c) /\ command[c].op = "init"
                             /\ command[c].force \/ ~calm'[c]
  <2>1. PICK c \in Cmds : Step(c) BY <1>1 DEF Next, Stops, secrets, vars
  <2>2. ~(\E op \in Ops : Start(c, op)) BY <1>1 DEF Start, secrets
  <2>3. CommandType /\ HostType /\ CommandInv(c) BY <1>1, TypeParts DEF IInv
  <2>4. Working(c) BY <1>1, <2>1, <2>2, OwnFrame DEF IInv
  <2>5. UNCHANGED secrets \/ CleanKeys(c) \/ CleanStore(c) \/ Generate(c) \/ PassInit(c)
    BY <2>1, <2>2, <2>3, SecretsFrom
  <2>6. CASE CleanKeys(c) \/ CleanStore(c)
    <3>1. command[c].op = "init" /\ command[c].force
      BY <2>3, <2>6 DEF CommandInv, Route, Initialising, CleanKeys, CleanStore
    <3> QED BY <2>4, <3>1
  <2>7. CASE Generate(c) BY <1>1, <2>7 DEF Generate, Executes, secrets
  <2>8. CASE PassInit(c)
    <3>1. command[c].op = "init" BY <2>3, <2>8 DEF CommandInv, Route, Initialising, PassInit
    <3>2. ASSUME calm'[c], ~command[c].force PROVE FALSE
      <4>1. calm[c] /\ ~Breaks(c) BY <1>1, <2>1, <2>2, <3>2, OwnFrame DEF IInv
      <4>2. store = "own" BY <1>1, <2>8, <4>1 DEF PassInit, Executes, secrets
      <4>3. Ready(c) /\ command[c].at = "pass_init"
        BY <1>1, <2>8, <4>1 DEF PassInit, Executes, secrets
      <4>4. store = None BY <2>3, <3>2, <4>1, <4>3 DEF CommandInv, Learnt, Searched
      <4> QED BY <4>2, <4>4, WorkspaceAssumption
    <3> QED BY <2>4, <3>1, <3>2
  <2> QED BY <1>1, <2>5, <2>6, <2>7, <2>8 DEF secrets
<1> QED BY <1>1, InitInv, NextInv, PTL DEF Spec, OwnSecretsKept

\* The image of a build that succeeds is of its checkout (_stage_local_shell_config).
THEOREM BuiltFromCheckout == Spec => BuiltFromItsCheckout
<1>1. ASSUME IInv, [Next]_vars, NEW c \in Cmds,
             Ends(c), calm'[c], command[c].op = "build", command[c].from \in Sources
      PROVE  image' = command[c].from
  <2>1. Working(c) /\ command'[c] # command[c] BY <1>1 DEF Ends, Working, Ended
  <2>2. Built(c) BY <1>1, <2>1, CalmMove, EndsFrom DEF Ends
  <2>3. stage = command[c].from BY <1>1, <2>1, <2>2, CalmMove DEF Staged, Built
  <2>4. command[c].from # "github" BY <1>1, WorkspaceAssumption
  <2> QED BY <2>2, <2>3, <2>4 DEF Built, Context
<1>2. IInv /\ [Next]_vars =>
        [\A c \in Cmds :
          (Ends(c) /\ calm'[c] /\ command[c].op = "build" /\ command[c].from \in Sources)
              => image' = command[c].from]_vars
  BY <1>1
<1> QED BY <1>2, InitInv, NextInv, PTL DEF Spec, BuiltFromItsCheckout

\* The shell of an enter is in the container that it created (_enter_workspace_profile).
THEOREM EnterFresh == Spec => EnterIsFresh
<1>1. ASSUME IInv, [Next]_vars, NEW c \in Cmds,
             Working(c), calm'[c], command[c].op = "enter", command'[c].at = "session"
      PROVE  container.by = c /\ command[c].ran /\ container.image = image
  <2>1. CASE command'[c] # command[c]
    <3>1. Attach(c) /\ Entered(c) BY <1>1, <2>1, CalmMove, EndsFrom
    <3> QED BY <1>1, <3>1 DEF Attach, Entered, Shelling
  <2>2. CASE command'[c] = command[c]
    <3>1. calm[c]
      <4>1. ASSUME NEW d \in Cmds, Step(d) PROVE calm[c]
        BY <1>1, <4>1, CalmStep
      <4> QED BY <1>1, <4>1 DEF Next, Stops, history, vars
    <3>2. Entered(c) BY <1>1, <3>1 DEF IInv, CommandInv, Learnt
    <3> QED BY <1>1, <2>2, <3>2 DEF Entered, Shelling
  <2> QED BY <2>1, <2>2
<1>2. IInv /\ [Next]_vars =>
        [\A c \in Cmds :
          (Working(c) /\ calm'[c] /\ command[c].op = "enter" /\ command'[c].at = "session")
              => container.by = c /\ command[c].ran /\ container.image = image]_vars
  BY <1>1
<1> QED BY <1>2, InitInv, NextInv, PTL DEF Spec, EnterIsFresh

\* A validate that passes saw one whole container (_validate_workspace_profile).
THEOREM ValidatedWhole == Spec => ValidatedIsWhole
<1>1. ASSUME IInv, [Next]_vars, NEW c \in Cmds,
             Ends(c), calm'[c], command[c].op = "validate"
      PROVE  /\ container # None /\ container.up /\ container.image # "half"
             /\ command[c].mount => container.mount
  <2>1. Working(c) /\ command'[c] # command[c] BY <1>1 DEF Ends, Working, Ended
  <2>2. CommandType /\ Route(c) /\ Probed(c) BY <1>1, <2>1, CalmMove
  <2>3. Probe(c) BY <1>1, <2>1, <2>2, CalmMove, EndsFrom DEF Ends
  <2>4. Tail(command[c].todo) = <<>> /\ command[c].ok /\ Holds(Head(command[c].todo))
    BY <1>1, <2>2, <2>3, ProbeMoves DEF Ends
  <2>5. command[c].todo \in Todos("validate", command[c].mount) /\ command[c].at = "probe"
    BY <1>1, <2>2, <2>3 DEF Route, Probe
  <2>6. Tail(Probes(TRUE)) # <<>> /\ Tail(Probes(FALSE)) # <<>> /\ Tail(<<"mount", "tools">>) # <<>>
    BY DEF Probes
  <2>7. command[c].mount \in BOOLEAN BY <2>2 DEF CommandType, Commands
  <2>8. command[c].todo = <<"tools">>
    BY <2>4, <2>5, <2>6, <2>7 DEF Todos
  <2> QED BY <1>1, <2>2, <2>4, <2>5, <2>8 DEF Probed, Holds
<1>2. IInv /\ [Next]_vars =>
        [\A c \in Cmds :
          (Ends(c) /\ calm'[c] /\ command[c].op = "validate")
              => /\ container # None /\ container.up /\ container.image # "half"
                 /\ command[c].mount => container.mount]_vars
  BY <1>1
<1> QED BY <1>2, InitInv, NextInv, PTL DEF Spec, ValidatedIsWhole
=============================================================================
