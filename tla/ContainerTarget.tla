-------------------------- MODULE ContainerTarget ---------------------------
(***************************************************************************)
(* One disposable container target: its tagged image, its one managed      *)
(* container, and the commands that work on them (ft/src/ft/cli.py): `ft   *)
(* container` build, up, down, reset, refresh, exec, shell and enter, and  *)
(* the `ft host` commands, which make sure that the container runs.  Each  *)
(* is a sequence of `docker` calls, and each decides by exit codes alone.  *)
(*                                                                         *)
(* The Docker daemon is external: a call is one step, and it may fail      *)
(* whatever it was asked.                                                  *)
(***************************************************************************)
EXTENDS Integers

CONSTANTS
    Cmds,        \* the ft commands at work
    None,        \* no container
    MaxBuilds,   \* bound: image builds
    MaxRuns,     \* bound: containers created
    MaxFaults    \* bound: docker calls that fail for a reason of their own

ASSUME TargetAssumption ==
    /\ MaxBuilds \in Nat /\ MaxRuns \in Nat /\ MaxFaults \in Nat
    /\ None \notin [id : 1..MaxRuns, image : 1..MaxBuilds, running : BOOLEAN]

VARIABLES
    image,       \* the build the image tag names, 0 when there is none
    builds,      \* how many images were built
    container,   \* the managed container, or None
    runs,        \* how many containers were created
    command,     \* command[c]: where it is, what it does, the image it built
    faults,      \* how many calls failed for a reason of their own
    calm         \* calm[c]: c works alone, and none of its calls was such a failure

vars == <<image, builds, container, runs, command, faults, calm>>
docker == <<image, builds, container, runs>>
history == <<faults, calm>>

Containers == [id : 1..MaxRuns, image : 1..MaxBuilds, running : BOOLEAN]

\* `ft container enter` and the `ft host` commands; only the former opens a shell.
Ensures == {"enter", "host"}
Ops == {"build", "up", "down", "reset", "refresh", "exec"} \cup Ensures

Ended == {"idle", "true", "false", "raised"}
Places == Ended \cup
    {"build", "state", "start", "image", "inspect", "rm", "run", "exists", "attach",
     "session", "down_inspect", "down_rm", "reset_image", "image_rm"}

Working(c) == command[c].at \notin Ended

Goes(c, place) == command' = [command EXCEPT ![c].at = place]

-----------------------------------------------------------------------------
Init ==
    /\ image = 0 /\ builds = 0
    /\ container = None /\ runs = 0
    /\ command = [c \in Cmds |-> [at |-> "idle", op |-> "exec", built |-> 0, removed |-> TRUE]]
    /\ faults = 0
    /\ calm = [c \in Cmds |-> TRUE]

Start(c, op) ==
    /\ ~Working(c)
    /\ command' = [command EXCEPT ![c] =
          [at |-> CASE op \in {"build", "refresh"} -> "build"
                    [] op = "up"                   -> "image"
                    [] op \in Ensures              -> "state"
                    [] op = "exec"                 -> "exists"
                    [] op \in {"down", "reset"}    -> "down_inspect",
           op |-> op, built |-> 0, removed |-> TRUE]]
    /\ calm' = [d \in Cmds |->
          IF d = c THEN \A e \in Cmds : ~Working(e) ELSE calm[d] /\ ~Working(d)]
    /\ UNCHANGED <<docker, faults>>

\* A docker call gives its answer, or fails.
Answers(c) == UNCHANGED history
Breaks(c) ==
    /\ faults < MaxFaults
    /\ faults' = faults + 1
    /\ calm' = [calm EXCEPT ![c] = FALSE]

\* Faulty: a refresh goes on with the image of before.
RefreshAnyway(c) ==
    /\ command[c].at = "build"
    /\ command' = [command EXCEPT ![c].at = IF command[c].op = "refresh" THEN "image" ELSE "false",
                                  ![c].built = builds + 1]
    /\ UNCHANGED <<docker, history>>

-----------------------------------------------------------------------------
\* _build_single_container_target: an unsupported architecture, a missing
\* Dockerfile and a failing build all end it.
BuildFails(c) ==
    /\ command[c].at = "build"
    /\ Goes(c, "false")
    /\ UNCHANGED <<docker, history>>

\* Faulty: the tag goes on an image that no build made.
BuiltUncounted(c) ==
    /\ command[c].at = "build"
    /\ image' = builds + 1
    /\ command' = [command EXCEPT ![c].at = IF command[c].op = "refresh" THEN "image" ELSE "true",
                                  ![c].built = builds + 1]
    /\ UNCHANGED <<builds, container, runs, history>>

Built(c) ==
    /\ command[c].at = "build"
    /\ builds < MaxBuilds
    /\ builds' = builds + 1
    /\ image' = builds + 1
    /\ command' = [command EXCEPT ![c].at = IF command[c].op = "refresh" THEN "image" ELSE "true",
                                  ![c].built = builds + 1]
    /\ UNCHANGED <<container, runs, history>>

\* Faulty: a container that does not run is replaced.
StateReplacingStopped(c) ==
    /\ command[c].at = "state"
    /\ \/ Breaks(c) /\ Goes(c, "image")
       \/ /\ Answers(c)
          /\ Goes(c, IF container = None \/ ~container.running THEN "image"
                     ELSE IF command[c].op = "enter" THEN "exists" ELSE "true")
    /\ UNCHANGED docker

\* _ensure_container_target_running: any failure of inspect counts as missing.
State(c) ==
    /\ command[c].at = "state"
    /\ \/ Breaks(c) /\ Goes(c, "image")
       \/ /\ Answers(c)
          /\ Goes(c, IF container = None THEN "image"
                     ELSE IF ~container.running THEN "start"
                     ELSE IF command[c].op = "enter" THEN "exists" ELSE "true")
    /\ UNCHANGED docker

StartStopped(c) ==
    /\ command[c].at = "start"
    /\ IF container = None
       THEN Answers(c) /\ Goes(c, "false") /\ UNCHANGED container
       ELSE \/ Breaks(c) /\ Goes(c, "false") /\ UNCHANGED container
            \/ /\ Answers(c)
               /\ container' = [container EXCEPT !.running = TRUE]
               /\ Goes(c, IF command[c].op = "enter" THEN "exists" ELSE "true")
    /\ UNCHANGED <<image, builds, runs>>

\* Faulty: the image is left for docker run to look for.
ImageLater(c) ==
    /\ command[c].at = "image"
    /\ Answers(c) /\ Goes(c, "inspect")
    /\ UNCHANGED docker

\* _up_single_container_target.  Without an image it calls for a build, and the
\* call lacks its arguments: the command ends in a TypeError.
Image(c) ==
    /\ command[c].at = "image"
    /\ \/ Breaks(c) /\ Goes(c, "raised")
       \/ Answers(c) /\ Goes(c, IF image = 0 THEN "raised" ELSE "inspect")
    /\ UNCHANGED docker

Inspect(c) ==
    /\ command[c].at = "inspect"
    /\ \/ Breaks(c) /\ Goes(c, "run")
       \/ Answers(c) /\ Goes(c, IF container = None THEN "run" ELSE "rm")
    /\ UNCHANGED docker

\* docker rm -f; a container that is gone by now may count as removed or not.
Remove(c, removed, kept) ==
    /\ \/ Breaks(c) /\ kept /\ UNCHANGED container
       \/ Answers(c) /\ removed /\ container' = None
       \/ Answers(c) /\ container = None /\ kept /\ UNCHANGED container
    /\ UNCHANGED <<image, builds, runs>>

Rm(c) ==
    /\ command[c].at = "rm"
    /\ Remove(c, Goes(c, "run"), Goes(c, "false"))

\* docker run creates the container and starts it; when it cannot start it, for
\* its port is taken, the container stays behind.
Run(c) ==
    /\ command[c].at = "run"
    /\ IF image = 0 \/ container # None
       THEN Answers(c) /\ Goes(c, "false") /\ UNCHANGED <<container, runs>>
       ELSE \/ Breaks(c) /\ Goes(c, "false") /\ UNCHANGED <<container, runs>>
            \/ /\ runs < MaxRuns
               /\ runs' = runs + 1
               /\ \E running \in BOOLEAN :
                     /\ container' = [id |-> runs + 1, image |-> image, running |-> running]
                     /\ IF ~running THEN Breaks(c) /\ Goes(c, "false")
                        ELSE Answers(c) /\ Goes(c, IF command[c].op = "enter" THEN "exists" ELSE "true")
    /\ UNCHANGED <<image, builds>>

\* _exec_single_container_target, for exec, shell and the shell of enter.
Exists(c) ==
    /\ command[c].at = "exists"
    /\ \/ Breaks(c) /\ Goes(c, "false")
       \/ Answers(c) /\ Goes(c, IF container = None THEN "false" ELSE "attach")
    /\ UNCHANGED docker

Attach(c) ==
    /\ command[c].at = "attach"
    /\ IF container # None /\ container.running
       THEN (Breaks(c) /\ Goes(c, "false")) \/ (Answers(c) /\ Goes(c, "session"))
       ELSE Answers(c) /\ Goes(c, "false")
    /\ UNCHANGED docker

\* The operator leaves the shell, or the container goes away under it.
Leave(c) ==
    /\ command[c].at = "session"
    /\ Goes(c, "true")
    /\ UNCHANGED <<docker, history>>

\* _down_single_container_target; a reset goes on to the image whatever came of it.
AfterDown(c, success) ==
    command' = [command EXCEPT
        ![c].at = IF command[c].op = "reset" THEN "reset_image" ELSE IF success THEN "true" ELSE "false",
        ![c].removed = success]

\* Faulty: only a container that runs is removed.
DownInspectRunning(c) ==
    /\ command[c].at = "down_inspect"
    /\ \/ Breaks(c) /\ AfterDown(c, TRUE)
       \/ /\ Answers(c)
          /\ IF container = None \/ ~container.running THEN AfterDown(c, TRUE) ELSE Goes(c, "down_rm")
    /\ UNCHANGED docker

DownInspect(c) ==
    /\ command[c].at = "down_inspect"
    /\ \/ Breaks(c) /\ AfterDown(c, TRUE)
       \/ Answers(c) /\ IF container = None THEN AfterDown(c, TRUE) ELSE Goes(c, "down_rm")
    /\ UNCHANGED docker

DownRm(c) ==
    /\ command[c].at = "down_rm"
    /\ Remove(c, AfterDown(c, TRUE), AfterDown(c, FALSE))

\* _reset_single_container_target: the success of the first half is the result
\* of the whole, once the image is gone.
ResetImage(c) ==
    /\ command[c].at = "reset_image"
    /\ LET absent == Goes(c, IF command[c].removed THEN "true" ELSE "false")
       IN  \/ Breaks(c) /\ absent
           \/ Answers(c) /\ IF image = 0 THEN absent ELSE Goes(c, "image_rm")
    /\ UNCHANGED docker

\* docker image rm -f refuses the image of a container that runs.
ImageRm(c) ==
    /\ command[c].at = "image_rm"
    /\ \/ Breaks(c) /\ Goes(c, "false") /\ UNCHANGED image
       \/ /\ Answers(c)
          /\ IF image = 0 \/ (container # None /\ container.running /\ container.image = image)
             THEN Goes(c, "false") /\ UNCHANGED image
             ELSE image' = 0 /\ Goes(c, IF command[c].removed THEN "true" ELSE "false")
    /\ UNCHANGED <<builds, container, runs>>

\* Ctrl-C between two docker calls.
Interrupt(c) ==
    /\ Working(c)
    /\ Goes(c, "idle")
    /\ UNCHANGED <<docker, history>>

\* The container's process ends, or the machine is restarted.
Stops ==
    /\ container # None /\ container.running
    /\ container' = [container EXCEPT !.running = FALSE]
    /\ UNCHANGED <<image, builds, runs, command, history>>

Step(c) ==
    \/ \E op \in Ops : Start(c, op)
    \/ BuildFails(c) \/ Built(c)
    \/ State(c) \/ StartStopped(c)
    \/ Image(c) \/ Inspect(c) \/ Rm(c) \/ Run(c)
    \/ Exists(c) \/ Attach(c) \/ Leave(c)
    \/ DownInspect(c) \/ DownRm(c) \/ ResetImage(c) \/ ImageRm(c)
    \/ Interrupt(c)

Next == (\E c \in Cmds : Step(c)) \/ Stops

Spec == Init /\ [][Next]_vars

-----------------------------------------------------------------------------
TypeOK ==
    /\ image \in 0..builds /\ builds \in 0..MaxBuilds /\ runs \in 0..MaxRuns
    /\ container \in Containers \cup {None}
    /\ command \in [Cmds -> [at : Places, op : Ops, built : 0..MaxBuilds, removed : BOOLEAN]]
    /\ faults \in 0..MaxFaults
    /\ calm \in [Cmds -> BOOLEAN]
    \* containers are told apart by their id: the present one is the last created
    /\ container # None => container.id = runs /\ container.image <= builds

Ends(c, result) == Working(c) /\ command'[c].at = result

\* A container that exists is kept, with its state, by `enter` and by the `ft
\* host` commands, one at a time and when docker answers them
\* (_ensure_container_target_running, docs/target-validation.md).
EnsureKeepsContainer ==
    [][\A c \in Cmds :
          (Working(c) /\ calm'[c] /\ command[c].op \in Ensures /\ container # None)
              => (container' # None /\ container'.id = container.id)]_vars

\* A refresh that reports success has the container run the image it built, or
\* a later one, whoever else is at work (_refresh_single_container_target).
RefreshRunsItsBuild ==
    [][\A c \in Cmds : (Ends(c, "true") /\ command[c].op = "refresh")
          => (container' # None /\ container'.image >= command[c].built)]_vars

\* A container goes only when its successor can be created: no command but down
\* and reset, at work alone, removes it while there is no image to run
\* (_up_single_container_target).
ReplacedByAnother ==
    [][\A c \in Cmds :
          (Working(c) /\ calm'[c] /\ command[c].op \notin {"down", "reset"}
              /\ container # None /\ container' = None) => image # 0]_vars

\* A down or reset that reports success, alone and with docker answering, has
\* removed the container, whatever state it was in, and the reset its image too
\* (_down_single_container_target, _reset_single_container_target).
DownLeavesNothing ==
    [][\A c \in Cmds : (Ends(c, "true") /\ calm'[c] /\ command[c].op \in {"down", "reset"})
          => (container' = None /\ (command[c].op = "reset" => image' = 0))]_vars
=============================================================================
