----------------------------- MODULE Workspace ------------------------------
(***************************************************************************)
(* One workspace profile (ft/src/ft/cli.py): the directory that stages a   *)
(* local shell-config checkout for builds, the tagged image, the managed   *)
(* container, and the GnuPG and pass directories on the host that every    *)
(* container of the profile mounts.  `ft workspace` build, pull, up, down, *)
(* reset, exec, enter, validate and `secrets init-test` work on them, each *)
(* as a sequence of docker calls.                                          *)
(*                                                                         *)
(* As in ContainerTarget a docker call is one step, and may fail whatever  *)
(* it was asked.                                                           *)
(***************************************************************************)
EXTENDS Integers, Sequences

CONSTANTS
    Cmds,        \* the ft commands at work
    Sources,     \* shell-config checkouts on the host
    None,
    MaxStarts,   \* bound: commands started
    MaxFaults    \* bound: docker calls that fail for a reason of their own

\* What an image is built from: a checkout, or what a cut copy left of one.
Contents == Sources \cup {"github", "published", "half"}

ASSUME WorkspaceAssumption ==
    /\ MaxStarts \in Nat /\ MaxFaults \in Nat
    /\ None \notin Contents \cup {"own", "test"}
    /\ None \notin [by : Cmds, image : Contents, up : BOOLEAN, mount : BOOLEAN]
    /\ Sources \cap {"github", "published", "half"} = {}

VARIABLES
    stage,       \* content of the staged checkout, shared by all builds
    image,       \* content of the tagged image
    container,   \* the managed container
    keys,        \* secret keys in the persisted .gnupg: the operator's, the test's
    store,       \* whose key the persisted .password-store is encrypted to
    command,
    starts, faults,
    calm         \* calm[c]: c works alone, and none of its calls failed so

vars == <<stage, image, container, keys, store, command, starts, faults, calm>>
docker == <<image, container>>
secrets == <<keys, store>>
history == <<faults, calm>>
host == <<stage, starts>>

Ups == {"up", "enter"}
Reports == {"validate", "auth"}
Ops == Ups \cup Reports \cup {"build", "pull", "down", "reset", "exec", "init"}
Ended == {"idle", "true", "false"}
Places == Ended \cup
    {"stage_rm", "stage_copy", "build", "pull", "tag", "image", "inspect", "rm", "run",
     "exists", "attach", "session", "down_inspect", "down_rm", "reset_image",
     "image_rm", "v_inspect", "probe", "see", "see_key", "see_store", "judge",
     "clean_keys", "clean_store", "generate", "pass_init", "after"}

\* What validate asks of the container, in order: for the checkout, when it
\* resolves one.
Probes(mount) ==
    IF mount THEN <<"shell", "mount", "tools">> ELSE <<"shell", "tools">>
\* `auth validate`: the browser helper, the bridge's socket, the layers' CLIs.
\* What it says of logins and secrets is for information only.
AuthProbes == <<"helper", "socket", "layers">>

\* `from`: the checkout of a build, or "staged" for the directory as it is;
\* `mount`: a validate resolved a checkout; `saw`: an init-test saw secrets;
\* `ran`: a container was created; `ok`: the result so far.
Fresh(op, from, force) ==
    [at |-> "idle", op |-> op, from |-> from, force |-> force, mount |-> FALSE,
     todo |-> <<>>, saw |-> FALSE, ok |-> TRUE, ran |-> FALSE]

\* A --shell-config-checkout option is given, or ../shell-config is there: both
\* may differ from one command to the next.
Resolves == BOOLEAN

Working(c) == command[c].at \notin Ended
Goes(c, place) == command' = [command EXCEPT ![c].at = place]
Ready(c) == container # None /\ container.up

-----------------------------------------------------------------------------
Init ==
    /\ stage \in {None, "half"} /\ image = None /\ container = None
    /\ keys \in SUBSET {"own"} /\ store \in {None, "own"}
    /\ command = [c \in Cmds |-> Fresh("exec", "github", FALSE)]
    /\ starts = 0 /\ faults = 0
    /\ calm = [c \in Cmds |-> TRUE]

First(op, from) ==
    CASE op = "build" -> IF from \in Sources THEN "stage_rm" ELSE "build"
      [] op = "pull" -> "pull"
      [] op \in Ups -> "image"
      [] op = "exec" -> "exists"
      [] op \in {"down", "reset"} -> "down_inspect"
      [] op \in Reports -> "v_inspect"
      [] op = "init" -> "see"

Start(c, op) ==
    /\ ~Working(c) /\ starts < MaxStarts
    /\ \E from \in IF op = "build" THEN Sources \cup {"github", "staged"} ELSE {"github"},
          force \in IF op = "init" THEN BOOLEAN ELSE {FALSE} :
          command' = [command EXCEPT ![c] =
             [Fresh(op, from, force) EXCEPT !.at = First(op, from)]]
    /\ calm' = [d \in Cmds |->
          IF d = c THEN \A e \in Cmds : ~Working(e) ELSE calm[d] /\ ~Working(d)]
    /\ starts' = starts + 1
    /\ UNCHANGED <<docker, secrets, stage, faults>>

Answers(c) == UNCHANGED history
Breaks(c) ==
    /\ faults < MaxFaults
    /\ faults' = faults + 1
    /\ calm' = [calm EXCEPT ![c] = FALSE]

-----------------------------------------------------------------------------
(* The staged checkout and the image.                                      *)

\* Errors of the removal are ignored: something may be left.
StageRm(c) ==
    /\ command[c].at = "stage_rm"
    /\ stage' \in {None, IF stage = None THEN None ELSE "half"}
    /\ Goes(c, "stage_copy")
    /\ UNCHANGED <<docker, secrets, starts, history>>

\* Faulty: the checkout is copied over what is there.
StageCopyOver(c) ==
    /\ command[c].at = "stage_copy"
    /\ \/ stage' = (IF stage = None THEN command[c].from ELSE "half") /\ Goes(c, "build")
       \/ stage' = "half" /\ Goes(c, "false")
    /\ UNCHANGED <<docker, secrets, starts, history>>

\* A copy needs a directory that is not there, and may be cut short.
StageCopy(c) ==
    /\ command[c].at = "stage_copy"
    /\ \/ stage = None /\ stage' = command[c].from /\ Goes(c, "build")
       \/ stage = None /\ stage' = "half" /\ Goes(c, "false")
       \/ stage # None /\ UNCHANGED stage /\ Goes(c, "false")
    /\ UNCHANGED <<docker, secrets, starts, history>>

\* What the build finds under its --shell-config-source.
Context(c) == IF command[c].from = "github" THEN "github" ELSE stage

BuildFails(c) ==
    /\ command[c].at = "build"
    /\ Goes(c, "false")
    /\ UNCHANGED <<docker, secrets, host, history>>

Built(c) ==
    /\ command[c].at = "build"
    /\ Context(c) # None
    /\ image' = Context(c)
    /\ Goes(c, IF command[c].op = "build" THEN "true" ELSE "inspect")
    /\ UNCHANGED <<container, secrets, host, history>>

Pull(c) ==
    /\ command[c].at = "pull"
    /\ (Breaks(c) /\ Goes(c, "false")) \/ (Answers(c) /\ Goes(c, "tag"))
    /\ UNCHANGED <<docker, secrets, host>>

Tag(c) ==
    /\ command[c].at = "tag"
    /\ \/ Breaks(c) /\ Goes(c, "false") /\ UNCHANGED image
       \/ Answers(c) /\ image' = "published" /\ Goes(c, "true")
    /\ UNCHANGED <<container, secrets, host>>

-----------------------------------------------------------------------------
(* up and enter: always another container.                                 *)

Image(c) ==
    /\ command[c].at = "image"
    /\ \/ Breaks(c) /\ Goes(c, "build")
       \/ Answers(c) /\ Goes(c, IF image = None THEN "build" ELSE "inspect")
    /\ UNCHANGED <<docker, secrets, host>>

\* Faulty: a container that runs is kept.
InspectKeeping(c) ==
    /\ command[c].at = "inspect"
    /\ \/ Breaks(c) /\ Goes(c, "run")
       \/ Answers(c) /\ Goes(c, IF container = None THEN "run"
                                ELSE IF container.up THEN "exists" ELSE "rm")
    /\ UNCHANGED <<docker, secrets, host>>

Inspect(c) ==
    /\ command[c].at = "inspect"
    /\ \/ Breaks(c) /\ Goes(c, "run")
       \/ Answers(c) /\ Goes(c, IF container = None THEN "run" ELSE "rm")
    /\ UNCHANGED <<docker, secrets, host>>

Remove(c, removed, kept) ==
    /\ \/ Breaks(c) /\ kept /\ UNCHANGED container
       \/ Answers(c) /\ removed /\ container' = None
       \/ Answers(c) /\ container = None /\ kept /\ UNCHANGED container
    /\ UNCHANGED <<image, secrets, host>>

Rm(c) ==
    /\ command[c].at = "rm"
    /\ Remove(c, Goes(c, "run"), Goes(c, "false"))

\* Faulty: an image is taken to be there since the command looked.
NameIsFreeOnly(c) == container = None
CanRun(c) == container = None /\ image # None

\* The browser bridge is ensured and the mounts are made before the run.  A run
\* that cannot start the container it created leaves it behind.
Run(c) ==
    /\ command[c].at = "run"
    /\ \/ Breaks(c) /\ Goes(c, "false") /\ UNCHANGED container
       \/ ~CanRun(c) /\ Answers(c) /\ Goes(c, "false") /\ UNCHANGED container
       \/ /\ CanRun(c)
          /\ \E mount \in Resolves, up \in BOOLEAN :
                /\ container' = [by |-> c, image |-> image, up |-> up, mount |-> mount]
                /\ IF ~up THEN Breaks(c) /\ Goes(c, "false")
                   ELSE /\ Answers(c)
                        /\ command' = [command EXCEPT ![c].ran = TRUE,
                              ![c].at = IF command[c].op = "enter" THEN "exists" ELSE "true"]
    /\ UNCHANGED <<image, secrets, host>>

\* exec, and the shell of enter: by the container's name.
Exists(c) ==
    /\ command[c].at = "exists"
    /\ \/ Breaks(c) /\ Goes(c, "false")
       \/ Answers(c) /\ Goes(c, IF container = None THEN "false" ELSE "attach")
    /\ UNCHANGED <<docker, secrets, host>>

Attach(c) ==
    /\ command[c].at = "attach"
    /\ \/ Breaks(c) /\ Goes(c, "false")
       \/ Answers(c) /\ Goes(c, IF Ready(c) THEN "session" ELSE "false")
    /\ UNCHANGED <<docker, secrets, host>>

Leave(c) ==
    /\ command[c].at = "session"
    /\ Goes(c, "true")
    /\ UNCHANGED <<docker, secrets, host, history>>

AfterDown(c, success) ==
    command' = [command EXCEPT ![c].ok = success,
        ![c].at = IF command[c].op = "reset" THEN "reset_image"
                  ELSE IF success THEN "true" ELSE "false"]

DownInspect(c) ==
    /\ command[c].at = "down_inspect"
    /\ \/ Breaks(c) /\ AfterDown(c, TRUE)
       \/ Answers(c) /\ IF container = None THEN AfterDown(c, TRUE) ELSE Goes(c, "down_rm")
    /\ UNCHANGED <<docker, secrets, host>>

DownRm(c) ==
    /\ command[c].at = "down_rm"
    /\ Remove(c, AfterDown(c, TRUE), AfterDown(c, FALSE))

Result(c) == IF command[c].ok THEN "true" ELSE "false"

ResetImage(c) ==
    /\ command[c].at = "reset_image"
    /\ \/ Breaks(c) /\ Goes(c, Result(c))
       \/ Answers(c) /\ Goes(c, IF image = None THEN Result(c) ELSE "image_rm")
    /\ UNCHANGED <<docker, secrets, host>>

ImageRm(c) ==
    /\ command[c].at = "image_rm"
    /\ \/ Breaks(c) /\ Goes(c, "false") /\ UNCHANGED image
       \/ /\ Answers(c)
          /\ IF image = None \/ Ready(c)
             THEN Goes(c, "false") /\ UNCHANGED image
             ELSE image' = None /\ Goes(c, Result(c))
    /\ UNCHANGED <<container, secrets, host>>

-----------------------------------------------------------------------------
(* validate and auth validate: one docker exec per check.                  *)

ValidateInspect(c) ==
    /\ command[c].at = "v_inspect"
    /\ \/ Breaks(c) /\ Goes(c, "false")
       \/ /\ Answers(c)
          /\ IF container = None THEN Goes(c, "false")
             ELSE \E mount \in IF command[c].op = "auth" THEN {FALSE} ELSE Resolves :
                     command' = [command EXCEPT ![c].at = "probe", ![c].mount = mount,
                         ![c].todo = IF command[c].op = "auth" THEN AuthProbes ELSE Probes(mount)]
    /\ UNCHANGED <<docker, secrets, host>>

\* Faulty: the last check decides.
SoFarLast(c, passed) == passed
SoFar(c, passed) == command[c].ok /\ passed

\* A container that runs has all else that is asked of it; the socket is gone
\* when its broker ended.
Holds(probe) ==
    /\ container # None /\ container.up
    /\ probe = "shell" => container.image # "half"
    /\ probe = "mount" => container.mount

Probe(c) ==
    /\ command[c].at = "probe"
    /\ LET probe == Head(command[c].todo)
           rest == Tail(command[c].todo)
       IN  \E passed \in {Holds(probe), FALSE} :
              /\ IF passed = Holds(probe) \/ probe = "socket" THEN Answers(c) ELSE Breaks(c)
              /\ LET ok == SoFar(c, passed)
                 IN  command' = [command EXCEPT ![c].todo = rest, ![c].ok = ok,
                        ![c].at = IF rest # <<>> THEN "probe"
                                  ELSE IF ok THEN "true" ELSE "false"]
    /\ UNCHANGED <<docker, secrets, host>>

-----------------------------------------------------------------------------
(* secrets init-test.                                                      *)

\* The workspace must be there; the report on what it holds follows, whose own
\* inspection may fail: it then names no secrets, as if there were none.
See(c) ==
    /\ command[c].at = "see"
    /\ \/ Breaks(c) /\ (Goes(c, "false") \/ Goes(c, "judge"))
       \/ Answers(c) /\ Goes(c, IF container = None THEN "false" ELSE "see_key")
    /\ UNCHANGED <<docker, secrets, host>>

\* A docker exec that fails counts as nothing seen.
Sees(c, present, next) ==
    /\ \/ Breaks(c) /\ Goes(c, next)
       \/ /\ Answers(c)
          /\ command' = [command EXCEPT ![c].at = next, ![c].saw = @ \/ (Ready(c) /\ present)]
    /\ UNCHANGED <<docker, secrets, host>>

SeeKey(c) == command[c].at = "see_key" /\ Sees(c, keys # {}, "see_store")

\* Faulty: the key alone is looked for.
SeeStoreNever(c) == command[c].at = "see_store" /\ Sees(c, FALSE, "judge")
SeeStore(c) == command[c].at = "see_store" /\ Sees(c, store # None, "judge")

Judge(c) ==
    /\ command[c].at = "judge"
    /\ Goes(c, IF command[c].force THEN "clean_keys"
               ELSE IF command[c].saw THEN "false" ELSE "generate")
    /\ UNCHANGED <<docker, secrets, host, history>>

\* One docker exec in the container that has the workspace's name by now.
Executes(c, done) ==
    \/ Breaks(c) /\ Goes(c, "false") /\ UNCHANGED secrets
    \/ Answers(c) /\ ~Ready(c) /\ Goes(c, "false") /\ UNCHANGED secrets
    \/ Answers(c) /\ Ready(c) /\ done

CleanKeys(c) ==
    /\ command[c].at = "clean_keys"
    /\ Executes(c, keys' = {} /\ Goes(c, "clean_store") /\ UNCHANGED store)
    /\ UNCHANGED <<docker, host>>

CleanStore(c) ==
    /\ command[c].at = "clean_store"
    /\ Executes(c, store' = None /\ Goes(c, "generate") /\ UNCHANGED keys)
    /\ UNCHANGED <<docker, host>>

\* The script stops at its first failure (set -eu): a key, then a store that
\* is encrypted, or encrypted again, to it.
Generate(c) ==
    /\ command[c].at = "generate"
    /\ Executes(c, keys' = keys \cup {"test"} /\ Goes(c, "pass_init") /\ UNCHANGED store)
    /\ UNCHANGED <<docker, host>>

PassInit(c) ==
    /\ command[c].at = "pass_init"
    /\ Executes(c, store' = "test" /\ Goes(c, "after") /\ UNCHANGED keys)
    /\ UNCHANGED <<docker, host>>

\* The second report must at least find the workspace.
After(c) ==
    /\ command[c].at = "after"
    /\ \/ Breaks(c) /\ Goes(c, "false")
       \/ Answers(c) /\ Goes(c, IF container = None THEN "false" ELSE "true")
    /\ UNCHANGED <<docker, secrets, host>>

-----------------------------------------------------------------------------
Interrupt(c) ==
    /\ Working(c)
    /\ Goes(c, "idle")
    /\ stage' \in {stage, IF command[c].at = "stage_copy" /\ stage = None THEN "half" ELSE stage}
    /\ UNCHANGED <<docker, secrets, starts, history>>

Stops ==
    /\ container # None /\ container.up
    /\ container' = [container EXCEPT !.up = FALSE]
    /\ UNCHANGED <<image, secrets, host, command, history>>

Step(c) ==
    \/ \E op \in Ops : Start(c, op)
    \/ StageRm(c) \/ StageCopy(c) \/ BuildFails(c) \/ Built(c) \/ Pull(c) \/ Tag(c)
    \/ Image(c) \/ Inspect(c) \/ Rm(c) \/ Run(c) \/ Exists(c) \/ Attach(c) \/ Leave(c)
    \/ DownInspect(c) \/ DownRm(c) \/ ResetImage(c) \/ ImageRm(c)
    \/ ValidateInspect(c) \/ Probe(c)
    \/ See(c) \/ SeeKey(c) \/ SeeStore(c) \/ Judge(c)
    \/ CleanKeys(c) \/ CleanStore(c) \/ Generate(c) \/ PassInit(c) \/ After(c)
    \/ Interrupt(c)

Next == (\E c \in Cmds : Step(c)) \/ Stops

Spec == Init /\ [][Next]_vars

-----------------------------------------------------------------------------
TypeOK ==
    /\ stage \in Sources \cup {"half", None} /\ image \in Contents \cup {None}
    /\ container \in [by : Cmds, image : Contents, up : BOOLEAN, mount : BOOLEAN] \cup {None}
    /\ keys \subseteq {"own", "test"} /\ store \in {None, "own", "test"}
    /\ command \in [Cmds -> [at : Places, op : Ops, from : Sources \cup {"github", "staged"},
                             force : BOOLEAN, mount : BOOLEAN,
                             todo : Seq({"shell", "mount", "tools", "helper", "socket", "layers"}),
                             saw : BOOLEAN, ok : BOOLEAN, ran : BOOLEAN]]
    /\ starts \in 0..MaxStarts /\ faults \in 0..MaxFaults
    /\ calm \in [Cmds -> BOOLEAN]

Ends(c) == Working(c) /\ command'[c].at = "true"

\* The operator's key goes, and the operator's password store is encrypted to
\* another key, by an init-test that was forced, or overlapped another command,
\* or could not look at what is there, and by nothing else: an existing key or
\* an existing store alone is enough to refuse (_init_test_workspace_secrets).
OwnSecretsKept ==
    [][("own" \in keys \ keys' \/ (store = "own" /\ store' # "own"))
          => \E c \in Cmds : /\ Working(c) /\ command[c].op = "init"
                             /\ command[c].force \/ ~calm'[c]]_vars

\* A build that was given a checkout and reports success, alone, made the image
\* of the whole of that checkout and of nothing else, whatever an interrupted
\* or failed staging had left in the directory (_stage_local_shell_config).
BuiltFromItsCheckout ==
    [][\A c \in Cmds :
          (Ends(c) /\ calm'[c] /\ command[c].op = "build" /\ command[c].from \in Sources)
              => image' = command[c].from]_vars

\* The shell of an `enter`, alone, opens in the container that this command
\* created, of the image that is tagged now, never in one left from before
\* (_enter_workspace_profile).
EnterIsFresh ==
    [][\A c \in Cmds :
          (Working(c) /\ calm'[c] /\ command[c].op = "enter" /\ command'[c].at = "session")
              => container.by = c /\ command[c].ran /\ container.image = image]_vars

\* A validate that reports success, alone, found one running container for all
\* its checks, of an image with a whole shell configuration, and with the
\* checkout mounted when the command itself resolves one, whatever the `up`
\* before resolved (_validate_workspace_profile).
ValidatedIsWhole ==
    [][\A c \in Cmds :
          (Ends(c) /\ calm'[c] /\ command[c].op = "validate")
              => /\ container # None /\ container.up /\ container.image # "half"
                 /\ command[c].mount => container.mount]_vars
=============================================================================
