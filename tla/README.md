# Dev Container Fortress: TLA+ models, checks and proofs

This directory holds TLA+ specifications of `ft` (`ft/src/ft/`), the command-line
program of this repository, the TLC configurations that model-check them, and
proofs for TLAPS. Every definition is taken from the code; the modules name the
functions they model, and `PROJECT.json` gives the lines of each definition.

Contents: [the system](#the-system) · [modules](#modules) ·
[correspondence](#correspondence-with-the-code) · [runs](#runs-and-bounds) ·
[fairness](#fairness) · [proofs](#proofs) · [disagreements](#disagreements-found) ·
[not modelled](#what-is-not-modelled) · [plan](#plan) · [running it](#running-it)

## The system

`ft` installs a development environment on hosts, in containers and on AWS test
fleets. It is a set of short-lived commands. There is no daemon and no database:
commands share **files** (`hosts.toml`, `fleet.auto.tfvars.json`, the downloader
cache, the bridge's pid and socket files, SSH keys, `known_hosts`), the **Docker
daemon**, and **Terraform's state**. Nothing takes a lock. So the hard behaviour
is of three kinds: two commands at once on one file or container, a command
interrupted between two writes, and an external call that fails part of the way.
Threads exist in one place, the fleet check.

| component | state it keeps | operations | interacts with | what makes it correct |
|---|---|---|---|---|
| fleet check (`fleet_check.py`, `recap.py`) | one `HostCheck` per host: status, step, results; a log per step | plan, start a thread per host, run and judge each step, join, report; Ctrl-C | child processes over SSH, `hosts.toml`, Terraform output | exit 0 only if every planned host converged; always ends; never two installs on one host; a verdict is final |
| downloader cache and tool installation (`installer.py`) | per tool version: `metadata.json`, checksum manifest, asset; the install root | match metadata, fetch, verify, record, unpack, copy, healthcheck | upstream releases; other installs sharing the cache (image builds) | no damaged download is installed; an install that has the entry for itself verifies what it uses; an undisturbed retry recovers; a verified asset is reused |
| tool plan resolution (`manifest.py`, `tool_pool.py`, `platforms.py`) | none | versions and asset names from the manifest | the above | names the right asset for each platform |
| browser bridge (`browser_bridge.py`, cli) | socket, pid file, opener file, broker processes | ensure (find, replace, spawn, record), bind, accept, open, clean up | `workspace up`; the client in the container | one broker, the recorded one; the returned socket is its own |
| host inventory and Terraform stacks (cli, `src/infra`) | `hosts.toml`, `fleet.auto.tfvars.json`, Terraform state and output | plan, apply, destroy, import, prune | Terraform; every command that reads `hosts.toml` | operator's entries survive; fleet entries match Terraform after a command that ends well; no host dropped unasked |
| disposable container lifecycle (cli) | the tagged image, the managed container | build, up, down, reset, refresh, exec, shell, enter; the ensure step of `ft host` | the Docker daemon | a container that is only used is kept; a reported success is true |
| workspace lifecycle (cli) | the staged shell-config checkout, the tagged image, the managed container | build, pull, up, enter, down, reset, exec, validate, auth validate | Docker, browser bridge, the checkout on the host | an image is of the checkout it was built from; enter opens its own container; a validate that passes found one whole container |
| host SSH keys and `known_hosts` (cli) | the key pair, the managed `known_hosts` file, the target's `authorized_keys`, `~/.ssh/config` and its include | ssh-key, ssh-key-enroll, ssh-config, ssh; refresh before each connection | bootstrap, validate; the machine at the address, which may be made again | a reachable target is found reachable; the operator's ssh configuration is kept |
| host bootstrap, doctor, validate (cli, playbooks) | none of its own; the recap of the last pass | doctor and probe; check, apply and converge passes; options resolved per pass | Ansible, host keys, saved options | success means that nothing is left to change on the host |
| workspace secrets (`secrets.py`, cli) | the persisted `.gnupg` and `.password-store` of a profile | init-test: look, refuse or (forced) remove, generate, look again | the workspace container | the operator's keys and store go only when forced |
| tmux profile role (`dev_fortress_tmux`) | the link, the state file | look, decide, link, record, clone plugins | `csm tmux-profile`, the operator's own tmux configuration | a choice made with csm outlasts the re-runs of a selection whose last pass ended; the operator's configuration is never replaced |
| shell-config roles | a checkout, links, readiness | clone or stage, link, verify | bootstrap | ready means usable |
| capacity selector (`spot_select.py`, cli) | cache files of AWS answers, `capacity.auto.tfvars.json`, presets | resolve a request, fetch prices and history, rank, choose, write, save `last` | AWS, other selections sharing the cache, `apply` | what is ranked is complete; what is chosen meets the request; `last` is a success |
| options, identity (`options.py`, `identity.py`) | `options.toml`; the git identity | pick, resolve (flag, environment, file, default) | bootstrap and validate | the selection used is the one saved |
| installer script and deploy (`install.sh`, cli) | a checkout | fetch, check out, run | git, bootstrap | stops at the first failure |
| container images, CI | — | build files | Docker, GitHub | — |

The hazards each of them is exposed to, with the line at which each bites and the
property that would catch it, are listed in `PROJECT.json` under `hazards`.

## Modules

| module | what it is |
|---|---|
| `FleetVerdict` | what `aws-test-fleet check` promises its caller: one verdict per host, success only if all passed |
| `FleetCheck` | the command with its threads, steps, time limits and logs; shown to implement `FleetVerdict` |
| `ToolCache` | one entry of the downloader cache and the installs of that tool |
| `BrowserBridge` | the `up` commands of one profile and the brokers they start |
| `HostInventory` | what the commands that keep `hosts.toml` promise: it changes as a whole, by imports and prunes of what Terraform lists, or by the operator's hand |
| `FleetInventory` | `hosts.toml`, the fleet set, and the commands that change them from Terraform; shown to implement `HostInventory` |
| `ContainerTarget` | one disposable target's image and container, and the commands on it |
| `Capacity` | `capacity select` commands sharing a cache of AWS answers, and AWS publishing price changes late |
| `Workspace` | one workspace profile: staging, image, container, and the secrets every container of it mounts |
| `HostAccess` | how `ft host` reaches one SSH target: key pair, trust, connection, ssh configuration; the steps only |
| `HostTarget` | composes `HostAccess` with the Ansible passes of bootstrap and validate, the saved options and the tmux role; the state machine of `ft host` and `ft options pick` |
| `FleetCheckProofs`, `ToolCacheProofs`, `BrowserBridgeProofs`, `FleetInventoryProofs`, `ContainerTargetProofs`, `WorkspaceProofs`, `HostTargetProofs`, `CapacityProofs` | theorems about those modules for all values of the constants |
| `MC*` | instances for TLC: small constants and symmetry |

Each module has one action per step of the code, where a step is the code between
two points at which another process, a failure or an interrupt can intervene: a
call of Docker, Terraform or SSH, a write of a file (two steps where the code
truncates and then fills), a download (begin and end). Operators named *Faulty*
in their comments stand beside the action they vary. They are mistakes the code
does **not** make; each shows that a property can fail, and no specification uses
one.

## Correspondence with the code

**FleetCheck.** `main` is where `infra_aws_test_fleet_check` and `run_fleet_checks`
are; `thread[h]` is where host h's `run_host_check` is; `status`, `phase` and
`results` are `HostCheck`'s fields; `ended[h][i]` is how step i ended and the
recaps its log holds. `Plan` is `_fleet_host_checks` with its errors;
`RunStep`, `ChildExits`, `TimeoutExpired`, `Judge` are the loop's body;
`ThreadDies` is an exception in a worker, which leaves its check `RUNNING`;
`Report` is the exit status; `Interrupt` is Ctrl-C. `jobs[h]` is state of the remote host: a
step that timed out, or lost its connection, may leave its install running.

**ToolCache.** `meta`, `sums`, `asset` are the entry's files, each a *kind* and the
upstream revision it came from; a digest is the content it is the digest of.
`Begin` compares the metadata, `Purge` removes what another version left. `FetchSums`
and `FetchAsset` ask whether the file exists; `OpenSums`/`SumsArrive` and
`OpenAsset`/`AssetArrives` are `_download`, which opens the file when the server has
answered, copies, and does not notice a connection that closes early. `CheckCached`
is the first look at the cached asset and `FetchAsset` the second (line 472), so an
asset that another install has begun in between goes to `Record` unverified, as in
the code. `CheckCached` and `Verify` compare digests; `Record` writes `metadata.json`;
`Unpack`, `InstallSupport`, `InstallBinary`, `Healthcheck` are the rest of
`install_tool`. `Rerelease` (upstream publishes the tag again) and `Decay` are the
environment's. `writers` has, per file name, the installs that hold that file open: a
file opened under a writer is damaged until both are through, and bytes that arrive
for a file which was unlinked are lost. History variables: `calm[p]`, nothing has
disturbed this attempt; `alone[p]`, no other install was active since it began;
`overlap`, two installs were once active together.

**BrowserBridge.** Brokers are process ids. `up[u]` goes through
`_ensure_workspace_host_browser_bridge` (`Inspect`, `Kill`, `Unlink`, `Spawn`,
`WritePid`, `WriteCommand`, `Wait`), `broker[b]` through `serve` (`ClearPath`, `Bind`,
`Listen`, `Accept`, `Answer`, `Raise`, `Cleanup`). A broker that dies stays a zombie, for
which `os.kill(pid, 0)` succeeds, while the command that started it goes on (`Session`:
`enter` keeps a shell open): `Reap` is subprocess noticing lost children when it
starts the next one, `Exit` the end of the command. `Reuse` gives a buried broker's id to
another program. `mishaps` records which of an overlap, an interrupt and a reused
id the files may still show; it is emptied only when a command starts with the
files in order.

**FleetInventory.** `hosts_toml` and `targets` are the file and its last complete
content, an entry being its host's address; `fleet_set` is
`fleet.auto.tfvars.json`; `cloud` and `output` are Terraform's hosts and what
`terraform output` prints. `EmptySet`/`FillSet` and `EmptyFile`/`Fill` are
`write_text`, which truncates first; `TerraformFails` leaves any part of the work
done. `own` (the operator's entries) and `asked` (the sets asked for) are history.
`HostInventory` has neither the two steps of a write nor what a command carries: it
sees the list, what `terraform output` shows (`AbstractListed`), whether a command is at
work, and whether the file was left empty (`AbstractLost`), after which nobody writes it
before the operator has.

**ContainerTarget.** `image` is the build the tag names, `container` the managed
container with its image and whether it runs, `command[c]` where command c is in
`_build_`, `_ensure_..._running`, `_up_`, `_exec_`, `_down_` or
`_reset_single_container_target`; composite operations (`refresh`, `enter`,
`reset`) pass from one to the next as the functions call each other. A Docker call is one
step, and `Breaks` is a call that fails whatever it was asked: the code reads exit codes
only, so a failing `inspect` means *missing*. `calm[c]` is history: c works alone
and none of its calls failed so. The wait for the SSH service after
the ensure step of a host command changes nothing and is left out.

**Capacity.** `run[r]` is a command: its request (`Resolve` merges a preset under
the flags given), its place, and per instance type the worker that fetches the
history (`FreshHit`, `QueryStart`, `Query`, `Fill`, `QueryFails`). `spot` and
`catalog` are cache files, `None` when absent or torn, which the code treats alike.
`Publish` lets AWS publish a change up to `MaxDelay` hours after the hour it bears;
`UnderCap`, ranking and choice are operators over what the run has. `WriteTfvars`,
`OpenLast` and `FillLast` are the end of the command.

**Workspace.** As in `ContainerTarget`, `command[c]` is where c is in the functions
of a profile and a Docker call is one step that may fail. `stage` is the directory
`_stage_local_shell_config` removes and copies to, shared by every build; `keys`
and `store` are the host directories of the profile. `Probe` is one check of
`validate` (`Probes`) or of `auth validate` (`AuthProbes`); `See`, `SeeKey` and
`SeeStore` are the report that init-test decides by, in which a call that fails
shows nothing. The bridge that `up` ensures is `BrowserBridge`'s matter; here a failure
of it is a failure of `Run`. A docker run that fails may leave its container behind.

**HostAccess and HostTarget.** `controller` holds the files of the machine `ft`
runs on, each the sequence of its lines; `host` is the machine that has the
target's address now, with its host key (`id`), what it accepts, whether the other
roles converged (`base`), the tmux link (`conf`) and the role's state file
(`applied`). `Keys`, `Keygen`, `Keypub` are `_ensure_managed_host_ssh_key` and
ssh-keygen; `Scan`, `Cut`, `Write` are `_refresh_managed_known_host`; `Enrol`,
`Session`, `Shell`, `Probe` are the four ssh calls; `Install` and `Ensure` are
ssh-config. `Resolve` is `resolve_options`, `Play` and `Base` the start of a pass,
`Look`, `Link`, `Record`, `Plugins` the role, `End` the passage to the next stage of a
validate. `mode` is bootstrap's `--mode`: a pass in workspace mode skips the
workstation layer, the tmux role included. `Fails` ends a command at any step, as
every error path of these functions does. `Recreate`, `Choose` and `Own` are the
provider, csm and the operator. History: `calm[c]`, c works alone, and nothing failed
or changed under it; `host.chosen`, csm set the link last; `host.linked`, the selection
the role linked last; `host.honoured`, the selection of the last pass that ended, no
other having been recorded since. The tmux option stands for the option catalog.

## Runs and bounds

| run | configuration | shows | bounds, and why they are enough |
|---|---|---|---|
| `fleet_check` | `MCFleetCheck.cfg` | `TypeOK`; exit 0 means every planned host's own logs prove it (`ExitZeroIsProved`); `NoOverlappingInstalls`; the command ends (`CommandEnds`); `FleetCheck` implements `FleetVerdict` (`ImplementsVerdict`) | one host of each kind of check (two passes and one): workers share nothing but the join. Six logs: none, clean, changed, unreachable, and a failed recap before and after a clean one |
| `tool_cache` | `MCToolCache.cfg` | `TypeOK`, `InstalledIsWhole`, `AloneIsVerified`, `UndisturbedSucceeds`, `VerifiedIsKept` | all four kinds of tool (checked or not, archive or raw); two installs, one after the other or interleaved: writer and reader of one file; two releases; one fault, and any number of attempts after it; proved for any number of each |
| `tool_cache_unverified` | `MCToolCacheUnverified.cfg` | violates `RecordedIsPublished` | two installs, one release, nothing fails |
| `browser_bridge` | `MCBrowserBridge.cfg` | `TypeOK`, `NoBrokerIsLost`, `ReturnsRecordedBroker`, `CleanupIsOwn` | two commands at a time, three broker ids (replace, and replace again), two openers, one fault |
| `browser_bridge_reuse` | `MCBrowserBridgeReuse.cfg` | violates `ReturnsRunningBroker` | one command, two faults: the broker is killed, its id is reused |
| `fleet_inventory` | `MCFleetInventory.cfg` | `TypeOK`, `UserTargetsKept`, `FleetInSync`, `PruneTouchesFleetOnly`, `NoSilentDrop`, and that `FleetInventory` implements `HostInventory` (`ImplementsInventory`), one command at a time, interrupted or failing anywhere, any number of commands in sequence | the disposable host, a fleet of one (`lts`) or two (`full`) hosts, an operator's host whose name looks like the fleet's; one host can come back at a second address |
| `fleet_inventory_two` | `MCFleetInventoryTwo.cfg` | violates `PruneTouchesFleetOnly` | two commands, a fleet of one host |
| `container_target` | `MCContainerTarget.cfg` | `TypeOK`, `EnsureKeepsContainer`, `RefreshRunsItsBuild`, `ReplacedByAnother`, `DownLeavesNothing` | two commands, two builds (a refresh and another's build), three containers (one, its replacement, and another's), one failing call; proved for any number |
| `capacity` | `MCCapacity.cfg` | `TypeOK`, `HistoryComplete`, `SelectionMeetsRequest`, `LastIsASuccess` | two commands at once or in sequence; two types in two zones, with three price changes of one type that may be published late and out of order; three requests: the default, one with a shorter lookback and a Spot ceiling that refreshes the cache, one on demand with a price ceiling and no cache; the clock passes both lifetimes of cache entries |
| `workspace` | `MCWorkspace.cfg` | `TypeOK`, `OwnSecretsKept`, `BuiltFromItsCheckout`, `EnterIsFresh`, `ValidatedIsWhole` | two commands at a time and three in all (one to disturb, one to recover, one to overlap), one checkout, one failing call; interrupts are not counted |
| `host_target` | `MCHostTarget.cfg` | `TypeOK`, `ReachableIsProved`, `ConvergedIsProved`, `OwnTmuxKept`, `ChoiceKept`, `OwnConfigKept` | a Docker target (a cloud target is the same without the runtime step), enrolled or not at the start; two commands, overlapping or in sequence; two profiles; one failure or interrupt and one change by csm, the operator or the provider; proved for any number |
| `host_cut_link` | `MCHostTargetCutLink.cfg` | violates `RerunKeepsChoice` | one command at a time, two in all; one interrupt, one choice made with csm |

Sequences of commands are unbounded except in `workspace` and `host_target`, which
count the commands started, and in `capacity`, where each is given once. Elsewhere
only ids run out: builds, containers, brokers and faults are counted, and a bound
that is reached disables only the action that counts.

Several properties carry conditions, since the code does not deliver more.
`UndisturbedSucceeds` excludes an entry that two installs used at once, a tag
that was published again and a manifest that decayed: the code keeps a cached
manifest whenever the metadata matches and has no way out of those.
`AloneIsVerified` is about an install that no other ran beside, after any history;
`InstalledIsWhole` covers overlapping installs of archives, not of raw binaries.
`NoBrokerIsLost`, `ReturnsRecordedBroker` and `CleanupIsOwn` hold while `mishaps`
is empty, and `ReturnsRecordedBroker` leaves out the zombie of another command.
`EnsureKeepsContainer`, `ReplacedByAnother` and `DownLeavesNothing` are
about commands that work alone and whose Docker calls were answered;
`RefreshRunsItsBuild` has no such condition. Nor has `OwnSecretsKept` for commands
other than init-test, and `ConvergedIsProved` for the other roles of the playbook; the
other properties of `Workspace` and `HostTarget` are about a command that works
alone, after any history of interrupted and overlapping ones. `HistoryComplete`
excludes a fresh cache entry that does not reach back to the window's start: the
code keeps no record of how far one reaches. `ReachableIsProved` asks for both
halves of the key pair, since an interrupted ssh-keygen leaves a private half alone
which the code takes for a key, and for a target of kind docker or cloud (see
[disagreements](#disagreements-found)). `ChoiceKept` is about passes for the selection of
the last pass that ended.

These conditions leave hazards that the code is exposed to and no property rules out;
they are listed in `PROJECT.json` with a note instead of a property: a raw binary
replaced between its check and its copy; overlapping or interrupted `workspace up`
commands; overlapping commands on one container or workspace, a failed `docker exec` of
init-test's report among them; an options pick between two passes of a validate; an
`--ensure-include` cut while it rewrites `~/.ssh/config`. The code takes no lock and
keeps no copy in any of them, so nothing stronger is true of it.

## Fairness

Only `FleetCheck` has a liveness property. It assumes weak fairness of the main
thread and of each worker: the operating system schedules threads, and
`subprocess.run(timeout=...)` ends every step, which is what makes a hanging host
come to an end. Ctrl-C, dying threads and the remote install are not assumed to
happen. No other command waits for another process, except for a time limit, so the other
modules state safety only.

## Proofs

Each component that is modelled is proved about for **every** value of its
constants: any number of hosts, installs, commands or brokers and any bounds. Every
property of a passing run is stated by a theorem, except `CommandEnds`. The assumptions
are the `ASSUME`s of each module, which every run evaluates, and those that are
part of a theorem's statement, named below. Each proof has an inductive
invariant `IInv`, the lemma that it holds at the start, one lemma per action or per
part, the step lemma `IInv /\ [Next]_vars => IInv'`, and the theorems that follow
from it. Each of these invariants was model-checked on the small instances first.

* **FleetCheckProofs** — `TypeCorrect`, `ExitZeroSound`, `NoOverlap`,
  `FinishedStays`, `Refinement`. `ExitZeroIsProved` is not inductive: it needs what a worker's place says about the
  steps it has finished (`ThreadInv`), that a step which passed left no job behind
  (`JobInv`), and that the main thread joins every planned worker (`MainInv`). A
  frame lemma shows that a worker disturbs no other host. `Refinement` maps a
  thread's end to the abstract decision and everything before it to a stutter.
* **ToolCacheProofs** — `TypeCorrect`, `InstalledWhole`, `AloneVerified`,
  `UndisturbedWorks`, `VerifiedKept`. The invariant says per install what it has put
  into its root (`Rooted`), what it knows of the entry while it has it for itself
  (`OwnTurn`: an asset that it found missing is still missing at the second look), and
  why an undisturbed attempt cannot fail (`Undisturbed`); which installs can be in each
  other's way (`Alone`) and who may be writing a file (`Owned`); and of the entry, that
  metadata vouch for a manifest unless installs overlapped (`Entry`).
* **BrowserBridgeProofs** — `TypeCorrect`, `NoneIsLost`, `RecordedBroker`,
  `OwnCleanup`. Between the two files a command writes they are not in order, so
  the invariant says, of the times at which `mishaps` is empty, that one command
  works at most (`Alone`), that the recorded broker is stopped and its socket gone
  before another is spawned (`Stopped`), and that the child is the one broker that
  runs (`Spawned`). An inherited broker may raise an error and clean up at any of
  these places. That a zombie has a parent which goes on (`Parents`) holds at all times; from
  it follows that a reused broker runs unless it is another command's zombie.
* **FleetInventoryProofs** — `TypeCorrect`, for any number of commands; `OwnTargets`,
  `InSync`, `PruneIsOwn`, `AskedDrops`, `Implements`, under the assumption `OneCommand` of their
  statements. The assumption is needed: `fleet_inventory_two` violates
  `PruneTouchesFleetOnly` with two. Between its load of `hosts.toml` and its write a command carries what
  it read and what it will write. The invariant says that this is whole (`Carries`),
  agrees with the entries the command leaves alone (`Merges`), with the hosts of
  Terraform (`Matches`) and with what it lists now (`Fresh`), and that the saved set was
  asked for (`Asked`). `Implements` maps the write that completes to an import or a
  prune, which is sound because of `Fresh`; emptying the file is a stutter unless the
  command is cut off there.
* **ContainerTargetProofs** — `TypeCorrect`, `EnsureKeeps`, `RefreshRuns`,
  `Replaced`, `DownRemoves`. The invariant: a command is where its operation leads
  (`Route`), a refresh finds its own build or a later one (`Fresh`), a calm command is
  alone (`Alone`), and what Docker told it is still so (`Learnt`).
* **WorkspaceProofs** — `TypeCorrect`, `OwnSecretsAreKept`, `BuiltFromCheckout`,
  `EnterFresh`, `ValidatedWhole`. `Route`, `Alone` and `Learnt` as above, where what
  a calm command has learnt is what is staged (`Staged`), whose container it
  enters (`Entered`), what the probes behind it saw (`Probed`) and that there was no
  store (`Searched`). The last holds only while the container runs: a report
  whose calls fail shows nothing, but then the later calls fail too.
* **HostTargetProofs** — `TypeCorrect`, `ReachableProof`, `Converging`, `OwnTmux`,
  `ChoiceIsKept`, `OwnConfig`. The same parts again, and two that hold of every command, calm or
  not: a pass that changed nothing found the base converged (`Seen`), and a selection
  that is honoured is the one recorded on the host (`Honest`).
* **CapacityProofs** — `TypeCorrect`, `CompleteHistory`, `MeetsRequest`,
  `LastSucceeded`. `HistoryComplete` is not inductive, for an entry written by a run
  whose window ended before that of the entry it merged does not hold everything
  that was out at its end. What it does hold is said by `Covers`: a change is among the
  records if it is not older than they reach, and was out when they were asked
  for **or** is older than the newest of them by more than the overlap, which is where the next
  run asks again. That a change published late was due in no record before
  (`CoversLater`) rests on `MaxDelay <= Buffer`, and on no change being overdue when the clock
  starts. `MeetsRequest` needs that a newest sample and a first offer exist, which
  the library's induction over the naturals gives.

Model-checked only: `CommandEnds`, as liveness is beyond this prover.

## Disagreements found

Each of these runs violates a property that a comment or a document states.

* `tool_cache_unverified`: `_prepare_cached_asset` asks twice whether the asset
  exists (lines 454 and 472). An asset that another install has created in between
  is neither downloaded nor verified, and the digest of the half-written file is recorded;
  `containers/README.md` promises "checksum verification from upstream checksum
  manifests". `AloneIsVerified` shows that the next install that has the entry for itself
  notices.
* `browser_bridge_reuse`: a recorded process id that is alive is taken for the
  broker, so a reused id makes `up` return a socket nobody serves; the docstring says the broker is
  ensured to be running. A zombie does the same with no id reused: a broker that dies
  while the shell of its own `enter` is open still answers `os.kill(pid, 0)`
  (`ft/src/ft/cli.py:921`). The model has that behaviour without any mishap, and
  `ReturnsRecordedBroker` has to leave it out.
* `fleet_inventory_two`: a prune writes back the `hosts.toml` it loaded earlier, and
  removes an entry imported in between; the docstring says that only the fleet's
  targets are touched.
* `host_cut_link`: the tmux role links, then records. A play cut in between, a choice
  made with csm, and a re-run of the same selection takes the choice back, where the
  role's contract says that "a re-run keeps a `csm` choice, including none".

Two more were met while modelling and need no run to see:

* `_up_single_container_target` calls `_build_single_container_target(target)` without
  its required keyword arguments (`ft/src/ft/cli.py:4811`), so `up`, `enter` and every
  `ft host` command of a Docker target die of a `TypeError` when the image is missing
  (the place "raised" of `ContainerTarget`); the docstring of the ensure step says it
  returns `True` or `False`.
* Enrolment, `doctor --probe` and `validate` insist on the managed `known_hosts` file
  for every SSH target, but only Docker and cloud targets have it written
  (`ft/src/ft/cli.py:2838` and `3539`); for the documented `ubuntu-remote-example`, of kind
  workstation, they fail although the target is reachable, where
  `docs/workstation-usage.md:252` says that `doctor --probe` proves transport.
  `ReachableIsProved` is therefore about the other two kinds.

## What is not modelled

Wording, tables, progress lines and logging. Image builds and CI are build files
that other programs execute. `ft container status` and `logs` change nothing.
`TF_VAR_hosts` (a custom host map) is left out of `FleetInventory`, as are addresses
of `FleetCheck`'s hosts. A download that stalls for ever (`urlopen` without a time
limit) is no action: the install would simply stop.

* Commands that only read: `status`, `doctor` and `mount-plan` of a workspace,
  `host list`, `show` and `inventory`, `options`.
* `ssh-config --windows`, which copies the same files once more.
* Tool plan resolution: pure functions of `tools.toml` and the platform, with no
  state and no second actor.
* The git identity (`identity.py`): a chain of preferences and two `git config` calls.
* The shell-config roles, `install.sh` and `deploy`: sequences of git, uv and ssh
  calls whose conflicts with local work are git's to decide. In `HostTarget` the
  `base` step stands for the roles' convergence.
* Memory limits, family patterns and the four other sort orders of the capacity
  selector, which are bounds and keys of the shape of those modelled.

## Plan

All modules of the plan are written, and their safety properties proved. What is left,
in order of importance:

1. A composition of `FleetInventory` with `FleetCheck`'s plan: a check after an
   apply looks at the hosts that Terraform holds.
2. Properties for the hazards that have none yet, as far as the code promises
   anything about them.
3. An abstract container specification that `ContainerTarget` and `Workspace` both
   implement, if it says more than their properties do.

## Running it

    tlc -workers 2 -config MCFleetCheck.cfg MCFleetCheck
    tlapm ContainerTargetProofs.tla

The longest runs are `tool_cache` (six million states), `workspace`, `host_target` (three
million each) and `capacity` (two), of two to three minutes each. The modules use only the standard and
community modules and TLAPS.
