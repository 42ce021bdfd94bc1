------------------------- MODULE BrowserBridgeProofs -------------------------
(***************************************************************************)
(* Proofs about BrowserBridge, for any number of commands, brokers,        *)
(* openers and faults.                                                     *)
(*                                                                         *)
(* A command records its broker in two files, one after the other, and     *)
(* between the two the files are not in order.  The invariant says, of the *)
(* times at which they can show no mishap, that one command works at most, *)
(* and for each place where it can be which brokers may still run and      *)
(* whose the socket is.                                                    *)
(***************************************************************************)
EXTENDS BrowserBridge, TLAPS

\* What the commands and the brokers may hold.
UpRecords == [at : UpPlaces, opener : Openers \cup {None},
              existing : Brokers \cup {None, Garbled}, child : Brokers \cup {None}]
BrokerRecords == [at : BrokerPlaces, opener : Openers \cup {None}]

\* A command that has not returned; one between its child and the second file.
Working(u) == up[u].at \notin Returned
Recording == {"write_pid", "write_command"}

\* At most one command works, and the recorded id is no stranger's.
Alone ==
    /\ \A u, v \in Ups : Working(u) /\ Working(v) => u = v
    /\ \A b \in Brokers : pid_file = b => broker[b].at # "stranger"
    /\ (\A u \in Ups : up[u].at \notin Recording) => Settled

\* The broker that was recorded has been stopped, and its socket removed.
Stopped(u) ==
    /\ up[u].at = "kill" => up[u].existing = pid_file
    /\ up[u].at \in {"unlink", "spawn"} => \A b \in Brokers : ~Running(b)
    /\ up[u].at = "spawn" => socket = None

\* The child is the only broker that runs, and the socket is its own.
Spawned(u) ==
    up[u].at \in Recording \cup {"wait"} =>
        /\ up[u].child \in Brokers
        /\ broker[up[u].child].at # "stranger"
        /\ broker[up[u].child].opener = up[u].opener
        /\ \A b \in Brokers : Running(b) => b = up[u].child
        /\ socket \in {None, up[u].child}
        /\ up[u].at # "write_pid" => pid_file = up[u].child
        /\ up[u].at = "wait" => command_file = up[u].opener

\* What holds while the files can show no mishap.
Calm == Alone /\ \A u \in Ups : Stopped(u) /\ Spawned(u)

\* A zombie has a parent that goes on, and a command has no child before it
\* starts one.
Parents ==
    /\ \A b \in Brokers : broker[b].at = "zombie" => \E u \in Ups : up[u].child = b
    /\ \A u \in Ups : up[u].at \in {"idle", "inspect", "kill", "unlink", "spawn"} =>
          up[u].child = None

\* The inductive invariant.
IInv == TypeOK /\ Parents /\ (mishaps = {} => Calm)
-----------------------------------------------------------------------------
\* The types.

\* The invariant holds before any command has started.
LEMMA InitInv == Init => IInv
<1> SUFFICES ASSUME Init PROVE IInv OBVIOUS
<1>1. TypeOK BY BridgeAssumption DEF Init, Idle, TypeOK, BrokerPlaces, UpPlaces
<1>2. \A b \in Brokers : ~Running(b) /\ broker[b].at = "unborn" BY DEF Init, Running
<1>3. \A u \in Ups : up[u].at = "idle" /\ up[u].child = None BY DEF Init, Idle
<1>5. Parents BY <1>2, <1>3 DEF Parents
<1>4. Calm
  BY <1>2, <1>3 DEF Calm, Alone, Working, Returned, Settled, Stopped, Spawned, Recording
<1> QED BY <1>1, <1>4, <1>5 DEF IInv

\* A command moves to another place and leaves its options and the other commands.
LEMMA UpType ==
  ASSUME TypeOK, NEW u \in Ups, NEW place \in UpPlaces, UpGoes(u, place)
  PROVE  up' \in [Ups -> UpRecords]
  BY DEF TypeOK, UpGoes, UpRecords

\* So does a broker.
LEMMA BrokerType ==
  ASSUME TypeOK, NEW b \in Brokers, NEW place \in BrokerPlaces, BrokerGoes(b, place)
  PROVE  broker' \in [Brokers -> BrokerRecords]
  BY DEF TypeOK, BrokerGoes, BrokerRecords

\* A command that waits for its child, or ends, makes a zombie of its own dead.
LEMMA Burial ==
  ASSUME TypeOK, NEW u \in Ups, Buries(u)
  PROVE  /\ broker' \in [Brokers -> BrokerRecords]
         /\ \A b \in Brokers : broker'[b].opener = broker[b].opener
         /\ \A b \in Brokers :
               broker'[b].at = broker[b].at
                 \/ (broker[b].at = "zombie" /\ b = up[u].child /\ broker'[b].at = "dead")
         /\ \A b \in Brokers : broker'[b].at = "zombie" => b # up[u].child
         /\ \A b \in Brokers : Running(b)' <=> Running(b)
<1>1. \A b \in Brokers : broker'[b] \in BrokerRecords
  BY DEF TypeOK, Buries, BrokerRecords, BrokerPlaces
<1>2. broker' \in [Brokers -> BrokerRecords] BY <1>1 DEF Buries
<1> QED BY <1>2 DEF TypeOK, Buries, Running

\* Every step of a command keeps the types,
LEMMA UpKeepsType ==
  ASSUME TypeOK, NEW u \in Ups, Up(u)
  PROVE  TypeOK'
<1> USE DEF TypeOK, UpRecords, BrokerRecords
<1>1. CASE Start(u)
  <2>1. up' \in [Ups -> UpRecords]
    BY <1>1 DEF Start, UpPlaces
  <2>2. mishaps' \in SUBSET {"overlap", "interrupt", "reuse"} BY <1>1 DEF Start
  <2> QED BY <1>1, <2>1, <2>2 DEF Start
<1>2. CASE Inspect(u)
  <2>1. PICK place \in {"socket", "kill", "unlink"} :
           up' = [up EXCEPT ![u] = [up[u] EXCEPT !.at = place, !.existing = pid_file]]
    BY <1>2 DEF Inspect
  <2>2. [up[u] EXCEPT !.at = place, !.existing = pid_file] \in UpRecords BY <2>1 DEF UpPlaces
  <2> HIDE DEF UpRecords
  <2>3. up \in [Ups -> UpRecords] BY DEF UpRecords
  <2>4. up' \in [Ups -> UpRecords] BY <2>1, <2>2, <2>3
  <2> QED BY <1>2, <2>4 DEF Inspect, UpRecords
<1>3. CASE Kill(u)
  <2>1. broker' \in [Brokers -> BrokerRecords]
    BY <1>3, BrokerType DEF Kill, Remains, BrokerPlaces, _workspace_pid_is_alive
  <2> QED BY <1>3, <2>1, UpType DEF Kill, UpPlaces
<1>4. CASE Unlink(u) BY <1>4, UpType DEF Unlink, UpPlaces
<1>5. CASE Spawn(u)
  <2>1. PICK b \in Brokers :
           /\ broker' = [broker EXCEPT ![b] = [at |-> "start", opener |-> up[u].opener]]
           /\ up' = [up EXCEPT ![u] = [up[u] EXCEPT !.at = "write_pid", !.child = b]]
    BY <1>5 DEF Spawn
  <2>2. [up[u] EXCEPT !.at = "write_pid", !.child = b] \in UpRecords BY <2>1 DEF UpPlaces
  <2>3. broker' \in [Brokers -> BrokerRecords] BY <2>1 DEF BrokerPlaces
  <2> HIDE DEF UpRecords
  <2>4. up \in [Ups -> UpRecords] BY DEF UpRecords
  <2>5. up' \in [Ups -> UpRecords] BY <2>1, <2>2, <2>4
  <2> QED BY <1>5, <2>3, <2>5 DEF Spawn, UpRecords
<1>6. CASE WritePid(u) BY <1>6, UpType DEF WritePid, UpPlaces
<1>7. CASE WriteCommand(u) BY <1>7, UpType DEF WriteCommand, UpPlaces
<1>8. CASE Wait(u) BY <1>8, UpType DEF Wait, UpPlaces
<1>9. CASE Interrupt(u)
  <2>1. faults' \in 0..MaxFaults BY <1>9, BridgeAssumption DEF Interrupt
  <2>2. up' \in [Ups -> UpRecords] BY <1>9 DEF Interrupt, Idle, UpPlaces
  <2>3. broker' \in [Brokers -> BrokerRecords] BY <1>9, Burial DEF Interrupt
  <2> QED BY <1>9, <2>1, <2>2, <2>3 DEF Interrupt
<1>10. CASE Reap(u) \/ Exit(u)
  <2>1. up' \in [Ups -> UpRecords] BY <1>10, SMTT(30) DEF Reap, Exit, Idle, UpPlaces
  <2>2. broker' \in [Brokers -> BrokerRecords] BY <1>10, Burial DEF Reap, Exit
  <2> QED BY <1>10, <2>1, <2>2 DEF Reap, Exit
<1> QED BY <1>1, <1>2, <1>3, <1>4, <1>5, <1>6, <1>7, <1>8, <1>9, <1>10 DEF Up

\* and every step of a broker.
LEMMA BrokerKeepsType ==
  ASSUME TypeOK, NEW b \in Brokers, Broker(b)
  PROVE  TypeOK'
<1> USE BrokerType DEF TypeOK, BrokerPlaces, BrokerRecords, Remains
<1>1. CASE ClearPath(b) BY <1>1 DEF ClearPath
<1>2. CASE Bind(b) BY <1>2 DEF Bind
<1>3. CASE Listen(b) BY <1>3 DEF Listen
<1>4. CASE Accept(b) BY <1>4 DEF Accept
<1>5. CASE Answer(b) BY <1>5 DEF Answer
<1>6. CASE Raise(b) BY <1>6, BridgeAssumption DEF Raise
<1>7. CASE Cleanup(b) BY <1>7 DEF Cleanup
<1>8. CASE Killed(b) BY <1>8, BridgeAssumption DEF Killed
<1>9. CASE Reuse(b) BY <1>9, BridgeAssumption DEF Reuse
<1> QED BY <1>1, <1>2, <1>3, <1>4, <1>5, <1>6, <1>7, <1>8, <1>9 DEF Broker

\* A broker dies a zombie only while its parent goes on, and a command that ends
\* leaves no zombie.
LEMMA ParentsKept ==
  ASSUME TypeOK, Parents, Next
  PROVE  Parents'
<1>1. ASSUME NEW u \in Ups, Up(u) PROVE Parents'
  <2>1. \A v \in Ups \ {u} : up'[v] = up[v]
    BY <1>1 DEF TypeOK, Up, UpGoes, Start, Inspect, Kill, Unlink, Spawn, WritePid, WriteCommand,
                Wait, Interrupt, Reap, Exit
  <2>2. CASE Interrupt(u) \/ Reap(u) \/ Exit(u)
    <3>1. Buries(u) /\ up'[u].child = None BY <2>2 DEF TypeOK, Interrupt, Reap, Exit, Idle
    <3>2. up'[u].at \in Session \/ up'[u] = Idle
      BY <2>2 DEF TypeOK, Interrupt, Reap, Exit
    <3>3. \A b \in Brokers : broker'[b].at = "zombie" =>
             broker[b].at = "zombie" /\ b # up[u].child
      BY <3>1, Burial
    <3> QED BY <2>1, <3>1, <3>3 DEF Parents
  <2>3. CASE Kill(u)
    <3>1. /\ up'[u].at = "unlink" /\ up'[u].child = up[u].child /\ up[u].at = "kill"
          /\ \A b \in Brokers : broker'[b].at = "zombie" =>
                broker[b].at = "zombie" \/ \E v \in Ups : up[v].child = b
      BY <2>3 DEF TypeOK, Kill, UpGoes, BrokerGoes, Remains
    <3> QED BY <2>1, <3>1 DEF Parents
  <2>4. CASE Start(u)
    <3>1. up[u].at = "idle" /\ up'[u].child = None /\ broker' = broker
      BY <2>4 DEF TypeOK, Start
    <3> QED BY <2>1, <3>1, BridgeAssumption DEF Parents
  <2>5. CASE Spawn(u)
    <3>1. PICK b \in Brokers :
             /\ broker' = [broker EXCEPT ![b] = [at |-> "start", opener |-> up[u].opener]]
             /\ up' = [up EXCEPT ![u].at = "write_pid", ![u].child = b]
      BY <2>5 DEF Spawn
    <3>2. up[u].child = None /\ up'[u].at = "write_pid" /\ up'[u].child = b
      BY <2>5, <3>1 DEF TypeOK, Spawn, Parents
    <3>3. \A d \in Brokers : broker'[d].at = "zombie" => broker[d].at = "zombie"
      BY <3>1 DEF TypeOK
    <3> QED BY <2>1, <3>2, <3>3, BridgeAssumption DEF Parents
  <2>6. CASE Inspect(u) \/ Unlink(u) \/ WritePid(u) \/ WriteCommand(u) \/ Wait(u)
    <3>1. broker' = broker /\ up'[u].child = up[u].child
      BY <2>6 DEF TypeOK, Inspect, Unlink, WritePid, WriteCommand, Wait, UpGoes
    <3>2. up'[u].at \in {"idle", "inspect", "kill", "unlink", "spawn"} =>
             up[u].at \in {"inspect", "kill", "unlink"}
      BY <2>6 DEF TypeOK, Inspect, Unlink, WritePid, WriteCommand, Wait, UpGoes
    <3> QED BY <2>1, <3>1, <3>2 DEF Parents
  <2> QED BY <1>1, <2>2, <2>3, <2>4, <2>5, <2>6 DEF Up
<1>2. ASSUME NEW b \in Brokers, Broker(b) PROVE Parents'
  <2>1. up' = up
    BY <1>2 DEF Broker, ClearPath, Bind, Listen, Accept, Answer, Raise, Cleanup, Killed, Reuse
  <2>2. \A d \in Brokers : broker'[d].at = "zombie" =>
           broker[d].at = "zombie" \/ \E v \in Ups : up[v].child = d
    BY <1>2 DEF TypeOK, Broker, BrokerGoes, Remains, ClearPath, Bind, Listen, Accept, Answer,
                Raise, Cleanup, Killed, Reuse
  <2> QED BY <2>1, <2>2 DEF Parents
<1> QED BY <1>1, <1>2 DEF Next

-----------------------------------------------------------------------------
\* The calm.

\* A step of a command leaves the others where they are,
LEMMA OthersStay ==
  ASSUME TypeOK, NEW u \in Ups, Up(u)
  PROVE  \A v \in Ups \ {u} : up'[v] = up[v]
  BY DEF TypeOK, Up, UpGoes, Start, Inspect, Kill, Unlink, Spawn, WritePid, WriteCommand, Wait,
         Interrupt, Reap, Exit

\* so the calm rests on the one that works.
LEMMA OneWorks ==
  ASSUME NEW u \in Ups, \A v \in Ups \ {u} : up'[v].at \in Returned,
         \A b \in Brokers : pid_file' = b => broker'[b].at # "stranger",
         up'[u].at \notin Recording => Settled',
         Stopped(u)', Spawned(u)'
  PROVE  Calm'
<1>1. \A v \in Ups \ {u} : up'[v].at \notin Recording \cup {"kill", "unlink", "spawn", "wait"}
  BY DEF Returned, Session, Recording
<1>2. \A v \in Ups : Stopped(v)' /\ Spawned(v)'
  BY <1>1 DEF Stopped, Spawned, Recording
<1> QED BY <1>2 DEF Calm, Alone, Working

\* A broker that runs takes one step and touches no socket but its own.
LEMMA BrokerMoves ==
  ASSUME TypeOK, NEW b \in Brokers, Broker(b), mishaps' = {}
  PROVE  /\ Running(b) /\ mishaps = {}
         /\ broker'[b].opener = broker[b].opener /\ broker'[b].at # "stranger"
         /\ \A d \in Brokers \ {b} : broker'[d] = broker[d]
         /\ socket' \in {socket, None, b}
         /\ UNCHANGED <<up, pid_file, command_file>>
<1>1. ~Reuse(b) BY DEF Reuse
<1> QED BY <1>1 DEF TypeOK, Broker, BrokerGoes, Running, ClearPath, Bind, Listen, Accept, Answer,
                    Raise, Cleanup, Killed, Remains

\* A broker's step takes away nothing that a command counts on.
LEMMA BrokerCalm ==
  ASSUME IInv, NEW b \in Brokers, Broker(b), mishaps' = {}
  PROVE  Calm'
<1>1. TypeOK BY DEF IInv
<1>2. /\ Running(b) /\ mishaps = {}
      /\ broker'[b].opener = broker[b].opener /\ broker'[b].at # "stranger"
      /\ \A d \in Brokers \ {b} : broker'[d] = broker[d]
      /\ socket' \in {socket, None, b}
      /\ UNCHANGED <<up, pid_file, command_file>>
  BY <1>1, BrokerMoves
<1>3. Alone /\ \A u \in Ups : Stopped(u) /\ Spawned(u) BY <1>2 DEF IInv, Calm
<1>4. \A d \in Brokers : Running(d)' => Running(d) BY <1>2 DEF Running
<1>5. Alone'
  <2>1. ASSUME Settled PROVE Settled'
    <3>1. pid_file = b BY <1>2, <2>1 DEF Settled
    <3>2. \A d \in Brokers : Running(d)' => d = b BY <1>4, <2>1, <3>1 DEF Settled
    <3>3. socket' \in {None, b} BY <1>2, <2>1 DEF Settled
    <3> QED BY <1>2, <2>1, <3>1, <3>2, <3>3 DEF Settled
  <2> QED BY <1>2, <1>3, <2>1 DEF Alone, Working
<1>6. ASSUME NEW u \in Ups PROVE Stopped(u)' /\ Spawned(u)'
  <2>1. Stopped(u)' BY <1>2, <1>3 DEF Stopped
  <2>2. Spawned(u)' BY <1>2, <1>3, <1>4 DEF Spawned
  <2> QED BY <2>1, <2>2
<1> QED BY <1>5, <1>6 DEF Calm

\* A command that starts with the files in order is the only one.
LEMMA StartCalm ==
  ASSUME IInv, NEW u \in Ups, Start(u), mishaps' = {}
  PROVE  Calm'
<1>1. \A v \in Ups : up[v].at \in Returned BY DEF Start
<1>2. Settled
  <2>1. CASE mishaps = {}
    <3>1. \A v \in Ups : up[v].at \notin Recording BY <1>1 DEF Returned, Session, Recording
    <3> QED BY <2>1, <3>1 DEF IInv, Calm, Alone
  <2>2. CASE mishaps # {} BY <1>1, <2>2 DEF Start
  <2> QED BY <2>1, <2>2
<1>3. Settled' BY <1>2 DEF Start, Settled, Running
<1>4. \A b \in Brokers : pid_file' = b => broker'[b].at # "stranger" BY <1>3 DEF Settled
<1>5. up'[u].at \in {"none", "inspect"} BY DEF Start, IInv, TypeOK
<1>6. Stopped(u)' /\ Spawned(u)' BY <1>5 DEF Stopped, Spawned, Recording
<1>7. \A v \in Ups \ {u} : up'[v].at \in Returned BY <1>1, OthersStay DEF IInv, Up
<1> QED BY <1>3, <1>4, <1>6, <1>7, OneWorks

\* One that has returned changes nothing when it waits for its child or ends.
LEMMA SessionCalm ==
  ASSUME IInv, NEW u \in Ups, Reap(u) \/ Exit(u), mishaps' = {}
  PROVE  Calm'
<1>1. /\ TypeOK /\ Buries(u) /\ up[u].at \in Session
      /\ UNCHANGED <<pid_file, command_file, socket, mishaps>>
  BY DEF IInv, Reap, Exit
<1>2. up'[u].at \in Session \cup {"idle"} BY <1>1 DEF TypeOK, Reap, Exit, Idle
<1>3. \A v \in Ups \ {u} : up'[v] = up[v] BY <1>1, OthersStay DEF Up
<1>4. /\ \A b \in Brokers : broker'[b].opener = broker[b].opener
      /\ \A b \in Brokers : broker'[b].at = broker[b].at \/ broker'[b].at = "dead"
      /\ \A b \in Brokers : Running(b)' <=> Running(b)
  BY <1>1, Burial
<1>5. Alone /\ \A v \in Ups : Stopped(v) /\ Spawned(v) BY <1>1 DEF IInv, Calm
<1>6. /\ \A v \in Ups : Working(v)' => Working(v)
      /\ \A v \in Ups : up'[v].at \in Recording <=> up[v].at \in Recording
  BY <1>1, <1>2, <1>3 DEF Working, Returned, Session, Recording
<1>7. Settled => Settled' BY <1>1, <1>4 DEF Settled
<1>8. Alone' BY <1>1, <1>4, <1>5, <1>6, <1>7 DEF Alone
<1>9. \A v \in Ups : Stopped(v)' /\ Spawned(v)'
  <2>1. Stopped(u)' /\ Spawned(u)' BY <1>2 DEF Stopped, Spawned, Session, Recording
  <2>2. ASSUME NEW v \in Ups \ {u} PROVE Stopped(v)' /\ Spawned(v)'
    BY <1>1, <1>3, <1>4, <1>5, <2>2 DEF Stopped, Spawned
  <2> QED BY <2>1, <2>2
<1> QED BY <1>8, <1>9 DEF Calm

\* So is one that goes on.
LEMMA UpCalm ==
  ASSUME IInv, NEW u \in Ups, Up(u), mishaps' = {}
  PROVE  Calm'
<1>1. CASE Start(u) BY <1>1, StartCalm
<1>2. ~Interrupt(u) BY DEF Interrupt
<1>4. CASE Reap(u) \/ Exit(u) BY <1>4, SessionCalm
<1>3. CASE ~Start(u) /\ ~Reap(u) /\ ~Exit(u)
  <2>1. TypeOK /\ mishaps = {} /\ Working(u)
    BY <1>2, <1>3 DEF IInv, Up, Inspect, Kill, Unlink, Spawn, WritePid, WriteCommand, Wait,
                      Working, Returned, Session
  <2>2. Alone /\ Stopped(u) /\ Spawned(u) BY <2>1 DEF IInv, Calm
  <2>3. \A v \in Ups \ {u} : up'[v].at \in Returned
    BY <2>1, <2>2, OthersStay DEF Alone, Working
  <2>4. \A v \in Ups \ {u} : up[v].at \in Returned BY <2>1, <2>2 DEF Alone, Working
  <2>5. up[u].at \notin Recording => Settled
    BY <2>2, <2>4 DEF Alone, Recording, Returned, Session
  <2> SUFFICES /\ \A b \in Brokers : pid_file' = b => broker'[b].at # "stranger"
               /\ up'[u].at \notin Recording => Settled'
               /\ Stopped(u)' /\ Spawned(u)'
    BY <2>3, OneWorks
  <2> USE <2>1, <2>2, <2>5 DEF Alone, TypeOK, UpGoes, Recording
  <2>6. CASE Inspect(u)
    <3>1. Settled /\ UNCHANGED <<pid_file, command_file, socket, broker>> BY <2>6 DEF Inspect
    <3>2. Settled' BY <3>1 DEF Settled, Running
    <3>3. /\ up'[u].existing = pid_file /\ up'[u].at \in {"socket", "kill", "unlink"}
          /\ up'[u].at = "unlink" => ~_workspace_pid_is_alive(pid_file)
      BY <2>6 DEF Inspect
    <3>4. up'[u].at = "unlink" => \A b \in Brokers : ~Running(b)'
      BY <3>1, <3>3 DEF Settled, Running, _workspace_pid_is_alive
    <3> QED BY <3>1, <3>2, <3>3, <3>4 DEF Stopped, Spawned
  <2>7. CASE Kill(u)
    <3>1. /\ Settled /\ UNCHANGED <<pid_file, command_file, socket>> /\ up'[u].at = "unlink"
          /\ up[u].existing = pid_file
      BY <2>7 DEF Kill, Stopped
    <3>2. \A b \in Brokers : ~Running(b)'
      BY <2>7, <3>1 DEF Kill, Remains, Settled, Running, _workspace_pid_is_alive, BrokerGoes
    <3>3. \A b \in Brokers : pid_file' = b => broker'[b].at # "stranger"
      BY <2>7, <3>1 DEF Kill, Remains, BrokerGoes
    <3>4. \A b \in Brokers : /\ broker'[b].opener = broker[b].opener
                             /\ pid_file = b /\ broker'[b].at = "zombie" =>
                                   Running(b) \/ broker[b].at = "zombie"
      BY <2>7, <3>1 DEF Kill, Settled, Remains, BrokerGoes, _workspace_pid_is_alive
    <3>5. Settled' BY <3>1, <3>2, <3>3, <3>4 DEF Settled
    <3> QED BY <3>1, <3>2, <3>3, <3>5 DEF Stopped, Spawned
  <2>8. CASE Unlink(u)
    <3>1. /\ UNCHANGED <<pid_file, command_file, broker>> /\ up'[u].at = "spawn"
          /\ socket' = None /\ \A b \in Brokers : ~Running(b)
      BY <2>8 DEF Unlink, Stopped
    <3>2. \A b \in Brokers : ~Running(b)' BY <3>1 DEF Running
    <3>3. Settled
      <4>1. up[u].at = "unlink" BY <2>8 DEF Unlink
      <4> QED BY <4>1
    <3>4. Settled' BY <3>1, <3>2, <3>3 DEF Settled
    <3> QED BY <3>1, <3>2, <3>4 DEF Settled, Stopped, Spawned
  <2>9. CASE Spawn(u)
    <3>1. PICK b \in Brokers :
             /\ broker[b].at = "unborn"
             /\ broker' = [broker EXCEPT ![b] = [at |-> "start", opener |-> up[u].opener]]
             /\ up' = [up EXCEPT ![u].at = "write_pid", ![u].child = b]
      BY <2>9 DEF Spawn
    <3>2. /\ UNCHANGED <<pid_file, socket>> /\ socket = None /\ \A d \in Brokers : ~Running(d)
      BY <2>9 DEF Spawn, Stopped
    <3>3. /\ up'[u].at = "write_pid" /\ up'[u].child = b /\ up'[u].opener = up[u].opener
          /\ broker'[b] = [at |-> "start", opener |-> up[u].opener]
          /\ \A d \in Brokers \ {b} : broker'[d] = broker[d]
      BY <3>1
    <3>4. \A d \in Brokers : Running(d)' => d = b BY <3>2, <3>3 DEF Running
    <3> QED BY <3>2, <3>3, <3>4 DEF Stopped, Spawned
  <2>10. CASE WritePid(u)
    <3>1. /\ UNCHANGED <<socket, broker>> /\ pid_file' = up[u].child
          /\ up'[u].at = "write_command" /\ up'[u].child = up[u].child
          /\ up'[u].opener = up[u].opener /\ up[u].at = "write_pid"
      BY <2>10 DEF WritePid
    <3> QED BY <3>1 DEF Stopped, Spawned, Running
  <2>11. CASE WriteCommand(u)
    <3>1. /\ UNCHANGED <<pid_file, socket, broker>> /\ command_file' = up[u].opener
          /\ up'[u].at = "wait" /\ up'[u].child = up[u].child
          /\ up'[u].opener = up[u].opener /\ up[u].at = "write_command"
      BY <2>11 DEF WriteCommand
    <3>2. Spawned(u)' /\ Stopped(u)' BY <3>1 DEF Stopped, Spawned, Running
    <3>3. Settled' BY <3>1 DEF Settled, Spawned, Running
    <3> QED BY <3>1, <3>2, <3>3
  <2>12. CASE Wait(u)
    <3>1. /\ UNCHANGED <<pid_file, command_file, socket, broker>> /\ Settled
          /\ up'[u].at \in {"socket", "none"}
      BY <2>12 DEF Wait
    <3>2. Settled' BY <3>1 DEF Settled, Running
    <3> QED BY <3>1, <3>2 DEF Stopped, Spawned
  <2> QED BY <1>2, <1>3, <2>6, <2>7, <2>8, <2>9, <2>10, <2>11, <2>12 DEF Up
<1> QED BY <1>1, <1>3, <1>4

\* Every step keeps the invariant.
LEMMA NextInv == IInv /\ [Next]_vars => IInv'
<1> SUFFICES ASSUME IInv, [Next]_vars PROVE IInv' OBVIOUS
<1>1. CASE UNCHANGED vars
  BY <1>1 DEF vars, IInv, TypeOK, Calm, Alone, Settled, Stopped, Spawned, Working, Running,
              Parents
<1>2. ASSUME NEW u \in Ups, Up(u) PROVE IInv'
  BY <1>2, UpKeepsType, UpCalm, ParentsKept DEF IInv, Next
<1>3. ASSUME NEW b \in Brokers, Broker(b) PROVE IInv'
  BY <1>3, BrokerKeepsType, BrokerCalm, ParentsKept DEF IInv, Next
<1> QED BY <1>1, <1>2, <1>3 DEF Next

\* The inductive invariant holds in every reachable state.
THEOREM Invariance == Spec => []IInv
<1> QED BY InitInv, NextInv, PTL DEF Spec

-----------------------------------------------------------------------------
\* The files, the brokers and the commands hold what they may hold, also with
\* commands that overlap, interrupts, kills and reused ids.
THEOREM TypeCorrect == Spec => []TypeOK
<1>1. IInv => TypeOK BY DEF IInv
<1> QED BY <1>1, Invariance, PTL

\* No broker is left running beside the one the next command would find, or the
\* one a command is about to record, as long as the files show no overlap,
\* interrupt or reused id (_ensure_workspace_host_browser_bridge).
THEOREM NoneIsLost == Spec => []NoBrokerIsLost
<1>1. ASSUME IInv PROVE NoBrokerIsLost
  <2> SUFFICES ASSUME mishaps = {}, NEW b \in Brokers, Running(b)
               PROVE  b = pid_file \/ \E u \in Ups : up[u].at = "write_pid" /\ up[u].child = b
    BY DEF NoBrokerIsLost
  <2>1. Alone /\ \A u \in Ups : Spawned(u) BY <1>1 DEF IInv, Calm
  <2>2. CASE \A u \in Ups : up[u].at \notin Recording BY <2>1, <2>2 DEF Alone, Settled
  <2>3. ASSUME NEW u \in Ups, up[u].at \in Recording
        PROVE  b = pid_file \/ (up[u].at = "write_pid" /\ up[u].child = b)
    BY <2>1, <2>3 DEF Spawned, Recording
  <2> QED BY <2>2, <2>3
<1> QED BY <1>1, Invariance, PTL

\* A command that began with the files in order, alone and on a host that reuses
\* no id, returns the socket of the broker it recorded, for the opener it
\* resolved; one that it reuses runs, or is the zombie of a command that is still
\* in its container (_ensure_workspace_host_browser_bridge).
THEOREM RecordedBroker == Spec => ReturnsRecordedBroker
<1> DEFINE Recorded == mishaps' = {} => \A u \in Ups : ReturnsSocket(u) => Behind(pid_file, u)
<1>1. IInv /\ [Next]_vars => [Recorded]_vars
  <2> SUFFICES ASSUME IInv, Next, mishaps' = {}, NEW u \in Ups, ReturnsSocket(u)
               PROVE  Behind(pid_file, u)
    OBVIOUS
  <2>1. TypeOK /\ Parents BY DEF IInv
  <2>2. up[u].at # "socket" /\ up'[u].at = "socket" BY DEF ReturnsSocket
  <2>3. \A b \in Brokers : ~Broker(b) BY <2>1, <2>2, BrokerMoves
  <2>4. \A v \in Ups \ {u} : ~Up(v) BY <2>1, <2>2, OthersStay
  <2>5. Up(u) BY <2>3, <2>4 DEF Next
  <2>6. /\ Inspect(u) \/ Wait(u)
        /\ mishaps = {}
    BY <2>1, <2>2, <2>5 DEF Up, TypeOK, UpGoes, Start, Inspect, Kill, Unlink, Spawn, WritePid,
                           WriteCommand, Wait, Interrupt, Reap, Exit, Idle
  <2>7. Alone /\ Spawned(u) BY <2>6 DEF IInv, Calm
  <2>8. CASE Inspect(u)
    <3>1. /\ up[u].at = "inspect" /\ _workspace_pid_is_alive(pid_file) /\ socket # None
          /\ command_file = up[u].opener
      BY <2>1, <2>2, <2>8 DEF Inspect, TypeOK
    <3>2. \A v \in Ups : up[v].at \notin Recording
      BY <2>7, <3>1 DEF Alone, Working, Returned, Session, Recording
    <3>3. Settled BY <2>7, <3>2 DEF Alone
    <3>4. /\ pid_file \in Brokers /\ socket = pid_file
          /\ Running(pid_file) \/ broker[pid_file].at = "zombie"
          /\ broker[pid_file].opener = up[u].opener
      BY <3>1, <3>3 DEF Settled, _workspace_pid_is_alive
    <3>5. broker[pid_file].at = "zombie" => Unburied(pid_file, u)
      <4> SUFFICES ASSUME broker[pid_file].at = "zombie" PROVE Unburied(pid_file, u)
        OBVIOUS
      <4>1. PICK v \in Ups : up[v].child = pid_file BY <2>1, <3>4 DEF Parents
      <4>2. up[v].at # "idle" /\ v # u
        BY <2>1, <3>1, <3>4, <4>1, BridgeAssumption DEF Parents
      <4>3. up[v].at \in Session
        BY <2>7, <3>1, <4>2 DEF Alone, Working, Returned, Session
      <4> QED BY <4>1, <4>2, <4>3 DEF Unburied
    <3> QED BY <3>4, <3>5 DEF Behind
  <2>9. CASE Wait(u)
    <3>1. up[u].at = "wait" /\ socket # None BY <2>1, <2>2, <2>9 DEF Wait, UpGoes, TypeOK
    <3> QED BY <2>7, <3>1 DEF Spawned, Behind
  <2> QED BY <2>6, <2>8, <2>9
<1> QED BY <1>1, Invariance, PTL DEF Spec, ReturnsRecordedBroker

\* The cleanup of a broker that failed removes its own socket and no other's, as
\* long as no command overlapped, was interrupted or met a reused id (serve).
THEOREM OwnCleanup == Spec => CleanupIsOwn
<1> DEFINE Own == mishaps = {} => \A b \in Brokers :
          broker[b].at = "cleanup" /\ broker'[b].at # "cleanup" /\ socket' # socket => socket = b
<1>1. IInv /\ [Next]_vars => [Own]_vars
  <2> SUFFICES ASSUME IInv, Next, mishaps = {}, NEW b \in Brokers, broker[b].at = "cleanup",
                      broker'[b].at # "cleanup", socket' # socket
               PROVE  socket = b
    OBVIOUS
  <2>1. TypeOK /\ Alone /\ \A u \in Ups : Spawned(u) BY DEF IInv, Calm
  <2>2. \A u \in Ups : ~Up(u)
    BY <2>1 DEF Up, TypeOK, Start, Inspect, Kill, Unlink, Spawn, WritePid, WriteCommand, Wait,
               Interrupt, Reap, Exit
  <2>3. PICK d \in Brokers : Broker(d) BY <2>2 DEF Next
  <2>4. Cleanup(b)
    BY <2>1, <2>3 DEF Broker, TypeOK, BrokerGoes, ClearPath, Bind, Listen, Accept, Answer, Raise,
                     Cleanup, Killed, Reuse
  <2>5. Running(b) /\ socket # None BY <2>4 DEF Running, Cleanup
  <2>6. CASE \A u \in Ups : up[u].at \notin Recording BY <2>1, <2>5, <2>6 DEF Alone, Settled
  <2>7. ASSUME NEW u \in Ups, up[u].at \in Recording PROVE socket = b
    BY <2>1, <2>5, <2>7 DEF Spawned
  <2> QED BY <2>6, <2>7
<1> QED BY <1>1, Invariance, PTL DEF Spec, CleanupIsOwn
=============================================================================
