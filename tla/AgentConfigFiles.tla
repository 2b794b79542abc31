-------------------------- MODULE AgentConfigFiles --------------------------
(***************************************************************************)
(* The configuration files of the agent: `agent register` creates one,     *)
(* `agent run` loads all of a directory, or a single one, before it starts *)
(* a worker for each.  Both are processes of their own, which share only   *)
(* the directory; either may be killed, and the disk may be full.          *)
(*                                                                         *)
(* A file's text is abstracted to how much of it loads.  Paths are the     *)
(* regular .yaml and .yml files, whose names register checks and run       *)
(* selects.  Left out: flags, intervals, and what the system information   *)
(* says.  Init, Next, Spec and the type invariant are named for the files,  *)
(* so that a module can extend this one and AgentProcess.                  *)
(***************************************************************************)
EXTENDS Naturals, FiniteSets

CONSTANTS
    Paths,      \* files of the directory
    Servers,    \* endpoints to register at
    Processes,  \* `agent register` commands; a slot is used again
    MaxAgents,  \* bound on the agents the servers enrol for this machine
    Nil         \* no file, process or server

\* A worker's identity: LoadConfigsFromDir takes two of the same for a
\* mistake.
Identity == [server : Servers, agent : 1 .. MaxAgents]

\* empty and unusable do not load.  cut ends inside the API key or after it,
\* and loads: what comes later has defaults.
Texts    == {"empty", "unusable", "cut", "whole"}
Loadable == {"cut", "whole"}

\* id: what was, or is to be, written.  writer: the process that has the file
\* open; Nil once it is closed.
File == [id : Identity, text : Texts, writer : Processes \cup {Nil}]

ASSUME PathsAssumption == IsFiniteSet(Paths)
ASSUME MaxAgentsAssumption == MaxAgents \in Nat
ASSUME NilAssumption == Nil \notin Paths \cup Servers \cup Processes \cup File

VARIABLES
    file,       \* file[path]: what is there, or Nil
    enrolled,   \* enrolled[s]: the machine's agent at server s, 0 if none
    issued,     \* how many agents have been enrolled, deleted or not
    reg,        \* reg[p]: where process p stands
    run,        \* the `agent run` process
    removed     \* processes whose path a file was removed from meanwhile

filesVars == <<file, enrolled, issued, reg, run, removed>>

RegisteringPCs == {"check", "register", "report", "create", "write"}

Registration == [pc     : RegisteringPCs \cup {"idle", "registered"},
                 path   : Paths \cup {Nil},
                 server : Servers \cup {Nil},
                 agent  : 0 .. MaxAgents]

IdleRegistration == [pc |-> "idle", path |-> Nil, server |-> Nil, agent |-> 0]

\* listed: the files found; todo: those still to be read; configs: what was
\* loaded from each; faulty: a file was found that does not load.
Run == [pc      : {"stopped", "loading", "started"},
        listed  : SUBSET Paths,
        todo    : SUBSET Paths,
        configs : SUBSET [path : Paths, id : Identity],
        faulty  : BOOLEAN]

StoppedRun == [pc |-> "stopped", listed |-> {}, todo |-> {}, configs |-> {},
               faulty |-> FALSE]

FilesTypeOK ==
    /\ file \in [Paths -> File \cup {Nil}]
    /\ enrolled \in [Servers -> 0 .. MaxAgents]
    /\ issued \in 0 .. MaxAgents
    /\ reg \in [Processes -> Registration]
    /\ run \in Run
    /\ removed \subseteq Processes

FilesInit ==
    /\ file = [path \in Paths |-> Nil]
    /\ enrolled = [s \in Servers |-> 0]
    /\ issued = 0
    /\ reg = [p \in Processes |-> IdleRegistration]
    /\ run = StoppedRun
    /\ removed = {}

Go(p, pc) == reg' = [reg EXCEPT ![p].pc = pc]

\* The command ends with an error.
Fail(p) == reg' = [reg EXCEPT ![p] = IdleRegistration]

-----------------------------------------------------------------------------
(* hosthalla agent register                                                *)

StartRegister(p, path, s) ==
    /\ reg[p].pc = "idle"
    /\ reg' = [reg EXCEPT ![p] = [pc |-> "check", path |-> path, server |-> s, agent |-> 0]]
    /\ removed' = removed \ {p}
    /\ UNCHANGED <<file, enrolled, issued, run>>

\* os.Lstat
CheckFile(p) ==
    /\ reg[p].pc = "check"
    /\ \/ file[reg[p].path] = Nil /\ Go(p, "register")
       \/ file[reg[p].path] # Nil /\ Fail(p)
    /\ UNCHANGED <<file, enrolled, issued, run, removed>>

\* The server answers with the host's agent, which it enrols if there is none.
RegisterAgent(p) ==
    /\ reg[p].pc = "register"
    /\ LET s == reg[p].server
       IN  \/ /\ enrolled[s] # 0
              /\ reg' = [reg EXCEPT ![p].pc = "report", ![p].agent = enrolled[s]]
              /\ UNCHANGED <<enrolled, issued>>
           \/ /\ enrolled[s] = 0
              /\ issued < MaxAgents
              /\ issued' = issued + 1
              /\ enrolled' = [enrolled EXCEPT ![s] = issued + 1]
              /\ reg' = [reg EXCEPT ![p].pc = "report", ![p].agent = issued + 1]
    /\ UNCHANGED <<file, run, removed>>

\* collectHostSystemInfo and sendHostSystemInfo, which give up at the first
\* error: AbortRegister.  The agent stays enrolled, and has no file.
SendSystemInfo(p) ==
    /\ reg[p].pc = "report"
    /\ Go(p, "create")
    /\ UNCHANGED <<file, enrolled, issued, run, removed>>

NewFile(p) ==
    [id |-> [server |-> reg[p].server, agent |-> reg[p].agent],
     text |-> "empty", writer |-> p]

\* Fault: SaveConfigToPath, which truncates what is there.
CreateFileOver(p) ==
    /\ reg[p].pc = "create"
    /\ file' = [file EXCEPT ![reg[p].path] = NewFile(p)]
    /\ Go(p, "write")
    /\ UNCHANGED <<enrolled, issued, run, removed>>

\* os.OpenFile with O_EXCL
CreateFile(p) ==
    /\ reg[p].pc = "create"
    /\ \/ /\ file[reg[p].path] = Nil
          /\ file' = [file EXCEPT ![reg[p].path] = NewFile(p)]
          /\ Go(p, "write")
       \/ /\ file[reg[p].path] # Nil
          /\ Fail(p)
          /\ UNCHANGED file
    /\ UNCHANGED <<enrolled, issued, run, removed>>

\* The file that p has open, unless it has been removed, gets text and is
\* closed.
Written(p, text) ==
    [path \in Paths |->
        IF file[path] # Nil /\ file[path].writer = p
        THEN [file[path] EXCEPT !.text = text, !.writer = Nil]
        ELSE file[path]]

\* A write that fails may have written a part; Close may fail after it.  The
\* file stays.
WriteFile(p) ==
    /\ reg[p].pc = "write"
    /\ \/ file' = Written(p, "whole") /\ Go(p, "registered")
       \/ \E text \in Texts : file' = Written(p, text) /\ Fail(p)
    /\ UNCHANGED <<enrolled, issued, run, removed>>

\* A request fails, or the command is interrupted.
AbortRegister(p) ==
    /\ reg[p].pc \in RegisteringPCs
    /\ file' = Written(p, "empty")
    /\ Fail(p)
    /\ UNCHANGED <<enrolled, issued, run, removed>>

FinishRegister(p) ==
    /\ reg[p].pc = "registered"
    /\ reg' = [reg EXCEPT ![p] = IdleRegistration]
    /\ UNCHANGED <<file, enrolled, issued, run, removed>>

-----------------------------------------------------------------------------
(* hosthalla agent run                                                     *)

LoadFrom(listed) ==
    /\ run.pc = "stopped"
    /\ run' = [StoppedRun EXCEPT !.pc = "loading", !.listed = listed, !.todo = listed]
    /\ UNCHANGED <<file, enrolled, issued, reg, removed>>

\* --config-dir: os.ReadDir.  An empty directory is an error.
LoadConfigsFromDir ==
    /\ \E path \in Paths : file[path] # Nil
    /\ LoadFrom({path \in Paths : file[path] # Nil})

\* --config
LoadConfigFromPath(path) == LoadFrom({path})

Loads(path) == file[path] # Nil /\ file[path].text \in Loadable

\* Fault: a file that does not load is passed over.
ReadConfigOrSkip(path) ==
    /\ run.pc = "loading" /\ path \in run.todo
    /\ run' = [run EXCEPT
                 !.todo    = @ \ {path},
                 !.configs = IF Loads(path)
                             THEN @ \cup {[path |-> path, id |-> file[path].id]}
                             ELSE @]
    /\ UNCHANGED <<file, enrolled, issued, reg, removed>>

\* os.ReadFile and toAgentConfig; the file may be gone since it was listed.
ReadConfig(path) ==
    /\ run.pc = "loading" /\ path \in run.todo
    /\ run' = [run EXCEPT
                 !.todo    = @ \ {path},
                 !.faulty  = @ \/ ~Loads(path),
                 !.configs = IF Loads(path)
                             THEN @ \cup {[path |-> path, id |-> file[path].id]}
                             ELSE @]
    /\ UNCHANGED <<file, enrolled, issued, reg, removed>>

\* Fault: the endpoints are not compared.
DistinctNever(configs) == TRUE

\* No two have the same endpoint and agent.
Distinct(configs) == \A c, d \in configs : c.id = d.id => c = d

\* All files have been read: a worker for each, or none at all.
StartWorkers ==
    /\ run.pc = "loading" /\ run.todo = {}
    /\ run' = IF ~run.faulty /\ Distinct(run.configs)
              THEN [run EXCEPT !.pc = "started"]
              ELSE StoppedRun
    /\ UNCHANGED <<file, enrolled, issued, reg, removed>>

\* Interrupted, or all workers have panicked; AgentProcess has the details.
StopRun ==
    /\ run.pc # "stopped"
    /\ run' = StoppedRun
    /\ UNCHANGED <<file, enrolled, issued, reg, removed>>

-----------------------------------------------------------------------------
(* What others do.                                                         *)

\* The administrator removes a file, perhaps to register again.
RemoveFile(path) ==
    /\ file[path] # Nil
    /\ file' = [file EXCEPT ![path] = Nil]
    /\ removed' = removed \cup {p \in Processes : reg[p].path = path}
    /\ UNCHANGED <<enrolled, issued, reg, run>>

\* The agent is deleted in the server's web interface.
DeleteAgent(s) ==
    /\ enrolled[s] # 0
    /\ enrolled' = [enrolled EXCEPT ![s] = 0]
    /\ UNCHANGED <<file, issued, reg, run, removed>>

Register(p) ==
    \/ \E path \in Paths, s \in Servers : StartRegister(p, path, s)
    \/ CheckFile(p) \/ RegisterAgent(p) \/ SendSystemInfo(p)
    \/ CreateFile(p) \/ WriteFile(p)
    \/ AbortRegister(p) \/ FinishRegister(p)

FilesNext ==
    \/ \E p \in Processes : Register(p)
    \/ LoadConfigsFromDir
    \/ \E path \in Paths : LoadConfigFromPath(path) \/ ReadConfig(path)
    \/ StartWorkers \/ StopRun
    \/ \E path \in Paths : RemoveFile(path)
    \/ \E s \in Servers : DeleteAgent(s)

FilesSpec == FilesInit /\ [][FilesNext]_filesVars

-----------------------------------------------------------------------------
(* Properties.                                                             *)

\* A registration that reported success is on disk, whole and with the agent
\* the server gave it, unless its file has been removed.
RegisteredStored ==
    \A p \in Processes :
        reg[p].pc = "registered" /\ p \notin removed
            => file[reg[p].path] =
                  [id   |-> [server |-> reg[p].server, agent |-> reg[p].agent],
                   text |-> "whole", writer |-> Nil]

\* A run that has started has a worker for each of the files it found, whatever
\* registrations and removals went on while it read them, and no two workers
\* report as one agent to one server.
AllOrNone ==
    run.pc = "started" =>
        /\ {c.path : c \in run.configs} = run.listed
        /\ Cardinality({c.id : c \in run.configs}) = Cardinality(run.listed)
=============================================================================
