----------------------------- MODULE AgentProofs -----------------------------
(***************************************************************************)
(* Theorems about the two modules of the agent: AgentConfigFiles, for any  *)
(* directory, any servers and any number of `agent register` commands, and *)
(* AgentProcess, for any set of configured servers.                        *)
(***************************************************************************)
EXTENDS AgentConfigFiles, AgentProcess, FiniteSetTheorems, FunctionTheorems, TLAPS

\* The identity that registration p got from the server.
IdentityOf(p) == [server |-> reg[p].server, agent |-> reg[p].agent]

\* A registration that writes still has its own file open, and one that has
\* reported success has left it whole, unless the file was removed.
RegInv(p) ==
    /\ reg[p].pc \in RegisteringPCs \cup {"registered"} =>
          reg[p].path \in Paths /\ reg[p].server \in Servers
    /\ reg[p].pc \in {"report", "create", "write", "registered"} =>
          reg[p].agent \in 1 .. MaxAgents
    /\ reg[p].pc = "write" /\ p \notin removed =>
          /\ file[reg[p].path] \in File
          /\ file[reg[p].path].id = IdentityOf(p)
          /\ file[reg[p].path].writer = p
    /\ reg[p].pc = "registered" /\ p \notin removed =>
          file[reg[p].path] = [id |-> IdentityOf(p), text |-> "whole", writer |-> Nil]

RegsInv == \A p \in Processes : RegInv(p)

\* What a run has loaded is one configuration from each file it has read,
\* those apart that made it faulty.
RunInv ==
    /\ run.todo \subseteq run.listed
    /\ \A c \in run.configs : c.path \in run.listed \ run.todo
    /\ ~run.faulty =>
          \A path \in run.listed \ run.todo : \E c \in run.configs : c.path = path
    /\ \A c, d \in run.configs : c.path = d.path => c = d
    /\ run.pc = "started" => run.todo = {} /\ ~run.faulty /\ Distinct(run.configs)

IInv ==
    /\ FilesTypeOK
    /\ RegsInv
    /\ RunInv

-----------------------------------------------------------------------------
\* At first there is no file, no registration under way and no run.
LEMMA InitIInv == FilesInit => IInv
<1> SUFFICES ASSUME FilesInit
             PROVE  IInv
  OBVIOUS
<1>1. FilesTypeOK
  BY MaxAgentsAssumption DEF FilesInit, FilesTypeOK, IdleRegistration, Registration, StoppedRun, Run
<1>2. RegsInv
  BY DEF FilesInit, RegsInv, RegInv, IdleRegistration, RegisteringPCs
<1>3. RunInv
  BY DEF FilesInit, RunInv, StoppedRun
<1> QED
  BY <1>1, <1>2, <1>3 DEF IInv

\* The other registrations keep their files.
LEMMA ProcessStep ==
    ASSUME IInv, NEW p \in Processes, FilesTypeOK', RegInv(p)', UNCHANGED run,
           \A q \in Processes \ {p} :
               /\ reg'[q] = reg[q]
               /\ q \in removed => q \in removed'
               /\ reg[q].pc \in {"write", "registered"} /\ q \notin removed =>
                     file'[reg[q].path] = file[reg[q].path]
    PROVE  IInv'
<1>1. RunInv'
  BY DEF IInv, RunInv, Distinct
<1>2. ASSUME NEW q \in Processes \ {p}
      PROVE  RegInv(q)'
  BY <1>2 DEF IInv, RegsInv, RegInv, IdentityOf
<1> QED
  BY <1>1, <1>2 DEF IInv, RegsInv

\* Closing the file that p has open touches no other file.
LEMMA WrittenType ==
    ASSUME FilesTypeOK, NEW p \in Processes, NEW text \in Texts
    PROVE  /\ Written(p, text) \in [Paths -> File \cup {Nil}]
           /\ \A path \in Paths :
                 file[path] = Nil \/ file[path].writer # p =>
                     Written(p, text)[path] = file[path]
           /\ \A path \in Paths :
                 file[path] \in File /\ file[path].writer = p =>
                     Written(p, text)[path] =
                        [id |-> file[path].id, text |-> text, writer |-> Nil]
<1>1. \A path \in Paths : file[path] \in File \cup {Nil}
  BY DEF FilesTypeOK
<1>2. \A x \in File : x # Nil
  BY NilAssumption
<1>3. \A x \in File : [x EXCEPT !.text = text, !.writer = Nil]
                         = [id |-> x.id, text |-> text, writer |-> Nil]
  <2> SUFFICES ASSUME NEW x \in File
               PROVE  [x EXCEPT !.text = text, !.writer = Nil]
                         = [id |-> x.id, text |-> text, writer |-> Nil]
    OBVIOUS
  <2> DEFINE y == [x EXCEPT !.text = text, !.writer = Nil]
  <2>1. y \in File /\ y.id = x.id /\ y.text = text /\ y.writer = Nil
    BY DEF File
  <2> HIDE DEF y
  <2>2. y = [id |-> y.id, text |-> y.text, writer |-> y.writer]
    BY <2>1 DEF File
  <2>3. y = [id |-> x.id, text |-> text, writer |-> Nil]
    BY <2>1, <2>2
  <2> QED
    BY <2>3 DEF y
<1>4. \A x \in File : [id |-> x.id, text |-> text, writer |-> Nil] \in File
  BY DEF File
<1> QED
  BY <1>1, <1>2, <1>3, <1>4 DEF Written

\* A registration leaves the files that others have open, or have left.
LEMMA WrittenKeeps ==
    ASSUME IInv, NEW p \in Processes, NEW text \in Texts,
           NEW q \in Processes \ {p},
           reg[q].pc \in {"write", "registered"}, q \notin removed
    PROVE  Written(p, text)[reg[q].path] = file[reg[q].path]
<1>1. reg[q].path \in Paths /\ RegInv(q)
  BY DEF IInv, RegsInv, RegInv, RegisteringPCs
<1>2. file[reg[q].path].writer # p
  <2>1. CASE reg[q].pc = "write"
    BY <1>1, <2>1 DEF RegInv
  <2>2. CASE reg[q].pc = "registered"
    BY <1>1, <2>2, NilAssumption DEF RegInv
  <2> QED
    BY <2>1, <2>2
<1> QED
  BY <1>1, <1>2, WrittenType DEF IInv

\* A registration that goes on keeps its path, server and agent.
LEMMA GoType ==
    ASSUME FilesTypeOK, NEW p \in Processes, NEW pc \in RegisteringPCs \cup {"registered"},
           Go(p, pc)
    PROVE  /\ reg' \in [Processes -> Registration]
           /\ reg'[p].pc = pc /\ reg'[p].path = reg[p].path
           /\ reg'[p].server = reg[p].server /\ reg'[p].agent = reg[p].agent
           /\ \A q \in Processes \ {p} : reg'[q] = reg[q]
BY DEF Go, FilesTypeOK, Registration

\* A command that has ended makes no claim.
LEMMA IdleStep ==
    ASSUME IInv, NEW p \in Processes, UNCHANGED <<enrolled, issued, run, removed>>,
           reg' = [reg EXCEPT ![p] = IdleRegistration],
           file' \in [Paths -> File \cup {Nil}],
           \A q \in Processes \ {p} :
               reg[q].pc \in {"write", "registered"} /\ q \notin removed =>
                   file'[reg[q].path] = file[reg[q].path]
    PROVE  IInv'
<1>1. reg' \in [Processes -> Registration] /\ reg'[p] = IdleRegistration
  BY MaxAgentsAssumption DEF IInv, FilesTypeOK, IdleRegistration, Registration
<1>2. FilesTypeOK'
  BY <1>1 DEF IInv, FilesTypeOK
<1>3. RegInv(p)'
  BY <1>1 DEF RegInv, IdleRegistration, RegisteringPCs
<1> QED
  BY <1>2, <1>3, ProcessStep DEF IInv, FilesTypeOK

\* A new registration has no file yet that could be claimed.
LEMMA StartRegisterStep ==
    ASSUME IInv, NEW p \in Processes, NEW path \in Paths, NEW s \in Servers,
           StartRegister(p, path, s)
    PROVE  IInv'
<1>1. /\ reg' \in [Processes -> Registration]
      /\ reg'[p] = [pc |-> "check", path |-> path, server |-> s, agent |-> 0]
      /\ \A q \in Processes \ {p} : reg'[q] = reg[q]
  BY MaxAgentsAssumption DEF StartRegister, IInv, FilesTypeOK, Registration, RegisteringPCs
<1>2. FilesTypeOK'
  BY <1>1 DEF StartRegister, IInv, FilesTypeOK
<1>3. RegInv(p)'
  BY <1>1 DEF RegInv, RegisteringPCs
<1> QED
  BY <1>1, <1>2, <1>3, ProcessStep DEF StartRegister

\* The agent that a registration is told is one the servers have issued.
LEMMA RegisterAgentStep ==
    ASSUME IInv, NEW p \in Processes, RegisterAgent(p)
    PROVE  IInv'
<1> DEFINE s == reg[p].server
<1>1. reg[p].pc = "register" /\ reg[p].path \in Paths /\ s \in Servers
  BY DEF RegisterAgent, IInv, RegsInv, RegInv, RegisteringPCs
<1>2. PICK a \in 1 .. MaxAgents :
         reg' = [reg EXCEPT ![p].pc = "report", ![p].agent = a]
  <2>1. CASE enrolled[s] # 0
    <3>1. enrolled[s] \in 1 .. MaxAgents
      BY <1>1, <2>1, MaxAgentsAssumption DEF IInv, FilesTypeOK
    <3>2. reg' = [reg EXCEPT ![p].pc = "report", ![p].agent = enrolled[s]]
      BY <2>1 DEF RegisterAgent
    <3> QED
      BY <3>1, <3>2
  <2>2. CASE enrolled[s] = 0
    <3>1. issued + 1 \in 1 .. MaxAgents
      BY <2>2, MaxAgentsAssumption DEF RegisterAgent, IInv, FilesTypeOK
    <3>2. reg' = [reg EXCEPT ![p].pc = "report", ![p].agent = issued + 1]
      BY <2>2 DEF RegisterAgent
    <3> QED
      BY <3>1, <3>2
  <2> QED
    BY <2>1, <2>2
<1>3. /\ reg' \in [Processes -> Registration]
      /\ reg'[p].pc = "report" /\ reg'[p].path = reg[p].path
      /\ reg'[p].server = s /\ reg'[p].agent = a
      /\ \A q \in Processes \ {p} : reg'[q] = reg[q]
  <2>1. reg \in [Processes -> Registration] /\ a \in 0 .. MaxAgents
    BY MaxAgentsAssumption DEF IInv, FilesTypeOK
  <2>2. "report" \in RegisteringPCs
    BY DEF RegisteringPCs
  <2> QED
    BY <1>2, <2>1, <2>2 DEF Registration
<1>4. enrolled' \in [Servers -> 0 .. MaxAgents] /\ issued' \in 0 .. MaxAgents
  BY <1>1, MaxAgentsAssumption DEF RegisterAgent, IInv, FilesTypeOK
<1>5. FilesTypeOK'
  BY <1>3, <1>4 DEF RegisterAgent, IInv, FilesTypeOK
<1>6. RegInv(p)'
  BY <1>1, <1>3 DEF RegInv
<1> QED
  BY <1>3, <1>5, <1>6, ProcessStep DEF RegisterAgent

\* A step that only moves registration p on.
LEMMA GoStep ==
    ASSUME IInv, NEW p \in Processes, NEW pc \in {"register", "create"}, Go(p, pc),
           reg[p].pc \in {"check", "report"}, pc = "create" => reg[p].pc = "report",
           UNCHANGED <<file, enrolled, issued, run, removed>>
    PROVE  IInv'
<1>1. /\ reg' \in [Processes -> Registration]
      /\ reg'[p].pc = pc /\ reg'[p].path = reg[p].path
      /\ reg'[p].server = reg[p].server /\ reg'[p].agent = reg[p].agent
      /\ \A q \in Processes \ {p} : reg'[q] = reg[q]
  BY GoType DEF IInv, RegisteringPCs
<1>2. FilesTypeOK'
  BY <1>1 DEF IInv, FilesTypeOK
<1>3. RegInv(p)'
  BY <1>1 DEF IInv, RegsInv, RegInv, RegisteringPCs
<1> QED
  BY <1>1, <1>2, <1>3, ProcessStep

\* O_EXCL: the new file replaces none that another registration relies on.
LEMMA CreateFileStep ==
    ASSUME IInv, NEW p \in Processes, CreateFile(p)
    PROVE  IInv'
<1> DEFINE path == reg[p].path
<1>1. /\ reg[p].pc = "create" /\ path \in Paths /\ NewFile(p) \in File
      /\ NewFile(p).id = IdentityOf(p) /\ NewFile(p).writer = p
      /\ reg[p].server \in Servers /\ reg[p].agent \in 1 .. MaxAgents
  BY DEF CreateFile, IInv, RegsInv, RegInv, RegisteringPCs, NewFile, File, Identity,
         Texts, IdentityOf
<1>2. CASE /\ file[path] = Nil
           /\ file' = [file EXCEPT ![path] = NewFile(p)]
           /\ Go(p, "write")
  <2>1. /\ reg' \in [Processes -> Registration]
        /\ reg'[p].pc = "write" /\ reg'[p].path = path
        /\ reg'[p].server = reg[p].server /\ reg'[p].agent = reg[p].agent
        /\ \A q \in Processes \ {p} : reg'[q] = reg[q]
    BY <1>2, GoType DEF IInv, RegisteringPCs
  <2>2. file' \in [Paths -> File \cup {Nil}] /\ file'[path] = NewFile(p)
    BY <1>1, <1>2 DEF IInv, FilesTypeOK
  <2>3. FilesTypeOK'
    BY <2>1, <2>2 DEF CreateFile, IInv, FilesTypeOK
  <2>4. IdentityOf(p)' = IdentityOf(p)
    BY <2>1 DEF IdentityOf
  <2>5. RegInv(p)'
    BY <1>1, <2>1, <2>2, <2>4 DEF RegInv
  <2>6. ASSUME NEW q \in Processes \ {p},
               reg[q].pc \in {"write", "registered"}, q \notin removed
        PROVE  file'[reg[q].path] = file[reg[q].path]
    <3>1. reg[q].path \in Paths /\ file[reg[q].path] \in File
      <4>1. RegInv(q)
        BY DEF IInv, RegsInv
      <4>2. CASE reg[q].pc = "write"
        BY <2>6, <4>1, <4>2 DEF RegInv, RegisteringPCs
      <4>3. CASE reg[q].pc = "registered"
        BY <2>6, <4>1, <4>3 DEF RegInv, RegisteringPCs, File, Identity, IdentityOf, Texts
      <4> QED
        BY <2>6, <4>2, <4>3
    <3>2. reg[q].path # path
      BY <1>2, <3>1, NilAssumption
    <3> QED
      BY <1>2, <3>1, <3>2 DEF IInv, FilesTypeOK
  <2> QED
    BY <2>1, <2>3, <2>5, <2>6, ProcessStep DEF CreateFile
<1>3. CASE Fail(p) /\ UNCHANGED file
  BY <1>3, IdleStep DEF CreateFile, Fail, IInv, FilesTypeOK
<1> QED
  BY <1>2, <1>3 DEF CreateFile

\* A registration is done with its own file whole, and writes into no other.
LEMMA WriteFileStep ==
    ASSUME IInv, NEW p \in Processes, WriteFile(p)
    PROVE  IInv'
<1>1. reg[p].pc = "write" /\ RegInv(p) /\ UNCHANGED <<enrolled, issued, run, removed>>
  BY DEF WriteFile, IInv, RegsInv
<1>2. CASE file' = Written(p, "whole") /\ Go(p, "registered")
  <2>1. /\ reg' \in [Processes -> Registration]
        /\ reg'[p].pc = "registered" /\ reg'[p].path = reg[p].path
        /\ reg'[p].server = reg[p].server /\ reg'[p].agent = reg[p].agent
        /\ \A q \in Processes \ {p} : reg'[q] = reg[q]
    BY <1>2, GoType DEF IInv, RegisteringPCs
  <2>2. "whole" \in Texts
    BY DEF Texts
  <2>3. FilesTypeOK'
    BY <1>1, <1>2, <2>1, <2>2, WrittenType DEF IInv, FilesTypeOK
  <2>4. IdentityOf(p)' = IdentityOf(p)
    BY <2>1 DEF IdentityOf
  <2>5. RegInv(p)'
    <3>1. p \notin removed =>
             file'[reg[p].path] = [id |-> IdentityOf(p), text |-> "whole", writer |-> Nil]
      BY <1>1, <1>2, <2>2, WrittenType DEF IInv, RegInv, RegisteringPCs
    <3> QED
      BY <1>1, <2>1, <2>4, <3>1 DEF RegInv, RegisteringPCs
  <2>6. \A q \in Processes \ {p} :
           reg[q].pc \in {"write", "registered"} /\ q \notin removed =>
               file'[reg[q].path] = file[reg[q].path]
    BY <1>2, <2>2, WrittenKeeps
  <2> QED
    BY <1>1, <2>1, <2>3, <2>5, <2>6, ProcessStep
<1>3. ASSUME NEW text \in Texts, file' = Written(p, text), Fail(p)
      PROVE  IInv'
  <2>1. \A q \in Processes \ {p} :
           reg[q].pc \in {"write", "registered"} /\ q \notin removed =>
               file'[reg[q].path] = file[reg[q].path]
    BY <1>3, WrittenKeeps
  <2> QED
    BY <1>1, <1>3, <2>1, WrittenType, IdleStep DEF Fail, IInv
<1> QED
  BY <1>2, <1>3 DEF WriteFile

\* A registration that is cut off leaves the files of the others alone.
LEMMA AbortRegisterStep ==
    ASSUME IInv, NEW p \in Processes, AbortRegister(p)
    PROVE  IInv'
<1>1. "empty" \in Texts
  BY DEF Texts
<1>2. \A q \in Processes \ {p} :
         reg[q].pc \in {"write", "registered"} /\ q \notin removed =>
             file'[reg[q].path] = file[reg[q].path]
  BY <1>1, WrittenKeeps DEF AbortRegister
<1> QED
  BY <1>1, <1>2, WrittenType, IdleStep DEF AbortRegister, Fail, IInv

\* Every step of the command register.
LEMMA RegisterStep ==
    ASSUME IInv, NEW p \in Processes, Register(p)
    PROVE  IInv'
<1>1. CASE \E path \in Paths, s \in Servers : StartRegister(p, path, s)
  BY <1>1, StartRegisterStep
<1>2. CASE CheckFile(p)
  <2>1. CASE Go(p, "register")
    BY <1>2, <2>1, GoStep DEF CheckFile
  <2>2. CASE Fail(p)
    BY <1>2, <2>2, IdleStep DEF CheckFile, Fail, IInv, FilesTypeOK
  <2> QED
    BY <1>2, <2>1, <2>2 DEF CheckFile
<1>3. CASE RegisterAgent(p)
  BY <1>3, RegisterAgentStep
<1>4. CASE SendSystemInfo(p)
  BY <1>4, GoStep DEF SendSystemInfo
<1>5. CASE CreateFile(p)
  BY <1>5, CreateFileStep
<1>6. CASE WriteFile(p)
  BY <1>6, WriteFileStep
<1>7. CASE AbortRegister(p)
  BY <1>7, AbortRegisterStep
<1>8. CASE FinishRegister(p)
  BY <1>8, IdleStep DEF FinishRegister, IInv, FilesTypeOK
<1> QED
  BY <1>1, <1>2, <1>3, <1>4, <1>5, <1>6, <1>7, <1>8 DEF Register

-----------------------------------------------------------------------------
(* The run, and what others do.                                            *)

\* A step of the run leaves the files and the registrations.
LEMMA RunStep ==
    ASSUME IInv, UNCHANGED <<file, enrolled, issued, reg, removed>>, run' \in Run, RunInv'
    PROVE  IInv'
<1>1. RegsInv'
  BY DEF IInv, RegsInv, RegInv, IdentityOf
<1> QED
  BY <1>1 DEF IInv, FilesTypeOK

\* A run that has stopped has loaded nothing.
LEMMA StoppedInv ==
    ASSUME run' = StoppedRun
    PROVE  run' \in Run /\ RunInv'
BY DEF StoppedRun, Run, RunInv

\* A run that has just listed its files has read none of them.
LEMMA LoadStep ==
    ASSUME IInv, NEW listed \in SUBSET Paths, LoadFrom(listed)
    PROVE  IInv'
<1>1. run' = [pc |-> "loading", listed |-> listed, todo |-> listed, configs |-> {},
              faulty |-> FALSE]
  BY DEF LoadFrom, StoppedRun
<1>2. run' \in Run
  BY <1>1 DEF Run
<1>3. RunInv'
  BY <1>1 DEF RunInv
<1> QED
  BY <1>2, <1>3, RunStep DEF LoadFrom

\* Reading a file adds its configuration, or makes the run faulty.
LEMMA ReadConfigStep ==
    ASSUME IInv, NEW path \in Paths, ReadConfig(path)
    PROVE  IInv'
<1> DEFINE new == [path |-> path, id |-> file[path].id]
<1>1. run \in Run /\ run.pc = "loading" /\ path \in run.todo /\ RunInv
  BY DEF ReadConfig, IInv, FilesTypeOK
<1>2. Loads(path) => new \in [path : Paths, id : Identity]
  BY DEF Loads, IInv, FilesTypeOK, File
<1>3. /\ run'.pc = "loading" /\ run'.listed = run.listed
      /\ run'.todo = run.todo \ {path}
      /\ run'.configs = IF Loads(path) THEN run.configs \cup {new} ELSE run.configs
  BY <1>1 DEF ReadConfig, Run
<1>4. run'.faulty = (run.faulty \/ ~Loads(path))
  BY <1>1 DEF ReadConfig, Run
<1>5. run' \in Run
  <2> DEFINE configs == IF Loads(path) THEN run.configs \cup {new} ELSE run.configs
  <2>1. configs \in SUBSET [path : Paths, id : Identity]
    BY <1>1, <1>2 DEF Run
  <2> HIDE DEF configs
  <2>2. run' = [run EXCEPT !.todo = run.todo \ {path},
                           !.faulty = run.faulty \/ ~Loads(path), !.configs = configs]
    BY DEF ReadConfig, configs
  <2>3. (run.faulty \/ ~Loads(path)) \in BOOLEAN
    OBVIOUS
  <2>4. run.todo \ {path} \in SUBSET Paths
    BY <1>1 DEF Run
  <2> HIDE DEF Loads
  <2> QED
    BY <1>1, <2>1, <2>2, <2>3, <2>4 DEF Run
<1>6. RunInv'
  <2>1. run'.todo \subseteq run'.listed
    BY <1>1, <1>3 DEF RunInv
  <2>2. \A c \in run'.configs : c.path \in run'.listed \ run'.todo
    BY <1>1, <1>3 DEF RunInv
  <2>3. ~run'.faulty =>
           \A at \in run'.listed \ run'.todo : \E c \in run'.configs : c.path = at
    <3> SUFFICES ASSUME ~run'.faulty, NEW at \in run'.listed \ run'.todo
                 PROVE  \E c \in run'.configs : c.path = at
      OBVIOUS
    <3>1. ~run.faulty /\ Loads(path)
      BY <1>4
    <3>2. run'.configs = run.configs \cup {new} /\ new.path = path
      BY <1>3, <3>1
    <3>3. at = path \/ at \in run.listed \ run.todo
      BY <1>3
    <3> HIDE DEF new
    <3> QED
      BY <1>1, <3>1, <3>2, <3>3 DEF RunInv
  <2>4. \A c, d \in run'.configs : c.path = d.path => c = d
    BY <1>1, <1>3 DEF RunInv
  <2> QED
    BY <1>3, <2>1, <2>2, <2>3, <2>4 DEF RunInv
<1> QED
  BY <1>5, <1>6, RunStep DEF ReadConfig

\* Workers start only when all files are read and none was at fault.
LEMMA StartWorkersStep ==
    ASSUME IInv, StartWorkers
    PROVE  IInv'
<1>1. run \in Run /\ run.pc = "loading" /\ run.todo = {} /\ RunInv
  BY DEF StartWorkers, IInv, FilesTypeOK
<1>2. CASE ~run.faulty /\ Distinct(run.configs)
  <2>1. run' = [run EXCEPT !.pc = "started"]
    BY <1>2 DEF StartWorkers
  <2>2. /\ run' \in Run /\ run'.pc = "started" /\ run'.listed = run.listed
        /\ run'.todo = run.todo /\ run'.configs = run.configs
    BY <1>1, <2>1 DEF Run
  <2>3. run'.faulty = run.faulty
    BY <1>1, <2>1 DEF Run
  <2>4. RunInv'
    BY <1>1, <1>2, <2>2, <2>3 DEF RunInv, Distinct
  <2> QED
    BY <2>2, <2>4, RunStep DEF StartWorkers
<1>3. CASE ~(~run.faulty /\ Distinct(run.configs))
  BY <1>3, StoppedInv, RunStep DEF StartWorkers
<1> QED
  BY <1>2, <1>3

\* Whoever had the file, or was to have it, loses it.
LEMMA RemoveFileStep ==
    ASSUME IInv, NEW path \in Paths, RemoveFile(path)
    PROVE  IInv'
<1>1. FilesTypeOK'
  BY DEF RemoveFile, IInv, FilesTypeOK
<1>2. ASSUME NEW p \in Processes
      PROVE  RegInv(p)'
  <2>1. CASE reg[p].path = path
    BY <2>1 DEF RemoveFile, IInv, RegsInv, RegInv
  <2>2. CASE reg[p].path # path
    <3>1. file'[reg[p].path] = file[reg[p].path] \/ reg[p].path \notin Paths
      BY <2>2 DEF RemoveFile, IInv, FilesTypeOK
    <3>2. p \notin removed' => p \notin removed
      BY DEF RemoveFile
    <3> QED
      BY <3>1, <3>2 DEF RemoveFile, IInv, RegsInv, RegInv, IdentityOf, RegisteringPCs
  <2> QED
    BY <2>1, <2>2
<1>3. RunInv'
  BY DEF RemoveFile, IInv, RunInv, Distinct
<1> QED
  BY <1>1, <1>2, <1>3 DEF IInv, RegsInv

\* Every step of the program keeps the inductive invariant.
LEMMA NextIInv == IInv /\ [FilesNext]_filesVars => IInv'
<1> SUFFICES ASSUME IInv, [FilesNext]_filesVars
             PROVE  IInv'
  OBVIOUS
<1>1. CASE \E p \in Processes : Register(p)
  BY <1>1, RegisterStep
<1>2. CASE LoadConfigsFromDir
  <2>1. {path \in Paths : file[path] # Nil} \in SUBSET Paths
    OBVIOUS
  <2> QED
    BY <1>2, <2>1, LoadStep DEF LoadConfigsFromDir
<1>3. ASSUME NEW path \in Paths, LoadConfigFromPath(path)
      PROVE  IInv'
  <2>1. {path} \in SUBSET Paths
    OBVIOUS
  <2> QED
    BY <1>3, <2>1, LoadStep DEF LoadConfigFromPath
<1>4. ASSUME NEW path \in Paths, ReadConfig(path)
      PROVE  IInv'
  BY <1>4, ReadConfigStep
<1>5. CASE StartWorkers
  BY <1>5, StartWorkersStep
<1>6. CASE StopRun
  BY <1>6, StoppedInv, RunStep DEF StopRun
<1>7. ASSUME NEW path \in Paths, RemoveFile(path)
      PROVE  IInv'
  BY <1>7, RemoveFileStep
<1>8. ASSUME NEW s \in Servers, DeleteAgent(s)
      PROVE  IInv'
  <2>1. FilesTypeOK'
    BY <1>8, MaxAgentsAssumption DEF DeleteAgent, IInv, FilesTypeOK
  <2> QED
    BY <1>8, <2>1 DEF DeleteAgent, IInv, RegsInv, RegInv, IdentityOf, RunInv, Distinct
<1>9. CASE UNCHANGED filesVars
  BY <1>9 DEF filesVars, IInv, FilesTypeOK, RegsInv, RegInv, IdentityOf, RunInv, Distinct
<1> QED
  BY <1>1, <1>2, <1>3, <1>4, <1>5, <1>6, <1>7, <1>8, <1>9 DEF FilesNext

\* No step of a registration, of a start of the agent, or of whoever removes
\* files breaks the inductive invariant.
THEOREM Invariance == FilesSpec => []IInv
BY InitIInv, NextIInv, PTL DEF FilesSpec

-----------------------------------------------------------------------------
(* What `agent register` and `agent run` promise about the files.          *)

\* The state of files, registrations and the run is well-formed.
THEOREM TypeCorrect == FilesSpec => []FilesTypeOK
BY Invariance, PTL DEF IInv

\* What a successful `agent register` wrote is on disk and whole, whatever
\* other registrations do, until somebody removes it.
THEOREM RegisteredStoredHolds == FilesSpec => []RegisteredStored
<1>1. IInv => RegisteredStored
  BY DEF IInv, RegsInv, RegInv, RegisteredStored, IdentityOf
<1> QED
  BY <1>1, Invariance, PTL

\* Distinct identities, one configuration per file: as many workers as files.
LEMMA IInvAllOrNone ==
    ASSUME IInv, run.pc = "started"
    PROVE  /\ {c.path : c \in run.configs} = run.listed
           /\ Cardinality({c.id : c \in run.configs}) = Cardinality(run.listed)
<1> DEFINE listed == run.listed
           ids    == {c.id : c \in run.configs}
           At(path) == CHOOSE c \in run.configs : c.path = path
           f == [path \in listed |-> At(path).id]
<1>1. /\ \A c \in run.configs : c.path \in listed
      /\ \A path \in listed : \E c \in run.configs : c.path = path
      /\ \A c, d \in run.configs : c.path = d.path => c = d
      /\ \A c, d \in run.configs : c.id = d.id => c = d
  BY DEF IInv, RunInv, Distinct
<1>2. \A path \in listed : At(path) \in run.configs /\ At(path).path = path
  BY <1>1
<1>3. \A c \in run.configs : At(c.path) = c
  BY <1>1, <1>2
<1> HIDE DEF At
<1>4. f \in [listed -> ids]
  BY <1>2
<1>5. \A a, b \in listed : f[a] = f[b] => a = b
  BY <1>1, <1>2
<1>6. \A id \in ids : \E path \in listed : f[path] = id
  BY <1>1, <1>3
<1> HIDE DEF f
<1>7. f \in Bijection(listed, ids)
  BY <1>4, <1>5, <1>6, Fun_IsBij
<1>8. IsFiniteSet(listed)
  <2>1. listed \in SUBSET Paths
    BY DEF IInv, FilesTypeOK, Run
  <2> QED
    BY <2>1, PathsAssumption, FS_Subset
<1>9. Cardinality(ids) = Cardinality(listed)
  BY <1>7, <1>8, FS_Bijection DEF ExistsBijection
<1> QED
  BY <1>1, <1>9

\* A run that has started has one worker for each file it found, and no two
\* workers have the same identity: files that came, changed or went while it
\* was reading do not make it start with some of the servers only.
THEOREM AllOrNoneHolds == FilesSpec => []AllOrNone
<1>1. IInv => AllOrNone
  BY IInvAllOrNone DEF AllOrNone
<1> QED
  BY <1>1, Invariance, PTL

-----------------------------------------------------------------------------
(* The process that runs the workers.                                      *)

\* A result is sent by a worker that has ended, a worker returns only when
\* the context is done, and the runtime returns with the results of all: with
\* an error if the context was not done then.
ProcessInv ==
    /\ TypeOK
    /\ \A i \in results \cup received : worker[i] \in EndPCs
    /\ \A i \in Instances : worker[i] = "returned" => cancelled
    /\ runtime \in {"nil", "error"} => received = Instances
    /\ runtime = "error" => \A i \in Instances : worker[i] # "returned"

\* At first every worker is in its loop and no result has been sent.
LEMMA InitProcessInv == Init => ProcessInv
<1> SUFFICES ASSUME Init
             PROVE  ProcessInv
  OBVIOUS
<1>1. TypeOK
  <2>1. /\ version \in [Instances -> 1 .. MaxVersion]
        /\ served \in [Instances -> 1 .. MaxVersion]
    BY VersionAssumption DEF Init
  <2>2. worker \in [Instances -> LoopPCs \cup EndPCs]
    BY DEF Init, LoopPCs
  <2>3. ticks \in [Instances -> SUBSET Tickers]
    BY DEF Init
  <2>4. cancelled \in BOOLEAN
    BY DEF Init
  <2> QED
    BY <2>1, <2>2, <2>3, <2>4 DEF Init, TypeOK
<1>2. results \cup received = {} /\ runtime = "waiting"
  BY DEF Init
<1>3. \A i \in Instances : worker[i] = "select"
  BY DEF Init
<1> QED
  BY <1>1, <1>2, <1>3 DEF ProcessInv

\* A worker that has ended stays as it is.
LEMMA WorkerGoesOn ==
    ASSUME ProcessInv, NEW i \in Instances,
           NEW pc \in LoopPCs \cup EndPCs,
           Goto(i, pc), worker[i] \notin EndPCs,
           pc = "returned" => cancelled,
           ticks' \in [Instances -> SUBSET Tickers],
           UNCHANGED <<cancelled, runtime, results, received, version, served>>
    PROVE  ProcessInv'
<1>1. /\ worker' \in [Instances -> LoopPCs \cup EndPCs]
      /\ worker'[i] = pc /\ \A j \in Instances \ {i} : worker'[j] = worker[j]
  BY DEF Goto, ProcessInv, TypeOK
<1>2. i \notin results \cup received
  BY DEF ProcessInv
<1>3. TypeOK'
  BY <1>1 DEF ProcessInv, TypeOK
<1>4. \A j \in results' \cup received' : worker'[j] \in EndPCs
  BY <1>1, <1>2 DEF ProcessInv, TypeOK
<1>5. \A j \in Instances : worker'[j] = "returned" => cancelled'
  BY <1>1 DEF ProcessInv
<1>6. runtime' \notin {"nil", "error"}
  BY <1>2 DEF ProcessInv
<1> QED
  BY <1>3, <1>4, <1>5, <1>6 DEF ProcessInv, TypeOK

\* Every step of the agent process keeps its invariant.
LEMMA NextProcessInv == ProcessInv /\ [Next]_vars => ProcessInv'
<1> SUFFICES ASSUME ProcessInv, [Next]_vars
             PROVE  ProcessInv'
  OBVIOUS
<1> USE DEF LoopPCs, EndPCs, RequestPCs, Tickers
<1>1. ASSUME NEW i \in Instances, NEW ticker \in Tickers, Tick(i, ticker)
      PROVE  ProcessInv'
  BY <1>1 DEF Tick, ProcessInv, TypeOK
<1>2. ASSUME NEW i \in Instances, NEW ticker \in Tickers,
             TakeTick(i, ticker)
      PROVE  ProcessInv'
  <2>1. ticks' \in [Instances -> SUBSET Tickers]
    BY <1>2 DEF TakeTick, ProcessInv, TypeOK
  <2> QED
    BY <1>2, <2>1, WorkerGoesOn DEF TakeTick
<1>3. ASSUME NEW i \in Instances,
             \/ ReturnOnDone(i) \/ EndCollect(i)
             \/ AbortRequest(i) \/ PanicInCollect(i)
             \/ EndRequest(i)
      PROVE  ProcessInv'
  BY <1>3, WorkerGoesOn
     DEF ReturnOnDone, EndCollect, AbortRequest,
         PanicInCollect, EndRequest, ProcessInv, TypeOK
<1>4. ASSUME NEW i \in Instances, SendResult(i)
      PROVE  ProcessInv'
  BY <1>4 DEF SendResult, ProcessInv, TypeOK
<1>5. ASSUME NEW i \in Instances, ReceiveResult(i)
      PROVE  ProcessInv'
  BY <1>5 DEF ReceiveResult, ProcessInv, TypeOK
<1>6. ASSUME NEW i \in Instances, UpdateServed(i)
      PROVE  ProcessInv'
  <2>1. served' \in [Instances -> 1 .. MaxVersion]
    BY <1>6, VersionAssumption DEF UpdateServed, ProcessInv, TypeOK
  <2> QED
    BY <1>6, <2>1 DEF UpdateServed, ProcessInv, TypeOK
<1>7. CASE SeeDone
  BY <1>7 DEF SeeDone, ProcessInv, TypeOK
<1>8. CASE Return
  BY <1>8 DEF Return, Remaining, ProcessInv, TypeOK
<1>9. CASE Interrupt
  BY <1>9 DEF Interrupt, ProcessInv, TypeOK
<1>10. CASE Ended \/ UNCHANGED vars
  BY <1>10 DEF Ended, vars, ProcessInv, TypeOK
<1> QED
  BY <1>1, <1>2, <1>3, <1>4, <1>5, <1>6, <1>7, <1>8, <1>9, <1>10
     DEF Next, WorkerStep

\* The invariant holds throughout every run of the agent process.
LEMMA ProcessInvariance == Spec => []ProcessInv
<1>1. Init => ProcessInv
  BY InitProcessInv
<1>2. ProcessInv /\ [Next]_vars => ProcessInv'
  BY NextProcessInv
<1> QED
  BY <1>1, <1>2, PTL DEF Spec

\* The process and its workers are always in a state that the code knows.
THEOREM ProcessTypeCorrect == Spec => []TypeOK
<1>1. ProcessInv => TypeOK
  BY DEF ProcessInv
<1> QED
  BY <1>1, ProcessInvariance, PTL

\* The agent does not end while a worker of it still runs or has not reported.
THEOREM NoneLeftBehindHolds == Spec => []NoneLeftBehind
<1>1. ProcessInv => NoneLeftBehind
  BY DEF ProcessInv, NoneLeftBehind
<1> QED
  BY <1>1, ProcessInvariance, PTL

\* The agent fails only when a panic has ended each of its workers; one that
\* still works keeps it going.
THEOREM ErrorOnlyIfAllPanickedHolds == Spec => []ErrorOnlyIfAllPanicked
<1>1. ProcessInv => ErrorOnlyIfAllPanicked
  BY DEF ProcessInv, ErrorOnlyIfAllPanicked, EndPCs
<1> QED
  BY <1>1, ProcessInvariance, PTL

=============================================================================
