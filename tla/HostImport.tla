----------------------------- MODULE HostImport -----------------------------
(***************************************************************************)
(* Hosts and their management methods: the import of a JSON file, which    *)
(* creates hosts and methods one by one, the export, which reads one       *)
(* secret after another, the check of a method over SSH, and the forms     *)
(* that create, change and delete methods.                                 *)
(*                                                                         *)
(* Again each statement is a step, and no transaction spans two.  A secret *)
(* is a pair of keys; a password is a pair without a public half.  Left    *)
(* out: encryption, a method's name, user, port and description, which are *)
(* read and written by the statements that read and write its secret, and  *)
(* the reads of the host's edit form, which FleetRegistry has.             *)
(***************************************************************************)
EXTENDS Naturals, Sequences

CONSTANTS
    Hosts,      \* ids a new host may get
    Methods,    \* ids a new management method may get
    Addresses,  \* values of the unique column host.ip
    Keys,       \* halves of secrets
    Files,      \* the files that may be imported, sequences of entries
    Secrets,    \* the secrets that a new method may have
    Forms,      \* what the edit form of a method may have of a secret
    Requests,   \* handler goroutines; a slot is used again after its answer
    Nil         \* an absent row or value

Half   == {"public", "private"}
Form   == [Half -> Keys \cup {Nil}]
Secret == {s \in Form : s["private"] # Nil}
Blank  == [half \in Half |-> Nil]

\* valid: the entry has a name and an address; usable: its methods pass
\* validateImportedManagementMethods.  All its methods have one secret.
Entry == [address : Addresses, valid : BOOLEAN, usable : BOOLEAN,
          methods : Nat, secret : Secret]

\* item: its place among the methods of its entry; 0 if it is from the form.
Method == [host : Hosts, item : Nat, secret : Secret]

ASSUME NilAssumption ==
    Nil \notin Hosts \cup Methods \cup Addresses \cup Keys \cup Files \cup Method

ASSUME InputsAssumption ==
    /\ \A file \in Files : file \in Seq(Entry)
    /\ Secrets \subseteq Secret /\ Forms \subseteq Form

VARIABLES
    host,       \* host[h]: the address of row h, or Nil
    method,     \* method[m]: row m of host_credential, or Nil
    issued,     \* the ids already given to a row, in use or deleted
    req,        \* req[r]: where request r stands and what it has read
    wanted,     \* wanted[h]: the methods in the entry h was imported from
    gone,       \* <<h, address>>: host h has given up the address
    excused     \* hosts whose import ended before their last method, or one
                \* of whose methods was deleted

vars == <<host, method, issued, req, wanted, gone, excused>>

RunningPCs  == {"host", "method", "reread", "save", "list", "secrets",
                "credentials", "dial"}
AnsweredPCs == {"imported", "exported"}

\* todo: the entries of file still to be created.
\* host, item: what is being created.  id: the method being changed; read,
\* given: its secret as it was read and as the form has it.
\* listed: the hosts an export found; left: the methods whose secrets it has
\* still to read; unnamed: the methods that were there when it began and that
\* its answer does not name yet.  address: what a check will dial.
Request == [pc    : RunningPCs \cup AnsweredPCs \cup {"idle"},
            file  : Files \cup {Nil},
            todo  : SUBSET Nat,
            host  : Hosts \cup {Nil},
            item  : Nat,
            id    : Methods \cup {Nil},
            read  : Form,
            given : Form,
            listed  : SUBSET Hosts,
            left    : SUBSET Methods,
            unnamed : SUBSET Methods,
            address : Addresses \cup {Nil}]

Idle == [pc |-> "idle", file |-> Nil, todo |-> {}, host |-> Nil,
         item |-> 0, id |-> Nil, read |-> Blank, given |-> Blank,
         listed |-> {}, left |-> {}, unnamed |-> {}, address |-> Nil]

TypeOK ==
    /\ host \in [Hosts -> Addresses \cup {Nil}]
    /\ method \in [Methods -> Method \cup {Nil}]
    /\ issued \subseteq Hosts \cup Methods
    /\ req \in [Requests -> Request]
    /\ wanted \in [Hosts -> Nat]
    /\ gone \subseteq Hosts \X Addresses
    /\ excused \subseteq Hosts

Init ==
    /\ host = [h \in Hosts |-> Nil]
    /\ method = [m \in Methods |-> Nil]
    /\ issued = {}
    /\ req = [r \in Requests |-> Idle]
    /\ wanted = [h \in Hosts |-> 0]
    /\ gone = {}
    /\ excused = {}

-----------------------------------------------------------------------------
(* The statements the repositories run, with the constraints they meet.    *)

\* host.ip is unique.
AddressFree(address) == \A h \in Hosts : host[h] # address

InsertHost(h, address) ==
    /\ h \notin issued
    /\ AddressFree(address)
    /\ host' = [host EXCEPT ![h] = address]
    /\ issued' = issued \cup {h}

\* host_credential.host_id references an existing host.
MayHave(h) == host[h] # Nil

InsertMethod(m, row) ==
    /\ m \notin issued
    /\ MayHave(row.host)
    /\ method' = [method EXCEPT ![m] = row]
    /\ issued' = issued \cup {m}

\* An answer that promises nothing more frees the slot.
Answer(r) == req' = [req EXCEPT ![r] = Idle]

-----------------------------------------------------------------------------
(* POST /hosts/import: ImportHosts.                                        *)

\* Every entry has a name and an address, and the methods of those that are
\* not skipped are valid.
Accepted(file, candidates) ==
    /\ \A i \in DOMAIN file : file[i].valid
    /\ \A i \in candidates : file[i].usable

\* Fault: an address that the file has twice is skipped both times.
CandidatesOnce(file, existing) ==
    {i \in DOMAIN file :
        /\ file[i].address \notin existing
        /\ \A j \in DOMAIN file \ {i} : file[j].address # file[i].address}

\* Neither an address that is taken nor one that was earlier in the file.
Candidates(file, existing) ==
    {i \in DOMAIN file :
        /\ file[i].address \notin existing
        /\ \A j \in 1 .. i - 1 : file[j].address # file[i].address}

\* ListHosts, and all checks of the file before anything is created.
StartImport(r, file) ==
    /\ req[r].pc = "idle"
    /\ LET existing   == {host[h] : h \in Hosts}
           candidates == Candidates(file, existing)
       IN  \/ /\ Accepted(file, candidates)
              /\ req' = [req EXCEPT ![r] =
                    [Idle EXCEPT
                       !.pc   = IF candidates = {} THEN "imported" ELSE "host",
                       !.file = file, !.todo = candidates]]
           \/ /\ ~Accepted(file, candidates)
              /\ Answer(r)
    /\ UNCHANGED <<host, method, issued, wanted, gone, excused>>

First(todo) == CHOOSE i \in todo : \A j \in todo : i <= j

\* The request after entry i and all its methods have been created.
AfterEntry(q, i) ==
    [q EXCEPT !.pc   = IF q.todo = {i} THEN "imported" ELSE "host",
              !.todo = @ \ {i}, !.host = Nil, !.item = 0]

\* CreateHost.  An address taken since the hosts were listed answers 500.
ImportHost(r) ==
    /\ req[r].pc = "host"
    /\ LET i     == First(req[r].todo)
           entry == req[r].file[i]
       IN  \/ \E h \in Hosts :
                 /\ InsertHost(h, entry.address)
                 /\ wanted' = [wanted EXCEPT ![h] = entry.methods]
                 /\ req' = [req EXCEPT ![r] =
                        IF entry.methods = 0 THEN AfterEntry(@, i)
                        ELSE [@ EXCEPT !.pc = "method", !.host = h, !.item = 1]]
           \/ /\ ~AddressFree(entry.address)
              /\ Answer(r)
              /\ UNCHANGED <<host, issued, wanted>>
    /\ UNCHANGED <<method, gone, excused>>

\* Fault: a method that cannot be created is skipped.
ImportMethodOrSkip(r) ==
    /\ req[r].pc = "method"
    /\ LET i     == First(req[r].todo)
           entry == req[r].file[i]
       IN  /\ \/ \E m \in Methods :
                    InsertMethod(m, [host |-> req[r].host, item |-> req[r].item,
                                     secret |-> entry.secret])
              \/ UNCHANGED <<method, issued>>
           /\ req' = [req EXCEPT ![r] =
                 IF req[r].item = entry.methods THEN AfterEntry(req[r], i)
                 ELSE [req[r] EXCEPT !.item = @ + 1]]
    /\ UNCHANGED <<host, wanted, gone, excused>>

\* importHostManagementMethod.  A host deleted meanwhile answers 400.
ImportMethod(r) ==
    /\ req[r].pc = "method"
    /\ LET i     == First(req[r].todo)
           entry == req[r].file[i]
       IN  \/ /\ \E m \in Methods :
                    InsertMethod(m, [host |-> req[r].host, item |-> req[r].item,
                                     secret |-> entry.secret])
              /\ req' = [req EXCEPT ![r] =
                    IF req[r].item = entry.methods THEN AfterEntry(req[r], i)
                    ELSE [req[r] EXCEPT !.item = @ + 1]]
           \/ /\ ~MayHave(req[r].host)
              /\ Answer(r)
              /\ UNCHANGED <<method, issued>>
    /\ UNCHANGED <<host, wanted, gone, excused>>

-----------------------------------------------------------------------------
(* GET /hosts/export: ExportHosts.                                         *)

\* ListHosts
StartExport(r) ==
    /\ req[r].pc = "idle"
    /\ req' = [req EXCEPT ![r] =
                  [Idle EXCEPT !.pc      = "list",
                               !.listed  = {h \in Hosts : host[h] # Nil},
                               !.unnamed = {m \in Methods : method[m] # Nil}]]
    /\ UNCHANGED <<host, method, issued, wanted, gone, excused>>

SecretsLeft(q, left) ==
    [q EXCEPT !.pc     = IF left = {} THEN "exported" ELSE "secrets",
              !.listed = {}, !.left = left]

\* ListHostManagementMethodsByHostIDs
ListMethods(r) ==
    /\ req[r].pc = "list"
    /\ req' = [req EXCEPT ![r] = SecretsLeft(@, {m \in Methods :
                  method[m] # Nil /\ method[m].host \in req[r].listed})]
    /\ UNCHANGED <<host, method, issued, wanted, gone, excused>>

\* Fault: a secret that cannot be read ends the list of its host.
ExportSecretOrLeaveHost(r, m) ==
    /\ req[r].pc = "secrets" /\ m \in req[r].left
    /\ LET rest == {n \in req[r].left : method[n] = Nil \/ method[m] = Nil
                                          \/ method[n].host # method[m].host}
       IN  \E left \in {rest, req[r].left} :
              req' = [req EXCEPT ![r] = SecretsLeft([req[r] EXCEPT !.unnamed = @ \ {m}],
                                                    left \ {m})]
    /\ UNCHANGED <<host, method, issued, wanted, gone, excused>>

\* GetHostManagementMethodSecret: the method is exported with the secret; one
\* that is gone, or whose secret cannot be decrypted, is named in a warning.
ExportSecret(r, m) ==
    /\ req[r].pc = "secrets" /\ m \in req[r].left
    /\ req' = [req EXCEPT ![r] = SecretsLeft([req[r] EXCEPT !.unnamed = @ \ {m}],
                                             req[r].left \ {m})]
    /\ UNCHANGED <<host, method, issued, wanted, gone, excused>>

-----------------------------------------------------------------------------
(* TestSSHManagementMethod.                                                *)

\* GetHostByID
StartCheck(r, h) ==
    /\ req[r].pc = "idle"
    /\ host[h] # Nil
    /\ req' = [req EXCEPT ![r] = [Idle EXCEPT !.pc = "credentials", !.host = h,
                                              !.address = host[h]]]
    /\ UNCHANGED <<host, method, issued, wanted, gone, excused>>

\* Fault: the method may be another host's.
ReadAnyCredentials(r, m) ==
    /\ req[r].pc = "credentials"
    /\ req' = [req EXCEPT ![r] =
                  IF method[m] # Nil THEN [@ EXCEPT !.pc = "dial", !.id = m]
                  ELSE Idle]
    /\ UNCHANGED <<host, method, issued, wanted, gone, excused>>

\* GetHostManagementMethodByID, for the method m that the URL names.
ReadCredentials(r, m) ==
    /\ req[r].pc = "credentials"
    /\ req' = [req EXCEPT ![r] =
                  IF method[m] # Nil /\ method[m].host = req[r].host
                  THEN [@ EXCEPT !.pc = "dial", !.id = m]
                  ELSE Idle]
    /\ UNCHANGED <<host, method, issued, wanted, gone, excused>>

\* Checker.Check dials and shakes hands; whatever comes of it is a status in
\* the answer, and nothing is stored.
EndCheck(r) ==
    /\ req[r].pc = "dial"
    /\ Answer(r)
    /\ UNCHANGED <<host, method, issued, wanted, gone, excused>>

-----------------------------------------------------------------------------
(* The forms of a host and of its management methods.                      *)

CreateHost(h, address) ==
    /\ InsertHost(h, address)
    /\ UNCHANGED <<method, req, wanted, gone, excused>>

EditHost(h, address) ==
    /\ host[h] # Nil
    /\ AddressFree(address)
    /\ host' = [host EXCEPT ![h] = address]
    /\ gone' = gone \cup {<<h, host[h]>>}
    /\ UNCHANGED <<method, issued, req, wanted, excused>>

\* The host's methods go with it: ON DELETE CASCADE.
DeleteHost(h) ==
    /\ host[h] # Nil
    /\ host' = [host EXCEPT ![h] = Nil]
    /\ method' = [m \in Methods |->
                     IF method[m] # Nil /\ method[m].host = h THEN Nil ELSE method[m]]
    /\ gone' = gone \cup {<<h, host[h]>>}
    /\ wanted' = [wanted EXCEPT ![h] = 0]
    /\ excused' = excused \ {h}
    /\ UNCHANGED <<issued, req>>

CreateMethod(m, h, secret) ==
    /\ InsertMethod(m, [host |-> h, item |-> 0, secret |-> secret])
    /\ UNCHANGED <<host, req, wanted, gone, excused>>

DeleteMethod(m) ==
    /\ method[m] # Nil
    /\ method' = [method EXCEPT ![m] = Nil]
    /\ excused' = excused \cup {method[m].host}
    /\ UNCHANGED <<host, issued, req, wanted, gone>>

\* UpdateHostManagementMethod reads the row.  A form that has a half of a
\* key pair, but perhaps not the other, has the row read once more.
StartUpdate(r, m, given) ==
    /\ req[r].pc = "idle"
    /\ method[m] # Nil
    /\ LET secret == method[m].secret
       IN  req' = [req EXCEPT ![r] =
              [Idle EXCEPT
                 !.pc = IF secret["public"] # Nil /\ given # Blank
                        THEN "reread" ELSE "save",
                 !.id = m, !.read = secret, !.given = given]]
    /\ UNCHANGED <<host, method, issued, wanted, gone, excused>>

\* GetHostManagementMethodSecret
RereadSecret(r) ==
    /\ req[r].pc = "reread"
    /\ req' = [req EXCEPT ![r] =
                  IF method[req[r].id] = Nil THEN Idle
                  ELSE [@ EXCEPT !.pc = "save", !.read = method[req[r].id].secret]]
    /\ UNCHANGED <<host, method, issued, wanted, gone, excused>>

\* Fault: a half that the form does not have is taken from it all the same.
CombinedAsGiven(given, read) == IF given = Blank THEN read ELSE given

\* A half the form does not have stays as it was read; a password has no
\* public half.
Combined(given, read) ==
    [half \in Half |->
        IF given[half] = Nil \/ read[half] = Nil THEN read[half] ELSE given[half]]

\* The whole row is written.
SaveMethod(r) ==
    /\ req[r].pc = "save"
    /\ LET m == req[r].id
       IN  \/ /\ method[m] # Nil
              /\ method' = [method EXCEPT ![m].secret =
                               Combined(req[r].given, req[r].read)]
              /\ Answer(r)
           \/ /\ method[m] = Nil
              /\ Answer(r)
              /\ UNCHANGED method
    /\ UNCHANGED <<host, issued, wanted, gone, excused>>

-----------------------------------------------------------------------------
\* A statement fails, the caller disconnects or the server stops: nothing is
\* undone.
AbortRequest(r) ==
    /\ req[r].pc \in RunningPCs
    /\ Answer(r)
    /\ excused' = IF req[r].pc = "method" /\ host[req[r].host] # Nil
                  THEN excused \cup {req[r].host} ELSE excused
    /\ UNCHANGED <<host, method, issued, wanted, gone>>

FinishRequest(r) ==
    /\ req[r].pc \in AnsweredPCs
    /\ req' = [req EXCEPT ![r] = Idle]
    /\ UNCHANGED <<host, method, issued, wanted, gone, excused>>

Next ==
    \/ \E r \in Requests, file \in Files : StartImport(r, file)
    \/ \E r \in Requests : ImportHost(r) \/ ImportMethod(r)
    \/ \E r \in Requests, m \in Methods, given \in Forms : StartUpdate(r, m, given)
    \/ \E r \in Requests : RereadSecret(r) \/ SaveMethod(r)
    \/ \E r \in Requests : StartExport(r) \/ ListMethods(r) \/ EndCheck(r)
    \/ \E r \in Requests, m \in Methods : ExportSecret(r, m) \/ ReadCredentials(r, m)
    \/ \E r \in Requests, h \in Hosts : StartCheck(r, h)
    \/ \E r \in Requests : AbortRequest(r) \/ FinishRequest(r)
    \/ \E h \in Hosts, address \in Addresses : CreateHost(h, address) \/ EditHost(h, address)
    \/ \E h \in Hosts : DeleteHost(h)
    \/ \E m \in Methods, h \in Hosts, secret \in Secrets : CreateMethod(m, h, secret)
    \/ \E m \in Methods : DeleteMethod(m)

Spec == Init /\ [][Next]_vars

-----------------------------------------------------------------------------
(* Properties.                                                             *)

Items(h) == {method[m].item : m \in {n \in Methods : method[n] # Nil /\ method[n].host = h}}

\* An import that was answered 303 has left no address of its file behind: a
\* host has it, or one had it and was deleted or edited.
ImportedStored ==
    \A r \in Requests : req[r].pc = "imported" =>
        \A i \in DOMAIN req[r].file :
            \E h \in Hosts : \/ host[h] = req[r].file[i].address
                             \/ <<h, req[r].file[i].address>> \in gone

BeingImported(h) ==
    \E r \in Requests : req[r].pc = "method" /\ req[r].host = h

\* A host that lacks methods of its entry is being imported, has had a
\* method deleted, or its import was cut off: an import that was answered
\* 303 has stored its hosts whole.  A second import does not complete the
\* host: it skips it.
WholeUnlessCutOff ==
    \A h \in Hosts :
        host[h] # Nil /\ ~(1 .. wanted[h] \subseteq Items(h))
            => BeingImported(h) \/ h \in excused

\* An export that was answered names, with its secret or in a warning, every
\* method that was there when it began and has not been deleted, whichever
\* others were created, changed and deleted while it read one secret after
\* another.
ExportWhole ==
    \A r \in Requests : req[r].pc = "exported" =>
        \A m \in req[r].unnamed : method[m] = Nil

\* A check offers the credentials of a host to no address but one which that
\* host has or had: the address is read before the credentials, and may be
\* another host's by then.
CredentialsOfHost ==
    \A r \in Requests :
        LET h == req[r].host
            m == req[r].id
        IN  req[r].pc = "dial" /\ method[m] # Nil
               => /\ method[m].host = h
                  /\ host[h] = req[r].address \/ <<h, req[r].address>> \in gone

\* Update r writes this half of m: its form has a new one, or it read the old
\* one before another update changed it.
HalfGiven(r, m, half) ==
    /\ req[r].pc = "save" /\ req'[r] = Idle
    /\ req[r].id = m
    /\ req[r].given[half] # Nil \/ req[r].read[half] # method[m].secret[half]

\* UpdateHostManagementMethod changes a half of a secret only if the form has a
\* new one, or by writing back what an overlapping update has replaced.
SecretKept ==
    [][\A m \in Methods, half \in Half :
          /\ method[m] # Nil /\ method'[m] # Nil
          /\ method'[m].secret[half] # method[m].secret[half]
          => \E r \in Requests : HalfGiven(r, m, half)]_vars
=============================================================================
