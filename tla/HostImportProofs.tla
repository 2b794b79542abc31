-------------------------- MODULE HostImportProofs --------------------------
(***************************************************************************)
(* Theorems about HostImport, for any number of hosts, methods and         *)
(* requests, any files and any secrets.                                    *)
(***************************************************************************)
EXTENDS HostImport, WellFoundedInduction, TLAPS

\* What is there has been issued, so that an id is never given twice.
IssuedInv ==
    /\ \A h \in Hosts : host[h] # Nil \/ wanted[h] # 0 => h \in issued
    /\ \A m \in Methods : method[m] # Nil => m \in issued

\* host_credential.host_id references an existing host.
NoOrphans == \A m \in Methods : method[m] # Nil => host[method[m].host] # Nil

\* Host h has the address, or had it.
Held(h, address) == host[h] = address \/ <<h, address>> \in gone

Covered(address) == \E h \in Hosts : Held(h, address)

ImportPCs == {"host", "method"}

\* The entry that an import creates next.
Current(q) == q.file[First(q.todo)]

\* A request has the locals that its next statement uses.
Locals(q) ==
    /\ q.pc \in ImportPCs \cup {"imported"} =>
          /\ q.file \in Files
          /\ q.todo \subseteq DOMAIN q.file
          /\ q.todo = {} <=> q.pc = "imported"
    /\ q.pc \in {"method", "credentials", "dial"} =>
          q.host \in Hosts /\ q.host \in issued
    /\ q.pc \in {"credentials", "dial"} => q.address \in Addresses
    /\ q.pc \in {"reread", "save", "dial"} => q.id \in Methods /\ q.id \in issued
    /\ q.pc \in {"reread", "save"} => q.read \in Secret

\* Every address of the file is covered, or that of an entry still to be
\* created: an entry is not a candidate only if its address was taken or is
\* that of an earlier one.
AddressesCovered(q) ==
    q.pc \in ImportPCs \cup {"imported"} =>
        \A i \in DOMAIN q.file :
            \/ Covered(q.file[i].address)
            \/ \E j \in q.todo : q.file[j].address = q.file[i].address

\* An import that creates methods has stored all before the next one, unless
\* the host was deleted or one of its methods was.
MethodsStored(q) ==
    q.pc = "method" =>
        /\ Covered(Current(q).address)
        /\ q.item \in 1 .. Current(q).methods
        /\ host[q.host] # Nil =>
              /\ wanted[q.host] = Current(q).methods
              /\ 1 .. q.item - 1 \subseteq Items(q.host) \/ q.host \in excused

\* A method that an export has still to name will be listed, or is listed.
WillBeNamed(q) ==
    /\ q.unnamed \subseteq issued
    /\ \A m \in q.unnamed : method[m] # Nil =>
          /\ q.pc = "list" => method[m].host \in q.listed
          /\ q.pc = "secrets" => m \in q.left
          /\ q.pc # "exported"

\* A check dials an address of its host, with credentials of its host.
ChecksHost(q) ==
    /\ q.pc \in {"credentials", "dial"} => Held(q.host, q.address)
    /\ q.pc = "dial" /\ method[q.id] # Nil => method[q.id].host = q.host

RequestInv(q) ==
    /\ Locals(q)
    /\ AddressesCovered(q)
    /\ MethodsStored(q)
    /\ WillBeNamed(q)
    /\ ChecksHost(q)

RequestsInv == \A r \in Requests : RequestInv(req[r])

IInv ==
    /\ TypeOK
    /\ IssuedInv
    /\ NoOrphans
    /\ WholeUnlessCutOff
    /\ RequestsInv

-----------------------------------------------------------------------------
\* A set of entries that is not empty has a first one.
LEMMA LeastElement ==
    ASSUME NEW T \in SUBSET Nat, T # {}
    PROVE  \E i \in T : \A j \in T : i <= j
<1> DEFINE R == OpToRel(<, Nat)
<1>1. \E i \in T : \A j \in T : <<j, i>> \notin R
  <2>1. IsWellFoundedOn(R, Nat)
    BY NatLessThanWellFounded
  <2> HIDE DEF R
  <2> QED
    BY <2>1, WFMin
<1>2. \A i, j \in Nat : <<j, i>> \notin R => i <= j
  BY DEF OpToRel
<1> QED
  BY <1>1, <1>2

\* The entry that an import creates next is one of those left.
LEMMA FirstIsIn ==
    ASSUME NEW todo \in SUBSET Nat, todo # {}
    PROVE  First(todo) \in todo
BY LeastElement DEF First

\* A row is told from an absent one.
LEMMA RowIsNotNil == \A row \in Method : row # Nil
BY NilAssumption

\* A slot that is free is well typed.
LEMMA IdleType == Idle \in Request
<1>1. Blank \in Form
  BY DEF Blank, Form
<1> QED
  BY <1>1 DEF Idle, Request

\* A request that has ended makes no claim.
LEMMA IdleInv == RequestInv(Idle)
<1>1. Idle.pc = "idle" /\ Idle.unnamed = {}
  BY DEF Idle
<1> QED
  BY <1>1 DEF RequestInv, Locals, AddressesCovered, MethodsStored, WillBeNamed,
              ChecksHost, ImportPCs

\* The entries of a file are numbered and well typed.
LEMMA FileType ==
    ASSUME NEW file \in Files
    PROVE  /\ DOMAIN file \subseteq Nat
           /\ \A i \in DOMAIN file : file[i] \in Entry
BY InputsAssumption

\* There is nothing at first.
LEMMA InitIInv == Init => IInv
<1> SUFFICES ASSUME Init
             PROVE  IInv
  OBVIOUS
<1>1. TypeOK
  BY IdleType DEF Init, TypeOK
<1>2. IssuedInv /\ NoOrphans /\ WholeUnlessCutOff
  BY DEF Init, IssuedInv, NoOrphans, WholeUnlessCutOff
<1>3. RequestsInv
  BY IdleInv DEF Init, RequestsInv
<1> QED
  BY <1>1, <1>2, <1>3 DEF IInv

-----------------------------------------------------------------------------
(* What any step leaves of the tables, as far as requests rely on it.      *)

Evolves ==
    /\ issued \subseteq issued'
    /\ \A h \in Hosts, address \in Addresses : Held(h, address) => Held(h, address)'
    /\ \A m \in Methods : m \in issued /\ method'[m] # Nil =>
          method[m] # Nil /\ method'[m].host = method[m].host
    /\ \A h \in Hosts : h \in issued /\ host'[h] # Nil =>
          /\ host[h] # Nil /\ wanted'[h] = wanted[h]
          /\ h \in excused' \/ (h \notin excused /\ Items(h) \subseteq Items(h)')

\* An address once had is had by somebody, or was, from then on.
LEMMA CoveredKept ==
    ASSUME Evolves, NEW address \in Addresses, Covered(address)
    PROVE  Covered(address)'
BY DEF Evolves, Covered

\* A request that does not move keeps its claims while the tables evolve.
LEMMA RequestKept ==
    ASSUME IInv, Evolves, NEW r \in Requests, req'[r] = req[r]
    PROVE  RequestInv(req[r])'
<1> DEFINE q == req[r]
<1>1. q \in Request /\ RequestInv(q)
  BY DEF IInv, TypeOK, RequestsInv
<1>2. Locals(q)'
  BY <1>1 DEF RequestInv, Locals, Evolves
<1>3. q.pc \in ImportPCs \cup {"imported"} =>
         \A i \in DOMAIN q.file : q.file[i].address \in Addresses
  BY <1>1, FileType DEF RequestInv, Locals, Entry
<1>4. AddressesCovered(q)'
  BY <1>1, <1>3, CoveredKept DEF RequestInv, AddressesCovered
<1>5. MethodsStored(q)'
  <2> SUFFICES ASSUME q.pc = "method"
               PROVE  MethodsStored(q)'
    BY DEF MethodsStored
  <2>1. q.todo # {} /\ q.file \in Files /\ q.todo \subseteq DOMAIN q.file
    BY <1>1 DEF RequestInv, Locals, ImportPCs
  <2>2. First(q.todo) \in DOMAIN q.file
    BY <2>1, FileType, FirstIsIn
  <2>3. Covered(Current(q).address)'
    BY <1>1, <1>3, <2>2, CoveredKept DEF RequestInv, MethodsStored, Current, ImportPCs
  <2>4. q.host \in Hosts /\ q.host \in issued
    BY <1>1 DEF RequestInv, Locals
  <2> QED
    BY <1>1, <2>3, <2>4 DEF RequestInv, MethodsStored, Current, Evolves
<1>6. WillBeNamed(q)'
  BY <1>1 DEF RequestInv, WillBeNamed, Request, Evolves
<1>7. ChecksHost(q)'
  <2>1. q.pc \in {"credentials", "dial"} =>
           q.address \in Addresses
    BY <1>1 DEF RequestInv, Locals
  <2> QED
    BY <1>1, <2>1 DEF RequestInv, ChecksHost, Locals, Evolves
<1> QED
  BY <1>2, <1>4, <1>5, <1>6, <1>7 DEF RequestInv

\* Host h, if it is not whole, is being imported or excused.
Whole(h) ==
    host[h] # Nil /\ ~(1 .. wanted[h] \subseteq Items(h))
        => BeingImported(h) \/ h \in excused

\* What is left to show of a step by which the tables evolve.
LEMMA EvolvingStep ==
    ASSUME IInv, Evolves, TypeOK', IssuedInv', NoOrphans',
           \A h \in Hosts \ issued : Whole(h)',
           \A r \in Requests :
              req'[r] # req[r] =>
                /\ RequestInv(req[r])'
                /\ \A h \in Hosts : req[r].pc = "method" /\ req[r].host = h => Whole(h)'
    PROVE  IInv'
<1>1. RequestsInv'
  BY RequestKept DEF RequestsInv
<1>2. WholeUnlessCutOff'
  <2> SUFFICES ASSUME NEW h \in Hosts
               PROVE  Whole(h)'
    BY DEF WholeUnlessCutOff, Whole
  <2>1. CASE h \in issued
    <3> SUFFICES ASSUME (host[h] # Nil /\ ~(1 .. wanted[h] \subseteq Items(h)))',
                        h \notin excused'
                 PROVE  BeingImported(h)'
      BY DEF Whole
    <3>1. /\ host[h] # Nil /\ ~(1 .. wanted[h] \subseteq Items(h))
          /\ h \notin excused
      BY <2>1 DEF Evolves
    <3>2. PICK r \in Requests : req[r].pc = "method" /\ req[r].host = h
      BY <3>1 DEF IInv, WholeUnlessCutOff, BeingImported
    <3>3. CASE req'[r] = req[r]
      BY <3>2, <3>3 DEF BeingImported
    <3>4. CASE req'[r] # req[r]
      BY <3>2, <3>4 DEF Whole
    <3> QED
      BY <3>3, <3>4
  <2> QED
    BY <2>1
<1> QED
  BY <1>1, <1>2 DEF IInv

-----------------------------------------------------------------------------
(* Steps of one request that change no table.                              *)

LEMMA RequestStep ==
    ASSUME IInv, NEW r \in Requests, NEW q \in Request,
           req' = [req EXCEPT ![r] = q],
           UNCHANGED <<host, method, issued, wanted, gone, excused>>,
           RequestInv(q),
           req[r].pc = "method" => host[req[r].host] = Nil
    PROVE  IInv'
<1>1. \A s \in Requests : req'[s] = IF s = r THEN q ELSE req[s]
  BY DEF IInv, TypeOK
<1>2. TypeOK'
  BY DEF IInv, TypeOK
<1>3. IssuedInv' /\ NoOrphans'
  BY DEF IInv, IssuedInv, NoOrphans
<1>4. \A h \in Hosts : Items(h)' = Items(h)
  BY DEF Items
<1>5. RequestsInv'
  <2> SUFFICES ASSUME NEW s \in Requests
               PROVE  RequestInv(req[s])'
    BY DEF RequestsInv
  <2>1. RequestInv(req'[s])
    BY <1>1 DEF IInv, RequestsInv
  <2> QED
    BY <2>1 DEF RequestInv, Locals, AddressesCovered, MethodsStored, WillBeNamed,
                ChecksHost, Covered, Held, Current, Items
<1>6. WholeUnlessCutOff'
  BY <1>1, <1>4 DEF IInv, WholeUnlessCutOff, BeingImported
<1> QED
  BY <1>2, <1>3, <1>5, <1>6 DEF IInv

\* A request is answered without a change of the tables.
LEMMA AnswerStep ==
    ASSUME IInv, NEW r \in Requests, Answer(r),
           UNCHANGED <<host, method, issued, wanted, gone, excused>>,
           req[r].pc = "method" => host[req[r].host] = Nil
    PROVE  IInv'
BY RequestStep, IdleType, IdleInv DEF Answer

\* Every entry is a candidate, or its address is taken or that of an earlier one.
LEMMA StartImportStep ==
    ASSUME IInv, NEW r \in Requests, NEW file \in Files, StartImport(r, file)
    PROVE  IInv'
<1> DEFINE existing   == {host[h] : h \in Hosts}
           candidates == Candidates(file, existing)
           q == [Idle EXCEPT !.pc   = IF candidates = {} THEN "imported" ELSE "host",
                             !.file = file, !.todo = candidates]
<1>1. /\ req[r].pc = "idle"
      /\ UNCHANGED <<host, method, issued, wanted, gone, excused>>
  BY DEF StartImport
<1>2. CASE req' = [req EXCEPT ![r] = q]
  <2>1. candidates \subseteq DOMAIN file /\ DOMAIN file \subseteq Nat
    BY FileType DEF Candidates
  <2>2. q \in Request
    BY <2>1, IdleType DEF Request, RunningPCs, AnsweredPCs
  <2>3. \A i \in DOMAIN file :
           \/ Covered(file[i].address)
           \/ \E j \in candidates : file[j].address = file[i].address
    <3> SUFFICES ASSUME NEW i \in DOMAIN file, file[i].address \notin existing
                 PROVE  \E j \in candidates : file[j].address = file[i].address
      BY DEF Covered, Held
    <3> DEFINE same == {j \in DOMAIN file : file[j].address = file[i].address}
    <3>1. PICK j \in same : \A k \in same : j <= k
      <4>1. same \in SUBSET Nat /\ same # {}
        BY <2>1
      <4> HIDE DEF same
      <4> QED
        BY <4>1, LeastElement
    <3>2. j \in DOMAIN file /\ file[j].address = file[i].address /\ j \in Nat
      BY <2>1
    <3>3. \A k \in 1 .. j - 1 : file[k].address # file[j].address
      <4> SUFFICES ASSUME NEW k \in 1 .. j - 1, file[k].address = file[j].address
                   PROVE  FALSE
        OBVIOUS
      <4>1. k \in DOMAIN file
        <5>1. DOMAIN file = 1 .. Len(file) /\ Len(file) \in Nat
          BY InputsAssumption
        <5> QED
          BY <3>2, <5>1
      <4>2. j <= k
        BY <3>1, <3>2, <4>1
      <4> QED
        BY <3>2, <4>2
    <3> QED
      BY <3>2, <3>3 DEF Candidates
  <2> HIDE DEF candidates
  <2>4. /\ q.pc = (IF candidates = {} THEN "imported" ELSE "host")
        /\ q.file = file /\ q.todo = candidates /\ q.unnamed = {}
    BY DEF Idle
  <2> HIDE DEF q
  <2>5. RequestInv(q)
    BY <2>1, <2>3, <2>4 DEF RequestInv, Locals, AddressesCovered, MethodsStored,
                            WillBeNamed, ChecksHost, ImportPCs
  <2> QED
    BY <1>1, <1>2, <2>2, <2>5, RequestStep
<1>3. CASE Answer(r)
  BY <1>1, <1>3, AnswerStep
<1> QED
  BY <1>2, <1>3 DEF StartImport

\* The hosts listed are all there are, and so have all the methods.
LEMMA StartExportStep ==
    ASSUME IInv, NEW r \in Requests, StartExport(r)
    PROVE  IInv'
<1> DEFINE q == [Idle EXCEPT !.pc      = "list",
                             !.listed  = {h \in Hosts : host[h] # Nil},
                             !.unnamed = {m \in Methods : method[m] # Nil}]
<1>1. /\ req[r].pc = "idle" /\ req' = [req EXCEPT ![r] = q]
      /\ UNCHANGED <<host, method, issued, wanted, gone, excused>>
  BY DEF StartExport
<1>2. q \in Request
  BY IdleType DEF Request, RunningPCs
<1>3. /\ q.pc = "list" /\ q.listed = {h \in Hosts : host[h] # Nil}
      /\ q.unnamed = {m \in Methods : method[m] # Nil}
  BY DEF Idle
<1>4. WillBeNamed(q)
  BY <1>3 DEF IInv, TypeOK, Method, IssuedInv, NoOrphans, WillBeNamed
<1> HIDE DEF q
<1>5. RequestInv(q)
  BY <1>3, <1>4 DEF RequestInv, Locals, AddressesCovered, MethodsStored, ChecksHost, ImportPCs
<1> QED
  BY <1>1, <1>2, <1>5, RequestStep

\* The export goes on with the secrets of left.
LEMMA SecretsLeftStep ==
    ASSUME IInv, NEW r \in Requests, NEW q \in Request, NEW left \in SUBSET Methods,
           req[r].pc \in {"list", "secrets"},
           q.unnamed \subseteq issued,
           \A m \in q.unnamed : method[m] # Nil => m \in left,
           req' = [req EXCEPT ![r] = SecretsLeft(q, left)],
           UNCHANGED <<host, method, issued, wanted, gone, excused>>
    PROVE  IInv'
<1> DEFINE p == SecretsLeft(q, left)
<1>1. p \in Request
  BY DEF SecretsLeft, Request, RunningPCs, AnsweredPCs
<1>2. /\ p.pc = (IF left = {} THEN "exported" ELSE "secrets")
      /\ p.left = left /\ p.unnamed = q.unnamed
  BY DEF SecretsLeft, Request
<1> HIDE DEF p
<1>3. RequestInv(p)
  BY <1>2 DEF RequestInv, Locals, AddressesCovered, MethodsStored, WillBeNamed,
              ChecksHost, ImportPCs
<1> QED
  BY <1>1, <1>3, RequestStep DEF p

\* Methods still there are listed with their hosts.
LEMMA ListMethodsStep ==
    ASSUME IInv, NEW r \in Requests, ListMethods(r)
    PROVE  IInv'
<1>1. req[r] \in Request /\ WillBeNamed(req[r]) /\ req[r].pc = "list"
  BY DEF ListMethods, IInv, TypeOK, RequestsInv, RequestInv
<1>2. req[r].unnamed \subseteq Methods
  BY <1>1 DEF Request
<1> QED
  BY <1>1, <1>2, SecretsLeftStep DEF ListMethods, WillBeNamed

\* A method that leaves the list has been named in the answer.
LEMMA ExportSecretStep ==
    ASSUME IInv, NEW r \in Requests, NEW m \in Methods, ExportSecret(r, m)
    PROVE  IInv'
<1> DEFINE q    == [req[r] EXCEPT !.unnamed = @ \ {m}]
           left == req[r].left \ {m}
<1>1. req[r] \in Request /\ WillBeNamed(req[r]) /\ req[r].pc = "secrets"
  BY DEF ExportSecret, IInv, TypeOK, RequestsInv, RequestInv
<1>2. q \in Request /\ q.unnamed = req[r].unnamed \ {m} /\ req[r].left \subseteq Methods
  BY <1>1 DEF Request
<1>3. req' = [req EXCEPT ![r] = SecretsLeft(q, left)]
  BY DEF ExportSecret
<1>4. left \in SUBSET Methods
  BY <1>2
<1>5. /\ q.unnamed \subseteq issued
      /\ \A n \in q.unnamed : method[n] # Nil => n \in left
  BY <1>1, <1>2 DEF WillBeNamed
<1>6. UNCHANGED <<host, method, issued, wanted, gone, excused>>
  BY DEF ExportSecret
<1> HIDE DEF q, left
<1> QED
  BY <1>1, <1>2, <1>3, <1>4, <1>5, <1>6, SecretsLeftStep

\* The address that will be dialled is its host's.
LEMMA StartCheckStep ==
    ASSUME IInv, NEW r \in Requests, NEW h \in Hosts, StartCheck(r, h)
    PROVE  IInv'
<1> DEFINE q == [Idle EXCEPT !.pc = "credentials", !.host = h, !.address = host[h]]
<1>1. /\ req[r].pc = "idle" /\ host[h] \in Addresses /\ h \in issued
      /\ req' = [req EXCEPT ![r] = q]
      /\ UNCHANGED <<host, method, issued, wanted, gone, excused>>
  BY DEF StartCheck, IInv, TypeOK, IssuedInv
<1>2. q \in Request
  BY <1>1, IdleType DEF Request, RunningPCs
<1>3. q.pc = "credentials" /\ q.host = h /\ q.address = host[h] /\ q.unnamed = {}
  BY DEF Idle
<1> HIDE DEF q
<1>4. RequestInv(q)
  BY <1>1, <1>3 DEF RequestInv, Locals, AddressesCovered, MethodsStored, WillBeNamed,
                    ChecksHost, Held, ImportPCs
<1> QED
  BY <1>1, <1>2, <1>4, RequestStep

\* The method read is of the host that is checked.
LEMMA ReadCredentialsStep ==
    ASSUME IInv, NEW r \in Requests, NEW m \in Methods, ReadCredentials(r, m)
    PROVE  IInv'
<1>1. /\ req[r].pc = "credentials" /\ req[r] \in Request /\ RequestInv(req[r])
      /\ UNCHANGED <<host, method, issued, wanted, gone, excused>>
  BY DEF ReadCredentials, IInv, TypeOK, RequestsInv
<1>2. CASE method[m] # Nil /\ method[m].host = req[r].host
  <2> DEFINE q == [req[r] EXCEPT !.pc = "dial", !.id = m]
  <2>1. req' = [req EXCEPT ![r] = q]
    BY <1>2 DEF ReadCredentials
  <2>2. "dial" \in RunningPCs
    BY DEF RunningPCs
  <2>3. q \in Request
    BY <1>1, <2>2 DEF Request
  <2>4. /\ q.pc = "dial" /\ q.id = m /\ q.host = req[r].host
        /\ q.address = req[r].address /\ q.unnamed = req[r].unnamed
    BY <1>1 DEF Request
  <2>5. m \in issued
    BY <1>2 DEF IInv, IssuedInv
  <2> HIDE DEF q
  <2>6. RequestInv(q)
    BY <1>1, <1>2, <2>4, <2>5 DEF RequestInv, Locals, AddressesCovered, MethodsStored,
                                  WillBeNamed, ChecksHost, ImportPCs
  <2> QED
    BY <1>1, <2>1, <2>3, <2>6, RequestStep
<1>3. CASE ~(method[m] # Nil /\ method[m].host = req[r].host)
  <2>1. Answer(r)
    BY <1>3 DEF ReadCredentials, Answer
  <2> QED
    BY <1>1, <2>1, AnswerStep
<1> QED
  BY <1>2, <1>3

\* The check ends, and changes nothing.
LEMMA EndCheckStep ==
    ASSUME IInv, NEW r \in Requests, EndCheck(r)
    PROVE  IInv'
BY AnswerStep DEF EndCheck

\* An update starts from a secret that was stored.
LEMMA StartUpdateStep ==
    ASSUME IInv, NEW r \in Requests, NEW m \in Methods, NEW given \in Forms,
           StartUpdate(r, m, given)
    PROVE  IInv'
<1> DEFINE secret == method[m].secret
           q == [Idle EXCEPT
                    !.pc = IF secret["public"] # Nil /\ given # Blank
                           THEN "reread" ELSE "save",
                    !.id = m, !.read = secret, !.given = given]
<1>1. /\ req[r].pc = "idle" /\ method[m] \in Method /\ m \in issued
      /\ req' = [req EXCEPT ![r] = q]
      /\ UNCHANGED <<host, method, issued, wanted, gone, excused>>
  BY DEF StartUpdate, IInv, TypeOK, IssuedInv
<1>2. secret \in Secret /\ secret \in Form /\ given \in Form
  BY <1>1, InputsAssumption DEF Method, Secret
<1> HIDE DEF secret
<1>3. q \in Request
  BY <1>2, IdleType DEF Request, RunningPCs
<1>4. q.pc \in {"reread", "save"} /\ q.id = m /\ q.read = secret /\ q.unnamed = {}
  BY DEF Idle
<1> HIDE DEF q
<1>5. RequestInv(q)
  BY <1>1, <1>2, <1>4 DEF RequestInv, Locals, AddressesCovered, MethodsStored, WillBeNamed,
                          ChecksHost, ImportPCs
<1> QED
  BY <1>1, <1>3, <1>5, RequestStep

\* Or from the one stored since.
LEMMA RereadSecretStep ==
    ASSUME IInv, NEW r \in Requests, RereadSecret(r)
    PROVE  IInv'
<1>1. /\ req[r].pc = "reread" /\ req[r] \in Request /\ RequestInv(req[r])
      /\ UNCHANGED <<host, method, issued, wanted, gone, excused>>
  BY DEF RereadSecret, IInv, TypeOK, RequestsInv
<1>2. CASE method[req[r].id] # Nil
  <2> DEFINE q == [req[r] EXCEPT !.pc = "save", !.read = method[req[r].id].secret]
  <2>1. req' = [req EXCEPT ![r] = q]
    BY <1>2 DEF RereadSecret
  <2>2. method[req[r].id] \in Method /\ "save" \in RunningPCs
    BY <1>1, <1>2 DEF IInv, TypeOK, RequestInv, Locals, RunningPCs
  <2>3. method[req[r].id].secret \in Secret /\ method[req[r].id].secret \in Form
    BY <2>2 DEF Method, Secret
  <2>4. q \in Request
    BY <1>1, <2>2, <2>3 DEF Request
  <2>5. /\ q.pc = "save" /\ q.id = req[r].id /\ q.read = method[req[r].id].secret
        /\ q.unnamed = req[r].unnamed
    BY <1>1 DEF Request
  <2> HIDE DEF q
  <2>6. RequestInv(q)
    BY <1>1, <2>3, <2>5 DEF RequestInv, Locals, AddressesCovered, MethodsStored,
                            WillBeNamed, ChecksHost, ImportPCs
  <2> QED
    BY <1>1, <2>1, <2>4, <2>6, RequestStep
<1>3. CASE method[req[r].id] = Nil
  <2>1. Answer(r)
    BY <1>3 DEF RereadSecret, Answer
  <2> QED
    BY <1>1, <2>1, AnswerStep
<1> QED
  BY <1>2, <1>3

\* A slot whose answer is sent is free.
LEMMA FinishRequestStep ==
    ASSUME IInv, NEW r \in Requests, FinishRequest(r)
    PROVE  IInv'
BY AnswerStep DEF FinishRequest, AnsweredPCs, Answer

-----------------------------------------------------------------------------
(* Steps that change the tables.                                           *)

\* The rows that are there when a row is inserted, and a new row of wanted,
\* do not disturb what requests rely on.
LEMMA InsertHostEvolves ==
    ASSUME IInv, NEW h \in Hosts, NEW address \in Addresses, InsertHost(h, address),
           wanted' \in [Hosts -> Nat],
           \A g \in Hosts \ {h} : wanted'[g] = wanted[g],
           UNCHANGED <<method, gone, excused>>
    PROVE  /\ Evolves
           /\ Held(h, address)'
           /\ host'[h] = address /\ h \in issued'
           /\ \A g \in Hosts : Items(g)' = Items(g)
           /\ host' \in [Hosts -> Addresses \cup {Nil}]
           /\ issued' \subseteq Hosts \cup Methods
           /\ IssuedInv' /\ NoOrphans'
<1>1. /\ h \notin issued /\ host[h] = Nil
      /\ host' = [host EXCEPT ![h] = address]
      /\ issued' = issued \cup {h}
  BY DEF InsertHost, IInv, IssuedInv
<1>2. /\ host'[h] = address /\ \A g \in Hosts \ {h} : host'[g] = host[g]
      /\ host' \in [Hosts -> Addresses \cup {Nil}]
  BY <1>1 DEF IInv, TypeOK
<1>3. \A g \in Hosts : Items(g)' = Items(g)
  BY DEF Items
<1>4. Evolves
  BY <1>1, <1>2, <1>3, NilAssumption DEF Evolves, Held
<1>5. IssuedInv'
  BY <1>1, <1>2 DEF IInv, IssuedInv
<1>6. NoOrphans'
  BY <1>2, NilAssumption DEF IInv, TypeOK, Method, NoOrphans
<1> QED
  BY <1>1, <1>2, <1>3, <1>4, <1>5, <1>6 DEF Held, IInv, TypeOK

\* A host of the form has an id never used, and no methods to come.
LEMMA CreateHostStep ==
    ASSUME IInv, NEW h \in Hosts, NEW address \in Addresses, CreateHost(h, address)
    PROVE  IInv'
<1>1. InsertHost(h, address) /\ UNCHANGED <<method, req, wanted, gone, excused>>
  BY DEF CreateHost
<1>2. wanted[h] = 0 /\ host[h] = Nil
  BY <1>1 DEF InsertHost, IInv, IssuedInv
<1>3. /\ Evolves /\ IssuedInv' /\ NoOrphans'
      /\ host' \in [Hosts -> Addresses \cup {Nil}]
      /\ issued' \subseteq Hosts \cup Methods
  BY <1>1, InsertHostEvolves DEF IInv, TypeOK
<1>4. TypeOK'
  BY <1>1, <1>3 DEF IInv, TypeOK
<1>5. \A g \in Hosts \ issued : Whole(g)'
  <2> SUFFICES ASSUME NEW g \in Hosts \ issued
               PROVE  1 .. wanted'[g] = {}
    BY DEF Whole
  <2>1. wanted'[g] = 0
    BY <1>1 DEF IInv, IssuedInv
  <2> QED
    BY <2>1
<1> QED
  BY <1>1, <1>3, <1>4, <1>5, EvolvingStep

\* The address that a host gives up is remembered.
LEMMA EditHostStep ==
    ASSUME IInv, NEW h \in Hosts, NEW address \in Addresses, EditHost(h, address)
    PROVE  IInv'
<1>1. /\ host[h] # Nil /\ host' = [host EXCEPT ![h] = address]
      /\ gone' = gone \cup {<<h, host[h]>>}
      /\ UNCHANGED <<method, issued, req, wanted, excused>>
  BY DEF EditHost
<1>2. /\ host'[h] = address /\ address # Nil
      /\ \A g \in Hosts \ {h} : host'[g] = host[g]
  BY <1>1, NilAssumption DEF IInv, TypeOK
<1>3. \A g \in Hosts : Items(g)' = Items(g)
  BY <1>1 DEF Items
<1>4. TypeOK'
  BY <1>1 DEF IInv, TypeOK
<1>5. IssuedInv' /\ NoOrphans'
  BY <1>1, <1>2 DEF IInv, TypeOK, Method, IssuedInv, NoOrphans
<1>6. Evolves
  BY <1>1, <1>2, <1>3 DEF Evolves, Held
<1>7. \A g \in Hosts \ issued : Whole(g)'
  BY <1>1, <1>2 DEF IInv, IssuedInv, Whole
<1> QED
  BY <1>1, <1>4, <1>5, <1>6, <1>7, EvolvingStep

\* The methods of a deleted host go with it, and none are wanted any more.
LEMMA DeleteHostStep ==
    ASSUME IInv, NEW h \in Hosts, DeleteHost(h)
    PROVE  IInv'
<1>1. /\ host[h] # Nil /\ host' = [host EXCEPT ![h] = Nil]
      /\ method' = [m \in Methods |->
                       IF method[m] # Nil /\ method[m].host = h THEN Nil ELSE method[m]]
      /\ gone' = gone \cup {<<h, host[h]>>}
      /\ wanted' = [wanted EXCEPT ![h] = 0]
      /\ excused' = excused \ {h}
      /\ UNCHANGED <<issued, req>>
  BY DEF DeleteHost
<1>2. /\ host'[h] = Nil /\ \A g \in Hosts \ {h} : host'[g] = host[g]
      /\ wanted'[h] = 0 /\ \A g \in Hosts \ {h} : wanted'[g] = wanted[g]
  BY <1>1 DEF IInv, TypeOK
<1>3. \A g \in Hosts \ {h} : Items(g)' = Items(g)
  BY <1>1 DEF Items
<1>4. TypeOK'
  BY <1>1 DEF IInv, TypeOK
<1>5. IssuedInv' /\ NoOrphans'
  BY <1>1, <1>2 DEF IInv, TypeOK, Method, IssuedInv, NoOrphans
<1>6. Evolves
  BY <1>1, <1>2, <1>3 DEF Evolves, Held
<1>7. \A g \in Hosts \ issued : Whole(g)'
  BY <1>1, <1>2 DEF IInv, IssuedInv, Whole
<1> QED
  BY <1>1, <1>4, <1>5, <1>6, <1>7, EvolvingStep

\* A new method, and nothing else that hosts or requests could miss.
LEMMA InsertMethodEvolves ==
    ASSUME IInv, NEW m \in Methods, NEW row \in Method, InsertMethod(m, row),
           UNCHANGED <<host, wanted, gone, excused>>
    PROVE  /\ Evolves
           /\ method' \in [Methods -> Method \cup {Nil}]
           /\ issued' \subseteq Hosts \cup Methods
           /\ IssuedInv' /\ NoOrphans'
           /\ \A h \in Hosts : Items(h) \subseteq Items(h)'
           /\ method'[m] = row
           /\ \A h \in Hosts \ issued : Whole(h)'
<1>1. /\ m \notin issued /\ method[m] = Nil /\ host[row.host] # Nil
      /\ method' = [method EXCEPT ![m] = row]
      /\ issued' = issued \cup {m}
  BY DEF InsertMethod, MayHave, IInv, IssuedInv
<1>2. /\ method'[m] = row /\ \A n \in Methods \ {m} : method'[n] = method[n]
      /\ method' \in [Methods -> Method \cup {Nil}]
  BY <1>1 DEF IInv, TypeOK
<1>3. \A h \in Hosts : Items(h) \subseteq Items(h)'
  BY <1>1, <1>2 DEF Items
<1>4. Evolves
  BY <1>1, <1>2, <1>3 DEF Evolves, Held
<1>5. IssuedInv' /\ NoOrphans'
  BY <1>1, <1>2 DEF IInv, IssuedInv, NoOrphans
<1>6. \A h \in Hosts \ issued : Whole(h)'
  BY DEF IInv, IssuedInv, Whole
<1> QED
  BY <1>1, <1>2, <1>3, <1>4, <1>5, <1>6 DEF IInv, TypeOK

\* A method of the form is for a host there is, and adds to no import.
LEMMA CreateMethodStep ==
    ASSUME IInv, NEW m \in Methods, NEW h \in Hosts, NEW secret \in Secrets,
           CreateMethod(m, h, secret)
    PROVE  IInv'
<1> DEFINE row == [host |-> h, item |-> 0, secret |-> secret]
<1>1. row \in Method
  BY InputsAssumption DEF Method
<1>2. InsertMethod(m, row) /\ UNCHANGED <<host, req, wanted, gone, excused>>
  BY DEF CreateMethod
<1> HIDE DEF row
<1>3. /\ Evolves /\ IssuedInv' /\ NoOrphans'
      /\ method' \in [Methods -> Method \cup {Nil}]
      /\ issued' \subseteq Hosts \cup Methods
      /\ \A g \in Hosts \ issued : Whole(g)'
  BY <1>1, <1>2, InsertMethodEvolves
<1>4. TypeOK'
  BY <1>2, <1>3 DEF IInv, TypeOK
<1> QED
  BY <1>2, <1>3, <1>4, EvolvingStep

\* The host of a deleted method is excused from having all.
LEMMA DeleteMethodStep ==
    ASSUME IInv, NEW m \in Methods, DeleteMethod(m)
    PROVE  IInv'
<1>1. /\ method[m] \in Method /\ method' = [method EXCEPT ![m] = Nil]
      /\ excused' = excused \cup {method[m].host}
      /\ UNCHANGED <<host, issued, req, wanted, gone>>
  BY DEF DeleteMethod, IInv, TypeOK
<1>2. method'[m] = Nil /\ \A n \in Methods \ {m} : method'[n] = method[n]
  BY <1>1 DEF IInv, TypeOK
<1>3. method[m].host \in Hosts
  BY <1>1 DEF Method
<1>4. \A h \in Hosts \ {method[m].host} : Items(h)' = Items(h)
  BY <1>1, <1>2 DEF Items
<1>5. TypeOK'
  BY <1>1, <1>3 DEF IInv, TypeOK
<1>6. IssuedInv' /\ NoOrphans'
  BY <1>1, <1>2 DEF IInv, IssuedInv, NoOrphans
<1>7. Evolves
  BY <1>1, <1>2, <1>4 DEF Evolves, Held
<1>8. \A h \in Hosts \ issued : Whole(h)'
  BY <1>1 DEF IInv, IssuedInv, Whole
<1> QED
  BY <1>1, <1>5, <1>6, <1>7, <1>8, EvolvingStep

-----------------------------------------------------------------------------
(* Steps of an import that change the tables.                              *)

\* The entry an import is at, and what it has of it.
LEMMA CurrentEntry ==
    ASSUME IInv, NEW r \in Requests, req[r].pc \in ImportPCs
    PROVE  /\ req[r] \in Request /\ RequestInv(req[r])
           /\ req[r].file \in Files
           /\ First(req[r].todo) \in req[r].todo
           /\ First(req[r].todo) \in DOMAIN req[r].file
           /\ Current(req[r]) \in Entry
<1>1. req[r] \in Request /\ RequestInv(req[r])
  BY DEF IInv, TypeOK, RequestsInv
<1>2. /\ req[r].file \in Files /\ req[r].todo \subseteq DOMAIN req[r].file
      /\ req[r].todo # {}
  BY <1>1 DEF RequestInv, Locals, ImportPCs
<1>3. First(req[r].todo) \in req[r].todo
  BY <1>2, FileType, FirstIsIn
<1> QED
  BY <1>1, <1>2, <1>3, FileType DEF Current

\* A request that has created an entry, whose address is covered now.
LEMMA AfterEntryKeeps ==
    ASSUME IInv, Evolves, NEW r \in Requests, req[r].pc \in ImportPCs,
           NEW address \in Addresses, address = Current(req[r]).address,
           Covered(address)',
           req'[r] = AfterEntry(req[r], First(req[r].todo))
    PROVE  req'[r] \in Request /\ RequestInv(req[r])'
<1> DEFINE q == req[r]
           i == First(q.todo)
           p == AfterEntry(q, i)
<1>1. /\ q \in Request /\ RequestInv(q) /\ q.file \in Files
      /\ i \in q.todo /\ i \in DOMAIN q.file /\ Current(q) = q.file[i]
  BY CurrentEntry DEF Current
<1>2. {"imported", "host"} \subseteq RunningPCs \cup AnsweredPCs \cup {"idle"}
  BY DEF RunningPCs, AnsweredPCs
<1>3. p \in Request
  BY <1>1, <1>2 DEF AfterEntry, Request
<1>4. /\ p.pc = (IF q.todo = {i} THEN "imported" ELSE "host")
      /\ p.file = q.file /\ p.todo = q.todo \ {i} /\ p.unnamed = q.unnamed
  BY <1>1 DEF AfterEntry, Request
<1> HIDE DEF p, i
<1>5. req'[r] = p
  BY DEF p, i
<1>6. q.todo \subseteq DOMAIN q.file
  BY <1>1 DEF RequestInv, Locals
<1>7. \A k \in DOMAIN q.file :
         \/ Covered(q.file[k].address)
         \/ \E j \in q.todo : q.file[j].address = q.file[k].address
  BY <1>1 DEF RequestInv, AddressesCovered
<1>8. q.unnamed \subseteq issued'
  BY <1>1 DEF RequestInv, WillBeNamed, Evolves
<1>9. PICK file \in Files : file = q.file
  BY <1>1
<1>10. AddressesCovered(req[r])'
  <2> SUFFICES ASSUME NEW k \in DOMAIN file
               PROVE  \/ Covered(file[k].address)'
                      \/ \E j \in q.todo \ {i} : file[j].address = file[k].address
    BY <1>4, <1>5, <1>9 DEF AddressesCovered
  <2>1. PICK a \in Addresses : a = file[k].address
    BY FileType DEF Entry
  <2>2. CASE Covered(a)
    BY <2>1, <2>2, CoveredKept
  <2>3. ASSUME NEW j \in q.todo, file[j].address = file[k].address
        PROVE  \/ Covered(file[k].address)'
               \/ \E l \in q.todo \ {i} : file[l].address = file[k].address
    <3>1. CASE j = i
      BY <1>1, <1>9, <2>3, <3>1
    <3>2. CASE j # i
      BY <2>3, <3>2
    <3> QED
      BY <3>1, <3>2
  <2> QED
    BY <1>7, <1>9, <2>1, <2>2, <2>3
<1>11. /\ Locals(req[r])' /\ MethodsStored(req[r])' /\ WillBeNamed(req[r])'
       /\ ChecksHost(req[r])'
  BY <1>1, <1>4, <1>5, <1>6, <1>8 DEF Locals, MethodsStored, WillBeNamed, ChecksHost,
                                      ImportPCs
<1> QED
  BY <1>3, <1>5, <1>10, <1>11 DEF RequestInv

\* An address is covered once its host is created, whole if it has no methods.
LEMMA ImportHostStep ==
    ASSUME IInv, NEW r \in Requests, ImportHost(r)
    PROVE  IInv'
<1> DEFINE q     == req[r]
           i     == First(q.todo)
           entry == q.file[i]
<1>1. /\ q.pc = "host" /\ q \in Request /\ RequestInv(q) /\ entry \in Entry
      /\ entry = Current(q) /\ i \in DOMAIN q.file /\ q.file \in Files
      /\ UNCHANGED <<method, gone, excused>>
  BY CurrentEntry DEF ImportHost, ImportPCs, Current
<1>2. ASSUME NEW h \in Hosts, InsertHost(h, entry.address),
             wanted' = [wanted EXCEPT ![h] = entry.methods],
             req' = [req EXCEPT ![r] =
                        IF entry.methods = 0 THEN AfterEntry(@, i)
                        ELSE [@ EXCEPT !.pc = "method", !.host = h, !.item = 1]]
      PROVE  IInv'
  <2>1. entry.address \in Addresses /\ entry.methods \in Nat
    BY <1>1 DEF Entry
  <2>2. PICK address \in Addresses : address = entry.address
    BY <2>1
  <2>3. /\ wanted' \in [Hosts -> Nat] /\ wanted'[h] = entry.methods
        /\ \A g \in Hosts \ {h} : wanted'[g] = wanted[g]
    BY <1>2, <2>1 DEF IInv, TypeOK
  <2>4. /\ Evolves /\ Held(h, address)' /\ Covered(address)'
        /\ host'[h] = address /\ h \in issued'
        /\ host' \in [Hosts -> Addresses \cup {Nil}]
        /\ issued' \subseteq Hosts \cup Methods
        /\ IssuedInv' /\ NoOrphans'
    BY <1>1, <1>2, <2>2, <2>3, InsertHostEvolves DEF Covered
  <2>5. \A s \in Requests \ {r} : req'[s] = req[s]
    BY <1>2 DEF IInv, TypeOK
  <2>6. \A g \in Hosts \ (issued \cup {h}) : Whole(g)'
    <3> SUFFICES ASSUME NEW g \in Hosts \ (issued \cup {h})
                 PROVE  host'[g] = Nil
      BY DEF Whole
    <3> QED
      BY <1>2 DEF InsertHost, IInv, TypeOK, IssuedInv
  <2>7. CASE entry.methods = 0
    <3>1. req'[r] = AfterEntry(q, i)
      BY <1>2, <2>7 DEF IInv, TypeOK
    <3>2. req'[r] \in Request /\ RequestInv(req[r])'
      BY <1>1, <2>2, <2>4, <3>1, AfterEntryKeeps DEF ImportPCs
    <3>3. TypeOK'
      <4>1. req' = [req EXCEPT ![r] = AfterEntry(q, i)]
        BY <1>2, <2>7
      <4>2. req' \in [Requests -> Request]
        BY <3>1, <3>2, <4>1 DEF IInv, TypeOK
      <4> QED
        BY <1>1, <2>3, <2>4, <4>2 DEF IInv, TypeOK
    <3>4. Whole(h)'
      <4>1. 1 .. wanted'[h] = {}
        BY <2>3, <2>7
      <4> QED
        BY <4>1 DEF Whole
    <3> QED
      BY <1>1, <2>4, <2>5, <2>6, <3>2, <3>3, <3>4, EvolvingStep
  <2>8. CASE entry.methods # 0
    <3> DEFINE p == [q EXCEPT !.pc = "method", !.host = h, !.item = 1]
    <3>1. req' = [req EXCEPT ![r] = p] /\ req'[r] = p
      BY <1>2, <2>8 DEF IInv, TypeOK
    <3>2. "method" \in RunningPCs
      BY DEF RunningPCs
    <3>3. p \in Request
      BY <1>1, <3>2 DEF Request
    <3>4. /\ p.pc = "method" /\ p.host = h /\ p.item = 1 /\ p.file = q.file
          /\ p.todo = q.todo /\ p.unnamed = q.unnamed
      BY <1>1 DEF Request
    <3> HIDE DEF p
    <3>5. TypeOK'
      <4>1. req' \in [Requests -> Request]
        BY <3>1, <3>3 DEF IInv, TypeOK
      <4> QED
        BY <1>1, <2>3, <2>4, <4>1 DEF IInv, TypeOK
    <3>6. Whole(h)'
      BY <3>1, <3>4 DEF Whole, BeingImported
    <3>7. Locals(req[r])'
      BY <1>1, <2>4, <3>1, <3>4 DEF RequestInv, Locals, ImportPCs
    <3>8. AddressesCovered(req[r])'
      <4> SUFFICES ASSUME NEW k \in DOMAIN q.file
                   PROVE  \/ Covered(q.file[k].address)'
                          \/ \E j \in q.todo : q.file[j].address = q.file[k].address
        BY <3>1, <3>4 DEF AddressesCovered
      <4>1. PICK a \in Addresses : a = q.file[k].address
        BY <1>1, FileType DEF Entry
      <4>2. CASE Covered(a)
        <5>1. Covered(a)'
          BY <2>4, <4>2, CoveredKept
        <5>2. q.file[k].address' = q.file[k].address
          BY <3>1, <3>4
        <5> QED
          BY <4>1, <5>1, <5>2
      <4> QED
        BY <1>1, <4>1, <4>2 DEF RequestInv, AddressesCovered, ImportPCs
    <3>9. MethodsStored(req[r])'
      <4>1. Current(req'[r]) = entry
        BY <3>1, <3>4 DEF Current
      <4>2. Covered(Current(req[r]).address)'
        BY <2>2, <2>4, <4>1 DEF Current
      <4>3. 1 \in 1 .. entry.methods /\ 1 .. 1 - 1 = {}
        BY <2>1, <2>8
      <4> QED
        BY <2>3, <3>1, <3>4, <4>1, <4>2, <4>3 DEF MethodsStored, Current
    <3>10. WillBeNamed(req[r])' /\ ChecksHost(req[r])'
      BY <1>1, <2>4, <3>1, <3>4 DEF RequestInv, WillBeNamed, ChecksHost, Evolves
    <3>11. RequestInv(req[r])'
      BY <3>7, <3>8, <3>9, <3>10 DEF RequestInv
    <3> QED
      BY <1>1, <2>4, <2>5, <2>6, <3>5, <3>6, <3>11, EvolvingStep
  <2> QED
    BY <2>7, <2>8
<1>3. ASSUME Answer(r), UNCHANGED <<host, issued, wanted>>
      PROVE  IInv'
  BY <1>1, <1>3, AnswerStep
<1> QED
  BY <1>2, <1>3 DEF ImportHost

\* A host is whole when the last of its methods has been created.
LEMMA ImportMethodStep ==
    ASSUME IInv, NEW r \in Requests, ImportMethod(r)
    PROVE  IInv'
<1> DEFINE q     == req[r]
           i     == First(q.todo)
           entry == q.file[i]
           row   == [host |-> q.host, item |-> q.item, secret |-> entry.secret]
<1>1. /\ q.pc = "method" /\ q \in Request /\ RequestInv(q) /\ entry \in Entry
      /\ entry = Current(q) /\ i \in DOMAIN q.file /\ q.file \in Files
      /\ UNCHANGED <<host, wanted, gone, excused>>
  BY CurrentEntry DEF ImportMethod, ImportPCs, Current
<1>2. /\ entry.address \in Addresses /\ entry.methods \in Nat
      /\ q.host \in Hosts /\ q.host \in issued
      /\ q.item \in 1 .. entry.methods /\ Covered(entry.address)
  BY <1>1 DEF Entry, RequestInv, Locals, MethodsStored
<1>3. row \in Method /\ row.host = q.host /\ row.item = q.item
  BY <1>1, <1>2 DEF Entry, Method
<1>4. ASSUME NEW m \in Methods, InsertMethod(m, row),
             req' = [req EXCEPT ![r] = IF q.item = entry.methods THEN AfterEntry(q, i)
                                       ELSE [req[r] EXCEPT !.item = @ + 1]]
      PROVE  IInv'
  <2>1. /\ Evolves /\ IssuedInv' /\ NoOrphans' /\ method'[m] = row
        /\ method' \in [Methods -> Method \cup {Nil}]
        /\ issued' \subseteq Hosts \cup Methods
        /\ \A h \in Hosts : Items(h) \subseteq Items(h)'
        /\ \A h \in Hosts \ issued : Whole(h)'
    BY <1>1, <1>3, <1>4, InsertMethodEvolves
  <2>2. PICK address \in Addresses : address = entry.address
    BY <1>2
  <2>3. PICK h \in Hosts : h = q.host
    BY <1>2
  <2>4. PICK item \in 1 .. entry.methods : item = q.item
    BY <1>2
  <2>5. Covered(address)'
    BY <1>2, <2>1, <2>2, CoveredKept
  <2>6. item \in Items(h)'
    <3>1. row # Nil
      BY <1>3, RowIsNotNil
    <3> QED
      BY <1>3, <2>1, <2>3, <2>4, <3>1 DEF Items
  <2>7. host'[h] # Nil =>
           /\ wanted'[h] = entry.methods
           /\ 1 .. item \subseteq Items(h)' \/ h \in excused'
    <3>1. 1 .. item = (1 .. item - 1) \cup {item}
      BY <1>2, <2>4
    <3> QED
      BY <1>1, <2>1, <2>3, <2>4, <2>6, <3>1 DEF RequestInv, MethodsStored
  <2>8. \A s \in Requests \ {r} : req'[s] = req[s]
    BY <1>4 DEF IInv, TypeOK
  <2>9. CASE q.item = entry.methods
    <3>1. req' = [req EXCEPT ![r] = AfterEntry(q, i)]
      BY <1>4, <2>9
    <3>2. req'[r] = AfterEntry(q, i)
      BY <3>1 DEF IInv, TypeOK
    <3>3. req'[r] \in Request /\ RequestInv(req[r])'
      BY <1>1, <2>1, <2>2, <2>5, <3>2, AfterEntryKeeps DEF ImportPCs
    <3>4. TypeOK'
      <4>1. req' \in [Requests -> Request]
        BY <3>1, <3>2, <3>3 DEF IInv, TypeOK
      <4> QED
        BY <1>1, <2>1, <4>1 DEF IInv, TypeOK
    <3>5. Whole(h)'
      BY <2>4, <2>7, <2>9 DEF Whole
    <3> QED
      BY <2>1, <2>3, <2>8, <3>3, <3>4, <3>5, EvolvingStep
  <2>10. CASE q.item # entry.methods
    <3> DEFINE p == [q EXCEPT !.item = @ + 1]
    <3>1. req' = [req EXCEPT ![r] = p] /\ req'[r] = p
      BY <1>4, <2>10 DEF IInv, TypeOK
    <3>2. p \in Request
      BY <1>1 DEF Request
    <3>3. /\ p.pc = "method" /\ p.host = h /\ p.item = item + 1 /\ p.file = q.file
          /\ p.todo = q.todo /\ p.unnamed = q.unnamed
      BY <1>1, <2>3, <2>4 DEF Request
    <3> HIDE DEF p
    <3>4. TypeOK'
      <4>1. req' \in [Requests -> Request]
        BY <3>1, <3>2 DEF IInv, TypeOK
      <4> QED
        BY <1>1, <2>1, <4>1 DEF IInv, TypeOK
    <3>5. Whole(h)'
      BY <3>1, <3>3 DEF Whole, BeingImported
    <3>6. Locals(req[r])'
      BY <1>1, <1>2, <2>1, <2>3, <3>1, <3>3 DEF RequestInv, Locals, ImportPCs, Evolves
    <3>7. AddressesCovered(req[r])'
      <4> SUFFICES ASSUME NEW k \in DOMAIN q.file
                   PROVE  \/ Covered(q.file[k].address)'
                          \/ \E j \in q.todo : q.file[j].address = q.file[k].address
        BY <3>1, <3>3 DEF AddressesCovered
      <4>1. PICK a \in Addresses : a = q.file[k].address
        BY <1>1, FileType DEF Entry
      <4>2. CASE Covered(a)
        <5>1. Covered(a)'
          BY <2>1, <4>2, CoveredKept
        <5>2. q.file[k].address' = q.file[k].address
          BY <3>1, <3>3
        <5> QED
          BY <4>1, <5>1, <5>2
      <4> QED
        BY <1>1, <4>1, <4>2 DEF RequestInv, AddressesCovered, ImportPCs
    <3>8. MethodsStored(req[r])'
      <4>1. Current(req'[r]) = entry
        BY <3>1, <3>3 DEF Current
      <4>2. Covered(Current(req[r]).address)'
        BY <2>2, <2>5, <4>1 DEF Current
      <4>3. item + 1 \in 1 .. entry.methods /\ (item + 1) - 1 = item
        BY <1>2, <2>4, <2>10
      <4> QED
        BY <2>7, <3>1, <3>3, <4>1, <4>2, <4>3 DEF MethodsStored, Current
    <3>9. WillBeNamed(req[r])' /\ ChecksHost(req[r])'
      BY <1>1, <2>1, <3>1, <3>3 DEF RequestInv, WillBeNamed, ChecksHost, Evolves
    <3>10. RequestInv(req[r])'
      BY <3>6, <3>7, <3>8, <3>9 DEF RequestInv
    <3> QED
      BY <2>1, <2>3, <2>8, <3>4, <3>5, <3>10, EvolvingStep
  <2> QED
    BY <2>9, <2>10
<1>5. ASSUME ~MayHave(q.host), Answer(r), UNCHANGED <<method, issued>>
      PROVE  IInv'
  BY <1>1, <1>5, AnswerStep DEF MayHave
<1> QED
  BY <1>4, <1>5 DEF ImportMethod

\* An update keeps the method's host and its place in the file.
LEMMA SaveMethodStep ==
    ASSUME IInv, NEW r \in Requests, SaveMethod(r)
    PROVE  IInv'
<1> DEFINE q      == req[r]
           m      == q.id
           secret == Combined(q.given, q.read)
<1>1. /\ q.pc = "save" /\ q \in Request /\ m \in Methods /\ q.read \in Secret
      /\ Answer(r) /\ UNCHANGED <<host, issued, wanted, gone, excused>>
  BY DEF SaveMethod, IInv, TypeOK, RequestsInv, RequestInv, Locals
<1>2. ASSUME method[m] # Nil, method' = [method EXCEPT ![m].secret = secret]
      PROVE  IInv'
  <2>1. secret \in Secret
    BY <1>1 DEF Combined, Request, Form, Secret, Half
  <2> HIDE DEF secret
  <2>2. /\ method'[m] \in Method
        /\ method'[m].host = method[m].host /\ method'[m].item = method[m].item
    BY <1>1, <1>2, <2>1 DEF IInv, TypeOK, Method
  <2>3. /\ \A n \in Methods \ {m} : method'[n] = method[n]
        /\ method' \in [Methods -> Method \cup {Nil}]
    BY <1>1, <1>2, <2>2 DEF IInv, TypeOK
  <2>4. \A h \in Hosts : Items(h) \subseteq Items(h)'
    <3> SUFFICES ASSUME NEW h \in Hosts, NEW n \in Methods,
                        method[n] # Nil, method[n].host = h
                 PROVE  method[n].item \in Items(h)'
      BY DEF Items
    <3>1. method'[n] # Nil
      <4>1. CASE n = m
        BY <2>2, <4>1, RowIsNotNil
      <4>2. CASE n # m
        BY <2>3, <4>2
      <4> QED
        BY <4>1, <4>2
    <3> QED
      BY <1>1, <2>2, <2>3, <3>1 DEF Items
  <2>5. Evolves
    BY <1>1, <1>2, <2>2, <2>3, <2>4 DEF Evolves, Held
  <2>6. IssuedInv' /\ NoOrphans'
    BY <1>1, <1>2, <2>2, <2>3 DEF IInv, IssuedInv, NoOrphans
  <2>7. /\ req' \in [Requests -> Request] /\ req'[r] = Idle
        /\ \A s \in Requests \ {r} : req'[s] = req[s]
    BY <1>1, IdleType DEF Answer, IInv, TypeOK
  <2>8. TypeOK'
    BY <1>1, <2>3, <2>7 DEF IInv, TypeOK
  <2>9. RequestInv(req[r])'
    BY <2>7, IdleInv DEF RequestInv, Locals, AddressesCovered, MethodsStored,
                         WillBeNamed, ChecksHost, Idle, ImportPCs
  <2>10. \A h \in Hosts \ issued : Whole(h)'
    BY <1>1 DEF IInv, IssuedInv, Whole
  <2> QED
    BY <1>1, <2>5, <2>6, <2>7, <2>8, <2>9, <2>10, EvolvingStep
<1>3. ASSUME UNCHANGED method
      PROVE  IInv'
  BY <1>1, <1>3, AnswerStep
<1> QED
  BY <1>2, <1>3 DEF SaveMethod

\* An import cut off excuses the host it has not finished.
LEMMA AbortRequestStep ==
    ASSUME IInv, NEW r \in Requests, AbortRequest(r)
    PROVE  IInv'
<1>1. /\ Answer(r)
      /\ excused' = IF req[r].pc = "method" /\ host[req[r].host] # Nil
                    THEN excused \cup {req[r].host} ELSE excused
      /\ UNCHANGED <<host, method, issued, wanted, gone>>
  BY DEF AbortRequest
<1>2. CASE ~(req[r].pc = "method" /\ host[req[r].host] # Nil)
  BY <1>1, <1>2, AnswerStep
<1>3. CASE req[r].pc = "method" /\ host[req[r].host] # Nil
  <2>1. req[r].host \in Hosts /\ excused' = excused \cup {req[r].host}
    BY <1>1, <1>3 DEF IInv, RequestsInv, RequestInv, Locals
  <2>2. \A h \in Hosts : Items(h)' = Items(h)
    BY <1>1 DEF Items
  <2>3. Evolves
    BY <1>1, <2>1, <2>2 DEF Evolves, Held
  <2>4. IssuedInv' /\ NoOrphans'
    BY <1>1 DEF IInv, IssuedInv, NoOrphans
  <2>5. /\ req' \in [Requests -> Request] /\ req'[r] = Idle
        /\ \A s \in Requests \ {r} : req'[s] = req[s]
    BY <1>1, IdleType DEF Answer, IInv, TypeOK
  <2>6. TypeOK'
    BY <1>1, <2>1, <2>5 DEF IInv, TypeOK
  <2>7. RequestInv(req[r])'
    BY <2>5, IdleInv DEF RequestInv, Locals, AddressesCovered, MethodsStored,
                         WillBeNamed, ChecksHost, Idle, ImportPCs
  <2>8. \A h \in Hosts : req[r].host = h => Whole(h)'
    BY <2>1 DEF Whole
  <2>9. \A h \in Hosts \ issued : Whole(h)'
    BY <1>1 DEF IInv, IssuedInv, Whole
  <2> QED
    BY <2>3, <2>4, <2>5, <2>6, <2>7, <2>8, <2>9, EvolvingStep
<1> QED
  BY <1>2, <1>3

-----------------------------------------------------------------------------
\* Every step keeps the inductive invariant.
LEMMA NextIInv == IInv /\ [Next]_vars => IInv'
<1> SUFFICES ASSUME IInv, [Next]_vars
             PROVE  IInv'
  OBVIOUS
<1>1. ASSUME NEW r \in Requests, NEW file \in Files, StartImport(r, file)
      PROVE  IInv'
  BY <1>1, StartImportStep
<1>2. ASSUME NEW r \in Requests, ImportHost(r) \/ ImportMethod(r)
      PROVE  IInv'
  BY <1>2, ImportHostStep, ImportMethodStep
<1>3. ASSUME NEW r \in Requests, NEW m \in Methods, NEW given \in Forms,
             StartUpdate(r, m, given)
      PROVE  IInv'
  BY <1>3, StartUpdateStep
<1>4. ASSUME NEW r \in Requests, RereadSecret(r) \/ SaveMethod(r)
      PROVE  IInv'
  BY <1>4, RereadSecretStep, SaveMethodStep
<1>5. ASSUME NEW r \in Requests, StartExport(r) \/ ListMethods(r) \/ EndCheck(r)
      PROVE  IInv'
  BY <1>5, StartExportStep, ListMethodsStep, EndCheckStep
<1>6. ASSUME NEW r \in Requests, NEW m \in Methods,
             ExportSecret(r, m) \/ ReadCredentials(r, m)
      PROVE  IInv'
  BY <1>6, ExportSecretStep, ReadCredentialsStep
<1>7. ASSUME NEW r \in Requests, NEW h \in Hosts, StartCheck(r, h)
      PROVE  IInv'
  BY <1>7, StartCheckStep
<1>8. ASSUME NEW r \in Requests, AbortRequest(r) \/ FinishRequest(r)
      PROVE  IInv'
  BY <1>8, AbortRequestStep, FinishRequestStep
<1>9. ASSUME NEW h \in Hosts, NEW address \in Addresses,
             CreateHost(h, address) \/ EditHost(h, address)
      PROVE  IInv'
  BY <1>9, CreateHostStep, EditHostStep
<1>10. ASSUME NEW h \in Hosts, DeleteHost(h)
       PROVE  IInv'
  BY <1>10, DeleteHostStep
<1>11. ASSUME NEW m \in Methods, NEW h \in Hosts, NEW secret \in Secrets,
              CreateMethod(m, h, secret)
       PROVE  IInv'
  BY <1>11, CreateMethodStep
<1>12. ASSUME NEW m \in Methods, DeleteMethod(m)
       PROVE  IInv'
  BY <1>12, DeleteMethodStep
<1>13. CASE UNCHANGED vars
  <2>1. TypeOK' /\ IssuedInv' /\ NoOrphans'
    BY <1>13 DEF vars, IInv, TypeOK, IssuedInv, NoOrphans
  <2>2. Evolves
    BY <1>13 DEF vars, Evolves, Held, Items
  <2>3. \A h \in Hosts \ issued : Whole(h)'
    BY <1>13 DEF vars, IInv, IssuedInv, Whole
  <2> QED
    BY <1>13, <2>1, <2>2, <2>3, EvolvingStep DEF vars
<1> QED
  BY <1>1, <1>2, <1>3, <1>4, <1>5, <1>6, <1>7, <1>8, <1>9, <1>10, <1>11, <1>12, <1>13
     DEF Next

\* No statement of a request breaks the inductive invariant.
THEOREM Invariance == Spec => []IInv
BY InitIInv, NextIInv, PTL DEF Spec

\* Every variable keeps its type: among others the secret that an update
\* combines always has a private half.
THEOREM TypeCorrect == Spec => []TypeOK
<1>1. IInv => TypeOK
  BY DEF IInv
<1> QED
  BY <1>1, Invariance, PTL

\* No management method outlives its host.
THEOREM NoOrphansHolds == Spec => []NoOrphans
<1>1. IInv => NoOrphans
  BY DEF IInv
<1> QED
  BY <1>1, Invariance, PTL

\* An import that was answered has left no address of its file behind.
THEOREM ImportedStoredHolds == Spec => []ImportedStored
<1>1. IInv => ImportedStored
  BY DEF IInv, RequestsInv, RequestInv, Locals, AddressesCovered, Covered, Held,
         ImportedStored
<1> QED
  BY <1>1, Invariance, PTL

\* A host lacks methods of its entry only while it is imported, or excused.
THEOREM WholeUnlessCutOffHolds == Spec => []WholeUnlessCutOff
<1>1. IInv => WholeUnlessCutOff
  BY DEF IInv
<1> QED
  BY <1>1, Invariance, PTL

\* An export that was answered names every method that was there all the time.
THEOREM ExportWholeHolds == Spec => []ExportWhole
<1>1. IInv => ExportWhole
  BY DEF IInv, RequestsInv, RequestInv, WillBeNamed, ExportWhole
<1> QED
  BY <1>1, Invariance, PTL

\* A check offers the credentials of a host to no address but its own, present
\* or past.
THEOREM CredentialsOfHostHolds == Spec => []CredentialsOfHost
<1>1. IInv => CredentialsOfHost
  BY DEF IInv, RequestsInv, RequestInv, ChecksHost, Held, CredentialsOfHost
<1> QED
  BY <1>1, Invariance, PTL

\* An update changes a half of a secret only if its form has a new one, or by
\* writing back what an overlapping update has replaced.
THEOREM SecretKeptHolds == Spec => SecretKept
<1> DEFINE Kept == \A m \in Methods, half \in Half :
                      /\ method[m] # Nil /\ method'[m] # Nil
                      /\ method'[m].secret[half] # method[m].secret[half]
                      => \E r \in Requests : HalfGiven(r, m, half)
<1>1. ASSUME IInv, [Next]_vars
      PROVE  [Kept]_vars
  <2>1. ASSUME UNCHANGED method
        PROVE  Kept
    BY <2>1
  <2>2. ASSUME NEW m \in Methods, NEW row, InsertMethod(m, row)
        PROVE  Kept
    BY <1>1, <2>2 DEF InsertMethod, IInv, TypeOK, IssuedInv
  <2>3. ASSUME NEW m \in Methods, DeleteMethod(m)
        PROVE  Kept
    BY <1>1, <2>3 DEF DeleteMethod, IInv, TypeOK
  <2>4. ASSUME NEW h \in Hosts, DeleteHost(h)
        PROVE  Kept
    BY <2>4 DEF DeleteHost
  <2>5. ASSUME NEW r \in Requests, SaveMethod(r)
        PROVE  Kept
    <3> SUFFICES ASSUME NEW m \in Methods, NEW half \in Half,
                        method[m] # Nil, method'[m] # Nil,
                        method'[m].secret[half] # method[m].secret[half]
                 PROVE  HalfGiven(r, m, half)
      BY <2>5
    <3>1. /\ req[r].pc = "save" /\ req'[r] = Idle /\ req[r].id \in Methods
      BY <1>1, <2>5 DEF SaveMethod, Answer, IInv, TypeOK, RequestsInv, RequestInv, Locals
    <3>2. /\ method' = [method EXCEPT ![req[r].id].secret =
                           Combined(req[r].given, req[r].read)]
          /\ req[r].id = m
      BY <1>1, <2>5, <3>1 DEF SaveMethod, IInv, TypeOK
    <3>3. method'[m].secret = Combined(req[r].given, req[r].read)
      BY <1>1, <3>2 DEF IInv, TypeOK, Method
    <3>4. req[r].given[half] # Nil \/ req[r].read[half] # method[m].secret[half]
      BY <3>3 DEF Combined
    <3> QED
      BY <3>1, <3>2, <3>4 DEF HalfGiven
  <2>6. ASSUME NEW r \in Requests, ImportMethod(r)
        PROVE  Kept
    BY <2>1, <2>2, <2>6 DEF ImportMethod
  <2>7. ASSUME NEW m \in Methods, NEW h \in Hosts, NEW secret \in Secrets,
               CreateMethod(m, h, secret)
        PROVE  Kept
    BY <2>2, <2>7 DEF CreateMethod
  <2>8. CASE UNCHANGED vars
    BY <2>1, <2>8 DEF vars
  <2> HIDE DEF Kept
  <2> QED
    BY <1>1, <2>1, <2>3, <2>4, <2>5, <2>6, <2>7, <2>8
       DEF Next, StartImport, ImportHost, StartUpdate, RereadSecret, StartExport,
           ListMethods, EndCheck, ExportSecret, ReadCredentials, StartCheck,
           AbortRequest, FinishRequest, CreateHost, EditHost
<1> QED
  BY <1>1, Invariance, PTL DEF Spec, SecretKept
=============================================================================
