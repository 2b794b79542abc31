---------------------------- MODULE HostReports ----------------------------
(***************************************************************************)
(* What the agents report on their hosts, and how it is kept: metric       *)
(* snapshots, of which only the newest of each host stay, and the system   *)
(* information with its list of GPUs.                                      *)
(*                                                                         *)
(* Requests of the HTTP server write and read concurrently.  In SQLite a   *)
(* transaction that begins with a write excludes all others, so it is one  *)
(* step.  In PostgreSQL (READ COMMITTED) its statements are steps: each    *)
(* sees what is committed when it starts and what its own transaction has  *)
(* done, and waits for the rows another transaction has locked.  With both *)
(* databases a list is read by several statements outside a transaction.   *)
(*                                                                         *)
(* FleetRegistry models how hosts and agents come and go; here a host that *)
(* is deleted does not come back, its id is a fresh UUID.  DashboardFeed   *)
(* models the events that follow a commit.                                 *)
(***************************************************************************)
EXTENDS Integers, Sequences, FiniteSets

CONSTANTS
    Hosts,        \* the ids of the hosts
    Requests,     \* goroutines of the server that handle a request
    MaxSnapshots, \* maxSnapshotsPerHost (500 in the code)
    Limit,        \* half the range of a reported counter (2^63 in the code)
    MaxTime,      \* bound on the clock's readings
    MaxReports    \* bound on the reports sent

ASSUME RequestsAssumption == IsFiniteSet(Requests)
ASSUME MaxSnapshotsAssumption == MaxSnapshots \in Nat \ {0}
ASSUME LimitAssumption == Limit \in Nat \ {0}
ASSUME BoundsAssumption == MaxTime \in Nat \ {0} /\ MaxReports \in Nat

VARIABLES
    driver,    \* the database of the configuration, for good
    hosts,     \* table host
    snapshots, \* table host_metric_snapshot
    metrics,   \* table host_metric
    infos,     \* table host_system_info: the report a host's row is from, or 0
    gpus,      \* table host_system_info_gpu
    sent,      \* the reports received so far; the position is the report's id
    committed, \* every row of host_metric_snapshot that was ever committed
    request    \* request[r]: where the handler of request r stands

tables == <<hosts, snapshots, metrics, infos, gpus, committed>>
vars == <<driver, tables, sent, request>>

\* A counter takes the values on either side of the largest that can be
\* stored.  A snapshot has one metric.
Counters == {Limit - 1, Limit}
Report   == [host : Hosts, time : 1 .. MaxTime, bytes : Counters, gpus : {0, 2}]
Row      == [id : 1 .. MaxReports, host : Hosts, time : 1 .. MaxTime]
Metric   == [snapshot : 1 .. MaxReports, bytes : 0 .. Limit - 1]
Info     == [host : Hosts, report : 1 .. MaxReports]
Gpu      == [host : Hosts, position : 1 .. 2, report : 1 .. MaxReports]

\* The steps at which a transaction is open.
Open == {"inserted", "trimming", "trimmed", "upserted"}

\* rows: what the first statement of a read found, or the rows a transaction
\* deletes; left: those whose metrics are still to be read; found: what the
\* later statements of a read found.
Request == [step   : {"idle", "posting", "informing", "listing", "stepping",
                      "listed", "asking", "described"} \cup Open,
            report : 0 .. MaxReports,
            rows   : (SUBSET Row) \cup (SUBSET Info),
            left   : SUBSET Row,
            found  : (SUBSET Metric) \cup (SUBSET Gpu)]

Idle == [step |-> "idle", report |-> 0, rows |-> {}, left |-> {}, found |-> {}]

TypeOK ==
    /\ driver \in {"sqlite", "postgres"}
    /\ hosts \subseteq Hosts
    /\ snapshots \subseteq Row
    /\ metrics \subseteq Metric
    /\ infos \in [Hosts -> 0 .. MaxReports]
    /\ gpus \subseteq Gpu
    /\ sent \in Seq(Report) /\ Len(sent) <= MaxReports
    /\ snapshots \subseteq committed /\ committed \subseteq Row
    /\ request \in [Requests -> Request]

Init ==
    /\ driver \in {"sqlite", "postgres"}
    /\ hosts = Hosts
    /\ snapshots = {} /\ metrics = {} /\ committed = {}
    /\ infos = [h \in Hosts |-> 0] /\ gpus = {}
    /\ sent = << >>
    /\ request = [r \in Requests |-> Idle]

Goto(r, step) == request' = [request EXCEPT ![r].step = step]

\* The repository returns, the service has its events handled and answers.
Done(r) == request' = [request EXCEPT ![r] = Idle]

\* The report that request r brings.
Sent(r) == sent[request[r].report]

-----------------------------------------------------------------------------
(* Snapshots: POST /metrics.                                               *)

OfHost(h, rows) == {row \in rows : row.host = h}

\* Fault: the oldest rows of all.
OldestOf(n, rows) ==
    {row \in rows : Cardinality({other \in rows : other.time < row.time}) < n}

\* order by timestamp desc limit n
NewestOf(n, rows) ==
    {row \in rows : Cardinality({other \in rows : other.time > row.time}) < n}

\* Fault: the sign bit is cut off.
SignedMasked(counter) == counter % Limit

\* int64(uint64)
Signed(counter) ==
    IF counter < Limit THEN counter ELSE counter - 2 * Limit

\* Fault: the table has no check constraint.
StorableUnchecked(counter) == counter \in Counters

\* The check constraint of the counters' columns.
Storable(counter) == Signed(counter) >= 0

\* What a read makes of a column: a negative value is an error.
Readable(stored) == stored >= 0

\* HandleMetrics up to the call of the service: the agent of the request is
\* there, so its host is; the clock's reading need not be the latest.
ReceiveMetric(r, h) ==
    /\ request[r].step = "idle"
    /\ h \in hosts
    /\ Len(sent) < MaxReports
    /\ \E time \in 1 .. MaxTime, bytes \in Counters :
          sent' = Append(sent, [host |-> h, time |-> time, bytes |-> bytes, gpus |-> 0])
    /\ request' = [request EXCEPT ![r] = [Idle EXCEPT !.step = "posting",
                                                      !.report = Len(sent')]]
    /\ UNCHANGED <<driver, tables>>

\* The row that request r inserts, and its metric.
NewRow(r) == [id |-> request[r].report, host |-> Sent(r).host, time |-> Sent(r).time]
NewMetric(r) == [snapshot |-> request[r].report, bytes |-> Signed(Sent(r).bytes)]

\* The constraints of the schema let the row and its metric in.
Insertable(r) ==
    /\ Sent(r).host \in hosts
    /\ \A row \in OfHost(Sent(r).host, snapshots) : row.time # Sent(r).time
    /\ Storable(Sent(r).bytes)

\* What the transaction of r sees of its host.
Seen(r) == OfHost(Sent(r).host, snapshots) \cup {NewRow(r)}

\* The rows that the insert's last statement deletes.
Older(r) == Seen(r) \ NewestOf(MaxSnapshots, Seen(r))

\* The transaction's changes; metrics go with their snapshot.
StoreSnapshot(r, doomed) ==
    /\ snapshots' = (snapshots \ doomed) \cup {NewRow(r)}
    /\ metrics' = {m \in metrics : \A row \in doomed : m.snapshot # row.id}
                     \cup {NewMetric(r)}
    /\ committed' = committed \cup {NewRow(r)}
    /\ UNCHANGED <<hosts, infos, gpus>>

\* CreateHostMetricSnapshot of SQLite.  A snapshot that is itself among the
\* rows deleted is not found afterwards, and the transaction is given up.
CreateSnapshot(r) ==
    /\ driver = "sqlite"
    /\ request[r].step = "posting"
    /\ \/ Insertable(r) /\ NewRow(r) \notin Older(r) /\ StoreSnapshot(r, Older(r))
       \/ ~(Insertable(r) /\ NewRow(r) \notin Older(r)) /\ UNCHANGED tables
    /\ Done(r)
    /\ UNCHANGED <<driver, sent>>

\* CreateHostMetricSnapshot of PostgreSQL, the inserts.  They wait for a
\* transaction that has inserted the same key.
InsertSnapshot(r) ==
    /\ driver = "postgres"
    /\ request[r].step = "posting"
    /\ \A q \in Requests : request[q].step \in {"inserted", "trimming", "trimmed"} =>
          <<Sent(q).host, Sent(q).time>> # <<Sent(r).host, Sent(r).time>>
    /\ IF Insertable(r) THEN Goto(r, "inserted") ELSE Done(r)
    /\ UNCHANGED <<driver, tables, sent>>

\* The delete starts, and sees the rows there are.
SelectOlder(r) ==
    /\ request[r].step = "inserted"
    /\ request' = [request EXCEPT ![r].step = "trimming", ![r].rows = Older(r)]
    /\ UNCHANGED <<driver, tables, sent>>

\* Fault: the delete locks the host as well, which every insert holds in
\* share.
DeleteOlderLocked(r) ==
    /\ request[r].step = "trimming"
    /\ \A q \in Requests \ {r} :
          request[q].step \in {"inserted", "trimming", "trimmed"} => Sent(q).host # Sent(r).host
    /\ Goto(r, "trimmed")
    /\ UNCHANGED <<driver, tables, sent>>

\* It waits for the transactions that delete some of these rows, too, and
\* skips those that are gone then.  The rows are locked all at once: several
\* are, if any are, in the order of one index.
DeleteOlder(r) ==
    /\ request[r].step = "trimming"
    /\ \A q \in Requests : request[q].step = "trimmed" =>
          request[q].rows \cap request[r].rows = {}
    /\ Goto(r, "trimmed")
    /\ UNCHANGED <<driver, tables, sent>>

\* It reads its own snapshot and commits.
CommitSnapshot(r) ==
    /\ request[r].step = "trimmed"
    /\ \/ NewRow(r) \notin request[r].rows /\ StoreSnapshot(r, request[r].rows)
       \/ NewRow(r) \in request[r].rows /\ UNCHANGED tables
    /\ Done(r)
    /\ UNCHANGED <<driver, sent>>

-----------------------------------------------------------------------------
(* System information: POST /hosts/{id}/system-info.                       *)

\* UpsertHostSystemInfo of the API up to the call of the service.
ReceiveInfo(r, h) ==
    /\ request[r].step = "idle"
    /\ h \in hosts
    /\ Len(sent) < MaxReports
    /\ \E bytes \in Counters, number \in {0, 2} :
          sent' = Append(sent, [host |-> h, time |-> 1, bytes |-> bytes, gpus |-> number])
    /\ request' = [request EXCEPT ![r] = [Idle EXCEPT !.step = "informing",
                                                      !.report = Len(sent')]]
    /\ UNCHANGED <<driver, tables>>

\* The rows of host_system_info_gpu that report n makes.
GpusOf(n) == [host : {sent[n].host}, position : 1 .. sent[n].gpus, report : {n}]

\* Fault: new rows are put over those at their positions, and the rest stay.
ReplacedGpusByPosition(h, new) ==
    {gpu \in gpus : gpu.host = h => \A other \in new : other.position # gpu.position} \cup new

\* The host's rows are deleted before the new ones are inserted.
ReplacedGpus(h, new) == {gpu \in gpus : gpu.host # h} \cup new

\* The transaction's changes: the host's row is inserted or updated.
StoreInfo(r) ==
    /\ infos' = [infos EXCEPT ![Sent(r).host] = request[r].report]
    /\ gpus' = ReplacedGpus(Sent(r).host, GpusOf(request[r].report))
    /\ UNCHANGED <<hosts, snapshots, metrics, committed>>

Upsertable(r) == Sent(r).host \in hosts /\ Storable(Sent(r).bytes)

\* UpsertHostSystemInfo of SQLite.
UpsertSystemInfo(r) ==
    /\ driver = "sqlite"
    /\ request[r].step = "informing"
    /\ IF Upsertable(r) THEN StoreInfo(r) ELSE UNCHANGED tables
    /\ Done(r)
    /\ UNCHANGED <<driver, sent>>

\* UpsertHostSystemInfo of PostgreSQL, up to its commit: the row is locked,
\* and what is done to the list of GPUs is nobody else's to see.
UpsertRow(r) ==
    /\ driver = "postgres"
    /\ request[r].step = "informing"
    /\ \A q \in Requests : request[q].step = "upserted" => Sent(q).host # Sent(r).host
    /\ IF Upsertable(r) THEN Goto(r, "upserted") ELSE Done(r)
    /\ UNCHANGED <<driver, tables, sent>>

CommitInfo(r) ==
    /\ request[r].step = "upserted"
    /\ StoreInfo(r)
    /\ Done(r)
    /\ UNCHANGED <<driver, sent>>

-----------------------------------------------------------------------------
(* Reads.                                                                  *)

Read(r, step, rows) ==
    /\ request[r].step = "idle"
    /\ request' = [request EXCEPT ![r] =
          [Idle EXCEPT !.step = step, !.rows = rows,
                       !.left = IF step \in {"listing", "stepping"} THEN rows ELSE {}]]
    /\ UNCHANGED <<driver, tables, sent>>

\* ListHostMetricSnapshots of SQLite.
ListSnapshots(r, h) == driver = "sqlite" /\ Read(r, "listing", OfHost(h, snapshots))

\* ListHostMetricSnapshots of PostgreSQL, which asks for the metrics of one
\* snapshot after the other.
ListStepwise(r, h) == driver = "postgres" /\ Read(r, "stepping", OfHost(h, snapshots))

\* row_number() over (partition by host_id order by timestamp desc) <= limit
Ranked(limit) == UNION {NewestOf(limit, OfHost(h, snapshots)) : h \in hosts}

\* ListRecentHostMetricSnapshotsByHostIDs, of all hosts there are.
ListRecent(r, limit) == Read(r, "listing", Ranked(limit))

\* ListLatestHostMetricSnapshotsByHostIDs: distinct on (host_id).
ListLatest(r) ==
    Read(r, "listing",
         {row \in snapshots : \A other \in OfHost(row.host, snapshots) : other.time <= row.time})

\* The metrics of some rows of host_metric_snapshot.
MetricsOf(rows) == {m \in metrics : \E row \in rows : m.snapshot = row.id}

\* Request r has asked for the metrics of some rows.  One that is not
\* readable fails the whole list.
Asked(r, rows) ==
    IF \A m \in MetricsOf(rows) : Readable(m.bytes)
    THEN request' = [request EXCEPT
            ![r].left = @ \ rows, ![r].found = @ \cup MetricsOf(rows),
            ![r].step = IF request[r].left \subseteq rows THEN "listed" ELSE @]
    ELSE Done(r)

\* listHostMetricsBySnapshotID
ReadNextMetrics(r) ==
    /\ request[r].step = "stepping"
    /\ Asked(r, NewestOf(1, request[r].left))
    /\ UNCHANGED <<driver, tables, sent>>

\* loadMetrics asks for all of them.
LoadMetrics(r) ==
    /\ request[r].step = "listing"
    /\ Asked(r, request[r].left)
    /\ UNCHANGED <<driver, tables, sent>>

\* The rows of some hosts; the GPUs follow.
ReadInfos(r, some) ==
    LET rows == {[host |-> h, report |-> infos[h]] : h \in {i \in some : infos[i] # 0}}
    IN  /\ \A row \in rows : Readable(Signed(sent[row.report].bytes))
        /\ Read(r, "asking", rows)

\* GetHostSystemInfoByHostID; a host without a row answers 404 at once.
GetInfo(r, h) == infos[h] # 0 /\ ReadInfos(r, {h})

\* ListHostSystemInfosByHostIDs, of all hosts there are.
ListInfos(r) == ReadInfos(r, hosts)

\* The second statement of both.
ReadGpus(r) ==
    /\ request[r].step = "asking"
    /\ request' = [request EXCEPT ![r].step = "described",
                                  ![r].found = {gpu \in gpus : \E info \in request[r].rows :
                                                                  info.host = gpu.host}]
    /\ UNCHANGED <<driver, tables, sent>>

Answer(r) ==
    /\ request[r].step \in {"listed", "described"}
    /\ Done(r)
    /\ UNCHANGED <<driver, tables, sent>>

-----------------------------------------------------------------------------
(* What else happens.                                                      *)

\* DeleteHost.  It waits for the transactions that hold the host's row, and
\* all that is known of the host goes with it.
DeleteHost(h) ==
    /\ h \in hosts
    /\ \A r \in Requests : request[r].step \in Open => Sent(r).host # h
    /\ hosts' = hosts \ {h}
    /\ snapshots' = snapshots \ OfHost(h, snapshots)
    /\ metrics' = metrics \ MetricsOf(OfHost(h, snapshots))
    /\ infos' = [infos EXCEPT ![h] = 0]
    /\ gpus' = ReplacedGpus(h, {})
    /\ UNCHANGED <<driver, sent, committed, request>>

\* The client goes away and the request's context is cancelled, a statement
\* waits too long, or the server ends, all its requests then: an open
\* transaction is rolled back.
GiveUp(r) ==
    /\ request[r].step # "idle"
    /\ Done(r)
    /\ UNCHANGED <<driver, tables, sent>>

WriteStep(r) ==
    \/ CreateSnapshot(r) \/ UpsertSystemInfo(r)
    \/ InsertSnapshot(r) \/ SelectOlder(r) \/ DeleteOlder(r) \/ CommitSnapshot(r)
    \/ UpsertRow(r) \/ CommitInfo(r)

ReadStep(r) == LoadMetrics(r) \/ ReadNextMetrics(r) \/ ReadGpus(r) \/ Answer(r)

Arrive(r) ==
    \/ \E h \in Hosts : ReceiveMetric(r, h) \/ ReceiveInfo(r, h)
    \/ \E h \in Hosts : ListSnapshots(r, h) \/ ListStepwise(r, h) \/ GetInfo(r, h)
    \/ \E limit \in 1 .. MaxSnapshots : ListRecent(r, limit)
    \/ ListLatest(r) \/ ListInfos(r)

Next ==
    \/ \E r \in Requests : Arrive(r) \/ WriteStep(r) \/ ReadStep(r) \/ GiveUp(r)
    \/ \E h \in Hosts : DeleteHost(h)

Spec == Init /\ [][Next]_vars

\* The server's goroutines run, and a database grants a lock that is free.
FairSpec == Spec /\ \A r \in Requests : WF_vars(WriteStep(r)) /\ WF_vars(ReadStep(r))

-----------------------------------------------------------------------------
(* Properties.                                                             *)

\* A host that was not deleted has the newest of all snapshots that were ever
\* committed for it: one that is gone is older than as many as may stay.  In
\* PostgreSQL transactions that do not see each other's inserts may leave one
\* more each, not more.  Nothing is left of a host that was deleted.
NewestKept ==
    \A h \in Hosts :
        LET kept == OfHost(h, snapshots)
        IN  /\ h \in hosts => \A row \in OfHost(h, committed) \ kept :
                  Cardinality({k \in kept : k.time > row.time}) >= MaxSnapshots
            /\ h \notin hosts => kept = {}
            /\ Cardinality(kept) <= MaxSnapshots
                  + (IF driver = "sqlite" THEN 0 ELSE Cardinality(Requests) - 1)

\* A snapshot in a list has the metric it was reported with, or it has none
\* and is no longer stored: the list is read by several statements, and rows
\* may be deleted between them.
ListedAsReported ==
    \A r \in Requests : request[r].step = "listed" =>
        \A row \in request[r].rows :
            LET found == {m.bytes : m \in {n \in request[r].found : n.snapshot = row.id}}
            IN  \/ found = {sent[row.id].bytes}
                \/ found = {} /\ row \notin snapshots

\* The GPUs of a host are all of one report and all that report lists: in the
\* tables those of the report the host's row is from, in an answer, which is
\* read by two statements, those of that report or of another one of the host,
\* or none if the host was deleted.
InfoWhole ==
    /\ \A h \in Hosts : {gpu \in gpus : gpu.host = h}
                           = IF infos[h] = 0 THEN {} ELSE GpusOf(infos[h])
    /\ \A r \in Requests : request[r].step = "described" =>
          \A info \in request[r].rows :
              LET found == {gpu \in request[r].found : gpu.host = info.host}
              IN  \/ \E n \in 1 .. Len(sent) :
                        sent[n].host = info.host /\ found = GpusOf(n)
                  \/ found = {} /\ info.host \notin hosts

\* Every request is answered: transactions do not wait for each other in a
\* circle.
RequestsAnswered ==
    \A r \in Requests : request[r].step # "idle" ~> request[r].step = "idle"
=============================================================================
