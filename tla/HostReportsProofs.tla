-------------------------- MODULE HostReportsProofs --------------------------
(***************************************************************************)
(* Theorems about HostReports, for both databases, any number of hosts and *)
(* of concurrent requests and any number of snapshots that may stay.       *)
(***************************************************************************)
EXTENDS HostReports, FiniteSetTheorems, WellFoundedInduction, TLAPS

\* The steps of POST /metrics: those at which the transaction has inserted
\* its row, and those at which it knows which rows it deletes.
Selected == {"trimming", "trimmed"}
Pending  == {"inserted"} \cup Selected
Writing  == {"posting"} \cup Pending

\* A report is brought by one request, and makes a new row.
RequestInv(r) ==
    /\ request[r].step \in Writing \cup {"informing", "upserted"} =>
          request[r].report \in 1 .. Len(sent)
    /\ request[r].step \in Open =>
          /\ driver = "postgres"
          /\ Sent(r).host \in hosts /\ Storable(Sent(r).bytes)
    /\ request[r].step \in Writing =>
          /\ \A row \in committed : row.id # request[r].report
          /\ \A q \in Requests \ {r} : request[q].step \in Writing =>
                request[q].report # request[r].report
    /\ request[r].step \in Selected =>
          /\ request[r].rows \subseteq committed \cup {NewRow(r)}
          /\ \A row \in request[r].rows : row.host = Sent(r).host

\* A row is what its report says; no row is of a host that is gone.
RowsInv ==
    /\ \A row \in committed :
          /\ row.id \in 1 .. Len(sent)
          /\ sent[row.id].host = row.host /\ sent[row.id].time = row.time
    /\ \A row \in snapshots : row.host \in hosts
    /\ IsFiniteSet(snapshots)

\* Each snapshot has a metric, as it was reported, and each metric a snapshot.
MetricsInv ==
    /\ \A m \in metrics :
          /\ \E row \in snapshots : row.id = m.snapshot
          /\ m.bytes = sent[m.snapshot].bytes
    /\ \A row \in snapshots : \E m \in metrics : m.snapshot = row.id

\* The system information of a host is from a report on that host, and so are
\* its GPUs.
InfosInv ==
    \A h \in Hosts :
        /\ infos[h] # 0 => infos[h] \in 1 .. Len(sent) /\ sent[infos[h]].host = h
        /\ {gpu \in gpus : gpu.host = h} = IF infos[h] = 0 THEN {} ELSE GpusOf(infos[h])

BaseInv ==
    /\ TypeOK
    /\ \A r \in Requests : RequestInv(r)
    /\ RowsInv
    /\ MetricsInv
    /\ InfosInv

Listing    == {"listing", "stepping", "listed"}
Describing == {"asking", "described"}

\* A list has the metrics of the rows it has asked for, those apart that have
\* been deleted meanwhile.
ListInv(r) ==
    request[r].step \in Listing =>
        /\ request[r].rows \subseteq committed /\ request[r].left \subseteq request[r].rows
        /\ request[r].step = "listed" => request[r].left = {}
        /\ request[r].found \in SUBSET Metric
        /\ \A m \in request[r].found :
              /\ m.bytes = sent[m.snapshot].bytes
              /\ \E row \in request[r].rows \ request[r].left : m.snapshot = row.id
        /\ \A row \in request[r].rows \ request[r].left :
              (\E m \in request[r].found : m.snapshot = row.id) \/ row \notin snapshots

\* The GPUs in an answer are of one report on the host, or the host is gone.
AnswerWhole(r) ==
    \A info \in request[r].rows :
        LET found == {gpu \in request[r].found : gpu.host = info.host}
        IN  \/ \E n \in 1 .. Len(sent) : sent[n].host = info.host /\ found = GpusOf(n)
            \/ found = {} /\ info.host \notin hosts

\* A host whose row was read still has one, unless the host is gone.
InfoInv(r) ==
    /\ request[r].step \in Describing =>
          \A info \in request[r].rows :
              info.host \in Hosts /\ (infos[info.host] # 0 \/ info.host \notin hosts)
    /\ request[r].step = "described" => AnswerWhole(r)

ReadsInv == \A r \in Requests : ListInv(r) /\ InfoInv(r)

-----------------------------------------------------------------------------
(* Counters and reports.                                                   *)

\* A counter that the constraint lets in is read as it was reported.
LEMMA StorableAsReported ==
    ASSUME NEW counter \in Counters, Storable(counter)
    PROVE  Signed(counter) = counter /\ counter \in 0 .. Limit - 1
BY LimitAssumption DEF Counters, Storable, Signed

\* A slot that is free is well typed.
LEMMA IdleType == Idle \in Request
BY BoundsAssumption DEF Idle, Request

\* The row of a request says what its report says.
LEMMA SentType ==
    ASSUME TypeOK, NEW r \in Requests, request[r].report \in 1 .. Len(sent)
    PROVE  /\ Sent(r) \in Report /\ NewRow(r) \in Row
           /\ NewRow(r).id = request[r].report
           /\ NewRow(r).host = Sent(r).host /\ NewRow(r).time = Sent(r).time
<1>1. Sent(r) \in Report
  BY DEF TypeOK, Sent
<1>2. request[r].report \in 1 .. MaxReports
  BY BoundsAssumption DEF TypeOK
<1> QED
  BY <1>1, <1>2 DEF NewRow, Row, Report

\* The GPUs of a report are those of its host.
LEMMA GpusType ==
    ASSUME TypeOK, NEW n \in 1 .. Len(sent)
    PROVE  GpusOf(n) \subseteq Gpu /\ \A gpu \in GpusOf(n) : gpu.host = sent[n].host
<1>1. sent[n] \in Report /\ n \in 1 .. MaxReports
  BY BoundsAssumption DEF TypeOK
<1>2. sent[n].host \in Hosts /\ 1 .. sent[n].gpus \subseteq 1 .. 2
  BY <1>1 DEF Report
<1> QED
  BY <1>1, <1>2 DEF GpusOf, Gpu

\* No two rows ever had one id.
LEMMA IdsUnique ==
    ASSUME BaseInv, NEW x \in committed, NEW y \in committed, x.id = y.id
    PROVE  x = y
BY DEF BaseInv, TypeOK, RowsInv, Row

\* The tables are empty at first, and no request is under way.
LEMMA InitBaseInv == Init => BaseInv
<1> SUFFICES ASSUME Init
             PROVE  BaseInv
  OBVIOUS
<1>1. sent \in Seq(Report) /\ Len(sent) <= MaxReports
  BY BoundsAssumption DEF Init
<1>2. TypeOK
  BY <1>1, IdleType, BoundsAssumption DEF Init, TypeOK
<1>3. \A r \in Requests : RequestInv(r)
  BY DEF Init, Idle, RequestInv, Writing, Pending, Selected, Open
<1>4. RowsInv /\ MetricsInv /\ InfosInv
  BY FS_EmptySet DEF Init, RowsInv, MetricsInv, InfosInv
<1> QED
  BY <1>2, <1>3, <1>4 DEF BaseInv

-----------------------------------------------------------------------------
(* Steps that leave the tables.                                            *)

\* The conditions under which request r may go on from one step to another.
GoesOn(r) ==
    /\ request'[r].step \in Writing =>
          request[r].step \in Writing /\ request'[r].report = request[r].report
    /\ request'[r].step \in {"informing", "upserted"} =>
          /\ request[r].step \in {"informing", "upserted"}
          /\ request'[r].report = request[r].report
    /\ request'[r].step \in Open =>
          driver = "postgres" /\ Sent(r).host \in hosts /\ Storable(Sent(r).bytes)
    /\ request'[r].step \in Selected =>
          /\ request'[r].rows \subseteq committed \cup {NewRow(r)}
          /\ \A row \in request'[r].rows : row.host = Sent(r).host

\* A step of one request that changes no table, if what it goes on with is right.
LEMMA TablesKept ==
    ASSUME BaseInv, NEW r \in Requests, UNCHANGED <<driver, tables, sent>>,
           request' \in [Requests -> Request], GoesOn(r),
           \A q \in Requests \ {r} : request'[q] = request[q]
    PROVE  BaseInv'
<1>1. TypeOK'
  BY DEF BaseInv, TypeOK, tables
<1>2. RowsInv' /\ MetricsInv' /\ InfosInv'
  BY DEF BaseInv, RowsInv, MetricsInv, InfosInv, GpusOf, tables
<1>3. RequestInv(r)'
  <2>1. CASE request'[r].step \in Writing \cup {"informing", "upserted"}
    <3>1. request'[r].report = request[r].report /\ RequestInv(r)
      BY <2>1 DEF GoesOn, BaseInv
    <3>2. Sent(r)' = Sent(r) /\ NewRow(r)' = NewRow(r)
      BY <3>1 DEF Sent, NewRow
    <3> QED
      BY <3>1, <3>2 DEF GoesOn, RequestInv, tables
  <2>2. CASE request'[r].step \notin Writing \cup {"informing", "upserted"}
    BY <2>2 DEF RequestInv, Writing, Pending, Selected, Open
  <2> QED
    BY <2>1, <2>2
<1>4. ASSUME NEW q \in Requests \ {r}
      PROVE  RequestInv(q)'
  <2>1. Sent(q)' = Sent(q) /\ NewRow(q)' = NewRow(q) /\ RequestInv(q)
    BY <1>4 DEF Sent, NewRow, BaseInv
  <2> QED
    BY <1>4, <2>1 DEF GoesOn, RequestInv, tables
<1> QED
  BY <1>1, <1>2, <1>3, <1>4 DEF BaseInv

\* A request whose next statement is due keeps its report and its rows.
LEMMA GotoType ==
    ASSUME TypeOK, NEW r \in Requests, NEW step \in Open, Goto(r, step)
    PROVE  /\ request' \in [Requests -> Request]
           /\ request'[r].step = step /\ request'[r].report = request[r].report
           /\ request'[r].rows = request[r].rows
           /\ \A q \in Requests \ {r} : request'[q] = request[q]
<1> DEFINE q == [request[r] EXCEPT !.step = step]
<1>1. request[r] \in Request
  BY DEF TypeOK
<1>2. q \in Request
  BY <1>1 DEF Request
<1>3. q.step = step /\ q.report = request[r].report /\ q.rows = request[r].rows
  BY <1>1 DEF Request
<1>4. request' = [request EXCEPT ![r] = q]
  BY DEF Goto
<1> HIDE DEF q
<1> QED
  BY <1>2, <1>3, <1>4 DEF TypeOK

\* A request that has been answered leaves its slot free.
LEMMA DoneType ==
    ASSUME TypeOK, NEW r \in Requests, Done(r)
    PROVE  /\ request' \in [Requests -> Request]
           /\ request'[r] = Idle /\ request'[r].step = "idle"
           /\ \A q \in Requests \ {r} : request'[q] = request[q]
BY IdleType DEF Done, TypeOK, Idle

\* Answering changes nothing else.
LEMMA DoneStep ==
    ASSUME BaseInv, NEW r \in Requests, Done(r), UNCHANGED <<driver, tables, sent>>
    PROVE  BaseInv'
BY DoneType, TablesKept DEF BaseInv, GoesOn, Writing, Pending, Selected, Open

\* The inserts of a transaction are checked against the rows there are.
LEMMA InsertSnapshotStep ==
    ASSUME BaseInv, NEW r \in Requests, InsertSnapshot(r)
    PROVE  BaseInv'
<1>1. CASE Insertable(r) /\ Goto(r, "inserted")
  BY <1>1, GotoType, TablesKept
     DEF InsertSnapshot, Insertable, BaseInv, GoesOn, Writing, Pending, Selected, Open
<1>2. CASE Done(r)
  BY <1>2, DoneStep DEF InsertSnapshot
<1> QED
  BY <1>1, <1>2 DEF InsertSnapshot

\* What the transaction of r deletes is of its host.
LEMMA OlderType ==
    ASSUME BaseInv, NEW r \in Requests, request[r].step \in Writing
    PROVE  /\ Older(r) \subseteq committed \cup {NewRow(r)}
           /\ \A row \in Older(r) : row.host = Sent(r).host
           /\ Older(r) \in SUBSET Row
<1>1. request[r].report \in 1 .. Len(sent) /\ TypeOK
  BY DEF BaseInv, RequestInv
<1> QED
  BY <1>1, SentType DEF Older, Seen, OfHost, TypeOK

\* The rows chosen are of the report's host.
LEMMA SelectOlderStep ==
    ASSUME BaseInv, NEW r \in Requests, SelectOlder(r)
    PROVE  BaseInv'
<1>1. request[r].step = "inserted" /\ RequestInv(r) /\ request[r] \in Request
  BY DEF SelectOlder, BaseInv, TypeOK
<1>2. /\ Older(r) \subseteq committed \cup {NewRow(r)}
      /\ \A row \in Older(r) : row.host = Sent(r).host
      /\ Older(r) \in SUBSET Row
  BY <1>1, OlderType DEF Writing, Pending
<1> DEFINE q == [request[r] EXCEPT !.step = "trimming", !.rows = Older(r)]
<1>3. q \in Request /\ q.step = "trimming" /\ q.rows = Older(r)
      /\ q.report = request[r].report
  BY <1>1, <1>2 DEF Request, Open
<1>4. request' = [request EXCEPT ![r] = q]
  BY DEF SelectOlder
<1> HIDE DEF q
<1>5. /\ request' \in [Requests -> Request] /\ request'[r] = q
      /\ \A p \in Requests \ {r} : request'[p] = request[p]
  BY <1>3, <1>4 DEF BaseInv, TypeOK
<1>6. GoesOn(r)
  BY <1>1, <1>2, <1>3, <1>5 DEF GoesOn, RequestInv, Writing, Pending, Selected, Open
<1> QED
  BY <1>5, <1>6, TablesKept DEF SelectOlder

\* Locking the rows chosen changes none of them.
LEMMA DeleteOlderStep ==
    ASSUME BaseInv, NEW r \in Requests, DeleteOlder(r)
    PROVE  BaseInv'
<1>1. request[r].step = "trimming" /\ RequestInv(r)
  BY DEF DeleteOlder, BaseInv
<1>2. GoesOn(r)
  BY <1>1, GotoType
     DEF DeleteOlder, BaseInv, RequestInv, GoesOn, Writing, Pending, Selected, Open
<1> QED
  BY <1>2, GotoType, TablesKept DEF DeleteOlder, BaseInv, Open

\* A row of system information is locked for a host there is.
LEMMA UpsertRowStep ==
    ASSUME BaseInv, NEW r \in Requests, UpsertRow(r)
    PROVE  BaseInv'
<1>1. CASE Upsertable(r) /\ Goto(r, "upserted")
  BY <1>1, GotoType, TablesKept
     DEF UpsertRow, Upsertable, BaseInv, GoesOn, Writing, Pending, Selected, Open
<1>2. CASE Done(r)
  BY <1>2, DoneStep DEF UpsertRow
<1> QED
  BY <1>1, <1>2 DEF UpsertRow

\* Steps of a read, and its start.
LEMMA ReadingStep ==
    ASSUME BaseInv, NEW r \in Requests, UNCHANGED <<driver, tables, sent>>,
           NEW q \in Request, request' = [request EXCEPT ![r] = q],
           q.step \notin Writing \cup {"informing", "upserted"}
    PROVE  BaseInv'
BY TablesKept DEF BaseInv, TypeOK, GoesOn, Writing, Pending, Selected, Open

-----------------------------------------------------------------------------
(* A report arrives.                                                       *)

LEMMA ArriveStep ==
    ASSUME BaseInv, NEW r \in Requests, UNCHANGED <<driver, tables>>,
           NEW report \in Report, Len(sent) < MaxReports, sent' = Append(sent, report),
           NEW step \in {"posting", "informing"},
           request' = [request EXCEPT ![r] = [Idle EXCEPT !.step = step,
                                                          !.report = Len(sent')]]
    PROVE  BaseInv'
<1> DEFINE q == [Idle EXCEPT !.step = step, !.report = Len(sent')]
           n == Len(sent) + 1
<1>1. /\ sent' \in Seq(Report) /\ Len(sent') = n /\ n \in 1 .. MaxReports
      /\ \A i \in 1 .. Len(sent) : sent'[i] = sent[i] /\ i \in 1 .. Len(sent')
      /\ n \notin 1 .. Len(sent) /\ n \in 1 .. Len(sent')
  BY BoundsAssumption DEF BaseInv, TypeOK
<1>2. q \in Request /\ q.step = step /\ q.report = n
  <2>1. Idle \in Request /\ n \in 0 .. MaxReports
    BY <1>1, IdleType
  <2> HIDE DEF n
  <2> QED
    BY <1>1, <2>1 DEF Request
<1> HIDE DEF q
<1>3. /\ request' \in [Requests -> Request] /\ request'[r] = q
      /\ \A p \in Requests \ {r} : request'[p] = request[p]
  BY <1>2 DEF BaseInv, TypeOK, q
<1>4. TypeOK'
  BY <1>1, <1>3 DEF BaseInv, TypeOK, tables
<1>5. RowsInv'
  BY <1>1 DEF BaseInv, RowsInv, tables
<1>6. MetricsInv'
  <2>1. \A m \in metrics : m.snapshot \in 1 .. Len(sent)
    BY DEF BaseInv, MetricsInv, RowsInv, TypeOK
  <2> QED
    BY <1>1, <2>1 DEF BaseInv, MetricsInv, tables
<1>7. InfosInv'
  <2> SUFFICES ASSUME NEW h \in Hosts
               PROVE  /\ infos'[h] # 0 => infos'[h] \in 1 .. Len(sent') /\ sent'[infos'[h]].host = h
                      /\ {gpu \in gpus' : gpu.host = h}
                            = IF infos'[h] = 0 THEN {} ELSE GpusOf(infos[h])'
    BY DEF InfosInv, tables
  <2>1. infos[h] \in 1 .. Len(sent) => GpusOf(infos[h])' = GpusOf(infos[h])
    BY <1>1 DEF GpusOf, tables
  <2> QED
    BY <1>1, <2>1 DEF BaseInv, InfosInv, tables
<1>8. RequestInv(r)'
  <2>1. \A row \in committed' : row.id # n
    BY <1>1 DEF BaseInv, RowsInv, tables
  <2>2. \A p \in Requests \ {r} : request'[p].step \in Writing => request'[p].report # n
    BY <1>1, <1>3 DEF BaseInv, RequestInv
  <2> QED
    BY <1>1, <1>2, <1>3, <2>1, <2>2 DEF RequestInv, Writing, Pending, Selected, Open
<1>9. ASSUME NEW p \in Requests \ {r}
      PROVE  RequestInv(p)'
  <2>1. RequestInv(p) /\ request'[p] = request[p]
    BY <1>3 DEF BaseInv
  <2>2. CASE request[p].step \in Writing \cup {"informing", "upserted"}
    <3>1. request[p].report \in 1 .. Len(sent)
      BY <2>1, <2>2 DEF RequestInv
    <3>2. Sent(p)' = Sent(p) /\ NewRow(p)' = NewRow(p) /\ n # request[p].report
      BY <1>1, <2>1, <3>1 DEF Sent, NewRow
    <3>3. request[p].step \in Writing =>
             \A o \in Requests \ {p} : request'[o].step \in Writing =>
                 request'[o].report # request[p].report
      BY <1>2, <1>3, <2>1, <3>2 DEF RequestInv
    <3> QED
      BY <1>1, <2>1, <3>1, <3>2, <3>3 DEF RequestInv, tables
  <2>3. CASE request[p].step \notin Writing \cup {"informing", "upserted"}
    BY <2>1, <2>3 DEF RequestInv, Writing, Pending, Selected, Open
  <2> QED
    BY <2>2, <2>3
<1> QED
  BY <1>4, <1>5, <1>6, <1>7, <1>8, <1>9 DEF BaseInv

-----------------------------------------------------------------------------
(* Transactions that commit.                                               *)

\* The others are where they were, and no row has the id of one to come.
LEMMA OthersKept ==
    ASSUME BaseInv, NEW r \in Requests, Done(r), UNCHANGED <<driver, hosts, sent>>,
           committed \subseteq committed',
           \A row \in committed' \ committed :
               request[r].step \in Writing /\ row.id = request[r].report
    PROVE  \A p \in Requests : RequestInv(p)'
<1>1. /\ request'[r].step = "idle"
      /\ \A q \in Requests \ {r} : request'[q] = request[q]
  BY DoneType DEF BaseInv
<1>2. RequestInv(r)'
  BY <1>1 DEF RequestInv, Writing, Pending, Selected, Open
<1>3. ASSUME NEW p \in Requests \ {r}
      PROVE  RequestInv(p)'
  <2>1. Sent(p)' = Sent(p) /\ NewRow(p)' = NewRow(p) /\ RequestInv(p)
    BY <1>1 DEF Sent, NewRow, BaseInv
  <2>2. "idle" \notin Writing
    BY DEF Writing, Pending, Selected
  <2>3. request[p].step \in Writing => \A row \in committed' : row.id # request[p].report
    BY <2>1 DEF RequestInv
  <2> QED
    BY <1>1, <2>1, <2>2, <2>3 DEF RequestInv
<1> QED
  BY <1>2, <1>3

\* A snapshot comes with its metric, and those that go take theirs along.
LEMMA StoreSnapshotStep ==
    ASSUME BaseInv, NEW r \in Requests, request[r].step \in Writing, Done(r),
           Sent(r).host \in hosts, Storable(Sent(r).bytes),
           NEW doomed, doomed \subseteq committed \cup {NewRow(r)}, NewRow(r) \notin doomed,
           StoreSnapshot(r, doomed), UNCHANGED <<driver, sent>>
    PROVE  BaseInv'
<1> DEFINE new == NewRow(r)
           metric == NewMetric(r)
<1>1. /\ request[r].report \in 1 .. Len(sent)
      /\ \A row \in committed : row.id # request[r].report
  BY DEF BaseInv, RequestInv
<1>2. /\ Sent(r) \in Report /\ new \in Row /\ new.id = request[r].report
      /\ new.host = Sent(r).host /\ new.time = Sent(r).time
  BY <1>1, SentType DEF BaseInv
<1>3. /\ metric \in Metric /\ metric.snapshot = new.id
      /\ metric.bytes = sent[new.id].bytes
  <2>1. Sent(r).bytes \in Counters
    BY <1>2 DEF Report
  <2>2. Signed(Sent(r).bytes) = Sent(r).bytes /\ Sent(r).bytes \in 0 .. Limit - 1
    BY <2>1, StorableAsReported
  <2>3. request[r].report \in 1 .. MaxReports
    BY <1>2 DEF Row
  <2> QED
    BY <1>2, <2>2, <2>3 DEF NewMetric, Metric, Sent
<1>4. /\ snapshots' = (snapshots \ doomed) \cup {new}
      /\ metrics' = {m \in metrics : \A row \in doomed : m.snapshot # row.id} \cup {metric}
      /\ committed' = committed \cup {new}
      /\ UNCHANGED <<hosts, infos, gpus>>
  BY DEF StoreSnapshot
<1> HIDE DEF new, metric
<1>5. new \notin doomed /\ doomed \subseteq committed
  BY DEF new
<1>6. TypeOK'
  BY <1>2, <1>3, <1>4, DoneType DEF BaseInv, TypeOK
<1>7. RowsInv'
  <2>1. IsFiniteSet(snapshots')
    <3>1. snapshots \ doomed \in SUBSET snapshots
      OBVIOUS
    <3>2. IsFiniteSet(snapshots \ doomed)
      BY <3>1, FS_Subset DEF BaseInv, RowsInv
    <3> QED
      BY <1>4, <3>2, FS_AddElement
  <2>2. /\ new.id \in 1 .. Len(sent) /\ sent[new.id].host = new.host
        /\ sent[new.id].time = new.time
    BY <1>1, <1>2 DEF Sent
  <2> QED
    BY <1>2, <1>4, <2>1, <2>2 DEF BaseInv, RowsInv
<1>8. MetricsInv'
  <2>1. ASSUME NEW m \in metrics'
        PROVE  /\ \E row \in snapshots' : row.id = m.snapshot
               /\ m.bytes = sent'[m.snapshot].bytes
    <3>1. CASE m = metric
      BY <1>3, <1>4, <3>1
    <3>2. CASE m \in metrics /\ \A row \in doomed : m.snapshot # row.id
      BY <1>4, <3>2 DEF BaseInv, MetricsInv
    <3> QED
      BY <1>4, <3>1, <3>2
  <2>2. ASSUME NEW row \in snapshots'
        PROVE  \E m \in metrics' : m.snapshot = row.id
    <3>1. CASE row = new
      BY <1>3, <1>4, <3>1
    <3>2. CASE row \in snapshots \ doomed
      <4>1. \A other \in doomed : other.id # row.id
        BY <1>5, <3>2, IdsUnique DEF BaseInv, TypeOK
      <4> QED
        BY <1>4, <3>2, <4>1 DEF BaseInv, MetricsInv
    <3> QED
      BY <1>4, <3>1, <3>2
  <2> QED
    BY <2>1, <2>2 DEF MetricsInv
<1>9. InfosInv'
  BY <1>4 DEF BaseInv, InfosInv, GpusOf
<1>10. \A p \in Requests : RequestInv(p)'
  BY <1>2, <1>4, OthersKept
<1> QED
  BY <1>6, <1>7, <1>8, <1>9, <1>10 DEF BaseInv

\* The GPUs of a host are replaced with its system information.
LEMMA StoreInfoStep ==
    ASSUME BaseInv, NEW r \in Requests, request[r].step \in {"informing", "upserted"},
           Done(r), StoreInfo(r), UNCHANGED <<driver, sent>>
    PROVE  BaseInv'
<1> DEFINE n == request[r].report
           h == Sent(r).host
           new == GpusOf(n)
<1>1. n \in 1 .. Len(sent) /\ n \in 1 .. MaxReports
  BY BoundsAssumption DEF BaseInv, RequestInv, TypeOK
<1>2. h \in Hosts /\ h = sent[n].host
  BY <1>1, SentType DEF BaseInv, Report, Sent
<1>3. new \subseteq Gpu /\ \A gpu \in new : gpu.host = h
  BY <1>1, <1>2, GpusType DEF BaseInv
<1>4. /\ infos' = [infos EXCEPT ![h] = n]
      /\ gpus' = {gpu \in gpus : gpu.host # h} \cup new
      /\ UNCHANGED <<hosts, snapshots, metrics, committed>>
  BY DEF StoreInfo, ReplacedGpus
<1>5. \A i : GpusOf(i)' = GpusOf(i)
  BY DEF GpusOf
<1> HIDE DEF new, h
<1>6. TypeOK'
  BY <1>1, <1>2, <1>3, <1>4, DoneType DEF BaseInv, TypeOK
<1>7. RowsInv' /\ MetricsInv'
  BY <1>4 DEF BaseInv, RowsInv, MetricsInv
<1>8. InfosInv'
  <2>1. ASSUME NEW i \in Hosts
        PROVE  /\ infos'[i] # 0 => infos'[i] \in 1 .. Len(sent') /\ sent'[infos'[i]].host = i
               /\ {gpu \in gpus' : gpu.host = i}
                     = IF infos'[i] = 0 THEN {} ELSE GpusOf(infos'[i])
    <3>1. CASE i = h
      <4>1. infos'[i] = n /\ n # 0
        BY <1>1, <1>2, <1>4, <3>1 DEF BaseInv, TypeOK
      <4>2. {gpu \in gpus' : gpu.host = i} = new
        BY <1>3, <1>4, <3>1
      <4> QED
        BY <1>1, <1>2, <3>1, <4>1, <4>2 DEF new
    <3>2. CASE i # h
      <4>1. infos'[i] = infos[i]
        BY <1>4, <3>2 DEF BaseInv, TypeOK
      <4>2. {gpu \in gpus' : gpu.host = i} = {gpu \in gpus : gpu.host = i}
        BY <1>3, <1>4, <3>2
      <4> QED
        BY <4>1, <4>2 DEF BaseInv, InfosInv
    <3> QED
      BY <3>1, <3>2
  <2> QED
    BY <1>5, <2>1 DEF InfosInv, GpusOf
<1>9. \A p \in Requests : RequestInv(p)'
  BY <1>4, OthersKept
<1> QED
  BY <1>6, <1>7, <1>8, <1>9 DEF BaseInv

\* Snapshots, metrics, information and GPUs go with their host.
LEMMA DeleteHostStep ==
    ASSUME BaseInv, NEW h \in Hosts, DeleteHost(h)
    PROVE  BaseInv'
<1>1. /\ hosts' = hosts \ {h}
      /\ snapshots' = {row \in snapshots : row.host # h}
      /\ metrics' = {m \in metrics : \A row \in OfHost(h, snapshots) : m.snapshot # row.id}
      /\ infos' = [infos EXCEPT ![h] = 0]
      /\ gpus' = {gpu \in gpus : gpu.host # h}
      /\ UNCHANGED <<driver, sent, committed, request>>
      /\ \A r \in Requests : request[r].step \in Open => Sent(r).host # h
  BY DEF DeleteHost, OfHost, MetricsOf, ReplacedGpus
<1>2. TypeOK'
  BY <1>1, BoundsAssumption DEF BaseInv, TypeOK
<1>3. RowsInv'
  <2>1. snapshots' \in SUBSET snapshots
    BY <1>1
  <2>2. IsFiniteSet(snapshots')
    BY <2>1, FS_Subset DEF BaseInv, RowsInv
  <2> QED
    BY <1>1, <2>2 DEF BaseInv, RowsInv
<1>4. MetricsInv'
  <2>1. ASSUME NEW m \in metrics'
        PROVE  /\ \E row \in snapshots' : row.id = m.snapshot
               /\ m.bytes = sent'[m.snapshot].bytes
    BY <1>1 DEF BaseInv, MetricsInv, OfHost
  <2>2. ASSUME NEW row \in snapshots'
        PROVE  \E m \in metrics' : m.snapshot = row.id
    <3>1. \A other \in OfHost(h, snapshots) : other.id # row.id
      BY <1>1, IdsUnique DEF BaseInv, TypeOK, OfHost
    <3> QED
      BY <1>1, <3>1 DEF BaseInv, MetricsInv
  <2> QED
    BY <2>1, <2>2 DEF MetricsInv
<1>5. InfosInv'
  <2>1. ASSUME NEW i \in Hosts
        PROVE  /\ infos'[i] # 0 => infos'[i] \in 1 .. Len(sent') /\ sent'[infos'[i]].host = i
               /\ {gpu \in gpus' : gpu.host = i}
                     = IF infos'[i] = 0 THEN {} ELSE GpusOf(infos'[i])
    <3>1. CASE i = h
      BY <1>1, <3>1 DEF BaseInv, TypeOK
    <3>2. CASE i # h
      <4>1. infos'[i] = infos[i]
        BY <1>1, <3>2 DEF BaseInv, TypeOK
      <4>2. {gpu \in gpus' : gpu.host = i} = {gpu \in gpus : gpu.host = i}
        BY <1>1, <3>2
      <4> QED
        BY <1>1, <4>1, <4>2 DEF BaseInv, InfosInv
    <3> QED
      BY <3>1, <3>2
  <2> QED
    BY <1>1, <2>1 DEF InfosInv, GpusOf
<1>6. ASSUME NEW p \in Requests
      PROVE  RequestInv(p)'
  <2>1. Sent(p)' = Sent(p) /\ NewRow(p)' = NewRow(p) /\ RequestInv(p)
    BY <1>1 DEF Sent, NewRow, BaseInv
  <2> QED
    BY <1>1, <2>1 DEF RequestInv
<1> QED
  BY <1>2, <1>3, <1>4, <1>5, <1>6 DEF BaseInv

-----------------------------------------------------------------------------
(* Every step.                                                             *)

\* The request that reads, from Idle or on its way.
LEMMA ReadStart ==
    ASSUME BaseInv, NEW r \in Requests, NEW step \in {"listing", "stepping", "asking"},
           NEW rows \in (SUBSET Row) \cup (SUBSET Info), Read(r, step, rows),
           step # "asking" => rows \in SUBSET Row
    PROVE  /\ BaseInv' /\ request[r].step = "idle"
           /\ request'[r].step = step /\ request'[r].rows = rows
           /\ request'[r].left = IF step = "asking" THEN {} ELSE rows
           /\ request'[r].found = {}
           /\ \A q \in Requests \ {r} : request'[q] = request[q]
           /\ UNCHANGED <<driver, tables, sent>>
<1> DEFINE left == IF step \in {"listing", "stepping"} THEN rows ELSE {}
           q    == [Idle EXCEPT !.step = step, !.rows = rows, !.left = left]
<1>1. left \in SUBSET Row
  OBVIOUS
<1>2. Idle \in Request /\ Idle.found = {}
  BY IdleType DEF Idle
<1>3. request' = [request EXCEPT ![r] = q] /\ left = IF step = "asking" THEN {} ELSE rows
  BY DEF Read
<1> HIDE DEF left
<1>4. /\ q \in Request /\ q.step = step /\ q.rows = rows /\ q.left = left
      /\ q.found = {}
  BY <1>1, <1>2 DEF Request
<1> HIDE DEF q
<1>5. /\ request'[r] = q /\ \A p \in Requests \ {r} : request'[p] = request[p]
  BY <1>3 DEF BaseInv, TypeOK
<1>6. q.step \notin Writing \cup {"informing", "upserted"}
  BY <1>4 DEF Writing, Pending, Selected
<1>7. BaseInv'
  BY <1>3, <1>4, <1>6, ReadingStep DEF Read
<1> QED
  BY <1>3, <1>4, <1>5, <1>7 DEF Read

\* What a statement that reads the metrics of some rows finds.
LEMMA AskedStep ==
    ASSUME BaseInv, NEW r \in Requests, request[r].step \in {"listing", "stepping"},
           request[r].found \in SUBSET Metric,
           NEW rows, Asked(r, rows), UNCHANGED <<driver, tables, sent>>
    PROVE  /\ BaseInv'
           /\ \A q \in Requests \ {r} : request'[q] = request[q]
           /\ \/ request'[r].step = "idle"
              \/ /\ request'[r].rows = request[r].rows
                 /\ request'[r].left = request[r].left \ rows
                 /\ request'[r].found = request[r].found \cup MetricsOf(rows)
                 /\ \/ request'[r].step = "listed" /\ request[r].left \subseteq rows
                    \/ request'[r].step = request[r].step
<1>1. CASE Done(r)
  BY <1>1, DoneStep, DoneType DEF BaseInv
<1>2. CASE request' = [request EXCEPT
            ![r].left = @ \ rows, ![r].found = @ \cup MetricsOf(rows),
            ![r].step = IF request[r].left \subseteq rows THEN "listed" ELSE @]
  <2> DEFINE left  == request[r].left \ rows
             found == request[r].found \cup MetricsOf(rows)
             step  == IF request[r].left \subseteq rows THEN "listed" ELSE request[r].step
             q == [request[r] EXCEPT !.left = left, !.found = found, !.step = step]
  <2>1. request[r] \in Request
    BY DEF BaseInv, TypeOK
  <2>2. found \in SUBSET Metric
    BY DEF MetricsOf, BaseInv, TypeOK
  <2>3. left \in SUBSET Row
    BY <2>1 DEF Request
  <2>4. step \in {"listing", "stepping", "listed"}
    OBVIOUS
  <2>5. request' = [request EXCEPT ![r] = q]
    BY <1>2, <2>1 DEF Request
  <2>6. /\ left = request[r].left \ rows /\ found = request[r].found \cup MetricsOf(rows)
        /\ \/ step = "listed" /\ request[r].left \subseteq rows
           \/ step = request[r].step
    OBVIOUS
  <2> HIDE DEF left, found, step
  <2>7. /\ q \in Request /\ q.left = left /\ q.found = found /\ q.step = step
        /\ q.rows = request[r].rows
    BY <2>1, <2>2, <2>3, <2>4 DEF Request
  <2> HIDE DEF q
  <2>8. /\ request'[r] = q /\ \A p \in Requests \ {r} : request'[p] = request[p]
    BY <2>5 DEF BaseInv, TypeOK
  <2>9. q.step \notin Writing \cup {"informing", "upserted"}
    BY <2>4, <2>7 DEF Writing, Pending, Selected
  <2>10. BaseInv'
    BY <2>5, <2>7, <2>9, ReadingStep
  <2> QED
    BY <2>6, <2>7, <2>8, <2>10
<1> QED
  BY <1>1, <1>2 DEF Asked

\* The GPUs are read for the hosts found, in a statement of its own.
LEMMA ReadGpusStep ==
    ASSUME BaseInv, NEW r \in Requests, ReadGpus(r)
    PROVE  /\ BaseInv' /\ request'[r].step = "described" /\ request'[r].rows = request[r].rows
           /\ request'[r].found = {gpu \in gpus : \E info \in request[r].rows :
                                                    info.host = gpu.host}
           /\ \A q \in Requests \ {r} : request'[q] = request[q]
           /\ UNCHANGED <<driver, tables, sent>>
<1> DEFINE found == {gpu \in gpus : \E info \in request[r].rows : info.host = gpu.host}
           q == [request[r] EXCEPT !.step = "described", !.found = found]
<1>1. request[r] \in Request /\ found \in SUBSET Gpu
  BY DEF BaseInv, TypeOK
<1>2. request' = [request EXCEPT ![r] = q]
  BY DEF ReadGpus
<1> HIDE DEF found
<1>3. /\ q \in Request /\ q.step = "described" /\ q.rows = request[r].rows
      /\ q.found = found
  <2>1. found \in (SUBSET Metric) \cup (SUBSET Gpu)
    BY <1>1
  <2> QED
    BY <1>1, <2>1 DEF Request
<1> HIDE DEF q
<1>4. /\ request'[r] = q /\ \A p \in Requests \ {r} : request'[p] = request[p]
  BY <1>2 DEF BaseInv, TypeOK
<1>5. q.step \notin Writing \cup {"informing", "upserted"}
  BY <1>3 DEF Writing, Pending, Selected
<1>6. BaseInv'
  BY <1>2, <1>3, <1>5, ReadingStep DEF ReadGpus
<1> QED
  BY <1>3, <1>4, <1>6 DEF ReadGpus, found

-----------------------------------------------------------------------------
(* What requests that read rely on.                                        *)

\* Reports stay what they are; rows of the past do not come back; nor does a
\* host, and it loses its system information only when it goes.
Evolves ==
    /\ \A n \in 1 .. Len(sent) : n \in 1 .. Len(sent') /\ sent'[n] = sent[n]
    /\ committed \subseteq committed' /\ committed \cap snapshots' \subseteq snapshots
    /\ hosts' \subseteq hosts
    /\ \A h \in Hosts : infos[h] # 0 => infos'[h] # 0 \/ h \notin hosts'

\* A read that does not move keeps its claims while the tables evolve.
LEMMA ReadKept ==
    ASSUME BaseInv, ReadsInv, Evolves, NEW q \in Requests, request'[q] = request[q]
    PROVE  ListInv(q)' /\ InfoInv(q)'
<1>1. ListInv(q)'
  <2>1. CASE request[q].step \in Listing
    <3>1. ListInv(q) /\ \A row \in committed : row.id \in 1 .. Len(sent)
      BY DEF ReadsInv, BaseInv, RowsInv
    <3>2. \A m \in request[q].found : m.snapshot \in 1 .. Len(sent)
      BY <2>1, <3>1 DEF ListInv
    <3>3. \A m \in request[q].found : m.bytes = sent'[m.snapshot].bytes
      BY <2>1, <3>1, <3>2 DEF ListInv, Evolves
    <3> QED
      BY <2>1, <3>1, <3>3 DEF ListInv, Evolves
  <2>2. CASE request[q].step \notin Listing
    BY <2>2 DEF ListInv
  <2> QED
    BY <2>1, <2>2
<1>2. InfoInv(q)'
  <2>1. InfoInv(q)
    BY DEF ReadsInv
  <2>2. ASSUME request[q].step = "described"
        PROVE  AnswerWhole(q)'
    <3>1. \A n \in 1 .. Len(sent) : GpusOf(n)' = GpusOf(n)
      BY DEF Evolves, GpusOf
    <3>2. AnswerWhole(q)
      BY <2>1, <2>2 DEF InfoInv
    <3> SUFFICES ASSUME NEW info \in request[q].rows
                 PROVE  LET found == {gpu \in request[q].found : gpu.host = info.host}
                        IN  \/ \E n \in 1 .. Len(sent') : sent'[n].host = info.host
                                                       /\ found = GpusOf(n)'
                            \/ found = {} /\ info.host \notin hosts'
      BY DEF AnswerWhole
    <3> QED
      BY <3>1, <3>2 DEF AnswerWhole, Evolves
  <2>3. request[q].step \in Describing =>
           \A info \in request[q].rows :
               info.host \in Hosts /\ (infos'[info.host] # 0 \/ info.host \notin hosts')
    BY <2>1 DEF InfoInv, Evolves
  <2> QED
    BY <2>1, <2>2, <2>3 DEF InfoInv
<1> QED
  BY <1>1, <1>2

\* A step of a request that does not read.
LEMMA OtherStep ==
    ASSUME BaseInv, ReadsInv, Evolves, NEW r \in Requests,
           request'[r].step \notin Listing \cup Describing,
           \A q \in Requests \ {r} : request'[q] = request[q]
    PROVE  ReadsInv'
<1>1. ListInv(r)' /\ InfoInv(r)'
  BY DEF ListInv, InfoInv, Describing
<1> QED
  BY <1>1, ReadKept DEF ReadsInv

\* Tables that stay as they are evolve.
LEMMA UnchangedEvolves ==
    ASSUME UNCHANGED <<tables, sent>>
    PROVE  Evolves
BY DEF Evolves, tables

\* A list starts with rows there are, and none of their metrics.
LEMMA ListStep ==
    ASSUME BaseInv, ReadsInv, NEW r \in Requests, NEW step \in {"listing", "stepping"},
           NEW rows \in SUBSET snapshots, Read(r, step, rows)
    PROVE  BaseInv' /\ ReadsInv'
<1>1. rows \in SUBSET Row
  BY DEF BaseInv, TypeOK
<1>2. /\ BaseInv'
      /\ request'[r].step = step /\ request'[r].rows = rows
      /\ request'[r].left = rows /\ request'[r].found = {}
      /\ \A q \in Requests \ {r} : request'[q] = request[q]
      /\ UNCHANGED <<driver, tables, sent>>
  BY <1>1, ReadStart
<1>3. ListInv(r)'
  <2>1. rows \subseteq committed' /\ step # "listed" /\ rows \ rows = {}
    BY <1>2 DEF BaseInv, TypeOK, tables
  <2> QED
    BY <1>2, <2>1 DEF ListInv
<1>4. InfoInv(r)'
  BY <1>2 DEF InfoInv, Describing
<1> QED
  BY <1>2, <1>3, <1>4, UnchangedEvolves, ReadKept DEF ReadsInv

\* The newest of some rows are among them.
LEMMA NewestOfIn ==
    ASSUME NEW n, NEW rows
    PROVE  NewestOf(n, rows) \subseteq rows
BY DEF NewestOf

\* Rows of system information are those of the hosts that have one.
LEMMA ReadInfosStep ==
    ASSUME BaseInv, ReadsInv, NEW r \in Requests, NEW some \in SUBSET Hosts,
           ReadInfos(r, some)
    PROVE  BaseInv' /\ ReadsInv'
<1> DEFINE rows == {[host |-> h, report |-> infos[h]] : h \in {i \in some : infos[i] # 0}}
<1>1. rows \in SUBSET Info /\ \A info \in rows : info.host \in Hosts /\ infos[info.host] # 0
  <2>1. \A h \in some : infos[h] # 0 => infos[h] \in 1 .. MaxReports
    BY BoundsAssumption DEF BaseInv, TypeOK
  <2> QED
    BY <2>1 DEF Info
<1>2. Read(r, "asking", rows)
  BY DEF ReadInfos
<1> HIDE DEF rows
<1>3. /\ BaseInv'
      /\ request'[r].step = "asking" /\ request'[r].rows = rows
      /\ \A q \in Requests \ {r} : request'[q] = request[q]
      /\ UNCHANGED <<driver, tables, sent>>
  BY <1>1, <1>2, ReadStart
<1>4. ListInv(r)' /\ InfoInv(r)'
  BY <1>1, <1>3 DEF ListInv, InfoInv, Listing, tables
<1> QED
  BY <1>3, <1>4, UnchangedEvolves, ReadKept DEF ReadsInv

\* Metrics asked for are those of their rows; a row without one has been deleted.
LEMMA AskedKeeps ==
    ASSUME BaseInv, ReadsInv, NEW r \in Requests,
           request[r].step \in {"listing", "stepping"},
           NEW rows \in SUBSET request[r].left, Asked(r, rows),
           UNCHANGED <<driver, tables, sent>>
    PROVE  BaseInv' /\ ReadsInv'
<1>1. request[r].found \in SUBSET Metric /\ ListInv(r)
  BY DEF ReadsInv, ListInv, Listing
<1>2. /\ BaseInv'
      /\ \A q \in Requests \ {r} : request'[q] = request[q]
      /\ \/ request'[r].step = "idle"
         \/ /\ request'[r].rows = request[r].rows
            /\ request'[r].left = request[r].left \ rows
            /\ request'[r].found = request[r].found \cup MetricsOf(rows)
            /\ \/ request'[r].step = "listed" /\ request[r].left \subseteq rows
               \/ request'[r].step = request[r].step
  BY <1>1, AskedStep
<1>3. CASE request'[r].step = "idle"
  BY <1>2, <1>3, UnchangedEvolves, OtherStep DEF Listing, Describing
<1>4. CASE request'[r].step # "idle"
  <2> DEFINE left  == request[r].left \ rows
             found == request[r].found \cup MetricsOf(rows)
  <2>1. /\ request'[r].rows = request[r].rows
        /\ request'[r].left = left /\ request'[r].found = found
        /\ request'[r].step = "listed" => left = {}
        /\ request'[r].step \in Listing
    BY <1>2, <1>4 DEF Listing
  <2>2. found \in SUBSET Metric
    BY <1>1 DEF MetricsOf, BaseInv, TypeOK
  <2>3. /\ request[r].rows \subseteq committed /\ left \subseteq request[r].rows
        /\ rows \subseteq request[r].rows \ left
    BY <1>1 DEF ListInv, Listing
  <2>4. \A m \in found :
           /\ m.bytes = sent[m.snapshot].bytes
           /\ \E row \in request[r].rows \ left : m.snapshot = row.id
    BY <1>1, <2>3 DEF ListInv, Listing, MetricsOf, BaseInv, MetricsInv
  <2>5. \A row \in request[r].rows \ left :
           (\E m \in found : m.snapshot = row.id) \/ row \notin snapshots
    <3> SUFFICES ASSUME NEW row \in request[r].rows \ left, row \in snapshots
                 PROVE  \E m \in found : m.snapshot = row.id
      OBVIOUS
    <3>1. CASE row \in rows
      BY <3>1 DEF BaseInv, MetricsInv, MetricsOf
    <3>2. CASE row \notin rows
      BY <1>1, <3>2 DEF ListInv, Listing
    <3> QED
      BY <3>1, <3>2
  <2> HIDE DEF left, found
  <2>6. ListInv(r)'
    BY <2>1, <2>2, <2>3, <2>4, <2>5 DEF ListInv, tables
  <2>7. InfoInv(r)'
    BY <2>1 DEF InfoInv, Listing, Describing
  <2> QED
    BY <1>2, <2>6, <2>7, UnchangedEvolves, ReadKept DEF ReadsInv
<1> QED
  BY <1>3, <1>4

\* GPUs read are of one report of their host, or the host is gone.
LEMMA ReadGpusKeeps ==
    ASSUME BaseInv, ReadsInv, NEW r \in Requests, ReadGpus(r)
    PROVE  BaseInv' /\ ReadsInv'
<1> DEFINE all == {gpu \in gpus : \E info \in request[r].rows : info.host = gpu.host}
<1>1. /\ BaseInv' /\ request'[r].step = "described" /\ request'[r].rows = request[r].rows
      /\ request'[r].found = all
      /\ \A q \in Requests \ {r} : request'[q] = request[q]
      /\ UNCHANGED <<driver, tables, sent>>
  BY ReadGpusStep
<1>2. \A info \in request[r].rows :
         info.host \in Hosts /\ (infos[info.host] # 0 \/ info.host \notin hosts)
  BY DEF ReadGpus, ReadsInv, InfoInv, Describing
<1>3. \A info \in request[r].rows :
         {gpu \in all : gpu.host = info.host} = {gpu \in gpus : gpu.host = info.host}
  OBVIOUS
<1> HIDE DEF all
<1>4. AnswerWhole(r)'
  <2> SUFFICES ASSUME NEW info \in request[r].rows
               PROVE  LET found == {gpu \in all : gpu.host = info.host}
                      IN  \/ \E n \in 1 .. Len(sent) : sent[n].host = info.host
                                                     /\ found = GpusOf(n)
                          \/ found = {} /\ info.host \notin hosts
    BY <1>1 DEF AnswerWhole, GpusOf, tables
  <2>1. PICK h \in Hosts : h = info.host
    BY <1>2
  <2>2. CASE infos[h] = 0
    <3>1. {gpu \in all : gpu.host = info.host} = {}
      BY <1>3, <2>1, <2>2 DEF BaseInv, InfosInv
    <3> QED
      BY <1>2, <2>1, <2>2, <3>1
  <2>3. CASE infos[h] # 0
    <3>1. /\ {gpu \in all : gpu.host = info.host} = GpusOf(infos[h])
          /\ infos[h] \in 1 .. Len(sent) /\ sent[infos[h]].host = info.host
      BY <1>3, <2>1, <2>3 DEF BaseInv, InfosInv
    <3> QED
      BY <3>1
  <2> QED
    BY <2>2, <2>3
<1>5. InfoInv(r)' /\ ListInv(r)'
  BY <1>1, <1>2, <1>4 DEF InfoInv, ListInv, Listing, tables
<1> QED
  BY <1>1, <1>5, UnchangedEvolves, ReadKept DEF ReadsInv

\* Steps of requests that report something, or end.
LEMMA QuietStep ==
    ASSUME BaseInv, ReadsInv, NEW r \in Requests, BaseInv', UNCHANGED <<tables, sent>>,
           request'[r].step \notin Listing \cup Describing,
           \A q \in Requests \ {r} : request'[q] = request[q]
    PROVE  ReadsInv'
BY UnchangedEvolves, OtherStep

\* A request that has been answered makes no claim any more.
LEMMA DoneKeeps ==
    ASSUME BaseInv, ReadsInv, NEW r \in Requests, Done(r), UNCHANGED <<driver, tables, sent>>
    PROVE  BaseInv' /\ ReadsInv'
BY DoneStep, DoneType, QuietStep DEF BaseInv, Listing, Describing

\* The report that arrives, and the step at which its request begins.
LEMMA Received ==
    ASSUME NEW r \in Requests, NEW h \in Hosts, ReceiveMetric(r, h) \/ ReceiveInfo(r, h)
    PROVE  \E report \in Report, step \in {"posting", "informing"} :
              /\ sent' = Append(sent, report)
              /\ request' = [request EXCEPT ![r] = [Idle EXCEPT !.step = step,
                                                               !.report = Len(sent')]]
<1>1. CASE ReceiveMetric(r, h)
  <2>1. PICK time \in 1 .. MaxTime, bytes \in Counters :
           sent' = Append(sent, [host |-> h, time |-> time, bytes |-> bytes, gpus |-> 0])
    BY <1>1 DEF ReceiveMetric
  <2>2. [host |-> h, time |-> time, bytes |-> bytes, gpus |-> 0] \in Report
    BY DEF Report
  <2> QED
    BY <1>1, <2>1, <2>2 DEF ReceiveMetric
<1>2. CASE ReceiveInfo(r, h)
  <2>1. PICK bytes \in Counters, number \in {0, 2} :
           sent' = Append(sent, [host |-> h, time |-> 1, bytes |-> bytes, gpus |-> number])
    BY <1>2 DEF ReceiveInfo
  <2>2. [host |-> h, time |-> 1, bytes |-> bytes, gpus |-> number] \in Report
    BY <1>2, BoundsAssumption DEF Report
  <2> QED
    BY <1>2, <2>1, <2>2 DEF ReceiveInfo
<1> QED
  BY <1>1, <1>2

\* A report that arrives leaves the earlier ones as they are.
LEMMA ArriveKeeps ==
    ASSUME BaseInv, ReadsInv, NEW r \in Requests, NEW h \in Hosts,
           ReceiveMetric(r, h) \/ ReceiveInfo(r, h)
    PROVE  BaseInv' /\ ReadsInv'
<1>1. PICK report \in Report, step \in {"posting", "informing"} :
         /\ sent' = Append(sent, report)
         /\ request' = [request EXCEPT ![r] = [Idle EXCEPT !.step = step,
                                                          !.report = Len(sent')]]
  BY Received
<1>2. Len(sent) < MaxReports /\ UNCHANGED <<driver, tables>>
  BY DEF ReceiveMetric, ReceiveInfo
<1>3. BaseInv'
  BY <1>1, <1>2, ArriveStep
<1>4. Evolves
  <2>1. \A n \in 1 .. Len(sent) : n \in 1 .. Len(sent') /\ sent'[n] = sent[n]
    BY <1>1 DEF BaseInv, TypeOK
  <2> QED
    BY <1>2, <2>1 DEF Evolves, tables
<1>5. /\ request'[r].step = step
      /\ \A q \in Requests \ {r} : request'[q] = request[q]
  <2>1. [Idle EXCEPT !.step = step, !.report = Len(sent')].step = step
    BY DEF Idle
  <2> QED
    BY <1>1, <2>1 DEF BaseInv, TypeOK
<1> QED
  BY <1>3, <1>4, <1>5, OtherStep DEF Listing, Describing

\* A row that a list has read is not stored once more when it is gone.
LEMMA StoreSnapshotKeeps ==
    ASSUME BaseInv, ReadsInv, NEW r \in Requests, request[r].step \in Writing, Done(r),
           Sent(r).host \in hosts, Storable(Sent(r).bytes),
           NEW doomed, doomed \subseteq committed \cup {NewRow(r)}, NewRow(r) \notin doomed,
           StoreSnapshot(r, doomed), UNCHANGED <<driver, sent>>
    PROVE  BaseInv' /\ ReadsInv'
<1>1. BaseInv'
  BY StoreSnapshotStep
<1>2. Evolves
  <2>1. NewRow(r).id = request[r].report /\ \A row \in committed : row.id # request[r].report
    BY DEF NewRow, BaseInv, RequestInv
  <2> QED
    BY <2>1 DEF Evolves, StoreSnapshot
<1> QED
  BY <1>1, <1>2, DoneType, OtherStep DEF BaseInv, Listing, Describing

\* The insert of SQLite is one step.
LEMMA CreateSnapshotKeeps ==
    ASSUME BaseInv, ReadsInv, NEW r \in Requests, CreateSnapshot(r)
    PROVE  BaseInv' /\ ReadsInv'
<1>1. CASE UNCHANGED tables
  BY <1>1, DoneKeeps DEF CreateSnapshot
<1>2. CASE Insertable(r) /\ NewRow(r) \notin Older(r) /\ StoreSnapshot(r, Older(r))
  <2>1. request[r].step \in Writing
    BY DEF CreateSnapshot, Writing
  <2> QED
    BY <1>2, <2>1, OlderType, StoreSnapshotKeeps DEF CreateSnapshot, Insertable
<1> QED
  BY <1>1, <1>2 DEF CreateSnapshot

\* The insert of PostgreSQL is seen when it is committed.
LEMMA CommitSnapshotKeeps ==
    ASSUME BaseInv, ReadsInv, NEW r \in Requests, CommitSnapshot(r)
    PROVE  BaseInv' /\ ReadsInv'
<1>1. CASE UNCHANGED tables
  BY <1>1, DoneKeeps DEF CommitSnapshot
<1>2. CASE NewRow(r) \notin request[r].rows /\ StoreSnapshot(r, request[r].rows)
  <2>1. RequestInv(r) /\ request[r].step = "trimmed"
    BY DEF CommitSnapshot, BaseInv
  <2>2. /\ Sent(r).host \in hosts /\ Storable(Sent(r).bytes)
        /\ request[r].rows \subseteq committed \cup {NewRow(r)}
        /\ request[r].step \in Writing
    BY <2>1 DEF RequestInv, Writing, Pending, Selected, Open
  <2> QED
    BY <1>2, <2>2, StoreSnapshotKeeps DEF CommitSnapshot
<1> QED
  BY <1>1, <1>2 DEF CommitSnapshot

\* A host that has system information keeps having some.
LEMMA StoreInfoKeeps ==
    ASSUME BaseInv, ReadsInv, NEW r \in Requests,
           request[r].step \in {"informing", "upserted"},
           Done(r), StoreInfo(r), UNCHANGED <<driver, sent>>
    PROVE  BaseInv' /\ ReadsInv'
<1>1. BaseInv'
  BY StoreInfoStep
<1>2. request[r].report \in 1 .. Len(sent)
  BY DEF BaseInv, RequestInv
<1>3. Evolves
  BY <1>2 DEF StoreInfo, Evolves, BaseInv, TypeOK
<1> QED
  BY <1>1, <1>3, DoneType, OtherStep DEF BaseInv, Listing, Describing

\* Every statement of a request that writes.
LEMMA WriteKeeps ==
    ASSUME BaseInv, ReadsInv, NEW r \in Requests, WriteStep(r)
    PROVE  BaseInv' /\ ReadsInv'
<1>1. CASE CreateSnapshot(r)
  BY <1>1, CreateSnapshotKeeps
<1>2. CASE UpsertSystemInfo(r)
  BY <1>2, StoreInfoKeeps, DoneKeeps DEF UpsertSystemInfo
<1>3. CASE InsertSnapshot(r)
  <2>1. CASE Done(r)
    BY <1>3, <2>1, DoneKeeps DEF InsertSnapshot
  <2>2. CASE Goto(r, "inserted")
    BY <1>3, <2>2, InsertSnapshotStep, GotoType, QuietStep
       DEF InsertSnapshot, BaseInv, Open, Listing, Describing
  <2> QED
    BY <1>3, <2>1, <2>2 DEF InsertSnapshot
<1>4. CASE SelectOlder(r)
  <2>1. request'[r].step = "trimming" /\ \A q \in Requests \ {r} : request'[q] = request[q]
    BY <1>4 DEF SelectOlder, BaseInv, TypeOK, Request
  <2> QED
    BY <1>4, <2>1, SelectOlderStep, QuietStep DEF SelectOlder, Listing, Describing
<1>5. CASE DeleteOlder(r)
  BY <1>5, DeleteOlderStep, GotoType, QuietStep
     DEF DeleteOlder, BaseInv, Open, Listing, Describing
<1>6. CASE CommitSnapshot(r)
  BY <1>6, CommitSnapshotKeeps
<1>7. CASE UpsertRow(r)
  <2>1. CASE Done(r)
    BY <1>7, <2>1, DoneKeeps DEF UpsertRow
  <2>2. CASE Goto(r, "upserted")
    BY <1>7, <2>2, UpsertRowStep, GotoType, QuietStep
       DEF UpsertRow, BaseInv, Open, Listing, Describing
  <2> QED
    BY <1>7, <2>1, <2>2 DEF UpsertRow
<1>8. CASE CommitInfo(r)
  BY <1>8, StoreInfoKeeps DEF CommitInfo
<1> QED
  BY <1>1, <1>2, <1>3, <1>4, <1>5, <1>6, <1>7, <1>8 DEF WriteStep

\* Every statement of a request that reads.
LEMMA ReadKeeps ==
    ASSUME BaseInv, ReadsInv, NEW r \in Requests, ReadStep(r)
    PROVE  BaseInv' /\ ReadsInv'
<1>1. CASE LoadMetrics(r)
  BY <1>1, AskedKeeps DEF LoadMetrics
<1>2. CASE ReadNextMetrics(r)
  BY <1>2, NewestOfIn, AskedKeeps DEF ReadNextMetrics
<1>3. CASE ReadGpus(r)
  BY <1>3, ReadGpusKeeps
<1>4. CASE Answer(r)
  BY <1>4, DoneKeeps DEF Answer
<1> QED
  BY <1>1, <1>2, <1>3, <1>4 DEF ReadStep

\* Every report that arrives.
LEMMA StartKeeps ==
    ASSUME BaseInv, ReadsInv, NEW r \in Requests, Arrive(r)
    PROVE  BaseInv' /\ ReadsInv'
<1>1. ASSUME NEW h \in Hosts, ReceiveMetric(r, h) \/ ReceiveInfo(r, h)
      PROVE  BaseInv' /\ ReadsInv'
  BY <1>1, ArriveKeeps
<1>2. ASSUME NEW h \in Hosts, ListSnapshots(r, h) \/ ListStepwise(r, h)
      PROVE  BaseInv' /\ ReadsInv'
  <2>1. OfHost(h, snapshots) \in SUBSET snapshots
    BY DEF OfHost
  <2> QED
    BY <1>2, <2>1, ListStep DEF ListSnapshots, ListStepwise
<1>3. ASSUME NEW h \in Hosts, GetInfo(r, h)
      PROVE  BaseInv' /\ ReadsInv'
  <2>1. {h} \in SUBSET Hosts
    OBVIOUS
  <2> QED
    BY <1>3, <2>1, ReadInfosStep DEF GetInfo
<1>4. ASSUME NEW limit \in 1 .. MaxSnapshots, ListRecent(r, limit)
      PROVE  BaseInv' /\ ReadsInv'
  <2>1. Ranked(limit) \in SUBSET snapshots
    BY DEF Ranked, NewestOf, OfHost
  <2> QED
    BY <1>4, <2>1, ListStep DEF ListRecent
<1>5. CASE ListLatest(r)
  <2> DEFINE rows == {row \in snapshots : \A other \in OfHost(row.host, snapshots) :
                                               other.time <= row.time}
  <2>1. rows \in SUBSET snapshots /\ Read(r, "listing", rows)
    BY <1>5 DEF ListLatest
  <2> HIDE DEF rows
  <2> QED
    BY <2>1, ListStep
<1>6. CASE ListInfos(r)
  <2>1. hosts \in SUBSET Hosts
    BY DEF BaseInv, TypeOK
  <2> QED
    BY <1>6, <2>1, ReadInfosStep DEF ListInfos
<1> QED
  BY <1>1, <1>2, <1>3, <1>4, <1>5, <1>6 DEF Arrive

\* A read may miss what a deleted host has taken along, and nothing else.
LEMMA DeleteHostKeeps ==
    ASSUME BaseInv, ReadsInv, NEW h \in Hosts, DeleteHost(h)
    PROVE  BaseInv' /\ ReadsInv'
<1>1. Evolves
  BY DEF DeleteHost, Evolves, BaseInv, TypeOK
<1> QED
  BY <1>1, DeleteHostStep, ReadKept DEF ReadsInv, DeleteHost

\* What the tables have to do with each other and with the reports, and what
\* the lists and the answers on their way have to do with the tables.
LEMMA NextKeeps ==
    ASSUME BaseInv, ReadsInv, [Next]_vars
    PROVE  BaseInv' /\ ReadsInv'
<1>1. ASSUME NEW r \in Requests, Arrive(r) \/ WriteStep(r) \/ ReadStep(r) \/ GiveUp(r)
      PROVE  BaseInv' /\ ReadsInv'
  BY <1>1, StartKeeps, WriteKeeps, ReadKeeps, DoneKeeps DEF GiveUp
<1>2. ASSUME NEW h \in Hosts, DeleteHost(h)
      PROVE  BaseInv' /\ ReadsInv'
  BY <1>2, DeleteHostKeeps
<1>3. CASE UNCHANGED vars
  <2>1. \A q \in Requests : request'[q] = request[q] /\ Sent(q)' = Sent(q)
                            /\ NewRow(q)' = NewRow(q)
    BY <1>3 DEF vars, Sent, NewRow
  <2>2. BaseInv'
    BY <1>3, <2>1 DEF vars, tables, BaseInv, TypeOK, RowsInv, MetricsInv, InfosInv, GpusOf,
                      RequestInv
  <2>3. Evolves
    BY <1>3, UnchangedEvolves DEF vars
  <2> QED
    BY <2>1, <2>2, <2>3, ReadKept DEF ReadsInv
<1> QED
  BY <1>1, <1>2, <1>3 DEF Next

-----------------------------------------------------------------------------
(* Which rows are older than as many as may stay.                          *)

Newer(row, rows) == {other \in rows : other.time > row.time}

Outranked(row, rows) == Cardinality(Newer(row, rows)) >= MaxSnapshots

\* Of some rows one is the newest.
LEMMA NewestExists ==
    ASSUME NEW T \in SUBSET Row, T # {}
    PROVE  \E x \in T : \A y \in T : y.time <= x.time
<1> DEFINE R    == OpToRel(<, Nat)
           ages == {MaxTime - x.time : x \in T}
<1>1. \A x \in T : x.time \in Nat /\ MaxTime - x.time \in Nat
  BY BoundsAssumption DEF Row
<1>2. ages \in SUBSET Nat /\ ages # {}
  BY <1>1
<1>3. \E i \in ages : \A j \in ages : <<j, i>> \notin R
  <2>1. IsWellFoundedOn(R, Nat)
    BY NatLessThanWellFounded
  <2> HIDE DEF R, ages
  <2> QED
    BY <1>2, <2>1, WFMin
<1>4. \A i, j \in Nat : <<j, i>> \notin R => i <= j
  BY DEF OpToRel
<1>5. PICK x \in T : \A j \in ages : <<j, MaxTime - x.time>> \notin R
  BY <1>3
<1> HIDE DEF R
<1>6. \A y \in T : MaxTime - x.time <= MaxTime - y.time
  BY <1>1, <1>4, <1>5
<1> QED
  BY <1>1, <1>6, BoundsAssumption

\* Rows that are not none have an oldest one.
LEMMA OldestExists ==
    ASSUME NEW T \in SUBSET Row, T # {}
    PROVE  \E x \in T : \A y \in T : x.time <= y.time
<1> DEFINE R     == OpToRel(<, Nat)
           times == {x.time : x \in T}
<1>1. times \in SUBSET Nat /\ times # {}
  BY BoundsAssumption DEF Row
<1>2. \E i \in times : \A j \in times : <<j, i>> \notin R
  <2>1. IsWellFoundedOn(R, Nat)
    BY NatLessThanWellFounded
  <2> HIDE DEF R, times
  <2> QED
    BY <1>1, <2>1, WFMin
<1>3. \A i, j \in Nat : <<j, i>> \notin R => i <= j
  BY DEF OpToRel
<1> HIDE DEF R
<1> QED
  BY <1>1, <1>2, <1>3

\* The rows newer than one can be counted.
LEMMA NewerCount ==
    ASSUME NEW rows, IsFiniteSet(rows), NEW row
    PROVE  Cardinality(Newer(row, rows)) \in Nat /\ IsFiniteSet(Newer(row, rows))
<1>1. Newer(row, rows) \in SUBSET rows
  BY DEF Newer
<1> QED
  BY <1>1, FS_Subset, FS_CardinalityType

\* A row with enough newer ones has enough of them in a larger set, too.
LEMMA OutrankedMore ==
    ASSUME NEW L, IsFiniteSet(L), NEW K \in SUBSET L, NEW row, Outranked(row, K)
    PROVE  Outranked(row, L)
<1>1. IsFiniteSet(K)
  BY FS_Subset
<1>2. Newer(row, K) \in SUBSET Newer(row, L)
  BY DEF Newer
<1>3. Cardinality(Newer(row, K)) <= Cardinality(Newer(row, L))
  BY <1>2, NewerCount, FS_Subset
<1> QED
  BY <1>1, <1>3, NewerCount, MaxSnapshotsAssumption DEF Outranked

\* Rows that are outranked may go together: what they outranked stays
\* outranked, by those that outrank the newest of them.
LEMMA OutrankedStays ==
    ASSUME NEW K \in SUBSET Row, IsFiniteSet(K), NEW D,
           \A d \in D : Outranked(d, K), NEW row \in Row, Outranked(row, K)
    PROVE  Outranked(row, K \ D)
<1>1. IsFiniteSet(K \ D)
  <2>1. K \ D \in SUBSET K
    OBVIOUS
  <2> QED
    BY <2>1, FS_Subset
<1>2. CASE Newer(row, K) \cap D = {}
  <2>1. Newer(row, K) = Newer(row, K \ D)
    BY <1>2 DEF Newer
  <2> QED
    BY <2>1 DEF Outranked
<1>3. CASE Newer(row, K) \cap D # {}
  <2>1. Newer(row, K) \cap D \in SUBSET Row
    BY DEF Newer
  <2>2. PICK x \in Newer(row, K) \cap D : \A y \in Newer(row, K) \cap D : y.time <= x.time
    BY <1>3, <2>1, NewestExists
  <2>3. Newer(x, K) \in SUBSET Newer(row, K \ D)
    BY <2>2 DEF Newer, Row
  <2>4. Cardinality(Newer(x, K)) <= Cardinality(Newer(row, K \ D))
    BY <1>1, <2>3, NewerCount, FS_Subset
  <2>5. Outranked(x, K)
    BY <2>2
  <2> QED
    BY <1>1, <2>4, <2>5, NewerCount, MaxSnapshotsAssumption DEF Outranked
<1> QED
  BY <1>2, <1>3

\* Those that the delete statement chooses are outranked.
LEMMA OlderOutranked ==
    ASSUME NEW rows, IsFiniteSet(rows), NEW row \in rows \ NewestOf(MaxSnapshots, rows)
    PROVE  Outranked(row, rows)
<1>1. NewestOf(MaxSnapshots, rows)
         = {x \in rows : Cardinality(Newer(x, rows)) < MaxSnapshots}
  BY DEF NewestOf, Newer
<1>2. ~(Cardinality(Newer(row, rows)) < MaxSnapshots)
  BY <1>1
<1>3. Cardinality(Newer(row, rows)) \in Nat
  BY NewerCount
<1> QED
  BY <1>2, <1>3, MaxSnapshotsAssumption DEF Outranked

DistinctTimes(rows) == \A x, y \in rows : x.time = y.time => x = y

\* Those that it leaves are not too many, if no two have one time.
LEMMA NewestFew ==
    ASSUME NEW rows \in SUBSET Row, IsFiniteSet(rows), DistinctTimes(rows)
    PROVE  Cardinality(NewestOf(MaxSnapshots, rows)) <= MaxSnapshots
<1> DEFINE newest == NewestOf(MaxSnapshots, rows)
<1>1. newest \in SUBSET rows /\ newest \in SUBSET Row /\ IsFiniteSet(newest)
  <2>1. newest \in SUBSET rows
    BY DEF NewestOf
  <2> QED
    BY <2>1, FS_Subset
<1>2. CASE newest = {}
  BY <1>2, FS_EmptySet, MaxSnapshotsAssumption
<1>3. CASE newest # {}
  <2>1. PICK x \in newest : \A y \in newest : x.time <= y.time
    BY <1>1, <1>3, OldestExists
  <2>2. newest \ {x} \in SUBSET Newer(x, rows)
    BY <1>1, <2>1 DEF Newer, DistinctTimes, Row
  <2>3. Cardinality(newest \ {x}) <= Cardinality(Newer(x, rows))
    BY <2>2, NewerCount, FS_Subset
  <2>4. Cardinality(newest \ {x}) = Cardinality(newest) - 1
    BY <1>1, <2>1, FS_RemoveElement
  <2>5. Cardinality(Newer(x, rows)) < MaxSnapshots
    BY <2>1 DEF NewestOf, Newer
  <2>6. Cardinality(newest) \in Nat /\ Cardinality(newest \ {x}) \in Nat
    <3>1. newest \ {x} \in SUBSET newest
      OBVIOUS
    <3> QED
      BY <1>1, <3>1, FS_Subset, FS_CardinalityType
  <2> QED
    BY <2>3, <2>4, <2>5, <2>6, NewerCount, MaxSnapshotsAssumption
<1> QED
  BY <1>2, <1>3

-----------------------------------------------------------------------------
(* How many snapshots transactions that do not see each other may leave.   *)

Room == MaxSnapshots + Cardinality(Requests) - 1

\* selected are the transactions that know which rows they delete, rest[r] is
\* what r would leave if it committed now, before[r] are those that chose
\* before r, and first those that chose before the last commit's transaction.
\* Each of these may add one row to what r, or that commit, leaves.
Chained(kept, selected, rest, first, before) ==
    /\ Cardinality(kept) + Cardinality(first) <= Room
    /\ \A r \in selected :
          /\ r \notin before[r]
          /\ Cardinality(rest[r]) + Cardinality(before[r]) <= Room
    /\ \A q, r \in selected :
          q = r \/ q \in before[r] \/ before[r] \cup {r} \subseteq before[q]

Chain(kept, selected, rest) ==
    \E first \in SUBSET selected, before \in [selected -> SUBSET selected] :
        Chained(kept, selected, rest, first, before)

\* The bound on the snapshots is a number.
LEMMA RoomType == Room \in Int /\ Cardinality(Requests) \in Nat
BY RequestsAssumption, FS_CardinalityType, MaxSnapshotsAssumption DEF Room

\* Cardinalities of sets of requests.
LEMMA Counted ==
    ASSUME NEW T \in SUBSET Requests
    PROVE  /\ IsFiniteSet(T) /\ Cardinality(T) \in Nat
           /\ \A U \in SUBSET T : Cardinality(U) \in Nat /\ Cardinality(U) <= Cardinality(T)
           /\ \A r : Cardinality(T \ {r}) = IF r \in T THEN Cardinality(T) - 1
                                           ELSE Cardinality(T)
<1>1. IsFiniteSet(T)
  BY RequestsAssumption, FS_Subset
<1>2. ASSUME NEW U \in SUBSET T
      PROVE  Cardinality(U) \in Nat /\ Cardinality(U) <= Cardinality(T)
  BY <1>1, FS_Subset, FS_CardinalityType
<1>3. \A r : Cardinality(T \ {r}) = IF r \in T THEN Cardinality(T) - 1
                                    ELSE Cardinality(T)
  BY <1>1, FS_RemoveElement
<1> QED
  BY <1>1, <1>2, <1>3, FS_CardinalityType

\* No transaction, no chain.
LEMMA ChainNone ==
    ASSUME NEW rest
    PROVE  Chain({}, {}, rest)
<1> DEFINE before == [r \in {} |-> {}]
<1>1. Cardinality({}) + Cardinality({}) <= Room
  <2>1. CASE Requests = {}
    BY <2>1, FS_EmptySet, MaxSnapshotsAssumption DEF Room
  <2> QED
    BY FS_EmptySet, RoomType, MaxSnapshotsAssumption DEF Room
<1>2. before \in [{} -> SUBSET {}]
  OBVIOUS
<1>3. Chained({}, {}, rest, {}, before)
  BY <1>1 DEF Chained
<1> QED
  BY <1>2, <1>3 DEF Chain

\* Transactions that are given up.
LEMMA ChainShrinks ==
    ASSUME NEW kept, NEW selected \in SUBSET Requests, NEW rest,
           Chain(kept, selected, rest), Cardinality(kept) \in Nat,
           \A r \in selected : Cardinality(rest[r]) \in Nat,
           NEW some \in SUBSET selected, NEW now, \A r \in some : now[r] = rest[r]
    PROVE  Chain(kept, some, now)
<1>1. PICK first \in SUBSET selected, before \in [selected -> SUBSET selected] :
         Chained(kept, selected, rest, first, before)
  BY DEF Chain
<1> DEFINE later == [r \in some |-> before[r] \cap some]
<1>2. later \in [some -> SUBSET some]
  OBVIOUS
<1>3. Cardinality(first \cap some) <= Cardinality(first)
      /\ Cardinality(first \cap some) \in Nat /\ Cardinality(first) \in Nat
  <2>1. first \in SUBSET Requests /\ first \cap some \in SUBSET first
    OBVIOUS
  <2> QED
    BY <2>1, Counted
<1>4. Cardinality(kept) + Cardinality(first \cap some) <= Room
  BY <1>1, <1>3, RoomType DEF Chained
<1>5. ASSUME NEW r \in some
      PROVE  r \notin later[r] /\ Cardinality(now[r]) + Cardinality(later[r]) <= Room
  <2>1. before[r] \in SUBSET Requests /\ later[r] \in SUBSET before[r]
    OBVIOUS
  <2>2. /\ Cardinality(later[r]) <= Cardinality(before[r])
        /\ Cardinality(later[r]) \in Nat /\ Cardinality(before[r]) \in Nat
    BY <2>1, Counted
  <2>3. /\ r \notin before[r] /\ now[r] = rest[r] /\ Cardinality(rest[r]) \in Nat
        /\ Cardinality(rest[r]) + Cardinality(before[r]) <= Room
    BY <1>1 DEF Chained
  <2> HIDE DEF later
  <2> QED
    BY <2>1, <2>2, <2>3, RoomType
<1>6. \A q, r \in some : q = r \/ q \in later[r] \/ later[r] \cup {r} \subseteq later[q]
  BY <1>1 DEF Chained
<1> HIDE DEF later
<1>7. Chained(kept, some, now, first \cap some, later)
  BY <1>4, <1>5, <1>6 DEF Chained
<1> QED
  BY <1>2, <1>7 DEF Chain

\* A transaction chooses: it will leave no more than may stay and what the
\* others add that have chosen already.
LEMMA ChainSelects ==
    ASSUME NEW kept, NEW selected \in SUBSET Requests, NEW rest,
           Chain(kept, selected, rest),
           NEW r \in Requests \ selected, NEW now,
           \A q \in selected : now[q] = rest[q],
           Cardinality(now[r]) \in Nat, Cardinality(now[r]) <= MaxSnapshots
    PROVE  Chain(kept, selected \cup {r}, now)
<1>1. PICK first \in SUBSET selected, before \in [selected -> SUBSET selected] :
         Chained(kept, selected, rest, first, before)
  BY DEF Chain
<1> DEFINE all   == selected \cup {r}
           later == [q \in all |-> IF q = r THEN selected ELSE before[q]]
<1>2. later \in [all -> SUBSET all]
  OBVIOUS
<1>3. later[r] = selected /\ \A q \in selected : later[q] = before[q]
  OBVIOUS
<1> HIDE DEF later
<1>4. Cardinality(now[r]) + Cardinality(selected) <= Room
  <2>1. selected \in SUBSET (Requests \ {r})
    OBVIOUS
  <2>2. /\ Cardinality(selected) <= Cardinality(Requests \ {r})
        /\ Cardinality(selected) \in Nat /\ Cardinality(Requests \ {r}) \in Nat
    BY <2>1, Counted
  <2>3. Cardinality(Requests \ {r}) = Cardinality(Requests) - 1
    BY Counted
  <2> QED
    BY <2>2, <2>3, RoomType, MaxSnapshotsAssumption DEF Room
<1>5. Chained(kept, all, now, first, later)
  <2>1. \A q \in all : q \notin later[q] /\ Cardinality(now[q]) + Cardinality(later[q]) <= Room
    BY <1>1, <1>3, <1>4 DEF Chained
  <2>2. \A q, p \in all : q = p \/ q \in later[p] \/ later[p] \cup {p} \subseteq later[q]
    BY <1>1, <1>3 DEF Chained
  <2> QED
    BY <1>1, <2>1, <2>2 DEF Chained
<1> QED
  BY <1>2, <1>5 DEF Chain

\* A transaction commits: it leaves what it said, and the others, if they
\* chose later, leave its row as well; if they chose earlier, they leave
\* their own besides what it leaves.
LEMMA ChainCommits ==
    ASSUME NEW kept, NEW selected \in SUBSET Requests, NEW rest,
           Chain(kept, selected, rest), Cardinality(kept) \in Nat,
           \A r \in selected : Cardinality(rest[r]) \in Nat,
           NEW q \in selected, NEW now, NEW stay,
           Cardinality(stay) \in Nat, Cardinality(stay) <= Cardinality(rest[q]),
           Cardinality(stay) <= Cardinality(kept) + 1,
           \A r \in selected \ {q} :
               /\ Cardinality(now[r]) \in Nat
               /\ Cardinality(now[r]) <= Cardinality(rest[r]) + 1
               /\ Cardinality(now[r]) <= Cardinality(rest[q]) + 1
    PROVE  Chain(stay, selected \ {q}, now)
<1>1. PICK first \in SUBSET selected, before \in [selected -> SUBSET selected] :
         Chained(kept, selected, rest, first, before)
  BY DEF Chain
<1>2. /\ q \notin before[q] /\ Cardinality(rest[q]) + Cardinality(before[q]) <= Room
      /\ before[q] \in SUBSET Requests /\ Cardinality(before[q]) \in Nat
      /\ Cardinality(rest[q]) \in Nat
  BY <1>1, Counted DEF Chained
<1> DEFINE others == selected \ {q}
           later  == [r \in others |-> before[r] \ {q}]
<1>3. later \in [others -> SUBSET others]
  OBVIOUS
<1>4. ASSUME NEW r \in others
      PROVE  r \notin later[r] /\ Cardinality(now[r]) + Cardinality(later[r]) <= Room
  <2>1. /\ r \notin before[r] /\ Cardinality(rest[r]) + Cardinality(before[r]) <= Room
        /\ before[r] \in SUBSET Requests /\ later[r] = before[r] \ {q}
        /\ Cardinality(rest[r]) \in Nat
    BY <1>1 DEF Chained
  <2> HIDE DEF later
  <2>2. /\ Cardinality(before[r]) \in Nat
        /\ Cardinality(later[r]) = IF q \in before[r] THEN Cardinality(before[r]) - 1
                                  ELSE Cardinality(before[r])
    BY <2>1, Counted
  <2>3. CASE q \in before[r]
    BY <2>1, <2>2, <2>3, RoomType
  <2>4. CASE q \notin before[r]
    <3>1. before[r] \in SUBSET (before[q] \ {r}) /\ r \in before[q]
      BY <1>1, <2>1, <2>4 DEF Chained
    <3>2. Cardinality(before[q] \ {r}) = Cardinality(before[q]) - 1
      BY <1>2, <3>1, Counted
    <3>3. Cardinality(before[r]) <= Cardinality(before[q] \ {r})
      <4>1. before[q] \ {r} \in SUBSET Requests
        BY <1>2
      <4> QED
        BY <3>1, <4>1, Counted
    <3> QED
      BY <1>2, <2>1, <2>2, <2>4, <3>2, <3>3, RoomType
  <2> QED
    BY <2>3, <2>4
<1>5. \A p, r \in others : p = r \/ p \in later[r] \/ later[r] \cup {r} \subseteq later[p]
  BY <1>1 DEF Chained
<1> HIDE DEF later
<1>6. CASE q \in first
  <2>1. /\ Cardinality(first \ {q}) = Cardinality(first) - 1
        /\ Cardinality(first) \in Nat
    BY <1>6, Counted
  <2>2. Cardinality(stay) + Cardinality(first \ {q}) <= Room
    BY <1>1, <2>1, RoomType DEF Chained
  <2>3. Chained(stay, others, now, first \ {q}, later)
    BY <1>4, <1>5, <2>2 DEF Chained
  <2> QED
    BY <1>3, <2>3 DEF Chain
<1>7. CASE q \notin first
  <2>1. Cardinality(stay) + Cardinality(before[q]) <= Room
    BY <1>2, RoomType
  <2>2. before[q] \in SUBSET others
    BY <1>2
  <2>3. Chained(stay, others, now, before[q], later)
    BY <1>4, <1>5, <2>1 DEF Chained
  <2> QED
    BY <1>3, <2>2, <2>3 DEF Chain
<1> QED
  BY <1>6, <1>7

-----------------------------------------------------------------------------
(* The newest snapshots.                                                   *)

Kept(h) == OfHost(h, snapshots)

\* A row that is gone is older than as many of its host as may stay.
GoneInv ==
    \A h \in hosts : \A row \in OfHost(h, committed) \ Kept(h) : Outranked(row, Kept(h))

\* So is a row that a transaction has chosen to delete, whatever others do
\* until it does.
ChosenInv ==
    \A r \in Requests : request[r].step \in Selected =>
        \A row \in request[r].rows : Outranked(row, Seen(r))

\* No two rows of a host have one time, stored or to come.
TimesInv ==
    /\ \A h \in Hosts : DistinctTimes(Kept(h))
    /\ \A r \in Requests : request[r].step \in Pending =>
          \A row \in Kept(Sent(r).host) : row.time # Sent(r).time
    /\ \A q, r \in Requests :
          q # r /\ request[q].step \in Pending /\ request[r].step \in Pending =>
              <<Sent(q).host, Sent(q).time>> # <<Sent(r).host, Sent(r).time>>

SelectedOf(h) == {r \in Requests : request[r].step \in Selected /\ Sent(r).host = h}

Rest == [r \in Requests |-> Seen(r) \ request[r].rows]

FewInv ==
    \A h \in Hosts :
        /\ driver = "sqlite" => Cardinality(Kept(h)) <= MaxSnapshots
        /\ driver = "postgres" => Chain(Kept(h), SelectedOf(h), Rest)

NewestInv ==
    /\ GoneInv
    /\ ChosenInv
    /\ TimesInv
    /\ FewInv

\* No snapshot has come or gone at first.
LEMMA InitNewestInv == Init => NewestInv
<1> SUFFICES ASSUME Init
             PROVE  NewestInv
  OBVIOUS
<1>1. /\ \A h \in Hosts : Kept(h) = {} /\ OfHost(h, committed) = {}
      /\ \A r \in Requests : request[r].step = "idle"
      /\ hosts = Hosts
  BY DEF Init, Kept, OfHost, Idle
<1>2. GoneInv /\ ChosenInv /\ TimesInv
  BY <1>1 DEF GoneInv, ChosenInv, TimesInv, DistinctTimes, Selected, Pending
<1>3. FewInv
  <2>1. \A h \in Hosts : SelectedOf(h) = {}
    BY <1>1 DEF SelectedOf, Selected
  <2>2. Chain({}, {}, Rest)
    BY ChainNone
  <2>3. Cardinality({}) <= MaxSnapshots
    BY FS_EmptySet, MaxSnapshotsAssumption
  <2> QED
    BY <1>1, <2>1, <2>2, <2>3 DEF FewInv
<1> QED
  BY <1>2, <1>3 DEF NewestInv

\* The snapshots of a host are finitely many rows.
LEMMA KeptType ==
    ASSUME BaseInv, NEW h
    PROVE  /\ Kept(h) \in SUBSET Row /\ IsFiniteSet(Kept(h))
           /\ Cardinality(Kept(h)) \in Nat
<1>1. Kept(h) \in SUBSET snapshots
  BY DEF Kept, OfHost
<1>2. IsFiniteSet(Kept(h))
  BY <1>1, FS_Subset DEF BaseInv, RowsInv
<1> QED
  BY <1>1, <1>2, FS_CardinalityType DEF BaseInv, TypeOK

\* A transaction sees its host's snapshots and its own row, which is new.
LEMMA SeenType ==
    ASSUME BaseInv, NEW r \in Requests, request[r].step \in Writing
    PROVE  /\ Seen(r) = Kept(Sent(r).host) \cup {NewRow(r)}
           /\ NewRow(r) \in Row /\ NewRow(r).host = Sent(r).host
           /\ NewRow(r).time = Sent(r).time /\ NewRow(r) \notin committed
           /\ Sent(r).host \in Hosts
           /\ Seen(r) \in SUBSET Row /\ IsFiniteSet(Seen(r))
<1>1. Seen(r) = Kept(Sent(r).host) \cup {NewRow(r)}
  BY DEF Seen, Kept
<1>2. request[r].report \in 1 .. Len(sent) /\ NewRow(r) \notin committed
  BY DEF BaseInv, RequestInv, NewRow
<1>3. /\ NewRow(r) \in Row /\ NewRow(r).host = Sent(r).host
      /\ NewRow(r).time = Sent(r).time /\ Sent(r) \in Report
  BY <1>2, SentType DEF BaseInv
<1>4. Seen(r) \in SUBSET Row /\ IsFiniteSet(Seen(r))
  BY <1>1, <1>3, KeptType, FS_AddElement
<1> QED
  BY <1>1, <1>2, <1>3, <1>4 DEF Report

\* The rows that a transaction leaves can be counted.
LEMMA RestType ==
    ASSUME BaseInv, NEW r \in Requests, request[r].step \in Selected
    PROVE  /\ Rest[r] = Seen(r) \ request[r].rows
           /\ IsFiniteSet(Rest[r]) /\ Cardinality(Rest[r]) \in Nat
<1>1. request[r].step \in Writing
  BY DEF Writing, Pending
<1>2. Rest[r] = Seen(r) \ request[r].rows
  BY DEF Rest
<1>3. Rest[r] \in SUBSET Seen(r)
  BY <1>2
<1> QED
  BY <1>1, <1>2, <1>3, SeenType, FS_Subset, FS_CardinalityType

\* Steps that leave the snapshots, and let no transaction insert or choose.
LEMMA SnapshotsKept ==
    ASSUME BaseInv, NewestInv, UNCHANGED <<driver, hosts, snapshots, committed>>,
           \A r \in Requests : request'[r].step \in Pending =>
               /\ request[r].step \in Pending
               /\ Sent(r)' = Sent(r) /\ NewRow(r)' = NewRow(r),
           \A r \in Requests : request'[r].step \in Selected =>
               request[r].step \in Selected /\ request'[r].rows = request[r].rows
    PROVE  NewestInv'
<1>1. \A h : Kept(h)' = Kept(h)
  BY DEF Kept, OfHost
<1>2. GoneInv'
  BY <1>1 DEF NewestInv, GoneInv, OfHost
<1>3. \A r \in Requests : request'[r].step \in Selected =>
         Seen(r)' = Seen(r) /\ Sent(r)' = Sent(r)
  BY DEF Pending, Seen, OfHost
<1>4. ChosenInv'
  BY <1>3 DEF NewestInv, ChosenInv
<1>5. TimesInv'
  <2>1. \A h \in Hosts : DistinctTimes(Kept(h)')
    BY <1>1 DEF NewestInv, TimesInv
  <2>2. \A r \in Requests : request'[r].step \in Pending =>
           \A row \in Kept(Sent(r).host)' : row.time # Sent(r)'.time
    BY DEF NewestInv, TimesInv, Kept, OfHost
  <2> QED
    BY <2>1, <2>2 DEF NewestInv, TimesInv, DistinctTimes
<1>6. FewInv'
  <2> SUFFICES ASSUME NEW h \in Hosts
               PROVE  /\ driver' = "sqlite" => Cardinality(Kept(h)') <= MaxSnapshots
                      /\ driver' = "postgres" => Chain(Kept(h)', SelectedOf(h)', Rest')
    BY DEF FewInv
  <2>1. SelectedOf(h)' \in SUBSET SelectedOf(h) /\ SelectedOf(h) \in SUBSET Requests
    BY <1>3 DEF SelectedOf
  <2>2. \A r \in SelectedOf(h)' : Rest'[r] = Rest[r]
    BY <1>3 DEF SelectedOf, Rest
  <2>3. \A r \in SelectedOf(h) : Cardinality(Rest[r]) \in Nat
    BY RestType DEF SelectedOf
  <2>4. driver = "postgres" => Chain(Kept(h), SelectedOf(h)', Rest')
    BY <2>1, <2>2, <2>3, KeptType, ChainShrinks DEF NewestInv, FewInv
  <2> QED
    BY <1>1, <2>4 DEF NewestInv, FewInv
<1> QED
  BY <1>2, <1>4, <1>5, <1>6 DEF NewestInv

\* Steps of one request that has no transaction on snapshots then.
LEMMA OutsideStep ==
    ASSUME BaseInv, NewestInv, NEW r \in Requests,
           UNCHANGED <<driver, hosts, snapshots, committed>>,
           \A n \in 1 .. Len(sent) : sent'[n] = sent[n],
           request'[r].step \notin Pending,
           \A q \in Requests \ {r} : request'[q] = request[q]
    PROVE  NewestInv'
<1>1. ASSUME NEW q \in Requests, request'[q].step \in Pending
      PROVE  /\ request[q].step \in Pending /\ request'[q] = request[q]
             /\ Sent(q)' = Sent(q) /\ NewRow(q)' = NewRow(q)
  <2>1. request'[q] = request[q]
    BY <1>1
  <2>2. request[q].report \in 1 .. Len(sent)
    BY <1>1, <2>1 DEF BaseInv, RequestInv, Writing
  <2> QED
    BY <1>1, <2>1, <2>2 DEF Sent, NewRow
<1>2. \A q \in Requests : request'[q].step \in Selected =>
         request[q].step \in Selected /\ request'[q].rows = request[q].rows
  BY <1>1 DEF Pending
<1> QED
  BY <1>1, <1>2, SnapshotsKept

\* A row that is inserted has a time that no other of its host has.
LEMMA InsertNewest ==
    ASSUME BaseInv, NewestInv, NEW r \in Requests, Insertable(r), Goto(r, "inserted"),
           request[r].step = "posting", UNCHANGED <<driver, tables, sent>>,
           \A q \in Requests : request[q].step \in Pending =>
               <<Sent(q).host, Sent(q).time>> # <<Sent(r).host, Sent(r).time>>
    PROVE  NewestInv'
<1>1. /\ request'[r].step = "inserted" /\ request'[r].report = request[r].report
      /\ \A q \in Requests \ {r} : request'[q] = request[q]
  BY GotoType DEF BaseInv, Open
<1>2. \A q \in Requests : Sent(q)' = Sent(q) /\ NewRow(q)' = NewRow(q) /\ Seen(q)' = Seen(q)
  BY <1>1 DEF Sent, NewRow, Seen, OfHost, tables
<1>3. \A q \in Requests :
         /\ (request'[q].step \in Selected) = (request[q].step \in Selected)
         /\ request'[q].step \in Selected => request'[q] = request[q]
  BY <1>1 DEF Selected
<1>4. \A h : Kept(h)' = Kept(h)
  BY DEF Kept, OfHost, tables
<1>5. GoneInv'
  BY <1>4 DEF NewestInv, GoneInv, OfHost, tables
<1>6. ChosenInv'
  BY <1>2, <1>3 DEF NewestInv, ChosenInv
<1>7. TimesInv'
  <2>1. \A h \in Hosts : DistinctTimes(Kept(h)')
    BY <1>4 DEF NewestInv, TimesInv
  <2>2. \A q \in Requests \ {r} : request'[q].step \in Pending => request[q].step \in Pending
    BY <1>1
  <2>3. \A row \in Kept(Sent(r).host) : row.time # Sent(r).time
    BY DEF Insertable, Kept
  <2>4. ASSUME NEW q \in Requests, request'[q].step \in Pending
        PROVE  \A row \in Kept(Sent(q).host) : row.time # Sent(q).time
    BY <2>2, <2>3, <2>4 DEF NewestInv, TimesInv
  <2>5. \A q \in Requests : request'[q].step \in Pending =>
           \A row \in Kept(Sent(q).host)' : row.time # Sent(q)'.time
    BY <1>2, <2>4 DEF Kept, OfHost, tables
  <2>6. ASSUME NEW q \in Requests, NEW p \in Requests, q # p,
               request'[q].step \in Pending, request'[p].step \in Pending
        PROVE  <<Sent(q).host, Sent(q).time>> # <<Sent(p).host, Sent(p).time>>
    BY <2>2, <2>6 DEF NewestInv, TimesInv
  <2> QED
    BY <1>2, <2>1, <2>5, <2>6 DEF TimesInv, DistinctTimes
<1>8. FewInv'
  <2>1. \A h : SelectedOf(h)' = SelectedOf(h)
    BY <1>2, <1>3 DEF SelectedOf
  <2> SUFFICES ASSUME NEW h \in Hosts, driver = "postgres"
               PROVE  Chain(Kept(h), SelectedOf(h), Rest')
    BY <1>4, <2>1 DEF NewestInv, FewInv, tables
  <2>2. \A q \in SelectedOf(h) : Rest'[q] = Rest[q] /\ Cardinality(Rest[q]) \in Nat
    BY <1>2, <1>3, RestType DEF SelectedOf, Rest
  <2>3. SelectedOf(h) \in SUBSET Requests
    BY DEF SelectedOf
  <2>4. Chain(Kept(h), SelectedOf(h), Rest) /\ Cardinality(Kept(h)) \in Nat
    BY KeptType DEF NewestInv, FewInv
  <2> QED
    BY <2>2, <2>3, <2>4, ChainShrinks
<1> QED
  BY <1>5, <1>6, <1>7, <1>8 DEF NewestInv

\* The rows chosen have as many newer ones as may stay.
LEMMA SelectNewest ==
    ASSUME BaseInv, NewestInv, NEW r \in Requests, SelectOlder(r)
    PROVE  NewestInv'
<1> DEFINE S == Seen(r)
<1>1. /\ request[r].step = "inserted" /\ request[r].step \in Writing
      /\ driver = "postgres" /\ UNCHANGED <<driver, tables, sent>>
  BY DEF SelectOlder, BaseInv, RequestInv, Writing, Pending, Open
<1>2. /\ request'[r].step = "trimming" /\ request'[r].rows = Older(r)
      /\ request'[r].report = request[r].report
      /\ \A q \in Requests \ {r} : request'[q] = request[q]
  BY DEF SelectOlder, BaseInv, TypeOK, Request
<1>3. \A q \in Requests : Sent(q)' = Sent(q) /\ NewRow(q)' = NewRow(q) /\ Seen(q)' = Seen(q)
  BY <1>1, <1>2 DEF Sent, NewRow, Seen, OfHost, tables
<1>4. \A h : Kept(h)' = Kept(h)
  BY <1>1 DEF Kept, OfHost, tables
<1>5. S \in SUBSET Row /\ IsFiniteSet(S) /\ Older(r) = S \ NewestOf(MaxSnapshots, S)
  BY <1>1, SeenType DEF Older
<1>6. DistinctTimes(S)
  BY <1>1, SeenType DEF NewestInv, TimesInv, DistinctTimes, Pending
<1> HIDE DEF S
<1>7. GoneInv'
  BY <1>1, <1>4 DEF NewestInv, GoneInv, OfHost, tables
<1>8. ChosenInv'
  <2>1. \A row \in Older(r) : Outranked(row, S)
    BY <1>5, OlderOutranked
  <2> QED
    BY <1>2, <1>3, <2>1 DEF NewestInv, ChosenInv, S
<1>9. TimesInv'
  <2>1. \A q \in Requests : request'[q].step \in Pending => request[q].step \in Pending
    BY <1>1, <1>2 DEF Pending
  <2>2. \A h \in Hosts : DistinctTimes(Kept(h)')
    BY <1>4 DEF NewestInv, TimesInv
  <2>3. \A q \in Requests : request'[q].step \in Pending =>
           \A row \in Kept(Sent(q).host)' : row.time # Sent(q)'.time
    BY <1>1, <1>3, <2>1 DEF NewestInv, TimesInv, Kept, OfHost, tables
  <2> QED
    BY <1>3, <2>1, <2>2, <2>3 DEF NewestInv, TimesInv, DistinctTimes
<1>10. FewInv'
  <2> SUFFICES ASSUME NEW h \in Hosts
               PROVE  Chain(Kept(h), SelectedOf(h)', Rest')
    BY <1>1, <1>4 DEF FewInv
  <2>1. /\ Chain(Kept(h), SelectedOf(h), Rest) /\ Cardinality(Kept(h)) \in Nat
        /\ SelectedOf(h) \in SUBSET Requests
    BY <1>1, KeptType DEF NewestInv, FewInv, SelectedOf
  <2>2. \A q \in SelectedOf(h) : q # r /\ Rest'[q] = Rest[q] /\ Cardinality(Rest[q]) \in Nat
    BY <1>1, <1>2, <1>3, RestType DEF SelectedOf, Rest, Selected
  <2>3. CASE Sent(r).host # h
    <3>1. SelectedOf(h)' = SelectedOf(h)
      BY <1>2, <1>3, <2>2, <2>3 DEF SelectedOf
    <3> QED
      BY <2>1, <2>2, <3>1, ChainShrinks
  <2>4. CASE Sent(r).host = h
    <3>1. SelectedOf(h)' = SelectedOf(h) \cup {r}
      BY <1>2, <1>3, <2>4 DEF SelectedOf, Selected
    <3>2. Rest'[r] = NewestOf(MaxSnapshots, S)
      <4>1. Rest'[r] = S \ Older(r)
        BY <1>2, <1>3 DEF Rest, S
      <4> QED
        BY <1>5, <4>1, NewestOfIn
    <3>3. Cardinality(Rest'[r]) \in Nat /\ Cardinality(Rest'[r]) <= MaxSnapshots
      <4>1. NewestOf(MaxSnapshots, S) \in SUBSET S
        BY NewestOfIn
      <4> QED
        BY <1>5, <1>6, <3>2, <4>1, NewestFew, FS_Subset, FS_CardinalityType
    <3> QED
      BY <2>1, <2>2, <3>1, <3>3, ChainSelects
  <2> QED
    BY <2>3, <2>4
<1> QED
  BY <1>7, <1>8, <1>9, <1>10 DEF NewestInv

\* Locking the rows chosen chooses no others.
LEMMA DeleteOlderNewest ==
    ASSUME BaseInv, NewestInv, NEW r \in Requests, DeleteOlder(r)
    PROVE  NewestInv'
<1>1. /\ request'[r].step = "trimmed" /\ request'[r].report = request[r].report
      /\ request'[r].rows = request[r].rows
      /\ \A q \in Requests \ {r} : request'[q] = request[q]
      /\ request[r].step = "trimming" /\ UNCHANGED <<driver, tables, sent>>
  BY GotoType DEF DeleteOlder, BaseInv, Open
<1>2. \A q \in Requests : Sent(q)' = Sent(q) /\ NewRow(q)' = NewRow(q)
  BY <1>1 DEF Sent, NewRow
<1>3. \A q \in Requests :
         /\ request'[q].step \in Pending => request[q].step \in Pending
         /\ request'[q].step \in Selected =>
               request[q].step \in Selected /\ request'[q].rows = request[q].rows
  BY <1>1 DEF Pending, Selected
<1> QED
  BY <1>1, <1>2, <1>3, SnapshotsKept DEF tables

-----------------------------------------------------------------------------
(* A snapshot is stored.                                                   *)

\* What of the host of q stays when q stores its row, and what of the others.
LEMMA StoredRows ==
    ASSUME BaseInv, NEW q \in Requests, request[q].step \in Writing, Done(q),
           NEW h, h = Sent(q).host,
           NEW doomed, \A row \in doomed : row.host = h, NewRow(q) \notin doomed,
           StoreSnapshot(q, doomed), UNCHANGED <<driver, sent>>
    PROVE  /\ Kept(h)' = Seen(q) \ doomed
           /\ OfHost(h, committed)' = OfHost(h, committed) \cup {NewRow(q)}
           /\ \A g : g # h => /\ Kept(g)' = Kept(g)
                            /\ OfHost(g, committed)' = OfHost(g, committed)
           /\ request'[q].step = "idle"
           /\ \A p \in Requests \ {q} :
                 request'[p] = request[p] /\ Sent(p)' = Sent(p) /\ NewRow(p)' = NewRow(p)
<1> PICK new : new = NewRow(q)
  OBVIOUS
<1>1. new.host = h /\ Seen(q) = Kept(h) \cup {new} /\ new \notin doomed
  BY SeenType
<1>2. snapshots' = (snapshots \ doomed) \cup {new} /\ committed' = committed \cup {new}
  BY DEF StoreSnapshot
<1>3. request'[q].step = "idle" /\ \A p \in Requests \ {q} : request'[p] = request[p]
  BY DoneType DEF BaseInv
<1>4. \A p \in Requests \ {q} : Sent(p)' = Sent(p) /\ NewRow(p)' = NewRow(p)
  BY <1>3 DEF Sent, NewRow
<1>5. \A g : Kept(g)' = {row \in (snapshots \ doomed) \cup {new} : row.host = g}
  BY <1>2 DEF Kept, OfHost
<1>6. \A g : OfHost(g, committed)' = {row \in committed \cup {new} : row.host = g}
  BY <1>2 DEF OfHost
<1>7. Kept(h)' = Seen(q) \ doomed
  BY <1>1, <1>5 DEF Kept, OfHost
<1>8. OfHost(h, committed)' = OfHost(h, committed) \cup {new}
  BY <1>1, <1>6 DEF OfHost
<1>9. \A g : g # h => Kept(g)' = Kept(g) /\ OfHost(g, committed)' = OfHost(g, committed)
  BY <1>1, <1>5, <1>6 DEF Kept, OfHost
<1> QED
  BY <1>3, <1>4, <1>7, <1>8, <1>9

\* Rows deleted, by this commit or before, have enough newer ones that stay.
LEMMA StoreGone ==
    ASSUME BaseInv, NewestInv, NEW q \in Requests, request[q].step \in Writing, Done(q),
           NEW h, h = Sent(q).host,
           NEW doomed, \A row \in doomed : row.host = h, NewRow(q) \notin doomed,
           \A row \in doomed : Outranked(row, Seen(q)),
           StoreSnapshot(q, doomed), UNCHANGED <<driver, sent>>
    PROVE  GoneInv'
<1>1. /\ Kept(h)' = Seen(q) \ doomed
      /\ OfHost(h, committed)' = OfHost(h, committed) \cup {NewRow(q)}
      /\ \A g : g # h => /\ Kept(g)' = Kept(g)
                         /\ OfHost(g, committed)' = OfHost(g, committed)
  BY StoredRows
<1>2. /\ Seen(q) = Kept(h) \cup {NewRow(q)} /\ Seen(q) \in SUBSET Row
      /\ IsFiniteSet(Seen(q))
  BY SeenType
<1>3. committed \subseteq Row
  BY DEF BaseInv, TypeOK
<1> SUFFICES ASSUME NEW g \in hosts, NEW row \in OfHost(g, committed)' \ Kept(g)'
             PROVE  Outranked(row, Kept(g)')
  BY DEF StoreSnapshot, GoneInv, Outranked, Newer
<1>4. CASE g # h
  BY <1>1, <1>4 DEF NewestInv, GoneInv
<1>5. CASE g = h
  <2>1. row \in OfHost(h, committed) /\ row \in Row /\ row # NewRow(q)
    <3>1. NewRow(q) \notin Seen(q) \ doomed => NewRow(q) \in doomed
      BY <1>2
    <3> QED
      BY <1>1, <1>3, <1>5, <3>1 DEF OfHost
  <2>2. Outranked(row, Seen(q))
    <3>1. CASE row \in doomed
      BY <3>1
    <3>2. CASE row \notin doomed
      <4>1. row \notin Kept(h)
        BY <1>1, <1>2, <1>5, <3>2
      <4>2. Outranked(row, Kept(h))
        BY <1>5, <2>1, <4>1 DEF NewestInv, GoneInv
      <4> QED
        BY <1>2, <4>2, OutrankedMore
    <3> QED
      BY <3>1, <3>2
  <2>3. Outranked(row, Seen(q) \ doomed)
    BY <1>2, <2>1, <2>2, OutrankedStays
  <2> QED
    BY <1>1, <1>5, <2>3
<1> QED
  BY <1>4, <1>5

\* The stored row has its time for itself.
LEMMA StoreTimes ==
    ASSUME BaseInv, NewestInv, NEW q \in Requests, request[q].step \in Writing, Done(q),
           NEW h, h = Sent(q).host,
           NEW doomed, \A row \in doomed : row.host = h, NewRow(q) \notin doomed,
           DistinctTimes(Seen(q)),
           \A p \in Requests \ {q} : request[p].step \in Pending =>
               <<Sent(p).host, Sent(p).time>> # <<Sent(q).host, Sent(q).time>>,
           StoreSnapshot(q, doomed), UNCHANGED <<driver, sent>>
    PROVE  TimesInv'
<1>1. /\ Kept(h)' = Seen(q) \ doomed
      /\ \A g : g # h => Kept(g)' = Kept(g)
      /\ request'[q].step = "idle"
      /\ \A p \in Requests \ {q} : request'[p] = request[p] /\ Sent(p)' = Sent(p)
  BY StoredRows
<1>2. Seen(q) = Kept(h) \cup {NewRow(q)} /\ NewRow(q).time = Sent(q).time
  BY SeenType
<1>3. \A p \in Requests : request'[p].step \in Pending =>
         /\ p # q /\ request[p].step \in Pending /\ Sent(p)' = Sent(p)
  BY <1>1 DEF Pending, Selected
<1>4. \A g \in Hosts : DistinctTimes(Kept(g)')
  BY <1>1 DEF NewestInv, TimesInv, DistinctTimes
<1>5. ASSUME NEW p \in Requests, request'[p].step \in Pending
      PROVE  \A row \in Kept(Sent(p).host)' : row.time # Sent(p)'.time
  <2> PICK g : g = Sent(p).host
    OBVIOUS
  <2>1. /\ p # q /\ Sent(p)' = Sent(p)
        /\ \A row \in Kept(g) : row.time # Sent(p).time
        /\ <<g, Sent(p).time>> # <<h, Sent(q).time>>
    BY <1>3, <1>5 DEF NewestInv, TimesInv
  <2>2. Kept(Sent(p).host)' = {row \in snapshots' : row.host = g}
    BY <2>1 DEF Kept, OfHost
  <2>3. Kept(g)' = {row \in snapshots' : row.host = g}
    BY <2>1 DEF Kept, OfHost
  <2>4. \A row \in Kept(g)' : row.time # Sent(p).time
    <3>1. CASE g # h
      BY <1>1, <2>1, <3>1
    <3>2. CASE g = h
      BY <1>1, <1>2, <2>1, <3>2
    <3> QED
      BY <3>1, <3>2
  <2> QED
    BY <2>1, <2>2, <2>3, <2>4
<1>6. \A p, r \in Requests :
         p # r /\ request'[p].step \in Pending /\ request'[r].step \in Pending =>
             <<Sent(p)'.host, Sent(p)'.time>> # <<Sent(r)'.host, Sent(r)'.time>>
  BY <1>3 DEF NewestInv, TimesInv
<1> QED
  BY <1>4, <1>5, <1>6 DEF TimesInv, DistinctTimes

\* One row more makes a set larger by one at most.
LEMMA AtMostOneMore ==
    ASSUME NEW K, IsFiniteSet(K), NEW x, NEW L \in SUBSET (K \cup {x})
    PROVE  Cardinality(L) \in Nat /\ Cardinality(L) <= Cardinality(K) + 1
<1>1. /\ IsFiniteSet(K \cup {x}) /\ Cardinality(K) \in Nat
      /\ Cardinality(K \cup {x}) \in Nat /\ Cardinality(K \cup {x}) <= Cardinality(K) + 1
  <2>1. Cardinality(K) \in Nat /\ IsFiniteSet(K \cup {x})
    BY FS_CardinalityType, FS_AddElement
  <2>2. Cardinality(K \cup {x}) = Cardinality(K) \/ Cardinality(K \cup {x}) = Cardinality(K) + 1
    BY FS_AddElement
  <2> QED
    BY <2>1, <2>2
<1>2. IsFiniteSet(L) /\ Cardinality(L) <= Cardinality(K \cup {x})
  BY <1>1, FS_Subset
<1>3. Cardinality(L) \in Nat
  BY <1>2, FS_CardinalityType
<1> QED
  BY <1>1, <1>2, <1>3

\* What the other transactions have chosen stays outranked, and no
\* transaction leaves more rows of q's host than it may.
LEMMA CommitNewest ==
    ASSUME BaseInv, NewestInv, NEW q \in Requests, CommitSnapshot(q), ~UNCHANGED tables
    PROVE  NewestInv'
<1> PICK h : h = Sent(q).host
  OBVIOUS
<1> PICK doomed : doomed = request[q].rows
  OBVIOUS
<1> PICK new : new = NewRow(q)
  OBVIOUS
<1>1. /\ request[q].step = "trimmed" /\ new \notin doomed
      /\ StoreSnapshot(q, doomed) /\ Done(q) /\ UNCHANGED <<driver, sent>>
  BY DEF CommitSnapshot
<1>2. /\ request[q].step \in Selected /\ request[q].step \in Pending
      /\ request[q].step \in Writing
      /\ driver = "postgres" /\ \A row \in doomed : row.host = h
  BY <1>1 DEF BaseInv, RequestInv, Writing, Pending, Selected, Open
<1>3. \A row \in doomed : Outranked(row, Seen(q))
  BY <1>2 DEF NewestInv, ChosenInv
<1>4. /\ Seen(q) = Kept(h) \cup {new} /\ Seen(q) \in SUBSET Row /\ IsFiniteSet(Seen(q))
      /\ h \in Hosts /\ new \in Row /\ new.host = h /\ new.time = Sent(q).time
  BY <1>2, SeenType
<1>5. GoneInv'
  BY <1>1, <1>2, <1>3, StoreGone
<1>6. TimesInv'
  <2>1. DistinctTimes(Seen(q))
    BY <1>2, <1>4 DEF NewestInv, TimesInv, DistinctTimes
  <2>2. \A p \in Requests \ {q} : request[p].step \in Pending =>
           <<Sent(p).host, Sent(p).time>> # <<Sent(q).host, Sent(q).time>>
    BY <1>2 DEF NewestInv, TimesInv
  <2> QED
    BY <1>1, <1>2, <2>1, <2>2, StoreTimes
<1>7. /\ Kept(h)' = Seen(q) \ doomed
      /\ \A g : g # h => Kept(g)' = Kept(g)
      /\ request'[q].step = "idle"
      /\ \A p \in Requests \ {q} :
            request'[p] = request[p] /\ Sent(p)' = Sent(p) /\ NewRow(p)' = NewRow(p)
  BY <1>1, <1>2, StoredRows
<1>8. ASSUME NEW r \in Requests, request'[r].step \in Selected
      PROVE  /\ r # q /\ request[r].step \in Selected /\ request[r].step \in Writing
             /\ request'[r] = request[r]
             /\ Seen(r) = Kept(Sent(r).host) \cup {NewRow(r)}
             /\ Sent(r).host = h => Seen(r)' = (Seen(q) \ doomed) \cup {NewRow(r)}
             /\ Sent(r).host # h => Seen(r)' = Seen(r)
  <2>1. r # q /\ request'[r] = request[r] /\ Sent(r)' = Sent(r) /\ NewRow(r)' = NewRow(r)
    BY <1>7, <1>8 DEF Selected
  <2>2. request[r].step \in Selected /\ request[r].step \in Writing
    BY <1>8, <2>1 DEF Writing, Pending
  <2> PICK g : g = Sent(r).host
    OBVIOUS
  <2>3. Seen(r) = Kept(g) \cup {NewRow(r)} /\ Seen(r)' = Kept(g)' \cup {NewRow(r)}
    BY <2>1 DEF Seen, Kept, OfHost
  <2> QED
    BY <1>7, <2>1, <2>2, <2>3
<1>9. ChosenInv'
  <2> SUFFICES ASSUME NEW r \in Requests, request'[r].step \in Selected,
                      NEW row \in request'[r].rows
               PROVE  Outranked(row, Seen(r)')
    BY DEF ChosenInv, Outranked, Newer
  <2>1. Outranked(row, Seen(r)) /\ request'[r] = request[r]
    BY <1>8 DEF NewestInv, ChosenInv
  <2>2. CASE Sent(r).host # h
    BY <1>8, <2>1, <2>2
  <2>3. CASE Sent(r).host = h
    <3> DEFINE all == Seen(q) \cup {NewRow(r)}
    <3>1. NewRow(r) \in Row /\ row \in Row
      <4>1. NewRow(r) \in Row
        BY <1>8, SeenType
      <4> QED
        BY <1>8, <4>1 DEF BaseInv, RequestInv, TypeOK
    <3>2. all \in SUBSET Row /\ IsFiniteSet(all) /\ Seen(q) \in SUBSET all
      BY <1>4, <3>1, FS_AddElement
    <3>3. Seen(r) \in SUBSET all
      BY <1>4, <1>8, <2>3
    <3>4. all \ doomed \in SUBSET Seen(r)' /\ IsFiniteSet(Seen(r)')
      <4>1. Seen(r)' = (Seen(q) \ doomed) \cup {NewRow(r)}
        BY <1>8, <2>3
      <4>2. Seen(r)' \in SUBSET all
        BY <4>1
      <4> QED
        BY <3>2, <4>1, <4>2, FS_Subset
    <3> HIDE DEF all
    <3>5. /\ Outranked(row, all)
          /\ \A d \in doomed : Outranked(d, all)
      BY <1>3, <2>1, <3>2, <3>3, OutrankedMore
    <3>6. Outranked(row, all \ doomed)
      BY <3>1, <3>2, <3>5, OutrankedStays
    <3> QED
      BY <3>4, <3>6, OutrankedMore
  <2> QED
    BY <2>2, <2>3
<1>10. FewInv'
  <2> SUFFICES ASSUME NEW g \in Hosts
               PROVE  Chain(Kept(g)', SelectedOf(g)', Rest')
    BY <1>1, <1>2 DEF FewInv
  <2>1. /\ Chain(Kept(g), SelectedOf(g), Rest) /\ Cardinality(Kept(g)) \in Nat
        /\ SelectedOf(g) \in SUBSET Requests
        /\ \A r \in SelectedOf(g) : IsFiniteSet(Rest[r]) /\ Cardinality(Rest[r]) \in Nat
    BY <1>2, KeptType, RestType DEF NewestInv, FewInv, SelectedOf
  <2>2. SelectedOf(g)' = SelectedOf(g) \ {q}
    BY <1>7 DEF SelectedOf, Selected
  <2>3. \A r \in SelectedOf(g) \ {q} :
           /\ Rest'[r] = Seen(r)' \ request[r].rows /\ Rest[r] = Seen(r) \ request[r].rows
           /\ request'[r].step \in Selected /\ Sent(r).host = g
    BY <1>7 DEF Rest, SelectedOf
  <2>4. CASE g # h
    <3>1. q \notin SelectedOf(g)
      BY <2>4 DEF SelectedOf
    <3>2. \A r \in SelectedOf(g) : Rest'[r] = Rest[r]
      BY <1>8, <2>1, <2>3, <2>4, <3>1
    <3> QED
      BY <1>7, <2>1, <2>2, <2>4, <3>1, <3>2, ChainShrinks
  <2>5. CASE g = h
    <3> DEFINE stay == Seen(q) \ doomed
    <3>1. q \in SelectedOf(g) /\ Rest[q] = stay
      BY <1>2, <2>5, RestType DEF SelectedOf
    <3>2. IsFiniteSet(stay) /\ Cardinality(stay) \in Nat
      BY <2>1, <3>1
    <3>3. Cardinality(stay) <= Cardinality(Kept(g)) + 1
      <4>1. stay \in SUBSET (Kept(g) \cup {new})
        BY <1>4, <2>5
      <4> QED
        BY <4>1, AtMostOneMore, KeptType
    <3>4. ASSUME NEW r \in SelectedOf(g) \ {q}
          PROVE  /\ Cardinality(Rest'[r]) \in Nat
                 /\ Cardinality(Rest'[r]) <= Cardinality(Rest[r]) + 1
                 /\ Cardinality(Rest'[r]) <= Cardinality(Rest[q]) + 1
      <4>1. /\ Rest'[r] = ((Seen(q) \ doomed) \cup {NewRow(r)}) \ request[r].rows
            /\ Rest[r] = (Kept(h) \cup {NewRow(r)}) \ request[r].rows
        BY <1>8, <2>1, <2>3, <2>5
      <4>2. Rest'[r] \in SUBSET (Rest[r] \cup {new})
        BY <1>4, <4>1
      <4>3. Rest'[r] \in SUBSET (Rest[q] \cup {NewRow(r)})
        BY <3>1, <4>1
      <4>4. IsFiniteSet(Rest[r]) /\ IsFiniteSet(Rest[q])
        BY <2>1, <3>1
      <4> QED
        BY <4>2, <4>3, <4>4, AtMostOneMore
    <3> HIDE DEF stay
    <3>5. Chain(stay, SelectedOf(g) \ {q}, Rest')
      BY <2>1, <3>1, <3>2, <3>3, <3>4, ChainCommits
    <3> QED
      BY <1>7, <2>2, <2>5, <3>5 DEF stay
  <2> QED
    BY <2>4, <2>5
<1> QED
  BY <1>5, <1>6, <1>9, <1>10 DEF NewestInv

\* In SQLite no other transaction is on its way.
LEMMA CreateNewest ==
    ASSUME BaseInv, NewestInv, NEW q \in Requests, CreateSnapshot(q), ~UNCHANGED tables
    PROVE  NewestInv'
<1> PICK h : h = Sent(q).host
  OBVIOUS
<1> PICK doomed : doomed = Older(q)
  OBVIOUS
<1> PICK new : new = NewRow(q)
  OBVIOUS
<1>1. /\ request[q].step \in Writing /\ new \notin doomed /\ Insertable(q)
      /\ StoreSnapshot(q, doomed) /\ Done(q) /\ UNCHANGED <<driver, sent>>
      /\ driver = "sqlite"
  BY DEF CreateSnapshot, Writing
<1>2. \A r \in Requests : request[r].step \notin Pending
  BY <1>1 DEF BaseInv, RequestInv, Pending, Selected, Open
<1>3. /\ Seen(q) = Kept(h) \cup {new} /\ Seen(q) \in SUBSET Row /\ IsFiniteSet(Seen(q))
      /\ h \in Hosts /\ new \in Row /\ new.host = h /\ new.time = Sent(q).time
  BY <1>1, SeenType
<1>4. \A row \in doomed : row.host = h /\ Outranked(row, Seen(q))
  BY <1>1, <1>3, OlderType, OlderOutranked DEF Older
<1>5. DistinctTimes(Seen(q))
  BY <1>1, <1>3 DEF NewestInv, TimesInv, DistinctTimes, Insertable, Kept
<1>6. GoneInv'
  BY <1>1, <1>4, StoreGone
<1>7. TimesInv'
  BY <1>1, <1>2, <1>4, <1>5, StoreTimes
<1>8. /\ Kept(h)' = Seen(q) \ doomed
      /\ \A g : g # h => Kept(g)' = Kept(g)
      /\ request'[q].step = "idle"
      /\ \A p \in Requests \ {q} : request'[p] = request[p]
  BY <1>1, <1>4, StoredRows
<1>9. ChosenInv'
  BY <1>2, <1>8 DEF ChosenInv, Pending, Selected
<1>10. FewInv'
  <2>1. Kept(h)' = NewestOf(MaxSnapshots, Seen(q))
    BY <1>8, NewestOfIn DEF Older
  <2>2. Cardinality(Kept(h)') <= MaxSnapshots
    BY <1>3, <1>5, <2>1, NewestFew
  <2> QED
    BY <1>1, <1>8, <2>2 DEF NewestInv, FewInv
<1> QED
  BY <1>6, <1>7, <1>9, <1>10 DEF NewestInv

\* No transaction is open on the host that is deleted.
LEMMA DeleteHostNewest ==
    ASSUME BaseInv, NewestInv, NEW h \in Hosts, DeleteHost(h)
    PROVE  NewestInv'
<1>1. /\ hosts' = hosts \ {h} /\ snapshots' = snapshots \ OfHost(h, snapshots)
      /\ UNCHANGED <<driver, sent, committed, request>>
      /\ \A r \in Requests : request[r].step \in Open => Sent(r).host # h
  BY DEF DeleteHost
<1>2. /\ Kept(h)' = {}
      /\ \A g : g # h => Kept(g)' = Kept(g)
  BY <1>1 DEF Kept, OfHost
<1>3. ASSUME NEW r \in Requests, request[r].step \in Pending
      PROVE  /\ Sent(r).host # h /\ Sent(r)' = Sent(r) /\ NewRow(r)' = NewRow(r)
             /\ Kept(Sent(r).host)' = Kept(Sent(r).host) /\ Seen(r)' = Seen(r)
  <2>1. Sent(r).host # h /\ Sent(r)' = Sent(r) /\ NewRow(r)' = NewRow(r)
    BY <1>1, <1>3 DEF Pending, Selected, Open, Sent, NewRow
  <2>2. OfHost(Sent(r).host, snapshots)' = OfHost(Sent(r).host, snapshots)
    BY <1>1, <2>1 DEF OfHost
  <2> QED
    BY <2>1, <2>2 DEF Kept, Seen
<1>4. GoneInv'
  BY <1>1, <1>2 DEF NewestInv, GoneInv, OfHost
<1>5. ChosenInv'
  BY <1>1, <1>3 DEF NewestInv, ChosenInv, Pending
<1>6. TimesInv'
  <2>1. \A g \in Hosts : DistinctTimes(Kept(g)')
    BY <1>2 DEF NewestInv, TimesInv, DistinctTimes
  <2> QED
    BY <1>1, <1>3, <2>1 DEF NewestInv, TimesInv, DistinctTimes
<1>7. FewInv'
  <2>1. /\ \A r \in Requests : request[r].step \in Selected => request[r].step \in Pending
        /\ request' = request
    BY <1>1 DEF Pending
  <2>2. /\ \A g : SelectedOf(g)' = SelectedOf(g)
        /\ SelectedOf(h) = {}
    BY <1>3, <2>1 DEF SelectedOf
  <2>3. ASSUME NEW g \in Hosts \ {h}, driver = "postgres"
        PROVE  Chain(Kept(g)', SelectedOf(g)', Rest')
    <3>1. /\ Chain(Kept(g), SelectedOf(g), Rest) /\ Cardinality(Kept(g)) \in Nat
          /\ SelectedOf(g) \in SUBSET Requests
          /\ \A r \in SelectedOf(g) : Cardinality(Rest[r]) \in Nat
      BY <2>3, KeptType, RestType DEF NewestInv, FewInv, SelectedOf
    <3>2. \A r \in SelectedOf(g) : Rest'[r] = Rest[r]
      BY <1>3, <2>1 DEF SelectedOf, Rest
    <3> QED
      BY <1>2, <2>2, <2>3, <3>1, <3>2, ChainShrinks
  <2>4. Chain(Kept(h)', SelectedOf(h)', Rest')
    BY <1>2, <2>2, ChainNone
  <2>5. Cardinality(Kept(h)') <= MaxSnapshots
    BY <1>2, FS_EmptySet, MaxSnapshotsAssumption
  <2> QED
    BY <1>1, <1>2, <2>3, <2>4, <2>5 DEF NewestInv, FewInv
<1> QED
  BY <1>4, <1>5, <1>6, <1>7 DEF NewestInv

\* Reads change no snapshot.
LEMMA ReadNewest ==
    ASSUME BaseInv, ReadsInv, NewestInv, NEW r \in Requests, ReadStep(r)
    PROVE  NewestInv'
<1>1. UNCHANGED <<driver, tables, sent>>
  BY DEF ReadStep, LoadMetrics, ReadNextMetrics, ReadGpus, Answer
<1>2. /\ request'[r].step \notin Pending
      /\ \A q \in Requests \ {r} : request'[q] = request[q]
  <2>1. CASE LoadMetrics(r) \/ ReadNextMetrics(r)
    <3>1. /\ request[r].step \in {"listing", "stepping"} /\ request[r].found \in SUBSET Metric
          /\ \E rows : Asked(r, rows)
      BY <2>1 DEF LoadMetrics, ReadNextMetrics, ReadsInv, ListInv, Listing
    <3> QED
      BY <1>1, <3>1, AskedStep DEF Pending, Selected
  <2>2. CASE ReadGpus(r)
    BY <2>2 DEF ReadGpus, BaseInv, TypeOK, Request, Pending, Selected
  <2>3. CASE Done(r)
    BY <2>3, DoneType DEF BaseInv, Pending, Selected
  <2> QED
    BY <2>1, <2>2, <2>3 DEF ReadStep, Answer
<1> QED
  BY <1>1, <1>2, OutsideStep DEF tables

\* Neither does a report that arrives.
LEMMA ArriveNewest ==
    ASSUME BaseInv, NewestInv, NEW r \in Requests, Arrive(r)
    PROVE  NewestInv'
<1>1. ASSUME NEW step \in {"posting", "informing"}, NEW report \in Report,
             sent' = Append(sent, report), UNCHANGED <<driver, tables>>,
             request' = [request EXCEPT ![r] = [Idle EXCEPT !.step = step,
                                                            !.report = Len(sent')]]
      PROVE  NewestInv'
  <2>1. \A n \in 1 .. Len(sent) : sent'[n] = sent[n]
    BY <1>1 DEF BaseInv, TypeOK
  <2>2. /\ request'[r].step = step
        /\ \A q \in Requests \ {r} : request'[q] = request[q]
    BY <1>1, IdleType DEF BaseInv, TypeOK, Request
  <2> QED
    BY <1>1, <2>1, <2>2, OutsideStep DEF tables, Pending, Selected
<1>2. ASSUME NEW h \in Hosts, ReceiveMetric(r, h) \/ ReceiveInfo(r, h)
      PROVE  NewestInv'
  <2>1. UNCHANGED <<driver, tables>>
    BY <1>2 DEF ReceiveMetric, ReceiveInfo
  <2> QED
    BY <1>1, <1>2, <2>1, Received
<1>3. ASSUME NEW step \in {"listing", "stepping", "asking"}, NEW rows, Read(r, step, rows)
      PROVE  NewestInv'
  <2>1. /\ request'[r].step = step
        /\ \A q \in Requests \ {r} : request'[q] = request[q]
    BY <1>3, IdleType DEF Read, BaseInv, TypeOK, Request
  <2> QED
    BY <1>3, <2>1, OutsideStep DEF Read, tables, Pending, Selected
<1>4. CASE \E step \in {"listing", "stepping", "asking"} : \E rows : Read(r, step, rows)
  BY <1>3, <1>4
<1> QED
  BY <1>2, <1>4 DEF Arrive, ListSnapshots, ListStepwise, GetInfo, ListRecent, ListLatest,
                    ListInfos, ReadInfos

\* Every statement of a request that writes keeps the newest.
LEMMA WriteNewest ==
    ASSUME BaseInv, NewestInv, NEW r \in Requests, WriteStep(r)
    PROVE  NewestInv'
<1>1. ASSUME Done(r), UNCHANGED <<driver, hosts, snapshots, committed, sent>>
      PROVE  NewestInv'
  BY <1>1, DoneType, OutsideStep DEF BaseInv, Pending, Selected
<1>2. CASE CreateSnapshot(r)
  BY <1>1, <1>2, CreateNewest DEF CreateSnapshot, tables
<1>3. CASE UpsertSystemInfo(r)
  BY <1>1, <1>3 DEF UpsertSystemInfo, StoreInfo, tables
<1>4. CASE InsertSnapshot(r)
  <2>1. CASE Insertable(r) /\ Goto(r, "inserted")
    BY <1>4, <2>1, InsertNewest DEF InsertSnapshot, Pending, Selected
  <2>2. CASE Done(r)
    BY <1>1, <1>4, <2>2 DEF InsertSnapshot, tables
  <2> QED
    BY <1>4, <2>1, <2>2 DEF InsertSnapshot
<1>5. CASE SelectOlder(r)
  BY <1>5, SelectNewest
<1>6. CASE DeleteOlder(r)
  BY <1>6, DeleteOlderNewest
<1>7. CASE CommitSnapshot(r)
  BY <1>1, <1>7, CommitNewest DEF CommitSnapshot, tables
<1>8. CASE UpsertRow(r)
  <2>1. CASE Goto(r, "upserted")
    <3>1. /\ request'[r].step = "upserted"
          /\ \A q \in Requests \ {r} : request'[q] = request[q]
      BY <2>1, GotoType DEF BaseInv, Open
    <3> QED
      BY <1>8, <3>1, OutsideStep DEF UpsertRow, tables, Pending, Selected
  <2>2. CASE Done(r)
    BY <1>1, <1>8, <2>2 DEF UpsertRow, tables
  <2> QED
    BY <1>8, <2>1, <2>2 DEF UpsertRow
<1>9. CASE CommitInfo(r)
  BY <1>1, <1>9 DEF CommitInfo, StoreInfo
<1> QED
  BY <1>2, <1>3, <1>4, <1>5, <1>6, <1>7, <1>8, <1>9 DEF WriteStep

\* Every step does.
LEMMA NextNewest ==
    ASSUME BaseInv, ReadsInv, NewestInv, [Next]_vars
    PROVE  NewestInv'
<1>1. ASSUME NEW r \in Requests, GiveUp(r)
      PROVE  NewestInv'
  <2>1. Done(r) /\ UNCHANGED <<driver, hosts, snapshots, committed, sent>>
    BY <1>1 DEF GiveUp, tables
  <2> QED
    BY <2>1, DoneType, OutsideStep DEF BaseInv, Pending, Selected
<1>2. CASE UNCHANGED vars
  BY <1>2, SnapshotsKept DEF vars, tables, Sent, NewRow
<1> QED
  BY <1>1, <1>2, ArriveNewest, WriteNewest, ReadNewest, DeleteHostNewest DEF Next

-----------------------------------------------------------------------------
(* Theorems.                                                               *)

IInv == BaseInv /\ ReadsInv /\ NewestInv

\* The inductive invariant holds throughout.
THEOREM Invariance == Spec => []IInv
<1>1. Init => IInv
  <2> SUFFICES ASSUME Init
               PROVE  ReadsInv
    BY InitBaseInv, InitNewestInv DEF IInv
  <2> QED
    BY DEF Init, Idle, ReadsInv, ListInv, InfoInv, Listing, Describing
<1>2. IInv /\ [Next]_vars => IInv'
  BY NextKeeps, NextNewest DEF IInv
<1> QED
  BY <1>1, <1>2, PTL DEF Spec

\* The tables, the reports and the requests are what the declarations say.
THEOREM TypeCorrect == Spec => []TypeOK
<1>1. IInv => TypeOK
  BY DEF IInv, BaseInv
<1> QED
  BY <1>1, Invariance, PTL

\* The GPUs of a host, in the tables and in every answer, are all those of one
\* report on that host.
THEOREM InfoWholeHolds == Spec => []InfoWhole
<1>1. IInv => InfoWhole
  <2> SUFFICES ASSUME IInv
               PROVE  InfoWhole
    OBVIOUS
  <2>1. \A h \in Hosts : {gpu \in gpus : gpu.host = h}
                            = IF infos[h] = 0 THEN {} ELSE GpusOf(infos[h])
    BY DEF IInv, BaseInv, InfosInv
  <2>2. \A r \in Requests : request[r].step = "described" => AnswerWhole(r)
    BY DEF IInv, ReadsInv, InfoInv
  <2> QED
    BY <2>1, <2>2 DEF InfoWhole, AnswerWhole
<1> QED
  BY <1>1, Invariance, PTL

\* A list of snapshots shows each with the metric it was reported with, or
\* without any if it was deleted meanwhile.
THEOREM ListedAsReportedHolds == Spec => []ListedAsReported
<1>1. IInv => ListedAsReported
  <2> SUFFICES ASSUME IInv, NEW r \in Requests, request[r].step = "listed",
                      NEW row \in request[r].rows
               PROVE  LET found == {m.bytes : m \in {n \in request[r].found : n.snapshot = row.id}}
                      IN  \/ found = {sent[row.id].bytes}
                          \/ found = {} /\ row \notin snapshots
    BY DEF ListedAsReported
  <2>1. ListInv(r) /\ request[r].left = {}
    BY DEF IInv, ReadsInv, ListInv, Listing
  <2>2. \A m \in request[r].found : m.bytes = sent[m.snapshot].bytes
    BY <2>1 DEF ListInv, Listing
  <2>3. (\E m \in request[r].found : m.snapshot = row.id) \/ row \notin snapshots
    BY <2>1 DEF ListInv, Listing
  <2> QED
    BY <2>2, <2>3
<1> QED
  BY <1>1, Invariance, PTL

\* The newest snapshots of a host stay, and not many more: with SQLite no more
\* than MaxSnapshots, with PostgreSQL one more for each other request at most.
THEOREM NewestKeptHolds == Spec => []NewestKept
<1>1. IInv => NewestKept
  <2> SUFFICES ASSUME IInv, NEW h \in Hosts
               PROVE  /\ h \in hosts => \A row \in OfHost(h, committed) \ Kept(h) :
                            Cardinality({k \in Kept(h) : k.time > row.time}) >= MaxSnapshots
                      /\ h \notin hosts => Kept(h) = {}
                      /\ Cardinality(Kept(h)) <= MaxSnapshots
                            + (IF driver = "sqlite" THEN 0 ELSE Cardinality(Requests) - 1)
    BY DEF NewestKept, Kept
  <2>1. ASSUME h \in hosts, NEW row \in OfHost(h, committed) \ Kept(h)
        PROVE  Cardinality({k \in Kept(h) : k.time > row.time}) >= MaxSnapshots
    <3>1. Outranked(row, Kept(h))
      BY <2>1 DEF IInv, NewestInv, GoneInv
    <3> QED
      BY <3>1 DEF Outranked, Newer
  <2>2. h \notin hosts => Kept(h) = {}
    BY DEF IInv, BaseInv, RowsInv, Kept, OfHost
  <2>3. CASE driver = "sqlite"
    <3>1. Cardinality(Kept(h)) <= MaxSnapshots
      BY <2>3 DEF IInv, NewestInv, FewInv
    <3> QED
      BY <2>1, <2>2, <2>3, <3>1, MaxSnapshotsAssumption
  <2>4. CASE driver = "postgres"
    <3>1. PICK first \in SUBSET SelectedOf(h) : Cardinality(Kept(h)) + Cardinality(first) <= Room
      BY <2>4 DEF IInv, NewestInv, FewInv, Chain, Chained
    <3>2. first \in SUBSET Requests
      BY DEF SelectedOf
    <3>3. Cardinality(Kept(h)) <= Room
      BY <3>1, <3>2, Counted, KeptType, RoomType DEF IInv
    <3> QED
      BY <2>1, <2>2, <2>4, <3>3, RoomType, MaxSnapshotsAssumption DEF Room
  <2> QED
    BY <2>3, <2>4 DEF IInv, BaseInv, TypeOK
<1> QED
  BY <1>1, Invariance, PTL

=============================================================================
