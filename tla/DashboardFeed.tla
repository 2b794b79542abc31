--------------------------- MODULE DashboardFeed ---------------------------
(***************************************************************************)
(* The dashboard's live updates: the handler of the services' events, a    *)
(* channel of bounded length per browser, and the goroutine that serves    *)
(* the browser's websocket.                                                *)
(*                                                                         *)
(* A publisher is a goroutine of the server that has committed and runs    *)
(* the event's handler.  It never waits for a browser: when a channel is   *)
(* full it takes the oldest update out, merges its own into it and tries   *)
(* to put the result back.  Each try is a step.                            *)
(*                                                                         *)
(* The page is a set of fragments.  The database is counted in commits;    *)
(* dashboardData, which DashboardCache models, returns some prefix of them *)
(* that has at least the commits announced when it was called, the theorem *)
(* ReadYourWritesHolds of DashboardCacheProofs.                            *)
(*                                                                         *)
(* Not every change has an update to bring it: LeftOut is what the update  *)
(* of an event leaves out, SilentCommit what is committed without one.     *)
(***************************************************************************)
EXTENDS Naturals, Sequences

CONSTANTS
    Hosts,      \* the hosts on the page
    Clients,    \* websocket connections; one is used again after it is closed
    Publishers, \* goroutines that commit and publish
    Capacity,   \* length of a client's channel (8 in the code)
    MaxCommits, \* bound on the commits
    NoCall      \* a goroutine that is not in signalClient

ASSUME CapacityAssumption == Capacity \in Nat \ {0}
ASSUME BoundAssumption == MaxCommits \in Nat
ASSUME GoroutineAssumption == Clients \cap Publishers = {}

Goroutines == Publishers \cup Clients

\* What a live update can replace on the page.
Fragments ==
    {<<"overview">>, <<"hosts">>} \cup ({"row", "metrics"} \X Hosts)

Sections == {"overview", "hosts", "hostRows", "hostMetrics"}

\* dashboardUpdate.  The section of the time of generation is in every
\* update and left out.
Update == [sections : SUBSET Sections, rows : SUBSET Hosts, metrics : SUBSET Hosts]

UpdateAll == [sections |-> {"overview", "hosts"}, rows |-> {}, metrics |-> {}]

RowUpdate(sections, h) ==
    [sections |-> sections \cup {"hostRows"}, rows |-> {h}, metrics |-> {}]

MetricUpdate(sections, h) ==
    [sections |-> sections \cup {"hostMetrics"}, rows |-> {}, metrics |-> {h}]

\* The commits of this process that the dashboard hears of.
Kinds == {"HostCreatedOrDeleted", "HostUpdated", "AgentAssigned",
          "MetricSnapshotCreated", "SystemInfoUpdated", "ManagementMethodCreated"}

\* Those that it does not: neither has an event with an update.
SilentKinds == {"ManagementMethodDeleted", "AgentDeleted"}

\* Fault: every update of a row is that of an edit, without the overview.
UpdateForRowOnly(kind, h) ==
    CASE kind = "HostCreatedOrDeleted"  -> UpdateAll
      [] kind = "MetricSnapshotCreated" -> MetricUpdate({"overview"}, h)
      [] OTHER                          -> RowUpdate({}, h)

\* dashboardUpdateForEvent
UpdateFor(kind, h) ==
    CASE kind = "HostCreatedOrDeleted"  -> UpdateAll
      [] kind = "HostUpdated"           -> RowUpdate({}, h)
      [] kind = "MetricSnapshotCreated" -> MetricUpdate({"overview"}, h)
      [] kind \in {"AgentAssigned", "SystemInfoUpdated", "ManagementMethodCreated"}
                                        -> RowUpdate({"overview"}, h)

\* The fragments whose contents a commit may change.  A snapshot changes the
\* status, which the class of the row's element shows, and an edit may lose the
\* agent, which the overview counts.
Touched(kind, h) ==
    CASE kind = "HostCreatedOrDeleted" -> {<<"overview">>, <<"hosts">>}
      [] kind \in {"ManagementMethodCreated", "ManagementMethodDeleted"} ->
             {<<"overview">>, <<"row", h>>}
      [] OTHER -> {<<"overview">>, <<"row", h>>, <<"metrics", h>>}

\* Those of them that the event's update does not replace.
LeftOut(kind, h) ==
    CASE kind = "HostUpdated"           -> {<<"overview">>}
      [] kind = "MetricSnapshotCreated" -> {<<"row", h>>}
      [] OTHER                          -> {}

\* Fault: the merged update keeps the hosts of the older one only.
MergeLeftHosts(left, right) ==
    [sections |-> left.sections \cup right.sections,
     rows     |-> left.rows,
     metrics  |-> left.metrics]

\* mergeDashboardUpdates
Merge(left, right) ==
    [sections |-> left.sections \cup right.sections,
     rows     |-> left.rows \cup right.rows,
     metrics  |-> left.metrics \cup right.metrics]

\* The fragments renderLiveUpdate writes.  The list of hosts has all rows in
\* it, and a row has its metrics in it.
Rendered(update) ==
    LET whole   == "hosts" \in update.sections
        rows    == IF whole THEN Hosts
                   ELSE IF "hostRows" \in update.sections THEN update.rows
                   ELSE {}
        metrics == IF "hostMetrics" \in update.sections
                   THEN rows \cup update.metrics ELSE rows
    IN  {f \in {<<"overview">>} : "overview" \in update.sections}
          \cup {f \in {<<"hosts">>} : whole}
          \cup ({"row"} \X rows) \cup ({"metrics"} \X metrics)

VARIABLES
    commits,    \* number of commits
    announced,  \* the last commit for which the cache has been cleared
    changed,    \* changed[f]: the last commit that changed fragment f
    due,        \* due[f]: the last that has an update to bring the change
    publisher,  \* publisher[p]: where the event's handler stands
    call,       \* call[g]: where goroutine g stands in signalClient
    clients,    \* h.clients
    client,     \* client[c]: where the goroutine of connection c stands
    queue,      \* queue[c]: updateCh of connection c
    view,       \* view[c][f]: the commits that fragment f shows in c's browser
    lost        \* lost[c]: fragments whose update was dropped, and that no
                \* later update brings

vars == <<commits, announced, changed, due, publisher, call, clients, client,
          queue, view, lost>>

Publisher == [pc     : {"idle", "committed", "invalidated", "signalling"},
              commit : Nat,
              update : Update,
              second : Update,   \* of the event that it publishes next, if any
              todo   : SUBSET Clients]

Client == [pc     : {"away", "joined", "serving", "rendering", "leaving"},
           update : Update,
           floor  : Nat]

Call == [step : {"send", "take", "put"}, client : Clients,
         update : Update, pending : Update]

\* A goroutine that is not in signalClient is in no call.
ASSUME NoCallAssumption == NoCall \notin Call

NoUpdate == [sections |-> {}, rows |-> {}, metrics |-> {}]
Quiet    == [pc |-> "idle", commit |-> 0, update |-> NoUpdate, second |-> NoUpdate,
             todo |-> {}]
Away     == [pc |-> "away", update |-> NoUpdate, floor |-> 0]
Blank    == [f \in Fragments |-> 0]

TypeOK ==
    /\ commits \in Nat
    /\ announced \in Nat
    /\ changed \in [Fragments -> Nat]
    /\ due \in [Fragments -> Nat]
    /\ publisher \in [Publishers -> Publisher]
    /\ call \in [Goroutines -> Call \cup {NoCall}]
    /\ clients \subseteq Clients
    /\ client \in [Clients -> Client]
    /\ queue \in [Clients -> Seq(Update)]
    /\ \A c \in Clients : Len(queue[c]) <= Capacity
    /\ view \in [Clients -> [Fragments -> Nat]]
    /\ lost \in [Clients -> SUBSET Fragments]

Init ==
    /\ commits = 0
    /\ announced = 0
    /\ changed = Blank
    /\ due = Blank
    /\ publisher = [p \in Publishers |-> Quiet]
    /\ call = [g \in Goroutines |-> NoCall]
    /\ clients = {}
    /\ client = [c \in Clients |-> Away]
    /\ queue = [c \in Clients |-> << >>]
    /\ view = [c \in Clients |-> Blank]
    /\ lost = [c \in Clients |-> {}]

-----------------------------------------------------------------------------
(* The services' events.                                                   *)

Change(fragments) ==
    changed' = [f \in Fragments |-> IF f \in fragments THEN commits' ELSE changed[f]]

\* A service commits and calls Publish in the same goroutine.  An agent is
\* assigned by an update of its host, which is published first.
Commit(p) ==
    /\ publisher[p].pc = "idle"
    /\ commits < MaxCommits
    /\ commits' = commits + 1
    /\ \E kind \in Kinds, h \in Hosts :
          LET update   == UpdateFor(kind, h)
              assigned == kind = "AgentAssigned"
          IN  /\ Change(Touched(kind, h))
              /\ due' = [f \in Fragments |->
                            IF f \in Touched(kind, h) \ LeftOut(kind, h)
                            THEN commits' ELSE due[f]]
              /\ publisher' = [publisher EXCEPT ![p] =
                    [pc |-> "committed", commit |-> commits',
                     update |-> IF assigned THEN UpdateFor("HostUpdated", h) ELSE update,
                     second |-> IF assigned THEN update ELSE NoUpdate,
                     todo |-> {}]]
    /\ UNCHANGED <<announced, call, clients, client, queue, view, lost>>

\* A commit that this process publishes nothing for, or nothing with an update:
\* the deletion of a management method, and every one of the CLI.
SilentCommit ==
    /\ commits < MaxCommits
    /\ commits' = commits + 1
    /\ \E kind \in Kinds \cup SilentKinds, h \in Hosts : Change(Touched(kind, h))
    /\ UNCHANGED <<announced, due, publisher, call, clients, client, queue, view,
                   lost>>

\* Fault: the handler does not clear the cache.
InvalidateNever(p) ==
    /\ publisher[p].pc = "committed"
    /\ publisher' = [publisher EXCEPT ![p].pc = "invalidated"]
    /\ UNCHANGED <<commits, announced, changed, due, call, clients, client, queue,
                   view, lost>>

\* invalidateCache
Invalidate(p) ==
    /\ publisher[p].pc = "committed"
    /\ announced' = IF publisher[p].commit > announced
                    THEN publisher[p].commit ELSE announced
    /\ publisher' = [publisher EXCEPT ![p].pc = "invalidated"]
    /\ UNCHANGED <<commits, changed, due, call, clients, client, queue, view, lost>>

\* queueLiveUpdate takes the read lock of clientsMu, until FinishPublish.
StartQueueing(p) ==
    /\ publisher[p].pc = "invalidated"
    /\ publisher' = [publisher EXCEPT ![p].pc = "signalling", ![p].todo = clients]
    /\ UNCHANGED <<commits, announced, changed, due, call, clients, client, queue,
                   view, lost>>

\* It signals the clients one after the other, in no particular order.
SignalNext(p) ==
    /\ publisher[p].pc = "signalling"
    /\ call[p] = NoCall
    /\ \E c \in publisher[p].todo :
          /\ call' = [call EXCEPT ![p] =
                        [step |-> "send", client |-> c,
                         update |-> publisher[p].update, pending |-> NoUpdate]]
          /\ publisher' = [publisher EXCEPT ![p].todo = @ \ {c}]
    /\ UNCHANGED <<commits, announced, changed, due, clients, client, queue, view, lost>>

Signalled(p) ==
    /\ publisher[p].pc = "signalling"
    /\ call[p] = NoCall
    /\ publisher[p].todo = {}

\* AssignMonitoringAgent publishes its second event.
PublishSecond(p) ==
    /\ Signalled(p)
    /\ publisher[p].second # NoUpdate
    /\ publisher' = [publisher EXCEPT ![p] =
          [pc |-> "committed", commit |-> publisher[p].commit,
           update |-> publisher[p].second, second |-> NoUpdate, todo |-> {}]]
    /\ UNCHANGED <<commits, announced, changed, due, call, clients, client, queue,
                   view, lost>>

FinishPublish(p) ==
    /\ Signalled(p)
    /\ publisher[p].second = NoUpdate
    /\ publisher' = [publisher EXCEPT ![p] = Quiet]
    /\ UNCHANGED <<commits, announced, changed, due, call, clients, client, queue,
                   view, lost>>

-----------------------------------------------------------------------------
(* signalClient, run by a publisher or by the client's own goroutine.      *)

HasRoom(c) == Len(queue[c]) < Capacity

Put(c, update) == queue' = [queue EXCEPT ![c] = Append(@, update)]

Drop(c, update) == lost' = [lost EXCEPT ![c] = @ \cup Rendered(update)]

Return(g) == call' = [call EXCEPT ![g] = NoCall]

\* Fault: a client whose channel is full is signalled again until it has room.
TrySendAgain(g) ==
    /\ call[g] # NoCall
    /\ call[g].step = "send"
    /\ \/ /\ HasRoom(call[g].client)
          /\ Put(call[g].client, call[g].update)
          /\ UNCHANGED publisher
       \/ /\ ~HasRoom(call[g].client)
          /\ publisher' = [p \in Publishers |->
                IF p = g THEN [publisher[p] EXCEPT !.todo = @ \cup {call[g].client}]
                ELSE publisher[p]]
          /\ UNCHANGED queue
    /\ Return(g)
    /\ UNCHANGED <<commits, announced, changed, due, clients, client, view, lost>>

\* Fault: the channel takes one update too many.
TrySendBeyond(g) ==
    /\ call[g] # NoCall
    /\ call[g].step = "send"
    /\ \/ /\ Len(queue[call[g].client]) <= Capacity
          /\ Put(call[g].client, call[g].update)
          /\ Return(g)
       \/ /\ Len(queue[call[g].client]) > Capacity
          /\ call' = [call EXCEPT ![g].step = "take"]
          /\ UNCHANGED queue
    /\ UNCHANGED <<commits, announced, changed, due, publisher, clients, client, view, lost>>

\* The first select: send if there is room.
TrySend(g) ==
    /\ call[g] # NoCall
    /\ call[g].step = "send"
    /\ \/ /\ HasRoom(call[g].client)
          /\ Put(call[g].client, call[g].update)
          /\ Return(g)
       \/ /\ ~HasRoom(call[g].client)
          /\ call' = [call EXCEPT ![g].step = "take"]
          /\ UNCHANGED queue
    /\ UNCHANGED <<commits, announced, changed, due, publisher, clients, client, view, lost>>

\* The second: take the oldest update out.  If the client has emptied the
\* channel meanwhile, the update is dropped.
TryTake(g) ==
    /\ call[g] # NoCall
    /\ call[g].step = "take"
    /\ LET c == call[g].client
       IN  \/ /\ queue[c] # << >>
              /\ call' = [call EXCEPT ![g].step = "put", ![g].pending = Head(queue[c])]
              /\ queue' = [queue EXCEPT ![c] = Tail(@)]
              /\ UNCHANGED lost
           \/ /\ queue[c] = << >>
              /\ Drop(c, call[g].update)
              /\ Return(g)
              /\ UNCHANGED queue
    /\ UNCHANGED <<commits, announced, changed, due, publisher, clients, client, view>>

\* The third: put both back as one.  If another goroutine has used the room
\* meanwhile, both are dropped.
TryPut(g) ==
    /\ call[g] # NoCall
    /\ call[g].step = "put"
    /\ LET c      == call[g].client
           merged == Merge(call[g].pending, call[g].update)
       IN  \/ /\ HasRoom(c)
              /\ Put(c, merged)
              /\ UNCHANGED lost
           \/ /\ ~HasRoom(c)
              /\ Drop(c, merged)
              /\ UNCHANGED queue
    /\ Return(g)
    /\ UNCHANGED <<commits, announced, changed, due, publisher, clients, client, view>>

SignalStep(g) == TrySend(g) \/ TryTake(g) \/ TryPut(g)

-----------------------------------------------------------------------------
(* SubscribeToDashboard.                                                   *)

\* clientsMu is free of readers.
NoneSignalling == \A p \in Publishers : publisher[p].pc # "signalling"

\* Fault: the page's first update is left to the next event.
JoinUnseen(c) ==
    /\ client[c].pc = "away"
    /\ NoneSignalling
    /\ clients' = clients \cup {c}
    /\ client' = [client EXCEPT ![c].pc = "serving"]
    /\ UNCHANGED <<commits, announced, changed, due, publisher, call, queue, view, lost>>

\* registerClient.  What the page that opens the connection shows may be old.
Join(c) ==
    /\ client[c].pc = "away"
    /\ NoneSignalling
    /\ clients' = clients \cup {c}
    /\ client' = [client EXCEPT ![c].pc = "joined"]
    /\ UNCHANGED <<commits, announced, changed, due, publisher, call, queue, view, lost>>

\* The goroutine signals its own client an update of everything.
Greet(c) ==
    /\ client[c].pc = "joined"
    /\ client' = [client EXCEPT ![c].pc = "serving"]
    /\ call' = [call EXCEPT ![c] = [step |-> "send", client |-> c,
                                    update |-> UpdateAll, pending |-> NoUpdate]]
    /\ UNCHANGED <<commits, announced, changed, due, publisher, clients, queue, view, lost>>

\* Receive an update, and call dashboardData.
StartRender(c) ==
    /\ client[c].pc = "serving"
    /\ call[c] = NoCall
    /\ queue[c] # << >>
    /\ LET update == Head(queue[c])
       IN  /\ client' = [client EXCEPT ![c] = [pc |-> "rendering", update |-> update,
                                               floor |-> announced]]
           /\ lost' = [lost EXCEPT ![c] = @ \ Rendered(update)]
    /\ queue' = [queue EXCEPT ![c] = Tail(@)]
    /\ UNCHANGED <<commits, announced, changed, due, publisher, call, clients, view>>

\* Render its fragments and write them to the browser.
EndRender(c) ==
    /\ client[c].pc = "rendering"
    /\ \E version \in client[c].floor .. commits :
          view' = [view EXCEPT ![c] = [f \in Fragments |->
                      IF f \in Rendered(client[c].update) THEN version ELSE @[f]]]
    /\ client' = [client EXCEPT ![c] = [Away EXCEPT !.pc = "serving"]]
    /\ UNCHANGED <<commits, announced, changed, due, publisher, call, clients, queue, lost>>

\* The browser has gone.
Leave(c) ==
    /\ client[c].pc = "serving"
    /\ call[c] = NoCall
    /\ client' = [client EXCEPT ![c] = [Away EXCEPT !.pc = "leaving"]]
    /\ UNCHANGED <<commits, announced, changed, due, publisher, call, clients, queue,
                   view, lost>>

\* The render or the write fails or runs into its timeout.
BreakOff(c) ==
    /\ client[c].pc = "rendering"
    /\ client' = [client EXCEPT ![c] = [Away EXCEPT !.pc = "leaving"]]
    /\ UNCHANGED <<commits, announced, changed, due, publisher, call, clients, queue,
                   view, lost>>

\* unregisterClient.  The channel and the page go with the connection.
Unregister(c) ==
    /\ client[c].pc = "leaving"
    /\ NoneSignalling
    /\ clients' = clients \ {c}
    /\ client' = [client EXCEPT ![c] = Away]
    /\ queue' = [queue EXCEPT ![c] = << >>]
    /\ view' = [view EXCEPT ![c] = Blank]
    /\ lost' = [lost EXCEPT ![c] = {}]
    /\ UNCHANGED <<commits, announced, changed, due, publisher, call>>

-----------------------------------------------------------------------------
PublisherStep(p) ==
    \/ Invalidate(p) \/ StartQueueing(p) \/ SignalNext(p)
    \/ PublishSecond(p) \/ FinishPublish(p)

Next ==
    \/ \E p \in Publishers : Commit(p) \/ PublisherStep(p)
    \/ SilentCommit
    \/ \E g \in Goroutines : SignalStep(g)
    \/ \E c \in Clients : Join(c) \/ Greet(c) \/ Leave(c) \/ Unregister(c)
    \/ \E c \in Clients : StartRender(c) \/ EndRender(c) \/ BreakOff(c)

Spec == Init /\ [][Next]_vars

\* The server's goroutines are fair, and the write lock of clientsMu is given
\* to who waits for it.  A browser need not come, read or go: when it does not
\* read, the write ends with the error of its timeout of ten seconds.
FairSpec ==
    /\ Spec
    /\ \A p \in Publishers : WF_vars(PublisherStep(p)) /\ WF_vars(SignalStep(p))
    /\ \A c \in Clients :
          /\ WF_vars(Greet(c)) /\ WF_vars(SignalStep(c))
          /\ WF_vars(StartRender(c)) /\ WF_vars(EndRender(c) \/ BreakOff(c))
          /\ SF_vars(Unregister(c))

-----------------------------------------------------------------------------
(* Properties.                                                             *)

\* The update that goroutine g is about to bring to client c, if any.
Brings(g, c, f) ==
    /\ call[g] # NoCall
    /\ call[g].client = c
    /\ f \in Rendered(Merge(call[g].pending, call[g].update))

Publishes(p, c, f) ==
    \/ f \in Rendered(publisher[p].second) /\ publisher[p].pc # "idle"
    \/ /\ f \in Rendered(publisher[p].update)
       /\ \/ publisher[p].pc \in {"committed", "invalidated"}
          \/ publisher[p].pc = "signalling" /\ c \in publisher[p].todo

\* Fragment f will be rendered for client c from data that has the last change
\* due.
Coming(c, f) ==
    \/ client[c].pc = "joined"
    \/ \E g \in Goroutines : Brings(g, c, f)
    \/ \E p \in Publishers : Publishes(p, c, f)
    \/ \E i \in 1 .. Len(queue[c]) : f \in Rendered(queue[c][i])
    \/ /\ client[c].pc = "rendering"
       /\ f \in Rendered(client[c].update)
       /\ client[c].floor >= due[f]

Connected(c) == client[c].pc \in {"joined", "serving", "rendering"}

\* A fragment of a connected browser that is out of date is on its way, in
\* the event's handler, the channel or the renderer, and it will be rendered
\* from data that has the change; or its update was dropped by signalClient; or
\* it misses nothing but changes that no update brings (LeftOut, SilentCommit).
NothingForgotten ==
    \A c \in Clients, f \in Fragments :
        Connected(c) /\ view[c][f] < changed[f] =>
            Coming(c, f) \/ f \in lost[c] \/ view[c][f] >= due[f]

\* A request that changed the database is not held up by a browser that does
\* not read, however full its channel.
PublishersReturn ==
    \A p \in Publishers : publisher[p].pc # "idle" ~> publisher[p].pc = "idle"

\* A change that an update is to bring reaches the page of a browser, whatever
\* else changes, unless the update was dropped or the connection is closed, as
\* it is when the browser does not read.
ChangesShown ==
    \A c \in Clients, f \in Fragments :
        Connected(c) /\ view[c][f] < due[f]
            ~> ~Connected(c) \/ f \in lost[c] \/ view[c][f] >= due[f]
=============================================================================
